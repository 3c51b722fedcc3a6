SPECIFICATION Spec
CONSTANTS
  w1 = w1
  w2 = w2
  w3 = w3
  p = p
  q = q
  a = a
  c = c
  v1 = v1
  v2 = v2
  file1 = file1
  file2 = file2
  latestReq = latestReq
  exact1 = exact1
  range = range
  Worker = {w1}
  NoWorker = NoWorker
  Process = {p, q}
  ProcessOf <- MCProcessOf
  Name = {c}
  Version = {v1, v2}
  File = {file1, file2}
  NoVersion = NoVersion
  NoDir = NoDir
  Request = {latestReq, exact1, range}
  Latest = latestReq
  Exact <- MCExact
  Satisfies <- EqualSatisfies
  Rank <- EqualRank
  Published <- AllPublished
  Files <- MCFiles
  Deps <- NoDeps
  MaxDepth = 2
  MaxInstalls = 2
  MaxCrashes = 0
INVARIANT ResultIsInstalled
