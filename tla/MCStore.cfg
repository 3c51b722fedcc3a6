\* Two processes, two modules that depend on each other in a cycle.
SPECIFICATION FairSpec
CONSTANTS
  w1 = w1
  w2 = w2
  w3 = w3
  p = p
  q = q
  a = a
  c = c
  v1 = v1
  v2 = v2
  file1 = file1
  file2 = file2
  latestReq = latestReq
  exact1 = exact1
  range = range
  Worker = {w1, w3}
  NoWorker = NoWorker
  Process = {p, q}
  ProcessOf <- MCProcessOf
  Name = {a, c}
  Version = {v1, v2}
  File = {file1, file2}
  NoVersion = NoVersion
  NoDir = NoDir
  Request = {latestReq, exact1, range}
  Latest = latestReq
  Exact <- MCExact
  Satisfies <- MCSatisfies
  Rank <- MCRank
  Published <- AllPublished
  Files <- MCFiles
  Deps <- CyclicDeps
  MaxDepth = 2
  MaxInstalls = 1
  MaxCrashes = 1
INVARIANTS FoldersComplete DependenciesInstalled ResultIsInstalled LatestIsInstalled
PROPERTIES LosingTheRaceIsFine StoreSpec 
