\* Two Lua states, two modules that may import each other while they load.
SPECIFICATION FairSpec
CONSTANTS
  t1 = t1
  t2 = t2
  Thread = {t1, t2}
  NoThread = NoThread
  a = a
  b = b
  Name = {a, b}
  v1 = v1
  v2 = v2
  bundled = bundled
  Folder = {v1, bundled}
  StoreFolder <- MCStoreFolder
  NoFolder = NoFolder
  any = any
  only1 = only1
  only2 = only2
  Request = {any, only2}
  Free = {any}
  Satisfies <- MCSatisfies
  MaxCalls = 2
  MaxDepth = 1
INVARIANTS TypeOK OneInstaller NoStrandedWaiter NeverFromWorkingDirectory RightVersion 
PROPERTIES TableSpec EveryCallReturns LockNeverWaitsForNetwork
