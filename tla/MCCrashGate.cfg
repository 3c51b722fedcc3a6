SPECIFICATION FairSpec
CONSTANTS
  main = main
  w1 = w1
  a1 = a1
  a2 = a2
  a3 = a3
  a4 = a4
  Thread = {main, w1}
  NoThread = NoThread
  Main = main
  Address = {a1, a2}
  NoRecord = NoRecord
  FaultPlaces = {"walk", "note", "line"}
  MaxFaults = 3
\* A mutex torn from its owner is never free again (README).
CHECK_DEADLOCK FALSE
INVARIANTS OneWalker ReportedOnce
PROPERTY EveryReportReturns
