SPECIFICATION Spec
CONSTANTS
  main = main
  w1 = w1
  a1 = a1
  a2 = a2
  a3 = a3
  a4 = a4
  Thread = {main, w1}
  NoThread = NoThread
  Main = main
  Address = {a1, a2}
  NoRecord = NoRecord
  FaultPlaces = {"walk", "note", "line"}
  MaxFaults = 2
INVARIANT NestedReturnsAtOnce
