CONSTANTS
  Main = Main
  Workers = {w1, w2}
  Flush = flush
  Callback = {flush, unload}
  MaxRuns = 3
SPECIFICATION Spec
SYMMETRY Symmetry
INVARIANTS
  NoUseAfterFree
  FreshEachRun
PROPERTIES
  RestartDecision
  
\* The process ends.
CHECK_DEADLOCK FALSE
