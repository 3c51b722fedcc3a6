SPECIFICATION Spec
CONSTANTS
  app1 = app1
  app2 = app2
  plain = plain
  Process = {app1, app2, plain}
  Carrier = {app1, app2}
  Elder = Elder
  MaxStarts = 1
  MaxFailures = 1
  MaxCrashes = 1
SYMMETRY Symmetry
INVARIANTS TypeOK NeverTorn OnlyRacesStopIt
\* The starts are bounded, and a process that has ended is not started again.
CHECK_DEADLOCK FALSE
