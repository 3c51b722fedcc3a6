\* Two apps that carry the runtime start over an older one.
SPECIFICATION Spec
CONSTANTS
  app1 = app1
  app2 = app2
  plain = plain
  Process = {app1, app2}
  Carrier = {app1, app2}
  Elder = Elder
  MaxStarts = 1
  MaxFailures = 0
  MaxCrashes = 0
SYMMETRY Symmetry
INVARIANT BundledStarts
\* The starts are bounded, and a process that has ended is not started again.
CHECK_DEADLOCK FALSE
