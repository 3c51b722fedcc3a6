SPECIFICATION Spec
CONSTANTS
  W = 3
  MaxPart = 2
  MaxPre = 2
  MaxArgs = 2
  MaxFiles = 3
  MaxBody = 3
INVARIANTS CompareIsOrder SatisfiesAsDocumented   
\* An input has no next one.
CHECK_DEADLOCK FALSE
