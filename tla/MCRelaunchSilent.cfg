SPECIFICATION Spec
CONSTANTS
  short = short
  long = long
  ok = ok
  magic = magic
  failed = failed
  Tails = {short, long}
  LongTails = {long}
  NoTail = NoTail
  Code = {ok, magic, failed}
  Magic = magic
  Failed = failed
  NoCode = NoCode
  MaxRequests = 2
  MaxLostWrites = 0
  MaxBurst = 2
  Window = 2
  MaxTime = 2
INVARIANT NeverLostSilently
