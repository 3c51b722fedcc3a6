SPECIFICATION FairSpec
CONSTANTS
  short = short
  long = long
  ok = ok
  magic = magic
  failed = failed
  Tails = {short, long}
  LongTails = {long}
  NoTail = NoTail
  Code = {ok, magic, failed}
  Magic = magic
  Failed = failed
  NoCode = NoCode
  MaxRequests = 5
  MaxLostWrites = 1
  MaxBurst = 2
  Window = 1
  MaxTime = 2
INVARIANTS TypeOK NeverAChain FittingNeverLost
PROPERTIES RelaunchesWhatWasAsked BurstSpec RequestIsAnswered
