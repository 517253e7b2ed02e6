SPECIFICATION FairSpec
CONSTANTS
  Requests = {r1, r2, r3}
  NoRequest = NoRequest
  MaxStreams = 2
  SeqModulus = 2
INVARIANT OwnAnswer
PROPERTY KeepsPromise
PROPERTY CallsReturn
CHECK_DEADLOCK FALSE
