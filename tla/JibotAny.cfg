SPECIFICATION FairSpec
CONSTANTS
  Tasks = {t1, t2}
  Commands = {goto, map}
  Goto = goto
  Streamed = {map}
  Error = error
  MaxRequests = 2
  MaxFrames = 3
  MaxSessions = 4
  MaxFaults = 2
INVARIANT LinkUpIsRead
INVARIANT FrameInOnePlace
PROPERTY LinkRecovers
CHECK_DEADLOCK FALSE
