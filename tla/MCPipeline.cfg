CONSTANTS
  x = x
  y = y
  m = m
  n = n
  o = o
  p = p
  s = s
  t = t
  None = None
  Xts = {x, y}
  Keys = {m, n, o, p}
  Slots = {s, t}
  Setups <- AllSetups
  TraceCall <- TraceOf
  SimulateCall <- SimulateWithMailbox
  MaxTraceDepth = 3
  MaxFaults = 1
  MaxClears = 1
SPECIFICATION FairSpec
CHECK_DEADLOCK FALSE
INVARIANT
  ParsedAsExecuted
  YesVoteEarned
  SentOnce
  OwnWritesVisible
PROPERTY
  OverlayMovesForward
  StatusForward
  EveryXtVoted
  CleanRunVotesYes
