CONSTANTS
  None = None
  p1 = p1
  p2 = p2
  c1 = c1
  c2 = c2
  Proc <- TwoProcs
  Client <- OneClient
  Burst = 1
  Cost = 2
  TTL = 2
  SweepEvery = 2
  Prompt = TRUE
  MaxTime = 3
  MaxInserts = 3
  MaxDebt = 2
SYMMETRY Symmetry
SPECIFICATION Spec
INVARIANT RejectionIsFree
CHECK_DEADLOCK FALSE
