CONSTANTS
  NumChannels = 2
  Clients <- MCClients
  c1 = c1
  c2 = c2
  NULL = NULL
  PayloadLens <- MCPayloadLens
  Tailrooms <- MCTailrooms
  RxChIds <- MCInTable
  AllocMayFail = FALSE
  TxRing = 3
  MaxWrites = 2
  MaxRx = 2
  MaxCalls = 3
SPECIFICATION Spec
INVARIANT
  WriteDoneTargetRegistered
SYMMETRY MCSymmetry
CHECK_DEADLOCK FALSE
