CONSTANTS
  NumChannels = 1
  Clients <- MCClients
  c1 = c1
  c2 = c2
  NULL = NULL
  PayloadLens <- MCPayloadLens
  Tailrooms <- MCTailrooms
  RxChIds <- MCInTable
  AllocMayFail = FALSE
  TxRing = 3
  MaxWrites = 1
  MaxRx = 1
  MaxCalls = 2
SPECIFICATION Spec
INVARIANT
  PeerViewMatchesLocal
SYMMETRY MCSymmetry
CHECK_DEADLOCK FALSE
