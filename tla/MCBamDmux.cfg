CONSTANTS
  NumChannels = 2
  Clients <- MCClients
  c1 = c1
  c2 = c2
  NULL = NULL
  PayloadLens <- MCPayloadLens
  Tailrooms <- MCTailrooms
  RxChIds <- MCInTable
  AllocMayFail = TRUE
  TxRing = 2
  MaxWrites = 1
  MaxRx = 2
  MaxCalls = 2
SPECIFICATION Spec
INVARIANTS
  TypeOK
  RxBufferAccounted
  WriteDoneHasBuffer
  UnwindReleasesOnlyHeld
PROPERTIES
  ImplementsChannels
CHECK_DEADLOCK FALSE
