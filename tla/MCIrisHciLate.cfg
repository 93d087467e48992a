CONSTANTS
  ReqKinds <- MCReqKinds
  Statuses <- MCStatusesOk
  NumPkts <- MCNumPkts
  AllocMayFail = FALSE
  MaxReqs = 2
  MaxAsync = 0
  StationRsps <- MCNoRsp
  AsyncKinds <- MCNoAsync
  EvtFifoSize = 1
SPECIFICATION Spec
INVARIANT ResultFromOwnCommand
CHECK_DEADLOCK FALSE
