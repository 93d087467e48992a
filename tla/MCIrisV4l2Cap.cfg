CONSTANTS
  ReqKinds <- MCCapReqKinds
  Statuses <- MCStatusesOkOnly
  NumPkts <- MCNumPktsOnlyOne
  StationRsps <- MCNoRsp
  Ioctls <- MCIoctlsCap
  SearchModes <- MCSearchModes
  AllocMayFail = FALSE
  MaxReqs = 2
  MaxAsync = 0
  AsyncKinds <- MCNoAsync
  EvtFifoSize = 1
SPECIFICATION VSpec
PROPERTY CapWriteTargetsLiveCall
CHECK_DEADLOCK FALSE
