CONSTANTS
  ReqKinds <- MCTuneReqKinds
  Statuses <- MCStatusesOkOnly
  NumPkts <- MCNumPktsOnlyOne
  StationRsps <- MCNoRsp
  Ioctls <- MCIoctlsTune
  SearchModes <- MCSearchModes
  AllocMayFail = FALSE
  MaxReqs = 1
  MaxAsync = 0
  AsyncKinds <- MCNoAsync
  EvtFifoSize = 1
SPECIFICATION VSpec
PROPERTY SetFrequencyTunes
CHECK_DEADLOCK FALSE
