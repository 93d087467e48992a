CONSTANTS
  ReqKinds <- MCV4l2ReqKinds
  Statuses <- MCStatuses
  NumPkts <- MCNumPkts
  StationRsps <- MCStationRsps
  Ioctls <- MCIoctls
  SearchModes <- MCSearchModes
  AllocMayFail = TRUE
  MaxReqs = 2
  MaxAsync = 1
  AsyncKinds <- MCAsyncKinds
  EvtFifoSize = 2
SPECIFICATION VSpec
INVARIANTS VTypeOK FlowControlBound CommandConservation
PROPERTIES EventReachesReader
CHECK_DEADLOCK FALSE
