----------------------------- MODULE MCIrisV4l2 -----------------------------
(* Instances of IrisV4l2 for TLC. *)
EXTENDS IrisV4l2

(* Receiver on (enable, then mute and stereo through wrappers), a        *)
(* hardware seek whose request depends on the search mode, which the    *)
(* control thread may switch to the station list first, and g_tuner.    *)
MCIoctls == {"STATE_RECV", "s_hw_freq_seek", "g_tuner"}
MCSearchModes == {"station_list"}
(* Every request those ioctls send to the controller. *)
MCV4l2ReqKinds ==
  {r \in UNION {ToSet(IoctlReqs(n, m)) : n \in MCIoctls,
                                        m \in MCSearchModes \cup {"station"}} :
     ~CopyFaults(r)}
MCStatuses == {0, 3}
MCNumPkts == {0, 1}
MCStationRsps == {{"rssi", "stereo", "rds"}}
(* A tune completion: the events it queues fill the event buffer. *)
MCAsyncKinds == {"tune_compl"}

(* querycap alone, answered with success and a credit. *)
MCIoctlsCap == {"querycap"}
MCCapReqKinds == {"get_feature_lists"}
MCStatusesOkOnly == {0}
MCNumPktsOnlyOne == {1}
MCNoRsp == {{}}
MCNoAsync == {}
(* s_frequency alone: the controller would answer tune_station at once. *)
MCIoctlsTune == {"s_frequency"}
MCTuneReqKinds == {"tune_station"}
=============================================================================
