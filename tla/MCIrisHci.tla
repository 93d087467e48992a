------------------------------ MODULE MCIrisHci ------------------------------
(* Instances of IrisHci for TLC: any sequence of requests of ReqKinds. *)
EXTENDS IrisHci

(* A RECV_CTRL request whose opcode the Command Complete switch handles,  *)
(* and one that carries a status.                                         *)
MCReqKinds == {"set_mute_mode", "get_recv_conf"}
MCStatusesOk == {0}
MCNumPkts == {0, 1}
MCNoRsp == {{}}
MCNoAsync == {}
=============================================================================
