------------------------------ MODULE IrisV4l2 ------------------------------
(***************************************************************************)
(* The V4L2 radio device of the Iris FM driver                            *)
(* (drivers/media/radio/radio-iris.c, iris_ioctl_ops) on top of the HCI   *)
(* command path of IrisHci.                                               *)
(*                                                                         *)
(* Two user threads:                                                       *)
(*  - a control thread making ioctls.  Each ioctl is the sequence of HCI   *)
(*    requests its handler makes through radio_hci_request / hci_cmd, and *)
(*    the handler's code between them; handlers that only read or store   *)
(*    fields of iris_device change nothing this model tells apart and are *)
(*    left out, except the search mode, which selects a request.          *)
(*  - a reader blocked in VIDIOC_DQBUF on the event buffer                *)
(*    (IRIS_BUF_EVENTS), woken by iris_q_event.                           *)
(* video_ioctl2 copies the ioctl argument into a buffer that lives for    *)
(* the call; a querycap call's buffer is named by the id of its request.  *)
(* A handler reaches a request either through hci_cmd or through one of   *)
(* the hci_* wrappers, which copy_from_user their argument first.         *)
(***************************************************************************)
EXTENDS IrisHci

CONSTANTS
  Ioctls,        \* the ioctl calls the control thread makes
  SearchModes    \* radio->g_search_mode & SRCH_MODE, by iris_search's branch

ASSUME SearchModes \subseteq {"station", "station_list", "rds"}

VARIABLES
  ioc,           \* the control thread's ioctl in progress, or NoIoctl
  gSearchMode    \* radio->g_search_mode

v4l2Vars == <<ioc, gSearchMode>>
allVars == <<vars, v4l2Vars>>

NoIoctl == [name |-> "none", step |-> 0, prog |-> <<>>]

(* iris_search: the request for the search mode when on, cancel when off. *)
IrisSearch(on, mode) ==
  IF ~on THEN <<"cancel_search">>
  ELSE CASE mode = "station_list" -> <<"srch_station_list">>
         [] mode = "rds"          -> <<"srch_rds_stations">>
         [] OTHER                 -> <<"search_stations">>

(* iris_set_region: the band fields for the region, then one             *)
(* hci_set_fm_recv_conf whose result is returned.                        *)
IrisSetRegion == <<"set_recv_conf">>

(* iris_set_freq: hci_fm_tune_station on the address of its argument. *)
IrisSetFreq == <<"tune_station">>

(* iris_vidioc_g_ctrl: IOVERC and INTDET run hci_cmd(STATION_DBG_PARAM)  *)
(* and return its error, SIGNAL_TH runs hci_cmd(GET_SIGNAL_TH); every     *)
(* other id reads a field of iris_device.                                  *)
GCtrlReqs(id) ==
  CASE id \in {"g_IOVERC", "g_INTDET"} -> <<"get_station_dbg_param">>
    [] id = "g_SIGNAL_TH"              -> <<"get_sig_threshold">>
    [] OTHER                           -> <<>>

(* iris_vidioc_s_ctrl: the requests each control id makes.  STATE=FM_RECV *)
(* enables the receiver and then sets the soft mute and stereo mode.      *)
SCtrlReqs(id, mode) ==
  CASE id = "AUDIO_MUTE"    -> <<"set_mute_mode">>
    [] id = "SRCHON_ON"     -> IrisSearch(TRUE, mode)
    [] id = "SRCHON_OFF"    -> IrisSearch(FALSE, mode)
    [] id = "STATE_RECV"    -> <<"enable_recv", "set_mute_mode", "set_stereo_mode">>
    [] id = "STATE_OFF"     -> <<"disable_recv">>
    [] id = "REGION"        -> IrisSetRegion
    [] id = "SIGNAL_TH"     -> <<"set_sig_threshold">>
    [] id \in {"EMPHASIS", "RDS_STD", "RDSON"} -> <<"set_recv_conf">>
    [] id = "RDSGROUP_MASK" -> <<"rds_grp">>
    [] id = "RDSGROUP_PROC" -> <<"rds_grp_process">>
    [] id = "ANTENNA"       -> <<"set_antenna">>
    [] OTHER                -> <<>>

(* The requests of every ioctl of iris_ioctl_ops that makes one:          *)
(* iris_vidioc_querycap, g_ctrl (IOVERC, INTDET, SIGNAL_TH), s_ctrl,      *)
(* g_tuner, s_tuner,                                                      *)
(* g_frequency, s_frequency (iris_set_freq) and s_hw_freq_seek            *)
(* (iris_search on).                                                      *)
IoctlReqs(name, mode) ==
  CASE name = "querycap"          -> <<"get_feature_lists">>
    [] name \in {"g_IOVERC", "g_INTDET", "g_SIGNAL_TH"} -> GCtrlReqs(name)
    [] name = "g_tuner"           -> <<"get_station_param">>
    [] name = "s_tuner"           -> <<"set_stereo_mode">>
    [] name = "g_frequency"       -> <<"get_station_param">>
    [] name = "s_frequency"       -> IrisSetFreq
    [] name = "s_hw_freq_seek"    -> IrisSearch(TRUE, mode)
    [] OTHER                      -> SCtrlReqs(name, mode)

(* Whether the handler goes on to its next request after one returned    *)
(* err: STATE=FM_RECV stops when enabling fails, and only logs the mute  *)
(* and stereo errors; every other handler makes one request.             *)
Continues(c, err) ==
  /\ c.step < Len(c.prog)
  /\ c.name = "STATE_RECV" => (c.step > 1 \/ err = RadioHciErr(0))

VInit ==
  /\ Init
  /\ ioc = NoIoctl
  /\ gSearchMode = "station"

-----------------------------------------------------------------------------
(* copy_from_user in a wrapper: access_ok tests the source address        *)
(* against the thread's addr_limit, which is USER_DS inside an ioctl, and *)
(* every caller passes a kernel address (a field of iris_device, a local, *)
(* or video_ioctl2's kernel copy of the control).  The copy fails and the *)
(* wrapper returns -EFAULT before radio_hci_request.                      *)
CopyFaults(r) == r \in ViaWrapper

(* One request of a handler: through hci_cmd, radio_hci_request; through  *)
(* a wrapper, -EFAULT and no request.                                     *)
Call(r) ==
  IF CopyFaults(r)
    THEN /\ rpc = "idle"
         /\ rret' = [id |-> 0, err |-> "EFAULT", from |-> 0]
         /\ UNCHANGED <<rpc, nReq, reqStatus, reqResult, cmdQ, cmdCnt, cmdTask,
                        everSent, inflight, rxQ, rxTask, nAsync, queued,
                        handled, lost, forced, evBuf, evWaiter, stRsp,
                        capWrites>>
    ELSE Request(r)

(* The control thread enters an ioctl handler and makes its first        *)
(* request.  querycap first points radio->g_cap at its argument buffer.  *)
IoctlStart(name) ==
  /\ ioc = NoIoctl
  /\ LET prog == IoctlReqs(name, gSearchMode) IN
       /\ prog # <<>>
       /\ Call(prog[1])
       /\ ioc' = [name |-> name, step |-> 1, prog |-> prog]
  /\ gCap' = IF name = "querycap" THEN nReq + 1 ELSE gCap
  /\ UNCHANGED gSearchMode

(* iris_vidioc_s_ctrl for SRCHMODE: store the search mode. *)
SetSearchMode(m) ==
  /\ ioc = NoIoctl
  /\ gSearchMode' = m
  /\ UNCHANGED <<vars, ioc>>

(* The handler's request returned (radio_hci_request released            *)
(* hci_req_lock): make the next request, or return.                      *)
IoctlStep ==
  /\ ioc # NoIoctl
  /\ rpc = "idle"
  /\ IF Continues(ioc, rret.err)
       THEN /\ Call(ioc.prog[ioc.step + 1])
            /\ ioc' = [ioc EXCEPT !.step = @ + 1]
       ELSE /\ ioc' = NoIoctl
            /\ UNCHANGED vars
  /\ UNCHANGED <<gCap, gSearchMode>>

-----------------------------------------------------------------------------
(* kfifo_out_locked: up to len bytes off the event buffer. *)
TakeEvents(len) ==
  evBuf' = IF len < Len(evBuf) THEN SubSeq(evBuf, len + 1, Len(evBuf)) ELSE <<>>

(* iris_vidioc_dqbuf on IRIS_BUF_EVENTS: wait_event_interruptible until   *)
(* the buffer is not empty, then copy out up to the user's length.       *)
DqbufCall ==
  /\ evWaiter = "none"
  /\ IF evBuf # <<>>
       THEN \E len \in 1..EvtFifoSize : TakeEvents(len) /\ UNCHANGED evWaiter
       ELSE evWaiter' = "sleeping" /\ UNCHANGED evBuf

(* The reader, woken by iris_q_event, finds the condition true. *)
DqbufWoken ==
  /\ evWaiter = "woken"
  /\ evBuf # <<>>
  /\ \E len \in 1..EvtFifoSize : TakeEvents(len)
  /\ evWaiter' = "none"

(* A signal ends the wait: -EINTR. *)
DqbufSignal ==
  /\ evWaiter = "sleeping"
  /\ evWaiter' = "none"
  /\ UNCHANGED evBuf

Reader ==
  /\ DqbufCall \/ DqbufWoken \/ DqbufSignal
  /\ UNCHANGED <<rpc, nReq, reqStatus, reqResult, rret, cmdQ, cmdCnt, cmdTask,
                 everSent, inflight, rxQ, rxTask, nAsync, queued, handled,
                 lost, forced, stRsp, gCap, capWrites, v4l2Vars>>

Control ==
  \/ \E name \in Ioctls : IoctlStart(name)
  \/ \E m \in SearchModes : SetSearchMode(m)
  \/ IoctlStep
  \/ (Wake \/ Interrupted) /\ UNCHANGED v4l2Vars

VNext ==
  \/ Control
  \/ (Controller \/ Tasklets) /\ UNCHANGED v4l2Vars
  \/ Reader

(* Tasklets run once scheduled, schedule_timeout expires, a task woken  *)
(* on event_queue is scheduled.  Users and the controller owe nothing.  *)
VSpec ==
  /\ VInit /\ [][VNext]_allVars
  /\ WF_allVars(CmdTask /\ UNCHANGED v4l2Vars)
  /\ WF_allVars(RxTask /\ UNCHANGED v4l2Vars)
  /\ WF_allVars(Wake /\ UNCHANGED v4l2Vars)
  /\ WF_allVars(Reader /\ DqbufWoken)

-----------------------------------------------------------------------------
(* Type invariant of the V4L2 layer. *)
VTypeOK ==
  /\ TypeOK
  /\ ioc = NoIoctl \/ (ioc.step \in 1..Len(ioc.prog) /\ ioc.prog \in Seq(Requests))
  /\ gSearchMode \in SearchModes \cup {"station"}

(* The querycap call whose argument buffer radio->g_cap points into is  *)
(* still in its handler. *)
QueryCapInProgress == ioc.name = "querycap" /\ gCap = nReq

(* hci_cc_feature_list_rsp writes the feature mask through radio->g_cap *)
(* only while the querycap call that set it is still in its handler: a *)
(* querycap that returned on a timeout or a signal must not have its    *)
(* buffer written by the late Command Complete.                         *)
CapWriteTargetsLiveCall ==
  [][capWrites' # capWrites => QueryCapInProgress]_allVars

(* A reader blocked in VIDIOC_DQBUF while events are buffered returns:  *)
(* every event iris_q_event stores wakes event_queue.                   *)
EventReachesReader ==
  (evWaiter # "none" /\ evBuf # <<>>) ~> (evWaiter = "none")

(* VIDIOC_S_FREQUENCY hands the frequency to the controller:             *)
(* iris_vidioc_s_frequency returns only after iris_set_freq's            *)
(* hci_fm_tune_station made its request through radio_hci_request (nReq  *)
(* counts the requests made; s_frequency is the only ioctl that checks it). *)
SetFrequencyTunes == [][ioc.name = "s_frequency" /\ ioc' = NoIoctl => nReq > 0]_allVars
=============================================================================
