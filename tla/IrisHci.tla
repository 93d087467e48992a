------------------------------ MODULE IrisHci ------------------------------
(***************************************************************************)
(* The HCI command path of the Iris FM radio driver                       *)
(* (drivers/media/radio/radio-iris.c): synchronous requests, the command   *)
(* queue with its one-credit flow control, and the event path.             *)
(*                                                                         *)
(* Actors:                                                                 *)
(*  - The requester: an ioctl thread in radio_hci_request.  hci_req_lock  *)
(*    serializes all requests, so they form one sequence; which thread    *)
(*    issues each is irrelevant.  __radio_hci_request sets req_status to  *)
(*    PEND, runs the *_req function (radio_hci_send_cmd: queue the skb on *)
(*    cmd_q and schedule cmd_task) and sleeps until woken, until its      *)
(*    timeout, or until a signal.                                         *)
(*  - cmd_task (tasklet radio_hci_cmd_task): sends the head of cmd_q when *)
(*    cmd_cnt allows, restoring cmd_cnt itself once a second has passed   *)
(*    since the last send.                                                *)
(*  - The FM controller: answers each command, in order, with a Command   *)
(*    Complete echoing its opcode or with a Command Status, a status      *)
(*    byte and num_hci_cmd_pkts; it may also send unsolicited events.     *)
(*    It may answer late or never.                                        *)
(*  - rx_task (tasklet radio_hci_rx_task): takes one event off rx_q and   *)
(*    dispatches it (radio_hci_event_packet).  The handlers also update   *)
(*    the radio device: they queue IRIS events on the event buffer and    *)
(*    wake its reader, store the station response, and write the feature *)
(*    mask through radio->g_cap.                                          *)
(* A tasklet_schedule of a tasklet already scheduled does nothing; its    *)
(* scheduled bit is cleared when it starts to run.                        *)
(*                                                                         *)
(* Time is not modelled: a timeout may expire at any point of the wait,   *)
(* and whether a second has passed since the last send is a free choice   *)
(* (it has, before the first send).                                       *)
(***************************************************************************)
EXTENDS Naturals, Sequences, SequencesExt, FiniteSets, IrisHciOpcodes

CONSTANTS
  ReqKinds,      \* request functions the ioctl layer calls
  Statuses,      \* status bytes the controller answers with
  NumPkts,       \* num_hci_cmd_pkts values in its answers
  AllocMayFail,  \* alloc_skb in radio_hci_send_cmd / skb_clone may fail
  MaxReqs,       \* bound: requests made
  MaxAsync,      \* bound: unsolicited events from the controller
  EvtFifoSize,   \* bound: bytes of data_buf[IRIS_BUF_EVENTS] (STD_BUF_SIZE)
  StationRsps,   \* station responses the controller reports (flags set)
  AsyncKinds     \* kinds of unsolicited events the controller sends

ASSUME ReqKinds \subseteq Requests
ASSUME 0 \in Statuses /\ NumPkts \subseteq {0, 1}
ASSUME EvtFifoSize \in Nat \ {0}
ASSUME StationRsps \subseteq SUBSET {"rssi", "stereo", "mute", "rds"}
ASSUME AsyncKinds \subseteq {"tune_status", "tune_compl", "stereo_status",
                             "search_compl", "search_next", "other"}

(* hdev->req_status *)
HCI_REQ_NONE == "none"
HCI_REQ_PEND == "PEND"
HCI_REQ_DONE == "DONE"
HCI_REQ_STATUS == "STATUS"

Ids == 1..MaxReqs
Cmd == [id : Ids, op : {ReqOpcode[r] : r \in ReqKinds}]
NoOp == Op("NONE", "NONE")
(* Events of radio_hci_event_packet other than Command Complete/Status:  *)
(* tune status (a station response), tune complete and stereo status     *)
(* (a status byte), search complete, search progress, and the RDS and    *)
(* list events the switch ignores ("other").                             *)
AsyncEv(k, s, rsp) ==
  [ev |-> k, id |-> 0, op |-> NoOp, status |-> s, num |-> 0, rsp |-> rsp]
AsyncEvents ==
  { e \in {AsyncEv("tune_status", 0, rsp) : rsp \in StationRsps}
          \cup {AsyncEv(k, s, {}) : k \in {"tune_compl", "stereo_status"},
                                   s \in Statuses}
          \cup {AsyncEv(k, 0, {}) : k \in {"search_compl", "search_next", "other"}} :
      e.ev \in AsyncKinds }
Event == [ev : {"cc", "cs"}, id : Ids, op : {ReqOpcode[r] : r \in ReqKinds},
          status : Statuses, num : NumPkts, rsp : StationRsps \cup {{}}]
         \cup AsyncEvents
IsAnswer(e) == e.ev \in {"cc", "cs"}

(* enum iris_evt_t values queued on the event buffer. *)
IrisEvts == {"RADIO_READY", "TUNE_SUCC", "SEEK_COMPLETE", "SCAN_NEXT",
             "ABOVE_TH", "BELOW_TH", "STEREO", "MONO", "RDS_AVAIL",
             "RDS_NOT_AVAIL"}
Errors == {"ETIMEDOUT", "EINTR", "EFAULT"} \cup {RadioHciErr(s) : s \in Statuses}
Return == [id : 0..MaxReqs, err : Errors \cup {"none"}, from : 0..MaxReqs]

VARIABLES
  rpc,        \* requester: "idle" or "waiting" in __radio_hci_request
  nReq,       \* requests made; the id of the current or last request
  reqStatus,  \* hdev->req_status
  reqResult,  \* hdev->req_result and, as history, the id it answers
  rret,       \* the return of the last request
  cmdQ,       \* hdev->cmd_q
  cmdCnt,     \* hdev->cmd_cnt
  cmdTask,    \* cmd_task scheduled
  everSent,   \* a command was sent (cmd_last_tx was set)
  inflight,   \* commands sent and not yet answered by the controller
  rxQ,        \* hdev->rx_q: received events not yet dispatched
  rxTask,     \* rx_task scheduled
  nAsync,     \* unsolicited events sent (bounded by MaxAsync)
  queued,     \* history: ids whose command skb was queued
  handled,    \* history: ids whose answer was dispatched
  lost,       \* history: ids whose skb cmd_task dequeued and dropped
  forced,     \* history: times cmd_task restored cmd_cnt after 1 s
  evBuf,      \* radio->data_buf[IRIS_BUF_EVENTS], one byte per event
  evWaiter,   \* the dqbuf reader on radio->event_queue: none/sleeping/woken
  stRsp,      \* radio->fm_st_rsp.station_rsp, as the flags that are set
  gCap,       \* radio->g_cap: 0 (NULL) or the querycap call it points into
  capWrites   \* history: feature masks written through radio->g_cap

radioVars == <<evBuf, evWaiter, stRsp, gCap, capWrites>>
vars == <<rpc, nReq, reqStatus, reqResult, rret, cmdQ, cmdCnt, cmdTask,
          everSent, inflight, rxQ, rxTask, nAsync, queued, handled, lost,
          forced, radioVars>>

Init ==
  /\ rpc = "idle"
  /\ nReq = 0
  /\ reqStatus = HCI_REQ_NONE
  /\ reqResult = [code |-> 0, from |-> 0]
  /\ rret = [id |-> 0, err |-> "none", from |-> 0]
  /\ cmdQ = <<>>
  /\ cmdCnt = 0
  /\ cmdTask = FALSE
  /\ everSent = FALSE
  /\ inflight = <<>>
  /\ rxQ = <<>>
  /\ rxTask = FALSE
  /\ nAsync = 0
  /\ queued = {}
  /\ handled = {}
  /\ lost = {}
  /\ forced = 0
  /\ evBuf = <<>>
  /\ evWaiter = "none"
  /\ stRsp = {}          \* iris_device is kzalloc'ed by iris_probe
  /\ gCap = 0
  /\ capWrites = 0

-----------------------------------------------------------------------------
(* radio_hci_send_cmd: alloc_skb, then skb_queue_tail(cmd_q) and        *)
(* tasklet_schedule(cmd_task); -ENOMEM on a failed allocation.            *)
SendCmd(id, opcode) ==
  \/ AllocMayFail /\ UNCHANGED <<cmdQ, cmdTask, queued>>
  \/ /\ cmdQ' = Append(cmdQ, [id |-> id, op |-> opcode])
     /\ cmdTask' = TRUE
     /\ queued' = queued \cup {id}

(* radio_hci_request / __radio_hci_request up to the sleep: req_status =  *)
(* PEND, then the *_req function's radio_hci_send_cmd, whose alloc_skb    *)
(* failure is ignored by the void *_req function.                         *)
Request(r) ==
  /\ rpc = "idle"
  /\ nReq < MaxReqs
  /\ nReq' = nReq + 1
  /\ rpc' = "waiting"
  /\ reqStatus' = HCI_REQ_PEND
  /\ SendCmd(nReq + 1, ReqOpcode[r])
  /\ UNCHANGED <<reqResult, rret, cmdCnt, everSent, inflight, rxQ, rxTask,
                 nAsync, handled, lost, forced, evBuf, evWaiter, stRsp,
                 capWrites>>

(* __radio_hci_request after schedule_timeout returns, woken or timed     *)
(* out, with no signal pending: DONE and STATUS give radio_hci_err of the *)
(* result, anything else -ETIMEDOUT; req_status and req_result reset.     *)
Wake ==
  /\ rpc = "waiting"
  /\ LET done == reqStatus \in {HCI_REQ_DONE, HCI_REQ_STATUS}
     IN rret' = [id       |-> nReq,
                 err      |-> IF done THEN RadioHciErr(reqResult.code)
                                      ELSE "ETIMEDOUT",
                 from     |-> IF done THEN reqResult.from ELSE 0]
  /\ reqStatus' = HCI_REQ_NONE
  /\ reqResult' = [code |-> 0, from |-> 0]
  /\ rpc' = "idle"
  /\ UNCHANGED <<nReq, cmdQ, cmdCnt, cmdTask, everSent, inflight, rxQ,
                 rxTask, nAsync, queued, handled, lost, forced, radioVars>>

(* A signal ends the sleep: -EINTR, req_status left as it is. *)
Interrupted ==
  /\ rpc = "waiting"
  /\ rret' = [id |-> nReq, err |-> "EINTR", from |-> 0]
  /\ rpc' = "idle"
  /\ UNCHANGED <<nReq, reqStatus, reqResult, cmdQ, cmdCnt, cmdTask, everSent,
                 inflight, rxQ, rxTask, nAsync, queued, handled, lost, forced, radioVars>>

-----------------------------------------------------------------------------
(* hci_send_frame: skb->dev is the registered hdev (radio_hci_send_cmd   *)
(* set it), so the frame goes to the transport's send and on to the      *)
(* controller.                                                            *)
HciSendFrame(c) == inflight' = Append(inflight, c)

(* Mutant: the send forgets atomic_dec(cmd_cnt). *)
SendHeadNoDec(cnt) ==
  /\ cmdQ' = Tail(cmdQ)
  /\ HciSendFrame(Head(cmdQ))
  /\ cmdCnt' = cnt
  /\ everSent' = TRUE
  /\ cmdTask' = FALSE
  /\ UNCHANGED lost

(* Mutant: a failed clone frees the skb instead of requeueing it. *)
RequeueHeadFree(cnt) ==
  /\ AllocMayFail
  /\ cmdQ' = Tail(cmdQ)
  /\ cmdCnt' = cnt
  /\ cmdTask' = FALSE
  /\ UNCHANGED <<everSent, inflight, lost>>

(* With a credit in hand: kfree_skb(sent_cmd), sent_cmd = skb_clone;     *)
(* the clone done, atomic_dec(cmd_cnt), hci_send_frame, cmd_last_tx.      *)
SendHead(cnt) ==
  /\ cmdQ' = Tail(cmdQ)
  /\ HciSendFrame(Head(cmdQ))
  /\ cmdCnt' = cnt - 1
  /\ everSent' = TRUE
  /\ cmdTask' = FALSE
  /\ UNCHANGED lost

(* The clone failed: skb_queue_head(cmd_q, skb) and tasklet_schedule. *)
RequeueHead(cnt) ==
  /\ AllocMayFail
  /\ cmdCnt' = cnt
  /\ cmdTask' = TRUE
  /\ UNCHANGED <<cmdQ, everSent, inflight, lost>>

(* Mutant: cmd_task sends whenever cmd_q is not empty, testing skb but   *)
(* not cmd_cnt.                                                           *)
CmdTaskNoCredit ==
  /\ cmdTask
  /\ \E elapsed \in IF everSent THEN BOOLEAN ELSE {TRUE} :
       LET timedOut == cmdCnt = 0 /\ elapsed
           cnt      == IF timedOut THEN 1 ELSE cmdCnt
       IN /\ forced' = IF timedOut THEN forced + 1 ELSE forced
          /\ IF cmdQ = <<>>
               THEN /\ cmdCnt' = cnt
                    /\ cmdTask' = FALSE
                    /\ UNCHANGED <<cmdQ, everSent, inflight, lost>>
               ELSE SendHead(cnt) \/ RequeueHead(cnt)
  /\ UNCHANGED <<rpc, nReq, reqStatus, reqResult, rret, rxQ, rxTask, nAsync,
                 queued, handled, radioVars>>

(* radio_hci_cmd_task: with no credit and a second gone since the last    *)
(* send, take the credit back; skb_dequeue the head of cmd_q; with a      *)
(* credit, send it or put it back.  The skb was dequeued before cmd_cnt   *)
(* was tested, so with no credit it is dropped.                           *)
CmdTask ==
  /\ cmdTask
  /\ \E elapsed \in IF everSent THEN BOOLEAN ELSE {TRUE} :
       LET timedOut == cmdCnt = 0 /\ elapsed
           cnt      == IF timedOut THEN 1 ELSE cmdCnt
       IN /\ forced' = IF timedOut THEN forced + 1 ELSE forced
          /\ IF cmdQ = <<>>
               THEN /\ cmdCnt' = cnt
                    /\ cmdTask' = FALSE
                    /\ UNCHANGED <<cmdQ, everSent, inflight, lost>>
             ELSE IF cnt = 0
               THEN /\ cmdQ' = Tail(cmdQ)
                    /\ lost' = lost \cup {Head(cmdQ).id}
                    /\ cmdCnt' = cnt
                    /\ cmdTask' = FALSE
                    /\ UNCHANGED <<everSent, inflight>>
             ELSE SendHead(cnt) \/ RequeueHead(cnt)
  /\ UNCHANGED <<rpc, nReq, reqStatus, reqResult, rret, rxQ, rxTask, nAsync,
                 queued, handled, radioVars>>

-----------------------------------------------------------------------------
(* The controller answers the oldest command it holds; the transport's    *)
(* radio_hci_recv_frame queues the event on rx_q and schedules rx_task.   *)
(* A Command Complete for GET_STATION_PARAM carries a station response.   *)
Answer ==
  /\ inflight # <<>>
  /\ LET c == Head(inflight)
         rsps == IF c.op = Op(RECV, "GET_STATION_PARAM_REQ")
                   THEN StationRsps ELSE {{}}
     IN \E kind \in {"cc", "cs"}, s \in Statuses, n \in NumPkts, rsp \in rsps :
          rxQ' = Append(rxQ, [ev |-> kind, id |-> c.id, op |-> c.op,
                              status |-> s, num |-> n,
                              rsp |-> IF kind = "cc" THEN rsp ELSE {}])
  /\ inflight' = Tail(inflight)
  /\ rxTask' = TRUE
  /\ UNCHANGED <<rpc, nReq, reqStatus, reqResult, rret, cmdQ, cmdCnt, cmdTask,
                 everSent, nAsync, queued, handled, lost, forced, radioVars>>

(* An unsolicited event (tune status and completion, search progress and *)
(* completion, stereo status, RDS, ...).                                 *)
AsyncEvent ==
  /\ nAsync < MaxAsync
  /\ nAsync' = nAsync + 1
  /\ \E e \in AsyncEvents : rxQ' = Append(rxQ, e)
  /\ rxTask' = TRUE
  /\ UNCHANGED <<rpc, nReq, reqStatus, reqResult, rret, cmdQ, cmdCnt, cmdTask,
                 everSent, inflight, queued, handled, lost, forced, radioVars>>

(* Whether dispatching event e completes the pending request:            *)
(* hci_cmd_complete_event's handlers on status 0 for an opcode of its     *)
(* switch (radio_hci_req_complete), hci_cmd_status_event always           *)
(* (radio_hci_status_complete).                                           *)
Completes(e) ==
  \/ e.ev = "cc" /\ e.op \in CompleteHandled /\ e.status = 0
  \/ e.ev = "cs"

(* The tail of hci_cmd_complete_event and hci_cmd_status_event: a        *)
(* nonzero num_hci_cmd_pkts sets cmd_cnt to 1 and, with cmd_q not empty,  *)
(* schedules cmd_task.                                                    *)
CmdCredit(e) == IsAnswer(e) /\ e.num > 0

(* The events hci_ev_tune_compl queues after a successful tune, from the *)
(* station response stored by the last tune status: the RT/RDS buffers   *)
(* it resets hold no state of this model.                                *)
TuneComplEvents(rsp) ==
  <<"TUNE_SUCC", IF "rssi" \in rsp THEN "ABOVE_TH" ELSE "BELOW_TH">>
  \o (IF "stereo" \in rsp THEN <<"STEREO">> ELSE <<>>)
  \o (IF "mute" \in rsp THEN <<"MONO">> ELSE <<>>)
  \o <<IF "rds" \in rsp THEN "RDS_AVAIL" ELSE "RDS_NOT_AVAIL">>

(* The IRIS events the handler of e passes to iris_q_event, in order:   *)
(* hci_cc_fm_disable_rsp, hci_ev_tune_compl, hci_ev_search_compl,        *)
(* hci_ev_search_next, hci_ev_stereo_status.                             *)
IrisEvents(e) ==
  CASE e.ev = "cc" /\ e.op = Op(RECV, "DISABLE_RECV_REQ") /\ e.status = 0
                                  -> <<"RADIO_READY">>
    [] e.ev = "tune_compl" /\ e.status = 0 -> TuneComplEvents(stRsp)
    [] e.ev = "search_compl"     -> <<"SEEK_COMPLETE">>
    [] e.ev = "search_next"      -> <<"SCAN_NEXT">>
    [] e.ev = "stereo_status"    -> <<IF e.status # 0 THEN "STEREO" ELSE "MONO">>
    [] OTHER                     -> <<>>

(* Mutant: iris_q_event stores the byte but does not wake event_queue. *)
QueueEventsNoWake(es) ==
  LET n == IF Len(es) < EvtFifoSize - Len(evBuf)
             THEN Len(es) ELSE EvtFifoSize - Len(evBuf)
  IN /\ evBuf' = evBuf \o SubSeq(es, 1, n)
     /\ evWaiter' = evWaiter

(* iris_q_event for each of es: kfifo_in_locked of one byte, which does  *)
(* nothing when the buffer is full; a byte stored wakes event_queue.     *)
QueueEvents(es) ==
  LET n == IF Len(es) < EvtFifoSize - Len(evBuf)
             THEN Len(es) ELSE EvtFifoSize - Len(evBuf)
  IN /\ evBuf' = evBuf \o SubSeq(es, 1, n)
     /\ evWaiter' = IF n > 0 /\ evWaiter = "sleeping" THEN "woken" ELSE evWaiter

(* hci_cc_station_rsp copies the whole response, whatever its status;    *)
(* hci_ev_tune_status copies the station response.                       *)
StoresStationRsp(e) ==
  \/ e.ev = "cc" /\ e.op = Op(RECV, "GET_STATION_PARAM_REQ")
  \/ e.ev = "tune_status"

(* hci_cc_feature_list_rsp writes the feature mask through radio->g_cap  *)
(* when the status is 0.                                                  *)
WritesCap(e) ==
  e.ev = "cc" /\ e.op = Op(COMMON, "GET_FEATURE_LIST") /\ e.status = 0

(* radio_hci_event_packet for event e: completion only takes effect on  *)
(* a PEND request.  A Command Complete or Status with num_hci_cmd_pkts    *)
(* restores cmd_cnt and reschedules cmd_task when cmd_q is not empty.     *)
(* The handlers' effects on the radio device happen before the            *)
(* completion.                                                            *)
EventPacket(e) ==
  LET credit == CmdCredit(e)
  IN /\ IF Completes(e) /\ reqStatus = HCI_REQ_PEND
          THEN /\ reqStatus' = IF e.ev = "cc" THEN HCI_REQ_DONE
                                              ELSE HCI_REQ_STATUS
               /\ reqResult' = [code |-> e.status, from |-> e.id]
          ELSE UNCHANGED <<reqStatus, reqResult>>
     /\ cmdCnt' = IF credit THEN 1 ELSE cmdCnt
     /\ cmdTask' = (cmdTask \/ (credit /\ cmdQ # <<>>))
     /\ handled' = IF IsAnswer(e) THEN handled \cup {e.id} ELSE handled
     /\ QueueEvents(IrisEvents(e))
     /\ stRsp' = IF StoresStationRsp(e) THEN e.rsp ELSE stRsp
     /\ capWrites' = IF WritesCap(e) THEN capWrites + 1 ELSE capWrites

(* radio_hci_rx_task: under read_lock(hci_task_lock), one event off rx_q, *)
(* dispatched.  The run clears the tasklet's scheduled bit.              *)
RxTask ==
  /\ rxTask
  /\ rxQ # <<>>
  /\ rxTask' = FALSE
  /\ EventPacket(Head(rxQ))
  /\ rxQ' = Tail(rxQ)
  /\ UNCHANGED <<rpc, nReq, rret, cmdQ, everSent, inflight, nAsync, queued,
                 lost, forced, gCap>>

-----------------------------------------------------------------------------
Requester == (\E r \in ReqKinds : Request(r) /\ UNCHANGED gCap) \/ Wake \/ Interrupted
Controller == Answer \/ AsyncEvent
Tasklets == CmdTask \/ RxTask

Next == Requester \/ Controller \/ Tasklets

(* Scheduled tasklets run (softirq), and schedule_timeout returns once   *)
(* the timeout expires.  The controller owes no answer; the requester    *)
(* need not make another request.                                        *)
Spec ==
  /\ Init /\ [][Next]_vars
  /\ WF_vars(CmdTask) /\ WF_vars(RxTask) /\ WF_vars(Wake)

-----------------------------------------------------------------------------
(* Type invariant. *)
TypeOK ==
  /\ rpc \in {"idle", "waiting"}
  /\ nReq \in 0..MaxReqs
  /\ reqStatus \in {HCI_REQ_NONE, HCI_REQ_PEND, HCI_REQ_DONE, HCI_REQ_STATUS}
  /\ reqResult \in [code : Statuses, from : 0..MaxReqs]
  /\ rret \in Return
  /\ cmdQ \in Seq(Cmd)
  /\ cmdCnt \in {0, 1}
  /\ cmdTask \in BOOLEAN /\ rxTask \in BOOLEAN /\ everSent \in BOOLEAN
  /\ inflight \in Seq(Cmd)
  /\ rxQ \in Seq(Event)
  /\ nAsync \in 0..MaxAsync
  /\ queued \subseteq Ids /\ handled \subseteq Ids /\ lost \subseteq Ids
  /\ forced \in Nat
  /\ evBuf \in Seq(IrisEvts) /\ Len(evBuf) <= EvtFifoSize
  /\ evWaiter \in {"none", "sleeping", "woken"}
  /\ stRsp \in StationRsps \cup {{}}
  /\ gCap \in 0..MaxReqs
  /\ capWrites \in 0..MaxReqs

(* Answers on their way to the host, not yet dispatched. *)
Unanswered == Len(inflight) + Len(SelectSeq(rxQ, IsAnswer))

(* HCI flow control: the controller never holds more unanswered commands *)
(* than the credits it granted (one at start, one per num_hci_cmd_pkts)   *)
(* plus the credits cmd_task took back after its one-second timeout.      *)
FlowControlBound ==
  Unanswered + cmdCnt <= 1 + forced

(* How many places hold command i: cmd_q, the controller, rx_q as its    *)
(* answer, dispatched, dropped.                                           *)
Places(i) ==
  Len(SelectSeq(cmdQ, LAMBDA c : c.id = i))
  + Len(SelectSeq(inflight, LAMBDA c : c.id = i))
  + Len(SelectSeq(rxQ, LAMBDA e : IsAnswer(e) /\ e.id = i))
  + (IF i \in handled THEN 1 ELSE 0) + (IF i \in lost THEN 1 ELSE 0)

(* Every command skb radio_hci_send_cmd queued is, at every moment, in   *)
(* exactly one place: cmd_task's failed clone puts it back at the head   *)
(* rather than losing or duplicating it, and each answer is for one      *)
(* command sent.                                                          *)
CommandConservation ==
  \A i \in Ids : Places(i) = IF i \in queued THEN 1 ELSE 0

(* A request that did not time out or get interrupted returns the       *)
(* status of its own command (req_result is whatever completed PEND).   *)
ResultFromOwnCommand ==
  rret.err \notin {"ETIMEDOUT", "EINTR", "none"} => rret.from = rret.id

(* No command queued by radio_hci_send_cmd is discarded by cmd_task.     *)
NoCommandDropped == lost = {}
=============================================================================
