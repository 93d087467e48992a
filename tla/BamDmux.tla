------------------------------ MODULE BamDmux ------------------------------
(***************************************************************************)
(* The BAM DMUX channel multiplexer (arch/arm/mach-msm/bam_dmux.c): the    *)
(* channel table, the TX path, the RX path, the single-threaded workqueue  *)
(* that runs their deferred work, and the DMA pipes underneath.            *)
(*                                                                         *)
(* Actors that run concurrently:                                          *)
(*  - Clients: kernel contexts calling msm_bam_dmux_open/close/write.     *)
(*    Each call is split where the code releases a lock: open and close   *)
(*    update the channel under its spinlock and send their command frame  *)
(*    afterwards; write checks the channel under its spinlock and frames  *)
(*    and submits the buffer afterwards.                                  *)
(*  - The TX and RX pipes (SPS/BAM DMA), whose EOT interrupts run          *)
(*    bam_mux_tx_notify / bam_mux_rx_notify.                               *)
(*  - The remote processor, which may put any frame into the posted RX     *)
(*    buffer.                                                             *)
(*  - The "bam_dmux" single-thread workqueue running handle_bam_mux_cmd,   *)
(*    bam_mux_write_done and free_tx_descriptor.  Each is one static      *)
(*    work_struct: queue_work() of a work that is already pending does    *)
(*    nothing, and the pending bit is cleared when the work starts.       *)
(*                                                                         *)
(* Data is abstracted: a buffer is the channel and client it was written  *)
(* for; the framing arithmetic is BamMuxFraming's.                        *)
(***************************************************************************)
EXTENDS Naturals, Sequences, SequencesExt, FiniteSets

CONSTANTS
  NumChannels,   \* BAM_DMUX_NUM_CHANNELS
  Clients,       \* calling contexts; a client's callbacks+priv are its identity
  NULL,
  PayloadLens,   \* payload lengths a client writes
  Tailrooms,     \* tailroom of a client's buffer
  RxChIds,       \* ch_id values the remote may put into a header
  AllocMayFail,  \* whether kmalloc / skb_copy_expand / dma_map_single may fail
  TxRing,        \* descriptors of the TX pipe's descriptor FIFO
  MaxWrites,     \* bound: msm_bam_dmux_write calls
  MaxCalls,      \* bound: msm_bam_dmux_open/close calls
  MaxRx          \* bound: frames received

ASSUME NumChannels \in Nat \ {0}
ASSUME NULL \notin Clients
ASSUME TxRing \in Nat \ {0}
ASSUME AllocMayFail \in BOOLEAN

Fr == INSTANCE BamMuxFraming

Channels == 0..NumChannels - 1

(* The status bits BAM_CH_LOCAL_OPEN and BAM_CH_REMOTE_OPEN. *)
LOCAL_OPEN  == "local"
REMOTE_OPEN == "remote"

(* Commands of frames; BAD_CMD stands for every other value of hdr->cmd. *)
DATA  == Fr!BAM_MUX_HDR_CMD_DATA
OPEN  == Fr!BAM_MUX_HDR_CMD_OPEN
CLOSE == Fr!BAM_MUX_HDR_CMD_CLOSE
BAD_CMD == 3
BAD_MAGIC == 0

(* The three static work_structs. *)
HandleCmd == "work_bam_handle_cmd"
WriteDone == "work_bam_write_done"
FreeTxDesc == "work_free_tx_descriptor"

VARIABLES
  initialized, \* bam_mux_initialized
  status,      \* bam_ch[ch].status, as a set of bits
  cb,          \* owner of bam_ch[ch].receive_cb/write_done/priv, or NULL
  pc,          \* where each client is inside an API call
  arg,         \* the channel of the client's call in progress
  wret,        \* result of the client's last write: rc and who owns its skb
  txq,         \* frames submitted to the TX pipe, not yet completed (EOT)
  txDesc,      \* TX descriptors submitted and not yet freed by sps_get_iovec
  wq,          \* pending work items of bam_mux_workqueue, in queue order
  worker,      \* NULL, or bam_mux_write_done between its test and its call
  pool,        \* bam_mux_write_done_pool
  rxPosted,    \* a receive buffer (rx_skb) is posted on the RX pipe
  rxFrame,     \* the header in rx_skb once its EOT arrived, else NULL
  nWrites,     \* write calls made (bounded by MaxWrites)
  nCalls,      \* open and close calls made (bounded by MaxCalls)
  nRx,         \* frames received (bounded by MaxRx)
  peerCmd,     \* history: the last OPEN/CLOSE frame submitted per channel
  step, phase, held, pending, misfree   \* bam_init(), see BamInit

Boot == INSTANCE BamInit

bootVars == <<step, phase, held, pending, misfree>>
dmuxVars == <<initialized, status, cb, pc, arg, wret, txq, peerCmd, txDesc, wq, worker,
              pool, rxPosted, rxFrame, nWrites, nCalls, nRx>>
vars == <<dmuxVars, bootVars>>

(* bam_ch_is_open(x) *)
IsOpen(ch) == status[ch] = {LOCAL_OPEN, REMOTE_OPEN}

(* queue_work(): a work already pending is not queued again. *)
QueueWork(q, w) == IF w \in ToSet(q) THEN q ELSE Append(q, w)

TxFrame == [cmd : {DATA, OPEN, CLOSE}, ch : Channels, from : Clients \cup {NULL}]
RxFrames ==
  [magic : {Fr!BAM_MUX_HDR_MAGIC_NO}, cmd : {DATA, OPEN, CLOSE, BAD_CMD}, ch : RxChIds]
  \cup {[magic |-> BAD_MAGIC, cmd |-> DATA, ch |-> 0]}
Buffer == [ch : Channels, from : Clients]
WriteResult == [rc : {"none", "ok", "ENOMEM", "EIO"}, skb : {"caller", "dmux", "freed"}]

Init ==
  /\ initialized = FALSE
  /\ status = [ch \in Channels |-> {}]
  /\ cb = [ch \in Channels |-> NULL]
  /\ pc = [c \in Clients |-> "idle"]
  /\ arg = [c \in Clients |-> NULL]
  /\ wret = [c \in Clients |-> [rc |-> "none", skb |-> "caller"]]
  /\ txq = <<>>
  /\ txDesc = 0
  /\ wq = <<>>
  /\ worker = NULL
  /\ pool = <<>>
  /\ rxPosted = FALSE
  /\ rxFrame = NULL
  /\ nWrites = 0
  /\ nCalls = 0
  /\ nRx = 0
  /\ peerCmd = [ch \in Channels |-> NULL]
  /\ Boot!Init

-----------------------------------------------------------------------------
(* bam_init(), run from the delayed work bam_dmux_probe() schedules: its  *)
(* steps and unwind chain (BamInit), and at its end bam_mux_initialized   *)
(* set and the first receive buffer posted.                               *)
BringUpStep ==
  /\ Boot!StepOk \/ Boot!StepFails \/ Boot!Release
  /\ UNCHANGED dmuxVars

BringUpReady ==
  /\ Boot!Ready
  /\ initialized' = TRUE
  /\ rxPosted' = TRUE
  /\ UNCHANGED <<status, cb, pc, arg, wret, txq, peerCmd, txDesc, wq, worker, pool,
                 rxFrame, nWrites, nCalls, nRx>>

(* sps_transfer_one() on the TX pipe: queues the frame unless the         *)
(* descriptor FIFO is full, descriptors being reclaimed by sps_get_iovec. *)
(* The pipe delivers in order, so the last command frame submitted for a  *)
(* channel is the last the remote will act on.                            *)
Submit(f) ==
  /\ txDesc < TxRing
  /\ txq' = Append(txq, f)
  /\ txDesc' = txDesc + 1
  /\ peerCmd' = IF f.cmd = DATA THEN peerCmd ELSE [peerCmd EXCEPT ![f.ch] = f.cmd]

SubmitFails == txDesc = TxRing /\ UNCHANGED <<txq, peerCmd, txDesc>>

(* bam_mux_write_cmd(): kmalloc of the tx_pkt_info or dma_map_single may  *)
(* fail (the header is leaked), else the header frame is submitted.       *)
WriteCmd(cmd, ch) ==
  \/ AllocMayFail /\ UNCHANGED <<txq, peerCmd, txDesc>>
  \/ Submit([cmd |-> cmd, ch |-> ch, from |-> NULL])
  \/ SubmitFails

-----------------------------------------------------------------------------
(* Mutant: no bam_ch_is_open() test, a second open of an open channel  *)
(* replaces its callbacks.                                                *)
OpenLocal_noOpenCheck(c, ch) ==
  /\ pc[c] = "idle"
  /\ initialized
  /\ nCalls < MaxCalls
  /\ nCalls' = nCalls + 1
  /\ \/ AllocMayFail /\ UNCHANGED <<status, cb, pc, arg>>
     \/ /\ cb' = [cb EXCEPT ![ch] = c]
        /\ status' = [status EXCEPT ![ch] = @ \cup {LOCAL_OPEN}]
        /\ pc' = [pc EXCEPT ![c] = "open_cmd"]
        /\ arg' = [arg EXCEPT ![c] = ch]
  /\ UNCHANGED <<initialized, wret, txq, peerCmd, txDesc, wq, worker, pool, rxPosted,
                 rxFrame, nWrites, nRx>>

(* msm_bam_dmux_open(), up to spin_unlock: an already open channel is a   *)
(* no-op; otherwise the callbacks are stored and LOCAL_OPEN set.  The     *)
(* header kmalloc before the lock may fail (-ENOMEM).                     *)
OpenLocal(c, ch) ==
  /\ pc[c] = "idle"
  /\ initialized
  /\ nCalls < MaxCalls
  /\ nCalls' = nCalls + 1
  /\ \/ AllocMayFail /\ UNCHANGED <<status, cb, pc, arg>>
     \/ IsOpen(ch) /\ UNCHANGED <<status, cb, pc, arg>>
     \/ /\ ~IsOpen(ch)
        /\ cb' = [cb EXCEPT ![ch] = c]
        /\ status' = [status EXCEPT ![ch] = @ \cup {LOCAL_OPEN}]
        /\ pc' = [pc EXCEPT ![c] = "open_cmd"]
        /\ arg' = [arg EXCEPT ![c] = ch]
  /\ UNCHANGED <<initialized, wret, txq, peerCmd, txDesc, wq, worker, pool, rxPosted,
                 rxFrame, nWrites, nRx>>

(* msm_bam_dmux_open(), after the lock: send the OPEN command frame. *)
OpenSendCmd(c) ==
  /\ pc[c] = "open_cmd"
  /\ WriteCmd(OPEN, arg[c])
  /\ pc' = [pc EXCEPT ![c] = "idle"]
  /\ arg' = [arg EXCEPT ![c] = NULL]
  /\ UNCHANGED <<initialized, status, cb, wret, wq, worker, pool, rxPosted,
                 rxFrame, nWrites, nCalls, nRx>>

(* msm_bam_dmux_close(), up to spin_unlock: callbacks cleared, LOCAL_OPEN *)
(* cleared, whatever the channel's state.                                 *)
CloseLocal(c, ch) ==
  /\ pc[c] = "idle"
  /\ initialized
  /\ nCalls < MaxCalls
  /\ nCalls' = nCalls + 1
  /\ cb' = [cb EXCEPT ![ch] = NULL]
  /\ status' = [status EXCEPT ![ch] = @ \ {LOCAL_OPEN}]
  /\ pc' = [pc EXCEPT ![c] = "close_cmd"]
  /\ arg' = [arg EXCEPT ![c] = ch]
  /\ UNCHANGED <<initialized, wret, txq, peerCmd, txDesc, wq, worker, pool, rxPosted,
                 rxFrame, nWrites, nRx>>

(* msm_bam_dmux_close(), after the lock: kmalloc the header (-ENOMEM     *)
(* returns with no CLOSE sent) and send the CLOSE command frame.          *)
CloseSendCmd(c) ==
  /\ pc[c] = "close_cmd"
  /\ \/ AllocMayFail /\ UNCHANGED <<txq, peerCmd, txDesc>>
     \/ WriteCmd(CLOSE, arg[c])
  /\ pc' = [pc EXCEPT ![c] = "idle"]
  /\ arg' = [arg EXCEPT ![c] = NULL]
  /\ UNCHANGED <<initialized, status, cb, wret, wq, worker, pool, rxPosted,
                 rxFrame, nWrites, nCalls, nRx>>

(* msm_bam_dmux_write(), up to the unlock of the channel lock: a channel  *)
(* that is not open fails with -ENODEV.                                   *)
WriteCheck(c, ch) ==
  /\ pc[c] = "idle"
  /\ initialized
  /\ nWrites < MaxWrites
  /\ nWrites' = nWrites + 1
  /\ IF IsOpen(ch)
       THEN /\ pc' = [pc EXCEPT ![c] = "write_submit"]
            /\ arg' = [arg EXCEPT ![c] = ch]
       ELSE UNCHANGED <<pc, arg>>
  /\ UNCHANGED <<initialized, status, cb, wret, txq, peerCmd, txDesc, wq, worker, pool,
                 rxPosted, rxFrame, nCalls, nRx>>

(* msm_bam_dmux_write(), under bam_mux_write_lock and after it: expand    *)
(* the buffer if it lacks tailroom (the caller's skb is then freed and    *)
(* replaced), push and fill the header, pad, allocate the tx_pkt_info,    *)
(* map, and submit.  Failures after the expansion free the new skb.       *)
WriteSubmit(c) ==
  /\ pc[c] = "write_submit"
  /\ \E len \in PayloadLens, room \in Tailrooms :
       LET expand == Fr!NeedsExpand(len, room)
           \* owner of the caller's skb when the call fails after expansion
           lost   == IF expand THEN "freed" ELSE "caller"
       IN \/ /\ AllocMayFail /\ expand           \* skb_copy_expand fails
             /\ wret' = [wret EXCEPT ![c] = [rc |-> "ENOMEM", skb |-> "caller"]]
             /\ UNCHANGED <<txq, peerCmd, txDesc>>
          \/ /\ AllocMayFail                     \* kmalloc or dma_map fails
             /\ wret' = [wret EXCEPT ![c] = [rc |-> "ENOMEM", skb |-> lost]]
             /\ UNCHANGED <<txq, peerCmd, txDesc>>
          \/ /\ Submit([cmd |-> DATA, ch |-> arg[c], from |-> c])
             /\ wret' = [wret EXCEPT ![c] = [rc |-> "ok", skb |-> "dmux"]]
          \/ /\ SubmitFails                      \* sps_transfer_one fails
             /\ wret' = [wret EXCEPT ![c] = [rc |-> "EIO", skb |-> lost]]
  /\ pc' = [pc EXCEPT ![c] = "idle"]
  /\ arg' = [arg EXCEPT ![c] = NULL]
  /\ UNCHANGED <<initialized, status, cb, wq, worker, pool, rxPosted, rxFrame,
                 nWrites, nCalls, nRx>>

-----------------------------------------------------------------------------
(* Mutant: no is_cmd test, a command header goes to the write-done pool. *)
TxEot_noIsCmdTest ==
  /\ txq # <<>>
  /\ pool' = Append(pool, [ch |-> Head(txq).ch, from |-> Head(txq).from])
  /\ wq' = QueueWork(QueueWork(wq, WriteDone), FreeTxDesc)
  /\ txq' = Tail(txq)
  /\ UNCHANGED <<initialized, status, cb, pc, arg, wret, txDesc, peerCmd, worker,
                 rxPosted, rxFrame, nWrites, nCalls, nRx>>

(* Mutant: the write-done work queued for command frames too. *)
TxEot_writeDoneForCmd ==
  /\ txq # <<>>
  /\ LET f == Head(txq) IN
       /\ pool' = IF f.cmd = DATA THEN Append(pool, [ch |-> f.ch, from |-> f.from])
                                  ELSE pool
       /\ wq' = QueueWork(QueueWork(wq, WriteDone), FreeTxDesc)
  /\ txq' = Tail(txq)
  /\ UNCHANGED <<initialized, status, cb, pc, arg, wret, txDesc, peerCmd, worker,
                 rxPosted, rxFrame, nWrites, nCalls, nRx>>

(* EOT of the head of the TX pipe: bam_mux_tx_notify().  A data buffer is *)
(* unmapped and queued on bam_mux_write_done_pool for the write-done work; *)
(* a command header is freed.  The descriptor work is queued either way.  *)
TxEot ==
  /\ txq # <<>>
  /\ LET f == Head(txq) IN
       IF f.cmd = DATA
         THEN /\ pool' = Append(pool, [ch |-> f.ch, from |-> f.from])
              /\ wq' = QueueWork(QueueWork(wq, WriteDone), FreeTxDesc)
         ELSE /\ wq' = QueueWork(wq, FreeTxDesc)
              /\ UNCHANGED pool
  /\ txq' = Tail(txq)
  /\ UNCHANGED <<initialized, status, cb, pc, arg, wret, txDesc, peerCmd, worker,
                 rxPosted, rxFrame, nWrites, nCalls, nRx>>

(* The remote fills the posted receive buffer: bam_mux_rx_notify()       *)
(* unmaps it and queues the command work.                                 *)
RxEot ==
  /\ rxPosted
  /\ nRx < MaxRx
  /\ \E f \in RxFrames :
       /\ rxFrame' = f
       /\ rxPosted' = FALSE
       /\ wq' = QueueWork(wq, HandleCmd)
  /\ nRx' = nRx + 1
  /\ UNCHANGED <<initialized, status, cb, pc, arg, wret, txq, peerCmd, txDesc, worker,
                 pool, nWrites, nCalls>>

-----------------------------------------------------------------------------
(* The worker thread starts the work at the head of the queue when it is  *)
(* idle.                                                                  *)
StartWork(w) ==
  /\ worker = NULL
  /\ wq # <<>>
  /\ Head(wq) = w
  /\ wq' = Tail(wq)

(* Mutant: the invalid-magic and unknown-command paths return without    *)
(* queue_rx().                                                            *)
HandleBamMuxCmd_dropWithoutRepost ==
  /\ StartWork(HandleCmd)
  /\ LET f == rxFrame IN
       /\ IF f.magic = Fr!BAM_MUX_HDR_MAGIC_NO /\ f.cmd \in {OPEN, CLOSE}
            THEN status' = [status EXCEPT ![f.ch] =
                              IF f.cmd = OPEN THEN @ \cup {REMOTE_OPEN}
                                              ELSE @ \ {REMOTE_OPEN}]
            ELSE UNCHANGED status
       /\ rxPosted' = (f.magic = Fr!BAM_MUX_HDR_MAGIC_NO /\ f.cmd # BAD_CMD)
  /\ rxFrame' = NULL
  /\ UNCHANGED <<initialized, cb, pc, arg, wret, txq, peerCmd, txDesc, worker, pool,
                 nWrites, nCalls, nRx>>

(* handle_bam_mux_cmd(): consume the RX descriptor, drop a bad magic,     *)
(* deliver DATA to the receive callback under the channel lock (or free   *)
(* it), set or clear REMOTE_OPEN for OPEN/CLOSE, drop other commands, and *)
(* on every path queue_rx() a fresh receive buffer.                       *)
HandleBamMuxCmd ==
  /\ StartWork(HandleCmd)
  /\ LET f == rxFrame IN
       IF f.magic = Fr!BAM_MUX_HDR_MAGIC_NO /\ f.cmd \in {OPEN, CLOSE}
         THEN status' = [status EXCEPT ![f.ch] =
                           IF f.cmd = OPEN THEN @ \cup {REMOTE_OPEN}
                                           ELSE @ \ {REMOTE_OPEN}]
         ELSE UNCHANGED status
  /\ rxFrame' = NULL
  /\ rxPosted' = TRUE
  /\ UNCHANGED <<initialized, cb, pc, arg, wret, txq, peerCmd, txDesc, worker, pool,
                 nWrites, nCalls, nRx>>

(* bam_mux_write_done(), up to its test of the callback: dequeue a buffer *)
(* from the pool; with no write_done registered the buffer is freed,      *)
(* otherwise the callback and priv are read (no lock is taken).           *)
WriteDoneTest ==
  /\ StartWork(WriteDone)
  /\ LET b == Head(pool) IN
       worker' = IF cb[b.ch] = NULL THEN NULL
                 ELSE [ch |-> b.ch, to |-> cb[b.ch], buf |-> b]
  /\ pool' = Tail(pool)
  /\ UNCHANGED <<initialized, status, cb, pc, arg, wret, txq, peerCmd, txDesc,
                 rxPosted, rxFrame, nWrites, nCalls, nRx>>

(* bam_mux_write_done(): the call of the write_done callback read above. *)
WriteDoneCall ==
  /\ worker # NULL
  /\ worker' = NULL
  /\ UNCHANGED <<initialized, status, cb, pc, arg, wret, txq, peerCmd, txDesc, wq,
                 pool, rxPosted, rxFrame, nWrites, nCalls, nRx>>

(* free_tx_descriptor(): sps_get_iovec() on the TX pipe frees one         *)
(* completed descriptor, if there is one.                                 *)
FreeTxDescriptor ==
  /\ StartWork(FreeTxDesc)
  /\ txDesc' = IF txDesc > Len(txq) THEN txDesc - 1 ELSE txDesc
  /\ UNCHANGED <<initialized, status, cb, pc, arg, wret, txq, peerCmd, worker, pool,
                 rxPosted, rxFrame, nWrites, nCalls, nRx>>

Worker ==
  /\ HandleBamMuxCmd \/ WriteDoneTest \/ WriteDoneCall \/ FreeTxDescriptor
  /\ UNCHANGED bootVars

Client(c) ==
  /\ \/ \E ch \in Channels : OpenLocal(c, ch) \/ CloseLocal(c, ch) \/ WriteCheck(c, ch)
     \/ OpenSendCmd(c) \/ CloseSendCmd(c) \/ WriteSubmit(c)
  /\ UNCHANGED bootVars

Hardware ==
  /\ TxEot \/ RxEot
  /\ UNCHANGED bootVars

BringUp == BringUpStep \/ BringUpReady

Next ==
  \/ BringUp
  \/ \E c \in Clients : Client(c)
  \/ Hardware
  \/ Worker

(* The workqueue thread and the DMA engine make progress, and bam_init()  *)
(* runs to its end once its delayed work expires.  Clients and the remote *)
(* are not obliged to do anything.                                        *)
Spec ==
  /\ Init /\ [][Next]_vars
  /\ WF_vars(BringUp) /\ WF_vars(Worker) /\ WF_vars(TxEot /\ UNCHANGED bootVars)

-----------------------------------------------------------------------------
(* Type invariant. *)
TypeOK ==
  /\ initialized \in BOOLEAN
  /\ status \in [Channels -> SUBSET {LOCAL_OPEN, REMOTE_OPEN}]
  /\ cb \in [Channels -> Clients \cup {NULL}]
  /\ pc \in [Clients -> {"idle", "open_cmd", "close_cmd", "write_submit"}]
  /\ arg \in [Clients -> Channels \cup {NULL}]
  /\ wret \in [Clients -> WriteResult]
  /\ txq \in Seq(TxFrame)
  /\ txDesc \in 0..TxRing
  /\ wq \in Seq({HandleCmd, WriteDone, FreeTxDesc})
  /\ worker \in {NULL} \cup [ch : Channels, to : Clients, buf : Buffer]
  /\ pool \in Seq(Buffer)
  /\ rxPosted \in BOOLEAN
  /\ rxFrame \in RxFrames \cup {NULL}
  /\ nWrites \in 0..MaxWrites
  /\ nCalls \in 0..MaxCalls
  /\ nRx \in 0..MaxRx
  /\ peerCmd \in [Channels -> {NULL, OPEN, CLOSE}]
  /\ Boot!TypeOK

(* The RX pipe is never left without a receive buffer: once initialized,  *)
(* either a buffer is posted, or exactly one received frame waits for     *)
(* handle_bam_mux_cmd, whose work is pending; never both.                 *)
RxBufferAccounted ==
  initialized =>
    /\ rxPosted <=> rxFrame = NULL
    /\ rxFrame # NULL <=> HandleCmd \in ToSet(wq)

(* bam_mux_write_done() never runs on an empty pool (__skb_dequeue would  *)
(* return NULL and skb->data oops): a pending write-done work always has  *)
(* a completed data buffer to take.                                       *)
WriteDoneHasBuffer ==
  WriteDone \in ToSet(wq) => pool # <<>>

(* The unwind chain of bam_init() only releases what the failed attempt  *)
(* acquired: no label frees an endpoint, a descriptor region or a         *)
(* connection that was never obtained, nor one twice.                     *)
UnwindReleasesOnlyHeld == Boot!UnwindReleasesOnlyHeld

(* When the write-done work is neither pending nor running, every         *)
(* completed data buffer has been handed to its write_done callback or    *)
(* freed: none is stranded on bam_mux_write_done_pool.                    *)
PoolDrainedWhenIdle ==
  (worker = NULL /\ WriteDone \notin ToSet(wq)) => pool = <<>>

(* bam_mux_write_done() only calls the write_done callback of a client    *)
(* that is still registered on the channel: once msm_bam_dmux_close() has *)
(* cleared the callbacks, the closed client's write_done and priv are not *)
(* used.                                                                  *)
WriteDoneTargetRegistered ==
  worker # NULL => cb[worker.ch] = worker.to

(* A failed msm_bam_dmux_write() leaves the caller's skb with the caller: *)
(* the error return does not come after the driver freed it.              *)
WriteErrorKeepsBuffer ==
  \A c \in Clients : wret[c].rc \in {"ENOMEM", "EIO"} => wret[c].skb = "caller"

(* Between calls, the remote's view of each channel agrees with the local *)
(* one: once no msm_bam_dmux_open/close is between its channel update and *)
(* its bam_mux_write_cmd, the last command frame submitted for a channel  *)
(* is OPEN exactly when LOCAL_OPEN is set, so the peer never keeps a      *)
(* channel open that is closed here, nor the reverse.                     *)
PeerViewMatchesLocal ==
  (\A c \in Clients : pc[c] \notin {"open_cmd", "close_cmd"}) =>
    \A ch \in Channels : LOCAL_OPEN \in status[ch] <=> peerCmd[ch] = OPEN

-----------------------------------------------------------------------------
(* Refinement mapping onto DmuxChannels: the channel table as it is, and  *)
(* the receive cell as rx_skb: posted on the RX pipe, or holding the      *)
(* frame whose EOT arrived until handle_bam_mux_cmd has run.              *)
Abstract == INSTANCE DmuxChannels
              WITH ready <- initialized, owner <- cb, Frames <- RxFrames,
                   MAGIC <- Fr!BAM_MUX_HDR_MAGIC_NO,
                   posted <- rxPosted, held <- rxFrame

(* The driver implements the registry and receive state machine of the    *)
(* specification: open, close and the handling of received OPEN/CLOSE     *)
(* frames change the channel table only as DmuxChannels allows, each      *)
(* received frame is handled exactly once with a fresh buffer posted, and *)
(* is eventually handled, whatever the interleaving of the split API      *)
(* calls, the TX completions and the workqueue.                           *)
ImplementsChannels == Abstract!Spec
=============================================================================
