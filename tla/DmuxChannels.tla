---------------------------- MODULE DmuxChannels ----------------------------
(***************************************************************************)
(* What the BAM DMUX promises its callers and its peer, stated without     *)
(* workqueues, DMA pipes or the split of an API call at its locks: the     *)
(* channel table of the Channel Registry (spec.md 4.1) and the one-cell    *)
(* receive state machine of the RX Pipeline (spec.md 4.3), reached once    *)
(* the transport is brought up (spec.md 4.5).                              *)
(*                                                                         *)
(* BamDmux implements this specification under the refinement mapping     *)
(* BamDmux!Channels.                                                       *)
(***************************************************************************)
CONSTANTS
  Channels,    \* channel ids
  Clients,     \* callers; a caller is the callbacks and priv it registers
  NULL,
  Frames,      \* frames the peer may send: records [magic, cmd, ch]
  MAGIC,       \* the header's sentinel
  OPEN, CLOSE  \* the control commands

VARIABLES
  ready,   \* bring-up has completed
  status,  \* each channel's set of {"local", "remote"} open bits
  owner,   \* the caller whose callbacks a channel holds, or NULL
  posted,  \* a receive cell is posted for the peer to fill
  held     \* the frame received into the cell and not yet handled, or NULL

absVars == <<ready, status, owner, posted, held>>

IsOpen(ch) == status[ch] = {"local", "remote"}

Init ==
  /\ ready = FALSE
  /\ status = [ch \in Channels |-> {}]
  /\ owner = [ch \in Channels |-> NULL]
  /\ posted = FALSE
  /\ held = NULL

(* Bring-up completes: the subsystem is ready and a receive cell posted. *)
Ready ==
  /\ ~ready
  /\ ready' = TRUE
  /\ posted' = TRUE
  /\ UNCHANGED <<status, owner, held>>

(* open(): a channel that is fully open is left alone; otherwise the      *)
(* caller's callbacks are stored and LOCAL_OPEN set.                      *)
Open(c, ch) ==
  /\ ready
  /\ ~IsOpen(ch)
  /\ owner' = [owner EXCEPT ![ch] = c]
  /\ status' = [status EXCEPT ![ch] = @ \cup {"local"}]
  /\ UNCHANGED <<ready, posted, held>>

(* close(): callbacks and LOCAL_OPEN cleared. *)
Close(ch) ==
  /\ ready
  /\ owner' = [owner EXCEPT ![ch] = NULL]
  /\ status' = [status EXCEPT ![ch] = @ \ {"local"}]
  /\ UNCHANGED <<ready, posted, held>>

(* The peer fills the posted cell. *)
Receive(f) ==
  /\ posted
  /\ posted' = FALSE
  /\ held' = f
  /\ UNCHANGED <<ready, status, owner>>

(* The received frame is handled and a fresh cell posted: a valid OPEN    *)
(* or CLOSE sets or clears REMOTE_OPEN of its channel; anything else      *)
(* leaves the table as it is.                                             *)
Handle ==
  /\ held # NULL
  /\ LET f == held IN
       status' = IF f.magic = MAGIC /\ f.cmd \in {OPEN, CLOSE}
                   THEN [status EXCEPT ![f.ch] =
                           IF f.cmd = OPEN THEN @ \cup {"remote"} ELSE @ \ {"remote"}]
                   ELSE status
  /\ held' = NULL
  /\ posted' = TRUE
  /\ UNCHANGED <<ready, owner>>

Next ==
  \/ Ready
  \/ \E c \in Clients, ch \in Channels : Open(c, ch)
  \/ \E ch \in Channels : Close(ch)
  \/ \E f \in Frames : Receive(f)
  \/ Handle

(* A received frame is always handled; nothing obliges bring-up to        *)
(* succeed, callers to call or the peer to send.                          *)
Spec == Init /\ [][Next]_absVars /\ WF_absVars(Handle)
=============================================================================
