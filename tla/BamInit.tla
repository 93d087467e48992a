------------------------------ MODULE BamInit ------------------------------
(***************************************************************************)
(* bam_init() in arch/arm/mach-msm/bam_dmux.c: the one-shot bring-up of    *)
(* the A2 BAM and its TX and RX pipes, run from delayed work.  Every step  *)
(* may fail; a failure jumps to a label of the unwind chain at the end of  *)
(* the function, whose labels fall through into each other.  The model    *)
(* runs the steps in order, one per action, and unwinds one release per   *)
(* action, so the order of the releases is visible.                       *)
(***************************************************************************)
EXTENDS Naturals, Sequences, SequencesExt

(* The resources bam_init() acquires, in order. *)
Resources == {"a2_virt_addr", "bam_device", "tx_pipe", "tx_desc_mem",
              "tx_connection", "rx_pipe", "rx_desc_mem", "rx_connection",
              "tx_event", "rx_event"}

(* Mutant: a failed RX sps_alloc_endpoint() jumps to rx_get_config_failed, *)
(* which frees the RX endpoint it never obtained.                         *)
Steps_rxAllocMisrouted ==
  << [acq |-> "a2_virt_addr",  fail |-> "register_bam_failed"],
     [acq |-> "bam_device",    fail |-> "register_bam_failed"],
     [acq |-> "tx_pipe",       fail |-> "register_bam_failed"],
     [acq |-> "none",          fail |-> "tx_get_config_failed"],
     [acq |-> "tx_desc_mem",   fail |-> "tx_mem_failed"],
     [acq |-> "tx_connection", fail |-> "tx_connect_failed"],
     [acq |-> "rx_pipe",       fail |-> "rx_get_config_failed"],
     [acq |-> "none",          fail |-> "rx_get_config_failed"],
     [acq |-> "rx_desc_mem",   fail |-> "rx_mem_failed"],
     [acq |-> "rx_connection", fail |-> "rx_connect_failed"],
     [acq |-> "tx_event",      fail |-> "rx_event_reg_failed"],
     [acq |-> "rx_event",      fail |-> "rx_event_reg_failed"] >>

(* The steps of bam_init(): what each acquires on success (or "none")     *)
(* and the label its failure jumps to.                                    *)
Steps ==
  << [acq |-> "a2_virt_addr",  fail |-> "register_bam_failed"],   \* ioremap_nocache
     [acq |-> "bam_device",    fail |-> "register_bam_failed"],   \* sps_register_bam_device
     [acq |-> "tx_pipe",       fail |-> "register_bam_failed"],   \* sps_alloc_endpoint
     [acq |-> "none",          fail |-> "tx_get_config_failed"],  \* sps_get_config
     [acq |-> "tx_desc_mem",   fail |-> "tx_mem_failed"],         \* dma_alloc_coherent
     [acq |-> "tx_connection", fail |-> "tx_connect_failed"],     \* sps_connect
     [acq |-> "rx_pipe",       fail |-> "tx_connect_failed"],     \* sps_alloc_endpoint
     [acq |-> "none",          fail |-> "rx_get_config_failed"],  \* sps_get_config
     [acq |-> "rx_desc_mem",   fail |-> "rx_mem_failed"],         \* dma_alloc_coherent
     [acq |-> "rx_connection", fail |-> "rx_connect_failed"],     \* sps_connect
     [acq |-> "tx_event",      fail |-> "rx_event_reg_failed"],   \* sps_register_event
     [acq |-> "rx_event",      fail |-> "rx_event_reg_failed"] >> \* sps_register_event

(* The unwind chain: each label and what it releases, in fall-through     *)
(* order.  register_bam_failed releases nothing.                          *)
Unwind ==
  << [label |-> "rx_event_reg_failed",  rel |-> "rx_connection"],  \* sps_disconnect(rx)
     [label |-> "rx_connect_failed",    rel |-> "rx_desc_mem"],    \* dma_free_coherent
     [label |-> "rx_mem_failed",        rel |-> "tx_connection"],  \* sps_disconnect(tx)
     [label |-> "rx_get_config_failed", rel |-> "rx_pipe"],        \* sps_free_endpoint
     [label |-> "tx_connect_failed",    rel |-> "tx_desc_mem"],    \* dma_free_coherent
     [label |-> "tx_get_config_failed", rel |-> "tx_pipe"],        \* sps_free_endpoint
     [label |-> "tx_mem_failed",        rel |-> "bam_device"],     \* sps_deregister_bam_device
     [label |-> "register_bam_failed",  rel |-> "none"] >>

(* The releases done when a failure jumps to label l. *)
UnwindFrom(l) ==
  LET i    == CHOOSE k \in 1..Len(Unwind) : Unwind[k].label = l
      rels == [k \in i..Len(Unwind) |-> Unwind[k].rel]
  IN SelectSeq([k \in 1..Len(Unwind) - i + 1 |-> rels[k + i - 1]],
               LAMBDA r : r # "none")

VARIABLES
  step,      \* next step of bam_init() to run
  phase,     \* "running", then "ready" or "failed"
  held,      \* resources acquired and not released, in acquisition order
  pending,   \* releases of the unwind chain still to run
  misfree    \* resources released while not held

vars == <<step, phase, held, pending, misfree>>

Init ==
  /\ step = 1
  /\ phase = "running"
  /\ held = <<>>
  /\ pending = <<>>
  /\ misfree = {}

(* Step `step` of bam_init() succeeds. *)
StepOk ==
  /\ phase = "running"
  /\ step <= Len(Steps)
  /\ held' = IF Steps[step].acq = "none" THEN held ELSE Append(held, Steps[step].acq)
  /\ step' = step + 1
  /\ UNCHANGED <<phase, pending, misfree>>

(* Step `step` fails: goto its label. *)
StepFails ==
  /\ phase = "running"
  /\ step <= Len(Steps)
  /\ pending' = UnwindFrom(Steps[step].fail)
  /\ phase' = "failed"
  /\ UNCHANGED <<step, held, misfree>>

(* After the last registration: bam_mux_initialized = 1 and queue_rx(). *)
Ready ==
  /\ phase = "running"
  /\ step = Len(Steps) + 1
  /\ phase' = "ready"
  /\ UNCHANGED <<step, held, pending, misfree>>

(* One release of the unwind chain. *)
Release ==
  /\ pending # <<>>
  /\ LET r == Head(pending) IN
       /\ misfree' = IF r \in ToSet(held) THEN misfree ELSE misfree \cup {r}
       /\ held' = Remove(held, r)
  /\ pending' = Tail(pending)
  /\ UNCHANGED <<step, phase>>

Next == StepOk \/ StepFails \/ Ready \/ Release

Spec == Init /\ [][Next]_vars

-----------------------------------------------------------------------------
(* Type invariant. *)
TypeOK ==
  /\ step \in 1..Len(Steps) + 1
  /\ phase \in {"running", "ready", "failed"}
  /\ held \in Seq(Resources)
  /\ pending \in Seq(Resources)
  /\ misfree \subseteq Resources

(* The unwind chain of bam_init() only releases what the failed attempt  *)
(* acquired: no label frees an endpoint, a descriptor region or a         *)
(* connection that was never obtained, nor one twice.                     *)
UnwindReleasesOnlyHeld == misfree = {}

(* A bring-up that failed leaves nothing acquired once its unwind chain  *)
(* has run (spec 4.5: failure at any step releases all previously         *)
(* acquired resources).                                                   *)
FailedReleasesAll ==
  (phase = "failed" /\ pending = <<>>) => held = <<>>
=============================================================================
