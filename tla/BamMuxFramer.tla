--------------------------- MODULE BamMuxFramer ---------------------------
(***************************************************************************)
(* The framing of msm_bam_dmux_write() and msm_bam_dmux_open(), one frame  *)
(* per step, checked against the protocol's wire format (BamMuxFraming's   *)
(* WireDecode and RefPad) over every input of small sets.                 *)
(***************************************************************************)
EXTENDS BamMuxFraming

CONSTANTS
  PayloadLens,  \* payload lengths (skb->len on entry to the write)
  Tailrooms,    \* free bytes after the payload (skb_tailroom)
  ChIds         \* channel ids written into headers

(* A sender that frames one buffer per step.  `sent` is the last frame    *)
(* built, with the input it was built from.                               *)

VARIABLE sent

NoFrame == [built |-> FALSE, len |-> 0, room |-> 0, id |-> 0, f |-> DataFrame(0, 0, 0)]

Init == sent = NoFrame

Write(id, len, room) ==
  sent' = [built |-> TRUE, len |-> len, room |-> room, id |-> id, f |-> DataFrame(id, len, room)]

Open(id) ==
  sent' = [built |-> TRUE, len |-> 0, room |-> 0, id |-> id,
           f |-> [hdr |-> CmdHeader(BAM_MUX_HDR_CMD_OPEN, id), total |-> HDR_SIZE,
                  expanded |-> FALSE, put |-> 0, avail |-> 0]]

Next ==
  \/ \E id \in ChIds, len \in PayloadLens, room \in Tailrooms : Write(id, len, room)
  \/ \E id \in ChIds : Open(id)

Spec == Init /\ [][Next]_sent

Built == sent.built

(* Type invariant. *)
TypeOK ==
  \/ sent = NoFrame
  \/ /\ sent.f.put \in 0..3
     /\ sent.f.hdr.pkt_len \in 0..65535
     /\ sent.f.hdr.pad_len \in 0..255
     /\ sent.f.total \in Nat

(* The frame msm_bam_dmux_write() submits is a multiple of 4 bytes, its   *)
(* pad_len is the filler the protocol asks for, and header, payload and   *)
(* filler add up to the submitted length (skb->len).                      *)
FrameAligned ==
  Built =>
    /\ sent.f.total % 4 = 0
    /\ sent.f.hdr.pad_len = RefPad(sent.f.hdr.pkt_len)
    /\ sent.f.total = HDR_SIZE + sent.f.hdr.pkt_len + sent.f.hdr.pad_len

(* A peer parsing the bytes of the header the driver wrote, by the wire   *)
(* format, reads back the magic, command, channel and the payload length *)
(* the caller passed.                                                     *)
HeaderRoundTrip ==
  Built =>
    LET d == WireDecode(HdrBytes(sent.f.hdr))
    IN /\ d.magic_num = BAM_MUX_HDR_MAGIC_NO
       /\ d.cmd = sent.f.hdr.cmd
       /\ d.ch_id = sent.id
       /\ d.pkt_len = sent.len
       /\ d.pad_len = sent.f.hdr.pad_len

(* skb_put() in msm_bam_dmux_write() never asks for more filler than the *)
(* buffer has tailroom for (else skb_over_panic()): the expansion test    *)
(* before skb_push() agrees with the padding after it.                    *)
PutWithinTailroom ==
  Built => sent.f.put <= sent.f.avail
=============================================================================
