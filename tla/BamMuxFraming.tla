--------------------------- MODULE BamMuxFraming ---------------------------
(***************************************************************************)
(* The framing codec of the BAM DMUX (arch/arm/mach-msm/bam_dmux.c).       *)
(*                                                                         *)
(* A frame on the wire is an 8-byte struct bam_mux_hdr, the payload and    *)
(* 0..3 filler bytes.  msm_bam_dmux_write() builds it in place on the      *)
(* caller's sk_buff: when the payload length is not a multiple of 4 and    *)
(* the buffer lacks the tailroom for the filler it copies the buffer into  *)
(* an expanded one, pushes the header, computes pkt_len, puts the filler   *)
(* and derives pad_len.  The header struct is overlaid on the bytes of a   *)
(* little-endian CPU.                                                      *)
(*                                                                         *)
(* The operators below are used by BamDmux for every frame the driver     *)
(* sends; BamMuxFramer checks them against the wire format of the         *)
(* protocol over bounded inputs.                                          *)
(***************************************************************************)
EXTENDS Naturals, Sequences

(* #define BAM_MUX_HDR_MAGIC_NO and the command codes. *)
BAM_MUX_HDR_MAGIC_NO  == 13308   \* 0x33fc
BAM_MUX_HDR_CMD_DATA  == 0
BAM_MUX_HDR_CMD_OPEN  == 1
BAM_MUX_HDR_CMD_CLOSE == 2

(* sizeof(struct bam_mux_hdr): u16 + u8 + u8 + u8 + u8 + u16, no padding. *)
HDR_SIZE == 8

(* Truncation of an assignment to a uint8_t / uint16_t field. *)
U8(x)  == x % 256
U16(x) == x % 65536

(* Mutant: the tailroom test one byte short. *)
NeedsExpand_offByOne(len, room) ==
  /\ len % 4 # 0
  /\ room < 3 - (len % 4)

(* The test of msm_bam_dmux_write() that decides on skb_copy_expand():    *)
(* the length is unaligned and the tailroom is smaller than the filler.   *)
NeedsExpand(len, room) ==
  /\ len % 4 # 0
  /\ room < 4 - (len % 4)

(* Tailroom after skb_copy_expand(skb, headroom, 4 - (len & 3)). *)
ExpandedRoom(len) == 4 - (len % 4)

(* Mutant: the filler put without the test for an aligned length. *)
PutAfterPush_unguarded(skbLen) == 4 - (skbLen % 4)

(* The bytes skb_put() appends after the header was pushed: skb->len now  *)
(* counts the header too.                                                 *)
PutAfterPush(skbLen) == IF skbLen % 4 # 0 THEN 4 - (skbLen % 4) ELSE 0

(* Mutant: pkt_len = skb->len, the pushed header not subtracted. *)
DataFrame_pktLenWithHeader(id, len, room) ==
  LET expand  == NeedsExpand(len, room)
      avail   == IF expand THEN ExpandedRoom(len) ELSE room
      pushed  == len + HDR_SIZE
      pktLen  == U16(pushed)
      put     == PutAfterPush(pushed)
      total   == pushed + put
  IN [hdr      |-> [magic_num |-> BAM_MUX_HDR_MAGIC_NO, reserved |-> 0,
                    cmd |-> BAM_MUX_HDR_CMD_DATA, ch_id |-> U8(id),
                    pkt_len |-> pktLen,
                    pad_len |-> U8(total - (HDR_SIZE + pktLen))],
      total    |-> total, expanded |-> expand, put |-> put, avail |-> avail]

(* The header and the buffer msm_bam_dmux_write() submits for a payload  *)
(* of len bytes on channel id, and the tailroom skb_put() consumed.       *)
DataFrame(id, len, room) ==
  LET expand  == NeedsExpand(len, room)
      avail   == IF expand THEN ExpandedRoom(len) ELSE room
      pushed  == len + HDR_SIZE
      pktLen  == U16(pushed - HDR_SIZE)
      put     == PutAfterPush(pushed)
      total   == pushed + put
  IN [hdr      |-> [magic_num |-> BAM_MUX_HDR_MAGIC_NO, reserved |-> 0,
                    cmd |-> BAM_MUX_HDR_CMD_DATA, ch_id |-> U8(id),
                    pkt_len |-> pktLen,
                    pad_len |-> U8(total - (HDR_SIZE + pktLen))],
      total    |-> total,
      expanded |-> expand,
      put      |-> put,
      avail    |-> avail]

(* The header msm_bam_dmux_open() / msm_bam_dmux_close() send alone. *)
CmdHeader(cmd, id) ==
  [magic_num |-> BAM_MUX_HDR_MAGIC_NO, reserved |-> 0, cmd |-> cmd,
   ch_id |-> U8(id), pkt_len |-> 0, pad_len |-> 0]

(* Mutant: the struct with pad_len and ch_id declared in the other order. *)
HdrBytes_fieldsSwapped(h) ==
  << h.magic_num % 256, h.magic_num \div 256, h.reserved, h.cmd,
     h.ch_id, h.pad_len, h.pkt_len % 256, h.pkt_len \div 256 >>

(* The bytes of struct bam_mux_hdr in memory on the little-endian CPU:    *)
(* the layout that casting skb->data to the header struct reads.          *)
HdrBytes(h) ==
  << h.magic_num % 256, h.magic_num \div 256, h.reserved, h.cmd,
     h.pad_len, h.ch_id, h.pkt_len % 256, h.pkt_len \div 256 >>

(* Reference: the wire format of the protocol, read byte by byte:         *)
(* {magic:u16, reserved:u8, cmd:u8, pad_len:u8, ch_id:u8, pkt_len:u16}.    *)
WireDecode(b) ==
  [magic_num |-> b[1] + 256 * b[2], reserved |-> b[3], cmd |-> b[4],
   pad_len |-> b[5], ch_id |-> b[6], pkt_len |-> b[7] + 256 * b[8]]

(* Reference: the filler that makes header, payload and filler a multiple *)
(* of 4 bytes.                                                            *)
RefPad(len) == CHOOSE p \in 0..3 : (HDR_SIZE + len + p) % 4 = 0

=============================================================================
