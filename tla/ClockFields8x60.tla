-------------------------- MODULE ClockFields8x60 ---------------------------
(***************************************************************************)
(* The register encodings of the MSM8x60 clock driver                      *)
(* (arch/arm/mach-msm/clock-8x60.c): the clock sources and their rates,   *)
(* the mux input of each source, and the MD, NS and CC field macros the   *)
(* frequency tables are written with.                                     *)
(*                                                                         *)
(* A 32-bit register value is the set of its bit positions that are 1, so *)
(* a read-modify-write under a mask is set difference and union.  Field   *)
(* values are C ints: BVAL keeps the low (msb - lsb + 1) bits of the      *)
(* two's-complement value, so ~(n) and d - 1 = -1 wrap as in the build.   *)
(***************************************************************************)
EXTENDS Integers, FiniteSets, FiniteSetsExt

Bits == 0..31

(* BM(msb, lsb): the mask of bits msb..lsb. *)
BM(msb, lsb) == lsb..msb

(* Bit k of the two's-complement int v (bits 31 and up are its sign). *)
IntBit(v, k) ==
  CASE k >= 31 -> (IF v < 0 THEN 1 ELSE 0)
    [] v >= 0  -> (v \div 2 ^ k) % 2
    [] OTHER   -> 1 - (((-v - 1) \div 2 ^ k) % 2)

(* BVAL(msb, lsb, val): val shifted to lsb and cut to the field. *)
BVAL(msb, lsb, val) == {i \in lsb..msb : IntBit(val, i - lsb) = 1}

(* C's ~x on an int. *)
Not(x) == -x - 1

(* !!(n) as the factor of a mask. *)
IfNonZero(n, mask) == IF n # 0 THEN mask ELSE {}

(* The value of bits msb..lsb of a register: the hardware's read of a field. *)
Field(r, msb, lsb) == SumSet({2 ^ (i - lsb) : i \in r \cap lsb..msb})

-----------------------------------------------------------------------------
(* Clock sources: fixed_clk, pll_vote_clk and pll_clk rates.  pll3 has    *)
(* rate 0 in the driver ("detect rate dynamically"): set_rate_tv programs *)
(* it, and its output is computed from the PLL registers.                 *)
SrcRate == [pxo  |-> 27000000, cxo  |-> 19200000, pll8 |-> 384000000,
            pll2 |-> 800000000, pll4 |-> 540672000, gnd |-> 0]

(* MUX source input identifiers, per mux family. *)
BbMux  == [pxo |-> 0, mxo |-> 1, cxo |-> 0, pll0 |-> 2, pll8 |-> 3,
           pll6 |-> 4, gnd |-> 6]
MmMux  == [pxo |-> 0, pll1 |-> 1, pll2 |-> 1, pll3 |-> 3, pll8 |-> 2,
           pll0 |-> 3, mxo |-> 4, gnd |-> 6]
XoMux  == [cxo |-> 0, pxo |-> 1, mxo |-> 2, gnd |-> 3]
LpaMux == [pxo |-> 0, cxo |-> 1, pll4 |-> 2, gnd |-> 6]

MN_MODE_DUAL_EDGE == 2

-----------------------------------------------------------------------------
(* MD registers: M and ~N. *)
MD4(m_lsb, m, n_lsb, n) == BVAL(m_lsb + 3, m_lsb, m) \cup BVAL(n_lsb + 3, n_lsb, Not(n))
MD8(m_lsb, m, n_lsb, n) == BVAL(m_lsb + 7, m_lsb, m) \cup BVAL(n_lsb + 7, n_lsb, Not(n))
MD16(m, n) == BVAL(31, 16, m) \cup BVAL(15, 0, Not(n))

(* NS registers: ~(N-M), the MN mode, the pre-divider d - 1 and the source. *)
NS(n_msb, n_lsb, n, m, mde_lsb, d_msb, d_lsb, d, s_msb, s_lsb, s) ==
  BVAL(n_msb, n_lsb, Not(n - m))
    \cup IfNonZero(n, BVAL(mde_lsb + 1, mde_lsb, MN_MODE_DUAL_EDGE))
    \cup BVAL(d_msb, d_lsb, d - 1) \cup BVAL(s_msb, s_lsb, s)

NS_MM(n_msb, n_lsb, n, m, d_msb, d_lsb, d, s_msb, s_lsb, s) ==
  BVAL(n_msb, n_lsb, Not(n - m)) \cup BVAL(d_msb, d_lsb, d - 1)
    \cup BVAL(s_msb, s_lsb, s)

NS_DIVSRC(d_msb, d_lsb, d, s_msb, s_lsb, s) ==
  BVAL(d_msb, d_lsb, d - 1) \cup BVAL(s_msb, s_lsb, s)

NS_SRC_SEL(s_msb, s_lsb, s) == BVAL(s_msb, s_lsb, s)

NS_MND_BANKED4(n0_lsb, n1_lsb, n, m, s0_lsb, s1_lsb, s) ==
  BVAL(n0_lsb + 3, n0_lsb, Not(n - m)) \cup BVAL(n1_lsb + 3, n1_lsb, Not(n - m))
    \cup BVAL(s0_lsb + 2, s0_lsb, s) \cup BVAL(s1_lsb + 2, s1_lsb, s)

NS_MND_BANKED8(n0_lsb, n1_lsb, n, m, s0_lsb, s1_lsb, s) ==
  BVAL(n0_lsb + 7, n0_lsb, Not(n - m)) \cup BVAL(n1_lsb + 7, n1_lsb, Not(n - m))
    \cup BVAL(s0_lsb + 2, s0_lsb, s) \cup BVAL(s1_lsb + 2, s1_lsb, s)

NS_DIVSRC_BANKED(d0_msb, d0_lsb, d1_msb, d1_lsb, d, s0_msb, s0_lsb, s1_msb, s1_lsb, s) ==
  BVAL(d0_msb, d0_lsb, d - 1) \cup BVAL(d1_msb, d1_lsb, d - 1)
    \cup BVAL(s0_msb, s0_lsb, s) \cup BVAL(s1_msb, s1_lsb, s)

(* CC registers: the MN mode when N is not 0. *)
CC(mde_lsb, n) == IfNonZero(n, BVAL(mde_lsb + 1, mde_lsb, MN_MODE_DUAL_EDGE))
CC_BANKED(mde0_lsb, mde1_lsb, n) ==
  IfNonZero(n, BVAL(mde0_lsb + 1, mde0_lsb, MN_MODE_DUAL_EDGE)
                 \cup BVAL(mde1_lsb + 1, mde1_lsb, MN_MODE_DUAL_EDGE))
=============================================================================
