------------------------------ MODULE Clock8x60 -----------------------------
(***************************************************************************)
(* The MSM8x60 local clock registers that several clocks share, from boot *)
(* on (arch/arm/mach-msm/clock-8x60.c):                                   *)
(*  - MISC_CC2 holds dsi_byte_clk's divider, mdp_vsync_clk's source, and  *)
(*    the hdmi_ref_clk divider that set_rate_tv copies from the TV clock; *)
(*  - each LCC I2S NS register holds an AIF OSR clock and its BIT clock;  *)
(*  - MM_PLL2 (pll3) is reprogrammed by set_rate_tv for every TV rate.    *)
(* msm_clk_soc_init (with reg_init) runs once; then the MI2S audio        *)
(* driver, the TV driver, and the DSI driver through mipi_dsi_clk_enable  *)
(* and mipi_dsi_clk_disable (video/msm/msm_dss_io_8x60.c) set rates.      *)
(*                                                                         *)
(* local_clk_set_rate (clock-local.c, not in this tree) looks the rate up *)
(* in the clock's table, answers -EINVAL when it is not there, and under  *)
(* local_clock_reg_lock rewrites the ns_mask bits of the NS register with *)
(* the entry's ns_val and the MD register with md_val; set_rate_tv does   *)
(* the TV clock's switch.  A set_rate is one step.                        *)
(***************************************************************************)
EXTENDS ClockTables8x60, TLC

VARIABLES
  regs,     \* register -> the set of its bits that are 1
  cur,      \* clock -> index of its current_freq in its table, 0 = none yet
  booted,   \* msm_clk_soc_init has run
  dsiOn,    \* mipi_dsi_clk_on
  tvLog     \* the register writes of the last set_rate_tv, and MODE before it

vars == <<regs, cur, booted, dsiOn, tvLog>>

Regs == {"MISC_CC2", "TV_NS", "TV_MD", "TV_CC", "MI2S_NS", "MI2S_MD",
         "PLL2_MODE", "PLL2_L", "PLL2_M", "PLL2_N", "PLL2_CONFIG"}
PllProgRegs == {"PLL2_L", "PLL2_M", "PLL2_N", "PLL2_CONFIG"}

(* The clocks on those registers, and where each one's fields live. *)
Live == {"mdp_vsync", "dsi_byte", "tv_src", "aif_osr", "aif_bit"}
RegOf ==
  [mdp_vsync |-> [ns |-> "MISC_CC2", md |-> "", cc |-> ""],
   dsi_byte  |-> [ns |-> "MISC_CC2", md |-> "", cc |-> ""],
   tv_src    |-> [ns |-> "TV_NS", md |-> "TV_MD", cc |-> "TV_CC"],
   aif_osr   |-> [ns |-> "MI2S_NS", md |-> "MI2S_MD", cc |-> ""],
   aif_bit   |-> [ns |-> "MI2S_NS", md |-> "", cc |-> ""]]

(* tv_src_clk.cc_mask *)
TvCcMask == BM(7, 6)

Tbl(c) == Clocks[c].tbl

-----------------------------------------------------------------------------
(* The hardware's reading of the fields: the reference the tables are     *)
(* checked against.  a * m / q without leaving 32-bit integers.           *)
MulDiv(a, m, q) == (a \div q) * m + ((a % q) * m) \div q

MuxOf(mux) == CASE mux = "bb" -> BbMux [] mux = "mm" -> MmMux
               [] mux = "xo" -> XoMux [] mux = "lpa" -> LpaMux

(* The sources the tables select. *)
Sources == {"pxo", "pll8", "pll2", "pll3", "pll4", "gnd"}

(* MM_PLL2 runs from PXO: L + M/N times 27 MHz, after the post-divider. *)
PostDiv(f) == IF f = 0 THEN 1 ELSE 2 * f
PllOut(l, m, n, mnEn, postDiv) ==
  (SrcRate["pxo"] * l + (IF mnEn /\ n # 0 THEN MulDiv(SrcRate["pxo"], m, n) ELSE 0))
    \div PostDiv(postDiv)

(* The rate one bank of a clock produces from NS, MD and CC, given pll3's. *)
BankRate(b, ns, md, cc, pll3) ==
  IF b.mux = "div"
    THEN IF b.ext # <<>> /\ b.ext[1] \in ns THEN 0 ELSE Field(ns, b.d[1], b.d[2]) + 1
    ELSE
      LET sel  == Field(ns, b.s[1], b.s[2])
          srcs == {x \in Sources \cap DOMAIN MuxOf(b.mux) : MuxOf(b.mux)[x] = sel}
          src  == CHOOSE x \in srcs : TRUE
          rate == IF src = "pll3" THEN pll3 ELSE SrcRate[src]
          d    == IF b.d = <<>> THEN 1 ELSE Field(ns, b.d[1], b.d[2]) + 1
          mreg == IF b.mode # <<>> /\ b.mode[1] = "ns" THEN ns ELSE cc
          mnd  == b.mode # <<>> /\ Field(mreg, b.mode[2] + 1, b.mode[2]) = MN_MODE_DUAL_EDGE
          w    == b.n[1] - b.n[2] + 1
          m    == Field(md, b.m[1], b.m[2])
          n    == (2 ^ w - 1 - Field(ns, b.n[1], b.n[2])) + m
      IN IF srcs = {} THEN -1
         ELSE IF mnd THEN (IF n * d = 0 THEN -1 ELSE MulDiv(rate, m, n * d))
         ELSE rate \div d

(* Within the tables' rounding: half a percent. *)
RateOk(r, f) == r >= 0 /\ (f = 0 => r = 0) /\ r - f <= f \div 200 /\ f - r <= f \div 200

(* The pll3 rate a TV entry's pll_rate programs. *)
EntryPll(e) ==
  LET p == mm_pll2_rate[e.pll]
  IN IF e.pll = 0 THEN 0 ELSE PllOut(p.l_val, p.m_val, p.n_val, p.n_val # 0, p.post_div)

-----------------------------------------------------------------------------
(* Lookup in a clock's table (local_clk_set_rate). *)
Lookup(c, f) == {i \in DOMAIN Tbl(c) : Tbl(c)[i].freq = f}
(* The table walk stops at the first entry of rate f. *)
FirstOf(c, f) == {i \in Lookup(c, f) : \A j \in Lookup(c, f) : i <= j}

(* The register writes of a set_rate_mnd or set_rate_nop switch of clock   *)
(* c to entry i.                                                            *)
RateWrites(c, i, r) ==
  LET e == Tbl(c)[i]
      R == RegOf[c]
  IN << <<R.ns, (r[R.ns] \ Clocks[c].nsMask) \cup e.ns>> >>
     \o (IF R.md # "" THEN << <<R.md, e.md>> >> ELSE << >>)
     \o (IF R.cc # "" THEN << <<R.cc, (r[R.cc] \ TvCcMask) \cup e.cc>> >> ELSE << >>)

(* The registers after a sequence of writes. *)
LastWrite(w, r, old) ==
  LET ks == {k \in DOMAIN w : w[k][1] = r}
  IN IF ks = {} THEN old ELSE w[Max(ks)][2]
ApplyWrites(r, w) == [x \in Regs |-> LastWrite(w, x, r[x])]

(* clk_set_rate(c, f): -EINVAL and nothing written when f is not a rate   *)
(* of c's table.                                                          *)
SetRateTo(c, f) ==
  IF Lookup(c, f) = {}
    THEN UNCHANGED <<regs, cur>>
    ELSE \E i \in FirstOf(c, f) :
           /\ regs' = ApplyWrites(regs, RateWrites(c, i, regs))
           /\ cur' = [cur EXCEPT ![c] = i]

-----------------------------------------------------------------------------
(* set_rate_tv, in program order.  Every value is computed from the       *)
(* registers as they were on entry: no write hits a register that a later *)
(* read in the function reads again.                                       *)

(* Disable the PLL output (bit 0), then assert its active-low reset (bit 2). *)
PllDisableWrites(r) ==
  << <<"PLL2_MODE", r["PLL2_MODE"] \ {0}>>, <<"PLL2_MODE", r["PLL2_MODE"] \ {0, 2}>> >>

(* Program L, M and N, then CONFIG: the MN enable, post-divider, VCO and  *)
(* i-bits.                                                                 *)
PllProgramWrites(i, r) ==
  LET rate == mm_pll2_rate[Tbl("tv_src")[i].pll]
      cfg  == (r["PLL2_CONFIG"] \ (BM(22, 20) \cup BM(18, 0)))
                \cup IfNonZero(rate.n_val, {22}) \cup BVAL(21, 20, rate.post_div)
                \cup BVAL(17, 16, rate.vco) \cup BVAL(31, 0, rate.i_bits)
  IN << <<"PLL2_L", BVAL(31, 0, rate.l_val)>>, <<"PLL2_M", BVAL(31, 0, rate.m_val)>>,
        <<"PLL2_N", BVAL(31, 0, rate.n_val)>>, <<"PLL2_CONFIG", cfg>> >>

(* hdmi_ref_clk: selected (bit 28), its divider the TV pre-divider field. *)
HdmiRefWrite(i, r) ==
  <<"MISC_CC2", (r["MISC_CC2"] \ ({28} \cup BM(21, 18)))
                  \cup {28} \cup BVAL(21, 18, Field(Tbl("tv_src")[i].ns, 15, 14))>>

(* De-assert the reset, then enable the output. *)
PllEnableWrites(r) ==
  LET mode == r["PLL2_MODE"] \ {0, 2}
  IN << <<"PLL2_MODE", mode \cup {2}>>, <<"PLL2_MODE", mode \cup {2, 0}>> >>

TvWrites_programFirst(i, r) ==
  PllProgramWrites(i, r) \o PllDisableWrites(r) \o RateWrites("tv_src", i, r)
    \o << HdmiRefWrite(i, r) >> \o PllEnableWrites(r)
TvWrites(i, r) ==
  PllDisableWrites(r) \o PllProgramWrites(i, r) \o RateWrites("tv_src", i, r)
    \o << HdmiRefWrite(i, r) >> \o PllEnableWrites(r)

(* reg_init's writes to these registers, in program order (rmwreg is      *)
(* (r & ~mask) | val), with clk_set_rate(gfx3d_clk, 27000000) in between   *)
(* touching none of them.                                                  *)
rmwreg(v, val, mask) == (v \ mask) \cup val

RegInitWrites(r) ==
  LET misc1 == rmwreg(r["MISC_CC2"], BVAL(31, 0, 2045), Bits \ {15})  \* 0x7FD, 0xFFFF7FFF
  IN << <<"PLL2_MODE", rmwreg(r["PLL2_MODE"], {}, {0})>>, <<"PLL2_MODE", {}>>,
        <<"PLL2_CONFIG", BVAL(31, 0, 8388608)>>,                 \* 0x00800000
        <<"MISC_CC2", misc1>>,
        <<"TV_CC", {31} \cup BM(23, 16)>>,                       \* 0x80FF0000
        <<"MISC_CC2", rmwreg(misc1, BVAL(31, 0, 4194305),        \* 0x400001
                             BVAL(31, 0, 4341763))>> >>          \* 0x424003

(* The rates msm_clk_soc_init and reg_init ask for; every return value is *)
(* ignored.                                                                *)
BootRates_usbTypo ==
  {<<"gfx3d", 27000000>>, <<"pdm", 27000000>>, <<"prng", 64000000>>,
   <<"mdp_vsync", 27000000>>, <<"tsif_ref", 105000>>, <<"tssc", 27000000>>,
   <<"usb", 48000000>>}
BootRates ==
  {<<"gfx3d", 27000000>>, <<"pdm", 27000000>>, <<"prng", 64000000>>,
   <<"mdp_vsync", 27000000>>, <<"tsif_ref", 105000>>, <<"tssc", 27000000>>,
   <<"usb", 60000000>>}

-----------------------------------------------------------------------------
Init ==
  /\ regs \in [Regs -> {{}}] \cup
       {[x \in Regs |-> IF x \in {"MISC_CC2", "TV_NS", "MI2S_NS", "PLL2_MODE"}
                          THEN Bits ELSE {}]}
  /\ cur = [c \in Live |-> 0]
  /\ booted = FALSE
  /\ dsiOn = FALSE
  /\ tvLog = [mode0 |-> {}, writes |-> << >>]

(* msm_clk_soc_init: reg_init, then the one-rate clocks' clk_set_rate.     *)
(* Of the clocks here only mdp_vsync_clk is among them.                    *)
SocInit ==
  /\ ~booted
  /\ booted' = TRUE
  /\ \E r1 \in {ApplyWrites(regs, RegInitWrites(regs))} :
     \E i \in FirstOf("mdp_vsync", 27000000) :
       /\ regs' = ApplyWrites(r1, RateWrites("mdp_vsync", i, r1))
       /\ cur' = [cur EXCEPT !["mdp_vsync"] = i]
  /\ UNCHANGED <<dsiOn, tvLog>>

(* The MI2S driver's clk_set_rate of mi2s_osr_clk or mi2s_bit_clk. *)
SetRate(c, f) ==
  /\ booted
  /\ SetRateTo(c, f)
  /\ UNCHANGED <<booted, dsiOn, tvLog>>

(* clk_set_rate(tv_src_clk, f): set_rate_tv, or -EINVAL. *)
SetRateTv(f) ==
  /\ booted
  /\ IF Lookup("tv_src", f) = {}
       THEN UNCHANGED <<regs, cur, tvLog>>
       ELSE \E i \in FirstOf("tv_src", f) :
              /\ tvLog' = [mode0 |-> regs["PLL2_MODE"], writes |-> TvWrites(i, regs)]
              /\ regs' = ApplyWrites(regs, tvLog'.writes)
              /\ cur' = [cur EXCEPT !["tv_src"] = i]
  /\ UNCHANGED <<booted, dsiOn>>

(* mipi_dsi_clk_enable: nothing when already on; otherwise the byte clock *)
(* divider is set to 1 (a failure is only logged) and the clocks enabled. *)
DsiClkEnable ==
  /\ booted
  /\ IF dsiOn
       THEN UNCHANGED <<regs, cur, dsiOn>>
       ELSE /\ dsiOn' = TRUE
            /\ SetRateTo("dsi_byte", 1)
  /\ UNCHANGED <<booted, tvLog>>

(* mipi_dsi_clk_disable: nothing when already off. *)
DsiClkDisable ==
  /\ booted
  /\ dsiOn' = FALSE
  /\ UNCHANGED <<regs, cur, booted, tvLog>>

(* Small sets of requested rates: some in each table, one in none. *)
CONSTANTS OsrRates, BitRates, TvRates

Next ==
  \/ SocInit
  \/ \E f \in OsrRates : SetRate("aif_osr", f)
  \/ \E f \in BitRates : SetRate("aif_bit", f)
  \/ \E f \in TvRates : SetRateTv(f)
  \/ DsiClkEnable
  \/ DsiClkDisable

Spec == Init /\ [][Next]_vars
-----------------------------------------------------------------------------
(* What the running hardware makes of the registers.                       *)

(* pll3: its L, M, N and CONFIG, when MODE has the output enabled (bit 0)  *)
(* and the active-low reset de-asserted (bit 2); otherwise no clock.       *)
PllRate(r) ==
  IF {0, 2} \subseteq r["PLL2_MODE"]
    THEN PllOut(Field(r["PLL2_L"], 30, 0), Field(r["PLL2_M"], 30, 0),
                Field(r["PLL2_N"], 30, 0), 22 \in r["PLL2_CONFIG"],
                Field(r["PLL2_CONFIG"], 21, 20))
    ELSE 0

(* The rate clock c's first bank produces from the registers. *)
LiveRate(c, r) ==
  LET R == RegOf[c]
      rd(x) == IF x = "" THEN {} ELSE r[x]
  IN BankRate(Clocks[c].banks[1], rd(R.ns), rd(R.md), rd(R.cc), PllRate(r))

(* hdmi_ref_clk: pll3 divided by MISC_CC2[21:18] + 1, selected by bit 28. *)
HdmiRefRate(r) ==
  IF 28 \in r["MISC_CC2"] THEN PllRate(r) \div (Field(r["MISC_CC2"], 21, 18) + 1) ELSE -1

-----------------------------------------------------------------------------
(* Every entry of every frequency table, written into its clock's NS, MD  *)
(* and CC fields, is read back by the hardware (the source mux, the pre-  *)
(* divider and the M/N counter in dual-edge mode) as its freq_hz, within  *)
(* the tables' rounding; its NS value lies inside the clock's ns_mask, and *)
(* every bank of a banked clock decodes it alike.  A TV entry is read with *)
(* pll3 at the rate its pll_rate programs.  The tables are constant: the *)
(* check is made before msm_clk_soc_init registers them.                  *)
TablesDecode ==
  \A clk \in {Clocks[c] : c \in DOMAIN Clocks} :
    \A e \in {clk.tbl[i] : i \in DOMAIN clk.tbl} :
      /\ e.ns \subseteq clk.nsMask
      /\ \A b \in {clk.banks[k] : k \in DOMAIN clk.banks} :
           RateOk(BankRate(b, e.ns, e.md, e.cc, EntryPll(e)), e.freq)
EveryEntryDecodes == ~booted => TablesDecode

(* Every rate msm_clk_soc_init and reg_init set, with the result ignored, *)
(* is a rate of that clock's table, so no boot clock is left at           *)
(* local_dummy_freq: once booted, each of those requests was accepted.    *)
BootRatesSupported == booted => \A p \in BootRates : Lookup(p[1], p[2]) # {}

(* After boot, whatever sequence of rate changes the MI2S, TV and DSI      *)
(* drivers make, every clock on the shared registers (MISC_CC2, the MI2S  *)
(* NS register, pll3) still runs at the rate of its current_freq, and     *)
(* hdmi_ref_clk at the TV clock's when that is not grounded: no driver's read-modify-write clobbers *)
(* another clock's field.                                                  *)
SharedRegistersKeepRates ==
  booted =>
    /\ \A c \in Live : cur[c] # 0 => RateOk(LiveRate(c, regs), Tbl(c)[cur[c]].freq)
    /\ cur["tv_src"] # 0 /\ Tbl("tv_src")[cur["tv_src"]].freq # 0 =>
         RateOk(HdmiRefRate(regs), Tbl("tv_src")[cur["tv_src"]].freq)

(* set_rate_tv writes L, M, N and CONFIG only while the PLL output is     *)
(* disabled and the PLL held in reset, and it enables the output only      *)
(* after releasing the reset, the two ending set.                          *)
ModeBefore(k) == LastWrite(SubSeq(tvLog.writes, 1, k - 1), "PLL2_MODE", tvLog.mode0)
TvPllReprogramSafe ==
  LET w == tvLog.writes IN
  w # << >> =>
    /\ \A k \in DOMAIN w :
         /\ w[k][1] \in PllProgRegs => ModeBefore(k) \cap {0, 2} = {}
         /\ w[k][1] = "PLL2_MODE" /\ 0 \in w[k][2] => 2 \in w[k][2]
    /\ {0, 2} \subseteq LastWrite(w, "PLL2_MODE", {})
=============================================================================
