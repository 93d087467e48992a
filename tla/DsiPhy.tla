------------------------------- MODULE DsiPhy --------------------------------
(***************************************************************************)
(* The MIPI DSI PHY and clock bring-up of the MSM display driver           *)
(* (drivers/video/msm/msm_dss_io_8960.c and msm_dss_io_8x60.c).            *)
(*                                                                         *)
(* mipi_dsi_clk_div_config derives the PHY PLL dividers and the DSI core  *)
(* and pixel clock M/N settings from pll_divider_config.clk_rate and the   *)
(* mnd_table entry for the panel's lanes and bpp, and reports the pixel   *)
(* clock it expects.  mipi_dsi_phy_init writes the panel's PLL values and *)
(* then the dividers (mipi_dsi_phy_pll_config) into DSIPHY_PLL_CTRL_x and *)
(* enables the PLL; mipi_dsi_clk_enable writes the pixel and core clock   *)
(* MD/NS/CC registers of the multimedia clock controller and enables the  *)
(* bus clocks; mipi_dsi_clk_disable and mipi_dsi_phy_ctrl turn them off.  *)
(*                                                                         *)
(* The callers (mipi_dsi.c) are not in the tree, so the entry points are  *)
(* taken in any order.  Registers are sets of bit positions, as in        *)
(* ClockFields8x60.  The PHY regulator, timing, strength, calibration and *)
(* SERDES writes, and the PLL ready poll, touch registers no property     *)
(* reads and are left out.                                                 *)
(***************************************************************************)
EXTENDS Integers, FiniteSets, ClockFields8x60

CONSTANTS
  Targets,       \* the SoCs modelled: "8960" (msm_dss_io_8960.c), "8x60"
  ClkRates,      \* values of pll_divider_config.clk_rate at boot (Hz)
  MndTable,      \* mnd_table: a sequence of its entries (mipi_dsi.h)
  Requests,      \* <<bpp, lanes>> arguments of mipi_dsi_clk_div_config
  PdPll,         \* the panel's dsi_phy_db->pll[i] for the PLL_CTRL_i below
  MaxDivConfigs, \* bound on successful mipi_dsi_clk_div_config calls
  MaxEnable      \* bound on the magnitude of a clock's enable count

ASSUME Targets \subseteq {"8960", "8x60"} /\ Targets # {}
ASSUME PdPll \in [{0, 1, 2, 3, 5, 8, 9, 10} -> 0..255]

VARIABLES
  target,        \* the SoC this behaviour runs on
  mipiDsiClkOn,  \* mipi_dsi_clk_on
  clkEn,         \* enable count of each clk the driver holds
  pllDiv,        \* pll_divider_config
  dsicoreClk,    \* dsicore_clk (struct dsi_clk_desc)
  dsiPclk,       \* dsi_pclk
  expectedPclk,  \* *expected_dsi_pclk of the last successful div_config
  mmss,          \* the DSI core and pixel clock CC/MD/NS registers
  phy,           \* DSIPHY_PLL_CTRL_x and DSI_CLK_CTRL
  divSeq,        \* history: successful div_configs so far
  divMhz,        \* history: the MHz rate of the last successful div_config
  pllSeq,        \* history: divSeq when phy_init last programmed the PLL
  pllMhz,        \* history: divMhz when phy_init last programmed the PLL
  pclkSeq        \* history: divSeq when clk_enable last wrote the pclk

vars == <<target, mipiDsiClkOn, clkEn, pllDiv, dsicoreClk, dsiPclk,
          expectedPclk, mmss, phy, divSeq, divMhz, pllSeq, pllMhz, pclkSeq>>

DsiClks == {"amp_pclk", "dsi_m_pclk", "dsi_s_pclk", "dsi_byte_div_clk", "dsi_esc_clk"}
MmssRegs == {"CORE_CC", "CORE_MD", "CORE_NS", "PCLK_CC", "PCLK_MD", "PCLK_NS"}
(* PLL_CTRL_i by its index i, and DSI_CLK_CTRL (offset 0x118). *)
DSI_CLK_CTRL == 280
PhyRegs == {0, 1, 2, 3, 5, 8, 9, 10, DSI_CLK_CTRL}

NoClk == [mnd_mode |-> 0, src |-> 0, pre_div_func |-> 0, m |-> 0, n |-> 0, d |-> 0]
PllDivRec == [clk_rate |-> 0, fb_divider |-> 0, ref_divider_ratio |-> 0,
              bit_clk_divider |-> 0, byte_clk_divider |-> 0, dsi_clk_divider |-> 0]

(* A 32-bit register written with the int v. *)
Reg(v) == BVAL(31, 0, v)

(* A DSI PHY register written with the int v: the PHY registers are a     *)
(* byte wide (the masks of the PLL_CTRL fields are at most 0xff).         *)
PhyReg(v) == BVAL(7, 0, v)

-----------------------------------------------------------------------------
(* mipi_dsi_clk_div_config *)

PREF_DIV_RATIO == 27

(* The bit clock divider for a rate in MHz: the if/else ladder on rate. *)
DivRatio(rate) == CASE rate < 125 -> 8 [] rate < 250 -> 4 [] rate < 500 -> 2 [] OTHER -> 1

(* The first mnd_table index with the requested lanes and bpp. *)
MndIndex(bpp, lanes) ==
  {i \in DOMAIN MndTable : /\ MndTable[i].lanes = lanes /\ MndTable[i].bpp = bpp
                           /\ \A j \in 1..(i - 1) : ~(MndTable[j].lanes = lanes /\ MndTable[j].bpp = bpp)}

(* The core clock runs its M/N counter: 8960 only when dsiclk_d is set,    *)
(* 8x60 also not when dsiclk_m is 1.                                       *)
CoreMnd8960(e) == e.dsiclk_d # 0
CoreMnd8x60(e) == ~(e.dsiclk_d = 0 \/ e.dsiclk_m = 1)
CoreMnd(t, e) == IF t = "8960" THEN CoreMnd8960(e) ELSE CoreMnd8x60(e)

(* (vco * 1000000 * m) / div in u32 arithmetic: 1000000 = 64 * 15625, so *)
(* the product mod 2^32 is 64 * ((vco * m * 15625) mod 2^26).             *)
U32MulDiv(vco, m, div) ==
  LET y == (vco * m * 15625) % 2 ^ 26
  IN  (y \div div) * 64 + ((y % div) * 64) \div div

ClkDivConfig(bpp, lanes) ==
  LET clkRate == IF pllDiv.clk_rate = 0 THEN 454000000 ELSE pllDiv.clk_rate
      rate == clkRate \div 1000000
      div == DivRatio(rate)
      vco == rate * div
  IN
  IF MndIndex(bpp, lanes) = {}
    THEN /\ pllDiv' = [pllDiv EXCEPT !.clk_rate = clkRate]       \* -EINVAL
         /\ UNCHANGED <<dsicoreClk, dsiPclk, expectedPclk, divSeq, divMhz>>
    ELSE
    \E i \in MndIndex(bpp, lanes) :
    LET e == MndTable[i]
        dsiDiv == e.dsiclk_div * div
    IN
    /\ divSeq < MaxDivConfigs
    /\ pllDiv' = [clk_rate |-> clkRate, fb_divider |-> (vco * PREF_DIV_RATIO) \div 27,
                  ref_divider_ratio |-> PREF_DIV_RATIO, bit_clk_divider |-> div,
                  byte_clk_divider |-> div * 8, dsi_clk_divider |-> dsiDiv]
    /\ dsicoreClk' = IF CoreMnd(target, e)
                       THEN [dsicoreClk EXCEPT !.mnd_mode = 2, !.src = 3, !.m = e.dsiclk_m,
                                               !.n = e.dsiclk_n, !.d = e.dsiclk_d]
                       ELSE [dsicoreClk EXCEPT !.mnd_mode = 0, !.src = 3,
                                               !.pre_div_func = e.dsiclk_n - 1]
    /\ IF e.pclk_d = 0 \/ e.pclk_m = 1
         THEN /\ dsiPclk' = [dsiPclk EXCEPT !.mnd_mode = 0, !.src = 3,
                                            !.pre_div_func = e.pclk_n - 1]
              /\ expectedPclk' = U32MulDiv(vco, 1, dsiDiv * e.pclk_n)
         ELSE /\ dsiPclk' = [dsiPclk EXCEPT !.mnd_mode = 2, !.src = 3, !.m = e.pclk_m,
                                            !.n = e.pclk_n, !.d = e.pclk_d]
              /\ expectedPclk' = U32MulDiv(vco, e.pclk_m, dsiDiv * e.pclk_n)
    /\ divSeq' = divSeq + 1
    /\ divMhz' = rate

-----------------------------------------------------------------------------
(* Mutant: PLL_CTRL_2 or'ed without clearing the bits under 0x07. *)
PhyPllConfig_noMask(p, d) ==
  LET fb == d.fb_divider \div 2 - 1
  IN  [p EXCEPT ![1] = BVAL(7, 0, fb),
                ![2] = @ \cup BVAL(2, 0, fb \div 256),
                ![3] = (@ \ BM(5, 0)) \cup BVAL(5, 0, d.ref_divider_ratio - 1),
                ![8] = (@ \ BM(3, 0)) \cup BVAL(3, 0, d.bit_clk_divider - 1),
                ![9] = PhyReg(d.byte_clk_divider - 1),
                ![10] = PhyReg(d.dsi_clk_divider - 1)]

(* mipi_dsi_phy_pll_config: the dividers into PLL_CTRL_1, 2, 3, 8, 9, 10; *)
(* 2, 3 and 8 by read-modify-write under the masks 0x07, 0x3f and 0x0f.   *)
PhyPllConfig(p, d) ==
  LET fb == d.fb_divider \div 2 - 1
  IN  [p EXCEPT ![1] = BVAL(7, 0, fb),
                ![2] = (@ \ BM(2, 0)) \cup BVAL(2, 0, fb \div 256),
                ![3] = (@ \ BM(5, 0)) \cup BVAL(5, 0, d.ref_divider_ratio - 1),
                ![8] = (@ \ BM(3, 0)) \cup BVAL(3, 0, d.bit_clk_divider - 1),
                ![9] = PhyReg(d.byte_clk_divider - 1),
                ![10] = PhyReg(d.dsi_clk_divider - 1)]

(* mipi_dsi_phy_init: the panel's pll[1..] into PLL_CTRL_1.., the dividers *)
(* over them, then pll[0] and pll[0] | 1 (PLL enable) into PLL_CTRL_0.    *)
(* The 8960 then enables dsi_byte_div_clk and dsi_esc_clk.                 *)
PllWrites(p) ==
  LET panel == [r \in PhyRegs |-> IF r \in DOMAIN PdPll /\ r # 0 THEN PhyReg(PdPll[r]) ELSE p[r]]
  IN  [PhyPllConfig(panel, pllDiv) EXCEPT ![0] = PhyReg(PdPll[0]) \cup {0}]

PhyInit8960 ==
  /\ target = "8960"
  /\ clkEn["dsi_esc_clk"] < MaxEnable
  /\ phy' = PllWrites(phy)
  /\ clkEn' = [c \in DsiClks |-> IF c \in {"dsi_byte_div_clk", "dsi_esc_clk"}
                                   THEN clkEn[c] + 1 ELSE clkEn[c]]

PhyInit8x60 ==
  /\ target = "8x60"
  /\ phy' = PllWrites(phy)
  /\ UNCHANGED clkEn

PhyInit ==
  /\ PhyInit8960 \/ PhyInit8x60
  /\ pllSeq' = divSeq
  /\ pllMhz' = divMhz
  /\ UNCHANGED <<target, mipiDsiClkOn, pllDiv, dsicoreClk, dsiPclk, expectedPclk, mmss,
                 divSeq, divMhz, pclkSeq>>

-----------------------------------------------------------------------------
(* mipi_dsi_clk_ctrl and mipi_dsi_pclk_ctrl with clk_en = 1: NS (the       *)
(* pre-divider at bit 14 for the core clock, 12 for the pixel clock, or    *)
(* ~(n - m) in the top byte), MD (m and ~(2d)) and CC (mode, M/N enable,   *)
(* root enable, clock enable).                                             *)
ClkCtrlWrites(m, c, preShift, cc, md, ns) ==
  IF c.mnd_mode = 0
    THEN [m EXCEPT ![ns] = Reg(c.pre_div_func * 2 ^ preShift + c.src),
                   ![cc] = Reg(c.mnd_mode * 64 + 4 + 1)]
    ELSE [m EXCEPT ![md] = BVAL(7, 0, Not(c.d * 2)) \cup Reg(c.m * 256),
                   ![ns] = BVAL(31, 24, Not(c.n - c.m)) \cup Reg(c.src),
                   ![cc] = Reg(c.mnd_mode * 64 + 32 + 4 + 1)]

(* Mutant: the pixel clock's pre-divider shifted to bit 14 as the core's. *)
PclkCtrl_coreShift(m, c) == ClkCtrlWrites(m, c, 14, "PCLK_CC", "PCLK_MD", "PCLK_NS")

ClkCtrl(m, c) == ClkCtrlWrites(m, c, 14, "CORE_CC", "CORE_MD", "CORE_NS")
PclkCtrl(m, c) == ClkCtrlWrites(m, c, 12, "PCLK_CC", "PCLK_MD", "PCLK_NS")

(* The clocks mipi_dsi_clk_enable enables: on the 8960 the byte and escape *)
(* clocks are enabled by phy_init instead.                                 *)
EnabledByClkEnable(t) ==
  IF t = "8960" THEN {"amp_pclk", "dsi_m_pclk", "dsi_s_pclk"} ELSE DsiClks

(* Mutant: mipi_dsi_clk_enable without the mipi_dsi_clk_on test. *)
ClkEnable_noGuard ==
  /\ mipiDsiClkOn' = TRUE
  /\ clkEn' = [c \in DsiClks |-> IF c \in EnabledByClkEnable(target)
                                   THEN clkEn[c] + 1 ELSE clkEn[c]]
  /\ mmss' = ClkCtrl(PclkCtrl(mmss, dsiPclk), dsicoreClk)
  /\ pclkSeq' = divSeq
  /\ UNCHANGED <<target, pllDiv, dsicoreClk, dsiPclk, expectedPclk, phy,
                 divSeq, divMhz, pllSeq, pllMhz>>

(* mipi_dsi_clk_enable (8960), and the same on the 8x60 but for the byte  *)
(* and escape clocks.  clk_set_rate of the byte and escape dividers only  *)
(* logs a failure; their rates belong to the clock driver.               *)
ClkEnable ==
  /\ ~mipiDsiClkOn
  /\ mipiDsiClkOn' = TRUE
  /\ clkEn' = [c \in DsiClks |-> IF c \in EnabledByClkEnable(target)
                                   THEN clkEn[c] + 1 ELSE clkEn[c]]
  /\ mmss' = ClkCtrl(PclkCtrl(mmss, dsiPclk), dsicoreClk)
  /\ pclkSeq' = divSeq
  /\ UNCHANGED <<target, pllDiv, dsicoreClk, dsiPclk, expectedPclk, phy,
                 divSeq, divMhz, pllSeq, pllMhz>>

(* mipi_dsi_clk_disable: DSI_CLK_CTRL and both CCs to 0, and clk_disable  *)
(* of all five clocks.                                                     *)
ClkDisable ==
  /\ mipiDsiClkOn
  /\ \A c \in DsiClks : clkEn[c] > -MaxEnable
  /\ mipiDsiClkOn' = FALSE
  /\ phy' = [phy EXCEPT ![DSI_CLK_CTRL] = {}]
  /\ mmss' = [mmss EXCEPT !["PCLK_CC"] = {}, !["CORE_CC"] = {}]
  /\ clkEn' = [c \in DsiClks |-> clkEn[c] - 1]
  /\ UNCHANGED <<target, pllDiv, dsicoreClk, dsiPclk, expectedPclk,
                 divSeq, divMhz, pllSeq, pllMhz, pclkSeq>>

(* mipi_dsi_phy_ctrl(on): PLL_CTRL_5 to 0x050; off: PLL_CTRL_5 to 0x05f,  *)
(* PLL_CTRL_0 to 0x40 (PLL disabled) and DSI_CLK_CTRL to 0.               *)
PhyCtrl(on) ==
  /\ phy' = IF on THEN [phy EXCEPT ![5] = PhyReg(80)]
                  ELSE [phy EXCEPT ![5] = PhyReg(95), ![0] = PhyReg(64), ![DSI_CLK_CTRL] = {}]
  /\ UNCHANGED <<target, mipiDsiClkOn, clkEn, pllDiv, dsicoreClk, dsiPclk,
                 expectedPclk, mmss, divSeq, divMhz, pllSeq, pllMhz, pclkSeq>>

-----------------------------------------------------------------------------
Init ==
  /\ target \in Targets
  /\ mipiDsiClkOn = FALSE
  /\ clkEn = [c \in DsiClks |-> 0]
  /\ pllDiv \in {[PllDivRec EXCEPT !.clk_rate = r] : r \in ClkRates}
  /\ dsicoreClk = NoClk
  /\ dsiPclk = NoClk
  /\ expectedPclk = 0
  /\ mmss = [r \in MmssRegs |-> {}]
  /\ phy = [r \in PhyRegs |-> {}]
  /\ divSeq = 0 /\ divMhz = 0 /\ pllSeq = 0 /\ pllMhz = 0 /\ pclkSeq = 0

Next ==
  \/ \E q \in Requests : /\ ClkDivConfig(q[1], q[2])
                         /\ UNCHANGED <<target, mipiDsiClkOn, clkEn, mmss, phy,
                                        pllSeq, pllMhz, pclkSeq>>
  \/ PhyInit
  \/ ClkEnable
  \/ ClkDisable
  \/ \E on \in BOOLEAN : PhyCtrl(on)

Spec == Init /\ [][Next]_vars

-----------------------------------------------------------------------------
(* What the hardware makes of the registers.                               *)

PllEnabled == 0 \in phy[0]

(* The PLL's VCO in MHz: the 27 MHz reference over the reference divider *)
(* (PLL_CTRL_3), times twice the feedback divider field plus one (PLL_CTRL *)
(* 1 and 2): the inverse of the (fb_divider / 2) - 1 the driver writes.   *)
FbField == Field(phy[1], 7, 0) + 256 * Field(phy[2], 2, 0)
RegVco == (54 * (FbField + 1)) \div (Field(phy[3], 5, 0) + 1)
RegBitDiv == Field(phy[8], 3, 0) + 1

(* The pixel clock's M and N: the M/N counter's, or 1 and the pre-divider. *)
PclkM == IF Field(mmss["PCLK_CC"], 7, 6) = 0 THEN 1 ELSE Field(mmss["PCLK_MD"], 15, 8)
PclkN == IF Field(mmss["PCLK_CC"], 7, 6) = 0
           THEN Field(mmss["PCLK_NS"], 31, 12) + 1
           ELSE (255 - Field(mmss["PCLK_NS"], 31, 24)) + PclkM
(* The divider from the VCO to the pixel clock: PLL_CTRL_10 (dsi clock)    *)
(* and the pixel clock's N.                                                *)
PclkDiv == (Field(phy[10], 7, 0) + 1) * PclkN
(* The pixel clock in Hz, rounded down: VCO * 10^6 * M / div. *)
RegPclk == LET q == RegVco * PclkM
           IN  (q \div PclkDiv) * 1000000 + ((q % PclkDiv) * 1000000) \div PclkDiv

-----------------------------------------------------------------------------
(* Type invariant. *)
DsiTypeOK ==
  /\ target \in Targets
  /\ mipiDsiClkOn \in BOOLEAN
  /\ clkEn \in [DsiClks -> -MaxEnable..MaxEnable]
  /\ mmss \in [MmssRegs -> SUBSET Bits]
  /\ phy \in [PhyRegs -> SUBSET (0..7)]
  /\ divSeq \in 0..MaxDivConfigs /\ pllSeq \in 0..MaxDivConfigs
  /\ pclkSeq \in 0..MaxDivConfigs

(* Once mipi_dsi_phy_init has programmed and enabled the PLL from a        *)
(* successful mipi_dsi_clk_div_config, the PLL_CTRL fields decode to the   *)
(* VCO that div_config derived from clk_rate (within the 2 MHz step of the *)
(* feedback field), the bit clock divider it chose, and a byte clock       *)
(* divider 8 times that: the rate ladder, the /2 - 1 encoding and the      *)
(* read-modify-writes over the panel's PLL values agree.                   *)
PllProgramsRequestedRate ==
  PllEnabled /\ pllSeq > 0 =>
    LET vco == pllMhz * DivRatio(pllMhz)
    IN  /\ RegVco \in {vco - 1, vco}
        /\ RegBitDiv = DivRatio(pllMhz)
        /\ Field(phy[9], 7, 0) + 1 = 8 * RegBitDiv

(* While the DSI clocks are on and both the PLL (phy_init) and the pixel   *)
(* clock registers (clk_enable) were written from the latest               *)
(* div_config, the pixel clock the hardware makes is the expected_dsi_pclk *)
(* div_config reported, short by at most the PLL's rounding.               *)
PclkAsReported ==
  mipiDsiClkOn /\ PllEnabled /\ divSeq > 0 /\ pllSeq = divSeq /\ pclkSeq = divSeq =>
    /\ 0 \in mmss["PCLK_CC"]
    /\ expectedPclk - RegPclk \in 0..((PclkM * 1000000) \div PclkDiv + 1)
=============================================================================
