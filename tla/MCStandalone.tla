---------------------------- MODULE MCStandalone ----------------------------
(***************************************************************************)
(* The four models that share no state with each other, checked in one    *)
(* run: the BAM DMUX framer (BamMuxFramer), the MSM8x60 shared clock       *)
(* registers (Clock8x60), the voice sound card (AudioCard) and the MIPI    *)
(* DSI PHY and clocks (DsiPhy).  A behaviour runs one of the four, chosen  *)
(* at the start, so the states are those of each, side by side, and every *)
(* invariant is checked on all.                                            *)
(***************************************************************************)
EXTENDS Naturals, TLC

VARIABLES
  sent,                                         \* BamMuxFramer
  regs, cur, booted, dsiOn, tvLog,              \* Clock8x60
  clkUsers, clkEnabled, clkRate, spkControl,    \* AudioCard (Msm8960)
  pinEnabled, spkPowered, pampOn, gpioHeld, gpioHigh,
  playbackStart, captureStart, substream,       \* AudioCard (VoicePcm)
  instance, callActive, st,
  target, mipiDsiClkOn, clkEn, pllDiv, dsicoreClk,      \* DsiPhy
  dsiPclk, expectedPclk, mmss, phy, divSeq, divMhz, pllSeq, pllMhz, pclkSeq,
  part                                          \* the model this behaviour runs

clockVars == <<regs, cur, booted, dsiOn, tvLog>>
audioVars == <<clkUsers, clkEnabled, clkRate, spkControl, pinEnabled, spkPowered,
               pampOn, gpioHeld, gpioHigh, playbackStart, captureStart,
               substream, instance, callActive, st>>
dsiVars == <<target, mipiDsiClkOn, clkEn, pllDiv, dsicoreClk, dsiPclk,
             expectedPclk, mmss, phy, divSeq, divMhz, pllSeq, pllMhz, pclkSeq>>
allVars == <<sent, clockVars, audioVars, dsiVars, part>>

(* Every payload length up to 23, the lengths at the top of the 16-bit    *)
(* pkt_len field, tailrooms 0..4, three channel ids of the 8.             *)
Framer == INSTANCE BamMuxFramer
            WITH PayloadLens <- (0..23) \cup (65530..65535),
                 Tailrooms <- 0..4, ChIds <- {0, 3, 7}

(* Rates of each table, the grounded 0, and one that is in no table (the  *)
(* -EINVAL path): 44.1 kHz OSR, BIT divider 17, 13.5 MHz TV.              *)
Clock == INSTANCE Clock8x60
           WITH OsrRates <- {0, 768000, 12288000, 24576000, 44100},
                BitRates <- {0, 1, 8, 16, 17},
                TvRates  <- {0, 25200000, 27030000, 74250000, 148500000, 13500000}

(* Amplifier GPIO requests may fail. *)
Audio == INSTANCE AudioCard WITH GpioMayFail <- TRUE

(* Both SoCs.  mnd_table and the panel's PHY database are not in the tree: *)
(* the entries exercise both pixel clock modes, two mnd_table entries for  *)
(* one lanes/bpp pair (the first wins) and a pair with none; the panel's   *)
(* PLL values have the bits under each divider mask set.  Boot clk_rates   *)
(* fall in each branch of the divider ladder, plus 0 (the 454 MHz default) *)
(* and an odd MHz rate above 500 (an odd VCO).                             *)
DsiMndTable ==
  << [lanes |-> 2, bpp |-> 3, dsiclk_div |-> 4, dsiclk_m |-> 1, dsiclk_n |-> 1,
      dsiclk_d |-> 0, pclk_m |-> 1, pclk_n |-> 3, pclk_d |-> 2],
     [lanes |-> 3, bpp |-> 2, dsiclk_div |-> 1, dsiclk_m |-> 3, dsiclk_n |-> 8,
      dsiclk_d |-> 4, pclk_m |-> 3, pclk_n |-> 16, pclk_d |-> 8],
     [lanes |-> 2, bpp |-> 3, dsiclk_div |-> 2, dsiclk_m |-> 1, dsiclk_n |-> 1,
      dsiclk_d |-> 0, pclk_m |-> 1, pclk_n |-> 2, pclk_d |-> 0] >>
Dsi == INSTANCE DsiPhy
         WITH Targets <- {"8960", "8x60"},
              ClkRates <- {0, 100000000, 200000000, 525000000},
              MndTable <- DsiMndTable,
              Requests <- {<<3, 2>>, <<2, 3>>, <<3, 1>>},
              PdPll <- (0 :> 0 @@ 1 :> 170 @@ 2 :> 15 @@ 3 :> 255 @@ 5 :> 0
                        @@ 8 :> 255 @@ 9 :> 170 @@ 10 :> 85),
              MaxDivConfigs <- 2, MaxEnable <- 2

Init ==
  /\ part \in {"framer", "clock", "audio", "dsi"}
  /\ Framer!Init
  /\ Clock!Init
  /\ part # "clock" => regs \in [Clock!Regs -> {{}}]   \* one idle clock state
  /\ Audio!Init
  /\ Dsi!Init
  /\ part # "dsi" => target = "8960" /\ pllDiv.clk_rate = 0   \* one idle DSI state

Next ==
  \/ part = "framer" /\ Framer!Next /\ UNCHANGED <<clockVars, audioVars, dsiVars, part>>
  \/ part = "clock" /\ Clock!Next /\ UNCHANGED <<sent, audioVars, dsiVars, part>>
  \/ part = "audio" /\ Audio!Next /\ UNCHANGED <<sent, clockVars, dsiVars, part>>
  \/ part = "dsi" /\ Dsi!Next /\ UNCHANGED <<sent, clockVars, audioVars, part>>

Spec == Init /\ [][Next]_allVars

-----------------------------------------------------------------------------
(* The framer's type invariant. *)
FramerTypeOK == part = "framer" => Framer!TypeOK

(* msm_bam_dmux_write pads every frame to a multiple of 4 bytes with the  *)
(* pad_len the protocol asks for (BamMuxFramer).                          *)
FrameAligned == part = "framer" => Framer!FrameAligned

(* A peer parsing the header bytes reads back what the driver was given   *)
(* (BamMuxFramer).                                                        *)
HeaderRoundTrip == part = "framer" => Framer!HeaderRoundTrip

(* skb_put is called only within the tailroom, after skb_copy_expand when *)
(* there is too little (BamMuxFramer).                                    *)
PutWithinTailroom == part = "framer" => Framer!PutWithinTailroom

(* Every clock-8x60 table entry decodes, through its clock's NS/MD/CC     *)
(* fields, to its freq_hz (Clock8x60), in the clock behaviours.           *)
EveryEntryDecodes == part = "clock" => Clock!EveryEntryDecodes

(* Every rate msm_clk_soc_init sets is in its clock's table (Clock8x60). *)
BootRatesSupported == part = "clock" => Clock!BootRatesSupported

(* The clocks sharing MISC_CC2, the MI2S NS register and pll3 keep their *)
(* current rates across each other's set_rate (Clock8x60).               *)
SharedRegistersKeepRates == part = "clock" => Clock!SharedRegistersKeepRates

(* set_rate_tv reprograms pll3 only while it is off and in reset         *)
(* (Clock8x60).                                                          *)
TvPllReprogramSafe == part = "clock" => Clock!TvPllReprogramSafe

(* The sound card's type invariant. *)
AudioTypeOK == part = "audio" => Audio!TypeOK

(* The codec clock runs at 12.288 MHz exactly while a back end is started *)
(* (AudioCard).                                                            *)
ClockFollowsBackends == part = "audio" => Audio!ClockFollowsBackends

(* A voice call runs only with the codec clock on (AudioCard). *)
CallImpliesClock == part = "audio" => Audio!CallImpliesClock

(* The amplifier GPIOs are held exactly while the amplifier is on         *)
(* (AudioCard).                                                           *)
AmpGpioOwnership == part = "audio" => Audio!AmpGpioOwnership

(* The DSI model's type invariant. *)
DsiTypeOK == part = "dsi" => Dsi!DsiTypeOK

(* The PLL that mipi_dsi_phy_init programs runs at the VCO and bit clock   *)
(* divider mipi_dsi_clk_div_config derived from clk_rate (DsiPhy).         *)
PllProgramsRequestedRate == part = "dsi" => Dsi!PllProgramsRequestedRate

(* The pixel clock the PHY and clock registers make is the                 *)
(* expected_dsi_pclk mipi_dsi_clk_div_config reported (DsiPhy).            *)
PclkAsReported == part = "dsi" => Dsi!PclkAsReported
=============================================================================
