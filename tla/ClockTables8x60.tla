-------------------------- MODULE ClockTables8x60 ---------------------------
(***************************************************************************)
(* The frequency plans of the MSM8x60 local clocks (clock-8x60.c): every  *)
(* F_* entry macro, every clk_freq_tbl, the MM_PLL2 rates the TV table    *)
(* programs, and each clk_local's NS mask and register layout.            *)
(*                                                                         *)
(* An entry keeps what the registers receive: freq_hz, the source, the    *)
(* MD, NS and CC values and, for TV, its pll_rate.  sys_vdd, the branch   *)
(* enable, reset and halt bits, and test vectors are left out: nothing    *)
(* here reads them.                                                       *)
(***************************************************************************)
EXTENDS ClockFields8x60, Sequences

Entry(f, s, md, ns, cc, pll) ==
  [freq |-> f, src |-> s, md |-> md, ns |-> ns, cc |-> cc, pll |-> pll]

(* pll_rate: L, M, N, VCO, post-divider d >> 1, i-bits. *)
PLL_RATE(l, m, n, v, d, i) ==
  [l_val |-> l, m_val |-> m, n_val |-> n, vco |-> v, post_div |-> d \div 2, i_bits |-> i]

-----------------------------------------------------------------------------
(* Entry macros of the peripheral (BB) clocks. *)
F_GSBI_UART(f, s, d, m, n) ==
  Entry(f, s, MD16(m, n), NS(31, 16, n, m, 5, 4, 3, d, 2, 0, BbMux[s]), {}, 0)
F_GSBI_QUP_mLsb8(f, s, d, m, n) ==
  Entry(f, s, MD8(8, m, 0, n), NS(23, 16, n, m, 5, 4, 3, d, 2, 0, BbMux[s]), {}, 0)
F_GSBI_QUP(f, s, d, m, n) ==
  Entry(f, s, MD8(16, m, 0, n), NS(23, 16, n, m, 5, 4, 3, d, 2, 0, BbMux[s]), {}, 0)
F_PDM(f, s, d) == Entry(f, s, {}, NS_SRC_SEL(1, 0, XoMux[s]), {}, 0)
F_PRNG(f, s, d) == Entry(f, s, {}, NS_DIVSRC(6, 3, d, 2, 0, BbMux[s]), {}, 0)
F_SDC(f, s, d, m, n) ==
  Entry(f, s, MD8(16, m, 0, n), NS(23, 16, n, m, 5, 4, 3, d, 2, 0, BbMux[s]), {}, 0)
F_TSIF_REF(f, s, d, m, n) ==
  Entry(f, s, MD16(m, n), NS(31, 16, n, m, 5, 4, 3, d, 2, 0, BbMux[s]), {}, 0)
F_TSSC(f, s) == Entry(f, s, {}, NS_SRC_SEL(1, 0, XoMux[s]), {}, 0)
F_USB(f, s, d, m, n) ==
  Entry(f, s, MD8(16, m, 0, n), NS(23, 16, n, m, 5, 4, 3, d, 2, 0, BbMux[s]), {}, 0)

(* Entry macros of the multimedia (MM) clocks: the MN mode is in CC. *)
F_CAM(f, s, d, m, n) ==
  Entry(f, s, MD8(8, m, 0, n), NS_MM(31, 24, n, m, 15, 14, d, 2, 0, MmMux[s]), CC(6, n), 0)
F_CSI(f, s, d) == Entry(f, s, {}, NS_DIVSRC(15, 12, d, 2, 0, MmMux[s]), {}, 0)
(* DSI_BYTE: freq_hz is the divider of the DSI PHY PLL. *)
F_DSI(d) == Entry(d, "dsi_pll", {}, BVAL(27, 24, d - 1), {}, 0)
F_GFX2D(f, s, m, n) ==
  Entry(f, s, MD4(4, m, 0, n), NS_MND_BANKED4(20, 16, n, m, 3, 0, MmMux[s]),
        CC_BANKED(9, 6, n), 0)
F_GFX3D(f, s, m, n) ==
  Entry(f, s, MD4(4, m, 0, n), NS_MND_BANKED4(18, 14, n, m, 3, 0, MmMux[s]),
        CC_BANKED(9, 6, n), 0)
F_IJPEG(f, s, d, m, n) ==
  Entry(f, s, MD8(8, m, 0, n), NS_MM(23, 16, n, m, 15, 12, d, 2, 0, MmMux[s]), CC(6, n), 0)
F_JPEGD(f, s, d) == Entry(f, s, {}, NS_DIVSRC(15, 12, d, 2, 0, MmMux[s]), {}, 0)
F_MDP(f, s, m, n) ==
  Entry(f, s, MD8(8, m, 0, n), NS_MND_BANKED8(22, 14, n, m, 3, 0, MmMux[s]),
        CC_BANKED(9, 6, n), 0)
F_MDP_VSYNC(f, s) == Entry(f, s, {}, NS_SRC_SEL(13, 13, BbMux[s]), {}, 0)
F_PIXEL_MDP(f, s, d, m, n) ==
  Entry(f, s, MD16(m, n), NS_MM(31, 16, n, m, 15, 14, d, 2, 0, MmMux[s]), CC(6, n), 0)
F_ROT(f, s, d) ==
  Entry(f, s, {}, NS_DIVSRC_BANKED(29, 26, 25, 22, d, 21, 19, 18, 16, MmMux[s]), {}, 0)
F_TV(f, s, p_r, d, m, n) ==
  Entry(f, s, MD8(8, m, 0, n), NS_MM(23, 16, n, m, 15, 14, d, 2, 0, MmMux[s]), CC(6, n), p_r)
F_VCODEC(f, s, m, n) ==
  Entry(f, s, MD8(8, m, 0, n), NS_MM(18, 11, n, m, 0, 0, 1, 2, 0, MmMux[s]), CC(6, n), 0)
F_VPE(f, s, d) == Entry(f, s, {}, NS_DIVSRC(15, 12, d, 2, 0, MmMux[s]), {}, 0)
F_VFE(f, s, d, m, n) ==
  Entry(f, s, MD8(8, m, 0, n), NS_MM(23, 16, n, m, 11, 10, d, 2, 0, MmMux[s]), CC(6, n), 0)

(* Entry macros of the low-power audio (LPA) clocks.  AIF_BIT's freq_hz  *)
(* is the divider of the OSR clock; s = 1 selects the external bit clock. *)
F_AIF_OSR(f, s, d, m, n) ==
  Entry(f, s, MD8(8, m, 0, n), NS(31, 24, n, m, 5, 4, 3, d, 2, 0, LpaMux[s]), {}, 0)
F_AIF_BIT(d, s) == Entry(d, "osr", {}, BVAL(14, 14, s) \cup BVAL(13, 10, d - 1), {}, 0)
F_PCM(f, s, d, m, n) ==
  Entry(f, s, MD16(m, n), NS(31, 16, n, m, 5, 4, 3, d, 2, 0, LpaMux[s]), {}, 0)

-----------------------------------------------------------------------------
(* The frequency tables, in the driver's order (F_END left out). *)

clk_tbl_gsbi_uart == <<
  F_GSBI_UART(0, "gnd", 1, 0, 0),
  F_GSBI_UART(1843200, "pll8", 1, 3, 625),
  F_GSBI_UART(3686400, "pll8", 1, 6, 625),
  F_GSBI_UART(7372800, "pll8", 1, 12, 625),
  F_GSBI_UART(14745600, "pll8", 1, 24, 625),
  F_GSBI_UART(16000000, "pll8", 4, 1, 6),
  F_GSBI_UART(24000000, "pll8", 4, 1, 4),
  F_GSBI_UART(32000000, "pll8", 4, 1, 3),
  F_GSBI_UART(40000000, "pll8", 1, 5, 48),
  F_GSBI_UART(46400000, "pll8", 1, 29, 240),
  F_GSBI_UART(48000000, "pll8", 4, 1, 2),
  F_GSBI_UART(51200000, "pll8", 1, 2, 15),
  F_GSBI_UART(56000000, "pll8", 1, 7, 48),
  F_GSBI_UART(58982400, "pll8", 1, 96, 625),
  F_GSBI_UART(64000000, "pll8", 2, 1, 3)
  >>

clk_tbl_gsbi_qup == <<
  F_GSBI_QUP(0, "gnd", 1, 0, 0),
  F_GSBI_QUP(1100000, "pxo", 1, 2, 49),
  F_GSBI_QUP(5400000, "pxo", 1, 1, 5),
  F_GSBI_QUP(10800000, "pxo", 1, 2, 5),
  F_GSBI_QUP(15060000, "pll8", 1, 2, 51),
  F_GSBI_QUP(24000000, "pll8", 4, 1, 4),
  F_GSBI_QUP(25600000, "pll8", 1, 1, 15),
  F_GSBI_QUP(27000000, "pxo", 1, 0, 0),
  F_GSBI_QUP(48000000, "pll8", 4, 1, 2),
  F_GSBI_QUP(51200000, "pll8", 1, 2, 15)
  >>

clk_tbl_pdm == <<
  F_PDM(0, "gnd", 1),
  F_PDM(27000000, "pxo", 1)
  >>

clk_tbl_prng == <<
  F_PRNG(64000000, "pll8", 6)
  >>

clk_tbl_sdc == <<
  F_SDC(0, "gnd", 1, 0, 0),
  F_SDC(144000, "pxo", 3, 2, 125),
  F_SDC(400000, "pll8", 4, 1, 240),
  F_SDC(16000000, "pll8", 4, 1, 6),
  F_SDC(17070000, "pll8", 1, 2, 45),
  F_SDC(20210000, "pll8", 1, 1, 19),
  F_SDC(24000000, "pll8", 4, 1, 4),
  F_SDC(48000000, "pll8", 4, 1, 2)
  >>

clk_tbl_tsif_ref == <<
  F_TSIF_REF(0, "gnd", 1, 0, 0),
  F_TSIF_REF(105000, "pxo", 1, 1, 256)
  >>

clk_tbl_tssc == <<
  F_TSSC(0, "gnd"),
  F_TSSC(27000000, "pxo")
  >>

clk_tbl_usb == <<
  F_USB(0, "gnd", 1, 0, 0),
  F_USB(60000000, "pll8", 1, 5, 32)
  >>

clk_tbl_cam == <<
  F_CAM(0, "gnd", 1, 0, 0),
  F_CAM(6000000, "pll8", 4, 1, 16),
  F_CAM(8000000, "pll8", 4, 1, 12),
  F_CAM(12000000, "pll8", 4, 1, 8),
  F_CAM(16000000, "pll8", 4, 1, 6),
  F_CAM(19200000, "pll8", 4, 1, 5),
  F_CAM(24000000, "pll8", 4, 1, 4),
  F_CAM(32000000, "pll8", 4, 1, 3),
  F_CAM(48000000, "pll8", 4, 1, 2),
  F_CAM(64000000, "pll8", 3, 1, 2),
  F_CAM(96000000, "pll8", 4, 0, 0),
  F_CAM(128000000, "pll8", 3, 0, 0)
  >>

clk_tbl_csi == <<
  F_CSI(0, "gnd", 1),
  F_CSI(192000000, "pll8", 2),
  F_CSI(384000000, "pll8", 1)
  >>

clk_tbl_dsi_byte == <<
  F_DSI(1), F_DSI(2), F_DSI(3), F_DSI(4),
  F_DSI(5), F_DSI(6), F_DSI(7), F_DSI(8),
  F_DSI(9), F_DSI(10), F_DSI(11), F_DSI(12),
  F_DSI(13), F_DSI(14), F_DSI(15), F_DSI(16)
  >>

clk_tbl_gfx2d == <<
  F_GFX2D(0, "gnd", 0, 0),
  F_GFX2D(27000000, "pxo", 0, 0),
  F_GFX2D(48000000, "pll8", 1, 8),
  F_GFX2D(54857000, "pll8", 1, 7),
  F_GFX2D(64000000, "pll8", 1, 6),
  F_GFX2D(76800000, "pll8", 1, 5),
  F_GFX2D(96000000, "pll8", 1, 4),
  F_GFX2D(128000000, "pll8", 1, 3),
  F_GFX2D(145455000, "pll2", 2, 11),
  F_GFX2D(160000000, "pll2", 1, 5),
  F_GFX2D(177778000, "pll2", 2, 9),
  F_GFX2D(200000000, "pll2", 1, 4),
  F_GFX2D(228571000, "pll2", 2, 7)
  >>

clk_tbl_gfx3d == <<
  F_GFX3D(0, "gnd", 0, 0),
  F_GFX3D(27000000, "pxo", 0, 0),
  F_GFX3D(48000000, "pll8", 1, 8),
  F_GFX3D(54857000, "pll8", 1, 7),
  F_GFX3D(64000000, "pll8", 1, 6),
  F_GFX3D(76800000, "pll8", 1, 5),
  F_GFX3D(96000000, "pll8", 1, 4),
  F_GFX3D(128000000, "pll8", 1, 3),
  F_GFX3D(145455000, "pll2", 2, 11),
  F_GFX3D(160000000, "pll2", 1, 5),
  F_GFX3D(177778000, "pll2", 2, 9),
  F_GFX3D(200000000, "pll2", 1, 4),
  F_GFX3D(228571000, "pll2", 2, 7),
  F_GFX3D(266667000, "pll2", 1, 3),
  F_GFX3D(320000000, "pll2", 2, 5)
  >>

clk_tbl_ijpeg == <<
  F_IJPEG(0, "gnd", 1, 0, 0),
  F_IJPEG(27000000, "pxo", 1, 0, 0),
  F_IJPEG(36570000, "pll8", 1, 2, 21),
  F_IJPEG(54860000, "pll8", 7, 0, 0),
  F_IJPEG(96000000, "pll8", 4, 0, 0),
  F_IJPEG(109710000, "pll8", 1, 2, 7),
  F_IJPEG(128000000, "pll8", 3, 0, 0),
  F_IJPEG(153600000, "pll8", 1, 2, 5),
  F_IJPEG(200000000, "pll2", 4, 0, 0),
  F_IJPEG(228571000, "pll2", 1, 2, 7)
  >>

clk_tbl_jpegd == <<
  F_JPEGD(0, "gnd", 1),
  F_JPEGD(64000000, "pll8", 6),
  F_JPEGD(76800000, "pll8", 5),
  F_JPEGD(96000000, "pll8", 4),
  F_JPEGD(160000000, "pll2", 5),
  F_JPEGD(200000000, "pll2", 4)
  >>

clk_tbl_mdp == <<
  F_MDP(0, "gnd", 0, 0),
  F_MDP(9600000, "pll8", 1, 40),
  F_MDP(13710000, "pll8", 1, 28),
  F_MDP(27000000, "pxo", 0, 0),
  F_MDP(29540000, "pll8", 1, 13),
  F_MDP(34910000, "pll8", 1, 11),
  F_MDP(38400000, "pll8", 1, 10),
  F_MDP(59080000, "pll8", 2, 13),
  F_MDP(76800000, "pll8", 1, 5),
  F_MDP(85330000, "pll8", 2, 9),
  F_MDP(96000000, "pll8", 1, 4),
  F_MDP(128000000, "pll8", 1, 3),
  F_MDP(160000000, "pll2", 1, 5),
  F_MDP(177780000, "pll2", 2, 9),
  F_MDP(200000000, "pll2", 1, 4)
  >>

clk_tbl_mdp_vsync == <<
  F_MDP_VSYNC(27000000, "pxo")
  >>

clk_tbl_pixel_mdp == <<
  F_PIXEL_MDP(0, "gnd", 1, 0, 0),
  F_PIXEL_MDP(25600000, "pll8", 3, 1, 5),
  F_PIXEL_MDP(42667000, "pll8", 1, 1, 9),
  F_PIXEL_MDP(43192000, "pll8", 1, 64, 569),
  F_PIXEL_MDP(48000000, "pll8", 4, 1, 2),
  F_PIXEL_MDP(53990000, "pll8", 2, 169, 601),
  F_PIXEL_MDP(64000000, "pll8", 2, 1, 3),
  F_PIXEL_MDP(69300000, "pll8", 1, 231, 1280),
  F_PIXEL_MDP(76800000, "pll8", 1, 1, 5),
  F_PIXEL_MDP(85333000, "pll8", 1, 2, 9),
  F_PIXEL_MDP(106500000, "pll8", 1, 71, 256),
  F_PIXEL_MDP(109714000, "pll8", 1, 2, 7)
  >>

clk_tbl_rot == <<
  F_ROT(0, "gnd", 1),
  F_ROT(27000000, "pxo", 1),
  F_ROT(29540000, "pll8", 13),
  F_ROT(32000000, "pll8", 12),
  F_ROT(38400000, "pll8", 10),
  F_ROT(48000000, "pll8", 8),
  F_ROT(54860000, "pll8", 7),
  F_ROT(64000000, "pll8", 6),
  F_ROT(76800000, "pll8", 5),
  F_ROT(96000000, "pll8", 4),
  F_ROT(100000000, "pll2", 8),
  F_ROT(114290000, "pll2", 7),
  F_ROT(133330000, "pll2", 6),
  F_ROT(160000000, "pll2", 5)
  >>

(* Switching TV freqs requires PLL reconfiguration. *)
mm_pll2_rate == <<
  PLL_RATE( 7, 6301, 13500, 0, 4, 271499),   \* 0x4248B:  50400500 Hz
  PLL_RATE( 8,    0,     0, 0, 4, 271499),   \* 0x4248B:  54000000 Hz
  PLL_RATE(16,    2,   125, 0, 4, 337039),   \* 0x5248F: 108108000 Hz
  PLL_RATE(22,    0,     0, 2, 4, 402571),   \* 0x6248B: 148500000 Hz
  PLL_RATE(44,    0,     0, 2, 4, 402575)    \* 0x6248F: 297000000 Hz
  >>

clk_tbl_tv == <<
  F_TV(0, "gnd", 1, 1, 0, 0),
  F_TV(25200000, "pll3", 1, 2, 0, 0),
  F_TV(27000000, "pll3", 2, 2, 0, 0),
  F_TV(27030000, "pll3", 3, 4, 0, 0),
  F_TV(74250000, "pll3", 4, 2, 0, 0),
  F_TV(148500000, "pll3", 5, 2, 0, 0)
  >>

clk_tbl_vcodec == <<
  F_VCODEC(0, "gnd", 0, 0),
  F_VCODEC(27000000, "pxo", 0, 0),
  F_VCODEC(32000000, "pll8", 1, 12),
  F_VCODEC(48000000, "pll8", 1, 8),
  F_VCODEC(54860000, "pll8", 1, 7),
  F_VCODEC(96000000, "pll8", 1, 4),
  F_VCODEC(133330000, "pll2", 1, 6),
  F_VCODEC(200000000, "pll2", 1, 4),
  F_VCODEC(228570000, "pll2", 2, 7)
  >>

clk_tbl_vpe == <<
  F_VPE(0, "gnd", 1),
  F_VPE(27000000, "pxo", 1),
  F_VPE(34909000, "pll8", 11),
  F_VPE(38400000, "pll8", 10),
  F_VPE(64000000, "pll8", 6),
  F_VPE(76800000, "pll8", 5),
  F_VPE(96000000, "pll8", 4),
  F_VPE(100000000, "pll2", 8),
  F_VPE(160000000, "pll2", 5),
  F_VPE(200000000, "pll2", 4)
  >>

clk_tbl_vfe == <<
  F_VFE(0, "gnd", 1, 0, 0),
  F_VFE(13960000, "pll8", 1, 2, 55),
  F_VFE(27000000, "pxo", 1, 0, 0),
  F_VFE(36570000, "pll8", 1, 2, 21),
  F_VFE(38400000, "pll8", 2, 1, 5),
  F_VFE(45180000, "pll8", 1, 2, 17),
  F_VFE(48000000, "pll8", 2, 1, 4),
  F_VFE(54860000, "pll8", 1, 1, 7),
  F_VFE(64000000, "pll8", 2, 1, 3),
  F_VFE(76800000, "pll8", 1, 1, 5),
  F_VFE(96000000, "pll8", 2, 1, 2),
  F_VFE(109710000, "pll8", 1, 2, 7),
  F_VFE(128000000, "pll8", 1, 1, 3),
  F_VFE(153600000, "pll8", 1, 2, 5),
  F_VFE(200000000, "pll2", 2, 1, 2),
  F_VFE(228570000, "pll2", 1, 2, 7),
  F_VFE(266667000, "pll2", 1, 1, 3)
  >>

clk_tbl_aif_osr == <<
  F_AIF_OSR(0, "gnd", 1, 0, 0),
  F_AIF_OSR(768000, "pll4", 4, 1, 176),
  F_AIF_OSR(1024000, "pll4", 4, 1, 132),
  F_AIF_OSR(1536000, "pll4", 4, 1, 88),
  F_AIF_OSR(2048000, "pll4", 4, 1, 66),
  F_AIF_OSR(3072000, "pll4", 4, 1, 44),
  F_AIF_OSR(4096000, "pll4", 4, 1, 33),
  F_AIF_OSR(6144000, "pll4", 4, 1, 22),
  F_AIF_OSR(8192000, "pll4", 2, 1, 33),
  F_AIF_OSR(12288000, "pll4", 4, 1, 11),
  F_AIF_OSR(24576000, "pll4", 2, 1, 11)
  >>

clk_tbl_aif_bit == <<
  F_AIF_BIT(0, 1), F_AIF_BIT(1, 0), F_AIF_BIT(2, 0), F_AIF_BIT(3, 0),
  F_AIF_BIT(4, 0), F_AIF_BIT(5, 0), F_AIF_BIT(6, 0), F_AIF_BIT(7, 0),
  F_AIF_BIT(8, 0), F_AIF_BIT(9, 0), F_AIF_BIT(10, 0), F_AIF_BIT(11, 0),
  F_AIF_BIT(12, 0), F_AIF_BIT(13, 0), F_AIF_BIT(14, 0), F_AIF_BIT(15, 0),
  F_AIF_BIT(16, 0)
  >>

clk_tbl_pcm == <<
  F_PCM(0, "gnd", 1, 0, 0),
  F_PCM(512000, "pll4", 4, 1, 264),
  F_PCM(768000, "pll4", 4, 1, 176),
  F_PCM(1024000, "pll4", 4, 1, 132),
  F_PCM(1536000, "pll4", 4, 1, 88),
  F_PCM(2048000, "pll4", 4, 1, 66),
  F_PCM(3072000, "pll4", 4, 1, 44),
  F_PCM(4096000, "pll4", 4, 1, 33),
  F_PCM(6144000, "pll4", 4, 1, 22),
  F_PCM(8192000, "pll4", 2, 1, 33),
  F_PCM(12288000, "pll4", 4, 1, 11),
  F_PCM(24580000, "pll4", 2, 1, 11)
  >>
-----------------------------------------------------------------------------
(* A clk_local: its table, its ns_mask, and the layout of its NS, MD and  *)
(* CC fields as the hardware reads them, one record per bank.  A field is *)
(* <<msb, lsb>>, or <<>> where the clock has none; mode is the MN mode    *)
(* field's register and lsb.                                              *)
Bank(mux, n, d, s, mode, m) ==
  [mux |-> mux, n |-> n, d |-> d, s |-> s, mode |-> mode, m |-> m, ext |-> <<>>]
(* A divider of another clock: the divider field and the external select. *)
DivBank(ext, d) ==
  [mux |-> "div", n |-> <<>>, d |-> d, s |-> <<>>, mode |-> <<>>, m |-> <<>>, ext |-> ext]
Clk(tbl, nsMask, banks) == [tbl |-> tbl, nsMask |-> nsMask, banks |-> banks]

(* CLK_GSBI_UART, gsbi1..12_uart. *)
gsbi_uart_clk == Clk(clk_tbl_gsbi_uart, BM(31, 16) \cup BM(6, 0),
                     <<Bank("bb", <<31, 16>>, <<4, 3>>, <<2, 0>>, <<"ns", 5>>, <<31, 16>>)>>)
(* CLK_GSBI_QUP, gsbi1..12_qup. *)
gsbi_qup_clk == Clk(clk_tbl_gsbi_qup, BM(23, 16) \cup BM(6, 0),
                    <<Bank("bb", <<23, 16>>, <<4, 3>>, <<2, 0>>, <<"ns", 5>>, <<23, 16>>)>>)
pdm_clk == Clk(clk_tbl_pdm, BM(1, 0), <<Bank("xo", <<>>, <<>>, <<1, 0>>, <<>>, <<>>)>>)
prng_clk == Clk(clk_tbl_prng, BM(6, 3) \cup BM(2, 0),
                <<Bank("bb", <<>>, <<6, 3>>, <<2, 0>>, <<>>, <<>>)>>)
(* CLK_SDC, sdc1..5. *)
sdc_clk == Clk(clk_tbl_sdc, BM(23, 16) \cup BM(6, 0),
               <<Bank("bb", <<23, 16>>, <<4, 3>>, <<2, 0>>, <<"ns", 5>>, <<23, 16>>)>>)
tsif_ref_clk == Clk(clk_tbl_tsif_ref, BM(31, 16) \cup BM(6, 0),
                    <<Bank("bb", <<31, 16>>, <<4, 3>>, <<2, 0>>, <<"ns", 5>>, <<31, 16>>)>>)
tssc_clk == Clk(clk_tbl_tssc, BM(1, 0), <<Bank("xo", <<>>, <<>>, <<1, 0>>, <<>>, <<>>)>>)
(* usb_hs1_xcvr_clk and CLK_USB_FS, usb_fs1_src and usb_fs2_src. *)
usb_clk == Clk(clk_tbl_usb, BM(23, 16) \cup BM(6, 0),
               <<Bank("bb", <<23, 16>>, <<4, 3>>, <<2, 0>>, <<"ns", 5>>, <<23, 16>>)>>)
cam_clk == Clk(clk_tbl_cam, BM(31, 24) \cup BM(15, 14) \cup BM(2, 0),
               <<Bank("mm", <<31, 24>>, <<15, 14>>, <<2, 0>>, <<"cc", 6>>, <<15, 8>>)>>)
csi_src_clk == Clk(clk_tbl_csi, BM(15, 12) \cup BM(2, 0),
                   <<Bank("mm", <<>>, <<15, 12>>, <<2, 0>>, <<>>, <<>>)>>)
dsi_byte_clk == Clk(clk_tbl_dsi_byte, BM(27, 24), <<DivBank(<<>>, <<27, 24>>)>>)
(* bmnd_info_gfx2d0/1: bank 0 and bank 1 of gfx2d0_clk and gfx2d1_clk. *)
gfx2d_clk == Clk(clk_tbl_gfx2d, BM(23, 20) \cup BM(5, 3) \cup BM(19, 16) \cup BM(2, 0),
                 <<Bank("mm", <<23, 20>>, <<>>, <<5, 3>>, <<"cc", 9>>, <<7, 4>>),
                   Bank("mm", <<19, 16>>, <<>>, <<2, 0>>, <<"cc", 6>>, <<7, 4>>)>>)
gfx3d_clk == Clk(clk_tbl_gfx3d, BM(21, 18) \cup BM(5, 3) \cup BM(17, 14) \cup BM(2, 0),
                 <<Bank("mm", <<21, 18>>, <<>>, <<5, 3>>, <<"cc", 9>>, <<7, 4>>),
                   Bank("mm", <<17, 14>>, <<>>, <<2, 0>>, <<"cc", 6>>, <<7, 4>>)>>)
ijpeg_clk == Clk(clk_tbl_ijpeg, BM(23, 16) \cup BM(15, 12) \cup BM(2, 0),
                 <<Bank("mm", <<23, 16>>, <<15, 12>>, <<2, 0>>, <<"cc", 6>>, <<15, 8>>)>>)
jpegd_clk == Clk(clk_tbl_jpegd, BM(15, 12) \cup BM(2, 0),
                 <<Bank("mm", <<>>, <<15, 12>>, <<2, 0>>, <<>>, <<>>)>>)
mdp_clk == Clk(clk_tbl_mdp, BM(29, 22) \cup BM(5, 3) \cup BM(21, 14) \cup BM(2, 0),
               <<Bank("mm", <<29, 22>>, <<>>, <<5, 3>>, <<"cc", 9>>, <<15, 8>>),
                 Bank("mm", <<21, 14>>, <<>>, <<2, 0>>, <<"cc", 6>>, <<15, 8>>)>>)
mdp_vsync_clk == Clk(clk_tbl_mdp_vsync, {13},
                     <<Bank("bb", <<>>, <<>>, <<13, 13>>, <<>>, <<>>)>>)
pixel_mdp_clk == Clk(clk_tbl_pixel_mdp, BM(31, 16) \cup BM(15, 14) \cup BM(2, 0),
                     <<Bank("mm", <<31, 16>>, <<15, 14>>, <<2, 0>>, <<"cc", 6>>, <<31, 16>>)>>)
(* bdiv_info_rot: bank 0 is bits 25..22 and 18..16. *)
rot_clk == Clk(clk_tbl_rot, BM(25, 22) \cup BM(18, 16) \cup BM(29, 26) \cup BM(21, 19),
               <<Bank("mm", <<>>, <<25, 22>>, <<18, 16>>, <<>>, <<>>),
                 Bank("mm", <<>>, <<29, 26>>, <<21, 19>>, <<>>, <<>>)>>)
tv_src_clk == Clk(clk_tbl_tv, BM(23, 16) \cup BM(15, 14) \cup BM(2, 0),
                  <<Bank("mm", <<23, 16>>, <<15, 14>>, <<2, 0>>, <<"cc", 6>>, <<15, 8>>)>>)
vcodec_clk == Clk(clk_tbl_vcodec, BM(18, 11) \cup BM(2, 0),
                  <<Bank("mm", <<18, 11>>, <<>>, <<2, 0>>, <<"cc", 6>>, <<15, 8>>)>>)
vpe_clk == Clk(clk_tbl_vpe, BM(15, 12) \cup BM(2, 0),
               <<Bank("mm", <<>>, <<15, 12>>, <<2, 0>>, <<>>, <<>>)>>)
vfe_clk == Clk(clk_tbl_vfe, BM(23, 16) \cup BM(11, 10) \cup BM(2, 0),
               <<Bank("mm", <<23, 16>>, <<11, 10>>, <<2, 0>>, <<"cc", 6>>, <<15, 8>>)>>)
(* CLK_AIF_OSR and CLK_AIF_BIT: each OSR/BIT pair shares one NS register. *)
aif_osr_clk_maskTypo == Clk(clk_tbl_aif_osr, BM(31, 24) \cup BM(14, 0),
                   <<Bank("lpa", <<31, 24>>, <<4, 3>>, <<2, 0>>, <<"ns", 5>>, <<15, 8>>)>>)
aif_osr_clk == Clk(clk_tbl_aif_osr, BM(31, 24) \cup BM(6, 0),
                   <<Bank("lpa", <<31, 24>>, <<4, 3>>, <<2, 0>>, <<"ns", 5>>, <<15, 8>>)>>)
aif_bit_clk == Clk(clk_tbl_aif_bit, BM(14, 10), <<DivBank(<<14>>, <<13, 10>>)>>)
pcm_clk == Clk(clk_tbl_pcm, BM(31, 16) \cup BM(6, 0),
               <<Bank("lpa", <<31, 16>>, <<4, 3>>, <<2, 0>>, <<"ns", 5>>, <<31, 16>>)>>)

(* Every clk_local with a frequency table, one per macro or struct. *)
Clocks ==
  [gsbi_uart |-> gsbi_uart_clk, gsbi_qup |-> gsbi_qup_clk, pdm |-> pdm_clk,
   prng |-> prng_clk, sdc |-> sdc_clk, tsif_ref |-> tsif_ref_clk, tssc |-> tssc_clk,
   usb |-> usb_clk, cam |-> cam_clk, csi_src |-> csi_src_clk,
   dsi_byte |-> dsi_byte_clk, gfx2d |-> gfx2d_clk, gfx3d |-> gfx3d_clk,
   ijpeg |-> ijpeg_clk, jpegd |-> jpegd_clk, mdp |-> mdp_clk,
   mdp_vsync |-> mdp_vsync_clk, pixel_mdp |-> pixel_mdp_clk, rot |-> rot_clk,
   tv_src |-> tv_src_clk, vcodec |-> vcodec_clk, vpe |-> vpe_clk, vfe |-> vfe_clk,
   aif_osr |-> aif_osr_clk, aif_bit |-> aif_bit_clk, pcm |-> pcm_clk]
=============================================================================
