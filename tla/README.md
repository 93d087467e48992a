# TLA+ models of the ZTE Blade kernel drivers

This directory holds TLA+ models of drivers in this kernel tree, the TLC
configurations that check them, and `PROJECT.json`. That file lists the
components, runs, mutants, the definition-to-source map, findings and hazards.

Check a model from this directory with:

    tlc -workers 2 -config MCBamDmux.cfg MCBamDmux

## The system

The source tree holds 14 files. They fall into one core subsystem and a set of
peripheral drivers.

| Component | Source | State and operations | Status |
|---|---|---|---|
| BAM DMUX framing codec | `arch/arm/mach-msm/bam_dmux.c` | `struct bam_mux_hdr`; the padding, copy-expand and header computation in `msm_bam_dmux_write`; the OPEN/CLOSE headers | modelled |
| BAM DMUX channel registry | same | `bam_ch[]` status bits and callbacks; `msm_bam_dmux_open`, `msm_bam_dmux_close` | modelled |
| BAM DMUX TX pipeline | same | `msm_bam_dmux_write`, `bam_mux_write_cmd`, the TX descriptor FIFO, `bam_mux_tx_notify`, `bam_mux_write_done`, `free_tx_descriptor` | modelled |
| BAM DMUX RX pipeline | same | `rx_skb`, `queue_rx`, `bam_mux_rx_notify`, `handle_bam_mux_cmd`, `bam_mux_process_data` | modelled |
| BAM DMUX bring-up | same | `bam_init` and its unwind chain; `bam_dmux_probe`; module init | partly (probe not modelled) |
| BAM DMUX debugfs | same | `debug_tbl`: formatting only | not modelled |
| Iris FM radio HCI | `drivers/media/radio/radio-iris.c` | command queue with `cmd_cnt` flow control and a 1 s timer; `__radio_hci_request` with a timeout; command-complete and status events | modelled |
| Iris FM radio V4L2 layer | same | ioctls driving HCI requests, the search mode, `g_cap`; the event buffer and `VIDIOC_DQBUF`; the event handlers that fill it | partly (stored payload fields not modelled) |
| Voice PCM | `sound/soc/msm/msm-pcm-voice.c` | instance count, playback/capture start flags, voice call start and end | modelled |
| MSM8960 machine audio | `sound/soc/msm/msm8960.c` | `clk_users` count, speaker amp, speaker control | partly (headset and mic-bias paths not modelled) |
| MSM8x60 clocks | `arch/arm/mach-msm/clock-8x60.c` | the frequency tables and their register encodings; `set_rate_tv`; `reg_init` and `msm_clk_soc_init` on the shared registers; rate switches of the clocks sharing MISC_CC2, the MI2S NS register and pll3 | partly (enable/disable, halt, reset and voting live in `clock-local.c`, not in this tree) |
| Clock lookup | `arch/arm/mach-msm/clock-pcom-lookup.c` | static tables | not modelled |
| DSI PHY and clocks | `drivers/video/msm/msm_dss_io_*.c` | divider and M/N derivation, PHY PLL programming, pixel/core clock registers, clock enable counts, PHY on/off | partly (`clk_get` handles, calibration and PLL-ready polls, SERDES, regulator/timing/strength and SFPB writes not modelled) |
| Headers | `mmc.h`, `msm_iomap-8960.h`, `qce.h`, `kgsl_device.h`, `msm.h`, `msm_hsusb.h` | declarations only | not modelled |

### How the BAM DMUX parts interact

The BAM DMUX multiplexes logical channels over one pair of A2 BAM DMA pipes to
the modem. The actors run concurrently:

* **Clients** call `open`, `close` and `write` from any kernel context.
  * `open` and `close` update the channel under its spinlock. They send their
    command frame after releasing it.
  * `write` checks that the channel is open under the lock, releases it, then
    frames and submits the buffer.
* **The TX and RX pipes** raise EOT interrupts. These run
  `bam_mux_tx_notify` and `bam_mux_rx_notify`.
  * Completed data buffers go to `bam_mux_write_done_pool`.
  * Command headers are freed.
* **The remote** may write any frame into the one posted receive buffer.
* **The single-thread workqueue** runs three static work items:
  * `handle_bam_mux_cmd`
  * `bam_mux_write_done`
  * `free_tx_descriptor`

  `queue_work` of a work item that is already pending does nothing.
* **`bam_init`** runs once, from delayed work scheduled by probe. It brings up
  the BAM and both pipes, sets `bam_mux_initialized` and posts the first
  receive buffer.

## Modules

| Module | Models | State | Actions |
|---|---|---|---|
| `BamMuxFraming` | the framing arithmetic and header layout | none (operators) | `NeedsExpand`, `ExpandedRoom`, `PutAfterPush`, `DataFrame`, `CmdHeader`, `HdrBytes`. Reference definitions `WireDecode` and `RefPad` give the protocol's wire format. |
| `BamMuxFramer` | framing checked over inputs | `sent`: the last frame built | `Write(id,len,room)`, `Open(id)` |
| `BamInit` | `bam_init` | `step`, `phase`, `held`, `pending`, `misfree` | `StepOk`, `StepFails` (goto its label), `Ready`, `Release` (one release of the fall-through chain) |
| `BamDmux` | the whole driver, composing `BamInit` and `BamMuxFraming` | see below | see below |
| `DmuxChannels` | what spec.md 4.1/4.3 promise: the channel table and the one-cell receive state machine | `ready`, `status`, `owner`, `posted`, `held` | `Ready`, `Open(c,ch)`, `Close(ch)`, `Receive(f)`, `Handle` |
| `MCBamDmux` | model values and bounds for TLC | | |
| `IrisHciOpcodes` | the opcode tables of `radio-iris.c` | none (operators) | `ReqOpcode` (the opcode each `*_req` sends), `CompleteHandled` (the cases of `hci_cmd_complete_event`), `HciCmd`, `RadioHciErr` |
| `IrisHci` | the HCI command path | see below | see below |
| `IrisV4l2` | the V4L2 ioctls over `IrisHci` | `ioc` (the ioctl in progress and its request sequence), `gSearchMode` | `IoctlStart(name)`, `IoctlStep`, `SetSearchMode(m)`, `DqbufCall`, `DqbufWoken`, `DqbufSignal` |
| `MCIrisHci`, `MCIrisV4l2` | request kinds, ioctls, statuses and credit values for TLC | | |
| `Msm8960` | `msm8960.c` handlers | `clkUsers`, `clkEnabled`, `clkRate`, `spkControl`, `pinEnabled`, `spkPowered`, `pampOn`, `gpioHeld`, `gpioHigh` | `Startup`, `Shutdown`, `CodecPowerampOn`, `CodecPowerampOff`, `SetSpk`, `DapmSync` |
| `VoicePcm` | `msm-pcm-voice.c` handlers | `playbackStart`, `captureStart`, `substream`, `instance`, `callActive` | `PcmOpen`, `PcmPrepare`, `PcmClose` |
| `ClockFields8x60` | the clock sources, mux inputs and the MD/NS/CC field macros of `clock-8x60.c` | none (operators) | `BM`, `BVAL`, `MD4`/`MD8`/`MD16`, `NS`, `NS_MM`, `NS_DIVSRC`, `NS_SRC_SEL`, `NS_MND_BANKED4/8`, `NS_DIVSRC_BANKED`, `CC`, `CC_BANKED`; `Field` is the hardware's read of a field |
| `ClockTables8x60` | every `F_*` entry macro, every `clk_tbl_*`, `mm_pll2_rate`, each clock's `ns_mask` and register layout | none (constants) | |
| `Clock8x60` | the shared clock registers from boot on | `regs` (register to its set bits), `cur` (each clock's `current_freq`), `booted`, `dsiOn` (`mipi_dsi_clk_on`), `tvLog` (the writes of the last `set_rate_tv`) | `SocInit`, `SetRate(c,f)`, `SetRateTv(f)`, `DsiClkEnable`, `DsiClkDisable` |
| `DsiPhy` | `msm_dss_io_8960.c` and `msm_dss_io_8x60.c` | `target` (SoC), `mipiDsiClkOn`, `clkEn` (enable count per clock), `pllDiv` (`pll_divider_config`), `dsicoreClk`, `dsiPclk`, `expectedPclk`, `mmss` (core/pixel CC, MD, NS), `phy` (PLL_CTRL_x, DSI_CLK_CTRL), and history variables `divSeq`, `divMhz`, `pllSeq`, `pllMhz`, `pclkSeq` | `ClkDivConfig(bpp,lanes)`, `PhyInit` (`PhyInit8960`, `PhyInit8x60`), `ClkEnable`, `ClkDisable`, `PhyCtrl(on)` |
| `MCStandalone` | `BamMuxFramer`, `Clock8x60`, `AudioCard` and `DsiPhy` side by side for one run | the four modules' state and `part` | one model per behaviour |
| `AudioCard` | the CS-Voice path, composing `Msm8960` and `VoicePcm` as the ASoC core calls them | the two modules' state and `st`, each substream's ASoC state | `Open`, `Prepare`, `Close`, `SpeakerFunction` |

### BamDmux state and the code

| Variable | Code |
|---|---|
| `status` | `bam_ch[ch].status`, as a set of `LOCAL_OPEN` and `REMOTE_OPEN` |
| `cb` | the owner of `receive_cb`, `write_done` and `priv`, or NULL |
| `pc`, `arg` | where each client is inside an API call |
| `wret` | the rc of the last write, and who owns its skb |
| `txq` | frames submitted and not yet completed |
| `txDesc` | descriptors not yet freed by `sps_get_iovec`, bounded by `TxRing` |
| `wq` | the pending work items, in order |
| `worker` | `bam_mux_write_done` between reading the callback and calling it |
| `pool` | `bam_mux_write_done_pool` |
| `rxPosted` | a receive buffer is posted |
| `rxFrame` | the header of a received frame |
| `peerCmd` | history: the last OPEN or CLOSE frame submitted per channel, which the remote acts on last because the pipe delivers in order |

Each API call is split at the point where the code drops the channel lock:

* `OpenLocal` / `OpenSendCmd`
* `CloseLocal` / `CloseSendCmd`
* `WriteCheck` / `WriteSubmit`

The other actions map one-to-one onto the code:

* `TxEot` is `bam_mux_tx_notify`.
* `RxEot` is `bam_mux_rx_notify`.
* `HandleBamMuxCmd` is the whole of `handle_bam_mux_cmd`, including
  `bam_mux_process_data` and `queue_rx`.
* `WriteDoneTest` / `WriteDoneCall` split `bam_mux_write_done` at its unlocked
  read of the callback.
* `FreeTxDescriptor` is `free_tx_descriptor`.

Every failure the code handles is a disjunct guarded by `AllocMayFail`:
`kmalloc`, `skb_copy_expand` and `dma_map_single`. `sps_transfer_one` fails
only when the descriptor FIFO is full.

Payload bytes are abstracted. A buffer is the pair (channel, client).

### DmuxChannels: the refinement

`DmuxChannels` states, with no workqueue, DMA pipe or lock, what spec.md
promises of the registry and the RX pipeline. `open` stores the caller's
callbacks and sets LOCAL_OPEN unless the channel is fully open. `close` clears
both. The single receive cell is posted, filled by the peer, then handled,
and a valid OPEN or CLOSE sets or clears REMOTE_OPEN. A filled cell is
eventually handled (weak fairness of `Handle`).

`BamDmux` defines `Abstract == INSTANCE DmuxChannels` with the mapping
`ready <- initialized`, `owner <- cb`, `posted <- rxPosted` and
`held <- rxFrame`; `status` maps to itself. `ImplementsChannels ==
Abstract!Spec` is a PROPERTY of `dmux_safety`. Every driver step other than
`OpenLocal`, `CloseLocal`, `RxEot`, `HandleBamMuxCmd` and `BringUpReady` must
be a stutter of the abstract state. The half-calls after the lock, TX
completions and the write-done work therefore may not touch the table or the
cell.

### IrisHci: the Iris HCI command path

`radio-iris.c` talks to the FM controller over HCI. Four actors run:

* **The requester** is an ioctl thread in `radio_hci_request`. `hci_req_lock`
  serializes requests, so they form one sequence. `Request(r)` is
  `__radio_hci_request` up to its sleep: it sets `req_status` to PEND and runs
  the request function, which is `SendCmd` (`radio_hci_send_cmd`: queue the
  skb on `cmd_q`, schedule `cmd_task`). `Wake` is the end of the wait, woken
  or timed out; `Interrupted` is a signal.
* **`cmd_task`** (`CmdTask`) dequeues the head of `cmd_q`. With no credit
  (`cmd_cnt` 0, and less than a second since the last send) it drops the
  dequeued skb. Otherwise `SendHead` sends it and takes the credit, or
  `RequeueHead` puts it back when `skb_clone` fails.
* **The controller** (`Answer`, `AsyncEvent`) answers each command in order
  with Command Complete (echoing the opcode) or Command Status, a status byte
  and `num_hci_cmd_pkts`. It may also send unsolicited events, or never
  answer.
* **`rx_task`** (`RxTask`) dispatches one event from `rx_q`. `Completes(e)`
  is whether its handler calls `radio_hci_req_complete`; `CmdCredit(e)` is
  whether it restores `cmd_cnt`.

Both tasklets coalesce: scheduling one that is already scheduled does
nothing. Time is not modelled: a timeout may fire at any point of the wait,
and "a second has passed since the last send" is a free choice. The history
variables `queued`, `handled`, `lost` and `forced` record what happened to
each command, for the properties.

The dispatch in `RxTask` also runs the handlers' effects on the radio
device. `IrisEvents(e)` is the list of IRIS events a handler passes to
`iris_q_event`: RADIO_READY from `hci_cc_fm_disable_rsp`, the sequence of
`hci_ev_tune_compl` (built from the station response `stRsp` the last tune
status or `hci_cc_station_rsp` stored), and the search and stereo events.
`QueueEvents` appends what fits in the event fifo (`EvtFifoSize` bytes) and
wakes a sleeping reader when it stored a byte. `capWrites` counts the writes
`hci_cc_feature_list_rsp` makes through `radio->g_cap`.

### IrisV4l2: the ioctls and the event reader

`IrisV4l2` extends `IrisHci` and replaces its free requester by two threads:

* **The control thread** makes ioctls. `IoctlReqs(name, mode)` is the
  sequence of `*_req` functions an ioctl's handler runs through
  `radio_hci_request`. Examples: `querycap` runs `get_feature_lists`;
  STATE=FM_RECV runs `enable_recv`, `set_mute_mode`, `set_stereo_mode`;
  `s_hw_freq_seek` runs `iris_search`'s request for the search mode.
  `IoctlStart` makes the first request. `querycap` first points `gCap` at
  its argument buffer, named by its request id. `IoctlStep` runs after a
  request returned: the next request, or the return. `Continues` says
  whether the handler goes on; only FM_RECV stops early, when enabling
  fails. `SetSearchMode` is `s_ctrl` of SRCHMODE.
* **The reader** is in `VIDIOC_DQBUF` on the event buffer. `DqbufCall` takes
  up to its length of bytes, or sleeps on `event_queue` when the buffer is
  empty. `DqbufWoken` is the woken reader taking its bytes; `DqbufSignal`
  is `-EINTR`.

Handlers that only store fields of `iris_device` for later requests change
nothing the model tells apart. They are left out.

Most handlers reach their request through an `hci_*` wrapper (`hci_fm_tune_station`,
`hci_set_fm_mute_mode`, `hci_fm_search_station_list`, ...; `WrapperA`/`WrapperB` in
`IrisHciOpcodes`), which `copy_from_user`s its argument before `radio_hci_request`.
Every caller passes a kernel address (a field of `iris_device`, a local, or
`video_ioctl2`'s kernel copy), and inside an ioctl the thread's limit is USER_DS,
so `access_ok` fails and the wrapper returns -EFAULT without a request. `Call(r)`
models exactly that: a request reached through a wrapper returns -EFAULT at once
(`CopyFaults`); one reached through `hci_cmd` goes to `radio_hci_request`.

### Clock8x60: registers several clocks share

A register value is the set of its 1 bits, so `rmwreg` and a set_rate's
read-modify-write under `ns_mask` are set difference and union, and `BVAL`
truncates a two's-complement C int to its field as the build does (`~n`,
`d - 1`). `BankRate` is the hardware's reading of a bank (source mux, pre-divider,
M/N counter when the mode field is dual-edge); `PllOut` is pll3 from PXO, L, M,
N and the post-divider. These two are the reference the tables are checked
against; rates are compared within half a percent (the tables' own rounding is
at most 0.45%), with 32-bit-safe arithmetic (`MulDiv`).

The registers modelled are those several clocks share: MISC_CC2
(`dsi_byte_clk`'s divider, `mdp_vsync_clk`'s source, the hdmi_ref divider and
select that `set_rate_tv` writes), TV_NS/MD/CC, LCC_MI2S_NS/MD (`mi2s_osr_clk`
and `mi2s_bit_clk`) and MM_PLL2 (pll3). `SocInit` is `msm_clk_soc_init`
with `reg_init`'s writes to them, then the boot `clk_set_rate` of
`mdp_vsync_clk`. `SetRate` is the MI2S driver's `clk_set_rate`; `SetRateTv` is
`set_rate_tv` as its sequence of writes, kept in `tvLog`; `DsiClkEnable` and
`DsiClkDisable` are `mipi_dsi_clk_enable/disable` (`msm_dss_io_8x60.c`), with
their early returns. Each rate change is one step: the code holds
`local_clock_reg_lock` across it.

`local_clk_set_rate` itself is in `clock-local.c`, which is not in this tree.
The model takes its behaviour from the fields this file gives it: the rate is
looked up in the table, whose walk stops at the first entry of that rate
(-EINVAL when there is none, nothing written), then the NS
register's `ns_mask` bits are replaced by the entry's `ns_val`, MD is written
with `md_val`, and CC's `cc_mask` bits with `cc_val`. `RateWrites`, `Lookup`,
`FirstOf` and `SetRateTo` state that assumption and are not in the map. The power-on
register contents are unknown, so `Init` starts from all zeros or from all ones
in the registers `reg_init` does not fully write.

### DsiPhy: the MIPI DSI PLL and clocks

`ClkDivConfig` is `mipi_dsi_clk_div_config`. It defaults `clk_rate` to 454 MHz,
and it picks the bit clock divider from the rate ladder (`DivRatio`). The first
`mnd_table` entry for the lanes and bpp is used (`MndIndex`); with none, the
call is -EINVAL and only the default stays. Otherwise it sets the dividers,
`dsicore_clk` and `dsi_pclk`, and reports `expected_dsi_pclk`. That value is
computed in u32 arithmetic (`U32MulDiv`). The two SoCs differ only in when the
core clock runs its M/N counter (`CoreMnd8960`, `CoreMnd8x60`).

`PhyInit` is `mipi_dsi_phy_init`, restricted to the PLL:

1. the panel's `pll[1..]` values are written;
2. `mipi_dsi_phy_pll_config` writes the dividers over them, with its
   read-modify-writes under the field masks (`PhyPllConfig`);
3. `pll[0] | 1` enables the PLL.

On the 8960, `PhyInit` also enables the byte and escape clocks. `ClkEnable`
and `ClkDisable` are `mipi_dsi_clk_enable` and `mipi_dsi_clk_disable`:

* the `mipi_dsi_clk_on` early return;
* the clock enable counts;
* the pixel and core clock MD/NS/CC writes (`ClkCtrlWrites`);
* on the 8x60, the byte and escape clocks too (`EnabledByClkEnable`).

`PhyCtrl` is `mipi_dsi_phy_ctrl`.

The callers in `mipi_dsi.c` are not in this tree, so the entry points are taken
in any order. `mnd_table` and the panel's PHY database are not in the tree
either; they are constants. The PHY registers are a byte wide, and the clock
registers are 32 bits.

The hardware's reading of the registers is the inverse of the driver's
encodings:

* `RegVco` is 27 MHz over the reference divider, times twice the feedback
  field plus one;
* `RegPclk` is the VCO over PLL_CTRL_10 plus one, times M over N of the pixel
  clock's counter, or over its pre-divider.

The history variables record which successful `div_config` the PLL and the
pixel clock registers were last written from.

### AudioCard: the CS-Voice path of the msm8960 sound card

The ASoC core, which is not in this tree, is the environment. It calls the
machine driver (`msm8960.c`) and the voice PCM driver (`msm-pcm-voice.c`)
under its pcm mutex, so each ASoC operation is one action:

* `Open(s)` runs `msm8960_startup` (the back-end clock user count) and then
  `msm_pcm_open`.
* `Prepare(s)` runs `msm_pcm_prepare`, which starts the voice call once both
  directions are started. It then syncs DAPM: voice playback makes LINEOUT
  active, and "Ext Spk" powers when its pin is enabled too, which switches the
  speaker amp GPIOs in `codec_poweramp_on/off`.
* `Close(s)` runs `msm_pcm_close`, which ends the call once neither direction
  is started, then `msm8960_shutdown` and a DAPM sync.
* `SpeakerFunction(v)` is the mixer control `msm8960_set_spk`.

GPIO request and configuration failures are disjuncts guarded by
`GpioMayFail`.

## Runs

| Run | Config | Expect | What it shows |
|---|---|---|---|
| standalone | `MCStandalone.cfg` | pass | The four models that share no state, each on all its reachable states. Framer: every frame is 4-aligned (`FrameAligned`), decodes on the wire to what was written (`HeaderRoundTrip`) and never puts past the tailroom (`PutWithinTailroom`), for lengths 0..23 and 65530..65535, tailroom 0..4, channel ids 0, 3, 7. Clocks: every entry of all 26 tables decodes to its rate through its clock's fields (`EveryEntryDecodes`); every boot rate is in its table (`BootRatesSupported`); after any sequence of MI2S, TV and DSI rate changes every clock on a shared register, and hdmi_ref, runs at its current rate (`SharedRegistersKeepRates`); `set_rate_tv` writes L/M/N/CONFIG only with pll3 off and in reset, and turns it on in order (`TvPllReprogramSafe`). Sound card: the `audio_card` properties below. DSI, on both SoCs: once `phy_init` has programmed the PLL from a successful `div_config`, the PLL fields decode to the VCO derived from `clk_rate`, within the feedback field's 2 MHz step, and to its bit and byte dividers (`PllProgramsRequestedRate`); while the clocks are on, and the PLL and the pixel clock were written from the latest `div_config`, the pixel clock the registers make is the `expected_dsi_pclk` reported, less at most the PLL's rounding (`PclkAsReported`). |
| dmux_safety | `MCBamDmux.cfg` | pass | `RxBufferAccounted`: exactly one receive buffer is posted or awaiting handling. `WriteDoneHasBuffer`: the write-done work never runs on an empty pool. `UnwindReleasesOnlyHeld`: the unwind chain frees nothing it did not acquire. `ImplementsChannels`: the driver refines `DmuxChannels`, so in particular every received frame, valid or not, is eventually handled and a buffer reposted. |
| peer_view | `MCBamDmuxPeer.cfg` | violation | `PeerViewMatchesLocal`: open drops the channel lock before it sends OPEN. A concurrent close submits its CLOSE in between, and the remote ends up holding open a channel that is closed locally. |
| write_done_pool | `MCBamDmuxPool.cfg` | violation | `PoolDrainedWhenIdle`: two TX completions coalesce into one write-done run, and a buffer stays on the pool. |
| write_done_after_close | `MCBamDmuxWriteDone.cfg` | violation | `WriteDoneTargetRegistered`: close runs between the unlocked read of `write_done` and its call. |
| write_error_buffer | `MCBamDmuxWriteErr.cfg` | violation | `WriteErrorKeepsBuffer`: an error is returned after the driver freed the caller's skb. |
| init_unwind | `BamInitUnwind.cfg` | violation | `FailedReleasesAll`: a failed `bam_init` leaves resources acquired. |
| hci_safety | `MCIrisV4l2.cfg` | pass | The control thread enables the receiver and tries to seek: every seek fails with -EFAULT in its `hci_*` wrapper before it reaches HCI (see hci_wrapper_fault). A reader waits in `VIDIOC_DQBUF`. `EventReachesReader`: a reader asleep with events buffered is woken. `FlowControlBound`: commands sent and not yet answered never exceed one plus the credits `cmd_task` restored after its 1 s timeout. `CommandConservation`: every queued command is in exactly one place (queue, controller, event queue, handled or dropped). |
| hci_late_answer | `MCIrisHciLate.cfg` | violation | `ResultFromOwnCommand`: a request that timed out is answered late, and the answer completes the next request with the wrong result. |
| hci_cmd_dropped | `MCIrisHciDrop.cfg` | violation | `NoCommandDropped`: `cmd_task` dequeues a command before it tests the credit and drops it when there is none. |
| hci_wrapper_fault | `MCIrisV4l2Tune.cfg` | violation | `SetFrequencyTunes`: VIDIOC_S_FREQUENCY returns -EFAULT without a request, because `hci_fm_tune_station`'s `copy_from_user` rejects the kernel address `iris_set_freq` passes. |
| hci_cap_after_return | `MCIrisV4l2Cap.cfg` | violation | `CapWriteTargetsLiveCall`: `querycap` times out and returns, and the late Command Complete writes the feature mask through `radio->g_cap` into the buffer of the call that has returned. |
| (standalone, sound card) | | | `ClockFollowsBackends`: the codec clock runs at 12.288 MHz exactly while a back end is open. `CallImpliesClock`: a voice call is active only with the clock on. `AmpGpioOwnership`: a speaker amp pin is driven only while requested, and requested pins are released on power-off. |

`PROJECT.json` "findings" says what each violation means for the code.

Every property of a passing run has a mutant in `PROJECT.json`. A mutant is a
plausible bug in the mapped definition that TLC catches:

* a dropped `is_cmd` test;
* a missing `queue_rx` on an error path;
* an open without the `bam_ch_is_open` test, which replaces the callbacks of a fully open channel (breaks `ImplementsChannels`);
* a misrouted goto label;
* an off-by-one in the tailroom test;
* swapped header fields;
* `cmd_task` sending without taking the credit, or freeing a requeued command;
* an `iris_q_event` that stores the byte but does not wake the reader;
* a clock user count read after its increment;
* a leaked amp GPIO on a failed request;
* a close that keeps the capture start flag;
* an MD field at the wrong offset in `F_GSBI_QUP`;
* a typo in a boot rate;
* an `ns_mask` of `mi2s_osr_clk` that covers the BIT clock's divider;
* `set_rate_tv` programming L/M/N before disabling the PLL;
* a PLL_CTRL_2 read-modify-write without its mask;
* the pixel clock's pre-divider at the core clock's bit offset;
* `mipi_dsi_clk_enable` without the `mipi_dsi_clk_on` test.

### Bounds

`MCBamDmux.cfg` uses these bounds:

* 2 clients and 2 channels;
* a TX ring of 2 descriptors;
* 1 write, 2 open/close calls and 2 received frames;
* payload lengths {4, 5} and tailrooms {0, 3}.

The run checks liveness and the refinement, so it uses no symmetry. The
violation configs keep symmetry over the clients, a TX ring of 3, 2 writes
and 3 calls. `MCBamDmuxPeer.cfg` uses one channel and two calls, and turns
allocation failures off. Its violation then comes from the interleaving
alone.

They are enough for the following cases:

* **Copy-expand.** Length 5 with room 0 needs an expansion. Length 4, and
  length 5 with room 3, need none.
* **Full TX ring.** A write and an open/close command fill a ring of 2.
* **Coalescing.** Two completions before the worker runs is the coalescing
  case.
* **Open/close races.** Two clients can race open/close on one channel while
  the other writes.
* **Received frames.** The received frame ranges over every command, including
  an unknown one, a bad magic and every channel id in range.

`MCIrisV4l2.cfg` gives the control thread STATE=FM_RECV and
`s_hw_freq_seek`. It may switch the search mode to the station list
first. The run allows these cases:

* 2 requests;
* answers by Command Complete or Command Status;
* statuses {0, 3} and `num_hci_cmd_pkts` {0, 1};
* allocation failures;
* one unsolicited tune completion;
* an event fifo of 2 bytes.

Two requests are enough for three cases:

* a timed-out request followed by one its late answer meets;
* a second command queued behind an unanswered first;
* FM_RECV going on to its second request or stopping after a failed enable.

A credit of 0 in an answer is what lets the queue stall and the 1 s timeout
restore it. A tune completion queues three events, more than the fifo
holds, so the overflow happens.

The state space grows about fivefold with a third request or more ioctls, and
the liveness check then takes minutes. The violation configs use `MCIrisHci`
(the free requester of `IrisHci`) or `querycap` alone, with one or two
requests: the smallest instances that show each trace.

The sound card part of `MCStandalone` explores every order of open, prepare and close of the two
voice substreams, both speaker settings, and every GPIO failure. Its state
space is finite without bounds (118 states).

The clock part takes, for each driver, rates from its table (the grounded 0,
the lowest and the highest, and one between) and one rate in no table (44.1 kHz
for the OSR clock, divider 17 for the BIT clock, 13.5 MHz for TV). Every TV
entry but one is there, so `set_rate_tv` reprograms pll3 between any two of
them, from each power-on register content. `EveryEntryDecodes` and
`BootRatesSupported` are over the full tables, not a sample. The tables are
constants, so `EveryEntryDecodes` is checked once, in the clock part's initial
states (`TablesDecode`), before `msm_clk_soc_init` registers them.

The DSI part runs both SoCs. It starts from boot `clk_rate`s of 0 (the
454 MHz default), 100, 200 and 525 MHz, which between them cover every branch
of the divider ladder and an odd VCO. The `mnd_table` has three entries: one
entry with a pixel M/N counter, one with a pre-divider only, and a shadowed
second entry for the same lanes/bpp pair. There is also a lanes/bpp pair with
no entry. The panel's PLL values set bits under every divider mask. Two
successful `div_config` calls are enough for a call between `phy_init` and
`clk_enable`, or after both, and enable counts are bounded by 2 either way.
In the other parts' behaviours the DSI state is one idle state, and so is
the clock registers' state outside the clock part.

The clients are symmetric (model values under `Permutations`). The liveness
run uses smaller bounds and no symmetry.

### Fairness

Weak fairness is assumed for three actors:

* **The worker.** `bam_dmux` is a dedicated kernel thread that runs queued
  work.
* **TX completion.** The DMA engine completes what it was given.
* **`bam_init`.** Its delayed work fires after 40 s.

Clients and the remote owe nothing.

The driver is passive. Once the call and frame bounds are used up and the work
is drained, nothing is enabled. The BAM DMUX configs therefore set
`CHECK_DEADLOCK FALSE`.

In `IrisHci` and `IrisV4l2`, weak fairness is assumed for four steps:

* **`cmd_task` and `rx_task`.** A scheduled tasklet runs.
* **`Wake`.** `wait_event_interruptible_timeout` returns by its timeout at the
  latest.
* **`DqbufWoken`.** A task woken on `event_queue` is scheduled and finds its
  condition true.

The user threads owe nothing: they need not make another ioctl, and a
signal may or may not come. The controller owes nothing: it may
never answer. Once the request bound is used up and the queues drain, nothing
is enabled, so the Iris configs also set `CHECK_DEADLOCK FALSE`.

`AudioCard` and `Clock8x60` assume no fairness and check only safety. The card
can always be opened, prepared or closed again, and `mipi_dsi_clk_disable` can
always be called, and `mipi_dsi_phy_ctrl` can always be called, so `MCStandalone.cfg` checks deadlock.

## Not modelled, and why

* **Probe re-entry.** Probe runs once, before any client.
* **`debug_tbl`.** It is formatting only.
* **RX payload lengths.** The `pkt_len` trusted against the 2048-byte buffer
  is a hazard left open.
* **Torn list updates.** The unlocked `__skb_queue_tail` / `__skb_dequeue` on
  the pool is below the model's atomicity.

* **`rx_task` stranding.** Events received while `rx_task` runs are
  dispatched only by the next schedule (`radio-iris.c:365`). This is a hazard
  left open, with no run.
* **Iris stored fields.** These are the fields of `iris_device` that later
  requests send as payload: region and band, RDS settings, scan time, mute
  and stereo settings. Also out are the RT/PS/AF data buffers and
  `iris_probe`'s kfifo allocation and unwind.
* **The error-as-timeout paths.** A nonzero Command Complete status
  (`radio-iris.c:1254`) and the opcode-group mismatches of the request
  tables (`radio-iris.c:532`) both make a request time out. They follow from
  `Completes` and the `IrisHciOpcodes` tables, and no run states them; see
  the hazards.
* **The DAPM power-down delay** after a playback close. The stream stops at
  close.
* **Headset detection and mic bias** in `msm8960.c`.
* **`clock-pcom-lookup.c`.** Static tables.
* **Clock enable, disable, halt and voting.** These are `clock-local.c` code,
  not in this tree; `clock-8x60.c` gives only their register fields.
* **Clocks on registers no other clock shares.** Their rate changes touch
  only their own fields; `EveryEntryDecodes` covers their encodings.
* **DSI handles and hardware status.** `mipi_dsi_clk_init` and `_deinit`
  (the `clk_get` handles) are not modelled; the model assumes every clock was
  found. The calibration and PLL-ready polls read hardware status. The 8960's
  polls give up after a count; the 8x60 calibration poll has no bound. The
  SERDES, regulator, timing and strength writes and `mipi_dsi_sfpb_cfg`
  touch registers that nothing reads back.
* **DSI byte and escape clocks on the 8960.** Their balance depends on the
  order in which `mipi_dsi.c` calls `phy_init`, so no property states it. The
  same is true of a `phy_init` before any `div_config`, which programs the
  PLL from an all-zero `pll_divider_config`.

The remaining components are listed in the table above.

## Plan

1. **Iris wrapper paths.** With the wrappers faulting, only `hci_cmd` paths reach
   the controller; the search and tune events the seek properties wait for come
   only from the controller's own reports.
