----------------------------- MODULE AudioCard -----------------------------
(***************************************************************************)
(* The CS-Voice path of the msm8960 sound card: the ASoC core driving the  *)
(* voice PCM platform driver (VoicePcm) on the front end and the machine   *)
(* driver's back-end ops and speaker control (Msm8960).                    *)
(*                                                                         *)
(* The voice playback substream is routed to the SLIMBUS_0_RX back end and *)
(* capture to SLIMBUS_0_TX; both back-end links carry msm8960_be_ops.      *)
(* The ASoC core (not in this tree) is the environment: it serializes pcm  *)
(* operations under its pcm mutex; opening a front end starts its back end *)
(* (msm8960_startup) and then opens the platform (msm_pcm_open); prepare   *)
(* runs msm_pcm_prepare and starts the DAPM stream, which makes LINEOUT    *)
(* active for playback; close runs msm_pcm_close, stops the stream and     *)
(* shuts the back end down (msm8960_shutdown).  The DAPM power-down delay  *)
(* after a playback close is not modelled: the stream stops at close.      *)
(***************************************************************************)
EXTENDS Naturals, FiniteSets, Msm8960, VoicePcm

VARIABLE
  st     \* st[s]: the ASoC state of the voice substream s

vars == <<machineVars, voiceVars, st>>

(* LINEOUT, the source of "Ext Spk", is active while voice playback runs. *)
Lineout(stv) == stv["playback"] = "prepared"

Init ==
  /\ MachineInit
  /\ VoiceInit
  /\ st = [s \in Streams |-> "closed"]

(* snd_pcm open of voice substream s. *)
Open(s) ==
  /\ st[s] = "closed"
  /\ Startup
  /\ PcmOpen(s)
  /\ st' = [st EXCEPT ![s] = "open"]
  /\ UNCHANGED <<spkControl, pinEnabled, spkPowered, ampVars>>

(* snd_pcm prepare (also a re-prepare after an xrun). *)
Prepare(s) ==
  /\ st[s] # "closed"
  /\ PcmPrepare(s)
  /\ st' = [st EXCEPT ![s] = "prepared"]
  /\ DapmSync(pinEnabled, Lineout(st'))
  /\ UNCHANGED <<clkVars, spkControl, pinEnabled>>

(* snd_pcm close of voice substream s. *)
Close(s) ==
  /\ st[s] # "closed"
  /\ PcmClose(s)
  /\ Shutdown
  /\ st' = [st EXCEPT ![s] = "closed"]
  /\ DapmSync(pinEnabled, Lineout(st'))
  /\ UNCHANGED <<spkControl, pinEnabled>>

(* A write of the "Speaker Function" control. *)
SpeakerFunction(v) ==
  /\ SetSpk(v, Lineout(st))
  /\ UNCHANGED <<voiceVars, st>>

Next ==
  \/ \E s \in Streams : Open(s) \/ Prepare(s) \/ Close(s)
  \/ \E v \in {MSM8960_SPK_OFF, MSM8960_SPK_ON} : SpeakerFunction(v)

Spec == Init /\ [][Next]_vars

-----------------------------------------------------------------------------
(* Type invariant. *)
TypeOK ==
  /\ st \in [Streams -> {"closed", "open", "prepared"}]
  /\ clkUsers \in Nat /\ clkEnabled \in BOOLEAN /\ clkRate \in {0, CodecRate}
  /\ spkControl \in {MSM8960_SPK_OFF, MSM8960_SPK_ON}
  /\ pinEnabled \in BOOLEAN /\ spkPowered \in BOOLEAN /\ pampOn \in BOOLEAN
  /\ gpioHeld \subseteq Pins /\ gpioHigh \subseteq Pins
  /\ playbackStart \in {0, 1} /\ captureStart \in {0, 1}
  /\ substream \subseteq Streams /\ instance \in Nat
  /\ callActive \in BOOLEAN

Running == {s \in Streams : st[s] # "closed"}

(* clk_users counts the back ends started and not shut down, and the    *)
(* codec clock runs at 12.288 MHz exactly while that count is nonzero,   *)
(* over any order of voice playback and capture opens and closes.        *)
ClockFollowsBackends ==
  /\ clkUsers = Cardinality(Running)
  /\ clkEnabled <=> clkUsers > 0
  /\ clkEnabled => clkRate = CodecRate

(* While a voice call is active the codec clock runs: the last back end *)
(* to shut down is the one whose close ends the call.                   *)
CallImpliesClock ==
  callActive => clkEnabled

(* The amplifier GPIOs are held exactly while msm8960_pamp_on is set,    *)
(* whatever requests fail along the way: none is leaked, none freed      *)
(* twice.                                                                *)
AmpGpioOwnership ==
  /\ pampOn => gpioHeld = Pins
  /\ ~pampOn => gpioHeld = {}
=============================================================================
