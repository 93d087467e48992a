------------------------------ MODULE VoicePcm ------------------------------
(***************************************************************************)
(* The voice PCM platform driver (sound/soc/msm/msm-pcm-voice.c): one      *)
(* global msm_voice, voice_info, shared by the playback and capture        *)
(* substreams of the CS-Voice link.  prepare marks its direction started   *)
(* and starts the voice call once both are; close clears its direction    *)
(* and ends the call once neither is.  Every handler runs under            *)
(* voice_info.lock.                                                        *)
(*                                                                         *)
(* voc_start_voice_call and voc_end_voice_call (q6voice, not in this       *)
(* tree) are seen through callActive: start makes the call active, end    *)
(* makes it inactive.                                                      *)
(***************************************************************************)
EXTENDS Naturals

Streams == {"playback", "capture"}

VARIABLES
  playbackStart,   \* voice_info.playback_start
  captureStart,    \* voice_info.capture_start
  substream,       \* directions whose playback/capture_substream is set
  instance,        \* voice_info.instance
  callActive       \* a voice call started and not ended

voiceVars == <<playbackStart, captureStart, substream, instance, callActive>>

(* msm_soc_platform_init: voice_info zeroed. *)
VoiceInit ==
  /\ playbackStart = 0
  /\ captureStart = 0
  /\ substream = {}
  /\ instance = 0
  /\ callActive = FALSE

(* msm_pcm_open: record the substream of its direction and count it. *)
PcmOpen(s) ==
  /\ substream' = substream \cup {s}
  /\ instance' = instance + 1
  /\ UNCHANGED <<playbackStart, captureStart, callActive>>

(* Mutant: prepare increments the start flag instead of setting it. *)
PcmPrepareIncrement(s) ==
  LET pb == IF s = "playback" THEN playbackStart + 1 ELSE playbackStart
      cp == IF s = "capture" THEN captureStart + 1 ELSE captureStart
  IN /\ playbackStart' = pb
     /\ captureStart' = cp
     /\ callActive' = (callActive \/ (pb = 1 /\ cp = 1))
     /\ UNCHANGED <<substream, instance>>

(* msm_pcm_prepare with msm_pcm_playback_prepare / capture_prepare: set  *)
(* the direction's start flag, then start the call if both are set (on  *)
(* every prepare once they are).                                         *)
PcmPrepare(s) ==
  LET pb == IF s = "playback" THEN 1 ELSE playbackStart
      cp == IF s = "capture" THEN 1 ELSE captureStart
  IN /\ playbackStart' = pb
     /\ captureStart' = cp
     /\ callActive' = (callActive \/ (pb = 1 /\ cp = 1))
     /\ UNCHANGED <<substream, instance>>

(* Mutant: capture close forgets to clear capture_start. *)
PcmCloseKeepsCapture(s) ==
  LET pb == IF s = "playback" THEN 0 ELSE playbackStart
      cp == captureStart
  IN /\ playbackStart' = pb
     /\ captureStart' = cp
     /\ substream' = substream \ {s}
     /\ instance' = instance - 1
     /\ callActive' = (callActive /\ ~(pb = 0 /\ cp = 0))

(* msm_pcm_close with msm_pcm_playback_close / capture_close: clear the  *)
(* direction's start flag and substream, drop the instance, and end the  *)
(* call if neither direction is started (whether or not one was).       *)
PcmClose(s) ==
  LET pb == IF s = "playback" THEN 0 ELSE playbackStart
      cp == IF s = "capture" THEN 0 ELSE captureStart
  IN /\ playbackStart' = pb
     /\ captureStart' = cp
     /\ substream' = substream \ {s}
     /\ instance' = instance - 1
     /\ callActive' = (callActive /\ ~(pb = 0 /\ cp = 0))
=============================================================================
