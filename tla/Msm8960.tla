------------------------------ MODULE Msm8960 ------------------------------
(***************************************************************************)
(* The MSM8960 ASoC machine driver (sound/soc/msm/msm8960.c): the codec    *)
(* master clock shared by the SLIMBUS_0 RX and TX back ends through       *)
(* clk_users, and the external speaker amplifier switched by the DAPM     *)
(* "Ext Spk" widget through two PM8921 GPIOs.                              *)
(*                                                                         *)
(* The operators here are the driver's handlers; AudioCard composes them   *)
(* into the actions of the ASoC core, which calls every one of them under  *)
(* its pcm or DAPM mutex, so none of them interleaves with another.        *)
(***************************************************************************)
EXTENDS Naturals

CONSTANTS
  GpioMayFail     \* gpio_request / pm8xxx_gpio_config may fail

Pins == {"PAMPL", "PAMPR"}     \* MSM_CDC_PAMPL, MSM_CDC_PAMPR
MSM8960_SPK_OFF == 0
MSM8960_SPK_ON == 1
CodecRate == 12288000          \* the rate msm8960_startup sets

VARIABLES
  clkUsers,     \* clk_users
  clkEnabled,   \* codec_clk enabled (clk_enable / clk_disable)
  clkRate,      \* the rate last set on codec_clk
  spkControl,   \* msm8960_spk_control
  pinEnabled,   \* the DAPM pin "Ext Spk" enabled
  spkPowered,   \* the DAPM widget "Ext Spk" powered
  pampOn,       \* msm8960_pamp_on
  gpioHeld,     \* the amp GPIOs requested and not freed
  gpioHigh      \* the amp GPIOs driven high

machineVars == <<clkUsers, clkEnabled, clkRate, spkControl, pinEnabled,
                 spkPowered, pampOn, gpioHeld, gpioHigh>>
clkVars == <<clkUsers, clkEnabled, clkRate>>
ampVars == <<pampOn, gpioHeld, gpioHigh>>

Outcomes == IF GpioMayFail THEN BOOLEAN ELSE {TRUE}

(* The state after module init and msm8960_audrx_init: "Ext Spk" enabled *)
(* while msm8960_spk_control is still 0 (Off).                           *)
MachineInit ==
  /\ clkUsers = 0
  /\ clkEnabled = FALSE
  /\ clkRate = 0
  /\ spkControl = MSM8960_SPK_OFF
  /\ pinEnabled = TRUE
  /\ spkPowered = FALSE
  /\ pampOn = FALSE
  /\ gpioHeld = {}
  /\ gpioHigh = {}

-----------------------------------------------------------------------------
(* Mutant: a failed request of the right GPIO returns without freeing   *)
(* the left one.                                                        *)
CodecPowerampOnLeak ==
  IF pampOn THEN UNCHANGED ampVars
  ELSE \E reqL, cfgL, reqR, cfgR \in Outcomes :
         IF ~reqL THEN UNCHANGED ampVars
         ELSE IF ~reqR
           THEN /\ gpioHeld' = {"PAMPL"}
                /\ gpioHigh' = gpioHigh \cup (IF cfgL THEN {"PAMPL"} ELSE {})
                /\ UNCHANGED pampOn
           ELSE /\ gpioHeld' = Pins
                /\ gpioHigh' = gpioHigh \cup {p \in Pins :
                                 (p = "PAMPL" /\ cfgL) \/ (p = "PAMPR" /\ cfgR)}
                /\ pampOn' = TRUE

(* codec_poweramp_on: nothing if the amp is on; request and configure   *)
(* PAMPL, then PAMPR; a failed request returns (freeing PAMPL on the    *)
(* second), a failed configuration is only logged and leaves the pin    *)
(* undriven; msm8960_pamp_on is set once both are requested.            *)
CodecPowerampOn ==
  IF pampOn THEN UNCHANGED ampVars
  ELSE \E reqL, cfgL, reqR, cfgR \in Outcomes :
         IF ~reqL THEN UNCHANGED ampVars
         ELSE IF ~reqR
           THEN /\ gpioHeld' = {}
                /\ gpioHigh' = gpioHigh \cup (IF cfgL THEN {"PAMPL"} ELSE {})
                /\ UNCHANGED pampOn
           ELSE /\ gpioHeld' = Pins
                /\ gpioHigh' = gpioHigh \cup {p \in Pins :
                                 (p = "PAMPL" /\ cfgL) \/ (p = "PAMPR" /\ cfgR)}
                /\ pampOn' = TRUE

(* codec_poweramp_off: if on, drive both pins low and free them. *)
CodecPowerampOff ==
  IF ~pampOn THEN UNCHANGED ampVars
  ELSE /\ gpioHigh' = {}
       /\ gpioHeld' = {}
       /\ pampOn' = FALSE

(* snd_soc_dapm_sync as far as this driver sees it: "Ext Spk" is powered *)
(* when its pin is enabled and its LINEOUT source is active; a change   *)
(* runs msm8960_spkramp_event, which switches the amp.                  *)
DapmSync(pin, lineout) ==
  LET on == pin /\ lineout
  IN /\ spkPowered' = on
     /\ IF on = spkPowered THEN UNCHANGED ampVars
        ELSE IF on THEN CodecPowerampOn ELSE CodecPowerampOff

(* msm8960_set_spk: an unchanged value returns 0; otherwise store it and *)
(* msm8960_ext_control enables or disables the pin and syncs DAPM.      *)
SetSpk(v, lineout) ==
  /\ v # spkControl
  /\ spkControl' = v
  /\ pinEnabled' = (v = MSM8960_SPK_ON)
  /\ DapmSync(pinEnabled', lineout)
  /\ UNCHANGED clkVars

-----------------------------------------------------------------------------
(* Mutant: the test reads the count after incrementing it, so no user  *)
(* ever starts the clock.                                                *)
StartupPreIncrement ==
  /\ clkUsers' = clkUsers + 1
  /\ UNCHANGED <<clkRate, clkEnabled>>

(* msm8960_startup: the first user sets the codec clock to 12.288 MHz   *)
(* and enables it; later users only count.  (clk_get never returns NULL, *)
(* so the -EINVAL branch is unreachable.)                               *)
Startup ==
  /\ clkUsers' = clkUsers + 1
  /\ IF clkUsers = 0
       THEN /\ clkRate' = CodecRate
            /\ clkEnabled' = TRUE
       ELSE UNCHANGED <<clkRate, clkEnabled>>

(* msm8960_shutdown: the last user sets the rate to 0 and disables it. *)
Shutdown ==
  /\ clkUsers' = clkUsers - 1
  /\ IF clkUsers - 1 = 0
       THEN /\ clkRate' = 0
            /\ clkEnabled' = FALSE
       ELSE UNCHANGED <<clkRate, clkEnabled>>
=============================================================================
