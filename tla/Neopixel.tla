------------------------------ MODULE Neopixel ------------------------------
(***************************************************************************)
(* src/neopixel.c: the status LED, redrawn from the device state whenever  *)
(* its own timer has run out.                                              *)
(*                                                                         *)
(* shown     the colour that was sent to the LED last                      *)
(* nextTick  _next_tick, as the time left until it                         *)
(* blinkOn   _blink_on, which both blinking states share                   *)
(***************************************************************************)
EXTENDS DeviceState

CONSTANTS IdlePeriod,        \* the four times after which neopixel_tick()
          WaitPeriod,        \* looks at the state again
          AuthPeriod,
          ProcessingPeriod

ASSUME PeriodAssumption ==
  /\ {IdlePeriod, WaitPeriod, AuthPeriod, ProcessingPeriod} \subseteq Nat \ {0}
  /\ {WaitPeriod, AuthPeriod, ProcessingPeriod} \subseteq 1..IdlePeriod

VARIABLES shown, nextTick, blinkOn

neoVars == <<shown, nextTick, blinkOn>>

Colours == {"off", "red", "blue", "yellow", "green", "brightGreen"}

NeoTypeOK == shown \in Colours /\ nextTick \in 0..IdlePeriod /\ blinkOn \in BOOLEAN

\* main() shows red until the main loop runs; the timer is a static zero.
NeoInit == shown = "red" /\ nextTick = 0 /\ blinkOn = FALSE

-----------------------------------------------------------------------------
(* Mutant: every state is looked at as seldom as IDLE. *)
Period_Idle(s) == IdlePeriod

Period(s) == CASE s = "IDLE" -> IdlePeriod
               [] s = "WAITING_BUTTON" -> WaitPeriod
               [] s = "AUTHORIZED" -> AuthPeriod
               [] s = "PROCESSING" -> ProcessingPeriod

(* Mutant: only the blinking of PROCESSING toggles. *)
Blinks_Processing(s) == s = "PROCESSING"

Blinks(s) == s \in {"WAITING_BUTTON", "PROCESSING"}

Colour(s, on) == CASE s = "IDLE" -> "blue"
                   [] s = "WAITING_BUTTON" -> IF on THEN "yellow" ELSE "off"
                   [] s = "AUTHORIZED" -> "green"
                   [] s = "PROCESSING" -> IF on THEN "brightGreen" ELSE "off"

NeopixelTick ==
  \/ /\ nextTick > 0
     /\ UNCHANGED neoVars
  \/ /\ nextTick = 0
     /\ blinkOn' = IF Blinks(state) THEN ~blinkOn ELSE blinkOn
     /\ shown' = Colour(state, blinkOn')
     /\ nextTick' = Period(state)

\* Off at once; the timer and the blinking go on.
NeopixelOff == shown' = "off" /\ UNCHANGED <<nextTick, blinkOn>>
=============================================================================
