------------------------------- MODULE Button -------------------------------
(***************************************************************************)
(* src/button.c: the user-presence button.  A falling edge raises an       *)
(* interrupt that latches it; the main loop polls button_was_pressed(),    *)
(* which lets the debounce time pass and then looks at the pin once more.  *)
(*                                                                         *)
(* pinLow    the level of BUTTON_PIN (low while the button is held)        *)
(* edgeSeen  _edge_seen                                                    *)
(* edgeAge   now - _edge_time, up to the debounce time                     *)
(* sampling  the poll is between "_edge_seen = false" and gpio_get(): the  *)
(*           interrupt may strike in between                               *)
(* edges     how often the pin fell since boot, at most MaxEdges (a bound  *)
(*           of the model)                                                 *)
(***************************************************************************)
EXTENDS DeviceState

CONSTANTS Debounce,   \* BUTTON_DEBOUNCE_MS
          MaxEdges    \* bound: the user presses at most this often

ASSUME ButtonAssumption == Debounce \in Nat /\ MaxEdges \in Nat

VARIABLES pinLow, edgeSeen, edgeAge, sampling, edges

btnVars == <<pinLow, edgeSeen, edgeAge, sampling, edges>>

BtnTypeOK == /\ pinLow \in BOOLEAN
             /\ edgeSeen \in BOOLEAN
             /\ edgeAge \in 0..Debounce
             /\ sampling \in BOOLEAN
             /\ edges \in 0..MaxEdges

\* The button may be held while the device boots.
BtnInit == /\ pinLow \in BOOLEAN
           /\ edgeSeen = FALSE
           /\ edgeAge = 0
           /\ sampling = FALSE
           /\ edges = 0

-----------------------------------------------------------------------------
(* Mutant: a bounce while an edge is pending restarts the debounce time. *)
Fall_Restarts == /\ ~pinLow
                 /\ edges < MaxEdges
                 /\ pinLow' = TRUE
                 /\ edges' = edges + 1
                 /\ edgeSeen' = TRUE
                 /\ edgeAge' = 0
                 /\ UNCHANGED <<sampling, devVars>>

\* The user presses (or the contact bounces): _gpio_irq() latches the first
\* edge and ignores the others until the poll has dealt with it.
Fall == /\ ~pinLow
        /\ edges < MaxEdges
        /\ pinLow' = TRUE
        /\ edges' = edges + 1
        /\ edgeSeen' = TRUE
        /\ edgeAge' = IF edgeSeen THEN edgeAge ELSE 0
        /\ UNCHANGED <<sampling, devVars>>

Rise == /\ pinLow
        /\ pinLow' = FALSE
        /\ UNCHANGED <<edgeSeen, edgeAge, sampling, edges, devVars>>

PollReady == edgeSeen /\ edgeAge >= Debounce

\* button_was_pressed() returns before it touches anything.
PollIdle == /\ ~sampling
            /\ ~PollReady
            /\ UNCHANGED <<btnVars, devVars>>

(* Mutant: the latch is not cleared, one edge confirms again and again. *)
PollClear_Keeps == /\ ~sampling
                   /\ PollReady
                   /\ sampling' = TRUE
                   /\ UNCHANGED <<pinLow, edgeSeen, edgeAge, edges, devVars>>

PollClear == /\ ~sampling
             /\ PollReady
             /\ edgeSeen' = FALSE
             /\ edgeAge' = 0
             /\ sampling' = TRUE
             /\ UNCHANGED <<pinLow, edges, devVars>>

(* Mutant: the level is read the wrong way round. *)
StillHeld_Inverted == ~pinLow

\* gpio_get(BUTTON_PIN) == 0, what button_was_pressed() returns.
StillHeld == pinLow

PollSample == /\ sampling
              /\ sampling' = FALSE
              /\ IF StillHeld THEN ButtonPressed ELSE UNCHANGED devVars
              /\ UNCHANGED <<pinLow, edgeSeen, edgeAge, edges>>

Aged == IF edgeSeen /\ edgeAge < Debounce THEN edgeAge + 1 ELSE edgeAge

\* Time passes for both clocks of the firmware at once.
Elapse == /\ deadline > 0 \/ Aged # edgeAge
          /\ deadline' = Countdown(deadline)
          /\ edgeAge' = Aged
          /\ UNCHANGED <<state, authConsumed, pinLow, edgeSeen, sampling, edges>>
=============================================================================
