---------------------------- MODULE ButtonHistory ----------------------------
(***************************************************************************)
(* The button, and what a bystander remembers of each press:               *)
(*                                                                         *)
(* press     none (the pin is high, or was low from boot on), new (held,   *)
(*           not reported yet), confirmed, twice (reported again)          *)
(* confirms  how often button_was_pressed() returned true                  *)
(***************************************************************************)
EXTENDS Button

VARIABLES press, confirms

histVars == <<devVars, btnVars, press, confirms>>

Confirming == sampling /\ ~sampling' /\ StillHeld

Remember ==
  /\ confirms' = IF Confirming THEN confirms + 1 ELSE confirms
  /\ press' = CASE ~pinLow' -> "none"
                [] pinLow' /\ ~pinLow -> "new"
                [] Confirming /\ press = "new" -> "confirmed"
                [] Confirming /\ press = "confirmed" -> "twice"
                [] OTHER -> press

HistInit == DevInit /\ BtnInit /\ press = "none" /\ confirms = 0

-----------------------------------------------------------------------------
One(b) == IF b THEN 1 ELSE 0

HistTypeOK == /\ DevTypeOK
              /\ BtnTypeOK
              /\ press \in {"none", "new", "confirmed", "twice"}
              /\ confirms \in Nat

(* Every report is paid for by an edge of its own: a falling edge is either *)
(* latched, or being sampled, or was reported, or came to nothing.          *)
EdgePerConfirm == confirms + One(edgeSeen) + One(sampling) <= edges

(* A bounce does not postpone the decision about an edge that is pending:   *)
(* its age only grows until the poll takes it (the !_edge_seen test of the  *)
(* interrupt handler).                                                      *)
DebounceNotRestarted == [][(edgeSeen /\ edgeSeen') => edgeAge' >= edgeAge]_histVars

(* A press that is held is reported in the end, however the interrupt and   *)
(* the poll interleave: no edge is lost between clearing the latch and      *)
(* reading the pin.                                                         *)
HeldPressConfirmed == press = "new" ~> press # "new"

(* button.c:6, "button_was_pressed() returns true exactly once per          *)
(* confirmed press": a press that stays down is reported no second time.    *)
ConfirmedOnce == press # "twice"
=============================================================================
