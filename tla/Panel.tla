------------------------------- MODULE Panel -------------------------------
(***************************************************************************)
(* What the user touches and sees: the button, the state machine and the   *)
(* LED in the main loop of src/main.c, with the calls of the applet and    *)
(* the USB callbacks that reach them from tud_task().                      *)
(*                                                                         *)
(* pc        the call of the main loop that is running (ccid_task() does   *)
(*           nothing here)                                                 *)
(* stale     history: for how long the LED has not shown the state         *)
(* prompted  history: the LED has been yellow since the device waits       *)
(***************************************************************************)
EXTENDS ButtonHistory, Neopixel

VARIABLES pc, stale, prompted

panelVars == <<histVars, neoVars, pc, stale, prompted>>

PanelInit == /\ HistInit /\ NeoInit
             /\ pc = "tud"
             /\ stale = 0
             /\ prompted = FALSE

-----------------------------------------------------------------------------
(* What the LED should show; nobody looks at it during a signature. *)
ColoursOf(s) == CASE s = "IDLE" -> {"blue"}
                  [] s = "WAITING_BUTTON" -> {"yellow", "off"}
                  [] s = "AUTHORIZED" -> {"green"}
                  [] s = "PROCESSING" -> Colours

Fits == shown \in ColoursOf(state)

\* stale needs no more than one value beyond the longest period.
Watch(elapsed) ==
  /\ stale' = CASE Fits' -> 0
                [] ~Fits' /\ stale > IdlePeriod -> stale
                [] OTHER -> stale + elapsed
  /\ prompted' = (state' = "WAITING_BUTTON" /\ (prompted \/ shown' = "yellow"))

-----------------------------------------------------------------------------
(* tud_task(): commands that need the user, and the bus *)

InOperation == state = "PROCESSING" \/ (state = "AUTHORIZED" /\ authConsumed)

\* A GENERAL AUTHENTICATE while the device is not authorized.
AskUser == ~InOperation /\ ~IsAuthorized /\ RequestAuth /\ UNCHANGED neoVars

BeginOperation == ConsumeAuth /\ UNCHANGED neoVars

Operate == /\ \/ authConsumed /\ BeginProcessing
              \/ state = "PROCESSING" /\ OpComplete
           /\ UNCHANGED neoVars

\* tud_umount_cb() and tud_suspend_cb().
Unmount == ~InOperation /\ NeopixelOff /\ DevStateInit
Suspend == ~InOperation /\ NeopixelOff /\ UNCHANGED devVars

Calls == /\ pc = "tud"
         /\ AskUser \/ BeginOperation \/ Unmount \/ Suspend
         /\ UNCHANGED <<btnVars, pc>>

TudTask == /\ pc = "tud"
           /\ \/ Operate /\ UNCHANGED pc
              \/ ~InOperation /\ pc' = "button" /\ UNCHANGED <<devVars, neoVars>>
           /\ UNCHANGED btnVars

ButtonTask == /\ pc = "button"
              /\ \/ PollIdle /\ pc' = "tick"
                 \/ PollClear /\ UNCHANGED pc
                 \/ PollSample /\ pc' = "tick"
              /\ UNCHANGED neoVars

TickTask == /\ pc = "tick"
            /\ DevStateTick
            /\ pc' = "neo"
            /\ UNCHANGED <<btnVars, neoVars>>

NeoTask == /\ pc = "neo"
           /\ NeopixelTick
           /\ pc' = "tud"
           /\ UNCHANGED <<devVars, btnVars>>

PanelLoop == (TudTask \/ ButtonTask \/ TickTask \/ NeoTask) /\ Remember /\ Watch(0)

User == (Fall \/ Rise) /\ UNCHANGED <<neoVars, pc>> /\ Remember /\ Watch(0)

\* Nothing in the main loop is due.
LoopIdle == /\ nextTick > 0
            /\ ~sampling /\ ~PollReady
            /\ state \in {"WAITING_BUTTON", "AUTHORIZED"} => deadline > 0

\* The loop spins much faster than the clock: time passes when nothing is
\* due, and while a signature is being computed.
Time == /\ LoopIdle \/ (state = "PROCESSING" /\ nextTick + deadline > 0)
        /\ deadline' = Countdown(deadline)
        /\ nextTick' = Countdown(nextTick)
        /\ edgeAge' = Aged
        /\ UNCHANGED <<state, authConsumed, pinLow, edgeSeen, sampling, edges,
                       shown, blinkOn, pc>>
        /\ Remember
        /\ Watch(1)

PanelNext == PanelLoop \/ User \/ Time \/ (Calls /\ Remember /\ Watch(0))

PanelSpec == PanelInit /\ [][PanelNext]_panelVars

\* The main loop runs for ever, and time passes.
PanelFairSpec == PanelSpec /\ WF_panelVars(PanelLoop) /\ WF_panelVars(Time)

-----------------------------------------------------------------------------
PanelTypeOK == /\ HistTypeOK
               /\ NeoTypeOK
               /\ pc \in {"tud", "button", "tick", "neo"}
               /\ stale \in 0..IdlePeriod + 1
               /\ prompted \in BOOLEAN

LagOf(colour) == CASE colour = "red" -> 0
                   [] colour \in {"blue", "off"} -> IdlePeriod
                   [] colour = "yellow" -> WaitPeriod
                   [] colour = "green" -> AuthPeriod
                   [] colour = "brightGreen" -> ProcessingPeriod

(* The LED does not lie for long: a colour outlives its state by at most   *)
(* the period of that colour, green by 250 ms, and what a suspend or a     *)
(* disconnection switched off is lit again within 500 ms, whatever the     *)
(* host, the user and the timers do in between (neopixel_tick() reads the  *)
(* state only when a timer set for an earlier state has run out).          *)
LedFollows == stale <= LagOf(shown)

(* The user gets to see the prompt while there is time to press: after one *)
(* period of IDLE and one of the blinking the LED was yellow, whichever    *)
(* phase _blink_on was left in by earlier requests.                        *)
PromptSeen ==
  (state = "WAITING_BUTTON" /\ deadline + IdlePeriod + WaitPeriod < WaitButtonTimeout)
    => prompted
=============================================================================
