---------------------------- MODULE DeviceState ----------------------------
(***************************************************************************)
(* src/device_state.c: the authorization state machine between the PIV     *)
(* applet, the button and the main loop.                                   *)
(*                                                                         *)
(* state         _state                                                    *)
(* deadline      _deadline, as the time left until it: the code only ever  *)
(*               asks whether _deadline - now <= 0, so a countdown that    *)
(*               stops at 0 tells it everything.                           *)
(* authConsumed  _auth_consumed                                            *)
(*                                                                         *)
(* One action per function.  DevNext calls them in any order, which is     *)
(* more than piv.c, button.c and main.c do; the modules that model those   *)
(* files use the same actions in the order of the code.                    *)
(***************************************************************************)
EXTENDS Naturals

CONSTANTS WaitButtonTimeout,  \* WAIT_BUTTON_TIMEOUT_MS
          AuthWindow          \* AUTH_WINDOW_MS

ASSUME TimingAssumption == /\ WaitButtonTimeout \in Nat \ {0}
                           /\ AuthWindow \in Nat \ {0}

VARIABLES state, deadline, authConsumed

devVars == <<state, deadline, authConsumed>>

DevStates == {"IDLE", "WAITING_BUTTON", "AUTHORIZED", "PROCESSING"}

\* With what the deadline may be in each of the two states that have one.
DevTypeOK == /\ state \in DevStates
             /\ deadline \in Nat
             /\ authConsumed \in BOOLEAN
             /\ state = "WAITING_BUTTON" => deadline <= WaitButtonTimeout
             /\ state = "AUTHORIZED" => deadline <= AuthWindow

-----------------------------------------------------------------------------
IsAuthorized == state = "AUTHORIZED" /\ ~authConsumed

DevInit == /\ state = "IDLE"
           /\ deadline = 0
           /\ authConsumed = FALSE

\* dev_state_init(): called at boot and again when the host goes away.
DevStateInit == /\ state' = "IDLE"
                /\ authConsumed' = FALSE
                /\ UNCHANGED deadline

(* Mutant: a retried request starts the 30 s again. *)
RequestAuth_Restarts ==
  \/ /\ state \in {"IDLE", "WAITING_BUTTON"}
     /\ state' = "WAITING_BUTTON"
     /\ deadline' = WaitButtonTimeout
     /\ UNCHANGED authConsumed
  \/ /\ state \notin {"IDLE", "WAITING_BUTTON"}
     /\ UNCHANGED devVars

RequestAuth ==
  \/ /\ state = "IDLE"
     /\ state' = "WAITING_BUTTON"
     /\ deadline' = WaitButtonTimeout
     /\ UNCHANGED authConsumed
  \/ /\ state # "IDLE"
     /\ UNCHANGED devVars

(* Mutant: a press nobody asked for authorizes. *)
ButtonPressed_Unasked ==
  /\ state' = "AUTHORIZED"
  /\ authConsumed' = FALSE
  /\ deadline' = AuthWindow

(* Mutant: the rest of the 30 s is taken for the window. *)
ButtonPressed_KeepsDeadline ==
  \/ /\ state = "WAITING_BUTTON"
     /\ state' = "AUTHORIZED"
     /\ authConsumed' = FALSE
     /\ UNCHANGED deadline
  \/ /\ state # "WAITING_BUTTON"
     /\ UNCHANGED devVars

(* Mutant: the flag of the last operation is not cleared. *)
ButtonPressed_KeepsConsumed ==
  \/ /\ state = "WAITING_BUTTON"
     /\ state' = "AUTHORIZED"
     /\ deadline' = AuthWindow
     /\ UNCHANGED authConsumed
  \/ /\ state # "WAITING_BUTTON"
     /\ UNCHANGED devVars

ButtonPressed ==
  \/ /\ state = "WAITING_BUTTON"
     /\ state' = "AUTHORIZED"
     /\ authConsumed' = FALSE
     /\ deadline' = AuthWindow
  \/ /\ state # "WAITING_BUTTON"
     /\ UNCHANGED devVars

\* The call that returns true; the one that returns false changes nothing.
ConsumeAuth == /\ IsAuthorized
               /\ authConsumed' = TRUE
               /\ UNCHANGED <<state, deadline>>

\* In any other state the call changes nothing.
BeginProcessing == /\ state = "AUTHORIZED"
                   /\ state' = "PROCESSING"
                   /\ UNCHANGED <<deadline, authConsumed>>

OpComplete == /\ state' = "IDLE"
              /\ UNCHANGED <<deadline, authConsumed>>

(* Mutant: only the wait for the button times out. *)
DevStateTick_KeepsAuth ==
  \/ /\ state = "WAITING_BUTTON" /\ deadline = 0
     /\ state' = "IDLE"
     /\ UNCHANGED <<deadline, authConsumed>>
  \/ /\ ~(state = "WAITING_BUTTON" /\ deadline = 0)
     /\ UNCHANGED devVars

DevStateTick ==
  \/ /\ state = "WAITING_BUTTON" /\ deadline = 0
     /\ state' = "IDLE"
     /\ UNCHANGED <<deadline, authConsumed>>
  \/ /\ state = "AUTHORIZED" /\ deadline = 0
     /\ authConsumed' = TRUE
     /\ state' = "IDLE"
     /\ UNCHANGED deadline
  \/ /\ state \in {"IDLE", "PROCESSING"} \/ deadline > 0
     /\ UNCHANGED devVars

\* The clock: get_absolute_time() one unit later.
Countdown(n) == IF n > 0 THEN n - 1 ELSE 0

DevElapse == /\ deadline > 0
             /\ deadline' = Countdown(deadline)
             /\ UNCHANGED <<state, authConsumed>>

-----------------------------------------------------------------------------
DevNext == \/ DevStateInit
           \/ RequestAuth
           \/ ButtonPressed
           \/ ConsumeAuth
           \/ BeginProcessing
           \/ OpComplete
           \/ DevStateTick
           \/ DevElapse

DevSpec == DevInit /\ [][DevNext]_devVars

-----------------------------------------------------------------------------
GrantOf == CASE state = "IDLE" -> "none"
             [] state = "WAITING_BUTTON" -> "asked"
             [] IsAuthorized -> "given"
             [] OTHER -> "spent"

Presence == INSTANCE UserPresence WITH grant <- GrantOf

(* Whatever the order of the calls, a privileged operation is started only *)
(* by a press that a request had asked for, and a press starts at most one *)
(* (the one-shot flag of dev_state_consume_auth).                          *)
ImplementsPresence == Presence!PresenceSpec

(* Neither a host that keeps asking nor a user who keeps pressing pushes a *)
(* deadline out: as long as the device waits, or stays authorized, its     *)
(* deadline only comes nearer (the guards of dev_state_request_auth and    *)
(* dev_state_button_pressed).                                              *)
DeadlineNeverExtended ==
  [][(state \in {"WAITING_BUTTON", "AUTHORIZED"} /\ state' = state)
        => deadline' <= deadline]_devVars

(* The device does not stay authorized for ever: an unused press is        *)
(* withdrawn by dev_state_tick().                                          *)
AuthorizationEnds == state = "AUTHORIZED" ~> state # "AUTHORIZED"
=============================================================================
