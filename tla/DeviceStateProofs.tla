------------------------- MODULE DeviceStateProofs -------------------------
(***************************************************************************)
(* Theorems about the authorization state machine, for every length of the *)
(* two timeouts and every order of the calls.                              *)
(***************************************************************************)
EXTENDS DeviceState, TLAPS

(* A countdown stays a natural number and never goes up. *)
LEMMA CountdownBounds ==
  ASSUME NEW n \in Nat
  PROVE  Countdown(n) \in Nat /\ Countdown(n) <= n
BY DEF Countdown

(* The variables of src/device_state.c keep their types. *)
LEMMA DevTypeStep ==
  ASSUME DevTypeOK, [DevNext]_devVars
  PROVE  DevTypeOK'
<1> USE TimingAssumption DEF DevTypeOK, DevStates
<1>1. CASE DevStateInit
  BY <1>1 DEF DevStateInit
<1>2. CASE RequestAuth
  BY <1>2 DEF RequestAuth, devVars
<1>3. CASE ButtonPressed
  <2>1. CASE state = "WAITING_BUTTON"
    <3>1. state' = "AUTHORIZED" /\ deadline' = AuthWindow /\ authConsumed' = FALSE
      BY <1>3, <2>1 DEF ButtonPressed
    <3>2. AuthWindow \in Nat /\ AuthWindow <= AuthWindow
      OBVIOUS
    <3>3. QED
      BY <3>1, <3>2, Zenon
  <2>2. CASE UNCHANGED devVars
    BY <2>2 DEF devVars
  <2>3. QED
    BY <1>3, <2>1, <2>2 DEF ButtonPressed
<1>4. CASE ConsumeAuth
  BY <1>4 DEF ConsumeAuth
<1>5. CASE BeginProcessing \/ OpComplete
  BY <1>5 DEF BeginProcessing, OpComplete
<1>6. CASE DevStateTick \/ UNCHANGED devVars
  BY <1>6 DEF DevStateTick, devVars
<1>7. CASE DevElapse
  <2>1. deadline' \in Nat /\ deadline' <= deadline
    BY <1>7, CountdownBounds DEF DevElapse
  <2>2. UNCHANGED <<state, authConsumed>>
    BY <1>7 DEF DevElapse
  <2>3. QED
    BY <2>1, <2>2
<1>8. QED
  BY <1>1, <1>2, <1>3, <1>4, <1>5, <1>6, <1>7 DEF DevNext

(* The type invariant of the state machine. *)
THEOREM DevTypeCorrect == DevSpec => []DevTypeOK
<1>1. DevInit => DevTypeOK
  <2>1. DevInit => deadline \in Nat
    BY DEF DevInit
  <2>2. QED
    BY <2>1, Zenon DEF DevInit, DevTypeOK, DevStates
<1>2. DevTypeOK /\ [DevNext]_devVars => DevTypeOK'
  BY DevTypeStep
<1>3. QED
  BY <1>1, <1>2, PTL DEF DevSpec

(* Deadlines only come nearer while they run, whatever is called. *)
THEOREM DeadlinesHold == DevSpec => DeadlineNeverExtended
<1>1. DevTypeOK /\ [DevNext]_devVars
        => [(state \in {"WAITING_BUTTON", "AUTHORIZED"} /\ state' = state)
              => deadline' <= deadline]_devVars
  BY CountdownBounds
     DEF DevTypeOK, DevNext, devVars, DevStateInit, RequestAuth, ButtonPressed,
         ConsumeAuth, BeginProcessing, OpComplete, DevStateTick, DevElapse
<1>2. QED
  BY <1>1, DevTypeCorrect, PTL DEF DevSpec, DeadlineNeverExtended

-----------------------------------------------------------------------------
(* What each call does to the grant of the user. *)
LEMMA GrantStep ==
  ASSUME DevTypeOK, [DevNext]_devVars
  PROVE  [Presence!PresenceNext]_GrantOf
<1> USE DEF Presence!PresenceNext, GrantOf, IsAuthorized, DevTypeOK, DevStates
<1>1. CASE DevStateInit
  BY <1>1 DEF DevStateInit, Presence!Lapse, Presence!Finish
<1>2. CASE RequestAuth
  BY <1>2 DEF RequestAuth, devVars, Presence!Ask
<1>3. CASE ButtonPressed
  BY <1>3 DEF ButtonPressed, devVars, Presence!Press
<1>4. CASE ConsumeAuth
  BY <1>4 DEF ConsumeAuth, Presence!Spend
<1>5. CASE BeginProcessing
  BY <1>5 DEF BeginProcessing, Presence!Spend
<1>6. CASE OpComplete
  BY <1>6 DEF OpComplete, Presence!Lapse, Presence!Finish
<1>7. CASE DevStateTick
  BY <1>7 DEF DevStateTick, devVars, Presence!Lapse, Presence!Finish
<1>8. CASE DevElapse \/ UNCHANGED devVars
  BY <1>8 DEF DevElapse, devVars
<1>9. QED
  BY <1>1, <1>2, <1>3, <1>4, <1>5, <1>6, <1>7, <1>8 DEF DevNext

(* The state machine implements the abstract promise of UserPresence: one  *)
(* press that was asked for, one operation.                                *)
THEOREM PresenceImplemented == DevSpec => ImplementsPresence
<1>1. DevInit => Presence!PresenceInit
  BY DEF DevInit, Presence!PresenceInit, GrantOf, IsAuthorized
<1>2. DevTypeOK /\ [DevNext]_devVars => [Presence!PresenceNext]_GrantOf
  BY GrantStep
<1>3. QED
  BY <1>1, <1>2, DevTypeCorrect, PTL
     DEF DevSpec, ImplementsPresence, Presence!PresenceSpec
=============================================================================
