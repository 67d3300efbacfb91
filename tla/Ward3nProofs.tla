---------------------------- MODULE Ward3nProofs ----------------------------
(***************************************************************************)
(* Theorems about the whole firmware, for every set of commands and        *)
(* messages, every certificate, every timeout and every number of presses. *)
(***************************************************************************)
EXTENDS Ward3n, CcidProofs, DeviceStateProofs

WardInv == WardTypeOK /\ BetweenOperations /\ OneEdgeOneOperation

-----------------------------------------------------------------------------
(* Permissions *)

LEMMA OneOf == /\ One(TRUE) = 1 /\ One(FALSE) = 0
               /\ \A b \in BOOLEAN : One(b) \in {0, 1}
BY DEF One

(* No call but a press that was waited for opens a permission, and the     *)
(* calls that use one up close it.                                         *)
LEMMA NoNewPermission ==
  ASSUME \/ DevStateInit \/ RequestAuth \/ DevStateTick
         \/ BeginProcessing \/ OpComplete
         \/ UNCHANGED <<state, authConsumed>>
  PROVE  IsAuthorized' => IsAuthorized
BY DEF DevStateInit, RequestAuth, DevStateTick, BeginProcessing, OpComplete, IsAuthorized,
       devVars

(* What the applet does to the state machine while it handles a command:   *)
(* nothing, one request, or the use of a permission for an operation.      *)
LEMMA ProcessDev ==
  ASSUME NEW cmd, Process(cmd)
  PROVE  /\ signing = "no"
         /\ \/ signing' = "no" /\ UNCHANGED devVars
            \/ /\ signing' = "no" /\ RequestAuth
               /\ pinVerified /\ UNCHANGED pinVerified
            \/ /\ signing' # "no" /\ ConsumeAuth
               /\ pinVerified /\ UNCHANGED pinVerified
<1>1. signing = "no"
  BY DEF Process
<1>2. CASE \E sw : Refuse(sw)
  BY <1>1, <1>2 DEF Refuse
<1>3. CASE HandleSelect(cmd.arg)
  BY <1>1, <1>3 DEF HandleSelect, Refuse
<1>4. CASE HandleVerify(cmd.arg)
  BY <1>1, <1>4 DEF HandleVerify, Refuse
<1>5. CASE HandleGetData(cmd.arg, Le(cmd.le))
  BY <1>1, <1>5 DEF HandleGetData, Refuse
<1>6. CASE HandleGetResponse(Le(cmd.le))
  BY <1>1, <1>6 DEF HandleGetResponse, Refuse
<1>7. CASE HandleGenAuth(cmd.arg)
  <2>1. "no" \notin Digests
    BY DEF Digests
  <2>2. CASE HandleGenAuthInvalid(cmd.arg)
    BY <1>1, <2>2 DEF HandleGenAuthInvalid, Refuse
  <2>3. QED
    BY <1>1, <1>7, <2>1, <2>2 DEF HandleGenAuth, cardVars
<1>8. QED
  BY <1>2, <1>3, <1>4, <1>5, <1>6, <1>7 DEF Process

(* The steps of tud_task() that are not a signature.                       *)
LEMMA InTudStep ==
  ASSUME TudMessage \/ TudApdu \/ TudBus \/ TudReset
  PROVE  /\ pc = "tud" /\ signing = "no" /\ UNCHANGED <<pc, btnVars>>
         /\ \/ /\ signing' = "no" /\ UNCHANGED operations
               /\ UNCHANGED devVars \/ RequestAuth \/ DevStateInit
            \/ signing' # "no" /\ ConsumeAuth /\ operations' = operations + 1
<1>1. pc = "tud" /\ signing = "no" /\ UNCHANGED <<pc, btnVars>>
  BY DEF TudMessage, TudApdu, TudBus, TudReset, InTud
<1>2. CASE TudMessage
  BY <1>1, <1>2 DEF TudMessage
<1>3. CASE TudApdu
  <2>1. PICK cmd : Process(cmd)
    BY <1>3 DEF TudApdu
  <2>2. IF signing' = "no" THEN UNCHANGED operations ELSE operations' = operations + 1
    BY <1>3 DEF TudApdu
  <2>3. QED
    BY <1>1, <2>1, <2>2, ProcessDev
<1>4. CASE TudBus
  BY <1>1, <1>4 DEF TudBus, pivVars
<1>5. CASE TudReset
  BY <1>1, <1>5 DEF TudReset, pivVars
<1>6. QED
  BY <1>1, <1>2, <1>3, <1>4, <1>5

-----------------------------------------------------------------------------
(* The invariant *)

LEMMA WardInit_Inv == WardInit => WardInv
<1> SUFFICES ASSUME WardInit PROVE WardInv
  OBVIOUS
<1>1. /\ deadline \in Nat /\ state = "IDLE" /\ authConsumed = FALSE /\ signing = "no"
      /\ pinLow \in BOOLEAN /\ edgeSeen = FALSE /\ edgeAge = 0 /\ sampling = FALSE
      /\ edges = 0 /\ pc = "tud" /\ operations = 0
  BY DEF WardInit, DevInit, BtnInit, PivInit
<1>2. DevTypeOK /\ BetweenOperations /\ ~IsAuthorized
  BY <1>1, Zenon DEF DevTypeOK, DevStates, BetweenOperations, IsAuthorized
<1>3. 0 \in 0..Debounce /\ 0 \in 0..MaxEdges /\ 0 \in Nat /\ 0 + 0 + 0 + 0 <= 0
  BY ButtonAssumption
<1>4. BtnTypeOK
  BY <1>1, <1>3, Zenon DEF BtnTypeOK
<1>5. WardTypeOK
  BY <1>1, <1>2, <1>3, <1>4, Zenon DEF WardTypeOK
<1>6. OneEdgeOneOperation
  BY <1>1, <1>2, <1>3 DEF OneEdgeOneOperation, One
<1>7. QED
  BY <1>2, <1>5, <1>6 DEF WardInv

LEMMA TudStep_Inv ==
  ASSUME WardInv, TudMessage \/ TudApdu \/ TudBus \/ TudReset
  PROVE  WardInv'
<1>1. DevTypeOK /\ BtnTypeOK /\ operations \in Nat /\ edges \in Nat
  BY ButtonAssumption DEF WardInv, WardTypeOK, BtnTypeOK
<1>2. UNCHANGED <<pc, btnVars>> /\ pc = "tud" /\ ~sampling /\ signing = "no"
  BY InTudStep DEF WardInv, WardTypeOK
<1>3. BtnTypeOK' /\ UNCHANGED <<edges, edgeSeen, sampling>>
  BY <1>1, <1>2 DEF BtnTypeOK, btnVars
<1>4. ASSUME signing' = "no", UNCHANGED operations,
             UNCHANGED devVars \/ RequestAuth \/ DevStateInit
      PROVE  WardInv'
  <2>1. DevTypeOK'
    BY <1>1, <1>4, DevTypeStep DEF DevNext
  <2>2. BetweenOperations'
    BY <1>2, <1>4 DEF WardInv, BetweenOperations, RequestAuth, DevStateInit, devVars
  <2>3. One(IsAuthorized)' <= One(IsAuthorized)
    <3>1. IsAuthorized' => IsAuthorized
      BY <1>4, NoNewPermission DEF devVars
    <3>2. QED
      BY <3>1 DEF One
  <2>4. OneEdgeOneOperation'
    BY <1>1, <1>3, <1>4, <2>3 DEF WardInv, OneEdgeOneOperation, One
  <2>5. QED
    BY <1>1, <1>2, <1>3, <1>4, <2>1, <2>2, <2>4 DEF WardInv, WardTypeOK
<1>5. ASSUME signing' # "no", ConsumeAuth, operations' = operations + 1
      PROVE  WardInv'
  <2>1. DevTypeOK'
    BY <1>1, <1>5, DevTypeStep DEF DevNext
  <2>2. BetweenOperations' /\ IsAuthorized /\ ~IsAuthorized'
    BY <1>5 DEF BetweenOperations, ConsumeAuth, IsAuthorized
  <2>3. OneEdgeOneOperation'
    BY <1>1, <1>3, <1>5, <2>2 DEF WardInv, OneEdgeOneOperation, One
  <2>4. QED
    BY <1>1, <1>2, <1>3, <1>5, <2>1, <2>2, <2>3 DEF WardInv, WardTypeOK
<1>6. QED
  BY <1>4, <1>5, InTudStep

LEMMA TudSign_Inv ==
  ASSUME WardInv, TudSign
  PROVE  WardInv'
<1>1. DevTypeOK /\ BtnTypeOK /\ operations \in Nat /\ edges \in Nat
  BY ButtonAssumption DEF WardInv, WardTypeOK, BtnTypeOK
<1>2. UNCHANGED <<pc, btnVars, operations>> /\ pc = "tud"
  BY DEF TudSign
<1>3. BtnTypeOK' /\ UNCHANGED <<edges, edgeSeen, sampling>>
  BY <1>1, <1>2 DEF BtnTypeOK, btnVars
<1>4. BeginProcessing \/ OpComplete
  BY DEF TudSign, BeginSigning, FinishSigning
<1>5. DevTypeOK'
  BY <1>1, <1>4, DevTypeStep DEF DevNext
<1>6. BetweenOperations'
  BY DEF WardInv, BetweenOperations, TudSign, BeginSigning, FinishSigning, BeginProcessing,
         OpComplete, pivVars
<1>7. OneEdgeOneOperation'
  <2>1. IsAuthorized' => IsAuthorized
    BY <1>4, NoNewPermission
  <2>2. QED
    BY <1>1, <1>2, <1>3, <2>1 DEF WardInv, OneEdgeOneOperation, One
<1>8. QED
  BY <1>1, <1>2, <1>3, <1>5, <1>6, <1>7 DEF WardInv, WardTypeOK

\* The steps that touch neither the device, the button nor the applet.
LEMMA Elsewhere_Inv ==
  ASSUME WardInv, UNCHANGED <<devVars, btnVars, signing, operations>>,
         pc' = pc \/ (pc' \in {"tud", "ccid", "button", "tick"} /\ signing = "no" /\ ~sampling)
  PROVE  WardInv'
<1>1. BetweenOperations' /\ IsAuthorized' = IsAuthorized
  BY DEF WardInv, BetweenOperations, devVars, IsAuthorized
<1>2. OneEdgeOneOperation'
  BY <1>1 DEF WardInv, OneEdgeOneOperation, btnVars, One
<1>3. DevTypeOK' /\ BtnTypeOK'
  BY DEF WardInv, WardTypeOK, DevTypeOK, BtnTypeOK, devVars, btnVars
<1>4. QED
  BY <1>1, <1>2, <1>3 DEF WardInv, WardTypeOK, btnVars

LEMMA Button_Inv ==
  ASSUME WardInv, ButtonTask
  PROVE  WardInv'
<1>1. DevTypeOK /\ BtnTypeOK /\ operations \in Nat /\ edges \in Nat /\ pc = "button"
      /\ signing = "no"
  BY ButtonAssumption DEF WardInv, WardTypeOK, BtnTypeOK, ButtonTask
<1>2. UNCHANGED <<signing, operations>>
  BY DEF ButtonTask, pivVars
<1>3. CASE PollIdle /\ pc' = "tick"
  BY <1>1, <1>2, <1>3, Elsewhere_Inv DEF PollIdle
<1>4. CASE PollClear /\ UNCHANGED pc
  <2>1. /\ UNCHANGED <<pinLow, edges, devVars>> /\ edgeSeen /\ ~sampling
        /\ edgeSeen' = FALSE /\ edgeAge' = 0 /\ sampling' = TRUE
    BY <1>4 DEF PollClear, PollReady
  <2>2. BtnTypeOK'
    <3>1. 0 \in 0..Debounce
      BY ButtonAssumption
    <3>2. QED
      BY <1>1, <2>1, <3>1, Zenon DEF BtnTypeOK
  <2>3. DevTypeOK' /\ BetweenOperations' /\ IsAuthorized' = IsAuthorized
    BY <1>1, <1>2, <2>1 DEF WardInv, DevTypeOK, BetweenOperations, IsAuthorized, devVars
  <2>4. OneEdgeOneOperation'
    BY <1>1, <1>2, <2>1, <2>3 DEF WardInv, OneEdgeOneOperation, One
  <2>5. QED
    BY <1>1, <1>2, <1>4, <2>2, <2>3, <2>4 DEF WardInv, WardTypeOK
<1>5. CASE PollSample /\ pc' = "tick"
  <2>1. /\ UNCHANGED <<pinLow, edgeSeen, edgeAge, edges>> /\ sampling /\ sampling' = FALSE
        /\ ButtonPressed \/ UNCHANGED devVars
    BY <1>5 DEF PollSample
  <2>2. BtnTypeOK'
    BY <1>1, <2>1, Zenon DEF BtnTypeOK
  <2>3. DevTypeOK'
    BY <1>1, <2>1, DevTypeStep DEF DevNext
  <2>4. BetweenOperations'
    BY <1>1, <1>2, <2>1 DEF WardInv, BetweenOperations, ButtonPressed, devVars
  <2>5. OneEdgeOneOperation'
    BY <1>1, <1>2, <2>1 DEF WardInv, OneEdgeOneOperation, One, ButtonPressed, IsAuthorized,
                            devVars
  <2>6. QED
    BY <1>1, <1>2, <1>5, <2>1, <2>2, <2>3, <2>4, <2>5 DEF WardInv, WardTypeOK
<1>6. QED
  BY <1>3, <1>4, <1>5 DEF ButtonTask

LEMMA Tick_Inv ==
  ASSUME WardInv, TickTask
  PROVE  WardInv'
<1>1. DevTypeOK /\ BtnTypeOK /\ operations \in Nat /\ edges \in Nat /\ ~sampling
      /\ signing = "no"
  BY ButtonAssumption DEF WardInv, WardTypeOK, BtnTypeOK, TickTask
<1>2. UNCHANGED <<btnVars, signing, operations>> /\ DevStateTick /\ pc' = "tud"
  BY DEF TickTask, pivVars
<1>3. DevTypeOK'
  BY <1>1, <1>2, DevTypeStep DEF DevNext
<1>4. BtnTypeOK' /\ UNCHANGED <<edges, edgeSeen, sampling>>
  BY <1>1, <1>2 DEF BtnTypeOK, btnVars
<1>5. BetweenOperations'
  BY <1>1, <1>2 DEF WardInv, BetweenOperations, DevStateTick, devVars
<1>6. OneEdgeOneOperation'
  <2>1. IsAuthorized' => IsAuthorized
    BY <1>2, NoNewPermission
  <2>2. QED
    BY <1>1, <1>2, <1>4, <2>1 DEF WardInv, OneEdgeOneOperation, One
<1>7. QED
  BY <1>1, <1>2, <1>3, <1>4, <1>5, <1>6 DEF WardInv, WardTypeOK

LEMMA User_Inv ==
  ASSUME WardInv, User
  PROVE  WardInv'
<1>1. DevTypeOK /\ BtnTypeOK /\ operations \in Nat /\ edges \in Nat
  BY ButtonAssumption DEF WardInv, WardTypeOK, BtnTypeOK
<1>2. UNCHANGED <<devVars, sampling, signing, operations, pc>>
  BY DEF User, Fall, Rise, pivVars
<1>3. DevTypeOK' /\ BetweenOperations' /\ IsAuthorized' = IsAuthorized
  BY <1>1, <1>2 DEF WardInv, DevTypeOK, BetweenOperations, IsAuthorized, devVars
<1>4. CASE Fall
  <2>1. /\ pinLow' = TRUE /\ edges' = edges + 1 /\ edgeSeen' = TRUE
        /\ edgeAge' \in 0..Debounce /\ edges' \in 0..MaxEdges
    BY <1>1, <1>4, ButtonAssumption DEF Fall, BtnTypeOK
  <2>2. BtnTypeOK'
    BY <1>1, <1>2, <2>1, Zenon DEF BtnTypeOK
  <2>3. OneEdgeOneOperation'
    BY <1>1, <1>2, <1>3, <2>1 DEF WardInv, OneEdgeOneOperation, One
  <2>4. QED
    BY <1>1, <1>2, <1>3, <2>2, <2>3 DEF WardInv, WardTypeOK
<1>5. CASE Rise
  <2>1. pinLow' = FALSE /\ UNCHANGED <<edgeSeen, edgeAge, edges>>
    BY <1>5 DEF Rise
  <2>2. BtnTypeOK'
    BY <1>1, <1>2, <2>1, Zenon DEF BtnTypeOK
  <2>3. OneEdgeOneOperation'
    BY <1>1, <1>2, <1>3, <2>1 DEF WardInv, OneEdgeOneOperation, One
  <2>4. QED
    BY <1>1, <1>2, <1>3, <2>2, <2>3 DEF WardInv, WardTypeOK
<1>6. QED
  BY <1>4, <1>5 DEF User

LEMMA Time_Inv ==
  ASSUME WardInv, Time
  PROVE  WardInv'
<1>1. DevTypeOK /\ BtnTypeOK /\ operations \in Nat /\ edges \in Nat
  BY ButtonAssumption DEF WardInv, WardTypeOK, BtnTypeOK
<1>2. /\ UNCHANGED <<state, authConsumed, pinLow, edgeSeen, sampling, edges>>
      /\ UNCHANGED <<signing, operations, pc>>
      /\ deadline' = Countdown(deadline) /\ edgeAge' = Aged
  BY DEF Time, Elapse, pivVars
<1>3. DevTypeOK'
  <2>1. deadline' \in Nat /\ deadline' <= deadline
    BY <1>1, <1>2, CountdownBounds DEF DevTypeOK
  <2>2. QED
    BY <1>1, <1>2, <2>1, TimingAssumption DEF DevTypeOK
<1>4. BtnTypeOK'
  <2>1. edgeAge' \in 0..Debounce
    BY <1>1, <1>2, ButtonAssumption DEF Aged, BtnTypeOK
  <2>2. QED
    BY <1>1, <1>2, <2>1 DEF BtnTypeOK
<1>5. BetweenOperations' /\ OneEdgeOneOperation'
  BY <1>2 DEF WardInv, BetweenOperations, OneEdgeOneOperation, IsAuthorized, One
<1>6. QED
  BY <1>1, <1>2, <1>3, <1>4, <1>5 DEF WardInv, WardTypeOK

LEMMA WardStep ==
  ASSUME WardInv, [WardNext]_wardVars
  PROVE  WardInv'
<1>1. CASE TudReturn \/ CcidTask
  <2>1. /\ UNCHANGED <<devVars, btnVars, signing, operations>>
        /\ pc \in {"tud", "ccid"} /\ pc' \in {"ccid", "button"}
    BY <1>1 DEF TudReturn, CcidTask, pivVars
  <2>2. signing = "no" /\ ~sampling
    BY <1>1, <2>1 DEF WardInv, WardTypeOK, TudReturn, CcidTask
  <2>3. QED
    BY <2>1, <2>2, Elsewhere_Inv
<1>2. CASE Host \/ UNCHANGED wardVars
  BY <1>2, Elsewhere_Inv DEF Host, wardVars, pivVars
<1>3. QED
  BY <1>1, <1>2, TudStep_Inv, TudSign_Inv, Button_Inv, Tick_Inv, User_Inv, Time_Inv
     DEF WardNext, MainLoop, TudTask

(* The three parts of the invariant hold of the firmware.                  *)
THEOREM WardInvHolds == WardSpec => []WardInv
<1>1. WardInv /\ [WardNext]_wardVars => WardInv'
  BY WardStep
<1>2. QED
  BY WardInit_Inv, <1>1, PTL DEF WardSpec

(* The variables of the main loop, the button and the state machine keep   *)
(* their types, and deadlines their bounds.                                *)
THEOREM WardTypeCorrect == WardSpec => []WardTypeOK
<1>1. WardInv => WardTypeOK
  BY DEF WardInv
<1>2. QED
  BY <1>1, WardInvHolds, PTL

(* One falling edge of the button pays for at most one operation           *)
(* (README.md:118), whatever the interrupt, the loop and the host do.      *)
THEOREM EdgePaysOperation == WardSpec => []OneEdgeOneOperation
<1>1. WardInv => OneEdgeOneOperation
  BY DEF WardInv
<1>2. QED
  BY <1>1, WardInvHolds, PTL

-----------------------------------------------------------------------------
(* The firmware implements the signing policy *)

\* What the calls do to the grant.
LEMMA GrantOfCalls ==
  ASSUME DevTypeOK
  PROVE  /\ UNCHANGED <<state, authConsumed>> => UNCHANGED GrantOf
         /\ RequestAuth => Policy!Ask \/ UNCHANGED GrantOf
         /\ ButtonPressed => Policy!Press \/ UNCHANGED GrantOf
         /\ ConsumeAuth => Policy!Spend
         /\ DevStateTick => Policy!Lapse \/ Policy!Finish \/ UNCHANGED GrantOf
         /\ DevStateInit => GrantOf' = "none"
<1> USE DEF DevTypeOK, DevStates, GrantOf, IsAuthorized, devVars
<1>1. UNCHANGED <<state, authConsumed>> => UNCHANGED GrantOf
  OBVIOUS
<1>2. RequestAuth => Policy!Ask \/ UNCHANGED GrantOf
  BY DEF RequestAuth, Policy!Ask
<1>3. ButtonPressed => Policy!Press \/ UNCHANGED GrantOf
  BY DEF ButtonPressed, Policy!Press
<1>4. ConsumeAuth => Policy!Spend
  BY DEF ConsumeAuth, Policy!Spend
<1>5. DevStateTick => Policy!Lapse \/ Policy!Finish \/ UNCHANGED GrantOf
  BY DEF DevStateTick, Policy!Lapse, Policy!Finish
<1>6. DevStateInit => GrantOf' = "none"
  BY DEF DevStateInit
<1>7. QED
  BY <1>1, <1>2, <1>3, <1>4, <1>5, <1>6

\* Between operations the permission is not being used.
LEMMA NotSpent ==
  ASSUME WardInv, signing = "no"
  PROVE  GrantOf # "spent"
BY DEF WardInv, WardTypeOK, DevTypeOK, DevStates, BetweenOperations, GrantOf, IsAuthorized

\* A command that the applet gets leaves the card powered, and one that
\* asks for the user or uses the key finds the PIN verified.
LEMMA PolicyApdu ==
  ASSUME WardInv, TudApdu
  PROVE  Policy!PolicyNext \/ UNCHANGED <<GrantOf, SessionOf>>
<1>1. iccPowered /\ UNCHANGED iccPowered
  BY DEF TudApdu, XfrAccepted, XferOutApplet, HandleXfr, ccidVars, driverVars
<1>2. PICK cmd : Process(cmd)
  BY DEF TudApdu
<1>3. DevTypeOK /\ signing = "no"
  BY <1>2, ProcessDev DEF WardInv, WardTypeOK
<1>4. SessionOf \in {"locked", "unlocked"} /\ SessionOf' \in {"locked", "unlocked"}
  BY <1>1 DEF SessionOf
<1>5. CASE UNCHANGED devVars
  <2>1. UNCHANGED GrantOf /\ GrantOf # "spent"
    BY <1>3, <1>5, GrantOfCalls, NotSpent DEF devVars
  <2>2. QED
    BY <1>4, <2>1 DEF Policy!PolicyNext, Policy!PolicySession
<1>6. CASE (RequestAuth \/ ConsumeAuth) /\ pinVerified /\ UNCHANGED pinVerified
  <2>1. SessionOf = "unlocked" /\ UNCHANGED SessionOf
    BY <1>1, <1>6, Zenon DEF SessionOf
  <2>2. QED
    BY <1>3, <1>6, <2>1, GrantOfCalls
       DEF Policy!PolicyNext, Policy!PolicyAsk, Policy!PolicySpend
<1>7. QED
  BY <1>2, <1>5, <1>6, ProcessDev

\* A message for the slot, or a bus event: a session ends, or one begins.
LEMMA PolicySlot ==
  ASSUME WardInv, TudMessage \/ TudBus \/ TudReset
  PROVE  Policy!PolicyNext \/ UNCHANGED <<GrantOf, SessionOf>>
<1>1. DevTypeOK /\ signing = "no"
  BY DEF WardInv, WardTypeOK, TudMessage, TudBus, TudReset, InTud
<1>2. GrantOf # "spent"
  BY <1>1, NotSpent
<1>3. CASE TudMessage
  <2>1. UNCHANGED GrantOf
    BY <1>1, <1>3, GrantOfCalls DEF TudMessage, devVars
  <2>2. SessionOf' \in {"closed", "locked"} \/ UNCHANGED SessionOf
    <3>1. CASE Head(evq).msg.req.type = "IccPowerOn"
      <4>1. pinVerified' = FALSE
        BY <1>3, <3>1 DEF TudMessage, ResetCard
      <4>2. QED
        BY <4>1 DEF SessionOf
    <3>2. CASE Head(evq).msg.req.type # "IccPowerOn"
      <4>1. UNCHANGED pinVerified
        BY <1>3, <3>2 DEF TudMessage, cardVars
      <4>2. iccPowered' = FALSE \/ UNCHANGED iccPowered
        BY <1>3, <3>2 DEF TudMessage, XferOut, ProcessMessage, HandlePowerOff,
             HandleXfrRefused, HandleSetParameters, HandleSetDataRate, HandleUnknown, driverVars
      <4>3. QED
        BY <4>1, <4>2 DEF SessionOf
    <3>3. QED
      BY <3>1, <3>2
  <2>3. QED
    BY <1>2, <2>1, <2>2 DEF Policy!PolicyNext, Policy!PolicySession
<1>4. CASE TudBus
  BY <1>1, <1>4, GrantOfCalls
     DEF TudBus, XferIn, Open, driverVars, devVars, pivVars, SessionOf
<1>5. CASE TudReset
  <2>1. SessionOf' = "closed"
    BY <1>5 DEF TudReset, BusReset, DriverReset, SessionOf
  <2>2. CASE DevStateInit
    BY <1>1, <1>2, <2>1, <2>2, GrantOfCalls DEF Policy!PolicyNext, Policy!PolicyDetach
  <2>3. CASE UNCHANGED devVars
    <3>1. UNCHANGED GrantOf
      BY <1>1, <2>3, GrantOfCalls DEF devVars
    <3>2. QED
      BY <1>2, <2>1, <3>1 DEF Policy!PolicyNext, Policy!PolicySession
  <2>4. QED
    BY <1>5, <2>2, <2>3 DEF TudReset
<1>6. QED
  BY <1>3, <1>4, <1>5

\* Everything else leaves the session alone.
LEMMA PolicyElsewhere ==
  ASSUME WardInv, TudSign \/ TudReturn \/ CcidTask \/ ButtonTask \/ TickTask
                    \/ User \/ Time \/ Host \/ UNCHANGED wardVars
  PROVE  Policy!PolicyNext \/ UNCHANGED <<GrantOf, SessionOf>>
<1>1. DevTypeOK
  BY DEF WardInv, WardTypeOK
<1>2. UNCHANGED <<pinVerified, iccPowered>>
  <2>1. UNCHANGED pinVerified
    BY DEF TudSign, BeginSigning, FinishSigning, TudReturn, CcidTask, ButtonTask, TickTask, User,
           Time, Host, wardVars, pivVars, cardVars
  <2>2. CASE Host
    BY <2>1, <2>2 DEF Host, HostStep, HostAttach, HostConfigure, HostReset, HostUnplug, LinkLost,
                HostSend, HostRead, driverVars
  <2>3. CASE TudSign \/ CcidTask
    BY <2>1, <2>3 DEF TudSign, CcidTask, SendPending, XferOutApplet, HandleXfr, ccidVars, driverVars
  <2>4. CASE TudReturn \/ ButtonTask \/ TickTask \/ User \/ Time \/ UNCHANGED wardVars
    BY <2>1, <2>4 DEF TudReturn, ButtonTask, TickTask, User, Time, wardVars, ccidVars, driverVars
  <2>5. QED
    BY <2>2, <2>3, <2>4
<1>3. UNCHANGED SessionOf
  BY <1>2 DEF SessionOf
<1>4. Policy!Press \/ Policy!Finish \/ Policy!Lapse \/ UNCHANGED GrantOf
  <2>1. CASE TudSign
    <3>1. signing # "no"
      BY <2>1 DEF TudSign, BeginSigning, FinishSigning
    <3>2. GrantOf = "spent"
      BY <3>1 DEF WardInv, BetweenOperations, GrantOf, IsAuthorized
    <3>3. CASE BeginProcessing
      <4>1. GrantOf' = "spent"
        BY <3>3 DEF BeginProcessing, GrantOf, IsAuthorized
      <4>2. QED
        BY <3>2, <4>1
    <3>4. CASE OpComplete
      <4>1. GrantOf' = "none"
        BY <3>4 DEF OpComplete, GrantOf, IsAuthorized
      <4>2. QED
        BY <3>2, <4>1 DEF Policy!Finish
    <3>5. QED
      BY <2>1, <3>3, <3>4 DEF TudSign, BeginSigning, FinishSigning
  <2>2. CASE ButtonTask
    BY <1>1, <2>2, GrantOfCalls DEF ButtonTask, PollIdle, PollClear, PollSample, devVars
  <2>3. CASE TickTask
    BY <1>1, <2>3, GrantOfCalls DEF TickTask
  <2>4. CASE TudReturn \/ CcidTask \/ User \/ Time \/ Host \/ UNCHANGED wardVars
    BY <1>1, <2>4, GrantOfCalls DEF TudReturn, CcidTask, User, Fall, Rise, Time, Elapse, Host,
                                    wardVars, devVars
  <2>5. QED
    BY <2>1, <2>2, <2>3, <2>4
<1>5. QED
  BY <1>3, <1>4 DEF Policy!PolicyNext, Policy!PolicyPress

(* PIN and press for every operation, no operation across the end of a     *)
(* session, no session that begins unlocked: WardSpec implements           *)
(* SigningPolicy under the mapping GrantOf, SessionOf.                     *)
THEOREM PolicyImplemented == WardSpec => ImplementsPolicy
<1>1. WardInit => Policy!PolicyInit
  BY DEF WardInit, DevInit, CcidInit, Policy!PolicyInit, Policy!PresenceInit, GrantOf,
         IsAuthorized, SessionOf
<1>2. WardInv /\ [WardNext]_wardVars => [Policy!PolicyNext]_<<GrantOf, SessionOf>>
  BY PolicyApdu, PolicySlot, PolicyElsewhere DEF WardNext, MainLoop, TudTask
<1>3. QED
  BY <1>1, <1>2, WardInvHolds, PTL DEF WardSpec, ImplementsPolicy, Policy!PolicySpec

-----------------------------------------------------------------------------
(* The firmware implements the transport *)

(* What tud_task() does to the driver is handling one event, or nothing.   *)
LEMMA TudTransport ==
  ASSUME TudMessage \/ TudApdu \/ TudSign \/ TudBus \/ TudReset
  PROVE  TudEvent \/ UNCHANGED ccidVars
BY DEF TudMessage, TudApdu, TudSign, TudBus, TudReset, TudEvent

LEMMA TransportStep ==
  ASSUME [WardNext]_wardVars
  PROVE  [TransportNext]_ccidVars
<1>1. CASE TudTask
  BY <1>1, TudTransport DEF TudTask, TudReturn, TransportNext
<1>2. CASE CcidTask
  BY <1>2 DEF CcidTask, TransportNext
<1>3. CASE ButtonTask \/ TickTask \/ User \/ Time \/ UNCHANGED wardVars
  BY <1>3 DEF ButtonTask, TickTask, User, Time, wardVars
<1>4. CASE Host
  BY <1>4 DEF Host, TransportNext
<1>5. QED
  BY <1>1, <1>2, <1>3, <1>4 DEF WardNext, MainLoop

(* With a signature that takes time, the clock, the button and the bus in  *)
(* between, the firmware's driver is still the one of CcidTransport.       *)
THEOREM TransportImplemented == WardSpec => ImplementsTransport
<1>1. WardInit => CcidInit
  BY DEF WardInit
<1>2. QED
  BY <1>1, TransportStep, PTL DEF WardSpec, ImplementsTransport, TransportSpec

(* So its driver keeps its types and never stops listening, however many   *)
(* requests the host has under way.                                        *)
THEOREM FirmwareListens == WardSpec => [](CcidTypeOK /\ NeverDeaf)
BY TransportImplemented, CcidTypeCorrect, AlwaysListening, PTL DEF ImplementsTransport

(* And a host with one request at a time gets to each its own answer, once *)
(* and with the true power status, whatever a signature, the user and a    *)
(* bus reset in its middle do.                                             *)
THEOREM FirmwareAnswers ==
  ASSUME MaxOutstanding = 1
  PROVE  WardSpec => [](AnswersMatch /\ OneAnswerEach /\ StatusTruthful)
BY TransportImplemented, AnswersTheRequest, AnswersOnce, StatusHonest, PTL
   DEF ImplementsTransport

-----------------------------------------------------------------------------
(* The state machine in the firmware *)

(* Whatever the loop does to the state machine is a call of its functions. *)
LEMMA WardCalls ==
  ASSUME DevTypeOK, [WardNext]_wardVars
  PROVE  [DevNext]_devVars
<1>1. CASE TudMessage \/ TudBus \/ TudReturn \/ CcidTask \/ Host
  BY <1>1 DEF TudMessage, TudBus, TudReturn, CcidTask, Host
<1>2. CASE TudApdu
  BY <1>2, ProcessDev DEF TudApdu, DevNext
<1>3. CASE TudSign
  BY <1>3 DEF TudSign, BeginSigning, FinishSigning, DevNext
<1>4. CASE TudReset
  BY <1>4 DEF TudReset, DevNext
<1>5. CASE ButtonTask
  BY <1>5 DEF ButtonTask, PollIdle, PollClear, PollSample, DevNext
<1>6. CASE TickTask
  BY <1>6 DEF TickTask, DevNext
<1>7. CASE User
  BY <1>7 DEF User, Fall, Rise
<1>8. CASE Time
  <2>1. deadline' = Countdown(deadline) /\ UNCHANGED <<state, authConsumed>>
    BY <1>8 DEF Time, Elapse
  <2>2. CASE deadline > 0
    BY <2>1, <2>2 DEF DevElapse, DevNext
  <2>3. CASE ~(deadline > 0)
    BY <2>1, <2>3 DEF Countdown, DevTypeOK, devVars
  <2>4. QED
    BY <2>2, <2>3
<1>9. CASE UNCHANGED wardVars
  BY <1>9 DEF wardVars
<1>10. QED
  BY <1>1, <1>2, <1>3, <1>4, <1>5, <1>6, <1>7, <1>8, <1>9 DEF WardNext, MainLoop, TudTask

LEMMA WardCallsOnly == WardSpec => DevSpec
<1>1. WardInit => DevInit
  BY DEF WardInit
<1>2. WardInv /\ [WardNext]_wardVars => [DevNext]_devVars
  BY WardCalls DEF WardInv, WardTypeOK
<1>3. QED
  BY <1>1, <1>2, WardInvHolds, PTL DEF WardSpec, DevSpec

(* So no retry of GENERAL AUTHENTICATE and no second press pushes a        *)
(* deadline out, also while commands, signatures and bus events come       *)
(* between two ticks.                                                      *)
THEOREM FirmwareDeadlines == WardSpec => DeadlineNeverExtended
BY WardCallsOnly, DeadlinesHold

-----------------------------------------------------------------------------
(* After a disconnection *)

(* What IdleWithoutHost needs to be inductive: no message of the host that *)
(* went away comes behind its disconnection in the queue, and once that is *)
(* handled none is left that could ask, or power the card on, again.       *)
GoneInv == /\ LostLast
           /\ link = "down" /\ ~IsQueued("unplug") => ~IsQueued("rx")
           /\ IdleWithoutHost

LEMMA GoneInit_Inv == WardInit => GoneInv
BY DEF WardInit, CcidInit, DevInit, GoneInv, LostLast, IsQueued, IdleWithoutHost

\* The events of tud_task(), with what happens to the queue.
LEMMA RxGone ==
  ASSUME GoneInv, evq \in Seq(Events), Dequeue("rx"), link' = link
  PROVE  GoneInv'
<1>1. IsQueued("rx") /\ LostLast' /\ (IsQueued("unplug") => IsQueued("unplug")')
  BY QueuedAfterDequeue, LostLastAfterDequeue DEF GoneInv
<1>2. link' = "down" => IsQueued("unplug")'
  BY <1>1 DEF GoneInv
<1>3. QED
  BY <1>1, <1>2 DEF GoneInv, IdleWithoutHost

LEMMA BusGone ==
  ASSUME GoneInv, evq \in Seq(Events), TudBus
  PROVE  GoneInv'
<1>1. PICK ev \in {"txdone", "configure"} : Dequeue(ev)
  BY DEF TudBus, XferIn, Open
<1>2. /\ link' = "down" => link = "down"
      /\ UNCHANGED <<iccPowered, state>>
  BY DEF TudBus, XferIn, Open, driverVars, devVars
<1>3. /\ LostLast' /\ (IsQueued("rx")' => IsQueued("rx"))
      /\ (IsQueued("unplug") => IsQueued("unplug")')
  BY <1>1, QueuedAfterDequeue, LostLastAfterDequeue DEF GoneInv
<1>4. QED
  BY <1>2, <1>3 DEF GoneInv, IdleWithoutHost

LEMMA ResetGone ==
  ASSUME GoneInv, evq \in Seq(Events), TudReset
  PROVE  GoneInv'
<1>1. PICK ev \in Lost : Dequeue(ev)
  BY DEF TudReset, BusReset, Lost
<1>2. /\ LostLast' /\ ~IsQueued("rx")'
      /\ (ev # "unplug" /\ IsQueued("unplug") => IsQueued("unplug")')
  BY <1>1, QueuedAfterDequeue, LostLastAfterDequeue DEF GoneInv
<1>3. link' = link /\ ~iccPowered'
  BY DEF TudReset, BusReset, DriverReset
<1>4. CASE ev = "unplug"
  <2>1. state' = "IDLE"
    BY <1>1, <1>4 DEF TudReset, Dequeue, DevStateInit
  <2>2. QED
    BY <1>2, <1>3, <2>1 DEF GoneInv, IdleWithoutHost
<1>5. CASE ev # "unplug"
  <2>1. Head(evq).ev # "unplug"
    BY <1>1, <1>5 DEF Dequeue
  <2>2. UNCHANGED state
    BY <2>1 DEF TudReset, devVars
  <2>3. QED
    BY <1>2, <1>3, <1>5, <2>2 DEF GoneInv, IdleWithoutHost
<1>6. QED
  BY <1>4, <1>5

\* A host that is there, or goes away now, leaves the conclusion to others.
LEMMA HostGone ==
  ASSUME GoneInv, CcidInv, Host
  PROVE  GoneInv'
<1> evq \in Seq(Events)
  BY DEF CcidInv, CcidTypeOK
<1>1. CASE HostAttach
  <2>1. link' # "down" /\ UNCHANGED evq
    BY <1>1 DEF HostAttach
  <2>2. QED
    BY <2>1 DEF GoneInv, LostLast, IdleWithoutHost
<1>2. CASE HostConfigure \/ HostRead
  <2>1. PICK e \in Events : Queue(e) /\ e.ev # "rx"
    BY <1>2, AnEvent DEF HostConfigure, HostRead
  <2>2. link' # "down"
    BY <1>2 DEF HostConfigure, HostRead
  <2>3. QED
    BY <2>1, <2>2, LostLastAfterQueue DEF GoneInv, IdleWithoutHost
<1>3. CASE HostReset \/ HostUnplug
  <2>1. PICK ev \in Lost : LinkLost(ev, IF ev = "reset" THEN "reset" ELSE "down")
    BY <1>3 DEF HostReset, HostUnplug, Lost
  <2>2. /\ Queue(Event(ev)) /\ Event(ev) \in Events /\ Event(ev).ev = ev
        /\ link' = IF ev = "reset" THEN "reset" ELSE "down"
    BY <2>1, AnEvent DEF LinkLost, Lost
  <2>3. LostLast'
    BY <2>2, LostLastAfterQueue DEF GoneInv, Lost
  <2>4. link' = "down" => IsQueued("unplug")'
    BY <2>2, QueuedAfterQueue DEF Lost
  <2>5. QED
    BY <2>3, <2>4 DEF GoneInv, IdleWithoutHost
<1>4. CASE \E r \in Requests : HostSend(r)
  <2>1. PICK e \in Events : Queue(e) /\ link = "up" /\ UNCHANGED link
    BY <1>4, SendStep DEF HostSend
  <2>2. ~IsQueued("reset") /\ ~IsQueued("unplug")
    BY <2>1 DEF CcidInv, LinkKnown
  <2>3. QED
    BY <2>1, <2>2, LostLastAfterQueue DEF GoneInv, IdleWithoutHost
<1>5. QED
  BY <1>1, <1>2, <1>3, <1>4 DEF Host, HostStep

LEMMA GoneStep ==
  ASSUME GoneInv, CcidInv, [WardNext]_wardVars
  PROVE  GoneInv'
<1> evq \in Seq(Events)
  BY DEF CcidInv, CcidTypeOK
<1>1. CASE TudMessage
  BY <1>1, RxGone DEF TudMessage, XferOut, ReArm
<1>2. CASE TudApdu
  <2>1. CASE signing' = "no"
    BY <1>2, <2>1, RxGone DEF TudApdu, XferOutApplet, ReArm
  <2>2. CASE signing' # "no"
    <3>1. IsQueued("rx") /\ UNCHANGED <<evq, link>>
      BY <1>2, <2>2 DEF TudApdu, IsQueued, ccidVars, usbVars
    <3>2. QED
      BY <3>1 DEF GoneInv, LostLast, IsQueued, IdleWithoutHost
  <2>3. QED
    BY <2>1, <2>2
<1>3. CASE TudSign
  <2>1. CASE BeginSigning /\ UNCHANGED ccidVars
    <3>1. state = "AUTHORIZED" /\ UNCHANGED <<evq, link>>
      BY <2>1 DEF BeginSigning, BeginProcessing, ccidVars, usbVars
    <3>2. QED
      BY <3>1 DEF GoneInv, LostLast, IsQueued, IdleWithoutHost
  <2>2. CASE FinishSigning /\ XferOutApplet("rapdu")
    BY <2>2, RxGone DEF XferOutApplet, ReArm
  <2>3. QED
    BY <1>3, <2>1, <2>2 DEF TudSign
<1>4. CASE TudBus
  BY <1>4, BusGone
<1>5. CASE TudReset
  BY <1>5, ResetGone
<1>6. CASE Host
  BY <1>6, HostGone
<1>7. CASE TudReturn \/ CcidTask \/ ButtonTask \/ TickTask \/ User \/ Time \/ UNCHANGED wardVars
  <2>1. UNCHANGED <<evq, link, iccPowered>>
    BY <1>7 DEF TudReturn, CcidTask, ButtonTask, TickTask, User, Time, wardVars, SendPending,
         ccidVars, usbVars, driverVars
  <2>2. state = "IDLE" => state' = "IDLE"
    BY <1>7 DEF TudReturn, CcidTask, ButtonTask, TickTask, User, Time, wardVars, devVars,
         PollIdle, PollClear, PollSample, ButtonPressed, DevStateTick, Fall, Rise, Elapse
  <2>3. QED
    BY <2>1, <2>2 DEF GoneInv, LostLast, IsQueued, IdleWithoutHost
<1>8. QED
  BY <1>1, <1>2, <1>3, <1>4, <1>5, <1>6, <1>7 DEF WardNext, MainLoop, TudTask

(* The next host finds a device that is idle and a card that is off        *)
(* (tud_umount_cb and _ccid_reset), whatever the last one left in the      *)
(* queue or in the middle of a signature.                                  *)
THEOREM NothingLeft == WardSpec => []IdleWithoutHost
<1>1. CcidInit => CcidInv
  BY CcidInit_Inv
<1>2. CcidInv /\ [TransportNext]_ccidVars => CcidInv'
  BY CcidStep
<1>3. WardSpec => []CcidInv
  BY <1>1, <1>2, TransportImplemented, PTL DEF ImplementsTransport, TransportSpec
<1>4. GoneInv => IdleWithoutHost
  BY DEF GoneInv
<1>5. QED
  BY <1>3, <1>4, GoneInit_Inv, GoneStep, PTL DEF WardSpec
=============================================================================
