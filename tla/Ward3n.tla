------------------------------- MODULE Ward3n -------------------------------
(***************************************************************************)
(* The firmware: the main loop of src/main.c around the USB driver, the    *)
(* applet, the button and the state machine, with the host and the user.   *)
(*                                                                         *)
(* pc           the call of the main loop that is running: tud_task(),     *)
(*              ccid_task(), button_was_pressed(), dev_state_tick()        *)
(* operations   how many private-key operations were started (history)     *)
(*                                                                         *)
(* One thread runs everything but the button's interrupt; the host, the    *)
(* user and the clock move between any two of its steps.                   *)
(***************************************************************************)
EXTENDS Button, Piv, CcidTransport

VARIABLES pc, operations

wardVars == <<devVars, btnVars, pivVars, ccidVars, pc, operations>>

WardInit == /\ DevInit /\ BtnInit /\ PivInit /\ CcidInit
            /\ pc = "tud"
            /\ operations = 0

-----------------------------------------------------------------------------
(* tud_task(): the events, in their order *)

InTud == pc = "tud" /\ signing = "no" /\ UNCHANGED <<pc, btnVars>>

\* A message that is not for the applet.  IccPowerOn calls piv_init().
TudMessage == /\ InTud
              /\ XferOut
              /\ IF Head(evq).msg.req.type = "IccPowerOn"
                   THEN ResetCard
                   ELSE UNCHANGED cardVars
              /\ UNCHANGED <<rapdu, signing, devVars, operations>>

\* A command for the applet, answered at once, or once it was signed.
TudApdu == /\ InTud
           /\ evq # <<>> /\ Head(evq).ev = "rx" /\ XfrAccepted(Head(evq).msg)
           /\ Process(Head(evq).msg.req.cmd)
           /\ IF signing' = "no"
                THEN XferOutApplet("rapdu") /\ UNCHANGED operations
                ELSE operations' = operations + 1 /\ UNCHANGED ccidVars

(* Mutant: the endpoint is re-armed before the signature. *)
TudSign_Rearms == /\ pc = "tud"
                  /\ \/ /\ BeginSigning
                        /\ outArmed' = TRUE
                        /\ UNCHANGED <<driverVars, evq, inBusy, onWire, link, peerVars>>
                     \/ FinishSigning /\ XferOutApplet("rapdu")
                  /\ UNCHANGED <<pc, btnVars, operations>>

TudSign == /\ pc = "tud"
           /\ \/ BeginSigning /\ UNCHANGED ccidVars
              \/ FinishSigning /\ XferOutApplet("rapdu")
           /\ UNCHANGED <<pc, btnVars, operations>>

TudBus == /\ InTud
          /\ XferIn \/ Open
          /\ UNCHANGED <<pivVars, devVars, operations>>

(* Mutant: a disconnection is handled like a bus reset. *)
TudReset_NoUmount == /\ InTud
                     /\ BusReset
                     /\ UNCHANGED <<pivVars, devVars, operations>>

\* A disconnection also calls tud_umount_cb(), a bus reset does not.
TudReset == /\ InTud
            /\ BusReset
            /\ IF Head(evq).ev = "unplug" THEN DevStateInit ELSE UNCHANGED devVars
            /\ UNCHANGED <<pivVars, operations>>

TudReturn == /\ pc = "tud" /\ signing = "no" /\ evq = <<>>
             /\ pc' = "ccid"
             /\ UNCHANGED <<devVars, btnVars, pivVars, ccidVars, operations>>

TudTask == TudMessage \/ TudApdu \/ TudSign \/ TudBus \/ TudReset \/ TudReturn

-----------------------------------------------------------------------------
CcidTask == /\ pc = "ccid"
            /\ \/ SendPending
               \/ ~(responsePending /\ ~inBusy) /\ UNCHANGED ccidVars
            /\ pc' = "button"
            /\ UNCHANGED <<devVars, btnVars, pivVars, operations>>

ButtonTask == /\ pc = "button"
              /\ \/ PollIdle /\ pc' = "tick"
                 \/ PollClear /\ UNCHANGED pc
                 \/ PollSample /\ pc' = "tick"
              /\ UNCHANGED <<pivVars, ccidVars, operations>>

TickTask == /\ pc = "tick"
            /\ DevStateTick
            /\ pc' = "tud"
            /\ UNCHANGED <<btnVars, pivVars, ccidVars, operations>>

MainLoop == TudTask \/ CcidTask \/ ButtonTask \/ TickTask

User  == (Fall \/ Rise) /\ UNCHANGED <<pivVars, ccidVars, pc, operations>>
Time  == Elapse /\ UNCHANGED <<pivVars, ccidVars, pc, operations>>
Host  == HostStep /\ UNCHANGED <<devVars, btnVars, pivVars, pc, operations>>

WardNext == MainLoop \/ User \/ Time \/ Host

WardSpec == WardInit /\ [][WardNext]_wardVars

\* The loop runs, time passes, and the host collects what it asked for.
WardFairSpec == /\ WardSpec
                /\ WF_wardVars(MainLoop)
                /\ WF_wardVars(Time)
                /\ WF_wardVars(HostRead /\ Host)

-----------------------------------------------------------------------------
WardTypeOK == /\ DevTypeOK
              /\ BtnTypeOK
              /\ pc \in {"tud", "ccid", "button", "tick"}
              /\ operations \in Nat
              /\ sampling => pc = "button"
              /\ signing # "no" => pc = "tud"

(* README.md:118, "only one crypto operation is allowed per button press", *)
(* from end to end: every operation that was started, and every permission *)
(* that is still open, is paid for by a falling edge of its own.           *)
OneEdgeOneOperation ==
  operations + One(IsAuthorized) + One(edgeSeen) + One(sampling) <= edges

(* Once the firmware has handled a disconnection nothing is left that the  *)
(* next host could use or the next press would serve: no request, no open  *)
(* permission, no operation, no powered card.  That must hold whatever was *)
(* asked, pressed or being signed when the host went away, although events *)
(* that it left in the queue are still handled (main.c:82, ccid.c:229).    *)
IdleWithoutHost ==
  link = "down" /\ ~IsQueued("unplug") => state = "IDLE" /\ ~iccPowered

(* The driver keeps its promises (CcidTransport) also when an applet that  *)
(* takes the time of a signature answers, and the clock, the host and the  *)
(* bus go on meanwhile.                                                    *)
ImplementsTransport == TransportSpec

SessionOf == IF ~iccPowered THEN "closed"
             ELSE IF pinVerified THEN "unlocked" ELSE "locked"

Policy == INSTANCE SigningPolicy WITH grant <- GrantOf, session <- SessionOf

(* The firmware keeps the signing policy whatever the host, the user and   *)
(* the bus do: PIN and press for every operation, no operation across the  *)
(* end of a session, no session that begins unlocked.                      *)
ImplementsPolicy == Policy!PolicySpec

\* tud_task() returns again and again: the host does not queue bus events
\* faster than the firmware handles them.
LoopTurns == []<>(pc # "tud")

(* However it was asked, pressed, used or left alone, the device is idle   *)
(* again in the end.                                                       *)
DeviceComesBack == LoopTurns => (state # "IDLE" ~> state = "IDLE")

(* Every request the host sends is answered in the end, also when it needs *)
(* a signature, unless the host resets the bus or goes away.               *)
HostIsAnswered == LoopTurns => (waiting # <<>> ~> waiting = <<>>)

(* device_state.h:51, "Returns true if the 10-second window is still       *)
(* open": an operation starts within the window.                           *)
WindowRespected == [][operations' > operations => deadline > 0]_wardVars
=============================================================================
