-------------------------------- MODULE Ccid --------------------------------
(***************************************************************************)
(* src/ccid.c on top of TinyUSB, and the host at the other end.            *)
(*                                                                         *)
(* The driver:                                                             *)
(* iccPowered       _icc_powered                                           *)
(* responsePending  _response_pending                                      *)
(* txBuf            what _tx_buf holds: the last response that was built   *)
(*                                                                         *)
(* TinyUSB, as the driver uses it:                                         *)
(* evq        events the interrupt has queued for tud_task()               *)
(* outArmed   the OUT endpoint waits for a message from the host           *)
(* inBusy     the IN endpoint is claimed until its completion is handled   *)
(* onWire     the response the IN endpoint is sending, NoResponse if none  *)
(* link       down, reset (attached), configuring, up                      *)
(*                                                                         *)
(* The host:                                                               *)
(* waiting    its requests that were not answered yet, oldest first        *)
(* nextSeq    the bSeq of its next request                                 *)
(***************************************************************************)
EXTENDS Naturals, Sequences

CONSTANTS Requests,        \* what the host may send: type, len, cmd
          MaxOutstanding,  \* bound: so many requests without an answer
          SeqModulus       \* bound: bSeq counts modulo this, not 256

MessageTypes == {"IccPowerOn", "IccPowerOff", "GetSlotStatus", "XfrBlock", "Abort",
                 "SetParameters", "SetDataRate", "Unknown", "Runt"}

\* dwLength against the bytes that came: none announced, as announced, more
\* announced than came, more announced than _tx_buf holds, and so much that
\* CCID_HEADER_LEN + dwLength is small again modulo 2^32.
Lengths == {"empty", "exact", "short", "huge", "wraps"}

ASSUME CcidAssumption == /\ \A r \in Requests : r.type \in MessageTypes /\ r.len \in Lengths
                         /\ MaxOutstanding \in Nat \ {0}
                         /\ SeqModulus \in Nat \ {0}

VARIABLES iccPowered, responsePending, txBuf,
          evq, outArmed, inBusy, onWire, link,
          waiting, nextSeq

driverVars == <<iccPowered, responsePending, txBuf>>
usbVars    == <<evq, outArmed, inBusy, onWire, link>>
peerVars  == <<waiting, nextSeq>>
ccidVars   == <<driverVars, usbVars, peerVars>>

NoResponse == [type |-> "none", seq |-> 0, failed |-> FALSE, active |-> FALSE, body |-> "none"]

Event(ev) == [ev |-> ev]
IsQueued(ev) == \E i \in 1..Len(evq) : evq[i].ev = ev

CcidInit == /\ iccPowered = FALSE
            /\ responsePending = FALSE
            /\ txBuf = NoResponse
            /\ evq = <<>>
            /\ outArmed = FALSE
            /\ inBusy = FALSE
            /\ onWire = NoResponse
            /\ link = "down"
            /\ waiting = <<>>
            /\ nextSeq = 0

-----------------------------------------------------------------------------
(* The message dispatcher, _process_message() *)

\* A response is built in _tx_buf and marked as pending.
Respond(m, type, failed, active, body) ==
  /\ txBuf' = [type |-> type, seq |-> m.seq, failed |-> failed,
               active |-> active, body |-> body]
  /\ responsePending' = TRUE

SlotStatus(m, failed) == Respond(m, "SlotStatus", failed, iccPowered', "none")

HandlePowerOn(m) == /\ iccPowered' = TRUE
                    /\ Respond(m, "DataBlock", FALSE, iccPowered', "atr")

HandlePowerOff(m) == iccPowered' = FALSE /\ SlotStatus(m, FALSE)

\* The sum that is compared with msg_len is one of uint32_t.
XfrAccepted(m) ==
  m.req.type = "XfrBlock" /\ iccPowered /\ m.req.len \in {"exact", "wraps"}

(* Mutant: the status is always "active". *)
HandleXfrRefused_Active(m) == /\ ~XfrAccepted(m)
                              /\ UNCHANGED iccPowered
                              /\ Respond(m, "DataBlock", TRUE, TRUE, "none")

HandleXfrRefused(m) == /\ ~XfrAccepted(m)
                       /\ UNCHANGED iccPowered
                       /\ Respond(m, "DataBlock", TRUE, iccPowered, "none")

(* Mutant: the response is built but not marked as pending. *)
HandleXfr_NotPending(m, rapduBody) ==
  /\ XfrAccepted(m)
  /\ txBuf' = [type |-> "DataBlock", seq |-> m.seq, failed |-> FALSE,
               active |-> TRUE, body |-> rapduBody]
  /\ UNCHANGED <<iccPowered, responsePending>>

\* The applet has left its response behind the header.
HandleXfr(m, rapduBody) == /\ XfrAccepted(m)
                           /\ UNCHANGED iccPowered
                           /\ Respond(m, "DataBlock", FALSE, TRUE, rapduBody)

(* Mutant: dwLength is not checked against the buffer. *)
EchoOf_NoClamp(len) == CASE len = "empty" -> "none"
                         [] len = "exact" -> "echo"
                         [] len = "short" -> "stale"
                         [] len \in {"huge", "wraps"} -> "overrun"

\* SetParameters sends back what came, nothing if it would not fit, and
\* what _tx_buf happened to hold if less came than announced.
EchoOf(len) == CASE len \in {"empty", "huge", "wraps"} -> "none"
                 [] len = "exact" -> "echo"
                 [] len = "short" -> "stale"

HandleSetParameters(m) == /\ UNCHANGED iccPowered
                          /\ Respond(m, "Parameters", FALSE, TRUE, EchoOf(m.req.len))

\* The eight bytes are echoed if so many were announced and did come.
HandleSetDataRate(m) ==
  /\ UNCHANGED iccPowered
  /\ \E body \in {"echo", "defaults"} :
        /\ m.req.len = "empty" => body = "defaults"
        /\ Respond(m, "DataRate", FALSE, TRUE, body)

(* Mutant: a message nobody knows is not answered. *)
HandleUnknown_Silent(m) == UNCHANGED driverVars

HandleUnknown(m) == UNCHANGED iccPowered /\ SlotStatus(m, TRUE)

\* Every message but an XfrBlock that reaches the applet.
ProcessMessage(m) ==
  \/ m.req.type = "IccPowerOn" /\ HandlePowerOn(m)
  \/ m.req.type = "IccPowerOff" /\ HandlePowerOff(m)
  \/ m.req.type \in {"GetSlotStatus", "Abort"} /\ UNCHANGED iccPowered /\ SlotStatus(m, FALSE)
  \/ m.req.type = "XfrBlock" /\ HandleXfrRefused(m)
  \/ m.req.type = "SetParameters" /\ HandleSetParameters(m)
  \/ m.req.type = "SetDataRate" /\ HandleSetDataRate(m)
  \/ m.req.type = "Unknown" /\ HandleUnknown(m)
  \/ m.req.type = "Runt" /\ UNCHANGED driverVars

-----------------------------------------------------------------------------
(* The driver's callbacks, called from tud_task() *)

Dequeue(ev) == evq # <<>> /\ Head(evq).ev = ev /\ evq' = Tail(evq)

\* _ccid_xfer_cb() for the OUT endpoint: the message, then the endpoint again.
ReArm == /\ outArmed' = TRUE
         /\ UNCHANGED <<inBusy, onWire, link, peerVars>>

(* Mutant: a message that is too short does not re-arm the endpoint. *)
XferOut_RuntDeaf == /\ Dequeue("rx")
                    /\ ProcessMessage(Head(evq).msg)
                    /\ outArmed' = (Head(evq).msg.req.type # "Runt")
                    /\ UNCHANGED <<inBusy, onWire, link, peerVars>>

XferOut == Dequeue("rx") /\ ProcessMessage(Head(evq).msg) /\ ReArm

XferOutApplet(rapduBody) == /\ Dequeue("rx")
                            /\ HandleXfr(Head(evq).msg, rapduBody)
                            /\ ReArm

\* The completion of a response: TinyUSB frees the endpoint, the driver
\* has nothing to do.
XferIn == /\ Dequeue("txdone")
          /\ inBusy' = FALSE
          /\ UNCHANGED <<driverVars, outArmed, onWire, link, peerVars>>

\* _ccid_open() on SET_CONFIGURATION.
Open == /\ Dequeue("configure")
        /\ outArmed' = TRUE
        /\ link' = IF link = "configuring" THEN "up" ELSE link
        /\ UNCHANGED <<driverVars, inBusy, onWire, peerVars>>

EndpointsClosed == /\ outArmed' = FALSE
                   /\ inBusy' = FALSE
                   /\ onWire' = NoResponse

(* Mutant: a response that was pending survives the reset. *)
DriverReset_KeepsPending == /\ iccPowered' = FALSE
                            /\ UNCHANGED <<responsePending, txBuf>>

\* _ccid_reset()
DriverReset == /\ iccPowered' = FALSE
               /\ responsePending' = FALSE
               /\ UNCHANGED txBuf

BusReset == /\ Dequeue("reset") \/ Dequeue("unplug")
            /\ DriverReset
            /\ EndpointsClosed
            /\ UNCHANGED <<link, peerVars>>

(* Mutant: the flag is not cleared, the response goes out twice. *)
SendPending_Keeps == /\ responsePending /\ ~inBusy
                     /\ inBusy' = TRUE
                     /\ onWire' = txBuf
                     /\ UNCHANGED <<driverVars, evq, outArmed, link, peerVars>>

\* ccid_task(), when it finds a response and the endpoint free.
SendPending == /\ responsePending /\ ~inBusy
               /\ responsePending' = FALSE
               /\ inBusy' = TRUE
               /\ onWire' = txBuf
               /\ UNCHANGED <<iccPowered, txBuf, evq, outArmed, link, peerVars>>

-----------------------------------------------------------------------------
(* The host and the bus *)

Queue(e) == evq' = Append(evq, e)

HostAttach == /\ link = "down"
              /\ ~IsQueued("reset") /\ ~IsQueued("unplug")
              /\ link' = "reset"
              /\ UNCHANGED <<driverVars, evq, outArmed, inBusy, onWire, peerVars>>

HostConfigure == /\ link = "reset"
                 /\ ~IsQueued("reset")
                 /\ link' = "configuring"
                 /\ Queue(Event("configure"))
                 /\ UNCHANGED <<driverVars, outArmed, inBusy, onWire, peerVars>>

\* A bus reset or a disconnection: the hardware stops at once, the
\* firmware learns of it from the queue.
LinkLost(ev, newLink) == /\ link # "down"
                         /\ ~IsQueued(ev)
                         /\ link' = newLink
                         /\ Queue(Event(ev))
                         /\ outArmed' = FALSE
                         /\ onWire' = NoResponse
                         /\ waiting' = <<>>
                         /\ UNCHANGED <<driverVars, inBusy, nextSeq>>

HostReset  == LinkLost("reset", "reset")
HostUnplug == LinkLost("unplug", "down")

\* One request at a time (bMaxCCIDBusySlots), but an Abort may come while
\* the host waits.  A runt is no request; nothing is expected for it.
HostSend(r) == /\ link = "up" /\ outArmed
               /\ Len(waiting) < MaxOutstanding
               /\ waiting = <<>> \/ r.type = "Abort"
               /\ LET m == [req |-> r, seq |-> nextSeq]
                  IN  /\ Queue([ev |-> "rx", msg |-> m])
                      /\ waiting' = IF r.type = "Runt" THEN waiting ELSE Append(waiting, m)
               /\ nextSeq' = (nextSeq + 1) % SeqModulus
               /\ outArmed' = FALSE
               /\ UNCHANGED <<driverVars, inBusy, onWire, link>>

HostRead == /\ link = "up" /\ onWire # NoResponse
            /\ onWire' = NoResponse
            /\ Queue(Event("txdone"))
            /\ waiting' = IF waiting = <<>> THEN waiting ELSE Tail(waiting)
            /\ UNCHANGED <<driverVars, outArmed, inBusy, link, nextSeq>>

HostStep == \/ HostAttach \/ HostConfigure \/ HostReset \/ HostUnplug
            \/ \E r \in Requests : HostSend(r)
            \/ HostRead
=============================================================================
