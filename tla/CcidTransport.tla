--------------------------- MODULE CcidTransport ---------------------------
(***************************************************************************)
(* The CCID driver, TinyUSB and a host, with an applet that answers at     *)
(* once.  tud_task() and ccid_task() take turns in the main loop; an event *)
(* may be queued between any two of their steps.                           *)
(***************************************************************************)
EXTENDS Ccid, FiniteSets

TudEvent == \/ XferOut
            \/ XferOutApplet("rapdu")
            \/ XferIn
            \/ Open
            \/ BusReset

TransportNext == TudEvent \/ SendPending \/ HostStep

TransportSpec == CcidInit /\ [][TransportNext]_ccidVars

\* The main loop spins for ever, and a host that asked for a response
\* collects it.
TransportFairSpec == /\ TransportSpec
                     /\ WF_ccidVars(TudEvent)
                     /\ WF_ccidVars(SendPending)
                     /\ WF_ccidVars(HostRead)

-----------------------------------------------------------------------------
Messages == [req : Requests, seq : 0..SeqModulus - 1]

ResponseTypes == {"none", "DataBlock", "SlotStatus", "Parameters", "DataRate"}

Responses == [type : ResponseTypes, seq : 0..SeqModulus - 1, failed : BOOLEAN,
              active : BOOLEAN,
              body : {"none", "atr", "rapdu", "echo", "stale", "defaults"}]

Events == [ev : {"reset", "unplug", "configure", "txdone"}]
            \cup [ev : {"rx"}, msg : Messages]

\* No body runs past the end of _tx_buf ("overrun" is no body).
CcidTypeOK == /\ iccPowered \in BOOLEAN
              /\ responsePending \in BOOLEAN
              /\ txBuf \in Responses
              /\ evq \in Seq(Events)
              /\ outArmed \in BOOLEAN
              /\ inBusy \in BOOLEAN
              /\ onWire \in Responses
              /\ link \in {"down", "reset", "configuring", "up"}
              /\ waiting \in Seq(Messages)
              /\ nextSeq \in 0..SeqModulus - 1

AnswerType(type) ==
  CASE type \in {"IccPowerOn", "XfrBlock"} -> "DataBlock"
    [] type \in {"IccPowerOff", "GetSlotStatus", "Abort", "Unknown"} -> "SlotStatus"
    [] type = "SetParameters" -> "Parameters"
    [] type = "SetDataRate" -> "DataRate"

Answers(resp, m) == resp.type = AnswerType(m.req.type) /\ resp.seq = m.seq

Sending == onWire # NoResponse

(* The response on the wire is the one to the oldest request the host is   *)
(* waiting for, by bSeq and by message type: nothing from before a bus     *)
(* reset, and nothing that was sent already, is taken for it.              *)
AnswersMatch ==
  link = "up" /\ Sending => waiting # <<>> /\ Answers(onWire, Head(waiting))

IsRequest(e) == e.ev = "rx" /\ e.msg.req.type # "Runt"

ReceivedRequests == {i \in 1..Len(evq) : IsRequest(evq[i])}

One(b) == IF b THEN 1 ELSE 0

(* While the link is up no request gets lost and none is answered twice:   *)
(* each one the host waits for is in exactly one place, the event queue,   *)
(* _tx_buf or the wire.                                                    *)
OneAnswerEach ==
  link = "up" =>
    Len(waiting) = Cardinality(ReceivedRequests) + One(responsePending) + One(Sending)

(* The driver never stops listening: on a configured link the OUT endpoint *)
(* is armed, or a message is on its way to the callback that arms it.      *)
NeverDeaf == link = "up" => outArmed \/ IsQueued("rx")

(* A DataBlock or a SlotStatus tells the host whether the card is powered  *)
(* (ccid.h:39, bStatus bits [1:0]), up to the moment the host reads it.    *)
(* The answers to SetParameters and SetDataRateAndClockFrequency say       *)
(* active whatever the card is (ccid.c:169 and 187), and are left out.     *)
Truthful(resp) == resp.active = iccPowered

StatusTruthful ==
  /\ responsePending /\ txBuf.type \in {"DataBlock", "SlotStatus"} => Truthful(txBuf)
  /\ onWire.type \in {"DataBlock", "SlotStatus"} /\ link = "up" => Truthful(onWire)

(* ccid.c:350, "if it's busy (previous transfer not done), retry next tick *)
(* - this is safe": the response that is being sent is not overwritten.    *)
BufferStable == Sending => txBuf = onWire

(* Every request is answered in the end, unless the host resets the bus or *)
(* goes away.                                                              *)
RequestsAnswered == waiting # <<>> ~> waiting = <<>>
=============================================================================
