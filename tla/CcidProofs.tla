----------------------------- MODULE CcidProofs -----------------------------
(***************************************************************************)
(* The CCID driver, for every set of requests: types and NeverDeaf for     *)
(* every number of them, the rest for a host that sends one at a time, as  *)
(* bMaxCCIDBusySlots (usb_descriptors.c:110) asks.                         *)
(***************************************************************************)
EXTENDS CcidTransport, FiniteSetTheorems, SequenceTheorems, TLAPS

Lost == {"reset", "unplug"}

(* A configured link has no reset ahead of it in the queue, and one that   *)
(* is attached no disconnection: the host goes on only after the firmware  *)
(* has handled those.                                                      *)
LinkKnown == /\ link # "down" => ~IsQueued("unplug")
             /\ link \in {"configuring", "up"} => ~IsQueued("reset")

(* The part of the invariant that holds for every number of requests. *)
CcidInv == CcidTypeOK /\ LinkKnown /\ NeverDeaf

-----------------------------------------------------------------------------
(* Nothing the host sent comes after the loss of its link in the queue. *)
LostLast == \A i, j \in 1..Len(evq) :
              i < j /\ evq[i].ev \in Lost => evq[j].ev # "rx"

(* When the firmware has handled the loss of the link, and until the link  *)
(* is up again, nothing is left of what the host had asked.                *)
Forgotten == link # "up" /\ ~IsQueued("reset") /\ ~IsQueued("unplug") =>
               ~IsQueued("rx") /\ ~responsePending /\ onWire = NoResponse

(* Where the one request of a configured link is. *)
NoRequest == ReceivedRequests = {}
OnlyRequest(m) == \E i \in 1..Len(evq) : ReceivedRequests = {i} /\ evq[i].msg = m

Idle        == waiting = <<>> /\ NoRequest /\ ~responsePending /\ onWire = NoResponse
Received(m) == OnlyRequest(m) /\ ~responsePending /\ onWire = NoResponse
Built(m)    == NoRequest /\ responsePending /\ Answers(txBuf, m) /\ onWire = NoResponse
Sent(m)     == NoRequest /\ ~responsePending /\ Answers(onWire, m)

OneRequest == link = "up" =>
  \/ Idle
  \/ \E m \in Messages : /\ waiting = <<m>>
                         /\ m.req.type # "Runt"
                         /\ Received(m) \/ Built(m) \/ Sent(m)

AnswerInv == /\ CcidInv /\ LostLast /\ Forgotten
             /\ link # "up" => waiting = <<>>
             /\ OneRequest /\ StatusTruthful

-----------------------------------------------------------------------------
(* The event queue *)

LEMMA Dequeued ==
  ASSUME evq \in Seq(Events), NEW ev, Dequeue(ev)
  PROVE  /\ evq' \in Seq(Events)
         /\ Len(evq) \in Nat /\ Len(evq) > 0
         /\ Len(evq') \in Nat /\ Len(evq') = Len(evq) - 1
         /\ Head(evq) = evq[1] /\ evq[1] \in Events /\ evq[1].ev = ev
         /\ \A i \in 1..Len(evq') : i + 1 \in 1..Len(evq) /\ evq'[i] = evq[i + 1]
<1>1. evq # <<>> /\ evq' = Tail(evq) /\ Head(evq).ev = ev
  BY DEF Dequeue
<1>2. QED
  BY <1>1

LEMMA Queued ==
  ASSUME evq \in Seq(Events), NEW e \in Events, Queue(e)
  PROVE  /\ evq' \in Seq(Events)
         /\ Len(evq) \in Nat /\ Len(evq') = Len(evq) + 1
         /\ evq'[Len(evq')] = e
         /\ \A i \in 1..Len(evq) : i \in 1..Len(evq') /\ evq'[i] = evq[i]
BY DEF Queue

LEMMA AnEvent == \A ev \in {"reset", "unplug", "configure", "txdone"} :
                   Event(ev) \in Events /\ Event(ev).ev = ev
BY DEF Event, Events

LEMMA AMessage == \A e \in Events : e.ev = "rx" => e.msg \in Messages
BY DEF Events

(* What is queued after an event was taken, or put, was or was not queued before. *)
LEMMA QueuedAfterDequeue ==
  ASSUME evq \in Seq(Events), NEW ev, Dequeue(ev)
  PROVE  /\ \A x : IsQueued(x)' => IsQueued(x)
         /\ \A x : x # ev /\ IsQueued(x) => IsQueued(x)'
         /\ IsQueued(ev)
<1>1. \A x : IsQueued(x)' => IsQueued(x)
  BY Dequeued DEF IsQueued
<1>2. ASSUME NEW x, x # ev, IsQueued(x) PROVE IsQueued(x)'
  <2>1. PICK i \in 1..Len(evq) : evq[i].ev = x
    BY <1>2 DEF IsQueued
  <2>2. i # 1 /\ i - 1 \in 1..Len(evq')
    BY <1>2, <2>1, Dequeued
  <2>3. evq'[i - 1] = evq[i]
    BY <2>2, Dequeued
  <2>4. QED
    BY <2>1, <2>2, <2>3 DEF IsQueued
<1>3. IsQueued(ev)
  BY Dequeued DEF IsQueued
<1>4. QED
  BY <1>1, <1>2, <1>3

LEMMA QueuedAfterQueue ==
  ASSUME evq \in Seq(Events), NEW e \in Events, Queue(e)
  PROVE  \A x : IsQueued(x)' <=> IsQueued(x) \/ e.ev = x
<1>1. ASSUME NEW x, IsQueued(x)' PROVE IsQueued(x) \/ e.ev = x
  <2>1. PICK i \in 1..Len(evq') : evq'[i].ev = x
    BY <1>1 DEF IsQueued
  <2>2. i = Len(evq') \/ i \in 1..Len(evq)
    BY Queued
  <2>3. QED
    BY <2>1, <2>2, Queued DEF IsQueued
<1>2. ASSUME NEW x, IsQueued(x) PROVE IsQueued(x)'
  BY <1>2, Queued DEF IsQueued
<1>3. ASSUME NEW x, e.ev = x PROVE IsQueued(x)'
  <2>1. Len(evq') \in 1..Len(evq')
    BY Queued
  <2>2. QED
    BY <1>3, <2>1, Queued DEF IsQueued
<1>4. QED
  BY <1>1, <1>2, <1>3

LEMMA NothingReceived == ~IsQueued("rx") => NoRequest
BY DEF IsQueued, NoRequest, ReceivedRequests, IsRequest

LEMMA RequestsAfterDequeue ==
  ASSUME evq \in Seq(Events), NEW ev, Dequeue(ev)
  PROVE  /\ NoRequest => NoRequest'
         /\ \A m : OnlyRequest(m) /\ ~IsRequest(evq[1]) => OnlyRequest(m)'
         /\ \A m : OnlyRequest(m) /\ IsRequest(evq[1]) => evq[1].msg = m /\ NoRequest'
<1>1. \A i \in 1..Len(evq') : IsRequest(evq[i + 1]) <=> IsRequest(evq'[i])
  BY Dequeued DEF IsRequest
<1>2. ReceivedRequests' = {i \in 1..Len(evq') : IsRequest(evq[i + 1])}
  BY <1>1 DEF ReceivedRequests, IsRequest
<1>3. NoRequest => NoRequest'
  <2>1. SUFFICES ASSUME NoRequest PROVE ReceivedRequests' = {}
    BY DEF NoRequest
  <2>2. \A i \in 1..Len(evq') : ~IsRequest(evq[i + 1])
    BY <2>1, Dequeued DEF NoRequest, ReceivedRequests
  <2>3. QED
    BY <1>2, <2>2
<1>4. ASSUME NEW m, OnlyRequest(m), ~IsRequest(evq[1]) PROVE OnlyRequest(m)'
  <2>1. PICK i \in 1..Len(evq) : ReceivedRequests = {i} /\ evq[i].msg = m
    BY <1>4 DEF OnlyRequest
  <2>2. IsRequest(evq[i]) /\ i # 1
    BY <1>4, <2>1 DEF ReceivedRequests
  <2>3. i - 1 \in 1..Len(evq') /\ evq'[i - 1] = evq[i]
    BY <2>2, Dequeued
  <2>4. \A k \in 1..Len(evq') : IsRequest(evq[k + 1]) <=> k = i - 1
    <3>1. \A k \in 1..Len(evq') : k + 1 \in 1..Len(evq) /\ k \in Int
      BY Dequeued
    <3>2. \A k \in 1..Len(evq) : IsRequest(evq[k]) <=> k = i
      BY <2>1, <2>2 DEF ReceivedRequests
    <3>3. \A k \in 1..Len(evq') : IsRequest(evq[k + 1]) <=> k + 1 = i
      BY <3>1, <3>2
    <3>4. QED
      BY <3>1, <3>3
  <2>5. ReceivedRequests' = {i - 1}
    BY <1>2, <2>3, <2>4
  <2>6. QED
    BY <2>1, <2>3, <2>5 DEF OnlyRequest
<1>5. ASSUME NEW m, OnlyRequest(m), IsRequest(evq[1]) PROVE evq[1].msg = m /\ NoRequest'
  <2>1. PICK i \in 1..Len(evq) : ReceivedRequests = {i} /\ evq[i].msg = m
    BY <1>5 DEF OnlyRequest
  <2>2. i = 1
    <3>1. 1 \in 1..Len(evq)
      BY Dequeued
    <3>2. 1 \in ReceivedRequests
      BY <1>5, <3>1 DEF ReceivedRequests
    <3>3. QED
      BY <2>1, <3>2
  <2>3. \A k \in 1..Len(evq') : ~IsRequest(evq[k + 1])
    <3>1. \A k \in 1..Len(evq') : k + 1 \in 1..Len(evq) /\ k + 1 # 1
      BY Dequeued
    <3>2. \A k \in 1..Len(evq) : IsRequest(evq[k]) => k = 1
      BY <2>1, <2>2 DEF ReceivedRequests
    <3>3. QED
      BY <3>1, <3>2
  <2>4. ReceivedRequests' = {}
    BY <1>2, <2>3
  <2>5. QED
    BY <2>1, <2>2, <2>4 DEF NoRequest
<1>6. QED
  BY <1>3, <1>4, <1>5

LEMMA RequestsAfterQueue ==
  ASSUME evq \in Seq(Events), NEW e \in Events, Queue(e)
  PROVE  /\ NoRequest /\ ~IsRequest(e) => NoRequest'
         /\ \A m : OnlyRequest(m) /\ ~IsRequest(e) => OnlyRequest(m)'
         /\ NoRequest /\ IsRequest(e) => OnlyRequest(e.msg)'
<1> DEFINE last == Len(evq')
<1>1. last \in 1..last /\ evq'[last] = e /\ last \notin 1..Len(evq)
  BY Queued
<1>2. \A i \in 1..last : i = last \/ i \in 1..Len(evq)
  BY Queued
<1>3. ReceivedRequests' = {i \in 1..last : IsRequest(evq'[i])}
  BY DEF ReceivedRequests, IsRequest
<1>4. ~IsRequest(e) => ReceivedRequests' = ReceivedRequests
  BY <1>1, <1>2, <1>3, Queued DEF ReceivedRequests
<1>5. NoRequest /\ IsRequest(e) => ReceivedRequests' = {last}
  BY <1>1, <1>2, <1>3, Queued DEF ReceivedRequests, NoRequest
<1>6. ASSUME NEW m, OnlyRequest(m), ~IsRequest(e) PROVE OnlyRequest(m)'
  BY <1>4, <1>6, Queued DEF OnlyRequest
<1>7. NoRequest /\ IsRequest(e) => OnlyRequest(e.msg)'
  BY <1>1, <1>5 DEF OnlyRequest
<1>8. QED
  BY <1>4, <1>6, <1>7 DEF NoRequest

LEMMA LostLastAfterDequeue ==
  ASSUME evq \in Seq(Events), NEW ev, Dequeue(ev), LostLast
  PROVE  LostLast' /\ (ev \in Lost => ~IsQueued("rx")')
<1>1. LostLast'
  <2> SUFFICES ASSUME NEW i \in 1..Len(evq'), NEW j \in 1..Len(evq'),
                      i < j, evq'[i].ev \in Lost
               PROVE  evq'[j].ev # "rx"
    BY DEF LostLast
  <2>1. /\ i + 1 \in 1..Len(evq) /\ evq'[i] = evq[i + 1]
        /\ j + 1 \in 1..Len(evq) /\ evq'[j] = evq[j + 1]
        /\ i + 1 < j + 1
    BY Dequeued
  <2>2. QED
    BY <2>1 DEF LostLast
<1>2. ASSUME ev \in Lost, NEW j \in 1..Len(evq') PROVE evq'[j].ev # "rx"
  <2>1. 1 \in 1..Len(evq) /\ j + 1 \in 1..Len(evq) /\ evq'[j] = evq[j + 1] /\ 1 < j + 1
    BY Dequeued
  <2>2. QED
    BY <1>2, <2>1, Dequeued DEF LostLast
<1>3. QED
  BY <1>1, <1>2 DEF IsQueued

LEMMA LostLastAfterQueue ==
  ASSUME evq \in Seq(Events), NEW e \in Events, Queue(e), LostLast,
         e.ev # "rx" \/ (~IsQueued("reset") /\ ~IsQueued("unplug"))
  PROVE  LostLast'
<1> SUFFICES ASSUME NEW i \in 1..Len(evq'), NEW j \in 1..Len(evq'),
                    i < j, evq'[i].ev \in Lost
             PROVE  evq'[j].ev # "rx"
  BY DEF LostLast
<1>1. i \in 1..Len(evq) /\ evq'[i] = evq[i]
  BY Queued
<1>2. CASE j \in 1..Len(evq)
  BY <1>1, <1>2, Queued DEF LostLast
<1>3. CASE j = Len(evq')
  BY <1>1, <1>3, Queued DEF IsQueued, Lost
<1>4. QED
  BY <1>2, <1>3, Queued

-----------------------------------------------------------------------------
(* The dispatcher *)

LEMMA NoResponseTyped == NoResponse \in Responses /\ NoResponse.type = "none"
BY CcidAssumption DEF NoResponse, Responses, ResponseTypes

LEMMA RespondTyped ==
  ASSUME NEW m \in Messages, NEW type \in ResponseTypes, NEW failed \in BOOLEAN,
         NEW active \in BOOLEAN,
         NEW body \in {"none", "atr", "rapdu", "echo", "stale", "defaults"},
         Respond(m, type, failed, active, body)
  PROVE  /\ txBuf' \in Responses /\ responsePending' = TRUE
         /\ txBuf'.type = type /\ txBuf'.seq = m.seq /\ txBuf'.active = active
BY DEF Respond, Responses, Messages

HasStatus(resp) == resp.type \in {"DataBlock", "SlotStatus"}

LEMMA MessageHandled ==
  ASSUME iccPowered \in BOOLEAN, responsePending \in BOOLEAN, txBuf \in Responses,
         NEW m \in Messages, ProcessMessage(m) \/ HandleXfr(m, "rapdu")
  PROVE  /\ iccPowered' \in BOOLEAN /\ responsePending' \in BOOLEAN /\ txBuf' \in Responses
         /\ m.req.type = "Runt" => UNCHANGED driverVars
         /\ m.req.type # "Runt" => /\ responsePending' /\ Answers(txBuf', m)
                                   /\ HasStatus(txBuf') => txBuf'.active = iccPowered'
<1>1. CASE m.req.type = "IccPowerOn" /\ HandlePowerOn(m)
  BY <1>1, RespondTyped DEF HandlePowerOn, Answers, AnswerType, ResponseTypes
<1>2. CASE m.req.type = "IccPowerOff" /\ HandlePowerOff(m)
  BY <1>2, RespondTyped DEF HandlePowerOff, SlotStatus, Answers, AnswerType, ResponseTypes
<1>3. CASE m.req.type \in {"GetSlotStatus", "Abort"} /\ UNCHANGED iccPowered
           /\ SlotStatus(m, FALSE)
  BY <1>3, RespondTyped DEF SlotStatus, Answers, AnswerType, ResponseTypes
<1>4. CASE m.req.type = "XfrBlock" /\ HandleXfrRefused(m)
  BY <1>4, RespondTyped DEF HandleXfrRefused, Answers, AnswerType, ResponseTypes
<1>5. CASE m.req.type = "SetParameters" /\ HandleSetParameters(m)
  <2>1. EchoOf(m.req.len) \in {"none", "atr", "rapdu", "echo", "stale", "defaults"}
    BY CcidAssumption DEF EchoOf, Messages, Lengths
  <2>2. QED
    BY <1>5, <2>1, RespondTyped
       DEF HandleSetParameters, Answers, AnswerType, ResponseTypes, HasStatus
<1>6. CASE m.req.type = "SetDataRate" /\ HandleSetDataRate(m)
  BY <1>6, RespondTyped DEF HandleSetDataRate, Answers, AnswerType, ResponseTypes, HasStatus
<1>7. CASE m.req.type = "Unknown" /\ HandleUnknown(m)
  BY <1>7, RespondTyped DEF HandleUnknown, SlotStatus, Answers, AnswerType, ResponseTypes
<1>8. CASE m.req.type = "Runt" /\ UNCHANGED driverVars
  BY <1>8 DEF driverVars
<1>9. CASE HandleXfr(m, "rapdu")
  BY <1>9, RespondTyped DEF HandleXfr, XfrAccepted, Answers, AnswerType, ResponseTypes
<1>10. QED
  BY <1>1, <1>2, <1>3, <1>4, <1>5, <1>6, <1>7, <1>8, <1>9 DEF ProcessMessage

-----------------------------------------------------------------------------
(* Types, what is known of the link, and the endpoint that is armed *)

LEMMA CcidInit_Inv == CcidInit => CcidInv
<1> SUFFICES ASSUME CcidInit PROVE CcidInv
  OBVIOUS
<1>1. evq = <<>> /\ <<>> \in Seq(Events) /\ waiting = <<>> /\ <<>> \in Seq(Messages)
  BY DEF CcidInit
<1>2. 0 \in 0..SeqModulus - 1
  BY CcidAssumption
<1>3. CcidTypeOK
  BY <1>1, <1>2, NoResponseTyped, Zenon DEF CcidInit, CcidTypeOK
<1>4. QED
  BY <1>1, <1>3 DEF CcidInit, CcidInv, LinkKnown, NeverDeaf, IsQueued

LEMMA MessageStep ==
  ASSUME CcidInv, XferOut \/ XferOutApplet("rapdu")
  PROVE  /\ CcidInv' /\ Dequeue("rx") /\ evq[1].msg \in Messages
         /\ ProcessMessage(evq[1].msg) \/ HandleXfr(evq[1].msg, "rapdu")
         /\ UNCHANGED <<inBusy, onWire, link, peerVars>>
<1>1. /\ Dequeue("rx") /\ outArmed' = TRUE /\ UNCHANGED <<inBusy, onWire, link, peerVars>>
      /\ ProcessMessage(Head(evq).msg) \/ HandleXfr(Head(evq).msg, "rapdu")
  BY DEF XferOut, XferOutApplet, ReArm
<1>2. evq \in Seq(Events)
  BY DEF CcidInv, CcidTypeOK
<1>3. Head(evq) = evq[1] /\ evq[1].msg \in Messages
  BY <1>1, <1>2, Dequeued, AMessage
<1>4. CcidTypeOK'
  BY <1>1, <1>2, <1>3, Dequeued, MessageHandled DEF CcidInv, CcidTypeOK, peerVars
<1>5. LinkKnown' /\ NeverDeaf'
  BY <1>1, <1>2, QueuedAfterDequeue DEF CcidInv, LinkKnown, NeverDeaf
<1>6. QED
  BY <1>1, <1>3, <1>4, <1>5 DEF CcidInv

LEMMA LinkLostStep ==
  ASSUME CcidInv, NEW ev \in Lost, NEW newLink,
         newLink = IF ev = "reset" THEN "reset" ELSE "down",
         LinkLost(ev, newLink)
  PROVE  CcidInv' /\ Queue(Event(ev)) /\ Event(ev) \in Events /\ Event(ev).ev = ev
<1>1. /\ evq \in Seq(Events) /\ link # "down"
      /\ Queue(Event(ev)) /\ Event(ev) \in Events /\ Event(ev).ev = ev
      /\ (ev = "reset" /\ newLink = "reset") \/ (ev = "unplug" /\ newLink = "down")
  BY AnEvent DEF CcidInv, CcidTypeOK, LinkLost, Lost
<1>2. /\ link' = newLink /\ outArmed' = FALSE /\ onWire' = NoResponse /\ waiting' = <<>>
      /\ UNCHANGED <<driverVars, inBusy, nextSeq>> /\ <<>> \in Seq(Messages)
  BY DEF LinkLost
<1>3. CcidTypeOK'
  BY <1>1, <1>2, NoResponseTyped, Queued DEF CcidInv, CcidTypeOK, driverVars
<1>4. LinkKnown' /\ NeverDeaf'
  BY <1>1, <1>2, QueuedAfterQueue DEF CcidInv, LinkKnown, NeverDeaf
<1>5. QED
  BY <1>1, <1>3, <1>4 DEF CcidInv

LEMMA SendStep ==
  ASSUME CcidInv, NEW r \in Requests, HostSend(r)
  PROVE  LET m == [req |-> r, seq |-> nextSeq]
             e == [ev |-> "rx", msg |-> m]
         IN  /\ CcidInv' /\ Queue(e) /\ e \in Events /\ m \in Messages
             /\ link = "up"
             /\ Len(waiting) < MaxOutstanding
             /\ waiting' = IF r.type = "Runt" THEN waiting ELSE Append(waiting, m)
             /\ UNCHANGED <<driverVars, onWire, link>>
<1> DEFINE m == [req |-> r, seq |-> nextSeq]
           e == [ev |-> "rx", msg |-> m]
<1>1. /\ Queue(e) /\ link = "up" /\ Len(waiting) < MaxOutstanding
      /\ waiting' = IF r.type = "Runt" THEN waiting ELSE Append(waiting, m)
      /\ nextSeq' = (nextSeq + 1) % SeqModulus /\ outArmed' = FALSE
      /\ UNCHANGED <<driverVars, inBusy, onWire, link>>
  BY DEF HostSend
<1>2. m \in Messages /\ e \in Events /\ e.ev = "rx" /\ evq \in Seq(Events)
  BY DEF CcidInv, CcidTypeOK, Messages, Events
<1>3. nextSeq' \in 0..SeqModulus - 1
  BY <1>1, CcidAssumption DEF CcidInv, CcidTypeOK
<1>4. CcidTypeOK'
  <2> HIDE DEF m, e
  <2>1. waiting' \in Seq(Messages)
    BY <1>1, <1>2 DEF CcidInv, CcidTypeOK
  <2>2. QED
    BY <1>1, <1>2, <1>3, <2>1, Queued DEF CcidInv, CcidTypeOK, driverVars
<1>5. LinkKnown' /\ NeverDeaf'
  <2> HIDE DEF m, e
  <2>1. QED
    BY <1>1, <1>2, QueuedAfterQueue DEF CcidInv, LinkKnown, NeverDeaf
<1>6. QED
  BY <1>1, <1>2, <1>4, <1>5 DEF CcidInv

LEMMA ReadStep ==
  ASSUME CcidInv, HostRead
  PROVE  /\ CcidInv' /\ Queue(Event("txdone")) /\ Event("txdone") \in Events
         /\ Event("txdone").ev = "txdone"
<1>1. /\ evq \in Seq(Events) /\ Queue(Event("txdone")) /\ Event("txdone") \in Events
      /\ Event("txdone").ev = "txdone" /\ onWire' = NoResponse
      /\ UNCHANGED <<driverVars, outArmed, inBusy, link, nextSeq>>
  BY AnEvent DEF CcidInv, CcidTypeOK, HostRead
<1>2. waiting' \in Seq(Messages)
  BY DEF CcidInv, CcidTypeOK, HostRead
<1>3. CcidTypeOK'
  BY <1>1, <1>2, NoResponseTyped, Queued DEF CcidInv, CcidTypeOK, driverVars
<1>4. LinkKnown' /\ NeverDeaf'
  BY <1>1, QueuedAfterQueue DEF CcidInv, LinkKnown, NeverDeaf
<1>5. QED
  BY <1>1, <1>3, <1>4 DEF CcidInv

LEMMA CcidStep == CcidInv /\ [TransportNext]_ccidVars => CcidInv'
<1> SUFFICES ASSUME CcidInv, [TransportNext]_ccidVars PROVE CcidInv'
  OBVIOUS
<1>1. CASE XferOut \/ XferOutApplet("rapdu")
  BY <1>1, MessageStep
<1>2. CASE XferIn
  <2>1. CcidTypeOK'
    BY <1>2, Dequeued DEF CcidInv, CcidTypeOK, XferIn, driverVars, peerVars
  <2>2. LinkKnown' /\ NeverDeaf'
    BY <1>2, QueuedAfterDequeue DEF CcidInv, CcidTypeOK, XferIn, LinkKnown, NeverDeaf
  <2>3. QED
    BY <2>1, <2>2 DEF CcidInv
<1>3. CASE Open
  BY <1>3, Dequeued, QueuedAfterDequeue
     DEF CcidInv, CcidTypeOK, Open, driverVars, peerVars, LinkKnown, NeverDeaf
<1>4. CASE BusReset
  <2>1. PICK ev \in Lost : Dequeue(ev)
    BY <1>4 DEF BusReset, Lost
  <2>2. link # "up"
    BY <2>1, QueuedAfterDequeue DEF CcidInv, CcidTypeOK, LinkKnown, Lost
  <2>3. QED
    BY <1>4, <2>1, <2>2, Dequeued, QueuedAfterDequeue, NoResponseTyped
       DEF CcidInv, CcidTypeOK, BusReset, DriverReset, EndpointsClosed, peerVars,
           LinkKnown, NeverDeaf
<1>5. CASE SendPending
  BY <1>5 DEF CcidInv, CcidTypeOK, SendPending, peerVars, LinkKnown, NeverDeaf, IsQueued
<1>6. CASE HostAttach
  BY <1>6 DEF CcidInv, CcidTypeOK, HostAttach, driverVars, peerVars, LinkKnown, NeverDeaf, IsQueued
<1>7. CASE HostConfigure
  <2>1. Queue(Event("configure")) /\ Event("configure") \in Events
        /\ Event("configure").ev = "configure"
    BY <1>7, AnEvent DEF HostConfigure
  <2>2. QED
    BY <1>7, <2>1, Queued, QueuedAfterQueue
       DEF CcidInv, CcidTypeOK, HostConfigure, driverVars, peerVars, LinkKnown, NeverDeaf
<1>8. CASE HostReset
  <2>1. LinkLost("reset", "reset") /\ "reset" \in Lost
    BY <1>8 DEF HostReset, Lost
  <2>2. QED
    BY <2>1, LinkLostStep
<1>9. CASE HostUnplug
  <2>1. LinkLost("unplug", "down") /\ "unplug" \in Lost
    BY <1>9 DEF HostUnplug, Lost
  <2>2. QED
    BY <2>1, LinkLostStep
<1>10. CASE \E r \in Requests : HostSend(r)
  BY <1>10, SendStep
<1>11. CASE HostRead
  BY <1>11, ReadStep
<1>12. CASE UNCHANGED ccidVars
  BY <1>12 DEF CcidInv, CcidTypeOK, ccidVars, driverVars, usbVars, peerVars,
              LinkKnown, NeverDeaf, IsQueued
<1>13. QED
  BY <1>1, <1>2, <1>3, <1>4, <1>5, <1>6, <1>7, <1>8, <1>9, <1>10, <1>11, <1>12
     DEF TransportNext, TudEvent, HostStep

-----------------------------------------------------------------------------
(* One request at a time *)

LEMMA AnswerInit_Inv == CcidInit => AnswerInv
<1> SUFFICES ASSUME CcidInit PROVE AnswerInv
  OBVIOUS
<1>1. CcidInv
  BY CcidInit_Inv
<1>2. LostLast /\ Forgotten
  BY DEF CcidInit, LostLast, Forgotten, IsQueued
<1>3. QED
  BY <1>1, <1>2, NoResponseTyped DEF CcidInit, AnswerInv, OneRequest, StatusTruthful

LEMMA NotSending == onWire = NoResponse => ~Sending /\ ~HasStatus(onWire)
BY NoResponseTyped DEF Sending, HasStatus

LEMMA MessageAnswer ==
  ASSUME AnswerInv, XferOut \/ XferOutApplet("rapdu")
  PROVE  AnswerInv'
<1> DEFINE msg == evq[1].msg
<1>1. /\ CcidInv' /\ Dequeue("rx") /\ msg \in Messages
      /\ ProcessMessage(msg) \/ HandleXfr(msg, "rapdu")
      /\ UNCHANGED <<inBusy, onWire, link, waiting>> /\ evq \in Seq(Events)
  BY MessageStep DEF AnswerInv, CcidInv, CcidTypeOK, peerVars
<1>2. /\ msg.req.type = "Runt" => UNCHANGED <<iccPowered, responsePending, txBuf>>
      /\ msg.req.type # "Runt" => /\ responsePending' /\ Answers(txBuf', msg)
                                  /\ HasStatus(txBuf') => txBuf'.active = iccPowered'
  BY <1>1, MessageHandled DEF AnswerInv, CcidInv, CcidTypeOK, driverVars
<1>3. LostLast' /\ Forgotten'
  BY <1>1, LostLastAfterDequeue, QueuedAfterDequeue DEF AnswerInv, Forgotten
<1>4. IsRequest(evq[1]) <=> msg.req.type # "Runt"
  BY <1>1, Dequeued DEF IsRequest
<1> HIDE DEF msg
<1>5. CASE msg.req.type = "Runt"
  <2>1. OneRequest'
    BY <1>1, <1>2, <1>4, <1>5, RequestsAfterDequeue
       DEF AnswerInv, OneRequest, Idle, Received, Built, Sent, Answers
  <2>2. StatusTruthful'
    BY <1>1, <1>2, <1>5 DEF AnswerInv, StatusTruthful, Truthful
  <2>3. QED
    BY <1>1, <1>3, <2>1, <2>2 DEF AnswerInv
<1>6. CASE msg.req.type # "Runt"
  <2>1. ~NoRequest
    BY <1>1, <1>4, <1>6, Dequeued DEF NoRequest, ReceivedRequests
  <2>2. ASSUME link = "up"
        PROVE  waiting = <<msg>> /\ NoRequest' /\ onWire = NoResponse
    BY <1>1, <1>4, <1>6, <2>1, <2>2, RequestsAfterDequeue
       DEF AnswerInv, OneRequest, Idle, Received, Built, Sent, msg
  <2>3. OneRequest'
    BY <1>1, <1>2, <1>6, <2>2 DEF OneRequest, Built, Answers
  <2>4. StatusTruthful'
    BY <1>1, <1>2, <1>6, <2>2, NotSending DEF StatusTruthful, Truthful, HasStatus
  <2>5. QED
    BY <1>1, <1>3, <2>3, <2>4 DEF AnswerInv
<1>7. QED
  BY <1>5, <1>6

LEMMA XferInAnswer ==
  ASSUME AnswerInv, XferIn
  PROVE  AnswerInv'
<1>1. /\ evq \in Seq(Events) /\ Dequeue("txdone") /\ CcidInv'
      /\ UNCHANGED <<iccPowered, responsePending, txBuf, onWire, link, waiting>>
  BY CcidStep DEF AnswerInv, CcidInv, CcidTypeOK, XferIn, driverVars, peerVars,
                  TransportNext, TudEvent
<1>2. ~IsRequest(evq[1])
  BY <1>1, Dequeued DEF IsRequest
<1>3. LostLast' /\ Forgotten'
  BY <1>1, LostLastAfterDequeue, QueuedAfterDequeue DEF AnswerInv, Forgotten
<1>4. OneRequest'
  BY <1>1, <1>2, RequestsAfterDequeue
     DEF AnswerInv, OneRequest, Idle, Received, Built, Sent, Answers
<1>5. QED
  BY <1>1, <1>3, <1>4 DEF AnswerInv, StatusTruthful, Truthful

LEMMA OpenAnswer ==
  ASSUME AnswerInv, Open
  PROVE  AnswerInv'
<1>1. /\ evq \in Seq(Events) /\ Dequeue("configure") /\ CcidInv'
      /\ link' = IF link = "configuring" THEN "up" ELSE link
      /\ UNCHANGED <<iccPowered, responsePending, txBuf, onWire, waiting>>
  BY CcidStep DEF AnswerInv, CcidInv, CcidTypeOK, Open, driverVars, peerVars,
                  TransportNext, TudEvent
<1>2. ~IsRequest(evq[1])
  BY <1>1, Dequeued DEF IsRequest
<1>3. LostLast' /\ Forgotten'
  BY <1>1, LostLastAfterDequeue, QueuedAfterDequeue DEF AnswerInv, Forgotten
<1>4. CASE link = "configuring"
  <2>1. ~IsQueued("rx") /\ ~responsePending /\ onWire = NoResponse /\ waiting = <<>>
    BY <1>4 DEF AnswerInv, CcidInv, LinkKnown, Forgotten
  <2>2. Idle'
    BY <1>1, <2>1, NothingReceived, RequestsAfterDequeue DEF Idle
  <2>3. StatusTruthful'
    BY <1>1, <2>1, NotSending DEF StatusTruthful, HasStatus
  <2>4. QED
    BY <1>1, <1>3, <1>4, <2>2, <2>3 DEF AnswerInv, OneRequest
<1>5. CASE link # "configuring"
  <2>1. OneRequest'
    BY <1>1, <1>2, <1>5, RequestsAfterDequeue
       DEF AnswerInv, OneRequest, Idle, Received, Built, Sent, Answers
  <2>2. QED
    BY <1>1, <1>3, <1>5, <2>1 DEF AnswerInv, StatusTruthful, Truthful
<1>6. QED
  BY <1>4, <1>5

LEMMA BusResetAnswer ==
  ASSUME AnswerInv, BusReset
  PROVE  AnswerInv'
<1>1. PICK ev \in Lost : Dequeue(ev)
  BY DEF BusReset, Lost
<1>2. /\ evq \in Seq(Events) /\ CcidInv' /\ responsePending' = FALSE
      /\ onWire' = NoResponse /\ UNCHANGED <<link, waiting>>
  BY CcidStep DEF AnswerInv, CcidInv, CcidTypeOK, BusReset, DriverReset, EndpointsClosed,
                  peerVars, TransportNext, TudEvent
<1>3. link # "up"
  BY <1>1, <1>2, QueuedAfterDequeue DEF AnswerInv, CcidInv, LinkKnown, Lost
<1>4. LostLast' /\ Forgotten'
  BY <1>1, <1>2, LostLastAfterDequeue DEF AnswerInv, Forgotten
<1>5. QED
  BY <1>2, <1>3, <1>4 DEF AnswerInv, OneRequest, StatusTruthful

LEMMA SendPendingAnswer ==
  ASSUME AnswerInv, SendPending
  PROVE  AnswerInv'
<1>1. /\ CcidInv' /\ responsePending /\ responsePending' = FALSE /\ onWire' = txBuf
      /\ UNCHANGED <<iccPowered, txBuf, evq, link, waiting>>
  BY CcidStep DEF AnswerInv, SendPending, peerVars, TransportNext
<1>2. LostLast' /\ Forgotten'
  BY <1>1 DEF AnswerInv, LostLast, Forgotten, IsQueued
<1>3. OneRequest'
  BY <1>1 DEF AnswerInv, OneRequest, Idle, Received, Built, Sent, Answers,
              NoRequest, ReceivedRequests, IsRequest
<1>4. StatusTruthful'
  BY <1>1 DEF AnswerInv, StatusTruthful, Truthful
<1>5. QED
  BY <1>1, <1>2, <1>3, <1>4 DEF AnswerInv

LEMMA ConfigureAnswer ==
  ASSUME AnswerInv, HostConfigure
  PROVE  AnswerInv'
<1> DEFINE e == Event("configure")
<1>1. /\ evq \in Seq(Events) /\ e \in Events /\ e.ev = "configure" /\ Queue(e) /\ CcidInv'
      /\ link = "reset" /\ link' = "configuring"
      /\ UNCHANGED <<iccPowered, responsePending, txBuf, onWire, waiting>>
  BY CcidStep, AnEvent DEF AnswerInv, CcidInv, CcidTypeOK, HostConfigure, driverVars,
                           peerVars, TransportNext, HostStep
<1> HIDE DEF e
<1>2. LostLast' /\ Forgotten'
  BY <1>1, LostLastAfterQueue, QueuedAfterQueue DEF AnswerInv, Forgotten
<1>3. QED
  BY <1>1, <1>2 DEF AnswerInv, OneRequest, StatusTruthful, Truthful

LEMMA LinkLostAnswer ==
  ASSUME AnswerInv, HostReset \/ HostUnplug
  PROVE  AnswerInv'
<1>1. PICK ev \in Lost :
        /\ LinkLost(ev, IF ev = "reset" THEN "reset" ELSE "down")
        /\ link' = IF ev = "reset" THEN "reset" ELSE "down"
  BY DEF HostReset, HostUnplug, LinkLost, Lost
<1> DEFINE e == Event(ev)
<1>2. /\ evq \in Seq(Events) /\ CcidInv' /\ Queue(e) /\ e \in Events /\ e.ev = ev
      /\ link' # "up" /\ onWire' = NoResponse /\ waiting' = <<>>
      /\ UNCHANGED <<iccPowered, responsePending, txBuf>>
  BY <1>1, LinkLostStep DEF AnswerInv, CcidInv, CcidTypeOK, LinkLost, driverVars
<1> HIDE DEF e
<1>3. LostLast'
  BY <1>2, LostLastAfterQueue DEF AnswerInv, Lost
<1>4. Forgotten'
  BY <1>2, QueuedAfterQueue DEF Forgotten, Lost
<1>5. StatusTruthful'
  BY <1>2 DEF AnswerInv, StatusTruthful, Truthful
<1>6. QED
  BY <1>2, <1>3, <1>4, <1>5 DEF AnswerInv, OneRequest

\* The host sends to a driver that has nothing to do.
LEMMA SendAnswer ==
  ASSUME AnswerInv, MaxOutstanding = 1, NEW r \in Requests, HostSend(r)
  PROVE  AnswerInv'
<1>0. PICK m \in Messages, e \in Events :
        m = [req |-> r, seq |-> nextSeq] /\ e = [ev |-> "rx", msg |-> m]
  BY SendStep DEF AnswerInv
<1>1. /\ evq \in Seq(Events) /\ CcidInv' /\ Queue(e)
      /\ link = "up" /\ Len(waiting) < 1 /\ waiting \in Seq(Messages)
      /\ waiting' = IF r.type = "Runt" THEN waiting ELSE Append(waiting, m)
      /\ UNCHANGED <<iccPowered, responsePending, txBuf, onWire, link>>
  BY <1>0, SendStep DEF AnswerInv, CcidInv, CcidTypeOK, driverVars
<1>2. e.ev = "rx" /\ e.msg = m /\ (IsRequest(e) <=> r.type # "Runt") /\ m.req = r
  BY <1>0 DEF IsRequest
<1>3. waiting = <<>>
  BY <1>1
<1>4. Idle
  BY <1>1, <1>3 DEF AnswerInv, OneRequest
<1>5. LostLast' /\ Forgotten'
  BY <1>1, LostLastAfterQueue DEF AnswerInv, CcidInv, LinkKnown, Forgotten
<1>6. OneRequest'
  <2>1. CASE r.type = "Runt"
    BY <1>1, <1>2, <1>4, <2>1, RequestsAfterQueue DEF OneRequest, Idle
  <2>2. CASE r.type # "Runt"
    <3>1. waiting' = <<m>>
      <4>1. Append(<<>>, m) = <<m>>
        OBVIOUS
      <4>2. QED
        BY <1>1, <1>3, <2>2, <4>1
    <3>2. OnlyRequest(m)'
      BY <1>1, <1>2, <1>4, <2>2, RequestsAfterQueue DEF Idle
    <3>3. Received(m)'
      BY <1>1, <1>4, <3>2 DEF Received, Idle
    <3>4. QED
      BY <1>1, <1>2, <2>2, <3>1, <3>3 DEF OneRequest
  <2>3. QED
    BY <2>1, <2>2
<1>7. QED
  BY <1>1, <1>5, <1>6 DEF AnswerInv, StatusTruthful, Truthful

LEMMA ReadAnswer ==
  ASSUME AnswerInv, HostRead
  PROVE  AnswerInv'
<1> DEFINE e == Event("txdone")
<1>1. /\ evq \in Seq(Events) /\ CcidInv' /\ Queue(e) /\ e \in Events /\ e.ev = "txdone"
      /\ link = "up" /\ onWire # NoResponse /\ onWire' = NoResponse
      /\ waiting' = IF waiting = <<>> THEN waiting ELSE Tail(waiting)
      /\ UNCHANGED <<iccPowered, responsePending, txBuf, link>>
  BY ReadStep DEF AnswerInv, CcidInv, CcidTypeOK, HostRead, driverVars
<1> HIDE DEF e
<1>2. PICK m \in Messages : waiting = <<m>> /\ Sent(m)
  BY <1>1 DEF AnswerInv, OneRequest, Idle, Received, Built
<1>3. waiting' = <<>>
  BY <1>1, <1>2
<1>4. LostLast' /\ Forgotten'
  BY <1>1, LostLastAfterQueue DEF AnswerInv, Forgotten
<1>5. Idle'
  <2>1. ~IsRequest(e)
    BY <1>1 DEF IsRequest
  <2>2. NoRequest'
    BY <1>1, <1>2, <2>1, RequestsAfterQueue DEF Sent
  <2>3. QED
    BY <1>1, <1>2, <1>3, <2>2 DEF Idle, Sent
<1>6. StatusTruthful'
  BY <1>1, NoResponseTyped DEF AnswerInv, StatusTruthful, Truthful
<1>7. QED
  BY <1>1, <1>4, <1>5, <1>6 DEF AnswerInv, OneRequest

LEMMA AnswerStep ==
  ASSUME MaxOutstanding = 1, AnswerInv, [TransportNext]_ccidVars
  PROVE  AnswerInv'
<1>1. CcidInv'
  BY CcidStep DEF AnswerInv
<1>2. CASE XferOut \/ XferOutApplet("rapdu")
  BY <1>2, MessageAnswer
<1>3. CASE HostAttach \/ UNCHANGED ccidVars
  <2>1. /\ UNCHANGED <<iccPowered, responsePending, txBuf, evq, onWire, waiting>>
        /\ link' = link \/ (link = "down" /\ link' = "reset")
    BY <1>3 DEF HostAttach, ccidVars, driverVars, usbVars, peerVars
  <2>2. LostLast' /\ Forgotten'
    BY <2>1 DEF AnswerInv, LostLast, Forgotten, IsQueued
  <2>3. OneRequest' /\ StatusTruthful'
    BY <2>1 DEF AnswerInv, OneRequest, StatusTruthful, Truthful, Idle, Received, Built, Sent,
                Answers, OnlyRequest, NoRequest, ReceivedRequests, IsRequest
  <2>4. QED
    BY <1>1, <2>1, <2>2, <2>3 DEF AnswerInv
<1>4. CASE HostReset \/ HostUnplug
  BY <1>4, LinkLostAnswer
<1>5. CASE \E r \in Requests : HostSend(r)
  BY <1>5, SendAnswer
<1>6. QED
  BY <1>2, <1>3, <1>4, <1>5, XferInAnswer, OpenAnswer, BusResetAnswer, SendPendingAnswer,
     ConfigureAnswer, ReadAnswer
     DEF TransportNext, TudEvent, HostStep

-----------------------------------------------------------------------------
(* Every value the driver, the queue and the endpoints hold is of its kind;    *)
(* no body of a response runs past _tx_buf.                                    *)
THEOREM CcidTypeCorrect == TransportSpec => []CcidTypeOK
<1>1. CcidInv => CcidTypeOK
  BY DEF CcidInv
<1>2. QED
  BY <1>1, CcidInit_Inv, CcidStep, PTL DEF TransportSpec

(* Whatever is sent, and however many requests are under way: on a configured  *)
(* link the OUT endpoint is armed or about to be.                              *)
THEOREM AlwaysListening == TransportSpec => []NeverDeaf
<1>1. CcidInv => NeverDeaf
  BY DEF CcidInv
<1>2. QED
  BY <1>1, CcidInit_Inv, CcidStep, PTL DEF TransportSpec

(* With one request at a time (bMaxCCIDBusySlots, usb_descriptors.c:110) the   *)
(* response on the wire answers the request the host waits for.                *)
THEOREM AnswersTheRequest ==
  ASSUME MaxOutstanding = 1
  PROVE  TransportSpec => []AnswersMatch
<1>1. ASSUME AnswerInv PROVE AnswersMatch
  <2> SUFFICES ASSUME link = "up", Sending PROVE waiting # <<>> /\ Answers(onWire, Head(waiting))
    BY DEF AnswersMatch
  <2>1. PICK m \in Messages : waiting = <<m>> /\ Sent(m)
    BY <1>1, NotSending DEF AnswerInv, OneRequest, Idle, Received, Built
  <2>2. QED
    BY <2>1 DEF Sent
<1>2. QED
  BY <1>1, AnswerInit_Inv, AnswerStep, PTL DEF TransportSpec

(* The same host has each of its requests in exactly one place.                *)
THEOREM AnswersOnce ==
  ASSUME MaxOutstanding = 1
  PROVE  TransportSpec => []OneAnswerEach
<1>1. ASSUME AnswerInv PROVE OneAnswerEach
  <2> SUFFICES ASSUME link = "up"
               PROVE  Len(waiting) = Cardinality(ReceivedRequests) + One(responsePending)
                                       + One(Sending)
    BY DEF OneAnswerEach
  <2>1. Cardinality({}) = 0 /\ \A i : Cardinality({i}) = 1
    BY FS_EmptySet, FS_Singleton
  <2>2. CASE Idle
    BY <2>1, <2>2, NotSending DEF Idle, NoRequest, One
  <2>3. ASSUME NEW m \in Messages, waiting = <<m>>, m.req.type # "Runt",
               Received(m) \/ Built(m) \/ Sent(m)
        PROVE  Len(waiting) = Cardinality(ReceivedRequests) + One(responsePending)
                                + One(Sending)
    <3>1. Len(waiting) = 1
      BY <2>3
    <3>2. CASE Received(m)
      <4>1. PICK i \in 1..Len(evq) : ReceivedRequests = {i}
        BY <3>2 DEF Received, OnlyRequest
      <4>2. Cardinality(ReceivedRequests) = 1
        BY <2>1, <4>1
      <4>3. QED
        BY <3>1, <3>2, <4>2, NotSending DEF Received, One
    <3>3. CASE Built(m)
      BY <2>1, <3>1, <3>3, NotSending DEF Built, NoRequest, One
    <3>4. CASE Sent(m)
      <4>1. m.req.type \in MessageTypes \ {"Runt"}
        BY <2>3, CcidAssumption DEF Messages
      <4>2. AnswerType(m.req.type) # "none"
        BY <4>1 DEF AnswerType, MessageTypes
      <4>3. Sending
        BY <3>4, <4>2, NoResponseTyped DEF Sent, Sending, Answers
      <4>4. QED
        BY <2>1, <3>1, <3>4, <4>3 DEF Sent, NoRequest, One
    <3>5. QED
      BY <2>3, <3>2, <3>3, <3>4
  <2>4. QED
    BY <1>1, <2>2, <2>3 DEF AnswerInv, OneRequest
<1>2. QED
  BY <1>1, AnswerInit_Inv, AnswerStep, PTL DEF TransportSpec

(* And what a DataBlock or a SlotStatus says of the card is still true when it *)
(* is read.                                                                    *)
THEOREM StatusHonest ==
  ASSUME MaxOutstanding = 1
  PROVE  TransportSpec => []StatusTruthful
<1>1. AnswerInv => StatusTruthful
  BY DEF AnswerInv
<1>2. QED
  BY <1>1, AnswerInit_Inv, AnswerStep, PTL DEF TransportSpec
=============================================================================
