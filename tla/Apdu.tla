-------------------------------- MODULE Apdu --------------------------------
(***************************************************************************)
(* src/apdu.c and the checks that the handlers of src/piv.c make on bytes: *)
(* how a command is read out of the receive buffer.                        *)
(*                                                                         *)
(* rxBuf     _rx_buf behind the CCID header, as far as it was ever         *)
(*           written; a message overwrites the front of what earlier ones  *)
(*           left, and bytes that were never written are 0                 *)
(* msg       the message that came last, and what the host meant by it     *)
(* body      what apdu_parse() found behind the header                     *)
(* cmd       the command of PivCommands that the handler sees              *)
(* digest    the bytes handed to crypto_sign(), <<>> if there are none     *)
(* handled   how many messages came, at most MaxMessages (a bound)         *)
(*                                                                         *)
(* dwLength is at most the number of bytes that came; how it is compared   *)
(* is part of Ccid.                                                        *)
(***************************************************************************)
EXTENDS PivCommands, SequencesExt

CONSTANTS Messages,     \* what the host may send: bytes, len, form, means
          MaxMessages

ASSUME ApduAssumption ==
  /\ MaxMessages \in Nat
  /\ \A m \in Messages : /\ m.bytes \in Seq(0..255)
                         /\ m.len \in 1..Len(m.bytes)
                         /\ m.form \in {"short", "extended", "other"}

VARIABLES rxBuf, msg, body, cmd, digest, handled

apduVars == <<rxBuf, msg, body, cmd, digest, handled>>

-----------------------------------------------------------------------------
(* Bytes *)

\* The byte at offset i, counted from 0 as in C.
Raw(buf, i) == IF i < Len(buf) THEN buf[i + 1] ELSE 0

RawBytes(buf, from, n) == [i \in 1..n |-> Raw(buf, from + i - 1)]

Overwrite(buf, bytes) == bytes \o SubSeq(buf, Len(bytes) + 1, Len(buf))

HeaderLen == 4
DataAt    == 5  \* behind CLA INS P1 P2 Lc

Data(buf, i) == Raw(buf, DataAt + i)

-----------------------------------------------------------------------------
(* apdu_parse() *)

(* Mutant: the byte behind the last one may belong to the data. *)
Accepts_OffByOne(buf, len) ==
  len >= HeaderLen /\ (len > DataAt => DataAt + Raw(buf, HeaderLen) <= len + 1)

Accepts(buf, len) ==
  len >= HeaderLen /\ (len > DataAt => DataAt + Raw(buf, HeaderLen) <= len)

(* Mutant: 00 is read as it is in an extended APDU. *)
LeOf_Extended(byte) == IF byte = 0 THEN 65536 ELSE byte

LeOf(byte) == IF byte = 0 THEN 256 ELSE byte

\* le is 0 where it is absent.
NoBody     == [hasLc |-> FALSE, lc |-> 0, hasLe |-> FALSE, le |-> 0]
OnlyLe(le) == [hasLc |-> FALSE, lc |-> 0, hasLe |-> TRUE, le |-> le]

(* Mutant: a single byte behind the header is taken for Lc. *)
ApduParse_LcFirst(buf, len) ==
  LET lc     == Raw(buf, HeaderLen)
      leAt   == DataAt + lc
      hasLe  == leAt < len
  IN  CASE len = HeaderLen -> NoBody
        [] len > HeaderLen -> [hasLc |-> TRUE, lc |-> lc, hasLe |-> hasLe,
                               le |-> IF hasLe THEN LeOf(Raw(buf, leAt)) ELSE 0]

\* Bytes behind Le are ignored.
ApduParse(buf, len) ==
  LET lc     == Raw(buf, HeaderLen)
      leAt   == DataAt + lc
      hasLe  == leAt < len
  IN  CASE len = HeaderLen -> NoBody
        [] len = DataAt -> OnlyLe(LeOf(Raw(buf, HeaderLen)))
        [] len > DataAt -> [hasLc |-> TRUE, lc |-> lc, hasLe |-> hasLe,
                            le |-> IF hasLe THEN LeOf(Raw(buf, leAt)) ELSE 0]

-----------------------------------------------------------------------------
(* The checks of the handlers, in their order *)

\* The name of the first check that fails.
FirstFailing(checks, otherwise) ==
  LET failing == {i \in DOMAIN checks : checks[i].fails}
  IN  IF failing = {} THEN otherwise ELSE checks[Min(failing)].name

Check(fails, name) == [fails |-> fails, name |-> name]

PivAid == <<\hA0, 0, 0, 3, 8, 0, 0, \h10, 0, 1, 0>>

(* Mutant: the AID is compared whatever Lc says. *)
SelectArg_AnyLength(buf, b) ==
  FirstFailing(<<Check(Raw(buf, 2) # 4, "badP1"),
                 Check(RawBytes(buf, DataAt, Len(PivAid)) # PivAid, "otherAid")>>,
               "pivAid")

SelectArg(buf, b) ==
  FirstFailing(<<Check(Raw(buf, 2) # 4, "badP1"),
                 Check(~b.hasLc \/ b.lc < Len(PivAid), "shortAid"),
                 Check(RawBytes(buf, DataAt, Len(PivAid)) # PivAid, "otherAid")>>,
               "pivAid")

PaddedPin == <<\h31, \h32, \h33, \h34, \h35, \h36, \hFF, \hFF>>

VerifyArg(buf, b) ==
  FirstFailing(<<Check(Raw(buf, 2) # 0, "badP1"),
                 Check(Raw(buf, 3) # \h80, "otherPin"),
                 Check(~b.hasLc \/ b.lc = 0, "noData"),
                 Check(b.lc # Len(PaddedPin), "badLength"),
                 Check(RawBytes(buf, DataAt, Len(PaddedPin)) # PaddedPin, "wrongPin")>>,
               "rightPin")

Tags == [CCC |-> <<\h5F, \hC1, 7>>, CHUID |-> <<\h5F, \hC1, 2>>, CERT |-> <<\h5F, \hC1, 5>>]

\* A tag of three bytes is compared however many bytes lc leaves for it.
ObjectOf(buf) ==
  IF Data(buf, 1) = 1
  THEN IF Data(buf, 2) = \h7E THEN "DISC" ELSE "otherTag"
  ELSE LET named == {o \in DOMAIN Tags : Tags[o] = RawBytes(buf, DataAt + 2, 3)}
       IN  IF named = {} THEN "otherTag" ELSE CHOOSE o \in named : TRUE

GetDataArg(buf, b) ==
  FirstFailing(<<Check(Raw(buf, 2) # \h3F \/ Raw(buf, 3) # \hFF, "badP1P2"),
                 Check(~b.hasLc \/ b.lc < 3 \/ Data(buf, 0) # \h5C, "malformed"),
                 Check(Data(buf, 1) \notin {1, 3}, "malformed")>>,
               ObjectOf(buf))

(* Mutant: the prefix 81 of the length is skipped, its byte is not. *)
ChallengeAt_Prefix(buf) == 2

\* Where 82 00 81 .. begins: behind 7C and one or two bytes of length.
ChallengeAt(buf) == IF Data(buf, 1) = \h81 THEN 3 ELSE 2

HashLen(buf) == Data(buf, ChallengeAt(buf) + 3)

\* The dynamic authentication template; its own length is not looked at.
BadTemplate(buf, lc) ==
  LET at == ChallengeAt(buf)
  IN  \/ Data(buf, 0) # \h7C
      \/ Data(buf, 1) \in \h82..\hFF \cup {\h80}
      \/ lc < at + 4
      \/ Data(buf, at) # \h82 \/ Data(buf, at + 1) # 0
      \/ Data(buf, at + 2) # \h81
      \/ lc < at + 4 + HashLen(buf)
      \/ HashLen(buf) \notin 1..64

GenAuthArg(buf, b) ==
  FirstFailing(<<Check(Raw(buf, 2) # \h11, "badAlg"),
                 Check(Raw(buf, 3) # \h9A, "otherKey"),
                 Check(~b.hasLc \/ b.lc < 4, "tooShort"),
                 Check(BadTemplate(buf, b.lc), "badTemplate")>>,
               IF HashLen(buf) = 32 THEN "sha256" ELSE "otherDigest")

-----------------------------------------------------------------------------
(* piv_process_apdu() *)

Cmd(ins, arg, b) == [ins |-> ins, arg |-> arg, le |-> IF b.hasLe THEN b.le % 256 ELSE NoLe]

CommandOf(buf, len) ==
  LET b   == ApduParse(buf, len)
      ins == Raw(buf, 1)
  IN  IF ~Accepts(buf, len) THEN Cmd("malformed", "none", NoBody)
      ELSE IF Raw(buf, 0) # 0 THEN Cmd("otherCla", "none", b)
      ELSE CASE ins = \hA4 -> Cmd("SELECT", SelectArg(buf, b), b)
             [] ins = \h20 -> Cmd("VERIFY", VerifyArg(buf, b), b)
             [] ins = \hCB -> Cmd("GETDATA", GetDataArg(buf, b), b)
             [] ins = \hC0 -> Cmd("GETRESPONSE", "none", b)
             [] ins = \h87 -> Cmd("GENAUTH", GenAuthArg(buf, b), b)
             [] OTHER      -> Cmd("otherIns", "none", b)

DigestOf(buf, command) ==
  IF command.arg \in Digests
  THEN RawBytes(buf, DataAt + ChallengeAt(buf) + 4, HashLen(buf))
  ELSE <<>>

NoCommand == Cmd("malformed", "none", NoBody)
NoMessage == [bytes |-> <<>>, len |-> 0, form |-> "other", means |-> NoCommand]

ApduInit == /\ rxBuf = <<>>
            /\ msg = NoMessage
            /\ body = NoBody
            /\ cmd = NoCommand
            /\ digest = <<>>
            /\ handled = 0

\* A message arrives and is handed to piv_process_apdu().
Receive(m) ==
  /\ handled < MaxMessages
  /\ rxBuf' = Overwrite(rxBuf, m.bytes)
  /\ msg' = m
  /\ body' = IF Accepts(rxBuf', m.len) THEN ApduParse(rxBuf', m.len) ELSE NoBody
  /\ cmd' = CommandOf(rxBuf', m.len)
  /\ digest' = DigestOf(rxBuf', cmd')
  /\ handled' = handled + 1

ApduNext == \E m \in Messages : Receive(m)

ApduSpec == ApduInit /\ [][ApduNext]_apduVars

-----------------------------------------------------------------------------
(* What a host writes: a short APDU of ISO 7816-4, a command of SP 800-73 *)

Headers == [SELECT  |-> <<0, \hA4, 4, 0>>,       VERIFY      |-> <<0, \h20, 0, \h80>>,
            GETDATA |-> <<0, \hCB, \h3F, \hFF>>, GETRESPONSE |-> <<0, \hC0, 0, 0>>,
            GENAUTH |-> <<0, \h87, \h11, \h9A>>]

ShortBytes(header, data, le) ==
  header \o (IF data = <<>> THEN <<>> ELSE <<Len(data)>> \o data)
         \o (IF le = NoLe THEN <<>> ELSE <<le>>)

Tagged(tag) == <<\h5C, Len(tag)>> \o tag

\* 7C len 82 00 81 n d, where n is the length of d.
Framed(l, d) == <<\h7C>> \o l \o <<\h82, 0, \h81, Len(d)>> \o d

Template(d)     == Framed(<<Len(d) + 4>>, d)
LongTemplate(d) == Framed(<<\h81, Len(d) + 4>>, d)

\* What a host puts into the data when it wants arg of ins.
Asks(ins, arg, data) ==
  \/ ins = "SELECT" /\ arg = "pivAid" /\ data = PivAid
  \/ ins = "SELECT" /\ arg = "otherAid" /\ Len(data) \in 11..16 /\ ~IsPrefix(PivAid, data)
  \/ ins = "VERIFY" /\ arg = "noData" /\ data = <<>>
  \/ ins = "VERIFY" /\ arg = "rightPin" /\ data = PaddedPin
  \/ ins = "VERIFY" /\ arg = "wrongPin" /\ Len(data) = 8 /\ data # PaddedPin
  \/ ins = "GETDATA" /\ arg \in DOMAIN Tags /\ data = Tagged(Tags[arg])
  \/ ins = "GETDATA" /\ arg = "DISC" /\ data = Tagged(<<\h7E>>)
  \/ ins = "GETRESPONSE" /\ arg = "none" /\ data = <<>>
  \/ /\ ins = "GENAUTH"
     /\ \E i \in 7..8 : LET d == SubSeq(data, i, Len(data))
                       IN  /\ Len(d) \in 1..64
                           /\ data \in {Template(d), LongTemplate(d)}
                           /\ arg = IF Len(d) = 32 THEN "sha256" ELSE "otherDigest"

\* All of bytes is m.means.
WrittenShort(m) ==
  LET ins  == m.means.ins
      le   == m.means.le
      data == SubSeq(m.bytes, DataAt + 1, Len(m.bytes) - IF le = NoLe THEN 0 ELSE 1)
  IN  /\ Asks(ins, m.means.arg, data)
      /\ m.bytes = ShortBytes(Headers[ins], data, le)
      /\ m.len = Len(m.bytes)

ASSUME ShortAssumption ==
  \A m \in Messages : m.form = "short" => m.means \in AllCommands /\ WrittenShort(m)

-----------------------------------------------------------------------------
ApduTypeOK ==
  /\ rxBuf \in Seq(0..255)
  /\ msg \in Messages \cup {NoMessage}
  /\ body \in [hasLc : BOOLEAN, lc : 0..255, hasLe : BOOLEAN, le : 0..256]
  /\ cmd \in AllCommands
  /\ digest \in Seq(0..255)
  /\ handled \in 0..MaxMessages

(* A command that the host wrote as a short APDU, with or without data and *)
(* Le, is the command that the handler sees: apdu_parse() and the handlers *)
(* read back what ISO 7816-4 and SP 800-73 make a host write.              *)
ShortUnderstood == msg.form = "short" => cmd = msg.means

(* usb_descriptors.c:60, "Short and Extended APDU level exchange": a       *)
(* command that the host wrote as an extended APDU is understood as well.  *)
ExtendedUnderstood == msg.form = "extended" => cmd = msg.means

(* Every field that apdu_parse() fills in lies inside the message: no Lc   *)
(* reaches over its end.                                                   *)
ParsedInsideMessage ==
  cmd.ins # "malformed" =>
    HeaderLen + (IF body.hasLc THEN 1 + body.lc ELSE 0)
              + (IF body.hasLe THEN 1 ELSE 0) <= msg.len

\* The tag has three bytes, but lc leaves less for it (piv.c:259).
TagCutShort == /\ cmd.ins = "GETDATA"
               /\ body.lc < 5
               /\ Data(rxBuf, 1) = 3

\* A buffer in which no byte is what a command would want.
Poison == [i \in 1..64 |-> \hEE]

(* What a command is taken for depends on its own bytes only, not on what  *)
(* an earlier message left in the receive buffer, and not on bytes beyond  *)
(* dwLength.  The tag of a GET DATA whose lc is too small for it is the    *)
(* one exception of the code.                                              *)
AnswerFromMessage ==
  LET alone == Overwrite(Poison, SubSeq(msg.bytes, 1, msg.len))
  IN  ~TagCutShort => /\ cmd = CommandOf(alone, msg.len)
                      /\ digest = DigestOf(alone, cmd)

MessageData == SubSeq(msg.bytes, DataAt + 1, DataAt + body.lc)

\* The length of a template: one byte, or 81 and another.
IsLengthField(l) ==
  l # <<>> /\ IF Len(l) = 1 THEN l[1] < \h80 ELSE l[1] = \h81

\* A template, and anything behind it.
IsTemplate(data, d) ==
  \E l \in {SubSeq(data, 2, 2), SubSeq(data, 2, 3)} :
     IsLengthField(l) /\ IsPrefix(Framed(l, d), data)

Challenges(data) ==
  {d \in {SubSeq(data, i, j) : i \in 7..8, j \in 7..Len(data)} :
     Len(d) \in 1..64 /\ IsTemplate(data, d)}

(* The bytes that get signed are the challenge of the template the host    *)
(* sent, all of it and nothing else, and a template with a challenge is    *)
(* never turned away, whichever of the two forms of length it is written   *)
(* with (the walk of p and rem in _handle_general_authenticate).           *)
SignedIsChallenge ==
  (cmd.ins = "GENAUTH" /\ cmd.arg \in Digests \cup {"badTemplate"}) =>
     IF cmd.arg \in Digests THEN digest \in Challenges(MessageData)
                            ELSE Challenges(MessageData) = {}
=============================================================================
