----------------------------- MODULE ApduProofs -----------------------------
(***************************************************************************)
(* apdu_parse() on every message, and every receive buffer it can meet.    *)
(***************************************************************************)
EXTENDS Apdu, SequenceTheorems, TLAPS

Bytes == Seq(0..255)

-----------------------------------------------------------------------------
LEMMA RawTyped ==
  ASSUME NEW buf \in Bytes, NEW i \in Nat
  PROVE  Raw(buf, i) \in 0..255
<1>1. CASE i < Len(buf)
  <2>1. i + 1 \in 1..Len(buf)
    BY <1>1 DEF Bytes
  <2>2. buf[i + 1] \in 0..255
    BY <2>1, ElementOfSeq DEF Bytes
  <2>3. QED
    BY <1>1, <2>2 DEF Raw
<1>2. CASE ~(i < Len(buf))
  BY <1>2 DEF Raw
<1>3. QED
  BY <1>1, <1>2

LEMMA OverwriteTyped ==
  ASSUME NEW buf \in Bytes, NEW bytes \in Bytes
  PROVE  Overwrite(buf, bytes) \in Bytes
<1>1. SubSeq(buf, Len(bytes) + 1, Len(buf)) \in Bytes
  <2>1. Len(bytes) \in Nat /\ Len(buf) \in Nat
    BY DEF Bytes
  <2>2. \A i \in Len(bytes) + 1..Len(buf) : buf[i] \in 0..255
    BY <2>1, ElementOfSeq DEF Bytes
  <2>3. QED
    BY <2>1, <2>2, SubSeqProperties DEF Bytes
<1>2. QED
  BY <1>1, ConcatProperties DEF Overwrite, Bytes

\* A command that is rejected before it is parsed is "malformed", and no other.
LEMMA MalformedMeansRejected ==
  ASSUME NEW buf, NEW len
  PROVE  CommandOf(buf, len).ins # "malformed" => Accepts(buf, len)
<1>1. CASE Accepts(buf, len)
  BY <1>1
<1>2. CASE ~Accepts(buf, len)
  BY <1>2 DEF CommandOf, Cmd
<1>3. QED
  BY <1>1, <1>2

-----------------------------------------------------------------------------
(* What the handlers read *)

(* The first n bytes of the two buffers are the same. *)
Agree(a, b, n) == \A i \in 0..n - 1 : Raw(a, i) = Raw(b, i)

LEMMA SameBytes ==
  ASSUME NEW a, NEW b, NEW n \in Nat, Agree(a, b, n),
         NEW from \in Nat, NEW k \in Nat, from + k <= n
  PROVE  RawBytes(a, from, k) = RawBytes(b, from, k)
<1>1. \A i \in 1..k : Raw(a, from + i - 1) = Raw(b, from + i - 1)
  <2> SUFFICES ASSUME NEW i \in 1..k PROVE Raw(a, from + i - 1) = Raw(b, from + i - 1)
    OBVIOUS
  <2>1. from + i - 1 \in 0..n - 1
    OBVIOUS
  <2>2. QED
    BY <2>1 DEF Agree
<1>2. QED
  BY <1>1 DEF RawBytes

(* A check that fails hides all that come behind it. *)
HidesAt(n, k) ==
  \A A, B : /\ DOMAIN A = 1..n /\ DOMAIN B = 1..n /\ A[k].fails = TRUE
            /\ \A i \in 1..k : A[i] = B[i]
            => \A x, y : FirstFailing(A, x) = FirstFailing(B, y)

LEMMA FirstFailingHides ==
  ASSUME NEW n \in Nat, NEW k \in 1..4, k <= n
  PROVE  HidesAt(n, k)
<1> SUFFICES ASSUME NEW A, NEW B, DOMAIN A = 1..n, DOMAIN B = 1..n, A[k].fails = TRUE,
                    \A i \in 1..k : A[i] = B[i], NEW x, NEW y
             PROVE  FirstFailing(A, x) = FirstFailing(B, y)
  BY DEF HidesAt
<1>1. PICK m \in 1..k : A[m].fails /\ \A i \in 1..k : i < m => ~A[i].fails
  <2>1. 1 \in 1..k
    OBVIOUS
  <2>2. CASE A[1].fails
    BY <2>1, <2>2
  <2>3. CASE ~A[1].fails /\ k > 1 /\ A[2].fails
    <3>1. 2 \in 1..k /\ \A i \in 1..k : i < 2 => i = 1
      BY <2>3
    <3>2. QED
      BY <2>3, <3>1
  <2>4. CASE ~A[1].fails /\ k > 2 /\ ~A[2].fails /\ A[3].fails
    <3>1. 3 \in 1..k /\ \A i \in 1..k : i < 3 => i = 1 \/ i = 2
      BY <2>4
    <3>2. QED
      BY <2>4, <3>1
  <2>5. CASE ~A[1].fails /\ k > 3 /\ ~A[2].fails /\ ~A[3].fails
    <3>1. k = 4 /\ \A i \in 1..k : i < 4 => i = 1 \/ i = 2 \/ i = 3
      BY <2>5
    <3>2. QED
      BY <2>5, <3>1
  <2>6. k = 1 \/ k = 2 \/ k = 3 \/ k = 4
    OBVIOUS
  <2>7. QED
    BY <2>2, <2>3, <2>4, <2>5, <2>6
<1> DEFINE FailingIn(C) == {i \in DOMAIN C : C[i].fails}
<1>2. m \in FailingIn(A) /\ \A i \in FailingIn(A) : m <= i
  <2>1. m \in 1..n
    OBVIOUS
  <2>2. ASSUME NEW i \in FailingIn(A) PROVE m <= i
    BY <1>1, <2>2
  <2>3. QED
    BY <1>1, <2>1, <2>2
<1>3. m \in FailingIn(B) /\ \A i \in FailingIn(B) : m <= i
  <2>1. m \in 1..n /\ B[m].fails
    BY <1>1
  <2>2. ASSUME NEW i \in FailingIn(B) PROVE m <= i
    BY <1>1, <2>2
  <2>3. QED
    BY <2>1, <2>2
<1>4. Min(FailingIn(A)) = m /\ Min(FailingIn(B)) = m
  <2>1. FailingIn(A) \subseteq Int /\ FailingIn(B) \subseteq Int
    OBVIOUS
  <2>2. QED
    BY <1>2, <1>3, <2>1 DEF Min
<1>5. QED
  BY <1>1, <1>2, <1>3, <1>4 DEF FirstFailing

(* One message, read from two buffers that agree on its bytes. *)
SameMessage(a, b, len) == /\ a \in Bytes /\ b \in Bytes /\ len \in Nat
                          /\ Agree(a, b, len) /\ Accepts(a, len)

LEMMA HeaderSame ==
  ASSUME NEW a, NEW b, NEW len, SameMessage(a, b, len)
  PROVE  /\ \A i \in 0..3 : Raw(a, i) = Raw(b, i)
         /\ len > HeaderLen => Raw(a, HeaderLen) = Raw(b, HeaderLen)
BY DEF SameMessage, Agree, Accepts, HeaderLen

LEMMA ParseCases ==
  ASSUME NEW buf, NEW len \in Nat
  PROVE  /\ len = HeaderLen => ApduParse(buf, len) = NoBody
         /\ len = DataAt => ApduParse(buf, len) = OnlyLe(LeOf(Raw(buf, HeaderLen)))
         /\ len > DataAt =>
              ApduParse(buf, len) =
                LET leAt == DataAt + Raw(buf, HeaderLen)
                IN  [hasLc |-> TRUE, lc |-> Raw(buf, HeaderLen), hasLe |-> leAt < len,
                     le |-> IF leAt < len THEN LeOf(Raw(buf, leAt)) ELSE 0]
<1>1. len = HeaderLen => len # DataAt /\ ~(len > DataAt)
  BY DEF HeaderLen, DataAt
<1>2. len = DataAt => len # HeaderLen /\ ~(len > DataAt)
  BY DEF HeaderLen, DataAt
<1>3. len > DataAt => len # HeaderLen /\ len # DataAt
  BY DEF HeaderLen, DataAt
<1>4. QED
  BY <1>1, <1>2, <1>3, Zenon DEF ApduParse

LEMMA ParseSame ==
  ASSUME NEW a, NEW b, NEW len, SameMessage(a, b, len)
  PROVE  Accepts(b, len) /\ ApduParse(b, len) = ApduParse(a, len)
<1>1. len \in Nat /\ len >= HeaderLen
  BY DEF SameMessage, Accepts
<1>2. len > HeaderLen => Raw(a, HeaderLen) = Raw(b, HeaderLen)
  BY HeaderSame
<1>3. Accepts(b, len)
  <2>1. len > DataAt => DataAt + Raw(b, HeaderLen) <= len
    BY <1>1, <1>2 DEF SameMessage, Accepts, HeaderLen, DataAt
  <2>2. QED
    BY <1>1, <2>1 DEF Accepts
<1>4. CASE len = HeaderLen \/ len = DataAt
  <2>1. len = DataAt => len > HeaderLen
    BY DEF HeaderLen, DataAt
  <2>2. QED
    BY <1>1, <1>2, <1>3, <1>4, <2>1, ParseCases
<1>5. CASE len > DataAt
  <2>1. Raw(a, HeaderLen) \in 0..255
    BY RawTyped DEF SameMessage, HeaderLen
  <2>2. PICK lc \in 0..255 : lc = Raw(a, HeaderLen) /\ lc = Raw(b, HeaderLen)
    BY <1>1, <1>2, <1>5, <2>1 DEF HeaderLen, DataAt
  <2>3. DataAt + lc < len => Raw(a, DataAt + lc) = Raw(b, DataAt + lc)
    BY <1>1 DEF SameMessage, Agree, DataAt
  <2>4. QED
    BY <1>1, <1>3, <1>5, <2>2, <2>3, ParseCases
<1>6. QED
  BY <1>1, <1>3, <1>4, <1>5 DEF HeaderLen, DataAt

LEMMA BodyInside ==
  ASSUME NEW a, NEW b, NEW len, SameMessage(a, b, len)
  PROVE  LET p == ApduParse(a, len)
         IN  p.lc \in 0..255 /\ (p.lc > 0 => DataAt + p.lc <= len)
<1> DEFINE p == ApduParse(a, len)
<1>1. len \in Nat /\ len >= HeaderLen /\ Raw(a, HeaderLen) \in 0..255
  BY RawTyped DEF SameMessage, Accepts, HeaderLen
<1>2. CASE len = HeaderLen
  <2>1. p = NoBody
    BY <1>2 DEF ApduParse, HeaderLen, DataAt
  <2>2. QED
    BY <2>1 DEF NoBody
<1>3. CASE len = DataAt
  <2>1. p = OnlyLe(LeOf(Raw(a, HeaderLen)))
    BY <1>3 DEF ApduParse, HeaderLen, DataAt
  <2>2. p.lc = 0
    BY <2>1 DEF OnlyLe, NoBody
  <2>3. QED
    BY <2>2
<1>4. CASE len > DataAt
  <2>1. p.lc = Raw(a, HeaderLen)
    BY <1>1, <1>4 DEF ApduParse, HeaderLen, DataAt
  <2>2. QED
    BY <1>1, <1>4, <2>1 DEF SameMessage, Accepts
<1>5. QED
  BY <1>1, <1>2, <1>3, <1>4 DEF HeaderLen, DataAt

LEMMA DataSame ==
  ASSUME NEW a, NEW b, NEW len, SameMessage(a, b, len),
         NEW from \in Nat, NEW k \in Nat, k > 0, from + k <= ApduParse(a, len).lc
  PROVE  RawBytes(a, DataAt + from, k) = RawBytes(b, DataAt + from, k)
<1>1. PICK lc \in 0..255 : lc = ApduParse(a, len).lc /\ (lc > 0 => DataAt + lc <= len)
  BY BodyInside
<1>2. DataAt + from \in Nat /\ DataAt + from + k <= len
  BY <1>1 DEF DataAt, SameMessage
<1>3. QED
  BY <1>2, SameBytes DEF SameMessage

LEMMA DatumSame ==
  ASSUME NEW a, NEW b, NEW len, SameMessage(a, b, len),
         NEW i \in Nat, i < ApduParse(a, len).lc
  PROVE  Data(a, i) = Data(b, i)
<1>1. PICK lc \in 0..255 : lc = ApduParse(a, len).lc /\ (lc > 0 => DataAt + lc <= len)
  BY BodyInside
<1>2. DataAt + i \in 0..len - 1
  BY <1>1 DEF DataAt, SameMessage
<1>3. QED
  BY <1>2 DEF Data, SameMessage, Agree

-----------------------------------------------------------------------------
(* The handlers, one by one *)

LEMMA SelectSame ==
  ASSUME NEW a, NEW b, NEW len, SameMessage(a, b, len)
  PROVE  SelectArg(a, ApduParse(a, len)) = SelectArg(b, ApduParse(a, len))
<1> DEFINE p == ApduParse(a, len)
           short == ~p.hasLc \/ p.lc < Len(PivAid)
           Checks(buf) == <<Check(Raw(buf, 2) # 4, "badP1"),
                            Check(short, "shortAid"),
                            Check(RawBytes(buf, DataAt, Len(PivAid)) # PivAid, "otherAid")>>
<1>1. Raw(a, 2) = Raw(b, 2)
  BY HeaderSame
<1>2. Len(PivAid) = 11
  BY DEF PivAid
<1>3. CASE short
  <2>1. DOMAIN Checks(a) = 1..3 /\ DOMAIN Checks(b) = 1..3
    OBVIOUS
  <2>2. Checks(a)[1] = Checks(b)[1] /\ Checks(a)[2] = Checks(b)[2]
    BY <1>1
  <2>3. Checks(a)[2].fails = TRUE
    BY <1>3 DEF Check
  <2>4. \A i \in 1..2 : Checks(a)[i] = Checks(b)[i]
    BY <2>2
  <2> HIDE DEF Checks
  <2>5. FirstFailing(Checks(a), "pivAid") = FirstFailing(Checks(b), "pivAid")
    <3>1. HidesAt(3, 2)
      BY FirstFailingHides
    <3>2. QED
      BY <2>1, <2>3, <2>4, <3>1 DEF HidesAt
  <2>6. QED
    BY <2>5 DEF SelectArg, Checks
<1>4. CASE ~short
  <2>1. 11 <= p.lc
    BY <1>2, <1>4, BodyInside
  <2>2. RawBytes(a, DataAt + 0, 11) = RawBytes(b, DataAt + 0, 11)
    BY <2>1, DataSame
  <2>3. RawBytes(a, DataAt, Len(PivAid)) = RawBytes(b, DataAt, Len(PivAid))
    BY <1>2, <2>2 DEF DataAt
  <2>4. QED
    BY <1>1, <2>3 DEF SelectArg
<1>5. QED
  BY <1>3, <1>4

LEMMA VerifySame ==
  ASSUME NEW a, NEW b, NEW len, SameMessage(a, b, len)
  PROVE  VerifyArg(a, ApduParse(a, len)) = VerifyArg(b, ApduParse(a, len))
<1> DEFINE p == ApduParse(a, len)
           Checks(buf) ==
             <<Check(Raw(buf, 2) # 0, "badP1"),
               Check(Raw(buf, 3) # \h80, "otherPin"),
               Check(~p.hasLc \/ p.lc = 0, "noData"),
               Check(p.lc # Len(PaddedPin), "badLength"),
               Check(RawBytes(buf, DataAt, Len(PaddedPin)) # PaddedPin, "wrongPin")>>
<1>1. Raw(a, 2) = Raw(b, 2) /\ Raw(a, 3) = Raw(b, 3)
  BY HeaderSame
<1>2. Len(PaddedPin) = 8
  BY DEF PaddedPin
<1>3. CASE p.lc # Len(PaddedPin)
  <2>1. DOMAIN Checks(a) = 1..5 /\ DOMAIN Checks(b) = 1..5
    OBVIOUS
  <2>2. /\ Checks(a)[1] = Checks(b)[1] /\ Checks(a)[2] = Checks(b)[2]
        /\ Checks(a)[3] = Checks(b)[3] /\ Checks(a)[4] = Checks(b)[4]
    BY <1>1
  <2>3. Checks(a)[4].fails = TRUE
    BY <1>3 DEF Check
  <2>4. \A i \in 1..4 : Checks(a)[i] = Checks(b)[i]
    BY <2>2
  <2> HIDE DEF Checks
  <2>5. FirstFailing(Checks(a), "rightPin") = FirstFailing(Checks(b), "rightPin")
    <3>1. HidesAt(5, 4)
      BY FirstFailingHides
    <3>2. QED
      BY <2>1, <2>3, <2>4, <3>1 DEF HidesAt
  <2>6. QED
    BY <2>5 DEF VerifyArg, Checks
<1>4. CASE p.lc = Len(PaddedPin)
  <2>1. RawBytes(a, DataAt + 0, 8) = RawBytes(b, DataAt + 0, 8)
    BY <1>2, <1>4, DataSame
  <2>2. RawBytes(a, DataAt, Len(PaddedPin)) = RawBytes(b, DataAt, Len(PaddedPin))
    BY <1>2, <2>1 DEF DataAt
  <2>3. QED
    BY <1>1, <2>2 DEF VerifyArg
<1>5. QED
  BY <1>3, <1>4

LEMMA GetDataSame ==
  ASSUME NEW a, NEW b, NEW len, SameMessage(a, b, len),
         ~(ApduParse(a, len).lc < 5 /\ Data(a, 1) = 3)
  PROVE  GetDataArg(a, ApduParse(a, len)) = GetDataArg(b, ApduParse(a, len))
<1> DEFINE p == ApduParse(a, len)
           Malformed(buf) == ~p.hasLc \/ p.lc < 3 \/ Data(buf, 0) # \h5C
           Checks(buf) == <<Check(Raw(buf, 2) # \h3F \/ Raw(buf, 3) # \hFF, "badP1P2"),
                            Check(Malformed(buf), "malformed"),
                            Check(Data(buf, 1) \notin {1, 3}, "malformed")>>
<1>1. Raw(a, 2) = Raw(b, 2) /\ Raw(a, 3) = Raw(b, 3)
  BY HeaderSame
<1>2. DOMAIN Checks(a) = 1..3 /\ DOMAIN Checks(b) = 1..3 /\ Checks(a)[1] = Checks(b)[1]
  BY <1>1
<1>3. CASE p.lc < 3
  <2>1. Malformed(a) = TRUE /\ Malformed(b) = TRUE
    BY <1>3
  <2>2. Checks(a)[2] = Checks(b)[2] /\ Checks(a)[2].fails = TRUE
    BY <2>1 DEF Check
  <2> HIDE DEF Checks
  <2>3. \A i \in 1..2 : Checks(a)[i] = Checks(b)[i]
    BY <1>2, <2>2
  <2>4. FirstFailing(Checks(a), ObjectOf(a)) = FirstFailing(Checks(b), ObjectOf(b))
    <3>1. HidesAt(3, 2)
      BY FirstFailingHides
    <3>2. QED
      BY <1>2, <2>2, <2>3, <3>1 DEF HidesAt
  <2>5. QED
    BY <2>4 DEF GetDataArg, Checks
<1>4. CASE ~(p.lc < 3)
  <2>1. p.lc \in 3..255
    BY <1>4, BodyInside
  <2>2. Data(a, 0) = Data(b, 0) /\ Data(a, 1) = Data(b, 1) /\ Data(a, 2) = Data(b, 2)
    BY <2>1, DatumSame
  <2>3. CASE Data(a, 1) \notin {1, 3}
    <3>1. Checks(a)[2] = Checks(b)[2] /\ Checks(a)[3] = Checks(b)[3]
      BY <2>2
    <3>2. Checks(a)[3].fails = TRUE
      BY <2>3 DEF Check
    <3> HIDE DEF Checks
    <3>3. \A i \in 1..3 : Checks(a)[i] = Checks(b)[i]
      BY <1>2, <3>1
    <3>4. FirstFailing(Checks(a), ObjectOf(a)) = FirstFailing(Checks(b), ObjectOf(b))
      <4>1. HidesAt(3, 3)
        BY FirstFailingHides
      <4>2. QED
        BY <1>2, <3>2, <3>3, <4>1 DEF HidesAt
    <3>5. QED
      BY <3>4 DEF GetDataArg, Checks
  <2>4. CASE Data(a, 1) = 1
    <3>1. ObjectOf(a) = ObjectOf(b)
      BY <2>2, <2>4 DEF ObjectOf
    <3>2. QED
      BY <1>1, <2>2, <3>1 DEF GetDataArg
  <2>5. CASE Data(a, 1) = 3
    <3>1. 2 + 3 <= p.lc
      BY <2>1, <2>5
    <3>2. RawBytes(a, DataAt + 2, 3) = RawBytes(b, DataAt + 2, 3)
      BY <3>1, DataSame
    <3>3. ObjectOf(a) = ObjectOf(b)
      <4> DEFINE Object(tag) == LET named == {o \in DOMAIN Tags : Tags[o] = tag}
                                IN  IF named = {} THEN "otherTag" ELSE CHOOSE o \in named : TRUE
      <4>1. Data(a, 1) # 1 /\ Data(b, 1) # 1
        BY <2>2, <2>5
      <4>2. ObjectOf(a) = Object(RawBytes(a, DataAt + 2, 3))
        BY <4>1 DEF ObjectOf
      <4>3. ObjectOf(b) = Object(RawBytes(b, DataAt + 2, 3))
        BY <4>1 DEF ObjectOf
      <4> HIDE DEF Object
      <4>4. QED
        BY <3>2, <4>2, <4>3
    <3>4. QED
      BY <1>1, <2>2, <3>3 DEF GetDataArg
  <2>6. QED
    BY <2>3, <2>4, <2>5
<1>5. QED
  BY <1>3, <1>4

(* A template that is long enough is the same in both buffers. *)
LEMMA TemplateSame ==
  ASSUME NEW a, NEW b, NEW len, SameMessage(a, b, len), ApduParse(a, len).lc >= 4
  PROVE  LET lc == ApduParse(a, len).lc
         IN  /\ ChallengeAt(a) = ChallengeAt(b)
             /\ lc >= ChallengeAt(a) + 4 => HashLen(a) = HashLen(b)
             /\ BadTemplate(a, lc) = BadTemplate(b, lc)
<1>1. PICK lc \in 4..255 : lc = ApduParse(a, len).lc
  BY BodyInside
<1>2. Data(a, 0) = Data(b, 0) /\ Data(a, 1) = Data(b, 1)
  BY <1>1, DatumSame
<1>3. PICK at \in {2, 3} : ChallengeAt(a) = at /\ ChallengeAt(b) = at
  BY <1>2 DEF ChallengeAt
<1>4. CASE lc < at + 4
  <2>1. BadTemplate(a, lc) = TRUE /\ BadTemplate(b, lc) = TRUE
    BY <1>3, <1>4 DEF BadTemplate
  <2>2. ~(lc >= at + 4)
    BY <1>4
  <2>3. QED
    BY <1>1, <1>3, <2>1, <2>2, Zenon
<1>5. CASE lc >= at + 4
  <2>1. /\ Data(a, at) = Data(b, at) /\ Data(a, at + 1) = Data(b, at + 1)
        /\ Data(a, at + 2) = Data(b, at + 2) /\ Data(a, at + 3) = Data(b, at + 3)
    BY <1>1, <1>5, DatumSame
  <2>2. HashLen(a) = HashLen(b)
    BY <1>3, <2>1 DEF HashLen
  <2>3. BadTemplate(a, lc) = BadTemplate(b, lc)
    BY <1>2, <1>3, <2>1, <2>2 DEF BadTemplate
  <2>4. QED
    BY <1>1, <1>3, <2>2, <2>3
<1>6. QED
  BY <1>1, <1>3, <1>4, <1>5

LEMMA GenAuthSame ==
  ASSUME NEW a, NEW b, NEW len, SameMessage(a, b, len)
  PROVE  GenAuthArg(a, ApduParse(a, len)) = GenAuthArg(b, ApduParse(a, len))
<1> DEFINE p == ApduParse(a, len)
           short == ~p.hasLc \/ p.lc < 4
           Checks(buf) == <<Check(Raw(buf, 2) # \h11, "badAlg"),
                            Check(Raw(buf, 3) # \h9A, "otherKey"),
                            Check(short, "tooShort"),
                            Check(BadTemplate(buf, p.lc), "badTemplate")>>
           Kind(buf) == IF HashLen(buf) = 32 THEN "sha256" ELSE "otherDigest"
<1>1. Raw(a, 2) = Raw(b, 2) /\ Raw(a, 3) = Raw(b, 3)
  BY HeaderSame
<1>2. /\ DOMAIN Checks(a) = 1..4 /\ DOMAIN Checks(b) = 1..4
      /\ Checks(a)[1] = Checks(b)[1] /\ Checks(a)[2] = Checks(b)[2]
      /\ Checks(a)[3] = Checks(b)[3]
  BY <1>1
<1>3. CASE short
  <2>1. Checks(a)[3].fails = TRUE
    BY <1>3 DEF Check
  <2> HIDE DEF Checks, Kind
  <2>2. \A i \in 1..3 : Checks(a)[i] = Checks(b)[i]
    BY <1>2
  <2>3. FirstFailing(Checks(a), Kind(a)) = FirstFailing(Checks(b), Kind(b))
    <3>1. HidesAt(4, 3)
      BY FirstFailingHides
    <3>2. QED
      BY <1>2, <2>1, <2>2, <3>1 DEF HidesAt
  <2>4. QED
    BY <2>3 DEF GenAuthArg, Checks, Kind
<1>4. CASE ~short
  <2>1. p.lc \in 4..255
    BY <1>4, BodyInside
  <2>2. /\ BadTemplate(a, p.lc) = BadTemplate(b, p.lc)
        /\ ChallengeAt(a) = ChallengeAt(b)
        /\ p.lc >= ChallengeAt(a) + 4 => HashLen(a) = HashLen(b)
    BY <2>1, TemplateSame
  <2>3. CASE BadTemplate(a, p.lc)
    <3>1. BadTemplate(a, p.lc) = TRUE
      BY <2>3 DEF BadTemplate
    <3>2. Checks(a)[4] = Checks(b)[4] /\ Checks(a)[4].fails = TRUE
      BY <2>2, <3>1 DEF Check
    <3> HIDE DEF Checks, Kind
    <3>3. \A i \in 1..4 : Checks(a)[i] = Checks(b)[i]
      BY <1>2, <3>2
    <3>4. FirstFailing(Checks(a), Kind(a)) = FirstFailing(Checks(b), Kind(b))
      <4>1. HidesAt(4, 4)
        BY FirstFailingHides
      <4>2. QED
        BY <1>2, <3>2, <3>3, <4>1 DEF HidesAt
    <3>5. QED
      BY <3>4 DEF GenAuthArg, Checks, Kind
  <2>4. CASE ~BadTemplate(a, p.lc)
    <3>1. p.lc >= ChallengeAt(a) + 4
      BY <2>1, <2>4 DEF BadTemplate, ChallengeAt
    <3>2. HashLen(a) = HashLen(b)
      BY <2>2, <3>1
    <3>3. QED
      BY <1>1, <2>2, <3>2 DEF GenAuthArg
  <2>5. QED
    BY <2>3, <2>4
<1>5. QED
  BY <1>3, <1>4

LEMMA CommandSame ==
  ASSUME NEW a, NEW b, NEW len, SameMessage(a, b, len),
         Raw(a, 0) = 0 /\ Raw(a, 1) = \hCB =>
           ~(ApduParse(a, len).lc < 5 /\ Data(a, 1) = 3)
  PROVE  CommandOf(a, len) = CommandOf(b, len)
<1>1. PICK p : p = ApduParse(a, len) /\ p = ApduParse(b, len)
  BY ParseSame
<1>2. Accepts(a, len) /\ Accepts(b, len)
  BY ParseSame DEF SameMessage
<1>3. Raw(a, 0) = Raw(b, 0) /\ Raw(a, 1) = Raw(b, 1)
  BY HeaderSame
<1>4. CASE Raw(a, 0) # 0
  BY <1>1, <1>2, <1>3, <1>4 DEF CommandOf
<1>5. CASE Raw(a, 0) = 0
  <2>1. /\ SelectArg(a, p) = SelectArg(b, p)
        /\ VerifyArg(a, p) = VerifyArg(b, p)
        /\ Raw(a, 1) = \hCB => GetDataArg(a, p) = GetDataArg(b, p)
        /\ GenAuthArg(a, p) = GenAuthArg(b, p)
    <3>1. SelectArg(a, p) = SelectArg(b, p)
      BY <1>1, SelectSame
    <3>2. VerifyArg(a, p) = VerifyArg(b, p)
      BY <1>1, VerifySame
    <3>3. Raw(a, 1) = \hCB => GetDataArg(a, p) = GetDataArg(b, p)
      <4> SUFFICES ASSUME Raw(a, 1) = \hCB PROVE GetDataArg(a, p) = GetDataArg(b, p)
        OBVIOUS
      <4>1. ~(ApduParse(a, len).lc < 5 /\ Data(a, 1) = 3)
        BY <1>5
      <4>2. GetDataArg(a, ApduParse(a, len)) = GetDataArg(b, ApduParse(a, len))
        BY <4>1, GetDataSame
      <4>3. QED
        BY <1>1, <4>2
    <3>4. GenAuthArg(a, p) = GenAuthArg(b, p)
      BY <1>1, GenAuthSame
    <3>5. QED
      BY <3>1, <3>2, <3>3, <3>4
  <2>2. QED
    BY <1>1, <1>2, <1>3, <1>5, <2>1 DEF CommandOf
<1>6. QED
  BY <1>4, <1>5

(* Whether no check fails, or the first that does gives the name. *)
LEMMA FirstFailingNames ==
  ASSUME NEW n \in 1..5, NEW C, DOMAIN C = 1..n, NEW x
  PROVE  \/ (\A i \in 1..n : ~C[i].fails) /\ FirstFailing(C, x) = x
         \/ \E i \in 1..n : /\ C[i].fails /\ \A j \in 1..i - 1 : ~C[j].fails
                            /\ FirstFailing(C, x) = C[i].name
<1> DEFINE failing == {i \in DOMAIN C : C[i].fails}
<1>1. CASE failing = {}
  <2>1. \A i \in 1..n : ~C[i].fails
    BY <1>1
  <2>2. QED
    BY <1>1, <2>1 DEF FirstFailing
<1>2. CASE failing # {}
  <2>1. PICK m \in failing : \A i \in failing : m <= i
    <3>1. failing \subseteq {1, 2, 3, 4, 5}
      OBVIOUS
    <3> HIDE DEF failing
    <3>2. CASE 1 \in failing
      <4>1. \A i \in failing : 1 <= i
        BY <3>1
      <4>2. QED
        BY <3>2, <4>1
    <3>3. CASE 1 \notin failing /\ 2 \in failing
      <4>1. \A i \in failing : 2 <= i
        BY <3>1, <3>3
      <4>2. QED
        BY <3>3, <4>1
    <3>4. CASE 1 \notin failing /\ 2 \notin failing /\ 3 \in failing
      <4>1. \A i \in failing : 3 <= i
        BY <3>1, <3>4
      <4>2. QED
        BY <3>4, <4>1
    <3>5. CASE 1 \notin failing /\ 2 \notin failing /\ 3 \notin failing
      <4>1. failing \subseteq {4, 5}
        BY <3>1, <3>5
      <4>2. CASE 4 \in failing
        <5>1. \A i \in failing : 4 <= i
          BY <4>1
        <5>2. QED
          BY <4>2, <5>1
      <4>3. CASE 4 \notin failing
        <5>1. PICK i \in failing : TRUE
          BY <1>2
        <5>2. \A k \in failing : k = 5
          BY <4>1, <4>3
        <5>3. QED
          BY <5>1, <5>2
      <4>4. QED
        BY <4>2, <4>3
    <3>6. QED
      BY <3>2, <3>3, <3>4, <3>5
  <2>2. Min(failing) = m
    <3>1. failing \subseteq Int
      OBVIOUS
    <3>2. m \in failing /\ \A i \in failing : m <= i
      BY <2>1
    <3> HIDE DEF failing
    <3>3. \A x1 \in failing : (\A i \in failing : x1 <= i) => x1 = m
      BY <3>1, <3>2
    <3>4. QED
      BY <3>2, <3>3 DEF Min
  <2>3. FirstFailing(C, x) = C[m].name /\ m \in 1..n
    BY <1>2, <2>1, <2>2 DEF FirstFailing
  <2>4. C[m].fails /\ \A j \in 1..m - 1 : ~C[j].fails
    <3>1. ASSUME NEW j \in 1..m - 1, C[j].fails PROVE FALSE
      <4>1. j \in failing /\ ~(m <= j)
        BY <2>3, <3>1
      <4>2. QED
        BY <2>1, <4>1
    <3>2. C[m].fails
      BY <2>1
    <3>3. QED
      BY <3>1, <3>2
  <2>5. QED
    BY <2>3, <2>4
<1>3. QED
  BY <1>1, <1>2

(* Each handler names one of its own checks, or what the command asks for. *)
LEMMA HandlerArgs ==
  ASSUME NEW buf, NEW p
  PROVE  /\ SelectArg(buf, p) \in {"badP1", "shortAid", "otherAid", "pivAid"}
         /\ VerifyArg(buf, p) \in {"badP1", "otherPin", "noData", "badLength", "wrongPin",
                                   "rightPin"}
         /\ GetDataArg(buf, p) \in {"badP1P2", "malformed", "otherTag"} \cup Objects
         /\ GenAuthArg(buf, p) \in {"badAlg", "otherKey", "tooShort", "badTemplate"}
                                   \cup Digests
<1>1. SelectArg(buf, p) \in {"badP1", "shortAid", "otherAid", "pivAid"}
  <2> DEFINE C == <<Check(Raw(buf, 2) # 4, "badP1"),
                    Check(~p.hasLc \/ p.lc < Len(PivAid), "shortAid"),
                    Check(RawBytes(buf, DataAt, Len(PivAid)) # PivAid, "otherAid")>>
  <2>1. /\ DOMAIN C = 1..3
        /\ \A i \in 1..3 : C[i].name \in {"badP1", "shortAid", "otherAid"}
    BY DEF Check
  <2> HIDE DEF C
  <2>2. FirstFailing(C, "pivAid") \in {"badP1", "shortAid", "otherAid", "pivAid"}
    BY <2>1, FirstFailingNames
  <2>3. QED
    BY <2>2 DEF SelectArg, C
<1>2. VerifyArg(buf, p) \in {"badP1", "otherPin", "noData", "badLength", "wrongPin", "rightPin"}
  <2> DEFINE C == <<Check(Raw(buf, 2) # 0, "badP1"),
                    Check(Raw(buf, 3) # \h80, "otherPin"),
                    Check(~p.hasLc \/ p.lc = 0, "noData"),
                    Check(p.lc # Len(PaddedPin), "badLength"),
                    Check(RawBytes(buf, DataAt, Len(PaddedPin)) # PaddedPin, "wrongPin")>>
             Names == {"badP1", "otherPin", "noData", "badLength", "wrongPin"}
  <2>1. DOMAIN C = 1..5 /\ \A i \in 1..5 : C[i].name \in Names
    BY DEF Check
  <2> HIDE DEF C
  <2>2. FirstFailing(C, "rightPin") \in Names \cup {"rightPin"}
    BY <2>1, FirstFailingNames
  <2>3. QED
    BY <2>2 DEF VerifyArg, C
<1>3. GetDataArg(buf, p) \in {"badP1P2", "malformed", "otherTag"} \cup Objects
  <2> DEFINE C == <<Check(Raw(buf, 2) # \h3F \/ Raw(buf, 3) # \hFF, "badP1P2"),
                    Check(~p.hasLc \/ p.lc < 3 \/ Data(buf, 0) # \h5C, "malformed"),
                    Check(Data(buf, 1) \notin {1, 3}, "malformed")>>
  <2>1. DOMAIN C = 1..3 /\ \A i \in 1..3 : C[i].name \in {"badP1P2", "malformed"}
    BY DEF Check
  <2> HIDE DEF C
  <2>2. FirstFailing(C, ObjectOf(buf)) \in {"badP1P2", "malformed", ObjectOf(buf)}
    BY <2>1, FirstFailingNames
  <2>3. ObjectOf(buf) \in {"DISC", "otherTag"} \cup DOMAIN Tags
    BY DEF ObjectOf
  <2>4. DOMAIN Tags = {"CCC", "CHUID", "CERT"}
    BY DEF Tags
  <2>5. QED
    BY <2>2, <2>3, <2>4 DEF GetDataArg, C, Objects
<1>4. GenAuthArg(buf, p) \in {"badAlg", "otherKey", "tooShort", "badTemplate"} \cup Digests
  <2> DEFINE C == <<Check(Raw(buf, 2) # \h11, "badAlg"),
                    Check(Raw(buf, 3) # \h9A, "otherKey"),
                    Check(~p.hasLc \/ p.lc < 4, "tooShort"),
                    Check(BadTemplate(buf, p.lc), "badTemplate")>>
             Names == {"badAlg", "otherKey", "tooShort", "badTemplate"}
             kind == IF HashLen(buf) = 32 THEN "sha256" ELSE "otherDigest"
  <2>1. DOMAIN C = 1..4 /\ \A i \in 1..4 : C[i].name \in Names
    BY DEF Check
  <2>2. kind \in Digests
    BY DEF Digests
  <2> HIDE DEF C, kind
  <2>3. FirstFailing(C, kind) \in Names \cup Digests
    BY <2>1, <2>2, FirstFailingNames
  <2>4. QED
    BY <2>3 DEF GenAuthArg, C, kind
<1>5. QED
  BY <1>1, <1>2, <1>3, <1>4

(* No handler but that of GENERAL AUTHENTICATE asks for a signature, and it *)
(* asks only for a template it found whole.                                 *)
LEMMA OnlyTemplatesSigned ==
  ASSUME NEW buf, NEW len, CommandOf(buf, len).arg \in Digests
  PROVE  LET p == ApduParse(buf, len)
         IN  p.hasLc /\ ~(p.lc < 4) /\ ~BadTemplate(buf, p.lc)
<1>1. PICK p : p = ApduParse(buf, len)
  OBVIOUS
<1>2. SelectArg(buf, p) \notin Digests
  BY HandlerArgs DEF Digests
<1>3. VerifyArg(buf, p) \notin Digests
  BY HandlerArgs DEF Digests
<1>4. GetDataArg(buf, p) \notin Digests
  BY HandlerArgs DEF Digests, Objects
<1>5. CommandOf(buf, len).arg = GenAuthArg(buf, p)
  <2>1. "none" \notin Digests
    BY DEF Digests
  <2>2. /\ Accepts(buf, len) /\ Raw(buf, 0) = 0
        /\ Raw(buf, 1) = \h87
    <3>1. CASE ~Accepts(buf, len) \/ Raw(buf, 0) # 0
      <4>1. CommandOf(buf, len).arg = "none"
        BY <3>1 DEF CommandOf, Cmd
      <4>2. QED
        BY <2>1, <4>1
    <3>2. CASE Accepts(buf, len) /\ Raw(buf, 0) = 0 /\ Raw(buf, 1) # \h87
      <4>1. CommandOf(buf, len).arg \in {SelectArg(buf, p), VerifyArg(buf, p),
                                         GetDataArg(buf, p), "none"}
        BY <1>1, <3>2 DEF CommandOf, Cmd
      <4>2. QED
        BY <1>2, <1>3, <1>4, <2>1, <4>1
    <3>3. QED
      BY <3>1, <3>2 DEF Accepts
  <2>3. QED
    BY <1>1, <2>2 DEF CommandOf, Cmd
<1>6. QED
  <2> DEFINE C == <<Check(Raw(buf, 2) # \h11, "badAlg"),
                    Check(Raw(buf, 3) # \h9A, "otherKey"),
                    Check(~p.hasLc \/ p.lc < 4, "tooShort"),
                    Check(BadTemplate(buf, p.lc), "badTemplate")>>
             Names == {"badAlg", "otherKey", "tooShort", "badTemplate"}
             kind == IF HashLen(buf) = 32 THEN "sha256" ELSE "otherDigest"
  <2>1. DOMAIN C = 1..4 /\ \A i \in 1..4 : C[i].name \in Names
    BY DEF Check
  <2>2. C[3].fails = (~p.hasLc \/ p.lc < 4) /\ C[4].fails = BadTemplate(buf, p.lc)
    BY DEF Check
  <2>3. FirstFailing(C, kind) \in Digests
    BY <1>5 DEF GenAuthArg
  <2> HIDE DEF C, kind
  <2>4. ~C[3].fails /\ ~C[4].fails
    BY <2>1, <2>3, FirstFailingNames DEF Digests
  <2>5. QED
    BY <1>1, <2>2, <2>4

(* Equal commands hand equal bytes to crypto_sign(). *)
LEMMA DigestSame ==
  ASSUME NEW a, NEW b, NEW len, SameMessage(a, b, len)
  PROVE  DigestOf(a, CommandOf(a, len)) = DigestOf(b, CommandOf(a, len))
<1>1. CASE CommandOf(a, len).arg \notin Digests
  BY <1>1 DEF DigestOf
<1>2. CASE CommandOf(a, len).arg \in Digests
  <2>1. PICK lc \in 0..255 : lc = ApduParse(a, len).lc
    BY BodyInside
  <2>2. lc \in 4..255 /\ ~BadTemplate(a, lc)
    BY <1>2, <2>1, OnlyTemplatesSigned
  <2>3. PICK at \in {2, 3} : ChallengeAt(a) = at
    BY DEF ChallengeAt
  <2>4. /\ lc >= at + 4
        /\ HashLen(a) \in 1..64
        /\ ~(lc < at + 4 + HashLen(a))
    BY <2>2, <2>3 DEF BadTemplate
  <2>5. PICK n \in 1..64 : HashLen(a) = n
    BY <2>4
  <2>6. at + 4 \in Nat /\ at + 4 + n <= lc
    BY <2>2, <2>4, <2>5
  <2>7. ChallengeAt(b) = at /\ HashLen(b) = n
    BY <2>1, <2>2, <2>3, <2>4, <2>5, TemplateSame
  <2>8. RawBytes(a, DataAt + (at + 4), n) = RawBytes(b, DataAt + (at + 4), n)
    BY <2>1, <2>6, DataSame
  <2>9. DataAt + (at + 4) = DataAt + at + 4
    BY DEF DataAt
  <2>10. QED
    BY <1>2, <2>3, <2>5, <2>7, <2>8, <2>9 DEF DigestOf
<1>3. QED
  BY <1>1, <1>2

-----------------------------------------------------------------------------
(* The receive buffer *)

LEMMA FrontTyped ==
  ASSUME NEW bytes \in Bytes, NEW n \in 0..Len(bytes)
  PROVE  /\ SubSeq(bytes, 1, n) \in Bytes /\ Len(SubSeq(bytes, 1, n)) = n
         /\ \A i \in 1..n : SubSeq(bytes, 1, n)[i] = bytes[i]
<1>1. Len(bytes) \in Nat /\ n \in Nat /\ n \in Int /\ 1 \in Int
  BY DEF Bytes
<1>2. \A i \in 1..n : bytes[i] \in 0..255
  <2> SUFFICES ASSUME NEW i \in 1..n PROVE bytes[i] \in 0..255
    OBVIOUS
  <2>1. i \in 1..Len(bytes)
    BY <1>1
  <2>2. QED
    BY <2>1, ElementOfSeq DEF Bytes
<1>3. SubSeq(bytes, 1, n) \in Seq(0..255)
  BY <1>1, <1>2, SubSeqProperties
<1>4. Len(SubSeq(bytes, 1, n)) = n
  BY <1>1, <1>2, SubSeqProperties
<1>5. \A i \in 1..n : SubSeq(bytes, 1, n)[i] = bytes[i]
  BY <1>1, <1>2, SubSeqProperties
<1>6. QED
  BY <1>3, <1>4, <1>5 DEF Bytes

(* A message that was written over a buffer is read back from its front. *)
LEMMA OverwriteFront ==
  ASSUME NEW buf \in Bytes, NEW bytes \in Bytes, NEW i \in Nat, i < Len(bytes)
  PROVE  Raw(Overwrite(buf, bytes), i) = bytes[i + 1]
<1> DEFINE rest == SubSeq(buf, Len(bytes) + 1, Len(buf))
<1>1. Len(bytes) \in Nat /\ Len(buf) \in Nat
  BY DEF Bytes
<1>2. rest \in Bytes
  <2>1. \A k \in Len(bytes) + 1..Len(buf) : buf[k] \in 0..255
    BY <1>1, ElementOfSeq DEF Bytes
  <2>2. QED
    BY <1>1, <2>1, SubSeqProperties DEF Bytes
<1>3. /\ Len(bytes \o rest) = Len(bytes) + Len(rest)
      /\ \A k \in 1..Len(bytes) : (bytes \o rest)[k] = bytes[k]
  BY <1>2, ConcatProperties DEF Bytes
<1>4. Len(rest) \in Nat
  BY <1>2 DEF Bytes
<1>5. i + 1 \in 1..Len(bytes) /\ i < Len(bytes) + Len(rest)
  BY <1>1, <1>4
<1>6. QED
  BY <1>3, <1>5 DEF Raw, Overwrite

(* The front of the buffer is the message, and what was made of it is what *)
(* the handlers make of the buffer.                                        *)
MessageInv ==
  /\ rxBuf \in Bytes
  /\ msg.bytes \in Bytes /\ msg.len \in 0..Len(msg.bytes)
  /\ \A i \in 0..msg.len - 1 : Raw(rxBuf, i) = msg.bytes[i + 1]
  /\ Accepts(rxBuf, msg.len) => body = ApduParse(rxBuf, msg.len)
  /\ cmd = CommandOf(rxBuf, msg.len)
  /\ digest = DigestOf(rxBuf, cmd)

LEMMA MessageInit == ApduInit => MessageInv
<1> SUFFICES ASSUME ApduInit PROVE MessageInv
  OBVIOUS
<1>1. rxBuf = <<>> /\ msg.bytes = <<>> /\ msg.len = 0 /\ cmd = NoCommand /\ digest = <<>>
  BY DEF ApduInit, NoMessage
<1>2. ~Accepts(rxBuf, msg.len)
  BY <1>1 DEF Accepts, HeaderLen
<1>3. CommandOf(rxBuf, msg.len) = NoCommand
  BY <1>2 DEF CommandOf, NoCommand
<1>4. NoCommand.arg \notin Digests
  BY DEF NoCommand, Cmd, Digests
<1>5. DigestOf(rxBuf, cmd) = <<>>
  BY <1>1, <1>4 DEF DigestOf
<1>6. QED
  BY <1>1, <1>2, <1>3, <1>5 DEF MessageInv, Bytes

LEMMA MessageStep == MessageInv /\ [ApduNext]_apduVars => MessageInv'
<1> SUFFICES ASSUME MessageInv, [ApduNext]_apduVars PROVE MessageInv'
  OBVIOUS
<1>1. ASSUME NEW m \in Messages, Receive(m) PROVE MessageInv'
  <2>1. m.bytes \in Bytes /\ m.len \in 1..Len(m.bytes) /\ Len(m.bytes) \in Nat
    BY ApduAssumption DEF Bytes
  <2>2. rxBuf' \in Bytes /\ rxBuf' = Overwrite(rxBuf, m.bytes) /\ msg' = m
    BY <1>1, <2>1, OverwriteTyped DEF Receive, MessageInv
  <2>3. \A i \in 0..m.len - 1 : Raw(rxBuf', i) = m.bytes[i + 1]
    <3> SUFFICES ASSUME NEW i \in 0..m.len - 1 PROVE Raw(rxBuf', i) = m.bytes[i + 1]
      OBVIOUS
    <3>1. i \in Nat /\ i < Len(m.bytes) /\ rxBuf \in Bytes
      BY <2>1 DEF MessageInv
    <3>2. QED
      BY <2>1, <2>2, <3>1, OverwriteFront
  <2>4. /\ body' = IF Accepts(rxBuf', m.len) THEN ApduParse(rxBuf', m.len) ELSE NoBody
        /\ cmd' = CommandOf(rxBuf', m.len)
        /\ digest' = DigestOf(rxBuf', cmd')
    BY <1>1 DEF Receive
  <2>5. /\ (Accepts(rxBuf, msg.len) => body = ApduParse(rxBuf, msg.len))'
        /\ (\A i \in 0..msg.len - 1 : Raw(rxBuf, i) = msg.bytes[i + 1])'
    BY <2>2, <2>3, <2>4 DEF Raw, Accepts, ApduParse
  <2>6. (cmd = CommandOf(rxBuf, msg.len))'
    BY <2>2, <2>4
  <2>7. (digest = DigestOf(rxBuf, cmd))'
    BY <2>2, <2>4
  <2>8. (/\ rxBuf \in Bytes /\ msg.bytes \in Bytes /\ msg.len \in 0..Len(msg.bytes))'
    BY <2>1, <2>2
  <2>9. QED
    BY <2>5, <2>6, <2>7, <2>8 DEF MessageInv
<1>2. CASE UNCHANGED apduVars
  BY <1>2 DEF apduVars, MessageInv
<1>3. QED
  BY <1>1, <1>2 DEF ApduNext

-----------------------------------------------------------------------------
(* Types *)

ParsedType == [hasLc : BOOLEAN, lc : 0..255, hasLe : BOOLEAN, le : 0..256]

LEMMA BodyTyped ==
  ASSUME NEW buf \in Bytes, NEW len \in Nat, Accepts(buf, len)
  PROVE  ApduParse(buf, len) \in ParsedType
<1>1. NoBody \in ParsedType
  BY DEF NoBody, ParsedType
<1>2. \A byte \in 0..255 : LeOf(byte) \in 0..256
  BY DEF LeOf
<1>3. HeaderLen \in Nat /\ DataAt \in Nat
  BY DEF HeaderLen, DataAt
<1>4. PICK lc \in 0..255 : lc = Raw(buf, HeaderLen)
  BY <1>3, RawTyped
<1>5. CASE len = HeaderLen
  BY <1>1, <1>5, ParseCases
<1>6. CASE len = DataAt
  <2>1. PICK le \in 0..256 : le = LeOf(lc)
    BY <1>2
  <2>2. OnlyLe(le) \in ParsedType
    BY DEF OnlyLe, ParsedType
  <2>3. QED
    BY <1>4, <1>6, <2>1, <2>2, ParseCases
<1>7. CASE len > DataAt
  <2>1. LeOf(Raw(buf, DataAt + lc)) \in 0..256
    <3>1. DataAt + lc \in Nat
      BY <1>3
    <3>2. QED
      BY <1>2, <3>1, RawTyped
  <2>2. ApduParse(buf, len) =
          [hasLc |-> TRUE, lc |-> lc, hasLe |-> DataAt + lc < len,
           le |-> IF DataAt + lc < len THEN LeOf(Raw(buf, DataAt + lc)) ELSE 0]
    BY <1>4, <1>7, ParseCases
  <2>3. PICK le \in 0..256 :
          le = IF DataAt + lc < len THEN LeOf(Raw(buf, DataAt + lc)) ELSE 0
    BY <2>1
  <2>4. CASE DataAt + lc < len
    <3>1. ApduParse(buf, len) = [hasLc |-> TRUE, lc |-> lc, hasLe |-> TRUE, le |-> le]
      BY <2>2, <2>3, <2>4
    <3>2. QED
      BY <3>1 DEF ParsedType
  <2>5. CASE ~(DataAt + lc < len)
    <3>1. (DataAt + lc < len) = FALSE
      BY <1>3, <2>5
    <3>2. ApduParse(buf, len) = [hasLc |-> TRUE, lc |-> lc, hasLe |-> FALSE, le |-> le]
      BY <2>2, <2>3, <3>1
    <3>3. QED
      BY <3>2 DEF ParsedType
  <2>6. QED
    BY <2>4, <2>5
<1>8. QED
  BY <1>5, <1>6, <1>7 DEF Accepts, HeaderLen, DataAt

LEMMA CmdTyped ==
  ASSUME NEW ins \in DOMAIN Args, NEW arg \in Args[ins], NEW p \in ParsedType
  PROVE  Cmd(ins, arg, p) \in AllCommands
<1>1. PICK le \in NoLe..255 : le = IF p.hasLe THEN p.le % 256 ELSE NoLe
  BY DEF NoLe, ParsedType
<1>2. Cmd(ins, arg, p) = [ins |-> ins, arg |-> arg, le |-> le]
  BY <1>1 DEF Cmd
<1>3. Cmd(ins, arg, p) \in [ins : {ins}, arg : Args[ins], le : NoLe..255]
  BY <1>2
<1>4. QED
  BY <1>3 DEF AllCommands

LEMMA CommandTyped ==
  ASSUME NEW buf \in Bytes, NEW len \in Nat
  PROVE  CommandOf(buf, len) \in AllCommands
<1>1. /\ DOMAIN Args = {"malformed", "otherCla", "otherIns", "SELECT", "VERIFY", "GETDATA",
                       "GETRESPONSE", "GENAUTH"}
      /\ Args["malformed"] = {"none"} /\ Args["otherCla"] = {"none"}
      /\ Args["otherIns"] = {"none"} /\ Args["GETRESPONSE"] = {"none"}
      /\ Args["SELECT"] = DOMAIN SelectSW \cup {"pivAid"}
      /\ Args["VERIFY"] = DOMAIN VerifySW \cup {"wrongPin", "rightPin"}
      /\ Args["GETDATA"] = DOMAIN GetDataSW \cup Objects
      /\ Args["GENAUTH"] = DOMAIN AlgKeySW \cup DOMAIN TemplateSW \cup Digests
  BY DEF Args
<1>2. /\ DOMAIN SelectSW = {"badP1", "shortAid", "otherAid"}
      /\ DOMAIN VerifySW = {"badP1", "otherPin", "noData", "badLength"}
      /\ DOMAIN GetDataSW = {"badP1P2", "malformed", "otherTag"}
      /\ DOMAIN AlgKeySW = {"badAlg", "otherKey"}
      /\ DOMAIN TemplateSW = {"tooShort", "badTemplate"}
  BY DEF SelectSW, VerifySW, GetDataSW, AlgKeySW, TemplateSW
<1>3. CASE ~Accepts(buf, len)
  <2>1. NoBody \in ParsedType
    BY DEF NoBody, ParsedType
  <2>2. Cmd("malformed", "none", NoBody) \in AllCommands
    BY <1>1, <2>1, CmdTyped
  <2>3. QED
    BY <1>3, <2>2 DEF CommandOf
<1>4. CASE Accepts(buf, len)
  <2>1. PICK p \in ParsedType : p = ApduParse(buf, len)
    BY <1>4, BodyTyped
  <2>2. /\ Cmd("otherCla", "none", p) \in AllCommands
        /\ Cmd("otherIns", "none", p) \in AllCommands
        /\ Cmd("GETRESPONSE", "none", p) \in AllCommands
    BY <1>1, CmdTyped
  <2>3. Cmd("SELECT", SelectArg(buf, p), p) \in AllCommands
    <3>1. SelectArg(buf, p) \in Args["SELECT"]
      BY <1>1, <1>2, HandlerArgs
    <3>2. QED
      BY <1>1, <3>1, CmdTyped
  <2>4. Cmd("VERIFY", VerifyArg(buf, p), p) \in AllCommands
    <3>1. VerifyArg(buf, p) \in Args["VERIFY"]
      BY <1>1, <1>2, HandlerArgs
    <3>2. QED
      BY <1>1, <3>1, CmdTyped
  <2>5. Cmd("GETDATA", GetDataArg(buf, p), p) \in AllCommands
    <3>1. GetDataArg(buf, p) \in Args["GETDATA"]
      BY <1>1, <1>2, HandlerArgs
    <3>2. QED
      BY <1>1, <3>1, CmdTyped
  <2>6. Cmd("GENAUTH", GenAuthArg(buf, p), p) \in AllCommands
    <3>1. GenAuthArg(buf, p) \in Args["GENAUTH"]
      BY <1>1, <1>2, HandlerArgs
    <3>2. QED
      BY <1>1, <3>1, CmdTyped
  <2>7. CommandOf(buf, len) \in
          {Cmd("otherCla", "none", p), Cmd("otherIns", "none", p),
           Cmd("GETRESPONSE", "none", p), Cmd("SELECT", SelectArg(buf, p), p),
           Cmd("VERIFY", VerifyArg(buf, p), p), Cmd("GETDATA", GetDataArg(buf, p), p),
           Cmd("GENAUTH", GenAuthArg(buf, p), p)}
    <3> HIDE DEF Cmd
    <3>1. QED
      BY <1>4, <2>1 DEF CommandOf
  <2>8. QED
    BY <2>2, <2>3, <2>4, <2>5, <2>6, <2>7
<1>5. QED
  BY <1>3, <1>4

LEMMA DigestTyped ==
  ASSUME NEW buf \in Bytes, NEW len
  PROVE  DigestOf(buf, CommandOf(buf, len)) \in Bytes
<1>1. CASE CommandOf(buf, len).arg \notin Digests
  BY <1>1 DEF DigestOf, Bytes
<1>2. CASE CommandOf(buf, len).arg \in Digests
  <2>1. ~BadTemplate(buf, ApduParse(buf, len).lc)
    BY <1>2, OnlyTemplatesSigned
  <2>2. PICK n \in 1..64 : HashLen(buf) = n
    BY <2>1 DEF BadTemplate
  <2>3. PICK from \in Nat : from = DataAt + ChallengeAt(buf) + 4
    BY DEF DataAt, ChallengeAt
  <2>4. \A i \in 1..n : Raw(buf, from + i - 1) \in 0..255
    <3> SUFFICES ASSUME NEW i \in 1..n PROVE Raw(buf, from + i - 1) \in 0..255
      OBVIOUS
    <3>1. from + i - 1 \in Nat
      OBVIOUS
    <3>2. QED
      BY <3>1, RawTyped
  <2>5. RawBytes(buf, from, n) \in Bytes
    BY <2>4 DEF RawBytes, Bytes
  <2>6. QED
    BY <1>2, <2>2, <2>3, <2>5 DEF DigestOf
<1>3. QED
  BY <1>1, <1>2

(* piv_process_apdu() makes one of the commands of PivCommands out of any  *)
(* bytes whatever, so that Piv, which starts from these commands, leaves   *)
(* nothing out that a host can send; and what is signed are bytes.         *)
THEOREM ApduTypeCorrect == ApduSpec => []ApduTypeOK
<1>1. ApduInit => ApduTypeOK
  <2> SUFFICES ASSUME ApduInit PROVE ApduTypeOK
    OBVIOUS
  <2>1. NoBody \in ParsedType
    BY DEF NoBody, ParsedType
  <2>2. NoCommand \in AllCommands
    <3>1. "malformed" \in DOMAIN Args /\ "none" \in Args["malformed"]
      BY DEF Args
    <3>2. QED
      BY <2>1, <3>1, CmdTyped DEF NoCommand
  <2>3. QED
    BY <2>1, <2>2, ApduAssumption DEF ApduInit, ApduTypeOK, ParsedType
<1>2. MessageInv /\ MessageInv' /\ ApduTypeOK /\ [ApduNext]_apduVars => ApduTypeOK'
  <2> SUFFICES ASSUME MessageInv, MessageInv', ApduTypeOK, [ApduNext]_apduVars
               PROVE  ApduTypeOK'
    OBVIOUS
  <2>1. ASSUME NEW m \in Messages, Receive(m) PROVE ApduTypeOK'
    <3>1. PICK buf \in Bytes : buf = rxBuf' /\ m.len \in Nat /\ Len(m.bytes) \in Nat
      BY ApduAssumption DEF MessageInv, Bytes
    <3>2. /\ body' = IF Accepts(buf, m.len) THEN ApduParse(buf, m.len) ELSE NoBody
          /\ cmd' = CommandOf(buf, m.len)
          /\ digest' = DigestOf(buf, CommandOf(buf, m.len))
      BY <2>1, <3>1 DEF Receive
    <3>3. body' \in ParsedType
      <4>1. NoBody \in ParsedType
        BY DEF NoBody, ParsedType
      <4>2. QED
        BY <3>1, <3>2, <4>1, BodyTyped
    <3>4. cmd' \in AllCommands
      BY <3>1, <3>2, CommandTyped
    <3>5. digest' \in Bytes
      BY <3>1, <3>2, DigestTyped
    <3>6. msg' \in Messages \cup {NoMessage}
      BY <2>1 DEF Receive
    <3>7. handled' \in 0..MaxMessages
      BY <2>1, ApduAssumption DEF Receive, ApduTypeOK
    <3>8. QED
      BY <3>1, <3>3, <3>4, <3>5, <3>6, <3>7 DEF ApduTypeOK, ParsedType, Bytes
  <2>2. CASE UNCHANGED apduVars
    BY <2>2 DEF apduVars, ApduTypeOK
  <2>3. QED
    BY <2>1, <2>2 DEF ApduNext
<1>3. QED
  BY <1>1, <1>2, MessageInit, MessageStep, PTL DEF ApduSpec

-----------------------------------------------------------------------------
(* What the host may rely on *)

(* apdu_parse() leaves nothing behind that reaches over the end of the     *)
(* message, whatever bytes the host sent and however few came.             *)
THEOREM ParsedInside == ApduSpec => []ParsedInsideMessage
<1>1. ASSUME MessageInv PROVE ParsedInsideMessage
  <2> SUFFICES ASSUME cmd.ins # "malformed" PROVE
        HeaderLen + (IF body.hasLc THEN 1 + body.lc ELSE 0)
                  + (IF body.hasLe THEN 1 ELSE 0) <= msg.len
    BY DEF ParsedInsideMessage
  <2>1. Accepts(rxBuf, msg.len) /\ body = ApduParse(rxBuf, msg.len) /\ msg.len \in Nat
    <3>1. rxBuf \in Bytes /\ msg.len \in Nat /\ cmd = CommandOf(rxBuf, msg.len)
          /\ (Accepts(rxBuf, msg.len) => body = ApduParse(rxBuf, msg.len))
      BY <1>1 DEF MessageInv, Bytes
    <3>2. Accepts(rxBuf, msg.len)
      BY <3>1, MalformedMeansRejected
    <3>3. QED
      BY <3>1, <3>2
  <2>2. PICK lc \in 0..255 : lc = Raw(rxBuf, HeaderLen)
    BY <1>1, RawTyped DEF MessageInv, HeaderLen
  <2>3. CASE msg.len = HeaderLen
    BY <2>1, <2>3 DEF ApduParse, NoBody, HeaderLen, DataAt
  <2>4. CASE msg.len = DataAt
    <3>1. body = OnlyLe(LeOf(Raw(rxBuf, HeaderLen)))
      BY <2>1, <2>4 DEF ApduParse, HeaderLen, DataAt
    <3>2. body.hasLc = FALSE
      BY <3>1 DEF OnlyLe, NoBody
    <3>3. QED
      BY <2>4, <3>2 DEF HeaderLen, DataAt
  <2>5. CASE msg.len > DataAt
    <3>1. DataAt + lc <= msg.len
      BY <2>1, <2>2, <2>5 DEF Accepts
    <3>2. /\ body.hasLc = TRUE /\ body.lc = lc
          /\ body.hasLe = (DataAt + lc < msg.len)
      BY <2>1, <2>2, <2>5 DEF ApduParse, HeaderLen, DataAt
    <3>3. HeaderLen + (1 + lc) + (IF DataAt + lc < msg.len THEN 1 ELSE 0) <= msg.len
      BY <2>1, <2>2, <3>1 DEF HeaderLen, DataAt
    <3>4. QED
      BY <3>2, <3>3, Zenon
  <2>6. QED
    BY <2>1, <2>3, <2>4, <2>5 DEF Accepts, HeaderLen, DataAt
<1>2. QED
  BY <1>1, MessageInit, MessageStep, PTL DEF ApduSpec

(* What a command is taken for, and the bytes that are signed for it, are  *)
(* those of the message that came last: nothing that an earlier message    *)
(* left in the receive buffer reaches a handler, and nothing beyond        *)
(* dwLength, but for the tag of a GET DATA whose lc is too small for it.   *)
THEOREM AnswersFromMessage == ApduSpec => []AnswerFromMessage
<1>1. ASSUME MessageInv PROVE AnswerFromMessage
  <2> DEFINE front == SubSeq(msg.bytes, 1, msg.len)
             alone == Overwrite(Poison, front)
  <2> SUFFICES ASSUME ~TagCutShort
               PROVE  cmd = CommandOf(alone, msg.len) /\ digest = DigestOf(alone, cmd)
    BY DEF AnswerFromMessage
  <2>1. PICK len \in Nat : len = msg.len /\ len <= Len(msg.bytes)
    BY <1>1 DEF MessageInv
  <2>2. PICK bytes \in Bytes : bytes = msg.bytes
    BY <1>1 DEF MessageInv
  <2>3. /\ front \in Bytes /\ Len(front) = len
        /\ \A i \in 1..len : front[i] = bytes[i]
    <3>1. len \in 0..Len(bytes) /\ front = SubSeq(bytes, 1, len)
      BY <2>1, <2>2
    <3> HIDE DEF front
    <3>2. QED
      BY <3>1, FrontTyped
  <2>4. Poison \in Bytes
    BY DEF Poison, Bytes
  <2>5. alone \in Bytes
    BY <2>3, <2>4, OverwriteTyped
  <2>6. Agree(rxBuf, alone, len)
    <3> SUFFICES ASSUME NEW i \in 0..len - 1 PROVE Raw(rxBuf, i) = Raw(alone, i)
      BY DEF Agree
    <3>1. Raw(rxBuf, i) = bytes[i + 1]
      BY <1>1, <2>1, <2>2 DEF MessageInv
    <3> HIDE DEF front
    <3>2. i \in Nat /\ i < Len(front) /\ i + 1 \in 1..len
      BY <2>3
    <3>3. front[i + 1] = bytes[i + 1]
      BY <2>3, <3>2
    <3>4. Raw(alone, i) = front[i + 1]
      BY <2>3, <2>4, <3>2, OverwriteFront
    <3>5. QED
      BY <3>1, <3>3, <3>4
  <2>7. /\ rxBuf \in Bytes /\ cmd = CommandOf(rxBuf, len) /\ digest = DigestOf(rxBuf, cmd)
        /\ Accepts(rxBuf, len) => body = ApduParse(rxBuf, len)
    BY <1>1, <2>1 DEF MessageInv
  <2> HIDE DEF alone
  <2>8. CASE Accepts(rxBuf, len)
    <3>1. SameMessage(rxBuf, alone, len)
      BY <2>1, <2>5, <2>6, <2>7, <2>8 DEF SameMessage
    <3>2. Raw(rxBuf, 0) = 0 /\ Raw(rxBuf, 1) = \hCB =>
            ~(ApduParse(rxBuf, len).lc < 5 /\ Data(rxBuf, 1) = 3)
      <4> SUFFICES ASSUME Raw(rxBuf, 0) = 0, Raw(rxBuf, 1) = \hCB
                   PROVE  ~(ApduParse(rxBuf, len).lc < 5 /\ Data(rxBuf, 1) = 3)
        OBVIOUS
      <4>1. CommandOf(rxBuf, len).ins = "GETDATA"
        BY <2>8 DEF CommandOf, Cmd
      <4>2. QED
        BY <2>7, <2>8, <4>1 DEF TagCutShort
    <3>3. CommandOf(rxBuf, len) = CommandOf(alone, len)
      BY <3>1, <3>2, CommandSame
    <3>4. DigestOf(rxBuf, cmd) = DigestOf(alone, cmd)
      BY <2>7, <3>1, DigestSame
    <3>5. QED
      BY <2>1, <2>7, <3>3, <3>4
  <2>9. CASE ~Accepts(rxBuf, len)
    <3>1. ~Accepts(alone, len)
      <4> SUFFICES ASSUME Accepts(alone, len) PROVE FALSE
        OBVIOUS
      <4>1. SameMessage(alone, rxBuf, len)
        BY <2>1, <2>5, <2>6, <2>7 DEF SameMessage, Agree
      <4>2. QED
        BY <2>9, <4>1, ParseSame
    <3>2. CommandOf(alone, len) = NoCommand /\ CommandOf(rxBuf, len) = NoCommand
      BY <2>9, <3>1 DEF CommandOf, NoCommand
    <3>3. NoCommand.arg \notin Digests
      BY DEF NoCommand, Cmd, Digests
    <3>4. DigestOf(alone, NoCommand) = <<>> /\ DigestOf(rxBuf, NoCommand) = <<>>
      BY <3>3 DEF DigestOf
    <3>5. QED
      BY <2>1, <2>7, <3>2, <3>4
  <2>10. QED
    BY <2>8, <2>9
<1>2. QED
  BY <1>1, MessageInit, MessageStep, PTL DEF ApduSpec

-----------------------------------------------------------------------------
(* Sequences of bytes *)

LEMMA SliceTyped ==
  ASSUME NEW s \in Bytes, NEW from \in 1..Len(s) + 1, NEW to \in from - 1..Len(s)
  PROVE  /\ SubSeq(s, from, to) \in Bytes
         /\ Len(SubSeq(s, from, to)) = to - from + 1
         /\ \A i \in 1..to - from + 1 : SubSeq(s, from, to)[i] = s[from + i - 1]
<1>1. Len(s) \in Nat /\ from \in Int /\ to \in Int
  BY DEF Bytes
<1>2. \A i \in from..to : s[i] \in 0..255
  <2> SUFFICES ASSUME NEW i \in from..to PROVE s[i] \in 0..255
    OBVIOUS
  <2>1. i \in 1..Len(s)
    BY <1>1
  <2>2. QED
    BY <2>1, ElementOfSeq DEF Bytes
<1>3. SubSeq(s, from, to) \in Seq(0..255)
  BY <1>1, <1>2, SubSeqProperties
<1>4. Len(SubSeq(s, from, to)) = to - from + 1
  <2>1. Len(SubSeq(s, from, to)) = IF from <= to THEN to - from + 1 ELSE 0
    BY <1>1, <1>2, SubSeqProperties
  <2>2. QED
    BY <1>1, <2>1
<1>5. \A i \in 1..to - from + 1 : SubSeq(s, from, to)[i] = s[from + i - 1]
  BY <1>1, <1>2, SubSeqProperties
<1>6. QED
  BY <1>3, <1>4, <1>5 DEF Bytes

(* The sequence u is s and behind it t. *)
Joined(s, t, u) == /\ u \in Bytes /\ Len(u) = Len(s) + Len(t)
                   /\ \A i \in 1..Len(s) : u[i] = s[i]
                   /\ \A i \in 1..Len(t) : u[Len(s) + i] = t[i]

LEMMA JoinTyped ==
  ASSUME NEW s \in Bytes, NEW t \in Bytes
  PROVE  Joined(s, t, s \o t)
<1>1. Len(s) \in Nat /\ Len(t) \in Nat
  BY DEF Bytes
<1>2. s \o t \in Bytes /\ Len(s \o t) = Len(s) + Len(t)
  BY ConcatProperties DEF Bytes
<1>3. \A i \in 1..Len(s) + Len(t) :
        (s \o t)[i] = IF i <= Len(s) THEN s[i] ELSE t[i - Len(s)]
  BY ConcatProperties DEF Bytes
<1>4. \A i \in 1..Len(s) : (s \o t)[i] = s[i]
  BY <1>1, <1>3
<1>5. \A i \in 1..Len(t) : (s \o t)[Len(s) + i] = t[i]
  <2> SUFFICES ASSUME NEW i \in 1..Len(t) PROVE (s \o t)[Len(s) + i] = t[i]
    OBVIOUS
  <2>1. Len(s) + i \in 1..Len(s) + Len(t) /\ ~(Len(s) + i <= Len(s))
        /\ (Len(s) + i) - Len(s) = i
    BY <1>1
  <2>2. QED
    BY <1>3, <2>1
<1>6. QED
  BY <1>2, <1>4, <1>5 DEF Joined

LEMMA PrefixOf ==
  ASSUME NEW s \in Bytes, NEW t \in Bytes
  PROVE  IsPrefix(s, t) <=> Len(s) <= Len(t) /\ \A i \in 1..Len(s) : s[i] = t[i]
<1>1. Len(s) \in Nat /\ Len(t) \in Nat
  BY DEF Bytes
<1>2. SubSeq(s, 1, Len(s)) \in Bytes /\ Len(SubSeq(s, 1, Len(s))) = Len(s)
      /\ \A i \in 1..Len(s) : SubSeq(s, 1, Len(s))[i] = s[i]
  BY <1>1, FrontTyped
<1>3. ASSUME Len(s) <= Len(t)
      PROVE  SubSeq(s, 1, Len(s)) = SubSeq(t, 1, Len(s))
               <=> \A i \in 1..Len(s) : s[i] = t[i]
  <2> DEFINE u == SubSeq(s, 1, Len(s))
             v == SubSeq(t, 1, Len(s))
  <2>1. v \in Bytes /\ Len(v) = Len(s) /\ \A i \in 1..Len(s) : v[i] = t[i]
    BY <1>1, <1>3, FrontTyped
  <2>2. u \in Bytes /\ Len(u) = Len(s) /\ \A i \in 1..Len(s) : u[i] = s[i]
    BY <1>2
  <2> HIDE DEF u, v
  <2>3. ASSUME \A i \in 1..Len(s) : s[i] = t[i] PROVE u = v
    BY <2>1, <2>2, <2>3, SeqEqual DEF Bytes
  <2>4. ASSUME u = v, NEW i \in 1..Len(s) PROVE s[i] = t[i]
    BY <2>1, <2>2, <2>4
  <2>5. u = v <=> \A i \in 1..Len(s) : s[i] = t[i]
    BY <2>3, <2>4
  <2>6. QED
    BY <2>5 DEF u, v
<1>4. QED
  BY <1>3 DEF IsPrefix

-----------------------------------------------------------------------------
(* What gets signed *)

(* What the template holds where, for a length of k bytes and a challenge of n. *)
FrameHolds(f, l, k, d, n) ==
  /\ f \in Bytes /\ Len(f) = k + 5 + n
  /\ f[1] = \h7C /\ \A i \in 1..k : f[1 + i] = l[i]
  /\ f[k + 2] = \h82 /\ f[k + 3] = 0 /\ f[k + 4] = \h81 /\ f[k + 5] = n
  /\ \A i \in 1..n : f[k + 5 + i] = d[i]

LEMMA FrameBytes ==
  ASSUME NEW l \in Bytes, NEW k \in 1..2, Len(l) = k,
         NEW d \in Bytes, NEW n \in 1..64, Len(d) = n
  PROVE  FrameHolds(Framed(l, d), l, k, d, n)
<1> DEFINE a == <<\h7C>>
           b == a \o l
           h == <<\h82, 0, \h81, n>>
           c == b \o h
           f == c \o d
<1>1. a \in Bytes /\ Len(a) = 1 /\ a[1] = \h7C
  BY DEF Bytes
<1>2. h \in Bytes /\ Len(h) = 4 /\ h[1] = \h82 /\ h[2] = 0 /\ h[3] = \h81 /\ h[4] = n
  BY DEF Bytes
<1>3. f = Framed(l, d)
  BY DEF Framed
<1> HIDE DEF a, h
<1>4. Joined(a, l, b)
  BY <1>1, JoinTyped
<1> HIDE DEF b
<1>5. /\ b \in Bytes /\ Len(b) = 1 + k /\ b[1] = \h7C
      /\ \A i \in 1..k : b[1 + i] = l[i]
  BY <1>1, <1>4 DEF Joined
<1>6. Joined(b, h, c)
  BY <1>2, <1>5, JoinTyped
<1> HIDE DEF c
<1>7. /\ c \in Bytes /\ Len(c) = k + 5
      /\ \A i \in 1..1 + k : c[i] = b[i]
      /\ \A i \in 1..4 : c[1 + k + i] = h[i]
  BY <1>2, <1>5, <1>6 DEF Joined
<1>8. Joined(c, d, f)
  BY <1>7, JoinTyped
<1> HIDE DEF f
<1>9. /\ f \in Bytes /\ Len(f) = k + 5 + n
      /\ \A i \in 1..k + 5 : f[i] = c[i]
      /\ \A i \in 1..n : f[k + 5 + i] = d[i]
  BY <1>7, <1>8 DEF Joined
<1>10. f[1] = \h7C
  <2>1. 1 \in 1..1 + k /\ 1 \in 1..k + 5
    OBVIOUS
  <2>2. QED
    BY <1>5, <1>7, <1>9, <2>1
<1>11. ASSUME NEW i \in 1..k PROVE f[1 + i] = l[i]
  <2>1. 1 + i \in 1..1 + k /\ 1 + i \in 1..k + 5
    OBVIOUS
  <2>2. QED
    BY <1>5, <1>7, <1>9, <2>1
<1>12. ASSUME NEW i \in 1..4 PROVE f[1 + k + i] = h[i]
  <2>1. 1 + k + i \in 1..k + 5
    OBVIOUS
  <2>2. QED
    BY <1>7, <1>9, <2>1
<1>13. f[k + 2] = \h82 /\ f[k + 3] = 0 /\ f[k + 4] = \h81 /\ f[k + 5] = n
  <2>1. /\ f[1 + k + 1] = \h82 /\ f[1 + k + 2] = 0
        /\ f[1 + k + 3] = \h81 /\ f[1 + k + 4] = n
    BY <1>2, <1>12
  <2>2. 1 + k + 1 = k + 2 /\ 1 + k + 2 = k + 3 /\ 1 + k + 3 = k + 4 /\ 1 + k + 4 = k + 5
    OBVIOUS
  <2>3. QED
    BY <2>1, <2>2
<1>14. QED
  BY <1>3, <1>9, <1>10, <1>11, <1>13 DEF FrameHolds

(* What the buffer holds behind Lc, as a sequence. *)
Reads(data, buf, lc) == /\ data \in Bytes /\ Len(data) = lc
                        /\ \A k \in 1..lc : data[k] = Data(buf, k - 1)

(* A template that passes the checks of the walk is one, and the bytes it  *)
(* ends at are its challenge.                                              *)
LEMMA TemplateFound ==
  ASSUME NEW buf \in Bytes, NEW lc \in 4..255, NEW data, Reads(data, buf, lc),
         ~BadTemplate(buf, lc)
  PROVE  RawBytes(buf, DataAt + ChallengeAt(buf) + 4, HashLen(buf)) \in Challenges(data)
<1>1. PICK k \in 1..2 : ChallengeAt(buf) = k + 1 /\ (k = 2 <=> Data(buf, 1) = \h81)
  BY DEF ChallengeAt
<1>2. /\ Data(buf, 0) = \h7C /\ Data(buf, 1) \notin \h82..\hFF \cup {\h80}
      /\ Data(buf, k + 1) = \h82 /\ Data(buf, k + 2) = 0 /\ Data(buf, k + 3) = \h81
      /\ HashLen(buf) \in 1..64 /\ ~(lc < k + 5 + HashLen(buf))
  <2>1. k + 1 + 1 = k + 2 /\ k + 1 + 2 = k + 3 /\ k + 1 + 4 = k + 5
    OBVIOUS
  <2>2. QED
    BY <1>1, <2>1 DEF BadTemplate
<1>3. PICK n \in 1..64 : n = HashLen(buf) /\ n = Data(buf, k + 4) /\ k + 5 + n <= lc
  <2>1. HashLen(buf) = Data(buf, k + 4)
    <3>1. k + 1 + 3 = k + 4
      OBVIOUS
    <3>2. QED
      BY <1>1, <3>1 DEF HashLen
  <2>2. QED
    BY <1>2, <2>1
<1>4. /\ data \in Bytes /\ Len(data) = lc
      /\ \A i \in 1..lc : data[i] = Data(buf, i - 1)
  BY DEF Reads
<1> DEFINE m == k + 5 + n
<1>0. /\ k \in {1, 2} /\ m \in k + 6..Len(data) /\ Len(data) \in Nat
      /\ m - (k + 6) + 1 = n
  <2>1. Len(data) = lc /\ n \in 1..64 /\ k + 5 + n <= lc
    BY <1>3, <1>4
  <2>2. QED
    BY <2>1
<1> HIDE DEF m
<1>5. /\ data[1] = \h7C /\ data[2] = Data(buf, 1) /\ data[k + 2] = \h82 /\ data[k + 3] = 0
      /\ data[k + 4] = \h81 /\ data[k + 5] = n
  <2>1. /\ 1 \in 1..lc /\ 2 \in 1..lc /\ k + 2 \in 1..lc /\ k + 3 \in 1..lc
        /\ k + 4 \in 1..lc /\ k + 5 \in 1..lc
    BY <1>3
  <2>2. /\ data[1] = Data(buf, 0) /\ data[2] = Data(buf, 1)
        /\ data[k + 2] = Data(buf, k + 1) /\ data[k + 3] = Data(buf, k + 2)
        /\ data[k + 4] = Data(buf, k + 3) /\ data[k + 5] = Data(buf, k + 4)
    <3>1. /\ k + 2 - 1 = k + 1 /\ k + 3 - 1 = k + 2 /\ k + 4 - 1 = k + 3 /\ k + 5 - 1 = k + 4
          /\ 1 - 1 = 0 /\ 2 - 1 = 1
      OBVIOUS
    <3>2. QED
      BY <1>4, <2>1, <3>1
  <2>3. QED
    BY <1>2, <1>3, <2>2
<1> DEFINE l == SubSeq(data, 2, k + 1)
           d == SubSeq(data, k + 6, m)
<1>6. l \in Bytes /\ Len(l) = k /\ \A i \in 1..k : l[i] = data[1 + i]
  <2>1. 2 \in 1..Len(data) + 1 /\ k + 1 \in 2 - 1..Len(data) /\ k + 1 - 2 + 1 = k
    BY <1>4
  <2>2. l \in Bytes
    BY <1>4, <2>1, SliceTyped
  <2>3. Len(l) = k
    BY <1>4, <2>1, SliceTyped
  <2>4. \A i \in 1..k : l[i] = data[2 + i - 1]
    BY <1>4, <2>1, SliceTyped
  <2>5. \A i \in 1..k : 2 + i - 1 = 1 + i
    OBVIOUS
  <2>6. QED
    BY <2>2, <2>3, <2>4, <2>5
<1>7. d \in Bytes /\ Len(d) = n /\ \A i \in 1..n : d[i] = data[k + 5 + i]
  <2>1. k + 6 \in 1..Len(data) + 1 /\ m \in (k + 6) - 1..Len(data)
    BY <1>0
  <2>2. d \in Bytes
    BY <1>4, <2>1, SliceTyped, Zenon
  <2>3. Len(d) = m - (k + 6) + 1
    BY <1>4, <2>1, SliceTyped, Zenon
  <2>4. \A i \in 1..m - (k + 6) + 1 : d[i] = data[k + 6 + i - 1]
    BY <1>4, <2>1, SliceTyped, Zenon
  <2>5. \A i \in 1..n : k + 6 + i - 1 = k + 5 + i
    OBVIOUS
  <2>6. QED
    BY <1>0, <2>2, <2>3, <2>4, <2>5
<1>8. RawBytes(buf, DataAt + ChallengeAt(buf) + 4, HashLen(buf)) = d
  <2> DEFINE r == RawBytes(buf, DataAt + (k + 5), n)
  <2>1. DataAt + ChallengeAt(buf) + 4 = DataAt + (k + 5)
    BY <1>1 DEF DataAt
  <2>2. \A i \in 1..n : Raw(buf, DataAt + (k + 5) + i - 1) = d[i]
    <3> SUFFICES ASSUME NEW i \in 1..n PROVE Raw(buf, DataAt + (k + 5) + i - 1) = d[i]
      OBVIOUS
    <3>1. k + 5 + i \in 1..lc
      BY <1>3
    <3>2. data[k + 5 + i] = Data(buf, k + 5 + i - 1)
      BY <1>4, <3>1
    <3>3. DataAt + (k + 5) + i - 1 = DataAt + (k + 5 + i - 1)
      BY DEF DataAt
    <3> HIDE DEF d
    <3>4. QED
      BY <1>7, <3>2, <3>3 DEF Data
  <2> HIDE DEF d
  <2>3. \A i \in 1..n : d[i] \in 0..255
    BY <1>7, ElementOfSeq DEF Bytes
  <2>4. r = [i \in 1..n |-> d[i]]
    BY <2>2, Zenon DEF RawBytes
  <2> HIDE DEF r
  <2>5. r \in Bytes /\ Len(r) = n /\ \A i \in 1..n : r[i] = d[i]
    BY <2>3, <2>4 DEF Bytes
  <2>6. r = d
    BY <1>7, <2>5, SeqEqual DEF Bytes
  <2>7. QED
    BY <1>3, <2>1, <2>6, Zenon DEF r
<1>9. d \in {SubSeq(data, i, j) : i \in 7..8, j \in 7..Len(data)}
  <2>1. k + 6 \in 7..8 /\ m \in 7..Len(data)
    BY <1>0
  <2>2. QED
    BY <2>1
<1>10. l \in {SubSeq(data, 2, 2), SubSeq(data, 2, 3)}
  <2>1. k = 1 \/ k = 2
    OBVIOUS
  <2>2. QED
    BY <2>1
<1> HIDE DEF l, d
<1>11. IsPrefix(Framed(l, d), data)
  <2>1. PICK f : f = Framed(l, d) /\ FrameHolds(f, l, k, d, n)
    BY <1>6, <1>7, FrameBytes
  <2>2. ASSUME NEW i \in 1..k + 5 + n PROVE f[i] = data[i]
    <3>1. CASE i \in 2..k + 1
      <4>1. PICK x \in 1..k : i = 1 + x
        BY <3>1
      <4>2. QED
        BY <1>6, <2>1, <4>1 DEF FrameHolds
    <3>2. CASE i \in k + 6..k + 5 + n
      <4>1. PICK x \in 1..n : i = k + 5 + x
        <5>1. i - (k + 5) \in 1..n /\ i = k + 5 + (i - (k + 5))
          BY <3>2
        <5>2. QED
          BY <5>1
      <4>2. f[k + 5 + x] = d[x]
        BY <2>1, <4>1 DEF FrameHolds
      <4>3. QED
        BY <1>7, <4>1, <4>2
    <3>3. CASE i \in {1, k + 2, k + 3, k + 4, k + 5}
      BY <1>5, <2>1, <3>3 DEF FrameHolds
    <3>4. QED
      BY <3>1, <3>2, <3>3
  <2>3. f \in Bytes /\ Len(f) = k + 5 + n /\ k + 5 + n <= Len(data)
    BY <1>3, <1>4, <2>1 DEF FrameHolds
  <2>4. IsPrefix(f, data)
    BY <1>4, <2>2, <2>3, PrefixOf
  <2>5. QED
    BY <2>1, <2>4
<1>12. IsLengthField(l)
  <2>1. l[1] = Data(buf, 1) /\ l # <<>>
    BY <1>5, <1>6
  <2>2. PICK x \in 0..255 : x = Data(buf, 1)
    BY RawTyped DEF Data, DataAt
  <2>3. x < \h80 \/ x = \h81
    BY <1>2, <2>2
  <2>4. k = 2 <=> x = \h81
    BY <1>1, <2>2
  <2>5. QED
    BY <1>6, <2>1, <2>2, <2>3, <2>4 DEF IsLengthField
<1>13. IsTemplate(data, d)
  BY <1>10, <1>11, <1>12, Zenon DEF IsTemplate
<1>14. Len(d) \in 1..64
  BY <1>7
<1>15. d \in Challenges(data)
  BY <1>9, <1>13, <1>14, SMT DEF Challenges
<1>16. QED
  BY <1>8, <1>15

(* The length of the template takes k bytes, in a form the walk lets pass. *)
LengthIn(buf, k) == /\ Data(buf, 1) \in 0..255
                    /\ k = 1 => Data(buf, 1) < \h80
                    /\ k # 1 => Data(buf, 1) = \h81

LEMMA LengthForm ==
  ASSUME NEW buf, NEW k \in 1..2, LengthIn(buf, k)
  PROVE  ChallengeAt(buf) = k + 1 /\ Data(buf, 1) \notin \h82..\hFF \cup {\h80}
<1>1. ChallengeAt(buf) = k + 1
  BY DEF ChallengeAt, LengthIn
<1>2. Data(buf, 1) \notin \h82..\hFF \cup {\h80}
  BY DEF LengthIn
<1>3. QED
  BY <1>1, <1>2

(* The data in the buffer, lc bytes, begin with the template f. *)
TemplateIn(buf, lc, f, l, k, d, n) ==
  /\ Len(l) = k /\ IsLengthField(l) /\ FrameHolds(f, l, k, d, n)
  /\ k + 5 + n <= lc
  /\ \A x \in 1..k + 5 + n : f[x] = Data(buf, x - 1)

(* It passes the checks of the walk. *)
LEMMA TemplateRead ==
  ASSUME NEW buf, NEW lc \in 0..255, NEW k \in 1..2, NEW l \in Bytes, NEW n \in 1..64,
         NEW d, NEW f, TemplateIn(buf, lc, f, l, k, d, n)
  PROVE  ~BadTemplate(buf, lc) /\ HashLen(buf) = n
<1>0. Len(l) = k /\ IsLengthField(l) /\ FrameHolds(f, l, k, d, n) /\ k + 5 + n <= lc
  BY Zenon DEF TemplateIn
<1>1. \A x \in 1..k + 5 + n : f[x] = Data(buf, x - 1)
  BY Zenon DEF TemplateIn
<1>2. /\ Data(buf, 0) = \h7C /\ Data(buf, 1) = l[1] /\ Data(buf, k + 1) = \h82
       /\ Data(buf, k + 2) = 0 /\ Data(buf, k + 3) = \h81 /\ Data(buf, k + 4) = n
  <2>1. f[1] = \h7C /\ f[1 + 1] = l[1] /\ f[k + 2] = \h82 /\ f[k + 3] = 0
        /\ f[k + 4] = \h81 /\ f[k + 5] = n
    <3>1. 1 \in 1..k
      OBVIOUS
    <3>2. QED
      BY <1>0, <3>1, Zenon DEF FrameHolds
  <2>2. /\ 1 \in 1..k + 5 + n /\ 2 \in 1..k + 5 + n /\ k + 2 \in 1..k + 5 + n
        /\ k + 3 \in 1..k + 5 + n /\ k + 4 \in 1..k + 5 + n /\ k + 5 \in 1..k + 5 + n
    OBVIOUS
  <2>3. /\ f[1] = Data(buf, 0) /\ f[2] = Data(buf, 1) /\ f[k + 2] = Data(buf, k + 1)
        /\ f[k + 3] = Data(buf, k + 2) /\ f[k + 4] = Data(buf, k + 3)
        /\ f[k + 5] = Data(buf, k + 4)
    <3>1. /\ 1 - 1 = 0 /\ 2 - 1 = 1 /\ (k + 2) - 1 = k + 1 /\ (k + 3) - 1 = k + 2
          /\ (k + 4) - 1 = k + 3 /\ (k + 5) - 1 = k + 4
      OBVIOUS
    <3>2. QED
      BY <1>1, <2>2, <3>1
  <2>4. QED
    BY <2>1, <2>3
<1>3. l[1] \in 0..255
  <2>1. 1 \in 1..Len(l)
    BY <1>0
  <2>2. QED
    BY <2>1, ElementOfSeq DEF Bytes
<1>4. ChallengeAt(buf) = k + 1 /\ Data(buf, 1) \notin \h82..\hFF \cup {\h80}
  <2>1. Len(l) = 1 <=> k = 1
    BY <1>0
  <2>2. k = 1 => l[1] < \h80
    BY <1>0, <2>1, Zenon DEF IsLengthField
  <2>3. k # 1 => l[1] = \h81
    BY <1>0, <2>1, Zenon DEF IsLengthField
  <2>4. Data(buf, 1) = l[1]
    BY <1>2
  <2>5. k = 1 => Data(buf, 1) < \h80
    BY <2>2, <2>4
  <2>6. k # 1 => Data(buf, 1) = \h81
    BY <2>3, <2>4
  <2>7. Data(buf, 1) \in 0..255
    BY <1>3, <2>4
  <2>8. LengthIn(buf, k)
    BY <2>5, <2>6, <2>7, Zenon DEF LengthIn
  <2>9. QED
    BY <2>8, LengthForm, Zenon
<1>5. HashLen(buf) = n
  <2>1. k + 1 + 3 = k + 4
    OBVIOUS
  <2>2. QED
    BY <1>2, <1>4, <2>1 DEF HashLen
<1>6. ~BadTemplate(buf, lc)
  <2>1. /\ k + 1 + 1 = k + 2 /\ k + 1 + 2 = k + 3
        /\ ~(lc < k + 1 + 4) /\ ~(lc < k + 1 + 4 + n)
    <3>1. k + 5 + n <= lc
      BY <1>0
    <3>2. QED
      BY <3>1
  <2>2. QED
    BY <1>2, <1>4, <1>5, <2>1 DEF BadTemplate
<1>7. QED
  BY <1>5, <1>6

(* And a template with a challenge passes the checks.                      *)
LEMMA NoneTurnedAway ==
  ASSUME NEW buf, NEW lc \in 0..255, NEW data, Reads(data, buf, lc),
         NEW d \in Challenges(data)
  PROVE  ~BadTemplate(buf, lc)
<1>1. /\ data \in Bytes /\ Len(data) = lc
      /\ \A i \in 1..lc : data[i] = Data(buf, i - 1)
  BY DEF Reads
<1>2. PICK i \in 7..8, j \in 7..Len(data) : d = SubSeq(data, i, j)
  BY DEF Challenges
<1>3. d \in Bytes
  <2>1. i \in 1..Len(data) + 1 /\ j \in i - 1..Len(data)
    BY <1>1
  <2>2. SubSeq(data, i, j) \in Bytes
    BY <1>1, <2>1, SliceTyped
  <2>3. QED
    BY <1>2, <2>2
<1>4. PICK n \in 1..64 : Len(d) = n
  BY DEF Challenges
<1>5. PICK l \in {SubSeq(data, 2, 2), SubSeq(data, 2, 3)} :
        IsLengthField(l) /\ IsPrefix(Framed(l, d), data)
  <2>1. IsTemplate(data, d)
    BY DEF Challenges
  <2>2. QED
    BY <2>1, Zenon DEF IsTemplate
<1>6. PICK k \in 1..2 : l = SubSeq(data, 2, k + 1)
  BY <1>5
<1>7. l \in Bytes /\ Len(l) = k
  <2>1. lc \in 7..255
    <3>1. Len(data) = lc
      BY <1>1
    <3>2. j \in 7..lc
      BY <3>1
    <3>3. QED
      BY <3>2
  <2>2. 2 \in 1..Len(data) + 1 /\ k + 1 \in 2 - 1..Len(data) /\ k + 1 - 2 + 1 = k
    BY <1>1, <2>1
  <2>3. SubSeq(data, 2, k + 1) \in Bytes
    BY <1>1, <2>2, SliceTyped
  <2>4. Len(SubSeq(data, 2, k + 1)) = k
    BY <1>1, <2>2, SliceTyped
  <2>5. QED
    BY <1>6, <2>3, <2>4
<1>8. PICK f : f = Framed(l, d) /\ FrameHolds(f, l, k, d, n)
  BY <1>3, <1>4, <1>7, FrameBytes
<1>9. k + 5 + n <= lc /\ \A x \in 1..k + 5 + n : f[x] = data[x]
  <2>1. f \in Bytes /\ Len(f) = k + 5 + n
    BY <1>8 DEF FrameHolds
  <2>2. Len(f) <= Len(data) /\ \A x \in 1..Len(f) : f[x] = data[x]
    BY <1>1, <1>5, <1>8, <2>1, PrefixOf
  <2>3. QED
    BY <1>1, <2>1, <2>2
<1>10. ASSUME NEW x \in 1..k + 5 + n PROVE f[x] = Data(buf, x - 1)
  <2>1. x \in 1..lc
    <3>1. k + 5 + n <= lc
      BY <1>9
    <3>2. QED
      BY <3>1
  <2>2. f[x] = data[x]
    BY <1>9
  <2>3. QED
    BY <1>1, <2>1, <2>2
<1>11. TemplateIn(buf, lc, f, l, k, d, n)
  BY <1>5, <1>7, <1>8, <1>9, <1>10, Zenon DEF TemplateIn
<1>12. QED
  BY <1>7, <1>11, TemplateRead

LEMMA MessageDataRead ==
  ASSUME MessageInv, Accepts(rxBuf, msg.len), body.lc > 0
  PROVE  body.lc \in 1..255 /\ Reads(MessageData, rxBuf, body.lc)
<1>1. PICK bytes \in Bytes, len \in Nat :
        /\ bytes = msg.bytes /\ len = msg.len /\ len <= Len(bytes)
        /\ \A i \in 0..len - 1 : Raw(rxBuf, i) = bytes[i + 1]
  BY DEF MessageInv, Bytes
<1>2. PICK lc \in 1..255 : lc = body.lc /\ DataAt + lc <= len
  <2>1. SameMessage(rxBuf, rxBuf, len) /\ body = ApduParse(rxBuf, len)
    BY <1>1 DEF SameMessage, Agree, MessageInv
  <2>2. QED
    BY <2>1, BodyInside
<1>3. 6 \in 1..Len(bytes) + 1 /\ 5 + lc \in 6 - 1..Len(bytes) /\ (5 + lc) - 6 + 1 = lc
  BY <1>1, <1>2 DEF DataAt, Bytes
<1>4. MessageData = SubSeq(bytes, 6, 5 + lc)
  BY <1>1, <1>2 DEF MessageData, DataAt
<1>5. MessageData \in Bytes
  BY <1>3, <1>4, SliceTyped
<1>6. Len(MessageData) = lc
  BY <1>3, <1>4, SliceTyped
<1>7. \A i \in 1..lc : MessageData[i] = bytes[6 + i - 1]
  BY <1>3, <1>4, SliceTyped
<1>8. ASSUME NEW i \in 1..lc PROVE MessageData[i] = Data(rxBuf, i - 1)
  <2>1. DataAt + (i - 1) \in 0..len - 1 /\ (DataAt + (i - 1)) + 1 = 6 + i - 1
    BY <1>2 DEF DataAt
  <2>2. QED
    BY <1>1, <1>7, <2>1 DEF Data
<1>9. QED
  BY <1>2, <1>5, <1>6, <1>8 DEF Reads

(* A template is turned away for what its walk finds, not for its length.  *)
LEMMA TurnedAway ==
  ASSUME NEW buf, NEW p, GenAuthArg(buf, p) = "badTemplate"
  PROVE  p.hasLc /\ ~(p.lc < 4) /\ BadTemplate(buf, p.lc)
<1> DEFINE C == <<Check(Raw(buf, 2) # \h11, "badAlg"),
                  Check(Raw(buf, 3) # \h9A, "otherKey"),
                  Check(~p.hasLc \/ p.lc < 4, "tooShort"),
                  Check(BadTemplate(buf, p.lc), "badTemplate")>>
           kind == IF HashLen(buf) = 32 THEN "sha256" ELSE "otherDigest"
<1>1. /\ DOMAIN C = 1..4 /\ C[1].name = "badAlg" /\ C[2].name = "otherKey"
      /\ C[3].name = "tooShort" /\ C[4].name = "badTemplate"
  BY DEF Check
<1>2. C[3].fails = (~p.hasLc \/ p.lc < 4) /\ C[4].fails = BadTemplate(buf, p.lc)
  BY DEF Check
<1>3. FirstFailing(C, kind) = "badTemplate"
  BY DEF GenAuthArg
<1>4. kind # "badTemplate"
  OBVIOUS
<1> HIDE DEF C, kind
<1>5. PICK i \in 1..4 : /\ C[i].fails /\ \A j \in 1..i - 1 : ~C[j].fails
                        /\ FirstFailing(C, kind) = C[i].name
  BY <1>1, <1>3, <1>4, FirstFailingNames
<1>6. i = 4
  BY <1>1, <1>3, <1>5
<1>7. C[4].fails /\ ~C[3].fails
  BY <1>5, <1>6
<1>8. QED
  BY <1>2, <1>7

(* The bytes that get signed are the challenge of the template the host    *)
(* sent, and a template with a challenge is never turned away: the walk of *)
(* piv.c:403 finds it wherever the length field ends.                      *)
THEOREM ChallengeSigned == ApduSpec => []SignedIsChallenge
<1>1. ASSUME MessageInv PROVE SignedIsChallenge
  <2> SUFFICES ASSUME cmd.ins = "GENAUTH", cmd.arg \in Digests \cup {"badTemplate"}
               PROVE  IF cmd.arg \in Digests THEN digest \in Challenges(MessageData)
                                             ELSE Challenges(MessageData) = {}
    BY DEF SignedIsChallenge
  <2>1. /\ cmd = CommandOf(rxBuf, msg.len) /\ digest = DigestOf(rxBuf, cmd)
        /\ rxBuf \in Bytes
    BY <1>1 DEF MessageInv
  <2>2. Accepts(rxBuf, msg.len)
    BY <2>1, MalformedMeansRejected
  <2>3. body = ApduParse(rxBuf, msg.len)
    BY <1>1, <2>2 DEF MessageInv
  <2>4. CASE cmd.arg \in Digests
    <3>1. ~(body.lc < 4) /\ ~BadTemplate(rxBuf, body.lc)
      BY <2>1, <2>3, <2>4, OnlyTemplatesSigned
    <3>2. body.lc \in 0..255
      BY <2>2, <2>3, <1>1, BodyTyped DEF MessageInv, ParsedType
    <3>3. body.lc \in 4..255 /\ Reads(MessageData, rxBuf, body.lc)
      BY <1>1, <2>2, <3>1, <3>2, MessageDataRead
    <3>4. digest = RawBytes(rxBuf, DataAt + ChallengeAt(rxBuf) + 4, HashLen(rxBuf))
      BY <2>1, <2>4 DEF DigestOf
    <3>5. QED
      BY <2>1, <2>4, <3>1, <3>3, <3>4, TemplateFound
  <2>5. CASE cmd.arg = "badTemplate"
    <3>1. "badTemplate" \notin Digests
      BY DEF Digests
    <3>2. GenAuthArg(rxBuf, body) = "badTemplate"
      <4>1. CommandOf(rxBuf, msg.len) = Cmd("GENAUTH", GenAuthArg(rxBuf, body), body)
        BY <2>1, <2>2, <2>3 DEF CommandOf, Cmd
      <4>2. QED
        BY <2>1, <2>5, <4>1 DEF Cmd
    <3>3. ~(body.lc < 4) /\ BadTemplate(rxBuf, body.lc)
      BY <3>2, TurnedAway
    <3>4. body.lc \in 0..255
      BY <2>2, <2>3, <1>1, BodyTyped DEF MessageInv, ParsedType
    <3>5. body.lc \in 1..255 /\ Reads(MessageData, rxBuf, body.lc)
      BY <1>1, <2>2, <3>3, <3>4, MessageDataRead
    <3>6. \A d \in Challenges(MessageData) : FALSE
      BY <3>3, <3>5, NoneTurnedAway
    <3>7. QED
      BY <2>5, <3>1, <3>6
  <2>6. QED
    BY <2>4, <2>5
<1>2. QED
  BY <1>1, MessageInit, MessageStep, PTL DEF ApduSpec

-----------------------------------------------------------------------------
(* Short APDUs *)

(* The Le byte of a command, as CommandOf takes it from the body b. *)
LeByte(b) == IF b.hasLe THEN b.le % 256 ELSE NoLe

(* Behind Lc the buffer has these n bytes of data, and b says so. *)
Found(buf, b, data, n) == Reads(data, buf, n) /\ (b.hasLc <=> n > 0) /\ b.lc = n

(* The message in the buffer has this header, n bytes of data and this Le  *)
(* byte, and apdu_parse() finds them.                                      *)
Understood(buf, len, h, data, n, le) ==
  /\ Accepts(buf, len)
  /\ \A i \in 0..3 : Raw(buf, i) = h[i + 1]
  /\ Found(buf, ApduParse(buf, len), data, n)
  /\ LeByte(ApduParse(buf, len)) = le

(* The layout of a short APDU with n bytes of data. *)
Layout(s, h, data, n, le) ==
  /\ s \in Bytes
  /\ \A i \in 1..4 : s[i] = h[i]
  /\ Len(s) = 4 + (IF n = 0 THEN 0 ELSE 1 + n) + (IF le = NoLe THEN 0 ELSE 1)
  /\ n > 0 => s[5] = n /\ \A i \in 1..n : s[5 + i] = data[i]
  /\ le # NoLe => s[Len(s)] = le

LEMMA LayoutOf ==
  ASSUME NEW h \in Bytes, Len(h) = 4, NEW n \in 0..255, NEW data \in Bytes, Len(data) = n,
         NEW le \in NoLe..255
  PROVE  Layout(ShortBytes(h, data, le), h, data, n, le)
<1> DEFINE c == <<n>>
           d == IF data = <<>> THEN <<>> ELSE c \o data
           t == IF le = NoLe THEN <<>> ELSE <<le>>
           x == h \o d
           s == x \o t
           k == IF n = 0 THEN 0 ELSE 1 + n
           e == IF le = NoLe THEN 0 ELSE 1
<1>1. c \in Bytes /\ Len(c) = 1 /\ c[1] = n
  BY DEF Bytes
<1>2. data = <<>> <=> n = 0
  BY EmptySeq DEF Bytes
<1>3. t \in Bytes /\ Len(t) = e /\ (le # NoLe => t[1] = le)
  <2>1. CASE le = NoLe
    <3>1. <<>> \in Bytes /\ Len(<<>>) = 0
      BY DEF Bytes
    <3>2. QED
      BY <2>1, <3>1
  <2>2. CASE le # NoLe
    <3>1. le \in 0..255
      BY <2>2 DEF NoLe
    <3>2. <<le>> \in Bytes /\ Len(<<le>>) = 1 /\ <<le>>[1] = le
      BY <3>1 DEF Bytes
    <3>3. QED
      BY <2>2, <3>2
  <2>3. QED
    BY <2>1, <2>2
<1>4. s = ShortBytes(h, data, le)
  BY DEF ShortBytes
<1>5. e \in 0..1 /\ (le = NoLe <=> e = 0)
  OBVIOUS
<1>6. k \in 0..256 /\ (n = 0 <=> k = 0) /\ (n > 0 => k = 1 + n)
  OBVIOUS
<1> HIDE DEF c, t, e
<1>7. /\ d \in Bytes /\ Len(d) = k
      /\ n > 0 => d[1] = n /\ \A i \in 1..n : d[1 + i] = data[i]
  <2>1. CASE n = 0
    <3>1. d = <<>>
      BY <1>2, <2>1
    <3>2. <<>> \in Bytes /\ Len(<<>>) = 0
      BY DEF Bytes
    <3>3. QED
      BY <2>1, <3>1, <3>2
  <2>2. CASE n > 0
    <3> DEFINE u == c \o data
    <3>1. d = u
      BY <1>2, <2>2
    <3>2. Joined(c, data, u)
      BY <1>1, JoinTyped
    <3> HIDE DEF u, d
    <3>3. u \in Bytes /\ Len(u) = 1 + n
      BY <1>1, <3>2 DEF Joined
    <3>4. u[1] = n
      BY <1>1, <3>2 DEF Joined
    <3>5. \A i \in 1..n : u[1 + i] = data[i]
      BY <1>1, <3>2 DEF Joined
    <3>6. QED
      BY <2>2, <3>1, <3>3, <3>4, <3>5 DEF k
  <2>3. QED
    BY <2>1, <2>2
<1> HIDE DEF d, k
<1>8. Joined(h, d, x)
  BY <1>7, JoinTyped
<1> HIDE DEF x
<1>9. x \in Bytes /\ Len(x) = 4 + k
  BY <1>7, <1>8 DEF Joined
<1>10. \A i \in 1..4 : x[i] = h[i]
  BY <1>8 DEF Joined
<1>11. \A i \in 1..k : x[4 + i] = d[i]
  BY <1>7, <1>8 DEF Joined
<1>12. Joined(x, t, s)
  BY <1>3, <1>9, JoinTyped
<1> HIDE DEF s
<1>13. s \in Bytes /\ Len(s) = 4 + k + e
  BY <1>3, <1>9, <1>12 DEF Joined
<1>14. \A i \in 1..4 + k : s[i] = x[i]
  BY <1>9, <1>12 DEF Joined
<1>15. \A i \in 1..e : s[4 + k + i] = t[i]
  BY <1>3, <1>9, <1>12 DEF Joined
<1>16. \A i \in 1..4 : s[i] = h[i]
  <2>1. \A i \in 1..4 : i \in 1..4 + k
    BY <1>6
  <2>2. QED
    BY <1>10, <1>14, <2>1
<1>17. ASSUME n > 0 PROVE s[5] = n /\ \A i \in 1..n : s[5 + i] = data[i]
  <2>1. \A i \in 1..k : s[4 + i] = d[i]
    <3>1. \A i \in 1..k : 4 + i \in 1..4 + k
      BY <1>6
    <3>2. QED
      BY <1>11, <1>14, <3>1
  <2>2. 1 \in 1..k /\ 4 + 1 = 5
    BY <1>6, <1>17
  <2>3. \A i \in 1..n : 1 + i \in 1..k /\ 4 + (1 + i) = 5 + i
    BY <1>6, <1>17
  <2>4. s[5] = n
    BY <1>7, <1>17, <2>1, <2>2
  <2>5. ASSUME NEW i \in 1..n PROVE s[5 + i] = data[i]
    BY <1>7, <1>17, <2>1, <2>3
  <2>6. QED
    BY <2>4, <2>5
<1>18. ASSUME le # NoLe PROVE s[Len(s)] = le
  <2>1. 1 \in 1..e /\ 4 + k + e = 4 + k + 1
    BY <1>5, <1>18
  <2>2. s[4 + k + 1] = t[1]
    BY <1>15, <2>1
  <2>3. QED
    BY <1>3, <1>13, <1>18, <2>1, <2>2
<1>19. QED
  BY <1>4, <1>13, <1>16, <1>17, <1>18, Zenon DEF Layout, k, e

(* Le is read back from its byte: 00 is 256, which is 00 again. *)
LEMMA LeReadBack ==
  ASSUME NEW le \in 0..255
  PROVE  LeOf(le) % 256 = le
<1>1. CASE le = 0
  BY <1>1 DEF LeOf
<1>2. CASE le # 0
  BY <1>2 DEF LeOf
<1>3. QED
  BY <1>1, <1>2

(* The buffer begins with s. *)
InFront(buf, s) == \A i \in 0..Len(s) - 1 : Raw(buf, i) = s[i + 1]

LEMMA ShortParsed ==
  ASSUME NEW h \in Bytes, Len(h) = 4, NEW n \in 0..255, NEW data \in Bytes, Len(data) = n,
         NEW le \in NoLe..255, NEW s, Layout(s, h, data, n, le),
         NEW buf \in Bytes, InFront(buf, s)
  PROVE  Understood(buf, Len(s), h, data, n, le)
<1>0. PICK len \in Nat : /\ len = Len(s)
                         /\ \A i \in 0..len - 1 : Raw(buf, i) = s[i + 1]
  BY DEF Layout, Bytes, InFront
<1> SUFFICES Understood(buf, len, h, data, n, le)
  BY <1>0
<1>1. /\ \A i \in 1..4 : s[i] = h[i]
      /\ n > 0 => s[5] = n /\ \A i \in 1..n : s[5 + i] = data[i]
      /\ le # NoLe => s[len] = le
  BY <1>0, Zenon DEF Layout
<1>2. len = 4 + (IF n = 0 THEN 0 ELSE 1 + n) + (IF le = NoLe THEN 0 ELSE 1)
  BY <1>0, Zenon DEF Layout
<1>3. len >= 4 /\ (n > 0 => len >= 5 + n)
  BY <1>2
<1>4. \A i \in 0..3 : Raw(buf, i) = h[i + 1]
  <2>1. \A i \in 0..3 : i \in 0..len - 1 /\ i + 1 \in 1..4
    BY <1>3
  <2>2. QED
    BY <1>0, <1>1, <2>1
<1>5. ASSUME n > 0 PROVE Raw(buf, 4) = n
  <2>1. 4 \in 0..len - 1 /\ 4 + 1 = 5
    BY <1>3, <1>5
  <2>2. Raw(buf, 4) = s[4 + 1]
    BY <1>0, <2>1
  <2>3. QED
    BY <1>1, <1>5, <2>1, <2>2
<1>6. Reads(data, buf, n)
  <2> SUFFICES ASSUME NEW i \in 1..n PROVE data[i] = Data(buf, i - 1)
    BY DEF Reads
  <2>1. 5 + (i - 1) \in 0..len - 1 /\ 5 + (i - 1) + 1 = 5 + i /\ n > 0
    BY <1>3
  <2>2. Raw(buf, 5 + (i - 1)) = s[5 + i]
    BY <1>0, <2>1
  <2>3. s[5 + i] = data[i]
    BY <1>1, <2>1
  <2>4. QED
    BY <2>2, <2>3 DEF Data, DataAt
<1>7. ASSUME le # NoLe PROVE Raw(buf, len - 1) = le
  <2>1. len - 1 \in 0..len - 1 /\ (len - 1) + 1 = len
    BY <1>3
  <2>2. Raw(buf, len - 1) = s[(len - 1) + 1]
    BY <1>0, <2>1
  <2>3. QED
    BY <1>1, <1>7, <2>1, <2>2
<1> DEFINE b == ApduParse(buf, len)
<1>8. CASE n = 0 /\ le = NoLe
  <2>1. len = HeaderLen /\ ~(len > DataAt)
    BY <1>2, <1>8 DEF HeaderLen, DataAt
  <2>2. b = NoBody
    BY <2>1, ParseCases
  <2>3. Accepts(buf, len)
    BY <2>1 DEF Accepts, HeaderLen
  <2>4. ~b.hasLc /\ b.lc = n /\ ~(n > 0) /\ LeByte(b) = le
    BY <1>8, <2>2 DEF NoBody, LeByte
  <2>5. QED
    BY <1>4, <1>6, <2>3, <2>4, Zenon DEF Understood, Found
<1>9. CASE n = 0 /\ le # NoLe
  <2>1. len = DataAt /\ ~(len > DataAt) /\ len - 1 = HeaderLen /\ len >= HeaderLen
    BY <1>2, <1>9 DEF HeaderLen, DataAt
  <2>2. b = OnlyLe(LeOf(le))
    <3>1. b = OnlyLe(LeOf(Raw(buf, HeaderLen)))
      BY <2>1, ParseCases
    <3>2. Raw(buf, HeaderLen) = le
      BY <1>7, <1>9, <2>1
    <3>3. QED
      BY <3>1, <3>2
  <2>3. Accepts(buf, len)
    BY <2>1 DEF Accepts
  <2>4. LeOf(le) % 256 = le
    <3>1. le \in 0..255
      BY <1>9 DEF NoLe
    <3>2. QED
      BY <3>1, LeReadBack
  <2>5. ~b.hasLc /\ b.lc = n /\ ~(n > 0)
    BY <1>9, <2>2 DEF OnlyLe
  <2>6. LeByte(b) = le
    <3>1. b.hasLe = TRUE /\ b.le = LeOf(le)
      BY <2>2 DEF OnlyLe
    <3>2. QED
      BY <2>4, <3>1 DEF LeByte
  <2>7. QED
    BY <1>4, <1>6, <2>3, <2>5, <2>6, Zenon DEF Understood, Found
<1>10. CASE n > 0
  <2> DEFINE hasLe == 5 + n < len
             x == IF hasLe THEN LeOf(Raw(buf, 5 + n)) ELSE 0
  <2>1. len > 5 /\ 5 + n <= len
    <3>1. len >= 5 + n
      BY <1>3, <1>10
    <3>2. QED
      BY <1>10, <3>1
  <2>2. b = [hasLc |-> TRUE, lc |-> n, hasLe |-> hasLe, le |-> x]
    BY <1>5, <1>10, <2>1, ParseCases DEF HeaderLen, DataAt
  <2>3. Accepts(buf, len)
    BY <1>5, <1>10, <2>1 DEF HeaderLen, DataAt, Accepts
  <2>4. b.hasLc /\ b.lc = n /\ (b.hasLe <=> hasLe) /\ b.le = x
    <3> HIDE DEF b, hasLe, x
    <3>1. b.hasLc = TRUE /\ b.lc = n /\ b.hasLe = hasLe /\ b.le = x
      BY <2>2
    <3>2. QED
      BY <3>1
  <2>5. hasLe <=> le # NoLe
    BY <1>2, <1>10
  <2>6. LeByte(b) = le
    <3>1. CASE le = NoLe
      BY <2>4, <2>5, <3>1 DEF LeByte
    <3>2. CASE le # NoLe
      <4>1. 5 + n = len - 1
        BY <1>2, <1>10, <3>2
      <4>2. Raw(buf, 5 + n) = le
        BY <1>7, <3>2, <4>1
      <4>3. x = LeOf(le)
        BY <2>5, <3>2, <4>2
      <4>4. LeOf(le) % 256 = le
        <5>1. le \in 0..255
          BY <3>2 DEF NoLe
        <5>2. QED
          BY <5>1, LeReadBack
      <4> HIDE DEF b, x, hasLe
      <4>5. QED
        BY <2>4, <2>5, <3>2, <4>3, <4>4 DEF LeByte
    <3>3. QED
      BY <3>1, <3>2
  <2>7. QED
    BY <1>4, <1>6, <1>10, <2>3, <2>4, <2>6, Zenon DEF Understood, Found
<1>11. QED
  BY <1>8, <1>9, <1>10

-----------------------------------------------------------------------------
(* What the handlers make of the data *)

LEMMA PassesAll ==
  ASSUME NEW n \in 1..5, NEW C, DOMAIN C = 1..n, \A i \in 1..n : ~C[i].fails, NEW x
  PROVE  FirstFailing(C, x) = x
BY FirstFailingNames

LEMMA FailsAt ==
  ASSUME NEW n \in 1..5, NEW C, DOMAIN C = 1..n, NEW k \in 1..n, C[k].fails,
         \A j \in 1..n : j < k => ~C[j].fails, NEW x
  PROVE  FirstFailing(C, x) = C[k].name
<1>1. PICK i \in 1..n : /\ C[i].fails /\ \A j \in 1..i - 1 : ~C[j].fails
                        /\ FirstFailing(C, x) = C[i].name
  BY FirstFailingNames
<1>2. ~(i < k)
  BY <1>1
<1>3. ~(k < i)
  BY <1>1
<1>4. i = k
  BY <1>2, <1>3
<1>5. QED
  BY <1>1, <1>4

LEMMA DataFront ==
  ASSUME NEW buf, NEW n \in Nat, NEW data, Reads(data, buf, n), NEW k \in 0..n
  PROVE  RawBytes(buf, DataAt, k) = SubSeq(data, 1, k)
<1> DEFINE r == RawBytes(buf, DataAt, k)
           d == SubSeq(data, 1, k)
<1>1. data \in Bytes /\ Len(data) = n /\ \A i \in 1..n : data[i] = Data(buf, i - 1)
  BY DEF Reads
<1>2. k \in 0..Len(data)
  BY <1>1
<1>3. d \in Bytes /\ Len(d) = k /\ \A i \in 1..k : d[i] = data[i]
  BY <1>1, <1>2, FrontTyped
<1> HIDE DEF d
<1>4. \A i \in 1..k : Raw(buf, DataAt + i - 1) = d[i]
  <2> SUFFICES ASSUME NEW i \in 1..k PROVE Raw(buf, DataAt + i - 1) = d[i]
    OBVIOUS
  <2>1. i \in 1..n /\ DataAt + i - 1 = DataAt + (i - 1)
    BY DEF DataAt
  <2>2. data[i] = Data(buf, i - 1)
    BY <1>1, <2>1
  <2>3. d[i] = data[i]
    BY <1>3
  <2>4. QED
    BY <2>1, <2>2, <2>3 DEF Data
<1>5. \A i \in 1..k : d[i] \in 0..255
  BY <1>3, ElementOfSeq DEF Bytes
<1>6. r = [i \in 1..k |-> d[i]]
  BY <1>4, Zenon DEF RawBytes
<1> HIDE DEF r
<1>7. r \in Bytes /\ Len(r) = k /\ \A i \in 1..k : r[i] = d[i]
  <2>1. k \in Nat
    OBVIOUS
  <2>2. [i \in 1..k |-> d[i]] \in Bytes /\ Len([i \in 1..k |-> d[i]]) = k
    BY <1>5, <2>1 DEF Bytes
  <2>3. QED
    BY <1>6, <2>2
<1>8. r = d
  BY <1>3, <1>7, SeqEqual DEF Bytes
<1>9. QED
  BY <1>8 DEF r, d

LEMMA DataWhole ==
  ASSUME NEW buf, NEW n \in Nat, NEW data, Reads(data, buf, n)
  PROVE  RawBytes(buf, DataAt, n) = data
<1>1. data \in Bytes /\ Len(data) = n
  BY DEF Reads
<1>2. SubSeq(data, 1, n) = data
  <2> DEFINE d == SubSeq(data, 1, n)
  <2>1. d \in Bytes /\ Len(d) = n /\ \A i \in 1..n : d[i] = data[i]
    BY <1>1, FrontTyped
  <2> HIDE DEF d
  <2>2. d = data
    BY <1>1, <2>1, SeqEqual DEF Bytes
  <2>3. QED
    BY <2>2 DEF d
<1>3. n \in 0..n
  OBVIOUS
<1>4. QED
  BY <1>2, <1>3, DataFront

LEMMA SelectUnderstood ==
  ASSUME NEW buf, NEW b, NEW n \in 0..255, NEW data, Found(buf, b, data, n), Raw(buf, 2) = 4,
         NEW arg, Asks("SELECT", arg, data)
  PROVE  SelectArg(buf, b) = arg
<1> DEFINE C == <<Check(Raw(buf, 2) # 4, "badP1"),
                  Check(~b.hasLc \/ b.lc < Len(PivAid), "shortAid"),
                  Check(RawBytes(buf, DataAt, Len(PivAid)) # PivAid, "otherAid")>>
<1>1. SelectArg(buf, b) = FirstFailing(C, "pivAid")
  BY DEF SelectArg
<1>2. DOMAIN C = 1..3 /\ C[3].name = "otherAid"
  BY DEF Check
<1>3. PivAid \in Bytes /\ Len(PivAid) = 11
  BY DEF PivAid, Bytes
<1>4. Reads(data, buf, n) /\ data \in Bytes /\ Len(data) = n
  BY DEF Found, Reads
<1>5. \/ arg = "pivAid" /\ data = PivAid
      \/ arg = "otherAid" /\ Len(data) \in 11..16 /\ ~IsPrefix(PivAid, data)
  BY DEF Asks
<1>6. n >= 11
  <2>1. CASE data = PivAid
    <3>1. Len(data) = 11
      BY <1>3, <2>1, Zenon
    <3>2. n = 11
      BY <1>4, <3>1
    <3>3. QED
      BY <3>2
  <2>2. CASE Len(data) \in 11..16
    <3>1. n \in 11..16
      BY <1>4, <2>2
    <3>2. QED
      BY <3>1
  <2>3. QED
    BY <1>5, <2>1, <2>2
<1>7. ~C[1].fails /\ ~C[2].fails
  <2>1. b.hasLc /\ b.lc = n /\ ~(n < 11)
    BY <1>6 DEF Found
  <2>2. ~(~b.hasLc \/ b.lc < Len(PivAid))
    BY <1>3, <2>1
  <2>3. QED
    BY <2>2 DEF Check
<1>8. C[3].fails <=> RawBytes(buf, DataAt, 11) # PivAid
  BY <1>3 DEF Check
<1> HIDE DEF C
<1>9. CASE arg = "pivAid" /\ data = PivAid
  <2>1. n = 11
    BY <1>3, <1>4, <1>9
  <2>2. RawBytes(buf, DataAt, 11) = PivAid
    BY <1>4, <1>9, <2>1, DataWhole
  <2>3. \A i \in 1..3 : ~C[i].fails
    BY <1>7, <1>8, <2>2
  <2>4. FirstFailing(C, "pivAid") = "pivAid"
    BY <1>2, <2>3, PassesAll
  <2>5. QED
    BY <1>1, <1>9, <2>4
<1>10. CASE arg = "otherAid" /\ ~IsPrefix(PivAid, data)
  <2>1. RawBytes(buf, DataAt, 11) = SubSeq(data, 1, 11)
    <3>1. n \in Nat /\ 11 \in 0..n
      BY <1>6
    <3>2. QED
      BY <1>4, <3>1, DataFront
  <2>2. ASSUME RawBytes(buf, DataAt, 11) = PivAid PROVE FALSE
    <3>1. SubSeq(data, 1, 11) = PivAid
      BY <2>1, <2>2
    <3>2. 11 \in 0..Len(data)
      BY <1>4, <1>6
    <3>3. \A i \in 1..11 : PivAid[i] = data[i]
      BY <1>4, <3>1, <3>2, FrontTyped
    <3>4. Len(PivAid) <= Len(data) /\ \A i \in 1..Len(PivAid) : PivAid[i] = data[i]
      BY <1>3, <1>4, <1>6, <3>3
    <3>5. IsPrefix(PivAid, data)
      BY <1>3, <1>4, <3>4, PrefixOf
    <3>6. QED
      BY <1>10, <3>5
  <2>3. C[3].fails /\ \A j \in 1..3 : j < 3 => ~C[j].fails
    BY <1>7, <1>8, <2>2
  <2>4. FirstFailing(C, "pivAid") = C[3].name
    BY <1>2, <2>3, FailsAt
  <2>5. QED
    BY <1>1, <1>2, <1>10, <2>4
<1>11. QED
  BY <1>5, <1>9, <1>10

LEMMA VerifyUnderstood ==
  ASSUME NEW buf, NEW b, NEW n \in 0..255, NEW data, Found(buf, b, data, n),
         Raw(buf, 2) = 0, Raw(buf, 3) = \h80, NEW arg, Asks("VERIFY", arg, data)
  PROVE  VerifyArg(buf, b) = arg
<1> DEFINE C == <<Check(Raw(buf, 2) # 0, "badP1"),
                  Check(Raw(buf, 3) # \h80, "otherPin"),
                  Check(~b.hasLc \/ b.lc = 0, "noData"),
                  Check(b.lc # Len(PaddedPin), "badLength"),
                  Check(RawBytes(buf, DataAt, Len(PaddedPin)) # PaddedPin, "wrongPin")>>
<1>1. VerifyArg(buf, b) = FirstFailing(C, "rightPin")
  BY DEF VerifyArg
<1>2. DOMAIN C = 1..5 /\ C[3].name = "noData" /\ C[5].name = "wrongPin"
  BY DEF Check
<1>3. PaddedPin \in Bytes /\ Len(PaddedPin) = 8
  BY DEF PaddedPin, Bytes
<1>4. Reads(data, buf, n) /\ data \in Bytes /\ Len(data) = n
  BY DEF Found, Reads
<1>5. \/ arg = "noData" /\ data = <<>>
      \/ arg = "rightPin" /\ data = PaddedPin
      \/ arg = "wrongPin" /\ Len(data) = 8 /\ data # PaddedPin
  BY DEF Asks
<1>6. (b.hasLc <=> n > 0) /\ b.lc = n
  BY DEF Found
<1>7. ~C[1].fails /\ ~C[2].fails
  BY DEF Check
<1>8. /\ C[3].fails <=> ~b.hasLc \/ b.lc = 0
      /\ C[4].fails <=> b.lc # 8
      /\ C[5].fails <=> RawBytes(buf, DataAt, 8) # PaddedPin
  BY <1>3 DEF Check
<1> HIDE DEF C
<1>9. CASE arg = "noData" /\ data = <<>>
  <2>1. n = 0
    BY <1>4, <1>9
  <2>2. C[3].fails /\ \A j \in 1..5 : j < 3 => ~C[j].fails
    <3>1. \A j \in 1..5 : j < 3 => j = 1 \/ j = 2
      OBVIOUS
    <3>2. C[3].fails
      BY <1>6, <1>8, <2>1
    <3>3. QED
      BY <1>7, <3>1, <3>2, Zenon
  <2>3. FirstFailing(C, "rightPin") = C[3].name
    BY <1>2, <2>2, FailsAt
  <2>4. QED
    BY <1>1, <1>2, <1>9, <2>3
<1>10. CASE arg \in {"rightPin", "wrongPin"} /\ Len(data) = 8
  <2>1. n = 8
    BY <1>4, <1>10
  <2>2. RawBytes(buf, DataAt, 8) = data
    BY <1>4, <2>1, DataWhole
  <2>3. ~C[3].fails /\ ~C[4].fails
    BY <1>6, <1>8, <2>1
  <2>4. \A j \in 1..5 : j < 5 => ~C[j].fails
    <3>1. \A j \in 1..5 : j < 5 => j = 1 \/ j = 2 \/ j = 3 \/ j = 4
      OBVIOUS
    <3>2. QED
      BY <1>7, <2>3, <3>1, Zenon
  <2>5. CASE arg = "rightPin"
    <3>1. data = PaddedPin
      BY <1>5, <2>5
    <3>2. ~C[5].fails
      BY <1>8, <2>2, <3>1
    <3>3. \A j \in 1..5 : ~C[j].fails
      BY <2>4, <3>2
    <3>4. FirstFailing(C, "rightPin") = "rightPin"
      BY <1>2, <3>3, PassesAll
    <3>5. QED
      BY <1>1, <2>5, <3>4
  <2>6. CASE arg = "wrongPin"
    <3>1. data # PaddedPin
      BY <1>5, <2>6
    <3>2. C[5].fails
      BY <1>8, <2>2, <3>1
    <3>3. FirstFailing(C, "rightPin") = C[5].name
      BY <1>2, <2>4, <3>2, FailsAt
    <3>4. QED
      BY <1>1, <1>2, <2>6, <3>3
  <2>7. QED
    BY <1>10, <2>5, <2>6
<1>11. QED
  BY <1>3, <1>5, <1>9, <1>10, Zenon

(* The data are a template with a challenge of m bytes. *)
IsRequest(data, l, k, d, m) == /\ Len(l) = k /\ IsLengthField(l)
                               /\ FrameHolds(data, l, k, d, m)

(* The data are a template that asks for a signature of the digest's kind. *)
RequestFor(data, arg) ==
  \E k \in 1..2, m \in 1..64, l \in Bytes, d \in Bytes :
    /\ IsRequest(data, l, k, d, m)
    /\ arg = IF m = 32 THEN "sha256" ELSE "otherDigest"

LEMMA AsksTemplate ==
  ASSUME NEW data \in Bytes, NEW arg, Asks("GENAUTH", arg, data)
  PROVE  RequestFor(data, arg)
<1> DEFINE n == Len(data)
<1>1. n \in Nat
  BY DEF Bytes
<1> HIDE DEF n
<1>2. PICK i \in 7..8 :
        LET d == SubSeq(data, i, Len(data))
        IN  /\ Len(d) \in 1..64
            /\ data \in {Template(d), LongTemplate(d)}
            /\ arg = IF Len(d) = 32 THEN "sha256" ELSE "otherDigest"
  BY DEF Asks
<1> DEFINE d == SubSeq(data, i, Len(data))
<1>3. PICK m \in 1..64 :
        /\ Len(d) = m
        /\ data \in {Template(d), LongTemplate(d)}
        /\ arg = IF m = 32 THEN "sha256" ELSE "otherDigest"
  BY <1>2
<1>4. d \in Bytes
  <2>1. \A x \in i..n : data[x] \in 0..255
    <3> SUFFICES ASSUME NEW x \in i..n PROVE data[x] \in 0..255
      OBVIOUS
    <3>1. x \in 1..n
      BY <1>1
    <3>2. QED
      BY <3>1, ElementOfSeq DEF Bytes, n
  <2>2. i \in Int /\ n \in Int
    BY <1>1
  <2>3. SubSeq(data, i, n) \in Seq(0..255)
    BY <2>1, <2>2, SubSeqProperties
  <2>4. QED
    BY <2>3 DEF Bytes, n
<1> HIDE DEF d
<1>5. PICK k \in 1..2, l \in Bytes :
        Len(l) = k /\ IsLengthField(l) /\ data = Framed(l, d)
  <2>1. CASE data = Template(d)
    <3>1. <<m + 4>> \in Bytes /\ Len(<<m + 4>>) = 1
      BY DEF Bytes
    <3>2. IsLengthField(<<m + 4>>)
      BY DEF IsLengthField
    <3>3. data = Framed(<<m + 4>>, d)
      BY <1>3, <2>1 DEF Template
    <3>4. QED
      BY <3>1, <3>2, <3>3
  <2>2. CASE data = LongTemplate(d)
    <3>1. <<\h81, m + 4>> \in Bytes /\ Len(<<\h81, m + 4>>) = 2
      BY DEF Bytes
    <3>2. IsLengthField(<<\h81, m + 4>>)
      BY DEF IsLengthField
    <3>3. data = Framed(<<\h81, m + 4>>, d)
      BY <1>3, <2>2 DEF LongTemplate
    <3>4. QED
      BY <3>1, <3>2, <3>3
  <2>3. data = Template(d) \/ data = LongTemplate(d)
    BY <1>3
  <2>4. QED
    BY <2>1, <2>2, <2>3, Zenon
<1>6. FrameHolds(data, l, k, d, m)
  <2>1. Len(l) = k /\ Len(d) = m
    BY <1>3, <1>5
  <2>2. FrameHolds(Framed(l, d), l, k, d, m)
    BY <1>4, <2>1, FrameBytes
  <2>3. QED
    BY <1>5, <2>2
<1>7. IsRequest(data, l, k, d, m)
  BY <1>5, <1>6, Zenon DEF IsRequest
<1>8. QED
  BY <1>3, <1>4, <1>7, Zenon DEF RequestFor

LEMMA GenAuthUnderstood ==
  ASSUME NEW buf, NEW b, NEW n \in 0..255, NEW data, Found(buf, b, data, n),
         Raw(buf, 2) = \h11, Raw(buf, 3) = \h9A, NEW arg, Asks("GENAUTH", arg, data)
  PROVE  GenAuthArg(buf, b) = arg
<1> DEFINE C == <<Check(Raw(buf, 2) # \h11, "badAlg"),
                  Check(Raw(buf, 3) # \h9A, "otherKey"),
                  Check(~b.hasLc \/ b.lc < 4, "tooShort"),
                  Check(BadTemplate(buf, b.lc), "badTemplate")>>
           kind == IF HashLen(buf) = 32 THEN "sha256" ELSE "otherDigest"
<1>1. GenAuthArg(buf, b) = FirstFailing(C, kind)
  BY DEF GenAuthArg
<1>2. /\ data \in Bytes /\ Len(data) = n
      /\ \A i \in 1..n : data[i] = Data(buf, i - 1)
  BY DEF Found, Reads
<1>3. PICK k \in 1..2, m \in 1..64, l \in Bytes, d \in Bytes :
        /\ IsRequest(data, l, k, d, m)
        /\ arg = IF m = 32 THEN "sha256" ELSE "otherDigest"
  <2>1. data \in Bytes
    BY <1>2
  <2>2. RequestFor(data, arg)
    BY <2>1, AsksTemplate, Zenon
  <2>3. QED
    BY <2>2, Zenon DEF RequestFor
<1>4. FrameHolds(data, l, k, d, m)
  BY <1>3 DEF IsRequest
<1>5. n = k + 5 + m
  BY <1>2, <1>4 DEF FrameHolds
<1>6. n \in 7..255 /\ k + 5 + m <= n
  BY <1>5
<1>7. \A x \in 1..k + 5 + m : data[x] = Data(buf, x - 1)
  BY <1>2, <1>5, Zenon
<1>8. ~BadTemplate(buf, n) /\ HashLen(buf) = m
  <2>1. Len(l) = k /\ IsLengthField(l) /\ k + 5 + m <= n
    BY <1>3, <1>6 DEF IsRequest
  <2>2. TemplateIn(buf, n, data, l, k, d, m)
    BY <1>4, <1>7, <2>1, Zenon DEF TemplateIn
  <2>3. QED
    BY <2>2, TemplateRead
<1>9. b.hasLc /\ b.lc = n
  BY <1>6 DEF Found
<1>10. ~C[1].fails /\ ~C[2].fails
  BY DEF Check
<1>11. ~C[3].fails
  <2>1. ~(n < 4)
    BY <1>6
  <2>2. ~(~b.hasLc \/ b.lc < 4)
    BY <1>9, <2>1
  <2>3. QED
    BY <2>2 DEF Check
<1>12. ~C[4].fails
  BY <1>8, <1>9 DEF Check
<1>13. DOMAIN C = 1..4
  OBVIOUS
<1>14. kind = arg
  BY <1>3, <1>8
<1> HIDE DEF C, kind
<1>15. \A j \in 1..4 : ~C[j].fails
  <2>1. \A j \in 1..4 : j = 1 \/ j = 2 \/ j = 3 \/ j = 4
    OBVIOUS
  <2>2. QED
    BY <1>10, <1>11, <1>12, <2>1, Zenon
<1>16. FirstFailing(C, kind) = kind
  BY <1>13, <1>15, PassesAll
<1>17. QED
  BY <1>1, <1>14, <1>16

(* The data t ask for the object with this tag of k bytes. *)
TagHolds(t, tag, k) == /\ Len(t) = 2 + k /\ t[1] = \h5C /\ t[2] = k
                       /\ \A i \in 1..k : t[2 + i] = tag[i]

LEMMA TaggedBytes ==
  ASSUME NEW k \in 1..3, NEW tag \in Bytes, Len(tag) = k
  PROVE  TagHolds(Tagged(tag), tag, k)
<1> DEFINE s == <<\h5C, k>>
           t == s \o tag
<1>1. s \in Bytes /\ Len(s) = 2 /\ s[1] = \h5C /\ s[2] = k
  BY DEF Bytes
<1>2. t = Tagged(tag)
  BY DEF Tagged
<1> HIDE DEF s
<1>3. Joined(s, tag, t)
  BY <1>1, JoinTyped
<1> HIDE DEF t
<1>4. Len(t) = 2 + k
  BY <1>1, <1>3 DEF Joined
<1>5. t[1] = \h5C /\ t[2] = k
  BY <1>1, <1>3 DEF Joined
<1>6. \A i \in 1..k : t[2 + i] = tag[i]
  BY <1>1, <1>3 DEF Joined
<1>7. QED
  BY <1>2, <1>4, <1>5, <1>6 DEF TagHolds

LEMMA TagsTyped ==
  ASSUME NEW o \in DOMAIN Tags
  PROVE  Tags[o] \in Bytes /\ Len(Tags[o]) = 3
<1>1. o = "CCC" \/ o = "CHUID" \/ o = "CERT"
  BY DEF Tags
<1>2. CASE o = "CCC"
  <2>1. Tags[o] = <<\h5F, \hC1, 7>>
    BY <1>2 DEF Tags
  <2>2. QED
    BY <2>1 DEF Bytes
<1>3. CASE o = "CHUID"
  <2>1. Tags[o] = <<\h5F, \hC1, 2>>
    BY <1>3 DEF Tags
  <2>2. QED
    BY <2>1 DEF Bytes
<1>4. CASE o = "CERT"
  <2>1. Tags[o] = <<\h5F, \hC1, 5>>
    BY <1>4 DEF Tags
  <2>2. QED
    BY <2>1 DEF Bytes
<1>5. QED
  BY <1>1, <1>2, <1>3, <1>4

(* The object that a tag of one or three bytes asks for. *)
LEMMA ObjectUnderstood ==
  ASSUME NEW buf, NEW arg \in DOMAIN Tags, Data(buf, 1) = 3,
         \A i \in 1..3 : Data(buf, 1 + i) = Tags[arg][i]
  PROVE  ObjectOf(buf) = arg
<1> DEFINE r == RawBytes(buf, DataAt + 2, 3)
           named == {o \in DOMAIN Tags : Tags[o] = r}
<1>1. r = Tags[arg]
  <2>1. \A i \in 1..3 : Raw(buf, DataAt + 2 + i - 1) = Tags[arg][i]
    <3> SUFFICES ASSUME NEW i \in 1..3 PROVE Raw(buf, DataAt + 2 + i - 1) = Tags[arg][i]
      OBVIOUS
    <3>1. DataAt + 2 + i - 1 = DataAt + (1 + i)
      BY DEF DataAt
    <3>2. QED
      BY <3>1 DEF Data
  <2>2. r = [i \in 1..3 |-> Tags[arg][i]]
    BY <2>1, Zenon DEF RawBytes
  <2>3. Tags[arg] \in Seq(0..255) /\ Len(Tags[arg]) = 3
    BY TagsTyped DEF Bytes
  <2> HIDE DEF r
  <2>4. r \in Seq(0..255) /\ Len(r) = 3 /\ \A i \in 1..3 : r[i] = Tags[arg][i]
    <3> DEFINE v == Tags[arg]
    <3>1. \A i \in 1..3 : v[i] \in 0..255
      BY <2>3, ElementOfSeq
    <3> HIDE DEF v
    <3>2. [i \in 1..3 |-> v[i]] \in Seq(0..255) /\ Len([i \in 1..3 |-> v[i]]) = 3
      BY <3>1
    <3>3. r = [i \in 1..3 |-> v[i]]
      BY <2>2 DEF v
    <3>4. QED
      BY <3>2, <3>3 DEF v
  <2>5. QED
    BY <2>3, <2>4, SeqEqual DEF r
<1>2. \A o \in DOMAIN Tags : Tags[o] = Tags[arg] => o = arg
  BY DEF Tags
<1>3. named = {arg}
  BY <1>1, <1>2
<1> HIDE DEF named
<1>4. ObjectOf(buf) = IF named = {} THEN "otherTag" ELSE CHOOSE o \in named : TRUE
  BY DEF ObjectOf, named
<1>5. QED
  BY <1>3, <1>4

LEMMA AsksObject ==
  ASSUME NEW data, NEW arg, Asks("GETDATA", arg, data)
  PROVE  \E tag \in Bytes, k \in {1, 3} :
           /\ TagHolds(data, tag, k)
           /\ \/ k = 3 /\ arg \in DOMAIN Tags /\ tag = Tags[arg]
              \/ k = 1 /\ arg = "DISC" /\ tag = <<\h7E>>
<1>1. PICK tag \in Bytes, k \in {1, 3} :
        /\ Len(tag) = k /\ data = Tagged(tag)
        /\ \/ k = 3 /\ arg \in DOMAIN Tags /\ tag = Tags[arg]
           \/ k = 1 /\ arg = "DISC" /\ tag = <<\h7E>>
  <2>1. CASE arg \in DOMAIN Tags /\ data = Tagged(Tags[arg])
    <3>1. Tags[arg] \in Bytes /\ Len(Tags[arg]) = 3
      BY <2>1, TagsTyped
    <3>2. QED
      BY <2>1, <3>1
  <2>2. CASE arg = "DISC" /\ data = Tagged(<<\h7E>>)
    <3>1. <<\h7E>> \in Bytes /\ Len(<<\h7E>>) = 1
      BY DEF Bytes
    <3>2. QED
      BY <2>2, <3>1
  <2>3. QED
    BY <2>1, <2>2 DEF Asks
<1>2. TagHolds(data, tag, k)
  <2>1. k \in 1..3
    OBVIOUS
  <2>2. QED
    BY <1>1, <2>1, TaggedBytes
<1>3. QED
  BY <1>1, <1>2

LEMMA GetDataUnderstood ==
  ASSUME NEW buf, NEW b, NEW n \in 0..255, NEW data, Found(buf, b, data, n),
         Raw(buf, 2) = \h3F, Raw(buf, 3) = \hFF, NEW arg, Asks("GETDATA", arg, data)
  PROVE  GetDataArg(buf, b) = arg
<1> DEFINE C == <<Check(Raw(buf, 2) # \h3F \/ Raw(buf, 3) # \hFF, "badP1P2"),
                  Check(~b.hasLc \/ b.lc < 3 \/ Data(buf, 0) # \h5C, "malformed"),
                  Check(Data(buf, 1) \notin {1, 3}, "malformed")>>
           o == ObjectOf(buf)
<1>1. GetDataArg(buf, b) = FirstFailing(C, o)
  BY DEF GetDataArg
<1>2. /\ data \in Bytes /\ Len(data) = n
      /\ \A i \in 1..n : data[i] = Data(buf, i - 1)
  BY DEF Found, Reads
<1>3. PICK tag \in Bytes, k \in {1, 3} :
        /\ TagHolds(data, tag, k)
        /\ \/ k = 3 /\ arg \in DOMAIN Tags /\ tag = Tags[arg]
           \/ k = 1 /\ arg = "DISC" /\ tag = <<\h7E>>
  BY AsksObject
<1>4. /\ n = 2 + k /\ data[1] = \h5C /\ data[2] = k
      /\ \A i \in 1..k : data[2 + i] = tag[i]
  BY <1>2, <1>3 DEF TagHolds
<1>5. n >= 3
  BY <1>4
<1>6. Data(buf, 0) = \h5C /\ Data(buf, 1) = k
  <2>1. 1 \in 1..n /\ 2 \in 1..n /\ 1 - 1 = 0 /\ 2 - 1 = 1
    BY <1>5
  <2>2. data[1] = Data(buf, 0) /\ data[2] = Data(buf, 1)
    BY <1>2, <2>1
  <2>3. QED
    BY <1>4, <2>2
<1>7. ASSUME NEW i \in 1..k PROVE Data(buf, 1 + i) = tag[i]
  <2>1. 2 + i \in 1..n /\ (2 + i) - 1 = 1 + i
    <3>1. n = 2 + k
      BY <1>4
    <3>2. QED
      BY <3>1
  <2>2. data[2 + i] = Data(buf, (2 + i) - 1)
    BY <1>2, <2>1
  <2>3. data[2 + i] = tag[i]
    BY <1>4
  <2>4. QED
    BY <2>1, <2>2, <2>3
<1>8. o = arg
  <2>1. CASE k = 3 /\ arg \in DOMAIN Tags /\ tag = Tags[arg]
    <3>1. \A i \in 1..3 : Data(buf, 1 + i) = Tags[arg][i]
      BY <1>7, <2>1
    <3>2. QED
      BY <1>6, <2>1, <3>1, ObjectUnderstood
  <2>2. CASE k = 1 /\ arg = "DISC" /\ tag = <<\h7E>>
    <3>1. 1 \in 1..k /\ 1 + 1 = 2 /\ tag[1] = \h7E
      BY <2>2
    <3>2. Data(buf, 2) = \h7E
      BY <1>7, <3>1
    <3>3. QED
      BY <1>6, <2>2, <3>2 DEF ObjectOf
  <2>3. QED
    BY <1>3, <2>1, <2>2
<1>9. ~C[1].fails
  BY DEF Check
<1>10. ~C[2].fails
  <2>1. b.hasLc /\ b.lc = n /\ ~(n < 3)
    BY <1>5 DEF Found
  <2>2. ~(~b.hasLc \/ b.lc < 3 \/ Data(buf, 0) # \h5C)
    BY <1>6, <2>1
  <2>3. QED
    BY <2>2 DEF Check
<1>11. ~C[3].fails
  BY <1>6 DEF Check
<1>12. DOMAIN C = 1..3
  OBVIOUS
<1> HIDE DEF C, o
<1>13. \A j \in 1..3 : ~C[j].fails
  <2>1. \A j \in 1..3 : j = 1 \/ j = 2 \/ j = 3
    OBVIOUS
  <2>2. QED
    BY <1>9, <1>10, <1>11, <2>1, Zenon
<1>14. FirstFailing(C, o) = o
  BY <1>12, <1>13, PassesAll
<1>15. QED
  BY <1>1, <1>8, <1>14

-----------------------------------------------------------------------------
LEMMA DataShort ==
  ASSUME NEW data \in Bytes, NEW ins, NEW arg, Asks(ins, arg, data)
  PROVE  Len(data) \in 0..255
<1>1. CASE ins \notin {"GETDATA", "GENAUTH"}
  <2>1. Len(PivAid) = 11 /\ Len(PaddedPin) = 8 /\ Len(<<>>) = 0
    BY DEF PivAid, PaddedPin
  <2>2. \/ data = PivAid \/ Len(data) \in 11..16 \/ data = <<>>
        \/ data = PaddedPin \/ Len(data) = 8
    BY <1>1 DEF Asks
  <2>3. Len(data) \in 11..16 \/ Len(data) \in {0, 8, 11}
    BY <2>1, <2>2
  <2>4. QED
    BY <2>3
<1>2. CASE ins = "GETDATA"
  <2>1. PICK tag \in Bytes, k \in {1, 3} : TagHolds(data, tag, k)
    BY <1>2, AsksObject
  <2>2. QED
    BY <2>1 DEF TagHolds
<1>3. CASE ins = "GENAUTH"
  <2>1. PICK k \in 1..2, m \in 1..64, l \in Bytes, d \in Bytes : IsRequest(data, l, k, d, m)
    <3>1. RequestFor(data, arg)
      BY <1>3, AsksTemplate
    <3>2. QED
      BY <3>1, Zenon DEF RequestFor
  <2>2. Len(data) = k + 5 + m
    BY <2>1 DEF IsRequest, FrameHolds
  <2>3. QED
    BY <2>2
<1>4. QED
  BY <1>1, <1>2, <1>3

LEMMA HeaderBytes ==
  ASSUME NEW ins, NEW arg, NEW data, Asks(ins, arg, data)
  PROVE  /\ ins \in {"SELECT", "VERIFY", "GETDATA", "GETRESPONSE", "GENAUTH"}
         /\ Headers[ins] \in Bytes /\ Len(Headers[ins]) = 4
<1>1. \/ ins = "SELECT" \/ ins = "VERIFY" \/ ins = "GETDATA" \/ ins = "GETRESPONSE"
      \/ ins = "GENAUTH"
  BY DEF Asks
<1>2. <<0, \hA4, 4, 0>> \in Bytes /\ <<0, \h20, 0, \h80>> \in Bytes
      /\ <<0, \hCB, \h3F, \hFF>> \in Bytes /\ <<0, \hC0, 0, 0>> \in Bytes
      /\ <<0, \h87, \h11, \h9A>> \in Bytes
  BY DEF Bytes
<1>3. QED
  BY <1>1, <1>2 DEF Headers

(* What the handlers see. *)
SeenAs(buf, len, ins, arg, le) == CommandOf(buf, len) = [ins |-> ins, arg |-> arg, le |-> le]

(* An Understood command is the one the handlers see. *)
LEMMA CommandUnderstood ==
  ASSUME NEW buf, NEW len, NEW n \in 0..255, NEW data, NEW le, NEW ins, NEW arg,
         Asks(ins, arg, data), Understood(buf, len, Headers[ins], data, n, le)
  PROVE  SeenAs(buf, len, ins, arg, le)
<1> DEFINE b == ApduParse(buf, len)
<1>1. Accepts(buf, len) /\ Found(buf, b, data, n) /\ LeByte(b) = le
  BY DEF Understood
<1>2. \A i \in 0..3 : Raw(buf, i) = Headers[ins][i + 1]
  BY DEF Understood
<1>3. /\ Raw(buf, 0) = Headers[ins][1] /\ Raw(buf, 1) = Headers[ins][2]
      /\ Raw(buf, 2) = Headers[ins][3] /\ Raw(buf, 3) = Headers[ins][4]
  <2>1. 0 + 1 = 1 /\ 1 + 1 = 2 /\ 2 + 1 = 3 /\ 3 + 1 = 4
    OBVIOUS
  <2>2. QED
    BY <1>2, <2>1
<1>4. \A i, a : Cmd(i, a, b) = [ins |-> i, arg |-> a, le |-> le]
  BY <1>1 DEF Cmd, LeByte
<1> HIDE DEF b
<1>5. CASE ins = "SELECT"
  <2>1. Raw(buf, 0) = 0 /\ Raw(buf, 1) = \hA4 /\ Raw(buf, 2) = 4
    BY <1>3, <1>5 DEF Headers
  <2>2. SelectArg(buf, b) = arg
    BY <1>1, <1>5, <2>1, SelectUnderstood
  <2>3. CommandOf(buf, len) = Cmd("SELECT", SelectArg(buf, b), b)
    BY <1>1, <2>1 DEF CommandOf, b
  <2>4. QED
    BY <1>4, <1>5, <2>2, <2>3 DEF SeenAs
<1>6. CASE ins = "VERIFY"
  <2>1. Raw(buf, 0) = 0 /\ Raw(buf, 1) = \h20 /\ Raw(buf, 2) = 0 /\ Raw(buf, 3) = \h80
    BY <1>3, <1>6 DEF Headers
  <2>2. VerifyArg(buf, b) = arg
    BY <1>1, <1>6, <2>1, VerifyUnderstood
  <2>3. CommandOf(buf, len) = Cmd("VERIFY", VerifyArg(buf, b), b)
    BY <1>1, <2>1 DEF CommandOf, b
  <2>4. QED
    BY <1>4, <1>6, <2>2, <2>3 DEF SeenAs
<1>7. CASE ins = "GETDATA"
  <2>1. Raw(buf, 0) = 0 /\ Raw(buf, 1) = \hCB /\ Raw(buf, 2) = \h3F /\ Raw(buf, 3) = \hFF
    BY <1>3, <1>7 DEF Headers
  <2>2. GetDataArg(buf, b) = arg
    BY <1>1, <1>7, <2>1, GetDataUnderstood
  <2>3. CommandOf(buf, len) = Cmd("GETDATA", GetDataArg(buf, b), b)
    BY <1>1, <2>1 DEF CommandOf, b
  <2>4. QED
    BY <1>4, <1>7, <2>2, <2>3 DEF SeenAs
<1>8. CASE ins = "GETRESPONSE"
  <2>1. Raw(buf, 0) = 0 /\ Raw(buf, 1) = \hC0
    BY <1>3, <1>8 DEF Headers
  <2>2. CommandOf(buf, len) = Cmd("GETRESPONSE", "none", b)
    BY <1>1, <2>1 DEF CommandOf, b
  <2>3. arg = "none"
    BY <1>8 DEF Asks
  <2>4. QED
    BY <1>4, <1>8, <2>2, <2>3 DEF SeenAs
<1>9. CASE ins = "GENAUTH"
  <2>1. Raw(buf, 0) = 0 /\ Raw(buf, 1) = \h87 /\ Raw(buf, 2) = \h11 /\ Raw(buf, 3) = \h9A
    BY <1>3, <1>9 DEF Headers
  <2>2. GenAuthArg(buf, b) = arg
    BY <1>1, <1>9, <2>1, GenAuthUnderstood
  <2>3. CommandOf(buf, len) = Cmd("GENAUTH", GenAuthArg(buf, b), b)
    BY <1>1, <2>1 DEF CommandOf, b
  <2>4. QED
    BY <1>4, <1>9, <2>2, <2>3 DEF SeenAs
<1>10. QED
  BY <1>5, <1>6, <1>7, <1>8, <1>9, HeaderBytes

(* Every command that a host writes as a short APDU, with any Le, any      *)
(* wrong PIN, any other AID and any challenge of 1 to 64 bytes, is the     *)
(* command that the handlers of piv.c see, whatever the receive buffer     *)
(* held before (apdu.c:11-52).                                             *)
THEOREM ShortIsUnderstood == ApduSpec => []ShortUnderstood
<1>1. ASSUME MessageInv, ApduTypeOK PROVE ShortUnderstood
  <2> SUFFICES ASSUME msg.form = "short" PROVE cmd = msg.means
    BY DEF ShortUnderstood
  <2>1. msg \in Messages
    BY <1>1 DEF ApduTypeOK, NoMessage
  <2>2. msg.means \in AllCommands /\ WrittenShort(msg)
    BY <2>1, ShortAssumption
  <2> DEFINE ins  == msg.means.ins
             arg  == msg.means.arg
             le   == msg.means.le
             data == SubSeq(msg.bytes, DataAt + 1, Len(msg.bytes) - IF le = NoLe THEN 0 ELSE 1)
  <2>3. /\ Asks(ins, arg, data)
        /\ msg.bytes = ShortBytes(Headers[ins], data, le)
        /\ msg.len = Len(msg.bytes)
    BY <2>2 DEF WrittenShort
  <2>4. msg.means = [ins |-> ins, arg |-> arg, le |-> le] /\ le \in NoLe..255
    BY <2>2 DEF AllCommands
  <2>5. data \in Bytes
    <3> DEFINE to == Len(msg.bytes) - IF le = NoLe THEN 0 ELSE 1
    <3>1. msg.bytes \in Bytes /\ Len(msg.bytes) \in Nat
      BY <1>1 DEF MessageInv, Bytes
    <3>2. to \in Int /\ to <= Len(msg.bytes)
      <4>1. PICK x \in 0..1 : x = IF le = NoLe THEN 0 ELSE 1
        OBVIOUS
      <4>2. to = Len(msg.bytes) - x
        BY <4>1
      <4> HIDE DEF to
      <4>3. QED
        BY <3>1, <4>2
    <3>3. data = SubSeq(msg.bytes, 6, to)
      BY DEF DataAt
    <3> HIDE DEF to, data
    <3>4. \A i \in 6..to : msg.bytes[i] \in 0..255
      <4> SUFFICES ASSUME NEW i \in 6..to PROVE msg.bytes[i] \in 0..255
        OBVIOUS
      <4>1. i \in 1..Len(msg.bytes)
        BY <3>1, <3>2
      <4>2. QED
        BY <3>1, <4>1, ElementOfSeq DEF Bytes
    <3>5. SubSeq(msg.bytes, 6, to) \in Seq(0..255)
      BY <3>1, <3>2, <3>4, SubSeqProperties
    <3>6. QED
      BY <3>3, <3>5 DEF Bytes
  <2> DEFINE h == Headers[ins]
  <2> HIDE DEF ins, arg, le, data, h
  <2>6. PICK n \in 0..255 : Len(data) = n
    BY <2>3, <2>5, DataShort
  <2>7. h \in Bytes /\ Len(h) = 4
    BY <2>3, HeaderBytes DEF h
  <2>8. Layout(msg.bytes, h, data, n, le)
    <3>1. Layout(ShortBytes(h, data, le), h, data, n, le)
      BY <2>4, <2>5, <2>6, <2>7, LayoutOf
    <3>2. QED
      BY <2>3, <3>1 DEF h
  <2>9. rxBuf \in Bytes /\ InFront(rxBuf, msg.bytes)
    BY <1>1, <2>3 DEF MessageInv, InFront
  <2>10. Understood(rxBuf, Len(msg.bytes), h, data, n, le)
    BY <2>4, <2>5, <2>6, <2>7, <2>8, <2>9, ShortParsed
  <2>11. Asks(ins, arg, data) /\ Understood(rxBuf, msg.len, Headers[ins], data, n, le)
    BY <2>3, <2>10 DEF h
  <2>12. SeenAs(rxBuf, msg.len, ins, arg, le)
    BY <2>11, CommandUnderstood
  <2>13. QED
    BY <1>1, <2>4, <2>12 DEF MessageInv, SeenAs
<1>2. QED
  BY <1>1, MessageInit, MessageStep, ApduTypeCorrect, PTL DEF ApduSpec
=============================================================================
