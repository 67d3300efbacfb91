------------------------------- MODULE MCApdu -------------------------------
(***************************************************************************)
(* Messages of a host: every command it would write, as a short and as an  *)
(* extended APDU, and short ones that got damaged: cut off, one byte       *)
(* changed, one byte too many, or announced shorter than they are.         *)
(***************************************************************************)
EXTENDS Apdu

\* What the host means, and its data.
Wants(ins, arg, le, data) == [means |-> [ins |-> ins, arg |-> arg, le |-> le], data |-> data]

Hash(n) == [i \in 1..n |-> 7]

Wanted ==
  {Wants("SELECT", "pivAid", 0, PivAid),
   Wants("SELECT", "otherAid", NoLe, [PivAid EXCEPT ![5] = 9]),
   Wants("VERIFY", "noData", NoLe, <<>>),
   Wants("VERIFY", "rightPin", NoLe, PaddedPin),
   Wants("VERIFY", "wrongPin", NoLe, [PaddedPin EXCEPT ![6] = \h30]),
   Wants("GETDATA", "CERT", 0, Tagged(Tags["CERT"])),
   Wants("GETDATA", "CHUID", 16, Tagged(Tags["CHUID"])),
   Wants("GETDATA", "CCC", NoLe, Tagged(Tags["CCC"])),
   Wants("GETDATA", "DISC", 0, Tagged(<<\h7E>>)),
   Wants("GETRESPONSE", "none", 0, <<>>),
   Wants("GETRESPONSE", "none", 5, <<>>),
   Wants("GENAUTH", "sha256", 0, Template(Hash(32))),
   Wants("GENAUTH", "otherDigest", NoLe, Template(Hash(2))),
   Wants("GENAUTH", "otherDigest", 0, LongTemplate(Hash(2)))}

ExtendedBytes(w) ==
  Headers[w.means.ins] \o <<0>>
    \o (IF w.data = <<>> THEN <<>> ELSE <<0, Len(w.data)>> \o w.data)
    \o (IF w.means.le = NoLe THEN <<>> ELSE <<0, w.means.le>>)

Message(bytes, len, form, means) == [bytes |-> bytes, len |-> len, form |-> form, means |-> means]

Whole(bytes, form, means) == Message(bytes, Len(bytes), form, means)
Damaged(bytes) == Whole(bytes, "other", NoCommand)

ShortMessages ==
  {Whole(ShortBytes(Headers[w.means.ins], w.data, w.means.le), "short", w.means) : w \in Wanted}

\* An APDU without data and Le has no extended form.
ExtendedMessages == {Whole(ExtendedBytes(w), "extended", w.means) :
                       w \in {v \in Wanted : v.data # <<>> \/ v.means.le # NoLe}}

Fragile == {m.bytes : m \in {n \in ShortMessages : n.len <= 16}}

Cut        == UNION {{SubSeq(b, 1, n) : n \in 1..Len(b) - 1} : b \in Fragile}
Changed    == {[b EXCEPT ![i] = x] : <<b, i, x>> \in
                 {t \in Fragile \X (1..14) \X {0, 3, \h81, \hFF} : t[2] <= Len(t[1])}}
Overlong   == {Append(b, 4) : b \in Fragile}
Understated == {Message(b, Len(b) - n, "other", NoCommand) : b \in Fragile, n \in 1..3}

\* GET DATA with a tag of three bytes, of which one is there.
Stub == Headers["GETDATA"] \o <<3, \h5C, 3, \h5F>>

MCMessages == ShortMessages \cup ExtendedMessages \cup Understated
                \cup {Damaged(b) : b \in Cut \cup Changed \cup Overlong \cup {Stub}}

PlainMessages == ShortMessages \cup ExtendedMessages
=============================================================================
