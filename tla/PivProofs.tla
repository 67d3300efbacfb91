----------------------------- MODULE PivProofs -----------------------------
(***************************************************************************)
(* Theorems about the PIV applet, for every certificate that fits in       *)
(* flash, every set of commands and every length of the timeouts.          *)
(***************************************************************************)
EXTENDS PivHistory, DeviceStateProofs, TLAPS

(* The host has exactly the bytes that chain_offset counts as sent, of the *)
(* object that was copied to chain_buf.                                    *)
ChainInv == /\ received.obj = chain.obj
            /\ received.upto = chain.offset
            /\ chain.len = IF chain.obj = "none" THEN 0 ELSE ObjLen(chain.obj)

(* The flag in the applet stands for what the host proved. *)
PinInv == /\ pinVerified => lastPin = "rightPin" /\ selected
          /\ signing # "no" => pinVerified

(* No body is empty or longer than the host can take. *)
BodiesInv == BodiesNotLost /\ AnnouncedLengthKept

AppletInv == AppletTypeOK /\ BetweenOperations /\ BodiesInv /\ ChainInv /\ PinInv

-----------------------------------------------------------------------------
(* Lengths *)

(* The length fields of a certificate object are right (piv.c:130-145 and  *)
(* 279-302), and the object fits in chain_buf.                             *)
LEMMA CertLengths ==
  ASSUME NEW n \in 0..MaxCertLen
  PROVE  /\ CertInnerLen(n) = 1 + BerLenBytes(n) + n + 5
         /\ CertObjLen(n) = 1 + BerLenBytes(CertInnerLen(n)) + CertInnerLen(n)
         /\ CertObjLen(n) \in 1..ChainCap
BY DEF MaxCertLen, ChainCap, CertInnerLen, CertObjLen, BerLenBytes

(* What _ber_len_write() writes is read back as the number it was given.   *)
LEMMA LengthReadBack ==
  ASSUME NEW n \in 0..ChainCap
  PROVE  DecodedLen(BerLenWrite(n)) = n /\ Len(BerLenWrite(n)) = BerLenBytes(n)
<1>1. CASE n < 128
  <2>1. BerLenWrite(n) = <<n>>
    BY <1>1 DEF BerLenWrite, ChainCap
  <2>2. QED
    BY <1>1, <2>1 DEF DecodedLen, BerLenBytes, ChainCap
<1>2. CASE n \in 128..255
  <2>1. BerLenWrite(n) = <<129, n>>
    BY <1>2 DEF BerLenWrite, ChainCap
  <2>2. QED
    BY <1>2, <2>1 DEF DecodedLen, BerLenBytes, ChainCap
<1>3. CASE n > 255
  <2>1. n \in Nat /\ n \div 256 \in 0..16 /\ n % 256 \in 0..255
    BY <1>3, SMT DEF ChainCap
  <2>2. n = 256 * (n \div 256) + (n % 256)
    BY <1>3, SMT DEF ChainCap
  <2>3. (n \div 256) % 256 = n \div 256
    <3>1. \A k \in 0..16 : k % 256 = k
      BY SMT
    <3>2. QED
      BY <2>1, <3>1
  <2>4. BerLenWrite(n) = <<130, n \div 256, n % 256>>
    BY <1>3, <2>1, <2>3 DEF BerLenWrite, ChainCap
  <2>5. DecodedLen(<<130, n \div 256, n % 256>>) = 256 * (n \div 256) + (n % 256)
    <3>1. \A hi, lo \in Nat : DecodedLen(<<130, hi, lo>>) = 256 * hi + lo
      BY DEF DecodedLen
    <3>2. QED
      BY <2>1, <3>1
  <2>6. DecodedLen(BerLenWrite(n)) = n
    BY <2>2, <2>4, <2>5
  <2>7. Len(BerLenWrite(n)) = 3
    BY <2>4
  <2>8. QED
    BY <1>3, <2>1, <2>6, <2>7 DEF BerLenBytes
<1>4. QED
  BY <1>1, <1>2, <1>3 DEF ChainCap

LEMMA ObjLenRange ==
  ASSUME NEW obj \in Objects
  PROVE  ObjLen(obj) \in 1..ChainCap
BY PivAssumption, CertLengths DEF Objects, ObjLen, ChainCap

LEMMA LeRange ==
  ASSUME NEW cmd \in Commands
  PROVE  Le(cmd.le) \in 1..256
<1>1. cmd.le \in NoLe..255
  BY PivAssumption DEF AllCommands
<1>2. QED
  BY <1>1 DEF Le, NoLe

(* No handler asks apdu_resp_append() for more than fits, so that ignoring *)
(* what it returns is harmless.                                            *)
LEMMA BodyFits ==
  ASSUME NEW sw, NEW obj, NEW from \in Nat, NEW n \in 1..256
  PROVE  Body(sw, obj, from, n) = [sw |-> sw, obj |-> obj, from |-> from, to |-> from + n]
BY PivAssumption DEF Body

LEMMA LastChunk ==
  ASSUME NEW obj, NEW from \in Nat, NEW n \in 1..256, NEW len \in Nat, from + n >= len
  PROVE  Chunk(obj, from, n, len)
           = [sw |-> "SW_OK", obj |-> obj, from |-> from, to |-> from + n]
<1>1. Chunk(obj, from, n, len) = Body("SW_OK", obj, from, n)
  BY DEF Chunk
<1>2. QED
  BY <1>1, BodyFits

LEMMA InnerChunk ==
  ASSUME NEW obj, NEW from \in Nat, NEW n \in 1..256, NEW len \in Nat, from + n < len
  PROVE  Chunk(obj, from, n, len)
           = [sw |-> "SW_MORE_DATA", obj |-> obj, from |-> from, to |-> from + n]
<1>1. Chunk(obj, from, n, len) = Body("SW_MORE_DATA", obj, from, n)
  BY DEF Chunk
<1>2. QED
  BY <1>1, BodyFits

-----------------------------------------------------------------------------
(* The handlers *)

(* A refusal changes nothing but the response. *)
LEMMA RefuseStep ==
  ASSUME NEW cmd \in Commands, AppletInv, NEW sw \in StatusWords, Refuse(sw),
         cmd.ins = "VERIFY" => ~selected \/ cmd.arg \notin {"wrongPin", "rightPin"},
         sw # "SW_MORE_DATA", signing = "no",
         NotesChunk(cmd), NotesPin(cmd), answered' \in DOMAIN Args \cup {"none"}
  PROVE  AppletInv'
<1>1. received' = received /\ lastPin' = lastPin
  BY DEF Refuse, Sw, NotesChunk, NotesPin
<1>2. rapdu' \in [sw : StatusWords, obj : Bodies, from : Nat, to : Nat] /\ BodiesInv'
  BY DEF Refuse, Sw, Bodies, BodiesInv, BodiesNotLost,
           AnnouncedLengthKept, CcidHeaderLen, MaxCCIDMessageLength
<1>3. DevTypeOK' /\ PivTypeOK' /\ BetweenOperations' /\ ChainInv' /\ PinInv'
  BY <1>1, <1>2 DEF AppletInv, AppletTypeOK, Refuse, cardVars, devVars, DevTypeOK, PivTypeOK,
                    BetweenOperations, ChainInv, PinInv
<1>4. QED
  BY <1>1, <1>2, <1>3 DEF AppletInv, AppletTypeOK

LEMMA SelectStep ==
  ASSUME NEW cmd \in Commands, AppletInv, cmd.ins = "SELECT", HandleSelect(cmd.arg),
         signing = "no", NotesChunk(cmd), NotesPin(cmd),
         answered' \in DOMAIN Args \cup {"none"}
  PROVE  AppletInv'
<1>1. CASE cmd.arg \in DOMAIN SelectSW /\ Refuse(SelectSW[cmd.arg])
  <2>1. SelectSW[cmd.arg] \in StatusWords \ {"SW_MORE_DATA"}
    BY <1>1 DEF SelectSW, StatusWords
  <2>2. QED
    BY <1>1, <2>1, RefuseStep
<1>2. CASE /\ selected' = TRUE
           /\ rapdu' = Body("SW_OK", "FCI", 0, 19)
           /\ UNCHANGED <<pinVerified, chain, signing, devVars>>
  <2>1. rapdu' = [sw |-> "SW_OK", obj |-> "FCI", from |-> 0, to |-> 0 + 19]
    BY <1>2, BodyFits
  <2>2. /\ rapdu' \in [sw : StatusWords, obj : Bodies, from : Nat, to : Nat]
        /\ BodiesInv'
    BY <2>1 DEF StatusWords, Bodies, BodiesInv, BodiesNotLost,
           AnnouncedLengthKept, CcidHeaderLen, MaxCCIDMessageLength
  <2>3. received' = received /\ lastPin' = lastPin
    BY DEF NotesChunk, NotesPin
  <2>4. QED
    BY <1>2, <2>2, <2>3 DEF AppletInv, AppletTypeOK, devVars, DevTypeOK, PivTypeOK,
                            BetweenOperations, ChainInv, PinInv
<1>3. QED
  BY <1>1, <1>2 DEF HandleSelect

LEMMA VerifyStep ==
  ASSUME NEW cmd \in Commands, AppletInv, cmd.ins = "VERIFY", selected, HandleVerify(cmd.arg),
         signing = "no", NotesChunk(cmd), NotesPin(cmd),
         answered' \in DOMAIN Args \cup {"none"}
  PROVE  AppletInv'
<1>1. CASE cmd.arg \in DOMAIN VerifySW /\ Refuse(VerifySW[cmd.arg])
  <2>1. /\ VerifySW[cmd.arg] \in StatusWords \ {"SW_MORE_DATA"}
        /\ cmd.arg \notin {"wrongPin", "rightPin"}
    BY <1>1 DEF VerifySW, StatusWords
  <2>2. QED
    BY <1>1, <2>1, RefuseStep
<1>2. CASE /\ cmd.arg \in {"wrongPin", "rightPin"}
           /\ pinVerified' = (cmd.arg = "rightPin")
           /\ rapdu' = Sw(IF cmd.arg = "rightPin" THEN "SW_OK"
                                                  ELSE "SW_SECURITY_NOT_SATISFIED")
           /\ UNCHANGED <<selected, chain, signing, devVars>>
  <2>1. /\ rapdu' \in [sw : StatusWords, obj : Bodies, from : Nat, to : Nat]
        /\ BodiesInv'
    BY <1>2 DEF Sw, StatusWords, Bodies, BodiesInv, BodiesNotLost,
           AnnouncedLengthKept, CcidHeaderLen, MaxCCIDMessageLength
  <2>2. received' = received /\ lastPin' = cmd.arg
    BY <1>2 DEF NotesChunk, NotesPin
  <2>3. PinInv' /\ pinVerified' \in BOOLEAN
    BY <1>2, <2>2, Zenon DEF PinInv
  <2>4. QED
    BY <1>2, <2>1, <2>2, <2>3 DEF AppletInv, AppletTypeOK, devVars, DevTypeOK, PivTypeOK,
                                  BetweenOperations, ChainInv
<1>3. QED
  BY <1>1, <1>2 DEF HandleVerify

LEMMA GetDataStep ==
  ASSUME NEW cmd \in Commands, AppletInv, cmd.ins = "GETDATA",
         NEW obj, NEW le \in 1..256, HandleGetData(obj, le),
         signing = "no", NotesChunk(cmd), NotesPin(cmd),
         answered' \in DOMAIN Args \cup {"none"}
  PROVE  AppletInv'
<1>1. CASE obj \in DOMAIN GetDataSW /\ Refuse(GetDataSW[obj])
  <2>1. GetDataSW[obj] \in StatusWords \ {"SW_MORE_DATA"}
    BY <1>1 DEF GetDataSW, StatusWords
  <2>2. QED
    BY <1>1, <2>1, RefuseStep
<1>2. CASE Refuse("SW_REFERENCED_DATA_NOT_FOUND")
  BY <1>2, RefuseStep DEF StatusWords
<1>3. ASSUME obj \in Objects, NEW len \in 1..ChainCap, len = ObjLen(obj), len <= le,
             rapdu' = Chunk(obj, 0, len, len),
             UNCHANGED <<cardVars, signing, devVars>>
      PROVE  AppletInv'
  <2>1. len \in 1..256
    BY <1>3
  <2>2. Chunk(obj, 0, len, len)
          = [sw |-> "SW_OK", obj |-> obj, from |-> 0, to |-> 0 + len]
    <3>1. len \in Nat /\ 0 + len >= len /\ 0 \in Nat
      BY <2>1
    <3>2. QED
      BY <2>1, <3>1, LastChunk
  <2>3. /\ rapdu' \in [sw : StatusWords, obj : Bodies, from : Nat, to : Nat]
        /\ BodiesInv'
    BY <1>3, <2>1, <2>2 DEF StatusWords, Bodies, BodiesInv, BodiesNotLost,
           AnnouncedLengthKept, CcidHeaderLen, MaxCCIDMessageLength
  <2>4. received' = received /\ lastPin' = lastPin
    BY <1>3, <2>2 DEF NotesChunk, NotesPin
  <2>5. QED
    BY <1>3, <2>3, <2>4 DEF AppletInv, AppletTypeOK, cardVars, devVars, DevTypeOK, PivTypeOK,
                            BetweenOperations, ChainInv, PinInv
<1>4. ASSUME obj \in Objects, NEW len \in 1..ChainCap, len = ObjLen(obj), len > le,
             chain' = [obj |-> obj, len |-> len, offset |-> le],
             rapdu' = Chunk(obj, 0, le, len),
             UNCHANGED <<selected, pinVerified, signing, devVars>>
      PROVE  AppletInv'
  <2>1. Chunk(obj, 0, le, len)
          = [sw |-> "SW_MORE_DATA", obj |-> obj, from |-> 0, to |-> 0 + le]
    <3>1. len \in Nat /\ 0 + le < len /\ 0 \in Nat
      BY <1>4 DEF ChainCap
    <3>2. QED
      BY <3>1, InnerChunk
  <2>2. /\ rapdu' \in [sw : StatusWords, obj : Bodies, from : Nat, to : Nat]
        /\ BodiesInv'
    BY <1>4, <2>1 DEF StatusWords, Bodies, BodiesInv, BodiesNotLost,
           AnnouncedLengthKept, CcidHeaderLen, MaxCCIDMessageLength
  <2>3. received' = [obj |-> obj, upto |-> le] /\ lastPin' = lastPin
    BY <1>4, <2>1 DEF NotesChunk, NotesPin
  <2>4. /\ chain' \in [obj : Objects \cup {"none"}, len : 0..ChainCap, offset : 0..ChainCap]
        /\ chain'.offset <= chain'.len
        /\ received' \in [obj : Objects \cup {"none"}, upto : Nat]
    BY <1>4, <2>3 DEF ChainCap
  <2>5. ChainInv'
    <3>1. obj # "none"
      BY <1>4 DEF Objects
    <3>2. ObjLen(obj)' = ObjLen(obj)
      BY DEF ObjLen
    <3>3. QED
      BY <1>4, <2>3, <3>1, <3>2 DEF ChainInv
  <2>6. QED
    BY <1>4, <2>2, <2>3, <2>4, <2>5 DEF AppletInv, AppletTypeOK, devVars, DevTypeOK,
                                        PivTypeOK, BetweenOperations, PinInv
<1>5. QED
  BY <1>1, <1>2, <1>3, <1>4, ObjLenRange DEF HandleGetData

LEMMA GetResponseStep ==
  ASSUME NEW cmd \in Commands, AppletInv, cmd.ins = "GETRESPONSE",
         NEW le \in 1..256, HandleGetResponse(le),
         signing = "no", NotesChunk(cmd), NotesPin(cmd),
         answered' \in DOMAIN Args \cup {"none"}
  PROVE  AppletInv'
<1>1. CASE Refuse("SW_CONDITIONS_NOT_SATISFIED")
  BY <1>1, RefuseStep DEF StatusWords
<1>2. /\ chain \in [obj : Objects \cup {"none"}, len : 0..ChainCap, offset : 0..ChainCap]
      /\ received \in [obj : Objects \cup {"none"}, upto : Nat]
  BY DEF AppletInv, AppletTypeOK, PivTypeOK
<1>3. /\ chain.offset \in Nat /\ chain.len \in Nat
      /\ chain.offset <= chain.len /\ chain.len <= ChainCap
  <2>1. chain.offset \in 0..ChainCap /\ chain.len \in 0..ChainCap
    BY <1>2
  <2>2. chain.offset <= chain.len
    BY DEF AppletInv, AppletTypeOK, PivTypeOK
  <2>3. ChainCap \in Nat
    BY DEF ChainCap
  <2>4. QED
    BY <2>1, <2>2, <2>3
<1>4. ASSUME NEW n \in 1..256, chain.offset + n <= chain.len,
             rapdu' = Chunk(chain.obj, chain.offset, n, chain.len),
             chain' = [chain EXCEPT !.offset = @ + n],
             UNCHANGED <<selected, pinVerified, signing, devVars>>
      PROVE  AppletInv'
  <2>1. chain.obj \in Objects /\ chain.obj # "none"
    <3>1. chain.obj # "none"
      BY <1>3, <1>4 DEF AppletInv, ChainInv
    <3>2. QED
      BY <1>2, <3>1
  <2>2. PICK sw \in {"SW_OK", "SW_MORE_DATA"} :
          rapdu' = [sw |-> sw, obj |-> chain.obj, from |-> chain.offset,
                    to |-> chain.offset + n]
    <3>1. CASE chain.offset + n >= chain.len
      BY <1>3, <1>4, <3>1, LastChunk
    <3>2. CASE chain.offset + n < chain.len
      BY <1>3, <1>4, <3>2, InnerChunk
    <3>3. QED
      BY <1>3, <3>1, <3>2
  <2>3. /\ rapdu' \in [sw : StatusWords, obj : Bodies, from : Nat, to : Nat]
        /\ BodiesInv'
    BY <1>3, <2>1, <2>2 DEF StatusWords, Bodies, BodiesInv, BodiesNotLost,
           AnnouncedLengthKept, CcidHeaderLen, MaxCCIDMessageLength
  <2>4. received' = [received EXCEPT !.upto = @ + n] /\ lastPin' = lastPin
    <3>1. rapdu'.to - rapdu'.from = n /\ rapdu'.obj # "none"
      BY <1>3, <2>1, <2>2
    <3>2. QED
      BY <3>1 DEF NotesChunk, NotesPin
  <2>5. /\ chain' \in [obj : Objects \cup {"none"}, len : 0..ChainCap, offset : 0..ChainCap]
        /\ chain'.offset <= chain'.len
    <3>1. chain.offset + n \in 0..ChainCap
      <4>1. ChainCap \in Nat
        BY DEF ChainCap
      <4>2. QED
        BY <1>3, <1>4, <4>1
    <3>2. QED
      BY <1>2, <1>4, <3>1
  <2>6. received' \in [obj : Objects \cup {"none"}, upto : Nat]
    <3>1. received.upto + n \in Nat
      BY <1>2
    <3>2. QED
      BY <1>2, <2>4, <3>1
  <2>7. ChainInv'
    <3>1. ObjLen(chain.obj)' = ObjLen(chain'.obj)
      BY DEF ObjLen
    <3>2. QED
      BY <1>2, <1>4, <2>4, <3>1 DEF ChainInv, AppletInv
  <2>8. QED
    BY <1>4, <2>3, <2>4, <2>5, <2>6, <2>7 DEF AppletInv, AppletTypeOK, devVars, DevTypeOK,
                                              PivTypeOK, BetweenOperations, PinInv
<1>5. ASSUME chain.offset < chain.len, NEW n, n = SendNow(chain.len - chain.offset, le)
      PROVE  n \in 1..256 /\ chain.offset + n <= chain.len
  BY <1>3, <1>5 DEF SendNow, ChainCap
<1>6. QED
  BY <1>1, <1>4, <1>5 DEF HandleGetResponse

LEMMA GenAuthStep ==
  ASSUME NEW cmd \in Commands, AppletInv, cmd.ins = "GENAUTH", selected, HandleGenAuth(cmd.arg),
         signing = "no", NotesChunk(cmd), NotesPin(cmd),
         answered' \in DOMAIN Args \cup {"none"}
  PROVE  AppletInv'
<1>1. received' = received /\ lastPin' = lastPin
  BY DEF NotesChunk, NotesPin
<1>2. DevTypeOK
  BY DEF AppletInv, AppletTypeOK
<1>3. CASE HandleGenAuthInvalid(cmd.arg)
  <2>1. PICK sw \in StatusWords \ {"SW_MORE_DATA"} : Refuse(sw)
    BY <1>3 DEF HandleGenAuthInvalid, AlgKeySW, TemplateSW, StatusWords
  <2>2. QED
    BY <2>1, RefuseStep
<1>4. ASSUME ~IsAuthorized, RequestAuth, UNCHANGED <<cardVars, signing>>,
             rapdu' = Sw("SW_CONDITIONS_NOT_SATISFIED")
      PROVE  AppletInv'
  <2>1. DevTypeOK'
    BY <1>2, <1>4, DevTypeStep DEF DevNext
  <2>2. rapdu' \in [sw : StatusWords, obj : Bodies, from : Nat, to : Nat] /\ BodiesInv'
    BY <1>4 DEF Sw, StatusWords, Bodies, BodiesInv, BodiesNotLost,
           AnnouncedLengthKept, CcidHeaderLen, MaxCCIDMessageLength
  <2>3. BetweenOperations'
    BY <1>4 DEF AppletInv, BetweenOperations, RequestAuth, IsAuthorized, devVars
  <2>4. QED
    BY <1>1, <1>4, <2>1, <2>2, <2>3
       DEF AppletInv, AppletTypeOK, cardVars, PivTypeOK, ChainInv, PinInv
<1>5. ASSUME cmd.arg \in Digests, pinVerified, ConsumeAuth, signing' = cmd.arg,
             UNCHANGED <<cardVars, rapdu>>
      PROVE  AppletInv'
  <2>1. DevTypeOK'
    BY <1>2, <1>5, DevTypeStep DEF DevNext
  <2>2. BetweenOperations' /\ signing' \in Digests \cup {"no"}
    BY <1>5 DEF BetweenOperations, ConsumeAuth, IsAuthorized, Digests
  <2>3. QED
    BY <1>1, <1>5, <2>1, <2>2
       DEF AppletInv, AppletTypeOK, cardVars, PivTypeOK, ChainInv, PinInv, BodiesInv, BodiesNotLost,
           AnnouncedLengthKept, CcidHeaderLen, MaxCCIDMessageLength
<1>6. QED
  BY <1>3, <1>4, <1>5 DEF HandleGenAuth

LEMMA ExchangeStep ==
  ASSUME NEW cmd \in Commands, AppletInv, Exchange(cmd)
  PROVE  AppletInv'
<1>1. cmd.ins \in DOMAIN Args
  BY PivAssumption DEF AllCommands
<1>2. /\ signing = "no" /\ NotesChunk(cmd) /\ NotesPin(cmd) /\ Process(cmd)
      /\ answered' \in DOMAIN Args \cup {"none"}
  BY <1>1 DEF Exchange, Process
<1>3. CASE \E sw \in StatusWords \ {"SW_MORE_DATA"} :
             Refuse(sw) /\ (cmd.ins # "VERIFY" \/ ~selected)
  BY <1>2, <1>3, RefuseStep
<1>4. CASE cmd.ins = "SELECT" /\ HandleSelect(cmd.arg)
  BY <1>2, <1>4, SelectStep
<1>5. CASE cmd.ins = "VERIFY" /\ selected /\ HandleVerify(cmd.arg)
  BY <1>2, <1>5, VerifyStep
<1>6. CASE cmd.ins = "GETDATA" /\ selected /\ HandleGetData(cmd.arg, Le(cmd.le))
  BY <1>2, <1>6, LeRange, GetDataStep
<1>7. CASE cmd.ins = "GETRESPONSE" /\ selected /\ HandleGetResponse(Le(cmd.le))
  BY <1>2, <1>7, LeRange, GetResponseStep
<1>8. CASE cmd.ins = "GENAUTH" /\ selected /\ HandleGenAuth(cmd.arg)
  BY <1>2, <1>8, GenAuthStep
<1>9. QED
  BY <1>2, <1>3, <1>4, <1>5, <1>6, <1>7, <1>8 DEF Process, StatusWords

LEMMA SignStep ==
  ASSUME AppletInv, Sign
  PROVE  AppletInv'
<1>1. DevTypeOK /\ UNCHANGED hostVars
  BY DEF AppletInv, AppletTypeOK, Sign
<1>2. CASE BeginSigning /\ answered' = "none"
  <2>1. DevTypeOK'
    BY <1>1, <1>2, DevTypeStep DEF DevNext, BeginSigning
  <2>2. BetweenOperations'
    BY <1>2 DEF AppletInv, BetweenOperations, BeginSigning, BeginProcessing, pivVars
  <2>3. QED
    BY <1>1, <1>2, <2>1, <2>2
       DEF AppletInv, AppletTypeOK, hostVars, BeginSigning, pivVars, PivTypeOK, ChainInv, PinInv,
           BodiesInv, BodiesNotLost,
           AnnouncedLengthKept, CcidHeaderLen, MaxCCIDMessageLength
<1>3. CASE FinishSigning /\ answered' = "GENAUTH"
  <2>1. DevTypeOK' /\ BetweenOperations'
    BY <1>1, <1>3, DevTypeStep DEF DevNext, FinishSigning, OpComplete, BetweenOperations
  <2>2. rapdu' \in [sw : StatusWords, obj : Bodies, from : Nat, to : Nat] /\ BodiesInv'
    <3>1. CASE rapdu' = Sw("SW_UNKNOWN")
      BY <3>1 DEF Sw, StatusWords, Bodies, BodiesInv, BodiesNotLost,
           AnnouncedLengthKept, CcidHeaderLen, MaxCCIDMessageLength
    <3>2. CASE \E n \in SigLengths : rapdu' = Body("SW_OK", "signature", 0, 4 + n)
      <4>1. PICK n \in SigLengths : rapdu' = Body("SW_OK", "signature", 0, 4 + n)
        BY <3>2
      <4>2. n \in 1..72
        BY PivAssumption
      <4>3. 4 + n \in 1..256 /\ 0 + (4 + n) > 0 /\ 0 + (4 + n) \in Nat
        BY <4>2
      <4>4. rapdu' = [sw |-> "SW_OK", obj |-> "signature", from |-> 0, to |-> 0 + (4 + n)]
        BY <4>1, <4>3, BodyFits
      <4>5. QED
        BY <4>3, <4>4 DEF StatusWords, Bodies, BodiesInv, BodiesNotLost,
           AnnouncedLengthKept, CcidHeaderLen, MaxCCIDMessageLength
    <3>3. QED
      BY <1>3, <3>1, <3>2 DEF FinishSigning
  <2>3. QED
    BY <1>1, <1>3, <2>1, <2>2
       DEF AppletInv, AppletTypeOK, hostVars, FinishSigning, cardVars, PivTypeOK, ChainInv, PinInv,
           Args
<1>4. QED
  BY <1>2, <1>3 DEF Sign

-----------------------------------------------------------------------------
(* The inductive invariant *)

LEMMA AppletInit_Inv == AppletInit => AppletInv
<1> SUFFICES ASSUME AppletInit PROVE AppletInv
  OBVIOUS
<1>1. deadline \in Nat /\ state = "IDLE" /\ authConsumed = FALSE
  BY DEF AppletInit, DevInit
<1>2. DevTypeOK
  BY <1>1, Zenon DEF DevTypeOK, DevStates
<1>3. 0 \in 0..ChainCap /\ 0 \in Nat /\ 0 <= 0
  BY DEF ChainCap
<1>4. PivTypeOK /\ rapdu.obj = "none"
  BY <1>3 DEF AppletInit, PivInit, PivTypeOK, NoChain, Sw, StatusWords, Bodies
<1>5. received = Nothing /\ lastPin = "none" /\ answered = "none" /\ chain = NoChain
      /\ pinVerified = FALSE /\ signing = "no"
  BY DEF AppletInit, HostInit, PivInit
<1>6. rapdu.from = 0 /\ rapdu.to = 0
  BY DEF AppletInit, PivInit, Sw
<1>7. BodiesInv
  BY <1>4, <1>6
     DEF BodiesInv, BodiesNotLost, AnnouncedLengthKept, CcidHeaderLen, MaxCCIDMessageLength
<1>8. QED
  BY <1>1, <1>2, <1>3, <1>4, <1>5, <1>7
     DEF AppletInv, AppletTypeOK, BetweenOperations, ChainInv, PinInv, Nothing, NoChain

LEMMA PowerOnCardStep ==
  ASSUME AppletInv, PowerOnCard
  PROVE  AppletInv'
<1>1. /\ UNCHANGED <<rapdu, signing, devVars>> /\ signing = "no"
      /\ received' = Nothing /\ lastPin' = "none" /\ answered' = "none"
      /\ chain' = NoChain /\ pinVerified' = FALSE /\ selected' = FALSE
  BY DEF PowerOnCard, ResetCard
<1>2. 0 \in 0..ChainCap /\ 0 \in Nat /\ 0 <= 0
  BY DEF ChainCap
<1>3. DevTypeOK' /\ BetweenOperations' /\ BodiesInv'
  BY <1>1 DEF AppletInv, AppletTypeOK, devVars, DevTypeOK, BetweenOperations, BodiesInv,
           BodiesNotLost,
           AnnouncedLengthKept, CcidHeaderLen, MaxCCIDMessageLength
<1>4. PivTypeOK'
  BY <1>1, <1>2 DEF AppletInv, AppletTypeOK, PivTypeOK, NoChain
<1>5. QED
  BY <1>1, <1>2, <1>3, <1>4 DEF AppletInv, AppletTypeOK, ChainInv, PinInv, Nothing, NoChain

LEMMA AroundStep ==
  ASSUME AppletInv, Surroundings \/ Clock \/ UNCHANGED appletVars
  PROVE  AppletInv'
<1>1. UNCHANGED <<pivVars, hostVars>> /\ answered' \in DOMAIN Args \cup {"none"}
  BY DEF AppletInv, AppletTypeOK, Surroundings, Clock, appletVars, hostVars
<1>2. [DevNext]_devVars /\ DevTypeOK
  BY DEF AppletInv, AppletTypeOK, Surroundings, Clock, appletVars, DevNext
<1>3. DevTypeOK'
  BY <1>2, DevTypeStep
<1>4. BetweenOperations'
  <2>1. CASE Surroundings
    BY <1>1, <2>1 DEF AppletInv, BetweenOperations, Surroundings, ButtonPressed, DevStateTick,
                      DevStateInit, devVars, pivVars
  <2>2. CASE Clock \/ UNCHANGED appletVars
    BY <1>1, <2>2 DEF AppletInv, BetweenOperations, Clock, DevElapse, appletVars, devVars, pivVars
  <2>3. QED
    BY <2>1, <2>2
<1>5. QED
  BY <1>1, <1>3, <1>4
     DEF AppletInv, AppletTypeOK, pivVars, hostVars, PivTypeOK, ChainInv, PinInv, BodiesInv,
           BodiesNotLost,
           AnnouncedLengthKept, CcidHeaderLen, MaxCCIDMessageLength

LEMMA AppletStep ==
  ASSUME AppletInv, [AppletNext]_appletVars
  PROVE  AppletInv'
BY ExchangeStep, SignStep, PowerOnCardStep, AroundStep DEF AppletNext

(* What the applet, the host and the state machine are together stays so.  *)
THEOREM AppletInvHolds == AppletSpec => []AppletInv
<1>1. AppletInv /\ [AppletNext]_appletVars => AppletInv'
  BY AppletStep
<1>2. QED
  BY AppletInit_Inv, <1>1, PTL DEF AppletSpec

(* The variables of src/piv.c keep their types: chain_offset never passes  *)
(* chain_len, which never passes the end of chain_buf.                     *)
THEOREM AppletTypeCorrect == AppletSpec => []AppletTypeOK
<1>1. AppletInv => AppletTypeOK
  BY DEF AppletInv
<1>2. QED
  BY <1>1, AppletInvHolds, PTL

(* No private-key operation runs without a PIN (README.md:121).            *)
THEOREM PinGuardsKey == AppletSpec => []SigningNeedsPin
<1>1. AppletInv => SigningNeedsPin
  BY DEF AppletInv, PinInv, SigningNeedsPin
<1>2. QED
  BY <1>1, AppletInvHolds, PTL

(* No body that a handler hands to apdu_resp_append() is dropped.          *)
THEOREM NoBodyLost == AppletSpec => []BodiesNotLost
<1>1. AppletInv => BodiesNotLost
  BY DEF AppletInv, BodiesInv
<1>2. QED
  BY <1>1, AppletInvHolds, PTL

(* No response of the applet exceeds dwMaxCCIDMessageLength, for every     *)
(* certificate, signature and Le.                                          *)
THEOREM LengthsAnnounced == AppletSpec => []AnnouncedLengthKept
<1>1. AppletInv => AnnouncedLengthKept
  BY DEF AppletInv, BodiesInv
<1>2. QED
  BY <1>1, AppletInvHolds, PTL

(* The state machine is ready for the next operation after every one.      *)
THEOREM ReadyBetween == AppletSpec => []BetweenOperations
<1>1. AppletInv => BetweenOperations
  BY DEF AppletInv
<1>2. QED
  BY <1>1, AppletInvHolds, PTL

-----------------------------------------------------------------------------
(* What single steps may do *)

(* Where a GET RESPONSE goes on, and when it says that it was the last.    *)
LEMMA GetResponseContinues ==
  ASSUME NEW cmd \in Commands, AppletInv, cmd.ins = "GETRESPONSE", NotesChunk(cmd),
         NEW le \in 1..256, HandleGetResponse(le), rapdu'.obj # "none"
  PROVE  /\ rapdu'.obj = received.obj
         /\ rapdu'.from = received.upto
         /\ (rapdu'.sw = "SW_OK") <=> (received'.upto = ObjLen(received.obj))
<1>1. /\ chain.offset < chain.len
      /\ chain.offset \in Nat /\ chain.len \in Nat
      /\ received.obj = chain.obj /\ received.upto = chain.offset
  <2>1. chain.offset \in 0..ChainCap /\ chain.len \in 0..ChainCap
    BY DEF AppletInv, AppletTypeOK, PivTypeOK
  <2>2. ~Refuse("SW_CONDITIONS_NOT_SATISFIED")
    BY DEF Refuse, Sw
  <2>3. ChainCap \in Nat
    BY DEF ChainCap
  <2>4. QED
    BY <2>1, <2>2, <2>3 DEF HandleGetResponse, AppletInv, ChainInv
<1>2. chain.len = ObjLen(chain.obj)
  BY <1>1 DEF AppletInv, ChainInv
<1>3. PICK n \in 1..256 : /\ chain.offset + n <= chain.len
                          /\ rapdu' = Chunk(chain.obj, chain.offset, n, chain.len)
  <2>1. ~Refuse("SW_CONDITIONS_NOT_SATISFIED")
    BY DEF Refuse, Sw
  <2>2. PICK n : /\ n = SendNow(chain.len - chain.offset, le)
                 /\ rapdu' = Chunk(chain.obj, chain.offset, n, chain.len)
    BY <2>1 DEF HandleGetResponse
  <2>3. n \in 1..256 /\ chain.offset + n <= chain.len
    BY <1>1, <2>2 DEF SendNow
  <2>4. QED
    BY <2>2, <2>3
<1>4. /\ rapdu'.obj = chain.obj /\ rapdu'.from = chain.offset
      /\ rapdu'.to = chain.offset + n
      /\ (rapdu'.sw = "SW_OK") <=> (chain.offset + n >= chain.len)
  <2>1. CASE chain.offset + n >= chain.len
    <3>1. rapdu' = [sw |-> "SW_OK", obj |-> chain.obj, from |-> chain.offset,
                    to |-> chain.offset + n]
      BY <1>1, <1>3, <2>1, LastChunk
    <3>2. QED
      BY <2>1, <3>1, Zenon
  <2>2. CASE chain.offset + n < chain.len
    <3>1. rapdu' = [sw |-> "SW_MORE_DATA", obj |-> chain.obj, from |-> chain.offset,
                    to |-> chain.offset + n]
      BY <1>1, <1>3, <2>2, InnerChunk
    <3>2. ~(chain.offset + n >= chain.len)
      BY <1>1, <2>2
    <3>3. QED
      BY <3>1, <3>2
  <2>3. QED
    BY <1>1, <2>1, <2>2
<1>5. received'.upto = chain.offset + n
  <2>1. received' = [received EXCEPT !.upto = @ + n]
    <3>1. rapdu'.to - rapdu'.from = n
      BY <1>1, <1>4
    <3>2. QED
      BY <3>1 DEF NotesChunk
  <2>2. received \in [obj : Objects \cup {"none"}, upto : Nat]
    BY DEF AppletInv, AppletTypeOK
  <2>3. QED
    BY <1>1, <2>1, <2>2
<1>6. QED
  BY <1>1, <1>2, <1>3, <1>4, <1>5

(* The parts of an object are put together without a gap or an overlap,    *)
(* for every certificate and every Le (piv.c:324-366).                     *)
THEOREM ChunksAssembled == AppletSpec => ChunksAssemble
<1> DEFINE Continues ==
      (answered' = "GETRESPONSE" /\ rapdu'.obj # "none")
        => /\ rapdu'.obj = received.obj
           /\ rapdu'.from = received.upto
           /\ (rapdu'.sw = "SW_OK") <=> (received'.upto = ObjLen(received.obj))
<1>1. AppletInv /\ [AppletNext]_appletVars => [Continues]_appletVars
  <2> SUFFICES ASSUME AppletInv, AppletNext, answered' = "GETRESPONSE", rapdu'.obj # "none"
               PROVE  Continues
    BY DEF AppletInv
  <2>1. PICK cmd \in Commands : Exchange(cmd) /\ cmd.ins = "GETRESPONSE"
    BY DEF AppletNext, Exchange, Sign, PowerOnCard, Surroundings, Clock
  <2>2. HandleGetResponse(Le(cmd.le)) /\ NotesChunk(cmd)
    BY <2>1 DEF Exchange, Process, Refuse, Sw
  <2>3. QED
    BY <2>1, <2>2, LeRange, GetResponseContinues
<1>2. QED
  BY <1>1, AppletInvHolds, PTL DEF AppletSpec, ChunksAssemble

(* A certificate object in chain_buf announces its lengths rightly, for    *)
(* every certificate that flash can hold.                                  *)
THEOREM CertificateReadable == AppletSpec => []CertObjWellFormed
<1>1. AppletInv => CertObjWellFormed
  <2> SUFFICES ASSUME AppletInv, chain.obj = "CERT"
               PROVE  CertObjWellFormed
    BY DEF CertObjWellFormed
  <2>1. chain.len = CertObjLen(CertLen)
    BY DEF AppletInv, ChainInv, ObjLen
  <2>2. CertLen \in 0..MaxCertLen /\ CertLen \in 0..ChainCap
    BY PivAssumption DEF MaxCertLen, ChainCap
  <2>3. CertInnerLen(CertLen) \in 0..ChainCap
    BY <2>2 DEF CertInnerLen, MaxCertLen, ChainCap
  <2>4. /\ DecodedLen(BerLenWrite(CertLen)) = CertLen
        /\ Len(BerLenWrite(CertLen)) = BerLenBytes(CertLen)
        /\ DecodedLen(BerLenWrite(CertInnerLen(CertLen))) = CertInnerLen(CertLen)
        /\ Len(BerLenWrite(CertInnerLen(CertLen))) = BerLenBytes(CertInnerLen(CertLen))
    BY <2>2, <2>3, LengthReadBack
  <2>5. /\ BerLenBytes(CertLen) \in Nat
        /\ BerLenBytes(CertInnerLen(CertLen)) \in Nat
    BY DEF BerLenBytes
  <2>6. /\ CertInnerLen(CertLen) = 1 + BerLenBytes(CertLen) + CertLen + 5
        /\ CertObjLen(CertLen) = 1 + BerLenBytes(CertInnerLen(CertLen)) + CertInnerLen(CertLen)
    BY <2>2, CertLengths
  <2>7. QED
    BY <2>1, <2>2, <2>3, <2>4, <2>5, <2>6 DEF CertObjWellFormed
<1>2. QED
  BY <1>1, AppletInvHolds, PTL

(* A signature that has to wait for the user always asks for the user      *)
(* (piv.c:447-456): no state left behind by an earlier one gets in the way. *)
THEOREM RefusalAsks == AppletSpec => RefusalAsksUser
<1> DEFINE Asks ==
      (answered' = "GENAUTH" /\ selected /\ rapdu'.sw = "SW_CONDITIONS_NOT_SATISFIED")
        => state' = "WAITING_BUTTON"
<1>1. AppletInv /\ [AppletNext]_appletVars => [Asks]_appletVars
  <2> SUFFICES ASSUME AppletInv, AppletNext, answered' = "GENAUTH", selected,
                      rapdu'.sw = "SW_CONDITIONS_NOT_SATISFIED"
               PROVE  state' = "WAITING_BUTTON"
    OBVIOUS
  <2>1. CASE Sign
    <3>1. FinishSigning
      BY <2>1 DEF Sign
    <3>2. CASE rapdu' = Sw("SW_UNKNOWN")
      BY <3>2 DEF Sw
    <3>3. CASE \E n \in SigLengths : rapdu' = Body("SW_OK", "signature", 0, 4 + n)
      BY <3>3 DEF Body
    <3>4. QED
      BY <3>1, <3>2, <3>3 DEF FinishSigning
  <2>2. CASE \E cmd \in Commands : Exchange(cmd)
    <3>1. PICK cmd \in Commands : Exchange(cmd)
      BY <2>2
    <3>2. signing = "no" /\ signing' = "no" /\ cmd.ins = "GENAUTH" /\ HandleGenAuth(cmd.arg)
      BY <3>1 DEF Exchange, Process
    <3>3. ~HandleGenAuthInvalid(cmd.arg)
      BY DEF HandleGenAuthInvalid, Refuse, Sw, AlgKeySW, TemplateSW
    <3>4. ~IsAuthorized /\ RequestAuth
      BY <3>2, <3>3 DEF HandleGenAuth, Digests
    <3>5. state \in {"IDLE", "WAITING_BUTTON"}
      BY <3>2, <3>4 DEF AppletInv, AppletTypeOK, DevTypeOK, DevStates, BetweenOperations,
                        IsAuthorized
    <3>6. QED
      BY <3>4, <3>5 DEF RequestAuth, devVars
  <2>3. QED
    BY <2>1, <2>2 DEF AppletNext, PowerOnCard, Surroundings, Clock
<1>2. QED
  BY <1>1, AppletInvHolds, PTL DEF AppletSpec, RefusalAsksUser

=============================================================================
