----------------------------- MODULE PivHistory -----------------------------
(***************************************************************************)
(* The applet with everything around it that it can observe: a host that   *)
(* sends any command, powers the card on again or goes away, a user who    *)
(* presses, the timeouts, and time that passes even during a signature.    *)
(* And what the two ends know of the past:                                 *)
(*                                                                         *)
(* received  the object the host is reading in parts, and how far it got,  *)
(*           from the responses alone                                      *)
(* answered  the instruction that this step answered, "none" if it did not *)
(* lastPin   how the last comparison of a PIN came out since power-on      *)
(***************************************************************************)
EXTENDS Piv, Sequences

VARIABLES received, lastPin, answered

hostVars   == <<received, lastPin>>
appletVars == <<devVars, pivVars, hostVars, answered>>

Nothing == [obj |-> "none", upto |-> 0]

HostInit == received = Nothing /\ lastPin = "none" /\ answered = "none"

NotesChunk(cmd) ==
  received' = CASE cmd.ins = "GETDATA" /\ rapdu'.sw = "SW_MORE_DATA"
                     -> [obj |-> rapdu'.obj, upto |-> rapdu'.to]
                [] cmd.ins = "GETRESPONSE" /\ rapdu'.obj # "none"
                     -> [received EXCEPT !.upto = @ + (rapdu'.to - rapdu'.from)]
                [] OTHER -> received

NotesPin(cmd) ==
  lastPin' = IF cmd.ins = "VERIFY" /\ selected /\ cmd.arg \in {"wrongPin", "rightPin"}
             THEN cmd.arg ELSE lastPin

Exchange(cmd) == /\ Process(cmd)
                 /\ NotesChunk(cmd)
                 /\ NotesPin(cmd)
                 /\ answered' = IF signing' = "no" THEN cmd.ins ELSE "none"

Sign == /\ \/ BeginSigning /\ answered' = "none"
           \/ FinishSigning /\ answered' = "GENAUTH"
        /\ UNCHANGED hostVars

PowerOnCard == /\ signing = "no"
               /\ ResetCard
               /\ received' = Nothing
               /\ lastPin' = "none"
               /\ answered' = "none"
               /\ UNCHANGED <<rapdu, signing, devVars>>

\* The rest of the main loop, while no command is being processed.
Surroundings == /\ signing = "no"
                /\ ButtonPressed \/ DevStateTick \/ DevStateInit
                /\ answered' = "none"
                /\ UNCHANGED <<pivVars, hostVars>>

Clock == DevElapse /\ answered' = "none" /\ UNCHANGED <<pivVars, hostVars>>

AppletInit == DevInit /\ PivInit /\ HostInit

AppletNext == \/ \E cmd \in Commands : Exchange(cmd)
              \/ Sign
              \/ PowerOnCard
              \/ Surroundings
              \/ Clock

AppletSpec == AppletInit /\ [][AppletNext]_appletVars

-----------------------------------------------------------------------------
StatusWords == {"none", "SW_OK", "SW_MORE_DATA", "SW_63C3", "SW_WRONG_LENGTH",
                "SW_SECURITY_NOT_SATISFIED", "SW_CONDITIONS_NOT_SATISFIED",
                "SW_INCORRECT_P1P2", "SW_REFERENCED_DATA_NOT_FOUND",
                "SW_INS_NOT_SUPPORTED", "SW_CLA_NOT_SUPPORTED", "SW_UNKNOWN",
                "SW_FILE_NOT_FOUND", "SW_WRONG_DATA"}

Bodies == Objects \cup {"none", "FCI", "signature"}

PivTypeOK == /\ selected \in BOOLEAN
             /\ pinVerified \in BOOLEAN
             /\ chain \in [obj : Objects \cup {"none"}, len : 0..ChainCap,
                           offset : 0..ChainCap]
             /\ chain.offset <= chain.len
             /\ rapdu \in [sw : StatusWords, obj : Bodies, from : Nat, to : Nat]
             /\ signing \in Digests \cup {"no"}

AppletTypeOK == /\ DevTypeOK
                /\ PivTypeOK
                /\ received \in [obj : Objects \cup {"none"}, upto : Nat]
                /\ lastPin \in {"none", "wrongPin", "rightPin"}
                /\ answered \in DOMAIN Args \cup {"none"}

(* A private-key operation runs only when the last PIN that was compared   *)
(* since the card was powered on was the right one and the applet is       *)
(* selected, whatever came in between (README.md:121).                     *)
SigningNeedsPin == signing # "no" => lastPin = "rightPin" /\ selected

(* No response that announces data is empty: neither does an Le of zero    *)
(* stall GET RESPONSE for ever, nor is a body dropped because it does not  *)
(* fit in apdu_out (the handlers ignore what apdu_resp_append returns).    *)
BodiesNotLost == rapdu.obj # "none" => rapdu.to > rapdu.from

CcidHeaderLen        == 10
MaxCCIDMessageLength == 271  \* dwMaxCCIDMessageLength

(* No response of the applet is longer than the device told the host that  *)
(* its messages may get (usb_descriptors.c:105): the host reads no more    *)
(* than that, although _tx_buf could hold almost twice as much.            *)
AnnouncedLengthKept ==
  CcidHeaderLen + (rapdu.to - rapdu.from) + 2 <= MaxCCIDMessageLength

(* Every GET RESPONSE continues the object of the last chained GET DATA    *)
(* exactly where the bytes the host has so far end, and answers 9000 when  *)
(* and only when the object is complete, whatever Le and whatever other    *)
(* commands were sent in between.                                          *)
ChunksAssemble ==
  [][(answered' = "GETRESPONSE" /\ rapdu'.obj # "none")
        => /\ rapdu'.obj = received.obj
           /\ rapdu'.from = received.upto
           /\ (rapdu'.sw = "SW_OK") <=> (received'.upto = ObjLen(received.obj))]_appletVars

(* A GENERAL AUTHENTICATE that is turned away with 6985 although the PIN   *)
(* is verified leaves the device waiting for the button, so that the retry *)
(* the host is told to make can succeed (README.md:120).  It cannot be     *)
(* turned away by a state that an earlier operation left behind.           *)
RefusalAsksUser ==
  [][(answered' = "GENAUTH" /\ selected /\ rapdu'.sw = "SW_CONDITIONS_NOT_SATISFIED")
        => state' = "WAITING_BUTTON"]_appletVars

(* Tags 53 and 70 of a certificate object that was copied to chain_buf     *)
(* announce the lengths that follow them, also where the length field      *)
(* grows: the length of tag 53 is computed apart from the code that writes *)
(* the lengths, and a host that trusts it would wait for a byte too many.  *)
DecodedLen(bytes) == CASE bytes[1] < 128 -> bytes[1]
                       [] bytes[1] = 129 -> bytes[2]
                       [] bytes[1] = 130 -> 256 * bytes[2] + bytes[3]

CertObjWellFormed ==
  chain.obj = "CERT" =>
    LET tag53 == BerLenWrite(CertInnerLen(CertLen))
        tag70 == BerLenWrite(CertLen)
    IN  /\ chain.len = 1 + Len(tag53) + DecodedLen(tag53)
        /\ DecodedLen(tag53) = 1 + Len(tag70) + DecodedLen(tag70) + 3 + 2
        /\ DecodedLen(tag70) = CertLen
=============================================================================
