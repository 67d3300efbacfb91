-------------------------------- MODULE Piv --------------------------------
(***************************************************************************)
(* src/piv.c with src/apdu.c: the PIV applet behind piv_process_apdu().    *)
(*                                                                         *)
(* selected, pinVerified   _piv.selected, _piv.pin_verified                *)
(* chain      _piv.chain_buf, chain_len, chain_offset: the object that was *)
(*            copied there, its length, how much of it was sent            *)
(* rapdu      the response APDU in apdu_out                                *)
(* signing    the digest of the GENERAL AUTHENTICATE that is between       *)
(*            dev_state_consume_auth() and its return, "no" if none is     *)
(*                                                                         *)
(* Commands are those of PivCommands; Apdu shows how they are read off the *)
(* bytes.  Bodies are reduced to the object they are cut from and the      *)
(* range.                                                                  *)
(***************************************************************************)
EXTENDS DeviceState, PivCommands

CONSTANTS Commands,    \* the commands the host may send
          CertLen,     \* length of the certificate, 0 if there is none
          OutCap,      \* CCID_BUF_SIZE - CCID_HEADER_LEN
          SigLengths   \* lengths of DER signatures mbedtls may produce

VARIABLES selected, pinVerified, chain, rapdu, signing

cardVars == <<selected, pinVerified, chain>>
pivVars  == <<selected, pinVerified, chain, rapdu, signing>>

-----------------------------------------------------------------------------
(* Lengths *)

\* _ber_len_write(): the bytes it writes.
BerLenWrite(len) == CASE len < 128 -> <<len>>
                      [] len \in 128..255 -> <<129, len>>
                      [] OTHER -> <<130, (len \div 256) % 256, len % 256>>

BerLenBytes(len) == IF len < 128 THEN 1 ELSE IF len <= 255 THEN 2 ELSE 3

(* Mutant: the second length byte of a long certificate is forgotten. *)
CertInnerLen_Short(n) == 2 + n + 3 + 2 + (IF n >= 128 THEN 1 ELSE 0)

\* inner_len: what the length field of tag 53 says for n certificate bytes.
CertInnerLen(n) == 2 + n + 3 + 2 + (IF n >= 128 THEN 1 ELSE 0)
                                 + (IF n > 255 THEN 1 ELSE 0)

\* pos after tags 53, 70, 71 and FE have been written.
CertObjLen(n) == 1 + BerLenBytes(CertInnerLen(n)) + 1 + BerLenBytes(n) + n + 3 + 2

MaxCertLen == 3994  \* sizeof(cert_der)
ChainCap   == 4096  \* sizeof(_piv.chain_buf)

ObjLen(obj) == CASE obj = "CCC" -> 53
                 [] obj = "CHUID" -> 61
                 [] obj = "DISC" -> 20
                 [] obj = "CERT" -> CertObjLen(CertLen)

ASSUME PivAssumption == /\ Commands \subseteq AllCommands
                        /\ CertLen \in 0..MaxCertLen
                        /\ OutCap \in Nat /\ OutCap >= 258
                        /\ SigLengths \subseteq 1..72

-----------------------------------------------------------------------------
(* Responses *)

Sw(sw) == [sw |-> sw, obj |-> "none", from |-> 0, to |-> 0]

\* A body of n bytes and a status word: apdu_resp_append() keeps two bytes
\* for the status word, and drops a body that does not fit.
Body(sw, obj, from, n) ==
  [sw |-> sw, obj |-> obj, from |-> from,
   to |-> IF n + 2 <= OutCap THEN from + n ELSE from]

\* n bytes of an object, and whether more of them are left.
Chunk(obj, from, n, len) ==
  Body(IF from + n >= len THEN "SW_OK" ELSE "SW_MORE_DATA", obj, from, n)

Refuse(sw) == rapdu' = Sw(sw) /\ UNCHANGED <<cardVars, signing, devVars>>

-----------------------------------------------------------------------------
NoChain == [obj |-> "none", len |-> 0, offset |-> 0]

PivInit == /\ selected = FALSE
           /\ pinVerified = FALSE
           /\ chain = NoChain
           /\ rapdu = Sw("none")
           /\ signing = "no"

(* Mutant: only the chain and the selection are reset. *)
ResetCard_KeepsPin == /\ selected' = FALSE
                      /\ chain' = NoChain
                      /\ UNCHANGED pinVerified

\* piv_init(), called when the card is powered on.
ResetCard == /\ selected' = FALSE
             /\ pinVerified' = FALSE
             /\ chain' = NoChain

HandleSelect(arg) ==
  \/ /\ arg \in DOMAIN SelectSW
     /\ Refuse(SelectSW[arg])
  \/ /\ arg = "pivAid"
     /\ selected' = TRUE
     /\ rapdu' = Body("SW_OK", "FCI", 0, 19)
     /\ UNCHANGED <<pinVerified, chain, signing, devVars>>

(* Mutant: a wrong PIN leaves the card verified. *)
HandleVerify_Keeps(arg) ==
  \/ /\ arg \in DOMAIN VerifySW
     /\ Refuse(VerifySW[arg])
  \/ /\ arg \in {"wrongPin", "rightPin"}
     /\ pinVerified' = (pinVerified \/ arg = "rightPin")
     /\ rapdu' = Sw(IF arg = "rightPin" THEN "SW_OK" ELSE "SW_SECURITY_NOT_SATISFIED")
     /\ UNCHANGED <<selected, chain, signing, devVars>>

HandleVerify(arg) ==
  \/ /\ arg \in DOMAIN VerifySW
     /\ Refuse(VerifySW[arg])
  \/ /\ arg \in {"wrongPin", "rightPin"}
     /\ pinVerified' = (arg = "rightPin")
     /\ rapdu' = Sw(IF arg = "rightPin" THEN "SW_OK" ELSE "SW_SECURITY_NOT_SATISFIED")
     /\ UNCHANGED <<selected, chain, signing, devVars>>

NoCert(obj) == obj = "CERT" /\ CertLen = 0

(* Mutant: the chain starts again at the first byte. *)
HandleGetData_FromStart(obj, le) ==
  \/ /\ obj \in DOMAIN GetDataSW
     /\ Refuse(GetDataSW[obj])
  \/ /\ NoCert(obj)
     /\ Refuse("SW_REFERENCED_DATA_NOT_FOUND")
  \/ /\ obj \in Objects /\ ~NoCert(obj)
     /\ ObjLen(obj) <= le
     /\ rapdu' = Chunk(obj, 0, ObjLen(obj), ObjLen(obj))
     /\ UNCHANGED <<cardVars, signing, devVars>>
  \/ /\ obj \in Objects /\ ~NoCert(obj)
     /\ ObjLen(obj) > le
     /\ chain' = [obj |-> obj, len |-> ObjLen(obj), offset |-> 0]
     /\ rapdu' = Chunk(obj, 0, le, ObjLen(obj))
     /\ UNCHANGED <<selected, pinVerified, signing, devVars>>

\* An object that fits goes out whole and leaves an older chain as it is.
HandleGetData(obj, le) ==
  \/ /\ obj \in DOMAIN GetDataSW
     /\ Refuse(GetDataSW[obj])
  \/ /\ NoCert(obj)
     /\ Refuse("SW_REFERENCED_DATA_NOT_FOUND")
  \/ /\ obj \in Objects /\ ~NoCert(obj)
     /\ ObjLen(obj) <= le
     /\ rapdu' = Chunk(obj, 0, ObjLen(obj), ObjLen(obj))
     /\ UNCHANGED <<cardVars, signing, devVars>>
  \/ /\ obj \in Objects /\ ~NoCert(obj)
     /\ ObjLen(obj) > le
     /\ chain' = [obj |-> obj, len |-> ObjLen(obj), offset |-> le]
     /\ rapdu' = Chunk(obj, 0, le, ObjLen(obj))
     /\ UNCHANGED <<selected, pinVerified, signing, devVars>>

(* Mutant: the last part is as long as the others. *)
SendNow_Unclamped(available, le) == le

SendNow(available, le) == IF available <= le THEN available ELSE le

HandleGetResponse(le) ==
  \/ /\ chain.offset >= chain.len
     /\ Refuse("SW_CONDITIONS_NOT_SATISFIED")
  \/ /\ chain.offset < chain.len
     /\ LET n == SendNow(chain.len - chain.offset, le)
        IN  /\ rapdu' = Chunk(chain.obj, chain.offset, n, chain.len)
            /\ chain' = [chain EXCEPT !.offset = @ + n]
     /\ UNCHANGED <<selected, pinVerified, signing, devVars>>

\* Refused before the device is asked for the user.
HandleGenAuthInvalid(arg) ==
  \/ /\ arg \in DOMAIN AlgKeySW
     /\ Refuse(AlgKeySW[arg])
  \/ /\ arg \notin DOMAIN AlgKeySW
     /\ ~pinVerified
     /\ Refuse("SW_SECURITY_NOT_SATISFIED")
  \/ /\ arg \in DOMAIN TemplateSW
     /\ pinVerified
     /\ Refuse(TemplateSW[arg])

HandleGenAuth(arg) ==
  \/ HandleGenAuthInvalid(arg)
  \/ /\ arg \in Digests /\ pinVerified
     /\ ~IsAuthorized
     /\ RequestAuth
     /\ rapdu' = Sw("SW_CONDITIONS_NOT_SATISFIED")
     /\ UNCHANGED <<cardVars, signing>>
  \/ /\ arg \in Digests /\ pinVerified
     /\ ConsumeAuth
     /\ signing' = arg
     /\ UNCHANGED <<cardVars, rapdu>>

BeginSigning == /\ signing # "no"
                /\ BeginProcessing
                /\ UNCHANGED pivVars

(* Mutant: the error path returns without dev_state_op_complete(). *)
FinishSigning_Forgets ==
  /\ signing # "no" /\ state = "PROCESSING"
  /\ \/ /\ rapdu' = Sw("SW_UNKNOWN")
        /\ UNCHANGED devVars
     \/ /\ signing = "sha256"
        /\ OpComplete
        /\ \E n \in SigLengths : rapdu' = Body("SW_OK", "signature", 0, 4 + n)
  /\ signing' = "no"
  /\ UNCHANGED cardVars

\* crypto_sign() refuses any digest but 32 bytes, and mbedtls may fail.
FinishSigning ==
  /\ signing # "no" /\ state = "PROCESSING"
  /\ OpComplete
  /\ \/ rapdu' = Sw("SW_UNKNOWN")
     \/ /\ signing = "sha256"
        /\ \E n \in SigLengths : rapdu' = Body("SW_OK", "signature", 0, 4 + n)
  /\ signing' = "no"
  /\ UNCHANGED cardVars

\* piv_process_apdu() up to its return, or to the start of a signature.
Process(cmd) ==
  /\ signing = "no"
  /\ \/ cmd.ins = "malformed" /\ Refuse("SW_UNKNOWN")
     \/ cmd.ins = "otherCla" /\ Refuse("SW_CLA_NOT_SUPPORTED")
     \/ cmd.ins = "SELECT" /\ HandleSelect(cmd.arg)
     \/ /\ cmd.ins \notin {"malformed", "otherCla", "SELECT"} /\ ~selected
        /\ Refuse("SW_CONDITIONS_NOT_SATISFIED")
     \/ cmd.ins = "otherIns" /\ selected /\ Refuse("SW_INS_NOT_SUPPORTED")
     \/ cmd.ins = "VERIFY" /\ selected /\ HandleVerify(cmd.arg)
     \/ cmd.ins = "GETDATA" /\ selected /\ HandleGetData(cmd.arg, Le(cmd.le))
     \/ cmd.ins = "GETRESPONSE" /\ selected /\ HandleGetResponse(Le(cmd.le))
     \/ cmd.ins = "GENAUTH" /\ selected /\ HandleGenAuth(cmd.arg)

-----------------------------------------------------------------------------
(* Outside of a signature the device is in a state from which the next     *)
(* operation can be asked for: no consumed authorization, no PROCESSING.   *)
BetweenOperations ==
  /\ signing = "no" => /\ state # "PROCESSING"
                       /\ state = "AUTHORIZED" => ~authConsumed
  /\ signing # "no" => /\ state \in {"AUTHORIZED", "PROCESSING"}
                       /\ authConsumed
=============================================================================
