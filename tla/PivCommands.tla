---------------------------- MODULE PivCommands ----------------------------
(***************************************************************************)
(* What the handlers of src/piv.c tell apart in a command, and the status  *)
(* word of every check that a command may fail.  Apdu reads these commands *)
(* off the bytes of a message, Piv says what they do.                      *)
(*                                                                         *)
(* A command is a record: ins names its handler, arg the first check of    *)
(* the handler that it fails, or what it asks for if it passes all, le is  *)
(* its Le byte.                                                            *)
(***************************************************************************)
EXTENDS Integers

SelectSW == [badP1    |-> "SW_INCORRECT_P1P2",
             shortAid |-> "SW_WRONG_DATA",
             otherAid |-> "SW_FILE_NOT_FOUND"]

VerifySW == [badP1     |-> "SW_INCORRECT_P1P2",
             otherPin  |-> "SW_REFERENCED_DATA_NOT_FOUND",
             noData    |-> "SW_63C3",
             badLength |-> "SW_WRONG_LENGTH"]

GetDataSW == [badP1P2   |-> "SW_INCORRECT_P1P2",
              malformed |-> "SW_WRONG_DATA",
              otherTag  |-> "SW_REFERENCED_DATA_NOT_FOUND"]

\* GENERAL AUTHENTICATE looks at the PIN after these ...
AlgKeySW == [badAlg   |-> "SW_INCORRECT_P1P2",
             otherKey |-> "SW_REFERENCED_DATA_NOT_FOUND"]

\* ... and before these.
TemplateSW == [tooShort    |-> "SW_WRONG_LENGTH",
               badTemplate |-> "SW_WRONG_DATA"]

\* A challenge of 32 bytes, or of another length from 1 to 64.
Digests == {"sha256", "otherDigest"}

Objects == {"CCC", "CHUID", "DISC", "CERT"}

Args == [malformed   |-> {"none"},
         otherCla    |-> {"none"},
         otherIns    |-> {"none"},
         SELECT      |-> DOMAIN SelectSW \cup {"pivAid"},
         VERIFY      |-> DOMAIN VerifySW \cup {"wrongPin", "rightPin"},
         GETDATA     |-> DOMAIN GetDataSW \cup Objects,
         GETRESPONSE |-> {"none"},
         GENAUTH     |-> DOMAIN AlgKeySW \cup DOMAIN TemplateSW \cup Digests]

NoLe == -1  \* the command carries no Le byte

AllCommands == UNION {[ins : {i}, arg : Args[i], le : NoLe..255] : i \in DOMAIN Args}

(* Mutant: an Le byte of zero is taken at its word. *)
Le_Raw(byte) == IF byte = NoLe THEN 256 ELSE byte

(* Mutant: no Le is taken for as much as the response buffer holds. *)
Le_Capacity(byte) == IF byte = NoLe THEN 500 ELSE IF byte = 0 THEN 256 ELSE byte

\* apdu_parse() reads 00 as 256, and the handlers take no Le as 256 too.
Le(byte) == IF byte \in {NoLe, 0} THEN 256 ELSE byte
=============================================================================
