------------------------------ MODULE MCWard3n ------------------------------
(* A host that powers the card on and off, selects, verifies and signs.    *)
EXTENDS Ward3n

Cmd(ins, arg) == [ins |-> ins, arg |-> arg, le |-> NoLe]

MCCommands == {Cmd("SELECT", "pivAid"), Cmd("VERIFY", "rightPin"),
               Cmd("GENAUTH", "sha256")}

Slot == [type : {"IccPowerOn", "IccPowerOff"}, len : {"empty"},
         cmd : {Cmd("malformed", "none")}]

\* With a certificate that is not there, CertLen = 0.
PolicyCommands == MCCommands \cup {Cmd("GETDATA", "CERT"), Cmd("VERIFY", "wrongPin")}

PolicyRequests == Slot \cup [type : {"XfrBlock"}, len : {"exact"}, cmd : PolicyCommands]

MCRequests == Slot \cup [type : {"XfrBlock"}, len : {"exact"}, cmd : MCCommands]
=============================================================================
