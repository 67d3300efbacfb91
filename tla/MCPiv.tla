------------------------------- MODULE MCPiv -------------------------------
(* Every instruction with every outcome of its checks; Le absent, 00, one  *)
(* below CHUID and CCC, and 255, where objects are cut.                    *)
EXTENDS PivHistory

MCCommands == {c \in AllCommands :
                 /\ c.le \in {NoLe, 0, 52, 255}
                 /\ \/ c.le = NoLe
                    \/ c.ins = "GETRESPONSE"
                    \/ c.ins = "GETDATA" /\ c.arg \in Objects}
=============================================================================
