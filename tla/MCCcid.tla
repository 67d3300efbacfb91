------------------------------- MODULE MCCcid -------------------------------
(* Every message type, with every length where the dispatcher looks at it. *)
EXTENDS CcidTransport

MCRequests ==
  [type : {"XfrBlock", "SetParameters", "SetDataRate"}, len : Lengths, cmd : {"apdu"}]
    \cup
  [type : {"IccPowerOn", "IccPowerOff", "GetSlotStatus", "Abort", "Unknown", "Runt"},
   len : {"empty"}, cmd : {"apdu"}]

\* A host that sends an Abort while it still waits for a response.
PipelinedRequests ==
  [type : {"XfrBlock", "Abort"}, len : {"empty"}, cmd : {"apdu"}]
=============================================================================
