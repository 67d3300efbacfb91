---------------------------- MODULE UserPresence ----------------------------
(***************************************************************************)
(* What the user-presence gate of ward3n promises, without timers, flags   *)
(* or calls: a press of the button is good for one privileged operation,   *)
(* and only a press that was asked for counts.                             *)
(*                                                                         *)
(*   none    nothing is asked of the user                                  *)
(*   asked   an operation is waiting for the button                        *)
(*   given   the user pressed; one operation may run                       *)
(*   spent   that operation is running, or the press is used up            *)
(***************************************************************************)
VARIABLE grant

Grants == {"none", "asked", "given", "spent"}

Ask    == grant = "none"  /\ grant' = "asked"
Press  == grant = "asked" /\ grant' = "given"
Spend  == grant = "given" /\ grant' = "spent"
Finish == grant = "spent" /\ grant' = "none"

\* A request or a permission that nobody used goes away.
Lapse  == grant \in {"asked", "given"} /\ grant' = "none"

PresenceInit == grant = "none"
PresenceNext == Ask \/ Press \/ Spend \/ Finish \/ Lapse
PresenceSpec == PresenceInit /\ [][PresenceNext]_grant
=============================================================================
