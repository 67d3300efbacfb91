--------------------------- MODULE SigningPolicy ---------------------------
(***************************************************************************)
(* What the whole token promises about the private key (README.md:117-121):*)
(* an operation needs a card session in which the PIN was verified, and a  *)
(* press of the button that was asked for in such a session.               *)
(*                                                                         *)
(* session   closed (card not powered), locked, unlocked (PIN verified)    *)
(* grant     the user's permission, see UserPresence                       *)
(***************************************************************************)
EXTENDS UserPresence

VARIABLE session

Sessions == {"closed", "locked", "unlocked"}

\* The user is asked, and the key used, in an unlocked session only.
PolicyAsk   == session = "unlocked" /\ Ask /\ UNCHANGED session
PolicySpend == session = "unlocked" /\ Spend /\ UNCHANGED session

PolicyPress == (Press \/ Finish \/ Lapse) /\ UNCHANGED session

\* No session begins or ends during an operation, and none begins unlocked.
PolicySession == /\ grant # "spent"
                 /\ \/ session' \in {"closed", "locked"}
                    \/ session = "locked" /\ session' = "unlocked"
                 /\ UNCHANGED grant

\* The host goes away: everything is withdrawn.
PolicyDetach == grant # "spent" /\ session' = "closed" /\ grant' = "none"

PolicyInit == PresenceInit /\ session = "closed"

PolicyNext == PolicyAsk \/ PolicySpend \/ PolicyPress \/ PolicySession \/ PolicyDetach

PolicySpec == PolicyInit /\ [][PolicyNext]_<<grant, session>>
=============================================================================
