------------------------------ MODULE MCPanel ------------------------------
(* Panel with small timers that keep the order of those of the code: the   *)
(* debounce time and the periods of the LED from the shortest to the       *)
(* longest, the authorization window, the wait for the button.             *)
EXTENDS Panel
=============================================================================
