----------------------------- MODULE MCDaemons -----------------------------
(* Three daemons, two of which the menu bar program may start. *)
EXTENDS Daemons

MCBudgets == {[starts |-> 1, ends |-> 1], [starts |-> 0, ends |-> 2]}
=============================================================================
