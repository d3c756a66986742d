------------------------------- MODULE MCMenu -------------------------------
(* A menu of one slot over a daemon with two jobs, or with none. *)
EXTENDS Menu

JobsUpTo(n) == [k \in 1 .. n |-> [id |-> <<"j1", "j2">>[k], paused |-> FALSE, st |-> "idle"]]
MCLists == {JobsUpTo(n) : n \in {0, 2}}

\* Either somebody else acts on the daemon, or a request fails.
MCBudgets == {[changes |-> 1, faults |-> 0], [changes |-> 0, faults |-> 1]}
=============================================================================
