------------------------------ MODULE MCBatch ------------------------------
(* Small batches for TLC: sizes in blocks by file, and config files. *)
EXTENDS Batch

\* File 1 grew between the walk and its transfer.
MCListed == [f \in Files |-> 1]
MCActual == [f \in Files |-> IF f = 1 THEN 2 ELSE 1]

\* Files that differ in the options the batch looks at.
File(sync) == [given |-> Required, sync |-> sync]
Early   == File([workers |-> 2, max_attempts |-> 2, collision_policy |-> "skip"])
Late    == File([workers |-> 2, max_attempts |-> 2, collision_policy |-> "error",
                 folder_structure |-> "year"])
Few     == File([workers |-> 0, max_attempts |-> 1])
Refused == {File([max_attempts |-> 11]), File([interval |-> 0]),
            [File([workers |-> 2]) EXCEPT !.given = {"host"}]}

MCConfigs == {Early, Late, Few} \cup Refused

\* Destinations settled after the transfer only, for the run on failed bytes.
MCLate == {Late}
=============================================================================
