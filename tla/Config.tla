------------------------------- MODULE Config -------------------------------
(***************************************************************************)
(* What a job's config file comes to: Load and validate                    *)
(* (internal/config/config.go).  A config file names some options and not  *)
(* others; of the required options only their presence matters.            *)
(*                                                                         *)
(* A definition marked "mutant" is a broken variant of the definition after *)
(* it, kept to confirm that a property notices the bug.                    *)
(***************************************************************************)
EXTENDS Integers

Required          == {"host", "user", "remote_path", "local_path"}
FolderStructures  == {"none", "year", "year_month", "year_month_day"}
CollisionPolicies == {"error", "skip", "rename"}
VerifyModes       == {"size", "sha256"}

\* What Load starts from, which the file's options replace: seconds for the
\* interval, and Go's zero values where Load sets nothing.
Initial == [interval |-> 60, workers |-> 4, folder_structure |-> "",
            collision_policy |-> "", max_attempts |-> 0, verify |-> ""]
Options == {"interval", "workers", "folder_structure", "collision_policy", "max_attempts",
            "verify"}

\* A file that yaml can decode into the fields' types.
WellFormed(file) ==
  /\ file.given \in SUBSET Required
  /\ LET written == file.sync
     IN /\ DOMAIN written \subseteq Options
        /\ \A k \in DOMAIN written :
             IF k \in {"interval", "workers", "max_attempts"} THEN written[k] \in Int
             ELSE written[k] \in STRING

Parsed(written) ==
  [k \in Options |-> IF k \in DOMAIN written THEN written[k] ELSE Initial[k]]

WorkersAsWritten(n) == n               \* mutant
DefaultWorkers(n)   == IF n <= 0 THEN 4 ELSE n
DefaultAttempts(n) == IF n = 0 THEN 3 ELSE n
Default(text, other) == IF text = "" THEN other ELSE text

\* validate fills in what is missing ...
Filled(c) == [interval         |-> c.interval,
              workers          |-> DefaultWorkers(c.workers),
              folder_structure |-> Default(c.folder_structure, "none"),
              collision_policy |-> Default(c.collision_policy, "rename"),
              max_attempts     |-> DefaultAttempts(c.max_attempts),
              verify           |-> Default(c.verify, "size")]

\* ... and refuses what makes no sense.
Valid(c) == /\ c.interval > 0
            /\ c.folder_structure \in FolderStructures
            /\ c.collision_policy \in CollisionPolicies
            /\ c.max_attempts \in 1 .. 10
            /\ c.verify \in VerifyModes

Loaded(file)   == Filled(Parsed(file.sync))
Accepted(file) == Required \subseteq file.given /\ Valid(Loaded(file))

\* What a job may rely on.
Settings == [interval         : Nat \ {0},
             workers          : Nat \ {0},
             folder_structure : FolderStructures,
             collision_policy : CollisionPolicies,
             max_attempts     : 1 .. 10,
             verify           : VerifyModes]
=============================================================================
