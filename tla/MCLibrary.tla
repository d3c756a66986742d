----------------------------- MODULE MCLibrary -----------------------------
(* Small libraries for TLC. *)
EXTENDS Library

\* Without EXIF folders every photo has a path of its own; r2 is called what
\* r1 would be renamed to.  With them both were taken on the same day and have
\* the same name.
MCHome  == [r \in Remotes |-> IF r = "r1" THEN "a" ELSE "a-2"]
MCDated == [r \in Remotes |-> "d"]

\* Enough suffixes that none of them runs out of candidates: the code tries a
\* thousand.
MCPaths      == {"a", "a-2", "a-3", "a-4", "a-2-2", "a-2-3", "d", "d-2", "d-3", "d-4", "d-5"}
MCCandidates == [p \in MCPaths |->
                   CASE p = "a"   -> <<"a", "a-2", "a-3", "a-4">>
                     [] p = "a-2" -> <<"a-2", "a-2-2", "a-2-3">>
                     [] p = "d"   -> <<"d", "d-2", "d-3", "d-4", "d-5">>
                     [] OTHER     -> <<p>>]

\* Two photos that start out as copies of one another and go different ways;
\* the user brings another file, or the same copy.
MCData  == {"copy", "one", "two", "other"}
MCBytes == [r \in Remotes |-> IF r = "r1" THEN <<"copy", "one">> ELSE <<"copy", "two">>]
MCBrought == {"copy", "other"}

File(sync)   == [given |-> Required, sync |-> sync]
Plain        == File([verify |-> "sha256"])
Exif         == File([verify |-> "sha256", folder_structure |-> "year"])
Case(f, u, n, c) == [file |-> f, budget |-> [user |-> u, faults |-> n, crashes |-> c]]

MCCases == {Case(Plain, 0, 1, 1), Case(Exif, 0, 1, 1), Case(Exif, 1, 0, 0), Case(Plain, 1, 0, 0)}

\* Contents compared by hash and nobody but the server at work, for the run
\* on overwritten files.
MCHashCases == {Case(Plain, 0, 0, 0)}
=============================================================================
