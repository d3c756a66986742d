---------------------------- MODULE ConfigProofs ----------------------------
(***************************************************************************)
(* What validate guarantees of every config file, whatever it contains.    *)
(***************************************************************************)
EXTENDS Config, TLAPS

\* The fields that only have to be numbers to be made sense of.
LEMMA NumbersParsed ==
  ASSUME NEW file, WellFormed(file)
  PROVE  /\ Parsed(file.sync).interval \in Int
         /\ Parsed(file.sync).workers \in Int
         /\ Parsed(file.sync).max_attempts \in Int
<1> DEFINE Numbers == {"interval", "workers", "max_attempts"}
<1>1. Numbers \subseteq Options /\ \A k \in Numbers : Initial[k] \in Int
  BY DEF Options, Initial
<1>2. \A k \in Numbers : k \in DOMAIN file.sync => file.sync[k] \in Int
  BY DEF WellFormed
<1>3. \A k \in Options :
        Parsed(file.sync)[k] = IF k \in DOMAIN file.sync THEN file.sync[k] ELSE Initial[k]
  BY DEF Parsed
<1>4. \A k \in Numbers : Parsed(file.sync)[k] \in Int
  BY <1>1, <1>2, <1>3
<1> QED
  BY <1>4

\* A config file that Load accepts gives every job a positive interval, at
\* least one worker, between one and ten attempts, and a layout, a collision
\* policy and a verify mode that the code knows (config.go:100-158).
THEOREM AcceptedIsSound ==
  ASSUME NEW file, WellFormed(file), Accepted(file)
  PROVE  Loaded(file) \in Settings
<1> DEFINE c == Parsed(file.sync)
<1>1. c.interval \in Int /\ c.workers \in Int /\ c.max_attempts \in Int
  BY NumbersParsed
<1>2. DefaultWorkers(c.workers) \in Nat \ {0}
  BY <1>1 DEF DefaultWorkers
<1>3. Loaded(file) = Filled(c) /\ Valid(Filled(c))
  BY DEF Loaded, Accepted
<1>4. c.interval \in Nat \ {0}
  BY <1>1, <1>3 DEF Filled, Valid
<1> HIDE DEF c
<1> QED
  BY <1>2, <1>3, <1>4 DEF Filled, Valid, Settings
=============================================================================
