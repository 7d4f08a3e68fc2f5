---------------------------- MODULE SlotLimiter ----------------------------
(***************************************************************************)
(* What a per-model concurrency limit promises, without counter or queue:  *)
(* a set of holders under a limit that may be changed at any moment.       *)
(* Lowering the limit evicts nobody, but while the limit is exceeded       *)
(* nobody is let in.                                                       *)
(***************************************************************************)
EXTENDS Naturals, FiniteSets

CONSTANTS Callers,   \* the requests that compete for one model's slots
          Limits     \* the limits that snapshots of the model may carry

VARIABLES limit, holders

vars == <<limit, holders>>

Init == limit = 0 /\ holders = {}

\* One step may change the limit, let holders go and let new ones in.
Step(newLimit, leaving, entering) ==
  /\ limit'   = newLimit
  /\ holders' = (holders \ leaving) \cup entering
  /\ entering = {} \/ Cardinality(holders') <= newLimit

Next ==
  \E newLimit \in Limits \cup {limit}, leaving \in SUBSET holders,
     entering \in SUBSET (Callers \ holders) :
       Step(newLimit, leaving, entering)

Spec == Init /\ [][Next]_vars
=============================================================================
