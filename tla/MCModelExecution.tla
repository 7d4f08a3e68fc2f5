-------------------------- MODULE MCModelExecution --------------------------
(***************************************************************************)
(* A tier of two children.  The snapshots disagree about the first child's *)
(* limit and about whether the second one is usable; the first child never *)
(* embeds in one of them.                                                  *)
(***************************************************************************)
EXTENDS ModelExecution

MCChildren  == <<"m1", "m2">>
MCSnapshots ==
  {[limit |-> [m \in Models |-> 1], usable |-> Models, embedding |-> Models],
   [limit |-> [m \in Models |-> IF m = "m1" THEN 2 ELSE 1], usable |-> {"m1"},
    embedding |-> {"m2"}]}
=============================================================================
