------------------------- MODULE MCRuntimeSnapshot -------------------------
(* Cascades over one child and over two. *)
EXTENDS RuntimeSnapshot

MCModels == <<"m1", "m2">>
MCModel  == <<"m1">>
=============================================================================
