---------------------------- MODULE MCDashboard ----------------------------
(* The log page with three rows, one of a key, one without and one of another
   key, of which the last is recent; tables of three rows in a small tree; two
   providers with up to two bindings to compose. *)
EXTENDS Dashboard

MCKeyOf == <<"k1", "Unknown", "k2">>
MCBefore == {{1, 2}}
MCPathOf == <<<<"a", "b">>, <<"a", "b", "c">>, <<"d">>>>
MCGroups == {<<"a">>, <<"a", "b">>}
MCMaxClicks == [p \in ListPages |-> 3] @@ [composer |-> 4]
MCBinding(id, p, m, n) == [id |-> id, provider |-> p, middleware |-> m, order |-> n]
MCInitialTable == <<TRUE, FALSE>>
MCInitialBindings ==
  {MCBinding(1, "p", "m", 1), MCBinding(2, "p", "n", 2), MCBinding(3, "q", "m", 1)}
=============================================================================
