--------------------------- MODULE MCSearchAgent ---------------------------
(* One slot for three searches, or three providers, of which the first and the
   second have a URL in common, the second requires a secret and the third may
   do without. *)
EXTENDS SearchAgent

MCSecretOf == <<None, "k", "l">>
MCPages == <<{<<1, 2>>, <<>>}, {<<2, 3, 2>>}, {<<1>>}>>
=============================================================================
