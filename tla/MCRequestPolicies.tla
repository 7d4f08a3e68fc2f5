--------------------------- MODULE MCRequestPolicies ---------------------------
(* Three requests: a buffered one and a streamed one name a session, another   *)
(* streamed one does not; the streamed ones ask the same.                      *)
EXTENDS RequestPolicies

CONSTANTS a, b, c

Token(d, k, s, w, v) == [delimiters |-> d, canonical |-> k, subject |-> s, wrapped |-> w, signed |-> v]
MCTokens == {Token(1, TRUE, "user", TRUE, TRUE), Token(1, TRUE, "user", FALSE, TRUE),
             Token(1, TRUE, "agent", TRUE, TRUE), Token(2, TRUE, "user", TRUE, TRUE),
             Token(1, TRUE, "user", TRUE, FALSE)}
MCPrompt == [r \in Requests |-> "p"]
MCStreaming == {b, c}
MCExplicit == {a, b}
MCLimits == {[rpm |-> 1, budget |-> 1, expires |-> None],
             [rpm |-> 3, budget |-> 1, expires |-> 1]}
================================================================================
