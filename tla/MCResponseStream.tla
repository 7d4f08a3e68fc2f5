-------------------------- MODULE MCResponseStream --------------------------
(***************************************************************************)
(* Streams that end well after none, one or two deltas, that end without a *)
(* final event, that fail before and after their first event, that report  *)
(* an error as an event (a middleware's stream: a backend's error events   *)
(* become throws in backend-terminal.mjs).                                 *)
(***************************************************************************)
EXTENDS ResponseStream

MCScripts ==
  {<<"done">>, <<"delta", "done">>, <<"delta", "delta", "done">>,
   <<>>, <<"delta">>, <<"throw">>, <<"delta", "throw">>, <<"delta", "errorEvent">>}
=============================================================================
