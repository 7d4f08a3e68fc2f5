---------------------------- MODULE RequestPath ----------------------------
(***************************************************************************)
(* A request's way through the kernel in three views: the queue for one    *)
(* model's slots, which stands for every caller of the controller; the     *)
(* execution of whole requests, cascades and retries over several models;  *)
(* and the writing of the stream an execution answers with.  Each view     *)
(* takes what the one before leaves as its input, any queue of callers and *)
(* any stream, and they have no state in common, so a behaviour is seen    *)
(* through one of them, chosen in the initial state.                       *)
(***************************************************************************)
EXTENDS ConcurrencyController, ModelExecution, ResponseStream

VARIABLE view     \* "queue", "execution" or "stream"

pathVars == <<view, controllerVars, vars, streamVars>>

PathInit ==
  /\ view \in {"queue", "execution", "stream"}
  /\ ControllerInit /\ Init /\ StreamInit
  \* the snapshot of an idle request matters to its execution only
  /\ view # "execution" =>
       \A r \in Requests : request[r].snap = CHOOSE s \in Snapshots : TRUE

PathNext ==
  /\ \/ view = "queue" /\ ControllerNext /\ UNCHANGED <<vars, streamVars>>
     \/ view = "execution" /\ Next /\ UNCHANGED <<controllerVars, streamVars>>
     \/ view = "stream" /\ StreamNext /\ UNCHANGED <<controllerVars, vars>>
  /\ UNCHANGED view

(***************************************************************************)
(* Nobody waits or executes in a view that has not been chosen, so the     *)
(* fairness of executions asks nothing of it; a stream is waited for from  *)
(* the start, so that of streams is bound to its view: the execution       *)
(* answers (RequestSettles), the provider goes on, the database answers, a *)
(* connected client reads.                                                 *)
(***************************************************************************)
InStream(action) == view = "stream" /\ action

PathFairness ==
  /\ Fairness
  /\ \A s \in Responses :
       /\ WF_streamVars(InStream(Flush(s))) /\ WF_streamVars(InStream(Dispatch(s)))
       /\ WF_streamVars(InStream(Read(s))) /\ WF_streamVars(InStream(Close(s)))

PathSpec == PathInit /\ [][PathNext]_pathVars /\ PathFairness

\* A client that stays connected gets its answer to the end, however often the
\* socket fills up, the provider fails or other clients leave.
ConnectedClientIsServed ==
  view = "stream" =>
    \A s \in Responses :
      [](socket[s].client = "connected") => <>(handler[s].pc = "finished")
=============================================================================
