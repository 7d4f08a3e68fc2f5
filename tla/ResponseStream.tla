--------------------------- MODULE ResponseStream ---------------------------
(***************************************************************************)
(* How soul-gateway writes a streamed answer: respondMiddleware reads the  *)
(* provider's stream event by event, turns each into a frame and waits     *)
(* when the socket is full, while the client may go away at any moment;    *)
(* then the audit row is written and the error boundary has its turn       *)
(* (route/respond.mjs, canonical-stream-to-sse.mjs, audit-log.mjs,         *)
(* error-boundary.mjs, releaseAfterStream in backend-dispatch-middleware). *)
(*                                                                         *)
(* The socket is Node's: write() answers false when its buffer is full or  *)
(* the socket is destroyed; 'drain' fires when a full buffer has emptied;  *)
(* 'close' fires once, when the client goes away.                          *)
(***************************************************************************)
EXTENDS Integers, Sequences, FiniteSets

CONSTANTS
  Responses,    \* streamed requests in flight
  Scripts,      \* what a provider's stream may yield before it ends
  HighWater     \* frames the socket buffers before write() answers false

Events == {"delta", "done", "errorEvent", "throw"}

ASSUME StreamAssumption ==
  /\ IsFiniteSet(Responses)
  /\ Scripts \subseteq Seq(Events)
  /\ HighWater \in Nat \ {0}

VARIABLES
  inflight,     \* leases on the backend generation: its in-flight count
  stream,       \* the provider's stream: "unread", "open" or "closed"
  script,       \* the events it has still to yield
  handler,      \* where the request's handler is
  socket        \* the response object and what reached it

streamVars == <<inflight, stream, script, handler, socket>>

StreamInit ==
  /\ inflight = 0
  /\ stream   = [s \in Responses |-> "none"]
  /\ script   = [s \in Responses |-> <<>>]
  /\ handler  = [s \in Responses |-> [pc |-> "dispatching", error |-> "none", captured |-> FALSE,
                                      sawClose |-> FALSE, audit |-> <<>>, lost |-> FALSE]]
  /\ socket   = [s \in Responses |-> [client |-> "connected", buffer |-> 0,
                                      needDrain |-> FALSE, headers |-> FALSE,
                                      ended |-> FALSE, frames |-> <<>>]]
-----------------------------------------------------------------------------
(* The client and the socket. *)

\* 'close' reaches the handler's flag only while its listener is installed.
Disconnect(s) ==
  /\ socket[s].client = "connected"
  /\ socket' = [socket EXCEPT ![s].client = "gone"]
  /\ handler' = IF handler[s].pc \in {"reading", "draining"}
                THEN [handler EXCEPT ![s].sawClose = TRUE] ELSE handler
  /\ UNCHANGED <<inflight, stream, script>>

\* A frame leaves the buffer; the last one emits 'drain' if a write was
\* answered false, which wakes the handler that waits for it.
Flush(s) ==
  LET empty == socket[s].buffer = 1
  IN  /\ socket[s].client = "connected" /\ socket[s].buffer > 0
      /\ socket' = [socket EXCEPT ![s].buffer = @ - 1, ![s].needDrain = @ /\ ~empty]
      /\ handler' = IF empty /\ socket[s].needDrain /\ handler[s].pc = "draining"
                    THEN [handler EXCEPT ![s].pc = "reading"] ELSE handler
      /\ UNCHANGED <<inflight, stream, script>>
-----------------------------------------------------------------------------
(* The handler, from the stream the model execution returned. *)

\* What the serializer reads of a stream: its events, then that it is over.
WithEnd(events) == Append(events, "end")

\* The model execution leaves an unread stream and a leased generation.
ReceiveStream(s) ==
  /\ handler[s].pc = "dispatching" /\ stream[s] = "none"
  /\ \E events \in Scripts : script' = [script EXCEPT ![s] = WithEnd(events)]
  /\ stream' = [stream EXCEPT ![s] = "unread"]
  /\ inflight' = inflight + 1
  /\ UNCHANGED <<handler, socket>>

\* The model execution fails, or a gateway middleware does after it: the
\* stream is dropped unread, and a generator that never ran runs no finally.
DispatchFails(s) ==
  /\ handler[s].pc = "dispatching"
  /\ handler' = [handler EXCEPT ![s].pc = "auditing", ![s].error = "other"]
  /\ UNCHANGED <<inflight, stream, script, socket>>

\* streamSseResponse: writeHead and the listener.
StartSse(s) ==
  /\ handler[s].pc = "dispatching" /\ stream[s] = "unread"
  /\ handler' = [handler EXCEPT ![s].pc = "reading"]
  /\ socket' = [socket EXCEPT ![s].headers = TRUE]
  /\ UNCHANGED <<inflight, stream, script>>

\* The stream ends, throws or is left: releaseAfterStream's finally.
CloseStream(s) ==
  /\ stream' = [stream EXCEPT ![s] = "closed"]
  /\ script' = [script EXCEPT ![s] = <<>>]
  /\ inflight' = IF stream[s] = "closed" THEN inflight ELSE inflight - 1

\* The finally block: the listener is removed, the response is ended.
EndResponse(s, error) ==
  /\ CloseStream(s)
  /\ handler' = [handler EXCEPT ![s].pc = "auditing", ![s].error = error]
  /\ socket' = [socket EXCEPT ![s].ended = TRUE]

\* Mutant: the handler waits for 'drain' after every write.
WriteAlwaysWaiting(s, frame) ==
  LET gone == socket[s].client = "gone"
      full == socket[s].buffer + 1 >= HighWater
  IN  /\ socket' = IF gone THEN socket
                   ELSE [socket EXCEPT ![s].buffer = @ + 1, ![s].needDrain = full,
                                       ![s].frames = Append(@, frame)]
      /\ handler' = [handler EXCEPT ![s].pc = "draining", ![s].captured = @ \/ frame = "error"]

\* res.write: dropped on a destroyed socket; false means wait for 'drain'.
Write(s, frame) ==
  LET gone == socket[s].client = "gone"
      full == socket[s].buffer + 1 >= HighWater
  IN  /\ socket' = IF gone THEN socket
                   ELSE [socket EXCEPT ![s].buffer = @ + 1, ![s].needDrain = full,
                                       ![s].frames = Append(@, frame)]
      /\ handler' = [handler EXCEPT ![s].pc = IF gone \/ full THEN "draining" ELSE "reading",
                                    ![s].captured = @ \/ frame = "error"]

FrameOf(event) == IF event = "errorEvent" THEN "error" ELSE event

\* One turn of the for-await loop: the next event is read (and captured, if
\* it is an error) and written, or the loop is left because the client is
\* known to be gone.  The serializer stops after a done or an error event.
ReadEvent(s) ==
  /\ handler[s].pc = "reading" /\ script[s] # <<>> /\ Head(script[s]) \notin {"throw", "end"}
  /\ IF handler[s].sawClose
     THEN EndResponse(s, IF Head(script[s]) = "errorEvent" THEN "stream" ELSE "none")
     ELSE /\ Write(s, FrameOf(Head(script[s])))
          /\ stream' = [stream EXCEPT ![s] = "open"]
          /\ script' = [script EXCEPT ![s] = IF Head(@) = "delta" THEN Tail(@) ELSE <<>>]
          /\ UNCHANGED inflight

\* The stream is over and sent no final event: its lease is released, and the
\* serializer adds a final frame of its own.
SourceEnds(s) ==
  /\ handler[s].pc = "reading" /\ script[s] # <<>> /\ Head(script[s]) = "end"
  /\ IF handler[s].sawClose THEN EndResponse(s, "none")
                            ELSE Write(s, "done") /\ CloseStream(s)

\* After the last frame the loop ends; a captured error event is thrown.
FinishStream(s) ==
  /\ handler[s].pc = "reading" /\ script[s] = <<>>
  /\ EndResponse(s, IF handler[s].captured THEN "stream" ELSE "none")

\* The provider's request or its stream fails.
StreamThrows(s) ==
  /\ handler[s].pc = "reading" /\ script[s] # <<>> /\ Head(script[s]) = "throw"
  /\ EndResponse(s, "stream")

\* Mutant: the aborted flag is not looked at.
AuditStatusIgnoringAbort(s) == IF handler[s].error # "none" THEN "failed" ELSE "succeeded"

AuditStatus(s) == IF handler[s].error # "none" THEN "failed"
                  ELSE IF handler[s].sawClose THEN "aborted" ELSE "succeeded"

\* auditLogMiddleware writes its row and rethrows; an INSERT that fails is
\* only logged, and the request goes on without a row.
WriteRow(s) ==
  /\ handler[s].pc = "auditing"
  /\ \E lost \in BOOLEAN :
       handler' = [handler EXCEPT ![s].audit = IF lost THEN @ ELSE Append(@, AuditStatus(s)),
                                  ![s].lost = lost,
                                  ![s].pc = IF handler[s].error = "none" THEN "finished" ELSE "boundary"]
  /\ UNCHANGED <<inflight, stream, script, socket>>

\* errorBoundaryMiddleware: an error body, or an error frame once headers
\* are out, unless the response has ended.
Boundary(s) ==
  /\ handler[s].pc = "boundary"
  /\ handler' = [handler EXCEPT ![s].pc = "finished"]
  /\ socket' = IF socket[s].ended THEN socket
               ELSE [socket EXCEPT ![s].ended = TRUE, ![s].headers = TRUE,
                                   ![s].frames = IF socket[s].client = "gone" THEN @ ELSE Append(@, "error")]
  /\ UNCHANGED <<inflight, stream, script>>
-----------------------------------------------------------------------------
Dispatch(s) == ReceiveStream(s) \/ DispatchFails(s) \/ StartSse(s)
Read(s)     == ReadEvent(s) \/ SourceEnds(s) \/ FinishStream(s) \/ StreamThrows(s)
Close(s)    == WriteRow(s) \/ Boundary(s)

StreamNext == \E s \in Responses : Disconnect(s) \/ Flush(s) \/ Dispatch(s) \/ Read(s) \/ Close(s)

StreamSpec == StreamInit /\ [][StreamNext]_streamVars
-----------------------------------------------------------------------------
\* The client was sent the final frame.
Delivered(o) == o.frames # <<>> /\ o.frames[Len(o.frames)] = "done"

\* A request leaves one audit row, or none if its INSERT failed, and the row
\* tells what the client got: "succeeded" only with a final frame, "failed"
\* only without one, "aborted" only when the client left.
AuditTellsOutcome ==
  \A s \in Responses :
    /\ Len(handler[s].audit) <= 1
    /\ handler[s].pc = "finished" => handler[s].audit # <<>> \/ handler[s].lost
    /\ \A i \in 1 .. Len(handler[s].audit) :
         /\ handler[s].audit[i] = "succeeded" => Delivered(socket[s])
         /\ handler[s].audit[i] = "failed"    => ~Delivered(socket[s])
         /\ handler[s].audit[i] = "aborted"   => socket[s].client = "gone"
=============================================================================
