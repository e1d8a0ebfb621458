------------------------------ MODULE StreamLoop ------------------------------
(***************************************************************************)
(* The thread of Client (src/src/core/client.cpp) and the bidirectional    *)
(* stream it drives (stream.cpp) over a completion queue of gRPC.  The     *)
(* loop starts operations on the stream and handles their completions one  *)
(* at a time, holding stream_mux_; other threads queue packets with Send,  *)
(* and one calls Destroy.                                                  *)
(*                                                                         *)
(* gRPC and the server are external: an operation that was started         *)
(* completes, in the order of the call's life: nothing succeeds after the  *)
(* call ended, and FINISHED comes after what was started before it.        *)
(***************************************************************************)
EXTENDS Integers, Sequences, FiniteSets

CONSTANTS
  MaxSends,    \* bound: packets the SDK sends
  MaxPushes,   \* bound: packets the server sends
  MaxFaults,   \* bound: connections refused and calls broken
  Ping,        \* the heartbeat of send_all_msgs
  MaxPings     \* bound: heartbeats that come due

ASSUME BoundsAssumption ==
  {MaxSends, MaxPushes, MaxFaults, MaxPings} \subseteq Nat

Packets == 1..MaxSends
Pushes == 1..MaxPushes
ClientEvent ==
  {"CONNECTED", "READ_DONE", "WRITE_DONE", "HALF_CLOSE", "FINISHED"}
ASSUME PingAssumption == Ping \notin Packets

StreamStatus ==
  {"WAIT_CONNECT", "READY_TO_WRITE", "WAIT_WRITE_DONE", "HALF_CLOSE",
   "FINISHED"}

VARIABLES
  pc,        \* the loop: about to create a stream, at AsyncNext, or gone
  ok,        \* its local variable, which a TIMEOUT leaves as it was
  status,    \* Stream::status_
  msgQueue,  \* Client::msg_queue_
  streamQ,   \* Stream::msg_queue_
  destroy,   \* the thread in Destroy: not yet, joining the loop, returned
  ops,       \* how often each operation is started and not completed
  cq,        \* the completions the loop has not taken
  call,      \* the stream's call: new, open, broken, or refused
  closed,    \* WritesDone was called on it
  toServer, toClient,   \* packets on their way
  sent, pushed, faults, pings   \* counters of the bounds

loop == <<pc, ok, status, streamQ>>
grpc == <<ops, cq, call, closed, toServer, toClient>>
bounds == <<sent, pushed, faults, pings>>
vars == <<loop, msgQueue, destroy, grpc, bounds>>

TypeOK ==
  /\ pc \in {"create", "next", "exit"}
  /\ ok \in BOOLEAN
  /\ status \in StreamStatus
  /\ msgQueue \in Seq(Packets)
  /\ streamQ \in Seq(Packets \cup {Ping})
  /\ destroy \in {"none", "join", "done"}
  /\ ops \in [ClientEvent -> Nat]
  /\ cq \in Seq([event : ClientEvent, ok : BOOLEAN])
  /\ call \in {"new", "open", "broken", "refused"}
  /\ closed \in BOOLEAN
  /\ toServer \in Seq(Packets \cup {Ping})
  /\ toClient \in Seq(Pushes)
  /\ sent \in 0..MaxSends
  /\ pushed \in 0..MaxPushes
  /\ faults \in 0..MaxFaults
  /\ pings \in 0..MaxPings

Init ==
  /\ pc = "create"
  /\ ok \in BOOLEAN
  /\ status = "WAIT_CONNECT"
  /\ msgQueue = <<>>
  /\ streamQ = <<>>
  /\ destroy = "none"
  /\ ops = [e \in ClientEvent |-> 0]
  /\ cq = <<>>
  /\ call = "new"
  /\ closed = FALSE
  /\ toServer = <<>>
  /\ toClient = <<>>
  /\ sent = 0 /\ pushed = 0 /\ faults = 0 /\ pings = 0

-----------------------------------------------------------------------------
(* Stream (stream.cpp).  rest is what the loop leaves in the completion    *)
(* queue, started the operations the handler starts besides.               *)

IsConnected == status # "WAIT_CONNECT"
IsReadyToSend == status \in {"READY_TO_WRITE", "WAIT_WRITE_DONE"}

Start(started) ==
  ops' = [e \in ClientEvent |-> ops[e] + IF e \in started THEN 1 ELSE 0]

(* Mutant: the packet is written and stays in the queue. *)
WriteWithoutPop(q, rest, started) ==
  /\ status' = "WAIT_WRITE_DONE"
  /\ streamQ' = q
  /\ Start(started \cup {"WRITE_DONE"})
  /\ cq' = rest
  /\ toServer' = Append(toServer, Head(q))

(* rw_->Write of the first packet of q.  One that follows WritesDone fails *)
(* at once.                                                                *)
Write(q, rest, started) ==
  /\ status' = "WAIT_WRITE_DONE"
  /\ streamQ' = Tail(q)
  /\ IF closed
     THEN /\ Start(started)
          /\ cq' = Append(rest, [event |-> "WRITE_DONE", ok |-> FALSE])
          /\ UNCHANGED toServer
     ELSE /\ Start(started \cup {"WRITE_DONE"})
          /\ cq' = rest
          /\ toServer' = Append(toServer, Head(q))

(* Send and SendMsgs: q is the queue with the new packets. *)
SendMsgs(q, rest, started) ==
  IF status = "READY_TO_WRITE" /\ q # <<>>
  THEN Write(q, rest, started)
  ELSE /\ streamQ' = q
       /\ cq' = rest
       /\ Start(started)
       /\ UNCHANGED <<status, toServer>>

(* Mutant: a stream that is finishing is finished again. *)
FinishAlways(rest) ==
  /\ status' = "FINISHED"
  /\ Start({"FINISHED"})
  /\ cq' = rest
  /\ UNCHANGED <<msgQueue, streamQ, toServer, pings>>

Finish(rest) ==
  /\ IF status \in {"WAIT_CONNECT", "FINISHED"}
     THEN UNCHANGED <<status, ops>>
     ELSE status' = "FINISHED" /\ Start({"FINISHED"})
  /\ cq' = rest
  /\ UNCHANGED <<msgQueue, streamQ, toServer, pings>>

HalfClose ==
  IF status \in {"WAIT_CONNECT", "FINISHED", "HALF_CLOSE"}
  THEN UNCHANGED <<status, ops, closed>>
  ELSE /\ status' = "HALF_CLOSE"
       /\ Start({"HALF_CLOSE"})
       /\ closed' = TRUE

-----------------------------------------------------------------------------
(* The loop (client.cpp). *)

(* Stream::msg_queue_ once it took the whole queue, behind a heartbeat if  *)
(* one is due.                                                             *)
AllMsgs(beat) == streamQ \o beat \o msgQueue
Beats == {<<>>, <<Ping>>}
Queues == {streamQ} \cup {AllMsgs(beat) : beat \in Beats}

(* Mutant: the heartbeat goes to the client's queue, not to the stream. *)
SendAllMsgsQueuesBeat(q) ==
  \E beat \in Beats :
    /\ pings' = pings + Len(beat)
    /\ pings' <= MaxPings
    /\ q = AllMsgs(<<>>)
    /\ msgQueue' = beat

(* send_all_msgs.  Primes msgQueue, pings. *)
SendAllMsgs(q) ==
  \E beat \in Beats :
    /\ pings' = pings + Len(beat)
    /\ pings' <= MaxPings
    /\ q = AllMsgs(beat)
    /\ msgQueue' = <<>>

(* What a successful event does before it is processed. *)
Flush(q) ==
  IF IsReadyToSend
  THEN SendAllMsgs(q)
  ELSE q = streamQ /\ UNCHANGED <<msgQueue, pings>>

CreateStream ==
  /\ pc = "create"
  /\ pc' = "next"
  /\ status' = "WAIT_CONNECT"
  /\ streamQ' = <<>>
  /\ Start({"CONNECTED"})
  /\ call' = "new"
  /\ closed' = FALSE
  /\ toServer' = <<>>
  /\ toClient' = <<>>
  /\ UNCHANGED <<ok, msgQueue, destroy, cq, bounds>>

(* Mutant: only events flush the queue. *)
TimeoutWithoutFlush ==
  /\ pc = "next"
  /\ ~ok
  /\ IsConnected
  /\ Finish(cq)
  /\ UNCHANGED <<pc, ok, destroy, call, closed, toClient, sent, pushed,
                 faults>>

(* AsyncNext returned without an event; one may have come since, while the *)
(* loop waited for stream_mux_.                                            *)
Timeout ==
  /\ pc = "next"
  /\ IF ~ok /\ IsConnected
     THEN Finish(cq)
     ELSE /\ IsReadyToSend
          /\ \E q \in Queues : SendAllMsgs(q) /\ SendMsgs(q, cq, {})
  /\ UNCHANGED <<pc, ok, destroy, call, closed, toClient, sent, pushed,
                 faults>>

(* AsyncNext returns an event. *)
GotEvent(event) ==
  /\ pc = "next"
  /\ cq # <<>>
  /\ Head(cq).event = event
  /\ ok' = Head(cq).ok
  /\ UNCHANGED <<destroy, call, closed, sent, pushed, faults>>

(* A stream that did not connect is read from all the same, and fails so.  *)
Connected ==
  /\ GotEvent("CONNECTED")
  /\ status' = "READY_TO_WRITE"
  /\ Start({"READ_DONE"})
  /\ cq' = Tail(cq)
  /\ UNCHANGED <<pc, msgQueue, streamQ, toServer, toClient, pings>>

ReadDone ==
  /\ GotEvent("READ_DONE")
  /\ Head(cq).ok
  /\ \E q \in Queues : Flush(q) /\ SendMsgs(q, Tail(cq), {"READ_DONE"})
  /\ toClient' = Tail(toClient)
  /\ UNCHANGED pc

WriteDone ==
  /\ GotEvent("WRITE_DONE")
  /\ Head(cq).ok
  /\ \E q \in Queues :
       /\ Flush(q)
       /\ IF q = <<>>
          THEN /\ status' = "READY_TO_WRITE"
               /\ streamQ' = q
               /\ cq' = Tail(cq)
               /\ UNCHANGED <<ops, toServer>>
          ELSE Write(q, Tail(cq), {})
  /\ UNCHANGED <<pc, toClient>>

(* Mutant: a failed read is processed like a good one. *)
FailedReadIsProcessed ==
  /\ GotEvent("READ_DONE")
  /\ ~Head(cq).ok
  /\ SendMsgs(streamQ, Tail(cq), {"READ_DONE"})
  /\ UNCHANGED <<pc, msgQueue, toClient, pings>>

(* A failure of a connected stream; FreshStreamAlone excludes another. *)
Failed ==
  /\ \E event \in {"READ_DONE", "WRITE_DONE"} : GotEvent(event)
  /\ ~Head(cq).ok
  /\ Finish(Tail(cq))
  /\ UNCHANGED <<pc, toClient>>

HalfClosed ==
  /\ GotEvent("HALF_CLOSE")
  /\ Finish(Tail(cq))
  /\ UNCHANGED <<pc, toClient>>

(* Mutant: the loop skips the new stream and forgets run_ = false. *)
FinishedRuns ==
  /\ GotEvent("FINISHED")
  /\ pc' = IF destroy = "none" THEN "create" ELSE "next"
  /\ cq' = Tail(cq)
  /\ UNCHANGED <<status, msgQueue, streamQ, ops, toServer, toClient, pings>>

Finished ==
  /\ GotEvent("FINISHED")
  /\ pc' = IF destroy = "none" THEN "create" ELSE "exit"
  /\ cq' = Tail(cq)
  /\ UNCHANGED <<status, msgQueue, streamQ, ops, toServer, toClient, pings>>

Loop ==
  \/ CreateStream \/ Timeout
  \/ Connected \/ ReadDone \/ WriteDone \/ Failed \/ HalfClosed \/ Finished

-----------------------------------------------------------------------------
(* The other threads. *)

Send ==
  /\ destroy = "none"
  /\ sent < MaxSends
  /\ sent' = sent + 1
  /\ msgQueue' = Append(msgQueue, sent')
  /\ UNCHANGED <<loop, destroy, grpc, pushed, faults, pings>>

(* Destroy, under stream_mux_, ... *)
Destroy ==
  /\ destroy = "none"
  /\ destroy' = "join"
  /\ HalfClose
  /\ UNCHANGED <<pc, ok, streamQ, msgQueue, cq, call, toServer, toClient,
                 bounds>>

(* ... and its join. *)
Joined ==
  /\ destroy = "join"
  /\ pc = "exit"
  /\ destroy' = "done"
  /\ UNCHANGED <<loop, msgQueue, grpc, bounds>>

-----------------------------------------------------------------------------
(* gRPC and the server (external). *)

Complete(event, success) ==
  /\ ops[event] > 0
  /\ ops' = [ops EXCEPT ![event] = @ - 1]
  /\ cq' = Append(cq, [event |-> event, ok |-> success])
  /\ UNCHANGED <<loop, msgQueue, destroy, closed, toServer, toClient, sent,
                 pushed, pings>>

CallStarts ==
  /\ Complete("CONNECTED", TRUE)
  /\ call' = "open"
  /\ UNCHANGED faults

CallRefused ==
  /\ Complete("CONNECTED", FALSE)
  /\ call' = "refused"
  /\ faults < MaxFaults
  /\ faults' = faults + 1

WriteSucceeds ==
  /\ call = "open"
  /\ Complete("WRITE_DONE", TRUE)
  /\ UNCHANGED <<call, faults>>

(* The writes before it come first. *)
HalfCloseSucceeds ==
  /\ call = "open"
  /\ ops["WRITE_DONE"] = 0
  /\ Complete("HALF_CLOSE", TRUE)
  /\ UNCHANGED <<call, faults>>

ReadSucceeds ==
  /\ call = "open"
  /\ toClient # <<>>
  /\ Complete("READ_DONE", TRUE)
  /\ UNCHANGED <<call, faults>>

OperationFails ==
  /\ call \in {"broken", "refused"}
  /\ \E event \in {"READ_DONE", "WRITE_DONE", "HALF_CLOSE"} :
       Complete(event, FALSE)
  /\ UNCHANGED <<call, faults>>

FinishCompletes ==
  /\ call \in {"broken", "refused"}
  /\ \A event \in ClientEvent \ {"FINISHED"} : ops[event] = 0
  /\ Complete("FINISHED", TRUE)
  /\ UNCHANGED <<call, faults>>

CallEnds ==
  /\ call = "open"
  /\ call' = "broken"
  /\ UNCHANGED <<loop, msgQueue, destroy, ops, cq, closed, toServer, toClient,
                 sent, pushed, pings>>

(* The server ends a call that the client half-closed; otherwise a call    *)
(* ends by a fault.                                                        *)
ServerEndsCall ==
  /\ CallEnds
  /\ closed
  /\ UNCHANGED faults

CallBreaks ==
  /\ CallEnds
  /\ faults < MaxFaults
  /\ faults' = faults + 1

ServerReads ==
  /\ call = "open"
  /\ toServer # <<>>
  /\ toServer' = Tail(toServer)
  /\ UNCHANGED <<loop, msgQueue, destroy, ops, cq, call, closed, toClient,
                 bounds>>

(* What the server writes before the CONNECTED event is handled can as     *)
(* well be written after it: no read is started before.                    *)
ServerWrites ==
  /\ call = "open"
  /\ IsConnected
  /\ pushed < MaxPushes
  /\ pushed' = pushed + 1
  /\ toClient' = Append(toClient, pushed')
  /\ UNCHANGED <<loop, msgQueue, destroy, ops, cq, call, closed, toServer,
                 sent, faults, pings>>

Grpc ==
  \/ WriteSucceeds \/ HalfCloseSucceeds \/ ReadSucceeds
  \/ OperationFails \/ FinishCompletes
  \/ ServerEndsCall \/ ServerReads

-----------------------------------------------------------------------------
Next ==
  \/ Loop
  \/ Send \/ Destroy \/ Joined
  \/ CallStarts \/ CallRefused \/ Grpc \/ CallBreaks \/ ServerWrites

(* The threads run, started operations complete and the server reads and   *)
(* answers a half-close; nothing need fail, and nobody need call Destroy.  *)
Fairness ==
  /\ WF_vars(Loop)
  /\ WF_vars(Joined)
  /\ WF_vars(CallStarts \/ CallRefused)
  /\ WF_vars(Grpc)

Spec == Init /\ [][Next]_vars
FairSpec == Spec /\ Fairness

-----------------------------------------------------------------------------
Completed(event) == {i \in DOMAIN cq : cq[i].event = event}

(* gRPC admits one operation of a kind at a time, and one Finish to a      *)
(* call, although WRITE_DONE overwrites the status that HalfClose and      *)
(* Finish rely on.                                                         *)
OneOfEach ==
  \A event \in ClientEvent :
    \/ ops[event] = 0 /\ \A i, j \in Completed(event) : i = j
    \/ ops[event] = 1 /\ Completed(event) = {}

(* The tags do not name their stream, so a completion of the stream before  *)
(* would be handled by the next one, as its own.                           *)
FreshStreamAlone ==
  pc = "create" => cq = <<>> /\ \A event \in ClientEvent : ops[event] = 0

(* What the loop holds of each variable of Channel. *)
Serving == destroy = "none"
Open == status # "FINISHED" /\ IsConnected /\ call \in {"open", "broken"}
WithoutPings(s) ==
  LET kept[n \in 0..Len(s)] ==
        IF n = 0 THEN <<>>
        ELSE IF s[n] = Ping THEN kept[n - 1] ELSE Append(kept[n - 1], s[n])
  IN  kept[Len(s)]
Unsent == IF Serving THEN msgQueue ELSE <<>>
Taken ==
  IF Serving /\ Open THEN WithoutPings(toServer \o streamQ) ELSE <<>>
(* A stream finishes when no read of it can succeed any more, and one that *)
(* is refused has nothing to read.                                         *)
Unread == IF Serving /\ Open THEN toClient ELSE <<>>

Abs == INSTANCE Channel WITH
  Requests <- Packets, Pushed <- Pushes, alive <- Serving,
  up <- Serving /\ Open, sendQ <- Unsent, wire <- Taken, inbox <- Unread

(* Until Destroy the loop is the transport Session composes with: packets  *)
(* leave in the order Send queued them, once, and arrive in the order the  *)
(* server wrote them; only the end of a stream loses any.                  *)
RefinesTransport == Abs!Spec

(* A Destroy that half-closed the stream returns: FINISHED ends the loop.  *)
HalfClosedDestroyReturns == destroy = "join" /\ closed ~> destroy = "done"

(* Every Destroy returns, as push_sdk.h:129 has it callable at any time.   *)
DestroyReturns == destroy = "join" ~> destroy = "done"

(* What Send queued is taken by a stream and written. *)
QueuesDrain == []<>(destroy = "none" => msgQueue = <<>> /\ streamQ = <<>>)
=============================================================================
