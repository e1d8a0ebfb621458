---------------------------- MODULE StreamProofs ----------------------------
(*****************************************************************************)
(* The loop of Client starts no operation twice and hands no completion to   *)
(* the next stream, for any number of packets, pushes, faults and pings.     *)
(* The status does not show this by itself: a WRITE_DONE overwrites what     *)
(* Finish and HalfClose left in it.  What does is that a stream only         *)
(* finishes when no operation of it can succeed any more (DeadInv).          *)
(*****************************************************************************)
EXTENDS StreamLoop, WellFoundedInduction, TLAPS

(* A read that succeeded has its packet. *)
ReadInv ==
  \A i \in Completed("READ_DONE") : cq[i].ok => toClient # <<>>

(* The completions of a kind in a queue, and that there is one at most. *)
In(s, e) == {i \in DOMAIN s : s[i].event = e}
AtMostOne(s, e) == \A i, j \in In(s, e) : i = j

Nothing(e) == ops[e] = 0 /\ In(cq, e) = {}
(* A stream that connects has nothing else under way; one that connected    *)
(* does not connect again.                                                   *)
Connecting == pc = "next" /\ status = "WAIT_CONNECT"
ConnectingInv ==
  /\ Connecting => ~closed /\ \A e \in ClientEvent \ {"CONNECTED"} : Nothing(e)
  /\ ops["CONNECTED"] # 0 => Connecting
  /\ pc = "next" /\ ~Connecting => Nothing("CONNECTED")
(* What each status says of the operations under way. *)
WritingInv == pc = "next" /\ status = "READY_TO_WRITE" => Nothing("WRITE_DONE")
FinishInv ==
  /\ pc = "next" /\ status # "FINISHED" => Nothing("FINISHED")
  /\ pc = "create" => status \in {"WAIT_CONNECT", "FINISHED"}
  /\ destroy = "none" => pc # "exit"
(* Without Destroy nothing is left behind FINISHED. *)
LastInv ==
  destroy = "none" =>
    \A i \in In(cq, "FINISHED") :
      i = Len(cq) /\ \A e \in ClientEvent : ops[e] = 0
(* Destroy closes the writing side, and nobody else. *)
ClosedInv ==
  /\ ~closed => Nothing("HALF_CLOSE")
  /\ destroy = "none" => ~closed

(* No write is under way, or can succeed. *)
WritesOver ==
  \/ call \in {"broken", "refused"}
  \/ closed /\ ops["WRITE_DONE"] = 0

(* After the position k of s nothing succeeds that starts the stream again. *)
Over(s, k) ==
  \A j \in DOMAIN s :
    j > k /\ s[j].ok /\ s[j].event # "FINISHED" =>
      closed /\ s[j].event # "WRITE_DONE"
(* From a failure or a half-close on, and once it finishes, the stream is    *)
(* dead: no success that is left can overwrite its status.                   *)
DeadInv ==
  /\ \A i \in DOMAIN cq :
       ~cq[i].ok \/ cq[i].event = "HALF_CLOSE" => Over(cq, i) /\ WritesOver
  /\ pc = "next" /\ status = "FINISHED" => Over(cq, 0) /\ WritesOver
  /\ pc = "next" /\ ~ok /\ ~Connecting => Over(cq, 0) /\ WritesOver

IInv ==
  /\ TypeOK /\ OneOfEach /\ FreshStreamAlone /\ ReadInv
  /\ ConnectingInv /\ WritingInv /\ FinishInv /\ LastInv /\ ClosedInv /\ DeadInv

Completion == [event : ClientEvent, ok : BOOLEAN]

LEMMA BoundsType ==
  MaxSends \in Nat /\ MaxPushes \in Nat /\ MaxFaults \in Nat /\ MaxPings \in Nat
BY BoundsAssumption

(* A sequence over a set that is appended to stays one. *)
LEMMA AppendType ==
  ASSUME NEW A, NEW s \in Seq(A), NEW a \in A
  PROVE  Append(s, a) \in Seq(A)
OBVIOUS

LEMMA TailFacts ==
  ASSUME NEW S, NEW s \in Seq(S), s # <<>>
  PROVE  /\ Head(s) = s[1] /\ Head(s) \in S /\ 1 \in DOMAIN s
         /\ Tail(s) \in Seq(S) /\ Len(Tail(s)) = Len(s) - 1
         /\ DOMAIN Tail(s) = 1..(Len(s) - 1) /\ DOMAIN s = 1..Len(s)
         /\ \A i \in 1..(Len(s) - 1) : Tail(s)[i] = s[i + 1]
OBVIOUS

LEMMA EmptySeq ==
  ASSUME NEW S, NEW s \in Seq(S), Len(s) = 0
  PROVE  s = <<>>
OBVIOUS

LEMMA AppendFacts ==
  ASSUME NEW S, NEW s \in Seq(S), NEW e
  PROVE  /\ DOMAIN Append(s, e) = 1..(Len(s) + 1) /\ DOMAIN s = 1..Len(s)
         /\ Len(s) \in Nat /\ Append(s, e) # s
         /\ \A i \in 1..Len(s) : Append(s, e)[i] = s[i]
         /\ Append(s, e)[Len(s) + 1] = e
<1> DEFINE l == Append(s, e)
<1>1. /\ DOMAIN l = 1..(Len(s) + 1) /\ DOMAIN s = 1..Len(s)
      /\ Len(s) \in Nat
      /\ \A i \in 1..Len(s) : l[i] = s[i]
      /\ l[Len(s) + 1] = e
  OBVIOUS
<1>2. Len(s) + 1 \in DOMAIN l /\ Len(s) + 1 \notin DOMAIN s
  OBVIOUS
<1> HIDE DEF l
<1>3. l # s
  BY <1>2, Zenon
<1>4. /\ DOMAIN l = 1..(Len(s) + 1) /\ DOMAIN s = 1..Len(s)
      /\ Len(s) \in Nat /\ l # s
      /\ \A i \in 1..Len(s) : l[i] = s[i]
      /\ l[Len(s) + 1] = e
  BY <1>1, <1>3
<1> QED BY <1>4, Zenon DEF l

LEMMA NonEmptyAppend ==
  ASSUME NEW S, NEW s \in Seq(S), NEW e
  PROVE  Append(s, e) # <<>>
<1> DEFINE l == Append(s, e)
<1>1. 1 \in DOMAIN l
  OBVIOUS
<1>2. 1 \notin DOMAIN <<>>
  OBVIOUS
<1> HIDE DEF l
<1>3. l # <<>>
  BY <1>1, <1>2, Zenon
<1> QED BY <1>3, Zenon DEF l

LEMMA GotType ==
  ASSUME TypeOK, NEW event, GotEvent(event)
  PROVE  /\ cq # <<>> /\ Head(cq) \in Completion /\ ok' \in BOOLEAN
         /\ Tail(cq) \in Seq(Completion)
<1>1. cq # <<>> /\ ok' = Head(cq).ok /\ cq \in Seq(Completion)
  BY DEF GotEvent, TypeOK, Completion
<1>2. Head(cq) \in Completion /\ Tail(cq) \in Seq(Completion)
  BY <1>1, TailFacts
<1> QED BY <1>1, <1>2 DEF Completion

LEMMA FlushType ==
  ASSUME TypeOK, NEW q \in Queues, Flush(q) \/ SendAllMsgs(q)
  PROVE  msgQueue' \in Seq(Packets) /\ pings' \in 0..MaxPings
<1>1. CASE SendAllMsgs(q)
  <2>1. PICK beat \in Beats :
          /\ pings' = pings + Len(beat) /\ pings' <= MaxPings
          /\ msgQueue' = <<>>
    BY <1>1 DEF SendAllMsgs
  <2>2. Len(beat) \in Nat
    BY DEF Beats
  <2> QED BY <2>1, <2>2, BoundsType DEF TypeOK
<1>2. CASE ~SendAllMsgs(q)
  BY <1>2 DEF Flush, TypeOK
<1> QED BY <1>1, <1>2

LEMMA QueuesType ==
  ASSUME TypeOK, NEW q \in Queues
  PROVE  q \in Seq(Packets \cup {Ping})
<1>1. msgQueue \in Seq(Packets \cup {Ping})
  BY DEF TypeOK
<1>2. ASSUME NEW beat \in Beats PROVE AllMsgs(beat) \in Seq(Packets \cup {Ping})
  <2>1. beat \in Seq(Packets \cup {Ping})
    <3>1. beat = <<>> \/ beat = <<Ping>>
      BY DEF Beats
    <3>2. CASE beat = <<>>
      BY <3>2
    <3>3. CASE beat = <<Ping>>
      BY <3>3
    <3> QED BY <3>1, <3>2, <3>3
  <2>2. streamQ \in Seq(Packets \cup {Ping})
    BY DEF TypeOK
  <2> HIDE DEF Packets
  <2> QED BY <1>1, <2>1, <2>2 DEF AllMsgs
<1> QED BY <1>2 DEF Queues, TypeOK

LEMMA StartType ==
  ASSUME TypeOK, NEW S, Start(S)
  PROVE  ops' \in [ClientEvent -> Nat]
BY DEF TypeOK, Start

LEMMA WriteType ==
  ASSUME TypeOK, NEW q \in Seq(Packets \cup {Ping}), q # <<>>, NEW S,
         NEW rest \in Seq(Completion),
         Write(q, rest, S)
  PROVE  /\ status' \in StreamStatus /\ streamQ' \in Seq(Packets \cup {Ping})
         /\ ops' \in [ClientEvent -> Nat]
         /\ cq' \in Seq(Completion)
         /\ toServer' \in Seq(Packets \cup {Ping})
<1> DEFINE failed == [event |-> "WRITE_DONE", ok |-> FALSE]
<1>1. /\ Head(q) \in Packets \cup {Ping} /\ Tail(q) \in Seq(Packets \cup {Ping})
      /\ failed \in Completion
  <2>1. failed \in Completion
    BY DEF Completion, ClientEvent
  <2> QED BY <2>1, TailFacts
<1>2. /\ status' \in StreamStatus /\ streamQ' = Tail(q)
      /\ \E T : Start(T)
      /\ cq' = rest \/ cq' = Append(rest, failed)
      /\ toServer' = toServer \/ toServer' = Append(toServer, Head(q))
  BY DEF Write, StreamStatus
<1>3. toServer \in Seq(Packets \cup {Ping})
  BY DEF TypeOK
<1> HIDE DEF failed
<1>4. toServer' \in Seq(Packets \cup {Ping})
  <2>1. Append(toServer, Head(q)) \in Seq(Packets \cup {Ping})
    BY <1>1, <1>3, AppendType
  <2> QED BY <1>2, <1>3, <2>1
<1>5. cq' \in Seq(Completion)
  BY <1>1, <1>2
<1>6. streamQ' \in Seq(Packets \cup {Ping})
  BY <1>1, <1>2
<1> QED BY <1>2, <1>4, <1>5, <1>6, StartType

LEMMA SendMsgsType ==
  ASSUME TypeOK, NEW q \in Seq(Packets \cup {Ping}), NEW S,
         NEW rest \in Seq(Completion),
         SendMsgs(q, rest, S)
  PROVE  /\ status' \in StreamStatus /\ streamQ' \in Seq(Packets \cup {Ping})
         /\ ops' \in [ClientEvent -> Nat]
         /\ cq' \in Seq(Completion)
         /\ toServer' \in Seq(Packets \cup {Ping})
<1>1. CASE status = "READY_TO_WRITE" /\ q # <<>>
  BY <1>1, WriteType DEF SendMsgs
<1>2. CASE ~(status = "READY_TO_WRITE" /\ q # <<>>)
  BY <1>2, StartType DEF SendMsgs, TypeOK
<1> QED BY <1>1, <1>2

LEMMA TypeStep ==
  ASSUME TypeOK, ReadInv, Next
  PROVE  TypeOK'
<1> USE BoundsType
<1>1. CASE CreateStream
  <2>1. ops' \in [ClientEvent -> Nat]
    BY <1>1, StartType DEF CreateStream
  <2>2. /\ streamQ' \in Seq(Packets \cup {Ping})
        /\ toServer' \in Seq(Packets \cup {Ping}) /\ toClient' \in Seq(Pushes)
    BY <1>1 DEF CreateStream
  <2>3. UNCHANGED <<ok, msgQueue, destroy, cq, sent, pushed, faults, pings>>
    BY <1>1 DEF CreateStream, bounds
  <2>4. /\ pc' = "next" /\ status' \in StreamStatus /\ call' = "new"
        /\ closed' = FALSE
    BY <1>1 DEF CreateStream, StreamStatus
  <2> QED BY <2>1, <2>2, <2>3, <2>4 DEF TypeOK
<1>2. CASE Timeout
  <2>1. CASE Finish(cq)
    BY <1>2, <2>1, StartType DEF Timeout, Finish, TypeOK, StreamStatus
  <2>2. CASE \E q \in Queues : SendAllMsgs(q) /\ SendMsgs(q, cq, {})
    <3>1. PICK q \in Queues : SendAllMsgs(q) /\ SendMsgs(q, cq, {})
      BY <2>2
    <3> QED BY <1>2, <3>1, QueuesType, SendMsgsType, FlushType
            DEF Timeout, TypeOK, Completion
  <2> QED BY <1>2, <2>1, <2>2 DEF Timeout
<1>3. CASE Connected
  BY <1>3, StartType, GotType
     DEF Connected, GotEvent, TypeOK, StreamStatus, Completion
<1>4. CASE ReadDone
  <2>1. PICK q \in Queues : Flush(q) /\ SendMsgs(q, Tail(cq), {"READ_DONE"})
    BY <1>4 DEF ReadDone
  <2>2. toClient' \in Seq(Pushes)
    BY <1>4 DEF ReadDone, GotEvent, ReadInv, Completed, TypeOK
  <2>3. Tail(cq) \in Seq(Completion) /\ ok' \in BOOLEAN
    BY <1>4, GotType DEF ReadDone
  <2>4. msgQueue' \in Seq(Packets) /\ pings' \in 0..MaxPings
    BY <2>1, FlushType
  <2> QED BY <1>4, <2>1, <2>2, <2>3, <2>4, QueuesType, SendMsgsType
          DEF ReadDone, GotEvent, TypeOK, Completion
<1>5. CASE WriteDone
  <2>1. PICK q \in Queues :
          /\ Flush(q)
          /\ IF q = <<>>
             THEN /\ status' = "READY_TO_WRITE"
                  /\ streamQ' = q
                  /\ cq' = Tail(cq)
                  /\ UNCHANGED <<ops, toServer>>
             ELSE Write(q, Tail(cq), {})
    BY <1>5 DEF WriteDone
  <2>3. Tail(cq) \in Seq(Completion) /\ ok' \in BOOLEAN
    BY <1>5, GotType DEF WriteDone
  <2>4. msgQueue' \in Seq(Packets) /\ pings' \in 0..MaxPings
    BY <2>1, FlushType
  <2>5. /\ status' \in StreamStatus /\ streamQ' \in Seq(Packets \cup {Ping})
        /\ ops' \in [ClientEvent -> Nat]
        /\ cq' \in Seq(Completion)
        /\ toServer' \in Seq(Packets \cup {Ping})
    <3>1. CASE q = <<>>
      BY <2>1, <2>3, <3>1, QueuesType DEF TypeOK, StreamStatus
    <3>2. CASE q # <<>>
      BY <2>1, <2>3, <3>2, QueuesType, WriteType
    <3> QED BY <3>1, <3>2
  <2> QED BY <1>5, <2>3, <2>4, <2>5 DEF WriteDone, GotEvent, TypeOK, Completion
<1>6. CASE Failed \/ HalfClosed
  <2>1. PICK e : GotEvent(e)
    BY <1>6 DEF Failed, HalfClosed
  <2>2. Finish(Tail(cq)) /\ UNCHANGED <<pc, toClient>>
    BY <1>6 DEF Failed, HalfClosed
  <2>3. ops' \in [ClientEvent -> Nat] /\ status' \in StreamStatus
    BY <2>2, StartType DEF Finish, TypeOK, StreamStatus
  <2> QED BY <2>1, <2>2, <2>3, GotType DEF Finish, GotEvent, TypeOK, Completion
<1>7. CASE Finished
  BY <1>7, GotType DEF Finished, GotEvent, TypeOK, Completion
<1>8. CASE Send
  BY <1>8 DEF Send, TypeOK, loop, grpc, Packets
<1>9. CASE Destroy
  BY <1>9, StartType DEF Destroy, HalfClose, TypeOK, bounds, StreamStatus
<1>10. CASE Joined
  BY <1>10 DEF Joined, TypeOK, loop, grpc, bounds
<1>11. ASSUME NEW e, NEW b \in BOOLEAN, Complete(e, b),
               call' \in {"new", "open", "broken", "refused"},
               faults' \in 0..MaxFaults, e \in ClientEvent
       PROVE  TypeOK'
  BY <1>11 DEF Complete, TypeOK, loop
<1>12. CASE CallStarts \/ CallRefused
  <2>1. /\ Complete("CONNECTED", TRUE) \/ Complete("CONNECTED", FALSE)
        /\ call' \in {"open", "refused"} /\ faults' \in 0..MaxFaults
    <3>1. CASE CallStarts
      BY <3>1 DEF CallStarts, TypeOK
    <3>2. CASE CallRefused
      <4>1. faults \in Nat /\ faults < MaxFaults /\ faults' = faults + 1
        BY <3>2 DEF CallRefused, TypeOK
      <4>2. faults' \in 0..MaxFaults
        BY <4>1
      <4> QED BY <3>2, <4>2 DEF CallRefused
    <3> QED BY <1>12, <3>1, <3>2
  <2> QED BY <1>11, <2>1 DEF ClientEvent
<1>13. CASE WriteSucceeds \/ HalfCloseSucceeds \/ ReadSucceeds
  BY <1>11, <1>13
     DEF WriteSucceeds, HalfCloseSucceeds, ReadSucceeds, TypeOK, ClientEvent
<1>14. CASE OperationFails \/ FinishCompletes
  BY <1>11, <1>14 DEF OperationFails, FinishCompletes, TypeOK, ClientEvent
<1>15. CASE ServerEndsCall \/ CallBreaks
  BY <1>15 DEF ServerEndsCall, CallBreaks, CallEnds, TypeOK, loop
<1>16. CASE ServerReads \/ ServerWrites
  <2>1. CASE ServerReads
    <3>1. toServer' \in Seq(Packets \cup {Ping})
      BY <2>1, TailFacts DEF ServerReads, TypeOK
    <3> QED BY <2>1, <3>1 DEF ServerReads, TypeOK, loop, bounds
  <2>2. CASE ServerWrites
    <3>1. pushed' \in Pushes
      BY <2>2 DEF ServerWrites, TypeOK, Pushes
    <3>2. toClient' \in Seq(Pushes)
      BY <2>2, <3>1 DEF ServerWrites, TypeOK
    <3> QED BY <2>2, <3>1, <3>2 DEF ServerWrites, TypeOK, loop, Pushes
  <2> QED BY <1>16, <2>1, <2>2
<1> QED
  BY <1>1, <1>2, <1>3, <1>4, <1>5, <1>6, <1>7, <1>8, <1>9, <1>10, <1>12,
     <1>13, <1>14, <1>15, <1>16 DEF Next, Loop, Grpc

LEMMA TailIn ==
  ASSUME NEW s \in Seq(Completion), s # <<>>, NEW e
  PROVE  /\ In(s, e) = {} => In(Tail(s), e) = {}
         /\ AtMostOne(s, e) => AtMostOne(Tail(s), e)
         /\ AtMostOne(s, e) /\ Head(s).event = e => In(Tail(s), e) = {}
<1>1. \A i \in In(Tail(s), e) : i \in 1..(Len(s) - 1) /\ i + 1 \in In(s, e)
  BY TailFacts DEF In
<1>2. Head(s).event = e => 1 \in In(s, e)
  BY TailFacts DEF In
<1>3. AtMostOne(s, e) => AtMostOne(Tail(s), e)
  BY <1>1 DEF AtMostOne
<1>4. AtMostOne(s, e) /\ Head(s).event = e => In(Tail(s), e) = {}
  <2> SUFFICES ASSUME AtMostOne(s, e), Head(s).event = e,
                      NEW i \in In(Tail(s), e)
               PROVE  FALSE
    OBVIOUS
  <2>1. i + 1 = 1 /\ i \in 1..(Len(s) - 1)
    BY <1>1, <1>2 DEF AtMostOne
  <2> QED BY <2>1
<1> QED BY <1>1, <1>3, <1>4

LEMMA AppendIn ==
  ASSUME NEW s \in Seq(Completion), NEW c \in Completion, NEW e
  PROVE  /\ In(s, e) = {} => AtMostOne(Append(s, c), e)
         /\ c.event # e =>
              /\ In(s, e) = {} => In(Append(s, c), e) = {}
              /\ AtMostOne(s, e) => AtMostOne(Append(s, c), e)
<1> DEFINE l == Append(s, c)
<1>1. \A i \in In(l, e) : i \in In(s, e) \/ (i = Len(s) + 1 /\ c.event = e)
  <2>1. /\ DOMAIN l = 1..(Len(s) + 1) /\ DOMAIN s = 1..Len(s)
        /\ Len(s) \in Nat
        /\ \A i \in 1..Len(s) : l[i] = s[i]
        /\ l[Len(s) + 1] = c
    OBVIOUS
  <2> HIDE DEF l, Completion
  <2> QED BY <2>1 DEF In
<1> HIDE DEF l
<1>2. /\ In(s, e) = {} => AtMostOne(l, e)
      /\ c.event # e => /\ In(s, e) = {} => In(l, e) = {}
                        /\ AtMostOne(s, e) => AtMostOne(l, e)
  BY <1>1 DEF AtMostOne
<1> QED BY <1>2 DEF l

(* The loop may leave rest in the queue and start the operations S. *)
Fits(rest, S) ==
  \A e \in ClientEvent :
    \/ ops[e] = 0 /\ e \notin S /\ AtMostOne(rest, e)
    \/ ops[e] = 0 /\ e \in S /\ In(rest, e) = {}
    \/ ops[e] = 1 /\ e \notin S /\ In(rest, e) = {}

LEMMA OneMeaning ==
  OneOfEach <=>
    \A e \in ClientEvent :
      \/ ops[e] = 0 /\ AtMostOne(cq, e)
      \/ ops[e] = 1 /\ In(cq, e) = {}
BY DEF OneOfEach, AtMostOne, Completed, In

LEMMA OneMeaningNext ==
  OneOfEach' <=>
    \A e \in ClientEvent :
      \/ ops'[e] = 0 /\ AtMostOne(cq', e)
      \/ ops'[e] = 1 /\ In(cq', e) = {}
BY DEF OneOfEach, AtMostOne, Completed, In

LEMMA FitsHere ==
  ASSUME TypeOK, OneOfEach, NEW S, \A e \in S : Nothing(e)
  PROVE  Fits(cq, S)
BY OneMeaning DEF Fits, Nothing

LEMMA FitsTail ==
  ASSUME TypeOK, OneOfEach, NEW event \in ClientEvent, cq # <<>>,
         Head(cq).event = event, NEW S,
         \A e \in S : e = event \/ Nothing(e)
  PROVE  /\ Tail(cq) \in Seq(Completion) /\ Fits(Tail(cq), S)
         /\ ops[event] = 0 /\ In(Tail(cq), event) = {}
         /\ \A e : In(cq, e) = {} => In(Tail(cq), e) = {}
<1>1. cq \in Seq(Completion)
  BY DEF TypeOK, Completion
<1>2. In(cq, event) # {}
  BY <1>1, TailFacts DEF In
<1>3. \A e : /\ In(cq, e) = {} => In(Tail(cq), e) = {}
             /\ AtMostOne(cq, e) => AtMostOne(Tail(cq), e)
             /\ AtMostOne(cq, e) /\ e = event => In(Tail(cq), e) = {}
  BY <1>1, TailIn
<1>4. ops[event] = 0 /\ AtMostOne(cq, event)
  BY <1>2, OneMeaning
<1>5. Fits(Tail(cq), S)
  BY <1>3, <1>4, OneMeaning DEF Fits, Nothing
<1> QED BY <1>1, <1>3, <1>4, <1>5, TailFacts

LEMMA OneStart ==
  ASSUME TypeOK, NEW rest \in Seq(Completion), NEW S, Fits(rest, S),
         Start(S), cq' = rest
  PROVE  OneOfEach'
BY OneMeaningNext DEF Fits, Start, TypeOK

LEMMA OneWrite ==
  ASSUME TypeOK, NEW rest \in Seq(Completion), NEW S, Fits(rest, S), NEW q,
         ops["WRITE_DONE"] = 0 /\ In(rest, "WRITE_DONE") = {},
         "WRITE_DONE" \notin S, Write(q, rest, S)
  PROVE  OneOfEach'
<1> DEFINE failed == [event |-> "WRITE_DONE", ok |-> FALSE]
<1>1. failed \in Completion
  BY DEF Completion, ClientEvent
<1>2. CASE closed
  <2>1. Start(S) /\ cq' = Append(rest, failed)
    BY <1>2 DEF Write
  <2>2. Append(rest, failed) \in Seq(Completion)
    BY <1>1
  <2>3. Fits(Append(rest, failed), S)
    BY <1>1, AppendIn DEF Fits
  <2> QED BY <2>1, <2>2, <2>3, OneStart
<1>3. CASE ~closed
  <2>1. Start(S \cup {"WRITE_DONE"}) /\ cq' = rest
    BY <1>3 DEF Write
  <2>2. Fits(rest, S \cup {"WRITE_DONE"})
    BY DEF Fits
  <2> QED BY <2>1, <2>2, OneStart
<1> QED BY <1>2, <1>3

LEMMA OneSend ==
  ASSUME TypeOK, NEW rest \in Seq(Completion), NEW S, Fits(rest, S), NEW q,
         status = "READY_TO_WRITE" =>
           ops["WRITE_DONE"] = 0 /\ In(rest, "WRITE_DONE") = {},
         "WRITE_DONE" \notin S, SendMsgs(q, rest, S)
  PROVE  OneOfEach'
<1>1. CASE status = "READY_TO_WRITE" /\ q # <<>>
  BY <1>1, OneWrite DEF SendMsgs
<1>2. CASE ~(status = "READY_TO_WRITE" /\ q # <<>>)
  BY <1>2, OneStart DEF SendMsgs
<1> QED BY <1>1, <1>2

LEMMA OneFinish ==
  ASSUME TypeOK, FinishInv, pc = "next", NEW rest \in Seq(Completion),
         Fits(rest, {}), In(cq, "FINISHED") = {} => In(rest, "FINISHED") = {},
         Finish(rest)
  PROVE  OneOfEach'
<1>1. CASE status \in {"WAIT_CONNECT", "FINISHED"}
  BY <1>1, OneMeaningNext DEF Finish, Fits
<1>2. CASE status \notin {"WAIT_CONNECT", "FINISHED"}
  <2>1. Start({"FINISHED"}) /\ cq' = rest
    BY <1>2 DEF Finish
  <2>2. Fits(rest, {"FINISHED"})
    BY <1>2 DEF Fits, FinishInv, Nothing
  <2> QED BY <2>1, <2>2, OneStart
<1> QED BY <1>1, <1>2

LEMMA OneComplete ==
  ASSUME TypeOK, OneOfEach, NEW event \in ClientEvent, NEW b \in BOOLEAN,
         Complete(event, b)
  PROVE  /\ OneOfEach' /\ ops[event] = 1 /\ In(cq, event) = {}
         /\ \A e : e # event /\ In(cq, e) = {} => In(cq', e) = {}
         /\ \A e \in ClientEvent \ {event} : ops'[e] = ops[e]
<1> DEFINE c == [event |-> event, ok |-> b]
<1>1. /\ ops[event] > 0 /\ ops' = [ops EXCEPT ![event] = @ - 1]
      /\ cq' = Append(cq, c)
  BY DEF Complete
<1>2. c \in Completion /\ cq \in Seq(Completion)
  BY DEF Completion, TypeOK
<1>3. ops[event] = 1 /\ In(cq, event) = {} /\ ops'[event] = 0
  BY <1>1, OneMeaning DEF TypeOK
<1>4. \A e \in ClientEvent \ {event} : ops'[e] = ops[e]
  BY <1>1 DEF TypeOK
<1>5. \A e : /\ e # event /\ In(cq, e) = {} => In(cq', e) = {}
             /\ e # event /\ AtMostOne(cq, e) => AtMostOne(cq', e)
             /\ e = event => AtMostOne(cq', e)
  BY <1>1, <1>2, <1>3, AppendIn
<1> QED BY <1>3, <1>4, <1>5, OneMeaning, OneMeaningNext

-----------------------------------------------------------------------------
(* The steps, by what they leave of the queue and what they start. *)

FailedWrite == [event |-> "WRITE_DONE", ok |-> FALSE]

(* A handler leaves rest, and starts S besides a write. *)
Leaves(rest, S) ==
  /\ UNCHANGED <<call, closed, destroy>>
  /\ \A e \in ClientEvent \ {"WRITE_DONE"} :
       ops'[e] = ops[e] + IF e \in S THEN 1 ELSE 0
  /\ \/ cq' = rest /\ (closed => ops'["WRITE_DONE"] = ops["WRITE_DONE"])
     \/ /\ cq' = Append(rest, FailedWrite) /\ closed
        /\ ops["WRITE_DONE"] = 0 /\ ops'["WRITE_DONE"] = 0

(* An operation completes. *)
Completes(event, b) ==
  /\ Complete(event, b)
  /\ b \/ call' \in {"broken", "refused"}
  /\ event # "CONNECTED" =>
       call' = call /\ (b => event = "FINISHED" \/ call = "open")
  /\ event = "HALF_CLOSE" /\ b => ops["WRITE_DONE"] = 0
  /\ event = "FINISHED" => \A e \in ClientEvent \ {event} : ops[e] = 0
  /\ event = "READ_DONE" /\ b => toClient # <<>>

(* The other threads, the server and the network. *)
Quiet ==
  /\ UNCHANGED <<loop, ops, cq, closed>>
  /\ call' = call \/ call' = "broken"
  /\ toClient # <<>> => toClient' # <<>>
  /\ destroy' = destroy \/ (destroy = "join" /\ destroy' = "done")

LEMMA StepKinds ==
  ASSUME TypeOK, Next, ~Loop, ~Destroy
  PROVE  \/ Quiet
         \/ \E event \in ClientEvent, b \in BOOLEAN : Completes(event, b)
<1>1. CASE Send \/ Joined \/ ServerReads
  BY <1>1 DEF Send, Joined, ServerReads, Quiet, grpc, loop
<1>10. CASE ServerWrites
  <2>1. toClient' # <<>>
    <3>1. toClient \in Seq(Pushes) /\ toClient' = Append(toClient, pushed')
      BY <1>10 DEF ServerWrites, TypeOK
    <3> QED BY <3>1, NonEmptyAppend
  <2> QED BY <1>10, <2>1 DEF ServerWrites, Quiet, loop
<1>2. CASE ServerEndsCall \/ CallBreaks
  BY <1>2 DEF ServerEndsCall, CallBreaks, CallEnds, Quiet
<1>3. CASE CallStarts
  <2>1. Completes("CONNECTED", TRUE)
    BY <1>3 DEF CallStarts, Completes
  <2> QED BY <2>1 DEF ClientEvent
<1>4. CASE CallRefused
  <2>1. Completes("CONNECTED", FALSE)
    BY <1>4 DEF CallRefused, Completes
  <2> QED BY <2>1 DEF ClientEvent
<1>5. CASE WriteSucceeds
  <2>1. Completes("WRITE_DONE", TRUE)
    BY <1>5 DEF WriteSucceeds, Completes
  <2> QED BY <2>1 DEF ClientEvent
<1>6. CASE HalfCloseSucceeds
  <2>1. Completes("HALF_CLOSE", TRUE)
    BY <1>6 DEF HalfCloseSucceeds, Completes
  <2> QED BY <2>1 DEF ClientEvent
<1>7. CASE ReadSucceeds
  <2>1. Completes("READ_DONE", TRUE)
    BY <1>7 DEF ReadSucceeds, Completes
  <2> QED BY <2>1 DEF ClientEvent
<1>8. CASE OperationFails
  <2>1. PICK event \in {"READ_DONE", "WRITE_DONE", "HALF_CLOSE"} :
          Complete(event, FALSE)
    BY <1>8 DEF OperationFails
  <2>2. Completes(event, FALSE)
    BY <1>8, <2>1 DEF OperationFails, Completes
  <2> QED BY <2>2 DEF ClientEvent
<1>9. CASE FinishCompletes
  <2>1. Completes("FINISHED", TRUE)
    BY <1>9 DEF FinishCompletes, Completes
  <2> QED BY <2>1 DEF ClientEvent
<1> QED
  BY <1>1, <1>2, <1>3, <1>4, <1>5, <1>6, <1>7, <1>8, <1>9, <1>10
     DEF Next, Grpc

LEMMA WriteLeaves ==
  ASSUME TypeOK, ops["WRITE_DONE"] = 0,
         NEW q, NEW rest, NEW S, "WRITE_DONE" \notin S,
         Write(q, rest, S), UNCHANGED <<call, closed, destroy>>
  PROVE  Leaves(rest, S)
<1>1. \A e \in ClientEvent \ {"WRITE_DONE"} :
        ops'[e] = ops[e] + IF e \in S THEN 1 ELSE 0
  <2>1. Start(S) \/ Start(S \cup {"WRITE_DONE"})
    BY DEF Write
  <2> QED BY <2>1 DEF Start
<1>2. CASE closed
  <2>1. Start(S) /\ cq' = Append(rest, FailedWrite)
    BY <1>2 DEF Write, FailedWrite
  <2>2. ops'["WRITE_DONE"] = ops["WRITE_DONE"]
    BY <2>1 DEF Start, TypeOK, ClientEvent
  <2> QED BY <1>1, <1>2, <2>1, <2>2 DEF Leaves
<1>3. CASE ~closed
  <2>1. cq' = rest
    BY <1>3 DEF Write
  <2> QED BY <1>1, <1>3, <2>1 DEF Leaves
<1> QED BY <1>2, <1>3

LEMMA SendLeaves ==
  ASSUME TypeOK, status = "READY_TO_WRITE" => ops["WRITE_DONE"] = 0,
         NEW q, NEW rest, NEW S, "WRITE_DONE" \notin S,
         SendMsgs(q, rest, S), UNCHANGED <<call, closed, destroy>>
  PROVE  /\ Leaves(rest, S)
         /\ status' = status
              \/ (status = "READY_TO_WRITE" /\ status' = "WAIT_WRITE_DONE")
<1>1. CASE status = "READY_TO_WRITE" /\ q # <<>>
  <2>1. Write(q, rest, S)
    BY <1>1 DEF SendMsgs
  <2> QED BY <1>1, <2>1, WriteLeaves DEF Write
<1>2. CASE ~(status = "READY_TO_WRITE" /\ q # <<>>)
  BY <1>2 DEF SendMsgs, Leaves, Start, TypeOK, ClientEvent
<1> QED BY <1>1, <1>2

LEMMA FinishLeaves ==
  ASSUME TypeOK, NEW rest, Finish(rest), UNCHANGED <<call, closed, destroy>>
  PROVE  \/ /\ status \in {"WAIT_CONNECT", "FINISHED"}
            /\ status' = status /\ Leaves(rest, {})
         \/ /\ status \notin {"WAIT_CONNECT", "FINISHED"}
            /\ status' = "FINISHED" /\ Leaves(rest, {"FINISHED"})
BY DEF Finish, Leaves, Start, TypeOK, ClientEvent

LEMMA LeavesNothing ==
  ASSUME NEW rest \in Seq(Completion), NEW S, Leaves(rest, S),
         NEW e \in ClientEvent, e \notin S, e # "WRITE_DONE",
         ops[e] = 0, In(rest, e) = {}
  PROVE  Nothing(e)'
<1>1. ops'[e] = 0 + 0
  BY DEF Leaves
<1>2. FailedWrite \in Completion /\ FailedWrite.event # e
  BY DEF FailedWrite, Completion, ClientEvent
<1>3. In(cq', e) = {}
  BY <1>2, AppendIn DEF Leaves
<1> QED BY <1>1, <1>3 DEF Nothing, In

LEMMA LeavesWrites ==
  ASSUME NEW rest, NEW S, Leaves(rest, S), WritesOver
  PROVE  WritesOver'
BY DEF Leaves, WritesOver

LEMMA LeavesOver ==
  ASSUME NEW rest \in Seq(Completion), NEW S, Leaves(rest, S),
         NEW k, Over(rest, k)
  PROVE  Over(cq, k)'
<1> SUFFICES ASSUME NEW j \in DOMAIN cq', j > k, cq'[j].ok,
                    cq'[j].event # "FINISHED"
             PROVE  closed' /\ cq'[j].event # "WRITE_DONE"
  BY DEF Over
<1>1. closed' = closed
  BY DEF Leaves
<1>2. CASE cq' = rest
  BY <1>1, <1>2 DEF Over
<1>3. CASE cq' = Append(rest, FailedWrite)
  <2> DEFINE l == Append(rest, FailedWrite)
  <2>1. /\ DOMAIN l = 1..(Len(rest) + 1) /\ DOMAIN rest = 1..Len(rest)
        /\ Len(rest) \in Nat
        /\ \A i \in 1..Len(rest) : l[i] = rest[i]
        /\ l[Len(rest) + 1] = FailedWrite
    OBVIOUS
  <2> HIDE DEF l, Completion
  <2>2. FailedWrite.ok = FALSE
    BY DEF FailedWrite
  <2>3. j \in 1..Len(rest) /\ cq'[j] = rest[j]
    BY <1>3, <2>1, <2>2 DEF l
  <2> QED BY <1>1, <2>1, <2>3 DEF Over
<1> QED BY <1>2, <1>3 DEF Leaves

LEMMA TailOver ==
  ASSUME NEW s \in Seq(Completion), s # <<>>, NEW k \in Nat, Over(s, k + 1)
  PROVE  Over(Tail(s), k)
<1> HIDE DEF Completion
<1> SUFFICES ASSUME NEW j \in 1..(Len(s) - 1), j > k, s[j + 1].ok,
                    s[j + 1].event # "FINISHED"
             PROVE  closed /\ s[j + 1].event # "WRITE_DONE"
  BY TailFacts DEF Over
<1>1. j + 1 \in DOMAIN s /\ j + 1 > k + 1
  BY TailFacts
<1> QED BY <1>1 DEF Over

LEMMA LeavesDead ==
  ASSUME TypeOK, DeadInv, NEW rest \in Seq(Completion), NEW S, Leaves(rest, S),
         rest = cq \/ (cq # <<>> /\ rest = Tail(cq))
  PROVE  \A i \in DOMAIN cq' :
           ~cq'[i].ok \/ cq'[i].event = "HALF_CLOSE" =>
             Over(cq, i)' /\ WritesOver'
<1> SUFFICES ASSUME NEW i \in DOMAIN cq',
                    ~cq'[i].ok \/ cq'[i].event = "HALF_CLOSE"
             PROVE  Over(cq, i)' /\ WritesOver'
  OBVIOUS
<1>1. cq \in Seq(Completion) /\ DOMAIN rest = 1..Len(rest) /\ Len(rest) \in Nat
  BY DEF TypeOK, Completion
<1>2. ASSUME NEW k \in DOMAIN rest,
             ~rest[k].ok \/ rest[k].event = "HALF_CLOSE"
      PROVE  Over(rest, k) /\ WritesOver
  <2>1. CASE rest = cq
    BY <1>2, <2>1 DEF DeadInv
  <2>2. CASE cq # <<>> /\ rest = Tail(cq)
    <3>1. k \in Nat /\ k + 1 \in DOMAIN cq /\ cq[k + 1] = rest[k]
      BY <1>1, <2>2, TailFacts
    <3>2. Over(cq, k + 1) /\ WritesOver
      BY <1>2, <3>1 DEF DeadInv
    <3> QED BY <1>1, <2>2, <3>1, <3>2, TailOver
  <2> QED BY <2>1, <2>2
<1>3. CASE i \in DOMAIN rest /\ cq'[i] = rest[i]
  BY <1>2, <1>3, LeavesOver, LeavesWrites
<1>4. CASE cq' = Append(rest, FailedWrite) /\ i = Len(rest) + 1
  <2>1. Over(cq, i)'
    BY <1>1, <1>4 DEF Over
  <2>2. WritesOver'
    <3>1. Append(rest, FailedWrite) # rest
      BY AppendFacts
    <3>2. closed' /\ ops'["WRITE_DONE"] = 0
      BY <1>4, <3>1 DEF Leaves
    <3> QED BY <3>2 DEF WritesOver
  <2> QED BY <2>1, <2>2
<1>5. CASE cq' = rest
  BY <1>3, <1>5
<1>6. CASE cq' = Append(rest, FailedWrite)
  BY <1>1, <1>3, <1>4, <1>6
<1> QED BY <1>5, <1>6 DEF Leaves

LEMMA LeavesOld ==
  ASSUME NEW rest \in Seq(Completion), NEW S, Leaves(rest, S)
  PROVE  \A j \in DOMAIN cq' :
           cq'[j] = FailedWrite \/ (j \in DOMAIN rest /\ cq'[j] = rest[j])
<1>1. CASE cq' = rest
  BY <1>1
<1>2. CASE cq' = Append(rest, FailedWrite)
  BY <1>2
<1> QED BY <1>1, <1>2 DEF Leaves

(* A step of the loop that stays with its stream. *)
LEMMA StreamStep ==
  ASSUME IInv, TypeOK', pc = "next", pc' = "next",
         status' # "WAIT_CONNECT",
         NEW rest \in Seq(Completion),
         NEW S, S \subseteq {"READ_DONE", "FINISHED"},
         rest = cq \/ (cq # <<>> /\ rest = Tail(cq)),
         Leaves(rest, S),
         ops["CONNECTED"] = 0 /\ In(rest, "CONNECTED") = {},
         \/ status = "FINISHED" /\ status' = "FINISHED" /\ "FINISHED" \notin S
         \/ status # "FINISHED" /\ ("FINISHED" \in S => status' = "FINISHED"),
         status' = "READY_TO_WRITE" =>
           ops'["WRITE_DONE"] = 0 /\ In(cq', "WRITE_DONE") = {},
         status' = "FINISHED" \/ ~ok' => Over(rest, 0) /\ WritesOver,
         destroy = "none" /\ In(rest, "FINISHED") # {} =>
           cq' = rest /\ ops' = ops,
         toClient' = toClient \/ In(rest, "READ_DONE") = {}
  PROVE  /\ FreshStreamAlone' /\ ReadInv' /\ ConnectingInv' /\ WritingInv'
         /\ FinishInv' /\ LastInv' /\ ClosedInv' /\ DeadInv'
<1> USE DEF IInv
<1>1. FreshStreamAlone'
  BY DEF FreshStreamAlone
<1>2. cq \in Seq(Completion)
  BY DEF TypeOK, Completion
<1>3. \A e : In(cq, e) = {} => In(rest, e) = {}
  BY <1>2, TailIn
<1>4. ASSUME NEW e \in ClientEvent, e \notin S, e # "WRITE_DONE", Nothing(e)
      PROVE  Nothing(e)'
  BY <1>3, <1>4, LeavesNothing DEF Nothing
<1>5. ReadInv'
  <2> SUFFICES ASSUME NEW j \in DOMAIN cq', cq'[j].event = "READ_DONE",
                      cq'[j].ok
               PROVE  toClient' # <<>>
    BY DEF ReadInv, Completed
  <2>1. j \in DOMAIN rest /\ rest[j] = cq'[j]
    <3>1. ~FailedWrite.ok
      BY DEF FailedWrite
    <3>2. cq'[j] # FailedWrite
      BY <3>1
    <3> QED BY <3>2, LeavesOld
  <2>2. j \in In(rest, "READ_DONE") /\ toClient' = toClient
    BY <2>1 DEF In
  <2>3. PICK k \in DOMAIN cq : cq[k] = cq'[j]
    <3>1. CASE rest = cq
      BY <2>1, <3>1
    <3>2. CASE cq # <<>> /\ rest = Tail(cq)
      <4>1. j + 1 \in DOMAIN cq /\ cq[j + 1] = rest[j]
        BY <1>2, <2>1, <3>2, TailFacts
      <4> QED BY <2>1, <4>1
    <3> QED BY <3>1, <3>2
  <2> QED BY <2>2, <2>3 DEF ReadInv, Completed
<1>6. Nothing("CONNECTED")'
  <2>1. "CONNECTED" \in ClientEvent
    BY DEF ClientEvent
  <2> QED BY <2>1, LeavesNothing
<1>7. ConnectingInv'
  BY <1>6 DEF ConnectingInv, Connecting, Nothing
<1>8. WritingInv'
  BY DEF WritingInv, Nothing, In
<1>9. FinishInv'
  <2>1. status' # "FINISHED" => Nothing("FINISHED")'
    BY <1>4 DEF FinishInv, ClientEvent
  <2>2. destroy' = destroy
    BY DEF Leaves
  <2> QED BY <2>1 DEF FinishInv
<1>10. LastInv'
  <2> SUFFICES ASSUME destroy' = "none", NEW j \in DOMAIN cq',
                      cq'[j].event = "FINISHED"
               PROVE  j = Len(cq') /\ \A e \in ClientEvent : ops'[e] = 0
    BY DEF LastInv, In
  <2>1. destroy = "none"
    BY DEF Leaves
  <2>2. j \in In(rest, "FINISHED")
    <3>1. FailedWrite.event # "FINISHED"
      BY DEF FailedWrite
    <3>2. cq'[j] # FailedWrite
      BY <3>1
    <3> QED BY <3>2, LeavesOld DEF In
  <2>3. cq' = rest /\ ops' = ops
    BY <2>1, <2>2
  <2>4. CASE rest = cq
    BY <2>1, <2>2, <2>3, <2>4 DEF LastInv
  <2>5. CASE cq # <<>> /\ rest = Tail(cq)
    <3>1. j \in Nat /\ j + 1 \in DOMAIN cq /\ cq[j + 1] = rest[j]
      BY <1>2, <2>2, <2>5, TailFacts DEF In
    <3>2. j + 1 \in In(cq, "FINISHED")
      BY <2>2, <3>1 DEF In
    <3>3. j + 1 = Len(cq) /\ \A e \in ClientEvent : ops[e] = 0
      BY <2>1, <3>2 DEF LastInv
    <3>4. j + 1 = Len(cq)
      BY <3>3
    <3>5. Len(rest) \in Nat /\ Len(cq) = Len(rest) + 1
      BY <1>2, <2>5, TailFacts
    <3>6. j = Len(rest)
      BY <3>1, <3>4, <3>5
    <3> QED BY <2>3, <3>3, <3>6
  <2> QED BY <2>4, <2>5
<1>11. ClosedInv'
  <2>1. closed' = closed /\ destroy' = destroy
    BY DEF Leaves
  <2>2. ~closed => Nothing("HALF_CLOSE")'
    BY <1>4 DEF ClosedInv, ClientEvent
  <2> QED BY <2>1, <2>2 DEF ClosedInv
<1>12. DeadInv'
  <2>1. status' = "FINISHED" \/ ~ok' => Over(cq, 0)' /\ WritesOver'
    BY LeavesOver, LeavesWrites
  <2> QED BY <2>1, LeavesDead DEF DeadInv
<1> QED
  BY <1>1, <1>5, <1>7, <1>8, <1>9, <1>10, <1>11, <1>12

-----------------------------------------------------------------------------
(* Each step preserves what TypeStep leaves. *)

Rest ==
  /\ OneOfEach /\ FreshStreamAlone /\ ReadInv /\ ConnectingInv /\ WritingInv
  /\ FinishInv /\ LastInv /\ ClosedInv /\ DeadInv

(* What a handler knows of the event it got. *)
LEMMA GotFacts ==
  ASSUME IInv, NEW event \in ClientEvent, GotEvent(event)
  PROVE  /\ pc = "next" /\ cq # <<>> /\ 1 \in DOMAIN cq /\ cq[1] = Head(cq)
         /\ Head(cq).event = event /\ ok' = Head(cq).ok
         /\ UNCHANGED <<destroy, call, closed>>
         /\ Tail(cq) \in Seq(Completion)
         /\ ops[event] = 0 /\ ~Nothing(event)
         /\ \A e : e = event \/ In(cq, e) = {} => In(Tail(cq), e) = {}
         /\ \A S : (\A e \in S : e = event \/ Nothing(e)) => Fits(Tail(cq), S)
         /\ ~Head(cq).ok \/ event = "HALF_CLOSE" =>
              Over(Tail(cq), 0) /\ WritesOver
         /\ Over(cq, 0) => Over(Tail(cq), 0)
<1> USE DEF IInv
<1>1. /\ pc = "next" /\ cq # <<>> /\ Head(cq).event = event
      /\ ok' = Head(cq).ok /\ UNCHANGED <<destroy, call, closed>>
  BY DEF GotEvent
<1>2. cq \in Seq(Completion) /\ 1 \in DOMAIN cq /\ cq[1] = Head(cq)
  BY <1>1, TailFacts DEF TypeOK, Completion
<1>3. ~Nothing(event)
  BY <1>1, <1>2 DEF Nothing, In
<1>4. Over(cq, 1) => Over(Tail(cq), 0)
  <2>1. Over(cq, 0 + 1) => Over(Tail(cq), 0)
    BY <1>1, <1>2, TailOver
  <2> QED BY <2>1
<1>5. Over(cq, 0) => Over(cq, 1)
  BY <1>2 DEF Over
<1>6. ~Head(cq).ok \/ event = "HALF_CLOSE" => Over(cq, 1) /\ WritesOver
  BY <1>1, <1>2 DEF DeadInv
<1>7. ASSUME NEW S, \A e \in S : e = event \/ Nothing(e)
      PROVE  /\ Tail(cq) \in Seq(Completion) /\ Fits(Tail(cq), S)
             /\ ops[event] = 0 /\ In(Tail(cq), event) = {}
             /\ \A e : In(cq, e) = {} => In(Tail(cq), e) = {}
  BY <1>1, <1>7, FitsTail
<1>8. /\ Tail(cq) \in Seq(Completion) /\ Fits(Tail(cq), {})
      /\ ops[event] = 0 /\ In(Tail(cq), event) = {}
      /\ \A e : In(cq, e) = {} => In(Tail(cq), e) = {}
  BY <1>7
<1>9. \A S : (\A e \in S : e = event \/ Nothing(e)) => Fits(Tail(cq), S)
  BY <1>7
<1> QED BY <1>1, <1>2, <1>3, <1>4, <1>5, <1>6, <1>8, <1>9

LEMMA CreateStep ==
  ASSUME IInv, TypeOK', CreateStream
  PROVE  Rest'
<1>1. /\ cq = <<>> /\ cq' = <<>> /\ \A e \in ClientEvent : ops[e] = 0
      /\ pc' = "next" /\ status' = "WAIT_CONNECT" /\ closed' = FALSE
      /\ Start({"CONNECTED"}) /\ UNCHANGED <<destroy, ok>>
  BY DEF CreateStream, IInv, FreshStreamAlone
<1>2. \A e : In(cq', e) = {} /\ AtMostOne(cq', e)
  BY <1>1 DEF In, AtMostOne
<1>3. \A e \in ClientEvent : ops'[e] = IF e = "CONNECTED" THEN 1 ELSE 0
  BY <1>1 DEF Start
<1>4. \A e \in ClientEvent \ {"CONNECTED"} : Nothing(e)'
  BY <1>2, <1>3 DEF Nothing
<1>5. OneOfEach'
  BY <1>2, <1>3, OneMeaningNext
<1>6. ConnectingInv'
  BY <1>1, <1>4 DEF ConnectingInv, Connecting
<1>7. WritingInv' /\ FinishInv' /\ ClosedInv'
  BY <1>1, <1>4 DEF WritingInv, FinishInv, ClosedInv, ClientEvent
<1>8. LastInv' /\ ReadInv' /\ FreshStreamAlone'
  BY <1>1, <1>2 DEF LastInv, ReadInv, Completed, FreshStreamAlone, In
<1>9. DeadInv'
  BY <1>1 DEF DeadInv, Connecting
<1> QED BY <1>5, <1>6, <1>7, <1>8, <1>9 DEF Rest

LEMMA TimeoutStep ==
  ASSUME IInv, TypeOK', Timeout
  PROVE  Rest'
<1> USE DEF IInv
<1>1. /\ pc = "next" /\ pc' = "next" /\ ok' = ok
      /\ UNCHANGED <<destroy, call, closed, toClient>>
  BY DEF Timeout
<1>2. cq \in Seq(Completion)
  BY DEF TypeOK, Completion
<1>3. status # "WAIT_CONNECT"
  BY DEF Timeout, IsConnected, IsReadyToSend
<1>4. ops["CONNECTED"] = 0 /\ In(cq, "CONNECTED") = {}
  BY <1>1, <1>3 DEF ConnectingInv, Connecting, Nothing
<1>5. Fits(cq, {})
  BY FitsHere
<1>6. CASE ~ok /\ IsConnected
  <2>1. Finish(cq)
    BY <1>6 DEF Timeout
  <2>2. OneOfEach'
    BY <1>1, <1>2, <1>5, <2>1, OneFinish
  <2>3. Over(cq, 0) /\ WritesOver
    BY <1>1, <1>3, <1>6 DEF DeadInv, Connecting
  <2>4. cq' = cq
    BY <2>1 DEF Finish
  <2>5. CASE status = "FINISHED"
    <3>1. status' = "FINISHED" /\ Leaves(cq, {}) /\ ops' = ops
      BY <1>1, <2>1, <2>5, FinishLeaves DEF Finish
    <3> QED BY <1>1, <1>2, <1>4, <2>2, <2>3, <2>4, <2>5, <3>1, StreamStep
            DEF Rest
  <2>6. CASE status # "FINISHED"
    <3>1. status' = "FINISHED" /\ Leaves(cq, {"FINISHED"})
      BY <1>1, <1>3, <2>1, <2>6, FinishLeaves
    <3>2. In(cq, "FINISHED") = {}
      BY <1>1, <2>6 DEF FinishInv, Nothing
    <3> QED BY <1>1, <1>2, <1>4, <2>2, <2>3, <2>6, <3>1, <3>2, StreamStep
            DEF Rest
  <2> QED BY <2>5, <2>6
<1>7. CASE ~(~ok /\ IsConnected)
  <2>1. PICK q \in Queues : SendMsgs(q, cq, {})
    BY <1>7 DEF Timeout
  <2>2. status \in {"READY_TO_WRITE", "WAIT_WRITE_DONE"} /\ ok
    BY <1>3, <1>7 DEF Timeout, IsReadyToSend, IsConnected
  <2>3. status = "READY_TO_WRITE" => Nothing("WRITE_DONE")
    BY <1>1 DEF WritingInv
  <2>4. OneOfEach'
    BY <1>2, <1>5, <2>1, <2>3, OneSend DEF Nothing
  <2>5. /\ Leaves(cq, {})
        /\ status' = status
             \/ (status = "READY_TO_WRITE" /\ status' = "WAIT_WRITE_DONE")
    BY <1>1, <2>1, <2>3, SendLeaves DEF Nothing
  <2>6. status' = "READY_TO_WRITE" =>
          ops'["WRITE_DONE"] = 0 /\ In(cq', "WRITE_DONE") = {}
    BY <2>1, <2>2, <2>3 DEF SendMsgs, Write, Start, Nothing, ClientEvent
  <2>7. In(cq, "FINISHED") = {}
    BY <1>1, <2>2 DEF FinishInv, Nothing
  <2> QED BY <1>1, <1>2, <1>4, <2>2, <2>4, <2>5, <2>6, <2>7, StreamStep DEF Rest
<1> QED BY <1>6, <1>7

LEMMA ConnectedStep ==
  ASSUME IInv, TypeOK', Connected
  PROVE  Rest'
<1> USE DEF IInv
<1>1. /\ GotEvent("CONNECTED") /\ "CONNECTED" \in ClientEvent
      /\ pc' = pc /\ status' = "READY_TO_WRITE" /\ cq' = Tail(cq)
      /\ Start({"READ_DONE"}) /\ toClient' = toClient
  BY DEF Connected, ClientEvent
<1>2. Connecting
  BY <1>1, GotFacts DEF ConnectingInv
<1>3. \A e \in {"READ_DONE", "WRITE_DONE", "FINISHED"} : Nothing(e)
  BY <1>2 DEF ConnectingInv, ClientEvent
<1>4. Leaves(Tail(cq), {"READ_DONE"}) /\ ops'["WRITE_DONE"] = 0
  BY <1>1, <1>3, GotFacts DEF Leaves, Start, Nothing, TypeOK, ClientEvent
<1>5. OneOfEach'
  BY <1>1, <1>3, GotFacts, OneStart
<1>6. /\ In(Tail(cq), "CONNECTED") = {} /\ In(Tail(cq), "WRITE_DONE") = {}
      /\ In(Tail(cq), "FINISHED") = {}
  BY <1>1, <1>3, GotFacts DEF Nothing
<1>7. ~ok' => Over(Tail(cq), 0) /\ WritesOver
  BY <1>1, GotFacts
<1>8. status # "FINISHED" /\ pc = "next" /\ pc' = "next" /\ ops["CONNECTED"] = 0
      /\ Tail(cq) \in Seq(Completion) /\ cq # <<>>
  BY <1>1, <1>2, GotFacts DEF Connecting
<1>9. status' # "FINISHED" /\ status' # "WAIT_CONNECT"
  BY <1>1
<1> QED BY <1>1, <1>4, <1>5, <1>6, <1>7, <1>8, <1>9, StreamStep DEF Rest

(* Every event but CONNECTED finds the stream connected. *)
LEMMA NotConnecting ==
  ASSUME IInv, NEW event \in ClientEvent \ {"CONNECTED"}, GotEvent(event)
  PROVE  /\ status # "WAIT_CONNECT" /\ ops["CONNECTED"] = 0
         /\ In(Tail(cq), "CONNECTED") = {}
<1>1. pc = "next" /\ ~Nothing(event) /\ ~(event = "CONNECTED")
  BY GotFacts
<1>2. status # "WAIT_CONNECT"
  BY <1>1 DEF IInv, ConnectingInv, Connecting
<1>3. Nothing("CONNECTED")
  BY <1>1, <1>2 DEF IInv, ConnectingInv, Connecting
<1> QED BY <1>2, <1>3, GotFacts DEF Nothing

(* While a read or a write succeeds, the stream does not finish unnoticed. *)
LEMMA ServingEvent ==
  ASSUME IInv, NEW event \in {"READ_DONE", "WRITE_DONE"}, GotEvent(event),
         Head(cq).ok, status = "FINISHED"
  PROVE  event = "READ_DONE" /\ destroy # "none"
<1>1. pc = "next" /\ 1 \in DOMAIN cq /\ cq[1].event = event /\ cq[1].ok
  BY GotFacts DEF ClientEvent
<1>2. Over(cq, 0)
  BY <1>1 DEF IInv, DeadInv
<1>3. closed /\ event # "WRITE_DONE"
  BY <1>1, <1>2 DEF Over
<1> QED BY <1>3 DEF IInv, ClosedInv

LEMMA ReadDoneStep ==
  ASSUME IInv, TypeOK', ReadDone
  PROVE  Rest'
<1> USE DEF IInv
<1>1. /\ GotEvent("READ_DONE") /\ "READ_DONE" \in ClientEvent
      /\ Head(cq).ok /\ pc' = pc
  BY DEF ReadDone, ClientEvent
<1>2. PICK q \in Queues : SendMsgs(q, Tail(cq), {"READ_DONE"})
  BY DEF ReadDone
<1>3. /\ pc = "next" /\ pc' = "next" /\ cq # <<>> /\ ok'
      /\ UNCHANGED <<destroy, call, closed>>
      /\ Tail(cq) \in Seq(Completion) /\ In(Tail(cq), "READ_DONE") = {}
      /\ Fits(Tail(cq), {"READ_DONE"})
      /\ \A e : In(cq, e) = {} => In(Tail(cq), e) = {}
      /\ Over(cq, 0) => Over(Tail(cq), 0)
  BY <1>1, GotFacts
<1>4. /\ status # "WAIT_CONNECT" /\ ops["CONNECTED"] = 0
      /\ In(Tail(cq), "CONNECTED") = {}
  BY <1>1, NotConnecting
<1>5. status = "READY_TO_WRITE" =>
        ops["WRITE_DONE"] = 0 /\ In(Tail(cq), "WRITE_DONE") = {}
  BY <1>3 DEF WritingInv, Nothing
<1>6. OneOfEach'
  BY <1>2, <1>3, <1>5, OneSend
<1>7. /\ Leaves(Tail(cq), {"READ_DONE"})
      /\ status' = status
           \/ (status = "READY_TO_WRITE" /\ status' = "WAIT_WRITE_DONE")
  BY <1>2, <1>3, <1>5, SendLeaves
<1>8. status' = "READY_TO_WRITE" =>
        ops'["WRITE_DONE"] = 0 /\ In(cq', "WRITE_DONE") = {}
  <2> SUFFICES ASSUME status' = "READY_TO_WRITE"
               PROVE  ops'["WRITE_DONE"] = 0 /\ In(cq', "WRITE_DONE") = {}
    OBVIOUS
  <2>1. status = "READY_TO_WRITE"
    BY <1>7
  <2>2. cq' = Tail(cq) /\ Start({"READ_DONE"})
    BY <1>2 DEF SendMsgs, Write
  <2>3. ops'["WRITE_DONE"] = ops["WRITE_DONE"]
    BY <2>2 DEF Start, TypeOK, ClientEvent
  <2> QED BY <1>5, <2>1, <2>2, <2>3
<1>9. status = "FINISHED" => destroy # "none"
  BY <1>1, ServingEvent
<1>10. In(Tail(cq), "FINISHED") # {} => status = "FINISHED"
  BY <1>3 DEF FinishInv, Nothing
<1>11. status' = "FINISHED" => Over(Tail(cq), 0) /\ WritesOver
  BY <1>3, <1>7 DEF DeadInv
<1>12. status = "FINISHED" => status' = "FINISHED"
  BY <1>7
<1>13. status' # "WAIT_CONNECT"
  BY <1>4, <1>7
<1> QED BY <1>3, <1>4, <1>6, <1>7, <1>8, <1>9, <1>10, <1>11, <1>12, <1>13,
           StreamStep DEF Rest

LEMMA WriteDoneStep ==
  ASSUME IInv, TypeOK', WriteDone
  PROVE  Rest'
<1> USE DEF IInv
<1>1. /\ GotEvent("WRITE_DONE") /\ "WRITE_DONE" \in ClientEvent
      /\ Head(cq).ok /\ pc' = pc /\ toClient' = toClient
  BY DEF WriteDone, ClientEvent
<1>2. /\ pc = "next" /\ pc' = "next" /\ cq # <<>> /\ ok'
      /\ UNCHANGED <<destroy, call, closed>>
      /\ Tail(cq) \in Seq(Completion) /\ Fits(Tail(cq), {})
      /\ ops["WRITE_DONE"] = 0 /\ In(Tail(cq), "WRITE_DONE") = {}
      /\ \A e : In(cq, e) = {} => In(Tail(cq), e) = {}
  BY <1>1, GotFacts
<1>3. /\ status # "WAIT_CONNECT" /\ ops["CONNECTED"] = 0
      /\ In(Tail(cq), "CONNECTED") = {}
  BY <1>1, NotConnecting
<1>4. status # "FINISHED"
  BY <1>1, ServingEvent
<1>5. In(Tail(cq), "FINISHED") = {}
  BY <1>2, <1>4 DEF FinishInv, Nothing
<1>6. /\ OneOfEach' /\ Leaves(Tail(cq), {})
      /\ \/ /\ status' = "READY_TO_WRITE" /\ ops' = ops /\ cq' = Tail(cq)
         \/ status' = "WAIT_WRITE_DONE"
  <2>1. PICK q \in Queues :
          IF q = <<>>
          THEN /\ status' = "READY_TO_WRITE"
               /\ streamQ' = q
               /\ cq' = Tail(cq)
               /\ UNCHANGED <<ops, toServer>>
          ELSE Write(q, Tail(cq), {})
    BY DEF WriteDone
  <2>2. CASE q = <<>>
    <3>1. status' = "READY_TO_WRITE" /\ ops' = ops /\ cq' = Tail(cq)
      BY <2>1, <2>2
    <3>2. Start({})
      BY <3>1 DEF Start, TypeOK
    <3>3. OneOfEach'
      BY <1>2, <3>1, <3>2, OneStart
    <3> QED BY <1>2, <3>1, <3>3 DEF Leaves, TypeOK
  <2>3. CASE q # <<>>
    <3>1. Write(q, Tail(cq), {})
      BY <2>1, <2>3
    <3> QED BY <1>2, <3>1, OneWrite, WriteLeaves DEF Write
  <2> QED BY <2>2, <2>3
<1>7. status' # "WAIT_CONNECT" /\ status' # "FINISHED"
  BY <1>6
<1>8. status' = "READY_TO_WRITE" =>
        ops'["WRITE_DONE"] = 0 /\ In(cq', "WRITE_DONE") = {}
  BY <1>2, <1>6
<1> QED BY <1>1, <1>2, <1>3, <1>4, <1>5, <1>6, <1>7, <1>8, StreamStep DEF Rest

(* Failed and HalfClosed finish the stream, dead as it is. *)
LEMMA FinishStep ==
  ASSUME IInv, TypeOK', Failed \/ HalfClosed
  PROVE  Rest'
<1> USE DEF IInv
<1>1. PICK event \in {"READ_DONE", "WRITE_DONE", "HALF_CLOSE"} :
        GotEvent(event) /\ (~Head(cq).ok \/ event = "HALF_CLOSE")
  BY DEF Failed, HalfClosed
<1>2. Finish(Tail(cq)) /\ UNCHANGED <<pc, toClient>>
  BY DEF Failed, HalfClosed
<1>3. event \in ClientEvent \ {"CONNECTED"}
  BY DEF ClientEvent
<1>4. /\ pc = "next" /\ cq # <<>> /\ UNCHANGED <<destroy, call, closed>>
      /\ Tail(cq) \in Seq(Completion) /\ Fits(Tail(cq), {})
      /\ \A e : In(cq, e) = {} => In(Tail(cq), e) = {}
      /\ Over(Tail(cq), 0) /\ WritesOver
  BY <1>1, <1>3, GotFacts
<1>5. /\ status # "WAIT_CONNECT" /\ ops["CONNECTED"] = 0
      /\ In(Tail(cq), "CONNECTED") = {}
  BY <1>1, <1>3, NotConnecting
<1>6. OneOfEach'
  BY <1>2, <1>4, OneFinish
<1>7. cq' = Tail(cq)
  BY <1>2 DEF Finish
<1>8. CASE status = "FINISHED"
  <2>1. status' = "FINISHED" /\ Leaves(Tail(cq), {}) /\ ops' = ops
    BY <1>2, <1>4, <1>8, FinishLeaves DEF Finish
  <2> QED BY <1>2, <1>4, <1>5, <1>6, <1>7, <1>8, <2>1, StreamStep DEF Rest
<1>9. CASE status # "FINISHED"
  <2>1. status' = "FINISHED" /\ Leaves(Tail(cq), {"FINISHED"})
    BY <1>2, <1>4, <1>5, <1>9, FinishLeaves
  <2>2. In(Tail(cq), "FINISHED") = {}
    BY <1>4, <1>9 DEF FinishInv, Nothing
  <2> QED BY <1>2, <1>4, <1>5, <1>6, <1>9, <2>1, <2>2, StreamStep DEF Rest
<1> QED BY <1>8, <1>9

LEMMA FinishedStep ==
  ASSUME IInv, TypeOK', Finished
  PROVE  Rest'
<1> USE DEF IInv
<1>1. /\ GotEvent("FINISHED") /\ "FINISHED" \in ClientEvent
      /\ pc' = IF destroy = "none" THEN "create" ELSE "exit"
      /\ cq' = Tail(cq) /\ UNCHANGED <<status, ops, toClient>>
  BY DEF Finished, ClientEvent
<1>2. /\ pc = "next" /\ cq # <<>> /\ 1 \in In(cq, "FINISHED")
      /\ UNCHANGED <<destroy, call, closed>>
      /\ Tail(cq) \in Seq(Completion) /\ Fits(Tail(cq), {})
      /\ In(Tail(cq), "FINISHED") = {}
      /\ \A e : In(cq, e) = {} => In(Tail(cq), e) = {}
  BY <1>1, GotFacts DEF In
<1>3. status = "FINISHED"
  BY <1>2 DEF FinishInv, Nothing
<1>4. Start({}) /\ Leaves(Tail(cq), {})
  <2>1. Start({})
    BY <1>1 DEF Start, TypeOK
  <2>2. Leaves(Tail(cq), {})
    BY <1>1, <1>2 DEF Leaves, TypeOK
  <2> QED BY <2>1, <2>2
<1>5. OneOfEach'
  BY <1>1, <1>2, <1>4, OneStart
<1>6. cq \in Seq(Completion)
  BY DEF TypeOK, Completion
<1>7. destroy = "none" => cq' = <<>> /\ \A e \in ClientEvent : ops[e] = 0
  <2> SUFFICES ASSUME destroy = "none"
               PROVE  cq' = <<>> /\ \A e \in ClientEvent : ops[e] = 0
    OBVIOUS
  <2>1. Len(cq) = 1 /\ \A e \in ClientEvent : ops[e] = 0
    BY <1>2 DEF LastInv
  <2>2. Tail(cq) = <<>>
    <3>1. Len(Tail(cq)) = 0
      BY <1>2, <1>6, <2>1, TailFacts
    <3> QED BY <1>2, <3>1, EmptySeq
  <2> QED BY <1>1, <2>1, <2>2
<1>8. FreshStreamAlone'
  BY <1>1, <1>7 DEF FreshStreamAlone
<1>9. ReadInv'
  <2> SUFFICES ASSUME NEW j \in DOMAIN cq', cq'[j].event = "READ_DONE",
                      cq'[j].ok
               PROVE  toClient # <<>>
    BY <1>1 DEF ReadInv, Completed
  <2>1. j + 1 \in DOMAIN cq /\ cq[j + 1] = cq'[j]
    BY <1>1, <1>2, <1>6, TailFacts
  <2> QED BY <2>1 DEF ReadInv, Completed
<1>10. ops["CONNECTED"] = 0
  BY <1>2, <1>3 DEF ConnectingInv, Connecting, Nothing
<1>11. ConnectingInv' /\ WritingInv'
  BY <1>1, <1>10 DEF ConnectingInv, WritingInv, Connecting
<1>12. FinishInv' /\ LastInv'
  BY <1>1, <1>2, <1>3 DEF FinishInv, LastInv
<1>13. ClosedInv'
  BY <1>1, <1>2 DEF ClosedInv, Nothing, In
<1>14. DeadInv'
  BY <1>1, <1>2, <1>4, LeavesDead DEF DeadInv
<1> QED BY <1>5, <1>8, <1>9, <1>11, <1>12, <1>13, <1>14 DEF Rest

LEMMA DestroyStep ==
  ASSUME IInv, TypeOK', Destroy
  PROVE  Rest'
<1> USE DEF IInv
<1>1. /\ destroy = "none" /\ destroy' = "join" /\ ~closed
      /\ UNCHANGED <<pc, ok, cq, call, toClient>>
  BY DEF Destroy, ClosedInv
<1>2. CASE status \in {"WAIT_CONNECT", "FINISHED", "HALF_CLOSE"}
  <2>1. UNCHANGED <<status, ops, closed>>
    BY <1>2 DEF Destroy, HalfClose
  <2>2. OneOfEach' /\ FreshStreamAlone' /\ ReadInv'
    BY <1>1, <2>1 DEF OneOfEach, FreshStreamAlone, ReadInv, Completed
  <2>3. ConnectingInv' /\ WritingInv' /\ FinishInv' /\ LastInv' /\ ClosedInv'
    BY <1>1, <2>1 DEF ConnectingInv, Connecting, WritingInv, FinishInv, LastInv,
                      ClosedInv, Nothing
  <2>4. DeadInv'
    BY <1>1, <2>1 DEF DeadInv, Connecting, Over, WritesOver
  <2> QED BY <2>2, <2>3, <2>4 DEF Rest
<1>3. CASE status \notin {"WAIT_CONNECT", "FINISHED", "HALF_CLOSE"}
  <2>1. status' = "HALF_CLOSE" /\ Start({"HALF_CLOSE"}) /\ closed' = TRUE
    BY <1>3 DEF Destroy, HalfClose
  <2>2. Nothing("HALF_CLOSE") /\ pc # "create"
    BY <1>1, <1>3 DEF ClosedInv, FinishInv
  <2>3. \A e \in ClientEvent : ops'[e] = IF e = "HALF_CLOSE" THEN 1 ELSE ops[e]
    <3>1. \A e \in ClientEvent :
            ops'[e] = ops[e] + IF e \in {"HALF_CLOSE"} THEN 1 ELSE 0
      BY <2>1 DEF Start
    <3>2. ops["HALF_CLOSE"] = 0 /\ \A e \in ClientEvent : ops[e] + 0 = ops[e]
      BY <2>2 DEF Nothing, TypeOK
    <3> QED BY <3>1, <3>2
  <2>4. \A e \in ClientEvent \ {"HALF_CLOSE"} : Nothing(e) => Nothing(e)'
    BY <1>1, <2>3 DEF Nothing
  <2>5. OneOfEach'
    BY <1>1, <2>2, <2>3, OneMeaning, OneMeaningNext DEF Nothing
  <2>6. FreshStreamAlone' /\ ReadInv'
    BY <1>1, <2>2 DEF FreshStreamAlone, ReadInv, Completed
  <2>7. ConnectingInv'
    <3>1. ~Connecting /\ ~Connecting' /\ "CONNECTED" \in ClientEvent
      BY <1>3, <2>1 DEF Connecting, ClientEvent
    <3>2. ops["CONNECTED"] = 0 /\ (pc = "next" => Nothing("CONNECTED")')
      BY <2>4, <3>1 DEF ConnectingInv
    <3> QED BY <1>1, <2>3, <3>1, <3>2 DEF ConnectingInv
  <2>8. WritingInv' /\ LastInv' /\ ClosedInv'
    BY <1>1, <2>1 DEF WritingInv, LastInv, ClosedInv
  <2>9. FinishInv'
    BY <1>1, <1>3, <2>1, <2>2, <2>4 DEF FinishInv, ClientEvent
  <2>10. DeadInv'
    <3>1. /\ WritesOver => WritesOver'
          /\ \A k : Over(cq, k) => Over(cq, k)'
      BY <1>1, <2>1 DEF WritesOver, Over
    <3>2. ~Connecting
      BY <1>3 DEF Connecting
    <3> QED BY <1>1, <2>1, <3>1, <3>2 DEF DeadInv
  <2> QED BY <2>5, <2>6, <2>7, <2>8, <2>9, <2>10 DEF Rest
<1> QED BY <1>2, <1>3

LEMMA QuietStep ==
  ASSUME IInv, TypeOK', Quiet
  PROVE  Rest'
<1> USE DEF IInv
<1>1. /\ UNCHANGED <<pc, ok, status, ops, cq, closed>>
      /\ call' = call \/ call' = "broken"
      /\ destroy' = "none" => destroy = "none"
      /\ destroy = "none" => destroy' = "none"
      /\ toClient # <<>> => toClient' # <<>>
  BY DEF Quiet, loop
<1>2. OneOfEach' /\ FreshStreamAlone' /\ ReadInv'
  BY <1>1 DEF OneOfEach, FreshStreamAlone, ReadInv, Completed
<1>3. ConnectingInv' /\ WritingInv' /\ FinishInv' /\ LastInv' /\ ClosedInv'
  BY <1>1 DEF ConnectingInv, Connecting, WritingInv, FinishInv, LastInv,
              ClosedInv, Nothing
<1>4. WritesOver => WritesOver'
  BY <1>1 DEF WritesOver
<1>5. DeadInv'
  BY <1>1, <1>4 DEF DeadInv, Connecting, Over
<1> QED BY <1>2, <1>3, <1>5 DEF Rest

LEMMA CompletesStep ==
  ASSUME IInv, TypeOK', NEW event \in ClientEvent, NEW b \in BOOLEAN,
         Completes(event, b)
  PROVE  Rest'
<1> USE DEF IInv
<1> DEFINE c == [event |-> event, ok |-> b]
<1>1. /\ Complete(event, b) /\ cq' = Append(cq, c)
      /\ UNCHANGED <<pc, ok, status, destroy, closed, toClient>>
  BY DEF Completes, Complete, loop
<1>2. /\ OneOfEach' /\ ops[event] = 1 /\ In(cq, event) = {}
      /\ \A e : e # event /\ In(cq, e) = {} => In(cq', e) = {}
      /\ \A e \in ClientEvent \ {event} : ops'[e] = ops[e]
  BY <1>1, OneComplete
<1>3. /\ cq \in Seq(Completion) /\ c.event = event /\ (c.ok <=> b)
      /\ ops'[event] = 0
  BY <1>1, <1>2 DEF TypeOK, Completion, Complete
<1>4. /\ DOMAIN cq' = 1..(Len(cq) + 1) /\ DOMAIN cq = 1..Len(cq)
      /\ Len(cq) \in Nat
      /\ \A i \in 1..Len(cq) : cq'[i] = cq[i]
      /\ cq'[Len(cq) + 1] = c
  BY <1>1, <1>3, AppendFacts
<1> HIDE DEF c
<1>5. \A e \in ClientEvent : Nothing(e) => e # event /\ Nothing(e)'
  BY <1>2 DEF Nothing
<1>6. (event = "CONNECTED") <=> Connecting
  BY <1>2 DEF ConnectingInv, Nothing, ClientEvent
<1>7. FreshStreamAlone'
  BY <1>1, <1>2 DEF FreshStreamAlone
<1>8. ReadInv'
  <2> SUFFICES ASSUME NEW j \in DOMAIN cq', cq'[j].event = "READ_DONE",
                      cq'[j].ok
               PROVE  toClient # <<>>
    BY <1>1 DEF ReadInv, Completed
  <2>1. CASE j \in 1..Len(cq)
    BY <1>4, <2>1 DEF ReadInv, Completed
  <2>2. CASE j = Len(cq) + 1
    <3>1. event = "READ_DONE" /\ b
      BY <1>3, <1>4, <2>2
    <3> QED BY <3>1 DEF Completes
  <2> QED BY <1>4, <2>1, <2>2
<1>9. ConnectingInv'
  BY <1>1, <1>2, <1>3, <1>5, <1>6 DEF ConnectingInv, Connecting, ClientEvent
<1>10. WritingInv' /\ FinishInv' /\ ClosedInv'
  BY <1>1, <1>5 DEF WritingInv, FinishInv, ClosedInv, ClientEvent
<1>11. LastInv'
  <2> SUFFICES ASSUME destroy = "none", NEW j \in DOMAIN cq',
                      cq'[j].event = "FINISHED"
               PROVE  j = Len(cq) + 1 /\ event = "FINISHED"
    <3>1. event = "FINISHED" => \A e \in ClientEvent : ops'[e] = 0
      BY <1>2, <1>3 DEF Completes
    <3>2. Len(cq') = Len(cq) + 1
      BY <1>1, <1>3
    <3> QED BY <1>1, <3>1, <3>2 DEF LastInv, In
  <2>1. CASE j \in 1..Len(cq)
    <3>1. j \in In(cq, "FINISHED")
      BY <1>4, <2>1 DEF In
    <3>2. ops[event] = 0
      BY <3>1 DEF LastInv
    <3> QED BY <1>2, <3>2
  <2>2. CASE j = Len(cq) + 1
    BY <1>3, <1>4, <2>2
  <2> QED BY <1>4, <2>1, <2>2
<1>12. ASSUME ~Connecting, WritesOver
       PROVE  /\ WritesOver'
              /\ b /\ event # "FINISHED" => closed /\ event # "WRITE_DONE"
  <2>1. event # "CONNECTED" /\ call' = call
        /\ (b => event = "FINISHED" \/ call = "open")
    BY <1>6, <1>12 DEF Completes
  <2>2. call = "open" => closed /\ ops["WRITE_DONE"] = 0
    BY <1>12 DEF WritesOver
  <2>3. WritesOver'
    <3>1. ops["WRITE_DONE"] = 0 => ops'["WRITE_DONE"] = 0
      BY <1>2, <1>3 DEF ClientEvent
    <3> QED BY <1>1, <1>12, <2>1, <3>1 DEF WritesOver
  <2> QED BY <1>2, <2>1, <2>2, <2>3
<1>13. ASSUME ~Connecting, WritesOver, NEW k, Over(cq, k)
       PROVE  Over(cq, k)' /\ WritesOver'
  <2> SUFFICES ASSUME NEW j \in DOMAIN cq', j > k, cq'[j].ok,
                      cq'[j].event # "FINISHED"
               PROVE  closed /\ cq'[j].event # "WRITE_DONE"
    BY <1>1, <1>12, <1>13 DEF Over
  <2>1. CASE j \in 1..Len(cq)
    BY <1>4, <1>13, <2>1 DEF Over
  <2>2. CASE j = Len(cq) + 1
    BY <1>3, <1>4, <1>12, <1>13, <2>2
  <2> QED BY <1>4, <2>1, <2>2
<1>14. ASSUME NEW n, n = Len(cq) + 1, ~b \/ event = "HALF_CLOSE"
       PROVE  Over(cq, n)' /\ WritesOver'
  <2>1. Over(cq, n)'
    <3>1. \A j \in DOMAIN cq' : ~(j > n)
      BY <1>4, <1>14
    <3> QED BY <3>1 DEF Over
  <2>2. CASE ~b
    BY <2>1, <2>2 DEF Completes, WritesOver
  <2>3. CASE b /\ event = "HALF_CLOSE"
    <3>1. closed /\ ops["WRITE_DONE"] = 0
      BY <1>2, <2>3 DEF Completes, ClosedInv, Nothing
    <3>2. ops'["WRITE_DONE"] = 0
      BY <1>2, <2>3, <3>1 DEF ClientEvent
    <3> QED BY <1>1, <2>1, <3>1, <3>2 DEF WritesOver
  <2> QED BY <1>14, <2>2, <2>3
<1>15. DeadInv'
  <2>1. ASSUME NEW i \in DOMAIN cq',
               ~cq'[i].ok \/ cq'[i].event = "HALF_CLOSE"
        PROVE  Over(cq, i)' /\ WritesOver'
    <3>1. CASE i \in 1..Len(cq)
      <4>1. Over(cq, i) /\ WritesOver
        BY <1>4, <2>1, <3>1 DEF DeadInv
      <4>2. ~Connecting
        <5>1. cq[i] \in Completion /\ i \in DOMAIN cq
          BY <1>3, <1>4, <3>1
        <5>2. In(cq, cq[i].event) # {} /\ cq[i].event \in ClientEvent
          BY <5>1 DEF In, Completion
        <5> QED BY <1>2, <1>6, <5>2 DEF ConnectingInv, Nothing
      <4> QED BY <1>13, <4>1, <4>2
    <3>2. CASE i = Len(cq) + 1
      <4>1. ~b \/ event = "HALF_CLOSE"
        BY <1>3, <1>4, <2>1, <3>2
      <4> QED BY <1>14, <3>2, <4>1
    <3> QED BY <1>4, <3>1, <3>2
  <2>2. ASSUME pc = "next", status = "FINISHED" \/ (~ok /\ ~Connecting)
        PROVE  Over(cq, 0)' /\ WritesOver'
    <3>1. Over(cq, 0) /\ WritesOver /\ ~Connecting
      BY <2>2 DEF DeadInv, Connecting
    <3> QED BY <1>13, <3>1
  <2> QED BY <1>1, <2>1, <2>2 DEF DeadInv, Connecting
<1> QED
  BY <1>2, <1>7, <1>8, <1>9, <1>10, <1>11, <1>15 DEF Rest

-----------------------------------------------------------------------------
LEMMA StreamInit ==
  ASSUME Init
  PROVE  IInv
<1>1. TypeOK
  <2>1. /\ sent \in 0..MaxSends /\ pushed \in 0..MaxPushes
        /\ faults \in 0..MaxFaults /\ pings \in 0..MaxPings
    BY BoundsType DEF Init
  <2>2. /\ msgQueue \in Seq(Packets) /\ toClient \in Seq(Pushes)
        /\ streamQ \in Seq(Packets \cup {Ping})
        /\ toServer \in Seq(Packets \cup {Ping})
        /\ cq \in Seq(Completion) /\ ops \in [ClientEvent -> Nat]
    BY DEF Init
  <2> QED BY <2>1, <2>2 DEF Init, TypeOK, StreamStatus, Completion
<1>2. /\ pc = "create" /\ cq = <<>> /\ destroy = "none" /\ ~closed
      /\ status = "WAIT_CONNECT" /\ \A e \in ClientEvent : ops[e] = 0
  BY DEF Init
<1>3. \A e : In(cq, e) = {} /\ Completed(e) = {} /\ AtMostOne(cq, e)
  BY <1>2 DEF In, Completed, AtMostOne
<1>4. OneOfEach /\ FreshStreamAlone /\ ReadInv
  BY <1>2, <1>3, OneMeaning DEF FreshStreamAlone, ReadInv
<1>5. ConnectingInv /\ WritingInv /\ FinishInv /\ LastInv /\ ClosedInv
  BY <1>2, <1>3 DEF ConnectingInv, Connecting, WritingInv, FinishInv, LastInv,
                    ClosedInv, Nothing, ClientEvent
<1>6. DeadInv
  BY <1>2 DEF DeadInv
<1> QED BY <1>1, <1>4, <1>5, <1>6 DEF IInv

LEMMA StreamNext ==
  ASSUME IInv, [Next]_vars
  PROVE  IInv'
<1>1. CASE Next
  <2>1. TypeOK'
    BY <1>1, TypeStep DEF IInv
  <2>2. ASSUME Loop PROVE Rest'
    BY <2>1, <2>2, CreateStep, TimeoutStep, ConnectedStep, ReadDoneStep,
       WriteDoneStep, FinishStep, FinishedStep DEF Loop
  <2>3. ASSUME Destroy PROVE Rest'
    BY <2>1, <2>3, DestroyStep
  <2>4. ASSUME ~Loop, ~Destroy PROVE Rest'
    <3>1. \/ Quiet
          \/ \E event \in ClientEvent, b \in BOOLEAN : Completes(event, b)
      BY <1>1, <2>4, StepKinds DEF IInv
    <3> QED BY <2>1, <3>1, CompletesStep, QuietStep
  <2> QED BY <2>1, <2>2, <2>3, <2>4 DEF IInv, Rest
<1>2. CASE UNCHANGED vars
  <2>1. TypeOK'
    BY <1>2 DEF IInv, TypeOK, vars, loop, grpc, bounds
  <2>2. Quiet
    BY <1>2 DEF Quiet, vars, loop, grpc, bounds
  <2> QED BY <2>1, <2>2, QuietStep DEF IInv, Rest
<1> QED BY <1>1, <1>2

LEMMA StreamInvariant == Spec => []IInv
<1>1. Init => IInv
  BY StreamInit
<1>2. IInv /\ [Next]_vars => IInv'
  BY StreamNext
<1> QED BY <1>1, <1>2, PTL DEF Spec

(* For any number of packets, faults and heartbeats, every variable of the  *)
(* loop stays in its type.                                                  *)
THEOREM StreamTypeCorrect == Spec => []TypeOK
BY StreamInvariant, PTL DEF IInv

(* For any number of packets, faults and heartbeats, no operation is ever   *)
(* started while one of its kind is under way or its completion is unread.  *)
THEOREM OneOperationOfEach == Spec => []OneOfEach
BY StreamInvariant, PTL DEF IInv

(* For any number of packets, faults and heartbeats, a new stream finds an  *)
(* empty completion queue.                                                  *)
THEOREM NoStaleCompletion == Spec => []FreshStreamAlone
BY StreamInvariant, PTL DEF IInv

-----------------------------------------------------------------------------
(*****************************************************************************)
(* The loop of Client implements Channel, for any number of packets, pushes, *)
(* faults and pings: every step of it up to Destroy is a step of the         *)
(* transport or leaves it as it is.  The packets a stream took are those it  *)
(* holds or sent without the heartbeats, so that the first half is about     *)
(* WithoutPings, by induction over sequences.                                *)
(*****************************************************************************)

(* Induction, with the property as the set of what has it. *)
LEMMA NatSetInduction ==
  ASSUME NEW T, 0 \in T, \A n \in Nat : n \in T => n + 1 \in T
  PROVE  Nat \subseteq T
<1> DEFINE B == Nat \ T
           R == OpToRel(<, Nat)
<1>1. SUFFICES ASSUME B # {} PROVE FALSE
  OBVIOUS
<1>2. PICK x \in B : \A y \in B : ~(<<y, x>> \in R)
  <2>1. IsWellFoundedOn(R, Nat)
    BY NatLessThanWellFounded
  <2>2. B \subseteq Nat
    OBVIOUS
  <2> HIDE DEF B, R
  <2> QED BY <1>1, <2>1, <2>2, WFMin
<1>3. x \in Nat /\ x \notin T
  OBVIOUS
<1>4. x # 0 /\ x - 1 \in Nat /\ x - 1 < x
  BY <1>3
<1>5. x - 1 \notin T
  BY <1>3, <1>4
<1>6. <<x - 1, x>> \in R
  BY <1>3, <1>4 DEF OpToRel
<1>7. x - 1 \in B
  BY <1>4, <1>5
<1> QED BY <1>2, <1>6, <1>7

LEMMA FrontFacts ==
  ASSUME NEW S, NEW s \in Seq(S), Len(s) # 0
  PROVE  \E t \in Seq(S), m \in S : s = Append(t, m) /\ Len(t) = Len(s) - 1
<1> DEFINE t == [i \in 1..(Len(s) - 1) |-> s[i]]
           m == s[Len(s)]
<1>1. Len(s) \in Nat /\ Len(s) - 1 \in Nat /\ m \in S
  OBVIOUS
<1>2. t \in Seq(S) /\ Len(t) = Len(s) - 1
  BY <1>1
<1>3. s = Append(t, m)
  BY <1>1, <1>2
<1> QED BY <1>1, <1>2, <1>3

LEMMA SeqSetInduction ==
  ASSUME NEW S, NEW T, <<>> \in T,
         \A s \in Seq(S), m \in S : s \in T => Append(s, m) \in T
  PROVE  Seq(S) \subseteq T
<1> DEFINE L == {n \in Nat : \A s \in Seq(S) : Len(s) = n => s \in T}
<1>1. 0 \in L
  BY EmptySeq
<1>2. ASSUME NEW n \in Nat, n \in L PROVE n + 1 \in L
  <2> SUFFICES ASSUME NEW s \in Seq(S), Len(s) = n + 1 PROVE s \in T
    OBVIOUS
  <2>1. PICK t \in Seq(S), m \in S : s = Append(t, m) /\ Len(t) = n
    BY FrontFacts
  <2>2. t \in T
    BY <1>2, <2>1
  <2> QED BY <2>1, <2>2
<1>3. Nat \subseteq L
  <2> HIDE DEF L
  <2> QED BY <1>1, <1>2, NatSetInduction
<1> QED BY <1>3

-----------------------------------------------------------------------------
(* WithoutPings. *)

(* g is the function that WithoutPings folds s with, up to n. *)
KeptOf(s, g, i) ==
  IF i = 0 THEN <<>>
  ELSE IF s[i] = Ping THEN g[i - 1] ELSE Append(g[i - 1], s[i])
Keeps(s, g, n) == g = [i \in 0..n |-> KeptOf(s, g, i)]
Agree(s, t, n) == \A i \in 1..n : s[i] = t[i]

LEMMA KeepsMeaning ==
  ASSUME NEW s, NEW n \in Nat, NEW g, Keeps(s, g, n)
  PROVE  \A i \in 0..n : g[i] = KeptOf(s, g, i)
BY DEF Keeps

LEMMA KeptExists ==
  ASSUME NEW s, NEW m \in Nat
  PROVE  \E g : Keeps(s, g, m)
<1> DEFINE T == {n \in Nat : \E g : Keeps(s, g, n)}
<1>1. 0 \in T
  <2>1. Keeps(s, [i \in 0..0 |-> <<>>], 0)
    BY DEF Keeps, KeptOf
  <2> QED BY <2>1
<1>2. ASSUME NEW n \in Nat, n \in T PROVE n + 1 \in T
  <2>1. PICK g : Keeps(s, g, n)
    BY <1>2
  <2> DEFINE e == KeptOf(s, g, n + 1)
             h == [i \in 0..(n + 1) |-> IF i = n + 1 THEN e ELSE g[i]]
             k == [i \in 0..(n + 1) |-> KeptOf(s, h, i)]
  <2>2. \A i \in 0..n : g[i] = KeptOf(s, g, i)
    BY <2>1, KeepsMeaning
  <2> HIDE DEF e
  <2>3. (\A i \in 0..n : h[i] = g[i]) /\ h[n + 1] = e
    OBVIOUS
  <2>4. ASSUME NEW i \in 0..(n + 1) PROVE h[i] = KeptOf(s, h, i)
    <3> HIDE DEF h
    <3>1. CASE i = n + 1
      BY <2>3, <3>1 DEF e, KeptOf
    <3>2. CASE i \in 0..n
      <4>1. h[i] = KeptOf(s, g, i)
        BY <2>2, <2>3, <3>2
      <4>2. i = 0 \/ i - 1 \in 0..n
        BY <3>2
      <4>3. i = 0 \/ h[i - 1] = g[i - 1]
        BY <2>3, <4>2
      <4> QED BY <4>1, <4>3 DEF KeptOf
    <3> QED BY <3>1, <3>2
  <2>5. Keeps(s, h, n + 1)
    <3>1. \A i \in 0..(n + 1) : k[i] = h[i]
      <4> HIDE DEF h
      <4> QED BY <2>4
    <3>2. h = [i \in 0..(n + 1) |-> h[i]] /\ k = [i \in 0..(n + 1) |-> k[i]]
      OBVIOUS
    <3>3. h = k
      <4> HIDE DEF h, k
      <4> QED BY <3>1, <3>2
    <3> QED BY <3>3 DEF Keeps
  <2> QED BY <2>5
<1>3. Nat \subseteq T
  <2> HIDE DEF T
  <2> QED BY <1>1, <1>2, NatSetInduction
<1> QED BY <1>3

LEMMA KeptUnique ==
  ASSUME NEW s, NEW t, NEW g, NEW h, NEW m \in Nat, NEW n \in Nat, m <= n,
         Keeps(s, g, m), Keeps(t, h, n), Agree(s, t, m)
  PROVE  g[m] = h[m]
<1> DEFINE T == {i \in Nat : i <= m => g[i] = h[i]}
<1>1. /\ \A i \in 0..m : g[i] = KeptOf(s, g, i)
      /\ \A i \in 0..m : h[i] = KeptOf(t, h, i)
  BY KeepsMeaning
<1>2. 0 \in T
  BY <1>1 DEF KeptOf
<1>3. ASSUME NEW i \in Nat, i \in T PROVE i + 1 \in T
  <2> SUFFICES ASSUME i + 1 <= m PROVE g[i + 1] = h[i + 1]
    OBVIOUS
  <2>1. g[i] = h[i] /\ s[i + 1] = t[i + 1] /\ i + 1 \in 0..m /\ i + 1 # 0
    BY <1>3 DEF Agree
  <2>2. (i + 1) - 1 = i
    OBVIOUS
  <2> QED BY <1>1, <2>1, <2>2 DEF KeptOf
<1>4. Nat \subseteq T
  <2> HIDE DEF T
  <2> QED BY <1>2, <1>3, NatSetInduction
<1> QED BY <1>4

LEMMA KeptGrows ==
  ASSUME NEW s, NEW l, NEW g, NEW h, NEW n \in Nat,
         Keeps(s, g, n), Keeps(l, h, n + 1), Agree(s, l, n)
  PROVE  h[n + 1] = IF l[n + 1] = Ping THEN g[n] ELSE Append(g[n], l[n + 1])
<1>1. ASSUME NEW k \in Nat, n <= k, Keeps(l, h, k)
      PROVE  g[n] = h[n]
  BY <1>1, KeptUnique
<1>2. n + 1 \in Nat /\ n <= n + 1 /\ n + 1 # 0 /\ (n + 1) - 1 = n
      /\ n + 1 \in 0..(n + 1)
  OBVIOUS
<1>3. g[n] = h[n]
  BY <1>1, <1>2
<1>4. h[n + 1] = KeptOf(l, h, n + 1)
  BY <1>2, KeepsMeaning
<1> QED BY <1>2, <1>3, <1>4 DEF KeptOf

LEMMA WithoutPingsKeeps ==
  ASSUME NEW S, NEW s \in Seq(S)
  PROVE  \E g : Keeps(s, g, Len(s)) /\ WithoutPings(s) = g[Len(s)]
<1> DEFINE f == CHOOSE f : Keeps(s, f, Len(s))
<1>1. WithoutPings(s) = f[Len(s)]
  BY DEF WithoutPings, Keeps, KeptOf
<1>2. \E g : Keeps(s, g, Len(s))
  BY KeptExists
<1>3. Keeps(s, f, Len(s))
  BY <1>2
<1> QED BY <1>1, <1>3

LEMMA WithoutPingsEmpty == WithoutPings(<<>>) = <<>>
<1>1. PICK g : Keeps(<<>>, g, 0) /\ WithoutPings(<<>>) = g[0]
  <2>1. <<>> \in Seq({}) /\ Len(<<>>) = 0
    OBVIOUS
  <2> QED BY <2>1, WithoutPingsKeeps
<1> QED BY <1>1, KeepsMeaning DEF KeptOf

LEMMA WithoutPingsAppend ==
  ASSUME NEW S, NEW s \in Seq(S), NEW m \in S
  PROVE  WithoutPings(Append(s, m)) =
           IF m = Ping THEN WithoutPings(s) ELSE Append(WithoutPings(s), m)
<1> DEFINE l == Append(s, m)
           n == Len(s)
<1>1. /\ n \in Nat /\ l \in Seq(S) /\ Len(l) = n + 1 /\ l[n + 1] = m
      /\ \A i \in 1..n : s[i] = l[i]
  OBVIOUS
<1> HIDE DEF l
<1>2. PICK g : Keeps(s, g, n) /\ WithoutPings(s) = g[n]
  BY WithoutPingsKeeps
<1>3. PICK h : Keeps(l, h, n + 1) /\ WithoutPings(l) = h[n + 1]
  BY <1>1, WithoutPingsKeeps
<1> HIDE DEF n
<1>4. Agree(s, l, n)
  BY <1>1 DEF Agree
<1>5. h[n + 1] = IF m = Ping THEN g[n] ELSE Append(g[n], m)
  BY <1>1, <1>2, <1>3, <1>4, KeptGrows
<1>6. WithoutPings(l) =
        IF m = Ping THEN WithoutPings(s) ELSE Append(WithoutPings(s), m)
  BY <1>2, <1>3, <1>5
<1> QED BY <1>6 DEF l

LEMMA WithoutPingsType ==
  ASSUME NEW S, NEW s \in Seq(S)
  PROVE  WithoutPings(s) \in Seq(S)
<1> DEFINE T == {t \in Seq(S) : WithoutPings(t) \in Seq(S)}
<1>1. <<>> \in T
  <2>1. <<>> \in Seq(S)
    OBVIOUS
  <2>2. WithoutPings(<<>>) \in Seq(S)
    BY <2>1, WithoutPingsEmpty, Zenon
  <2> QED BY <2>1, <2>2, Zenon
<1>2. ASSUME NEW t \in Seq(S), NEW m \in S, t \in T
      PROVE  Append(t, m) \in T
  <2> DEFINE u == WithoutPings(t)
             v == WithoutPings(Append(t, m))
  <2>1. u \in Seq(S) /\ v = IF m = Ping THEN u ELSE Append(u, m)
    BY <1>2, WithoutPingsAppend
  <2>2. Append(t, m) \in Seq(S)
    OBVIOUS
  <2>3. v \in Seq(S)
    <3> HIDE DEF u, v
    <3> QED BY <2>1
  <2> QED BY <2>2, <2>3, Zenon
<1>3. Seq(S) \subseteq T
  <2> HIDE DEF T
  <2> QED BY <1>1, <1>2, SeqSetInduction
<1> QED BY <1>3

LEMMA WithoutPingsConcat ==
  ASSUME NEW S, NEW s \in Seq(S), NEW t \in Seq(S)
  PROVE  WithoutPings(s \o t) = WithoutPings(s) \o WithoutPings(t)
<1> DEFINE T == {u \in Seq(S) :
                   WithoutPings(s \o u) = WithoutPings(s) \o WithoutPings(u)}
<1>1. WithoutPings(s) \in Seq(S)
  BY WithoutPingsType
<1>2. <<>> \in T
  <2>1. s \o <<>> = s /\ WithoutPings(s) \o <<>> = WithoutPings(s)
    BY <1>1
  <2>2. <<>> \in Seq(S)
    OBVIOUS
  <2> QED BY <2>1, <2>2, WithoutPingsEmpty, Zenon
<1>3. ASSUME NEW u \in Seq(S), NEW m \in S, u \in T
      PROVE  Append(u, m) \in T
  <2>1. s \o u \in Seq(S) /\ s \o Append(u, m) = Append(s \o u, m)
    OBVIOUS
  <2>2. WithoutPings(u) \in Seq(S)
    BY WithoutPingsType
  <2>3. WithoutPings(s) \o Append(WithoutPings(u), m) =
          Append(WithoutPings(s) \o WithoutPings(u), m)
    BY <1>1, <2>2
  <2>4. /\ WithoutPings(Append(u, m)) =
             IF m = Ping THEN WithoutPings(u) ELSE Append(WithoutPings(u), m)
        /\ WithoutPings(Append(s \o u, m)) =
             IF m = Ping THEN WithoutPings(s \o u)
             ELSE Append(WithoutPings(s \o u), m)
    BY <2>1, WithoutPingsAppend
  <2>5. WithoutPings(s \o u) = WithoutPings(s) \o WithoutPings(u)
    BY <1>3
  <2>6. WithoutPings(s \o Append(u, m)) =
          WithoutPings(s) \o WithoutPings(Append(u, m))
    BY <2>1, <2>3, <2>4, <2>5, Zenon
  <2>7. Append(u, m) \in Seq(S)
    OBVIOUS
  <2> QED BY <2>6, <2>7, Zenon
<1>4. Seq(S) \subseteq T
  <2> HIDE DEF T
  <2> QED BY <1>2, <1>3, SeqSetInduction
<1> QED BY <1>4

LEMMA WithoutPingsNone ==
  ASSUME NEW S, Ping \notin S, NEW s \in Seq(S)
  PROVE  WithoutPings(s) = s
<1> DEFINE T == {t \in Seq(S) : WithoutPings(t) = t}
<1>1. <<>> \in T
  BY WithoutPingsEmpty
<1>2. ASSUME NEW t \in Seq(S), NEW m \in S, t \in T
      PROVE  Append(t, m) \in T
  BY <1>2, WithoutPingsAppend
<1>3. Seq(S) \subseteq T
  <2> HIDE DEF T
  <2> QED BY <1>1, <1>2, SeqSetInduction
<1> QED BY <1>3

LEMMA WithoutPingsOne ==
  ASSUME NEW S, NEW m \in S
  PROVE  WithoutPings(<<m>>) = IF m = Ping THEN <<>> ELSE <<m>>
<1>1. <<>> \in Seq(S) /\ Append(<<>>, m) = <<m>>
  OBVIOUS
<1> QED BY <1>1, WithoutPingsAppend, WithoutPingsEmpty

LEMMA WithoutPingsTail ==
  ASSUME NEW S, NEW s \in Seq(S), s # <<>>
  PROVE  IF Head(s) = Ping
         THEN WithoutPings(Tail(s)) = WithoutPings(s)
         ELSE /\ WithoutPings(s) # <<>>
              /\ WithoutPings(Tail(s)) = Tail(WithoutPings(s))
<1> DEFINE m == Head(s)
           u == WithoutPings(Tail(s))
<1>1. m \in S /\ <<m>> \in Seq(S) /\ Tail(s) \in Seq(S) /\ s = <<m>> \o Tail(s)
  OBVIOUS
<1>2. u \in Seq(S)
  BY <1>1, WithoutPingsType
<1>3. WithoutPings(s) = (IF m = Ping THEN <<>> ELSE <<m>>) \o u
  <2> HIDE DEF m
  <2> QED BY <1>1, WithoutPingsConcat, WithoutPingsOne
<1> HIDE DEF u, m
<1>4. <<>> \o u = u /\ <<m>> \o u # <<>> /\ Tail(<<m>> \o u) = u
  BY <1>1, <1>2
<1> QED BY <1>3, <1>4 DEF u, m

-----------------------------------------------------------------------------
(* The steps of the transport, in terms of the loop. *)

Held == WithoutPings(toServer \o streamQ)

LEMMA View ==
  ASSUME Serving
  PROVE  /\ Unsent = msgQueue
         /\ Open => Taken = Held /\ Unread = toClient
         /\ ~Open => Taken = <<>> /\ Unread = <<>>
BY DEF Unsent, Taken, Unread, Held

LEMMA ViewNext ==
  ASSUME Serving'
  PROVE  /\ Unsent' = msgQueue'
         /\ Open' => Taken' = Held' /\ Unread' = toClient'
         /\ ~Open' => Taken' = <<>> /\ Unread' = <<>>
BY DEF Unsent, Taken, Unread, Held

Refines == [Abs!Next]_(Abs!channel)

LEMMA Stutters ==
  ASSUME Serving' = Serving, Open' = Open, UNCHANGED <<Unsent, Taken, Unread>>
  PROVE  Refines
BY DEF Refines, Abs!channel

LEMMA ClosedStutters ==
  ASSUME Serving, Serving', ~Open, ~Open', UNCHANGED msgQueue
  PROVE  Refines
<1>1. Serving' = Serving /\ Open' = Open
  BY DEF Serving, Open
<1> QED BY <1>1, View, ViewNext, Stutters

LEMMA OverStutters ==
  ASSUME ~Serving, ~Serving'
  PROVE  Refines
BY DEF Refines, Abs!channel, Unsent, Taken, Unread, Serving

LEMMA Sends ==
  ASSUME Serving, Serving', Open' = Open, NEW m \in Packets,
         msgQueue' = Append(msgQueue, m), UNCHANGED <<Held, toClient>>
  PROVE  Refines
BY View, ViewNext
   DEF Refines, Abs!Next, Abs!Transports, Abs!Send

LEMMA SendsAllMsgs ==
  ASSUME Serving, Serving', Open, Open', msgQueue' = <<>>,
         Held' = Held \o msgQueue, UNCHANGED toClient
  PROVE  Refines
BY View, ViewNext
   DEF Refines, Abs!Next, Abs!Transports, Abs!SendAllMsgs

LEMMA Connects ==
  ASSUME Serving, Serving', ~Open, Open', UNCHANGED msgQueue,
         Held' = <<>>, toClient' = <<>>
  PROVE  Refines
BY View, ViewNext
   DEF Refines, Abs!Next, Abs!Transports, Abs!Connect

LEMMA Disconnects ==
  ASSUME TypeOK, Serving, Serving', Open, ~Open', UNCHANGED msgQueue
  PROVE  Refines
<1>1. Len(toClient) \in Nat /\ SubSeq(toClient, 1, 0) = <<>>
  BY DEF TypeOK
<1>2. \E n \in 0..Len(Unread) : Unread' = SubSeq(Unread, 1, n)
  BY <1>1, View, ViewNext
<1> QED
  BY <1>2, View, ViewNext
     DEF Refines, Abs!Next, Abs!Transports, Abs!Disconnect

LEMMA Reads ==
  ASSUME Serving, Serving', Open, Open', msgQueue' = <<>>,
         Held' = Held \o msgQueue, toClient # <<>>, toClient' = Tail(toClient)
  PROVE  Refines
BY View, ViewNext
   DEF Refines, Abs!Next, Abs!Transports, Abs!Read

LEMMA ServerTakes ==
  ASSUME Serving, Serving', Open, Open', UNCHANGED <<msgQueue, toClient>>,
         Held # <<>>, Held' = Tail(Held)
  PROVE  Refines
BY View, ViewNext
   DEF Refines, Abs!Next, Abs!Transports, Abs!ServerReads

LEMMA ServerPushes ==
  ASSUME Serving, Serving', Open, Open', UNCHANGED <<msgQueue, Held>>,
         NEW m \in Pushes, toClient' = Append(toClient, m)
  PROVE  Refines
BY View, ViewNext
   DEF Refines, Abs!Next, Abs!Transports, Abs!ServerWrites

LEMMA Closes ==
  ASSUME Serving, ~Serving'
  PROVE  Refines
BY DEF Refines, Abs!Next, Abs!Close, Unsent, Taken, Unread, Serving

-----------------------------------------------------------------------------
(* What the step needs to know of the call besides IInv. *)

(* A stream that connects holds nothing, *)
FreshInv ==
  Connecting => toServer = <<>> /\ streamQ = <<>> /\ toClient = <<>>
(* a call is new until its start completes, *)
NewInv == pc = "next" /\ call = "new" => ops["CONNECTED"] # 0
(* of a refused one nothing succeeds but its end, *)
RefusedInv ==
  pc = "next" /\ call = "refused" =>
    /\ \A i \in DOMAIN cq : cq[i].ok => cq[i].event = "FINISHED"
    /\ status # "WAIT_CONNECT" => ~ok
(* and only Destroy half-closes one. *)
HalfInv == ~closed => status # "HALF_CLOSE"

CallInv == FreshInv /\ NewInv /\ RefusedInv /\ HalfInv

LEMMA TakenLeaves ==
  ASSUME TypeOK, cq # <<>>,
         \A i \in DOMAIN cq : cq[i].ok => cq[i].event = "FINISHED",
         cq' = Tail(cq) \/ (cq' = Append(Tail(cq), FailedWrite))
  PROVE  \A i \in DOMAIN cq' : cq'[i].ok => cq'[i].event = "FINISHED"
<1>1. cq \in Seq(Completion)
  BY DEF TypeOK, Completion
<1>2. /\ Tail(cq) \in Seq(Completion) /\ DOMAIN Tail(cq) = 1..(Len(cq) - 1)
      /\ DOMAIN cq = 1..Len(cq) /\ Len(Tail(cq)) = Len(cq) - 1
      /\ \A i \in 1..(Len(cq) - 1) : Tail(cq)[i] = cq[i + 1]
  BY <1>1, TailFacts
<1>3. \A i \in 1..(Len(cq) - 1) :
        Tail(cq)[i].ok => Tail(cq)[i].event = "FINISHED"
  <2> SUFFICES ASSUME NEW i \in 1..(Len(cq) - 1), Tail(cq)[i].ok
               PROVE  Tail(cq)[i].event = "FINISHED"
    OBVIOUS
  <2>1. i + 1 \in DOMAIN cq /\ Tail(cq)[i] = cq[i + 1]
    BY <1>1, <1>2
  <2> QED BY <2>1
<1>4. CASE cq' = Tail(cq)
  BY <1>2, <1>3, <1>4
<1>5. CASE cq' = Append(Tail(cq), FailedWrite)
  <2>1. /\ DOMAIN cq' = 1..(Len(Tail(cq)) + 1)
        /\ \A i \in 1..Len(Tail(cq)) : cq'[i] = Tail(cq)[i]
        /\ cq'[Len(Tail(cq)) + 1] = FailedWrite
        /\ Len(Tail(cq)) \in Nat
    BY <1>2, <1>5, AppendFacts
  <2>2. ~FailedWrite.ok
    BY DEF FailedWrite
  <2> SUFFICES ASSUME NEW i \in DOMAIN cq', cq'[i].ok
               PROVE  cq'[i].event = "FINISHED"
    OBVIOUS
  <2>3. i \in 1..Len(Tail(cq)) \/ i = Len(Tail(cq)) + 1
    BY <2>1
  <2> QED BY <1>2, <1>3, <2>1, <2>2, <2>3
<1> QED BY <1>4, <1>5

(* A call that was refused succeeds in nothing, and one that is new has     *)
(* not completed anything.                                                  *)
LEMMA EventIsOpen ==
  ASSUME IInv, CallInv, Serving,
         NEW event \in {"READ_DONE", "WRITE_DONE"}, GotEvent(event),
         Head(cq).ok
  PROVE  Open /\ IsReadyToSend /\ ~closed
<1>1. /\ pc = "next" /\ 1 \in DOMAIN cq /\ cq[1].event = event /\ cq[1].ok
      /\ event \in ClientEvent \ {"CONNECTED"} /\ event # "FINISHED"
  BY GotFacts DEF ClientEvent
<1>2. status # "WAIT_CONNECT" /\ ops["CONNECTED"] = 0
  BY <1>1, NotConnecting
<1>3. status # "FINISHED"
  BY ServingEvent DEF Serving
<1>4. ~closed /\ status # "HALF_CLOSE"
  BY DEF IInv, ClosedInv, Serving, CallInv, HalfInv
<1>5. call # "new" /\ call # "refused"
  BY <1>1, <1>2 DEF CallInv, NewInv, RefusedInv
<1> QED BY <1>2, <1>3, <1>4, <1>5
        DEF Open, IsConnected, IsReadyToSend, IInv, TypeOK, StreamStatus

LEMMA TimeoutIsOpen ==
  ASSUME IInv, CallInv, Serving, pc = "next", IsReadyToSend,
         ok \/ ~IsConnected
  PROVE  Open /\ ~closed
<1>1. status # "WAIT_CONNECT" /\ status # "FINISHED" /\ ok
  BY DEF IsReadyToSend, IsConnected
<1>2. ops["CONNECTED"] = 0
  BY <1>1 DEF IInv, ConnectingInv, Connecting
<1>3. call # "new" /\ call # "refused"
  BY <1>1, <1>2 DEF CallInv, NewInv, RefusedInv
<1>4. ~closed
  BY DEF IInv, ClosedInv, Serving
<1> QED BY <1>1, <1>3, <1>4 DEF Open, IsConnected, IInv, TypeOK

(* What writing and flushing do to what is taken. *)
LEMMA SendMsgsHolds ==
  ASSUME TypeOK, ~closed, NEW q \in Seq(Packets \cup {Ping}), NEW rest, NEW S,
         \/ SendMsgs(q, rest, S)
         \/ q # <<>> /\ Write(q, rest, S)
  PROVE  toServer' \o streamQ' = toServer \o q /\ cq' = rest
<1>1. toServer \in Seq(Packets \cup {Ping})
  BY DEF TypeOK
<1>2. CASE q # <<>> /\ Write(q, rest, S)
  <2>1. /\ streamQ' = Tail(q) /\ toServer' = Append(toServer, Head(q))
        /\ cq' = rest
    BY <1>2 DEF Write
  <2>2. Append(toServer, Head(q)) \o Tail(q) = toServer \o q
    BY <1>1, <1>2
  <2> QED BY <2>1, <2>2
<1>3. CASE ~(q # <<>> /\ Write(q, rest, S))
  BY <1>3 DEF SendMsgs
<1> QED BY <1>2, <1>3

LEMMA ConcatTwice ==
  ASSUME NEW S, NEW a \in Seq(S), NEW b \in Seq(S), NEW c \in Seq(S)
  PROVE  a \o (b \o c) = (a \o b) \o c
OBVIOUS

LEMMA FlushHolds ==
  ASSUME TypeOK, NEW q \in Queues, SendAllMsgs(q)
  PROVE  msgQueue' = <<>> /\ WithoutPings(toServer \o q) = Held \o msgQueue
<1> DEFINE S == Packets \cup {Ping}
<1>1. PICK beat \in Beats : q = streamQ \o beat \o msgQueue /\ msgQueue' = <<>>
  BY DEF SendAllMsgs, AllMsgs
<1>2. /\ toServer \in Seq(S) /\ streamQ \in Seq(S) /\ msgQueue \in Seq(Packets)
      /\ Ping \in S
  BY DEF TypeOK
<1> HIDE DEF S
<1>3. beat \in Seq(S) /\ WithoutPings(beat) = <<>>
  <2>1. beat = <<>> \/ beat = <<Ping>>
    BY DEF Beats
  <2>2. <<>> \in Seq(S) /\ <<Ping>> \in Seq(S)
    BY <1>2
  <2> QED BY <1>2, <2>1, <2>2, WithoutPingsEmpty, WithoutPingsOne
<1>4. msgQueue \in Seq(S)
  BY <1>2 DEF S
<1>5. WithoutPings(msgQueue) = msgQueue
  BY <1>2, PingAssumption, WithoutPingsNone
<1>6. /\ toServer \o streamQ \in Seq(S)
      /\ (toServer \o streamQ) \o beat \in Seq(S)
      /\ toServer \o q = ((toServer \o streamQ) \o beat) \o msgQueue
  <2> DEFINE a == toServer
             b == streamQ
             c == msgQueue
  <2>1. a \in Seq(S) /\ b \in Seq(S) /\ beat \in Seq(S) /\ c \in Seq(S)
    BY <1>2, <1>3, <1>4
  <2> HIDE DEF a, b, c
  <2>2. a \o b \in Seq(S) /\ (a \o b) \o beat \in Seq(S)
    BY <2>1
  <2>3. a \o ((b \o beat) \o c) = (a \o (b \o beat)) \o c
    BY <2>1, ConcatTwice
  <2>4. a \o (b \o beat) = (a \o b) \o beat
    BY <2>1, ConcatTwice
  <2> QED BY <1>1, <2>2, <2>3, <2>4 DEF a, b, c
<1>7. WithoutPings((toServer \o streamQ) \o beat) = Held \o <<>>
  BY <1>2, <1>3, <1>6, WithoutPingsConcat DEF Held
<1>8. Held \in Seq(S) /\ Held \o <<>> = Held
  <2>1. Held \in Seq(S)
    BY <1>6, WithoutPingsType DEF Held
  <2> QED BY <2>1
<1>9. WithoutPings(((toServer \o streamQ) \o beat) \o msgQueue)
        = WithoutPings((toServer \o streamQ) \o beat) \o msgQueue
  BY <1>4, <1>5, <1>6, WithoutPingsConcat
<1> QED BY <1>1, <1>6, <1>7, <1>8, <1>9

-----------------------------------------------------------------------------
(* CallInv is inductive. *)

LEMMA HandlerCall ==
  ASSUME IInv, CallInv,
         NEW event \in {"READ_DONE", "WRITE_DONE", "HALF_CLOSE"},
         GotEvent(event), UNCHANGED pc,
         cq' = Tail(cq) \/ cq' = Append(Tail(cq), FailedWrite),
         status' # "WAIT_CONNECT",
         status' = "HALF_CLOSE" => status = "HALF_CLOSE"
  PROVE  CallInv'
<1>1. /\ pc = "next" /\ cq # <<>> /\ 1 \in DOMAIN cq /\ cq[1] = Head(cq)
      /\ cq[1].event # "FINISHED" /\ ok' = Head(cq).ok
      /\ UNCHANGED <<call, closed>>
  BY GotFacts DEF ClientEvent
<1>2. status # "WAIT_CONNECT" /\ ops["CONNECTED"] = 0
  BY NotConnecting DEF ClientEvent
<1>3. FreshInv' /\ HalfInv'
  BY <1>1 DEF FreshInv, Connecting, CallInv, HalfInv
<1>4. NewInv'
  BY <1>1, <1>2 DEF CallInv, NewInv
<1>5. RefusedInv'
  <2> SUFFICES ASSUME call = "refused"
               PROVE  /\ \A i \in DOMAIN cq' : cq'[i].ok =>
                                                cq'[i].event = "FINISHED"
                      /\ ~ok'
    BY <1>1 DEF RefusedInv
  <2>1. \A i \in DOMAIN cq : cq[i].ok => cq[i].event = "FINISHED"
    BY <1>1 DEF CallInv, RefusedInv
  <2>2. ~ok'
    BY <1>1, <2>1
  <2> QED BY <1>1, <2>1, <2>2, TakenLeaves DEF IInv
<1> QED BY <1>3, <1>4, <1>5 DEF CallInv

LEMMA LoopCall ==
  ASSUME IInv, CallInv, IInv', Loop
  PROVE  CallInv'
<1> USE DEF CallInv
<1>1. CASE CreateStream
  <2>1. /\ pc' = "next" /\ status' = "WAIT_CONNECT" /\ call' = "new"
        /\ toServer' = <<>> /\ streamQ' = <<>> /\ toClient' = <<>>
        /\ ops'["CONNECTED"] = ops["CONNECTED"] + 1
    BY <1>1 DEF CreateStream, Start, ClientEvent
  <2>2. ops["CONNECTED"] = 0
    BY <1>1 DEF CreateStream, IInv, FreshStreamAlone, ClientEvent
  <2> QED BY <2>1, <2>2 DEF FreshInv, NewInv, RefusedInv, HalfInv
<1>2. CASE Timeout
  <2>1. /\ pc = "next" /\ UNCHANGED <<pc, ok, call, closed, toClient>>
        /\ status # "WAIT_CONNECT"
    BY <1>2 DEF Timeout, IsConnected, IsReadyToSend
  <2>2. ops["CONNECTED"] = 0
    BY <2>1 DEF IInv, ConnectingInv, Connecting
  <2>3. CASE Finish(cq)
    <3>1. /\ cq' = cq
          /\ status' = status \/ status' = "FINISHED"
      BY <2>3 DEF Finish
    <3> QED BY <2>1, <2>2, <3>1 DEF FreshInv, NewInv, RefusedInv, HalfInv,
                                    Connecting
  <2>4. CASE \E q \in Queues : SendAllMsgs(q) /\ SendMsgs(q, cq, {})
    <3>1. PICK q \in Queues : SendMsgs(q, cq, {})
      BY <2>4
    <3>2. status' = status \/ status' = "WAIT_WRITE_DONE"
      BY <3>1 DEF SendMsgs, Write
    <3>3. CASE ~ok
      <4>1. Finish(cq)
        BY <1>2, <2>1, <3>3 DEF Timeout, IsConnected
      <4> QED BY <2>3, <4>1
    <3>4. CASE ok
      <4>1. call # "refused"
        BY <2>1, <3>4 DEF RefusedInv
      <4> QED BY <2>1, <2>2, <3>2, <4>1 DEF FreshInv, NewInv, RefusedInv,
                                            HalfInv, Connecting
    <3> QED BY <3>3, <3>4
  <2> QED BY <1>2, <2>3, <2>4 DEF Timeout
<1>3. CASE Connected
  <2>1. /\ GotEvent("CONNECTED") /\ "CONNECTED" \in ClientEvent
        /\ pc' = pc /\ status' = "READY_TO_WRITE" /\ cq' = Tail(cq)
    BY <1>3 DEF Connected, ClientEvent
  <2>2. /\ pc = "next" /\ cq # <<>> /\ 1 \in DOMAIN cq /\ cq[1] = Head(cq)
        /\ cq[1].event = "CONNECTED" /\ ok' = Head(cq).ok
        /\ ops["CONNECTED"] = 0 /\ UNCHANGED <<call, closed>>
    BY <2>1, GotFacts
  <2>3. RefusedInv'
    <3> SUFFICES ASSUME call = "refused"
                 PROVE  /\ \A i \in DOMAIN cq' : cq'[i].ok =>
                                                  cq'[i].event = "FINISHED"
                        /\ ~ok'
      BY <2>1, <2>2 DEF RefusedInv
    <3>1. \A i \in DOMAIN cq : cq[i].ok => cq[i].event = "FINISHED"
      BY <2>2 DEF RefusedInv
    <3>2. ~ok'
      BY <2>2, <3>1
    <3> QED BY <2>1, <2>2, <3>1, <3>2, TakenLeaves DEF IInv
  <2> QED BY <2>1, <2>2, <2>3 DEF FreshInv, Connecting, NewInv, HalfInv
<1>4. CASE ReadDone
  <2>1. GotEvent("READ_DONE") /\ pc' = pc
    BY <1>4 DEF ReadDone
  <2>2. PICK q \in Queues : SendMsgs(q, Tail(cq), {"READ_DONE"})
    BY <1>4 DEF ReadDone
  <2>3. status # "WAIT_CONNECT"
    BY <2>1, NotConnecting DEF ClientEvent
  <2>4. /\ status' = status \/ status' = "WAIT_WRITE_DONE"
        /\ cq' = Tail(cq) \/ cq' = Append(Tail(cq), FailedWrite)
    BY <2>2 DEF SendMsgs, Write, FailedWrite
  <2> QED BY <2>1, <2>3, <2>4, HandlerCall
<1>5. CASE WriteDone
  <2>1. GotEvent("WRITE_DONE") /\ pc' = pc
    BY <1>5 DEF WriteDone
  <2>2. /\ status' = "READY_TO_WRITE" \/ status' = "WAIT_WRITE_DONE"
        /\ cq' = Tail(cq) \/ cq' = Append(Tail(cq), FailedWrite)
    BY <1>5 DEF WriteDone, Write, FailedWrite
  <2> QED BY <2>1, <2>2, HandlerCall
<1>6. CASE Failed \/ HalfClosed
  <2>1. PICK event \in {"READ_DONE", "WRITE_DONE", "HALF_CLOSE"} :
          GotEvent(event)
    BY <1>6 DEF Failed, HalfClosed
  <2>2. Finish(Tail(cq)) /\ pc' = pc
    BY <1>6 DEF Failed, HalfClosed
  <2>3. status # "WAIT_CONNECT"
    BY <2>1, NotConnecting DEF ClientEvent
  <2>4. cq' = Tail(cq) /\ (status' = status \/ status' = "FINISHED")
    BY <2>2 DEF Finish
  <2> QED BY <2>1, <2>2, <2>3, <2>4, HandlerCall
<1>7. CASE Finished
  <2>1. pc' # "next" /\ UNCHANGED <<status, closed>>
    BY <1>7 DEF Finished, GotEvent
  <2> QED BY <2>1 DEF FreshInv, Connecting, NewInv, RefusedInv, HalfInv
<1> QED BY <1>1, <1>2, <1>3, <1>4, <1>5, <1>6, <1>7 DEF Loop

LEMMA DestroyCall ==
  ASSUME IInv, CallInv, Destroy
  PROVE  CallInv'
<1>1. /\ UNCHANGED <<pc, ok, cq, call, toServer, toClient, streamQ>>
      /\ HalfClose
  BY DEF Destroy
<1>2. CASE UNCHANGED <<status, ops, closed>>
  BY <1>1, <1>2 DEF CallInv, FreshInv, Connecting, NewInv, RefusedInv, HalfInv
<1>3. CASE ~UNCHANGED <<status, ops, closed>>
  <2>1. /\ status # "WAIT_CONNECT" /\ status' = "HALF_CLOSE" /\ closed'
        /\ ops'["CONNECTED"] = ops["CONNECTED"] + 0
    BY <1>1, <1>3 DEF HalfClose, Start, ClientEvent
  <2>2. ops'["CONNECTED"] = ops["CONNECTED"]
    BY <2>1 DEF IInv, TypeOK, ClientEvent
  <2> QED BY <1>1, <2>1, <2>2
          DEF CallInv, FreshInv, Connecting, NewInv, RefusedInv, HalfInv
<1> QED BY <1>2, <1>3

LEMMA CompleteCall ==
  ASSUME IInv, CallInv, NEW event \in ClientEvent, NEW b \in BOOLEAN,
         Complete(event, b), b => event = "FINISHED" \/ call' # "refused",
         event = "CONNECTED" => call' # "new",
         event # "CONNECTED" => call' = call
  PROVE  CallInv'
<1> USE DEF CallInv
<1> DEFINE c == [event |-> event, ok |-> b]
<1>1. /\ cq' = Append(cq, c) /\ ops[event] > 0
      /\ ops' = [ops EXCEPT ![event] = @ - 1]
      /\ UNCHANGED <<pc, ok, status, closed, toServer, toClient, streamQ>>
  BY DEF Complete, loop
<1>2. FreshInv' /\ HalfInv'
  BY <1>1 DEF FreshInv, Connecting, HalfInv
<1>3. NewInv'
  <2>1. event # "CONNECTED" => ops'["CONNECTED"] = ops["CONNECTED"]
    BY <1>1 DEF IInv, TypeOK, ClientEvent
  <2> QED BY <1>1, <2>1 DEF NewInv
<1>4. RefusedInv'
  <2> SUFFICES ASSUME pc = "next", call' = "refused"
               PROVE  /\ \A i \in DOMAIN cq' : cq'[i].ok =>
                                                cq'[i].event = "FINISHED"
                      /\ status # "WAIT_CONNECT" => ~ok
    BY <1>1 DEF RefusedInv
  <2>1. /\ \A i \in DOMAIN cq : cq[i].ok => cq[i].event = "FINISHED"
        /\ status # "WAIT_CONNECT" => ~ok
    <3>1. CASE event = "CONNECTED"
      <4>1. ops["CONNECTED"] # 0
        BY <1>1, <3>1
      <4>2. Connecting
        BY <4>1 DEF IInv, ConnectingInv
      <4>3. \A e \in ClientEvent : In(cq, e) = {}
        BY <4>1, <4>2, OneMeaning DEF IInv, ConnectingInv, Nothing, ClientEvent
      <4>4. \A i \in DOMAIN cq : FALSE
        <5> SUFFICES ASSUME NEW i \in DOMAIN cq PROVE FALSE
          OBVIOUS
        <5>1. cq \in Seq(Completion)
          BY DEF IInv, TypeOK, Completion
        <5>2. cq[i] \in Completion
          BY <5>1
        <5>3. cq[i].event \in ClientEvent
          BY <5>2 DEF Completion
        <5> QED BY <4>3, <5>3 DEF In
      <4> QED BY <4>2, <4>4 DEF Connecting
    <3>2. CASE event # "CONNECTED"
      BY <3>2 DEF RefusedInv
    <3> QED BY <3>1, <3>2
  <2>2. c.ok => c.event = "FINISHED"
    OBVIOUS
  <2>3. /\ DOMAIN cq' = 1..(Len(cq) + 1) /\ DOMAIN cq = 1..Len(cq)
        /\ Len(cq) \in Nat
        /\ \A i \in 1..Len(cq) : cq'[i] = cq[i]
        /\ cq'[Len(cq) + 1] = c
    <3>1. cq \in Seq(Completion)
      BY DEF IInv, TypeOK, Completion
    <3> HIDE DEF c
    <3> QED BY <1>1, <3>1, AppendFacts
  <2> HIDE DEF c
  <2>4. ASSUME NEW i \in DOMAIN cq', cq'[i].ok
        PROVE  cq'[i].event = "FINISHED"
    <3>1. i \in 1..Len(cq) \/ i = Len(cq) + 1
      BY <2>3
    <3> QED BY <2>1, <2>2, <2>3, <2>4, <3>1
  <2> QED BY <2>1, <2>4
<1> QED BY <1>2, <1>3, <1>4

LEMMA OtherCall ==
  ASSUME IInv, CallInv, Next, ~Loop, ~Destroy
  PROVE  CallInv'
<1>1. CASE Send \/ Joined \/ ServerEndsCall \/ CallBreaks
  <2>1. /\ UNCHANGED <<pc, ok, status, cq, ops, closed>>
        /\ UNCHANGED <<toServer, toClient, streamQ>>
        /\ call' = call \/ call' = "broken"
    BY <1>1 DEF Send, Joined, ServerEndsCall, CallBreaks, CallEnds, loop, grpc
  <2> QED
    BY <2>1 DEF CallInv, FreshInv, Connecting, NewInv, RefusedInv, HalfInv
<1>2. CASE ServerReads \/ ServerWrites
  <2>1. /\ UNCHANGED <<pc, ok, status, cq, ops, closed, call, streamQ>>
        /\ toServer # <<>> \/ status # "WAIT_CONNECT"
    BY <1>2 DEF ServerReads, ServerWrites, loop, IsConnected
  <2> QED
    BY <2>1 DEF CallInv, FreshInv, Connecting, NewInv, RefusedInv, HalfInv
<1>3. CASE CallStarts \/ CallRefused
  <2>1. CASE CallStarts
    BY <2>1, CompleteCall DEF CallStarts, ClientEvent
  <2>2. CASE CallRefused
    BY <2>2, CompleteCall DEF CallRefused, ClientEvent
  <2> QED BY <1>3, <2>1, <2>2
<1>4. CASE WriteSucceeds \/ HalfCloseSucceeds \/ ReadSucceeds
  <2>1. PICK event \in {"WRITE_DONE", "HALF_CLOSE", "READ_DONE"} :
          Complete(event, TRUE) /\ call = "open" /\ call' = call
    BY <1>4 DEF WriteSucceeds, HalfCloseSucceeds, ReadSucceeds
  <2> QED BY <2>1, CompleteCall DEF ClientEvent
<1>5. CASE OperationFails \/ FinishCompletes
  <2>1. PICK event \in {"READ_DONE", "WRITE_DONE", "HALF_CLOSE", "FINISHED"},
             b \in BOOLEAN :
          Complete(event, b) /\ call' = call /\ (b => event = "FINISHED")
    BY <1>5 DEF OperationFails, FinishCompletes
  <2> QED BY <2>1, CompleteCall DEF ClientEvent
<1> QED BY <1>1, <1>2, <1>3, <1>4, <1>5 DEF Next, Grpc

-----------------------------------------------------------------------------
(* Every step refines. *)

LEMMA LoopRefines ==
  ASSUME IInv, CallInv, IInv', CallInv', Loop, Serving
  PROVE  Refines
<1>1. Serving'
  BY DEF Loop, CreateStream, Timeout, Connected, ReadDone, WriteDone, Failed,
         HalfClosed, Finished, GotEvent, Serving
<1>2. ~closed /\ TypeOK
  BY DEF IInv, ClosedInv, Serving
<1>3. CASE CreateStream
  <2>1. ~Open /\ ~Open' /\ UNCHANGED msgQueue
    BY <1>3 DEF CreateStream, Open, IsConnected, IInv, FinishInv
  <2> QED BY <1>1, <2>1, ClosedStutters
<1>4. ASSUME NEW rest, Finish(rest), UNCHANGED <<call, toClient>>,
             status \notin {"WAIT_CONNECT", "HALF_CLOSE"}
      PROVE  Refines
  <2>1. ~Open' /\ UNCHANGED msgQueue
    BY <1>4 DEF Finish, Open
  <2>2. CASE Open
    BY <1>1, <1>2, <2>1, <2>2, Disconnects
  <2>3. CASE ~Open
    BY <1>1, <2>1, <2>3, ClosedStutters
  <2> QED BY <2>2, <2>3
<1>5. status # "HALF_CLOSE"
  BY <1>2 DEF CallInv, HalfInv
<1>6. CASE Timeout
  <2>1. /\ pc = "next" /\ UNCHANGED <<call, toClient>>
        /\ status # "WAIT_CONNECT"
    BY <1>6 DEF Timeout, IsConnected, IsReadyToSend
  <2>2. CASE Finish(cq)
    BY <1>4, <1>5, <2>1, <2>2
  <2>3. CASE ~Finish(cq)
    <3>1. PICK q \in Queues : SendAllMsgs(q) /\ SendMsgs(q, cq, {})
      BY <1>6, <2>3 DEF Timeout
    <3>2. Open
      BY <1>6, <2>1, <2>3, TimeoutIsOpen DEF Timeout
    <3>3. q \in Seq(Packets \cup {Ping})
      BY <1>2, QueuesType
    <3>4. msgQueue' = <<>> /\ Held' = Held \o msgQueue
      BY <1>2, <3>1, <3>3, SendMsgsHolds, FlushHolds DEF Held
    <3>5. Open'
      BY <2>1, <3>1, <3>2 DEF SendMsgs, Write, Open, IsConnected
    <3> QED BY <1>1, <2>1, <3>2, <3>4, <3>5, SendsAllMsgs
  <2> QED BY <2>2, <2>3
<1>7. CASE Connected
  <2>1. /\ GotEvent("CONNECTED") /\ "CONNECTED" \in ClientEvent
        /\ status' = "READY_TO_WRITE"
        /\ UNCHANGED <<msgQueue, streamQ, toServer, toClient, call>>
    BY <1>7 DEF Connected, GotEvent, ClientEvent
  <2>2. Connecting
    BY <2>1, GotFacts DEF IInv, ConnectingInv
  <2>3. toServer = <<>> /\ streamQ = <<>> /\ toClient = <<>> /\ ~Open
    BY <2>2 DEF CallInv, FreshInv, Open, Connecting, IsConnected
  <2>4. Held' = <<>>
    <3>1. toServer' \o streamQ' = <<>>
      BY <2>1, <2>3
    <3> QED BY <3>1, WithoutPingsEmpty DEF Held
  <2>5. CASE Open'
    BY <1>1, <2>1, <2>3, <2>4, <2>5, Connects
  <2>6. CASE ~Open'
    BY <1>1, <2>1, <2>3, <2>6, ClosedStutters
  <2> QED BY <2>5, <2>6
<1>8. ASSUME NEW q \in Queues, Flush(q), IsReadyToSend, NEW rest, NEW S,
             SendMsgs(q, rest, S) \/ (q # <<>> /\ Write(q, rest, S))
      PROVE  msgQueue' = <<>> /\ Held' = Held \o msgQueue
  <2>1. q \in Seq(Packets \cup {Ping}) /\ SendAllMsgs(q)
    BY <1>2, <1>8, QueuesType DEF Flush
  <2> QED BY <1>2, <1>8, <2>1, SendMsgsHolds, FlushHolds DEF Held
<1>9. CASE ReadDone
  <2>1. /\ GotEvent("READ_DONE") /\ Head(cq).ok /\ call' = call
        /\ toClient' = Tail(toClient)
    BY <1>9 DEF ReadDone, GotEvent
  <2>2. Open /\ IsReadyToSend
    BY <2>1, EventIsOpen
  <2>3. PICK q \in Queues : Flush(q) /\ SendMsgs(q, Tail(cq), {"READ_DONE"})
    BY <1>9 DEF ReadDone
  <2>4. msgQueue' = <<>> /\ Held' = Held \o msgQueue
    BY <1>8, <2>2, <2>3
  <2>5. Open'
    BY <2>1, <2>2, <2>3 DEF SendMsgs, Write, Open, IsConnected
  <2>6. toClient # <<>>
    <3>1. 1 \in Completed("READ_DONE") /\ cq[1].ok
      BY <2>1, GotFacts DEF Completed, ClientEvent
    <3> QED BY <3>1 DEF IInv, ReadInv
  <2> QED BY <1>1, <2>1, <2>2, <2>4, <2>5, <2>6, Reads
<1>10. CASE WriteDone
  <2>1. /\ GotEvent("WRITE_DONE") /\ Head(cq).ok
        /\ UNCHANGED <<call, toClient>>
    BY <1>10 DEF WriteDone, GotEvent
  <2>2. Open /\ IsReadyToSend
    BY <2>1, EventIsOpen
  <2>3. PICK q \in Queues :
          /\ Flush(q)
          /\ IF q = <<>>
             THEN /\ status' = "READY_TO_WRITE"
                  /\ streamQ' = q
                  /\ cq' = Tail(cq)
                  /\ UNCHANGED <<ops, toServer>>
             ELSE Write(q, Tail(cq), {})
    BY <1>10 DEF WriteDone
  <2>4. msgQueue' = <<>> /\ Held' = Held \o msgQueue
    <3>1. CASE q = <<>>
      <4>1. SendAllMsgs(q)
        BY <2>2, <2>3 DEF Flush
      <4>2. toServer' \o streamQ' = toServer \o q
        BY <2>3, <3>1
      <4> QED BY <1>2, <4>1, <4>2, FlushHolds DEF Held
    <3>2. CASE q # <<>>
      BY <1>8, <2>2, <2>3, <3>2
    <3> QED BY <3>1, <3>2
  <2>5. Open'
    BY <2>1, <2>2, <2>3 DEF Write, Open, IsConnected
  <2> QED BY <1>1, <2>1, <2>2, <2>4, <2>5, SendsAllMsgs
<1>11. CASE Failed \/ HalfClosed
  <2>1. PICK event \in {"READ_DONE", "WRITE_DONE", "HALF_CLOSE"} :
          GotEvent(event)
    BY <1>11 DEF Failed, HalfClosed
  <2>2. status # "WAIT_CONNECT" /\ call' = call
    BY <2>1, NotConnecting DEF ClientEvent, GotEvent
  <2>3. Finish(Tail(cq)) /\ toClient' = toClient
    BY <1>11 DEF Failed, HalfClosed
  <2> QED BY <1>4, <1>5, <2>2, <2>3
<1>12. CASE Finished
  <2>1. UNCHANGED <<status, msgQueue, streamQ, toServer, toClient, call>>
    BY <1>12 DEF Finished, GotEvent
  <2>2. Open' = Open /\ Held' = Held
    BY <2>1 DEF Open, IsConnected, Held
  <2> QED BY <1>1, <2>1, <2>2, View, ViewNext, Stutters
<1> QED
  BY <1>3, <1>6, <1>7, <1>9, <1>10, <1>11, <1>12 DEF Loop

LEMMA ServerReadsRefines ==
  ASSUME IInv, ServerReads, Serving
  PROVE  Refines
<1>1. /\ toServer # <<>> /\ toServer' = Tail(toServer)
      /\ UNCHANGED <<destroy, status, call, msgQueue, streamQ, toClient>>
  BY DEF ServerReads, loop
<1>2. Serving' /\ Serving' = Serving /\ Open' = Open
  BY <1>1 DEF Serving, Open, IsConnected
<1>3. CASE ~Open
  BY <1>1, <1>2, <1>3, ClosedStutters
<1>4. CASE Open
  <2> DEFINE S == Packets \cup {Ping}
             s == toServer \o streamQ
  <2>1. /\ toServer \in Seq(S) /\ streamQ \in Seq(S)
    BY DEF IInv, TypeOK
  <2>2. /\ s \in Seq(S) /\ s # <<>>
        /\ Tail(s) = Tail(toServer) \o streamQ
    <3> HIDE DEF S
    <3> QED BY <1>1, <2>1
  <2>3. Held' = WithoutPings(Tail(s))
    BY <1>1, <2>2 DEF Held
  <2>4. Held = WithoutPings(s)
    BY DEF Held
  <2> HIDE DEF S, s
  <2>5. \/ Held' = Held
        \/ Held # <<>> /\ Held' = Tail(Held)
    BY <2>2, <2>3, <2>4, WithoutPingsTail
  <2>6. CASE Held' = Held
    BY <1>1, <1>2, <1>4, <2>6, View, ViewNext, Stutters
  <2>7. CASE Held # <<>> /\ Held' = Tail(Held)
    BY <1>1, <1>2, <1>4, <2>7, ServerTakes
  <2> QED BY <2>5, <2>6, <2>7
<1> QED BY <1>3, <1>4

LEMMA OtherRefines ==
  ASSUME IInv, CallInv, Next, ~Loop, ~Destroy, Serving
  PROVE  Refines
<1>1. CASE Send
  <2>1. /\ UNCHANGED <<destroy, status, call, streamQ, toServer, toClient>>
        /\ sent' = sent + 1 /\ sent < MaxSends
        /\ msgQueue' = Append(msgQueue, sent')
    BY <1>1 DEF Send, loop, grpc
  <2>2. sent' \in Packets
    BY <2>1, BoundsType DEF IInv, TypeOK, Packets
  <2>3. Serving' /\ Open' = Open /\ Held' = Held
    BY <2>1 DEF Serving, Open, IsConnected, Held
  <2> QED BY <2>1, <2>2, <2>3, Sends
<1>2. ASSUME UNCHANGED <<destroy, status, msgQueue, streamQ, toServer,
                         toClient>>,
             Open' = Open
      PROVE  Refines
  <2>1. Serving' /\ Serving' = Serving /\ Held' = Held
    BY <1>2 DEF Serving, Held
  <2>2. UNCHANGED <<Unsent, Taken, Unread>>
    BY <1>2, <2>1 DEF Unsent, Taken, Unread, Held
  <2> QED BY <1>2, <2>1, <2>2, Stutters
<1>3. CASE ServerReads
  BY <1>3, ServerReadsRefines
<1>4. CASE ServerWrites
  <2>1. /\ UNCHANGED <<destroy, status, call, msgQueue, streamQ, toServer>>
        /\ call = "open" /\ IsConnected
        /\ pushed' = pushed + 1 /\ pushed < MaxPushes
        /\ toClient' = Append(toClient, pushed')
    BY <1>4 DEF ServerWrites, loop
  <2>2. pushed' \in Pushes
    BY <2>1, BoundsType DEF IInv, TypeOK, Pushes
  <2>3. Serving' /\ Open' = Open /\ Held' = Held
    BY <2>1 DEF Serving, Open, IsConnected, Held
  <2>4. CASE Open
    BY <2>1, <2>2, <2>3, <2>4, ServerPushes
  <2>5. CASE ~Open
    BY <2>1, <2>3, <2>5, ClosedStutters
  <2> QED BY <2>4, <2>5
<1>5. CASE ServerEndsCall \/ CallBreaks
  <2>1. /\ UNCHANGED <<destroy, status, msgQueue, streamQ, toServer, toClient>>
        /\ call = "open" /\ call' = "broken"
    BY <1>5 DEF ServerEndsCall, CallBreaks, CallEnds, loop
  <2>2. Open' = Open
    BY <2>1 DEF Open, IsConnected
  <2> QED BY <1>2, <2>1, <2>2
<1>6. CASE CallStarts \/ CallRefused
  <2>1. /\ UNCHANGED <<destroy, status, msgQueue, streamQ, toServer, toClient>>
        /\ ops["CONNECTED"] # 0
    BY <1>6 DEF CallStarts, CallRefused, Complete, loop
  <2>2. ~Open /\ ~Open'
    BY <2>1 DEF IInv, ConnectingInv, Connecting, Open, IsConnected
  <2>3. Open' = Open
    BY <2>2 DEF Open
  <2> QED BY <1>2, <2>1, <2>3
<1>7. CASE \/ WriteSucceeds \/ HalfCloseSucceeds \/ ReadSucceeds
           \/ OperationFails \/ FinishCompletes
  <2>1. /\ UNCHANGED <<destroy, status, msgQueue, streamQ, toServer, toClient>>
        /\ call' = call
    BY <1>7 DEF WriteSucceeds, HalfCloseSucceeds, ReadSucceeds, OperationFails,
                FinishCompletes, Complete, loop
  <2>2. Open' = Open
    BY <2>1 DEF Open, IsConnected
  <2> QED BY <1>2, <2>1, <2>2
<1>8. ~Joined
  BY DEF Joined, Serving
<1> QED BY <1>1, <1>3, <1>4, <1>5, <1>6, <1>7, <1>8 DEF Next, Grpc

LEMMA StepRefines ==
  ASSUME IInv, CallInv, IInv', CallInv', [Next]_vars
  PROVE  Refines
<1>1. CASE UNCHANGED vars
  <2>1. /\ Serving' = Serving /\ Open' = Open
        /\ UNCHANGED <<Unsent, Taken, Unread>>
    BY <1>1 DEF vars, loop, grpc, Serving, Open, IsConnected, Unsent, Taken,
                Unread
  <2> QED BY <2>1, Stutters
<1>2. CASE Next /\ ~Serving
  <2>1. ~Serving'
    BY <1>2 DEF Next, Loop, CreateStream, Timeout, Connected, ReadDone,
                WriteDone, Failed, HalfClosed, Finished, GotEvent, Send,
                Destroy, Joined, CallStarts, CallRefused, Grpc, WriteSucceeds,
                HalfCloseSucceeds, ReadSucceeds, OperationFails,
                FinishCompletes, Complete, ServerEndsCall, CallBreaks,
                CallEnds, ServerReads, ServerWrites, Serving
  <2> QED BY <1>2, <2>1, OverStutters
<1>3. CASE Next /\ Serving
  <2>1. CASE Loop
    BY <1>3, <2>1, LoopRefines
  <2>2. CASE Destroy
    <3>1. ~Serving'
      BY <2>2 DEF Destroy, Serving
    <3> QED BY <1>3, <3>1, Closes
  <2> QED BY <1>3, <2>1, <2>2, OtherRefines
<1> QED BY <1>1, <1>2, <1>3

LEMMA CallStep ==
  ASSUME IInv, CallInv, IInv', [Next]_vars
  PROVE  CallInv'
<1>1. CASE UNCHANGED vars
  BY <1>1 DEF vars, loop, grpc, CallInv, FreshInv, Connecting, NewInv,
              RefusedInv, HalfInv
<1> QED BY <1>1, LoopCall, DestroyCall, OtherCall

LEMMA CallInit ==
  ASSUME Init
  PROVE  CallInv /\ Abs!Init
<1>1. CallInv
  BY DEF Init, CallInv, FreshInv, Connecting, NewInv, RefusedInv, HalfInv
<1>2. Serving /\ ~Open /\ msgQueue = <<>>
  BY DEF Init, Serving, Open, IsConnected
<1>3. Abs!Init
  BY <1>2, View DEF Abs!Init, Abs!TransportInit, Serving
<1> QED BY <1>1, <1>3

(* For any number of packets, pushes, faults and heartbeats, the loop of    *)
(* Client implements the transport that Session runs over: it takes what    *)
(* Send queued in order and once, hands on what the server wrote in order   *)
(* and once, and only the end of a stream loses any.                        *)
THEOREM LoopRefinesTransport == Spec => RefinesTransport
<1>1. Init => IInv /\ CallInv /\ Abs!Init
  BY StreamInit, CallInit
<1>2. IInv /\ CallInv /\ [Next]_vars => IInv' /\ CallInv'
  BY StreamNext, CallStep
<1>3. IInv /\ CallInv /\ IInv' /\ CallInv' /\ [Next]_vars
        => [Abs!Next]_(Abs!channel)
  BY StepRefines DEF Refines
<1> QED BY <1>1, <1>2, <1>3, PTL DEF Spec, RefinesTransport, Abs!Spec
=============================================================================
