-------------------------- MODULE SessionRetraction --------------------------
(***************************************************************************)
(* What the client has under way to the gateway ends with what the client  *)
(* wants: NoRetractionAfterRequest holds for every value of the constants, *)
(* if wait_for returns only when notified or out of time.                  *)
(***************************************************************************)
EXTENDS SessionProofs, SequenceTheorems

(* The packets the gateway has yet to read, in the order in which it will. *)
Out == wire \o sendQ

(* A packet that speaks of the groups gs (or, with none, of the user). *)
Says(p, kind, gs) == p.kind = kind /\ gs \subseteq p.groups

(* Where a call can be before its answer is taken: with the caller that    *)
(* has yet to send it, on its way to the gateway, answered.                *)
Sending == {ts \in {api.ts} : api.pc \in {"register", "send"}}
Sent == {Out[i].ts : i \in 1..Len(Out)} \ {0}
AnswersIn(s) ==
  {s[i].ts : i \in {j \in 1..Len(s) : s[j].type = "ANSWER"}} \ {0}
Answered == AnswersIn(inbox)

(* Packets, but for those resent with timestamp 0, are those of calls, ... *)
PacketsMatch ==
  \A i \in 1..Len(Out) :
    Out[i].ts # 0 => /\ Out[i].ts \in Ts /\ Out[i].ts < clock
                     /\ Out[i].kind = ctx[Out[i].ts].kind
                     /\ Out[i].groups = ctx[Out[i].ts].groups

(* ... and a call is in one place at a time, until its answer is taken. *)
SentOnce ==
  \A i, j \in 1..Len(Out) : Out[i].ts # 0 /\ Out[i].ts = Out[j].ts => i = j
OnePlace ==
  /\ \A ts \in Sending \cup Sent :
       ts \notin Answered /\ ctx[ts].answer = "none"
  /\ Sending \cap Sent = {}
  /\ \A ts \in Answered : ts < clock

PacketsInv == PacketsMatch /\ SentOnce /\ OnePlace

(* The client retracts only what it does not want. *)
RetractsUnwanted ==
  Sending # {} =>
    /\ ctx[api.ts].kind = "LOGOUT" => user = NoUser
    /\ ctx[api.ts].kind = "LEAVE_GROUP" => ctx[api.ts].groups \cap groups = {}

(* A caller that has returned was answered, or timed out. *)
Busy(ts) == api.pc # "idle" /\ api.ts = ts
Settled(ts) == ctx[ts].res = "TIMEOUT" \/ ctx[ts].answer # "none"
CallsSettle ==
  \A ts \in Ts :
    ts < clock /\ ~ctx[ts].retry /\ ~Busy(ts) => Settled(ts)

(* A call of the application's that asks again for what was retracted. *)
Asks(p, kind, gs) == Says(p, kind, gs) /\ p.ts # 0 /\ ~ctx[p.ts].retry
AskedAgain(no, yes, gs) ==
  \A i \in 1..Len(Out) :
    Says(Out[i], no, gs) =>
      \E j \in 1..Len(Out) : j > i /\ Asks(Out[j], yes, gs)

(* Such a call that timed out and is nowhere any more. *)
Dropped(kind, gs) ==
  \E ts \in Ts :
    /\ ts < clock
    /\ ctx[ts].kind = kind /\ gs \subseteq ctx[ts].groups
    /\ ctx[ts].res = "TIMEOUT" /\ ctx[ts].answer = "none"
    /\ ts \notin Sending \cup Sent \cup Answered

Asked(no, yes, gs) ==
  Unsent(yes, gs) \/ AskedAgain(no, yes, gs) \/ Dropped(yes, gs)
WantsAreAsked ==
  /\ user # NoUser => Asked("LOGOUT", "LOGIN", {})
  /\ \A g \in groups : Asked("LEAVE_GROUP", "JOIN_GROUP", {g})

-----------------------------------------------------------------------------
(* What steps do to the packets under way. *)

(* The first n go. *)
Drops(n) ==
  /\ n \in 0..Len(Out)
  /\ Len(Out') = Len(Out) - n
  /\ \A i \in 1..Len(Out') : Out'[i] = Out[i + n]
(* All but the first n go. *)
Cuts(n) ==
  /\ n \in 0..Len(Out)
  /\ Len(Out') = n
  /\ \A i \in 1..n : Out'[i] = Out[i]
(* One comes last. *)
Adds(p) ==
  /\ Len(Out') = Len(Out) + 1
  /\ \A i \in 1..Len(Out) : Out'[i] = Out[i]
  /\ Out'[Len(Out) + 1] = p

(* What is under way is a sequence of packets. *)
LEMMA OutType == ASSUME TypeOK PROVE Out \in Seq(Request)
  BY DEF TypeOK, LinkType, Out

(* Steps that touch neither queue leave what is under way. *)
LEMMA OutStays ==
  ASSUME TypeOK, UNCHANGED <<wire, sendQ>>
  PROVE  Drops(0)
<1>1. Out \in Seq(Request) /\ Out' = Out
  BY OutType DEF Out
<1> HIDE DEF Out
<1>. QED
  BY <1>1 DEF Drops

(* SendAllMsgs moves packets, and loses none. *)
LEMMA FlushKeepsOut ==
  ASSUME TypeOK, SendAllMsgs
  PROVE  Drops(0)
<1>1. Out \in Seq(Request)
  BY OutType
<1>2. Out' = Out \o <<>>
  BY DEF SendAllMsgs, Out
<1>3. Out' = Out
  BY <1>1, <1>2, ConcatEmptySeq
<1>. QED
  BY <1>1, <1>3 DEF Drops

(* Client::Send adds a packet at the end. *)
LEMMA SendAdds ==
  ASSUME TypeOK, NEW p \in Request, Send(p), wire' = wire
  PROVE  Adds(p)
<1>1. wire \in Seq(Request) /\ sendQ \in Seq(Request)
  BY DEF TypeOK, LinkType
<1>2. Out' = wire \o Append(sendQ, p)
  BY DEF Send, Out
<1>3. Out = wire \o sendQ
  BY DEF Out
<1>. QED
  BY <1>1, <1>2, <1>3 DEF Adds

(* A message's handler adds what it sends, before or after the queues move. *)
LEMMA ReceiveAdds ==
  ASSUME TypeOK, NEW type, NEW out \in Seq(Request), Receive(type, out)
  PROVE  Out' = Out \o out
<1>1. wire \in Seq(Request) /\ sendQ \in Seq(Request)
  BY DEF TypeOK, LinkType
<1>2. \/ wire' = wire \o sendQ /\ sendQ' = out
      \/ sendQ' = sendQ \o out /\ wire' = wire
  BY Zenon DEF Receive, Read
<1>3. (wire \o sendQ) \o out = wire \o (sendQ \o out)
  BY <1>1, ConcatAssociative
<1>. QED
  BY <1>2, <1>3 DEF Out

(* A handler that sends nothing leaves what is under way. *)
LEMMA ReceiveNothing ==
  ASSUME TypeOK, NEW type, Receive(type, <<>>)
  PROVE  Drops(0)
<1>1. Out \in Seq(Request) /\ <<>> \in Seq(Request)
  BY OutType
<1>2. Out' = Out
  BY <1>1, ReceiveAdds, ConcatEmptySeq
<1>. QED
  BY <1>1, <1>2 DEF Drops

(* A handler that resends adds one packet at the end. *)
LEMMA ReceiveResends ==
  ASSUME TypeOK, NEW type, NEW p \in Request, Receive(type, <<p>>)
  PROVE  Adds(p)
<1>1. Out \in Seq(Request) /\ <<p>> \in Seq(Request)
  BY OutType
<1>2. Out' = Out \o <<p>>
  BY <1>1, ReceiveAdds
<1>. QED
  BY <1>1, <1>2 DEF Adds

(* The gateway takes the first packet. *)
LEMMA ServeDrops ==
  ASSUME TypeOK, wire # <<>>, wire' = Tail(wire), sendQ' = sendQ
  PROVE  Drops(1) /\ Len(Out) >= 1 /\ Out[1] = Head(wire)
<1>1. wire \in Seq(Request) /\ sendQ \in Seq(Request)
  BY DEF TypeOK, LinkType
<1>. QED
  BY <1>1 DEF Drops, Out

(* A break loses what the stream took, and not the client's queue. *)
LEMMA LinkDownDrops ==
  ASSUME TypeOK, wire' = <<>>, sendQ' = sendQ
  PROVE  Drops(Len(wire))
<1>1. wire \in Seq(Request) /\ sendQ \in Seq(Request)
  BY DEF TypeOK, LinkType
<1>. QED
  BY <1>1 DEF Drops, Out

(* CleanQueue loses the client's queue, and not what the stream took. *)
LEMMA CleanCuts ==
  ASSUME TypeOK, wire' = wire, CleanQueue
  PROVE  Cuts(Len(wire))
<1>1. wire \in Seq(Request) /\ sendQ \in Seq(Request)
  BY DEF TypeOK, LinkType
<1>. QED
  BY <1>1 DEF Cuts, Out, CleanQueue

(* ... and to the answers. *)
LEMMA AnswersTail ==
  ASSUME TypeOK, inbox # <<>>, inbox' = Tail(inbox)
  PROVE  /\ Answered' \subseteq Answered
         /\ Head(inbox).type = "ANSWER" /\ Head(inbox).ts # 0
              => Head(inbox).ts \in Answered
<1>1. inbox \in Seq(Reply)
  BY DEF TypeOK, LinkType
<1>. QED
  BY <1>1 DEF Answered, AnswersIn

(* A stream that finishes loses answers. *)
LEMMA AnswersCut ==
  ASSUME TypeOK, NEW n \in 0..Len(inbox), inbox' = SubSeq(inbox, 1, n)
  PROVE  Answered' \subseteq Answered
<1>1. inbox \in Seq(Reply)
  BY DEF TypeOK, LinkType
<1>. QED
  BY <1>1 DEF Answered, AnswersIn

(* The gateway's message adds at most its own answer. *)
LEMMA AnswersAppend ==
  ASSUME TypeOK, NEW m \in Reply, inbox' = Append(inbox, m)
  PROVE  /\ Answered' \subseteq Answered \cup ({m.ts} \ {0})
         /\ m.type # "ANSWER" => Answered' \subseteq Answered
<1>1. inbox \in Seq(Reply)
  BY DEF TypeOK, LinkType
<1>. QED
  BY <1>1 DEF Answered, AnswersIn

(* Steps that leave the inbox leave the answers. *)
LEMMA AnswersStay ==
  ASSUME inbox' = inbox
  PROVE  Answered' = Answered
  BY DEF Answered

-----------------------------------------------------------------------------
(* The four kinds of steps. *)

(* What is known of the calls made lasts: a call that timed out and was    *)
(* not answered stays so, until an answer on its way is taken.             *)
CallsLast ==
  \A ts \in Ts : ts < clock =>
    /\ ctx'[ts].kind = ctx[ts].kind /\ ctx'[ts].groups = ctx[ts].groups
    /\ ctx'[ts].retry = ctx[ts].retry
    /\ ts \notin Answered => ctx'[ts].answer = ctx[ts].answer
    /\ ctx[ts].answer # "none" => ctx'[ts].answer # "none"
    /\ ctx[ts].res = "TIMEOUT" /\ ctx[ts].answer = "none"
         => ctx'[ts].res = "TIMEOUT"

(* Nothing is queued and no call is made. *)
Listens ==
  /\ \E n \in 0..Len(Out) : Drops(n)
  /\ CallsLast /\ clock' = clock
  /\ Sending' = Sending /\ api'.ts = api.ts
  /\ api.pc # "idle" /\ api'.pc = "idle" => Settled(api.ts)
  /\ Answered' \subseteq Answered \cup (Sent \ Sent')
  /\ user' \in {user, NoUser} /\ groups' \subseteq groups

(* A packet is queued: one that is resent, a retry, or the caller's. *)
Retracts(p) ==
  /\ p.kind = "LOGOUT" => user = NoUser
  /\ p.kind = "LEAVE_GROUP" => p.groups \cap groups = {}
Speaks(p) ==
  /\ p \in Request /\ Adds(p) /\ Retracts(p)
  /\ CallsLast
  /\ api'.ts = api.ts /\ (api.pc # "idle" => api'.pc # "idle")
  /\ Answered' \subseteq Answered
  /\ UNCHANGED <<user, groups>>
  /\ \/ p.ts = 0 /\ Sending' = Sending /\ clock' = clock
     \/ /\ p.ts = clock /\ clock \in Ts /\ clock' = clock + 1
        /\ ctx'[clock].kind = p.kind /\ ctx'[clock].groups = p.groups
        /\ ctx'[clock].answer = "none" /\ ctx'[clock].retry
        /\ Sending' = Sending
     \/ /\ Sending = {p.ts} /\ Sending' = {} /\ clock' = clock
        /\ p = CallPacket(api.ts)

(* A call begins, and may empty the queue. *)
Begins ==
  /\ api.pc = "idle"
  /\ Drops(0) \/ \E n \in 0..Len(Out) : Cuts(n)
  /\ CallsLast
  /\ clock \in Ts /\ clock' = clock + 1
  /\ ctx'[clock].answer = "none"
  /\ Sending' = {clock} /\ api'.ts = clock /\ api'.pc # "idle"
  /\ Answered' = Answered
  /\ ctx'[clock].kind = "LOGOUT" => user' = NoUser
  /\ ctx'[clock].kind = "LEAVE_GROUP" =>
       ctx'[clock].groups \cap groups' = {}
  /\ user' \in {user, NoUser} \/ ctx'[clock].kind = "LOGIN"
  /\ \A g \in groups' \ groups :
       ctx'[clock].kind = "JOIN_GROUP" /\ g \in ctx'[clock].groups

(* The queue is emptied. *)
Empties ==
  /\ api.pc = "idle"
  /\ \E n \in 0..Len(Out) : Cuts(n)
  /\ UNCHANGED <<session, clock, ctx, inbox, api>>

Acts == Listens \/ (\E p \in Request : Speaks(p)) \/ Begins \/ Empties

-----------------------------------------------------------------------------
(* A call is in one place at a time. *)

(* Calls that are about to be sent or under way were made. *)
LEMMA Places ==
  ASSUME TypeOK, CallsWereMade, PacketsInv
  PROVE  /\ Out \in Seq(Request) /\ Len(Out) \in Nat
         /\ clock \in Int /\ Ts \subseteq Int /\ 0 \notin Ts
         /\ Answered \subseteq Int
         /\ \A ts \in Sending \cup Sent : ts \in Ts /\ ts < clock
<1>1. Out \in Seq(Request)
  BY OutType
<1>2. /\ clock \in Int /\ Ts \subseteq Int /\ 0 \notin Ts
      /\ api.pc # "idle" => api.ts \in Ts
  BY MaxTsAssumption DEF TypeOK, CallsType, ThreadsType, Ts
<1>3. \A ts \in Sending : ts \in Ts /\ ts < clock
  BY <1>2 DEF Sending, CallsWereMade
<1>4. \A ts \in Sent : ts \in Ts /\ ts < clock
  BY <1>1 DEF Sent, PacketsInv, PacketsMatch
<1>5. Answered \subseteq Int
  <2>1. inbox \in Seq(Reply) /\ 0..MaxTs \subseteq Int
    BY MaxTsAssumption DEF TypeOK, LinkType
  <2>2. \A i \in 1..Len(inbox) : inbox[i].ts \in 0..MaxTs
    BY <2>1 DEF Reply
  <2>. QED
    BY <2>1, <2>2 DEF Answered, AnswersIn
<1>. QED
  BY <1>1, <1>2, <1>3, <1>4, <1>5

(* A packet lost or served leaves the places of the others. *)
LEMMA ListensKeepsPackets ==
  ASSUME TypeOK, TypeOK', CallsWereMade, PacketsInv, Listens
  PROVE  PacketsInv'
<1>1. PICK n \in 0..Len(Out) : Drops(n)
  BY DEF Listens
<1>2. /\ Out \in Seq(Request) /\ Len(Out) \in Nat
      /\ clock \in Int /\ Ts \subseteq Int /\ 0 \notin Ts
      /\ Answered \subseteq Int
      /\ \A ts \in Sending \cup Sent : ts \in Ts /\ ts < clock
  BY Places
<1>3. /\ Len(Out') \in Nat
      /\ \A i \in 1..Len(Out') : i + n \in 1..Len(Out) /\ Out'[i] = Out[i + n]
  BY <1>1, <1>2 DEF Drops
<1>4. Sent' \subseteq Sent
  BY <1>3 DEF Sent
<1>5. PacketsMatch'
  <2>1. ASSUME NEW i \in 1..Len(Out), Out[i].ts # 0
        PROVE  /\ Out[i].ts \in Ts /\ Out[i].ts < clock
               /\ Out[i].kind = ctx'[Out[i].ts].kind
               /\ Out[i].groups = ctx'[Out[i].ts].groups
    BY <2>1 DEF PacketsInv, PacketsMatch, Listens, CallsLast
  <2>. QED
    BY <1>3, <2>1 DEF PacketsMatch, Listens
<1>6. SentOnce'
  <2>1. ASSUME NEW i \in 1..Len(Out'), NEW j \in 1..Len(Out'),
               Out'[i].ts # 0, Out'[i].ts = Out'[j].ts
        PROVE  i = j
    <3>1. i + n = j + n
      BY <1>3, <2>1 DEF PacketsInv, SentOnce
    <3>. QED
      BY <1>3, <3>1
  <2>. QED
    BY <2>1 DEF SentOnce
<1>7. OnePlace'
  <2>1. \A ts \in Sending \cup Sent' :
          /\ ts \in Ts /\ ts < clock
          /\ ts \notin Answered /\ ts \notin Answered'
          /\ ctx[ts].answer = "none"
    BY <1>2, <1>4 DEF PacketsInv, OnePlace, Listens
  <2>2. \A ts \in Sending \cup Sent' : ctx'[ts].answer = "none"
    BY <2>1 DEF Listens, CallsLast
  <2>3. \A ts \in Answered' : ts < clock
    BY <1>2 DEF PacketsInv, OnePlace, Listens
  <2>. QED
    BY <1>4, <2>1, <2>2, <2>3 DEF PacketsInv, OnePlace, Listens
<1>. QED
  BY <1>5, <1>6, <1>7 DEF PacketsInv

(* A packet that is queued is no call's, a new retry's, or the caller's. *)
LEMMA SpeaksKeepsPackets ==
  ASSUME TypeOK, TypeOK', CallsWereMade, PacketsInv,
         NEW p \in Request, Speaks(p)
  PROVE  PacketsInv'
<1>1. /\ Out \in Seq(Request) /\ Len(Out) \in Nat
      /\ clock \in Int /\ Ts \subseteq Int /\ 0 \notin Ts
      /\ Answered \subseteq Int
      /\ \A ts \in Sending \cup Sent : ts \in Ts /\ ts < clock
  BY Places
<1>2. /\ Len(Out') = Len(Out) + 1
      /\ \A i \in 1..Len(Out) : Out'[i] = Out[i]
      /\ Out'[Len(Out) + 1] = p
      /\ \A i \in 1..Len(Out') : i \in 1..Len(Out) \/ i = Len(Out) + 1
  BY <1>1 DEF Speaks, Adds
<1>3. /\ Sent' = Sent \cup ({p.ts} \ {0})
      /\ clock' >= clock /\ clock' \in Int
  BY <1>1, <1>2 DEF Sent, Speaks
<1>4. \A ts \in Ts : ts < clock => /\ ctx'[ts].kind = ctx[ts].kind
                                   /\ ctx'[ts].groups = ctx[ts].groups
  BY DEF Speaks, CallsLast
<1>5. /\ p.ts # 0 => /\ p.ts \in Ts /\ p.ts < clock' /\ p.ts \notin Sent
                     /\ p.ts \notin Answered
                     /\ p.kind = ctx'[p.ts].kind
                     /\ p.groups = ctx'[p.ts].groups
                     /\ ctx'[p.ts].answer = "none"
      /\ Sending' \subseteq Sending
      /\ p.ts \notin Sending'
  <2>1. CASE p.ts = 0 /\ Sending' = Sending /\ clock' = clock
    BY <1>1, <2>1
  <2>2. CASE /\ p.ts = clock /\ clock \in Ts /\ clock' = clock + 1
             /\ ctx'[clock].kind = p.kind /\ ctx'[clock].groups = p.groups
             /\ ctx'[clock].answer = "none"
             /\ Sending' = Sending
    BY <1>1, <2>2 DEF PacketsInv, OnePlace
  <2>3. CASE /\ Sending = {p.ts} /\ Sending' = {} /\ clock' = clock
             /\ p = CallPacket(api.ts)
    <3>1. p.ts \in Ts /\ p.ts < clock
      BY <1>1, <2>3
    <3>2. p.ts \notin Sent /\ p.ts \notin Answered /\ ctx[p.ts].answer = "none"
      BY <2>3 DEF PacketsInv, OnePlace
    <3>3. ctx'[p.ts].answer = "none"
      BY <3>1, <3>2 DEF Speaks, CallsLast
    <3>4. /\ p.ts = api.ts /\ p.kind = ctx[p.ts].kind
          /\ p.groups = ctx[p.ts].groups
      BY <2>3 DEF CallPacket, Packet
    <3>. QED
      BY <1>4, <2>3, <3>1, <3>2, <3>3, <3>4
  <2>. QED
    BY <2>1, <2>2, <2>3 DEF Speaks
<1>6. PacketsMatch'
  <2>1. ASSUME NEW i \in 1..Len(Out), Out[i].ts # 0
        PROVE  /\ Out[i].ts \in Ts /\ Out[i].ts < clock'
               /\ Out[i].kind = ctx'[Out[i].ts].kind
               /\ Out[i].groups = ctx'[Out[i].ts].groups
    <3>1. /\ Out[i].ts \in Ts /\ Out[i].ts < clock
          /\ Out[i].kind = ctx[Out[i].ts].kind
          /\ Out[i].groups = ctx[Out[i].ts].groups
      BY <2>1 DEF PacketsInv, PacketsMatch
    <3>2. \A ts \in Ts : ts < clock => ts < clock'
      BY <1>1, <1>3
    <3>. QED
      BY <1>4, <3>1, <3>2
  <2>. QED
    BY <1>1, <1>2, <1>5, <2>1 DEF PacketsMatch
<1>7. SentOnce'
  <2>1. \A i \in 1..Len(Out) : Out[i].ts # 0 => Out[i].ts \in Sent
    BY DEF Sent
  <2>. QED
    BY <1>1, <1>2, <1>5, <2>1 DEF PacketsInv, SentOnce
<1>8. OnePlace'
  <2>1. \A ts \in Sending' \cup Sent' :
          ts \notin Answered' /\ ctx'[ts].answer = "none"
    <3>1. \A ts \in Sending \cup Sent :
            ts \notin Answered /\ ctx'[ts].answer = "none"
      BY <1>1 DEF PacketsInv, OnePlace, Speaks, CallsLast
    <3>. QED
      BY <1>3, <1>5, <3>1 DEF Speaks
  <2>2. Sending' \cap Sent' = {}
    BY <1>3, <1>5 DEF PacketsInv, OnePlace
  <2>3. \A ts \in Answered' : ts < clock'
    <3>1. \A ts \in Answered : ts \in Int /\ ts < clock
      BY <1>1 DEF PacketsInv, OnePlace
    <3>. QED
      BY <1>1, <1>3, <3>1 DEF Speaks
  <2>. QED
    BY <2>1, <2>2, <2>3 DEF OnePlace
<1>. QED
  BY <1>6, <1>7, <1>8 DEF PacketsInv

(* What is left of the packets is as it was, whatever else the step does. *)
LEMMA CutPackets ==
  ASSUME TypeOK, CallsWereMade, PacketsInv,
         Drops(0) \/ \E n \in 0..Len(Out) : Cuts(n)
  PROVE  /\ \A i \in 1..Len(Out') : i \in 1..Len(Out) /\ Out'[i] = Out[i]
         /\ Sent' \subseteq Sent
         /\ SentOnce'
<1>1. Out \in Seq(Request) /\ Len(Out) \in Nat
  BY Places
<1>2. \A i \in 1..Len(Out') : i \in 1..Len(Out) /\ Out'[i] = Out[i]
  BY <1>1 DEF Drops, Cuts
<1>3. Sent' \subseteq Sent
  BY <1>2 DEF Sent
<1>4. SentOnce'
  BY <1>2 DEF PacketsInv, SentOnce
<1>. QED
  BY <1>2, <1>3, <1>4

(* A new call is in one place, with its caller. *)
LEMMA BeginsKeepsPackets ==
  ASSUME TypeOK, TypeOK', CallsWereMade, PacketsInv, Begins
  PROVE  PacketsInv'
<1>1. /\ clock \in Int /\ Ts \subseteq Int
      /\ Answered \subseteq Int
      /\ \A ts \in Sending \cup Sent : ts \in Ts /\ ts < clock
  BY Places
<1>2. /\ \A i \in 1..Len(Out') : i \in 1..Len(Out) /\ Out'[i] = Out[i]
      /\ Sent' \subseteq Sent
      /\ SentOnce'
  BY CutPackets DEF Begins
<1>3. \A ts \in Int : ts < clock => ts < clock' /\ ts # clock
  BY <1>1 DEF Begins
<1>4. PacketsMatch'
  <2>1. ASSUME NEW i \in 1..Len(Out), Out[i].ts # 0
        PROVE  /\ Out[i].ts \in Ts /\ Out[i].ts < clock'
               /\ Out[i].kind = ctx'[Out[i].ts].kind
               /\ Out[i].groups = ctx'[Out[i].ts].groups
    <3>1. /\ Out[i].ts \in Ts /\ Out[i].ts < clock
          /\ Out[i].kind = ctx[Out[i].ts].kind
          /\ Out[i].groups = ctx[Out[i].ts].groups
      BY <2>1 DEF PacketsInv, PacketsMatch
    <3>. QED
      BY <1>1, <1>3, <3>1 DEF Begins, CallsLast
  <2>. QED
    BY <1>2, <2>1 DEF PacketsMatch
<1>5. OnePlace'
  <2>1. \A ts \in Sent' : ts \notin Answered' /\ ctx'[ts].answer = "none"
    <3>1. \A ts \in Sent : ts \notin Answered /\ ctx[ts].answer = "none"
      BY DEF PacketsInv, OnePlace
    <3>2. \A ts \in Sent : ctx'[ts].answer = ctx[ts].answer
      BY <1>1, <3>1 DEF Begins, CallsLast
    <3>. QED
      BY <1>2, <3>1, <3>2 DEF Begins
  <2>2. \A ts \in Answered' : ts < clock' /\ ts # clock
    BY <1>1, <1>3 DEF PacketsInv, OnePlace, Begins
  <2>3. clock \notin Sent'
    BY <1>1, <1>2, <1>3
  <2>. QED
    BY <2>1, <2>2, <2>3 DEF OnePlace, Begins
<1>. QED
  BY <1>2, <1>4, <1>5 DEF PacketsInv

(* An emptied queue leaves the places of what was not in it. *)
LEMMA EmptiesKeepsPackets ==
  ASSUME TypeOK, TypeOK', CallsWereMade, PacketsInv, Empties
  PROVE  PacketsInv'
<1>1. /\ \A i \in 1..Len(Out') : i \in 1..Len(Out) /\ Out'[i] = Out[i]
      /\ Sent' \subseteq Sent
      /\ SentOnce'
  BY CutPackets DEF Empties
<1>2. /\ clock' = clock /\ ctx' = ctx
      /\ Answered' = Answered /\ Sending' = Sending
  BY DEF Empties, Answered, Sending
<1>3. PacketsMatch'
  BY <1>1, <1>2 DEF PacketsInv, PacketsMatch
<1>4. OnePlace'
  BY <1>1, <1>2 DEF PacketsInv, OnePlace
<1>. QED
  BY <1>1, <1>3, <1>4 DEF PacketsInv

(* A packet that retracts is one of what is not wanted, when it is queued. *)
LEMMA ActsRetractUnwanted ==
  ASSUME TypeOK, TypeOK', CallsWereMade, RetractsUnwanted, Acts
  PROVE  RetractsUnwanted'
<1>1. ASSUME Sending # {} PROVE api.ts \in Ts /\ api.ts < clock
  BY <1>1 DEF Sending, CallsWereMade
<1>2. CASE Listens
  <2>1. ASSUME Sending # {}
        PROVE  /\ ctx'[api.ts].kind = ctx[api.ts].kind
               /\ ctx'[api.ts].groups = ctx[api.ts].groups
    BY <1>1, <1>2, <2>1 DEF Listens, CallsLast
  <2>. QED
    BY <1>2, <2>1 DEF RetractsUnwanted, Listens
<1>3. ASSUME NEW p \in Request, Speaks(p) PROVE RetractsUnwanted'
  <2>1. ASSUME Sending # {}
        PROVE  /\ ctx'[api.ts].kind = ctx[api.ts].kind
               /\ ctx'[api.ts].groups = ctx[api.ts].groups
    BY <1>1, <1>3, <2>1 DEF Speaks, CallsLast
  <2>. QED
    BY <1>3, <2>1 DEF RetractsUnwanted, Speaks
<1>4. CASE Begins
  BY <1>4 DEF RetractsUnwanted, Begins
<1>5. CASE Empties
  BY <1>5 DEF RetractsUnwanted, Empties, Sending, session
<1>. QED
  BY <1>2, <1>3, <1>4, <1>5 DEF Acts

-----------------------------------------------------------------------------
(* What was asked for stays asked for. *)

(* A call that was dropped never comes back. *)
LEMMA DroppedLasts ==
  ASSUME TypeOK, CallsWereMade, PacketsInv, Acts,
         NEW kind, NEW gs, Dropped(kind, gs)
  PROVE  Dropped(kind, gs)'
<1>1. PICK ts \in Ts :
        /\ ts < clock
        /\ ctx[ts].kind = kind /\ gs \subseteq ctx[ts].groups
        /\ ctx[ts].res = "TIMEOUT" /\ ctx[ts].answer = "none"
        /\ ts \notin Sending \cup Sent \cup Answered
  BY DEF Dropped
<1>2. /\ Out \in Seq(Request) /\ Len(Out) \in Nat
      /\ clock \in Int /\ Ts \subseteq Int /\ 0 \notin Ts
  BY Places
<1>3. clock + 1 > clock /\ ts # clock /\ ts < clock + 1 /\ ts # 0
  BY <1>1, <1>2
<1>4. /\ CallsLast => /\ ctx'[ts].kind = kind /\ gs \subseteq ctx'[ts].groups
                      /\ ctx'[ts].res = "TIMEOUT" /\ ctx'[ts].answer = "none"
  BY <1>1 DEF CallsLast
<1>5. CASE Listens
  <2>1. Sent' \subseteq Sent
    BY <1>2, <1>5 DEF Listens, Drops, Sent
  <2>. QED
    BY <1>1, <1>4, <1>5, <2>1 DEF Dropped, Listens
<1>6. ASSUME NEW p \in Request, Speaks(p) PROVE Dropped(kind, gs)'
  <2>1. Sent' \subseteq Sent \cup {p.ts}
    BY <1>2, <1>6 DEF Speaks, Adds, Sent
  <2>2. p.ts # ts /\ Sending' \subseteq Sending /\ ts < clock'
    BY <1>1, <1>3, <1>6 DEF Speaks
  <2>. QED
    BY <1>1, <1>4, <1>6, <2>1, <2>2 DEF Dropped, Speaks
<1>7. CASE Begins
  <2>1. Sent' \subseteq Sent
    BY <1>7, CutPackets DEF Begins
  <2>. QED
    BY <1>1, <1>3, <1>4, <1>7, <2>1 DEF Dropped, Begins
<1>8. CASE Empties
  <2>1. Sent' \subseteq Sent
    BY <1>8, CutPackets DEF Empties
  <2>2. /\ ctx' = ctx /\ clock' = clock
        /\ Answered' = Answered /\ Sending' = Sending
    BY <1>8 DEF Empties, Answered, Sending
  <2>. QED
    BY <1>1, <2>1, <2>2 DEF Dropped
<1>. QED
  BY <1>5, <1>6, <1>7, <1>8 DEF Acts

(* A packet that asks is that of a call, and goes on asking. *)
LEMMA AsksLast ==
  ASSUME PacketsInv, CallsLast, NEW kind, NEW gs, NEW i \in 1..Len(Out),
         Says(Out[i], kind, gs), Out[i].ts # 0, ~ctx[Out[i].ts].retry
  PROVE  /\ ~ctx'[Out[i].ts].retry
         /\ Out[i].ts \in Ts /\ Out[i].ts < clock
         /\ ctx[Out[i].ts].kind = kind /\ gs \subseteq ctx[Out[i].ts].groups
         /\ ctx[Out[i].ts].answer = "none" /\ Out[i].ts \notin Answered
<1>1. /\ Out[i].ts \in Ts /\ Out[i].ts < clock
      /\ Out[i].kind = ctx[Out[i].ts].kind
      /\ Out[i].groups = ctx[Out[i].ts].groups
  BY DEF PacketsInv, PacketsMatch
<1>2. Out[i].ts \in Sent
  BY DEF Sent
<1>. QED
  BY <1>1, <1>2 DEF CallsLast, Says, PacketsInv, OnePlace

(* Packets lost from the front take what they retract with them. *)
LEMMA DropsKeepAskedAgain ==
  ASSUME TypeOK, CallsWereMade, PacketsInv, CallsLast,
         NEW n \in 0..Len(Out), Drops(n),
         NEW no, NEW yes, NEW gs, AskedAgain(no, yes, gs)
  PROVE  AskedAgain(no, yes, gs)'
<1>1. Out \in Seq(Request) /\ Len(Out) \in Nat
  BY Places
<1>2. SUFFICES ASSUME NEW i \in 1..Len(Out'), Says(Out'[i], no, gs)
               PROVE  \E j \in 1..Len(Out') :
                        j > i /\ Asks(Out[j], yes, gs)'
  BY DEF AskedAgain, Says
<1>3. i + n \in 1..Len(Out) /\ Out'[i] = Out[i + n]
  BY <1>1 DEF Drops
<1>4. PICK j \in 1..Len(Out) : j > i + n /\ Asks(Out[j], yes, gs)
  BY <1>2, <1>3 DEF AskedAgain
<1>5. j - n \in 1..Len(Out') /\ j - n > i /\ Out'[j - n] = Out[j]
  BY <1>1, <1>3, <1>4 DEF Drops
<1>6. Says(Out[j], yes, gs) /\ Out[j].ts # 0 /\ ~ctx'[Out[j].ts].retry
  <2>1. Says(Out[j], yes, gs) /\ Out[j].ts # 0 /\ ~ctx[Out[j].ts].retry
    BY <1>4 DEF Asks
  <2>. QED
    BY <2>1, AsksLast
<1>7. Asks(Out[j - n], yes, gs)'
  BY <1>5, <1>6 DEF Asks, Says
<1>. QED
  BY <1>5, <1>7

(* CleanQueue leaves the packets of the wire.  If it takes one that asks   *)
(* for what one of those retracts, the call has timed out: its caller has  *)
(* returned, and not with an answer.                                       *)
LEMMA CutsKeepAsked ==
  ASSUME TypeOK, CallsWereMade, PacketsInv, CallsSettle, CallsLast,
         api.pc = "idle", clock' \in Int, clock <= clock',
         NEW n \in 0..Len(Out), Cuts(n), Answered' = Answered,
         Sending' \subseteq {clock},
         NEW no, NEW yes, NEW gs, AskedAgain(no, yes, gs)
  PROVE  AskedAgain(no, yes, gs)' \/ Dropped(yes, gs)'
<1>1. /\ Out \in Seq(Request) /\ Len(Out) \in Nat
      /\ clock \in Int /\ Ts \subseteq Int
  BY Places
<1>2. /\ Len(Out') = n /\ \A i \in 1..n : i \in 1..Len(Out) /\ Out'[i] = Out[i]
  BY <1>1 DEF Cuts
<1>3. SUFFICES ASSUME NEW i \in 1..Len(Out'), Says(Out'[i], no, gs),
                      ~\E j \in 1..Len(Out') :
                         j > i /\ Asks(Out[j], yes, gs)'
               PROVE  Dropped(yes, gs)'
  BY DEF AskedAgain, Says
<1>4. PICK j \in 1..Len(Out) : j > i /\ Asks(Out[j], yes, gs)
  BY <1>2, <1>3 DEF AskedAgain
<1> DEFINE ts == Out[j].ts
<1>5. /\ Says(Out[j], yes, gs) /\ ts # 0 /\ ~ctx'[ts].retry
      /\ ts \in Ts /\ ts < clock
      /\ ctx[ts].kind = yes /\ gs \subseteq ctx[ts].groups
      /\ ctx[ts].answer = "none" /\ ts \notin Answered
  <2>1. Says(Out[j], yes, gs) /\ Out[j].ts # 0 /\ ~ctx[Out[j].ts].retry
    BY <1>4 DEF Asks
  <2>2. /\ ~ctx'[Out[j].ts].retry
        /\ Out[j].ts \in Ts /\ Out[j].ts < clock
        /\ ctx[Out[j].ts].kind = yes /\ gs \subseteq ctx[Out[j].ts].groups
        /\ ctx[Out[j].ts].answer = "none" /\ Out[j].ts \notin Answered
    BY <2>1, AsksLast
  <2>. QED
    BY <2>1, <2>2
<1>6. j \notin 1..n
  <2> SUFFICES ASSUME j \in 1..n PROVE FALSE
    OBVIOUS
  <2>1. Asks(Out[j], yes, gs)'
    BY <1>2, <1>5 DEF Asks, Says
  <2>. QED
    BY <1>2, <1>3, <1>4, <2>1
<1>7. ts \notin Sent'
  <2>1. \A k \in 1..n : Out[k].ts # ts
    BY <1>2, <1>5, <1>6 DEF PacketsInv, SentOnce
  <2>. QED
    BY <1>2, <2>1 DEF Sent
<1>8. ctx[ts].res = "TIMEOUT"
  BY <1>4, <1>5 DEF CallsSettle, Busy, Settled, Asks
<1>9. ts # clock /\ ts < clock'
  <2>1. ts \in Int
    BY <1>1, <1>5
  <2>. QED
    BY <1>1, <1>5, <2>1
<1>10. /\ ctx'[ts].kind = yes /\ gs \subseteq ctx'[ts].groups
       /\ ctx'[ts].res = "TIMEOUT" /\ ctx'[ts].answer = "none"
  BY <1>5, <1>8 DEF CallsLast
<1>. QED
  BY <1>5, <1>7, <1>9, <1>10 DEF Dropped

(* A packet that does not retract leaves the others' last word; the        *)
(* caller's, once queued, is the last word itself.                         *)
LEMMA SpeaksKeepsAsked ==
  ASSUME TypeOK, CallsWereMade, PacketsInv, NEW p \in Request, Speaks(p),
         NEW no, NEW yes, NEW gs, no # yes, ~Says(p, no, gs),
         Unsent(yes, gs) \/ AskedAgain(no, yes, gs)
  PROVE  Unsent(yes, gs)' \/ AskedAgain(no, yes, gs)'
<1>1. /\ Out \in Seq(Request) /\ Len(Out) \in Nat
      /\ 0 \notin Ts /\ (Sending # {} => api.ts \in Ts /\ api.ts < clock)
  BY Places DEF Sending
<1>2. /\ Len(Out') = Len(Out) + 1
      /\ \A i \in 1..Len(Out) : Out'[i] = Out[i]
      /\ Out'[Len(Out) + 1] = p
      /\ \A i \in 1..Len(Out') : i \in 1..Len(Out) \/ i = Len(Out) + 1
  BY <1>1 DEF Speaks, Adds
<1>3. CallsLast
  BY DEF Speaks
<1>4. CASE AskedAgain(no, yes, gs)
  <2>1. ASSUME NEW i \in 1..Len(Out'), Says(Out'[i], no, gs)
        PROVE  \E j \in 1..Len(Out') : j > i /\ Asks(Out[j], yes, gs)'
    <3>1. i \in 1..Len(Out) /\ Says(Out[i], no, gs)
      BY <1>2, <2>1
    <3>2. PICK j \in 1..Len(Out) : j > i /\ Asks(Out[j], yes, gs)
      BY <1>4, <3>1 DEF AskedAgain
    <3>3. Says(Out[j], yes, gs) /\ Out[j].ts # 0 /\ ~ctx[Out[j].ts].retry
      BY <3>2 DEF Asks
    <3>4. ~ctx'[Out[j].ts].retry
      BY <1>3, <3>3, AsksLast
    <3>5. j \in 1..Len(Out') /\ Out'[j] = Out[j]
      BY <1>1, <1>2
    <3>. QED
      BY <3>2, <3>3, <3>4, <3>5 DEF Asks
  <2>. QED
    BY <2>1 DEF AskedAgain
<1>5. CASE Unsent(yes, gs)
  <2>1. /\ Sending = {api.ts} /\ api.ts \in Ts /\ api.ts < clock
        /\ ctx[api.ts].kind = yes /\ gs \subseteq ctx[api.ts].groups
        /\ ~ctx[api.ts].retry
    BY <1>1, <1>5 DEF Unsent, Sending, CallsWereMade
  <2>2. /\ ctx'[api.ts].kind = yes /\ gs \subseteq ctx'[api.ts].groups
        /\ ~ctx'[api.ts].retry
    BY <1>3, <2>1 DEF CallsLast
  <2>3. CASE Sending' = Sending
    BY <2>1, <2>2, <2>3 DEF Unsent, Sending, Speaks
  <2>4. CASE p = CallPacket(api.ts)
    <3>1. p.kind = yes /\ gs \subseteq p.groups /\ p.ts = api.ts
      BY <2>1, <2>4 DEF CallPacket, Packet
    <3>2. Asks(Out[Len(Out)], yes, gs)'
      BY <1>1, <1>2, <2>1, <2>2, <3>1 DEF Asks, Says
    <3>3. ASSUME NEW i \in 1..Len(Out'), Says(Out'[i], no, gs)
          PROVE  i \in 1..Len(Out)
      BY <1>2, <3>3
    <3>4. Len(Out') \in 1..Len(Out')
      BY <1>1, <1>2
    <3>5. \A i \in 1..Len(Out) : Len(Out') > i
      BY <1>1, <1>2
    <3>6. ASSUME NEW i \in 1..Len(Out'), Says(Out'[i], no, gs)
          PROVE  \E j \in 1..Len(Out') : j > i /\ Asks(Out[j], yes, gs)'
      <4>1. i \in 1..Len(Out)
        BY <3>3, <3>6
      <4>. QED
        BY <3>2, <3>4, <3>5, <4>1
    <3>. QED
      BY <3>6 DEF AskedAgain
  <2>. QED
    BY <2>3, <2>4 DEF Speaks
<1>. QED
  BY <1>4, <1>5

(* Every step keeps what was asked asked, unless it retracts it. *)
LEMMA ActsKeepAsked ==
  ASSUME TypeOK, TypeOK', CallsWereMade, PacketsInv, CallsSettle, Acts,
         NEW no, NEW yes, NEW gs, no # yes,
         \A p \in Request : Speaks(p) => ~Says(p, no, gs),
         Asked(no, yes, gs)
  PROVE  Asked(no, yes, gs)'
<1>1. CASE Dropped(yes, gs)
  <2>1. Dropped(yes, gs)'
    BY <1>1, DroppedLasts
  <2>. QED
    BY <2>1 DEF Asked
<1>2. ASSUME NEW p \in Request, Speaks(p),
             Unsent(yes, gs) \/ AskedAgain(no, yes, gs)
      PROVE  Unsent(yes, gs)' \/ AskedAgain(no, yes, gs)'
  <2>1. ~Says(p, no, gs)
    BY <1>2
  <2>. QED
    BY <1>2, <2>1, SpeaksKeepsAsked
<1>3. ASSUME CallsLast, NEW n \in 0..Len(Out), Drops(n),
             AskedAgain(no, yes, gs)
      PROVE  AskedAgain(no, yes, gs)'
  BY <1>3, DropsKeepAskedAgain
<1>4. ASSUME CallsLast, NEW n \in 0..Len(Out), Cuts(n), api.pc = "idle",
             clock' \in Int, clock <= clock', Answered' = Answered,
             Sending' \subseteq {clock}, AskedAgain(no, yes, gs)
      PROVE  AskedAgain(no, yes, gs)' \/ Dropped(yes, gs)'
  BY <1>4, CutsKeepAsked
<1>5. /\ api.pc = "idle" => ~Unsent(yes, gs)
      /\ clock \in Int /\ Len(Out) \in Nat
      /\ Sending # {} => api.ts \in Ts /\ api.ts < clock
  BY Places DEF Unsent, Sending
<1>6. CASE Listens
  <2>1. CASE AskedAgain(no, yes, gs)
    <3>1. AskedAgain(no, yes, gs)'
      BY <1>3, <1>6, <2>1 DEF Listens
    <3>. QED
      BY <3>1 DEF Asked
  <2>2. CASE Unsent(yes, gs)
    <3>1. /\ Sending = {api.ts}
          /\ ctx[api.ts].kind = yes /\ gs \subseteq ctx[api.ts].groups
      BY <2>2 DEF Unsent, Sending
    <3>2. ctx'[api.ts].kind = yes /\ gs \subseteq ctx'[api.ts].groups
      BY <1>5, <1>6, <3>1 DEF Listens, CallsLast
    <3>3. Unsent(yes, gs)'
      BY <1>6, <3>1, <3>2 DEF Unsent, Sending, Listens
    <3>. QED
      BY <3>3 DEF Asked
  <2>. QED
    BY <1>1, <2>1, <2>2 DEF Asked
<1>7. ASSUME NEW p \in Request, Speaks(p) PROVE Asked(no, yes, gs)'
  BY <1>1, <1>2, <1>7 DEF Asked
<1>8. CASE Begins
  <2>1. CASE AskedAgain(no, yes, gs)
    <3>1. CASE Drops(0)
      <4>1. AskedAgain(no, yes, gs)'
        BY <1>3, <1>5, <1>8, <2>1, <3>1 DEF Begins
      <4>. QED
        BY <4>1 DEF Asked
    <3>2. CASE \E n \in 0..Len(Out) : Cuts(n)
      <4>1. /\ clock' \in Int /\ clock <= clock' /\ Answered' = Answered
            /\ Sending' \subseteq {clock} /\ CallsLast /\ api.pc = "idle"
        BY <1>5, <1>8 DEF Begins
      <4>2. AskedAgain(no, yes, gs)' \/ Dropped(yes, gs)'
        BY <1>4, <2>1, <3>2, <4>1
      <4>. QED
        BY <4>2 DEF Asked
    <3>. QED
      BY <1>8, <3>1, <3>2 DEF Begins
  <2>. QED
    BY <1>1, <1>5, <1>8, <2>1 DEF Asked, Begins
<1>9. CASE Empties
  <2>1. /\ clock' = clock /\ ctx' = ctx /\ Answered' = Answered
        /\ Sending' \subseteq {clock} /\ api.pc = "idle"
    BY <1>9 DEF Empties, Answered, Sending
  <2>2. CallsLast /\ clock' \in Int /\ clock <= clock'
    BY <1>5, <2>1 DEF CallsLast
  <2>3. CASE AskedAgain(no, yes, gs)
    <3>1. AskedAgain(no, yes, gs)' \/ Dropped(yes, gs)'
      BY <1>4, <1>9, <2>1, <2>2, <2>3 DEF Empties
    <3>. QED
      BY <3>1 DEF Asked
  <2>. QED
    BY <1>1, <1>5, <2>1, <2>3 DEF Asked
<1>. QED
  BY <1>6, <1>7, <1>8, <1>9 DEF Acts

(* The client asks for what it wants, and for no more than it wants does a *)
(* step make it the last word that it does not.                            *)
LEMMA ActsAskForWants ==
  ASSUME TypeOK, TypeOK', CallsWereMade, PacketsInv, CallsSettle, Acts,
         WantsAreAsked
  PROVE  WantsAreAsked'
<1>1. ASSUME user' # NoUser PROVE Asked("LOGOUT", "LOGIN", {})'
  <2>1. CASE user # NoUser
    <3>1. \A p \in Request : Speaks(p) => ~Says(p, "LOGOUT", {})
      BY <2>1 DEF Speaks, Retracts, Says
    <3>2. Asked("LOGOUT", "LOGIN", {})
      BY <2>1 DEF WantsAreAsked
    <3>. QED
      BY <3>1, <3>2, ActsKeepAsked
  <2>2. CASE user = NoUser
    <3>1. Begins /\ ctx'[clock].kind = "LOGIN"
      BY <1>1, <2>2 DEF Acts, Listens, Speaks, Begins, Empties, session
    <3>2. Unsent("LOGIN", {})'
      BY <3>1 DEF Begins, Unsent, Sending
    <3>. QED
      BY <3>2 DEF Asked
  <2>. QED
    BY <2>1, <2>2
<1>2. ASSUME NEW g \in groups'
      PROVE  Asked("LEAVE_GROUP", "JOIN_GROUP", {g})'
  <2>1. CASE g \in groups
    <3>1. \A p \in Request : Speaks(p) => ~Says(p, "LEAVE_GROUP", {g})
      BY <2>1 DEF Speaks, Retracts, Says
    <3>2. Asked("LEAVE_GROUP", "JOIN_GROUP", {g})
      BY <2>1 DEF WantsAreAsked
    <3>. QED
      BY <3>1, <3>2, ActsKeepAsked
  <2>2. CASE g \notin groups
    <3>1. /\ Begins
          /\ ctx'[clock].kind = "JOIN_GROUP" /\ g \in ctx'[clock].groups
      BY <1>2, <2>2 DEF Acts, Listens, Speaks, Begins, Empties, session
    <3>2. Unsent("JOIN_GROUP", {g})'
      BY <3>1 DEF Begins, Unsent, Sending
    <3>. QED
      BY <3>2 DEF Asked
  <2>. QED
    BY <2>1, <2>2
<1>. QED
  BY <1>1, <1>2 DEF WantsAreAsked

-----------------------------------------------------------------------------
(* A caller waits until its call is settled. *)
LEMMA ActsSettle ==
  ASSUME TypeOK, TypeOK', CallsWereMade, PacketsInv, CallsSettle, Acts
  PROVE  CallsSettle'
<1>1. clock \in Int /\ Ts \subseteq Int
  BY Places
<1>2. ASSUME CallsLast, NEW ts \in Ts, ts < clock
      PROVE  /\ ctx'[ts].retry = ctx[ts].retry
             /\ Settled(ts) => ctx'[ts].res = "TIMEOUT"
                                 \/ ctx'[ts].answer # "none"
  BY <1>2 DEF CallsLast, Settled
<1>3. \A ts \in Ts : ts < clock + 1 => ts < clock \/ ts = clock
  BY <1>1
<1>4. CASE Listens
  BY <1>2, <1>4 DEF CallsSettle, Listens, Busy, Settled
<1>5. ASSUME NEW p \in Request, Speaks(p) PROVE CallsSettle'
  BY <1>2, <1>3, <1>5 DEF CallsSettle, Speaks, Busy, Settled
<1>6. CASE Begins
  BY <1>2, <1>3, <1>6 DEF CallsSettle, Begins, Busy, Settled
<1>7. CASE Empties
  BY <1>7 DEF CallsSettle, Empties, Busy, Settled
<1>. QED
  BY <1>4, <1>5, <1>6, <1>7 DEF Acts

-----------------------------------------------------------------------------
(* Every step is of one of the four kinds. *)

(* The steps that leave the calls alone. *)
LEMMA Listening ==
  ASSUME TypeOK, UNCHANGED <<clock, ctx, api>>,
         NEW n \in 0..Len(Out), Drops(n),
         Answered' \subseteq Answered \cup (Sent \ Sent'),
         user' \in {user, NoUser}, groups' \subseteq groups
  PROVE  Listens
  BY DEF Listens, CallsLast, Sending

(* Nor do they touch the queues or the inbox. *)
LEMMA ListeningInPlace ==
  ASSUME TypeOK, UNCHANGED <<clock, ctx, api, wire, sendQ, inbox>>,
         user' \in {user, NoUser}, groups' \subseteq groups
  PROVE  Listens
<1>1. Drops(0) /\ 0 \in 0..Len(Out)
  BY OutStays, OutType
<1>2. Answered' = Answered
  BY AnswersStay
<1>. QED
  BY <1>1, <1>2, Listening

(* A message is handled and nothing is sent. *)
LEMMA ListeningToMessage ==
  ASSUME TypeOK, NEW type, Receive(type, <<>>),
         UNCHANGED <<clock, ctx>>,
         user' \in {user, NoUser}, groups' \subseteq groups
  PROVE  Listens
<1>1. Drops(0) /\ 0 \in 0..Len(Out)
  BY ReceiveNothing, OutType
<1>2. Answered' \subseteq Answered
  BY AnswersTail DEF Receive, Read
<1>3. api' = api
  BY DEF Receive
<1>. QED
  BY <1>1, <1>2, <1>3, Listening

(* A message is handled and a retraction resent. *)
LEMMA Resending ==
  ASSUME TypeOK, NEW type, NEW p \in Request, Receive(type, <<p>>),
         p.ts = 0, Retracts(p), UNCHANGED <<clock, ctx, user, groups>>
  PROVE  Speaks(p)
<1>1. Adds(p)
  BY ReceiveResends
<1>2. Answered' \subseteq Answered
  BY AnswersTail DEF Receive, Read
<1>3. api' = api
  BY DEF Receive
<1>. QED
  BY <1>1, <1>2, <1>3 DEF Speaks, CallsLast, Sending

(* A retry is issued. *)
LEMMA Issuing ==
  ASSUME TypeOK, NEW kind \in {"LOGIN", "JOIN_GROUP"},
         NEW u \in Users \cup {NoUser}, NEW gs \in SUBSET Groups,
         kind = "LOGIN" <=> u # NoUser,
         Call(NewContext(kind, u, gs, TRUE)),
         UNCHANGED <<user, groups, wire, inbox, api>>
  PROVE  \E p \in Request : Speaks(p)
<1> DEFINE c == NewContext(kind, u, gs, TRUE)
           p == Packet(c.kind, c.user, c.groups, clock)
<1>1. c \in Context /\ CarriesUser(c)
  BY NewContextType DEF Kinds
<1>2. CallsType /\ NewCall(c) /\ Send(p)
  BY DEF TypeOK, Call
<1>3. /\ clock \in Ts /\ clock' = clock + 1
      /\ ctx'[clock] = c
      /\ \A ts \in Ts : ts # clock => ctx'[ts] = ctx[ts]
  BY <1>1, <1>2, NewCallType
<1>4. /\ c.kind = kind /\ c.groups = gs /\ c.answer = "none" /\ c.retry
      /\ p.kind = kind /\ p.groups = gs /\ p.ts = clock
  BY DEF NewContext, Packet
<1> HIDE DEF c
<1>5. p \in Request
  BY <1>1, <1>3, MaxTsAssumption DEF Packet, Request, Context, Ts
<1> HIDE DEF p
<1>6. Adds(p)
  BY <1>2, <1>5, SendAdds
<1>7. CallsLast
  <2>1. clock \in Int /\ Ts \subseteq Int
    BY Shapes
  <2>2. \A ts \in Ts : ts < clock => ctx'[ts] = ctx[ts]
    BY <1>3, <2>1
  <2>. QED
    BY <2>2 DEF CallsLast
<1>8. Retracts(p)
  BY <1>4 DEF Retracts
<1>9. Answered' = Answered /\ Sending' = Sending
  BY AnswersStay DEF Sending
<1>10. Speaks(p)
  BY <1>3, <1>4, <1>5, <1>6, <1>7, <1>8, <1>9 DEF Speaks
<1>. QED
  BY <1>5, <1>10

(* relogin and rejoin_group. *)
LEMMA RelogingActs ==
  ASSUME TypeOK, NEW isTimeout \in BOOLEAN, Relogin(isTimeout),
         UNCHANGED <<groups, wire, inbox, api>>
  PROVE  Acts
<1>1. CASE UNCHANGED <<user, calls, sendQ>>
  <2>1. Listens
    BY <1>1, ListeningInPlace DEF calls
  <2>. QED
    BY <2>1 DEF Acts
<1>2. CASE /\ user # NoUser /\ UNCHANGED user
           /\ Call(NewContext("LOGIN", user, {}, TRUE))
  <2>1. user \in Users \cup {NoUser} /\ {} \in SUBSET Groups
    BY DEF TypeOK
  <2>2. "LOGIN" = "LOGIN" <=> user # NoUser
    BY <1>2
  <2>3. \E p \in Request : Speaks(p)
    BY <1>2, <2>1, <2>2, Issuing
  <2>. QED
    BY <2>3 DEF Acts
<1>3. CASE user' = NoUser /\ UNCHANGED <<calls, sendQ>>
  <2>1. Listens
    BY <1>3, ListeningInPlace DEF calls
  <2>. QED
    BY <2>1 DEF Acts
<1>. QED
  BY <1>1, <1>2, <1>3 DEF Relogin

(* rejoin_group sends a retry, or does nothing. *)
LEMMA RejoiningActs ==
  ASSUME TypeOK, RejoinGroup, UNCHANGED <<user, wire, inbox, api>>
  PROVE  Acts
<1>1. CASE UNCHANGED <<groups, calls, sendQ>>
  <2>1. Listens
    BY <1>1, ListeningInPlace DEF calls
  <2>. QED
    BY <2>1 DEF Acts
<1>2. CASE /\ Call(NewContext("JOIN_GROUP", NoUser, groups, TRUE))
           /\ UNCHANGED groups
  <2>1. groups \in SUBSET Groups /\ NoUser \in Users \cup {NoUser}
    BY DEF TypeOK
  <2>2. "JOIN_GROUP" = "LOGIN" <=> NoUser # NoUser
    OBVIOUS
  <2>3. \E p \in Request : Speaks(p)
    BY <1>2, <2>1, <2>2, Issuing
  <2>. QED
    BY <2>3 DEF Acts
<1>3. CASE groups' = {} /\ UNCHANGED <<calls, sendQ>>
  <2>1. Listens
    BY <1>3, ListeningInPlace DEF calls
  <2>. QED
    BY <2>1 DEF Acts
<1>. QED
  BY <1>1, <1>2, <1>3 DEF RejoinGroup

(* A public function begins a call, Login with an emptied queue. *)
LEMMA Beginning ==
  ASSUME TypeOK, api.pc = "idle",
         NEW kind \in Kinds, NEW u \in Users \cup {NoUser},
         NEW gs \in SUBSET Groups, kind = "LOGIN" <=> u # NoUser,
         BeginCall(NewContext(kind, u, gs, FALSE)),
         sendQ' = sendQ \/ CleanQueue,
         kind = "LOGOUT" => user' = NoUser,
         kind = "LEAVE_GROUP" => gs \cap groups' = {},
         user' \in {user, NoUser} \/ kind = "LOGIN",
         \A g \in groups' \ groups : kind = "JOIN_GROUP" /\ g \in gs
  PROVE  Begins
<1> DEFINE c == NewContext(kind, u, gs, FALSE)
<1>1. c \in Context /\ CarriesUser(c)
  BY NewContextType
<1>2. CallsType /\ NewCall(c)
  BY DEF TypeOK, BeginCall
<1>3. /\ clock \in Ts /\ clock' = clock + 1
      /\ ctx'[clock] = c
      /\ \A ts \in Ts : ts # clock => ctx'[ts] = ctx[ts]
  BY <1>1, <1>2, NewCallType
<1>4. c.kind = kind /\ c.groups = gs /\ c.answer = "none"
  BY DEF NewContext
<1>5. /\ api' = [pc |-> "register", ts |-> clock, ret |-> "none"]
      /\ UNCHANGED <<wire, inbox>>
  BY DEF BeginCall
<1> HIDE DEF c
<1>6. Drops(0) \/ \E n \in 0..Len(Out) : Cuts(n)
  <2>1. CASE sendQ' = sendQ
    BY <1>5, <2>1, OutStays
  <2>2. CASE CleanQueue
    BY <1>5, <2>2, CleanCuts DEF Cuts
  <2>. QED
    BY <2>1, <2>2
<1>7. CallsLast
  <2>1. clock \in Int /\ Ts \subseteq Int
    BY Shapes
  <2>2. \A ts \in Ts : ts < clock => ctx'[ts] = ctx[ts]
    BY <1>3, <2>1
  <2>. QED
    BY <2>2 DEF CallsLast
<1>8. Answered' = Answered
  BY <1>5, AnswersStay
<1>9. Sending' = {clock} /\ api'.ts = clock /\ api'.pc # "idle"
  BY <1>5 DEF Sending
<1>. QED
  BY <1>3, <1>4, <1>6, <1>7, <1>8, <1>9 DEF Begins

(* A public function begins a call; a rejected Login empties the queue. *)
LEMMA ApiCallActs ==
  ASSUME TypeOK, ApiCall
  PROVE  Acts
<1>1. ASSUME NEW u \in Users, Login(u) PROVE Acts
  <2>1. /\ u # NoUser /\ u \in Users \cup {NoUser}
        /\ {} \in SUBSET Groups /\ "LOGIN" \in Kinds
    BY NoUserAssumption DEF Kinds
  <2>2. /\ api.pc = "idle" /\ BeginCall(NewContext("LOGIN", u, {}, FALSE))
        /\ CleanQueue /\ groups' = groups
    BY <1>1 DEF Login
  <2>3. "LOGIN" = "LOGIN" <=> u # NoUser
    BY <2>1
  <2>4. Begins
    BY <2>1, <2>2, <2>3, Beginning
  <2>. QED
    BY <2>4 DEF Acts
<1>2. CASE LoginRejected
  <2>1. Cuts(Len(wire))
    BY <1>2, CleanCuts DEF LoginRejected
  <2>2. Len(wire) \in 0..Len(Out)
    BY <2>1 DEF Cuts
  <2>3. UNCHANGED <<session, clock, ctx, inbox, api>> /\ api.pc = "idle"
    BY <1>2 DEF LoginRejected, calls
  <2>4. Empties
    BY <2>1, <2>2, <2>3 DEF Empties
  <2>. QED
    BY <2>4 DEF Acts
<1>3. CASE Logout
  <2>1. /\ NoUser \in Users \cup {NoUser}
        /\ {} \in SUBSET Groups /\ "LOGOUT" \in Kinds
    BY DEF Kinds
  <2>2. /\ api.pc = "idle"
        /\ BeginCall(NewContext("LOGOUT", NoUser, {}, FALSE))
        /\ sendQ' = sendQ /\ user' = NoUser /\ groups' = {}
    BY <1>3 DEF Logout
  <2>3. "LOGOUT" = "LOGIN" <=> NoUser # NoUser
    OBVIOUS
  <2>4. Begins
    BY <2>1, <2>2, <2>3, Beginning
  <2>. QED
    BY <2>4 DEF Acts
<1>4. ASSUME NEW g \in Groups, JoinGroup(g) PROVE Acts
  <2>1. /\ NoUser \in Users \cup {NoUser}
        /\ {g} \in SUBSET Groups /\ "JOIN_GROUP" \in Kinds
    BY DEF Kinds
  <2>2. /\ api.pc = "idle"
        /\ BeginCall(NewContext("JOIN_GROUP", NoUser, {g}, FALSE))
        /\ sendQ' = sendQ /\ user' = user /\ groups' = groups \cup {g}
    BY <1>4 DEF JoinGroup
  <2>3. "JOIN_GROUP" = "LOGIN" <=> NoUser # NoUser
    OBVIOUS
  <2>4. Begins
    BY <2>1, <2>2, <2>3, Beginning
  <2>. QED
    BY <2>4 DEF Acts
<1>5. ASSUME NEW g \in Groups, LeaveGroup(g) PROVE Acts
  <2>1. /\ NoUser \in Users \cup {NoUser}
        /\ {g} \in SUBSET Groups /\ "LEAVE_GROUP" \in Kinds
    BY DEF Kinds
  <2>2. /\ api.pc = "idle"
        /\ BeginCall(NewContext("LEAVE_GROUP", NoUser, {g}, FALSE))
        /\ sendQ' = sendQ /\ user' = user /\ groups' = groups \ {g}
    BY <1>5 DEF LeaveGroup
  <2>3. "LEAVE_GROUP" = "LOGIN" <=> NoUser # NoUser
    OBVIOUS
  <2>4. {g} \cap groups' = {}
    BY <2>2
  <2>5. \A h \in groups' \ groups : FALSE
    BY <2>2
  <2>6. Begins
    BY <2>1, <2>2, <2>3, <2>4, <2>5, Beginning
  <2>. QED
    BY <2>6 DEF Acts
<1>. QED
  BY <1>1, <1>2, <1>3, <1>4, <1>5 DEF ApiCall

(* call_sync: what is sent is not wanted if it retracts, and the caller    *)
(* returns when its call is settled.                                       *)
LEMMA ApiStepActs ==
  ASSUME TypeOK, TableInv, RetractsUnwanted, ~EarlyWake, ApiStep
  PROVE  Acts
<1>1. /\ ctx \in [Ts -> Context]
      /\ api \in ApiState /\ (api.pc # "idle" => api.ts \in Ts)
  BY Shapes
<1>2. CASE CallRegister
  <2>1. /\ api.pc = "register" /\ api'.pc = "send" /\ api'.ts = api.ts
        /\ UNCHANGED <<user, groups, clock, ctx, wire, sendQ, inbox>>
    BY <1>1, <1>2 DEF CallRegister, ApiState, session, link
  <2>2. Drops(0) /\ 0 \in 0..Len(Out) /\ Answered' = Answered
    BY <2>1, OutStays, OutType, AnswersStay
  <2>3. Listens
    BY <2>1, <2>2 DEF Listens, CallsLast, Sending
  <2>. QED
    BY <2>3 DEF Acts
<1>3. CASE CallSend
  <2> DEFINE p == CallPacket(api.ts)
  <2>1. /\ api.pc = "send" /\ api'.pc = "wait" /\ api'.ts = api.ts
        /\ Send(p)
        /\ UNCHANGED <<user, groups, clock, ctx, wire, inbox>>
    BY <1>1, <1>3 DEF CallSend, ApiState, session, calls
  <2>2. /\ p.kind = ctx[api.ts].kind /\ p.groups = ctx[api.ts].groups
        /\ p.ts = api.ts
    BY DEF CallPacket, Packet
  <2>3. p \in Request
    BY <1>1, <2>1, MaxTsAssumption DEF CallPacket, Packet, Request, Context, Ts
  <2> HIDE DEF p
  <2>4. Adds(p)
    BY <2>1, <2>3, SendAdds
  <2>5. Sending = {p.ts} /\ Sending' = {} /\ Answered' = Answered
    BY <2>1, <2>2, AnswersStay DEF Sending
  <2>6. Retracts(p)
    BY <2>2, <2>5 DEF RetractsUnwanted, Retracts
  <2>7. CallsLast
    BY <2>1 DEF CallsLast
  <2>8. Speaks(p)
    BY <2>1, <2>2, <2>3, <2>4, <2>5, <2>6, <2>7 DEF Speaks, p
  <2>. QED
    BY <2>3, <2>8 DEF Acts
<1>4. CASE CallReturn
  <2>1. /\ api.pc = "wait" /\ api'.pc = "idle" /\ api'.ts = api.ts
        /\ ctx[api.ts].done
        /\ UNCHANGED <<user, groups, clock, ctx, wire, sendQ, inbox>>
    BY <1>1, <1>4 DEF CallReturn, ApiState, session, calls, link
  <2>2. Drops(0) /\ 0 \in 0..Len(Out) /\ Answered' = Answered
    BY <2>1, OutStays, OutType, AnswersStay
  <2>3. Settled(api.ts)
    <3>1. ctx[api.ts].res \in Results
      BY <1>1, <2>1 DEF Context
    <3>2. ctx[api.ts].res # "TIMEOUT" => ctx[api.ts].answer = ctx[api.ts].res
      BY <1>1, <2>1 DEF TableInv, AnswersMatch
    <3>. QED
      BY <3>1, <3>2 DEF Settled, Results
  <2>4. Listens
    BY <2>1, <2>2, <2>3 DEF Listens, CallsLast, Sending
  <2>. QED
    BY <2>4 DEF Acts
<1>. QED
  BY <1>2, <1>3, <1>4 DEF ApiStep

(* A stream connects: nothing is on its way on the last one. *)
LEMMA OnConnectedActs ==
  ASSUME TypeOK, OnConnected
  PROVE  Acts
  BY RelogingActs DEF OnConnected

(* The messages of the gateway. *)
LEMMA NetReceiveActs ==
  ASSUME TypeOK, TableInv, PacketsInv,
         Flush \/ RecvAnswer \/ RecvGarbled \/ RecvKick \/ RecvGroupMsg
           \/ RecvUserMsg
  PROVE  Acts
<1>1. CASE Flush
  <2>1. Drops(0) /\ 0 \in 0..Len(Out)
    BY <1>1, FlushKeepsOut, OutType DEF Flush
  <2>2. /\ Answered' = Answered
        /\ UNCHANGED <<user, groups, clock, ctx, api>>
    BY <1>1, AnswersStay DEF Flush, session, calls
  <2>3. Listens
    BY <2>1, <2>2, Listening
  <2>. QED
    BY <2>3 DEF Acts
<1>2. CASE RecvAnswer
  <2> DEFINE m == Head(inbox)
  <2>1. Receive("ANSWER", <<>>)
    BY <1>2 DEF RecvAnswer
  <2>2. Drops(0) /\ 0 \in 0..Len(Out)
    BY <2>1, ReceiveNothing, OutType
  <2>3. /\ Answered' \subseteq Answered
        /\ m.ts # 0 => m.ts \in Answered
    BY <2>1, AnswersTail DEF Receive, Read
  <2>4. UNCHANGED <<user, groups, clock, api>>
    BY <1>2, <2>1 DEF RecvAnswer, Receive, session
  <2>5. CallsLast
    <3>1. CASE ~Expected(m.ts)
      BY <1>2, <3>1 DEF RecvAnswer, CallsLast
    <3>2. CASE Expected(m.ts)
      <4>1. /\ ctx \in [Ts -> Context] /\ cbMap \subseteq Ts
            /\ m.ts \in cbMap /\ m.ts # 0
        BY <3>2, Shapes DEF Expected
      <4>2. ctx' = [ctx EXCEPT ![m.ts].answer =
                                 IF m.ok THEN "OK" ELSE "FAILED"]
        BY <1>2, <3>2 DEF RecvAnswer
      <4>3. /\ \A ts \in Ts : /\ ctx'[ts].kind = ctx[ts].kind
                              /\ ctx'[ts].groups = ctx[ts].groups
                              /\ ctx'[ts].retry = ctx[ts].retry
                              /\ ctx'[ts].res = ctx[ts].res
                              /\ ts # m.ts => ctx'[ts].answer = ctx[ts].answer
            /\ ctx'[m.ts].answer # "none"
        BY <4>1, <4>2 DEF Context
      <4>. QED
        BY <2>3, <4>1, <4>3 DEF CallsLast
    <3>. QED
      BY <3>1, <3>2
  <2>6. Listens
    BY <2>2, <2>3, <2>4, <2>5 DEF Listens, Sending
  <2>. QED
    BY <2>6 DEF Acts
<1>3. CASE RecvGarbled
  <2>1. /\ Receive("ANSWER", <<>>)
        /\ UNCHANGED <<user, groups, clock, ctx>>
    BY <1>3 DEF RecvGarbled, session, calls
  <2>2. Listens
    BY <2>1, ListeningToMessage
  <2>. QED
    BY <2>2 DEF Acts
<1>4. CASE RecvKick
  <2>1. /\ Receive("KICK", <<>>)
        /\ UNCHANGED <<clock, ctx>>
        /\ user' \in {user, NoUser} /\ groups' \subseteq groups
    BY <1>4 DEF RecvKick, calls
  <2>2. Listens
    BY <2>1, ListeningToMessage
  <2>. QED
    BY <2>2 DEF Acts
<1>5. CASE RecvGroupMsg
  <2> DEFINE g == Head(inbox).group
             p == Packet("LEAVE_GROUP", NoUser, {g}, 0)
  <2>1. UNCHANGED <<user, groups, clock, ctx>>
    BY <1>5 DEF RecvGroupMsg, session, calls
  <2>2. CASE g \in groups
    <3>1. Receive("GROUP_MSG", <<>>)
      BY <1>5, <2>2 DEF RecvGroupMsg
    <3>2. Listens
      BY <2>1, <3>1, ListeningToMessage
    <3>. QED
      BY <3>2 DEF Acts
  <2>3. CASE g \notin groups
    <3>1. Receive("GROUP_MSG", <<p>>)
      BY <1>5, <2>3 DEF RecvGroupMsg
    <3>2. p.ts = 0 /\ Retracts(p)
      BY <2>3 DEF Packet, Retracts
    <3>3. p \in Request
      <4>1. Head(inbox) \in Reply /\ Head(inbox).type = "GROUP_MSG"
        BY <3>1 DEF Receive, Read, TypeOK, LinkType
      <4>2. g \in Groups
        BY <4>1 DEF Reply
      <4>. QED
        BY <4>2, MaxTsAssumption DEF Packet, Request, Kinds
    <3> HIDE DEF p
    <3>4. Speaks(p)
      BY <2>1, <3>1, <3>2, <3>3, Resending
    <3>. QED
      BY <3>3, <3>4 DEF Acts
  <2>. QED
    BY <2>2, <2>3
<1>6. CASE RecvUserMsg
  <2> DEFINE p == Packet("LOGOUT", NoUser, {}, 0)
  <2>1. UNCHANGED <<user, groups, clock, ctx>>
    BY <1>6 DEF RecvUserMsg, session, calls
  <2>2. CASE user # NoUser
    <3>1. Receive("USER_MSG", <<>>)
      BY <1>6, <2>2 DEF RecvUserMsg
    <3>2. Listens
      BY <2>1, <3>1, ListeningToMessage
    <3>. QED
      BY <3>2 DEF Acts
  <2>3. CASE user = NoUser
    <3>1. Receive("USER_MSG", <<p>>)
      BY <1>6, <2>3 DEF RecvUserMsg
    <3>2. p.ts = 0 /\ Retracts(p)
      BY <2>3 DEF Packet, Retracts
    <3>3. p \in Request
      BY MaxTsAssumption DEF Packet, Request, Kinds
    <3> HIDE DEF p
    <3>4. Speaks(p)
      BY <2>1, <3>1, <3>2, <3>3, Resending
    <3>. QED
      BY <3>3, <3>4 DEF Acts
  <2>. QED
    BY <2>2, <2>3
<1>. QED
  BY <1>1, <1>2, <1>3, <1>4, <1>5, <1>6

(* notify settles a call, or leaves its answer. *)
LEMMA NotifyLasts ==
  ASSUME TypeOK, NEW ts \in Ts, NEW res \in Results, Notify(ts, res),
         res = "TIMEOUT" \/ ctx[ts].answer # "none"
  PROVE  CallsLast
<1>1. ctx \in [Ts -> Context]
  BY Shapes
<1>2. CASE ctx' = ctx
  BY <1>2 DEF CallsLast
<1>3. CASE ctx' = [ctx EXCEPT ![ts].res = res, ![ts].done = TRUE]
  <2>1. \A t \in Ts : /\ ctx'[t].kind = ctx[t].kind
                      /\ ctx'[t].groups = ctx[t].groups
                      /\ ctx'[t].retry = ctx[t].retry
                      /\ ctx'[t].answer = ctx[t].answer
                      /\ ctx'[t].res = IF t = ts THEN res ELSE ctx[t].res
    BY <1>1, <1>3 DEF Context
  <2>. QED
    BY <2>1 DEF CallsLast
<1>. QED
  BY <1>2, <1>3 DEF Notify

(* A thread that only notifies. *)
LEMMA NotifyingActs ==
  ASSUME TypeOK, CallsLast,
         UNCHANGED <<user, groups, clock, wire, sendQ, inbox, api>>
  PROVE  Acts
<1>1. Drops(0) /\ 0 \in 0..Len(Out) /\ Answered' = Answered
  BY OutStays, OutType, AnswersStay
<1>2. Listens
  BY <1>1 DEF Listens, Sending
<1>. QED
  BY <1>2 DEF Acts

(* The rest of handle_response. *)
LEMMA NetApplyActs ==
  ASSUME TypeOK, TableInv,
         ClearLogining \/ LoginFailed \/ LoginSucceeded \/ JoinGroupFailed
           \/ NothingToApply \/ NetNotify
  PROVE  Acts
<1>1. CASE ClearLogining \/ LoginFailed \/ JoinGroupFailed \/ NothingToApply
  <2>1. /\ UNCHANGED <<clock, ctx, api, wire, sendQ, inbox>>
        /\ user' \in {user, NoUser} /\ groups' \subseteq groups
    BY <1>1
    DEF ClearLogining, LoginFailed, JoinGroupFailed, NothingToApply, Applying,
        session, calls, link
  <2>2. Listens
    BY <2>1, ListeningInPlace
  <2>. QED
    BY <2>2 DEF Acts
<1>2. CASE LoginSucceeded
  <2>1. UNCHANGED <<user, wire, inbox, api>>
    BY <1>2 DEF LoginSucceeded, Applying
  <2>2. CASE RejoinGroup
    BY <2>1, <2>2, RejoiningActs
  <2>3. CASE UNCHANGED <<groups, calls, sendQ>>
    <3>1. Listens
      BY <2>1, <2>3, ListeningInPlace DEF calls
    <3>. QED
      BY <3>1 DEF Acts
  <2>. QED
    BY <1>2, <2>2, <2>3 DEF LoginSucceeded
<1>3. CASE NetNotify
  <2> DEFINE res == IF net.ok THEN "OK" ELSE "FAILED"
  <2>1. /\ net.ts \in Ts /\ ctx[net.ts].answer = res
        /\ Notify(net.ts, res)
    BY <1>3, Shapes DEF NetNotify, TableInv, AnswersMatch
  <2>2. res \in Results /\ res # "none"
    BY DEF Results
  <2> HIDE DEF res
  <2>3. CallsLast
    BY <2>1, <2>2, NotifyLasts
  <2>. QED
    BY <1>3, <2>3, NotifyingActs DEF NetNotify, session, link
<1>. QED
  BY <1>1, <1>2, <1>3

(* The timer thread. *)
LEMMA TimerStepActs ==
  ASSUME TypeOK, TimerStep
  PROVE  Acts
<1>1. CASE TimerScan \/ CallTimeout \/ TimerErase
  <2>1. UNCHANGED <<user, groups, clock, ctx, api, wire, sendQ, inbox>>
    BY <1>1
    DEF TimerScan, CallTimeout, TimerErase, TimerHandle, session, calls, link
  <2>2. Listens
    BY <2>1, ListeningInPlace
  <2>. QED
    BY <2>2 DEF Acts
<1>2. CASE ReloginTimeout
  BY <1>2, RelogingActs DEF ReloginTimeout, TimerHandle
<1>3. CASE RejoinTimeout
  BY <1>3, RejoiningActs DEF RejoinTimeout, TimerHandle
<1>4. CASE TimerNotify
  <2>1. timer.ts \in Ts /\ "TIMEOUT" \in Results
    BY <1>4, Shapes DEF TimerNotify, Results
  <2>2. CallsLast
    BY <1>4, <2>1, NotifyLasts DEF TimerNotify
  <2>. QED
    BY <1>4, <2>2, NotifyingActs DEF TimerNotify, session, link
<1>. QED
  BY <1>1, <1>2, <1>3, <1>4 DEF TimerStep

(* The gateway takes the first packet off the wire and answers it. *)
LEMMA ServeListens ==
  ASSUME TypeOK, CallsWereMade, PacketsInv, NEW ok \in BOOLEAN, Serve(ok)
  PROVE  Listens
<1>1. /\ UNCHANGED <<user, groups, clock, ctx, api, sendQ>>
      /\ wire # <<>> /\ wire' = Tail(wire)
  BY DEF Serve, Outside, session, calls
<1>2. Drops(1) /\ Len(Out) >= 1 /\ Out[1] = Head(wire)
  BY <1>1, ServeDrops
<1>3. Out \in Seq(Request) /\ Len(Out) \in Nat
  BY Places
<1>4. Answered' \subseteq Answered \cup (Sent \ Sent')
  <2> DEFINE m == Answer(Out[1].ts, ok)
  <2>1. m.ts = Out[1].ts /\ m \in Reply
    <3>1. 1 \in 1..Len(Out)
      BY <1>2, <1>3
    <3>2. Out[1] \in Request
      BY <1>3, <3>1
    <3>3. Out[1].ts \in 0..MaxTs
      BY <3>2 DEF Request
    <3>. QED
      BY <3>3, NoGroupAssumption DEF Answer, Reply
  <2>2. inbox' = Append(inbox, m)
    BY <1>2 DEF Serve
  <2> HIDE DEF m
  <2>3. Answered' \subseteq Answered \cup ({Out[1].ts} \ {0})
    BY <2>1, <2>2, AnswersAppend
  <2>4. ASSUME Out[1].ts # 0 PROVE Out[1].ts \in Sent
    BY <1>2, <1>3, <2>4 DEF Sent
  <2>5. ASSUME Out[1].ts # 0 PROVE Out[1].ts \notin Sent'
    <3>1. ASSUME NEW i \in 1..Len(Out') PROVE Out'[i].ts # Out[1].ts
      <4>1. i + 1 \in 1..Len(Out) /\ i + 1 # 1 /\ Out'[i] = Out[i + 1]
        BY <1>2, <1>3 DEF Drops
      <4>. QED
        BY <1>2, <1>3, <2>5, <4>1 DEF PacketsInv, SentOnce
    <3>. QED
      BY <3>1 DEF Sent
  <2>. QED
    BY <2>3, <2>4, <2>5
<1>5. 1 \in 0..Len(Out)
  BY <1>2, <1>3
<1>. QED
  BY <1>1, <1>2, <1>4, <1>5, Listening

(* The gateway serves or speaks, and the environment breaks the link. *)
LEMMA GatewayActs ==
  ASSUME TypeOK, CallsWereMade, PacketsInv, ServerStep \/ Environment
  PROVE  Acts
<1>1. CASE ServerStep \/ ServeRefusal
  <2>1. \E ok \in BOOLEAN : Serve(ok)
    BY <1>1
    DEF ServerStep, ServeLogin, ServeLogout, ServeJoinGroup, ServeLeaveGroup,
        ServeRefusal
  <2>2. Listens
    BY <2>1, ServeListens
  <2>. QED
    BY <2>2 DEF Acts
<1>2. ASSUME NEW m \in Reply, m.type # "ANSWER", PushToClient(m)
      PROVE  Acts
  <2>1. /\ UNCHANGED <<user, groups, clock, ctx, api, wire, sendQ>>
        /\ inbox' = Append(inbox, m)
    BY <1>2 DEF PushToClient, Outside, session, calls
  <2>2. Drops(0) /\ 0 \in 0..Len(Out) /\ Answered' \subseteq Answered
    BY <1>2, <2>1, OutStays, OutType, AnswersAppend
  <2>3. Listens
    BY <2>1, <2>2, Listening
  <2>. QED
    BY <2>3 DEF Acts
<1>3. CASE KickUser \/ PushUserMsg
  <2>1. /\ Push("KICK", NoGroup) \in Reply
        /\ Push("USER_MSG", NoGroup) \in Reply
        /\ Push("KICK", NoGroup).type = "KICK"
        /\ Push("USER_MSG", NoGroup).type = "USER_MSG"
    BY MaxTsAssumption DEF Push, Reply
  <2>. QED
    BY <1>2, <1>3, <2>1 DEF KickUser, PushUserMsg
<1>4. CASE PushGroupMsg
  <2>1. PICK g \in srv.groups : PushToClient(Push("GROUP_MSG", g))
    BY <1>4 DEF PushGroupMsg
  <2>2. g \in Groups
    BY <2>1 DEF TypeOK, ServerState
  <2>3. /\ Push("GROUP_MSG", g) \in Reply
        /\ Push("GROUP_MSG", g).type = "GROUP_MSG"
    BY <2>2, MaxTsAssumption, NoGroupAssumption DEF Push, Reply
  <2>. QED
    BY <1>2, <2>1, <2>3
<1>5. CASE LinkDown
  <2>1. /\ UNCHANGED <<user, groups, clock, ctx, api, sendQ>>
        /\ wire' = <<>>
        /\ \E n \in 0..Len(inbox) : inbox' = SubSeq(inbox, 1, n)
    BY <1>5 DEF LinkDown, Disconnect, Outside, session, calls
  <2>2. Drops(Len(wire)) /\ Answered' \subseteq Answered
    BY <2>1, LinkDownDrops, AnswersCut
  <2>3. Len(wire) \in 0..Len(Out)
    BY <2>2 DEF Drops
  <2>4. Listens
    BY <2>1, <2>2, <2>3, Listening
  <2>. QED
    BY <2>4 DEF Acts
<1>. QED
  BY <1>1, <1>3, <1>4, <1>5 DEF Environment

(* Every step is of one of the four kinds. *)
LEMMA NextActs ==
  ASSUME TypeOK, TableInv, PacketsInv, RetractsUnwanted, ~EarlyWake,
         [Next]_vars
  PROVE  Acts
<1>1. CASE DeliverEvent \/ UNCHANGED vars
  <2>1. UNCHANGED <<user, groups, clock, ctx, api, wire, sendQ, inbox>>
    BY <1>1 DEF DeliverEvent, vars, session, calls, link
  <2>2. Listens
    BY <2>1, ListeningInPlace
  <2>. QED
    BY <2>2 DEF Acts
<1>2. CallsWereMade
  BY DEF TableInv
<1>. QED
  BY <1>1, <1>2, ApiCallActs, ApiStepActs, OnConnectedActs, NetReceiveActs,
     NetApplyActs, TimerStepActs, GatewayActs
  DEF Next, NetStep

-----------------------------------------------------------------------------
(* The inductive invariant. *)
RetractionInv ==
  PacketsInv /\ RetractsUnwanted /\ CallsSettle /\ WantsAreAsked

(* Nothing is under way and nothing is wanted. *)
LEMMA InitRetraction == Init => RetractionInv
<1> SUFFICES ASSUME Init PROVE RetractionInv
  OBVIOUS
<1>1. Out = <<>> /\ Len(Out) = 0 /\ Sending = {} /\ Answered = {}
  BY DEF Init, TransportInit, Out, Sending, Answered, AnswersIn
<1>2. Sent = {}
  BY <1>1 DEF Sent
<1>3. PacketsInv
  BY <1>1, <1>2 DEF PacketsInv, PacketsMatch, SentOnce, OnePlace
<1>4. CallsSettle
  <2>1. \A ts \in Ts : ~(ts < clock)
    BY MaxTsAssumption DEF Init, Ts
  <2>. QED
    BY <2>1 DEF CallsSettle
<1>. QED
  BY <1>1, <1>3, <1>4 DEF RetractionInv, RetractsUnwanted, WantsAreAsked, Init

(* The invariant is inductive over IInv of SessionProofs. *)
LEMMA RetractionCorrect == ~EarlyWake => (Spec => []RetractionInv)
<1> SUFFICES ASSUME ~EarlyWake PROVE Spec => []RetractionInv
  OBVIOUS
<1>1. ASSUME IInv, IInv', RetractionInv, [Next]_vars PROVE RetractionInv'
  <2>1. TypeOK /\ TypeOK' /\ TableInv /\ CallsWereMade
    BY <1>1 DEF IInv, TableInv
  <2>2. /\ PacketsInv /\ RetractsUnwanted /\ CallsSettle /\ WantsAreAsked
    BY <1>1 DEF RetractionInv
  <2>3. Acts
    BY <1>1, <2>1, <2>2, NextActs
  <2>4. PacketsInv'
    BY <2>1, <2>2, <2>3, ListensKeepsPackets, SpeaksKeepsPackets,
       BeginsKeepsPackets, EmptiesKeepsPackets
    DEF Acts
  <2>5. RetractsUnwanted'
    BY <2>1, <2>2, <2>3, ActsRetractUnwanted
  <2>6. CallsSettle'
    BY <2>1, <2>2, <2>3, ActsSettle
  <2>7. WantsAreAsked'
    BY <2>1, <2>2, <2>3, ActsAskForWants
  <2>. QED
    BY <2>4, <2>5, <2>6, <2>7 DEF RetractionInv
<1>. QED
  BY <1>1, InitRetraction, TableCorrect, PTL DEF Spec

(* What has been asked for is the last word, or was given up. *)
LEMMA AskedIsLastWord ==
  ASSUME TypeOK, NEW no, NEW yes, NEW gs,
         Asked(no, yes, gs), ~Unsent(yes, gs), ~GivenUp(yes, gs)
  PROVE  LastWord(no, yes, gs)
<1>1. ~Dropped(yes, gs)
  BY DEF Dropped, GivenUp
<1>2. AskedAgain(no, yes, gs)
  BY <1>1 DEF Asked
<1>3. Out \in Seq(Request) /\ DOMAIN Out = 1..Len(Out)
  BY OutType
<1>4. \A i \in DOMAIN Out :
        Out[i].kind = no /\ gs \subseteq Out[i].groups =>
          \E j \in DOMAIN Out :
            j > i /\ Out[j].kind = yes /\ gs \subseteq Out[j].groups
  BY <1>2, <1>3 DEF AskedAgain, Says, Asks
<1>. QED
  BY <1>4 DEF LastWord, Out

(* The packets under way to the gateway end with what the client wants: a  *)
(* LOGOUT or LEAVE_GROUP that the client resends because of a message it   *)
(* did not expect never has the last word on a login or a join that was    *)
(* asked for since, unless that call timed out.                            *)
THEOREM RetractionsAreOverruled ==
  ~EarlyWake => (Spec => []NoRetractionAfterRequest)
<1> SUFFICES ASSUME ~EarlyWake PROVE Spec => []NoRetractionAfterRequest
  OBVIOUS
<1>1. TypeOK /\ RetractionInv => NoRetractionAfterRequest
  BY AskedIsLastWord
  DEF RetractionInv, WantsAreAsked, NoRetractionAfterRequest
<1>. QED
  BY <1>1, RetractionCorrect, TypeCorrect, PTL
=============================================================================
