---------------------------- MODULE SessionProofs ----------------------------
(***************************************************************************)
(* TypeOK is an invariant of Session, for every set of users and groups,   *)
(* every budget and every bound on the number of calls: in particular no   *)
(* step reads a null user_ or works on a call that was not made.           *)
(***************************************************************************)
EXTENDS Session, TLAPS

(* PushSDK starts logged out, with no call made. *)
LEMMA InitType == Init => TypeOK
<1> SUFFICES ASSUME Init PROVE TypeOK
  OBVIOUS
<1>1. user \in Users \cup {NoUser} /\ groups \in SUBSET Groups
  BY DEF Init
<1>2. logining \in BOOLEAN
  BY DEF Init
<1>3. CallsType
  <2>1. clock \in 1..(MaxTs + 1) /\ cbMap \in SUBSET Ts
    BY MaxTsAssumption DEF Init
  <2>2. ctx \in [Ts -> Context] /\ \A ts \in Ts : CarriesUser(ctx[ts])
    BY DEF Init, NewContext, Context, CarriesUser, Kinds, Results, Answers
  <2>. QED
    BY <2>1, <2>2 DEF CallsType
<1>4. LinkType
  <2>1. up \in BOOLEAN
    BY DEF Init, TransportInit
  <2>2. sendQ \in Seq(Request) /\ wire \in Seq(Request)
    BY DEF Init, TransportInit
  <2>3. inbox \in Seq(Reply)
    BY DEF Init, TransportInit
  <2>. QED
    BY <2>1, <2>2, <2>3 DEF LinkType
<1>5. events \in Seq(Event)
  BY DEF Init
<1>6. ThreadsType
  BY MaxTsAssumption DEF Init, ThreadsType, ApiState, NetState, TimerState
<1>7. srv \in ServerState /\ budget \in [Faults -> Nat]
  BY BudgetsAssumption DEF Init, ServerState
<1>. QED
  BY <1>1, <1>2, <1>3, <1>4, <1>5, <1>6, <1>7 DEF TypeOK

-----------------------------------------------------------------------------
(* What the operators shared by the handlers do to the types. *)

(* Spending keeps the budget a budget, and never adds to it. *)
LEMMA SpendType ==
  ASSUME NEW f \in Faults, budget \in [Faults -> Nat], Spend(f)
  PROVE  /\ budget' \in [Faults -> Nat]
         /\ budget'[f] < budget[f]
         /\ \A h \in Faults : budget'[h] <= budget[h]
  BY DEF Spend

(* A new context takes a timestamp of the bound and changes no other. *)
LEMMA NewCallType ==
  ASSUME CallsType, NEW c \in Context, CarriesUser(c), NewCall(c)
  PROVE  /\ clock \in Ts /\ clock' = clock + 1
         /\ clock' \in 1..(MaxTs + 1)
         /\ ctx' \in [Ts -> Context]
         /\ \A ts \in Ts : CarriesUser(ctx'[ts])
         /\ ctx'[clock] = c
         /\ \A ts \in Ts : ts # clock => ctx'[ts] = ctx[ts]
  BY MaxTsAssumption DEF NewCall, CallsType, Ts

(* The contexts the code builds are contexts. *)
LEMMA NewContextType ==
  ASSUME NEW kind \in Kinds, NEW u \in Users \cup {NoUser},
         NEW gs \in SUBSET Groups, NEW retry \in BOOLEAN,
         kind = "LOGIN" <=> u # NoUser
  PROVE  /\ NewContext(kind, u, gs, retry) \in Context
         /\ CarriesUser(NewContext(kind, u, gs, retry))
  BY DEF NewContext, Context, CarriesUser, Results, Answers

(* Queueing a packet or an event keeps the queue a queue. *)
LEMMA SendType ==
  ASSUME sendQ \in Seq(Request), NEW m \in Request, Send(m)
  PROVE  sendQ' \in Seq(Request)
  BY DEF Send

(* send_all_msgs moves packets and nothing else. *)
LEMMA SendAllMsgsType ==
  ASSUME sendQ \in Seq(Request), wire \in Seq(Request), SendAllMsgs
  PROVE  sendQ' \in Seq(Request) /\ wire' \in Seq(Request)
  BY DEF SendAllMsgs

(* emit_event queues an event. *)
LEMMA EmitType ==
  ASSUME events \in Seq(Event),
         NEW type \in Kinds \cup {"INNER_ERR"},
         NEW res \in Results \cup {"REQ_ENC_FAILED", "RES_DEC_FAILED",
                                   "KICKED"},
         Emit(type, res)
  PROVE  events' \in Seq(Event)
  BY DEF Emit, Event

(* call registers and queues. *)
LEMMA CallType ==
  ASSUME CallsType, sendQ \in Seq(Request),
         NEW c \in Context, CarriesUser(c), Call(c)
  PROVE  CallsType' /\ sendQ' \in Seq(Request)
<1>1. /\ clock \in Ts
      /\ clock' \in 1..(MaxTs + 1)
      /\ ctx' \in [Ts -> Context]
      /\ \A ts \in Ts : CarriesUser(ctx'[ts])
  BY NewCallType DEF Call
<1>2. cbMap' \in SUBSET Ts
  BY <1>1 DEF Call, CallsType
<1>3. Packet(c.kind, c.user, c.groups, clock) \in Request
  BY <1>1, MaxTsAssumption DEF Packet, Request, Context, Ts
<1>4. sendQ' \in Seq(Request)
  BY <1>3, SendType DEF Call
<1>. QED
  BY <1>1, <1>2, <1>4 DEF CallsType, CarriesUser

(* notify leaves a context a context, or queues an event. *)
LEMMA NotifyType ==
  ASSUME CallsType, events \in Seq(Event),
         NEW ts \in Ts, NEW res \in Results, Notify(ts, res),
         UNCHANGED <<clock, cbMap>>
  PROVE  CallsType' /\ events' \in Seq(Event)
<1>1. CASE ctx[ts].retry
  <2>1. ctx[ts].kind \in Kinds \cup {"INNER_ERR"}
    BY DEF CallsType, Context
  <2>2. Emit(ctx[ts].kind, res) /\ UNCHANGED ctx
    BY <1>1 DEF Notify
  <2>3. events' \in Seq(Event)
    BY <2>1, <2>2, EmitType
  <2>. QED
    BY <2>2, <2>3 DEF CallsType, CarriesUser
<1>2. CASE ~ctx[ts].retry
  <2>1. /\ ctx' = [ctx EXCEPT ![ts].res = res, ![ts].done = TRUE]
        /\ UNCHANGED events
    BY <1>2 DEF Notify
  <2>2. ctx' \in [Ts -> Context]
    BY <2>1 DEF CallsType, Context
  <2>3. \A t \in Ts : ctx'[t].kind = ctx[t].kind /\ ctx'[t].user = ctx[t].user
    BY <2>1 DEF CallsType, Context
  <2>. QED
    BY <2>1, <2>2, <2>3 DEF CallsType, CarriesUser
<1>. QED
  BY <1>1, <1>2

(* relogin and rejoin_group, in each of their three outcomes. *)
LEMMA ReloginType ==
  ASSUME TypeOK, NEW isTimeout \in BOOLEAN, Relogin(isTimeout)
  PROVE  /\ user' \in Users \cup {NoUser}
         /\ logining' \in BOOLEAN
         /\ CallsType'
         /\ sendQ' \in Seq(Request)
         /\ events' \in Seq(Event)
         /\ budget' \in [Faults -> Nat]
<1> USE DEF TypeOK, LinkType
<1>1. CASE UNCHANGED <<user, logining, calls, sendQ, events, budget>>
  BY <1>1 DEF calls, CallsType, CarriesUser
<1>2. CASE /\ user # NoUser
           /\ logining' = TRUE
           /\ Call(NewContext("LOGIN", user, {}, TRUE))
           /\ UNCHANGED <<user, events, budget>>
  <2>1. /\ NewContext("LOGIN", user, {}, TRUE) \in Context
        /\ CarriesUser(NewContext("LOGIN", user, {}, TRUE))
    BY <1>2, NewContextType DEF Kinds
  <2>2. CallsType' /\ sendQ' \in Seq(Request)
    BY <1>2, <2>1, CallType
  <2>3. logining' \in BOOLEAN
    BY <1>2
  <2>. QED
    BY <1>2, <2>2, <2>3
<1>3. CASE /\ Spend("codec")
           /\ user' = NoUser
           /\ Emit("LOGIN", "REQ_ENC_FAILED")
           /\ UNCHANGED <<logining, calls, sendQ>>
  <2>1. budget' \in [Faults -> Nat]
    BY <1>3, SpendType DEF Faults
  <2>2. events' \in Seq(Event)
    BY <1>3, EmitType DEF Kinds
  <2>3. CallsType'
    BY <1>3 DEF calls, CallsType, CarriesUser
  <2>4. user' \in Users \cup {NoUser} /\ sendQ' \in Seq(Request)
    BY <1>3
  <2>5. logining' \in BOOLEAN
    BY <1>3
  <2>. QED
    BY <2>1, <2>2, <2>3, <2>4, <2>5
<1>. QED
  BY <1>1, <1>2, <1>3 DEF Relogin

(* Likewise rejoin_group. *)
LEMMA RejoinGroupType ==
  ASSUME TypeOK, RejoinGroup
  PROVE  /\ groups' \in SUBSET Groups
         /\ CallsType'
         /\ sendQ' \in Seq(Request)
         /\ events' \in Seq(Event)
         /\ budget' \in [Faults -> Nat]
<1> USE DEF TypeOK, LinkType
<1>1. CASE UNCHANGED <<groups, calls, sendQ, events, budget>>
  BY <1>1 DEF calls, CallsType, CarriesUser
<1>2. CASE /\ Call(NewContext("JOIN_GROUP", NoUser, groups, TRUE))
           /\ UNCHANGED <<groups, events, budget>>
  <2>1. /\ NewContext("JOIN_GROUP", NoUser, groups, TRUE) \in Context
        /\ CarriesUser(NewContext("JOIN_GROUP", NoUser, groups, TRUE))
    BY NewContextType DEF Kinds
  <2>2. CallsType' /\ sendQ' \in Seq(Request)
    BY <1>2, <2>1, CallType
  <2>. QED
    BY <1>2, <2>2
<1>3. CASE /\ Spend("codec")
           /\ groups' = {}
           /\ Emit("JOIN_GROUP", "REQ_ENC_FAILED")
           /\ UNCHANGED <<calls, sendQ>>
  <2>1. budget' \in [Faults -> Nat]
    BY <1>3, SpendType DEF Faults
  <2>2. events' \in Seq(Event)
    BY <1>3, EmitType DEF Kinds
  <2>3. CallsType'
    BY <1>3 DEF calls, CallsType, CarriesUser
  <2>. QED
    BY <1>3, <2>1, <2>2, <2>3
<1>. QED
  BY <1>1, <1>2, <1>3 DEF RejoinGroup

(* A public function that starts a call. *)
LEMMA BeginCallType ==
  ASSUME TypeOK, NEW c \in Context, CarriesUser(c), BeginCall(c)
  PROVE  /\ CallsType'
         /\ ThreadsType'
         /\ events' \in Seq(Event)
         /\ srv' \in ServerState
         /\ up' \in BOOLEAN /\ wire' \in Seq(Request) /\ inbox' \in Seq(Reply)
<1>1. /\ clock \in Ts
      /\ clock' \in 1..(MaxTs + 1)
      /\ ctx' \in [Ts -> Context]
      /\ \A ts \in Ts : CarriesUser(ctx'[ts])
  BY NewCallType DEF BeginCall, TypeOK
<1>2. CallsType'
  BY <1>1 DEF BeginCall, TypeOK, CallsType, CarriesUser
<1>3. api' \in ApiState /\ api'.ts \in Ts
  BY <1>1, MaxTsAssumption DEF BeginCall, ApiState, Ts
<1>4. ThreadsType'
  BY <1>3 DEF BeginCall, TypeOK, ThreadsType
<1>. QED
  BY <1>2, <1>4 DEF BeginCall, TypeOK, LinkType

-----------------------------------------------------------------------------
(* TypeOK is inductive, thread by thread. *)

(* The public functions of push_sdk.cpp, up to the end of user_mux_. *)
LEMMA ApiCallKeepsType == TypeOK /\ ApiCall => TypeOK'
<1> SUFFICES ASSUME TypeOK, ApiCall PROVE TypeOK'
  OBVIOUS
<1>1. ASSUME NEW u \in Users, Login(u) PROVE TypeOK'
  <2>1. /\ NewContext("LOGIN", u, {}, FALSE) \in Context
        /\ CarriesUser(NewContext("LOGIN", u, {}, FALSE))
    BY NewContextType, NoUserAssumption DEF Kinds
  <2>2. /\ CallsType' /\ ThreadsType'
        /\ events' \in Seq(Event) /\ srv' \in ServerState
        /\ up' \in BOOLEAN /\ wire' \in Seq(Request) /\ inbox' \in Seq(Reply)
    BY <1>1, <2>1, BeginCallType DEF Login
  <2>3. budget' \in [Faults -> Nat]
    BY <1>1, SpendType DEF Login, Faults, TypeOK
  <2>4. sendQ' \in Seq(Request)
    BY <1>1 DEF Login, CleanQueue
  <2>5. logining' \in BOOLEAN
    BY <1>1 DEF Login
  <2>6. user' \in Users \cup {NoUser} /\ groups' \in SUBSET Groups
    BY <1>1 DEF Login, TypeOK
  <2>. QED
    BY <2>2, <2>3, <2>4, <2>5, <2>6 DEF TypeOK, LinkType
<1>2. CASE LoginRejected
  <2>1. budget' \in [Faults -> Nat]
    BY <1>2, SpendType DEF LoginRejected, Faults, TypeOK
  <2>2. sendQ' \in Seq(Request)
    BY <1>2 DEF LoginRejected, CleanQueue
  <2>. QED
    BY <1>2, <2>1, <2>2
    DEF LoginRejected, TypeOK, session, calls, CallsType, CarriesUser,
        LinkType, ThreadsType
<1>3. CASE Logout
  <2>1. /\ NewContext("LOGOUT", NoUser, {}, FALSE) \in Context
        /\ CarriesUser(NewContext("LOGOUT", NoUser, {}, FALSE))
    BY NewContextType DEF Kinds
  <2>2. /\ CallsType' /\ ThreadsType'
        /\ events' \in Seq(Event) /\ srv' \in ServerState
        /\ up' \in BOOLEAN /\ wire' \in Seq(Request) /\ inbox' \in Seq(Reply)
    BY <1>3, <2>1, BeginCallType DEF Logout
  <2>3. budget' \in [Faults -> Nat]
    BY <1>3, SpendType DEF Logout, Faults, TypeOK
  <2>. QED
    BY <1>3, <2>2, <2>3 DEF Logout, TypeOK, LinkType
<1>4. ASSUME NEW g \in Groups, JoinGroup(g) PROVE TypeOK'
  <2>1. /\ NewContext("JOIN_GROUP", NoUser, {g}, FALSE) \in Context
        /\ CarriesUser(NewContext("JOIN_GROUP", NoUser, {g}, FALSE))
    BY NewContextType DEF Kinds
  <2>2. /\ CallsType' /\ ThreadsType'
        /\ events' \in Seq(Event) /\ srv' \in ServerState
        /\ up' \in BOOLEAN /\ wire' \in Seq(Request) /\ inbox' \in Seq(Reply)
    BY <1>4, <2>1, BeginCallType DEF JoinGroup
  <2>3. budget' \in [Faults -> Nat]
    BY <1>4, SpendType DEF JoinGroup, Faults, TypeOK
  <2>. QED
    BY <1>4, <2>2, <2>3 DEF JoinGroup, TypeOK, LinkType
<1>5. ASSUME NEW g \in Groups, LeaveGroup(g) PROVE TypeOK'
  <2>1. /\ NewContext("LEAVE_GROUP", NoUser, {g}, FALSE) \in Context
        /\ CarriesUser(NewContext("LEAVE_GROUP", NoUser, {g}, FALSE))
    BY NewContextType DEF Kinds
  <2>2. /\ CallsType' /\ ThreadsType'
        /\ events' \in Seq(Event) /\ srv' \in ServerState
        /\ up' \in BOOLEAN /\ wire' \in Seq(Request) /\ inbox' \in Seq(Reply)
    BY <1>5, <2>1, BeginCallType DEF LeaveGroup
  <2>3. budget' \in [Faults -> Nat]
    BY <1>5, SpendType DEF LeaveGroup, Faults, TypeOK
  <2>. QED
    BY <1>5, <2>2, <2>3 DEF LeaveGroup, TypeOK, LinkType
<1>. QED
  BY <1>1, <1>2, <1>3, <1>4, <1>5 DEF ApiCall

(* call_sync after user_mux_. *)
LEMMA ApiStepKeepsType == TypeOK /\ ApiStep => TypeOK'
<1> SUFFICES ASSUME TypeOK, ApiStep PROVE TypeOK'
  OBVIOUS
<1>1. CASE CallRegister
  <2>1. api.ts \in Ts /\ api' \in ApiState /\ api'.ts \in Ts
    BY <1>1 DEF CallRegister, TypeOK, ThreadsType, ApiState
  <2>2. CallsType'
    BY <1>1, <2>1 DEF CallRegister, TypeOK, CallsType, CarriesUser
  <2>. QED
    BY <1>1, <2>1, <2>2
    DEF CallRegister, TypeOK, session, link, LinkType, ThreadsType
<1>2. CASE CallSend
  <2>1. api.ts \in Ts /\ api' \in ApiState /\ api'.ts \in Ts
    BY <1>2 DEF CallSend, TypeOK, ThreadsType, ApiState
  <2>2. ctx[api.ts] \in Context
    BY <2>1 DEF TypeOK, CallsType
  <2>3. CallPacket(api.ts) \in Request
    BY <2>1, <2>2, MaxTsAssumption
    DEF CallPacket, Packet, Request, Context, Ts
  <2>4. sendQ' \in Seq(Request)
    BY <1>2, <2>3, SendType DEF CallSend, TypeOK, LinkType
  <2>. QED
    BY <1>2, <2>1, <2>4
    DEF CallSend, TypeOK, session, calls, CallsType, CarriesUser, LinkType,
        ThreadsType
<1>3. CASE CallReturn
  <2>1. api.ts \in Ts
    BY <1>3 DEF CallReturn, TypeOK, ThreadsType
  <2>2. ctx[api.ts].res \in Results
    BY <2>1 DEF TypeOK, CallsType, Context
  <2>3. api' \in ApiState /\ api'.pc = "idle"
    BY <1>3, <2>2 DEF CallReturn, TypeOK, ThreadsType, ApiState
  <2>. QED
    BY <1>3, <2>3
    DEF CallReturn, TypeOK, session, calls, link, CallsType, CarriesUser,
        LinkType, ThreadsType
<1>. QED
  BY <1>1, <1>2, <1>3 DEF ApiStep

(* A reconnection logs in a user that exists. *)
LEMMA OnConnectedKeepsType == TypeOK /\ OnConnected => TypeOK'
<1> SUFFICES ASSUME TypeOK, OnConnected PROVE TypeOK'
  OBVIOUS
<1>1. /\ user' \in Users \cup {NoUser}
      /\ logining' \in BOOLEAN
      /\ CallsType'
      /\ sendQ' \in Seq(Request)
      /\ events' \in Seq(Event)
      /\ budget' \in [Faults -> Nat]
  BY ReloginType DEF OnConnected
<1>2. up' \in BOOLEAN
  BY DEF OnConnected, Connect
<1>. QED
  BY <1>1, <1>2 DEF OnConnected, TypeOK, LinkType, ThreadsType

(* Noting an answer leaves a context a context. *)
LEMMA AnswerType ==
  ASSUME CallsType, NEW ts \in Ts, NEW a \in Answers
  PROVE  [ctx EXCEPT ![ts].answer = a] \in [Ts -> Context]
  BY DEF CallsType, Context

(* Reading takes a message from the inbox and flushes the queue; what the  *)
(* handler queues are packets.                                             *)
LEMMA ReceiveType ==
  ASSUME TypeOK, NEW type, NEW out \in Seq(Request), Receive(type, out)
  PROVE  /\ Head(inbox) \in Reply
         /\ LinkType'
         /\ api' = api /\ timer' = timer /\ srv' = srv
<1>1. Head(inbox) \in Reply /\ inbox' \in Seq(Reply)
  BY DEF Receive, Read, TypeOK, LinkType
<1>2. sendQ \in Seq(Request) /\ wire \in Seq(Request)
  BY DEF TypeOK, LinkType
<1>3. \/ wire' = wire \o sendQ /\ sendQ' = out
      \/ sendQ' = sendQ \o out /\ wire' = wire
  BY Zenon DEF Receive, Read
<1>4. sendQ' \in Seq(Request) /\ wire' \in Seq(Request)
  <2>1. out \in Seq(Request)
    OBVIOUS
  <2>2. \A s, t \in Seq(Request) : s \o t \in Seq(Request)
    OBVIOUS
  <2>. QED
    BY <1>2, <1>3, <2>1, <2>2, Zenon
<1>5. up' \in BOOLEAN
  BY DEF Receive, TypeOK, LinkType
<1>. QED
  BY <1>1, <1>4, <1>5 DEF Receive, LinkType

(* OnMessage, for each of the messages the gateway sends. *)
LEMMA NetReceiveKeepsType ==
  TypeOK /\ (Flush \/ RecvAnswer \/ RecvGarbled \/ RecvKick \/ RecvGroupMsg
               \/ RecvUserMsg) => TypeOK'
<1> SUFFICES ASSUME TypeOK,
                    \/ Flush \/ RecvAnswer \/ RecvGarbled \/ RecvKick
                    \/ RecvGroupMsg \/ RecvUserMsg
             PROVE  TypeOK'
  OBVIOUS
<1>1. CASE Flush
  <2>1. sendQ' \in Seq(Request) /\ wire' \in Seq(Request)
    BY <1>1, SendAllMsgsType DEF Flush, TypeOK, LinkType
  <2>. QED
    BY <1>1, <2>1
    DEF Flush, TypeOK, session, calls, CallsType, CarriesUser, LinkType,
        ThreadsType
<1>2. CASE RecvAnswer
  <2> DEFINE m == Head(inbox)
  <2>0. <<>> \in Seq(Request)
    OBVIOUS
  <2>1. m \in Reply /\ LinkType' /\ api' = api /\ timer' = timer /\ srv' = srv
    BY <1>2, <2>0, ReceiveType DEF RecvAnswer
  <2>3. CASE ~Expected(m.ts)
    BY <1>2, <2>1, <2>3
    DEF RecvAnswer, TypeOK, session, CallsType, CarriesUser, ThreadsType
  <2>4. CASE Expected(m.ts)
    <3>1. m.ts \in Ts /\ m.ok \in BOOLEAN
      BY <2>1, <2>4 DEF Expected, TypeOK, CallsType, Reply
    <3>2. /\ cbMap' = cbMap \ {m.ts}
          /\ ctx' = [ctx EXCEPT ![m.ts].answer =
                                  IF m.ok THEN "OK" ELSE "FAILED"]
          /\ net' = [pc |-> IF ctx[m.ts].kind = "LOGIN"
                            THEN "clear" ELSE "apply",
                     ts |-> m.ts, ok |-> m.ok]
      BY <1>2, <2>4 DEF RecvAnswer
    <3>3. ctx' \in [Ts -> Context]
      <4>1. PICK a \in Answers : a = IF m.ok THEN "OK" ELSE "FAILED"
        BY <3>1 DEF Answers
      <4>2. ctx' = [ctx EXCEPT ![m.ts].answer = a]
        BY <3>2, <4>1
      <4>. QED
        BY <3>1, <4>2, AnswerType DEF TypeOK
    <3>4. \A t \in Ts :
            ctx'[t].kind = ctx[t].kind /\ ctx'[t].user = ctx[t].user
      BY <3>2 DEF TypeOK, CallsType, Context
    <3>5. CallsType'
      BY <1>2, <3>2, <3>3, <3>4
      DEF RecvAnswer, TypeOK, CallsType, CarriesUser
    <3>6. net' \in NetState /\ net'.ts \in Ts
      BY <3>1, <3>2, MaxTsAssumption DEF NetState, Ts
    <3>. QED
      BY <1>2, <2>1, <3>5, <3>6 DEF RecvAnswer, TypeOK, session, ThreadsType
  <2>. QED
    BY <2>3, <2>4
<1>3. CASE RecvGarbled
  <2>1. <<>> \in Seq(Request)
    OBVIOUS
  <2>2. LinkType' /\ api' = api /\ timer' = timer /\ srv' = srv
    BY <1>3, <2>1, ReceiveType DEF RecvGarbled
  <2>3. budget' \in [Faults -> Nat]
    BY <1>3, SpendType DEF RecvGarbled, Faults, TypeOK
  <2>4. events' \in Seq(Event)
    BY <1>3, EmitType DEF RecvGarbled, TypeOK
  <2>. QED
    BY <1>3, <2>2, <2>3, <2>4
    DEF RecvGarbled, TypeOK, session, calls, CallsType, CarriesUser,
        ThreadsType
<1>4. CASE RecvKick
  <2>1. <<>> \in Seq(Request)
    OBVIOUS
  <2>2. LinkType' /\ api' = api /\ timer' = timer /\ srv' = srv
    BY <1>4, <2>1, ReceiveType DEF RecvKick
  <2>3. /\ user' \in Users \cup {NoUser} /\ groups' \in SUBSET Groups
        /\ events' \in Seq(Event)
    <3>1. CASE user = NoUser
      BY <1>4, <3>1 DEF RecvKick, TypeOK
    <3>2. CASE user # NoUser
      <4>1. user' = NoUser /\ groups' = {} /\ Emit("LOGIN", "KICKED")
        BY <1>4, <3>2 DEF RecvKick
      <4>2. events' \in Seq(Event)
        BY <4>1, EmitType DEF Kinds, TypeOK
      <4>. QED
        BY <4>1, <4>2
    <3>. QED
      BY <3>1, <3>2
  <2>. QED
    BY <1>4, <2>2, <2>3
    DEF RecvKick, TypeOK, calls, CallsType, CarriesUser, ThreadsType
<1>5. CASE RecvGroupMsg
  <2> DEFINE g == Head(inbox).group
             out == IF g \in groups
                    THEN <<>>
                    ELSE <<Packet("LEAVE_GROUP", NoUser, {g}, 0)>>
  <2>1. Receive("GROUP_MSG", out)
    BY <1>5 DEF RecvGroupMsg
  <2>2. out \in Seq(Request)
    <3>1. Head(inbox) \in Reply /\ Head(inbox).type = "GROUP_MSG"
      BY <2>1 DEF Receive, Read, TypeOK, LinkType
    <3>2. g \in Groups
      BY <3>1 DEF Reply
    <3>3. Packet("LEAVE_GROUP", NoUser, {g}, 0) \in Request
      BY <3>2, MaxTsAssumption DEF Packet, Request, Kinds
    <3>. QED
      BY <3>3
  <2> HIDE DEF out
  <2>3. LinkType' /\ api' = api /\ timer' = timer /\ srv' = srv
    BY <2>1, <2>2, ReceiveType
  <2>. QED
    BY <1>5, <2>3
    DEF RecvGroupMsg, TypeOK, session, calls, CallsType, CarriesUser,
        ThreadsType
<1>6. CASE RecvUserMsg
  <2> DEFINE out == IF user # NoUser
                    THEN <<>>
                    ELSE <<Packet("LOGOUT", NoUser, {}, 0)>>
  <2>1. Receive("USER_MSG", out)
    BY <1>6 DEF RecvUserMsg
  <2>2. out \in Seq(Request)
    <3>1. Packet("LOGOUT", NoUser, {}, 0) \in Request
      BY MaxTsAssumption DEF Packet, Request, Kinds
    <3>. QED
      BY <3>1
  <2> HIDE DEF out
  <2>3. LinkType' /\ api' = api /\ timer' = timer /\ srv' = srv
    BY <2>1, <2>2, ReceiveType
  <2>. QED
    BY <1>6, <2>3
    DEF RecvUserMsg, TypeOK, session, calls, CallsType, CarriesUser,
        ThreadsType
<1>. QED
  BY <1>1, <1>2, <1>3, <1>4, <1>5, <1>6

(* The part of a net step of handle_response that is common to its cases. *)
LEMMA ApplyingType ==
  ASSUME TypeOK, NEW kind, NEW ok, Applying(kind, ok)
  PROVE  /\ ThreadsType'
         /\ srv' \in ServerState
         /\ up' \in BOOLEAN /\ wire' \in Seq(Request) /\ inbox' \in Seq(Reply)
<1>1. net.ts \in Ts /\ net' \in NetState /\ net'.ts = net.ts
  BY DEF Applying, TypeOK, ThreadsType, NetState
<1>. QED
  BY <1>1 DEF Applying, TypeOK, LinkType, ThreadsType

(* handle_response after it took the call out of cb_map_. *)
LEMMA NetApplyKeepsType ==
  TypeOK /\ (ClearLogining \/ LoginFailed \/ LoginSucceeded \/ JoinGroupFailed
               \/ NothingToApply \/ NetNotify) => TypeOK'
<1> SUFFICES ASSUME TypeOK,
                    \/ ClearLogining \/ LoginFailed \/ LoginSucceeded
                    \/ JoinGroupFailed \/ NothingToApply \/ NetNotify
             PROVE  TypeOK'
  OBVIOUS
<1>1. CASE ClearLogining
  <2>1. net' \in NetState /\ net'.ts \in Ts
    BY <1>1 DEF ClearLogining, TypeOK, ThreadsType, NetState
  <2>2. logining' \in BOOLEAN
    BY <1>1 DEF ClearLogining
  <2>. QED
    BY <1>1, <2>1, <2>2
    DEF ClearLogining, TypeOK, calls, link, CallsType, CarriesUser, LinkType,
        ThreadsType
<1>2. CASE LoginFailed
  <2>1. /\ ThreadsType' /\ srv' \in ServerState
        /\ up' \in BOOLEAN /\ wire' \in Seq(Request) /\ inbox' \in Seq(Reply)
    BY <1>2, ApplyingType DEF LoginFailed
  <2>. QED
    BY <1>2, <2>1
    DEF LoginFailed, TypeOK, calls, CallsType, CarriesUser, LinkType
<1>3. CASE LoginSucceeded
  <2>1. /\ ThreadsType' /\ srv' \in ServerState
        /\ up' \in BOOLEAN /\ wire' \in Seq(Request) /\ inbox' \in Seq(Reply)
    BY <1>3, ApplyingType DEF LoginSucceeded
  <2>2. /\ groups' \in SUBSET Groups
        /\ CallsType'
        /\ sendQ' \in Seq(Request)
        /\ events' \in Seq(Event)
        /\ budget' \in [Faults -> Nat]
    <3>1. CASE RejoinGroup
      BY <3>1, RejoinGroupType
    <3>2. CASE UNCHANGED <<groups, calls, sendQ, events, budget>>
      BY <3>2 DEF TypeOK, calls, CallsType, CarriesUser, LinkType
    <3>. QED
      BY <1>3, <3>1, <3>2 DEF LoginSucceeded
  <2>. QED
    BY <1>3, <2>1, <2>2 DEF LoginSucceeded, TypeOK, LinkType
<1>4. CASE JoinGroupFailed
  <2>1. /\ ThreadsType' /\ srv' \in ServerState
        /\ up' \in BOOLEAN /\ wire' \in Seq(Request) /\ inbox' \in Seq(Reply)
    BY <1>4, ApplyingType DEF JoinGroupFailed
  <2>2. groups' \in SUBSET Groups
    BY <1>4 DEF JoinGroupFailed, TypeOK
  <2>. QED
    BY <1>4, <2>1, <2>2
    DEF JoinGroupFailed, TypeOK, calls, CallsType, CarriesUser, LinkType
<1>5. CASE NothingToApply
  <2>1. /\ ThreadsType' /\ srv' \in ServerState
        /\ up' \in BOOLEAN /\ wire' \in Seq(Request) /\ inbox' \in Seq(Reply)
    BY <1>5, ApplyingType DEF NothingToApply
  <2>. QED
    BY <1>5, <2>1
    DEF NothingToApply, TypeOK, session, calls, CallsType, CarriesUser,
        LinkType
<1>6. CASE NetNotify
  <2>1. net.ts \in Ts /\ net' \in NetState
    BY <1>6 DEF NetNotify, TypeOK, ThreadsType, NetState
  <2>2. net'.pc = "idle"
    BY <1>6 DEF NetNotify, TypeOK, ThreadsType, NetState
  <2>3. (IF net.ok THEN "OK" ELSE "FAILED") \in Results
    BY DEF Results
  <2>4. CallsType' /\ events' \in Seq(Event)
    BY <1>6, <2>1, <2>3, NotifyType DEF NetNotify, TypeOK
  <2>. QED
    BY <1>6, <2>1, <2>2, <2>4
    DEF NetNotify, TypeOK, session, link, LinkType, ThreadsType
<1>. QED
  BY <1>1, <1>2, <1>3, <1>4, <1>5, <1>6

(* The net thread as a whole. *)
LEMMA NetStepKeepsType == TypeOK /\ NetStep => TypeOK'
  BY NetReceiveKeepsType, NetApplyKeepsType DEF NetStep

(* The timer thread works on entries of cb_map_, which are calls. *)
LEMMA TimerStepKeepsType == TypeOK /\ TimerStep => TypeOK'
<1> SUFFICES ASSUME TypeOK, TimerStep PROVE TypeOK'
  OBVIOUS
<1>1. CASE TimerScan
  <2>1. PICK ts \in cbMap :
          /\ Expire(ts)
          /\ timer' = [pc |-> "handle", ts |-> ts]
    BY <1>1 DEF TimerScan
  <2>2. ts \in Ts /\ timer' \in TimerState /\ timer'.ts \in Ts
    BY <2>1, MaxTsAssumption DEF TypeOK, CallsType, TimerState, Ts
  <2>3. Spend("stall") \/ Spend("slow") \/ UNCHANGED budget
    BY <2>1 DEF Expire
  <2>4. budget' \in [Faults -> Nat]
    BY <2>3, SpendType DEF TypeOK, Faults
  <2>. QED
    BY <1>1, <2>2, <2>4
    DEF TimerScan, TypeOK, session, calls, link, CallsType, CarriesUser,
        LinkType, ThreadsType
<1>2. ASSUME NEW kind, NEW retry, TimerHandle(kind, retry)
      PROVE  /\ ThreadsType' /\ srv' \in ServerState
             /\ up' \in BOOLEAN /\ wire' \in Seq(Request)
             /\ inbox' \in Seq(Reply)
  <2>1. timer.ts \in Ts /\ timer' \in TimerState /\ timer'.ts = timer.ts
    BY <1>2 DEF TimerHandle, TypeOK, ThreadsType, TimerState
  <2>. QED
    BY <1>2, <2>1 DEF TimerHandle, TypeOK, LinkType, ThreadsType
<1>3. CASE ReloginTimeout
  <2>1. /\ user' \in Users \cup {NoUser}
        /\ logining' \in BOOLEAN
        /\ CallsType'
        /\ sendQ' \in Seq(Request)
        /\ events' \in Seq(Event)
        /\ budget' \in [Faults -> Nat]
    BY <1>3, ReloginType DEF ReloginTimeout
  <2>2. /\ ThreadsType' /\ srv' \in ServerState
        /\ up' \in BOOLEAN /\ wire' \in Seq(Request) /\ inbox' \in Seq(Reply)
    BY <1>3, <1>2 DEF ReloginTimeout
  <2>. QED
    BY <1>3, <2>1, <2>2 DEF ReloginTimeout, TypeOK, LinkType
<1>4. CASE RejoinTimeout
  <2>1. /\ groups' \in SUBSET Groups
        /\ CallsType'
        /\ sendQ' \in Seq(Request)
        /\ events' \in Seq(Event)
        /\ budget' \in [Faults -> Nat]
    BY <1>4, RejoinGroupType DEF RejoinTimeout
  <2>2. /\ ThreadsType' /\ srv' \in ServerState
        /\ up' \in BOOLEAN /\ wire' \in Seq(Request) /\ inbox' \in Seq(Reply)
    BY <1>4, <1>2 DEF RejoinTimeout
  <2>. QED
    BY <1>4, <2>1, <2>2 DEF RejoinTimeout, TypeOK, LinkType
<1>5. CASE CallTimeout
  <2>1. /\ ThreadsType' /\ srv' \in ServerState
        /\ up' \in BOOLEAN /\ wire' \in Seq(Request) /\ inbox' \in Seq(Reply)
    BY <1>5, <1>2 DEF CallTimeout
  <2>. QED
    BY <1>5, <2>1
    DEF CallTimeout, TypeOK, session, calls, CallsType, CarriesUser, LinkType
<1>6. CASE TimerNotify
  <2>1. timer.ts \in Ts /\ timer' \in TimerState /\ timer'.ts = timer.ts
    BY <1>6 DEF TimerNotify, TypeOK, ThreadsType, TimerState
  <2>2. CallsType' /\ events' \in Seq(Event)
    BY <1>6, <2>1, NotifyType DEF TimerNotify, TypeOK, Results
  <2>. QED
    BY <1>6, <2>1, <2>2
    DEF TimerNotify, TypeOK, session, link, LinkType, ThreadsType
<1>7. CASE TimerErase
  <2>1. timer' \in TimerState /\ timer'.pc = "idle"
    BY <1>7 DEF TimerErase, TypeOK, ThreadsType, TimerState
  <2>2. CallsType'
    BY <1>7 DEF TimerErase, TypeOK, CallsType, CarriesUser
  <2>. QED
    BY <1>7, <2>1, <2>2
    DEF TimerErase, TypeOK, session, link, LinkType, ThreadsType
<1>. QED
  BY <1>1, <1>3, <1>4, <1>5, <1>6, <1>7 DEF TimerStep

(* The event thread takes an event and nothing else. *)
LEMMA DeliverEventKeepsType == TypeOK /\ DeliverEvent => TypeOK'
<1> SUFFICES ASSUME TypeOK, DeliverEvent PROVE TypeOK'
  OBVIOUS
<1>1. events' \in Seq(Event)
  BY DEF DeliverEvent, TypeOK
<1>. QED
  BY <1>1
  DEF DeliverEvent, TypeOK, session, calls, link, CallsType, CarriesUser,
      LinkType, ThreadsType

(* The gateway answers a packet with a well-formed reply. *)
LEMMA ServeType ==
  ASSUME TypeOK, NEW ok \in BOOLEAN, Serve(ok)
  PROVE  /\ Head(wire) \in Request
         /\ LinkType' /\ CallsType' /\ ThreadsType'
         /\ user' \in Users \cup {NoUser} /\ groups' \in SUBSET Groups
         /\ logining' = logining /\ events' \in Seq(Event)
<1>1. Head(wire) \in Request /\ wire' \in Seq(Request)
  BY DEF Serve, TypeOK, LinkType
<1>2. Answer(Head(wire).ts, ok) \in Reply
  BY <1>1, NoGroupAssumption DEF Answer, Reply, Request
<1>3. inbox' \in Seq(Reply)
  BY <1>2 DEF Serve, TypeOK, LinkType
<1>4. LinkType'
  BY <1>1, <1>3 DEF Serve, Outside, TypeOK, LinkType
<1>. QED
  BY <1>1, <1>4
  DEF Serve, Outside, TypeOK, session, calls, CallsType, CarriesUser,
      ThreadsType

(* The gateway serves or refuses a packet. *)
LEMMA ServerStepKeepsType == TypeOK /\ (ServerStep \/ ServeRefusal) => TypeOK'
<1> SUFFICES ASSUME TypeOK, ServerStep \/ ServeRefusal PROVE TypeOK'
  OBVIOUS
<1>0. ASSUME NEW ok \in BOOLEAN, Serve(ok)
      PROVE  /\ Head(wire) \in Request
             /\ LinkType' /\ CallsType' /\ ThreadsType'
             /\ user' \in Users \cup {NoUser} /\ groups' \in SUBSET Groups
             /\ logining' \in BOOLEAN /\ events' \in Seq(Event)
  BY <1>0, ServeType DEF TypeOK
<1>1. CASE ServeLogin
  <2>1. Head(wire).user \in Users \cup {NoUser}
    BY <1>0, <1>1 DEF ServeLogin, Request
  <2>2. srv.groups \in SUBSET Groups
    BY DEF TypeOK, ServerState
  <2>3. srv' \in ServerState
    BY <1>1, <2>1, <2>2 DEF ServeLogin, ServerState
  <2>. QED
    BY <1>0, <1>1, <2>3 DEF ServeLogin, TypeOK
<1>2. CASE ServeLogout
  <2>1. srv' \in ServerState
    BY <1>2 DEF ServeLogout, ServerState
  <2>. QED
    BY <1>0, <1>2, <2>1 DEF ServeLogout, TypeOK
<1>3. CASE ServeJoinGroup
  <2>1. Serve(srv.user # NoUser) /\ (srv.user # NoUser) \in BOOLEAN
    BY <1>3 DEF ServeJoinGroup
  <2>2. Head(wire) \in Request
    BY <1>0, <2>1
  <2>3. srv' \in ServerState
    BY <1>3, <2>2 DEF ServeJoinGroup, ServerState, TypeOK, Request
  <2>. QED
    BY <1>0, <1>3, <2>1, <2>3 DEF ServeJoinGroup, TypeOK
<1>4. CASE ServeLeaveGroup
  <2>1. Serve(srv.user # NoUser) /\ (srv.user # NoUser) \in BOOLEAN
    BY <1>4 DEF ServeLeaveGroup
  <2>2. Head(wire) \in Request
    BY <1>0, <2>1
  <2>3. srv' \in ServerState
    BY <1>4, <2>2 DEF ServeLeaveGroup, ServerState, TypeOK, Request
  <2>. QED
    BY <1>0, <1>4, <2>1, <2>3 DEF ServeLeaveGroup, TypeOK
<1>5. CASE ServeRefusal
  <2>1. budget' \in [Faults -> Nat]
    BY <1>5, SpendType DEF ServeRefusal, Faults, TypeOK
  <2>. QED
    BY <1>0, <1>5, <2>1 DEF ServeRefusal, TypeOK
<1>. QED
  BY <1>1, <1>2, <1>3, <1>4, <1>5 DEF ServerStep

(* The gateway speaks unasked. *)
LEMMA PushKeepsType ==
  ASSUME TypeOK, NEW m \in Reply, PushToClient(m)
  PROVE  /\ LinkType' /\ CallsType' /\ ThreadsType'
         /\ user' \in Users \cup {NoUser} /\ groups' \in SUBSET Groups
         /\ logining' = logining /\ events' \in Seq(Event)
<1>1. LinkType'
  BY DEF PushToClient, Outside, TypeOK, LinkType
<1>. QED
  BY <1>1
  DEF PushToClient, Outside, TypeOK, session, calls, CallsType, CarriesUser,
      ThreadsType

(* What the gateway and the network do to the client. *)
LEMMA EnvironmentKeepsType == TypeOK /\ Environment => TypeOK'
<1> SUFFICES ASSUME TypeOK, Environment PROVE TypeOK'
  OBVIOUS
<1>0. ASSUME NEW m \in Reply, PushToClient(m)
      PROVE  /\ LinkType' /\ CallsType' /\ ThreadsType'
             /\ user' \in Users \cup {NoUser} /\ groups' \in SUBSET Groups
             /\ logining' \in BOOLEAN /\ events' \in Seq(Event)
  BY <1>0, PushKeepsType DEF TypeOK
<1>1. CASE KickUser
  <2>1. Push("KICK", NoGroup) \in Reply
    BY MaxTsAssumption DEF Push, Reply
  <2>2. budget' \in [Faults -> Nat]
    BY <1>1, SpendType DEF KickUser, Faults, TypeOK
  <2>3. srv' \in ServerState
    BY <1>1 DEF KickUser, ServerState
  <2>. QED
    BY <1>0, <1>1, <2>1, <2>2, <2>3 DEF KickUser, TypeOK
<1>2. CASE PushUserMsg
  <2>1. Push("USER_MSG", NoGroup) \in Reply
    BY MaxTsAssumption DEF Push, Reply
  <2>2. budget' \in [Faults -> Nat]
    BY <1>2, SpendType DEF PushUserMsg, Faults, TypeOK
  <2>. QED
    BY <1>0, <1>2, <2>1, <2>2 DEF PushUserMsg, TypeOK
<1>3. CASE PushGroupMsg
  <2>1. PICK g \in srv.groups : PushToClient(Push("GROUP_MSG", g))
    BY <1>3 DEF PushGroupMsg
  <2>2. g \in Groups
    BY <2>1 DEF TypeOK, ServerState
  <2>3. Push("GROUP_MSG", g) \in Reply
    BY <2>2, MaxTsAssumption, NoGroupAssumption DEF Push, Reply
  <2>4. budget' \in [Faults -> Nat]
    BY <1>3, SpendType DEF PushGroupMsg, Faults, TypeOK
  <2>. QED
    BY <1>0, <1>3, <2>1, <2>3, <2>4 DEF PushGroupMsg, TypeOK
<1>4. CASE LinkDown
  <2>1. budget' \in [Faults -> Nat]
    BY <1>4, SpendType DEF LinkDown, Faults, TypeOK
  <2>2. srv' \in ServerState
    BY <1>4 DEF LinkDown, TypeOK, ServerState
  <2>3. up' \in BOOLEAN
    BY <1>4 DEF LinkDown, Disconnect
  <2>4. wire' \in Seq(Request)
    BY <1>4 DEF LinkDown, Disconnect
  <2>5. inbox' \in Seq(Reply)
    <3>1. PICK n \in 0..Len(inbox) : inbox' = SubSeq(inbox, 1, n)
      BY <1>4 DEF LinkDown, Disconnect
    <3>2. inbox \in Seq(Reply)
      BY DEF TypeOK, LinkType
    <3>. QED
      BY <3>1, <3>2
  <2>. QED
    BY <1>4, <2>1, <2>2, <2>3, <2>4, <2>5
    DEF LinkDown, Outside, TypeOK, session, calls, CallsType, CarriesUser,
        LinkType, ThreadsType
<1>. QED
  BY <1>1, <1>2, <1>3, <1>4, ServerStepKeepsType DEF Environment

(* Every step keeps the types. *)
LEMMA NextKeepsType == TypeOK /\ [Next]_vars => TypeOK'
<1> SUFFICES ASSUME TypeOK, [Next]_vars PROVE TypeOK'
  OBVIOUS
<1>1. CASE UNCHANGED vars
  BY <1>1
  DEF vars, session, calls, link, TypeOK, CallsType, CarriesUser, LinkType,
      ThreadsType
<1>. QED
  BY <1>1, ApiCallKeepsType, ApiStepKeepsType, OnConnectedKeepsType,
     NetStepKeepsType, TimerStepKeepsType, DeliverEventKeepsType,
     ServerStepKeepsType, EnvironmentKeepsType
  DEF Next

(* Every reachable state is well-typed; in particular relogin never reads  *)
(* a null user_, and every thread works on a call that was made.           *)
THEOREM TypeCorrect == Spec => []TypeOK
  BY InitType, NextKeepsType, PTL DEF Spec

-----------------------------------------------------------------------------
(***************************************************************************)
(* What a caller of PushSDK can rely on, for every value of the constants: *)
(* it is never stranded, and the result it gets is the gateway's answer to *)
(* its own call.  Both rest on one inductive invariant about the table of  *)
(* calls, IInv.                                                            *)
(***************************************************************************)

(* Threads and table only know calls that were made, and a caller waits    *)
(* for a call of its own.                                                  *)
CallsWereMade ==
  /\ \A ts \in cbMap : ts < clock
  /\ api.pc # "idle" \/ api.ret # "none" => api.ts \in Ts /\ api.ts < clock
  /\ net.pc # "idle" => net.ts < clock
  /\ timer.pc # "idle" => timer.ts < clock
  /\ api.pc # "idle" => ~ctx[api.ts].retry
  /\ api.pc = "register" => api.ts \notin cbMap

(* The timer notifies before it erases. *)
ErasedIsNotified ==
  timer.pc = "erase" /\ ~ctx[timer.ts].retry => ctx[timer.ts].done

(* A call leaves the table with its answer, and is never entered again;    *)
(* whoever was woken with an answer was woken with that one.               *)
AnswersMatch ==
  /\ \A ts \in cbMap : ctx[ts].answer = "none"
  /\ api.pc = "register" => ctx[api.ts].answer = "none"
  /\ net.pc # "idle" =>
       ctx[net.ts].answer = IF net.ok THEN "OK" ELSE "FAILED"
  /\ \A ts \in Ts :
       ctx[ts].done /\ ctx[ts].res # "TIMEOUT" => ctx[ts].answer = ctx[ts].res

TableInv ==
  /\ CallsWereMade
  /\ ErasedIsNotified
  /\ NoOrphanedCaller
  /\ AnswersMatch
  /\ ~EarlyWake => ReturnIsJustified
IInv == TypeOK /\ TableInv

-----------------------------------------------------------------------------
(* The facts about types that the steps below use. *)
LEMMA Shapes ==
  ASSUME TypeOK
  PROVE  /\ clock \in Int /\ cbMap \subseteq Ts /\ Ts \subseteq Int
         /\ ctx \in [Ts -> Context]
         /\ api \in ApiState /\ (api.pc # "idle" => api.ts \in Ts)
         /\ net \in NetState /\ (net.pc # "idle" => net.ts \in Ts)
         /\ timer \in TimerState /\ (timer.pc # "idle" => timer.ts \in Ts)
         /\ api.ts \in Int /\ net.ts \in Int /\ timer.ts \in Int
<1>1. /\ clock \in Int /\ cbMap \subseteq Ts /\ Ts \subseteq Int
      /\ ctx \in [Ts -> Context]
  BY MaxTsAssumption DEF TypeOK, CallsType, Ts
<1>2. /\ api \in ApiState /\ (api.pc # "idle" => api.ts \in Ts)
      /\ net \in NetState /\ (net.pc # "idle" => net.ts \in Ts)
      /\ timer \in TimerState /\ (timer.pc # "idle" => timer.ts \in Ts)
  BY DEF TypeOK, ThreadsType
<1>3. 0..MaxTs \subseteq Int
  BY MaxTsAssumption
<1>. QED
  BY <1>1, <1>2, <1>3 DEF ApiState, NetState, TimerState

(* A step that leaves the table and the threads alone. *)
LEMMA FrameKeepsTable ==
  ASSUME TableInv, UNCHANGED <<clock, ctx, cbMap, api, net, timer>>
  PROVE  TableInv'
  BY DEF TableInv, CallsWereMade, ErasedIsNotified, NoOrphanedCaller,
         AnswersMatch, ReturnIsJustified, Waiting, Handling

(* A retry is issued under user_mux_, by the thread that found it due: a   *)
(* new context that nobody waits for.                                      *)
Issues ==
  /\ clock \in Ts /\ clock' = clock + 1
  /\ ctx' \in [Ts -> Context]
  /\ \A ts \in Ts : ts # clock => ctx'[ts] = ctx[ts]
  /\ ctx'[clock].answer = "none" /\ ~ctx'[clock].done
  /\ cbMap' = cbMap \cup {clock}

(* relogin and rejoin_group issue one retry or leave the table alone. *)
LEMMA RetriesIssue ==
  ASSUME TypeOK,
         RejoinGroup \/ \E isTimeout \in BOOLEAN : Relogin(isTimeout)
  PROVE  Issues \/ UNCHANGED calls
<1>1. ASSUME NEW kind \in Kinds, NEW u \in Users \cup {NoUser},
             NEW gs \in SUBSET Groups, kind = "LOGIN" <=> u # NoUser,
             Call(NewContext(kind, u, gs, TRUE))
      PROVE  Issues
  <2> DEFINE c == NewContext(kind, u, gs, TRUE)
  <2>1. c \in Context /\ CarriesUser(c)
    BY <1>1, NewContextType
  <2>2. NewCall(c) /\ cbMap' = cbMap \cup {clock}
    BY <1>1 DEF Call
  <2>3. CallsType
    BY DEF TypeOK
  <2>4. /\ clock \in Ts /\ clock' = clock + 1
        /\ ctx' \in [Ts -> Context]
        /\ ctx'[clock] = c
        /\ \A ts \in Ts : ts # clock => ctx'[ts] = ctx[ts]
    BY <2>1, <2>2, <2>3, NewCallType
  <2>5. c.answer = "none" /\ c.done = FALSE
    BY DEF NewContext
  <2>. QED
    BY <2>2, <2>4, <2>5 DEF Issues
<1>2. CASE RejoinGroup
  BY <1>1, <1>2 DEF RejoinGroup, TypeOK, Kinds
<1>3. CASE \E isTimeout \in BOOLEAN : Relogin(isTimeout)
  <2> PICK isTimeout \in BOOLEAN : Relogin(isTimeout)
    BY <1>3
  <2>1. CASE /\ user # NoUser
             /\ Call(NewContext("LOGIN", user, {}, TRUE))
    <3>1. user \in Users \cup {NoUser} /\ "LOGIN" \in Kinds
      BY DEF TypeOK, Kinds
    <3>2. "LOGIN" = "LOGIN" <=> user # NoUser
      BY <2>1
    <3>3. {} \in SUBSET Groups
      OBVIOUS
    <3>4. Call(NewContext("LOGIN", user, {}, TRUE))
      BY <2>1
    <3>. QED
      BY <1>1, <3>1, <3>2, <3>3, <3>4
  <2>2. CASE UNCHANGED calls
    BY <2>2
  <2>. QED
    BY <2>1, <2>2 DEF Relogin
<1>. QED
  BY <1>2, <1>3

(* The steps between the points where a thread touches the table: net and  *)
(* timer go on with the call they have, and may issue a retry.             *)
Moves ==
  /\ api' = api
  /\ \/ net' = net
     \/ /\ net.pc # "idle"
        /\ \E pc \in {"apply", "notify"} : net' = [net EXCEPT !.pc = pc]
  /\ \/ timer' = timer
     \/ timer.pc # "idle" /\ timer' = [timer EXCEPT !.pc = "notify"]

(* Such steps, issuing at most one retry, keep the table correct. *)
LEMMA MovesKeepTable ==
  ASSUME TypeOK, TableInv, Moves, Issues \/ UNCHANGED calls
  PROVE  TableInv'
<1>1. /\ clock \in Int /\ cbMap \subseteq Ts /\ Ts \subseteq Int
      /\ ctx \in [Ts -> Context]
      /\ api \in ApiState /\ (api.pc # "idle" => api.ts \in Ts)
      /\ net \in NetState /\ (net.pc # "idle" => net.ts \in Ts)
      /\ timer \in TimerState /\ (timer.pc # "idle" => timer.ts \in Ts)
      /\ api.ts \in Int /\ net.ts \in Int /\ timer.ts \in Int
  BY Shapes
<1>2. /\ api' = api
      /\ net'.ts = net.ts /\ net'.ok = net.ok
      /\ net'.pc # "idle" <=> net.pc # "idle"
  BY <1>1 DEF Moves, NetState
<1>3. /\ timer'.ts = timer.ts
      /\ timer'.pc # "idle" <=> timer.pc # "idle"
      /\ timer'.pc = "erase" => timer.pc = "erase"
  BY <1>1 DEF Moves, TimerState
<1>4. /\ clock <= clock' /\ clock' \in Int
      /\ \A ts \in Ts : ts < clock => ctx'[ts] = ctx[ts]
      /\ cbMap \subseteq cbMap'
      /\ \A ts \in cbMap' \ cbMap : ts = clock /\ clock < clock'
      /\ \A ts \in Ts : ts # clock => ctx'[ts] = ctx[ts]
  BY <1>1 DEF Issues, calls
<1>5. /\ clock # clock' =>
           /\ clock \in Ts
           /\ ctx'[clock].answer = "none" /\ ~ctx'[clock].done
      /\ clock = clock' => ctx' = ctx /\ cbMap' = cbMap
  BY <1>1 DEF Issues, calls
<1> USE DEF TableInv
<1>6. CallsWereMade'
  <2>1. /\ \A ts \in cbMap' : ts < clock'
        /\ api.pc = "register" => api.ts \notin cbMap'
    BY <1>1, <1>4 DEF CallsWereMade
  <2>2. /\ api.pc # "idle" \/ api.ret # "none" => api.ts < clock'
        /\ net.pc # "idle" => net.ts < clock'
        /\ timer.pc # "idle" => timer.ts < clock'
    BY <1>1, <1>4 DEF CallsWereMade
  <2>3. api.pc # "idle" => ~ctx'[api.ts].retry
    BY <1>1, <1>4 DEF CallsWereMade
  <2>. QED
    BY <1>2, <1>3, <2>1, <2>2, <2>3 DEF CallsWereMade
<1>7. ErasedIsNotified'
  BY <1>1, <1>3, <1>4 DEF ErasedIsNotified, CallsWereMade
<1>8. NoOrphanedCaller'
  BY <1>1, <1>2, <1>4
  DEF NoOrphanedCaller, Waiting, Handling, CallsWereMade
<1>9. AnswersMatch'
  <2>1. \A ts \in cbMap' : ctx'[ts].answer = "none"
    BY <1>1, <1>4, <1>5 DEF AnswersMatch, CallsWereMade
  <2>2. /\ api'.pc = "register" => ctx'[api'.ts].answer = "none"
        /\ net'.pc # "idle" =>
             ctx'[net'.ts].answer = IF net'.ok THEN "OK" ELSE "FAILED"
    BY <1>1, <1>2, <1>4 DEF AnswersMatch, CallsWereMade
  <2>3. \A ts \in Ts : ctx'[ts].done /\ ctx'[ts].res # "TIMEOUT" =>
                         ctx'[ts].answer = ctx'[ts].res
    BY <1>1, <1>4, <1>5 DEF AnswersMatch
  <2>. QED
    BY <2>1, <2>2, <2>3 DEF AnswersMatch
<1>10. ~EarlyWake => ReturnIsJustified'
  BY <1>1, <1>2, <1>4 DEF ReturnIsJustified, CallsWereMade
<1>. QED
  BY <1>6, <1>7, <1>8, <1>9, <1>10

(* A public function takes a fresh timestamp for its caller to wait on.    *)
LEMMA BeginCallKeepsTable ==
  ASSUME TypeOK, TableInv, api.pc = "idle",
         NEW c \in Context, CarriesUser(c), ~c.retry, ~c.done,
         c.answer = "none", BeginCall(c)
  PROVE  TableInv'
<1>1. /\ clock \in Int /\ cbMap \subseteq Ts /\ Ts \subseteq Int
      /\ ctx \in [Ts -> Context]
      /\ net \in NetState /\ (net.pc # "idle" => net.ts \in Ts)
      /\ timer \in TimerState /\ (timer.pc # "idle" => timer.ts \in Ts)
      /\ api.ts \in Int /\ net.ts \in Int /\ timer.ts \in Int
  BY Shapes
<1>2. /\ clock \in Ts /\ clock' = clock + 1
      /\ ctx'[clock] = c
      /\ \A ts \in Ts : ts # clock => ctx'[ts] = ctx[ts]
  BY NewCallType DEF BeginCall, TypeOK
<1>3. /\ api' = [pc |-> "register", ts |-> clock, ret |-> "none"]
      /\ UNCHANGED <<cbMap, net, timer>>
  BY DEF BeginCall
<1> USE DEF TableInv
<1>4. CallsWereMade'
  <2>1. clock \notin cbMap /\ \A ts \in cbMap : ts < clock + 1
    BY <1>1 DEF CallsWereMade
  <2>2. /\ net.pc # "idle" => net.ts < clock + 1
        /\ timer.pc # "idle" => timer.ts < clock + 1
    BY <1>1 DEF CallsWereMade
  <2>3. clock < clock + 1
    BY <1>1
  <2>. QED
    BY <1>2, <1>3, <2>1, <2>2, <2>3 DEF CallsWereMade
<1>5. ErasedIsNotified'
  <2>1. timer.pc = "erase" => timer.ts \in Ts /\ timer.ts # clock
    BY <1>1 DEF CallsWereMade
  <2>. QED
    BY <1>2, <1>3, <2>1 DEF ErasedIsNotified
<1>6. NoOrphanedCaller'
  BY <1>3 DEF NoOrphanedCaller, Waiting
<1>7. AnswersMatch'
  <2>1. /\ \A ts \in cbMap : ts \in Ts /\ ts # clock
        /\ net.pc # "idle" => net.ts \in Ts /\ net.ts # clock
    BY <1>1 DEF CallsWereMade
  <2>2. /\ \A ts \in cbMap' : ctx'[ts].answer = "none"
        /\ net'.pc # "idle" =>
             ctx'[net'.ts].answer = IF net'.ok THEN "OK" ELSE "FAILED"
    BY <1>2, <1>3, <2>1 DEF AnswersMatch
  <2>3. api'.ts = clock
    BY <1>3
  <2>4. \A ts \in Ts : ctx'[ts].done /\ ctx'[ts].res # "TIMEOUT" =>
                         ctx'[ts].answer = ctx'[ts].res
    BY <1>2 DEF AnswersMatch
  <2>. QED
    BY <1>2, <2>2, <2>3, <2>4 DEF AnswersMatch
<1>8. ReturnIsJustified'
  BY <1>3 DEF ReturnIsJustified
<1>. QED
  BY <1>4, <1>5, <1>6, <1>7, <1>8

(* call_sync registers, sends and waits for one call.  The wait ends with  *)
(* the answer that notify left, unless it ends early.                      *)
LEMMA ApiStepKeepsTable ==
  ASSUME TypeOK, TableInv, ApiStep
  PROVE  TableInv'
<1>1. /\ clock \in Int /\ cbMap \subseteq Ts /\ Ts \subseteq Int
      /\ ctx \in [Ts -> Context]
      /\ api \in ApiState /\ (api.pc # "idle" => api.ts \in Ts)
      /\ net \in NetState /\ (net.pc # "idle" => net.ts \in Ts)
      /\ timer \in TimerState /\ (timer.pc # "idle" => timer.ts \in Ts)
      /\ api.ts \in Int /\ net.ts \in Int /\ timer.ts \in Int
  BY Shapes
<1> USE DEF TableInv
<1>2. CASE CallRegister
  <2>1. /\ api.pc = "register" /\ api'.pc = "send" /\ api'.ts = api.ts
        /\ api'.ret = api.ret
        /\ cbMap' = cbMap \cup {api.ts}
        /\ UNCHANGED <<clock, ctx, net, timer>>
    BY <1>1, <1>2 DEF CallRegister, ApiState
  <2>2. CallsWereMade'
    BY <2>1 DEF CallsWereMade
  <2>3. ErasedIsNotified' /\ NoOrphanedCaller'
    BY <2>1 DEF ErasedIsNotified, NoOrphanedCaller
  <2>4. AnswersMatch'
    BY <2>1 DEF AnswersMatch
  <2>5. ReturnIsJustified'
    BY <2>1 DEF ReturnIsJustified
  <2>. QED
    BY <2>2, <2>3, <2>4, <2>5
<1>3. CASE CallSend
  <2>1. /\ api.pc = "send" /\ api'.pc = "wait" /\ api'.ts = api.ts
        /\ api'.ret = api.ret
        /\ UNCHANGED <<clock, ctx, cbMap, net, timer>>
    BY <1>1, <1>3 DEF CallSend, ApiState, calls
  <2>2. CallsWereMade'
    BY <2>1 DEF CallsWereMade
  <2>3. ErasedIsNotified' /\ NoOrphanedCaller'
    BY <2>1 DEF ErasedIsNotified, NoOrphanedCaller, Waiting, Handling
  <2>4. AnswersMatch'
    BY <2>1 DEF AnswersMatch
  <2>5. ReturnIsJustified'
    BY <2>1 DEF ReturnIsJustified
  <2>. QED
    BY <2>2, <2>3, <2>4, <2>5
<1>4. CASE CallReturn
  <2>1. /\ api.pc = "wait" /\ api'.pc = "idle" /\ api'.ts = api.ts
        /\ api'.ret = ctx[api.ts].res
        /\ ctx[api.ts].done \/ EarlyWake
        /\ UNCHANGED <<clock, ctx, cbMap, net, timer>>
    BY <1>1, <1>4 DEF CallReturn, ApiState, calls
  <2>2. CallsWereMade'
    BY <2>1 DEF CallsWereMade
  <2>3. ErasedIsNotified' /\ NoOrphanedCaller'
    BY <2>1 DEF ErasedIsNotified, NoOrphanedCaller, Waiting
  <2>4. AnswersMatch'
    BY <2>1 DEF AnswersMatch
  <2>5. ~EarlyWake => ReturnIsJustified'
    BY <1>1, <2>1 DEF ReturnIsJustified, AnswersMatch
  <2>. QED
    BY <2>2, <2>3, <2>4, <2>5
<1>. QED
  BY <1>2, <1>3, <1>4 DEF ApiStep

(* handle_response takes the call out of the table with its answer; from   *)
(* then on it is the net thread that owes its caller a notify.             *)
LEMMA RecvAnswerKeepsTable ==
  ASSUME TypeOK, TableInv, RecvAnswer
  PROVE  TableInv'
<1>1. /\ clock \in Int /\ cbMap \subseteq Ts /\ Ts \subseteq Int
      /\ ctx \in [Ts -> Context]
      /\ api \in ApiState /\ (api.pc # "idle" => api.ts \in Ts)
      /\ net \in NetState /\ (net.pc # "idle" => net.ts \in Ts)
      /\ timer \in TimerState /\ (timer.pc # "idle" => timer.ts \in Ts)
      /\ api.ts \in Int /\ net.ts \in Int /\ timer.ts \in Int
  BY Shapes
<1> DEFINE m == Head(inbox)
<1>2. UNCHANGED <<clock, api, timer>> /\ net.pc = "idle"
  BY DEF RecvAnswer, Receive
<1>3. CASE ~Expected(m.ts)
  BY <1>2, <1>3, FrameKeepsTable DEF RecvAnswer
<1>4. CASE Expected(m.ts)
  <2>1. /\ m.ts \in cbMap /\ m.ts \in Ts
        /\ cbMap' = cbMap \ {m.ts}
        /\ ctx' = [ctx EXCEPT ![m.ts].answer =
                                IF m.ok THEN "OK" ELSE "FAILED"]
        /\ net' = [pc |-> IF ctx[m.ts].kind = "LOGIN"
                          THEN "clear" ELSE "apply",
                   ts |-> m.ts, ok |-> m.ok]
    BY <1>1, <1>4 DEF RecvAnswer, Expected
  <2>2. net'.pc # "idle" /\ net'.ts = m.ts /\ net'.ok = m.ok
    BY <2>1
  <2>3. /\ ctx'[m.ts].answer = IF m.ok THEN "OK" ELSE "FAILED"
        /\ \A ts \in Ts : ts # m.ts => ctx'[ts] = ctx[ts]
        /\ \A ts \in Ts : /\ ctx'[ts].retry = ctx[ts].retry
                           /\ ctx'[ts].done = ctx[ts].done
                           /\ ctx'[ts].res = ctx[ts].res
    BY <1>1, <2>1 DEF Context
  <2>4. ctx[m.ts].answer = "none" /\ m.ts < clock
    BY <2>1 DEF TableInv, AnswersMatch, CallsWereMade
  <2> USE DEF TableInv
  <2>5. CallsWereMade'
    BY <1>1, <1>2, <2>1, <2>2, <2>3, <2>4 DEF CallsWereMade
  <2>6. ErasedIsNotified'
    BY <1>1, <1>2, <2>3 DEF ErasedIsNotified
  <2>7. NoOrphanedCaller'
    BY <1>1, <1>2, <2>1, <2>2, <2>3
    DEF NoOrphanedCaller, Waiting, Handling
  <2>8. AnswersMatch'
    <3>1. \A ts \in cbMap' : ctx'[ts].answer = "none"
      BY <1>1, <2>1, <2>3 DEF AnswersMatch
    <3>2. api'.pc = "register" => ctx'[api'.ts].answer = "none"
      BY <1>1, <1>2, <2>1, <2>3 DEF AnswersMatch, CallsWereMade
    <3>3. \A ts \in Ts : ctx'[ts].done /\ ctx'[ts].res # "TIMEOUT" =>
                           ctx'[ts].answer = ctx'[ts].res
      <4>1. ctx[m.ts].res # "none"
        BY <1>1, <2>1 DEF Context, Results
      <4>2. ~(ctx[m.ts].done /\ ctx[m.ts].res # "TIMEOUT")
        BY <2>1, <2>4, <4>1 DEF AnswersMatch
      <4>. QED
        BY <2>1, <2>3, <4>2 DEF AnswersMatch
    <3>. QED
      BY <2>2, <2>3, <3>1, <3>2, <3>3 DEF AnswersMatch
  <2>9. ~EarlyWake => ReturnIsJustified'
    BY <1>1, <1>2, <2>1, <2>3, <2>4 DEF ReturnIsJustified, CallsWereMade
  <2>. QED
    BY <2>5, <2>6, <2>7, <2>8, <2>9
<1>. QED
  BY <1>3, <1>4

(* notify writes the result and the flag of one synchronous call.          *)
LEMMA NotifyEffect ==
  ASSUME ctx \in [Ts -> Context], NEW ts \in Ts, NEW res \in Results,
         Notify(ts, res)
  PROVE  /\ \A t \in Ts : /\ ctx'[t].retry = ctx[t].retry
                          /\ ctx'[t].answer = ctx[t].answer
                          /\ ctx[t].done => ctx'[t].done
         /\ \A t \in Ts : t # ts => ctx'[t] = ctx[t]
         /\ ~ctx[ts].retry => ctx'[ts].done /\ ctx'[ts].res = res
         /\ ctx[ts].retry => ctx'[ts] = ctx[ts]
<1>1. CASE ctx[ts].retry
  BY <1>1 DEF Notify
<1>2. CASE ~ctx[ts].retry
  BY <1>2 DEF Notify, Context
<1>. QED
  BY <1>1, <1>2

(* The net thread notifies the call it has taken out of the table. *)
LEMMA NetNotifyKeepsTable ==
  ASSUME TypeOK, TableInv, NetNotify
  PROVE  TableInv'
<1>1. /\ clock \in Int /\ cbMap \subseteq Ts /\ Ts \subseteq Int
      /\ ctx \in [Ts -> Context]
      /\ api \in ApiState /\ (api.pc # "idle" => api.ts \in Ts)
      /\ net \in NetState /\ (net.pc # "idle" => net.ts \in Ts)
      /\ timer \in TimerState /\ (timer.pc # "idle" => timer.ts \in Ts)
      /\ api.ts \in Int /\ net.ts \in Int /\ timer.ts \in Int
  BY Shapes
<1>2. /\ net.pc = "notify" /\ net'.pc = "idle"
      /\ UNCHANGED <<clock, cbMap, api, timer>>
  BY <1>1 DEF NetNotify, NetState
<1> DEFINE res == IF net.ok THEN "OK" ELSE "FAILED"
<1>3. Notify(net.ts, res) /\ res \in Results /\ res # "TIMEOUT"
  BY DEF NetNotify, Results
<1> HIDE DEF res
<1>4. /\ \A t \in Ts : /\ ctx'[t].retry = ctx[t].retry
                       /\ ctx'[t].answer = ctx[t].answer
                       /\ ctx[t].done => ctx'[t].done
      /\ \A t \in Ts : t # net.ts => ctx'[t] = ctx[t]
      /\ ~ctx[net.ts].retry => ctx'[net.ts].done /\ ctx'[net.ts].res = res
      /\ ctx[net.ts].retry => ctx'[net.ts] = ctx[net.ts]
  BY <1>1, <1>2, <1>3, NotifyEffect
<1>5. ctx[net.ts].answer = res
  BY <1>2 DEF TableInv, AnswersMatch, res
<1> USE DEF TableInv
<1>6. CallsWereMade'
  BY <1>1, <1>2, <1>4 DEF CallsWereMade
<1>7. ErasedIsNotified'
  BY <1>1, <1>2, <1>4 DEF ErasedIsNotified
<1>8. NoOrphanedCaller'
  <2>1. Waiting' => Waiting /\ api.ts \in Ts /\ ~ctx[api.ts].retry
    BY <1>1, <1>2 DEF Waiting, CallsWereMade
  <2>2. Waiting' /\ api.ts = net.ts => ctx'[api.ts].done
    BY <1>4, <2>1
  <2>. QED
    BY <1>2, <1>4, <2>1, <2>2 DEF NoOrphanedCaller, Handling
<1>9. AnswersMatch'
  BY <1>1, <1>2, <1>4, <1>5 DEF AnswersMatch
<1>10. ~EarlyWake => ReturnIsJustified'
  BY <1>1, <1>2, <1>4 DEF ReturnIsJustified, CallsWereMade
<1>. QED
  BY <1>6, <1>7, <1>8, <1>9, <1>10

(* The timer takes up an entry of the table, notifies its call and only    *)
(* then erases the entry: an erased call is one whose caller was woken.    *)
LEMMA TimerStepKeepsTable ==
  ASSUME TypeOK, TableInv, TimerScan \/ TimerNotify \/ TimerErase
  PROVE  TableInv'
<1>1. /\ clock \in Int /\ cbMap \subseteq Ts /\ Ts \subseteq Int
      /\ ctx \in [Ts -> Context]
      /\ api \in ApiState /\ (api.pc # "idle" => api.ts \in Ts)
      /\ net \in NetState /\ (net.pc # "idle" => net.ts \in Ts)
      /\ timer \in TimerState /\ (timer.pc # "idle" => timer.ts \in Ts)
      /\ api.ts \in Int /\ net.ts \in Int /\ timer.ts \in Int
  BY Shapes
<1> USE DEF TableInv
<1>2. CASE TimerScan
  <2>1. /\ timer'.pc = "handle" /\ timer'.ts \in cbMap
        /\ UNCHANGED <<clock, ctx, cbMap, api, net>>
    BY <1>2 DEF TimerScan, calls
  <2>2. CallsWereMade'
    BY <2>1 DEF CallsWereMade
  <2>3. ErasedIsNotified' /\ NoOrphanedCaller'
    BY <2>1 DEF ErasedIsNotified, NoOrphanedCaller, Waiting, Handling
  <2>4. AnswersMatch' /\ (~EarlyWake => ReturnIsJustified')
    BY <2>1 DEF AnswersMatch, ReturnIsJustified
  <2>. QED
    BY <2>2, <2>3, <2>4
<1>3. CASE TimerNotify
  <2>1. /\ timer.pc = "notify" /\ timer'.pc = "erase" /\ timer'.ts = timer.ts
        /\ Notify(timer.ts, "TIMEOUT")
        /\ UNCHANGED <<clock, cbMap, api, net>>
    BY <1>1, <1>3 DEF TimerNotify, TimerState
  <2>2. /\ \A t \in Ts : /\ ctx'[t].retry = ctx[t].retry
                         /\ ctx'[t].answer = ctx[t].answer
                         /\ ctx[t].done => ctx'[t].done
        /\ \A t \in Ts : t # timer.ts => ctx'[t] = ctx[t]
        /\ ~ctx[timer.ts].retry =>
             ctx'[timer.ts].done /\ ctx'[timer.ts].res = "TIMEOUT"
        /\ ctx[timer.ts].retry => ctx'[timer.ts] = ctx[timer.ts]
    BY <1>1, <2>1, NotifyEffect DEF Results
  <2>3. CallsWereMade'
    BY <1>1, <2>1, <2>2 DEF CallsWereMade
  <2>4. ErasedIsNotified'
    BY <1>1, <2>1, <2>2 DEF ErasedIsNotified
  <2>5. NoOrphanedCaller'
    BY <1>1, <2>1, <2>2 DEF NoOrphanedCaller, Waiting, Handling
  <2>6. AnswersMatch'
    BY <1>1, <2>1, <2>2 DEF AnswersMatch
  <2>7. ~EarlyWake => ReturnIsJustified'
    BY <1>1, <2>1, <2>2 DEF ReturnIsJustified, CallsWereMade
  <2>. QED
    BY <2>3, <2>4, <2>5, <2>6, <2>7
<1>4. CASE TimerErase
  <2>1. /\ timer.pc = "erase" /\ timer'.pc = "idle"
        /\ cbMap' = cbMap \ {timer.ts}
        /\ UNCHANGED <<clock, ctx, api, net>>
    BY <1>1, <1>4 DEF TimerErase, TimerState
  <2>2. CallsWereMade'
    BY <2>1 DEF CallsWereMade
  <2>3. ErasedIsNotified'
    BY <2>1 DEF ErasedIsNotified
  <2>4. NoOrphanedCaller'
    <3>1. Waiting => ~ctx[api.ts].retry
      BY DEF Waiting, CallsWereMade
    <3>2. Waiting /\ api.ts = timer.ts => ctx[api.ts].done
      BY <2>1, <3>1 DEF ErasedIsNotified
    <3>. QED
      BY <2>1, <3>2 DEF NoOrphanedCaller, Waiting, Handling
  <2>5. AnswersMatch' /\ (~EarlyWake => ReturnIsJustified')
    BY <2>1 DEF AnswersMatch, ReturnIsJustified
  <2>. QED
    BY <2>2, <2>3, <2>4, <2>5
<1>. QED
  BY <1>2, <1>3, <1>4

-----------------------------------------------------------------------------
(* The table survives every step. *)
LEMMA NextKeepsTable ==
  ASSUME TypeOK, TableInv, [Next]_vars
  PROVE  TableInv'
<1>1. ASSUME UNCHANGED <<calls, api, net, timer>> PROVE TableInv'
  BY <1>1, FrameKeepsTable DEF calls
<1>2. CASE UNCHANGED vars
  BY <1>1, <1>2 DEF vars
<1>3. CASE ApiCall
  <2>1. CASE LoginRejected
    BY <1>1, <2>1 DEF LoginRejected
  <2>2. ASSUME NEW kind \in Kinds, NEW u \in Users \cup {NoUser},
               NEW gs \in SUBSET Groups, kind = "LOGIN" <=> u # NoUser,
               api.pc = "idle", BeginCall(NewContext(kind, u, gs, FALSE))
        PROVE  TableInv'
    <3> DEFINE c == NewContext(kind, u, gs, FALSE)
    <3>1. c \in Context /\ CarriesUser(c)
      BY <2>2, NewContextType
    <3>2. ~c.retry /\ ~c.done /\ c.answer = "none"
      BY DEF NewContext
    <3>3. BeginCall(c)
      BY <2>2
    <3> HIDE DEF c
    <3>. QED
      BY <2>2, <3>1, <3>2, <3>3, BeginCallKeepsTable
  <2>3. ASSUME NEW u \in Users, Login(u) PROVE TableInv'
    <3>1. u # NoUser /\ "LOGIN" \in Kinds /\ {} \in SUBSET Groups
      BY NoUserAssumption DEF Kinds
    <3>2. "LOGIN" = "LOGIN" <=> u # NoUser
      BY <3>1
    <3>3. api.pc = "idle" /\ BeginCall(NewContext("LOGIN", u, {}, FALSE))
      BY <2>3 DEF Login
    <3>. QED
      BY <2>2, <3>1, <3>2, <3>3
  <2>4. CASE Logout
    <3>1. "LOGOUT" \in Kinds /\ {} \in SUBSET Groups
      BY DEF Kinds
    <3>2. "LOGOUT" = "LOGIN" <=> NoUser # NoUser
      OBVIOUS
    <3>3. api.pc = "idle" /\ BeginCall(NewContext("LOGOUT", NoUser, {}, FALSE))
      BY <2>4 DEF Logout
    <3>. QED
      BY <2>2, <3>1, <3>2, <3>3
  <2>5. CASE \E g \in Groups : JoinGroup(g) \/ LeaveGroup(g)
    BY <2>2, <2>5 DEF JoinGroup, LeaveGroup, Kinds
  <2>. QED
    BY <1>3, <2>1, <2>3, <2>4, <2>5 DEF ApiCall
<1>4. CASE ApiStep
  BY <1>4, ApiStepKeepsTable
<1>5. CASE OnConnected
  <2>1. Issues \/ UNCHANGED calls
    BY <1>5, RetriesIssue DEF OnConnected
  <2>2. Moves
    BY <1>5 DEF OnConnected, Moves
  <2>. QED
    BY <2>1, <2>2, MovesKeepTable
<1>6. CASE NetStep
  <2>1. CASE Flush \/ RecvGarbled \/ RecvKick \/ RecvGroupMsg \/ RecvUserMsg
    BY <1>1, <2>1
    DEF Flush, RecvGarbled, RecvKick, RecvGroupMsg, RecvUserMsg, Receive
  <2>2. CASE RecvAnswer
    BY <2>2, RecvAnswerKeepsTable
  <2>3. CASE NetNotify
    BY <2>3, NetNotifyKeepsTable
  <2>4. ASSUME NEW kind, NEW ok, Applying(kind, ok) PROVE Moves
    BY <2>4 DEF Applying, Moves
  <2>5. CASE ClearLogining
    <3>1. Moves /\ UNCHANGED calls
      BY <2>5 DEF ClearLogining, Moves
    <3>. QED
      BY <3>1, MovesKeepTable
  <2>6. CASE LoginFailed \/ JoinGroupFailed \/ NothingToApply
    <3>1. Moves /\ UNCHANGED calls
      BY <2>4, <2>6 DEF LoginFailed, JoinGroupFailed, NothingToApply
    <3>. QED
      BY <3>1, MovesKeepTable
  <2>7. CASE LoginSucceeded
    <3>1. Issues \/ UNCHANGED calls
      BY <2>7, RetriesIssue DEF LoginSucceeded
    <3>2. Moves
      BY <2>4, <2>7 DEF LoginSucceeded
    <3>. QED
      BY <3>1, <3>2, MovesKeepTable
  <2>. QED
    BY <1>6, <2>1, <2>2, <2>3, <2>5, <2>6, <2>7 DEF NetStep
<1>7. CASE TimerStep
  <2>1. CASE TimerScan \/ TimerNotify \/ TimerErase
    BY <2>1, TimerStepKeepsTable
  <2>2. ASSUME NEW kind, NEW retry, TimerHandle(kind, retry) PROVE Moves
    BY <2>2 DEF TimerHandle, Moves
  <2>3. CASE ReloginTimeout \/ RejoinTimeout
    <3>1. Issues \/ UNCHANGED calls
      BY <2>3, RetriesIssue DEF ReloginTimeout, RejoinTimeout
    <3>2. Moves
      BY <2>2, <2>3 DEF ReloginTimeout, RejoinTimeout
    <3>. QED
      BY <3>1, <3>2, MovesKeepTable
  <2>4. CASE CallTimeout
    <3>1. Moves /\ UNCHANGED calls
      BY <2>2, <2>4 DEF CallTimeout
    <3>. QED
      BY <3>1, MovesKeepTable
  <2>. QED
    BY <1>7, <2>1, <2>3, <2>4 DEF TimerStep
<1>8. CASE DeliverEvent
  BY <1>1, <1>8 DEF DeliverEvent
<1>9. CASE ServerStep \/ Environment
  <2>1. ASSUME Outside PROVE TableInv'
    BY <1>1, <2>1 DEF Outside
  <2>2. CASE ServerStep \/ ServeRefusal
    BY <2>1, <2>2
    DEF ServerStep, ServeLogin, ServeLogout, ServeJoinGroup, ServeLeaveGroup,
        ServeRefusal, Serve
  <2>3. CASE KickUser \/ PushUserMsg \/ PushGroupMsg \/ LinkDown
    BY <2>1, <2>3
    DEF KickUser, PushUserMsg, PushGroupMsg, PushToClient, LinkDown
  <2>. QED
    BY <1>9, <2>2, <2>3 DEF Environment
<1>. QED
  BY <1>2, <1>3, <1>4, <1>5, <1>6, <1>7, <1>8, <1>9 DEF Next

(* No call has been made yet. *)
LEMMA InitTable == Init => TableInv
  BY DEF Init, TableInv, CallsWereMade, ErasedIsNotified, NoOrphanedCaller,
         AnswersMatch, ReturnIsJustified, Waiting, NewContext

(* The inductive invariant. *)
THEOREM TableCorrect == Spec => []IInv
<1>1. Init => IInv
  BY InitType, InitTable DEF IInv
<1>2. IInv /\ [Next]_vars => IInv'
  BY NextKeepsType, NextKeepsTable DEF IInv
<1>. QED
  BY <1>1, <1>2, PTL DEF Spec

(* A caller asleep in call_sync is always somebody's to wake, whichever    *)
(* thread finishes its call and whatever is lost on the way.               *)
THEOREM CallersAreNotStranded == Spec => []NoOrphanedCaller
<1>1. IInv => NoOrphanedCaller
  BY DEF IInv, TableInv
<1>. QED
  BY <1>1, TableCorrect, PTL

(* If wait_for returned only when notified or out of time, the result of a *)
(* call would be the gateway's answer to that very call.                   *)
THEOREM ReturnsAreJustified == ~EarlyWake => (Spec => []ReturnIsJustified)
<1> SUFFICES ASSUME ~EarlyWake PROVE Spec => []ReturnIsJustified
  OBVIOUS
<1>1. IInv => ReturnIsJustified
  BY DEF IInv, TableInv
<1>. QED
  BY <1>1, TableCorrect, PTL

-----------------------------------------------------------------------------
(* GroupsImplyUser is inductive beside the bound on what is left of the    *)
(* budget, because a failed encoding spends it.                            *)
CodecBudget == budget["codec"] <= Codec

(* What a step does to user_ and groups_: groups appear only beside a      *)
(* user, and only a failed encoding takes the user away and leaves them.   *)
GroupsFollowUser ==
  \/ user' # NoUser
  \/ groups' = {}
  \/ user' = user /\ groups # {}
  \/ budget'["codec"] < budget["codec"]

(* Every step spends a fault, or none. *)
LEMMA StepsSpend ==
  ASSUME TypeOK, [Next]_vars
  PROVE  budget'["codec"] <= budget["codec"] /\ budget'["codec"] \in Nat
<1>1. UNCHANGED budget \/ \E f \in Faults : Spend(f)
  <2>1. CASE ApiCall
    BY <2>1
    DEF ApiCall, Login, LoginRejected, Logout, JoinGroup, LeaveGroup, Faults
  <2>2. CASE ApiStep \/ DeliverEvent \/ UNCHANGED vars
    BY <2>2
    DEF ApiStep, CallRegister, CallSend, CallReturn, DeliverEvent, vars
  <2>3. ASSUME RejoinGroup \/ \E isTimeout \in BOOLEAN : Relogin(isTimeout)
        PROVE  UNCHANGED budget \/ Spend("codec")
    BY <2>3 DEF RejoinGroup, Relogin
  <2>4. CASE OnConnected
    BY <2>3, <2>4 DEF OnConnected, Faults
  <2>5. CASE NetStep
    BY <2>3, <2>5
    DEF NetStep, Flush, RecvAnswer, RecvGarbled, RecvKick, RecvGroupMsg,
        RecvUserMsg, ClearLogining, LoginFailed, LoginSucceeded,
        JoinGroupFailed, NothingToApply, NetNotify, Faults
  <2>6. CASE TimerStep
    <3>1. CASE TimerScan
      BY <3>1 DEF TimerScan, Expire, Faults
    <3>. QED
      BY <2>3, <2>6, <3>1
      DEF TimerStep, ReloginTimeout, RejoinTimeout, CallTimeout, TimerNotify,
          TimerErase, Faults
  <2>7. CASE ServerStep \/ Environment
    BY <2>7
    DEF ServerStep, ServeLogin, ServeLogout, ServeJoinGroup, ServeLeaveGroup,
        Environment, ServeRefusal, KickUser, PushUserMsg, PushGroupMsg,
        LinkDown, Faults
  <2>. QED
    BY <2>1, <2>2, <2>4, <2>5, <2>6, <2>7 DEF Next
<1>2. budget \in [Faults -> Nat] /\ "codec" \in Faults
  BY DEF TypeOK, Faults
<1>. QED
  BY <1>1, <1>2, SpendType

(* Groups follow the user in every step. *)
LEMMA NextGroups ==
  ASSUME TypeOK, [Next]_vars
  PROVE  GroupsFollowUser \/ UNCHANGED <<user, groups>>
<1>1. CASE ApiCall
  BY <1>1, NoUserAssumption
  DEF ApiCall, Login, LoginRejected, Logout, JoinGroup, LeaveGroup, session,
      GroupsFollowUser
<1>2. CASE ApiStep \/ DeliverEvent \/ UNCHANGED vars
  BY <1>2
  DEF ApiStep, CallRegister, CallSend, CallReturn, DeliverEvent, vars, session
<1>3. ASSUME NEW isTimeout, Relogin(isTimeout), UNCHANGED groups
      PROVE  GroupsFollowUser \/ UNCHANGED <<user, groups>>
  <2>1. CASE Spend("codec")
    BY <2>1, SpendType DEF TypeOK, Faults, GroupsFollowUser
  <2>. QED
    BY <1>3, <2>1 DEF Relogin
<1>4. ASSUME RejoinGroup, UNCHANGED user
      PROVE  GroupsFollowUser \/ UNCHANGED <<user, groups>>
  BY <1>4 DEF RejoinGroup, GroupsFollowUser
<1>5. CASE OnConnected
  BY <1>3, <1>5 DEF OnConnected
<1>6. CASE NetStep
  <2>1. CASE LoginSucceeded
    BY <1>4, <2>1 DEF LoginSucceeded
  <2>2. CASE JoinGroupFailed
    BY <2>2 DEF JoinGroupFailed, GroupsFollowUser
  <2>3. CASE RecvKick \/ LoginFailed
    BY <2>3 DEF RecvKick, LoginFailed, GroupsFollowUser
  <2>. QED
    BY <1>6, <2>1, <2>2, <2>3
    DEF NetStep, Flush, RecvAnswer, RecvGarbled, RecvGroupMsg, RecvUserMsg,
        ClearLogining, NothingToApply, NetNotify, session
<1>7. CASE TimerStep
  BY <1>3, <1>4, <1>7
  DEF TimerStep, TimerScan, ReloginTimeout, RejoinTimeout, CallTimeout,
      TimerNotify, TimerErase, session
<1>8. CASE ServerStep \/ Environment
  BY <1>8
  DEF ServerStep, ServeLogin, ServeLogout, ServeJoinGroup, ServeLeaveGroup,
      Serve, Environment, ServeRefusal, KickUser, PushUserMsg, PushGroupMsg,
      PushToClient, LinkDown, Outside, session
<1>. QED
  BY <1>1, <1>2, <1>5, <1>6, <1>7, <1>8 DEF Next

(* Groups outlive the user only through a failed encoding in relogin: no   *)
(* logout, kick or refused login leaves groups a later login would inherit.*)
THEOREM GroupsNeedUser == Spec => []GroupsImplyUser
<1>1. Init => CodecBudget /\ GroupsImplyUser
  BY BudgetsAssumption DEF Init, CodecBudget, GroupsImplyUser, Faults
<1>2. ASSUME TypeOK, CodecBudget, GroupsImplyUser, [Next]_vars
      PROVE  CodecBudget' /\ GroupsImplyUser'
  <2>1. /\ budget'["codec"] <= budget["codec"]
        /\ budget'["codec"] \in Nat
        /\ budget["codec"] \in Nat /\ Codec \in Nat
    BY <1>2, StepsSpend, CodecAssumption DEF TypeOK, Faults
  <2>2. GroupsFollowUser \/ UNCHANGED <<user, groups>>
    BY <1>2, NextGroups
  <2>. QED
    BY <1>2, <2>1, <2>2 DEF CodecBudget, GroupsImplyUser, GroupsFollowUser
<1>. QED
  BY <1>1, <1>2, TypeCorrect, PTL DEF Spec

-----------------------------------------------------------------------------
(***************************************************************************)
(* logining_ never gets stuck, for any reason but the one SessionWedge     *)
(* shows: while a user is set it is true only if an answer can still clear *)
(* it, or a login of the application timed out.                            *)
(***************************************************************************)

(* A login that can still clear logining_, and one that gave up doing so.  *)
Pending(ts) ==
  /\ ctx[ts].kind = "LOGIN"
  /\ \/ ts \in cbMap
     \/ Registering(ts)
     \/ net.pc = "clear" /\ net.ts = ts
TimedOut(ts) ==
  ctx[ts].kind = "LOGIN" /\ ~ctx[ts].retry /\ ctx[ts].res = "TIMEOUT"

(* The retry whose entry the timer is about to erase, having sent another, *)
(* and the call whose result the net thread is about to overwrite.         *)
Dying ==
  IF timer.pc \in {"notify", "erase"} /\ ctx[timer.ts].retry
  THEN timer.ts ELSE 0
Revising == IF net.pc \in {"apply", "notify"} THEN net.ts ELSE 0

(* LoginingIsTracked, strengthened: those two do not count. *)
Tracked ==
  \E ts \in Ts : \/ Pending(ts) /\ ts # Dying
                 \/ TimedOut(ts) /\ ts # Revising
LoginTracked == logining /\ user # NoUser => Tracked

(* What that takes: the net thread's call is out of the table, a call that *)
(* the timer still finds there when it erases has timed out, and only      *)
(* calls that were made do.                                                *)
TimeoutsMatch ==
  /\ net.pc # "idle" => net.ts \notin cbMap
  /\ timer.pc = "erase" /\ ~ctx[timer.ts].retry /\ timer.ts \in cbMap =>
       ctx[timer.ts].res = "TIMEOUT"
  /\ \A ts \in Ts : ctx[ts].res = "TIMEOUT" => ts < clock

LoginInv == TimeoutsMatch /\ LoginTracked

Inv == IInv /\ LoginInv

-----------------------------------------------------------------------------
(* A step that tracks every login it found tracked. *)
LEMMA StillTracked ==
  ASSUME LoginTracked,
         logining' /\ user' # NoUser => logining /\ user # NoUser,
         \A ts \in Ts : \/ Pending(ts) /\ ts # Dying
                        \/ TimedOut(ts) /\ ts # Revising
           => \/ Pending(ts)' /\ ts # Dying'
              \/ TimedOut(ts)' /\ ts # Revising'
  PROVE  LoginTracked'
  BY DEF LoginTracked, Tracked

(* A step that leaves the table and the threads alone, and sets neither    *)
(* logining_ nor a user.                                                   *)
LEMMA FrameKeepsLogin ==
  ASSUME LoginInv, UNCHANGED <<clock, ctx, cbMap, api, net, timer>>,
         logining' /\ user' # NoUser => logining /\ user # NoUser
  PROVE  LoginInv'
<1>1. LoginTracked'
  BY StillTracked
  DEF LoginInv, Pending, TimedOut, Dying, Revising, Registering
<1>. QED
  BY <1>1 DEF LoginInv, TimeoutsMatch

(* relogin and rejoin_group issue a retry, a login if it is relogin.       *)
IssuesLogin == Issues /\ ctx'[clock].kind = "LOGIN" /\ ctx'[clock].res = "OK"
IssuesJoin == Issues /\ ctx'[clock].res = "OK" /\ UNCHANGED <<user, logining>>

(* relogin ends with a login under way, without a user, or with nothing    *)
(* changed, which it does for a user only while logining_ is set.          *)
LEMMA ReloginEffect ==
  ASSUME TypeOK, NEW isTimeout \in BOOLEAN, Relogin(isTimeout)
  PROVE  \/ IssuesLogin
         \/ user' = NoUser /\ UNCHANGED calls
         \/ ~isTimeout /\ UNCHANGED <<user, logining, calls>>
<1>1. CASE /\ user # NoUser
           /\ Call(NewContext("LOGIN", user, {}, TRUE))
  <2>1. /\ NewContext("LOGIN", user, {}, TRUE) \in Context
        /\ CarriesUser(NewContext("LOGIN", user, {}, TRUE))
    BY <1>1, NewContextType DEF TypeOK, Kinds
  <2>2. /\ clock \in Ts /\ clock' = clock + 1
        /\ ctx' \in [Ts -> Context]
        /\ ctx'[clock] = NewContext("LOGIN", user, {}, TRUE)
        /\ \A ts \in Ts : ts # clock => ctx'[ts] = ctx[ts]
        /\ cbMap' = cbMap \cup {clock}
    BY <1>1, <2>1, NewCallType DEF Call, TypeOK
  <2>. QED
    BY <2>2 DEF IssuesLogin, Issues, NewContext
<1>2. CASE user = NoUser \/ (logining /\ ~isTimeout)
  BY <1>2 DEF Relogin
<1>3. CASE user' = NoUser /\ UNCHANGED calls
  BY <1>3
<1>. QED
  BY <1>1, <1>2, <1>3 DEF Relogin

(* rejoin_group ends with a join under way or with the table unchanged.    *)
LEMMA RejoinEffect ==
  ASSUME TypeOK, RejoinGroup, UNCHANGED <<user, logining>>
  PROVE  IssuesJoin \/ UNCHANGED calls
<1>1. CASE Call(NewContext("JOIN_GROUP", NoUser, groups, TRUE))
  <2>1. /\ NewContext("JOIN_GROUP", NoUser, groups, TRUE) \in Context
        /\ CarriesUser(NewContext("JOIN_GROUP", NoUser, groups, TRUE))
    BY NewContextType DEF TypeOK, Kinds
  <2>2. /\ clock \in Ts /\ clock' = clock + 1
        /\ ctx' \in [Ts -> Context]
        /\ ctx'[clock] = NewContext("JOIN_GROUP", NoUser, groups, TRUE)
        /\ \A ts \in Ts : ts # clock => ctx'[ts] = ctx[ts]
        /\ cbMap' = cbMap \cup {clock}
    BY <1>1, <2>1, NewCallType DEF Call, TypeOK
  <2>. QED
    BY <2>2 DEF IssuesJoin, Issues, NewContext
<1>. QED
  BY <1>1 DEF RejoinGroup

-----------------------------------------------------------------------------
(* Moves, apart from ClearLogining, that issue a retry or none.            *)
LEMMA MovesKeepTimeouts ==
  ASSUME TypeOK, TableInv, TimeoutsMatch, Moves,
         UNCHANGED calls \/ (Issues /\ ctx'[clock].res = "OK")
  PROVE  TimeoutsMatch'
<1>1. /\ clock \in Int /\ cbMap \subseteq Ts /\ Ts \subseteq Int
      /\ ctx \in [Ts -> Context]
      /\ api \in ApiState /\ (api.pc # "idle" => api.ts \in Ts)
      /\ net \in NetState /\ (net.pc # "idle" => net.ts \in Ts)
      /\ timer \in TimerState /\ (timer.pc # "idle" => timer.ts \in Ts)
      /\ api.ts \in Int /\ net.ts \in Int /\ timer.ts \in Int
  BY Shapes
<1>2. /\ net'.ts = net.ts
      /\ net'.pc # "idle" <=> net.pc # "idle"
  BY <1>1 DEF Moves, NetState
<1>3. /\ timer'.ts = timer.ts
      /\ timer'.pc = "erase" => timer.pc = "erase"
  BY <1>1 DEF Moves, TimerState
<1>4. CASE UNCHANGED calls
  BY <1>2, <1>3, <1>4 DEF TimeoutsMatch, calls
<1>5. CASE Issues /\ ctx'[clock].res = "OK"
  <2>1. /\ net.pc # "idle" => net.ts # clock
        /\ timer.pc # "idle" => timer.ts # clock /\ timer.ts \in Ts
        /\ clock' = clock + 1 /\ cbMap' = cbMap \cup {clock}
        /\ \A ts \in Ts : ts # clock => ctx'[ts] = ctx[ts]
        /\ ctx'[clock].res # "TIMEOUT"
    BY <1>1, <1>5 DEF TableInv, CallsWereMade, Issues
  <2>2. net'.pc # "idle" => net'.ts \notin cbMap'
    BY <1>2, <2>1 DEF TimeoutsMatch
  <2>3. timer'.pc = "erase" /\ ~ctx'[timer'.ts].retry /\ timer'.ts \in cbMap'
          => ctx'[timer'.ts].res = "TIMEOUT"
    BY <1>3, <2>1 DEF TimeoutsMatch
  <2>4. \A ts \in Ts : ctx'[ts].res = "TIMEOUT" => ts < clock'
    BY <1>1, <2>1 DEF TimeoutsMatch
  <2>. QED
    BY <2>2, <2>3, <2>4 DEF TimeoutsMatch
<1>. QED
  BY <1>4, <1>5

(* relogin leaves a login that nobody is about to erase. *)
LEMMA IssuedLoginIsTracked ==
  ASSUME TypeOK, TableInv, Moves, IssuesLogin
  PROVE  LoginTracked'
<1>1. /\ clock \in Int /\ cbMap \subseteq Ts /\ Ts \subseteq Int
      /\ ctx \in [Ts -> Context]
      /\ api \in ApiState /\ (api.pc # "idle" => api.ts \in Ts)
      /\ net \in NetState /\ (net.pc # "idle" => net.ts \in Ts)
      /\ timer \in TimerState /\ (timer.pc # "idle" => timer.ts \in Ts)
      /\ api.ts \in Int /\ net.ts \in Int /\ timer.ts \in Int
  BY Shapes
<1>2. clock \in Ts /\ clock \in cbMap' /\ ctx'[clock].kind = "LOGIN"
  BY DEF IssuesLogin, Issues
<1> PICK t \in Ts : t = clock
  BY <1>2
<1>3. Pending(t)'
  BY <1>2 DEF Pending
<1>4. t # 0
  BY MaxTsAssumption DEF Ts
<1>5. timer.pc # "idle" => timer.ts # t
  BY <1>1 DEF TableInv, CallsWereMade
<1>6. timer'.ts = timer.ts /\ (timer'.pc # "idle" <=> timer.pc # "idle")
  BY <1>1 DEF Moves, TimerState
<1>7. t # Dying'
  BY <1>4, <1>5, <1>6 DEF Dying
<1>. QED
  BY <1>3, <1>7 DEF LoginTracked, Tracked

(* A timer that goes on to notify, of a call that is not a login retry,    *)
(* and a net thread that does, keep every login tracked.                   *)
LEMMA MovesKeepTracked ==
  ASSUME TypeOK, TableInv, LoginInv, Moves,
         UNCHANGED calls \/ Issues,
         net' # net => net.pc = "apply" /\ net'.pc = "notify",
         timer' # timer =>
           ~ctx[timer.ts].retry \/ ctx[timer.ts].kind # "LOGIN",
         logining' /\ user' # NoUser => logining /\ user # NoUser
  PROVE  LoginTracked'
<1>1. /\ clock \in Int /\ cbMap \subseteq Ts /\ Ts \subseteq Int
      /\ ctx \in [Ts -> Context]
      /\ api \in ApiState /\ (api.pc # "idle" => api.ts \in Ts)
      /\ net \in NetState /\ (net.pc # "idle" => net.ts \in Ts)
      /\ timer \in TimerState /\ (timer.pc # "idle" => timer.ts \in Ts)
      /\ api.ts \in Int /\ net.ts \in Int /\ timer.ts \in Int
  BY Shapes
<1>2. /\ net'.ts = net.ts
      /\ net'.pc = "clear" <=> net.pc = "clear"
      /\ net'.pc \in {"apply", "notify"} => net.pc \in {"apply", "notify"}
  BY <1>1 DEF Moves, NetState
<1>3. /\ timer'.ts = timer.ts /\ api' = api
      /\ timer'.pc # "idle" => timer.pc # "idle"
  BY <1>1 DEF Moves, TimerState
<1>4. /\ \A ts \in Ts : ts < clock => ctx'[ts] = ctx[ts]
      /\ cbMap \subseteq cbMap'
  BY <1>1 DEF Issues, calls
<1>5. ASSUME NEW ts \in Ts, Pending(ts), ts # Dying
      PROVE  Pending(ts)' /\ ts # Dying'
  <2>1. ts < clock
    BY <1>1, <1>5 DEF Pending, Registering, TableInv, CallsWereMade
  <2>2. Pending(ts)'
    BY <1>2, <1>3, <1>4, <1>5, <2>1 DEF Pending, Registering
  <2>3. timer.pc # "idle" => timer.ts \in Ts /\ timer.ts < clock
    BY <1>1 DEF TableInv, CallsWereMade
  <2>4. 0 # ts
    BY MaxTsAssumption DEF Ts
  <2>5. CASE timer' = timer
    BY <1>3, <1>4, <1>5, <2>2, <2>3, <2>4, <2>5 DEF Dying
  <2>6. CASE timer' # timer
    <3>1. ctx[timer.ts].retry => ts # timer.ts
      BY <1>5, <2>6 DEF Pending
    <3>. QED
      BY <1>3, <1>4, <2>2, <2>3, <2>4, <3>1 DEF Dying
  <2>. QED
    BY <2>2, <2>5, <2>6
<1>6. ASSUME NEW ts \in Ts, TimedOut(ts), ts # Revising, ts < clock
      PROVE  TimedOut(ts)' /\ ts # Revising'
  <2>1. 0 # ts
    BY MaxTsAssumption DEF Ts
  <2>. QED
    BY <1>2, <1>4, <1>6, <2>1 DEF TimedOut, Revising
<1>7. \A ts \in Ts : TimedOut(ts) => ts < clock
  BY DEF LoginInv, TimeoutsMatch, TimedOut
<1>8. LoginTracked
  BY DEF LoginInv
<1>. QED
  BY <1>5, <1>6, <1>7, <1>8, StillTracked

-----------------------------------------------------------------------------
(* A public function takes a timestamp nobody knows; if it sets logining_  *)
(* it is Login, and the login is tracked from its first step.              *)
LEMMA BeginCallKeepsLogin ==
  ASSUME TypeOK, TableInv, LoginInv, api.pc = "idle",
         NEW c \in Context, CarriesUser(c), c.res = "OK", BeginCall(c),
         \/ c.kind = "LOGIN"
         \/ logining' /\ user' # NoUser => logining /\ user # NoUser
  PROVE  LoginInv'
<1>1. /\ clock \in Int /\ cbMap \subseteq Ts /\ Ts \subseteq Int
      /\ ctx \in [Ts -> Context]
      /\ api \in ApiState /\ (api.pc # "idle" => api.ts \in Ts)
      /\ net \in NetState /\ (net.pc # "idle" => net.ts \in Ts)
      /\ timer \in TimerState /\ (timer.pc # "idle" => timer.ts \in Ts)
      /\ api.ts \in Int /\ net.ts \in Int /\ timer.ts \in Int
  BY Shapes
<1>2. /\ clock \in Ts /\ clock' = clock + 1
      /\ ctx'[clock] = c
      /\ \A ts \in Ts : ts # clock => ctx'[ts] = ctx[ts]
  BY NewCallType DEF BeginCall, TypeOK
<1>3. /\ api'.pc = "register" /\ api'.ts = clock
      /\ UNCHANGED <<cbMap, net, timer>>
  BY DEF BeginCall
<1>4. /\ net.pc # "idle" => net.ts # clock
      /\ timer.pc # "idle" => timer.ts \in Ts /\ timer.ts # clock
      /\ \A ts \in cbMap : ts # clock
  BY <1>1 DEF TableInv, CallsWereMade
<1>5. TimeoutsMatch'
  <2>1. \A ts \in Ts : ctx'[ts].res = "TIMEOUT" => ts < clock'
    BY <1>1, <1>2 DEF LoginInv, TimeoutsMatch
  <2>. QED
    BY <1>2, <1>3, <1>4, <2>1 DEF LoginInv, TimeoutsMatch
<1> PICK t \in Ts : t = clock
  BY <1>2
<1>6. /\ 0 \notin Ts
      /\ Dying' = Dying /\ Dying # t
      /\ Revising' = Revising
  <2>1. 0 \notin Ts
    BY MaxTsAssumption DEF Ts
  <2>. QED
    BY <1>2, <1>3, <1>4, <2>1 DEF Dying, Revising
<1>7. LoginTracked'
  <2>1. CASE c.kind = "LOGIN"
    <3>1. Pending(t)'
      BY <1>2, <1>3, <2>1 DEF Pending, Registering
    <3>. QED
      BY <1>6, <3>1 DEF LoginTracked, Tracked
  <2>2. CASE logining' /\ user' # NoUser => logining /\ user # NoUser
    <3>1. \A ts \in Ts : Pending(ts) => Pending(ts)'
      BY <1>2, <1>3, <1>4 DEF Pending, Registering
    <3>2. \A ts \in Ts : TimedOut(ts) => TimedOut(ts)'
      <4>1. \A ts \in Ts : TimedOut(ts) => ts # clock
        BY <1>1 DEF LoginInv, TimeoutsMatch, TimedOut
      <4>. QED
        BY <1>2, <4>1 DEF TimedOut
    <3>3. LoginTracked
      BY DEF LoginInv
    <3>. QED
      BY <1>6, <2>2, <3>1, <3>2, <3>3, StillTracked
  <2>. QED
    BY <2>1, <2>2
<1>. QED
  BY <1>5, <1>7 DEF LoginInv

(* call_sync registers what Login began; what the net thread has taken is  *)
(* not entered again.                                                      *)
LEMMA ApiStepKeepsLogin ==
  ASSUME TypeOK, TableInv, LoginInv, ApiStep
  PROVE  LoginInv'
<1>1. /\ clock \in Int /\ cbMap \subseteq Ts /\ Ts \subseteq Int
      /\ ctx \in [Ts -> Context]
      /\ api \in ApiState /\ (api.pc # "idle" => api.ts \in Ts)
      /\ net \in NetState /\ (net.pc # "idle" => net.ts \in Ts)
      /\ timer \in TimerState /\ (timer.pc # "idle" => timer.ts \in Ts)
      /\ api.ts \in Int /\ net.ts \in Int /\ timer.ts \in Int
  BY Shapes
<1>2. /\ UNCHANGED <<user, logining, clock, ctx, net, timer>>
      /\ cbMap' = cbMap \/ (api.pc = "register" /\ cbMap' = cbMap \cup {api.ts})
      /\ api.pc = "register" => api.ts \in cbMap'
  BY DEF ApiStep, CallRegister, CallSend, CallReturn, session, calls
<1>3. api.pc = "register" /\ net.pc # "idle" => api.ts # net.ts
  BY DEF TableInv, AnswersMatch
<1>4. api.pc = "register" /\ timer.pc = "erase" /\ ~ctx[timer.ts].retry
        => ctx[timer.ts].res = "TIMEOUT" \/ api.ts # timer.ts
  <2>1. SUFFICES ASSUME api.pc = "register", timer.pc = "erase",
                        ~ctx[timer.ts].retry, api.ts = timer.ts
                 PROVE  ctx[timer.ts].res = "TIMEOUT"
    OBVIOUS
  <2>2. ctx[timer.ts].done /\ ctx[timer.ts].answer = "none"
    BY <2>1 DEF TableInv, ErasedIsNotified, AnswersMatch
  <2>3. ctx[timer.ts].res \in Results /\ timer.ts \in Ts
    BY <1>1, <2>1 DEF Context
  <2>. QED
    BY <2>2, <2>3 DEF TableInv, AnswersMatch, Results
<1>5. TimeoutsMatch'
  BY <1>2, <1>3, <1>4 DEF LoginInv, TimeoutsMatch
<1>6. Dying' = Dying /\ Revising' = Revising
  BY <1>2 DEF Dying, Revising
<1>7. \A ts \in Ts : /\ Pending(ts) => Pending(ts)'
                     /\ TimedOut(ts) => TimedOut(ts)'
  BY <1>2 DEF Pending, TimedOut, Registering
<1>8. LoginTracked'
  BY <1>2, <1>6, <1>7, StillTracked DEF LoginInv
<1>. QED
  BY <1>5, <1>8 DEF LoginInv

(* handle_response takes a login out of the table with logining_ still to  *)
(* be cleared, or another call, whose result says nothing about logins.    *)
LEMMA RecvAnswerKeepsLogin ==
  ASSUME TypeOK, TableInv, LoginInv, RecvAnswer
  PROVE  LoginInv'
<1>1. /\ clock \in Int /\ cbMap \subseteq Ts /\ Ts \subseteq Int
      /\ ctx \in [Ts -> Context]
      /\ api \in ApiState /\ (api.pc # "idle" => api.ts \in Ts)
      /\ net \in NetState /\ (net.pc # "idle" => net.ts \in Ts)
      /\ timer \in TimerState /\ (timer.pc # "idle" => timer.ts \in Ts)
      /\ api.ts \in Int /\ net.ts \in Int /\ timer.ts \in Int
  BY Shapes
<1> DEFINE m == Head(inbox)
<1>2. UNCHANGED <<user, logining, clock, api, timer>> /\ net.pc = "idle"
  BY DEF RecvAnswer, Receive, session
<1>3. CASE ~Expected(m.ts)
  BY <1>2, <1>3, FrameKeepsLogin DEF RecvAnswer
<1>4. CASE Expected(m.ts)
  <2>1. /\ m.ts \in cbMap /\ m.ts \in Ts
        /\ cbMap' = cbMap \ {m.ts}
        /\ ctx' = [ctx EXCEPT ![m.ts].answer =
                                IF m.ok THEN "OK" ELSE "FAILED"]
        /\ net' = [pc |-> IF ctx[m.ts].kind = "LOGIN"
                          THEN "clear" ELSE "apply",
                   ts |-> m.ts, ok |-> m.ok]
    BY <1>1, <1>4 DEF RecvAnswer, Expected
  <2>2. \A ts \in Ts : /\ ctx'[ts].kind = ctx[ts].kind
                       /\ ctx'[ts].retry = ctx[ts].retry
                       /\ ctx'[ts].res = ctx[ts].res
    BY <1>1, <2>1 DEF Context
  <2>3. /\ net'.ts = m.ts
        /\ ctx[m.ts].kind = "LOGIN" <=> net'.pc = "clear"
        /\ net'.pc \in {"clear", "apply"}
    BY <2>1
  <2>4. TimeoutsMatch'
    BY <1>1, <1>2, <2>1, <2>2, <2>3 DEF LoginInv, TimeoutsMatch
  <2>5. Dying' = Dying
    BY <1>1, <1>2, <2>2 DEF Dying
  <2>6. \A ts \in Ts : Pending(ts) => Pending(ts)'
    BY <1>2, <2>1, <2>2, <2>3 DEF Pending, Registering
  <2>7. \A ts \in Ts : TimedOut(ts) => TimedOut(ts)' /\ ts # Revising'
    <3>1. 0 \notin Ts
      BY MaxTsAssumption DEF Ts
    <3>. QED
      BY <2>2, <2>3, <3>1 DEF TimedOut, Revising
  <2>8. LoginTracked'
    BY <1>2, <2>5, <2>6, <2>7, StillTracked DEF LoginInv
  <2>. QED
    BY <2>4, <2>8 DEF LoginInv
<1>. QED
  BY <1>3, <1>4

(* Notifying a call changes its result and no other's.                     *)
LEMMA NotifyResults ==
  ASSUME ctx \in [Ts -> Context], NEW ts \in Ts, NEW res \in Results,
         Notify(ts, res)
  PROVE  /\ \A t \in Ts : /\ ctx'[t].kind = ctx[t].kind
                          /\ ctx'[t].retry = ctx[t].retry
                          /\ t # ts => ctx'[t] = ctx[t]
         /\ ~ctx[ts].retry => ctx'[ts].res = res
         /\ ctx[ts].retry => ctx'[ts] = ctx[ts]
<1>1. CASE ctx[ts].retry
  BY <1>1 DEF Notify
<1>2. CASE ~ctx[ts].retry
  BY <1>2 DEF Notify, Context
<1>. QED
  BY <1>1, <1>2

(* A login that timed out stays so until the net thread, having cleared    *)
(* logining_, overwrites its result.                                       *)
LEMMA NetNotifyKeepsLogin ==
  ASSUME TypeOK, TableInv, LoginInv, NetNotify
  PROVE  LoginInv'
<1>1. /\ clock \in Int /\ cbMap \subseteq Ts /\ Ts \subseteq Int
      /\ ctx \in [Ts -> Context]
      /\ api \in ApiState /\ (api.pc # "idle" => api.ts \in Ts)
      /\ net \in NetState /\ (net.pc # "idle" => net.ts \in Ts)
      /\ timer \in TimerState /\ (timer.pc # "idle" => timer.ts \in Ts)
      /\ api.ts \in Int /\ net.ts \in Int /\ timer.ts \in Int
  BY Shapes
<1>2. /\ net.pc = "notify" /\ net'.pc = "idle"
      /\ UNCHANGED <<user, logining, clock, cbMap, api, timer>>
  BY <1>1 DEF NetNotify, NetState, session
<1>3. PICK res \in Results : res # "TIMEOUT" /\ Notify(net.ts, res)
  BY DEF NetNotify, Results
<1>4. /\ \A t \in Ts : /\ ctx'[t].kind = ctx[t].kind
                       /\ ctx'[t].retry = ctx[t].retry
                       /\ t # net.ts => ctx'[t] = ctx[t]
      /\ ~ctx[net.ts].retry => ctx'[net.ts].res = res
      /\ ctx[net.ts].retry => ctx'[net.ts] = ctx[net.ts]
  BY <1>1, <1>2, <1>3, NotifyResults
<1>5. net.ts \notin cbMap
  BY <1>2 DEF LoginInv, TimeoutsMatch
<1>6. TimeoutsMatch'
  <2>1. timer'.pc = "erase" /\ ~ctx'[timer'.ts].retry /\ timer'.ts \in cbMap'
          => ctx'[timer'.ts].res = "TIMEOUT"
    BY <1>1, <1>2, <1>4, <1>5 DEF LoginInv, TimeoutsMatch
  <2>2. \A ts \in Ts : ctx'[ts].res = "TIMEOUT" => ts < clock'
    BY <1>2, <1>3, <1>4 DEF LoginInv, TimeoutsMatch
  <2>. QED
    BY <1>2, <2>1, <2>2 DEF TimeoutsMatch
<1>7. Dying' = Dying
  BY <1>1, <1>2, <1>4 DEF Dying
<1>8. \A ts \in Ts : Pending(ts) => Pending(ts)'
  BY <1>2, <1>4 DEF Pending, Registering
<1>9. \A ts \in Ts :
        TimedOut(ts) /\ ts # Revising => TimedOut(ts)' /\ ts # Revising'
  <2>1. 0 \notin Ts /\ Revising = net.ts /\ Revising' = 0
    BY <1>2, MaxTsAssumption DEF Ts, Revising
  <2>. QED
    BY <1>4, <2>1 DEF TimedOut
<1>10. LoginTracked'
  BY <1>2, <1>7, <1>8, <1>9, StillTracked DEF LoginInv
<1>. QED
  BY <1>6, <1>10 DEF LoginInv

(* The timer: a login of the application times out before it is erased, a  *)
(* login of the SDK's has been followed by another.                        *)
LEMMA TimerStepKeepsLogin ==
  ASSUME TypeOK, TableInv, LoginInv, TimerScan \/ TimerNotify \/ TimerErase
  PROVE  LoginInv'
<1>1. /\ clock \in Int /\ cbMap \subseteq Ts /\ Ts \subseteq Int
      /\ ctx \in [Ts -> Context]
      /\ api \in ApiState /\ (api.pc # "idle" => api.ts \in Ts)
      /\ net \in NetState /\ (net.pc # "idle" => net.ts \in Ts)
      /\ timer \in TimerState /\ (timer.pc # "idle" => timer.ts \in Ts)
      /\ api.ts \in Int /\ net.ts \in Int /\ timer.ts \in Int
  BY Shapes
<1>0. 0 \notin Ts
  BY MaxTsAssumption DEF Ts
<1>2. CASE TimerScan
  <2>1. /\ timer.pc = "idle" /\ timer'.pc = "handle"
        /\ UNCHANGED <<user, logining, clock, ctx, cbMap, api, net>>
    BY <1>2 DEF TimerScan, calls, session
  <2>2. TimeoutsMatch'
    BY <2>1 DEF LoginInv, TimeoutsMatch
  <2>3. Dying' = Dying /\ Revising' = Revising
    BY <2>1 DEF Dying, Revising
  <2>4. \A ts \in Ts : /\ Pending(ts) => Pending(ts)'
                       /\ TimedOut(ts) => TimedOut(ts)'
    BY <2>1 DEF Pending, TimedOut, Registering
  <2>5. LoginTracked'
    BY <2>1, <2>3, <2>4, StillTracked DEF LoginInv
  <2>. QED
    BY <2>2, <2>5 DEF LoginInv
<1>3. CASE TimerNotify
  <2>1. /\ timer.pc = "notify" /\ timer'.pc = "erase" /\ timer'.ts = timer.ts
        /\ Notify(timer.ts, "TIMEOUT")
        /\ UNCHANGED <<user, logining, clock, cbMap, api, net>>
    BY <1>1, <1>3 DEF TimerNotify, TimerState, session
  <2>2. /\ \A t \in Ts : /\ ctx'[t].kind = ctx[t].kind
                         /\ ctx'[t].retry = ctx[t].retry
                         /\ t # timer.ts => ctx'[t] = ctx[t]
        /\ ~ctx[timer.ts].retry => ctx'[timer.ts].res = "TIMEOUT"
        /\ ctx[timer.ts].retry => ctx'[timer.ts] = ctx[timer.ts]
    BY <1>1, <2>1, NotifyResults DEF Results
  <2>3. timer.ts \in Ts /\ timer.ts < clock
    BY <1>1, <2>1 DEF TableInv, CallsWereMade
  <2>4. TimeoutsMatch'
    BY <2>1, <2>2, <2>3 DEF LoginInv, TimeoutsMatch
  <2>5. Dying' = Dying /\ Revising' = Revising
    BY <1>1, <2>1, <2>2 DEF Dying, Revising
  <2>6. \A ts \in Ts : /\ Pending(ts) => Pending(ts)'
                       /\ TimedOut(ts) => TimedOut(ts)'
    BY <2>1, <2>2 DEF Pending, TimedOut, Registering
  <2>7. LoginTracked'
    BY <2>1, <2>5, <2>6, StillTracked DEF LoginInv
  <2>. QED
    BY <2>4, <2>7 DEF LoginInv
<1>4. CASE TimerErase
  <2>1. /\ timer.pc = "erase" /\ timer'.pc = "idle"
        /\ cbMap' = cbMap \ {timer.ts}
        /\ UNCHANGED <<user, logining, clock, ctx, api, net>>
    BY <1>1, <1>4 DEF TimerErase, TimerState, session
  <2>2. TimeoutsMatch'
    BY <2>1 DEF LoginInv, TimeoutsMatch
  <2>3. Dying' = 0 /\ Revising' = Revising
    BY <2>1 DEF Dying, Revising
  <2>4. \A ts \in Ts : TimedOut(ts) => TimedOut(ts)'
    BY <2>1 DEF TimedOut
  <2>5. ASSUME NEW ts \in Ts, Pending(ts), ts # Dying
        PROVE  \/ Pending(ts)' /\ ts # Dying'
               \/ TimedOut(ts)' /\ ts # Revising'
    <3>1. CASE ts # timer.ts \/ ts \notin cbMap
      BY <1>0, <2>1, <2>3, <2>5, <3>1 DEF Pending, Registering
    <3>2. CASE ts = timer.ts /\ ts \in cbMap
      <4>1. ~ctx[ts].retry
        BY <2>1, <2>5, <3>2 DEF Dying
      <4>2. TimedOut(ts)
        BY <2>1, <2>5, <3>2, <4>1
        DEF LoginInv, TimeoutsMatch, TimedOut, Pending
      <4>3. ts # Revising
        BY <1>0, <3>2 DEF LoginInv, TimeoutsMatch, Revising
      <4>. QED
        BY <2>3, <2>4, <4>2, <4>3
    <3>. QED
      BY <3>1, <3>2
  <2>6. LoginTracked'
    BY <2>1, <2>3, <2>4, <2>5, StillTracked DEF LoginInv
  <2>. QED
    BY <2>2, <2>6 DEF LoginInv
<1>. QED
  BY <1>2, <1>3, <1>4

-----------------------------------------------------------------------------
(* Every step keeps track of the login. *)
LEMMA NextKeepsLogin ==
  ASSUME TypeOK, TableInv, LoginInv, [Next]_vars
  PROVE  LoginInv'
<1>1. ASSUME UNCHANGED <<calls, api, net, timer>>,
             logining' /\ user' # NoUser => logining /\ user # NoUser
      PROVE  LoginInv'
  BY <1>1, FrameKeepsLogin DEF calls
<1>2. CASE UNCHANGED vars
  BY <1>1, <1>2 DEF vars, session
<1>3. CASE ApiCall
  <2>1. CASE LoginRejected
    BY <1>1, <2>1 DEF LoginRejected, session
  <2>2. ASSUME NEW kind \in Kinds, NEW u \in Users \cup {NoUser},
               NEW gs \in SUBSET Groups, kind = "LOGIN" <=> u # NoUser,
               api.pc = "idle", BeginCall(NewContext(kind, u, gs, FALSE)),
               \/ kind = "LOGIN"
               \/ logining' /\ user' # NoUser => logining /\ user # NoUser
        PROVE  LoginInv'
    <3> DEFINE c == NewContext(kind, u, gs, FALSE)
    <3>1. c \in Context /\ CarriesUser(c)
      BY <2>2, NewContextType
    <3>2. c.res = "OK" /\ c.kind = kind
      BY DEF NewContext
    <3>3. BeginCall(c)
      BY <2>2
    <3> HIDE DEF c
    <3>. QED
      BY <2>2, <3>1, <3>2, <3>3, BeginCallKeepsLogin
  <2>3. ASSUME NEW u \in Users, Login(u) PROVE LoginInv'
    <3>1. u # NoUser /\ "LOGIN" \in Kinds /\ {} \in SUBSET Groups
      BY NoUserAssumption DEF Kinds
    <3>2. "LOGIN" = "LOGIN" <=> u # NoUser
      BY <3>1
    <3>3. api.pc = "idle" /\ BeginCall(NewContext("LOGIN", u, {}, FALSE))
      BY <2>3 DEF Login
    <3>. QED
      BY <2>2, <3>1, <3>2, <3>3
  <2>4. CASE Logout
    <3>1. "LOGOUT" \in Kinds /\ {} \in SUBSET Groups
      BY DEF Kinds
    <3>2. "LOGOUT" = "LOGIN" <=> NoUser # NoUser
      OBVIOUS
    <3>3. /\ api.pc = "idle" /\ user' = NoUser
          /\ BeginCall(NewContext("LOGOUT", NoUser, {}, FALSE))
      BY <2>4 DEF Logout
    <3>. QED
      BY <2>2, <3>1, <3>2, <3>3
  <2>5. ASSUME NEW g \in Groups, JoinGroup(g) \/ LeaveGroup(g)
        PROVE  LoginInv'
    <3>1. PICK kind \in {"JOIN_GROUP", "LEAVE_GROUP"} :
            BeginCall(NewContext(kind, NoUser, {g}, FALSE))
      BY <2>5 DEF JoinGroup, LeaveGroup
    <3>2. api.pc = "idle" /\ UNCHANGED <<user, logining>>
      BY <2>5 DEF JoinGroup, LeaveGroup
    <3>3. kind \in Kinds /\ {g} \in SUBSET Groups
      BY DEF Kinds
    <3>4. kind = "LOGIN" <=> NoUser # NoUser
      OBVIOUS
    <3>. QED
      BY <2>2, <3>1, <3>2, <3>3, <3>4
  <2>. QED
    BY <1>3, <2>1, <2>3, <2>4, <2>5 DEF ApiCall
<1>4. CASE ApiStep
  BY <1>4, ApiStepKeepsLogin
<1>5. ASSUME NEW isTimeout \in BOOLEAN, Relogin(isTimeout), Moves, net' = net,
             isTimeout \/ timer' = timer
      PROVE  LoginInv'
  <2>1. CASE IssuesLogin
    BY <1>5, <2>1, MovesKeepTimeouts, IssuedLoginIsTracked
    DEF LoginInv, IssuesLogin
  <2>2. CASE user' = NoUser /\ UNCHANGED calls
    BY <1>5, <2>2, MovesKeepTimeouts DEF LoginInv, LoginTracked
  <2>3. CASE ~isTimeout /\ UNCHANGED <<user, logining, calls>>
    BY <1>5, <2>3, MovesKeepTimeouts, MovesKeepTracked DEF LoginInv
  <2>. QED
    BY <1>5, <2>1, <2>2, <2>3, ReloginEffect
<1>6. ASSUME RejoinGroup, UNCHANGED <<user, logining>>, Moves,
             net' # net => net.pc = "apply" /\ net'.pc = "notify",
             timer' # timer => ctx[timer.ts].kind # "LOGIN"
      PROVE  LoginInv'
  <2>1. UNCHANGED calls \/ (Issues /\ ctx'[clock].res = "OK")
    BY <1>6, RejoinEffect DEF IssuesJoin
  <2>2. TimeoutsMatch'
    BY <1>6, <2>1, MovesKeepTimeouts DEF LoginInv
  <2>3. LoginTracked'
    BY <1>6, <2>1, MovesKeepTracked
  <2>. QED
    BY <2>2, <2>3 DEF LoginInv
<1>7. CASE OnConnected
  <2>1. Moves /\ net' = net /\ timer' = timer /\ Relogin(FALSE)
    BY <1>7 DEF OnConnected, Moves
  <2>. QED
    BY <1>5, <2>1
<1>8. CASE NetStep
  <2>1. CASE Flush \/ RecvGarbled \/ RecvKick \/ RecvGroupMsg \/ RecvUserMsg
    BY <1>1, <2>1
    DEF Flush, RecvGarbled, RecvKick, RecvGroupMsg, RecvUserMsg, Receive,
        session
  <2>2. CASE RecvAnswer
    BY <2>2, RecvAnswerKeepsLogin
  <2>3. CASE NetNotify
    BY <2>3, NetNotifyKeepsLogin
  <2>4. ASSUME NEW kind, NEW ok, Applying(kind, ok)
        PROVE  /\ Moves /\ timer' = timer
               /\ net.pc = "apply" /\ net'.pc = "notify"
    <3>1. net \in NetState
      BY Shapes
    <3>. QED
      BY <2>4, <3>1 DEF Applying, Moves, NetState
  <2>5. CASE ClearLogining
    <3>1. Moves /\ UNCHANGED calls /\ ~logining'
      BY <2>5 DEF ClearLogining, Moves
    <3>. QED
      BY <3>1, MovesKeepTimeouts DEF LoginInv, LoginTracked
  <2>6. CASE LoginFailed \/ JoinGroupFailed \/ NothingToApply
    <3>1. /\ Moves /\ UNCHANGED calls /\ timer' = timer
          /\ net.pc = "apply" /\ net'.pc = "notify"
          /\ user' = NoUser \/ UNCHANGED <<user, logining>>
      BY <2>4, <2>6 DEF LoginFailed, JoinGroupFailed, NothingToApply, session
    <3>. QED
      BY <3>1, MovesKeepTimeouts, MovesKeepTracked DEF LoginInv
  <2>7. CASE LoginSucceeded
    <3>1. /\ Moves /\ timer' = timer
          /\ net.pc = "apply" /\ net'.pc = "notify"
          /\ UNCHANGED <<user, logining>>
          /\ RejoinGroup \/ UNCHANGED calls
      BY <2>4, <2>7 DEF LoginSucceeded
    <3>2. CASE RejoinGroup
      BY <1>6, <3>1, <3>2
    <3>3. CASE UNCHANGED calls
      BY <3>1, <3>3, MovesKeepTimeouts, MovesKeepTracked DEF LoginInv
    <3>. QED
      BY <3>1, <3>2, <3>3
  <2>. QED
    BY <1>8, <2>1, <2>2, <2>3, <2>5, <2>6, <2>7 DEF NetStep
<1>9. CASE TimerStep
  <2>1. CASE TimerScan \/ TimerNotify \/ TimerErase
    BY <2>1, TimerStepKeepsLogin
  <2>2. ASSUME NEW kind, NEW retry, TimerHandle(kind, retry)
        PROVE  /\ Moves /\ net' = net
               /\ ctx[timer.ts].kind = kind /\ ctx[timer.ts].retry = retry
    BY <2>2 DEF TimerHandle, Moves
  <2>3. CASE ReloginTimeout
    BY <1>5, <2>2, <2>3 DEF ReloginTimeout
  <2>4. CASE RejoinTimeout
    <3>1. TimerHandle("JOIN_GROUP", TRUE) /\ RejoinGroup
          /\ UNCHANGED <<user, logining>>
      BY <2>4 DEF RejoinTimeout
    <3>2. Moves /\ net' = net /\ ctx[timer.ts].kind = "JOIN_GROUP"
      BY <2>2, <3>1
    <3>. QED
      BY <1>6, <3>1, <3>2
  <2>5. CASE CallTimeout
    <3>1. /\ Moves /\ net' = net /\ UNCHANGED <<session, calls>>
          /\ ctx[timer.ts].retry = FALSE
      BY <2>2, <2>5 DEF CallTimeout
    <3>. QED
      BY <3>1, MovesKeepTimeouts, MovesKeepTracked DEF LoginInv, session
  <2>. QED
    BY <1>9, <2>1, <2>3, <2>4, <2>5 DEF TimerStep
<1>10. CASE DeliverEvent
  BY <1>1, <1>10 DEF DeliverEvent, session
<1>11. CASE ServerStep \/ Environment
  <2>1. ASSUME Outside PROVE LoginInv'
    BY <1>1, <2>1 DEF Outside, session
  <2>2. CASE ServerStep \/ ServeRefusal
    BY <2>1, <2>2
    DEF ServerStep, ServeLogin, ServeLogout, ServeJoinGroup, ServeLeaveGroup,
        ServeRefusal, Serve
  <2>3. CASE KickUser \/ PushUserMsg \/ PushGroupMsg \/ LinkDown
    BY <2>1, <2>3
    DEF KickUser, PushUserMsg, PushGroupMsg, PushToClient, LinkDown
  <2>. QED
    BY <1>11, <2>2, <2>3 DEF Environment
<1>. QED
  BY <1>2, <1>3, <1>4, <1>7, <1>8, <1>9, <1>10, <1>11 DEF Next

(* PushSDK starts with logining_ false. *)
LEMMA InitLogin == Init => LoginInv
  BY DEF Init, LoginInv, TimeoutsMatch, LoginTracked, NewContext

(* logining_ is true beside a user only while an answer can clear it or    *)
(* after a login of the application timed out.                             *)
THEOREM LoginingTracked == Spec => []LoginingIsTracked
<1>1. Init => Inv
  BY InitType, InitTable, InitLogin DEF Inv, IInv
<1>2. Inv /\ [Next]_vars => Inv'
  BY NextKeepsType, NextKeepsTable, NextKeepsLogin DEF Inv, IInv
<1>3. Inv => LoginingIsTracked
  BY DEF Inv, LoginInv, LoginTracked, Tracked, Pending, TimedOut,
         LoginingIsTracked, LoginPending, LoginTimedOut
<1>. QED
  BY <1>1, <1>2, <1>3, PTL DEF Spec
=============================================================================
