------------------------------- MODULE Session -------------------------------
(***************************************************************************)
(* The session engine of PushSDK (src/src/core/core.cpp, core.h): the      *)
(* login state, the joined groups and the table of calls awaiting answers, *)
(* shared by four threads and two mutexes:                                 *)
(*   api    the application's synchronous call; the public functions of    *)
(*          push_sdk.cpp hold _mux, so there is one at a time              *)
(*   net    the loop of Client, which calls OnConnected and OnMessage      *)
(*   timer  the thread that expires the entries of cb_map_                 *)
(*   event  the thread that hands queued events to the application         *)
(* and by the gateway at the other end of Transport, which is external.    *)
(*                                                                         *)
(* A critical section of user_mux_ is one step; what the code does outside *)
(* of it is a step of its own, so every interleaving of the threads shows. *)
(***************************************************************************)
EXTENDS Integers, FiniteSets, Sequences, Transport

CONSTANTS
  Users,        \* login infos (PushSDKUserInfo)
  Groups,       \* <<gtype, gid>> pairs
  ZeroGroups,   \* those whose gtype or gid is 0
  NoUser,       \* user_ == nullptr
  NoGroup,      \* filler of the packets that name no group
  MaxTs,        \* bound: calls and retries issued in a behaviour
  Budgets,      \* bound: how often the environment does each of Faults,
                \* one budget for each scenario
  Codec,        \* bound: the most encodings that fail in a scenario
  EarlyWake     \* wait_for may return before notify and before its timeout

Kinds == {"LOGIN", "LOGOUT", "JOIN_GROUP", "LEAVE_GROUP"}
Faults ==
  {"call", "drop", "slow", "stall", "kick", "push", "refuse", "garble", "codec"}
Ts == 1..MaxTs

ASSUME ZeroGroupsAssumption == ZeroGroups \subseteq Groups
ASSUME NoUserAssumption == NoUser \notin Users
ASSUME NoGroupAssumption == NoGroup \notin Groups
ASSUME MaxTsAssumption == MaxTs \in Nat
ASSUME BudgetsAssumption ==
  \A b \in Budgets : b \in [Faults -> Nat] /\ b["codec"] <= Codec
ASSUME CodecAssumption == Codec \in Nat
ASSUME EarlyWakeAssumption == EarlyWake \in BOOLEAN

VARIABLES
  user,      \* user_
  groups,    \* groups_
  logining,  \* logining_
  clock,     \* the next timestamp; read only under user_mux_, hence unique
  ctx,       \* the CallContext of each timestamp below clock
  cbMap,     \* the keys of cb_map_
  events,    \* event_cb_pctxs_
  api, net, timer,
  srv,       \* the gateway's view of this client
  budget     \* what is left of the scenario's budget

session == <<user, groups, logining>>
calls == <<clock, ctx, cbMap>>
link == <<up, sendQ, wire, inbox>>
vars == <<session, calls, link, events, api, net, timer, srv, budget>>

-----------------------------------------------------------------------------
(* Data.  res and done are what notify leaves for the waiting caller; the  *)
(* CallContext constructor sets res to PS_CB_EVENT_OK.  answer is history: *)
(* what the gateway answered and the net thread took out of cb_map_.  A    *)
(* login, and nothing else, carries the user: relogin dereferences user_.  *)

Results == {"OK", "FAILED", "TIMEOUT"}
Answers == {"none", "OK", "FAILED"}

CarriesUser(x) == x.kind = "LOGIN" <=> x.user # NoUser

Context ==
  [kind : Kinds, user : Users \cup {NoUser}, groups : SUBSET Groups,
   retry : BOOLEAN, res : Results, done : BOOLEAN, answer : Answers]

NewContext(kind, u, gs, retry) ==
  [kind |-> kind, user |-> u, groups |-> gs, retry |-> retry,
   res |-> "OK", done |-> FALSE, answer |-> "none"]

Request ==
  [kind : Kinds, user : Users \cup {NoUser}, groups : SUBSET Groups,
   ts : 0..MaxTs]

Packet(kind, u, gs, ts) ==
  [kind |-> kind, user |-> u, groups |-> gs, ts |-> ts]

Reply ==
  {m \in [type : {"ANSWER", "KICK", "GROUP_MSG", "USER_MSG"}, ts : 0..MaxTs,
          ok : BOOLEAN, group : Groups \cup {NoGroup}] :
     m.type = "GROUP_MSG" <=> m.group # NoGroup}

Answer(ts, ok) ==
  [type |-> "ANSWER", ts |-> ts, ok |-> ok, group |-> NoGroup]
Push(type, g) == [type |-> type, ts |-> 0, ok |-> TRUE, group |-> g]

Event ==
  [type : Kinds \cup {"INNER_ERR"},
   res : Results \cup {"REQ_ENC_FAILED", "RES_DEC_FAILED", "KICKED"}]
Emit(type, res) == events' = Append(events, [type |-> type, res |-> res])

ApiState ==
  [pc : {"idle", "register", "send", "wait"}, ts : 0..MaxTs,
   ret : {"none"} \cup Results]
NetState ==
  [pc : {"idle", "clear", "apply", "notify"}, ts : 0..MaxTs, ok : BOOLEAN]
TimerState == [pc : {"idle", "handle", "notify", "erase"}, ts : 0..MaxTs]
ServerState == [user : Users \cup {NoUser}, groups : SUBSET Groups]

Spend(f) ==
  /\ budget[f] > 0
  /\ budget' = [budget EXCEPT ![f] = @ - 1]

CallsType ==
  /\ clock \in 1..(MaxTs + 1)
  /\ ctx \in [Ts -> Context]
  /\ \A ts \in Ts : CarriesUser(ctx[ts])
  /\ cbMap \in SUBSET Ts

LinkType ==
  /\ up \in BOOLEAN
  /\ sendQ \in Seq(Request)
  /\ wire \in Seq(Request)
  /\ inbox \in Seq(Reply)

(* A thread at work has the timestamp of a call. *)
ThreadsType ==
  /\ api \in ApiState /\ (api.pc # "idle" => api.ts \in Ts)
  /\ net \in NetState /\ (net.pc # "idle" => net.ts \in Ts)
  /\ timer \in TimerState /\ (timer.pc # "idle" => timer.ts \in Ts)

TypeOK ==
  /\ user \in Users \cup {NoUser}
  /\ groups \in SUBSET Groups
  /\ logining \in BOOLEAN
  /\ CallsType
  /\ LinkType
  /\ events \in Seq(Event)
  /\ ThreadsType
  /\ srv \in ServerState
  /\ budget \in [Faults -> Nat]

Init ==
  /\ user = NoUser
  /\ groups = {}
  /\ logining = FALSE
  /\ clock = 1
  /\ ctx = [ts \in Ts |-> NewContext("LOGOUT", NoUser, {}, FALSE)]
  /\ cbMap = {}
  /\ events = <<>>
  /\ TransportInit
  /\ api = [pc |-> "idle", ts |-> 0, ret |-> "none"]
  /\ net = [pc |-> "idle", ts |-> 0, ok |-> FALSE]
  /\ timer = [pc |-> "idle", ts |-> 0]
  /\ srv = [user |-> NoUser, groups |-> {}]
  /\ budget \in Budgets

-----------------------------------------------------------------------------
(* Pieces shared by the handlers. *)

(* call and call_sync make a context for the current time; the packet     *)
(* carries the same timestamp.                                            *)
NewCall(c) ==
  /\ clock \in Ts
  /\ ctx' = [ctx EXCEPT ![clock] = c]
  /\ clock' = clock + 1

CallPacket(ts) == Packet(ctx[ts].kind, ctx[ts].user, ctx[ts].groups, ts)

(* call: register the context, then hand the packet to the client. *)
Call(c) ==
  /\ NewCall(c)
  /\ cbMap' = cbMap \cup {clock}
  /\ Send(Packet(c.kind, c.user, c.groups, clock))

(* Mutant: the result is not written before the caller is woken. *)
NotifyWithoutResult(ts, res) ==
  IF ctx[ts].retry
  THEN /\ Emit(ctx[ts].kind, res)
       /\ UNCHANGED ctx
  ELSE /\ ctx' = [ctx EXCEPT ![ts].done = TRUE]
       /\ UNCHANGED events

(* notify: a synchronous call is woken, a retry of the SDK's own is        *)
(* reported as an event.                                                   *)
Notify(ts, res) ==
  IF ctx[ts].retry
  THEN /\ Emit(ctx[ts].kind, res)
       /\ UNCHANGED ctx
  ELSE /\ ctx' = [ctx EXCEPT ![ts].res = res, ![ts].done = TRUE]
       /\ UNCHANGED events

(* Mutant: relogin does not look for a user. *)
ReloginAnyUser(isTimeout) ==
  IF logining /\ ~isTimeout
  THEN UNCHANGED <<user, logining, calls, sendQ, events, budget>>
  ELSE /\ logining' = TRUE
       /\ Call(NewContext("LOGIN", user, {}, TRUE))
       /\ UNCHANGED <<user, events, budget>>

(* relogin.  Primes user, logining, calls, sendQ, events, budget. *)
Relogin(isTimeout) ==
  \/ /\ user = NoUser \/ (logining /\ ~isTimeout)
     /\ UNCHANGED <<user, logining, calls, sendQ, events, budget>>
  \/ /\ user # NoUser /\ (isTimeout \/ ~logining)
     /\ logining' = TRUE
     /\ Call(NewContext("LOGIN", user, {}, TRUE))
     /\ UNCHANGED <<user, events, budget>>
  \/ /\ user # NoUser /\ (isTimeout \/ ~logining)
     /\ Spend("codec")
     /\ user' = NoUser
     /\ Emit("LOGIN", "REQ_ENC_FAILED")
     /\ UNCHANGED <<logining, calls, sendQ>>

(* rejoin_group.  Primes groups, calls, sendQ, events, budget. *)
RejoinGroup ==
  \/ /\ user = NoUser \/ groups = {}
     /\ UNCHANGED <<groups, calls, sendQ, events, budget>>
  \/ /\ user # NoUser /\ groups # {}
     /\ Call(NewContext("JOIN_GROUP", NoUser, groups, TRUE))
     /\ UNCHANGED <<groups, events, budget>>
  \/ /\ user # NoUser /\ groups # {}
     /\ Spend("codec")
     /\ groups' = {}
     /\ Emit("JOIN_GROUP", "REQ_ENC_FAILED")
     /\ UNCHANGED <<calls, sendQ>>

-----------------------------------------------------------------------------
(* The application's thread.  Calls that return without a change of state  *)
(* (a Logout when logged out, a JoinGroup of a joined group, ...) are      *)
(* stuttering steps and have no action.                                    *)

BeginCall(c) ==
  /\ NewCall(c)
  /\ api' = [pc |-> "register", ts |-> clock, ret |-> "none"]
  /\ UNCHANGED <<cbMap, events, net, timer, srv, up, wire, inbox>>

Login(u) ==
  /\ api.pc = "idle"
  /\ Spend("call")
  /\ user = NoUser
  /\ CleanQueue
  /\ user' = u
  /\ logining' = TRUE
  /\ BeginCall(NewContext("LOGIN", u, {}, FALSE))
  /\ UNCHANGED groups

(* Login empties the queue before it finds that it returns                 *)
(* PS_RET_ALREADY_LOGIN, or that it cannot encode the packet.              *)
LoginRejected ==
  /\ api.pc = "idle"
  /\ \/ user # NoUser /\ Spend("call")
     \/ user = NoUser /\ Spend("codec")
  /\ sendQ # <<>>
  /\ CleanQueue
  /\ UNCHANGED <<session, calls, events, api, net, timer, srv,
                 up, wire, inbox>>

Logout ==
  /\ api.pc = "idle"
  /\ Spend("call")
  /\ user # NoUser
  /\ groups' = {}
  /\ user' = NoUser
  /\ BeginCall(NewContext("LOGOUT", NoUser, {}, FALSE))
  /\ UNCHANGED <<logining, sendQ>>

JoinGroup(g) ==
  /\ api.pc = "idle"
  /\ Spend("call")
  /\ user # NoUser
  /\ g \notin groups
  /\ groups' = groups \cup {g}
  /\ BeginCall(NewContext("JOIN_GROUP", NoUser, {g}, FALSE))
  /\ UNCHANGED <<user, logining, sendQ>>

LeaveGroup(g) ==
  /\ api.pc = "idle"
  /\ Spend("call")
  /\ user # NoUser
  /\ g \in groups
  /\ groups' = groups \ {g}
  /\ BeginCall(NewContext("LEAVE_GROUP", NoUser, {g}, FALSE))
  /\ UNCHANGED <<user, logining, sendQ>>

(* call_sync, outside user_mux_: first the table, ... *)
CallRegister ==
  /\ api.pc = "register"
  /\ cbMap' = cbMap \cup {api.ts}
  /\ api' = [api EXCEPT !.pc = "send"]
  /\ UNCHANGED <<session, clock, ctx, link, events, net, timer, srv, budget>>

(* ... then the queue, ... *)
CallSend ==
  /\ api.pc = "send"
  /\ Send(CallPacket(api.ts))
  /\ api' = [api EXCEPT !.pc = "wait"]
  /\ UNCHANGED <<session, calls, up, wire, inbox, events, net, timer, srv,
                 budget>>

(* ... then the wait.  wait_for is called without a predicate. *)
CallReturn ==
  /\ api.pc = "wait"
  /\ ctx[api.ts].done \/ EarlyWake
  /\ api' = [api EXCEPT !.pc = "idle", !.ret = ctx[api.ts].res]
  /\ UNCHANGED <<session, calls, link, events, net, timer, srv, budget>>

ApiCall ==
  \/ \E u \in Users : Login(u)
  \/ LoginRejected
  \/ Logout
  \/ \E g \in Groups : JoinGroup(g) \/ LeaveGroup(g)

ApiStep == CallRegister \/ CallSend \/ CallReturn

-----------------------------------------------------------------------------
(* The client loop's thread.  Reading an event flushes the queue first     *)
(* (client.cpp), then OnConnected or OnMessage runs to its end.            *)

OnConnected ==
  /\ net.pc = "idle"
  /\ Connect
  /\ Relogin(FALSE)
  /\ UNCHANGED <<groups, wire, inbox, api, net, timer, srv>>

(* A TIMEOUT event of the completion queue: nothing but the flush. *)
Flush ==
  /\ net.pc = "idle"
  /\ up /\ sendQ # <<>>
  /\ SendAllMsgs
  /\ UNCHANGED <<session, calls, up, inbox, events, api, net, timer, srv,
                 budget>>

Receive(type, out) ==
  /\ net.pc = "idle"
  /\ Read(out)
  /\ Head(inbox).type = type
  /\ UNCHANGED <<up, api, timer, srv>>

Expected(ts) == ts # 0 /\ ts \in cbMap

(* handle_response up to the end of its critical section of cb_map_mux_. *)
RecvAnswer ==
  /\ Receive("ANSWER", <<>>)
  /\ LET m == Head(inbox) IN
       IF Expected(m.ts)
       THEN /\ cbMap' = cbMap \ {m.ts}
            /\ ctx' = [ctx EXCEPT ![m.ts].answer =
                                    IF m.ok THEN "OK" ELSE "FAILED"]
            /\ net' = [pc |-> IF ctx[m.ts].kind = "LOGIN"
                              THEN "clear" ELSE "apply",
                       ts |-> m.ts, ok |-> m.ok]
       ELSE UNCHANGED <<cbMap, ctx, net>>
  /\ UNCHANGED <<session, clock, events, budget>>

(* An answer that does not parse leaves the call to its timeout. *)
RecvGarbled ==
  /\ Receive("ANSWER", <<>>)
  /\ Spend("garble")
  /\ Emit("INNER_ERR", "RES_DEC_FAILED")
  /\ UNCHANGED <<session, calls, net>>

(* logining_ = false, outside user_mux_. *)
ClearLogining ==
  /\ net.pc = "clear"
  /\ logining' = FALSE
  /\ net' = [net EXCEPT !.pc = "apply"]
  /\ UNCHANGED <<user, groups, calls, link, events, api, timer, srv, budget>>

Applying(kind, ok) ==
  /\ net.pc = "apply"
  /\ ctx[net.ts].kind = kind
  /\ net.ok = ok
  /\ net' = [net EXCEPT !.pc = "notify"]
  /\ UNCHANGED <<api, timer, srv, up, wire, inbox>>

(* Mutant: a refused login clears the user and not the groups. *)
LoginFailedKeepsGroups ==
  /\ Applying("LOGIN", FALSE)
  /\ user' = NoUser
  /\ UNCHANGED <<groups, logining, calls, sendQ, events, budget>>

(* handle_failed_response<LoginResponse> *)
LoginFailed ==
  /\ Applying("LOGIN", FALSE)
  /\ user' = NoUser
  /\ groups' = {}
  /\ UNCHANGED <<logining, calls, sendQ, events, budget>>

(* Mutant: a relogin is not followed by a rejoin. *)
LoginSucceededAlone ==
  /\ Applying("LOGIN", TRUE)
  /\ UNCHANGED <<session, calls, sendQ, events, budget>>

(* handle_success_response<LoginResponse> *)
LoginSucceeded ==
  /\ Applying("LOGIN", TRUE)
  /\ IF ctx[net.ts].retry
     THEN RejoinGroup
     ELSE UNCHANGED <<groups, calls, sendQ, events, budget>>
  /\ UNCHANGED <<user, logining>>

(* handle_failed_response<JoinGroupResponse>: the context of a rejoin has  *)
(* gtype = gid = 0, and so may have that of a JoinGroup.                   *)
JoinGroupFailed ==
  /\ Applying("JOIN_GROUP", FALSE)
  /\ LET c == ctx[net.ts] IN
       groups' = IF c.retry \/ c.groups \cap ZeroGroups # {}
                 THEN {} ELSE groups \ c.groups
  /\ UNCHANGED <<user, logining, calls, sendQ, events, budget>>

(* The other outcomes are only logged before notify. *)
NothingToApply ==
  /\ \/ Applying("JOIN_GROUP", TRUE)
     \/ \E kind \in {"LOGOUT", "LEAVE_GROUP"}, ok \in BOOLEAN :
          Applying(kind, ok)
  /\ UNCHANGED <<session, calls, sendQ, events, budget>>

(* Mutant: a refusal returns before notify. *)
NetNotifySuccess ==
  /\ net.pc = "notify"
  /\ IF net.ok THEN Notify(net.ts, "OK") ELSE UNCHANGED <<ctx, events>>
  /\ net' = [net EXCEPT !.pc = "idle"]
  /\ UNCHANGED <<session, clock, cbMap, link, api, timer, srv, budget>>

NetNotify ==
  /\ net.pc = "notify"
  /\ Notify(net.ts, IF net.ok THEN "OK" ELSE "FAILED")
  /\ net' = [net EXCEPT !.pc = "idle"]
  /\ UNCHANGED <<session, clock, cbMap, link, api, timer, srv, budget>>

(* handle_notify_to_close *)
RecvKick ==
  /\ Receive("KICK", <<>>)
  /\ IF user = NoUser
     THEN UNCHANGED <<user, groups, events>>
     ELSE /\ user' = NoUser
          /\ groups' = {}
          /\ Emit("LOGIN", "KICKED")
  /\ UNCHANGED <<logining, calls, net, budget>>

(* Mutant: groups_ is not consulted before the group is left. *)
RecvGroupMsgLeaves ==
  /\ Receive("GROUP_MSG",
             <<Packet("LEAVE_GROUP", NoUser, {Head(inbox).group}, 0)>>)
  /\ UNCHANGED <<session, calls, events, net, budget>>

(* handle_group_message: a group the client has left is left again, with   *)
(* timestamp 0, under user_mux_.                                           *)
RecvGroupMsg ==
  /\ LET g == Head(inbox).group IN
       Receive("GROUP_MSG",
               IF g \in groups
               THEN <<>>
               ELSE <<Packet("LEAVE_GROUP", NoUser, {g}, 0)>>)
  /\ UNCHANGED <<session, calls, events, net, budget>>

(* handle_user_message, likewise. *)
RecvUserMsg ==
  /\ Receive("USER_MSG",
             IF user # NoUser
             THEN <<>>
             ELSE <<Packet("LOGOUT", NoUser, {}, 0)>>)
  /\ UNCHANGED <<session, calls, events, net, budget>>

NetStep ==
  \/ Flush
  \/ RecvAnswer \/ RecvGarbled \/ RecvKick \/ RecvGroupMsg \/ RecvUserMsg
  \/ ClearLogining
  \/ LoginFailed \/ LoginSucceeded \/ JoinGroupFailed \/ NothingToApply
  \/ NetNotify

-----------------------------------------------------------------------------
(* The timer thread.  It walks cb_map_ oldest entry first and without      *)
(* cb_map_mux_, so the net thread may take the entry it works on.          *)

Queued(ts) == \E i \in DOMAIN sendQ : sendQ[i].ts = ts
InFlight(ts) ==
  \/ Queued(ts)
  \/ \E i \in DOMAIN wire : wire[i].ts = ts
  \/ \E i \in DOMAIN inbox : inbox[i].type = "ANSWER" /\ inbox[i].ts = ts

(* A thread of the SDK does not run for three seconds. *)
Stalled(ts) ==
  \/ up /\ Queued(ts)
  \/ api.pc = "send" /\ api.ts = ts

(* Three seconds pass.  A synchronous call may run out of time whenever it *)
(* is the oldest; a retry does when nothing is on its way any more, and    *)
(* otherwise at the expense of the budget, because it issues another.      *)
Expire(ts) ==
  CASE Stalled(ts) -> Spend("stall")
    [] ~Stalled(ts) /\ ctx[ts].retry /\ InFlight(ts) -> Spend("slow")
    [] OTHER -> UNCHANGED budget

TimerScan ==
  /\ timer.pc = "idle"
  /\ \E ts \in cbMap :
       /\ \A other \in cbMap : ts <= other
       /\ Expire(ts)
       /\ timer' = [pc |-> "handle", ts |-> ts]
  /\ UNCHANGED <<session, calls, link, events, api, net, srv>>

TimerHandle(kind, retry) ==
  /\ timer.pc = "handle"
  /\ ctx[timer.ts].kind = kind
  /\ ctx[timer.ts].retry = retry
  /\ timer' = [timer EXCEPT !.pc = "notify"]
  /\ UNCHANGED <<api, net, srv, up, wire, inbox>>

(* Mutant: a timed-out relogin meets the guard of logining_. *)
ReloginTimeoutGuarded ==
  /\ TimerHandle("LOGIN", TRUE)
  /\ Relogin(FALSE)
  /\ UNCHANGED groups

(* Mutant: a timed-out relogin is given up. *)
ReloginTimeoutGivesUp ==
  /\ TimerHandle("LOGIN", TRUE)
  /\ logining' = FALSE
  /\ UNCHANGED <<user, groups, calls, sendQ, events, budget>>

(* handle_timeout_response: the SDK's own requests are sent again. *)
ReloginTimeout ==
  /\ TimerHandle("LOGIN", TRUE)
  /\ Relogin(TRUE)
  /\ UNCHANGED groups

RejoinTimeout ==
  /\ TimerHandle("JOIN_GROUP", TRUE)
  /\ RejoinGroup
  /\ UNCHANGED <<user, logining>>

(* Mutant: a timed-out call of the application's is erased at once. *)
CallTimeoutErases ==
  /\ timer.pc = "handle"
  /\ ~ctx[timer.ts].retry
  /\ timer' = [timer EXCEPT !.pc = "erase"]
  /\ UNCHANGED <<session, calls, link, events, api, net, srv, budget>>

(* The application's are not, and leave every piece of state alone. *)
CallTimeout ==
  /\ \E kind \in Kinds : TimerHandle(kind, FALSE)
  /\ UNCHANGED <<session, calls, sendQ, events, budget>>

TimerNotify ==
  /\ timer.pc = "notify"
  /\ Notify(timer.ts, "TIMEOUT")
  /\ timer' = [timer EXCEPT !.pc = "erase"]
  /\ UNCHANGED <<session, clock, cbMap, link, api, net, srv, budget>>

(* cb_map_.erase(it).  Undefined when the entry is gone; the outcome in    *)
(* which nothing else is damaged is the one that lets the program go on.   *)
TimerErase ==
  /\ timer.pc = "erase"
  /\ cbMap' = cbMap \ {timer.ts}
  /\ timer' = [timer EXCEPT !.pc = "idle"]
  /\ UNCHANGED <<session, clock, ctx, link, events, api, net, srv, budget>>

TimerStep ==
  \/ TimerScan
  \/ ReloginTimeout \/ RejoinTimeout \/ CallTimeout
  \/ TimerNotify
  \/ TimerErase

(* The event thread hands the oldest event to the application. *)
DeliverEvent ==
  /\ events # <<>>
  /\ events' = Tail(events)
  /\ UNCHANGED <<session, calls, link, api, net, timer, srv, budget>>

-----------------------------------------------------------------------------
(* The gateway and the network (external). *)

Outside == UNCHANGED <<session, calls, sendQ, events, api, net, timer>>

Serve(ok) ==
  /\ wire # <<>>
  /\ wire' = Tail(wire)
  /\ inbox' = Append(inbox, Answer(Head(wire).ts, ok))
  /\ UNCHANGED up
  /\ Outside

ServeLogin ==
  /\ Serve(TRUE)
  /\ Head(wire).kind = "LOGIN"
  /\ \E kept \in {{}, srv.groups} :
       srv' = [user |-> Head(wire).user, groups |-> kept]
  /\ UNCHANGED budget

ServeLogout ==
  /\ Serve(TRUE)
  /\ Head(wire).kind = "LOGOUT"
  /\ srv' = [user |-> NoUser, groups |-> {}]
  /\ UNCHANGED budget

ServeJoinGroup ==
  /\ Serve(srv.user # NoUser)
  /\ Head(wire).kind = "JOIN_GROUP"
  /\ srv' = IF srv.user = NoUser THEN srv
            ELSE [srv EXCEPT !.groups = @ \cup Head(wire).groups]
  /\ UNCHANGED budget

ServeLeaveGroup ==
  /\ Serve(srv.user # NoUser)
  /\ Head(wire).kind = "LEAVE_GROUP"
  /\ srv' = [srv EXCEPT !.groups = @ \ Head(wire).groups]
  /\ UNCHANGED budget

ServeRefusal ==
  /\ Serve(FALSE)
  /\ Spend("refuse")
  /\ UNCHANGED srv

PushToClient(m) ==
  /\ up
  /\ srv.user # NoUser
  /\ inbox' = Append(inbox, m)
  /\ UNCHANGED <<up, wire>>
  /\ Outside

KickUser ==
  /\ PushToClient(Push("KICK", NoGroup))
  /\ Spend("kick")
  /\ srv' = [user |-> NoUser, groups |-> {}]

PushUserMsg ==
  /\ PushToClient(Push("USER_MSG", NoGroup))
  /\ Spend("push")
  /\ UNCHANGED srv

PushGroupMsg ==
  /\ \E g \in srv.groups : PushToClient(Push("GROUP_MSG", g))
  /\ Spend("push")
  /\ UNCHANGED srv

(* The stream breaks; the gateway may or may not notice at once. *)
LinkDown ==
  /\ Disconnect
  /\ Spend("drop")
  /\ srv' \in {srv, [user |-> NoUser, groups |-> {}]}
  /\ Outside

ServerStep ==
  ServeLogin \/ ServeLogout \/ ServeJoinGroup \/ ServeLeaveGroup

Environment ==
  \/ ServeRefusal
  \/ KickUser \/ PushUserMsg \/ PushGroupMsg
  \/ LinkDown

-----------------------------------------------------------------------------
Next ==
  \/ ApiCall \/ ApiStep
  \/ OnConnected \/ NetStep
  \/ TimerStep
  \/ DeliverEvent
  \/ ServerStep \/ Environment

(* The threads run, a lost stream is replaced and the gateway serves.  The *)
(* application need not call, and nothing need fail.                       *)
Fairness ==
  /\ WF_vars(ApiStep)
  /\ WF_vars(OnConnected)
  /\ WF_vars(NetStep)
  /\ WF_vars(TimerStep)
  /\ WF_vars(DeliverEvent)
  /\ WF_vars(ServerStep)

Spec == Init /\ [][Next]_vars
FairSpec == Spec /\ Fairness

-----------------------------------------------------------------------------
(* Safety. *)

Waiting == api.pc \in {"send", "wait"}
Handling(ts) == net.pc # "idle" /\ net.ts = ts
Registering(ts) == api.pc = "register" /\ api.ts = ts

(* A caller that waits in call_sync has been woken, or someone will still  *)
(* wake it: its call is in cb_map_, where the timer finds it, or the net   *)
(* thread has taken it out and has yet to notify it.                       *)
NoOrphanedCaller ==
  Waiting => \/ ctx[api.ts].done
             \/ api.ts \in cbMap
             \/ Handling(api.ts)

(* Only a failed encoding in relogin, which clears user_ and not groups_,  *)
(* leaves groups behind without a user.  (Scenarios with fewer such faults *)
(* than Codec are exempt.)                                                 *)
GroupsImplyUser ==
  groups # {} => user # NoUser \/ budget["codec"] < Codec

(* A synchronous call returns PS_RET_SUCCESS or PS_RET_CALL_FAILED only if *)
(* the gateway answered this very call so.                                 *)
ReturnIsJustified ==
  api.pc = "idle" /\ api.ret \in {"OK", "FAILED"} =>
    ctx[api.ts].answer = api.ret

(* While a user is set, logining_ is true only if the answer to some login *)
(* can still clear it, or a login of the application timed out: then       *)
(* nothing in the SDK will.                                                *)
LoginTimedOut ==
  \E ts \in Ts :
    ctx[ts].kind = "LOGIN" /\ ~ctx[ts].retry /\ ctx[ts].res = "TIMEOUT"
LoginPending ==
  \E ts \in Ts :
    /\ ctx[ts].kind = "LOGIN"
    /\ \/ ts \in cbMap
       \/ Registering(ts)
       \/ net.pc = "clear" /\ net.ts = ts
LoginingIsTracked ==
  logining /\ user # NoUser => LoginPending \/ LoginTimedOut

(* What the client still has under way to the gateway ends with what the   *)
(* client wants: no LOGOUT is the last word on a user that is logged in,   *)
(* no LEAVE_GROUP on a group that is joined.  The resent packets of        *)
(* timestamp 0 make this a matter of which thread sends first.  It is not  *)
(* so once such a call has timed out: its packet may still be queued, and  *)
(* the next Login, though rejected, empties the queue.                     *)
Unsent(kind, gs) ==
  /\ api.pc \in {"register", "send"}
  /\ ctx[api.ts].kind = kind
  /\ gs \subseteq ctx[api.ts].groups
LastWord(no, yes, gs) ==
  LET out == wire \o sendQ
      Says(i, kind) == out[i].kind = kind /\ gs \subseteq out[i].groups
  IN \A i \in DOMAIN out :
       Says(i, no) => \E j \in DOMAIN out : j > i /\ Says(j, yes)
GivenUp(kind, gs) ==
  \E ts \in Ts :
    /\ ctx[ts].kind = kind /\ ctx[ts].res = "TIMEOUT"
    /\ gs \subseteq ctx[ts].groups
NoRetractionAfterRequest ==
  /\ user # NoUser /\ ~Unsent("LOGIN", {}) /\ ~GivenUp("LOGIN", {})
       => LastWord("LOGOUT", "LOGIN", {})
  /\ \A g \in groups :
       ~Unsent("JOIN_GROUP", {g}) /\ ~GivenUp("JOIN_GROUP", {g})
         => LastWord("LEAVE_GROUP", "JOIN_GROUP", {g})

(* The timer's iterator points at an entry of cb_map_ when it is erased.   *)
IteratorStaysValid == timer.pc # "idle" => timer.ts \in cbMap

(* A refused relogin clears the login information it was sent for, not     *)
(* that of a login the application has made since.                         *)
FailedReloginClearsOnlyItself ==
  [][LoginFailed /\ ctx[net.ts].retry /\ user # NoUser
       => user = ctx[net.ts].user]_vars

(* Liveness. *)

(* Every synchronous call returns. *)
CallReturns == Waiting ~> api.pc = "idle"

(* Once the faults are spent, and without refusals, the gateway serves the *)
(* user and the groups the client believes in: a refusal that comes after  *)
(* its call has timed out is ignored, and the client believes on.          *)
Synced == srv.user = user /\ groups \subseteq srv.groups
Wedged == logining /\ ~LoginPending
SessionRecovers == <>[](user # NoUser /\ ~Wedged => Synced)
SessionAlwaysRecovers == <>[](user # NoUser => Synced)
=============================================================================
