----------------------------- MODULE Lifecycle ------------------------------
(*****************************************************************************)
(* PushSDKInitialize and PushSDKDestroy against the threads they start and   *)
(* stop: the event thread that calls the global callback, the timer thread,  *)
(* and the client loop, which calls the handlers' callbacks.  A callback may *)
(* itself make a synchronous call.  The calls' effects on the session are    *)
(* Session's; here a call is an entry of cb_map_ and someone who waits.      *)
(*****************************************************************************)
EXTENDS Handlers

CONSTANTS
  Linux,      \* the build is Linux's: its loggers are others (config.h)
  MaxInits,   \* bound on the successful initialisations
  MaxCalls,   \* bound on the synchronous calls
  MaxEvents   \* bound on the events emitted

ASSUME BuildAssumption == Linux \in BOOLEAN
ASSUME LifecycleBounds ==
  MaxInits \in Nat /\ MaxCalls \in Nat /\ MaxEvents \in Nat

VARIABLES
  initialized,    \* _initialized
  logInitialized, \* _log_initialized
  registered,     \* the loggers spdlog has a name for
  unopened,       \* history: when a log file could last not be opened
  initRet,        \* history: what the last PushSDKInitialize returned
  inits,          \* history: how many have started the client
  init,           \* init_
  client,         \* client_ is not null
  quit,           \* the quit flags of the event, timer and loop threads
  app,            \* the step of Initialize or Destroy that comes next
  event, timer, loop, \* where the SDK's threads are, "none" when joined
  events,         \* event_cb_pctxs_
  taken,          \* temp_pctxs of the event thread
  signalled,      \* the event thread, in its wait, has been notified
  emitted,        \* history: how many events there have been
  cbMap,          \* cb_map_: who made each call, "retry" for the SDK's own,
                  \* "left" for any whose caller has stopped waiting
  call,           \* what each caller is doing
  ctx,            \* the CallContext of each caller's last call
  mux,            \* who holds _mux
  calls,          \* history: how many calls there have been
  user            \* user_ is not null

logVars == <<registered, unopened>>
apiVars == <<initialized, logInitialized, logVars, initRet, inits>>
sdkVars == <<init, client, quit, app>>
queueVars == <<events, taken, signalled, emitted>>
callVars == <<cbMap, call, ctx, mux, calls, user>>
vars == <<apiVars, sdkVars, event, timer, loop, queueVars, callVars, hdlVars>>

Callers == {"event", "loop"}
Entries == Callers \cup {"retry", "left"}

NewContext == [res |-> "OK", answer |-> "none", done |-> FALSE]

Init ==
  /\ HandlersInit
  /\ initialized = FALSE /\ logInitialized = FALSE
  /\ registered = {} /\ unopened = "never"
  /\ initRet = "none" /\ inits = 0
  /\ init = FALSE /\ client = FALSE
  /\ quit = [event |-> TRUE, timer |-> TRUE, loop |-> TRUE] /\ app = "idle"
  /\ event = "none" /\ timer = "none" /\ loop = "none"
  /\ events = <<>> /\ taken = <<>> /\ signalled = FALSE /\ emitted = 0
  /\ cbMap = {} /\ call = [t \in Callers |-> "no"]
  /\ ctx = [t \in Callers |-> NewContext] /\ mux = "free" /\ calls = 0
  /\ user = FALSE

-----------------------------------------------------------------------------
(* init_logger: on Linux the sdk logs on the console before its file and     *)
(* grpc has a file too; elsewhere the sdk's file is all.  A file may fail to *)
(* open, and spdlog refuses a name that it has already: those registered     *)
(* before a failure stay, and the first is refused before any file is tried. *)
Loggers == IF Linux THEN {"console", "sdk", "grpc"} ELSE {"sdk"}
BeforeAFailure ==
  IF Linux THEN {{"console"}, {"console", "sdk"}} ELSE {{}}

FilesOpen == unopened' = IF unopened = "now" THEN "before" ELSE unopened
InitLogger(ok) ==
  \/ ok /\ registered = {} /\ registered' = Loggers /\ FilesOpen
  \/ ~ok /\ registered = {} /\ registered' \in BeforeAFailure
     /\ unopened' = "now"
  \/ ~ok /\ registered # {} /\ UNCHANGED registered /\ FilesOpen

LoggerReadyAgain(ok) == InitLogger(ok)
LoggerReady(ok) ==
  IF logInitialized THEN ok /\ UNCHANGED logVars
  ELSE InitLogger(ok)

InitializeFails ==
  /\ app = "idle" /\ ~initialized
  /\ \/ LoggerReady(FALSE) /\ initRet' = "INIT_LOG_FAILED"
        /\ UNCHANGED logInitialized
     \/ LoggerReady(TRUE) /\ initRet' = "CB_IS_NULL"
        /\ logInitialized' = TRUE
  /\ UNCHANGED <<initialized, inits, sdkVars, event, timer, loop, queueVars,
                 callVars, hdlVars>>

(* The client first, with its loop; then the timer, then the event thread. *)
InitializeClient ==
  /\ app = "idle" /\ ~initialized /\ ~init /\ inits < MaxInits
  /\ LoggerReady(TRUE) /\ logInitialized' = TRUE
  /\ inits' = inits + 1 /\ initRet' = "none"
  /\ client' = TRUE /\ loop' = "run" /\ quit' = [quit EXCEPT !.loop = FALSE]
  /\ app' = "timer"
  /\ UNCHANGED <<initialized, init, event, timer, queueVars, callVars,
                 hdlVars>>
InitializeTimer ==
  /\ app = "timer"
  /\ timer' = "wait" /\ quit' = [quit EXCEPT !.timer = FALSE]
  /\ app' = "event"
  /\ UNCHANGED <<apiVars, init, client, event, loop, queueVars, callVars,
                 hdlVars>>
InitializeEvent ==
  /\ app = "event"
  /\ event' = "top" /\ quit' = [quit EXCEPT !.event = FALSE]
  /\ init' = TRUE /\ app' = "success"
  /\ UNCHANGED <<apiVars, client, timer, loop, queueVars, callVars, hdlVars>>
InitializeSucceeds ==
  /\ app = "success"
  /\ initialized' = TRUE /\ initRet' = "SUCCESS" /\ app' = "idle"
  /\ UNCHANGED <<logInitialized, logVars, inits, init, client,
                 quit, event, timer, loop, queueVars, callVars, hdlVars>>

-----------------------------------------------------------------------------
(* The steps of PushSDK::Destroy, in its order. *)
TimerFirst == <<"stopTimer", "joinTimer", "stopEvent", "joinEvent",
                "clearEvents", "stopLoop", "joinLoop", "reset", "idle">>
NothingCleared == <<"stopEvent", "joinEvent", "stopTimer", "joinTimer",
                    "stopLoop", "joinLoop", "reset", "idle">>
LoopNotJoined == <<"stopEvent", "joinEvent", "stopTimer", "joinTimer",
                   "clearEvents", "stopLoop", "reset", "idle">>
DestroySteps == <<"stopEvent", "joinEvent", "stopTimer", "joinTimer",
                  "clearEvents", "stopLoop", "joinLoop", "reset", "idle">>

At(step) ==
  /\ app = step
  /\ \E i \in 1..(Len(DestroySteps) - 1) :
       DestroySteps[i] = step /\ app' = DestroySteps[i + 1]

Destroy ==
  /\ app = "idle" /\ initialized /\ init
  /\ app' = DestroySteps[1]
  /\ UNCHANGED <<apiVars, init, client, quit, event, timer, loop, queueVars,
                 callVars, hdlVars>>

StopEvent ==
  /\ At("stopEvent")
  /\ quit' = [quit EXCEPT !.event = TRUE]
  /\ signalled' = (signalled \/ event = "wait")
  /\ UNCHANGED <<apiVars, init, client, event, timer, loop, events, taken,
                 emitted, callVars, hdlVars>>
JoinEvent ==
  /\ event = "exit" /\ At("joinEvent")
  /\ event' = "none"
  /\ UNCHANGED <<apiVars, init, client, quit, timer, loop, queueVars,
                 callVars, hdlVars>>
StopTimer ==
  /\ At("stopTimer")
  /\ quit' = [quit EXCEPT !.timer = TRUE]
  /\ UNCHANGED <<apiVars, init, client, event, timer, loop, queueVars,
                 callVars, hdlVars>>
JoinTimer ==
  /\ timer = "exit" /\ At("joinTimer")
  /\ timer' = "none"
  /\ UNCHANGED <<apiVars, init, client, quit, event, loop, queueVars,
                 callVars, hdlVars>>
ClearEvents ==
  /\ At("clearEvents")
  /\ events' = <<>>
  /\ UNCHANGED <<apiVars, init, client, quit, event, timer, loop, taken,
                 signalled, emitted, callVars, hdlVars>>
(* Client::Destroy needs stream_mux_, which the loop holds while it calls    *)
(* the handlers with a message.                                              *)
StopLoop ==
  /\ walk.kind # "msg" /\ At("stopLoop")
  /\ quit' = [quit EXCEPT !.loop = TRUE]
  /\ UNCHANGED <<apiVars, init, client, event, timer, loop, queueVars,
                 callVars, hdlVars>>
JoinLoop ==
  /\ loop = "exit" /\ At("joinLoop")
  /\ loop' = "none"
  /\ UNCHANGED <<apiVars, init, client, quit, event, timer, queueVars,
                 callVars, hdlVars>>
ResetKeepsCalls ==
  /\ At("reset")
  /\ client' = FALSE /\ init' = FALSE /\ initialized' = FALSE
  /\ user' = FALSE
  /\ UNCHANGED <<logInitialized, logVars, initRet, inits, quit, event,
                 timer, loop, queueVars, cbMap, call, ctx, mux, calls,
                 hdlVars>>
Reset ==
  /\ At("reset")
  /\ client' = FALSE /\ init' = FALSE /\ initialized' = FALSE
  /\ cbMap' = {} /\ user' = FALSE
  /\ UNCHANGED <<logInitialized, logVars, initRet, inits, quit,
                 event, timer, loop, queueVars, call, ctx, mux, calls,
                 hdlVars>>

App ==
  \/ InitializeTimer \/ InitializeEvent \/ InitializeSucceeds
  \/ StopEvent \/ JoinEvent \/ StopTimer \/ JoinTimer \/ ClearEvents
  \/ StopLoop \/ JoinLoop \/ Reset

-----------------------------------------------------------------------------
(* Under event_cb_mux_: an event is queued and the event thread notified.    *)
(* An event is late when Destroy has cleared the queue already.              *)
EmitUnnotified ==
  /\ emitted < MaxEvents
  /\ emitted' = emitted + 1
  /\ events' = Append(events,
       [id |-> emitted + 1, init |-> inits,
        late |-> app \in {"stopLoop", "joinLoop"}])
  /\ UNCHANGED <<taken, signalled>>
Emit ==
  /\ emitted < MaxEvents
  /\ emitted' = emitted + 1
  /\ events' = Append(events,
       [id |-> emitted + 1, init |-> inits,
        late |-> app \in {"stopLoop", "joinLoop"}])
  /\ signalled' = (signalled \/ event = "wait")
  /\ UNCHANGED taken

(* The event thread: while it is not to quit it swaps the queue out or       *)
(* waits, and then calls the global callback with each event it took.        *)
EventTop ==
  /\ event = "top"
  /\ event' = IF quit.event THEN "exit" ELSE "lock"
  /\ UNCHANGED <<apiVars, sdkVars, timer, loop, queueVars, callVars, hdlVars>>
EventLock ==
  /\ event = "lock"
  /\ IF events # <<>>
     THEN event' = "deliver" /\ taken' = events /\ events' = taken
     ELSE /\ event' = IF quit.event THEN "deliver" ELSE "wait"
          /\ UNCHANGED <<taken, events>>
  /\ UNCHANGED <<apiVars, sdkVars, timer, loop, signalled, emitted, callVars,
                 hdlVars>>
EventWake ==
  /\ event = "wait"
  /\ event' = "deliver" /\ signalled' = FALSE
  /\ UNCHANGED <<apiVars, sdkVars, timer, loop, events, taken, emitted,
                 callVars, hdlVars>>
EventDeliver ==
  /\ event = "deliver"
  /\ event' = IF taken = <<>> THEN "top" ELSE "callback"
  /\ UNCHANGED <<apiVars, sdkVars, timer, loop, queueVars, callVars, hdlVars>>
EventReturn ==
  /\ event = "callback" /\ call["event"] = "no"
  /\ event' = "deliver" /\ taken' = Tail(taken)
  /\ UNCHANGED <<apiVars, sdkVars, timer, loop, events, signalled, emitted,
                 callVars, hdlVars>>
EventThread ==
  EventTop \/ EventLock \/ EventDeliver \/ EventReturn
  \/ (signalled /\ EventWake)

-----------------------------------------------------------------------------
(* A synchronous call by a callback: it waits for _mux, is registered, sent, *)
(* and waited for.  What it does to the session is that there is a user.     *)
InCallback(t) ==
  \/ t = "event" /\ event = "callback"
  \/ t = "loop" /\ walk.calling # NoHandler

Call(t) ==
  /\ InCallback(t) /\ call[t] = "no"
  /\ calls < MaxCalls /\ calls' = calls + 1
  /\ call' = [call EXCEPT ![t] = "lock"]
  /\ UNCHANGED <<apiVars, sdkVars, event, timer, loop, queueVars, cbMap, ctx,
                 mux, user, hdlVars>>
LockAndRegisterUnlocked(t) ==
  /\ call[t] = "lock" /\ initialized
  /\ mux' = t /\ call' = [call EXCEPT ![t] = "send"]
  /\ cbMap' = cbMap \cup {t} /\ ctx' = [ctx EXCEPT ![t] = NewContext]
  /\ user' = TRUE
  /\ UNCHANGED <<apiVars, sdkVars, event, timer, loop, queueVars, calls,
                 hdlVars>>
LockAndRegister(t) ==
  /\ call[t] = "lock" /\ mux = "free"
  /\ IF initialized
     THEN /\ mux' = t /\ call' = [call EXCEPT ![t] = "send"]
          /\ cbMap' = cbMap \cup {t} /\ ctx' = [ctx EXCEPT ![t] = NewContext]
          /\ user' = TRUE
     ELSE /\ call' = [call EXCEPT ![t] = "no"]
          /\ UNCHANGED <<mux, cbMap, ctx, user>>
  /\ UNCHANGED <<apiVars, sdkVars, event, timer, loop, queueVars, calls,
                 hdlVars>>
SendCall(t) ==
  /\ call[t] = "send" /\ call' = [call EXCEPT ![t] = "wait"]
  /\ UNCHANGED <<apiVars, sdkVars, event, timer, loop, queueVars, cbMap, ctx,
                 mux, calls, user, hdlVars>>

(* The wait of call_sync ends when the context is notified.  Its own time is *)
(* twice that after which the timer thread notifies, so that it runs out by  *)
(* itself when there is no timer thread.  While there is one it may end too, *)
(* as it has no predicate: spuriously, or with a timer thread that is late.  *)
(* What it leaves in cb_map_ is answered or expires with nobody behind it.   *)
EndOfWait(t) ==
  /\ call[t] = "wait" /\ call' = [call EXCEPT ![t] = "no"] /\ mux' = "free"
  /\ ctx' = [ctx EXCEPT ![t] = NewContext]
  /\ cbMap' = {IF e = t THEN "left" ELSE e : e \in cbMap}
  /\ UNCHANGED <<apiVars, sdkVars, event, timer, loop, queueVars, calls, user,
                 hdlVars>>
TimerThere == timer \notin {"none", "exit"}
WaitForAnswer(t) == ctx[t].done /\ EndOfWait(t)
Return(t) == (ctx[t].done \/ ~TimerThere) /\ EndOfWait(t)
WakeEarly(t) == ~ctx[t].done /\ TimerThere /\ EndOfWait(t)
CallStep(t) == LockAndRegister(t) \/ SendCall(t) \/ Return(t)

-----------------------------------------------------------------------------
(* A caller is notified of a result; what became of the SDK's own request is *)
(* an event; a context that was left is nobody's.                            *)
NotifyCaller(t, res, answer) ==
  /\ t \in Callers
  /\ ctx' = [ctx EXCEPT ![t] = [res |-> res, answer |-> answer,
                                done |-> TRUE]]
  /\ UNCHANGED queueVars
Notify(t, res, answer) ==
  \/ NotifyCaller(t, res, answer)
  \/ t = "retry" /\ Emit /\ UNCHANGED ctx
  \/ t = "left" /\ UNCHANGED <<ctx, queueVars>>

(* "left" stands for any number of entries. *)
TakeEntry(t) ==
  /\ t \in cbMap
  /\ cbMap' \in {cbMap \ {t}} \cup (IF t = "left" THEN {cbMap} ELSE {})

TimerTick ==
  /\ timer = "wait"
  /\ timer' = IF quit.timer THEN "exit" ELSE "scan"
  /\ UNCHANGED <<apiVars, sdkVars, event, loop, queueVars, callVars, hdlVars>>
(* A login of the SDK's own that timed out is sent again. *)
TimerExpire(t) ==
  /\ timer = "scan" /\ Notify(t, "TIMEOUT", "none")
  /\ IF t = "retry" /\ user THEN t \in cbMap /\ UNCHANGED cbMap
     ELSE TakeEntry(t)
  /\ UNCHANGED <<apiVars, sdkVars, event, timer, loop, call, mux, calls, user,
                 hdlVars>>
TimerRest ==
  /\ timer = "scan" /\ cbMap \cap Callers = {}
  /\ timer' = "wait"
  /\ UNCHANGED <<apiVars, sdkVars, event, loop, queueVars, callVars, hdlVars>>
TimerThread ==
  \/ TimerTick \/ TimerRest
  \/ \E t \in Entries : TimerExpire(t)

-----------------------------------------------------------------------------
LoopIsFree == loop = "run" /\ walk.kind = "none"

LoopAnswer(t, answer) ==
  /\ LoopIsFree /\ TakeEntry(t)
  /\ Notify(t, answer, answer)
  /\ user' \in IF answer = "FAILED" THEN {user, FALSE} ELSE {user}
  /\ UNCHANGED <<apiVars, sdkVars, event, timer, loop, call, mux, calls,
                 hdlVars>>
(* A kick, or a packet that does not parse. *)
LoopEvent ==
  /\ LoopIsFree
  /\ Emit
  /\ user' \in {user, FALSE}
  /\ UNCHANGED <<apiVars, sdkVars, event, timer, loop, cbMap, call, ctx, mux,
                 calls, hdlVars>>
LoopConnected ==
  /\ LoopIsFree /\ user
  /\ cbMap' = cbMap \cup {"retry"}
  /\ UNCHANGED <<apiVars, sdkVars, event, timer, loop, queueVars, call, ctx,
                 mux, calls, user, hdlVars>>
LoopWalk(kind) ==
  /\ LoopIsFree /\ (kind = "msg" => user)
  /\ BeginWalk(kind)
  /\ UNCHANGED <<apiVars, sdkVars, event, timer, loop, queueVars, callVars>>
LoopWalks ==
  /\ call["loop"] = "no"
  /\ WalkCall \/ WalkReturn \/ EndWalk
  /\ UNCHANGED <<apiVars, sdkVars, event, timer, loop, queueVars, callVars>>
(* The half-closed stream has finished. *)
LoopQuit ==
  /\ LoopIsFree /\ quit.loop
  /\ loop' = "exit"
  /\ UNCHANGED <<apiVars, sdkVars, event, timer, queueVars, callVars, hdlVars>>
LoopThread ==
  \/ \E t \in Entries, a \in {"OK", "FAILED"} :
       LoopAnswer(t, a)
  \/ LoopEvent \/ LoopConnected \/ LoopWalks \/ LoopQuit
  \/ \E kind \in {"conn", "msg"} : LoopWalk(kind)

(* What Session is about: the application logs in between the two. *)
Login ==
  /\ app = "idle" /\ initialized /\ ~user
  /\ user' = TRUE
  /\ UNCHANGED <<apiVars, sdkVars, event, timer, loop, queueVars, cbMap, call,
                 ctx, mux, calls, hdlVars>>

Registering ==
  /\ Registry
  /\ UNCHANGED <<apiVars, sdkVars, event, timer, loop, queueVars, callVars>>

Next ==
  \/ InitializeFails \/ InitializeClient \/ Login \/ Destroy \/ App
  \/ EventThread \/ EventWake \/ TimerThread \/ LoopThread \/ Registering
  \/ \E t \in Callers : Call(t) \/ CallStep(t) \/ WakeEarly(t)

Spec == Init /\ [][Next]_vars

(* The threads run, notified waits end, callbacks return, and a half-closed  *)
(* stream finishes; nobody has to call anything.                             *)
Fairness ==
  /\ WF_vars(App) /\ WF_vars(EventThread) /\ WF_vars(TimerThread)
  /\ SF_vars(StopLoop) /\ SF_vars(LoopQuit) /\ WF_vars(LoopWalks)
  /\ WF_vars(\E t \in Callers : CallStep(t))
FairSpec == Spec /\ Fairness
-----------------------------------------------------------------------------
Pending == ToSet(events) \cup ToSet(taken)

TypeOK ==
  /\ HandlersTypeOK
  /\ {initialized, logInitialized, init, client, signalled, user}
       \subseteq BOOLEAN
  /\ registered \subseteq Loggers /\ unopened \in {"never", "before", "now"}
  /\ initRet \in {"none", "SUCCESS", "INIT_LOG_FAILED", "CB_IS_NULL"}
  /\ inits \in 0..MaxInits /\ calls \in 0..MaxCalls /\ emitted \in 0..MaxEvents
  /\ quit \in [event : BOOLEAN, timer : BOOLEAN, loop : BOOLEAN]
  /\ app \in {"timer", "event", "success"} \cup ToSet(DestroySteps)
  /\ event \in {"none", "top", "lock", "wait", "deliver", "callback", "exit"}
  /\ timer \in {"none", "wait", "scan", "exit"}
  /\ loop \in {"none", "run", "exit"}
  /\ \A q \in {events, taken} :
       q \in Seq([id : 1..emitted, init : 1..inits, late : BOOLEAN])
  /\ cbMap \subseteq Entries
  /\ call \in [Callers -> {"no", "lock", "send", "wait"}]
  /\ ctx \in [Callers -> [res : {"OK", "FAILED", "TIMEOUT"},
                          answer : {"none", "OK", "FAILED"}, done : BOOLEAN]]
  /\ mux \in Callers \cup {"free"}
  /\ \A t \in Callers : mux = t <=> call[t] \in {"send", "wait"}

(* When Destroy has returned nothing of the SDK runs or is left: no thread,  *)
(* no callback, no call, no user.                                            *)
DestroyLeavesNothing ==
  ~initialized /\ app = "idle" =>
    /\ event = "none" /\ timer = "none" /\ loop = "none" /\ taken = <<>>
    /\ walk.kind = "none" /\ \A t \in Callers : call[t] = "no"
    /\ ~client /\ cbMap = {} /\ ~user

(* Whoever sends finds client_: a caller that has yet to send, the timer     *)
(* thread that sends a timed-out login again, the loop that logs in.         *)
ClientIsThere ==
  \/ client
  \/ /\ \A t \in Callers : call[t] # "send"
     /\ timer # "scan" /\ loop # "run"

(* An application that initialises the SDK again is told of nothing that     *)
(* happened before, but for events of the client loop in the time between    *)
(* Destroy's clearing of the queue and its join.                             *)
OldEventsAreLate == \A e \in Pending : e.init = inits \/ e.late

(* PushSDKInitialize fails for its logs only because a log file could not be *)
(* opened: in this attempt, or on Linux, where the console's logger stays    *)
(* registered, in an earlier one.  Once the loggers are there neither        *)
(* Destroy nor an attempt that failed for another reason makes the next one  *)
(* fail.                                                                     *)
LogFailureHasCause ==
  initRet = "INIT_LOG_FAILED" =>
    unopened = "now" \/ (Linux /\ unopened = "before")

(* A synchronous call made by the global callback is told success only if    *)
(* the gateway answered so or its wait ended early, before the timer thread, *)
(* which is there, had notified it.  In particular no wait runs out because  *)
(* Destroy has ended the timer thread: it outlives the event thread.  A call *)
(* made by a handler's callback has no such promise.                         *)
WokenEarly(t) == ~ctx[t].done /\ TimerThere
CallbackCallIsTrue ==
  [][call["event"] = "wait" /\ call'["event"] = "no"
       /\ ctx["event"].res = "OK" =>
     ctx["event"].answer = "OK" \/ WokenEarly("event")]_vars

(* Destroy returns, whatever the callbacks call meanwhile. *)
DestroyReturns == app = "stopEvent" ~> app = "idle"

(* An event reaches the global callback unless the event thread is stopped. *)
EventsAreDelivered ==
  \A i \in 1..MaxEvents :
    (\E e \in Pending : e.id = i) ~>
      (\A e \in Pending : e.id # i) \/ quit.event
=============================================================================
