-------------------------- MODULE LifecycleProofs ---------------------------
(*****************************************************************************)
(* What Initialize and Destroy promise, for any handlers and any numbers of  *)
(* initialisations, calls and events.                                        *)
(*****************************************************************************)
EXTENDS Lifecycle, SequenceTheorems, TLAPS

(* The application is between Initialize and Destroy, or at the ends of them *)
(* where all the threads are there.                                          *)
Serving ==
  \/ app = "idle" /\ initialized
  \/ app \in {"success", "stopEvent", "joinEvent"}

(* Which threads there are at each step of Initialize and Destroy. *)
ThreadsInv ==
  /\ app \in {"idle", "timer", "event", "success", "stopEvent", "joinEvent",
              "stopTimer", "joinTimer", "clearEvents", "stopLoop", "joinLoop",
              "reset"}
  /\ initialized => app \notin {"timer", "event", "success"}
  /\ ~initialized => app \in {"idle", "timer", "event", "success"}
  /\ event # "none" <=> Serving
  /\ timer # "none" <=> Serving \/ app \in {"event", "stopTimer", "joinTimer"}
  /\ loop # "none" <=>
       \/ Serving
       \/ app \in {"timer", "event", "stopTimer", "joinTimer", "clearEvents",
                   "stopLoop", "joinLoop"}
  /\ client <=> loop # "none" \/ app = "reset"
  /\ timer = "exit" => quit.timer
  /\ quit.timer /\ timer # "none" => app = "joinTimer"
  /\ loop = "exit" => quit.loop
  /\ quit.loop /\ loop # "none" => app = "joinLoop"

(* A call is made in a callback, and a callback by a thread that runs. *)
CallsInv ==
  /\ loop \in {"none", "run", "exit"}
  /\ call \in [Callers -> {"no", "lock", "send", "wait"}]
  /\ call["event"] # "no" => event = "callback"
  /\ call["loop"] # "no" => walk.calling # NoHandler
  /\ walk.kind # "none" => loop = "run"
  /\ event \notin {"deliver", "callback"} => taken = <<>>
  /\ ~client => cbMap = {} /\ ~user
  /\ quit \in [event : BOOLEAN, timer : BOOLEAN, loop : BOOLEAN]

(* A context that says success says what the gateway answered. *)
AnswersInv ==
  /\ ctx \in [Callers -> [res : {"OK", "FAILED", "TIMEOUT"},
                          answer : {"none", "OK", "FAILED"}, done : BOOLEAN]]
  /\ \A t \in Callers :
       ctx[t].done /\ ctx[t].res = "OK" => ctx[t].answer = "OK"

(* The handlers' records are well formed, and a message's walk stands where  *)
(* the handler it calls is.                                                  *)
HandlersInv ==
  /\ HandlersTypeOK /\ walk.at >= 1
  /\ walk.calling # NoHandler => walk.kind # "none"
  /\ DestroyedHandlerIsQuiet

IInv == HandlersInv /\ ThreadsInv /\ CallsInv /\ AnswersInv

LEMMA RemoveAtFacts ==
  ASSUME NEW S, NEW s \in Seq(S), NEW i \in DOMAIN s
  PROVE  RemoveAt(s, i) \in Seq(S)
<1>1. i \in 1..Len(s) /\ Len(s) \in Nat
  OBVIOUS
<1>2. SubSeq(s, 1, i - 1) \in Seq(S) /\ SubSeq(s, i + 1, Len(s)) \in Seq(S)
  BY <1>1
<1> QED BY <1>2 DEF RemoveAt

LEMMA RegistryKeepsInv ==
  ASSUME HandlersInv, Registry
  PROVE  HandlersInv' /\ UNCHANGED walk
<1> USE DEF HandlersInv, HandlersTypeOK, DestroyedHandlerIsQuiet, HdlsLocked
<1>1. CASE \E h \in Handler : CreateHandler(h)
  BY <1>1 DEF CreateHandler
<1>2. CASE \E h \in Handler : DestroyHandler(h)
  <2>1. hdls' \in Seq(Handler)
    BY <1>2, RemoveAtFacts DEF DestroyHandler
  <2> QED BY <1>2, <2>1 DEF DestroyHandler
<1>3. CASE \E h \in Handler, kind \in {"conn", "msg"} :
             AddCBToHandler(h, kind)
  BY <1>3 DEF AddCBToHandler
<1> QED BY <1>1, <1>2, <1>3 DEF Registry

LEMMA WalksKeepInv ==
  ASSUME HandlersInv, WalkCall \/ WalkReturn \/ EndWalk
  PROVE  HandlersInv' /\ walk.kind # "none"
<1> USE DEF HandlersInv, HandlersTypeOK, DestroyedHandlerIsQuiet
<1>1. CASE WalkCall
  <2>1. walk.at \in DOMAIN hdls /\ hdls[walk.at] \in Handler
    BY <1>1 DEF WalkCall
  <2>2. hdls[walk.at] \in ToSet(hdls)
    BY <2>1 DEF ToSet
  <2> QED BY <1>1, <2>1, <2>2 DEF WalkCall
<1>2. CASE WalkReturn
  <2>1. /\ walk' \in [kind : {"none", "conn", "msg"}, at : Nat,
                       calling : Handler \cup {NoHandler}]
        /\ walk'.calling = NoHandler /\ walk'.at = walk.at + 1
        /\ walk'.kind = walk.kind
    <3>1. walk' = [kind |-> walk.kind, at |-> walk.at + 1,
                   calling |-> NoHandler]
      BY <1>2 DEF WalkReturn
    <3> QED BY <3>1
  <2>2. walk.kind # "none"
    BY <1>2 DEF WalkReturn
  <2> QED BY <1>2, <2>1, <2>2 DEF WalkReturn
<1>3. CASE EndWalk
  BY <1>3 DEF EndWalk, NoWalk
<1> QED BY <1>1, <1>2, <1>3

LEMMA Steps ==
  ASSUME NEW step, At(step)
  PROVE  /\ app = step
         /\ \/ step = "stopEvent" /\ app' = "joinEvent"
            \/ step = "joinEvent" /\ app' = "stopTimer"
            \/ step = "stopTimer" /\ app' = "joinTimer"
            \/ step = "joinTimer" /\ app' = "clearEvents"
            \/ step = "clearEvents" /\ app' = "stopLoop"
            \/ step = "stopLoop" /\ app' = "joinLoop"
            \/ step = "joinLoop" /\ app' = "reset"
            \/ step = "reset" /\ app' = "idle"
<1>1. app = step
  BY DEF At
<1>2. Len(DestroySteps) = 9
  BY DEF DestroySteps
<1>3. PICK i \in 1..8 : DestroySteps[i] = step /\ app' = DestroySteps[i + 1]
  BY <1>2 DEF At
<1>4. /\ DestroySteps[1] = "stopEvent" /\ DestroySteps[2] = "joinEvent"
      /\ DestroySteps[3] = "stopTimer" /\ DestroySteps[4] = "joinTimer"
      /\ DestroySteps[5] = "clearEvents" /\ DestroySteps[6] = "stopLoop"
      /\ DestroySteps[7] = "joinLoop" /\ DestroySteps[8] = "reset"
      /\ DestroySteps[9] = "idle"
  BY DEF DestroySteps
<1>5. \/ i = 1 \/ i = 2 \/ i = 3 \/ i = 4
      \/ i = 5 \/ i = 6 \/ i = 7 \/ i = 8
  BY <1>3
<1>6. /\ 1 + 1 = 2 /\ 2 + 1 = 3 /\ 3 + 1 = 4 /\ 4 + 1 = 5
      /\ 5 + 1 = 6 /\ 6 + 1 = 7 /\ 7 + 1 = 8 /\ 8 + 1 = 9
  OBVIOUS
<1> QED BY <1>1, <1>3, <1>4, <1>5, <1>6

LEMMA InitInv == Init => IInv
<1> SUFFICES ASSUME Init
             PROVE  IInv
  OBVIOUS
<1>1. ThreadsInv
  BY DEF Init, ThreadsInv, Serving
<1>2. CallsInv
  BY DEF Init, CallsInv, HandlersInit, NoWalk, Callers
<1>3. AnswersInv
  BY DEF Init, AnswersInv, NewContext, Callers
<1>4. HandlersInv
  BY DEF Init, HandlersInv, HandlersInit, HandlersTypeOK, NoWalk,
     DestroyedHandlerIsQuiet
<1> QED BY <1>1, <1>2, <1>3, <1>4 DEF IInv

LEMMA HandlersUnchanged ==
  ASSUME HandlersInv, UNCHANGED hdlVars
  PROVE  HandlersInv'
BY DEF HandlersInv, HandlersTypeOK, DestroyedHandlerIsQuiet, hdlVars

LEMMA NotifyFacts ==
  ASSUME AnswersInv, NEW t,
         NEW res \in {"OK", "FAILED", "TIMEOUT"},
         NEW answer \in {"none", "OK", "FAILED"},
         res = "OK" => answer = "OK", Notify(t, res, answer)
  PROVE  AnswersInv'
<1> USE DEF AnswersInv
<1>1. CASE NotifyCaller(t, res, answer)
  <2> DEFINE c == [res |-> res, answer |-> answer, done |-> TRUE]
  <2>1. t \in Callers /\ ctx' = [ctx EXCEPT ![t] = c]
    BY <1>1 DEF NotifyCaller
  <2>2. /\ c \in [res : {"OK", "FAILED", "TIMEOUT"},
                  answer : {"none", "OK", "FAILED"}, done : BOOLEAN]
        /\ c.res = "OK" => c.answer = "OK"
    OBVIOUS
  <2> HIDE DEF c
  <2>3. \A u \in Callers : ctx'[u] = IF u = t THEN c ELSE ctx[u]
    BY <2>1
  <2> QED BY <2>1, <2>2, <2>3
<1>2. CASE UNCHANGED ctx
  BY <1>2
<1> QED BY <1>1, <1>2 DEF Notify

LEMMA FreshContext ==
  ASSUME AnswersInv, NEW t \in Callers, ctx' = [ctx EXCEPT ![t] = NewContext]
  PROVE  AnswersInv'
<1>1. /\ NewContext \in [res : {"OK", "FAILED", "TIMEOUT"},
                         answer : {"none", "OK", "FAILED"}, done : BOOLEAN]
      /\ ~NewContext.done
  BY DEF NewContext
<1>2. \A u \in Callers : ctx'[u] = IF u = t THEN NewContext ELSE ctx[u]
  BY DEF AnswersInv
<1> QED BY <1>1, <1>2 DEF AnswersInv

(* Initialize and Destroy, and what is left when Destroy ends. *)
LEMMA AppKeepsInv ==
  ASSUME IInv,
         InitializeFails \/ InitializeClient \/ Login \/ Destroy \/ App
  PROVE  IInv'
<1> USE DEF IInv, Callers, hdlVars, apiVars, queueVars, callVars, sdkVars
<1>1. CASE InitializeFails
  BY <1>1, HandlersUnchanged
     DEF InitializeFails, ThreadsInv, Serving, CallsInv, AnswersInv
<1>2. CASE InitializeClient
  BY <1>2, HandlersUnchanged
     DEF InitializeClient, ThreadsInv, Serving, CallsInv, AnswersInv
<1>3. CASE Login
  BY <1>3, HandlersUnchanged
     DEF Login, ThreadsInv, Serving, CallsInv, AnswersInv
<1>4. CASE Destroy
  BY <1>4, HandlersUnchanged
     DEF Destroy, DestroySteps, ThreadsInv, Serving, CallsInv, AnswersInv
<1>5. CASE InitializeTimer
  BY <1>5, HandlersUnchanged
     DEF InitializeTimer, ThreadsInv, Serving, CallsInv, AnswersInv
<1>6. CASE InitializeEvent
  BY <1>6, HandlersUnchanged
     DEF InitializeEvent, ThreadsInv, Serving, CallsInv, AnswersInv
<1>7. CASE InitializeSucceeds
  BY <1>7, HandlersUnchanged
     DEF InitializeSucceeds, ThreadsInv, Serving, CallsInv, AnswersInv
<1>8. CASE StopEvent
  BY <1>8, Steps, HandlersUnchanged
     DEF StopEvent, ThreadsInv, Serving, CallsInv, AnswersInv
<1>9. CASE JoinEvent
  BY <1>9, Steps, HandlersUnchanged
     DEF JoinEvent, ThreadsInv, Serving, CallsInv, AnswersInv
<1>10. CASE StopTimer
  BY <1>10, Steps, HandlersUnchanged
     DEF StopTimer, ThreadsInv, Serving, CallsInv, AnswersInv
<1>11. CASE JoinTimer
  BY <1>11, Steps, HandlersUnchanged
     DEF JoinTimer, ThreadsInv, Serving, CallsInv, AnswersInv
<1>12. CASE ClearEvents
  BY <1>12, Steps, HandlersUnchanged
     DEF ClearEvents, ThreadsInv, Serving, CallsInv, AnswersInv
<1>13. CASE StopLoop
  <2>1. app = "stopLoop" /\ app' = "joinLoop"
    BY <1>13, Steps DEF StopLoop
  <2>2. ThreadsInv'
    BY <1>13, <2>1 DEF StopLoop, ThreadsInv, Serving, CallsInv
  <2>3. CallsInv' /\ AnswersInv'
    BY <1>13, <2>1 DEF StopLoop, CallsInv, AnswersInv
  <2>4. HandlersInv'
    BY <1>13, HandlersUnchanged DEF StopLoop
  <2> QED BY <2>2, <2>3, <2>4
<1>14. CASE JoinLoop
  BY <1>14, Steps, HandlersUnchanged
     DEF JoinLoop, ThreadsInv, Serving, CallsInv, AnswersInv
<1>15. CASE Reset
  BY <1>15, Steps, HandlersUnchanged
     DEF Reset, ThreadsInv, Serving, CallsInv, AnswersInv
<1> QED
  BY <1>1, <1>2, <1>3, <1>4, <1>5, <1>6, <1>7, <1>8, <1>9, <1>10, <1>11,
     <1>12, <1>13, <1>14, <1>15 DEF App

(* The event thread, the timer thread and the callers. *)
LEMMA ThreadsKeepInv ==
  ASSUME IInv,
         \/ EventThread \/ EventWake \/ TimerThread
         \/ \E t \in Callers : Call(t) \/ CallStep(t) \/ WakeEarly(t)
  PROVE  IInv'
<1> USE DEF IInv, Callers, hdlVars, apiVars, queueVars, callVars, sdkVars
<1>1. CASE EventTop
  BY <1>1, HandlersUnchanged
     DEF EventTop, ThreadsInv, Serving, CallsInv, AnswersInv
<1>2. CASE EventLock
  BY <1>2, HandlersUnchanged
     DEF EventLock, ThreadsInv, Serving, CallsInv, AnswersInv
<1>3. CASE EventWake
  BY <1>3, HandlersUnchanged
     DEF EventWake, ThreadsInv, Serving, CallsInv, AnswersInv
<1>4. CASE EventDeliver
  BY <1>4, HandlersUnchanged
     DEF EventDeliver, ThreadsInv, Serving, CallsInv, AnswersInv
<1>5. CASE EventReturn
  BY <1>5, HandlersUnchanged
     DEF EventReturn, ThreadsInv, Serving, CallsInv, AnswersInv
<1>6. CASE TimerTick
  BY <1>6, HandlersUnchanged
     DEF TimerTick, ThreadsInv, Serving, CallsInv, AnswersInv
<1>7. CASE TimerRest
  BY <1>7, HandlersUnchanged
     DEF TimerRest, ThreadsInv, Serving, CallsInv, AnswersInv
<1>8. CASE \E t \in Entries : TimerExpire(t)
  <2>1. PICK t \in Entries : TimerExpire(t)
    BY <1>8
  <2>2. ThreadsInv' /\ client'
    BY <2>1 DEF TimerExpire, ThreadsInv, Serving, CallsInv
  <2>3. CallsInv'
    <3>1. UNCHANGED taken
      BY <2>1 DEF TimerExpire, Notify, NotifyCaller, Emit
    <3> QED BY <2>1, <2>2, <3>1 DEF TimerExpire, CallsInv
  <2>4. AnswersInv'
    BY <2>1, NotifyFacts DEF TimerExpire
  <2>5. HandlersInv'
    BY <2>1, HandlersUnchanged DEF TimerExpire
  <2> QED BY <2>2, <2>3, <2>4, <2>5
<1>9. CASE \E t \in Callers : Call(t)
  BY <1>9, HandlersUnchanged
     DEF Call, InCallback, ThreadsInv, Serving, CallsInv, AnswersInv
<1>10. CASE \E t \in Callers : LockAndRegister(t)
  <2>1. PICK t \in Callers : LockAndRegister(t)
    BY <1>10
  <2>2. initialized => client
    BY <2>1 DEF LockAndRegister, ThreadsInv, Serving, CallsInv
  <2>3. ThreadsInv'
    BY <2>1 DEF LockAndRegister, ThreadsInv, Serving
  <2>4. CallsInv'
    BY <2>1, <2>2 DEF LockAndRegister, CallsInv
  <2>5. AnswersInv'
    BY <2>1, FreshContext DEF LockAndRegister, AnswersInv
  <2>6. HandlersInv'
    BY <2>1, HandlersUnchanged DEF LockAndRegister
  <2> QED BY <2>3, <2>4, <2>5, <2>6
<1>11. CASE \E t \in Callers : SendCall(t)
  BY <1>11, HandlersUnchanged
     DEF SendCall, ThreadsInv, Serving, CallsInv, AnswersInv
<1>12. CASE \E t \in Callers : EndOfWait(t)
  <2>1. PICK t \in Callers : EndOfWait(t)
    BY <1>12
  <2>2. cbMap = {} => cbMap' = {}
    BY <2>1 DEF EndOfWait
  <2>3. ThreadsInv'
    BY <2>1 DEF EndOfWait, ThreadsInv, Serving
  <2>4. CallsInv'
    BY <2>1, <2>2 DEF EndOfWait, CallsInv
  <2>5. AnswersInv'
    BY <2>1, FreshContext DEF EndOfWait
  <2>6. HandlersInv'
    BY <2>1, HandlersUnchanged DEF EndOfWait
  <2> QED BY <2>3, <2>4, <2>5, <2>6
<1> QED
  BY <1>1, <1>2, <1>3, <1>4, <1>5, <1>6, <1>7, <1>8, <1>9, <1>10, <1>11,
     <1>12 DEF EventThread, TimerThread, CallStep, Return, WakeEarly

(* The client loop, and the application's handlers. *)
LEMMA LoopKeepsInv ==
  ASSUME IInv, LoopThread \/ Registering
  PROVE  IInv'
<1> USE DEF IInv, Callers, hdlVars, apiVars, queueVars, callVars, sdkVars
<1>1. CASE \E t \in Entries, a \in {"OK", "FAILED"} :
             LoopAnswer(t, a)
  <2>1. PICK t \in Entries, a \in {"OK", "FAILED"} :
               LoopAnswer(t, a)
    BY <1>1
  <2>2. ThreadsInv' /\ client'
    BY <2>1 DEF LoopAnswer, LoopIsFree, ThreadsInv, Serving, CallsInv
  <2>3. CallsInv'
    <3>1. UNCHANGED taken
      BY <2>1 DEF LoopAnswer, Notify, NotifyCaller, Emit
    <3> QED BY <2>1, <2>2, <3>1 DEF LoopAnswer, CallsInv
  <2>4. AnswersInv'
    BY <2>1, NotifyFacts DEF LoopAnswer
  <2>5. HandlersInv'
    BY <2>1, HandlersUnchanged DEF LoopAnswer
  <2> QED BY <2>2, <2>3, <2>4, <2>5
<1>2. CASE LoopEvent
  BY <1>2, HandlersUnchanged
     DEF LoopEvent, LoopIsFree, Emit, ThreadsInv, Serving, CallsInv, AnswersInv
<1>3. CASE LoopConnected
  BY <1>3, HandlersUnchanged
     DEF LoopConnected, LoopIsFree, ThreadsInv, Serving, CallsInv, AnswersInv
<1>4. CASE \E kind \in {"conn", "msg"} : LoopWalk(kind)
  <2>1. PICK kind \in {"conn", "msg"} : LoopWalk(kind)
    BY <1>4
  <2>2. walk' = [kind |-> kind, at |-> 1, calling |-> NoHandler]
    BY <2>1 DEF LoopWalk, BeginWalk, NoWalk
  <2>3. HandlersInv'
    <3>1. /\ walk' \in [kind : {"none", "conn", "msg"}, at : Nat,
                         calling : Handler \cup {NoHandler}]
          /\ walk'.at = 1 /\ walk'.calling = NoHandler
      BY <2>2
    <3>2. UNCHANGED <<hdls, cbs>>
      BY <2>1 DEF LoopWalk, BeginWalk
    <3> QED BY <3>1, <3>2 DEF HandlersInv, HandlersTypeOK,
               DestroyedHandlerIsQuiet
  <2>4. ThreadsInv' /\ AnswersInv'
    BY <2>1 DEF LoopWalk, ThreadsInv, Serving, AnswersInv
  <2>5. CallsInv'
    BY <2>1, <2>2 DEF LoopWalk, LoopIsFree, BeginWalk, HandlersInv, CallsInv
  <2> QED BY <2>3, <2>4, <2>5
<1>5. CASE LoopWalks
  <2>1. HandlersInv' /\ walk.kind # "none"
    BY <1>5, WalksKeepInv DEF LoopWalks
  <2>2. ThreadsInv' /\ AnswersInv'
    BY <1>5 DEF LoopWalks, ThreadsInv, Serving, AnswersInv
  <2>3. CallsInv'
    BY <1>5, <2>1 DEF LoopWalks, CallsInv
  <2> QED BY <2>1, <2>2, <2>3
<1>6. CASE LoopQuit
  BY <1>6, HandlersUnchanged
     DEF LoopQuit, LoopIsFree, ThreadsInv, Serving, CallsInv, AnswersInv
<1>7. CASE Registering
  <2>1. HandlersInv' /\ UNCHANGED walk
    BY <1>7, RegistryKeepsInv DEF Registering
  <2>2. ThreadsInv' /\ CallsInv' /\ AnswersInv'
    BY <1>7, <2>1 DEF Registering, ThreadsInv, Serving, CallsInv, AnswersInv
  <2> QED BY <2>1, <2>2
<1> QED
  BY <1>1, <1>2, <1>3, <1>4, <1>5, <1>6, <1>7 DEF LoopThread

LEMMA StepInv == IInv /\ [Next]_vars => IInv'
<1> SUFFICES ASSUME IInv, [Next]_vars
             PROVE  IInv'
  OBVIOUS
<1>1. CASE UNCHANGED vars
  BY <1>1, HandlersUnchanged
     DEF vars, apiVars, sdkVars, queueVars, callVars, hdlVars, IInv,
     ThreadsInv, Serving, CallsInv, AnswersInv
<1> QED BY <1>1, AppKeepsInv, ThreadsKeepInv, LoopKeepsInv DEF Next

LEMMA Invariance == Spec => []IInv
BY InitInv, StepInv, PTL DEF Spec

(* At whatever step of Initialize, of Destroy and of the three threads,      *)
(* whoever uses client_ finds it: it is set before the first thread starts   *)
(* and reset after the last has ended.                                       *)
THEOREM ClientIsAlwaysThere == Spec => []ClientIsThere
<1>1. IInv => ClientIsThere
  BY DEF IInv, ThreadsInv, Serving, CallsInv, HandlersInv, ClientIsThere,
     Callers
<1> QED BY <1>1, Invariance, PTL

(* Whatever the threads do with the handlers, a handler is not destroyed in  *)
(* the middle of its message callback.                                       *)
THEOREM DestroyedHandlersAreQuiet == Spec => []DestroyedHandlerIsQuiet
BY Invariance, PTL DEF IInv, HandlersInv

(* Destroy joins every thread, callbacks and their calls included, and       *)
(* empties the call table and the session.                                   *)
THEOREM DestroyLeavesNothingBehind == Spec => []DestroyLeavesNothing
<1>1. IInv => DestroyLeavesNothing
  BY DEF IInv, ThreadsInv, Serving, CallsInv, HandlersInv,
     DestroyLeavesNothing, Callers
<1> QED BY <1>1, Invariance, PTL

(* A call of the global callback that is told success was answered so, or    *)
(* its wait ended early while the timer thread was there to notify it:       *)
(* Destroy joins the event thread, and the call with it, before it ends the  *)
(* timer thread.                                                             *)
THEOREM CallbackCallsAreTrue == Spec => CallbackCallIsTrue
<1>1. IInv /\ [Next]_vars =>
        [call["event"] = "wait" /\ call'["event"] = "no"
           /\ ctx["event"].res = "OK" =>
         ctx["event"].answer = "OK" \/ WokenEarly("event")]_vars
  BY DEF IInv, ThreadsInv, Serving, CallsInv, AnswersInv, Callers, WokenEarly,
     TimerThere
<1> QED BY <1>1, Invariance, PTL DEF Spec, CallbackCallIsTrue
-----------------------------------------------------------------------------
(* The loggers' names are registered for good: before _log_initialized is    *)
(* set, only those that an earlier attempt of a Linux build left behind when *)
(* a file could not be opened.                                               *)
LoggerInv ==
  /\ registered \subseteq Loggers
  /\ unopened \in {"never", "before", "now"}
  /\ logInitialized \in BOOLEAN
  /\ initRet \in {"none", "SUCCESS", "INIT_LOG_FAILED", "CB_IS_NULL"}
  /\ ~logInitialized /\ registered # {} => Linux /\ unopened # "never"
  /\ LogFailureHasCause

(* The plain types, and that _mux is held by the caller that is in a call.   *)
PlainInv ==
  /\ {initialized, init, client, signalled, user} \subseteq BOOLEAN
  /\ event \in {"none", "top", "lock", "wait", "deliver", "callback", "exit"}
  /\ timer \in {"none", "wait", "scan", "exit"}
  /\ cbMap \subseteq Entries
  /\ calls \in 0..MaxCalls
  /\ mux \in Callers \cup {"free"}
  /\ \A t \in Callers : mux = t <=> call[t] \in {"send", "wait"}

(* Between Destroy's clearing of the queue and the next Initialize: what is  *)
(* queued now will be found there by the next event thread.                  *)
Cleared ==
  \/ app \in {"stopLoop", "joinLoop", "reset"}
  \/ app = "idle" /\ ~initialized

Events == [id : 1..emitted, init : 1..inits, late : BOOLEAN]

(* Events are emitted by threads that an Initialize has started, so that     *)
(* what outlives the clearing of the queue is late, and what the event       *)
(* thread has taken does not outlive its join.                               *)
EventsInv ==
  /\ inits \in 0..MaxInits /\ emitted \in 0..MaxEvents
  /\ loop # "none" \/ timer # "none" => inits >= 1
  /\ events \in Seq(Events) /\ taken \in Seq(Events)
  /\ event = "callback" => taken # <<>>
  /\ Cleared => \A i \in DOMAIN events : events[i].late
  /\ \A i \in DOMAIN events : events[i].init = inits \/ events[i].late
  /\ \A i \in DOMAIN taken : taken[i].init = inits \/ taken[i].late

LEMMA LoggerKeepsInv ==
  ASSUME LoggerInv, [Next]_vars
  PROVE  LoggerInv'
<1> USE DEF LoggerInv, LogFailureHasCause
<1>1. CASE InitializeFails
  <2>1. CASE LoggerReady(FALSE) /\ initRet' = "INIT_LOG_FAILED"
             /\ UNCHANGED logInitialized
    <3>1. ~logInitialized /\ InitLogger(FALSE)
      BY <2>1 DEF LoggerReady
    <3>2. CASE registered' \in BeforeAFailure /\ unopened' = "now"
      BY <2>1, <3>2 DEF BeforeAFailure, Loggers
    <3>3. CASE registered # {} /\ UNCHANGED registered /\ FilesOpen
      BY <2>1, <3>1, <3>3 DEF FilesOpen
    <3> QED BY <3>1, <3>2, <3>3 DEF InitLogger
  <2>2. CASE LoggerReady(TRUE) /\ initRet' = "CB_IS_NULL"
             /\ logInitialized' = TRUE
    BY <2>2 DEF LoggerReady, InitLogger, FilesOpen, logVars
  <2> QED BY <1>1, <2>1, <2>2 DEF InitializeFails
<1>2. CASE InitializeClient
  BY <1>2 DEF InitializeClient, LoggerReady, InitLogger, FilesOpen, logVars
<1>3. CASE InitializeSucceeds
  BY <1>3 DEF InitializeSucceeds, logVars
<1>4. CASE UNCHANGED <<logVars, logInitialized, initRet>>
  BY <1>4 DEF logVars
<1>5. \/ InitializeFails \/ InitializeClient \/ InitializeSucceeds
      \/ UNCHANGED <<logVars, logInitialized, initRet>>
  BY DEF Next, vars, apiVars, App, InitializeTimer, InitializeEvent, Login,
     Destroy, StopEvent, JoinEvent, StopTimer, JoinTimer, ClearEvents,
     StopLoop, JoinLoop, Reset, EventThread, EventTop, EventLock, EventWake,
     EventDeliver, EventReturn, TimerThread, TimerTick, TimerExpire, TimerRest,
     LoopThread, LoopAnswer, LoopEvent, LoopConnected, LoopWalk, LoopWalks,
     LoopQuit, Registering, Call, CallStep, LockAndRegister, SendCall, Return,
     WakeEarly, EndOfWait
<1> QED BY <1>1, <1>2, <1>3, <1>4, <1>5

LEMMA EmitFacts ==
  ASSUME PlainInv, Emit
  PROVE  signalled' \in BOOLEAN
BY DEF PlainInv, Emit

LEMMA NotifyFlags ==
  ASSUME PlainInv, NEW t, NEW res, NEW answer, Notify(t, res, answer)
  PROVE  signalled' \in BOOLEAN
BY EmitFacts DEF Notify, NotifyCaller, queueVars, PlainInv

LEMMA PlainKeepsInv ==
  ASSUME IInv, PlainInv, [Next]_vars
  PROVE  PlainInv'
<1> USE DEF PlainInv, Callers, hdlVars, apiVars, queueVars, callVars, sdkVars
<1>1. CASE InitializeFails
  BY <1>1 DEF InitializeFails
<1>2. CASE InitializeClient
  BY <1>2 DEF InitializeClient
<1>3. CASE Login
  BY <1>3 DEF Login
<1>4. CASE Destroy
  BY <1>4 DEF Destroy
<1>5. CASE InitializeTimer
  BY <1>5 DEF InitializeTimer
<1>6. CASE InitializeEvent
  BY <1>6 DEF InitializeEvent
<1>7. CASE InitializeSucceeds
  BY <1>7 DEF InitializeSucceeds
<1>8. CASE StopEvent
  BY <1>8 DEF StopEvent
<1>9. CASE JoinEvent
  BY <1>9 DEF JoinEvent
<1>10. CASE StopTimer
  BY <1>10 DEF StopTimer
<1>11. CASE JoinTimer
  BY <1>11 DEF JoinTimer
<1>12. CASE ClearEvents
  BY <1>12 DEF ClearEvents
<1>13. CASE StopLoop
  BY <1>13 DEF StopLoop
<1>14. CASE JoinLoop
  BY <1>14 DEF JoinLoop
<1>15. CASE Reset
  BY <1>15 DEF Reset
<1>16. CASE EventTop
  BY <1>16 DEF EventTop
<1>17. CASE EventLock
  BY <1>17 DEF EventLock
<1>18. CASE EventWake
  BY <1>18 DEF EventWake
<1>19. CASE EventDeliver
  BY <1>19 DEF EventDeliver
<1>20. CASE EventReturn
  BY <1>20 DEF EventReturn
<1>21. CASE TimerTick
  BY <1>21 DEF TimerTick
<1>22. CASE TimerRest
  BY <1>22 DEF TimerRest
<1>23. CASE LoopConnected
  BY <1>23 DEF LoopConnected, Entries
<1>24. CASE LoopWalks
  BY <1>24 DEF LoopWalks
<1>25. CASE LoopQuit
  BY <1>25 DEF LoopQuit
<1>26. CASE Registering
  BY <1>26 DEF Registering
<1>27. CASE \E t \in Entries : TimerExpire(t)
  <2>1. PICK t \in Entries : TimerExpire(t)
    BY <1>27
  <2>2. signalled' \in BOOLEAN
    BY <2>1, NotifyFlags DEF TimerExpire
  <2>3. cbMap' \subseteq cbMap
    BY <2>1 DEF TimerExpire, TakeEntry
  <2> QED BY <2>1, <2>2, <2>3 DEF TimerExpire
<1>28. CASE \E t \in Entries, a \in {"OK", "FAILED"} :
             LoopAnswer(t, a)
  <2>1. PICK t \in Entries, a \in {"OK", "FAILED"} :
               LoopAnswer(t, a)
    BY <1>28
  <2>2. signalled' \in BOOLEAN
    BY <2>1, NotifyFlags DEF LoopAnswer
  <2>3. cbMap' \subseteq cbMap
    BY <2>1 DEF LoopAnswer, TakeEntry
  <2> QED BY <2>1, <2>2, <2>3 DEF LoopAnswer
<1>29. CASE LoopEvent
  BY <1>29, EmitFacts DEF LoopEvent
<1>30. CASE \E kind \in {"conn", "msg"} : LoopWalk(kind)
  BY <1>30 DEF LoopWalk
<1>31. CASE \E t \in Callers : Call(t)
  <2>1. PICK t \in Callers : Call(t)
    BY <1>31
  <2>2. \A u \in Callers :
          call'[u] \in {"send", "wait"} <=> call[u] \in {"send", "wait"}
    BY <2>1 DEF Call, IInv, CallsInv
  <2>3. calls' \in 0..MaxCalls
    BY <2>1, LifecycleBounds DEF Call
  <2> QED BY <2>1, <2>2, <2>3 DEF Call
<1>32. CASE \E t \in Callers : CallStep(t) \/ WakeEarly(t)
  <2>1. PICK t \in Callers : CallStep(t) \/ WakeEarly(t)
    BY <1>32
  <2>2. call \in [Callers -> {"no", "lock", "send", "wait"}]
    BY DEF IInv, CallsInv
  <2>3. CASE LockAndRegister(t)
    BY <2>1, <2>2, <2>3 DEF LockAndRegister, Entries
  <2>4. CASE SendCall(t)
    BY <2>1, <2>2, <2>4 DEF SendCall
  <2>5. CASE EndOfWait(t)
    <3>1. cbMap' \subseteq Entries
      BY <2>5 DEF EndOfWait, Entries
    <3> QED BY <2>1, <2>2, <2>5, <3>1 DEF EndOfWait
  <2> QED BY <2>1, <2>3, <2>4, <2>5 DEF CallStep, Return, WakeEarly
<1>33. CASE UNCHANGED vars
  BY <1>33 DEF vars
<1> QED
  BY <1>1, <1>2, <1>3, <1>4, <1>5, <1>6, <1>7, <1>8, <1>9, <1>10, <1>11,
     <1>12, <1>13, <1>14, <1>15, <1>16, <1>17, <1>18, <1>19, <1>20, <1>21,
     <1>22, <1>23, <1>24, <1>25, <1>26, <1>27, <1>28, <1>29, <1>30, <1>31,
     <1>32, <1>33
     DEF Next, App, EventThread, TimerThread, LoopThread

(* Events emitted before stay well formed when the counters grow. *)
LEMMA EventsGrow ==
  ASSUME NEW e \in Nat, NEW k \in Nat, NEW i \in Nat, NEW j \in Nat,
         e <= k, i <= j,
         NEW q \in Seq([id : 1..e, init : 1..i, late : BOOLEAN])
  PROVE  q \in Seq([id : 1..k, init : 1..j, late : BOOLEAN])
<1>1. [id : 1..e, init : 1..i, late : BOOLEAN]
        \subseteq [id : 1..k, init : 1..j, late : BOOLEAN]
  OBVIOUS
<1> QED BY <1>1, SeqMonotonic

LEMMA EmitKeepsEvents ==
  ASSUME IInv, EventsInv, Emit, loop # "none" \/ timer # "none",
         UNCHANGED <<inits, app, initialized, event, loop, timer>>
  PROVE  EventsInv'
<1> DEFINE e == [id |-> emitted + 1, init |-> inits,
                 late |-> app \in {"stopLoop", "joinLoop"}]
<1> USE DEF EventsInv, Events
<1>1. /\ inits \in Nat /\ emitted \in Nat /\ inits >= 1
      /\ emitted' \in 0..MaxEvents /\ emitted' = emitted + 1
  BY LifecycleBounds DEF Emit
<1>2. e \in [id : 1..emitted', init : 1..inits, late : BOOLEAN]
  BY <1>1
<1>3. e.init = inits /\ (Cleared => e.late)
  BY DEF Cleared, IInv, ThreadsInv, Serving
<1>4. events' = Append(events, e) /\ UNCHANGED taken
  BY DEF Emit
<1>5. /\ events \in Seq([id : 1..emitted', init : 1..inits, late : BOOLEAN])
      /\ taken \in Seq([id : 1..emitted', init : 1..inits, late : BOOLEAN])
  <2>1. emitted' \in Nat /\ emitted <= emitted' /\ inits <= inits
    BY <1>1
  <2> HIDE DEF e
  <2> QED BY <1>1, <2>1, EventsGrow
<1> HIDE DEF e
<1>6. /\ events' \in Seq(Events)'
      /\ \A i \in DOMAIN events' :
           \/ events'[i] = e
           \/ i \in DOMAIN events /\ events'[i] = events[i]
  BY <1>2, <1>4, <1>5
<1>7. UNCHANGED Cleared
  BY DEF Cleared
<1> QED BY <1>1, <1>3, <1>4, <1>5, <1>6, <1>7

LEMMA NotifyKeepsEvents ==
  ASSUME IInv, EventsInv, NEW t, NEW res, NEW answer, Notify(t, res, answer),
         loop # "none" \/ timer # "none",
         UNCHANGED <<inits, app, initialized, event, loop, timer>>
  PROVE  EventsInv'
<1>1. CASE NotifyCaller(t, res, answer)
  BY <1>1 DEF NotifyCaller, queueVars, EventsInv, Events, Cleared
<1>2. CASE Emit
  BY <1>2, EmitKeepsEvents
<1>3. CASE UNCHANGED queueVars
  BY <1>3 DEF queueVars, EventsInv, Events, Cleared
<1> QED BY <1>1, <1>2, <1>3 DEF Notify

LEMMA EventsKeepInv ==
  ASSUME IInv, EventsInv, [Next]_vars
  PROVE  EventsInv'
<1> USE DEF EventsInv, Events, Cleared, hdlVars, apiVars, queueVars, callVars,
        sdkVars
<1>1. CASE InitializeFails
  BY <1>1 DEF InitializeFails
<1>2. CASE InitializeClient
  <2>1. /\ inits' = inits + 1 /\ inits \in Nat /\ emitted \in Nat
        /\ inits' \in 0..MaxInits
    BY <1>2, LifecycleBounds DEF InitializeClient
  <2>2. Cleared /\ taken = <<>> /\ events' = events /\ taken' = taken
    BY <1>2 DEF InitializeClient, IInv, ThreadsInv, Serving, CallsInv
  <2>3. events' \in Seq(Events)'
    <3>1. events \in Seq([id : 1..emitted, init : 1..inits', late : BOOLEAN])
      <4>1. emitted <= emitted /\ inits <= inits' /\ inits' \in Nat
        BY <2>1
      <4> QED BY <2>1, <4>1, EventsGrow
    <3> QED BY <1>2, <2>2, <3>1 DEF InitializeClient
  <2> QED BY <1>2, <2>1, <2>2, <2>3 DEF InitializeClient
<1>3. CASE Login
  BY <1>3 DEF Login, IInv, ThreadsInv, Serving
<1>4. CASE InitializeEvent
  BY <1>4 DEF InitializeEvent, IInv, ThreadsInv, Serving
<1>5. CASE InitializeSucceeds
  BY <1>5 DEF InitializeSucceeds, IInv, ThreadsInv, Serving
<1>6. CASE InitializeTimer
  BY <1>6 DEF InitializeTimer, IInv, ThreadsInv, Serving
<1>7. CASE Destroy
  BY <1>7 DEF Destroy, DestroySteps
<1>8. CASE StopEvent
  BY <1>8, Steps DEF StopEvent, IInv, ThreadsInv, Serving
<1>9. CASE JoinEvent
  BY <1>9, Steps DEF JoinEvent, IInv, ThreadsInv, Serving
<1>10. CASE StopTimer
  BY <1>10, Steps DEF StopTimer, IInv, ThreadsInv, Serving
<1>11. CASE JoinTimer
  BY <1>11, Steps DEF JoinTimer, IInv, ThreadsInv, Serving
<1>12. CASE ClearEvents
  BY <1>12, Steps DEF ClearEvents, IInv, ThreadsInv, Serving
<1>13. CASE StopLoop
  BY <1>13, Steps DEF StopLoop, IInv, ThreadsInv, Serving
<1>14. CASE JoinLoop
  BY <1>14, Steps DEF JoinLoop, IInv, ThreadsInv, Serving
<1>15. CASE Reset
  BY <1>15, Steps DEF Reset, IInv, ThreadsInv, Serving
<1>16. CASE EventTop
  BY <1>16 DEF EventTop, LoopIsFree
<1>17. CASE EventWake
  BY <1>17 DEF EventWake, LoopIsFree
<1>18. CASE EventDeliver
  BY <1>18 DEF EventDeliver, LoopIsFree
<1>19. CASE TimerTick
  BY <1>19 DEF TimerTick, LoopIsFree
<1>20. CASE TimerRest
  BY <1>20 DEF TimerRest, LoopIsFree
<1>21. CASE LoopConnected
  BY <1>21 DEF LoopConnected, LoopIsFree
<1>22. CASE LoopWalks
  BY <1>22 DEF LoopWalks, LoopIsFree
<1>23. CASE LoopQuit
  BY <1>23 DEF LoopQuit, LoopIsFree
<1>24. CASE Registering
  BY <1>24 DEF Registering, LoopIsFree
<1>25. CASE EventLock
  <2>1. taken = <<>>
    BY <1>25 DEF EventLock, IInv, CallsInv
  <2>2. \/ taken' = events /\ events' = <<>>
        \/ UNCHANGED <<taken, events>>
    BY <1>25, <2>1 DEF EventLock
  <2>3. /\ event' # "callback"
        /\ UNCHANGED <<emitted, inits, loop, timer, app, initialized>>
    BY <1>25 DEF EventLock
  <2>4. <<>> \in Seq(Events) /\ DOMAIN <<>> = {}
    OBVIOUS
  <2> QED BY <2>2, <2>3, <2>4
<1>26. CASE EventReturn
  <2>1. /\ taken # <<>> /\ taken' = Tail(taken)
        /\ taken' \in Seq(Events)
        /\ \A i \in DOMAIN taken' :
             i + 1 \in DOMAIN taken /\ taken'[i] = taken[i + 1]
    BY <1>26 DEF EventReturn
  <2> QED BY <1>26, <2>1 DEF EventReturn
<1>27. CASE \E t \in Entries : TimerExpire(t)
  BY <1>27, NotifyKeepsEvents DEF TimerExpire
<1>28. CASE \E t \in Entries, a \in {"OK", "FAILED"} :
             LoopAnswer(t, a)
  BY <1>28, NotifyKeepsEvents DEF LoopAnswer, LoopIsFree
<1>29. CASE LoopEvent
  BY <1>29, EmitKeepsEvents DEF LoopEvent, LoopIsFree
<1>30. CASE \E kind \in {"conn", "msg"} : LoopWalk(kind)
  BY <1>30 DEF LoopWalk
<1>31. CASE \E t \in Callers : Call(t) \/ CallStep(t) \/ WakeEarly(t)
  <2>1. UNCHANGED <<events, taken, emitted, inits, loop, timer, event, app,
                    initialized>>
    BY <1>31
       DEF Call, CallStep, LockAndRegister, SendCall, Return, WakeEarly,
       EndOfWait
  <2> QED BY <2>1
<1>32. CASE UNCHANGED vars
  BY <1>32 DEF vars
<1> QED
  BY <1>1, <1>2, <1>3, <1>4, <1>5, <1>6, <1>7, <1>8, <1>9, <1>10, <1>11,
     <1>12, <1>13, <1>14, <1>15, <1>16, <1>17, <1>18, <1>19, <1>20, <1>21,
     <1>22, <1>23, <1>24, <1>25, <1>26, <1>27, <1>28, <1>29, <1>30, <1>31,
     <1>32
     DEF Next, App, EventThread, TimerThread, LoopThread

AllInv == IInv /\ LoggerInv /\ PlainInv /\ EventsInv

LEMMA AllInvariance == Spec => []AllInv
<1>1. Init => AllInv
  <2> SUFFICES ASSUME Init
               PROVE  AllInv
    OBVIOUS
  <2>1. LoggerInv
    BY DEF Init, LoggerInv, LogFailureHasCause
  <2>2. PlainInv
    <3>1. \A t \in Callers : mux # t /\ call[t] = "no"
      BY DEF Init, Callers
    <3>2. {initialized, init, client, signalled, user} \subseteq BOOLEAN
      BY DEF Init
    <3>3. calls \in 0..MaxCalls /\ cbMap \subseteq Entries
      BY LifecycleBounds DEF Init
    <3>4. event = "none" /\ timer = "none" /\ mux = "free"
      BY DEF Init
    <3> QED BY <3>1, <3>2, <3>3, <3>4 DEF PlainInv
  <2>3. EventsInv
    BY LifecycleBounds DEF Init, EventsInv
  <2> QED BY <2>1, <2>2, <2>3, InitInv DEF AllInv
<1>2. AllInv /\ [Next]_vars => AllInv'
  BY StepInv, LoggerKeepsInv, PlainKeepsInv, EventsKeepInv DEF AllInv
<1> QED BY <1>1, <1>2, PTL DEF Spec

(* Type correctness, with it that _mux is held by the caller that is in a    *)
(* call, by no other, and by nobody when there is none.                      *)
THEOREM LifecycleTypeCorrect == Spec => []TypeOK
<1>1. AllInv => TypeOK
  <2> SUFFICES ASSUME AllInv
               PROVE  TypeOK
    OBVIOUS
  <2> USE DEF AllInv
  <2>1. HandlersTypeOK
    BY DEF IInv, HandlersInv
  <2>2. app \in {"timer", "event", "success"} \cup ToSet(DestroySteps)
    <3>1. DOMAIN DestroySteps = 1..9
      BY DEF DestroySteps
    <3>2. \A i \in 1..9 : DestroySteps[i] \in ToSet(DestroySteps)
      BY <3>1 DEF ToSet
    <3>3. {"stopEvent", "joinEvent", "stopTimer", "joinTimer", "clearEvents",
           "stopLoop", "joinLoop", "reset", "idle"} \subseteq
             ToSet(DestroySteps)
      BY <3>2 DEF DestroySteps
    <3> QED BY <3>3 DEF IInv, ThreadsInv
  <2>3. \A q \in {events, taken} :
          q \in Seq([id : 1..emitted, init : 1..inits, late : BOOLEAN])
    BY DEF EventsInv, Events
  <2> QED
    BY <2>1, <2>2, <2>3
       DEF TypeOK, IInv, CallsInv, AnswersInv, LoggerInv, PlainInv, EventsInv
<1> QED BY <1>1, AllInvariance, PTL

(* An application that initialises the SDK again is told of nothing from     *)
(* before but late events of the client loop.                                *)
THEOREM OldEventsAreOnlyLate == Spec => []OldEventsAreLate
<1>1. AllInv => OldEventsAreLate
  BY DEF AllInv, EventsInv, OldEventsAreLate, Pending, ToSet
<1> QED BY <1>1, AllInvariance, PTL

(* PushSDKInitialize fails for its logs only because the sdk's or grpc's log *)
(* file could not be opened, now or, on Linux, in an earlier attempt.  A     *)
(* Destroy or another failure does not make the next one fail.               *)
THEOREM LogFailuresHaveCause == Spec => []LogFailureHasCause
BY AllInvariance, PTL DEF AllInv, LoggerInv
=============================================================================
