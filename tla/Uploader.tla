------------------------------ MODULE Uploader ------------------------------
(*****************************************************************************)
(* ELKAsyncUploader and the HttpClient it posts with: threads push log items *)
(* into a bounded queue, a worker swaps the queue out and posts it as one    *)
(* batch, retrying until Post returns true or the destructor clears run_.    *)
(* Items are numbered in the order in which they enter the queue.            *)
(*****************************************************************************)
EXTENDS Integers, Sequences, FiniteSets

CONSTANTS
  Producers,    \* the threads that log
  MinSize,      \* elk_upload_min_size: a longer queue wakes the worker
  MaxSize,      \* elk_upload_max_size: a longer queue loses its head
  MaxPushes     \* bound on the items pushed

ASSUME SizesAssumption ==
  MinSize \in Nat /\ MaxSize \in Nat /\ MinSize < MaxSize
ASSUME BoundsAssumption == MaxPushes \in Nat

VARIABLES
  run,       \* run_
  queue,     \* queue_
  pushing,   \* the threads in Push that have seen run_ set
  worker,    \* where the worker is, "none" before Initialize
  contents,  \* req.contents, the batch
  posted,    \* what the last Post returned
  answer,    \* history: what it met: "none", "200", "500", "null", "error"
  signalled, \* the worker, in its wait, has been notified
  http,      \* the HttpClient's init_ and ok_
  dtor,      \* where the destructor is: "no", "join" or "done"
  pushed,    \* history: how many items have entered the queue
  stored     \* history: the items the log store has taken

vars == <<run, queue, pushing, worker, contents, posted, answer, signalled,
          http, dtor, pushed, stored>>

Items(s) == {s[i] : i \in DOMAIN s}
Pending == Items(contents) \cup Items(queue)

Init ==
  /\ run = FALSE /\ queue = <<>> /\ pushing = {}
  /\ worker = "none" /\ contents = <<>> /\ posted = FALSE
  /\ answer = "none"
  /\ signalled = FALSE /\ http = [init |-> FALSE, ok |-> TRUE]
  /\ dtor = "no" /\ pushed = 0 /\ stored = {}

Initialize ==
  /\ ~run /\ dtor = "no"
  /\ run' = TRUE
  /\ http' = [init |-> TRUE, ok |-> TRUE]
  /\ worker' = "top"
  /\ UNCHANGED <<queue, pushing, contents, posted, answer, signalled, dtor,
                 pushed, stored>>

-----------------------------------------------------------------------------
(* Push looks at run_ without the mutex. *)
PushEnter(p) ==
  /\ run /\ p \notin pushing
  /\ pushed + Cardinality(pushing) < MaxPushes
  /\ pushing' = pushing \cup {p}
  /\ UNCHANGED <<run, queue, worker, contents, posted, answer, signalled, http,
                 dtor, pushed, stored>>

(* Under the mutex: append, drop the head of a queue that is too long, and   *)
(* notify the worker when there is enough to post.                           *)
EnqueueDropsNew(q, item) ==
  IF Len(q) + 1 > MaxSize THEN q ELSE Append(q, item)
EnqueueUnbounded(q, item) == Append(q, item)
Enqueue(q, item) ==
  LET longer == Append(q, item)
  IN IF Len(longer) > MaxSize THEN Tail(longer) ELSE longer

PushLockedUnnotified(p) ==
  /\ p \in pushing /\ dtor # "done"
  /\ queue' = Enqueue(queue, pushed + 1)
  /\ pushed' = pushed + 1
  /\ pushing' = pushing \ {p}
  /\ UNCHANGED <<run, worker, contents, posted, answer, signalled, http, dtor,
                 stored>>
PushLocked(p) ==
  /\ p \in pushing /\ dtor # "done"
  /\ queue' = Enqueue(queue, pushed + 1)
  /\ pushed' = pushed + 1
  /\ signalled' = (signalled \/ (worker = "wait" /\ Len(queue') > MinSize))
  /\ pushing' = pushing \ {p}
  /\ UNCHANGED <<run, worker, contents, posted, answer, http, dtor, stored>>

-----------------------------------------------------------------------------
(* while (run_). *)
WorkerTop ==
  /\ worker = "top"
  /\ worker' = IF run THEN "lock" ELSE "quit"
  /\ UNCHANGED <<run, queue, pushing, contents, posted, answer, signalled,
                 http, dtor, pushed, stored>>

(* Under the mutex: swap the queue with the empty batch, or start to wait. *)
WorkerSwap ==
  /\ worker = "lock" /\ queue # <<>>
  /\ contents' = queue /\ queue' = contents
  /\ worker' = "post"
  /\ UNCHANGED <<run, pushing, posted, answer, signalled, http, dtor, pushed,
                 stored>>
WorkerIdle ==
  /\ worker = "lock" /\ queue = <<>>
  /\ worker' = IF run THEN "wait" ELSE "top"
  /\ UNCHANGED <<run, queue, pushing, contents, posted, answer, signalled,
                 http, dtor, pushed, stored>>

(* Notified, timed out or woken for no reason. *)
WorkerWakeNotified ==
  /\ worker = "wait" /\ signalled
  /\ worker' = "top" /\ signalled' = FALSE
  /\ UNCHANGED <<run, queue, pushing, contents, posted, answer, http, dtor,
                 pushed, stored>>
WorkerWake ==
  /\ worker = "wait"
  /\ worker' = "top" /\ signalled' = FALSE
  /\ UNCHANGED <<run, queue, pushing, contents, posted, answer, http, dtor,
                 pushed, stored>>

-----------------------------------------------------------------------------
(* HandleRequestCallBack: no request at all is a failure and a 200 a         *)
(* success; any other answer leaves ok_ as it was.                           *)
CallbackOnlySucceeds(a) == IF a = "200" THEN TRUE ELSE http.ok
Callback(a) ==
  CASE a = "null" -> FALSE
    [] a = "200"  -> TRUE
    [] OTHER      -> http.ok

(* Post returns ok_ after the callback; it returns false, and ok_ stays,     *)
(* when it has no connection or request to send.                             *)
WorkerPost(a) ==
  /\ worker = "post" /\ http.init
  /\ http' = [http EXCEPT !.ok = Callback(a)]
  /\ posted' = Callback(a) /\ answer' = a
  /\ worker' = "posted"
  /\ \/ a \in {"200", "null"} /\ stored' = stored \cup Items(contents)
     \/ a # "200" /\ stored' = stored
  /\ UNCHANGED <<run, queue, pushing, contents, signalled, dtor, pushed>>
WorkerPostFails ==
  /\ worker = "post"
  /\ posted' = FALSE /\ answer' = "error"
  /\ worker' = "posted"
  /\ UNCHANGED <<run, queue, pushing, contents, signalled, http, dtor, pushed,
                 stored>>

(* while (!ok && run_), and the batch is cleared whichever ended it. *)
WorkerPostedForever ==
  /\ worker = "posted"
  /\ IF posted THEN contents' = <<>> /\ worker' = "top"
     ELSE contents' = contents /\ worker' = "post"
  /\ UNCHANGED <<run, queue, pushing, posted, answer, signalled, http, dtor,
                 pushed, stored>>
WorkerPosted ==
  /\ worker = "posted"
  /\ IF posted \/ ~run THEN contents' = <<>> /\ worker' = "top"
     ELSE contents' = contents /\ worker' = "post"
  /\ UNCHANGED <<run, queue, pushing, posted, answer, signalled, http, dtor,
                 pushed, stored>>

Worker ==
  \/ WorkerTop \/ WorkerSwap \/ WorkerIdle \/ WorkerWake
  \/ \E a \in {"200", "500", "null"} : WorkerPost(a)
  \/ WorkerPostFails \/ WorkerPosted

-----------------------------------------------------------------------------
(* ~ELKAsyncUploader, at the end of the process: stop, join, Close. *)
DtorStop ==
  /\ dtor = "no" /\ run
  /\ run' = FALSE /\ dtor' = "join"
  /\ signalled' = (signalled \/ worker = "wait")
  /\ UNCHANGED <<queue, pushing, worker, contents, posted, answer, http,
                 pushed, stored>>
DtorJoined ==
  /\ dtor = "join" /\ worker = "quit"
  /\ dtor' = "done" /\ http' = [http EXCEPT !.init = FALSE]
  /\ UNCHANGED <<run, queue, pushing, worker, contents, posted, answer,
                 signalled, pushed, stored>>

Next ==
  \/ Initialize
  \/ \E p \in Producers : PushEnter(p) \/ PushLocked(p)
  \/ Worker
  \/ DtorStop \/ DtorJoined

Spec == Init /\ [][Next]_vars

(* The worker and a thread that wants the mutex are scheduled, and wait_for  *)
(* ends; nobody has to log, nor the process to end.                          *)
Fairness ==
  /\ WF_vars(Worker) /\ WF_vars(DtorJoined)
  /\ \A p \in Producers : WF_vars(PushLocked(p))
FairSpec == Spec /\ Fairness
-----------------------------------------------------------------------------
Consecutive(s) == \A i, j \in DOMAIN s : s[i] - s[j] = i - j

TypeOK ==
  /\ run \in BOOLEAN /\ posted \in BOOLEAN /\ signalled \in BOOLEAN
  /\ queue \in Seq(1..pushed) /\ contents \in Seq(1..pushed)
  /\ Len(queue) <= MaxSize /\ Len(contents) <= MaxSize
  /\ pushing \in SUBSET Producers
  /\ worker \in {"none", "top", "lock", "wait", "post", "posted", "quit"}
  /\ answer \in {"none", "200", "500", "null", "error"}
  /\ http \in [init : BOOLEAN, ok : BOOLEAN]
  /\ dtor \in {"no", "join", "done"}
  /\ pushed \in Nat /\ stored \in SUBSET (1..pushed)

(* What is pending is without gaps on either side of the swap: the queue is  *)
(* the newest items, the batch a run of older ones, so that nothing is       *)
(* posted out of order or queued twice, whoever pushes while a post is       *)
(* retried.                                                                  *)
PendingInOrder ==
  /\ Consecutive(queue) /\ Consecutive(contents)
  /\ queue # <<>> => queue[Len(queue)] = pushed
  /\ \A i \in DOMAIN contents, j \in DOMAIN queue : contents[i] < queue[j]

(* The worker sleeps through neither a queue that is worth posting nor the   *)
(* end: whoever makes the queue long enough, or clears run_, while it waits  *)
(* has notified it.                                                          *)
WorkerIsWoken ==
  worker = "wait" /\ ~signalled => run /\ Len(queue) <= MinSize

(* An item leaves only because the store has it, because it is the oldest of *)
(* a full queue, because the uploader shuts down, or because the store       *)
(* answered its batch with an error (which a stale ok_ may report as a       *)
(* success): a batch that got no answer is kept for a retry.                 *)
LeavesForAReason ==
  [][\A i \in Pending \ Pending' :
       \/ i \in stored
       \/ Len(queue) = MaxSize /\ i = queue[1]
       \/ ~run
       \/ i \in Items(contents) /\ answer = "500"]_vars

(* A log item that is queued does not stay so while the uploader runs, if    *)
(* the store keeps answering: neither the queue's minimum nor a batch that   *)
(* is being retried holds it back for ever.                                  *)
StoreAnswers == SF_vars(WorkerPost("200"))
QueueDrains ==
  StoreAnswers =>
    \A i \in 1..MaxPushes : i \in Pending ~> (i \notin Pending \/ ~run)

(* The destructor returns, though the store may never answer. *)
DestructorReturns == dtor = "join" ~> dtor = "done"

(* async_upload.cpp:68 on the retry loop: data is not discarded. *)
DataIsNotDiscarded ==
  [][\A i \in Items(contents) \ Items(contents)' : i \in stored \/ ~run]_vars
=============================================================================
