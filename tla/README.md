# Verification of the gRPC push SDK

TLA+ models of `src/`, the client library of a push gateway: an application
logs a user in, joins groups and receives messages over one bidirectional gRPC
stream that the library keeps alive. The models are checked with TLC; the safety
of the session engine, of the SDK's start and end, of the stream, of the protocol's
codec and of the log uploader is proved with TLAPS, and so is that the stream
implements the transport that the session engine runs over.

Source paths below are relative to `src/src/` unless they begin with `include/`.

## Inventory

| Component | Source | State | Operations | Modelled in |
|---|---|---|---|---|
| Session engine, `PushSDK` | `core/core.{h,cpp}` | `user_`, `groups_`, `logining_` (under `user_mux_`); `cb_map_` (under `cb_map_mux_`); `event_cb_pctxs_` | Login, Logout, JoinGroup, LeaveGroup, relogin, rejoin_group, OnMessage and its handlers, the timer thread, the event thread | `Session` |
| Client loop, `Client` | `core/client.{h,cpp}` | `msg_queue_`, `st_`, `run_`, `going_to_quit_`, `ok` | Send, CleanQueue, Destroy, one handler per completion event | `StreamLoop`, `Transport`, `Channel` |
| Stream, `Stream` | `core/stream.{h,cpp}` | `status_`, `msg_queue_`, the call | Init, Process, Send, SendMsgs, HalfClose, Finish | `StreamLoop` |
| Public API | `push_sdk.cpp`, `include/push_sdk.h` | `_initialized`, `_log_initialized`, `_mux` | `PushSDK*` functions | the `api` thread of `Session`; `Lifecycle`, `Handlers` |
| SDK lifecycle | `core/core.cpp:33-159, 220-261`, `push_sdk.cpp:13-67` | the three threads and their quit flags, `client_`, `event_cb_pctxs_` | Initialize, Destroy | `Lifecycle` |
| Handler registry | `core/core.cpp:472-522` | `hdls_` (under `hdls_mux_`) | Create, Destroy, Add*CB, the client loop's walks | `Handlers` |
| Packet codec | `core/packet.cpp`, `Utils::GetSUID` | none | `make_*_packet`, `handle_response`'s decoding | `Packet`, `Codec` |
| Generated protocol | `proto/pushGateWay.pb.{h,cc}` | the fields of 17 messages | Clear, MergeFrom, two parsers, two serialisers, ByteSizeLong | `PushGateWay*`, `Message`, `WireFormat` |
| ELK uploader, HTTP client | `elk/`, `common/http_client.cpp` | bounded queue, batch, `run_`, `ok_` | Push, worker, Post, destructor | `Uploader` |
| Logging | `common/log.cpp` | the registered loggers | init_logger | its outcome in `Lifecycle` |
| Singleton, configuration, build | `common/singleton.h`, `common/config.h`, `build/` | | | not modelled, see below |

### How they interact

The application's call takes `_mux` (`push_sdk.cpp`), so one synchronous call is
in progress at a time, changes the session under `user_mux_`, then, outside of
it, registers a `CallContext` in `cb_map_` under the current time, hands a packet
to `Client::Send` and waits on the context. The client loop moves packets from
`Client::msg_queue_` to `Stream::msg_queue_` to the stream, and calls
`OnConnected` (relogin) and `OnMessage`. An answer names its call by the
timestamp it echoes; the loop takes the context out of `cb_map_`, applies the
outcome and notifies the caller or, for a retry of the SDK's own, queues an event
for the event thread. The timer thread expires old entries of `cb_map_`, sends
the SDK's own requests again and notifies `TIMEOUT`.

### What is hard

* Four threads and five mutexes, with state changed outside of them:
  `logining_`, the timer's walk of `cb_map_`, `NotifyChannelState`.
* One call can be answered, time out, and be overtaken by a kick, a relogin or a
  newer call, in any order.
* The stream breaks with packets in either queue or on the way; the client's
  queue survives it, the stream's does not.
* The client reacts to messages it does not expect by resending LOGOUT and
  LEAVE_GROUP, which races the application's next Login or JoinGroup.
* Completion-queue tags name events, not streams.
* Destroy stops three threads that wait for each other: callbacks run on two of
  them and may themselves make synchronous calls, whose wait only the third ends.
* Field numbers, wire types and widths of each message are written down in five
  generated functions that must agree.
* The uploader's worker swaps, waits, posts and retries while others push.

`PROJECT.json` lists each of these hazards at its line, with the properties that
cover it.

## Modules

| Module | What it is |
|---|---|
| `Transport` | What `Client` promises to `PushSDK`: a queue that outlives the stream, and a FIFO each way that does not. Operators to be conjoined. |
| `Channel` | The transport as a specification of its own, until `Client::Destroy`. |
| `Session` | The session engine over `Transport`, with the gateway as environment. |
| `MCSession` | Values of its constants for TLC. |
| `StreamLoop` | The client loop and the stream over a completion queue; `RefinesTransport` says that it implements `Channel`. |
| `Handlers` | The handlers' records and the client loop's walks over them. |
| `Lifecycle` | Initialize and Destroy against the threads, calls from callbacks, over `Handlers`. |
| `WireFormat` | Protobuf's encoding as the generated code uses it (external). |
| `PushGateWay`, `PushGateWayParse`, `PushGateWayWrite` | The generated classes as tables: fields, Clear and MergeFrom; the parsers; the serialisers and sizes. |
| `Message` | What the functions of a generated class do, driven by those tables. |
| `Packet` | The SDK's packets, the gateway's reading of them, and the SDK's reading of answers. |
| `Codec`, `MCCodec` | What travels on the stream, and sample messages, calls and answers for TLC. |
| `Uploader` | The log uploader and the HTTP client it posts with. |
| `SessionProofs` | The types of `Session`, the inductive invariant of its call table with three safety properties, and `LoginingIsTracked`. |
| `SessionRetraction` | `NoRetractionAfterRequest`, without early wake-ups. |
| `LifecycleProofs`, `UploaderProofs` | The safety of `Lifecycle` and `Uploader`. |
| `StreamProofs` | The safety of `StreamLoop`, and that it implements `Channel`. |
| `SequenceFolds` | Induction over sequences and the laws of their folds, to be instantiated with what is folded. |
| `CodecLemmas` | What the generated parsers and serialisers do to any bytes and any message. |
| `CodecProofs` | The properties of `Codec`, from those lemmas. |

`StreamLoop` implements `Channel`, the operators of `Transport` over which `Session`
runs, as a system of their own; `Lifecycle` runs
over `Handlers`, and takes the session engine and the stream as given: a call is
an entry of `cb_map_` and someone who waits, and what answers may do to the user
is a choice. `Codec` shows what `Session` assumes of packets, that a request and
its answer are matched by the timestamp.

### Session

A critical section of `user_mux_` is one action; each piece of code outside of it
is an action of its own. `Login`, `Logout`, `JoinGroup` and `LeaveGroup` are the
functions up to the unlock; `CallRegister`, `CallSend` and `CallReturn` are the
three parts of `call_sync` that follow. `RecvAnswer` is `handle_response` up to
the end of its critical section, then `ClearLogining` (`logining_ = false`),
`LoginFailed`, `LoginSucceeded`, `JoinGroupFailed` or `NothingToApply`, then
`NetNotify`. `TimerScan`, the three handlers of a timeout, `TimerNotify` and
`TimerErase` are the loop body of the timer thread, in its order.
`relogin` and `rejoin_group` run within the step that calls them, since they hold
`user_mux_`.

Timestamps: `now` is read under `user_mux_` from a nanosecond clock, so the model
takes it from a counter and each call's is unique. The table is `cbMap`, a set of
timestamps, and `ctx` keeps the `CallContext` of each call after it left the
table, as the shared pointers of its waiter and its handler do. `ctx[ts].answer`
is a history variable.

Undefined behaviour: `cb_map_.erase(it)` with an entry that is gone
(`core.cpp:92`) is modelled as the outcome that lets the program go on, nothing
erased. Another outcome, an abort, ends the behaviour and satisfies the safety
properties up to there; corrupted memory is beyond any model. That the entry can
be gone is shown by the run `session_iterator`.

What is left out of `Session`: callbacks and handlers (they change nothing the
session reads), logs and uploads, the heartbeat, the layout of packets. Calls
that return without a change of state are stuttering steps.

### StreamLoop

One action for each event the loop can take from the queue (`Connected`,
`ReadDone`, `WriteDone`, `Failed`, `HalfClosed`, `Finished`), one for `Timeout`,
and `CreateStream`, because the loop releases `stream_mux_` between FINISHED and
the next stream (`client.cpp:255-257`). `ok` is a variable: a TIMEOUT leaves it at
the last event's value and the loop reads it. `Send` and `Destroy` are other
threads'. gRPC is external, and assumed to complete what was started, to let
nothing succeed after the call ended, and to complete FINISHED when the call has
ended and the other operations are complete. A write after WritesDone fails.

The refinement mapping: the transport is `up` from the CONNECTED event to FINISHED;
`sendQ` is the client's queue; `wire` is what the stream took and the server has not
read, without heartbeats; `inbox` is what the server wrote and the loop has not
handled. A stream that the server refused is never up. From `Destroy` on nothing is
promised, and `Channel` has closed.

### Lifecycle and Handlers

The application's thread is a program counter, `app`, which steps through
`PushSDK::Initialize` and `PushSDK::Destroy` (`DestroySteps` is the order of the
latter). The event thread has the places of its loop: the look at the quit flag,
the critical section, the wait, the delivery of each event it took. The timer
thread ticks and scans; the client loop answers calls, emits events, logs in when
it connects (`LoopConnected`), and walks over the handlers. A walk for a message
holds `stream_mux_` and `hdls_mux_`; a walk for the channel's state holds neither
(`client.cpp:223` comes before the lock). `Call`, `LockAndRegister`, `SendCall`
and `Return` are a synchronous call of a callback, under `_mux`. The wait of
`call_sync` is twice the time after which the timer thread expires a call, so it
runs out by itself only when there is no timer thread (`Return`). It has no
predicate, so it may also end spuriously, or with a timer thread that is late by as
much again: `WakeEarly`, an action without fairness. The context such a wait leaves
in `cb_map_` becomes an entry `"left"`, which is answered or expires with nobody
behind it.

`InitLogger` creates the loggers of the build (`Linux`, `config.h:29-60`): on Linux
the sdk's on the console, its file's and grpc's; elsewhere the sdk's file's. spdlog,
which is external, refuses a name that it has. `unopened` records whether a file
could not be opened in the last attempt or before it. An empty `log_dir`, with which
there are no files, is left out.

Left out: the guard against a Destroy by the event thread, which throws before it
changes anything (`core.cpp:227`), failures of `Client::Initialize` (it has none),
and calls by other application threads during Destroy, which
`include/push_sdk.h:129` excludes ("非线程安全", not thread safe).
A walk without `hdls_mux_` whose vector changes under it is undefined behaviour;
the model lets it go on by position.

### Codec

Bytes are sequences of tokens: a field with its number, wire type, value or body,
and, where delimited, the length it announces; inside a string, chunks that are
UTF-8 or not, and decimal numbers. `Message` interprets the tables of
`PushGateWay*`, one entry for each case of the generated functions: which tag a
parser compares with and what it stores, which number, type and order a serialiser
writes, which width the size function counts. Both parsers are there because
`GOOGLE_PROTOBUF_ENABLE_EXPERIMENTAL_PARSER` chooses between them. The widths of
integers are constants, kept small for TLC.

What is specified independently of the tables is `Meaning`, by the declared
fields of `Class`; the parsers, serialisers and sizes are held against it and
against each other. A peer of another version appears as foreign fields.

### Uploader

Items are numbered in the order they enter the queue. `PushEnter` is the look at
`run_` without the mutex, `PushLocked` the critical section. The worker's places
are its loop head, its critical section, the wait, before and after `Post`.
`Callback` is `HandleRequestCallBack`, whose `ok_` survives a request.

## Runs

| Run | Shows | Bounds |
|---|---|---|
| `session_safety` | `TypeOK`, `NoOrphanedCaller`, `ReturnIsJustified`, `GroupsImplyUser`, `LoginingIsTracked`, `NoRetractionAfterRequest` | six scenarios of up to 4 calls and 3 faults each, with a group whose id is 0, 6 timestamps |
| `session_recovery` | `CallReturns`, `SessionRecovers` under fairness | 2 calls, a break, a kick; 1 call, 2 breaks, a retry slower than its timeout |
| `stream_serves` | `TypeOK`, `OneOfEach`, `FreshStreamAlone`, `RefinesTransport`, `HalfClosedDestroyReturns`, `QueuesDrain` | 2 packets each way, a heartbeat, 2 faults |
| `codec` | `ReadsAsDeclared`, `ConcatenationMerges`, `SizeIsLength`, `RewritingLosesNothing`, `RequestIsRead`, `AnswerIsMatched` | all 17 messages, 2 writes of at most one set field, each field number also written as another type |
| `upload` | `TypeOK`, `PendingInOrder`, `WorkerIsWoken`, `LeavesForAReason`, `QueueDrains`, `DestructorReturns` | 2 producers, 6 items, a queue of 3 |
| `lifecycle` | `TypeOK`, `DestroyLeavesNothing`, `ClientIsThere`, `OldEventsAreLate`, `LogFailureHasCause`, `DestroyedHandlerIsQuiet`, `CallbackCallIsTrue`, `DestroyReturns`, `EventsAreDelivered` | 2 lives, 2 calls, 1 event, 1 handler |
| `session_early_wake` | violation of `ReturnIsJustified` | 1 call, a break, early wake-ups allowed |
| `session_wedge` | violation of `SessionAlwaysRecovers`, under fairness | 1 call, a break |
| `session_iterator` | violation of `IteratorStaysValid` | 1 call, a break |
| `session_stale_refusal` | violation of `FailedReloginClearsOnlyItself` | 2 users, 2 calls, a break, a kick, a refusal |
| `stream_destroy_hang` | violation of `DestroyReturns`, under fairness | 1 packet each way, a fault |
| `upload_discards` | violation of `DataIsNotDiscarded` | as `upload` |

In `Session` the application's calls and the environment's faults are bought from
a budget, one of the set `Budgets` in each behaviour; `MaxTs` bounds the calls and
retries issued. The six scenarios are: the gateway speaks first (kicks, pushes,
garbled answers against 3 calls); the link breaks under 2 calls and a thread
stalls; answers refuse and packets cannot be encoded; 4 calls, a push and a stall;
a break and a kick; two breaks and a slow retry. The fourth is the least in which a
Login times out with its packet queued and a second, rejected Login empties the
queue behind a resent LOGOUT; `NoRetractionAfterRequest` therefore speaks of
requests that have not timed out. A user and a group are enough for the safety runs,
because the session holds at most one user and treats groups independently; the
run about a second user has two. Two calls are the shortest sequence in which one
call's late effects meet the next, and three let a login, a logout and a login (or
a join, a leave and a join) meet the resent packets. A retry whose packet is still
on its way expires only at the budget's expense, because each expiry issues
another; a synchronous call may expire at any time. Expiry while the SDK's own
threads do not run (`Stalled`) is bought too.

In `Lifecycle` two lives are what an old event or call needs to meet a new one;
two calls let the event thread and the client loop each wait at once, for `_mux`
and for each other. The build is Linux's, whose loggers are more; the other build's
are covered by the proof. In `Uploader` a queue of three, with one as the minimum, is
the least in which the swap, the drop and the notification come apart; six items
fill it twice. In `Codec` two writes are the least that merge, and the sample
values stand at the ends of each width; the widths keep the order of the real
ones (uint32 below enum's sign extension below uint64).

Deadlock is not checked: a behaviour in which the application calls nothing more
and nothing fails rests, and the bounds end the others.

### Fairness

The threads run (`ApiStep`, `NetStep`, `TimerStep`, `DeliverEvent`), a lost
stream is replaced (`OnConnected`: the loop creates a stream after every FINISHED,
`client.cpp:255-257`) and the gateway serves what it is sent. Nothing is assumed
of the application's calls, of faults or of pushes. In `StreamLoop` the loop runs,
the joining thread runs, gRPC completes what was started, and the server reads
and ends a call that the client half-closed.

In `Lifecycle` the SDK's threads, callbacks and pending calls go on (weak
fairness). Two steps have strong fairness: `StopLoop`, that `stream_mux_` is
granted to a thread that waits for it while the loop keeps taking it; and
`LoopQuit`, that a half-closed stream finishes, which `HalfClosedDestroyReturns`
of `StreamLoop` is about. The code does not always give the latter: the run
`stream_destroy_hang` has a stream that HalfClose passes by and that never finishes,
and `DestroyReturns` of `Lifecycle` says nothing of a Destroy that meets it. In `Uploader` the worker
runs, `wait_for` ends, and a thread that wants the mutex gets it; that the store
answers is a hypothesis of `QueueDrains` alone.

## Findings

* `session_early_wake`: `call_sync` waits without a predicate and its result
  starts as OK, so a spurious wake-up returns success (`core/core.cpp:702`).
* `session_wedge`: a synchronous login that times out leaves `logining_` set and
  the user in place; no reconnection logs that user in again
  (`core/core.cpp:527`, `308`, `814`). `SessionRecovers` is what the run of
  `session_recovery` shows instead: without refusals and wedged logins, the gateway
  comes to know the user and groups the client has. With refusals it does not hold:
  one that arrives after its call has timed out is ignored (`core/core.h:254`), and
  a JoinGroup refused so late leaves its group on the client for good.
* `session_iterator`: the timer walks `cb_map_` without its mutex
  (`core/core.cpp:82-92`).
* `session_stale_refusal`: the refusal of an old relogin clears a newer login
  (`core/core.h:150-157`).
* `stream_destroy_hang`: `Destroy` before the stream has connected, or between
  two streams, joins a loop that does not end (`core/stream.cpp:155`,
  `core/client.cpp:306`).
* `upload_discards`: an answer other than a 200 leaves `ok_` as it was, and it is
  true at first, so the batch is cleared though the store refused it
  (`common/http_client.cpp:23`, against the comment at `elk/async_upload.cpp:68`).

Of less weight, and stated by properties that hold: a packet whose account is not
UTF-8 is sent and cannot be read (`RequestIsRead`); events of the client loop
between Destroy's clearing of the queue and its join are told to the next life
(`OldEventsAreLate`); on Linux a log file, the sdk's or grpc's, that cannot
be opened once makes PushSDKInitialize fail from then on, and nothing else makes it
fail for its logs (`LogFailureHasCause`).

## Proofs

All for every value of the constants, from the assumptions the modules name: in
`StreamLoop`, the bounds are natural numbers and a heartbeat is no packet; in
`Session`, zero groups are groups, `NoUser` and `NoGroup` are not members, the bounds
are natural numbers; in `Uploader`, the sizes are natural numbers and the minimum is
below the maximum; in `Handlers` and `Lifecycle`, `NoHandler` is no handler and the
bounds are natural numbers, the build Linux's or not; in `Message`, the integers' widths are positive, those of
uint32 and enum are at most that of uint64, and that of enum divides it; in `Packet`,
the suid has room for a uid below the shift and for 65536 terminal types above it; in
`Codec`, messages are made of values of their fields' types, unknown fields are none
of the declared, and calls have the types of `push_sdk.h`. 2^32, 2^32, 2^64 and 2^40
satisfy these, and so do the small widths of the run.

* `SessionProofs!TypeCorrect`: `TypeOK` is inductive as it stands. One lemma for
  each shared piece (`Call`, `Notify`, `Relogin`, `RejoinGroup`, the operators of
  `Transport`) and one step for each action. The clause that a context carries a
  user if and only if it is a login's is what makes `relogin`'s dereference of
  `user_` safe.
* `SessionProofs!TableCorrect`: `Spec => []IInv`, where `IInv` adds four facts to
  `TypeOK` and `NoOrphanedCaller`. `CallsWereMade`: table and threads name calls
  below `clock`, and a caller's call is not a retry. `ErasedIsNotified`: the timer
  erases a caller's call only after it notified it. `AnswersMatch`: calls in the
  table have no answer yet, and a result OK or FAILED is the recorded answer.
  `ReturnIsJustified`, under `~EarlyWake`. `NoOrphanedCaller` alone is not
  inductive, because it says nothing of the entry the timer is about to erase, and
  `ReturnIsJustified` is not, because it says nothing of calls that have yet to
  return. `CallersAreNotStranded` and `ReturnsAreJustified` follow;
  `GroupsNeedUser` has a small invariant of its own (the codec budget only falls).
* `SessionProofs!LoginingTracked`: `LoginingIsTracked` strengthened so that two
  calls do not count as tracking `logining_`: the retry the timer is about to
  erase (`Dying`), for which it has sent another, and the call whose timeout the
  client loop is about to overwrite with an answer (`Revising`). With them,
  `TimeoutsMatch`: the client loop's call is out of the table, and a caller's call
  that is still in the table when the timer erases it has timed out.
* `SessionRetraction!RetractionsAreOverruled`: `NoRetractionAfterRequest`, without
  early wake-ups. The packets under way are seen as one sequence, what the stream took
  and then the client's queue, and `RetractionInv` says of it, besides `IInv`:
  `PacketsInv`, that a packet with a timestamp is its call's, and that a call is in
  one place at a time, with its caller, under way or answered; `RetractsUnwanted`,
  that a caller about to send a retraction no longer holds what it retracts;
  `CallsSettle`, that a caller has returned only with an answer or a timeout, which an
  early wake-up breaks; and `WantsAreAsked`, that for the user and each group held a
  request is yet to be sent, or stands behind every retraction under way, or was
  dropped, for which its call must have timed out. The last is what must hold at the
  end, said so that it survives a queue that loses packets at either end. Every step
  of the session is of one of four kinds (`Acts`): it listens (packets go from the
  front), speaks (one is queued, a retraction only of what is not wanted), begins a
  call (and may empty the client's queue), or empties that queue. The invariant is
  proved of the four kinds, and of each action that it is of one of them.

* `UploaderProofs`: `TypeOK`, `PendingInOrder` and `WorkerIsWoken` are inductive
  together with `BatchInv`, which says that the batch is empty but while it is
  posted, that there is no worker before Initialize, and that a batch Post reported
  done is stored or was answered with an error.
  `LeavesForAReason` follows from them step by step.
* `LifecycleProofs`: `IInv` has four parts. `ThreadsInv` says which threads exist
  at each step of Initialize and Destroy, `CallsInv` that a call is made in a
  callback and a callback by a thread that runs, `AnswersInv` that a notified
  success is an answered one, `HandlersInv` where a walk stands. From them
  `ClientIsThere`, `DestroyLeavesNothing`, `DestroyedHandlerIsQuiet`, and
  `CallbackCallIsTrue`: while the event thread's callback waits, the timer thread
  is there, so that the wait ends notified or, which the property allows for by name
  (`WokenEarly`), early; it does not run out by itself. `EventsInv` dates the events
  in both queues (nothing but the client loop emits during a Destroy) and gives
  `OldEventsAreLate`; `LoggerInv`, that before `_log_initialized` is set only a
  file's failure in a Linux build can have left a name registered, gives
  `LogFailureHasCause`.

* `StreamProofs`: `TypeOK`, `OneOfEach` and `FreshStreamAlone` of `StreamLoop`.
  `status_` does not protect them by itself: a WRITE_DONE that is handled after
  Finish sets it back to READY_TO_WRITE, after which Finish could be started a
  second time and FINISHED no longer be the last completion. `DeadInv` excludes
  that: from a failed completion, from a half-close or from a finished stream on,
  the call is over or its writing side closed with no write under way, and no
  completion that is left succeeds (but FINISHED, and reads once it is closed).
  Around it `ConnectingInv`, `WritingInv`, `FinishInv` and `ClosedInv` say which
  operations may be under way in each status, `LastInv` that without Destroy
  nothing is left behind FINISHED, and `ReadInv` that a read that succeeded has its
  packet. The proof reduces the handlers to what they leave of the queue
  (`Leaves`), and gRPC's steps to one (`Completes`).

* `StreamProofs!LoopRefinesTransport`: every step of `StreamLoop` is one of
  `Channel` or leaves its variables. Besides `IInv` the steps need `CallInv`: a stream
  that connects holds nothing (`FreshInv`), a call is new until its start completes
  (`NewInv`), of a refused one nothing succeeds but its end (`RefusedInv`), and only
  Destroy half-closes (`HalfInv`). The heartbeats are filtered out of a sequence by a
  recursive function, and that the filter distributes over concatenation needs
  induction over its length: `SeqSetInduction` states it for a set of sequences rather
  than for a predicate, which is within the provers' reach.

* `CodecProofs`: `ReadsAsDeclared`, `ConcatenationMerges`, `RewritingLosesNothing`,
  `SizeIsLength`, `RequestIsRead` and `AnswerIsMatched`, for all widths of the
  integers, messages of any length and any number of them on the stream. The argument has six parts, each a
  group of lemmas in `CodecLemmas` but the last.
  *The tables fit.* `ReaderFits`, `WriterFits`, `ClearFits` and `MergeFits` say what it
  is for a generated function to agree with the declared fields: the tag a parser
  compares with is that of the number and type, its conversion is for that type, a
  serialiser writes each field once. The proof looks at each of the seventeen classes,
  field by field; nothing else in it depends on a particular message.
  *Bytes are read* (`BytesAreRead`): a parser whose table fits reads any sequence of
  tokens as `Meaning` has it, or refuses it because it is not `Readable`; by induction
  over the tokens, with one lemma for each kind of field of what one more token does to
  its meaning.
  *What is written merges* (`MessageIsMerged`): the meaning of bytes followed by a
  serialised message is `MergeFrom` of the bytes' meaning and the message; by induction
  over the rows of the serialiser's table, and for a map over its entries, whose keys
  replace the earlier ones in whatever order they are written.
  *What was read is a message* (`MeaningIsMessage`), and legible, so that writing and
  reading it again is the case of the empty beginning (`RewrittenIsRead`).
  *What is in transit*: `IInv` of `CodecProofs` says that without a call the bytes are
  tokens which, if none are foreign, mean what the messages sent merge to; that a
  call's bytes are its packet; and that an answer's bytes are matched with the call.
  The properties alone are not inductive: that `Parse` is right of the bytes so far
  says nothing of them with another message appended, and their `Meaning` does.
  `PacketIsSound` carries a request through its two encodings, one within the other,
  and `SuidIs` takes the uid and the terminal type out of the suid again.
  `SizeIsLength` rests on *sizes are lengths* (`SerializedLength`), whose tables have
  to fit too (`SizerFits`): a field is as long as `FieldSize` says, by its type, and a
  message as long as the sum of its fields. The code adds the fields up in an order of
  its own, and a map's entries in that of its hash table; so the model's sums are
  `SumFunction`s over sets, and `SumsTakeOut` proves, by induction over the size of the
  set, that any element may be taken out of such a sum first.
  The folds the model is made of are `FoldLeft`s of the community modules.
  `SequenceFolds` derives for them what a recursion would define, of an operator that
  is a constant of the module, so that an INSTANCE for each operator folded with
  provides its laws. What an induction proves is a set there, of lengths or of
  sequences, as a predicate is beyond the provers.

Only model-checked:

* The liveness properties, because the provers have no ENABLED.
## Not modelled

* `Singleton`: an atomic flag and a spin; what could go wrong, a constructor that
  throws, does not happen in the classes built this way.
* `PushSDKGetError` and the checks for null arguments. GetError reads `desc_` and
  `code_` without a lock against `call_sync`, a data race, and the API does not say
  whose error it returns.
* The channel's state and the choice of ports of `Client`; the stream does not
  depend on them.
* Reflection, arenas and Swap of the generated code, and the gRPC stubs.
* Formatting of logs, packets to JSON, times and paths; configuration; build.
* Corrupted memory after a data race, which no state of a model holds.

## Plan

What would come next: a lossy queue as the specification the uploader implements; a
composition of `Session` with `Lifecycle`, so that a Destroy meets calls of other
threads.
