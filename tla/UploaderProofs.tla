--------------------------- MODULE UploaderProofs ---------------------------
(*****************************************************************************)
(* The uploader's invariants and its reasons for losing an item, for any     *)
(* threads, any sizes of the queue and any number of items.                  *)
(*****************************************************************************)
EXTENDS Uploader, TLAPS

(* The batch exists only from the swap to the end of the retry loop, and a   *)
(* true Post means a 200 that stored it, or an error that changed nothing.   *)
BatchInv ==
  /\ worker \notin {"post", "posted"} => contents = <<>>
  /\ ~run /\ dtor = "no" => worker = "none"
  /\ worker = "posted" /\ posted =>
       answer = "500" \/ Items(contents) \subseteq stored

IInv == TypeOK /\ PendingInOrder /\ WorkerIsWoken /\ BatchInv

LEMMA TailFacts ==
  ASSUME NEW S, NEW s \in Seq(S), Len(s) >= 1
  PROVE  /\ Tail(s) \in Seq(S) /\ Len(Tail(s)) = Len(s) - 1
         /\ DOMAIN Tail(s) = 1..(Len(s) - 1)
         /\ \A i \in 1..(Len(s) - 1) : Tail(s)[i] = s[i + 1]
OBVIOUS

(* What Enqueue makes of a queue that holds the newest items in order: such  *)
(* a queue again, no longer than allowed, whose items are the old ones and   *)
(* the new, but for the head of a full queue.                                *)
LEMMA EnqueueFacts ==
  ASSUME NEW n \in Nat, NEW q \in Seq(1..n), Len(q) <= MaxSize,
         Consecutive(q), q # <<>> => q[Len(q)] = n
  PROVE  LET e == Enqueue(q, n + 1)
         IN /\ e \in Seq(1..(n + 1)) /\ Len(e) <= MaxSize
            /\ Consecutive(e) /\ e # <<>> /\ e[Len(e)] = n + 1
            /\ Items(e) \subseteq Items(q) \cup {n + 1}
            /\ \A x \in Items(q) \ Items(e) : Len(q) = MaxSize /\ x = q[1]
<1> USE SizesAssumption
<1> DEFINE l == Append(q, n + 1)
<1>1. /\ l \in Seq(1..(n + 1)) /\ Len(l) = Len(q) + 1
      /\ Len(q) \in Nat /\ DOMAIN l = 1..(Len(q) + 1)
      /\ \A i \in 1..Len(q) : l[i] = q[i]
      /\ l[Len(q) + 1] = n + 1
  <2>1. q \in Seq(1..(n + 1))
    OBVIOUS
  <2> QED BY <2>1
<1>2. Consecutive(l)
  <2> SUFFICES ASSUME NEW i \in DOMAIN l, NEW j \in DOMAIN l
               PROVE  l[i] - l[j] = i - j
    BY DEF Consecutive
  <2>1. i \in 1..(Len(q) + 1) /\ j \in 1..(Len(q) + 1)
    BY <1>1
  <2>2. \A k \in 1..(Len(q) + 1) : l[k] = n + 1 - (Len(q) + 1 - k)
    <3> SUFFICES ASSUME NEW k \in 1..(Len(q) + 1)
                 PROVE  l[k] = n + 1 - (Len(q) + 1 - k)
      OBVIOUS
    <3>1. CASE k = Len(q) + 1
      BY <3>1, <1>1
    <3>2. CASE k \in 1..Len(q)
      <4>1. q # <<>> /\ k \in DOMAIN q /\ Len(q) \in DOMAIN q
        BY <3>2
      <4>2. q[k] - q[Len(q)] = k - Len(q) /\ q[Len(q)] = n
        BY <4>1 DEF Consecutive
      <4>3. l[k] = q[k] /\ q[k] \in 1..n
        BY <4>1, <1>1, <3>2
      <4> QED BY <4>2, <4>3
    <3> QED BY <3>1, <3>2
  <2> QED BY <2>1, <2>2
<1>3. Items(l) = Items(q) \cup {n + 1}
  <2> HIDE DEF l
  <2>1. DOMAIN q = 1..Len(q)
    OBVIOUS
  <2>2. Items(l) \subseteq Items(q) \cup {n + 1}
    <3> SUFFICES ASSUME NEW i \in DOMAIN l
                 PROVE  l[i] \in Items(q) \cup {n + 1}
      BY DEF Items
    <3>1. i \in 1..Len(q) \/ i = Len(q) + 1
      BY <1>1
    <3> QED BY <3>1, <2>1, <1>1 DEF Items
  <2>3. \A i \in DOMAIN q : i \in DOMAIN l /\ l[i] = q[i]
    BY <2>1, <1>1
  <2>4. Len(q) + 1 \in DOMAIN l
    BY <1>1
  <2> QED BY <2>2, <2>3, <2>4, <1>1 DEF Items
<1>4. CASE Len(l) <= MaxSize
  <2>1. Enqueue(q, n + 1) = l
    BY <1>4 DEF Enqueue
  <2> HIDE DEF l
  <2>2. l # <<>> /\ l[Len(l)] = n + 1
    BY <1>1
  <2> QED BY <1>1, <1>2, <1>3, <1>4, <2>1, <2>2
<1>5. CASE Len(l) > MaxSize
  <2> DEFINE e == Tail(l)
  <2>1. Enqueue(q, n + 1) = e /\ Len(q) = MaxSize /\ MaxSize >= 1
    BY <1>1, <1>5 DEF Enqueue
  <2> HIDE DEF l
  <2>2. /\ e \in Seq(1..(n + 1)) /\ Len(e) = Len(q)
        /\ DOMAIN e = 1..Len(q)
        /\ \A i \in 1..Len(q) : e[i] = l[i + 1]
    BY <1>1, TailFacts
  <2> HIDE DEF e
  <2>3. Consecutive(e)
    <3> SUFFICES ASSUME NEW i \in DOMAIN e, NEW j \in DOMAIN e
                 PROVE  e[i] - e[j] = i - j
      BY DEF Consecutive
    <3>1. i \in 1..Len(q) /\ j \in 1..Len(q)
      BY <2>2
    <3>2. i + 1 \in DOMAIN l /\ j + 1 \in DOMAIN l
      <4>1. Len(q) \in Nat /\ DOMAIN l = 1..(Len(q) + 1)
        BY <1>1
      <4>2. \A k \in 1..Len(q) : k + 1 \in 1..(Len(q) + 1)
        BY <4>1
      <4> QED BY <4>1, <4>2, <3>1
    <3>3. l[i + 1] - l[j + 1] = (i + 1) - (j + 1)
      BY <1>2, <3>2 DEF Consecutive
    <3> QED BY <2>2, <3>1, <3>3
  <2>4. e # <<>> /\ e[Len(e)] = n + 1
    BY <1>1, <2>1, <2>2
  <2>5. Items(e) \subseteq Items(l)
    <3>1. \A i \in DOMAIN e : i + 1 \in DOMAIN l /\ e[i] = l[i + 1]
      BY <1>1, <2>2, SMT
    <3> QED BY <3>1 DEF Items
  <2>6. \A x \in Items(q) \ Items(e) : x = q[1]
    <3> SUFFICES ASSUME NEW x \in Items(q), x \notin Items(e)
                 PROVE  x = q[1]
      OBVIOUS
    <3>1. PICK i \in 1..Len(q) : x = q[i]
      BY DEF Items
    <3>2. CASE i = 1
      BY <3>1, <3>2
    <3>3. CASE i # 1
      <4>0. i - 1 \in 1..Len(q) /\ (i - 1) + 1 = i
        BY <1>1, <3>3, SMT
      <4>1. i - 1 \in 1..Len(q) /\ e[i - 1] = l[i]
        BY <2>2, <4>0
      <4>2. e[i - 1] = x /\ i - 1 \in DOMAIN e
        BY <1>1, <2>2, <3>1, <4>1
      <4> QED BY <4>2 DEF Items
    <3> QED BY <3>2, <3>3
  <2> QED BY <1>3, <2>1, <2>2, <2>3, <2>4, <2>5, <2>6
<1> QED BY <1>1, <1>4, <1>5

LEMMA InitInv == Init => IInv
<1> SUFFICES ASSUME Init
             PROVE  IInv
  OBVIOUS
<1>1. queue = <<>> /\ contents = <<>> /\ pushed = 0
  BY DEF Init
<1>2. <<>> \in Seq(1..0) /\ Len(<<>>) <= MaxSize
  BY SizesAssumption
<1>3. TypeOK
  <2>1. /\ queue \in Seq(1..pushed) /\ Len(queue) <= MaxSize
        /\ contents \in Seq(1..pushed) /\ Len(contents) <= MaxSize
    BY <1>1, <1>2
  <2> QED BY <2>1 DEF Init, TypeOK
<1>4. PendingInOrder
  BY <1>1 DEF PendingInOrder, Consecutive
<1>5. WorkerIsWoken /\ BatchInv
  BY DEF Init, WorkerIsWoken, BatchInv
<1> QED BY <1>3, <1>4, <1>5 DEF IInv

LEMMA PushKeepsInv ==
  ASSUME IInv, NEW p \in Producers, PushLocked(p)
  PROVE  IInv'
<1> USE SizesAssumption DEF IInv
<1>1. /\ pushed \in Nat /\ queue \in Seq(1..pushed) /\ Len(queue) <= MaxSize
      /\ Consecutive(queue) /\ (queue # <<>> => queue[Len(queue)] = pushed)
  BY DEF TypeOK, PendingInOrder
<1>2. queue' = Enqueue(queue, pushed + 1) /\ pushed' = pushed + 1
  BY DEF PushLocked
<1>3. /\ queue' \in Seq(1..pushed') /\ Len(queue') <= MaxSize
      /\ Consecutive(queue') /\ queue' # <<>> /\ queue'[Len(queue')] = pushed'
      /\ Items(queue') \subseteq Items(queue) \cup {pushed'}
  BY <1>1, <1>2, EnqueueFacts
<1>4. TypeOK'
  <2>1. contents \in Seq(1..pushed') /\ stored \in SUBSET (1..pushed')
    BY <1>1, <1>2 DEF TypeOK
  <2> QED BY <1>1, <1>2, <1>3, <2>1 DEF TypeOK, PushLocked
<1>5. PendingInOrder'
  <2> SUFFICES ASSUME NEW i \in DOMAIN contents, NEW j \in DOMAIN queue'
               PROVE  contents[i] < queue'[j]
    BY <1>3 DEF PendingInOrder, PushLocked
  <2>1. contents[i] \in 1..pushed
    BY DEF TypeOK
  <2>2. queue'[j] \in Items(queue) \cup {pushed'}
    BY <1>3 DEF Items
  <2>3. CASE queue'[j] = pushed'
    BY <1>1, <1>2, <2>1, <2>3
  <2>4. CASE queue'[j] \in Items(queue)
    BY <2>4 DEF PendingInOrder, Items
  <2> QED BY <2>2, <2>3, <2>4
<1>6. WorkerIsWoken'
  <2>1. Len(queue') \in Nat
    BY <1>3
  <2> QED BY <2>1 DEF WorkerIsWoken, PushLocked, TypeOK
<1>7. BatchInv'
  BY DEF BatchInv, PushLocked
<1> QED BY <1>4, <1>5, <1>6, <1>7

LEMMA WorkerKeepsInv ==
  ASSUME IInv, Worker
  PROVE  IInv'
<1> USE SizesAssumption DEF IInv
<1>1. CASE WorkerTop
  BY <1>1 DEF WorkerTop, TypeOK, PendingInOrder, WorkerIsWoken, BatchInv
<1>2. CASE WorkerSwap
  <2>1. contents = <<>> /\ queue' = <<>> /\ contents' = queue
    BY <1>2 DEF WorkerSwap, BatchInv
  <2>2. TypeOK'
    BY <1>2, <2>1 DEF WorkerSwap, TypeOK
  <2>3. PendingInOrder'
    BY <1>2, <2>1 DEF WorkerSwap, PendingInOrder, Consecutive
  <2> QED BY <1>2, <2>2, <2>3 DEF WorkerSwap, WorkerIsWoken, BatchInv
<1>3. CASE WorkerIdle
  BY <1>3 DEF WorkerIdle, TypeOK, PendingInOrder, WorkerIsWoken, BatchInv
<1>4. CASE WorkerWake
  BY <1>4 DEF WorkerWake, TypeOK, PendingInOrder, WorkerIsWoken, BatchInv
<1>5. ASSUME NEW a \in {"200", "500", "null"}, WorkerPost(a)
      PROVE  IInv'
  <2>1. Callback(a) \in BOOLEAN
    BY DEF Callback, TypeOK
  <2>2. Items(contents) \subseteq 1..pushed
    BY DEF TypeOK, Items
  <2>3. http' \in [init : BOOLEAN, ok : BOOLEAN]
    BY <1>5, <2>1 DEF WorkerPost, TypeOK
  <2>4. TypeOK'
    BY <1>5, <2>1, <2>2, <2>3 DEF WorkerPost, TypeOK
  <2>5. BatchInv'
    <3>1. CASE a = "200"
      BY <1>5, <3>1 DEF WorkerPost, BatchInv, Items
    <3>2. CASE a # "200"
      BY <1>5, <3>2 DEF WorkerPost, BatchInv, Callback, Items
    <3> QED BY <3>1, <3>2
  <2> QED BY <1>5, <2>4, <2>5 DEF WorkerPost, PendingInOrder, WorkerIsWoken
<1>6. CASE WorkerPostFails
  BY <1>6 DEF WorkerPostFails, TypeOK, PendingInOrder, WorkerIsWoken, BatchInv
<1>7. CASE WorkerPosted
  <2>1. contents' \in {<<>>, contents} /\ queue' = queue
    BY <1>7 DEF WorkerPosted
  <2>2. contents' \in Seq(1..pushed) /\ Len(contents') <= MaxSize
    <3>1. <<>> \in Seq(1..pushed) /\ Len(<<>>) <= MaxSize
      OBVIOUS
    <3>2. contents \in Seq(1..pushed) /\ Len(contents) <= MaxSize
      BY DEF TypeOK
    <3> QED BY <2>1, <3>1, <3>2
  <2>3. TypeOK'
    BY <1>7, <2>1, <2>2 DEF WorkerPosted, TypeOK
  <2>4. PendingInOrder'
    BY <1>7, <2>1 DEF WorkerPosted, PendingInOrder, Consecutive
  <2> QED BY <1>7, <2>3, <2>4 DEF WorkerPosted, WorkerIsWoken, BatchInv
<1> QED BY <1>1, <1>2, <1>3, <1>4, <1>5, <1>6, <1>7 DEF Worker

LEMMA StepInv == IInv /\ [Next]_vars => IInv'
<1> SUFFICES ASSUME IInv, [Next]_vars
             PROVE  IInv'
  OBVIOUS
<1> USE SizesAssumption DEF IInv
<1>1. CASE Initialize
  BY <1>1 DEF Initialize, TypeOK, PendingInOrder, WorkerIsWoken, BatchInv
<1>2. ASSUME NEW p \in Producers, PushEnter(p)
      PROVE  IInv'
  BY <1>2 DEF PushEnter, TypeOK, PendingInOrder, WorkerIsWoken, BatchInv
<1>3. ASSUME NEW p \in Producers, PushLocked(p)
      PROVE  IInv'
  BY <1>3, PushKeepsInv
<1>4. CASE Worker
  BY <1>4, WorkerKeepsInv
<1>5. CASE DtorStop
  BY <1>5 DEF DtorStop, TypeOK, PendingInOrder, WorkerIsWoken, BatchInv
<1>6. CASE DtorJoined
  BY <1>6 DEF DtorJoined, TypeOK, PendingInOrder, WorkerIsWoken, BatchInv
<1>7. CASE UNCHANGED vars
  BY <1>7 DEF vars, TypeOK, PendingInOrder, WorkerIsWoken, BatchInv
<1> QED BY <1>1, <1>2, <1>3, <1>4, <1>5, <1>6, <1>7 DEF Next

LEMMA Invariance == Spec => []IInv
BY InitInv, StepInv, PTL DEF Spec

(* The queue and the batch stay within their bound, whoever pushes. *)
THEOREM UploaderTypeCorrect == Spec => []TypeOK
<1>1. IInv => TypeOK
  BY DEF IInv
<1> QED BY <1>1, Invariance, PTL

(* Items are posted in the order in which they were pushed, and none twice   *)
(* at a time.                                                                *)
THEOREM UploaderInOrder == Spec => []PendingInOrder
<1>1. IInv => PendingInOrder
  BY DEF IInv
<1> QED BY <1>1, Invariance, PTL

(* No notification of the worker is missed. *)
THEOREM UploaderIsWoken == Spec => []WorkerIsWoken
<1>1. IInv => WorkerIsWoken
  BY DEF IInv
<1> QED BY <1>1, Invariance, PTL

(* An item is lost only to a full queue, to the end of the process or to an  *)
(* answer that refuses it.                                                   *)
THEOREM UploaderLosesForAReason == Spec => LeavesForAReason
<1> DEFINE Reasons ==
      \A i \in Pending \ Pending' :
        \/ i \in stored
        \/ Len(queue) = MaxSize /\ i = queue[1]
        \/ ~run
        \/ i \in Items(contents) /\ answer = "500"
<1>1. IInv /\ [Next]_vars => [Reasons]_vars
  <2> SUFFICES ASSUME IInv, Next, NEW i \in Pending, i \notin Pending'
               PROVE  \/ i \in stored
                      \/ Len(queue) = MaxSize /\ i = queue[1]
                      \/ ~run
                      \/ i \in Items(contents) /\ answer = "500"
    OBVIOUS
  <2>1. ASSUME NEW p \in Producers, PushLocked(p)
        PROVE  Len(queue) = MaxSize /\ i = queue[1]
    <3>1. i \in Items(queue) /\ i \notin Items(queue')
      BY <2>1 DEF PushLocked, Pending, Items
    <3> QED BY <2>1, <3>1, EnqueueFacts
          DEF PushLocked, IInv, TypeOK, PendingInOrder
  <2>2. CASE WorkerSwap
    BY <2>2 DEF WorkerSwap, Pending, Items
  <2>3. CASE WorkerPosted
    <3>1. i \in Items(contents) /\ (posted \/ ~run)
      BY <2>3 DEF WorkerPosted, Pending, Items
    <3> QED BY <2>3, <3>1 DEF WorkerPosted, IInv, BatchInv
  <2>4. ASSUME UNCHANGED <<queue, contents>>
        PROVE  FALSE
    BY <2>4 DEF Pending, Items
  <2>5. ASSUME NEW p \in Producers, PushEnter(p)
        PROVE  FALSE
    BY <2>4, <2>5 DEF PushEnter
  <2>6. ASSUME NEW a \in {"200", "500", "null"}, WorkerPost(a)
        PROVE  FALSE
    BY <2>4, <2>6 DEF WorkerPost
  <2> QED BY <2>1, <2>2, <2>3, <2>4, <2>5, <2>6
        DEF Next, Initialize, Worker, WorkerTop, WorkerIdle, WorkerWake,
            WorkerPostFails, DtorStop, DtorJoined
<1> QED BY <1>1, Invariance, PTL DEF Spec, LeavesForAReason
=============================================================================
