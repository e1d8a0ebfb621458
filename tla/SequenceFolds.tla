---------------------------- MODULE SequenceFolds ----------------------------
(*****************************************************************************)
(* Induction over numbers and sequences, with the property as the set of     *)
(* what has it, and folds: what FoldLeft makes of an empty, a longer and a   *)
(* concatenated sequence.  The operator folded with is a constant, to be     *)
(* instantiated; it takes what it needs of its context as first argument.    *)
(*****************************************************************************)
EXTENDS Integers, Sequences, SequencesExt, WellFoundedInduction, TLAPS

CONSTANT Op(_, _, _)

Fold(e, base, s) == FoldLeft(LAMBDA r, x : Op(e, r, x), base, s)

(* Induction, with the property as the set of what has it. *)
LEMMA MinExists ==
  ASSUME NEW S \in SUBSET Nat, S # {}
  PROVE  \E x \in S : \A y \in S : x <= y
<1> DEFINE R == OpToRel(<, Nat)
<1>1. PICK x \in S : \A y \in S : ~(<<y, x>> \in R)
  <2>1. IsWellFoundedOn(R, Nat)
    BY NatLessThanWellFounded
  <2> HIDE DEF R
  <2> QED BY <2>1, WFMin
<1>2. ASSUME NEW y \in S PROVE x <= y
  <2>1. x \in Nat /\ y \in Nat
    OBVIOUS
  <2>2. ~(<<y, x>> \in R)
    BY <1>1
  <2>3. ~(y < x)
    BY <2>1, <2>2 DEF OpToRel
  <2> QED BY <2>1, <2>3
<1> QED BY <1>2

(* Induction over numbers. *)
LEMMA NatSetInduction ==
  ASSUME NEW T, 0 \in T, \A n \in Nat : n \in T => n + 1 \in T
  PROVE  Nat \subseteq T
<1>1. SUFFICES ASSUME Nat \ T # {} PROVE FALSE
  OBVIOUS
<1>2. PICK x \in Nat \ T : \A y \in Nat \ T : x <= y
  <2> DEFINE B == Nat \ T
  <2>1. B \in SUBSET Nat /\ B # {}
    BY <1>1
  <2> HIDE DEF B
  <2>2. \E x \in B : \A y \in B : x <= y
    BY <2>1, MinExists
  <2> QED BY <2>2 DEF B
<1>3. x # 0 /\ x - 1 \in Nat /\ x - 1 < x
  BY <1>2
<1>4. x - 1 \in T
  BY <1>2, <1>3
<1>5. (x - 1) + 1 \in T
  BY <1>3, <1>4
<1> QED BY <1>2, <1>3, <1>5

(* A sequence that is not empty is a shorter one with an element appended. *)
LEMMA FrontFacts ==
  ASSUME NEW S, NEW s \in Seq(S), Len(s) # 0
  PROVE  \E t \in Seq(S), m \in S : s = Append(t, m) /\ Len(t) = Len(s) - 1
<1> DEFINE t == [i \in 1..(Len(s) - 1) |-> s[i]]
           m == s[Len(s)]
<1>1. Len(s) \in Nat /\ Len(s) - 1 \in Nat /\ m \in S
  OBVIOUS
<1>2. t \in Seq(S) /\ Len(t) = Len(s) - 1
  BY <1>1
<1>3. s = Append(t, m)
  BY <1>1, <1>2
<1> QED BY <1>1, <1>2, <1>3

(* The empty sequence is one, of whatever elements. *)
LEMMA EmptySeq == \A S : <<>> \in Seq(S)
OBVIOUS

(* Induction over sequences. *)
LEMMA SeqSetInduction ==
  ASSUME NEW S, NEW T, <<>> \in T,
         \A s \in Seq(S), m \in S : s \in T => Append(s, m) \in T
  PROVE  Seq(S) \subseteq T
<1> DEFINE L == {n \in Nat : \A s \in Seq(S) : Len(s) = n => s \in T}
<1>1. 0 \in L
  BY EmptySeq
<1>2. ASSUME NEW n \in Nat, n \in L PROVE n + 1 \in L
  <2> SUFFICES ASSUME NEW s \in Seq(S), Len(s) = n + 1 PROVE s \in T
    OBVIOUS
  <2>1. PICK t \in Seq(S), m \in S : s = Append(t, m) /\ Len(t) = n
    BY FrontFacts
  <2>2. t \in T
    BY <1>2, <2>1
  <2> QED BY <2>1, <2>2
<1>3. Nat \subseteq L
  <2> HIDE DEF L
  <2> QED BY <1>1, <1>2, NatSetInduction
<1> QED BY <1>3

-----------------------------------------------------------------------------
(* Max of an interval, of which FoldLeft takes away one end after the other. *)
LEMMA MaxExists ==
  ASSUME NEW n \in Nat, NEW S \in SUBSET (1..n), S # {}
  PROVE  \E x \in S : \A y \in S : y <= x
<1> DEFINE T == {m \in Nat : \A X \in SUBSET (1..m) :
                               X # {} => \E x \in X : \A y \in X : y <= x}
<1>1. 0 \in T
  <2>1. 1..0 = {}
    OBVIOUS
  <2> QED BY <2>1
<1>2. ASSUME NEW m \in Nat, m \in T PROVE m + 1 \in T
  <2> SUFFICES ASSUME NEW X \in SUBSET (1..(m + 1)), X # {}
               PROVE  \E x \in X : \A y \in X : y <= x
    OBVIOUS
  <2>1. CASE m + 1 \in X
    BY <2>1
  <2>2. CASE m + 1 \notin X
    <3>1. X \in SUBSET (1..m)
      BY <2>2
    <3> QED BY <1>2, <3>1
  <2> QED BY <2>1, <2>2
<1>3. Nat \subseteq T
  <2> HIDE DEF T
  <2> QED BY <1>1, <1>2, NatSetInduction
<1> QED BY <1>3

(* The largest index of a set of indices, by which FoldLeft goes. *)
LEMMA MaxFacts ==
  ASSUME NEW n \in Nat, NEW S \in SUBSET (1..n)
  PROVE  /\ n \in S => Max(S) = n
         /\ S # {} => Max(S) \in S
<1>1. ASSUME S # {} PROVE \E x \in S : \A y \in S : x >= y
  <2>1. PICK x \in S : \A y \in S : y <= x
    BY <1>1, MaxExists
  <2>2. \A y \in S : x >= y
    BY <2>1
  <2> QED BY <2>2
<1>2. S # {} => Max(S) \in S /\ \A y \in S : Max(S) >= y
  BY <1>1 DEF Max
<1>3. ASSUME n \in S PROVE Max(S) = n
  <2>1. Max(S) \in 1..n /\ Max(S) >= n
    BY <1>2, <1>3
  <2> QED BY <2>1
<1> QED BY <1>2, <1>3

(* g folds s[1] to s[n], as FoldLeft does: on all subsets of 1..n. *)
Folded(e, base, s, g, S) ==
  IF S = {} THEN base ELSE Op(e, g[S \ {Max(S)}], s[Max(S)])
Folds(e, base, s, g, n) ==
  g = [S \in SUBSET (1..n) |-> Folded(e, base, s, g, S)]

(* Each value of a fold is made of one for fewer indices. *)
LEMMA FoldsMeaning ==
  ASSUME NEW e, NEW base, NEW s, NEW g, NEW n \in Nat,
         Folds(e, base, s, g, n)
  PROVE  \A S \in SUBSET (1..n) : g[S] = Folded(e, base, s, g, S)
BY DEF Folds

(* There is such a fold. *)
LEMMA FoldsExists ==
  ASSUME NEW e, NEW base, NEW s, NEW n \in Nat
  PROVE  \E g : Folds(e, base, s, g, n)
<1> DEFINE T == {m \in Nat : \E g : Folds(e, base, s, g, m)}
<1>1. 0 \in T
  <2> DEFINE g == [S \in SUBSET (1..0) |-> base]
  <2>1. \A S \in SUBSET (1..0) : S = {}
    OBVIOUS
  <2>2. g = [S \in SUBSET (1..0) |-> Folded(e, base, s, g, S)]
    BY <2>1 DEF Folded
  <2> QED BY <2>2 DEF Folds
<1>2. ASSUME NEW m \in Nat, m \in T PROVE m + 1 \in T
  <2>1. PICK g : Folds(e, base, s, g, m)
    BY <1>2
  <2> DEFINE h == [S \in SUBSET (1..(m + 1)) |->
                     IF m + 1 \in S THEN Op(e, g[S \ {m + 1}], s[m + 1])
                     ELSE g[S]]
  <2>2. \A S \in SUBSET (1..m) : g[S] = Folded(e, base, s, g, S)
    BY <2>1, FoldsMeaning
  <2>3. ASSUME NEW S \in SUBSET (1..m)
        PROVE  S \in SUBSET (1..(m + 1)) /\ h[S] = g[S]
    OBVIOUS
  <2>4. ASSUME NEW S \in SUBSET (1..(m + 1)), m + 1 \in S
        PROVE  h[S] = Op(e, g[S \ {m + 1}], s[m + 1])
    BY <2>4
  <2> HIDE DEF h
  <2>5. ASSUME NEW S \in SUBSET (1..(m + 1))
        PROVE  h[S] = Folded(e, base, s, h, S)
    <3>1. CASE m + 1 \in S
      <4>1. Max(S) = m + 1
        BY <3>1, MaxFacts
      <4>2. S \ {m + 1} \in SUBSET (1..m)
        OBVIOUS
      <4>3. h[S \ {m + 1}] = g[S \ {m + 1}]
        BY <2>3, <4>2
      <4> QED BY <2>4, <3>1, <4>1, <4>3 DEF Folded
    <3>2. CASE m + 1 \notin S
      <4>1. S \in SUBSET (1..m)
        BY <3>2
      <4>2. h[S] = g[S] /\ g[S] = Folded(e, base, s, g, S)
        BY <2>2, <2>3, <4>1
      <4>3. CASE S # {}
        <5>1. S \ {Max(S)} \in SUBSET (1..m)
          BY <4>1
        <5>2. h[S \ {Max(S)}] = g[S \ {Max(S)}]
          BY <2>3, <5>1
        <5> QED BY <4>2, <4>3, <5>2 DEF Folded
      <4> QED BY <4>2, <4>3 DEF Folded
    <3> QED BY <3>1, <3>2
  <2>6. h = [S \in SUBSET (1..(m + 1)) |-> h[S]]
    BY DEF h
  <2>7. Folds(e, base, s, h, m + 1)
    BY <2>5, <2>6 DEF Folds
  <2> QED BY <2>7
<1>3. Nat \subseteq T
  <2> HIDE DEF T
  <2> QED BY <1>1, <1>2, NatSetInduction
<1> QED BY <1>3

(* What a fold of s is, and that of a sequence that begins with s. *)
LEMMA FoldIs ==
  ASSUME NEW e, NEW base, NEW A, NEW s \in Seq(A)
  PROVE  \E g : /\ Folds(e, base, s, g, Len(s))
                /\ Fold(e, base, s) = g[1..Len(s)]
<1> DEFINE f == CHOOSE f : Folds(e, base, s, f, Len(s))
<1>1. DOMAIN s = 1..Len(s) /\ Len(s) \in Nat
  OBVIOUS
<1>2. Fold(e, base, s) = f[1..Len(s)]
  BY <1>1 DEF Fold, FoldLeft, MapThenFoldSet, Folds, Folded
<1>3. \E g : Folds(e, base, s, g, Len(s))
  BY <1>1, FoldsExists
<1>4. Folds(e, base, s, f, Len(s))
  BY <1>3
<1> QED BY <1>2, <1>4

(* The indices of a sequence that is one longer. *)
LEMMA IntervalFacts ==
  ASSUME NEW i \in Nat
  PROVE  /\ i + 1 \in 1..(i + 1) /\ 1..(i + 1) # {}
         /\ (1..(i + 1)) \ {i + 1} = 1..i
         /\ \A n \in Nat : i + 1 <= n => 1..(i + 1) \in SUBSET (1..n)
OBVIOUS

Agree(s, t, n) == \A i \in 1..n : s[i] = t[i]

(* Folds of sequences that begin alike are alike that far. *)
LEMMA FoldsAgree ==
  ASSUME NEW e, NEW base, NEW s, NEW t, NEW g, NEW h,
         NEW m \in Nat, NEW n \in Nat, m <= n,
         Folds(e, base, s, g, m), Folds(e, base, t, h, n),
         Agree(s, t, m)
  PROVE  g[1..m] = h[1..m]
<1> DEFINE T == {i \in Nat : i <= m => g[1..i] = h[1..i]}
<1>1. /\ \A S \in SUBSET (1..m) : g[S] = Folded(e, base, s, g, S)
      /\ \A S \in SUBSET (1..n) : h[S] = Folded(e, base, t, h, S)
  BY FoldsMeaning
<1>2. 0 \in T
  <2>1. 1..0 = {} /\ {} \in SUBSET (1..m) /\ {} \in SUBSET (1..n)
    OBVIOUS
  <2>2. g[{}] = base /\ h[{}] = base
    BY <1>1, <2>1 DEF Folded
  <2> QED BY <2>1, <2>2
<1>3. ASSUME NEW i \in Nat, i \in T PROVE i + 1 \in T
  <2> SUFFICES ASSUME i + 1 <= m PROVE g[1..(i + 1)] = h[1..(i + 1)]
    OBVIOUS
  <2>1. /\ 1..(i + 1) \in SUBSET (1..m) /\ 1..(i + 1) \in SUBSET (1..n)
        /\ 1..(i + 1) \in SUBSET (1..(i + 1))
        /\ i + 1 \in 1..(i + 1) /\ 1..(i + 1) # {}
        /\ (1..(i + 1)) \ {i + 1} = 1..i
        /\ i + 1 \in Nat
    <3>1. i + 1 \in Nat /\ i + 1 <= n /\ i + 1 <= i + 1
      OBVIOUS
    <3> QED BY <3>1, IntervalFacts
  <2>2. Max(1..(i + 1)) = i + 1
    BY <2>1, MaxFacts
  <2>3. g[1..i] = h[1..i] /\ s[i + 1] = t[i + 1]
    BY <1>3 DEF Agree
  <2>4. /\ g[1..(i + 1)] = Folded(e, base, s, g, 1..(i + 1))
        /\ h[1..(i + 1)] = Folded(e, base, t, h, 1..(i + 1))
    BY <1>1, <2>1
  <2>5. /\ g[1..(i + 1)] = Op(e, g[1..i], s[i + 1])
        /\ h[1..(i + 1)] = Op(e, h[1..i], t[i + 1])
    BY <2>1, <2>2, <2>4 DEF Folded
  <2> QED BY <2>3, <2>5
<1>4. Nat \subseteq T
  <2> HIDE DEF T
  <2> QED BY <1>2, <1>3, NatSetInduction
<1> QED BY <1>4

(* The fold of nothing is the base. *)
LEMMA FoldEmpty ==
  ASSUME NEW e, NEW base
  PROVE  Fold(e, base, <<>>) = base
<1>1. <<>> \in Seq({}) /\ Len(<<>>) = 0 /\ 1..0 = {}
  OBVIOUS
<1>2. PICK g : Folds(e, base, <<>>, g, 0) /\ Fold(e, base, <<>>) = g[{}]
  BY <1>1, FoldIs
<1> QED BY <1>2, FoldsMeaning DEF Folded

(* The fold of a sequence that is one longer is made from the shorter one's. *)
LEMMA FoldsOneMore ==
  ASSUME NEW e, NEW base, NEW s, NEW l, NEW g, NEW h, NEW n \in Nat,
         Folds(e, base, s, g, n), Folds(e, base, l, h, n + 1),
         Agree(s, l, n)
  PROVE  h[1..(n + 1)] = Op(e, g[1..n], l[n + 1])
<1>1. n + 1 \in Nat /\ n <= n + 1
  OBVIOUS
<1>2. g[1..n] = h[1..n]
  <2>1. PICK k \in Nat : k = n + 1
    BY <1>1
  <2>2. n <= k /\ Folds(e, base, l, h, k)
    BY <1>1, <2>1
  <2> QED BY <2>2, FoldsAgree
<1>3. /\ 1..(n + 1) \in SUBSET (1..(n + 1)) /\ n + 1 \in 1..(n + 1)
      /\ 1..(n + 1) # {} /\ (1..(n + 1)) \ {n + 1} = 1..n
  BY IntervalFacts
<1>4. Max(1..(n + 1)) = n + 1
  BY <1>1, <1>3, MaxFacts
<1>5. h[1..(n + 1)] = Folded(e, base, l, h, 1..(n + 1))
  BY <1>1, <1>3, FoldsMeaning
<1> QED BY <1>2, <1>3, <1>4, <1>5 DEF Folded

(* An element appended is the last that is folded in. *)
LEMMA FoldAppend ==
  ASSUME NEW e, NEW base, NEW A, NEW s \in Seq(A), NEW x \in A
  PROVE  Fold(e, base, Append(s, x)) = Op(e, Fold(e, base, s), x)
<1> DEFINE l == Append(s, x)
           n == Len(s)
<1>1. /\ n \in Nat /\ l \in Seq(A) /\ Len(l) = n + 1 /\ l[n + 1] = x
      /\ \A i \in 1..n : s[i] = l[i]
  OBVIOUS
<1> HIDE DEF l
<1>2. PICK g : Folds(e, base, s, g, n) /\ Fold(e, base, s) = g[1..n]
  BY FoldIs
<1>3. PICK h : Folds(e, base, l, h, n + 1) /\ Fold(e, base, l) = h[1..(n + 1)]
  BY <1>1, FoldIs
<1> HIDE DEF n
<1>4. Agree(s, l, n)
  BY <1>1 DEF Agree
<1>5. h[1..(n + 1)] = Op(e, g[1..n], l[n + 1])
  BY <1>1, <1>2, <1>3, <1>4, FoldsOneMore
<1> QED BY <1>1, <1>2, <1>3, <1>5 DEF l

(* A concatenation is folded one sequence after the other. *)
LEMMA FoldConcat ==
  ASSUME NEW e, NEW base, NEW A, NEW s \in Seq(A), NEW t \in Seq(A)
  PROVE  Fold(e, base, s \o t) = Fold(e, Fold(e, base, s), t)
<1> DEFINE mid == Fold(e, base, s)
           T == {u \in Seq(A) : Fold(e, base, s \o u) = Fold(e, mid, u)}
<1>1. <<>> \in T
  <2>1. s \o <<>> = s /\ <<>> \in Seq(A)
    OBVIOUS
  <2> QED BY <2>1, FoldEmpty, Zenon
<1>2. ASSUME NEW u \in Seq(A), NEW x \in A, u \in T
      PROVE  Append(u, x) \in T
  <2>1. s \o u \in Seq(A) /\ s \o Append(u, x) = Append(s \o u, x)
    OBVIOUS
  <2>2. /\ Fold(e, base, Append(s \o u, x)) = Op(e, Fold(e, base, s \o u), x)
        /\ Fold(e, mid, Append(u, x)) = Op(e, Fold(e, mid, u), x)
    <3>1. Fold(e, base, Append(s \o u, x)) = Op(e, Fold(e, base, s \o u), x)
      <4>1. s \o u \in Seq(A)
        BY <2>1
      <4>2. \A v \in Seq(A) :
              Fold(e, base, Append(v, x)) = Op(e, Fold(e, base, v), x)
        BY FoldAppend
      <4> QED BY <4>1, <4>2
    <3> HIDE DEF mid
    <3>2. Fold(e, mid, Append(u, x)) = Op(e, Fold(e, mid, u), x)
      BY FoldAppend
    <3> QED BY <3>1, <3>2
  <2>3. Fold(e, base, s \o u) = Fold(e, mid, u)
    BY <1>2
  <2>4. Append(u, x) \in Seq(A)
    OBVIOUS
  <2> HIDE DEF mid
  <2> QED BY <2>1, <2>2, <2>3, <2>4, Zenon
<1>3. Seq(A) \subseteq T
  <2> HIDE DEF T
  <2> QED BY <1>1, <1>2, SeqSetInduction
<1> QED BY <1>3
=============================================================================
