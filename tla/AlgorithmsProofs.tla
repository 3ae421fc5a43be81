-------------------------- MODULE AlgorithmsProofs --------------------------
(***************************************************************************)
(* Proofs about the pure algorithms: paragraphs, chunks and clauses are what  *)
(* their offsets cut out of the text, nothing is lost on the way, chunks      *)
(* cover their paragraphs, and normalising a text or a reference twice is     *)
(* normalising it once, and a greedy matching has half of the best one.       *)
(* They hold for every document, page, manual, size,                          *)
(* budget and threshold; that those of Algorithms' Spec are among them is the *)
(* last step of each theorem.                                               *)
(*                                                                          *)
(* The loops of the code are folds, which the library defines by recursion    *)
(* over a set of indices. Induction on data is out of the provers' reach, so  *)
(* every fold is unfolded once into a function on the numbers up to its       *)
(* length (TokensFold, ChunkFold, BlocksFold, ...), a set of numbers is shown *)
(* to hold all of them (UpTo), and the rest is an invariant of the loop.      *)
(***************************************************************************)
EXTENDS Algorithms, FiniteSetTheorems, WellFoundedInduction, SequenceTheorems, TLAPS

-----------------------------------------------------------------------------
(* Sets of indices, and functions on them.                                  *)

\* A set of natural numbers that is not empty has a least member.
LEMMA LeastExists ==
  ASSUME NEW S \in SUBSET Nat, S # {}
  PROVE  \E x \in S : \A y \in S : x <= y
<1> DEFINE less == OpToRel(<, Nat)
<1>1. IsWellFoundedOn(less, Nat)
  BY NatLessThanWellFounded
<1>2. \A x, y \in Nat : x < y => <<x, y>> \in less
  BY DEF OpToRel
<1> HIDE DEF less
<1>3. PICK x \in S : \A y \in S : ~(<<y, x>> \in less)
  BY <1>1, WFMin, Zenon
<1>4. ASSUME NEW y \in S PROVE x <= y
  <2>1. x \in Nat /\ y \in Nat
    OBVIOUS
  <2>2. ~(y < x)
    BY <1>2, <1>3, <2>1
  <2>3. QED
    BY <2>1, <2>2
<1>5. QED
  BY <1>4

\* Induction up to a number, over a set of numbers.
LEMMA UpTo ==
  ASSUME NEW n \in Nat, NEW S, 0 \in S, \A k \in 0 .. n - 1 : k \in S => k + 1 \in S
  PROVE  \A k \in 0 .. n : k \in S
<1> DEFINE bad == {k \in 0 .. n : k \notin S}
<1> SUFFICES ASSUME bad # {} PROVE FALSE
  OBVIOUS
<1>1. PICK k \in bad : \A y \in bad : k <= y
  <2>1. bad \in SUBSET Nat
    OBVIOUS
  <2> HIDE DEF bad
  <2> QED
    BY <2>1, LeastExists
<1>2. k # 0 /\ k \in 0 .. n /\ k \notin S
  OBVIOUS
<1>3. k - 1 \in 0 .. n - 1 /\ k - 1 \notin bad
  BY <1>1, <1>2
<1>4. k - 1 \in S
  BY <1>3
<1> QED
  BY <1>2, <1>3, <1>4

\* Of numbers with a bound, Max is one of them and none is greater.
LEMMA GreatestExists ==
  ASSUME NEW n \in Nat, NEW S \in SUBSET (0 .. n), S # {}
  PROVE  Max(S) \in S /\ \A y \in S : Max(S) >= y
<1> DEFINE R == {k \in 0 .. n : n - k \in S}
<1>1. PICK y \in S : TRUE
  OBVIOUS
<1>2. n - y \in R
  BY <1>1
<1>3. PICK k \in R : \A j \in R : k <= j
  <2>1. R \in SUBSET Nat
    OBVIOUS
  <2> HIDE DEF R
  <2> QED
    BY <1>2, <2>1, LeastExists
<1>4. n - k \in S
  OBVIOUS
<1>5. ASSUME NEW z \in S PROVE n - k >= z
  <2>1. n - z \in R
    OBVIOUS
  <2>2. k <= n - z
    BY <1>3, <2>1
  <2> QED
    BY <2>2
<1> QED
  BY <1>4, <1>5 DEF Max

\* The library's Max, which is a CHOOSE, of the numbers up to n.
LEMMA MaxInterval ==
  ASSUME NEW n \in Nat, n # 0
  PROVE  Max(1 .. n) = n
<1>1. n \in 1 .. n /\ \A y \in 1 .. n : n >= y
  OBVIOUS
<1>2. ASSUME NEW m \in 1 .. n, \A y \in 1 .. n : m >= y PROVE m = n
  BY <1>1, <1>2
<1> QED
  BY <1>1, <1>2 DEF Max

\* MapThenFoldSet over the indices 1..n that Max chooses, written out as a function on
\* sets of indices: the form every fold of the model unfolds to.
Unfolds(iter, V, base, n, F) ==
  iter = [s \in SUBSET (1 .. n) |->
            IF s = {} THEN base ELSE F[<<iter[s \ {Max(s)}], Max(s)>>]]

\* There is such a function, by well-founded recursion on the subsets of 1..n.
LEMMA FoldExists ==
  ASSUME NEW V, NEW base \in V, NEW n \in Nat, NEW F \in [V \X (1 .. n) -> V]
  PROVE  \E iter \in [SUBSET (1 .. n) -> V] : Unfolds(iter, V, base, n, F)
<1> DEFINE Good(k) == \E iter \in [SUBSET (1 .. k) -> V] : Unfolds(iter, V, base, k, F)
           S == {k \in 0 .. n : Good(k)}
<1>1. 0 \in S
  <2> DEFINE iter == [s \in SUBSET (1 .. 0) |-> base]
  <2>1. iter \in [SUBSET (1 .. 0) -> V]
    OBVIOUS
  <2>2. 1 .. 0 = {}
    OBVIOUS
  <2>3. Unfolds(iter, V, base, 0, F)
    BY <2>2 DEF Unfolds
  <2> QED
    BY <2>1, <2>3
<1>2. ASSUME NEW k \in 0 .. n - 1, k \in S PROVE k + 1 \in S
  <2>1. PICK old \in [SUBSET (1 .. k) -> V] : Unfolds(old, V, base, k, F)
    BY <1>2
  <2> DEFINE top(s) == F[<<old[s \ {k + 1}], k + 1>>]
             iter == [s \in SUBSET (1 .. k + 1) |-> IF k + 1 \in s THEN top(s) ELSE old[s]]
  <2>2. ASSUME NEW s \in SUBSET (1 .. k + 1) PROVE s \ {k + 1} \in SUBSET (1 .. k)
    OBVIOUS
  <2>3. iter \in [SUBSET (1 .. k + 1) -> V]
    <3>1. ASSUME NEW s \in SUBSET (1 .. k + 1), k + 1 \in s PROVE top(s) \in V
      <4>1. old[s \ {k + 1}] \in V /\ k + 1 \in 1 .. n
        BY <2>2
      <4> QED
        BY <4>1
    <3>2. ASSUME NEW s \in SUBSET (1 .. k + 1), k + 1 \notin s PROVE old[s] \in V
      BY <2>2, <3>2
    <3> HIDE DEF top
    <3> QED
      BY <3>1, <3>2
  <2>4. ASSUME NEW s \in SUBSET (1 .. k + 1), k + 1 \in s
        PROVE  Max(s) = k + 1
    <3>1. k + 1 \in s /\ \A y \in s : k + 1 >= y
      BY <2>4
    <3>2. ASSUME NEW m \in s, \A y \in s : m >= y PROVE m = k + 1
      BY <3>1, <3>2
    <3> QED
      BY <3>1, <3>2 DEF Max
  <2>5. ASSUME NEW s \in SUBSET (1 .. k + 1)
        PROVE  iter[s] = IF s = {} THEN base ELSE F[<<iter[s \ {Max(s)}], Max(s)>>]
    <3>1. CASE k + 1 \in s
      <4>1. iter[s] = F[<<old[s \ {k + 1}], k + 1>>]
        BY <3>1
      <4>2. iter[s \ {k + 1}] = old[s \ {k + 1}]
        BY <2>2
      <4>3. s # {}
        BY <3>1
      <4> QED
        BY <2>4, <3>1, <4>1, <4>2, <4>3
    <3>2. CASE k + 1 \notin s
      <4>1. s \in SUBSET (1 .. k) /\ iter[s] = old[s]
        BY <2>2, <3>2
      <4>2. old[s] = IF s = {} THEN base ELSE F[<<old[s \ {Max(s)}], Max(s)>>]
        BY <2>1, <4>1 DEF Unfolds
      <4>3. iter[s \ {Max(s)}] = old[s \ {Max(s)}]
        BY <4>1, <3>2
      <4> QED
        BY <4>1, <4>2, <4>3
    <3> QED
      BY <3>1, <3>2
  <2>6. Unfolds(iter, V, base, k + 1, F)
    <3> HIDE DEF iter
    <3>1. iter = [s \in SUBSET (1 .. k + 1) |-> iter[s]]
      BY <2>3
    <3> QED
      BY <2>5, <3>1 DEF Unfolds
  <2>7. Good(k + 1)
    BY <2>3, <2>6
  <2> QED
    BY <2>7
<1>3. n \in S
  <2> HIDE DEF S
  <2> QED
    BY <1>1, <1>2, UpTo
<1> QED
  BY <1>3

\* What a fold over a sequence of n does last.
LEMMA Prefix ==
  ASSUME NEW n \in Nat, NEW i \in 1 .. n
  PROVE  /\ 1 .. i \in SUBSET (1 .. n) /\ 1 .. i # {}
         /\ Max(1 .. i) = i /\ (1 .. i) \ {Max(1 .. i)} = 1 .. i - 1
<1>1. Max(1 .. i) = i
  BY MaxInterval
<1> QED
  BY <1>1

\* The greatest index of a set of indices is one of them.
LEMMA MaxMember ==
  ASSUME NEW n \in Nat, NEW s \in SUBSET (1 .. n), s # {}
  PROVE  Max(s) \in s
<1> DEFINE S == {k \in 0 .. n : \A t \in SUBSET (1 .. k) : t # {} => Max(t) \in t}
<1>1. 0 \in S
  <2>1. \A t \in SUBSET (1 .. 0) : t = {}
    <3>1. 1 .. 0 = {}
      OBVIOUS
    <3> QED
      BY <3>1, Zenon
  <2>2. \A t \in SUBSET (1 .. 0) : t # {} => Max(t) \in t
    BY <2>1, Zenon
  <2>3. 0 \in 0 .. n
    OBVIOUS
  <2> QED
    BY <2>2, <2>3, Zenon
<1>2. ASSUME NEW k \in 0 .. n - 1, k \in S PROVE k + 1 \in S
  <2>1. ASSUME NEW t \in SUBSET (1 .. k + 1), t # {} PROVE Max(t) \in t
    <3>1. CASE k + 1 \in t
      <4>1. \A y \in t : k + 1 >= y
        OBVIOUS
      <4> QED
        BY <3>1, <4>1 DEF Max
    <3>2. CASE k + 1 \notin t
      <4>1. t \in SUBSET (1 .. k)
        BY <3>2
      <4> QED
        BY <1>2, <2>1, <4>1
    <3> QED
      BY <3>1, <3>2
  <2> QED
    BY <2>1
<1>3. n \in S
  <2> HIDE DEF S
  <2> QED
    BY <1>1, <1>2, UpTo
<1> QED
  BY <1>3

-----------------------------------------------------------------------------
(* The tokens of a group.                                                   *)

\* Tokens is the last of the running sums of its paragraphs' costs.
LEMMA TokensFold ==
  ASSUME NEW n \in Nat, NEW group, DOMAIN group = 1 .. n, \A i \in 1 .. n : Cost(group[i]) \in Nat
  PROVE  \E after \in [0 .. n -> Nat] :
           /\ after[0] = 0
           /\ \A i \in 1 .. n : after[i] = after[i - 1] + Cost(group[i])
           /\ Tokens(group) = after[n]
<1> DEFINE F == [p \in Nat \X (1 .. n) |-> p[1] + Cost(group[p[2]])]
           Eq(iter) == iter = [s \in SUBSET (1 .. n) |->
             IF s = {} THEN 0 ELSE iter[s \ {Max(s)}] + Cost(group[Max(s)])]
           iter == CHOOSE iter : Eq(iter)
           after == [i \in 0 .. n |-> iter[1 .. i]]
<1>1. Tokens(group) = iter[1 .. n]
  BY DEF Tokens, FoldLeft, MapThenFoldSet
<1>2. F \in [Nat \X (1 .. n) -> Nat]
  OBVIOUS
<1>3. PICK fold \in [SUBSET (1 .. n) -> Nat] : Unfolds(fold, Nat, 0, n, F)
  <2> HIDE DEF F
  <2> QED
    BY <1>2, FoldExists
<1>4. Eq(fold)
  <2>1. ASSUME NEW s \in SUBSET (1 .. n), s # {}
        PROVE  F[<<fold[s \ {Max(s)}], Max(s)>>] = fold[s \ {Max(s)}] + Cost(group[Max(s)])
    <3>1. Max(s) \in s
      BY <2>1, MaxMember
    <3> QED
      BY <3>1
  <2> HIDE DEF F
  <2> QED
    BY <1>3, <2>1 DEF Unfolds
<1>5. Eq(iter)
  <2> HIDE DEF Eq
  <2> QED
    BY <1>4
<1>6. /\ iter[{}] = 0
      /\ \A i \in 1 .. n : iter[1 .. i] = iter[1 .. i - 1] + Cost(group[i])
  <2> HIDE DEF iter
  <2> QED
    BY <1>5, Prefix
<1>7. 1 .. 0 = {}
  OBVIOUS
<1> HIDE DEF iter
<1>8. after[0] = 0 /\ \A i \in 1 .. n : after[i] = after[i - 1] + Cost(group[i])
  BY <1>6, <1>7
<1>9. after \in [0 .. n -> Nat]
  <2> DEFINE S == {i \in 0 .. n : after[i] \in Nat}
  <2>1. 0 \in S
    BY <1>8
  <2>2. ASSUME NEW k \in 0 .. n - 1, k \in S PROVE k + 1 \in S
    <3>1. k + 1 \in 1 .. n /\ k + 1 \in 0 .. n /\ (k + 1) - 1 = k
      OBVIOUS
    <3>2. after[k] \in Nat /\ Cost(group[k + 1]) \in Nat
      BY <2>2, <3>1
    <3> HIDE DEF after
    <3>3. after[k + 1] = after[k] + Cost(group[k + 1])
      BY <1>8, <3>1
    <3>4. after[k + 1] \in Nat
      BY <3>2, <3>3
    <3> QED
      BY <3>1, <3>4
  <2>3. \A k \in 0 .. n : k \in S
    <3> HIDE DEF S
    <3> QED
      BY <2>1, <2>2, UpTo
  <2>4. \A k \in 0 .. n : after[k] \in Nat
    BY <2>3
  <2> QED
    BY <2>4
<1>10. Tokens(group) = after[n]
  BY <1>1
<1> HIDE DEF after
<1> QED
  BY <1>8, <1>9, <1>10

\* Tokens of a group, one paragraph at a time (estimate_tokens summed).
LEMMA TokensLaw ==
  ASSUME NEW T, \A p \in T : Cost(p) \in Nat, NEW group \in Seq(T)
  PROVE  /\ Tokens(group) \in Nat
         /\ group = <<>> => Tokens(group) = 0
         /\ \A p \in T : Tokens(Append(group, p)) = Tokens(group) + Cost(p)
<1> DEFINE n == Len(group)
<1>1. n \in Nat /\ DOMAIN group = 1 .. n /\ \A i \in 1 .. n : Cost(group[i]) \in Nat
  OBVIOUS
<1>2. PICK a \in [0 .. n -> Nat] : /\ a[0] = 0
                                   /\ \A i \in 1 .. n : a[i] = a[i - 1] + Cost(group[i])
                                   /\ Tokens(group) = a[n]
  <2> HIDE DEF n
  <2> QED
    BY <1>1, TokensFold
<1>3. ASSUME NEW p \in T PROVE Tokens(Append(group, p)) = Tokens(group) + Cost(p)
  <2> DEFINE longer == Append(group, p)
  <2>1. /\ n + 1 \in Nat /\ DOMAIN longer = 1 .. n + 1
        /\ \A i \in 1 .. n : longer[i] = group[i]
        /\ longer[n + 1] = p
    BY <1>1
  <2>2. \A i \in 1 .. n + 1 : Cost(longer[i]) \in Nat
    BY <1>1, <2>1
  <2>3. PICK b \in [0 .. n + 1 -> Nat] :
          /\ b[0] = 0
          /\ \A i \in 1 .. n + 1 : b[i] = b[i - 1] + Cost(longer[i])
          /\ Tokens(longer) = b[n + 1]
    <3> HIDE DEF n, longer
    <3> QED
      BY <2>1, <2>2, TokensFold
  <2> HIDE DEF n, longer
  <2> DEFINE S == {i \in 0 .. n : a[i] = b[i]}
  <2>4. 0 \in S /\ \A k \in 0 .. n - 1 : k \in S => k + 1 \in S
    <3>1. ASSUME NEW k \in 0 .. n - 1, a[k] = b[k] PROVE a[k + 1] = b[k + 1]
      <4>1. k + 1 \in 1 .. n /\ k + 1 \in 1 .. n + 1 /\ (k + 1) - 1 = k
        BY <1>1
      <4> QED
        BY <1>2, <2>1, <2>3, <3>1, <4>1
    <3> QED
      BY <1>1, <1>2, <2>3, <3>1
  <2>5. a[n] = b[n]
    <3>1. \A k \in 0 .. n : k \in S
      <4> HIDE DEF S
      <4> QED
        BY <1>1, <2>4, UpTo
    <3> QED
      BY <1>1, <3>1
  <2>6. b[n + 1] = b[n] + Cost(p)
    BY <1>1, <2>1, <2>3
  <2> QED
    BY <1>2, <2>3, <2>5, <2>6 DEF longer
<1>4. Tokens(group) \in Nat
  BY <1>1, <1>2
<1> QED
  BY <1>2, <1>3, <1>4

-----------------------------------------------------------------------------
(* Runs of a sequence.                                                      *)

\* Two sequences with the same elements are the same.
LEMMA SameSequence ==
  ASSUME NEW T, NEW s \in Seq(T), NEW t \in Seq(T), Len(s) = Len(t),
         \A i \in 1 .. Len(s) : s[i] = t[i]
  PROVE  s = t
OBVIOUS

\* A run of a sequence: its elements, one more of them, and what a run of it is.
LEMMA RunLaw ==
  ASSUME NEW T, NEW ps \in Seq(T), NEW a \in 1 .. Len(ps) + 1, NEW b \in a - 1 .. Len(ps)
  PROVE  /\ SubSeq(ps, a, b) \in Seq(T) /\ Len(SubSeq(ps, a, b)) = b - a + 1
         /\ \A i \in 1 .. b - a + 1 : SubSeq(ps, a, b)[i] = ps[a + i - 1]
         /\ b < Len(ps) => Append(SubSeq(ps, a, b), ps[b + 1]) = SubSeq(ps, a, b + 1)
         /\ \A k \in 1 .. b - a + 2 : SubSeq(SubSeq(ps, a, b), k, b - a + 1) = SubSeq(ps, a + k - 1, b)
         /\ (SubSeq(ps, a, b) = <<>>) = (b = a - 1)
<1>1. ASSUME NEW x \in 1 .. Len(ps) + 1, NEW y \in x - 1 .. Len(ps)
      PROVE  /\ SubSeq(ps, x, y) \in Seq(T) /\ Len(SubSeq(ps, x, y)) = y - x + 1
             /\ \A i \in 1 .. y - x + 1 : SubSeq(ps, x, y)[i] = ps[x + i - 1]
  <2>1. x \in Int /\ y \in Int /\ \A i \in x .. y : ps[i] \in T
    OBVIOUS
  <2>2. /\ SubSeq(ps, x, y) \in Seq(T)
        /\ Len(SubSeq(ps, x, y)) = IF x <= y THEN y - x + 1 ELSE 0
        /\ \A i \in 1 .. y - x + 1 : SubSeq(ps, x, y)[i] = ps[x + i - 1]
    BY <2>1, SubSeqProperties
  <2>3. y - x + 1 = IF x <= y THEN y - x + 1 ELSE 0
    OBVIOUS
  <2> QED
    BY <2>2, <2>3
<1> DEFINE run == SubSeq(ps, a, b)
<1>2. ASSUME b < Len(ps) PROVE Append(run, ps[b + 1]) = SubSeq(ps, a, b + 1)
  <2> DEFINE s == Append(run, ps[b + 1])
             t == SubSeq(ps, a, b + 1)
  <2>1. ps[b + 1] \in T /\ b + 1 \in a - 1 .. Len(ps)
    BY <1>2
  <2>2. run \in Seq(T) /\ Len(run) = b - a + 1 /\ \A i \in 1 .. b - a + 1 : run[i] = ps[a + i - 1]
    BY <1>1
  <2>3. t \in Seq(T) /\ Len(t) = b - a + 2 /\ \A i \in 1 .. b - a + 2 : t[i] = ps[a + i - 1]
    <3>1. (b + 1) - a + 1 = b - a + 2
      OBVIOUS
    <3> QED
      BY <1>1, <2>1, <3>1
  <2> HIDE DEF run, t
  <2>4. /\ s \in Seq(T) /\ Len(s) = b - a + 2 /\ \A i \in 1 .. b - a + 1 : s[i] = run[i]
        /\ s[b - a + 2] = ps[b + 1]
    <3>1. /\ s \in Seq(T) /\ Len(s) = Len(run) + 1 /\ \A i \in 1 .. Len(run) : s[i] = run[i]
          /\ s[Len(run) + 1] = ps[b + 1]
      BY <2>1, <2>2, AppendProperties
    <3>2. Len(run) + 1 = b - a + 2
      BY <2>2
    <3> HIDE DEF s
    <3> QED
      BY <2>2, <3>1, <3>2
  <2>5. \A i \in 1 .. b - a + 2 : s[i] = t[i]
    <3>1. ASSUME NEW i \in 1 .. b - a + 2 PROVE s[i] = t[i]
      <4>1. CASE i = b - a + 2
        <5>1. a + i - 1 = b + 1
          BY <4>1
        <5> QED
          BY <2>3, <2>4, <4>1, <5>1
      <4>2. CASE i # b - a + 2
        <5>1. i \in 1 .. b - a + 1
          BY <4>2
        <5> QED
          BY <2>2, <2>3, <2>4, <5>1
      <4> QED
        BY <4>1, <4>2
    <3> QED
      BY <3>1
  <2> HIDE DEF s
  <2> QED
    BY <2>3, <2>4, <2>5, SameSequence DEF s, t
<1>3. ASSUME NEW k \in 1 .. b - a + 2 PROVE SubSeq(run, k, b - a + 1) = SubSeq(ps, a + k - 1, b)
  <2> DEFINE s == SubSeq(run, k, b - a + 1)
             t == SubSeq(ps, a + k - 1, b)
  <2>1. run \in Seq(T) /\ Len(run) = b - a + 1 /\ \A i \in 1 .. b - a + 1 : run[i] = ps[a + i - 1]
    BY <1>1
  <2>2. /\ t \in Seq(T) /\ Len(t) = b - a - k + 2
        /\ \A i \in 1 .. b - a - k + 2 : t[i] = ps[a + k + i - 2]
    <3> DEFINE x == a + k - 1
    <3>1. x \in 1 .. Len(ps) + 1 /\ b \in x - 1 .. Len(ps)
      OBVIOUS
    <3>2. b - x + 1 = b - a - k + 2 /\ \A i \in Int : x + i - 1 = a + k + i - 2
      OBVIOUS
    <3> HIDE DEF x
    <3>3. /\ SubSeq(ps, x, b) \in Seq(T) /\ Len(SubSeq(ps, x, b)) = b - x + 1
          /\ \A i \in 1 .. b - x + 1 : SubSeq(ps, x, b)[i] = ps[x + i - 1]
      BY <1>1, <3>1
    <3> QED
      BY <3>2, <3>3 DEF x
  <2> HIDE DEF run, t
  <2>3. /\ s \in Seq(T) /\ Len(s) = b - a - k + 2
        /\ \A i \in 1 .. b - a - k + 2 : s[i] = run[k + i - 1]
    <3> DEFINE y == b - a + 1
    <3>1. k \in Int /\ y \in Int /\ \A i \in k .. y : run[i] \in T
      BY <2>1
    <3>2. /\ SubSeq(run, k, y) \in Seq(T)
          /\ Len(SubSeq(run, k, y)) = IF k <= y THEN y - k + 1 ELSE 0
          /\ \A i \in 1 .. y - k + 1 : SubSeq(run, k, y)[i] = run[k + i - 1]
      <4> HIDE DEF y
      <4> QED
        BY <3>1, SubSeqProperties
    <3>3. y - k + 1 = b - a - k + 2 /\ (y - k + 1 = IF k <= y THEN y - k + 1 ELSE 0)
      OBVIOUS
    <3> QED
      BY <3>2, <3>3
  <2>4. \A i \in 1 .. b - a - k + 2 : s[i] = t[i]
    <3>1. ASSUME NEW i \in 1 .. b - a - k + 2 PROVE s[i] = t[i]
      <4>1. k + i - 1 \in 1 .. b - a + 1 /\ a + (k + i - 1) - 1 = a + k + i - 2
        OBVIOUS
      <4> QED
        BY <2>1, <2>2, <2>3, <4>1
    <3> QED
      BY <3>1
  <2> HIDE DEF s
  <2> QED
    BY <2>2, <2>3, <2>4, SameSequence DEF s, t
<1>4. (run = <<>>) = (b = a - 1)
  <2>1. Len(run) = b - a + 1 /\ run \in Seq(T)
    BY <1>1
  <2>2. (run = <<>>) = (Len(run) = 0)
    <3> HIDE DEF run
    <3> QED
      BY <2>1
  <2> QED
    BY <2>1, <2>2
<1> QED
  BY <1>1, <1>2, <1>3, <1>4
\* The end of a run of elements is a run of them.
LEMMA RunOfRun ==
  ASSUME NEW T, NEW ps \in Seq(T), NEW a \in 1 .. Len(ps) + 1, NEW b \in a - 1 .. Len(ps),
         NEW k \in 1 .. b - a + 2
  PROVE  SubSeq(SubSeq(ps, a, b), k, b - a + 1) = SubSeq(ps, a + k - 1, b)
<1>1. \A j \in 1 .. b - a + 2 : SubSeq(SubSeq(ps, a, b), j, b - a + 1) = SubSeq(ps, a + j - 1, b)
  BY RunLaw
<1> QED
  BY <1>1

-----------------------------------------------------------------------------
(* Functions on the numbers up to n, and flattened lists of lists.          *)

\* after[i] is what F makes of after[i - 1] at index i.
Follows(after, base, n, F) ==
  after[0] = base /\ \A i \in 1 .. n : after[i] = F[<<after[i - 1], i>>]

\* A function on the numbers up to n whose value at each follows from the one before.
LEMMA StepsExist ==
  ASSUME NEW V, NEW base \in V, NEW n \in Nat, NEW F \in [V \X (1 .. n) -> V]
  PROVE  \E after \in [0 .. n -> V] :
           Follows(after, base, n, F)
<1>1. PICK iter \in [SUBSET (1 .. n) -> V] : Unfolds(iter, V, base, n, F)
  BY FoldExists
<1> DEFINE after == [i \in 0 .. n |-> iter[1 .. i]]
<1>2. \A s \in SUBSET (1 .. n) :
        iter[s] = IF s = {} THEN base ELSE F[<<iter[s \ {Max(s)}], Max(s)>>]
  BY <1>1 DEF Unfolds
<1>3. after[0] = base
  <2>1. 1 .. 0 = {} /\ {} \in SUBSET (1 .. n)
    OBVIOUS
  <2>2. iter[{}] = base
    BY <1>2, <2>1
  <2>3. 0 \in 0 .. n
    OBVIOUS
  <2> QED
    BY <2>1, <2>2, <2>3
<1>4. ASSUME NEW i \in 1 .. n PROVE after[i] = F[<<after[i - 1], i>>]
  <2>1. /\ 1 .. i \in SUBSET (1 .. n) /\ 1 .. i # {}
        /\ Max(1 .. i) = i /\ (1 .. i) \ {Max(1 .. i)} = 1 .. i - 1
    BY Prefix
  <2>2. iter[1 .. i] = F[<<iter[1 .. i - 1], i>>]
    BY <1>2, <2>1
  <2>3. after[i] = iter[1 .. i] /\ after[i - 1] = iter[1 .. i - 1]
    OBVIOUS
  <2> QED
    BY <2>2, <2>3, Zenon
<1>5. after \in [0 .. n -> V]
  <2>1. \A i \in 0 .. n : 1 .. i \in SUBSET (1 .. n)
    OBVIOUS
  <2> QED
    BY <1>1, <2>1
<1> HIDE DEF after
<1> QED
  BY <1>3, <1>4, <1>5 DEF Follows

\* What FlattenSeq gives after each of its sequences.
LEMMA FlattenSteps ==
  ASSUME NEW T, NEW list \in Seq(Seq(T))
  PROVE  \E after \in [0 .. Len(list) -> Seq(T)] :
           /\ after[0] = <<>>
           /\ \A i \in 1 .. Len(list) : after[i] = after[i - 1] \o list[i]
           /\ FlattenSeq(list) = after[Len(list)]
<1> DEFINE n == Len(list)
           V == Seq(T)
           F == [p \in V \X (1 .. n) |-> p[1] \o list[p[2]]]
           Eq(f) == f = [i \in 1 .. n |-> IF i = 1 THEN list[i] ELSE f[i - 1] \o list[i]]
           f == CHOOSE f : Eq(f)
<1>0. n \in Nat
  OBVIOUS
<1>1. \A i \in 1 .. n : list[i] \in V
  OBVIOUS
<1>2. F \in [V \X (1 .. n) -> V]
  <2>1. ASSUME NEW p \in V \X (1 .. n) PROVE p[1] \o list[p[2]] \in V
    <3>1. p[1] \in V /\ list[p[2]] \in V
      BY <1>1
    <3> QED
      BY <3>1
  <2> HIDE DEF n, V
  <2> QED
    BY <2>1
<1>3. <<>> \in V
  OBVIOUS
<1>4. PICK a \in [0 .. n -> V] : Follows(a, <<>>, n, F)
  <2> HIDE DEF F, n, V
  <2> QED
    BY <1>0, <1>2, <1>3, StepsExist
<1>5. a[0] = <<>> /\ \A i \in 1 .. n : a[i] = a[i - 1] \o list[i]
  <2>1. \A i \in 1 .. n : <<a[i - 1], i>> \in V \X (1 .. n)
    <3> HIDE DEF V, n
    <3>1. \A i \in 1 .. n : i - 1 \in 0 .. n
      BY <1>0
    <3> QED
      BY <1>4, <3>1
  <2> HIDE DEF V, n
  <2> QED
    BY <1>4, <2>1 DEF Follows
<1>6. CASE n = 0
  <2>1. list = <<>>
    BY <1>6
  <2>2. FlattenSeq(list) = <<>>
    BY <1>6, <2>1 DEF FlattenSeq
  <2> QED
    BY <1>4, <1>5, <1>6, <2>2 DEF n, V
<1>7. CASE n # 0
  <2>1. FlattenSeq(list) = f[n]
    BY <1>7 DEF FlattenSeq
  <2> DEFINE g == [i \in 1 .. n |-> a[i]]
  <2>2. Eq(g)
    <3>1. ASSUME NEW i \in 1 .. n
          PROVE  g[i] = IF i = 1 THEN list[i] ELSE g[i - 1] \o list[i]
      <4>1. CASE i = 1
        <5>1. <<>> \o list[1] = list[1]
          <6>1. list[1] \in Seq(T)
            BY <1>1, <1>7
          <6> QED
            BY <6>1, ConcatEmptySeq
        <5>2. a[1] = <<>> \o list[1]
          <6>1. 1 \in 1 .. n /\ 1 - 1 = 0
            BY <1>0, <1>7
          <6>2. a[1] = a[1 - 1] \o list[1]
            BY <1>5, <6>1
          <6> HIDE DEF n
          <6> QED
            BY <1>5, <6>1, <6>2
        <5> QED
          BY <4>1, <5>1, <5>2
      <4>2. CASE i # 1
        <5>1. i - 1 \in 1 .. n
          BY <1>0, <4>2
        <5> HIDE DEF n
        <5> QED
          BY <1>5, <4>2, <5>1
      <4> QED
        BY <4>1, <4>2
    <3> HIDE DEF n
    <3> QED
      BY <3>1
  <2>3. Eq(f)
    <3> HIDE DEF Eq
    <3> QED
      BY <2>2
  <2> HIDE DEF f, n
  <2> DEFINE S == {i \in 0 .. n : i = 0 \/ f[i] = a[i]}
  <2>4. 0 \in S
    BY <1>0
  <2>5. ASSUME NEW k \in 0 .. n - 1, k \in S PROVE k + 1 \in S
    <3>1. k + 1 \in 1 .. n /\ (k + 1) - 1 = k
      BY <1>0
    <3>2. a[k + 1] = a[k] \o list[k + 1]
      BY <1>5, <3>1
    <3>3. f[k + 1] = IF k + 1 = 1 THEN list[k + 1] ELSE f[k] \o list[k + 1]
      BY <2>3, <3>1
    <3>4. CASE k = 0
      <4>1. list[k + 1] \in Seq(T)
        BY <1>1, <3>1
      <4>2. a[k] = <<>>
        BY <1>5, <3>4
      <4>3. a[k + 1] = list[k + 1]
        BY <3>2, <4>1, <4>2, ConcatEmptySeq
      <4>4. f[k + 1] = list[k + 1]
        BY <3>3, <3>4
      <4>5. f[k + 1] = a[k + 1] /\ k + 1 \in 0 .. n
        BY <1>0, <3>1, <4>3, <4>4
      <4> QED
        BY <4>5
    <3>5. CASE k # 0
      <4>1. f[k] = a[k]
        BY <2>5, <3>5
      <4>2. f[k + 1] = f[k] \o list[k + 1]
        <5>1. k + 1 # 1
          BY <3>5
        <5> QED
          BY <3>3, <5>1
      <4>3. f[k + 1] = a[k + 1] /\ k + 1 \in 0 .. n
        <5>1. k + 1 \in 0 .. n
          BY <1>0
        <5> QED
          BY <3>2, <4>1, <4>2, <5>1
      <4> QED
        BY <4>3
    <3> QED
      BY <3>4, <3>5
  <2>6. \A k \in 0 .. n : k \in S
    <3> HIDE DEF S
    <3> QED
      BY <1>0, <2>4, <2>5, UpTo
  <2>7. f[n] = a[n]
    BY <1>0, <1>7, <2>6
  <2> QED
    BY <1>4, <1>5, <2>1, <2>7 DEF n
<1> QED
  BY <1>6, <1>7

\* FlattenSeq, one list at a time.
LEMMA FlattenLaw ==
  ASSUME NEW T, NEW list \in Seq(Seq(T))
  PROVE  /\ FlattenSeq(list) \in Seq(T)
         /\ list = <<>> => FlattenSeq(list) = <<>>
         /\ \A s \in Seq(T) : FlattenSeq(Append(list, s)) = FlattenSeq(list) \o s
<1> DEFINE n == Len(list)
<1>1. n \in Nat
  OBVIOUS
<1>2. PICK a \in [0 .. n -> Seq(T)] :
        /\ a[0] = <<>> /\ \A i \in 1 .. n : a[i] = a[i - 1] \o list[i]
        /\ FlattenSeq(list) = a[n]
  BY FlattenSteps
<1>3. ASSUME NEW s \in Seq(T) PROVE FlattenSeq(Append(list, s)) = FlattenSeq(list) \o s
  <2> DEFINE longer == Append(list, s)
  <2>1. longer \in Seq(Seq(T)) /\ Len(longer) = n + 1
        /\ (\A i \in 1 .. n : longer[i] = list[i]) /\ longer[n + 1] = s
    BY AppendProperties
  <2>2. PICK b \in [0 .. Len(longer) -> Seq(T)] :
          /\ b[0] = <<>> /\ \A i \in 1 .. Len(longer) : b[i] = b[i - 1] \o longer[i]
          /\ FlattenSeq(longer) = b[Len(longer)]
    <3> HIDE DEF longer
    <3> QED
      BY <2>1, FlattenSteps
  <2> HIDE DEF longer, n
  <2> DEFINE S == {i \in 0 .. n : a[i] = b[i]}
  <2>3. 0 \in S
    BY <1>1, <1>2, <2>2
  <2>4. ASSUME NEW k \in 0 .. n - 1, k \in S PROVE k + 1 \in S
    <3>1. k + 1 \in 1 .. n /\ (k + 1) - 1 = k
      BY <1>1
    <3>4. k + 1 \in 1 .. Len(longer)
      BY <1>1, <2>1
    <3>2. a[k + 1] = a[k] \o list[k + 1]
      BY <1>2, <3>1
    <3>3. b[k + 1] = b[k] \o list[k + 1]
      BY <2>1, <2>2, <3>1, <3>4
    <3>5. a[k] = b[k] /\ k + 1 \in 0 .. n
      BY <1>1, <2>4
    <3>6. a[k + 1] = b[k + 1]
      BY <3>2, <3>3, <3>5
    <3> QED
      BY <3>5, <3>6
  <2>5. \A k \in 0 .. n : k \in S
    <3> HIDE DEF S
    <3> QED
      BY <1>1, <2>3, <2>4, UpTo
  <2>6. a[n] = b[n]
    BY <1>1, <2>5
  <2>7. b[n + 1] = b[n] \o s
    <3>1. n + 1 \in 1 .. Len(longer) /\ (n + 1) - 1 = n
      BY <1>1, <2>1
    <3> QED
      BY <2>1, <2>2, <3>1
  <2> QED
    BY <1>2, <2>1, <2>2, <2>6, <2>7 DEF longer
<1>4. FlattenSeq(list) \in Seq(T)
  BY <1>1, <1>2
<1>5. list = <<>> => FlattenSeq(list) = <<>>
  BY <1>2
<1> QED
  BY <1>3, <1>4, <1>5

-----------------------------------------------------------------------------
(* Induction on the length of a sequence; its elements in a set.            *)

\* What holds of the empty sequence, and of a sequence with one more element whenever it
\* holds of the sequence, holds of all: A is the set of those it holds of.
LEMMA SequenceInduction ==
  ASSUME NEW T, NEW A, <<>> \in A, \A s \in Seq(T) : s \in A => \A x \in T : Append(s, x) \in A
  PROVE  \A s \in Seq(T) : s \in A
<1> SUFFICES ASSUME NEW s \in Seq(T) PROVE s \in A
  OBVIOUS
<1> DEFINE n == Len(s)
           S == {k \in 0 .. n : SubSeq(s, 1, k) \in A}
<1>1. n \in Nat
  OBVIOUS
<1>2. 0 \in S
  <2>1. SubSeq(s, 1, 0) = <<>>
    BY SubSeqEmpty
  <2>2. SubSeq(s, 1, 0) \in A
    <3> HIDE DEF S, n
    <3> QED
      BY <2>1, Zenon
  <2>3. 0 \in 0 .. n
    BY <1>1
  <2> QED
    BY <2>2, <2>3, Zenon
<1>3. ASSUME NEW k \in 0 .. n - 1, k \in S PROVE k + 1 \in S
  <2>1. 1 \in 1 .. Len(s) + 1 /\ k \in 1 - 1 .. Len(s) /\ k < Len(s)
    BY <1>1
  <2>2. SubSeq(s, 1, k) \in Seq(T) /\ Append(SubSeq(s, 1, k), s[k + 1]) = SubSeq(s, 1, k + 1)
    BY <2>1, RunLaw
  <2>3. s[k + 1] \in T
    BY <1>1
  <2>4. SubSeq(s, 1, k) \in A
    BY <1>3
  <2>5. SubSeq(s, 1, k + 1) \in A
    BY <2>2, <2>3, <2>4
  <2> QED
    BY <1>1, <2>5
<1>4. \A k \in 0 .. n : k \in S
  <2> HIDE DEF S, n
  <2> QED
    BY <1>1, <1>2, <1>3, UpTo
<1>5. SubSeq(s, 1, n) \in A
  BY <1>1, <1>4
<1> QED
  BY <1>5, SubSeqFull

\* Appending to the second part of a concatenation.
LEMMA ConcatAppend ==
  ASSUME NEW T, NEW s \in Seq(T), NEW t \in Seq(T), NEW x \in T
  PROVE  s \o Append(t, x) = Append(s \o t, x)
<1>1. Append(t, x) = t \o <<x>> /\ <<x>> \in Seq(T)
  BY AppendIsConcat
<1>2. s \o t \in Seq(T)
  BY ConcatProperties
<1>3. Append(s \o t, x) = (s \o t) \o <<x>>
  BY <1>2, AppendIsConcat
<1>4. (s \o t) \o <<x>> = s \o (t \o <<x>>)
  BY <1>1, ConcatAssociative
<1> QED
  BY <1>1, <1>3, <1>4

\* Flattening a concatenation.
LEMMA FlattenConcat ==
  ASSUME NEW T, NEW p \in Seq(Seq(T)), NEW q \in Seq(Seq(T))
  PROVE  FlattenSeq(p \o q) = FlattenSeq(p) \o FlattenSeq(q)
<1> DEFINE A == {t \in Seq(Seq(T)) : FlattenSeq(p \o t) = FlattenSeq(p) \o FlattenSeq(t)}
<1>1. <<>> \in A
  <2>1. <<>> \in Seq(Seq(T)) /\ p \o <<>> = p
    BY ConcatEmptySeq
  <2>2. FlattenSeq(<<>>) = <<>> /\ FlattenSeq(p) \in Seq(T)
    BY <2>1, FlattenLaw
  <2>3. FlattenSeq(p) \o <<>> = FlattenSeq(p)
    BY <2>2, ConcatEmptySeq
  <2> QED
    BY <2>1, <2>2, <2>3
<1>2. ASSUME NEW s \in Seq(Seq(T)), s \in A, NEW x \in Seq(T) PROVE Append(s, x) \in A
  <2>1. p \o Append(s, x) = Append(p \o s, x)
    BY ConcatAppend
  <2>2. p \o s \in Seq(Seq(T))
    BY ConcatProperties
  <2>3. FlattenSeq(Append(p \o s, x)) = FlattenSeq(p \o s) \o x
    BY <2>2, FlattenLaw
  <2>4. FlattenSeq(p \o s) = FlattenSeq(p) \o FlattenSeq(s)
    BY <1>2
  <2>5. FlattenSeq(Append(s, x)) = FlattenSeq(s) \o x
    BY FlattenLaw
  <2>6. FlattenSeq(p) \in Seq(T) /\ FlattenSeq(s) \in Seq(T)
    BY FlattenLaw
  <2>7. (FlattenSeq(p) \o FlattenSeq(s)) \o x = FlattenSeq(p) \o (FlattenSeq(s) \o x)
    BY <2>6, ConcatAssociative
  <2>8. Append(s, x) \in Seq(Seq(T))
    BY AppendProperties
  <2> QED
    BY <2>1, <2>3, <2>4, <2>5, <2>7, <2>8
<1>3. q \in A
  <2>1. \A t \in Seq(Seq(T)) : t \in A
    <3> HIDE DEF A
    <3> QED
      BY <1>1, <1>2, SequenceInduction
  <2> QED
    BY <2>1
<1> QED
  BY <1>3

\* The elements that are in a set, in order.
Only(s, S) == FlattenSeq([i \in DOMAIN s |-> IF s[i] \in S THEN <<s[i]>> ELSE <<>>])

\* The members of S in a sequence, one element at a time.
LEMMA OnlyLaw ==
  ASSUME NEW T, NEW S, NEW s \in Seq(T)
  PROVE  /\ Only(s, S) \in Seq(T)
         /\ s = <<>> => Only(s, S) = <<>>
         /\ \A x \in T : Only(Append(s, x), S) = IF x \in S THEN Append(Only(s, S), x) ELSE Only(s, S)
<1> DEFINE piece(x) == IF x \in S THEN <<x>> ELSE <<>>
           pieces(t) == [i \in DOMAIN t |-> piece(t[i])]
<1>1. \A x \in T : piece(x) \in Seq(T)
  OBVIOUS
<1>2. ASSUME NEW t \in Seq(T) PROVE pieces(t) \in Seq(Seq(T)) /\ Len(pieces(t)) = Len(t)
  <2>1. DOMAIN t = 1 .. Len(t) /\ Len(t) \in Nat /\ \A i \in 1 .. Len(t) : t[i] \in T
    OBVIOUS
  <2> DEFINE u == [i \in 1 .. Len(t) |-> piece(t[i])]
  <2> HIDE DEF piece
  <2>2. u \in [1 .. Len(t) -> Seq(T)]
    BY <1>1, <2>1
  <2>3. u \in Seq(Seq(T)) /\ Len(u) = Len(t)
    <3> HIDE DEF u
    <3>1. \A n \in Nat : \A R : \A f \in [1 .. n -> R] : f \in Seq(R) /\ Len(f) = n
      OBVIOUS
    <3> QED
      BY <2>1, <2>2, <3>1
  <2> QED
    BY <2>1, <2>3
<1>3. ASSUME NEW x \in T PROVE pieces(Append(s, x)) = Append(pieces(s), piece(x))
  <2> DEFINE longer == Append(s, x)
             u == pieces(longer)
             v == Append(pieces(s), piece(x))
             n == Len(s)
  <2>1. /\ longer \in Seq(T) /\ Len(longer) = n + 1 /\ longer[n + 1] = x /\ n \in Nat
        /\ \A i \in 1 .. n : longer[i] = s[i]
    BY AppendProperties
  <2>2. u \in Seq(Seq(T)) /\ Len(u) = n + 1
    <3> HIDE DEF pieces, longer, n
    <3> QED
      BY <1>2, <2>1
  <2>3. pieces(s) \in Seq(Seq(T)) /\ Len(pieces(s)) = n
    <3> HIDE DEF pieces, n
    <3> QED
      BY <1>2 DEF n
  <2>4. piece(x) \in Seq(T)
    BY <1>1
  <2>5. /\ v \in Seq(Seq(T)) /\ Len(v) = n + 1 /\ v[n + 1] = piece(x)
        /\ \A i \in 1 .. n : v[i] = pieces(s)[i]
    <3> HIDE DEF pieces, piece, n
    <3> QED
      BY <2>3, <2>4, AppendProperties
  <2>6. ASSUME NEW i \in 1 .. n + 1 PROVE u[i] = v[i]
    <3>1. i \in DOMAIN longer
      <4> HIDE DEF longer, n
      <4> QED
        BY <2>1
    <3>2. u[i] = piece(longer[i])
      <4> HIDE DEF piece, longer
      <4> QED
        BY <3>1
    <3>3. CASE i = n + 1
      <4> HIDE DEF piece, longer, u, v, n
      <4> QED
        BY <2>1, <2>5, <3>2, <3>3
    <3>4. CASE i # n + 1
      <4>1. i \in 1 .. n /\ i \in DOMAIN s
        BY <2>1, <3>4
      <4>2. pieces(s)[i] = piece(s[i])
        <5> HIDE DEF piece
        <5> QED
          BY <4>1
      <4> HIDE DEF piece, pieces, longer, u, v, n
      <4> QED
        BY <2>1, <2>5, <3>2, <4>1, <4>2
    <3> QED
      BY <3>3, <3>4
  <2> HIDE DEF u, v
  <2>7. u = v
    BY <2>2, <2>5, <2>6, SameSequence
  <2> QED
    BY <2>7 DEF u, v
<1>4. Only(s, S) = FlattenSeq(pieces(s)) /\ \A x : Only(Append(s, x), S) = FlattenSeq(pieces(Append(s, x)))
  BY DEF Only
<1>5. pieces(s) \in Seq(Seq(T))
  BY <1>2
<1>6. FlattenSeq(pieces(s)) \in Seq(T)
  <2> HIDE DEF pieces
  <2> QED
    BY <1>5, FlattenLaw
<1>7. ASSUME s = <<>> PROVE Only(s, S) = <<>>
  <2>1. pieces(s) = <<>>
    <3> HIDE DEF piece
    <3> QED
      BY <1>7
  <2>2. FlattenSeq(pieces(s)) = <<>>
    <3> HIDE DEF pieces
    <3> QED
      BY <1>5, <2>1, FlattenLaw
  <2> QED
    BY <1>4, <2>2
<1>8. ASSUME NEW x \in T
      PROVE  Only(Append(s, x), S) = IF x \in S THEN Append(Only(s, S), x) ELSE Only(s, S)
  <2>1. piece(x) \in Seq(T)
    BY <1>1
  <2>2. FlattenSeq(Append(pieces(s), piece(x))) = FlattenSeq(pieces(s)) \o piece(x)
    <3> HIDE DEF pieces, piece
    <3> QED
      BY <1>5, <2>1, FlattenLaw
  <2>3. Only(Append(s, x), S) = Only(s, S) \o piece(x)
    <3> HIDE DEF pieces, piece
    <3> QED
      BY <1>3, <1>4, <2>2
  <2>4. Only(s, S) \in Seq(T)
    <3> HIDE DEF pieces
    <3> QED
      BY <1>4, <1>6
  <2>5. CASE x \in S
    <3>1. Append(Only(s, S), x) = Only(s, S) \o <<x>>
      BY <2>4, AppendIsConcat
    <3> QED
      BY <2>3, <2>5, <3>1
  <2>6. CASE x \notin S
    <3>1. Only(s, S) \o <<>> = Only(s, S)
      BY <2>4, ConcatEmptySeq
    <3> QED
      BY <2>3, <2>6, <3>1
  <2> QED
    BY <2>5, <2>6
<1> HIDE DEF pieces
<1> QED
  BY <1>4, <1>6, <1>7, <1>8

\* The members of S in a concatenation.
LEMMA OnlyConcat ==
  ASSUME NEW T, NEW S, NEW s \in Seq(T), NEW t \in Seq(T)
  PROVE  Only(s \o t, S) = Only(s, S) \o Only(t, S)
<1> DEFINE A == {u \in Seq(T) : Only(s \o u, S) = Only(s, S) \o Only(u, S)}
<1>0. Only(s, S) \in Seq(T)
  BY OnlyLaw
<1>1. <<>> \in A
  <2>1. <<>> \in Seq(T) /\ s \o <<>> = s
    BY ConcatEmptySeq
  <2>2. Only(<<>>, S) = <<>>
    BY <2>1, OnlyLaw
  <2>3. Only(s, S) \o <<>> = Only(s, S)
    BY <1>0, ConcatEmptySeq
  <2> QED
    BY <2>1, <2>2, <2>3
<1>2. ASSUME NEW u \in Seq(T), u \in A, NEW x \in T PROVE Append(u, x) \in A
  <2>1. s \o Append(u, x) = Append(s \o u, x)
    BY ConcatAppend
  <2>2. s \o u \in Seq(T)
    BY ConcatProperties
  <2>3. Only(Append(s \o u, x), S) = IF x \in S THEN Append(Only(s \o u, S), x) ELSE Only(s \o u, S)
    <3> DEFINE v == s \o u
    <3>1. v \in Seq(T)
      BY <2>2
    <3> HIDE DEF v
    <3>2. Only(Append(v, x), S) = IF x \in S THEN Append(Only(v, S), x) ELSE Only(v, S)
      BY <3>1, OnlyLaw
    <3> QED
      BY <3>2 DEF v
  <2>4. Only(Append(u, x), S) = IF x \in S THEN Append(Only(u, S), x) ELSE Only(u, S)
    BY OnlyLaw
  <2>5. Only(s \o u, S) = Only(s, S) \o Only(u, S) /\ Only(u, S) \in Seq(T)
    BY <1>2, OnlyLaw
  <2>6. Only(s, S) \o Append(Only(u, S), x) = Append(Only(s, S) \o Only(u, S), x)
    BY <1>0, <2>5, ConcatAppend
  <2>7. Append(u, x) \in Seq(T)
    BY AppendProperties
  <2> QED
    BY <2>1, <2>3, <2>4, <2>5, <2>6, <2>7
<1>3. \A u \in Seq(T) : u \in A
  <2> HIDE DEF A
  <2> QED
    BY <1>1, <1>2, SequenceInduction
<1> QED
  BY <1>3

-----------------------------------------------------------------------------
(* ChunkParagraphs: what its loop keeps.                                    *)

\* What ChunkParagraphs has built after some paragraphs.
ChunkState(T) == [chunks : Seq(Seq(T)), group : Seq(T)]
NothingRead == [chunks |-> <<>>, group |-> <<>>]

\* The chunks when no paragraph is left.
Closed(st) == IF st.group = <<>> THEN st.chunks ELSE Append(st.chunks, st.group)

\* What ChunkParagraphs does at one paragraph.
ChunkStep(st, p, target, overlap) ==
  LET full == st.group # <<>> /\ Tokens(st.group) + Cost(p) > target
      group == Append(IF full THEN OverlapTail(st.group, overlap) ELSE st.group, p)
      chunks == IF full THEN Append(st.chunks, st.group) ELSE st.chunks
  IN  IF Cost(p) >= target THEN [chunks |-> Append(chunks, group), group |-> <<>>]
      ELSE [chunks |-> chunks, group |-> group]

\* The tail fits the overlap and is the end of its group.
LEMMA TailLaw ==
  ASSUME NEW T, \A p \in T : Cost(p) \in Nat, NEW group \in Seq(T), NEW overlap \in Nat
  PROVE  /\ OverlapTail(group, overlap) \in Seq(T)
         /\ Tokens(OverlapTail(group, overlap)) <= overlap
         /\ \E k \in 0 .. Len(group) :
              OverlapTail(group, overlap) = SubSeq(group, Len(group) - k + 1, Len(group))
<1> DEFINE n == Len(group)
           fits == {k \in 0 .. n : Tokens(SubSeq(group, n - k + 1, n)) <= overlap}
           k == Max(fits)
<1>1. n \in Nat
  OBVIOUS
<1>2. ASSUME NEW j \in 0 .. n PROVE SubSeq(group, n - j + 1, n) \in Seq(T)
  <2>1. n - j + 1 \in 1 .. n + 1 /\ n \in (n - j + 1) - 1 .. n
    BY <1>1
  <2> QED
    BY <2>1, RunLaw
<1>3. 0 \in fits
  <2>1. SubSeq(group, n - 0 + 1, n) = <<>>
    <3>1. n - 0 + 1 \in Int /\ n \in Int /\ n < n - 0 + 1
      BY <1>1
    <3> QED
      BY <3>1, SubSeqEmpty
  <2>2. <<>> \in Seq(T)
    OBVIOUS
  <2>3. Tokens(<<>>) = 0
    BY <2>2, TokensLaw
  <2>4. 0 \in 0 .. n
    BY <1>1
  <2>5. Tokens(SubSeq(group, n - 0 + 1, n)) = Tokens(<<>>)
    BY <2>1, Zenon
  <2>6. Tokens(SubSeq(group, n - 0 + 1, n)) <= overlap
    <3> DEFINE t == Tokens(SubSeq(group, n - 0 + 1, n))
    <3>1. t = 0
      BY <2>3, <2>5, Zenon
    <3> HIDE DEF t
    <3>2. t <= overlap
      BY <3>1
    <3> QED
      BY <3>2 DEF t
  <2> QED
    BY <2>4, <2>6
<1>4. k \in fits
  <2>1. fits \in SUBSET (0 .. n) /\ fits # {}
    BY <1>3
  <2> HIDE DEF fits
  <2> QED
    BY <1>1, <2>1, GreatestExists
<1>5. OverlapTail(group, overlap) = SubSeq(group, n - k + 1, n)
  BY DEF OverlapTail
<1> HIDE DEF k
<1> QED
  BY <1>2, <1>4, <1>5

\* One paragraph more leaves such a state.
LEMMA ChunkStepType ==
  ASSUME NEW T, \A p \in T : Cost(p) \in Nat, NEW target \in Nat, NEW overlap \in Nat,
         NEW st \in ChunkState(T), NEW p \in T
  PROVE  ChunkStep(st, p, target, overlap) \in ChunkState(T)
<1>1. st.chunks \in Seq(Seq(T)) /\ st.group \in Seq(T)
  BY DEF ChunkState
<1>2. OverlapTail(st.group, overlap) \in Seq(T)
  BY <1>1, TailLaw
<1> DEFINE full == st.group # <<>> /\ Tokens(st.group) + Cost(p) > target
           group == Append(IF full THEN OverlapTail(st.group, overlap) ELSE st.group, p)
           chunks == IF full THEN Append(st.chunks, st.group) ELSE st.chunks
<1>3. group \in Seq(T) /\ chunks \in Seq(Seq(T))
  <2> HIDE DEF full
  <2> QED
    BY <1>1, <1>2, AppendProperties
<1>4. Append(chunks, group) \in Seq(Seq(T))
  <2> HIDE DEF group, chunks
  <2> QED
    BY <1>3, AppendProperties
<1>5. ChunkStep(st, p, target, overlap)
        = IF Cost(p) >= target THEN [chunks |-> Append(chunks, group), group |-> <<>>]
          ELSE [chunks |-> chunks, group |-> group]
  BY DEF ChunkStep
<1>6. <<>> \in Seq(T)
  OBVIOUS
<1> HIDE DEF group, chunks
<1> QED
  BY <1>3, <1>4, <1>5, <1>6 DEF ChunkState

\* The states ChunkParagraphs goes through, one for each paragraph read.
LEMMA ChunkFold ==
  ASSUME NEW T, \A p \in T : Cost(p) \in Nat, NEW target \in Nat, NEW overlap \in Nat,
         NEW ps \in Seq(T)
  PROVE  \E after \in [0 .. Len(ps) -> ChunkState(T)] :
           /\ after[0] = NothingRead
           /\ \A i \in 1 .. Len(ps) : after[i] = ChunkStep(after[i - 1], ps[i], target, overlap)
           /\ ChunkParagraphs(ps, target, overlap)
                = Closed(after[Len(ps)])
<1> DEFINE n == Len(ps)
           V == ChunkState(T)
           F == [q \in V \X (1 .. n) |-> ChunkStep(q[1], ps[q[2]], target, overlap)]
           Eq(iter) == iter = [s \in SUBSET (1 .. n) |->
             IF s = {} THEN NothingRead
             ELSE ChunkStep(iter[s \ {Max(s)}], ps[Max(s)], target, overlap)]
           iter == CHOOSE iter : Eq(iter)
           after == [i \in 0 .. n |-> iter[1 .. i]]
<1>0. n \in Nat /\ DOMAIN ps = 1 .. n /\ \A i \in 1 .. n : ps[i] \in T
  OBVIOUS
<1>1. ChunkParagraphs(ps, target, overlap)
        = Closed(iter[1 .. n])
  BY <1>0 DEF Closed, ChunkParagraphs, FoldLeft, MapThenFoldSet, ChunkStep, NothingRead
<1>2. F \in [V \X (1 .. n) -> V]
  <2>1. ASSUME NEW q \in V \X (1 .. n) PROVE ChunkStep(q[1], ps[q[2]], target, overlap) \in V
    <3>1. q[1] \in V /\ ps[q[2]] \in T
      BY <1>0
    <3> QED
      BY <3>1, ChunkStepType
  <2> HIDE DEF V, n
  <2> QED
    BY <2>1
<1>3. NothingRead \in V
  BY DEF NothingRead, ChunkState
<1>4. PICK fold \in [SUBSET (1 .. n) -> V] : Unfolds(fold, V, NothingRead, n, F)
  <2> HIDE DEF F, V, n
  <2> QED
    BY <1>0, <1>2, <1>3, FoldExists
<1>5. Eq(fold)
  <2>1. ASSUME NEW s \in SUBSET (1 .. n), s # {}
        PROVE  F[<<fold[s \ {Max(s)}], Max(s)>>]
                 = ChunkStep(fold[s \ {Max(s)}], ps[Max(s)], target, overlap)
    <3>1. Max(s) \in s
      <4> HIDE DEF n
      <4> QED
        BY <1>0, <2>1, MaxMember
    <3> HIDE DEF V, n
    <3> QED
      BY <3>1
  <2> HIDE DEF F, V, n
  <2> QED
    BY <1>4, <2>1 DEF Unfolds
<1>6. Eq(iter)
  <2> HIDE DEF Eq
  <2> QED
    BY <1>5
<1>7. /\ iter[{}] = NothingRead
      /\ \A i \in 1 .. n : iter[1 .. i] = ChunkStep(iter[1 .. i - 1], ps[i], target, overlap)
  <2>1. ASSUME NEW s \in SUBSET (1 .. n)
        PROVE  iter[s] = IF s = {} THEN NothingRead
                         ELSE ChunkStep(iter[s \ {Max(s)}], ps[Max(s)], target, overlap)
    <3> HIDE DEF iter, n
    <3> QED
      BY <1>6, Zenon
  <2> HIDE DEF iter, n
  <2>2. ASSUME NEW i \in 1 .. n
        PROVE  iter[1 .. i] = ChunkStep(iter[1 .. i - 1], ps[i], target, overlap)
    <3>1. /\ 1 .. i \in SUBSET (1 .. n) /\ 1 .. i # {}
          /\ Max(1 .. i) = i /\ (1 .. i) \ {Max(1 .. i)} = 1 .. i - 1
      BY <1>0, Prefix
    <3> QED
      BY <2>1, <3>1
  <2> QED
    BY <2>1, <2>2
<1>8. 1 .. 0 = {}
  OBVIOUS
<1> HIDE DEF iter, V, n
<1>9. /\ after[0] = NothingRead
      /\ \A i \in 1 .. n : after[i] = ChunkStep(after[i - 1], ps[i], target, overlap)
  BY <1>0, <1>7, <1>8
<1>10. after \in [0 .. n -> V]
  <2> DEFINE S == {i \in 0 .. n : after[i] \in V}
  <2>1. 0 \in S
    BY <1>0, <1>3, <1>9
  <2>2. ASSUME NEW k \in 0 .. n - 1, k \in S PROVE k + 1 \in S
    <3>1. after[k] \in V /\ k + 1 \in 1 .. n /\ (k + 1) - 1 = k
      BY <1>0, <2>2
    <3>2. after[k + 1] = ChunkStep(after[k], ps[k + 1], target, overlap)
      <4> HIDE DEF after
      <4> QED
        BY <1>9, <3>1
    <3>3. ChunkStep(after[k], ps[k + 1], target, overlap) \in V
      <4> HIDE DEF after
      <4> QED
        BY <1>0, <3>1, ChunkStepType DEF V
    <3> HIDE DEF after
    <3> QED
      BY <3>1, <3>2, <3>3
  <2>3. \A k \in 0 .. n : k \in S
    <3> HIDE DEF S
    <3> QED
      BY <1>0, <2>1, <2>2, UpTo
  <2> QED
    BY <2>3
<1>11. ChunkParagraphs(ps, target, overlap)
        = Closed(after[n])
  BY <1>0, <1>1
<1> HIDE DEF after
<1> QED
  BY <1>9, <1>10, <1>11 DEF n, V

\* A group may pass the target only by its last paragraph, which the overlap is in front of.
Snug(group, target, overlap) == Tokens(group) <= target \/ Tokens(Front(group)) <= overlap

\* Chunk k is the paragraphs from[k] to to[k].
Covers(ps, chunks, from, to, target, overlap) ==
  /\ from \in Seq(Nat) /\ to \in Seq(Nat) /\ Len(from) = Len(chunks) /\ Len(to) = Len(chunks)
  /\ \A k \in 1 .. Len(chunks) :
       /\ 1 <= from[k] /\ from[k] <= to[k] /\ to[k] <= Len(ps)
       /\ chunks[k] = SubSeq(ps, from[k], to[k]) /\ Snug(chunks[k], target, overlap)
  /\ chunks # <<>> => from[1] = 1
  /\ \A k \in 2 .. Len(chunks) :
       /\ from[k] <= to[k - 1] + 1 /\ to[k - 1] < to[k]
       /\ Tokens(SubSeq(ps, from[k], to[k - 1])) <= overlap

\* The last paragraph of the last chunk, 0 before the first.
EndOf(to) == IF to = <<>> THEN 0 ELSE to[Len(to)]

\* The group is the last of the i paragraphs read, and goes on where the chunks end.
GroupFollows(ps, group, i, to, overlap) ==
  LET first == i - Len(group) + 1
  IN  /\ Len(group) <= i /\ group = SubSeq(ps, first, i)
      /\ EndOf(to) <= i /\ first <= EndOf(to) + 1
      /\ Tokens(SubSeq(ps, first, EndOf(to))) <= overlap
      /\ to = <<>> => first = 1

\* A sequence of numbers with one more at its end.
LEMMA OneMore ==
  ASSUME NEW s \in Seq(Nat), NEW x \in Nat
  PROVE  /\ Append(s, x) \in Seq(Nat) /\ Len(Append(s, x)) = Len(s) + 1
         /\ Append(s, x)[Len(s) + 1] = x /\ Append(s, x) # <<>>
         /\ \A j \in 1 .. Len(s) : Append(s, x)[j] = s[j]
BY AppendProperties

\* Closing a group as a chunk keeps the cover, and its tail begins the next group.
LEMMA CloseGroup ==
  ASSUME NEW T, NEW ps \in Seq(T), NEW target \in Nat, NEW overlap \in Nat,
         NEW chunks \in Seq(Seq(T)), NEW group \in Seq(T), NEW i \in 0 .. Len(ps), NEW from, NEW to,
         Covers(ps, chunks, from, to, target, overlap), GroupFollows(ps, group, i, to, overlap),
         group # <<>>, EndOf(to) < i, Snug(group, target, overlap),
         NEW k \in 0 .. Len(group), Tokens(SubSeq(ps, i - k + 1, i)) <= overlap
  PROVE  /\ Covers(ps, Append(chunks, group), Append(from, i - Len(group) + 1), Append(to, i),
                   target, overlap)
         /\ GroupFollows(ps, SubSeq(ps, i - k + 1, i), i, Append(to, i), overlap)
<1> DEFINE g == Len(group)
           first == i - g + 1
           n == Len(chunks)
           more == Append(chunks, group)
           froms == Append(from, first)
           tos == Append(to, i)
<1>1. /\ n \in Nat /\ g \in Nat /\ g # 0 /\ i \in Nat /\ Len(ps) \in Nat /\ i <= Len(ps)
      /\ g <= i /\ first \in Nat /\ 1 <= first /\ first <= i
  <2>1. n \in Nat /\ g \in Nat /\ g # 0 /\ i \in Nat /\ Len(ps) \in Nat /\ i <= Len(ps)
    OBVIOUS
  <2>2. g <= i
    BY DEF GroupFollows
  <2> HIDE DEF g
  <2> QED
    BY <2>1, <2>2
<1>2. from \in Seq(Nat) /\ to \in Seq(Nat) /\ Len(from) = n /\ Len(to) = n
  BY DEF Covers
<1>3. /\ Len(more) = n + 1 /\ more[n + 1] = group /\ \A j \in 1 .. n : more[j] = chunks[j]
  <2>1. group \in Seq(T)
    OBVIOUS
  <2> HIDE DEF g
  <2> QED
    BY <2>1, AppendProperties
<1>4. /\ froms \in Seq(Nat) /\ Len(froms) = n + 1 /\ froms[n + 1] = first
      /\ \A j \in 1 .. n : froms[j] = from[j]
  <2>1. first \in Nat
    BY <1>1
  <2> HIDE DEF first, n
  <2>2. /\ froms \in Seq(Nat) /\ Len(froms) = Len(from) + 1 /\ froms[Len(from) + 1] = first
        /\ \A j \in 1 .. Len(from) : froms[j] = from[j]
    BY <1>2, <2>1, OneMore
  <2> HIDE DEF froms
  <2> QED
    BY <1>2, <2>2
<1>5. /\ tos \in Seq(Nat) /\ Len(tos) = n + 1 /\ tos[n + 1] = i /\ tos # <<>>
      /\ \A j \in 1 .. n : tos[j] = to[j]
  <2>1. i \in Nat
    BY <1>1
  <2> HIDE DEF n
  <2>2. /\ tos \in Seq(Nat) /\ Len(tos) = Len(to) + 1 /\ tos[Len(to) + 1] = i /\ tos # <<>>
        /\ \A j \in 1 .. Len(to) : tos[j] = to[j]
    BY <1>2, <2>1, OneMore
  <2> HIDE DEF tos
  <2> QED
    BY <1>2, <2>2
<1>6. EndOf(tos) = i
  <2> HIDE DEF tos, n
  <2> QED
    BY <1>1, <1>5 DEF EndOf
<1>7. (to = <<>>) = (n = 0)
  <2> HIDE DEF n
  <2> QED
    BY <1>1, <1>2
<1>8. EndOf(to) = IF n = 0 THEN 0 ELSE to[n]
  BY <1>2, <1>7 DEF EndOf
<1>9. /\ group = SubSeq(ps, first, i) /\ first <= EndOf(to) + 1
      /\ Tokens(SubSeq(ps, first, EndOf(to))) <= overlap
      /\ to = <<>> => first = 1
  BY DEF GroupFollows
<1>10. Covers(ps, more, froms, tos, target, overlap)
  <2>1. ASSUME NEW j \in 1 .. n + 1
        PROVE  /\ 1 <= froms[j] /\ froms[j] <= tos[j] /\ tos[j] <= Len(ps)
               /\ more[j] = SubSeq(ps, froms[j], tos[j]) /\ Snug(more[j], target, overlap)
    <3>1. CASE j = n + 1
      <4> HIDE DEF more, froms, tos, first, n, g
      <4> QED
        BY <1>1, <1>3, <1>4, <1>5, <1>9, <3>1
    <3>2. CASE j # n + 1
      <4>1. j \in 1 .. n
        BY <1>1, <3>2
      <4>2. more[j] = chunks[j] /\ froms[j] = from[j] /\ tos[j] = to[j]
        <5> HIDE DEF more, froms, tos, n
        <5> QED
          BY <1>3, <1>4, <1>5, <4>1
      <4>3. /\ 1 <= from[j] /\ from[j] <= to[j] /\ to[j] <= Len(ps)
            /\ chunks[j] = SubSeq(ps, from[j], to[j]) /\ Snug(chunks[j], target, overlap)
        BY <4>1 DEF Covers
      <4> HIDE DEF more, froms, tos
      <4> QED
        BY <4>2, <4>3
    <3> QED
      BY <3>1, <3>2
  <2>2. froms[1] = 1
    <3>1. CASE n = 0
      <4> HIDE DEF froms, n, first
      <4> QED
        BY <1>4, <1>7, <1>9, <3>1
    <3>2. CASE n # 0
      <4>1. from[1] = 1
        BY <3>2 DEF Covers
      <4> HIDE DEF froms, n
      <4> QED
        BY <1>1, <1>4, <3>2, <4>1
    <3> QED
      BY <3>1, <3>2
  <2>3. ASSUME NEW j \in 2 .. n + 1
        PROVE  /\ froms[j] <= tos[j - 1] + 1 /\ tos[j - 1] < tos[j]
               /\ Tokens(SubSeq(ps, froms[j], tos[j - 1])) <= overlap
    <3>1. CASE j = n + 1
      <4>1. n # 0 /\ j - 1 = n /\ n \in 1 .. n
        BY <1>1, <3>1
      <4>2. tos[n] = to[n] /\ EndOf(to) = to[n]
        <5> HIDE DEF tos, n
        <5> QED
          BY <1>5, <1>8, <4>1
      <4> HIDE DEF froms, tos, n, first
      <4> QED
        BY <1>4, <1>5, <1>9, <3>1, <4>1, <4>2
    <3>2. CASE j # n + 1
      <4>1. j \in 2 .. n /\ j \in 1 .. n /\ j - 1 \in 1 .. n
        BY <1>1, <3>2
      <4>2. froms[j] = from[j] /\ tos[j] = to[j] /\ tos[j - 1] = to[j - 1]
        <5> HIDE DEF froms, tos, n
        <5> QED
          BY <1>4, <1>5, <4>1
      <4>3. /\ from[j] <= to[j - 1] + 1 /\ to[j - 1] < to[j]
            /\ Tokens(SubSeq(ps, from[j], to[j - 1])) <= overlap
        BY <4>1 DEF Covers
      <4> HIDE DEF froms, tos
      <4> QED
        BY <4>2, <4>3
    <3> QED
      BY <3>1, <3>2
  <2> HIDE DEF more, froms, tos, n
  <2> QED
    BY <1>3, <1>4, <1>5, <2>1, <2>2, <2>3 DEF Covers
<1>11. GroupFollows(ps, SubSeq(ps, i - k + 1, i), i, tos, overlap)
  <2> DEFINE rest == SubSeq(ps, i - k + 1, i)
  <2>1. k \in Nat /\ k <= i
    BY <1>1
  <2>2. Len(rest) = k
    <3>1. i - k + 1 \in 1 .. Len(ps) + 1 /\ i \in (i - k + 1) - 1 .. Len(ps)
      BY <1>1, <2>1
    <3>2. Len(rest) = i - (i - k + 1) + 1
      BY <3>1, RunLaw
    <3> QED
      BY <1>1, <2>1, <3>2
  <2>3. Tokens(rest) <= overlap
    OBVIOUS
  <2>4. rest = SubSeq(ps, i - k + 1, i)
    OBVIOUS
  <2> HIDE DEF rest, tos, g
  <2>5. i - k + 1 <= i + 1
    BY <1>1, <2>1
  <2>6. GroupFollows(ps, rest, i, tos, overlap)
    BY <1>1, <1>5, <1>6, <2>1, <2>2, <2>3, <2>4, <2>5 DEF GroupFollows
  <2> QED
    BY <2>6 DEF rest
<1> QED
  BY <1>10, <1>11

\* The next paragraph joins the group.
LEMMA AddParagraph ==
  ASSUME NEW T, NEW ps \in Seq(T), NEW overlap \in Nat,
         NEW group \in Seq(T), NEW i \in 0 .. Len(ps) - 1, NEW to \in Seq(Nat),
         GroupFollows(ps, group, i, to, overlap)
  PROVE  /\ GroupFollows(ps, Append(group, ps[i + 1]), i + 1, to, overlap)
         /\ EndOf(to) < i + 1 /\ Append(group, ps[i + 1]) # <<>>
<1> DEFINE g == Len(group)
           first == i - g + 1
           longer == Append(group, ps[i + 1])
<1>1. /\ g \in Nat /\ i \in Nat /\ Len(ps) \in Nat /\ i < Len(ps) /\ ps[i + 1] \in T
  OBVIOUS
<1>2. /\ g <= i /\ group = SubSeq(ps, first, i)
      /\ EndOf(to) <= i /\ first <= EndOf(to) + 1
      /\ Tokens(SubSeq(ps, first, EndOf(to))) <= overlap
      /\ to = <<>> => first = 1
  BY DEF GroupFollows
<1>3. EndOf(to) \in Nat
  BY DEF EndOf
<1>4. Len(longer) = g + 1 /\ longer # <<>>
  BY <1>1, AppendProperties
<1>5. longer = SubSeq(ps, first, i + 1)
  <2>1. first \in 1 .. Len(ps) + 1 /\ i \in first - 1 .. Len(ps)
    BY <1>1, <1>2
  <2> HIDE DEF first
  <2> QED
    BY <1>1, <1>2, <2>1, RunLaw
<1>6. (i + 1) - (g + 1) + 1 = first
  BY <1>1
<1>7. GroupFollows(ps, longer, i + 1, to, overlap)
  <2> HIDE DEF longer, g
  <2>1. (i + 1) - Len(longer) + 1 = first
    BY <1>4, <1>6
  <2>2. Len(longer) <= i + 1 /\ EndOf(to) <= i + 1
    BY <1>1, <1>2, <1>3, <1>4
  <2> HIDE DEF first
  <2> QED
    BY <1>2, <1>5, <2>1, <2>2 DEF GroupFollows
<1> QED
  BY <1>1, <1>2, <1>3, <1>4, <1>7

\* After i paragraphs; an open group has a paragraph that no chunk has.
Chunking(ps, st, i, target, overlap) ==
  \E from, to :
    /\ Covers(ps, st.chunks, from, to, target, overlap)
    /\ GroupFollows(ps, st.group, i, to, overlap)
    /\ st.group # <<>> => EndOf(to) < i /\ Snug(st.group, target, overlap)

\* All but the last of a sequence just appended to.
LEMMA FrontOfAppend ==
  ASSUME NEW T, NEW s \in Seq(T), NEW p \in T
  PROVE  Front(Append(s, p)) = s
<1> DEFINE t == Append(s, p)
           n == Len(s)
<1>1. t \in Seq(T) /\ Len(t) = n + 1 /\ n \in Nat /\ \A i \in 1 .. n : t[i] = s[i]
  BY AppendProperties
<1>2. Len(t) - 1 = n /\ 1 \in 1 .. Len(t) + 1 /\ n \in 1 - 1 .. Len(t)
  <2> HIDE DEF t, n
  <2> QED
    BY <1>1
<1>3. SubSeq(t, 1, n) \in Seq(T) /\ Len(SubSeq(t, 1, n)) = n - 1 + 1
      /\ \A i \in 1 .. n - 1 + 1 : SubSeq(t, 1, n)[i] = t[1 + i - 1]
  <2> HIDE DEF t, n
  <2> QED
    BY <1>1, <1>2, RunLaw
<1>4. SubSeq(t, 1, n) = s
  <2> DEFINE u == SubSeq(t, 1, n)
  <2>1. n - 1 + 1 = n /\ \A i \in 1 .. n : 1 + i - 1 = i
    BY <1>1
  <2>2. Len(u) = Len(s) /\ \A i \in 1 .. Len(u) : u[i] = s[i]
    <3> HIDE DEF t
    <3> QED
      BY <1>1, <1>3, <2>1
  <2> HIDE DEF u, n
  <2>3. u \in Seq(T)
    BY <1>3 DEF u
  <2>4. u = s
    BY <2>2, <2>3, SameSequence
  <2> QED
    BY <2>4 DEF u
<1> HIDE DEF t, n
<1>5. Front(t) = SubSeq(t, 1, n)
  BY <1>2 DEF Front
<1> QED
  BY <1>4, <1>5 DEF t

\* The invariant of the loop of chunk_paragraphs.
LEMMA ChunkStepKeeps ==
  ASSUME NEW T, \A p \in T : Cost(p) \in Nat, NEW ps \in Seq(T), NEW target \in Nat, NEW overlap \in Nat,
         NEW st \in ChunkState(T), NEW i \in 0 .. Len(ps) - 1, Chunking(ps, st, i, target, overlap)
  PROVE  Chunking(ps, ChunkStep(st, ps[i + 1], target, overlap), i + 1, target, overlap)
<1> DEFINE p == ps[i + 1]
           full == st.group # <<>> /\ Tokens(st.group) + Cost(p) > target
           kept == IF full THEN OverlapTail(st.group, overlap) ELSE st.group
           group == Append(kept, p)
           chunks == IF full THEN Append(st.chunks, st.group) ELSE st.chunks
           next == IF Cost(p) >= target THEN [chunks |-> Append(chunks, group), group |-> <<>>]
                   ELSE [chunks |-> chunks, group |-> group]
<1>1. /\ st.chunks \in Seq(Seq(T)) /\ st.group \in Seq(T) /\ p \in T
      /\ i \in 0 .. Len(ps) /\ i + 1 \in 0 .. Len(ps) /\ i \in Nat
  BY DEF ChunkState
<1>2. PICK from, to :
        /\ Covers(ps, st.chunks, from, to, target, overlap)
        /\ GroupFollows(ps, st.group, i, to, overlap)
        /\ st.group # <<>> => EndOf(to) < i /\ Snug(st.group, target, overlap)
  BY DEF Chunking
<1>3. /\ kept \in Seq(T) /\ chunks \in Seq(Seq(T))
      /\ Tokens(kept) + Cost(p) <= target \/ Tokens(kept) <= overlap
      /\ \E from1, to1 : /\ Covers(ps, chunks, from1, to1, target, overlap)
                         /\ GroupFollows(ps, kept, i, to1, overlap)
  <2>1. CASE full
    <3>1. /\ OverlapTail(st.group, overlap) \in Seq(T)
          /\ Tokens(OverlapTail(st.group, overlap)) <= overlap
      BY <1>1, TailLaw
    <3>2. PICK k \in 0 .. Len(st.group) :
            OverlapTail(st.group, overlap)
              = SubSeq(st.group, Len(st.group) - k + 1, Len(st.group))
      BY <1>1, TailLaw
    <3>3. OverlapTail(st.group, overlap) = SubSeq(ps, i - k + 1, i)
      <4> DEFINE g == Len(st.group)
                 first == i - g + 1
                 x == g - k + 1
      <4>1. g \in Nat /\ k \in 0 .. g
        BY <1>1, <3>2
      <4>2. g <= i /\ st.group = SubSeq(ps, first, i)
        BY <1>2 DEF GroupFollows
      <4>3. i \in Nat /\ Len(ps) \in Nat /\ i <= Len(ps)
        BY <1>1
      <4> HIDE DEF g
      <4>4. /\ first \in 1 .. Len(ps) + 1 /\ i \in first - 1 .. Len(ps)
            /\ x \in 1 .. i - first + 2 /\ i - first + 1 = g /\ first + x - 1 = i - k + 1
        BY <4>1, <4>2, <4>3
      <4> HIDE DEF first, x
      <4>5. SubSeq(SubSeq(ps, first, i), x, i - first + 1) = SubSeq(ps, first + x - 1, i)
        BY <4>4, RunOfRun
      <4>6. SubSeq(st.group, x, g) = SubSeq(ps, i - k + 1, i)
        BY <4>2, <4>4, <4>5
      <4> QED
        BY <3>2, <4>6 DEF g, x
    <3>4. Tokens(SubSeq(ps, i - k + 1, i)) <= overlap
      BY <3>1, <3>3
    <3>5. /\ Covers(ps, Append(st.chunks, st.group), Append(from, i - Len(st.group) + 1), Append(to, i),
                    target, overlap)
          /\ GroupFollows(ps, SubSeq(ps, i - k + 1, i), i, Append(to, i), overlap)
      BY <1>1, <1>2, <2>1, <3>4, CloseGroup
    <3>6. Append(st.chunks, st.group) \in Seq(Seq(T))
      BY <1>1, AppendProperties
    <3>7. kept = OverlapTail(st.group, overlap) /\ chunks = Append(st.chunks, st.group)
      BY <2>1
    <3> HIDE DEF kept, chunks, full, p
    <3> QED
      BY <3>1, <3>3, <3>5, <3>6, <3>7
  <2>2. CASE ~full
    <3>1. kept = st.group /\ chunks = st.chunks
      BY <2>2
    <3>2. Tokens(st.group) \in Nat /\ Cost(p) \in Nat /\ (st.group = <<>> => Tokens(st.group) = 0)
      BY <1>1, TokensLaw
    <3>3. Tokens(st.group) + Cost(p) <= target \/ Tokens(st.group) <= overlap
      BY <2>2, <3>2
    <3> HIDE DEF kept, chunks, full, p
    <3> QED
      BY <1>1, <1>2, <3>1, <3>3
  <2> QED
    BY <2>1, <2>2
<1>4. PICK from1, to1 : /\ Covers(ps, chunks, from1, to1, target, overlap)
                        /\ GroupFollows(ps, kept, i, to1, overlap)
  <2> HIDE DEF kept, chunks
  <2> QED
    BY <1>3
<1>5. to1 \in Seq(Nat)
  <2> HIDE DEF chunks
  <2> QED
    BY <1>4 DEF Covers
<1>6. /\ GroupFollows(ps, group, i + 1, to1, overlap)
      /\ EndOf(to1) < i + 1 /\ group # <<>> /\ group \in Seq(T)
  <2>1. group \in Seq(T)
    <3> HIDE DEF kept, p
    <3> QED
      BY <1>1, <1>3, AppendProperties
  <2>2. kept \in Seq(T)
    BY <1>3
  <2> HIDE DEF kept
  <2> QED
    BY <1>1, <1>4, <1>5, <2>1, <2>2, AddParagraph
<1>7. Snug(group, target, overlap)
  <2>1. Front(group) = kept
    <3> HIDE DEF kept, p
    <3> QED
      BY <1>1, <1>3, FrontOfAppend
  <2>2. Tokens(group) = Tokens(kept) + Cost(p)
    <3> HIDE DEF kept, p
    <3> QED
      BY <1>1, <1>3, TokensLaw
  <2> HIDE DEF kept, group, p
  <2> QED
    BY <1>3, <2>1, <2>2 DEF Snug
<1>8. ChunkStep(st, p, target, overlap) = next
  BY DEF ChunkStep
<1>9. Chunking(ps, next, i + 1, target, overlap)
  <2>1. CASE Cost(p) >= target
    <3>1. SubSeq(ps, (i + 1) - 0 + 1, i + 1) = <<>>
      <4>1. (i + 1) - 0 + 1 \in Int /\ i + 1 \in Int /\ i + 1 < (i + 1) - 0 + 1
        BY <1>1
      <4> QED
        BY <4>1, SubSeqEmpty
    <3>2. Tokens(SubSeq(ps, (i + 1) - 0 + 1, i + 1)) <= overlap
      <4>1. <<>> \in Seq(T)
        OBVIOUS
      <4>2. Tokens(<<>>) = 0
        BY <4>1, TokensLaw
      <4>3. Tokens(SubSeq(ps, (i + 1) - 0 + 1, i + 1)) = 0
        BY <3>1, <4>2, Zenon
      <4> DEFINE t == Tokens(SubSeq(ps, (i + 1) - 0 + 1, i + 1))
      <4> HIDE DEF t
      <4>4. t = 0 => t <= overlap
        OBVIOUS
      <4> QED
        BY <4>3, <4>4 DEF t
    <3>3. 0 \in 0 .. Len(group)
      <4> HIDE DEF group
      <4> QED
        BY <1>6
    <3>4. chunks \in Seq(Seq(T))
      BY <1>3
    <3>5. /\ Covers(ps, Append(chunks, group), Append(from1, (i + 1) - Len(group) + 1), Append(to1, i + 1),
                    target, overlap)
          /\ GroupFollows(ps, SubSeq(ps, (i + 1) - 0 + 1, i + 1), i + 1, Append(to1, i + 1), overlap)
      <4> HIDE DEF group, chunks, kept, full, p
      <4> QED
        BY <1>1, <1>4, <1>6, <1>7, <3>2, <3>3, <3>4, CloseGroup
    <3>6. next.chunks = Append(chunks, group) /\ next.group = <<>>
      <4> HIDE DEF chunks, group
      <4> QED
        BY <2>1
    <3> HIDE DEF next, chunks, group
    <3> QED
      BY <3>1, <3>5, <3>6 DEF Chunking
  <2>2. CASE ~(Cost(p) >= target)
    <3>1. next.chunks = chunks /\ next.group = group
      <4> HIDE DEF chunks, group
      <4> QED
        BY <2>2
    <3> HIDE DEF next, chunks, group, kept
    <3> QED
      BY <1>4, <1>6, <1>7, <3>1 DEF Chunking
  <2> QED
    BY <2>1, <2>2
<1> HIDE DEF next
<1> QED
  BY <1>8, <1>9

\* The chunks of any paragraphs cover them.
LEMMA ChunksLaw ==
  ASSUME NEW T, \A p \in T : Cost(p) \in Nat, NEW ps \in Seq(T), NEW target \in Nat, NEW overlap \in Nat
  PROVE  \E from, to : /\ Covers(ps, ChunkParagraphs(ps, target, overlap), from, to, target, overlap)
                       /\ EndOf(to) = Len(ps)
<1> DEFINE n == Len(ps)
           chunks == ChunkParagraphs(ps, target, overlap)
<1>1. PICK after \in [0 .. n -> ChunkState(T)] :
        /\ after[0] = NothingRead
        /\ \A i \in 1 .. n : after[i] = ChunkStep(after[i - 1], ps[i], target, overlap)
        /\ chunks = Closed(after[n])
  BY ChunkFold
<1>2. n \in Nat
  OBVIOUS
<1> DEFINE S == {i \in 0 .. n : Chunking(ps, after[i], i, target, overlap)}
<1>3. 0 \in S
  <2>1. Tokens(SubSeq(ps, 1, 0)) <= overlap
    <3>1. SubSeq(ps, 1, 0) = <<>> /\ <<>> \in Seq(T)
      BY SubSeqEmpty
    <3>2. Tokens(<<>>) = 0
      BY <3>1, TokensLaw
    <3>3. Tokens(SubSeq(ps, 1, 0)) = 0
      BY <3>1, <3>2, Zenon
    <3> DEFINE t == Tokens(SubSeq(ps, 1, 0))
    <3> HIDE DEF t
    <3>4. t = 0 => t <= overlap
      OBVIOUS
    <3> QED
      BY <3>3, <3>4 DEF t
  <2>2. Covers(ps, <<>>, <<>>, <<>>, target, overlap)
    BY DEF Covers
  <2>3. GroupFollows(ps, <<>>, 0, <<>>, overlap)
    <3>1. SubSeq(ps, 1, 0) = <<>>
      BY SubSeqEmpty
    <3> QED
      BY <2>1, <3>1 DEF GroupFollows, EndOf
  <2>4. NothingRead.chunks = <<>> /\ NothingRead.group = <<>>
    BY DEF NothingRead
  <2>5. Chunking(ps, NothingRead, 0, target, overlap)
    BY <2>2, <2>3, <2>4 DEF Chunking
  <2> QED
    BY <1>1, <1>2, <2>5
<1>4. ASSUME NEW k \in 0 .. n - 1, k \in S PROVE k + 1 \in S
  <2>1. after[k] \in ChunkState(T) /\ Chunking(ps, after[k], k, target, overlap)
    BY <1>1, <1>4
  <2>2. Chunking(ps, ChunkStep(after[k], ps[k + 1], target, overlap), k + 1, target, overlap)
    BY <2>1, ChunkStepKeeps
  <2>3. k + 1 \in 1 .. n /\ (k + 1) - 1 = k
    BY <1>2
  <2>4. after[k + 1] = ChunkStep(after[k], ps[k + 1], target, overlap)
    <3> HIDE DEF n
    <3> QED
      BY <1>1, <2>3
  <2> QED
    BY <2>2, <2>3, <2>4
<1>5. \A k \in 0 .. n : k \in S
  <2> HIDE DEF S, n
  <2> QED
    BY <1>2, <1>3, <1>4, UpTo
<1> DEFINE st == after[n]
<1>6. Chunking(ps, st, n, target, overlap) /\ st \in ChunkState(T)
  BY <1>1, <1>2, <1>5
<1>7. st.chunks \in Seq(Seq(T)) /\ st.group \in Seq(T)
  BY <1>6 DEF ChunkState
<1>8. PICK from, to :
        /\ Covers(ps, st.chunks, from, to, target, overlap)
        /\ GroupFollows(ps, st.group, n, to, overlap)
        /\ st.group # <<>> => EndOf(to) < n /\ Snug(st.group, target, overlap)
  <2> HIDE DEF st
  <2> QED
    BY <1>6 DEF Chunking
<1>9. CASE st.group = <<>>
  <2>1. chunks = st.chunks
    BY <1>1, <1>9 DEF Closed
  <2>2. EndOf(to) = n
    <3>1. EndOf(to) <= n /\ n - Len(st.group) + 1 <= EndOf(to) + 1
      BY <1>8 DEF GroupFollows
    <3>2. Len(st.group) = 0
      BY <1>9
    <3>3. EndOf(to) \in Nat
      <4>1. to \in Seq(Nat)
        BY <1>8 DEF Covers
      <4> QED
        BY <4>1 DEF EndOf
    <3> QED
      BY <1>2, <3>1, <3>2, <3>3
  <2> HIDE DEF chunks, st
  <2> QED
    BY <1>8, <2>1, <2>2 DEF chunks, n
<1>10. CASE st.group # <<>>
  <2>1. chunks = Append(st.chunks, st.group)
    BY <1>1, <1>10 DEF Closed
  <2>2. SubSeq(ps, n - 0 + 1, n) = <<>>
    <3>1. n - 0 + 1 \in Int /\ n \in Int /\ n < n - 0 + 1
      BY <1>2
    <3> QED
      BY <3>1, SubSeqEmpty
  <2>3. Tokens(SubSeq(ps, n - 0 + 1, n)) <= overlap
    <3>1. <<>> \in Seq(T)
      OBVIOUS
    <3>2. Tokens(<<>>) = 0
      BY <3>1, TokensLaw
    <3>3. Tokens(SubSeq(ps, n - 0 + 1, n)) = 0
      BY <2>2, <3>2, Zenon
    <3> DEFINE t == Tokens(SubSeq(ps, n - 0 + 1, n))
    <3> HIDE DEF t
    <3>4. t = 0 => t <= overlap
      OBVIOUS
    <3> QED
      BY <3>3, <3>4 DEF t
  <2>4. 0 \in 0 .. Len(st.group) /\ n \in 0 .. Len(ps)
    BY <1>2, <1>7
  <2> DEFINE from1 == Append(from, n - Len(st.group) + 1)
             to1 == Append(to, n)
  <2>5. Covers(ps, Append(st.chunks, st.group), from1, to1, target, overlap)
    <3> HIDE DEF st, n
    <3> QED
      BY <1>7, <1>8, <1>10, <2>3, <2>4, CloseGroup
  <2>6. to \in Seq(Nat)
    BY <1>8 DEF Covers
  <2>7. EndOf(to1) = n
    <3>1. Len(to1) = Len(to) + 1 /\ to1[Len(to) + 1] = n /\ to1 # <<>>
      <4> HIDE DEF n
      <4> QED
        BY <1>2, <2>6, OneMore
    <3> HIDE DEF to1
    <3> QED
      BY <3>1 DEF EndOf
  <2> HIDE DEF chunks, st, from1, to1
  <2> QED
    BY <2>1, <2>5, <2>7 DEF chunks, n
<1> QED
  BY <1>9, <1>10

\* Chunks are sequences of paragraphs.
LEMMA ChunksType ==
  ASSUME NEW T, \A p \in T : Cost(p) \in Nat, NEW ps \in Seq(T), NEW target \in Nat, NEW overlap \in Nat
  PROVE  ChunkParagraphs(ps, target, overlap) \in Seq(Seq(T))
<1>1. PICK after \in [0 .. Len(ps) -> ChunkState(T)] :
        ChunkParagraphs(ps, target, overlap) = Closed(after[Len(ps)])
  BY ChunkFold
<1>2. after[Len(ps)] \in ChunkState(T)
  <2>1. Len(ps) \in 0 .. Len(ps)
    OBVIOUS
  <2> QED
    BY <2>1
<1> DEFINE st == after[Len(ps)]
<1>3. st.chunks \in Seq(Seq(T)) /\ st.group \in Seq(T)
  BY <1>2 DEF ChunkState
<1>4. Append(st.chunks, st.group) \in Seq(Seq(T))
  <2> HIDE DEF st
  <2> QED
    BY <1>3, AppendProperties
<1> HIDE DEF st
<1> QED
  BY <1>1, <1>3, <1>4 DEF Closed, st

-----------------------------------------------------------------------------
(* Every chunking covers its paragraphs.                                    *)

\* The sum of natural numbers is one.
LEMMA SumFold ==
  ASSUME NEW list \in Seq(Nat)
  PROVE  Sum(list) \in Nat
<1> DEFINE n == Len(list)
           F == [p \in Nat \X (1 .. n) |-> p[1] + list[p[2]]]
           Eq(iter) == iter = [s \in SUBSET (1 .. n) |->
             IF s = {} THEN 0 ELSE iter[s \ {Max(s)}] + list[Max(s)]]
           iter == CHOOSE iter : Eq(iter)
           after == [i \in 0 .. n |-> iter[1 .. i]]
<1>0. n \in Nat /\ DOMAIN list = 1 .. n /\ \A i \in 1 .. n : list[i] \in Nat
  OBVIOUS
<1>1. Sum(list) = iter[1 .. n]
  BY <1>0 DEF Sum, FoldLeft, MapThenFoldSet
<1>2. F \in [Nat \X (1 .. n) -> Nat]
  BY <1>0
<1>3. PICK fold \in [SUBSET (1 .. n) -> Nat] : Unfolds(fold, Nat, 0, n, F)
  <2> HIDE DEF F, n
  <2> QED
    BY <1>0, <1>2, FoldExists
<1>4. Eq(fold)
  <2>1. ASSUME NEW s \in SUBSET (1 .. n), s # {}
        PROVE  F[<<fold[s \ {Max(s)}], Max(s)>>] = fold[s \ {Max(s)}] + list[Max(s)]
    <3> HIDE DEF n
    <3>1. Max(s) \in s
      BY <1>0, <2>1, MaxMember
    <3> QED
      BY <3>1
  <2> HIDE DEF F, n
  <2> QED
    BY <1>3, <2>1 DEF Unfolds
<1>5. Eq(iter)
  <2> HIDE DEF Eq
  <2> QED
    BY <1>4
<1> HIDE DEF iter, n
<1>6. /\ iter[{}] = 0
      /\ \A i \in 1 .. n : iter[1 .. i] = iter[1 .. i - 1] + list[i]
  <2>1. {} \in SUBSET (1 .. n)
    OBVIOUS
  <2>2. iter[{}] = 0
    BY <1>5, <2>1
  <2>3. ASSUME NEW i \in 1 .. n PROVE iter[1 .. i] = iter[1 .. i - 1] + list[i]
    <3>1. /\ 1 .. i \in SUBSET (1 .. n) /\ 1 .. i # {}
          /\ Max(1 .. i) = i /\ (1 .. i) \ {Max(1 .. i)} = 1 .. i - 1
      BY <1>0, Prefix
    <3>2. iter[1 .. i] = iter[(1 .. i) \ {Max(1 .. i)}] + list[Max(1 .. i)]
      BY <1>5, <3>1
    <3> QED
      BY <3>1, <3>2
  <2> QED
    BY <2>2, <2>3
<1>7. 1 .. 0 = {}
  OBVIOUS
<1> DEFINE S == {i \in 0 .. n : iter[1 .. i] \in Nat}
<1>8. 0 \in S
  BY <1>0, <1>6, <1>7
<1>9. ASSUME NEW k \in 0 .. n - 1, k \in S PROVE k + 1 \in S
  <2>1. k + 1 \in 1 .. n /\ (k + 1) - 1 = k /\ iter[1 .. k] \in Nat /\ list[k + 1] \in Nat
    BY <1>0, <1>9
  <2>2. iter[1 .. k + 1] = iter[1 .. k] + list[k + 1]
    BY <1>6, <2>1
  <2> QED
    BY <1>0, <2>1, <2>2
<1>10. \A k \in 0 .. n : k \in S
  <2> HIDE DEF S
  <2> QED
    BY <1>0, <1>8, <1>9, UpTo
<1> QED
  BY <1>0, <1>1, <1>10

\* A paragraph of which only the size counts.
SizedParagraph == [order : Nat, start : Int, end : Int, text : {<<>>}, heading : {NL}]

\* A paragraph counts for at least one token (estimate_tokens).
LEMMA CostLaw ==
  ASSUME NEW p, p.start \in Int, p.end \in Int
  PROVE  Cost(p) \in Nat \ {0}
<1> DEFINE length == p.end - p.start
           quarter == length \div 4
           up == length % 4 = 3 \/ (length % 4 = 2 /\ quarter % 2 = 1)
           x == IF up THEN quarter + 1 ELSE quarter
<1>1. length \in Int
  OBVIOUS
<1>2. x \in Int
  <2> HIDE DEF length
  <2>1. quarter \in Int
    BY <1>1
  <2> HIDE DEF quarter, up
  <2> QED
    BY <2>1
<1>3. Cost(p) = Max({1, x})
  BY DEF Cost, EstimateTokens
<1> HIDE DEF x
<1>4. Max({1, x}) \in {1, x} /\ Max({1, x}) >= 1
  <2>1. \E y \in {1, x} : \A z \in {1, x} : y >= z
    <3>1. CASE x >= 1
      BY <1>2, <3>1
    <3>2. CASE ~(x >= 1)
      BY <1>2, <3>2
    <3> QED
      BY <3>1, <3>2
  <2> QED
    BY <2>1 DEF Max
<1> QED
  BY <1>2, <1>3, <1>4

\* Sized makes paragraphs in their order.
LEMMA SizedLaw ==
  ASSUME NEW sizes \in Seq(Nat)
  PROVE  /\ Sized(sizes) \in Seq(SizedParagraph) /\ Len(Sized(sizes)) = Len(sizes)
         /\ \A i \in 1 .. Len(sizes) : Sized(sizes)[i].order = i
<1> DEFINE n == Len(sizes)
           start(i) == Sum(SubSeq(sizes, 1, i - 1)) + Len(Separator) * (i - 1)
           row(i) == [order |-> i, start |-> start(i), end |-> start(i) + sizes[i],
                      text |-> <<>>, heading |-> NL]
<1>1. n \in Nat /\ DOMAIN sizes = 1 .. n /\ \A i \in 1 .. n : sizes[i] \in Nat
  OBVIOUS
<1>2. ASSUME NEW i \in 1 .. n PROVE start(i) \in Int
  <2>1. SubSeq(sizes, 1, i - 1) \in Seq(Nat)
    <3>1. 1 \in 1 .. Len(sizes) + 1 /\ i - 1 \in 1 - 1 .. Len(sizes)
      BY <1>1
    <3> QED
      BY <3>1, RunLaw
  <2>2. Sum(SubSeq(sizes, 1, i - 1)) \in Nat
    BY <2>1, SumFold
  <2>3. Len(Separator) = 2
    BY DEF Separator
  <2> QED
    BY <1>1, <2>2, <2>3
<1>3. Sized(sizes) = [i \in 1 .. n |-> row(i)]
  BY <1>1 DEF Sized
<1>4. ASSUME NEW i \in 1 .. n PROVE row(i) \in SizedParagraph
  <2>1. start(i) \in Int /\ sizes[i] \in Nat /\ i \in Nat
    BY <1>1, <1>2
  <2> HIDE DEF start
  <2>2. start(i) + sizes[i] \in Int
    BY <2>1
  <2> QED
    BY <2>1, <2>2 DEF SizedParagraph
<1>5. \A i \in 1 .. n : row(i).order = i
  <2> HIDE DEF start
  <2> QED
    OBVIOUS
<1> HIDE DEF row, n
<1>6. Sized(sizes) \in [1 .. n -> SizedParagraph]
  BY <1>3, <1>4
<1>7. Sized(sizes) \in Seq(SizedParagraph) /\ Len(Sized(sizes)) = n
  BY <1>1, <1>6
<1> QED
  BY <1>3, <1>5, <1>7 DEF n

\* The chunks of paragraphs of any sizes.
LEMMA SizesAreCovered ==
  ASSUME NEW sizes \in Seq(Nat), NEW T, NEW ps, ps = Sized(sizes),
         NEW chunks, chunks = ChunkParagraphs(ps, Target, Overlap),
         Target \in Nat, Overlap \in Nat
  PROVE  /\ (ps = <<>>) = (chunks = <<>>)
         /\ \A c \in Range(chunks) :
              /\ c = SubSeq(ps, Head(c).order, Last(c).order)
              /\ Tokens(c) <= Target \/ Tokens(Front(c)) <= Overlap
         /\ chunks # <<>> => Head(chunks[1]).order = 1 /\ Last(Last(chunks)).order = Len(ps)
         /\ \A i \in 2 .. Len(chunks) :
              /\ Head(chunks[i]).order <= Last(chunks[i - 1]).order + 1
              /\ Last(chunks[i]).order > Last(chunks[i - 1]).order
              /\ Tokens(SubSeq(ps, Head(chunks[i]).order, Last(chunks[i - 1]).order)) <= Overlap
<1> DEFINE m == Len(ps)
           n == Len(chunks)
           P == SizedParagraph
<1>1. ps \in Seq(P) /\ m \in Nat /\ m = Len(sizes) /\ \A i \in 1 .. m : ps[i].order = i
  BY SizedLaw
<1>2. \A p \in P : Cost(p) \in Nat
  BY CostLaw DEF SizedParagraph
<1>3. PICK from, to : Covers(ps, chunks, from, to, Target, Overlap) /\ EndOf(to) = m
  <2> HIDE DEF P
  <2> QED
    BY <1>1, <1>2, ChunksLaw
<1>4. /\ from \in Seq(Nat) /\ to \in Seq(Nat) /\ Len(from) = n /\ Len(to) = n
      /\ \A k \in 1 .. n :
           /\ 1 <= from[k] /\ from[k] <= to[k] /\ to[k] <= m
           /\ chunks[k] = SubSeq(ps, from[k], to[k]) /\ Snug(chunks[k], Target, Overlap)
      /\ chunks # <<>> => from[1] = 1
      /\ \A k \in 2 .. n :
           /\ from[k] <= to[k - 1] + 1 /\ to[k - 1] < to[k]
           /\ Tokens(SubSeq(ps, from[k], to[k - 1])) <= Overlap
  BY <1>3 DEF Covers
<1>5. chunks \in Seq(Seq(P))
  <2> HIDE DEF P
  <2> QED
    BY <1>1, <1>2, ChunksType
<1>6. n \in Nat /\ DOMAIN chunks = 1 .. n /\ (chunks = <<>>) = (n = 0)
  BY <1>5
<1>7. ASSUME NEW k \in 1 .. n
      PROVE  Head(chunks[k]).order = from[k] /\ Last(chunks[k]).order = to[k]
  <2> DEFINE c == chunks[k]
             a == from[k]
             b == to[k]
  <2>1. /\ a \in Nat /\ b \in Nat /\ 1 <= a /\ a <= b /\ b <= m /\ c = SubSeq(ps, a, b)
    <3>1. from \in Seq(Nat) /\ to \in Seq(Nat) /\ k \in 1 .. Len(from) /\ k \in 1 .. Len(to)
      BY <1>4
    <3>2. a \in Nat /\ b \in Nat
      BY <3>1
    <3> QED
      BY <1>4, <3>2
  <2> HIDE DEF a, b, c, m
  <2>2. a \in 1 .. m + 1 /\ b \in a - 1 .. m /\ a \in 1 .. m /\ b \in 1 .. m
    BY <1>1, <2>1
  <2>3. /\ c \in Seq(P) /\ Len(c) = b - a + 1
        /\ \A i \in 1 .. b - a + 1 : c[i] = ps[a + i - 1]
    <3>1. ps \in Seq(P) /\ a \in 1 .. Len(ps) + 1 /\ b \in a - 1 .. Len(ps)
      BY <1>1, <2>2 DEF m
    <3> HIDE DEF P
    <3> QED
      BY <2>1, <3>1, RunLaw
  <2>4. 1 \in 1 .. b - a + 1 /\ b - a + 1 \in 1 .. b - a + 1 /\ a + 1 - 1 = a /\ a + (b - a + 1) - 1 = b
    BY <2>1
  <2>5. c[1] = ps[a] /\ c[Len(c)] = ps[b]
    <3> HIDE DEF P
    <3> QED
      BY <2>3, <2>4
  <2>6. Head(c) = c[1] /\ Last(c) = c[Len(c)]
    BY <2>1, <2>3 DEF Last
  <2>7. Head(c).order = a /\ Last(c).order = b
    BY <1>1, <2>2, <2>5, <2>6
  <2> QED
    BY <2>7 DEF a, b, c
<1> HIDE DEF P
<1>8. (ps = <<>>) = (chunks = <<>>)
  <2>1. (ps = <<>>) = (m = 0)
    BY <1>1
  <2>2. EndOf(to) = IF n = 0 THEN 0 ELSE to[n]
    <3> HIDE DEF n, m
    <3>1. (to = <<>>) = (n = 0)
      BY <1>4, <1>6
    <3> QED
      BY <1>4, <3>1 DEF EndOf
  <2>3. n # 0 => to[n] # 0
    <3> HIDE DEF n, m
    <3> QED
      BY <1>4, <1>6
  <2> HIDE DEF n, m
  <2> QED
    BY <1>3, <1>6, <2>1, <2>2, <2>3
<1>9. ASSUME NEW c \in Range(chunks)
      PROVE  /\ c = SubSeq(ps, Head(c).order, Last(c).order)
             /\ Tokens(c) <= Target \/ Tokens(Front(c)) <= Overlap
  <2>1. PICK k \in 1 .. n : c = chunks[k]
    BY <1>6 DEF Range
  <2> HIDE DEF n
  <2> QED
    BY <1>4, <1>7, <2>1 DEF Snug
<1>10. ASSUME chunks # <<>> PROVE Head(chunks[1]).order = 1 /\ Last(Last(chunks)).order = Len(ps)
  <2>1. n # 0 /\ 1 \in 1 .. n /\ n \in 1 .. n
    BY <1>6, <1>10
  <2>2. Last(chunks) = chunks[n]
    BY DEF Last
  <2>3. EndOf(to) = to[n]
    BY <1>4, <2>1 DEF EndOf
  <2> HIDE DEF n
  <2> QED
    BY <1>3, <1>4, <1>7, <1>10, <2>1, <2>2, <2>3
<1>11. ASSUME NEW i \in 2 .. n
       PROVE  /\ Head(chunks[i]).order <= Last(chunks[i - 1]).order + 1
              /\ Last(chunks[i]).order > Last(chunks[i - 1]).order
              /\ Tokens(SubSeq(ps, Head(chunks[i]).order, Last(chunks[i - 1]).order)) <= Overlap
  <2>1. i \in 1 .. n /\ i - 1 \in 1 .. n
    BY <1>6
  <2>2. from[i] \in Nat /\ to[i] \in Nat /\ to[i - 1] \in Nat
    <3>1. from \in [1 .. n -> Nat] /\ to \in [1 .. n -> Nat]
      <4>1. \A x \in Seq(Nat) : x \in [1 .. Len(x) -> Nat]
        OBVIOUS
      <4> HIDE DEF n
      <4> QED
        BY <1>4, <4>1
    <3> HIDE DEF n
    <3> QED
      BY <2>1, <3>1
  <2> HIDE DEF n
  <2>3. to[i] > to[i - 1]
    BY <1>4, <2>2
  <2> QED
    BY <1>4, <1>7, <2>1, <2>3
<1> QED
  BY <1>8, <1>9, <1>10, <1>11

\* Which inputs a task is about.
LEMMA TaskLaw ==
  ASSUME Init
  PROVE  /\ input.task = "pages" => input \in PageInputs
         /\ input.task = "sizes" => input \in SizeInputs
         /\ input.task = "pack" => input \in PackInputs
         /\ input.task = "quote" => input \in QuoteInputs
         /\ input.task = "chars" => input \in CharInputs
         /\ input.task = "reference" => input \in ReferenceInputs
         /\ input.task = "words" => input \in WordInputs
         /\ input.task = "judge" => input \in JudgeInputs
         /\ input.task = "extraction" => input \in ExtractionInputs
         /\ input.task = "labels" => input \in LabelInputs
         /\ input.task = "steps" => input \in StepInputs
         /\ input.task = "runs" => input \in RunInputs
         /\ input.task = "ranking" => input \in RankingInputs
         /\ input.task = "cases" => input \in CaseInputs
         /\ input.task = "pairs" => input \in PairInputs
         /\ input.task = "smoke" => input \in SmokeInputs
<1>1. ASSUME NEW x \in PageInputs PROVE x.task = "pages"
  BY DEF PageInputs
<1>2. ASSUME NEW x \in SizeInputs PROVE x.task = "sizes"
  BY DEF SizeInputs
<1>3. ASSUME NEW x \in PackInputs PROVE x.task = "pack"
  BY DEF PackInputs
<1>4. ASSUME NEW x \in QuoteInputs PROVE x.task = "quote"
  BY DEF QuoteInputs
<1>5. ASSUME NEW x \in CharInputs PROVE x.task = "chars"
  BY DEF CharInputs
<1>6. ASSUME NEW x \in ReferenceInputs PROVE x.task = "reference"
  BY DEF ReferenceInputs
<1>7. ASSUME NEW x \in WordInputs PROVE x.task = "words"
  BY DEF WordInputs
<1>8. ASSUME NEW x \in JudgeInputs PROVE x.task = "judge"
  BY DEF JudgeInputs
<1>9. ASSUME NEW x \in ExtractionInputs PROVE x.task = "extraction"
  BY DEF ExtractionInputs
<1>10. ASSUME NEW x \in LabelInputs PROVE x.task = "labels"
  BY DEF LabelInputs
<1>11. ASSUME NEW x \in StepInputs PROVE x.task = "steps"
  BY DEF StepInputs
<1>12. ASSUME NEW x \in RunInputs PROVE x.task = "runs"
  BY DEF RunInputs
<1>13. ASSUME NEW x \in RankingInputs PROVE x.task = "ranking"
  BY DEF RankingInputs
<1>14. ASSUME NEW x \in CaseInputs PROVE x.task = "cases"
  BY DEF CaseInputs
<1>15. ASSUME NEW x \in PairInputs PROVE x.task = "pairs"
  BY DEF PairInputs
<1>16. ASSUME NEW x \in SmokeInputs PROVE x.task = "smoke"
  <2>1. ASSUME NEW y \in SoundInputs PROVE y.task = "smoke"
    BY DEF SoundInputs
  <2> DEFINE asked == [Sound EXCEPT !.export = "ok"]
  <2>2. ASSUME NEW y \in Smoked("before", Unready(asked), Changed) PROVE y.task = "smoke"
    BY DEF Smoked
  <2>3. ASSUME NEW y \in Smoked("ended", Unended(asked), Unsound) PROVE y.task = "smoke"
    BY DEF Smoked
  <2>4. ASSUME NEW y \in Smoked("after", Unheard(asked) \cup Unsound(asked), Changed)
        PROVE  y.task = "smoke"
    BY DEF Smoked
  <2> QED
    BY <2>1, <2>2, <2>3, <2>4 DEF SmokeInputs
<1> QED
  BY <1>1, <1>2, <1>3, <1>4, <1>5, <1>6, <1>7, <1>8, <1>9, <1>10, <1>11, <1>12, <1>13, <1>14, <1>15, <1>16 DEF Init

\* A member of BoundedSeq is a sequence of at most that length.
LEMMA BoundedIsSeq ==
  ASSUME NEW T, NEW n \in Nat, NEW s \in BoundedSeq(T, n)
  PROVE  s \in Seq(T) /\ Len(s) <= n
<1>1. PICK m \in 0 .. n : s \in [1 .. m -> T]
  BY DEF BoundedSeq, SeqOf
<1> QED
  BY <1>1

\* Whatever the paragraphs' sizes, the target and the overlap: chunks leave nothing out,
\* are runs of whole paragraphs and share no more than the overlap (chunk_paragraphs).
THEOREM ChunksAlwaysCover == Spec => []ChunksCover
<1>1. Init => ChunksCover
  <2> SUFFICES ASSUME Init, input.task = "sizes" PROVE ChunksCover
    BY DEF ChunksCover
  <2>1. input \in SizeInputs
    BY TaskLaw
  <2>2. input.sizes \in BoundedSeq(Lengths, MaxParas)
    BY <2>1 DEF SizeInputs
  <2>3. Lengths \subseteq Nat /\ MaxParas \in Nat /\ Target \in Nat /\ Overlap \in Nat
    BY AlgorithmsAssumption DEF AlgorithmsAssumption
  <2>4. input.sizes \in Seq(Nat)
    <3>1. input.sizes \in Seq(Lengths)
      BY <2>2, <2>3, BoundedIsSeq
    <3> DEFINE x == input.sizes
    <3> HIDE DEF x
    <3>2. x \in Seq(Lengths)
      BY <3>1 DEF x
    <3>3. Len(x) \in Nat /\ x = [i \in 1 .. Len(x) |-> x[i]] /\ \A i \in 1 .. Len(x) : x[i] \in Lengths
      BY <3>2
    <3>4. \A i \in 1 .. Len(x) : x[i] \in Nat
      BY <2>3, <3>3
    <3>5. x \in [1 .. Len(x) -> Nat]
      BY <3>3, <3>4, Zenon
    <3>6. x \in Seq(Nat)
      BY <3>3, <3>5
    <3> QED
      BY <3>6 DEF x
  <2> QED
    BY <2>3, <2>4, SizesAreCovered DEF ChunksCover
<1>2. ChunksCover /\ [Next]_input => ChunksCover'
  BY DEF Next, ChunksCover
<1> QED
  BY <1>1, <1>2, PTL DEF Spec

-----------------------------------------------------------------------------
(* The text of a block.                                                     *)

\* The text of a block alternates its lines and line feeds.
LEMMA TextType ==
  ASSUME NEW T, NEW b \in Seq(T)
  PROVE  /\ Text(b) \in Seq(T \cup {NL})
         /\ b # <<>> => Len(Text(b)) = 2 * Len(b) - 1
         /\ b = <<>> => Text(b) = <<>>
         /\ \A i \in 1 .. Len(b) : 2 * i - 1 \in 1 .. 2 * Len(b) - 1 /\ Text(b)[2 * i - 1] = b[i]
         /\ \A i \in 1 .. Len(b) - 1 : 2 * i \in 1 .. 2 * Len(b) - 1 /\ Text(b)[2 * i] = NL
<1> DEFINE n == 2 * Len(b) - 1
<1>1. Len(b) \in Nat /\ (b # <<>> => Len(b) >= 1) /\ (b = <<>> => Len(b) = 0)
  OBVIOUS
<1>2. Text(b) = [i \in 1 .. n |-> IF i % 2 = 1 THEN b[(i + 1) \div 2] ELSE NL]
  BY DEF Text
<1>3. ASSUME NEW i \in 1 .. n PROVE Text(b)[i] \in T \cup {NL}
  <2>1. i % 2 = 1 => (i + 1) \div 2 \in 1 .. Len(b)
    BY <1>1
  <2>2. i % 2 = 1 => b[(i + 1) \div 2] \in T
    BY <2>1
  <2>3. Text(b)[i] = IF i % 2 = 1 THEN b[(i + 1) \div 2] ELSE NL
    BY <1>2
  <2> QED
    BY <2>2, <2>3
<1>4. CASE b = <<>>
  <2> DEFINE t == Text(b)
  <2>1. \A i : i \notin 1 .. n
    BY <1>1, <1>4
  <2>2. DOMAIN t = {} /\ \A i \in DOMAIN t : t[i] \in T \cup {NL}
    BY <1>2, <2>1
  <2>3. 1 .. 0 = {} /\ t = [i \in DOMAIN t |-> t[i]]
    BY <1>2
  <2> HIDE DEF t
  <2>4. t \in [1 .. 0 -> T \cup {NL}]
    BY <2>2, <2>3
  <2>5. t \in Seq(T \cup {NL}) /\ Len(t) = 0
    BY <2>4
  <2>6. t = <<>>
    BY <2>5
  <2>7. 1 .. Len(b) = {} /\ 1 .. Len(b) - 1 = {}
    BY <1>1, <1>4
  <2> QED
    BY <1>4, <2>5, <2>6, <2>7 DEF t
<1>5. CASE b # <<>>
  <2>1. n \in Nat /\ DOMAIN Text(b) = 1 .. n
    BY <1>1, <1>2, <1>5
  <2>2. Text(b) \in [1 .. n -> T \cup {NL}]
    BY <1>2, <1>3
  <2>3. Text(b) \in Seq(T \cup {NL}) /\ Len(Text(b)) = n
    <3> HIDE DEF n
    <3> QED
      BY <2>1, <2>2
  <2>4. ASSUME NEW i \in 1 .. Len(b) PROVE 2 * i - 1 \in 1 .. n /\ Text(b)[2 * i - 1] = b[i]
    <3>1. 2 * i - 1 \in 1 .. n /\ (2 * i - 1) % 2 = 1 /\ ((2 * i - 1) + 1) \div 2 = i
      BY <1>1
    <3> QED
      BY <1>2, <3>1
  <2>5. ASSUME NEW i \in 1 .. Len(b) - 1 PROVE 2 * i \in 1 .. n /\ Text(b)[2 * i] = NL
    <3>1. 2 * i \in 1 .. n /\ (2 * i) % 2 # 1
      BY <1>1
    <3> QED
      BY <1>2, <3>1
  <2> QED
    BY <1>5, <2>3, <2>4, <2>5
<1> QED
  BY <1>4, <1>5

\* One line more is a line feed and the line.
LEMMA TextAppend ==
  ASSUME NEW T, NEW b \in Seq(T), b # <<>>, NEW x \in T
  PROVE  Text(Append(b, x)) = Append(Append(Text(b), NL), x)
<1> DEFINE c == Append(b, x)
           U == T \cup {NL}
           t == Append(Append(Text(b), NL), x)
           n == Len(b)
<1>1. n \in Nat /\ n >= 1 /\ c \in Seq(T) /\ Len(c) = n + 1 /\ c # <<>> /\ c[n + 1] = x
      /\ \A i \in 1 .. n : c[i] = b[i]
  BY AppendProperties
<1>2. /\ Text(b) \in Seq(U) /\ Len(Text(b)) = 2 * n - 1
      /\ \A i \in 1 .. n : Text(b)[2 * i - 1] = b[i]
      /\ \A i \in 1 .. n - 1 : Text(b)[2 * i] = NL
  BY TextType
<1>3. /\ Text(c) \in Seq(U) /\ Len(Text(c)) = 2 * n + 1
      /\ \A i \in 1 .. n + 1 : Text(c)[2 * i - 1] = c[i]
      /\ \A i \in 1 .. n : Text(c)[2 * i] = NL
  <2> HIDE DEF c
  <2>1. /\ Text(c) \in Seq(U) /\ Len(Text(c)) = 2 * Len(c) - 1
        /\ \A i \in 1 .. Len(c) : Text(c)[2 * i - 1] = c[i]
        /\ \A i \in 1 .. Len(c) - 1 : Text(c)[2 * i] = NL
    BY <1>1, TextType
  <2> QED
    BY <1>1, <2>1
<1>4. /\ t \in Seq(U) /\ Len(t) = 2 * n + 1 /\ t[2 * n] = NL /\ t[2 * n + 1] = x
      /\ \A i \in 1 .. 2 * n - 1 : t[i] = Text(b)[i]
  <2> DEFINE s == Text(b)
             m == Append(s, NL)
  <2>0. NL \in U /\ x \in U
    OBVIOUS
  <2>1. s \in Seq(U) /\ Len(s) = 2 * n - 1
    BY <1>2
  <2> HIDE DEF s, U
  <2>2. m \in Seq(U) /\ Len(m) = 2 * n /\ m[2 * n] = NL /\ \A i \in 1 .. 2 * n - 1 : m[i] = s[i]
    BY <1>1, <2>0, <2>1, AppendProperties
  <2> HIDE DEF m
  <2>3. Append(m, x) \in Seq(U) /\ Len(Append(m, x)) = 2 * n + 1 /\ Append(m, x)[2 * n + 1] = x
        /\ \A i \in 1 .. 2 * n : Append(m, x)[i] = m[i]
    BY <1>1, <2>0, <2>2, AppendProperties, SMTT(30)
  <2>4. t = Append(m, x)
    BY DEF m, s
  <2> HIDE DEF t
  <2>5. t \in Seq(U) /\ Len(t) = 2 * n + 1 /\ t[2 * n + 1] = x /\ \A i \in 1 .. 2 * n : t[i] = m[i]
    BY <2>3, <2>4
  <2>6. \A i \in 1 .. 2 * n - 1 : t[i] = s[i]
    BY <1>1, <2>2, <2>5
  <2>7. t[2 * n] = NL
    BY <1>1, <2>2, <2>5
  <2> QED
    BY <2>5, <2>6, <2>7 DEF s
<1>5. ASSUME NEW j \in 1 .. 2 * n + 1 PROVE Text(c)[j] = t[j]
  <2> HIDE DEF t, c, n
  <2>1. CASE j = 2 * n + 1
    <3>1. n + 1 \in 1 .. n + 1 /\ 2 * (n + 1) - 1 = 2 * n + 1
      BY <1>1
    <3>2. Text(c)[2 * n + 1] = c[n + 1]
      BY <1>3, <3>1
    <3> QED
      BY <1>1, <1>4, <2>1, <3>2
  <2>2. CASE j = 2 * n
    <3>1. n \in 1 .. n
      BY <1>1
    <3>2. Text(c)[2 * n] = NL
      BY <1>3, <3>1
    <3> QED
      BY <1>4, <2>2, <3>2
  <2>3. CASE \E i \in 1 .. n : j = 2 * i - 1
    <3>1. PICK i \in 1 .. n : j = 2 * i - 1
      BY <2>3
    <3>2. i \in 1 .. n + 1 /\ 2 * i - 1 \in 1 .. 2 * n - 1
      BY <1>1
    <3>3. Text(c)[2 * i - 1] = c[i] /\ t[2 * i - 1] = Text(b)[2 * i - 1]
      BY <1>3, <1>4, <3>2
    <3>4. Text(b)[2 * i - 1] = b[i] /\ c[i] = b[i]
      BY <1>1, <1>2
    <3> QED
      BY <3>1, <3>3, <3>4
  <2>4. CASE \E i \in 1 .. n - 1 : j = 2 * i
    <3>1. PICK i \in 1 .. n - 1 : j = 2 * i
      BY <2>4
    <3>2. i \in 1 .. n /\ 2 * i \in 1 .. 2 * n - 1
      BY <1>1
    <3>3. Text(c)[2 * i] = NL /\ t[2 * i] = Text(b)[2 * i]
      BY <1>3, <1>4, <3>2
    <3>4. Text(b)[2 * i] = NL
      BY <1>2
    <3> QED
      BY <3>1, <3>3, <3>4
  <2>5. j = 2 * n + 1 \/ j = 2 * n \/ (\E i \in 1 .. n : j = 2 * i - 1) \/ (\E i \in 1 .. n - 1 : j = 2 * i)
    <3>1. CASE j % 2 = 1
      <4>1. (j + 1) \div 2 \in 1 .. n + 1 /\ j = 2 * ((j + 1) \div 2) - 1
        BY <1>1, <3>1
      <4>2. (j + 1) \div 2 = n + 1 \/ (j + 1) \div 2 \in 1 .. n
        BY <1>1, <4>1
      <4> QED
        BY <1>1, <4>1, <4>2
    <3>2. CASE j % 2 = 0
      <4>1. j \div 2 \in 1 .. n /\ j = 2 * (j \div 2)
        BY <1>1, <3>2
      <4>2. j \div 2 = n \/ j \div 2 \in 1 .. n - 1
        BY <1>1, <4>1
      <4> QED
        BY <1>1, <4>1, <4>2
    <3>3. j % 2 = 1 \/ j % 2 = 0
      BY <1>1
    <3> QED
      BY <3>1, <3>2, <3>3
  <2> QED
    BY <2>1, <2>2, <2>3, <2>4, <2>5
<1> HIDE DEF t, c, n, U
<1>6. Text(c) = t
  BY <1>3, <1>4, <1>5, SameSequence
<1> QED
  BY <1>6 DEF t, c

\* The lines that print are all but the line feeds between them.
LEMMA PrintedOnly ==
  ASSUME NEW T, NEW s \in Seq(T \cup {NL})
  PROVE  Printed(s) = Only(s, T \ {NL})
<1>1. \A i \in DOMAIN s : s[i] \in T \cup {NL}
  OBVIOUS
<1>2. [i \in DOMAIN s |-> IF s[i] # NL THEN <<s[i]>> ELSE <<>>]
        = [i \in DOMAIN s |-> IF s[i] \in T \ {NL} THEN <<s[i]>> ELSE <<>>]
  BY <1>1
<1> QED
  BY <1>2 DEF Printed, Kept, Only

\* Without the line feeds a block's text is the block.
LEMMA TextPrints ==
  ASSUME NEW T, NL \notin T, NEW b \in Seq(T)
  PROVE  Printed(Text(b)) = b
<1> DEFINE A == {s \in Seq(T) : Only(Text(s), T) = s}
           U == T \cup {NL}
<1>1. <<>> \in A
  <2>1. <<>> \in Seq(T) /\ <<>> \in Seq(U)
    OBVIOUS
  <2>2. Text(<<>>) = <<>>
    BY <2>1, TextType
  <2>3. Only(<<>>, T) = <<>>
    BY <2>1, OnlyLaw
  <2> QED
    BY <2>1, <2>2, <2>3
<1>2. ASSUME NEW s \in Seq(T), s \in A, NEW x \in T PROVE Append(s, x) \in A
  <2>0. Append(s, x) \in Seq(T) /\ x \in U /\ NL \in U /\ NL \notin T
    BY AppendProperties
  <2>1. CASE s = <<>>
    <3>1. Append(s, x) = <<x>> /\ Len(<<x>>) = 1 /\ <<x>> \in Seq(T) /\ <<x>> # <<>>
      BY <2>1
    <3>2. Text(<<x>>) = <<x>>
      <4>1. /\ Text(<<x>>) \in Seq(U) /\ Len(Text(<<x>>)) = 2 * Len(<<x>>) - 1
            /\ \A i \in 1 .. Len(<<x>>) : Text(<<x>>)[2 * i - 1] = <<x>>[i]
        BY <3>1, TextType
      <4>2. Len(Text(<<x>>)) = 1
        BY <3>1, <4>1
      <4>3. Text(<<x>>)[2 * 1 - 1] = x
        BY <3>1, <4>1
      <4>4. 2 * 1 - 1 = 1
        OBVIOUS
      <4>5. Text(<<x>>)[1] = x
        BY <4>3, <4>4
      <4> DEFINE t == Text(<<x>>)
      <4> HIDE DEF t
      <4>6. t \in Seq(U) /\ Len(t) = 1 /\ t[1] = x
        BY <4>1, <4>2, <4>5 DEF t
      <4>7. t = <<x>>
        BY <4>6
      <4> QED
        BY <4>7 DEF t
    <3>3. <<x>> = Append(<<>>, x) /\ <<>> \in Seq(U)
      BY <3>1, <2>1
    <3>4. Only(Append(<<>>, x), T) = Append(Only(<<>>, T), x) /\ Only(<<>>, T) = <<>>
      <4> DEFINE e == <<>>
      <4>1. e \in Seq(U) /\ e = <<>>
        BY <3>3
      <4> HIDE DEF e
      <4>2. Only(e, T) = <<>>
        BY <4>1, OnlyLaw
      <4>3. Only(Append(e, x), T) = IF x \in T THEN Append(Only(e, T), x) ELSE Only(e, T)
        <5> HIDE DEF U
        <5>1. \A y \in U : Only(Append(e, y), T) = IF y \in T THEN Append(Only(e, T), y) ELSE Only(e, T)
          <6>1. e \in Seq(U)
            BY <4>1
          <6> QED
            BY <6>1, OnlyLaw
        <5> QED
          BY <2>0, <5>1
      <4> QED
        BY <4>1, <4>2, <4>3
    <3> QED
      BY <2>0, <3>1, <3>2, <3>3, <3>4
  <2>2. CASE s # <<>>
    <3> DEFINE t == Text(s)
               m == Append(t, NL)
    <3>1. Text(Append(s, x)) = Append(m, x)
      BY <2>2, TextAppend
    <3>2. t \in Seq(U)
      BY TextType
    <3>3. Only(t, T) = s
      BY <1>2
    <3> HIDE DEF t
    <3>4. m \in Seq(U) /\ Only(m, T) = Only(t, T)
      <4>1. m \in Seq(U)
        BY <2>0, <3>2, AppendProperties
      <4>2. Only(Append(t, NL), T) = IF NL \in T THEN Append(Only(t, T), NL) ELSE Only(t, T)
        BY <2>0, <3>2, OnlyLaw
      <4> QED
        BY <2>0, <4>1, <4>2
    <3> HIDE DEF m
    <3>5. Only(Append(m, x), T) = Append(Only(m, T), x)
      BY <2>0, <3>4, OnlyLaw
    <3> QED
      BY <2>0, <3>1, <3>3, <3>4, <3>5
  <2> QED
    BY <2>1, <2>2
<1>3. b \in A
  <2> HIDE DEF A
  <2> QED
    BY <1>1, <1>2, SequenceInduction
<1>4. Text(b) \in Seq(U)
  BY TextType
<1>5. Printed(Text(b)) = Only(Text(b), T \ {NL})
  <2> DEFINE t == Text(b)
  <2> HIDE DEF t
  <2>1. Printed(t) = Only(t, T \ {NL})
    BY <1>4, PrintedOnly DEF t
  <2> QED
    BY <2>1 DEF t
<1>6. T \ {NL} = T
  OBVIOUS
<1> QED
  BY <1>3, <1>5, <1>6

\* The elements of a sequence, one at a time.
LEMMA RangeLaw ==
  ASSUME NEW T, NEW s \in Seq(T), NEW x \in T
  PROVE  /\ Range(Append(s, x)) = Range(s) \cup {x} /\ Range(s) \subseteq T
         /\ (s = <<>>) = (Range(s) = {})
<1>1. /\ DOMAIN Append(s, x) = 1 .. Len(s) + 1 /\ Append(s, x)[Len(s) + 1] = x
      /\ \A i \in 1 .. Len(s) : Append(s, x)[i] = s[i]
  BY AppendProperties
<1>2. DOMAIN s = 1 .. Len(s) /\ Len(s) \in Nat /\ \A i \in 1 .. Len(s) : s[i] \in T
  OBVIOUS
<1>3. 1 .. Len(s) + 1 = (1 .. Len(s)) \cup {Len(s) + 1}
  BY <1>2
<1>4. (s = <<>>) = (Range(s) = {})
  <2>1. CASE s = <<>>
    <3>1. DOMAIN s = {}
      BY <2>1
    <3> QED
      BY <2>1, <3>1 DEF Range
  <2>2. CASE s # <<>>
    <3>1. 1 \in DOMAIN s
      BY <2>2
    <3>2. s[1] \in Range(s)
      BY <3>1 DEF Range
    <3> QED
      BY <2>2, <3>2
  <2> QED
    BY <2>1, <2>2
<1>5. Range(s) \subseteq T
  BY <1>2 DEF Range
<1>6. Range(Append(s, x)) = Range(s) \cup {x}
  <2> DEFINE t == Append(s, x)
  <2> HIDE DEF t
  <2>1. DOMAIN t = (1 .. Len(s)) \cup {Len(s) + 1} /\ t[Len(s) + 1] = x /\ \A i \in 1 .. Len(s) : t[i] = s[i]
    BY <1>1, <1>3 DEF t
  <2>2. Range(t) = Range(s) \cup {x}
    BY <1>2, <2>1 DEF Range
  <2> QED
    BY <2>2 DEF t
<1> QED
  BY <1>4, <1>5, <1>6

-----------------------------------------------------------------------------
(* Blocks: what its loop keeps.                                             *)

\* What Blocks has built after some lines.
BlockState(T) == [blocks : Seq(Seq(T)), current : Seq(T), table : BOOLEAN]
NothingSplit == [blocks |-> <<>>, current |-> <<>>, table |-> FALSE]

\* The blocks with the one that was being read.
Flushed(st) == IF st.current = <<>> THEN st.blocks ELSE Append(st.blocks, st.current)

\* What Blocks does at one line.
BlockStep(st, line) ==
  LET fresh == StartsBlock(line, st.table)
  IN  [blocks |-> IF fresh THEN Flushed(st) ELSE st.blocks,
       current |-> (IF fresh THEN <<>> ELSE st.current)
                     \o IF Kind(line) = "blank" THEN <<>> ELSE <<line>>,
       table |-> Kind(line) = "row"]

\* Flushing loses no line.
LEMMA FlushedLaw ==
  ASSUME NEW T, NEW st \in BlockState(T)
  PROVE  /\ Flushed(st) \in Seq(Seq(T))
         /\ FlattenSeq(Flushed(st)) = FlattenSeq(st.blocks) \o st.current
         /\ Range(Flushed(st)) = Range(st.blocks) \cup (IF st.current = <<>> THEN {} ELSE {st.current})
<1> DEFINE bs == st.blocks
           c == st.current
<1>1. bs \in Seq(Seq(T)) /\ c \in Seq(T)
  BY DEF BlockState
<1>2. Flushed(st) = IF c = <<>> THEN bs ELSE Append(bs, c)
  BY DEF Flushed
<1> HIDE DEF bs, c
<1>3. FlattenSeq(bs) \in Seq(T) /\ FlattenSeq(Append(bs, c)) = FlattenSeq(bs) \o c
  BY <1>1, FlattenLaw
<1>4. Append(bs, c) \in Seq(Seq(T)) /\ Range(Append(bs, c)) = Range(bs) \cup {c}
  <2> DEFINE U == Seq(T)
  <2> HIDE DEF U
  <2>1. bs \in Seq(U) /\ c \in U
    BY <1>1 DEF U
  <2>2. Append(bs, c) \in Seq(U) /\ Range(Append(bs, c)) = Range(bs) \cup {c}
    BY <2>1, RangeLaw, AppendProperties
  <2> QED
    BY <2>2 DEF U
<1>5. FlattenSeq(bs) \o <<>> = FlattenSeq(bs)
  BY <1>3, ConcatEmptySeq
<1>6. CASE c = <<>>
  BY <1>1, <1>2, <1>5, <1>6 DEF bs, c
<1>7. CASE c # <<>>
  BY <1>2, <1>3, <1>4, <1>7 DEF bs, c
<1> QED
  BY <1>6, <1>7

\* The three things a line does: end a block, begin one, go on with one.
LEMMA BlockStepLaw ==
  ASSUME NEW T, NEW st \in BlockState(T), NEW line \in T
  PROVE  /\ BlockStep(st, line) \in BlockState(T)
         /\ BlockStep(st, line).table = IsRow(line)
         /\ Kind(line) = "blank" =>
              BlockStep(st, line).blocks = Flushed(st) /\ BlockStep(st, line).current = <<>>
         /\ Kind(line) # "blank" /\ StartsBlock(line, st.table) =>
              BlockStep(st, line).blocks = Flushed(st) /\ BlockStep(st, line).current = <<line>>
         /\ Kind(line) # "blank" /\ ~StartsBlock(line, st.table) =>
              /\ BlockStep(st, line).blocks = st.blocks
              /\ BlockStep(st, line).current = Append(st.current, line)
<1> DEFINE new == BlockStep(st, line)
           fresh == StartsBlock(line, st.table)
           rest == IF fresh THEN <<>> ELSE st.current
           more == IF Kind(line) = "blank" THEN <<>> ELSE <<line>>
<1>1. new = [blocks |-> IF fresh THEN Flushed(st) ELSE st.blocks, current |-> rest \o more,
             table |-> IsRow(line)]
  BY DEF BlockStep, IsRow
<1>2. st.blocks \in Seq(Seq(T)) /\ st.current \in Seq(T) /\ Flushed(st) \in Seq(Seq(T))
  BY FlushedLaw DEF BlockState
<1>3. IsRow(line) \in BOOLEAN
  BY DEF IsRow
<1>4. rest \in Seq(T) /\ more \in Seq(T)
  BY <1>2
<1>5. rest \o more \in Seq(T)
  BY <1>4, ConcatProperties
<1>6. Kind(line) = "blank" => fresh
  BY DEF StartsBlock
<1> HIDE DEF fresh
<1>7. Kind(line) = "blank" => rest \o more = <<>>
  BY <1>6
<1>8. Kind(line) # "blank" /\ fresh => rest \o more = <<line>>
  <2>1. <<>> \o <<line>> = <<line>>
    OBVIOUS
  <2> QED
    BY <2>1
<1>9. Kind(line) # "blank" /\ ~fresh => rest \o more = Append(st.current, line)
  BY <1>2, AppendIsConcat
<1> HIDE DEF rest, more, new
<1>10. new.blocks = (IF fresh THEN Flushed(st) ELSE st.blocks) /\ new.current = rest \o more
       /\ new.table = IsRow(line) /\ new \in BlockState(T)
  BY <1>1, <1>2, <1>3, <1>5 DEF BlockState
<1> QED
  BY <1>6, <1>7, <1>8, <1>9, <1>10 DEF new, fresh

\* The states Blocks goes through, one for each line read.
LEMMA BlocksFold ==
  ASSUME NEW T, NEW lines \in Seq(T)
  PROVE  \E after \in [0 .. Len(lines) -> BlockState(T)] :
           /\ after[0] = NothingSplit
           /\ \A i \in 1 .. Len(lines) : after[i] = BlockStep(after[i - 1], lines[i])
           /\ Blocks(lines)
                = Flushed(after[Len(lines)])
<1> DEFINE n == Len(lines)
           V == BlockState(T)
           F == [q \in V \X (1 .. n) |-> BlockStep(q[1], lines[q[2]])]
           Eq(iter) == iter = [s \in SUBSET (1 .. n) |->
             IF s = {} THEN NothingSplit ELSE BlockStep(iter[s \ {Max(s)}], lines[Max(s)])]
           iter == CHOOSE iter : Eq(iter)
           after == [i \in 0 .. n |-> iter[1 .. i]]
<1>0. n \in Nat /\ DOMAIN lines = 1 .. n /\ \A i \in 1 .. n : lines[i] \in T
  OBVIOUS
<1>1. Blocks(lines) = Flushed(iter[1 .. n])
  BY <1>0 DEF Flushed, Blocks, BlockStep, NothingSplit, FoldLeft, MapThenFoldSet
<1>2. F \in [V \X (1 .. n) -> V]
  <2>1. ASSUME NEW q \in V \X (1 .. n) PROVE BlockStep(q[1], lines[q[2]]) \in V
    <3>1. q[1] \in V /\ lines[q[2]] \in T
      BY <1>0
    <3> QED
      BY <3>1, BlockStepLaw
  <2> HIDE DEF V, n
  <2> QED
    BY <2>1
<1>3. NothingSplit \in V
  BY DEF NothingSplit, BlockState
<1>4. PICK fold \in [SUBSET (1 .. n) -> V] : Unfolds(fold, V, NothingSplit, n, F)
  <2> HIDE DEF F, V, n
  <2> QED
    BY <1>0, <1>2, <1>3, FoldExists
<1>5. Eq(fold)
  <2>1. ASSUME NEW s \in SUBSET (1 .. n), s # {}
        PROVE  F[<<fold[s \ {Max(s)}], Max(s)>>]
                 = BlockStep(fold[s \ {Max(s)}], lines[Max(s)])
    <3>1. Max(s) \in s
      <4> HIDE DEF n
      <4> QED
        BY <1>0, <2>1, MaxMember
    <3> HIDE DEF V, n
    <3> QED
      BY <3>1
  <2> HIDE DEF F, V, n
  <2> QED
    BY <1>4, <2>1 DEF Unfolds
<1>6. Eq(iter)
  <2> HIDE DEF Eq
  <2> QED
    BY <1>5
<1>7. /\ iter[{}] = NothingSplit
      /\ \A i \in 1 .. n : iter[1 .. i] = BlockStep(iter[1 .. i - 1], lines[i])
  <2>1. ASSUME NEW s \in SUBSET (1 .. n)
        PROVE  iter[s] = IF s = {} THEN NothingSplit
                         ELSE BlockStep(iter[s \ {Max(s)}], lines[Max(s)])
    <3> HIDE DEF iter, n
    <3> QED
      BY <1>6, Zenon
  <2> HIDE DEF iter, n
  <2>2. ASSUME NEW i \in 1 .. n
        PROVE  iter[1 .. i] = BlockStep(iter[1 .. i - 1], lines[i])
    <3>1. /\ 1 .. i \in SUBSET (1 .. n) /\ 1 .. i # {}
          /\ Max(1 .. i) = i /\ (1 .. i) \ {Max(1 .. i)} = 1 .. i - 1
      BY <1>0, Prefix
    <3> QED
      BY <2>1, <3>1
  <2> QED
    BY <2>1, <2>2
<1>8. 1 .. 0 = {}
  OBVIOUS
<1> HIDE DEF iter, V, n
<1>9. /\ after[0] = NothingSplit
      /\ \A i \in 1 .. n : after[i] = BlockStep(after[i - 1], lines[i])
  BY <1>0, <1>7, <1>8
<1>10. after \in [0 .. n -> V]
  <2> DEFINE S == {i \in 0 .. n : after[i] \in V}
  <2>1. 0 \in S
    BY <1>0, <1>3, <1>9
  <2>2. ASSUME NEW k \in 0 .. n - 1, k \in S PROVE k + 1 \in S
    <3>1. after[k] \in V /\ k + 1 \in 1 .. n /\ (k + 1) - 1 = k
      BY <1>0, <2>2
    <3>2. after[k + 1] = BlockStep(after[k], lines[k + 1])
      <4> HIDE DEF after
      <4> QED
        BY <1>9, <3>1
    <3>3. BlockStep(after[k], lines[k + 1]) \in V
      <4> HIDE DEF after
      <4> QED
        BY <1>0, <3>1, BlockStepLaw DEF V
    <3> HIDE DEF after
    <3> QED
      BY <3>1, <3>2, <3>3
  <2>3. \A k \in 0 .. n : k \in S
    <3> HIDE DEF S
    <3> QED
      BY <1>0, <2>1, <2>2, UpTo
  <2> QED
    BY <2>3
<1>11. Blocks(lines) = Flushed(after[n])
  BY <1>0, <1>1
<1> HIDE DEF after
<1> QED
  BY <1>9, <1>10, <1>11 DEF n, V

\* The lines that are kept, and a block that is a table or has no row of one.
SolidLines(T) == {x \in T : Kind(x) # "blank"}
Pure(block) == (\E x \in Range(block) : IsRow(x)) => \A x \in Range(block) : IsRow(x)

\* Two lines are in one block.
Together(blocks, x, y) == \E b \in blocks : x \in Range(b) /\ y \in Range(b)

\* The first k lines are in the blocks and in the one that is not finished.
Splitting(T, lines, st, k) ==
  /\ \A b \in Range(st.blocks) : b # <<>> /\ Pure(b)
  /\ FlattenSeq(st.blocks) \o st.current = Only(SubSeq(lines, 1, k), SolidLines(T))
  /\ \A x \in Range(st.current) : IsRow(x) = st.table
  /\ st.table = (k > 0 /\ IsRow(lines[k]))
  /\ st.table => lines[k] \in Range(st.current)
  /\ \A i \in 1 .. k - 1 : IsRow(lines[i]) /\ IsRow(lines[i + 1]) =>
       Together(Range(st.blocks) \cup {st.current}, lines[i], lines[i + 1])

\* A row of a table is not blank, and a table goes on with its next row.
LEMMA RowIsSolid ==
  ASSUME NEW x
  PROVE  /\ IsRow(x) \in BOOLEAN /\ (IsRow(x) => Kind(x) # "blank")
         /\ IsRow(x) => ~StartsBlock(x, TRUE)
         /\ \A table \in BOOLEAN : ~StartsBlock(x, table) => IsRow(x) = table
BY DEF IsRow, StartsBlock

\* The step's effect on what is read so far.
LEMMA ReadOneLine ==
  ASSUME NEW T, NEW lines \in Seq(T), NEW k \in 0 .. Len(lines) - 1
  PROVE  LET line == lines[k + 1]
         IN  /\ line \in T
             /\ Only(SubSeq(lines, 1, k), SolidLines(T)) \in Seq(T)
             /\ Only(SubSeq(lines, 1, k + 1), SolidLines(T)) =
                  IF Kind(line) # "blank" THEN Append(Only(SubSeq(lines, 1, k), SolidLines(T)), line)
                  ELSE Only(SubSeq(lines, 1, k), SolidLines(T))
<1> DEFINE line == lines[k + 1]
           before == SubSeq(lines, 1, k)
<1>1. line \in T
  OBVIOUS
<1>2. before \in Seq(T) /\ Append(before, line) = SubSeq(lines, 1, k + 1)
  <2>1. 1 \in 1 .. Len(lines) + 1 /\ k \in 1 - 1 .. Len(lines) /\ k < Len(lines)
    OBVIOUS
  <2> QED
    BY <2>1, RunLaw
<1>3. (line \in SolidLines(T)) = (Kind(line) # "blank")
  BY <1>1 DEF SolidLines
<1> HIDE DEF line, before
<1>4. /\ Only(before, SolidLines(T)) \in Seq(T)
      /\ Only(Append(before, line), SolidLines(T)) =
           IF line \in SolidLines(T) THEN Append(Only(before, SolidLines(T)), line)
           ELSE Only(before, SolidLines(T))
  <2> DEFINE S == SolidLines(T)
  <2> HIDE DEF S
  <2>1. Only(before, S) \in Seq(T)
        /\ \A x \in T : Only(Append(before, x), S) = IF x \in S THEN Append(Only(before, S), x) ELSE Only(before, S)
    BY <1>2, OnlyLaw
  <2> QED
    BY <1>1, <2>1 DEF S
<1> QED
  BY <1>1, <1>2, <1>3, <1>4 DEF line, before

\* A line that ends the current block keeps Splitting.
LEMMA FreshKeeps ==
  ASSUME NEW T, NEW lines \in Seq(T), NEW st \in BlockState(T), NEW new \in BlockState(T),
         NEW k \in 0 .. Len(lines) - 1, Splitting(T, lines, st, k),
         new.table = IsRow(lines[k + 1]), new.blocks = Flushed(st),
         Kind(lines[k + 1]) = "blank" => new.current = <<>>,
         Kind(lines[k + 1]) # "blank" => new.current = <<lines[k + 1]>>,
         ~(IsRow(lines[k + 1]) /\ st.table)
  PROVE  Splitting(T, lines, new, k + 1)
<1> DEFINE line == lines[k + 1]
<1>1. line \in T /\ k \in Nat /\ k + 1 > 0
  OBVIOUS
<1>2. /\ Flushed(st) \in Seq(Seq(T))
      /\ FlattenSeq(Flushed(st)) = FlattenSeq(st.blocks) \o st.current
      /\ Range(Flushed(st)) = Range(st.blocks) \cup (IF st.current = <<>> THEN {} ELSE {st.current})
  BY FlushedLaw
<1>3. st.table \in BOOLEAN /\ st.current \in Seq(T)
  BY DEF BlockState
<1>4. \A b \in Range(new.blocks) : b # <<>> /\ Pure(b)
  <2>1. Pure(st.current)
    BY <1>3 DEF Splitting, Pure
  <2> QED
    BY <1>2, <2>1 DEF Splitting
<1>5. FlattenSeq(new.blocks) \o new.current = Only(SubSeq(lines, 1, k + 1), SolidLines(T))
  <2> DEFINE read == Only(SubSeq(lines, 1, k), SolidLines(T))
  <2>1. FlattenSeq(new.blocks) = read
    BY <1>2 DEF Splitting
  <2>2. /\ read \in Seq(T)
        /\ Only(SubSeq(lines, 1, k + 1), SolidLines(T)) = IF Kind(line) # "blank" THEN Append(read, line) ELSE read
    BY ReadOneLine
  <2> HIDE DEF read, line
  <2>3. read \o <<>> = read /\ read \o <<line>> = Append(read, line)
    BY <1>1, <2>2, ConcatEmptySeq, AppendIsConcat
  <2> QED
    BY <2>1, <2>2, <2>3 DEF line
<1>6. Range(new.current) = IF Kind(line) = "blank" THEN {} ELSE {line}
  <2>1. Range(<<>>) = {} /\ Range(<<line>>) = {line}
    <3>1. DOMAIN <<>> = {} /\ DOMAIN <<line>> = {1} /\ <<line>>[1] = line
      OBVIOUS
    <3> QED
      BY <3>1 DEF Range
  <2> QED
    BY <2>1
<1>7. \A x \in Range(new.current) : IsRow(x) = new.table
  BY <1>6
<1>8. new.table = (k + 1 > 0 /\ IsRow(lines[k + 1]))
  BY <1>1, RowIsSolid
<1>9. new.table => lines[k + 1] \in Range(new.current)
  BY <1>6, RowIsSolid
<1>10. ASSUME NEW i \in 1 .. (k + 1) - 1, IsRow(lines[i]), IsRow(lines[i + 1])
       PROVE  Together(Range(new.blocks) \cup {new.current}, lines[i], lines[i + 1])
  <2>1. CASE i = k
    <3>1. k > 0 /\ IsRow(lines[k])
      BY <1>1, <1>10, <2>1
    <3>2. st.table = (k > 0 /\ IsRow(lines[k]))
      BY DEF Splitting
    <3>3. st.table
      BY <3>1, <3>2
    <3> QED
      BY <1>10, <2>1, <3>3
  <2>2. CASE i # k
    <3>1. i \in 1 .. k - 1
      BY <1>1, <2>2
    <3>2. PICK b \in Range(st.blocks) \cup {st.current} : lines[i] \in Range(b) /\ lines[i + 1] \in Range(b)
      BY <1>10, <3>1 DEF Splitting, Together
    <3>3. Range(<<>>) = {}
      <4>1. DOMAIN <<>> = {}
        OBVIOUS
      <4> QED
        BY <4>1 DEF Range
    <3>4. b # <<>>
      BY <3>2, <3>3
    <3>5. b \in Range(new.blocks)
      BY <1>2, <3>2, <3>4
    <3> QED
      BY <3>2, <3>5 DEF Together
  <2> QED
    BY <2>1, <2>2
<1> QED
  BY <1>4, <1>5, <1>7, <1>8, <1>9, <1>10 DEF Splitting

\* A line that goes on with the current block keeps Splitting.
LEMMA OnwardKeeps ==
  ASSUME NEW T, NEW lines \in Seq(T), NEW st \in BlockState(T), NEW new \in BlockState(T),
         NEW k \in 0 .. Len(lines) - 1, Splitting(T, lines, st, k),
         new.table = IsRow(lines[k + 1]), new.blocks = st.blocks,
         new.current = Append(st.current, lines[k + 1]),
         Kind(lines[k + 1]) # "blank", IsRow(lines[k + 1]) = st.table
  PROVE  Splitting(T, lines, new, k + 1)
<1> DEFINE line == lines[k + 1]
<1>1. line \in T /\ k \in Nat /\ k + 1 > 0
  OBVIOUS
<1>3. st.table \in BOOLEAN /\ st.current \in Seq(T) /\ st.blocks \in Seq(Seq(T))
  BY DEF BlockState
<1>4. \A b \in Range(new.blocks) : b # <<>> /\ Pure(b)
  BY DEF Splitting
<1>5. FlattenSeq(new.blocks) \o new.current = Only(SubSeq(lines, 1, k + 1), SolidLines(T))
  <2> DEFINE read == Only(SubSeq(lines, 1, k), SolidLines(T))
             flat == FlattenSeq(st.blocks)
  <2>1. flat \o st.current = read
    BY DEF Splitting
  <2>2. flat \in Seq(T)
    BY <1>3, FlattenLaw
  <2>3. Only(SubSeq(lines, 1, k + 1), SolidLines(T)) = Append(read, line)
    BY ReadOneLine
  <2> HIDE DEF read, line, flat
  <2>4. flat \o Append(st.current, line) = Append(flat \o st.current, line)
    BY <1>1, <1>3, <2>2, ConcatAppend, SMTT(30)
  <2> QED
    BY <2>1, <2>3, <2>4 DEF line, flat
<1>6. Range(new.current) = Range(st.current) \cup {line}
  <2> HIDE DEF line
  <2>1. Range(Append(st.current, line)) = Range(st.current) \cup {line}
    BY <1>1, <1>3, RangeLaw
  <2> QED
    BY <2>1 DEF line
<1>7. \A x \in Range(new.current) : IsRow(x) = new.table
  BY <1>6 DEF Splitting
<1>8. new.table = (k + 1 > 0 /\ IsRow(lines[k + 1]))
  BY <1>1, RowIsSolid
<1>9. new.table => lines[k + 1] \in Range(new.current)
  BY <1>6
<1>10. ASSUME NEW i \in 1 .. (k + 1) - 1, IsRow(lines[i]), IsRow(lines[i + 1])
       PROVE  Together(Range(new.blocks) \cup {new.current}, lines[i], lines[i + 1])
  <2>1. CASE i = k
    <3>1. st.table
      BY <1>1, <1>10, <2>1 DEF Splitting
    <3>2. lines[k] \in Range(new.current) /\ lines[k + 1] \in Range(new.current)
      BY <1>6, <3>1 DEF Splitting
    <3> QED
      BY <2>1, <3>2 DEF Together
  <2>2. CASE i # k
    <3>1. i \in 1 .. k - 1
      BY <1>1, <2>2
    <3>2. PICK b \in Range(st.blocks) \cup {st.current} : lines[i] \in Range(b) /\ lines[i + 1] \in Range(b)
      BY <1>10, <3>1 DEF Splitting, Together
    <3> QED
      BY <1>6, <3>2 DEF Together
  <2> QED
    BY <2>1, <2>2
<1> QED
  BY <1>4, <1>5, <1>7, <1>8, <1>9, <1>10 DEF Splitting

\* The invariant of the loop of split_page_blocks.
LEMMA BlockStepKeeps ==
  ASSUME NEW T, NEW lines \in Seq(T), NEW st \in BlockState(T),
         NEW k \in 0 .. Len(lines) - 1, Splitting(T, lines, st, k)
  PROVE  Splitting(T, lines, BlockStep(st, lines[k + 1]), k + 1)
<1> DEFINE line == lines[k + 1]
           new == BlockStep(st, line)
<1>1. line \in T
  OBVIOUS
<1>2. /\ new \in BlockState(T) /\ new.table = IsRow(line)
      /\ Kind(line) = "blank" => new.blocks = Flushed(st) /\ new.current = <<>>
      /\ Kind(line) # "blank" /\ StartsBlock(line, st.table) =>
           new.blocks = Flushed(st) /\ new.current = <<line>>
      /\ Kind(line) # "blank" /\ ~StartsBlock(line, st.table) =>
           new.blocks = st.blocks /\ new.current = Append(st.current, line)
  BY <1>1, BlockStepLaw
<1>3. st.table \in BOOLEAN
  BY DEF BlockState
<1> HIDE DEF new
<1>4. CASE Kind(line) = "blank" \/ StartsBlock(line, st.table)
  <2>1. ~(IsRow(line) /\ st.table)
    BY <1>3, <1>4, RowIsSolid
  <2>2. new.blocks = Flushed(st) /\ (Kind(line) = "blank" => new.current = <<>>)
        /\ (Kind(line) # "blank" => new.current = <<line>>)
    BY <1>2, <1>4
  <2>3. Splitting(T, lines, new, k + 1)
    BY <1>2, <2>1, <2>2, FreshKeeps
  <2> QED
    BY <2>3 DEF new
<1>5. CASE Kind(line) # "blank" /\ ~StartsBlock(line, st.table)
  <2>1. IsRow(line) = st.table
    BY <1>3, <1>5, RowIsSolid
  <2>2. Splitting(T, lines, new, k + 1)
    BY <1>2, <1>5, <2>1, OnwardKeeps
  <2> QED
    BY <2>2 DEF new
<1> QED
  BY <1>4, <1>5

\* Blocks of any lines: every solid line once and in order, tables whole and alone.
LEMMA BlocksLaw ==
  ASSUME NEW T, NEW lines \in Seq(T)
  PROVE  /\ Blocks(lines) \in Seq(Seq(T))
         /\ FlattenSeq(Blocks(lines)) = Solid(lines)
         /\ \A b \in Range(Blocks(lines)) : b # <<>> /\ Pure(b)
         /\ \A i \in 1 .. Len(lines) - 1 : IsRow(lines[i]) /\ IsRow(lines[i + 1]) =>
              Together(Range(Blocks(lines)), lines[i], lines[i + 1])
<1> DEFINE n == Len(lines)
<1>1. PICK after \in [0 .. n -> BlockState(T)] :
        /\ after[0] = NothingSplit
        /\ \A i \in 1 .. n : after[i] = BlockStep(after[i - 1], lines[i])
        /\ Blocks(lines) = Flushed(after[n])
  BY BlocksFold
<1>2. n \in Nat
  OBVIOUS
<1> DEFINE S == {k \in 0 .. n : Splitting(T, lines, after[k], k)}
<1>3. 0 \in S
  <2>1. after[0].blocks = <<>> /\ after[0].current = <<>> /\ after[0].table = FALSE
    BY <1>1 DEF NothingSplit
  <2>2. Range(<<>>) = {}
    <3>1. DOMAIN <<>> = {}
      OBVIOUS
    <3> QED
      BY <3>1 DEF Range
  <2>3. <<>> \in Seq(Seq(T)) /\ <<>> \in Seq(T) /\ SubSeq(lines, 1, 0) = <<>>
    BY SubSeqEmpty
  <2>4. FlattenSeq(<<>>) = <<>>
    BY <2>3, FlattenLaw
  <2>5. Only(<<>>, SolidLines(T)) = <<>>
    BY <2>3, OnlyLaw
  <2>6. <<>> \o <<>> = <<>>
    OBVIOUS
  <2>7. FlattenSeq(after[0].blocks) \o after[0].current = Only(SubSeq(lines, 1, 0), SolidLines(T))
    BY <2>1, <2>3, <2>4, <2>5, <2>6, Zenon
  <2>8. ~(0 > 0) /\ 1 .. 0 - 1 = {}
    OBVIOUS
  <2>9. Splitting(T, lines, after[0], 0)
    <3>1. Range(after[0].blocks) = {} /\ Range(after[0].current) = {} /\ ~after[0].table
      BY <2>1, <2>2
    <3> HIDE DEF n
    <3>2. \A b \in Range(after[0].blocks) : b # <<>> /\ Pure(b)
      BY <3>1
    <3>3. \A x \in Range(after[0].current) : IsRow(x) = after[0].table
      BY <3>1
    <3>4. after[0].table = (0 > 0 /\ IsRow(lines[0]))
      BY <2>1, <2>8
    <3> QED
      BY <2>7, <2>8, <3>1, <3>2, <3>3, <3>4 DEF Splitting
  <2> QED
    BY <1>2, <2>9
<1>4. ASSUME NEW k \in 0 .. n - 1, k \in S PROVE k + 1 \in S
  <2>1. k \in 0 .. n /\ k + 1 \in 1 .. n /\ (k + 1) - 1 = k /\ k + 1 \in 0 .. n
    BY <1>2
  <2>2. after[k] \in BlockState(T) /\ after[k + 1] = BlockStep(after[k], lines[k + 1])
    BY <1>1, <2>1
  <2>3. Splitting(T, lines, BlockStep(after[k], lines[k + 1]), k + 1)
    BY <1>4, <2>2, BlockStepKeeps
  <2> QED
    BY <2>1, <2>2, <2>3
<1>5. \A k \in 0 .. n : k \in S
  <2> HIDE DEF S, n
  <2> QED
    BY <1>2, <1>3, <1>4, UpTo
<1> DEFINE st == after[n]
<1>6. st \in BlockState(T) /\ Splitting(T, lines, st, n)
  BY <1>1, <1>2, <1>5
<1> HIDE DEF st
<1>7. /\ Flushed(st) \in Seq(Seq(T))
      /\ FlattenSeq(Flushed(st)) = FlattenSeq(st.blocks) \o st.current
      /\ Range(Flushed(st)) = Range(st.blocks) \cup (IF st.current = <<>> THEN {} ELSE {st.current})
  BY <1>6, FlushedLaw
<1>8. Blocks(lines) = Flushed(st)
  BY <1>1 DEF st
<1>9. FlattenSeq(Flushed(st)) = Solid(lines)
  <2>1. SubSeq(lines, 1, n) = lines
    BY SubSeqFull
  <2>2. Solid(lines) = Only(lines, SolidLines(T))
    <3>1. DOMAIN lines = 1 .. n /\ \A i \in DOMAIN lines : lines[i] \in T
      OBVIOUS
    <3>2. [i \in DOMAIN lines |-> IF Kind(lines[i]) # "blank" THEN <<lines[i]>> ELSE <<>>]
            = [i \in DOMAIN lines |-> IF lines[i] \in SolidLines(T) THEN <<lines[i]>> ELSE <<>>]
      BY <3>1 DEF SolidLines
    <3> QED
      BY <3>2 DEF Solid, Kept, Only
  <2>3. FlattenSeq(st.blocks) \o st.current = Only(SubSeq(lines, 1, n), SolidLines(T))
    BY <1>6 DEF Splitting
  <2> QED
    BY <1>7, <2>1, <2>2, <2>3
<1>10. \A b \in Range(Flushed(st)) : b # <<>> /\ Pure(b)
  <2>1. st.table \in BOOLEAN
    BY <1>6 DEF BlockState
  <2>2. Pure(st.current)
    BY <1>6, <2>1 DEF Splitting, Pure
  <2> QED
    BY <1>6, <1>7, <2>2 DEF Splitting
<1>11. ASSUME NEW i \in 1 .. n - 1, IsRow(lines[i]), IsRow(lines[i + 1])
       PROVE  Together(Range(Flushed(st)), lines[i], lines[i + 1])
  <2>1. PICK b \in Range(st.blocks) \cup {st.current} : lines[i] \in Range(b) /\ lines[i + 1] \in Range(b)
    BY <1>6, <1>11 DEF Splitting, Together
  <2>2. Range(<<>>) = {}
    <3>1. DOMAIN <<>> = {}
      OBVIOUS
    <3> QED
      BY <3>1 DEF Range
  <2>3. b # <<>>
    BY <2>1, <2>2
  <2>4. b \in Range(Flushed(st))
    BY <1>7, <2>1, <2>3
  <2> QED
    BY <2>1, <2>4 DEF Together
<1> QED
  BY <1>7, <1>8, <1>9, <1>10, <1>11

-----------------------------------------------------------------------------
(* SegmentPages: what its loop keeps.                                       *)

\* How a page was read, a block on its page, and the paragraph made of it.
Methods == {"text", "vision"}
BlockOf(T) == [block : Seq(T) \ {<<>>}, page : Nat, method : Methods]
Paragraph(T) ==
  [text : Seq(T \cup {NL}), start : Nat, end : Nat, page : Nat, method : Methods,
   number : BOOLEAN, heading : T \cup {NL}]

\* Before the first block.
NoParagraphs == <<>>

\* What SegmentPages does at one block.
AddBlock(paragraphs, blockOf) ==
  LET start == After(paragraphs)
      block == blockOf.block
  IN  Append(paragraphs,
        [text |-> Text(block), start |-> start, end |-> start + Len(Text(block)),
         page |-> blockOf.page, method |-> blockOf.method,
         number |-> Kind(Head(block)) = "numbered",
         heading |-> IF Kind(Head(block)) = "heading" /\ \A i \in DOMAIN block : Kind(block[i]) # "row"
                     THEN Head(block)
                     ELSE IF paragraphs = <<>> THEN NL ELSE Last(paragraphs).heading])

\* The paragraphs of a list of blocks.
Segmented(list) == FoldLeft(AddBlock, NoParagraphs, list)

\* Where the next paragraph begins: past the last one and a separator.
LEMMA AfterLaw ==
  ASSUME NEW T, NEW ps \in Seq(Paragraph(T))
  PROVE  /\ After(ps) \in Nat
         /\ After(ps) = IF Len(ps) = 0 THEN 0 ELSE ps[Len(ps)].end + 2
<1>1. Len(ps) \in Nat /\ (ps = <<>>) = (Len(ps) = 0)
  OBVIOUS
<1>2. Len(Separator) = 2
  BY DEF Separator
<1>3. CASE ps = <<>>
  BY <1>1, <1>3 DEF After
<1>4. CASE ps # <<>>
  <2>1. Len(ps) \in 1 .. Len(ps)
    BY <1>1, <1>4
  <2>2. ps[Len(ps)] \in Paragraph(T)
    BY <2>1
  <2>3. ps[Len(ps)].end \in Nat
    BY <2>2 DEF Paragraph
  <2>4. After(ps) = ps[Len(ps)].end + 2
    BY <1>2, <1>4 DEF After, Last
  <2> QED
    BY <1>1, <1>4, <2>3, <2>4
<1> QED
  BY <1>3, <1>4

\* A block becomes one paragraph, behind the others.
LEMMA AddBlockLaw ==
  ASSUME NEW T, NEW ps \in Seq(Paragraph(T)), NEW b \in BlockOf(T)
  PROVE  /\ AddBlock(ps, b) \in Seq(Paragraph(T))
         /\ \E p \in Paragraph(T) :
              /\ AddBlock(ps, b) = Append(ps, p)
              /\ p.text = Text(b.block) /\ p.start = After(ps) /\ p.end = p.start + Len(p.text)
              /\ p.page = b.page /\ p.method = b.method
<1> DEFINE start == After(ps)
           block == b.block
           heading == IF Kind(Head(block)) = "heading" /\ \A i \in DOMAIN block : Kind(block[i]) # "row"
                      THEN Head(block)
                      ELSE IF ps = <<>> THEN NL ELSE Last(ps).heading
           number == Kind(Head(block)) = "numbered"
           p == [text |-> Text(block), start |-> start, end |-> start + Len(Text(block)),
                 page |-> b.page, method |-> b.method, number |-> number, heading |-> heading]
<1>1. block \in Seq(T) /\ block # <<>> /\ b.page \in Nat /\ b.method \in Methods
  BY DEF BlockOf
<1>2. Head(block) \in T
  BY <1>1
<1>3. heading \in T \cup {NL}
  <2>1. ps # <<>> => Last(ps).heading \in T \cup {NL}
    <3> SUFFICES ASSUME ps # <<>> PROVE Last(ps).heading \in T \cup {NL}
      OBVIOUS
    <3>1. Len(ps) \in 1 .. Len(ps)
      OBVIOUS
    <3>2. ps[Len(ps)] \in Paragraph(T)
      BY <3>1
    <3> QED
      BY <3>2 DEF Paragraph, Last
  <2> QED
    BY <1>2, <2>1
<1>4. Text(block) \in Seq(T \cup {NL})
  BY <1>1, TextType
<1>5. start \in Nat
  BY AfterLaw
<1>6. start + Len(Text(block)) \in Nat
  BY <1>4, <1>5
<1>7. number \in BOOLEAN
  OBVIOUS
<1>8. AddBlock(ps, b) = Append(ps, p)
  BY DEF AddBlock
<1> HIDE DEF start, block, heading, number
<1>9. p \in Paragraph(T)
  BY <1>1, <1>3, <1>4, <1>5, <1>6, <1>7 DEF Paragraph
<1>10. p.text = Text(block) /\ p.start = start /\ p.end = start + Len(Text(block))
       /\ p.page = b.page /\ p.method = b.method
  OBVIOUS
<1> HIDE DEF p
<1>11. Append(ps, p) \in Seq(Paragraph(T))
  BY <1>9, AppendProperties
<1>12. p.end = p.start + Len(p.text)
  BY <1>10
<1> QED
  BY <1>8, <1>9, <1>10, <1>11, <1>12 DEF block, start

\* The paragraphs after each block.
LEMMA AddFold ==
  ASSUME NEW T, NEW list \in Seq(BlockOf(T))
  PROVE  \E after \in [0 .. Len(list) -> Seq(Paragraph(T))] :
           /\ after[0] = NoParagraphs
           /\ \A i \in 1 .. Len(list) : after[i] = AddBlock(after[i - 1], list[i])
           /\ Segmented(list)
                = after[Len(list)]
<1> DEFINE n == Len(list)
           V == Seq(Paragraph(T))
           F == [q \in V \X (1 .. n) |-> AddBlock(q[1], list[q[2]])]
           Eq(iter) == iter = [s \in SUBSET (1 .. n) |->
             IF s = {} THEN NoParagraphs ELSE AddBlock(iter[s \ {Max(s)}], list[Max(s)])]
           iter == CHOOSE iter : Eq(iter)
           after == [i \in 0 .. n |-> iter[1 .. i]]
<1>0. n \in Nat /\ DOMAIN list = 1 .. n /\ \A i \in 1 .. n : list[i] \in BlockOf(T)
  OBVIOUS
<1>1. Segmented(list) = iter[1 .. n]
  BY <1>0 DEF AddBlock, Segmented, NoParagraphs, FoldLeft, MapThenFoldSet
<1>2. F \in [V \X (1 .. n) -> V]
  <2>1. ASSUME NEW q \in V \X (1 .. n) PROVE AddBlock(q[1], list[q[2]]) \in V
    <3>1. q[1] \in V /\ list[q[2]] \in BlockOf(T)
      BY <1>0
    <3> QED
      BY <3>1, AddBlockLaw
  <2> HIDE DEF V, n
  <2> QED
    BY <2>1
<1>3. NoParagraphs \in V
  BY DEF NoParagraphs
<1>4. PICK fold \in [SUBSET (1 .. n) -> V] : Unfolds(fold, V, NoParagraphs, n, F)
  <2> HIDE DEF F, V, n
  <2> QED
    BY <1>0, <1>2, <1>3, FoldExists
<1>5. Eq(fold)
  <2>1. ASSUME NEW s \in SUBSET (1 .. n), s # {}
        PROVE  F[<<fold[s \ {Max(s)}], Max(s)>>]
                 = AddBlock(fold[s \ {Max(s)}], list[Max(s)])
    <3>1. Max(s) \in s
      <4> HIDE DEF n
      <4> QED
        BY <1>0, <2>1, MaxMember
    <3> HIDE DEF V, n
    <3> QED
      BY <3>1
  <2> HIDE DEF F, V, n
  <2> QED
    BY <1>4, <2>1 DEF Unfolds
<1>6. Eq(iter)
  <2> HIDE DEF Eq
  <2> QED
    BY <1>5
<1>7. /\ iter[{}] = NoParagraphs
      /\ \A i \in 1 .. n : iter[1 .. i] = AddBlock(iter[1 .. i - 1], list[i])
  <2>1. ASSUME NEW s \in SUBSET (1 .. n)
        PROVE  iter[s] = IF s = {} THEN NoParagraphs
                         ELSE AddBlock(iter[s \ {Max(s)}], list[Max(s)])
    <3> HIDE DEF iter, n
    <3> QED
      BY <1>6, Zenon
  <2> HIDE DEF iter, n
  <2>2. ASSUME NEW i \in 1 .. n
        PROVE  iter[1 .. i] = AddBlock(iter[1 .. i - 1], list[i])
    <3>1. /\ 1 .. i \in SUBSET (1 .. n) /\ 1 .. i # {}
          /\ Max(1 .. i) = i /\ (1 .. i) \ {Max(1 .. i)} = 1 .. i - 1
      BY <1>0, Prefix
    <3> QED
      BY <2>1, <3>1
  <2> QED
    BY <2>1, <2>2
<1>8. 1 .. 0 = {}
  OBVIOUS
<1> HIDE DEF iter, V, n
<1>9. /\ after[0] = NoParagraphs
      /\ \A i \in 1 .. n : after[i] = AddBlock(after[i - 1], list[i])
  BY <1>0, <1>7, <1>8
<1>10. after \in [0 .. n -> V]
  <2> DEFINE S == {i \in 0 .. n : after[i] \in V}
  <2>1. 0 \in S
    BY <1>0, <1>3, <1>9
  <2>2. ASSUME NEW k \in 0 .. n - 1, k \in S PROVE k + 1 \in S
    <3>1. after[k] \in V /\ k + 1 \in 1 .. n /\ (k + 1) - 1 = k
      BY <1>0, <2>2
    <3>2. after[k + 1] = AddBlock(after[k], list[k + 1])
      <4> HIDE DEF after
      <4> QED
        BY <1>9, <3>1
    <3>3. AddBlock(after[k], list[k + 1]) \in V
      <4> HIDE DEF after
      <4> QED
        BY <1>0, <3>1, AddBlockLaw DEF V
    <3> HIDE DEF after
    <3> QED
      BY <3>1, <3>2, <3>3
  <2>3. \A k \in 0 .. n : k \in S
    <3> HIDE DEF S
    <3> QED
      BY <1>0, <2>1, <2>2, UpTo
  <2> QED
    BY <2>3
<1>11. Segmented(list) = after[n]
  BY <1>0, <1>1
<1> HIDE DEF after
<1> QED
  BY <1>9, <1>10, <1>11 DEF n, V

-----------------------------------------------------------------------------
(* The full text.                                                           *)

\* What FullText does at one paragraph.
JoinStep(text, p) == (IF text = <<>> THEN <<>> ELSE text \o Separator) \o p.text
NoText == <<>>

\* It leaves a text.
LEMMA JoinType ==
  ASSUME NEW U, NL \in U, NEW text \in Seq(U), NEW p, p.text \in Seq(U)
  PROVE  JoinStep(text, p) \in Seq(U)
<1>1. Separator \in Seq(U) /\ <<>> \in Seq(U)
  BY DEF Separator
<1>2. text \o Separator \in Seq(U)
  BY <1>1, ConcatProperties
<1>3. (IF text = <<>> THEN <<>> ELSE text \o Separator) \in Seq(U)
  BY <1>1, <1>2
<1> QED
  BY <1>3, ConcatProperties DEF JoinStep

\* The texts FullText goes through.
LEMMA FullFold ==
  ASSUME NEW U, NL \in U, NEW R, \A p \in R : p.text \in Seq(U), NEW ps \in Seq(R)
  PROVE  \E after \in [0 .. Len(ps) -> Seq(U)] :
           /\ after[0] = NoText
           /\ \A i \in 1 .. Len(ps) : after[i] = JoinStep(after[i - 1], ps[i])
           /\ FullText(ps)
                = after[Len(ps)]
<1> DEFINE n == Len(ps)
           V == Seq(U)
           F == [q \in V \X (1 .. n) |-> JoinStep(q[1], ps[q[2]])]
           Eq(iter) == iter = [s \in SUBSET (1 .. n) |->
             IF s = {} THEN NoText ELSE JoinStep(iter[s \ {Max(s)}], ps[Max(s)])]
           iter == CHOOSE iter : Eq(iter)
           after == [i \in 0 .. n |-> iter[1 .. i]]
<1>0. n \in Nat /\ DOMAIN ps = 1 .. n /\ \A i \in 1 .. n : ps[i] \in R
  OBVIOUS
<1>1. FullText(ps) = iter[1 .. n]
  BY <1>0 DEF JoinStep, FullText, NoText, FoldLeft, MapThenFoldSet
<1>2. F \in [V \X (1 .. n) -> V]
  <2>1. ASSUME NEW q \in V \X (1 .. n) PROVE JoinStep(q[1], ps[q[2]]) \in V
    <3>1. q[1] \in V /\ ps[q[2]] \in R
      BY <1>0
    <3> QED
      BY <3>1, JoinType
  <2> HIDE DEF V, n
  <2> QED
    BY <2>1
<1>3. NoText \in V
  BY DEF NoText
<1>4. PICK fold \in [SUBSET (1 .. n) -> V] : Unfolds(fold, V, NoText, n, F)
  <2> HIDE DEF F, V, n
  <2> QED
    BY <1>0, <1>2, <1>3, FoldExists
<1>5. Eq(fold)
  <2>1. ASSUME NEW s \in SUBSET (1 .. n), s # {}
        PROVE  F[<<fold[s \ {Max(s)}], Max(s)>>]
                 = JoinStep(fold[s \ {Max(s)}], ps[Max(s)])
    <3>1. Max(s) \in s
      <4> HIDE DEF n
      <4> QED
        BY <1>0, <2>1, MaxMember
    <3> HIDE DEF V, n
    <3> QED
      BY <3>1
  <2> HIDE DEF F, V, n
  <2> QED
    BY <1>4, <2>1 DEF Unfolds
<1>6. Eq(iter)
  <2> HIDE DEF Eq
  <2> QED
    BY <1>5
<1>7. /\ iter[{}] = NoText
      /\ \A i \in 1 .. n : iter[1 .. i] = JoinStep(iter[1 .. i - 1], ps[i])
  <2>1. ASSUME NEW s \in SUBSET (1 .. n)
        PROVE  iter[s] = IF s = {} THEN NoText
                         ELSE JoinStep(iter[s \ {Max(s)}], ps[Max(s)])
    <3> HIDE DEF iter, n
    <3> QED
      BY <1>6, Zenon
  <2> HIDE DEF iter, n
  <2>2. ASSUME NEW i \in 1 .. n
        PROVE  iter[1 .. i] = JoinStep(iter[1 .. i - 1], ps[i])
    <3>1. /\ 1 .. i \in SUBSET (1 .. n) /\ 1 .. i # {}
          /\ Max(1 .. i) = i /\ (1 .. i) \ {Max(1 .. i)} = 1 .. i - 1
      BY <1>0, Prefix
    <3> QED
      BY <2>1, <3>1
  <2> QED
    BY <2>1, <2>2
<1>8. 1 .. 0 = {}
  OBVIOUS
<1> HIDE DEF iter, V, n
<1>9. /\ after[0] = NoText
      /\ \A i \in 1 .. n : after[i] = JoinStep(after[i - 1], ps[i])
  BY <1>0, <1>7, <1>8
<1>10. after \in [0 .. n -> V]
  <2> DEFINE S == {i \in 0 .. n : after[i] \in V}
  <2>1. 0 \in S
    BY <1>0, <1>3, <1>9
  <2>2. ASSUME NEW k \in 0 .. n - 1, k \in S PROVE k + 1 \in S
    <3>1. after[k] \in V /\ k + 1 \in 1 .. n /\ (k + 1) - 1 = k
      BY <1>0, <2>2
    <3>2. after[k + 1] = JoinStep(after[k], ps[k + 1])
      <4> HIDE DEF after
      <4> QED
        BY <1>9, <3>1
    <3>3. JoinStep(after[k], ps[k + 1]) \in V
      <4> HIDE DEF after
      <4> QED
        BY <1>0, <3>1, JoinType DEF V
    <3> HIDE DEF after
    <3> QED
      BY <3>1, <3>2, <3>3
  <2>3. \A k \in 0 .. n : k \in S
    <3> HIDE DEF S
    <3> QED
      BY <1>0, <2>1, <2>2, UpTo
  <2> QED
    BY <2>3
<1>11. FullText(ps) = after[n]
  BY <1>0, <1>1
<1> HIDE DEF after
<1> QED
  BY <1>9, <1>10, <1>11 DEF n, V

\* The full text, one paragraph at a time.
LEMMA FullTextLaw ==
  ASSUME NEW U, NL \in U, NEW R, \A p \in R : p.text \in Seq(U), NEW ps \in Seq(R)
  PROVE  /\ FullText(ps) \in Seq(U)
         /\ ps = <<>> => FullText(ps) = <<>>
         /\ \A p \in R : FullText(Append(ps, p)) = JoinStep(FullText(ps), p)
<1> DEFINE n == Len(ps)
<1>1. n \in Nat
  OBVIOUS
<1>2. PICK a \in [0 .. n -> Seq(U)] :
        /\ a[0] = NoText /\ \A i \in 1 .. n : a[i] = JoinStep(a[i - 1], ps[i])
        /\ FullText(ps) = a[n]
  BY FullFold
<1>3. ASSUME NEW p \in R PROVE FullText(Append(ps, p)) = JoinStep(FullText(ps), p)
  <2> DEFINE longer == Append(ps, p)
  <2>1. longer \in Seq(R) /\ Len(longer) = n + 1
        /\ (\A i \in 1 .. n : longer[i] = ps[i]) /\ longer[n + 1] = p
    BY AppendProperties
  <2>2. PICK b \in [0 .. Len(longer) -> Seq(U)] :
          /\ b[0] = NoText /\ \A i \in 1 .. Len(longer) : b[i] = JoinStep(b[i - 1], longer[i])
          /\ FullText(longer) = b[Len(longer)]
    <3> HIDE DEF longer
    <3> QED
      BY <2>1, FullFold
  <2> HIDE DEF longer, n
  <2> DEFINE S == {i \in 0 .. n : a[i] = b[i]}
  <2>3. 0 \in S
    BY <1>1, <1>2, <2>2
  <2>4. ASSUME NEW k \in 0 .. n - 1, k \in S PROVE k + 1 \in S
    <3>1. k + 1 \in 1 .. n /\ (k + 1) - 1 = k
      BY <1>1
    <3>4. k + 1 \in 1 .. Len(longer)
      BY <1>1, <2>1
    <3>2. a[k + 1] = JoinStep(a[k], ps[k + 1])
      BY <1>2, <3>1
    <3>3. b[k + 1] = JoinStep(b[k], ps[k + 1])
      BY <2>1, <2>2, <3>1, <3>4
    <3>5. a[k] = b[k] /\ k + 1 \in 0 .. n
      BY <1>1, <2>4
    <3>6. a[k + 1] = b[k + 1]
      BY <3>2, <3>3, <3>5
    <3> QED
      BY <3>5, <3>6
  <2>5. \A k \in 0 .. n : k \in S
    <3> HIDE DEF S
    <3> QED
      BY <1>1, <2>3, <2>4, UpTo
  <2>6. a[n] = b[n]
    BY <1>1, <2>5
  <2>7. b[n + 1] = JoinStep(b[n], p)
    <3>1. n + 1 \in 1 .. Len(longer) /\ (n + 1) - 1 = n
      BY <1>1, <2>1
    <3> QED
      BY <2>1, <2>2, <3>1
  <2> QED
    BY <1>2, <2>1, <2>2, <2>6, <2>7 DEF longer
<1>4. FullText(ps) \in Seq(U)
  BY <1>1, <1>2
<1>5. ps = <<>> => FullText(ps) = <<>>
  BY <1>2 DEF NoText
<1> QED
  BY <1>3, <1>4, <1>5

\* Each paragraph is one of the blocks; the next begins two line feeds after it.
LaidOut(ps, list) ==
  /\ Len(ps) <= Len(list)
  /\ \A j \in 1 .. Len(ps) :
       /\ ps[j].text = Text(list[j].block) /\ ps[j].page = list[j].page /\ ps[j].method = list[j].method
       /\ ps[j].end = ps[j].start + Len(ps[j].text)
       /\ ps[j].start = IF j = 1 THEN 0 ELSE ps[j - 1].end + 2

\* The invariant of the loop of segment_pages.
LEMMA AddKeeps ==
  ASSUME NEW T, NEW list \in Seq(BlockOf(T)), NEW ps \in Seq(Paragraph(T)), LaidOut(ps, list),
         Len(ps) < Len(list)
  PROVE  /\ LaidOut(AddBlock(ps, list[Len(ps) + 1]), list)
         /\ Len(AddBlock(ps, list[Len(ps) + 1])) = Len(ps) + 1
<1> DEFINE n == Len(ps)
           b == list[n + 1]
           V == Paragraph(T)
<1>1. n \in Nat /\ Len(list) \in Nat /\ b \in BlockOf(T)
  <2> DEFINE W == BlockOf(T)
  <2>1. list \in Seq(W) /\ n < Len(list) /\ n \in Nat /\ Len(list) \in Nat
    OBVIOUS
  <2> HIDE DEF W
  <2>2. n + 1 \in 1 .. Len(list)
    BY <2>1
  <2>3. b \in W
    BY <2>1, <2>2
  <2> QED
    BY <2>1, <2>3 DEF W
<1>2. PICK p \in V :
        /\ AddBlock(ps, b) = Append(ps, p)
        /\ p.text = Text(b.block) /\ p.start = After(ps) /\ p.end = p.start + Len(p.text)
        /\ p.page = b.page /\ p.method = b.method
  <2> HIDE DEF b
  <2> QED
    BY <1>1, AddBlockLaw
<1>3. After(ps) = IF n = 0 THEN 0 ELSE ps[n].end + 2
  BY AfterLaw
<1> DEFINE more == Append(ps, p)
<1>4. more \in Seq(V) /\ Len(more) = n + 1 /\ more[n + 1] = p /\ \A j \in 1 .. n : more[j] = ps[j]
  <2>1. ps \in Seq(V) /\ p \in V /\ n \in Nat
    BY <1>1
  <2> HIDE DEF V
  <2> QED
    BY <2>1, AppendProperties
<1> HIDE DEF more, b, V, n
<1>5. ASSUME NEW j \in 1 .. n + 1
      PROVE  /\ more[j].text = Text(list[j].block) /\ more[j].page = list[j].page
             /\ more[j].method = list[j].method
             /\ more[j].end = more[j].start + Len(more[j].text)
             /\ more[j].start = IF j = 1 THEN 0 ELSE more[j - 1].end + 2
  <2>1. CASE j = n + 1
    <3>1. more[j] = p /\ list[j] = b
      BY <1>4, <2>1 DEF b
    <3>2. j = 1 => n = 0
      BY <1>1, <2>1
    <3>3. j # 1 => n \in 1 .. n /\ j - 1 = n /\ n # 0
      BY <1>1, <2>1
    <3>4. After(ps) = IF j = 1 THEN 0 ELSE more[j - 1].end + 2
      BY <1>3, <1>4, <3>2, <3>3
    <3> QED
      BY <1>2, <3>1, <3>4
  <2>2. CASE j # n + 1
    <3>1. j \in 1 .. n
      BY <1>1, <2>2
    <3>2. j # 1 => j - 1 \in 1 .. n
      BY <1>1, <3>1
    <3>3. more[j] = ps[j] /\ (j # 1 => more[j - 1] = ps[j - 1])
      BY <1>4, <3>1, <3>2
    <3>4. /\ ps[j].text = Text(list[j].block) /\ ps[j].page = list[j].page /\ ps[j].method = list[j].method
          /\ ps[j].end = ps[j].start + Len(ps[j].text)
          /\ ps[j].start = IF j = 1 THEN 0 ELSE ps[j - 1].end + 2
      BY <3>1 DEF LaidOut, n
    <3> QED
      BY <3>3, <3>4
  <2> QED
    BY <2>1, <2>2
<1>6. Len(more) <= Len(list)
  BY <1>1, <1>4 DEF n
<1>7. LaidOut(more, list)
  BY <1>4, <1>5, <1>6 DEF LaidOut
<1> QED
  BY <1>2, <1>4, <1>7 DEF more, b, n

\* Each block is one paragraph, laid out in order.
LEMMA SegmentedLaw ==
  ASSUME NEW T, NEW list \in Seq(BlockOf(T))
  PROVE  /\ Segmented(list) \in Seq(Paragraph(T)) /\ LaidOut(Segmented(list), list)
         /\ Len(Segmented(list)) = Len(list)
<1> DEFINE n == Len(list)
           V == Seq(Paragraph(T))
<1>1. PICK after \in [0 .. n -> V] :
        /\ after[0] = NoParagraphs /\ \A i \in 1 .. n : after[i] = AddBlock(after[i - 1], list[i])
        /\ Segmented(list) = after[n]
  BY AddFold
<1>2. n \in Nat
  OBVIOUS
<1> DEFINE S == {k \in 0 .. n : LaidOut(after[k], list) /\ Len(after[k]) = k}
<1>3. 0 \in S
  <2>1. after[0] = <<>>
    BY <1>1 DEF NoParagraphs
  <2>2. Len(after[0]) = 0
    BY <2>1
  <2>3. LaidOut(after[0], list)
    <3>1. 1 .. Len(after[0]) = {} /\ Len(after[0]) <= Len(list)
      BY <2>2
    <3> QED
      BY <3>1 DEF LaidOut
  <2> QED
    BY <1>2, <2>2, <2>3
<1>4. ASSUME NEW k \in 0 .. n - 1, k \in S PROVE k + 1 \in S
  <2>1. k \in 0 .. n /\ k + 1 \in 1 .. n /\ (k + 1) - 1 = k /\ k + 1 \in 0 .. n /\ k < Len(list)
    BY <1>2
  <2>2. after[k] \in V /\ after[k + 1] = AddBlock(after[k], list[k + 1])
    <3> HIDE DEF n, V
    <3> QED
      BY <1>1, <2>1
  <2>3. LaidOut(after[k], list) /\ Len(after[k]) = k
    BY <1>4
  <2> DEFINE ps == after[k]
  <2>4. LaidOut(AddBlock(ps, list[Len(ps) + 1]), list) /\ Len(AddBlock(ps, list[Len(ps) + 1])) = Len(ps) + 1
    <3>1. ps \in V /\ LaidOut(ps, list) /\ Len(ps) < Len(list)
      BY <2>1, <2>2, <2>3
    <3> HIDE DEF ps
    <3> QED
      BY <3>1, AddKeeps
  <2> QED
    BY <2>1, <2>2, <2>3, <2>4
<1>5. \A k \in 0 .. n : k \in S
  <2> HIDE DEF S, n
  <2> QED
    BY <1>2, <1>3, <1>4, UpTo
<1>6. n \in 0 .. n /\ n \in S
  BY <1>2, <1>5
<1> QED
  BY <1>1, <1>6

-----------------------------------------------------------------------------
(* Offsets cut paragraphs and chunks out of the full text.                  *)

\* Paragraphs whose offsets leave a separator between one and the next.
Contiguous(ps) ==
  \A j \in 1 .. Len(ps) :
    /\ ps[j].text # <<>> /\ ps[j].end = ps[j].start + Len(ps[j].text)
    /\ ps[j].start = IF j = 1 THEN 0 ELSE ps[j - 1].end + 2

\* The paragraphs of a document leave nothing else between them.
LEMMA LaidOutIsContiguous ==
  ASSUME NEW T, NEW list \in Seq(BlockOf(T)), NEW ps \in Seq(Paragraph(T)), LaidOut(ps, list)
  PROVE  Contiguous(ps)
<1>1. ASSUME NEW j \in 1 .. Len(ps) PROVE ps[j].text # <<>>
  <2>1. j \in 1 .. Len(list)
    BY DEF LaidOut
  <2>2. list[j] \in BlockOf(T)
    BY <2>1
  <2> DEFINE b == list[j].block
  <2>3. b \in Seq(T) /\ b # <<>>
    BY <2>2 DEF BlockOf
  <2> HIDE DEF b
  <2>4. Len(b) \in Nat /\ Len(b) >= 1 /\ Text(b) \in Seq(T \cup {NL}) /\ Len(Text(b)) = 2 * Len(b) - 1
    <3>1. Len(b) \in Nat /\ Len(b) >= 1
      BY <2>3
    <3>2. Text(b) \in Seq(T \cup {NL}) /\ Len(Text(b)) = 2 * Len(b) - 1
      BY <2>3, TextType
    <3> QED
      BY <3>1, <3>2
  <2>5. Len(Text(b)) # 0
    BY <2>4
  <2>6. Text(b) # <<>>
    BY <2>5
  <2> QED
    BY <2>6 DEF b, LaidOut
<1> QED
  BY <1>1 DEF LaidOut, Contiguous

\* Cutting the middle out of three parts.
LEMMA MiddleLaw ==
  ASSUME NEW U, NEW u \in Seq(U), NEW m \in Seq(U), NEW w \in Seq(U)
  PROVE  SubSeq((u \o m) \o w, Len(u) + 1, Len(u) + Len(m)) = m
<1> DEFINE um == u \o m
           all == um \o w
           s == SubSeq(all, Len(u) + 1, Len(u) + Len(m))
<1>1. Len(u) \in Nat /\ Len(m) \in Nat /\ Len(w) \in Nat
  OBVIOUS
<1>2. um \in Seq(U) /\ Len(um) = Len(u) + Len(m) /\ \A i \in 1 .. Len(m) : um[Len(u) + i] = m[i]
  BY ConcatProperties
<1> HIDE DEF um
<1>3. all \in Seq(U) /\ Len(all) = Len(um) + Len(w) /\ \A i \in 1 .. Len(um) : all[i] = um[i]
  <2>1. um \in Seq(U)
    BY <1>2
  <2> QED
    BY <2>1, ConcatProperties
<1> HIDE DEF all
<1>4. Len(u) + 1 \in 1 .. Len(all) + 1 /\ Len(u) + Len(m) \in (Len(u) + 1) - 1 .. Len(all)
  BY <1>1, <1>2, <1>3
<1>5. /\ s \in Seq(U) /\ Len(s) = (Len(u) + Len(m)) - (Len(u) + 1) + 1
      /\ \A i \in 1 .. (Len(u) + Len(m)) - (Len(u) + 1) + 1 : s[i] = all[(Len(u) + 1) + i - 1]
  BY <1>3, <1>4, RunLaw
<1>6. Len(s) = Len(m)
  BY <1>1, <1>5
<1> HIDE DEF s
<1>7. ASSUME NEW i \in 1 .. Len(m) PROVE s[i] = m[i]
  <2>1. i \in 1 .. (Len(u) + Len(m)) - (Len(u) + 1) + 1 /\ (Len(u) + 1) + i - 1 = Len(u) + i
        /\ Len(u) + i \in 1 .. Len(um)
    BY <1>1, <1>2
  <2> QED
    BY <1>2, <1>3, <1>5, <2>1
<1>8. s = m
  BY <1>5, <1>6, <1>7, SameSequence
<1> QED
  BY <1>8 DEF s, all, um

\* The first k paragraphs as one text.
UpToParagraph(ps, k) == FullText(SubSeq(ps, 1, k))

\* The text of a run of paragraphs, one paragraph longer.
LEMMA ParagraphText ==
  ASSUME NEW T, NEW ps \in Seq(Paragraph(T)), NEW a \in 1 .. Len(ps) + 1, NEW b \in a - 1 .. Len(ps) - 1
  PROVE  /\ SubSeq(ps, a, b) \in Seq(Paragraph(T)) /\ FullText(SubSeq(ps, a, b)) \in Seq(T \cup {NL})
         /\ ps[b + 1] \in Paragraph(T) /\ ps[b + 1].text \in Seq(T \cup {NL})
         /\ FullText(SubSeq(ps, a, b + 1)) = JoinStep(FullText(SubSeq(ps, a, b)), ps[b + 1])
<1> DEFINE R == Paragraph(T)
           U == T \cup {NL}
           run == SubSeq(ps, a, b)
<1>1. NL \in U /\ \A p \in R : p.text \in Seq(U)
  BY DEF Paragraph
<1>2. b + 1 \in 1 .. Len(ps) /\ b < Len(ps) /\ b \in a - 1 .. Len(ps)
  OBVIOUS
<1>3. ps[b + 1] \in R
  <2> HIDE DEF R
  <2>1. ps \in Seq(R)
    BY DEF R
  <2> QED
    BY <1>2, <2>1
<1>4. run \in Seq(R) /\ Append(run, ps[b + 1]) = SubSeq(ps, a, b + 1)
  <2> HIDE DEF R
  <2>1. ps \in Seq(R)
    BY DEF R
  <2> QED
    BY <1>2, <2>1, RunLaw
<1> HIDE DEF R, U, run
<1>5. FullText(run) \in Seq(U) /\ \A p \in R : FullText(Append(run, p)) = JoinStep(FullText(run), p)
  <2>1. run \in Seq(R)
    BY <1>4
  <2> QED
    BY <1>1, <2>1, FullTextLaw
<1>6. FullText(SubSeq(ps, a, b + 1)) = JoinStep(FullText(run), ps[b + 1])
  BY <1>3, <1>4, <1>5
<1> QED
  BY <1>1, <1>3, <1>4, <1>5, <1>6 DEF R, U, run

\* No paragraphs, no text.
LEMMA NoParagraphsNoText ==
  ASSUME NEW T, NEW ps \in Seq(Paragraph(T)), NEW a \in 1 .. Len(ps) + 1
  PROVE  FullText(SubSeq(ps, a, a - 1)) = <<>>
<1> DEFINE R == Paragraph(T)
           U == T \cup {NL}
<1>1. NL \in U /\ \A p \in R : p.text \in Seq(U)
  BY DEF Paragraph
<1>2. a - 1 < a
  OBVIOUS
<1>3. SubSeq(ps, a, a - 1) = <<>>
  BY <1>2, SubSeqEmpty
<1>4. <<>> \in Seq(R)
  OBVIOUS
<1> HIDE DEF R, U
<1>5. FullText(<<>>) = <<>>
  BY <1>1, <1>4, FullTextLaw
<1> QED
  BY <1>3, <1>5

\* Joining a paragraph puts its text at the end, past a separator.
LEMMA JoinLaw ==
  ASSUME NEW U, NL \in U, NEW text \in Seq(U), NEW p, p.text \in Seq(U), p.text # <<>>
  PROVE  /\ JoinStep(text, p) \in Seq(U) /\ JoinStep(text, p) # <<>>
         /\ \E u \in Seq(U) : /\ JoinStep(text, p) = u \o p.text
                              /\ Len(u) = IF text = <<>> THEN 0 ELSE Len(text) + 2
                              /\ text # <<>> => u = text \o Separator
<1> DEFINE u == IF text = <<>> THEN <<>> ELSE text \o Separator
           t == p.text
<1>1. Separator \in Seq(U) /\ Len(Separator) = 2
  BY DEF Separator
<1>2. text \o Separator \in Seq(U) /\ Len(text \o Separator) = Len(text) + 2
  <2>1. Separator \in Seq(U)
    BY <1>1
  <2>2. text \o Separator \in Seq(U) /\ Len(text \o Separator) = Len(text) + Len(Separator)
    BY <2>1, ConcatProperties
  <2> QED
    BY <1>1, <2>2
<1>3. u \in Seq(U) /\ Len(u) = IF text = <<>> THEN 0 ELSE Len(text) + 2
  BY <1>2
<1>4. JoinStep(text, p) = u \o t
  BY DEF JoinStep
<1>5. t \in Seq(U) /\ t # <<>>
  OBVIOUS
<1>6. text # <<>> => u = text \o Separator
  OBVIOUS
<1> HIDE DEF u, t
<1>7. u \o t \in Seq(U) /\ Len(u \o t) = Len(u) + Len(t)
  BY <1>3, <1>5, ConcatProperties
<1>8. Len(t) > 0 /\ Len(u) >= 0
  BY <1>3, <1>5
<1>9. u \o t # <<>>
  BY <1>7, <1>8
<1> QED
  BY <1>3, <1>4, <1>6, <1>7, <1>9 DEF t

\* As long as the last paragraph's end says.
LEMMA EndLaw ==
  ASSUME NEW T, NEW ps \in Seq(Paragraph(T)), Contiguous(ps)
  PROVE  \A k \in 1 .. Len(ps) : /\ UpToParagraph(ps, k) \in Seq(T \cup {NL}) /\ UpToParagraph(ps, k) # <<>>
                                 /\ Len(UpToParagraph(ps, k)) = ps[k].end
<1> DEFINE n == Len(ps)
           U == T \cup {NL}
           P(k) == UpToParagraph(ps, k)
           S == {k \in 0 .. n : k > 0 => P(k) \in Seq(U) /\ P(k) # <<>> /\ Len(P(k)) = ps[k].end}
<1>1. n \in Nat
  OBVIOUS
<1>2. 0 \in S
  BY <1>1
<1>3. ASSUME NEW k \in 0 .. n - 1, k \in S PROVE k + 1 \in S
  <2>1. k + 1 \in 1 .. n /\ (k + 1) - 1 = k /\ k + 1 \in 0 .. n /\ 1 \in 1 .. n + 1 /\ k \in 1 - 1 .. n - 1
    BY <1>1
  <2>2. /\ P(k) \in Seq(U) /\ ps[k + 1] \in Paragraph(T) /\ ps[k + 1].text \in Seq(U)
        /\ P(k + 1) = JoinStep(P(k), ps[k + 1])
    <3> HIDE DEF U
    <3> QED
      BY <2>1, ParagraphText DEF UpToParagraph, U
  <2>3. /\ ps[k + 1].text # <<>> /\ ps[k + 1].end = ps[k + 1].start + Len(ps[k + 1].text)
        /\ ps[k + 1].start = IF k + 1 = 1 THEN 0 ELSE ps[k].end + 2
    <3> HIDE DEF S
    <3> QED
      BY <2>1 DEF Contiguous
  <2>4. k = 0 => P(k) = <<>>
    <3>1. FullText(SubSeq(ps, 1, 1 - 1)) = <<>>
      BY <2>1, NoParagraphsNoText
    <3> QED
      BY <3>1 DEF UpToParagraph
  <2>5. k > 0 => P(k) # <<>> /\ Len(P(k)) = ps[k].end
    BY <1>3
  <2> DEFINE text == P(k)
             q == ps[k + 1]
  <2>6. text \in Seq(U) /\ q.text \in Seq(U) /\ q.text # <<>> /\ NL \in U
    BY <2>2, <2>3
  <2> HIDE DEF text, q, U, S
  <2>7. /\ JoinStep(text, q) \in Seq(U) /\ JoinStep(text, q) # <<>>
        /\ \E u \in Seq(U) : /\ JoinStep(text, q) = u \o q.text
                             /\ Len(u) = IF text = <<>> THEN 0 ELSE Len(text) + 2
    <3>1. /\ JoinStep(text, q) \in Seq(U) /\ JoinStep(text, q) # <<>>
          /\ \E u \in Seq(U) : /\ JoinStep(text, q) = u \o q.text
                               /\ Len(u) = IF text = <<>> THEN 0 ELSE Len(text) + 2
                               /\ text # <<>> => u = text \o Separator
      BY <2>6, JoinLaw
    <3> QED
      BY <3>1
  <2>8. PICK u \in Seq(U) : /\ JoinStep(text, q) = u \o q.text
                            /\ Len(u) = IF text = <<>> THEN 0 ELSE Len(text) + 2
    BY <2>7
  <2>9. Len(u \o q.text) = Len(u) + Len(q.text)
    BY <2>6, ConcatProperties
  <2>10. Len(u) = q.start
    <3>1. CASE k = 0
      BY <2>3, <2>4, <2>8, <3>1 DEF text, q
    <3>2. CASE k # 0
      <4>1. k > 0 /\ k + 1 # 1
        BY <1>1, <3>2
      <4> QED
        BY <2>3, <2>5, <2>8, <4>1 DEF text, q
    <3> QED
      BY <3>1, <3>2
  <2>11. Len(JoinStep(text, q)) = q.end
    BY <2>3, <2>8, <2>9, <2>10 DEF q
  <2>12. P(k + 1) \in Seq(U) /\ P(k + 1) # <<>> /\ Len(P(k + 1)) = ps[k + 1].end
    BY <2>2, <2>7, <2>11 DEF text, q
  <2> QED
    BY <2>1, <2>12 DEF S
<1>4. \A k \in 0 .. n : k \in S
  <2> HIDE DEF S, n
  <2> QED
    BY <1>1, <1>2, <1>3, UpTo
<1> QED
  BY <1>1, <1>4

\* A run of paragraphs stands in the text up to its last one from where the first begins.
LEMMA RunStands ==
  ASSUME NEW T, NEW ps \in Seq(Paragraph(T)), Contiguous(ps), NEW a \in 1 .. Len(ps)
  PROVE  \A b \in a .. Len(ps) :
           /\ FullText(SubSeq(ps, a, b)) \in Seq(T \cup {NL}) /\ FullText(SubSeq(ps, a, b)) # <<>>
           /\ \E u \in Seq(T \cup {NL}) : /\ UpToParagraph(ps, b) = u \o FullText(SubSeq(ps, a, b))
                                          /\ Len(u) = ps[a].start
<1> DEFINE n == Len(ps)
           U == T \cup {NL}
           M(b) == FullText(SubSeq(ps, a, b))
           Stands(b) == \E u \in Seq(U) : UpToParagraph(ps, b) = u \o M(b) /\ Len(u) = ps[a].start
           S == {k \in 0 .. n - a : M(a + k) \in Seq(U) /\ M(a + k) # <<>> /\ Stands(a + k)}
<1>1. n \in Nat /\ n - a \in Nat /\ a \in Nat /\ NL \in U
  OBVIOUS
<1>2. \A k \in 1 .. n : UpToParagraph(ps, k) \in Seq(U) /\ UpToParagraph(ps, k) # <<>>
                        /\ Len(UpToParagraph(ps, k)) = ps[k].end
  BY EndLaw
<1>3. 0 \in S
  <2>1. a - 1 \in a - 1 .. n - 1 /\ a \in 1 .. n + 1 /\ (a - 1) + 1 = a /\ 1 \in 1 .. n + 1
        /\ a - 1 \in 1 - 1 .. n - 1 /\ a + 0 = a
    BY <1>1
  <2>2. M(a - 1) = <<>>
    BY <2>1, NoParagraphsNoText
  <2>3. ps[a].text \in Seq(U) /\ M(a) = JoinStep(M(a - 1), ps[a])
    <3>1. /\ ps[(a - 1) + 1].text \in Seq(U)
          /\ FullText(SubSeq(ps, a, (a - 1) + 1)) = JoinStep(FullText(SubSeq(ps, a, a - 1)), ps[(a - 1) + 1])
      BY <2>1, ParagraphText
    <3> QED
      BY <2>1, <3>1
  <2>4. UpToParagraph(ps, a - 1) \in Seq(U) /\ UpToParagraph(ps, a) = JoinStep(UpToParagraph(ps, a - 1), ps[a])
    <3>1. /\ FullText(SubSeq(ps, 1, a - 1)) \in Seq(U)
          /\ FullText(SubSeq(ps, 1, (a - 1) + 1)) = JoinStep(FullText(SubSeq(ps, 1, a - 1)), ps[(a - 1) + 1])
      BY <2>1, ParagraphText
    <3> QED
      BY <2>1, <3>1 DEF UpToParagraph
  <2>5. ps[a].text # <<>> /\ ps[a].start = IF a = 1 THEN 0 ELSE ps[a - 1].end + 2
    BY DEF Contiguous
  <2> DEFINE text == UpToParagraph(ps, a - 1)
             q == ps[a]
  <2>6. M(a) = q.text
    <3>1. JoinStep(<<>>, q) = <<>> \o q.text
      BY DEF JoinStep
    <3>2. <<>> \o q.text = q.text
      BY <2>3, ConcatEmptySeq
    <3> QED
      BY <2>2, <2>3, <3>1, <3>2
  <2>7. text \in Seq(U) /\ q.text \in Seq(U) /\ q.text # <<>>
    BY <2>3, <2>4, <2>5
  <2>8. a = 1 => text = <<>>
    <3>1. FullText(SubSeq(ps, 1, 1 - 1)) = <<>>
      BY <2>1, NoParagraphsNoText
    <3> QED
      BY <3>1 DEF UpToParagraph
  <2>9. a # 1 => text # <<>> /\ Len(text) = ps[a - 1].end
    <3>1. a # 1 => a - 1 \in 1 .. n
      BY <1>1
    <3> QED
      BY <1>2, <3>1
  <2> HIDE DEF text, q, U, M
  <2>10. PICK u \in Seq(U) : /\ JoinStep(text, q) = u \o q.text
                             /\ Len(u) = IF text = <<>> THEN 0 ELSE Len(text) + 2
    <3>1. /\ JoinStep(text, q) \in Seq(U) /\ JoinStep(text, q) # <<>>
          /\ \E u \in Seq(U) : /\ JoinStep(text, q) = u \o q.text
                               /\ Len(u) = IF text = <<>> THEN 0 ELSE Len(text) + 2
                               /\ text # <<>> => u = text \o Separator
      BY <1>1, <2>7, JoinLaw
    <3> QED
      BY <3>1
  <2>11. Len(u) = q.start
    <3>1. CASE a = 1
      BY <2>5, <2>8, <2>10, <3>1 DEF q
    <3>2. CASE a # 1
      BY <2>5, <2>9, <2>10, <3>2 DEF q
    <3> QED
      BY <3>1, <3>2
  <2>12. UpToParagraph(ps, a) = u \o M(a)
    BY <2>4, <2>6, <2>10 DEF text, q
  <2>13. Stands(a)
    BY <2>11, <2>12 DEF q
  <2>14. M(a) \in Seq(U) /\ M(a) # <<>>
    BY <2>6, <2>7
  <2>15. 0 \in 0 .. n - a
    BY <1>1
  <2> HIDE DEF Stands
  <2> QED
    BY <2>1, <2>13, <2>14, <2>15
<1>4. ASSUME NEW k \in 0 .. n - a - 1, k \in S PROVE k + 1 \in S
  <2> DEFINE b == a + k
  <2>0. b \in Nat /\ b + 1 = a + (k + 1)
    BY <1>1
  <2>1. b \in a - 1 .. n - 1 /\ a \in 1 .. n + 1 /\ 1 \in 1 .. n + 1 /\ b \in 1 - 1 .. n - 1 /\ b \in 1 .. n
        /\ k + 1 \in 0 .. n - a /\ b + 1 \in 1 .. n
    BY <1>1
  <2>2. M(b) \in Seq(U) /\ M(b) # <<>> /\ Stands(b)
    BY <1>4
  <2> HIDE DEF b
  <2>3. /\ ps[b + 1].text \in Seq(U) /\ M(b + 1) = JoinStep(M(b), ps[b + 1])
    BY <2>1, ParagraphText
  <2>4. UpToParagraph(ps, b + 1) = JoinStep(UpToParagraph(ps, b), ps[b + 1])
    BY <2>1, ParagraphText DEF UpToParagraph
  <2>5. UpToParagraph(ps, b) \in Seq(U) /\ UpToParagraph(ps, b) # <<>>
    BY <1>2, <2>1
  <2>6. ps[b + 1].text # <<>>
    BY <2>1 DEF Contiguous
  <2> DEFINE text == UpToParagraph(ps, b)
             q == ps[b + 1]
             m == M(b)
  <2>7. PICK u \in Seq(U) : text = u \o m /\ Len(u) = ps[a].start
    BY <2>2
  <2>8. /\ text \in Seq(U) /\ text # <<>> /\ m \in Seq(U) /\ m # <<>> /\ q.text \in Seq(U) /\ q.text # <<>>
        /\ UpToParagraph(ps, b + 1) = JoinStep(text, q) /\ M(b + 1) = JoinStep(m, q)
    BY <2>2, <2>3, <2>4, <2>5, <2>6
  <2>9. Separator \in Seq(U)
    BY DEF Separator
  <2> HIDE DEF text, q, m, U, M, S
  <2>10. JoinStep(text, q) = (text \o Separator) \o q.text /\ JoinStep(m, q) = (m \o Separator) \o q.text
    BY <2>8 DEF JoinStep
  <2>11. (u \o m) \o Separator = u \o (m \o Separator) /\ m \o Separator \in Seq(U)
    <3>1. m \in Seq(U) /\ u \in Seq(U) /\ Separator \in Seq(U)
      BY <2>7, <2>8, <2>9
    <3>2. m \o Separator \in Seq(U)
      BY <3>1, ConcatProperties
    <3> DEFINE sep == Separator
    <3>3. u \in Seq(U) /\ m \in Seq(U) /\ sep \in Seq(U)
      BY <3>1
    <3>4. (u \o m) \o sep = u \o (m \o sep)
      <4> HIDE DEF sep
      <4> QED
        BY <3>3, ConcatAssociative, SMTT(30)
    <3> QED
      BY <3>2, <3>4
  <2> DEFINE ms == m \o Separator
  <2> HIDE DEF ms
  <2>12. (u \o ms) \o q.text = u \o (ms \o q.text)
    <3> DEFINE t == q.text
    <3>1. ms \in Seq(U) /\ t \in Seq(U) /\ u \in Seq(U)
      BY <2>7, <2>8, <2>11 DEF ms
    <3> HIDE DEF t
    <3>2. (u \o ms) \o t = u \o (ms \o t)
      BY <3>1, ConcatAssociative, SMTT(30)
    <3> QED
      BY <3>2 DEF t
  <2>13. JoinStep(text, q) = u \o JoinStep(m, q)
    BY <2>7, <2>10, <2>11, <2>12 DEF ms
  <2>14. Stands(b + 1)
    BY <2>7, <2>8, <2>13
  <2>15. M(b + 1) \in Seq(U) /\ M(b + 1) # <<>>
    <3>1. JoinStep(m, q) \in Seq(U) /\ JoinStep(m, q) # <<>>
      BY <1>1, <2>8, JoinLaw
    <3> QED
      BY <2>8, <3>1
  <2> HIDE DEF Stands
  <2> QED
    BY <2>0, <2>1, <2>14, <2>15 DEF S
<1>5. \A k \in 0 .. n - a : k \in S
  <2> HIDE DEF S
  <2> DEFINE d == n - a
  <2>1. d \in Nat /\ \A k \in 0 .. d - 1 : k \in S => k + 1 \in S
    BY <1>1, <1>4
  <2> HIDE DEF d
  <2>2. \A k \in 0 .. d : k \in S
    BY <1>3, <2>1, UpTo
  <2> QED
    BY <2>2 DEF d
<1>6. ASSUME NEW b \in a .. n PROVE M(b) \in Seq(U) /\ M(b) # <<>> /\ Stands(b)
  <2>1. b - a \in 0 .. n - a /\ a + (b - a) = b
    BY <1>1
  <2>2. b - a \in S
    <3> HIDE DEF S
    <3> QED
      BY <1>5, <2>1
  <2> HIDE DEF M, Stands, U
  <2>3. M(a + (b - a)) \in Seq(U) /\ M(a + (b - a)) # <<>> /\ Stands(a + (b - a))
    BY <2>2
  <2> QED
    BY <2>1, <2>3
<1> QED
  BY <1>6

\* What is joined later does not change the text up to a paragraph.
LEMMA TextGrows ==
  ASSUME NEW T, NEW ps \in Seq(Paragraph(T)), Contiguous(ps), NEW b \in 1 .. Len(ps)
  PROVE  \E w \in Seq(T \cup {NL}) : UpToParagraph(ps, Len(ps)) = UpToParagraph(ps, b) \o w
<1> DEFINE n == Len(ps)
           U == T \cup {NL}
           P(k) == UpToParagraph(ps, k)
           d == n - b
           S == {k \in 0 .. d : \E w \in Seq(U) : P(b + k) = P(b) \o w}
<1>1. n \in Nat /\ d \in Nat /\ b \in Nat /\ NL \in U
  OBVIOUS
<1>2. \A k \in 1 .. n : P(k) \in Seq(U) /\ P(k) # <<>>
  BY EndLaw
<1>3. 0 \in S
  <2>1. P(b) \in Seq(U) /\ b + 0 = b /\ 0 \in 0 .. d
    BY <1>1, <1>2
  <2>2. P(b) \o <<>> = P(b)
    <3> HIDE DEF P, U
    <3> QED
      BY <2>1, ConcatEmptySeq
  <2>3. <<>> \in Seq(U)
    OBVIOUS
  <2> HIDE DEF P, U, d
  <2> QED
    BY <2>1, <2>2, <2>3
<1>4. ASSUME NEW k \in 0 .. d - 1, k \in S PROVE k + 1 \in S
  <2> DEFINE c == b + k
  <2>0. c \in Nat /\ c + 1 = b + (k + 1) /\ c \in 1 .. n /\ c + 1 \in 1 .. n /\ k + 1 \in 0 .. d
        /\ 1 \in 1 .. n + 1 /\ c \in 1 - 1 .. n - 1
    BY <1>1
  <2>1. PICK w \in Seq(U) : P(c) = P(b) \o w
    BY <1>4
  <2> HIDE DEF c
  <2>2. ps[c + 1].text \in Seq(U) /\ P(c + 1) = JoinStep(P(c), ps[c + 1])
    BY <2>0, ParagraphText DEF UpToParagraph
  <2>3. P(c) \in Seq(U) /\ P(c) # <<>> /\ P(b) \in Seq(U)
    BY <1>2, <2>0
  <2> DEFINE text == P(c)
             q == ps[c + 1].text
             base == P(b)
             ws == w \o Separator
  <2>4. P(c + 1) = (text \o Separator) \o q
    BY <2>2, <2>3 DEF JoinStep
  <2>5. text = base \o w /\ base \in Seq(U) /\ q \in Seq(U) /\ Separator \in Seq(U)
    BY <2>1, <2>2, <2>3 DEF Separator
  <2> HIDE DEF text, q, base, P, U, S
  <2>6. (base \o w) \o Separator = base \o ws
    BY <2>5, ConcatAssociative, SMTT(30)
  <2>7. ws \in Seq(U)
    BY <2>5, ConcatProperties
  <2> HIDE DEF ws
  <2>8. (base \o ws) \o q = base \o (ws \o q) /\ ws \o q \in Seq(U)
    <3>1. base \in Seq(U) /\ ws \in Seq(U) /\ q \in Seq(U)
      BY <2>5, <2>7
    <3>2. (base \o ws) \o q = base \o (ws \o q)
      BY <3>1, ConcatAssociative, SMTT(30)
    <3>3. ws \o q \in Seq(U)
      BY <3>1, ConcatProperties
    <3> QED
      BY <3>2, <3>3
  <2>9. P(c + 1) = base \o (ws \o q)
    BY <2>4, <2>5, <2>6, <2>8
  <2>10. \E v \in Seq(U) : P(c + 1) = P(b) \o v
    BY <2>8, <2>9 DEF base
  <2> QED
    BY <2>0, <2>10 DEF S
<1>5. \A k \in 0 .. d : k \in S
  <2> HIDE DEF S, d
  <2> QED
    BY <1>1, <1>3, <1>4, UpTo
<1>6. b + d = n /\ d \in 0 .. d
  BY <1>1
<1>7. d \in S
  <2> HIDE DEF S, d
  <2> QED
    BY <1>5, <1>6
<1> HIDE DEF P, U, d
<1>8. \E w \in Seq(U) : P(n) = P(b) \o w
  BY <1>6, <1>7
<1> QED
  BY <1>8 DEF P, U

\* The offsets of the first and the last of a run of paragraphs cut the run's text out
\* of the full text: a chunk is what its offsets say, and so is a paragraph.
LEMMA SliceLaw ==
  ASSUME NEW T, NEW ps \in Seq(Paragraph(T)), Contiguous(ps),
         NEW a \in 1 .. Len(ps), NEW b \in a .. Len(ps)
  PROVE  Slice(FullText(ps), ps[a].start, ps[b].end) = FullText(SubSeq(ps, a, b))
<1> DEFINE n == Len(ps)
           U == T \cup {NL}
           m == FullText(SubSeq(ps, a, b))
           full == FullText(ps)
           start == ps[a].start
           end == ps[b].end
           text == UpToParagraph(ps, b)
<1>1. b \in 1 .. n /\ SubSeq(ps, 1, n) = ps
  BY SubSeqFull
<1>2. PICK w \in Seq(U) : UpToParagraph(ps, n) = text \o w
  BY <1>1, TextGrows
<1>3. m \in Seq(U) /\ \E u \in Seq(U) : text = u \o m /\ Len(u) = start
  <2>1. \A k \in a .. Len(ps) :
          /\ FullText(SubSeq(ps, a, k)) \in Seq(T \cup {NL}) /\ FullText(SubSeq(ps, a, k)) # <<>>
          /\ \E u \in Seq(T \cup {NL}) : /\ UpToParagraph(ps, k) = u \o FullText(SubSeq(ps, a, k))
                                         /\ Len(u) = ps[a].start
    BY RunStands
  <2> QED
    BY <2>1, Zenon
<1>4. PICK u \in Seq(U) : text = u \o m /\ Len(u) = start
  BY <1>3
<1>5. Len(text) = end
  BY <1>1, EndLaw
<1>6. full = text \o w
  BY <1>1, <1>2 DEF UpToParagraph
<1>7. Slice(full, start, end) = SubSeq(full, start + 1, end)
  BY DEF Slice
<1> HIDE DEF U, m, full, start, end, text
<1>8. Len(text) = Len(u) + Len(m)
  <2>1. Len(u \o m) = Len(u) + Len(m)
    BY <1>3, ConcatProperties
  <2> QED
    BY <1>4, <2>1
<1>9. SubSeq((u \o m) \o w, Len(u) + 1, Len(u) + Len(m)) = m
  BY <1>3, MiddleLaw
<1>10. Slice(full, start, end) = m
  <2>1. full = (u \o m) \o w
    BY <1>4, <1>6
  <2>2. start + 1 = Len(u) + 1 /\ end = Len(u) + Len(m)
    BY <1>4, <1>5, <1>8
  <2> QED
    BY <1>7, <1>9, <2>1, <2>2
<1> QED
  BY <1>10 DEF m, full, start, end

\* The text of a run of one.
LEMMA OneParagraph ==
  ASSUME NEW T, NEW ps \in Seq(Paragraph(T)), NEW a \in 1 .. Len(ps)
  PROVE  FullText(SubSeq(ps, a, a)) = ps[a].text
<1>1. a - 1 \in a - 1 .. Len(ps) - 1 /\ a \in 1 .. Len(ps) + 1 /\ (a - 1) + 1 = a
  OBVIOUS
<1>2. /\ ps[(a - 1) + 1].text \in Seq(T \cup {NL})
      /\ FullText(SubSeq(ps, a, (a - 1) + 1)) = JoinStep(FullText(SubSeq(ps, a, a - 1)), ps[(a - 1) + 1])
  BY <1>1, ParagraphText
<1>3. FullText(SubSeq(ps, a, a - 1)) = <<>>
  BY <1>1, NoParagraphsNoText
<1> DEFINE q == ps[a]
           U == T \cup {NL}
<1>4. q.text \in Seq(U) /\ FullText(SubSeq(ps, a, a)) = JoinStep(<<>>, q)
  BY <1>1, <1>2, <1>3
<1> HIDE DEF q, U
<1>5. JoinStep(<<>>, q) = <<>> \o q.text
  BY DEF JoinStep
<1>6. <<>> \o q.text = q.text
  BY <1>4, ConcatEmptySeq
<1> QED
  BY <1>4, <1>5, <1>6 DEF q

-----------------------------------------------------------------------------
(* No line is lost.                                                         *)

\* The blocks without their pages.
BlocksIn(list) == [j \in DOMAIN list |-> list[j].block]

\* Joining a paragraph adds its lines and no others.
LEMMA JoinPrints ==
  ASSUME NEW T, NL \notin T, NEW text \in Seq(T \cup {NL}), NEW p, p.text \in Seq(T \cup {NL}), p.text # <<>>
  PROVE  Only(JoinStep(text, p), T) = Only(text, T) \o Only(p.text, T)
<1> DEFINE U == T \cup {NL}
<1>1. NL \in U /\ text \in Seq(U) /\ p.text \in Seq(U)
  OBVIOUS
<1> HIDE DEF U
<1>2. PICK u \in Seq(U) : /\ JoinStep(text, p) = u \o p.text
                          /\ Len(u) = IF text = <<>> THEN 0 ELSE Len(text) + 2
                          /\ text # <<>> => u = text \o Separator
  BY <1>1, JoinLaw
<1> DEFINE e == <<>>
           one == Append(e, NL)
<1>3. e \in Seq(U) /\ one \in Seq(U) /\ Separator = Append(one, NL) /\ Separator \in Seq(U)
  BY <1>1 DEF Separator
<1> HIDE DEF e
<1>4. Only(e, T) = <<>>
  BY <1>3, OnlyLaw DEF e
<1>5. Only(one, T) = Only(e, T)
  <2>1. \A x \in U : Only(Append(e, x), T) = IF x \in T THEN Append(Only(e, T), x) ELSE Only(e, T)
    BY <1>3, OnlyLaw
  <2> QED
    BY <1>1, <2>1
<1> HIDE DEF one
<1>6. Only(Separator, T) = Only(one, T)
  <2>1. one \in Seq(U)
    BY <1>3
  <2>2. \A x \in U : Only(Append(one, x), T) = IF x \in T THEN Append(Only(one, T), x) ELSE Only(one, T)
    BY <2>1, OnlyLaw
  <2> QED
    BY <1>1, <1>3, <2>2
<1>7. Only(text, T) \in Seq(U)
  BY <1>1, OnlyLaw
<1>8. Only(u, T) = Only(text, T)
  <2>1. CASE text = <<>>
    <3>1. Len(u) = 0
      BY <1>2, <2>1
    <3>2. u = <<>>
      BY <3>1
    <3> QED
      BY <2>1, <3>2
  <2>2. CASE text # <<>>
    <3>1. u = text \o Separator
      BY <1>2, <2>2
    <3>2. Only(text \o Separator, T) = Only(text, T) \o Only(Separator, T)
      BY <1>1, <1>3, OnlyConcat
    <3>3. Only(Separator, T) = <<>>
      BY <1>4, <1>5, <1>6
    <3>4. Only(text, T) \o <<>> = Only(text, T)
      BY <1>7, ConcatEmptySeq
    <3> QED
      BY <3>1, <3>2, <3>3, <3>4
  <2> QED
    BY <2>1, <2>2
<1> DEFINE t == p.text
<1>9. t \in Seq(U)
  BY <1>1
<1> HIDE DEF t
<1>10. Only(u \o t, T) = Only(u, T) \o Only(t, T)
  BY <1>9, OnlyConcat
<1> QED
  BY <1>2, <1>8, <1>10 DEF t

\* The full text prints the lines of the blocks, in order.
LEMMA FullPrints ==
  ASSUME NEW T, NL \notin T, NEW list \in Seq(BlockOf(T)), NEW ps \in Seq(Paragraph(T)),
         LaidOut(ps, list), Len(ps) = Len(list)
  PROVE  Only(FullText(ps), T) = FlattenSeq(BlocksIn(list))
<1> DEFINE n == Len(ps)
           U == T \cup {NL}
           bs == BlocksIn(list)
           P(k) == UpToParagraph(ps, k)
           S == {k \in 0 .. n : Only(P(k), T) = FlattenSeq(SubSeq(bs, 1, k))}
<1>1. n \in Nat /\ NL \in U
  OBVIOUS
<1>2. bs \in Seq(Seq(T)) /\ Len(bs) = n /\ \A j \in 1 .. n : bs[j] = list[j].block /\ bs[j] # <<>>
  <2> DEFINE W == BlockOf(T)
  <2>1. list \in Seq(W) /\ DOMAIN list = 1 .. n /\ \A j \in 1 .. n : list[j] \in W
    OBVIOUS
  <2>2. \A j \in 1 .. n : list[j].block \in Seq(T) /\ list[j].block # <<>>
    BY <2>1 DEF BlockOf
  <2>3. bs = [j \in 1 .. n |-> list[j].block]
    BY <2>1 DEF BlocksIn
  <2> HIDE DEF bs, n
  <2> QED
    BY <1>1, <2>2, <2>3
<1>3. Contiguous(ps)
  BY LaidOutIsContiguous
<1>4. \A j \in 1 .. n : ps[j].text = Text(bs[j])
  BY <1>2 DEF LaidOut
<1>5. 0 \in S
  <2>1. 1 \in 1 .. n + 1 /\ 0 \in 0 .. n
    BY <1>1
  <2>2. FullText(SubSeq(ps, 1, 1 - 1)) = <<>>
    BY <2>1, NoParagraphsNoText
  <2>3. P(0) = <<>>
    BY <2>2 DEF UpToParagraph
  <2>4. SubSeq(bs, 1, 0) = <<>>
    BY SubSeqEmpty
  <2>5. <<>> \in Seq(Seq(T)) /\ <<>> \in Seq(T)
    OBVIOUS
  <2>6. FlattenSeq(<<>>) = <<>>
    BY <2>5, FlattenLaw
  <2>7. Only(<<>>, T) = <<>>
    BY <2>5, OnlyLaw
  <2> HIDE DEF P, bs
  <2>8. Only(P(0), T) = FlattenSeq(SubSeq(bs, 1, 0))
    BY <2>3, <2>4, <2>6, <2>7
  <2> QED
    BY <2>1, <2>8
<1>6. ASSUME NEW k \in 0 .. n - 1, k \in S PROVE k + 1 \in S
  <2>1. k + 1 \in 1 .. n /\ k + 1 \in 0 .. n /\ 1 \in 1 .. n + 1 /\ k \in 1 - 1 .. n - 1 /\ k \in 1 - 1 .. n /\ k < n
    BY <1>1
  <2>2. P(k) \in Seq(U) /\ ps[k + 1].text \in Seq(U) /\ P(k + 1) = JoinStep(P(k), ps[k + 1])
    BY <2>1, ParagraphText DEF UpToParagraph
  <2>3. ps[k + 1].text # <<>>
    BY <1>3, <2>1 DEF Contiguous
  <2>4. Only(P(k + 1), T) = Only(P(k), T) \o Only(ps[k + 1].text, T)
    <3> DEFINE text == P(k)
               q == ps[k + 1]
    <3>1. text \in Seq(U) /\ q.text \in Seq(U) /\ q.text # <<>>
      BY <2>2, <2>3
    <3> HIDE DEF text, q
    <3>2. Only(JoinStep(text, q), T) = Only(text, T) \o Only(q.text, T)
      BY <3>1, JoinPrints
    <3> QED
      BY <2>2, <3>2 DEF text, q
  <2>5. Only(ps[k + 1].text, T) = bs[k + 1]
    <3> DEFINE b == bs[k + 1]
    <3>1. b \in Seq(T) /\ ps[k + 1].text = Text(b)
      BY <1>2, <1>4, <2>1
    <3> HIDE DEF b
    <3>2. Printed(Text(b)) = b
      BY <3>1, TextPrints
    <3>3. Text(b) \in Seq(U)
      BY <3>1, TextType
    <3>4. Printed(Text(b)) = Only(Text(b), T \ {NL})
      <4> DEFINE t == Text(b)
      <4> HIDE DEF t
      <4>1. Printed(t) = Only(t, T \ {NL})
        BY <3>3, PrintedOnly DEF t
      <4> QED
        BY <4>1 DEF t
    <3>5. T \ {NL} = T
      OBVIOUS
    <3> QED
      BY <3>1, <3>2, <3>4, <3>5 DEF b
  <2>6. Only(P(k), T) = FlattenSeq(SubSeq(bs, 1, k))
    BY <1>6
  <2> DEFINE V == Seq(T)
             run == SubSeq(bs, 1, k)
  <2>7. bs \in Seq(V) /\ Len(bs) = n /\ bs[k + 1] \in V
    BY <1>2, <2>1
  <2> HIDE DEF bs, V, P, S
  <2>8. run \in Seq(V) /\ Append(run, bs[k + 1]) = SubSeq(bs, 1, k + 1)
    <3>1. 1 \in 1 .. Len(bs) + 1 /\ k \in 1 - 1 .. Len(bs) /\ k < Len(bs)
      BY <2>1, <2>7
    <3>2. bs \in Seq(V)
      BY <2>7
    <3> HIDE DEF n
    <3> QED
      BY <3>1, <3>2, RunLaw
  <2> DEFINE x == bs[k + 1]
  <2> HIDE DEF run, x
  <2>9. FlattenSeq(Append(run, x)) = FlattenSeq(run) \o x
    <3>1. run \in Seq(Seq(T)) /\ x \in Seq(T)
      BY <2>7, <2>8 DEF V, x
    <3> QED
      BY <3>1, FlattenLaw
  <2>10. Only(P(k + 1), T) = FlattenSeq(SubSeq(bs, 1, k + 1))
    BY <2>4, <2>5, <2>6, <2>8, <2>9 DEF run, x
  <2> QED
    BY <2>1, <2>10 DEF S
<1>7. \A k \in 0 .. n : k \in S
  <2> HIDE DEF S, n
  <2> QED
    BY <1>1, <1>5, <1>6, UpTo
<1>8. SubSeq(ps, 1, n) = ps /\ SubSeq(bs, 1, n) = bs
  <2>1. SubSeq(ps, 1, n) = ps
    BY SubSeqFull
  <2> HIDE DEF bs
  <2>2. SubSeq(bs, 1, Len(bs)) = bs
    BY <1>2, SubSeqFull
  <2> QED
    BY <1>2, <2>1, <2>2
<1>9. Only(P(n), T) = FlattenSeq(SubSeq(bs, 1, n))
  BY <1>1, <1>7
<1> HIDE DEF bs
<1> QED
  BY <1>8, <1>9 DEF UpToParagraph, bs

\* The elements of a concatenation.
LEMMA RangeConcat ==
  ASSUME NEW T, NEW s \in Seq(T), NEW t \in Seq(T)
  PROVE  Range(s \o t) = Range(s) \cup Range(t)
<1> DEFINE A == {u \in Seq(T) : Range(s \o u) = Range(s) \cup Range(u)}
<1>1. <<>> \in A
  <2>1. s \o <<>> = s /\ <<>> \in Seq(T)
    BY ConcatEmptySeq
  <2>2. Range(<<>>) = {}
    <3>1. DOMAIN <<>> = {}
      OBVIOUS
    <3> QED
      BY <3>1 DEF Range
  <2> QED
    BY <2>1, <2>2
<1>2. ASSUME NEW u \in Seq(T), u \in A, NEW x \in T PROVE Append(u, x) \in A
  <2>1. s \o Append(u, x) = Append(s \o u, x)
    BY ConcatAppend
  <2> DEFINE v == s \o u
  <2>2. v \in Seq(T)
    BY ConcatProperties
  <2> HIDE DEF v
  <2>3. Range(Append(v, x)) = Range(v) \cup {x}
    BY <2>2, RangeLaw
  <2>4. Range(Append(u, x)) = Range(u) \cup {x}
    BY RangeLaw
  <2>5. Append(u, x) \in Seq(T)
    BY AppendProperties
  <2>6. Range(v) = Range(s) \cup Range(u)
    BY <1>2 DEF v
  <2>7. Range(s \o Append(u, x)) = Range(s) \cup Range(Append(u, x))
    BY <2>1, <2>3, <2>4, <2>6 DEF v
  <2> QED
    BY <2>5, <2>7
<1>3. \A u \in Seq(T) : u \in A
  <2> HIDE DEF A
  <2> QED
    BY <1>1, <1>2, SequenceInduction
<1> QED
  BY <1>3

\* A list has the element.
InOneOf(e, lists) == \E l \in lists : e \in Range(l)

\* The elements of a flattened list of lists.
LEMMA FlattenRange ==
  ASSUME NEW T, NEW list \in Seq(Seq(T))
  PROVE  \A e : (e \in Range(FlattenSeq(list))) = InOneOf(e, Range(list))
<1> DEFINE Same1(l) == \A e : (e \in Range(FlattenSeq(l))) = InOneOf(e, Range(l))
           V == Seq(T)
           A == {l \in Seq(V) : Same1(l)}
<1>1. <<>> \in A
  <2>1. <<>> \in Seq(V) /\ <<>> \in Seq(Seq(T))
    OBVIOUS
  <2>2. FlattenSeq(<<>>) = <<>>
    BY <2>1, FlattenLaw
  <2>3. Range(<<>>) = {}
    <3>1. DOMAIN <<>> = {}
      OBVIOUS
    <3> QED
      BY <3>1 DEF Range
  <2>4. Same1(<<>>)
    <3> SUFFICES ASSUME NEW e PROVE (e \in Range(FlattenSeq(<<>>))) = InOneOf(e, Range(<<>>))
      OBVIOUS
    <3>1. e \notin Range(FlattenSeq(<<>>))
      <4>1. Range(FlattenSeq(<<>>)) = {}
        BY <2>2, <2>3, Zenon
      <4> QED
        BY <4>1
    <3>2. ~InOneOf(e, Range(<<>>))
      BY <2>3 DEF InOneOf
    <3>3. InOneOf(e, Range(<<>>)) \in BOOLEAN
      BY DEF InOneOf
    <3> QED
      BY <3>1, <3>2, <3>3
  <2> HIDE DEF Same1
  <2> QED
    BY <2>1, <2>4
<1>2. ASSUME NEW l \in Seq(V), l \in A, NEW x \in V PROVE Append(l, x) \in A
  <2> DEFINE flat == FlattenSeq(l)
             more == Append(l, x)
  <2>1. flat \in Seq(T) /\ FlattenSeq(more) = flat \o x
    BY FlattenLaw
  <2>2. more \in Seq(V) /\ Range(more) = Range(l) \cup {x}
    <3> HIDE DEF V
    <3> QED
      BY RangeLaw, AppendProperties
  <2>3. Same1(l)
    BY <1>2
  <2>4. Range(flat \o x) = Range(flat) \cup Range(x)
    <3> HIDE DEF flat
    <3> QED
      BY <2>1, RangeConcat
  <2>5. ASSUME NEW e PROVE (e \in Range(FlattenSeq(more))) = InOneOf(e, Range(more))
    <3>1. (e \in Range(FlattenSeq(more))) = (e \in Range(flat) \/ e \in Range(x))
      BY <2>1, <2>4
    <3>2. (e \in Range(flat)) = InOneOf(e, Range(l))
      BY <2>3
    <3>3. InOneOf(e, Range(more)) = (InOneOf(e, Range(l)) \/ e \in Range(x))
      <4> HIDE DEF more
      <4> QED
        BY <2>2 DEF InOneOf
    <3> HIDE DEF more, flat
    <3> QED
      BY <3>1, <3>2, <3>3
  <2>6. Same1(more)
    <3> HIDE DEF more
    <3> QED
      BY <2>5
  <2> HIDE DEF more, Same1
  <2>7. more \in A
    BY <2>2, <2>6
  <2> QED
    BY <2>7 DEF more
<1>3. list \in A
  <2>1. \A l \in Seq(V) : l \in A
    <3> HIDE DEF A, V
    <3> QED
      BY <1>1, <1>2, SequenceInduction
  <2> QED
    BY <2>1
<1> QED
  BY <1>3

\* BlocksIn, one block at a time.
LEMMA BlocksInAppend ==
  ASSUME NEW T, NEW s \in Seq(BlockOf(T)), NEW b \in BlockOf(T)
  PROVE  /\ BlocksIn(s) \in Seq(Seq(T)) /\ BlocksIn(Append(s, b)) = Append(BlocksIn(s), b.block)
<1> DEFINE W == BlockOf(T)
           V == Seq(T)
           n == Len(s)
           t == Append(s, b)
           m == BlocksIn(t)
           bs == BlocksIn(s)
<1>0. \A x \in W : x.block \in V
  BY DEF BlockOf
<1>1. n \in Nat /\ s \in Seq(W) /\ DOMAIN s = 1 .. n /\ \A i \in 1 .. n : s[i] \in W
  OBVIOUS
<1> HIDE DEF W, V
<1>2. b \in W /\ b.block \in V
  BY <1>0 DEF W
<1>3. t \in Seq(W) /\ DOMAIN t = 1 .. n + 1 /\ t[n + 1] = b /\ \A i \in 1 .. n : t[i] = s[i]
  BY <1>1, <1>2, AppendProperties
<1>4. bs = [i \in 1 .. n |-> s[i].block]
  BY <1>1 DEF BlocksIn
<1> HIDE DEF t
<1>5. m = [i \in 1 .. n + 1 |-> t[i].block]
  BY <1>3 DEF BlocksIn
<1> HIDE DEF n, m, bs
<1>6. bs \in Seq(V) /\ Len(bs) = n /\ \A i \in 1 .. n : bs[i] = s[i].block
  BY <1>0, <1>1, <1>4
<1>7. ASSUME NEW i \in 1 .. n + 1 PROVE t[i].block \in V
  <2>1. i = n + 1 \/ i \in 1 .. n
    BY <1>1
  <2> QED
    BY <1>0, <1>1, <1>2, <1>3, <2>1
<1>8. m \in Seq(V) /\ Len(m) = n + 1 /\ \A i \in 1 .. n + 1 : m[i] = t[i].block
  <2>1. n + 1 \in Nat
    BY <1>1
  <2> QED
    BY <1>5, <1>7, <2>1
<1> DEFINE x == b.block
<1> HIDE DEF x
<1>9. Append(bs, x) \in Seq(V) /\ Len(Append(bs, x)) = n + 1 /\ Append(bs, x)[n + 1] = x
      /\ \A i \in 1 .. n : Append(bs, x)[i] = bs[i]
  <2>1. x \in V
    BY <1>2 DEF x
  <2> QED
    BY <1>6, <2>1, AppendProperties
<1> DEFINE a == Append(bs, x)
<1> HIDE DEF a
<1>10. ASSUME NEW i \in 1 .. n + 1 PROVE m[i] = a[i]
  <2>1. CASE i = n + 1
    BY <1>3, <1>8, <1>9, <2>1 DEF a, x
  <2>2. CASE i # n + 1
    <3>1. i \in 1 .. n
      BY <1>1, <2>2
    <3> QED
      BY <1>3, <1>6, <1>8, <1>9, <3>1 DEF a
  <2> QED
    BY <2>1, <2>2
<1>11. m = a
  BY <1>8, <1>9, <1>10, SameSequence DEF a
<1> QED
  BY <1>6, <1>11 DEF a, m, t, x, V, bs

\* BlocksIn of a concatenation.
LEMMA BlocksInConcat ==
  ASSUME NEW T, NEW s \in Seq(BlockOf(T)), NEW t \in Seq(BlockOf(T))
  PROVE  BlocksIn(s \o t) = BlocksIn(s) \o BlocksIn(t)
<1> DEFINE W == BlockOf(T)
           A == {u \in Seq(W) : BlocksIn(s \o u) = BlocksIn(s) \o BlocksIn(u)}
<1>0. BlocksIn(s) \in Seq(Seq(T))
  <2>1. CASE \E b : b \in W
    <3>1. PICK b : b \in W
      BY <2>1
    <3> QED
      BY <3>1, BlocksInAppend
  <2>2. CASE W = {}
    <3>1. s = <<>>
      BY <2>2
    <3>2. BlocksIn(s) = <<>>
      BY <3>1 DEF BlocksIn
    <3> QED
      BY <3>2
  <2> QED
    BY <2>1, <2>2
<1>1. <<>> \in A
  <2>1. <<>> \in Seq(W) /\ s \o <<>> = s
    BY ConcatEmptySeq
  <2>2. BlocksIn(<<>>) = <<>>
    BY DEF BlocksIn
  <2>3. BlocksIn(s) \o <<>> = BlocksIn(s)
    BY <1>0, ConcatEmptySeq
  <2> QED
    BY <2>1, <2>2, <2>3
<1>2. ASSUME NEW u \in Seq(W), u \in A, NEW x \in W PROVE Append(u, x) \in A
  <2>1. s \o Append(u, x) = Append(s \o u, x)
    BY ConcatAppend
  <2> DEFINE v == s \o u
             c == x.block
             bs == BlocksIn(s)
             bu == BlocksIn(u)
             V == Seq(T)
  <2>2. v \in Seq(W) /\ Append(u, x) \in Seq(W)
    <3> HIDE DEF W
    <3>1. s \in Seq(W)
      BY DEF W
    <3> QED
      BY <3>1, ConcatProperties, AppendProperties
  <2> HIDE DEF v
  <2>3. BlocksIn(Append(v, x)) = Append(BlocksIn(v), c)
    BY <2>2, BlocksInAppend
  <2>4. BlocksIn(Append(u, x)) = Append(bu, c) /\ bu \in Seq(V)
    BY BlocksInAppend
  <2>5. c \in V /\ bs \in Seq(V)
    BY <1>0 DEF BlockOf
  <2>6. BlocksIn(v) = bs \o bu
    BY <1>2 DEF v
  <2> HIDE DEF bs, bu, c, V, W
  <2>7. bs \o Append(bu, c) = Append(bs \o bu, c)
    BY <2>4, <2>5, ConcatAppend
  <2>8. BlocksIn(s \o Append(u, x)) = bs \o BlocksIn(Append(u, x))
    BY <2>1, <2>3, <2>4, <2>6, <2>7 DEF v
  <2> QED
    BY <2>2, <2>8 DEF bs
<1>3. \A u \in Seq(W) : u \in A
  <2> HIDE DEF A, W
  <2> QED
    BY <1>1, <1>2, SequenceInduction
<1> QED
  BY <1>3

-----------------------------------------------------------------------------
(* From pages to paragraphs.                                                *)

\* A page that was read, and what SegmentPages makes of each.
PageOf(T) == [lines : Seq(T), method : Methods]

\* The blocks of page i.
PageBlocks(page, i) ==
  LET blocks == Blocks(page.lines)
  IN  [j \in DOMAIN blocks |-> [block |-> blocks[j], page |-> i, method |-> page.method]]

\* The blocks of every page.
ListsOf(pages) == [i \in DOMAIN pages |-> PageBlocks(pages[i], i)]

\* SegmentPages adds the blocks of the pages one after the other.
LEMMA SegmentPagesUnfolds ==
  ASSUME NEW pages
  PROVE  SegmentPages(pages) = Segmented(FlattenSeq(ListsOf(pages)))
BY DEF SegmentPages, Segmented, NoParagraphs, AddBlock, FoldLeft, MapThenFoldSet, ListsOf, PageBlocks

\* The blocks of a page are its Blocks, with its number and its method.
LEMMA PageBlocksLaw ==
  ASSUME NEW T, NEW page \in PageOf(T), NEW i \in Nat
  PROVE  /\ PageBlocks(page, i) \in Seq(BlockOf(T))
         /\ BlocksIn(PageBlocks(page, i)) = Blocks(page.lines)
         /\ \A e : e \in Range(PageBlocks(page, i)) <=>
              \E b \in Range(Blocks(page.lines)) : e = [block |-> b, page |-> i, method |-> page.method]
<1> DEFINE bs == Blocks(page.lines)
           n == Len(bs)
           V == Seq(T)
           list == PageBlocks(page, i)
<1>1. page.lines \in Seq(T) /\ page.method \in Methods
  BY DEF PageOf
<1>2. bs \in Seq(V) /\ \A b \in Range(bs) : b # <<>>
  <2> DEFINE lines == page.lines
  <2> HIDE DEF lines
  <2>1. Blocks(lines) \in Seq(Seq(T)) /\ \A b \in Range(Blocks(lines)) : b # <<>>
    <3>1. lines \in Seq(T)
      BY <1>1 DEF lines
    <3> QED
      BY <3>1, BlocksLaw
  <2> QED
    BY <2>1 DEF lines
<1>3. list = [j \in DOMAIN bs |-> [block |-> bs[j], page |-> i, method |-> page.method]]
  BY DEF PageBlocks
<1> HIDE DEF bs, list
<1>4. n \in Nat /\ DOMAIN bs = 1 .. n /\ \A j \in 1 .. n : bs[j] \in V /\ bs[j] # <<>>
  BY <1>2 DEF Range
<1>5. \A j \in 1 .. n : [block |-> bs[j], page |-> i, method |-> page.method] \in BlockOf(T)
  BY <1>1, <1>4 DEF BlockOf
<1>6. list \in Seq(BlockOf(T))
  <2> DEFINE W == BlockOf(T)
  <2> HIDE DEF W, n
  <2> QED
    BY <1>3, <1>4, <1>5 DEF W
<1>7. DOMAIN list = DOMAIN bs /\ \A j \in DOMAIN list : list[j].block = bs[j]
  BY <1>3
<1>8. BlocksIn(list) = bs
  <2>1. BlocksIn(list) = [j \in DOMAIN bs |-> bs[j]]
    BY <1>7 DEF BlocksIn
  <2>2. bs = [j \in DOMAIN bs |-> bs[j]]
    BY <1>2
  <2> QED
    BY <2>1, <2>2
<1>9. \A e : e \in Range(list) <=>
         \E b \in Range(bs) : e = [block |-> b, page |-> i, method |-> page.method]
  BY <1>3 DEF Range
<1> QED
  BY <1>6, <1>8, <1>9 DEF list, bs

\* The blocks of the pages, each page's in one list.
LEMMA FlattenBlocks ==
  ASSUME NEW T, NEW lists \in Seq(Seq(BlockOf(T)))
  PROVE  FlattenSeq(BlocksIn(FlattenSeq(lists)))
           = FlattenSeq([i \in DOMAIN lists |-> FlattenSeq(BlocksIn(lists[i]))])
<1> DEFINE W == BlockOf(T)
           V == Seq(W)
           G(l) == FlattenSeq(BlocksIn(l))
           each(s) == [i \in DOMAIN s |-> G(s[i])]
           A == {s \in Seq(V) : each(s) \in Seq(Seq(T)) /\ G(FlattenSeq(s)) = FlattenSeq(each(s))}
<1>0. \A l \in V : BlocksIn(l) \in Seq(Seq(T)) /\ G(l) \in Seq(T)
  <2> SUFFICES ASSUME NEW l \in V PROVE BlocksIn(l) \in Seq(Seq(T)) /\ G(l) \in Seq(T)
    OBVIOUS
  <2>1. BlocksIn(l) \in Seq(Seq(T))
    <3>1. CASE \E b : b \in W
      <4>1. PICK b : b \in W
        BY <3>1
      <4> QED
        BY <4>1, BlocksInAppend
    <3>2. CASE W = {}
      <4>1. l = <<>>
        BY <3>2
      <4>2. BlocksIn(l) = <<>>
        BY <4>1 DEF BlocksIn
      <4> QED
        BY <4>2
    <3> QED
      BY <3>1, <3>2
  <2>2. G(l) \in Seq(T)
    BY <2>1, FlattenLaw
  <2> QED
    BY <2>1, <2>2
<1>1. <<>> \in A
  <2>1. each(<<>>) = <<>> /\ BlocksIn(<<>>) = <<>>
    BY DEF BlocksIn
  <2>2. <<>> \in Seq(V) /\ <<>> \in Seq(Seq(T)) /\ <<>> \in Seq(Seq(W))
    OBVIOUS
  <2>3. FlattenSeq(<<>>) = <<>>
    BY <2>2, FlattenLaw
  <2>4. G(FlattenSeq(<<>>)) = FlattenSeq(each(<<>>))
    <3> HIDE DEF each
    <3> QED
      BY <2>1, <2>3, Zenon
  <2> HIDE DEF G, each
  <2> QED
    BY <2>1, <2>2, <2>4
<1>2. ASSUME NEW s \in Seq(V), s \in A, NEW x \in V PROVE Append(s, x) \in A
  <2> DEFINE t == Append(s, x)
             flat == FlattenSeq(s)
             gx == G(x)
             es == each(s)
             et == each(t)
             n == Len(s)
  <2>1. n \in Nat /\ t \in Seq(V) /\ DOMAIN t = 1 .. n + 1 /\ t[n + 1] = x /\ DOMAIN s = 1 .. n
        /\ \A i \in 1 .. n : t[i] = s[i]
    <3> HIDE DEF V
    <3> QED
      BY AppendProperties
  <2>2. es \in Seq(Seq(T)) /\ gx \in Seq(T) /\ G(flat) = FlattenSeq(es)
    BY <1>0, <1>2
  <2>3. FlattenSeq(t) = flat \o x /\ flat \in V
    BY FlattenLaw
  <2>4. G(flat \o x) = G(flat) \o gx
    <3> HIDE DEF flat
    <3>1. BlocksIn(flat \o x) = BlocksIn(flat) \o BlocksIn(x)
      BY <2>3, BlocksInConcat
    <3> DEFINE p == BlocksIn(flat)
               q == BlocksIn(x)
    <3>2. p \in Seq(Seq(T)) /\ q \in Seq(Seq(T))
      BY <1>0, <2>3
    <3> HIDE DEF p, q
    <3>3. FlattenSeq(p \o q) = FlattenSeq(p) \o FlattenSeq(q)
      BY <3>2, FlattenConcat
    <3> QED
      BY <3>1, <3>3 DEF p, q
  <2>5. et = [i \in 1 .. n + 1 |-> G(t[i])] /\ es = [i \in 1 .. n |-> G(s[i])]
    BY <2>1
  <2> HIDE DEF t, G
  <2> DEFINE U == Seq(T)
  <2>6. es \in Seq(U) /\ gx \in U
    BY <2>2
  <2> HIDE DEF et, es, gx, U, n
  <2>7. Len(es) = n /\ \A i \in 1 .. n : es[i] = G(s[i])
    BY <2>1, <2>5, <2>6
  <2> DEFINE a == Append(es, gx)
  <2>8. a \in Seq(U) /\ Len(a) = n + 1 /\ a[n + 1] = gx /\ \A i \in 1 .. n : a[i] = es[i]
    BY <2>6, <2>7, AppendProperties
  <2> HIDE DEF a
  <2>9. ASSUME NEW i \in 1 .. n + 1 PROVE et[i] = a[i]
    <3>1. CASE i = n + 1
      <4>1. et[i] = G(x)
        BY <2>1, <2>5, <3>1
      <4> QED
        BY <2>8, <3>1, <4>1 DEF gx
    <3>2. CASE i # n + 1
      <4>1. i \in 1 .. n
        BY <2>1, <3>2
      <4>2. et[i] = G(t[i]) /\ t[i] = s[i]
        BY <2>1, <2>5, <4>1
      <4> QED
        BY <2>7, <2>8, <4>1, <4>2
    <3> QED
      BY <3>1, <3>2
  <2>10. et \in Seq(U) /\ Len(et) = n + 1
    <3>1. \A i \in 1 .. n + 1 : a[i] \in U
      BY <2>8
    <3>2. et \in [1 .. n + 1 -> U]
      BY <2>5, <2>9, <3>1
    <3> DEFINE m == n + 1
    <3>3. m \in Nat /\ et \in [1 .. m -> U]
      BY <2>1, <3>2
    <3> HIDE DEF m
    <3>4. et \in Seq(U) /\ Len(et) = m
      BY <3>3
    <3> QED
      BY <3>4 DEF m
  <2>11. et = a
    BY <2>8, <2>9, <2>10, SameSequence
  <2>12. FlattenSeq(a) = FlattenSeq(es) \o gx
    <3>1. es \in Seq(Seq(T)) /\ gx \in Seq(T)
      BY <2>2
    <3> QED
      BY <3>1, FlattenLaw DEF a
  <2>13. G(FlattenSeq(t)) = FlattenSeq(et)
    BY <2>2, <2>3, <2>4, <2>11, <2>12 DEF gx
  <2>14. t \in Seq(V) /\ et \in Seq(Seq(T))
    BY <2>1, <2>10 DEF U
  <2>15. t \in A
    BY <2>13, <2>14 DEF et
  <2> QED
    BY <2>15 DEF t
<1>3. \A s \in Seq(V) : s \in A
  <2> HIDE DEF A, V
  <2> QED
    BY <1>1, <1>2, SequenceInduction
<1> QED
  BY <1>3

\* The paragraph is a block of a page, stored with that page and how it was read.
BlockOfAPage(p, pages) ==
  \E i \in DOMAIN pages : \E b \in Range(Blocks(pages[i].lines)) :
    p.text = Text(b) /\ p.page = i /\ p.method = pages[i].method

\* What holds of the paragraphs of any pages.
LEMMA PagesLaw ==
  ASSUME NEW T, NL \notin T, NEW pages \in Seq(PageOf(T))
  PROVE  /\ SegmentPages(pages) \in Seq(Paragraph(T)) /\ Contiguous(SegmentPages(pages))
         /\ Printed(FullText(SegmentPages(pages)))
              = FlattenSeq([i \in DOMAIN pages |-> Solid(pages[i].lines)])
         /\ \A p \in Range(SegmentPages(pages)) : BlockOfAPage(p, pages)
         /\ \A i \in DOMAIN pages : \A b \in Range(Blocks(pages[i].lines)) :
              \E p \in Range(SegmentPages(pages)) : p.text = Text(b)
<1> DEFINE n == Len(pages)
           W == BlockOf(T)
           lists == ListsOf(pages)
           list == FlattenSeq(lists)
           ps == SegmentPages(pages)
<1>1. n \in Nat /\ DOMAIN pages = 1 .. n /\ \A i \in 1 .. n : i \in Nat /\ pages[i] \in PageOf(T)
  OBVIOUS
<1>2. lists = [i \in 1 .. n |-> PageBlocks(pages[i], i)]
  BY <1>1 DEF ListsOf
<1>3. ASSUME NEW i \in 1 .. n
      PROVE  /\ PageBlocks(pages[i], i) \in Seq(W)
             /\ BlocksIn(PageBlocks(pages[i], i)) = Blocks(pages[i].lines)
             /\ \A e : e \in Range(PageBlocks(pages[i], i)) <=>
                  \E b \in Range(Blocks(pages[i].lines)) :
                    e = [block |-> b, page |-> i, method |-> pages[i].method]
             /\ FlattenSeq(Blocks(pages[i].lines)) = Solid(pages[i].lines)
  <2> DEFINE page == pages[i]
  <2>1. page \in PageOf(T) /\ i \in Nat
    BY <1>1
  <2>2. page.lines \in Seq(T)
    BY <2>1 DEF PageOf
  <2> HIDE DEF page
  <2>3. /\ PageBlocks(page, i) \in Seq(W)
        /\ BlocksIn(PageBlocks(page, i)) = Blocks(page.lines)
        /\ \A e : e \in Range(PageBlocks(page, i)) <=>
             \E b \in Range(Blocks(page.lines)) : e = [block |-> b, page |-> i, method |-> page.method]
    BY <2>1, PageBlocksLaw
  <2>4. FlattenSeq(Blocks(page.lines)) = Solid(page.lines)
    BY <2>2, BlocksLaw
  <2> QED
    BY <2>3, <2>4 DEF page
<1>4. lists \in Seq(Seq(W)) /\ DOMAIN lists = 1 .. n
  <2> DEFINE V == Seq(W)
  <2>1. \A i \in 1 .. n : PageBlocks(pages[i], i) \in V
    BY <1>3
  <2> HIDE DEF V, lists, n
  <2>2. lists \in [1 .. n -> V]
    BY <1>2, <2>1
  <2>3. lists \in Seq(V) /\ DOMAIN lists = 1 .. n
    BY <1>1, <2>2
  <2> QED
    BY <2>3 DEF V
<1>5. list \in Seq(W)
  <2> HIDE DEF lists, W
  <2> QED
    BY <1>4, FlattenLaw
<1>6. ps = Segmented(list)
  BY SegmentPagesUnfolds
<1> HIDE DEF list, lists, ps
<1>7. ps \in Seq(Paragraph(T)) /\ LaidOut(ps, list) /\ Len(ps) = Len(list)
  BY <1>5, <1>6, SegmentedLaw
<1>8. Contiguous(ps)
  BY <1>5, <1>7, LaidOutIsContiguous
<1>9. \A e : (e \in Range(list)) = InOneOf(e, Range(lists))
  BY <1>4, FlattenRange DEF list
<1>10. \A e : e \in Range(list) <=>
         \E i \in 1 .. n : \E b \in Range(Blocks(pages[i].lines)) :
           e = [block |-> b, page |-> i, method |-> pages[i].method]
  <2> SUFFICES ASSUME NEW e PROVE e \in Range(list) <=>
         \E i \in 1 .. n : \E b \in Range(Blocks(pages[i].lines)) :
           e = [block |-> b, page |-> i, method |-> pages[i].method]
    OBVIOUS
  <2>1. e \in Range(list) <=> \E l \in Range(lists) : e \in Range(l)
    BY <1>9 DEF InOneOf
  <2>2. (\E l \in Range(lists) : e \in Range(l)) <=> \E i \in 1 .. n : e \in Range(lists[i])
    BY <1>4 DEF Range
  <2>3. \A i \in 1 .. n : lists[i] = PageBlocks(pages[i], i)
    BY <1>2
  <2>4. \A i \in 1 .. n : e \in Range(lists[i]) <=>
          \E b \in Range(Blocks(pages[i].lines)) : e = [block |-> b, page |-> i, method |-> pages[i].method]
    BY <1>3, <2>3
  <2> QED
    BY <2>1, <2>2, <2>4
<1>11. ASSUME NEW p \in Range(ps)
       PROVE  BlockOfAPage(p, pages)
  <2>1. PICK j \in 1 .. Len(ps) : p = ps[j]
    BY <1>7 DEF Range
  <2> DEFINE e == list[j]
  <2>2. p.text = Text(e.block) /\ p.page = e.page /\ p.method = e.method
    BY <1>7, <2>1 DEF LaidOut
  <2>3. e \in Range(list)
    BY <1>5, <1>7 DEF Range
  <2>4. PICK i \in 1 .. n : \E b \in Range(Blocks(pages[i].lines)) :
          e = [block |-> b, page |-> i, method |-> pages[i].method]
    BY <1>10, <2>3
  <2>8. PICK b \in Range(Blocks(pages[i].lines)) :
          e = [block |-> b, page |-> i, method |-> pages[i].method]
    BY <2>4
  <2>5. e.block = b /\ e.page = i /\ e.method = pages[i].method
    BY <2>8
  <2>6. p.text = Text(b) /\ p.page = i /\ p.method = pages[i].method
    <3> HIDE DEF e
    <3> QED
      BY <2>2, <2>5
  <2> QED
    BY <1>1, <2>6 DEF BlockOfAPage
<1>12. ASSUME NEW i \in DOMAIN pages, NEW b \in Range(Blocks(pages[i].lines))
       PROVE  \E p \in Range(ps) : p.text = Text(b)
  <2> DEFINE e == [block |-> b, page |-> i, method |-> pages[i].method]
  <2>1. i \in 1 .. n
    BY <1>1
  <2>2. e \in Range(list)
    BY <1>10, <2>1
  <2>3. e.block = b
    OBVIOUS
  <2> HIDE DEF e
  <2>4. PICK j \in 1 .. Len(list) : e = list[j]
    BY <1>5, <2>2 DEF Range
  <2>5. ps[j] \in Range(ps) /\ ps[j].text = Text(b)
    BY <1>7, <2>3, <2>4 DEF LaidOut, Range
  <2> QED
    BY <2>5
<1>13. Printed(FullText(ps)) = FlattenSeq([i \in DOMAIN pages |-> Solid(pages[i].lines)])
  <2> DEFINE U == T \cup {NL}
             full == FullText(ps)
             R == Paragraph(T)
  <2>1. NL \in U /\ \A p \in R : p.text \in Seq(U)
    BY DEF Paragraph
  <2>2. full \in Seq(U)
    <3>1. ps \in Seq(R)
      BY <1>7
    <3> HIDE DEF R, U
    <3> QED
      BY <2>1, <3>1, FullTextLaw
  <2>3. Printed(full) = Only(full, T \ {NL})
    <3> HIDE DEF full
    <3> QED
      BY <2>2, PrintedOnly
  <2>4. T \ {NL} = T
    OBVIOUS
  <2>5. Only(full, T) = FlattenSeq(BlocksIn(list))
    BY <1>5, <1>7, FullPrints
  <2>6. FlattenSeq(BlocksIn(list)) = FlattenSeq([i \in DOMAIN lists |-> FlattenSeq(BlocksIn(lists[i]))])
    BY <1>4, FlattenBlocks DEF list
  <2>7. \A i \in 1 .. n : FlattenSeq(BlocksIn(lists[i])) = Solid(pages[i].lines)
    <3>1. \A i \in 1 .. n : lists[i] = PageBlocks(pages[i], i)
      BY <1>2
    <3> QED
      BY <1>3, <3>1
  <2>8. [i \in DOMAIN lists |-> FlattenSeq(BlocksIn(lists[i]))] = [i \in DOMAIN pages |-> Solid(pages[i].lines)]
    <3> HIDE DEF n
    <3> QED
      BY <1>1, <1>4, <2>7
  <2> QED
    BY <2>3, <2>4, <2>5, <2>6, <2>8
<1> QED
  BY <1>7, <1>8, <1>11, <1>12, <1>13 DEF ps

\* A block's lines are in its text.
LEMMA TextRange ==
  ASSUME NEW T, NEW b \in Seq(T)
  PROVE  Range(b) \subseteq Range(Text(b))
<1> SUFFICES ASSUME NEW x \in Range(b) PROVE x \in Range(Text(b))
  OBVIOUS
<1>1. PICK i \in 1 .. Len(b) : x = b[i]
  BY DEF Range
<1>2. b # <<>>
  BY <1>1
<1>3. /\ Text(b) \in Seq(T \cup {NL}) /\ Len(Text(b)) = 2 * Len(b) - 1
      /\ \A j \in 1 .. Len(b) : 2 * j - 1 \in 1 .. 2 * Len(b) - 1 /\ Text(b)[2 * j - 1] = b[j]
  BY <1>2, TextType
<1>4. 2 * i - 1 \in DOMAIN Text(b) /\ Text(b)[2 * i - 1] = b[i]
  BY <1>3
<1> QED
  BY <1>1, <1>4 DEF Range

\* The chunks of a text, whatever the budget, are what their offsets cut out of it.
LEMMA EmittedSlice ==
  ASSUME NEW T, NEW ps \in Seq(Paragraph(T)), Contiguous(ps), NEW target \in Nat, NEW overlap \in Nat,
         NEW k \in DOMAIN ChunkParagraphs(ps, target, overlap)
  PROVE  LET c == Emitted(ChunkParagraphs(ps, target, overlap)[k])
         IN  Slice(FullText(ps), c.start, c.end) = c.text
<1> DEFINE R == Paragraph(T)
           chunks == ChunkParagraphs(ps, target, overlap)
<1>1. \A p \in R : Cost(p) \in Nat
  <2> SUFFICES ASSUME NEW p \in R PROVE Cost(p) \in Nat
    OBVIOUS
  <2>1. p.start \in Int /\ p.end \in Int
    BY DEF Paragraph
  <2> QED
    BY <2>1, CostLaw
<1>2. PICK from, to : Covers(ps, chunks, from, to, target, overlap) /\ EndOf(to) = Len(ps)
  <2> HIDE DEF R
  <2>1. ps \in Seq(R)
    BY DEF R
  <2> QED
    BY <1>1, <2>1, ChunksLaw
<1>3. chunks \in Seq(Seq(R))
  <2> HIDE DEF R
  <2>1. ps \in Seq(R)
    BY DEF R
  <2> QED
    BY <1>1, <2>1, ChunksType
<1>4. k \in 1 .. Len(chunks)
  BY <1>3
<1> DEFINE a == from[k]
           b == to[k]
           g == chunks[k]
<1>5. a \in 1 .. Len(ps) /\ b \in a .. Len(ps) /\ g = SubSeq(ps, a, b)
  <2>1. from \in Seq(Nat) /\ to \in Seq(Nat) /\ Len(from) = Len(chunks) /\ Len(to) = Len(chunks)
        /\ 1 <= from[k] /\ from[k] <= to[k] /\ to[k] <= Len(ps) /\ chunks[k] = SubSeq(ps, from[k], to[k])
    BY <1>2, <1>4 DEF Covers
  <2>2. from[k] \in Nat /\ to[k] \in Nat /\ Len(ps) \in Nat
    BY <1>4, <2>1
  <2> QED
    BY <2>1, <2>2
<1> HIDE DEF chunks, a, b, g, R
<1>6. Head(g) = ps[a] /\ Last(g) = ps[b]
  <2>1. a \in 1 .. Len(ps) + 1 /\ b \in a - 1 .. Len(ps) /\ a \in Nat /\ b \in Nat /\ Len(ps) \in Nat
        /\ b - a + 1 \in 1 .. b - a + 1 /\ 1 \in 1 .. b - a + 1 /\ a + 1 - 1 = a /\ a + (b - a + 1) - 1 = b
    BY <1>5
  <2>2. /\ g \in Seq(R) /\ Len(g) = b - a + 1
        /\ \A i \in 1 .. b - a + 1 : g[i] = ps[a + i - 1]
    <3>1. ps \in Seq(R)
      BY DEF R
    <3> QED
      BY <1>5, <2>1, <3>1, RunLaw
  <2>3. g[1] = ps[a] /\ g[Len(g)] = ps[b]
    BY <2>1, <2>2
  <2>4. Head(g) = g[1]
    <3>1. g # <<>>
      BY <2>1, <2>2
    <3> QED
      BY <2>2, <3>1
  <2> QED
    BY <2>3, <2>4 DEF Last
<1>7. Slice(FullText(ps), ps[a].start, ps[b].end) = FullText(SubSeq(ps, a, b))
  BY <1>5, SliceLaw
<1>8. /\ Emitted(g).text = FullText(g) /\ Emitted(g).start = Head(g).start /\ Emitted(g).end = Last(g).end
  BY DEF Emitted
<1>9. Slice(FullText(ps), Emitted(g).start, Emitted(g).end) = Emitted(g).text
  BY <1>5, <1>6, <1>7, <1>8
<1> QED
  BY <1>9 DEF g, chunks

-----------------------------------------------------------------------------
(* Every document's paragraphs and chunks are what their offsets say.       *)

\* The lines that are checked: a kind and a mark.
PageLines == LineKinds \X Nat

\* No line is the line feed between lines.
LEMMA NewlineIsNoLine == NL \notin PageLines
BY DEF NL, PageLines, LineKinds

\* A member of BoundedSeq is a sequence.
LEMMA BoundedLaw ==
  ASSUME NEW T, NEW n \in Int, NEW s \in BoundedSeq(T, n)
  PROVE  s \in Seq(T)
<1>1. PICK m \in 0 .. n : s \in [1 .. m -> T]
  BY DEF BoundedSeq, SeqOf
<1> QED
  BY <1>1

\* Marking lines leaves a line for each kind.
LEMMA MarkedLines ==
  ASSUME NEW K, NEW kinds \in Seq(K), NEW n \in Nat
  PROVE  /\ Lines(kinds, n) \in Seq(K \X Nat) /\ Len(Lines(kinds, n)) = Len(kinds)
         /\ \A i \in DOMAIN Lines(kinds, n) : Lines(kinds, n)[i] = <<kinds[i], 10 * n + i>>
<1>1. DOMAIN kinds = 1 .. Len(kinds) /\ Len(kinds) \in Nat /\ \A i \in 1 .. Len(kinds) : kinds[i] \in K
  OBVIOUS
<1>2. Lines(kinds, n) = [i \in 1 .. Len(kinds) |-> <<kinds[i], 10 * n + i>>]
  BY <1>1 DEF Lines
<1>3. \A i \in 1 .. Len(kinds) : 10 * n + i \in Nat
  BY <1>1
<1>4. \A i \in 1 .. Len(kinds) : <<kinds[i], 10 * n + i>> \in K \X Nat
  BY <1>1, <1>3
<1> DEFINE s == Lines(kinds, n)
           m == Len(kinds)
           V == K \X Nat
<1>5. s \in [1 .. m -> V] /\ m \in Nat
  BY <1>1, <1>2, <1>4
<1> HIDE DEF s, m, V
<1>6. s \in Seq(V) /\ Len(s) = m
  BY <1>5
<1> QED
  BY <1>2, <1>6 DEF s, m, V

\* Whichever way a page is read it has lines, and a vision page needed it.
LEMMA PageIsRead ==
  ASSUME NEW kinds \in Seq(LineKinds), NEW n \in Nat, NEW vision, NEW tables,
         NEW threshold, NEW gateway
  PROVE  LET page == Page(kinds, n, vision, tables)
         IN  /\ PageText(page, threshold, gateway) \in PageOf(PageLines)
             /\ PageText(page, threshold, gateway).method = "vision" => NeedsVision(page, threshold)
<1> DEFINE page == Page(kinds, n, vision, tables)
           read == PageText(page, threshold, gateway)
<1>1. page.lines \in Seq(PageLines)
  BY MarkedLines DEF Page, PageLines
<1>2. page.transcript \in Seq(PageLines)
  <2> DEFINE two == <<"text", "row">>
  <2>1. two \in Seq(LineKinds)
    BY DEF LineKinds
  <2>2. n + 5 \in Nat
    OBVIOUS
  <2> HIDE DEF two
  <2>3. Lines(two, n + 5) \in Seq(PageLines)
    BY <2>1, <2>2, MarkedLines DEF PageLines
  <2>4. page.transcript = Lines(two, n + 5)
    BY DEF Page, two
  <2> QED
    BY <2>3, <2>4
<1> HIDE DEF page
<1>3. \/ NeedsVision(page, threshold) /\ read = [lines |-> page.transcript, method |-> "vision"]
      \/ read = [lines |-> page.lines, method |-> "text"]
  BY DEF PageText
<1> HIDE DEF read
<1>4. read \in PageOf(PageLines)
  BY <1>1, <1>2, <1>3 DEF PageOf, Methods
<1>5. read.method = "vision" => NeedsVision(page, threshold)
  BY <1>3
<1> QED
  BY <1>4, <1>5 DEF page, read

\* What PagesRoundTrip asks, of any pages and of any budget of the chunks.
LEMMA ParagraphsRoundTrip ==
  ASSUME NEW T, NL \notin T, NEW pages \in Seq(PageOf(T)), NEW target \in Nat, NEW overlap \in Nat
  PROVE  LET paragraphs == SegmentPages(pages)
             full == FullText(paragraphs)
             chunks == [i \in DOMAIN ChunkParagraphs(paragraphs, target, overlap) |->
                          Emitted(ChunkParagraphs(paragraphs, target, overlap)[i])]
         IN  /\ \A p \in Range(paragraphs) \cup Range(chunks) : Slice(full, p.start, p.end) = p.text
             /\ Printed(full) = FlattenSeq([i \in DOMAIN pages |-> Solid(pages[i].lines)])
             /\ \A p \in Range(paragraphs) :
                  (\E line \in Range(Printed(p.text)) : IsRow(line)) =>
                    \A line \in Range(Printed(p.text)) : IsRow(line)
             /\ \A n \in DOMAIN pages : \A i \in 1 .. Len(pages[n].lines) - 1 :
                  IsRow(pages[n].lines[i]) /\ IsRow(pages[n].lines[i + 1]) =>
                    \E p \in Range(paragraphs) :
                      {pages[n].lines[i], pages[n].lines[i + 1]} \subseteq Range(p.text)
             /\ \A p \in Range(paragraphs) :
                  p.page \in DOMAIN pages /\ p.method = pages[p.page].method
<1> DEFINE ps == SegmentPages(pages)
           full == FullText(ps)
           cs == ChunkParagraphs(ps, target, overlap)
           chunks == [i \in DOMAIN cs |-> Emitted(cs[i])]
<1>1. ps \in Seq(Paragraph(T)) /\ Contiguous(ps)
  BY PagesLaw
<1>2. Printed(full) = FlattenSeq([i \in DOMAIN pages |-> Solid(pages[i].lines)])
  BY PagesLaw
<1>3. \A p \in Range(ps) : BlockOfAPage(p, pages)
  BY PagesLaw
<1>4. \A i \in DOMAIN pages : \A b \in Range(Blocks(pages[i].lines)) :
        \E p \in Range(ps) : p.text = Text(b)
  BY PagesLaw
<1> HIDE DEF ps
<1>5. ASSUME NEW n \in DOMAIN pages
      PROVE  /\ pages[n].lines \in Seq(T)
             /\ Blocks(pages[n].lines) \in Seq(Seq(T))
             /\ \A b \in Range(Blocks(pages[n].lines)) : b \in Seq(T) /\ Pure(b)
             /\ \A i \in 1 .. Len(pages[n].lines) - 1 :
                  IsRow(pages[n].lines[i]) /\ IsRow(pages[n].lines[i + 1]) =>
                    Together(Range(Blocks(pages[n].lines)), pages[n].lines[i], pages[n].lines[i + 1])
  <2> DEFINE lines == pages[n].lines
  <2>1. pages[n] \in PageOf(T)
    OBVIOUS
  <2>2. lines \in Seq(T)
    BY <2>1 DEF PageOf
  <2> HIDE DEF lines
  <2>3. /\ Blocks(lines) \in Seq(Seq(T))
        /\ \A b \in Range(Blocks(lines)) : b # <<>> /\ Pure(b)
        /\ \A i \in 1 .. Len(lines) - 1 : IsRow(lines[i]) /\ IsRow(lines[i + 1]) =>
             Together(Range(Blocks(lines)), lines[i], lines[i + 1])
    BY <2>2, BlocksLaw
  <2>4. \A b \in Range(Blocks(lines)) : b \in Seq(T)
    <3> DEFINE V == Seq(T)
               bs == Blocks(lines)
    <3>1. bs \in Seq(V)
      BY <2>3
    <3> HIDE DEF V, bs
    <3>2. \A b \in Range(bs) : b \in V
      BY <3>1 DEF Range
    <3> QED
      BY <3>2 DEF V, bs
  <2> QED
    BY <2>2, <2>3, <2>4 DEF lines
<1>6. ASSUME NEW p \in Range(ps) PROVE Slice(full, p.start, p.end) = p.text
  <2>1. PICK a \in 1 .. Len(ps) : p = ps[a]
    BY <1>1 DEF Range
  <2>2. a \in a .. Len(ps)
    BY <2>1
  <2>3. Slice(full, ps[a].start, ps[a].end) = FullText(SubSeq(ps, a, a))
    BY <1>1, <2>2, SliceLaw
  <2>4. FullText(SubSeq(ps, a, a)) = ps[a].text
    BY <1>1, OneParagraph
  <2> QED
    BY <2>1, <2>3, <2>4
<1>7. ASSUME NEW c \in Range(chunks) PROVE Slice(full, c.start, c.end) = c.text
  <2>1. PICK k \in DOMAIN cs : c = Emitted(cs[k])
    BY DEF Range
  <2>2. Slice(full, Emitted(cs[k]).start, Emitted(cs[k]).end) = Emitted(cs[k]).text
    BY <1>1, EmittedSlice
  <2> HIDE DEF cs
  <2> QED
    BY <2>1, <2>2
<1>8. ASSUME NEW p \in Range(ps), \E line \in Range(Printed(p.text)) : IsRow(line)
      PROVE  \A line \in Range(Printed(p.text)) : IsRow(line)
  <2>1. PICK i \in DOMAIN pages : \E b \in Range(Blocks(pages[i].lines)) : p.text = Text(b)
    BY <1>3 DEF BlockOfAPage
  <2>2. PICK b \in Range(Blocks(pages[i].lines)) : p.text = Text(b)
    BY <2>1
  <2>3. b \in Seq(T) /\ Pure(b)
    BY <1>5
  <2>4. Printed(Text(b)) = b
    BY <2>3, TextPrints
  <2>5. Printed(p.text) = b
    BY <2>2, <2>4
  <2> QED
    BY <1>8, <2>3, <2>5 DEF Pure
<1>9. ASSUME NEW n \in DOMAIN pages, NEW i \in 1 .. Len(pages[n].lines) - 1,
             IsRow(pages[n].lines[i]), IsRow(pages[n].lines[i + 1])
      PROVE  \E p \in Range(ps) : {pages[n].lines[i], pages[n].lines[i + 1]} \subseteq Range(p.text)
  <2> DEFINE x == pages[n].lines[i]
             y == pages[n].lines[i + 1]
  <2>1. Together(Range(Blocks(pages[n].lines)), x, y)
    BY <1>5, <1>9
  <2> HIDE DEF x, y
  <2>2. PICK b \in Range(Blocks(pages[n].lines)) : x \in Range(b) /\ y \in Range(b)
    BY <2>1 DEF Together
  <2>3. Range(b) \subseteq Range(Text(b))
    <3>1. b \in Seq(T)
      BY <1>5
    <3> QED
      BY <3>1, TextRange
  <2>4. PICK p \in Range(ps) : p.text = Text(b)
    BY <1>4
  <2>5. {x, y} \subseteq Range(p.text)
    BY <2>2, <2>3, <2>4
  <2> QED
    BY <2>5 DEF x, y
<1>10. ASSUME NEW p \in Range(ps)
       PROVE  p.page \in DOMAIN pages /\ p.method = pages[p.page].method
  BY <1>3 DEF BlockOfAPage
<1> HIDE DEF chunks, full
<1>11. \A p \in Range(ps) \cup Range(chunks) : Slice(full, p.start, p.end) = p.text
  BY <1>6, <1>7
<1> QED
  BY <1>2, <1>8, <1>9, <1>10, <1>11 DEF ps, chunks, full

\* Whatever pages are read, by text layer or by vision: paragraphs and chunks are what
\* their offsets cut out of the full text, no line is lost and tables stay whole
\* (build_pages, segment_pages, chunk_paragraphs).
THEOREM PagesAlwaysRoundTrip == Spec => []PagesRoundTrip
<1>1. Init => PagesRoundTrip
  <2> SUFFICES ASSUME Init, input.task = "pages" PROVE PagesRoundTrip
    BY DEF PagesRoundTrip
  <2> DEFINE pages == BuildPages(input.pages, Threshold, input.gateway)
             T == PageLines
  <2>1. input \in PageInputs
    BY TaskLaw
  <2>2. PICK g \in BOOLEAN, v \in {"error", "text"}, t \in {0, 1},
             first \in BoundedSeq(LineKinds, MaxLines), second \in BoundedSeq(LineKinds, MaxLines - 1) :
               input = [task |-> "pages", gateway |-> g,
                        pages |-> <<Page(first, 1, v, 0), Page(second, 2, "error", t)>>]
    BY <2>1 DEF PageInputs
  <2>3. MaxLines \in Int /\ MaxLines - 1 \in Int
    BY AlgorithmsAssumption DEF AlgorithmsAssumption
  <2>4. first \in Seq(LineKinds) /\ second \in Seq(LineKinds)
    BY <2>3, BoundedLaw
  <2> DEFINE one == Page(first, 1, v, 0)
             two == Page(second, 2, "error", t)
  <2>5. /\ PageText(one, Threshold, g) \in PageOf(T)
        /\ PageText(one, Threshold, g).method = "vision" => NeedsVision(one, Threshold)
        /\ PageText(two, Threshold, g) \in PageOf(T)
        /\ PageText(two, Threshold, g).method = "vision" => NeedsVision(two, Threshold)
    BY <2>4, PageIsRead
  <2> HIDE DEF one, two, T
  <2>6. input.pages = <<one, two>> /\ input.gateway = g
    BY <2>2 DEF one, two
  <2>7. /\ DOMAIN pages = 1 .. 2 /\ pages[1] = PageText(one, Threshold, g)
        /\ pages[2] = PageText(two, Threshold, g)
    <3>1. DOMAIN <<one, two>> = 1 .. 2 /\ <<one, two>>[1] = one /\ <<one, two>>[2] = two
      OBVIOUS
    <3>2. pages = [i \in 1 .. 2 |-> PageText(<<one, two>>[i], Threshold, g)]
      BY <2>6, <3>1 DEF BuildPages
    <3> QED
      BY <3>1, <3>2
  <2>8. pages \in Seq(PageOf(T))
    <3>1. pages = [i \in DOMAIN pages |-> pages[i]]
      BY DEF BuildPages
    <3> DEFINE P == PageOf(T)
    <3>2. \A i \in 1 .. 2 : i = 1 \/ i = 2
      OBVIOUS
    <3> HIDE DEF pages, P
    <3> DEFINE m == 2
    <3>3. pages \in [1 .. m -> P] /\ m \in Nat
      BY <2>5, <2>7, <3>1, <3>2 DEF P
    <3> HIDE DEF m
    <3>4. pages \in Seq(P)
      BY <3>3
    <3> QED
      BY <3>4 DEF P
  <2>9. \A n \in DOMAIN pages : pages[n].method = "vision" => NeedsVision(input.pages[n], Threshold)
    <3>1. input.pages[1] = one /\ input.pages[2] = two
      BY <2>6
    <3>2. \A i \in 1 .. 2 : i = 1 \/ i = 2
      OBVIOUS
    <3> HIDE DEF pages
    <3> QED
      BY <2>5, <2>7, <3>1, <3>2
  <2>10. NL \notin T /\ 2 \in Nat /\ 1 \in Nat
    BY NewlineIsNoLine DEF T
  <2> DEFINE paragraphs == SegmentPages(pages)
             full == FullText(paragraphs)
             chunks == [i \in DOMAIN ChunkParagraphs(paragraphs, 2, 1) |->
                          Emitted(ChunkParagraphs(paragraphs, 2, 1)[i])]
  <2>11. /\ \A p \in Range(paragraphs) \cup Range(chunks) : Slice(full, p.start, p.end) = p.text
         /\ Printed(full) = FlattenSeq([i \in DOMAIN pages |-> Solid(pages[i].lines)])
         /\ \A p \in Range(paragraphs) :
              (\E line \in Range(Printed(p.text)) : IsRow(line)) =>
                \A line \in Range(Printed(p.text)) : IsRow(line)
         /\ \A n \in DOMAIN pages : \A i \in 1 .. Len(pages[n].lines) - 1 :
              IsRow(pages[n].lines[i]) /\ IsRow(pages[n].lines[i + 1]) =>
                \E p \in Range(paragraphs) :
                  {pages[n].lines[i], pages[n].lines[i + 1]} \subseteq Range(p.text)
         /\ \A p \in Range(paragraphs) : p.page \in DOMAIN pages /\ p.method = pages[p.page].method
    <3> HIDE DEF pages
    <3> QED
      BY <2>8, <2>10, ParagraphsRoundTrip
  <2>12. \A p \in Range(paragraphs) : p.method = "vision" => NeedsVision(input.pages[p.page], Threshold)
    <3> HIDE DEF pages, paragraphs
    <3> QED
      BY <2>9, <2>11
  <2> QED
    <3> HIDE DEF pages
    <3> QED
      BY <2>11, <2>12 DEF PagesRoundTrip, pages
<1>2. PagesRoundTrip /\ [Next]_input => PagesRoundTrip'
  BY DEF Next, PagesRoundTrip
<1> QED
  BY <1>1, <1>2, PTL DEF Spec

-----------------------------------------------------------------------------
(* Clauses of a manual.                                                     *)

\* The indices of a sequence, in order.
Indices(n) == [i \in 1 .. n |-> i]

\* Each number is greater than those before it.
Increasing(s) == \A i, j \in 1 .. Len(s) : i < j => s[i] < s[j]

\* A greater number at the end.
LEMMA IncreasingAppend ==
  ASSUME NEW s \in Seq(Nat), NEW x \in Nat, Increasing(s), \A y \in Range(s) : y < x
  PROVE  Append(s, x) \in Seq(Nat) /\ Increasing(Append(s, x)) /\ Range(Append(s, x)) = Range(s) \cup {x}
<1> DEFINE t == Append(s, x)
           n == Len(s)
<1>1. t \in Seq(Nat) /\ Len(t) = n + 1 /\ t[n + 1] = x /\ n \in Nat /\ \A i \in 1 .. n : t[i] = s[i]
  BY AppendProperties
<1>2. Range(t) = Range(s) \cup {x}
  BY RangeLaw
<1>3. \A i \in 1 .. n : s[i] \in Range(s)
  BY DEF Range
<1> HIDE DEF t
<1>4. ASSUME NEW i \in 1 .. Len(t), NEW j \in 1 .. Len(t), i < j PROVE t[i] < t[j]
  <2>1. i \in 1 .. n /\ t[i] = s[i] /\ s[i] < x
    BY <1>1, <1>3, <1>4
  <2>2. CASE j = n + 1
    BY <1>1, <2>1, <2>2
  <2>3. CASE j # n + 1
    <3>1. j \in 1 .. n
      BY <1>1, <2>3
    <3> QED
      BY <1>1, <1>4, <2>1, <3>1 DEF Increasing
  <2> QED
    BY <2>2, <2>3
<1> QED
  BY <1>1, <1>2, <1>4 DEF Increasing, t

\* The indices that are in a set come out in order, each of them.
LEMMA OnlyIndices ==
  ASSUME NEW n \in Nat, NEW S
  PROVE  /\ Only(Indices(n), S) \in Seq(Nat) /\ Increasing(Only(Indices(n), S))
         /\ Range(Only(Indices(n), S)) = S \cap (1 .. n)
<1> DEFINE Good(k) == /\ Only(Indices(k), S) \in Seq(Nat) /\ Increasing(Only(Indices(k), S))
                      /\ Range(Only(Indices(k), S)) = S \cap (1 .. k)
           A == {k \in 0 .. n : Good(k)}
<1>0. \A k \in Nat : Indices(k) \in Seq(Nat) /\ Len(Indices(k)) = k /\ \A i \in 1 .. k : Indices(k)[i] = i
  BY DEF Indices
<1>1. 0 \in A
  <2>1. Indices(0) = <<>>
    <3>1. Indices(0) \in Seq(Nat) /\ Len(Indices(0)) = 0
      BY <1>0
    <3> QED
      BY <3>1
  <2>2. <<>> \in Seq(Nat)
    OBVIOUS
  <2>3. Only(<<>>, S) = <<>>
    BY <2>2, OnlyLaw
  <2>4. Only(Indices(0), S) = <<>>
    BY <2>1, <2>3
  <2>5. Range(<<>>) = {} /\ S \cap (1 .. 0) = {}
    <3>1. DOMAIN <<>> = {}
      OBVIOUS
    <3> QED
      BY <3>1 DEF Range
  <2>6. Increasing(<<>>)
    BY DEF Increasing
  <2>7. Good(0)
    BY <2>2, <2>4, <2>5, <2>6
  <2> HIDE DEF Good
  <2> QED
    BY <2>7
<1>2. ASSUME NEW k \in 0 .. n - 1, k \in A PROVE k + 1 \in A
  <2> DEFINE s == Indices(k)
             o == Only(s, S)
             x == k + 1
  <2>1. k \in Nat /\ x \in Nat /\ x \in 0 .. n /\ 1 .. x = (1 .. k) \cup {x} /\ \A y \in 1 .. k : y < x
    OBVIOUS
  <2>2. s \in Seq(Nat) /\ Len(s) = k /\ Indices(x) \in Seq(Nat) /\ Len(Indices(x)) = x
        /\ (\A i \in 1 .. k : s[i] = i) /\ \A i \in 1 .. x : Indices(x)[i] = i
    BY <1>0, <2>1
  <2>3. o \in Seq(Nat) /\ Increasing(o) /\ Range(o) = S \cap (1 .. k)
    BY <1>2
  <2> HIDE DEF s, o
  <2>4. Append(s, x) = Indices(x)
    <3> DEFINE t == Append(s, x)
               u == Indices(x)
    <3>1. t \in Seq(Nat) /\ Len(t) = k + 1 /\ t[k + 1] = x /\ \A i \in 1 .. k : t[i] = s[i]
      BY <2>1, <2>2, AppendProperties
    <3>2. \A i \in 1 .. k + 1 : i = k + 1 \/ i \in 1 .. k
      BY <2>1
    <3> HIDE DEF t, u
    <3>3. \A i \in 1 .. Len(t) : t[i] = u[i]
      BY <2>2, <3>1, <3>2 DEF u
    <3>4. t = u
      BY <2>2, <3>1, <3>3, SameSequence DEF u
    <3> QED
      BY <3>4 DEF t, u
  <2>5. Only(Append(s, x), S) = IF x \in S THEN Append(o, x) ELSE o
    <3> HIDE DEF x
    <3>1. \A y \in Nat : Only(Append(s, y), S) = IF y \in S THEN Append(Only(s, S), y) ELSE Only(s, S)
      BY <2>2, OnlyLaw
    <3> QED
      BY <2>1, <3>1 DEF o
  <2> HIDE DEF x
  <2>6. CASE x \in S
    <3>1. \A y \in Range(o) : y < x
      BY <2>1, <2>3
    <3>2. Append(o, x) \in Seq(Nat) /\ Increasing(Append(o, x)) /\ Range(Append(o, x)) = Range(o) \cup {x}
      BY <2>1, <2>3, <3>1, IncreasingAppend
    <3>3. Only(Indices(x), S) = Append(o, x)
      BY <2>4, <2>5, <2>6
    <3>4. Range(o) \cup {x} = S \cap (1 .. x)
      BY <2>1, <2>3, <2>6
    <3>5. Good(x)
      BY <3>2, <3>3, <3>4
    <3> HIDE DEF Good
    <3> QED
      BY <2>1, <3>5 DEF x
  <2>7. CASE x \notin S
    <3>1. Only(Indices(x), S) = o
      BY <2>4, <2>5, <2>7
    <3>2. S \cap (1 .. k) = S \cap (1 .. x)
      BY <2>1, <2>7
    <3>3. Good(x)
      BY <2>3, <3>1, <3>2
    <3> HIDE DEF Good
    <3> QED
      BY <2>1, <3>3 DEF x
  <2> QED
    BY <2>6, <2>7
<1>3. \A k \in 0 .. n : k \in A
  <2> HIDE DEF A
  <2> QED
    BY <1>1, <1>2, UpTo
<1>4. n \in 0 .. n
  OBVIOUS
<1> QED
  BY <1>3, <1>4

\* A solid line at the start of an interval makes the last solid one exist.
LEMMA LastSolidLaw ==
  ASSUME NEW lines, NEW from \in Nat, NEW to \in Nat, from <= to, Kind(lines[from]) # "blank"
  PROVE  LastSolid(lines, from, to) \in from .. to
<1> DEFINE S == {i \in from .. to : Kind(lines[i]) # "blank"}
<1>1. S \in SUBSET (0 .. to) /\ S # {}
  <2>1. from \in S
    OBVIOUS
  <2> QED
    BY <2>1
<1>2. LastSolid(lines, from, to) = Max(S)
  BY DEF LastSolid
<1>3. Max(S) \in S
  <2> HIDE DEF S
  <2> QED
    BY <1>1, GreatestExists
<1> QED
  BY <1>2, <1>3

\* A clause ends before the next heading.
LEMMA ClauseEndLaw ==
  ASSUME NEW T, NEW lines \in Seq(T), NEW i \in 1 .. Len(lines), Kind(lines[i]) = "clause"
  PROVE  /\ ClauseEnd(lines, i) \in i .. Len(lines)
         /\ \A j \in i + 1 .. Len(lines) : IsHeading(lines[j]) => ClauseEnd(lines, i) < j
<1> DEFINE n == Len(lines)
           next == {j \in i + 1 .. n : IsHeading(lines[j])}
           to == IF next = {} THEN n ELSE Min(next) - 1
           end == LastSolid(lines, i, to)
<1>1. n \in Nat /\ i \in Nat /\ i >= 1
  OBVIOUS
<1>2. to \in i .. n /\ \A j \in next : to < j
  <2>1. CASE next = {}
    BY <1>1, <2>1
  <2>2. CASE next # {}
    <3>1. next \in SUBSET Nat
      BY <1>1
    <3>2. Min(next) \in next /\ \A j \in next : Min(next) <= j
      <4> HIDE DEF next
      <4>1. \E x \in next : \A y \in next : x <= y
        BY <2>2, <3>1, LeastExists
      <4> QED
        BY <4>1 DEF Min
    <3> DEFINE m == Min(next)
    <3>3. m \in i + 1 .. n /\ \A j \in next : m <= j
      BY <3>2
    <3>4. to = m - 1
      BY <2>2
    <3>5. \A j \in next : j \in Nat
      BY <3>1
    <3> HIDE DEF m, next, to
    <3> QED
      BY <1>1, <3>3, <3>4, <3>5
  <2> QED
    BY <2>1, <2>2
<1>3. Kind(lines[i]) # "blank" /\ Kind(lines[i]) # "ruler"
  OBVIOUS
<1>4. ClauseEnd(lines, i) = IF Kind(lines[end]) = "ruler" THEN LastSolid(lines, i, end - 1) ELSE end
  BY DEF ClauseEnd
<1> HIDE DEF to, next
<1>5. end \in i .. to
  <2>1. to \in Nat /\ i <= to
    BY <1>1, <1>2
  <2> QED
    BY <1>1, <1>3, <2>1, LastSolidLaw
<1> HIDE DEF end
<1>6. ClauseEnd(lines, i) \in i .. to
  <2>1. CASE Kind(lines[end]) = "ruler"
    <3>1. end # i
      BY <1>3, <2>1
    <3>2. end - 1 \in Nat /\ i <= end - 1 /\ end - 1 <= to
      BY <1>1, <1>2, <1>5, <3>1
    <3>3. LastSolid(lines, i, end - 1) \in i .. end - 1
      BY <1>1, <1>3, <3>2, LastSolidLaw
    <3> QED
      BY <1>1, <1>2, <1>4, <2>1, <3>2, <3>3
  <2>2. CASE Kind(lines[end]) # "ruler"
    BY <1>4, <1>5, <2>2
  <2> QED
    BY <2>1, <2>2
<1>7. ASSUME NEW j \in i + 1 .. n, IsHeading(lines[j]) PROVE ClauseEnd(lines, i) < j
  <2>1. j \in next
    BY <1>7 DEF next
  <2> QED
    BY <1>1, <1>2, <1>6, <2>1
<1>8. ClauseEnd(lines, i) \in i .. n
  BY <1>1, <1>2, <1>6
<1> QED
  BY <1>7, <1>8

\* The characters from the heading's first to the last line's last are the clause's.
LEMMA ClauseSlice ==
  ASSUME NEW T, NEW lines \in Seq(T), NEW i \in 1 .. Len(lines), NEW end \in i .. Len(lines)
  PROVE  /\ Slice(Text(lines), 2 * (i - 1), 2 * end - 1) = Text(SubSeq(lines, i, end))
         /\ Head(Text(SubSeq(lines, i, end))) = lines[i]
<1> DEFINE n == Len(lines)
           U == T \cup {NL}
           run == SubSeq(lines, i, end)
           a == 2 * (i - 1) + 1
           b == 2 * end - 1
           m == end - i + 1
           cut == SubSeq(Text(lines), a, b)
<1>1. n \in Nat /\ i \in Nat /\ end \in Nat /\ i >= 1 /\ end >= i /\ n >= end /\ m \in Nat /\ m >= 1
      /\ lines # <<>>
  OBVIOUS
<1>2. run \in Seq(T) /\ Len(run) = m /\ \A k \in 1 .. m : run[k] = lines[i + k - 1]
  <2>1. i \in 1 .. Len(lines) + 1 /\ end \in i - 1 .. Len(lines)
    BY <1>1
  <2> QED
    BY <2>1, RunLaw
<1>3. /\ Text(lines) \in Seq(U) /\ Len(Text(lines)) = 2 * n - 1
      /\ \A k \in 1 .. n : Text(lines)[2 * k - 1] = lines[k]
      /\ \A k \in 1 .. n - 1 : Text(lines)[2 * k] = NL
  BY <1>1, TextType
<1> HIDE DEF run
<1>4. run # <<>>
  BY <1>1, <1>2
<1>5. /\ Text(run) \in Seq(U) /\ Len(Text(run)) = 2 * m - 1
      /\ \A k \in 1 .. m : Text(run)[2 * k - 1] = run[k]
      /\ \A k \in 1 .. m - 1 : Text(run)[2 * k] = NL
  <2>1. /\ Text(run) \in Seq(U) /\ Len(Text(run)) = 2 * Len(run) - 1
        /\ \A k \in 1 .. Len(run) : Text(run)[2 * k - 1] = run[k]
        /\ \A k \in 1 .. Len(run) - 1 : Text(run)[2 * k] = NL
    BY <1>2, <1>4, TextType
  <2> QED
    BY <1>2, <2>1
<1> DEFINE text == Text(lines)
           mine == Text(run)
<1>6. cut \in Seq(U) /\ Len(cut) = b - a + 1 /\ \A q \in 1 .. b - a + 1 : cut[q] = text[a + q - 1]
  <2>1. a \in 1 .. Len(text) + 1 /\ b \in a - 1 .. Len(text) /\ text \in Seq(U)
    BY <1>1, <1>3
  <2> HIDE DEF a, b, text, U
  <2> QED
    BY <2>1, RunLaw DEF text
<1>7. b - a + 1 = 2 * m - 1
  BY <1>1
<1> HIDE DEF cut
<1>8. ASSUME NEW q \in 1 .. 2 * m - 1 PROVE cut[q] = mine[q]
  <2>1. cut[q] = text[a + q - 1]
    <3> HIDE DEF a, b, text
    <3> QED
      BY <1>6, <1>7
  <2>2. CASE q % 2 = 1
    <3> DEFINE k == (q + 1) \div 2
    <3>1. k \in 1 .. m /\ q = 2 * k - 1
      BY <1>1, <2>2
    <3> HIDE DEF k
    <3>2. i + k - 1 \in 1 .. n /\ a + q - 1 = 2 * (i + k - 1) - 1
      BY <1>1, <3>1
    <3>3. text[2 * (i + k - 1) - 1] = lines[i + k - 1]
      BY <1>3, <3>2
    <3>4. text[a + q - 1] = lines[i + k - 1]
      <4> HIDE DEF a, text, n, m
      <4> QED
        BY <3>2, <3>3
    <3>5. mine[q] = run[k]
      BY <1>5, <3>1
    <3>6. run[k] = lines[i + k - 1]
      BY <1>2, <3>1
    <3> QED
      BY <2>1, <3>4, <3>5, <3>6
  <2>3. CASE q % 2 # 1
    <3> DEFINE k == q \div 2
    <3>1. k \in 1 .. m - 1 /\ q = 2 * k
      BY <1>1, <2>3
    <3> HIDE DEF k
    <3>2. i + k - 1 \in 1 .. n - 1 /\ a + q - 1 = 2 * (i + k - 1)
      BY <1>1, <3>1
    <3>3. text[2 * (i + k - 1)] = NL
      BY <1>3, <3>2
    <3>4. text[a + q - 1] = NL
      <4> HIDE DEF a, text, n, m
      <4> QED
        BY <3>2, <3>3
    <3>5. mine[q] = NL
      BY <1>5, <3>1
    <3> QED
      BY <2>1, <3>4, <3>5
  <2> QED
    BY <2>2, <2>3
<1>9. cut = mine
  <2> DEFINE l == 2 * m - 1
  <2>1. mine \in Seq(U) /\ cut \in Seq(U) /\ Len(cut) = l /\ Len(mine) = l /\ \A q \in 1 .. l : cut[q] = mine[q]
    BY <1>5, <1>6, <1>7, <1>8
  <2> HIDE DEF l, mine, U
  <2> QED
    BY <2>1, SameSequence
<1>10. Slice(text, 2 * (i - 1), 2 * end - 1) = cut
  BY DEF Slice, cut
<1>11. Head(mine) = lines[i]
  <2>1. 1 \in 1 .. m /\ 2 * 1 - 1 = 1 /\ i + 1 - 1 = i
    BY <1>1
  <2>2. mine[2 * 1 - 1] = run[1] /\ run[1] = lines[i + 1 - 1]
    BY <1>2, <1>5, <2>1
  <2>3. mine[1] = lines[i]
    BY <2>1, <2>2
  <2>4. mine \in Seq(U) /\ Len(mine) >= 1
    BY <1>1, <1>5
  <2> HIDE DEF mine
  <2>5. Head(mine) = mine[1]
    BY <2>4
  <2> QED
    BY <2>3, <2>5
<1> QED
  BY <1>9, <1>10, <1>11 DEF run

\* The lines that begin a clause, as a set and in order.
ClauseLines(lines) == {i \in DOMAIN lines : Kind(lines[i]) = "clause"}
\* Their indices, in order.
Headings(lines) == Only(Indices(Len(lines)), ClauseLines(lines))

\* The clauses of a manual are those its headings begin.
LEMMA ParsePackLaw ==
  ASSUME NEW T, NEW lines \in Seq(T)
  PROVE  /\ DOMAIN ParsePack(lines) = DOMAIN Headings(lines)
         /\ \A k \in DOMAIN Headings(lines) :
              LET i == Headings(lines)[k]
                  end == ClauseEnd(lines, i)
              IN  /\ ParsePack(lines)[k].text = Text(SubSeq(lines, i, end))
                  /\ ParsePack(lines)[k].start = 2 * (i - 1) /\ ParsePack(lines)[k].end = 2 * end - 1
<1> DEFINE ids == [i \in DOMAIN lines |-> i]
           cl == Kept(ids, LAMBDA i : Kind(lines[i]) = "clause")
           parts(i) == {j \in 1 .. i - 1 : Kind(lines[j]) = "part"}
           clause(i) == LET end == ClauseEnd(lines, i)
                        IN  [text |-> Text(SubSeq(lines, i, end)), start |-> 2 * (i - 1), end |-> 2 * end - 1,
                             part |-> IF parts(i) = {} THEN NL ELSE lines[Max(parts(i))]]
<1>1. cl = Headings(lines)
  <2>1. DOMAIN lines = 1 .. Len(lines)
    OBVIOUS
  <2>2. ids = Indices(Len(lines)) /\ DOMAIN ids = DOMAIN lines /\ \A i \in DOMAIN ids : ids[i] = i
    BY <2>1 DEF Indices
  <2>3. \A i \in DOMAIN ids : (Kind(lines[i]) = "clause") = (ids[i] \in ClauseLines(lines))
    BY <2>2 DEF ClauseLines
  <2>4. [i \in DOMAIN ids |-> IF Kind(lines[i]) = "clause" THEN <<ids[i]>> ELSE <<>>]
          = [i \in DOMAIN ids |-> IF ids[i] \in ClauseLines(lines) THEN <<ids[i]>> ELSE <<>>]
    <3> HIDE DEF ids
    <3> QED
      BY <2>3
  <2>5. cl = FlattenSeq([i \in DOMAIN ids |-> IF Kind(lines[i]) = "clause" THEN <<ids[i]>> ELSE <<>>])
    BY DEF Kept
  <2>6. Only(ids, ClauseLines(lines))
          = FlattenSeq([i \in DOMAIN ids |-> IF ids[i] \in ClauseLines(lines) THEN <<ids[i]>> ELSE <<>>])
    BY DEF Only
  <2>7. cl = Only(ids, ClauseLines(lines))
    <3> HIDE DEF ids, cl
    <3> QED
      BY <2>4, <2>5, <2>6
  <2> QED
    BY <2>2, <2>7 DEF Headings
<1>2. ParsePack(lines) = [k \in DOMAIN cl |-> clause(cl[k])]
  BY DEF ParsePack
<1> HIDE DEF cl, clause
<1>3. ParsePack(lines) = [k \in DOMAIN Headings(lines) |-> clause(Headings(lines)[k])]
  BY <1>1, <1>2
<1>4. \A i : /\ clause(i).text = Text(SubSeq(lines, i, ClauseEnd(lines, i)))
             /\ clause(i).start = 2 * (i - 1) /\ clause(i).end = 2 * ClauseEnd(lines, i) - 1
  BY DEF clause
<1> DEFINE h == Headings(lines)
           pack == ParsePack(lines)
<1> HIDE DEF h, pack
<1>5. DOMAIN pack = DOMAIN h /\ \A k \in DOMAIN h : pack[k] = clause(h[k])
  BY <1>3 DEF h, pack
<1>6. \A k \in DOMAIN h : /\ pack[k].text = Text(SubSeq(lines, h[k], ClauseEnd(lines, h[k])))
                          /\ pack[k].start = 2 * (h[k] - 1) /\ pack[k].end = 2 * ClauseEnd(lines, h[k]) - 1
  BY <1>4, <1>5
<1> QED
  BY <1>5, <1>6 DEF h, pack

\* What PackRoundTrip asks, of any policy manual.
LEMMA ClausesRoundTrip ==
  ASSUME NEW T, NEW lines \in Seq(T)
  PROVE  LET clauses == ParsePack(lines)
         IN  /\ \A i \in DOMAIN clauses :
                  /\ Slice(Text(lines), clauses[i].start, clauses[i].end) = clauses[i].text
                  /\ i > 1 => clauses[i - 1].end < clauses[i].start
             /\ \A line \in Range(lines) : Kind(line) = "clause" =>
                  \E c \in Range(clauses) : Head(c.text) = line
<1> DEFINE n == Len(lines)
           h == Headings(lines)
           pack == ParsePack(lines)
           end(i) == ClauseEnd(lines, i)
<1>1. n \in Nat /\ DOMAIN lines = 1 .. n
  OBVIOUS
<1>2. h \in Seq(Nat) /\ Increasing(h) /\ Range(h) = ClauseLines(lines)
  <2>1. /\ h \in Seq(Nat) /\ Increasing(h) /\ Range(h) = ClauseLines(lines) \cap (1 .. n)
    BY <1>1, OnlyIndices DEF Headings
  <2>2. ClauseLines(lines) \subseteq 1 .. n
    BY <1>1 DEF ClauseLines
  <2> QED
    BY <2>1, <2>2
<1>3. /\ DOMAIN pack = DOMAIN h
      /\ \A k \in DOMAIN h : /\ pack[k].text = Text(SubSeq(lines, h[k], end(h[k])))
                             /\ pack[k].start = 2 * (h[k] - 1) /\ pack[k].end = 2 * end(h[k]) - 1
  BY ParsePackLaw
<1> HIDE DEF h, pack
<1>4. \A k \in DOMAIN h : h[k] \in 1 .. n /\ Kind(lines[h[k]]) = "clause"
  <2>1. \A k \in DOMAIN h : h[k] \in ClauseLines(lines)
    BY <1>2 DEF Range
  <2> QED
    BY <1>1, <2>1 DEF ClauseLines
<1>5. ASSUME NEW i \in 1 .. n, Kind(lines[i]) = "clause"
      PROVE  /\ end(i) \in i .. n /\ \A j \in i + 1 .. n : IsHeading(lines[j]) => end(i) < j
             /\ Slice(Text(lines), 2 * (i - 1), 2 * end(i) - 1) = Text(SubSeq(lines, i, end(i)))
             /\ Head(Text(SubSeq(lines, i, end(i)))) = lines[i]
  <2>1. end(i) \in i .. n /\ \A j \in i + 1 .. n : IsHeading(lines[j]) => end(i) < j
    BY <1>5, ClauseEndLaw
  <2> HIDE DEF end
  <2>2. /\ Slice(Text(lines), 2 * (i - 1), 2 * end(i) - 1) = Text(SubSeq(lines, i, end(i)))
        /\ Head(Text(SubSeq(lines, i, end(i)))) = lines[i]
    BY <2>1, ClauseSlice
  <2> QED
    BY <2>1, <2>2
<1> HIDE DEF end
<1>6. ASSUME NEW k \in DOMAIN pack PROVE Slice(Text(lines), pack[k].start, pack[k].end) = pack[k].text
  <2>1. h[k] \in 1 .. n /\ Kind(lines[h[k]]) = "clause"
    BY <1>3, <1>4
  <2>2. Slice(Text(lines), 2 * (h[k] - 1), 2 * end(h[k]) - 1) = Text(SubSeq(lines, h[k], end(h[k])))
    BY <1>5, <2>1
  <2> QED
    BY <1>3, <2>2
<1>7. ASSUME NEW k \in DOMAIN pack, k > 1 PROVE pack[k - 1].end < pack[k].start
  <2>1. k \in 1 .. Len(h) /\ k - 1 \in 1 .. Len(h) /\ k - 1 < k /\ Len(h) \in Nat /\ DOMAIN h = 1 .. Len(h)
    <3>1. DOMAIN h = 1 .. Len(h) /\ Len(h) \in Nat
      BY <1>2
    <3> QED
      BY <1>3, <1>7, <3>1
  <2>2. h[k - 1] < h[k]
    BY <1>2, <2>1 DEF Increasing
  <2>3. /\ h[k - 1] \in 1 .. n /\ Kind(lines[h[k - 1]]) = "clause"
        /\ h[k] \in 1 .. n /\ Kind(lines[h[k]]) = "clause"
    BY <1>4, <2>1
  <2>4. IsHeading(lines[h[k]]) /\ h[k] \in h[k - 1] + 1 .. n
    BY <2>2, <2>3 DEF IsHeading
  <2>5. end(h[k - 1]) < h[k] /\ end(h[k - 1]) \in h[k - 1] .. n
    BY <1>5, <2>3, <2>4
  <2>6. pack[k - 1].end = 2 * end(h[k - 1]) - 1 /\ pack[k].start = 2 * (h[k] - 1)
    BY <1>3, <2>1
  <2> QED
    BY <2>3, <2>5, <2>6
<1>8. ASSUME NEW line \in Range(lines), Kind(line) = "clause"
      PROVE  \E c \in Range(pack) : Head(c.text) = line
  <2>1. PICK i \in 1 .. n : line = lines[i]
    BY <1>1 DEF Range
  <2>2. i \in Range(h)
    BY <1>1, <1>2, <1>8, <2>1 DEF ClauseLines
  <2>3. PICK k \in DOMAIN h : h[k] = i
    BY <2>2 DEF Range
  <2>4. pack[k].text = Text(SubSeq(lines, i, end(i))) /\ pack[k] \in Range(pack)
    BY <1>3, <2>3 DEF Range
  <2>5. Head(Text(SubSeq(lines, i, end(i)))) = lines[i]
    BY <1>5, <1>8, <2>1
  <2> QED
    BY <2>1, <2>4, <2>5
<1> QED
  BY <1>6, <1>7, <1>8 DEF pack

\* The kinds of lines that are checked.
PackKinds == {"clause", "part", "title", "text", "ruler", "blank"}

\* Whatever lines a manual has: every clause is what its offsets cut out of it, clauses do
\* not overlap and no clause heading is lost (parse_pack).
THEOREM PackAlwaysRoundTrips == Spec => []PackRoundTrip
<1>1. Init => PackRoundTrip
  <2> SUFFICES ASSUME Init, input.task = "pack" PROVE PackRoundTrip
    BY DEF PackRoundTrip
  <2>1. input \in PackInputs
    BY TaskLaw
  <2>2. PICK kinds \in BoundedSeq(PackKinds, MaxLines + 1) : input = [task |-> "pack", lines |-> Lines(kinds, 0)]
    BY <2>1 DEF PackInputs, PackKinds
  <2>3. MaxLines + 1 \in Int
    BY AlgorithmsAssumption DEF AlgorithmsAssumption
  <2>4. kinds \in Seq(PackKinds)
    BY <2>3, BoundedLaw
  <2>5. Lines(kinds, 0) \in Seq(PackKinds \X Nat)
    <3>1. 0 \in Nat
      OBVIOUS
    <3> QED
      BY <2>4, <3>1, MarkedLines
  <2> DEFINE lines == input.lines
             T == PackKinds \X Nat
  <2>6. lines \in Seq(T)
    BY <2>2, <2>5
  <2> HIDE DEF lines, T
  <2>7. LET clauses == ParsePack(lines)
         IN  /\ \A i \in DOMAIN clauses :
                  /\ Slice(Text(lines), clauses[i].start, clauses[i].end) = clauses[i].text
                  /\ i > 1 => clauses[i - 1].end < clauses[i].start
             /\ \A line \in Range(lines) : Kind(line) = "clause" =>
                  \E c \in Range(clauses) : Head(c.text) = line
    BY <2>6, ClausesRoundTrip
  <2> QED
    BY <2>7 DEF PackRoundTrip, lines
<1>2. PackRoundTrip /\ [Next]_input => PackRoundTrip'
  BY DEF Next, PackRoundTrip
<1> QED
  BY <1>1, <1>2, PTL DEF Spec

\* Whatever is stored with offsets is what they cut out of its source: PagesRoundTrip and
\* PackRoundTrip together, for any bounds, threshold and budgets.
THEOREM SpansAlwaysRoundTrip == Spec => []SpansRoundTrip
<1>1. SpansRoundTrip <=> PagesRoundTrip /\ PackRoundTrip
  BY DEF SpansRoundTrip
<1> QED
  BY <1>1, PagesAlwaysRoundTrip, PackAlwaysRoundTrips, PTL

-----------------------------------------------------------------------------
(* Characters that are kept of a text.                                      *)

\* The lists of the first k of a list of lists, one list longer.
LEMMA FlattenPrefix ==
  ASSUME NEW T, NEW list \in Seq(Seq(T))
  PROVE  /\ FlattenSeq(SubSeq(list, 1, 0)) = <<>>
         /\ SubSeq(list, 1, Len(list)) = list
         /\ \A k \in 0 .. Len(list) : FlattenSeq(SubSeq(list, 1, k)) \in Seq(T)
         /\ \A k \in 0 .. Len(list) - 1 :
              FlattenSeq(SubSeq(list, 1, k + 1)) = FlattenSeq(SubSeq(list, 1, k)) \o list[k + 1]
<1> DEFINE V == Seq(T)
           n == Len(list)
<1>1. n \in Nat /\ 1 \in 1 .. n + 1 /\ \A k \in 0 .. n : k \in 1 - 1 .. n
  OBVIOUS
<1>2. ASSUME NEW k \in 0 .. n PROVE SubSeq(list, 1, k) \in Seq(Seq(T))
  <2> HIDE DEF n
  <2>1. list \in Seq(V)
    OBVIOUS
  <2> HIDE DEF V
  <2>2. SubSeq(list, 1, k) \in Seq(V)
    BY <1>1, <2>1, RunLaw DEF n
  <2> QED
    BY <2>2 DEF V
<1>3. FlattenSeq(SubSeq(list, 1, 0)) = <<>>
  <2>1. SubSeq(list, 1, 0) = <<>>
    OBVIOUS
  <2>2. <<>> \in Seq(Seq(T))
    OBVIOUS
  <2> QED
    BY <2>1, <2>2, FlattenLaw
<1>4. SubSeq(list, 1, n) = list
  OBVIOUS
<1>5. ASSUME NEW k \in 0 .. n PROVE FlattenSeq(SubSeq(list, 1, k)) \in Seq(T)
  <2> HIDE DEF n
  <2> QED
    BY <1>2, FlattenLaw
<1>6. ASSUME NEW k \in 0 .. n - 1
      PROVE  FlattenSeq(SubSeq(list, 1, k + 1)) = FlattenSeq(SubSeq(list, 1, k)) \o list[k + 1]
  <2>1. k \in 0 .. n /\ k < n /\ k + 1 \in 1 .. n /\ k \in 1 - 1 .. n
    BY <1>1
  <2>2. list[k + 1] \in Seq(T)
    BY <2>1
  <2>3. Append(SubSeq(list, 1, k), list[k + 1]) = SubSeq(list, 1, k + 1)
    <3>1. list \in Seq(V)
      OBVIOUS
    <3> HIDE DEF V
    <3> QED
      BY <1>1, <2>1, <3>1, RunLaw DEF n
  <2> DEFINE s == SubSeq(list, 1, k)
             e == list[k + 1]
  <2>4. s \in Seq(Seq(T)) /\ e \in Seq(T)
    BY <1>2, <2>1, <2>2
  <2> HIDE DEF s, e, n
  <2>5. FlattenSeq(Append(s, e)) = FlattenSeq(s) \o e
    BY <2>4, FlattenLaw
  <2> QED
    BY <2>3, <2>5 DEF s, e
<1> QED
  BY <1>3, <1>4, <1>5, <1>6

\* A list of pieces, one for each position of a text.
LEMMA PiecesLaw ==
  ASSUME NEW T, NEW n \in Nat, NEW f \in [1 .. n -> Seq(T)]
  PROVE  f \in Seq(Seq(T)) /\ Len(f) = n /\ DOMAIN f = 1 .. n
<1> DEFINE V == Seq(T)
<1>1. f \in [1 .. n -> V]
  OBVIOUS
<1> HIDE DEF V
<1>2. f \in Seq(V) /\ Len(f) = n
  BY <1>1
<1> QED
  BY <1>2 DEF V

\* The characters of a text at the positions in S.
At(text, S) == FlattenSeq([i \in DOMAIN text |-> IF i \in S THEN <<text[i]>> ELSE <<>>])

\* These positions in order.
Places(text, S) == Only(Indices(Len(text)), S)

\* One index more.
LEMMA IndicesStep ==
  ASSUME NEW k \in Nat
  PROVE  /\ Indices(k) \in Seq(Nat) /\ Append(Indices(k), k + 1) = Indices(k + 1)
         /\ Indices(0) = <<>>
<1>1. \A j \in Nat : Indices(j) \in Seq(Nat) /\ Len(Indices(j)) = j /\ \A i \in 1 .. j : Indices(j)[i] = i
  BY DEF Indices
<1> DEFINE s == Indices(k)
           t == Append(s, k + 1)
           u == Indices(k + 1)
<1>2. s \in Seq(Nat) /\ Len(s) = k /\ k + 1 \in Nat /\ u \in Seq(Nat) /\ Len(u) = k + 1
      /\ (\A i \in 1 .. k : s[i] = i) /\ \A i \in 1 .. k + 1 : u[i] = i
  BY <1>1
<1> HIDE DEF s, u
<1>3. t \in Seq(Nat) /\ Len(t) = k + 1 /\ t[k + 1] = k + 1 /\ \A i \in 1 .. k : t[i] = s[i]
  BY <1>2, AppendProperties
<1>4. \A i \in 1 .. k + 1 : i = k + 1 \/ i \in 1 .. k
  OBVIOUS
<1> HIDE DEF t
<1>5. \A i \in 1 .. Len(t) : t[i] = u[i]
  BY <1>2, <1>3, <1>4
<1>6. t = u
  BY <1>2, <1>3, <1>5, SameSequence
<1>7. Indices(0) = <<>>
  <2>1. Indices(0) \in Seq(Nat) /\ Len(Indices(0)) = 0
    BY <1>1
  <2> QED
    BY <2>1
<1> QED
  BY <1>2, <1>6, <1>7 DEF s, t, u

\* What is kept of a text is its characters at these positions, in their order.
LEMMA KeptLaw ==
  ASSUME NEW T, NEW text \in Seq(T), NEW S
  PROVE  /\ At(text, S) \in Seq(T) /\ Len(At(text, S)) = Len(Places(text, S))
         /\ Places(text, S) \in Seq(Nat) /\ Increasing(Places(text, S))
         /\ Range(Places(text, S)) = S \cap (1 .. Len(text))
         /\ \A i \in 1 .. Len(At(text, S)) : At(text, S)[i] = text[Places(text, S)[i]]
<1> DEFINE n == Len(text)
           piece(i) == IF i \in S THEN <<text[i]>> ELSE <<>>
           list == [i \in 1 .. n |-> piece(i)]
           flat(k) == FlattenSeq(SubSeq(list, 1, k))
           places(k) == Only(Indices(k), S)
           Good(k) == Len(flat(k)) = Len(places(k)) /\ \A i \in 1 .. Len(flat(k)) : flat(k)[i] = text[places(k)[i]]
           A == {k \in 0 .. n : Good(k)}
<1>1. n \in Nat /\ DOMAIN text = 1 .. n /\ \A i \in 1 .. n : text[i] \in T
  OBVIOUS
<1>2. \A i \in 1 .. n : piece(i) \in Seq(T)
  BY <1>1
<1>3. list \in Seq(Seq(T)) /\ Len(list) = n
  <2>1. list \in [1 .. n -> Seq(T)]
    <3> HIDE DEF piece
    <3> QED
      BY <1>2
  <2> HIDE DEF list, n
  <2> QED
    BY <1>1, <2>1, PiecesLaw
<1>4. \A k \in 0 .. n - 1 : list[k + 1] = piece(k + 1)
  <2> HIDE DEF piece
  <2> QED
    BY <1>1
<1>5. At(text, S) = FlattenSeq(list)
  BY <1>1 DEF At
<1>6. /\ flat(0) = <<>> /\ flat(n) = FlattenSeq(list)
      /\ \A k \in 0 .. n : flat(k) \in Seq(T)
      /\ \A k \in 0 .. n - 1 : flat(k + 1) = flat(k) \o list[k + 1]
  <2> HIDE DEF list, n
  <2> QED
    BY <1>3, FlattenPrefix
<1>7. \A k \in 0 .. n : places(k) \in Seq(Nat) /\ Increasing(places(k)) /\ Range(places(k)) = S \cap (1 .. k)
  BY <1>1, OnlyIndices
<1>8. ASSUME NEW k \in 0 .. n - 1
      PROVE  places(k + 1) = IF k + 1 \in S THEN Append(places(k), k + 1) ELSE places(k)
  <2>1. k \in Nat /\ k + 1 \in Nat
    BY <1>1
  <2>2. Indices(k) \in Seq(Nat) /\ Append(Indices(k), k + 1) = Indices(k + 1)
    BY <2>1, IndicesStep
  <2>3. \A x \in Nat : Only(Append(Indices(k), x), S)
                         = IF x \in S THEN Append(Only(Indices(k), S), x) ELSE Only(Indices(k), S)
    BY <2>2, OnlyLaw
  <2> QED
    BY <2>1, <2>2, <2>3
<1> HIDE DEF flat, places, list
<1>9. 0 \in A
  <2>1. places(0) = <<>>
    <3>1. <<>> \in Seq(Nat) /\ 0 \in Nat
      OBVIOUS
    <3> QED
      BY <3>1, IndicesStep, OnlyLaw DEF places
  <2> QED
    BY <1>1, <1>6, <2>1
<1>10. ASSUME NEW k \in 0 .. n - 1, k \in A PROVE k + 1 \in A
  <2> DEFINE u == flat(k)
             v == flat(k + 1)
             p == places(k)
             q == places(k + 1)
  <2>1. k \in 0 .. n /\ k + 1 \in 0 .. n /\ k + 1 \in 1 .. n
    BY <1>1
  <2>2. u \in Seq(T) /\ p \in Seq(Nat) /\ Len(u) = Len(p) /\ \A i \in 1 .. Len(u) : u[i] = text[p[i]]
    BY <1>6, <1>7, <1>10, <2>1
  <2>3. v = u \o piece(k + 1)
    <3> HIDE DEF piece
    <3> QED
      BY <1>4, <1>6
  <2>4. q = IF k + 1 \in S THEN Append(p, k + 1) ELSE p
    BY <1>8
  <2> HIDE DEF u, v, p, q
  <2>5. CASE k + 1 \in S
    <3> DEFINE x == text[k + 1]
    <3>1. x \in T /\ k + 1 \in Nat
      BY <1>1, <2>1
    <3>2. v = Append(u, x)
      BY <2>2, <2>3, <2>5, <3>1, AppendIsConcat
    <3>3. q = Append(p, k + 1)
      BY <2>4, <2>5
    <3> HIDE DEF x
    <3>4. Len(v) = Len(u) + 1 /\ v[Len(u) + 1] = x /\ \A i \in 1 .. Len(u) : v[i] = u[i]
      BY <2>2, <3>1, <3>2, AppendProperties
    <3>5. Len(q) = Len(p) + 1 /\ q[Len(p) + 1] = k + 1 /\ \A i \in 1 .. Len(p) : q[i] = p[i]
      BY <2>2, <3>1, <3>3, AppendProperties
    <3>6. Len(u) \in Nat
      BY <2>2
    <3>7. \A i \in 1 .. Len(u) + 1 : i = Len(u) + 1 \/ i \in 1 .. Len(u)
      BY <3>6
    <3>8. Len(v) = Len(q) /\ \A i \in 1 .. Len(v) : v[i] = text[q[i]]
      BY <2>2, <3>4, <3>5, <3>6, <3>7 DEF x
    <3> QED
      BY <2>1, <3>8 DEF v, q
  <2>6. CASE k + 1 \notin S
    <3>1. v = u /\ q = p
      BY <2>2, <2>3, <2>4, <2>6, ConcatEmptySeq
    <3>2. Len(v) = Len(q) /\ \A i \in 1 .. Len(v) : v[i] = text[q[i]]
      BY <2>2, <3>1
    <3> QED
      BY <2>1, <3>2 DEF v, q
  <2> QED
    BY <2>5, <2>6
<1>11. \A k \in 0 .. n : k \in A
  <2> HIDE DEF A
  <2> QED
    BY <1>1, <1>9, <1>10, UpTo
<1>12. Good(n)
  <2>1. n \in 0 .. n
    BY <1>1
  <2> QED
    BY <1>11, <2>1
<1>13. At(text, S) = flat(n) /\ Places(text, S) = places(n)
  BY <1>5, <1>6 DEF places, Places
<1>14. flat(n) \in Seq(T) /\ places(n) \in Seq(Nat) /\ Increasing(places(n)) /\ Range(places(n)) = S \cap (1 .. n)
  BY <1>1, <1>6, <1>7
<1> QED
  BY <1>12, <1>13, <1>14

\* Flattening lists whose members hold the same members of P.
LEMMA OnlyPieces ==
  ASSUME NEW T, NEW P, NEW list \in Seq(Seq(T)), NEW other \in Seq(Seq(T)), Len(other) = Len(list),
         \A i \in 1 .. Len(list) : Only(list[i], P) = Only(other[i], P)
  PROVE  Only(FlattenSeq(list), P) = Only(FlattenSeq(other), P)
<1> DEFINE n == Len(list)
           flat(l, k) == FlattenSeq(SubSeq(l, 1, k))
           A == {k \in 0 .. n : Only(flat(list, k), P) = Only(flat(other, k), P)}
<1>1. n \in Nat /\ n = Len(other) /\ (\A i \in 1 .. n : list[i] \in Seq(T)) /\ \A i \in 1 .. n : other[i] \in Seq(T)
  OBVIOUS
<1>2. ASSUME NEW l \in Seq(Seq(T)), Len(l) = n
      PROVE  /\ flat(l, 0) = <<>> /\ flat(l, n) = FlattenSeq(l)
             /\ \A k \in 0 .. n : flat(l, k) \in Seq(T)
             /\ \A k \in 0 .. n - 1 : flat(l, k + 1) = flat(l, k) \o l[k + 1]
  <2> HIDE DEF n
  <2> QED
    BY <1>2, FlattenPrefix
<1> HIDE DEF flat
<1>3. 0 \in A
  BY <1>1, <1>2
<1>4. ASSUME NEW k \in 0 .. n - 1, k \in A PROVE k + 1 \in A
  <2> DEFINE u == flat(list, k)
             v == flat(other, k)
             x == list[k + 1]
             y == other[k + 1]
  <2>1. k \in 0 .. n /\ k + 1 \in 0 .. n /\ k + 1 \in 1 .. n
    BY <1>1
  <2>2. /\ u \in Seq(T) /\ v \in Seq(T) /\ x \in Seq(T) /\ y \in Seq(T)
        /\ flat(list, k + 1) = u \o x /\ flat(other, k + 1) = v \o y
        /\ Only(u, P) = Only(v, P) /\ Only(x, P) = Only(y, P)
    BY <1>1, <1>2, <1>4, <2>1
  <2> HIDE DEF u, v, x, y
  <2>3. Only(u \o x, P) = Only(u, P) \o Only(x, P) /\ Only(v \o y, P) = Only(v, P) \o Only(y, P)
    BY <2>2, OnlyConcat
  <2>4. Only(flat(list, k + 1), P) = Only(flat(other, k + 1), P)
    BY <2>2, <2>3
  <2> QED
    BY <2>1, <2>4
<1>5. \A k \in 0 .. n : k \in A
  <2> HIDE DEF A
  <2> QED
    BY <1>1, <1>3, <1>4, UpTo
<1>6. n \in A
  BY <1>1, <1>5
<1> QED
  BY <1>1, <1>2, <1>6

\* The pieces of a text that At flattens.
AtPieces(text, S) == [i \in DOMAIN text |-> IF i \in S THEN <<text[i]>> ELSE <<>>]

\* They are lists of at most one character.
LEMMA AtPiecesLaw ==
  ASSUME NEW T, NEW text \in Seq(T), NEW S
  PROVE  /\ AtPieces(text, S) \in Seq(Seq(T)) /\ Len(AtPieces(text, S)) = Len(text)
         /\ \A i \in 1 .. Len(text) : AtPieces(text, S)[i] = IF i \in S THEN <<text[i]>> ELSE <<>>
         /\ At(text, S) = FlattenSeq(AtPieces(text, S))
<1> DEFINE n == Len(text)
           piece(i) == IF i \in S THEN <<text[i]>> ELSE <<>>
           list == [i \in 1 .. n |-> piece(i)]
<1>1. n \in Nat /\ DOMAIN text = 1 .. n /\ \A i \in 1 .. n : text[i] \in T
  OBVIOUS
<1>2. \A i \in 1 .. n : piece(i) \in Seq(T)
  BY <1>1
<1>3. AtPieces(text, S) = list
  BY <1>1 DEF AtPieces
<1>4. \A i \in 1 .. n : list[i] = piece(i)
  <2> HIDE DEF piece
  <2> QED
    OBVIOUS
<1>5. list \in [1 .. n -> Seq(T)]
  <2> HIDE DEF piece
  <2> QED
    BY <1>2
<1>6. list \in Seq(Seq(T)) /\ Len(list) = n
  <2> HIDE DEF list, n
  <2> QED
    BY <1>1, <1>5, PiecesLaw
<1>7. At(text, S) = FlattenSeq(AtPieces(text, S))
  BY DEF At, AtPieces
<1> HIDE DEF list
<1> QED
  BY <1>3, <1>4, <1>6, <1>7

\* The characters at p and q are the i-th that is kept and the next.
Neighbours(text, S, i, p, q) ==
  /\ p < q /\ p \in S /\ q \in S
  /\ At(text, S)[i] = text[p] /\ At(text, S)[i + 1] = text[q]
  /\ p = Places(text, S)[i] /\ q = Places(text, S)[i + 1]
  /\ \A m \in p + 1 .. q - 1 : m \notin S

\* Characters that become neighbours had nothing between them that stays.
LEMMA KeptNeighbours ==
  ASSUME NEW T, NEW text \in Seq(T), NEW S, NEW i \in 1 .. Len(At(text, S)) - 1
  PROVE  \E p, q \in 1 .. Len(text) : Neighbours(text, S, i, p, q)
<1> DEFINE pos == Places(text, S)
           kept == At(text, S)
           p == pos[i]
           q == pos[i + 1]
<1>1. /\ kept \in Seq(T) /\ Len(kept) = Len(pos) /\ pos \in Seq(Nat) /\ Increasing(pos)
      /\ Range(pos) = S \cap (1 .. Len(text))
      /\ \A k \in 1 .. Len(kept) : kept[k] = text[pos[k]]
  BY KeptLaw
<1> HIDE DEF pos, kept
<1>2. Len(kept) \in Nat /\ i \in 1 .. Len(kept) /\ i + 1 \in 1 .. Len(kept) /\ i < i + 1
  BY <1>1 DEF kept
<1>3. i \in DOMAIN pos /\ i + 1 \in DOMAIN pos /\ DOMAIN pos = 1 .. Len(pos)
  BY <1>1, <1>2
<1>4. p \in Range(pos) /\ q \in Range(pos)
  BY <1>3 DEF Range
<1>5. p \in S /\ q \in S /\ p \in 1 .. Len(text) /\ q \in 1 .. Len(text)
  BY <1>1, <1>4
<1>6. p < q
  BY <1>1, <1>2 DEF Increasing
<1>7. ASSUME NEW m \in p + 1 .. q - 1 PROVE m \notin S
  <2> SUFFICES ASSUME m \in S PROVE FALSE
    OBVIOUS
  <2>1. Len(text) \in Nat /\ p \in Int /\ q \in Int /\ m \in Int /\ m > p /\ m < q
    BY <1>5, <1>7
  <2>2. m \in Range(pos)
    BY <1>1, <1>5, <2>1
  <2>3. PICK j \in DOMAIN pos : pos[j] = m
    BY <2>2 DEF Range
  <2>4. j \in 1 .. Len(pos) /\ i \in 1 .. Len(pos) /\ i + 1 \in 1 .. Len(pos) /\ i \in Nat /\ j \in Nat
    BY <1>1, <1>2, <1>3, <2>3
  <2>5. CASE j < i
    BY <1>1, <2>1, <2>3, <2>4, <2>5 DEF Increasing
  <2>6. CASE j = i
    BY <2>1, <2>3, <2>6
  <2>7. CASE j = i + 1
    BY <2>1, <2>3, <2>7
  <2>8. CASE j > i + 1
    BY <1>1, <2>1, <2>3, <2>4, <2>8 DEF Increasing
  <2> QED
    BY <2>4, <2>5, <2>6, <2>7, <2>8
<1>8. kept[i] = text[p] /\ kept[i + 1] = text[q]
  BY <1>1, <1>2
<1> HIDE DEF p, q
<1> QED
  BY <1>5, <1>6, <1>7, <1>8 DEF p, q, pos, kept, Neighbours

\* What is kept of a text is some of its characters.
LEMMA KeptRange ==
  ASSUME NEW T, NEW text \in Seq(T), NEW S
  PROVE  Range(At(text, S)) \subseteq Range(text)
<1> DEFINE pos == Places(text, S)
           kept == At(text, S)
<1>1. /\ kept \in Seq(T) /\ Len(kept) = Len(pos) /\ pos \in Seq(Nat)
      /\ Range(pos) = S \cap (1 .. Len(text))
      /\ \A k \in 1 .. Len(kept) : kept[k] = text[pos[k]]
  BY KeptLaw
<1> HIDE DEF pos, kept
<1>2. ASSUME NEW k \in DOMAIN kept PROVE kept[k] \in Range(text)
  <2>1. k \in 1 .. Len(kept) /\ k \in DOMAIN pos
    BY <1>1
  <2>2. pos[k] \in Range(pos)
    BY <2>1 DEF Range
  <2>3. pos[k] \in DOMAIN text
    BY <1>1, <2>2
  <2> QED
    BY <1>1, <2>1, <2>3 DEF Range
<1> QED
  BY <1>2 DEF Range, kept

\* A text of which every position stays.
LEMMA KeptAll ==
  ASSUME NEW T, NEW text \in Seq(T), NEW S, 1 .. Len(text) \subseteq S
  PROVE  At(text, S) = text
<1> DEFINE n == Len(text)
           list == AtPieces(text, S)
           Same1(k) == FlattenSeq(SubSeq(list, 1, k)) = SubSeq(text, 1, k)
           A == {k \in 0 .. n : Same1(k)}
<1>1. n \in Nat /\ \A i \in 1 .. n : text[i] \in T
  OBVIOUS
<1>2. list \in Seq(Seq(T)) /\ Len(list) = n /\ \A i \in 1 .. n : list[i] = <<text[i]>>
  BY AtPiecesLaw
<1> HIDE DEF list
<1>3. /\ FlattenSeq(SubSeq(list, 1, 0)) = <<>> /\ SubSeq(list, 1, n) = list
      /\ \A k \in 0 .. n - 1 :
           FlattenSeq(SubSeq(list, 1, k + 1)) = FlattenSeq(SubSeq(list, 1, k)) \o list[k + 1]
  <2> HIDE DEF n
  <2> QED
    BY <1>2, FlattenPrefix
<1>4. 0 \in A
  <2>1. SubSeq(text, 1, 0) = <<>>
    OBVIOUS
  <2>2. Same1(0)
    BY <1>3, <2>1, Zenon
  <2> HIDE DEF Same1
  <2> QED
    BY <1>1, <2>2
<1>5. ASSUME NEW k \in 0 .. n - 1, k \in A PROVE k + 1 \in A
  <2> DEFINE s == SubSeq(text, 1, k)
             x == text[k + 1]
  <2>1. k + 1 \in 0 .. n /\ k + 1 \in 1 .. n /\ k < n /\ 1 \in 1 .. n + 1 /\ k \in 1 - 1 .. n
    BY <1>1
  <2>2. s \in Seq(T) /\ x \in T /\ Append(s, x) = SubSeq(text, 1, k + 1)
    <3>1. x \in T
      BY <1>1, <2>1
    <3>2. SubSeq(text, 1, k) \in Seq(T) /\ Append(SubSeq(text, 1, k), text[k + 1]) = SubSeq(text, 1, k + 1)
      BY <2>1, RunLaw
    <3> QED
      BY <3>1, <3>2
  <2>3. FlattenSeq(SubSeq(list, 1, k + 1)) = s \o <<x>>
    BY <1>2, <1>3, <1>5, <2>1
  <2> HIDE DEF s, x
  <2>4. s \o <<x>> = Append(s, x)
    BY <2>2, AppendIsConcat
  <2> QED
    BY <2>1, <2>2, <2>3, <2>4
<1>6. \A k \in 0 .. n : k \in A
  <2> HIDE DEF A
  <2> QED
    BY <1>1, <1>4, <1>5, UpTo
<1>7. FlattenSeq(SubSeq(list, 1, n)) = SubSeq(text, 1, n)
  BY <1>1, <1>6
<1>8. SubSeq(text, 1, n) = text
  OBVIOUS
<1>9. At(text, S) = FlattenSeq(list)
  BY AtPiecesLaw DEF list
<1> QED
  BY <1>3, <1>7, <1>8, <1>9

\* Keeping every member of P keeps them all, in order.
LEMMA KeptOnly ==
  ASSUME NEW T, NEW text \in Seq(T), NEW S, NEW P,
         \A i \in 1 .. Len(text) : text[i] \in P => i \in S
  PROVE  Only(At(text, S), P) = Only(text, P)
<1> DEFINE n == Len(text)
           list == AtPieces(text, S)
           other == AtPieces(text, 1 .. n)
<1>1. n \in Nat /\ \A i \in 1 .. n : text[i] \in T
  OBVIOUS
<1>2. list \in Seq(Seq(T)) /\ Len(list) = n /\ \A i \in 1 .. n : list[i] = IF i \in S THEN <<text[i]>> ELSE <<>>
  BY AtPiecesLaw
<1>3. other \in Seq(Seq(T)) /\ Len(other) = n /\ \A i \in 1 .. n : other[i] = <<text[i]>>
  BY AtPiecesLaw
<1> HIDE DEF list, other
<1>4. ASSUME NEW i \in 1 .. n PROVE Only(list[i], P) = Only(other[i], P)
  <2>1. CASE i \in S
    BY <1>2, <1>3, <2>1
  <2>2. CASE i \notin S
    <3> DEFINE x == text[i]
    <3>1. x \in T /\ x \notin P /\ list[i] = <<>> /\ other[i] = <<x>>
      BY <1>1, <1>2, <1>3, <2>2
    <3> HIDE DEF x
    <3>2. <<>> \in Seq(T) /\ Append(<<>>, x) = <<x>>
      OBVIOUS
    <3> DEFINE none == <<>>
    <3>3. none \in Seq(T)
      OBVIOUS
    <3>4. none = <<>> => Only(none, P) = <<>>
      BY <3>3, OnlyLaw
    <3> HIDE DEF none
    <3>5. Only(Append(none, x), P) = Only(none, P)
      BY <3>1, <3>3, OnlyLaw
    <3> QED
      BY <3>1, <3>2, <3>4, <3>5 DEF none
  <2> QED
    BY <2>1, <2>2
<1>5. Only(FlattenSeq(list), P) = Only(FlattenSeq(other), P)
  <2>1. Len(other) = Len(list) /\ \A i \in 1 .. Len(list) : Only(list[i], P) = Only(other[i], P)
    BY <1>2, <1>3, <1>4
  <2> QED
    BY <1>2, <1>3, <2>1, OnlyPieces
<1>6. At(text, S) = FlattenSeq(list) /\ At(text, 1 .. n) = FlattenSeq(other)
  BY AtPiecesLaw DEF list, other
<1>7. At(text, 1 .. n) = text
  BY KeptAll
<1> QED
  BY <1>5, <1>6, <1>7

-----------------------------------------------------------------------------
(* Normalising a text.                                                      *)

\* Texts that the steps of normalising leave as they are.
NoBlankEnds(t) == \A i \in 1 .. Len(t) - 1 : ~(t[i] = Space /\ t[i + 1] = "n")
FewBreaks(t) == \A i \in 1 .. Len(t) - 2 : ~(t[i] = "n" /\ t[i + 1] = "n" /\ t[i + 2] = "n")
SolidEnds(t) == t # <<>> => t[1] \notin Blank /\ t[Len(t)] \notin Blank

\* A blank is none of the letters that stand for other characters.
LEMMA SpaceIsItself == Space \notin {"n", "r", "z", "s", "l", "f", "i"}
BY DEF Space

\* Nothing in the text stands for another character.
Plain(t) == \A c \in Range(t) : c \notin {"z", "s", "l", "r"}

\* Where TrimLines and CollapseBreaks leave a text as it is.
LineEnds(text, i) ==
  \E j \in i + 1 .. Len(text) : text[j] = "n" /\ \A k \in i .. j - 1 : text[k] = Space
Untrimmed(text) == {i \in DOMAIN text : text[i] # Space \/ ~LineEnds(text, i)}
Uncollapsed(text) ==
  {i \in DOMAIN text : ~(i > 2 /\ text[i] = "n" /\ text[i - 1] = "n" /\ text[i - 2] = "n")}

\* TrimLines loses blanks only, and leaves none at the end of a line.
LEMMA TrimLaw ==
  ASSUME NEW T, NEW text \in Seq(T), NEW P, P \cap Blank = {}
  PROVE  /\ TrimLines(text) \in Seq(T) /\ Range(TrimLines(text)) \subseteq Range(text)
         /\ NoBlankEnds(TrimLines(text))
         /\ Only(TrimLines(text), P) = Only(text, P)
         /\ NoBlankEnds(text) => TrimLines(text) = text
<1> DEFINE S == Untrimmed(text)
           n == Len(text)
<1>1. n \in Nat /\ DOMAIN text = 1 .. n
  OBVIOUS
<1>2. TrimLines(text) = At(text, S)
  <2>1. [i \in DOMAIN text |-> IF text[i] # Space \/ ~LineEnds(text, i) THEN <<text[i]>> ELSE <<>>]
          = [i \in DOMAIN text |-> IF i \in S THEN <<text[i]>> ELSE <<>>]
    BY DEF Untrimmed
  <2> QED
    BY <2>1 DEF TrimLines, Kept, At, LineEnds
<1>3. \A m \in 1 .. n : m \notin S => text[m] = Space /\ LineEnds(text, m)
  BY <1>1 DEF Untrimmed
<1>4. \A m \in S : text[m] # Space \/ ~LineEnds(text, m)
  BY DEF Untrimmed
<1> HIDE DEF S
<1>5. At(text, S) \in Seq(T) /\ Range(At(text, S)) \subseteq Range(text)
  BY KeptLaw, KeptRange
<1>6. NoBlankEnds(At(text, S))
  <2> SUFFICES ASSUME NEW i \in 1 .. Len(At(text, S)) - 1,
                      At(text, S)[i] = Space, At(text, S)[i + 1] = "n"
               PROVE  FALSE
    BY DEF NoBlankEnds
  <2>0. PICK p \in 1 .. n, q \in 1 .. n : Neighbours(text, S, i, p, q)
    BY KeptNeighbours
  <2>1. /\ p < q /\ p \in S /\ q \in S
        /\ At(text, S)[i] = text[p] /\ At(text, S)[i + 1] = text[q]
        /\ \A m \in p + 1 .. q - 1 : m \notin S
    BY <2>0 DEF Neighbours
  <2>2. \A m \in p .. q - 1 : m = p \/ (m \in p + 1 .. q - 1 /\ m \in 1 .. n)
    BY <1>1, <2>1
  <2>3. \A m \in p .. q - 1 : text[m] = Space
    BY <1>3, <2>1, <2>2
  <2>4. q \in p + 1 .. n
    BY <1>1, <2>1
  <2>5. LineEnds(text, p)
    BY <2>1, <2>3, <2>4 DEF LineEnds
  <2> QED
    BY <1>4, <2>1, <2>5
<1>7. Only(At(text, S), P) = Only(text, P)
  <2>1. \A i \in 1 .. Len(text) : text[i] \in P => i \in S
    BY <1>3 DEF Blank
  <2> QED
    BY <2>1, KeptOnly
<1>8. ASSUME NoBlankEnds(text) PROVE At(text, S) = text
  <2>1. ASSUME NEW m \in 1 .. n, m \notin S PROVE FALSE
    <3>1. text[m] = Space /\ LineEnds(text, m)
      BY <1>3, <2>1
    <3>2. PICK j \in m + 1 .. n : text[j] = "n" /\ \A k \in m .. j - 1 : text[k] = Space
      BY <3>1 DEF LineEnds
    <3>3. j - 1 \in m .. j - 1 /\ j - 1 \in 1 .. n - 1 /\ (j - 1) + 1 = j
      BY <1>1, <3>2
    <3> QED
      BY <1>8, <3>2, <3>3 DEF NoBlankEnds
  <2>2. 1 .. Len(text) \subseteq S
    BY <2>1
  <2> QED
    BY <2>2, KeptAll
<1> QED
  BY <1>2, <1>5, <1>6, <1>7, <1>8

\* CollapseBreaks loses line feeds only and leaves no three of them in a row.
LEMMA CollapseLaw ==
  ASSUME NEW T, NEW text \in Seq(T), NEW P, P \cap Blank = {}
  PROVE  /\ CollapseBreaks(text) \in Seq(T) /\ Range(CollapseBreaks(text)) \subseteq Range(text)
         /\ FewBreaks(CollapseBreaks(text))
         /\ NoBlankEnds(text) => NoBlankEnds(CollapseBreaks(text))
         /\ Only(CollapseBreaks(text), P) = Only(text, P)
         /\ FewBreaks(text) => CollapseBreaks(text) = text
<1> DEFINE S == Uncollapsed(text)
           n == Len(text)
           u == At(text, S)
<1>1. n \in Nat /\ DOMAIN text = 1 .. n
  OBVIOUS
<1>2. CollapseBreaks(text) = u
  <2>1. [i \in DOMAIN text |->
           IF ~(i > 2 /\ text[i] = "n" /\ text[i - 1] = "n" /\ text[i - 2] = "n") THEN <<text[i]>> ELSE <<>>]
          = [i \in DOMAIN text |-> IF i \in S THEN <<text[i]>> ELSE <<>>]
    BY DEF Uncollapsed
  <2> QED
    BY <2>1 DEF CollapseBreaks, Kept, At
<1>3. \A m \in 1 .. n : m \notin S => m > 2 /\ text[m] = "n" /\ text[m - 1] = "n" /\ text[m - 2] = "n"
  BY <1>1 DEF Uncollapsed
<1>4. \A m \in S : ~(m > 2 /\ text[m] = "n" /\ text[m - 1] = "n" /\ text[m - 2] = "n")
  BY DEF Uncollapsed
<1> HIDE DEF S
<1>5. u \in Seq(T) /\ Range(u) \subseteq Range(text)
  BY KeptLaw, KeptRange
<1>6. ASSUME NEW i \in 1 .. Len(u) - 1
      PROVE  \E p, q \in 1 .. n :
               /\ p < q /\ p \in S /\ q \in S /\ u[i] = text[p] /\ u[i + 1] = text[q]
               /\ p = Places(text, S)[i] /\ q = Places(text, S)[i + 1]
               /\ \A m \in p + 1 .. q - 1 : text[m] = "n"
  <2>0. PICK p \in 1 .. n, q \in 1 .. n : Neighbours(text, S, i, p, q)
    BY KeptNeighbours
  <2>1. /\ p < q /\ p \in S /\ q \in S /\ u[i] = text[p] /\ u[i + 1] = text[q]
        /\ p = Places(text, S)[i] /\ q = Places(text, S)[i + 1]
        /\ \A m \in p + 1 .. q - 1 : m \notin S
    BY <2>0 DEF Neighbours
  <2>2. \A m \in p + 1 .. q - 1 : m \in 1 .. n
    BY <1>1, <2>1
  <2>3. \A m \in p + 1 .. q - 1 : text[m] = "n"
    BY <1>3, <2>1, <2>2
  <2> HIDE DEF u
  <2> QED
    BY <2>1, <2>3
<1> HIDE DEF u
<1>7. FewBreaks(u)
  <2> SUFFICES ASSUME NEW i \in 1 .. Len(u) - 2, u[i] = "n", u[i + 1] = "n", u[i + 2] = "n"
               PROVE  FALSE
    BY DEF FewBreaks
  <2>1. i \in 1 .. Len(u) - 1 /\ i + 1 \in 1 .. Len(u) - 1 /\ (i + 1) + 1 = i + 2
    BY <1>5
  <2>2. PICK p \in 1 .. n, q \in 1 .. n :
               /\ p < q /\ p \in S /\ q \in S /\ u[i] = text[p] /\ u[i + 1] = text[q]
               /\ p = Places(text, S)[i] /\ q = Places(text, S)[i + 1]
               /\ \A m \in p + 1 .. q - 1 : text[m] = "n"
    BY <1>6, <2>1
  <2>3. PICK o \in 1 .. n, r \in 1 .. n :
               /\ o < r /\ o \in S /\ r \in S /\ u[i + 1] = text[o] /\ u[(i + 1) + 1] = text[r]
               /\ o = Places(text, S)[i + 1] /\ r = Places(text, S)[(i + 1) + 1]
               /\ \A m \in o + 1 .. r - 1 : text[m] = "n"
    BY <1>6, <2>1
  <2>4. o = q /\ text[p] = "n" /\ text[q] = "n" /\ text[r] = "n"
    BY <2>1, <2>2, <2>3
  <2>ord. p \in 1 .. n /\ q \in 1 .. n /\ r \in 1 .. n /\ p < q /\ q < r
    BY <2>2, <2>3, <2>4
  <2>5. ASSUME NEW m \in p .. r PROVE text[m] = "n"
    <3>1. m = p \/ m \in p + 1 .. q - 1 \/ m = q \/ m \in q + 1 .. r - 1 \/ m = r
      BY <1>1, <2>ord
    <3> QED
      BY <2>2, <2>3, <2>4, <3>1
  <2>6. r > 2 /\ r \in p .. r /\ r - 1 \in p .. r /\ r - 2 \in p .. r
    BY <1>1, <2>ord
  <2> QED
    BY <1>4, <2>3, <2>5, <2>6
<1>8. ASSUME NoBlankEnds(text) PROVE NoBlankEnds(u)
  <2> SUFFICES ASSUME NEW i \in 1 .. Len(u) - 1, u[i] = Space, u[i + 1] = "n"
               PROVE  FALSE
    BY DEF NoBlankEnds
  <2>1. PICK p \in 1 .. n, q \in 1 .. n :
               /\ p < q /\ u[i] = text[p] /\ u[i + 1] = text[q]
               /\ \A m \in p + 1 .. q - 1 : text[m] = "n"
    BY <1>6
  <2>2. p \in 1 .. n - 1 /\ (p + 1 = q \/ p + 1 \in p + 1 .. q - 1)
    BY <1>1, <2>1
  <2>3. text[p] = Space /\ text[p + 1] = "n"
    BY <2>1, <2>2
  <2> QED
    BY <1>8, <2>2, <2>3 DEF NoBlankEnds
<1>9. Only(u, P) = Only(text, P)
  <2>1. \A i \in 1 .. Len(text) : text[i] \in P => i \in S
    BY <1>3 DEF Blank
  <2> QED
    BY <2>1, KeptOnly DEF u
<1>10. ASSUME FewBreaks(text) PROVE u = text
  <2>1. ASSUME NEW m \in 1 .. n, m \notin S PROVE FALSE
    <3>1. m > 2 /\ text[m] = "n" /\ text[m - 1] = "n" /\ text[m - 2] = "n"
      BY <1>3, <2>1
    <3>2. m - 2 \in 1 .. n - 2 /\ (m - 2) + 1 = m - 1 /\ (m - 2) + 2 = m
      BY <1>1, <3>1
    <3> QED
      BY <1>10, <3>1, <3>2 DEF FewBreaks
  <2>2. 1 .. Len(text) \subseteq S
    BY <2>1
  <2> QED
    BY <2>2, KeptAll DEF u
<1> QED
  BY <1>2, <1>5, <1>7, <1>8, <1>9, <1>10

\* What Trim leaves stands in the text a places further on.
Stands(u, text, a) == a + Len(u) <= Len(text) /\ \A i \in 1 .. Len(u) : u[i] = text[a + i]

\* No member of P, nothing of it.
LEMMA OnlyNothing ==
  ASSUME NEW T, NEW s \in Seq(T), NEW P, \A i \in 1 .. Len(s) : s[i] \notin P
  PROVE  Only(s, P) = <<>>
<1> DEFINE none == {}
           u == At(s, none)
           pos == Places(s, none)
<1>1. Only(u, P) = Only(s, P)
  <2>1. \A i \in 1 .. Len(s) : s[i] \in P => i \in none
    OBVIOUS
  <2> HIDE DEF none
  <2> QED
    BY <2>1, KeptOnly
<1>2. u \in Seq(T) /\ Len(u) = Len(pos) /\ pos \in Seq(Nat) /\ Range(pos) = none \cap (1 .. Len(s))
  <2> HIDE DEF none
  <2> QED
    BY KeptLaw
<1> HIDE DEF u, pos
<1>3. Range(pos) = {}
  BY <1>2
<1>4. Len(pos) = 0
  <2> SUFFICES ASSUME Len(pos) # 0 PROVE FALSE
    OBVIOUS
  <2>1. 1 \in DOMAIN pos
    BY <1>2
  <2> QED
    BY <1>3, <2>1 DEF Range
<1>5. u = <<>>
  BY <1>2, <1>4
<1>6. u = <<>> => Only(u, P) = <<>>
  BY <1>2, OnlyLaw
<1> QED
  BY <1>1, <1>5, <1>6

\* Two sequences joined.
LEMMA JoinedLaw ==
  ASSUME NEW T, NEW s \in Seq(T), NEW t \in Seq(T)
  PROVE  /\ s \o t \in Seq(T) /\ Len(s \o t) = Len(s) + Len(t)
         /\ \A i \in 1 .. Len(s) : (s \o t)[i] = s[i]
         /\ \A i \in 1 .. Len(t) : (s \o t)[Len(s) + i] = t[i]
<1> DEFINE u == s \o t
<1>1. /\ u \in Seq(T) /\ Len(u) = Len(s) + Len(t)
      /\ \A i \in 1 .. Len(s) + Len(t) : u[i] = IF i <= Len(s) THEN s[i] ELSE t[i - Len(s)]
  BY ConcatProperties
<1> HIDE DEF u
<1>2. Len(s) \in Nat /\ Len(t) \in Nat
  OBVIOUS
<1>3. \A i \in 1 .. Len(s) : u[i] = s[i]
  BY <1>1, <1>2
<1>4. ASSUME NEW i \in 1 .. Len(t) PROVE u[Len(s) + i] = t[i]
  <2>1. Len(s) + i \in 1 .. Len(s) + Len(t) /\ ~(Len(s) + i <= Len(s)) /\ (Len(s) + i) - Len(s) = i
    BY <1>2
  <2> QED
    BY <1>1, <2>1
<1> QED
  BY <1>1, <1>3, <1>4 DEF u

\* A text is what stands before a run of it, the run, and what stands after it.
LEMMA SplitLaw ==
  ASSUME NEW T, NEW text \in Seq(T), NEW a \in 1 .. Len(text), NEW b \in a .. Len(text)
  PROVE  text = (SubSeq(text, 1, a - 1) \o SubSeq(text, a, b)) \o SubSeq(text, b + 1, Len(text))
<1> DEFINE n == Len(text)
           u == SubSeq(text, 1, a - 1)
           m == SubSeq(text, a, b)
           w == SubSeq(text, b + 1, n)
           um == u \o m
           all == um \o w
<1>1. n \in Nat /\ a \in Nat /\ b \in Nat /\ 1 <= a /\ a <= b /\ b <= n
  OBVIOUS
<1>2. /\ 1 \in 1 .. n + 1 /\ a - 1 \in 1 - 1 .. n /\ a \in 1 .. n + 1 /\ b \in a - 1 .. n
      /\ b + 1 \in 1 .. n + 1 /\ n \in (b + 1) - 1 .. n
  BY <1>1
<1>3. u \in Seq(T) /\ Len(u) = a - 1 /\ \A i \in 1 .. a - 1 : u[i] = text[i]
  <2>1. SubSeq(text, 1, a - 1) \in Seq(T) /\ Len(SubSeq(text, 1, a - 1)) = (a - 1) - 1 + 1
        /\ \A i \in 1 .. (a - 1) - 1 + 1 : SubSeq(text, 1, a - 1)[i] = text[1 + i - 1]
    BY <1>2, RunLaw
  <2> QED
    BY <1>1, <2>1
<1>4. m \in Seq(T) /\ Len(m) = b - a + 1 /\ \A i \in 1 .. b - a + 1 : m[i] = text[a + i - 1]
  BY <1>2, RunLaw
<1>5. w \in Seq(T) /\ Len(w) = n - b /\ \A i \in 1 .. n - b : w[i] = text[b + i]
  <2>1. SubSeq(text, b + 1, n) \in Seq(T) /\ Len(SubSeq(text, b + 1, n)) = n - (b + 1) + 1
        /\ \A i \in 1 .. n - (b + 1) + 1 : SubSeq(text, b + 1, n)[i] = text[(b + 1) + i - 1]
    BY <1>2, RunLaw
  <2> QED
    BY <1>1, <2>1
<1> HIDE DEF n, u, m, w
<1>6. /\ um \in Seq(T) /\ Len(um) = Len(u) + Len(m)
      /\ (\A i \in 1 .. Len(u) : um[i] = u[i]) /\ \A i \in 1 .. Len(m) : um[Len(u) + i] = m[i]
  <2>1. u \in Seq(T) /\ m \in Seq(T)
    BY <1>3, <1>4
  <2> QED
    BY <2>1, JoinedLaw
<1> HIDE DEF um
<1>7. /\ all \in Seq(T) /\ Len(all) = Len(um) + Len(w)
      /\ (\A i \in 1 .. Len(um) : all[i] = um[i]) /\ \A i \in 1 .. Len(w) : all[Len(um) + i] = w[i]
  <2>1. um \in Seq(T) /\ w \in Seq(T)
    BY <1>5, <1>6
  <2> QED
    BY <2>1, JoinedLaw
<1> HIDE DEF all
<1>8. Len(um) = b /\ Len(all) = n
  BY <1>1, <1>3, <1>4, <1>5, <1>6, <1>7
<1>9. ASSUME NEW i \in 1 .. n PROVE all[i] = text[i]
  <2>1. CASE i < a
    <3>1. i \in 1 .. a - 1 /\ i \in 1 .. Len(u) /\ i \in 1 .. Len(um)
      BY <1>1, <1>3, <1>8, <2>1
    <3> QED
      BY <1>3, <1>6, <1>7, <3>1
  <2>2. CASE i >= a /\ i <= b
    <3> DEFINE k == i - a + 1
    <3>1. k \in 1 .. b - a + 1 /\ k \in 1 .. Len(m) /\ Len(u) + k = i /\ i \in 1 .. Len(um) /\ a + k - 1 = i
      BY <1>1, <1>3, <1>4, <1>8, <2>2
    <3> HIDE DEF k
    <3>2. m[k] = text[i]
      BY <1>4, <3>1
    <3>3. um[i] = m[k]
      BY <1>6, <3>1
    <3>4. all[i] = um[i]
      BY <1>7, <3>1
    <3> QED
      BY <3>2, <3>3, <3>4
  <2>3. CASE i > b
    <3> DEFINE k == i - b
    <3>1. k \in 1 .. n - b /\ k \in 1 .. Len(w) /\ Len(um) + k = i /\ b + k = i
      BY <1>1, <1>5, <1>8, <2>3
    <3> HIDE DEF k
    <3> QED
      BY <1>5, <1>7, <3>1
  <2> QED
    BY <1>1, <2>1, <2>2, <2>3
<1>10. text \in Seq(T) /\ Len(text) = n
  BY DEF n
<1>11. all = text
  BY <1>7, <1>8, <1>9, <1>10, SameSequence
<1> QED
  BY <1>11 DEF all, um, u, m, w, n

\* Trim cuts marks off both ends of a text and nothing else.
LEMMA TrimEndsLaw ==
  ASSUME NEW T, NEW text \in Seq(T), NEW marks, NEW P, P \cap marks = {}
  PROVE  /\ Trim(text, marks) \in Seq(T)
         /\ Trim(text, marks) # <<>> =>
              Trim(text, marks)[1] \notin marks /\ Trim(text, marks)[Len(Trim(text, marks))] \notin marks
         /\ \E a \in 0 .. Len(text) : Stands(Trim(text, marks), text, a)
         /\ Only(Trim(text, marks), P) = Only(text, P)
         /\ (text # <<>> => text[1] \notin marks /\ text[Len(text)] \notin marks)
              => Trim(text, marks) = text
<1> DEFINE n == Len(text)
           solid == {i \in DOMAIN text : text[i] \notin marks}
           u == Trim(text, marks)
<1>1. n \in Nat /\ DOMAIN text = 1 .. n /\ solid \in SUBSET Nat /\ solid \in SUBSET (0 .. n)
      /\ \A i \in 1 .. n : text[i] \in T
  OBVIOUS
<1>2. u = IF solid = {} THEN <<>> ELSE SubSeq(text, Min(solid), Max(solid))
  BY DEF Trim
<1>3. CASE solid = {}
  <2>1. u = <<>> /\ u \in Seq(T)
    BY <1>2, <1>3
  <2>2. \A i \in 1 .. n : text[i] \in marks
    BY <1>1, <1>3
  <2> HIDE DEF u, solid
  <2>3. Stands(u, text, 0)
    BY <1>1, <2>1 DEF Stands
  <2>4. Only(u, P) = <<>>
    <3>1. \A i \in 1 .. Len(u) : u[i] \notin P
      BY <2>1
    <3> QED
      BY <2>1, <3>1, OnlyNothing
  <2>5. Only(text, P) = <<>>
    <3>1. \A i \in 1 .. Len(text) : text[i] \notin P
      BY <2>2
    <3> QED
      BY <3>1, OnlyNothing
  <2>6. (text # <<>> => text[1] \notin marks /\ text[Len(text)] \notin marks) => text = <<>>
    BY <1>1, <2>2
  <2>7. 0 \in 0 .. Len(text)
    BY <1>1
  <2> QED
    BY <2>1, <2>3, <2>4, <2>5, <2>6, <2>7 DEF u
<1>4. CASE solid # {}
  <2> DEFINE a == Min(solid)
             b == Max(solid)
  <2>1. a \in solid /\ \A y \in solid : a <= y
    <3> HIDE DEF solid
    <3>1. \E x \in solid : \A y \in solid : x <= y
      BY <1>1, <1>4, LeastExists
    <3> QED
      BY <3>1 DEF Min
  <2>2. b \in solid /\ \A y \in solid : b >= y
    <3> HIDE DEF solid
    <3> QED
      BY <1>1, <1>4, GreatestExists
  <2>3. a \in 1 .. n /\ b \in a .. n /\ text[a] \notin marks /\ text[b] \notin marks
    BY <1>1, <2>1, <2>2
  <2>4. \A i \in 1 .. n : i < a \/ i > b => text[i] \in marks
    <3> SUFFICES ASSUME NEW i \in 1 .. n, i < a \/ i > b, text[i] \notin marks PROVE FALSE
      OBVIOUS
    <3>1. i \in solid
      BY <1>1
    <3> HIDE DEF solid
    <3>2. a <= i /\ b >= i
      BY <2>1, <2>2, <3>1
    <3> HIDE DEF a, b
    <3> QED
      BY <1>1, <2>3, <3>2
  <2>5. u = SubSeq(text, a, b)
    BY <1>2, <1>4
  <2> HIDE DEF a, b, u, solid
  <2>6. a \in 1 .. n + 1 /\ b \in a - 1 .. n /\ a \in Nat /\ b \in Nat /\ a <= b
    BY <1>1, <2>3
  <2>7. u \in Seq(T) /\ Len(u) = b - a + 1 /\ \A i \in 1 .. b - a + 1 : u[i] = text[a + i - 1]
    BY <2>5, <2>6, RunLaw
  <2>8. u[1] \notin marks /\ u[Len(u)] \notin marks
    <3>1. 1 \in 1 .. b - a + 1 /\ b - a + 1 \in 1 .. b - a + 1 /\ a + 1 - 1 = a /\ a + (b - a + 1) - 1 = b
      BY <2>6
    <3> QED
      BY <2>3, <2>7, <3>1
  <2>9. a - 1 \in 0 .. Len(text) /\ Stands(u, text, a - 1)
    <3>1. \A i \in 1 .. b - a + 1 : a + i - 1 = (a - 1) + i
      BY <2>6
    <3> QED
      BY <1>1, <2>3, <2>6, <2>7, <3>1 DEF Stands
  <2>10. Only(u, P) = Only(text, P)
    <3> DEFINE before == SubSeq(text, 1, a - 1)
               after == SubSeq(text, b + 1, n)
               front == before \o u
    <3>1. text = front \o after
      BY <2>3, <2>5, SplitLaw
    <3>2. before \in Seq(T) /\ \A i \in 1 .. Len(before) : before[i] \notin P
      <4>1. 1 \in 1 .. n + 1 /\ a - 1 \in 1 - 1 .. n
        BY <1>1, <2>3
      <4>2. before \in Seq(T) /\ Len(before) = (a - 1) - 1 + 1
            /\ \A i \in 1 .. (a - 1) - 1 + 1 : before[i] = text[1 + i - 1]
        BY <4>1, RunLaw
      <4> HIDE DEF before
      <4>3. ASSUME NEW i \in 1 .. Len(before) PROVE before[i] \notin P
        <5>1. i \in 1 .. n /\ i < a /\ 1 + i - 1 = i /\ i \in 1 .. (a - 1) - 1 + 1
          BY <1>1, <2>3, <2>6, <4>2
        <5>2. before[i] \in marks
          BY <2>4, <4>2, <5>1
        <5> QED
          BY <5>2
      <4> QED
        BY <4>2, <4>3
    <3>3. after \in Seq(T) /\ \A i \in 1 .. Len(after) : after[i] \notin P
      <4>1. b + 1 \in 1 .. n + 1 /\ n \in (b + 1) - 1 .. n
        BY <1>1, <2>3, <2>6
      <4>2. after \in Seq(T) /\ Len(after) = n - (b + 1) + 1
            /\ \A i \in 1 .. n - (b + 1) + 1 : after[i] = text[(b + 1) + i - 1]
        BY <4>1, RunLaw
      <4> HIDE DEF after
      <4>3. ASSUME NEW i \in 1 .. Len(after) PROVE after[i] \notin P
        <5>1. b + i \in 1 .. n /\ b + i > b /\ (b + 1) + i - 1 = b + i /\ i \in 1 .. n - (b + 1) + 1
          BY <1>1, <2>3, <2>6, <4>2
        <5>2. after[i] \in marks
          BY <2>4, <4>2, <5>1
        <5> QED
          BY <5>2
      <4> QED
        BY <4>2, <4>3
    <3> HIDE DEF before, after
    <3>4. front \in Seq(T)
      BY <2>7, <3>2, ConcatProperties
    <3>5. Only(front, P) = Only(before, P) \o Only(u, P)
      BY <2>7, <3>2, OnlyConcat
    <3> HIDE DEF front
    <3>6. Only(text, P) = Only(front, P) \o Only(after, P)
      BY <3>1, <3>3, <3>4, OnlyConcat
    <3>7. Only(before, P) = <<>> /\ Only(after, P) = <<>>
      BY <3>2, <3>3, OnlyNothing
    <3>8. Only(u, P) \in Seq(T)
      BY <2>7, OnlyLaw
    <3> DEFINE o == Only(u, P)
    <3> HIDE DEF o
    <3>9. <<>> \o o = o /\ o \o <<>> = o
      BY <3>8, ConcatEmptySeq DEF o
    <3> QED
      BY <3>5, <3>6, <3>7, <3>9 DEF o
  <2>11. (text # <<>> => text[1] \notin marks /\ text[Len(text)] \notin marks) => u = text
    <3> SUFFICES ASSUME text # <<>> => text[1] \notin marks /\ text[Len(text)] \notin marks
                 PROVE  u = text
      OBVIOUS
    <3>1. text # <<>> /\ 1 \in 1 .. n /\ n \in 1 .. n
      BY <1>1, <2>3
    <3>2. text[1] \notin marks /\ text[n] \notin marks
      BY <3>1
    <3>3. ~(1 < a) /\ ~(n > b)
      BY <2>4, <3>1, <3>2
    <3>4. a = 1 /\ b = n
      <4>1. a \in 1 .. n /\ b \in a .. n /\ 1 \in Nat
        BY <2>3
      <4> HIDE DEF n
      <4> QED
        BY <1>1, <2>6, <3>3, <4>1
    <3>5. \A i \in 1 .. n : a + i - 1 = i
      BY <3>4
    <3>6. Len(u) = Len(text) /\ \A i \in 1 .. Len(u) : u[i] = text[i]
      BY <1>1, <2>7, <3>4, <3>5
    <3> QED
      BY <2>7, <3>6, SameSequence
  <2> QED
    BY <2>7, <2>8, <2>9, <2>10, <2>11 DEF u
<1> QED
  BY <1>3, <1>4

\* Strip cuts blanks off both ends.
LEMMA StripLaw ==
  ASSUME NEW T, NEW text \in Seq(T), NEW P, P \cap Blank = {}
  PROVE  /\ Strip(text) \in Seq(T) /\ Range(Strip(text)) \subseteq Range(text)
         /\ SolidEnds(Strip(text))
         /\ NoBlankEnds(text) => NoBlankEnds(Strip(text))
         /\ FewBreaks(text) => FewBreaks(Strip(text))
         /\ Only(Strip(text), P) = Only(text, P)
         /\ SolidEnds(text) => Strip(text) = text
<1> DEFINE u == Strip(text)
           n == Len(text)
<1>1. u = Trim(text, Blank)
  BY DEF Strip, Trim
<1> HIDE DEF u
<1>2. /\ u \in Seq(T)
      /\ u # <<>> => u[1] \notin Blank /\ u[Len(u)] \notin Blank
      /\ \E a \in 0 .. n : Stands(u, text, a)
      /\ Only(u, P) = Only(text, P)
      /\ (text # <<>> => text[1] \notin Blank /\ text[n] \notin Blank) => u = text
  <2>1. /\ Trim(text, Blank) \in Seq(T)
        /\ Trim(text, Blank) # <<>> =>
             Trim(text, Blank)[1] \notin Blank /\ Trim(text, Blank)[Len(Trim(text, Blank))] \notin Blank
        /\ \E a \in 0 .. Len(text) : Stands(Trim(text, Blank), text, a)
        /\ Only(Trim(text, Blank), P) = Only(text, P)
        /\ (text # <<>> => text[1] \notin Blank /\ text[Len(text)] \notin Blank)
             => Trim(text, Blank) = text
    BY TrimEndsLaw
  <2> QED
    BY <1>1, <2>1
<1>3. PICK a \in 0 .. n : Stands(u, text, a)
  BY <1>2
<1>4. a + Len(u) <= n /\ \A i \in 1 .. Len(u) : u[i] = text[a + i]
  BY <1>3 DEF Stands
<1>5. n \in Nat /\ Len(u) \in Nat /\ a \in Nat /\ DOMAIN u = 1 .. Len(u) /\ DOMAIN text = 1 .. n
  BY <1>2
<1> HIDE DEF n
<1>6. Range(u) \subseteq Range(text)
  <2>1. ASSUME NEW i \in 1 .. Len(u) PROVE u[i] \in Range(text)
    <3>1. a + i \in 1 .. n
      BY <1>4, <1>5
    <3> QED
      BY <1>4, <1>5, <3>1 DEF Range
  <2> QED
    BY <1>5, <2>1 DEF Range
<1>7. SolidEnds(u)
  BY <1>2 DEF SolidEnds
<1>8. ASSUME NoBlankEnds(text) PROVE NoBlankEnds(u)
  <2> SUFFICES ASSUME NEW i \in 1 .. Len(u) - 1, u[i] = Space, u[i + 1] = "n" PROVE FALSE
    BY DEF NoBlankEnds
  <2>1. i \in 1 .. Len(u) /\ i + 1 \in 1 .. Len(u) /\ a + i \in 1 .. n - 1 /\ a + (i + 1) = (a + i) + 1
    BY <1>4, <1>5
  <2>2. text[a + i] = Space /\ text[(a + i) + 1] = "n"
    BY <1>4, <2>1
  <2> QED
    BY <1>8, <2>1, <2>2 DEF NoBlankEnds, n
<1>9. ASSUME FewBreaks(text) PROVE FewBreaks(u)
  <2> SUFFICES ASSUME NEW i \in 1 .. Len(u) - 2, u[i] = "n", u[i + 1] = "n", u[i + 2] = "n" PROVE FALSE
    BY DEF FewBreaks
  <2>1. /\ i \in 1 .. Len(u) /\ i + 1 \in 1 .. Len(u) /\ i + 2 \in 1 .. Len(u) /\ a + i \in 1 .. n - 2
        /\ a + (i + 1) = (a + i) + 1 /\ a + (i + 2) = (a + i) + 2
    BY <1>4, <1>5
  <2>2. text[a + i] = "n" /\ text[(a + i) + 1] = "n" /\ text[(a + i) + 2] = "n"
    BY <1>4, <2>1
  <2> QED
    BY <1>9, <2>1, <2>2 DEF FewBreaks, n
<1>10. SolidEnds(text) => u = text
  BY <1>2 DEF SolidEnds, n
<1> QED
  BY <1>2, <1>6, <1>7, <1>8, <1>9, <1>10 DEF u

\* What a character prints as.
Shown(c) ==
  CASE c = "l" -> <<"f", "i">> [] c = "s" -> <<Space>> [] c = "z" -> <<>> [] OTHER -> <<c>>

\* The pieces of a text that Presentation flattens.
ShownPieces(text) == [i \in DOMAIN text |-> Shown(text[i])]

\* A character prints as characters that print as themselves.
LEMMA ShownLaw ==
  ASSUME NEW T, {"f", "i", Space} \subseteq T, NEW c \in T
  PROVE  /\ Shown(c) \in Seq(T)
         /\ \A e \in Range(Shown(c)) : e \notin {"l", "s", "z"} /\ (e = "r" => c = "r")
         /\ c \notin {"l", "s", "z"} => Shown(c) = <<c>>
<1>1. c = "l" => Shown(c) = <<"f", "i">>
  BY DEF Shown
<1>2. c = "s" => Shown(c) = <<Space>>
  BY DEF Shown
<1>3. c = "z" => Shown(c) = <<>>
  BY DEF Shown
<1>4. c \notin {"l", "s", "z"} => Shown(c) = <<c>>
  BY DEF Shown
<1>5. \A x, y \in T : Range(<<x, y>>) = {x, y} /\ <<x, y>> \in Seq(T)
  BY DEF Range
<1>6. \A x \in T : Range(<<x>>) = {x} /\ <<x>> \in Seq(T)
  BY DEF Range
<1>7. Range(<<>>) = {} /\ <<>> \in Seq(T)
  BY DEF Range
<1>8. Space \notin {"l", "s", "z", "r"}
  BY DEF Space
<1>9. CASE c = "l"
  <2>1. "f" \in T /\ "i" \in T
    OBVIOUS
  <2>2. Range(<<"f", "i">>) = {"f", "i"} /\ <<"f", "i">> \in Seq(T)
    BY <1>5, <2>1
  <2>3. \A e \in {"f", "i"} : e \notin {"l", "s", "z"} /\ e # "r"
    OBVIOUS
  <2>4. Shown(c) = <<"f", "i">> /\ c \in {"l", "s", "z"}
    BY <1>1, <1>9
  <2> QED
    BY <2>2, <2>3, <2>4
<1>10. CASE c = "s"
  BY <1>2, <1>6, <1>8, <1>10
<1>11. CASE c = "z"
  BY <1>3, <1>7, <1>11
<1>12. CASE c \notin {"l", "s", "z"}
  BY <1>4, <1>6, <1>12
<1> QED
  BY <1>9, <1>10, <1>11, <1>12

\* Presentation flattens the pieces of its text.
LEMMA ShownPiecesLaw ==
  ASSUME NEW T, {"f", "i", Space} \subseteq T, NEW text \in Seq(T)
  PROVE  /\ ShownPieces(text) \in Seq(Seq(T)) /\ Len(ShownPieces(text)) = Len(text)
         /\ \A i \in 1 .. Len(text) : ShownPieces(text)[i] = Shown(text[i])
         /\ Presentation(text) = FlattenSeq(ShownPieces(text))
         /\ Presentation(text) \in Seq(T)
<1>1. \A i \in 1 .. Len(text) : Shown(text[i]) \in Seq(T)
  BY ShownLaw
<1>2. ShownPieces(text) \in [1 .. Len(text) -> Seq(T)] /\ Len(text) \in Nat
      /\ \A i \in 1 .. Len(text) : ShownPieces(text)[i] = Shown(text[i])
  BY <1>1 DEF ShownPieces
<1>3. ShownPieces(text) \in Seq(Seq(T)) /\ Len(ShownPieces(text)) = Len(text)
  BY <1>2, PiecesLaw
<1>4. Presentation(text) = FlattenSeq(ShownPieces(text))
  BY DEF Presentation, ShownPieces, Shown
<1>5. FlattenSeq(ShownPieces(text)) \in Seq(T)
  BY <1>3, FlattenLaw
<1> QED
  BY <1>2, <1>3, <1>4, <1>5

\* Presentation leaves nothing that stands for another character, goes character by
\* character, and changes nothing where there is nothing to change.
LEMMA PresentationLaw ==
  ASSUME NEW T, {"f", "i", Space} \subseteq T, NEW text \in Seq(T)
  PROVE  /\ \A e \in Range(Presentation(text)) : e \notin {"l", "s", "z"} /\ (e = "r" => "r" \in Range(text))
         /\ text = <<>> => Presentation(text) = <<>>
         /\ \A x \in T : Presentation(Append(text, x)) = Presentation(text) \o Shown(x)
         /\ (\A c \in Range(text) : c \notin {"l", "s", "z"}) => Presentation(text) = text
<1> DEFINE pieces == ShownPieces(text)
           n == Len(text)
<1>1. /\ pieces \in Seq(Seq(T)) /\ Len(pieces) = n
      /\ \A i \in 1 .. n : pieces[i] = Shown(text[i])
      /\ Presentation(text) = FlattenSeq(pieces)
  BY ShownPiecesLaw
<1>2. n \in Nat /\ DOMAIN text = 1 .. n /\ \A i \in 1 .. n : text[i] \in T /\ text[i] \in Range(text)
  BY DEF Range
<1> HIDE DEF pieces
<1>3. ASSUME NEW e \in Range(Presentation(text))
      PROVE  e \notin {"l", "s", "z"} /\ (e = "r" => "r" \in Range(text))
  <2>1. InOneOf(e, Range(pieces))
    BY <1>1, <1>3, FlattenRange
  <2>2. PICK p \in Range(pieces) : e \in Range(p)
    BY <2>1 DEF InOneOf
  <2>3. PICK i \in 1 .. n : p = pieces[i]
    BY <1>1, <2>2 DEF Range
  <2>4. e \in Range(Shown(text[i])) /\ text[i] \in T /\ text[i] \in Range(text)
    BY <1>1, <1>2, <2>2, <2>3
  <2> QED
    BY <2>4, ShownLaw
<1>4. text = <<>> => Presentation(text) = <<>>
  <2> SUFFICES ASSUME text = <<>> PROVE Presentation(text) = <<>>
    OBVIOUS
  <2>1. pieces = <<>>
    BY <1>1
  <2> QED
    BY <1>1, <2>1, FlattenLaw
<1>5. ASSUME NEW x \in T PROVE Presentation(Append(text, x)) = Presentation(text) \o Shown(x)
  <2> DEFINE more == Append(text, x)
  <2>1. more \in Seq(T) /\ Len(more) = n + 1 /\ (\A i \in 1 .. n : more[i] = text[i]) /\ more[n + 1] = x
    BY AppendProperties
  <2> HIDE DEF more
  <2>2. /\ ShownPieces(more) \in Seq(Seq(T)) /\ Len(ShownPieces(more)) = n + 1
        /\ \A i \in 1 .. n + 1 : ShownPieces(more)[i] = Shown(more[i])
        /\ Presentation(more) = FlattenSeq(ShownPieces(more))
    BY <2>1, ShownPiecesLaw
  <2>3. Shown(x) \in Seq(T)
    BY ShownLaw
  <2> DEFINE list == Append(pieces, Shown(x))
  <2>4. /\ list \in Seq(Seq(T)) /\ Len(list) = n + 1
        /\ (\A i \in 1 .. n : list[i] = pieces[i]) /\ list[n + 1] = Shown(x)
    <3>1. pieces \in Seq(Seq(T)) /\ Len(pieces) = n
      BY <1>1
    <3> QED
      BY <2>3, <3>1, AppendProperties
  <2> HIDE DEF list
  <2>5. ASSUME NEW i \in 1 .. n + 1 PROVE ShownPieces(more)[i] = list[i]
    <3>1. i \in 1 .. n \/ i = n + 1
      BY <1>2
    <3> QED
      BY <1>1, <2>1, <2>2, <2>4, <3>1
  <2>6. ShownPieces(more) = list
    BY <2>2, <2>4, <2>5, SameSequence
  <2>7. FlattenSeq(list) = FlattenSeq(pieces) \o Shown(x)
    BY <1>1, <2>3, FlattenLaw DEF list
  <2> QED
    BY <1>1, <2>2, <2>6, <2>7 DEF more
<1>6. ASSUME \A c \in Range(text) : c \notin {"l", "s", "z"} PROVE Presentation(text) = text
  <2> DEFINE all == 1 .. n
  <2>1. ASSUME NEW i \in 1 .. n PROVE pieces[i] = AtPieces(text, all)[i]
    <3>1. text[i] \in T /\ text[i] \notin {"l", "s", "z"}
      BY <1>2, <1>6
    <3>2. Shown(text[i]) = <<text[i]>>
      BY <3>1, ShownLaw
    <3>3. AtPieces(text, all)[i] = IF i \in all THEN <<text[i]>> ELSE <<>>
      <4>1. i \in 1 .. Len(text)
        OBVIOUS
      <4> HIDE DEF all
      <4> QED
        BY <4>1, AtPiecesLaw
    <3>4. i \in all
      OBVIOUS
    <3> HIDE DEF all
    <3> QED
      BY <1>1, <3>2, <3>3, <3>4
  <2>2. /\ AtPieces(text, all) \in Seq(Seq(T)) /\ Len(AtPieces(text, all)) = n
        /\ At(text, all) = FlattenSeq(AtPieces(text, all))
    BY AtPiecesLaw
  <2>3. pieces = AtPieces(text, all)
    BY <1>1, <2>1, <2>2, SameSequence
  <2>4. At(text, all) = text
    BY KeptAll
  <2> QED
    BY <1>1, <2>2, <2>3, <2>4
<1> QED
  BY <1>3, <1>4, <1>5, <1>6

\* What UnifyLineEnds makes of the character at i.
LineEndAt(raw, i) ==
  IF raw[i] # "r" THEN <<raw[i]>>
  ELSE IF i < Len(raw) /\ raw[i + 1] = "n" THEN <<>> ELSE <<"n">>

\* The pieces of a text that UnifyLineEnds flattens.
LineEndPieces(raw) == [i \in DOMAIN raw |-> LineEndAt(raw, i)]

\* They hold at most one character, which is no carriage return.
LEMMA LineEndPiecesLaw ==
  ASSUME NEW T, "n" \in T, NEW raw \in Seq(T)
  PROVE  /\ LineEndPieces(raw) \in Seq(Seq(T)) /\ Len(LineEndPieces(raw)) = Len(raw)
         /\ \A i \in 1 .. Len(raw) :
              /\ raw[i] # "r" => LineEndPieces(raw)[i] = <<raw[i]>>
              /\ raw[i] = "r" => LineEndPieces(raw)[i] \in {<<>>, <<"n">>}
         /\ UnifyLineEnds(raw) = FlattenSeq(LineEndPieces(raw))
<1>1. ASSUME NEW i \in 1 .. Len(raw)
      PROVE  /\ raw[i] # "r" => LineEndAt(raw, i) = <<raw[i]>>
             /\ raw[i] = "r" => LineEndAt(raw, i) \in {<<>>, <<"n">>}
  BY DEF LineEndAt
<1>2. ASSUME NEW i \in 1 .. Len(raw) PROVE LineEndAt(raw, i) \in Seq(T)
  <2>1. raw[i] \in T /\ <<raw[i]>> \in Seq(T) /\ <<>> \in Seq(T) /\ <<"n">> \in Seq(T)
    OBVIOUS
  <2> QED
    BY <1>1, <2>1
<1>3. LineEndPieces(raw) \in [1 .. Len(raw) -> Seq(T)] /\ Len(raw) \in Nat
      /\ \A i \in 1 .. Len(raw) : LineEndPieces(raw)[i] = LineEndAt(raw, i)
  BY <1>2 DEF LineEndPieces
<1>4. LineEndPieces(raw) \in Seq(Seq(T)) /\ Len(LineEndPieces(raw)) = Len(raw)
  BY <1>3, PiecesLaw
<1>5. UnifyLineEnds(raw) = FlattenSeq(LineEndPieces(raw))
  BY DEF UnifyLineEnds, LineEndPieces, LineEndAt
<1> QED
  BY <1>1, <1>3, <1>4, <1>5

\* One line end for all, and nothing else touched.
LEMMA UnifyLaw ==
  ASSUME NEW T, "n" \in T, NEW raw \in Seq(T)
  PROVE  /\ UnifyLineEnds(raw) \in Seq(T) /\ "r" \notin Range(UnifyLineEnds(raw))
         /\ "r" \notin Range(raw) => UnifyLineEnds(raw) = raw
<1> DEFINE pieces == LineEndPieces(raw)
           n == Len(raw)
<1>1. /\ pieces \in Seq(Seq(T)) /\ Len(pieces) = n
      /\ \A i \in 1 .. n :
           /\ raw[i] # "r" => pieces[i] = <<raw[i]>>
           /\ raw[i] = "r" => pieces[i] \in {<<>>, <<"n">>}
      /\ UnifyLineEnds(raw) = FlattenSeq(pieces)
  BY LineEndPiecesLaw
<1>2. n \in Nat /\ DOMAIN raw = 1 .. n /\ \A i \in 1 .. n : raw[i] \in T /\ raw[i] \in Range(raw)
  BY DEF Range
<1> HIDE DEF pieces
<1>3. UnifyLineEnds(raw) \in Seq(T)
  BY <1>1, FlattenLaw
<1>4. "r" \notin Range(UnifyLineEnds(raw))
  <2> SUFFICES ASSUME "r" \in Range(UnifyLineEnds(raw)) PROVE FALSE
    OBVIOUS
  <2>1. InOneOf("r", Range(pieces))
    BY <1>1, FlattenRange
  <2>2. PICK p \in Range(pieces) : "r" \in Range(p)
    BY <2>1 DEF InOneOf
  <2>3. PICK i \in 1 .. n : p = pieces[i]
    BY <1>1, <2>2 DEF Range
  <2>4. \A x : Range(<<x>>) = {x}
    BY DEF Range
  <2>5. Range(<<>>) = {}
    BY DEF Range
  <2>6. CASE raw[i] # "r"
    <3>1. p = <<raw[i]>>
      BY <1>1, <2>3, <2>6
    <3>2. Range(p) = {raw[i]}
      BY <2>4, <3>1
    <3> QED
      BY <2>2, <2>6, <3>2
  <2>7. CASE raw[i] = "r"
    <3>1. p = <<>> \/ p = <<"n">>
      BY <1>1, <2>3, <2>7
    <3>2. "n" # "r"
      OBVIOUS
    <3> QED
      BY <2>2, <2>4, <2>5, <3>1, <3>2
  <2> QED
    BY <2>6, <2>7
<1>5. ASSUME "r" \notin Range(raw) PROVE UnifyLineEnds(raw) = raw
  <2> DEFINE all == 1 .. n
  <2>1. ASSUME NEW i \in 1 .. n PROVE pieces[i] = AtPieces(raw, all)[i]
    <3>1. raw[i] # "r"
      BY <1>2, <1>5
    <3>2. AtPieces(raw, all)[i] = IF i \in all THEN <<raw[i]>> ELSE <<>>
      <4>1. i \in 1 .. Len(raw)
        OBVIOUS
      <4> HIDE DEF all
      <4> QED
        BY <4>1, AtPiecesLaw
    <3>3. i \in all
      OBVIOUS
    <3> HIDE DEF all
    <3> QED
      BY <1>1, <3>1, <3>2, <3>3
  <2>2. /\ AtPieces(raw, all) \in Seq(Seq(T)) /\ Len(AtPieces(raw, all)) = n
        /\ At(raw, all) = FlattenSeq(AtPieces(raw, all))
    BY AtPiecesLaw
  <2>3. pieces = AtPieces(raw, all)
    BY <1>1, <2>1, <2>2, SameSequence
  <2>4. At(raw, all) = raw
    BY KeptAll
  <2> QED
    BY <1>1, <2>2, <2>3, <2>4
<1> QED
  BY <1>3, <1>4, <1>5

\* A line end prints as itself, which is a blank.
LEMMA BreaksShown ==
  ASSUME NEW T, {"f", "i", Space} \subseteq T, NEW P, P \cap Blank = {}, NEW c \in T, c \in {"n", "r"}
  PROVE  Only(Shown(c), P) = <<>>
<1>1. Shown(c) = <<c>>
  <2>1. c \notin {"l", "s", "z"}
    OBVIOUS
  <2> QED
    BY <2>1, ShownLaw
<1>2. c \notin P
  BY DEF Blank
<1> DEFINE s == <<c>>
<1>3. s \in Seq(T) /\ \A i \in 1 .. Len(s) : s[i] \notin P
  BY <1>2
<1> HIDE DEF s
<1>4. Only(s, P) = <<>>
  BY <1>3, OnlyNothing
<1> QED
  BY <1>1, <1>4 DEF s

\* What prints of a text does not depend on how its lines end.
LEMMA UnifyPrints ==
  ASSUME NEW T, {"f", "i", Space, "n"} \subseteq T, NEW raw \in Seq(T), NEW P, P \cap Blank = {}
  PROVE  Only(Presentation(UnifyLineEnds(raw)), P) = Only(Presentation(raw), P)
<1> DEFINE pieces == LineEndPieces(raw)
           shown == ShownPieces(raw)
           n == Len(raw)
           U(k) == FlattenSeq(SubSeq(pieces, 1, k))
           R(k) == FlattenSeq(SubSeq(shown, 1, k))
           Same1(k) == Only(Presentation(U(k)), P) = Only(R(k), P)
           A == {k \in 0 .. n : Same1(k)}
<1>0. {"f", "i", Space} \subseteq T /\ "n" \in T
  OBVIOUS
<1>1. /\ pieces \in Seq(Seq(T)) /\ Len(pieces) = n
      /\ \A i \in 1 .. n :
           /\ raw[i] # "r" => pieces[i] = <<raw[i]>>
           /\ raw[i] = "r" => pieces[i] \in {<<>>, <<"n">>}
      /\ UnifyLineEnds(raw) = FlattenSeq(pieces)
  BY <1>0, LineEndPiecesLaw
<1>2. /\ shown \in Seq(Seq(T)) /\ Len(shown) = n
      /\ \A i \in 1 .. n : shown[i] = Shown(raw[i])
      /\ Presentation(raw) = FlattenSeq(shown)
  BY <1>0, ShownPiecesLaw
<1>3. n \in Nat /\ \A i \in 1 .. n : raw[i] \in T
  OBVIOUS
<1> HIDE DEF pieces, shown, n
<1>4. /\ U(0) = <<>> /\ U(n) = FlattenSeq(pieces)
      /\ \A k \in 0 .. n : U(k) \in Seq(T)
      /\ \A k \in 0 .. n - 1 : U(k + 1) = U(k) \o pieces[k + 1]
  BY <1>1, FlattenPrefix
<1>5. /\ R(0) = <<>> /\ R(n) = FlattenSeq(shown)
      /\ \A k \in 0 .. n : R(k) \in Seq(T)
      /\ \A k \in 0 .. n - 1 : R(k + 1) = R(k) \o shown[k + 1]
  BY <1>2, FlattenPrefix
<1> HIDE DEF U, R
<1>6. 0 \in A
  <2>1. <<>> \in Seq(T)
    OBVIOUS
  <2>2. Presentation(<<>>) = <<>>
    BY <1>0, <2>1, PresentationLaw
  <2>3. Same1(0)
    BY <1>4, <1>5, <2>2
  <2> HIDE DEF Same1
  <2> QED
    BY <1>3, <2>3
<1>7. ASSUME NEW k \in 0 .. n - 1, k \in A PROVE k + 1 \in A
  <2> DEFINE c == raw[k + 1]
             u == U(k)
             r == R(k)
  <2>1. k \in 0 .. n /\ k + 1 \in 1 .. n /\ k + 1 \in 0 .. n
    BY <1>3
  <2>2. c \in T /\ u \in Seq(T) /\ r \in Seq(T) /\ Presentation(u) \in Seq(T) /\ Shown(c) \in Seq(T)
    <3>1. c \in T /\ u \in Seq(T) /\ r \in Seq(T)
      BY <1>3, <1>4, <1>5, <2>1
    <3> HIDE DEF c, u
    <3> QED
      BY <1>0, <3>1, ShownLaw, ShownPiecesLaw
  <2>3. Only(Presentation(u), P) = Only(r, P)
    BY <1>7
  <2>4. U(k + 1) = u \o pieces[k + 1] /\ R(k + 1) = r \o Shown(c)
    BY <1>2, <1>4, <1>5, <2>1
  <2>5. (c # "r" => pieces[k + 1] = <<c>>) /\ (c = "r" => pieces[k + 1] \in {<<>>, <<"n">>})
    BY <1>1, <2>1
  <2> HIDE DEF c, u, r, A
  <2>6. Only(R(k + 1), P) = Only(r, P) \o Only(Shown(c), P)
    <3>1. Only(r \o Shown(c), P) = Only(r, P) \o Only(Shown(c), P)
      BY <2>2, OnlyConcat
    <3> QED
      BY <2>4, <3>1
  <2>7. ASSUME NEW x \in T, U(k + 1) = u \o <<x>>
        PROVE  Only(Presentation(U(k + 1)), P) = Only(Presentation(u), P) \o Only(Shown(x), P)
    <3>1. U(k + 1) = Append(u, x)
      BY <2>2, <2>7, AppendIsConcat
    <3>2. Presentation(Append(u, x)) = Presentation(u) \o Shown(x)
      BY <1>0, <2>2, PresentationLaw
    <3>3. Shown(x) \in Seq(T)
      BY <1>0, ShownLaw
    <3>4. Only(Presentation(u) \o Shown(x), P) = Only(Presentation(u), P) \o Only(Shown(x), P)
      BY <2>2, <3>3, OnlyConcat
    <3> QED
      BY <3>1, <3>2, <3>4
  <2>8. Same1(k + 1)
    <3>1. CASE c # "r"
      <4>1. U(k + 1) = u \o <<c>>
        BY <2>4, <2>5, <3>1
      <4> QED
        BY <2>2, <2>3, <2>6, <2>7, <4>1
    <3>2. CASE c = "r" /\ pieces[k + 1] = <<"n">>
      <4>1. U(k + 1) = u \o <<"n">>
        BY <2>4, <3>2
      <4>2. "n" \in T /\ "n" \in {"n", "r"} /\ c \in {"n", "r"}
        BY <1>0, <3>2
      <4>3. Only(Shown("n"), P) = <<>> /\ Only(Shown(c), P) = <<>>
        BY <1>0, <2>2, <4>2, BreaksShown
      <4>4. Only(Presentation(U(k + 1)), P) = Only(Presentation(u), P) \o Only(Shown("n"), P)
        BY <2>7, <4>1, <4>2
      <4> QED
        BY <2>3, <2>6, <4>3, <4>4
    <3>3. CASE c = "r" /\ pieces[k + 1] = <<>>
      <4>1. U(k + 1) = u
        BY <2>2, <2>4, <3>3, ConcatEmptySeq
      <4>2. c \in {"n", "r"}
        BY <3>3
      <4>3. Only(Shown(c), P) = <<>>
        BY <1>0, <2>2, <4>2, BreaksShown
      <4>4. Only(r, P) \in Seq(T)
        BY <2>2, OnlyLaw
      <4>5. Only(R(k + 1), P) = Only(r, P)
        BY <2>6, <4>3, <4>4, ConcatEmptySeq
      <4> QED
        BY <2>3, <4>1, <4>5
    <3> QED
      BY <2>5, <3>1, <3>2, <3>3
  <2> HIDE DEF Same1
  <2> QED
    BY <2>1, <2>8 DEF A
<1> HIDE DEF Same1
<1>8. Same1(n)
  <2>1. A = {k \in 0 .. n : Same1(k)}
    OBVIOUS
  <2> HIDE DEF A
  <2>2. \A k \in 0 .. n : k \in A
    BY <1>3, <1>6, <1>7, UpTo
  <2>3. n \in 0 .. n
    BY <1>3
  <2> QED
    BY <2>1, <2>2, <2>3
<1> QED
  BY <1>1, <1>2, <1>4, <1>5, <1>8 DEF Same1

\* A text that normalising leaves as it is.
Normal(t) == Plain(t) /\ NoBlankEnds(t) /\ FewBreaks(t) /\ SolidEnds(t)

\* Normalising a text makes it normal and loses nothing that prints.
LEMMA NormaliseLaw ==
  ASSUME NEW T, {"f", "i", Space, "n"} \subseteq T, NEW raw \in Seq(T), NEW P, P \cap Blank = {}
  PROVE  /\ Normalise(raw) \in Seq(T) /\ Normal(Normalise(raw))
         /\ Only(Normalise(raw), P) = Only(Presentation(raw), P)
<1> DEFINE u == UnifyLineEnds(raw)
           p == Presentation(u)
           t == TrimLines(p)
           c == CollapseBreaks(t)
           s == Strip(c)
<1>0. {"f", "i", Space} \subseteq T /\ "n" \in T
  OBVIOUS
<1>1. u \in Seq(T) /\ "r" \notin Range(u)
  BY <1>0, UnifyLaw
<1>2. Only(p, P) = Only(Presentation(raw), P)
  BY UnifyPrints
<1> HIDE DEF u
<1>3. p \in Seq(T) /\ \A e \in Range(p) : e \notin {"l", "s", "z"} /\ (e = "r" => "r" \in Range(u))
  BY <1>0, <1>1, ShownPiecesLaw, PresentationLaw
<1> HIDE DEF p
<1>4. t \in Seq(T) /\ Range(t) \subseteq Range(p) /\ NoBlankEnds(t) /\ Only(t, P) = Only(p, P)
  BY <1>3, TrimLaw
<1> HIDE DEF t
<1>5. c \in Seq(T) /\ Range(c) \subseteq Range(t) /\ FewBreaks(c) /\ NoBlankEnds(c) /\ Only(c, P) = Only(t, P)
  BY <1>4, CollapseLaw
<1> HIDE DEF c
<1>6. /\ s \in Seq(T) /\ Range(s) \subseteq Range(c) /\ FewBreaks(s) /\ NoBlankEnds(s) /\ SolidEnds(s)
      /\ Only(s, P) = Only(c, P)
  BY <1>5, StripLaw
<1> HIDE DEF s
<1>7. Plain(s)
  BY <1>1, <1>3, <1>4, <1>5, <1>6 DEF Plain
<1>8. Normalise(raw) = s
  BY DEF Normalise, s, c, t, p, u
<1> QED
  BY <1>2, <1>4, <1>5, <1>6, <1>7, <1>8 DEF Normal

\* Normalising a normal text changes nothing.
LEMMA NormalIsFixed ==
  ASSUME NEW T, {"f", "i", Space, "n"} \subseteq T, NEW t \in Seq(T), Normal(t)
  PROVE  Normalise(t) = t
<1> DEFINE P == {}
<1>0. {"f", "i", Space} \subseteq T /\ "n" \in T /\ P \cap Blank = {}
  OBVIOUS
<1> HIDE DEF P
<1>1. UnifyLineEnds(t) = t
  BY <1>0, UnifyLaw DEF Normal, Plain
<1>2. Presentation(t) = t
  BY <1>0, PresentationLaw DEF Normal, Plain
<1>3. TrimLines(t) = t
  BY <1>0, TrimLaw DEF Normal
<1>4. CollapseBreaks(t) = t
  BY <1>0, CollapseLaw DEF Normal
<1>5. Strip(t) = t
  BY <1>0, StripLaw DEF Normal
<1> QED
  BY <1>1, <1>2, <1>3, <1>4, <1>5 DEF Normalise

-----------------------------------------------------------------------------
(* References.                                                              *)

\* A text whose first and last position stay.
LEMMA KeptEnds ==
  ASSUME NEW T, NEW text \in Seq(T), NEW S, text # <<>>, 1 \in S, Len(text) \in S
  PROVE  /\ At(text, S) # <<>> /\ At(text, S)[1] = text[1]
         /\ At(text, S)[Len(At(text, S))] = text[Len(text)]
<1> DEFINE u == At(text, S)
           pos == Places(text, S)
           n == Len(text)
<1>1. /\ u \in Seq(T) /\ Len(u) = Len(pos) /\ pos \in Seq(Nat) /\ Increasing(pos)
      /\ Range(pos) = S \cap (1 .. n) /\ \A i \in 1 .. Len(u) : u[i] = text[pos[i]]
  BY KeptLaw
<1>2. n \in Nat /\ 1 \in 1 .. n /\ n \in 1 .. n
  OBVIOUS
<1> HIDE DEF u, pos, n
<1>3. PICK j \in 1 .. Len(pos) : pos[j] = 1
  BY <1>1, <1>2 DEF Range, n
<1>4. PICK k \in 1 .. Len(pos) : pos[k] = n
  BY <1>1, <1>2 DEF Range, n
<1>5. Len(pos) \in Nat /\ \A i \in 1 .. Len(pos) : pos[i] \in 1 .. n
  <2>1. Len(pos) \in Nat /\ DOMAIN pos = 1 .. Len(pos)
    BY <1>1
  <2>2. ASSUME NEW i \in 1 .. Len(pos) PROVE pos[i] \in 1 .. n
    <3>1. pos[i] \in Range(pos)
      BY <2>1 DEF Range
    <3> QED
      BY <1>1, <3>1
  <2> QED
    BY <2>1, <2>2
<1>6. j = 1
  <2> SUFFICES ASSUME j # 1 PROVE FALSE
    OBVIOUS
  <2>1. 1 \in 1 .. Len(pos) /\ 1 < j
    BY <1>5
  <2>2. pos[1] < pos[j]
    BY <1>1, <2>1 DEF Increasing
  <2> QED
    BY <1>2, <1>3, <1>5, <2>1, <2>2
<1>7. k = Len(pos)
  <2> SUFFICES ASSUME k # Len(pos) PROVE FALSE
    OBVIOUS
  <2>1. Len(pos) \in 1 .. Len(pos) /\ k < Len(pos)
    BY <1>5
  <2>2. pos[k] < pos[Len(pos)]
    BY <1>1, <2>1 DEF Increasing
  <2> QED
    BY <1>2, <1>4, <1>5, <2>1, <2>2
<1>8. 1 \in 1 .. Len(u) /\ Len(u) \in 1 .. Len(u) /\ u # <<>>
  BY <1>1, <1>3, <1>5
<1>9. u[1] = text[1] /\ u[Len(u)] = text[n]
  BY <1>1, <1>3, <1>4, <1>6, <1>7, <1>8
<1> QED
  BY <1>8, <1>9 DEF u, n

\* A text that begins and ends with none of the marks, between marks.
LEMMA TrimBetween ==
  ASSUME NEW T, NEW u \in Seq(T), NEW m \in Seq(T), NEW w \in Seq(T), NEW marks, m # <<>>,
         m[1] \notin marks, m[Len(m)] \notin marks,
         \A i \in 1 .. Len(u) : u[i] \in marks, \A i \in 1 .. Len(w) : w[i] \in marks
  PROVE  Trim((u \o m) \o w, marks) = m
<1> DEFINE um == u \o m
           all == um \o w
           a == Len(u)
           b == Len(m)
           c == Len(w)
           solid == {i \in DOMAIN all : all[i] \notin marks}
<1>1. /\ um \in Seq(T) /\ Len(um) = a + b
      /\ (\A i \in 1 .. a : um[i] = u[i]) /\ \A i \in 1 .. b : um[a + i] = m[i]
  BY JoinedLaw
<1> HIDE DEF um
<1>2. /\ all \in Seq(T) /\ Len(all) = Len(um) + c
      /\ (\A i \in 1 .. Len(um) : all[i] = um[i]) /\ \A i \in 1 .. c : all[Len(um) + i] = w[i]
  <2>1. um \in Seq(T)
    BY <1>1
  <2> QED
    BY <2>1, JoinedLaw
<1> HIDE DEF all
<1>3. a \in Nat /\ b \in Nat /\ c \in Nat /\ b >= 1 /\ 1 \in 1 .. b /\ b \in 1 .. b
  OBVIOUS
<1>4. m[1] \notin marks /\ m[b] \notin marks /\ (\A i \in 1 .. a : u[i] \in marks) /\ \A i \in 1 .. c : w[i] \in marks
  OBVIOUS
<1> HIDE DEF a, b, c
<1>5. Len(all) = a + b + c /\ DOMAIN all = 1 .. a + b + c
  BY <1>1, <1>2, <1>3
<1>6. all[a + 1] \notin marks /\ all[a + b] \notin marks
  <2>1. a + 1 \in 1 .. Len(um) /\ a + b \in 1 .. Len(um)
    BY <1>1, <1>3
  <2>2. all[a + 1] = m[1] /\ all[a + b] = m[b]
    BY <1>1, <1>2, <1>3, <2>1
  <2> QED
    BY <1>4, <2>2
<1>7. ASSUME NEW i \in 1 .. a PROVE all[i] \in marks
  <2>1. i \in 1 .. Len(um)
    BY <1>1, <1>3
  <2> QED
    BY <1>1, <1>2, <1>4, <2>1
<1>8. ASSUME NEW i \in a + b + 1 .. a + b + c PROVE all[i] \in marks
  <2> DEFINE k == i - (a + b)
  <2>1. k \in 1 .. c /\ Len(um) + k = i
    BY <1>1, <1>3
  <2> HIDE DEF k
  <2> QED
    BY <1>2, <1>4, <2>1
<1>9. /\ solid \subseteq a + 1 .. a + b /\ a + 1 \in solid /\ a + b \in solid
      /\ solid \in SUBSET Nat /\ solid \in SUBSET (0 .. a + b)
  <2>1. ASSUME NEW i \in solid PROVE i \in a + 1 .. a + b
    <3>1. i \in 1 .. a + b + c /\ all[i] \notin marks
      BY <1>5
    <3>2. ~(i \in 1 .. a) /\ ~(i \in a + b + 1 .. a + b + c)
      BY <1>7, <1>8, <3>1
    <3> HIDE DEF solid
    <3> QED
      BY <1>3, <3>1, <3>2
  <2>2. a + 1 \in 1 .. a + b + c /\ a + b \in 1 .. a + b + c
    BY <1>3
  <2>3. a + 1 \in solid /\ a + b \in solid
    BY <1>5, <1>6, <2>2
  <2> HIDE DEF solid
  <2>4. solid \subseteq a + 1 .. a + b
    BY <2>1
  <2>5. a + 1 .. a + b \subseteq Nat /\ a + 1 .. a + b \subseteq 0 .. a + b
    BY <1>3
  <2> QED
    BY <2>3, <2>4, <2>5
<1>10. Trim(all, marks) = IF solid = {} THEN <<>> ELSE SubSeq(all, Min(solid), Max(solid))
  BY DEF Trim
<1> HIDE DEF solid
<1>11. solid # {}
  BY <1>9
<1>12. Min(solid) = a + 1
  <2>1. \E x \in solid : \A y \in solid : x <= y
    BY <1>9, <1>11, LeastExists
  <2>2. Min(solid) \in solid /\ \A y \in solid : Min(solid) <= y
    BY <2>1 DEF Min
  <2>3. Min(solid) <= a + 1 /\ Min(solid) \in a + 1 .. a + b
    BY <1>9, <2>2
  <2> QED
    BY <1>3, <2>3
<1>13. Max(solid) = a + b
  <2>1. Max(solid) \in solid /\ \A y \in solid : Max(solid) >= y
    <3>1. a + b \in Nat
      BY <1>3
    <3> QED
      BY <1>9, <1>11, <3>1, GreatestExists
  <2>2. Max(solid) >= a + b /\ Max(solid) \in a + 1 .. a + b
    BY <1>9, <2>1
  <2> QED
    BY <1>3, <2>2
<1>14. SubSeq(all, a + 1, a + b) = m
  BY MiddleLaw DEF all, um, a, b
<1> QED
  BY <1>10, <1>11, <1>12, <1>13, <1>14 DEF all, um

\* A reference key that nothing more can be done to.
Unhyphened(t) == \A i \in 1 .. Len(t) : t[i] # Dash
NoDoubleSlash(t) == \A i \in 1 .. Len(t) - 1 : ~(t[i] = Slash /\ t[i + 1] = Slash)

\* Unified leaves no hyphen, and a text without one as it is.
LEMMA UnifiedLaw ==
  ASSUME NEW T, Slash \in T, NEW text \in Seq(T)
  PROVE  /\ Unified(text) \in Seq(T) /\ Len(Unified(text)) = Len(text) /\ Unhyphened(Unified(text))
         /\ \A i \in 1 .. Len(text) : Unified(text)[i] = IF text[i] = Dash THEN Slash ELSE text[i]
         /\ Unhyphened(text) => Unified(text) = text
<1>0. Slash # Dash
  BY DEF Slash, Dash
<1>1. Unified(text) \in Seq(T) /\ Len(Unified(text)) = Len(text)
      /\ \A i \in 1 .. Len(text) : Unified(text)[i] = IF text[i] = Dash THEN Slash ELSE text[i]
  BY DEF Unified
<1>2. Unhyphened(Unified(text))
  BY <1>0, <1>1 DEF Unhyphened
<1>3. Unhyphened(text) => Unified(text) = text
  <2> SUFFICES ASSUME Unhyphened(text) PROVE Unified(text) = text
    OBVIOUS
  <2>1. \A i \in 1 .. Len(text) : Unified(text)[i] = text[i]
    BY <1>1 DEF Unhyphened
  <2> QED
    BY <1>1, <2>1, SameSequence
<1> QED
  BY <1>1, <1>2, <1>3

\* Where Single leaves a text as it is.
Singles(text) == {i \in DOMAIN text : ~(text[i] = Slash /\ i > 1 /\ text[i - 1] = Slash)}

\* Single loses slashes after a slash only, and leaves no two in a row.
LEMMA SingleLaw ==
  ASSUME NEW T, NEW text \in Seq(T)
  PROVE  /\ Single(text) \in Seq(T) /\ Range(Single(text)) \subseteq Range(text)
         /\ NoDoubleSlash(Single(text))
         /\ NoDoubleSlash(text) => Single(text) = text
         /\ text # <<>> /\ text[Len(text)] # Slash =>
              /\ Single(text) # <<>> /\ Single(text)[1] = text[1]
              /\ Single(text)[Len(Single(text))] = text[Len(text)]
<1> DEFINE S == Singles(text)
           n == Len(text)
           u == At(text, S)
<1>1. n \in Nat /\ DOMAIN text = 1 .. n
  OBVIOUS
<1>2. Single(text) = u
  <2>1. [i \in DOMAIN text |-> IF text[i] = Slash /\ i > 1 /\ text[i - 1] = Slash THEN <<>> ELSE <<text[i]>>]
          = [i \in DOMAIN text |-> IF i \in S THEN <<text[i]>> ELSE <<>>]
    BY DEF Singles
  <2> QED
    BY <2>1 DEF Single, At
<1>3. \A m \in 1 .. n : m \notin S => text[m] = Slash /\ m > 1 /\ text[m - 1] = Slash
  BY <1>1 DEF Singles
<1>4. \A m \in S : m \in 1 .. n /\ ~(text[m] = Slash /\ m > 1 /\ text[m - 1] = Slash)
  BY <1>1 DEF Singles
<1>5. text # <<>> /\ text[n] # Slash => 1 \in S /\ n \in S
  BY <1>1 DEF Singles
<1> HIDE DEF S
<1>6. u \in Seq(T) /\ Range(u) \subseteq Range(text)
  BY KeptLaw, KeptRange
<1>7. NoDoubleSlash(u)
  <2> SUFFICES ASSUME NEW i \in 1 .. Len(u) - 1, u[i] = Slash, u[i + 1] = Slash PROVE FALSE
    BY DEF NoDoubleSlash
  <2>1. PICK p \in 1 .. n, q \in 1 .. n : Neighbours(text, S, i, p, q)
    BY KeptNeighbours
  <2>2. /\ p < q /\ p \in S /\ q \in S /\ text[p] = Slash /\ text[q] = Slash
        /\ \A m \in p + 1 .. q - 1 : m \notin S
    BY <2>1 DEF Neighbours
  <2>3. q > 1 /\ q - 1 \in 1 .. n /\ (q - 1 = p \/ q - 1 \in p + 1 .. q - 1)
    BY <1>1, <2>2
  <2>4. text[q - 1] = Slash
    BY <1>3, <2>2, <2>3
  <2> QED
    BY <1>4, <2>2, <2>3, <2>4
<1>8. ASSUME NoDoubleSlash(text) PROVE u = text
  <2>1. ASSUME NEW m \in 1 .. n, m \notin S PROVE FALSE
    <3>1. text[m] = Slash /\ m > 1 /\ text[m - 1] = Slash
      BY <1>3, <2>1
    <3>2. m - 1 \in 1 .. n - 1 /\ (m - 1) + 1 = m
      BY <1>1, <3>1
    <3> QED
      BY <1>8, <3>1, <3>2 DEF NoDoubleSlash
  <2>2. 1 .. Len(text) \subseteq S
    BY <2>1
  <2> QED
    BY <2>2, KeptAll
<1>9. text # <<>> /\ text[n] # Slash => u # <<>> /\ u[1] = text[1] /\ u[Len(u)] = text[n]
  BY <1>5, KeptEnds
<1> QED
  BY <1>2, <1>6, <1>7, <1>8, <1>9

\* A text with none of the marks at its ends.
CleanEnds(t, marks) == t # <<>> /\ t[1] \notin marks /\ t[Len(t)] \notin marks

\* What a reference may not begin or end with.
Around == Punctuation \cup {Slash, Dash}

\* Trim leaves a text with clean ends as it is.
LEMMA TrimClean ==
  ASSUME NEW T, NEW text \in Seq(T), NEW marks, CleanEnds(text, marks)
  PROVE  Trim(text, marks) = text
<1> DEFINE P == {}
<1>1. P \cap marks = {}
  OBVIOUS
<1> HIDE DEF P
<1>2. (text # <<>> => text[1] \notin marks /\ text[Len(text)] \notin marks) => Trim(text, marks) = text
  BY <1>1, TrimEndsLaw
<1> QED
  BY <1>2 DEF CleanEnds

\* A key of a reference with clean ends is its text with single slashes.
LEMMA KeyLaw ==
  ASSUME NEW T, Slash \in T, NEW raw \in Seq(T), CleanEnds(raw, Around)
  PROVE  /\ NormaliseReference(raw) = Single(Unified(raw))
         /\ Single(Unified(raw)) \in Seq(T) /\ CleanEnds(Single(Unified(raw)), Around)
<1> DEFINE u == Unified(raw)
           v == Single(u)
           n == Len(raw)
           mark == {Slash}
<1>1. Trim(raw, Punctuation) = raw
  <2>1. CleanEnds(raw, Punctuation)
    BY DEF CleanEnds, Around
  <2> QED
    BY <2>1, TrimClean
<1>2. raw # <<>> /\ n \in Nat /\ 1 \in 1 .. n /\ n \in 1 .. n /\ raw[1] \notin Around /\ raw[n] \notin Around
  BY DEF CleanEnds
<1>3. /\ u \in Seq(T) /\ Len(u) = n
      /\ \A i \in 1 .. n : u[i] = IF raw[i] = Dash THEN Slash ELSE raw[i]
  BY UnifiedLaw
<1> HIDE DEF u, n
<1>4. u # <<>> /\ u[1] \notin Around /\ u[Len(u)] \notin Around /\ u[Len(u)] # Slash
  <2>1. raw[1] # Dash /\ raw[n] # Dash
    BY <1>2 DEF Around
  <2>2. u[1] = raw[1] /\ u[n] = raw[n]
    BY <1>2, <1>3, <2>1
  <2>3. u # <<>>
    BY <1>2, <1>3
  <2>4. Slash \in Around
    BY DEF Around
  <2> QED
    BY <1>2, <1>3, <2>2, <2>3, <2>4
<1>5. v \in Seq(T) /\ v # <<>> /\ v[1] = u[1] /\ v[Len(v)] = u[Len(u)]
  BY <1>3, <1>4, SingleLaw
<1> HIDE DEF v
<1>6. CleanEnds(v, Around)
  BY <1>4, <1>5 DEF CleanEnds
<1>7. Trim(v, mark) = v
  <2>1. CleanEnds(v, mark)
    BY <1>6 DEF CleanEnds, Around
  <2> HIDE DEF mark
  <2> QED
    BY <1>5, <2>1, TrimClean
<1>8. NormaliseReference(raw) = Trim(Single(Unified(raw)), {Slash})
  BY <1>1 DEF NormaliseReference
<1> QED
  BY <1>5, <1>6, <1>7, <1>8 DEF v, u

\* A key is its own key.
LEMMA KeyIsFixed ==
  ASSUME NEW T, Slash \in T, NEW raw \in Seq(T), CleanEnds(raw, Around)
  PROVE  NormaliseReference(NormaliseReference(raw)) = NormaliseReference(raw)
<1> DEFINE u == Unified(raw)
           v == Single(u)
<1>1. NormaliseReference(raw) = v /\ v \in Seq(T) /\ CleanEnds(v, Around)
  BY KeyLaw
<1>2. u \in Seq(T) /\ Unhyphened(u) /\ Len(u) \in Nat
  BY UnifiedLaw
<1> HIDE DEF u
<1>3. Range(v) \subseteq Range(u) /\ NoDoubleSlash(v)
  BY <1>2, SingleLaw
<1> HIDE DEF v
<1>4. Unhyphened(v)
  <2>1. \A c \in Range(u) : c # Dash
    BY <1>2 DEF Range, Unhyphened
  <2>2. \A i \in 1 .. Len(v) : v[i] \in Range(v)
    BY <1>1 DEF Range
  <2> QED
    BY <1>3, <2>1, <2>2 DEF Unhyphened
<1>5. Unified(v) = v
  BY <1>1, <1>4, UnifiedLaw
<1>6. Single(v) = v
  BY <1>1, <1>3, SingleLaw
<1>7. NormaliseReference(v) = Single(Unified(v))
  BY <1>1, KeyLaw
<1> QED
  BY <1>1, <1>5, <1>6, <1>7

\* The text with hyphens for its slashes.
Hyphened(raw) == [i \in DOMAIN raw |-> IF raw[i] = Slash THEN Dash ELSE raw[i]]

\* Hyphens and the punctuation around a reference make no other key of it.
LEMMA KeyOfVariant ==
  ASSUME NEW T, {Slash, Dash, Stop, Comma} \subseteq T, NEW raw \in Seq(T), CleanEnds(raw, Around)
  PROVE  NormaliseReference((<<Stop>> \o Hyphened(raw)) \o <<Comma, Stop>>) = NormaliseReference(raw)
<1> DEFINE h == Hyphened(raw)
           n == Len(raw)
           before == <<Stop>>
           after == <<Comma, Stop>>
           all == (before \o h) \o after
<1>0. Slash \in T /\ Dash \in T /\ Stop \in T /\ Comma \in T
  OBVIOUS
<1>1. raw # <<>> /\ n \in Nat /\ 1 \in 1 .. n /\ n \in 1 .. n /\ raw[1] \notin Around /\ raw[n] \notin Around
  BY DEF CleanEnds
<1>2. h \in Seq(T) /\ Len(h) = n /\ \A i \in 1 .. n : h[i] = IF raw[i] = Slash THEN Dash ELSE raw[i]
  BY <1>0 DEF Hyphened
<1> HIDE DEF h, n
<1>3. CleanEnds(h, Around)
  <2>1. raw[1] # Slash /\ raw[n] # Slash
    BY <1>1 DEF Around
  <2>2. h[1] = raw[1] /\ h[n] = raw[n] /\ h # <<>>
    BY <1>1, <1>2, <2>1
  <2> QED
    BY <1>1, <1>2, <2>2 DEF CleanEnds
<1>4. Trim(all, Punctuation) = h
  <2>1. Stop \in Punctuation /\ Comma \in Punctuation
    BY DEF Punctuation
  <2>2. before \in Seq(T) /\ after \in Seq(T)
    BY <1>0
  <2>3. (\A i \in 1 .. Len(before) : before[i] \in Punctuation) /\ \A i \in 1 .. Len(after) : after[i] \in Punctuation
    BY <2>1
  <2>4. h # <<>> /\ h[1] \notin Punctuation /\ h[Len(h)] \notin Punctuation
    BY <1>3 DEF CleanEnds, Around
  <2> HIDE DEF before, after
  <2>5. Trim((before \o h) \o after, Punctuation) = h
    BY <1>2, <2>2, <2>3, <2>4, TrimBetween
  <2> QED
    BY <2>5
<1> HIDE DEF all
<1>5. Unified(h) = Unified(raw)
  <2>1. Unified(h) \in Seq(T) /\ Len(Unified(h)) = n
        /\ \A i \in 1 .. n : Unified(h)[i] = IF h[i] = Dash THEN Slash ELSE h[i]
    BY <1>0, <1>2, UnifiedLaw
  <2>2. Unified(raw) \in Seq(T) /\ Len(Unified(raw)) = n
        /\ \A i \in 1 .. n : Unified(raw)[i] = IF raw[i] = Dash THEN Slash ELSE raw[i]
    BY <1>0, UnifiedLaw DEF n
  <2>3. \A i \in 1 .. n : Unified(h)[i] = Unified(raw)[i]
    BY <1>2, <2>1, <2>2
  <2> QED
    BY <2>1, <2>2, <2>3, SameSequence
<1>6. Trim(raw, Punctuation) = raw
  <2>1. CleanEnds(raw, Punctuation)
    BY DEF CleanEnds, Around
  <2> QED
    BY <2>1, TrimClean
<1>7. NormaliseReference(all) = NormaliseReference(raw)
  BY <1>4, <1>5, <1>6 DEF NormaliseReference
<1> QED
  BY <1>7 DEF all, h

-----------------------------------------------------------------------------
(* Obligations that are found by rule.                                      *)

\* What ObligationsByRule makes of the sentence that starts at s.
Body(text, s) == IF text[s] \in Enumerators THEN s + 1 ELSE s
SolidOf(text, s) == {i \in Body(text, s) .. SentenceEnd(text, s) : text[i] # Semicolon}
LastOf(text, s) == IF SolidOf(text, s) = {} THEN 0 ELSE Max(SolidOf(text, s))
ModalsOf(text, s) == {i \in Body(text, s) .. SentenceEnd(text, s) : text[i] \in Modal}
ActionOf(text, s) == {i \in Min(ModalsOf(text, s)) + 1 .. LastOf(text, s) : text[i] \notin {Stop, Semicolon}}
MatchesAt(text, s) ==
  /\ ModalsOf(text, s) # {}
  /\ \A i \in Body(text, s) .. SentenceEnd(text, s) : text[i] \notin Excluded
  /\ Min(ModalsOf(text, s)) - Body(text, s) \in 1 .. MaxActorWords
  /\ Cardinality(ActionOf(text, s)) >= MinActionWords
FoundAt(text, s) ==
  [start |-> Body(text, s) - 1, end |-> LastOf(text, s), modality |-> text[Min(ModalsOf(text, s))]]

\* The obligations found by rule, sentence by sentence.
LEMMA ByRule ==
  ASSUME NEW text
  PROVE  ObligationsByRule(text)
           = {FoundAt(text, s) : s \in {x \in SentenceStarts(text) : text # <<>> /\ MatchesAt(text, x)}}
BY Zenon DEF ObligationsByRule, FoundAt, MatchesAt, ActionOf, ModalsOf, LastOf, SolidOf, Body

\* The least of a set of natural numbers.
LEMMA MinLaw ==
  ASSUME NEW S \in SUBSET Nat, S # {}
  PROVE  Min(S) \in S /\ \A y \in S : Min(S) <= y
<1>1. \E x \in S : \A y \in S : x <= y
  BY LeastExists
<1> QED
  BY <1>1 DEF Min

\* A sentence ends before the next one starts.
LEMMA SentenceLaw ==
  ASSUME NEW T, NEW text \in Seq(T), text # <<>>, NEW s \in SentenceStarts(text)
  PROVE  /\ s \in 1 .. Len(text) /\ SentenceEnd(text, s) \in s .. Len(text)
         /\ \A x \in SentenceStarts(text) : x > s => SentenceEnd(text, s) < x
<1> DEFINE n == Len(text)
           starts == SentenceStarts(text)
           later == {i \in starts : i > s}
<1>1. n \in Nat /\ n >= 1
  OBVIOUS
<1>2. starts \subseteq 1 .. n
  BY <1>1 DEF SentenceStarts
<1>3. s \in 1 .. n /\ later \in SUBSET Nat /\ later \subseteq 1 .. n /\ \A x \in later : x > s
  BY <1>2
<1>4. SentenceEnd(text, s) = IF later = {} THEN n ELSE Min(later) - 1
  BY DEF SentenceEnd
<1>5. CASE later = {}
  <2>1. SentenceEnd(text, s) = n
    BY <1>4, <1>5
  <2>2. \A x \in starts : ~(x > s)
    BY <1>5
  <2> QED
    BY <1>1, <1>3, <2>1, <2>2
<1>6. CASE later # {}
  <2>1. \A x \in starts : x > s => x \in later
    OBVIOUS
  <2> DEFINE m == Min(later)
  <2>2. SentenceEnd(text, s) = m - 1
    BY <1>4, <1>6
  <2> HIDE DEF later
  <2>3. m \in later /\ \A y \in later : m <= y
    BY <1>3, <1>6, MinLaw
  <2> HIDE DEF m, starts, n
  <2>4. m \in 1 .. n /\ m > s
    BY <1>3, <2>3
  <2>5. SentenceEnd(text, s) \in s .. n
    BY <1>1, <1>3, <2>2, <2>4
  <2>6. ASSUME NEW x \in starts, x > s PROVE SentenceEnd(text, s) < x
    <3>1. x \in later /\ x \in 1 .. n
      BY <1>2, <2>1, <2>6
    <3>2. m <= x
      BY <2>3, <3>1
    <3> QED
      BY <1>1, <2>2, <2>4, <3>1, <3>2
  <2> QED
    BY <1>3, <2>5, <2>6 DEF starts, n
<1> QED
  BY <1>5, <1>6

\* What is found in a sentence is a run of it that holds its modal verb.
LEMMA FoundLaw ==
  ASSUME NEW T, NEW text \in Seq(T), text # <<>>, NEW s \in SentenceStarts(text), MatchesAt(text, s)
  PROVE  LET o == FoundAt(text, s)
             cut == Slice(text, o.start, o.end)
         IN  /\ o.start \in s - 1 .. Len(text) /\ o.end \in o.start + 1 .. SentenceEnd(text, s)
             /\ o.modality \in Range(cut) /\ Last(cut) # Semicolon
<1> DEFINE n == Len(text)
           e == SentenceEnd(text, s)
           b == Body(text, s)
           solid == SolidOf(text, s)
           last == LastOf(text, s)
           modals == ModalsOf(text, s)
           m == Min(modals)
           action == ActionOf(text, s)
           o == FoundAt(text, s)
           cut == Slice(text, o.start, o.end)
<1>1. s \in 1 .. n /\ e \in s .. n /\ n \in Nat
  BY SentenceLaw
<1>2. b \in {s, s + 1}
  BY DEF Body
<1>3. solid = {i \in b .. e : text[i] # Semicolon} /\ modals = {i \in b .. e : text[i] \in Modal}
  BY DEF SolidOf, ModalsOf
<1>4. last = IF solid = {} THEN 0 ELSE Max(solid)
  BY DEF LastOf
<1>5. modals # {} /\ m - b \in 1 .. MaxActorWords /\ Cardinality(action) >= MinActionWords
  BY DEF MatchesAt
<1>6. action = {i \in m + 1 .. last : text[i] \notin {Stop, Semicolon}}
  BY DEF ActionOf
<1>7. o.start = b - 1 /\ o.end = last /\ o.modality = text[m]
  BY DEF FoundAt
<1> HIDE DEF n, e, b, solid, last, modals, action, o
<1>8. m \in modals
  <2>1. modals \in SUBSET Nat
    BY <1>1, <1>2, <1>3
  <2> QED
    BY <1>5, <2>1, MinLaw
<1> HIDE DEF m
<1>9. m \in b .. e /\ m > b /\ m \in Nat /\ b \in Nat /\ b >= 1 /\ b >= s
  <2>1. m \in b .. e
    BY <1>3, <1>8
  <2>2. b \in Nat /\ b >= 1 /\ b >= s
    BY <1>1, <1>2
  <2>3. m - b >= 1
    BY <1>5 DEF MaxActorWords
  <2> QED
    BY <1>1, <2>1, <2>2, <2>3
<1>10. PICK a \in action : TRUE
  <2> SUFFICES ASSUME action = {} PROVE FALSE
    OBVIOUS
  <2>1. Cardinality(action) = 0
    BY FS_EmptySet
  <2> QED
    BY <1>5, <2>1 DEF MinActionWords
<1>11. a \in m + 1 .. last
  BY <1>6, <1>10
<1>12. solid # {} /\ last \in solid
  <2>1. solid # {}
    <3> SUFFICES ASSUME solid = {} PROVE FALSE
      OBVIOUS
    <3>1. last = 0
      BY <1>4
    <3> QED
      BY <1>9, <1>11, <3>1
  <2>2. last = Max(solid)
    BY <1>4, <2>1
  <2>3. solid \in SUBSET (0 .. e) /\ e \in Nat
    BY <1>1, <1>3, <1>9
  <2> QED
    BY <2>1, <2>2, <2>3, GreatestExists
<1>13. last \in b .. e /\ text[last] # Semicolon /\ last > m
  BY <1>1, <1>3, <1>9, <1>11, <1>12
<1>14. b \in 1 .. n + 1 /\ last \in b - 1 .. n /\ last \in Nat
  BY <1>1, <1>9, <1>13
<1>15. cut = SubSeq(text, b, last)
  <2>1. (b - 1) + 1 = b
    BY <1>9
  <2> QED
    BY <1>7, <2>1 DEF Slice
<1> HIDE DEF cut
<1>16. cut \in Seq(T) /\ Len(cut) = last - b + 1 /\ \A i \in 1 .. last - b + 1 : cut[i] = text[b + i - 1]
  BY <1>14, <1>15, RunLaw DEF n
<1>17. o.modality \in Range(cut)
  <2> DEFINE k == m - b + 1
  <2>1. k \in 1 .. last - b + 1 /\ b + k - 1 = m
    BY <1>9, <1>13, <1>14
  <2> HIDE DEF k
  <2>2. k \in DOMAIN cut /\ cut[k] = text[m]
    BY <1>16, <2>1
  <2> QED
    BY <1>7, <2>2 DEF Range
<1>18. Last(cut) # Semicolon
  <2> DEFINE k == last - b + 1
  <2>1. k \in 1 .. last - b + 1 /\ b + k - 1 = last
    BY <1>9, <1>13, <1>14
  <2>2. cut[k] = text[last]
    BY <1>16, <2>1
  <2>3. Last(cut) = cut[k]
    BY <1>16 DEF Last
  <2> QED
    BY <1>13, <2>2, <2>3
<1>19. o.start \in s - 1 .. n /\ o.end \in o.start + 1 .. e
  BY <1>1, <1>7, <1>9, <1>13
<1> QED
  BY <1>17, <1>18, <1>19 DEF o, cut, n, e

\* What is found in one sentence does not reach into another.
LEMMA FoundApart ==
  ASSUME NEW T, NEW text \in Seq(T), text # <<>>,
         NEW s \in SentenceStarts(text), MatchesAt(text, s),
         NEW x \in SentenceStarts(text), MatchesAt(text, x), s < x
  PROVE  FoundAt(text, s).end <= FoundAt(text, x).start
<1> DEFINE o == FoundAt(text, s)
           p == FoundAt(text, x)
           e == SentenceEnd(text, s)
<1>1. o.end \in o.start + 1 .. e /\ o.start \in s - 1 .. Len(text)
  BY FoundLaw
<1>2. p.start \in x - 1 .. Len(text)
  BY FoundLaw
<1>3. s \in 1 .. Len(text) /\ x \in 1 .. Len(text) /\ e \in s .. Len(text) /\ e < x /\ Len(text) \in Nat
  BY SentenceLaw
<1> HIDE DEF o, p, e
<1>4. o.end <= p.start
  BY <1>1, <1>2, <1>3
<1> QED
  BY <1>4 DEF o, p

-----------------------------------------------------------------------------
(* What is read out of a text is stable.                                    *)

\* A list over T is a list over any set that holds T.
LEMMA WiderSeq ==
  ASSUME NEW T, NEW U, T \subseteq U, NEW s \in Seq(T)
  PROVE  s \in Seq(U)
<1>1. Len(s) \in Nat /\ s = [i \in 1 .. Len(s) |-> s[i]] /\ \A i \in 1 .. Len(s) : s[i] \in T
  OBVIOUS
<1>2. s \in [1 .. Len(s) -> U]
  BY <1>1, Zenon
<1> QED
  BY <1>1, <1>2

\* What prints of a text are its members that are no blanks.
LEMMA InkedLaw ==
  ASSUME NEW T, NEW t \in Seq(T)
  PROVE  Inked(t) = Only(t, T \ Blank)
<1>1. \A i \in DOMAIN t : t[i] \in T
  OBVIOUS
<1>2. [i \in DOMAIN t |-> IF t[i] \notin Blank THEN <<t[i]>> ELSE <<>>]
        = [i \in DOMAIN t |-> IF t[i] \in T \ Blank THEN <<t[i]>> ELSE <<>>]
  BY <1>1
<1> QED
  BY <1>2 DEF Inked, Kept, Only

\* Every page text, however long: normalised once it is as it will be read (normalise).
THEOREM CharsAlwaysStable == Spec => []CharsAreStable
<1>1. Init => CharsAreStable
  <2> SUFFICES ASSUME Init, input.task = "chars" PROVE CharsAreStable
    BY DEF CharsAreStable
  <2> DEFINE raw == input.raw
             T == RawLetters \cup {"f", "i", Space, "n"}
             P == T \ Blank
             text == Normalise(raw)
  <2>1. input \in CharInputs
    BY TaskLaw
  <2>2. raw \in BoundedSeq(RawLetters, MaxChars)
    BY <2>1 DEF CharInputs
  <2>3. MaxChars \in Int
    BY AlgorithmsAssumption DEF AlgorithmsAssumption
  <2>4. raw \in Seq(T)
    <3>1. raw \in Seq(RawLetters)
      BY <2>2, <2>3, BoundedLaw
    <3>2. RawLetters \subseteq T
      OBVIOUS
    <3> HIDE DEF T, raw
    <3> QED
      BY <3>1, <3>2, WiderSeq
  <2>5. {"f", "i", Space, "n"} \subseteq T /\ {"f", "i", Space} \subseteq T /\ P \cap Blank = {}
    OBVIOUS
  <2> HIDE DEF T, raw
  <2>6. text \in Seq(T) /\ Normal(text) /\ Only(text, P) = Only(Presentation(raw), P)
    <3> HIDE DEF P
    <3> QED
      BY <2>4, <2>5, NormaliseLaw
  <2> HIDE DEF text
  <2>7. Normalise(text) = text
    BY <2>5, <2>6, NormalIsFixed
  <2>8. \A i \in DOMAIN text : text[i] \notin {"z", "s", "l", "r"}
    BY <2>6 DEF Normal, Plain, Range
  <2>9. \A i \in 1 .. Len(text) - 1 : ~(text[i] = Space /\ text[i + 1] = "n")
    BY <2>6 DEF Normal, NoBlankEnds
  <2>10. Presentation(raw) \in Seq(T)
    BY <2>4, <2>5, ShownPiecesLaw
  <2>11. Inked(text) = Only(text, P) /\ Inked(Presentation(raw)) = Only(Presentation(raw), P)
    BY <2>6, <2>10, InkedLaw
  <2>12. Inked(text) = Inked(Presentation(raw))
    BY <2>6, <2>11
  <2> QED
    BY <2>7, <2>8, <2>9, <2>12, Zenon DEF CharsAreStable, text, raw
<1>2. CharsAreStable /\ [Next]_input => CharsAreStable'
  BY DEF Next, CharsAreStable
<1> QED
  BY <1>1, <1>2, PTL DEF Spec

\* Every reference, however written: one circular has one key (normalise_reference).
THEOREM KeysAlwaysStable == Spec => []KeysAreStable
<1>1. Init => KeysAreStable
  <2> SUFFICES ASSUME Init, input.task = "reference", input.raw # <<>>,
                      {Head(input.raw), Last(input.raw)} \subseteq {"A", "1"}
               PROVE  KeysAreStable
    BY DEF KeysAreStable
  <2> DEFINE raw == input.raw
             T == NumberLetters \cup {Slash, Dash, Stop, Comma}
  <2>1. input \in ReferenceInputs
    BY TaskLaw
  <2>2. raw \in BoundedSeq(NumberLetters, MaxChars)
    BY <2>1 DEF ReferenceInputs
  <2>3. MaxChars \in Int
    BY AlgorithmsAssumption DEF AlgorithmsAssumption
  <2>4. raw \in Seq(T)
    <3>1. raw \in Seq(NumberLetters)
      BY <2>2, <2>3, BoundedLaw
    <3>2. NumberLetters \subseteq T
      OBVIOUS
    <3> HIDE DEF T, raw
    <3> QED
      BY <3>1, <3>2, WiderSeq
  <2>5. {Slash, Dash, Stop, Comma} \subseteq T /\ Slash \in T
    OBVIOUS
  <2>6. raw # <<>> /\ Head(raw) \in {"A", "1"} /\ Last(raw) \in {"A", "1"}
    OBVIOUS
  <2> HIDE DEF T, raw
  <2>7. raw[1] \in {"A", "1"} /\ raw[Len(raw)] \in {"A", "1"}
    BY <2>4, <2>6 DEF Last
  <2>8. "A" \notin Around /\ "1" \notin Around
    BY Zenon DEF Around, Punctuation, Slash, Dash, Stop, Comma
  <2>9. CleanEnds(raw, Around)
    <3>1. raw[1] \notin Around /\ raw[Len(raw)] \notin Around
      BY <2>7, <2>8
    <3> QED
      BY <2>6, <3>1 DEF CleanEnds
  <2>10. NormaliseReference(NormaliseReference(raw)) = NormaliseReference(raw)
    BY <2>4, <2>5, <2>9, KeyIsFixed
  <2>11. NormaliseReference((<<Stop>> \o Hyphened(raw)) \o <<Comma, Stop>>) = NormaliseReference(raw)
    BY <2>4, <2>5, <2>9, KeyOfVariant
  <2> QED
    BY <2>10, <2>11, Zenon DEF KeysAreStable, Hyphened, raw
<1>2. KeysAreStable /\ [Next]_input => KeysAreStable'
  BY DEF Next, KeysAreStable
<1> QED
  BY <1>1, <1>2, PTL DEF Spec

\* Every paragraph, however long: what is found by rule does not overlap (extract_by_rule).
THEOREM ObligationsAlwaysApart == Spec => []ObligationsAreApart
<1>1. Init => ObligationsAreApart
  <2> SUFFICES ASSUME Init, input.task = "words" PROVE ObligationsAreApart
    BY DEF ObligationsAreApart
  <2> DEFINE text == input.text
             T == PlainWords
  <2>1. input \in WordInputs
    BY TaskLaw
  <2>2. text \in BoundedSeq(T, MaxWords)
    BY <2>1 DEF WordInputs
  <2>3. MaxWords \in Int
    BY AlgorithmsAssumption DEF AlgorithmsAssumption
  <2>4. text \in Seq(T)
    BY <2>2, <2>3, BoundedLaw
  <2> HIDE DEF T, text
  <2> DEFINE found == ObligationsByRule(text)
             Sound1(o) ==
               LET cut == Slice(text, o.start, o.end)
               IN  /\ o.start < o.end /\ o.end <= Len(text)
                   /\ o.modality \in Range(cut) /\ Last(cut) # Semicolon
             Apart(o, p) == p = o \/ p.end <= o.start \/ o.end <= p.start
  <2>5. found = {FoundAt(text, s) : s \in {x \in SentenceStarts(text) : text # <<>> /\ MatchesAt(text, x)}}
    BY ByRule
  <2> HIDE DEF found
  <2>6. ASSUME NEW o \in found PROVE Sound1(o)
    <3>1. PICK s \in SentenceStarts(text) : text # <<>> /\ MatchesAt(text, s) /\ o = FoundAt(text, s)
      BY <2>5
    <3>2. /\ o.start \in s - 1 .. Len(text) /\ o.end \in o.start + 1 .. SentenceEnd(text, s)
          /\ o.modality \in Range(Slice(text, o.start, o.end)) /\ Last(Slice(text, o.start, o.end)) # Semicolon
      BY <2>4, <3>1, FoundLaw
    <3>3. s \in 1 .. Len(text) /\ SentenceEnd(text, s) \in s .. Len(text) /\ Len(text) \in Nat
      BY <2>4, <3>1, SentenceLaw
    <3>4. o.start < o.end /\ o.end <= Len(text)
      BY <3>2, <3>3
    <3> QED
      BY <3>2, <3>4
  <2>7. ASSUME NEW o \in found, NEW p \in found PROVE Apart(o, p)
    <3>1. PICK s \in SentenceStarts(text) : text # <<>> /\ MatchesAt(text, s) /\ o = FoundAt(text, s)
      BY <2>5
    <3>2. PICK x \in SentenceStarts(text) : text # <<>> /\ MatchesAt(text, x) /\ p = FoundAt(text, x)
      BY <2>5
    <3>3. s \in 1 .. Len(text) /\ x \in 1 .. Len(text)
      BY <2>4, <3>1, <3>2, SentenceLaw
    <3>4. CASE s = x
      BY <3>1, <3>2, <3>4
    <3>5. CASE s < x
      <4>1. FoundAt(text, s).end <= FoundAt(text, x).start
        BY <2>4, <3>1, <3>2, <3>5, FoundApart
      <4> QED
        BY <3>1, <3>2, <4>1
    <3>6. CASE x < s
      <4>1. FoundAt(text, x).end <= FoundAt(text, s).start
        BY <2>4, <3>1, <3>2, <3>6, FoundApart
      <4> QED
        BY <3>1, <3>2, <4>1
    <3> QED
      BY <3>3, <3>4, <3>5, <3>6
  <2> QED
    BY <2>6, <2>7, Zenon DEF ObligationsAreApart, found, text
<1>2. ObligationsAreApart /\ [Next]_input => ObligationsAreApart'
  BY DEF Next, ObligationsAreApart
<1> QED
  BY <1>1, <1>2, PTL DEF Spec

\* What is read out of a text is the same however it was laid out or written, on
\* inputs of every size (normalise, normalise_reference, extract_by_rule).
THEOREM TextAlwaysStable == Spec => []TextIsStable
<1>1. TextIsStable <=> CharsAreStable /\ KeysAreStable /\ ObligationsAreApart
  BY DEF TextIsStable
<1> QED
  BY <1>1, CharsAlwaysStable, KeysAlwaysStable, ObligationsAlwaysApart, PTL
-----------------------------------------------------------------------------
(* Predictions claim labels.                                                *)

\* Counts of claims among the labels up to n.
ClaimsOf(n) == [claimed : SUBSET (1 .. n), truePositives : Nat, falsePositives : Nat]

\* What a claim does to the counts.
LEMMA ClaimLaw ==
  ASSUME NEW n \in Nat, NEW labelled, DOMAIN labelled = 1 .. n, NEW m \in ClaimsOf(n), NEW p
  PROVE  /\ Claim(m, p, labelled) \in ClaimsOf(n)
         /\ LET free == {i \in (1 .. n) \ m.claimed : Matches(p, labelled[i])}
                next == Claim(m, p, labelled)
            IN  \/ /\ free = {} /\ next.claimed = m.claimed /\ next.truePositives = m.truePositives
                   /\ next.falsePositives = m.falsePositives + 1
                \/ \E l \in free :
                     /\ next.claimed = m.claimed \cup {l} /\ next.truePositives = m.truePositives + 1
                     /\ next.falsePositives = m.falsePositives
<1> DEFINE free == {i \in (1 .. n) \ m.claimed : Matches(p, labelled[i])}
<1>1. Claimable(p, labelled, m.claimed) = free
  BY Zenon DEF Claimable
<1>2. m.claimed \in SUBSET (1 .. n) /\ m.truePositives \in Nat /\ m.falsePositives \in Nat
  BY DEF ClaimsOf
<1>3. CASE free = {}
  <2>1. Claim(m, p, labelled) = [m EXCEPT !.falsePositives = @ + 1]
    BY <1>1, <1>3 DEF Claim
  <2> HIDE DEF free
  <2> QED
    BY <1>2, <1>3, <2>1 DEF ClaimsOf, free
<1>4. CASE free # {}
  <2>1. Claim(m, p, labelled) = [m EXCEPT !.claimed = @ \cup {Min(free)}, !.truePositives = @ + 1]
    BY <1>1, <1>4 DEF Claim
  <2>2. Min(free) \in free
    <3>1. free \in SUBSET Nat
      OBVIOUS
    <3> HIDE DEF free
    <3> QED
      BY <1>4, <3>1, MinLaw
  <2> DEFINE l == Min(free)
  <2>3. l \in free /\ l \in 1 .. n
    BY <2>2
  <2>4. Claim(m, p, labelled) = [m EXCEPT !.claimed = @ \cup {l}, !.truePositives = @ + 1]
    BY <2>1
  <2> HIDE DEF free, l
  <2>5. Claim(m, p, labelled) = [claimed |-> m.claimed \cup {l}, truePositives |-> m.truePositives + 1,
                                 falsePositives |-> m.falsePositives]
    BY <2>4 DEF ClaimsOf
  <2>6. m.claimed \cup {l} \in SUBSET (1 .. n) /\ m.truePositives + 1 \in Nat
    BY <1>2, <2>3
  <2>7. /\ Claim(m, p, labelled) \in ClaimsOf(n)
        /\ Claim(m, p, labelled).claimed = m.claimed \cup {l}
        /\ Claim(m, p, labelled).truePositives = m.truePositives + 1
        /\ Claim(m, p, labelled).falsePositives = m.falsePositives
    BY <1>2, <2>5, <2>6 DEF ClaimsOf
  <2> QED
    BY <2>3, <2>7 DEF free
<1> QED
  BY <1>3, <1>4

\* The counts Extraction goes through.
LEMMA ClaimFold ==
  ASSUME NEW n \in Nat, NEW labelled, DOMAIN labelled = 1 .. n,
         NEW k \in Nat, NEW predicted, DOMAIN predicted = 1 .. k
  PROVE  \E after \in [0 .. k -> ClaimsOf(n)] :
           /\ after[0] = Unclaimed
           /\ \A i \in 1 .. k : after[i] = Claim(after[i - 1], predicted[i], labelled)
           /\ Extraction(predicted, labelled)
                = [truePositives |-> after[k].truePositives, falsePositives |-> after[k].falsePositives,
                   falseNegatives |-> Len(labelled) - Cardinality(after[k].claimed)]
<1> DEFINE V == ClaimsOf(n)
           F == [q \in V \X (1 .. k) |-> Claim(q[1], predicted[q[2]], labelled)]
           Eq(iter) == iter = [s \in SUBSET (1 .. k) |->
             IF s = {} THEN Unclaimed ELSE Claim(iter[s \ {Max(s)}], predicted[Max(s)], labelled)]
           iter == CHOOSE iter : Eq(iter)
           after == [i \in 0 .. k |-> iter[1 .. i]]
<1>1. Extraction(predicted, labelled)
        = [truePositives |-> iter[1 .. k].truePositives, falsePositives |-> iter[1 .. k].falsePositives,
           falseNegatives |-> Len(labelled) - Cardinality(iter[1 .. k].claimed)]
  BY DEF Extraction, FoldLeft, MapThenFoldSet
<1>2. F \in [V \X (1 .. k) -> V]
  <2>1. ASSUME NEW q \in V \X (1 .. k) PROVE Claim(q[1], predicted[q[2]], labelled) \in V
    <3>1. q[1] \in V
      OBVIOUS
    <3> QED
      BY <3>1, ClaimLaw
  <2> HIDE DEF V
  <2> QED
    BY <2>1
<1>3. Unclaimed \in V
  BY DEF Unclaimed, ClaimsOf
<1>4. PICK fold \in [SUBSET (1 .. k) -> V] : Unfolds(fold, V, Unclaimed, k, F)
  <2> HIDE DEF F, V
  <2> QED
    BY <1>2, <1>3, FoldExists
<1>5. Eq(fold)
  <2>1. ASSUME NEW s \in SUBSET (1 .. k), s # {}
        PROVE  F[<<fold[s \ {Max(s)}], Max(s)>>]
                 = Claim(fold[s \ {Max(s)}], predicted[Max(s)], labelled)
    <3>1. Max(s) \in s
      BY <2>1, MaxMember
    <3> HIDE DEF V
    <3> QED
      BY <3>1
  <2> HIDE DEF F, V
  <2> QED
    BY <1>4, <2>1 DEF Unfolds
<1>6. Eq(iter)
  <2> HIDE DEF Eq
  <2> QED
    BY <1>5
<1>7. /\ iter[{}] = Unclaimed
      /\ \A i \in 1 .. k : iter[1 .. i] = Claim(iter[1 .. i - 1], predicted[i], labelled)
  <2>1. ASSUME NEW s \in SUBSET (1 .. k)
        PROVE  iter[s] = IF s = {} THEN Unclaimed
                         ELSE Claim(iter[s \ {Max(s)}], predicted[Max(s)], labelled)
    <3> HIDE DEF iter
    <3> QED
      BY <1>6, Zenon
  <2> HIDE DEF iter
  <2>2. ASSUME NEW i \in 1 .. k
        PROVE  iter[1 .. i] = Claim(iter[1 .. i - 1], predicted[i], labelled)
    <3>1. /\ 1 .. i \in SUBSET (1 .. k) /\ 1 .. i # {}
          /\ Max(1 .. i) = i /\ (1 .. i) \ {Max(1 .. i)} = 1 .. i - 1
      BY Prefix
    <3> QED
      BY <2>1, <3>1
  <2> QED
    BY <2>1, <2>2
<1>8. 1 .. 0 = {}
  OBVIOUS
<1> HIDE DEF iter, V
<1>9. /\ after[0] = Unclaimed
      /\ \A i \in 1 .. k : after[i] = Claim(after[i - 1], predicted[i], labelled)
  BY <1>7, <1>8
<1>10. after \in [0 .. k -> V]
  <2> DEFINE S == {i \in 0 .. k : after[i] \in V}
  <2>1. 0 \in S
    BY <1>3, <1>9
  <2>2. ASSUME NEW j \in 0 .. k - 1, j \in S PROVE j + 1 \in S
    <3>1. after[j] \in V /\ j + 1 \in 1 .. k /\ (j + 1) - 1 = j
      BY <2>2
    <3>2. after[j + 1] = Claim(after[j], predicted[j + 1], labelled)
      <4> HIDE DEF after
      <4> QED
        BY <1>9, <3>1
    <3>3. Claim(after[j], predicted[j + 1], labelled) \in V
      <4> HIDE DEF after
      <4> QED
        BY <3>1, ClaimLaw DEF V
    <3> HIDE DEF after
    <3> QED
      BY <3>1, <3>2, <3>3
  <2>3. \A j \in 0 .. k : j \in S
    <3> HIDE DEF S
    <3> QED
      BY <2>1, <2>2, UpTo
  <2> QED
    BY <2>3
<1>11. Extraction(predicted, labelled)
         = [truePositives |-> after[k].truePositives, falsePositives |-> after[k].falsePositives,
            falseNegatives |-> Len(labelled) - Cardinality(after[k].claimed)]
  BY <1>1
<1> HIDE DEF after
<1> QED
  BY <1>9, <1>10, <1>11 DEF V

\* No two of the pairs share a member.
OneToOne(m) == \A x, y \in m : x[1] = y[1] \/ x[2] = y[2] => x = y

\* The pairs claimed among the first i predictions, and that none was left that had a
\* label to claim.
ClaimedWell(c, pairs, i) ==
  /\ c.truePositives + c.falsePositives = i
  /\ IsFiniteSet(c.claimed) /\ Cardinality(c.claimed) = c.truePositives
  /\ \E m \in SUBSET pairs :
       /\ IsFiniteSet(m) /\ Cardinality(m) = c.truePositives /\ OneToOne(m)
       /\ \A x \in m : x[1] <= i /\ x[2] \in c.claimed
       /\ \A x \in pairs : x[1] <= i => x[2] \in c.claimed \/ \E y \in m : y[1] = x[1]

\* Each prediction keeps it so.
LEMMA ClaimKeeps ==
  ASSUME NEW n \in Nat, NEW labelled, DOMAIN labelled = 1 .. n, NEW c \in ClaimsOf(n), NEW i \in Nat,
         NEW k \in Nat, i + 1 \in 1 .. k, NEW predicted, DOMAIN predicted = 1 .. k, NEW pairs,
         pairs = {x \in (1 .. k) \X (1 .. n) : Matches(predicted[x[1]], labelled[x[2]])},
         ClaimedWell(c, pairs, i)
  PROVE  ClaimedWell(Claim(c, predicted[i + 1], labelled), pairs, i + 1)
<1> DEFINE p == predicted[i + 1]
           next == Claim(c, p, labelled)
           free == {l \in (1 .. n) \ c.claimed : Matches(p, labelled[l])}
<1>1. PICK m \in SUBSET pairs :
        /\ IsFiniteSet(m) /\ Cardinality(m) = c.truePositives /\ OneToOne(m)
        /\ \A x \in m : x[1] <= i /\ x[2] \in c.claimed
        /\ \A x \in pairs : x[1] <= i => x[2] \in c.claimed \/ \E y \in m : y[1] = x[1]
  BY DEF ClaimedWell
<1>2. /\ c.truePositives + c.falsePositives = i /\ IsFiniteSet(c.claimed)
      /\ Cardinality(c.claimed) = c.truePositives
  BY DEF ClaimedWell
<1>3. c.truePositives \in Nat /\ c.falsePositives \in Nat /\ c.claimed \in SUBSET (1 .. n)
  BY DEF ClaimsOf
<1>4. \/ /\ free = {} /\ next.claimed = c.claimed /\ next.truePositives = c.truePositives
         /\ next.falsePositives = c.falsePositives + 1
      \/ \E l \in free :
           /\ next.claimed = c.claimed \cup {l} /\ next.truePositives = c.truePositives + 1
           /\ next.falsePositives = c.falsePositives
  <2> HIDE DEF p
  <2>1. LET f == {l \in (1 .. n) \ c.claimed : Matches(p, labelled[l])}
            x == Claim(c, p, labelled)
        IN  \/ /\ f = {} /\ x.claimed = c.claimed /\ x.truePositives = c.truePositives
               /\ x.falsePositives = c.falsePositives + 1
            \/ \E l \in f :
                 /\ x.claimed = c.claimed \cup {l} /\ x.truePositives = c.truePositives + 1
                 /\ x.falsePositives = c.falsePositives
    BY ClaimLaw
  <2> QED
    BY <2>1
<1>5. \A x \in pairs : x = <<x[1], x[2]>> /\ x[1] \in 1 .. k /\ x[2] \in 1 .. n
                       /\ Matches(predicted[x[1]], labelled[x[2]])
  OBVIOUS
<1>6. \A x \in pairs : x[1] <= i + 1 => x[1] <= i \/ x[1] = i + 1
  BY <1>5
<1> HIDE DEF next
<1>7. CASE free = {} /\ next.claimed = c.claimed /\ next.truePositives = c.truePositives
           /\ next.falsePositives = c.falsePositives + 1
  <2>1. next.truePositives + next.falsePositives = i + 1
    BY <1>2, <1>3, <1>7
  <2>2. \A x \in m : x[1] <= i + 1 /\ x[2] \in next.claimed
    BY <1>1, <1>5, <1>7
  <2>3. ASSUME NEW x \in pairs, x[1] <= i + 1 PROVE x[2] \in next.claimed \/ \E y \in m : y[1] = x[1]
    <3>1. CASE x[1] <= i
      BY <1>1, <1>7, <3>1
    <3>2. CASE x[1] = i + 1
      <4>1. Matches(p, labelled[x[2]]) /\ x[2] \in 1 .. n
        BY <1>5, <3>2
      <4>2. x[2] \in c.claimed
        <5> HIDE DEF p
        <5> QED
          BY <1>7, <4>1, Zenon
      <4> QED
        BY <1>7, <4>2
    <3> QED
      BY <1>6, <2>3, <3>1, <3>2
  <2> HIDE DEF p, free
  <2>4. ClaimedWell(next, pairs, i + 1)
    <3>1. /\ IsFiniteSet(next.claimed) /\ Cardinality(next.claimed) = next.truePositives
          /\ Cardinality(m) = next.truePositives
      BY <1>1, <1>2, <1>7
    <3> QED
      BY <1>1, <2>1, <2>2, <2>3, <3>1, Zenon DEF ClaimedWell
  <2> QED
    BY <2>4 DEF next, p
<1>8. ASSUME NEW l \in free, next.claimed = c.claimed \cup {l}, next.truePositives = c.truePositives + 1,
             next.falsePositives = c.falsePositives
      PROVE  ClaimedWell(next, pairs, i + 1)
  <2> DEFINE z == <<i + 1, l>>
             new == m \cup {z}
  <2>1. next.truePositives + next.falsePositives = i + 1
    BY <1>2, <1>3, <1>8
  <2>2. l \notin c.claimed /\ l \in 1 .. n /\ z[1] = i + 1 /\ z[2] = l
    OBVIOUS
  <2>3. z \in pairs
    BY <2>2
  <2>4. \A x \in m : x[1] # i + 1 /\ x[2] # l /\ x # z
    <3>1. ASSUME NEW x \in m PROVE x[1] # i + 1 /\ x[2] # l
      BY <1>1, <1>5, <2>2
    <3> QED
      BY <2>2, <3>1
  <2> HIDE DEF z, p, free
  <2>5. IsFiniteSet(new) /\ Cardinality(new) = next.truePositives
    <3>1. z \notin m
      BY <2>4
    <3> QED
      BY <1>1, <1>8, <3>1, FS_AddElement
  <2>6. IsFiniteSet(next.claimed) /\ Cardinality(next.claimed) = next.truePositives
    <3>1. IsFiniteSet(c.claimed \cup {l}) /\ Cardinality(c.claimed \cup {l}) = Cardinality(c.claimed) + 1
      <4> DEFINE C == c.claimed
      <4>1. IsFiniteSet(C) /\ l \notin C
        BY <1>2, <2>2
      <4> HIDE DEF C
      <4>2. IsFiniteSet(C \cup {l}) /\ Cardinality(C \cup {l}) = Cardinality(C) + 1
        BY <4>1, FS_AddElement
      <4> QED
        BY <4>2 DEF C
    <3> QED
      BY <1>2, <1>8, <3>1
  <2>7. OneToOne(new)
    <3>1. ASSUME NEW x \in new, NEW y \in new, x[1] = y[1] \/ x[2] = y[2] PROVE x = y
      <4>1. CASE x \in m /\ y \in m
        BY <1>1, <3>1, <4>1 DEF OneToOne
      <4>2. CASE x = z \/ y = z
        BY <2>2, <2>4, <3>1, <4>2
      <4> QED
        BY <4>1, <4>2
    <3> HIDE DEF new
    <3> QED
      BY <3>1 DEF OneToOne
  <2>8. \A x \in new : x[1] <= i + 1 /\ x[2] \in next.claimed
    BY <1>1, <1>5, <1>8, <2>2
  <2>9. ASSUME NEW x \in pairs, x[1] <= i + 1 PROVE x[2] \in next.claimed \/ \E y \in new : y[1] = x[1]
    <3>1. CASE x[1] <= i
      BY <1>1, <1>8, <3>1
    <3>2. CASE x[1] = i + 1
      BY <2>2, <3>2
    <3> QED
      BY <1>6, <2>9, <3>1, <3>2
  <2>10. new \in SUBSET pairs
    BY <2>3
  <2> HIDE DEF new
  <2> QED
    BY <2>1, <2>5, <2>6, <2>7, <2>8, <2>9, <2>10, Zenon DEF ClaimedWell
<1>9. ClaimedWell(next, pairs, i + 1)
  <2> HIDE DEF free, p
  <2>1. CASE \E l \in free : /\ next.claimed = c.claimed \cup {l} /\ next.truePositives = c.truePositives + 1
                             /\ next.falsePositives = c.falsePositives
    BY <1>8, <2>1
  <2>2. CASE free = {} /\ next.claimed = c.claimed /\ next.truePositives = c.truePositives
             /\ next.falsePositives = c.falsePositives + 1
    BY <1>7, <2>2 DEF next, p
  <2> QED
    BY <1>4, <2>1, <2>2
<1> QED
  BY <1>9 DEF next, p

\* The claims that the counts of two lists come from.
Counted(c, pairs, k, predicted, labelled) ==
  /\ ClaimedWell(c, pairs, k)
  /\ Extraction(predicted, labelled)
       = [truePositives |-> c.truePositives, falsePositives |-> c.falsePositives,
          falseNegatives |-> Len(labelled) - c.truePositives]

\* What Extraction counts.
LEMMA CountsLaw ==
  ASSUME NEW n \in Nat, NEW labelled, DOMAIN labelled = 1 .. n,
         NEW k \in Nat, NEW predicted, DOMAIN predicted = 1 .. k, NEW pairs,
         pairs = {x \in (1 .. k) \X (1 .. n) : Matches(predicted[x[1]], labelled[x[2]])}
  PROVE  \E c \in ClaimsOf(n) : Counted(c, pairs, k, predicted, labelled)
<1>1. PICK after \in [0 .. k -> ClaimsOf(n)] :
        /\ after[0] = Unclaimed
        /\ \A i \in 1 .. k : after[i] = Claim(after[i - 1], predicted[i], labelled)
        /\ Extraction(predicted, labelled)
             = [truePositives |-> after[k].truePositives, falsePositives |-> after[k].falsePositives,
                falseNegatives |-> Len(labelled) - Cardinality(after[k].claimed)]
  BY ClaimFold
<1> DEFINE S == {i \in 0 .. k : ClaimedWell(after[i], pairs, i)}
<1>2. 0 \in S
  <2>1. ClaimedWell(Unclaimed, pairs, 0)
    <3>1. Unclaimed.claimed = {} /\ Unclaimed.truePositives = 0 /\ Unclaimed.falsePositives = 0
      BY DEF Unclaimed
    <3>2. \A x \in pairs : ~(x[1] <= 0)
      OBVIOUS
    <3>3. {} \in SUBSET pairs /\ OneToOne({})
      BY DEF OneToOne
    <3>4. IsFiniteSet({}) /\ Cardinality({}) = 0
      BY FS_EmptySet
    <3> QED
      BY <3>1, <3>2, <3>3, <3>4 DEF ClaimedWell
  <2> QED
    BY <1>1, <2>1
<1>3. ASSUME NEW i \in 0 .. k - 1, i \in S PROVE i + 1 \in S
  <2>1. i \in Nat /\ i + 1 \in 1 .. k /\ i + 1 \in 0 .. k /\ (i + 1) - 1 = i /\ after[i] \in ClaimsOf(n)
        /\ ClaimedWell(after[i], pairs, i)
    BY <1>3
  <2>2. after[i + 1] = Claim(after[i], predicted[i + 1], labelled)
    BY <1>1, <2>1
  <2>3. ClaimedWell(after[i + 1], pairs, i + 1)
    BY <2>1, <2>2, ClaimKeeps
  <2> QED
    BY <2>1, <2>3
<1>4. k \in S
  <2> HIDE DEF S
  <2>1. \A i \in 0 .. k : i \in S
    BY <1>2, <1>3, UpTo
  <2> QED
    BY <2>1
<1>5. ClaimedWell(after[k], pairs, k) /\ after[k] \in ClaimsOf(n)
      /\ Cardinality(after[k].claimed) = after[k].truePositives
  BY <1>4 DEF ClaimedWell
<1>6. Counted(after[k], pairs, k, predicted, labelled)
  BY <1>1, <1>5 DEF Counted
<1> QED
  BY <1>5, <1>6

\* Pairs that share no member are at most twice as many as those claimed: each has a label
\* or a prediction in common with one of them.
LEMMA HalfOfBest ==
  ASSUME NEW n \in Nat, NEW k \in Nat, NEW pairs \in SUBSET ((1 .. k) \X (1 .. n)),
         NEW c \in ClaimsOf(n), ClaimedWell(c, pairs, k), NEW other \in SUBSET pairs, OneToOne(other)
  PROVE  IsFiniteSet(other) /\ Cardinality(other) \in 0 .. 2 * c.truePositives
<1>1. PICK m \in SUBSET pairs :
        /\ IsFiniteSet(m) /\ Cardinality(m) = c.truePositives
        /\ \A x \in pairs : x[1] <= k => x[2] \in c.claimed \/ \E y \in m : y[1] = x[1]
  BY DEF ClaimedWell
<1>2. IsFiniteSet(c.claimed) /\ Cardinality(c.claimed) = c.truePositives /\ c.truePositives \in Nat
  BY DEF ClaimedWell, ClaimsOf
<1> DEFINE left == {x \in other : x[2] \in c.claimed}
           right == {x \in other : \E y \in m : y[1] = x[1]}
           byLabel == [x \in left |-> x[2]]
           byFirst == [x \in right |-> CHOOSE y \in m : y[1] = x[1]]
<1>3. other = left \cup right
  <2>1. \A x \in other : x \in pairs /\ x[1] <= k
    OBVIOUS
  <2> QED
    BY <1>1, <2>1
<1>4. IsFiniteSet(left) /\ Cardinality(left) <= Cardinality(c.claimed)
  <2>1. byLabel \in [left -> c.claimed]
    OBVIOUS
  <2>2. \A x, y \in left : byLabel[x] = byLabel[y] => x = y
    BY DEF OneToOne
  <2> DEFINE C == c.claimed
  <2> HIDE DEF byLabel, left, C
  <2>3. byLabel \in Injection(left, C)
    BY <2>1, <2>2 DEF Injection, IsInjective, C
  <2>4. IsFiniteSet(C)
    BY <1>2 DEF C
  <2>5. IsFiniteSet(left) /\ Cardinality(left) <= Cardinality(C)
    BY <2>3, <2>4, FS_Injection
  <2> QED
    BY <2>5 DEF C
<1>5. IsFiniteSet(right) /\ Cardinality(right) <= Cardinality(m)
  <2>1. \A x \in right : byFirst[x] \in m /\ byFirst[x][1] = x[1]
    OBVIOUS
  <2>2. byFirst \in [right -> m]
    BY <2>1
  <2>3. \A x, y \in right : x[1] = y[1] => x = y
    BY DEF OneToOne
  <2> HIDE DEF byFirst, right
  <2>4. \A x, y \in right : byFirst[x] = byFirst[y] => x = y
    BY <2>1, <2>3
  <2>5. byFirst \in Injection(right, m)
    BY <2>2, <2>4 DEF Injection, IsInjective
  <2> QED
    BY <1>1, <2>5, FS_Injection
<1> HIDE DEF left, right
<1>6. /\ IsFiniteSet(left \cup right)
      /\ Cardinality(left \cup right) = Cardinality(left) + Cardinality(right) - Cardinality(left \cap right)
  BY <1>4, <1>5, FS_Union
<1>7. IsFiniteSet(left \cap right)
  <2>1. left \cap right \in SUBSET left
    OBVIOUS
  <2> QED
    BY <1>4, <2>1, FS_Subset
<1>8. /\ Cardinality(left) \in Nat /\ Cardinality(right) \in Nat /\ Cardinality(left \cap right) \in Nat
      /\ Cardinality(left \cup right) \in Nat
  BY <1>4, <1>5, <1>6, <1>7, FS_CardinalityType
<1> QED
  BY <1>1, <1>2, <1>3, <1>4, <1>5, <1>6, <1>8

\* The most labels that could be matched are at least those that were, and at most twice as many.
LEMMA BestLaw ==
  ASSUME NEW n \in Nat, NEW labelled, DOMAIN labelled = 1 .. n,
         NEW k \in Nat, NEW predicted, DOMAIN predicted = 1 .. k, NEW pairs,
         pairs = {x \in (1 .. k) \X (1 .. n) : Matches(predicted[x[1]], labelled[x[2]])},
         NEW c \in ClaimsOf(n), ClaimedWell(c, pairs, k)
  PROVE  /\ BestMatching(predicted, labelled) \in Nat
         /\ c.truePositives <= BestMatching(predicted, labelled)
         /\ BestMatching(predicted, labelled) <= 2 * c.truePositives
<1> DEFINE all == {m \in SUBSET pairs : OneToOne(m)}
           sizes == {Cardinality(m) : m \in all}
           most == 2 * c.truePositives
<1>1. BestMatching(predicted, labelled) = Max(sizes)
  BY DEF BestMatching, OneToOne
<1>2. pairs \in SUBSET ((1 .. k) \X (1 .. n)) /\ c.truePositives \in Nat /\ most \in Nat
  BY DEF ClaimsOf
<1>3. sizes \in SUBSET (0 .. most)
  <2>1. ASSUME NEW m \in all PROVE Cardinality(m) \in 0 .. most
    BY <1>2, HalfOfBest
  <2> HIDE DEF all, most
  <2> QED
    BY <2>1
<1>4. c.truePositives \in sizes
  <2>1. PICK m \in SUBSET pairs : Cardinality(m) = c.truePositives /\ OneToOne(m)
    BY DEF ClaimedWell
  <2>2. m \in all
    BY <2>1
  <2> HIDE DEF all
  <2> QED
    BY <2>1, <2>2
<1> HIDE DEF sizes
<1>5. Max(sizes) \in sizes /\ \A y \in sizes : Max(sizes) >= y
  <2>1. sizes # {}
    BY <1>4
  <2> HIDE DEF most
  <2> QED
    BY <1>2, <1>3, <2>1, GreatestExists
<1>6. Max(sizes) \in 0 .. most /\ Max(sizes) >= c.truePositives
  BY <1>3, <1>4, <1>5
<1> QED
  BY <1>1, <1>2, <1>6

\* Numbers of labels and predictions, and what is reported of them.
LEMMA RatesLaw ==
  ASSUME NEW t \in Nat, NEW p \in Nat, NEW l \in Nat, t <= p, t <= l,
         NEW m, m = [truePositives |-> t, falsePositives |-> p - t, falseNegatives |-> l - t]
  PROVE  /\ AtMost(Precision(m), <<1, 1>>) /\ AtMost(Recall(m), <<1, 1>>)
         /\ Same(F1(m), OrZero(2 * t, p + l))
<1>1. t + (p - t) = p /\ t + (l - t) = l
  OBVIOUS
<1>2. Precision(m) = OrZero(t, p) /\ Recall(m) = OrZero(t, l)
  BY <1>1 DEF Precision, Recall
<1>3. AtMost(OrZero(t, p), <<1, 1>>) /\ AtMost(OrZero(t, l), <<1, 1>>)
  BY DEF AtMost, OrZero, Zero
<1>4. CASE t = 0
  <2>1. Precision(m)[1] = 0 /\ Recall(m)[1] = 0 /\ Precision(m)[2] \in Nat /\ Recall(m)[2] \in Nat
    BY <1>2, <1>4 DEF OrZero, Zero
  <2> DEFINE x == Precision(m)[2]
             y == Recall(m)[2]
  <2>2. 0 * y + 0 * x = 0 /\ 2 * 0 * 0 = 0
    BY <2>1
  <2>3. F1(m) = OrZero(0, 0)
    BY <2>1, <2>2 DEF F1
  <2>4. F1(m) = <<0, 1>>
    BY <2>3 DEF OrZero, Zero
  <2>5. OrZero(2 * t, p + l)[1] = 0 /\ OrZero(2 * t, p + l)[2] \in Nat
    BY <1>4 DEF OrZero, Zero
  <2> QED
    BY <1>2, <1>3, <2>4, <2>5 DEF Same, AtMost
<1>5. CASE t # 0
  <2>1. p # 0 /\ l # 0
    BY <1>5
  <2>2. Precision(m) = <<t, p>> /\ Recall(m) = <<t, l>>
    BY <1>2, <2>1 DEF OrZero
  <2>3. t * l > 0 /\ t * p > 0
    BY <1>5, <2>1
  <2>4. t * l + t * p # 0 /\ p + l # 0
    BY <2>1, <2>3
  <2>5. F1(m) = <<2 * t * t, t * l + t * p>>
    BY <2>2, <2>4 DEF F1, OrZero
  <2>6. OrZero(2 * t, p + l) = <<2 * t, p + l>>
    BY <2>4 DEF OrZero
  <2>7. (2 * t * t) * (p + l) = (2 * t) * (t * l + t * p)
    <3>1. t * l + t * p = t * (p + l)
      OBVIOUS
    <3> DEFINE s == p + l
    <3>2. s \in Nat
      OBVIOUS
    <3> HIDE DEF s
    <3>3. (2 * t * t) * s = (2 * t) * (t * s)
      BY <3>2
    <3> QED
      BY <3>1, <3>3 DEF s
  <2>8. Same(F1(m), OrZero(2 * t, p + l))
    BY <2>5, <2>6, <2>7 DEF Same, AtMost
  <2> QED
    BY <1>2, <1>3, <2>8
<1> QED
  BY <1>4, <1>5

\* What the greedy matching of two lists claims, against the best matching of them.
LEMMA MatchingLaw ==
  ASSUME NEW predicted \in Seq(Spots), NEW labelled \in Seq(Spots)
  PROVE  \E t \in Nat :
           /\ t <= Len(predicted) /\ t <= Len(labelled)
           /\ Extraction(predicted, labelled)
                = [truePositives |-> t, falsePositives |-> Len(predicted) - t,
                   falseNegatives |-> Len(labelled) - t]
           /\ BestMatching(predicted, labelled) \in Nat
           /\ t <= BestMatching(predicted, labelled) /\ BestMatching(predicted, labelled) <= 2 * t
<1>1. PICK k \in Nat, n \in Nat :
        /\ k = Len(predicted) /\ DOMAIN predicted = 1 .. k
        /\ n = Len(labelled) /\ DOMAIN labelled = 1 .. n
  OBVIOUS
<1>2. PICK pairs : pairs = {x \in (1 .. k) \X (1 .. n) : Matches(predicted[x[1]], labelled[x[2]])}
  OBVIOUS
<1>3. PICK c \in ClaimsOf(n) :
        /\ ClaimedWell(c, pairs, k)
        /\ Extraction(predicted, labelled)
             = [truePositives |-> c.truePositives, falsePositives |-> c.falsePositives,
                falseNegatives |-> Len(labelled) - c.truePositives]
  <2>1. \E c \in ClaimsOf(n) : Counted(c, pairs, k, predicted, labelled)
    BY <1>1, <1>2, CountsLaw
  <2> QED
    BY <2>1 DEF Counted
<1>4. PICK t : t = c.truePositives
  OBVIOUS
<1>5. t \in Nat /\ c.falsePositives \in Nat /\ t + c.falsePositives = k
  BY <1>3, <1>4 DEF ClaimedWell, ClaimsOf
<1>6. PICK C : C = c.claimed
  OBVIOUS
<1>7. Cardinality(C) <= Cardinality(1 .. n) /\ Cardinality(C) = t
  <2>1. C \in SUBSET (1 .. n) /\ Cardinality(C) = t
    BY <1>3, <1>4, <1>6 DEF ClaimedWell, ClaimsOf
  <2>2. IsFiniteSet(1 .. n)
    BY <1>1, FS_Interval
  <2> QED
    BY <2>1, <2>2, FS_Subset
<1>8. t <= n
  <2>1. Cardinality(1 .. n) = n
    <3>1. n \in Int /\ 1 \in Int /\ n - 1 + 1 = n /\ (1 > n => n = 0)
      OBVIOUS
    <3>2. Cardinality(1 .. n) = IF 1 > n THEN 0 ELSE n - 1 + 1
      BY <3>1, FS_Interval
    <3> QED
      BY <3>1, <3>2
  <2> QED
    BY <1>1, <1>5, <1>7, <2>1
<1>9. /\ BestMatching(predicted, labelled) \in Nat
      /\ c.truePositives <= BestMatching(predicted, labelled)
      /\ BestMatching(predicted, labelled) <= 2 * c.truePositives
  BY <1>1, <1>2, <1>3, BestLaw
<1>10. c.falsePositives = k - t
  BY <1>1, <1>5
<1>11. t <= k
  BY <1>1, <1>5
<1> QED
  BY <1>1, <1>3, <1>4, <1>5, <1>8, <1>9, <1>10, <1>11

\* However many predictions and labels: each is counted once, the greedy matching is at least
\* half of the best, and F1 is what the counts say (extraction.py, compute).
THEOREM MatchingAlwaysHonest == Spec => []MatchingIsHonest
<1>1. Init => MatchingIsHonest
  <2> SUFFICES ASSUME Init, input.task = "extraction" PROVE MatchingIsHonest
    BY DEF MatchingIsHonest
  <2>1. PICK predicted \in BoundedSeq(Spots, MaxRows), labelled \in BoundedSeq(Spots, MaxRows - 1) :
          input = [task |-> "extraction", predicted |-> predicted, labelled |-> labelled]
    BY TaskLaw DEF ExtractionInputs
  <2>2. predicted \in Seq(Spots) /\ labelled \in Seq(Spots)
    <3>1. MaxRows \in Int /\ MaxRows - 1 \in Int
      BY AlgorithmsAssumption DEF AlgorithmsAssumption
    <3> QED
      BY <2>1, <3>1, BoundedLaw
  <2>3. PICK m, best : m = Extraction(predicted, labelled) /\ best = BestMatching(predicted, labelled)
    OBVIOUS
  <2>4. PICK k \in Nat, n \in Nat : k = Len(predicted) /\ n = Len(labelled)
    BY <2>2
  <2>5. PICK t \in Nat :
          /\ t <= k /\ t <= n
          /\ m = [truePositives |-> t, falsePositives |-> k - t, falseNegatives |-> n - t]
          /\ best \in Nat /\ t <= best /\ best <= 2 * t
    BY <2>2, <2>3, <2>4, MatchingLaw
  <2>6. AtMost(Precision(m), <<1, 1>>) /\ AtMost(Recall(m), <<1, 1>>) /\ Same(F1(m), OrZero(2 * t, k + n))
    BY <2>4, <2>5, RatesLaw
  <2>7. /\ m.truePositives = t /\ m.truePositives + m.falsePositives = k
        /\ m.truePositives + m.falseNegatives = n
    BY <2>4, <2>5
  <2>8. /\ m.truePositives + m.falsePositives = Len(predicted)
        /\ m.truePositives + m.falseNegatives = Len(labelled)
        /\ m.truePositives <= best /\ 2 * m.truePositives >= best
        /\ Same(F1(m), OrZero(2 * m.truePositives, Len(predicted) + Len(labelled)))
    BY <2>4, <2>5, <2>6, <2>7
  <2>9. input.predicted = predicted /\ input.labelled = labelled
    BY <2>1
  <2> QED
    BY <2>3, <2>6, <2>8, <2>9 DEF MatchingIsHonest
<1>2. MatchingIsHonest /\ [Next]_input => MatchingIsHonest'
  BY DEF Next, MatchingIsHonest
<1> QED
  BY <1>1, <1>2, PTL DEF Spec
=============================================================================
