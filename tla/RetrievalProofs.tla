-------------------------- MODULE RetrievalProofs --------------------------
(***************************************************************************)
(* The retrieval pipeline, for any number of searches, chunks and changes of  *)
(* the corpus. First the two models: each is built by one thread at a time    *)
(* and never again once cached, and no two threads are inside it. Then the    *)
(* lists: what fusion, reranking and the cut keep, and in which order. Last   *)
(* the searches: what one has read by each stage, so that its answer is sound *)
(* and its banner true.                                                      *)
(***************************************************************************)
EXTENDS Retrieval, FiniteSetTheorems, WellFoundedInduction, TLAPS

Steps == {"away", "look", "lock", "recheck", "build", "infer", "running"}

CallersTyped ==
  /\ caller \in [Threads -> [at : Steps, model : Models \cup {"none"}]]
  /\ \A t \in Threads : caller[t].at # "away" => caller[t].model \in Models
  /\ loaded \in [Models -> BOOLEAN]
  /\ loadLock \in [Models -> Threads \cup {Free}]
  /\ inferLock \in [Models -> Threads \cup {Free}]

\* A thread between its second look and the end of the build holds the model's
\* loading lock; one that builds found nothing cached.
LoadersHoldTheLock ==
  \A t \in Threads :
    /\ caller[t].at \in {"recheck", "build"} => loadLock[Model(t)] = t
    /\ caller[t].at = "build" => ~loaded[Model(t)]

\* A thread inside a model holds its inference lock.
RunnersHoldTheLock ==
  \A t \in Threads : caller[t].at = "running" => inferLock[Model(t)] = t

IInv == CallersTyped /\ LoadersHoldTheLock /\ RunnersHoldTheLock

-----------------------------------------------------------------------------
USE DEF Model

LEMMA InitIInv == Init => IInv
<1> SUFFICES ASSUME Init PROVE IInv
  OBVIOUS
<1>1. /\ caller = [t \in Threads |->
           IF t = Warmup THEN [at |-> "look", model |-> "embedding"] ELSE [at |-> "away", model |-> "none"]]
      /\ loaded = [m \in Models |-> FALSE]
      /\ loadLock = [m \in Models |-> Free] /\ inferLock = [m \in Models |-> Free]
  BY DEF Init
<1>2. CallersTyped
  BY <1>1 DEF CallersTyped, Steps, Models
<1>3. \A t \in Threads : caller[t].at \in {"look", "away"}
  BY <1>1
<1> QED
  BY <1>2, <1>3 DEF IInv, LoadersHoldTheLock, RunnersHoldTheLock

\* A thread that starts to use a model holds no lock of it yet.
LEMMA CallEffect ==
  ASSUME IInv, NEW t \in Threads, NEW m \in Models, Calls(t, m),
         UNCHANGED <<loaded, loadLock, inferLock>>
  PROVE  IInv'
<1>1. /\ caller' = [caller EXCEPT ![t] = [at |-> "look", model |-> m]]
      /\ [at |-> "look", model |-> m] \in [at : Steps, model : Models \cup {"none"}]
  BY DEF Calls, Steps
<1>2. CallersTyped'
  BY <1>1 DEF IInv, CallersTyped
<1> QED
  BY <1>1, <1>2 DEF IInv, CallersTyped, LoadersHoldTheLock, RunnersHoldTheLock

\* A thread that goes on with the same model.
LEMMA AtEffect ==
  ASSUME CallersTyped, NEW t \in Threads, NEW at \in Steps, At(t, at), caller[t].at # "away"
  PROVE  /\ caller' \in [Threads -> [at : Steps, model : Models \cup {"none"}]]
         /\ \A u \in Threads : caller'[u].at # "away" => caller'[u].model \in Models
         /\ caller'[t].at = at /\ caller'[t].model = Model(t) /\ Model(t) \in Models
         /\ \A u \in Threads \ {t} : caller'[u] = caller[u]
<1>1. caller' = [caller EXCEPT ![t] = [caller[t] EXCEPT !.at = at]]
  BY DEF At, CallersTyped
<1>2. /\ caller[t] \in [at : Steps, model : Models \cup {"none"}]
      /\ [caller[t] EXCEPT !.at = at] \in [at : Steps, model : Models \cup {"none"}]
  BY DEF CallersTyped
<1> QED
  BY <1>1, <1>2 DEF CallersTyped

\* One step of a thread through the two locks.
LEMMA UseStep ==
  ASSUME IInv, NEW t \in Threads, UseModel(t)
  PROVE  IInv'
<1> USE DEF IInv
<1>0. caller[t].at \in {"look", "lock", "recheck", "build"} /\ inferLock' = inferLock
  BY DEF UseModel, Look, LockModel, Recheck, Build, BuildFails
<1>1. Model(t) \in Models
  BY <1>0 DEF CallersTyped
<1>2. CASE Look(t)
  <2>1. \E at \in {"infer", "lock"} : At(t, at)
    BY <1>2 DEF Look
  <2>2. PICK at \in {"infer", "lock"} : At(t, at)
    BY <2>1
  <2> QED
    BY <1>0, <1>2, <2>2, AtEffect
    DEF Look, Steps, CallersTyped, LoadersHoldTheLock, RunnersHoldTheLock
<1>3. CASE LockModel(t)
  <2>1. /\ At(t, "recheck") /\ loadLock' = [loadLock EXCEPT ![Model(t)] = t]
        /\ loadLock[Model(t)] = Free /\ UNCHANGED loaded
    BY <1>3 DEF LockModel
  <2>2. \A u \in Threads : caller[u].at \in {"recheck", "build"} => Model(u) # Model(t)
    BY <2>1, RetrievalAssumption DEF LoadersHoldTheLock, RetrievalAssumption
  <2> QED
    BY <1>0, <1>1, <2>1, <2>2, AtEffect
    DEF Steps, CallersTyped, LoadersHoldTheLock, RunnersHoldTheLock
<1>4. CASE Recheck(t)
  <2>1. loadLock[Model(t)] = t /\ UNCHANGED loaded
    BY <1>4 DEF Recheck, LoadersHoldTheLock
  <2>2. CASE loaded[Model(t)]
    <3>1. At(t, "infer") /\ loadLock' = [loadLock EXCEPT ![Model(t)] = Free]
      BY <1>4, <2>2 DEF Recheck
    <3>2. CallersTyped' /\ caller'[t].at = "infer" /\ \A u \in Threads \ {t} : caller'[u] = caller[u]
      BY <1>0, <1>1, <2>1, <3>1, AtEffect DEF Steps, CallersTyped
    <3>3. \A u \in Threads \ {t} : caller[u].at \in {"recheck", "build"} => Model(u) # Model(t)
      BY <2>1 DEF LoadersHoldTheLock
    <3>4. LoadersHoldTheLock'
      BY <1>1, <2>1, <3>1, <3>2, <3>3 DEF CallersTyped, LoadersHoldTheLock
    <3> QED
      BY <1>0, <3>2, <3>4 DEF RunnersHoldTheLock
  <2>3. CASE ~loaded[Model(t)]
    <3>1. At(t, "build") /\ UNCHANGED loadLock
      BY <1>4, <2>3 DEF Recheck
    <3>2. /\ CallersTyped' /\ caller'[t].at = "build" /\ caller'[t].model = Model(t)
          /\ \A u \in Threads \ {t} : caller'[u] = caller[u]
      BY <1>0, <2>1, <3>1, AtEffect DEF Steps, CallersTyped
    <3>3. LoadersHoldTheLock'
      BY <2>1, <2>3, <3>1, <3>2 DEF LoadersHoldTheLock
    <3> QED
      BY <1>0, <3>2, <3>3 DEF RunnersHoldTheLock
  <2> QED
    BY <2>2, <2>3
<1>5. CASE Build(t) \/ BuildFails(t)
  <2>1. PICK at \in {"infer", "away"} : At(t, at)
    BY <1>5 DEF Build, BuildFails
  <2>2. /\ loadLock' = [loadLock EXCEPT ![Model(t)] = Free] /\ loadLock[Model(t)] = t
        /\ loaded' \in {loaded, [loaded EXCEPT ![Model(t)] = TRUE]}
    BY <1>5 DEF Build, BuildFails, LoadersHoldTheLock
  <2>3. \A u \in Threads \ {t} : caller[u].at \in {"recheck", "build"} => Model(u) # Model(t)
    BY <2>2 DEF LoadersHoldTheLock
  <2>4. CallersTyped' /\ caller'[t].at = at /\ \A u \in Threads \ {t} : caller'[u] = caller[u]
    BY <1>0, <1>1, <2>1, <2>2, AtEffect DEF Steps, CallersTyped
  <2>5. LoadersHoldTheLock'
    BY <1>1, <2>2, <2>3, <2>4 DEF CallersTyped, LoadersHoldTheLock
  <2> QED
    BY <1>0, <2>4, <2>5 DEF RunnersHoldTheLock
<1> QED
  BY <1>2, <1>3, <1>4, <1>5 DEF UseModel

\* A search enters a model, or leaves it.
LEMMA InferStep ==
  ASSUME IInv, NEW s \in Searches, Infer(s) \/ Inferred(s)
  PROVE  IInv'
<1> USE DEF IInv
<1>0. s \in Threads /\ caller[s].at \in {"infer", "running"} /\ UNCHANGED <<loaded, loadLock>>
  BY DEF Infer, Inferred, Threads
<1>1. Model(s) \in Models
  BY <1>0 DEF CallersTyped
<1>2. CASE Infer(s)
  <2>1. \A u \in Threads : caller[u].at = "running" => Model(u) # Model(s)
    BY <1>2, RetrievalAssumption DEF Infer, RunnersHoldTheLock, RetrievalAssumption
  <2> QED
    BY <1>0, <1>1, <1>2, <2>1, AtEffect
    DEF Infer, Steps, CallersTyped, LoadersHoldTheLock, RunnersHoldTheLock
<1>3. CASE Inferred(s)
  <2>1. \A u \in Threads \ {s} : caller[u].at = "running" => Model(u) # Model(s)
    BY <1>0, <1>3 DEF Inferred, RunnersHoldTheLock
  <2>2. At(s, "away") /\ inferLock' = [inferLock EXCEPT ![Model(s)] = Free]
    BY <1>3 DEF Inferred
  <2>3. CallersTyped' /\ caller'[s].at = "away" /\ \A u \in Threads \ {s} : caller'[u] = caller[u]
    BY <1>0, <1>1, <2>2, AtEffect DEF Steps, CallersTyped
  <2>4. RunnersHoldTheLock'
    BY <1>1, <2>1, <2>2, <2>3 DEF CallersTyped, RunnersHoldTheLock
  <2> QED
    BY <1>0, <2>3, <2>4 DEF LoadersHoldTheLock
<1> QED
  BY <1>2, <1>3

\* The locks hold whatever searches, start-up and changes of the corpus do.
THEOREM Invariance == Spec => []IInv
<1>1. IInv /\ [Next]_vars => IInv'
  <2> SUFFICES ASSUME IInv, [Next]_vars PROVE IInv'
    OBVIOUS
  <2>1. CASE UNCHANGED models
    BY <2>1 DEF models, IInv, CallersTyped, LoadersHoldTheLock, RunnersHoldTheLock
  <2>2. ASSUME NEW s \in Searches, Begin(s) \/ Load(s) PROVE IInv'
    <3>1. UNCHANGED models \/ \E m \in Models : Calls(s, m)
      BY <2>2 DEF Begin, Load, models, Models
    <3>2. UNCHANGED <<loaded, loadLock, inferLock>> /\ s \in Threads
      BY <2>2 DEF Begin, Load, Threads
    <3> QED
      BY <2>1, <3>1, <3>2, CallEffect
  <2>3. ASSUME NEW s \in Searches,
               RunDense(s) \/ RunLexical(s) \/ ProbeDense(s) \/ ProbeLexical(s) \/ Exclude(s)
        PROVE  IInv'
    BY <2>1, <2>3 DEF RunDense, RunLexical, ProbeDense, ProbeLexical, Exclude
  <2>4. ASSUME NEW s \in Searches, Infer(s) \/ Inferred(s) PROVE IInv'
    BY <2>4, InferStep
  <2>5. ASSUME NEW t \in Threads, UseModel(t) PROVE IInv'
    BY <2>5, UseStep
  <2>6. CASE Warmed
    <3>1. Warmup \in Threads /\ caller[Warmup].at = "infer" /\ UNCHANGED <<loaded, loadLock, inferLock>>
      BY <2>6 DEF Warmed, Threads
    <3>2. CASE Calls(Warmup, "reranker")
      BY <3>1, <3>2, CallEffect DEF Models
    <3>3. CASE At(Warmup, "away")
      BY <3>1, <3>3, AtEffect
      DEF IInv, Steps, CallersTyped, LoadersHoldTheLock, RunnersHoldTheLock
    <3> QED
      BY <2>6, <3>2, <3>3 DEF Warmed
  <2>7. ASSUME NEW c \in Chunks, Ingested(c) \/ Embedded(c) \/ Vanished(c) PROVE IInv'
    BY <2>1, <2>7 DEF Ingested, Embedded, Vanished, Changed
  <2>8. CASE Rebuilt
    BY <2>1, <2>8 DEF Rebuilt, Changed
  <2>9. CASE Done \/ UNCHANGED vars
    BY <2>1, <2>9 DEF Done, vars
  <2> QED
    BY <2>2, <2>3, <2>4, <2>5, <2>6, <2>7, <2>8, <2>9 DEF Next
<1> QED
  BY InitIInv, <1>1, PTL DEF Spec

\* Each model is built by one thread at a time and never again once it is cached,
\* and no two threads are inside it (embeddings.py, reranker.py: both locks).
THEOREM ModelsAlwaysSafe == Spec => []ModelsAreSafe
<1>1. IInv => ModelsAreSafe
  <2> SUFFICES ASSUME IInv, NEW m \in Models
               PROVE  LET at(stage) == {t \in Threads : caller[t].model = m /\ caller[t].at = stage}
                      IN  /\ Cardinality(at("build")) <= 1 /\ Cardinality(at("running")) <= 1
                          /\ loaded[m] => at("build") = {}
    BY DEF ModelsAreSafe
  <2> DEFINE at(stage) == {t \in Threads : caller[t].model = m /\ caller[t].at = stage}
  <2>1. at("build") \subseteq {loadLock[m]} /\ at("running") \subseteq {inferLock[m]}
    BY DEF IInv, LoadersHoldTheLock, RunnersHoldTheLock
  <2>2. \A x, S : S \subseteq {x} => Cardinality(S) <= 1
    <3> SUFFICES ASSUME NEW x, NEW S, S \subseteq {x} PROVE Cardinality(S) <= 1
      OBVIOUS
    <3>1. IsFiniteSet({x}) /\ Cardinality({x}) = 1
      BY FS_Singleton
    <3> QED
      BY <3>1, FS_Subset
  <2>3. loaded[m] => at("build") = {}
    BY DEF IInv, LoadersHoldTheLock
  <2> QED
    BY <2>1, <2>2, <2>3
<1> QED
  BY Invariance, <1>1, PTL

-----------------------------------------------------------------------------
(* Lists in an order.                                                       *)

\* Every non-empty set of numbers has a least one.
LEMMA LeastExists ==
  ASSUME NEW S \in SUBSET Nat, S # {}
  PROVE  \E x \in S : \A y \in S : x <= y
<1> DEFINE less == OpToRel(<, Nat)
<1>1. IsWellFoundedOn(less, Nat)
  BY NatLessThanWellFounded
<1>2. \A x, y \in Nat : x < y => <<x, y>> \in less
  BY DEF OpToRel
<1> HIDE DEF less
<1>3. PICK x \in S : \A y \in S : ~(<<y, x>> \in less)
  BY <1>1, WFMin, Zenon
<1>4. ASSUME NEW y \in S PROVE x <= y
  <2>1. x \in Nat /\ y \in Nat
    OBVIOUS
  <2>2. ~(y < x)
    BY <1>2, <1>3, <2>1
  <2>3. QED
    BY <2>1, <2>2
<1>5. QED
  BY <1>4

\* The members of a finite set in a strict total order: each stands once in the list,
\* behind those before it.
LEMMA Listed ==
  ASSUME NEW S, IsFiniteSet(S), NEW before,
         \A x, y \in S : x # y => <<x, y>> \in before \/ <<y, x>> \in before,
         \A x, y \in S : ~(<<x, y>> \in before /\ <<y, x>> \in before),
         \A x, y, z \in S : <<x, y>> \in before /\ <<y, z>> \in before => <<x, z>> \in before
  PROVE  /\ Listing(S, before) \in Seq(S)
         /\ \A x \in S : \E i \in DOMAIN Listing(S, before) : Listing(S, before)[i] = x
         /\ \A i, j \in DOMAIN Listing(S, before) :
              i < j => <<Listing(S, before)[i], Listing(S, before)[j]>> \in before
<1> DEFINE UpTo(x) == {y \in S : y = x \/ <<y, x>> \in before}
           n == Cardinality(S)
           list == Listing(S, before)
<1>1. n \in Nat
  BY FS_CardinalityType
<1>2. ASSUME NEW x \in S
      PROVE  x \in UpTo(x) /\ IsFiniteSet(UpTo(x)) /\ Cardinality(UpTo(x)) \in 1 .. n
  <2>1. UpTo(x) \subseteq S /\ x \in UpTo(x)
    OBVIOUS
  <2> HIDE DEF UpTo
  <2>2. IsFiniteSet(UpTo(x)) /\ Cardinality(UpTo(x)) <= n
    BY <2>1, FS_Subset
  <2>3. Cardinality(UpTo(x)) \in Nat /\ Cardinality(UpTo(x)) # 0
    BY <2>1, <2>2, FS_CardinalityType, FS_EmptySet
  <2>4. QED
    BY <1>1, <2>1, <2>2, <2>3
<1>3. ASSUME NEW x \in S, NEW y \in S, <<x, y>> \in before
      PROVE  Cardinality(UpTo(x)) < Cardinality(UpTo(y))
  <2>1. UpTo(x) \subseteq UpTo(y) /\ y \in UpTo(y) /\ y \notin UpTo(x)
    BY <1>3
  <2>2. /\ IsFiniteSet(UpTo(y)) /\ Cardinality(UpTo(x)) \in Nat /\ Cardinality(UpTo(y)) \in Nat
    BY <1>2
  <2> HIDE DEF UpTo
  <2>3. Cardinality(UpTo(x)) <= Cardinality(UpTo(y)) /\ Cardinality(UpTo(x)) # Cardinality(UpTo(y))
    BY <2>1, <2>2, FS_Subset
  <2>4. QED
    BY <2>2, <2>3
<1>4. ASSUME NEW x \in S, NEW y \in S, Cardinality(UpTo(x)) = Cardinality(UpTo(y)) PROVE x = y
  <2>1. Cardinality(UpTo(x)) \in Nat /\ Cardinality(UpTo(y)) \in Nat
    BY <1>2
  <2> HIDE DEF UpTo
  <2>2. ~(<<x, y>> \in before) /\ ~(<<y, x>> \in before)
    BY <1>3, <1>4, <2>1
  <2>3. QED
    BY <2>2
<1>5. DOMAIN list = 1 .. n /\ \A i \in 1 .. n : list[i] = CHOOSE x \in S : Cardinality(UpTo(x)) = i
  BY DEF Listing
<1>6. ASSUME NEW i \in 1 .. n PROVE list[i] \in S /\ Cardinality(UpTo(list[i])) = i
  <2> DEFINE place == [x \in S |-> Cardinality(UpTo(x))]
  <2> HIDE DEF UpTo
  <2>1. place \in [S -> 1 .. n] /\ \A x, y \in S : place[x] = place[y] => x = y
    BY <1>2, <1>4
  <2>2. \A x \in S : place[x] = Cardinality(UpTo(x))
    OBVIOUS
  <2> HIDE DEF place
  <2>3. place \in Injection(S, 1 .. n)
    BY <2>1 DEF Injection, IsInjective
  <2>4. IsFiniteSet(1 .. n) /\ Cardinality(1 .. n) = n
    BY <1>1, FS_Interval
  <2>5. place \in Surjection(S, 1 .. n)
    BY <2>3, <2>4, FS_Injection
  <2>6. \E x \in S : Cardinality(UpTo(x)) = i
    BY <2>2, <2>5 DEF Surjection
  <2> HIDE DEF list
  <2>7. QED
    BY <1>5, <2>6
<1> HIDE DEF UpTo, list, n
<1>7. ASSUME NEW x \in S PROVE \E i \in DOMAIN list : list[i] = x
  <2>1. Cardinality(UpTo(x)) \in 1 .. n
    BY <1>2
  <2>2. list[Cardinality(UpTo(x))] = x
    BY <1>4, <1>6, <2>1
  <2>3. QED
    BY <1>5, <2>1, <2>2
<1>8. ASSUME NEW i \in DOMAIN list, NEW j \in DOMAIN list, i < j PROVE <<list[i], list[j]>> \in before
  <2>1. /\ list[i] \in S /\ list[j] \in S /\ i \in Nat /\ j \in Nat
        /\ Cardinality(UpTo(list[i])) = i /\ Cardinality(UpTo(list[j])) = j
    BY <1>1, <1>5, <1>6
  <2>2. list[i] # list[j]
    BY <1>8, <2>1
  <2>3. ~(<<list[j], list[i]>> \in before)
    BY <1>3, <1>8, <2>1
  <2>4. QED
    BY <2>1, <2>2, <2>3
<1>9. list \in [1 .. n -> S]
  <2> DEFINE member(i) == CHOOSE x \in S : Cardinality(UpTo(x)) = i
  <2>1. list = [i \in 1 .. n |-> member(i)]
    BY DEF list, Listing, n, UpTo
  <2>2. \A i \in 1 .. n : member(i) \in S
    BY <1>5, <1>6
  <2> HIDE DEF member
  <2>3. QED
    BY <2>1, <2>2
<1>10. list \in Seq(S)
  BY <1>1, <1>9
<1>11. QED
  BY <1>7, <1>8, <1>10 DEF list

\* What a list has of a set: the list at its positions there, in their order.
LEMMA KeptInOrder ==
  ASSUME NEW T, NEW list \in Seq(T), NEW S
  PROVE  /\ Only(list, S) \in Seq(T \cap S)
         /\ Range(Only(list, S)) = Range(list) \cap S
         /\ \A i, j \in DOMAIN Only(list, S) : i < j =>
              \E a, b \in DOMAIN list : /\ a < b
                                       /\ Only(list, S)[i] = list[a] /\ Only(list, S)[j] = list[b]
         /\ \A i \in DOMAIN Only(list, S) : \E a \in DOMAIN list : Only(list, S)[i] = list[a]
         /\ Len(Only(list, S)) \in 0 .. Len(list)
<1> DEFINE at == {i \in DOMAIN list : list[i] \in S}
           before == {p \in at \X at : p[1] < p[2]}
           kept == Listing(at, before)
           m == Len(list)
           k == Cardinality(at)
<1>1. at \subseteq 1 .. m /\ DOMAIN list = 1 .. m /\ m \in Nat
  OBVIOUS
<1>2. IsFiniteSet(at) /\ k <= m /\ k \in Nat
  <2> HIDE DEF at, m
  <2>1. IsFiniteSet(1 .. m) /\ Cardinality(1 .. m) = m
    BY <1>1, FS_Interval
  <2>2. IsFiniteSet(at) /\ k <= m
    <3>1. at \in SUBSET (1 .. m)
      BY <1>1
    <3>2. IsFiniteSet(at) /\ Cardinality(at) <= Cardinality(1 .. m)
      BY <2>1, <3>1, FS_Subset
    <3>3. QED
      BY <2>1, <3>2
  <2>3. QED
    BY <2>2, FS_CardinalityType
<1>3. \A a, b \in at : <<a, b>> \in before <=> a < b
  OBVIOUS
<1>4. \A a \in at : a \in Nat
  BY <1>1
<1>5. /\ kept \in Seq(at)
      /\ \A a \in at : \E i \in DOMAIN kept : kept[i] = a
      /\ \A i, j \in DOMAIN kept : i < j => <<kept[i], kept[j]>> \in before
  <2> HIDE DEF at, before
  <2>1. \A x, y \in at : x # y => <<x, y>> \in before \/ <<y, x>> \in before
    BY <1>3, <1>4
  <2>2. ASSUME NEW x \in at, NEW y \in at, <<x, y>> \in before, <<y, x>> \in before PROVE FALSE
    <3>1. x < y /\ y < x /\ x \in Nat /\ y \in Nat
      BY <1>3, <1>4, <2>2
    <3>2. QED
      BY <3>1
  <2>3. \A x, y, z \in at : <<x, y>> \in before /\ <<y, z>> \in before => <<x, z>> \in before
    BY <1>3, <1>4
  <2>4. QED
    BY <1>2, <2>1, <2>2, <2>3, Listed
<1>6. /\ DOMAIN Only(list, S) = DOMAIN kept /\ \A i \in DOMAIN kept : Only(list, S)[i] = list[kept[i]]
      /\ Only(list, S) = [i \in DOMAIN kept |-> list[kept[i]]]
  BY DEF Only
<1>7. DOMAIN kept = 1 .. k
  BY DEF Listing
<1> HIDE DEF k, m
<1>8. \A i \in DOMAIN kept : kept[i] \in at /\ kept[i] \in DOMAIN list /\ list[kept[i]] \in T \cap S
  BY <1>5
<1> HIDE DEF kept, before
<1>9. Only(list, S) \in Seq(T \cap S)
  <2>1. Only(list, S) \in [1 .. k -> T \cap S]
    BY <1>6, <1>7, <1>8
  <2>2. QED
    BY <1>2, <2>1
<1>10. Len(Only(list, S)) \in 0 .. Len(list)
  <2>1. Len(Only(list, S)) = k
    BY <1>2, <1>6, <1>7, <1>9
  <2>2. QED
    BY <1>2, <2>1 DEF m
<1>11. ASSUME NEW x \in Range(list) \cap S PROVE x \in Range(Only(list, S))
  <2>1. PICK a \in DOMAIN list : list[a] = x
    BY DEF Range
  <2>2. a \in at
    BY <2>1
  <2>3. PICK i \in DOMAIN kept : kept[i] = a
    BY <1>5, <2>2
  <2>4. QED
    BY <1>6, <2>1, <2>3 DEF Range
<1>12. ASSUME NEW x \in Range(Only(list, S)) PROVE x \in Range(list) \cap S
  BY <1>6, <1>8 DEF Range
<1>13. ASSUME NEW i \in DOMAIN Only(list, S), NEW j \in DOMAIN Only(list, S), i < j
       PROVE  \E a, b \in DOMAIN list : /\ a < b
                                       /\ Only(list, S)[i] = list[a] /\ Only(list, S)[j] = list[b]
  <2>1. <<kept[i], kept[j]>> \in before /\ kept[i] \in at /\ kept[j] \in at
    BY <1>5, <1>6, <1>8, <1>13
  <2>2. QED
    BY <1>3, <1>6, <1>8, <2>1
<1>14. QED
  BY <1>6, <1>8, <1>9, <1>10, <1>11, <1>12, <1>13

\* The rank of a chunk is where it first stands in the list.
LEMMA RankStands ==
  ASSUME NEW T, NEW list \in Seq(T), NEW c
  PROVE  /\ RankIn(list, c) \in Nat
         /\ RankIn(list, c) = 0 <=> c \notin Range(list)
         /\ RankIn(list, c) # 0 =>
              /\ RankIn(list, c) \in DOMAIN list /\ list[RankIn(list, c)] = c
              /\ \A j \in DOMAIN list : j < RankIn(list, c) => list[j] # c
<1> DEFINE places == {i \in DOMAIN list : list[i] = c}
           IsFirst(i) == list[i] = c /\ \A j \in 1..(i - 1) : list[j] # c
           rank == CHOOSE i \in DOMAIN list : IsFirst(i)
<1>1. DOMAIN list \subseteq Nat \ {0} /\ \A i \in DOMAIN list, j \in Nat \ {0} : j < i => j \in DOMAIN list
  OBVIOUS
<1>2. CASE places = {}
  BY <1>2 DEF RankIn, Range
<1>3. CASE places # {}
  <2>1. places \in SUBSET Nat
    BY <1>1
  <2>2. PICK i \in places : \A j \in places : i <= j
    BY <1>3, <2>1, LeastExists
  <2>3. i \in DOMAIN list /\ list[i] = c /\ i \in Nat
    BY <2>1, <2>2
  <2>4. ASSUME NEW j \in 1..(i - 1) PROVE list[j] # c
    <3>1. j \in DOMAIN list /\ j \in Nat /\ j < i
      BY <1>1, <2>3
    <3>2. QED
      BY <2>2, <2>3, <3>1
  <2>5. IsFirst(i)
    BY <2>3, <2>4
  <2>6. rank \in DOMAIN list /\ IsFirst(rank)
    <3> HIDE DEF IsFirst
    <3> QED
      BY <2>3, <2>5
  <2>7. RankIn(list, c) = rank
    BY <2>3 DEF RankIn
  <2>8. \A j \in DOMAIN list : j < rank => list[j] # c
    <3> HIDE DEF rank
    <3> QED
      BY <1>1, <2>6
  <2> HIDE DEF rank
  <2>9. QED
    BY <1>1, <2>3, <2>6, <2>7, <2>8 DEF Range
<1>4. QED
  BY <1>2, <1>3

\* Numbers may be multiplied by one that is not zero, on either side of an order.
LEMMA Multiplied ==
  ASSUME NEW a \in Nat, NEW b \in Nat, NEW n \in Nat \ {0}
  PROVE  /\ a * n \in Nat /\ b * n \in Nat /\ a * n = n * a
         /\ a < b <=> a * n < b * n
         /\ a <= b <=> a * n <= b * n
OBVIOUS

\* Fractions compared crosswise are ordered.
LEMMA FractionsOrdered ==
  ASSUME NEW a \in Nat, NEW b \in Nat, NEW c \in Nat,
         NEW x \in Nat \ {0}, NEW y \in Nat \ {0}, NEW z \in Nat \ {0},
         a * y >= b * x, b * z >= c * y
  PROVE  /\ a * z >= c * x
         /\ a * y > b * x \/ b * z > c * y => a * z > c * x
<1>1. /\ (a * y) * z \in Nat /\ (b * x) * z \in Nat /\ (b * z) * x \in Nat /\ (c * y) * x \in Nat
      /\ a * z \in Nat /\ c * x \in Nat /\ (a * z) * y \in Nat /\ (c * x) * y \in Nat
      /\ a * y \in Nat /\ b * x \in Nat /\ b * z \in Nat /\ c * y \in Nat
  OBVIOUS
<1>2. (a * y) * z >= (b * x) * z /\ (a * y > b * x => (a * y) * z > (b * x) * z)
  BY <1>1, Multiplied
<1>3. (b * z) * x >= (c * y) * x /\ (b * z > c * y => (b * z) * x > (c * y) * x)
  BY <1>1, Multiplied
<1>4. (a * y) * z = (a * z) * y /\ (b * x) * z = (b * z) * x /\ (c * y) * x = (c * x) * y
  OBVIOUS
<1>5. (a * z) * y >= (c * x) * y /\ (a * y > b * x \/ b * z > c * y => (a * z) * y > (c * x) * y)
  BY <1>1, <1>2, <1>3, <1>4
<1>6. QED
  BY <1>1, <1>5, Multiplied

\* Two positive fractions of one are more than two whose denominators are greater.
LEMMA SmallerDenominators ==
  ASSUME NEW a \in Nat \ {0}, NEW b \in Nat \ {0}, NEW c \in Nat, NEW d \in Nat, a < c, b < d
  PROVE  (a + b) * (c * d) > (c + d) * (a * b)
<1>1. /\ a * c \in Nat \ {0} /\ b * d \in Nat \ {0}
  OBVIOUS
<1>2. /\ b * (a * c) < d * (a * c) /\ a * (b * d) < c * (b * d)
  BY <1>1, Multiplied
<1>3. /\ (a + b) * (c * d) = d * (a * c) + c * (b * d)
      /\ (c + d) * (a * b) = b * (a * c) + a * (b * d)
  OBVIOUS
<1>4. /\ b * (a * c) \in Nat /\ d * (a * c) \in Nat /\ a * (b * d) \in Nat /\ c * (b * d) \in Nat
  OBVIOUS
<1> QED
  BY <1>2, <1>3, <1>4

\* A list has finitely many members.
LEMMA FinitelyMany ==
  ASSUME NEW T, NEW list \in Seq(T)
  PROVE  IsFiniteSet(Range(list)) /\ Range(list) \subseteq T
<1> DEFINE m == Len(list)
<1>1. m \in Nat /\ list \in [1 .. m -> Range(list)] /\ \A x \in Range(list) : \E i \in 1 .. m : list[i] = x
  BY DEF Range
<1>2. Range(list) \subseteq T
  BY DEF Range
<1> HIDE DEF m
<1>3. list \in Surjection(1 .. m, Range(list)) /\ IsFiniteSet(1 .. m)
  BY <1>1, FS_Interval DEF Surjection
<1>4. QED
  BY <1>2, <1>3, FS_Surjection

\* The score of a chunk that stands in a list is a positive fraction.
LEMMA ScoreIsFraction ==
  ASSUME NEW dense \in Seq(Chunks), NEW lexical \in Seq(Chunks), NEW c \in Range(dense) \cup Range(lexical)
  PROVE  RrfScore(dense, lexical, c)[1] \in Nat \ {0} /\ RrfScore(dense, lexical, c)[2] \in Nat \ {0}
<1> DEFINE d == RankIn(dense, c)
           l == RankIn(lexical, c)
<1>1. d \in Nat /\ l \in Nat /\ (d # 0 \/ l # 0) /\ RrfK \in Nat \ {0}
  BY RankStands, RetrievalAssumption DEF RetrievalAssumption
<1>2. RrfScore(dense, lexical, c) =
        IF d = 0 THEN <<1, RrfK + l>> ELSE IF l = 0 THEN <<1, RrfK + d>>
        ELSE <<(RrfK + d) + (RrfK + l), (RrfK + d) * (RrfK + l)>>
  BY DEF RrfScore
<1> HIDE DEF d, l
<1>3. RrfK + d \in Nat \ {0} /\ RrfK + l \in Nat \ {0}
  BY <1>1
<1>4. (RrfK + d) * (RrfK + l) \in Nat \ {0} /\ (RrfK + d) + (RrfK + l) \in Nat \ {0}
  BY <1>3
<1>5. QED
  BY <1>2, <1>3, <1>4

\* Fusion lists each chunk of the two lists, the higher score first.
LEMMA FusedInOrder ==
  ASSUME NEW dense \in Seq(Chunks), NEW lexical \in Seq(Chunks)
  PROVE  /\ Fused(dense, lexical) \in Seq(Chunks)
         /\ Range(Fused(dense, lexical)) = Range(dense) \cup Range(lexical)
         /\ \A i, j \in DOMAIN Fused(dense, lexical) : i < j =>
              FusedBefore(dense, lexical, Fused(dense, lexical)[i], Fused(dense, lexical)[j])
<1> DEFINE all == Range(dense) \cup Range(lexical)
           before == {p \in all \X all : FusedBefore(dense, lexical, p[1], p[2])}
           num(c) == RrfScore(dense, lexical, c)[1]
           den(c) == RrfScore(dense, lexical, c)[2]
<1>1. IsFiniteSet(all) /\ all \subseteq Chunks /\ \A c \in all : c \in Nat
  BY FinitelyMany, FS_Union, RetrievalAssumption DEF RetrievalAssumption
<1>2. \A c \in all : num(c) \in Nat \ {0} /\ den(c) \in Nat \ {0}
  BY ScoreIsFraction
<1>3. \A a, b \in all : <<a, b>> \in before <=>
        num(a) * den(b) > num(b) * den(a) \/ (num(a) * den(b) = num(b) * den(a) /\ a < b)
  BY DEF FusedBefore
<1> HIDE DEF all, before, num, den
<1>4. \A a, b \in all : num(a) * den(b) \in Nat
  BY <1>2
<1>5. ASSUME NEW a \in all, NEW b \in all, a # b PROVE <<a, b>> \in before \/ <<b, a>> \in before
  <2>1. num(a) * den(b) \in Nat /\ num(b) * den(a) \in Nat /\ a \in Nat /\ b \in Nat
    BY <1>1, <1>4
  <2>2. QED
    BY <1>3, <1>5, <2>1
<1>6. ASSUME NEW a \in all, NEW b \in all, <<a, b>> \in before, <<b, a>> \in before PROVE FALSE
  <2>1. num(a) * den(b) \in Nat /\ num(b) * den(a) \in Nat /\ a \in Nat /\ b \in Nat
    BY <1>1, <1>4
  <2>2. QED
    BY <1>3, <1>6, <2>1
<1>7. ASSUME NEW a \in all, NEW b \in all, NEW c \in all, <<a, b>> \in before, <<b, c>> \in before
      PROVE  <<a, c>> \in before
  <2>1. /\ num(a) * den(b) >= num(b) * den(a) /\ num(b) * den(c) >= num(c) * den(b)
        /\ num(a) * den(b) > num(b) * den(a) \/ num(b) * den(c) > num(c) * den(b) \/ (a < b /\ b < c)
    BY <1>3, <1>4, <1>7
  <2>2. /\ num(a) * den(c) >= num(c) * den(a)
        /\ num(a) * den(b) > num(b) * den(a) \/ num(b) * den(c) > num(c) * den(b) =>
             num(a) * den(c) > num(c) * den(a)
    BY <1>2, <2>1, FractionsOrdered
  <2>3. a < b /\ b < c => a < c
    BY <1>1
  <2>4. num(a) * den(c) \in Nat /\ num(c) * den(a) \in Nat
    BY <1>4
  <2>5. QED
    BY <1>3, <2>1, <2>2, <2>3, <2>4
<1>8. Fused(dense, lexical) = Listing(all, before)
  BY DEF Fused, all, before
<1>9. /\ Fused(dense, lexical) \in Seq(all)
      /\ \A x \in all : \E i \in DOMAIN Fused(dense, lexical) : Fused(dense, lexical)[i] = x
      /\ \A i, j \in DOMAIN Fused(dense, lexical) :
           i < j => <<Fused(dense, lexical)[i], Fused(dense, lexical)[j]>> \in before
  BY <1>1, <1>5, <1>6, <1>7, <1>8, Listed
<1>10. Range(Fused(dense, lexical)) = all /\ Fused(dense, lexical) \in Seq(Chunks)
  BY <1>1, <1>9 DEF Range
<1>11. QED
  BY <1>9, <1>10 DEF before, all

\* What both retrievers rank better is before what they rank worse.
LEMMA BothBetterIsFirst ==
  ASSUME NEW dense \in Seq(Chunks), NEW lexical \in Seq(Chunks), NEW a, NEW b,
         RankIn(dense, b) # 0, RankIn(lexical, b) # 0,
         RankIn(dense, b) < RankIn(dense, a), RankIn(lexical, b) < RankIn(lexical, a)
  PROVE  ~FusedBefore(dense, lexical, a, b)
<1> DEFINE A == RrfK + RankIn(dense, b)
           B == RrfK + RankIn(lexical, b)
           C == RrfK + RankIn(dense, a)
           D == RrfK + RankIn(lexical, a)
<1>1. /\ RankIn(dense, a) \in Nat /\ RankIn(lexical, a) \in Nat /\ RrfK \in Nat
      /\ RankIn(dense, b) \in Nat /\ RankIn(lexical, b) \in Nat
  BY RankStands, RetrievalAssumption DEF RetrievalAssumption
<1>2. /\ RrfScore(dense, lexical, b) = <<A + B, A * B>>
      /\ RrfScore(dense, lexical, a) = <<C + D, C * D>>
  BY <1>1 DEF RrfScore
<1>3. A \in Nat \ {0} /\ B \in Nat \ {0} /\ C \in Nat /\ D \in Nat /\ A < C /\ B < D
  BY <1>1
<1>4. FusedBefore(dense, lexical, a, b) => (C + D) * (A * B) >= (A + B) * (C * D)
  <2> HIDE DEF A, B, C, D
  <2>1. (C + D) * (A * B) \in Nat /\ (A + B) * (C * D) \in Nat
    BY <1>3
  <2>2. QED
    BY <1>2, <2>1 DEF FusedBefore
<1> HIDE DEF A, B, C, D
<1>5. (A + B) * (C * D) > (C + D) * (A * B)
  BY <1>3, SmallerDenominators
<1>6. (C + D) * (A * B) \in Nat /\ (A + B) * (C * D) \in Nat
  BY <1>3
<1>7. QED
  BY <1>4, <1>5, <1>6

\* A chunk at the head of both lists, or of the only one, is the first of the fusion.
LEMMA TopIsFirst ==
  ASSUME NEW dense \in Seq(Chunks), NEW lexical \in Seq(Chunks), lexical # <<>>,
         dense = <<>> \/ (dense # <<>> /\ dense[1] = lexical[1])
  PROVE  Fused(dense, lexical) # <<>> /\ Fused(dense, lexical)[1] = lexical[1]
<1> DEFINE top == lexical[1]
           all == Range(dense) \cup Range(lexical)
           M == RrfK + 1
           fused == Fused(dense, lexical)
<1>1. 1 \in DOMAIN lexical /\ top \in Range(lexical) /\ RrfK \in Nat
  <2>1. 1 \in DOMAIN lexical
    OBVIOUS
  <2>2. QED
    BY <2>1, RetrievalAssumption DEF Range, RetrievalAssumption
<1>2. RankIn(lexical, top) = 1
  BY <1>1, RankStands
<1>3. IF dense = <<>> THEN \A c : RankIn(dense, c) = 0 ELSE RankIn(dense, top) = 1
  <2>1. CASE dense = <<>>
    <3>1. \A c : c \notin Range(dense)
      BY <2>1 DEF Range
    <3>2. \A c : RankIn(dense, c) = 0
      BY <3>1, RankStands
    <3>3. QED
      BY <2>1, <3>2
  <2>2. CASE dense # <<>>
    <3>1. 1 \in DOMAIN dense /\ dense[1] = top
      BY <2>2
    <3>2. top \in Range(dense)
      BY <3>1 DEF Range
    <3>3. QED
      BY <2>2, <3>1, <3>2, RankStands
  <2>3. QED
    BY <2>1, <2>2
<1>4. ASSUME NEW c \in all, c # top PROVE ~FusedBefore(dense, lexical, c, top)
  <2> DEFINE d == RankIn(dense, c)
             l == RankIn(lexical, c)
  <2>1. d \in Nat /\ l \in Nat /\ (d # 0 \/ l # 0)
    BY RankStands
  <2>2. l # 1 /\ (dense = <<>> => d = 0) /\ (dense # <<>> => d # 1)
    BY <1>3, <1>4, RankStands
  <2>3. M \in Nat \ {0} /\ (l # 0 => M < RrfK + l) /\ (d # 0 => M < RrfK + d)
        /\ RrfK + l \in Nat /\ RrfK + d \in Nat
    BY <1>1, <2>1, <2>2
  <2>4. CASE dense = <<>>
    <3>1. RrfScore(dense, lexical, top) = <<1, M>> /\ RrfScore(dense, lexical, c) = <<1, RrfK + l>>
      BY <1>2, <1>3, <2>2, <2>4 DEF RrfScore
    <3>2. M < RrfK + l
      BY <2>1, <2>2, <2>3, <2>4
    <3> HIDE DEF M, l
    <3>3. QED
      BY <2>3, <3>1, <3>2 DEF FusedBefore
  <2>5. CASE dense # <<>>
    <3>1. RrfScore(dense, lexical, top) = <<M + M, M * M>>
      BY <1>2, <1>3, <2>5 DEF RrfScore
    <3>2. CASE d = 0 \/ l = 0
      <4>1. PICK n \in {RrfK + d, RrfK + l} : RrfScore(dense, lexical, c) = <<1, n>> /\ M < n
        BY <2>1, <2>3, <3>2 DEF RrfScore
      <4>2. n \in Nat
        BY <2>3
      <4> HIDE DEF M
      <4>3. M * M < n * M
        BY <2>3, <4>1, <4>2, Multiplied
      <4>4. (M + M) * n = n * M + n * M /\ n * M \in Nat /\ M * M \in Nat
        BY <2>3, <4>2
      <4>5. (M + M) * n > 1 * (M * M) /\ (M + M) * n \in Nat /\ 1 * (M * M) \in Nat
        BY <4>3, <4>4
      <4>6. QED
        BY <3>1, <4>1, <4>5 DEF FusedBefore
    <3>3. CASE d # 0 /\ l # 0
      <4>1. RrfScore(dense, lexical, c) = <<(RrfK + d) + (RrfK + l), (RrfK + d) * (RrfK + l)>>
        BY <3>3 DEF RrfScore
      <4> DEFINE C == RrfK + d
                 D == RrfK + l
      <4>2. C \in Nat /\ D \in Nat /\ M < C /\ M < D /\ RrfScore(dense, lexical, c) = <<C + D, C * D>>
        BY <2>3, <3>3, <4>1
      <4> HIDE DEF M, C, D
      <4>3. (M + M) * (C * D) > (C + D) * (M * M)
        BY <2>3, <4>2, SmallerDenominators
      <4>4. (M + M) * (C * D) \in Nat /\ (C + D) * (M * M) \in Nat
        BY <2>3, <4>2
      <4>5. QED
        BY <3>1, <4>2, <4>3, <4>4 DEF FusedBefore
    <3>4. QED
      BY <3>2, <3>3
  <2>6. QED
    BY <2>4, <2>5
<1>5. /\ fused \in Seq(Chunks) /\ Range(fused) = all
      /\ \A i, j \in DOMAIN fused : i < j => FusedBefore(dense, lexical, fused[i], fused[j])
  BY FusedInOrder
<1>6. PICK i \in DOMAIN fused : fused[i] = top
  BY <1>1, <1>5 DEF Range
<1> HIDE DEF fused, top, all
<1>7. 1 \in DOMAIN fused /\ i \in Nat \ {0} /\ fused # <<>>
  BY <1>5, <1>6
<1>8. fused[1] \in all
  BY <1>5, <1>7 DEF Range
<1>9. fused[1] = top
  BY <1>4, <1>5, <1>6, <1>7, <1>8
<1>10. QED
  BY <1>7, <1>9 DEF fused, top

\* Reranking lists each loaded chunk once, the higher score first.
LEMMA RerankedInOrder ==
  ASSUME NEW score \in [Chunks -> Int], NEW ids, ids \subseteq Chunks, IsFiniteSet(ids)
  PROVE  /\ Reranked(score, ids) \in Seq(ids)
         /\ Range(Reranked(score, ids)) = ids
         /\ \A i, j \in DOMAIN Reranked(score, ids) : i < j =>
              score[Reranked(score, ids)[i]] >= score[Reranked(score, ids)[j]]
<1> DEFINE before == {p \in ids \X ids : \/ score[p[1]] > score[p[2]]
                                         \/ score[p[1]] = score[p[2]] /\ p[1] < p[2]}
<1>1. \A a \in ids : score[a] \in Int /\ a \in Nat
  BY RetrievalAssumption DEF RetrievalAssumption
<1>2. \A a, b \in ids : <<a, b>> \in before <=> score[a] > score[b] \/ (score[a] = score[b] /\ a < b)
  OBVIOUS
<1>3. Reranked(score, ids) = Listing(ids, before)
  BY DEF Reranked
<1> HIDE DEF before
<1>4. \A a, b \in ids : a # b => <<a, b>> \in before \/ <<b, a>> \in before
  BY <1>1, <1>2
<1>5. ASSUME NEW a \in ids, NEW b \in ids, <<a, b>> \in before, <<b, a>> \in before PROVE FALSE
  BY <1>1, <1>2, <1>5
<1>6. ASSUME NEW a \in ids, NEW b \in ids, NEW c \in ids, <<a, b>> \in before, <<b, c>> \in before
      PROVE  <<a, c>> \in before
  BY <1>1, <1>2, <1>6
<1>7. /\ Reranked(score, ids) \in Seq(ids)
      /\ \A x \in ids : \E i \in DOMAIN Reranked(score, ids) : Reranked(score, ids)[i] = x
      /\ \A i, j \in DOMAIN Reranked(score, ids) :
           i < j => <<Reranked(score, ids)[i], Reranked(score, ids)[j]>> \in before
  BY <1>3, <1>4, <1>5, <1>6, Listed
<1>8. Range(Reranked(score, ids)) = ids
  BY <1>7 DEF Range
<1>9. ASSUME NEW i \in DOMAIN Reranked(score, ids), NEW j \in DOMAIN Reranked(score, ids), i < j
      PROVE  score[Reranked(score, ids)[i]] >= score[Reranked(score, ids)[j]]
  <2> DEFINE a == Reranked(score, ids)[i]
             b == Reranked(score, ids)[j]
  <2>1. a \in ids /\ b \in ids /\ <<a, b>> \in before
    BY <1>7, <1>9
  <2> HIDE DEF a, b
  <2>2. score[a] >= score[b]
    BY <1>1, <1>2, <2>1
  <2>3. QED
    BY <2>2 DEF a, b
<1>10. QED
  BY <1>7, <1>8, <1>9

\* The beginning of a list.
LEMMA FirstOfList ==
  ASSUME NEW T, NEW list \in Seq(T), NEW n \in Nat
  PROVE  /\ First(n, list) \in Seq(T) /\ Len(First(n, list)) <= n
         /\ \A i \in DOMAIN First(n, list) : i \in DOMAIN list /\ i <= n /\ First(n, list)[i] = list[i]
         /\ \A i \in DOMAIN list : i <= n => i \in DOMAIN First(n, list)
         /\ Range(First(n, list)) \subseteq Range(list)
<1> DEFINE m == IF Len(list) < n THEN Len(list) ELSE n
<1>1. m \in 0 .. Len(list) /\ m <= n /\ Len(list) \in Nat
  OBVIOUS
<1>2. First(n, list) = SubSeq(list, 1, m)
  BY DEF First
<1>3. \A i \in 1 .. Len(list) : i <= n => i <= m
  OBVIOUS
<1> HIDE DEF m
<1>4. /\ First(n, list) \in Seq(T) /\ Len(First(n, list)) = m
      /\ DOMAIN First(n, list) = 1 .. m /\ DOMAIN list = 1 .. Len(list)
      /\ \A i \in 1 .. m : First(n, list)[i] = list[i]
  BY <1>1, <1>2
<1>5. Range(First(n, list)) \subseteq Range(list)
  BY <1>1, <1>4 DEF Range
<1>6. QED
  BY <1>1, <1>3, <1>4, <1>5

\* The candidates a search makes its hits of, in the order it takes them.
Ordered(r, candidates, rows) ==
  IF r.mode = Rerank THEN Reranked(r.score, rows) \o Only(candidates, Range(candidates) \ rows)
  ELSE candidates

\* After reranking, the loaded rows come first, the higher score ahead.
LEMMA RowsComeFirst ==
  ASSUME NEW r \in Request, NEW candidates \in Seq(Chunks), NEW rows, rows \subseteq Range(candidates)
  PROVE  /\ Ordered(r, candidates, rows) \in Seq(Chunks)
         /\ rows \subseteq Range(Ordered(r, candidates, rows))
         /\ r.mode = Rerank => \A i, j \in DOMAIN Ordered(r, candidates, rows) :
              /\ Ordered(r, candidates, rows)[i] \in rows /\ i < j =>
                   Ordered(r, candidates, rows)[j] \notin rows
                   \/ r.score[Ordered(r, candidates, rows)[i]] >= r.score[Ordered(r, candidates, rows)[j]]
              /\ Ordered(r, candidates, rows)[j] \in rows /\ i < j => Ordered(r, candidates, rows)[i] \in rows
<1> DEFINE ranked == Reranked(r.score, rows)
           gone == Only(candidates, Range(candidates) \ rows)
           n == Len(ranked)
           order == Ordered(r, candidates, rows)
<1>1. IsFiniteSet(rows) /\ rows \subseteq Chunks /\ r.score \in [Chunks -> Int]
  BY FinitelyMany, FS_Subset DEF Request
<1>2. CASE r.mode # Rerank
  BY <1>2 DEF Ordered
<1>3. CASE r.mode = Rerank
  <2>1. /\ ranked \in Seq(rows) /\ Range(ranked) = rows
        /\ \A i, j \in DOMAIN ranked : i < j => r.score[ranked[i]] >= r.score[ranked[j]]
    BY <1>1, RerankedInOrder
  <2>2. gone \in Seq(Chunks \cap (Range(candidates) \ rows))
    BY KeptInOrder
  <2>3. order = ranked \o gone
    BY <1>3 DEF Ordered
  <2> HIDE DEF ranked, gone, order
  <2>4. /\ ranked \in Seq(Chunks) /\ gone \in Seq(Chunks) /\ n \in Nat
        /\ \A i \in 1 .. n : ranked[i] \in rows
        /\ \A i \in 1 .. Len(gone) : gone[i] \notin rows
    BY <1>1, <2>1, <2>2
  <2>5. /\ order \in Seq(Chunks) /\ Len(order) = n + Len(gone) /\ DOMAIN order = 1 .. (n + Len(gone))
        /\ \A i \in 1 .. n : order[i] = ranked[i]
        /\ \A i \in DOMAIN order : i > n => order[i] = gone[i - n] /\ i - n \in 1 .. Len(gone)
    BY <2>3, <2>4
  <2>6. \A i \in DOMAIN order : order[i] \in rows <=> i <= n
    BY <2>4, <2>5
  <2>7. ASSUME NEW c \in rows PROVE c \in Range(order)
    <3>1. PICK i \in DOMAIN ranked : ranked[i] = c
      BY <2>1 DEF Range
    <3>2. i \in 1 .. n /\ i \in DOMAIN order
      BY <2>4, <2>5
    <3>3. order[i] = c
      BY <2>5, <3>1, <3>2
    <3>4. QED
      BY <3>2, <3>3 DEF Range
  <2>8. ASSUME NEW i \in DOMAIN order, NEW j \in DOMAIN order, i < j, j <= n
        PROVE  r.score[order[i]] >= r.score[order[j]]
    <3>1. i \in 1 .. n /\ j \in 1 .. n
      BY <2>4, <2>5, <2>8
    <3>2. i \in DOMAIN ranked /\ j \in DOMAIN ranked
      BY <2>4, <3>1
    <3>3. QED
      BY <2>1, <2>5, <2>8, <3>1, <3>2
  <2>9. QED
    BY <2>4, <2>5, <2>6, <2>7, <2>8 DEF order
<1>4. QED
  BY <1>2, <1>3

\* The hits of a search: loaded rows, in their order, and none better left out.
LEMMA HitsAreBest ==
  ASSUME NEW r \in Request, NEW candidates \in Seq(Chunks), NEW rows, rows \subseteq Range(candidates)
  PROVE  /\ Hits(r, candidates, rows) \in Seq(Chunks)
         /\ Range(Hits(r, candidates, rows)) \subseteq rows /\ Len(Hits(r, candidates, rows)) <= RerankTopK
         /\ r.mode = Rerank =>
              /\ Hits(r, candidates, rows) = <<>> <=> rows = {}
              /\ \A i \in DOMAIN Hits(r, candidates, rows), c \in rows :
                   c \notin Range(Hits(r, candidates, rows)) \/ i = 1 =>
                     r.score[c] <= r.score[Hits(r, candidates, rows)[i]]
         /\ r.mode # Rerank => \A i, j \in DOMAIN Hits(r, candidates, rows) : i < j =>
              \E a, b \in DOMAIN candidates : /\ a < b
                                             /\ Hits(r, candidates, rows)[i] = candidates[a]
                                             /\ Hits(r, candidates, rows)[j] = candidates[b]
<1> DEFINE order == Ordered(r, candidates, rows)
           taken == First(RerankTopK, order)
           hits == Only(taken, rows)
<1>1. Hits(r, candidates, rows) = hits
  BY DEF Hits, Ordered
<1>2. /\ order \in Seq(Chunks) /\ rows \subseteq Range(order) /\ RerankTopK \in Nat \ {0}
  BY RowsComeFirst, RetrievalAssumption DEF RetrievalAssumption
<1> HIDE DEF order
<1>3. /\ taken \in Seq(Chunks) /\ Len(taken) <= RerankTopK
      /\ \A i \in DOMAIN taken : i \in DOMAIN order /\ i <= RerankTopK /\ taken[i] = order[i]
      /\ \A i \in DOMAIN order : i <= RerankTopK => i \in DOMAIN taken
  BY <1>2, FirstOfList
<1> HIDE DEF taken
<1>4. /\ hits \in Seq(Chunks \cap rows) /\ Range(hits) = Range(taken) \cap rows
      /\ \A i, j \in DOMAIN hits : i < j =>
           \E a, b \in DOMAIN taken : a < b /\ hits[i] = taken[a] /\ hits[j] = taken[b]
      /\ \A i \in DOMAIN hits : \E a \in DOMAIN taken : hits[i] = taken[a]
      /\ Len(hits) \in 0 .. Len(taken)
  <2>1. taken \in Seq(Chunks)
    BY <1>3
  <2>2. QED
    BY <2>1, KeptInOrder
<1> HIDE DEF hits
<1>5. hits \in Seq(Chunks) /\ Range(hits) \subseteq rows /\ Len(hits) <= RerankTopK
  BY <1>2, <1>3, <1>4
<1>6. ASSUME r.mode # Rerank, NEW i \in DOMAIN hits, NEW j \in DOMAIN hits, i < j
      PROVE  \E a, b \in DOMAIN candidates : a < b /\ hits[i] = candidates[a] /\ hits[j] = candidates[b]
  <2>1. order = candidates
    BY <1>6 DEF order, Ordered
  <2>2. QED
    BY <1>3, <1>4, <1>6, <2>1
<1>7. ASSUME r.mode = Rerank
      PROVE  /\ hits = <<>> <=> rows = {}
             /\ \A i \in DOMAIN hits, c \in rows : c \notin Range(hits) \/ i = 1 => r.score[c] <= r.score[hits[i]]
  <2>1. \A i, j \in DOMAIN order :
          /\ order[i] \in rows /\ i < j => order[j] \notin rows \/ r.score[order[i]] >= r.score[order[j]]
          /\ order[j] \in rows /\ i < j => order[i] \in rows
    BY <1>7, RowsComeFirst DEF order
  <2>2. DOMAIN order \subseteq Nat \ {0} /\ \A i \in DOMAIN order : 1 \in DOMAIN order
    BY <1>2
  <2>3. ASSUME rows # {} PROVE hits # <<>>
    <3>1. PICK i \in DOMAIN order : order[i] \in rows
      BY <1>2, <2>3 DEF Range
    <3>2. order[1] \in rows /\ 1 \in DOMAIN taken /\ taken[1] = order[1]
      BY <1>2, <1>3, <2>1, <2>2, <3>1
    <3>3. order[1] \in Range(hits)
      BY <1>4, <3>2 DEF Range
    <3>4. QED
      BY <3>3 DEF Range
  <2>4. ASSUME hits # <<>> PROVE rows # {}
    <3>1. 1 \in DOMAIN hits
      BY <1>4, <2>4
    <3>2. QED
      BY <1>5, <3>1 DEF Range
  <2>5. \A c \in rows : r.score[c] \in Int
    BY <1>2, FinitelyMany DEF Request
  <2>6. ASSUME NEW i \in DOMAIN hits, NEW c \in rows, c \notin Range(hits) PROVE r.score[c] <= r.score[hits[i]]
    <3>1. PICK a \in DOMAIN taken : hits[i] = taken[a]
      BY <1>4
    <3>2. PICK b \in DOMAIN order : order[b] = c
      BY <1>2 DEF Range
    <3>3. hits[i] \in rows /\ a \in DOMAIN order /\ order[a] = hits[i] /\ a <= RerankTopK
      BY <1>3, <1>5, <3>1 DEF Range
    <3>4. ~(b <= RerankTopK)
      <4>1. b \in DOMAIN taken => c \in Range(hits)
        BY <1>3, <1>4, <3>2 DEF Range
      <4>2. QED
        BY <1>3, <2>6, <4>1
    <3>5. a < b
      BY <1>2, <2>2, <3>3, <3>4
    <3>6. QED
      BY <2>1, <2>5, <3>2, <3>3, <3>5
  <2>7. ASSUME NEW c \in rows, 1 \in DOMAIN hits PROVE r.score[c] <= r.score[hits[1]]
    <3>1. CASE c \notin Range(hits)
      BY <2>6, <2>7, <3>1
    <3>2. CASE c = hits[1]
      BY <2>5, <3>2
    <3>3. CASE c \in Range(hits) /\ c # hits[1]
      <4>1. PICK j \in DOMAIN hits : hits[j] = c
        BY <3>3 DEF Range
      <4>2. 1 < j
        BY <1>4, <3>3, <4>1
      <4>3. PICK a \in DOMAIN taken, b \in DOMAIN taken : a < b /\ hits[1] = taken[a] /\ c = taken[b]
        BY <1>4, <2>7, <4>1, <4>2
      <4>4. hits[1] \in rows
        BY <1>5, <2>7 DEF Range
      <4>5. QED
        BY <1>3, <2>1, <2>5, <4>3, <4>4
    <3>4. QED
      BY <3>1, <3>2, <3>3
  <2>8. QED
    BY <2>3, <2>4, <2>6, <2>7
<1>8. QED
  BY <1>1, <1>5, <1>6, <1>7

-----------------------------------------------------------------------------
(* What a search has read and made of it.                                   *)

\* How far a search is: the stages it has behind it are those of lower numbers.
Number == [at \in {Stages[i] : i \in 1..7} \cup {"idle", "rerank", "done", "failed"} |->
             CASE at = "embed" -> 1 [] at = "dense" -> 2 [] at = "lexical" -> 3
               [] at = "probeDense" -> 4 [] at = "probeLexical" -> 5 [] at = "exclude" -> 6
               [] at = "load" -> 7 [] at \in {"rerank", "done"} -> 8 [] OTHER -> 0]

Answer == [hits : Seq(Chunks), below : BOOLEAN, excluded : SUBSET Chunks]

SearchRecord ==
  [at : DOMAIN Number, req : Request \cup {NoRequest}, dense : Seq(Chunks), lexical : Seq(Chunks),
   hidden : Seq(Chunks), candidates : Seq(Chunks), rows : SUBSET Chunks, still : BOOLEAN,
   result : Answer]

\* A search stands at a stage that its request applies to.
IsTyped(x) ==
  /\ x \in SearchRecord
  /\ x.at # "idle" => x.req \in Request
  /\ Number[x.at] \in 1..7 => x.at \in Applies(x.req)

\* From the end of its reads a search holds the fusion of its lists, and an answer is made of it.
IsAssembled(x) ==
  /\ x.at \in {"rerank", "done"} =>
       /\ x.candidates = First(RetrieveTopN, OrderCandidates(x.req.mode, x.dense, x.lexical))
       /\ x.rows \subseteq Range(x.candidates)
  /\ x.at = "done" => x.result = Assembled(x.req, x.candidates, x.rows, x.result.excluded)

\* What a request r reads of the present corpus up to stage n.
DenseAt(r, n) == IF n > 2 /\ "dense" \in Applies(r) THEN Dense(r, r.filter) ELSE <<>>
LexicalAt(r, n) == IF n > 3 /\ "lexical" \in Applies(r) THEN Lexical(r, r.filter) ELSE <<>>
ProbedAt(r, n) == IF n > 4 /\ "probeDense" \in Applies(r) THEN Dense(r, Unfiltered(r.filter)) ELSE <<>>
HiddenAt(r, n) ==
  IF n > 5 /\ "probeLexical" \in Applies(r)
  THEN Fused(ProbedAt(r, n), Lexical(r, Unfiltered(r.filter))) ELSE ProbedAt(r, n)
ExcludedAt(r, n) ==
  IF n > 6 /\ "exclude" \in Applies(r)
  THEN {c \in Range(First(RerankTopK, HiddenAt(r, n))) \cap chunks :
          CircularOf[c] \in ExcludedByTemporalFilter(Files, edges, r.filter.asOf)}
  ELSE {}

\* A search that the corpus has not changed under has read what it would read now.
HasRead(x, n) ==
  /\ x.dense = DenseAt(x.req, n) /\ x.lexical = LexicalAt(x.req, n)
  /\ x.hidden = HiddenAt(x.req, n) /\ x.result.excluded = ExcludedAt(x.req, n)
IsRead(x) ==
  /\ x.at = "idle" => x.dense = <<>> /\ x.lexical = <<>> /\ x.hidden = <<>> /\ x.result.excluded = {}
  /\ x.still /\ Number[x.at] > 0 => HasRead(x, Number[x.at])

\* A search is inside a model only at the stage that uses it.
CallersFollow ==
  \A s \in Searches : caller[s].at # "away" =>
    \/ caller[s].model = "embedding" /\ search[s].at = "embed"
    \/ caller[s].model = "reranker" /\ search[s].at = "rerank"

SearchesStand ==
  /\ search \in [Searches -> SearchRecord]
  /\ \A s \in Searches : \A x \in {search[s]} : IsTyped(x) /\ IsAssembled(x) /\ IsRead(x)

SInv == SearchesStand /\ CallersFollow

\* The stages are numbered in their order; the end of a search comes after them.
LEMMA Numbers ==
  /\ Number["idle"] = 0 /\ Number["failed"] = 0 /\ Number["rerank"] = 8 /\ Number["done"] = 8
  /\ \A i \in 1..7 : Number[Stages[i]] = i /\ Stages[i] \notin {"idle", "failed", "rerank", "done"}
  /\ \A at \in DOMAIN Number : /\ Number[at] \in 0..8
                               /\ (Number[at] \in 1..7 => at = Stages[Number[at]])
                               /\ (Number[at] = 8 => at \in {"rerank", "done"})
                               /\ (Number[at] = 0 => at \in {"idle", "failed"})
  /\ DOMAIN Number = {Stages[i] : i \in 1..7} \cup {"idle", "rerank", "done", "failed"}
  /\ Stages[1] = "embed" /\ Stages[2] = "dense" /\ Stages[3] = "lexical" /\ Stages[4] = "probeDense"
  /\ Stages[5] = "probeLexical" /\ Stages[6] = "exclude" /\ Stages[7] = "load" /\ DOMAIN Stages = 1..7
<1>1. /\ Stages[1] = "embed" /\ Stages[2] = "dense" /\ Stages[3] = "lexical" /\ Stages[4] = "probeDense"
      /\ Stages[5] = "probeLexical" /\ Stages[6] = "exclude" /\ Stages[7] = "load" /\ DOMAIN Stages = 1..7
  BY DEF Stages
<1>2. {Stages[i] : i \in 1..7} = {"embed", "dense", "lexical", "probeDense", "probeLexical", "exclude", "load"}
  BY <1>1
<1>3. DOMAIN Number = {Stages[i] : i \in 1..7} \cup {"idle", "rerank", "done", "failed"}
  BY DEF Number
<1>4. /\ Number["idle"] = 0 /\ Number["failed"] = 0 /\ Number["rerank"] = 8 /\ Number["done"] = 8
      /\ Number["embed"] = 1 /\ Number["dense"] = 2 /\ Number["lexical"] = 3 /\ Number["probeDense"] = 4
      /\ Number["probeLexical"] = 5 /\ Number["exclude"] = 6 /\ Number["load"] = 7
  BY <1>2 DEF Number
<1>5. \A i \in 1..7 : Number[Stages[i]] = i /\ Stages[i] \notin {"idle", "failed", "rerank", "done"}
  BY <1>1, <1>4
<1>6. \A at \in DOMAIN Number : /\ Number[at] \in 0..8
                               /\ (Number[at] \in 1..7 => at = Stages[Number[at]])
                               /\ (Number[at] = 8 => at \in {"rerank", "done"})
                               /\ (Number[at] = 0 => at \in {"idle", "failed"})
  BY <1>1, <1>2, <1>3, <1>4
<1> QED
  BY <1>1, <1>3, <1>4, <1>5, <1>6

\* A search goes on to the next stage that its request applies to.
LEMMA FollowingStage ==
  ASSUME NEW r, NEW done \in 0..6
  PROVE  \E j \in (done + 1)..7 :
           /\ Following(r, done) = Stages[j] /\ Stages[j] \in Applies(r)
           /\ \A i \in (done + 1)..(j - 1) : Stages[i] \notin Applies(r)
<1> DEFINE ahead == {i \in DOMAIN Stages : i > done /\ Stages[i] \in Applies(r)}
           j == Min(ahead)
<1>1. 7 \in ahead /\ ahead \in SUBSET Nat
  BY Numbers DEF Applies
<1>2. PICK k \in ahead : \A i \in ahead : k <= i
  <2> HIDE DEF ahead
  <2> QED
    BY <1>1, LeastExists
<1>3. j \in ahead /\ \A i \in ahead : j <= i
  <2> HIDE DEF ahead
  <2> QED
    BY <1>2 DEF Min
<1>4. Following(r, done) = Stages[j]
  BY DEF Following
<1> HIDE DEF j
<1>5. j \in (done + 1)..7 /\ Stages[j] \in Applies(r)
  BY <1>3, Numbers
<1>6. ASSUME NEW i \in (done + 1)..(j - 1) PROVE Stages[i] \notin Applies(r)
  <2>1. i \in 1..7 /\ i > done /\ i < j
    BY <1>5
  <2>2. i \notin ahead
    BY <1>3, <1>5, <2>1
  <2> QED
    BY <2>1, <2>2, Numbers
<1> QED
  BY <1>4, <1>5, <1>6

\* What a statement finds: stored chunks of a request's list that its filters let through.
LEMMA MatchesPass ==
  ASSUME NEW list \in Seq(Chunks), NEW q
  PROVE  /\ Matching(list, q) \in Seq(Chunks)
         /\ Range(Matching(list, q)) \subseteq {c \in chunks : CircularOf[c] \in Filtered(Files, edges, q)}
<1> DEFINE passed == {c \in chunks : CircularOf[c] \in Filtered(Files, edges, q)}
           found == Only(list, passed)
<1>1. found \in Seq(Chunks \cap passed) /\ Range(found) = Range(list) \cap passed
  <2> HIDE DEF passed
  <2> QED
    BY KeptInOrder
<1>2. RetrieveTopN \in Nat /\ found \in Seq(Chunks)
  BY <1>1, RetrievalAssumption DEF RetrievalAssumption
<1>3. Matching(list, q) = First(RetrieveTopN, found)
  BY DEF Matching
<1> HIDE DEF found, passed
<1>4. QED
  BY <1>1, <1>2, <1>3, FirstOfList DEF passed

\* The two lists of a request, each of them of chunks that the filters let through.
LEMMA ReadsPass ==
  ASSUME NEW r \in Request, NEW q
  PROVE  /\ Dense(r, q) \in Seq(Chunks) /\ Lexical(r, q) \in Seq(Chunks)
         /\ Range(Dense(r, q)) \subseteq {c \in chunks : CircularOf[c] \in Filtered(Files, edges, q)}
         /\ Range(Lexical(r, q)) \subseteq {c \in chunks : CircularOf[c] \in Filtered(Files, edges, q)}
<1>1. r.dense \in Seq(Chunks) /\ r.lexical \in Seq(Chunks)
  BY DEF Request
<1>2. Only(r.dense, embedded) \in Seq(Chunks)
  <2>1. Only(r.dense, embedded) \in Seq(Chunks \cap embedded)
    BY <1>1, KeptInOrder
  <2> QED
    BY <2>1
<1> QED
  BY <1>1, <1>2, MatchesPass DEF Dense, Lexical

\* Stages that a request does not apply to change nothing of what it has read.
LEMMA Skipped ==
  ASSUME NEW r, NEW n \in 1..7, NEW j \in n..7, \A i \in n..(j - 1) : Stages[i] \notin Applies(r)
  PROVE  /\ DenseAt(r, n) = DenseAt(r, j) /\ LexicalAt(r, n) = LexicalAt(r, j)
         /\ HiddenAt(r, n) = HiddenAt(r, j) /\ ExcludedAt(r, n) = ExcludedAt(r, j)
<1>1. /\ "dense" \in Applies(r) => ~(n <= 2 /\ 2 < j)
      /\ "lexical" \in Applies(r) => ~(n <= 3 /\ 3 < j)
      /\ "probeDense" \in Applies(r) => ~(n <= 4 /\ 4 < j)
      /\ "probeLexical" \in Applies(r) => ~(n <= 5 /\ 5 < j)
      /\ "exclude" \in Applies(r) => ~(n <= 6 /\ 6 < j)
  BY Numbers
<1>2. /\ "dense" \in Applies(r) => (n > 2 <=> j > 2)
      /\ "lexical" \in Applies(r) => (n > 3 <=> j > 3)
      /\ "probeDense" \in Applies(r) => (n > 4 <=> j > 4)
      /\ "probeLexical" \in Applies(r) => (n > 5 <=> j > 5)
      /\ "exclude" \in Applies(r) => (n > 6 <=> j > 6)
  BY <1>1
<1>3. DenseAt(r, n) = DenseAt(r, j) /\ LexicalAt(r, n) = LexicalAt(r, j) /\ ProbedAt(r, n) = ProbedAt(r, j)
  BY <1>2 DEF DenseAt, LexicalAt, ProbedAt
<1>4. HiddenAt(r, n) = HiddenAt(r, j)
  BY <1>2, <1>3 DEF HiddenAt
<1>5. ExcludedAt(r, n) = ExcludedAt(r, j)
  BY <1>2, <1>4 DEF ExcludedAt
<1> QED
  BY <1>3, <1>4, <1>5

\* A search that goes on from a stage with what it has read by its end.
LEMMA Advanced ==
  ASSUME NEW y \in SearchRecord, y.req \in Request, NEW i \in 0..6, y.at = Following(y.req, i),
         y.still => HasRead(y, i + 1)
  PROVE  IsTyped(y) /\ IsAssembled(y) /\ IsRead(y)
<1>1. PICK j \in (i + 1)..7 :
        /\ y.at = Stages[j] /\ Stages[j] \in Applies(y.req)
        /\ \A k \in (i + 1)..(j - 1) : Stages[k] \notin Applies(y.req)
  BY FollowingStage
<1>2. j \in 1..7 /\ i + 1 \in 1..7 /\ j \in (i + 1)..7
  BY <1>1
<1>3. Number[y.at] = j /\ y.at \notin {"idle", "rerank", "done"}
  BY <1>1, <1>2, Numbers
<1>4. IsTyped(y) /\ IsAssembled(y)
  BY <1>1, <1>3 DEF IsTyped, IsAssembled
<1>5. HasRead(y, i + 1) => HasRead(y, j)
  BY <1>1, <1>2, Skipped DEF HasRead
<1> QED
  BY <1>3, <1>4, <1>5 DEF IsRead

\* What a search has read is the same while the corpus is.
LEMMA SameReading ==
  ASSUME UNCHANGED corpus
  PROVE  \A x : IsRead(x)' <=> IsRead(x)
<1>1. chunks' = chunks /\ embedded' = embedded /\ edges' = edges
  BY DEF corpus
<1>2. \A list, q : Matching(list, q)' = Matching(list, q)
  BY <1>1 DEF Matching
<1>3. \A r, q : Dense(r, q)' = Dense(r, q) /\ Lexical(r, q)' = Lexical(r, q)
  BY <1>1, <1>2 DEF Dense, Lexical
<1>4. \A r, n : /\ DenseAt(r, n)' = DenseAt(r, n) /\ LexicalAt(r, n)' = LexicalAt(r, n)
                /\ ProbedAt(r, n)' = ProbedAt(r, n)
  BY <1>3 DEF DenseAt, LexicalAt, ProbedAt
<1>5. \A r, n : HiddenAt(r, n)' = HiddenAt(r, n)
  BY <1>3, <1>4 DEF HiddenAt
<1>6. \A r, n : ExcludedAt(r, n)' = ExcludedAt(r, n)
  BY <1>1, <1>5 DEF ExcludedAt
<1>7. \A x, n : HasRead(x, n)' <=> HasRead(x, n)
  BY <1>4, <1>5, <1>6 DEF HasRead
<1> QED
  BY <1>7 DEF IsRead

\* One search goes on while the corpus stays as it is.
LEMMA OneSearch ==
  ASSUME SearchesStand, UNCHANGED corpus, NEW s \in Searches,
         NEW y \in SearchRecord, search' = [search EXCEPT ![s] = y],
         IsTyped(y), IsAssembled(y), IsRead(y)
  PROVE  SearchesStand'
<1>1. search' \in [Searches -> SearchRecord] /\ search'[s] = y /\ \A u \in Searches \ {s} : search'[u] = search[u]
  BY DEF SearchesStand
<1>2. \A u \in Searches : IsTyped(search[u]) /\ IsAssembled(search[u]) /\ IsRead(search[u])
  BY DEF SearchesStand
<1>3. ASSUME NEW u \in Searches, NEW z, z = search'[u] PROVE IsTyped(z) /\ IsAssembled(z) /\ IsRead(z)'
  BY <1>1, <1>2, <1>3, SameReading
<1> QED
  BY <1>1, <1>3 DEF SearchesStand

-----------------------------------------------------------------------------
(* The steps of a search.                                                   *)

\* A search at a stage of its reads.
LEMMA Reached ==
  ASSUME SearchesStand, NEW s \in Searches, NEW i \in 1..7, search[s].at = Stages[i]
  PROVE  /\ search[s] \in SearchRecord /\ search[s].req \in Request /\ search[s].still \in BOOLEAN
         /\ Stages[i] \in Applies(search[s].req)
         /\ search[s].still => HasRead(search[s], i)
<1>1. search[s] \in SearchRecord /\ IsTyped(search[s]) /\ IsRead(search[s])
  BY DEF SearchesStand
<1>2. Number[search[s].at] = i /\ search[s].at # "idle" /\ i \in 1..7 /\ i > 0
  BY Numbers
<1> QED
  BY <1>1, <1>2 DEF IsTyped, IsRead, SearchRecord

\* The stage a search goes on to is one it may stand at.
LEMMA FollowingAt ==
  ASSUME NEW r, NEW i \in 0..6
  PROVE  Following(r, i) \in DOMAIN Number /\ Following(r, i) \notin {"idle", "failed", "rerank", "done"}
<1>1. PICK j \in (i + 1)..7 : Following(r, i) = Stages[j]
  BY FollowingStage
<1>2. j \in 1..7
  BY <1>1
<1> QED
  BY <1>1, <1>2, Numbers

\* The dense statement: its list is what the corpus gives at this moment.
LEMMA DenseStep ==
  ASSUME SearchesStand, NEW s \in Searches, RunDense(s)
  PROVE  SearchesStand'
<1> DEFINE x == search[s]
           found == Dense(x.req, x.req.filter)
           y == [x EXCEPT !.dense = found, !.at = Following(x.req, 2)]
<1>1. x.at = Stages[2] /\ search' = [search EXCEPT ![s] = y] /\ UNCHANGED corpus
  BY Numbers DEF RunDense, Advance, SearchesStand, SearchRecord
<1>2. x \in SearchRecord /\ x.req \in Request /\ "dense" \in Applies(x.req) /\ (x.still => HasRead(x, 2))
  BY <1>1, Reached, Numbers
<1>3. found \in Seq(Chunks) /\ Following(x.req, 2) \in DOMAIN Number
  BY <1>2, ReadsPass, FollowingAt
<1>4. /\ y \in SearchRecord /\ y.req = x.req /\ y.at = Following(x.req, 2) /\ y.still = x.still
      /\ y.dense = found /\ y.lexical = x.lexical /\ y.hidden = x.hidden /\ y.result = x.result
  <2> HIDE DEF found
  <2> QED
    BY <1>2, <1>3 DEF SearchRecord
<1>5. HasRead(x, 2) => HasRead(y, 3)
  <2> HIDE DEF y
  <2> QED
    BY <1>2, <1>4 DEF HasRead, DenseAt, LexicalAt, ProbedAt, HiddenAt, ExcludedAt
<1> HIDE DEF y
<1>6. IsTyped(y) /\ IsAssembled(y) /\ IsRead(y)
  BY <1>2, <1>4, <1>5, Advanced
<1> QED
  BY <1>1, <1>4, <1>6, OneSearch

\* The lexical statement.
LEMMA LexicalStep ==
  ASSUME SearchesStand, NEW s \in Searches, RunLexical(s)
  PROVE  SearchesStand'
<1> DEFINE x == search[s]
           found == Lexical(x.req, x.req.filter)
           y == [x EXCEPT !.lexical = found, !.at = Following(x.req, 3)]
<1>1. x.at = Stages[3] /\ search' = [search EXCEPT ![s] = y] /\ UNCHANGED corpus
  BY Numbers DEF RunLexical, Advance, SearchesStand, SearchRecord
<1>2. x \in SearchRecord /\ x.req \in Request /\ "lexical" \in Applies(x.req) /\ (x.still => HasRead(x, 3))
  BY <1>1, Reached, Numbers
<1>3. found \in Seq(Chunks) /\ Following(x.req, 3) \in DOMAIN Number
  BY <1>2, ReadsPass, FollowingAt
<1>4. /\ y \in SearchRecord /\ y.req = x.req /\ y.at = Following(x.req, 3) /\ y.still = x.still
      /\ y.dense = x.dense /\ y.lexical = found /\ y.hidden = x.hidden /\ y.result = x.result
  <2> HIDE DEF found
  <2> QED
    BY <1>2, <1>3 DEF SearchRecord
<1>5. HasRead(x, 3) => HasRead(y, 4)
  <2> HIDE DEF y
  <2> QED
    BY <1>2, <1>4 DEF HasRead, DenseAt, LexicalAt, ProbedAt, HiddenAt, ExcludedAt
<1> HIDE DEF y
<1>6. IsTyped(y) /\ IsAssembled(y) /\ IsRead(y)
  BY <1>2, <1>4, <1>5, Advanced
<1> QED
  BY <1>1, <1>4, <1>6, OneSearch

\* The dense statement of the probe.
LEMMA ProbeDenseStep ==
  ASSUME SearchesStand, NEW s \in Searches, ProbeDense(s)
  PROVE  SearchesStand'
<1> DEFINE x == search[s]
           found == Dense(x.req, Unfiltered(x.req.filter))
           y == [x EXCEPT !.hidden = found, !.at = Following(x.req, 4)]
<1>1. x.at = Stages[4] /\ search' = [search EXCEPT ![s] = y] /\ UNCHANGED corpus
  BY Numbers DEF ProbeDense, Advance, SearchesStand, SearchRecord
<1>2. x \in SearchRecord /\ x.req \in Request /\ "probeDense" \in Applies(x.req) /\ (x.still => HasRead(x, 4))
  BY <1>1, Reached, Numbers
<1>3. found \in Seq(Chunks) /\ Following(x.req, 4) \in DOMAIN Number
  BY <1>2, ReadsPass, FollowingAt
<1>4. /\ y \in SearchRecord /\ y.req = x.req /\ y.at = Following(x.req, 4) /\ y.still = x.still
      /\ y.dense = x.dense /\ y.lexical = x.lexical /\ y.hidden = found /\ y.result = x.result
  <2> HIDE DEF found
  <2> QED
    BY <1>2, <1>3 DEF SearchRecord
<1>5. HasRead(x, 4) => HasRead(y, 5)
  <2> HIDE DEF y
  <2> QED
    BY <1>2, <1>4 DEF HasRead, DenseAt, LexicalAt, ProbedAt, HiddenAt, ExcludedAt
<1> HIDE DEF y
<1>6. IsTyped(y) /\ IsAssembled(y) /\ IsRead(y)
  BY <1>2, <1>4, <1>5, Advanced
<1> QED
  BY <1>1, <1>4, <1>6, OneSearch

\* The lexical statement of the probe, fused with what the dense one found.
LEMMA ProbeLexicalStep ==
  ASSUME SearchesStand, NEW s \in Searches, ProbeLexical(s)
  PROVE  SearchesStand'
<1> DEFINE x == search[s]
           found == Lexical(x.req, Unfiltered(x.req.filter))
           fused == Fused(x.hidden, found)
           y == [x EXCEPT !.hidden = fused, !.at = Following(x.req, 5)]
<1>1. x.at = Stages[5] /\ search' = [search EXCEPT ![s] = y] /\ UNCHANGED corpus
  BY Numbers DEF ProbeLexical, Advance, SearchesStand, SearchRecord
<1>2. x \in SearchRecord /\ x.req \in Request /\ "probeLexical" \in Applies(x.req) /\ (x.still => HasRead(x, 5))
  BY <1>1, Reached, Numbers
<1>3. fused \in Seq(Chunks) /\ Following(x.req, 5) \in DOMAIN Number
  <2>1. found \in Seq(Chunks) /\ x.hidden \in Seq(Chunks)
    BY <1>2, ReadsPass DEF SearchRecord
  <2> QED
    BY <2>1, FusedInOrder, FollowingAt
<1>4. /\ y \in SearchRecord /\ y.req = x.req /\ y.at = Following(x.req, 5) /\ y.still = x.still
      /\ y.dense = x.dense /\ y.lexical = x.lexical /\ y.hidden = fused /\ y.result = x.result
  <2> HIDE DEF fused
  <2> QED
    BY <1>2, <1>3 DEF SearchRecord
<1>5. HasRead(x, 5) => HasRead(y, 6)
  <2> HIDE DEF y
  <2> QED
    BY <1>2, <1>4 DEF HasRead, DenseAt, LexicalAt, ProbedAt, HiddenAt, ExcludedAt
<1> HIDE DEF y
<1>6. IsTyped(y) /\ IsAssembled(y) /\ IsRead(y)
  BY <1>2, <1>4, <1>5, Advanced
<1> QED
  BY <1>1, <1>4, <1>6, OneSearch

\* The last statement of the probe: which of its candidates are out of force.
LEMMA ExcludeStep ==
  ASSUME SearchesStand, NEW s \in Searches, Exclude(s)
  PROVE  SearchesStand'
<1> DEFINE x == search[s]
           probed == Range(First(RerankTopK, x.hidden)) \cap chunks
           out == {c \in probed : CircularOf[c] \in ExcludedByTemporalFilter(Files, edges, x.req.filter.asOf)}
           result == [x.result EXCEPT !.excluded = out]
           y == [x EXCEPT !.at = "load", !.result = result]
<1>1. x.at = Stages[6] /\ search' = [search EXCEPT ![s] = y] /\ UNCHANGED corpus
  <2>1. search' = [search EXCEPT ![s].at = "load", ![s].result.excluded = out]
    BY DEF Exclude
  <2> HIDE DEF out
  <2>2. search' = [search EXCEPT ![s] = y]
    BY <2>1 DEF SearchesStand, SearchRecord
  <2> QED
    BY <2>2, Numbers DEF Exclude
<1>2. x \in SearchRecord /\ x.req \in Request /\ "exclude" \in Applies(x.req) /\ (x.still => HasRead(x, 6))
  BY <1>1, Reached, Numbers
<1>3. Following(x.req, 6) = "load" /\ "load" \in DOMAIN Number
  <2>1. PICK j \in 7..7 : Following(x.req, 6) = Stages[j]
    BY FollowingStage
  <2> QED
    BY <2>1, Numbers
<1>4. out \subseteq Chunks
  <2>1. x.hidden \in Seq(Chunks) /\ RerankTopK \in Nat
    BY <1>2, RetrievalAssumption DEF SearchRecord, RetrievalAssumption
  <2>2. First(RerankTopK, x.hidden) \in Seq(Chunks)
    BY <2>1, FirstOfList
  <2> QED
    BY <2>2, FinitelyMany
<1>5. result \in Answer /\ result.excluded = out
  <2> HIDE DEF out
  <2> QED
    BY <1>2, <1>4 DEF SearchRecord, Answer
<1>6. /\ y \in SearchRecord /\ y.req = x.req /\ y.at = Following(x.req, 6) /\ y.still = x.still
      /\ y.dense = x.dense /\ y.lexical = x.lexical /\ y.hidden = x.hidden /\ y.result = result
  <2> HIDE DEF result
  <2> QED
    BY <1>2, <1>3, <1>5 DEF SearchRecord
<1>7. HasRead(x, 6) => HasRead(y, 7)
  <2> HIDE DEF y, result
  <2>1. /\ DenseAt(x.req, 6) = DenseAt(x.req, 7) /\ LexicalAt(x.req, 6) = LexicalAt(x.req, 7)
        /\ HiddenAt(x.req, 6) = HiddenAt(x.req, 7)
    BY DEF DenseAt, LexicalAt, ProbedAt, HiddenAt
  <2>2. HasRead(x, 6) => ExcludedAt(x.req, 7) = out
    BY <1>2, <2>1 DEF HasRead, ExcludedAt
  <2> QED
    BY <1>5, <1>6, <2>1, <2>2 DEF HasRead
<1> HIDE DEF y
<1>8. IsTyped(y) /\ IsAssembled(y) /\ IsRead(y)
  BY <1>2, <1>6, <1>7, Advanced
<1> QED
  BY <1>1, <1>6, <1>8, OneSearch
\* An answer is of the types of a search's result.
LEMMA AssembledTyped ==
  ASSUME NEW r \in Request, NEW candidates \in Seq(Chunks), NEW rows, rows \subseteq Range(candidates),
         NEW hidden \in SUBSET Chunks
  PROVE  /\ Assembled(r, candidates, rows, hidden) \in Answer
         /\ Assembled(r, candidates, rows, hidden).excluded = hidden
<1> DEFINE hits == Hits(r, candidates, rows)
           below == r.mode = Rerank /\ hits # <<>> /\ r.score[hits[1]] < Threshold
           kept == IF below /\ r.apply THEN <<>> ELSE hits
<1>1. Assembled(r, candidates, rows, hidden) = [hits |-> kept, below |-> below, excluded |-> hidden]
  BY DEF Assembled
<1>2. hits \in Seq(Chunks)
  BY HitsAreBest
<1>3. kept \in Seq(Chunks)
  <2> HIDE DEF hits, below
  <2> QED
    BY <1>2
<1>4. below \in BOOLEAN
  OBVIOUS
<1> HIDE DEF kept, below
<1> QED
  BY <1>1, <1>3, <1>4 DEF Answer

\* The last read is behind a search that loads.
LEMMA ReadsEnd ==
  ASSUME NEW x
  PROVE  HasRead(x, 7) <=> HasRead(x, 8)
<1>1. /\ DenseAt(x.req, 7) = DenseAt(x.req, 8) /\ LexicalAt(x.req, 7) = LexicalAt(x.req, 8)
      /\ ProbedAt(x.req, 7) = ProbedAt(x.req, 8)
  BY DEF DenseAt, LexicalAt, ProbedAt
<1>2. HiddenAt(x.req, 7) = HiddenAt(x.req, 8)
  BY <1>1 DEF HiddenAt
<1>3. ExcludedAt(x.req, 7) = ExcludedAt(x.req, 8)
  BY <1>2 DEF ExcludedAt
<1> QED
  BY <1>1, <1>2, <1>3 DEF HasRead

\* Once a search has its answer, what it has read stays what it is.
LEMMA Finished ==
  ASSUME NEW y \in SearchRecord, y.req \in Request, y.at \in {"rerank", "done"}, IsAssembled(y),
         y.still => HasRead(y, 7)
  PROVE  IsTyped(y) /\ IsRead(y)
<1>1. Number[y.at] = 8 /\ y.at # "idle"
  BY Numbers
<1> QED
  BY <1>1, ReadsEnd DEF IsTyped, IsRead

\* The rows are loaded; with none, or without reranking, that is the answer.
LEMMA LoadStep ==
  ASSUME SearchesStand, NEW s \in Searches, Load(s)
  PROVE  SearchesStand'
<1> DEFINE x == search[s]
           candidates == First(RetrieveTopN, OrderCandidates(x.req.mode, x.dense, x.lexical))
           rows == Range(candidates) \cap chunks
           answer == Assembled(x.req, candidates, rows, x.result.excluded)
           reranking == [x EXCEPT !.at = "rerank", !.candidates = candidates, !.rows = rows]
           answered == [x EXCEPT !.at = "done", !.candidates = candidates, !.rows = rows, !.result = answer]
<1>1. x.at = Stages[7] /\ UNCHANGED corpus
  BY Numbers DEF Load
<1>2. x \in SearchRecord /\ x.req \in Request /\ (x.still => HasRead(x, 7))
  BY <1>1, Reached
<1>3. PICK y \in {reranking, answered} : search' = [search EXCEPT ![s] = y]
  <2> HIDE DEF candidates, rows, answer
  <2>1. \/ search' = [search EXCEPT ![s].at = "rerank", ![s].candidates = candidates, ![s].rows = rows]
        \/ search' = [search EXCEPT ![s].at = "done", ![s].candidates = candidates, ![s].rows = rows,
                        ![s].result = answer]
    BY DEF Load, candidates, rows, answer
  <2>2. search' = [search EXCEPT ![s] = reranking] \/ search' = [search EXCEPT ![s] = answered]
    BY <2>1 DEF SearchesStand, SearchRecord
  <2> QED
    BY <2>2
<1>4. candidates \in Seq(Chunks) /\ rows \subseteq Range(candidates) /\ rows \subseteq Chunks
  <2>1. x.dense \in Seq(Chunks) /\ x.lexical \in Seq(Chunks) /\ RetrieveTopN \in Nat
    BY <1>2, RetrievalAssumption DEF SearchRecord, RetrievalAssumption
  <2>2. OrderCandidates(x.req.mode, x.dense, x.lexical) \in Seq(Chunks)
    BY <2>1, FusedInOrder DEF OrderCandidates
  <2>3. candidates \in Seq(Chunks)
    BY <2>1, <2>2, FirstOfList
  <2> QED
    BY <2>3, FinitelyMany
<1>5. /\ answer \in Answer
      /\ answer.excluded = x.result.excluded
  <2>1. x.result.excluded \in SUBSET Chunks
    BY <1>2 DEF SearchRecord, Answer
  <2> HIDE DEF candidates, rows
  <2> QED
    BY <1>2, <1>4, <2>1, AssembledTyped
<1>6. {"rerank", "done"} \subseteq DOMAIN Number
  BY Numbers
<1>7. /\ y \in SearchRecord /\ y.req = x.req /\ y.still = x.still /\ y.at \in {"rerank", "done"}
      /\ y.dense = x.dense /\ y.lexical = x.lexical /\ y.hidden = x.hidden
      /\ y.result.excluded = x.result.excluded /\ y.candidates = candidates /\ y.rows = rows
      /\ y.at = "done" => y.result = answer
  <2> HIDE DEF candidates, rows, answer
  <2>1. CASE y = reranking
    BY <1>2, <1>4, <1>6, <2>1 DEF SearchRecord
  <2>2. CASE y = answered
    <3>1. answered \in SearchRecord
      BY <1>2, <1>4, <1>5, <1>6 DEF SearchRecord
    <3>2. /\ answered.req = x.req /\ answered.still = x.still /\ answered.at = "done"
          /\ answered.dense = x.dense /\ answered.lexical = x.lexical /\ answered.hidden = x.hidden
          /\ answered.result = answer /\ answered.candidates = candidates /\ answered.rows = rows
      BY <1>2 DEF SearchRecord
    <3> HIDE DEF answered, answer
    <3> QED
      BY <1>5, <2>2, <3>1, <3>2
  <2> QED
    BY <1>3, <2>1, <2>2
<1>8. IsAssembled(y)
  BY <1>4, <1>7 DEF IsAssembled
<1>9. HasRead(x, 7) => HasRead(y, 7)
  BY <1>7 DEF HasRead
<1>10. IsTyped(y) /\ IsRead(y)
  BY <1>2, <1>7, <1>8, <1>9, Finished
<1> QED
  BY <1>1, <1>3, <1>7, <1>8, <1>10, OneSearch

\* A search begins with nothing read.
LEMMA BeginStep ==
  ASSUME SearchesStand, NEW s \in Searches, Begin(s)
  PROVE  SearchesStand'
<1> DEFINE x == search[s]
<1>1. PICK r \in Asks[s] : search' = [search EXCEPT ![s].at = Following(r, 0), ![s].req = r]
  BY DEF Begin
<1> DEFINE y == [x EXCEPT !.at = Following(r, 0), !.req = r]
<1>2. search' = [search EXCEPT ![s] = y] /\ UNCHANGED corpus /\ x.at = "idle" /\ x \in SearchRecord /\ IsRead(x)
  BY <1>1 DEF Begin, SearchesStand, SearchRecord
<1>3. r \in Request /\ Following(r, 0) \in DOMAIN Number
  BY RetrievalAssumption, FollowingAt DEF RetrievalAssumption
<1>4. /\ y \in SearchRecord /\ y.req = r /\ y.at = Following(r, 0)
      /\ y.dense = x.dense /\ y.lexical = x.lexical /\ y.hidden = x.hidden /\ y.result = x.result
  BY <1>2, <1>3 DEF SearchRecord
<1>5. HasRead(y, 0 + 1)
  <2> HIDE DEF y
  <2> QED
    BY <1>2, <1>4 DEF IsRead, HasRead, DenseAt, LexicalAt, ProbedAt, HiddenAt, ExcludedAt
<1> HIDE DEF y
<1>6. IsTyped(y) /\ IsAssembled(y) /\ IsRead(y)
  BY <1>3, <1>4, <1>5, Advanced
<1> QED
  BY <1>2, <1>4, <1>6, OneSearch

\* The query is embedded, or the rows are scored.
LEMMA InferredStep ==
  ASSUME IInv, SInv, NEW s \in Searches, Inferred(s)
  PROVE  SearchesStand'
<1> DEFINE x == search[s]
<1>1. /\ SearchesStand /\ UNCHANGED corpus
      /\ (Model(s) = "embedding" /\ x.at = "embed") \/ (Model(s) = "reranker" /\ x.at = "rerank")
  BY DEF SInv, CallersFollow, Inferred, Model
<1>2. CASE Model(s) = "embedding" /\ x.at = "embed"
  <2> DEFINE y == [x EXCEPT !.at = Following(x.req, 1)]
  <2>1. search' = [search EXCEPT ![s] = y] /\ x.at = Stages[1]
    BY <1>1, <1>2, Numbers DEF Inferred, SearchesStand, SearchRecord
  <2>2. x \in SearchRecord /\ x.req \in Request /\ (x.still => HasRead(x, 1)) /\ Following(x.req, 1) \in DOMAIN Number
    BY <1>1, <2>1, Reached, FollowingAt
  <2>3. /\ y \in SearchRecord /\ y.req = x.req /\ y.at = Following(x.req, 1) /\ y.still = x.still
        /\ y.dense = x.dense /\ y.lexical = x.lexical /\ y.hidden = x.hidden /\ y.result = x.result
    BY <2>2 DEF SearchRecord
  <2>4. HasRead(x, 1) => HasRead(y, 1 + 1)
    <3> HIDE DEF y
    <3> QED
      BY <2>3 DEF HasRead, DenseAt, LexicalAt, ProbedAt, HiddenAt, ExcludedAt
  <2> HIDE DEF y
  <2>5. IsTyped(y) /\ IsAssembled(y) /\ IsRead(y)
    BY <2>2, <2>3, <2>4, Advanced
  <2> QED
    BY <1>1, <2>1, <2>3, <2>5, OneSearch
<1>3. CASE Model(s) = "reranker" /\ x.at = "rerank"
  <2> DEFINE answer == Assembled(x.req, x.candidates, x.rows, x.result.excluded)
             y == [x EXCEPT !.at = "done", !.result = answer]
  <2>1. search' = [search EXCEPT ![s] = y]
    <3> HIDE DEF answer
    <3>1. search' = [search EXCEPT ![s].at = "done", ![s].result = answer]
      BY <1>3 DEF Inferred, answer
    <3> QED
      BY <1>1, <3>1 DEF SearchesStand, SearchRecord
  <2>2. x \in SearchRecord /\ IsTyped(x) /\ IsAssembled(x) /\ IsRead(x)
    BY <1>1 DEF SearchesStand
  <2>3. /\ x.req \in Request /\ "done" \in DOMAIN Number /\ (x.still => HasRead(x, 8))
        /\ x.candidates = First(RetrieveTopN, OrderCandidates(x.req.mode, x.dense, x.lexical))
        /\ x.rows \subseteq Range(x.candidates)
    BY <1>3, <2>2, Numbers DEF IsTyped, IsAssembled, IsRead
  <2>4. /\ answer \in Answer
        /\ answer.excluded = x.result.excluded
    <3>1. x.result.excluded \in SUBSET Chunks /\ x.candidates \in Seq(Chunks)
      BY <2>2 DEF SearchRecord, Answer
    <3>2. x.rows \subseteq Range(x.candidates) /\ x.req \in Request
      BY <2>3
    <3> HIDE DEF x
    <3> QED
      BY <3>1, <3>2, AssembledTyped
  <2>5. /\ y \in SearchRecord /\ y.req = x.req /\ y.still = x.still /\ y.at = "done"
        /\ y.dense = x.dense /\ y.lexical = x.lexical /\ y.hidden = x.hidden
        /\ y.result = answer /\ y.candidates = x.candidates /\ y.rows = x.rows
    <3> HIDE DEF answer
    <3> QED
      BY <2>2, <2>3, <2>4 DEF SearchRecord
  <2> HIDE DEF y
  <2>6. IsAssembled(y)
    <3>1. y.result = Assembled(y.req, y.candidates, y.rows, y.result.excluded)
      BY <2>4, <2>5
    <3> QED
      BY <2>3, <2>5, <3>1 DEF IsAssembled
  <2>7. HasRead(x, 8) => HasRead(y, 7)
    <3>1. HasRead(y, 8) => HasRead(y, 7)
      BY ReadsEnd
    <3> QED
      BY <2>4, <2>5, <3>1 DEF HasRead
  <2>8. IsTyped(y) /\ IsRead(y)
    BY <2>3, <2>5, <2>6, <2>7, Finished
  <2> QED
    BY <1>1, <2>1, <2>5, <2>6, <2>8, OneSearch
<1> QED
  BY <1>1, <1>2, <1>3

\* A model that cannot be built fails the search that asked for it.
LEMMA FailedStep ==
  ASSUME IInv, SInv, NEW s \in Searches, BuildFails(s)
  PROVE  SearchesStand'
<1> DEFINE x == search[s]
           y == [x EXCEPT !.at = "failed"]
<1>1. SearchesStand /\ UNCHANGED corpus /\ x.at \in {"embed", "rerank"}
  BY DEF SInv, CallersFollow, BuildFails
<1>2. x \in SearchRecord /\ IsTyped(x)
  BY <1>1 DEF SearchesStand
<1>3. search' = [search EXCEPT ![s] = y]
  BY <1>1, RetrievalAssumption DEF BuildFails, RetrievalAssumption, SearchesStand, SearchRecord
<1>4. x.req \in Request /\ "failed" \in DOMAIN Number /\ Number["failed"] = 0
  BY <1>1, <1>2, Numbers DEF IsTyped
<1>5. y \in SearchRecord /\ y.req = x.req /\ y.at = "failed"
  BY <1>2, <1>4 DEF SearchRecord
<1> HIDE DEF y
<1>6. IsTyped(y) /\ IsAssembled(y) /\ IsRead(y)
  BY <1>4, <1>5 DEF IsTyped, IsAssembled, IsRead
<1> QED
  BY <1>1, <1>3, <1>5, <1>6, OneSearch

\* What a change of the corpus leaves of a search: only that it is not still.
LEMMA ChangedStep ==
  ASSUME SearchesStand, Changed
  PROVE  SearchesStand'
<1> DEFINE After(u) == IF search[u].at = "idle" THEN search[u] ELSE [search[u] EXCEPT !.still = FALSE]
<1>1. search' = [s \in Searches |-> After(s)]
  BY DEF Changed
<1>2. ASSUME NEW u \in Searches, NEW z, z = After(u)
      PROVE  z \in SearchRecord /\ IsTyped(z) /\ IsAssembled(z) /\ IsRead(z)'
  <2> DEFINE x == search[u]
  <2>1. x \in SearchRecord /\ IsTyped(x) /\ IsAssembled(x) /\ IsRead(x)
    BY DEF SearchesStand
  <2>2. CASE x.at = "idle"
    <3>1. z = x /\ Number[x.at] = 0
      BY <1>2, <2>2, Numbers
    <3> QED
      BY <2>1, <2>2, <3>1 DEF IsRead
  <2>3. CASE x.at # "idle"
    <3>1. /\ z \in SearchRecord /\ z.at = x.at /\ z.req = x.req /\ z.still = FALSE /\ z.result = x.result
          /\ z.dense = x.dense /\ z.lexical = x.lexical /\ z.candidates = x.candidates /\ z.rows = x.rows
      BY <1>2, <2>1, <2>3 DEF SearchRecord
    <3>2. IsTyped(z)
      BY <2>1, <3>1 DEF IsTyped
    <3>3. IsAssembled(z)
      BY <2>1, <3>1 DEF IsAssembled
    <3> QED
      BY <2>3, <3>1, <3>2, <3>3 DEF IsRead
  <2> QED
    BY <2>2, <2>3
<1> HIDE DEF After
<1>3. \A u \in Searches : search'[u] = After(u) /\ After(u) \in SearchRecord
  BY <1>1, <1>2
<1>4. search' \in [Searches -> SearchRecord]
  BY <1>1, <1>2
<1> QED
  BY <1>2, <1>3, <1>4 DEF SearchesStand

\* A search is inside the model its stage needs, whoever steps.
LEMMA CallersStep ==
  ASSUME IInv, SInv, [Next]_vars
  PROVE  CallersFollow'
<1> USE DEF Model
<1>1. SearchesStand /\ CallersFollow /\ Searches \subseteq Threads /\ Warmup \in Threads
  BY DEF SInv, Threads
<1>2. \A u \in Threads : caller[u].at # "away" => caller[u].model \in Models
  BY DEF IInv, CallersTyped
<1>3. \A s \in Searches : search[s] \in SearchRecord
  BY <1>1 DEF SearchesStand
<1>4. ASSUME UNCHANGED caller, \A s \in Searches : caller[s].at # "away" => search'[s].at = search[s].at
      PROVE  CallersFollow'
  BY <1>1, <1>4 DEF CallersFollow
<1>5. ASSUME NEW s \in Searches, NEW m \in Models, Calls(s, m),
             \A u \in Searches \ {s} : search'[u] = search[u],
             (m = "embedding" /\ search'[s].at = "embed") \/ (m = "reranker" /\ search'[s].at = "rerank")
      PROVE  CallersFollow'
  <2>1. caller'[s] = [at |-> "look", model |-> m] /\ \A u \in Searches \ {s} : caller'[u] = caller[u]
    BY <1>1, <1>5 DEF Calls, IInv, CallersTyped
  <2> QED
    BY <1>1, <1>5, <2>1 DEF CallersFollow
<1>6. ASSUME NEW t \in Threads, NEW at \in Steps, At(t, at), caller[t].at # "away", UNCHANGED search
      PROVE  CallersFollow'
  <2>1. /\ caller'[t].model = caller[t].model /\ \A u \in Threads \ {t} : caller'[u] = caller[u]
    BY <1>6, AtEffect DEF IInv
  <2>2. \A u \in Searches : caller'[u].at # "away" => caller[u].at # "away" /\ caller'[u].model = caller[u].model
    BY <1>1, <1>6, <2>1
  <2> QED
    BY <1>1, <1>6, <2>2 DEF CallersFollow
<1>7. ASSUME NEW t \in Threads, At(t, "away"), caller[t].at # "away",
             \A u \in Searches \ {t} : search'[u] = search[u]
      PROVE  CallersFollow'
  <2>1. caller'[t].at = "away" /\ \A u \in Threads \ {t} : caller'[u] = caller[u]
    BY <1>7, AtEffect DEF IInv, Steps
  <2> QED
    BY <1>1, <1>7, <2>1 DEF CallersFollow
<1>8. ASSUME NEW s \in Searches, Begin(s) PROVE CallersFollow'
  <2>1. PICK r \in Asks[s] :
          /\ search' = [search EXCEPT ![s].at = Following(r, 0), ![s].req = r]
          /\ IF UsesDense(r.mode) THEN Calls(s, "embedding") ELSE UNCHANGED caller
    BY <1>8 DEF Begin
  <2>2. /\ search[s].at = "idle" /\ \A u \in Searches \ {s} : search'[u] = search[u]
        /\ search'[s].at = Following(r, 0)
    BY <1>1, <1>3, <1>8, <2>1 DEF Begin, SearchesStand, SearchRecord
  <2>3. CASE UsesDense(r.mode)
    <3>1. PICK j \in (0 + 1)..7 :
            /\ Following(r, 0) = Stages[j] /\ \A i \in (0 + 1)..(j - 1) : Stages[i] \notin Applies(r)
      BY FollowingStage
    <3>2. Stages[1] \in Applies(r) /\ Stages[1] = "embed"
      BY <2>3, Numbers DEF Applies
    <3>3. j = 1
      BY <3>1, <3>2
    <3> QED
      BY <1>5, <2>1, <2>2, <2>3, <3>1, <3>2, <3>3 DEF Models
  <2>4. CASE ~UsesDense(r.mode)
    <3>1. caller[s].at = "away"
      BY <1>1, <2>2 DEF CallersFollow
    <3> QED
      BY <1>4, <2>1, <2>2, <2>4, <3>1
  <2> QED
    BY <2>3, <2>4
<1>9. ASSUME NEW s \in Searches,
             RunDense(s) \/ RunLexical(s) \/ ProbeDense(s) \/ ProbeLexical(s) \/ Exclude(s)
      PROVE  CallersFollow'
  <2>1. UNCHANGED caller /\ search[s].at \notin {"embed", "rerank"}
    BY <1>9 DEF RunDense, RunLexical, ProbeDense, ProbeLexical, Exclude, models
  <2>2. \A u \in Searches \ {s} : search'[u] = search[u]
    BY <1>1, <1>9
    DEF RunDense, RunLexical, ProbeDense, ProbeLexical, Exclude, Advance, SearchesStand
  <2>3. caller[s].at = "away"
    BY <1>1, <2>1 DEF CallersFollow
  <2> QED
    BY <1>4, <2>1, <2>2, <2>3
<1>10. ASSUME NEW s \in Searches, Load(s) PROVE CallersFollow'
  <2>1. \A u \in Searches \ {s} : search'[u] = search[u]
    BY <1>1, <1>10 DEF Load, SearchesStand
  <2>2. search[s].at = "load" /\ caller[s].at = "away"
    BY <1>1, <1>10 DEF Load, CallersFollow
  <2>3. UNCHANGED caller \/ (Calls(s, "reranker") /\ search'[s].at = "rerank")
    BY <1>1, <1>3, <1>10 DEF Load, SearchesStand, SearchRecord
  <2> QED
    BY <1>4, <1>5, <2>1, <2>2, <2>3 DEF Models
<1>11. ASSUME NEW t \in Threads, UseModel(t) PROVE CallersFollow'
  <2>1. caller[t].at # "away"
    BY <1>11 DEF UseModel, Look, LockModel, Recheck, Build, BuildFails
  <2>2. CASE BuildFails(t)
    <3>1. At(t, "away") /\ \A u \in Searches \ {t} : search'[u] = search[u]
      BY <1>1, <2>2 DEF BuildFails, SearchesStand
    <3> QED
      BY <1>7, <2>1, <3>1
  <2>3. CASE Look(t) \/ LockModel(t) \/ Recheck(t) \/ Build(t)
    <3>1. UNCHANGED search /\ \E at \in {"infer", "lock", "recheck", "build"} : At(t, at)
      BY <2>3 DEF Look, LockModel, Recheck, Build
    <3> QED
      BY <1>6, <2>1, <3>1 DEF Steps
  <2> QED
    BY <1>11, <2>2, <2>3 DEF UseModel
<1>12. ASSUME NEW s \in Searches, Infer(s) PROVE CallersFollow'
  BY <1>1, <1>6, <1>12 DEF Infer, Steps
<1>13. ASSUME NEW s \in Searches, Inferred(s) PROVE CallersFollow'
  <2>1. At(s, "away") /\ caller[s].at # "away" /\ \A u \in Searches \ {s} : search'[u] = search[u]
    BY <1>1, <1>13 DEF Inferred, SearchesStand
  <2> QED
    BY <1>1, <1>7, <2>1
<1>14. CASE Warmed
  <2>1. CASE Calls(Warmup, "reranker")
    <3>1. \A u \in Searches : caller'[u] = caller[u]
      BY <1>1, <2>1, RetrievalAssumption DEF Calls, IInv, CallersTyped, RetrievalAssumption
    <3> QED
      BY <1>1, <1>14, <3>1 DEF CallersFollow, Warmed
  <2>2. CASE At(Warmup, "away")
    BY <1>1, <1>7, <1>14, <2>2 DEF Warmed
  <2> QED
    BY <1>14, <2>1, <2>2 DEF Warmed
<1>15. CASE Changed
  <2>1. UNCHANGED caller /\ \A u \in Searches : search'[u].at = search[u].at
    BY <1>3, <1>15 DEF Changed, models, SearchRecord
  <2> QED
    BY <1>4, <2>1
<1>16. CASE UNCHANGED vars
  BY <1>4, <1>16 DEF vars, models
<1> QED
  BY <1>8, <1>9, <1>10, <1>11, <1>12, <1>13, <1>14, <1>15, <1>16
  DEF Next, Ingested, Embedded, Vanished, Rebuilt, Done

\* No search has read anything at first.
LEMMA InitSInv == Init => SInv
<1> SUFFICES ASSUME Init PROVE SInv
  OBVIOUS
<1> DEFINE x == [at |-> "idle", req |-> NoRequest, dense |-> <<>>, lexical |-> <<>>, hidden |-> <<>>,
                 candidates |-> <<>>, rows |-> {}, result |-> NoResult, still |-> TRUE]
<1>1. search = [s \in Searches |-> x]
  BY DEF Init
<1>2. "idle" \in DOMAIN Number /\ Number["idle"] = 0
  BY Numbers
<1>3. /\ x \in SearchRecord /\ x.at = "idle" /\ x.dense = <<>> /\ x.lexical = <<>> /\ x.hidden = <<>>
      /\ x.result.excluded = {}
  BY <1>2 DEF SearchRecord, Answer, NoResult
<1> HIDE DEF x
<1>4. IsTyped(x) /\ IsAssembled(x) /\ IsRead(x)
  BY <1>2, <1>3 DEF IsTyped, IsAssembled, IsRead
<1>5. SearchesStand
  BY <1>1, <1>3, <1>4 DEF SearchesStand
<1>6. CallersFollow
  <2>1. \A s \in Searches : caller[s].at = "away"
    BY RetrievalAssumption DEF Init, RetrievalAssumption, Threads
  <2> QED
    BY <2>1 DEF CallersFollow
<1> QED
  BY <1>5, <1>6 DEF SInv

\* A search, while nothing changes under it, has read what it would read now; its
\* candidates are the fusion of its lists and its answer is made of them.
THEOREM SearchInvariance == Spec => []SInv
<1>1. IInv /\ SInv /\ [Next]_vars => SInv'
  <2> SUFFICES ASSUME IInv, SInv, [Next]_vars PROVE SearchesStand'
    BY CallersStep DEF SInv
  <2>1. SearchesStand
    BY DEF SInv
  <2>2. CASE UNCHANGED <<corpus, search>>
    <3>1. \A u \in Searches : search'[u] = search[u]
      BY <2>2
    <3> QED
      BY <2>1, <2>2, <3>1, SameReading DEF SearchesStand
  <2>3. ASSUME NEW s \in Searches,
               \/ Begin(s) \/ RunDense(s) \/ RunLexical(s) \/ ProbeDense(s) \/ ProbeLexical(s)
               \/ Exclude(s) \/ Load(s) \/ Inferred(s)
        PROVE  SearchesStand'
    BY <2>1, <2>3, BeginStep, DenseStep, LexicalStep, ProbeDenseStep, ProbeLexicalStep, ExcludeStep,
       LoadStep, InferredStep
  <2>4. ASSUME NEW s \in Searches, Infer(s) PROVE SearchesStand'
    BY <2>2, <2>4 DEF Infer
  <2>5. ASSUME NEW t \in Threads, UseModel(t) PROVE SearchesStand'
    <3>1. CASE BuildFails(t) /\ t # Warmup
      BY <3>1, FailedStep DEF Threads
    <3>2. CASE ~(BuildFails(t) /\ t # Warmup)
      <4>1. UNCHANGED <<corpus, search>>
        BY <2>5, <3>2 DEF UseModel, Look, LockModel, Recheck, Build, BuildFails
      <4> QED
        BY <2>2, <4>1
    <3> QED
      BY <3>1, <3>2
  <2>6. CASE Warmed
    BY <2>2, <2>6 DEF Warmed
  <2>7. ASSUME NEW c \in Chunks, Ingested(c) \/ Embedded(c) \/ Vanished(c) PROVE SearchesStand'
    BY <2>1, <2>7, ChangedStep DEF Ingested, Embedded, Vanished
  <2>8. CASE Rebuilt
    BY <2>1, <2>8, ChangedStep DEF Rebuilt
  <2>9. CASE Done \/ UNCHANGED vars
    BY <2>2, <2>9 DEF Done, vars
  <2> QED
    BY <2>3, <2>4, <2>5, <2>6, <2>7, <2>8, <2>9 DEF Next
<1> QED
  BY InitSInv, Invariance, <1>1, PTL DEF Spec

-----------------------------------------------------------------------------
(* What a finished search promises.                                         *)

\* What a finished search has made of its candidates.
LEMMA Answered ==
  ASSUME SearchesStand, NEW s \in Ended
  PROVE  /\ search[s].req \in Request /\ search[s].candidates \in Seq(Chunks)
         /\ search[s].dense \in Seq(Chunks) /\ search[s].lexical \in Seq(Chunks)
         /\ search[s].candidates =
              First(RetrieveTopN, OrderCandidates(search[s].req.mode, search[s].dense, search[s].lexical))
         /\ search[s].rows \subseteq Range(search[s].candidates)
         /\ search[s].result =
              Assembled(search[s].req, search[s].candidates, search[s].rows, search[s].result.excluded)
         /\ search[s].still => HasRead(search[s], 8)
<1> DEFINE x == search[s]
<1>1. s \in Searches /\ x.at = "done"
  BY DEF Ended
<1>2. x \in SearchRecord /\ IsTyped(x) /\ IsAssembled(x) /\ IsRead(x)
  BY <1>1 DEF SearchesStand
<1>3. Number[x.at] = 8
  BY <1>1, Numbers
<1> HIDE DEF x
<1>4. /\ x.req \in Request /\ x.candidates \in Seq(Chunks) /\ x.dense \in Seq(Chunks) /\ x.lexical \in Seq(Chunks)
      /\ x.candidates = First(RetrieveTopN, OrderCandidates(x.req.mode, x.dense, x.lexical))
      /\ x.rows \subseteq Range(x.candidates)
      /\ x.result = Assembled(x.req, x.candidates, x.rows, x.result.excluded)
      /\ x.still => HasRead(x, 8)
  BY <1>1, <1>2, <1>3 DEF IsTyped, IsAssembled, IsRead, SearchRecord
<1> QED
  BY <1>4 DEF x

\* What the hybrid mode lists ahead is not ranked worse by both retrievers.
LEMMA FusionIsFair ==
  ASSUME NEW r \in Request, r.mode = "hybrid", NEW dense \in Seq(Chunks), NEW lexical \in Seq(Chunks),
         NEW candidates, candidates = First(RetrieveTopN, OrderCandidates(r.mode, dense, lexical)),
         NEW rows, rows \subseteq Range(candidates),
         NEW i \in DOMAIN Hits(r, candidates, rows), NEW j \in DOMAIN Hits(r, candidates, rows), i < j
  PROVE  FusedBefore(dense, lexical, Hits(r, candidates, rows)[i], Hits(r, candidates, rows)[j])
<1> DEFINE fused == Fused(dense, lexical)
           hits == Hits(r, candidates, rows)
<1>1. /\ fused \in Seq(Chunks)
      /\ \A a, b \in DOMAIN fused : a < b => FusedBefore(dense, lexical, fused[a], fused[b])
  BY FusedInOrder
<1>2. candidates = First(RetrieveTopN, fused) /\ r.mode # Rerank /\ RetrieveTopN \in Nat
  BY RetrievalAssumption DEF OrderCandidates, Rerank, RetrievalAssumption
<1> HIDE DEF fused
<1>3. candidates \in Seq(Chunks) /\ \A a \in DOMAIN candidates : a \in DOMAIN fused /\ candidates[a] = fused[a]
  BY <1>1, <1>2, FirstOfList
<1>4. PICK a \in DOMAIN candidates, b \in DOMAIN candidates :
        a < b /\ hits[i] = candidates[a] /\ hits[j] = candidates[b]
  BY <1>2, <1>3, HitsAreBest
<1> QED
  BY <1>1, <1>3, <1>4

\* What a finished search returns is what its rows and its lists entitle it to.
THEOREM AnswersAlwaysSound == Spec => []AnswersAreSound
<1>1. SInv => AnswersAreSound
  <2> SUFFICES ASSUME SearchesStand, NEW s \in Ended
               PROVE  LET x == search[s]  hits == x.result.hits
                      IN  /\ Range(hits) \subseteq x.rows /\ Len(hits) <= RerankTopK
                          /\ x.req.mode = Rerank /\ x.req.apply =>
                               /\ x.result.below => hits = <<>> /\ \A c \in x.rows : x.req.score[c] < Threshold
                               /\ ~x.result.below => (hits = <<>> <=> x.rows = {})
                               /\ \A i \in DOMAIN hits, c \in x.rows \ Range(hits) :
                                    x.req.score[c] <= x.req.score[hits[i]]
                          /\ x.req.mode # Rerank => ~x.result.below
                          /\ \A i, j \in DOMAIN hits :
                               i < j /\ x.req.mode = "hybrid" =>
                                 ~ /\ RankIn(x.dense, hits[j]) # 0 /\ RankIn(x.lexical, hits[j]) # 0
                                   /\ RankIn(x.dense, hits[j]) < RankIn(x.dense, hits[i])
                                   /\ RankIn(x.lexical, hits[j]) < RankIn(x.lexical, hits[i])
    BY DEF SInv, AnswersAreSound
  <2> DEFINE x == search[s]
             r == x.req
             all == Hits(r, x.candidates, x.rows)
             hits == x.result.hits
  <2>1. /\ r \in Request /\ x.candidates \in Seq(Chunks) /\ x.dense \in Seq(Chunks) /\ x.lexical \in Seq(Chunks)
        /\ x.candidates = First(RetrieveTopN, OrderCandidates(r.mode, x.dense, x.lexical))
        /\ x.rows \subseteq Range(x.candidates)
        /\ x.result = Assembled(r, x.candidates, x.rows, x.result.excluded)
    BY Answered
  <2>2. /\ x.result.below <=> r.mode = Rerank /\ all # <<>> /\ r.score[all[1]] < Threshold
        /\ hits = IF x.result.below /\ r.apply THEN <<>> ELSE all
    <3> DEFINE below == r.mode = Rerank /\ all # <<>> /\ r.score[all[1]] < Threshold
    <3>1. x.result = [hits |-> IF below /\ r.apply THEN <<>> ELSE all, below |-> below, excluded |-> x.result.excluded]
      BY <2>1 DEF Assembled
    <3> HIDE DEF below, all
    <3>2. x.result.below = below /\ hits = IF below /\ r.apply THEN <<>> ELSE all
      BY <3>1
    <3> QED
      BY <3>2 DEF below
  <2>3. /\ all \in Seq(Chunks) /\ Range(all) \subseteq x.rows /\ Len(all) <= RerankTopK
        /\ r.mode = Rerank =>
             /\ all = <<>> <=> x.rows = {}
             /\ \A i \in DOMAIN all, c \in x.rows :
                  c \notin Range(all) \/ i = 1 => r.score[c] <= r.score[all[i]]
    BY <2>1, HitsAreBest
  <2>4. \A c \in x.rows : r.score[c] \in Int
    BY <2>1, FinitelyMany DEF Request
  <2>5. Range(<<>>) = {} /\ Len(<<>>) = 0 /\ RerankTopK \in Nat
    BY RetrievalAssumption DEF Range, RetrievalAssumption
  <2>6. Range(hits) \subseteq x.rows /\ Len(hits) <= RerankTopK
    BY <2>2, <2>3, <2>5
  <2>7. ASSUME r.mode = Rerank, r.apply
        PROVE  /\ x.result.below => hits = <<>> /\ \A c \in x.rows : r.score[c] < Threshold
               /\ ~x.result.below => (hits = <<>> <=> x.rows = {})
               /\ \A i \in DOMAIN hits, c \in x.rows \ Range(hits) : r.score[c] <= r.score[hits[i]]
    <3>1. CASE x.result.below
      <4>1. hits = <<>> /\ 1 \in DOMAIN all /\ r.score[all[1]] < Threshold
        BY <2>2, <2>3, <2>7, <3>1
      <4>2. all[1] \in x.rows /\ Threshold \in Int
        BY <2>3, <4>1, RetrievalAssumption DEF Range, RetrievalAssumption
      <4>3. ASSUME NEW c \in x.rows PROVE r.score[c] < Threshold
        <5>1. r.score[c] <= r.score[all[1]] /\ r.score[c] \in Int /\ r.score[all[1]] \in Int
          BY <2>3, <2>4, <2>7, <4>1, <4>2
        <5> HIDE DEF all, r, x
        <5> QED
          BY <4>1, <4>2, <5>1
      <4> QED
        BY <3>1, <4>1, <4>3
    <3>2. CASE ~x.result.below
      BY <2>2, <2>3, <2>7, <3>2
    <3> QED
      BY <3>1, <3>2
  <2>8. r.mode # Rerank => ~x.result.below
    BY <2>2
  <2>9. ASSUME NEW i \in DOMAIN hits, NEW j \in DOMAIN hits, i < j, r.mode = "hybrid",
               RankIn(x.dense, hits[j]) # 0, RankIn(x.lexical, hits[j]) # 0,
               RankIn(x.dense, hits[j]) < RankIn(x.dense, hits[i]),
               RankIn(x.lexical, hits[j]) < RankIn(x.lexical, hits[i])
        PROVE  FALSE
    <3>1. hits = all
      BY <2>2, <2>8, <2>9 DEF Rerank
    <3>2. FusedBefore(x.dense, x.lexical, hits[i], hits[j])
      BY <2>1, <2>9, <3>1, FusionIsFair
    <3>3. ~FusedBefore(x.dense, x.lexical, hits[i], hits[j])
      <4> HIDE DEF hits, x
      <4> QED
        BY <2>1, <2>9, BothBetterIsFirst
    <3> QED
      BY <3>2, <3>3
  <2> QED
    BY <2>6, <2>7, <2>8, <2>9
<1> QED
  BY SearchInvariance, <1>1, PTL

\* A chunk that heads both lists of the probe is among its candidates.
LEMMA TopIsProbed ==
  ASSUME NEW r \in Request, r.filter.asOf # NoDate,
         NEW q, q = Unfiltered(r.filter), Dense(r, q) # <<>>, Lexical(r, q) # <<>>,
         Dense(r, q)[1] = Lexical(r, q)[1]
  PROVE  Dense(r, q)[1] \in Range(First(RerankTopK, HiddenAt(r, 8)))
<1> DEFINE dense == Dense(r, q)
           lexical == Lexical(r, q)
           hidden == HiddenAt(r, 8)
<1>1. dense \in Seq(Chunks) /\ lexical \in Seq(Chunks) /\ RerankTopK \in Nat \ {0}
  BY ReadsPass, RetrievalAssumption DEF RetrievalAssumption
<1>2. /\ "probeDense" \in Applies(r) <=> r.mode # "lexical"
      /\ "probeLexical" \in Applies(r) <=> r.mode # "dense"
  BY DEF Applies, UsesDense, UsesLexical
<1>3. hidden = IF r.mode = "dense" THEN dense ELSE IF r.mode = "lexical" THEN Fused(<<>>, lexical)
               ELSE Fused(dense, lexical)
  <2> HIDE DEF dense, lexical
  <2> QED
    BY <1>2 DEF HiddenAt, ProbedAt, dense, lexical
<1> HIDE DEF hidden, dense, lexical
<1>4. dense # <<>> /\ lexical # <<>> /\ dense[1] = lexical[1]
  BY DEF dense, lexical
<1>5. hidden \in Seq(Chunks) /\ hidden # <<>> /\ hidden[1] = dense[1]
  <2>1. <<>> \in Seq(Chunks)
    OBVIOUS
  <2>2. /\ Fused(<<>>, lexical) # <<>> /\ Fused(<<>>, lexical)[1] = lexical[1]
        /\ Fused(dense, lexical) # <<>> /\ Fused(dense, lexical)[1] = lexical[1]
    BY <1>1, <1>4, <2>1, TopIsFirst
  <2>3. Fused(<<>>, lexical) \in Seq(Chunks) /\ Fused(dense, lexical) \in Seq(Chunks)
    BY <1>1, <2>1, FusedInOrder
  <2> QED
    BY <1>1, <1>3, <1>4, <2>2, <2>3
<1>6. 1 \in DOMAIN hidden
  BY <1>5
<1>7. 1 \in DOMAIN First(RerankTopK, hidden) /\ First(RerankTopK, hidden)[1] = hidden[1]
  BY <1>1, <1>5, <1>6, FirstOfList
<1> QED
  BY <1>5, <1>7 DEF Range, dense, hidden

\* What a search lists is in force as of its date.
LEMMA ListedAreInForce ==
  ASSUME NEW r \in Request, r.filter.asOf # NoDate, NEW c,
         c \in Range(DenseAt(r, 8)) \cup Range(LexicalAt(r, 8))
  PROVE  CircularOf[c] \notin Superseded(edges, r.filter.asOf)
<1>1. c \in Range(Dense(r, r.filter)) \cup Range(Lexical(r, r.filter))
  <2>1. Range(<<>>) = {}
    BY DEF Range
  <2> QED
    BY <2>1 DEF DenseAt, LexicalAt
<1>2. CircularOf[c] \in Filtered(Files, edges, r.filter)
  BY <1>1, ReadsPass
<1> QED
  BY <1>2 DEF Filtered

\* What the probe lists was issued by the as-of date.
LEMMA ProbedAreIssued ==
  ASSUME NEW r \in Request, r.filter.asOf # NoDate, NEW c, c \in Range(HiddenAt(r, 8))
  PROVE  Doc[CircularOf[c]].date # NoDate /\ Doc[CircularOf[c]].date <= r.filter.asOf
<1> DEFINE q == Unfiltered(r.filter)
<1>1. /\ Dense(r, q) \in Seq(Chunks) /\ Lexical(r, q) \in Seq(Chunks) /\ <<>> \in Seq(Chunks)
      /\ Range(<<>>) = {}
  BY ReadsPass DEF Range
<1>2. c \in Range(Dense(r, q)) \cup Range(Lexical(r, q))
  <2> HIDE DEF q
  <2>1. ProbedAt(r, 8) \in {Dense(r, q), <<>>}
    BY DEF ProbedAt, q
  <2>2. HiddenAt(r, 8) \in {ProbedAt(r, 8), Fused(ProbedAt(r, 8), Lexical(r, q))}
    BY DEF HiddenAt, q
  <2>3. Range(Fused(ProbedAt(r, 8), Lexical(r, q))) = Range(ProbedAt(r, 8)) \cup Range(Lexical(r, q))
    BY <1>1, <2>1, FusedInOrder
  <2> QED
    BY <1>1, <2>1, <2>2, <2>3
<1>3. q.to = r.filter.asOf
  BY DEF Unfiltered, Request
<1>4. CircularOf[c] \in Filtered(Files, edges, q)
  <2> HIDE DEF q
  <2> QED
    BY <1>2, ReadsPass
<1> HIDE DEF q
<1> QED
  BY <1>3, <1>4 DEF Filtered

\* The banner of an unchanged corpus says what the as-of date hides, and only that.
THEOREM BannerAlwaysTrue == Spec => []BannerIsTrue
<1>1. SInv => BannerIsTrue
  <2> SUFFICES ASSUME SearchesStand, NEW s \in Ended, search[s].still, search[s].req.filter.asOf # NoDate
               PROVE  LET x == search[s]  q == x.req.filter
                          all == [q EXCEPT !.asOf = NoDate, !.to = q.asOf]
                          dense == Dense(x.req, all)  lexical == Lexical(x.req, all)
                      IN  /\ x.result.excluded \cap Range(x.result.hits) = {}
                          /\ \A c \in x.result.excluded :
                               Doc[CircularOf[c]].date # NoDate /\ Doc[CircularOf[c]].date <= q.asOf
                          /\ q.to = NoDate /\ dense # <<>> /\ lexical # <<>> /\ dense[1] = lexical[1]
                               /\ ~InForce(CircularOf[dense[1]], edges, q.asOf)
                             => dense[1] \in x.result.excluded
    BY DEF SInv, BannerIsTrue
  <2> DEFINE x == search[s]
             r == x.req
             asOf == r.filter.asOf
             all == Unfiltered(r.filter)
             dense == Dense(r, all)
             lexical == Lexical(r, all)
             probed == Range(First(RerankTopK, HiddenAt(r, 8)))
  <2>1. /\ r \in Request /\ x.candidates \in Seq(Chunks) /\ x.dense \in Seq(Chunks) /\ x.lexical \in Seq(Chunks)
        /\ x.candidates = First(RetrieveTopN, OrderCandidates(r.mode, x.dense, x.lexical))
        /\ x.rows \subseteq Range(x.candidates)
        /\ x.result = Assembled(r, x.candidates, x.rows, x.result.excluded)
        /\ HasRead(x, 8)
    BY Answered
  <2>2. /\ x.dense = DenseAt(r, 8) /\ x.lexical = LexicalAt(r, 8) /\ x.hidden = HiddenAt(r, 8)
        /\ x.result.excluded =
             {c \in probed \cap chunks : CircularOf[c] \in ExcludedByTemporalFilter(Files, edges, asOf)}
    <3>1. "exclude" \in Applies(r)
      BY DEF Applies
    <3> HIDE DEF x
    <3> QED
      BY <2>1, <3>1 DEF HasRead, ExcludedAt
  <2>3. \A c \in x.result.excluded : c \in probed /\ CircularOf[c] \in Superseded(edges, asOf)
    BY <2>2 DEF ExcludedByTemporalFilter
  <2>4. x.hidden \in Seq(Chunks) /\ probed \subseteq Range(HiddenAt(r, 8))
    <3>1. s \in Searches /\ RerankTopK \in Nat
      BY RetrievalAssumption DEF Ended, RetrievalAssumption
    <3>2. x.hidden \in Seq(Chunks)
      BY <3>1 DEF SearchesStand, SearchRecord
    <3> QED
      BY <2>2, <3>1, <3>2, FirstOfList
  <2>5. ASSUME NEW c \in x.result.excluded
        PROVE  Doc[CircularOf[c]].date # NoDate /\ Doc[CircularOf[c]].date <= asOf
    BY <2>1, <2>3, <2>4, ProbedAreIssued
  <2>6. ASSUME NEW c \in x.result.excluded, c \in Range(x.result.hits) PROVE FALSE
    <3>1. c \in Range(x.candidates)
      <4>1. Range(Hits(r, x.candidates, x.rows)) \subseteq x.rows
        BY <2>1, HitsAreBest
      <4>2. x.result.hits \in {<<>>, Hits(r, x.candidates, x.rows)}
        BY <2>1 DEF Assembled
      <4>3. Range(<<>>) = {}
        BY DEF Range
      <4> QED
        BY <2>1, <2>6, <4>1, <4>2, <4>3
    <3>2. c \in Range(x.dense) \cup Range(x.lexical)
      <4> DEFINE order == OrderCandidates(r.mode, x.dense, x.lexical)
      <4>1. order \in Seq(Chunks) /\ Range(order) \subseteq Range(x.dense) \cup Range(x.lexical)
        BY <2>1, FusedInOrder DEF OrderCandidates
      <4>2. RetrieveTopN \in Nat /\ x.candidates = First(RetrieveTopN, order)
        BY <2>1, RetrievalAssumption DEF RetrievalAssumption
      <4> HIDE DEF order
      <4> QED
        BY <3>1, <4>1, <4>2, FirstOfList
    <3>3. CircularOf[c] \notin Superseded(edges, asOf)
      BY <2>1, <2>2, <3>2, ListedAreInForce
    <3> QED
      BY <2>3, <2>6, <3>3
  <2>7. ASSUME dense # <<>>, lexical # <<>>, dense[1] = lexical[1],
               ~InForce(CircularOf[dense[1]], edges, asOf)
        PROVE  dense[1] \in x.result.excluded
    <3> DEFINE c == dense[1]
    <3>1. c \in probed
      BY <2>1, <2>7, TopIsProbed
    <3>2. c \in chunks /\ CircularOf[c] \in Filtered(Files, edges, all)
      <4>1. dense \in Seq(Chunks)
            /\ Range(dense) \subseteq {d \in chunks : CircularOf[d] \in Filtered(Files, edges, all)}
        BY <2>1, ReadsPass
      <4>2. c \in Range(dense)
        <5> HIDE DEF dense
        <5> QED
          BY <2>7, <4>1 DEF Range
      <4> QED
        BY <4>1, <4>2
    <3>3. all.to = asOf
      BY <2>1 DEF Unfiltered, Request
    <3> HIDE DEF c, all, asOf
    <3>4. CircularOf[c] \in Files /\ Doc[CircularOf[c]].date # NoDate /\ Doc[CircularOf[c]].date <= asOf
      BY <3>2, <3>3 DEF Filtered, asOf
    <3>5. CircularOf[c] \in Superseded(edges, asOf)
      BY <2>7, <3>4 DEF InForce, Filtered, NoFilter, NoDate, c
    <3> QED
      BY <2>2, <3>1, <3>2, <3>4, <3>5 DEF ExcludedByTemporalFilter, c, asOf
  <2>8. all = [r.filter EXCEPT !.asOf = NoDate, !.to = r.filter.asOf]
    BY DEF Unfiltered
  <2> QED
    BY <2>5, <2>6, <2>7, <2>8
<1> QED
  BY SearchInvariance, <1>1, PTL
=============================================================================
