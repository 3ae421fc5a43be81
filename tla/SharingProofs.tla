--------------------------- MODULE SharingProofs ---------------------------
(***************************************************************************)
(* Proofs about what concurrent callers share: the gateway's slots and        *)
(* clients (Gateway), one computation of a search with its cached answer      *)
(* (SharedSearch), the files that people review (HumanReview) and those of a  *)
(* measurement (Measurement). Four specifications, each with an inductive     *)
(* invariant of its own.                                                    *)
(*                                                                          *)
(* Gateway, for any number of calls, gateways, slots and attempts: no slot is *)
(* lost on any way out of a call, and every gateway has one client. The       *)
(* number of slots cannot be typed without counting their holders.           *)
(*                                                                          *)
(* SharedSearch, for any requests, questions, cache size, TTL and failures:   *)
(* identical searches never run at the same time, an answer is fresh and to   *)
(* the question asked, and only a retrieval makes a search fail.              *)
(*                                                                          *)
(* HumanReview and Measurement, for any number of commands at once, wherever  *)
(* they die: counts are exact, what was saved stays but for the two ways to   *)
(* lose it that the code has, and only numbers of the same questions meet.    *)
(***************************************************************************)
EXTENDS Gateway, SharedSearch, HumanReview, Measurement, FiniteSetTheorems, WellFoundedInduction, TLAPS

-----------------------------------------------------------------------------
(* The gateway.                                                             *)

\* A thread between LockClient and its release holds the lock.
LockHeld ==
  \A c \in Calls : call[c] \in {"checking", "building"} => lock[gateway[c]] = c

\* Whoever builds a client does so for a gateway that has none.
BuildsTheFirst ==
  \A c \in Calls : call[c] = "building" => client[gateway[c]] = Nobody

\* A call that backs off has an attempt left.
AttemptLeft == \A c \in Calls : call[c] = "backoff" => attempt[c] < MaxAttempts

GatewayInv ==
  /\ TypeOK /\ SlotsAccountedFor /\ OneClientPerGateway
  /\ LockHeld /\ BuildsTheFirst /\ AttemptLeft

-----------------------------------------------------------------------------
(* Counting the holders of a gateway's slots.                               *)

LEMMA HoldersFinite ==
  ASSUME NEW g \in Gateways
  PROVE  IsFiniteSet(HoldersOf(g)) /\ Cardinality(HoldersOf(g)) \in Nat
<1>1. HoldersOf(g) \subseteq Calls
  BY DEF HoldersOf
<1> QED
  BY <1>1, GatewayAssumption, FS_Subset, FS_CardinalityType DEF GatewayAssumption

\* A call that takes a slot is one holder more, and one free slot less.
LEMMA CountEnter ==
  ASSUME TypeOK, SlotsAccountedFor, NEW c \in Calls, NEW next \in Holding,
         call[c] \notin Holding, Go(c, next), gateway' = gateway,
         slots' = [slots EXCEPT ![gateway[c]] = @ - 1]
  PROVE  SlotsAccountedFor'
<1> SUFFICES ASSUME NEW g \in Gateways
             PROVE  slots'[g] + Cardinality(HoldersOf(g)') = MaxConcurrency
  BY DEF SlotsAccountedFor
<1>1. CASE g = gateway[c]
  <2>1. HoldersOf(g)' = HoldersOf(g) \cup {c} /\ c \notin HoldersOf(g)
    BY <1>1 DEF HoldersOf, Go, TypeOK
  <2>2. Cardinality(HoldersOf(g)') = Cardinality(HoldersOf(g)) + 1
    BY <2>1, HoldersFinite, FS_AddElement
  <2> QED
    BY <1>1, <2>2, HoldersFinite, GatewayAssumption
    DEF SlotsAccountedFor, TypeOK, GatewayAssumption
<1>2. CASE g # gateway[c]
  <2>1. HoldersOf(g)' = HoldersOf(g)
    BY <1>2 DEF HoldersOf, Go, TypeOK
  <2> QED
    BY <1>2, <2>1 DEF SlotsAccountedFor, TypeOK
<1> QED
  BY <1>1, <1>2

\* A call that leaves is one holder less, and one free slot more.
LEMMA CountLeave ==
  ASSUME TypeOK, SlotsAccountedFor, NEW c \in Calls, NEW how \in Ended,
         call[c] \in Holding, Leave(c, how), gateway' = gateway
  PROVE  SlotsAccountedFor'
<1> SUFFICES ASSUME NEW g \in Gateways
             PROVE  slots'[g] + Cardinality(HoldersOf(g)') = MaxConcurrency
  BY DEF SlotsAccountedFor
<1>1. CASE g = gateway[c]
  <2>1. HoldersOf(g)' = HoldersOf(g) \ {c} /\ c \in HoldersOf(g)
    BY <1>1 DEF HoldersOf, Leave, Go, TypeOK, Holding, Ended
  <2>2. Cardinality(HoldersOf(g)') = Cardinality(HoldersOf(g)) - 1
    BY <2>1, HoldersFinite, FS_RemoveElement
  <2> QED
    BY <1>1, <2>2, HoldersFinite, GatewayAssumption
    DEF SlotsAccountedFor, TypeOK, Leave, GatewayAssumption
<1>2. CASE g # gateway[c]
  <2>1. HoldersOf(g)' = HoldersOf(g)
    BY <1>2 DEF HoldersOf, Leave, Go, TypeOK
  <2> QED
    BY <1>2, <2>1 DEF SlotsAccountedFor, TypeOK, Leave
<1> QED
  BY <1>1, <1>2

\* Any other move of a call, inside or outside its slot, changes no count.
LEMMA CountStay ==
  ASSUME TypeOK, SlotsAccountedFor, NEW c \in Calls, NEW next,
         call[c] \in Holding <=> next \in Holding, Go(c, next),
         gateway' = gateway, slots' = slots
  PROVE  SlotsAccountedFor'
<1> SUFFICES ASSUME NEW g \in Gateways
             PROVE  slots'[g] + Cardinality(HoldersOf(g)') = MaxConcurrency
  BY DEF SlotsAccountedFor
<1>1. HoldersOf(g)' = HoldersOf(g)
  BY DEF HoldersOf, Go, TypeOK
<1> QED
  BY <1>1 DEF SlotsAccountedFor

-----------------------------------------------------------------------------
(* The inductive invariant.                                                 *)

LEMMA InitGatewayInv == GatewayInit => GatewayInv
<1> SUFFICES ASSUME GatewayInit PROVE GatewayInv
  OBVIOUS
<1>1. TypeOK
  BY GatewayAssumption DEF GatewayInit, TypeOK, GatewayAssumption
<1>2. SlotsAccountedFor
  <2> SUFFICES ASSUME NEW g \in Gateways
               PROVE  slots[g] + Cardinality(HoldersOf(g)) = MaxConcurrency
    BY DEF SlotsAccountedFor
  <2>1. HoldersOf(g) = {}
    BY DEF HoldersOf, GatewayInit, Holding
  <2> QED
    BY <2>1, FS_EmptySet, GatewayAssumption DEF GatewayInit, GatewayAssumption
<1>3. OneClientPerGateway /\ LockHeld /\ BuildsTheFirst /\ AttemptLeft
  BY DEF GatewayInit, OneClientPerGateway, LockHeld, BuildsTheFirst, AttemptLeft
<1> QED
  BY <1>1, <1>2, <1>3 DEF GatewayInv

\* Every step keeps the count: it enters, leaves, or stays where it was.
LEMMA StepCounts ==
  ASSUME GatewayInv, NEW c \in Calls, Start(c) \/ Step(c)
  PROVE  SlotsAccountedFor'
<1> USE DEF GatewayInv
<1>1. CASE Start(c)
  <2>1. call[c] \notin Holding /\ "waiting" \notin Holding
    BY <1>1 DEF Start, Holding
  <2> QED
    BY <1>1, <2>1, CountStay DEF Start, settings
<1>2. CASE TakeSlot(c)
  <2>1. call[c] \notin Holding /\ "local" \in Holding /\ "client" \in Holding
    BY <1>2 DEF TakeSlot, Holding
  <2> QED
    BY <1>2, <2>1, CountEnter DEF TakeSlot, settings
<1>3. CASE AnswerLocally(c) \/ MissingKey(c) \/ Respond(c) \/ Exhaust(c)
  <2>1. call[c] \in Holding
    BY <1>3 DEF AnswerLocally, MissingKey, Respond, Exhaust, Holding
  <2>2. \E how \in Ended : Leave(c, how)
    BY <1>3 DEF AnswerLocally, MissingKey, Respond, Exhaust, Ended
  <2>3. gateway' = gateway
    BY <1>3 DEF AnswerLocally, MissingKey, Respond, Exhaust, settings
  <2> QED
    BY <2>1, <2>2, <2>3, CountLeave
<1>4. CASE FindClient(c) \/ LockClient(c) \/ FoundBuilt(c) \/ StartBuild(c)
           \/ Build(c) \/ BackOff(c) \/ Retry(c)
  <2>1. call[c] \in Holding
    BY <1>4 DEF FindClient, LockClient, FoundBuilt, StartBuild, Build, BackOff, Retry,
                Holding
  <2>2. \E next \in Holding : Go(c, next)
    BY <1>4 DEF FindClient, LockClient, FoundBuilt, StartBuild, Build, BackOff, Retry,
                Send, Holding
  <2>3. gateway' = gateway /\ slots' = slots
    BY <1>4 DEF FindClient, LockClient, FoundBuilt, StartBuild, Build, BackOff, Retry,
                settings
  <2> QED
    BY <2>1, <2>2, <2>3, CountStay
<1> QED
  BY <1>1, <1>2, <1>3, <1>4 DEF Step

\* Types, given the count of the next state, which bounds the free slots.
LEMMA StepType ==
  ASSUME GatewayInv, SlotsAccountedFor', NEW c \in Calls, Start(c) \/ Step(c)
  PROVE  TypeOK'
<1> USE GatewayAssumption DEF GatewayInv, TypeOK, GatewayAssumption, Holding, Ended, settings
<1>1. CASE Start(c) \/ FindClient(c) \/ LockClient(c) \/ FoundBuilt(c)
           \/ StartBuild(c) \/ Build(c) \/ BackOff(c)
  BY <1>1 DEF Start, FindClient, LockClient, FoundBuilt, StartBuild, Build, BackOff,
              Go, Send, Unlock
<1>2. CASE TakeSlot(c)
  BY <1>2 DEF TakeSlot, Go
<1>3. CASE AnswerLocally(c) \/ MissingKey(c) \/ Respond(c) \/ Exhaust(c)
  <2>1. \E how \in Ended : Leave(c, how)
    BY <1>3 DEF AnswerLocally, MissingKey, Respond, Exhaust
  <2>2. slots[gateway[c]] + 1 \in 0..MaxConcurrency
    <3> DEFINE g == gateway[c]
    <3>1. slots'[g] = slots[g] + 1 /\ slots[g] \in Nat /\ g \in Gateways
      BY <2>1 DEF Leave
    <3>2. Cardinality(HoldersOf(g)') \in Nat
      <4>1. HoldersOf(g)' \subseteq Calls
        BY DEF HoldersOf
      <4> QED
        BY <4>1, FS_Subset, FS_CardinalityType
    <3>3. slots'[g] + Cardinality(HoldersOf(g)') = MaxConcurrency
      <4>1. \A h \in Gateways : slots'[h] + Cardinality(HoldersOf(h)') = MaxConcurrency
        BY Zenon DEF SlotsAccountedFor
      <4>2. gateway' = gateway
        BY <1>3 DEF AnswerLocally, MissingKey, Respond, Exhaust
      <4> QED
        BY <3>1, <4>1, <4>2
    <3> HIDE DEF g
    <3>4. slots[g] + 1 \in 0..MaxConcurrency
      BY <3>1, <3>2, <3>3
    <3> QED
      BY <3>4 DEF g
  <2> QED
    BY <1>3, <2>1, <2>2 DEF AnswerLocally, MissingKey, Respond, Exhaust, Leave, Go, Unlock
<1>4. CASE Retry(c)
  BY <1>4 DEF Retry, Go, AttemptLeft
<1> QED
  BY <1>1, <1>2, <1>3, <1>4 DEF Step

\* One lock, one builder, one client, for each gateway.
LEMMA StepClient ==
  ASSUME GatewayInv, TypeOK', NEW c \in Calls, Start(c) \/ Step(c)
  PROVE  OneClientPerGateway' /\ LockHeld' /\ BuildsTheFirst'
<1> USE GatewayAssumption DEF GatewayInv, TypeOK, GatewayAssumption, OneClientPerGateway,
        LockHeld, BuildsTheFirst, settings, Go
<1>1. CASE Start(c) \/ TakeSlot(c) \/ BackOff(c) \/ Retry(c)
  BY <1>1 DEF Start, TakeSlot, BackOff, Retry
<1>2. CASE AnswerLocally(c) \/ Respond(c) \/ Exhaust(c)
  BY <1>2 DEF AnswerLocally, Respond, Exhaust, Leave
<1>3. CASE FindClient(c)
  BY <1>3 DEF FindClient, Send
<1>4. CASE LockClient(c)
  BY <1>4 DEF LockClient
<1>5. CASE FoundBuilt(c)
  BY <1>5 DEF FoundBuilt, Send, Unlock
<1>6. CASE StartBuild(c)
  BY <1>6 DEF StartBuild
<1>7. CASE Build(c)
  BY <1>7 DEF Build, Send, Unlock
<1>8. CASE MissingKey(c)
  BY <1>8 DEF MissingKey, Leave, Unlock
<1> QED
  BY <1>1, <1>2, <1>3, <1>4, <1>5, <1>6, <1>7, <1>8 DEF Step

\* Only BackOff leads to backoff, and only with an attempt left.
LEMMA StepAttempt ==
  ASSUME GatewayInv, NEW c \in Calls, Start(c) \/ Step(c)
  PROVE  AttemptLeft'
  BY DEF GatewayInv, TypeOK, AttemptLeft, settings, Go, Start, Step, TakeSlot, AnswerLocally,
         FindClient, LockClient, FoundBuilt, StartBuild, Build, MissingKey, Respond,
         BackOff, Exhaust, Retry, Leave, Send, Unlock

LEMMA StepGatewayInv == GatewayInv /\ [GatewayNext]_gatewayVars => GatewayInv'
<1> SUFFICES ASSUME GatewayInv, [GatewayNext]_gatewayVars PROVE GatewayInv'
  OBVIOUS
<1>1. CASE GatewayNext
  <2>1. PICK c \in Calls : Start(c) \/ Step(c)
    BY <1>1 DEF GatewayNext
  <2>2. SlotsAccountedFor'
    BY <2>1, StepCounts
  <2>3. TypeOK'
    BY <2>1, <2>2, StepType
  <2> QED
    BY <2>1, <2>2, <2>3, StepClient, StepAttempt DEF GatewayInv
<1>2. CASE UNCHANGED gatewayVars
  BY <1>2 DEF GatewayInv, TypeOK, SlotsAccountedFor, HoldersOf, OneClientPerGateway, LockHeld,
              BuildsTheFirst, AttemptLeft, gatewayVars, settings
<1> QED
  BY <1>1, <1>2

\* The strengthened invariant holds in every reachable state.
THEOREM GatewayInvariance == GatewaySpec => []GatewayInv
  BY InitGatewayInv, StepGatewayInv, PTL DEF GatewaySpec

\* Every slot is free or held by a call under way: none is lost by an answer, an
\* exhausted retry, a rejected request or a missing key (_dispatch).
THEOREM NoSlotIsLost == GatewaySpec => []SlotsAccountedFor
<1>1. GatewayInv => SlotsAccountedFor
  BY DEF GatewayInv
<1> QED
  BY <1>1, GatewayInvariance, PTL

\* However many threads find no client at the same time, each gateway's calls
\* are sent with one (_anthropic, _groq: double-checked locking).
THEOREM OneClient == GatewaySpec => []OneClientPerGateway
<1>1. GatewayInv => OneClientPerGateway
  BY DEF GatewayInv
<1> QED
  BY <1>1, GatewayInvariance, PTL

-----------------------------------------------------------------------------
(* The shared searches.                                                     *)

InProgress == {"retrieving", "returned", "raised"}
CacheEntry == [key : SearchKeys, at : Nat, of : Requests]

Typed ==
  /\ now \in Nat /\ failures \in Nat
  /\ question \in [Requests -> SearchKeys]
  /\ request \in [Requests -> {"idle", "waiting", "served", "failed", "gone"}]
  /\ asked \in [Requests -> Nat] /\ ended \in [Requests -> Nat]
  /\ source \in [Requests -> Requests \cup {NoTask}]
  /\ task \in [Requests -> Tasks]
  /\ running \in [SearchKeys -> Requests \cup {NoTask}]
  /\ cache \in Seq(CacheEntry)

\* _running names a computation from its start to its callback, under its question.
RunningIsRegistered ==
  /\ \A t \in Requests : task[t] \in InProgress => running[question[t]] = t
  /\ \A k \in SearchKeys : running[k] # NoTask =>
       question[running[k]] = k /\ task[running[k]] \in InProgress

\* Who has not asked has started nothing.
IdleHasNoTask == \A r \in Requests : request[r] = "idle" => task[r] = "none"

\* An entry is the result of a search for its key, dated when it was settled.
EntryIsTrue(e) ==
  question[e.of] = e.key /\ task[e.of] = "settled" /\ ended[e.of] = e.at
CacheIsTrue == \A i \in DOMAIN cache : EntryIsTrue(cache[i])

\* What a request waits for or was served from.
SourceIsTrue ==
  \A r \in Requests :
    /\ asked[r] <= now
    /\ request[r] \in {"waiting", "served"} =>
         /\ source[r] \in Requests
         /\ question[source[r]] = question[r]
         /\ task[source[r]] # "none"
         /\ task[source[r]] = "settled" => asked[r] < ended[source[r]] + TTL
    /\ request[r] = "served" => task[source[r]] \in {"returned", "settled"}

Failed == {t \in Requests : task[t] \in {"raised", "failed"}}
FailuresAreCounted == IsFiniteSet(Failed) /\ FailsOnlyByItself

IInv ==
  /\ Typed /\ RunningIsRegistered /\ IdleHasNoTask /\ CacheIsTrue
  /\ SourceIsTrue /\ FailuresAreCounted

-----------------------------------------------------------------------------
(* The cache as a sequence.                                                 *)

\* Moving an entry to the end leaves a sequence of the same entries.
LEMMA TouchedEntries ==
  ASSUME cache \in Seq(CacheEntry), NEW i \in DOMAIN cache
  PROVE  /\ Touched(i) \in Seq(CacheEntry)
         /\ \A j \in DOMAIN Touched(i) : \E k \in DOMAIN cache : Touched(i)[j] = cache[k]
<1> DEFINE before == SubSeq(cache, 1, i - 1)
           after == SubSeq(cache, i + 1, Len(cache))
<1>1. i \in 1 .. Len(cache) /\ Len(cache) \in Nat /\ cache[i] \in CacheEntry
  OBVIOUS
<1>2. /\ before \in Seq(CacheEntry) /\ Len(before) = i - 1
      /\ \A j \in 1 .. Len(before) : before[j] = cache[j]
  BY <1>1
<1>3. /\ after \in Seq(CacheEntry) /\ Len(after) = Len(cache) - i
      /\ \A j \in 1 .. Len(after) : after[j] = cache[i + j]
  BY <1>1
<1> HIDE DEF before, after
<1> DEFINE rest == before \o after
<1>4. /\ rest \in Seq(CacheEntry) /\ Len(rest) = Len(cache) - 1
      /\ \A j \in 1 .. Len(rest) : rest[j] = IF j < i THEN cache[j] ELSE cache[j + 1]
  BY <1>1, <1>2, <1>3
<1>5. Touched(i) = Append(rest, cache[i])
  BY DEF Touched, RemoveAt, before, after
<1> HIDE DEF rest
<1>6. /\ Append(rest, cache[i]) \in Seq(CacheEntry)
      /\ DOMAIN Append(rest, cache[i]) = 1 .. Len(cache)
      /\ \A j \in 1 .. Len(cache) - 1 : Append(rest, cache[i])[j] = rest[j]
      /\ Append(rest, cache[i])[Len(cache)] = cache[i]
  BY <1>1, <1>4
<1> QED
  <2> SUFFICES ASSUME NEW j \in 1 .. Len(cache)
               PROVE  \E k \in DOMAIN cache : Touched(i)[j] = cache[k]
    BY <1>5, <1>6
  <2>1. CASE j = Len(cache)
    BY <2>1, <1>1, <1>5, <1>6
  <2>2. CASE j < Len(cache) /\ j < i
    BY <2>2, <1>1, <1>4, <1>5, <1>6
  <2>3. CASE j < Len(cache) /\ j >= i
    <3>1. rest[j] = cache[j + 1] /\ j \in 1 .. Len(cache) - 1
      BY <2>3, <1>1, <1>4
    <3>2. j + 1 \in DOMAIN cache
      BY <2>3, <1>1
    <3>3. Touched(i)[j] = cache[j + 1]
      BY <3>1, <1>5, <1>6
    <3> QED
      BY <3>2, <3>3
  <2> QED
    BY <2>1, <2>2, <2>3, <1>1

\* A stored result is new; every other entry was there before.
LEMMA StoredEntries ==
  ASSUME cache \in Seq(CacheEntry), NEW e \in CacheEntry
  PROVE  /\ Stored(e) \in Seq(CacheEntry)
         /\ \A j \in DOMAIN Stored(e) :
              Stored(e)[j] = e \/ \E k \in DOMAIN cache : Stored(e)[j] = cache[k]
<1> DEFINE same == {i \in DOMAIN cache : cache[i].key = e.key}
           all == IF same = {} THEN Append(cache, e)
                  ELSE [i \in DOMAIN cache |-> IF i \in same THEN e ELSE cache[i]]
<1>1. /\ all \in Seq(CacheEntry)
      /\ \A j \in DOMAIN all : all[j] = e \/ \E k \in DOMAIN cache : all[j] = cache[k]
  <2>1. CASE same = {}
    <3>1. all = Append(cache, e) /\ DOMAIN all = 1 .. Len(cache) + 1
      BY <2>1
    <3>2. \A j \in 1 .. Len(cache) : all[j] = cache[j]
      BY <3>1
    <3>3. all[Len(cache) + 1] = e
      BY <3>1
    <3> QED
      BY <3>1, <3>2, <3>3
  <2>2. CASE same # {}
    <3>1. all = [i \in 1 .. Len(cache) |-> IF i \in same THEN e ELSE cache[i]]
      <4>1. DOMAIN cache = 1 .. Len(cache)
        OBVIOUS
      <4> HIDE DEF same
      <4> QED
        BY <2>2, <4>1
    <3>2. \A i \in 1 .. Len(cache) : (IF i \in same THEN e ELSE cache[i]) \in CacheEntry
      OBVIOUS
    <3>3. all \in Seq(CacheEntry)
      BY <3>1, <3>2
    <3> QED
      BY <3>1, <3>3
  <2> QED
    BY <2>1, <2>2
<1>2. Stored(e) = IF Len(all) > MaxEntries THEN Tail(all) ELSE all
  BY DEF Stored
<1> HIDE DEF all
<1>3. CASE Len(all) > MaxEntries
  <2>1. Len(all) \in Nat /\ Len(all) > 0
    BY <1>1, <1>3, SearchAssumption DEF SearchAssumption
  <2>2. /\ Tail(all) \in Seq(CacheEntry)
        /\ \A j \in DOMAIN Tail(all) : j + 1 \in DOMAIN all /\ Tail(all)[j] = all[j + 1]
    BY <1>1, <2>1
  <2> QED
    BY <1>1, <1>2, <1>3, <2>2
<1>4. CASE ~(Len(all) > MaxEntries)
  BY <1>1, <1>2, <1>4
<1> QED
  BY <1>3, <1>4

-----------------------------------------------------------------------------
(* The inductive invariant.                                                 *)

LEMMA InitIInv == Init => IInv
<1> SUFFICES ASSUME Init PROVE IInv
  OBVIOUS
<1>1. Typed
  BY SearchAssumption DEF Init, Typed, Tasks, SearchAssumption
<1>2. RunningIsRegistered /\ IdleHasNoTask /\ CacheIsTrue /\ SourceIsTrue
  BY DEF Init, RunningIsRegistered, IdleHasNoTask, CacheIsTrue, SourceIsTrue, InProgress
<1>3. FailuresAreCounted
  <2>1. Failed = {}
    BY DEF Failed, Init
  <2> QED
    BY <2>1, FS_EmptySet DEF FailuresAreCounted, FailsOnlyByItself, Failed, Init
<1> QED
  BY <1>1, <1>2, <1>3 DEF IInv

\* A step that fails nothing and unfails nothing changes no count.
LEMMA SameFailures ==
  ASSUME FailuresAreCounted, failures' = failures, Failed' = Failed
  PROVE  FailuresAreCounted'
BY DEF FailuresAreCounted, FailsOnlyByItself, Failed

\* Entries that stay true, in a cache that stays as it is.
LEMMA CacheStays ==
  ASSUME Typed, CacheIsTrue, cache' = cache,
         \A e \in CacheEntry : EntryIsTrue(e) => EntryIsTrue(e)'
  PROVE  CacheIsTrue'
<1>1. \A i \in DOMAIN cache : cache[i] \in CacheEntry
  BY DEF Typed
<1> QED
  BY <1>1 DEF CacheIsTrue

LEMMA ReuseStep ==
  ASSUME IInv, NEW r \in Requests, Reuse(r)
  PROVE  IInv'
<1> USE DEF IInv
<1>1. PICK i \in FreshEntry(Key(r)) :
        /\ cache' = Touched(i)
        /\ source' = [source EXCEPT ![r] = cache[i].of]
  BY DEF Reuse
<1>2. i \in DOMAIN cache /\ cache[i].key = question[r] /\ now - cache[i].at < TTL
  BY <1>1 DEF FreshEntry, Key, IsFresh
<1>3. cache[i] \in CacheEntry
  BY <1>2 DEF Typed
<1>4. Typed'
  BY <1>1, <1>2, <1>3, TouchedEntries DEF Reuse, Asks, Typed, CacheEntry
<1>5. CacheIsTrue'
  <2>1. \A j \in DOMAIN cache' : \E k \in DOMAIN cache : cache'[j] = cache[k]
    BY <1>1, <1>2, TouchedEntries DEF Typed
  <2>2. \A e : EntryIsTrue(e) => EntryIsTrue(e)'
    BY DEF EntryIsTrue, Reuse
  <2> QED
    BY <2>1, <2>2 DEF CacheIsTrue
<1>6. RunningIsRegistered' /\ IdleHasNoTask'
  BY DEF Reuse, Asks, RunningIsRegistered, IdleHasNoTask, Typed
<1>7. EntryIsTrue(cache[i]) /\ cache[i].of \in Requests /\ cache[i].at \in Nat
  BY <1>2, <1>3 DEF CacheIsTrue, CacheEntry
<1>8. SourceIsTrue'
  <2> DEFINE s == cache[i].of
  <2>1. /\ s \in Requests /\ question[s] = question[r] /\ task[s] = "settled"
        /\ now < ended[s] + TTL
    BY <1>2, <1>7, SearchAssumption DEF EntryIsTrue, SearchAssumption, Typed
  <2> HIDE DEF s
  <2>2. /\ asked' = [asked EXCEPT ![r] = now]
        /\ source' = [source EXCEPT ![r] = s]
        /\ request' = [request EXCEPT ![r] = "served"]
        /\ UNCHANGED <<now, question, task, ended>>
    BY <1>1 DEF Reuse, Asks, s
  <2> QED
    BY <2>1, <2>2 DEF SourceIsTrue, Typed
<1>9. FailuresAreCounted'
  BY SameFailures DEF Reuse, Failed
<1> QED
  BY <1>4, <1>5, <1>6, <1>8, <1>9

LEMMA JoinStep ==
  ASSUME IInv, NEW r \in Requests, Join(r)
  PROVE  IInv'
<1> USE DEF IInv
<1> DEFINE t == running[question[r]]
<1>1. t \in Requests /\ question[t] = question[r] /\ task[t] \in InProgress
  BY DEF Join, Key, RunningIsRegistered, Typed
<1>2. /\ request[r] = "idle" /\ asked' = [asked EXCEPT ![r] = now]
      /\ source' = [source EXCEPT ![r] = t]
      /\ request' = [request EXCEPT ![r] = IF task[t] = "retrieving" THEN "waiting" ELSE AnswerOf(t)]
      /\ UNCHANGED <<now, question, task, ended, running, cache, failures>>
  BY DEF Join, Asks, Key
<1> HIDE DEF t
<1>3. Typed'
  BY <1>1, <1>2 DEF Typed, AnswerOf
<1>4. RunningIsRegistered' /\ IdleHasNoTask'
  BY <1>2 DEF RunningIsRegistered, IdleHasNoTask, Typed, AnswerOf
<1>5. CacheIsTrue'
  BY <1>2 DEF CacheIsTrue, EntryIsTrue
<1>6. SourceIsTrue'
  BY <1>1, <1>2 DEF SourceIsTrue, Typed, AnswerOf, InProgress
<1>7. FailuresAreCounted'
  BY <1>2, SameFailures DEF Failed
<1> QED
  BY <1>3, <1>4, <1>5, <1>6, <1>7

LEMMA ComputeStep ==
  ASSUME IInv, NEW r \in Requests, Compute(r)
  PROVE  IInv'
<1> USE DEF IInv
<1>1. task[r] = "none" /\ running[question[r]] = NoTask
  BY DEF Compute, Asks, Key, IdleHasNoTask
<1>2. Typed'
  BY SearchAssumption DEF Compute, Asks, Key, Typed, Tasks
<1>3. RunningIsRegistered'
  <2>1. \A t \in Requests \ {r} : task[t] \in InProgress => question[t] # question[r]
    BY <1>1, SearchAssumption DEF RunningIsRegistered, SearchAssumption
  <2>2. ASSUME NEW t \in Requests, task'[t] \in InProgress
        PROVE  running'[question'[t]] = t
    BY <2>1, <2>2 DEF Compute, Key, Typed, RunningIsRegistered
  <2>3. ASSUME NEW k \in SearchKeys, running'[k] # NoTask
        PROVE  question'[running'[k]] = k /\ task'[running'[k]] \in InProgress
    BY <1>1, <2>3 DEF Compute, Key, Typed, RunningIsRegistered, InProgress
  <2> QED
    BY <2>2, <2>3 DEF RunningIsRegistered
<1>4. IdleHasNoTask'
  BY DEF Compute, IdleHasNoTask, Typed
<1>5. CacheIsTrue'
  <2>1. \A e \in CacheEntry : EntryIsTrue(e) => EntryIsTrue(e)'
    BY <1>1 DEF EntryIsTrue, CacheEntry, Compute, Typed
  <2> QED
    BY <2>1, CacheStays DEF Compute
<1>6. SourceIsTrue'
  BY <1>1 DEF Compute, Asks, SourceIsTrue, Typed
<1>7. Failed' = Failed
  BY <1>1 DEF Failed, Compute, Typed
<1>8. FailuresAreCounted'
  BY <1>7, SameFailures DEF Compute
<1> QED
  BY <1>2, <1>3, <1>4, <1>5, <1>6, <1>8

LEMMA RetrievalStep ==
  ASSUME IInv, NEW t \in Requests, Return(t) \/ Raise(t)
  PROVE  IInv'
<1> USE DEF IInv
<1>1. /\ task[t] = "retrieving"
      /\ \E end \in {"returned", "raised"} : task' = [task EXCEPT ![t] = end]
      /\ UNCHANGED <<now, question, request, asked, source, ended, running, cache>>
      /\ failures' \in Nat
  BY DEF Return, Raise, Typed
<1>2. Typed'
  BY <1>1 DEF Typed, Tasks
<1>3. RunningIsRegistered'
  BY <1>1 DEF RunningIsRegistered, InProgress, Typed
<1>4. IdleHasNoTask'
  BY <1>1 DEF IdleHasNoTask, Typed
<1>5. CacheIsTrue'
  <2>1. \A e \in CacheEntry : EntryIsTrue(e) => EntryIsTrue(e)'
    BY <1>1 DEF EntryIsTrue, CacheEntry, Typed
  <2> QED
    BY <1>1, <2>1, CacheStays
<1>6. SourceIsTrue'
  BY <1>1 DEF SourceIsTrue, Typed
<1>7. FailuresAreCounted'
  <2>1. CASE Return(t)
    <3>1. Failed' = Failed
      BY <1>1, <2>1 DEF Return, Failed, Typed
    <3> QED
      BY <2>1, <3>1, SameFailures DEF Return
  <2>2. CASE Raise(t)
    <3>1. Failed' = Failed \cup {t} /\ t \notin Failed
      BY <1>1, <2>2 DEF Raise, Failed, Typed
    <3>2. IsFiniteSet(Failed') /\ Cardinality(Failed') = Cardinality(Failed) + 1
      BY <3>1, FS_AddElement DEF FailuresAreCounted
    <3> QED
      BY <2>2, <3>2 DEF Raise, FailuresAreCounted, FailsOnlyByItself, Failed
  <2> QED
    BY <2>1, <2>2
<1> QED
  BY <1>2, <1>3, <1>4, <1>5, <1>6, <1>7

LEMMA SettleStep ==
  ASSUME IInv, NEW t \in Requests, Settle(t)
  PROVE  IInv'
<1> USE DEF IInv
<1> DEFINE e == [key |-> question[t], at |-> now, of |-> t]
<1>1. e \in CacheEntry
  BY DEF CacheEntry, Typed
<1>2. /\ task[t] \in {"returned", "raised"}
      /\ running' = [running EXCEPT ![question[t]] = NoTask]
      /\ task' = [task EXCEPT ![t] = IF task[t] = "returned" THEN "settled" ELSE "failed"]
      /\ ended' = [ended EXCEPT ![t] = now]
      /\ cache' = IF task[t] = "returned" THEN Stored(e) ELSE cache
      /\ UNCHANGED <<now, question, request, asked, source, failures>>
  BY DEF Settle, Key
<1>3. running[question[t]] = t
  BY <1>2 DEF RunningIsRegistered, InProgress
<1>4. Typed'
  BY <1>1, <1>2, StoredEntries DEF Typed, Tasks
<1>5. RunningIsRegistered'
  BY <1>2, <1>3 DEF RunningIsRegistered, InProgress, Typed
<1>6. IdleHasNoTask'
  BY <1>2 DEF IdleHasNoTask, Typed
<1>7. CacheIsTrue'
  <2>1. \A x \in CacheEntry : EntryIsTrue(x) => EntryIsTrue(x)'
    BY <1>2 DEF EntryIsTrue, CacheEntry, Typed
  <2>2. CASE task[t] = "raised"
    BY <1>2, <2>1, <2>2, CacheStays
  <2>3. CASE task[t] = "returned"
    <3>1. cache' = Stored(e)
      BY <1>2, <2>3
    <3>2. \A i \in DOMAIN cache : cache[i] \in CacheEntry /\ EntryIsTrue(cache[i])
      BY DEF CacheIsTrue, Typed
    <3>3. \A j \in DOMAIN cache' :
            cache'[j] = e \/ \E i \in DOMAIN cache : cache'[j] = cache[i]
      BY <1>1, <3>1, StoredEntries DEF Typed
    <3>4. \A x : x = e => EntryIsTrue(x)'
      BY <1>2, <2>3 DEF EntryIsTrue, Typed
    <3> HIDE DEF e
    <3> QED
      BY <2>1, <3>2, <3>3, <3>4 DEF CacheIsTrue
  <2> QED
    BY <1>2, <2>2, <2>3
<1>8. SourceIsTrue'
  <2> SUFFICES ASSUME NEW r \in Requests
               PROVE  /\ asked'[r] <= now'
                      /\ request'[r] \in {"waiting", "served"} =>
                           /\ source'[r] \in Requests
                           /\ question'[source'[r]] = question'[r]
                           /\ task'[source'[r]] # "none"
                           /\ task'[source'[r]] = "settled" =>
                                asked'[r] < ended'[source'[r]] + TTL
                      /\ request'[r] = "served" => task'[source'[r]] \in {"returned", "settled"}
    BY DEF SourceIsTrue
  <2>1. CASE source[r] = t
    BY <1>2, <2>1, SearchAssumption DEF SourceIsTrue, Typed, SearchAssumption
  <2>2. CASE source[r] # t
    BY <1>2, <2>2 DEF SourceIsTrue, Typed
  <2> QED
    BY <2>1, <2>2
<1>9. Failed' = Failed
  BY <1>2 DEF Failed, Typed
<1>10. FailuresAreCounted'
  BY <1>2, <1>9, SameFailures
<1> QED
  BY <1>4, <1>5, <1>6, <1>7, <1>8, <1>10

\* A request that goes on, or away, and the clock leave the searches alone.
LEMMA OtherStep ==
  ASSUME IInv, (\E r \in Requests : Deliver(r) \/ GoAway(r)) \/ Tick
  PROVE  IInv'
<1> USE DEF IInv
<1>1. /\ UNCHANGED <<question, asked, source, task, ended, running, cache, failures>>
      /\ now' \in Nat /\ now <= now'
  BY DEF Deliver, GoAway, Tick, Typed
<1>2. \A r \in Requests :
        \/ request'[r] = request[r]
        \/ request'[r] = "gone" /\ request[r] = "waiting"
        \/ /\ request[r] = "waiting" /\ task[source[r]] \in {"settled", "failed"}
           /\ request'[r] = AnswerOf(source[r])
  BY DEF Deliver, GoAway, Tick, Typed
<1>3. Typed'
  BY <1>1 DEF Typed, Deliver, GoAway, Tick, AnswerOf
<1>4. RunningIsRegistered' /\ IdleHasNoTask'
  BY <1>1, <1>2 DEF RunningIsRegistered, IdleHasNoTask, AnswerOf
<1>5. CacheIsTrue'
  BY <1>1 DEF CacheIsTrue, EntryIsTrue
<1>6. SourceIsTrue'
  BY <1>1, <1>2 DEF SourceIsTrue, AnswerOf, Typed
<1>7. FailuresAreCounted'
  BY <1>1, SameFailures DEF Failed
<1> QED
  BY <1>3, <1>4, <1>5, <1>6, <1>7

LEMMA NextIInv == IInv /\ [Next]_vars => IInv'
<1> SUFFICES ASSUME IInv, [Next]_vars PROVE IInv'
  OBVIOUS
<1>1. CASE UNCHANGED vars
  BY <1>1 DEF vars, IInv, Typed, RunningIsRegistered, IdleHasNoTask, CacheIsTrue, EntryIsTrue,
              SourceIsTrue, FailuresAreCounted, FailsOnlyByItself, Failed
<1>2. ASSUME NEW r \in Requests, Reuse(r) PROVE IInv'
  BY <1>2, ReuseStep
<1>3. ASSUME NEW r \in Requests, Join(r) PROVE IInv'
  BY <1>3, JoinStep
<1>4. ASSUME NEW r \in Requests, Compute(r) PROVE IInv'
  BY <1>4, ComputeStep
<1>5. ASSUME NEW r \in Requests, Return(r) \/ Raise(r) PROVE IInv'
  BY <1>5, RetrievalStep
<1>6. ASSUME NEW r \in Requests, Settle(r) PROVE IInv'
  BY <1>6, SettleStep
<1> QED
  BY <1>1, <1>2, <1>3, <1>4, <1>5, <1>6, OtherStep DEF Next

LEMMA Invariance == Spec => []IInv
  BY InitIInv, NextIInv, PTL DEF Spec

-----------------------------------------------------------------------------
(* The theorems.                                                            *)

\* shared_rerank, _running: whatever requests ask, join, fail or go away, two
\* searches for the same thing are never in progress together.
THEOREM SearchesExclude == Spec => []OneAtATime
<1>1. IInv => OneAtATime
  BY DEF IInv, RunningIsRegistered, InProgress, OneAtATime
<1> QED
  BY <1>1, Invariance, PTL

\* shared_rerank, _finished and SHARED_TTL_SECONDS: an answer is to the question
\* asked and no older than the limit, however often a result is reused and
\* whatever the cache has dropped.
THEOREM AnswersAreFresh == Spec => []AnswersTheQuestion
<1>1. IInv => AnswersTheQuestion
  BY DEF IInv, SourceIsTrue, AnswersTheQuestion
<1> QED
  BY <1>1, Invariance, PTL

\* asyncio.shield: as many searches have failed as retrievals have raised, so none
\* fails because somebody who waited for it went away.
THEOREM NoSharedFailure == Spec => []FailsOnlyByItself
<1>1. IInv => FailsOnlyByItself
  BY DEF IInv, FailuresAreCounted
<1> QED
  BY <1>1, Invariance, PTL

-----------------------------------------------------------------------------
(* Files that commands share.                                               *)

\* Of numbers, there is a least one.
LEMMA LeastExists ==
  ASSUME NEW S \in SUBSET Nat, S # {}
  PROVE  /\ Min(S) \in S /\ \A y \in S : Min(S) <= y
<1> DEFINE less == OpToRel(<, Nat)
<1>1. IsWellFoundedOn(less, Nat)
  BY NatLessThanWellFounded
<1>2. \A x, y \in Nat : x < y => <<x, y>> \in less
  BY DEF OpToRel
<1> HIDE DEF less
<1>3. PICK x \in S : \A y \in S : ~(<<y, x>> \in less)
  BY <1>1, WFMin, Zenon
<1>4. ASSUME NEW y \in S PROVE x <= y
  <2>1. x \in Nat /\ y \in Nat
    OBVIOUS
  <2>2. ~(y < x)
    BY <1>2, <1>3, <2>1
  <2>3. QED
    BY <2>1, <2>2
<1>5. QED
  BY <1>4 DEF Min

\* Among numbers that have a bound, there is a greatest one.
LEMMA GreatestExists ==
  ASSUME NEW n \in Nat, NEW S \in SUBSET (1..n), S # {}
  PROVE  Max(S) \in S
<1> DEFINE U == {u \in Nat : \A y \in S : y <= u}
<1>1. n \in U
  OBVIOUS
<1>2. Min(U) \in U /\ \A u \in U : Min(U) <= u
  BY <1>1, LeastExists
<1>3. Min(U) \in S
  <2>1. SUFFICES ASSUME Min(U) \notin S PROVE FALSE
    OBVIOUS
  <2>2. \A y \in S : y < Min(U)
    BY <1>2, <2>1
  <2>3. Min(U) - 1 \in U
    <3>1. PICK z \in S : z \in 1..n
      OBVIOUS
    <3>2. Min(U) \in Nat /\ \A y \in S : y \in Nat
      BY <1>2
    <3> DEFINE u == Min(U)
    <3> HIDE DEF u
    <3>3. u \in Nat /\ z < u /\ z \in Nat /\ \A y \in S : y < u /\ y \in Nat
      BY <2>2, <3>1, <3>2 DEF u
    <3>4. u - 1 \in Nat /\ \A y \in S : y <= u - 1
      BY <3>3
    <3>5. QED
      BY <3>4 DEF u
  <2>4. QED
    BY <1>2, <2>3
<1>4. QED
  BY <1>2, <1>3 DEF Max

\* Writing the members of a finite set one after another.
LEMMA SetAsSequence ==
  ASSUME NEW S, IsFiniteSet(S)
  PROVE  SetToSeq(S) \in Seq(S) /\ Len(SetToSeq(S)) = Cardinality(S)
<1>1. Cardinality(S) \in Nat
  BY FS_CardinalityType
<1>2. PICK f \in [1..Cardinality(S) -> S] : IsInjective(f)
  <2>1. PICK g \in Bijection(1..Cardinality(S), S) : TRUE
    BY FS_CardinalityType DEF ExistsBijection
  <2>2. QED
    BY <2>1 DEF Bijection, Injection
<1>3. SetToSeq(S) \in [1..Cardinality(S) -> S]
  BY <1>2 DEF SetToSeq
<1>4. QED
  BY <1>1, <1>3

-----------------------------------------------------------------------------
(* Reviews                                                                   *)

Candidate == [id : Findings, content : Contents, hash : Contents]
Record == [id : Questions, status : {"provisional", "reviewed", "disputed"}]
ReviewRow == [id : Findings, hash : Contents, label : LABELS, saw : Contents]
CommandSteps == {"idle", "query", "write", "review", "annotate", "rewrite", "done"}

ReviewTyped ==
  /\ finding \in [Findings -> Contents \cup {Unlocated}]
  /\ candidates \in [rows : Seq(Candidate), torn : BOOLEAN]
  /\ reviews \in Seq(ReviewRow)
  /\ annotations \in [rows : Seq(Record), torn : BOOLEAN]
  /\ saved \in [candidates : SUBSET Findings, annotations : SUBSET Record]
  /\ pc \in [Commands -> CommandSteps]
  /\ read = [c \in Commands |-> read[c]] /\ out = [c \in Commands |-> out[c]]
  /\ pending \in [Commands -> SUBSET Nat]
  /\ \A c \in Commands :
       /\ pc[c] \in {"query", "review"} => read[c] \in Seq(Candidate)
       /\ pc[c] = "review" => pending[c] \subseteq DOMAIN read[c]
       /\ pc[c] = "write" => out[c] \in Seq(Candidate)
       /\ pc[c] \in {"annotate", "rewrite"} => out[c] \in Seq(Record) /\ pending[c] \subseteq DOMAIN out[c]

\* Nobody is asked about a row whose hash is not that of what it says, so the hash in
\* an answer is that of what the reviewer saw.
AnswersNameWhatWasSeen ==
  /\ \A i \in DOMAIN reviews : reviews[i].hash = reviews[i].saw
  /\ \A c \in Commands : pc[c] = "review" => \A i \in pending[c] : IsUsable(read[c][i])

Ids(file) == {row.id : row \in ToSet(file)}

\* Of the commands that can still put candidates.jsonl back, those nobody has
\* overtaken have read every candidate that was saved.
CandidatesStand ==
  /\ \A c, d \in Commands : pc[c] = "write" /\ pc[d] = "write" => c = d
  /\ "candidates" \notin disturbed =>
       /\ (\A c \in Commands : pc[c] # "write") =>
            /\ saved.candidates \subseteq Ids(candidates.rows)
            /\ \A c \in Commands : pc[c] = "query" /\ c \notin overtaken =>
                 saved.candidates \subseteq Ids(read[c])
       /\ \A c \in Commands : pc[c] = "write" /\ c \notin overtaken =>
            saved.candidates \subseteq Ids(out[c])

\* The records of a session hold every answer that was saved, and it asks of others.
KeepsAnswers(c) ==
  /\ saved.annotations \subseteq ToSet(out[c])
  /\ Len(out[c]) = Cardinality(Questions)
  /\ \A i \in pending[c] : IsProvisional(out[c][i])

\* The same of annotations.jsonl.
AnnotationsStand ==
  /\ \A row \in saved.annotations : ~IsProvisional(row)
  /\ \A c, d \in Commands : pc[c] = "rewrite" /\ pc[d] = "rewrite" => c = d
  /\ "annotations" \notin disturbed =>
       /\ (\A c \in Commands : pc[c] # "rewrite") =>
            /\ saved.annotations \subseteq ToSet(annotations.rows)
            /\ Len(annotations.rows) = Cardinality(Questions)
            /\ \A c \in Commands : pc[c] = "annotate" /\ c \notin overtaken => KeepsAnswers(c)
       /\ \A c \in Commands : pc[c] = "rewrite" /\ c \notin overtaken => KeepsAnswers(c)

RInv == ReviewTyped /\ AnswersNameWhatWasSeen /\ CandidatesStand /\ AnnotationsStand

-----------------------------------------------------------------------------
\* The candidate of an id is a usable row of that id.
LEMMA LedgerRows ==
  ASSUME NEW file, file.rows \in Seq(Candidate)
  PROVE  /\ DOMAIN LedgerCandidates(file) = {row.id : row \in {r \in ToSet(file.rows) : IsUsable(r)}}
         /\ \A id \in DOMAIN LedgerCandidates(file) :
              /\ LedgerCandidates(file)[id] \in ToSet(file.rows)
              /\ LedgerCandidates(file)[id].id = id
              /\ IsUsable(LedgerCandidates(file)[id])
<1>1. DOMAIN LedgerCandidates(file) = {row.id : row \in {r \in ToSet(file.rows) : IsUsable(r)}}
  BY DEF LedgerCandidates
<1>2. ASSUME NEW id \in DOMAIN LedgerCandidates(file)
      PROVE  /\ LedgerCandidates(file)[id] \in ToSet(file.rows)
             /\ LedgerCandidates(file)[id].id = id
             /\ IsUsable(LedgerCandidates(file)[id])
  <2> DEFINE I == {i \in 1..Len(file.rows) : file.rows[i].id = id /\ IsUsable(file.rows[i])}
  <2>1. LedgerCandidates(file)[id] = file.rows[IF I # {} THEN Min(I) ELSE 0]
    BY <1>1, <1>2 DEF LedgerCandidates, SelectInSeq
  <2>2. I # {}
    BY <1>1, <1>2 DEF ToSet
  <2>3. Min(I) \in I
    <3>1. I \in SUBSET Nat
      OBVIOUS
    <3> HIDE DEF I
    <3>2. QED
      BY <2>2, <3>1, LeastExists
  <2>4. LedgerCandidates(file)[id] = file.rows[Min(I)]
    BY <2>1, <2>2
  <2>5. /\ Min(I) \in DOMAIN file.rows
        /\ file.rows[Min(I)].id = id /\ IsUsable(file.rows[Min(I)])
    BY <2>3
  <2>6. QED
    BY <2>4, <2>5 DEF ToSet
<1>3. QED
  BY <1>1, <1>2

\* The review that counts for an id is one of its candidate's snapshot.
LEMMA CountedReviews ==
  ASSUME NEW file, NEW rs \in Seq(ReviewRow)
  PROVE  /\ DOMAIN Current(file, rs) =
              {r.id : r \in {review \in ToSet(rs) : IsCurrent(review, LedgerCandidates(file))}}
         /\ \A id \in DOMAIN Current(file, rs) :
              /\ Current(file, rs)[id] \in ToSet(rs)
              /\ Current(file, rs)[id].id = id
              /\ IsCurrent(Current(file, rs)[id], LedgerCandidates(file))
<1> DEFINE known == LedgerCandidates(file)
<1>1. DOMAIN Current(file, rs) = {r.id : r \in {review \in ToSet(rs) : IsCurrent(review, known)}}
  BY DEF Current
<1>2. ASSUME NEW id \in DOMAIN Current(file, rs)
      PROVE  /\ Current(file, rs)[id] \in ToSet(rs)
             /\ Current(file, rs)[id].id = id
             /\ IsCurrent(Current(file, rs)[id], known)
  <2> DEFINE I == {i \in 1..Len(rs) : rs[i].id = id /\ IsCurrent(rs[i], known)}
  <2>1. Current(file, rs)[id] = rs[IF I # {} THEN Max(I) ELSE 0]
    BY <1>1, <1>2 DEF Current, SelectLastInSeq
  <2> HIDE DEF known
  <2>2. I # {}
    BY <1>1, <1>2 DEF ToSet
  <2>3. Max(I) \in I
    <3>1. I \in SUBSET (1..Len(rs)) /\ Len(rs) \in Nat
      OBVIOUS
    <3> HIDE DEF I
    <3>2. QED
      BY <2>2, <3>1, GreatestExists
  <2>4. Current(file, rs)[id] = rs[Max(I)]
    BY <2>1, <2>2
  <2>5. Max(I) \in DOMAIN rs /\ rs[Max(I)].id = id /\ IsCurrent(rs[Max(I)], known)
    BY <2>3
  <2>6. QED
    BY <2>4, <2>5 DEF ToSet
<1>3. QED
  BY <1>1, <1>2

LEMMA RInvCounts == RInv => CountsAreExact
<1> SUFFICES ASSUME RInv PROVE CountsAreExact
    OBVIOUS
<1> DEFINE known == LedgerCandidates(candidates)
           counted == Current(candidates, reviews)
<1>1. candidates.rows \in Seq(Candidate) /\ reviews \in Seq(ReviewRow)
  BY DEF RInv, ReviewTyped
<1>2. \A id \in DOMAIN known : known[id] \in Candidate /\ known[id].id = id /\ known[id].hash = known[id].content
  <2>1. \A row \in ToSet(candidates.rows) : row \in Candidate
    BY <1>1 DEF ToSet
  <2>2. QED
    BY <1>1, <2>1, LedgerRows DEF IsUsable, SnapshotHash
<1>3. \A review \in ToSet(reviews) : review \in ReviewRow /\ review.hash = review.saw
  BY <1>1 DEF RInv, AnswersNameWhatWasSeen, ToSet
<1>4. /\ DOMAIN counted = {r.id : r \in {review \in ToSet(reviews) : IsCurrent(review, known)}}
      /\ \A id \in DOMAIN counted :
           counted[id] \in ToSet(reviews) /\ counted[id].id = id /\ IsCurrent(counted[id], known)
  BY <1>1, CountedReviews
<1> HIDE DEF known, counted
<1>5. \A id \in DOMAIN counted :
        /\ id \in DOMAIN known /\ counted[id] \in ReviewRow
        /\ counted[id].saw = known[id].content
  BY <1>2, <1>3, <1>4 DEF IsCurrent
<1>6. \A id \in DOMAIN known :
        id \in DOMAIN counted <=>
          \E review \in ToSet(reviews) : review.id = id /\ review.saw = known[id].content
  BY <1>2, <1>3, <1>4, <1>5 DEF IsCurrent
<1>7. ASSUME NEW f \in Findings, NEW seen \in Contents, NEW label \in LABELS,
             IsCompared(candidates, reviews, [id |-> f, hash |-> seen, label |-> label])
      PROVE  /\ counted[f].saw = seen
             /\ Summary(candidates, reviews, Generator[RunOf[f]]).decisive > 0
  <2>1. f \in DOMAIN known /\ known[f].hash = seen /\ f \in DOMAIN counted /\ counted[f].label # "insufficient"
    BY <1>7 DEF IsCompared, known, counted
  <2>2. counted[f].saw = seen /\ counted[f].label \in {"supported", "unsupported"}
    BY <1>2, <1>5, <2>1 DEF ReviewRow, LABELS
  <2> DEFINE group == {id \in DOMAIN known : Generator[RunOf[id]] = Generator[RunOf[f]]}
             decisive == {id \in group \cap DOMAIN counted : counted[id].label \in {"supported", "unsupported"}}
  <2>3. Summary(candidates, reviews, Generator[RunOf[f]]).decisive = Cardinality(decisive)
    BY DEF Summary, known, counted
  <2>4. f \in decisive
    BY <2>1, <2>2
  <2>5. IsFiniteSet(decisive)
    <3>1. decisive \subseteq Findings
      BY <1>2 DEF Candidate
    <3> HIDE DEF decisive
    <3>2. QED
      BY <3>1, FilesAreFinite, FS_Subset
  <2> HIDE DEF decisive
  <2>6. Cardinality(decisive) > 0
    BY <2>4, <2>5, FS_EmptySet, FS_CardinalityType
  <2>7. QED
    BY <2>2, <2>3, <2>6
<1>8. QED
  BY <1>5, <1>6, <1>7 DEF CountsAreExact, known, counted

-----------------------------------------------------------------------------
\* A command changes its own place, reading, records and questions only.
LEMMA OneCommand ==
  ASSUME ReviewTyped, NEW c \in Commands, NEW to \in CommandSteps, NEW r, NEW o, NEW p \in SUBSET Nat,
         pc' = [pc EXCEPT ![c] = to], read' = [read EXCEPT ![c] = r],
         out' = [out EXCEPT ![c] = o], pending' = [pending EXCEPT ![c] = p]
  PROVE  /\ pc' \in [Commands -> CommandSteps] /\ pending' \in [Commands -> SUBSET Nat]
         /\ read' = [d \in Commands |-> read'[d]] /\ out' = [d \in Commands |-> out'[d]]
         /\ pc'[c] = to /\ read'[c] = r /\ out'[c] = o /\ pending'[c] = p
         /\ \A d \in Commands : d # c =>
              pc'[d] = pc[d] /\ read'[d] = read[d] /\ out'[d] = out[d] /\ pending'[d] = pending[d]
BY DEF ReviewTyped

\* What the types and the answers ask of a command that moves.
LEMMA MoveTyped ==
  ASSUME ReviewTyped, AnswersNameWhatWasSeen,
         NEW c \in Commands, NEW to \in CommandSteps, NEW r, NEW o, NEW p \in SUBSET Nat,
         pc' = [pc EXCEPT ![c] = to], read' = [read EXCEPT ![c] = r],
         out' = [out EXCEPT ![c] = o], pending' = [pending EXCEPT ![c] = p],
         UNCHANGED finding,
         candidates' \in [rows : Seq(Candidate), torn : BOOLEAN],
         reviews' \in Seq(ReviewRow), \A i \in DOMAIN reviews' : reviews'[i].hash = reviews'[i].saw,
         annotations' \in [rows : Seq(Record), torn : BOOLEAN],
         saved' \in [candidates : SUBSET Findings, annotations : SUBSET Record],
         to \in {"query", "review"} => r \in Seq(Candidate),
         to = "review" => p \subseteq DOMAIN r /\ \A i \in p : IsUsable(r[i]),
         to = "write" => o \in Seq(Candidate),
         to \in {"annotate", "rewrite"} => o \in Seq(Record) /\ p \subseteq DOMAIN o
  PROVE  ReviewTyped' /\ AnswersNameWhatWasSeen'
<1>1. /\ pc' \in [Commands -> CommandSteps] /\ pending' \in [Commands -> SUBSET Nat]
      /\ read' = [d \in Commands |-> read'[d]] /\ out' = [d \in Commands |-> out'[d]]
      /\ pc'[c] = to /\ read'[c] = r /\ out'[c] = o /\ pending'[c] = p
      /\ \A d \in Commands : d # c =>
           pc'[d] = pc[d] /\ read'[d] = read[d] /\ out'[d] = out[d] /\ pending'[d] = pending[d]
  BY OneCommand
<1>2. ReviewTyped'
  BY <1>1 DEF ReviewTyped
<1>3. AnswersNameWhatWasSeen'
  BY <1>1 DEF AnswersNameWhatWasSeen, IsUsable, SnapshotHash
<1>4. QED
  BY <1>2, <1>3

\* A command that does not write candidates.jsonl, and starts an export with what it holds.
LEMMA CandidatesQuiet ==
  ASSUME ReviewTyped, CandidatesStand,
         NEW c \in Commands, NEW to \in CommandSteps, NEW r, NEW o, NEW p \in SUBSET Nat,
         pc' = [pc EXCEPT ![c] = to], read' = [read EXCEPT ![c] = r],
         out' = [out EXCEPT ![c] = o], pending' = [pending EXCEPT ![c] = p],
         pc[c] # "write", to # "write", to = "query" => r = candidates.rows,
         UNCHANGED candidates, saved'.candidates = saved.candidates,
         overtaken \subseteq overtaken', disturbed \subseteq disturbed'
  PROVE  CandidatesStand'
<1>1. /\ pc'[c] = to /\ read'[c] = r
      /\ \A d \in Commands : d # c => pc'[d] = pc[d] /\ read'[d] = read[d] /\ out'[d] = out[d]
  BY DEF ReviewTyped
<1>2. \A d \in Commands : pc'[d] = "write" <=> pc[d] = "write"
  BY <1>1
<1>3. \A d \in Commands : pc'[d] = "write" => out'[d] = out[d]
  BY <1>1
<1>4. \A d \in Commands : pc'[d] = "query" => (pc[d] = "query" /\ read'[d] = read[d]) \/ read'[d] = candidates.rows
  BY <1>1
<1>5. QED
  BY <1>2, <1>3, <1>4 DEF CandidatesStand

\* A command that does not write annotations.jsonl, and starts a session with what it holds.
LEMMA AnnotationsQuiet ==
  ASSUME ReviewTyped, AnnotationsStand,
         NEW c \in Commands, NEW to \in CommandSteps, NEW r, NEW o, NEW p \in SUBSET Nat,
         pc' = [pc EXCEPT ![c] = to], read' = [read EXCEPT ![c] = r],
         out' = [out EXCEPT ![c] = o], pending' = [pending EXCEPT ![c] = p],
         pc[c] # "rewrite", to # "rewrite",
         to = "annotate" => o = annotations.rows /\ \A i \in p : IsProvisional(o[i]),
         UNCHANGED annotations, saved'.annotations = saved.annotations,
         overtaken \subseteq overtaken', disturbed \subseteq disturbed'
  PROVE  AnnotationsStand'
<1>1. /\ pc'[c] = to /\ out'[c] = o /\ pending'[c] = p
      /\ \A d \in Commands : d # c => pc'[d] = pc[d] /\ out'[d] = out[d] /\ pending'[d] = pending[d]
  BY DEF ReviewTyped
<1>2. \A d \in Commands : pc'[d] = "rewrite" <=> pc[d] = "rewrite"
  BY <1>1
<1>3. \A d \in Commands : d # c => (KeepsAnswers(d) => KeepsAnswers(d)')
  BY <1>1 DEF KeepsAnswers, IsProvisional
<1>4. ASSUME pc'[c] = "annotate", saved.annotations \subseteq ToSet(annotations.rows),
             Len(annotations.rows) = Cardinality(Questions)
      PROVE  KeepsAnswers(c)'
  BY <1>1, <1>4 DEF KeepsAnswers, IsProvisional
<1>5. \A d \in Commands : d # c => pc'[d] = pc[d]
  BY <1>1
<1>6. QED
  BY <1>1, <1>2, <1>3, <1>4, <1>5 DEF AnnotationsStand, IsProvisional

\* A command that changes nothing but its own place keeps everything it held.
LEMMA SameMemory ==
  ASSUME ReviewTyped, NEW c \in Commands
  PROVE  /\ read = [read EXCEPT ![c] = read[c]] /\ out = [out EXCEPT ![c] = out[c]]
         /\ pending = [pending EXCEPT ![c] = pending[c]] /\ pc = [pc EXCEPT ![c] = pc[c]]
         /\ pending[c] \in SUBSET Nat
BY DEF ReviewTyped

\* A process that stops, wherever it stood, if it was not writing a file.
LEMMA StopKeeps ==
  ASSUME RInv, NEW c \in Commands, pc[c] \notin {"write", "rewrite"}, Stops(c)
  PROVE  RInv'
<1> USE DEF RInv
<1>1. /\ pc' = [pc EXCEPT ![c] = "done"] /\ read' = [read EXCEPT ![c] = <<>>]
      /\ out' = [out EXCEPT ![c] = <<>>] /\ pending' = [pending EXCEPT ![c] = {}]
      /\ UNCHANGED <<finding, candidates, reviews, annotations, saved, overtaken, disturbed>>
  BY DEF Stops, Ends, Goto, db, files, ghosts
<1>2. "done" \in CommandSteps /\ {} \in SUBSET Nat
  BY DEF CommandSteps
<1>3. ReviewTyped' /\ AnswersNameWhatWasSeen'
  BY <1>1, <1>2, MoveTyped DEF ReviewTyped, AnswersNameWhatWasSeen
<1>4. CandidatesStand' /\ AnnotationsStand'
  BY <1>1, <1>2, CandidatesQuiet, AnnotationsQuiet
<1>5. QED
  BY <1>3, <1>4

LEMMA StartExportKeeps ==
  ASSUME RInv, NEW c \in Commands, StartExport(c)
  PROVE  RInv'
<1> USE DEF RInv
<1>1. /\ pc' = [pc EXCEPT ![c] = "query"] /\ read' = [read EXCEPT ![c] = candidates.rows]
      /\ out' = [out EXCEPT ![c] = out[c]] /\ pending' = [pending EXCEPT ![c] = pending[c]]
      /\ pc[c] = "idle"
      /\ UNCHANGED <<finding, candidates, reviews, annotations, saved, overtaken, disturbed>>
  BY SameMemory DEF StartExport, Goto, db, files, ghosts
<1>2. "query" \in CommandSteps /\ pending[c] \in SUBSET Nat /\ candidates.rows \in Seq(Candidate)
  BY DEF CommandSteps, ReviewTyped
<1>3. ReviewTyped' /\ AnswersNameWhatWasSeen'
  BY <1>1, <1>2, MoveTyped DEF ReviewTyped, AnswersNameWhatWasSeen
<1>4. CandidatesStand' /\ AnnotationsStand'
  BY <1>1, <1>2, CandidatesQuiet, AnnotationsQuiet
<1>5. QED
  BY <1>3, <1>4

\* Only usable rows are asked about.
LEMMA StartReviewKeeps ==
  ASSUME RInv, NEW c \in Commands, StartReview(c)
  PROVE  RInv'
<1> USE DEF RInv
<1> DEFINE p == {i \in DOMAIN candidates.rows :
                    /\ candidates.rows[i].id \in Pending(candidates, reviews)
                    /\ candidates.rows[i] = LedgerCandidates(candidates)[candidates.rows[i].id]}
<1>1. /\ pc' = [pc EXCEPT ![c] = "review"] /\ read' = [read EXCEPT ![c] = candidates.rows]
      /\ out' = [out EXCEPT ![c] = out[c]] /\ pending' = [pending EXCEPT ![c] = p]
      /\ pc[c] = "idle"
      /\ UNCHANGED <<finding, candidates, reviews, annotations, saved, overtaken, disturbed>>
  BY SameMemory DEF StartReview, Goto, db, files, ghosts
<1>2. "review" \in CommandSteps /\ candidates.rows \in Seq(Candidate)
  BY DEF CommandSteps, ReviewTyped
<1>3. p \in SUBSET Nat /\ p \subseteq DOMAIN candidates.rows /\ \A i \in p : IsUsable(candidates.rows[i])
  <2>1. \A i \in p : IsUsable(candidates.rows[i])
    BY <1>2, LedgerRows DEF Pending
  <2>2. QED
    BY <1>2, <2>1
<1> HIDE DEF p
<1>4. ReviewTyped' /\ AnswersNameWhatWasSeen'
  BY <1>1, <1>2, <1>3, MoveTyped DEF ReviewTyped, AnswersNameWhatWasSeen
<1>5. CandidatesStand' /\ AnnotationsStand'
  BY <1>1, <1>2, <1>3, CandidatesQuiet, AnnotationsQuiet
<1>6. QED
  BY <1>4, <1>5

\* The hash of an answer is that of the row that was shown.
LEMMA WalkKeeps ==
  ASSUME RInv, NEW c \in Commands, NEW label \in LABELS, Answer(c, label) \/ Skip(c)
  PROVE  RInv'
<1> USE DEF RInv
<1> DEFINE p == pending[c] \ {Asked(c)}
           shown == read[c][Asked(c)]
           review == [id |-> shown.id, hash |-> shown.hash, label |-> label, saw |-> shown.content]
<1>1. /\ pc' = [pc EXCEPT ![c] = "review"] /\ read' = [read EXCEPT ![c] = read[c]]
      /\ out' = [out EXCEPT ![c] = out[c]] /\ pending' = [pending EXCEPT ![c] = p]
      /\ pc[c] = "review" /\ pending[c] # {}
      /\ UNCHANGED <<finding, candidates, annotations, saved, overtaken, disturbed>>
  BY SameMemory DEF Answer, Skip, GoesOn, db, ghosts, files
<1>2. reviews' = Append(reviews, review) \/ UNCHANGED reviews
  BY DEF Answer, Skip, files
<1>3. /\ Asked(c) \in pending[c] /\ pending[c] \subseteq DOMAIN read[c] /\ read[c] \in Seq(Candidate)
      /\ IsUsable(shown)
  BY <1>1, SameMemory, LeastExists DEF Asked, ReviewTyped, AnswersNameWhatWasSeen
<1>4. shown \in Candidate
  BY <1>3
<1>5. review \in ReviewRow /\ review.hash = review.saw
  BY <1>3, <1>4 DEF Candidate, ReviewRow, IsUsable, SnapshotHash
<1> HIDE DEF review, shown
<1>6. reviews' \in Seq(ReviewRow) /\ \A i \in DOMAIN reviews' : reviews'[i].hash = reviews'[i].saw
  <2>1. reviews \in Seq(ReviewRow) /\ \A i \in DOMAIN reviews : reviews[i].hash = reviews[i].saw
    BY DEF ReviewTyped, AnswersNameWhatWasSeen
  <2>2. ASSUME reviews' = Append(reviews, review)
        PROVE  reviews' \in Seq(ReviewRow) /\ \A i \in DOMAIN reviews' : reviews'[i].hash = reviews'[i].saw
    BY <1>5, <2>1, <2>2
  <2>3. QED
    BY <1>2, <2>1, <2>2
<1>7. p \in SUBSET Nat /\ p \subseteq pending[c] /\ "review" \in CommandSteps
  BY SameMemory DEF CommandSteps
<1> HIDE DEF p
<1>8. p \subseteq DOMAIN read[c] /\ \A i \in p : IsUsable(read[c][i])
  BY <1>1, <1>3, <1>7 DEF AnswersNameWhatWasSeen
<1>9. ReviewTyped' /\ AnswersNameWhatWasSeen'
  BY <1>1, <1>3, <1>6, <1>7, <1>8, MoveTyped DEF ReviewTyped
<1>10. CandidatesStand' /\ AnnotationsStand'
  BY <1>1, <1>7, CandidatesQuiet, AnnotationsQuiet
<1>11. QED
  BY <1>9, <1>10

LEMMA StartAnnotateKeeps ==
  ASSUME RInv, NEW c \in Commands, StartAnnotate(c)
  PROVE  RInv'
<1> USE DEF RInv
<1> DEFINE p == {i \in DOMAIN annotations.rows : IsProvisional(annotations.rows[i])}
<1>1. /\ pc' = [pc EXCEPT ![c] = "annotate"] /\ read' = [read EXCEPT ![c] = read[c]]
      /\ out' = [out EXCEPT ![c] = annotations.rows] /\ pending' = [pending EXCEPT ![c] = p]
      /\ pc[c] = "idle"
      /\ UNCHANGED <<finding, candidates, reviews, annotations, saved, overtaken, disturbed>>
  BY SameMemory DEF StartAnnotate, Goto, db, files, ghosts
<1>2. "annotate" \in CommandSteps /\ annotations.rows \in Seq(Record)
  BY DEF CommandSteps, ReviewTyped
<1>3. p \in SUBSET Nat /\ p \subseteq DOMAIN annotations.rows /\ \A i \in p : IsProvisional(annotations.rows[i])
  BY <1>2
<1> HIDE DEF p
<1>4. ReviewTyped' /\ AnswersNameWhatWasSeen'
  BY <1>1, <1>2, <1>3, MoveTyped DEF ReviewTyped, AnswersNameWhatWasSeen
<1>5. CandidatesStand' /\ AnnotationsStand'
  BY <1>1, <1>2, <1>3, CandidatesQuiet, AnnotationsQuiet
<1>6. QED
  BY <1>4, <1>5

-----------------------------------------------------------------------------
\* Exporting again loses no candidate.
LEMMA MergeKeepsIds ==
  ASSUME NEW old \in Seq(Candidate), NEW fresh \in SUBSET Candidate, IsFiniteSet(fresh)
  PROVE  Merged(old, fresh) \in Seq(Candidate) /\ Ids(old) \subseteq Ids(Merged(old, fresh))
<1> DEFINE Anew(f) == CHOOSE c \in fresh : c.id = f
           updated == [i \in DOMAIN old |->
                         IF \E c \in fresh : c.id = old[i].id THEN Anew(old[i].id) ELSE old[i]]
           others == {c \in fresh : c.id \notin {d.id : d \in ToSet(old)}}
           added == SetToSeq(others)
<1>1. Merged(old, fresh) = updated \o added
  BY DEF Merged
<1>2. added \in Seq(Candidate)
  <2>1. others \in SUBSET fresh
    OBVIOUS
  <2> HIDE DEF others
  <2>2. IsFiniteSet(others)
    BY <2>1, FS_Subset
  <2>3. added \in Seq(others)
    BY <2>2, SetAsSequence
  <2>4. others \subseteq Candidate
    BY <2>1
  <2> HIDE DEF added
  <2>5. QED
    BY <2>3, <2>4
<1>3. updated \in Seq(Candidate) /\ Len(updated) = Len(old)
      /\ \A i \in DOMAIN old : updated[i].id = old[i].id
  <2>1. \A i \in DOMAIN old : old[i] \in Candidate /\ updated[i] \in Candidate /\ updated[i].id = old[i].id
    OBVIOUS
  <2>2. DOMAIN old = 1..Len(old) /\ Len(old) \in Nat /\ DOMAIN updated = DOMAIN old
    OBVIOUS
  <2>3. updated \in [1..Len(old) -> Candidate]
    BY <2>1, <2>2
  <2> HIDE DEF updated
  <2>4. QED
    BY <2>1, <2>2, <2>3
<1> HIDE DEF updated, added
<1>4. updated \o added \in Seq(Candidate)
      /\ \A i \in DOMAIN old : i \in DOMAIN (updated \o added) /\ (updated \o added)[i] = updated[i]
  BY <1>2, <1>3
<1>5. ASSUME NEW i \in DOMAIN old PROVE old[i].id \in Ids(updated \o added)
  BY <1>3, <1>4 DEF Ids, ToSet
<1>6. Ids(old) \subseteq Ids(updated \o added)
  <2>1. \A id \in Ids(old) : \E i \in DOMAIN old : id = old[i].id
    BY DEF Ids, ToSet
  <2>2. QED
    BY <1>5, <2>1
<1>7. QED
  BY <1>1, <1>4, <1>6

\* What an export writes.
LEMMA SnapshotsAreUsable ==
  ASSUME ReviewTyped, NEW S \in SUBSET {f \in Findings : finding[f] # Unlocated}
  PROVE  {Snapshot(f) : f \in S} \in SUBSET Candidate /\ IsFiniteSet({Snapshot(f) : f \in S})
<1> DEFINE snapshot == [f \in S |-> Snapshot(f)]
           T == {Snapshot(f) : f \in S}
<1>1. \A f \in S : Snapshot(f) \in Candidate
  BY DEF Snapshot, SnapshotHash, Candidate, ReviewTyped
<1>2. IsFiniteSet(S)
  BY FilesAreFinite, FS_Subset
<1>3. snapshot \in Surjection(S, T)
  BY DEF Surjection
<1> HIDE DEF snapshot
<1>4. IsFiniteSet(T)
  BY <1>2, <1>3, FS_Surjection
<1>5. QED
  BY <1>1, <1>4

LEMMA QueryKeeps ==
  ASSUME RInv, NEW c \in Commands, NEW runs \in SUBSET Runs, Query(c, runs)
  PROVE  RInv'
<1> USE DEF RInv
<1> DEFINE S == {f \in Findings : RunOf[f] \in runs /\ finding[f] # Unlocated}
           fresh == {Snapshot(f) : f \in S}
           o == Merged(read[c], fresh)
<1>1. /\ pc' = [pc EXCEPT ![c] = "write"] /\ read' = [read EXCEPT ![c] = read[c]]
      /\ out' = [out EXCEPT ![c] = o] /\ pending' = [pending EXCEPT ![c] = pending[c]]
      /\ pc[c] = "query" /\ candidates' = Intact(<<>>)
      /\ \A d \in Commands : pc[d] # "write"
      /\ UNCHANGED <<finding, reviews, annotations, saved, overtaken, disturbed>>
  BY SameMemory DEF Query, Goto, db, files, ghosts
<1>2. o \in Seq(Candidate) /\ Ids(read[c]) \subseteq Ids(o)
  <2>1. read[c] \in Seq(Candidate)
    BY <1>1 DEF ReviewTyped
  <2>2. S \in SUBSET {f \in Findings : finding[f] # Unlocated}
    OBVIOUS
  <2> HIDE DEF S
  <2>3. fresh \in SUBSET Candidate /\ IsFiniteSet(fresh)
    BY <2>2, SnapshotsAreUsable
  <2> HIDE DEF fresh
  <2>4. QED
    BY <2>1, <2>3, MergeKeepsIds
<1> HIDE DEF o
<1>3. "write" \in CommandSteps /\ pending[c] \in SUBSET Nat /\ candidates' \in [rows : Seq(Candidate), torn : BOOLEAN]
  BY <1>1 DEF CommandSteps, ReviewTyped, Intact
<1>4. ReviewTyped' /\ AnswersNameWhatWasSeen'
  BY <1>1, <1>2, <1>3, MoveTyped DEF ReviewTyped, AnswersNameWhatWasSeen
<1>5. AnnotationsStand'
  BY <1>1, <1>3, AnnotationsQuiet
<1>6. CandidatesStand'
  <2>1. /\ pc'[c] = "write" /\ out'[c] = o
        /\ \A d \in Commands : d # c => pc'[d] # "write"
    BY <1>1 DEF ReviewTyped
  <2>2. QED
    BY <1>1, <1>2, <2>1 DEF CandidatesStand
<1>7. QED
  BY <1>4, <1>5, <1>6

LEMMA EndExportKeeps ==
  ASSUME RInv, NEW c \in Commands, EndExport(c)
  PROVE  RInv'
<1> USE DEF RInv
<1>1. /\ pc' = [pc EXCEPT ![c] = "done"] /\ read' = [read EXCEPT ![c] = <<>>]
      /\ out' = [out EXCEPT ![c] = <<>>] /\ pending' = [pending EXCEPT ![c] = {}]
      /\ pc[c] = "write" /\ candidates' = Intact(out[c])
      /\ saved' = [saved EXCEPT !.candidates = @ \cup Ids(out[c])]
      /\ disturbed' = disturbed \cup {f \in {"candidates"} : c \in overtaken}
      /\ overtaken' = overtaken \cup {d \in Commands \ {c} : pc[d] \in {"query"}}
      /\ UNCHANGED <<finding, reviews, annotations>>
  BY DEF EndExport, Ends, Goto, Overtakes, Ids, db
<1>2. /\ out[c] \in Seq(Candidate) /\ saved \in [candidates : SUBSET Findings, annotations : SUBSET Record]
      /\ "done" \in CommandSteps /\ {} \in SUBSET Nat
  BY <1>1 DEF ReviewTyped, CommandSteps
<1>3. /\ candidates' \in [rows : Seq(Candidate), torn : BOOLEAN] /\ candidates'.rows = out[c]
      /\ Ids(out[c]) \subseteq Findings
      /\ saved' \in [candidates : SUBSET Findings, annotations : SUBSET Record]
      /\ saved'.candidates = saved.candidates \cup Ids(out[c]) /\ saved'.annotations = saved.annotations
  <2>1. candidates' \in [rows : Seq(Candidate), torn : BOOLEAN] /\ candidates'.rows = out[c]
    BY <1>1, <1>2 DEF Intact
  <2>2. Ids(out[c]) \subseteq Findings
    <3>1. \A i \in DOMAIN out[c] : out[c][i] \in Candidate
      BY <1>2
    <3>2. \A i \in DOMAIN out[c] : out[c][i].id \in Findings
      BY <3>1 DEF Candidate
    <3>3. QED
      BY <3>2 DEF Ids, ToSet
  <2>3. QED
    BY <1>1, <1>2, <2>1, <2>2
<1>4. ReviewTyped' /\ AnswersNameWhatWasSeen'
  BY <1>1, <1>2, <1>3, MoveTyped DEF ReviewTyped, AnswersNameWhatWasSeen
<1>5. AnnotationsStand'
  BY <1>1, <1>2, <1>3, AnnotationsQuiet
<1>6. CandidatesStand'
  <2>1. pc'[c] = "done" /\ \A d \in Commands : d # c => pc'[d] = pc[d] /\ read'[d] = read[d]
    BY <1>1 DEF ReviewTyped
  <2>2. \A d \in Commands : pc'[d] # "write"
    BY <1>1, <2>1 DEF CandidatesStand
  <2>3. \A d \in Commands : pc'[d] = "query" => d \in overtaken'
    BY <1>1, <2>1
  <2>4. "candidates" \notin disturbed' => saved.candidates \subseteq Ids(out[c])
    BY <1>1 DEF CandidatesStand
  <2>5. QED
    BY <1>3, <2>2, <2>3, <2>4 DEF CandidatesStand, Ids
<1>7. QED
  BY <1>4, <1>5, <1>6

-----------------------------------------------------------------------------
\* Answering a record that had no answer loses none.
LEMMA AnswerKeepsAnswers ==
  ASSUME NEW old \in Seq(Record), NEW i \in DOMAIN old, IsProvisional(old[i]), NEW status \in {"reviewed", "disputed"}
  PROVE  /\ Answered(old, i, status) \in Seq(Record) /\ Len(Answered(old, i, status)) = Len(old)
         /\ \A row \in ToSet(old) : ~IsProvisional(row) => row \in ToSet(Answered(old, i, status))
         /\ \A j \in DOMAIN old : j # i => Answered(old, i, status)[j] = old[j]
<1> DEFINE new == Answered(old, i, status)
<1>1. /\ \A j \in DOMAIN old : j # i => new[j] = old[j]
      /\ new[i] = [old[i] EXCEPT !.status = status] /\ DOMAIN new = DOMAIN old
  BY DEF Answered
<1>2. old[i] \in Record /\ [old[i] EXCEPT !.status = status] \in Record
  <2>1. old[i] \in Record
    OBVIOUS
  <2>2. QED
    BY <2>1 DEF Record
<1>3. new \in Seq(Record) /\ Len(new) = Len(old)
  BY <1>2 DEF Answered
<1> HIDE DEF new
<1>4. ASSUME NEW j \in DOMAIN old, ~IsProvisional(old[j]) PROVE old[j] \in ToSet(new)
  BY <1>1, <1>4 DEF ToSet
<1>5. QED
  BY <1>1, <1>3, <1>4 DEF ToSet, new

LEMMA AnnotateKeeps ==
  ASSUME RInv, NEW c \in Commands, NEW status \in {"reviewed", "disputed"}, Annotate(c, status)
  PROVE  RInv'
<1> USE DEF RInv
<1> DEFINE p == pending[c] \ {Asked(c)}
           o == Answered(out[c], Asked(c), status)
<1>1. /\ pc' = [pc EXCEPT ![c] = "rewrite"] /\ read' = [read EXCEPT ![c] = read[c]]
      /\ out' = [out EXCEPT ![c] = o] /\ pending' = [pending EXCEPT ![c] = p]
      /\ pc[c] = "annotate" /\ pending[c] # {} /\ annotations' = Intact(<<>>)
      /\ \A d \in Commands : pc[d] # "rewrite"
      /\ UNCHANGED <<finding, candidates, reviews, saved, overtaken, disturbed>>
  BY SameMemory DEF Annotate, Goto, GoesOn, db, ghosts
<1>2. /\ out[c] \in Seq(Record) /\ pending[c] \subseteq DOMAIN out[c] /\ pending[c] \in SUBSET Nat
      /\ Asked(c) \in pending[c] /\ Asked(c) \in DOMAIN out[c]
      /\ out[c][Asked(c)] \in Record
  <2>1. out[c] \in Seq(Record) /\ pending[c] \subseteq DOMAIN out[c] /\ pending[c] \in SUBSET Nat
    BY <1>1 DEF ReviewTyped
  <2>2. Asked(c) \in pending[c]
    BY <1>1, <2>1, LeastExists DEF Asked
  <2>3. QED
    BY <2>1, <2>2
<1>3. /\ o \in Seq(Record) /\ Len(o) = Len(out[c]) /\ DOMAIN o = DOMAIN out[c]
      /\ p \in SUBSET Nat /\ p \subseteq DOMAIN o /\ "rewrite" \in CommandSteps
  BY <1>2 DEF CommandSteps, Answered, Record
<1>4. annotations' \in [rows : Seq(Record), torn : BOOLEAN]
  BY <1>1 DEF Intact
<1>5. ASSUME KeepsAnswers(c), \A row \in saved.annotations : ~IsProvisional(row)
      PROVE  /\ saved.annotations \subseteq ToSet(o) /\ Len(o) = Cardinality(Questions)
             /\ \A i \in p : IsProvisional(o[i])
  BY <1>2, <1>3, <1>5, AnswerKeepsAnswers DEF KeepsAnswers
<1> HIDE DEF o, p
<1>6. ReviewTyped' /\ AnswersNameWhatWasSeen'
  BY <1>1, <1>3, <1>4, MoveTyped DEF ReviewTyped, AnswersNameWhatWasSeen
<1>7. CandidatesStand'
  BY <1>1, <1>3, CandidatesQuiet
<1>8. AnnotationsStand'
  <2>1. /\ pc'[c] = "rewrite" /\ out'[c] = o /\ pending'[c] = p
        /\ \A d \in Commands : d # c => pc'[d] # "rewrite"
    BY <1>1, <1>3 DEF ReviewTyped
  <2>2. QED
    BY <1>1, <1>5, <2>1 DEF AnnotationsStand, KeepsAnswers, IsProvisional
<1>9. QED
  BY <1>6, <1>7, <1>8

LEMMA EndRewriteKeeps ==
  ASSUME RInv, NEW c \in Commands, EndRewrite(c)
  PROVE  RInv'
<1> USE DEF RInv
<1> DEFINE answers == {row \in ToSet(out[c]) : ~IsProvisional(row)}
<1>1. /\ pc' = [pc EXCEPT ![c] = "annotate"] /\ read' = [read EXCEPT ![c] = read[c]]
      /\ out' = [out EXCEPT ![c] = out[c]] /\ pending' = [pending EXCEPT ![c] = pending[c]]
      /\ pc[c] = "rewrite" /\ annotations' = Intact(out[c])
      /\ saved' = [saved EXCEPT !.annotations = @ \cup answers]
      /\ disturbed' = disturbed \cup {f \in {"annotations"} : c \in overtaken}
      /\ overtaken' = overtaken \cup {d \in Commands \ {c} : pc[d] \in {"annotate"}}
      /\ UNCHANGED <<finding, candidates, reviews>>
  BY SameMemory DEF EndRewrite, Goto, Overtakes, db
<1>2. /\ out[c] \in Seq(Record) /\ pending[c] \subseteq DOMAIN out[c] /\ pending[c] \in SUBSET Nat
      /\ saved \in [candidates : SUBSET Findings, annotations : SUBSET Record]
      /\ "annotate" \in CommandSteps
  BY <1>1 DEF ReviewTyped, CommandSteps
<1>3. answers \in SUBSET Record /\ answers \subseteq ToSet(out[c]) /\ \A row \in answers : ~IsProvisional(row)
  BY <1>2 DEF ToSet
<1> HIDE DEF answers
<1>4. /\ annotations' \in [rows : Seq(Record), torn : BOOLEAN] /\ annotations'.rows = out[c]
      /\ saved' \in [candidates : SUBSET Findings, annotations : SUBSET Record]
      /\ saved'.annotations = saved.annotations \cup answers /\ saved'.candidates = saved.candidates
  <2>1. annotations' \in [rows : Seq(Record), torn : BOOLEAN] /\ annotations'.rows = out[c]
    BY <1>1, <1>2 DEF Intact
  <2>2. QED
    BY <1>1, <1>2, <1>3, <2>1
<1>5. ReviewTyped' /\ AnswersNameWhatWasSeen'
  BY <1>1, <1>2, <1>4, MoveTyped DEF ReviewTyped, AnswersNameWhatWasSeen
<1>6. CandidatesStand'
  BY <1>1, <1>2, <1>4, CandidatesQuiet
<1>7. AnnotationsStand'
  <2>1. /\ pc'[c] = "annotate" /\ out'[c] = out[c] /\ pending'[c] = pending[c]
        /\ \A d \in Commands : d # c => pc'[d] = pc[d] /\ out'[d] = out[d]
    BY <1>1, <1>2 DEF ReviewTyped
  <2>2. \A d \in Commands : pc'[d] # "rewrite"
    BY <1>1, <2>1 DEF AnnotationsStand
  <2>3. \A d \in Commands : pc'[d] = "annotate" => d \in overtaken' \/ d = c
    BY <1>1, <2>1
  <2>4. "annotations" \notin disturbed' => KeepsAnswers(c)
    BY <1>1 DEF AnnotationsStand
  <2>5. "annotations" \notin disturbed' => KeepsAnswers(c)' /\ Len(out[c]) = Cardinality(Questions)
    BY <1>3, <1>4, <2>1, <2>4 DEF KeepsAnswers, IsProvisional
  <2>6. QED
    BY <1>3, <1>4, <2>1, <2>2, <2>3, <2>5 DEF AnnotationsStand, KeepsAnswers, IsProvisional
<1>8. QED
  BY <1>5, <1>6, <1>7

\* A process that dies while it rewrites a file leaves a part of it.
LEMMA CrashKeeps ==
  ASSUME RInv, NEW c \in Commands, Crash(c)
  PROVE  RInv'
<1> USE DEF RInv
<1>1. /\ pc' = [pc EXCEPT ![c] = "done"] /\ read' = [read EXCEPT ![c] = <<>>]
      /\ out' = [out EXCEPT ![c] = <<>>] /\ pending' = [pending EXCEPT ![c] = {}]
      /\ disturbed \subseteq disturbed'
      /\ UNCHANGED <<finding, reviews, saved, overtaken>>
  BY DEF Crash, Ends, Goto, db
<1>2. "done" \in CommandSteps /\ {} \in SUBSET Nat
  BY DEF CommandSteps
<1>3. pc'[c] = "done" /\ \A d \in Commands : d # c => pc'[d] = pc[d]
  BY <1>1, <1>2, OneCommand
<1>4. CASE pc[c] = "write"
  <2>1. candidates' \in CutShort(out[c]) /\ "candidates" \in disturbed' /\ UNCHANGED annotations
    BY <1>4 DEF Crash
  <2>2. candidates' \in [rows : Seq(Candidate), torn : BOOLEAN]
    <3>1. out[c] \in Seq(Candidate)
      BY <1>4 DEF ReviewTyped
    <3>2. PICK n \in 0..(Len(out[c]) - 1), t \in BOOLEAN :
                 candidates' = [rows |-> SubSeq(out[c], 1, n), torn |-> t]
      BY <2>1 DEF CutShort
    <3>3. SubSeq(out[c], 1, n) \in Seq(Candidate)
      BY <3>1, <3>2
    <3>4. QED
      BY <3>2, <3>3
  <2>3. ReviewTyped' /\ AnswersNameWhatWasSeen'
    BY <1>1, <1>2, <2>1, <2>2, MoveTyped DEF ReviewTyped, AnswersNameWhatWasSeen
  <2>4. AnnotationsStand'
    BY <1>1, <1>2, <1>4, <2>1, AnnotationsQuiet
  <2>5. CandidatesStand'
    BY <1>3, <2>1 DEF CandidatesStand
  <2>6. QED
    BY <2>3, <2>4, <2>5
<1>5. CASE pc[c] = "rewrite"
  <2>1. annotations' \in CutShort(out[c]) /\ "annotations" \in disturbed' /\ UNCHANGED candidates
    BY <1>5 DEF Crash
  <2>2. annotations' \in [rows : Seq(Record), torn : BOOLEAN]
    <3>1. out[c] \in Seq(Record)
      BY <1>5 DEF ReviewTyped
    <3>2. PICK n \in 0..(Len(out[c]) - 1), t \in BOOLEAN :
                 annotations' = [rows |-> SubSeq(out[c], 1, n), torn |-> t]
      BY <2>1 DEF CutShort
    <3>3. SubSeq(out[c], 1, n) \in Seq(Record)
      BY <3>1, <3>2
    <3>4. QED
      BY <3>2, <3>3
  <2>3. ReviewTyped' /\ AnswersNameWhatWasSeen'
    BY <1>1, <1>2, <2>1, <2>2, MoveTyped DEF ReviewTyped, AnswersNameWhatWasSeen
  <2>4. CandidatesStand'
    BY <1>1, <1>2, <1>5, <2>1, CandidatesQuiet
  <2>5. AnnotationsStand'
    BY <1>1, <1>3, <2>1 DEF AnnotationsStand
  <2>6. QED
    BY <2>3, <2>4, <2>5
<1>6. QED
  BY <1>4, <1>5 DEF Crash

\* A hand edit changes what a row says and not which candidate it is.
LEMMA HandEditKeeps ==
  ASSUME RInv, NEW i \in DOMAIN candidates.rows, NEW content \in Contents, HandEdit(i, content)
  PROVE  RInv'
<1> USE DEF RInv
<1> DEFINE old == candidates.rows
           new == [old EXCEPT ![i].content = content]
<1>1. /\ candidates' = [candidates EXCEPT !.rows = new]
      /\ UNCHANGED <<finding, reviews, annotations, saved, overtaken, disturbed, pc, read, out, pending>>
  BY DEF HandEdit, db, command, ghosts
<1>2. old \in Seq(Candidate) /\ candidates \in [rows : Seq(Candidate), torn : BOOLEAN]
  BY DEF ReviewTyped
<1>3. [old[i] EXCEPT !.content = content] \in Candidate /\ [old[i] EXCEPT !.content = content].id = old[i].id
  <2>1. old[i] \in Candidate
    BY <1>2
  <2> HIDE DEF old
  <2>2. QED
    BY <2>1 DEF Candidate
<1>4. /\ new \in Seq(Candidate) /\ DOMAIN new = DOMAIN old
      /\ \A j \in DOMAIN old : new[j].id = old[j].id
  BY <1>2, <1>3
<1> HIDE DEF new
<1>5. candidates' \in [rows : Seq(Candidate), torn : BOOLEAN] /\ candidates'.rows = new
  BY <1>1, <1>2, <1>4
<1>6. Ids(new) = Ids(old)
  BY <1>4 DEF Ids, ToSet
<1>7. ReviewTyped' /\ AnswersNameWhatWasSeen'
  BY <1>1, <1>5 DEF ReviewTyped, AnswersNameWhatWasSeen, IsUsable, SnapshotHash
<1>8. CandidatesStand'
  BY <1>1, <1>5, <1>6 DEF CandidatesStand, Ids
<1>9. AnnotationsStand'
  BY <1>1 DEF AnnotationsStand, KeepsAnswers, IsProvisional
<1>10. QED
  BY <1>7, <1>8, <1>9

LEMMA InitRInv == ReviewInit => RInv
<1> SUFFICES ASSUME ReviewInit PROVE RInv
    OBVIOUS
<1> DEFINE drafts == {Draft(q) : q \in Questions}
           draft == [q \in Questions |-> Draft(q)]
<1>1. drafts \in SUBSET Record /\ IsFiniteSet(drafts) /\ Cardinality(drafts) = Cardinality(Questions)
  <2>1. draft \in Bijection(Questions, drafts)
    BY DEF Bijection, Injection, Surjection, IsInjective, Draft
  <2>2. ExistsBijection(Questions, drafts)
    BY <2>1 DEF ExistsBijection
  <2>3. drafts \in SUBSET Record
    BY DEF Draft, Record
  <2> HIDE DEF drafts
  <2>4. QED
    BY <2>2, <2>3, FilesAreFinite, FS_Bijection
<1> HIDE DEF drafts, draft
<1>2. SetToSeq(drafts) \in Seq(Record) /\ Len(SetToSeq(drafts)) = Cardinality(Questions)
  BY <1>1, SetAsSequence
<1>3. annotations = Intact(SetToSeq(drafts))
  BY DEF ReviewInit, drafts
<1>4. ReviewTyped /\ AnswersNameWhatWasSeen
  <2>1. <<>> \in Seq(ReviewRow) /\ <<>> \in Seq(Candidate) /\ DOMAIN <<>> = {}
    OBVIOUS
  <2>2. /\ candidates \in [rows : Seq(Candidate), torn : BOOLEAN] /\ reviews \in Seq(ReviewRow)
        /\ annotations \in [rows : Seq(Record), torn : BOOLEAN]
        /\ saved \in [candidates : SUBSET Findings, annotations : SUBSET Record]
    BY <1>2, <1>3, <2>1 DEF ReviewInit, Intact
  <2>3. QED
    BY <2>1, <2>2 DEF ReviewInit, ReviewTyped, AnswersNameWhatWasSeen, CommandSteps
<1>5. CandidatesStand /\ AnnotationsStand
  BY <1>2, <1>3 DEF ReviewInit, CandidatesStand, AnnotationsStand, Intact
<1>6. QED
  BY <1>4, <1>5 DEF RInv

LEMMA StepRInv == RInv /\ [ReviewNext]_reviewVars => RInv'
<1> SUFFICES ASSUME RInv, [ReviewNext]_reviewVars PROVE RInv'
    OBVIOUS
<1>1. CASE UNCHANGED reviewVars \/ \E run \in Runs : EndRun(run)
  <2>1. UNCHANGED <<finding, candidates, reviews, annotations, pc, read, out, pending, overtaken, disturbed, saved>>
    BY <1>1 DEF EndRun, reviewVars, db, files, command, ghosts
  <2>2. QED
    BY <2>1 DEF RInv, ReviewTyped, AnswersNameWhatWasSeen, CandidatesStand, AnnotationsStand, KeepsAnswers,
                IsProvisional, IsUsable, SnapshotHash, Ids
<1>2. ASSUME NEW f \in Findings, NEW content \in Contents, Revise(f, content) PROVE RInv'
  <2>1. /\ finding' = [finding EXCEPT ![f] = content]
        /\ UNCHANGED <<candidates, reviews, annotations, pc, read, out, pending, overtaken, disturbed, saved>>
    BY <1>2 DEF Revise, files, command, ghosts
  <2>2. QED
    BY <2>1 DEF RInv, ReviewTyped, AnswersNameWhatWasSeen, CandidatesStand, AnnotationsStand, KeepsAnswers,
                IsProvisional, IsUsable, SnapshotHash, Ids
<1>3. ASSUME NEW i \in DOMAIN candidates.rows, NEW content \in Contents, HandEdit(i, content) PROVE RInv'
  BY <1>3, HandEditKeeps
<1>4. ASSUME NEW c \in Commands, RefuseDamaged(c) \/ RefuseTorn(c) \/ Quit(c)
                                 \/ \E runs \in SUBSET Runs : RefuseUnfinished(c, runs)
      PROVE  RInv'
  BY <1>4, StopKeeps DEF RefuseDamaged, RefuseTorn, Quit, RefuseUnfinished
<1>5. ASSUME NEW c \in Commands, NEW runs \in SUBSET Runs, Query(c, runs) PROVE RInv'
  BY <1>5, QueryKeeps
<1>6. ASSUME NEW c \in Commands, StartExport(c) \/ EndExport(c) \/ StartReview(c) \/ StartAnnotate(c)
                                 \/ EndRewrite(c) \/ Crash(c)
      PROVE  RInv'
  BY <1>6, StartExportKeeps, EndExportKeeps, StartReviewKeeps, StartAnnotateKeeps, EndRewriteKeeps, CrashKeeps
<1>7. ASSUME NEW c \in Commands, (\E label \in LABELS : Answer(c, label)) \/ Skip(c) PROVE RInv'
  <2>1. "supported" \in LABELS
    BY DEF LABELS
  <2>2. QED
    BY <1>7, <2>1, WalkKeeps
<1>8. ASSUME NEW c \in Commands, NEW status \in {"reviewed", "disputed"}, Annotate(c, status) PROVE RInv'
  BY <1>8, AnnotateKeeps
<1>9. QED
  BY <1>1, <1>2, <1>3, <1>4, <1>5, <1>6, <1>7, <1>8 DEF ReviewNext

THEOREM ReviewInvariance == ReviewSpec => []RInv
  BY InitRInv, StepRInv, PTL DEF ReviewSpec

\* A candidate counts as reviewed exactly when somebody was shown what its row says
\* now, for any number of commands, findings, reviews, hand edits and crashes.
THEOREM CountsAlwaysExact == ReviewSpec => []CountsAreExact
  BY ReviewInvariance, RInvCounts, PTL

\* What a command has saved stays in its file, but for a writer that died or one that
\* had read the file before.
THEOREM SavedWorkAlwaysStands == ReviewSpec => []SavedWorkStands
<1>1. RInv => SavedWorkStands
  BY DEF RInv, CandidatesStand, AnnotationsStand, SavedWorkStands, Ids
<1>2. QED
  BY <1>1, ReviewInvariance, PTL

-----------------------------------------------------------------------------
(* Measurements                                                              *)

MeasuredRows == [gold : Nat, ids : Nat, refusals : Nat, labelled : Nat]
Summaries == [measured : MeasuredRows, provenance : [gold : Nat, refusals : Nat], honest : BOOLEAN]
MeasureSteps == {"idle", "gold", "sample", "measure", "summary", "persist", "erase", "store", "gate"}
StoredRuns == [label : Labels, mode : Modes, of : Summaries, by : Nat, alone : BOOLEAN]
RunMemory == [label : Labels, gold : Nat, refusals : Nat, ids : Nat, by : Nat]
SummaryMemory == [label : Labels, by : Nat, gone : SUBSET StoredRuns, summary : Summaries]
Late == {"summary", "persist", "erase", "store"}
InTransaction == {"erase", "store"}

MeasureTyped ==
  /\ corpus \in Nat /\ refusals \in Nat /\ gold \in Nat /\ started \in Nat
  /\ stored \in SUBSET StoredRuns
  /\ sample \in {None} \cup [ids : Nat, sha : Nat]
  /\ rows \in [Labels -> {None} \cup MeasuredRows]
  /\ summary \in [Labels -> {None} \cup Summaries]
  /\ baseline \in {None} \cup [gold : Nat, sha : Nat, honest : BOOLEAN]
  /\ step \in [Measurers -> MeasureSteps]
  /\ held = [m \in Measurers |-> held[m]]
  /\ \A m \in Measurers :
       /\ step[m] \in {"gold", "sample"} => held[m] \in [queries : Nat]
       /\ step[m] = "measure" => held[m] \in RunMemory
       /\ step[m] \in Late => held[m] \in SummaryMemory
       /\ step[m] = "gate" => held[m] \in [gold : Nat, writes : BOOLEAN]

\* What a command whose questions nobody replaced holds is what the files hold.
QuestionsAreHeld ==
  \A m \in Measurers : m \notin replaced =>
    /\ step[m] = "measure" => held[m].gold = gold /\ held[m].refusals = refusals
    /\ step[m] = "gate" => held[m].gold = gold

\* The provenance of a summary is that of what was measured.
OfSameQuestions(s) ==
  s.honest =>
    /\ s.measured.gold = s.provenance.gold
    /\ s.measured.refusals = s.provenance.refusals
    /\ s.measured.labelled = s.measured.refusals

\* The rows of a label whose summary is still to be written are that summary's, and
\* nobody else writes them.
RowsAwaitSummary ==
  /\ \A m \in Measurers : step[m] = "summary" =>
       /\ rows[held[m].label] = held[m].summary.measured
       /\ OfSameQuestions(held[m].summary)
  /\ \A m, n \in Measurers :
       step[m] = "summary" /\ step[n] = "summary" /\ held[m].label = held[n].label => m = n

SummariesAreTrue ==
  \A label \in Labels :
    summary[label] # None /\ label \notin torn /\ ~Writing(label) =>
      rows[label] = summary[label].measured /\ OfSameQuestions(summary[label])

BaselineIsTrue == baseline # None /\ baseline.honest => baseline.gold = baseline.sha

StoredTogether ==
  \A one, other \in stored : one.label = other.label /\ one.alone =>
    one.of = other.of /\ (one.mode = other.mode => one = other)

\* What a transaction's DELETE has found: all the rows of its label that a lone
\* transaction stored, and every row of it while no other transaction is open.
RowsAreFound ==
  \A m \in Measurers : step[m] \in InTransaction =>
    /\ \A run \in stored : run.label = held[m].label /\ (run.alone \/ m \notin overlapped) =>
         run \in held[m].gone
    /\ \A n \in Measurers : n # m /\ step[n] \in InTransaction /\ held[n].label = held[m].label =>
         m \in overlapped

ComparedIsOne == Cardinality(compared) <= 1

MInv ==
  /\ MeasureTyped /\ QuestionsAreHeld /\ RowsAwaitSummary /\ SummariesAreTrue
  /\ BaselineIsTrue /\ StoredTogether /\ RowsAreFound /\ ComparedIsOne

LEMMA InitMInv == MeasureInit => MInv
BY FS_EmptySet DEF MeasureInit, MInv, MeasureTyped, MeasureSteps, QuestionsAreHeld, RowsAwaitSummary,
   SummariesAreTrue, BaselineIsTrue, StoredTogether, RowsAreFound, InTransaction, Late, ComparedIsOne

\* A command changes its own place and memory only.
LEMMA OwnMemory ==
  ASSUME MeasureTyped, NEW m \in Measurers, NEW to \in MeasureSteps, NEW memory,
         step' = [step EXCEPT ![m] = to], held' = [held EXCEPT ![m] = memory]
  PROVE  /\ step' \in [Measurers -> MeasureSteps] /\ held' = [n \in Measurers |-> held'[n]]
         /\ step'[m] = to /\ held'[m] = memory
         /\ \A n \in Measurers : n # m => step'[n] = step[n] /\ held'[n] = held[n]
BY DEF MeasureTyped

\* What the conjuncts about a command ask of the one that moves.
LEMMA Moves ==
  ASSUME MInv, NEW m \in Measurers, NEW to \in MeasureSteps, NEW memory,
         step' = [step EXCEPT ![m] = to], held' = [held EXCEPT ![m] = memory]
  PROVE  /\ /\ to \in {"gold", "sample"} => memory \in [queries : Nat]
            /\ to = "measure" => memory \in RunMemory
            /\ to \in Late => memory \in SummaryMemory
            /\ to = "gate" => memory \in [gold : Nat, writes : BOOLEAN]
            /\ corpus' \in Nat /\ refusals' \in Nat /\ gold' \in Nat /\ started' \in Nat
            /\ stored' \in SUBSET StoredRuns
            /\ sample' \in {None} \cup [ids : Nat, sha : Nat]
            /\ rows' \in [Labels -> {None} \cup MeasuredRows]
            /\ summary' \in [Labels -> {None} \cup Summaries]
            /\ baseline' \in {None} \cup [gold : Nat, sha : Nat, honest : BOOLEAN]
            => MeasureTyped'
         /\ /\ UNCHANGED <<gold, refusals>> \/ \A n \in Measurers : step[n] \in {"measure", "gate"} => n \in replaced'
            /\ replaced \subseteq replaced' \cup {m}
            /\ to = "measure" => memory.gold = gold' /\ memory.refusals = refusals'
            /\ to = "gate" => memory.gold = gold'
            => QuestionsAreHeld'
         /\ /\ step[m] # "summary" /\ to # "summary" /\ UNCHANGED <<rows, summary, torn>>
            => RowsAwaitSummary' /\ SummariesAreTrue'
         /\ /\ to \notin InTransaction /\ UNCHANGED <<stored, overlapped>>
            => StoredTogether' /\ RowsAreFound'
<1>1. /\ step' \in [Measurers -> MeasureSteps] /\ held' = [n \in Measurers |-> held'[n]]
      /\ step'[m] = to /\ held'[m] = memory
      /\ \A n \in Measurers : n # m => step'[n] = step[n] /\ held'[n] = held[n]
  BY OwnMemory DEF MInv
<1>2. ASSUME to \in {"gold", "sample"} => memory \in [queries : Nat],
             to = "measure" => memory \in RunMemory,
             to \in Late => memory \in SummaryMemory,
             to = "gate" => memory \in [gold : Nat, writes : BOOLEAN],
             corpus' \in Nat /\ refusals' \in Nat /\ gold' \in Nat /\ started' \in Nat,
             stored' \in SUBSET StoredRuns,
             sample' \in {None} \cup [ids : Nat, sha : Nat],
             rows' \in [Labels -> {None} \cup MeasuredRows],
             summary' \in [Labels -> {None} \cup Summaries],
             baseline' \in {None} \cup [gold : Nat, sha : Nat, honest : BOOLEAN]
      PROVE  MeasureTyped'
  BY <1>1, <1>2 DEF MInv, MeasureTyped
<1>3. ASSUME UNCHANGED <<gold, refusals>> \/ \A n \in Measurers : step[n] \in {"measure", "gate"} => n \in replaced',
             replaced \subseteq replaced' \cup {m},
             to = "measure" => memory.gold = gold' /\ memory.refusals = refusals',
             to = "gate" => memory.gold = gold'
      PROVE  QuestionsAreHeld'
  BY <1>1, <1>3 DEF MInv, QuestionsAreHeld
<1>4. ASSUME step[m] # "summary", to # "summary", UNCHANGED <<rows, summary, torn>>
      PROVE  RowsAwaitSummary' /\ SummariesAreTrue'
  <2>1. \A n \in Measurers : (step'[n] = "summary" <=> step[n] = "summary")
                             /\ (step[n] = "summary" => held'[n] = held[n])
    BY <1>1, <1>4
  <2>2. QED
    BY <1>4, <2>1 DEF MInv, RowsAwaitSummary, SummariesAreTrue, Writing
<1>5. ASSUME to \notin InTransaction, UNCHANGED <<stored, overlapped>>
      PROVE  StoredTogether' /\ RowsAreFound'
  <2>1. \A n \in Measurers : step'[n] \in InTransaction => step[n] \in InTransaction /\ held'[n] = held[n]
    BY <1>1, <1>5
  <2>2. QED
    BY <1>5, <2>1 DEF MInv, StoredTogether, RowsAreFound
<1>6. QED
  BY <1>2, <1>3, <1>4, <1>5

LEMMA StepMInv == MInv /\ [MeasureNext]_measureVars => MInv'
<1> SUFFICES ASSUME MInv, [MeasureNext]_measureVars PROVE MInv'
    OBVIOUS
<1> USE DEF MInv, Late, InTransaction
<1>1. CASE UNCHANGED measureVars
  BY <1>1 DEF measureVars, evaluation, process, ghostVars, MeasureTyped, QuestionsAreHeld, RowsAwaitSummary,
     SummariesAreTrue, Writing, BaselineIsTrue, StoredTogether, RowsAreFound, ComparedIsOne
<1>2. CASE ChangeCorpus
  BY <1>2 DEF ChangeCorpus, process, ghostVars, MeasureTyped, QuestionsAreHeld, RowsAwaitSummary,
     SummariesAreTrue, Writing, BaselineIsTrue, StoredTogether, RowsAreFound, ComparedIsOne
<1>3. CASE EditRefusals
  BY <1>3 DEF EditRefusals, Replaces, process, ghostVars, MeasureTyped, QuestionsAreHeld, RowsAwaitSummary,
     SummariesAreTrue, Writing, BaselineIsTrue, StoredTogether, RowsAreFound, ComparedIsOne
<1>4. ASSUME NEW m \in Measurers, BuildGold(m) PROVE MInv'
  <2> DEFINE memory == [queries |-> corpus]
  <2>1. /\ step' = [step EXCEPT ![m] = "gold"] /\ held' = [held EXCEPT ![m] = memory] /\ step[m] = "idle"
        /\ gold' = 0 /\ \A n \in Measurers : step[n] \in {"measure", "gate"} => n \in replaced'
        /\ replaced \subseteq replaced'
        /\ started' = started + 1
        /\ UNCHANGED <<overlapped, corpus, refusals, sample, rows, summary, stored, baseline, compared, torn>>
    BY <1>4 DEF BuildGold, Starts, Replaces
  <2>2. memory \in [queries : Nat] /\ "gold" \in MeasureSteps
    BY DEF MeasureTyped, MeasureSteps
  <2> HIDE DEF memory
  <2>3. MeasureTyped'
    BY <2>1, <2>2, Moves DEF MeasureTyped
  <2>4. QuestionsAreHeld' /\ RowsAwaitSummary' /\ SummariesAreTrue' /\ StoredTogether' /\ RowsAreFound'
    BY <2>1, <2>2, Moves
  <2>5. QED
    BY <2>1, <2>3, <2>4 DEF BaselineIsTrue, ComparedIsOne
<1>5. ASSUME NEW m \in Measurers, NEW sampled \in BOOLEAN, WriteGold(m, sampled) PROVE MInv'
  <2> DEFINE to == IF sampled THEN "sample" ELSE "idle"
             memory == IF sampled THEN held[m] ELSE None
  <2>1. /\ step' = [step EXCEPT ![m] = to] /\ held' = [held EXCEPT ![m] = memory] /\ step[m] = "gold"
        /\ gold' = held[m].queries /\ \A n \in Measurers : step[n] \in {"measure", "gate"} => n \in replaced'
        /\ replaced \subseteq replaced'
        /\ UNCHANGED <<overlapped, started, corpus, refusals, sample, rows, summary, stored, baseline, compared, torn>>
    BY <1>5 DEF WriteGold, Continues, Closes, Replaces
  <2>2. /\ held[m] \in [queries : Nat] /\ to \in MeasureSteps /\ to \in {"sample", "idle"}
        /\ to = "sample" => memory \in [queries : Nat]
    BY <2>1 DEF MeasureTyped, MeasureSteps
  <2> HIDE DEF memory, to
  <2>3. MeasureTyped'
    BY <2>1, <2>2, Moves DEF MeasureTyped
  <2>4. QuestionsAreHeld' /\ RowsAwaitSummary' /\ SummariesAreTrue' /\ StoredTogether' /\ RowsAreFound'
    BY <2>1, <2>2, Moves
  <2>5. QED
    BY <2>1, <2>3, <2>4 DEF BaselineIsTrue, ComparedIsOne
<1>6. ASSUME NEW m \in Measurers, WriteSample(m) PROVE MInv'
  <2>1. /\ step' = [step EXCEPT ![m] = "idle"] /\ held' = [held EXCEPT ![m] = None] /\ step[m] = "sample"
        /\ sample' = [ids |-> held[m].queries, sha |-> gold]
        /\ UNCHANGED <<overlapped, started, corpus, refusals, gold, rows, summary, stored, baseline, compared, replaced, torn>>
    BY <1>6 DEF WriteSample, Continues, Closes, ghostVars
  <2>2. held[m] \in [queries : Nat] /\ "idle" \in MeasureSteps
    BY <2>1 DEF MeasureTyped, MeasureSteps
  <2>3. MeasureTyped'
    BY <2>1, <2>2, Moves DEF MeasureTyped
  <2>4. QuestionsAreHeld' /\ RowsAwaitSummary' /\ SummariesAreTrue' /\ StoredTogether' /\ RowsAreFound'
    BY <2>1, <2>2, Moves
  <2>5. QED
    BY <2>1, <2>3, <2>4 DEF BaselineIsTrue, ComparedIsOne
<1>7. ASSUME NEW m \in Measurers, NEW label \in Labels, NEW full \in BOOLEAN, StartRun(m, label, full)
      PROVE  MInv'
  <2> DEFINE memory == [label |-> label, gold |-> gold, refusals |-> refusals,
                        ids |-> IF full THEN gold ELSE sample.ids, by |-> started + 1]
  <2>1. /\ step' = [step EXCEPT ![m] = "measure"] /\ held' = [held EXCEPT ![m] = memory] /\ step[m] = "idle"
        /\ replaced' = replaced \ {m} /\ (full \/ sample # None)
        /\ started' = started + 1
        /\ UNCHANGED <<overlapped, corpus, refusals, gold, sample, rows, summary, stored, baseline, compared, torn>>
    BY <1>7 DEF StartRun, MayMeasure, Starts, Fresh, evaluation
  <2>2. /\ memory \in RunMemory
        /\ memory.gold = gold /\ memory.refusals = refusals /\ "measure" \in MeasureSteps
    BY <2>1 DEF MeasureTyped, MeasureSteps, RunMemory
  <2> HIDE DEF memory
  <2>3. MeasureTyped'
    BY <2>1, <2>2, Moves DEF MeasureTyped
  <2>4. QuestionsAreHeld' /\ RowsAwaitSummary' /\ SummariesAreTrue' /\ StoredTogether' /\ RowsAreFound'
    BY <2>1, <2>2, Moves
  <2>5. QED
    BY <2>1, <2>3, <2>4 DEF BaselineIsTrue, ComparedIsOne
<1>8. ASSUME NEW m \in Measurers, WriteRows(m) PROVE MInv'
  <2> DEFINE measured == [gold |-> held[m].gold, ids |-> held[m].ids,
                          refusals |-> held[m].refusals, labelled |-> held[m].refusals]
             fresh == [measured |-> measured, provenance |-> [gold |-> gold, refusals |-> refusals],
                       honest |-> m \notin replaced]
             memory == [label |-> held[m].label, by |-> held[m].by, gone |-> {}, summary |-> fresh]
  <2>1. /\ step' = [step EXCEPT ![m] = "summary"] /\ held' = [held EXCEPT ![m] = memory] /\ step[m] = "measure"
        /\ rows' = [rows EXCEPT ![held[m].label] = measured] /\ ~Writing(held[m].label)
        /\ UNCHANGED <<overlapped, started, corpus, refusals, gold, sample, summary, stored, baseline, compared, replaced, torn>>
    BY <1>8 DEF WriteRows, Continues, Provenance, ghostVars
  <2>2. /\ held[m] \in RunMemory
        /\ gold \in Nat /\ refusals \in Nat
    BY <2>1 DEF MeasureTyped
  <2>3. /\ measured \in MeasuredRows
        /\ measured.gold = held[m].gold /\ measured.refusals = held[m].refusals
        /\ measured.labelled = held[m].refusals
    BY <2>2 DEF MeasuredRows, RunMemory
  <2> HIDE DEF measured
  <2>4. fresh \in Summaries /\ OfSameQuestions(fresh) /\ fresh.measured = measured
    <3>1. fresh \in Summaries /\ fresh.measured = measured
      BY <2>2, <2>3 DEF Summaries
    <3>2. OfSameQuestions(fresh)
      BY <2>1, <2>2, <2>3 DEF QuestionsAreHeld, OfSameQuestions
    <3>3. QED
      BY <3>1, <3>2
  <2> HIDE DEF fresh
  <2>5. /\ memory \in SummaryMemory /\ "summary" \in MeasureSteps
        /\ memory.label = held[m].label /\ memory.summary = fresh
    BY <2>2, <2>4 DEF MeasureSteps, RunMemory, SummaryMemory
  <2> HIDE DEF memory
  <2>6. MeasureTyped'
    <3>1. rows' \in [Labels -> {None} \cup MeasuredRows]
      BY <2>1, <2>3 DEF MeasureTyped
    <3>2. QED
      BY <2>1, <2>5, <3>1, Moves DEF MeasureTyped
  <2>7. QuestionsAreHeld' /\ StoredTogether' /\ RowsAreFound'
    BY <2>1, <2>5, Moves
  <2>8. /\ step'[m] = "summary" /\ held'[m] = memory
        /\ \A n \in Measurers : n # m => step'[n] = step[n] /\ held'[n] = held[n]
    BY <2>1, <2>5, OwnMemory
  <2>9. RowsAwaitSummary'
    <3>1. \A n \in Measurers : n # m /\ step[n] = "summary" => held[n].label # held[m].label /\ held[n].label \in Labels
      BY <2>1 DEF Writing, MeasureTyped, SummaryMemory
    <3>2. rows'[held[m].label] = measured
      BY <2>1, <2>2 DEF MeasureTyped, RunMemory
    <3>3. \A l \in Labels : l # held[m].label => rows'[l] = rows[l]
      BY <2>1 DEF MeasureTyped
    <3>4. QED
      BY <2>4, <2>5, <2>8, <3>1, <3>2, <3>3 DEF RowsAwaitSummary
  <2>10. SummariesAreTrue'
    <3>1. \A l \in Labels : l # held[m].label => rows'[l] = rows[l]
      BY <2>1 DEF MeasureTyped
    <3>2. \A l \in Labels : ~Writing(l)' => l # held[m].label /\ ~Writing(l)
      BY <2>1, <2>5, <2>8 DEF Writing
    <3>3. QED
      BY <2>1, <3>1, <3>2 DEF SummariesAreTrue
  <2>11. QED
    BY <2>1, <2>6, <2>7, <2>9, <2>10 DEF BaselineIsTrue, ComparedIsOne
<1>9. ASSUME NEW m \in Measurers, NEW persists \in BOOLEAN, WriteSummary(m, persists) PROVE MInv'
  <2> DEFINE to == IF persists THEN "persist" ELSE "idle"
             memory == IF persists THEN held[m] ELSE None
             label == held[m].label
  <2>1. /\ step' = [step EXCEPT ![m] = to] /\ held' = [held EXCEPT ![m] = memory] /\ step[m] = "summary"
        /\ summary' = [summary EXCEPT ![label] = held[m].summary] /\ torn' = torn \ {label}
        /\ UNCHANGED <<overlapped, started, corpus, refusals, gold, sample, rows, stored, baseline, compared, replaced>>
    BY <1>9 DEF WriteSummary, Continues, Closes
  <2>2. /\ held[m] \in SummaryMemory /\ to \in MeasureSteps /\ to \in {"persist", "idle"}
        /\ to = "persist" => memory = held[m]
    BY <2>1 DEF MeasureTyped, MeasureSteps
  <2> HIDE DEF memory, to
  <2>3. label \in Labels /\ held[m].summary \in Summaries
    BY <2>2 DEF SummaryMemory
  <2>4. MeasureTyped'
    <3>1. summary' \in [Labels -> {None} \cup Summaries]
      BY <2>1, <2>3 DEF MeasureTyped
    <3>2. QED
      BY <2>1, <2>2, <3>1, Moves DEF MeasureTyped
  <2>5. QuestionsAreHeld' /\ StoredTogether' /\ RowsAreFound'
    BY <2>1, <2>2, Moves
  <2>6. /\ step'[m] = to /\ \A n \in Measurers : n # m => step'[n] = step[n] /\ held'[n] = held[n]
    BY <2>1, <2>2, OwnMemory
  <2>7. RowsAwaitSummary'
    BY <2>1, <2>2, <2>6 DEF RowsAwaitSummary
  <2>8. SummariesAreTrue'
    <3>1. rows[label] = held[m].summary.measured /\ OfSameQuestions(held[m].summary)
      BY <2>1 DEF RowsAwaitSummary
    <3>2. summary'[label] = held[m].summary /\ \A l \in Labels : l # label => summary'[l] = summary[l]
      BY <2>1, <2>3 DEF MeasureTyped
    <3>3. \A l \in Labels : l # label /\ ~Writing(l)' => ~Writing(l)
      BY <2>1, <2>6 DEF Writing
    <3>4. QED
      BY <2>1, <3>1, <3>2, <3>3 DEF SummariesAreTrue
  <2>9. QED
    BY <2>1, <2>4, <2>5, <2>7, <2>8 DEF BaselineIsTrue, ComparedIsOne
<1>10. ASSUME NEW m \in Measurers, Erase(m) PROVE MInv'
  <2> DEFINE memory == [held[m] EXCEPT !.gone = Earlier(held[m].label)]
  <2>1. /\ step' = [step EXCEPT ![m] = "erase"] /\ held' = [held EXCEPT ![m] = memory] /\ step[m] = "persist"
        /\ UNCHANGED <<started, corpus, refusals, gold, sample, rows, summary, stored, baseline,
                       compared, replaced, torn>>
        /\ overlapped' = IF {o \in Measurers \ {m} : Storing(o, held[m].label)} = {} THEN overlapped \ {m}
                         ELSE overlapped \cup {o \in Measurers \ {m} : Storing(o, held[m].label)} \cup {m}
    BY <1>10 DEF Erase, Continues, evaluation
  <2>2. /\ held[m] \in SummaryMemory /\ "erase" \in MeasureSteps /\ stored \in SUBSET StoredRuns
    BY <2>1 DEF MeasureTyped, MeasureSteps
  <2>3. /\ memory \in SummaryMemory /\ memory.label = held[m].label
        /\ memory.gone = Earlier(held[m].label)
    BY <2>2 DEF SummaryMemory, Earlier
  <2> HIDE DEF memory
  <2>4. MeasureTyped'
    BY <2>1, <2>2, <2>3, Moves DEF MeasureTyped
  <2>5. QuestionsAreHeld' /\ RowsAwaitSummary' /\ SummariesAreTrue'
    BY <2>1, <2>2, Moves
  <2>6. /\ step'[m] = "erase" /\ held'[m] = memory
        /\ \A n \in Measurers : n # m => step'[n] = step[n] /\ held'[n] = held[n]
    BY <2>1, <2>2, OwnMemory
  <2>7. \A n \in Measurers \ {m} : step[n] \in InTransaction /\ held[n].label = held[m].label =>
          n \in overlapped' /\ m \in overlapped'
    BY <2>1 DEF Storing
  <2>8. \A n \in Measurers \ {m} : n \in overlapped => n \in overlapped'
    BY <2>1
  <2>9. RowsAreFound'
    <3>1. ASSUME NEW n \in Measurers, n # m, step'[n] \in InTransaction
          PROVE  /\ \A run \in stored' : run.label = held'[n].label /\ (run.alone \/ n \notin overlapped') =>
                      run \in held'[n].gone
                 /\ \A o \in Measurers : o # n /\ step'[o] \in InTransaction /\ held'[o].label = held'[n].label =>
                      n \in overlapped'
      BY <2>1, <2>3, <2>6, <2>7, <2>8, <3>1 DEF RowsAreFound
    <3>2. \A run \in stored' : run.label = held'[m].label => run \in held'[m].gone
      BY <2>1, <2>3, <2>6 DEF Earlier
    <3>3. \A o \in Measurers : o # m /\ step'[o] \in InTransaction /\ held'[o].label = held'[m].label =>
            m \in overlapped'
      BY <2>3, <2>6, <2>7
    <3>4. QED
      BY <3>1, <3>2, <3>3 DEF RowsAreFound
  <2>10. StoredTogether'
    BY <2>1 DEF StoredTogether
  <2>11. QED
    BY <2>1, <2>4, <2>5, <2>9, <2>10 DEF BaselineIsTrue, ComparedIsOne
<1>17. ASSUME NEW m \in Measurers, Erased(m) PROVE MInv'
  <2> DEFINE memory == [held[m] EXCEPT !.gone = @ \cap stored]
  <2>1. /\ step' = [step EXCEPT ![m] = "store"] /\ held' = [held EXCEPT ![m] = memory] /\ step[m] = "erase"
        /\ UNCHANGED <<started, corpus, refusals, gold, sample, rows, summary, stored, baseline,
                       compared, replaced, torn, overlapped>>
    BY <1>17 DEF Erased, Continues, evaluation, ghostVars
  <2>2. /\ held[m] \in SummaryMemory /\ "store" \in MeasureSteps
    BY <2>1 DEF MeasureTyped, MeasureSteps
  <2>3. /\ memory \in SummaryMemory /\ memory.label = held[m].label
        /\ memory.gone = held[m].gone \cap stored
    BY <2>2 DEF SummaryMemory
  <2> HIDE DEF memory
  <2>4. MeasureTyped'
    BY <2>1, <2>2, <2>3, Moves DEF MeasureTyped
  <2>5. QuestionsAreHeld' /\ RowsAwaitSummary' /\ SummariesAreTrue'
    BY <2>1, <2>2, Moves
  <2>6. /\ step'[m] = "store" /\ held'[m] = memory
        /\ \A n \in Measurers : n # m => step'[n] = step[n] /\ held'[n] = held[n]
    BY <2>1, <2>2, OwnMemory
  <2>7. \A n \in Measurers : /\ step'[n] \in InTransaction => step[n] \in InTransaction
                             /\ held'[n].label = held[n].label
                             /\ held'[n].gone \cap stored = held[n].gone \cap stored
    BY <2>1, <2>3, <2>6
  <2>8. RowsAreFound'
    BY <2>1, <2>7 DEF RowsAreFound
  <2>9. StoredTogether'
    BY <2>1 DEF StoredTogether
  <2>10. QED
    BY <2>1, <2>4, <2>5, <2>8, <2>9 DEF BaselineIsTrue, ComparedIsOne
<1>18. ASSUME NEW m \in Measurers, Persist(m) PROVE MInv'
  <2> DEFINE label == held[m].label
             new == {[label |-> held[m].label, mode |-> mode, of |-> held[m].summary,
                      by |-> held[m].by, alone |-> m \notin overlapped] : mode \in Modes}
  <2>1. /\ step' = [step EXCEPT ![m] = "idle"] /\ held' = [held EXCEPT ![m] = None] /\ step[m] = "store"
        /\ stored' = (stored \ held[m].gone) \cup new
        /\ UNCHANGED <<started, corpus, refusals, gold, sample, rows, summary, baseline,
                       compared, replaced, torn, overlapped>>
    BY <1>18 DEF Persist, Continues, Closes, ghostVars
  <2>2. held[m] \in SummaryMemory /\ "idle" \in MeasureSteps /\ stored \in SUBSET StoredRuns
    BY <2>1 DEF MeasureTyped, MeasureSteps
  <2>3. /\ new \in SUBSET StoredRuns
        /\ \A run \in new : /\ run.label = label /\ run.of = held[m].summary
                            /\ run.alone = (m \notin overlapped)
        /\ \A one, other \in new : one.mode = other.mode => one = other
    <3>1. held[m].label \in Labels /\ held[m].summary \in Summaries /\ held[m].by \in Nat
      BY <2>2 DEF SummaryMemory
    <3>2. \A mode \in Modes : [label |-> held[m].label, mode |-> mode, of |-> held[m].summary,
                               by |-> held[m].by, alone |-> m \notin overlapped] \in StoredRuns
      BY <3>1 DEF StoredRuns
    <3>3. new \in SUBSET StoredRuns
      BY <3>2
    <3>4. /\ \A run \in new : /\ run.label = label /\ run.of = held[m].summary
                              /\ run.alone = (m \notin overlapped)
          /\ \A one, other \in new : one.mode = other.mode => one = other
      BY <3>1
    <3>5. QED
      BY <3>3, <3>4
  <2> HIDE DEF new
  <2>4. MeasureTyped'
    BY <2>1, <2>2, <2>3, Moves DEF MeasureTyped
  <2>5. QuestionsAreHeld' /\ RowsAwaitSummary' /\ SummariesAreTrue'
    BY <2>1, <2>2, Moves
  <2>6. /\ step'[m] = "idle" /\ \A n \in Measurers : n # m => step'[n] = step[n] /\ held'[n] = held[n]
    BY <2>1, <2>2, OwnMemory
  <2>7. \A run \in stored : run.label = label /\ (run.alone \/ m \notin overlapped) => run \in held[m].gone
    BY <2>1 DEF RowsAreFound
  <2>8. \A run \in stored' : \/ run \in stored /\ ~(run.label = label /\ (run.alone \/ m \notin overlapped))
                             \/ run \in new
    BY <2>1, <2>7
  <2>9. StoredTogether'
    <3>1. SUFFICES ASSUME NEW one \in stored', NEW other \in stored', one.label = other.label, one.alone
                   PROVE  one.of = other.of /\ (one.mode = other.mode => one = other)
      BY DEF StoredTogether
    <3>2. CASE one \in new
      <4>1. m \notin overlapped /\ one.label = label
        BY <2>3, <3>1, <3>2
      <4>2. other \in new
        BY <2>8, <3>1, <4>1
      <4>3. QED
        BY <2>3, <3>2, <4>2
    <3>3. CASE one \in stored /\ one.label # label
      <4>1. other \in stored
        BY <2>3, <2>8, <3>1, <3>3
      <4>2. QED
        BY <3>1, <3>3, <4>1 DEF StoredTogether
    <3>4. QED
      BY <2>8, <3>1, <3>2, <3>3
  <2>10. RowsAreFound'
    <3>1. SUFFICES ASSUME NEW n \in Measurers, step'[n] \in InTransaction
                   PROVE  /\ \A run \in stored' : run.label = held'[n].label /\ (run.alone \/ n \notin overlapped') =>
                               run \in held'[n].gone
                          /\ \A o \in Measurers : o # n /\ step'[o] \in InTransaction /\ held'[o].label = held'[n].label =>
                               n \in overlapped'
      BY DEF RowsAreFound
    <3>2. n # m /\ step'[n] = step[n] /\ held'[n] = held[n] /\ step[m] \in InTransaction
      BY <2>1, <2>6, <3>1
    <3>3. ASSUME NEW run \in stored', run.label = held'[n].label, run.alone \/ n \notin overlapped'
          PROVE  run \in held'[n].gone
      <4>1. CASE run \in stored
        BY <2>1, <3>1, <3>2, <3>3, <4>1 DEF RowsAreFound
      <4>2. CASE run \in new
        <5>1. held[n].label = held[m].label
          BY <2>3, <3>2, <3>3, <4>2
        <5>2. n \in overlapped /\ m \in overlapped
          BY <3>1, <3>2, <5>1 DEF RowsAreFound
        <5>3. QED
          BY <2>1, <2>3, <3>3, <4>2, <5>2
      <4>3. QED
        BY <2>8, <4>1, <4>2
    <3>4. \A o \in Measurers : o # n /\ step'[o] \in InTransaction /\ held'[o].label = held'[n].label =>
            n \in overlapped'
      BY <2>1, <2>6, <3>1, <3>2 DEF RowsAreFound
    <3>5. QED
      BY <3>3, <3>4
  <2>11. QED
    BY <2>1, <2>4, <2>5, <2>9, <2>10 DEF BaselineIsTrue, ComparedIsOne
<1>11. ASSUME NEW m \in Measurers, NEW label \in Labels, Resummarise(m, label) PROVE MInv'
  <2> DEFINE corrected == [rows[label] EXCEPT !.labelled = refusals]
             fresh == [measured |-> corrected, provenance |-> summary[label].provenance,
                       honest |-> summary[label].honest /\ label \notin torn]
             memory == [label |-> label, by |-> started + 1, gone |-> {}, summary |-> fresh]
  <2>1. /\ step' = [step EXCEPT ![m] = "summary"] /\ held' = [held EXCEPT ![m] = memory] /\ step[m] = "idle"
        /\ rows' = [rows EXCEPT ![label] = corrected] /\ ~Writing(label)
        /\ summary[label] # None /\ rows[label] # None /\ summary[label].provenance.refusals = refusals
        /\ started' = started + 1
        /\ UNCHANGED <<overlapped, corpus, refusals, gold, sample, summary, stored, baseline, compared, replaced, torn>>
    BY <1>11 DEF Resummarise, MayResummarise, Starts, ghostVars
  <2>2. rows[label] \in MeasuredRows /\ summary[label] \in Summaries /\ refusals \in Nat
    BY <2>1 DEF MeasureTyped
  <2>3. /\ corrected \in MeasuredRows /\ corrected.labelled = refusals
        /\ corrected.gold = rows[label].gold /\ corrected.refusals = rows[label].refusals
    BY <2>2 DEF MeasuredRows
  <2> HIDE DEF corrected
  <2>4. fresh \in Summaries /\ OfSameQuestions(fresh) /\ fresh.measured = corrected
    <3>1. fresh \in Summaries /\ fresh.measured = corrected
      BY <2>2, <2>3 DEF Summaries
    <3>2. ASSUME summary[label].honest, label \notin torn
          PROVE  /\ corrected.gold = summary[label].provenance.gold
                 /\ corrected.refusals = summary[label].provenance.refusals
                 /\ corrected.labelled = corrected.refusals
      BY <2>1, <2>3, <3>2 DEF SummariesAreTrue, OfSameQuestions
    <3>3. QED
      BY <3>1, <3>2 DEF OfSameQuestions
  <2> HIDE DEF fresh
  <2>5. /\ memory \in SummaryMemory /\ "summary" \in MeasureSteps
        /\ memory.label = label /\ memory.summary = fresh
    BY <2>4 DEF MeasureSteps, MeasureTyped, SummaryMemory
  <2> HIDE DEF memory
  <2>6. MeasureTyped'
    <3>1. rows' \in [Labels -> {None} \cup MeasuredRows]
      BY <2>1, <2>3 DEF MeasureTyped
    <3>2. QED
      BY <2>1, <2>5, <3>1, Moves DEF MeasureTyped
  <2>7. QuestionsAreHeld' /\ StoredTogether' /\ RowsAreFound'
    BY <2>1, <2>5, Moves
  <2>8. /\ step'[m] = "summary" /\ held'[m] = memory
        /\ \A n \in Measurers : n # m => step'[n] = step[n] /\ held'[n] = held[n]
    BY <2>1, <2>5, OwnMemory
  <2>9. rows'[label] = corrected /\ \A l \in Labels : l # label => rows'[l] = rows[l]
    BY <2>1 DEF MeasureTyped
  <2>10. RowsAwaitSummary'
    <3>1. \A n \in Measurers : n # m /\ step[n] = "summary" => held[n].label # label /\ held[n].label \in Labels
      BY <2>1 DEF Writing, MeasureTyped, SummaryMemory
    <3>2. QED
      BY <2>4, <2>5, <2>8, <2>9, <3>1 DEF RowsAwaitSummary
  <2>11. SummariesAreTrue'
    <3>1. \A l \in Labels : ~Writing(l)' => l # label /\ ~Writing(l)
      BY <2>1, <2>5, <2>8 DEF Writing
    <3>2. QED
      BY <2>1, <2>9, <3>1 DEF SummariesAreTrue
  <2>12. QED
    BY <2>1, <2>6, <2>7, <2>10, <2>11 DEF BaselineIsTrue, ComparedIsOne
<1>12. ASSUME NEW m \in Measurers, NEW writes \in BOOLEAN, StartGate(m, writes) PROVE MInv'
  <2> DEFINE memory == [gold |-> gold, writes |-> writes]
  <2>1. /\ step' = [step EXCEPT ![m] = "gate"] /\ held' = [held EXCEPT ![m] = memory] /\ step[m] = "idle"
        /\ replaced' = replaced \ {m}
        /\ started' = started + 1
        /\ UNCHANGED <<overlapped, corpus, refusals, gold, sample, rows, summary, stored, baseline, compared, torn>>
    BY <1>12 DEF StartGate, Starts, Fresh, evaluation
  <2>2. memory \in [gold : Nat, writes : BOOLEAN] /\ memory.gold = gold /\ "gate" \in MeasureSteps
    BY DEF MeasureTyped, MeasureSteps
  <2> HIDE DEF memory
  <2>3. MeasureTyped'
    BY <2>1, <2>2, Moves DEF MeasureTyped
  <2>4. QuestionsAreHeld' /\ RowsAwaitSummary' /\ SummariesAreTrue' /\ StoredTogether' /\ RowsAreFound'
    BY <2>1, <2>2, Moves
  <2>5. QED
    BY <2>1, <2>3, <2>4 DEF BaselineIsTrue, ComparedIsOne
<1>13. ASSUME NEW m \in Measurers, WriteBaseline(m) PROVE MInv'
  <2>1. /\ step' = [step EXCEPT ![m] = "idle"] /\ held' = [held EXCEPT ![m] = None] /\ step[m] = "gate"
        /\ baseline' = [gold |-> held[m].gold, sha |-> gold, honest |-> m \notin replaced]
        /\ UNCHANGED <<overlapped, started, corpus, refusals, gold, sample, rows, summary, stored, compared, replaced, torn>>
    BY <1>13 DEF WriteBaseline, Continues, Closes, ghostVars
  <2>2. held[m] \in [gold : Nat, writes : BOOLEAN] /\ gold \in Nat /\ "idle" \in MeasureSteps
    BY <2>1 DEF MeasureTyped, MeasureSteps
  <2>3. baseline' \in [gold : Nat, sha : Nat, honest : BOOLEAN]
    BY <2>1, <2>2
  <2>4. MeasureTyped'
    BY <2>1, <2>2, <2>3, Moves DEF MeasureTyped
  <2>5. QuestionsAreHeld' /\ RowsAwaitSummary' /\ SummariesAreTrue' /\ StoredTogether' /\ RowsAreFound'
    BY <2>1, <2>2, Moves
  <2>6. BaselineIsTrue'
    BY <2>1 DEF BaselineIsTrue, QuestionsAreHeld
  <2>7. QED
    BY <2>1, <2>4, <2>5, <2>6 DEF ComparedIsOne
<1>14. ASSUME NEW m \in Measurers, Compare(m) PROVE MInv'
  <2>1. /\ step' = [step EXCEPT ![m] = "idle"] /\ held' = [held EXCEPT ![m] = None] /\ step[m] = "gate"
        /\ UNCHANGED <<overlapped, started, corpus, refusals, gold, sample, rows, summary, stored, baseline, replaced, torn>>
    BY <1>14 DEF Compare, Continues, Closes, evaluation
  <2>2. "idle" \in MeasureSteps
    BY DEF MeasureSteps
  <2>3. MeasureTyped'
    BY <2>1, <2>2, Moves DEF MeasureTyped
  <2>4. QuestionsAreHeld' /\ RowsAwaitSummary' /\ SummariesAreTrue' /\ StoredTogether' /\ RowsAreFound'
    BY <2>1, <2>2, Moves
  <2>5. compared' \in {compared, {gold}}
    BY <1>14, <2>1 DEF Compare, Compares, QuestionsAreHeld, BaselineIsTrue
  <2>6. ComparedIsOne'
    <3>1. Cardinality({gold}) = 1
      BY FS_Singleton
    <3>2. CASE compared' = compared
      BY <3>2 DEF ComparedIsOne
    <3>3. CASE compared' = {gold}
      BY <3>1, <3>3 DEF ComparedIsOne
    <3>4. QED
      BY <2>5, <3>2, <3>3
  <2>7. QED
    BY <2>1, <2>3, <2>4, <2>6 DEF BaselineIsTrue
<1>15. ASSUME NEW m \in Measurers, Interrupted(m) PROVE MInv'
  <2>1. /\ step' = [step EXCEPT ![m] = "idle"] /\ held' = [held EXCEPT ![m] = None] /\ step[m] # "summary"
        /\ UNCHANGED <<overlapped, started, corpus, refusals, gold, sample, rows, summary, stored, baseline, compared, replaced, torn>>
    BY <1>15 DEF Interrupted, Continues, Closes, evaluation, ghostVars
  <2>2. "idle" \in MeasureSteps
    BY DEF MeasureSteps
  <2>3. MeasureTyped'
    BY <2>1, <2>2, Moves DEF MeasureTyped
  <2>4. QuestionsAreHeld' /\ RowsAwaitSummary' /\ SummariesAreTrue' /\ StoredTogether' /\ RowsAreFound'
    BY <2>1, <2>2, Moves
  <2>5. QED
    BY <2>1, <2>3, <2>4 DEF BaselineIsTrue, ComparedIsOne
<1>16. ASSUME NEW m \in Measurers, InterruptedBetween(m) PROVE MInv'
  <2>1. /\ step' = [step EXCEPT ![m] = "idle"] /\ held' = [held EXCEPT ![m] = None] /\ step[m] = "summary"
        /\ torn' = torn \cup {held[m].label}
        /\ UNCHANGED <<overlapped, started, corpus, refusals, gold, sample, rows, summary, stored, baseline, compared, replaced>>
    BY <1>16 DEF InterruptedBetween, Continues, Closes, evaluation
  <2>2. "idle" \in MeasureSteps
    BY DEF MeasureSteps
  <2>3. MeasureTyped'
    BY <2>1, <2>2, Moves DEF MeasureTyped
  <2>4. QuestionsAreHeld' /\ StoredTogether' /\ RowsAreFound'
    BY <2>1, <2>2, Moves
  <2>5. /\ step'[m] = "idle" /\ \A n \in Measurers : n # m => step'[n] = step[n] /\ held'[n] = held[n]
    BY <2>1, <2>2, OwnMemory
  <2>6. RowsAwaitSummary'
    BY <2>1, <2>5 DEF RowsAwaitSummary
  <2>7. SummariesAreTrue'
    <3>1. \A l \in Labels : l # held[m].label /\ ~Writing(l)' => ~Writing(l)
      BY <2>1, <2>5 DEF Writing
    <3>2. QED
      BY <2>1, <3>1 DEF SummariesAreTrue
  <2>8. QED
    BY <2>1, <2>3, <2>4, <2>6, <2>7 DEF BaselineIsTrue, ComparedIsOne
<1>19. QED
  BY <1>1, <1>2, <1>3, <1>4, <1>5, <1>6, <1>7, <1>8, <1>9, <1>10, <1>11, <1>12, <1>13, <1>14, <1>15, <1>16,
     <1>17, <1>18
  DEF MeasureNext

THEOREM MeasureInvariance == MeasureSpec => []MInv
  BY InitMInv, StepMInv, PTL DEF MeasureSpec

\* Numbers are only put beside numbers of the same questions, however many commands
\* measure, rebuild, correct and compare at the same time and wherever they die. Of
\* commands that store one label at the same moment nothing is said, but the next one
\* that stores it alone leaves nothing of theirs.
THEOREM NumbersAlwaysOfSameQuestions == MeasureSpec => []NumbersOfSameQuestions
<1>1. MInv => NumbersOfSameQuestions
  BY DEF MInv, SummariesAreTrue, OfSameQuestions, StoredTogether, ComparedIsOne, NumbersOfSameQuestions
<1>2. QED
  BY <1>1, MeasureInvariance, PTL
=============================================================================
