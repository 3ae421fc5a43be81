---------------------------- MODULE SharedSearch ----------------------------
(***************************************************************************)
(* Identical reranked searches share one computation: a search that is running *)
(* is joined, one that finished a short while ago is reused. Everything here  *)
(* runs on one event loop; each action is what happens between two awaits.    *)
(*                                                                          *)
(* Source: backend/app/services/search.py (shared_rerank). A computation is   *)
(* named by the request that started it.                                     *)
(***************************************************************************)
EXTENDS Naturals, Sequences, SequencesExt

CONSTANTS
  Requests,     \* requests for a reranked search
  Queries,      \* query texts
  Filters,      \* the filters and options next to the query
  NoTask,       \* no computation
  TTL,          \* SHARED_TTL_SECONDS
  MaxEntries,   \* SHARED_MAX_ENTRIES
  MaxTime,      \* bound: the clock
  MaxFailures   \* bound: retrievals that raise

ASSUME SearchAssumption ==
  /\ NoTask \notin Requests
  /\ TTL \in Nat \ {0} /\ MaxEntries \in Nat \ {0}
  /\ MaxTime \in Nat /\ MaxFailures \in Nat

VARIABLES
  now,        \* the event loop's clock
  question,   \* question[r]: what request r asks
  request,    \* request[r]: where its handler stands
  asked,      \* history: asked[r], when it asked
  source,     \* source[r]: the computation it awaits or was answered from
  task,       \* task[r]: the computation r started
  ended,      \* history: ended[r], when that computation was settled
  running,    \* _running: question -> computation
  cache,      \* _finished: entries in the order of the OrderedDict
  failures

vars == <<now, question, request, asked, source, task, ended, running, cache, failures>>

SearchKeys == Queries \X Filters
Tasks == {"none", "retrieving", "returned", "raised", "settled", "failed"}
Entry == [key : SearchKeys, at : 0..MaxTime, of : Requests]

Init ==
  /\ now = 0
  /\ question \in [Requests -> SearchKeys]
  /\ request = [r \in Requests |-> "idle"]
  /\ asked = [r \in Requests |-> 0]
  /\ source = [r \in Requests |-> NoTask]
  /\ task = [r \in Requests |-> "none"]
  /\ ended = [r \in Requests |-> 0]
  /\ running = [k \in SearchKeys |-> NoTask]
  /\ cache = <<>>
  /\ failures = 0

-----------------------------------------------------------------------------
(* The cache.                                                               *)

\* The whole request is the key.
Key(r) == question[r]

IsFresh(e) == now - e.at < TTL
FreshEntry(k) == {i \in DOMAIN cache : cache[i].key = k /\ IsFresh(cache[i])}

\* move_to_end.
Touched(i) == Append(RemoveAt(cache, i), cache[i])

\* Assigning to a key that is there keeps its place in the order; one over the
\* limit drops the first.
Stored(e) ==
  LET same == {i \in DOMAIN cache : cache[i].key = e.key}
      all == IF same = {} THEN Append(cache, e)
                          ELSE [i \in DOMAIN cache |-> IF i \in same THEN e ELSE cache[i]]
  IN IF Len(all) > MaxEntries THEN Tail(all) ELSE all

-----------------------------------------------------------------------------
(* shared_rerank.                                                           *)

Asks(r) == request[r] = "idle" /\ asked' = [asked EXCEPT ![r] = now]

\* Mutant: a result that is reused is as good as new.
Reuse_Renews(r) ==
  /\ Asks(r)
  /\ \E i \in FreshEntry(Key(r)) :
       /\ cache' = Append(RemoveAt(cache, i), [cache[i] EXCEPT !.at = now])
       /\ source' = [source EXCEPT ![r] = cache[i].of]
  /\ request' = [request EXCEPT ![r] = "served"]
  /\ UNCHANGED <<now, question, task, ended, running, failures>>

\* A fresh result is returned at once.
Reuse(r) ==
  /\ Asks(r)
  /\ \E i \in FreshEntry(Key(r)) :
       /\ cache' = Touched(i)
       /\ source' = [source EXCEPT ![r] = cache[i].of]
  /\ request' = [request EXCEPT ![r] = "served"]
  /\ UNCHANGED <<now, question, task, ended, running, failures>>

\* What awaiting a task that is done gives.
AnswerOf(t) == IF task[t] \in {"returned", "settled"} THEN "served" ELSE "failed"

\* The same search is running, or just over and its callback has not run yet: then
\* the await does not suspend.
Join(r) ==
  LET t == running[Key(r)] IN
  /\ Asks(r)
  /\ FreshEntry(Key(r)) = {} /\ t # NoTask
  /\ source' = [source EXCEPT ![r] = t]
  /\ request' = [request EXCEPT ![r] = IF task[t] = "retrieving" THEN "waiting"
                                       ELSE AnswerOf(t)]
  /\ UNCHANGED <<now, question, task, ended, running, cache, failures>>

\* Mutant: the task is not there to be joined until it has a result.
Compute_Unregistered(r) ==
  /\ Asks(r)
  /\ FreshEntry(Key(r)) = {} /\ running[Key(r)] = NoTask
  /\ task' = [task EXCEPT ![r] = "retrieving"]
  /\ source' = [source EXCEPT ![r] = r]
  /\ request' = [request EXCEPT ![r] = "waiting"]
  /\ UNCHANGED <<now, question, ended, running, cache, failures>>

\* Neither: a task is created, with a session of its own.
Compute(r) ==
  /\ Asks(r)
  /\ FreshEntry(Key(r)) = {} /\ running[Key(r)] = NoTask
  /\ running' = [running EXCEPT ![Key(r)] = r]
  /\ task' = [task EXCEPT ![r] = "retrieving"]
  /\ source' = [source EXCEPT ![r] = r]
  /\ request' = [request EXCEPT ![r] = "waiting"]
  /\ UNCHANGED <<now, question, ended, cache, failures>>

Return(t) ==
  /\ task[t] = "retrieving"
  /\ task' = [task EXCEPT ![t] = "returned"]
  /\ UNCHANGED <<now, question, request, asked, source, ended, running, cache, failures>>

\* Mutant: the exception is swallowed and nobody is told.
Raise_Swallowed(t) ==
  /\ task[t] = "retrieving" /\ failures < MaxFailures
  /\ task' = [task EXCEPT ![t] = "none"]
  /\ failures' = failures + 1
  /\ UNCHANGED <<now, question, request, asked, source, ended, running, cache>>

Raise(t) ==
  /\ task[t] = "retrieving" /\ failures < MaxFailures
  /\ task' = [task EXCEPT ![t] = "raised"]
  /\ failures' = failures + 1
  /\ UNCHANGED <<now, question, request, asked, source, ended, running, cache>>

\* The done callback: no longer running; a result is kept, a failure is not.
Settle(t) ==
  /\ task[t] \in {"returned", "raised"}
  /\ running' = [running EXCEPT ![Key(t)] = NoTask]
  /\ task' = [task EXCEPT ![t] = IF task[t] = "returned" THEN "settled" ELSE "failed"]
  /\ ended' = [ended EXCEPT ![t] = now]
  /\ cache' = IF task[t] = "returned"
              THEN Stored([key |-> Key(t), at |-> now, of |-> t]) ELSE cache
  /\ UNCHANGED <<now, question, request, asked, source, failures>>

\* A waiting handler goes on with the result, or the exception, of its task, woken
\* by the shield's callback, which was added after the one that settles the task.
Deliver(r) ==
  /\ request[r] = "waiting" /\ task[source[r]] \in {"settled", "failed"}
  /\ request' = [request EXCEPT ![r] = AnswerOf(source[r])]
  /\ UNCHANGED <<now, question, asked, source, task, ended, running, cache, failures>>

\* Mutant: the await is not shielded.
GoAway_CancelsWork(r) ==
  /\ request[r] = "waiting"
  /\ request' = [request EXCEPT ![r] = "gone"]
  /\ task' = [task EXCEPT ![source[r]] = IF @ = "retrieving" THEN "raised" ELSE @]
  /\ UNCHANGED <<now, question, asked, source, ended, running, cache, failures>>

\* A handler is cancelled; the shield keeps that from the shared task.
GoAway(r) ==
  /\ request[r] = "waiting"
  /\ request' = [request EXCEPT ![r] = "gone"]
  /\ UNCHANGED <<now, question, asked, source, task, ended, running, cache, failures>>

Tick ==
  /\ now < MaxTime
  /\ now' = now + 1
  /\ UNCHANGED <<question, request, asked, source, task, ended, running, cache, failures>>

Next ==
  \/ \E r \in Requests :
       \/ Reuse(r) \/ Join(r) \/ Compute(r) \/ Deliver(r) \/ GoAway(r)
       \/ Return(r) \/ Raise(r) \/ Settle(r)
  \/ Tick

\* A retrieval ends, and the event loop runs callbacks and woken handlers.
Fairness ==
  \A r \in Requests :
    WF_vars(Return(r) \/ Raise(r)) /\ WF_vars(Settle(r)) /\ WF_vars(Deliver(r))

Spec == Init /\ [][Next]_vars
FairSpec == Spec /\ Fairness

-----------------------------------------------------------------------------
(* Properties                                                               *)

\* Two searches for the same thing never run at the same time, from the first
\* request to the moment its result can be reused.
OneAtATime ==
  \A s, t \in Requests :
    /\ s # t /\ question[s] = question[t]
    /\ task[s] \in {"retrieving", "returned"}
    => task[t] \notin {"retrieving", "returned"}

\* A request is answered from a search that asked for the same thing, filters and
\* all, and succeeded, whoever started it; and that was not over TTL or longer
\* before the request asked, however often it has been reused.
AnswersTheQuestion ==
  \A r \in Requests : request[r] = "served" =>
    /\ question[source[r]] = question[r]
    /\ task[source[r]] \in {"returned", "settled"}
    /\ task[source[r]] = "settled" => asked[r] < ended[source[r]] + TTL

\* A search fails only by its own retrieval, never because a request that waited
\* for it went away: the others that joined it still get their answer.
FailsOnlyByItself ==
  Cardinality({t \in Requests : task[t] \in {"raised", "failed"}}) = failures

\* Every request that waits is answered, unless it goes away.
WaitEnds == \A r \in Requests : request[r] = "waiting" ~> request[r] # "waiting"
=============================================================================
