----------------------- MODULE AssessmentGraphProofs -----------------------
(***************************************************************************)
(* What AssessmentGraph guarantees for any finite set of obligations, any    *)
(* limits and any number of clauses and retries, proved.                    *)
(***************************************************************************)
EXTENDS AssessmentGraph, FiniteSetTheorems, SequenceTheorems, TLAPS

Ended(o) == worker[o].pc \in {"idle", "done", "stopped"}

\* Where the graph stands: a stop leaves its working stages, an outcome is stored
\* last, the plan says who works, and nobody works once the graph has ended.
StageIsTrue ==
  /\ IF stop = "none" THEN stage \in {"plan", "workers", "memo", "over", "stored"}
                      ELSE stage \in {"unwinding", "finished", "stored"}
  /\ record # NoRecord <=> stage = "stored"
  /\ record # NoRecord => record.status # "none"
  /\ \A o \in Obligations : worker[o].pc = "idle" <=> o \notin planned
  /\ stage = "plan" => planned = {}
  /\ stage \in {"memo", "over", "finished", "stored"} => \A o \in Obligations : Ended(o)
  /\ stop = "none" => \A o \in Obligations : worker[o].pc # "stopped"

\* Unless the run is being stopped, a thread belongs to the coroutine that waits for
\* it; the memo is asked for after all workers are done, so its call is alone.
ThreadsAreOwned ==
  /\ stop = "none" => \A o \in Obligations : thread[o] # "none" => worker[o].pc = "judge"
  /\ stop = "none" => memo # "cancelled"
  /\ memo = "asking" /\ stop = "none" => stage = "memo"
  /\ stage \in {"plan", "workers"} => memo = "none"
  /\ stage = "memo" => memo \in {"none", "asking"}
  /\ memo \notin {"asking", "cancelled"} => thread[Memo] = "none"
  /\ thread[Memo] # "none" =>
       planned # {} /\ \A o \in Obligations : thread[o] = "none"

\* A refused call means a limit was reached, and the budget remembers it.
RefusalHasReason ==
  /\ budget.exhausted => Spent
  /\ \A c \in Callers : thread[c] = "budget" => budget.exhausted

\* The stored outcome is what the run came to.
RecordIsTrue ==
  /\ record.status = "COMPLETED" => stop = "none" /\ ~budget.exhausted
  /\ record.status = "CAPPED" => stop = "timeout" \/ Spent
  /\ record # NoRecord /\ stop = "none" => record.tokens = budget.tokens

\* How far a worker has come: unless the budget is spent, every clause behind it is a
\* draft or a counted failure, and nothing is saved before the drafts are complete.
Accounted(o) == Len(worker[o].drafts) + worker[o].failed
Progress(o) ==
  /\ worker[o].pc \in {"idle", "retrieve"} =>
       /\ worker[o].drafts = <<>> /\ worker[o].failed = 0 /\ worker[o].clause = 0
       /\ candidates[o] = 0
  /\ worker[o].pc \in {"loop", "judge"} =>
       /\ candidates[o] >= 1
       /\ worker[o].clause >= 1 /\ worker[o].clause <= candidates[o] + 1
       /\ ~budget.exhausted => Accounted(o) = worker[o].clause - 1
  /\ worker[o].pc = "judge" =>
       /\ worker[o].clause <= candidates[o]
       /\ worker[o].attempts >= 1
       /\ worker[o].last => worker[o].attempts >= 2
  /\ worker[o].pc = "persist" =>
       (~budget.exhausted => Accounted(o) = AtLeastOne(candidates[o]))
  /\ worker[o].pc \notin {"done", "stopped"} => saved[o] = <<>>
  /\ worker[o].pc = "done" =>
       (~budget.exhausted => Len(saved[o]) + worker[o].failed = AtLeastOne(candidates[o]))

\* A worker's drafts are of different clauses, all behind it, with the judgements
\* made of each; what is saved are all drafts or none.
DraftsAreHonest(o) ==
  /\ saved[o] = <<>> \/ saved[o] = worker[o].drafts
  /\ \A i \in DOMAIN worker[o].drafts :
       LET d == worker[o].drafts[i] IN
       /\ d.clause <= candidates[o]
       /\ worker[o].pc \in {"loop", "judge"} => d.clause < worker[o].clause
       /\ d.clause # 0 => d.attempts = checked[o][d.clause] /\ d.attempts > 0
  /\ \A i, j \in DOMAIN worker[o].drafts :
       worker[o].drafts[i].clause = worker[o].drafts[j].clause => i = j
  /\ worker[o].pc \in {"idle", "retrieve", "loop"} =>
       \A k \in Clauses : k >= worker[o].clause => checked[o][k] = 0
  /\ worker[o].pc = "judge" =>
       /\ checked[o][worker[o].clause] = worker[o].attempts - 1
       /\ \A k \in Clauses : k > worker[o].clause => checked[o][k] = 0

WorkIsTrue == \A o \in Obligations : Progress(o) /\ DraftsAreHonest(o)

\* Responses the budget still has to account for: calls in flight, and the memo's
\* response until the coroutine has it.
Owed ==
  InFlight \cup
    (IF memo = "asking" /\ thread[Memo] \in {"text", "refused"} THEN {Memo} ELSE {})
Cost == MaxOf(CallTokens)
OwedIsCovered ==
  budget.tokens + Cardinality(Owed) * Cost <= MaxTokens - 1 + Cardinality(Obligations) * Cost

IInv ==
  /\ TypeOK /\ StageIsTrue /\ ThreadsAreOwned /\ CallsWithinBudget /\ RefusalHasReason
  /\ RecordIsTrue /\ WorkIsTrue /\ OwedIsCovered

-----------------------------------------------------------------------------
(* Types.                                                                   *)

USE DEF service, result, vars, Callers, Clauses, OnlyThread, Unread, Answer, Go

\* The record of a coroutine.
WorkerRecord == [pc : WorkerStates, clause : Nat, attempts : Nat,
                 last : BOOLEAN, drafts : Seq(Finding), failed : Nat]

\* What a return to the loop over the candidates makes of a worker.
LEMMA ReturnEffect ==
  ASSUME NEW o \in Obligations, NEW drafts, NEW failed,
         worker \in [Obligations -> WorkerRecord], Return(o, drafts, failed)
  PROVE  /\ worker' = [worker EXCEPT ![o] = worker'[o]]
         /\ worker'[o] = [pc |-> "loop", clause |-> worker[o].clause + 1,
                          attempts |-> worker[o].attempts, last |-> worker[o].last,
                          drafts |-> worker[o].drafts \o drafts,
                          failed |-> worker[o].failed + failed]
BY DEF Return, WorkerRecord

\* A draft of the clause at hand is a finding, and drafts stay findings.
LEMMA DraftType ==
  ASSUME TypeOK, NEW o \in Obligations, Progress(o), worker[o].pc = "judge",
         NEW quotes \in {"VERIFIED", "FAILED"}, NEW attempts \in Nat
  PROVE  worker[o].drafts \o Draft(o, quotes, attempts) \in Seq(Finding)
<1>1. worker[o].clause \in Clauses
  BY GraphAssumption DEF GraphAssumption, TypeOK, Progress
<1>2. [clause |-> worker[o].clause, quotes |-> quotes, attempts |-> attempts] \in Finding
  BY <1>1 DEF Finding
<1>3. Draft(o, quotes, attempts) \in Seq(Finding)
  BY <1>2 DEF Draft
<1>4. worker[o].drafts \in Seq(Finding)
  BY DEF TypeOK
<1> QED
  BY <1>3, <1>4

\* A judgement put to verification is one more of the clause at hand.
LEMMA CheckEffect ==
  ASSUME TypeOK, NEW o \in Obligations, Progress(o), worker[o].pc = "judge", Check(o)
  PROVE  /\ worker[o].clause \in Clauses
         /\ checked' \in [Obligations -> [Clauses -> Nat]]
         /\ checked'[o][worker[o].clause] = checked[o][worker[o].clause] + 1
         /\ \A k \in Clauses : k # worker[o].clause => checked'[o][k] = checked[o][k]
         /\ \A p \in Obligations : p # o => checked'[p] = checked[p]
<1> DEFINE k == worker[o].clause
<1>1. k \in Clauses
  BY GraphAssumption DEF GraphAssumption, TypeOK, Progress
<1>2. checked \in [Obligations -> [Clauses -> Nat]]
  BY DEF TypeOK
<1>3. checked' = [checked EXCEPT ![o][k] = @ + 1]
  BY DEF Check
<1> HIDE DEF k, Clauses
<1>4. [checked[o] EXCEPT ![k] = @ + 1] \in [Clauses -> Nat]
  BY <1>1, <1>2
<1>5. checked' = [checked EXCEPT ![o] = [checked[o] EXCEPT ![k] = @ + 1]]
  BY <1>2, <1>3
<1>6. /\ checked' \in [Obligations -> [Clauses -> Nat]]
      /\ checked'[o][k] = checked[o][k] + 1
      /\ \A j \in Clauses : j # k => checked'[o][j] = checked[o][j]
      /\ \A p \in Obligations : p # o => checked'[p] = checked[p]
  BY <1>1, <1>2, <1>4, <1>5
<1> QED
  BY <1>1, <1>6 DEF k

\* What a claim of a call makes of the budget.
LEMMA AcquireEffect ==
  ASSUME TypeOK, Acquire
  PROVE  /\ budget' \in [calls : Nat, tokens : Nat, exhausted : BOOLEAN]
         /\ budget'.tokens = budget.tokens
         /\ Claimed => budget'.calls = budget.calls + 1 /\ ~budget'.exhausted
         /\ ~Claimed => budget'.calls = budget.calls /\ budget'.exhausted
<1>1. budget \in [calls : Nat, tokens : Nat, exhausted : BOOLEAN]
  BY DEF TypeOK
<1>2. CASE Claimed
  BY <1>1, <1>2 DEF Acquire, Claimed
<1>3. CASE ~Claimed
  BY <1>1, <1>3 DEF Acquire
<1> QED
  BY <1>2, <1>3

\* What the usage of a response makes of it.
LEMMA RecordEffect ==
  ASSUME TypeOK, \E t \in CallTokens : Record(t)
  PROVE  /\ budget' \in [calls : Nat, tokens : Nat, exhausted : BOOLEAN]
         /\ budget'.calls = budget.calls /\ budget'.exhausted = budget.exhausted
         /\ \E t \in CallTokens : budget'.tokens = budget.tokens + t
<1>1. budget \in [calls : Nat, tokens : Nat, exhausted : BOOLEAN]
  BY DEF TypeOK
<1>2. PICK t \in CallTokens : Record(t)
  OBVIOUS
<1>3. t \in Nat
  BY GraphAssumption DEF GraphAssumption
<1> QED
  BY <1>1, <1>2, <1>3 DEF Record

\* Every step of the graph, its coroutines and threads keeps the types.
LEMMA TypeStep ==
  ASSUME TypeOK, WorkIsTrue, Next
  PROVE  TypeOK'
<1> USE DEF TypeOK
<1>0. worker \in [Obligations -> WorkerRecord]
  BY DEF WorkerRecord
<1>1. ASSUME Plan \/ PlanRaises PROVE TypeOK'
  <2>1. CASE Plan
    <3>1. PICK found \in SUBSET Obligations :
            worker' = [o \in Obligations |->
              IF o \in found THEN [worker[o] EXCEPT !.pc = "retrieve"] ELSE worker[o]]
      BY <2>1 DEF Plan
    <3>2. \A o \in Obligations : [worker[o] EXCEPT !.pc = "retrieve"] \in WorkerRecord
      <4>1. ASSUME NEW r \in WorkerRecord PROVE [r EXCEPT !.pc = "retrieve"] \in WorkerRecord
        BY DEF WorkerRecord, WorkerStates
      <4> QED
        BY <1>0, <4>1
    <3>3. worker' \in [Obligations -> WorkerRecord]
      BY <1>0, <3>1, <3>2
    <3> QED
      BY <2>1, <3>3 DEF Plan, WorkerRecord
  <2>2. CASE PlanRaises
    BY <2>2 DEF PlanRaises
  <2> QED
    BY <1>1, <2>1, <2>2
<1>2. ASSUME NEW o \in Obligations, Retrieve(o) PROVE TypeOK'
  <2>1. PICK n \in 0..MaxClauses :
          /\ candidates' = [candidates EXCEPT ![o] = n]
          /\ worker' = IF n = 0
               THEN [worker EXCEPT ![o].pc = "persist", ![o].drafts = <<NoCandidate>>]
               ELSE [worker EXCEPT ![o].pc = "loop", ![o].clause = 1]
    BY <1>2 DEF Retrieve
  <2>2. <<NoCandidate>> \in Seq(Finding)
    BY DEF Finding
  <2>3. /\ [worker[o] EXCEPT !.pc = "persist", !.drafts = <<NoCandidate>>] \in WorkerRecord
        /\ [worker[o] EXCEPT !.pc = "loop", !.clause = 1] \in WorkerRecord
    <3>1. ASSUME NEW r \in WorkerRecord
          PROVE  /\ [r EXCEPT !.pc = "persist", !.drafts = <<NoCandidate>>] \in WorkerRecord
                 /\ [r EXCEPT !.pc = "loop", !.clause = 1] \in WorkerRecord
      BY <2>2 DEF WorkerStates, WorkerRecord
    <3> QED
      BY <1>0, <3>1
  <2>4. \E w \in WorkerRecord : worker' = [worker EXCEPT ![o] = w]
    BY <1>0, <2>1, <2>3 DEF WorkerRecord
  <2>5. worker' \in [Obligations -> WorkerRecord]
    BY <1>0, <2>4
  <2>6. candidates' \in [Obligations -> 0 .. MaxClauses]
    BY <2>1
  <2>7. UNCHANGED <<stage, stop, planned, thread, budget, saved, failedTasks, memo, note, record, checked>>
    BY <1>2 DEF Retrieve
  <2> QED
    BY <2>5, <2>6, <2>7 DEF WorkerRecord
<1>3. ASSUME NEW o \in Obligations, RetrievalFails(o) \/ NextClause(o) \/ LeaveLoop(o)
      PROVE  TypeOK'
  <2>1. /\ [worker[o] EXCEPT !.pc = "done", !.failed = 1] \in WorkerRecord
        /\ [worker[o] EXCEPT !.pc = "judge", !.attempts = 1, !.last = FALSE] \in WorkerRecord
        /\ [worker[o] EXCEPT !.pc = "persist"] \in WorkerRecord
        /\ [worker[o] EXCEPT !.pc = "done"] \in WorkerRecord
    <3>1. ASSUME NEW r \in WorkerRecord
          PROVE  /\ [r EXCEPT !.pc = "done", !.failed = 1] \in WorkerRecord
                 /\ [r EXCEPT !.pc = "judge", !.attempts = 1, !.last = FALSE] \in WorkerRecord
      BY DEF WorkerStates, WorkerRecord
    <3>2. ASSUME NEW r \in WorkerRecord
          PROVE  /\ [r EXCEPT !.pc = "persist"] \in WorkerRecord
                 /\ [r EXCEPT !.pc = "done"] \in WorkerRecord
      BY DEF WorkerStates, WorkerRecord
    <3> QED
      BY <1>0, <3>1, <3>2
  <2>2. \E w \in WorkerRecord : worker' = [worker EXCEPT ![o] = w]
    <3>1. CASE RetrievalFails(o)
      BY <1>0, <2>1, <3>1 DEF RetrievalFails, WorkerRecord
    <3>2. CASE NextClause(o)
      BY <1>0, <2>1, <3>2 DEF NextClause, WorkerRecord
    <3>3. CASE LeaveLoop(o)
      BY <1>0, <2>1, <3>3 DEF LeaveLoop, WorkerRecord
    <3> QED
      BY <1>3, <3>1, <3>2, <3>3
  <2>3. worker' \in [Obligations -> WorkerRecord]
    BY <1>0, <2>2
  <2>4. worker[o].failed \in Nat
    BY <1>0 DEF WorkerRecord
  <2>5. failedTasks' \in Nat
    BY <1>3, <2>4 DEF RetrievalFails, NextClause, LeaveLoop
  <2>6. candidates' = candidates /\ thread' \in [Callers -> ThreadStates]
    BY <1>3 DEF RetrievalFails, NextClause, LeaveLoop, ThreadStates
  <2> QED
    BY <1>3, <2>3, <2>5, <2>6 DEF RetrievalFails, NextClause, LeaveLoop, WorkerRecord
<1>4. ASSUME NEW o \in Obligations, JudgeAgain(o) PROVE TypeOK'
  <2>1. [worker[o] EXCEPT !.attempts = worker[o].attempts + 1, !.last = TRUE] \in WorkerRecord
    <3>1. worker[o] \in WorkerRecord /\ worker[o].attempts + 1 \in Nat
      BY <1>0 DEF WorkerRecord
    <3> QED
      BY <3>1 DEF WorkerRecord
  <2>2. worker' = [worker EXCEPT
          ![o] = [worker[o] EXCEPT !.attempts = worker[o].attempts + 1, !.last = TRUE]]
    BY <1>0, <1>4 DEF JudgeAgain, WorkerRecord
  <2>3. worker' \in [Obligations -> WorkerRecord]
    BY <1>0, <2>1, <2>2
  <2>4. checked' \in [Obligations -> [Clauses -> Nat]]
    BY <1>4, CheckEffect DEF JudgeAgain, Awaits, WorkIsTrue
  <2>5. thread' \in [Callers -> ThreadStates]
    BY <1>4 DEF JudgeAgain, ThreadStates
  <2>6. UNCHANGED <<stage, stop, planned, candidates, budget, saved, failedTasks, memo, note, record>>
    BY <1>4 DEF JudgeAgain
  <2> QED
    BY <2>3, <2>4, <2>5, <2>6 DEF WorkerRecord
<1>5. ASSUME NEW o \in Obligations,
             QuotesLocated(o) \/ GiveUp(o) \/ JudgeFails(o) \/ JudgeRefused(o)
      PROVE  TypeOK'
  <2>1. Progress(o) /\ worker[o].pc = "judge" /\ worker \in [Obligations -> WorkerRecord]
    BY <1>5 DEF WorkIsTrue, QuotesLocated, GiveUp, JudgeFails, JudgeRefused, Awaits,
                WorkerRecord
  <2>2. \E drafts, failed : Return(o, drafts, failed) /\ failed \in Nat
          /\ worker[o].drafts \o drafts \in Seq(Finding)
    <3>1. worker[o].attempts \in Nat /\ (worker[o].last => worker[o].attempts - 1 \in Nat)
      BY <2>1 DEF Progress, WorkerRecord
    <3>2. worker[o].drafts \o <<>> \in Seq(Finding)
      BY <2>1 DEF WorkerRecord
    <3> QED
      BY <1>5, <2>1, <3>1, <3>2, DraftType
      DEF QuotesLocated, GiveUp, JudgeFails, JudgeRefused
  <2>3. worker' \in [Obligations -> WorkerRecord]
    <3>1. PICK drafts, failed : Return(o, drafts, failed) /\ failed \in Nat
            /\ worker[o].drafts \o drafts \in Seq(Finding)
      BY <2>2
    <3>2. worker'[o] \in WorkerRecord
      <4>1. worker[o] \in WorkerRecord
        BY <2>1
      <4>2. /\ worker[o].clause + 1 \in Nat /\ worker[o].failed + failed \in Nat
            /\ worker[o].attempts \in Nat /\ worker[o].last \in BOOLEAN
        BY <3>1, <4>1 DEF WorkerRecord
      <4>3. worker'[o] = [pc |-> "loop", clause |-> worker[o].clause + 1,
                          attempts |-> worker[o].attempts, last |-> worker[o].last,
                          drafts |-> worker[o].drafts \o drafts,
                          failed |-> worker[o].failed + failed]
        BY <2>1, <3>1, ReturnEffect
      <4>4. "loop" \in WorkerStates /\ worker[o].drafts \o drafts \in Seq(Finding)
        BY <3>1 DEF WorkerStates
      <4> QED
        BY <4>2, <4>3, <4>4 DEF WorkerRecord
    <3> QED
      BY <2>1, <3>1, <3>2, ReturnEffect
  <2>4. /\ thread' = [thread EXCEPT ![o] = "none"]
        /\ checked' = checked \/ Check(o)
        /\ UNCHANGED Unread
    BY <1>5 DEF QuotesLocated, GiveUp, JudgeFails, JudgeRefused
  <2>5. checked' \in [Obligations -> [Clauses -> Nat]]
    BY <2>1, <2>4, CheckEffect
  <2> QED
    BY <2>3, <2>4, <2>5 DEF WorkerRecord, ThreadStates
<1>6. ASSUME NEW o \in Obligations, Persist(o) \/ WorkerRaises(o) \/ StopWorker(o)
      PROVE  TypeOK'
  <2>1. saved[o] \o worker[o].drafts \in Seq(Finding) /\ worker[o].failed \in Nat
    BY <1>0 DEF WorkerRecord
  <2>2. \A pc \in WorkerStates : [worker[o] EXCEPT !.pc = pc] \in WorkerRecord
    BY <1>0 DEF WorkerRecord
  <2>3. \E pc \in WorkerStates : worker' = [worker EXCEPT ![o] = [worker[o] EXCEPT !.pc = pc]]
    BY <1>0, <1>6 DEF Persist, WorkerRaises, StopWorker, WorkerRecord, WorkerStates
  <2>4. worker' \in [Obligations -> WorkerRecord]
    BY <1>0, <2>2, <2>3
  <2>5. saved' \in [Obligations -> Seq(Finding)]
    BY <1>6, <2>1 DEF Persist, WorkerRaises, StopWorker, MaySave
  <2>6. thread' \in [Callers -> ThreadStates]
    BY <1>6 DEF Persist, WorkerRaises, StopWorker, Abandon, ThreadStates
  <2>7. /\ failedTasks' \in Nat
        /\ stage' \in {stage, "unwinding"} /\ stop' \in {stop, "error"}
        /\ UNCHANGED <<planned, candidates, budget, result, record, checked>>
    BY <1>6, <2>1 DEF Persist, WorkerRaises, StopWorker
  <2> QED
    BY <2>4, <2>5, <2>6, <2>7 DEF WorkerRecord
<1>7. ASSUME NEW o \in Obligations, CallJudge(o) \/ CallRepair(o) PROVE TypeOK'
  <2>1. budget' \in [calls : Nat, tokens : Nat, exhausted : BOOLEAN]
    BY <1>7, AcquireEffect DEF CallJudge, CallRepair
  <2>2. thread' \in [Callers -> ThreadStates]
    BY <1>7 DEF CallJudge, CallRepair, ThreadStates, Answers
  <2>3. UNCHANGED <<stage, stop, planned, worker, candidates, saved, failedTasks, memo, note,
                    record, checked>>
    BY <1>7 DEF CallJudge, CallRepair
  <2> QED
    BY <2>1, <2>2, <2>3
<1>8. ASSUME NEW o \in Obligations, JudgeReplies(o) \/ RepairReplies(o) PROVE TypeOK'
  <2>1. budget' \in [calls : Nat, tokens : Nat, exhausted : BOOLEAN]
    BY <1>8, RecordEffect DEF JudgeReplies, RepairReplies
  <2>2. thread' \in [Callers -> ThreadStates]
    BY <1>8 DEF JudgeReplies, RepairReplies, Judgements, ThreadStates, Answers
  <2>3. UNCHANGED <<stage, stop, planned, worker, candidates, saved, failedTasks, memo, note,
                    record, checked>>
    BY <1>8 DEF JudgeReplies, RepairReplies
  <2> QED
    BY <2>1, <2>2, <2>3
<1>9. ASSUME NEW c \in Callers, GatewayFails(c) PROVE TypeOK'
  BY <1>9 DEF GatewayFails, ThreadStates, Answers
<1>10. ASSUME FanIn \/ NothingToWrite \/ Timeout \/ StopMemo \/ Unwound PROVE TypeOK'
  <2>1. CASE FanIn \/ NothingToWrite
    BY <2>1 DEF FanIn, NothingToWrite
  <2>2. CASE Timeout \/ StopMemo
    BY <2>2 DEF Timeout, StopMemo
  <2>3. CASE Unwound
    BY <2>3 DEF Unwound
  <2> QED
    BY <1>10, <2>1, <2>2, <2>3
<1>11. ASSUME AskMemo PROVE TypeOK'
  BY <1>11, AcquireEffect DEF AskMemo, ThreadStates
<1>12. ASSUME MemoReplies \/ MemoFails PROVE TypeOK'
  <2>1. thread' \in [Callers -> ThreadStates]
    BY <1>12 DEF MemoReplies, MemoFails, ThreadStates, Answers
  <2>2. UNCHANGED <<stop, planned, worker, candidates, budget, saved, failedTasks, record, checked>>
    BY <1>12 DEF MemoReplies, MemoFails
  <2>3. stage' \in {stage, "over"} /\ memo' \in {memo, "none"} /\ note' \in BOOLEAN
    BY <1>12 DEF MemoReplies, MemoFails
  <2> QED
    BY <2>1, <2>2, <2>3
<1>13. ASSUME MemoWritten \/ MemoRaises PROVE TypeOK'
  BY <1>13, RecordEffect DEF MemoWritten, MemoRaises, ThreadStates
<1>14. ASSUME Finish PROVE TypeOK'
  BY <1>14 DEF Finish, Outcome
<1> QED
  BY <1>1, <1>2, <1>3, <1>4, <1>5, <1>6, <1>7, <1>8, <1>9, <1>10, <1>11, <1>12, <1>13,
     <1>14 DEF Next, Coroutine, JudgeThread

-----------------------------------------------------------------------------
(* What the steps of a coroutine and of a thread leave alone.               *)

\* A coroutine works while the stage is "workers"; its step may raise and stop the
\* graph; its thread is left, dropped once read, or given a new job to wait for.
LEMMA CoroutineEffect ==
  ASSUME TypeOK, NEW o \in Obligations, Coroutine(o)
  PROVE  /\ stage = "workers" /\ worker[o].pc \in {"retrieve", "loop", "judge", "persist"}
         /\ \/ /\ UNCHANGED <<stage, stop>>
               /\ worker'[o].pc \in {"loop", "judge", "persist", "done"}
               /\ thread'[o] = thread[o] => worker[o].pc # "judge"
            \/ stage' = "unwinding" /\ stop' = "error" /\ worker'[o].pc = "stopped"
         /\ \/ UNCHANGED thread
            \/ \E t \in {"none", "queued"} :
                 /\ thread' = [thread EXCEPT ![o] = t]
                 /\ t = "queued" => worker'[o].pc = "judge"
         /\ \A p \in Obligations : p # o => worker'[p] = worker[p]
         /\ UNCHANGED <<planned, budget, result, record>>
<1>0. worker \in [Obligations -> WorkerRecord]
  BY DEF TypeOK, WorkerRecord
<1>1. CASE RetrievalFails(o)
  BY <1>0, <1>1 DEF RetrievalFails, WorkerRecord
<1>2. CASE Retrieve(o)
  BY <1>0, <1>2 DEF Retrieve, WorkerRecord
<1>3. CASE NextClause(o)
  BY <1>0, <1>3 DEF NextClause, WorkerRecord
<1>4. CASE LeaveLoop(o)
  BY <1>0, <1>4 DEF LeaveLoop, WorkerRecord
<1>5. CASE JudgeAgain(o)
  <2>1. thread[o] = "unlocated" /\ thread' = [thread EXCEPT ![o] = "queued"]
    BY <1>5 DEF JudgeAgain, Awaits
  <2>2. thread'[o] = "queued"
    BY <2>1 DEF TypeOK
  <2> QED
    BY <1>0, <1>5, <2>1, <2>2 DEF JudgeAgain, Awaits, WorkerRecord
<1>6. CASE QuotesLocated(o) \/ GiveUp(o) \/ JudgeFails(o) \/ JudgeRefused(o)
  <2>1. /\ \E drafts, failed : Return(o, drafts, failed)
        /\ stage = "workers" /\ worker[o].pc = "judge" /\ thread[o] # "none"
        /\ thread' = [thread EXCEPT ![o] = "none"]
        /\ UNCHANGED Unread
    BY <1>6 DEF QuotesLocated, GiveUp, JudgeFails, JudgeRefused, Awaits
  <2>2. worker'[o].pc = "loop" /\ \A p \in Obligations : p # o => worker'[p] = worker[p]
    <3>1. PICK drafts, failed : Return(o, drafts, failed)
      BY <2>1
    <3>2. worker' = [worker EXCEPT ![o] = worker'[o]]
      BY <1>0, <3>1, ReturnEffect
    <3>3. worker'[o] = [pc |-> "loop", clause |-> worker[o].clause + 1,
                        attempts |-> worker[o].attempts, last |-> worker[o].last,
                        drafts |-> worker[o].drafts \o drafts,
                        failed |-> worker[o].failed + failed]
      BY <1>0, <3>1, ReturnEffect
    <3>4. worker'[o].pc = "loop"
      BY <3>3
    <3> QED
      BY <1>0, <3>2, <3>4
  <2>3. thread'[o] = "none"
    BY <2>1 DEF TypeOK
  <2> QED
    BY <2>1, <2>2, <2>3
<1>7. CASE Persist(o)
  BY <1>0, <1>7 DEF Persist, WorkerRecord
<1>8. CASE WorkerRaises(o)
  BY <1>0, <1>8 DEF WorkerRaises, WorkerRecord
<1> QED
  BY <1>1, <1>2, <1>3, <1>4, <1>5, <1>6, <1>7, <1>8 DEF Coroutine

\* Cancellation ends a coroutine; its thread is left or its job, not yet started,
\* is dropped.
LEMMA StopWorkerEffect ==
  ASSUME TypeOK, NEW o \in Obligations, StopWorker(o)
  PROVE  /\ stop # "none" /\ ~Ended(o) /\ worker' = [worker EXCEPT ![o].pc = "stopped"]
         /\ worker'[o].pc = "stopped"
         /\ UNCHANGED thread \/ thread' = [thread EXCEPT ![o] = "none"]
         /\ \A p \in Obligations : p # o => worker'[p] = worker[p]
         /\ UNCHANGED <<service, candidates, budget, failedTasks, result, record, checked>>
<1>0. worker \in [Obligations -> WorkerRecord]
  BY DEF TypeOK, WorkerRecord
<1> QED
  BY <1>0 DEF StopWorker, Abandon, Ended, WorkerRecord

\* A thread's step is its own answer and what the call makes of the budget.
LEMMA ThreadEffect ==
  ASSUME TypeOK, NEW o \in Obligations, JudgeThread(o)
  PROVE  /\ UNCHANGED OnlyThread
         /\ thread[o] \in {"queued", "calling", "repair", "recalling"}
         /\ \E a \in ThreadStates \ {"none", "queued"} : thread' = [thread EXCEPT ![o] = a]
         /\ Acquire \/ \E t \in CallTokens : Record(t)
BY DEF JudgeThread, CallJudge, JudgeReplies, CallRepair, RepairReplies, Judgements,
       ThreadStates, Answers

\* So is the failure of a call.
LEMMA GatewayEffect ==
  ASSUME TypeOK, NEW c \in Callers, GatewayFails(c)
  PROVE  /\ UNCHANGED <<OnlyThread, budget>>
         /\ thread[c] \in {"calling", "recalling"}
         /\ \E a \in {"nothing", "fatal"} : thread' = [thread EXCEPT ![c] = a]
BY DEF GatewayFails

\* Steps of the graph itself that leave its workers and their threads alone.
GraphStep ==
  \/ PlanRaises \/ FanIn \/ NothingToWrite \/ AskMemo \/ MemoWritten \/ MemoFails
  \/ MemoRaises \/ Timeout \/ StopMemo \/ Unwound \/ Finish

LEMMA GraphStepEffect ==
  ASSUME TypeOK, GraphStep
  PROVE  /\ UNCHANGED <<planned, worker, candidates, saved, failedTasks, checked>>
         /\ \A o \in Obligations : thread'[o] = thread[o]
BY GraphAssumption
DEF GraphAssumption, TypeOK, GraphStep, PlanRaises, FanIn, NothingToWrite, AskMemo,
    MemoWritten, MemoFails, MemoRaises, Timeout, StopMemo, Unwound, Finish

\* The steps, by what they have in common.
LEMMA NextCases ==
  ASSUME Next
  PROVE  \/ Plan \/ GraphStep \/ MemoReplies
         \/ \E o \in Obligations : Coroutine(o) \/ JudgeThread(o) \/ StopWorker(o)
         \/ \E c \in Callers : GatewayFails(c)
BY DEF Next, GraphStep

-----------------------------------------------------------------------------
(* The stages and the threads.                                              *)

LEMMA StageStep ==
  ASSUME TypeOK, StageIsTrue, ThreadsAreOwned, Next
  PROVE  StageIsTrue'
<1> USE DEF StageIsTrue, Ended
<1>1. CASE Plan
  BY <1>1 DEF Plan, TypeOK
<1>2. CASE GraphStep
  <2>1. UNCHANGED <<planned, worker>>
    BY <1>2, GraphStepEffect
  <2>2. CASE PlanRaises \/ NothingToWrite \/ Timeout \/ StopMemo
    BY <2>1, <2>2 DEF PlanRaises, NothingToWrite, Timeout, StopMemo, TypeOK
  <2>3. CASE FanIn
    BY <2>1, <2>3 DEF FanIn
  <2>4. CASE AskMemo \/ MemoWritten \/ MemoFails \/ MemoRaises
    BY <2>1, <2>4 DEF AskMemo, MemoWritten, MemoFails, MemoRaises
  <2>5. CASE Unwound
    BY <2>1, <2>5 DEF Unwound
  <2>6. CASE Finish
    BY <2>1, <2>6 DEF Finish, Outcome, NoRecord
  <2> QED
    BY <1>2, <2>2, <2>3, <2>4, <2>5, <2>6 DEF GraphStep
<1>3. CASE MemoReplies
  BY <1>3 DEF MemoReplies
<1>4. ASSUME NEW o \in Obligations, Coroutine(o) PROVE StageIsTrue'
  BY <1>4, CoroutineEffect DEF NoRecord
<1>5. ASSUME NEW o \in Obligations, JudgeThread(o) PROVE StageIsTrue'
  BY <1>5, ThreadEffect
<1>6. ASSUME NEW o \in Obligations, StopWorker(o) PROVE StageIsTrue'
  BY <1>6, StopWorkerEffect
<1>7. ASSUME NEW c \in Callers, GatewayFails(c) PROVE StageIsTrue'
  BY <1>7, GatewayEffect
<1> QED
  BY <1>1, <1>2, <1>3, <1>4, <1>5, <1>6, <1>7, NextCases

LEMMA ThreadsStep ==
  ASSUME TypeOK, StageIsTrue, ThreadsAreOwned, Next
  PROVE  ThreadsAreOwned'
<1> USE DEF ThreadsAreOwned
<1>0. thread \in [Callers -> ThreadStates] /\ Memo \notin Obligations
  BY GraphAssumption DEF TypeOK, GraphAssumption
<1>1. CASE Plan
  BY <1>0, <1>1 DEF Plan, StageIsTrue, TypeOK
<1>2. CASE GraphStep
  <2>1. UNCHANGED <<planned, worker>> /\ \A o \in Obligations : thread'[o] = thread[o]
    BY <1>2, GraphStepEffect
  <2>2. CASE PlanRaises \/ NothingToWrite \/ Timeout \/ StopMemo \/ FanIn \/ Unwound \/ Finish
    BY <2>1, <2>2
    DEF PlanRaises, NothingToWrite, Timeout, StopMemo, FanIn, Unwound, Finish, StageIsTrue
  <2>3. CASE AskMemo
    BY <1>0, <2>1, <2>3 DEF AskMemo, StageIsTrue, Ended
  <2>4. CASE MemoWritten \/ MemoFails
    BY <1>0, <2>1, <2>4 DEF MemoWritten, MemoFails
  <2>5. CASE MemoRaises
    BY <2>1, <2>5 DEF MemoRaises
  <2> QED
    BY <1>2, <2>2, <2>3, <2>4, <2>5 DEF GraphStep
<1>3. CASE MemoReplies
  BY <1>0, <1>3 DEF MemoReplies
<1>4. ASSUME NEW o \in Obligations, Coroutine(o) PROVE ThreadsAreOwned'
  BY <1>0, <1>4, CoroutineEffect DEF StageIsTrue
<1>5. ASSUME NEW o \in Obligations, JudgeThread(o) PROVE ThreadsAreOwned'
  BY <1>0, <1>5, ThreadEffect
<1>6. ASSUME NEW o \in Obligations, StopWorker(o) PROVE ThreadsAreOwned'
  BY <1>0, <1>6, StopWorkerEffect
<1>7. ASSUME NEW c \in Callers, GatewayFails(c) PROVE ThreadsAreOwned'
  BY <1>0, <1>7, GatewayEffect
<1> QED
  BY <1>1, <1>2, <1>3, <1>4, <1>5, <1>6, <1>7, NextCases

-----------------------------------------------------------------------------
(* The budget and the stored outcome.                                       *)

\* Every step claims a call, accounts for a response, or leaves the budget alone.
LEMMA BudgetEffect ==
  ASSUME TypeOK, Next
  PROVE  UNCHANGED budget \/ Acquire \/ \E t \in CallTokens : Record(t)
<1>1. ASSUME NEW o \in Obligations, Coroutine(o) \/ JudgeThread(o) \/ StopWorker(o)
      PROVE  UNCHANGED budget \/ Acquire \/ \E t \in CallTokens : Record(t)
  BY <1>1, CoroutineEffect, ThreadEffect, StopWorkerEffect
<1>2. ASSUME NEW c \in Callers, GatewayFails(c) PROVE UNCHANGED budget
  BY <1>2, GatewayEffect
<1>3. ASSUME Plan \/ GraphStep \/ MemoReplies
      PROVE  UNCHANGED budget \/ Acquire \/ \E t \in CallTokens : Record(t)
  BY <1>3 DEF Plan, GraphStep, MemoReplies, PlanRaises, FanIn, NothingToWrite, AskMemo,
              MemoWritten, MemoFails, MemoRaises, Timeout, StopMemo, Unwound, Finish
<1> QED
  BY <1>1, <1>2, <1>3, NextCases

\* What was spent stays spent and a refusal stays known.
LEMMA BudgetGrows ==
  ASSUME TypeOK, Next
  PROVE  /\ Spent => Spent'
         /\ budget.exhausted => budget'.exhausted
         /\ budget'.exhausted => budget.exhausted \/ Spent'
         /\ CallsWithinBudget => CallsWithinBudget'
<1>1. budget \in [calls : Nat, tokens : Nat, exhausted : BOOLEAN]
  BY DEF TypeOK
<1>2. MaxCalls \in Nat /\ MaxTokens \in Nat
  BY GraphAssumption DEF GraphAssumption
<1>3. CASE UNCHANGED budget
  BY <1>3 DEF Spent, CallsWithinBudget
<1>4. CASE Acquire
  BY <1>1, <1>2, <1>4, AcquireEffect DEF Spent, CallsWithinBudget, Claimed
<1>5. CASE \E t \in CallTokens : Record(t)
  <2>1. PICK t \in CallTokens : budget'.tokens = budget.tokens + t
    BY <1>5, RecordEffect
  <2>2. t \in Nat
    BY GraphAssumption DEF GraphAssumption
  <2> QED
    BY <1>1, <1>2, <1>5, <2>1, <2>2, RecordEffect DEF Spent, CallsWithinBudget
<1> QED
  BY <1>3, <1>4, <1>5, BudgetEffect

\* A thread is told of a refusal only when the budget has refused.
LEMMA RefusalStep ==
  ASSUME TypeOK, RefusalHasReason, Next
  PROVE  RefusalHasReason'
<1>1. budget'.exhausted => Spent'
  BY BudgetGrows DEF RefusalHasReason
<1>2. ASSUME NEW c \in Callers, thread'[c] = "budget"
      PROVE  budget'.exhausted
  <2>0. thread \in [Callers -> ThreadStates]
    BY DEF TypeOK
  <2>1. CASE thread[c] = "budget"
    BY <2>1, BudgetGrows DEF RefusalHasReason
  <2>2. CASE \E o \in Obligations : JudgeThread(o)
    <3>1. PICK o \in Obligations : JudgeThread(o)
      BY <2>2
    <3>2. CASE c = o
      BY <1>2, <2>0, <3>1, <3>2, AcquireEffect
      DEF JudgeThread, CallJudge, JudgeReplies, CallRepair, RepairReplies, Judgements
    <3>3. CASE c # o
      BY <1>2, <2>0, <2>1, <3>1, <3>3, ThreadEffect
    <3> QED
      BY <3>2, <3>3
  <2>3. CASE \E o \in Obligations : Coroutine(o) \/ StopWorker(o)
    BY <1>2, <2>0, <2>1, <2>3, CoroutineEffect, StopWorkerEffect
  <2>4. CASE \E x \in Callers : GatewayFails(x)
    BY <1>2, <2>0, <2>1, <2>4, GatewayEffect
  <2>5. CASE Plan \/ GraphStep \/ MemoReplies
    BY <1>2, <2>0, <2>1, <2>5
    DEF Plan, GraphStep, MemoReplies, PlanRaises, FanIn, NothingToWrite, AskMemo,
        MemoWritten, MemoFails, MemoRaises, Timeout, StopMemo, Unwound, Finish
  <2> QED
    BY <2>2, <2>3, <2>4, <2>5, NextCases
<1> QED
  BY <1>1, <1>2 DEF RefusalHasReason

\* When a run that was not stopped has been stored, no thread is left.
LEMMA StoredIsQuiet ==
  ASSUME TypeOK, StageIsTrue, ThreadsAreOwned, stage = "stored", stop = "none"
  PROVE  \A c \in Callers : thread[c] = "none"
BY DEF TypeOK, StageIsTrue, ThreadsAreOwned, Ended

\* The outcome is stored in one step, and true from then on.
LEMMA RecordStep ==
  ASSUME TypeOK, StageIsTrue, ThreadsAreOwned, RefusalHasReason, RecordIsTrue, Next
  PROVE  RecordIsTrue'
<1>1. CASE Finish
  <2>1. /\ record'.status = Outcome /\ record'.tokens = budget.tokens
        /\ UNCHANGED <<stop, budget>>
    BY <1>1 DEF Finish
  <2>2. /\ Outcome = "COMPLETED" => stop = "none" /\ ~budget.exhausted
        /\ Outcome = "CAPPED" => stop = "timeout" \/ budget.exhausted
    BY DEF Outcome, TypeOK
  <2>3. budget.exhausted => Spent'
    BY BudgetGrows DEF RefusalHasReason
  <2> QED
    BY <2>1, <2>2, <2>3 DEF RecordIsTrue
<1>2. CASE ~Finish
  <2>1. record' = record
    BY <1>2, NextCases, CoroutineEffect, ThreadEffect, StopWorkerEffect, GatewayEffect
    DEF Plan, GraphStep, MemoReplies, PlanRaises, FanIn, NothingToWrite, AskMemo,
        MemoWritten, MemoFails, MemoRaises, Timeout, StopMemo, Unwound
  <2>2. CASE record = NoRecord
    BY <2>1, <2>2 DEF RecordIsTrue, NoRecord
  <2>3. CASE record # NoRecord
    <3>1. stage = "stored"
      BY <2>3 DEF StageIsTrue
    <3>2. stop' = stop
      BY <3>1, NextCases, CoroutineEffect, ThreadEffect, StopWorkerEffect, GatewayEffect
      DEF Plan, GraphStep, MemoReplies, PlanRaises, FanIn, NothingToWrite, AskMemo,
          MemoWritten, MemoFails, MemoRaises, Timeout, StopMemo, Unwound, Finish
    <3>3. stop = "none" => budget' = budget
      BY <3>1, NextCases, StoredIsQuiet, CoroutineEffect, ThreadEffect, StopWorkerEffect,
         GatewayEffect
      DEF Plan, GraphStep, MemoReplies, PlanRaises, FanIn, NothingToWrite, AskMemo,
          MemoWritten, MemoFails, MemoRaises, Timeout, StopMemo, Unwound, Finish
    <3> QED
      BY <2>1, <3>2, <3>3, BudgetGrows DEF RecordIsTrue
  <2> QED
    BY <2>2, <2>3
<1> QED
  BY <1>1, <1>2

-----------------------------------------------------------------------------
(* The tokens.                                                              *)

LEMMA Products ==
  ASSUME NEW a \in Nat, NEW b \in Nat, NEW m \in Nat, a <= b
  PROVE  /\ a * m \in Nat /\ b * m \in Nat /\ a * m <= b * m
         /\ (a + 1) * m = a * m + m
  OBVIOUS

\* The largest response, and the sets that are counted.
LEMMA CostType == Cost \in Nat /\ \A t \in CallTokens : t \in Nat /\ t <= Cost
BY GraphAssumption DEF GraphAssumption, Cost, MaxOf

LEMMA OwedIsFinite ==
  /\ IsFiniteSet(Owed) /\ Cardinality(Owed) \in Nat
  /\ IsFiniteSet(Obligations) /\ Cardinality(Obligations) \in Nat
<1>1. IsFiniteSet(Obligations)
  BY GraphAssumption DEF GraphAssumption
<1>2. IsFiniteSet(Obligations \cup {Memo})
  BY <1>1, FS_AddElement
<1>3. Owed \subseteq Obligations \cup {Memo}
  BY DEF Owed, InFlight
<1> QED
  BY <1>1, <1>2, <1>3, FS_Subset, FS_CardinalityType

\* Nothing new is owed and nothing is spent.
LEMMA NothingNewOwed ==
  ASSUME TypeOK, OwedIsCovered, Owed' \subseteq Owed, budget'.tokens = budget.tokens
  PROVE  OwedIsCovered'
<1>1. budget.tokens \in Nat /\ MaxTokens \in Nat
  BY GraphAssumption DEF GraphAssumption, TypeOK
<1>2. Cardinality(Owed') \in Nat /\ Cardinality(Owed') <= Cardinality(Owed)
  BY OwedIsFinite, FS_Subset, FS_CardinalityType
<1>3. Cardinality(Owed') * Cost <= Cardinality(Owed) * Cost
      /\ Cardinality(Owed') * Cost \in Nat /\ Cardinality(Owed) * Cost \in Nat
  BY <1>2, CostType, OwedIsFinite, Products
<1>4. Cardinality(Obligations) * Cost \in Nat
  BY CostType, OwedIsFinite, Products
<1> HIDE DEF Owed, Cost
<1> QED
  BY <1>1, <1>3, <1>4 DEF OwedIsCovered

\* A response that was owed is accounted for, at no more than the largest cost.
LEMMA OwedIsPaid ==
  ASSUME TypeOK, OwedIsCovered, NEW c \in Owed, Owed' \subseteq Owed \ {c},
         NEW t \in CallTokens, budget'.tokens = budget.tokens + t
  PROVE  OwedIsCovered'
<1>1. budget.tokens \in Nat /\ MaxTokens \in Nat /\ t \in Nat /\ t <= Cost /\ Cost \in Nat
  BY GraphAssumption, CostType DEF GraphAssumption, TypeOK
<1>2. /\ Cardinality(Owed') \in Nat
      /\ Cardinality(Owed) \in Nat
      /\ Cardinality(Owed') + 1 <= Cardinality(Owed)
  <2>1. IsFiniteSet(Owed \ {c}) /\ Cardinality(Owed \ {c}) = Cardinality(Owed) - 1
    BY OwedIsFinite, FS_RemoveElement
  <2>2. IsFiniteSet(Owed') /\ Cardinality(Owed') <= Cardinality(Owed \ {c})
    BY <2>1, FS_Subset
  <2> QED
    BY <2>1, <2>2, OwedIsFinite, FS_CardinalityType
<1>3. /\ (Cardinality(Owed') + 1) * Cost <= Cardinality(Owed) * Cost
      /\ (Cardinality(Owed') + 1) * Cost = Cardinality(Owed') * Cost + Cost
      /\ Cardinality(Owed') * Cost \in Nat /\ Cardinality(Owed) * Cost \in Nat
  <2>1. Cardinality(Owed') + 1 \in Nat
    BY <1>2
  <2> HIDE DEF Owed, Cost
  <2> QED
    BY <1>1, <1>2, <2>1, Products
<1>4. Cardinality(Obligations) * Cost \in Nat
  BY CostType, OwedIsFinite, Products
<1> HIDE DEF Owed, Cost
<1> QED
  BY <1>1, <1>3, <1>4 DEF OwedIsCovered

\* A call is claimed below the token limit, and each worker owes one at most.
LEMMA OwedIsClaimed ==
  ASSUME TypeOK, Claimed, budget'.tokens = budget.tokens,
         Cardinality(Owed') \in Nat, Cardinality(Owed') <= Cardinality(Obligations)
  PROVE  OwedIsCovered'
<1>1. budget.tokens \in Nat /\ MaxTokens \in Nat /\ budget.tokens <= MaxTokens - 1
  BY GraphAssumption DEF GraphAssumption, TypeOK, Claimed, Spent
<1>2. /\ Cardinality(Owed') * Cost <= Cardinality(Obligations) * Cost
      /\ Cardinality(Owed') * Cost \in Nat /\ Cardinality(Obligations) * Cost \in Nat
  BY CostType, OwedIsFinite, Products
<1> HIDE DEF Owed, Cost
<1> QED
  BY <1>1, <1>2 DEF OwedIsCovered

\* A step of a worker's thread: a claim of its own call, or the end of it.
LEMMA ThreadOwedStep ==
  ASSUME TypeOK, ThreadsAreOwned, OwedIsCovered, NEW o \in Obligations, JudgeThread(o)
  PROVE  OwedIsCovered'
<1>0. thread \in [Callers -> ThreadStates] /\ Memo \notin Obligations
  BY GraphAssumption DEF TypeOK, GraphAssumption
<1>1. UNCHANGED memo /\ thread[o] # "none"
  BY ThreadEffect
<1>2. CASE CallJudge(o) \/ CallRepair(o)
  <2>1. CASE Claimed
    <3>1. thread[Memo] = "none"
      BY <1>1 DEF ThreadsAreOwned
    <3>2. thread'[Memo] = "none"
      BY <1>0, <3>1, ThreadEffect
    <3>3. Owed' \subseteq Obligations
      BY <1>0, <3>2 DEF Owed, InFlight
    <3>4. Cardinality(Owed') \in Nat /\ Cardinality(Owed') <= Cardinality(Obligations)
      BY <3>3, OwedIsFinite, FS_Subset, FS_CardinalityType
    <3> QED
      BY <1>2, <2>1, <3>4, AcquireEffect, OwedIsClaimed DEF CallJudge, CallRepair
  <2>2. CASE ~Claimed
    <3>1. thread' = [thread EXCEPT ![o] = "budget"] /\ budget'.tokens = budget.tokens
      BY <1>2, <2>2, AcquireEffect DEF CallJudge, CallRepair
    <3>2. Owed' \subseteq Owed
      BY <1>0, <1>1, <3>1 DEF Owed, InFlight
    <3> QED
      BY <3>1, <3>2, NothingNewOwed
  <2> QED
    BY <2>1, <2>2
<1>3. CASE JudgeReplies(o) \/ RepairReplies(o)
  <2>1. o \in Owed
    BY <1>3 DEF JudgeReplies, RepairReplies, Owed, InFlight
  <2>2. PICK a \in {"located", "unlocated", "nothing", "repair"} :
          thread' = [thread EXCEPT ![o] = a]
    BY <1>3 DEF JudgeReplies, RepairReplies, Judgements
  <2>3. Owed' \subseteq Owed \ {o}
    BY <1>0, <1>1, <2>2 DEF Owed, InFlight
  <2>4. PICK t \in CallTokens : budget'.tokens = budget.tokens + t
    BY <1>3, RecordEffect DEF JudgeReplies, RepairReplies
  <2> QED
    BY <2>1, <2>3, <2>4, OwedIsPaid
<1> QED
  BY <1>2, <1>3 DEF JudgeThread

LEMMA OwedStep ==
  ASSUME TypeOK, StageIsTrue, ThreadsAreOwned, OwedIsCovered, Next
  PROVE  OwedIsCovered'
<1>0. thread \in [Callers -> ThreadStates] /\ Memo \notin Obligations
  BY GraphAssumption DEF TypeOK, GraphAssumption
<1>1. ASSUME NEW o \in Obligations, JudgeThread(o) PROVE OwedIsCovered'
  BY <1>1, ThreadOwedStep
<1>2. ASSUME NEW o \in Obligations, Coroutine(o) \/ StopWorker(o) PROVE OwedIsCovered'
  <2>1. UNCHANGED memo /\ budget'.tokens = budget.tokens
    BY <1>2, CoroutineEffect, StopWorkerEffect
  <2>2. UNCHANGED thread \/ \E t \in {"none", "queued"} : thread' = [thread EXCEPT ![o] = t]
    BY <1>2, CoroutineEffect, StopWorkerEffect
  <2>3. Owed' \subseteq Owed
    BY <1>0, <2>1, <2>2 DEF Owed, InFlight
  <2> QED
    BY <2>1, <2>3, NothingNewOwed
<1>3. ASSUME NEW c \in Callers, GatewayFails(c) PROVE OwedIsCovered'
  <2>1. UNCHANGED <<memo, budget>>
        /\ \E a \in {"nothing", "fatal"} : thread' = [thread EXCEPT ![c] = a]
    BY <1>3, GatewayEffect
  <2>2. Owed' \subseteq Owed
    BY <1>0, <2>1 DEF Owed, InFlight
  <2> QED
    BY <2>1, <2>2, NothingNewOwed
<1>4. CASE Plan \/ PlanRaises \/ FanIn \/ NothingToWrite \/ Timeout \/ StopMemo \/ Unwound
             \/ Finish \/ MemoFails \/ MemoReplies
  <2>1. Owed' \subseteq Owed /\ UNCHANGED budget
    BY <1>0, <1>4
    DEF Plan, PlanRaises, FanIn, NothingToWrite, Timeout, StopMemo, Unwound, Finish, MemoFails,
        MemoReplies, Owed, InFlight
  <2> QED
    BY <2>1, NothingNewOwed
<1>5. CASE AskMemo
  <2>1. CASE Claimed
    <3>1. \A o \in Obligations : thread'[o] = "none"
      BY <1>0, <1>5, <2>1 DEF AskMemo, StageIsTrue, ThreadsAreOwned, Ended
    <3>2. Owed' \subseteq {Memo}
      BY <1>0, <3>1 DEF Owed, InFlight
    <3>3. PICK o \in Obligations : TRUE
      BY <1>5 DEF AskMemo, TypeOK
    <3>4. Cardinality({Memo}) = 1 /\ Cardinality({o}) = 1
          /\ IsFiniteSet({Memo}) /\ IsFiniteSet({o})
      BY FS_Singleton
    <3>5. Cardinality({o}) <= Cardinality(Obligations)
      BY OwedIsFinite, FS_Subset
    <3>6. Cardinality(Owed') \in Nat /\ Cardinality(Owed') <= Cardinality({Memo})
      BY <3>2, <3>4, FS_Subset, FS_CardinalityType
    <3>7. Cardinality(Owed') <= Cardinality(Obligations)
      BY <3>4, <3>5, <3>6, OwedIsFinite
    <3> QED
      BY <1>5, <2>1, <3>6, <3>7, AcquireEffect, OwedIsClaimed DEF AskMemo
  <2>2. CASE ~Claimed
    <3>1. UNCHANGED <<memo, thread>> /\ budget'.tokens = budget.tokens
      BY <1>5, <2>2, AcquireEffect DEF AskMemo
    <3> QED
      BY <3>1, NothingNewOwed DEF Owed, InFlight
  <2> QED
    BY <2>1, <2>2
<1>6. CASE MemoWritten \/ MemoRaises
  <2>1. CASE thread[Memo] \in {"text", "refused"}
    <3>1. memo = "asking" /\ Memo \in Owed
      BY <1>6, <2>1 DEF MemoWritten, MemoRaises, ThreadsAreOwned, Owed
    <3>2. Owed' \subseteq Owed \ {Memo}
      BY <1>0, <1>6, <2>1 DEF MemoWritten, MemoRaises, Owed, InFlight
    <3>3. PICK t \in CallTokens : budget'.tokens = budget.tokens + t
      BY <1>6, <2>1, RecordEffect DEF MemoWritten, MemoRaises
    <3> QED
      BY <3>1, <3>2, <3>3, OwedIsPaid
  <2>2. CASE thread[Memo] \notin {"text", "refused"}
    <3>1. Owed' \subseteq Owed /\ UNCHANGED budget
      BY <1>0, <1>6, <2>2 DEF MemoWritten, MemoRaises, Owed, InFlight
    <3> QED
      BY <3>1, NothingNewOwed
  <2> QED
    BY <2>1, <2>2
<1> QED
  BY <1>1, <1>2, <1>3, <1>4, <1>5, <1>6, NextCases DEF GraphStep

-----------------------------------------------------------------------------
(* The workers.                                                             *)

Work(o) == Progress(o) /\ DraftsAreHonest(o)

\* What a worker has done does not change by what others do.
LEMMA WorkStays ==
  ASSUME NEW o \in Obligations, Work(o),
         worker'[o] = worker[o], candidates'[o] = candidates[o], saved'[o] = saved[o],
         checked'[o] = checked[o], budget.exhausted => budget'.exhausted
  PROVE  Work(o)'
BY DEF Work, Progress, DraftsAreHonest, Accounted, AtLeastOne

\* Drafts with one more, with none more, and after none.
LEMMA OneMoreDraft ==
  ASSUME NEW s \in Seq(Finding), NEW d
  PROVE  /\ Len(s \o <<d>>) = Len(s) + 1
         /\ DOMAIN (s \o <<d>>) = DOMAIN s \cup {Len(s) + 1} /\ Len(s) + 1 \notin DOMAIN s
         /\ \A i \in DOMAIN s : (s \o <<d>>)[i] = s[i]
         /\ (s \o <<d>>)[Len(s) + 1] = d
  OBVIOUS

\* A worker about to look for its next clause, and one that has not saved.
LEMMA AtTheLoop ==
  ASSUME NEW o \in Obligations, worker'[o].pc = "loop", saved'[o] = <<>>,
         candidates'[o] >= 1, worker'[o].clause >= 1,
         worker'[o].clause <= candidates'[o] + 1,
         ~budget'.exhausted =>
           Len(worker'[o].drafts) + worker'[o].failed = worker'[o].clause - 1
  PROVE  Progress(o)'
BY DEF Progress, Accounted

LEMMA NothingSavedYet ==
  ASSUME NEW o \in Obligations, Progress(o), worker[o].pc \in {"loop", "judge"}
  PROVE  saved[o] = <<>>
BY DEF Progress

\* Retrieval, its failure, and the loop over the candidates.
LEMMA LoopWork ==
  ASSUME TypeOK, NEW o \in Obligations, Work(o),
         RetrievalFails(o) \/ Retrieve(o) \/ NextClause(o) \/ LeaveLoop(o)
  PROVE  Work(o)'
<1> USE DEF Work
<1>0. worker \in [Obligations -> WorkerRecord] /\ worker[o] \in WorkerRecord
  BY DEF TypeOK, WorkerRecord
<1>1. CASE RetrievalFails(o)
  <2>1. worker'[o] = [worker[o] EXCEPT !.pc = "done", !.failed = 1]
    BY <1>0, <1>1 DEF RetrievalFails, WorkerRecord
  <2>2. worker'[o].pc = "done" /\ worker'[o].failed = 1 /\ worker'[o].drafts = <<>>
    BY <1>0, <1>1, <2>1 DEF RetrievalFails, WorkerRecord, Progress
  <2>3. saved'[o] = <<>> /\ candidates'[o] = 0
    BY <1>1 DEF RetrievalFails, Progress
  <2> QED
    BY <2>2, <2>3 DEF Progress, DraftsAreHonest, AtLeastOne
<1>2. CASE Retrieve(o)
  <2>1. PICK n \in 0..MaxClauses :
          /\ candidates' = [candidates EXCEPT ![o] = n]
          /\ worker' = IF n = 0
               THEN [worker EXCEPT ![o].pc = "persist", ![o].drafts = <<NoCandidate>>]
               ELSE [worker EXCEPT ![o].pc = "loop", ![o].clause = 1]
    BY <1>2 DEF Retrieve
  <2>2. /\ candidates'[o] = n /\ saved'[o] = <<>> /\ UNCHANGED <<budget, checked>>
        /\ worker[o].drafts = <<>> /\ worker[o].failed = 0 /\ worker[o].clause = 0
        /\ worker[o].pc = "retrieve" /\ n \in Nat
    BY <1>2, <2>1, GraphAssumption DEF Retrieve, TypeOK, Progress, GraphAssumption
  <2>3. CASE n = 0
    <3>1. /\ worker'[o].pc = "persist" /\ worker'[o].drafts = <<NoCandidate>>
          /\ worker'[o].failed = 0
      BY <1>0, <2>1, <2>2, <2>3 DEF WorkerRecord
    <3> QED
      BY <2>2, <2>3, <3>1 DEF Progress, DraftsAreHonest, Accounted, AtLeastOne, NoCandidate
  <2>4. CASE n # 0
    <3>1. /\ worker'[o].pc = "loop" /\ worker'[o].drafts = <<>>
          /\ worker'[o].failed = 0 /\ worker'[o].clause = 1
      BY <1>0, <2>1, <2>2, <2>4 DEF WorkerRecord
    <3>2. \A k \in Clauses : checked'[o][k] = 0
      BY <2>2 DEF DraftsAreHonest
    <3> QED
      BY <2>2, <2>4, <3>1, <3>2 DEF Progress, DraftsAreHonest, Accounted
  <2> QED
    BY <2>3, <2>4
<1>3. CASE NextClause(o)
  <2>1. /\ worker[o].pc = "loop" /\ worker[o].clause <= candidates[o]
        /\ UNCHANGED <<candidates, budget, saved, checked>>
    BY <1>3 DEF NextClause
  <2>2. /\ worker'[o].pc = "judge" /\ worker'[o].attempts = 1 /\ ~worker'[o].last
        /\ worker'[o].clause = worker[o].clause /\ worker'[o].drafts = worker[o].drafts
        /\ worker'[o].failed = worker[o].failed
    BY <1>0, <1>3 DEF NextClause, WorkerRecord
  <2>3. worker[o].clause \in Clauses
    BY <1>0, <2>1, GraphAssumption DEF Progress, TypeOK, GraphAssumption, WorkerRecord
  <2>4. Progress(o)'
    BY <2>1, <2>2 DEF Progress, Accounted
  <2>5. DraftsAreHonest(o)'
    BY <1>0, <2>1, <2>2, <2>3 DEF DraftsAreHonest, WorkerRecord
  <2> QED
    BY <2>4, <2>5
<1>4. CASE LeaveLoop(o)
  <2>1. /\ worker[o].pc = "loop"
        /\ worker[o].clause > candidates[o] \/ budget.exhausted
        /\ UNCHANGED <<candidates, budget, saved, checked>>
    BY <1>4 DEF LeaveLoop
  <2>2. /\ worker'[o].pc = IF worker[o].drafts # <<>> THEN "persist" ELSE "done"
        /\ worker'[o].drafts = worker[o].drafts /\ worker'[o].failed = worker[o].failed
    BY <1>0, <1>4 DEF LeaveLoop, WorkerRecord
  <2>3. ~budget.exhausted => Accounted(o) = AtLeastOne(candidates[o])
    BY <1>0, <2>1 DEF Progress, TypeOK, AtLeastOne, WorkerRecord
  <2>4. saved[o] = <<>> /\ saved' = saved
    BY <2>1, NothingSavedYet
  <2>5. worker[o].drafts = <<>> => Len(saved[o]) + worker[o].failed = Accounted(o)
    BY <2>4 DEF Accounted
  <2>6. Progress(o)'
    BY <2>1, <2>2, <2>3, <2>4, <2>5 DEF Progress, Accounted
  <2>7. DraftsAreHonest(o)'
    BY <2>1, <2>2 DEF DraftsAreHonest
  <2> QED
    BY <2>6, <2>7
<1> QED
  BY <1>1, <1>2, <1>3, <1>4

\* A clause is judged again.
LEMMA AgainWork ==
  ASSUME TypeOK, NEW o \in Obligations, Work(o), JudgeAgain(o)
  PROVE  Work(o)'
<1> USE DEF Work
<1>0. worker \in [Obligations -> WorkerRecord] /\ worker[o] \in WorkerRecord
  BY DEF TypeOK, WorkerRecord
<1>1. worker[o].pc = "judge" /\ UNCHANGED <<candidates, budget, saved>> /\ Check(o)
  BY DEF JudgeAgain, Awaits
<1>2. /\ worker'[o].pc = "judge" /\ worker'[o].attempts = worker[o].attempts + 1
      /\ worker'[o].last /\ worker'[o].clause = worker[o].clause
      /\ worker'[o].drafts = worker[o].drafts /\ worker'[o].failed = worker[o].failed
  BY <1>0, <1>1 DEF JudgeAgain, WorkerRecord
<1>3. /\ worker[o].clause \in Clauses
      /\ checked'[o][worker[o].clause] = checked[o][worker[o].clause] + 1
      /\ \A k \in Clauses : k # worker[o].clause => checked'[o][k] = checked[o][k]
  BY <1>1, CheckEffect
<1>4. Progress(o)'
  BY <1>0, <1>1, <1>2 DEF Progress, Accounted, WorkerRecord
<1>5. \A i \in DOMAIN worker[o].drafts :
        LET d == worker[o].drafts[i] IN
        d.clause # worker[o].clause /\ (d.clause # 0 => d.clause \in Clauses)
  <2>1. ASSUME NEW i \in DOMAIN worker[o].drafts
        PROVE  /\ worker[o].drafts[i] \in Finding
               /\ worker[o].drafts[i].clause < worker[o].clause
    BY <1>0, <1>1 DEF WorkerRecord, DraftsAreHonest
  <2> QED
    BY <1>3, <2>1, GraphAssumption DEF Finding, NoCandidate, GraphAssumption
<1>6. DraftsAreHonest(o)'
  <2>1. saved'[o] = <<>> \/ saved'[o] = worker'[o].drafts
    BY <1>1, <1>2 DEF DraftsAreHonest
  <2>2. ASSUME NEW i \in DOMAIN worker'[o].drafts
        PROVE  LET d == worker'[o].drafts[i] IN
               /\ d.clause <= candidates'[o] /\ d.clause < worker'[o].clause
               /\ d.clause # 0 => d.attempts = checked'[o][d.clause] /\ d.attempts > 0
    BY <1>1, <1>2, <1>3, <1>5 DEF DraftsAreHonest
  <2>3. \A i, j \in DOMAIN worker'[o].drafts :
          worker'[o].drafts[i].clause = worker'[o].drafts[j].clause => i = j
    BY <1>2 DEF DraftsAreHonest
  <2>4. /\ checked'[o][worker'[o].clause] = worker'[o].attempts - 1
        /\ \A k \in Clauses : k > worker'[o].clause => checked'[o][k] = 0
    <3>1. worker[o].attempts \in Nat
      BY <1>0 DEF WorkerRecord
    <3>2. /\ checked[o][worker[o].clause] = worker[o].attempts - 1
          /\ \A k \in Clauses : k > worker[o].clause => checked[o][k] = 0
      BY <1>1 DEF DraftsAreHonest
    <3>3. checked'[o][worker'[o].clause] = worker'[o].attempts - 1
      BY <1>2, <1>3, <3>1, <3>2
    <3>4. \A k \in Clauses : k > worker'[o].clause => checked'[o][k] = 0
      <4> SUFFICES ASSUME NEW k \in Clauses, k > worker[o].clause
                   PROVE  checked'[o][k] = 0
        BY <1>2
      <4>1. k # worker[o].clause
        BY <1>3 DEF Clauses
      <4> QED
        BY <1>3, <3>2, <4>1
    <3> QED
      BY <3>3, <3>4
  <2> QED
    BY <1>2, <2>1, <2>2, <2>3, <2>4 DEF DraftsAreHonest
<1> QED
  BY <1>4, <1>6

\* A clause is done with: its judgement is a draft, a counted failure, or was
\* refused by the budget.
LEMMA ReturnWork ==
  ASSUME TypeOK, RefusalHasReason, NEW o \in Obligations, Work(o),
         QuotesLocated(o) \/ GiveUp(o) \/ JudgeFails(o) \/ JudgeRefused(o)
  PROVE  Work(o)'
<1> USE DEF Work
<1>0. worker \in [Obligations -> WorkerRecord] /\ worker[o] \in WorkerRecord
  BY DEF TypeOK, WorkerRecord
<1>1. worker[o].pc = "judge" /\ UNCHANGED <<candidates, budget, saved>>
  BY DEF QuotesLocated, GiveUp, JudgeFails, JudgeRefused, Awaits
<1>2. /\ worker[o].clause \in Clauses /\ worker[o].clause \in Nat \ {0}
      /\ worker[o].clause <= candidates[o] /\ candidates[o] \in Nat /\ candidates[o] >= 1
      /\ worker[o].attempts \in Nat \ {0} /\ worker[o].failed \in Nat
      /\ worker[o].last => worker[o].attempts >= 2
      /\ worker[o].drafts \in Seq(Finding) /\ saved[o] = <<>>
      /\ ~budget.exhausted => Accounted(o) = worker[o].clause - 1
      /\ checked[o][worker[o].clause] = worker[o].attempts - 1
  <2>1. /\ worker[o].clause \in Nat /\ worker[o].attempts \in Nat /\ worker[o].failed \in Nat
        /\ worker[o].drafts \in Seq(Finding)
        /\ candidates[o] \in Nat /\ candidates[o] <= MaxClauses /\ MaxClauses \in Nat
    BY <1>0, GraphAssumption DEF GraphAssumption, TypeOK, WorkerRecord
  <2>2. /\ worker[o].clause >= 1 /\ worker[o].clause <= candidates[o] /\ candidates[o] >= 1
        /\ worker[o].attempts >= 1 /\ (worker[o].last => worker[o].attempts >= 2)
        /\ saved[o] = <<>>
        /\ ~budget.exhausted => Accounted(o) = worker[o].clause - 1
    BY <1>1 DEF Progress
  <2>3. checked[o][worker[o].clause] = worker[o].attempts - 1
    BY <1>1 DEF DraftsAreHonest
  <2> QED
    BY <2>1, <2>2, <2>3
<1>3. \A i \in DOMAIN worker[o].drafts :
        LET d == worker[o].drafts[i] IN
        /\ d.clause <= candidates[o] /\ d.clause < worker[o].clause
        /\ d.clause # 0 => /\ d.clause \in Clauses
                           /\ d.attempts = checked[o][d.clause] /\ d.attempts > 0
  <2>1. \A i \in DOMAIN worker[o].drafts : worker[o].drafts[i] \in Finding
    BY <1>2
  <2>2. \A f \in Finding : f.clause # 0 => f.clause \in Clauses
    BY DEF Finding, NoCandidate
  <2> QED
    BY <1>1, <2>1, <2>2 DEF DraftsAreHonest
<1>4. ASSUME NEW drafts, NEW failed, Return(o, drafts, failed)
      PROVE  /\ worker'[o].pc = "loop" /\ worker'[o].clause = worker[o].clause + 1
             /\ worker'[o].drafts = worker[o].drafts \o drafts
             /\ worker'[o].failed = worker[o].failed + failed
  <2>1. worker'[o] = [pc |-> "loop", clause |-> worker[o].clause + 1,
                      attempts |-> worker[o].attempts, last |-> worker[o].last,
                      drafts |-> worker[o].drafts \o drafts,
                      failed |-> worker[o].failed + failed]
    BY <1>0, <1>4, ReturnEffect
  <2> QED
    BY <2>1
\* No draft is added.
<1>5. ASSUME NEW failed \in {0, 1}, Return(o, <<>>, failed), UNCHANGED checked,
             failed = 0 => budget.exhausted
      PROVE  Work(o)'
  <2>1. worker[o].drafts \o <<>> = worker[o].drafts
    BY <1>2, ConcatEmptySeq
  <2>2. /\ worker'[o].pc = "loop" /\ worker'[o].clause = worker[o].clause + 1
        /\ worker'[o].drafts = worker[o].drafts
        /\ worker'[o].failed = worker[o].failed + failed
    BY <1>4, <1>5, <2>1
  <2>3. Len(worker[o].drafts) \in Nat
    BY <1>2
  <2>4. Progress(o)'
    <3>1. ~budget'.exhausted =>
            Len(worker'[o].drafts) + worker'[o].failed = worker'[o].clause - 1
      <4>1. budget' = budget /\ Len(worker'[o].drafts) = Len(worker[o].drafts)
        BY <1>1, <2>2
      <4>2. ~budget.exhausted =>
              failed = 1 /\ Len(worker[o].drafts) + worker[o].failed = worker[o].clause - 1
        BY <1>2, <1>5 DEF Accounted
      <4>3. /\ worker[o].clause \in Nat /\ worker[o].failed \in Nat
            /\ Len(worker[o].drafts) \in Nat /\ failed \in Nat
            /\ worker'[o].clause = worker[o].clause + 1
            /\ worker'[o].failed = worker[o].failed + failed
        BY <1>2, <1>5, <2>2, <2>3
      <4>4. ASSUME ~budget.exhausted
            PROVE  Len(worker'[o].drafts) + worker'[o].failed = worker'[o].clause - 1
        <5>1. failed = 1 /\ Len(worker[o].drafts) + worker[o].failed = worker[o].clause - 1
          BY <4>2, <4>4
        <5>2. \A n, f, k \in Nat : n + f = k - 1 => n + (f + 1) = (k + 1) - 1
          OBVIOUS
        <5>3. Len(worker[o].drafts) + (worker[o].failed + 1) = (worker[o].clause + 1) - 1
          BY <4>3, <5>1, <5>2
        <5> QED
          BY <4>1, <4>3, <5>1, <5>3
      <4> QED
        BY <4>1, <4>4
    <3>2. /\ saved'[o] = <<>> /\ candidates'[o] >= 1 /\ worker'[o].clause >= 1
          /\ worker'[o].clause <= candidates'[o] + 1
      BY <1>1, <1>2, <2>2
    <3> QED
      BY <2>2, <3>1, <3>2, AtTheLoop
  <2>5. \A k \in Clauses : k >= worker'[o].clause => checked'[o][k] = 0
    BY <1>1, <1>2, <1>5, <2>2 DEF DraftsAreHonest
  <2>6. DraftsAreHonest(o)'
    BY <1>1, <1>2, <1>3, <1>5, <2>2, <2>5 DEF DraftsAreHonest
  <2> QED
    BY <2>4, <2>6
\* One is, of the clause at hand.
<1>6. ASSUME NEW quotes, NEW attempts \in Nat \ {0},
             Return(o, Draft(o, quotes, attempts), 0),
             checked'[o][worker[o].clause] = attempts,
             \A k \in Clauses : k # worker[o].clause => checked'[o][k] = checked[o][k]
      PROVE  Work(o)'
  <2> DEFINE old == worker[o].drafts
             d == [clause |-> worker[o].clause, quotes |-> quotes, attempts |-> attempts]
             new == old \o <<d>>
  <2>1. /\ worker'[o].pc = "loop" /\ worker'[o].clause = worker[o].clause + 1
        /\ worker'[o].drafts = new /\ worker'[o].failed = worker[o].failed
    <3>1. Draft(o, quotes, attempts) = <<d>>
      BY DEF Draft
    <3>2. /\ worker'[o].pc = "loop" /\ worker'[o].clause = worker[o].clause + 1
          /\ worker'[o].drafts = old \o Draft(o, quotes, attempts)
          /\ worker'[o].failed = worker[o].failed + 0
      BY <1>4, <1>6
    <3> QED
      BY <1>2, <3>1, <3>2
  <2>2. d.clause = worker[o].clause /\ d.attempts = attempts
    OBVIOUS
  <2> HIDE DEF d
  <2>3. /\ Len(new) = Len(old) + 1 /\ Len(old) \in Nat
        /\ DOMAIN new = DOMAIN old \cup {Len(old) + 1} /\ Len(old) + 1 \notin DOMAIN old
        /\ \A i \in DOMAIN old : new[i] = old[i]
        /\ new[Len(old) + 1] = d
    BY <1>2, OneMoreDraft
  <2> HIDE DEF new
  <2>4. Progress(o)'
    <3>1. ~budget'.exhausted =>
            Len(worker'[o].drafts) + worker'[o].failed = worker'[o].clause - 1
      <4>1. budget' = budget /\ Len(worker'[o].drafts) = Len(old) + 1
        BY <1>1, <2>1, <2>3
      <4>2. ~budget.exhausted => Len(old) + worker[o].failed = worker[o].clause - 1
        BY <1>2 DEF Accounted
      <4>3. /\ worker[o].clause \in Nat /\ worker[o].failed \in Nat /\ Len(old) \in Nat
            /\ worker'[o].clause = worker[o].clause + 1 /\ worker'[o].failed = worker[o].failed
        BY <1>2, <2>1, <2>3
      <4> HIDE DEF old
      <4>4. ASSUME ~budget.exhausted
            PROVE  Len(worker'[o].drafts) + worker'[o].failed = worker'[o].clause - 1
        <5>1. Len(old) + worker[o].failed = worker[o].clause - 1
          BY <4>2, <4>4
        <5>2. Len(old) + 1 + worker[o].failed = worker[o].clause + 1 - 1
          BY <4>3, <5>1
        <5> QED
          BY <4>1, <4>3, <5>2
      <4> QED
        BY <4>1, <4>4
    <3>2. /\ saved'[o] = <<>> /\ candidates'[o] >= 1 /\ worker'[o].clause >= 1
          /\ worker'[o].clause <= candidates'[o] + 1
      BY <1>1, <1>2, <2>1
    <3> QED
      BY <2>1, <3>1, <3>2, AtTheLoop
  <2>5. \A k \in Clauses : k >= worker'[o].clause => checked'[o][k] = 0
    BY <1>1, <1>2, <1>6, <2>1 DEF DraftsAreHonest
  <2>6. \A i \in DOMAIN new :
          /\ new[i].clause <= candidates[o] /\ new[i].clause < worker[o].clause + 1
          /\ new[i].clause # 0 =>
               new[i].attempts = checked'[o][new[i].clause] /\ new[i].attempts > 0
    <3>1. ASSUME NEW i \in DOMAIN old
          PROVE  /\ new[i].clause <= candidates[o] /\ new[i].clause < worker[o].clause + 1
                 /\ new[i].clause # 0 =>
                      new[i].attempts = checked'[o][new[i].clause] /\ new[i].attempts > 0
      <4>1. /\ old[i].clause < worker[o].clause /\ old[i].clause <= candidates[o]
            /\ old[i].clause \in Nat
        <5>1. old[i] \in Finding
          BY <1>2
        <5> QED
          BY <1>3, <5>1 DEF Finding, NoCandidate
      <4>2. old[i].clause < worker[o].clause + 1
        BY <1>2, <4>1
      <4>3. old[i].clause # 0 =>
              old[i].attempts = checked'[o][old[i].clause] /\ old[i].attempts > 0
        <5>1. old[i].clause # 0 =>
                old[i].attempts = checked[o][old[i].clause] /\ old[i].attempts > 0
          BY <1>3
        <5>2. old[i].clause # 0 => old[i].clause \in Clauses /\ old[i].clause # worker[o].clause
          BY <1>2, <1>3, <4>1
        <5>3. old[i].clause # 0 => checked'[o][old[i].clause] = checked[o][old[i].clause]
          BY <1>6, <5>2
        <5> QED
          BY <5>1, <5>3
      <4> QED
        BY <2>3, <4>1, <4>2, <4>3
    <3>2. ASSUME NEW i \in {Len(old) + 1}
          PROVE  /\ new[i].clause <= candidates[o] /\ new[i].clause < worker[o].clause + 1
                 /\ new[i].clause # 0 =>
                      new[i].attempts = checked'[o][new[i].clause] /\ new[i].attempts > 0
      BY <1>2, <1>6, <2>2, <2>3
    <3> QED
      BY <2>3, <3>1, <3>2
  <2>7. \A i, j \in DOMAIN new : new[i].clause = new[j].clause => i = j
    <3>1. \A i, j \in DOMAIN old : old[i].clause = old[j].clause => i = j
      BY DEF DraftsAreHonest
    <3>2. \A i \in DOMAIN old : old[i].clause # d.clause
      BY <1>2, <1>3, <2>2
    <3> QED
      BY <2>3, <3>1, <3>2
  <2>8. DraftsAreHonest(o)'
    BY <1>1, <1>2, <2>1, <2>5, <2>6, <2>7 DEF DraftsAreHonest
  <2> QED
    BY <2>4, <2>8
<1>7. CASE QuotesLocated(o) \/ GiveUp(o)
  <2>1. /\ checked'[o][worker[o].clause] = worker[o].attempts
        /\ \A k \in Clauses : k # worker[o].clause => checked'[o][k] = checked[o][k]
    <3>1. Check(o)
      BY <1>7 DEF QuotesLocated, GiveUp
    <3>2. /\ checked'[o][worker[o].clause] = checked[o][worker[o].clause] + 1
          /\ \A k \in Clauses : k # worker[o].clause => checked'[o][k] = checked[o][k]
      BY <1>1, <3>1, CheckEffect
    <3> QED
      BY <1>2, <3>2
  <2>2. \E quotes : Return(o, Draft(o, quotes, worker[o].attempts), 0)
    BY <1>7 DEF QuotesLocated, GiveUp
  <2> QED
    BY <1>2, <1>6, <2>1, <2>2
<1>8. CASE JudgeFails(o)
  BY <1>5, <1>8 DEF JudgeFails
<1>9. CASE JudgeRefused(o)
  <2>1. budget.exhausted
    BY <1>9 DEF JudgeRefused, Awaits, RefusalHasReason
  <2>2. CASE worker[o].last
    <3>1. worker[o].attempts - 1 \in Nat \ {0}
      BY <1>2, <2>2
    <3>2. Return(o, Draft(o, "FAILED", worker[o].attempts - 1), 0) /\ UNCHANGED checked
      BY <1>9, <2>2 DEF JudgeRefused
    <3> QED
      BY <1>2, <1>6, <3>1, <3>2
  <2>3. CASE ~worker[o].last
    BY <1>5, <1>9, <2>1, <2>3 DEF JudgeRefused
  <2> QED
    BY <2>2, <2>3
<1> QED
  BY <1>7, <1>8, <1>9

\* Drafts are saved, or a worker is stopped, where it stands or while it saves them.
LEMMA SaveWork ==
  ASSUME TypeOK, NEW o \in Obligations, Work(o),
         Persist(o) \/ WorkerRaises(o) \/ StopWorker(o)
  PROVE  Work(o)'
<1> USE DEF Work
<1>0. worker \in [Obligations -> WorkerRecord] /\ worker[o] \in WorkerRecord
  BY DEF TypeOK, WorkerRecord
<1>1. /\ worker'[o].pc \in {"done", "stopped"} /\ UNCHANGED <<candidates, budget, checked>>
      /\ worker'[o].drafts = worker[o].drafts /\ worker'[o].failed = worker[o].failed
  BY <1>0 DEF Persist, WorkerRaises, StopWorker, WorkerRecord
<1>2. /\ \/ saved'[o] = saved[o]
         \/ worker[o].pc = "persist" /\ saved'[o] = saved[o] \o worker[o].drafts
      /\ worker'[o].pc = "done" =>
           worker[o].pc = "persist" /\ saved'[o] = saved[o] \o worker[o].drafts
  <2>1. CASE Persist(o)
    BY <2>1 DEF Persist, TypeOK
  <2>2. CASE WorkerRaises(o) \/ StopWorker(o)
    <3>1. MaySave(o) /\ worker' = [worker EXCEPT ![o].pc = "stopped"]
      BY <2>2 DEF WorkerRaises, StopWorker
    <3>2. worker'[o].pc = "stopped"
      BY <1>0, <3>1 DEF WorkerRecord
    <3> QED
      BY <3>1, <3>2 DEF MaySave, TypeOK
  <2> QED
    BY <2>1, <2>2
<1>3. worker[o].pc = "persist" => saved[o] = <<>> /\ saved[o] \o worker[o].drafts = worker[o].drafts
  BY <1>0, ConcatEmptySeq DEF Progress, WorkerRecord
<1>4. worker'[o].pc = "done" => saved'[o] = worker[o].drafts
  BY <1>2, <1>3
<1>5. saved'[o] = <<>> \/ saved'[o] = worker[o].drafts
  BY <1>2, <1>3 DEF DraftsAreHonest
<1>6. Progress(o)'
  BY <1>1, <1>2, <1>4 DEF Progress, Accounted
<1>7. DraftsAreHonest(o)'
  BY <1>1, <1>5 DEF DraftsAreHonest
<1> QED
  BY <1>6, <1>7

\* A worker of the plan has yet to retrieve.
LEMMA PlanWork ==
  ASSUME TypeOK, StageIsTrue, NEW o \in Obligations, Work(o), Plan
  PROVE  Work(o)'
<1>0. worker[o] \in WorkerRecord /\ worker[o].pc = "idle"
  BY DEF TypeOK, WorkerRecord, StageIsTrue, Plan
<1>1. /\ worker'[o] = worker[o] \/ worker'[o] = [worker[o] EXCEPT !.pc = "retrieve"]
      /\ UNCHANGED <<candidates, budget, saved, checked>>
  BY DEF Plan
<1>2. CASE worker'[o] = worker[o]
  BY <1>1, <1>2, WorkStays
<1>3. CASE worker'[o] = [worker[o] EXCEPT !.pc = "retrieve"]
  <2>1. /\ worker'[o].pc = "retrieve" /\ worker'[o].drafts = worker[o].drafts
        /\ worker'[o].failed = worker[o].failed /\ worker'[o].clause = worker[o].clause
    BY <1>0, <1>3 DEF WorkerRecord
  <2> QED
    BY <1>0, <1>1, <2>1 DEF Work, Progress, DraftsAreHonest
<1> QED
  BY <1>1, <1>2, <1>3

\* A coroutine's step leaves the others' work alone.
LEMMA OthersWork ==
  ASSUME TypeOK, NEW o \in Obligations, Coroutine(o) \/ StopWorker(o),
         NEW p \in Obligations, p # o
  PROVE  /\ worker'[p] = worker[p] /\ candidates'[p] = candidates[p]
         /\ saved'[p] = saved[p] /\ checked'[p] = checked[p]
<1>1. worker'[p] = worker[p]
  BY CoroutineEffect, StopWorkerEffect
<1>2. candidates'[p] = candidates[p] /\ saved'[p] = saved[p]
  BY DEF TypeOK, Coroutine, StopWorker, RetrievalFails, Retrieve, NextClause, LeaveLoop,
         QuotesLocated, JudgeAgain, GiveUp, JudgeFails, JudgeRefused, Persist, WorkerRaises,
         MaySave
<1>3. checked'[p] = checked[p]
  BY DEF TypeOK, Coroutine, StopWorker, RetrievalFails, Retrieve, NextClause, LeaveLoop,
         QuotesLocated, JudgeAgain, GiveUp, JudgeFails, JudgeRefused, Persist, WorkerRaises,
         Check
<1> QED
  BY <1>1, <1>2, <1>3

LEMMA WorkStep ==
  ASSUME TypeOK, StageIsTrue, RefusalHasReason, WorkIsTrue, Next
  PROVE  WorkIsTrue'
<1> SUFFICES ASSUME NEW p \in Obligations PROVE Work(p)'
  BY DEF WorkIsTrue, Work
<1>1. \A o \in Obligations : Work(o)
  BY DEF WorkIsTrue, Work
<1>2. budget.exhausted => budget'.exhausted
  BY BudgetGrows
<1>3. CASE Plan
  BY <1>1, <1>3, PlanWork
<1>4. ASSUME NEW o \in Obligations, Coroutine(o) \/ StopWorker(o) PROVE Work(p)'
  <2>1. CASE p = o
    BY <1>1, <1>4, <2>1, LoopWork, AgainWork, ReturnWork, SaveWork DEF Coroutine
  <2>2. CASE p # o
    BY <1>1, <1>2, <1>4, <2>2, OthersWork, WorkStays
  <2> QED
    BY <2>1, <2>2
<1>5. CASE \/ GraphStep \/ MemoReplies \/ \E o \in Obligations : JudgeThread(o)
           \/ \E c \in Callers : GatewayFails(c)
  <2>1. UNCHANGED <<worker, candidates, saved, checked>>
    BY <1>5, GraphStepEffect, ThreadEffect, GatewayEffect DEF MemoReplies
  <2> QED
    BY <1>1, <1>2, <2>1, WorkStays
<1> QED
  BY <1>3, <1>4, <1>5, NextCases

-----------------------------------------------------------------------------
(* The theorems.                                                            *)

LEMMA InitIInv == Init => IInv
<1> SUFFICES ASSUME Init PROVE IInv
  OBVIOUS
<1>1. TypeOK
  <2>1. <<>> \in Seq(Finding)
    OBVIOUS
  <2>2. [pc |-> "idle", clause |-> 0, attempts |-> 0, last |-> FALSE,
         drafts |-> <<>>, failed |-> 0] \in WorkerRecord
    BY <2>1 DEF WorkerRecord, WorkerStates
  <2>3. worker \in [Obligations -> WorkerRecord]
    BY <2>2 DEF Init
  <2>4. saved \in [Obligations -> Seq(Finding)]
    BY <2>1 DEF Init
  <2>5. /\ candidates \in [Obligations -> 0..MaxClauses]
        /\ thread \in [Callers -> ThreadStates]
        /\ checked \in [Obligations -> [Clauses -> Nat]]
        /\ budget \in [calls : Nat, tokens : Nat, exhausted : BOOLEAN]
    BY GraphAssumption DEF GraphAssumption, Init, ThreadStates
  <2> QED
    BY <2>3, <2>4, <2>5 DEF Init, TypeOK, WorkerRecord
<1>2. StageIsTrue /\ ThreadsAreOwned
  BY GraphAssumption DEF GraphAssumption, Init, StageIsTrue, ThreadsAreOwned, NoRecord
<1>3. CallsWithinBudget /\ RefusalHasReason /\ RecordIsTrue
  BY GraphAssumption
  DEF GraphAssumption, Init, CallsWithinBudget, RefusalHasReason, RecordIsTrue, NoRecord
<1>4. WorkIsTrue
  BY DEF Init, WorkIsTrue, Progress, DraftsAreHonest
<1>5. OwedIsCovered
  <2>1. Owed = {}
    BY DEF Init, Owed, InFlight
  <2>2. Cardinality(Owed) = 0
    BY <2>1, FS_EmptySet
  <2>3. Cardinality(Owed) * Cost = 0
    BY <2>2, CostType
  <2>4. Cardinality(Obligations) * Cost \in Nat
    BY CostType, OwedIsFinite, Products
  <2> HIDE DEF Owed, Cost
  <2> QED
    BY <2>3, <2>4, GraphAssumption DEF GraphAssumption, Init, OwedIsCovered
<1> QED
  BY <1>1, <1>2, <1>3, <1>4, <1>5 DEF IInv

LEMMA StepIInv == IInv /\ [Next]_vars => IInv'
<1>1. IInv /\ Next => IInv'
  BY TypeStep, StageStep, ThreadsStep, BudgetGrows, RefusalStep, RecordStep, WorkStep,
     OwedStep DEF IInv
<1>2. IInv /\ UNCHANGED vars => IInv'
  BY DEF IInv, TypeOK, StageIsTrue, ThreadsAreOwned, CallsWithinBudget, RefusalHasReason,
         RecordIsTrue, WorkIsTrue, OwedIsCovered, Ended, Spent, Progress, DraftsAreHonest,
         Accounted, Owed, InFlight
<1> QED
  BY <1>1, <1>2

\* The inductive invariant holds in every reachable state.
THEOREM Invariance == Spec => []IInv
  BY InitIInv, StepIInv, PTL DEF Spec

\* The stages, coroutines, threads, budget and findings are all the graph can come to,
\* and no worker has more candidates than it asked for.
THEOREM TypeCorrect == Spec => []TypeOK
  BY Invariance, PTL DEF IInv

\* For any number of workers: no more calls than the budget has, and tokens over it by
\* at most one response for each worker, calls in flight included (CallBudget).
THEOREM LimitsAlwaysHold == Spec => []LimitsHold
<1>1. IInv => LimitsHold
  <2> SUFFICES ASSUME IInv PROVE TokensBounded
    BY DEF IInv, LimitsHold
  <2>1. Cardinality(InFlight) \in Nat /\ Cardinality(InFlight) <= Cardinality(Owed)
    BY OwedIsFinite, FS_Subset, FS_CardinalityType DEF Owed
  <2>2. /\ Cardinality(InFlight) * Cost <= Cardinality(Owed) * Cost
        /\ Cardinality(InFlight) * Cost \in Nat /\ Cardinality(Owed) * Cost \in Nat
        /\ Cardinality(Obligations) * Cost \in Nat
    BY <2>1, OwedIsFinite, CostType, Products
  <2>3. budget.tokens \in Nat /\ MaxTokens \in Nat
    BY GraphAssumption DEF GraphAssumption, IInv, TypeOK
  <2>4. budget.tokens + Cardinality(Owed) * Cost
          <= MaxTokens - 1 + Cardinality(Obligations) * Cost
    BY DEF IInv, OwedIsCovered
  <2> HIDE DEF Owed, InFlight, Cost
  <2>5. budget.tokens + Cardinality(InFlight) * Cost
          <= MaxTokens - 1 + Cardinality(Obligations) * Cost
    BY <2>2, <2>3, <2>4
  <2> QED
    BY <2>5 DEF TokensBounded, Cost
<1> QED
  BY <1>1, Invariance, PTL

\* The stored outcome and usage are those of the run: COMPLETED has skipped nothing,
\* CAPPED has a reason, and the usage of a run that was not stopped is final.
THEOREM OutcomesAreTrue == Spec => []OutcomeIsTrue
<1>1. IInv => OutcomeIsTrue
  <2> SUFFICES ASSUME IInv PROVE OutcomeIsTrue
    OBVIOUS
  <2> USE DEF IInv
  <2>1. CompletedIsComplete
    <3> SUFFICES ASSUME record.status = "COMPLETED", NEW o \in planned
                 PROVE  Len(saved[o]) + worker[o].failed = AtLeastOne(candidates[o])
      BY DEF CompletedIsComplete, RecordIsTrue
    <3>1. record # NoRecord /\ stop = "none" /\ ~budget.exhausted /\ o \in Obligations
      BY DEF RecordIsTrue, NoRecord, TypeOK
    <3>2. worker[o].pc = "done"
      BY <3>1 DEF StageIsTrue, Ended
    <3> QED
      BY <3>1, <3>2 DEF WorkIsTrue, Progress
  <2>2. CappedForAReason
    BY DEF CappedForAReason, RecordIsTrue, Spent
  <2>3. UsageIsFinal
    BY StoredIsQuiet DEF UsageIsFinal, RecordIsTrue, StageIsTrue
  <2> QED
    BY <2>1, <2>2, <2>3 DEF OutcomeIsTrue
<1> QED
  BY <1>1, Invariance, PTL

\* What is stored was judged: one finding at most for a clause, with the attempts made.
THEOREM FindingsAlwaysHonest == Spec => []FindingsAreHonest
<1>1. IInv => FindingsAreHonest
  BY DEF IInv, WorkIsTrue, DraftsAreHonest, FindingsAreHonest, FindingPerClause,
         AttemptsAreHonest
<1> QED
  BY <1>1, Invariance, PTL

\* Nothing is added to the findings of a run whose end can be read.
THEOREM FindingsAreSettled == Spec => FindingsSettled
<1>1. IInv /\ [Next]_vars => [record # NoRecord => saved' = saved]_vars
  <2> SUFFICES ASSUME IInv, Next, record # NoRecord PROVE saved' = saved
    OBVIOUS
  <2>1. stage = "stored" /\ \A o \in Obligations : Ended(o)
    BY DEF IInv, StageIsTrue
  <2> QED
    BY <2>1, NextCases, CoroutineEffect, StopWorkerEffect, ThreadEffect, GatewayEffect,
       GraphStepEffect DEF IInv, Plan, MemoReplies
<1> QED
  BY <1>1, Invariance, PTL DEF Spec, FindingsSettled
=============================================================================
