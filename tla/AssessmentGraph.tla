-------------------------- MODULE AssessmentGraph --------------------------
(***************************************************************************)
(* One assessment from the start of the graph to the stored outcome:        *)
(* plan_assessment, one assess_obligation worker per obligation, the judge   *)
(* threads they wait for, synthesize_memo, the call budget all of them       *)
(* share, and the wall clock that may stop them at any point.                *)
(*                                                                          *)
(* Sources: backend/app/ai/graph/nodes.py, build.py, budget.py and           *)
(* services/assessment.py (_execute, _finish). A coroutine can be cancelled, *)
(* the thread it waits for cannot: the two are separate processes here.      *)
(***************************************************************************)
EXTENDS Naturals, Sequences, FiniteSets

CONSTANTS
  Obligations,   \* the obligations a circular may have
  Memo,          \* the memo's caller, next to one caller per obligation
  MaxClauses,    \* _CLAUSES_PER_OBLIGATION: candidate clauses judged per obligation
  MaxRetries,    \* MAX_VERIFICATION_RETRIES
  MaxCalls,      \* MAX_ASSESSMENT_CALLS
  MaxTokens,     \* MAX_ASSESSMENT_TOKENS
  CallTokens     \* tokens one response may cost

ASSUME GraphAssumption ==
  /\ Memo \notin Obligations
  /\ MaxClauses \in Nat /\ MaxRetries \in Nat
  /\ MaxCalls \in Nat \ {0} /\ MaxTokens \in Nat \ {0}
  /\ IsFiniteSet(Obligations)
  /\ CallTokens \subseteq Nat /\ \E m \in CallTokens : \A n \in CallTokens : n <= m

VARIABLES
  stage,        \* where the graph and the service around it stand
  stop,         \* why it was stopped early: "none", "timeout" or "error"
  planned,      \* the obligations plan_assessment found
  worker,       \* worker[o]: the assess_obligation coroutine of o
  candidates,   \* candidates[o]: how many clauses retrieval gave o
  thread,       \* thread[c]: the thread running _judge, or the memo's call
  budget,       \* the CallBudget: calls, tokens, exhausted
  saved,        \* saved[o]: the committed findings of o
  failedTasks,  \* ctx.failed_tasks
  memo, note,   \* the memo in the graph's state, and whether it has a memo_note
  record,       \* the outcome _finish stored
  checked       \* history: checked[o][k], judgements of clause k put to verification

service == <<stage, stop, planned>>
result == <<memo, note>>
vars == <<service, worker, candidates, thread, budget, saved, failedTasks, result,
          record, checked>>

Callers == Obligations \cup {Memo}
Clauses == 1..MaxClauses

NoRecord == [status |-> "none"]
NoCandidate == [clause |-> 0, quotes |-> "NOT_APPLICABLE", attempts |-> 0]
Finding == [clause : Clauses, quotes : {"VERIFIED", "FAILED"}, attempts : Nat]
             \cup {NoCandidate}

Answers == {"located", "unlocated", "nothing", "budget", "fatal", "text", "refused"}
ThreadStates == {"none", "queued", "calling", "repair", "recalling"} \cup Answers
WorkerStates == {"idle", "retrieve", "loop", "judge", "persist", "done", "stopped"}

\* The stages of the graph, what its workers and threads hold, and the shape of a
\* finding and of the stored record; no worker has more than MaxClauses candidates.
TypeOK ==
  /\ stage \in {"plan", "workers", "memo", "over", "unwinding", "finished", "stored"}
  /\ stop \in {"none", "timeout", "error"}
  /\ planned \subseteq Obligations
  /\ worker \in [Obligations -> [pc : WorkerStates, clause : Nat, attempts : Nat,
                                 last : BOOLEAN, drafts : Seq(Finding), failed : Nat]]
  /\ candidates \in [Obligations -> 0..MaxClauses]
  /\ thread \in [Callers -> ThreadStates]
  /\ budget \in [calls : Nat, tokens : Nat, exhausted : BOOLEAN]
  /\ saved \in [Obligations -> Seq(Finding)]
  /\ failedTasks \in Nat
  /\ memo \in {"none", "asking", "written", "empty", "cancelled"}
  /\ note \in BOOLEAN
  /\ record = NoRecord \/
     record \in [status : {"COMPLETED", "CAPPED", "FAILED"}, tokens : Nat,
                 failed : Nat, memo : {"none", "written", "empty"}, note : BOOLEAN]
  /\ checked \in [Obligations -> [Clauses -> Nat]]

Init ==
  /\ stage = "plan"
  /\ stop = "none"
  /\ planned = {}
  /\ worker = [o \in Obligations |->
       [pc |-> "idle", clause |-> 0, attempts |-> 0, last |-> FALSE,
        drafts |-> <<>>, failed |-> 0]]
  /\ candidates = [o \in Obligations |-> 0]
  /\ thread = [c \in Callers |-> "none"]
  /\ budget = [calls |-> 0, tokens |-> 0, exhausted |-> FALSE]
  /\ saved = [o \in Obligations |-> <<>>]
  /\ failedTasks = 0
  /\ memo = "none" /\ note = FALSE
  /\ record = NoRecord
  /\ checked = [o \in Obligations |-> [k \in Clauses |-> 0]]

-----------------------------------------------------------------------------
(* The call budget.                                                         *)

\* Mutant: the token limit is compared with >.
Spent_OneTokenMore == budget.calls >= MaxCalls \/ budget.tokens > MaxTokens

\* A limit has been reached.
Spent == budget.calls >= MaxCalls \/ budget.tokens >= MaxTokens

\* CallBudget.acquire: claim a call, or remember that one was refused.
Claimed == ~budget.exhausted /\ ~Spent
Acquire ==
  budget' = IF Claimed THEN [budget EXCEPT !.calls = @ + 1]
                       ELSE [budget EXCEPT !.exhausted = TRUE]

\* CallBudget.record.
Record(t) == budget' = [budget EXCEPT !.tokens = @ + t]

-----------------------------------------------------------------------------
(* plan_assessment and fan_out.                                             *)

\* The circular's obligations are read; with none the graph is over.
Plan ==
  /\ stage = "plan"
  /\ \E found \in SUBSET Obligations :
       /\ planned' = found
       /\ stage' = IF found = {} THEN "over" ELSE "workers"
       /\ worker' = [o \in Obligations |->
            IF o \in found THEN [worker[o] EXCEPT !.pc = "retrieve"] ELSE worker[o]]
  /\ UNCHANGED <<stop, candidates, thread, budget, saved, failedTasks, result,
                 record, checked>>

\* Anything unexpected in a node (a database failure, say) ends the graph.
PlanRaises ==
  /\ stage = "plan"
  /\ stage' = "unwinding" /\ stop' = "error"
  /\ UNCHANGED <<planned, worker, candidates, thread, budget, saved, failedTasks,
                 result, record, checked>>

-----------------------------------------------------------------------------
(* assess_obligation and judge_and_verify, the coroutine's side.            *)

Go(o, pc) == worker' = [worker EXCEPT ![o].pc = pc]

\* The step's failure is one failed task, not a failed run.
RetrievalFails(o) ==
  /\ stage = "workers" /\ worker[o].pc = "retrieve"
  /\ worker' = [worker EXCEPT ![o].pc = "done", ![o].failed = 1]
  /\ failedTasks' = failedTasks + 1
  /\ UNCHANGED <<service, candidates, thread, budget, saved, result, record, checked>>

\* No clause at or above the threshold is itself a finding.
Retrieve(o) ==
  /\ stage = "workers" /\ worker[o].pc = "retrieve"
  /\ \E n \in 0..MaxClauses :
       /\ candidates' = [candidates EXCEPT ![o] = n]
       /\ worker' = IF n = 0
            THEN [worker EXCEPT ![o].pc = "persist", ![o].drafts = <<NoCandidate>>]
            ELSE [worker EXCEPT ![o].pc = "loop", ![o].clause = 1]
  /\ UNCHANGED <<service, thread, budget, saved, failedTasks, result, record, checked>>

\* The next candidate is handed to a judge thread.
NextClause(o) ==
  /\ stage = "workers" /\ worker[o].pc = "loop"
  /\ worker[o].clause <= candidates[o] /\ ~budget.exhausted
  /\ worker' = [worker EXCEPT ![o].pc = "judge", ![o].attempts = 1, ![o].last = FALSE]
  /\ thread' = [thread EXCEPT ![o] = "queued"]
  /\ UNCHANGED <<service, candidates, budget, saved, failedTasks, result, record,
                 checked>>

\* No candidate is left, or the budget is spent: persist what there is.
LeaveLoop(o) ==
  /\ stage = "workers" /\ worker[o].pc = "loop"
  /\ worker[o].clause > candidates[o] \/ budget.exhausted
  /\ IF worker[o].drafts # <<>>
     THEN Go(o, "persist") /\ UNCHANGED failedTasks
     ELSE Go(o, "done") /\ failedTasks' = failedTasks + worker[o].failed
  /\ UNCHANGED <<service, candidates, thread, budget, saved, result, record, checked>>

\* judge_and_verify returns to the loop over the candidates.
Return(o, drafts, failed) ==
  worker' = [worker EXCEPT ![o].pc = "loop", ![o].clause = @ + 1,
                           ![o].drafts = @ \o drafts, ![o].failed = @ + failed]

Draft(o, quotes, attempts) ==
  <<[clause |-> worker[o].clause, quotes |-> quotes, attempts |-> attempts]>>

Awaits(o, answer) ==
  stage = "workers" /\ worker[o].pc = "judge" /\ thread[o] = answer
Check(o) == checked' = [checked EXCEPT ![o][worker[o].clause] = @ + 1]
Unread == <<service, candidates, budget, saved, failedTasks, result, record>>

\* Both quotes are in their sources: a VERIFIED finding.
QuotesLocated(o) ==
  /\ Awaits(o, "located")
  /\ Return(o, Draft(o, "VERIFIED", worker[o].attempts), 0)
  /\ thread' = [thread EXCEPT ![o] = "none"]
  /\ Check(o)
  /\ UNCHANGED Unread

\* A quote is not: judge again, told which, while retries are left.
JudgeAgain(o) ==
  /\ Awaits(o, "unlocated") /\ worker[o].attempts <= MaxRetries
  /\ worker' = [worker EXCEPT ![o].attempts = @ + 1, ![o].last = TRUE]
  /\ thread' = [thread EXCEPT ![o] = "queued"]
  /\ Check(o)
  /\ UNCHANGED Unread

\* No retry is left: a finding whose quotes FAILED.
GiveUp(o) ==
  /\ Awaits(o, "unlocated") /\ worker[o].attempts > MaxRetries
  /\ Return(o, Draft(o, "FAILED", worker[o].attempts), 0)
  /\ thread' = [thread EXCEPT ![o] = "none"]
  /\ Check(o)
  /\ UNCHANGED Unread

\* No judgement came back: one failed task.
JudgeFails(o) ==
  /\ Awaits(o, "nothing")
  /\ Return(o, <<>>, 1)
  /\ thread' = [thread EXCEPT ![o] = "none"]
  /\ UNCHANGED <<Unread, checked>>

\* Mutant: the refused attempt is counted.
JudgeRefused_CountsRefused(o) ==
  /\ Awaits(o, "budget")
  /\ Return(o, IF worker[o].last THEN Draft(o, "FAILED", worker[o].attempts)
                                 ELSE <<>>, 0)
  /\ thread' = [thread EXCEPT ![o] = "none"]
  /\ UNCHANGED <<Unread, checked>>

\* The budget refused the call: an earlier judgement is kept, with the
\* attempts that were made; without one there is nothing to report.
JudgeRefused(o) ==
  /\ Awaits(o, "budget")
  /\ Return(o, IF worker[o].last THEN Draft(o, "FAILED", worker[o].attempts - 1)
                                 ELSE <<>>, 0)
  /\ thread' = [thread EXCEPT ![o] = "none"]
  /\ UNCHANGED <<Unread, checked>>

\* _persist, then the task count: the worker is done.
Persist(o) ==
  /\ stage = "workers" /\ worker[o].pc = "persist"
  /\ saved' = [saved EXCEPT ![o] = @ \o worker[o].drafts]
  /\ failedTasks' = failedTasks + worker[o].failed
  /\ Go(o, "done")
  /\ UNCHANGED <<service, candidates, thread, budget, result, record, checked>>

\* A commit that is cut short may or may not have reached the database.
MaySave(o) ==
  \/ UNCHANGED saved
  \/ worker[o].pc = "persist" /\ saved' = [saved EXCEPT ![o] = @ \o worker[o].drafts]

\* A misconfigured provider, or anything unexpected outside the retrieval step,
\* escapes the worker and stops the graph; its siblings are cancelled.
WorkerRaises(o) ==
  /\ stage = "workers"
  /\ \/ worker[o].pc \in {"loop", "persist"}
     \/ worker[o].pc = "judge" /\ thread[o] \in Answers
  /\ Go(o, "stopped")
  /\ MaySave(o)
  /\ stage' = "unwinding" /\ stop' = "error"
  /\ UNCHANGED <<planned, candidates, thread, budget, failedTasks, result, record,
                 checked>>

-----------------------------------------------------------------------------
(* _judge and the memo's call, the thread's side. Nothing here looks at the  *)
(* stage: a thread goes on after its coroutine was cancelled.                *)

Judgements == {"located", "unlocated"}
Answer(c, a) == thread' = [thread EXCEPT ![c] = a]
OnlyThread == <<service, worker, candidates, saved, failedTasks, result, record, checked>>

\* The budget is checked before the call.
CallJudge(o) ==
  /\ thread[o] = "queued"
  /\ Acquire
  /\ Answer(o, IF Claimed THEN "calling" ELSE "budget")
  /\ UNCHANGED OnlyThread

\* A response is accounted for before it is read: a judgement, a refusal, or
\* text that does not satisfy the schema, which is sent back once for repair.
JudgeReplies(o) ==
  /\ thread[o] = "calling"
  /\ \E t \in CallTokens : Record(t)
  /\ \E a \in Judgements \cup {"nothing", "repair"} : Answer(o, a)
  /\ UNCHANGED OnlyThread

CallRepair(o) ==
  /\ thread[o] = "repair"
  /\ Acquire
  /\ Answer(o, IF Claimed THEN "recalling" ELSE "budget")
  /\ UNCHANGED OnlyThread

RepairReplies(o) ==
  /\ thread[o] = "recalling"
  /\ \E t \in CallTokens : Record(t)
  /\ \E a \in Judgements \cup {"nothing"} : Answer(o, a)
  /\ UNCHANGED OnlyThread

\* A gateway error has no usage; it fails the task, or the run if it is fatal.
GatewayFails(c) ==
  /\ thread[c] \in {"calling", "recalling"}
  /\ \E a \in {"nothing", "fatal"} : Answer(c, a)
  /\ UNCHANGED <<OnlyThread, budget>>

\* The memo's response is accounted for by the coroutine, not here.
MemoReplies ==
  /\ thread[Memo] = "calling"
  /\ \E a \in {"text", "refused"} : Answer(Memo, a)
  /\ UNCHANGED <<OnlyThread, budget>>

-----------------------------------------------------------------------------
(* Fan-in, synthesize_memo and the end of the graph.                        *)

\* _after_fan_in: a spent budget skips the memo.
FanIn ==
  /\ stage = "workers" /\ \A o \in planned : worker[o].pc = "done"
  /\ stage' = IF budget.exhausted THEN "over" ELSE "memo"
  /\ UNCHANGED <<stop, planned, worker, candidates, thread, budget, saved,
                 failedTasks, result, record, checked>>

\* Findings the memo may cite.
Eligible(o) ==
  {i \in DOMAIN worker[o].drafts :
     worker[o].drafts[i].quotes \in {"VERIFIED", "NOT_APPLICABLE"}}

NothingToWrite ==
  /\ stage = "memo" /\ memo = "none"
  /\ \A o \in planned : Eligible(o) = {}
  /\ note' = TRUE
  /\ stage' = "over"
  /\ UNCHANGED <<stop, planned, worker, candidates, thread, budget, saved,
                 failedTasks, memo, record, checked>>

\* The call is claimed by the coroutine; a refused one ends the graph.
AskMemo ==
  /\ stage = "memo" /\ memo = "none"
  /\ \E o \in planned : Eligible(o) # {}
  /\ Acquire
  /\ IF Claimed
     THEN memo' = "asking" /\ Answer(Memo, "calling") /\ UNCHANGED stage
     ELSE stage' = "over" /\ UNCHANGED <<memo, thread>>
  /\ UNCHANGED <<stop, planned, worker, candidates, saved, failedTasks, note,
                 record, checked>>

\* Whatever text came back is the memo; a refusal's text is empty.
MemoWritten ==
  /\ stage = "memo" /\ memo = "asking" /\ thread[Memo] \in {"text", "refused"}
  /\ \E t \in CallTokens : Record(t)
  /\ memo' = IF thread[Memo] = "text" THEN "written" ELSE "empty"
  /\ Answer(Memo, "none")
  /\ stage' = "over"
  /\ UNCHANGED <<stop, planned, worker, candidates, saved, failedTasks, note,
                 record, checked>>

MemoFails ==
  /\ stage = "memo" /\ memo = "asking" /\ thread[Memo] = "nothing"
  /\ memo' = "none" /\ note' = TRUE
  /\ Answer(Memo, "none")
  /\ stage' = "over"
  /\ UNCHANGED <<stop, planned, worker, candidates, budget, saved, failedTasks,
                 record, checked>>

\* A fatal gateway error or anything unexpected in the memo node.
MemoRaises ==
  /\ stage = "memo" /\ (memo = "none" \/ thread[Memo] \in Answers)
  /\ IF thread[Memo] \in {"text", "refused"}
     THEN \E t \in CallTokens : Record(t)
     ELSE UNCHANGED budget
  /\ memo' = "cancelled"
  /\ stage' = "unwinding" /\ stop' = "error"
  /\ UNCHANGED <<planned, worker, candidates, thread, saved, failedTasks, note,
                 record, checked>>

-----------------------------------------------------------------------------
(* The wall clock, and how a stopped graph unwinds.                         *)

Timeout ==
  /\ stage \in {"plan", "workers", "memo"}
  /\ stage' = "unwinding" /\ stop' = "timeout"
  /\ UNCHANGED <<planned, worker, candidates, thread, budget, saved, failedTasks,
                 result, record, checked>>

\* A thread job that has not started is dropped with the coroutine that
\* submitted it; a started one is left running.
Abandon(c) ==
  \/ UNCHANGED thread
  \/ thread[c] = "queued" /\ Answer(c, "none")

\* Mutant: the cancelled worker joins its thread.
StopWorker_Joins(o) ==
  /\ stop # "none" /\ worker[o].pc \notin {"idle", "done", "stopped"}
  /\ thread[o] \notin {"calling", "recalling"}
  /\ Go(o, "stopped")
  /\ Abandon(o)
  /\ MaySave(o)
  /\ UNCHANGED <<service, candidates, budget, failedTasks, result, record, checked>>

\* Once the graph is being stopped, cancellation reaches the worker at the await
\* it stands at, whether or not anybody waits for it.
StopWorker(o) ==
  /\ stop # "none" /\ worker[o].pc \notin {"idle", "done", "stopped"}
  /\ Go(o, "stopped")
  /\ Abandon(o)
  /\ MaySave(o)
  /\ UNCHANGED <<service, candidates, budget, failedTasks, result, record, checked>>

StopMemo ==
  /\ stop # "none" /\ memo = "asking"
  /\ memo' = "cancelled"
  /\ UNCHANGED <<service, worker, candidates, thread, budget, saved, failedTasks,
                 note, record, checked>>

\* Mutant: the workers are cancelled and not awaited.
Unwound_NotAwaited ==
  /\ stage = "unwinding"
  /\ stage' = "finished"
  /\ UNCHANGED <<stop, planned, worker, candidates, thread, budget, saved,
                 failedTasks, result, record, checked>>

\* wait_for and LangGraph await what they cancelled: only when every coroutine of
\* the graph has ended does _execute have its outcome.
Unwound ==
  /\ stage = "unwinding"
  /\ \A o \in Obligations : worker[o].pc \in {"idle", "done", "stopped"}
  /\ memo # "asking"
  /\ stage' = "finished"
  /\ UNCHANGED <<stop, planned, worker, candidates, thread, budget, saved,
                 failedTasks, result, record, checked>>

\* Mutant: the budget is not looked at.
Outcome_IgnoresBudget ==
  CASE stop = "timeout" -> "CAPPED" [] stop = "error" -> "FAILED" [] OTHER -> "COMPLETED"

\* The end of _execute: a stopped run first, then a refused call, then success.
Outcome ==
  CASE stop = "timeout"   -> "CAPPED"
    [] stop = "error"     -> "FAILED"
    [] budget.exhausted   -> "CAPPED"
    [] OTHER              -> "COMPLETED"

\* _finish: outcome and usage in one write. The budget is read here, and a
\* thread that outlived the graph may still add to it afterwards.
Finish ==
  /\ stage \in {"over", "finished"}
  /\ stage' = "stored"
  /\ LET done == Outcome = "COMPLETED"
     IN record' = [status |-> Outcome, tokens |-> budget.tokens, failed |-> failedTasks,
                   memo |-> IF done /\ memo \in {"written", "empty"} THEN memo ELSE "none",
                   note |-> ~done \/ note \/ planned = {}]
  /\ UNCHANGED <<stop, planned, worker, candidates, thread, budget, saved,
                 failedTasks, result, checked>>

Coroutine(o) ==
  \/ RetrievalFails(o) \/ Retrieve(o) \/ NextClause(o) \/ LeaveLoop(o)
  \/ QuotesLocated(o) \/ JudgeAgain(o) \/ GiveUp(o) \/ JudgeFails(o)
  \/ JudgeRefused(o) \/ Persist(o) \/ WorkerRaises(o)
JudgeThread(o) ==
  CallJudge(o) \/ JudgeReplies(o) \/ CallRepair(o) \/ RepairReplies(o)

Next ==
  \/ Plan \/ PlanRaises
  \/ \E o \in Obligations : Coroutine(o) \/ JudgeThread(o) \/ StopWorker(o)
  \/ \E c \in Callers : GatewayFails(c)
  \/ FanIn \/ NothingToWrite \/ AskMemo \/ MemoReplies \/ MemoWritten \/ MemoFails
  \/ MemoRaises
  \/ Timeout \/ StopMemo \/ Unwound \/ Finish

\* The clock advances and the event loop delivers what is due. Nothing is asked
\* of the threads: the provider may never answer.
Fairness ==
  /\ WF_vars(Timeout) /\ WF_vars(StopMemo) /\ WF_vars(Unwound) /\ WF_vars(Finish)
  /\ \A o \in Obligations : WF_vars(StopWorker(o))

Spec == Init /\ [][Next]_vars
FairSpec == Spec /\ Fairness

-----------------------------------------------------------------------------
(* Properties                                                               *)

InFlight == {c \in Callers : thread[c] \in {"calling", "recalling"}}
MaxOf(S) == CHOOSE m \in S : \A n \in S : n <= m
AtLeastOne(n) == IF n = 0 THEN 1 ELSE n

\* The gateway is never called more often than the budget allows, whatever the
\* threads of the workers do at the same time and after the run is over.
CallsWithinBudget == budget.calls <= MaxCalls

\* Calls in flight when the token limit is crossed complete, so the limit may be
\* overshot, but by no more than one response per worker.
TokensBounded ==
  budget.tokens + Cardinality(InFlight) * MaxOf(CallTokens)
    <= MaxTokens - 1 + Cardinality(Obligations) * MaxOf(CallTokens)

\* Both limits of the budget hold, for calls in flight and after the run, too.
LimitsHold == CallsWithinBudget /\ TokensBounded

\* A COMPLETED run has skipped nothing: every candidate clause of every planned
\* obligation is a stored finding or a counted failure, an obligation without
\* candidates has its no-match finding, and no call was refused on the way.
CompletedIsComplete ==
  record.status = "COMPLETED" =>
    /\ ~budget.exhausted
    /\ \A o \in planned :
         Len(saved[o]) + worker[o].failed = AtLeastOne(candidates[o])

\* A run is CAPPED only if the wall clock stopped it or a limit was reached.
CappedForAReason ==
  record.status = "CAPPED" =>
    stop = "timeout" \/ budget.calls >= MaxCalls \/ budget.tokens >= MaxTokens

\* The usage stored with a run that was not stopped is all it ever used: no
\* thread is left that could call the provider or add tokens later.
UsageIsFinal ==
  record # NoRecord /\ stop = "none" =>
    /\ record.tokens = budget.tokens
    /\ \A c \in Callers : thread[c] = "none"

\* The stored status and usage are true of what the run did, whichever it is.
OutcomeIsTrue == CompletedIsComplete /\ CappedForAReason /\ UsageIsFinal

\* Each candidate clause has at most one stored finding.
FindingPerClause ==
  \A o \in Obligations :
    /\ \A i, j \in DOMAIN saved[o] :
         saved[o][i].clause = saved[o][j].clause => i = j
    /\ \A i \in DOMAIN saved[o] : saved[o][i].clause <= candidates[o]

\* A stored finding's verification_attempts is the number of judgements of its
\* clause that were put to verification, retries and refused retries included.
AttemptsAreHonest ==
  \A o \in Obligations : \A i \in DOMAIN saved[o] :
    LET f == saved[o][i]
    IN f.clause # 0 => f.attempts = checked[o][f.clause] /\ f.attempts > 0

\* The stored findings are what was judged: each clause once, each attempt counted.
FindingsAreHonest == FindingPerClause /\ AttemptsAreHonest

\* Once a terminal status can be read, the findings it stands for do not change
\* any more, not even by a worker that was being cancelled.
FindingsSettled == [][record # NoRecord => saved' = saved]_vars

\* Every run ends and is stored even if the provider never answers a call.
RunIsStored == <>(record # NoRecord)

-----------------------------------------------------------------------------
(* What the documentation says and the code does not do.                    *)

\* services/assessment.py: a COMPLETED run's error_reason says "why the memo is
\* missing". A refused memo call stores an empty memo and no reason.
MissingMemoIsExplained ==
  record.status = "COMPLETED" => record.memo = "written" \/ record.note
=============================================================================
