--------------------------- MODULE AssessmentRuns ---------------------------
(***************************************************************************)
(* Launching an assessment and recording its life: POST /assessments, the   *)
(* launch transaction with its advisory lock, the background task that      *)
(* executes the run, the two rows that record it, and what a restart of the *)
(* API process does to all of it.                                           *)
(*                                                                          *)
(* Sources: backend/app/routers/assessments.py, services/assessment.py,     *)
(* repositories/assessments.py, repositories/agent_runs.py, main.py.        *)
(* A request and the run it may create share an identity (q).               *)
(***************************************************************************)
EXTENDS Naturals

CONSTANTS
  Requests,      \* POST requests; each creates at most one run
  Pairs,         \* (circular, policy pack) pairs: what the advisory lock covers
  Dates,         \* as-of dates, the null date included
  NoOne,         \* holder of a free lock
  MaxRestarts,   \* bound: crashes of the API process
  MaxFaults      \* bound: database failures seen by the process

ASSUME RunsAssumption ==
  /\ NoOne \notin Requests
  /\ MaxRestarts \in Nat
  /\ MaxFaults \in Nat

VARIABLES
  server,      \* "up", "starting" (lifespan before serving), "down"
  handler,     \* handler[q]: where request q's handler stands
  pair,        \* pair[q]: the (circular, pack) request q asks for
  asOf,        \* asOf[q]: its as-of date
  lock,        \* lock[p]: the request whose transaction holds pair p's advisory lock
  assessment,  \* assessment[q]: committed status of the Assessment row of q's run
  agentRun,    \* agentRun[q]: committed status of its AgentRun row
  task,        \* task[q]: the background task run_assessment(q)
  outcome,     \* outcome[q]: the RunOutcome _execute returned, before it is stored
  restarts, faults

rows == <<assessment, agentRun>>
request == <<handler, pair, asOf>>
process == <<task, outcome>>
counters == <<restarts, faults>>
vars == <<server, request, lock, rows, process, counters>>

ActiveStatuses == {"PENDING", "RUNNING"}
TerminalStatuses == {"COMPLETED", "CAPPED", "FAILED"}
Statuses == {"ABSENT"} \cup ActiveStatuses \cup TerminalStatuses

HandlerStates == {"idle", "waiting", "checking", "inserting", "created",
                  "accepted", "refused", "rejected", "error", "dropped"}
\* Between taking the lock and the end of the launch transaction.
InTransaction == {"checking", "inserting"}
TaskStates == {"none", "queued", "graph", "finishing", "done", "raised", "killed"}
LiveTask == {"queued", "graph", "finishing"}

\* The statuses a handler, a task and a row can have, and the bounds of the counters.
TypeOK ==
  /\ server \in {"up", "starting", "down"}
  /\ handler \in [Requests -> HandlerStates]
  /\ pair \in [Requests -> Pairs]
  /\ asOf \in [Requests -> Dates]
  /\ lock \in [Pairs -> Requests \cup {NoOne}]
  /\ assessment \in [Requests -> Statuses]
  /\ agentRun \in [Requests -> Statuses]
  /\ task \in [Requests -> TaskStates]
  /\ outcome \in [Requests -> TerminalStatuses \cup {"none"}]
  /\ restarts \in 0..MaxRestarts
  /\ faults \in 0..MaxFaults

Init ==
  /\ server = "up"
  /\ handler = [q \in Requests |-> "idle"]
  /\ pair \in [Requests -> Pairs]
  /\ asOf \in [Requests -> Dates]
  /\ lock = [p \in Pairs |-> NoOne]
  /\ assessment = [q \in Requests |-> "ABSENT"]
  /\ agentRun = [q \in Requests |-> "ABSENT"]
  /\ task = [q \in Requests |-> "none"]
  /\ outcome = [q \in Requests |-> "none"]
  /\ restarts = 0
  /\ faults = 0

-----------------------------------------------------------------------------
(* The request: start_assessment and create_assessment.                     *)

Active(q) == assessment[q] \in ActiveStatuses
SameInputs(q, r) == pair[q] = pair[r] /\ asOf[q] = asOf[r]

\* Mutant: only RUNNING counts as in progress.
FindActive_RunningOnly(q) ==
  {r \in Requests : assessment[r] = "RUNNING" /\ SameInputs(q, r)}

\* find_active: committed rows only, matched on circular, pack and date.
FindActive(q) == {r \in Requests : Active(r) /\ SameInputs(q, r)}

\* The transaction ends, by commit or rollback, and its lock with it.
EndTransaction(q) == lock' = [lock EXCEPT ![pair[q]] = NoOne]

\* 404 for an unknown circular or pack, 503 when the provider is not ready.
RejectPost(q) ==
  /\ server = "up" /\ handler[q] = "idle"
  /\ handler' = [handler EXCEPT ![q] = "rejected"]
  /\ UNCHANGED <<server, pair, asOf, lock, rows, process, counters>>

\* The checks passed; the handler opens a transaction and asks for the lock.
Post(q) ==
  /\ server = "up" /\ handler[q] = "idle"
  /\ handler' = [handler EXCEPT ![q] = "waiting"]
  /\ UNCHANGED <<server, pair, asOf, lock, rows, process, counters>>

\* Mutant: the advisory lock is not taken before the check.
LockLaunch_Unlocked(q) ==
  /\ server = "up" /\ handler[q] = "waiting"
  /\ handler' = [handler EXCEPT ![q] = "checking"]
  /\ UNCHANGED <<server, pair, asOf, lock, rows, process, counters>>

\* pg_advisory_xact_lock(circular, pack): blocks while another holds it.
LockLaunch(q) ==
  /\ server = "up" /\ handler[q] = "waiting"
  /\ lock[pair[q]] = NoOne
  /\ lock' = [lock EXCEPT ![pair[q]] = q]
  /\ handler' = [handler EXCEPT ![q] = "checking"]
  /\ UNCHANGED <<server, pair, asOf, rows, process, counters>>

\* Mutant: a session-level lock, which the refused transaction does not release.
Refuse_KeepsLock(q) ==
  /\ server = "up" /\ handler[q] = "checking"
  /\ FindActive(q) # {}
  /\ handler' = [handler EXCEPT ![q] = "refused"]
  /\ UNCHANGED <<server, pair, asOf, lock, rows, process, counters>>

\* A run with the same inputs is in progress: 409, the transaction is dropped.
Refuse(q) ==
  /\ server = "up" /\ handler[q] = "checking"
  /\ FindActive(q) # {}
  /\ handler' = [handler EXCEPT ![q] = "refused"]
  /\ EndTransaction(q)
  /\ UNCHANGED <<server, pair, asOf, rows, process, counters>>

\* None is: both rows are added, visible to nobody before the commit.
AddRows(q) ==
  /\ server = "up" /\ handler[q] = "checking"
  /\ FindActive(q) = {}
  /\ handler' = [handler EXCEPT ![q] = "inserting"]
  /\ UNCHANGED <<server, pair, asOf, lock, rows, process, counters>>

CommitLaunch(q) ==
  /\ server = "up" /\ handler[q] = "inserting"
  /\ assessment' = [assessment EXCEPT ![q] = "PENDING"]
  /\ agentRun' = [agentRun EXCEPT ![q] = "PENDING"]
  /\ handler' = [handler EXCEPT ![q] = "created"]
  /\ EndTransaction(q)
  /\ UNCHANGED <<server, pair, asOf, process, counters>>

\* Mutant: the handler answers without adding its background task.
Respond_NoTask(q) ==
  /\ server = "up" /\ handler[q] = "created"
  /\ handler' = [handler EXCEPT ![q] = "accepted"]
  /\ UNCHANGED <<server, pair, asOf, lock, rows, process, counters>>

\* The handler returned; the response is sent and its background task starts.
Respond(q) ==
  /\ server = "up" /\ handler[q] = "created"
  /\ handler' = [handler EXCEPT ![q] = "accepted"]
  /\ task' = [task EXCEPT ![q] = "queued"]
  /\ UNCHANGED <<server, pair, asOf, lock, rows, outcome, counters>>

\* A database failure anywhere in the handler is a 500. One that strikes after
\* the commit, while the request's own session closes, loses the background
\* task with the response: the run stays PENDING and nothing will execute it.
FailRequest(q) ==
  /\ server = "up" /\ faults < MaxFaults
  /\ handler[q] \in {"waiting", "checking", "inserting", "created"}
  /\ handler' = [handler EXCEPT ![q] = "error"]
  /\ IF handler[q] \in InTransaction THEN EndTransaction(q) ELSE UNCHANGED lock
  /\ faults' = faults + 1
  /\ UNCHANGED <<server, pair, asOf, rows, process, restarts>>

-----------------------------------------------------------------------------
(* The background task: run_assessment, _execute, _finish.                  *)

\* Both rows go RUNNING in one commit, then the graph is started.
StartRun(q) ==
  /\ server = "up" /\ task[q] = "queued"
  /\ assessment' = [assessment EXCEPT ![q] = "RUNNING"]
  /\ agentRun' = [agentRun EXCEPT ![q] = "RUNNING"]
  /\ task' = [task EXCEPT ![q] = "graph"]
  /\ UNCHANGED <<server, request, lock, outcome, counters>>

\* _execute turns every way the graph can end into an outcome: it finished
\* (COMPLETED, or CAPPED on a spent budget), the wall clock fired (CAPPED), or
\* it raised (FAILED). AssessmentGraph models what is inside this step.
Execute(q) ==
  /\ server = "up" /\ task[q] = "graph"
  /\ \E s \in TerminalStatuses : outcome' = [outcome EXCEPT ![q] = s]
  /\ task' = [task EXCEPT ![q] = "finishing"]
  /\ UNCHANGED <<server, request, lock, rows, counters>>

\* Mutant: the outcome of the agent run is left to another transaction.
FinishRun_OneRow(q) ==
  /\ server = "up" /\ task[q] = "finishing"
  /\ assessment' = [assessment EXCEPT ![q] = outcome[q]]
  /\ task' = [task EXCEPT ![q] = "done"]
  /\ UNCHANGED <<server, request, lock, agentRun, outcome, counters>>

\* Both rows get the outcome in one commit.
FinishRun(q) ==
  /\ server = "up" /\ task[q] = "finishing"
  /\ assessment' = [assessment EXCEPT ![q] = outcome[q]]
  /\ agentRun' = [agentRun EXCEPT ![q] = outcome[q]]
  /\ task' = [task EXCEPT ![q] = "done"]
  /\ UNCHANGED <<server, request, lock, outcome, counters>>

\* Only the graph runs under an exception handler: a database failure while
\* the status is set or the outcome stored leaves run_assessment as it is.
FailRun(q) ==
  /\ server = "up" /\ faults < MaxFaults
  /\ task[q] \in {"queued", "finishing"}
  /\ task' = [task EXCEPT ![q] = "raised"]
  /\ faults' = faults + 1
  /\ UNCHANGED <<server, request, lock, rows, outcome, restarts>>

-----------------------------------------------------------------------------
(* The process dies and comes back.                                         *)

\* Handlers, tasks and open transactions die; committed rows stay.
Crash ==
  /\ server = "up" /\ restarts < MaxRestarts
  /\ server' = "down"
  /\ restarts' = restarts + 1
  /\ handler' = [q \in Requests |->
       IF handler[q] \in {"waiting", "checking", "inserting", "created"}
       THEN "dropped" ELSE handler[q]]
  /\ task' = [q \in Requests |-> IF task[q] \in LiveTask THEN "killed" ELSE task[q]]
  /\ lock' = [p \in Pairs |-> NoOne]
  /\ UNCHANGED <<pair, asOf, rows, outcome, faults>>

Restart ==
  /\ server = "down"
  /\ server' = "starting"
  /\ UNCHANGED <<request, lock, rows, process, counters>>

\* Mutant: PENDING rows are taken for runs yet to start.
FailUnfinished_RunningOnly(status) ==
  [q \in Requests |-> IF status[q] = "RUNNING" THEN "FAILED" ELSE status[q]]

\* Mutant: everything that did not complete counts as unfinished.
FailUnfinished_NotCompleted(status) ==
  [q \in Requests |->
     IF status[q] \in {"ABSENT", "COMPLETED"} THEN status[q] ELSE "FAILED"]

\* fail_unfinished, the same statement for either table.
FailUnfinished(status) ==
  [q \in Requests |-> IF status[q] \in ActiveStatuses THEN "FAILED" ELSE status[q]]

\* recover_interrupted_runs, before the first request is served.
Recover ==
  /\ server = "starting"
  /\ assessment' = FailUnfinished(assessment)
  /\ agentRun' = FailUnfinished(agentRun)
  /\ server' = "up"
  /\ UNCHANGED <<request, lock, process, counters>>

\* A failure of the recovery is logged and startup goes on.
RecoveryFails ==
  /\ server = "starting" /\ faults < MaxFaults
  /\ faults' = faults + 1
  /\ server' = "up"
  /\ UNCHANGED <<request, lock, rows, process, restarts>>

HandlerStep(q) ==
  \/ LockLaunch(q) \/ Refuse(q) \/ AddRows(q) \/ CommitLaunch(q) \/ Respond(q)
TaskStep(q) == StartRun(q) \/ Execute(q) \/ FinishRun(q)

Next ==
  \/ \E q \in Requests :
       \/ RejectPost(q) \/ Post(q) \/ HandlerStep(q) \/ FailRequest(q)
       \/ TaskStep(q) \/ FailRun(q)
  \/ Crash \/ Restart \/ Recover \/ RecoveryFails

\* Nobody must post, crash or fail. A started handler and task are run by the
\* event loop, the wall clock ends every graph, Postgres queues lock waiters in
\* order of arrival (hence strong fairness), and a supervisor restarts the API.
Fairness ==
  /\ \A q \in Requests :
       /\ SF_vars(LockLaunch(q))
       /\ WF_vars(HandlerStep(q))
       /\ WF_vars(TaskStep(q))
  /\ WF_vars(Restart) /\ WF_vars(Recover)

Spec == Init /\ [][Next]_vars
FairSpec == Spec /\ Fairness

-----------------------------------------------------------------------------
(* Properties                                                               *)

\* Two launches of the same circular, pack and date, however their requests
\* interleave and whatever crashes or fails between them, never leave two runs
\* in progress (create_assessment: lock, find_active, insert, commit).
OneActiveRun ==
  \A q, r \in Requests : Active(q) /\ Active(r) /\ SameInputs(q, r) => q = r

\* The Assessment row (what the page shows) and the AgentRun row (what the
\* trace stream reads) never disagree, not even after a crash between steps.
RowsAgree == assessment = agentRun

\* While no database write has failed, every run shown in progress by a serving
\* process has a handler or task in that process that will take it further: a
\* run whose owner died in a crash, even one still PENDING, is not shown active.
ActiveRunIsOwned ==
  server = "up" /\ faults = 0 =>
    \A q \in Requests :
      Active(q) => handler[q] = "created" \/ task[q] \in LiveTask

\* A terminal status, once readable, never changes again: neither a late task
\* nor a recovery rewrites the history of a finished run.
TerminalIsFinal ==
  [][\A q \in Requests :
       assessment[q] \in TerminalStatuses => assessment'[q] = assessment[q]]_vars

\* Every accepted launch reaches a terminal status, through crashes and
\* restarts, unless a database write fails.
AcceptedRunEnds ==
  \A q \in Requests :
    Active(q) ~> assessment[q] \in TerminalStatuses \/ faults > 0

\* Every posted request is answered or dropped with its process: a crowd of
\* launches of one circular cannot starve one of them at the lock.
RequestAnswered ==
  \A q \in Requests :
    handler[q] = "waiting" ~> handler[q] \in {"accepted", "refused", "error", "dropped"}

\* The launch protocol and the background task implement the lifecycle that
\* RunLifecycle states, where a launch is a single step.
Inputs == Pairs \X Dates
Lifecycle == INSTANCE RunLifecycle
  WITH Runs <- Requests,
       status <- assessment,
       inputs <- [q \in Requests |-> <<pair[q], asOf[q]>>]

\* Every behaviour of the launches, tasks and recoveries is one of RunLifecycle.
LifecycleSpec == Lifecycle!Spec
=============================================================================
