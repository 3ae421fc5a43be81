------------------------ MODULE AssessmentRunsProofs ------------------------
(***************************************************************************)
(* What AssessmentRuns guarantees for any number of requests, pairs, dates, *)
(* crashes and failures, proved.                                            *)
(***************************************************************************)
EXTENDS AssessmentRuns, TLAPS

\* The advisory lock of a pair is held exactly by the one request of that pair
\* whose launch transaction is open.
LockHeldInTransaction ==
  \A q \in Requests : handler[q] \in InTransaction <=> lock[pair[q]] = q

\* A request about to commit its rows has no rival among the committed runs.
NoRivalBeforeCommit ==
  \A q \in Requests : handler[q] = "inserting" => FindActive(q) = {}

\* A run has no row before its launch commits, its background task exists only
\* after that, and the row says how far the task has come.
RowFollowsTask ==
  \A q \in Requests :
    /\ handler[q] \in {"idle", "waiting"} \cup InTransaction
         => assessment[q] = "ABSENT" /\ task[q] = "none"
    /\ handler[q] = "created" => assessment[q] = "PENDING" /\ task[q] = "none"
    /\ task[q] = "queued" => assessment[q] = "PENDING"
    /\ task[q] \in {"graph", "finishing"} => assessment[q] = "RUNNING"
    /\ task[q] = "finishing" => outcome[q] \in TerminalStatuses

\* Requests are served and tasks run only while the process is up.
QuietWhenNotUp ==
  server # "up" =>
    \A q \in Requests :
      /\ handler[q] \notin {"waiting", "checking", "inserting", "created"}
      /\ task[q] \notin LiveTask

IInv ==
  /\ TypeOK
  /\ RowsAgree
  /\ LockHeldInTransaction
  /\ NoRivalBeforeCommit
  /\ RowFollowsTask
  /\ QuietWhenNotUp
  /\ OneActiveRun

-----------------------------------------------------------------------------
USE RunsAssumption DEF ActiveStatuses, TerminalStatuses, Statuses, HandlerStates,
    InTransaction, TaskStates, LiveTask, Active, SameInputs,
    rows, request, process, counters, vars

\* The invariant holds before anything has happened.
LEMMA InitIInv == Init => IInv
  BY DEF Init, IInv, TypeOK, RowsAgree, LockHeldInTransaction, NoRivalBeforeCommit,
         RowFollowsTask, QuietWhenNotUp, OneActiveRun, FindActive

\* Every step keeps the variables within their types.
LEMMA TypeStep == TypeOK /\ RowFollowsTask /\ [Next]_vars => TypeOK'
<1> SUFFICES ASSUME TypeOK, RowFollowsTask, [Next]_vars
             PROVE  TypeOK'
    OBVIOUS
<1> USE DEF TypeOK
<1>1. ASSUME NEW q \in Requests, RejectPost(q) PROVE TypeOK'
  BY <1>1 DEF RejectPost
<1>2. ASSUME NEW q \in Requests, Post(q) PROVE TypeOK'
  BY <1>2 DEF Post
<1>3. ASSUME NEW q \in Requests, LockLaunch(q) PROVE TypeOK'
  BY <1>3 DEF LockLaunch
<1>4. ASSUME NEW q \in Requests, Refuse(q) PROVE TypeOK'
  BY <1>4 DEF Refuse, EndTransaction
<1>5. ASSUME NEW q \in Requests, AddRows(q) PROVE TypeOK'
  BY <1>5 DEF AddRows
<1>6. ASSUME NEW q \in Requests, CommitLaunch(q) PROVE TypeOK'
  BY <1>6 DEF CommitLaunch, EndTransaction
<1>7. ASSUME NEW q \in Requests, Respond(q) PROVE TypeOK'
  BY <1>7 DEF Respond
<1>8. ASSUME NEW q \in Requests, FailRequest(q) PROVE TypeOK'
  BY <1>8 DEF FailRequest, EndTransaction
<1>9. ASSUME NEW q \in Requests, StartRun(q) PROVE TypeOK'
  BY <1>9 DEF StartRun
<1>10. ASSUME NEW q \in Requests, Execute(q) PROVE TypeOK'
  BY <1>10 DEF Execute
<1>11. ASSUME NEW q \in Requests, FinishRun(q) PROVE TypeOK'
  BY <1>11 DEF FinishRun, RowFollowsTask
<1>12. ASSUME NEW q \in Requests, FailRun(q) PROVE TypeOK'
  BY <1>12 DEF FailRun
<1>13. CASE Crash
  BY <1>13 DEF Crash
<1>14. CASE Restart
  BY <1>14 DEF Restart
<1>15. CASE Recover
  BY <1>15 DEF Recover, FailUnfinished
<1>16. CASE RecoveryFails
  BY <1>16 DEF RecoveryFails
<1>17. CASE UNCHANGED vars
  BY <1>17
<1>18. QED
  BY <1>1, <1>2, <1>3, <1>4, <1>5, <1>6, <1>7, <1>8, <1>9, <1>10, <1>11, <1>12,
     <1>13, <1>14, <1>15, <1>16, <1>17 DEF Next, HandlerStep, TaskStep

\* Every step preserves the inductive invariant. The launch commit is the step
\* the lock is there for: the committing request holds it, so no other request
\* of the pair is between its check and its own commit.
LEMMA StepIInv == IInv /\ [Next]_vars => IInv'
<1> SUFFICES ASSUME IInv, [Next]_vars
             PROVE  IInv'
    OBVIOUS
<1>0. TypeOK'
  BY TypeStep DEF IInv
<1> USE DEF IInv, TypeOK, RowsAgree, LockHeldInTransaction, NoRivalBeforeCommit,
        RowFollowsTask, QuietWhenNotUp, OneActiveRun, FindActive
<1>1. ASSUME NEW q \in Requests, RejectPost(q) PROVE IInv'
  BY <1>1, <1>0 DEF RejectPost
<1>2. ASSUME NEW q \in Requests, Post(q) PROVE IInv'
  BY <1>2, <1>0 DEF Post
<1>3. ASSUME NEW q \in Requests, LockLaunch(q) PROVE IInv'
  BY <1>3, <1>0 DEF LockLaunch
<1>4. ASSUME NEW q \in Requests, Refuse(q) PROVE IInv'
  BY <1>4, <1>0 DEF Refuse, EndTransaction
<1>5. ASSUME NEW q \in Requests, AddRows(q) PROVE IInv'
  BY <1>5, <1>0 DEF AddRows
<1>6. ASSUME NEW q \in Requests, CommitLaunch(q) PROVE IInv'
  <2>1. lock[pair[q]] = q /\ FindActive(q) = {}
    BY <1>6 DEF CommitLaunch
  <2>2. \A r \in Requests \ {q} : pair[r] = pair[q] => handler[r] \notin InTransaction
    BY <2>1
  <2>3. NoRivalBeforeCommit'
    BY <1>6, <2>2 DEF CommitLaunch
  <2>4. OneActiveRun'
    BY <1>6, <2>1 DEF CommitLaunch
  <2>5. LockHeldInTransaction'
    BY <1>6, <2>1, <2>2 DEF CommitLaunch, EndTransaction
  <2>6. RowsAgree' /\ RowFollowsTask' /\ QuietWhenNotUp'
    BY <1>6 DEF CommitLaunch
  <2>7. QED
    BY <1>0, <2>3, <2>4, <2>5, <2>6
<1>7. ASSUME NEW q \in Requests, Respond(q) PROVE IInv'
  BY <1>7, <1>0 DEF Respond
<1>8. ASSUME NEW q \in Requests, FailRequest(q) PROVE IInv'
  BY <1>8, <1>0 DEF FailRequest, EndTransaction
<1>9. ASSUME NEW q \in Requests, StartRun(q) PROVE IInv'
  BY <1>9, <1>0 DEF StartRun
<1>10. ASSUME NEW q \in Requests, Execute(q) PROVE IInv'
  BY <1>10, <1>0 DEF Execute
<1>11. ASSUME NEW q \in Requests, FinishRun(q) PROVE IInv'
  BY <1>11, <1>0 DEF FinishRun
<1>12. ASSUME NEW q \in Requests, FailRun(q) PROVE IInv'
  BY <1>12, <1>0 DEF FailRun
<1>13. CASE Crash
  BY <1>13, <1>0 DEF Crash
<1>14. CASE Restart
  BY <1>14, <1>0 DEF Restart
<1>15. CASE Recover
  BY <1>15, <1>0 DEF Recover, FailUnfinished
<1>16. CASE RecoveryFails
  BY <1>16, <1>0 DEF RecoveryFails
<1>17. CASE UNCHANGED vars
  BY <1>17, <1>0
<1>18. QED
  BY <1>1, <1>2, <1>3, <1>4, <1>5, <1>6, <1>7, <1>8, <1>9, <1>10, <1>11, <1>12, <1>13, <1>14, <1>15, <1>16, <1>17 DEF Next, HandlerStep, TaskStep

-----------------------------------------------------------------------------
\* The inductive invariant holds in every reachable state.
THEOREM Invariance == Spec => []IInv
  BY InitIInv, StepIInv, PTL DEF Spec

\* Every variable keeps its type: the handler, lock, row, task and outcome
\* values of AssessmentRuns are all the values the code's states can take.
THEOREM TypeCorrect == Spec => []TypeOK
  BY Invariance, PTL DEF IInv

\* However many launches of a circular, pack and date are posted at once, at
\* most one of their runs is in progress (create_assessment).
THEOREM AtMostOneActiveRun == Spec => []OneActiveRun
  BY Invariance, PTL DEF IInv

\* The two rows that record a run have the same status in every state.
THEOREM RowsAlwaysAgree == Spec => []RowsAgree
  BY Invariance, PTL DEF IInv

\* While no database write has failed, a run shown in progress by a serving process
\* has a handler or a task that takes it further: recovery leaves none active, and
\* only a step of its own handler or task makes one active.
THEOREM ActiveRunsAreOwned == Spec => []ActiveRunIsOwned
<1>1. Init => ActiveRunIsOwned
  BY DEF Init, ActiveRunIsOwned
<1>2. IInv /\ ActiveRunIsOwned /\ [Next]_vars => ActiveRunIsOwned'
  <2> SUFFICES ASSUME IInv, ActiveRunIsOwned, [Next]_vars
               PROVE  ActiveRunIsOwned'
      OBVIOUS
  <2> USE DEF IInv, TypeOK, ActiveRunIsOwned
  <2>1. ASSUME NEW q \in Requests,
               RejectPost(q) \/ Post(q) \/ LockLaunch(q) \/ Refuse(q) \/ AddRows(q)
        PROVE  ActiveRunIsOwned'
    BY <2>1 DEF RejectPost, Post, LockLaunch, Refuse, AddRows
  <2>2. ASSUME NEW q \in Requests, CommitLaunch(q) \/ Respond(q)
        PROVE  ActiveRunIsOwned'
    BY <2>2 DEF CommitLaunch, Respond
  <2>3. ASSUME NEW q \in Requests, StartRun(q) \/ Execute(q) \/ FinishRun(q)
        PROVE  ActiveRunIsOwned'
    BY <2>3 DEF StartRun, Execute, FinishRun, RowFollowsTask
  <2>4. ASSUME NEW q \in Requests, FailRequest(q) \/ FailRun(q)
        PROVE  ActiveRunIsOwned'
    BY <2>4 DEF FailRequest, FailRun
  <2>5. CASE Crash \/ Restart \/ RecoveryFails \/ UNCHANGED vars
    BY <2>5 DEF Crash, Restart, RecoveryFails
  <2>6. CASE Recover
    BY <2>6 DEF Recover, FailUnfinished
  <2>7. QED
    BY <2>1, <2>2, <2>3, <2>4, <2>5, <2>6 DEF Next, HandlerStep, TaskStep
<1>3. QED
  BY <1>1, <1>2, Invariance, PTL DEF Spec

\* No step, of a task, a handler or a recovery, rewrites a terminal status.
THEOREM TerminalStatusIsFinal == Spec => TerminalIsFinal
<1>1. IInv /\ [Next]_vars
        => [\A q \in Requests :
              assessment[q] \in TerminalStatuses => assessment'[q] = assessment[q]]_vars
  BY DEF IInv, TypeOK, RowFollowsTask, Next, HandlerStep, TaskStep, RejectPost, Post,
         LockLaunch, Refuse, AddRows, CommitLaunch, Respond, FailRequest, StartRun,
         Execute, FinishRun, FailRun, Crash, Restart, Recover, RecoveryFails,
         FailUnfinished
<1>2. QED
  BY <1>1, Invariance, PTL DEF Spec, TerminalIsFinal

\* The launch transaction, the background task and the recovery implement
\* RunLifecycle, in which a launch checks and creates in a single step.
THEOREM ImplementsLifecycle == Spec => LifecycleSpec
<1> USE DEF Lifecycle!ActiveStatuses, Lifecycle!TerminalStatuses, Lifecycle!Active,
            Lifecycle!lifecycleVars, Inputs
<1>1. Init => Lifecycle!Init
  BY DEF Init, Lifecycle!Init
<1>2. IInv /\ [Next]_vars => [Lifecycle!Next]_(Lifecycle!lifecycleVars)
  <2> SUFFICES ASSUME IInv, [Next]_vars
               PROVE  Lifecycle!Next \/ UNCHANGED Lifecycle!lifecycleVars
      OBVIOUS
  <2> USE DEF IInv, TypeOK, Lifecycle!Next
  <2>1. ASSUME NEW q \in Requests, CommitLaunch(q) PROVE Lifecycle!Launch(q)
    BY <2>1 DEF CommitLaunch, Lifecycle!Launch, NoRivalBeforeCommit, FindActive,
                RowFollowsTask
  <2>2. ASSUME NEW q \in Requests, StartRun(q) PROVE Lifecycle!Begin(q)
    BY <2>2 DEF StartRun, Lifecycle!Begin, RowFollowsTask
  <2>3. ASSUME NEW q \in Requests, FinishRun(q) PROVE Lifecycle!End(q)
    BY <2>3 DEF FinishRun, Lifecycle!End, RowFollowsTask
  <2>4. CASE Recover
    BY <2>4 DEF Recover, FailUnfinished, Lifecycle!Interrupt
  <2>5. ASSUME NEW q \in Requests,
               RejectPost(q) \/ Post(q) \/ LockLaunch(q) \/ Refuse(q) \/ AddRows(q)
                 \/ Respond(q) \/ FailRequest(q) \/ Execute(q) \/ FailRun(q)
        PROVE  UNCHANGED Lifecycle!lifecycleVars
    BY <2>5 DEF RejectPost, Post, LockLaunch, Refuse, AddRows, Respond, FailRequest,
                Execute, FailRun
  <2>6. CASE Crash \/ Restart \/ RecoveryFails \/ UNCHANGED vars
    BY <2>6 DEF Crash, Restart, RecoveryFails
  <2>7. QED
    BY <2>1, <2>2, <2>3, <2>4, <2>5, <2>6 DEF Next, HandlerStep, TaskStep
<1>3. QED
  BY <1>1, <1>2, Invariance, PTL DEF Spec, LifecycleSpec, Lifecycle!Spec
=============================================================================
