------------------------- MODULE TraceStreamProofs -------------------------
(***************************************************************************)
(* What TraceStream guarantees of the stored trace, and of the page that     *)
(* follows it, for any number of nodes, crashes and lost connections, proved.*)
(*                                                                           *)
(* IInv is about the rows and their writers; PInv follows every step from its*)
(* row through the poll, the connection and the reducer to the page.         *)
(***************************************************************************)
EXTENDS TraceStream, FiniteSetTheorems, FunctionTheorems, TLAPS

NodeStates == {"idle", "claimed", "inserted", "open", "closing", "erring", "closed", "stopped"}

\* The variables that the writers of the trace use.
WritersTyped ==
  /\ status \in {"RUNNING"} \cup TerminalStatuses
  /\ cancelled \in BOOLEAN /\ up \in BOOLEAN
  /\ nextSeq \in Nat
  /\ node \in [Nodes -> NodeStates]
  /\ seq \in [Nodes -> Nat]
  /\ steps \in [Seqs -> StepStatuses \cup {"absent"}]

\* Numbers are given in order, each to one node.
NumbersAreGiven ==
  /\ \A n \in Nodes : seq[n] <= nextSeq
  /\ SeqsAreUnique

\* Nothing writes the trace of a run that is over, or of a process that is down.
WritersHaveEnded ==
  status # "RUNNING" \/ ~up => \A n \in Nodes : node[n] \in {"closed", "stopped"}

IInv == WritersTyped /\ NumbersAreGiven /\ WritersHaveEnded /\ RestartClosesSteps

-----------------------------------------------------------------------------
USE DEF rows, tracer, generator, query, bounds, vars, At, Move, OnlyTrace,
        TerminalStatuses, StepStatuses, NodeStates

\* Connections, the page and its queries read the trace and write none of it.
Reader == Stream \/ Apply \/ Drop \/ ConnectRefused \/ Reopen \/ RefetchRun \/ FetchSteps
LEMMA ReadersWriteNothing == Reader => UNCHANGED <<rows, tracer, up>>
BY DEF Reader, Stream, Connect, ReadRun, KeepPolling, SendDone, SendTimeout, ReadSteps,
       Apply, Drop, ConnectRefused, Reopen, RefetchRun, FetchSteps

\* One write of one step leaves the trace typed, whether or not the step exists.
LEMMA OneStepWritten ==
  ASSUME WritersTyped, NEW s, NEW st \in StepStatuses
  PROVE  [steps EXCEPT ![s] = st] \in [Seqs -> StepStatuses \cup {"absent"}]
BY DEF WritersTyped

\* What the steps of a node have in common: it moves on while the process is up and
\* the run is in progress, and only a claim gives a number.
LEMMA TracerEffect ==
  ASSUME IInv, NEW n \in Nodes, TracerStep(n)
  PROVE  /\ up /\ status = "RUNNING" /\ UNCHANGED <<status, cancelled, up>>
         /\ node' \in [Nodes -> NodeStates]
         /\ steps' \in [Seqs -> StepStatuses \cup {"absent"}]
         /\ \/ UNCHANGED <<nextSeq, seq>>
            \/ nextSeq' = nextSeq + 1 /\ seq' = [seq EXCEPT ![n] = nextSeq + 1]
<1> USE DEF IInv, WritersTyped
<1>1. /\ up /\ node[n] \notin {"closed", "stopped"} /\ UNCHANGED <<status, cancelled, up>>
      /\ \E pc \in NodeStates : node' = [node EXCEPT ![n] = pc]
  BY DEF TracerStep, ClaimSeq, InsertStep, EnterBody, LeaveBody, CloseStep, CancelBody,
         CloseCancelled, CancelOutsideBody
<1>2. \/ UNCHANGED steps \/ \E st \in StepStatuses : steps' = [steps EXCEPT ![seq[n]] = st]
  BY DEF TracerStep, ClaimSeq, InsertStep, EnterBody, LeaveBody, CloseStep, CancelBody,
         CloseCancelled, CancelOutsideBody
<1>3. \/ UNCHANGED <<nextSeq, seq>>
      \/ nextSeq' = nextSeq + 1 /\ seq' = [seq EXCEPT ![n] = nextSeq + 1]
  BY DEF TracerStep, ClaimSeq, InsertStep, EnterBody, LeaveBody, CloseStep, CancelBody,
         CloseCancelled, CancelOutsideBody
<1> QED
  BY <1>1, <1>2, <1>3, OneStepWritten DEF WritersHaveEnded

LEMMA InitIInv == Init => IInv
<1> SUFFICES ASSUME Init PROVE IInv
    OBVIOUS
<1>1. WritersTyped
  BY DEF Init, WritersTyped, NoSteps
<1>2. NumbersAreGiven
  BY DEF Init, NumbersAreGiven, SeqsAreUnique
<1>3. WritersHaveEnded /\ RestartClosesSteps
  BY DEF Init, WritersHaveEnded, RestartClosesSteps
<1>4. QED
  BY <1>1, <1>2, <1>3 DEF IInv

LEMMA StepIInv == IInv /\ [Next]_vars => IInv'
<1> SUFFICES ASSUME IInv, [Next]_vars
             PROVE  IInv'
    OBVIOUS
<1> USE DEF IInv, WritersTyped
<1>1. ASSUME NEW n \in Nodes, TracerStep(n) PROVE IInv'
  <2>1. WritersTyped' /\ WritersHaveEnded' /\ RestartClosesSteps'
    BY <1>1, TracerEffect DEF WritersHaveEnded, RestartClosesSteps
  <2>2. NumbersAreGiven'
    BY <1>1, TracerEffect DEF NumbersAreGiven, SeqsAreUnique
  <2>3. QED
    BY <2>1, <2>2
<1>2. CASE CancelRun
  BY <1>2 DEF CancelRun, NumbersAreGiven, SeqsAreUnique, WritersHaveEnded, RestartClosesSteps
<1>3. CASE EndRun
  BY <1>3 DEF EndRun, NumbersAreGiven, SeqsAreUnique, WritersHaveEnded, RestartClosesSteps
<1>4. CASE Crash
  BY <1>4 DEF Crash, NumbersAreGiven, SeqsAreUnique, WritersHaveEnded, RestartClosesSteps
<1>5. CASE Recover
  BY <1>5 DEF Recover, NumbersAreGiven, SeqsAreUnique, WritersHaveEnded, RestartClosesSteps
<1>6. CASE Reader
  BY <1>6, ReadersWriteNothing
  DEF NumbersAreGiven, SeqsAreUnique, WritersHaveEnded, RestartClosesSteps
<1>7. CASE UNCHANGED vars
  BY <1>7 DEF NumbersAreGiven, SeqsAreUnique, WritersHaveEnded, RestartClosesSteps
<1>8. QED
  BY <1>1, <1>2, <1>3, <1>4, <1>5, <1>6, <1>7 DEF Next, Reader

\* The inductive invariant holds in every reachable state.
THEOREM Invariance == Spec => []IInv
  BY InitIInv, StepIInv, PTL DEF Spec

\* However many nodes claim numbers at once, no two get the same; and a run that a
\* restart failed is left without a step shown as running (Tracer, fail_unfinished).
THEOREM TraceAlwaysSound == Spec => []TraceIsSound
<1>1. IInv => TraceIsSound
  BY DEF IInv, NumbersAreGiven, TraceIsSound
<1>2. QED
  BY <1>1, Invariance, PTL

\* A stored end is final: neither a late node nor a recovery changes the run's
\* status or its steps again.
StoredEndIsFinal == [][status # "RUNNING" => UNCHANGED <<status, steps>>]_vars

THEOREM EndIsFinal == Spec => StoredEndIsFinal
<1>1. IInv /\ [Next]_vars => [status # "RUNNING" => UNCHANGED <<status, steps>>]_vars
  <2> SUFFICES ASSUME IInv, Next, status # "RUNNING"
               PROVE  UNCHANGED <<status, steps>>
      OBVIOUS
  <2>1. ~ \E n \in Nodes : TracerStep(n)
    BY TracerEffect
  <2>2. QED
    BY <2>1, ReadersWriteNothing DEF Next, Reader, CancelRun, EndRun, Crash, Recover
<1>2. QED
  BY <1>1, Invariance, PTL DEF Spec, StoredEndIsFinal

-----------------------------------------------------------------------------
(* The page.  Its invariant is kept by steps that keep IInv.               *)

\* One value a step may have before another.
Leads(a, b) ==
  \/ a \in {b, "absent"}
  \/ a = "RUNNING" /\ b \in {"OK", "ERROR"}

\* A number that no node has written stands for no row, and a node that is at work
\* on its row finds it running.
RowsFollowNodes ==
  /\ \A s \in Seqs : s > nextSeq => steps[s] = "absent"
  /\ \A n \in Nodes : seq[n] \in Seqs =>
       /\ node[n] = "claimed" => steps[seq[n]] = "absent"
       /\ node[n] \in {"inserted", "open", "closing", "erring"} => steps[seq[n]] = "RUNNING"

PageTyped ==
  /\ client \in [steps : [Seqs -> StepStatuses \cup {"absent"}],
                 status : {"none", "RUNNING"} \cup TerminalStatuses,
                 connection : {"connecting", "live", "reconnecting", "closed"},
                 ended : {"none", "timeout"}]
  /\ channel \in Seq(Event)
  /\ server \in {"none", "poll", "read"} /\ greeted \in BOOLEAN
  /\ seen \in {"none", "RUNNING"} \cup TerminalStatuses
  /\ server = "read" => seen # "none"
  /\ sent \in [Seqs -> StepStatuses \cup {"absent"}]
  /\ page \in {"RUNNING"} \cup TerminalStatuses
  /\ page = "RUNNING" => stored = NotFetched

\* What an event says of a step, if it speaks of it.
Speaks(e, s) == e.type = "snapshot" \/ (e.type = "step" /\ e.seq = s)
Says(e, s) == IF e.type = "snapshot" THEN e.steps[s] ELSE e.status

\* From the page through the connection to the stored row, a step only goes on.
StepsGoOn ==
  \A s \in Seqs :
    /\ Leads(client.steps[s], steps[s]) /\ Leads(sent[s], steps[s])
    /\ \A i \in DOMAIN channel : Speaks(channel[i], s) =>
         Leads(client.steps[s], Says(channel[i], s)) /\ Leads(Says(channel[i], s), steps[s])
    /\ \A i, j \in DOMAIN channel : i < j /\ Speaks(channel[i], s) /\ Speaks(channel[j], s) =>
         Leads(Says(channel[i], s), Says(channel[j], s))

\* A connection that carries something is live, and a closed one carries nothing.
ConnectionIsLive ==
  /\ server # "none" \/ channel # <<>> => client.connection = "live"
  /\ greeted \/ channel = <<>>

\* What was last said of a step, on its way or on the page, is what the server remembers.
SentIsSaid ==
  greeted /\ (server # "none" \/ channel # <<>>) => \A s \in Seqs :
    /\ (\A i \in DOMAIN channel : ~Speaks(channel[i], s)) => client.steps[s] = sent[s]
    /\ \A i \in DOMAIN channel :
         Speaks(channel[i], s) /\ (\A j \in DOMAIN channel : j > i => ~Speaks(channel[j], s)) =>
           Says(channel[i], s) = sent[s]

\* The end of the stream comes last, and "done" comes when nothing can change any more.
EndComesLast ==
  /\ server = "read" /\ seen \in TerminalStatuses => status = seen
  /\ \A i \in DOMAIN channel : channel[i].type \in {"done", "timeout"} =>
       /\ i = Len(channel) /\ server = "none"
       /\ channel[i].type = "done" =>
            channel[i].status = status /\ status \in TerminalStatuses /\ sent = steps

\* Nothing can change any more for a page that has seen it.
DoneIsOver ==
  client.connection = "closed" /\ client.ended = "none" =>
    status \in TerminalStatuses /\ client.status = status /\ client.steps = steps

PInv == RowsFollowNodes /\ PageTyped /\ StepsGoOn /\ ConnectionIsLive /\ SentIsSaid /\ EndComesLast /\ DoneIsOver

-----------------------------------------------------------------------------
\* A step's number counts the changed steps up to it: each number from one to
\* their count belongs to exactly one of them.
LEMMA Enumerated ==
  ASSUME NEW S \in SUBSET Nat, IsFiniteSet(S)
  PROVE  /\ Cardinality(S) \in Nat
         /\ \A s \in S : Cardinality({r \in S : r <= s}) \in 1..Cardinality(S)
         /\ \A i \in 1..Cardinality(S) : \E s \in S : Cardinality({r \in S : r <= s}) = i
         /\ \A s, t \in S : Cardinality({r \in S : r <= s}) = Cardinality({r \in S : r <= t}) => s = t
<1> DEFINE below(s) == {r \in S : r <= s}
           rank == [s \in S |-> Cardinality(below(s))]
<1>1. Cardinality(S) \in Nat
  BY FS_CardinalityType
<1>2. \A s \in S : below(s) \in SUBSET S /\ IsFiniteSet(below(s)) /\ s \in below(s)
  BY FS_Subset
<1>3. \A s \in S : /\ Cardinality(below(s)) \in Nat /\ Cardinality(below(s)) # 0
                   /\ Cardinality(below(s)) <= Cardinality(S)
  BY <1>2, FS_Subset, FS_CardinalityType, FS_EmptySet
<1>4. \A s, t \in S : Cardinality(below(s)) = Cardinality(below(t)) => s = t
  <2> SUFFICES ASSUME NEW s \in S, NEW t \in S, s < t,
                      Cardinality(below(s)) = Cardinality(below(t))
               PROVE  FALSE
      OBVIOUS
  <2>1. s \in Nat /\ t \in Nat /\ \A r \in S : r \in Nat
    OBVIOUS
  <2>2. t \in below(t) /\ t \notin below(s)
    BY <2>1
  <2>3. \A r \in S : r <= s => r <= t
    BY <2>1
  <2>4. below(s) \in SUBSET below(t)
    BY <2>3
  <2>5. QED
    BY <2>2, <2>4, <1>2, FS_Subset
<1>5. rank \in [S -> 1..Cardinality(S)]
  BY <1>1, <1>3
<1>6. rank \in Injection(S, 1..Cardinality(S))
  <2>1. \A s, t \in S : rank[s] = rank[t] => s = t
    BY <1>4
  <2> HIDE DEF rank
  <2>2. QED
    BY <1>5, <2>1, Fun_IsInj
<1>7. IsFiniteSet(1..Cardinality(S)) /\ Cardinality(1..Cardinality(S)) = Cardinality(S)
  BY <1>1, FS_Interval
<1>8. rank \in Surjection(S, 1..Cardinality(S))
  BY <1>6, <1>7, FS_Injection
<1>9. \A i \in 1..Cardinality(S) : \E s \in S : rank[s] = i
  BY <1>8 DEF Surjection
<1>10. QED
  BY <1>1, <1>3, <1>4, <1>9
\* Any change of a row is one its page may make.
LEMMA LeadsOrder ==
  ASSUME NEW a \in StepStatuses \cup {"absent"}, NEW b \in StepStatuses \cup {"absent"},
         NEW c \in StepStatuses \cup {"absent"}, Leads(a, b), Leads(b, c)
  PROVE  Leads(a, c)
BY DEF Leads

\* A step of a node moves the row it stands at forward, and no other.
LEMMA TracerRows ==
  ASSUME IInv, RowsFollowNodes, NEW n \in Nodes, TracerStep(n)
  PROVE  RowsFollowNodes' /\ \A s \in Seqs : Leads(steps[s], steps'[s])
<1> USE DEF IInv, WritersTyped
<1>1. CASE ClaimSeq(n)
  BY <1>1 DEF ClaimSeq, RowsFollowNodes, NumbersAreGiven, Leads, Seqs
<1>2. CASE InsertStep(n)
  BY <1>2 DEF InsertStep, RowsFollowNodes, NumbersAreGiven, SeqsAreUnique, Leads, Seqs
<1>3. CASE EnterBody(n) \/ LeaveBody(n) \/ CancelBody(n)
  BY <1>3 DEF EnterBody, LeaveBody, CancelBody, RowsFollowNodes, Leads
<1>4. \A m \in Nodes : m # n /\ seq[m] \in Seqs => seq[m] # seq[n]
  BY DEF NumbersAreGiven, SeqsAreUnique, Seqs
<1>5. seq[n] \in Nat /\ seq[n] <= nextSeq
  BY DEF NumbersAreGiven
<1>6. CASE CloseStep(n) \/ CloseCancelled(n)
  <2>1. /\ node[n] \in {"closing", "erring"} /\ node' = [node EXCEPT ![n] = "closed"]
        /\ UNCHANGED <<nextSeq, seq>>
    BY <1>6 DEF CloseStep, CloseCancelled
  <2>2. \E st \in {"OK", "ERROR"} : steps' = [steps EXCEPT ![seq[n]] = st]
    BY <1>6 DEF CloseStep, CloseCancelled
  <2>3. \A s \in Seqs : s = seq[n] => steps[s] = "RUNNING"
    BY <2>1 DEF RowsFollowNodes
  <2>4. \A s \in Seqs : Leads(steps[s], steps'[s])
    BY <2>2, <2>3 DEF Leads
  <2>5. \A s \in Seqs : s # seq[n] => steps'[s] = steps[s]
    BY <2>2
  <2>6. \A s \in Seqs : s > nextSeq => s # seq[n]
    BY <1>5 DEF Seqs
  <2>7. RowsFollowNodes'
    BY <1>4, <2>1, <2>5, <2>6 DEF RowsFollowNodes
  <2>8. QED
    BY <2>4, <2>7
<1>7. CASE CancelOutsideBody(n)
  <2>1. /\ node[n] \in {"idle", "inserted", "claimed", "closing"}
        /\ node' = [node EXCEPT ![n] = "stopped"] /\ UNCHANGED <<nextSeq, seq>>
    BY <1>7 DEF CancelOutsideBody
  <2>2. \/ UNCHANGED steps
        \/ node[n] = "claimed" /\ steps' = [steps EXCEPT ![seq[n]] = "RUNNING"]
        \/ node[n] = "closing" /\ \E st \in {"OK", "ERROR"} : steps' = [steps EXCEPT ![seq[n]] = st]
    BY <1>7 DEF CancelOutsideBody
  <2>3. \A s \in Seqs : s = seq[n] =>
          /\ node[n] = "claimed" => steps[s] = "absent"
          /\ node[n] = "closing" => steps[s] = "RUNNING"
    BY DEF RowsFollowNodes
  <2>4. \A s \in Seqs : Leads(steps[s], steps'[s])
    BY <2>2, <2>3 DEF Leads
  <2>5. \A s \in Seqs : s # seq[n] => steps'[s] = steps[s]
    BY <2>2
  <2>6. \A s \in Seqs : s > nextSeq => s # seq[n]
    BY <1>5 DEF Seqs
  <2>7. RowsFollowNodes'
    BY <1>4, <2>1, <2>5, <2>6 DEF RowsFollowNodes
  <2>8. QED
    BY <2>4, <2>7
<1>8. QED
  BY <1>1, <1>2, <1>3, <1>6, <1>7 DEF TracerStep

LEMMA RowsStep ==
  ASSUME IInv, RowsFollowNodes, [Next]_vars
  PROVE  RowsFollowNodes' /\ \A s \in Seqs : Leads(steps[s], steps'[s])
<1> USE DEF IInv, WritersTyped
<1>1. ASSUME NEW n \in Nodes, TracerStep(n) PROVE RowsFollowNodes' /\ \A s \in Seqs : Leads(steps[s], steps'[s])
  BY <1>1, TracerRows
<1>2. CASE CancelRun \/ EndRun
  BY <1>2 DEF CancelRun, EndRun, RowsFollowNodes, Leads
<1>3. CASE Crash
  BY <1>3 DEF Crash, RowsFollowNodes, Leads
<1>4. CASE Recover
  BY <1>4 DEF Recover, RowsFollowNodes, WritersHaveEnded, Leads
<1>5. CASE Reader
  BY <1>5, ReadersWriteNothing DEF RowsFollowNodes, Leads
<1>6. CASE UNCHANGED vars
  BY <1>6 DEF RowsFollowNodes, Leads
<1>7. QED
  BY <1>1, <1>2, <1>3, <1>4, <1>5, <1>6 DEF Next, Reader
-----------------------------------------------------------------------------
\* What one poll has to say: every step that is new or changed, as stored.
LEMMA PollTellsChanges ==
  ASSUME IInv, PageTyped, StepsGoOn, server = "read"
  PROVE  /\ Poll \in Seq(Event)
         /\ \A i \in DOMAIN Poll : Poll[i].type \in {"snapshot", "step"}
         /\ \A i \in DOMAIN Poll, s \in Seqs : Speaks(Poll[i], s) => Says(Poll[i], s) = steps[s]
         /\ \A s \in Seqs : (greeted /\ steps[s] = sent[s]) \/ \E i \in DOMAIN Poll : Speaks(Poll[i], s)
<1> USE DEF IInv, WritersTyped, PageTyped
<1>1. CASE ~greeted
  <2>1. Snapshot \in Event
    BY DEF Snapshot, Event
  <2>2. /\ Poll = <<Snapshot>> /\ DOMAIN Poll = {1} /\ Poll[1] = Snapshot
        /\ \A s \in Seqs : Speaks(Snapshot, s) /\ Says(Snapshot, s) = steps[s]
    BY <1>1 DEF Poll, Snapshot, Speaks, Says
  <2>3. Snapshot.type = "snapshot"
    BY DEF Snapshot
  <2>4. QED
    BY <2>1, <2>2, <2>3
<1>2. CASE greeted
  <2> DEFINE changed == {s \in Seqs : steps[s] # sent[s]}
             Chosen(i) == CHOOSE s \in changed : Cardinality({r \in changed : r <= s}) = i
  <2>1. changed \in SUBSET Nat /\ IsFiniteSet(changed)
    <3>1. Cardinality(Nodes) \in Nat
      BY StreamAssumption, FS_CardinalityType
    <3>2. Seqs \in SUBSET Nat /\ IsFiniteSet(Seqs)
      BY <3>1, FS_Interval DEF Seqs
    <3>3. QED
      BY <3>2, FS_Subset
  <2> HIDE DEF changed
  <2>2. /\ Cardinality(changed) \in Nat
        /\ \A s \in changed : Cardinality({r \in changed : r <= s}) \in 1..Cardinality(changed)
        /\ \A i \in 1..Cardinality(changed) : \E s \in changed : Cardinality({r \in changed : r <= s}) = i
        /\ \A s, t \in changed : Cardinality({r \in changed : r <= s}) = Cardinality({r \in changed : r <= t}) => s = t
    BY <2>1, Enumerated
  <2>3. ASSUME NEW i \in 1..Cardinality(changed)
        PROVE  Chosen(i) \in changed /\ Cardinality({r \in changed : r <= Chosen(i)}) = i
    <3>1. \E s \in changed : Cardinality({r \in changed : r <= s}) = i
      BY <2>2
    <3>2. QED
      BY <3>1, Zenon
  <2>4. \A s \in changed : \E i \in 1..Cardinality(changed) : Chosen(i) = s
    <3>1. SUFFICES ASSUME NEW s \in changed
                   PROVE  \E i \in 1..Cardinality(changed) : Chosen(i) = s
        OBVIOUS
    <3>2. PICK i \in 1..Cardinality(changed) : i = Cardinality({r \in changed : r <= s})
      BY <2>2
    <3>3. Chosen(i) \in changed /\ Cardinality({r \in changed : r <= Chosen(i)}) = i
      BY <2>3
    <3>4. QED
      BY <2>2, <3>2, <3>3
  <2> HIDE DEF Chosen
  <2>5. Poll = [i \in 1..Cardinality(changed) |->
                  [type |-> "step", seq |-> Chosen(i), status |-> steps[Chosen(i)]]]
    BY <1>2 DEF Poll, Updates, changed, Chosen
  <2>6. \A s \in changed : s \in Seqs /\ steps[s] # sent[s]
    BY DEF changed
  <2>7. \A s \in Seqs \ changed : steps[s] = sent[s]
    BY DEF changed
  <2>8. \A i \in 1..Cardinality(changed) :
          /\ Poll[i] = [type |-> "step", seq |-> Chosen(i), status |-> steps[Chosen(i)]]
          /\ Chosen(i) \in Seqs /\ steps[Chosen(i)] \in StepStatuses
    <3>1. \A s \in changed : s \in Seqs /\ steps[s] \in StepStatuses
      BY <2>6 DEF StepsGoOn, Leads
    <3>2. QED
      BY <2>3, <2>5, <3>1
  <2>9. ASSUME NEW i \in 1..Cardinality(changed)
        PROVE  /\ Poll[i] \in Event /\ Poll[i].type = "step"
               /\ Poll[i].seq = Chosen(i) /\ Poll[i].status = steps[Chosen(i)]
    <3>1. /\ Poll[i] = [type |-> "step", seq |-> Chosen(i), status |-> steps[Chosen(i)]]
          /\ Chosen(i) \in Seqs /\ steps[Chosen(i)] \in StepStatuses
      BY <2>8
    <3>2. QED
      BY <3>1 DEF Event
  <2>10. Poll \in Seq(Event) /\ DOMAIN Poll = 1..Cardinality(changed)
    BY <2>2, <2>5, <2>9
  <2>11. \A i \in 1..Cardinality(changed), s \in Seqs :
           /\ Poll[i].type = "step"
           /\ Speaks(Poll[i], s) <=> Chosen(i) = s
           /\ Speaks(Poll[i], s) => Says(Poll[i], s) = steps[s]
    BY <2>9 DEF Speaks, Says
  <2>12. \A s \in Seqs : (greeted /\ steps[s] = sent[s]) \/ \E i \in DOMAIN Poll : Speaks(Poll[i], s)
    BY <1>2, <2>4, <2>7, <2>10, <2>11
  <2>13. QED
    BY <2>9, <2>10, <2>11, <2>12
<1>3. QED
  BY <1>1, <1>2

\* One poll appends what it has to say, and after it at most the end of the stream.
LEMMA ReadEffect ==
  ASSUME IInv, PageTyped, StepsGoOn, NEW last \in Seq(Event), ReadSteps(last),
         Len(last) <= 1, \A i \in DOMAIN last : last[i].type \in {"done", "timeout"}
  PROVE  /\ channel' \in Seq(Event) /\ Len(channel) <= Len(channel')
         /\ \A i \in 1..Len(channel) : channel'[i] = channel[i]
         /\ \A i \in DOMAIN channel', s \in Seqs :
              i > Len(channel) /\ Speaks(channel'[i], s) => Says(channel'[i], s) = steps[s]
         /\ \A s \in Seqs : \/ greeted /\ steps[s] = sent[s]
                            \/ \E i \in DOMAIN channel' : i > Len(channel) /\ Speaks(channel'[i], s)
         /\ \A i \in DOMAIN channel' :
              i > Len(channel) /\ channel'[i].type \in {"done", "timeout"} =>
                i = Len(channel') /\ last # <<>> /\ channel'[i] = last[1]
<1> DEFINE a == Len(channel)
           b == Len(channel) + Len(Poll)
<1>1. /\ channel \in Seq(Event) /\ Poll \in Seq(Event) /\ channel' = (channel \o Poll) \o last
  BY PollTellsChanges DEF ReadSteps, PageTyped
<1>2. /\ channel' \in Seq(Event) /\ Len(channel') = b + Len(last)
      /\ a \in Nat /\ Len(Poll) \in Nat /\ Len(last) \in {0, 1}
      /\ \A i \in 1..a : channel'[i] = channel[i]
      /\ \A i \in (a + 1)..b : channel'[i] = Poll[i - a] /\ i - a \in DOMAIN Poll
      /\ \A i \in (b + 1)..Len(channel') : channel'[i] = last[1] /\ i = b + 1 /\ Len(last) = 1
  <2>1. /\ channel \o Poll \in Seq(Event) /\ Len(channel \o Poll) = b
        /\ \A i \in 1..a : (channel \o Poll)[i] = channel[i]
        /\ \A i \in (a + 1)..b : (channel \o Poll)[i] = Poll[i - a]
    BY <1>1
  <2>2. /\ channel' \in Seq(Event) /\ Len(channel') = b + Len(last)
        /\ \A i \in 1..b : channel'[i] = (channel \o Poll)[i]
        /\ \A i \in (b + 1)..(b + Len(last)) : channel'[i] = last[i - b]
    BY <1>1, <2>1
  <2>3. a \in Nat /\ Len(Poll) \in Nat /\ Len(last) \in Nat /\ DOMAIN Poll = 1..Len(Poll)
    BY <1>1
  <2>4. Len(last) \in {0, 1}
    <3>1. \A n \in Nat : n <= 1 => n \in {0, 1}
      OBVIOUS
    <3>2. QED
      BY <2>3, <3>1
  <2>5. \A i \in (a + 1)..b : i \in 1..b /\ i - a \in DOMAIN Poll
    BY <2>3
  <2>6. \A i \in 1..a : i \in 1..b
    BY <2>3
  <2>7. \A i \in (b + 1)..(b + Len(last)) : Len(last) = 1 /\ i = b + 1 /\ i - b = 1
    BY <2>3, <2>4
  <2>8. QED
    BY <2>1, <2>2, <2>3, <2>4, <2>5, <2>6, <2>7
<1>3. DOMAIN channel' = 1..Len(channel') /\ b \in Nat /\ a <= b
  BY <1>2
<1>4. \A i \in DOMAIN channel' : i > a => i \in (a + 1)..b \/ i = b + 1
  BY <1>2, <1>3
<1>5. \A i \in DOMAIN Poll : (a + i) \in (a + 1)..b /\ channel'[a + i] = Poll[i]
  BY <1>1, <1>2
<1>6. /\ \A i \in DOMAIN Poll : Poll[i].type \in {"snapshot", "step"}
      /\ \A i \in DOMAIN Poll, s \in Seqs : Speaks(Poll[i], s) => Says(Poll[i], s) = steps[s]
      /\ \A s \in Seqs : (greeted /\ steps[s] = sent[s]) \/ \E i \in DOMAIN Poll : Speaks(Poll[i], s)
  BY PollTellsChanges DEF ReadSteps
<1>7. \A i \in (b + 1)..Len(channel') : channel'[i].type \in {"done", "timeout"}
  BY <1>2
<1>8. \A i \in DOMAIN channel', s \in Seqs :
        i > a /\ Speaks(channel'[i], s) => Says(channel'[i], s) = steps[s]
  <2>1. \A i \in (b + 1)..Len(channel'), s \in Seqs : ~Speaks(channel'[i], s)
    BY <1>7 DEF Speaks
  <2>2. QED
    BY <1>2, <1>3, <1>4, <1>6, <2>1
<1>9. \A s \in Seqs : \/ greeted /\ steps[s] = sent[s]
                      \/ \E i \in DOMAIN channel' : i > a /\ Speaks(channel'[i], s)
  <2>1. \A i \in DOMAIN Poll : (a + i) \in DOMAIN channel' /\ a + i > a
    BY <1>1, <1>2, <1>3, <1>5
  <2>2. QED
    BY <1>5, <1>6, <2>1
<1>10. \A i \in DOMAIN channel' :
         i > a /\ channel'[i].type \in {"done", "timeout"} =>
           i = Len(channel') /\ last # <<>> /\ channel'[i] = last[1]
  <2>1. \A i \in (a + 1)..b : channel'[i].type \in {"snapshot", "step"}
    BY <1>2, <1>6
  <2>2. \A i \in DOMAIN channel' : i = b + 1 => i \in (b + 1)..Len(channel') /\ i = Len(channel')
    BY <1>2, <1>3
  <2>3. Len(last) = 1 => last # <<>>
    OBVIOUS
  <2>4. QED
    BY <1>2, <1>3, <1>4, <2>1, <2>2, <2>3
<1> QED
  BY <1>2, <1>3, <1>8, <1>9, <1>10

\* The page takes in the first event that is on its way.
LEMMA ApplyEffect ==
  ASSUME PageTyped, Apply
  PROVE  /\ channel' \in Seq(Event) /\ Len(channel') = Len(channel) - 1 /\ Len(channel) \in Nat \ {0}
         /\ \A i \in DOMAIN channel' : i + 1 \in DOMAIN channel /\ channel'[i] = channel[i + 1]
         /\ channel[1] \in Event /\ client' = Reduce(client, channel[1])
         /\ client' \in [steps : [Seqs -> StepStatuses \cup {"absent"}],
                         status : {"none", "RUNNING"} \cup TerminalStatuses,
                         connection : {"connecting", "live", "reconnecting", "closed"},
                         ended : {"none", "timeout"}]
         /\ \A s \in Seqs : client'.steps[s] = IF Speaks(channel[1], s) THEN Says(channel[1], s)
                                               ELSE client.steps[s]
<1> USE DEF PageTyped
<1>1. /\ channel \in Seq(Event) /\ channel # <<>> /\ channel' = Tail(channel)
      /\ client' = Reduce(client, Head(channel))
  BY DEF Apply
<1>2. /\ channel' \in Seq(Event) /\ Len(channel') = Len(channel) - 1 /\ Len(channel) \in Nat \ {0}
      /\ \A i \in 1..Len(channel') : channel'[i] = channel[i + 1]
      /\ channel[1] \in Event /\ Head(channel) = channel[1]
  BY <1>1
<1>3. \A i \in DOMAIN channel' : i + 1 \in DOMAIN channel /\ channel'[i] = channel[i + 1]
  BY <1>1, <1>2
<1> DEFINE e == channel[1]
<1>4. e \in Event /\ client' = Reduce(client, e)
  BY <1>1, <1>2
<1> HIDE DEF e
<1>5. CASE e.type = "snapshot"
  <2>1. e.steps \in [Seqs -> StepStatuses \cup {"absent"}] /\ e.status \in {"RUNNING"} \cup TerminalStatuses
    BY <1>4, <1>5 DEF Event
  <2>2. client' = [client EXCEPT !.steps = e.steps, !.status = e.status, !.connection = "live"]
    BY <1>4, <1>5 DEF Reduce
  <2>3. QED
    BY <1>2, <1>3, <1>4, <1>5, <2>1, <2>2 DEF Speaks, Says, e
<1>6. CASE e.type = "step"
  <2>1. e.seq \in Seqs /\ e.status \in StepStatuses
    BY <1>4, <1>6 DEF Event
  <2>2. client' = [client EXCEPT !.steps[e.seq] = e.status]
    BY <1>4, <1>6 DEF Reduce
  <2>3. client'.steps = [client.steps EXCEPT ![e.seq] = e.status]
    BY <2>2
  <2>4. \A s \in Seqs : client'.steps[s] = IF Speaks(e, s) THEN Says(e, s) ELSE client.steps[s]
    BY <1>6, <2>1, <2>3 DEF Speaks, Says
  <2>5. client'.steps \in [Seqs -> StepStatuses \cup {"absent"}]
    BY <2>1, <2>3
  <2>6. QED
    BY <1>2, <1>3, <1>4, <2>2, <2>4, <2>5 DEF e
<1>7. CASE e.type = "done"
  <2>1. e.status \in TerminalStatuses
    BY <1>4, <1>7 DEF Event
  <2>2. client' = [client EXCEPT !.status = e.status, !.connection = "closed"]
    BY <1>4, <1>7 DEF Reduce
  <2>3. QED
    BY <1>2, <1>3, <1>4, <1>7, <2>1, <2>2 DEF Speaks, Says, e
<1>8. CASE e.type = "timeout"
  <2>1. client' = [client EXCEPT !.connection = "closed", !.ended = "timeout"]
    BY <1>4, <1>8 DEF Reduce
  <2>2. QED
    BY <1>2, <1>3, <1>4, <1>8, <2>1 DEF Speaks, Says, e
<1>9. QED
  BY <1>4, <1>5, <1>6, <1>7, <1>8 DEF Event

\* Nothing is written of a run whose end is stored.
LEMMA StoredEndStays ==
  ASSUME IInv, [Next]_vars, status # "RUNNING"
  PROVE  UNCHANGED <<status, steps>>
<1>1. ~ \E n \in Nodes : TracerStep(n)
  BY TracerEffect
<1>2. QED
  BY <1>1, ReadersWriteNothing DEF Next, Reader, CancelRun, EndRun, Crash, Recover

-----------------------------------------------------------------------------
(* Each step keeps the invariant of the page.                              *)

\* The writers of the trace, and a restart.
LEMMA WriterKeeps ==
  ASSUME IInv, IInv', PInv, [Next]_vars, UNCHANGED <<generator, channel, client, query>>
  PROVE  PInv'
<1> USE DEF IInv, WritersTyped, PInv
<1>1. RowsFollowNodes' /\ \A s \in Seqs : Leads(steps[s], steps'[s])
  BY RowsStep
<1>2. PageTyped' /\ ConnectionIsLive' /\ SentIsSaid'
  BY DEF PageTyped, ConnectionIsLive, SentIsSaid
<1>3. StepsGoOn'
  <2>1. \A s \in Seqs : \A a \in StepStatuses \cup {"absent"} : Leads(a, steps[s]) => Leads(a, steps'[s])
    BY <1>1, LeadsOrder
  <2>2. \A s \in Seqs, i \in DOMAIN channel : Speaks(channel[i], s) => Says(channel[i], s) \in StepStatuses \cup {"absent"}
    BY DEF PageTyped, Event, Speaks, Says
  <2>3. \A s \in Seqs : client.steps[s] \in StepStatuses \cup {"absent"} /\ sent[s] \in StepStatuses \cup {"absent"}
    BY DEF PageTyped
  <2>4. QED
    BY <2>1, <2>2, <2>3 DEF StepsGoOn
<1>4. EndComesLast' /\ DoneIsOver'
  <2>1. CASE status = "RUNNING"
    BY <2>1 DEF EndComesLast, DoneIsOver
  <2>2. CASE status # "RUNNING"
    BY <2>2, StoredEndStays DEF EndComesLast, DoneIsOver
  <2>3. QED
    BY <2>1, <2>2
<1>5. QED
  BY <1>1, <1>2, <1>3, <1>4

\* A connection that ends or begins, with nothing on its way.
LEMMA ConnectionKeeps ==
  ASSUME IInv, PInv, [Next]_vars, UNCHANGED rows, channel' = <<>>, seen' = seen,
         \/ server' = "none" /\ UNCHANGED <<greeted, sent>>
         \/ server' = "poll" /\ greeted' = FALSE /\ sent' = NoSteps,
         \/ UNCHANGED client
         \/ \E c \in {"connecting", "live", "reconnecting"} :
              client' = [client EXCEPT !.connection = c],
         server' # "none" => client'.connection = "live",
         UNCHANGED page \/ page' = status, UNCHANGED stored \/ page # "RUNNING",
         page' = "RUNNING" => page = "RUNNING"
  PROVE  PInv'
<1> USE DEF IInv, WritersTyped, PInv, PageTyped
<1>1. RowsFollowNodes'
  BY RowsStep
<1>2. /\ client'.steps = client.steps /\ client'.status = client.status /\ client'.ended = client.ended
      /\ client'.connection = "closed" => client.connection = "closed"
      /\ client' \in [steps : [Seqs -> StepStatuses \cup {"absent"}],
                      status : {"none", "RUNNING"} \cup TerminalStatuses,
                      connection : {"connecting", "live", "reconnecting", "closed"},
                      ended : {"none", "timeout"}]
  OBVIOUS
<1>3. PageTyped'
  <2>1. channel' \in Seq(Event) /\ sent' \in [Seqs -> StepStatuses \cup {"absent"}]
    BY DEF NoSteps
  <2>2. page' \in {"RUNNING"} \cup TerminalStatuses /\ (page' = "RUNNING" => stored' = NotFetched)
    OBVIOUS
  <2>3. QED
    BY <1>2, <2>1, <2>2
<1>4. StepsGoOn'
  <2>1. DOMAIN channel' = {}
    OBVIOUS
  <2>2. \A s \in Seqs : sent'[s] \in {sent[s], "absent"}
    BY DEF NoSteps
  <2>3. QED
    BY <1>2, <2>1, <2>2 DEF StepsGoOn, Leads
<1>5. ConnectionIsLive' /\ SentIsSaid'
  BY DEF ConnectionIsLive, SentIsSaid
<1>6. EndComesLast'
  BY DEF EndComesLast
<1>7. DoneIsOver'
  BY <1>2 DEF DoneIsOver
<1>8. QED
  BY <1>1, <1>3, <1>4, <1>5, <1>6, <1>7

\* One poll of the run and its steps.
LEMMA PollKeeps ==
  ASSUME IInv, PInv, [Next]_vars, NEW last \in Seq(Event), ReadSteps(last), Len(last) <= 1,
         \A i \in DOMAIN last :
           /\ last[i].type \in {"done", "timeout"}
           /\ last[i].type = "done" => last[i].status = seen /\ seen \in TerminalStatuses,
         server' = (IF last = <<>> THEN "poll" ELSE "none")
  PROVE  PInv'
<1> USE DEF IInv, WritersTyped, PInv
<1> DEFINE a == Len(channel)
<1>1. /\ channel' \in Seq(Event) /\ a <= Len(channel')
      /\ \A i \in 1..a : channel'[i] = channel[i]
      /\ \A i \in DOMAIN channel', s \in Seqs :
           i > a /\ Speaks(channel'[i], s) => Says(channel'[i], s) = steps[s]
      /\ \A s \in Seqs : \/ greeted /\ steps[s] = sent[s]
                         \/ \E i \in DOMAIN channel' : i > a /\ Speaks(channel'[i], s)
      /\ \A i \in DOMAIN channel' :
           i > a /\ channel'[i].type \in {"done", "timeout"} =>
             i = Len(channel') /\ last # <<>> /\ channel'[i] = last[1]
  BY ReadEffect
<1>2. /\ UNCHANGED <<status, nextSeq, steps, node, seq, seen, client, page, stored>>
      /\ sent' = steps /\ greeted' = TRUE /\ server = "read"
  BY DEF ReadSteps
<1>3. /\ channel \in Seq(Event) /\ a \in Nat /\ Len(channel') \in Nat
      /\ DOMAIN channel = 1..a /\ DOMAIN channel' = 1..Len(channel')
      /\ \A i \in DOMAIN channel' : i \in 1..a \/ i > a
      /\ \A i \in 1..a : i \in DOMAIN channel'
  BY <1>1 DEF PageTyped
<1> HIDE DEF a
<1>4. RowsFollowNodes'
  BY RowsStep
<1>5. PageTyped'
  BY <1>1, <1>2 DEF PageTyped
<1>6. StepsGoOn'
  <2>1. \A s \in Seqs : Leads(steps[s], steps[s]) /\ Leads(client.steps[s], steps[s])
    BY DEF StepsGoOn, Leads
  <2>2. \A i \in DOMAIN channel', s \in Seqs : Speaks(channel'[i], s) =>
          /\ Leads(client.steps[s], Says(channel'[i], s)) /\ Leads(Says(channel'[i], s), steps[s])
    BY <1>1, <1>3, <2>1 DEF StepsGoOn
  <2>3. \A i, j \in DOMAIN channel', s \in Seqs :
          i < j /\ Speaks(channel'[i], s) /\ Speaks(channel'[j], s) =>
            Leads(Says(channel'[i], s), Says(channel'[j], s))
    <3>1. SUFFICES ASSUME NEW i \in DOMAIN channel', NEW j \in DOMAIN channel', NEW s \in Seqs,
                          i < j, Speaks(channel'[i], s), Speaks(channel'[j], s)
                   PROVE  Leads(Says(channel'[i], s), Says(channel'[j], s))
        OBVIOUS
    <3>2. CASE j > a
      BY <1>1, <2>2, <3>1, <3>2
    <3>3. CASE j \in 1..a
      <4>1. i \in 1..a /\ channel'[i] = channel[i] /\ channel'[j] = channel[j]
        BY <1>1, <1>3, <3>1, <3>3
      <4>2. QED
        BY <1>3, <3>1, <3>3, <4>1 DEF StepsGoOn
    <3>4. QED
      BY <1>3, <3>2, <3>3
  <2>4. QED
    BY <1>2, <2>1, <2>2, <2>3 DEF StepsGoOn
<1>7. ConnectionIsLive'
  BY <1>2 DEF ConnectionIsLive
<1>8. SentIsSaid'
  <2>1. \A s \in Seqs : (\A i \in DOMAIN channel' : ~Speaks(channel'[i], s)) => client.steps[s] = steps[s]
    <3>1. SUFFICES ASSUME NEW s \in Seqs, \A i \in DOMAIN channel' : ~Speaks(channel'[i], s)
                   PROVE  client.steps[s] = steps[s]
        OBVIOUS
    <3>2. greeted /\ steps[s] = sent[s]
      BY <1>1, <3>1
    <3>3. \A i \in DOMAIN channel : ~Speaks(channel[i], s)
      BY <1>1, <1>3, <3>1
    <3>4. QED
      BY <1>2, <3>2, <3>3 DEF SentIsSaid
  <2>2. \A s \in Seqs, i \in DOMAIN channel' :
          Speaks(channel'[i], s) /\ (\A j \in DOMAIN channel' : j > i => ~Speaks(channel'[j], s)) =>
            Says(channel'[i], s) = steps[s]
    <3>1. SUFFICES ASSUME NEW s \in Seqs, NEW i \in DOMAIN channel', Speaks(channel'[i], s),
                          \A j \in DOMAIN channel' : j > i => ~Speaks(channel'[j], s)
                   PROVE  Says(channel'[i], s) = steps[s]
        OBVIOUS
    <3>2. CASE i > a
      BY <1>1, <3>1, <3>2
    <3>3. CASE i \in 1..a
      <4>1. greeted /\ steps[s] = sent[s]
        BY <1>1, <1>3, <3>1, <3>3
      <4>2. channel'[i] = channel[i] /\ \A j \in 1..a : j > i => ~Speaks(channel[j], s)
        BY <1>1, <1>3, <3>1, <3>3
      <4>3. QED
        BY <1>2, <1>3, <3>1, <3>3, <4>1, <4>2 DEF SentIsSaid
    <3>4. QED
      BY <1>3, <3>2, <3>3
  <2>3. QED
    BY <1>2, <2>1, <2>2 DEF SentIsSaid
<1>9. EndComesLast'
  <2>1. \A i \in 1..a : channel[i].type \notin {"done", "timeout"}
    BY <1>2, <1>3 DEF EndComesLast
  <2>2. \A i \in DOMAIN channel' : channel'[i].type \in {"done", "timeout"} =>
          /\ i = Len(channel') /\ last # <<>> /\ channel'[i] = last[1]
    BY <1>1, <1>3, <2>1
  <2>3. last # <<>> => /\ server' = "none" /\ last[1].type \in {"done", "timeout"}
                       /\ last[1].type = "done" => last[1].status = seen /\ seen \in TerminalStatuses
    BY DEF ReadSteps
  <2>4. seen \in TerminalStatuses => status = seen
    BY <1>2 DEF EndComesLast
  <2>5. server' # "read"
    BY <2>3
  <2>6. QED
    BY <1>2, <2>2, <2>3, <2>4, <2>5 DEF EndComesLast
<1>10. DoneIsOver'
  BY <1>2 DEF DoneIsOver
<1>11. QED
  BY <1>4, <1>5, <1>6, <1>7, <1>8, <1>9, <1>10

\* The page takes in an event.
LEMMA ApplyKeeps ==
  ASSUME IInv, PInv, [Next]_vars, Apply
  PROVE  PInv'
<1> USE DEF IInv, WritersTyped, PInv
<1>1. /\ channel' \in Seq(Event) /\ Len(channel') = Len(channel) - 1 /\ Len(channel) \in Nat \ {0}
      /\ \A i \in DOMAIN channel' : i + 1 \in DOMAIN channel /\ channel'[i] = channel[i + 1]
      /\ channel[1] \in Event /\ client' = Reduce(client, channel[1])
      /\ client' \in [steps : [Seqs -> StepStatuses \cup {"absent"}],
                      status : {"none", "RUNNING"} \cup TerminalStatuses,
                      connection : {"connecting", "live", "reconnecting", "closed"},
                      ended : {"none", "timeout"}]
      /\ \A s \in Seqs : client'.steps[s] = IF Speaks(channel[1], s) THEN Says(channel[1], s)
                                            ELSE client.steps[s]
  BY ApplyEffect
<1>2. UNCHANGED <<status, nextSeq, steps, node, seq, server, greeted, seen, sent, page, stored>> /\ channel # <<>>
  BY DEF Apply
<1>3. /\ DOMAIN channel = 1..Len(channel) /\ 1 \in DOMAIN channel
      /\ DOMAIN channel' = 1..Len(channel') /\ Len(channel') \in Nat /\ channel \in Seq(Event)
      /\ \A j \in DOMAIN channel : j = 1 \/ (j - 1 \in DOMAIN channel' /\ channel[j] = channel'[j - 1])
  BY <1>1 DEF PageTyped
<1>4. RowsFollowNodes'
  BY RowsStep
<1>5. PageTyped'
  BY <1>1, <1>2 DEF PageTyped
<1>6. StepsGoOn'
  <2> SUFFICES ASSUME NEW s \in Seqs
               PROVE  /\ Leads(client'.steps[s], steps[s]) /\ Leads(sent[s], steps[s])
                      /\ \A i \in DOMAIN channel' : Speaks(channel'[i], s) =>
                           /\ Leads(client'.steps[s], Says(channel'[i], s))
                           /\ Leads(Says(channel'[i], s), steps[s])
                      /\ \A i, j \in DOMAIN channel' :
                           i < j /\ Speaks(channel'[i], s) /\ Speaks(channel'[j], s) =>
                             Leads(Says(channel'[i], s), Says(channel'[j], s))
    BY <1>2 DEF StepsGoOn
  <2>1. \A i \in DOMAIN channel' : 1 < i + 1
    BY <1>3
  <2>2. \A i, j \in DOMAIN channel' : i < j => i + 1 < j + 1
    BY <1>3
  <2>7. /\ Leads(client.steps[s], steps[s]) /\ Leads(sent[s], steps[s])
        /\ \A i \in DOMAIN channel : Speaks(channel[i], s) =>
             Leads(client.steps[s], Says(channel[i], s)) /\ Leads(Says(channel[i], s), steps[s])
        /\ \A i, j \in DOMAIN channel : i < j /\ Speaks(channel[i], s) /\ Speaks(channel[j], s) =>
             Leads(Says(channel[i], s), Says(channel[j], s))
    BY DEF StepsGoOn
  <2>8. client'.steps[s] = IF Speaks(channel[1], s) THEN Says(channel[1], s) ELSE client.steps[s]
    BY <1>1
  <2> HIDE DEF IInv, PInv, WritersTyped
  <2>3. Leads(client'.steps[s], steps[s]) /\ Leads(sent[s], steps[s])
    BY <1>3, <2>7, <2>8
  <2>4. \A i \in DOMAIN channel' : Speaks(channel'[i], s) =>
          /\ Leads(client'.steps[s], Says(channel'[i], s)) /\ Leads(Says(channel'[i], s), steps[s])
    <3>1. SUFFICES ASSUME NEW i \in DOMAIN channel', Speaks(channel'[i], s)
                   PROVE  /\ Leads(client'.steps[s], Says(channel'[i], s))
                          /\ Leads(Says(channel'[i], s), steps[s])
        OBVIOUS
    <3>2. i + 1 \in DOMAIN channel /\ channel'[i] = channel[i + 1] /\ 1 < i + 1
      BY <1>1, <2>1
    <3>3. CASE Speaks(channel[1], s)
      BY <1>3, <2>7, <2>8, <3>1, <3>2, <3>3
    <3>4. CASE ~Speaks(channel[1], s)
      BY <2>7, <2>8, <3>1, <3>2, <3>4
    <3>5. QED
      BY <3>3, <3>4
  <2>5. \A i, j \in DOMAIN channel' :
          i < j /\ Speaks(channel'[i], s) /\ Speaks(channel'[j], s) =>
            Leads(Says(channel'[i], s), Says(channel'[j], s))
    BY <1>1, <2>2, <2>7
  <2>6. QED
    BY <2>3, <2>4, <2>5
<1>7. ConnectionIsLive'
  <2>1. /\ client.connection = "live" /\ greeted
        /\ channel[1].type \in {"done", "timeout"} => server = "none" /\ Len(channel) = 1
    BY <1>2, <1>3 DEF ConnectionIsLive, EndComesLast
  <2>2. channel[1].type \in {"snapshot", "step"} => client'.connection = "live"
    BY <1>1, <2>1 DEF Reduce, PageTyped
  <2>3. channel[1].type \in {"snapshot", "step", "done", "timeout"}
    BY <1>1 DEF Event
  <2>4. Len(channel) = 1 => channel' = <<>>
    BY <1>1
  <2>5. QED
    BY <1>2, <2>1, <2>2, <2>3, <2>4 DEF ConnectionIsLive
<1>8. SentIsSaid'
  <2>0. greeted /\ (server # "none" \/ channel # <<>>)
    BY <1>2 DEF ConnectionIsLive
  <2> SUFFICES ASSUME NEW s \in Seqs
               PROVE  /\ (\A i \in DOMAIN channel' : ~Speaks(channel'[i], s)) => client'.steps[s] = sent[s]
                      /\ \A i \in DOMAIN channel' :
                           Speaks(channel'[i], s) /\ (\A j \in DOMAIN channel' : j > i => ~Speaks(channel'[j], s)) =>
                             Says(channel'[i], s) = sent[s]
    BY <1>2 DEF SentIsSaid
  <2>1. ASSUME \A i \in DOMAIN channel' : ~Speaks(channel'[i], s)
        PROVE  client'.steps[s] = sent[s]
    <3>1. \A j \in DOMAIN channel : j > 1 => ~Speaks(channel[j], s)
      BY <1>3, <2>1
    <3>2. CASE Speaks(channel[1], s)
      BY <1>1, <1>3, <2>0, <3>1, <3>2 DEF SentIsSaid
    <3>3. CASE ~Speaks(channel[1], s)
      <4>1. \A j \in DOMAIN channel : ~Speaks(channel[j], s)
        BY <1>3, <2>1, <3>3
      <4>2. QED
        BY <1>1, <2>0, <3>3, <4>1 DEF SentIsSaid
    <3>4. QED
      BY <3>2, <3>3
  <2>2. ASSUME NEW i \in DOMAIN channel', Speaks(channel'[i], s),
               \A j \in DOMAIN channel' : j > i => ~Speaks(channel'[j], s)
        PROVE  Says(channel'[i], s) = sent[s]
    <3>1. \A j \in DOMAIN channel : j > i + 1 => j - 1 \in DOMAIN channel' /\ j - 1 > i /\ channel[j] = channel'[j - 1]
      BY <1>3
    <3>2. i + 1 \in DOMAIN channel /\ channel'[i] = channel[i + 1] /\ \A j \in DOMAIN channel : j > i + 1 => ~Speaks(channel[j], s)
      BY <1>1, <2>2, <3>1
    <3>3. QED
      BY <2>0, <2>2, <3>2 DEF SentIsSaid
  <2>3. QED
    BY <2>1, <2>2
<1>9. EndComesLast'
  <2>1. \A i \in DOMAIN channel' : i + 1 = Len(channel) => i = Len(channel')
    BY <1>1, <1>3
  <2>2. QED
    BY <1>1, <1>2, <2>1 DEF EndComesLast
<1>10. DoneIsOver'
  <2>1. CASE channel[1].type = "done"
    <3>1. /\ channel[1].status = status /\ status \in TerminalStatuses /\ sent = steps /\ 1 = Len(channel)
      BY <1>3, <2>1 DEF EndComesLast
    <3>2. client'.status = status /\ client'.steps = client.steps
      BY <1>1, <2>1, <3>1 DEF Reduce, PageTyped
    <3>3. \A s \in Seqs : client.steps[s] = sent[s]
      <4>1. greeted /\ \A i \in DOMAIN channel, s \in Seqs : ~Speaks(channel[i], s)
        <5>1. \A i \in 1..1 : i = 1
          OBVIOUS
        <5>2. \A s \in Seqs : ~Speaks(channel[1], s)
          BY <2>1 DEF Speaks
        <5>3. QED
          BY <1>2, <1>3, <3>1, <5>1, <5>2 DEF ConnectionIsLive
      <4>2. QED
        BY <1>2, <4>1 DEF SentIsSaid
    <3>4. client.steps = sent
      BY <3>3 DEF PageTyped
    <3>5. QED
      BY <1>2, <3>1, <3>2, <3>4 DEF DoneIsOver
  <2>2. CASE channel[1].type = "timeout"
    BY <1>1, <2>2 DEF Reduce, PageTyped, DoneIsOver
  <2>3. CASE channel[1].type \in {"snapshot", "step"}
    <3>1. client.connection = "live"
      BY <1>2 DEF ConnectionIsLive
    <3>2. client'.connection = "live"
      BY <1>1, <2>3, <3>1 DEF Reduce, PageTyped
    <3>3. QED
      BY <3>2 DEF DoneIsOver
  <2>4. QED
    BY <1>1, <2>1, <2>2, <2>3 DEF Event
<1>11. QED
  BY <1>4, <1>5, <1>6, <1>7, <1>8, <1>9, <1>10

LEMMA InitPInv == Init => PInv
<1> SUFFICES ASSUME Init PROVE PInv
    OBVIOUS
<1>1. RowsFollowNodes
  BY DEF Init, RowsFollowNodes, NoSteps
<1>2. /\ channel = <<>> /\ channel \in Seq(Event) /\ DOMAIN channel = {}
      /\ client.steps = NoSteps /\ sent = NoSteps /\ steps = NoSteps
      /\ NoSteps \in [Seqs -> StepStatuses \cup {"absent"}] /\ \A s \in Seqs : NoSteps[s] = "absent"
  BY DEF Init, NoSteps
<1>3. PageTyped
  <2>1. client \in [steps : [Seqs -> StepStatuses \cup {"absent"}],
                   status : {"none", "RUNNING"} \cup TerminalStatuses,
                   connection : {"connecting", "live", "reconnecting", "closed"},
                   ended : {"none", "timeout"}]
    BY <1>2 DEF Init
  <2>2. QED
    BY <1>2, <2>1 DEF Init, PageTyped
<1>4. StepsGoOn
  BY <1>2 DEF StepsGoOn, Leads
<1>5. ConnectionIsLive /\ SentIsSaid /\ EndComesLast /\ DoneIsOver
  BY DEF Init, ConnectionIsLive, SentIsSaid, EndComesLast, DoneIsOver
<1>6. QED
  BY <1>1, <1>3, <1>4, <1>5 DEF PInv

LEMMA StepPInv == IInv /\ IInv' /\ PInv /\ [Next]_vars => PInv'
<1> SUFFICES ASSUME IInv, IInv', PInv, [Next]_vars
             PROVE  PInv'
    OBVIOUS
<1>1. ASSUME NEW n \in Nodes, TracerStep(n) PROVE PInv'
  <2>1. UNCHANGED <<generator, channel, client, query>>
    BY <1>1 DEF TracerStep, ClaimSeq, InsertStep, EnterBody, LeaveBody, CloseStep, CancelBody,
                CloseCancelled, CancelOutsideBody
  <2>2. QED
    BY <2>1, WriterKeeps
<1>2. CASE CancelRun \/ EndRun \/ Recover \/ UNCHANGED vars
  BY <1>2, WriterKeeps DEF CancelRun, EndRun, Recover
<1>3. CASE Crash
  <2>1. client' = [client EXCEPT !.connection = "reconnecting"] \/ UNCHANGED client
    BY <1>3 DEF Crash
  <2>2. QED
    BY <1>3, <2>1, ConnectionKeeps DEF Crash
<1>4. CASE Connect
  <2>1. /\ channel' = <<>> /\ server' = "poll" /\ greeted' = FALSE /\ sent' = NoSteps
        /\ client' = [client EXCEPT !.connection = "live"]
        /\ UNCHANGED <<rows, seen, page, stored>>
    BY <1>4 DEF Connect, Connecting
  <2>2. client'.connection = "live"
    BY <2>1 DEF PInv, PageTyped
  <2>3. QED
    BY <2>1, <2>2, ConnectionKeeps
<1>5. CASE Drop
  BY <1>5, ConnectionKeeps DEF Drop
<1>6. CASE ConnectRefused
  BY <1>6, ConnectionKeeps DEF ConnectRefused, Connecting
<1>7. CASE ReadRun
  <2>1. RowsFollowNodes'
    BY RowsStep DEF PInv
  <2>2. QED
    BY <1>7, <2>1 DEF ReadRun, PInv, IInv, WritersTyped, PageTyped, StepsGoOn, ConnectionIsLive,
                      SentIsSaid, EndComesLast, DoneIsOver
<1>8. CASE KeepPolling
  <2>1. <<>> \in Seq(Event) /\ Len(<<>>) <= 1 /\ DOMAIN <<>> = {}
    OBVIOUS
  <2>2. QED
    BY <1>8, <2>1, PollKeeps DEF KeepPolling
<1>9. CASE SendDone
  <2> DEFINE last == <<[type |-> "done", status |-> seen]>>
  <2>1. /\ last \in Seq(Event) /\ Len(last) <= 1 /\ last # <<>>
        /\ \A i \in DOMAIN last : last[i] = [type |-> "done", status |-> seen]
    BY <1>9 DEF SendDone, Event
  <2>2. seen \in TerminalStatuses /\ ReadSteps(last) /\ server' = "none"
    BY <1>9 DEF SendDone
  <2>3. \A i \in DOMAIN last : last[i].type = "done" /\ last[i].status = seen
    BY <2>1
  <2> HIDE DEF last
  <2>4. QED
    BY <2>1, <2>2, <2>3, PollKeeps
<1>10. CASE SendTimeout
  <2> DEFINE last == <<[type |-> "timeout"]>>
  <2>1. /\ last \in Seq(Event) /\ Len(last) <= 1 /\ last # <<>>
        /\ \A i \in DOMAIN last : last[i] = [type |-> "timeout"]
    BY DEF Event
  <2>2. ReadSteps(last) /\ server' = "none"
    BY <1>10 DEF SendTimeout
  <2>3. \A i \in DOMAIN last : last[i].type = "timeout"
    BY <2>1
  <2> HIDE DEF last
  <2>4. QED
    BY <2>1, <2>2, <2>3, PollKeeps
<1>11. CASE Apply
  BY <1>11, ApplyKeeps
<1>12. CASE Reopen
  <2>1. client' = [client EXCEPT !.status = "none", !.connection = "connecting", !.ended = "none"]
        /\ client.connection = "closed" /\ UNCHANGED <<rows, tracer, up, generator, channel, query>>
    BY <1>12 DEF Reopen
  <2>2. RowsFollowNodes'
    BY RowsStep DEF PInv
  <2>3. server = "none" /\ channel = <<>>
    BY <2>1 DEF PInv, ConnectionIsLive
  <2>4. client'.steps = client.steps /\ client'.connection = "connecting"
    BY <2>1 DEF PInv, PageTyped
  <2>5. PageTyped'
    BY <2>1 DEF PInv, PageTyped
  <2>6. StepsGoOn' /\ ConnectionIsLive' /\ SentIsSaid' /\ EndComesLast' /\ DoneIsOver'
    BY <2>1, <2>3, <2>4 DEF PInv, StepsGoOn, ConnectionIsLive, SentIsSaid, EndComesLast, DoneIsOver
  <2>7. QED
    BY <2>2, <2>5, <2>6 DEF PInv
<1>13. CASE RefetchRun
  <2>1. CASE status \in TerminalStatuses
    BY <1>13, <2>1, ConnectionKeeps DEF RefetchRun
  <2>2. CASE status \notin TerminalStatuses
    <3>1. page' = page
      BY <1>13, <2>2 DEF RefetchRun, IInv, WritersTyped
    <3>2. UNCHANGED <<generator, channel, client, query>>
      BY <1>13, <2>2, <3>1 DEF RefetchRun
    <3>3. QED
      BY <3>2, WriterKeeps
  <2>3. QED
    BY <2>1, <2>2
<1>14. CASE FetchSteps
  <2>1. RowsFollowNodes'
    BY RowsStep DEF PInv
  <2>2. QED
    BY <1>14, <2>1 DEF FetchSteps, PInv, PageTyped, StepsGoOn, ConnectionIsLive,
                       SentIsSaid, EndComesLast, DoneIsOver
<1>15. QED
  BY <1>1, <1>2, <1>3, <1>4, <1>5, <1>6, <1>7, <1>8, <1>9, <1>10, <1>11, <1>12, <1>13, <1>14
  DEF Next, Stream

THEOREM PageInvariance == Spec => []PInv
  BY Invariance, InitPInv, StepPInv, PTL DEF Spec

\* A page that has seen "done" shows the stored end and every stored step, whatever
\* the connection lost before (trace_events, traceReducer).
THEOREM DoneIsAlwaysFinal == Spec => []DoneIsFinal
<1>1. PInv => DoneIsFinal
  BY DEF PInv, DoneIsOver, DoneIsFinal
<1>2. QED
  BY <1>1, PageInvariance, PTL

\* No step on the page vanishes or is reopened: through every reconnect, replay,
\* restart and the change from the stream to the stored steps.
THEOREM StepsOnlyGoOn == Spec => StepsNeverGoBack
<1>1. IInv /\ PInv /\ PInv' /\ [Next]_vars =>
        [\A s \in Seqs : /\ Shown[s] # "absent" => Shown'[s] # "absent"
                         /\ Shown[s] \in {"OK", "ERROR"} => Shown'[s] = Shown[s]]_vars
  <2> SUFFICES ASSUME IInv, PInv, PInv', Next, NEW s \in Seqs
               PROVE  /\ Shown[s] # "absent" => Shown'[s] # "absent"
                      /\ Shown[s] \in {"OK", "ERROR"} => Shown'[s] = Shown[s]
      OBVIOUS
  <2> USE DEF IInv, WritersTyped, PInv
  <2>1. CASE Apply
    <3>1. client'.steps[s] = IF Speaks(channel[1], s) THEN Says(channel[1], s) ELSE client.steps[s]
      BY <2>1, ApplyEffect
    <3>2. 1 \in DOMAIN channel /\ UNCHANGED query
      BY <2>1, ApplyEffect DEF Apply, PageTyped
    <3>3. Leads(client.steps[s], client'.steps[s])
      BY <3>1, <3>2 DEF StepsGoOn, Leads
    <3>4. QED
      BY <3>2, <3>3 DEF Shown, Leads
  <2>2. CASE FetchSteps
    <3>1. client' = client /\ page' = page /\ stored' = steps /\ stored = NotFetched
      BY <2>2 DEF FetchSteps
    <3>2. Leads(client.steps[s], steps[s])
      BY DEF StepsGoOn
    <3>3. QED
      BY <3>1, <3>2 DEF Shown, Leads
  <2>3. CASE ~Apply /\ ~FetchSteps
    <3>1. client'.steps = client.steps /\ UNCHANGED stored
      <4>1. ~(\E n \in Nodes : TracerStep(n)) \/ UNCHANGED <<client, stored>>
        BY DEF TracerStep, ClaimSeq, InsertStep, EnterBody, LeaveBody, CloseStep, CancelBody,
               CloseCancelled, CancelOutsideBody
      <4>2. QED
        BY <2>3, <4>1 DEF Next, Stream, CancelRun, EndRun, Crash, Recover, Connect, ReadRun, KeepPolling,
           SendDone, SendTimeout, ReadSteps, Drop, ConnectRefused, Reopen, RefetchRun, PageTyped
    <3>2. page' = page \/ page = "RUNNING"
      <4>1. ~(\E n \in Nodes : TracerStep(n)) \/ UNCHANGED page
        BY DEF TracerStep, ClaimSeq, InsertStep, EnterBody, LeaveBody, CloseStep, CancelBody,
               CloseCancelled, CancelOutsideBody
      <4>2. QED
        BY <2>3, <4>1 DEF Next, Stream, CancelRun, EndRun, Crash, Recover, Connect, ReadRun, KeepPolling,
           SendDone, SendTimeout, ReadSteps, Drop, ConnectRefused, Reopen, RefetchRun
    <3>3. QED
      BY <3>1, <3>2 DEF Shown, PageTyped
  <2>4. QED
    BY <2>1, <2>2, <2>3
<1>2. QED
  BY <1>1, Invariance, PageInvariance, PTL DEF Spec, StepsNeverGoBack
=============================================================================
