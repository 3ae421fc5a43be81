---------------------------- MODULE TraceStream ----------------------------
(***************************************************************************)
(* The live trace of one run, from the nodes that write it to the page that *)
(* shows it: concurrent nodes open and close steps through the Tracer, the   *)
(* run may be cancelled or its process may die, each SSE connection polls    *)
(* the run and its steps and sends what changed, and the browser applies     *)
(* the events, loses connections and makes new ones.                         *)
(*                                                                          *)
(* Sources: backend/app/ai/graph/tracing.py, repositories/agent_runs.py,     *)
(* services/assessment_stream.py, frontend/src/hooks/traceReducer.ts and     *)
(* useAssessmentStream.ts. A step's fingerprint is abstracted to its status. *)
(***************************************************************************)
EXTENDS Naturals, Sequences, FiniteSets

CONSTANTS
  Nodes,       \* node executions of the run; each writes one step
  MaxDrops,    \* bound: connections lost, and streams that reach their time limit
  MaxCrashes   \* bound: deaths of the API process

ASSUME StreamAssumption ==
  /\ IsFiniteSet(Nodes) /\ MaxDrops \in Nat /\ MaxCrashes \in Nat

VARIABLES
  status,      \* the stored status of the run
  cancelled,   \* the wall clock has cancelled the nodes
  up,          \* the API process is serving
  nextSeq,     \* agent_runs.next_step_seq
  node,        \* node[n]: where n stands in Tracer.step
  seq,         \* seq[n]: the sequence number n was given
  steps,       \* steps[s]: status of the stored step s
  server,      \* the generator of the connection: "none", "poll", "read"
  greeted,     \* it has sent its snapshot
  seen,        \* the run status that generator read last
  sent,        \* sent[s]: what it last sent of step s
  channel,     \* events sent and not yet applied
  client,      \* the page's TraceState
  source,      \* its EventSource: "trying" (open or retrying) or "failed" for good
  page,        \* the run status of the page's assessment query
  stored,      \* the page's steps query, made once the run is over
  drops, crashes

rows == <<status, nextSeq, steps>>
tracer == <<cancelled, node, seq>>
generator == <<server, greeted, seen, sent>>
query == <<page, stored>>
bounds == <<drops, crashes>>
vars == <<rows, tracer, up, generator, channel, client, source, query, bounds>>

Seqs == 1..Cardinality(Nodes)
StepStatuses == {"RUNNING", "OK", "ERROR"}
TerminalStatuses == {"COMPLETED", "CAPPED", "FAILED"}
NotFetched == [s \in {} |-> "absent"]
NoSteps == [s \in Seqs |-> "absent"]
Event == [type : {"snapshot"}, status : {"RUNNING"} \cup TerminalStatuses,
          steps : [Seqs -> StepStatuses \cup {"absent"}]]
           \cup [type : {"step"}, seq : Seqs, status : StepStatuses]
           \cup [type : {"done"}, status : TerminalStatuses]
           \cup [type : {"timeout"}]

Init ==
  /\ status = "RUNNING" /\ cancelled = FALSE /\ up = TRUE
  /\ nextSeq = 0
  /\ node = [n \in Nodes |-> "idle"]
  /\ seq = [n \in Nodes |-> 0]
  /\ steps = NoSteps
  /\ server = "none" /\ greeted = FALSE /\ seen = "none" /\ sent = NoSteps
  /\ channel = <<>>
  /\ client = [steps |-> NoSteps, status |-> "none", connection |-> "connecting",
               ended |-> "none"]
  /\ source = "trying" /\ page = "RUNNING" /\ stored = NotFetched
  /\ drops = 0 /\ crashes = 0

-----------------------------------------------------------------------------
(* Tracer.step: three transactions per step.                                *)

At(n, pc) == up /\ node[n] = pc
Move(n, pc) == node' = [node EXCEPT ![n] = pc]
OnlyTrace == <<cancelled, status, up, generator, channel, client, source, query, bounds>>

\* Mutant: MAX(seq) + 1 of the rows inserted so far.
ClaimSeq_MaxPlusOne(n) ==
  /\ At(n, "idle") /\ ~cancelled
  /\ seq' = [seq EXCEPT ![n] = 1 + Cardinality({s \in Seqs : steps[s] # "absent"})]
  /\ nextSeq' = seq'[n]
  /\ Move(n, "claimed")
  /\ UNCHANGED <<steps, OnlyTrace>>

\* allocate_seq: UPDATE ... RETURNING, committed at once.
ClaimSeq(n) ==
  /\ At(n, "idle") /\ ~cancelled
  /\ nextSeq' = nextSeq + 1
  /\ seq' = [seq EXCEPT ![n] = nextSeq + 1]
  /\ Move(n, "claimed")
  /\ UNCHANGED <<steps, OnlyTrace>>

InsertStep(n) ==
  /\ At(n, "claimed") /\ ~cancelled
  /\ steps' = [steps EXCEPT ![seq[n]] = "RUNNING"]
  /\ Move(n, "inserted")
  /\ UNCHANGED <<nextSeq, seq, OnlyTrace>>

\* The session is closed and the body of the node runs.
EnterBody(n) ==
  /\ At(n, "inserted") /\ ~cancelled
  /\ Move(n, "open")
  /\ UNCHANGED <<nextSeq, seq, steps, OnlyTrace>>

\* The body returned or raised; the finally block starts its write.
LeaveBody(n) ==
  /\ At(n, "open") /\ ~cancelled
  /\ Move(n, "closing")
  /\ UNCHANGED <<nextSeq, seq, steps, OnlyTrace>>

CloseStep(n) ==
  /\ At(n, "closing") /\ ~cancelled
  /\ \E st \in {"OK", "ERROR"} : steps' = [steps EXCEPT ![seq[n]] = st]
  /\ Move(n, "closed")
  /\ UNCHANGED <<nextSeq, seq, OnlyTrace>>

\* Cancellation reaches a node at the await where it stands. Only the body is
\* inside the try block: it records the cancellation in a write of its own.
CancelBody(n) ==
  /\ At(n, "open") /\ cancelled
  /\ Move(n, "erring")
  /\ UNCHANGED <<nextSeq, seq, steps, OnlyTrace>>

CloseCancelled(n) ==
  /\ At(n, "erring")
  /\ steps' = [steps EXCEPT ![seq[n]] = "ERROR"]
  /\ Move(n, "closed")
  /\ UNCHANGED <<nextSeq, seq, OnlyTrace>>

\* Anywhere else the write under way is cut short, committed or not.
CancelOutsideBody(n) ==
  /\ cancelled
  /\ \/ /\ At(n, "idle") \/ At(n, "inserted")
        /\ UNCHANGED steps
     \/ /\ At(n, "claimed")
        /\ steps' \in {steps, [steps EXCEPT ![seq[n]] = "RUNNING"]}
     \/ /\ At(n, "closing")
        /\ steps' \in {steps} \cup {[steps EXCEPT ![seq[n]] = st] : st \in {"OK", "ERROR"}}
  /\ Move(n, "stopped")
  /\ UNCHANGED <<nextSeq, seq, OnlyTrace>>

TracerStep(n) ==
  \/ ClaimSeq(n) \/ InsertStep(n) \/ EnterBody(n) \/ LeaveBody(n) \/ CloseStep(n)
  \/ CancelBody(n) \/ CloseCancelled(n) \/ CancelOutsideBody(n)

-----------------------------------------------------------------------------
(* The run around the nodes.                                                *)

\* The wall clock fires, or a sibling's exception cancels the rest.
CancelRun ==
  /\ up /\ status = "RUNNING" /\ ~cancelled
  /\ \E n \in Nodes : node[n] # "closed"
  /\ cancelled' = TRUE
  /\ UNCHANGED <<rows, node, seq, up, generator, channel, client, source, query, bounds>>

\* _finish, after every node has ended.
EndRun ==
  /\ up /\ status = "RUNNING"
  /\ \A n \in Nodes : node[n] \in {"closed", "stopped"}
  /\ \E end \in IF cancelled THEN {"CAPPED", "FAILED"} ELSE {"COMPLETED"} : status' = end
  /\ UNCHANGED <<nextSeq, steps, tracer, up, generator, channel, client, source, query, bounds>>

\* The process dies with its nodes and its connections.
Crash ==
  /\ up /\ crashes < MaxCrashes
  /\ up' = FALSE /\ crashes' = crashes + 1
  /\ node' = [n \in Nodes |-> IF node[n] = "closed" THEN "closed" ELSE "stopped"]
  /\ server' = "none" /\ channel' = <<>>
  /\ client' = IF client.connection = "closed" THEN client
               ELSE [client EXCEPT !.connection = "reconnecting"]
  /\ UNCHANGED <<rows, cancelled, seq, greeted, seen, sent, source, query, drops>>

\* fail_unfinished at the next startup: the run and its open steps, together.
Recover ==
  /\ ~up
  /\ up' = TRUE
  /\ IF status = "RUNNING"
     THEN /\ status' = "FAILED"
          /\ steps' = [s \in Seqs |-> IF steps[s] = "RUNNING" THEN "ERROR" ELSE steps[s]]
     ELSE UNCHANGED <<status, steps>>
  /\ UNCHANGED <<nextSeq, tracer, generator, channel, client, source, query, bounds>>

-----------------------------------------------------------------------------
(* trace_events: one generator per connection.                              *)

\* The page follows the trace while its query shows the run in progress.
Connecting ==
  /\ page = "RUNNING" /\ source = "trying"
  /\ server = "none" /\ channel = <<>>
  /\ client.connection \in {"connecting", "reconnecting"}

\* EventSource connects, for the first time or again; no event survives from an
\* earlier connection.
Connect ==
  /\ up /\ Connecting
  /\ server' = "poll" /\ greeted' = FALSE /\ sent' = NoSteps
  /\ client' = [client EXCEPT !.connection = "live"]
  /\ UNCHANGED <<rows, tracer, up, seen, channel, source, query, bounds>>

\* The run is read first. The steps are another statement, so the tracer and
\* _finish may write in between.
ReadRun ==
  /\ server = "poll"
  /\ seen' = status
  /\ server' = "read"
  /\ UNCHANGED <<rows, tracer, up, greeted, sent, channel, client, source, query, bounds>>

\* The first event is everything; after that, the steps that are new or changed
\* since they were last sent, in order.
Snapshot == [type |-> "snapshot", status |-> seen, steps |-> steps]
Updates ==
  LET changed == {s \in Seqs : steps[s] # sent[s]}
      update(s) == [type |-> "step", seq |-> s, status |-> steps[s]]
  IN [i \in 1..Cardinality(changed) |->
        update(CHOOSE s \in changed : Cardinality({r \in changed : r <= s}) = i)]
Poll == IF greeted THEN Updates ELSE <<Snapshot>>

ReadSteps(last) ==
  /\ server = "read"
  /\ channel' = channel \o Poll \o last
  /\ sent' = steps /\ greeted' = TRUE
  /\ UNCHANGED <<rows, tracer, up, seen, client, source, query, crashes>>

KeepPolling ==
  /\ seen \notin TerminalStatuses
  /\ ReadSteps(<<>>)
  /\ server' = "poll" /\ UNCHANGED drops

\* Mutant: a finished run ends the stream before its last changes are sent.
SendDone_AtOnce ==
  /\ server = "read" /\ greeted /\ seen \in TerminalStatuses
  /\ channel' = Append(channel, [type |-> "done", status |-> seen])
  /\ server' = "none"
  /\ UNCHANGED <<rows, tracer, up, greeted, seen, sent, client, source, query, bounds>>

\* The run was over when it was read: the stream ends.
SendDone ==
  /\ seen \in TerminalStatuses
  /\ ReadSteps(<<[type |-> "done", status |-> seen]>>)
  /\ server' = "none" /\ UNCHANGED drops

\* So does a stream past its own deadline.
SendTimeout ==
  /\ seen \notin TerminalStatuses /\ drops < MaxDrops
  /\ ReadSteps(<<[type |-> "timeout"]>>)
  /\ server' = "none" /\ drops' = drops + 1

-----------------------------------------------------------------------------
(* The page: useAssessmentStream and traceReducer.                          *)

\* What the reducer makes of one event. A snapshot replaces, a step upserts.
Reduce(state, e) ==
  CASE e.type = "snapshot" -> [state EXCEPT !.steps = e.steps, !.status = e.status,
                                            !.connection = "live"]
    [] e.type = "step"     -> [state EXCEPT !.steps[e.seq] = e.status]
    [] e.type = "done"     -> [state EXCEPT !.status = e.status, !.connection = "closed"]
    [] e.type = "timeout"  -> [state EXCEPT !.connection = "closed", !.ended = "timeout"]

Apply ==
  /\ channel # <<>>
  /\ client' = Reduce(client, Head(channel))
  /\ channel' = Tail(channel)
  /\ UNCHANGED <<rows, tracer, up, generator, source, query, bounds>>

\* The connection breaks: what was under way is lost, the browser will retry.
Drop ==
  /\ drops < MaxDrops
  /\ page = "RUNNING" /\ client.connection = "live"
  /\ drops' = drops + 1
  /\ server' = "none" /\ channel' = <<>>
  /\ client' = [client EXCEPT !.connection = "reconnecting"]
  /\ UNCHANGED <<rows, tracer, up, greeted, seen, sent, source, query, crashes>>

\* While the API is down its proxy answers 502. A browser gives an EventSource up
\* for any answer but 200; onerror looks the same as for a lost connection.
ConnectRefused ==
  /\ ~up /\ Connecting
  /\ source' = "failed"
  /\ client' = [client EXCEPT !.connection = "reconnecting"]
  /\ UNCHANGED <<rows, tracer, up, generator, channel, query, bounds>>

\* The reader asks for a fresh connection after a timeout; the steps stay on the
\* page until the snapshot arrives.
Reopen ==
  /\ page = "RUNNING" /\ client.connection = "closed" /\ client.ended = "timeout"
  /\ client' = [client EXCEPT !.status = "none", !.connection = "connecting",
                              !.ended = "none"]
  /\ UNCHANGED <<rows, tracer, up, generator, channel, source, query, bounds>>

\* Mutant: the run is refetched only when the stream says it is done.
RefetchRun_OnDone ==
  /\ up /\ page = "RUNNING" /\ client.connection = "closed"
  /\ page' = status
  /\ UNCHANGED <<rows, tracer, up, generator, channel, client, source, stored, bounds>>

\* useAssessment: refetched every few seconds while in progress, and on "done".
\* Once it shows the end, the trace's connection is closed.
RefetchRun ==
  /\ up /\ page = "RUNNING"
  /\ page' = status
  /\ IF status \in TerminalStatuses
     THEN server' = "none" /\ channel' = <<>>
     ELSE UNCHANGED <<server, channel>>
  /\ UNCHANGED <<rows, tracer, up, greeted, seen, sent, client, source, stored, bounds>>

\* Mutant: the steps are fetched with the page, in progress or not.
FetchSteps_Always ==
  /\ up /\ stored = NotFetched
  /\ stored' = steps
  /\ UNCHANGED <<rows, tracer, up, generator, channel, client, source, page, bounds>>

\* useAssessmentSteps, enabled once the run is over.
FetchSteps ==
  /\ up /\ page \in TerminalStatuses /\ stored = NotFetched
  /\ stored' = steps
  /\ UNCHANGED <<rows, tracer, up, generator, channel, client, source, page, bounds>>

\* The steps on the page.
Shown ==
  IF page = "RUNNING" \/ stored = NotFetched THEN client.steps ELSE stored

Stream == Connect \/ ReadRun \/ KeepPolling \/ SendDone \/ SendTimeout

Next ==
  \/ \E n \in Nodes : TracerStep(n)
  \/ CancelRun \/ EndRun \/ Crash \/ Recover
  \/ Stream \/ Apply \/ Drop \/ ConnectRefused \/ Reopen
  \/ RefetchRun \/ FetchSteps

\* The event loop runs the nodes and _finish, the API is restarted, and the page
\* asks again while it has not seen the end. Nothing is asked of the stream:
\* every connection may break and every one be refused.
Fairness ==
  /\ \A n \in Nodes : WF_vars(TracerStep(n))
  /\ WF_vars(EndRun) /\ WF_vars(Recover) /\ WF_vars(RefetchRun) /\ WF_vars(FetchSteps)

Spec == Init /\ [][Next]_vars
FairSpec == Spec /\ Fairness

-----------------------------------------------------------------------------
(* Properties                                                               *)

\* Once the page has seen "done", the status and every step of its trace are the
\* stored ones, and stay so: nothing written just before the end is missed
\* (trace_events reads the status before the steps).
DoneIsFinal ==
  client.connection = "closed" /\ client.ended = "none" =>
    client.status = status /\ client.steps = steps

\* No reconnect, replay or restart makes a step the reader has seen vanish or
\* reopens one shown as finished.
StepsNeverGoBack ==
  [][\A s \in Seqs :
       /\ Shown[s] # "absent" => Shown'[s] # "absent"
       /\ Shown[s] \in {"OK", "ERROR"} => Shown'[s] = Shown[s]]_vars

\* Concurrent nodes never get the same sequence number, the key by which the
\* page tells steps apart.
SeqsAreUnique ==
  \A m, n \in Nodes : m # n /\ seq[m] # 0 => seq[m] # seq[n]

\* A run that a restart failed has no step still shown as running.
RestartClosesSteps ==
  status = "FAILED" /\ ~cancelled => \A s \in Seqs : steps[s] # "RUNNING"

\* The stored trace is sound, however its writers are interleaved or killed.
TraceIsSound == SeqsAreUnique /\ RestartClosesSteps

\* Whatever happens to the stream, to the browser's EventSource for good or to the
\* API process, the page comes to show the stored end of the run and its steps.
PageConverges == <>[](page = status /\ page \in TerminalStatuses /\ Shown = steps)
=============================================================================
