----------------------------- MODULE Measurement -----------------------------
(***************************************************************************)
(* The commands that measure retrieval and the files they pass on to each  *)
(* other: evaluation/build_gold_set.py (the gold set and a sample of it),  *)
(* run_eval.py (a run, its summary, its rows in the database) and          *)
(* check_baseline.py (the regression gate).  A measurement takes minutes;  *)
(* in the meantime a person may rebuild the gold set or edit the refusal   *)
(* questions.                                                              *)
(*                                                                         *)
(* A file is the version of what it was made from, which is also its hash. *)
(* A gold file that is being written is an empty one.  What a command      *)
(* reads as it starts, it reads in one step, and two commands do not write *)
(* the two files of one label at the same moment.                          *)
(***************************************************************************)
EXTENDS Naturals, FiniteSets

CONSTANTS
    Measurers,     \* processes that may run at the same time
    Labels,        \* labels of runs, which name their directory
    Modes,         \* retrieval modes of a run
    MaxVersions,   \* bound: versions of the corpus and of the refusal questions
    MaxCommands    \* bound: commands

ASSUME MeasuringIsBounded == MaxVersions \in Nat /\ MaxCommands \in Nat

VARIABLES
    corpus,        \* what the database holds, as a version; 0: no citations
    refusals,      \* out_of_scope.jsonl
    gold, sample,  \* retrieval_gold.jsonl and retrieval_sample.json, 0 if absent
    rows, summary, \* per label: per_query.jsonl and summary.json
    stored,        \* evaluation runs committed in the database, one for each mode
    baseline,      \* baseline.json
    step, held,    \* a process: where its command is and what it holds in memory
    started,       \* counter: commands
    compared,      \* ghost: the gold sets of the gate's last comparison
    replaced,      \* ghost: commands whose questions were replaced as they measured
    overlapped,    \* ghost: commands whose transaction another's of the label overlapped
    torn           \* ghost: labels of which a dead command wrote one of two files

evaluation == <<corpus, refusals, gold, sample, rows, summary, stored, baseline>>
process == <<step, held, started>>
ghostVars == <<compared, replaced, overlapped, torn>>
measureVars == <<evaluation, process, ghostVars>>

None == [none |-> TRUE]

MeasureInit ==
    /\ corpus = 0 /\ refusals = 1
    /\ gold = 0 /\ sample = None
    /\ rows = [l \in Labels |-> None]
    /\ summary = [l \in Labels |-> None]
    /\ stored = {}
    /\ baseline = None
    /\ step = [m \in Measurers |-> "idle"]
    /\ held = [m \in Measurers |-> None]
    /\ started = 0
    /\ compared = {} /\ replaced = {} /\ overlapped = {} /\ torn = {}

\* A process starts a command, goes on with it, or ends it and may start another.
Starts(m, to, memory) ==
    /\ step[m] = "idle" /\ started < MaxCommands
    /\ step' = [step EXCEPT ![m] = to]
    /\ held' = [held EXCEPT ![m] = memory]
    /\ started' = started + 1

Continues(m, from, to, memory) ==
    /\ step[m] = from
    /\ step' = [step EXCEPT ![m] = to]
    /\ held' = [held EXCEPT ![m] = memory]
    /\ UNCHANGED started

Closes(m, from) == Continues(m, from, "idle", None)

\* Ghost: the questions of the commands that are measuring are replaced.
Replaces == replaced' = replaced \cup {m \in Measurers : step[m] \in {"measure", "gate"}}

Fresh(m) == replaced' = replaced \ {m}

\* A command is between the two files of a label.
Writing(label) == \E m \in Measurers : step[m] = "summary" /\ held[m].label = label

-----------------------------------------------------------------------------
\* external: ingestion and a rebuild of the citation graph.
ChangeCorpus ==
    /\ corpus < MaxVersions
    /\ corpus' = corpus + 1
    /\ UNCHANGED <<refusals, gold, sample, rows, summary, stored, baseline, process, ghostVars>>

\* external: somebody edits the refusal questions.
EditRefusals ==
    /\ refusals < MaxVersions
    /\ refusals' = refusals + 1
    /\ Replaces
    /\ UNCHANGED <<corpus, gold, sample, rows, summary, stored, baseline, process, compared, overlapped, torn>>

-----------------------------------------------------------------------------
(* build_gold_set                                                            *)

\* The queries are mined from resolved citations; without any, nothing is written.
BuildGold(m) ==
    /\ corpus # 0
    /\ Starts(m, "gold", [queries |-> corpus])
    /\ gold' = 0
    /\ Replaces
    /\ UNCHANGED <<corpus, refusals, sample, rows, summary, stored, baseline, compared, overlapped, torn>>

WriteGold(m, sampled) ==
    /\ IF sampled THEN Continues(m, "gold", "sample", held[m]) ELSE Closes(m, "gold")
    /\ gold' = held[m].queries
    /\ Replaces
    /\ UNCHANGED <<corpus, refusals, sample, rows, summary, stored, baseline, compared, overlapped, torn>>

\* The manifest names queries held in memory and hashes the file as it is now.
WriteSample(m) ==
    /\ Closes(m, "sample")
    /\ sample' = [ids |-> held[m].queries, sha |-> gold]
    /\ UNCHANGED <<corpus, refusals, gold, rows, summary, stored, baseline, ghostVars>>

-----------------------------------------------------------------------------
(* run_eval                                                                  *)

\* A run of the sample needs a manifest drawn from this gold file; a run that
\* finds no gold set or another manifest, and a gate without a gold set, end at once.
MayMeasure(full) == gold # 0 /\ (full \/ (sample # None /\ sample.sha = gold))

StartRun(m, label, full) ==
    /\ MayMeasure(full)
    /\ Starts(m, "measure", [label |-> label, gold |-> gold, refusals |-> refusals,
                             ids |-> IF full THEN gold ELSE sample.ids, by |-> started + 1])
    /\ Fresh(m)
    /\ UNCHANGED <<evaluation, compared, overlapped, torn>>

\* Mutant: the provenance is that of the label's earlier run.
Provenance_Kept(m) ==
    IF summary[held[m].label] = None THEN [gold |-> gold, refusals |-> refusals]
    ELSE summary[held[m].label].provenance

\* The data files are hashed when the measurement is over.
Provenance(m) == [gold |-> gold, refusals |-> refusals]

\* evaluate has returned: the summary is in memory, and the rows are written.
WriteRows(m) ==
    LET measured == [gold |-> held[m].gold, ids |-> held[m].ids,
                     refusals |-> held[m].refusals, labelled |-> held[m].refusals]
        label == held[m].label
    IN  /\ step[m] = "measure" /\ ~Writing(label)
        /\ Continues(m, "measure", "summary",
              [label |-> label, by |-> held[m].by, gone |-> {},
               summary |-> [measured |-> measured, provenance |-> Provenance(m),
                            honest |-> m \notin replaced]])
        /\ rows' = [rows EXCEPT ![label] = measured]
        /\ UNCHANGED <<corpus, refusals, gold, sample, summary, stored, baseline, ghostVars>>

WriteSummary(m, persists) ==
    /\ IF persists THEN Continues(m, "summary", "persist", held[m]) ELSE Closes(m, "summary")
    /\ summary' = [summary EXCEPT ![held[m].label] = held[m].summary]
    /\ torn' = torn \ {held[m].label}
    /\ UNCHANGED <<corpus, refusals, gold, sample, rows, stored, baseline, compared, replaced, overlapped>>

Storing(m, label) == step[m] \in {"erase", "store"} /\ held[m].label = label

\* Another mutant: the label's earlier runs stay.
Earlier_Kept(label) == {}

\* The label's runs that are committed when its DELETE starts.
Earlier(label) == {run \in stored : run.label = label}

\* The transaction that stores a summary begins with this DELETE. The ghost
\* holds the commands two of whose transactions are open for one label.
Erase(m) ==
    LET others == {o \in Measurers \ {m} : Storing(o, held[m].label)}
    IN  /\ Continues(m, "persist", "erase", [held[m] EXCEPT !.gone = Earlier(held[m].label)])
        /\ overlapped' = IF others = {} THEN overlapped \ {m} ELSE overlapped \cup others \cup {m}
        /\ UNCHANGED <<evaluation, compared, replaced, torn>>

\* It waits for a transaction that has deleted some of those rows, and passes
\* over the rows this one has removed. Nothing stops two from inserting.
Erased(m) ==
    /\ step[m] = "erase"
    /\ \A o \in Measurers : step[o] = "store" => held[o].gone \cap held[m].gone = {}
    /\ Continues(m, "erase", "store", [held[m] EXCEPT !.gone = @ \cap stored])
    /\ UNCHANGED <<evaluation, ghostVars>>

\* Every mode's run is inserted, and committed with the rows' removal.
Persist(m) ==
    /\ Closes(m, "store")
    /\ stored' = (stored \ held[m].gone) \cup
                 {[label |-> held[m].label, mode |-> mode, of |-> held[m].summary,
                   by |-> held[m].by, alone |-> m \notin overlapped] : mode \in Modes}
    /\ UNCHANGED <<corpus, refusals, gold, sample, rows, summary, baseline, ghostVars>>

\* resummarise refuses rows whose refusal questions have changed since.
MayResummarise(label) ==
    /\ summary[label] # None /\ rows[label] # None
    /\ summary[label].provenance.refusals = refusals

\* The rows get the subsets of the refusal file and are written again first.
Resummarise(m, label) ==
    LET corrected == [rows[label] EXCEPT !.labelled = refusals]
    IN  /\ MayResummarise(label) /\ ~Writing(label)
        /\ Starts(m, "summary",
              [label |-> label, by |-> started + 1, gone |-> {},
               summary |-> [measured |-> corrected, provenance |-> summary[label].provenance,
                            honest |-> summary[label].honest /\ label \notin torn]])
        /\ rows' = [rows EXCEPT ![label] = corrected]
        /\ UNCHANGED <<corpus, refusals, gold, sample, summary, stored, baseline, ghostVars>>

-----------------------------------------------------------------------------
(* check_baseline                                                            *)

StartGate(m, writes) ==
    /\ gold # 0
    /\ Starts(m, "gate", [gold |-> gold, writes |-> writes])
    /\ Fresh(m)
    /\ UNCHANGED <<evaluation, compared, overlapped, torn>>

\* The gold file is hashed after the measurement, for a new baseline too.
WriteBaseline(m) ==
    /\ step[m] = "gate" /\ held[m].writes
    /\ Closes(m, "gate")
    /\ baseline' = [gold |-> held[m].gold, sha |-> gold, honest |-> m \notin replaced]
    /\ UNCHANGED <<corpus, refusals, gold, sample, rows, summary, stored, ghostVars>>

\* A gate without a baseline, or with one of another gold set, refuses to compare.
Compares == baseline # None /\ baseline.sha = gold

Compare(m) ==
    /\ step[m] = "gate" /\ ~held[m].writes
    /\ Closes(m, "gate")
    /\ compared' = IF Compares /\ baseline.honest /\ m \notin replaced
                   THEN {held[m].gold, baseline.gold} ELSE compared
    /\ UNCHANGED <<evaluation, replaced, overlapped, torn>>

\* The process is interrupted or fails: a gold file it was writing stays empty,
\* and a transaction is rolled back.
Interrupted(m) ==
    /\ \E from \in {"gold", "sample", "measure", "persist", "erase", "store", "gate"} :
          Closes(m, from)
    /\ UNCHANGED <<evaluation, ghostVars>>

InterruptedBetween(m) ==
    /\ Closes(m, "summary")
    /\ torn' = torn \cup {held[m].label}
    /\ UNCHANGED <<evaluation, compared, replaced, overlapped>>

MeasureNext ==
    \/ ChangeCorpus \/ EditRefusals
    \/ \E m \in Measurers :
          \/ BuildGold(m)
          \/ \E sampled \in BOOLEAN : WriteGold(m, sampled)
          \/ WriteSample(m)
          \/ \E label \in Labels, full \in BOOLEAN : StartRun(m, label, full)
          \/ WriteRows(m)
          \/ \E persists \in BOOLEAN : WriteSummary(m, persists)
          \/ Erase(m) \/ Erased(m) \/ Persist(m)
          \/ \E label \in Labels : Resummarise(m, label)
          \/ \E writes \in BOOLEAN : StartGate(m, writes)
          \/ WriteBaseline(m)
          \/ Compare(m)
          \/ Interrupted(m)
          \/ InterruptedBetween(m)

MeasureSpec == MeasureInit /\ [][MeasureNext]_measureVars

-----------------------------------------------------------------------------
(* Properties                                                                *)

\* Numbers are only put beside numbers of the same questions: what a summary
\* records of its data is what was measured, its refusal labels are those its
\* rows were measured with, and the gate compares one gold set with itself.  The
\* hashes are taken when a measurement is over, so this holds of measurements
\* during which nobody replaced the questions, and of directories no dead command
\* left half written.  A command that stores its summary while no other stores
\* one of the same label leaves nothing beside it, whatever overlapped before.
NumbersOfSameQuestions ==
    /\ \A label \in Labels :
          summary[label] # None /\ label \notin torn /\ ~Writing(label) =>
              /\ rows[label] = summary[label].measured
              /\ summary[label].honest =>
                    /\ summary[label].measured.gold = summary[label].provenance.gold
                    /\ summary[label].measured.refusals = summary[label].provenance.refusals
                    /\ summary[label].measured.labelled = summary[label].measured.refusals
    /\ \A one, other \in stored : one.label = other.label /\ one.alone =>
          one.of = other.of /\ (one.mode = other.mode => one = other)
    /\ Cardinality(compared) <= 1
=============================================================================
