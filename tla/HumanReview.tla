----------------------------- MODULE HumanReview -----------------------------
(***************************************************************************)
(* The two tools people review evidence with, over files that every        *)
(* command reads and writes on its own and that no lock protects:          *)
(*  - evaluation/support_review.py: candidates.jsonl, rewritten whole by   *)
(*    an export, and reviews.jsonl, to which a session appends;            *)
(*  - evaluation/annotation.py: annotations.jsonl, rewritten whole after   *)
(*    every answer.                                                        *)
(* A command is one process.  It reads its file when it starts and works   *)
(* on that reading, while other commands come and go.                      *)
(*                                                                         *)
(* A content stands for everything a reviewer is shown of a finding (the   *)
(* fields the snapshot hash covers); the hash is taken to be injective.    *)
(* Two commands are not writing one file at the same instant: a write      *)
(* takes milliseconds and is started by a person's key.                    *)
(***************************************************************************)
EXTENDS Integers, Sequences, FiniteSets, SequencesExt

CONSTANTS
    Commands,      \* processes; each runs one command
    Runs,          \* assessment runs
    Findings,      \* findings, which are also the record ids of candidates
    RunOf,         \* the run of a finding
    Generator,     \* a run's group in the report
    Contents,      \* what a finding may look like to a reviewer
    Unlocated,     \* a finding with no located evidence
    Questions,     \* records of the annotation file
    MaxRevisions,  \* bound: changes of a finding in the database, hand edits
    MaxReviews     \* bound: rows of reviews.jsonl

ASSUME FindingsBelongToRuns == /\ RunOf \in [Findings -> Runs]
                               /\ DOMAIN Generator = Runs
ASSUME FilesAreFinite == IsFiniteSet(Findings) /\ IsFiniteSet(Questions)
ASSUME BoundsAreNumbers == MaxRevisions \in Nat /\ MaxReviews \in Nat

LABELS == {"supported", "unsupported", "insufficient"}

VARIABLES
    finished,     \* runs whose assessment is in a terminal status
    finding,      \* a finding as the database now has it
    candidates,   \* candidates.jsonl: complete rows, and whether a torn line follows
    reviews,      \* reviews.jsonl, with what its writer was shown (a ghost)
    annotations,  \* annotations.jsonl
    pc, read, out,  \* a command: where it is, the rows it read, the rows it writes
    pending,        \* the positions of the rows it still has to ask about
    revisions,    \* counter
    overtaken,    \* ghost: commands whose file another has rewritten since they read it
    disturbed,    \* ghost: files that a crash or an overtaken command has rewritten
    saved         \* ghost: what completed commands have put into each file

db == <<finished, finding>>
files == <<candidates, reviews, annotations>>
ghosts == <<overtaken, disturbed, saved>>
command == <<pc, read, out, pending>>
reviewVars == <<db, files, command, revisions, ghosts>>

-----------------------------------------------------------------------------
(* The ledger: what counts, and why the rest does not.                       *)

\* snapshot_hash: covers what the reviewer is shown, and not exported_at.
SnapshotHash(candidate) == candidate.content

\* candidate_problems: empty fields are not told apart here, so that what is
\* left is a row whose content is not the one its hash was taken of.
IsUsable(candidate) == candidate.hash = SnapshotHash(candidate)

\* load: the first usable row of an id is its candidate.
LedgerCandidates(file) ==
    [id \in {row.id : row \in {r \in ToSet(file.rows) : IsUsable(r)}} |->
        file.rows[SelectInSeq(file.rows, LAMBDA row : row.id = id /\ IsUsable(row))]]

\* Mutant: a review counts for whatever its candidate says now.
IsCurrent_AnySnapshot(review, known) == review.id \in DOMAIN known

IsCurrent(review, known) ==
    /\ review.id \in DOMAIN known
    /\ review.hash = known[review.id].hash

\* load: the last review of a candidate's own snapshot is the one that counts.
Current(file, rows) ==
    LET known == LedgerCandidates(file)
    IN  [id \in {review.id : review \in {r \in ToSet(rows) : IsCurrent(r, known)}} |->
            rows[SelectLastInSeq(rows, LAMBDA review :
                     review.id = id /\ IsCurrent(review, known))]]

Pending(file, rows) == DOMAIN LedgerCandidates(file) \ DOMAIN Current(file, rows)

\* summarise: per group, what was reviewed and what decides.
Summary(file, rows, group) ==
    LET counted == Current(file, rows)
        known == {id \in DOMAIN LedgerCandidates(file) : Generator[RunOf[id]] = group}
        Labelled(labels) ==
            Cardinality({id \in known \cap DOMAIN counted : counted[id].label \in labels})
    IN  [candidates |-> Cardinality(known),
         reviewed |-> Labelled(LABELS),
         decisive |-> Labelled({"supported", "unsupported"}),
         supported |-> Labelled({"supported"})]

\* judge_comparison: whether a model judge's row is compared with a human's.
IsCompared(file, rows, judged) ==
    LET known == LedgerCandidates(file)
        counted == Current(file, rows)
    IN  /\ judged.id \in DOMAIN known
        /\ judged.hash = known[judged.id].hash
        /\ judged.label \in LABELS
        /\ judged.id \in DOMAIN counted
        /\ "insufficient" \notin {judged.label, counted[judged.id].label}

-----------------------------------------------------------------------------
Intact(rows) == [rows |-> rows, torn |-> FALSE]

Draft(question) == [id |-> question, status |-> "provisional"]

ReviewInit ==
    /\ finished = {}
    /\ finding \in [Findings -> Contents \cup {Unlocated}]
    /\ candidates = Intact(<<>>)
    /\ reviews = <<>>
    /\ annotations = Intact(SetToSeq({Draft(q) : q \in Questions}))
    /\ pc = [c \in Commands |-> "idle"]
    /\ read = [c \in Commands |-> <<>>]
    /\ out = [c \in Commands |-> <<>>]
    /\ pending = [c \in Commands |-> {}]
    /\ revisions = 0
    /\ overtaken = {}
    /\ disturbed = {}
    /\ saved = [candidates |-> {}, annotations |-> {}]

Goto(c, label) == pc' = [pc EXCEPT ![c] = label]

\* The process ends, and what it held in memory is gone.
Ends(c) ==
    /\ Goto(c, "done")
    /\ read' = [read EXCEPT ![c] = <<>>]
    /\ out' = [out EXCEPT ![c] = <<>>]
    /\ pending' = [pending EXCEPT ![c] = {}]

Stops(c) == Ends(c) /\ UNCHANGED <<db, files, revisions, ghosts>>

\* Ghost: c has rewritten a file the commands at these labels had read.
Overtakes(c, labels) ==
    overtaken' = overtaken \cup {d \in Commands \ {c} : pc[d] \in labels}

-----------------------------------------------------------------------------
(* The database the candidates come from, and a person's editor.             *)

\* external: a run reaches a terminal status.
EndRun(run) ==
    /\ run \notin finished
    /\ finished' = finished \cup {run}
    /\ UNCHANGED <<finding, files, command, revisions, ghosts>>

\* external: what a finding shows is changed, by a new ingestion or another database.
Revise(f, content) ==
    /\ revisions < MaxRevisions
    /\ content # finding[f]
    /\ finding' = [finding EXCEPT ![f] = content]
    /\ revisions' = revisions + 1
    /\ UNCHANGED <<finished, files, command, ghosts>>

\* external: somebody changes a candidate in the file and leaves its hash.
HandEdit(i, content) ==
    /\ revisions < MaxRevisions
    /\ \A c \in Commands : pc[c] # "write"
    /\ candidates' = [candidates EXCEPT !.rows[i].content = content]
    /\ revisions' = revisions + 1
    /\ UNCHANGED <<db, reviews, annotations, command, ghosts>>

-----------------------------------------------------------------------------
(* support_review export                                                     *)

\* export reads the file before it asks the database; a torn file is refused.
StartExport(c) ==
    /\ pc[c] = "idle"
    /\ ~candidates.torn
    /\ read' = [read EXCEPT ![c] = candidates.rows]
    /\ Goto(c, "query")
    /\ UNCHANGED <<db, files, out, pending, revisions, ghosts>>

RefuseDamaged(c) == pc[c] = "idle" /\ candidates.torn /\ Stops(c)

\* _export_runs refuses a run that is still going.
RefuseUnfinished(c, runs) == pc[c] = "query" /\ ~(runs \subseteq finished) /\ Stops(c)

Snapshot(f) ==
    LET candidate == [id |-> f, content |-> finding[f]]
    IN  [id |-> f, content |-> finding[f], hash |-> SnapshotHash(candidate)]

\* The file's order is kept: a dict is updated in place, and new ids follow.
Merged(rows, fresh) ==
    LET ids == {row.id : row \in ToSet(rows)}
        Fresh(f) == CHOOSE row \in fresh : row.id = f
    IN  [i \in DOMAIN rows |->
            IF \E row \in fresh : row.id = rows[i].id THEN Fresh(rows[i].id) ELSE rows[i]]
        \o SetToSeq({row \in fresh : row.id \notin ids})

\* The query and the opening of the file, which empties it.
Query(c, runs) ==
    /\ pc[c] = "query"
    /\ runs \subseteq finished
    /\ \A d \in Commands : pc[d] # "write"
    /\ LET fresh == {Snapshot(f) : f \in {f \in Findings : /\ RunOf[f] \in runs
                                                           /\ finding[f] # Unlocated}}
       IN  out' = [out EXCEPT ![c] = Merged(read[c], fresh)]
    /\ candidates' = Intact(<<>>)
    /\ Goto(c, "write")
    /\ UNCHANGED <<db, reviews, annotations, read, pending, revisions, ghosts>>

\* The file is closed, and its buffer is on disk.
EndExport(c) ==
    /\ pc[c] = "write"
    /\ candidates' = Intact(out[c])
    /\ saved' = [saved EXCEPT !.candidates = @ \cup {row.id : row \in ToSet(out[c])}]
    /\ disturbed' = disturbed \cup {f \in {"candidates"} : c \in overtaken}
    /\ Overtakes(c, {"query"})
    /\ Ends(c)
    /\ UNCHANGED <<db, reviews, annotations, revisions>>

-----------------------------------------------------------------------------
(* support_review review                                                     *)

\* The ledger is loaded once, and the pending candidates are walked as they were then.
StartReview(c) ==
    LET Known(id) == LedgerCandidates(candidates)[id]
    IN  /\ pc[c] = "idle"
        /\ read' = [read EXCEPT ![c] = candidates.rows]
        /\ pending' = [pending EXCEPT ![c] =
                          {i \in DOMAIN candidates.rows :
                              LET row == candidates.rows[i]
                              IN  row.id \in Pending(candidates, reviews) /\ row = Known(row.id)}]
        /\ Goto(c, "review")
        /\ UNCHANGED <<db, files, out, revisions, ghosts>>

\* A session asks about the rows in the order of the file.
Asked(c) == Min(pending[c])
GoesOn(c) == pending' = [pending EXCEPT ![c] = @ \ {Asked(c)}]

\* An answer is appended at once, with the hash of what was shown.
Answer(c, label) ==
    /\ pc[c] = "review" /\ pending[c] # {}
    /\ Len(reviews) < MaxReviews
    /\ LET shown == read[c][Asked(c)]
       IN  reviews' = Append(reviews, [id |-> shown.id, hash |-> shown.hash,
                                       label |-> label, saw |-> shown.content])
    /\ GoesOn(c)
    /\ UNCHANGED <<db, candidates, annotations, pc, read, out, revisions, ghosts>>

Skip(c) ==
    /\ pc[c] = "review" /\ pending[c] # {}
    /\ GoesOn(c)
    /\ UNCHANGED <<db, files, pc, read, out, revisions, ghosts>>

-----------------------------------------------------------------------------
(* annotation review                                                         *)

\* read raises for a torn line, in every command of the tool.
RefuseTorn(c) == pc[c] = "idle" /\ annotations.torn /\ Stops(c)

IsProvisional(record) == record.status = "provisional"

StartAnnotate(c) ==
    /\ pc[c] = "idle"
    /\ ~annotations.torn
    /\ out' = [out EXCEPT ![c] = annotations.rows]
    /\ pending' = [pending EXCEPT ![c] =
                      {i \in DOMAIN annotations.rows : IsProvisional(annotations.rows[i])}]
    /\ Goto(c, "annotate")
    /\ UNCHANGED <<db, files, read, revisions, ghosts>>

\* Mutant: only the records still to be asked are written, with the one answered.
Answered_PendingOnly(rows, i, status) ==
    SelectSeq([rows EXCEPT ![i].status = status],
              LAMBDA row : row.id = rows[i].id \/ IsProvisional(row))

\* The session's records with one answered: what review writes after an answer.
Answered(rows, i, status) == [rows EXCEPT ![i].status = status]

\* A person confirms, corrects or disputes a label; the whole file is opened for writing.
Annotate(c, status) ==
    /\ pc[c] = "annotate" /\ pending[c] # {}
    /\ \A d \in Commands : pc[d] # "rewrite"
    /\ out' = [out EXCEPT ![c] = Answered(@, Asked(c), status)]
    /\ GoesOn(c)
    /\ annotations' = Intact(<<>>)
    /\ Goto(c, "rewrite")
    /\ UNCHANGED <<db, candidates, reviews, read, revisions, ghosts>>

EndRewrite(c) ==
    /\ pc[c] = "rewrite"
    /\ annotations' = Intact(out[c])
    /\ saved' = [saved EXCEPT !.annotations =
                    @ \cup {row \in ToSet(out[c]) : ~IsProvisional(row)}]
    /\ disturbed' = disturbed \cup {f \in {"annotations"} : c \in overtaken}
    /\ Overtakes(c, {"annotate"})
    /\ Goto(c, "annotate")
    /\ UNCHANGED <<db, candidates, reviews, read, out, pending, revisions>>

-----------------------------------------------------------------------------
\* The walk is over, q is pressed, or the process is interrupted at its prompt.
Quit(c) == pc[c] \in {"query", "review", "annotate"} /\ Stops(c)

\* What a process that dies while it writes has put on disk.
CutShort(rows) ==
    {[rows |-> SubSeq(rows, 1, n), torn |-> t] : n \in 0..(Len(rows) - 1), t \in BOOLEAN}

Crash(c) ==
    /\ \/ /\ pc[c] = "write"
          /\ candidates' \in CutShort(out[c])
          /\ disturbed' = disturbed \cup {"candidates"}
          /\ UNCHANGED annotations
       \/ /\ pc[c] = "rewrite"
          /\ annotations' \in CutShort(out[c])
          /\ disturbed' = disturbed \cup {"annotations"}
          /\ UNCHANGED candidates
    /\ Ends(c)
    /\ UNCHANGED <<db, reviews, revisions, overtaken, saved>>

ReviewNext ==
    \/ \E run \in Runs : EndRun(run)
    \/ \E f \in Findings, content \in Contents : Revise(f, content)
    \/ \E i \in DOMAIN candidates.rows, content \in Contents : HandEdit(i, content)
    \/ \E c \in Commands :
          \/ StartExport(c)
          \/ RefuseDamaged(c)
          \/ \E runs \in SUBSET Runs \ {{}} : RefuseUnfinished(c, runs) \/ Query(c, runs)
          \/ EndExport(c)
          \/ StartReview(c)
          \/ \E label \in LABELS : Answer(c, label)
          \/ Skip(c)
          \/ RefuseTorn(c)
          \/ StartAnnotate(c)
          \/ \E status \in {"reviewed", "disputed"} : Annotate(c, status)
          \/ EndRewrite(c)
          \/ Quit(c)
          \/ Crash(c)

ReviewSpec == ReviewInit /\ [][ReviewNext]_reviewVars

-----------------------------------------------------------------------------
(* Properties                                                                *)

\* A candidate counts as reviewed exactly when somebody was shown what its
\* row says now: an answer given to other content, in a session older than an
\* export or a hand edit, never counts, and exporting an unchanged finding
\* again costs no review.  (load, export and review over the same two files.)
CountsAreExact ==
    LET known == LedgerCandidates(candidates)
        counted == Current(candidates, reviews)
    IN  /\ \A id \in DOMAIN known :
              id \in DOMAIN counted <=>
                  \E review \in ToSet(reviews) :
                      review.id = id /\ review.saw = known[id].content
        /\ \A id \in DOMAIN counted : counted[id].saw = known[id].content
        /\ \A f \in Findings, seen \in Contents, label \in LABELS :
              IsCompared(candidates, reviews, [id |-> f, hash |-> seen, label |-> label]) =>
                  /\ counted[f].saw = seen
                  /\ Summary(candidates, reviews, Generator[RunOf[f]]).decisive > 0

\* What a command has saved stays in its file through every later command:
\* only a process that dies while it rewrites the file, or one that read the
\* file before somebody else saved, takes it away.  (export and write rewrite
\* whole files from a reading of their own.)
SavedWorkStands ==
    /\ "candidates" \notin disturbed /\ (\A c \in Commands : pc[c] # "write") =>
          saved.candidates \subseteq {row.id : row \in ToSet(candidates.rows)}
    /\ "annotations" \notin disturbed /\ (\A c \in Commands : pc[c] # "rewrite") =>
          /\ saved.annotations \subseteq ToSet(annotations.rows)
          /\ Len(annotations.rows) = Cardinality(Questions)
=============================================================================
