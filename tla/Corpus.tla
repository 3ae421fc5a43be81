------------------------------- MODULE Corpus -------------------------------
(***************************************************************************)
(* Filling the database: `make seed` and the same modules run by hand, each a *)
(* process with one session, side by side. Each action is what one process   *)
(* does between two database round trips that another's can fall between;     *)
(* a statement reads what is committed when it starts (READ COMMITTED).       *)
(*                                                                          *)
(* Source: ingestion/seed.py, run.py, build_graph.py, embed.py,              *)
(* extract_obligations.py; backend/app/services/ingestion.py,                *)
(* citation_graph.py, policy_pack.py and their repositories.                 *)
(***************************************************************************)
EXTENDS CitationGraph

CONSTANTS
  Processes,    \* shells in which somebody runs the modules
  Items,        \* Items[p]: the files of p's corpus, in the order of their names
  Jobs,         \* Jobs[p]: what p may be asked to run, each a sequence of modules
  Pack,         \* the policy pack's clauses, as one row to embed
  MaxStarts,    \* bound: MaxStarts[p], the commands given in shell p
  MaxCrashes    \* bound: processes killed or stopped by a database failure

SeedSteps == <<"ingest", "build_graph", "policy_pack", "embed", "extract">>
Outcomes == {"ingested", "skipped", "conflicts", "failed"}
Idle == {"idle", "done", "stopped"}

\* A corpus names a file once, and a command is the seed or one of its modules.
ASSUME CorpusAssumption ==
  /\ NoFile \notin Files /\ Pack \notin Files /\ Dates \subseteq Nat \ {NoDate}
  /\ \A f \in Files :
       /\ Doc[f].date \in Dates \cup {NoDate}
       /\ \A n \in DOMAIN Doc[f].paras : Doc[f].paras[n].dated \in Seq(Nat)
  /\ Items \in [Processes -> Seq(Files)] /\ \A p \in Processes : IsInjective(Items[p])
  /\ \A p \in Processes : Jobs[p] \subseteq {SeedSteps} \cup {<<SeedSteps[i]>> : i \in DOMAIN SeedSteps}
  /\ MaxStarts \in [Processes -> Nat] /\ MaxCrashes \in Nat

VARIABLES
  circulars,      \* committed rows
  citations,      \* committed rows, each with the rebuild that wrote it
  supersessions,
  pack,           \* the policy pack is stored
  embedded,       \* files and the pack, once their rows have embeddings
  obligations,    \* files with stored obligations
  nextId,         \* the id sequence of circulars
  at,             \* at[p]: where p stands, in Idle or within a module
  steps,          \* steps[p]: the modules p has still to run, its present one first
  todo,           \* todo[p]: what the present module has still to work through
  txn,            \* txn[p]: what p's transaction has written so far
  seen,           \* seen[p]: the rows its waiting DELETE statement works on
  lookup,         \* lookup[p]: the circulars its reference table was built from
  report,         \* report[p]: the files of p's last batch under each outcome
  alone,          \* history: no other rebuild has overlapped p's
  starts, crashes

tables == <<circulars, citations, supersessions, pack, embedded, obligations>>
vars == <<tables, nextId, at, steps, todo, txn, seen, lookup, report, alone, starts, crashes>>

EmptyTxn == [row |-> {}, goneC |-> {}, goneS |-> {}, newC |-> {}, newS |-> {}]
EmptyReport == [o \in Outcomes |-> {}]
Stored == {r.file : r \in circulars}

Init ==
  /\ circulars = {} /\ citations = {} /\ supersessions = {}
  /\ pack = FALSE /\ embedded = {} /\ obligations = {} /\ nextId = 1
  /\ at = [p \in Processes |-> "idle"]
  /\ steps = [p \in Processes |-> <<>>] /\ todo = [p \in Processes |-> <<>>]
  /\ txn = [p \in Processes |-> EmptyTxn]
  /\ seen = [p \in Processes |-> {}] /\ lookup = [p \in Processes |-> {}]
  /\ report = [p \in Processes |-> EmptyReport]
  /\ alone = [p \in Processes |-> TRUE]
  /\ starts = [p \in Processes |-> 0] /\ crashes = 0

-----------------------------------------------------------------------------
(* Running modules one after another.                                       *)

Entry(m) == CASE m = "ingest" -> "look" [] m = "build_graph" -> "forget"
              [] m = "policy_pack" -> "index" [] m = "embed" -> "select"
              [] m = "extract" -> "count"

\* A process that begins module m of the remaining modules s.
Begin(p, s) ==
  /\ steps' = [steps EXCEPT ![p] = s]
  /\ at' = [at EXCEPT ![p] = IF s = <<>> THEN "done" ELSE Entry(Head(s))]
  /\ todo' = [todo EXCEPT ![p] = IF s # <<>> /\ Head(s) = "ingest" THEN Items[p] ELSE <<>>]

\* The seed refuses a database that holds anything but the synthetic corpus.
Start(p) ==
  /\ at[p] \in Idle /\ starts[p] < MaxStarts[p]
  /\ starts' = [starts EXCEPT ![p] = @ + 1]
  /\ \E s \in Jobs[p] :
       /\ s = SeedSteps => \A f \in Stored : Doc[f].synthetic
       /\ Begin(p, s)
  /\ report' = [report EXCEPT ![p] = EmptyReport]
  /\ UNCHANGED <<tables, nextId, txn, seen, lookup, alone, crashes>>

NextModule(p) == Begin(p, Tail(steps[p]))

\* A module ends with an exit code, and with it the seed.
Stop(p) ==
  /\ at' = [at EXCEPT ![p] = "stopped"]
  /\ steps' = [steps EXCEPT ![p] = <<>>] /\ todo' = [todo EXCEPT ![p] = <<>>]

\* Mutant: a failed document is not rolled back.
RolledBack_Not(p) == UNCHANGED txn

RolledBack(p) == txn' = [txn EXCEPT ![p] = EmptyTxn]

\* The local state of a rebuild ends with it.
Forget(p) ==
  /\ seen' = [seen EXCEPT ![p] = {}] /\ lookup' = [lookup EXCEPT ![p] = {}]
  /\ alone' = [alone EXCEPT ![p] = TRUE]

\* A process dies or its module raises: what it had not committed is gone, and
\* the seed runs no further module.
Crash(p) ==
  /\ at[p] \notin Idle /\ crashes < MaxCrashes
  /\ crashes' = crashes + 1
  /\ Stop(p) /\ RolledBack(p) /\ Forget(p)
  /\ UNCHANGED <<tables, nextId, report, starts>>

-----------------------------------------------------------------------------
(* Ingesting a batch, one transaction for each document.                    *)

Goto(p, label) == at' = [at EXCEPT ![p] = label] /\ UNCHANGED steps

\* The head of the batch ends with this outcome.
Reported(p, outcome) ==
  /\ report' = [report EXCEPT ![p][outcome] = @ \cup {Head(todo[p])}]
  /\ todo' = [todo EXCEPT ![p] = Tail(@)]

Fails(p, outcome) == Reported(p, outcome) /\ RolledBack(p) /\ Goto(p, "look")

\* The same bytes are skipped. Two stored copies of them make the query raise.
Look(p) ==
  LET f == Head(todo[p])
      same == {r \in circulars \cup txn[p].row : Doc[r.file].bytes = Doc[f].bytes}
  IN  /\ at[p] = "look" /\ todo[p] # <<>>
      /\ \/ /\ Cardinality(same) = 1
            /\ Reported(p, "skipped") /\ UNCHANGED <<at, steps, txn>>
         \/ /\ Cardinality(same) > 1 /\ Fails(p, "failed")
         \/ /\ same = {} /\ Goto(p, "number") /\ UNCHANGED <<report, todo, txn>>
      /\ UNCHANGED <<tables, nextId, seen, lookup, alone, starts, crashes>>

\* A query of its own: a row of the same number is a conflict, whatever its bytes.
LookNumber(p) ==
  LET f == Head(todo[p])
      stored == {r \in circulars \cup txn[p].row : Doc[r.file].number = Doc[f].number}
  IN  /\ at[p] = "number"
      /\ \/ stored # {} /\ Fails(p, "conflicts")
         \/ stored = {} /\ Goto(p, "insert") /\ UNCHANGED <<report, todo, txn>>
      /\ UNCHANGED <<tables, nextId, seen, lookup, alone, starts, crashes>>

\* A page with a poor text layer is read by the vision model, or keeps its text.
Transcribed(f) == IF Doc[f].scanned THEN {0, 1} ELSE {0}

\* The circular's row: no text is an error, and so is a number another
\* transaction has committed since. An uncommitted one makes the insert wait.
Insert(p) ==
  LET f == Head(todo[p])
      sameNumber(rows) == {r \in rows : Doc[r.file].number = Doc[f].number}
  IN  /\ at[p] = "insert"
      /\ \A q \in Processes \ {p} : sameNumber(txn[q].row) = {}
      /\ \E vision \in Transcribed(f) :
           IF (~Doc[f].text /\ vision = 0) \/ sameNumber(circulars) # {}
           THEN Fails(p, "failed") /\ UNCHANGED nextId
           ELSE /\ txn' = [txn EXCEPT ![p].row = @ \cup
                     {[file |-> f, id |-> nextId, by |-> <<p, starts[p]>>, whole |-> FALSE]}]
                /\ nextId' = nextId + 1
                /\ Goto(p, "save") /\ UNCHANGED <<report, todo>>
      /\ UNCHANGED <<tables, seen, lookup, alone, starts, crashes>>

\* Its paragraphs and chunks: PostgreSQL may refuse their text.
Save(p) ==
  LET f == Head(todo[p])
  IN  /\ at[p] = "save"
      /\ IF Doc[f].storable
         THEN /\ txn' = [txn EXCEPT ![p].row =
                           {IF r.file = f THEN [r EXCEPT !.whole = TRUE] ELSE r : r \in @}]
              /\ Goto(p, "commit") /\ UNCHANGED <<report, todo>>
         ELSE Fails(p, "failed")
      /\ UNCHANGED <<tables, nextId, seen, lookup, alone, starts, crashes>>

CommitDocument(p) ==
  /\ at[p] = "commit"
  /\ circulars' = circulars \cup txn[p].row
  /\ txn' = [txn EXCEPT ![p] = EmptyTxn]
  /\ Reported(p, "ingested") /\ Goto(p, "look")
  /\ UNCHANGED <<citations, supersessions, pack, embedded, obligations>>
  /\ UNCHANGED <<nextId, seen, lookup, alone, starts, crashes>>

\* Mutant: the seed goes on whatever the batch reports.
EndBatch_Ignored(p) ==
  /\ at[p] = "look" /\ todo[p] = <<>> /\ NextModule(p)
  /\ UNCHANGED <<tables, nextId, txn, seen, lookup, report, alone, starts, crashes>>

\* A failure or a conflict is exit code 2, which ends a seed.
EndBatch(p) ==
  /\ at[p] = "look" /\ todo[p] = <<>>
  /\ IF report[p]["failed"] \cup report[p]["conflicts"] = {} THEN NextModule(p) ELSE Stop(p)
  /\ UNCHANGED <<tables, nextId, txn, seen, lookup, report, alone, starts, crashes>>

-----------------------------------------------------------------------------
(* Rebuilding the citation graph, in one transaction.                       *)

Rebuilding(p) == at[p] \in {"citations", "supersessions", "tabulate", "list", "replace"}

\* The DELETE of citations, and then that of supersessions: each takes the rows
\* committed as it starts, waits for transactions that are deleting some of
\* them, and passes over rows those have removed.
DeleteAll(p) ==
  /\ at[p] = "forget" /\ Goto(p, "citations")
  /\ seen' = [seen EXCEPT ![p] = citations]
  /\ alone' = [q \in Processes |->
                 IF q = p THEN \A o \in Processes \ {p} : ~Rebuilding(o)
                 ELSE alone[q] /\ ~Rebuilding(q)]
  /\ UNCHANGED <<tables, nextId, todo, txn, lookup, report, starts, crashes>>

\* Mutant: an append, the rows of the last rebuild stay.
Deleted_None(rows, p) == {}

Deleted(rows, p) == seen[p] \cap rows

CitationsDeleted(p) ==
  /\ at[p] = "citations" /\ Goto(p, "supersessions")
  /\ \A q \in Processes \ {p} : txn[q].goneC \cap seen[p] = {}
  /\ txn' = [txn EXCEPT ![p].goneC = Deleted(citations, p)]
  /\ seen' = [seen EXCEPT ![p] = supersessions]
  /\ UNCHANGED <<tables, nextId, todo, lookup, report, alone, starts, crashes>>

SupersessionsDeleted(p) ==
  /\ at[p] = "supersessions" /\ Goto(p, "tabulate")
  /\ \A q \in Processes \ {p} : txn[q].goneS \cap seen[p] = {}
  /\ txn' = [txn EXCEPT ![p].goneS = Deleted(supersessions, p)]
  /\ UNCHANGED <<tables, nextId, todo, seen, lookup, report, alone, starts, crashes>>

Tabulate(p) ==
  /\ at[p] = "tabulate" /\ Goto(p, "list")
  /\ lookup' = [lookup EXCEPT ![p] = circulars]
  /\ UNCHANGED <<tables, nextId, todo, txn, seen, report, alone, starts, crashes>>

\* A second list of the circulars, and the rows of each, tagged by the rebuild.
WriteEdges(p) ==
  /\ at[p] = "list" /\ Goto(p, "replace")
  /\ txn' = [txn EXCEPT
       ![p].newC = {<<p, starts[p], c>> : c \in Citations(circulars, lookup[p])},
       ![p].newS = {<<p, starts[p], s>> : s \in Supersessions(circulars, lookup[p])}]
  /\ UNCHANGED <<tables, nextId, todo, seen, lookup, report, alone, starts, crashes>>

ReplaceGraph(p) ==
  /\ at[p] = "replace" /\ NextModule(p)
  /\ citations' = (citations \ txn[p].goneC) \cup txn[p].newC
  /\ supersessions' = (supersessions \ txn[p].goneS) \cup txn[p].newS
  /\ txn' = [txn EXCEPT ![p] = EmptyTxn] /\ Forget(p)
  /\ UNCHANGED <<circulars, pack, embedded, obligations>>
  /\ UNCHANGED <<nextId, report, starts, crashes>>

-----------------------------------------------------------------------------
(* The policy pack, embeddings and obligations.                             *)

\* A pack already stored under its name and version is left as it is.
LookPack(p) ==
  /\ at[p] = "index"
  /\ IF pack THEN NextModule(p) ELSE Goto(p, "packing") /\ UNCHANGED todo
  /\ UNCHANGED <<tables, nextId, txn, seen, lookup, report, alone, starts, crashes>>

\* The name and version are unique: a pack stored meanwhile refuses this one,
\* which ends the module.
StorePack(p) ==
  /\ at[p] = "packing" /\ pack' = TRUE
  /\ IF pack THEN Stop(p) ELSE NextModule(p)
  /\ UNCHANGED <<circulars, citations, supersessions, embedded, obligations>>
  /\ UNCHANGED <<nextId, txn, seen, lookup, report, alone, starts, crashes>>

\* ORDER BY id: the i-th row has i rows up to it.
ById(rows) ==
  [i \in 1 .. Cardinality(rows) |-> CHOOSE r \in rows : Cardinality({s \in rows : s.id <= r.id}) = i]

\* The chunks without an embedding, by id.
SelectRows(p) ==
  LET byId == ById({r \in circulars : r.file \notin embedded})
  IN  /\ at[p] = "select" /\ Goto(p, "embed")
      /\ todo' = [todo EXCEPT ![p] = [i \in DOMAIN byId |-> byId[i].file]]
      /\ UNCHANGED <<tables, nextId, txn, seen, lookup, report, alone, starts, crashes>>

\* Committed batch by batch; here a batch is the chunks of one circular.
EmbedBatch(p) ==
  /\ at[p] = "embed" /\ todo[p] # <<>>
  /\ embedded' = embedded \cup {Head(todo[p])}
  /\ todo' = [todo EXCEPT ![p] = Tail(@)]
  /\ UNCHANGED <<circulars, citations, supersessions, pack, obligations, nextId>>
  /\ UNCHANGED <<at, steps, txn, seen, lookup, report, alone, starts, crashes>>

\* Then the clauses without one, those of a pack stored meanwhile included.
EndEmbed(p) ==
  /\ at[p] = "embed" /\ todo[p] = <<>> /\ NextModule(p)
  /\ embedded' = embedded \cup IF pack THEN {Pack} ELSE {}
  /\ UNCHANGED <<circulars, citations, supersessions, pack, obligations, nextId>>
  /\ UNCHANGED <<txn, seen, lookup, report, alone, starts, crashes>>

\* Nothing is extracted when any obligation is stored already.
CountObligations(p) ==
  /\ at[p] = "count"
  /\ IF obligations # {} THEN NextModule(p)
     ELSE LET newest == SetToSortSeq(circulars, ListedBefore)
          IN  /\ todo' = [todo EXCEPT ![p] = [i \in DOMAIN newest |-> newest[i].file]]
              /\ Goto(p, "extract")
  /\ UNCHANGED <<tables, nextId, txn, seen, lookup, report, alone, starts, crashes>>

HasDuty(f) == \E i \in DOMAIN Doc[f].paras : Doc[f].paras[i].duty

\* One commit for each circular that has obligations. A span stored by another
\* extraction meanwhile is refused, which ends this one.
ExtractCircular(p) ==
  LET new == {f \in {Head(todo[p])} : HasDuty(f)}
  IN  /\ at[p] = "extract" /\ todo[p] # <<>>
      /\ obligations' = obligations \cup new
      /\ IF new \cap obligations = {}
         THEN todo' = [todo EXCEPT ![p] = Tail(@)] /\ UNCHANGED <<at, steps>>
         ELSE Stop(p)
      /\ UNCHANGED <<circulars, citations, supersessions, pack, embedded, nextId>>
      /\ UNCHANGED <<txn, seen, lookup, report, alone, starts, crashes>>

EndExtract(p) ==
  /\ at[p] = "extract" /\ todo[p] = <<>> /\ NextModule(p)
  /\ UNCHANGED <<tables, nextId, txn, seen, lookup, report, alone, starts, crashes>>

Next == \E p \in Processes :
  \/ Start(p) \/ Crash(p)
  \/ Look(p) \/ LookNumber(p) \/ Insert(p) \/ Save(p) \/ CommitDocument(p) \/ EndBatch(p)
  \/ DeleteAll(p) \/ CitationsDeleted(p) \/ SupersessionsDeleted(p)
  \/ Tabulate(p) \/ WriteEdges(p) \/ ReplaceGraph(p)
  \/ LookPack(p) \/ StorePack(p) \/ SelectRows(p) \/ EmbedBatch(p) \/ EndEmbed(p)
  \/ CountObligations(p) \/ ExtractCircular(p) \/ EndExtract(p)

Spec == Init /\ [][Next]_vars

-----------------------------------------------------------------------------
(* Properties.                                                              *)

\* A batch's report is true of the database, whatever the other processes do:
\* an ingested document is there with all its paragraphs, a skipped one is there
\* from the same bytes, and one that failed has left nothing of itself behind, not
\* even with the document after it. A conflicting one's number is there, from
\* other bytes or, ingested between the two lookups, from the same: never by this
\* process.
ReportIsTrue ==
  /\ \A r \in circulars : r.whole
  /\ \A p \in Processes :
       LET of(o) == report[p][o]
           mine == {r \in circulars : r.by = <<p, starts[p]>>}
           like(f) == {r \in circulars : Doc[r.file].bytes = Doc[f].bytes}
       IN  /\ of("ingested") = {r.file : r \in mine}
           /\ \A f \in of("skipped") : like(f) # {}
           /\ \A f \in of("conflicts") :
                \E r \in circulars : /\ Doc[r.file].number = Doc[f].number
                                     /\ r \in like(f) => r.by[1] # p
           /\ \A o1, o2 \in Outcomes : o1 # o2 => of(o1) \cap of(o2) = {}

NoDuplicates(table) == \A x, y \in table : x[3] = y[3] => x = y

\* A rebuild that no other overlapped leaves every reference once and, if
\* nothing was ingested meanwhile, the graph of exactly the stored circulars:
\* whatever crashes and overlapping rebuilds came before it.
RebuildIsExact ==
  [][\A p \in Processes : ReplaceGraph(p) /\ alone[p] =>
       /\ NoDuplicates(citations') /\ NoDuplicates(supersessions')
       /\ lookup[p] = circulars =>
            {x[3] : x \in citations'} = Citations(circulars, circulars)]_vars

\* On no date are a circular and the one that displaced it both in force, and
\* on none has a circular gone out of force before one that displaces it came in.
HandoverIsExact ==
  LET edges == {x[3] : x \in supersessions}
      removes(e, f) == e.cite.to = f /\ e.type \in RemovesFromForce
  IN  \A asOf \in Dates, f \in Stored :
        /\ Doc[f].date # NoDate /\ Doc[f].date <= asOf =>
             (InForce(f, edges, asOf) <=>
                ~ \E e \in edges : removes(e, f) /\ Doc[e.cite.from].date \in 1..asOf)
        /\ \A e \in edges : removes(e, f) =>
             ~(InForce(f, edges, asOf) /\ InForce(e.cite.from, edges, asOf))

Seeded(p) == at[p] = "done" /\ Jobs[p] = {SeedSteps}

\* When the seed reports success every document of its corpus is stored,
\* embedded and in the graph with each reference to another circular, and the
\* policy pack is embedded: though it was run again after a crash, and though
\* others ingest and rebuild beside it.
SeedIsComplete ==
  \A p \in Processes : Seeded(p) =>
    /\ pack /\ Pack \in embedded
    /\ \A i \in DOMAIN Items[p] : \E r \in circulars :
         /\ Doc[r.file].bytes = Doc[Items[p][i]].bytes
         /\ r.file \in embedded
         /\ \A n \in DOMAIN Doc[r.file].paras : \A m \in DOMAIN Doc[r.file].paras[n].refs :
              LET para == Doc[r.file].paras[n]
              IN  \/ Key[para.refs[m]] = Key[Doc[r.file].number]
                  \/ Contains(para.dated, Doc[r.file].date)
                  \/ \E x \in citations : x[3].from = r.file /\ x[3].para = n /\ x[3].ref = m

\* ingestion/seed.py:6, "Every step is idempotent, so re-running is safe": the
\* run that ends with success has given each circular its obligations.
ReseedIsSafe ==
  \A p \in Processes : Seeded(p) =>
    \A i \in DOMAIN Items[p] : HasDuty(Items[p][i]) /\ Items[p][i] \in Stored =>
      Items[p][i] \in obligations
=============================================================================
