----------------------------- MODULE Retrieval -----------------------------
(***************************************************************************)
(* The retrieval pipeline: a query embedded in a worker thread, two ranked   *)
(* lists read by separate statements, the probe for what the point-in-time   *)
(* filter hides, reciprocal rank fusion, the rows loaded, the cross-encoder, *)
(* the threshold. Meanwhile the corpus may change between any two statements *)
(* and the start-up task loads the same two models.                          *)
(*                                                                          *)
(* A request carries the order its query gives the chunks: dense ranks all,  *)
(* lexical those that match, score is the cross-encoder's (percent).         *)
(***************************************************************************)
EXTENDS CitationGraph

CONSTANTS
  Chunks,        \* chunk ids, naturals
  CircularOf,    \* the file of each chunk
  Searches,      \* searches under way, each in its own task
  Warmup,        \* the start-up task that loads the models
  Asks,          \* Asks[s]: the requests search s may make
  Stored,        \* the chunks [rows, embedded] a behaviour may begin with
  Edges,         \* the edge sets a rebuild of the citation graph may leave
  RetrieveTopN, RerankTopK, RrfK, Threshold,
  MaxChanges     \* bound: changes of the corpus during a behaviour

VARIABLES
  chunks,        \* chunks stored
  embedded,      \* chunks whose embedding is stored
  edges,         \* supersession rows
  changes,       \* changes of the corpus so far
  search,        \* the state of each search
  caller,        \* what each thread does with a model: [at, model]
  loaded,        \* whether each model is cached in the process
  loadLock,      \* who holds _model_lock and _reranker_lock
  inferLock      \* who holds _encode_lock and _predict_lock

corpus == <<chunks, embedded, edges, changes>>
models == <<caller, loaded, loadLock, inferLock>>
vars == <<corpus, search, models>>

Models == {"embedding", "reranker"}
Threads == Searches \cup {Warmup}
Free == "free"

Rerank == "hybrid_rerank"

\* The chunks of a request stand in the order its query gives them, and the
\* cross-encoder has a score for each.
Request == [mode : {"dense", "lexical", "hybrid", Rerank}, dense : Seq(Chunks), lexical : Seq(Chunks),
            score : [Chunks -> Int], apply : BOOLEAN,
            filter : [department : {NoFilter} \cup {Doc[f].department : f \in Files},
                      from : Nat, to : Nat, asOf : Nat]]

ASSUME RetrievalAssumption ==
  /\ Free \notin Threads /\ Warmup \notin Searches
  /\ Chunks \subseteq Nat
  /\ \A s \in Searches : Asks[s] \subseteq Request
  /\ RetrieveTopN \in Nat \ {0} /\ RerankTopK \in Nat \ {0} /\ RrfK \in Nat \ {0} /\ Threshold \in Int

UsesDense(mode) == mode # "lexical"
UsesLexical(mode) == mode # "dense"

-----------------------------------------------------------------------------
(* Reciprocal rank fusion.                                                  *)

\* The members of a set in the order of a relation, written as a function of the
\* positions.
Listing(S, before) ==
  [i \in 1..Cardinality(S) |-> CHOOSE x \in S : Cardinality({y \in S : y = x \/ <<y, x>> \in before}) = i]

\* What a list has of a set, in the order of the list.
Only(list, S) ==
  LET at == {i \in DOMAIN list : list[i] \in S}
      kept == Listing(at, {p \in at \X at : p[1] < p[2]})
  IN  [i \in DOMAIN kept |-> list[kept[i]]]

\* The rank of a chunk in a list, a repeated chunk keeping its best; 0: absent.
RankIn(list, c) ==
  IF \E i \in DOMAIN list : list[i] = c
  THEN CHOOSE i \in DOMAIN list : list[i] = c /\ \A j \in 1..(i - 1) : list[j] # c
  ELSE 0

\* The sum of 1 / (k + rank) over the lists that rank it, as a fraction.
RrfScore(dense, lexical, c) ==
  LET d == RankIn(dense, c)  l == RankIn(lexical, c)
  IN  IF d = 0 THEN <<1, RrfK + l>>
      ELSE IF l = 0 THEN <<1, RrfK + d>>
      ELSE <<(RrfK + d) + (RrfK + l), (RrfK + d) * (RrfK + l)>>

FusedBefore(dense, lexical, a, b) ==
  LET x == RrfScore(dense, lexical, a)  y == RrfScore(dense, lexical, b)
  IN  \/ x[1] * y[2] > y[1] * x[2]
      \/ x[1] * y[2] = y[1] * x[2] /\ a < b

Fused(dense, lexical) ==
  LET all == Range(dense) \cup Range(lexical)
  IN  Listing(all, {p \in all \X all : FusedBefore(dense, lexical, p[1], p[2])})

OrderCandidates(mode, dense, lexical) ==
  CASE mode = "dense" -> dense
    [] mode = "lexical" -> lexical
    [] OTHER -> Fused(dense, lexical)

First(n, s) == SubSeq(s, 1, IF Len(s) < n THEN Len(s) ELSE n)

-----------------------------------------------------------------------------
(* From candidates to a result.                                             *)

\* Best score first, a tie by chunk id.
Reranked(score, ids) ==
  Listing(ids, {p \in ids \X ids : \/ score[p[1]] > score[p[2]]
                                   \/ score[p[1]] = score[p[2]] /\ p[1] < p[2]})

\* After reranking the rows that vanished come last, and no hit is made of them.
Hits(r, candidates, rows) ==
  LET gone == Only(candidates, Range(candidates) \ rows)
      ordered == IF r.mode = Rerank THEN Reranked(r.score, rows) \o gone ELSE candidates
  IN  Only(First(RerankTopK, ordered), rows)

\* Mutant: the hits of a refused search are returned with it.
Assembled_Kept(r, candidates, rows, hidden) ==
  LET hits == Hits(r, candidates, rows)
      below == r.mode = Rerank /\ hits # <<>> /\ r.score[hits[1]] < Threshold
  IN  [hits |-> hits, below |-> below, excluded |-> hidden]

\* Only the reranked mode has a threshold, and only an answer can be below it.
Assembled(r, candidates, rows, hidden) ==
  LET hits == Hits(r, candidates, rows)
      below == r.mode = Rerank /\ hits # <<>> /\ r.score[hits[1]] < Threshold
  IN  [hits |-> IF below /\ r.apply THEN <<>> ELSE hits, below |-> below, excluded |-> hidden]

\* Mutant: the probe searches as of the same date.
Unfiltered_AsOf(q) == [q EXCEPT !.to = q.asOf]

\* The filters of the probe: the as-of date becomes the last issue date.
Unfiltered(q) == [q EXCEPT !.asOf = NoDate, !.to = q.asOf]

Matching(list, q) ==
  First(RetrieveTopN, Only(list, {c \in chunks : CircularOf[c] \in Filtered(Files, edges, q)}))
Dense(r, q) == Matching(Only(r.dense, embedded), q)
Lexical(r, q) == Matching(r.lexical, q)

-----------------------------------------------------------------------------
(* The steps of one search.                                                 *)

NoRequest == [mode |-> "none"]
NoResult == [hits |-> <<>>, below |-> FALSE, excluded |-> {}]

Init ==
  /\ \E x \in Stored : chunks = x.rows /\ embedded = x.embedded
  /\ edges \in Edges
  /\ changes = 0
  /\ search = [s \in Searches |->
       [at |-> "idle", req |-> NoRequest, dense |-> <<>>, lexical |-> <<>>, hidden |-> <<>>,
        candidates |-> <<>>, rows |-> {}, result |-> NoResult, still |-> TRUE]]
  /\ caller = [t \in Threads |->
       IF t = Warmup THEN [at |-> "look", model |-> "embedding"] ELSE [at |-> "away", model |-> "none"]]
  /\ loaded = [m \in Models |-> FALSE]
  /\ loadLock = [m \in Models |-> Free]
  /\ inferLock = [m \in Models |-> Free]

Stages == <<"embed", "dense", "lexical", "probeDense", "probeLexical", "exclude", "load">>

Applies(r) ==
  {"load"} \cup (IF UsesDense(r.mode) THEN {"embed", "dense"} ELSE {})
           \cup (IF UsesLexical(r.mode) THEN {"lexical"} ELSE {})
           \cup (IF r.filter.asOf = NoDate THEN {}
                 ELSE {"exclude"} \cup (IF UsesDense(r.mode) THEN {"probeDense"} ELSE {})
                                  \cup (IF UsesLexical(r.mode) THEN {"probeLexical"} ELSE {}))

Following(r, done) ==
  Stages[Min({i \in DOMAIN Stages : i > done /\ Stages[i] \in Applies(r)})]

Calls(t, m) == caller' = [caller EXCEPT ![t] = [at |-> "look", model |-> m]]

Begin(s) ==
  /\ search[s].at = "idle"
  /\ \E r \in Asks[s] :
       /\ search' = [search EXCEPT ![s].at = Following(r, 0), ![s].req = r]
       /\ IF UsesDense(r.mode) THEN Calls(s, "embedding") ELSE UNCHANGED caller
  /\ UNCHANGED <<corpus, loaded, loadLock, inferLock>>

Advance(s, stage, field, value) ==
  search' = [search EXCEPT ![s][field] = value, ![s].at = Following(search[s].req, stage)]

RunDense(s) ==
  /\ search[s].at = "dense"
  /\ Advance(s, 2, "dense", Dense(search[s].req, search[s].req.filter))
  /\ UNCHANGED <<corpus, models>>

RunLexical(s) ==
  /\ search[s].at = "lexical"
  /\ Advance(s, 3, "lexical", Lexical(search[s].req, search[s].req.filter))
  /\ UNCHANGED <<corpus, models>>

\* The probe's own two lists; the candidates are cut from their fusion.
ProbeDense(s) ==
  /\ search[s].at = "probeDense"
  /\ Advance(s, 4, "hidden", Dense(search[s].req, Unfiltered(search[s].req.filter)))
  /\ UNCHANGED <<corpus, models>>

ProbeLexical(s) ==
  /\ search[s].at = "probeLexical"
  /\ LET found == Lexical(search[s].req, Unfiltered(search[s].req.filter))
     IN  Advance(s, 5, "hidden", Fused(search[s].hidden, found))
  /\ UNCHANGED <<corpus, models>>

\* Of the probe's candidates, those whose circular is out of force by now.
Exclude(s) ==
  /\ search[s].at = "exclude"
  /\ LET probed == Range(First(RerankTopK, search[s].hidden)) \cap chunks
         files == ExcludedByTemporalFilter(Files, edges, search[s].req.filter.asOf)
     IN  search' = [search EXCEPT ![s].at = "load",
                      ![s].result.excluded = {c \in probed : CircularOf[c] \in files}]
  /\ UNCHANGED <<corpus, models>>

Load(s) ==
  /\ search[s].at = "load"
  /\ LET x == search[s]
         candidates == First(RetrieveTopN, OrderCandidates(x.req.mode, x.dense, x.lexical))
         rows == Range(candidates) \cap chunks
     IN  IF x.req.mode = Rerank /\ rows # {}
         THEN /\ search' = [search EXCEPT ![s].at = "rerank", ![s].candidates = candidates, ![s].rows = rows]
              /\ Calls(s, "reranker")
         ELSE /\ search' = [search EXCEPT ![s].at = "done", ![s].candidates = candidates, ![s].rows = rows,
                              ![s].result = Assembled(x.req, candidates, rows, x.result.excluded)]
              /\ UNCHANGED caller
  /\ UNCHANGED <<corpus, loaded, loadLock, inferLock>>

-----------------------------------------------------------------------------
(* The two models: loaded once behind a double-checked lock, used by one     *)
(* thread at a time.                                                         *)

At(t, at) == caller' = [caller EXCEPT ![t].at = at]
Model(t) == caller[t].model

Look(t) ==
  /\ caller[t].at = "look"
  /\ At(t, IF loaded[Model(t)] THEN "infer" ELSE "lock")
  /\ UNCHANGED <<corpus, search, loaded, loadLock, inferLock>>

LockModel(t) ==
  /\ caller[t].at = "lock" /\ loadLock[Model(t)] = Free
  /\ loadLock' = [loadLock EXCEPT ![Model(t)] = t]
  /\ At(t, "recheck")
  /\ UNCHANGED <<corpus, search, loaded, inferLock>>

\* Mutant: the model is built without looking again.
Recheck_Unchecked(t) ==
  /\ caller[t].at = "recheck"
  /\ At(t, "build")
  /\ UNCHANGED <<corpus, search, loaded, loadLock, inferLock>>

Recheck(t) ==
  /\ caller[t].at = "recheck"
  /\ IF loaded[Model(t)]
     THEN At(t, "infer") /\ loadLock' = [loadLock EXCEPT ![Model(t)] = Free]
     ELSE At(t, "build") /\ UNCHANGED loadLock
  /\ UNCHANGED <<corpus, search, loaded, inferLock>>

Build(t) ==
  /\ caller[t].at = "build"
  /\ loaded' = [loaded EXCEPT ![Model(t)] = TRUE]
  /\ loadLock' = [loadLock EXCEPT ![Model(t)] = Free]
  /\ At(t, "infer")
  /\ UNCHANGED <<corpus, search, inferLock>>

\* A source that fails its check, or files that are missing: the call raises.
BuildFails(t) ==
  /\ caller[t].at = "build"
  /\ loadLock' = [loadLock EXCEPT ![Model(t)] = Free]
  /\ At(t, "away")
  /\ search' = IF t = Warmup THEN search ELSE [search EXCEPT ![t].at = "failed"]
  /\ UNCHANGED <<corpus, loaded, inferLock>>

\* The start-up task only loads; it goes from one model to the other.
Warmed ==
  /\ caller[Warmup].at = "infer"
  /\ IF Model(Warmup) = "embedding" THEN Calls(Warmup, "reranker") ELSE At(Warmup, "away")
  /\ UNCHANGED <<corpus, search, loaded, loadLock, inferLock>>

Infer(s) ==
  /\ caller[s].at = "infer" /\ inferLock[Model(s)] = Free
  /\ inferLock' = [inferLock EXCEPT ![Model(s)] = s]
  /\ At(s, "running")
  /\ UNCHANGED <<corpus, search, loaded, loadLock>>

Inferred(s) ==
  /\ caller[s].at = "running"
  /\ inferLock' = [inferLock EXCEPT ![Model(s)] = Free]
  /\ At(s, "away")
  /\ LET x == search[s]
     IN  IF Model(s) = "embedding" THEN search' = [search EXCEPT ![s].at = Following(x.req, 1)]
         ELSE search' = [search EXCEPT ![s].at = "done",
                ![s].result = Assembled(x.req, x.candidates, x.rows, x.result.excluded)]
  /\ UNCHANGED <<corpus, loaded, loadLock>>

-----------------------------------------------------------------------------
(* The corpus, changed by other processes between two statements.           *)

Changed ==
  /\ changes < MaxChanges
  /\ changes' = changes + 1
  /\ search' = [s \in Searches |-> IF search[s].at = "idle" THEN search[s]
                                   ELSE [search[s] EXCEPT !.still = FALSE]]
  /\ UNCHANGED models

Ingested(c) ==
  /\ Changed /\ c \notin chunks
  /\ chunks' = chunks \cup {c}
  /\ UNCHANGED <<embedded, edges>>

Embedded(c) ==
  /\ Changed /\ c \in chunks \ embedded
  /\ embedded' = embedded \cup {c}
  /\ UNCHANGED <<chunks, edges>>

\* Rows deleted by hand: nothing in the code deletes a chunk, and _hydrate expects it.
Vanished(c) ==
  /\ Changed /\ c \in chunks
  /\ chunks' = chunks \ {c}
  /\ embedded' = embedded \ {c}
  /\ UNCHANGED edges

Rebuilt ==
  /\ Changed
  /\ edges' \in Edges \ {edges}
  /\ UNCHANGED <<chunks, embedded>>

UseModel(t) == Look(t) \/ LockModel(t) \/ Recheck(t) \/ Build(t) \/ BuildFails(t)

Done == (\A s \in Searches : search[s].at \in {"done", "failed"}) /\ caller[Warmup].at = "away" /\ UNCHANGED vars

Next ==
  \/ \E s \in Searches :
       \/ Begin(s) \/ RunDense(s) \/ RunLexical(s) \/ ProbeDense(s) \/ ProbeLexical(s)
       \/ Exclude(s) \/ Load(s) \/ Infer(s) \/ Inferred(s)
  \/ \E t \in Threads : UseModel(t)
  \/ Warmed
  \/ \E c \in Chunks : Ingested(c) \/ Embedded(c) \/ Vanished(c)
  \/ Rebuilt
  \/ Done

Spec == Init /\ [][Next]_vars

-----------------------------------------------------------------------------
(* What a finished search promises.                                         *)

Ended == {s \in Searches : search[s].at = "done"}

\* A search that refuses returns nothing, one that answers in the reranked mode
\* starts at or above the threshold unless the harness asked for everything, and
\* nothing better that was loaded is missing: not the chunk a refusal should have
\* been decided on, not one behind a row that vanished.
AnswersAreSound ==
  \A s \in Ended :
    LET x == search[s]  hits == x.result.hits
    IN  /\ Range(hits) \subseteq x.rows /\ Len(hits) <= RerankTopK
        /\ x.req.mode = Rerank /\ x.req.apply =>
             /\ x.result.below => hits = <<>> /\ \A c \in x.rows : x.req.score[c] < Threshold
             /\ ~x.result.below => (hits = <<>> <=> x.rows = {})
             /\ \A i \in DOMAIN hits, c \in x.rows \ Range(hits) : x.req.score[c] <= x.req.score[hits[i]]
        /\ x.req.mode # Rerank => ~x.result.below
        /\ \A i, j \in DOMAIN hits :
             i < j /\ x.req.mode = "hybrid" =>
               \* what both retrievers rank better is not listed behind
               ~ /\ RankIn(x.dense, hits[j]) # 0 /\ RankIn(x.lexical, hits[j]) # 0
                 /\ RankIn(x.dense, hits[j]) < RankIn(x.dense, hits[i])
                 /\ RankIn(x.lexical, hits[j]) < RankIn(x.lexical, hits[i])

\* The banner: while nothing has changed since the search began, a chunk it says
\* the as-of date hid was issued by that date and is not among the hits, and a
\* hidden chunk that would have come first in both lists is never left unsaid.
BannerIsTrue ==
  \A s \in Ended :
    LET x == search[s]  q == x.req.filter
        all == [q EXCEPT !.asOf = NoDate, !.to = q.asOf]
        dense == Dense(x.req, all)  lexical == Lexical(x.req, all)
    IN  x.still /\ q.asOf # NoDate =>
          /\ x.result.excluded \cap Range(x.result.hits) = {}
          /\ \A c \in x.result.excluded :
               Doc[CircularOf[c]].date # NoDate /\ Doc[CircularOf[c]].date <= q.asOf
          /\ q.to = NoDate /\ dense # <<>> /\ lexical # <<>> /\ dense[1] = lexical[1]
               /\ ~InForce(CircularOf[dense[1]], edges, q.asOf)
             => dense[1] \in x.result.excluded

\* Each model is built by one thread at a time and never again once it is cached,
\* and no two threads are inside the same model: start-up task or search.
ModelsAreSafe ==
  \A m \in Models :
    LET at(stage) == {t \in Threads : caller[t].model = m /\ caller[t].at = stage}
    IN  /\ Cardinality(at("build")) <= 1 /\ Cardinality(at("running")) <= 1
        /\ loaded[m] => at("build") = {}
=============================================================================
