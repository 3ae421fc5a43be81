----------------------------- MODULE Decisions -----------------------------
(***************************************************************************)
(* Analysts decide on the findings of one run while it may still be adding    *)
(* some. One has the run's page open: a cached detail, at most one fetch of    *)
(* it, and the decisions sent from it; others decide elsewhere. A handler     *)
(* reads the database one statement at a time, each seeing what is committed  *)
(* (READ COMMITTED), and writes the columns that differ from what it loaded.  *)
(*                                                                          *)
(* Source: routers/assessments.py (get_assessment, set_decision, _summaries), *)
(* repositories/assessments.py (FindingRepository), db/session.py;            *)
(* frontend/src/hooks/queries.ts, components/assessment/DecisionBar.tsx.      *)
(***************************************************************************)
EXTENDS Integers, FiniteSets, Functions, Sequences

CONSTANTS
  MaxFindings,   \* bound: findings the run adds
  MaxDecisions,  \* bound: decisions sent
  MaxFailures    \* bound: requests and fetches that get no answer

AnalystDecision == {"PENDING", "ACCEPTED", "REJECTED"}
NoDetail == [status |-> "none"]
Settled == [at |-> "done"]

VARIABLES
  running,     \* the run is in progress
  row,         \* the stored findings in order: decision, and whether decided_at is set
  request,     \* the decisions sent, in order
  page,        \* the detail the page shows, NoDetail before the first
  fetch,       \* the answer being read for the page, NoDetail if there is none
  unsure,      \* something failed on the page since its last fetch began
  everStored,  \* history: the decisions each finding has had
  lastHere,    \* history: findings whose last stored decision came from the page
  overlapped,  \* history: findings on which decisions have overlapped
  failed       \* requests and fetches that got no answer

decisionVars == <<running, row, request, page, fetch, unsure, everStored, lastHere, overlapped, failed>>

DecisionInit ==
  /\ running = TRUE /\ row = <<>> /\ request = <<>>
  /\ page = NoDetail /\ fetch = NoDetail
  /\ unsure = FALSE /\ everStored = {} /\ lastHere = {} /\ overlapped = {} /\ failed = 0

-----------------------------------------------------------------------------
(* The run.                                                                 *)

Undecided == [decision |-> "PENDING", dated |-> FALSE]

AddFinding ==
  /\ running /\ Len(row) < MaxFindings
  /\ row' = Append(row, Undecided)
  /\ everStored' = everStored \cup {<<Len(row) + 1, "PENDING">>}
  /\ UNCHANGED <<running, request, page, fetch, unsure, lastHere, overlapped, failed>>

RunEnds ==
  /\ running /\ running' = FALSE
  /\ UNCHANGED <<row, request, page, fetch, unsure, everStored, lastHere, overlapped, failed>>

-----------------------------------------------------------------------------
(* A page fetches the run's detail.                                         *)

\* Mutant: the findings are read before the status.
Reads_StatusLast == <<"tally", "total", "list", "status">>

\* get_assessment: the run's row, its tallies, and the findings themselves.
Reads == <<"status", "tally", "total", "list">>

Asked == [status |-> "asked", read |-> 0, of |-> <<>>]

\* The first fetch of a page, and a poll while the shown run is in progress.
StartFetch ==
  /\ fetch = NoDetail
  /\ page = NoDetail \/ page.status = "in progress"
  /\ fetch' = Asked
  /\ unsure' = FALSE
  /\ UNCHANGED <<running, row, request, page, everStored, lastHere, overlapped, failed>>

\* What one statement of the handler sees; of the tallies by decision, by impact
\* and by quote only how many findings they count.
ReadNow(part) ==
  CASE part = "status" -> IF running THEN "in progress" ELSE "ended"
    [] part \in {"tally", "total"} -> Cardinality(DOMAIN row)
    [] part = "list"   -> row

ReadDetail ==
  /\ fetch # NoDetail /\ fetch.read < Len(Reads)
  /\ LET part == Reads[fetch.read + 1]
     IN  fetch' = [fetch EXCEPT
           !.read = @ + 1,
           !.of = [p \in DOMAIN @ \cup {part} |-> IF p = part THEN ReadNow(part) ELSE @[p]]]
  /\ UNCHANGED <<running, row, request, page, unsure, everStored, lastHere, overlapped, failed>>

ShowDetail ==
  /\ fetch # NoDetail /\ fetch.read = Len(Reads)
  /\ page' = fetch.of
  /\ fetch' = NoDetail
  /\ UNCHANGED <<running, row, request, unsure, everStored, lastHere, overlapped, failed>>

\* The page keeps what it shows.
FetchFails ==
  /\ fetch # NoDetail /\ failed < MaxFailures
  /\ failed' = failed + 1
  /\ fetch' = NoDetail
  /\ unsure' = TRUE
  /\ UNCHANGED <<running, row, request, page, everStored, lastHere, overlapped>>

-----------------------------------------------------------------------------
(* A decision.                                                              *)

Shown(f) == page # NoDetail /\ f \in DOMAIN page.list

Send(f, choice, here) ==
  request' = Append(request, [row |-> f, choice |-> choice, here |-> here,
                              loaded |-> Undecided, at |-> "sent"])

\* Leaving a finding and coming back makes its buttons work again, so a second
\* decision may be sent while the first is under way.
Decide(f, choice) ==
  /\ Shown(f) /\ Len(request) < MaxDecisions
  /\ choice = "PENDING" => page.list[f].decision # "PENDING"
  /\ Send(f, choice, TRUE)
  /\ UNCHANGED <<running, row, page, fetch, unsure, everStored, lastHere, overlapped, failed>>

\* Another page may show any decision the finding ever had.
DecideElsewhere(f, choice) ==
  /\ f \in DOMAIN row /\ Len(request) < MaxDecisions
  /\ choice = "PENDING" => \E d \in AnalystDecision \ {"PENDING"} : <<f, d>> \in everStored
  /\ Send(f, choice, FALSE)
  /\ UNCHANGED <<running, row, page, fetch, unsure, everStored, lastHere, overlapped, failed>>

LoadFinding(i) ==
  /\ request[i].at = "sent"
  /\ request' = [request EXCEPT ![i].at = "loaded", ![i].loaded = row[request[i].row]]
  /\ UNCHANGED <<running, row, page, fetch, unsure, everStored, lastHere, overlapped, failed>>

\* The row a handler holds in its session: the decision, and its time if any.
Decided(choice) == [decision |-> choice, dated |-> choice # "PENDING"]

\* The UPDATE sets the columns that differ from the loaded ones: a new time
\* always does, the same decision does not.
Updated(now, loaded, choice) ==
  [decision |-> IF loaded.decision = choice THEN now.decision ELSE choice,
   dated |-> IF choice = "PENDING" /\ ~loaded.dated THEN now.dated ELSE Decided(choice).dated]

StoreDecision(i) ==
  LET r == request[i]
  IN  /\ r.at = "loaded"
      /\ row' = [row EXCEPT ![r.row] = Updated(@, r.loaded, r.choice)]
      /\ request' = [request EXCEPT ![i].at = "stored", ![i].loaded = Undecided]
      /\ everStored' = everStored \cup {<<r.row, row'[r.row].decision>>}
      /\ lastHere' = IF r.here THEN lastHere \cup {r.row} ELSE lastHere \ {r.row}
      /\ overlapped' = overlapped \cup
           {f \in {r.row} : \E j \in DOMAIN request \ {i} : request[j].at = "loaded" /\ request[j].row = f}
      /\ UNCHANGED <<running, page, fetch, unsure, failed>>

\* Mutant: the page is not fetched again.
TakeOver_NoRefetch(r) ==
  /\ page' = [page EXCEPT !.list[r.row] = Decided(r.choice)]
  /\ UNCHANGED <<fetch, unsure>>

\* The answer is the row as the handler's session holds it. The page takes it
\* over, drops a fetch under way and fetches the detail again.
TakeOver(r) ==
  /\ page' = [page EXCEPT !.list[r.row] = Decided(r.choice)]
  /\ fetch' = Asked /\ unsure' = FALSE

AnswerArrives(i) ==
  /\ request[i].at = "stored"
  /\ request' = [request EXCEPT ![i] = Settled]
  /\ IF request[i].here THEN TakeOver(request[i]) ELSE UNCHANGED <<page, fetch, unsure>>
  /\ UNCHANGED <<running, row, everStored, lastHere, overlapped, failed>>

\* A failure before the commit rolls back; after it only the answer is lost. The
\* page reports the decision as not saved either way and shows the old one.
DecisionFails(i) ==
  LET r == request[i]
  IN  /\ r # Settled /\ failed < MaxFailures
      /\ failed' = failed + 1
      /\ request' = [request EXCEPT ![i] = Settled]
      /\ unsure' = (unsure \/ r.here)
      /\ UNCHANGED <<running, row, page, fetch, everStored, lastHere, overlapped>>

DecisionNext ==
  \/ AddFinding \/ RunEnds \/ StartFetch \/ ReadDetail \/ ShowDetail \/ FetchFails
  \/ \E f \in 1 .. MaxFindings, choice \in AnalystDecision : Decide(f, choice) \/ DecideElsewhere(f, choice)
  \/ \E i \in DOMAIN request :
       LoadFinding(i) \/ StoreDecision(i) \/ AnswerArrives(i) \/ DecisionFails(i)

-----------------------------------------------------------------------------
(* Properties.                                                              *)

AtRest == fetch = NoDetail /\ \A i \in DOMAIN request : request[i] # Settled => ~request[i].here

\* The page never shows a decision that was not stored. At rest, with nothing
\* reported as failed, it shows the stored one wherever it had the last word,
\* whatever polls and decisions of its own crossed; and a finding has a time
\* exactly when it is decided, unless two decisions on it overlapped.
DecisionsAreTrue ==
  /\ \A f \in 1 .. MaxFindings : Shown(f) => <<f, page.list[f].decision>> \in everStored
  /\ AtRest /\ ~unsure => \A f \in lastHere : page.list[f] = row[f]
  /\ \A f \in DOMAIN row \ overlapped : row[f].dated = (row[f].decision # "PENDING")

\* The page of an ended run lists every finding, its total is their number and
\* its tallies add up to it, though they were counted by separate statements.
EndedPageIsWhole ==
  page # NoDetail /\ page.status = "ended" =>
    /\ DOMAIN page.list = DOMAIN row
    /\ page.tally = page.total /\ page.total = Cardinality(DOMAIN row)
=============================================================================
