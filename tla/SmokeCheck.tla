----------------------------- MODULE SmokeCheck -----------------------------
(***************************************************************************)
(* The paid smoke check: when it starts, and what it calls the run it started. *)
(* A world w is what the check finds: its environment, the database, the      *)
(* API's answers ("ok", "raises", "error" status, "malformed") and the run's   *)
(* record. Of several problems the first in the code's order is reported.     *)
(*                                                                          *)
(* Source: evaluation/provider_smoke.py.                                    *)
(***************************************************************************)
EXTENDS Integers, Sequences, SequencesExt, FiniteSetsExt

CONSTANTS CallCap, TokenCap  \* LIMITS, MAX_ASSESSMENT_CALLS and _TOKENS

Nothing == "nothing"
If(problem, name) == IF problem THEN name ELSE Nothing
FirstOf(names) ==
  LET found == SelectSeq(names, LAMBDA n : n # Nothing)
  IN  IF found = <<>> THEN Nothing ELSE Head(found)

\* Before any connection is made.
Refused(w) ==
  ~w.paid \/ ~w.named \/ ~w.target \/ w.provider = "deterministic" \/ ~w.key \/ ~w.limits

\* The database is one the seed built, and its smallest circular fits the cap.
Unfit(w) ==
  \/ ~w.reachable \/ w.revision # "head" \/ w.outside
  \/ w.obligations = {} \/ ~w.pack \/ w.clauses # "embedded"
  \/ Cardinality(w.obligations) + 1 > CallCap

Http(answer) == If(answer \in {"raises", "error"}, "TRANSPORT")
Malformed(answer) == If(answer = "malformed", "MALFORMED")

Used(steps) == FoldLeft(LAMBDA sum, s : sum + s.tokens, 0, steps)

\* A step used tokens after the cap was reached.
Overspent(steps) ==
  \E i \in DOMAIN steps : steps[i].tokens > 0 /\ Used(SubSeq(steps, 1, i - 1)) >= TokenCap

ActivityProblem(w) ==
  \/ Len(w.calls) # 1 \/ Head(w.calls) \notin 1 .. CallCap
  \/ w.total <= 0 \/ Used(w.steps) # w.total
  \/ ~ \E i \in DOMAIN w.steps : w.steps[i].node = "judge_impact" /\ w.steps[i].tokens > 0
  \/ \E i \in DOMAIN w.steps : ~w.steps[i].finished
  \/ Overspent(w.steps) \/ ~w.inTime

FixtureProblem(w) ==
  FirstOf(<<
    If(\E f \in w.findings : ~f.own \/ f.obligation \notin w.obligations, "INVALID"),
    If(w.planned # Cardinality(w.obligations), "INVALID"),
    If(~(w.obligations \subseteq {f.obligation : f \in w.findings}), "INCOMPLETE"),
    If(w.failedTasks > 0, "INCOMPLETE"),
    If(~w.memo, "INCOMPLETE")>>)

\* The run it started: the POST returns when the background assessment has ended.
RunVerdict(w) ==
  FirstOf(<<
    Http(w.post), Malformed(w.post), Http(w.get), Malformed(w.get),
    If(w.status \notin {"COMPLETED", "FAILED", "CAPPED"}, "INCOMPLETE"),
    If(~w.schema, "MALFORMED"),
    If(~w.same \/ w.used # w.provider, "INVALID"),
    If(w.status # "COMPLETED", w.status),
    Http(w.list), Malformed(w.list),
    If(ActivityProblem(w), "INVALID"), FixtureProblem(w), "PASSED">>)

ExportRun(w) == If(w.export = "raises", "EXPORT_FAILED")

\* How the command ends, and whether it has started a run and exported one.
Smoke(w) ==
  IF Refused(w) \/ Unfit(w) THEN [name |-> "REFUSED", started |-> FALSE, exported |-> FALSE]
  ELSE LET exports == RunVerdict(w) = "PASSED" /\ w.export # "not asked"
       IN  [name |-> FirstOf(<<IF exports THEN ExportRun(w) ELSE Nothing, RunVerdict(w)>>),
            started |-> TRUE, exported |-> exports /\ ExportRun(w) = Nothing]
=============================================================================
