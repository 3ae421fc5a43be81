------------------------------ MODULE MCDatabase ------------------------------
(***************************************************************************)
(* What is written to the database side by side under READ COMMITTED: the     *)
(* corpus by the seed and an operator, decisions by analysts. No table is      *)
(* common to both, so a behaviour is one of theirs.                          *)
(***************************************************************************)
EXTENDS MCCorpus, Decisions
VARIABLE writes
allVars == <<vars, decisionVars, writes>>
DatabaseInit == Init /\ DecisionInit /\ writes \in {"corpus", "decisions"}
DatabaseNext == /\ UNCHANGED writes
                /\ \/ writes = "corpus" /\ Next /\ UNCHANGED decisionVars
                   \/ writes = "decisions" /\ DecisionNext /\ UNCHANGED vars
DatabaseSpec == DatabaseInit /\ [][DatabaseNext]_allVars
=============================================================================
