----------------------------- MODULE MCEvaluation -----------------------------
(***************************************************************************)
(* The evaluation tools.  The two halves share no file and no row, so a    *)
(* behaviour is one of the reviewers' or one of the measurements'.         *)
(***************************************************************************)
EXTENDS HumanReview, Measurement
CONSTANTS r1, r2, f1, f2
VARIABLE tool
MCRunOf == (f1 :> r1) @@ (f2 :> r2)
MCGenerator == (r1 :> "deterministic") @@ (r2 :> "real model")
MCSymmetry == Permutations(Commands) \cup Permutations(Measurers)
Init == /\ ReviewInit /\ MeasureInit
        /\ \/ tool = "review"
           \/ tool = "measure" /\ \A f \in Findings : finding[f] = Unlocated
Next == /\ UNCHANGED tool
        /\ \/ tool = "review" /\ ReviewNext /\ UNCHANGED measureVars
           \/ tool = "measure" /\ MeasureNext /\ UNCHANGED reviewVars
Spec == Init /\ [][Next]_<<reviewVars, measureVars, tool>>
=============================================================================
