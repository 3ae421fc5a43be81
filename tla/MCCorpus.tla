------------------------------ MODULE MCCorpus ------------------------------
(* A small corpus for TLC: two synthetic circulars, one that displaces the   *)
(* other, and what an operator may hand to the same modules: the same file,   *)
(* a copy of stored bytes, another file under a stored number, a scan and a   *)
(* text the database refuses.                                                *)
EXTENDS Corpus

CONSTANTS Seeder, Operator

Para(refs, dated, cue, duty) == [refs |-> refs, dated |-> dated, cue |-> cue, duty |-> duty]

File(number, bytes, date, paras) ==
  [number |-> number, bytes |-> bytes, date |-> date, department |-> "MRD", synthetic |-> TRUE,
   paras |-> paras, text |-> TRUE, scanned |-> FALSE, storable |-> TRUE]

MCFiles == {"a", "b", "copy", "other", "scan", "bad"}

MCDoc ==
  "a" :> File("A", 1, 1, <<Para(<<"A">>, <<>>, "none", TRUE)>>) @@
  "b" :> File("B", 2, 2, <<Para(<<"A-", "X">>, <<>>, "supersedes", FALSE),
                           Para(<<"Y">>, <<0, 1>>, "rescinds", TRUE)>>) @@
  "copy" :> File("B2", 2, 2, <<Para(<<"A">>, <<>>, "amends", FALSE)>>) @@
  "other" :> File("B", 3, 1, <<>>) @@
  "scan" :> [File("S", 4, 1, <<Para(<<"B">>, <<2>>, "rescinds", FALSE)>>)
               EXCEPT !.text = FALSE, !.scanned = TRUE] @@
  "bad" :> [File("Z", 5, 0, <<>>) EXCEPT !.storable = FALSE]

MCKey == [n \in {"A", "B", "B2", "S", "X", "Y", "Z"} |-> n] @@ ("A-" :> "A")

MCItems == Seeder :> <<"a", "b">> @@ Operator :> <<"a", "other", "bad", "copy", "scan">>
MCJobs == Seeder :> {SeedSteps} @@
          Operator :> {<<"ingest">>, <<"build_graph">>, <<"extract">>}
MCMaxStarts == Seeder :> 2 @@ Operator :> 1
MCSeedsOnly == Seeder :> 2 @@ Operator :> 0
MCProcesses == {Seeder, Operator}
=============================================================================
