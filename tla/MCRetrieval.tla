---------------------------- MODULE MCRetrieval ----------------------------
(* Three circulars of one chunk each, the last of which may supersede the    *)
(* second; one search over every ranking, beside one that is fixed.          *)
EXTENDS Retrieval, TLC

CONSTANTS s1, s2, f1, f2, f3

MCFiles == {f1, f2, f3}
MCDoc == f1 :> [date |-> 1, department |-> "d"] @@ f2 :> [date |-> 2, department |-> "d"]
         @@ f3 :> [date |-> 3, department |-> "d"]
MCKey == [n \in {} |-> 0]
MCDates == 1..3
MCSearches == {s1, s2}
MCChunks == 1..3
MCCircularOf == 1 :> f1 @@ 2 :> f2 @@ 3 :> f3
MCEdges == {{}, {[cite |-> [from |-> f3, to |-> f2], type |-> "supersedes", effective |-> 3]}}

NoFilters == [department |-> NoFilter, from |-> NoDate, to |-> NoDate, asOf |-> NoDate]
AsOf(day) == [NoFilters EXCEPT !.asOf = day]
Orders == {<<2, 1, 3>>, <<3, 2, 1>>}
Matches == {<<2>>, <<1, 3>>, <<2, 1>>}
ScoreSets == {<<3, 1, 2>>, <<1, 1, 1>>}

MCStored == {[rows |-> {1, 2, 3}, embedded |-> {1, 3}], [rows |-> {1, 2}, embedded |-> {1, 2}]}

MCAsks ==
  s1 :> ([mode : {"dense", "lexical"}, dense : {<<2, 1, 3>>}, lexical : {<<2, 1>>}, score : {<<1, 2, 3>>},
          filter : {NoFilters, AsOf(3)}, apply : {TRUE}]
         \cup [mode : {"hybrid"}, dense : Orders, lexical : Matches, score : {<<1, 2, 3>>},
               filter : {AsOf(3)}, apply : {TRUE}]
         \cup [mode : {Rerank}, dense : {<<2, 3, 1>>}, lexical : {<<2, 1>>}, score : ScoreSets,
               filter : {AsOf(3), [AsOf(3) EXCEPT !.to = 1]}, apply : {TRUE}]
         \cup [mode : {Rerank}, dense : {<<3, 1, 2>>}, lexical : {<<2, 1>>}, score : ScoreSets,
               filter : {NoFilters}, apply : BOOLEAN])
  @@ s2 :> [mode : {"dense"}, dense : {<<1, 2, 3>>}, lexical : {<<>>}, score : {<<3, 2, 1>>},
            filter : {NoFilters}, apply : {TRUE}]
=============================================================================
