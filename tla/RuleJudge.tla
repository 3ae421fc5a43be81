----------------------------- MODULE RuleJudge -----------------------------
(***************************************************************************)
(* The deterministic provider's judgement of one obligation against one       *)
(* policy clause, on texts of words. "." and ";" end a sentence, "#" opens a  *)
(* heading line and "n" ends it; a figure is a word of its own.              *)
(*                                                                          *)
(* Source: ai/deterministic.py.                                             *)
(***************************************************************************)
EXTENDS Integers, Sequences, SequencesExt, FiniteSetsExt

CONSTANTS
  MaxQuoted,   \* _MAX_QUOTE, in words
  MinSentence  \* words of the shortest piece that is read as a sentence

\* What is quoted has at least one word.
ASSUME RuleJudgeAssumption == MaxQuoted \in Nat \ {0} /\ MinSentence \in Nat

Figures == [d3 |-> [unit |-> "days", value |-> 3], d5 |-> [unit |-> "days", value |-> 5],
            h3 |-> [unit |-> "hours", value |-> 3]]

Stops == {".", ";"}
Heading == "#"
Markup == {Heading, "n"} \cup Stops

\* Stop words, generic words and figures say nothing about the requirement.
Terms(text) == Range(text) \ (Markup \cup DOMAIN Figures \cup {"shall-not", "may"})

NoFigure == ""

\* The first figure of a text, if it states one.
Quantity(text) ==
  LET at == {i \in DOMAIN text : text[i] \in DOMAIN Figures}
  IN  IF at = {} THEN NoFigure ELSE text[Min(at)]

Prohibits(text) == "shall-not" \in Range(text)
Permits(text) == "may" \in Range(text)

\* What is quoted of a text: its beginning, verbatim.
TrimQuote(text) == SubSeq(text, 1, Min({MaxQuoted, Len(text)}))

\* Where the sentences of a text begin, behind a heading line in front of them.
BodyStart(text) ==
  LET newlines == {i \in DOMAIN text : text[i] = "n"}
  IN  IF text = <<>> \/ Head(text) # Heading THEN 1
      ELSE IF newlines = {} THEN Len(text) + 1 ELSE Min(newlines) + 1

\* The piece that starts at i goes on to the next stop.
PieceFrom(text, i) == SubSeq(text, i, Min({j \in i .. Len(text) : text[j] \in Stops} \cup {Len(text)}))

\* The pieces of a text that are long enough to be read as sentences.
Sentences(text) ==
  LET starts(i) == /\ i >= BodyStart(text) /\ text[i] \notin Stops
                   /\ i = BodyStart(text) \/ text[i - 1] \in Stops
  IN  FlattenSeq([i \in DOMAIN text |->
        IF starts(i) /\ Len(PieceFrom(text, i)) >= MinSentence THEN <<PieceFrom(text, i)>> ELSE <<>>])

\* The first sentence that shares the most terms, <<>> if none shares any.
BestSentence(text, terms) ==
  LET sentences == Sentences(text)
      score(k) == Cardinality(Terms(sentences[k]) \cap terms)
      best == {k \in DOMAIN sentences : /\ score(k) > 0
                                        /\ \A j \in DOMAIN sentences : score(j) <= score(k)}
  IN  IF best = {} THEN <<>> ELSE TrimQuote(sentences[Min(best)])

\* The first sentence that states the figure, or the figure itself.
SentenceAround(text, figure) ==
  LET sentences == Sentences(text)
      stating == {k \in DOMAIN sentences : Contains(sentences[k], figure)}
  IN  IF stating = {} THEN <<figure>> ELSE TrimQuote(sentences[Min(stating)])

Verdict(impact, circularSpan, clauseSpan) ==
  [impact |-> impact, circularSpan |-> circularSpan, clauseSpan |-> clauseSpan]

\* Shared terms decide, after a differing figure and a differing prohibition.
Judge(obligation, clause) ==
  LET terms == Terms(obligation)
      shared == Cardinality(terms \cap Terms(clause))
      overlaps(n, d) == terms # {} /\ shared * d >= n * Cardinality(terms)
      best == BestSentence(clause, terms)
      quote == TrimQuote(obligation)
      mine == Quantity(obligation)
      theirs == Quantity(clause)
      differs == /\ mine # NoFigure /\ theirs # NoFigure
                 /\ Figures[mine].unit = Figures[theirs].unit
                 /\ Figures[mine].value # Figures[theirs].value
      opposed == /\ Prohibits(obligation) # Prohibits(best) /\ overlaps(2, 5)
                 /\ Permits(IF Prohibits(obligation) THEN best ELSE obligation)
  IN  CASE ~overlaps(1, 4) \/ best = <<>> -> Verdict("NO_MATCH", quote, <<>>)
        [] OTHER ->
           CASE differs -> Verdict("MODIFIED", SentenceAround(obligation, mine),
                                   SentenceAround(clause, theirs))
             [] ~differs /\ opposed -> Verdict("CONFLICT", quote, best)
             [] ~differs /\ ~opposed -> Verdict(IF overlaps(1, 2) THEN "ALREADY_COVERED"
                                                ELSE "NEW_REQUIREMENT", quote, best)
=============================================================================
