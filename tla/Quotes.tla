------------------------------- MODULE Quotes -------------------------------
(***************************************************************************)
(* What is read out of paragraphs: quotes located again in their source,      *)
(* obligations by model or by rule, references and supersession wording, and  *)
(* the check that a judgement quotes what it says it does.                   *)
(*                                                                          *)
(* Source: ai/extraction/spans.py, obligations.py, rules.py, citations.py,   *)
(* ai/verification/grounding.py. Offsets count from 0 and are half open.     *)
(***************************************************************************)
EXTENDS Naturals, Sequences, SequencesExt, FiniteSetsExt

NoSpan == [start |-> 0, end |-> 0]

-----------------------------------------------------------------------------
(* Locating a quote. Characters: " " and "n" are white space.                *)

IsSpace(c) == c \in {" ", "n"}

Stripped(text) ==
  LET solid == {i \in DOMAIN text : ~IsSpace(text[i])}
  IN  IF solid = {} THEN <<>> ELSE SubSeq(text, Min(solid), Max(solid))

Occurs(part, text, i) ==
  i + Len(part) - 1 <= Len(text) /\ SubSeq(text, i, i + Len(part) - 1) = part

\* The word that starts at i goes on to the next white space.
WordFrom(text, i) ==
  SubSeq(text, i, Min({j \in i .. Len(text) : j = Len(text) \/ IsSpace(text[j + 1])}))

\* The words of a text, in order.
Words(text) ==
  FlattenSeq([i \in DOMAIN text |->
    IF ~IsSpace(text[i]) /\ (i = 1 \/ IsSpace(text[i - 1])) THEN <<WordFrom(text, i)>> ELSE <<>>])

\* Where the words end that start at i with white space of any length between
\* them, 0 if they do not.
WordsEnd(words, text, i) ==
  LET space(j) == {k \in j .. Len(text) : \A m \in j .. k : IsSpace(text[m])}
      next(j, word) ==
        LET k == IF j = i THEN i ELSE IF space(j) = {} THEN 0 ELSE Max(space(j)) + 1
        IN  IF j # 0 /\ k # 0 /\ Occurs(word, text, k) THEN k + Len(word) ELSE 0
  IN  FoldLeft(next, i, words)

\* Mutant: a quote broken differently over its lines is not found.
Flexible_Exact(words, text) == {}

\* Where a quote is found when only its white space differs.
Flexible(words, text) == {i \in DOMAIN text : WordsEnd(words, text, i) # 0}

\* The first exact occurrence, else the first with other white space.
ResolveSpan(quoted, source, base) ==
  LET quote == Stripped(quoted)
      exact == {i \in DOMAIN source : Occurs(quote, source, i)}
      loose == Flexible(Words(quote), source)
  IN  IF quote = <<>> \/ source = <<>> THEN NoSpan
      ELSE IF exact # {}
      THEN [start |-> base + Min(exact) - 1, end |-> base + Min(exact) - 1 + Len(quote)]
      ELSE IF loose # {}
      THEN [start |-> base + Min(loose) - 1,
            end |-> base + WordsEnd(Words(quote), source, Min(loose)) - 1]
      ELSE NoSpan

\* Both quotes of a judgement, in an obligation and a clause that know where they
\* start; NO_MATCH has no clause to quote.
VerifyJudgement(judged, obligation, clause) ==
  LET circular == ResolveSpan(judged.circularSpan, obligation.text, obligation.start)
      asks == judged.impact # "NO_MATCH" /\ judged.clauseSpan # <<>>
      located == IF asks THEN ResolveSpan(judged.clauseSpan, clause.text, clause.start) ELSE NoSpan
  IN  IF judged.circularSpan # <<>> /\ circular = NoSpan
      THEN [grounded |-> FALSE, circular |-> NoSpan, clause |-> NoSpan]
      ELSE IF asks /\ located = NoSpan
      THEN [grounded |-> FALSE, circular |-> circular, clause |-> NoSpan]
      ELSE [grounded |-> TRUE, circular |-> circular, clause |-> located]

\* What a span cuts out of a text that starts at an offset of its own.
Cut(text, span, start) ==
  LET from == Max({span.start - start, 0}) + 1
      to == Min({Max({span.end - start, 0}), Len(text)})
  IN  SubSeq(text, from, to)

\* The groundedness suite looks a stored finding up again: its spans are not
\* blank and the circular's is a quote of the obligation.
FindingProblems(finding, full, obligation, clause) ==
  LET quoted == Cut(full, finding.circular, 0)
      local == Cut(clause.text, finding.clause, clause.start)
  IN  {p \in {"circular", "context", "clause"} :
         \/ p = "circular" /\ finding.circular # NoSpan /\ Stripped(quoted) = <<>>
         \/ p = "context" /\ finding.circular # NoSpan
              /\ ResolveSpan(quoted, obligation.text, 0) = NoSpan
         \/ p = "clause" /\ finding.clause # NoSpan /\ Stripped(local) = <<>>}

\* The groundedness suite: exact texts, in the joined context.
SpansAppearInContext(spans, texts) ==
  LET joined == FlattenSeq([i \in DOMAIN texts |-> IF i = 1 THEN texts[i] ELSE <<"n">> \o texts[i]])
  IN  \A i \in DOMAIN spans : spans[i] # <<>> /\ \E k \in DOMAIN joined : Occurs(spans[i], joined, k)

-----------------------------------------------------------------------------
(* Obligations by model. A reply is "error", "refused", "invalid" or the     *)
(* sequence of quotes it lists; "priced" replies have a known cost.          *)

IsList(reply) == reply.says \notin {"error", "refused", "invalid"}

\* Quotes that are dropped.
Unlocated(spans) == {i \in DOMAIN spans : spans[i] = NoSpan}

\* One call, one repair if its reply breaks the schema. A refused repair is a
\* reply that does not parse. The cost is unknown once one call's is.
ExtractFromParagraph(first, second, source, base) ==
  LET repairs == first.says = "invalid"
      used == IF repairs THEN second ELSE first
      spans == [i \in DOMAIN used.quotes |-> ResolveSpan(used.quotes[i], source, base)]
      replies == {r \in IF repairs THEN {first, second} ELSE {first} : r.says # "error"}
  IN  [failed |-> ~IsList(used),
       repaired |-> repairs /\ IsList(used),
       priced |-> \A r \in replies : r.priced,
       dropped |-> IF IsList(used) THEN Cardinality(Unlocated(spans)) ELSE 0,
       candidates |-> IF ~IsList(used) THEN <<>>
                      ELSE FlattenSeq([i \in DOMAIN spans |->
                             IF i \in Unlocated(spans) THEN <<>> ELSE <<spans[i]>>])]

-----------------------------------------------------------------------------
(* Obligations by rule, on words: "The" starts like a sentence, "shall" is a *)
(* modal verb, "(a)" an enumerator, "read-with" an excluded phrase.          *)

Modal == {"shall", "may"}
Enumerators == {"(a)"}
Excluded == {"read-with"}
MaxActorWords == 3
MinActionWords == 2

Stop == "."
Semicolon == ";"

\* A sentence goes up to "." or ";" before a capital or a bracket.
SentenceStarts(text) ==
  {1} \cup {i \in 2 .. Len(text) : text[i - 1] \in {Stop, Semicolon} /\ text[i] \in {"The"} \cup Enumerators}

SentenceEnd(text, start) ==
  LET later == {i \in SentenceStarts(text) : i > start}
  IN  IF later = {} THEN Len(text) ELSE Min(later) - 1

\* One obligation for each sentence with a subject, a modal verb and an action.
ObligationsByRule(text) ==
  LET body(s) == IF text[s] \in Enumerators THEN s + 1 ELSE s
      last(s) == LET e == SentenceEnd(text, s)
                     solid == {i \in body(s) .. e : text[i] # Semicolon}
                 IN  IF solid = {} THEN 0 ELSE Max(solid)
      modals(s) == {i \in body(s) .. SentenceEnd(text, s) : text[i] \in Modal}
      action(s) == {i \in Min(modals(s)) + 1 .. last(s) : text[i] \notin {Stop, Semicolon}}
      matches(s) ==
        /\ modals(s) # {}
        /\ \A i \in body(s) .. SentenceEnd(text, s) : text[i] \notin Excluded
        /\ Min(modals(s)) - body(s) \in 1 .. MaxActorWords
        /\ Cardinality(action(s)) >= MinActionWords
  IN  {[start |-> body(s) - 1, end |-> last(s), modality |-> text[Min(modals(s))]] :
         s \in {x \in SentenceStarts(text) : text # <<>> /\ matches(x)}}

-----------------------------------------------------------------------------
(* References. "-" and "/" separate the segments of a number, "." and ","    *)
(* are punctuation that may stick to it.                                    *)

Trim(text, marks) ==
  LET solid == {i \in DOMAIN text : text[i] \notin marks}
  IN  IF solid = {} THEN <<>> ELSE SubSeq(text, Min(solid), Max(solid))

Comma == ","
Dash == "-"
Slash == "/"
Punctuation == {" ", Stop, Comma}

Unified(text) == [i \in DOMAIN text |-> IF text[i] = Dash THEN Slash ELSE text[i]]

\* One separator for several in a row.
Single(text) ==
  FlattenSeq([i \in DOMAIN text |->
    IF text[i] = Slash /\ i > 1 /\ text[i - 1] = Slash THEN <<>> ELSE <<text[i]>>])

NormaliseReference(raw) == Trim(Single(Unified(Trim(raw, Punctuation))), {Slash})
=============================================================================
