----------------------------- MODULE Algorithms -----------------------------
(***************************************************************************)
(* The pure algorithms on every input up to a size. A behaviour is one input, *)
(* chosen at the start; the properties say what the operators of Segments,    *)
(* Quotes, RuleJudge, Metrics and SmokeCheck make of it.                     *)
(***************************************************************************)
EXTENDS Segments, Quotes, RuleJudge, Metrics, SmokeCheck

CONSTANTS
  MaxChars,    \* bound: characters of a raw page text
  MaxLines,    \* bound: lines of a page, one less on the second page
  MaxSource,   \* bound: characters of a text that is quoted from
  MaxQuote,    \* bound: characters of a quote
  MaxWords,    \* bound: words of a paragraph that is read by rule
  Lengths,     \* paragraph lengths in characters
  MaxJudged,   \* bound: words of an obligation and of a clause that are judged by rule
  MaxParas,    \* bound: paragraphs of a text to chunk
  MaxRows,     \* bound: rows of a data set that is measured
  Target, Overlap, Threshold

\* Counts and budgets are natural numbers.
ASSUME AlgorithmsAssumption ==
  /\ Lengths \subseteq Nat
  /\ {MaxChars, MaxLines, MaxSource, MaxQuote, MaxWords, MaxJudged, MaxParas, MaxRows} \subseteq Nat
  /\ {Target, Overlap, Threshold} \subseteq Nat

VARIABLE input

\* Mark the lines of page n so that no two are the same.
Lines(kinds, n) == [i \in DOMAIN kinds |-> <<kinds[i], 10 * n + i>>]

LineKinds == {"text", "numbered", "heading", "row", "blank"}

Page(kinds, n, vision, tables) ==
  [lines |-> Lines(kinds, n), area |-> 2, detected |-> tables # 0, tables |-> tables,
   vision |-> vision, transcript |-> Lines(<<"text", "row">>, n + 5)]

PageInputs ==
  {[task |-> "pages", gateway |-> g, pages |-> <<Page(first, 1, v, 0), Page(second, 2, "error", t)>>] :
     g \in BOOLEAN, v \in {"error", "text"}, t \in {0, 1},
     first \in BoundedSeq(LineKinds, MaxLines), second \in BoundedSeq(LineKinds, MaxLines - 1)}

SizeInputs == {[task |-> "sizes", sizes |-> s] : s \in BoundedSeq(Lengths, MaxParas)}

PackInputs ==
  {[task |-> "pack", lines |-> Lines(kinds, 0)] :
     kinds \in BoundedSeq({"clause", "part", "title", "text", "ruler", "blank"}, MaxLines + 1)}

Letters == {"a", "b", " ", "n"}

QuoteInputs ==
  {[task |-> "quote", quote |-> q, source |-> s, says |-> r, impact |-> i] :
     q \in BoundedSeq(Letters, MaxQuote), s \in BoundedSeq(Letters, MaxSource),
     r \in {"invalid", "list"}, i \in {"CONFLICT", "NO_MATCH"}}

RawLetters == {"a", Space, "n", "r", "z", "l"}
CharInputs == {[task |-> "chars", raw |-> raw] : raw \in BoundedSeq(RawLetters, MaxChars)}

NumberLetters == {"A", "1", "/", "-", "."}
ReferenceInputs ==
  {[task |-> "reference", raw |-> raw] : raw \in BoundedSeq(NumberLetters, MaxChars)}

PlainWords == {"The", "broker", "shall", ".", ";", "(a)", "read-with"}
WordInputs == {[task |-> "words", text |-> t] : t \in BoundedSeq(PlainWords, MaxWords)}

ObligationWords == {"a", "b", "may", "shall-not", "d3"}
ClauseWords == {"a", "may", "shall-not", "d5", "."}
JudgeInputs ==
  {[task |-> "judge", obligation |-> o, clause |-> heading \o c] :
     o \in BoundedSeq(ObligationWords, MaxJudged), c \in BoundedSeq(ClauseWords, MaxJudged),
     heading \in {<<>>, <<Heading, "a", "n">>, <<Heading, "h3", "n">>}}

Spot(circular, start, actor) ==
  [circular |-> circular, start |-> start, end |-> start + 2, actor |-> actor]
Spots == {Spot(1, 0, <<"broker", "s">>), Spot(1, 1, <<"the", "stock", "broker">>),
          Spot(1, 1, <<"depositor", "ies">>), Spot(1, 2, <<"broker">>),
          Spot(2, 1, <<"broker">>), Spot(1, 0, <<"the">>)}

ExtractionInputs ==
  {[task |-> "extraction", predicted |-> p, labelled |-> l] :
     p \in BoundedSeq(Spots, MaxRows), l \in BoundedSeq(Spots, MaxRows - 1)}

LabelInputs ==
  {[task |-> "labels", labels |-> l] :
     l \in BoundedSeq([judge : {"yes", "no"}, human : {"yes", "no", "none"}], MaxRows + 2)}

StepInputs ==
  {[task |-> "steps", steps |-> s] :
     s \in BoundedSeq([node : {"judge", "memo"}, latency : {0, 1, 7}, tokens : {2}], MaxRows + 1)}

\* A run that has not completed has no usage yet.
RunRows == {[completed |-> TRUE, tokens |-> t] : t \in {0, 3, 8}}
             \cup {[completed |-> FALSE, tokens |-> 0]}
RunInputs == {[task |-> "runs", runs |-> r] : r \in BoundedSeq(RunRows, MaxRows)}

RankingInputs ==
  {[task |-> "ranking", queries |-> q] :
     q \in BoundedSeq([circulars : BoundedSeq({1, 2, 3}, 3), citing : {0, 3},
                       relevant : {{1}, {1, 2}}], MaxRows - 1)}

CaseInputs ==
  {[task |-> "cases", cases |-> c] :
     c \in BoundedSeq([shouldRefuse : BOOLEAN, refused : BOOLEAN], MaxRows + 2)}

PairInputs ==
  UNION {{[task |-> "pairs", pairs |-> p, draws |-> d] :
            d \in [1 .. 3 -> [1 .. Cardinality(Clusters(p)) -> Clusters(p)]]} :
         p \in BoundedSeq([cluster : {1, 2}, a : {0, 1}, b : {0, 3}], MaxRows) \ {<<>>}}

\* A world in which the smoke check passes, and each with one thing about it changed.
Sound ==
  [paid |-> TRUE, named |-> TRUE, target |-> TRUE, provider |-> "groq", key |-> TRUE,
   limits |-> TRUE, reachable |-> TRUE, revision |-> "head", outside |-> FALSE,
   obligations |-> {1, 2}, pack |-> TRUE, clauses |-> "embedded",
   post |-> "ok", get |-> "ok", list |-> "ok", status |-> "COMPLETED", schema |-> TRUE,
   same |-> TRUE, used |-> "groq", calls |-> <<3>>, total |-> 6, inTime |-> TRUE,
   steps |-> [i \in 1 .. 3 |-> [node |-> IF i < 3 THEN "judge_impact" ELSE "compose_memo",
                               tokens |-> 2, finished |-> TRUE]],
   planned |-> 2, findings |-> [own : {TRUE}, obligation : {1, 2}], failedTasks |-> 0,
   memo |-> TRUE, export |-> "not asked"]

\* Before the run is started, and after.
Unready(w) ==
  {[w EXCEPT !.paid = FALSE], [w EXCEPT !.named = FALSE], [w EXCEPT !.target = FALSE],
   [w EXCEPT !.provider = "deterministic"], [w EXCEPT !.key = FALSE], [w EXCEPT !.limits = FALSE],
   [w EXCEPT !.reachable = FALSE], [w EXCEPT !.revision = "older"], [w EXCEPT !.outside = TRUE],
   [w EXCEPT !.obligations = {}], [w EXCEPT !.obligations = 1 .. CallCap], [w EXCEPT !.pack = FALSE],
   [w EXCEPT !.clauses = "none"], [w EXCEPT !.clauses = "not embedded"]}
Unheard(w) ==
  UNION {{[w EXCEPT !.post = a], [w EXCEPT !.get = a]} : a \in {"raises", "error", "malformed"}}
Unended(w) == {[w EXCEPT !.status = s] : s \in {"RUNNING", "FAILED", "CAPPED"}}
Unsound(w) ==
  {[w EXCEPT !.list = a] : a \in {"raises", "error", "malformed"}} \cup
  {[w EXCEPT !.calls = c] : c \in {<<>>, <<0>>, <<CallCap + 1>>, <<3, 3>>}} \cup
  {[w EXCEPT !.total = t] : t \in {0, 5}} \cup
  {[w EXCEPT !.inTime = FALSE], [w EXCEPT !.planned = 3], [w EXCEPT !.failedTasks = 1],
   [w EXCEPT !.memo = FALSE], [w EXCEPT !.findings = [own : {TRUE}, obligation : {1}]],
   [w EXCEPT !.findings = [own : BOOLEAN, obligation : {1, 2}]],
   [w EXCEPT !.findings = [own : {TRUE}, obligation : 1 .. 3]]}
Changed(w) == Unready(w) \cup Unheard(w) \cup Unended(w) \cup Unsound(w)

\* Two faults each: the first before the run, in how it ended, or anywhere.
Smoked(fault, first, Second(_)) ==
  {[task |-> "smoke", fault |-> fault, world |-> w] : w \in UNION {Second(v) : v \in first}}

Finishing(steps, export) == [Sound EXCEPT !.steps = steps, !.total = Used(steps), !.export = export]
SmokeSteps ==
  [node : {"judge_impact", "compose_memo"}, tokens : {0, 2, TokenCap}, finished : BOOLEAN]
Exports == {"not asked", "ok", "raises"}
SoundInputs ==
  {[task |-> "smoke", fault |-> "none", world |-> Finishing(s, e)] :
     s \in BoundedSeq(SmokeSteps, MaxRows), e \in Exports}

SmokeInputs ==
  LET asked == [Sound EXCEPT !.export = "ok"]
  IN  Smoked("before", Unready(asked), Changed) \cup
      Smoked("ended", Unended(asked), Unsound) \cup
      Smoked("after", Unheard(asked) \cup Unsound(asked), Changed) \cup
      SoundInputs

Init ==
  \/ input \in PageInputs \/ input \in SizeInputs \/ input \in PackInputs
  \/ input \in QuoteInputs \/ input \in CharInputs \/ input \in ReferenceInputs
  \/ input \in WordInputs \/ input \in JudgeInputs \/ input \in ExtractionInputs
  \/ input \in LabelInputs \/ input \in StepInputs \/ input \in RunInputs
  \/ input \in RankingInputs \/ input \in CaseInputs \/ input \in PairInputs
  \/ input \in SmokeInputs

Next == UNCHANGED input

Spec == Init /\ [][Next]_input

-----------------------------------------------------------------------------
(* Properties.                                                              *)

Sum(numbers) == FoldLeft(+, 0, numbers)

\* Paragraphs of these sizes, one after the other.
Sized(sizes) ==
  [i \in DOMAIN sizes |->
     LET start == Sum(SubSeq(sizes, 1, i - 1)) + Len(Separator) * (i - 1)
     IN  [order |-> i, start |-> start, end |-> start + sizes[i], text |-> <<>>, heading |-> NL]]

\* The lines of a text without its line feeds, and those that are not blank.
Printed(text) == Kept(text, LAMBDA i : text[i] # NL)
Solid(lines) == Kept(lines, LAMBDA i : Kind(lines[i]) # "blank")

IsRow(line) == Kind(line) = "row"

\* Every paragraph and chunk is what its offsets cut out of the full text; together
\* the paragraphs hold each line that is not blank once and in order; and a table,
\* which a vision transcript emits, is in one piece with nothing else beside it.
PagesRoundTrip ==
  input.task = "pages" =>
    LET pages == BuildPages(input.pages, Threshold, input.gateway)
        paragraphs == SegmentPages(pages)
        full == FullText(paragraphs)
        chunks == [i \in DOMAIN ChunkParagraphs(paragraphs, 2, 1) |->
                     Emitted(ChunkParagraphs(paragraphs, 2, 1)[i])]
    IN  /\ \A p \in Range(paragraphs) \cup Range(chunks) : Slice(full, p.start, p.end) = p.text
        /\ Printed(full) = FlattenSeq([i \in DOMAIN pages |-> Solid(pages[i].lines)])
        /\ \A p \in Range(paragraphs) :
             (\E line \in Range(Printed(p.text)) : IsRow(line)) =>
               \A line \in Range(Printed(p.text)) : IsRow(line)
        /\ \A n \in DOMAIN pages : \A i \in 1 .. Len(pages[n].lines) - 1 :
             IsRow(pages[n].lines[i]) /\ IsRow(pages[n].lines[i + 1]) =>
               \E p \in Range(paragraphs) :
                 {pages[n].lines[i], pages[n].lines[i + 1]} \subseteq Range(p.text)
        /\ \A p \in Range(paragraphs) : p.method = "vision" =>
             NeedsVision(input.pages[p.page], Threshold)

\* Every clause is what its offsets cut out of the manual, ends before the next
\* one begins, and no clause heading is left out.
PackRoundTrip ==
  input.task = "pack" =>
    LET clauses == ParsePack(input.lines)
    IN  /\ \A i \in DOMAIN clauses :
             /\ Slice(Text(input.lines), clauses[i].start, clauses[i].end) = clauses[i].text
             /\ i > 1 => clauses[i - 1].end < clauses[i].start
        /\ \A line \in Range(input.lines) : Kind(line) = "clause" =>
             \E c \in Range(clauses) : Head(c.text) = line

\* Whatever is stored with offsets is the text they cut out of its source, and
\* nothing of the source is lost on the way.
SpansRoundTrip == PagesRoundTrip /\ PackRoundTrip

\* Chunks are runs of whole paragraphs that leave none out; each ends after the
\* one before it and shares with it no more than the overlap; and only the last
\* paragraph, or the overlap in front of it, may take one over the target.
ChunksCover ==
  input.task = "sizes" =>
    LET paragraphs == Sized(input.sizes)
        chunks == ChunkParagraphs(paragraphs, Target, Overlap)
        first(c) == Head(c).order
        last(c) == Last(c).order
    IN  /\ (paragraphs = <<>>) = (chunks = <<>>)
        /\ \A c \in Range(chunks) :
             /\ c = SubSeq(paragraphs, first(c), last(c))
             /\ Tokens(c) <= Target \/ Tokens(Front(c)) <= Overlap
        /\ chunks # <<>> => first(chunks[1]) = 1 /\ last(Last(chunks)) = Len(paragraphs)
        /\ \A i \in 2 .. Len(chunks) :
             LET shared == SubSeq(paragraphs, first(chunks[i]), last(chunks[i - 1]))
             IN  /\ first(chunks[i]) <= last(chunks[i - 1]) + 1
                 /\ last(chunks[i]) > last(chunks[i - 1])
                 /\ Tokens(shared) <= Overlap

SameWords(a, b) == Words(a) = Words(b)

\* A quote is located exactly when it stands in the source up to white space,
\* and then its span cuts out the same words; a judgement is grounded and an
\* obligation stored only with quotes so located, and none is invented.
ModelQuotesAreLocated ==
  input.task = "quote" =>
    LET quote == input.quote
        source == input.source
        stands == /\ Words(quote) # <<>>
                  /\ \E i, j \in DOMAIN source : SameWords(SubSeq(source, i, j), quote)
        span == ResolveSpan(quote, source, 0)
        cut == Slice(source, span.start, span.end)
        obligation == [text |-> source, start |-> 7]
        clause == [text |-> <<"a", "b">>, start |-> 3]
        judged == VerifyJudgement([circularSpan |-> quote, clauseSpan |-> quote, impact |-> input.impact],
                                  obligation, clause)
        reply(says) == [says |-> says, quotes |-> <<quote, <<"a">>>>, priced |-> says = "list"]
        outcome == ExtractFromParagraph(reply(input.says), reply("list"), source, 7)
    IN  /\ (span # NoSpan) = stands
        /\ stands => SameWords(cut, quote) /\ span.end <= Len(source)
        /\ judged.grounded => quote = <<>> \/ stands
        /\ judged.clause # NoSpan => input.impact # "NO_MATCH"
        /\ judged.grounded =>
             FindingProblems(judged, [i \in 1 .. 7 |-> "x"] \o source, obligation, clause) = {}
        /\ ~outcome.failed /\ outcome.repaired = (input.says = "invalid")
        /\ outcome.dropped + Len(outcome.candidates) = 2
        /\ \A c \in Range(outcome.candidates) :
             /\ c.start >= 7 /\ c.end <= 7 + Len(source)
             /\ SameWords(Slice(source, c.start - 7, c.end - 7), quote)
                  \/ Slice(source, c.start - 7, c.end - 7) = <<"a">>
        /\ SpansAppearInContext(<<cut>>, <<source>>) = stands

\* The characters of a text that show.
Inked(text) == Kept(text, LAMBDA i : text[i] \notin Blank)

\* The text that offsets index is stable: normalising it again changes nothing,
\* no line ends in a blank, nothing invisible is left and no printed character
\* is lost (normalise).
CharsAreStable ==
  input.task = "chars" =>
    LET text == Normalise(input.raw)
    IN  /\ Normalise(text) = text
        /\ \A i \in DOMAIN text : text[i] \notin {"z", "s", "l", "r"}
        /\ \A i \in 1 .. Len(text) - 1 : ~(text[i] = Space /\ text[i + 1] = "n")
        /\ Inked(text) = Inked(Presentation(input.raw))

\* A reference's key is its own key and does not depend on hyphens or on
\* punctuation around the reference (normalise_reference).
KeysAreStable ==
  input.task = "reference" /\ input.raw # <<>> /\ {Head(input.raw), Last(input.raw)} \subseteq {"A", "1"} =>
    LET key == NormaliseReference(input.raw)
        hyphened == [i \in DOMAIN input.raw |-> IF input.raw[i] = Slash THEN Dash ELSE input.raw[i]]
    IN  /\ NormaliseReference(key) = key
        /\ NormaliseReference(<<Stop>> \o hyphened \o <<Comma, Stop>>) = key

\* Obligations found by rule are disjoint pieces of their paragraph, each with
\* its modal verb in it (extract_by_rule).
ObligationsAreApart ==
  input.task = "words" =>
    \A o \in ObligationsByRule(input.text) :
      LET text == Slice(input.text, o.start, o.end)
      IN  /\ o.start < o.end /\ o.end <= Len(input.text)
          /\ o.modality \in Range(text) /\ Last(text) # Semicolon
          /\ \A other \in ObligationsByRule(input.text) :
               other = o \/ other.end <= o.start \/ o.end <= other.start

\* What is read out of a text is the same however it was laid out or written,
\* and what is found in it by rule does not overlap.
TextIsStable == CharsAreStable /\ KeysAreStable /\ ObligationsAreApart

\* The rule-based judge quotes only what stands in both texts, so its judgement is
\* never sent back; it quotes no clause exactly when it finds no match; and it
\* calls a clause modified over two figures of one unit, which its quotes show
\* unless a sentence is too long to quote.
RuleQuotesAreLocated ==
  input.task = "judge" /\ input.obligation # <<>> =>
    LET verdict == Judge(input.obligation, input.clause)
        in(text) == [text |-> text, start |-> 0]
        figure(text) == Range(text) \cap DOMAIN Figures
    IN  /\ VerifyJudgement(verdict, in(input.obligation), in(input.clause)).grounded
        /\ (verdict.impact = "NO_MATCH") = (verdict.clauseSpan = <<>>)
        /\ verdict.circularSpan # <<>>
        /\ verdict.impact = "MODIFIED" =>
             \/ MaxQuoted \in {Len(verdict.circularSpan), Len(verdict.clauseSpan)}
             \/ \E x \in figure(verdict.circularSpan), y \in figure(verdict.clauseSpan) :
                  Figures[x].unit = Figures[y].unit /\ Figures[x].value # Figures[y].value
        /\ verdict.impact = "CONFLICT" =>
             Prohibits(input.obligation) # Prohibits(verdict.clauseSpan)

\* Whoever quotes, model or rule: what is stored as located is in its source.
QuotesAreLocated == ModelQuotesAreLocated /\ RuleQuotesAreLocated

-----------------------------------------------------------------------------
(* The measures.                                                            *)

AtMost(a, b) == a[1] * b[2] <= b[1] * a[2]
Same(a, b) == AtMost(a, b) /\ AtMost(b, a)

\* The most labels that could be matched one to one.
BestMatching(predicted, labelled) ==
  LET pairs == {x \in (DOMAIN predicted) \X (DOMAIN labelled) : Matches(predicted[x[1]], labelled[x[2]])}
      oneToOne(m) == \A x, y \in m : x[1] = y[1] \/ x[2] = y[2] => x = y
  IN  Max({Cardinality(m) : m \in {n \in SUBSET pairs : oneToOne(n)}})

Swapped(labels) == [i \in DOMAIN labels |-> [judge |-> labels[i].human, human |-> labels[i].judge]]

\* Every prediction and every label is counted once, no more labels are matched
\* than can be and at least half as many, and F1 is what the counts say.
MatchingIsHonest ==
  input.task = "extraction" =>
    LET m == Extraction(input.predicted, input.labelled)
        best == BestMatching(input.predicted, input.labelled)
    IN  /\ m.truePositives + m.falsePositives = Len(input.predicted)
        /\ m.truePositives + m.falseNegatives = Len(input.labelled)
        /\ m.truePositives <= best /\ 2 * m.truePositives >= best
        /\ \A rate \in {Precision(m), Recall(m)} : AtMost(rate, <<1, 1>>)
        /\ Same(F1(m), OrZero(2 * m.truePositives, Len(input.predicted) + Len(input.labelled)))

\* Kappa is undefined exactly when neither rater varies, 1 exactly when they always
\* agree, nothing when one of them never varies, and the same from either side.
AgreementIsHonest ==
  input.task = "labels" =>
    LET c == Calibration(input.labels)
        pairs == Paired(input.labels)
        judge == {l.judge : l \in Range(pairs)}
        human == {l.human : l \in Range(pairs)}
    IN  /\ (c.kappa = NoNumber) = (Cardinality(judge \cup human) <= 1)
        /\ c.kappa # NoNumber =>
             /\ (c.raw[1] = c.raw[2]) = Same(c.kappa, <<1, 1>>)
             /\ AtMost(c.kappa, c.raw)
             /\ Cardinality(judge) = 1 \/ Cardinality(human) = 1 => Same(c.kappa, Zero)
             /\ Calibration(Swapped(pairs)).kappa = c.kappa
             /\ Interpretation(c.kappa) = "almost perfect" => AtMost(<<4, 5>>, c.raw)

\* Both percentile functions give the same value, which grows from the least to the
\* greatest; the rows of the nodes add up to the steps; unfinished runs do not
\* change the mean.
PerformanceIsHonest ==
  /\ input.task = "steps" =>
       LET values == [i \in DOMAIN input.steps |-> input.steps[i].latency]
           rows == NodeBreakdown(input.steps)
           column(f) == Total([i \in DOMAIN rows |-> rows[i][f]])
           asked == {0, 10, 19, 20}
       IN  /\ \A q \in asked : Percentile(values, q) = Quantile(values, q)
           /\ \A q, r \in asked : q <= r => Percentile(values, q) <= Percentile(values, r)
           /\ values # <<>> => /\ Percentile(values, 0) = 20 * Min(Range(values))
                               /\ Percentile(values, 20) = 20 * Max(Range(values))
           /\ column("total") = Total(values) /\ column("calls") = Len(values)
           /\ column("tokens") = 2 * Len(values)
           /\ \A i, j \in DOMAIN rows : i < j => rows[i].total >= rows[j].total
  /\ input.task = "runs" =>
       LET done == SelectSeq(input.runs, LAMBDA r : r.completed)
           used == [i \in DOMAIN done |-> done[i].tokens]
       IN  Same(RunStats(input.runs).tokens, OrZero(Total(used), Len(used)))

\* Recall grows with the cutoff and the mean reciprocal rank lies between its
\* ends; a query's own circular is never in its ranking; refusals cost at most
\* their number in answered recall; and the accuracy put together from two rates
\* is the share of right cases.
RankingIsHonest ==
  /\ input.task = "ranking" =>
       LET outcome(q) == QueryOutcome([i \in DOMAIN q.circulars |-> [circular |-> q.circulars[i],
                                                                    score |-> 4 - i]], q, 3, 2)
           outcomes == [i \in DOMAIN input.queries |-> outcome(input.queries[i])]
       IN  /\ \A i \in DOMAIN outcomes :
                /\ ~Contains(outcomes[i].retrieved, input.queries[i].citing)
                /\ IsInjective(outcomes[i].retrieved)
           /\ outcomes # <<>> =>
                /\ AtMost(RecallAt(outcomes, 1), ReciprocalRank(outcomes))
                /\ AtMost(ReciprocalRank(outcomes), RecallAt(outcomes, 2))
                /\ AtMost(AnsweredRecall(outcomes, 2), RecallAt(outcomes, 2))
                /\ RecallAt(outcomes, 2)[1] - AnsweredRecall(outcomes, 2)[1]
                     <= RefusalRate(outcomes)[1]
  /\ input.task = "cases" =>
       Same(Refusal(input.cases).accuracy,
            OrZero(Len(SelectSeq(input.cases, LAMBDA c : c.refused = c.shouldRefuse)),
                   Len(input.cases)))

\* An interval lies within the values, none is given for too few clusters, and a
\* comparison turned round is the same comparison with its sign changed.
ComparisonIsHonest ==
  input.task = "pairs" =>
    LET there == PairedDifference(input.pairs, input.draws, 19, 2)
        turned == [i \in DOMAIN input.pairs |->
                     [input.pairs[i] EXCEPT !.a = input.pairs[i].b, !.b = input.pairs[i].a]]
        back == PairedDifference(turned, input.draws, 19, 2)
        minus(x) == <<0 - x[1], x[2]>>
        differences == {x.a - x.b : x \in Range(input.pairs)}
    IN  /\ Same(back.estimate, minus(there.estimate))
        /\ (there.interval = <<>>) = (Cardinality(Clusters(input.pairs)) < 2)
        /\ there.interval # <<>> =>
             /\ Same(back.interval[1], minus(there.interval[2]))
             /\ Same(back.interval[2], minus(there.interval[1]))
             /\ AtMost(<<Min(differences), 1>>, there.interval[1])
             /\ AtMost(there.interval[1], there.interval[2])
             /\ AtMost(there.interval[2], <<Max(differences), 1>>)

\* The smoke check starts no run unless everything before it is in order, passes
\* nothing with a fault and exports nothing it has not passed. A run that failed or
\* was capped is called so whatever else is wrong with its record. A sound record
\* passes in whatever order its steps were numbered: a call that was under way when
\* the cap was crossed is no fault when the last call was made under the cap.
SmokeIsHonest ==
  input.task = "smoke" =>
    LET w == input.world
        outcome == Smoke(w)
        passed == outcome.name \in {"PASSED", "EXPORT_FAILED"}
        paid == SelectSeq(w.steps, LAMBDA s : s.tokens > 0)
    IN  /\ outcome.exported => outcome.name = "PASSED" /\ w.export = "ok"
        /\ (outcome.name = "EXPORT_FAILED") = (passed /\ w.export = "raises")
        /\ input.fault # "none" => ~passed
        /\ input.fault = "before" => ~outcome.started
        /\ input.fault = "ended" /\ w.status \in {"FAILED", "CAPPED"} => outcome.name = w.status
        /\ input.fault = "none" =>
             passed = /\ \A i \in DOMAIN w.steps : w.steps[i].finished
                      /\ \E i \in DOMAIN paid : paid[i].node = "judge_impact"
                      /\ Used(Front(paid)) < TokenCap

\* What the suites report cannot be raised by repeating a row, by a rater who
\* never varies or by leaving rows out, its numbers agree with each other, and the
\* smoke check passes sound runs and no others.
MetricsAreHonest ==
  /\ MatchingIsHonest /\ AgreementIsHonest /\ PerformanceIsHonest
  /\ RankingIsHonest /\ ComparisonIsHonest /\ SmokeIsHonest

-----------------------------------------------------------------------------
(* What the documentation says and the code does not do.                    *)

IsParagraph(text) ==
  Normalise(text) = text /\ \A i \in 1 .. Len(text) - 1 : text[i] # "n" \/ text[i + 1] # "n"

\* docs/architecture.md, "VERIFIED: both quotes were found verbatim; offsets point
\* at them." An obligation keeps the text the model wrote, whose white space may
\* differ from the circular's, and a quote is looked up in that text.
OffsetsPointAtTheQuote ==
  input.task = "quote" /\ IsParagraph(input.source) =>
    LET text == Stripped(input.quote)
        span == ResolveSpan(text, input.source, 0)
        judged(quote) == VerifyJudgement([circularSpan |-> quote, clauseSpan |-> <<>>, impact |-> input.impact],
                                         [text |-> text, start |-> span.start], [text |-> <<>>, start |-> 0])
    IN  span # NoSpan =>
          \A k \in DOMAIN text :
            LET quote == SubSeq(text, k, Len(text))
            IN  judged(quote).grounded =>
                  SameWords(Cut(input.source, judged(quote).circular, 0), quote)
=============================================================================
