------------------------------ MODULE Segments ------------------------------
(***************************************************************************)
(* From the pages of a PDF to the paragraphs and chunks that are stored, and  *)
(* from a policy manual to its clauses. What matters of them is where each   *)
(* piece begins and ends in the text it was taken from: every later span      *)
(* counts on it. Offsets count from 0 and are half open, as in the code.     *)
(*                                                                          *)
(* A line is a pair of its kind and a mark that tells it from other lines.   *)
(* Source: ai/extraction/pdf.py, segment.py, chunking.py,                    *)
(* services/ingestion.py (build_pages), services/policy_pack.py.             *)
(***************************************************************************)
EXTENDS Naturals, Sequences, SequencesExt, FiniteSetsExt, Functions

\* What an offset pair cuts out of a text.
Slice(text, start, end) == SubSeq(text, start + 1, end)

-----------------------------------------------------------------------------
(* Characters: " " blank, "n" line feed, "r" carriage return, "l" a ligature, *)
(* "s" a no-break space, "z" a zero-width mark, anything else prints.        *)

Space == " "
Blank == {Space, "n", "r"}

\* Where(P) says which positions of the text stay.
Kept(text, Stays(_)) ==
  FlattenSeq([i \in DOMAIN text |-> IF Stays(i) THEN <<text[i]>> ELSE <<>>])

UnifyLineEnds(raw) ==
  FlattenSeq([i \in DOMAIN raw |->
    IF raw[i] # "r" THEN <<raw[i]>>
    ELSE IF i < Len(raw) /\ raw[i + 1] = "n" THEN <<>> ELSE <<"n">>])

Presentation(text) ==
  FlattenSeq([i \in DOMAIN text |->
    CASE text[i] = "l" -> <<"f", "i">> [] text[i] = "s" -> <<Space>>
      [] text[i] = "z" -> <<>> [] OTHER -> <<text[i]>>])

TrimLines(text) ==
  LET ends(i) == \E j \in i + 1 .. Len(text) : text[j] = "n" /\ \A k \in i .. j - 1 : text[k] = Space
  IN  Kept(text, LAMBDA i : text[i] # Space \/ ~ends(i))

CollapseBreaks(text) ==
  Kept(text, LAMBDA i : ~(i > 2 /\ text[i] = "n" /\ text[i - 1] = "n" /\ text[i - 2] = "n"))

Strip(text) ==
  LET solid == {i \in DOMAIN text : text[i] \notin Blank}
  IN  IF solid = {} THEN <<>> ELSE SubSeq(text, Min(solid), Max(solid))

\* Mutant: marks without a width are removed last.
Normalise_MarksLast(raw) ==
  Strip(Presentation(CollapseBreaks(TrimLines(UnifyLineEnds(raw)))))

Normalise(raw) == Strip(CollapseBreaks(TrimLines(Presentation(UnifyLineEnds(raw)))))

-----------------------------------------------------------------------------
(* Pages.                                                                   *)

CharsPerSqInch == 5

\* The text layer is thin, or tables take 40% of the page; a page whose tables
\* cannot be detected has none. Threshold is in hundredths.
NeedsVision(page, threshold) ==
  \/ Len(page.lines) * 100 < threshold * CharsPerSqInch * page.area
  \/ page.detected /\ page.tables * 10 >= 4 * page.area

\* A transcription that fails in any way leaves the page its text layer.
PageText(page, threshold, gateway) ==
  IF NeedsVision(page, threshold) /\ gateway /\ page.vision \notin {"error", "refused", "blank"}
  THEN [lines |-> page.transcript, method |-> "vision"]
  ELSE [lines |-> page.lines, method |-> "text"]

BuildPages(pages, threshold, gateway) ==
  [i \in DOMAIN pages |-> PageText(pages[i], threshold, gateway)]

-----------------------------------------------------------------------------
(* Paragraphs.                                                              *)

NL == <<"newline", 0>>
Separator == <<NL, NL>>
Kind(line) == line[1]

\* Mutant: a table begins a block and goes on with whatever follows it.
StartsBlock_NotAfterTable(line, table) ==
  Kind(line) \in {"blank", "numbered", "heading"} \/ (Kind(line) = "row" /\ ~table)

\* A blank line, a number or a heading, and either end of a table.
StartsBlock(line, table) ==
  Kind(line) \in {"blank", "numbered", "heading"} \/ (Kind(line) = "row") # table

Blocks(lines) ==
  LET flushed(st) == IF st.current = <<>> THEN st.blocks ELSE Append(st.blocks, st.current)
      step(st, line) ==
        LET fresh == StartsBlock(line, st.table)
        IN  [blocks |-> IF fresh THEN flushed(st) ELSE st.blocks,
             current |-> (IF fresh THEN <<>> ELSE st.current)
                           \o IF Kind(line) = "blank" THEN <<>> ELSE <<line>>,
             table |-> Kind(line) = "row"]
  IN  flushed(FoldLeft(step, [blocks |-> <<>>, current |-> <<>>, table |-> FALSE], lines))

\* The lines of a block with their line feeds.
Text(block) == [i \in 1 .. 2 * Len(block) - 1 |-> IF i % 2 = 1 THEN block[(i + 1) \div 2] ELSE NL]

After(paragraphs) == IF paragraphs = <<>> THEN 0 ELSE Last(paragraphs).end + Len(Separator)

SegmentPages(pages) ==
  LET add(paragraphs, blockOf) ==
        LET start == After(paragraphs)
            block == blockOf.block
        IN  Append(paragraphs,
              [text |-> Text(block), start |-> start, end |-> start + Len(Text(block)),
               page |-> blockOf.page, method |-> blockOf.method,
               number |-> Kind(Head(block)) = "numbered",
               heading |-> IF Kind(Head(block)) = "heading" /\ \A i \in DOMAIN block : Kind(block[i]) # "row"
                           THEN Head(block)
                           ELSE IF paragraphs = <<>> THEN NL ELSE Last(paragraphs).heading])
      ofPage(i) == LET blocks == Blocks(pages[i].lines)
                   IN  [j \in DOMAIN blocks |->
                          [block |-> blocks[j], page |-> i, method |-> pages[i].method]]
  IN  FoldLeft(add, <<>>, FlattenSeq([i \in DOMAIN pages |-> ofPage(i)]))

FullText(paragraphs) ==
  FoldLeft(LAMBDA text, p : (IF text = <<>> THEN <<>> ELSE text \o Separator) \o p.text,
           <<>>, paragraphs)

-----------------------------------------------------------------------------
(* Chunks of whole paragraphs.                                              *)

\* A quarter of the characters, halves to the even number, at least one.
EstimateTokens(length) ==
  LET quarter == length \div 4
      up == length % 4 = 3 \/ (length % 4 = 2 /\ quarter % 2 = 1)
  IN  Max({1, IF up THEN quarter + 1 ELSE quarter})

Cost(p) == EstimateTokens(p.end - p.start)
Tokens(group) == FoldLeft(LAMBDA sum, p : sum + Cost(p), 0, group)

\* Mutant: the last paragraphs until one no longer fits, that one included.
OverlapTail_OneMore(group, overlap) ==
  LET fits == {n \in 0 .. Len(group) : Tokens(SubSeq(group, Len(group) - n + 2, Len(group))) <= overlap}
  IN  SubSeq(group, Len(group) - Max(fits) + 1, Len(group))

\* The last whole paragraphs that fit the overlap.
OverlapTail(group, overlap) ==
  LET fits == {n \in 0 .. Len(group) : Tokens(SubSeq(group, Len(group) - n + 1, Len(group))) <= overlap}
  IN  SubSeq(group, Len(group) - Max(fits) + 1, Len(group))

\* A chunk is its paragraphs; its span and its heading are read off them.
ChunkParagraphs(paragraphs, target, overlap) ==
  LET step(st, p) ==
        LET full == st.group # <<>> /\ Tokens(st.group) + Cost(p) > target
            group == Append(IF full THEN OverlapTail(st.group, overlap) ELSE st.group, p)
            chunks == IF full THEN Append(st.chunks, st.group) ELSE st.chunks
        IN  IF Cost(p) >= target THEN [chunks |-> Append(chunks, group), group |-> <<>>]
            ELSE [chunks |-> chunks, group |-> group]
      last == FoldLeft(step, [chunks |-> <<>>, group |-> <<>>], paragraphs)
  IN  IF last.group = <<>> THEN last.chunks ELSE Append(last.chunks, last.group)

\* The row of a chunk.
Emitted(group) ==
  [text |-> FullText(group), start |-> Head(group).start, end |-> Last(group).end,
   heading |-> Head(group).heading]

-----------------------------------------------------------------------------
(* Clauses of a policy pack. A clause heading is "### A.1 ...", a part       *)
(* heading "## ...", "title" any other heading, "ruler" a horizontal rule.    *)

IsHeading(line) == Kind(line) \in {"clause", "part", "title"}

\* Trailing blank lines do not count.
LastSolid(lines, from, to) == Max({i \in from .. to : Kind(lines[i]) # "blank"})

\* From its heading to the next heading of any level, one ruler at the end left out.
ClauseEnd(lines, i) ==
  LET next == {j \in i + 1 .. Len(lines) : IsHeading(lines[j])}
      end == LastSolid(lines, i, IF next = {} THEN Len(lines) ELSE Min(next) - 1)
  IN  IF Kind(lines[end]) = "ruler" THEN LastSolid(lines, i, end - 1) ELSE end

ParsePack(lines) ==
  LET clauses == Kept([i \in DOMAIN lines |-> i], LAMBDA i : Kind(lines[i]) = "clause")
      parts(i) == {j \in 1 .. i - 1 : Kind(lines[j]) = "part"}
  IN  [n \in DOMAIN clauses |->
         LET i == clauses[n]
             end == ClauseEnd(lines, i)
         IN  [text |-> Text(SubSeq(lines, i, end)), start |-> 2 * (i - 1), end |-> 2 * end - 1,
              part |-> IF parts(i) = {} THEN NL ELSE lines[Max(parts(i))]]]
=============================================================================
