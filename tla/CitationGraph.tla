--------------------------- MODULE CitationGraph ---------------------------
(***************************************************************************)
(* What the stored circulars say of one another, and which of them a search  *)
(* as of a date may return: binding references to circulars, the citation and *)
(* supersession rows of a rebuild, the metadata and point-in-time filters.   *)
(*                                                                          *)
(* A file stands for its text: Doc[f].paras is the sequence of its paragraphs, *)
(* each with the references, dates and supersession wording the extractors    *)
(* find in it. A stored circular is a row [file, id, by, whole].              *)
(***************************************************************************)
EXTENDS Naturals, Sequences, FiniteSets, SequencesExt, FiniteSetsExt

CONSTANTS
  Files,      \* PDF files
  Doc,        \* Doc[f]: number, bytes, date, department, paras, and what may go wrong
  Key,        \* Key[n]: the normalised form of reference n
  Dates,      \* issue dates, as naturals from 1
  NoFile      \* a reference bound to nothing

NoDate == 0
NoFilter == "none"

RemovesFromForce == {"supersedes", "rescinds"}

-----------------------------------------------------------------------------
(* Binding a reference.                                                     *)

\* list_circulars: newest first, undated last, then the highest id first.
ListedBefore(s, r) ==
  \/ Doc[s.file].date > Doc[r.file].date
  \/ Doc[s.file].date = Doc[r.file].date /\ s.id > r.id

\* The lookup table keeps the circular listed last under each key.
ByNumber(rows, k) ==
  LET same == {r \in rows : Key[Doc[r.file].number] = k}
  IN  IF same = {} THEN NoFile
      ELSE (CHOOSE r \in same : \A s \in same \ {r} : ListedBefore(s, r)).file

ByDate(rows, date) == {r.file : r \in {x \in rows : Doc[x.file].date = date}}

\* By number; else by the first date named in the paragraph that one circular carries.
Resolve(para, ref, rows) ==
  LET exact == ByNumber(rows, Key[ref])
      dated == SelectInSeq(para.dated,
                 LAMBDA date : date # NoDate /\ Cardinality(ByDate(rows, date)) = 1)
  IN  IF exact # NoFile THEN exact
      ELSE IF dated # 0 THEN CHOOSE f \in ByDate(rows, para.dated[dated]) : TRUE ELSE NoFile

\* Every reference of the listed circulars, a circular's own number left out.
Cited(listed, lookup) ==
  UNION {UNION {{[from |-> r.file, para |-> i, ref |-> j,
                  to |-> Resolve(Doc[r.file].paras[i], Doc[r.file].paras[i].refs[j], lookup)] :
                   j \in DOMAIN Doc[r.file].paras[i].refs} :
                 i \in DOMAIN Doc[r.file].paras} : r \in {x \in listed : x.whole}}

Citations(listed, lookup) == {c \in Cited(listed, lookup) : c.to # c.from}

\* A supersession takes effect when the superseding circular issues.
Stamped(c) == Doc[c.from].date

Supersessions(listed, lookup) ==
  {[cite |-> c, type |-> Doc[c.from].paras[c.para].cue, effective |-> Stamped(c)] :
     c \in {x \in Citations(listed, lookup) : Doc[x.from].paras[x.para].cue # "none"}}

-----------------------------------------------------------------------------
(* The filters of every search.                                             *)

\* Mutant: a circular superseded on the day itself is still in force.
Superseded_After(edges, asOf) ==
  {e.cite.to : e \in {x \in edges : /\ x.cite.to # NoFile
                                    /\ x.type \in RemovesFromForce
                                    /\ x.effective # NoDate /\ x.effective < asOf}}

Superseded(edges, asOf) ==
  {e.cite.to : e \in {x \in edges : /\ x.cite.to # NoFile
                                    /\ x.type \in RemovesFromForce
                                    /\ x.effective # NoDate /\ x.effective <= asOf}}

\* An undated circular passes no filter that names a date.
Filtered(files, edges, q) ==
  {f \in files :
     /\ q.department \in {NoFilter, Doc[f].department}
     /\ q.from # NoDate => Doc[f].date # NoDate /\ Doc[f].date >= q.from
     /\ q.to # NoDate => Doc[f].date # NoDate /\ Doc[f].date <= q.to
     /\ q.asOf # NoDate => /\ Doc[f].date # NoDate /\ Doc[f].date <= q.asOf
                           /\ f \notin Superseded(edges, q.asOf)}

\* What a point-in-time search left out of these hits, for the page's banner.
ExcludedByTemporalFilter(files, edges, asOf) ==
  IF asOf = NoDate THEN {} ELSE files \cap Superseded(edges, asOf)

InForce(f, edges, asOf) ==
  f \in Filtered({f}, edges, [department |-> NoFilter, from |-> NoDate, to |-> NoDate, asOf |-> asOf])
=============================================================================
