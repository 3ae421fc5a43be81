--------------------------- MODULE DatabaseProofs ---------------------------
(***************************************************************************)
(* Proofs about what is written to the database side by side: Corpus, for    *)
(* any number of processes, files, commands and crashes, and Decisions, for   *)
(* any number of findings, decisions, pages and failures. Each has an         *)
(* inductive invariant of its own, since no table is common to both.         *)
(***************************************************************************)
EXTENDS Corpus, Decisions, FiniteSetTheorems, WellFoundedInduction, TLAPS

-----------------------------------------------------------------------------
(* Numbers and sequences.                                                   *)

\* Every non-empty set of numbers has a least one.
LEMMA LeastExists ==
  ASSUME NEW S \in SUBSET Nat, S # {}
  PROVE  /\ Min(S) \in S /\ \A y \in S : Min(S) <= y
<1> DEFINE less == OpToRel(<, Nat)
<1>1. IsWellFoundedOn(less, Nat)
  BY NatLessThanWellFounded
<1>2. \A x, y \in Nat : x < y => <<x, y>> \in less
  BY DEF OpToRel
<1> HIDE DEF less
<1>3. PICK x \in S : \A y \in S : ~(<<y, x>> \in less)
  BY <1>1, WFMin, Zenon
<1>4. ASSUME NEW y \in S PROVE x <= y
  <2>1. x \in Nat /\ y \in Nat
    OBVIOUS
  <2>2. ~(y < x)
    BY <1>2, <1>3, <2>1
  <2>3. QED
    BY <2>1, <2>2
<1>5. QED
  BY <1>4 DEF Min

\* A sequence is its head and its tail.
LEMMA HeadAndTail ==
  ASSUME NEW S, NEW s \in Seq(S), s # <<>>
  PROVE  /\ Head(s) \in S /\ Tail(s) \in Seq(S)
         /\ Head(s) = s[1] /\ 1 \in DOMAIN s
         /\ Len(Tail(s)) = Len(s) - 1 /\ Len(s) \in Nat \ {0}
         /\ DOMAIN s = 1 .. Len(s) /\ DOMAIN Tail(s) = 1 .. Len(s) - 1
         /\ \A i \in DOMAIN Tail(s) : i + 1 \in DOMAIN s /\ Tail(s)[i] = s[i + 1]
         /\ \A x \in ToSet(s) : x = Head(s) \/ x \in ToSet(Tail(s))
         /\ IsInjective(s) => IsInjective(Tail(s)) /\ Head(s) \notin ToSet(Tail(s))
<1>1. /\ Head(s) \in S /\ Tail(s) \in Seq(S)
      /\ Head(s) = s[1] /\ 1 \in DOMAIN s
      /\ Len(Tail(s)) = Len(s) - 1 /\ Len(s) \in Nat \ {0}
      /\ DOMAIN s = 1 .. Len(s) /\ DOMAIN Tail(s) = 1 .. Len(s) - 1
  OBVIOUS
<1>2. \A i \in DOMAIN Tail(s) : i + 1 \in DOMAIN s /\ Tail(s)[i] = s[i + 1]
  OBVIOUS
<1>3. ASSUME NEW x \in ToSet(s) PROVE x = Head(s) \/ x \in ToSet(Tail(s))
  <2>1. PICK i \in DOMAIN s : x = s[i]
    BY DEF ToSet
  <2>2. CASE i = 1
    BY <1>1, <2>1, <2>2
  <2>3. CASE i # 1
    <3>1. i - 1 \in DOMAIN Tail(s) /\ Tail(s)[i - 1] = s[i]
      BY <1>1, <1>2, <2>3
    <3>2. QED
      BY <2>1, <3>1 DEF ToSet
  <2>4. QED
    BY <2>2, <2>3
<1>4. ASSUME IsInjective(s) PROVE IsInjective(Tail(s)) /\ Head(s) \notin ToSet(Tail(s))
  <2>1. \A i, j \in DOMAIN s : s[i] = s[j] => i = j
    BY <1>4 DEF IsInjective
  <2>2. ASSUME NEW i \in DOMAIN Tail(s), NEW j \in DOMAIN Tail(s), Tail(s)[i] = Tail(s)[j] PROVE i = j
    <3>1. i + 1 = j + 1
      BY <1>2, <2>1, <2>2
    <3>2. i \in Nat /\ j \in Nat
      BY <1>1
    <3>3. QED
      BY <3>1, <3>2
  <2>3. ASSUME NEW i \in DOMAIN Tail(s), Tail(s)[i] = Head(s) PROVE FALSE
    <3>1. i + 1 = 1
      BY <1>1, <1>2, <2>1, <2>3
    <3>2. i \in Nat \ {0}
      BY <1>1
    <3>3. QED
      BY <3>1, <3>2
  <2>4. QED
    BY <2>2, <2>3 DEF IsInjective, ToSet
<1>5. QED
  BY <1>1, <1>2, <1>3, <1>4

-----------------------------------------------------------------------------
(* The invariant.                                                           *)

Ingesting == {"look", "number", "insert", "save", "commit"}
Graphing == {"forget", "citations", "supersessions", "tabulate", "list", "replace"}

\* The step of the seed to which a label belongs; no label of its own is none.
Phase(label) ==
  CASE label \in Ingesting -> 1 [] label \in Graphing -> 2 [] label \in {"index", "packing"} -> 3
    [] label \in {"select", "embed"} -> 4 [] label \in {"count", "extract"} -> 5
    [] label = "done" -> 6 [] OTHER -> 0

Labels == Ingesting \cup Graphing \cup Idle \cup {"index", "packing", "select", "embed", "count", "extract"}
Modules == {SeedSteps[i] : i \in 1 .. 5}
Circular == [file : Files, id : Nat, by : Processes \X Nat, whole : BOOLEAN]
TxnParts == {"row", "goneC", "goneS", "newC", "newS"}

\* What every process holds, and what is stored.
CorpusTyped ==
  /\ circulars \subseteq Circular /\ IsFiniteSet(circulars)
  /\ nextId \in Nat
  /\ at \in [Processes -> Labels] /\ steps \in [Processes -> Seq(Modules)]
  /\ DOMAIN todo = Processes /\ DOMAIN seen = Processes /\ DOMAIN lookup = Processes
  /\ DOMAIN txn = Processes
  /\ \A p \in Processes : DOMAIN txn[p] = TxnParts /\ txn[p].row \subseteq Circular
  /\ report \in [Processes -> [Outcomes -> SUBSET Files]]
  /\ alone \in [Processes -> BOOLEAN]
  /\ starts \in [Processes -> Nat]

\* No id is given twice, whether its row is committed or not.
Given == circulars \cup UNION {txn[p].row : p \in Processes}
IdsAreUnique ==
  /\ \A r \in Given : r.id < nextId
  /\ \A r, s \in Given : r.id = s.id => r = s

\* A process works through what is left of the seed, or runs one module.
IsRest(s) == Len(s) <= 5 /\ \A i \in DOMAIN s : s[i] = SeedSteps[5 - Len(s) + i]
StepsOnTrack ==
  \A p \in Processes :
    /\ IsRest(steps[p]) \/ Len(steps[p]) = 1
    /\ at[p] \notin Idle => steps[p] # <<>> /\ Head(steps[p]) = SeedSteps[Phase(at[p])]

\* The transaction of a batch holds the row of the present document and nothing else.
InHand(p, whole) ==
  /\ todo[p] # <<>>
  /\ \E n \in Nat :
       txn[p].row = {[file |-> Head(todo[p]), id |-> n, by |-> <<p, starts[p]>>, whole |-> whole]}
RowsInHand ==
  \A p \in Processes :
    /\ at[p] \in {"number", "insert"} => todo[p] # <<>>
    /\ at[p] = "save" => InHand(p, FALSE)
    /\ at[p] = "commit" => InHand(p, TRUE)
    /\ at[p] \notin {"save", "commit"} => txn[p].row = {}

\* No document of a batch that is still to come has been reported.
BatchIsAhead ==
  \A p \in Processes :
    Phase(at[p]) = 1 =>
      /\ todo[p] \in Seq(Files) /\ IsInjective(todo[p])
      /\ \A i \in DOMAIN todo[p], o \in Outcomes : todo[p][i] \notin report[p][o]

\* The stored circulars of the same bytes.
Like(f) == {r \in circulars : Doc[r.file].bytes = Doc[f].bytes}

\* A stored circular of the number, alike only if another process stored it.
IsTaken(q, f) ==
  \E r \in circulars : Doc[r.file].number = Doc[f].number /\ (r \in Like(f) => r.by[1] # q)

\* The report tells where each document went, and only this command's rows are its own;
\* between its two lookups a process stores nothing that is like its document.
ReportOf(p) ==
  /\ \A r \in circulars : r.by[1] = p => r.by[2] <= starts[p]
  /\ report[p]["ingested"] = {r.file : r \in {s \in circulars : s.by = <<p, starts[p]>>}}
  /\ \A f \in report[p]["skipped"] : Like(f) # {}
  /\ \A f \in report[p]["conflicts"] : IsTaken(p, f)
  /\ \A o1, o2 \in Outcomes : o1 # o2 => report[p][o1] \cap report[p][o2] = {}
  /\ at[p] = "number" => \A r \in Like(Head(todo[p])) : r.by[1] # p
ReportStands ==
  /\ \A r \in circulars : r.whole
  /\ \A p \in Processes : ReportOf(p)

\* Among these citations stands every reference of f to another circular.
OwnReference(f, n, m) ==
  \/ Key[Doc[f].paras[n].refs[m]] = Key[Doc[f].number]
  \/ Contains(Doc[f].paras[n].dated, Doc[f].date)
IsLinked(f, table) ==
  \A n \in DOMAIN Doc[f].paras : \A m \in DOMAIN Doc[f].paras[n].refs :
    \/ OwnReference(f, n, m)
    \/ \E x \in table : x[3].from = f /\ x[3].para = n /\ x[3].ref = m

\* What a rebuild writes is read from stored circulars, and makes good what it deletes.
IsStamped(x) == x[3].cite.from \in Files /\ x[3].effective = Doc[x[3].cite.from].date
GraphOf(p) ==
  /\ lookup[p] \subseteq circulars
  /\ at[p] = "citations" => \A x \in seen[p] : x[3].from \in Stored
  /\ \A x \in txn[p].goneC : x[3].from \in Stored
  /\ \A x \in txn[p].newC : x[3].from \in Stored
  /\ \A x \in txn[p].newS : IsStamped(x)
  /\ at[p] = "replace" =>
       /\ \A x \in txn[p].goneC : IsLinked(x[3].from, txn[p].newC)
       /\ NoDuplicates(txn[p].newC) /\ NoDuplicates(txn[p].newS)
       /\ lookup[p] = circulars => {x[3] : x \in txn[p].newC} = Citations(circulars, circulars)
GraphFollowsCorpus ==
  /\ \A x \in citations : x[3].from \in Stored
  /\ \A x \in supersessions : IsStamped(x)
  /\ \A p \in Processes : GraphOf(p)

\* A rebuild that no other overlaps deletes everything.
AloneOf(p) ==
  Rebuilding(p) /\ alone[p] =>
    /\ \A q \in Processes \ {p} : ~Rebuilding(q)
    /\ at[p] = "citations" => seen[p] = citations
    /\ at[p] # "citations" => txn[p].goneC = citations
    /\ at[p] = "supersessions" => seen[p] = supersessions
    /\ at[p] \in {"tabulate", "list", "replace"} => txn[p].goneS = supersessions
AloneDeletesAll == \A p \in Processes : AloneOf(p)

\* How far a stored circular of the corpus is, while the seed goes on.
HasReached(p, file) ==
  /\ at[p] = "replace" => IsLinked(file, txn[p].newC)
  /\ Phase(at[p]) > 2 => IsLinked(file, citations)
  /\ at[p] = "embed" => file \in embedded \cup ToSet(todo[p])
  /\ Phase(at[p]) > 4 => file \in embedded
CorpusHasReached(p) == \A i \in DOMAIN Items[p] : \E r \in Like(Items[p][i]) : HasReached(p, r.file)
PackHasReached(p) ==
  /\ Phase(at[p]) > 3 => pack
  /\ Phase(at[p]) > 4 => Pack \in embedded
CorpusIsAhead(p) ==
  \A i \in DOMAIN Items[p] :
    Items[p][i] \in ToSet(todo[p]) \/ \E o \in Outcomes : Items[p][i] \in report[p][o]
SeedOf(p) ==
  Jobs[p] = {SeedSteps} /\ Phase(at[p]) # 0 =>
    /\ IsRest(steps[p])
    /\ Phase(at[p]) = 1 => CorpusIsAhead(p)
    /\ Phase(at[p]) > 1 => CorpusHasReached(p) /\ PackHasReached(p)
    /\ at[p] = "embed" => todo[p] \in Seq(Files)
SeedGoesOn == \A p \in Processes : SeedOf(p)

CInv ==
  /\ CorpusTyped /\ IdsAreUnique /\ StepsOnTrack /\ RowsInHand /\ BatchIsAhead
  /\ ReportStands /\ GraphFollowsCorpus /\ AloneDeletesAll /\ SeedGoesOn

-----------------------------------------------------------------------------
(* What a rebuild writes.                                                   *)

\* Circulars as rows of their own ids.
AreRows(rows) == rows \subseteq Circular /\ \A r, s \in rows : r.id = s.id => r = s

\* Every file has an issue date, or none.
LEMMA DatesAreNumbers == \A f \in Files : Doc[f].date \in Nat
<1> SUFFICES ASSUME NEW f \in Files PROVE Doc[f].date \in Nat
  OBVIOUS
<1>1. Doc[f].date \in Dates \cup {NoDate} /\ Dates \subseteq Nat \ {NoDate}
  BY CorpusAssumption DEF CorpusAssumption
<1>2. NoDate \in Nat
  BY DEF NoDate
<1>3. CASE Doc[f].date \in Dates
  BY <1>1, <1>3
<1>4. CASE Doc[f].date = NoDate
  BY <1>2, <1>4
<1>5. QED
  BY <1>1, <1>3, <1>4

\* The lookup table binds a key to a circular that carries it.
LEMMA BoundByNumber ==
  ASSUME NEW rows, AreRows(rows), NEW k, ByNumber(rows, k) # NoFile
  PROVE  \E r \in rows : ByNumber(rows, k) = r.file /\ Key[Doc[r.file].number] = k
<1> DEFINE same == {r \in rows : Key[Doc[r.file].number] = k}
           dates == {Doc[r.file].date : r \in same}
           oldest == {r \in same : Doc[r.file].date = Min(dates)}
           ids == {r.id : r \in oldest}
<1>1. same # {}
  BY DEF ByNumber
<1>2. ByNumber(rows, k) = (CHOOSE r \in same : \A s \in same \ {r} : ListedBefore(s, r)).file
  BY <1>1 DEF ByNumber
<1>3. \A r \in same : r \in rows /\ r.file \in Files /\ r.id \in Nat /\ Doc[r.file].date \in Nat
                      /\ Key[Doc[r.file].number] = k
  BY DatesAreNumbers DEF AreRows, Circular
<1>4. \A r, s \in same : r.id = s.id => r = s
  BY DEF AreRows
<1> HIDE DEF same
<1>5. Min(dates) \in dates /\ \A d \in dates : Min(dates) <= d
  <2>1. dates \in SUBSET Nat /\ dates # {}
    BY <1>1, <1>3
  <2> HIDE DEF dates
  <2>2. QED
    BY <2>1, LeastExists
<1>6. oldest # {}
  BY <1>5
<1>7. Min(ids) \in ids /\ \A n \in ids : Min(ids) <= n
  <2>1. ids \in SUBSET Nat /\ ids # {}
    BY <1>3, <1>6
  <2> HIDE DEF ids
  <2>2. QED
    BY <2>1, LeastExists
<1>8. PICK r \in oldest : r.id = Min(ids)
  BY <1>7
<1>9. ASSUME NEW s \in same \ {r} PROVE ListedBefore(s, r)
  <2>1. Doc[s.file].date \in dates /\ Doc[r.file].date = Min(dates) /\ r \in same
    BY <1>8
  <2>2. Doc[s.file].date >= Doc[r.file].date
    BY <1>3, <1>5, <2>1
  <2>3. CASE Doc[s.file].date = Doc[r.file].date
    <3>1. s.id \in ids
      BY <2>1, <2>3
    <3>2. s.id >= r.id /\ s.id # r.id
      BY <1>3, <1>4, <1>7, <1>8, <2>1, <3>1
    <3>3. QED
      BY <1>3, <2>1, <2>3, <3>2 DEF ListedBefore
  <2>4. CASE Doc[s.file].date # Doc[r.file].date
    BY <1>3, <2>1, <2>2, <2>4 DEF ListedBefore
  <2>5. QED
    BY <2>3, <2>4
<1>10. \E t \in same : \A s \in same \ {t} : ListedBefore(s, t)
  BY <1>8, <1>9
<1>11. QED
  BY <1>2, <1>3, <1>10

\* A reference of a circular bound to itself names its number or its date.
LEMMA BoundToItself ==
  ASSUME NEW rows, AreRows(rows), NEW f \in Files,
         NEW n \in DOMAIN Doc[f].paras, NEW m \in DOMAIN Doc[f].paras[n].refs,
         Resolve(Doc[f].paras[n], Doc[f].paras[n].refs[m], rows) = f
  PROVE  OwnReference(f, n, m)
<1> DEFINE para == Doc[f].paras[n]
           exact == ByNumber(rows, Key[para.refs[m]])
           Unique(date) == date # NoDate /\ Cardinality(ByDate(rows, date)) = 1
           positions == {i \in 1 .. Len(para.dated) : Unique(para.dated[i])}
           first == IF positions # {} THEN Min(positions) ELSE 0
<1>1. Resolve(para, para.refs[m], rows) =
        IF exact # NoFile THEN exact
        ELSE IF first # 0 THEN CHOOSE g \in ByDate(rows, para.dated[first]) : TRUE ELSE NoFile
  BY DEF Resolve, SelectInSeq
<1>2. f # NoFile
  BY CorpusAssumption DEF CorpusAssumption
<1>3. CASE exact # NoFile
  <2>1. \E r \in rows : exact = r.file /\ Key[Doc[r.file].number] = Key[para.refs[m]]
    BY <1>3, BoundByNumber
  <2>2. QED
    BY <1>1, <1>3, <2>1 DEF OwnReference
<1>4. CASE exact = NoFile
  <2>1. first # 0 /\ f = CHOOSE g \in ByDate(rows, para.dated[first]) : TRUE
    BY <1>1, <1>2, <1>4
  <2>2. first \in positions
    <3>1. positions \in SUBSET Nat
      OBVIOUS
    <3> HIDE DEF positions
    <3>2. positions # {} /\ first = Min(positions)
      BY <2>1
    <3>3. QED
      BY <3>1, <3>2, LeastExists
  <2>3. first \in 1 .. Len(para.dated) /\ Cardinality(ByDate(rows, para.dated[first])) = 1
    BY <2>2
  <2>4. ByDate(rows, para.dated[first]) # {}
    <3> DEFINE dated == ByDate(rows, para.dated[first])
    <3>1. Cardinality(dated) = 1
      BY <2>3
    <3> HIDE DEF dated
    <3>2. dated # {}
      BY <3>1, FS_EmptySet
    <3>3. QED
      BY <3>2 DEF dated
  <2>5. f \in ByDate(rows, para.dated[first])
    BY <2>1, <2>4
  <2>6. Doc[f].date = para.dated[first]
    BY <2>5 DEF ByDate
  <2>7. QED
    BY <2>3, <2>6 DEF OwnReference, Contains
<1>5. QED
  BY <1>3, <1>4

\* Rows tagged by one rebuild.
Tagged(p, k, S) == {<<p, k, c>> : c \in S}

\* The tags of a rebuild keep its rows apart and say nothing else of them.
LEMMA TaggedRows ==
  ASSUME NEW p, NEW k, NEW S
  PROVE  /\ \A x \in Tagged(p, k, S) : x[3] \in S
         /\ {x[3] : x \in Tagged(p, k, S)} = S
         /\ NoDuplicates(Tagged(p, k, S))
<1>1. \A c \in S : <<p, k, c>>[3] = c
  OBVIOUS
<1>2. \A x \in Tagged(p, k, S) : x[3] \in S /\ x = <<p, k, x[3]>>
  BY <1>1 DEF Tagged
<1>3. {x[3] : x \in Tagged(p, k, S)} = S
  BY <1>1 DEF Tagged
<1>4. ASSUME NEW x \in Tagged(p, k, S), NEW y \in Tagged(p, k, S), x[3] = y[3] PROVE x = y
  BY <1>2, <1>4
<1>5. QED
  BY <1>2, <1>3, <1>4 DEF NoDuplicates

\* A rebuild links every whole circular of its list.
LEMMA ListedIsLinked ==
  ASSUME NEW listed, \A r \in listed : r.whole, listed \subseteq Circular,
         NEW rows, AreRows(rows), NEW p, NEW k, NEW r \in listed
  PROVE  IsLinked(r.file, Tagged(p, k, Citations(listed, rows)))
<1> DEFINE table == Tagged(p, k, Citations(listed, rows))
           f == r.file
<1> SUFFICES ASSUME NEW n \in DOMAIN Doc[f].paras, NEW m \in DOMAIN Doc[f].paras[n].refs,
                    ~ OwnReference(f, n, m)
             PROVE  \E x \in table : x[3].from = f /\ x[3].para = n /\ x[3].ref = m
  BY DEF IsLinked
<1> DEFINE c == [from |-> f, para |-> n, ref |-> m,
                 to |-> Resolve(Doc[f].paras[n], Doc[f].paras[n].refs[m], rows)]
<1>1. f \in Files
  BY DEF Circular
<1>2. c.to # f
  <2>1. c.to = Resolve(Doc[f].paras[n], Doc[f].paras[n].refs[m], rows)
    OBVIOUS
  <2>2. QED
    BY <1>1, <2>1, BoundToItself
<1>3. c \in Cited(listed, rows)
  <2>1. r \in {x \in listed : x.whole}
    OBVIOUS
  <2>2. c \in {[from |-> r.file, para |-> n, ref |-> j,
                to |-> Resolve(Doc[r.file].paras[n], Doc[r.file].paras[n].refs[j], rows)] :
                 j \in DOMAIN Doc[r.file].paras[n].refs}
    OBVIOUS
  <2>3. QED
    BY <2>1, <2>2 DEF Cited
<1>4. c \in Citations(listed, rows)
  BY <1>2, <1>3 DEF Citations
<1>5. <<p, k, c>> \in table
  BY <1>4 DEF Tagged
<1>6. <<p, k, c>>[3].from = f /\ <<p, k, c>>[3].para = n /\ <<p, k, c>>[3].ref = m
  OBVIOUS
<1>7. QED
  BY <1>5, <1>6

\* Every citation comes from a listed circular, and a supersession from a citation.
LEMMA EdgesOfListed ==
  ASSUME NEW listed, NEW rows
  PROVE  /\ \A c \in Citations(listed, rows) : \E r \in listed : c.from = r.file
         /\ \A s \in Supersessions(listed, rows) :
              /\ \E r \in listed : s.cite.from = r.file
              /\ s.effective = Doc[s.cite.from].date
<1>1. ASSUME NEW c \in Citations(listed, rows) PROVE \E r \in listed : c.from = r.file
  BY <1>1 DEF Citations, Cited
<1>2. ASSUME NEW s \in Supersessions(listed, rows)
      PROVE  /\ \E r \in listed : s.cite.from = r.file
             /\ s.effective = Doc[s.cite.from].date
  <2>1. PICK c \in Citations(listed, rows) :
          s = [cite |-> c, type |-> Doc[c.from].paras[c.para].cue, effective |-> Stamped(c)]
    BY <1>2 DEF Supersessions
  <2>2. QED
    BY <1>1, <2>1 DEF Stamped
<1>3. QED
  BY <1>1, <1>2

\* The rows in the order of their ids are all of them.
LEMMA AllById ==
  ASSUME NEW rows, AreRows(rows), IsFiniteSet(rows)
  PROVE  /\ DOMAIN ById(rows) = 1 .. Cardinality(rows) /\ Cardinality(rows) \in Nat
         /\ \A r \in rows : \E i \in DOMAIN ById(rows) : ById(rows)[i] = r
         /\ \A i \in DOMAIN ById(rows) : ById(rows)[i] \in rows
<1> DEFINE UpTo(r) == {s \in rows : s.id <= r.id}
<1>1. Cardinality(rows) \in Nat
  BY FS_CardinalityType
<1>2. \A r \in rows : r.id \in Nat
  BY DEF AreRows, Circular
<1>3. \A r \in rows : /\ IsFiniteSet(UpTo(r)) /\ Cardinality(UpTo(r)) \in 1 .. Cardinality(rows)
                      /\ r \in UpTo(r)
  <2> SUFFICES ASSUME NEW r \in rows
               PROVE  /\ IsFiniteSet(UpTo(r)) /\ Cardinality(UpTo(r)) \in 1 .. Cardinality(rows)
                      /\ r \in UpTo(r)
    OBVIOUS
  <2>1. UpTo(r) \subseteq rows /\ r \in UpTo(r)
    BY <1>2
  <2> HIDE DEF UpTo
  <2>2. IsFiniteSet(UpTo(r)) /\ Cardinality(UpTo(r)) <= Cardinality(rows)
    BY <2>1, FS_Subset
  <2>3. Cardinality(UpTo(r)) \in Nat /\ Cardinality(UpTo(r)) # 0
    BY <2>1, <2>2, FS_CardinalityType, FS_EmptySet
  <2>4. QED
    BY <1>1, <2>1, <2>2, <2>3
<1>4. ASSUME NEW r \in rows, NEW s \in rows, Cardinality(UpTo(r)) = Cardinality(UpTo(s)), r.id < s.id
      PROVE  FALSE
  <2>1. UpTo(r) \subseteq UpTo(s) /\ s \notin UpTo(r) /\ s \in UpTo(s)
    BY <1>2, <1>4
  <2>2. IsFiniteSet(UpTo(s))
    BY <1>3
  <2> HIDE DEF UpTo
  <2>3. UpTo(r) = UpTo(s)
    BY <1>4, <2>1, <2>2, FS_Subset
  <2>4. QED
    BY <2>1, <2>3
<1>5. ASSUME NEW r \in rows PROVE \E i \in DOMAIN ById(rows) : ById(rows)[i] = r
  <2> DEFINE i == Cardinality(UpTo(r))
             chosen == CHOOSE s \in rows : Cardinality(UpTo(s)) = i
  <2>1. chosen \in rows /\ Cardinality(UpTo(chosen)) = i
    OBVIOUS
  <2>2. i \in 1 .. Cardinality(rows) /\ ById(rows)[i] = chosen /\ DOMAIN ById(rows) = 1 .. Cardinality(rows)
    BY <1>3 DEF ById
  <2> HIDE DEF chosen, UpTo
  <2>3. ~(chosen.id < r.id) /\ ~(r.id < chosen.id)
    BY <1>4, <2>1
  <2>4. chosen = r
    BY <1>2, <2>1, <2>3 DEF AreRows
  <2>5. QED
    BY <2>2, <2>4
<1>6. ASSUME NEW i \in DOMAIN ById(rows) PROVE ById(rows)[i] \in rows
  <2> DEFINE n == Cardinality(rows)
             place == [r \in rows |-> Cardinality(UpTo(r))]
  <2>1. ById(rows)[i] = (CHOOSE r \in rows : Cardinality(UpTo(r)) = i) /\ i \in 1 .. n
    BY DEF ById
  <2> HIDE DEF UpTo
  <2>2. \A r, s \in rows : place[r] = place[s] => r = s
    <3> SUFFICES ASSUME NEW r \in rows, NEW s \in rows, place[r] = place[s] PROVE r = s
      OBVIOUS
    <3>1. ~(r.id < s.id) /\ ~(s.id < r.id)
      BY <1>4
    <3>2. QED
      BY <1>2, <3>1 DEF AreRows
  <2>3. place \in [rows -> 1 .. n]
    BY <1>3
  <2> HIDE DEF place
  <2>4. place \in Injection(rows, 1 .. n)
    BY <2>2, <2>3 DEF Injection, IsInjective
  <2>5. IsFiniteSet(1 .. n) /\ Cardinality(1 .. n) = n
    BY <1>1, FS_Interval
  <2>6. place \in Surjection(rows, 1 .. n)
    BY <2>4, <2>5, FS_Injection
  <2>7. \E r \in rows : place[r] = i
    BY <2>1, <2>6 DEF Surjection
  <2>8. \E r \in rows : Cardinality(UpTo(r)) = i
    BY <2>7 DEF place
  <2>9. QED
    BY <2>1, <2>8
<1>7. QED
  BY <1>1, <1>5, <1>6 DEF ById

-----------------------------------------------------------------------------
(* The steps of one process.                                                *)

Moves(p) ==
  \/ Start(p) \/ Crash(p)
  \/ Look(p) \/ LookNumber(p) \/ Insert(p) \/ Save(p) \/ CommitDocument(p) \/ EndBatch(p)
  \/ DeleteAll(p) \/ CitationsDeleted(p) \/ SupersessionsDeleted(p)
  \/ Tabulate(p) \/ WriteEdges(p) \/ ReplaceGraph(p)
  \/ LookPack(p) \/ StorePack(p) \/ SelectRows(p) \/ EmbedBatch(p) \/ EndEmbed(p)
  \/ CountObligations(p) \/ ExtractCircular(p) \/ EndExtract(p)

\* The seed runs five different modules.
LEMMA FiveModules ==
  /\ DOMAIN SeedSteps = 1 .. 5 /\ SeedSteps \in Seq(Modules)
  /\ SeedSteps[1] = "ingest" /\ SeedSteps[2] = "build_graph" /\ SeedSteps[3] = "policy_pack"
  /\ SeedSteps[4] = "embed" /\ SeedSteps[5] = "extract"
  /\ Modules = {"ingest", "build_graph", "policy_pack", "embed", "extract"}
<1>1. /\ DOMAIN SeedSteps = 1 .. 5
      /\ SeedSteps[1] = "ingest" /\ SeedSteps[2] = "build_graph" /\ SeedSteps[3] = "policy_pack"
      /\ SeedSteps[4] = "embed" /\ SeedSteps[5] = "extract"
  BY DEF SeedSteps
<1>2. Modules = {"ingest", "build_graph", "policy_pack", "embed", "extract"}
  BY <1>1 DEF Modules
<1>3. SeedSteps \in Seq(Modules)
  BY <1>2 DEF SeedSteps
<1>4. QED
  BY <1>1, <1>2, <1>3

\* The step of the seed to which each label belongs.
LEMMA Phases ==
  /\ \A l \in Ingesting : Phase(l) = 1
  /\ \A l \in Graphing : Phase(l) = 2
  /\ Phase("index") = 3 /\ Phase("packing") = 3 /\ Phase("select") = 4 /\ Phase("embed") = 4
  /\ Phase("count") = 5 /\ Phase("extract") = 5 /\ Phase("done") = 6
  /\ Phase("idle") = 0 /\ Phase("stopped") = 0
BY DEF Phase, Ingesting, Graphing

\* Where each module begins.
LEMMA Entries ==
  /\ Entry("ingest") = "look" /\ Entry("build_graph") = "forget" /\ Entry("policy_pack") = "index"
  /\ Entry("embed") = "select" /\ Entry("extract") = "count"
BY DEF Entry

\* A process that begins a sequence of modules.
LEMMA Beginning ==
  ASSUME CorpusTyped, NEW p \in Processes, NEW s \in Seq(Modules), Begin(p, s)
  PROVE  /\ at' \in [Processes -> Labels] /\ steps' \in [Processes -> Seq(Modules)]
         /\ DOMAIN todo' = Processes
         /\ steps'[p] = s
         /\ s = <<>> => at'[p] = "done"
         /\ s # <<>> => at'[p] = Entry(Head(s)) /\ Head(s) \in Modules
         /\ s # <<>> /\ Head(s) = "ingest" => todo'[p] = Items[p]
         /\ s = <<>> \/ Head(s) # "ingest" => todo'[p] = <<>>
         /\ \A q \in Processes \ {p} : at'[q] = at[q] /\ steps'[q] = steps[q] /\ todo'[q] = todo[q]
<1>1. s # <<>> => Head(s) \in Modules
  OBVIOUS
<1>2. (IF s = <<>> THEN "done" ELSE Entry(Head(s))) \in Labels
  BY <1>1, FiveModules, Entries DEF Labels, Idle, Ingesting, Graphing
<1>3. QED
  BY <1>1, <1>2 DEF Begin, CorpusTyped

\* What is left of a command once its present module has ended.
LEMMA NextTyped ==
  ASSUME CorpusTyped, StepsOnTrack, NEW p \in Processes, at[p] \notin Idle
  PROVE  steps[p] \in Seq(Modules) /\ steps[p] # <<>> /\ Tail(steps[p]) \in Seq(Modules)
BY DEF CorpusTyped, StepsOnTrack

\* A step of one process leaves the local state of every other alone.
LEMMA OthersStand ==
  ASSUME CorpusTyped, StepsOnTrack, NEW p \in Processes, Moves(p), NEW q \in Processes \ {p}
  PROVE  /\ at'[q] = at[q] /\ steps'[q] = steps[q] /\ todo'[q] = todo[q] /\ txn'[q] = txn[q]
         /\ seen'[q] = seen[q] /\ lookup'[q] = lookup[q] /\ report'[q] = report[q]
         /\ starts'[q] = starts[q]
<1> USE DEF Begin, NextModule, Stop, RolledBack, Forget, Goto, Reported, Fails, tables, CorpusTyped
<1>1. CASE Start(p) \/ Crash(p)
  BY <1>1 DEF Start, Crash
<1>2. CASE Look(p) \/ LookNumber(p)
  BY <1>2 DEF Look, LookNumber
<1>3. CASE Insert(p)
  BY <1>3 DEF Insert
<1>4. CASE Save(p)
  BY <1>4 DEF Save
<1>5. CASE CommitDocument(p) \/ EndBatch(p)
  BY <1>5 DEF CommitDocument, EndBatch
<1>6. CASE DeleteAll(p) \/ CitationsDeleted(p) \/ SupersessionsDeleted(p)
  BY <1>6 DEF DeleteAll, CitationsDeleted, SupersessionsDeleted
<1>7. CASE Tabulate(p) \/ WriteEdges(p) \/ ReplaceGraph(p)
  BY <1>7 DEF Tabulate, WriteEdges, ReplaceGraph
<1>8. CASE LookPack(p) \/ StorePack(p) \/ EmbedBatch(p) \/ EndEmbed(p)
  BY <1>8 DEF LookPack, StorePack, EmbedBatch, EndEmbed
<1>9. CASE SelectRows(p) \/ CountObligations(p)
  BY <1>9 DEF SelectRows, CountObligations
<1>10. CASE ExtractCircular(p) \/ EndExtract(p)
  BY <1>10 DEF ExtractCircular, EndExtract
<1>11. QED
  BY <1>1, <1>2, <1>3, <1>4, <1>5, <1>6, <1>7, <1>8, <1>9, <1>10 DEF Moves

\* The head of a batch.
LEMMA HeadOfBatch ==
  ASSUME CorpusTyped, StepsOnTrack, RowsInHand, BatchIsAhead, NEW p \in Processes, at[p] \in Ingesting,
         at[p] # "look" \/ todo[p] # <<>>
  PROVE  /\ todo[p] \in Seq(Files) /\ todo[p] # <<>>
         /\ Head(todo[p]) \in Files /\ Head(todo[p]) \in ToSet(todo[p])
         /\ Tail(todo[p]) \in Seq(Files)
         /\ \A o \in Outcomes : Head(todo[p]) \notin report[p][o]
<1>1. todo[p] # <<>>
  BY DEF RowsInHand, InHand, Ingesting
<1>2. /\ todo[p] \in Seq(Files)
      /\ \A i \in DOMAIN todo[p], o \in Outcomes : todo[p][i] \notin report[p][o]
  BY Phases DEF BatchIsAhead
<1>3. /\ Head(todo[p]) \in Files /\ Head(todo[p]) = todo[p][1] /\ 1 \in DOMAIN todo[p]
      /\ Tail(todo[p]) \in Seq(Files)
  BY <1>1, <1>2
<1>4. QED
  BY <1>1, <1>2, <1>3 DEF ToSet

\* A new transaction has written nothing.
LEMMA EmptyTxnTyped ==
  DOMAIN EmptyTxn = TxnParts /\ EmptyTxn.row = {} /\ EmptyTxn.goneC = {} /\ EmptyTxn.goneS = {}
  /\ EmptyTxn.newC = {} /\ EmptyTxn.newS = {}
BY DEF EmptyTxn, TxnParts

\* Every step keeps the types.
LEMMA TypedKept ==
  ASSUME CorpusTyped, StepsOnTrack, RowsInHand, BatchIsAhead, NEW p \in Processes, Moves(p)
  PROVE  CorpusTyped'
<1> USE DEF CorpusTyped, tables
<1>0. "look" \in Labels /\ "number" \in Labels /\ "insert" \in Labels /\ "save" \in Labels /\ "commit" \in Labels
      /\ "citations" \in Labels /\ "supersessions" \in Labels /\ "tabulate" \in Labels
      /\ "list" \in Labels /\ "replace" \in Labels /\ "packing" \in Labels /\ "embed" \in Labels /\ "extract" \in Labels
      /\ "stopped" \in Labels /\ <<>> \in Seq(Modules)
  BY DEF Labels, Ingesting, Graphing, Idle
<1>1. CASE Start(p)
  <2>1. PICK s \in Jobs[p] : Begin(p, s)
    BY <1>1 DEF Start
  <2>2. s \in Seq(Modules)
    <3>1. s = SeedSteps \/ \E i \in DOMAIN SeedSteps : s = <<SeedSteps[i]>>
      BY CorpusAssumption DEF CorpusAssumption
    <3>2. \A i \in DOMAIN SeedSteps : SeedSteps[i] \in Modules
      BY FiveModules
    <3>3. CASE s = SeedSteps
      BY <3>3, FiveModules
    <3>4. ASSUME NEW i \in DOMAIN SeedSteps, s = <<SeedSteps[i]>> PROVE s \in Seq(Modules)
      BY <3>2, <3>4
    <3>5. QED
      BY <3>1, <3>3, <3>4
  <2>3. EmptyReport \in [Outcomes -> SUBSET Files]
    BY DEF EmptyReport
  <2>4. QED
    BY <1>1, <2>1, <2>2, <2>3, Beginning DEF Start
<1>2. CASE Crash(p)
  BY <1>0, <1>2, EmptyTxnTyped DEF Crash, Stop, RolledBack, Forget
<1>3. ASSUME NEW o \in Outcomes, Reported(p, o), at[p] \in Ingesting, at[p] # "look" \/ todo[p] # <<>>
      PROVE  report' \in [Processes -> [Outcomes -> SUBSET Files]] /\ DOMAIN todo' = Processes
  <2>1. Head(todo[p]) \in Files
    BY <1>3, HeadOfBatch
  <2>2. report[p][o] \cup {Head(todo[p])} \in SUBSET Files
    BY <2>1
  <2>3. [report[p] EXCEPT ![o] = report[p][o] \cup {Head(todo[p])}] \in [Outcomes -> SUBSET Files]
    BY <2>2
  <2>4. report' = [report EXCEPT ![p] = [report[p] EXCEPT ![o] = report[p][o] \cup {Head(todo[p])}]]
    BY <1>3 DEF Reported
  <2>5. QED
    BY <1>3, <2>3, <2>4 DEF Reported
<1>4. "ingested" \in Outcomes /\ "skipped" \in Outcomes /\ "conflicts" \in Outcomes /\ "failed" \in Outcomes
  BY DEF Outcomes
<1>5. CASE Look(p) \/ LookNumber(p)
  <2>1. /\ (at[p] = "look" /\ todo[p] # <<>>) \/ at[p] = "number"
        /\ UNCHANGED <<tables, nextId, seen, lookup, alone, starts, crashes>>
    BY <1>5 DEF Look, LookNumber
  <2>2. CASE Reported(p, "skipped") /\ UNCHANGED <<at, steps, txn>>
    BY <1>0, <1>3, <1>4, <2>1, <2>2 DEF Ingesting
  <2>3. ASSUME NEW o \in {"conflicts", "failed"}, Fails(p, o) PROVE CorpusTyped'
    <3>1. o \in Outcomes /\ Reported(p, o) /\ at[p] \in Ingesting /\ (at[p] # "look" \/ todo[p] # <<>>)
      BY <1>4, <2>1, <2>3 DEF Fails, Ingesting
    <3>2. report' \in [Processes -> [Outcomes -> SUBSET Files]] /\ DOMAIN todo' = Processes
      BY <1>3, <3>1
    <3>3. QED
      BY <1>0, <2>1, <2>3, <3>2, EmptyTxnTyped DEF Fails, RolledBack, Goto
  <2>4. CASE (Goto(p, "number") \/ Goto(p, "insert")) /\ UNCHANGED <<report, todo, txn>>
    BY <1>0, <2>1, <2>4 DEF Goto
  <2>5. QED
    BY <1>5, <2>2, <2>3, <2>4 DEF Look, LookNumber
<1>6. CASE Insert(p)
  <2>1. at[p] = "insert" /\ UNCHANGED <<tables, seen, lookup, alone, starts, crashes>>
    BY <1>6 DEF Insert
  <2>2. CASE Fails(p, "failed") /\ UNCHANGED nextId
    BY <1>0, <1>3, <1>4, <2>1, <2>2, EmptyTxnTyped DEF Fails, RolledBack, Goto, Ingesting
  <2>3. CASE /\ txn' = [txn EXCEPT ![p].row = @ \cup {[file |-> Head(todo[p]), id |-> nextId,
                                              by |-> <<p, starts[p]>>, whole |-> FALSE]}]
             /\ nextId' = nextId + 1
             /\ Goto(p, "save") /\ UNCHANGED <<report, todo>>
    <3>1. Head(todo[p]) \in Files
      BY <2>1, HeadOfBatch DEF Ingesting
    <3>2. [file |-> Head(todo[p]), id |-> nextId, by |-> <<p, starts[p]>>, whole |-> FALSE] \in Circular
      BY <3>1 DEF Circular
    <3>3. DOMAIN txn'[p] = TxnParts /\ txn'[p].row \subseteq Circular
      BY <2>3, <3>2 DEF TxnParts
    <3>4. QED
      BY <1>0, <2>1, <2>3, <3>3 DEF Goto
  <2>4. QED
    BY <1>6, <2>2, <2>3 DEF Insert
<1>7. CASE Save(p)
  <2>1. at[p] = "save" /\ UNCHANGED <<tables, nextId, seen, lookup, alone, starts, crashes>>
    BY <1>7 DEF Save
  <2>2. CASE Fails(p, "failed")
    BY <1>0, <1>3, <1>4, <2>1, <2>2, EmptyTxnTyped DEF Fails, RolledBack, Goto, Ingesting
  <2>3. CASE /\ txn' = [txn EXCEPT ![p].row =
                         {IF r.file = Head(todo[p]) THEN [r EXCEPT !.whole = TRUE] ELSE r : r \in @}]
             /\ Goto(p, "commit") /\ UNCHANGED <<report, todo>>
    <3>1. \A r \in Circular : [r EXCEPT !.whole = TRUE] \in Circular
      BY DEF Circular
    <3>2. {IF r.file = Head(todo[p]) THEN [r EXCEPT !.whole = TRUE] ELSE r : r \in txn[p].row} \subseteq Circular
      BY <3>1
    <3>3. DOMAIN txn'[p] = TxnParts /\ txn'[p].row \subseteq Circular
      BY <2>3, <3>2 DEF TxnParts
    <3>4. QED
      BY <1>0, <2>1, <2>3, <3>3 DEF Goto
  <2>4. QED
    BY <1>7, <2>2, <2>3 DEF Save
<1>8. CASE CommitDocument(p)
  <2>1. /\ at[p] = "commit" /\ circulars' = circulars \cup txn[p].row
        /\ txn' = [txn EXCEPT ![p] = EmptyTxn]
        /\ Reported(p, "ingested") /\ Goto(p, "look")
        /\ UNCHANGED <<nextId, seen, lookup, alone, starts>>
    BY <1>8 DEF CommitDocument
  <2>2. IsFiniteSet(circulars')
    <3>1. PICK r : txn[p].row = {r}
      BY <2>1 DEF RowsInHand, InHand
    <3>2. QED
      BY <2>1, <3>1, FS_AddElement
  <2>3. QED
    BY <1>0, <1>3, <1>4, <2>1, <2>2, EmptyTxnTyped DEF Goto, Ingesting
<1>9. ASSUME NextModule(p), at[p] \notin Idle
      PROVE  at' \in [Processes -> Labels] /\ steps' \in [Processes -> Seq(Modules)] /\ DOMAIN todo' = Processes
  <2>1. Tail(steps[p]) \in Seq(Modules)
    BY <1>9, NextTyped
  <2>2. QED
    BY <1>9, <2>1, Beginning DEF NextModule
<1>10. CASE EndBatch(p)
  BY <1>0, <1>9, <1>10 DEF EndBatch, Stop, Idle
<1>11. CASE DeleteAll(p)
  BY <1>0, <1>11 DEF DeleteAll, Goto
<1>12. CASE CitationsDeleted(p) \/ SupersessionsDeleted(p)
  <2>1. /\ DOMAIN txn' = Processes /\ \A q \in Processes \ {p} : txn'[q] = txn[q]
        /\ DOMAIN txn'[p] = TxnParts /\ txn'[p].row = txn[p].row
    <3>1. CASE CitationsDeleted(p)
      BY <3>1 DEF CitationsDeleted, TxnParts
    <3>2. CASE SupersessionsDeleted(p)
      BY <3>2 DEF SupersessionsDeleted, TxnParts
    <3>3. QED
      BY <1>12, <3>1, <3>2
  <2>2. \A q \in Processes : DOMAIN txn'[q] = TxnParts /\ txn'[q].row \subseteq Circular
    BY <2>1
  <2>3. /\ at' \in [Processes -> Labels] /\ DOMAIN seen' = Processes
        /\ UNCHANGED <<circulars, nextId, steps, todo, lookup, report, alone, starts>>
    <3>1. CASE CitationsDeleted(p)
      BY <1>0, <3>1 DEF CitationsDeleted, Goto
    <3>2. CASE SupersessionsDeleted(p)
      BY <1>0, <3>2 DEF SupersessionsDeleted, Goto
    <3>3. QED
      BY <1>12, <3>1, <3>2
  <2>4. QED
    BY <2>1, <2>2, <2>3
<1>13. CASE Tabulate(p)
  BY <1>0, <1>13 DEF Tabulate, Goto
<1>14. CASE WriteEdges(p)
  BY <1>0, <1>14 DEF WriteEdges, Goto, TxnParts
<1>15. CASE ReplaceGraph(p)
  BY <1>9, <1>15, EmptyTxnTyped DEF ReplaceGraph, Forget, Idle
<1>16. CASE LookPack(p) \/ StorePack(p) \/ EndEmbed(p) \/ EndExtract(p)
  BY <1>0, <1>9, <1>16 DEF LookPack, StorePack, EndEmbed, EndExtract, Goto, Stop, Idle
<1>17. CASE SelectRows(p)
  BY <1>0, <1>17 DEF SelectRows, Goto
<1>18. CASE EmbedBatch(p)
  BY <1>18 DEF EmbedBatch
<1>19. CASE CountObligations(p)
  BY <1>0, <1>9, <1>19 DEF CountObligations, Goto, Idle
<1>20. CASE ExtractCircular(p)
  BY <1>0, <1>20 DEF ExtractCircular, Stop
<1>21. QED
  BY <1>1, <1>2, <1>5, <1>6, <1>7, <1>8, <1>10, <1>11, <1>12, <1>13, <1>14, <1>15, <1>16, <1>17,
     <1>18, <1>19, <1>20 DEF Moves

-----------------------------------------------------------------------------
(* From one module to the next.                                             *)

\* No module comes twice in the seed.
LEMMA SeedStepsDiffer == \A i, j \in 1 .. 5 : SeedSteps[i] = SeedSteps[j] => i = j
BY DEF SeedSteps

\* A process that is not idle is in one of the five modules.
LEMMA WorkingPhase ==
  ASSUME NEW l \in Labels, l \notin Idle
  PROVE  Phase(l) \in 1 .. 5
BY Phases DEF Labels, Idle, Ingesting, Graphing

\* What follows a module in the rest of a seed.
LEMMA RestGoesOn ==
  ASSUME NEW s \in Seq(Modules), s # <<>>, IsRest(s) \/ Len(s) = 1,
         NEW k \in 1 .. 5, Head(s) = SeedSteps[k]
  PROVE  /\ Tail(s) \in Seq(Modules) /\ IsRest(Tail(s))
         /\ Tail(s) = <<>> => (IsRest(s) => k = 5)
         /\ Tail(s) # <<>> => k < 5 /\ Head(Tail(s)) = SeedSteps[k + 1]
<1>1. PICK n \in Nat \ {0} : n = Len(s)
  OBVIOUS
<1>2. /\ Tail(s) \in Seq(Modules) /\ Len(Tail(s)) = n - 1
      /\ Head(s) = s[1] /\ DOMAIN s = 1 .. n /\ DOMAIN Tail(s) = 1 .. n - 1
      /\ \A i \in DOMAIN Tail(s) : Tail(s)[i] = s[i + 1]
  BY <1>1, HeadAndTail
<1>3. /\ IsRest(s) <=> n <= 5 /\ \A i \in 1 .. n : s[i] = SeedSteps[5 - n + i]
      /\ IsRest(Tail(s)) <=> n - 1 <= 5 /\ \A i \in 1 .. n - 1 : Tail(s)[i] = SeedSteps[5 - (n - 1) + i]
      /\ IsRest(s) \/ n = 1
  BY <1>1, <1>2 DEF IsRest
<1>4. CASE n = 1
  <2>1. Tail(s) = <<>> /\ IsRest(Tail(s))
    BY <1>2, <1>3, <1>4
  <2>2. IsRest(s) => s[1] = SeedSteps[5]
    BY <1>3, <1>4
  <2>3. QED
    BY <1>2, <2>1, <2>2, SeedStepsDiffer
<1>5. CASE n # 1
  <2>1. n \in 2 .. 5 /\ \A i \in 1 .. n : s[i] = SeedSteps[5 - n + i]
    BY <1>3, <1>5
  <2>2. s[1] = SeedSteps[6 - n] /\ s[2] = SeedSteps[7 - n]
    <3>1. s[1] = SeedSteps[5 - n + 1] /\ s[2] = SeedSteps[5 - n + 2]
      BY <2>1
    <3>2. 5 - n + 1 = 6 - n /\ 5 - n + 2 = 7 - n
      BY <2>1
    <3>3. QED
      BY <3>1, <3>2
  <2>3. k = 6 - n
    <3>1. 6 - n \in 1 .. 5
      BY <2>1
    <3>2. QED
      BY <1>2, <2>2, <3>1, SeedStepsDiffer
  <2>4. Tail(s) # <<>> /\ Head(Tail(s)) = s[2]
    <3>1. 1 \in DOMAIN Tail(s) /\ Tail(s)[1] = s[2]
      BY <1>2, <2>1
    <3>2. Tail(s) # <<>>
      <4>1. DOMAIN <<>> = {}
        OBVIOUS
      <4>2. QED
        BY <3>1, <4>1
    <3>3. Head(Tail(s)) = Tail(s)[1]
      BY <1>2, <3>2, HeadAndTail
    <3>4. QED
      BY <3>1, <3>2, <3>3
  <2>5. IsRest(Tail(s))
    <3>1. ASSUME NEW i \in 1 .. n - 1 PROVE Tail(s)[i] = SeedSteps[5 - (n - 1) + i]
      <4>1. i + 1 \in 1 .. n /\ 5 - n + (i + 1) = 5 - (n - 1) + i
        BY <2>1
      <4>2. s[i + 1] = SeedSteps[5 - n + (i + 1)]
        BY <2>1, <4>1
      <4>3. QED
        BY <1>2, <4>1, <4>2
    <3>2. n - 1 <= 5
      BY <2>1
    <3>3. QED
      BY <1>3, <3>1, <3>2
  <2>6. k < 5 /\ k + 1 = 7 - n
    BY <2>1, <2>3
  <2>7. QED
    BY <1>2, <2>2, <2>4, <2>5, <2>6
<1>6. QED
  BY <1>4, <1>5

\* Each module begins at a label of its own.
LEMMA EntryOfStep ==
  ASSUME NEW k \in 1 .. 5
  PROVE  /\ Entry(SeedSteps[k]) \in {"look", "forget", "index", "select", "count"}
         /\ Phase(Entry(SeedSteps[k])) = k
         /\ SeedSteps[k] = "ingest" <=> k = 1
         /\ Entry(SeedSteps[k]) = "look" <=> k = 1
BY FiveModules, Entries, Phases DEF Ingesting, Graphing

\* The module after the present one; ingestion comes after none.
LEMMA GoesOn ==
  ASSUME CorpusTyped, StepsOnTrack, NEW p \in Processes, at[p] \notin Idle, NextModule(p)
  PROVE  /\ steps'[p] = Tail(steps[p]) /\ IsRest(steps'[p]) /\ todo'[p] = <<>>
         /\ at'[p] \in {"forget", "index", "select", "count", "done"}
         /\ at'[p] # "done" => steps'[p] # <<>> /\ Head(steps'[p]) = SeedSteps[Phase(at'[p])]
         /\ IsRest(steps[p]) => Phase(at'[p]) = Phase(at[p]) + 1
<1> DEFINE s == steps[p]
           k == Phase(at[p])
<1>1. s \in Seq(Modules) /\ s # <<>> /\ (IsRest(s) \/ Len(s) = 1) /\ Head(s) = SeedSteps[k]
  BY NextTyped DEF StepsOnTrack
<1>2. k \in 1 .. 5
  BY WorkingPhase DEF CorpusTyped
<1>3. Begin(p, Tail(s))
  BY DEF NextModule
<1> HIDE DEF s, k
<1>4. /\ Tail(s) \in Seq(Modules) /\ IsRest(Tail(s))
      /\ Tail(s) = <<>> => (IsRest(s) => k = 5)
      /\ Tail(s) # <<>> => k < 5 /\ Head(Tail(s)) = SeedSteps[k + 1]
  BY <1>1, <1>2, RestGoesOn
<1>5. /\ steps'[p] = Tail(s)
      /\ Tail(s) = <<>> => at'[p] = "done"
      /\ Tail(s) # <<>> => at'[p] = Entry(Head(Tail(s)))
      /\ Tail(s) = <<>> \/ Head(Tail(s)) # "ingest" => todo'[p] = <<>>
  BY <1>3, <1>4, Beginning
<1>6. CASE Tail(s) = <<>>
  BY <1>4, <1>5, <1>6, Phases DEF s, k
<1>7. CASE Tail(s) # <<>>
  <2>1. k + 1 \in 2 .. 5
    BY <1>2, <1>4, <1>7
  <2>2. /\ at'[p] = Entry(SeedSteps[k + 1])
        /\ at'[p] \in {"forget", "index", "select", "count"} /\ Phase(at'[p]) = k + 1
        /\ SeedSteps[k + 1] # "ingest"
    BY <1>4, <1>5, <1>7, <2>1, EntryOfStep
  <2>3. QED
    BY <1>4, <1>5, <1>7, <2>2 DEF s, k
<1>8. QED
  BY <1>6, <1>7

\* A command is started with the module at its head.
LEMMA Started ==
  ASSUME CorpusTyped, NEW p \in Processes, NEW s \in Jobs[p], Begin(p, s)
  PROVE  /\ s \in Seq(Modules) /\ s # <<>> /\ steps'[p] = s /\ (IsRest(s) \/ Len(s) = 1)
         /\ at'[p] \in {"look", "forget", "index", "select", "count"}
         /\ Head(s) = SeedSteps[Phase(at'[p])]
         /\ at'[p] = "look" => todo'[p] = Items[p]
         /\ s = SeedSteps => IsRest(s) /\ at'[p] = "look"
<1>1. s = SeedSteps \/ \E i \in DOMAIN SeedSteps : s = <<SeedSteps[i]>>
  BY CorpusAssumption DEF CorpusAssumption
<1>2. IsRest(SeedSteps) /\ Head(SeedSteps) = SeedSteps[1] /\ SeedSteps # <<>>
  <2>1. Len(SeedSteps) = 5
    BY DEF SeedSteps
  <2>2. Head(SeedSteps) = SeedSteps[1] /\ SeedSteps # <<>>
    <3>1. SeedSteps # <<>>
      BY <2>1
    <3>2. QED
      BY <3>1, FiveModules, HeadAndTail
  <2>3. \A j \in DOMAIN SeedSteps : SeedSteps[j] = SeedSteps[5 - 5 + j]
    BY FiveModules
  <2>4. QED
    BY <2>1, <2>2, <2>3 DEF IsRest
<1>3. PICK i \in 1 .. 5 : /\ Head(s) = SeedSteps[i] /\ s \in Seq(Modules) /\ s # <<>>
                          /\ IsRest(s) \/ Len(s) = 1
                          /\ s = SeedSteps => i = 1
  <2>1. CASE s = SeedSteps
    BY <2>1, <1>2, FiveModules
  <2>2. ASSUME NEW i \in DOMAIN SeedSteps, s = <<SeedSteps[i]>>, s # SeedSteps
        PROVE  Head(s) = SeedSteps[i] /\ s \in Seq(Modules) /\ s # <<>> /\ Len(s) = 1 /\ i \in 1 .. 5
    BY <2>2, FiveModules
  <2>3. QED
    BY <1>1, <2>1, <2>2
<1>4. /\ steps'[p] = s /\ at'[p] = Entry(Head(s))
      /\ Head(s) = "ingest" => todo'[p] = Items[p]
  BY <1>3, Beginning
<1>5. /\ at'[p] \in {"look", "forget", "index", "select", "count"}
      /\ Head(s) = SeedSteps[Phase(at'[p])] /\ (at'[p] = "look" => Head(s) = "ingest")
      /\ i = 1 => at'[p] = "look"
  BY <1>3, <1>4, FiveModules, Entries, Phases DEF Ingesting, Graphing
<1>6. QED
  BY <1>2, <1>3, <1>4, <1>5

\* A process begins a command, stops, goes on to its next module, or stays in its module.
LEMMA Turns ==
  ASSUME CorpusTyped, StepsOnTrack, NEW p \in Processes, Moves(p)
  PROVE  \/ Start(p)
         \/ at'[p] = "stopped" /\ steps'[p] = <<>>
         \/ NextModule(p) /\ at[p] \notin Idle
         \/ steps'[p] = steps[p] /\ at[p] \notin Idle /\ at'[p] \notin Idle
            /\ Phase(at'[p]) = Phase(at[p])
<1> USE Phases DEF Goto, Idle, Ingesting, Graphing, CorpusTyped
<1>1. CASE Crash(p)
  BY <1>1 DEF Crash, Stop
<1>2. CASE Look(p) \/ LookNumber(p)
  BY <1>2 DEF Look, LookNumber, Fails
<1>3. CASE Insert(p)
  BY <1>3 DEF Insert, Fails
<1>4. CASE Save(p)
  BY <1>4 DEF Save, Fails
<1>5. CASE CommitDocument(p)
  BY <1>5 DEF CommitDocument
<1>6. CASE EndBatch(p)
  BY <1>6 DEF EndBatch, Stop
<1>7. CASE DeleteAll(p) \/ CitationsDeleted(p) \/ SupersessionsDeleted(p)
  BY <1>7 DEF DeleteAll, CitationsDeleted, SupersessionsDeleted
<1>8. CASE Tabulate(p) \/ WriteEdges(p) \/ ReplaceGraph(p)
  BY <1>8 DEF Tabulate, WriteEdges, ReplaceGraph
<1>9. CASE LookPack(p) \/ StorePack(p) \/ EmbedBatch(p) \/ EndEmbed(p)
  BY <1>9 DEF LookPack, StorePack, EmbedBatch, EndEmbed, Stop
<1>10. CASE SelectRows(p) \/ CountObligations(p)
  BY <1>10 DEF SelectRows, CountObligations
<1>11. CASE ExtractCircular(p) \/ EndExtract(p)
  BY <1>11 DEF ExtractCircular, EndExtract, Stop
<1>12. QED
  BY <1>1, <1>2, <1>3, <1>4, <1>5, <1>6, <1>7, <1>8, <1>9, <1>10, <1>11 DEF Moves

\* A seed that has come to its end has nothing left.
LEMMA NothingIsRest == IsRest(<<>>)
BY DEF IsRest

\* Every step keeps a process within the module at the head of its steps.
LEMMA StepsKept ==
  ASSUME CorpusTyped, StepsOnTrack, NEW p \in Processes, Moves(p)
  PROVE  StepsOnTrack'
<1> SUFFICES /\ IsRest(steps'[p]) \/ Len(steps'[p]) = 1
             /\ at'[p] \notin Idle => steps'[p] # <<>> /\ Head(steps'[p]) = SeedSteps[Phase(at'[p])]
  BY OthersStand DEF StepsOnTrack
<1>1. CASE Start(p)
  BY <1>1, Started DEF Start
<1>2. CASE at'[p] = "stopped" /\ steps'[p] = <<>>
  BY <1>2, NothingIsRest DEF Idle
<1>3. CASE NextModule(p) /\ at[p] \notin Idle
  BY <1>3, GoesOn DEF Idle
<1>4. CASE steps'[p] = steps[p] /\ at[p] \notin Idle /\ at'[p] \notin Idle /\ Phase(at'[p]) = Phase(at[p])
  BY <1>4 DEF StepsOnTrack
<1>5. QED
  BY <1>1, <1>2, <1>3, <1>4, Turns

-----------------------------------------------------------------------------
(* The steps of a batch.                                                    *)

\* A document fails, is skipped, passes, is inserted, is saved.
DocumentFails(p) ==
  /\ at[p] \in {"look", "number", "insert", "save"} /\ todo[p] # <<>>
  /\ \/ Fails(p, "failed")
     \/ /\ Fails(p, "conflicts") /\ at[p] = "number"
        /\ \E r \in circulars : Doc[r.file].number = Doc[Head(todo[p])].number
  /\ UNCHANGED <<tables, nextId, seen, lookup, alone, starts>>

DocumentIsSkipped(p) ==
  /\ at[p] = "look" /\ todo[p] # <<>> /\ Like(Head(todo[p])) # {}
  /\ Reported(p, "skipped") /\ UNCHANGED <<at, steps, txn>>
  /\ UNCHANGED <<tables, nextId, seen, lookup, alone, starts>>

DocumentPasses(p) ==
  /\ todo[p] # <<>>
  /\ \/ at[p] = "look" /\ Like(Head(todo[p])) = {} /\ Goto(p, "number")
     \/ at[p] = "number" /\ Goto(p, "insert")
  /\ UNCHANGED <<tables, nextId, todo, txn, seen, lookup, report, alone, starts>>

DocumentIsInserted(p) ==
  /\ at[p] = "insert" /\ todo[p] # <<>> /\ Goto(p, "save") /\ nextId' = nextId + 1
  /\ txn' = [txn EXCEPT ![p].row =
       {[file |-> Head(todo[p]), id |-> nextId, by |-> <<p, starts[p]>>, whole |-> FALSE]}]
  /\ UNCHANGED <<tables, todo, seen, lookup, report, alone, starts>>

DocumentIsSaved(p) ==
  /\ at[p] = "save" /\ todo[p] # <<>> /\ Goto(p, "commit")
  /\ \E n \in Nat :
       /\ txn[p].row = {[file |-> Head(todo[p]), id |-> n, by |-> <<p, starts[p]>>, whole |-> FALSE]}
       /\ txn' = [txn EXCEPT ![p].row =
            {[file |-> Head(todo[p]), id |-> n, by |-> <<p, starts[p]>>, whole |-> TRUE]}]
  /\ UNCHANGED <<tables, nextId, todo, seen, lookup, report, alone, starts>>

DocumentIsCommitted(p) ==
  /\ at[p] = "commit" /\ todo[p] # <<>>
  /\ \E n \in Nat :
       LET entry == [file |-> Head(todo[p]), id |-> n, by |-> <<p, starts[p]>>, whole |-> TRUE]
       IN  txn[p].row = {entry} /\ circulars' = circulars \cup {entry}
  /\ txn' = [txn EXCEPT ![p] = EmptyTxn]
  /\ Reported(p, "ingested") /\ Goto(p, "look")
  /\ UNCHANGED <<citations, supersessions, pack, embedded, nextId, seen, lookup, alone, starts>>

BatchEnds(p) ==
  /\ at[p] = "look" /\ todo[p] = <<>>
  /\ \/ report[p]["failed"] \cup report[p]["conflicts"] = {} /\ NextModule(p)
     \/ Stop(p)
  /\ UNCHANGED <<tables, nextId, txn, seen, lookup, report, alone, starts>>

\* The other modules leave the circulars and the batches alone.
ElsewhereGoesOn(p) ==
  /\ at[p] \notin Idle /\ at[p] \notin Ingesting /\ at'[p] \notin Ingesting
  /\ txn'[p].row = {}
  /\ UNCHANGED <<circulars, nextId, report, starts>>

\* A row is made whole and is otherwise as it was.
LEMMA WholeRow ==
  ASSUME NEW f, NEW n, NEW by, NEW v, NEW w
  PROVE  [[file |-> f, id |-> n, by |-> by, whole |-> v] EXCEPT !.whole = w] =
           [file |-> f, id |-> n, by |-> by, whole |-> w]
OBVIOUS

\* A step is one of a batch, as its transaction shows it, or leaves circulars and reports alone.
LEMMA BatchMoves ==
  ASSUME CorpusTyped, StepsOnTrack, RowsInHand, NEW p \in Processes, Moves(p)
  PROVE  \/ Start(p) \/ Crash(p) \/ DocumentFails(p) \/ DocumentIsSkipped(p) \/ DocumentPasses(p)
         \/ DocumentIsInserted(p) \/ DocumentIsSaved(p) \/ DocumentIsCommitted(p) \/ BatchEnds(p)
         \/ ElsewhereGoesOn(p)
<1> USE DEF CorpusTyped
<1>1. CASE Look(p)
  <2>1. txn[p].row = {} /\ at[p] = "look" /\ todo[p] # <<>>
        /\ UNCHANGED <<tables, nextId, seen, lookup, alone, starts>>
    BY <1>1 DEF Look, RowsInHand
  <2> DEFINE f == Head(todo[p])
             same == {r \in circulars : Doc[r.file].bytes = Doc[f].bytes}
  <2>2. circulars \cup txn[p].row = circulars /\ same = Like(f)
    BY <2>1 DEF Like
  <2>3. \/ Cardinality(same) = 1 /\ Reported(p, "skipped") /\ UNCHANGED <<at, steps, txn>>
        \/ Fails(p, "failed")
        \/ same = {} /\ Goto(p, "number") /\ UNCHANGED <<report, todo, txn>>
    BY <1>1, <2>2 DEF Look
  <2>4. ASSUME Cardinality(same) = 1 PROVE same # {}
    <3>1. Cardinality({}) = 0
      BY FS_EmptySet
    <3> HIDE DEF same
    <3>2. SUFFICES ASSUME same = {} PROVE FALSE
      OBVIOUS
    <3>3. QED
      BY <2>4, <3>1, <3>2
  <2> HIDE DEF same
  <2>5. QED
    BY <2>1, <2>2, <2>3, <2>4 DEF DocumentFails, DocumentIsSkipped, DocumentPasses
<1>11. CASE LookNumber(p)
  <2>1. txn[p].row = {} /\ at[p] = "number" /\ todo[p] # <<>>
        /\ UNCHANGED <<tables, nextId, seen, lookup, alone, starts>>
    BY <1>11 DEF LookNumber, RowsInHand
  <2>2. \/ /\ \E r \in circulars : Doc[r.file].number = Doc[Head(todo[p])].number
           /\ Fails(p, "conflicts")
        \/ Goto(p, "insert") /\ UNCHANGED <<report, todo, txn>>
    BY <1>11, <2>1 DEF LookNumber
  <2>3. QED
    BY <2>1, <2>2 DEF DocumentFails, DocumentPasses
<1>2. CASE Insert(p)
  <2>1. at[p] = "insert" /\ todo[p] # <<>> /\ txn[p].row = {}
        /\ UNCHANGED <<tables, seen, lookup, alone, starts>>
    BY <1>2 DEF Insert, RowsInHand
  <2>2. CASE Fails(p, "failed") /\ UNCHANGED nextId
    BY <2>1, <2>2 DEF DocumentFails
  <2>3. CASE /\ txn' = [txn EXCEPT ![p].row = @ \cup
                     {[file |-> Head(todo[p]), id |-> nextId, by |-> <<p, starts[p]>>, whole |-> FALSE]}]
             /\ nextId' = nextId + 1
             /\ Goto(p, "save") /\ UNCHANGED <<report, todo>>
    <3> DEFINE new == {[file |-> Head(todo[p]), id |-> nextId, by |-> <<p, starts[p]>>, whole |-> FALSE]}
    <3>1. txn[p].row \cup new = new
      BY <2>1
    <3>2. txn' = [txn EXCEPT ![p].row = new]
      BY <2>3, <3>1
    <3>3. QED
      BY <2>1, <2>3, <3>2 DEF DocumentIsInserted
  <2>4. QED
    BY <1>2, <2>2, <2>3 DEF Insert
<1>3. CASE Save(p)
  <2>1. at[p] = "save" /\ InHand(p, FALSE)
        /\ UNCHANGED <<tables, nextId, seen, lookup, alone, starts>>
    BY <1>3 DEF Save, RowsInHand
  <2>2. CASE Fails(p, "failed")
    BY <2>1, <2>2 DEF DocumentFails, InHand
  <2>3. CASE /\ txn' = [txn EXCEPT ![p].row =
                         {IF r.file = Head(todo[p]) THEN [r EXCEPT !.whole = TRUE] ELSE r : r \in @}]
             /\ Goto(p, "commit") /\ UNCHANGED <<report, todo>>
    <3> DEFINE entry(n, w) == [file |-> Head(todo[p]), id |-> n, by |-> <<p, starts[p]>>, whole |-> w]
    <3>1. PICK n \in Nat : txn[p].row = {entry(n, FALSE)}
      BY <2>1 DEF InHand
    <3>2. [entry(n, FALSE) EXCEPT !.whole = TRUE] = entry(n, TRUE) /\ entry(n, FALSE).file = Head(todo[p])
      <4>1. [entry(n, FALSE) EXCEPT !.whole = TRUE] = entry(n, TRUE)
        <5>1. \A v, w : [entry(n, v) EXCEPT !.whole = w] = entry(n, w)
          BY WholeRow
        <5> HIDE DEF entry
        <5>2. QED
          BY <5>1, Zenon
      <4>2. entry(n, FALSE).file = Head(todo[p])
        OBVIOUS
      <4>3. QED
        BY <4>1, <4>2
    <3> HIDE DEF entry
    <3>3. {IF r.file = Head(todo[p]) THEN [r EXCEPT !.whole = TRUE] ELSE r : r \in txn[p].row} = {entry(n, TRUE)}
      BY <3>1, <3>2
    <3>4. txn' = [txn EXCEPT ![p].row = {entry(n, TRUE)}]
      BY <2>3, <3>3
    <3>5. QED
      BY <2>1, <2>3, <3>1, <3>4 DEF DocumentIsSaved, InHand, entry
  <2>4. QED
    BY <1>3, <2>2, <2>3 DEF Save
<1>4. CASE CommitDocument(p)
  <2>1. at[p] = "commit" /\ InHand(p, TRUE)
    BY <1>4 DEF CommitDocument, RowsInHand
  <2>2. QED
    BY <1>4, <2>1 DEF CommitDocument, DocumentIsCommitted, InHand
<1>5. CASE EndBatch(p)
  BY <1>5 DEF EndBatch, BatchEnds
<1>6. CASE DeleteAll(p) \/ CitationsDeleted(p) \/ SupersessionsDeleted(p) \/ Tabulate(p) \/ WriteEdges(p)
  <2>1. /\ UNCHANGED <<circulars, nextId, report, starts>>
        /\ at[p] \notin Idle /\ at[p] \notin Ingesting /\ at'[p] \notin Ingesting /\ txn'[p].row = txn[p].row
    <3>1. CASE DeleteAll(p)
      BY <3>1 DEF DeleteAll, Goto, Idle, Ingesting, tables
    <3>2. CASE CitationsDeleted(p)
      BY <3>2 DEF CitationsDeleted, Goto, Idle, Ingesting, tables, TxnParts
    <3>3. CASE SupersessionsDeleted(p)
      BY <3>3 DEF SupersessionsDeleted, Goto, Idle, Ingesting, tables, TxnParts
    <3>4. CASE Tabulate(p)
      BY <3>4 DEF Tabulate, Goto, Idle, Ingesting, tables
    <3>5. CASE WriteEdges(p)
      BY <3>5 DEF WriteEdges, Goto, Idle, Ingesting, tables, TxnParts
    <3>6. QED
      BY <1>6, <3>1, <3>2, <3>3, <3>4, <3>5
  <2>2. txn[p].row = {}
    BY <2>1 DEF RowsInHand, Ingesting
  <2>3. QED
    BY <2>1, <2>2 DEF ElsewhereGoesOn
<1>7. ASSUME NextModule(p), at[p] \notin Idle PROVE at'[p] \notin Ingesting
  BY <1>7, GoesOn DEF Ingesting
<1>8. CASE ReplaceGraph(p)
  BY <1>7, <1>8, EmptyTxnTyped DEF ReplaceGraph, ElsewhereGoesOn, Idle, Ingesting, RowsInHand
<1>9. CASE \/ LookPack(p) \/ StorePack(p) \/ SelectRows(p) \/ EmbedBatch(p) \/ EndEmbed(p) \/ CountObligations(p)
           \/ ExtractCircular(p) \/ EndExtract(p)
  <2>1. /\ UNCHANGED <<circulars, nextId, txn, report, starts>>
        /\ at[p] \in {"index", "packing", "select", "embed", "count", "extract"}
    BY <1>9 DEF LookPack, StorePack, SelectRows, EmbedBatch, EndEmbed, CountObligations, ExtractCircular,
                EndExtract, tables
  <2>2. txn[p].row = {} /\ at[p] \notin Idle /\ at[p] \notin Ingesting
    BY <2>1 DEF RowsInHand, Idle, Ingesting
  <2>3. at'[p] \notin Ingesting
    BY <1>7, <1>9, <2>1, <2>2 DEF LookPack, StorePack, SelectRows, EmbedBatch, EndEmbed, CountObligations,
                                   ExtractCircular, EndExtract, Goto, Stop, Ingesting
  <2>4. QED
    BY <2>1, <2>2, <2>3 DEF ElsewhereGoesOn
<1>12. QED
  BY <1>1, <1>2, <1>3, <1>4, <1>5, <1>6, <1>8, <1>9, <1>11 DEF Moves

\* A row not yet committed carries the name of its process.
LEMMA OwnRow ==
  ASSUME RowsInHand, NEW q \in Processes, NEW r \in txn[q].row
  PROVE  r.by[1] = q
<1>1. \E n \in Nat, w \in BOOLEAN :
        r = [file |-> Head(todo[q]), id |-> n, by |-> <<q, starts[q]>>, whole |-> w]
  BY DEF RowsInHand, InHand
<1>2. r.by = <<q, starts[q]>>
  BY <1>1
<1>3. QED
  BY <1>2

\* Every step keeps the transaction of a batch to the row of its present document.
LEMMA RowsKept ==
  ASSUME CorpusTyped, StepsOnTrack, RowsInHand, NEW p \in Processes, Moves(p)
  PROVE  RowsInHand'
<1> SUFFICES /\ at'[p] \in {"number", "insert"} => todo'[p] # <<>>
             /\ at'[p] = "save" => InHand(p, FALSE)'
             /\ at'[p] = "commit" => InHand(p, TRUE)'
             /\ at'[p] \notin {"save", "commit"} => txn'[p].row = {}
  <2> SUFFICES ASSUME NEW q \in Processes \ {p}
               PROVE  /\ at'[q] \in {"number", "insert"} => todo'[q] # <<>>
                      /\ at'[q] = "save" => InHand(q, FALSE)'
                      /\ at'[q] = "commit" => InHand(q, TRUE)'
                      /\ at'[q] \notin {"save", "commit"} => txn'[q].row = {}
    BY DEF RowsInHand
  <2>1. at'[q] = at[q] /\ todo'[q] = todo[q] /\ txn'[q] = txn[q] /\ starts'[q] = starts[q]
    BY OthersStand
  <2>2. QED
    BY <2>1 DEF RowsInHand, InHand
<1> USE DEF CorpusTyped, Goto
<1>1. CASE Start(p)
  <2>1. at'[p] \in {"look", "forget", "index", "select", "count"}
    BY <1>1, Started DEF Start
  <2>2. txn' = txn /\ at[p] \in Idle
    BY <1>1 DEF Start
  <2>3. QED
    BY <2>1, <2>2 DEF RowsInHand, Idle
<1>2. CASE Crash(p)
  BY <1>2, EmptyTxnTyped DEF Crash, Stop, RolledBack
<1>3. CASE DocumentFails(p)
  BY <1>3, EmptyTxnTyped DEF DocumentFails, Fails, RolledBack
<1>4. CASE DocumentIsSkipped(p)
  BY <1>4 DEF DocumentIsSkipped, RowsInHand
<1>5. CASE DocumentPasses(p)
  BY <1>5 DEF DocumentPasses, RowsInHand
<1>6. CASE DocumentIsInserted(p)
  BY <1>6 DEF DocumentIsInserted, InHand, TxnParts
<1>7. CASE DocumentIsSaved(p)
  BY <1>7 DEF DocumentIsSaved, InHand, TxnParts
<1>8. CASE DocumentIsCommitted(p)
  BY <1>8, EmptyTxnTyped DEF DocumentIsCommitted
<1>9. CASE BatchEnds(p)
  <2>1. at'[p] = "stopped" \/ at'[p] \in {"forget", "index", "select", "count", "done"}
    BY <1>9, GoesOn DEF BatchEnds, Stop, Idle
  <2>2. QED
    BY <1>9, <2>1 DEF BatchEnds, RowsInHand
<1>10. CASE ElsewhereGoesOn(p)
  BY <1>10 DEF ElsewhereGoesOn, Ingesting
<1>11. QED
  BY <1>1, <1>2, <1>3, <1>4, <1>5, <1>6, <1>7, <1>8, <1>9, <1>10, BatchMoves

\* Rows are only added by an insert, with an id of their own.
LEMMA IdsKept ==
  ASSUME CorpusTyped, IdsAreUnique, StepsOnTrack, RowsInHand, \A r \in circulars : r.whole,
         NEW p \in Processes, Moves(p)
  PROVE  IdsAreUnique'
<1> USE DEF CorpusTyped
<1>0. \A q \in Processes \ {p} : txn'[q].row = txn[q].row
  BY OthersStand
<1>3. circulars \subseteq Given
  BY DEF Given
<1>01. /\ \A r \in Given' : r \in circulars' \/ r \in txn'[p].row
                              \/ \E q \in Processes \ {p} : r \in txn[q].row
       /\ \A q \in Processes : txn[q].row \subseteq Given
  <2>1. \A r \in Given' : r \in circulars' \/ \E q \in Processes : r \in txn'[q].row
    BY DEF Given
  <2>2. \A q \in Processes : txn[q].row \subseteq Given
    BY DEF Given
  <2>3. QED
    BY <1>0, <2>1, <2>2
<1>1. ASSUME circulars' \subseteq Given, txn'[p].row \subseteq txn[p].row
      PROVE  Given' \subseteq Given
  BY <1>01, <1>1
<1>2. CASE circulars' \subseteq Given /\ txn'[p].row \subseteq txn[p].row /\ nextId' = nextId
  BY <1>1, <1>2 DEF IdsAreUnique
<1>4. CASE Start(p)
  BY <1>2, <1>3, <1>4 DEF Start, tables
<1>5. CASE Crash(p)
  BY <1>2, <1>3, <1>5, EmptyTxnTyped DEF Crash, RolledBack, tables
<1>6. CASE DocumentFails(p)
  BY <1>2, <1>3, <1>6, EmptyTxnTyped DEF DocumentFails, Fails, RolledBack, tables
<1>7. CASE DocumentIsSkipped(p) \/ DocumentPasses(p) \/ BatchEnds(p)
  BY <1>2, <1>3, <1>7 DEF DocumentIsSkipped, DocumentPasses, BatchEnds, tables
<1>8. CASE ElsewhereGoesOn(p)
  BY <1>2, <1>3, <1>8 DEF ElsewhereGoesOn
<1>9. CASE DocumentIsCommitted(p)
  <2>1. circulars' = circulars \cup txn[p].row
    BY <1>9 DEF DocumentIsCommitted
  <2>2. circulars' \subseteq Given
    BY <2>1 DEF Given
  <2>3. nextId' = nextId /\ txn'[p].row = {}
    BY <1>9, EmptyTxnTyped DEF DocumentIsCommitted
  <2>4. QED
    BY <1>2, <2>2, <2>3
<1>10. CASE DocumentIsInserted(p)
  <2> DEFINE new == [file |-> Head(todo[p]), id |-> nextId, by |-> <<p, starts[p]>>, whole |-> FALSE]
  <2>1. txn'[p].row = {new} /\ circulars' = circulars /\ nextId' = nextId + 1 /\ new.id = nextId
    BY <1>10 DEF DocumentIsInserted, TxnParts, tables
  <2> HIDE DEF new
  <2>2. Given' \subseteq Given \cup {new}
    BY <1>01, <1>3, <2>1
  <2>3. \A r \in Given : r.id < nextId
    BY DEF IdsAreUnique
  <2>4. \A r \in Given : r.id \in Nat
    BY DEF Given, Circular
  <2>5. ASSUME NEW r \in Given' PROVE r.id < nextId'
    <3>1. CASE r \in Given
      <4>1. r.id \in Nat /\ r.id < nextId /\ nextId \in Nat
        BY <2>3, <2>4, <3>1
      <4>2. QED
        BY <2>1, <4>1
    <3>2. CASE r = new
      BY <2>1, <3>2
    <3>3. QED
      BY <2>2, <3>1, <3>2
  <2>6. ASSUME NEW r \in Given', NEW s \in Given', r.id = s.id PROVE r = s
    <3>1. CASE r \in Given /\ s \in Given
      BY <2>6, <3>1 DEF IdsAreUnique
    <3>2. CASE r = new \/ s = new
      <4>1. \A t \in Given : t.id # new.id
        BY <2>1, <2>3, <2>4
      <4>2. QED
        BY <2>2, <2>6, <3>2, <4>1
    <3>3. QED
      BY <2>2, <3>1, <3>2
  <2>7. QED
    BY <2>5, <2>6 DEF IdsAreUnique
<1>11. CASE DocumentIsSaved(p)
  <2> DEFINE entry(n, w) == [file |-> Head(todo[p]), id |-> n, by |-> <<p, starts[p]>>, whole |-> w]
  <2>1. PICK n \in Nat : txn[p].row = {entry(n, FALSE)} /\ txn' = [txn EXCEPT ![p].row = {entry(n, TRUE)}]
    BY <1>11 DEF DocumentIsSaved
  <2>2. txn'[p].row = {entry(n, TRUE)} /\ circulars' = circulars /\ nextId' = nextId
    BY <1>11, <2>1 DEF DocumentIsSaved, TxnParts, tables
  <2>3. entry(n, FALSE).id = n /\ entry(n, TRUE).id = n /\ entry(n, FALSE).whole = FALSE
        /\ entry(n, FALSE).by[1] = p
    OBVIOUS
  <2> HIDE DEF entry
  <2>4. entry(n, FALSE) \in Given /\ Given' \subseteq Given \cup {entry(n, TRUE)}
    <3>1. entry(n, FALSE) \in Given
      BY <2>1 DEF Given
    <3>2. Given' \subseteq Given \cup {entry(n, TRUE)}
      BY <1>01, <1>3, <2>2
    <3>3. QED
      BY <3>1, <3>2
  <2>5. ASSUME NEW r \in Given', r # entry(n, TRUE) PROVE r \in Given /\ r.id # n
    <3>1. r \in Given
      BY <2>4, <2>5
    <3>2. SUFFICES ASSUME r = entry(n, FALSE) PROVE FALSE
      BY <2>3, <2>4, <3>1 DEF IdsAreUnique
    <3>3. r \notin circulars
      BY <2>3, <3>2
    <3>4. PICK q \in Processes : r \in txn'[q].row
      BY <2>2, <3>3 DEF Given
    <3>5. q # p
      <4>1. SUFFICES ASSUME q = p PROVE FALSE
        OBVIOUS
      <4>2. r \in {entry(n, TRUE)}
        BY <2>2, <3>4, <4>1
      <4>3. QED
        BY <2>5, <4>2
    <3>6. r \in txn[q].row
      BY <1>0, <3>4, <3>5
    <3>7. r.by[1] = q
      BY <3>6, OwnRow
    <3>8. QED
      BY <2>3, <3>2, <3>5, <3>7
  <2>6. \A r \in Given' : r.id < nextId'
    <3>1. n < nextId
      BY <2>3, <2>4 DEF IdsAreUnique
    <3>2. QED
      BY <2>2, <2>3, <2>5, <3>1 DEF IdsAreUnique
  <2>7. \A r, s \in Given' : r.id = s.id => r = s
    BY <2>3, <2>5 DEF IdsAreUnique
  <2>8. QED
    BY <2>6, <2>7 DEF IdsAreUnique
<1>12. QED
  BY <1>4, <1>5, <1>6, <1>7, <1>8, <1>9, <1>10, <1>11, BatchMoves

\* A row has been reported once it is dealt with, and not before.
LEMMA BatchKept ==
  ASSUME CorpusTyped, StepsOnTrack, RowsInHand, BatchIsAhead, NEW p \in Processes, Moves(p)
  PROVE  BatchIsAhead'
<1> SUFFICES ASSUME Phase(at'[p]) = 1
             PROVE  /\ todo'[p] \in Seq(Files) /\ IsInjective(todo'[p])
                    /\ \A i \in DOMAIN todo'[p], o \in Outcomes : todo'[p][i] \notin report'[p][o]
  BY OthersStand DEF BatchIsAhead
<1> USE DEF CorpusTyped
<1>1. at'[p] \in Ingesting
  <2>1. at'[p] \in Labels
    BY TypedKept
  <2>2. QED
    BY <2>1, Phases DEF Labels, Idle
<1>2. CASE Start(p)
  <2>1. at'[p] = "look" /\ todo'[p] = Items[p]
    BY <1>1, <1>2, Started DEF Start, Ingesting
  <2>2. report'[p] = EmptyReport
    BY <1>2 DEF Start
  <2>3. Items[p] \in Seq(Files) /\ IsInjective(Items[p])
    BY CorpusAssumption DEF CorpusAssumption
  <2>4. QED
    BY <2>1, <2>2, <2>3 DEF EmptyReport
<1>3. ASSUME UNCHANGED <<todo, report>>, at[p] \in Ingesting
      PROVE  /\ todo'[p] \in Seq(Files) /\ IsInjective(todo'[p])
             /\ \A i \in DOMAIN todo'[p], o \in Outcomes : todo'[p][i] \notin report'[p][o]
  BY <1>3, Phases DEF BatchIsAhead
<1>4. ASSUME NEW o1 \in Outcomes, Reported(p, o1), at[p] \in Ingesting, todo[p] # <<>>
      PROVE  /\ todo'[p] \in Seq(Files) /\ IsInjective(todo'[p])
             /\ \A i \in DOMAIN todo'[p], o \in Outcomes : todo'[p][i] \notin report'[p][o]
  <2>1. /\ todo[p] \in Seq(Files) /\ IsInjective(todo[p])
        /\ \A i \in DOMAIN todo[p], o \in Outcomes : todo[p][i] \notin report[p][o]
    BY <1>4, Phases DEF BatchIsAhead
  <2>2. todo'[p] = Tail(todo[p])
    BY <1>4 DEF Reported
  <2>3. \A o \in Outcomes : report'[p][o] \subseteq report[p][o] \cup {Head(todo[p])}
    BY <1>4 DEF Reported
  <2>4. /\ Tail(todo[p]) \in Seq(Files) /\ IsInjective(Tail(todo[p]))
        /\ Head(todo[p]) \notin ToSet(Tail(todo[p]))
        /\ \A i \in DOMAIN Tail(todo[p]) : i + 1 \in DOMAIN todo[p] /\ Tail(todo[p])[i] = todo[p][i + 1]
    BY <1>4, <2>1, HeadAndTail
  <2>5. ASSUME NEW i \in DOMAIN Tail(todo[p]), NEW o \in Outcomes
        PROVE  Tail(todo[p])[i] \notin report'[p][o]
    <3>1. Tail(todo[p])[i] # Head(todo[p])
      BY <2>4 DEF ToSet
    <3>2. Tail(todo[p])[i] \notin report[p][o]
      BY <2>1, <2>4
    <3>3. QED
      BY <2>3, <3>1, <3>2
  <2>6. QED
    BY <2>2, <2>4, <2>5
<1>5. CASE Crash(p)
  BY <1>1, <1>5 DEF Crash, Stop, Ingesting
<1>6. CASE DocumentFails(p)
  BY <1>4, <1>6 DEF DocumentFails, Fails, Outcomes, Ingesting
<1>7. CASE DocumentIsSkipped(p)
  BY <1>4, <1>7 DEF DocumentIsSkipped, Outcomes, Ingesting
<1>8. CASE DocumentPasses(p) \/ DocumentIsInserted(p) \/ DocumentIsSaved(p)
  BY <1>3, <1>8 DEF DocumentPasses, DocumentIsInserted, DocumentIsSaved, Ingesting
<1>9. CASE DocumentIsCommitted(p)
  BY <1>4, <1>9 DEF DocumentIsCommitted, Outcomes, Ingesting
<1>10. CASE BatchEnds(p)
  BY <1>1, <1>10, GoesOn DEF BatchEnds, Stop, Idle, Ingesting
<1>11. CASE ElsewhereGoesOn(p)
  BY <1>1, <1>11 DEF ElsewhereGoesOn
<1>12. QED
  BY <1>2, <1>5, <1>6, <1>7, <1>8, <1>9, <1>10, <1>11, BatchMoves

\* Circulars are only added, by a document's commit.
LEMMA CircularsGrow ==
  ASSUME CorpusTyped, StepsOnTrack, RowsInHand, NEW p \in Processes, Moves(p)
  PROVE  /\ circulars \subseteq circulars'
         /\ circulars' = circulars \/ DocumentIsCommitted(p)
<1>1. circulars' = circulars \/ DocumentIsCommitted(p)
  BY BatchMoves DEF Start, Crash, DocumentFails, DocumentIsSkipped, DocumentPasses, DocumentIsInserted,
                    DocumentIsSaved, BatchEnds, ElsewhereGoesOn, tables
<1>2. circulars \subseteq circulars'
  BY <1>1 DEF DocumentIsCommitted
<1>3. QED
  BY <1>1, <1>2

\* No step takes an embedding away.
LEMMA EmbeddedGrows == ASSUME NEW p \in Processes, Moves(p) PROVE embedded \subseteq embedded'
BY DEF Moves, Start, Crash, Look, LookNumber, Insert, Save, CommitDocument, EndBatch, DeleteAll, CitationsDeleted,
       SupersessionsDeleted, Tabulate, WriteEdges, ReplaceGraph, LookPack, StorePack, SelectRows, EmbedBatch,
       EndEmbed, CountObligations, ExtractCircular, EndExtract, tables

\* No step takes the policy pack away.
LEMMA PackStays == ASSUME NEW p \in Processes, Moves(p), pack PROVE pack'
BY DEF Moves, Start, Crash, Look, LookNumber, Insert, Save, CommitDocument, EndBatch, DeleteAll, CitationsDeleted,
       SupersessionsDeleted, Tabulate, WriteEdges, ReplaceGraph, LookPack, StorePack, SelectRows, EmbedBatch,
       EndEmbed, CountObligations, ExtractCircular, EndExtract, tables

\* A stored circular goes on vouching for a document.
LEMMA VouchersStay ==
  ASSUME circulars \subseteq circulars', NEW f
  PROVE  /\ Like(f) # {} => Like(f)' # {}
         /\ \A r \in circulars : r \in Like(f)' <=> r \in Like(f)
BY DEF Like

\* And for a conflict.
LEMMA TakenStays ==
  ASSUME circulars \subseteq circulars', NEW q, NEW f, IsTaken(q, f)
  PROVE  IsTaken(q, f)'
<1>1. PICK r \in circulars : Doc[r.file].number = Doc[f].number /\ (r \in Like(f) => r.by[1] # q)
  BY DEF IsTaken
<1>2. r \in circulars' /\ (r \in Like(f)' <=> r \in Like(f))
  BY VouchersStay
<1>3. QED
  BY <1>1, <1>2 DEF IsTaken

\* Every step keeps the reports true of the circulars.
LEMMA ReportKept ==
  ASSUME CorpusTyped, StepsOnTrack, RowsInHand, BatchIsAhead, ReportStands, NEW p \in Processes, Moves(p)
  PROVE  ReportStands'
<1>1. (\A r \in circulars : r.whole) /\ \A q \in Processes : ReportOf(q)
  BY DEF ReportStands
<1>2. circulars \subseteq circulars' /\ (circulars' = circulars \/ DocumentIsCommitted(p))
  BY CircularsGrow
<1> USE DEF CorpusTyped
<1>3. ASSUME DocumentIsCommitted(p)
      PROVE  \E entry \in Circular : /\ entry.whole /\ entry.by = <<p, starts[p]>> /\ entry.file = Head(todo[p])
                                   /\ entry.by[1] = p /\ entry.by[2] = starts[p]
                                   /\ circulars' = circulars \cup {entry}
  <2>1. PICK n \in Nat :
          LET entry == [file |-> Head(todo[p]), id |-> n, by |-> <<p, starts[p]>>, whole |-> TRUE]
          IN  txn[p].row = {entry} /\ circulars' = circulars \cup {entry}
    BY <1>3 DEF DocumentIsCommitted
  <2> DEFINE entry == [file |-> Head(todo[p]), id |-> n, by |-> <<p, starts[p]>>, whole |-> TRUE]
  <2>2. entry \in txn[p].row /\ txn[p].row \subseteq Circular
    BY <2>1
  <2>3. entry.whole /\ entry.by = <<p, starts[p]>> /\ entry.file = Head(todo[p])
    OBVIOUS
  <2>4. entry.by[1] = p /\ entry.by[2] = starts[p]
    BY <2>3
  <2>5. QED
    BY <2>1, <2>2, <2>3, <2>4
<1>4. \A r \in circulars' : r.whole
  BY <1>1, <1>2, <1>3
<1>5. ASSUME NEW q \in Processes, report'[q] = report[q], starts'[q] = starts[q],
             circulars' = circulars \/ q # p,
             at'[q] = "number" => /\ todo'[q] = todo[q]
                                  /\ \/ at[q] = "number"
                                     \/ Like(Head(todo[q])) = {} /\ circulars' = circulars
      PROVE  ReportOf(q)'
  <2>1. {s \in circulars' : s.by = <<q, starts[q]>>} = {s \in circulars : s.by = <<q, starts[q]>>}
        /\ \A r \in circulars' : r.by[1] = q => r \in circulars
    <3>1. CASE circulars' = circulars
      BY <3>1
    <3>2. CASE circulars' # circulars
      <4>1. PICK entry \in Circular : entry.by[1] = p /\ circulars' = circulars \cup {entry}
        BY <1>2, <1>3, <3>2
      <4>2. entry.by[1] # q
        BY <1>5, <3>2, <4>1
      <4>3. entry.by # <<q, starts[q]>>
        BY <4>2
      <4>4. QED
        BY <4>1, <4>2, <4>3
    <3>3. QED
      BY <3>1, <3>2
  <2>2. ReportOf(q)
    BY <1>1
  <2>3. \A f \in report[q]["skipped"] : Like(f)' # {}
    BY <1>2, <2>2, VouchersStay DEF ReportOf
  <2>4. \A f \in report[q]["conflicts"] : IsTaken(q, f)'
    BY <1>2, <2>2, TakenStays DEF ReportOf
  <2>5. at'[q] = "number" => \A r \in Like(Head(todo[q]))' : r.by[1] # q
    <3>1. SUFFICES ASSUME at'[q] = "number", NEW r \in Like(Head(todo[q]))' PROVE r.by[1] # q
      OBVIOUS
    <3>2. SUFFICES ASSUME r.by[1] = q PROVE FALSE
      OBVIOUS
    <3>3. r \in circulars /\ todo'[q] = todo[q]
      BY <1>5, <2>1, <3>1, <3>2 DEF Like
    <3>4. r \in Like(Head(todo[q]))
      BY <3>1, <3>3 DEF Like
    <3>5. at[q] = "number"
      BY <1>5, <3>1, <3>4
    <3>6. QED
      BY <2>2, <3>2, <3>4, <3>5 DEF ReportOf
  <2>6. QED
    BY <1>5, <2>1, <2>2, <2>3, <2>4, <2>5 DEF ReportOf
<1>6. ASSUME NEW o \in Outcomes, Reported(p, o), at[p] \in Ingesting, todo[p] # <<>>, starts'[p] = starts[p],
             o = "ingested" => DocumentIsCommitted(p),
             o # "ingested" => circulars' = circulars,
             o = "skipped" => Like(Head(todo[p])) # {},
             o = "conflicts" => /\ at[p] = "number"
                                /\ \E r \in circulars : Doc[r.file].number = Doc[Head(todo[p])].number,
             at'[p] # "number"
      PROVE  ReportOf(p)'
  <2> DEFINE f == Head(todo[p])
  <2>1. ReportOf(p) /\ \A o1 \in Outcomes : f \notin report[p][o1]
    BY <1>1, <1>6, HeadOfBatch
  <2>2. \A o1 \in Outcomes : report'[p][o1] = IF o1 = o THEN report[p][o1] \cup {f} ELSE report[p][o1]
    BY <1>6 DEF Reported
  <2>3. "ingested" \in Outcomes /\ "skipped" \in Outcomes /\ "conflicts" \in Outcomes /\ "failed" \in Outcomes
    BY DEF Outcomes
  <2> HIDE DEF f
  <2>4. \A o1, o2 \in Outcomes : o1 # o2 => report'[p][o1] \cap report'[p][o2] = {}
    <3> SUFFICES ASSUME NEW o1 \in Outcomes, NEW o2 \in Outcomes, o1 # o2
                 PROVE  report'[p][o1] \cap report'[p][o2] = {}
      OBVIOUS
    <3>1. report[p][o1] \cap report[p][o2] = {} /\ f \notin report[p][o1] /\ f \notin report[p][o2]
      BY <2>1 DEF ReportOf
    <3>2. QED
      BY <2>2, <3>1
  <2>5. /\ \A r \in circulars' : r.by[1] = p => r.by[2] <= starts[p]
        /\ report'[p]["ingested"] = {r.file : r \in {s \in circulars' : s.by = <<p, starts[p]>>}}
    <3>1. CASE o = "ingested"
      <4>1. PICK entry \in Circular : /\ entry.by = <<p, starts[p]>> /\ entry.file = f
                                    /\ entry.by[1] = p /\ entry.by[2] = starts[p]
                                    /\ circulars' = circulars \cup {entry}
        BY <1>3, <1>6, <3>1 DEF f
      <4>2. {s \in circulars' : s.by = <<p, starts[p]>>} = {s \in circulars : s.by = <<p, starts[p]>>} \cup {entry}
        BY <4>1
      <4>3. report'[p]["ingested"] = report[p]["ingested"] \cup {f}
        BY <2>2, <2>3, <3>1
      <4>4. report'[p]["ingested"] = {r.file : r \in {s \in circulars' : s.by = <<p, starts[p]>>}}
        BY <2>1, <4>1, <4>2, <4>3 DEF ReportOf
      <4>5. starts[p] \in Nat
        OBVIOUS
      <4>6. \A r \in circulars' : r.by[1] = p => r.by[2] <= starts[p]
        BY <2>1, <4>1, <4>5 DEF ReportOf
      <4>7. QED
        BY <4>4, <4>6
    <3>2. CASE o # "ingested"
      <4>1. report'[p]["ingested"] = report[p]["ingested"] /\ circulars' = circulars
        BY <1>6, <2>2, <2>3, <3>2
      <4>2. QED
        BY <2>1, <4>1 DEF ReportOf
    <3>3. QED
      BY <3>1, <3>2
  <2>6. \A g \in report'[p]["skipped"] : Like(g)' # {}
    <3>1. ASSUME NEW g \in report'[p]["skipped"] PROVE Like(g) # {}
      <4>1. g \in report[p]["skipped"] \/ (o = "skipped" /\ g = f)
        BY <2>2, <2>3
      <4>2. CASE g \in report[p]["skipped"]
        BY <2>1, <4>2 DEF ReportOf
      <4>3. CASE o = "skipped" /\ g = f
        BY <1>6, <4>3 DEF f
      <4>4. QED
        BY <4>1, <4>2, <4>3
    <3>2. QED
      BY <1>2, <3>1, VouchersStay
  <2>7. \A g \in report'[p]["conflicts"] : IsTaken(p, g)'
    <3>1. ASSUME NEW g \in report'[p]["conflicts"] PROVE IsTaken(p, g)
      <4>1. g \in report[p]["conflicts"] \/ (o = "conflicts" /\ g = f)
        BY <2>2, <2>3
      <4>2. CASE g \in report[p]["conflicts"]
        BY <2>1, <4>2 DEF ReportOf
      <4>3. CASE o = "conflicts" /\ g = f
        <5>1. \A r \in Like(f) : r.by[1] # p
          BY <1>6, <2>1, <4>3 DEF ReportOf, f
        <5>2. \E r \in circulars : Doc[r.file].number = Doc[f].number
          BY <1>6, <4>3 DEF f
        <5>3. QED
          BY <4>3, <5>1, <5>2 DEF IsTaken
      <4>4. QED
        BY <4>1, <4>2, <4>3
    <3>2. QED
      BY <1>2, <3>1, TakenStays
  <2>8. QED
    BY <1>6, <2>4, <2>5, <2>6, <2>7 DEF ReportOf
<1>7. \A q \in Processes \ {p} : ReportOf(q)'
  BY <1>5, OthersStand
<1>8. ReportOf(p)'
  <2> USE DEF Outcomes, Ingesting
  <2>1. CASE Start(p)
    <3>1. circulars' = circulars /\ starts'[p] = starts[p] + 1 /\ starts[p] \in Nat
          /\ \A o \in Outcomes : report'[p][o] = {}
      BY <2>1 DEF Start, tables, EmptyReport
    <3>2. \A r \in circulars : r.by[1] = p => r.by[2] \in Nat /\ r.by[2] <= starts[p]
      BY <1>1 DEF ReportOf, Circular
    <3>3. \A r \in circulars : r.by # <<p, starts'[p]>>
      <4> SUFFICES ASSUME NEW r \in circulars, r.by = <<p, starts'[p]>> PROVE FALSE
        OBVIOUS
      <4>1. r.by[1] = p /\ r.by[2] = starts'[p]
        OBVIOUS
      <4>2. starts'[p] <= starts[p]
        BY <3>2, <4>1
      <4>3. QED
        BY <3>1, <4>2
    <3>4. \A r \in circulars : r.by[1] = p => r.by[2] <= starts'[p]
      BY <3>1, <3>2
    <3>5. at'[p] # "number"
      BY <2>1, Started DEF Start
    <3>6. QED
      BY <3>1, <3>3, <3>4, <3>5 DEF ReportOf
  <2>2. CASE Crash(p)
    BY <1>5, <2>2 DEF Crash, Stop, tables
  <2>3. CASE DocumentFails(p)
    <3>1. /\ starts' = starts /\ circulars' = circulars /\ at[p] \in Ingesting /\ todo[p] # <<>>
          /\ at'[p] = "look"
      BY <2>3 DEF DocumentFails, Fails, Goto, tables
    <3>2. CASE Fails(p, "failed")
      BY <1>6, <3>1, <3>2 DEF Fails
    <3>3. CASE /\ Fails(p, "conflicts") /\ at[p] = "number"
               /\ \E r \in circulars : Doc[r.file].number = Doc[Head(todo[p])].number
      BY <1>6, <3>1, <3>3 DEF Fails
    <3>4. QED
      BY <2>3, <3>2, <3>3 DEF DocumentFails
  <2>4. CASE DocumentIsSkipped(p)
    BY <1>6, <2>4 DEF DocumentIsSkipped, tables
  <2>5. CASE DocumentPasses(p) \/ DocumentIsInserted(p) \/ DocumentIsSaved(p) \/ BatchEnds(p)
    <3>1. at'[p] = "number" => todo'[p] = todo[p] /\ Like(Head(todo[p])) = {}
      BY <2>5, GoesOn DEF DocumentPasses, DocumentIsInserted, DocumentIsSaved, BatchEnds, Goto, Stop, Idle
    <3>2. report'[p] = report[p] /\ starts'[p] = starts[p] /\ circulars' = circulars
      BY <2>5 DEF DocumentPasses, DocumentIsInserted, DocumentIsSaved, BatchEnds, tables
    <3>3. QED
      BY <1>5, <3>1, <3>2
  <2>6. CASE DocumentIsCommitted(p)
    BY <1>6, <2>6 DEF DocumentIsCommitted, Goto
  <2>7. CASE ElsewhereGoesOn(p)
    BY <1>5, <2>7 DEF ElsewhereGoesOn
  <2>8. QED
    BY <2>1, <2>2, <2>3, <2>4, <2>5, <2>6, <2>7, BatchMoves
<1>9. QED
  BY <1>4, <1>7, <1>8 DEF ReportStands

-----------------------------------------------------------------------------
(* The steps of a rebuild.                                                  *)

\* No step of a rebuild, unless it ends one.
GraphRests(p) ==
  /\ UNCHANGED <<citations, supersessions>>
  /\ at'[p] \notin {"citations", "supersessions", "tabulate", "list", "replace"}
  /\ lookup'[p] = lookup[p] \/ lookup'[p] = {}
  /\ \/ /\ txn'[p].goneC = txn[p].goneC /\ txn'[p].goneS = txn[p].goneS
        /\ txn'[p].newC = txn[p].newC /\ txn'[p].newS = txn[p].newS
     \/ txn'[p].goneC = {} /\ txn'[p].goneS = {} /\ txn'[p].newC = {} /\ txn'[p].newS = {}
  /\ \A q \in Processes \ {p} : alone'[q] = alone[q]

\* A step is one of a rebuild, or leaves the graph alone.
LEMMA GraphMoves ==
  ASSUME CorpusTyped, StepsOnTrack, RowsInHand, NEW p \in Processes, Moves(p)
  PROVE  \/ DeleteAll(p) \/ CitationsDeleted(p) \/ SupersessionsDeleted(p) \/ Tabulate(p)
         \/ WriteEdges(p) \/ ReplaceGraph(p) \/ GraphRests(p)
<1> USE DEF CorpusTyped
<1>1. CASE Start(p)
  <2>1. at'[p] \in {"look", "forget", "index", "select", "count"}
    BY <1>1, Started DEF Start
  <2>2. QED
    BY <1>1, <2>1 DEF Start, tables, GraphRests
<1>2. CASE Crash(p)
  BY <1>2, EmptyTxnTyped DEF Crash, Stop, RolledBack, Forget, tables, GraphRests
<1>3. CASE DocumentFails(p)
  <2>1. UNCHANGED <<citations, supersessions, lookup, alone>> /\ at'[p] = "look" /\ txn'[p] = EmptyTxn
    BY <1>3 DEF DocumentFails, Fails, RolledBack, Goto, tables
  <2>2. QED
    BY <2>1, EmptyTxnTyped DEF GraphRests
<1>4. CASE DocumentIsSkipped(p) \/ DocumentPasses(p)
  BY <1>4 DEF DocumentIsSkipped, DocumentPasses, Goto, tables, GraphRests
<1>5. CASE DocumentIsInserted(p)
  BY <1>5 DEF DocumentIsInserted, Goto, tables, GraphRests, TxnParts
<1>6. CASE DocumentIsSaved(p)
  BY <1>6 DEF DocumentIsSaved, Goto, tables, GraphRests, TxnParts
<1>7. CASE DocumentIsCommitted(p)
  BY <1>7, EmptyTxnTyped DEF DocumentIsCommitted, Goto, GraphRests
<1>8. ASSUME NextModule(p) \/ Stop(p), at[p] \notin Idle
      PROVE  at'[p] \notin {"citations", "supersessions", "tabulate", "list", "replace"}
  BY <1>8, GoesOn DEF Stop
<1>9. CASE BatchEnds(p)
  BY <1>8, <1>9 DEF BatchEnds, Idle, tables, GraphRests
<1>10. CASE \/ LookPack(p) \/ StorePack(p) \/ SelectRows(p) \/ EmbedBatch(p) \/ EndEmbed(p) \/ CountObligations(p)
            \/ ExtractCircular(p) \/ EndExtract(p)
  <2>1. /\ UNCHANGED <<citations, supersessions, txn, lookup, alone>>
        /\ at[p] \in {"index", "packing", "select", "embed", "count", "extract"}
    BY <1>10 DEF LookPack, StorePack, SelectRows, EmbedBatch, EndEmbed, CountObligations, ExtractCircular,
                 EndExtract, tables
  <2>2. at[p] \notin Idle
    BY <2>1 DEF Idle
  <2>3. at'[p] \notin {"citations", "supersessions", "tabulate", "list", "replace"}
    BY <1>8, <1>10, <2>1, <2>2 DEF LookPack, StorePack, SelectRows, EmbedBatch, EndEmbed, CountObligations,
                                   ExtractCircular, EndExtract, Goto
  <2>4. QED
    BY <2>1, <2>3 DEF GraphRests
<1>11. CASE ElsewhereGoesOn(p)
  <2>1. \/ DeleteAll(p) \/ CitationsDeleted(p) \/ SupersessionsDeleted(p) \/ Tabulate(p)
        \/ WriteEdges(p) \/ ReplaceGraph(p)
        \/ LookPack(p) \/ StorePack(p) \/ SelectRows(p) \/ EmbedBatch(p) \/ EndEmbed(p) \/ CountObligations(p)
        \/ ExtractCircular(p) \/ EndExtract(p) \/ Start(p) \/ Crash(p)
    BY <1>11 DEF ElsewhereGoesOn, Moves, Look, LookNumber, Insert, Save, CommitDocument, EndBatch, Ingesting
  <2>2. QED
    BY <1>1, <1>2, <1>10, <2>1
<1>12. QED
  BY <1>1, <1>2, <1>3, <1>4, <1>5, <1>6, <1>7, <1>9, <1>11, BatchMoves

\* Stored circulars have ids of their own.
LEMMA RowsOfCirculars ==
  ASSUME CorpusTyped, IdsAreUnique, NEW rows \in SUBSET circulars
  PROVE  AreRows(rows)
BY DEF CorpusTyped, IdsAreUnique, Given, AreRows

\* What was stored stays stored, and a rebuild under way stays as it is.
LEMMA GraphOfOther ==
  ASSUME circulars \subseteq circulars', NEW q \in Processes, GraphOf(q),
         at'[q] = at[q], txn'[q] = txn[q], seen'[q] = seen[q], lookup'[q] = lookup[q]
  PROVE  GraphOf(q)'
<1>1. \A f : f \in Stored => f \in Stored'
  BY DEF Stored
<1>2. lookup[q] = circulars' => circulars' = circulars
  BY DEF GraphOf
<1>3. ASSUME at[q] = "replace", lookup[q] = circulars'
      PROVE  {x[3] : x \in txn[q].newC} = Citations(circulars', circulars')
  BY <1>2, <1>3 DEF GraphOf
<1>4. /\ lookup'[q] \subseteq circulars'
      /\ at'[q] = "citations" => \A x \in seen'[q] : x[3].from \in Stored'
      /\ \A x \in txn'[q].goneC : x[3].from \in Stored'
      /\ \A x \in txn'[q].newC : x[3].from \in Stored'
  BY <1>1 DEF GraphOf
<1>5. (\A x \in txn[q].newS : IsStamped(x))'
  BY DEF GraphOf, IsStamped
<1>6. (at[q] = "replace" => \A x \in txn[q].goneC : IsLinked(x[3].from, txn[q].newC))'
  BY DEF GraphOf, IsLinked, OwnReference
<1>7. (at[q] = "replace" => NoDuplicates(txn[q].newC) /\ NoDuplicates(txn[q].newS))'
  BY DEF GraphOf, NoDuplicates
<1>8. QED
  BY <1>3, <1>4, <1>5, <1>6, <1>7 DEF GraphOf

\* Every step keeps the graph among the stored circulars.
LEMMA GraphKept ==
  ASSUME CorpusTyped, IdsAreUnique, StepsOnTrack, RowsInHand, ReportStands, GraphFollowsCorpus,
         NEW p \in Processes, Moves(p)
  PROVE  GraphFollowsCorpus'
<1>1. circulars \subseteq circulars' /\ \A f : f \in Stored => f \in Stored'
  <2>1. circulars \subseteq circulars'
    BY CircularsGrow
  <2>2. QED
    BY <2>1 DEF Stored
<1>2. \A q \in Processes \ {p} : GraphOf(q)'
  <2> SUFFICES ASSUME NEW q \in Processes \ {p} PROVE GraphOf(q)'
    OBVIOUS
  <2>1. at'[q] = at[q] /\ txn'[q] = txn[q] /\ seen'[q] = seen[q] /\ lookup'[q] = lookup[q]
    BY OthersStand
  <2>2. QED
    BY <1>1, <2>1, GraphOfOther DEF GraphFollowsCorpus
<1>3. GraphOf(p)
  BY DEF GraphFollowsCorpus
<1>4. SUFFICES /\ \A x \in citations' : x[3].from \in Stored'
               /\ \A x \in supersessions' : IsStamped(x)
               /\ GraphOf(p)'
  BY <1>2 DEF GraphFollowsCorpus
<1> USE DEF CorpusTyped, Goto
<1>5. ASSUME UNCHANGED <<citations, supersessions>>
      PROVE  /\ \A x \in citations' : x[3].from \in Stored'
             /\ \A x \in supersessions' : IsStamped(x)
  BY <1>1, <1>5 DEF GraphFollowsCorpus
<1>6. CASE GraphRests(p)
  <2>1. GraphOf(p)'
    BY <1>1, <1>3, <1>6 DEF GraphRests, GraphOf
  <2>2. QED
    BY <1>5, <1>6, <2>1 DEF GraphRests
<1>7. CASE DeleteAll(p)
  <2>1. at'[p] = "citations" /\ seen'[p] = citations /\ UNCHANGED <<tables, lookup, txn>>
    BY <1>7 DEF DeleteAll
  <2>2. \A x \in citations : x[3].from \in Stored
    BY DEF GraphFollowsCorpus
  <2>3. GraphOf(p)'
    BY <1>1, <1>3, <2>1, <2>2 DEF GraphOf, tables
  <2>4. QED
    BY <1>5, <2>1, <2>3 DEF tables
<1>8. CASE CitationsDeleted(p)
  <2>1. /\ at'[p] = "supersessions" /\ UNCHANGED <<tables, lookup>>
        /\ txn'[p].goneC \subseteq citations
        /\ txn'[p].newC = txn[p].newC /\ txn'[p].newS = txn[p].newS
    BY <1>8 DEF CitationsDeleted, Deleted, TxnParts
  <2>2. \A x \in citations : x[3].from \in Stored
    BY DEF GraphFollowsCorpus
  <2>3. GraphOf(p)'
    BY <1>1, <1>3, <2>1, <2>2 DEF GraphOf, tables
  <2>4. QED
    BY <1>5, <2>1, <2>3 DEF tables
<1>9. CASE SupersessionsDeleted(p)
  <2>1. /\ at'[p] = "tabulate" /\ UNCHANGED <<tables, lookup>>
        /\ txn'[p].goneC = txn[p].goneC /\ txn'[p].newC = txn[p].newC /\ txn'[p].newS = txn[p].newS
    BY <1>9 DEF SupersessionsDeleted, TxnParts
  <2>2. GraphOf(p)'
    BY <1>1, <1>3, <2>1 DEF GraphOf, tables
  <2>3. QED
    BY <1>5, <2>1, <2>2 DEF tables
<1>10. CASE Tabulate(p)
  <2>1. at'[p] = "list" /\ lookup'[p] = circulars /\ UNCHANGED <<tables, txn>>
    BY <1>10 DEF Tabulate
  <2>2. GraphOf(p)'
    BY <1>1, <1>3, <2>1 DEF GraphOf, tables
  <2>3. QED
    BY <1>5, <2>1, <2>2 DEF tables
<1>11. CASE WriteEdges(p)
  <2> DEFINE newC == Tagged(p, starts[p], Citations(circulars, lookup[p]))
             newS == Tagged(p, starts[p], Supersessions(circulars, lookup[p]))
  <2>1. /\ at'[p] = "replace" /\ UNCHANGED <<tables, lookup>>
        /\ txn'[p].newC = newC /\ txn'[p].newS = newS /\ txn'[p].goneC = txn[p].goneC
    BY <1>11 DEF WriteEdges, TxnParts, Tagged
  <2>2. AreRows(lookup[p]) /\ circulars \subseteq Circular /\ \A r \in circulars : r.whole
    BY <1>3, RowsOfCirculars DEF GraphOf, ReportStands
  <2>3. \A x \in newC : x[3].from \in Stored
    <3>1. \A c \in Citations(circulars, lookup[p]) : c.from \in Stored
      <4>1. \A c \in Citations(circulars, lookup[p]) : \E r \in circulars : c.from = r.file
        BY EdgesOfListed, Zenon
      <4>2. QED
        BY <4>1 DEF Stored
    <3>2. \A x \in newC : x[3] \in Citations(circulars, lookup[p])
      BY TaggedRows
    <3>3. QED
      BY <3>1, <3>2
  <2>4. \A x \in newS : IsStamped(x)
    <3>1. ASSUME NEW s \in Supersessions(circulars, lookup[p])
          PROVE  s.cite.from \in Files /\ s.effective = Doc[s.cite.from].date
      BY <2>2, EdgesOfListed DEF Circular
    <3>2. \A x \in newS : x[3] \in Supersessions(circulars, lookup[p])
      BY TaggedRows
    <3>3. QED
      BY <3>1, <3>2 DEF IsStamped
  <2>5. NoDuplicates(newC) /\ NoDuplicates(newS)
    BY TaggedRows
  <2>6. {x[3] : x \in newC} = Citations(circulars, lookup[p])
    BY TaggedRows
  <2>7. \A x \in txn[p].goneC : IsLinked(x[3].from, newC)
    <3> SUFFICES ASSUME NEW x \in txn[p].goneC PROVE IsLinked(x[3].from, newC)
      OBVIOUS
    <3>1. PICK r \in circulars : r.file = x[3].from
      BY <1>3 DEF GraphOf, Stored
    <3>2. IsLinked(r.file, newC)
      <4> HIDE DEF CorpusTyped, Goto
      <4>1. QED
        BY <2>2, ListedIsLinked
    <3>3. QED
      BY <3>1, <3>2
  <2> HIDE DEF newC, newS
  <2>8. GraphOf(p)'
    <3>1. circulars' = circulars /\ lookup' = lookup
      BY <2>1 DEF tables
    <3>2. lookup[p] = circulars => {x[3] : x \in newC} = Citations(circulars, circulars)
      BY <2>6
    <3>3. \A f : f \in Stored' <=> f \in Stored
      BY <3>1 DEF Stored
    <3>4. \A x \in txn[p].goneC : x[3].from \in Stored
      BY <1>3 DEF GraphOf
    <3>5. lookup[p] \subseteq circulars
      BY <1>3 DEF GraphOf
    <3>6. QED
      BY <2>1, <2>3, <2>4, <2>5, <2>7, <3>1, <3>2, <3>3, <3>4, <3>5 DEF GraphOf
  <2>9. QED
    BY <1>5, <2>1, <2>8 DEF tables
<1>12. CASE ReplaceGraph(p)
  <2>1. /\ citations' = (citations \ txn[p].goneC) \cup txn[p].newC
        /\ supersessions' = (supersessions \ txn[p].goneS) \cup txn[p].newS
        /\ txn'[p] = EmptyTxn /\ lookup'[p] = {} /\ at[p] = "replace" /\ NextModule(p)
    BY <1>12 DEF ReplaceGraph, Forget
  <2>2. \A x \in citations \cup txn[p].newC : x[3].from \in Stored
    BY <1>3 DEF GraphFollowsCorpus, GraphOf
  <2>3. \A x \in supersessions \cup txn[p].newS : IsStamped(x)
    BY <1>3 DEF GraphFollowsCorpus, GraphOf
  <2>4. at'[p] \in {"forget", "index", "select", "count", "done"}
    BY <2>1, GoesOn DEF Idle
  <2>5. GraphOf(p)'
    BY <2>1, <2>4, EmptyTxnTyped DEF GraphOf
  <2>6. QED
    BY <1>1, <2>1, <2>2, <2>3, <2>5
<1>13. QED
  BY <1>6, <1>7, <1>8, <1>9, <1>10, <1>11, <1>12, GraphMoves

\* A rebuild that was not overlapped stays so until another begins.
LEMMA AloneKept ==
  ASSUME CorpusTyped, StepsOnTrack, RowsInHand, AloneDeletesAll, NEW p \in Processes, Moves(p)
  PROVE  AloneDeletesAll'
<1>1. \A q \in Processes \ {p} : /\ at'[q] = at[q] /\ txn'[q] = txn[q] /\ seen'[q] = seen[q]
                                 /\ Rebuilding(q)' = Rebuilding(q)
  BY OthersStand DEF Rebuilding
<1>2. \A q \in Processes : AloneOf(q)
  BY DEF AloneDeletesAll
<1> USE DEF CorpusTyped
<1>3. CASE GraphRests(p)
  <2>1. ~Rebuilding(p)'
    BY <1>3 DEF GraphRests, Rebuilding
  <2>2. ASSUME NEW q \in Processes \ {p} PROVE AloneOf(q)'
    <3>1. UNCHANGED <<citations, supersessions>> /\ alone'[q] = alone[q]
      BY <1>3 DEF GraphRests
    <3>2. QED
      BY <1>1, <1>2, <2>1, <3>1 DEF AloneOf
  <2>3. AloneOf(p)'
    BY <2>1 DEF AloneOf
  <2>4. QED
    BY <2>2, <2>3 DEF AloneDeletesAll
<1>4. CASE DeleteAll(p)
  <2>1. /\ at'[p] = "citations" /\ seen'[p] = citations /\ citations' = citations
        /\ alone'[p] => \A o \in Processes \ {p} : ~Rebuilding(o)
        /\ \A q \in Processes \ {p} : alone'[q] => ~Rebuilding(q)
    BY <1>4 DEF DeleteAll, Goto, tables
  <2>2. ASSUME NEW q \in Processes \ {p} PROVE AloneOf(q)'
    BY <1>1, <2>1 DEF AloneOf
  <2>3. AloneOf(p)'
    BY <1>1, <2>1 DEF AloneOf
  <2>4. QED
    BY <2>2, <2>3 DEF AloneDeletesAll
<1>5. ASSUME Rebuilding(p), \A q \in Processes \ {p} : alone'[q] = alone[q]
      PROVE  \A q \in Processes \ {p} : AloneOf(q)'
  <2> SUFFICES ASSUME NEW q \in Processes \ {p}, Rebuilding(q)', alone'[q] PROVE FALSE
    BY DEF AloneOf
  <2>1. Rebuilding(q) /\ alone[q]
    BY <1>1, <1>5
  <2>2. QED
    BY <1>2, <1>5, <2>1 DEF AloneOf
<1>6. ASSUME Rebuilding(p), alone'[p] = alone[p], UNCHANGED <<citations, supersessions>>
      PROVE  AloneOf(p) /\ (alone'[p] => \A q \in Processes \ {p} : ~Rebuilding(q)')
  BY <1>1, <1>2, <1>6 DEF AloneOf
<1>7. CASE CitationsDeleted(p)
  <2>1. /\ at[p] = "citations" /\ at'[p] = "supersessions" /\ UNCHANGED <<citations, supersessions, alone>>
        /\ txn'[p].goneC = seen[p] \cap citations /\ seen'[p] = supersessions
    BY <1>7 DEF CitationsDeleted, Deleted, Goto, tables, TxnParts
  <2>2. Rebuilding(p)
    BY <2>1 DEF Rebuilding
  <2>3. AloneOf(p)'
    BY <1>6, <2>1, <2>2 DEF AloneOf
  <2>4. QED
    BY <1>5, <2>1, <2>2, <2>3 DEF AloneDeletesAll
<1>8. CASE SupersessionsDeleted(p)
  <2>1. /\ at[p] = "supersessions" /\ at'[p] = "tabulate" /\ UNCHANGED <<citations, supersessions, alone>>
        /\ txn'[p].goneS = seen[p] \cap supersessions /\ txn'[p].goneC = txn[p].goneC
    BY <1>8 DEF SupersessionsDeleted, Deleted, Goto, tables, TxnParts
  <2>2. Rebuilding(p)
    BY <2>1 DEF Rebuilding
  <2>3. AloneOf(p)'
    BY <1>6, <2>1, <2>2 DEF AloneOf
  <2>4. QED
    BY <1>5, <2>1, <2>2, <2>3 DEF AloneDeletesAll
<1>9. CASE Tabulate(p) \/ WriteEdges(p)
  <2>1. /\ at[p] \in {"tabulate", "list"} /\ at'[p] \in {"list", "replace"}
        /\ UNCHANGED <<citations, supersessions, alone>>
        /\ txn'[p].goneS = txn[p].goneS /\ txn'[p].goneC = txn[p].goneC
    <3>1. CASE Tabulate(p)
      BY <3>1 DEF Tabulate, Goto, tables
    <3>2. CASE WriteEdges(p)
      BY <3>2 DEF WriteEdges, Goto, tables, TxnParts
    <3>3. QED
      BY <1>9, <3>1, <3>2
  <2>2. Rebuilding(p)
    BY <2>1 DEF Rebuilding
  <2>3. AloneOf(p)'
    BY <1>6, <2>1, <2>2 DEF AloneOf
  <2>4. QED
    BY <1>5, <2>1, <2>2, <2>3 DEF AloneDeletesAll
<1>10. CASE ReplaceGraph(p)
  <2>1. at[p] = "replace" /\ NextModule(p) /\ \A q \in Processes \ {p} : alone'[q] = alone[q]
    BY <1>10 DEF ReplaceGraph, Forget
  <2>2. Rebuilding(p) /\ at'[p] \in {"forget", "index", "select", "count", "done"}
    BY <2>1, GoesOn DEF Rebuilding, Idle
  <2>3. AloneOf(p)'
    BY <2>2 DEF AloneOf, Rebuilding
  <2>4. QED
    BY <1>5, <2>1, <2>2, <2>3 DEF AloneDeletesAll
<1>11. QED
  BY <1>3, <1>4, <1>7, <1>8, <1>9, <1>10, GraphMoves

-----------------------------------------------------------------------------
(* The seed.                                                                *)

\* A rebuild takes no reference of a circular away without writing it anew.
LEMMA LinksStay ==
  ASSUME CorpusTyped, StepsOnTrack, RowsInHand, GraphFollowsCorpus, NEW p \in Processes, Moves(p),
         NEW f, IsLinked(f, citations)
  PROVE  IsLinked(f, citations')
<1>1. CASE citations' = citations
  BY <1>1
<1>2. CASE ReplaceGraph(p)
  <2>1. /\ citations' = (citations \ txn[p].goneC) \cup txn[p].newC
        /\ \A x \in txn[p].goneC : IsLinked(x[3].from, txn[p].newC)
    BY <1>2 DEF ReplaceGraph, GraphFollowsCorpus, GraphOf
  <2> SUFFICES ASSUME NEW n \in DOMAIN Doc[f].paras, NEW m \in DOMAIN Doc[f].paras[n].refs,
                      ~ OwnReference(f, n, m)
               PROVE  \E x \in citations' : x[3].from = f /\ x[3].para = n /\ x[3].ref = m
    BY DEF IsLinked
  <2>2. PICK x \in citations : x[3].from = f /\ x[3].para = n /\ x[3].ref = m
    BY DEF IsLinked
  <2>3. CASE x \in txn[p].goneC
    <3>1. IsLinked(f, txn[p].newC)
      BY <2>1, <2>2, <2>3
    <3>2. \E y \in txn[p].newC : y[3].from = f /\ y[3].para = n /\ y[3].ref = m
      BY <3>1 DEF IsLinked
    <3>3. QED
      BY <2>1, <3>2
  <2>4. CASE x \notin txn[p].goneC
    BY <2>1, <2>2, <2>4
  <2>5. QED
    BY <2>3, <2>4
<1>3. citations' = citations \/ ReplaceGraph(p)
  BY GraphMoves DEF GraphRests, DeleteAll, CitationsDeleted, SupersessionsDeleted, Tabulate, WriteEdges, tables
<1>4. QED
  BY <1>1, <1>2, <1>3

\* What one process has reached, the others do not undo.
LEMMA SeedOfOther ==
  ASSUME circulars \subseteq circulars', embedded \subseteq embedded', pack => pack',
         \A f : IsLinked(f, citations) => IsLinked(f, citations'),
         NEW q \in Processes, SeedOf(q),
         at'[q] = at[q], steps'[q] = steps[q], todo'[q] = todo[q], txn'[q] = txn[q], report'[q] = report[q]
  PROVE  SeedOf(q)'
<1> SUFFICES ASSUME Jobs[q] = {SeedSteps}, Phase(at[q]) # 0
             PROVE  /\ IsRest(steps[q])
                    /\ Phase(at[q]) = 1 => CorpusIsAhead(q)'
                    /\ Phase(at[q]) > 1 => CorpusHasReached(q)' /\ PackHasReached(q)'
                    /\ at[q] = "embed" => todo[q] \in Seq(Files)
  BY DEF SeedOf
<1>1. CorpusIsAhead(q) => CorpusIsAhead(q)'
  BY DEF CorpusIsAhead
<1>2. PackHasReached(q) => PackHasReached(q)'
  BY DEF PackHasReached
<1>3. \A f : Like(f) \subseteq Like(f)'
  BY DEF Like
<1>4. \A file : HasReached(q, file) => HasReached(q, file)'
  BY DEF HasReached
<1>5. CorpusHasReached(q) => CorpusHasReached(q)'
  BY <1>3, <1>4 DEF CorpusHasReached
<1>6. QED
  BY <1>1, <1>2, <1>5 DEF SeedOf

\* The corpus has got further when each stored circular that had has.
LEMMA CorpusGetsOn ==
  ASSUME NEW p \in Processes, circulars \subseteq circulars', CorpusHasReached(p),
         \A r \in circulars : HasReached(p, r.file) => HasReached(p, r.file)'
  PROVE  CorpusHasReached(p)'
<1>1. \A f : Like(f) \subseteq Like(f)' /\ Like(f) \subseteq circulars
  BY DEF Like
<1>2. QED
  BY <1>1 DEF CorpusHasReached

\* A batch that reports no failure has left every document of the corpus stored.
LEMMA BatchIsStored ==
  ASSUME NEW p \in Processes, CorpusIsAhead(p), ReportOf(p), todo[p] = <<>>,
         report[p]["failed"] \cup report[p]["conflicts"] = {}
  PROVE  \A i \in DOMAIN Items[p] : Like(Items[p][i]) # {}
<1> SUFFICES ASSUME NEW i \in DOMAIN Items[p] PROVE Like(Items[p][i]) # {}
  OBVIOUS
<1>1. ToSet(<<>>) = {}
  BY DEF ToSet
<1>2. Items[p][i] \in report[p]["ingested"] \/ Items[p][i] \in report[p]["skipped"]
  BY <1>1 DEF CorpusIsAhead, Outcomes
<1>3. CASE Items[p][i] \in report[p]["ingested"]
  BY <1>3 DEF ReportOf, Like
<1>4. CASE Items[p][i] \in report[p]["skipped"]
  BY <1>4 DEF ReportOf
<1>5. QED
  BY <1>2, <1>3, <1>4

\* A step of p between the beginning and the end of one of its modules.
LEMMA SeedOfBatch ==
  ASSUME CorpusTyped, StepsOnTrack, RowsInHand, BatchIsAhead, ReportStands, SeedGoesOn,
         NEW p \in Processes, Moves(p), Jobs[p] = {SeedSteps}, at[p] \in Ingesting,
         DocumentFails(p) \/ DocumentIsSkipped(p) \/ DocumentPasses(p)
         \/ DocumentIsInserted(p) \/ DocumentIsSaved(p) \/ DocumentIsCommitted(p)
  PROVE  /\ at'[p] \in Ingesting /\ steps'[p] = steps[p]
         /\ CorpusIsAhead(p)'
<1> USE DEF CorpusTyped
<1>1. CorpusIsAhead(p)
  <2>1. SeedOf(p) /\ Phase(at[p]) = 1
    BY Phases DEF SeedGoesOn
  <2>2. QED
    BY <2>1 DEF SeedOf
<1>2. at'[p] \in Ingesting /\ steps'[p] = steps[p]
  BY DEF DocumentFails, Fails, DocumentIsSkipped, DocumentPasses, DocumentIsInserted, DocumentIsSaved,
         DocumentIsCommitted, Goto, Ingesting
<1>3. ASSUME NEW o \in Outcomes, Reported(p, o), todo[p] # <<>> PROVE CorpusIsAhead(p)'
  <2>1. todo[p] \in Seq(Files) /\ todo'[p] = Tail(todo[p])
    BY <1>3, Phases DEF BatchIsAhead, Reported
  <2>2. \A x \in ToSet(todo[p]) : x = Head(todo[p]) \/ x \in ToSet(todo'[p])
    BY <1>3, <2>1, HeadAndTail
  <2>3. /\ Head(todo[p]) \in report'[p][o]
        /\ \A o1 \in Outcomes : report[p][o1] \subseteq report'[p][o1]
    BY <1>3 DEF Reported
  <2>4. ASSUME NEW i \in DOMAIN Items[p]
        PROVE  Items[p][i] \in ToSet(todo'[p]) \/ \E o1 \in Outcomes : Items[p][i] \in report'[p][o1]
    <3>1. Items[p][i] \in ToSet(todo[p]) \/ \E o1 \in Outcomes : Items[p][i] \in report[p][o1]
      BY <1>1 DEF CorpusIsAhead
    <3>2. QED
      BY <2>2, <2>3, <3>1
  <2>5. QED
    BY <2>4 DEF CorpusIsAhead
<1>4. CASE DocumentFails(p) \/ DocumentIsSkipped(p) \/ DocumentIsCommitted(p)
  <2>1. todo[p] # <<>> /\ \E o \in Outcomes : Reported(p, o)
    BY <1>4 DEF DocumentFails, Fails, DocumentIsSkipped, DocumentIsCommitted, Outcomes
  <2>2. QED
    BY <1>2, <1>3, <2>1
<1>5. CASE DocumentPasses(p) \/ DocumentIsInserted(p) \/ DocumentIsSaved(p)
  <2>1. todo' = todo /\ report' = report
    BY <1>5 DEF DocumentPasses, DocumentIsInserted, DocumentIsSaved
  <2>2. QED
    BY <1>1, <1>2, <2>1 DEF CorpusIsAhead
<1>6. QED
  BY <1>4, <1>5

\* The steps of a rebuild within a seed.
LEMMA SeedOfGraph ==
  ASSUME CorpusTyped, IdsAreUnique, StepsOnTrack, RowsInHand, ReportStands, GraphFollowsCorpus,
         NEW p \in Processes, Moves(p), CorpusHasReached(p), IsRest(steps[p]),
         DeleteAll(p) \/ CitationsDeleted(p) \/ SupersessionsDeleted(p) \/ Tabulate(p)
         \/ WriteEdges(p) \/ ReplaceGraph(p)
  PROVE  /\ CorpusHasReached(p)' /\ PackHasReached(p)' /\ at'[p] # "embed" /\ Phase(at'[p]) \in {2, 3}
<1> USE DEF CorpusTyped
<1>1. circulars' = circulars /\ (\A r \in circulars : r.whole) /\ circulars \subseteq Circular
  BY DEF DeleteAll, CitationsDeleted, SupersessionsDeleted, Tabulate, WriteEdges, ReplaceGraph, tables,
         ReportStands
<1>2. ASSUME at'[p] \in {"citations", "supersessions", "tabulate", "list"}
      PROVE  /\ \A r \in circulars : HasReached(p, r.file)'
             /\ PackHasReached(p)' /\ at'[p] # "embed" /\ Phase(at'[p]) = 2
  BY <1>2, Phases DEF Graphing, HasReached, PackHasReached
<1>3. CASE DeleteAll(p) \/ CitationsDeleted(p) \/ SupersessionsDeleted(p) \/ Tabulate(p)
  <2>1. at'[p] \in {"citations", "supersessions", "tabulate", "list"}
    BY <1>3 DEF DeleteAll, CitationsDeleted, SupersessionsDeleted, Tabulate, Goto
  <2>2. QED
    BY <1>1, <1>2, <2>1, CorpusGetsOn
<1>4. CASE WriteEdges(p)
  <2> DEFINE newC == Tagged(p, starts[p], Citations(circulars, lookup[p]))
  <2>1. at'[p] = "replace" /\ txn'[p].newC = newC
    BY <1>4 DEF WriteEdges, TxnParts, Tagged, Goto
  <2>2. AreRows(lookup[p])
    BY RowsOfCirculars DEF GraphFollowsCorpus, GraphOf
  <2>3. \A r \in circulars : IsLinked(r.file, newC)
    <3> HIDE DEF CorpusTyped, newC
    <3>1. \A r \in circulars : IsLinked(r.file, Tagged(p, starts[p], Citations(circulars, lookup[p])))
      BY <1>1, <2>2, ListedIsLinked
    <3>2. QED
      BY <3>1 DEF newC
  <2> HIDE DEF newC
  <2>4. Phase(at'[p]) = 2
    BY <2>1, Phases DEF Graphing
  <2>5. /\ \A r \in circulars : HasReached(p, r.file)'
        /\ PackHasReached(p)' /\ at'[p] # "embed"
    BY <2>1, <2>3, <2>4 DEF HasReached, PackHasReached
  <2>6. QED
    BY <1>1, <2>4, <2>5, CorpusGetsOn
<1>5. CASE ReplaceGraph(p)
  <2>1. /\ at[p] = "replace" /\ NextModule(p)
        /\ citations' = (citations \ txn[p].goneC) \cup txn[p].newC
    BY <1>5 DEF ReplaceGraph
  <2>2. Phase(at'[p]) = 3 /\ at'[p] \in {"forget", "index", "select", "count", "done"}
    <3>1. at[p] \notin Idle /\ Phase(at[p]) = 2
      BY <2>1, Phases DEF Idle, Graphing
    <3>2. QED
      BY <2>1, <3>1, GoesOn
  <2>3. at'[p] = "index"
    BY <2>2, Phases DEF Graphing
  <2>4. \A f : IsLinked(f, txn[p].newC) => IsLinked(f, citations')
    BY <2>1 DEF IsLinked
  <2>5. ASSUME NEW r \in circulars, HasReached(p, r.file) PROVE HasReached(p, r.file)'
    <3>1. IsLinked(r.file, citations')
      BY <2>1, <2>4, <2>5 DEF HasReached
    <3>2. QED
      BY <2>2, <2>3, <3>1 DEF HasReached
  <2>6. PackHasReached(p)'
    BY <2>2, <2>3 DEF PackHasReached
  <2>7. QED
    BY <1>1, <2>2, <2>3, <2>5, <2>6, CorpusGetsOn
<1>6. QED
  BY <1>3, <1>4, <1>5

\* The rows without an embedding are all taken up.
LEMMA SeedSelects ==
  ASSUME CorpusTyped, IdsAreUnique, NEW p \in Processes, SelectRows(p)
  PROVE  /\ todo'[p] \in Seq(Files)
         /\ \A r \in circulars : r.file \in embedded \cup ToSet(todo'[p])
<1> DEFINE rows == {r \in circulars : r.file \notin embedded}
           byId == ById(rows)
           files == [i \in DOMAIN byId |-> byId[i].file]
<1>1. todo'[p] = files
  BY DEF SelectRows, CorpusTyped
<1>2. AreRows(rows) /\ IsFiniteSet(rows)
  <2>1. rows \in SUBSET circulars /\ IsFiniteSet(circulars)
    BY DEF CorpusTyped
  <2> HIDE DEF rows
  <2>2. QED
    BY <2>1, RowsOfCirculars, FS_Subset
<1> HIDE DEF rows
<1>3. /\ DOMAIN byId = 1 .. Cardinality(rows) /\ Cardinality(rows) \in Nat
      /\ \A r \in rows : \E i \in DOMAIN byId : byId[i] = r
  BY <1>2, AllById
<1>4. \A i \in DOMAIN byId : byId[i] \in rows /\ byId[i].file \in Files
  <2>1. \A r \in rows : r.file \in Files
    BY <1>2 DEF AreRows, Circular
  <2>2. QED
    BY <1>2, <2>1, AllById
<1> HIDE DEF byId
<1>5. files \in Seq(Files)
  <2>1. files \in [1 .. Cardinality(rows) -> Files]
    BY <1>3, <1>4
  <2>2. \A k \in Nat : \A g : g \in [1 .. k -> Files] => g \in Seq(Files)
    OBVIOUS
  <2>3. QED
    BY <1>3, <2>1, <2>2
<1>6. \A r \in rows : \E i \in DOMAIN files : files[i] = r.file
  BY <1>3
<1> HIDE DEF files
<1>7. QED
  BY <1>1, <1>5, <1>6 DEF rows, ToSet

\* Nothing that a seed has reached is undone by what it does next.
LEMMA SeedOfRest ==
  ASSUME CorpusTyped, IdsAreUnique, StepsOnTrack, SeedGoesOn,
         NEW p \in Processes, Jobs[p] = {SeedSteps}, IsRest(steps[p]),
         CorpusHasReached(p), PackHasReached(p),
         \/ LookPack(p) \/ StorePack(p) \/ SelectRows(p) \/ EmbedBatch(p) \/ EndEmbed(p) \/ CountObligations(p)
         \/ ExtractCircular(p) \/ EndExtract(p)
  PROVE  \/ at'[p] = "stopped"
         \/ /\ CorpusHasReached(p)' /\ PackHasReached(p)' /\ Phase(at'[p]) > 1
            /\ at'[p] = "embed" => todo'[p] \in Seq(Files)
<1> USE DEF CorpusTyped
<1>1. circulars' = circulars /\ citations' = citations
  BY DEF LookPack, StorePack, SelectRows, EmbedBatch, EndEmbed, CountObligations, ExtractCircular, EndExtract, tables
<1>2. ASSUME NextModule(p), at[p] \notin Idle
      PROVE  /\ Phase(at'[p]) = Phase(at[p]) + 1
             /\ at'[p] \in {"forget", "index", "select", "count", "done"}
  BY <1>2, GoesOn
<1>3. CASE LookPack(p) \/ StorePack(p)
  <2>1. /\ at[p] \in {"index", "packing"} /\ Phase(at[p]) = 3 /\ at[p] \notin Idle
        /\ \/ at'[p] = "stopped"
           \/ at'[p] = "packing"
           \/ NextModule(p) /\ pack'
    BY <1>3, Phases DEF LookPack, StorePack, Goto, Stop, Idle, tables
  <2>2. CASE at'[p] = "packing"
    <3>1. Phase(at'[p]) = 3
      BY <2>2, Phases
    <3>2. \A r \in circulars : HasReached(p, r.file) => HasReached(p, r.file)'
      BY <1>1, <2>1, <2>2, <3>1 DEF HasReached
    <3>3. PackHasReached(p)'
      BY <3>1 DEF PackHasReached
    <3>4. QED
      BY <1>1, <2>2, <3>1, <3>2, <3>3, CorpusGetsOn
  <2>3. CASE NextModule(p) /\ pack'
    <3>1. at'[p] = "select" /\ Phase(at'[p]) = 4
      BY <1>2, <2>1, <2>3, Phases DEF Graphing
    <3>2. \A r \in circulars : HasReached(p, r.file) => HasReached(p, r.file)'
      BY <1>1, <2>1, <3>1 DEF HasReached
    <3>3. PackHasReached(p)'
      BY <2>3, <3>1 DEF PackHasReached
    <3>4. QED
      BY <1>1, <3>1, <3>2, <3>3, CorpusGetsOn
  <2>4. QED
    BY <2>1, <2>2, <2>3
<1>4. CASE SelectRows(p)
  <2>1. at[p] = "select" /\ at'[p] = "embed" /\ UNCHANGED <<pack, embedded>>
    BY <1>4 DEF SelectRows, Goto, tables
  <2>2. Phase(at[p]) = 4 /\ Phase(at'[p]) = 4
    BY <2>1, Phases
  <2>3. /\ todo'[p] \in Seq(Files)
        /\ \A r \in circulars : r.file \in embedded \cup ToSet(todo'[p])
    BY <1>4, SeedSelects
  <2>4. \A r \in circulars : HasReached(p, r.file) => HasReached(p, r.file)'
    BY <1>1, <2>1, <2>2, <2>3 DEF HasReached
  <2>5. PackHasReached(p)'
    BY <2>1, <2>2, <2>3 DEF PackHasReached
  <2>6. QED
    BY <1>1, <2>2, <2>3, <2>4, <2>5, CorpusGetsOn
<1>5. CASE EmbedBatch(p)
  <2>1. /\ at[p] = "embed" /\ at'[p] = "embed" /\ todo[p] # <<>> /\ pack' = pack
        /\ embedded' = embedded \cup {Head(todo[p])} /\ todo'[p] = Tail(todo[p])
    BY <1>5 DEF EmbedBatch
  <2>2. Phase(at[p]) = 4 /\ Phase(at'[p]) = 4
    BY <2>1, Phases
  <2>3. SeedOf(p)
    BY DEF SeedGoesOn
  <2>4. todo[p] \in Seq(Files)
    BY <2>1, <2>2, <2>3 DEF SeedOf
  <2>5. /\ todo'[p] \in Seq(Files)
        /\ \A x \in ToSet(todo[p]) : x = Head(todo[p]) \/ x \in ToSet(todo'[p])
    BY <2>1, <2>4, HeadAndTail
  <2>6. \A x \in embedded \cup ToSet(todo[p]) : x \in embedded' \cup ToSet(todo'[p])
    BY <2>1, <2>5
  <2>7. \A r \in circulars : HasReached(p, r.file) => HasReached(p, r.file)'
    BY <1>1, <2>1, <2>2, <2>6 DEF HasReached
  <2>8. PackHasReached(p)'
    BY <2>1, <2>2, <2>6 DEF PackHasReached
  <2>9. QED
    BY <1>1, <2>2, <2>5, <2>7, <2>8, CorpusGetsOn
<1>6. CASE EndEmbed(p)
  <2>1. /\ at[p] = "embed" /\ todo[p] = <<>> /\ NextModule(p) /\ pack' = pack
        /\ embedded' = embedded \cup IF pack THEN {Pack} ELSE {}
    BY <1>6 DEF EndEmbed
  <2>2. at'[p] = "count" /\ Phase(at[p]) = 4 /\ Phase(at'[p]) = 5
    BY <1>2, <2>1, Phases DEF Idle, Graphing
  <2>3. ToSet(todo[p]) = {}
    BY <2>1 DEF ToSet
  <2>4. \A r \in circulars : HasReached(p, r.file) => HasReached(p, r.file)'
    BY <1>1, <2>1, <2>2, <2>3 DEF HasReached
  <2>5. PackHasReached(p)'
    BY <2>1, <2>2 DEF PackHasReached
  <2>6. QED
    BY <1>1, <2>2, <2>4, <2>5, CorpusGetsOn
<1>7. CASE CountObligations(p) \/ ExtractCircular(p) \/ EndExtract(p)
  <2>1. at[p] \in {"count", "extract"} /\ UNCHANGED <<pack, embedded>>
    BY <1>7 DEF CountObligations, ExtractCircular, EndExtract, tables
  <2>2. Phase(at[p]) = 5 /\ at[p] \notin Idle
    BY <2>1, Phases DEF Idle
  <2>3. at'[p] \in {"stopped", "extract"} \/ NextModule(p)
    BY <1>7 DEF CountObligations, ExtractCircular, EndExtract, Goto, Stop
  <2>4. at'[p] = "stopped" \/ (at'[p] \in {"done", "extract"} /\ Phase(at'[p]) \in {5, 6})
    BY <1>2, <2>2, <2>3, Phases DEF Graphing
  <2>5. at'[p] # "stopped" => \A r \in circulars : HasReached(p, r.file) => HasReached(p, r.file)'
    BY <1>1, <2>1, <2>2, <2>4 DEF HasReached
  <2>6. at'[p] # "stopped" => PackHasReached(p)'
    BY <2>1, <2>2, <2>4 DEF PackHasReached
  <2>7. CASE at'[p] # "stopped"
    <3>1. CorpusHasReached(p)'
      BY <1>1, <2>5, <2>7, CorpusGetsOn
    <3>2. Phase(at'[p]) > 1 /\ at'[p] # "embed"
      BY <2>4, <2>7
    <3>3. QED
      BY <2>6, <2>7, <3>1, <3>2
  <2>8. QED
    BY <2>7
<1>8. QED
  BY <1>3, <1>4, <1>5, <1>6, <1>7

\* Every step keeps what each seed has reached.
LEMMA SeedKept ==
  ASSUME CorpusTyped, IdsAreUnique, StepsOnTrack, RowsInHand, BatchIsAhead, ReportStands,
         GraphFollowsCorpus, SeedGoesOn, NEW p \in Processes, Moves(p)
  PROVE  SeedGoesOn'
<1>1. ASSUME NEW q \in Processes \ {p} PROVE SeedOf(q)'
  <2>1. circulars \subseteq circulars' /\ embedded \subseteq embedded' /\ (pack => pack')
    BY CircularsGrow, EmbeddedGrows, PackStays
  <2>2. \A f : IsLinked(f, citations) => IsLinked(f, citations')
    BY LinksStay
  <2>3. /\ at'[q] = at[q] /\ steps'[q] = steps[q] /\ todo'[q] = todo[q] /\ txn'[q] = txn[q]
        /\ report'[q] = report[q]
    BY OthersStand
  <2>4. SeedOf(q)
    BY DEF SeedGoesOn
  <2>5. QED
    BY <2>1, <2>2, <2>3, <2>4, SeedOfOther
<1>2. SUFFICES ASSUME Jobs[p] = {SeedSteps}, Phase(at'[p]) # 0
               PROVE  /\ IsRest(steps'[p])
                      /\ Phase(at'[p]) = 1 => CorpusIsAhead(p)'
                      /\ Phase(at'[p]) > 1 => CorpusHasReached(p)' /\ PackHasReached(p)'
                      /\ at'[p] = "embed" => todo'[p] \in Seq(Files)
  BY <1>1 DEF SeedGoesOn, SeedOf
<1>3. at'[p] # "stopped"
  BY <1>2, Phases
<1>4. CASE Start(p)
  <2>1. SeedSteps \in Jobs[p] /\ Begin(p, SeedSteps)
    BY <1>2, <1>4 DEF Start
  <2>2. IsRest(steps'[p]) /\ at'[p] = "look" /\ todo'[p] = Items[p]
    BY <2>1, Started
  <2>3. CorpusIsAhead(p)'
    BY <2>2 DEF CorpusIsAhead, ToSet
  <2>4. QED
    BY <2>2, <2>3, Phases DEF Ingesting
<1>5. CASE ~Start(p)
  <2>1. at[p] \notin Idle
    BY <1>3, <1>5, Turns DEF Moves, Crash, Look, LookNumber, Insert, Save, CommitDocument, EndBatch, Idle, DeleteAll,
      CitationsDeleted, SupersessionsDeleted, Tabulate, WriteEdges, ReplaceGraph, LookPack, StorePack, SelectRows,
      EmbedBatch, EndEmbed, CountObligations, ExtractCircular, EndExtract
  <2>2. Phase(at[p]) \in 1 .. 5
    BY <2>1, WorkingPhase DEF CorpusTyped
  <2>3. /\ IsRest(steps[p])
        /\ Phase(at[p]) = 1 => CorpusIsAhead(p)
        /\ Phase(at[p]) > 1 => CorpusHasReached(p) /\ PackHasReached(p)
    <3>1. SeedOf(p)
      BY DEF SeedGoesOn
    <3>2. QED
      BY <1>2, <2>2, <3>1 DEF SeedOf
  <2>4. IsRest(steps'[p])
    BY <1>3, <1>5, <2>3, Turns, GoesOn
  <2>5. CASE \/ DocumentFails(p) \/ DocumentIsSkipped(p) \/ DocumentPasses(p)
             \/ DocumentIsInserted(p) \/ DocumentIsSaved(p) \/ DocumentIsCommitted(p)
    <3>1. at[p] \in Ingesting
      BY <2>5 DEF DocumentFails, DocumentIsSkipped, DocumentPasses, DocumentIsInserted, DocumentIsSaved,
                  DocumentIsCommitted, Ingesting
    <3>2. at'[p] \in Ingesting /\ CorpusIsAhead(p)'
      BY <1>2, <2>5, <3>1, SeedOfBatch
    <3>3. Phase(at'[p]) = 1 /\ at'[p] # "embed"
      BY <3>2, Phases DEF Ingesting
    <3>4. QED
      BY <2>4, <3>2, <3>3
  <2>6. CASE BatchEnds(p)
    <3>1. /\ at[p] = "look" /\ todo[p] = <<>> /\ circulars' = circulars /\ NextModule(p)
          /\ report[p]["failed"] \cup report[p]["conflicts"] = {}
      BY <1>3, <2>6 DEF BatchEnds, Stop, CorpusTyped, tables
    <3>2. Phase(at[p]) = 1
      BY <3>1, Phases DEF Ingesting
    <3>3. Phase(at'[p]) = 2 /\ at'[p] \in {"forget", "index", "select", "count", "done"}
      BY <2>1, <2>3, <3>1, <3>2, GoesOn
    <3>4. at'[p] = "forget"
      BY <3>3, Phases
    <3>5. \A i \in DOMAIN Items[p] : Like(Items[p][i]) # {}
      BY <2>3, <3>1, <3>2, BatchIsStored DEF ReportStands
    <3>6. \A file : HasReached(p, file)'
      BY <3>3, <3>4 DEF HasReached
    <3>7. CorpusHasReached(p)' /\ PackHasReached(p)'
      BY <3>1, <3>3, <3>4, <3>5, <3>6 DEF CorpusHasReached, PackHasReached, Like
    <3>8. QED
      BY <2>4, <3>3, <3>4, <3>7
  <2>7. CASE \/ DeleteAll(p) \/ CitationsDeleted(p) \/ SupersessionsDeleted(p) \/ Tabulate(p)
             \/ WriteEdges(p) \/ ReplaceGraph(p)
    <3>1. at[p] \in Graphing
      BY <2>7 DEF DeleteAll, CitationsDeleted, SupersessionsDeleted, Tabulate, WriteEdges, ReplaceGraph, Graphing
    <3>2. Phase(at[p]) = 2
      BY <3>1, Phases
    <3>3. /\ CorpusHasReached(p)' /\ PackHasReached(p)' /\ at'[p] # "embed" /\ Phase(at'[p]) \in {2, 3}
      BY <2>3, <2>7, <3>2, SeedOfGraph
    <3>4. QED
      BY <2>4, <3>3
  <2>8. CASE \/ LookPack(p) \/ StorePack(p) \/ SelectRows(p) \/ EmbedBatch(p) \/ EndEmbed(p) \/ CountObligations(p)
             \/ ExtractCircular(p) \/ EndExtract(p)
    <3>1. at[p] \in {"index", "packing", "select", "embed", "count", "extract"}
      BY <2>8 DEF LookPack, StorePack, SelectRows, EmbedBatch, EndEmbed, CountObligations, ExtractCircular, EndExtract
    <3>2. Phase(at[p]) > 1
      BY <3>1, Phases
    <3>3. /\ CorpusHasReached(p)' /\ PackHasReached(p)' /\ Phase(at'[p]) > 1
          /\ at'[p] = "embed" => todo'[p] \in Seq(Files)
      BY <1>2, <1>3, <2>3, <2>8, <3>2, SeedOfRest
    <3>4. Phase(at'[p]) # 1
      BY <3>3
    <3>5. QED
      BY <2>4, <3>3, <3>4
  <2>9. at[p] \in Ingesting => ~ElsewhereGoesOn(p)
    BY DEF ElsewhereGoesOn
  <2>10. CASE ElsewhereGoesOn(p)
    <3>1. Moves(p) /\ at[p] \notin Ingesting /\ ~Start(p) /\ ~Crash(p)
      BY <1>3, <1>5, <2>10 DEF ElsewhereGoesOn, Crash, Stop, CorpusTyped
    <3>2. QED
      BY <2>7, <2>8, <3>1 DEF Moves, Look, LookNumber, Insert, Save, CommitDocument, EndBatch, Ingesting
  <2>11. ~Crash(p)
    BY <1>3 DEF Crash, Stop, CorpusTyped
  <2>12. QED
    BY <1>5, <2>5, <2>6, <2>10, <2>11, BatchMoves
<1>6. QED
  BY <1>4, <1>5

-----------------------------------------------------------------------------
(* The invariant holds.                                                     *)

\* The invariant holds of an empty database.
LEMMA InitCInv == Init => CInv
<1> SUFFICES ASSUME Init PROVE CInv
  OBVIOUS
<1> USE DEF Init
<1>1. \A p \in Processes : /\ at[p] = "idle" /\ steps[p] = <<>> /\ txn[p] = EmptyTxn /\ seen[p] = {}
                           /\ lookup[p] = {} /\ report[p] = EmptyReport /\ txn[p].row = {}
  BY EmptyTxnTyped
<1>2. Given = {}
  BY <1>1 DEF Given
<1>3. CorpusTyped
  <2>1. "idle" \in Labels /\ <<>> \in Seq(Modules) /\ EmptyReport \in [Outcomes -> SUBSET Files]
    BY DEF Labels, Idle, EmptyReport
  <2>2. IsFiniteSet(circulars)
    BY FS_EmptySet
  <2>3. QED
    BY <1>1, <2>1, <2>2, EmptyTxnTyped DEF CorpusTyped
<1>4. IdsAreUnique
  BY <1>2 DEF IdsAreUnique
<1>5. StepsOnTrack
  BY <1>1, NothingIsRest DEF StepsOnTrack, Idle
<1>6. RowsInHand
  BY <1>1 DEF RowsInHand
<1>7. BatchIsAhead
  BY <1>1, Phases DEF BatchIsAhead
<1>8. ReportStands
  BY <1>1 DEF ReportStands, ReportOf, EmptyReport, Outcomes
<1>9. GraphFollowsCorpus
  BY <1>1, EmptyTxnTyped DEF GraphFollowsCorpus, GraphOf
<1>10. AloneDeletesAll
  BY <1>1 DEF AloneDeletesAll, AloneOf, Rebuilding
<1>11. SeedGoesOn
  BY <1>1, Phases DEF SeedGoesOn, SeedOf
<1>12. QED
  BY <1>3, <1>4, <1>5, <1>6, <1>7, <1>8, <1>9, <1>10, <1>11 DEF CInv

\* Every step is a step of one process.
LEMMA NextMoves == Next => \E p \in Processes : Moves(p)
BY DEF Next, Moves

\* The inductive invariant of the corpus: what each process of the seed, of a module
\* run by hand, or of several of them side by side has written and still has to do.
THEOREM CorpusInvariance == Spec => []CInv
<1>1. ASSUME CInv, NEW p \in Processes, Moves(p) PROVE CInv'
  <2>1. /\ CorpusTyped /\ IdsAreUnique /\ StepsOnTrack /\ RowsInHand /\ BatchIsAhead
        /\ ReportStands /\ GraphFollowsCorpus /\ AloneDeletesAll /\ SeedGoesOn
        /\ \A r \in circulars : r.whole
    BY <1>1 DEF CInv, ReportStands
  <2>2. CorpusTyped'
    BY <1>1, <2>1, TypedKept
  <2>3. IdsAreUnique'
    BY <1>1, <2>1, IdsKept
  <2>4. StepsOnTrack' /\ RowsInHand'
    BY <1>1, <2>1, StepsKept, RowsKept
  <2>5. BatchIsAhead'
    BY <1>1, <2>1, BatchKept
  <2>6. ReportStands'
    BY <1>1, <2>1, ReportKept
  <2>7. GraphFollowsCorpus'
    BY <1>1, <2>1, GraphKept
  <2>8. AloneDeletesAll'
    BY <1>1, <2>1, AloneKept
  <2>9. SeedGoesOn'
    BY <1>1, <2>1, SeedKept
  <2>10. QED
    BY <2>2, <2>3, <2>4, <2>5, <2>6, <2>7, <2>8, <2>9 DEF CInv
<1>2. ASSUME CInv, UNCHANGED vars PROVE CInv'
  <2>1. /\ UNCHANGED <<circulars, citations, supersessions, pack, embedded, nextId, at, steps, todo>>
        /\ UNCHANGED <<txn, seen, lookup, report, alone, starts>>
    BY <1>2 DEF vars, tables
  <2>2. /\ CorpusTyped /\ IdsAreUnique /\ StepsOnTrack /\ RowsInHand /\ BatchIsAhead
        /\ ReportStands /\ GraphFollowsCorpus /\ AloneDeletesAll /\ SeedGoesOn
    BY <1>2 DEF CInv
  <2>3. CorpusTyped' /\ IdsAreUnique'
    <3>1. Given' = Given
      BY <2>1 DEF Given
    <3>2. IdsAreUnique'
      BY <2>1, <2>2, <3>1 DEF IdsAreUnique
    <3>3. CorpusTyped'
      BY <2>1, <2>2 DEF CorpusTyped
    <3>4. QED
      BY <3>2, <3>3
  <2>4. StepsOnTrack' /\ RowsInHand'
    BY <2>1, <2>2 DEF StepsOnTrack, RowsInHand, InHand
  <2>5. BatchIsAhead'
    BY <2>1, <2>2 DEF BatchIsAhead
  <2>6. ReportStands'
    <3>1. \A f : Like(f)' = Like(f)
      BY <2>1 DEF Like
    <3>2. ASSUME NEW q \in Processes PROVE ReportOf(q)'
      <4>1. ReportOf(q)
        BY <2>2 DEF ReportStands
      <4>2. QED
        BY <2>1, <3>1, <4>1 DEF ReportOf, IsTaken
    <3>3. QED
      BY <2>1, <2>2, <3>2 DEF ReportStands
  <2>7. GraphFollowsCorpus'
    <3>1. \A q \in Processes : GraphOf(q)'
      BY <2>1, <2>2, GraphOfOther DEF GraphFollowsCorpus
    <3>2. QED
      BY <2>1, <2>2, <3>1 DEF GraphFollowsCorpus, Stored, IsStamped
  <2>8. AloneDeletesAll'
    BY <2>1, <2>2 DEF AloneDeletesAll, AloneOf, Rebuilding
  <2>9. SeedGoesOn'
    BY <2>1, <2>2, SeedOfOther DEF SeedGoesOn
  <2>10. QED
    BY <2>3, <2>4, <2>5, <2>6, <2>7, <2>8, <2>9 DEF CInv
<1>3. CInv /\ [Next]_vars => CInv'
  BY <1>1, <1>2, NextMoves
<1>4. QED
  BY InitCInv, <1>3, PTL DEF Spec

-----------------------------------------------------------------------------
(* What the corpus promises.                                                *)

\* A batch's report is true of the database whatever the other processes do, die of or
\* commit between two of its statements, its two lookups among them (ingest_batch).
THEOREM ReportAlwaysTrue == Spec => []ReportIsTrue
<1>1. CInv => ReportIsTrue
  BY DEF CInv, ReportStands, ReportOf, IsTaken, ReportIsTrue, Like
<1>2. QED
  BY CorpusInvariance, <1>1, PTL

\* A rebuild that no other overlapped leaves every reference once and exactly the graph
\* of the circulars it listed (rebuild_citation_graph), after any crashes and overlaps.
THEOREM RebuildAlwaysExact == Spec => RebuildIsExact
<1>1. ASSUME CInv, NEW p \in Processes, ReplaceGraph(p), alone[p]
      PROVE  /\ NoDuplicates(citations') /\ NoDuplicates(supersessions')
             /\ lookup[p] = circulars =>
                  {x[3] : x \in citations'} = Citations(circulars, circulars)
  <2>1. AloneOf(p) /\ GraphOf(p)
    BY <1>1 DEF CInv, AloneDeletesAll, GraphFollowsCorpus
  <2>2. /\ at[p] = "replace"
        /\ citations' = (citations \ txn[p].goneC) \cup txn[p].newC
        /\ supersessions' = (supersessions \ txn[p].goneS) \cup txn[p].newS
    BY <1>1 DEF ReplaceGraph
  <2>3. txn[p].goneC = citations /\ txn[p].goneS = supersessions
    BY <1>1, <2>1, <2>2 DEF AloneOf, Rebuilding
  <2>4. citations' = txn[p].newC /\ supersessions' = txn[p].newS
    BY <2>2, <2>3
  <2>5. QED
    BY <2>1, <2>2, <2>4 DEF GraphOf
<1>2. CInv /\ [Next]_vars =>
        [\A p \in Processes : ReplaceGraph(p) /\ alone[p] =>
           /\ NoDuplicates(citations') /\ NoDuplicates(supersessions')
           /\ lookup[p] = circulars =>
                {x[3] : x \in citations'} = Citations(circulars, circulars)]_vars
  BY <1>1
<1>3. QED
  BY CorpusInvariance, <1>2, PTL DEF Spec, RebuildIsExact

\* On any date a circular is in force from its issue until the first circular that
\* displaces it issues, and never together with that one (the filters of a search).
THEOREM HandoverAlwaysExact == Spec => []HandoverIsExact
<1>1. ASSUME CInv PROVE HandoverIsExact
  <2> DEFINE edges == {x[3] : x \in supersessions}
             removes(e, f) == e.cite.to = f /\ e.type \in RemovesFromForce
  <2>1. \A e \in edges : e.cite.from \in Files /\ e.effective = Doc[e.cite.from].date
    BY <1>1 DEF CInv, GraphFollowsCorpus, IsStamped
  <2>2. \A f \in Stored : f \in Files /\ f # NoFile
    BY <1>1, CorpusAssumption DEF CInv, CorpusTyped, Stored, Circular, CorpusAssumption
  <2>3. \A d \in Dates : d \in Nat \ {0}
    BY CorpusAssumption DEF CorpusAssumption, NoDate
  <2> HIDE DEF edges
  <2> SUFFICES ASSUME NEW asOf \in Dates, NEW f \in Stored
               PROVE  /\ Doc[f].date # NoDate /\ Doc[f].date <= asOf =>
                           (InForce(f, edges, asOf) <=>
                              ~ \E e \in edges : removes(e, f) /\ Doc[e.cite.from].date \in 1..asOf)
                      /\ \A e \in edges : removes(e, f) =>
                           ~(InForce(f, edges, asOf) /\ InForce(e.cite.from, edges, asOf))
    BY DEF HandoverIsExact, edges
  <2>4. asOf \in Nat \ {0} /\ f \in Files /\ f # NoFile
    BY <2>2, <2>3
  <2>5. \A g : InForce(g, edges, asOf) <=>
          Doc[g].date # NoDate /\ Doc[g].date <= asOf /\ g \notin Superseded(edges, asOf)
    BY <2>4 DEF InForce, Filtered, NoFilter, NoDate
  <2>6. f \in Superseded(edges, asOf) <=>
          \E e \in edges : removes(e, f) /\ e.effective # NoDate /\ e.effective <= asOf
    BY <2>4 DEF Superseded
  <2>7. \A e \in edges : (e.effective # NoDate /\ e.effective <= asOf) <=> Doc[e.cite.from].date \in 1..asOf
    BY <2>1, <2>4, DatesAreNumbers DEF NoDate
  <2>8. Doc[f].date # NoDate /\ Doc[f].date <= asOf =>
          (InForce(f, edges, asOf) <=>
             ~ \E e \in edges : removes(e, f) /\ Doc[e.cite.from].date \in 1..asOf)
    BY <2>5, <2>6, <2>7
  <2>9. ASSUME NEW e \in edges, removes(e, f), InForce(f, edges, asOf), InForce(e.cite.from, edges, asOf)
        PROVE  FALSE
    <3>1. e.effective # NoDate /\ e.effective <= asOf
      BY <2>1, <2>5, <2>9
    <3>2. QED
      BY <2>5, <2>6, <2>9, <3>1
  <2>10. QED
    BY <2>8, <2>9
<1>2. QED
  BY CorpusInvariance, <1>1, PTL

\* A seed that reports success has stored, linked and embedded its whole corpus and the
\* policy pack (ingestion/seed.py), on a first run or a later one, alone or beside others.
THEOREM SeedAlwaysComplete == Spec => []SeedIsComplete
<1>1. ASSUME CInv, NEW p \in Processes, Seeded(p)
      PROVE  /\ pack /\ Pack \in embedded
             /\ \A i \in DOMAIN Items[p] : \E r \in circulars :
                  /\ Doc[r.file].bytes = Doc[Items[p][i]].bytes
                  /\ r.file \in embedded /\ IsLinked(r.file, citations)
  <2>1. SeedOf(p) /\ at[p] = "done" /\ Jobs[p] = {SeedSteps} /\ Phase(at[p]) = 6
    BY <1>1, Phases DEF CInv, SeedGoesOn, Seeded
  <2>2. CorpusHasReached(p) /\ PackHasReached(p)
    BY <2>1 DEF SeedOf
  <2>3. pack /\ Pack \in embedded
    BY <2>1, <2>2 DEF PackHasReached
  <2>4. \A file : HasReached(p, file) => IsLinked(file, citations) /\ file \in embedded
    BY <2>1 DEF HasReached
  <2>5. QED
    BY <2>2, <2>3, <2>4 DEF CorpusHasReached, Like
<1>2. ASSUME NEW r \in circulars, IsLinked(r.file, citations),
             NEW n \in DOMAIN Doc[r.file].paras, NEW m \in DOMAIN Doc[r.file].paras[n].refs
      PROVE  LET para == Doc[r.file].paras[n]
             IN  \/ Key[para.refs[m]] = Key[Doc[r.file].number]
                 \/ Contains(para.dated, Doc[r.file].date)
                 \/ \E x \in citations : x[3].from = r.file /\ x[3].para = n /\ x[3].ref = m
  BY <1>2 DEF IsLinked, OwnReference
<1>3. ASSUME CInv PROVE SeedIsComplete
  <2>1. SUFFICES ASSUME NEW p \in Processes, Seeded(p), NEW i \in DOMAIN Items[p]
                 PROVE  \E r \in circulars :
                          /\ Doc[r.file].bytes = Doc[Items[p][i]].bytes
                          /\ r.file \in embedded
                          /\ \A n \in DOMAIN Doc[r.file].paras : \A m \in DOMAIN Doc[r.file].paras[n].refs :
                               LET para == Doc[r.file].paras[n]
                               IN  \/ Key[para.refs[m]] = Key[Doc[r.file].number]
                                   \/ Contains(para.dated, Doc[r.file].date)
                                   \/ \E x \in citations : x[3].from = r.file /\ x[3].para = n /\ x[3].ref = m
    BY <1>1, <1>3 DEF SeedIsComplete
  <2>2. PICK r \in circulars : /\ Doc[r.file].bytes = Doc[Items[p][i]].bytes
                               /\ r.file \in embedded /\ IsLinked(r.file, citations)
    BY <1>1, <1>3, <2>1
  <2>3. QED
    BY <1>2, <2>2
<1>4. QED
  BY CorpusInvariance, <1>3, PTL

-----------------------------------------------------------------------------
(* The decisions of analysts.                                               *)

DecisionSpec == DecisionInit /\ [][DecisionNext]_decisionVars

FindingRow == [decision : AnalystDecision, dated : BOOLEAN]
Request == [row : Nat, choice : AnalystDecision, here : BOOLEAN, loaded : FindingRow,
            at : {"sent", "loaded", "stored"}]
Parts == {"status", "tally", "total", "list"}
PartsRead == {Reads[k] : k \in 1 .. fetch.read}

\* The stored findings only change by a decision, and every decision sent names one.
DecisionsTyped ==
  /\ running \in BOOLEAN /\ unsure \in BOOLEAN
  /\ row \in Seq(FindingRow)
  /\ request \in Seq(Request \cup {Settled})
  /\ \A i \in DOMAIN request : request[i] # Settled => request[i].row \in DOMAIN row
  /\ \A i \in DOMAIN request : request[i] # Settled /\ request[i].here => page # NoDetail
  /\ lastHere \subseteq DOMAIN row

\* A list of findings that was read, or is shown, has decisions that were stored.
ListIsTrue(list) ==
  /\ list \in Seq(FindingRow)
  /\ DOMAIN list \subseteq DOMAIN row
  /\ \A f \in DOMAIN list : <<f, list[f].decision>> \in everStored

\* Once a status was read as ended, nothing counted after it changes.
FetchIsTrue ==
  fetch # NoDetail =>
    /\ DOMAIN fetch = {"status", "read", "of"}
    /\ fetch.read \in 0 .. 4
    /\ DOMAIN fetch.of = PartsRead
    /\ fetch.read = 4 => ListIsTrue(fetch.of["list"])
    /\ fetch.read >= 1 /\ fetch.of["status"] = "ended" =>
         /\ ~running
         /\ fetch.read >= 2 => fetch.of["tally"] = Cardinality(DOMAIN row)
         /\ fetch.read >= 3 => fetch.of["total"] = Cardinality(DOMAIN row)
         /\ fetch.read >= 4 => DOMAIN fetch.of["list"] = DOMAIN row

PageIsTrue ==
  page # NoDetail =>
    /\ DOMAIN page = Parts
    /\ ListIsTrue(page.list)
    /\ page.status = "ended" =>
         /\ ~running
         /\ DOMAIN page.list = DOMAIN row
         /\ page.tally = Cardinality(DOMAIN row) /\ page.total = Cardinality(DOMAIN row)

\* What a handler loaded was stored; what it stored, or found stored, is its choice.
DecisionsWereStored ==
  /\ \A f \in DOMAIN row : <<f, row[f].decision>> \in everStored
  /\ \A i \in DOMAIN request :
       /\ request[i].at = "loaded" => <<request[i].row, request[i].loaded.decision>> \in everStored
       /\ request[i].at = "stored" => <<request[i].row, request[i].choice>> \in everStored

\* Where no decisions overlapped, a handler writes on what it loaded.
TimesAreTrue ==
  /\ \A f \in DOMAIN row \ overlapped : row[f].dated = (row[f].decision # "PENDING")
  /\ \A i \in DOMAIN request :
       request[i].at = "loaded" /\ request[i].row \notin overlapped =>
         request[i].loaded = row[request[i].row]

\* A decision of this page that has the last word is awaited, being read, or shown.
LastWordIsShown ==
  ~unsure => \A f \in lastHere :
    \/ \E i \in DOMAIN request :
         request[i].at = "stored" /\ request[i].here /\ request[i].row = f
    \/ fetch # NoDetail /\ (fetch.read < 4 \/ fetch.of["list"][f] = row[f])
    \/ fetch = NoDetail /\ page.list[f] = row[f]

DInv ==
  /\ DecisionsTyped /\ FetchIsTrue /\ PageIsTrue /\ DecisionsWereStored /\ TimesAreTrue
  /\ LastWordIsShown

-----------------------------------------------------------------------------
USE DEF decisionVars

\* A decision that is not settled is a request; its end is not.
LEMMA RequestOrSettled ==
  ASSUME DecisionsTyped, NEW i \in DOMAIN request
  PROVE  /\ request[i] = Settled => request[i].at = "done"
         /\ request[i] # Settled => request[i] \in Request /\ request[i].at # "done"
BY DEF DecisionsTyped, Settled, Request

\* A fetch that has only been asked for has read nothing.
LEMMA AskedIsNew == Asked # NoDetail /\ Asked.read = 0 /\ DOMAIN Asked.of = {}
BY DEF Asked, NoDetail

\* One row of a list is written.
LEMMA RowWritten ==
  ASSUME NEW list \in Seq(FindingRow), NEW k, NEW v \in FindingRow
  PROVE  /\ [list EXCEPT ![k] = v] \in Seq(FindingRow)
         /\ DOMAIN [list EXCEPT ![k] = v] = DOMAIN list
<1> HIDE DEF FindingRow
<1>1. list \in [1 .. Len(list) -> FindingRow] /\ Len(list) \in Nat
  OBVIOUS
<1>2. [list EXCEPT ![k] = v] \in [1 .. Len(list) -> FindingRow]
  BY <1>1
<1> QED
  BY <1>1, <1>2

\* The invariant holds of a run without findings.
LEMMA InitDInv == DecisionInit => DInv
<1> SUFFICES ASSUME DecisionInit PROVE DInv
  OBVIOUS
<1>1. /\ running = TRUE /\ unsure = FALSE /\ row = <<>> /\ request = <<>>
      /\ page = NoDetail /\ fetch = NoDetail /\ lastHere = {}
  BY DEF DecisionInit
<1>2. row \in Seq(FindingRow) /\ request \in Seq(Request \cup {Settled})
      /\ DOMAIN row = {} /\ DOMAIN request = {}
  BY <1>1
<1>3. DecisionsTyped
  BY <1>1, <1>2 DEF DecisionsTyped
<1>4. FetchIsTrue /\ PageIsTrue
  BY <1>1 DEF FetchIsTrue, PageIsTrue
<1>5. DecisionsWereStored /\ TimesAreTrue
  BY <1>2 DEF DecisionsWereStored, TimesAreTrue
<1>6. LastWordIsShown
  BY <1>1 DEF LastWordIsShown
<1> QED
  BY <1>3, <1>4, <1>5, <1>6 DEF DInv

\* The run adds a finding, or ends.
LEMMA RunStep ==
  ASSUME DInv, AddFinding \/ RunEnds
  PROVE  DInv'
<1> USE DEF DInv
<1>1. CASE RunEnds
  BY <1>1 DEF RunEnds, DecisionsTyped, FetchIsTrue, PageIsTrue, DecisionsWereStored, TimesAreTrue,
              LastWordIsShown, ListIsTrue, PartsRead
<1>2. CASE AddFinding
  <2>1. /\ running
        /\ row' = Append(row, Undecided)
        /\ everStored' = everStored \cup {<<Len(row) + 1, "PENDING">>}
        /\ UNCHANGED <<running, request, page, fetch, unsure, lastHere, overlapped, failed>>
    BY <1>2 DEF AddFinding
  <2>2. /\ row \in Seq(FindingRow) /\ Undecided \in FindingRow
        /\ Undecided.decision = "PENDING" /\ ~Undecided.dated
    BY DEF DecisionsTyped, FindingRow, Undecided, AnalystDecision
  <2>3. /\ row' \in Seq(FindingRow) /\ DOMAIN row' = DOMAIN row \cup {Len(row) + 1}
        /\ \A f \in DOMAIN row : row'[f] = row[f]
        /\ row'[Len(row) + 1] = Undecided /\ Len(row) + 1 \notin DOMAIN row
    BY <2>1, <2>2
  <2>4. DecisionsTyped'
    BY <2>1, <2>3 DEF DecisionsTyped
  <2>5. FetchIsTrue'
    BY <2>1, <2>3 DEF FetchIsTrue, ListIsTrue, PartsRead
  <2>6. PageIsTrue'
    BY <2>1, <2>3 DEF PageIsTrue, ListIsTrue
  <2>7. DecisionsWereStored'
    BY <2>1, <2>2, <2>3 DEF DecisionsWereStored
  <2>8. TimesAreTrue'
    <3>1. \A i \in DOMAIN request : request[i].at = "loaded" => request[i].row \in DOMAIN row
      BY RequestOrSettled DEF DecisionsTyped
    <3>2. \A f \in DOMAIN row' \ overlapped : row'[f].dated = (row'[f].decision # "PENDING")
      <4> SUFFICES ASSUME NEW f \in DOMAIN row' \ overlapped
                   PROVE  row'[f].dated = (row'[f].decision # "PENDING")
        OBVIOUS
      <4>1. CASE f = Len(row) + 1
        <5>1. row'[f] = [decision |-> "PENDING", dated |-> FALSE]
          BY <4>1, <2>3 DEF Undecided
        <5>2. row'[f].decision = "PENDING" /\ row'[f].dated = FALSE
          BY <5>1
        <5> QED
          BY <5>2
      <4>2. CASE f \in DOMAIN row
        <5>1. row[f].dated = (row[f].decision # "PENDING") /\ row'[f] = row[f]
          BY <4>2, <2>3 DEF TimesAreTrue
        <5> QED
          BY <5>1
      <4> QED
        BY <4>1, <4>2, <2>3
    <3>3. \A i \in DOMAIN request :
            request[i].at = "loaded" /\ request[i].row \notin overlapped =>
              request[i].loaded = row'[request[i].row]
      BY <2>3, <3>1 DEF TimesAreTrue
    <3> QED
      BY <2>1, <3>2, <3>3 DEF TimesAreTrue
  <2>9. LastWordIsShown'
    BY <2>1, <2>3 DEF LastWordIsShown, DecisionsTyped
  <2> QED
    BY <2>4, <2>5, <2>6, <2>7, <2>8, <2>9
<1> QED
  BY <1>1, <1>2

\* The page asks for its detail, is shown it, or gets no answer.
LEMMA FetchStep ==
  ASSUME DInv, StartFetch \/ ShowDetail \/ FetchFails
  PROVE  DInv'
<1> USE DEF DInv
<1>1. /\ UNCHANGED <<running, row, request, everStored, lastHere, overlapped>>
      /\ unsure' \in BOOLEAN
  BY DEF StartFetch, ShowDetail, FetchFails, DecisionsTyped
<1>2. DecisionsTyped' /\ DecisionsWereStored' /\ TimesAreTrue'
  <2>1. page # NoDetail => page' # NoDetail
    <3>1. CASE ShowDetail
      <4>1. "list" \in DOMAIN page'
        BY <3>1 DEF ShowDetail, FetchIsTrue, PartsRead, Reads
      <4> QED
        BY <4>1 DEF NoDetail
    <3> QED
      BY <3>1 DEF StartFetch, FetchFails
  <2> QED
    BY <1>1, <2>1 DEF DecisionsTyped, DecisionsWereStored, TimesAreTrue
<1>3. CASE StartFetch
  <2>1. fetch' = Asked /\ page' = page
    BY <1>3 DEF StartFetch
  <2>2. FetchIsTrue'
    BY <2>1, AskedIsNew DEF FetchIsTrue, PartsRead, Asked
  <2>3. PageIsTrue' /\ LastWordIsShown'
    BY <1>1, <2>1, AskedIsNew DEF PageIsTrue, ListIsTrue, LastWordIsShown
  <2> QED
    BY <1>2, <2>2, <2>3
<1>4. CASE ShowDetail
  <2>1. fetch.read = 4 /\ fetch # NoDetail /\ page' = fetch.of /\ fetch' = NoDetail
        /\ unsure' = unsure
    BY <1>4 DEF ShowDetail, Reads
  <2>2. DOMAIN fetch.of = Parts
    BY <2>1 DEF FetchIsTrue, PartsRead, Parts, Reads
  <2>3. PageIsTrue'
    BY <1>1, <2>1, <2>2 DEF PageIsTrue, FetchIsTrue, ListIsTrue
  <2>4. FetchIsTrue' /\ LastWordIsShown'
    BY <1>1, <2>1 DEF FetchIsTrue, LastWordIsShown
  <2> QED
    BY <1>2, <2>3, <2>4
<1>5. CASE FetchFails
  BY <1>1, <1>2, <1>5 DEF FetchFails, FetchIsTrue, PageIsTrue, ListIsTrue, LastWordIsShown
<1> QED
  BY <1>3, <1>4, <1>5

\* One statement of the handler that answers the page.
LEMMA ReadStep ==
  ASSUME DInv, ReadDetail
  PROVE  DInv'
<1> USE DEF DInv
<1> DEFINE part == Reads[fetch.read + 1]
<1>1. /\ fetch # NoDetail /\ fetch.read \in 0 .. 3
      /\ DOMAIN fetch = {"status", "read", "of"}
      /\ UNCHANGED <<running, row, request, page, unsure, everStored, lastHere, overlapped, failed>>
  BY DEF ReadDetail, FetchIsTrue, Reads
<1> DEFINE of == [p \in DOMAIN fetch.of \cup {part} |->
                    IF p = part THEN ReadNow(part) ELSE fetch.of[p]]
<1>2. /\ fetch'.read = fetch.read + 1
      /\ fetch'.of = of
      /\ DOMAIN fetch' = {"status", "read", "of"}
  <2>1. fetch' = [fetch EXCEPT !.read = fetch.read + 1, !.of = of]
    BY DEF ReadDetail
  <2> HIDE DEF of
  <2> QED
    BY <1>1, <2>1
<1>3. DecisionsTyped' /\ PageIsTrue' /\ DecisionsWereStored' /\ TimesAreTrue'
  BY <1>1 DEF DecisionsTyped, PageIsTrue, ListIsTrue, DecisionsWereStored, TimesAreTrue
<1>4. /\ fetch' # NoDetail
      /\ Reads[1] = "status" /\ Reads[2] = "tally" /\ Reads[3] = "total" /\ Reads[4] = "list"
  BY <1>2 DEF NoDetail, Reads
<1>5. DOMAIN fetch.of = PartsRead /\ DOMAIN fetch'.of = PartsRead'
  <2>1. DOMAIN fetch.of = PartsRead
    BY <1>1 DEF FetchIsTrue
  <2>2. 1 .. fetch.read + 1 = (1 .. fetch.read) \cup {fetch.read + 1}
    BY <1>1
  <2> QED
    BY <1>2, <2>1, <2>2 DEF PartsRead
<1>6. PartsRead' = PartsRead \cup {part} /\ part \notin PartsRead
  BY <1>1, <1>2, <1>4 DEF PartsRead
<1>7. fetch'.of[part] = ReadNow(part) /\ \A p \in PartsRead : fetch'.of[p] = fetch.of[p]
  BY <1>2, <1>5, <1>6
<1>8. /\ part = "status" => fetch'.of["status"] = IF running THEN "in progress" ELSE "ended"
      /\ part = "tally" => fetch'.of["tally"] = Cardinality(DOMAIN row)
      /\ part = "total" => fetch'.of["total"] = Cardinality(DOMAIN row)
      /\ part = "list" => fetch'.of["list"] = row
  <2> HIDE DEF part, of
  <2> QED
    BY <1>7 DEF ReadNow
<1>9. /\ fetch.read = 0 => part = "status" /\ PartsRead = {}
      /\ fetch.read = 1 => part = "tally" /\ PartsRead = {"status"}
      /\ fetch.read = 2 => part = "total" /\ PartsRead = {"status", "tally"}
      /\ fetch.read = 3 => part = "list" /\ PartsRead = {"status", "tally", "total"}
  BY <1>1, <1>4 DEF PartsRead
<1> HIDE DEF part, of
<1>10. (fetch.read = 4 => ListIsTrue(fetch.of["list"]))'
  <2>1. ListIsTrue(row)
    BY DEF ListIsTrue, DecisionsTyped, DecisionsWereStored
  <2>2. fetch'.read = 4 => fetch.read = 3
    BY <1>1, <1>2
  <2>3. fetch.read = 3 => fetch'.of["list"] = row
    BY <1>8, <1>9
  <2> QED
    BY <1>1, <2>1, <2>2, <2>3 DEF ListIsTrue
<1>11. fetch'.of["status"] = "ended" =>
         /\ ~running
         /\ fetch'.read >= 2 => fetch'.of["tally"] = Cardinality(DOMAIN row)
         /\ fetch'.read >= 3 => fetch'.of["total"] = Cardinality(DOMAIN row)
         /\ fetch'.read >= 4 => DOMAIN fetch'.of["list"] = DOMAIN row
  <2>1. CASE fetch.read = 0
    BY <2>1, <1>2, <1>8, <1>9
  <2>2. CASE fetch.read = 1
    BY <2>2, <1>1, <1>2, <1>7, <1>8, <1>9 DEF FetchIsTrue
  <2>3. CASE fetch.read = 2
    BY <2>3, <1>1, <1>2, <1>7, <1>8, <1>9 DEF FetchIsTrue
  <2>4. CASE fetch.read = 3
    BY <2>4, <1>1, <1>2, <1>7, <1>8, <1>9 DEF FetchIsTrue
  <2> QED
    BY <1>1, <2>1, <2>2, <2>3, <2>4
<1>12. FetchIsTrue'
  <2>1. fetch'.read \in 0 .. 4
    BY <1>1, <1>2
  <2> QED
    BY <1>1, <1>2, <1>5, <1>10, <1>11, <2>1 DEF FetchIsTrue
<1>13. LastWordIsShown'
  <2>1. fetch'.read < 4 \/ fetch.read = 3
    BY <1>1, <1>2
  <2>2. fetch.read = 3 => fetch'.of["list"] = row
    BY <1>8, <1>9
  <2> QED
    BY <1>1, <1>4, <2>1, <2>2 DEF LastWordIsShown
<1> QED
  BY <1>3, <1>12, <1>13

-----------------------------------------------------------------------------
(* Decisions.                                                               *)

\* A decision is sent.
LEMMA SendStep ==
  ASSUME DInv, NEW f \in 1 .. MaxFindings, NEW choice \in AnalystDecision,
         Decide(f, choice) \/ DecideElsewhere(f, choice)
  PROVE  DInv'
<1> USE DEF DInv
<1> DEFINE new(here) == [row |-> f, choice |-> choice, here |-> here, loaded |-> Undecided, at |-> "sent"]
<1>1. PICK here \in BOOLEAN :
        /\ request' = Append(request, new(here))
        /\ f \in DOMAIN row /\ (here => page # NoDetail)
  <2>1. CASE Decide(f, choice)
    BY <2>1 DEF Decide, Send, Shown, PageIsTrue, ListIsTrue
  <2>2. CASE DecideElsewhere(f, choice)
    BY <2>2 DEF DecideElsewhere, Send
  <2> QED
    BY <2>1, <2>2
<1>2. UNCHANGED <<running, row, page, fetch, unsure, everStored, lastHere, overlapped>>
  BY DEF Decide, DecideElsewhere
<1>3. /\ new(here) \in Request /\ new(here) # Settled
      /\ new(here).at = "sent" /\ new(here).row = f /\ new(here).here = here
  <2>1. f \in Nat
    BY <1>1 DEF DecisionsTyped
  <2>2. new(here).at # Settled.at
    BY DEF Settled
  <2> QED
    BY <2>1, <2>2 DEF Request, FindingRow, Undecided, AnalystDecision
<1> HIDE DEF new
<1>4. /\ request' \in Seq(Request \cup {Settled})
      /\ DOMAIN request' = DOMAIN request \cup {Len(request) + 1}
      /\ \A i \in DOMAIN request : request'[i] = request[i]
      /\ request'[Len(request) + 1] = new(here)
  BY <1>1, <1>3 DEF DecisionsTyped
<1>5. DecisionsTyped'
  BY <1>1, <1>2, <1>3, <1>4 DEF DecisionsTyped
<1>6. FetchIsTrue' /\ PageIsTrue'
  BY <1>2 DEF FetchIsTrue, PageIsTrue, ListIsTrue, PartsRead
<1>7. DecisionsWereStored' /\ TimesAreTrue'
  BY <1>2, <1>3, <1>4 DEF DecisionsWereStored, TimesAreTrue
<1>8. LastWordIsShown'
  BY <1>2, <1>4 DEF LastWordIsShown
<1> QED
  BY <1>5, <1>6, <1>7, <1>8

\* A handler loads its finding.
LEMMA LoadStep ==
  ASSUME DInv, NEW i \in DOMAIN request, LoadFinding(i)
  PROVE  DInv'
<1> USE DEF DInv
<1>1. /\ request[i].at = "sent" /\ request[i] \in Request /\ request[i] # Settled
      /\ request[i].row \in DOMAIN row /\ row[request[i].row] \in FindingRow
      /\ UNCHANGED <<running, row, page, fetch, unsure, everStored, lastHere, overlapped>>
  BY RequestOrSettled DEF LoadFinding, DecisionsTyped
<1>2. /\ DOMAIN request' = DOMAIN request
      /\ \A j \in DOMAIN request : j # i => request'[j] = request[j]
      /\ request'[i] = [request[i] EXCEPT !.at = "loaded", !.loaded = row[request[i].row]]
      /\ request' \in Seq(Request \cup {Settled})
  <2>1. request' = [request EXCEPT ![i] =
                     [request[i] EXCEPT !.at = "loaded", !.loaded = row[request[i].row]]]
    BY <1>1 DEF LoadFinding, DecisionsTyped
  <2>2. [request[i] EXCEPT !.at = "loaded", !.loaded = row[request[i].row]] \in Request
    BY <1>1 DEF Request
  <2> QED
    BY <2>1, <2>2 DEF DecisionsTyped
<1>3. /\ request'[i].row = request[i].row /\ request'[i].here = request[i].here
      /\ request'[i].at = "loaded" /\ request'[i].loaded = row[request[i].row]
  BY <1>1, <1>2 DEF Request
<1>4. DecisionsTyped'
  <2>1. \A j \in DOMAIN request : request'[j] # Settled =>
          request'[j].row \in DOMAIN row /\ (request'[j].here => page # NoDetail)
    BY <1>1, <1>2, <1>3 DEF DecisionsTyped
  <2> QED
    BY <1>1, <1>2, <2>1 DEF DecisionsTyped
<1>5. FetchIsTrue' /\ PageIsTrue'
  BY <1>1 DEF FetchIsTrue, PageIsTrue, ListIsTrue, PartsRead
<1>6. DecisionsWereStored'
  BY <1>1, <1>2, <1>3 DEF DecisionsWereStored
<1>7. TimesAreTrue'
  <2>1. \A j \in DOMAIN request :
          request'[j].at = "loaded" /\ request'[j].row \notin overlapped =>
            request'[j].loaded = row[request'[j].row]
    <3> SUFFICES ASSUME NEW j \in DOMAIN request,
                        request'[j].at = "loaded", request'[j].row \notin overlapped
                 PROVE  request'[j].loaded = row[request'[j].row]
      OBVIOUS
    <3>1. CASE j = i
      BY <3>1, <1>3
    <3>2. CASE j # i
      BY <3>2, <1>2 DEF TimesAreTrue
    <3> QED
      BY <3>1, <3>2
  <2>2. \A f \in DOMAIN row \ overlapped : row[f].dated = (row[f].decision # "PENDING")
    BY DEF TimesAreTrue
  <2> QED
    BY <1>1, <1>2, <2>1, <2>2 DEF TimesAreTrue
<1>8. LastWordIsShown'
  BY <1>1, <1>2 DEF LastWordIsShown
<1> QED
  BY <1>4, <1>5, <1>6, <1>7, <1>8

\* A handler stores its decision. What it wrote is its choice, and if no other
\* was under way on the finding, the time it wrote is that of its choice.
LEMMA StoreStep ==
  ASSUME DInv, NEW i \in DOMAIN request, StoreDecision(i)
  PROVE  DInv'
<1> USE DEF DInv
<1> DEFINE r == request[i]
           now == row[r.row]
           after == Updated(now, r.loaded, r.choice)
<1>1. /\ r.at = "loaded" /\ r \in Request /\ r # Settled
      /\ r.row \in DOMAIN row /\ now \in FindingRow /\ r.loaded \in FindingRow /\ r.choice \in AnalystDecision
      /\ UNCHANGED <<running, page, fetch, unsure>>
  BY RequestOrSettled DEF StoreDecision, DecisionsTyped, Request
<1>2. /\ row' = [row EXCEPT ![r.row] = after]
      /\ request' = [request EXCEPT ![i] = [r EXCEPT !.at = "stored", !.loaded = Undecided]]
      /\ everStored' = everStored \cup {<<r.row, row'[r.row].decision>>}
      /\ lastHere' = IF r.here THEN lastHere \cup {r.row} ELSE lastHere \ {r.row}
      /\ overlapped' = overlapped \cup
           {f \in {r.row} : \E j \in DOMAIN request \ {i} : request[j].at = "loaded" /\ request[j].row = f}
  BY <1>1 DEF StoreDecision, DecisionsTyped
<1>3. /\ after \in FindingRow
      /\ after.decision = IF r.loaded.decision = r.choice THEN now.decision ELSE r.choice
      /\ after.dated = IF r.choice = "PENDING" /\ ~r.loaded.dated THEN now.dated ELSE r.choice # "PENDING"
  <2>1. now.decision \in AnalystDecision /\ now.dated \in BOOLEAN
    BY <1>1 DEF FindingRow
  <2>2. (r.choice # "PENDING") \in BOOLEAN
    OBVIOUS
  <2> QED
    BY <1>1, <2>1, <2>2 DEF Updated, Decided, FindingRow
<1>4. /\ row' \in Seq(FindingRow) /\ DOMAIN row' = DOMAIN row
      /\ row'[r.row] = after /\ \A f \in DOMAIN row : f # r.row => row'[f] = row[f]
  <2> HIDE DEF r, after
  <2> QED
    BY <1>1, <1>2, <1>3 DEF DecisionsTyped
<1>5. /\ DOMAIN request' = DOMAIN request /\ request' \in Seq(Request \cup {Settled})
      /\ \A j \in DOMAIN request : j # i => request'[j] = request[j]
      /\ request'[i].at = "stored" /\ request'[i].row = r.row
      /\ request'[i].here = r.here /\ request'[i].choice = r.choice
  <2>1. [r EXCEPT !.at = "stored", !.loaded = Undecided] \in Request
    BY <1>1 DEF Request, Undecided, FindingRow, AnalystDecision
  <2>2. request'[i] = [r EXCEPT !.at = "stored", !.loaded = Undecided]
    BY <1>2 DEF DecisionsTyped
  <2>3. /\ DOMAIN request' = DOMAIN request /\ request' \in Seq(Request \cup {Settled})
        /\ \A j \in DOMAIN request : j # i => request'[j] = request[j]
    <3> HIDE DEF r
    <3> QED
      BY <1>2, <2>1 DEF DecisionsTyped
  <2> QED
    BY <1>1, <2>2, <2>3 DEF Request
<1>6. <<r.row, r.choice>> \in everStored' /\ everStored \subseteq everStored'
  <2>1. CASE r.loaded.decision = r.choice
    BY <1>1, <1>2, <2>1 DEF DecisionsWereStored
  <2>2. CASE r.loaded.decision # r.choice
    BY <1>2, <1>3, <1>4, <2>2
  <2> QED
    BY <2>1, <2>2, <1>2
<1> HIDE DEF after
<1>7. DecisionsTyped'
  <2>1. lastHere' \subseteq DOMAIN row'
    BY <1>1, <1>2, <1>4 DEF DecisionsTyped
  <2>2. \A j \in DOMAIN request : request'[j] # Settled =>
          request'[j].row \in DOMAIN row' /\ (request'[j].here => page # NoDetail)
    BY <1>1, <1>4, <1>5 DEF DecisionsTyped
  <2> QED
    BY <1>1, <1>4, <1>5, <2>1, <2>2 DEF DecisionsTyped
<1>8. FetchIsTrue' /\ PageIsTrue'
  BY <1>1, <1>4, <1>6 DEF FetchIsTrue, PageIsTrue, ListIsTrue, PartsRead
<1>9. DecisionsWereStored'
  <2>1. \A f \in DOMAIN row : <<f, row'[f].decision>> \in everStored'
    BY <1>2, <1>4, <1>6 DEF DecisionsWereStored
  <2>2. \A j \in DOMAIN request :
          /\ request'[j].at = "loaded" => <<request'[j].row, request'[j].loaded.decision>> \in everStored'
          /\ request'[j].at = "stored" => <<request'[j].row, request'[j].choice>> \in everStored'
    BY <1>5, <1>6 DEF DecisionsWereStored
  <2> QED
    BY <1>4, <1>5, <2>1, <2>2 DEF DecisionsWereStored
<1>10. TimesAreTrue'
  <2>1. overlapped \subseteq overlapped'
    BY <1>2
  <2>2. ASSUME r.row \notin overlapped'
        PROVE  after.dated = (after.decision # "PENDING")
    <3>1. r.loaded = now /\ now.dated = (now.decision # "PENDING")
      BY <1>1, <2>1, <2>2 DEF TimesAreTrue
    <3> QED
      BY <1>3, <3>1
  <2>3. \A f \in DOMAIN row' \ overlapped' : row'[f].dated = (row'[f].decision # "PENDING")
    <3> SUFFICES ASSUME NEW f \in DOMAIN row \ overlapped'
                 PROVE  row'[f].dated = (row'[f].decision # "PENDING")
      BY <1>4
    <3>1. CASE f = r.row
      BY <3>1, <1>4, <2>2
    <3>2. CASE f # r.row
      <4>1. row'[f] = row[f] /\ row[f].dated = (row[f].decision # "PENDING")
        BY <3>2, <1>4, <2>1 DEF TimesAreTrue
      <4> QED
        BY <4>1
    <3> QED
      BY <3>1, <3>2
  <2>4. \A j \in DOMAIN request :
          request'[j].at = "loaded" /\ request'[j].row \notin overlapped' =>
            request'[j].loaded = row'[request'[j].row]
    <3> SUFFICES ASSUME NEW j \in DOMAIN request,
                        request'[j].at = "loaded", request'[j].row \notin overlapped'
                 PROVE  request'[j].loaded = row'[request'[j].row]
      OBVIOUS
    <3>1. j # i /\ request'[j] = request[j] /\ request[j].row \in DOMAIN row
      BY <1>5, RequestOrSettled DEF DecisionsTyped
    <3>2. request[j].row # r.row
      BY <1>2, <3>1
    <3> QED
      BY <1>4, <2>1, <3>1, <3>2 DEF TimesAreTrue
  <2> QED
    BY <1>4, <1>5, <2>3, <2>4 DEF TimesAreTrue
<1>11. LastWordIsShown'
  <2> SUFFICES ASSUME ~unsure, NEW f \in lastHere'
               PROVE  \/ \E j \in DOMAIN request :
                           request'[j].at = "stored" /\ request'[j].here /\ request'[j].row = f
                      \/ fetch # NoDetail /\ (fetch.read < 4 \/ fetch.of["list"][f] = row'[f])
                      \/ fetch = NoDetail /\ page.list[f] = row'[f]
    BY <1>1, <1>5 DEF LastWordIsShown
  <2>1. CASE f = r.row
    BY <1>2, <1>5, <2>1
  <2>2. CASE f # r.row
    <3>1. f \in lastHere /\ row'[f] = row[f]
      BY <1>2, <1>4, <2>2 DEF DecisionsTyped
    <3>2. CASE \E j \in DOMAIN request : request[j].at = "stored" /\ request[j].here /\ request[j].row = f
      BY <1>1, <1>5, <3>2
    <3> QED
      BY <3>1, <3>2 DEF LastWordIsShown
  <2> QED
    BY <2>1, <2>2
<1> QED
  BY <1>7, <1>8, <1>9, <1>10, <1>11

\* A decision is settled: its answer is taken over by the page, or it fails.
LEMMA SettleStep ==
  ASSUME DInv, NEW i \in DOMAIN request, AnswerArrives(i) \/ DecisionFails(i)
  PROVE  DInv'
<1> USE DEF DInv
<1>1. /\ request' = [request EXCEPT ![i] = Settled]
      /\ UNCHANGED <<running, row, everStored, lastHere, overlapped>>
      /\ request[i] \in Request /\ request[i] # Settled
      /\ Settled.at = "done"
  BY RequestOrSettled DEF AnswerArrives, DecisionFails, Settled
<1>2. /\ DOMAIN request' = DOMAIN request /\ request'[i] = Settled
      /\ \A j \in DOMAIN request : j # i => request'[j] = request[j]
      /\ request' \in Seq(Request \cup {Settled})
  BY <1>1 DEF DecisionsTyped
<1>3. DecisionsWereStored' /\ TimesAreTrue'
  BY <1>1, <1>2 DEF DecisionsWereStored, TimesAreTrue
<1>4. CASE AnswerArrives(i) /\ request[i].here
  <2>1. /\ request[i].at = "stored" /\ fetch' = Asked /\ unsure' = FALSE
        /\ page' = [page EXCEPT !.list[request[i].row] = Decided(request[i].choice)]
    BY <1>4 DEF AnswerArrives, TakeOver
  <2>2. Decided(request[i].choice) \in FindingRow
        /\ Decided(request[i].choice).decision = request[i].choice
    <3>1. request[i].choice \in AnalystDecision /\ (request[i].choice # "PENDING") \in BOOLEAN
      BY <1>1 DEF Request
    <3> QED
      BY <3>1 DEF Decided, FindingRow
  <2>3. page # NoDetail /\ DOMAIN page = Parts /\ page.list \in Seq(FindingRow)
    BY <1>1, <1>4 DEF DecisionsTyped, PageIsTrue, ListIsTrue
  <2> DEFINE list == [page.list EXCEPT ![request[i].row] = Decided(request[i].choice)]
  <2>4. page' = [page EXCEPT !.list = list]
    BY <2>1
  <2>5. /\ DOMAIN page' = Parts /\ page'.list = list
        /\ page'.status = page.status /\ page'.tally = page.tally /\ page'.total = page.total
    <3> HIDE DEF list
    <3> QED
      BY <2>3, <2>4 DEF Parts
  <2>6. list \in Seq(FindingRow) /\ DOMAIN list = DOMAIN page.list
    BY <2>2, <2>3, RowWritten
  <2>7. \A f \in DOMAIN page.list : <<f, list[f].decision>> \in everStored
    BY <1>1, <2>1, <2>2, <2>3 DEF PageIsTrue, ListIsTrue, DecisionsWereStored
  <2> HIDE DEF list
  <2>8. PageIsTrue'
    BY <1>1, <2>3, <2>5, <2>6, <2>7 DEF PageIsTrue, ListIsTrue
  <2>9. page' # NoDetail
    <3>1. "list" \in DOMAIN page'
      BY <2>5 DEF Parts
    <3> QED
      BY <3>1 DEF NoDetail
  <2>10. DecisionsTyped'
    BY <1>1, <1>2, <2>1, <2>9 DEF DecisionsTyped
  <2>11. FetchIsTrue'
    BY <2>1, AskedIsNew DEF FetchIsTrue, PartsRead, Asked
  <2>12. LastWordIsShown'
    BY <2>1, AskedIsNew DEF LastWordIsShown
  <2> QED
    BY <1>3, <2>8, <2>10, <2>11, <2>12
<1>5. CASE ~(AnswerArrives(i) /\ request[i].here)
  <2>1. /\ UNCHANGED <<page, fetch>> /\ unsure' \in BOOLEAN
        /\ ~unsure' => ~request[i].here /\ ~unsure
    <3>1. CASE AnswerArrives(i)
      BY <1>5, <3>1 DEF AnswerArrives, DecisionsTyped
    <3>2. CASE DecisionFails(i)
      BY <1>1, <3>2 DEF DecisionFails, DecisionsTyped, Request
    <3> QED
      BY <3>1, <3>2
  <2>2. DecisionsTyped' /\ FetchIsTrue' /\ PageIsTrue'
    BY <1>1, <1>2, <2>1 DEF DecisionsTyped, FetchIsTrue, PageIsTrue, ListIsTrue, PartsRead
  <2>3. LastWordIsShown'
    <3> SUFFICES ASSUME ~unsure', NEW f \in lastHere
                 PROVE  \/ \E j \in DOMAIN request :
                             request'[j].at = "stored" /\ request'[j].here /\ request'[j].row = f
                        \/ fetch # NoDetail /\ (fetch.read < 4 \/ fetch.of["list"][f] = row[f])
                        \/ fetch = NoDetail /\ page.list[f] = row[f]
      BY <1>1, <1>2, <2>1 DEF LastWordIsShown
    <3>1. CASE \E j \in DOMAIN request : request[j].at = "stored" /\ request[j].here /\ request[j].row = f
      BY <1>2, <2>1, <3>1
    <3> QED
      BY <2>1, <3>1 DEF LastWordIsShown
  <2> QED
    BY <1>3, <2>2, <2>3
<1> QED
  BY <1>4, <1>5

-----------------------------------------------------------------------------
(* The theorems.                                                            *)

\* What holds at every step of the page, the run and the decisions.
THEOREM DecisionsInvariance == DecisionSpec => []DInv
<1>1. DInv /\ [DecisionNext]_decisionVars => DInv'
  <2> SUFFICES ASSUME DInv, [DecisionNext]_decisionVars PROVE DInv'
    OBVIOUS
  <2>1. CASE UNCHANGED decisionVars
    BY <2>1 DEF DInv, DecisionsTyped, FetchIsTrue, PageIsTrue, ListIsTrue, PartsRead, DecisionsWereStored,
                TimesAreTrue, LastWordIsShown
  <2>2. CASE AddFinding \/ RunEnds
    BY <2>2, RunStep
  <2>3. CASE StartFetch \/ ShowDetail \/ FetchFails
    BY <2>3, FetchStep
  <2>4. CASE ReadDetail
    BY <2>4, ReadStep
  <2>5. CASE \E f \in 1 .. MaxFindings, choice \in AnalystDecision :
               Decide(f, choice) \/ DecideElsewhere(f, choice)
    BY <2>5, SendStep
  <2>6. ASSUME NEW i \in DOMAIN request, LoadFinding(i) \/ StoreDecision(i)
        PROVE  DInv'
    BY <2>6, LoadStep, StoreStep
  <2>7. ASSUME NEW i \in DOMAIN request, AnswerArrives(i) \/ DecisionFails(i)
        PROVE  DInv'
    BY <2>7, SettleStep
  <2> QED
    BY <2>1, <2>2, <2>3, <2>4, <2>5, <2>6, <2>7 DEF DecisionNext
<1> QED
  BY InitDInv, <1>1, PTL DEF DecisionSpec

\* The page never shows a decision that was not stored; at rest, with nothing
\* reported as failed, it shows the stored one wherever it had the last word; and
\* a finding has a time exactly when it is decided, unless decisions overlapped.
THEOREM DecisionsAlwaysTrue == DecisionSpec => []DecisionsAreTrue
<1>1. DInv => DecisionsAreTrue
  <2> SUFFICES ASSUME DInv PROVE DecisionsAreTrue
    OBVIOUS
  <2> USE DEF DInv
  <2>1. \A f \in 1 .. MaxFindings : Shown(f) => <<f, page.list[f].decision>> \in everStored
    BY DEF Shown, PageIsTrue, ListIsTrue
  <2>2. ASSUME AtRest, ~unsure, NEW f \in lastHere
        PROVE  page.list[f] = row[f]
    <3>1. ~ \E i \in DOMAIN request :
               request[i].at = "stored" /\ request[i].here /\ request[i].row = f
      BY <2>2, RequestOrSettled DEF AtRest
    <3> QED
      BY <2>2, <3>1 DEF LastWordIsShown, AtRest
  <2>3. \A f \in DOMAIN row \ overlapped : row[f].dated = (row[f].decision # "PENDING")
    BY DEF TimesAreTrue
  <2> QED
    BY <2>1, <2>2, <2>3 DEF DecisionsAreTrue
<1> QED
  BY DecisionsInvariance, <1>1, PTL

\* The page of an ended run lists every finding, and its tallies add up to them.
THEOREM EndedPageAlwaysWhole == DecisionSpec => []EndedPageIsWhole
<1>1. DInv => EndedPageIsWhole
  BY DEF DInv, PageIsTrue, EndedPageIsWhole
<1> QED
  BY DecisionsInvariance, <1>1, PTL
=============================================================================
