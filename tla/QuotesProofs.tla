---------------------------- MODULE QuotesProofs ----------------------------
(***************************************************************************)
(* Proofs about quotes: one is located exactly when its words stand in its    *)
(* source, its span cuts out those words, and what is verified of a model's   *)
(* or the rule-based judgement is so, for texts and quotes of any length.     *)
(* The fold over a quote's words is unfolded as those of AlgorithmsProofs are *)
(* (WordsEndFold).                                                          *)
(***************************************************************************)
EXTENDS AlgorithmsProofs

-----------------------------------------------------------------------------
(* Words of a text.                                                         *)

\* Nothing is added by empty lists at the end, nor by those around one list.
LEMMA FlattenTail ==
  ASSUME NEW T, NEW list \in Seq(Seq(T)), NEW a \in 0 .. Len(list), NEW k \in a + 1 .. Len(list) + 1,
         \A i \in a + 1 .. Len(list) : i # k => list[i] = <<>>
  PROVE  FlattenSeq(list) = IF k = Len(list) + 1 THEN FlattenSeq(SubSeq(list, 1, a))
                            ELSE FlattenSeq(SubSeq(list, 1, a)) \o list[k]
<1> DEFINE n == Len(list)
           flat(m) == FlattenSeq(SubSeq(list, 1, m))
           A == {m \in 0 .. n - a : flat(a + m) = IF a + m < k THEN flat(a) ELSE flat(a) \o list[k]}
<1>1. n \in Nat /\ a \in Nat /\ k \in Nat /\ a <= n /\ a < k /\ k <= n + 1 /\ n - a \in Nat
  OBVIOUS
<1>2. /\ flat(n) = FlattenSeq(list) /\ \A m \in 0 .. n : flat(m) \in Seq(T)
      /\ \A m \in 0 .. n - 1 : flat(m + 1) = flat(m) \o list[m + 1]
  <2> HIDE DEF n
  <2> QED
    BY FlattenPrefix DEF n
<1>3. \A i \in a + 1 .. n : i # k => list[i] = <<>>
  OBVIOUS
<1> HIDE DEF n, flat
<1>4. 0 \in A
  BY <1>1
<1>5. ASSUME NEW m \in 0 .. (n - a) - 1, m \in A PROVE m + 1 \in A
  <2>1. /\ a + m \in 0 .. n - 1 /\ a + m \in 0 .. n /\ (a + m) + 1 \in a + 1 .. n /\ (a + m) + 1 = a + (m + 1)
        /\ m + 1 \in 0 .. n - a
    BY <1>1
  <2>2. flat(a + (m + 1)) = flat(a + m) \o list[a + (m + 1)]
    BY <1>2, <2>1
  <2>3. flat(a + m) = IF a + m < k THEN flat(a) ELSE flat(a) \o list[k]
    BY <1>5
  <2>4. CASE a + (m + 1) = k
    <3>1. a + m < k /\ ~(a + (m + 1) < k)
      BY <1>1, <2>1, <2>4
    <3> QED
      BY <2>1, <2>2, <2>3, <2>4, <3>1
  <2>5. CASE a + (m + 1) # k
    <3>1. list[a + (m + 1)] = <<>> /\ flat(a + m) \in Seq(T)
      BY <1>2, <1>3, <2>1, <2>5
    <3>2. m \in Nat /\ (a + m < k <=> a + (m + 1) < k)
      BY <1>1, <2>5
    <3>3. flat(a + (m + 1)) = flat(a + m)
      BY <2>2, <3>1, ConcatEmptySeq
    <3> QED
      BY <2>1, <2>3, <3>2, <3>3
  <2> QED
    BY <2>4, <2>5
<1>6. n - a \in A
  <2> HIDE DEF A
  <2>1. \A m \in 0 .. n - a : m \in A
    BY <1>1, <1>4, <1>5, UpTo
  <2> QED
    BY <1>1, <2>1
<1>7. a + (n - a) = n /\ ((n < k) = (k = n + 1))
  BY <1>1
<1>8. flat(n) = IF k = n + 1 THEN flat(a) ELSE flat(a) \o list[k]
  BY <1>6, <1>7
<1> QED
  BY <1>2, <1>8 DEF flat, n

\* Empty lists around a list of lists add nothing to it.
LEMMA FlattenMiddle ==
  ASSUME NEW T, NEW list \in Seq(Seq(T)), NEW a \in 1 .. Len(list) + 1, NEW b \in a - 1 .. Len(list),
         \A i \in 1 .. Len(list) : i < a \/ i > b => list[i] = <<>>
  PROVE  FlattenSeq(list) = FlattenSeq(SubSeq(list, a, b))
<1> DEFINE n == Len(list)
           V == Seq(T)
           flat(m) == FlattenSeq(SubSeq(list, 1, m))
           part(m) == FlattenSeq(SubSeq(list, a, a - 1 + m))
           A == {m \in 0 .. b - (a - 1) : flat(a - 1 + m) = part(m)}
<1>1. n \in Nat /\ a \in Nat /\ b \in Nat /\ a - 1 \in 0 .. n /\ b \in 0 .. n /\ b - (a - 1) \in Nat /\ 1 \in 1 .. n + 1
  OBVIOUS
<1>2. /\ flat(0) = <<>> /\ flat(n) = FlattenSeq(list)
      /\ \A m \in 0 .. n - 1 : flat(m + 1) = flat(m) \o list[m + 1]
  <2> HIDE DEF n
  <2> QED
    BY FlattenPrefix DEF n
<1>3. FlattenSeq(SubSeq(list, 1, b)) = FlattenSeq(list)
  <2>1. b \in 0 .. Len(list) /\ Len(list) + 1 \in b + 1 .. Len(list) + 1
        /\ \A i \in b + 1 .. Len(list) : i # Len(list) + 1 => list[i] = <<>>
    OBVIOUS
  <2> QED
    BY <2>1, FlattenTail
<1>4. flat(a - 1) = <<>>
  <2> DEFINE s == SubSeq(list, 1, a - 1)
  <2>1. list \in Seq(V) /\ a - 1 \in 1 - 1 .. Len(list) /\ 1 \in 1 .. Len(list) + 1
    OBVIOUS
  <2> HIDE DEF V
  <2>2. s \in Seq(V) /\ Len(s) = (a - 1) - 1 + 1 /\ \A i \in 1 .. (a - 1) - 1 + 1 : s[i] = list[1 + i - 1]
    BY <2>1, RunLaw
  <2>3. s \in Seq(Seq(T)) /\ Len(s) = a - 1 /\ \A i \in 1 .. a - 1 : s[i] = <<>>
    <3>1. (a - 1) - 1 + 1 = a - 1 /\ \A i \in 1 .. a - 1 : 1 + i - 1 = i /\ i \in 1 .. Len(list) /\ i < a
      BY <1>1 DEF n
    <3> QED
      BY <2>2, <3>1 DEF V
  <2> HIDE DEF s
  <2>4. FlattenSeq(SubSeq(s, 1, 0)) = <<>>
    BY <2>3, FlattenPrefix
  <2>5. 0 \in 0 .. Len(s) /\ Len(s) + 1 \in 0 + 1 .. Len(s) + 1 /\ \A i \in 0 + 1 .. Len(s) : i # Len(s) + 1 => s[i] = <<>>
    BY <2>3
  <2>6. FlattenSeq(s) = FlattenSeq(SubSeq(s, 1, 0))
    BY <2>3, <2>5, FlattenTail
  <2> QED
    BY <2>4, <2>6 DEF s
<1>5. part(0) = <<>> /\ \A m \in 0 .. (b - (a - 1)) - 1 : part(m + 1) = part(m) \o list[a - 1 + (m + 1)]
  <2>1. list \in Seq(V)
    OBVIOUS
  <2>2. ASSUME NEW m \in 0 .. (b - (a - 1)) - 1 PROVE part(m + 1) = part(m) \o list[a - 1 + (m + 1)]
    <3> DEFINE s == SubSeq(list, a, a - 1 + m)
    <3>1. a - 1 + m \in a - 1 .. Len(list) /\ a - 1 + m < Len(list) /\ a - 1 + m + 1 = a - 1 + (m + 1)
          /\ a - 1 + (m + 1) \in 1 .. Len(list)
      BY <1>1 DEF n
    <3>2. s \in Seq(V) /\ Append(s, list[a - 1 + (m + 1)]) = SubSeq(list, a, a - 1 + (m + 1))
      <4> DEFINE y == a - 1 + m
      <4>1. y \in a - 1 .. Len(list) /\ y < Len(list) /\ y + 1 = a - 1 + (m + 1) /\ a \in 1 .. Len(list) + 1
        BY <3>1
      <4> HIDE DEF V, y
      <4>2. SubSeq(list, a, y) \in Seq(V) /\ Append(SubSeq(list, a, y), list[y + 1]) = SubSeq(list, a, y + 1)
        BY <2>1, <4>1, RunLaw
      <4> QED
        BY <4>1, <4>2 DEF y
    <3>3. s \in Seq(Seq(T)) /\ list[a - 1 + (m + 1)] \in Seq(T)
      <4> DEFINE z == a - 1 + (m + 1)
      <4>1. z \in 1 .. Len(list)
        BY <3>1
      <4> HIDE DEF z
      <4>2. list[z] \in V
        BY <2>1, <4>1
      <4>3. s \in Seq(V)
        BY <3>2
      <4> QED
        BY <4>2, <4>3 DEF z
    <3> HIDE DEF s
    <3>4. FlattenSeq(Append(s, list[a - 1 + (m + 1)])) = FlattenSeq(s) \o list[a - 1 + (m + 1)]
      BY <3>3, FlattenLaw
    <3> QED
      BY <3>2, <3>4 DEF s
  <2>3. part(0) = <<>>
    <3>1. SubSeq(list, a, a - 1 + 0) = <<>>
      BY <1>1
    <3>2. <<>> \in Seq(Seq(T))
      OBVIOUS
    <3> QED
      BY <3>1, <3>2, FlattenLaw
  <2> QED
    BY <2>2, <2>3
<1> HIDE DEF flat, part, n
<1>6. 0 \in A
  BY <1>1, <1>4, <1>5
<1>7. ASSUME NEW m \in 0 .. (b - (a - 1)) - 1, m \in A PROVE m + 1 \in A
  <2>1. a - 1 + m \in 0 .. n - 1 /\ (a - 1 + m) + 1 = a - 1 + (m + 1) /\ m + 1 \in 0 .. b - (a - 1)
    BY <1>1
  <2> QED
    BY <1>2, <1>5, <1>7, <2>1
<1>8. b - (a - 1) \in A
  <2> HIDE DEF A
  <2>1. \A m \in 0 .. b - (a - 1) : m \in A
    BY <1>1, <1>6, <1>7, UpTo
  <2> QED
    BY <1>1, <2>1
<1>9. a - 1 + (b - (a - 1)) = b
  BY <1>1
<1> QED
  BY <1>3, <1>8, <1>9 DEF flat, part

BlankRun(text, a, b) == \A i \in a .. b : IsSpace(text[i])
SolidRun(text, a, b) == \A i \in a .. b : ~IsSpace(text[i])
Starts(text) == {i \in DOMAIN text : ~IsSpace(text[i]) /\ (i = 1 \/ IsSpace(text[i - 1]))}
WordList(text) == [i \in DOMAIN text |-> WordFrom(text, i)]
WordPieces(text) == [i \in DOMAIN text |-> IF i \in Starts(text) THEN <<WordFrom(text, i)>> ELSE <<>>]

\* A word is the characters up to the first white space behind them.
LEMMA WordIs ==
  ASSUME NEW T, NEW text \in Seq(T), NEW i \in 1 .. Len(text), NEW e \in i .. Len(text),
         SolidRun(text, i, e), e = Len(text) \/ IsSpace(text[e + 1])
  PROVE  WordFrom(text, i) = SubSeq(text, i, e)
<1> DEFINE ends == {j \in i .. Len(text) : j = Len(text) \/ IsSpace(text[j + 1])}
<1>1. ends \in SUBSET Nat /\ e \in ends
  OBVIOUS
<1>2. ASSUME NEW j \in ends PROVE e <= j
  <2> SUFFICES ASSUME j < e PROVE FALSE
    OBVIOUS
  <2>1. j \in i .. Len(text) /\ j # Len(text) /\ j + 1 \in i .. e
    OBVIOUS
  <2> QED
    BY <2>1 DEF SolidRun
<1> HIDE DEF ends
<1>3. Min(ends) = e
  <2>1. Min(ends) \in ends /\ \A y \in ends : Min(ends) <= y
    BY <1>1, MinLaw
  <2>2. Min(ends) <= e /\ e <= Min(ends) /\ Min(ends) \in Nat /\ e \in Nat
    BY <1>1, <1>2, <2>1
  <2> QED
    BY <2>2
<1> QED
  BY <1>3 DEF WordFrom, ends

\* There is one at each character.
LEMMA WordThere ==
  ASSUME NEW T, NEW text \in Seq(T), NEW i \in 1 .. Len(text), ~IsSpace(text[i])
  PROVE  \E e \in i .. Len(text) :
           /\ SolidRun(text, i, e) /\ (e = Len(text) \/ IsSpace(text[e + 1]))
           /\ WordFrom(text, i) = SubSeq(text, i, e)
<1> DEFINE n == Len(text)
           ends == {j \in i .. n : j = n \/ IsSpace(text[j + 1])}
<1>1. n \in Nat /\ n \in ends /\ ends \in SUBSET Nat
  OBVIOUS
<1>2. PICK e \in ends : \A j \in ends : e <= j
  <2> HIDE DEF ends
  <2> QED
    BY <1>1, LeastExists
<1>3. e \in i .. n /\ (e = n \/ IsSpace(text[e + 1]))
  OBVIOUS
<1>4. SolidRun(text, i, e)
  <2> SUFFICES ASSUME NEW j \in i .. e, IsSpace(text[j]) PROVE FALSE
    BY DEF SolidRun
  <2>1. j # i /\ j - 1 \in i .. n /\ (j - 1) + 1 = j /\ ~(e <= j - 1)
    BY <1>3
  <2>2. j - 1 \in ends
    BY <2>1
  <2> QED
    BY <1>2, <2>1, <2>2
<1> HIDE DEF n, ends
<1> QED
  BY <1>3, <1>4, WordIs DEF n

\* The words of a text are the words that start at its starts, in order.
LEMMA WordsAt ==
  ASSUME NEW T, NEW text \in Seq(T)
  PROVE  /\ WordList(text) \in Seq(Seq(T)) /\ Len(WordList(text)) = Len(text)
         /\ Words(text) = At(WordList(text), Starts(text)) /\ Words(text) \in Seq(Seq(T))
         /\ WordPieces(text) \in Seq(Seq(Seq(T))) /\ Len(WordPieces(text)) = Len(text)
         /\ Words(text) = FlattenSeq(WordPieces(text))
<1> DEFINE n == Len(text)
           V == Seq(T)
<1>1. n \in Nat /\ DOMAIN text = 1 .. n
  OBVIOUS
<1>2. ASSUME NEW i \in 1 .. n PROVE WordFrom(text, i) \in V
  <2> DEFINE ends == {j \in i .. n : j = n \/ IsSpace(text[j + 1])}
  <2>1. n \in ends /\ ends \in SUBSET Nat
    BY <1>1
  <2> DEFINE e == Min(ends)
  <2>2. e \in ends
    <3> HIDE DEF ends
    <3> QED
      BY <2>1, MinLaw
  <2>3. WordFrom(text, i) = SubSeq(text, i, e)
    BY DEF WordFrom
  <2> HIDE DEF e
  <2>4. e \in i .. n
    BY <2>2
  <2> HIDE DEF ends
  <2>5. e \in i - 1 .. n /\ i \in 1 .. n + 1
    BY <1>1, <2>4
  <2> QED
    BY <2>3, <2>5, RunLaw
<1>3. WordList(text) \in [1 .. n -> V]
  <2> HIDE DEF V
  <2> QED
    BY <1>1, <1>2 DEF WordList
<1>4. WordList(text) \in Seq(V) /\ Len(WordList(text)) = n
  <2> HIDE DEF V, n
  <2> QED
    BY <1>1, <1>3
<1>5. Words(text) = FlattenSeq(WordPieces(text))
  <2>1. WordPieces(text) = [i \in DOMAIN text |-> IF ~IsSpace(text[i]) /\ (i = 1 \/ IsSpace(text[i - 1]))
                                                 THEN <<WordFrom(text, i)>> ELSE <<>>]
    BY DEF WordPieces, Starts
  <2> QED
    BY <2>1 DEF Words
<1>6. WordPieces(text) = [i \in DOMAIN WordList(text) |-> IF i \in Starts(text) THEN <<WordList(text)[i]>> ELSE <<>>]
  <2>1. DOMAIN WordList(text) = DOMAIN text /\ \A i \in DOMAIN text : WordList(text)[i] = WordFrom(text, i)
    BY DEF WordList
  <2> QED
    BY <2>1 DEF WordPieces
<1>7. WordPieces(text) \in [1 .. n -> Seq(V)]
  <2> HIDE DEF V
  <2> QED
    BY <1>1, <1>2 DEF WordPieces
<1>8. WordPieces(text) \in Seq(Seq(V)) /\ Len(WordPieces(text)) = n
  <2> HIDE DEF V, n
  <2> QED
    BY <1>1, <1>7, PiecesLaw
<1>9. Words(text) = At(WordList(text), Starts(text))
  BY <1>5, <1>6 DEF At
<1>10. Words(text) \in Seq(V)
  <2> HIDE DEF V, n
  <2> QED
    BY <1>5, <1>8, FlattenLaw
<1> QED
  BY <1>4, <1>5, <1>8, <1>9, <1>10

\* A word stands alone in none but solid characters.
LEMMA WordsSolid ==
  ASSUME NEW T, NEW text \in Seq(T), NEW w \in 1 .. Len(Words(text))
  PROVE  Words(text)[w] \in Seq(T) /\ Words(text)[w] # <<>> /\ SolidRun(Words(text)[w], 1, Len(Words(text)[w]))
<1> DEFINE list == WordList(text)
           S == Starts(text)
           pos == Places(list, S)
           p == pos[w]
           V == Seq(T)
<1>1. /\ WordList(text) \in Seq(V) /\ Len(WordList(text)) = Len(text)
      /\ Words(text) = At(WordList(text), Starts(text))
  BY WordsAt
<1>2. p \in Starts(text) /\ p \in 1 .. Len(text) /\ Words(text)[w] = WordList(text)[p]
  <2> HIDE DEF V, list, S
  <2>0. list \in Seq(V) /\ Len(list) = Len(text) /\ Words(text) = At(list, S)
    BY <1>1 DEF list, S
  <2>1. /\ Len(At(list, S)) = Len(pos) /\ pos \in Seq(Nat) /\ Range(pos) = S \cap (1 .. Len(list))
        /\ \A i \in 1 .. Len(At(list, S)) : At(list, S)[i] = list[pos[i]]
    BY <2>0, KeptLaw
  <2> HIDE DEF pos
  <2>2. w \in DOMAIN pos /\ w \in 1 .. Len(At(list, S))
    BY <2>0, <2>1
  <2>3. p \in Range(pos)
    BY <2>2 DEF Range
  <2> QED
    BY <2>0, <2>1, <2>2, <2>3 DEF list, S
<1>3. ~IsSpace(text[p]) /\ WordList(text)[p] = WordFrom(text, p)
  BY <1>2 DEF Starts, WordList
<1> HIDE DEF p
<1>4. PICK e \in p .. Len(text) : SolidRun(text, p, e) /\ WordFrom(text, p) = SubSeq(text, p, e)
  BY <1>2, <1>3, WordThere
<1> DEFINE s == SubSeq(text, p, e)
<1>5. e \in p - 1 .. Len(text) /\ p \in 1 .. Len(text) + 1 /\ e - p + 1 > 0 /\ e - p + 1 \in Nat
  BY <1>2
<1>6. s \in Seq(T) /\ Len(s) = e - p + 1 /\ \A i \in 1 .. e - p + 1 : s[i] = text[p + i - 1]
  BY <1>5, RunLaw
<1>7. SolidRun(s, 1, Len(s))
  <2> SUFFICES ASSUME NEW i \in 1 .. e - p + 1 PROVE ~IsSpace(s[i])
    BY <1>6 DEF SolidRun
  <2>1. p + i - 1 \in p .. e
    BY <1>2
  <2> QED
    BY <1>4, <1>6, <2>1 DEF SolidRun
<1>8. s # <<>>
  BY <1>5, <1>6
<1> QED
  BY <1>2, <1>3, <1>4, <1>6, <1>7, <1>8

\* What starts within a part of a text that is cut at white space is in the part.
LEMMA PieceOfPart ==
  ASSUME NEW T, NEW text \in Seq(T), NEW a \in 1 .. Len(text) + 1, NEW b \in a - 1 .. Len(text),
         a = 1 \/ IsSpace(text[a - 1]) \/ IsSpace(text[a]),
         b = Len(text) \/ IsSpace(text[b + 1]) \/ b = a - 1
  PROVE  WordPieces(SubSeq(text, a, b)) = SubSeq(WordPieces(text), a, b)
<1> DEFINE n == Len(text)
           part == SubSeq(text, a, b)
           m == b - a + 1
           V == Seq(Seq(T))
           of == WordPieces(text)
           mine == WordPieces(part)
           cut == SubSeq(of, a, b)
<1>1. /\ n \in Nat /\ a \in Nat /\ b \in Nat /\ m \in Nat /\ m = b - a + 1 /\ a >= 1 /\ b <= n /\ b >= a - 1
      /\ a \in 1 .. n + 1 /\ b \in a - 1 .. n
  OBVIOUS
<1>0. DOMAIN text = 1 .. n /\ n = Len(text)
  OBVIOUS
<1>2. part \in Seq(T) /\ Len(part) = m /\ \A i \in 1 .. m : part[i] = text[a + i - 1]
  BY RunLaw
<1>3. of \in Seq(V) /\ Len(of) = n
  BY WordsAt
<1>4. cut \in Seq(V) /\ Len(cut) = m /\ \A i \in 1 .. m : cut[i] = of[a + i - 1]
  <2> HIDE DEF V, of
  <2>1. a \in 1 .. Len(of) + 1 /\ b \in a - 1 .. Len(of)
    BY <1>3
  <2> QED
    BY <1>3, <2>1, RunLaw
<1> HIDE DEF part
<1>5. mine \in Seq(V) /\ Len(mine) = m
  BY <1>2, WordsAt
<1> HIDE DEF cut, m, n
<1>6. ASSUME NEW i \in 1 .. m PROVE mine[i] = cut[i]
  <2> DEFINE k == a + i - 1
  <2>1. /\ k \in 1 .. n /\ k \in a .. b /\ k \in Nat /\ k = a + i - 1 /\ i \in Nat /\ i >= 1 /\ i <= m
        /\ (i = 1 <=> k = a) /\ b # a - 1 /\ k <= b
    BY <1>1
  <2>2. part[i] = text[k] /\ DOMAIN part = 1 .. m
    BY <1>2
  <2> HIDE DEF k
  <2>3. i \in Starts(part) <=> k \in Starts(text)
    <3>1. CASE i = 1
      <4>1. k = a /\ (IsSpace(text[k]) \/ k = 1 \/ IsSpace(text[k - 1]))
        BY <2>1, <3>1
      <4> QED
        BY <1>0, <2>1, <2>2, <3>1, <4>1 DEF Starts
    <3>2. CASE i # 1
      <4>1. k # 1 /\ i - 1 \in 1 .. m /\ a + (i - 1) - 1 = k - 1
        BY <1>1, <2>1, <3>2
      <4>2. part[i - 1] = text[k - 1]
        BY <1>2, <4>1
      <4> QED
        BY <1>0, <2>1, <2>2, <3>2, <4>1, <4>2 DEF Starts
    <3> QED
      BY <3>1, <3>2
  <2>4. ASSUME i \in Starts(part) PROVE WordFrom(part, i) = WordFrom(text, k)
    <3>1. ~IsSpace(part[i]) /\ i \in 1 .. Len(part)
      BY <1>2, <2>4 DEF Starts
    <3>2. PICK e \in i .. Len(part) : SolidRun(part, i, e) /\ (e = Len(part) \/ IsSpace(part[e + 1]))
                                     /\ WordFrom(part, i) = SubSeq(part, i, e)
      BY <1>2, <3>1, WordThere
    <3> DEFINE f == a + e - 1
    <3>0. e \in i .. m
      BY <1>2
    <3>3. e \in Nat /\ e <= m /\ i <= e /\ f \in Nat /\ f >= k /\ f <= b /\ f <= n /\ f \in k .. n /\ f = a + e - 1
      BY <1>1, <2>1, <3>0
    <3> HIDE DEF f
    <3>4. SolidRun(text, k, f)
      <4> SUFFICES ASSUME NEW j \in k .. f PROVE ~IsSpace(text[j])
        BY DEF SolidRun
      <4>1. j - (a - 1) \in i .. e /\ j - (a - 1) \in 1 .. m /\ a + (j - (a - 1)) - 1 = j
        BY <1>1, <2>1, <3>3
      <4>2. part[j - (a - 1)] = text[j]
        BY <1>2, <4>1
      <4> QED
        BY <3>2, <4>1, <4>2 DEF SolidRun
    <3>5. f = n \/ IsSpace(text[f + 1])
      <4>1. CASE e = m
        <5>1. f = b
          BY <1>1, <3>3, <4>1
        <5> QED
          BY <1>0, <2>1, <5>1
      <4>2. CASE e # m
        <5>1. e + 1 \in 1 .. m /\ a + (e + 1) - 1 = f + 1
          BY <1>1, <2>1, <3>3, <4>2
        <5>2. part[e + 1] = text[f + 1]
          BY <1>2, <5>1
        <5> QED
          BY <1>2, <3>2, <4>2, <5>2
      <4> QED
        BY <4>1, <4>2
    <3>6. WordFrom(text, k) = SubSeq(text, k, f)
      <4>1. k \in 1 .. Len(text) /\ f \in k .. Len(text) /\ (f = Len(text) \/ IsSpace(text[f + 1]))
        BY <1>0, <2>1, <3>3, <3>5
      <4> QED
        BY <3>4, <4>1, WordIs
    <3>7. SubSeq(part, i, e) = SubSeq(text, k, f)
      <4> DEFINE x == SubSeq(part, i, e)
                 y == SubSeq(text, k, f)
                 d == e - i + 1
      <4>1. /\ i \in 1 .. Len(part) + 1 /\ e \in i - 1 .. Len(part)
            /\ k \in 1 .. Len(text) + 1 /\ f \in k - 1 .. Len(text) /\ f - k + 1 = d /\ d = e - i + 1 /\ d \in Nat
        <5>1. /\ i \in 1 .. m + 1 /\ e \in i - 1 .. m
              /\ k \in 1 .. n + 1 /\ f \in k - 1 .. n /\ f - k + 1 = d /\ d \in Nat
          BY <1>1, <2>1, <3>3
        <5> QED
          BY <1>0, <1>2, <5>1
      <4>2. x \in Seq(T) /\ Len(x) = d /\ \A j \in 1 .. d : x[j] = part[i + j - 1]
        <5>1. SubSeq(part, i, e) \in Seq(T) /\ Len(SubSeq(part, i, e)) = e - i + 1
              /\ \A j \in 1 .. e - i + 1 : SubSeq(part, i, e)[j] = part[i + j - 1]
          BY <1>2, <4>1, RunLaw
        <5> QED
          BY <4>1, <5>1
      <4>3. y \in Seq(T) /\ Len(y) = d /\ \A j \in 1 .. d : y[j] = text[k + j - 1]
        <5>1. SubSeq(text, k, f) \in Seq(T) /\ Len(SubSeq(text, k, f)) = f - k + 1
              /\ \A j \in 1 .. f - k + 1 : SubSeq(text, k, f)[j] = text[k + j - 1]
          BY <4>1, RunLaw
        <5> QED
          BY <4>1, <5>1
      <4> HIDE DEF x, y, d
      <4>4. ASSUME NEW j \in 1 .. d PROVE x[j] = y[j]
        <5>1. i + j - 1 \in 1 .. m /\ a + (i + j - 1) - 1 = k + j - 1
          BY <1>1, <2>1, <3>3, <4>1
        <5> QED
          BY <1>2, <4>2, <4>3, <5>1
      <4>5. x = y
        BY <4>2, <4>3, <4>4, SameSequence
      <4> QED
        BY <4>5 DEF x, y
    <3> QED
      BY <3>2, <3>6, <3>7
  <2>5. of[k] = IF k \in Starts(text) THEN <<WordFrom(text, k)>> ELSE <<>>
    BY <1>0, <2>1 DEF WordPieces
  <2>6. mine[i] = IF i \in Starts(part) THEN <<WordFrom(part, i)>> ELSE <<>>
    BY <2>2 DEF WordPieces
  <2>7. cut[i] = of[k]
    BY <1>4, <2>1
  <2> HIDE DEF k, mine, of
  <2> QED
    BY <2>3, <2>4, <2>5, <2>6, <2>7
<1> HIDE DEF mine, V
<1>7. mine = cut
  BY <1>4, <1>5, <1>6, SameSequence
<1> QED
  BY <1>7 DEF mine, cut, part, of

\* White space around a text does not change its words.
LEMMA WordsOfMiddle ==
  ASSUME NEW T, NEW text \in Seq(T), NEW a \in 1 .. Len(text) + 1, NEW b \in a - 1 .. Len(text),
         BlankRun(text, 1, a - 1), BlankRun(text, b + 1, Len(text))
  PROVE  Words(SubSeq(text, a, b)) = Words(text)
<1> DEFINE n == Len(text)
           part == SubSeq(text, a, b)
           V == Seq(T)
           list == WordPieces(text)
<1>1. /\ n \in Nat /\ a \in Nat /\ b \in Nat /\ a >= 1 /\ b <= n /\ b >= a - 1
      /\ a \in 1 .. n + 1 /\ b \in a - 1 .. n
  OBVIOUS
<1>0. DOMAIN text = 1 .. n /\ BlankRun(text, b + 1, n)
  OBVIOUS
<1>2. a = 1 \/ IsSpace(text[a - 1]) \/ IsSpace(text[a])
  <2>1. a = 1 \/ a - 1 \in 1 .. a - 1
    BY <1>1
  <2> QED
    BY <2>1 DEF BlankRun
<1>3. b = n \/ IsSpace(text[b + 1]) \/ b = a - 1
  <2> HIDE DEF n
  <2>1. b = n \/ b + 1 \in b + 1 .. n
    BY <1>1
  <2> QED
    BY <1>0, <2>1 DEF BlankRun
<1>4. WordPieces(part) = SubSeq(list, a, b)
  BY <1>2, <1>3, PieceOfPart
<1>5. list \in Seq(Seq(V)) /\ Len(list) = n /\ Words(text) = FlattenSeq(list)
  BY WordsAt
<1>6. part \in Seq(T)
  BY RunLaw
<1>7. Words(part) = FlattenSeq(WordPieces(part))
  <2> HIDE DEF part
  <2> QED
    BY <1>6, WordsAt
<1>8. ASSUME NEW i \in 1 .. Len(list), i < a \/ i > b PROVE list[i] = <<>>
  <2>1. i \in 1 .. n /\ (i \in 1 .. a - 1 \/ i \in b + 1 .. n)
    BY <1>1, <1>5, <1>8
  <2>2. IsSpace(text[i])
    BY <2>1 DEF BlankRun
  <2> QED
    BY <1>1, <2>1, <2>2 DEF WordPieces, Starts
<1>9. FlattenSeq(list) = FlattenSeq(SubSeq(list, a, b))
  <2> HIDE DEF list, V, n
  <2>1. a \in 1 .. Len(list) + 1 /\ b \in a - 1 .. Len(list)
    BY <1>1, <1>5
  <2> QED
    BY <1>5, <1>8, <2>1, FlattenMiddle
<1> QED
  BY <1>4, <1>5, <1>7, <1>9

\* A word behind white space is one word more.
LEMMA WordAdded ==
  ASSUME NEW T, NEW text \in Seq(T), NEW a \in 0 .. Len(text), NEW k \in a + 1 .. Len(text),
         BlankRun(text, a + 1, k - 1), SolidRun(text, k, Len(text)), a = 0 \/ a + 1 < k
  PROVE  Words(text) = Append(Words(SubSeq(text, 1, a)), SubSeq(text, k, Len(text)))
<1> DEFINE n == Len(text)
           part == SubSeq(text, 1, a)
           V == Seq(T)
           list == WordPieces(text)
           word == SubSeq(text, k, n)
<1>1. n \in Nat /\ a \in 0 .. n /\ k \in a + 1 .. n /\ k \in 1 .. n /\ DOMAIN text = 1 .. n
  OBVIOUS
<1>2. WordPieces(part) = SubSeq(list, 1, a)
  <2>1. 1 \in 1 .. n + 1 /\ a \in 1 - 1 .. n /\ (a = 1 - 1 \/ a + 1 \in a + 1 .. k - 1)
    BY <1>1
  <2>2. a = n \/ IsSpace(text[a + 1]) \/ a = 1 - 1
    BY <2>1 DEF BlankRun
  <2> QED
    BY <2>1, <2>2, PieceOfPart
<1>3. list \in Seq(Seq(V)) /\ Len(list) = n /\ Words(text) = FlattenSeq(list)
  BY WordsAt
<1>4. part \in Seq(T) /\ word \in Seq(T)
  <2>1. 1 \in 1 .. Len(text) + 1 /\ a \in 1 - 1 .. Len(text) /\ k \in 1 .. Len(text) + 1 /\ n \in k - 1 .. Len(text)
    BY <1>1
  <2> QED
    BY <2>1, RunLaw
<1>5. Words(part) = FlattenSeq(WordPieces(part)) /\ Words(part) \in Seq(V)
  <2> HIDE DEF part
  <2> QED
    BY <1>4, WordsAt
<1>6. ASSUME NEW i \in a + 1 .. n, i # k PROVE list[i] = <<>>
  <2>1. i \in 1 .. n /\ (i \in a + 1 .. k - 1 \/ (i \in k .. n /\ i # 1 /\ i - 1 \in k .. n))
    BY <1>1, <1>6
  <2>2. IsSpace(text[i]) \/ (i # 1 /\ ~IsSpace(text[i - 1]))
    BY <2>1 DEF BlankRun, SolidRun
  <2> QED
    BY <1>1, <2>1, <2>2 DEF WordPieces, Starts
<1>7. list[k] = <<word>>
  <2>1. k \in k .. n /\ (k = 1 \/ k - 1 \in a + 1 .. k - 1) /\ n \in k .. n
    BY <1>1
  <2>2. ~IsSpace(text[k]) /\ (k = 1 \/ IsSpace(text[k - 1]))
    BY <2>1 DEF BlankRun, SolidRun
  <2>3. WordFrom(text, k) = word
    BY <1>1, <2>1, WordIs
  <2> HIDE DEF word
  <2> QED
    BY <1>1, <2>2, <2>3 DEF WordPieces, Starts
<1>8. FlattenSeq(list) = FlattenSeq(SubSeq(list, 1, a)) \o list[k]
  <2> HIDE DEF list, V, n
  <2>1. a \in 0 .. Len(list) /\ k \in a + 1 .. Len(list) + 1 /\ k # Len(list) + 1
    BY <1>1, <1>3
  <2> QED
    BY <1>3, <1>6, <2>1, FlattenTail
<1> HIDE DEF part, word, list
<1>9. Append(Words(part), word) = Words(part) \o <<word>>
  BY <1>4, <1>5, AppendIsConcat
<1>10. Words(text) = Append(Words(part), word)
  BY <1>2, <1>3, <1>5, <1>7, <1>8, <1>9
<1> QED
  BY <1>10 DEF part, word

-----------------------------------------------------------------------------
(* Locating a quote.                                                        *)

\* One word further in WordsEnd.
Blanks(text, j) == {k \in j .. Len(text) : \A m \in j .. k : IsSpace(text[m])}
Resume(text, i, j) == IF j = i THEN i ELSE IF Blanks(text, j) = {} THEN 0 ELSE Max(Blanks(text, j)) + 1
Onward(text, i, j, word) ==
  IF j # 0 /\ Resume(text, i, j) # 0 /\ Occurs(word, text, Resume(text, i, j))
  THEN Resume(text, i, j) + Len(word) ELSE 0

\* White space goes on to one place and no further.
LEMMA ResumeLaw ==
  ASSUME NEW T, NEW text \in Seq(T), NEW i \in 1 .. Len(text), NEW j \in Nat
  PROVE  /\ Resume(text, i, j) \in Nat
         /\ j = i => Resume(text, i, j) = i
         /\ j # i /\ j # 0 /\ Resume(text, i, j) # 0 =>
              j < Resume(text, i, j) /\ BlankRun(text, j, Resume(text, i, j) - 1)
         /\ \A k \in 1 .. Len(text) :
              j # i /\ j # 0 /\ j < k /\ BlankRun(text, j, k - 1) /\ ~IsSpace(text[k])
                => Resume(text, i, j) = k
<1> DEFINE n == Len(text)
           S == Blanks(text, j)
           r == Resume(text, i, j)
<1>1. n \in Nat /\ i \in Nat /\ j \in Nat
  OBVIOUS
<1>2. S \in SUBSET (0 .. n)
  <2> HIDE DEF n
  <2> QED
    BY <1>1 DEF Blanks, n
<1>3. ASSUME S # {} PROVE Max(S) \in S /\ \A y \in S : Max(S) >= y
  <2> HIDE DEF S, n
  <2> QED
    BY <1>1, <1>2, <1>3, GreatestExists
<1>4. r = IF j = i THEN i ELSE IF S = {} THEN 0 ELSE Max(S) + 1
  BY DEF Resume
<1>5. \A k : k \in S <=> k \in j .. n /\ BlankRun(text, j, k)
  BY DEF Blanks, BlankRun
<1> DEFINE top == Max(S)
<1> HIDE DEF S, r, top
<1>6. S # {} => top \in 0 .. n /\ top \in j .. n /\ BlankRun(text, j, top) /\ \A y \in S : top >= y
  BY <1>2, <1>3, <1>5 DEF top
<1>7. r = IF j = i THEN i ELSE IF S = {} THEN 0 ELSE top + 1
  BY <1>4 DEF top
<1>8. r \in Nat /\ (j = i => r = i)
  BY <1>1, <1>6, <1>7
<1>9. ASSUME j # i, j # 0, r # 0 PROVE j < r /\ BlankRun(text, j, r - 1)
  <2>1. S # {} /\ r = top + 1 /\ top \in j .. n
    BY <1>6, <1>7, <1>9
  <2> HIDE DEF n
  <2>2. j < r /\ r - 1 = top
    BY <1>1, <2>1
  <2> QED
    BY <1>6, <2>1, <2>2
<1>10. ASSUME NEW k \in 1 .. n, j # i, j # 0, j < k, BlankRun(text, j, k - 1), ~IsSpace(text[k])
       PROVE  r = k
  <2> HIDE DEF n
  <2>1. k - 1 \in j .. n /\ k \in Nat /\ k - 1 \in Nat
    BY <1>1, <1>10
  <2>2. k - 1 \in S
    BY <1>5, <1>10, <2>1
  <2>3. top \in j .. n /\ top >= k - 1 /\ BlankRun(text, j, top) /\ r = top + 1
    BY <1>6, <1>7, <1>10, <2>2
  <2>4. ~(top >= k)
    <3> SUFFICES ASSUME top >= k PROVE FALSE
      OBVIOUS
    <3>1. k \in j .. top
      BY <1>1, <1>10, <2>1, <2>3
    <3> QED
      BY <1>10, <2>3, <3>1 DEF BlankRun
  <2>5. top \in Nat
    BY <1>1, <2>3
  <2> QED
    BY <2>1, <2>3, <2>4, <2>5
<1> QED
  BY <1>8, <1>9, <1>10 DEF r, n

\* How far the words have been matched, one after the other.
Matching(after, words, text, i) ==
  /\ after \in [0 .. Len(words) -> Nat] /\ after[0] = i
  /\ \A w \in 1 .. Len(words) : after[w] = Onward(text, i, after[w - 1], words[w])
  /\ WordsEnd(words, text, i) = after[Len(words)]

\* The words are matched one after the other.
LEMMA WordsEndFold ==
  ASSUME NEW T, NEW text \in Seq(T), NEW words \in Seq(Seq(T)), NEW i \in 1 .. Len(text)
  PROVE  \E after : Matching(after, words, text, i)
<1> DEFINE n == Len(words)
           V == Nat
           F == [q \in V \X (1 .. n) |-> Onward(text, i, q[1], words[q[2]])]
           Eq(iter) == iter = [s \in SUBSET (1 .. n) |->
             IF s = {} THEN i ELSE Onward(text, i, iter[s \ {Max(s)}], words[Max(s)])]
           iter == CHOOSE iter : Eq(iter)
           after == [w \in 0 .. n |-> iter[1 .. w]]
<1>0. n \in Nat /\ DOMAIN words = 1 .. n /\ \A w \in 1 .. n : words[w] \in Seq(T)
  OBVIOUS
<1>1. WordsEnd(words, text, i) = iter[1 .. n]
  BY <1>0 DEF Onward, Resume, Blanks, WordsEnd, FoldLeft, MapThenFoldSet
<1>2. ASSUME NEW j \in Nat, NEW w \in 1 .. n PROVE Onward(text, i, j, words[w]) \in Nat
  <2> HIDE DEF n
  <2>1. Len(words[w]) \in Nat
    <3>1. words[w] \in Seq(T)
      BY <1>0
    <3> QED
      BY <3>1
  <2>2. Resume(text, i, j) \in Nat
    BY ResumeLaw
  <2> QED
    BY <2>1, <2>2 DEF Onward
<1>3. F \in [V \X (1 .. n) -> V]
  <2>1. ASSUME NEW q \in V \X (1 .. n) PROVE Onward(text, i, q[1], words[q[2]]) \in V
    BY <1>2
  <2> HIDE DEF V, n
  <2> QED
    BY <2>1
<1>4. PICK fold \in [SUBSET (1 .. n) -> V] : Unfolds(fold, V, i, n, F)
  <2>1. i \in V
    OBVIOUS
  <2> HIDE DEF F, V, n
  <2> QED
    BY <1>0, <1>3, <2>1, FoldExists
<1>5. Eq(fold)
  <2>1. ASSUME NEW s \in SUBSET (1 .. n), s # {}
        PROVE  F[<<fold[s \ {Max(s)}], Max(s)>>] = Onward(text, i, fold[s \ {Max(s)}], words[Max(s)])
    <3>1. Max(s) \in s
      <4> HIDE DEF n
      <4> QED
        BY <1>0, <2>1, MaxMember
    <3> HIDE DEF V, n
    <3> QED
      BY <3>1
  <2> HIDE DEF F, V, n
  <2> QED
    BY <1>4, <2>1 DEF Unfolds
<1>6. Eq(iter)
  <2> HIDE DEF Eq
  <2> QED
    BY <1>5
<1>7. iter[{}] = i /\ \A w \in 1 .. n : iter[1 .. w] = Onward(text, i, iter[1 .. w - 1], words[w])
  <2>1. ASSUME NEW s \in SUBSET (1 .. n)
        PROVE  iter[s] = IF s = {} THEN i ELSE Onward(text, i, iter[s \ {Max(s)}], words[Max(s)])
    <3> HIDE DEF iter, n
    <3> QED
      BY <1>6, Zenon
  <2> HIDE DEF iter, n
  <2>2. ASSUME NEW w \in 1 .. n PROVE iter[1 .. w] = Onward(text, i, iter[1 .. w - 1], words[w])
    <3>1. /\ 1 .. w \in SUBSET (1 .. n) /\ 1 .. w # {}
          /\ Max(1 .. w) = w /\ (1 .. w) \ {Max(1 .. w)} = 1 .. w - 1
      BY <1>0, Prefix
    <3> QED
      BY <2>1, <3>1
  <2> QED
    BY <2>1, <2>2
<1>8. 1 .. 0 = {}
  OBVIOUS
<1> HIDE DEF iter, n
<1>9. after[0] = i /\ \A w \in 1 .. n : after[w] = Onward(text, i, after[w - 1], words[w])
  BY <1>0, <1>7, <1>8
<1>10. after \in [0 .. n -> Nat]
  <2> DEFINE S == {w \in 0 .. n : after[w] \in Nat}
  <2>1. 0 \in S
    BY <1>0, <1>9
  <2>2. ASSUME NEW k \in 0 .. n - 1, k \in S PROVE k + 1 \in S
    <3>1. after[k] \in Nat /\ k + 1 \in 1 .. n /\ (k + 1) - 1 = k
      BY <1>0, <2>2
    <3> HIDE DEF after
    <3>2. after[k + 1] = Onward(text, i, after[k], words[k + 1])
      BY <1>9, <3>1
    <3>3. after[k + 1] \in Nat
      BY <1>2, <3>1, <3>2
    <3> QED
      BY <3>1, <3>3
  <2>3. \A k \in 0 .. n : k \in S
    <3> HIDE DEF S
    <3> QED
      BY <1>0, <2>1, <2>2, UpTo
  <2> QED
    BY <2>3
<1>11. WordsEnd(words, text, i) = after[n]
  BY <1>0, <1>1
<1> HIDE DEF after
<1> QED
  BY <1>9, <1>10, <1>11 DEF Matching, n

\* A part of a part is a part.
LEMMA PartOfPart ==
  ASSUME NEW T, NEW text \in Seq(T), NEW a \in 1 .. Len(text) + 1, NEW b \in a - 1 .. Len(text),
         NEW c \in 1 .. b - a + 2, NEW d \in c - 1 .. b - a + 1
  PROVE  SubSeq(SubSeq(text, a, b), c, d) = SubSeq(text, a + c - 1, a + d - 1)
<1> DEFINE part == SubSeq(text, a, b)
           x == SubSeq(part, c, d)
           y == SubSeq(text, a + c - 1, a + d - 1)
           n == d - c + 1
<1>1. part \in Seq(T) /\ Len(part) = b - a + 1 /\ \A i \in 1 .. b - a + 1 : part[i] = text[a + i - 1]
  BY RunLaw
<1>2. /\ a \in Nat /\ b \in Nat /\ c \in Nat /\ d \in Nat /\ n \in Nat /\ n = d - c + 1 /\ b - a + 1 \in Nat
      /\ a + c - 1 \in 1 .. Len(text) + 1 /\ a + d - 1 \in (a + c - 1) - 1 .. Len(text)
      /\ (a + d - 1) - (a + c - 1) + 1 = n
  OBVIOUS
<1> HIDE DEF part, n
<1>3. x \in Seq(T) /\ Len(x) = n /\ \A i \in 1 .. n : x[i] = part[c + i - 1]
  <2>1. c \in 1 .. Len(part) + 1 /\ d \in c - 1 .. Len(part)
    BY <1>1, <1>2
  <2>2. SubSeq(part, c, d) \in Seq(T) /\ Len(SubSeq(part, c, d)) = d - c + 1
        /\ \A i \in 1 .. d - c + 1 : SubSeq(part, c, d)[i] = part[c + i - 1]
    BY <1>1, <2>1, RunLaw
  <2> QED
    BY <1>2, <2>2
<1>4. y \in Seq(T) /\ Len(y) = n /\ \A i \in 1 .. n : y[i] = text[(a + c - 1) + i - 1]
  <2> DEFINE f == a + c - 1
             g == a + d - 1
  <2>1. f \in 1 .. Len(text) + 1 /\ g \in f - 1 .. Len(text) /\ g - f + 1 = n
    BY <1>2
  <2> HIDE DEF f, g
  <2>2. SubSeq(text, f, g) \in Seq(T) /\ Len(SubSeq(text, f, g)) = g - f + 1
        /\ \A i \in 1 .. g - f + 1 : SubSeq(text, f, g)[i] = text[f + i - 1]
    BY <2>1, RunLaw
  <2> QED
    BY <2>1, <2>2 DEF f, g
<1> HIDE DEF x, y
<1>5. ASSUME NEW i \in 1 .. n PROVE x[i] = y[i]
  <2>1. c + i - 1 \in 1 .. b - a + 1 /\ a + (c + i - 1) - 1 = (a + c - 1) + i - 1
    BY <1>2
  <2> QED
    BY <1>1, <1>3, <1>4, <2>1
<1>6. x = y
  BY <1>3, <1>4, <1>5, SameSequence
<1> QED
  BY <1>6 DEF x, y, part

\* A text without characters but white space is the only one without words.
LEMMA WordsNone ==
  ASSUME NEW T, NEW text \in Seq(T)
  PROVE  Words(text) = <<>> <=> BlankRun(text, 1, Len(text))
<1> DEFINE n == Len(text)
           V == Seq(T)
           list == WordList(text)
           S == Starts(text)
           pos == Places(list, S)
<1>1. list \in Seq(V) /\ Len(list) = n /\ Words(text) = At(list, S) /\ Words(text) \in Seq(V)
  BY WordsAt
<1>2. S \subseteq 1 .. n /\ n \in Nat /\ DOMAIN text = 1 .. n
  BY DEF Starts
<1>3. Len(At(list, S)) = Len(pos) /\ pos \in Seq(Nat) /\ Range(pos) = S
  <2> HIDE DEF V, list, S, n
  <2>1. /\ Len(At(list, S)) = Len(pos) /\ pos \in Seq(Nat)
        /\ Range(pos) = S \cap (1 .. Len(list))
    BY <1>1, KeptLaw
  <2> QED
    BY <1>1, <1>2, <2>1
<1>4. Words(text) = <<>> <=> S = {}
  <2> HIDE DEF V, list, S, n, pos
  <2>1. (Words(text) = <<>> <=> Len(pos) = 0) /\ DOMAIN pos = 1 .. Len(pos) /\ Len(pos) \in Nat
    BY <1>1, <1>3
  <2>2. Len(pos) = 0 <=> DOMAIN pos = {}
    <3> DEFINE l == Len(pos)
    <3>1. l \in Nat /\ DOMAIN pos = 1 .. l
      BY <2>1
    <3> HIDE DEF l
    <3>2. l = 0 <=> 1 .. l = {}
      BY <3>1
    <3> QED
      BY <3>1, <3>2 DEF l
  <2>3. DOMAIN pos = {} <=> S = {}
    BY <1>3 DEF Range
  <2> QED
    BY <2>1, <2>2, <2>3
<1>5. ASSUME NEW i \in 1 .. n, ~IsSpace(text[i]) PROVE S # {}
  <2> DEFINE solid == {j \in 1 .. n : ~IsSpace(text[j])}
  <2>1. solid \in SUBSET Nat /\ i \in solid
    BY <1>5
  <2>2. PICK j \in solid : \A y \in solid : j <= y
    <3> HIDE DEF solid
    <3> QED
      BY <2>1, LeastExists
  <2>3. j \in 1 .. n /\ ~IsSpace(text[j])
    OBVIOUS
  <2>4. j = 1 \/ IsSpace(text[j - 1])
    <3> SUFFICES ASSUME j # 1, ~IsSpace(text[j - 1]) PROVE FALSE
      OBVIOUS
    <3>1. j - 1 \in 1 .. n /\ ~(j <= j - 1)
      BY <1>2, <2>3
    <3> QED
      BY <2>2, <3>1
  <2> QED
    BY <1>2, <2>3, <2>4 DEF Starts
<1>6. BlankRun(text, 1, n) => S = {}
  BY <1>2 DEF Starts, BlankRun
<1>7. S = {} => BlankRun(text, 1, n)
  BY <1>5 DEF BlankRun
<1> QED
  BY <1>4, <1>6, <1>7

\* Between two words is white space.
LEMMA BetweenStarts ==
  ASSUME NEW T, NEW text \in Seq(T), NEW p \in 1 .. Len(text), NEW e \in p .. Len(text), NEW q \in 1 .. Len(text),
         SolidRun(text, p, e), e = Len(text) \/ IsSpace(text[e + 1]),
         q \in Starts(text), p < q, \A m \in p + 1 .. q - 1 : m \notin Starts(text)
  PROVE  e + 1 < q /\ BlankRun(text, e + 1, q - 1)
<1> DEFINE n == Len(text)
<1>1. n \in Nat /\ p \in Nat /\ e \in Nat /\ q \in Nat /\ p >= 1 /\ p <= e /\ e <= n /\ p < q /\ q <= n
  OBVIOUS
<1>2. IsSpace(text[q - 1]) /\ ~IsSpace(text[q]) /\ DOMAIN text = 1 .. n
  BY DEF Starts
<1> HIDE DEF n
<1>3. e + 1 < q
  <2> SUFFICES ASSUME q <= e + 1 PROVE FALSE
    BY <1>1
  <2>1. q - 1 \in p .. e
    BY <1>1
  <2> QED
    BY <1>2, <2>1 DEF SolidRun
<1>4. ASSUME NEW m \in e + 1 .. q - 1, ~IsSpace(text[m]) PROVE FALSE
  <2> DEFINE solid == {j \in e + 1 .. q - 1 : ~IsSpace(text[j])}
  <2>1. solid \in SUBSET Nat /\ m \in solid
    BY <1>1, <1>4
  <2>2. PICK j \in solid : \A y \in solid : j <= y
    <3> HIDE DEF solid
    <3> QED
      BY <2>1, LeastExists
  <2>3. j \in e + 1 .. q - 1 /\ ~IsSpace(text[j])
    OBVIOUS
  <2>4. IsSpace(text[j - 1])
    <3>1. CASE j = e + 1
      <4>1. IsSpace(text[e + 1])
        BY <1>1, <1>3 DEF n
      <4> QED
        BY <2>3, <3>1, <4>1
    <3>2. CASE j # e + 1
      <4>1. j - 1 \in e + 1 .. q - 1 /\ ~(j <= j - 1)
        BY <1>1, <2>3, <3>2
      <4> QED
        BY <2>2, <4>1
    <3> QED
      BY <3>1, <3>2
  <2>5. j \in 1 .. n /\ j \in p + 1 .. q - 1
    BY <1>1, <2>3
  <2>6. j \in Starts(text)
    BY <1>2, <2>3, <2>4, <2>5 DEF Starts
  <2> QED
    BY <2>5, <2>6
<1> QED
  BY <1>3, <1>4 DEF BlankRun

\* Where WordsEnd says that words are, they are.
LEMMA MatchIsTrue ==
  ASSUME NEW T, NEW text \in Seq(T), NEW words \in Seq(Seq(T)), words # <<>>,
         \A w \in 1 .. Len(words) : words[w] # <<>> /\ SolidRun(words[w], 1, Len(words[w])),
         NEW i \in 1 .. Len(text), WordsEnd(words, text, i) # 0
  PROVE  /\ WordsEnd(words, text, i) \in i + 1 .. Len(text) + 1
         /\ Words(SubSeq(text, i, WordsEnd(words, text, i) - 1)) = words
<1> DEFINE n == Len(words)
           L == Len(text)
           V == Seq(T)
<1>1. n \in Nat /\ L \in Nat /\ i \in Nat /\ i >= 1 /\ i <= L /\ n # 0
  OBVIOUS
<1>0. PICK after : Matching(after, words, text, i)
  BY WordsEndFold
<1>2. /\ after \in [0 .. n -> Nat] /\ after[0] = i
      /\ \A w \in 1 .. n : after[w] = Onward(text, i, after[w - 1], words[w])
      /\ WordsEnd(words, text, i) = after[n]
  BY <1>0 DEF Matching
<1> DEFINE Good(w) == /\ after[w] \in i + 1 .. L + 1
                      /\ Words(SubSeq(text, i, after[w] - 1)) = SubSeq(words, 1, w)
           A == {w \in 0 .. n : w = 0 \/ after[w] = 0 \/ Good(w)}
<1>3. \A w \in 1 .. n : words[w] \in V /\ words[w] # <<>> /\ SolidRun(words[w], 1, Len(words[w]))
  OBVIOUS
<1>4. SubSeq(words, 1, 0) = <<>> /\ SubSeq(words, 1, n) = words
  OBVIOUS
<1>5. \A w \in 0 .. n - 1 : Append(SubSeq(words, 1, w), words[w + 1]) = SubSeq(words, 1, w + 1)
  <2> TAKE w \in 0 .. n - 1
  <2>1. words \in Seq(V) /\ 1 \in 1 .. Len(words) + 1 /\ w \in 1 - 1 .. Len(words) /\ w < Len(words)
    OBVIOUS
  <2> HIDE DEF V
  <2> QED
    BY <2>1, RunLaw
<1> HIDE DEF n, L
<1>6. 0 \in A
  BY <1>1
<1>7. ASSUME NEW w \in 0 .. n - 1, w \in A PROVE w + 1 \in A
  <2> DEFINE word == words[w + 1]
             j == after[w]
             k == Resume(text, i, j)
             d == Len(word)
  <2>1. w \in Nat /\ w \in 0 .. n /\ w + 1 \in 1 .. n /\ w + 1 \in 0 .. n /\ (w + 1) - 1 = w
    BY <1>1
  <2>2. word \in Seq(T) /\ d \in Nat /\ d # 0 /\ SolidRun(word, 1, d)
    BY <1>3, <2>1
  <2>3. after[w + 1] = Onward(text, i, j, word) /\ j \in Nat
    BY <1>2, <2>1
  <2> HIDE DEF word, j, d
  <2>4. CASE after[w + 1] = 0
    BY <2>1, <2>4
  <2>5. CASE after[w + 1] # 0
    <3>1. j # 0 /\ k # 0 /\ Occurs(word, text, k) /\ after[w + 1] = k + d
      BY <2>3, <2>5 DEF Onward, d
    <3>2. /\ k \in Nat /\ (j = i => k = i)
          /\ j # i => j < k /\ BlankRun(text, j, k - 1)
      BY <2>3, <3>1, ResumeLaw
    <3> HIDE DEF k
    <3> DEFINE e == k + d - 1
               c == SubSeq(text, i, e)
               a == IF w = 0 THEN 0 ELSE j - i
    <3>3. w # 0 => j \in i + 1 .. L + 1 /\ Words(SubSeq(text, i, j - 1)) = SubSeq(words, 1, w)
      BY <1>7, <3>1 DEF j
    <3>4. w = 0 => j = i
      BY <1>2 DEF j
    <3>5. /\ k >= i /\ k \in Nat /\ a \in Nat /\ i + a <= k /\ i + a = j /\ (a = 0 <=> w = 0)
          /\ (a = 0 => k = i) /\ (a # 0 => i + a < k)
      BY <1>1, <2>1, <2>3, <3>2, <3>3, <3>4
    <3>6. e <= L /\ SubSeq(text, k, e) = word
      BY <3>1 DEF Occurs, d, L
    <3> HIDE DEF e
    <3>7. e \in Nat /\ e = k + d - 1 /\ e >= k
      BY <2>2, <3>5 DEF e
    <3> HIDE DEF a
    <3>8. /\ i \in 1 .. L + 1 /\ e \in i - 1 .. L /\ i + a - 1 \in i - 1 .. L /\ k \in 1 .. L + 1 /\ e \in k - 1 .. L
          /\ e - i + 1 \in Nat /\ a \in 0 .. e - i + 1 /\ k - i + 1 \in a + 1 .. e - i + 1
      <4> HIDE DEF c, L
      <4>1. i \in Nat /\ i >= 1 /\ i <= L /\ L \in Nat /\ a \in Nat /\ k \in Nat /\ e \in Nat
            /\ i + a <= k /\ k <= e /\ e <= L
        BY <1>1, <3>5, <3>6, <3>7
      <4>2. i \in 1 .. L + 1 /\ e \in i - 1 .. L /\ i + a - 1 \in i - 1 .. L
        BY <4>1
      <4>3. k \in 1 .. L + 1 /\ e \in k - 1 .. L
        BY <4>1
      <4>4. e - i + 1 \in Nat /\ a \in 0 .. e - i + 1 /\ k - i + 1 \in a + 1 .. e - i + 1
        BY <4>1
      <4> QED
        BY <4>2, <4>3, <4>4
    <3>9. c \in Seq(T) /\ Len(c) = e - i + 1 /\ \A x \in 1 .. e - i + 1 : c[x] = text[i + x - 1]
      BY <3>8, RunLaw DEF L
    <3>10. SubSeq(c, 1, a) = SubSeq(text, i, i + a - 1)
      <4>1. 1 \in 1 .. e - i + 2 /\ a \in 1 - 1 .. e - i + 1 /\ i + 1 - 1 = i
        BY <1>1, <3>8
      <4>2. SubSeq(SubSeq(text, i, e), 1, a) = SubSeq(text, i + 1 - 1, i + a - 1)
        BY <3>8, <4>1, PartOfPart DEF L
      <4> QED
        BY <4>1, <4>2
    <3>11. SubSeq(c, k - i + 1, e - i + 1) = SubSeq(text, k, e)
      <4>1. /\ k - i + 1 \in 1 .. e - i + 2 /\ e - i + 1 \in (k - i + 1) - 1 .. e - i + 1
            /\ i + (k - i + 1) - 1 = k /\ i + (e - i + 1) - 1 = e
        <5>1. k - i + 1 \in 1 .. e - i + 2 /\ i + (k - i + 1) - 1 = k
          BY <1>1, <3>5, <3>7
        <5>2. e - i + 1 \in (k - i + 1) - 1 .. e - i + 1 /\ i + (e - i + 1) - 1 = e
          BY <1>1, <3>5, <3>7
        <5> QED
          BY <5>1, <5>2
      <4>2. SubSeq(SubSeq(text, i, e), k - i + 1, e - i + 1)
              = SubSeq(text, i + (k - i + 1) - 1, i + (e - i + 1) - 1)
        BY <3>8, <4>1, PartOfPart DEF L
      <4> QED
        BY <4>1, <4>2
    <3> HIDE DEF c
    <3>12. BlankRun(c, a + 1, (k - i + 1) - 1)
      <4> SUFFICES ASSUME NEW x \in a + 1 .. (k - i + 1) - 1 PROVE IsSpace(c[x])
        BY DEF BlankRun
      <4>1. a # 0
        BY <1>1, <3>5
      <4>2. x \in 1 .. e - i + 1 /\ i + x - 1 \in i + a .. k - 1 /\ j # i
        BY <1>1, <3>5, <3>7, <4>1
      <4>3. IsSpace(text[i + x - 1])
        BY <3>2, <3>5, <4>2 DEF BlankRun
      <4> QED
        BY <3>9, <4>2, <4>3
    <3>13. SolidRun(c, k - i + 1, Len(c))
      <4> SUFFICES ASSUME NEW x \in k - i + 1 .. e - i + 1 PROVE ~IsSpace(c[x])
        BY <3>9 DEF SolidRun
      <4>1. x \in 1 .. e - i + 1 /\ x - (k - i) \in 1 .. d /\ i + x - 1 = k + (x - (k - i)) - 1
            /\ x - (k - i) \in 1 .. e - k + 1
        BY <1>1, <2>2, <3>5, <3>7
      <4>2. SubSeq(text, k, e)[x - (k - i)] = text[k + (x - (k - i)) - 1]
        BY <3>8, <4>1, RunLaw DEF L
      <4>3. ~IsSpace(word[x - (k - i)])
        BY <2>2, <4>1 DEF SolidRun
      <4> QED
        BY <3>6, <3>9, <4>1, <4>2, <4>3
    <3>14. Words(c) = Append(Words(SubSeq(c, 1, a)), SubSeq(c, k - i + 1, Len(c)))
      <4>1. a \in 0 .. Len(c) /\ k - i + 1 \in a + 1 .. Len(c)
        BY <3>8, <3>9
      <4>2. a = 0 \/ a + 1 < k - i + 1
        BY <1>1, <3>5
      <4> DEFINE k1 == k - i + 1
      <4>3. k1 \in a + 1 .. Len(c) /\ (a = 0 \/ a + 1 < k1) /\ BlankRun(c, a + 1, k1 - 1) /\ SolidRun(c, k1, Len(c))
        BY <3>12, <3>13, <4>1, <4>2
      <4> HIDE DEF k1
      <4>4. Words(c) = Append(Words(SubSeq(c, 1, a)), SubSeq(c, k1, Len(c)))
        BY <3>9, <4>1, <4>3, WordAdded
      <4> QED
        BY <4>4 DEF k1
    <3>15. Words(SubSeq(c, 1, a)) = SubSeq(words, 1, w)
      <4>1. CASE w = 0
        <5>1. SubSeq(c, 1, a) = <<>> /\ a = 0
          BY <3>5, <3>9, <4>1
        <5>2. Words(<<>>) = <<>>
          <6>1. <<>> \in Seq(T) /\ BlankRun(<<>>, 1, Len(<<>>))
            BY DEF BlankRun
          <6> QED
            BY <6>1, WordsNone
        <5> QED
          BY <1>4, <4>1, <5>1, <5>2
      <4>2. CASE w # 0
        <5>1. i + a - 1 = j - 1
          BY <1>1, <3>5
        <5>2. SubSeq(c, 1, a) = SubSeq(text, i, j - 1)
          BY <3>10, <5>1
        <5> QED
          BY <3>3, <4>2, <5>2
      <4> QED
        BY <4>1, <4>2
    <3>16. Words(c) = SubSeq(words, 1, w + 1)
      <4>1. SubSeq(c, k - i + 1, Len(c)) = word
        BY <3>6, <3>9, <3>11
      <4>2. Append(SubSeq(words, 1, w), words[w + 1]) = SubSeq(words, 1, w + 1)
        BY <1>5
      <4> QED
        BY <3>14, <3>15, <4>1, <4>2 DEF word
    <3>17. after[w + 1] \in i + 1 .. L + 1 /\ after[w + 1] - 1 = e
      BY <1>1, <2>2, <3>1, <3>5, <3>6, <3>7
    <3>18. Good(w + 1)
      BY <3>16, <3>17 DEF c
    <3> QED
      BY <2>1, <3>18
  <2> QED
    BY <2>4, <2>5
<1>8. n \in A
  <2> HIDE DEF A
  <2>1. \A w \in 0 .. n : w \in A
    BY <1>1, <1>6, <1>7, UpTo
  <2> QED
    BY <1>1, <2>1
<1>9. Good(n)
  <2>1. after[n] # 0
    BY <1>2
  <2> QED
    BY <1>1, <1>8, <2>1
<1> QED
  BY <1>2, <1>4, <1>9 DEF L

\* The words of a text and where they are in it.
LEMMA WordPlaces ==
  ASSUME NEW T, NEW text \in Seq(T)
  PROVE  \E pos \in Seq(Nat) :
           /\ Len(pos) = Len(Words(text)) /\ Increasing(pos)
           /\ \A w \in 1 .. Len(pos) : pos[w] \in 1 .. Len(text) /\ pos[w] \in Starts(text)
                                       /\ Words(text)[w] = WordFrom(text, pos[w])
           /\ \A w \in 1 .. Len(pos) - 1 : \A m \in pos[w] + 1 .. pos[w + 1] - 1 : m \notin Starts(text)
<1> DEFINE n == Len(text)
           V == Seq(T)
           list == WordList(text)
           S == Starts(text)
           pos == Places(list, S)
<1>1. list \in Seq(V) /\ Len(list) = n /\ Words(text) = At(list, S)
  BY WordsAt
<1>2. S \subseteq 1 .. n /\ \A p \in S : list[p] = WordFrom(text, p)
  BY DEF Starts, WordList
<1> HIDE DEF V, list, S, n
<1>3. /\ Len(At(list, S)) = Len(pos) /\ pos \in Seq(Nat) /\ Increasing(pos) /\ Range(pos) = S \cap (1 .. Len(list))
      /\ \A i \in 1 .. Len(At(list, S)) : At(list, S)[i] = list[pos[i]]
  BY <1>1, KeptLaw
<1>4. \A i \in 1 .. Len(At(list, S)) - 1 : \E p, q \in 1 .. Len(list) : Neighbours(list, S, i, p, q)
  BY <1>1, KeptNeighbours
<1>5. ASSUME NEW w \in 1 .. Len(pos) - 1 PROVE \A m \in pos[w] + 1 .. pos[w + 1] - 1 : m \notin S
  <2>1. PICK p, q \in 1 .. Len(list) : Neighbours(list, S, w, p, q)
    BY <1>3, <1>4
  <2> QED
    BY <2>1 DEF Neighbours
<1> HIDE DEF pos
<1>6. ASSUME NEW w \in 1 .. Len(pos) PROVE pos[w] \in S /\ Words(text)[w] = WordFrom(text, pos[w])
  <2>1. w \in DOMAIN pos
    BY <1>3
  <2>2. pos[w] \in S
    BY <1>1, <1>2, <1>3, <2>1 DEF Range
  <2>3. Words(text)[w] = list[pos[w]]
    BY <1>1, <1>3
  <2> QED
    BY <1>2, <2>2, <2>3
<1>7. \A w \in 1 .. Len(pos) : pos[w] \in 1 .. n
  BY <1>2, <1>6
<1> QED
  BY <1>1, <1>3, <1>5, <1>6, <1>7 DEF S, n

\* A piece of a text that has words is found by them.
LEMMA MatchExists ==
  ASSUME NEW T, NEW text \in Seq(T), NEW a \in 1 .. Len(text), NEW b \in a .. Len(text),
         Words(SubSeq(text, a, b)) # <<>>
  PROVE  \E i \in 1 .. Len(text) : WordsEnd(Words(SubSeq(text, a, b)), text, i) # 0
<1> DEFINE L == Len(text)
           c == SubSeq(text, a, b)
           M == b - a + 1
           W == Words(c)
           V == Seq(T)
<1>1. L \in Nat /\ a \in Nat /\ b \in Nat /\ a >= 1 /\ a <= b /\ b <= L /\ M = b - a + 1 /\ M \in Nat
  OBVIOUS
<1>2. a \in 1 .. L + 1 /\ b \in a - 1 .. L
  BY <1>1
<1>3. c \in Seq(T) /\ Len(c) = M /\ \A x \in 1 .. M : c[x] = text[a + x - 1]
  BY <1>2, RunLaw
<1> HIDE DEF c, M
<1>4. PICK pos \in Seq(Nat) :
        /\ Len(pos) = Len(W) /\ Increasing(pos)
        /\ \A w \in 1 .. Len(pos) : pos[w] \in 1 .. Len(c) /\ pos[w] \in Starts(c) /\ W[w] = WordFrom(c, pos[w])
        /\ \A w \in 1 .. Len(pos) - 1 : \A m \in pos[w] + 1 .. pos[w + 1] - 1 : m \notin Starts(c)
  BY <1>3, WordPlaces
<1>5. W \in Seq(V) /\ W # <<>>
  BY <1>3, WordsAt DEF c
<1> DEFINE n == Len(W)
           i == a - 1 + pos[1]
<1>6. n \in Nat /\ n # 0 /\ 1 \in 1 .. n /\ n \in 0 .. n
  BY <1>5
<1> HIDE DEF n, W, V
<1>7. ASSUME NEW w \in 1 .. n
      PROVE  \E e \in pos[w] .. M : /\ SolidRun(c, pos[w], e) /\ (e = M \/ IsSpace(c[e + 1]))
                                    /\ W[w] = SubSeq(c, pos[w], e) /\ Len(W[w]) = e - pos[w] + 1
  <2> DEFINE p == pos[w]
  <2>1. p \in 1 .. Len(c) /\ p \in Starts(c) /\ W[w] = WordFrom(c, p)
    BY <1>4 DEF n
  <2>2. ~IsSpace(c[p])
    BY <2>1 DEF Starts
  <2> HIDE DEF p
  <2>3. PICK e \in p .. Len(c) : /\ SolidRun(c, p, e) /\ (e = Len(c) \/ IsSpace(c[e + 1]))
                                 /\ WordFrom(c, p) = SubSeq(c, p, e)
    BY <1>3, <2>1, <2>2, WordThere
  <2>4. p \in 1 .. Len(c) + 1 /\ e \in p - 1 .. Len(c)
    BY <2>1
  <2>5. Len(SubSeq(c, p, e)) = e - p + 1
    BY <1>3, <2>4, RunLaw
  <2>6. e \in p .. M /\ (e = M \/ IsSpace(c[e + 1]))
    BY <1>3, <2>3
  <2> QED
    BY <2>1, <2>3, <2>5, <2>6 DEF p
<1>8. \A w \in 1 .. n : pos[w] \in Nat /\ pos[w] >= 1 /\ pos[w] <= M /\ pos[w] >= pos[1]
  <2> TAKE w \in 1 .. n
  <2>1. pos[w] \in 1 .. M /\ pos[1] \in 1 .. M
    BY <1>3, <1>4, <1>6 DEF n
  <2>2. w = 1 \/ pos[1] < pos[w]
    <3>1. w = 1 \/ 1 < w
      BY <1>6
    <3>2. 1 \in 1 .. Len(pos) /\ w \in 1 .. Len(pos)
      BY <1>4, <1>6 DEF n
    <3> QED
      BY <1>4, <3>1, <3>2 DEF Increasing
  <2> QED
    BY <1>1, <2>1, <2>2
<1>9. i \in 1 .. L /\ i = a - 1 + pos[1] /\ i \in Nat
  BY <1>1, <1>6, <1>8
<1> HIDE DEF i
<1>fold. PICK after : Matching(after, W, text, i)
  <2>1. W \in Seq(Seq(T)) /\ i \in 1 .. Len(text)
    BY <1>5, <1>9 DEF V, L
  <2> QED
    BY <2>1, WordsEndFold
<1>10. /\ after \in [0 .. n -> Nat] /\ after[0] = i
       /\ \A w \in 1 .. n : after[w] = Onward(text, i, after[w - 1], W[w])
       /\ WordsEnd(W, text, i) = after[n]
  BY <1>fold DEF Matching, n
<1> DEFINE A == {w \in 0 .. n : w = 0 \/ after[w] = a - 1 + pos[w] + Len(W[w])}
<1> HIDE DEF L
<1>11. 0 \in A
  BY <1>6
<1>12. ASSUME NEW w \in 0 .. n - 1, w \in A PROVE w + 1 \in A
  <2> DEFINE v == w + 1
             p == pos[v]
             j == after[w]
             k == a - 1 + p
             d == Len(W[v])
  <2>1. w \in Nat /\ w \in 0 .. n /\ v \in 1 .. n /\ v \in 0 .. n /\ v - 1 = w
    BY <1>6
  <2>2. after[v] = Onward(text, i, j, W[v]) /\ j \in Nat
    BY <1>10, <2>1
  <2>3. PICK e \in pos[v] .. M : W[v] = SubSeq(c, pos[v], e) /\ Len(W[v]) = e - pos[v] + 1
    BY <1>7, <2>1
  <2>4. p \in Nat /\ p >= 1 /\ p <= M /\ p >= pos[1] /\ p \in Starts(c)
    BY <1>4, <1>8, <2>1 DEF n
  <2>5. e \in Nat /\ p <= e /\ e <= M /\ d = e - p + 1
    BY <1>1, <2>3, <2>4
  <2>6. ~IsSpace(text[k])
    <3>1. ~IsSpace(c[p]) /\ p \in 1 .. M /\ a + p - 1 = a - 1 + p
      BY <1>1, <2>4 DEF Starts
    <3>2. c[p] = text[a + p - 1]
      BY <1>3, <3>1
    <3> HIDE DEF p
    <3> QED
      BY <3>1, <3>2
  <2>7. W[v] = SubSeq(c, p, e)
    BY <2>3
  <2> HIDE DEF p, d, j
  <2>8. k \in 1 .. L /\ k \in Nat /\ k = a - 1 + p /\ k + d - 1 = a + e - 1 /\ k + d - 1 <= L
        /\ k = a + p - 1
    BY <1>1, <2>4, <2>5
  <2> HIDE DEF k
  <2>9. j # 0 /\ Resume(text, i, j) = k
    <3>1. CASE w = 0
      <4>1. j = i /\ p = pos[1]
        BY <1>10, <3>1 DEF j, p
      <4>2. Resume(text, i, j) = i
        BY <1>9, <2>2, <4>1, ResumeLaw DEF L
      <4> QED
        BY <1>9, <2>8, <4>1, <4>2
    <3>2. CASE w # 0
      <4>1. w \in 1 .. n /\ w \in 1 .. n - 1 /\ w + 1 = v
        BY <1>6, <2>1, <3>2
      <4> DEFINE q == pos[w]
      <4>2. PICK f \in q .. M : /\ SolidRun(c, q, f) /\ (f = M \/ IsSpace(c[f + 1]))
                                /\ Len(W[w]) = f - q + 1
        BY <1>7, <4>1
      <4>3. q \in Nat /\ q >= 1 /\ q <= M /\ q >= pos[1] /\ pos[1] \in Nat
        BY <1>6, <1>8, <4>1
      <4>4. q < p /\ \A m \in q + 1 .. p - 1 : m \notin Starts(c)
        <5>1. w \in 1 .. Len(pos) /\ v \in 1 .. Len(pos) /\ w \in 1 .. Len(pos) - 1 /\ w < v
          BY <1>4, <2>1, <4>1 DEF n
        <5>2. pos[w] < pos[v]
          BY <1>4, <5>1 DEF Increasing
        <5>3. \A m \in pos[w] + 1 .. pos[w + 1] - 1 : m \notin Starts(c)
          BY <1>4, <5>1
        <5> QED
          BY <4>1, <5>2, <5>3 DEF p
      <4>5. j = a - 1 + q + Len(W[w])
        BY <1>12, <3>2 DEF j
      <4> HIDE DEF q
      <4>6. f \in Nat /\ q <= f /\ f <= M /\ j = a + f
        BY <1>1, <4>2, <4>3, <4>5
      <4>7. f + 1 < p /\ BlankRun(c, f + 1, p - 1)
        <5>1. q \in 1 .. Len(c) /\ f \in q .. Len(c) /\ p \in 1 .. Len(c) /\ (f = Len(c) \/ IsSpace(c[f + 1]))
          BY <1>3, <2>4, <4>2, <4>3
        <5> QED
          BY <1>3, <2>4, <4>2, <4>4, <5>1, BetweenStarts
      <4>8. j # i /\ j # 0 /\ j < k
        <5>1. f + 1 < p
          BY <4>7
        <5>2. k = a - 1 + p /\ i = a - 1 + pos[1]
          BY <1>9, <2>8
        <5>3. a \in Nat /\ a >= 1 /\ p \in Nat /\ pos[1] \in Nat /\ pos[1] >= 1 /\ pos[1] <= q
          <6>1. pos[1] >= 1
            BY <1>6, <1>8
          <6> HIDE DEF p
          <6> QED
            BY <1>1, <2>4, <4>3, <6>1
        <5>4. q \in Nat /\ f \in Nat /\ q <= f /\ j = a + f
          BY <4>3, <4>6
        <5> DEFINE o == pos[1]
        <5>5. i = a - 1 + o /\ o \in Nat /\ o >= 1 /\ o <= q
          BY <5>2, <5>3
        <5> HIDE DEF j, k, p, o
        <5>6. i < j
          BY <5>3, <5>4, <5>5
        <5>7. j < k
          BY <5>1, <5>2, <5>3, <5>4
        <5> QED
          BY <5>4, <5>5, <5>6, <5>7
      <4>9. BlankRun(text, j, k - 1)
        <5> SUFFICES ASSUME NEW m \in j .. k - 1 PROVE IsSpace(text[m])
          BY DEF BlankRun
        <5> DEFINE x == m - a + 1
        <5>1. x \in f + 1 .. p - 1 /\ x \in 1 .. M /\ a + x - 1 = m
          BY <1>1, <2>4, <2>8, <4>6
        <5> HIDE DEF x
        <5>2. c[x] = text[m]
          BY <1>3, <5>1
        <5> QED
          BY <4>7, <5>1, <5>2 DEF BlankRun
      <4>10. k \in 1 .. Len(text) /\ i \in 1 .. Len(text) /\ j \in Nat
        BY <1>9, <2>2, <2>8 DEF L
      <4> QED
        BY <2>6, <4>8, <4>9, <4>10, ResumeLaw, SMTT(30)
    <3> QED
      BY <3>1, <3>2
  <2>10. Occurs(W[v], text, k)
    <3>1. p \in 1 .. b - a + 2 /\ e \in p - 1 .. b - a + 1
      BY <1>1, <2>4, <2>5
    <3>2. SubSeq(SubSeq(text, a, b), p, e) = SubSeq(text, a + p - 1, a + e - 1)
      BY <1>2, <3>1, PartOfPart DEF L
    <3>3. W[v] = SubSeq(text, k, k + d - 1)
      BY <2>7, <2>8, <3>2 DEF c
    <3> QED
      BY <2>8, <3>3 DEF Occurs, d, L
  <2>11. after[v] = k + Len(W[v])
    <3>1. k # 0
      BY <2>8
    <3> QED
      BY <2>2, <2>9, <2>10, <3>1 DEF Onward
  <2>12. after[v] = a - 1 + pos[v] + Len(W[v])
    BY <2>8, <2>11 DEF p
  <2> QED
    BY <2>1, <2>12
<1>13. n \in A
  <2> HIDE DEF A
  <2>1. \A w \in 0 .. n : w \in A
    BY <1>6, <1>11, <1>12, UpTo
  <2> QED
    BY <1>6, <2>1
<1>14. after[n] # 0
  <2>1. n \in 1 .. n
    BY <1>6
  <2>2. PICK e \in pos[n] .. M : Len(W[n]) = e - pos[n] + 1
    BY <1>7, <2>1
  <2>3. pos[n] \in Nat /\ pos[n] >= 1 /\ pos[n] <= M
    BY <1>8, <2>1
  <2>4. after[n] = a - 1 + pos[n] + Len(W[n])
    BY <1>6, <1>13
  <2> DEFINE p == pos[n]
             d == Len(W[n])
             z == after[n]
  <2>5. p \in Nat /\ p >= 1 /\ e \in p .. M /\ d = e - p + 1 /\ z = a - 1 + p + d
    BY <2>2, <2>3, <2>4
  <2> HIDE DEF p, d, z
  <2>6. z # 0
    BY <1>1, <2>5
  <2> QED
    BY <2>6 DEF z
<1> QED
  BY <1>9, <1>10, <1>14 DEF W, c, L

\* A text without the white space around it has the same words.
LEMMA StrippedLaw ==
  ASSUME NEW T, NEW text \in Seq(T)
  PROVE  /\ Stripped(text) \in Seq(T) /\ Words(Stripped(text)) = Words(text)
         /\ Stripped(text) = <<>> <=> Words(text) = <<>>
         /\ Stripped(text) # <<>> =>
              \E a \in 1 .. Len(text) : \E b \in a .. Len(text) : Stripped(text) = SubSeq(text, a, b)
<1> DEFINE n == Len(text)
           solid == {i \in DOMAIN text : ~IsSpace(text[i])}
           a == Min(solid)
           b == Max(solid)
<1>1. n \in Nat /\ DOMAIN text = 1 .. n /\ 1 .. n \in SUBSET (0 .. n)
  OBVIOUS
<1>2. Stripped(text) = IF solid = {} THEN <<>> ELSE SubSeq(text, a, b)
  BY DEF Stripped
<1>3. CASE solid = {}
  <2>1. BlankRun(text, 1, n)
    BY <1>1, <1>3 DEF BlankRun
  <2>2. Words(text) = <<>>
    BY <2>1, WordsNone
  <2>3. Stripped(text) = <<>>
    BY <1>2, <1>3
  <2>4. <<>> \in Seq(T) /\ BlankRun(<<>>, 1, Len(<<>>))
    BY DEF BlankRun
  <2>5. Words(<<>>) = <<>>
    BY <2>4, WordsNone
  <2> QED
    BY <2>2, <2>3, <2>4, <2>5
<1>4. CASE solid # {}
  <2>1. a \in solid /\ \A y \in solid : a <= y
    <3>1. solid \in SUBSET Nat
      BY <1>1
    <3> HIDE DEF solid
    <3> QED
      BY <1>4, <3>1, MinLaw
  <2>2. b \in solid /\ \A y \in solid : b >= y
    <3>1. solid \in SUBSET (0 .. n)
      BY <1>1
    <3> HIDE DEF solid, n
    <3> QED
      BY <1>1, <1>4, <3>1, GreatestExists
  <2> HIDE DEF a, b
  <2>3. a \in 1 .. n /\ b \in 1 .. n /\ ~IsSpace(text[a]) /\ ~IsSpace(text[b]) /\ a <= b
    BY <1>1, <2>1, <2>2
  <2>4. \A i \in 1 .. n : ~IsSpace(text[i]) => a <= i /\ i <= b
    BY <1>1, <2>1, <2>2
  <2> HIDE DEF solid
  <2>5. a \in Nat /\ b \in Nat /\ a \in 1 .. n + 1 /\ b \in a - 1 .. n /\ b \in a .. n /\ a - 1 \in Nat
    <3> HIDE DEF n
    <3> QED
      BY <1>1, <2>3
  <2>6. BlankRun(text, 1, a - 1)
    <3>1. \A i \in 1 .. a - 1 : i \in 1 .. n /\ ~(a <= i)
      <4> HIDE DEF n
      <4> QED
        BY <1>1, <2>3, <2>5
    <3> QED
      BY <2>4, <3>1 DEF BlankRun
  <2>7. BlankRun(text, b + 1, n)
    <3>1. \A i \in b + 1 .. n : i \in 1 .. n /\ ~(i <= b)
      <4> HIDE DEF n
      <4> QED
        BY <1>1, <2>3, <2>5
    <3> QED
      BY <2>4, <3>1 DEF BlankRun
  <2>8. Words(SubSeq(text, a, b)) = Words(text)
    BY <2>5, <2>6, <2>7, WordsOfMiddle
  <2>9. SubSeq(text, a, b) \in Seq(T) /\ SubSeq(text, a, b) # <<>>
    <3>1. (SubSeq(text, a, b) = <<>>) = (b = a - 1) /\ SubSeq(text, a, b) \in Seq(T)
      BY <2>5, RunLaw
    <3>2. b # a - 1
      BY <2>3, <2>5
    <3> QED
      BY <3>1, <3>2
  <2>10. Words(text) # <<>>
    <3>1. ~BlankRun(text, 1, n)
      BY <2>3 DEF BlankRun
    <3> QED
      BY <3>1, WordsNone
  <2>11. Stripped(text) = SubSeq(text, a, b)
    BY <1>2, <1>4
  <2> QED
    BY <2>3, <2>5, <2>8, <2>9, <2>10, <2>11
<1> QED
  BY <1>3, <1>4

StandsIn(quote, source) ==
  Words(quote) # <<>> /\ \E i, j \in DOMAIN source : SameWords(SubSeq(source, i, j), quote)
LocatedAt(span, quote, source, base, a, b) ==
  /\ a \in 1 .. Len(source) /\ b \in a .. Len(source)
  /\ span = [start |-> base + a - 1, end |-> base + b]
  /\ Words(SubSeq(source, a, b)) = Words(quote)

\* A quote that occurs as it is, is located.
LEMMA ExactLocated ==
  ASSUME NEW T, NEW part \in Seq(T), NEW source \in Seq(T), NEW base \in Nat, part # <<>>,
         NEW x \in 1 .. Len(source), Occurs(part, source, x)
  PROVE  LocatedAt([start |-> base + x - 1, end |-> base + x - 1 + Len(part)], part, source, base,
                   x, x + Len(part) - 1)
<1> DEFINE d == Len(part)
<1>1. d \in Nat /\ d # 0
  OBVIOUS
<1>2. x + d - 1 <= Len(source) /\ SubSeq(source, x, x + d - 1) = part
  BY DEF Occurs
<1> HIDE DEF d
<1>3. x + d - 1 \in x .. Len(source) /\ base + x - 1 + d = base + (x + d - 1)
  BY <1>1, <1>2
<1> QED
  BY <1>2, <1>3 DEF LocatedAt, d

\* A quote that occurs up to white space is located.
LEMMA LooseLocated ==
  ASSUME NEW T, NEW part \in Seq(T), NEW source \in Seq(T), NEW base \in Nat, Words(part) # <<>>,
         NEW y \in 1 .. Len(source), WordsEnd(Words(part), source, y) # 0
  PROVE  LocatedAt([start |-> base + y - 1, end |-> base + WordsEnd(Words(part), source, y) - 1],
                   part, source, base, y, WordsEnd(Words(part), source, y) - 1)
<1> DEFINE W == Words(part)
           e == WordsEnd(W, source, y)
<1>1. W \in Seq(Seq(T))
  BY WordsAt
<1>2. \A w \in 1 .. Len(W) : W[w] # <<>> /\ SolidRun(W[w], 1, Len(W[w]))
  BY WordsSolid
<1>3. W # <<>> /\ WordsEnd(W, source, y) # 0
  OBVIOUS
<1> HIDE DEF W
<1>4. e \in y + 1 .. Len(source) + 1 /\ Words(SubSeq(source, y, e - 1)) = W
  BY <1>1, <1>2, <1>3, MatchIsTrue
<1> HIDE DEF e
<1>5. e - 1 \in y .. Len(source) /\ base + e - 1 = base + (e - 1)
  BY <1>4
<1> QED
  BY <1>4, <1>5 DEF LocatedAt, W, e

\* A quote is located exactly when it stands in the source.
LEMMA ResolveLaw ==
  ASSUME NEW T, NEW quote \in Seq(T), NEW source \in Seq(T), NEW base \in Nat
  PROVE  /\ StandsIn(quote, source) =>
              \E a, b : LocatedAt(ResolveSpan(quote, source, base), quote, source, base, a, b)
         /\ ~StandsIn(quote, source) => ResolveSpan(quote, source, base) = NoSpan
<1> DEFINE span == ResolveSpan(quote, source, base)
           part == Stripped(quote)
           W == Words(part)
           exact == {i \in DOMAIN source : Occurs(part, source, i)}
           loose == Flexible(W, source)
           There == \E a, b : LocatedAt(span, quote, source, base, a, b)
<1>1. part \in Seq(T) /\ W = Words(quote) /\ (part = <<>> <=> W = <<>>)
  BY StrippedLaw
<1>2. DOMAIN source = 1 .. Len(source) /\ Len(source) \in Nat
  OBVIOUS
<1>3. loose = {i \in 1 .. Len(source) : WordsEnd(W, source, i) # 0}
  BY <1>2 DEF Flexible
<1>4. span = IF part = <<>> \/ source = <<>> THEN NoSpan
             ELSE IF exact # {}
             THEN [start |-> base + Min(exact) - 1, end |-> base + Min(exact) - 1 + Len(part)]
             ELSE IF loose # {}
             THEN [start |-> base + Min(loose) - 1, end |-> base + WordsEnd(W, source, Min(loose)) - 1]
             ELSE NoSpan
  BY DEF ResolveSpan
<1>5. exact \in SUBSET Nat /\ loose \in SUBSET Nat
  BY <1>2, <1>3
<1>6. \A i \in exact : i \in 1 .. Len(source) /\ Occurs(part, source, i)
  BY <1>2
<1>7. \A i \in loose : i \in 1 .. Len(source) /\ WordsEnd(W, source, i) # 0
  BY <1>3
<1> HIDE DEF exact, loose, part, span
<1>8. ASSUME part # <<>>, source # <<>>, exact # {} PROVE There
  <2> DEFINE x == Min(exact)
  <2>1. x \in exact
    BY <1>5, <1>8, MinLaw
  <2> HIDE DEF x
  <2>2. LocatedAt([start |-> base + x - 1, end |-> base + x - 1 + Len(part)], part, source, base, x, x + Len(part) - 1)
    BY <1>1, <1>6, <1>8, <2>1, ExactLocated
  <2>3. LocatedAt(span, quote, source, base, x, x + Len(part) - 1)
    BY <1>1, <1>4, <1>8, <2>2 DEF LocatedAt, x
  <2> QED
    BY <2>3
<1>9. ASSUME part # <<>>, source # <<>>, exact = {}, loose # {} PROVE There
  <2> DEFINE y == Min(loose)
  <2>1. y \in loose
    BY <1>5, <1>9, MinLaw
  <2> HIDE DEF y
  <2>2. LocatedAt([start |-> base + y - 1, end |-> base + WordsEnd(W, source, y) - 1],
                  part, source, base, y, WordsEnd(W, source, y) - 1)
    BY <1>1, <1>7, <1>9, <2>1, LooseLocated
  <2>3. LocatedAt(span, quote, source, base, y, WordsEnd(W, source, y) - 1)
    BY <1>1, <1>4, <1>9, <2>2 DEF LocatedAt, y
  <2> QED
    BY <2>3
<1>10. ASSUME StandsIn(quote, source) PROVE There
  <2>1. W # <<>> /\ part # <<>>
    BY <1>1, <1>10 DEF StandsIn
  <2>2. PICK i \in 1 .. Len(source), j \in 1 .. Len(source) : Words(SubSeq(source, i, j)) = W
    BY <1>1, <1>2, <1>10 DEF StandsIn, SameWords
  <2>3. source # <<>>
    BY <1>2, <2>2
  <2>4. j \in i .. Len(source)
    <3> SUFFICES ASSUME j < i PROVE FALSE
      BY <1>2
    <3>1. SubSeq(source, i, j) = <<>>
      BY <1>2
    <3>2. <<>> \in Seq(T) /\ BlankRun(<<>>, 1, Len(<<>>))
      BY DEF BlankRun
    <3>3. Words(<<>>) = <<>>
      BY <3>2, WordsNone
    <3> QED
      BY <2>1, <2>2, <3>1, <3>3
  <2>5. \E k \in 1 .. Len(source) : WordsEnd(W, source, k) # 0
    <3>1. Words(SubSeq(source, i, j)) # <<>>
      BY <2>1, <2>2
    <3>2. \E k \in 1 .. Len(source) : WordsEnd(Words(SubSeq(source, i, j)), source, k) # 0
      BY <2>4, <3>1, MatchExists
    <3> HIDE DEF W
    <3> QED
      BY <2>2, <3>2
  <2>6. loose # {}
    BY <1>3, <2>5
  <2> QED
    BY <1>8, <1>9, <2>1, <2>3, <2>6
<1>11. ASSUME ~StandsIn(quote, source), span # NoSpan PROVE FALSE
  <2>1. part # <<>> /\ source # <<>> /\ (exact # {} \/ loose # {})
    BY <1>4, <1>11
  <2>2. PICK a, b : LocatedAt(span, quote, source, base, a, b)
    BY <1>8, <1>9, <2>1
  <2>3. a \in DOMAIN source /\ b \in DOMAIN source /\ Words(SubSeq(source, a, b)) = Words(quote)
    BY <1>2, <2>2 DEF LocatedAt
  <2> QED
    BY <1>1, <1>11, <2>1, <2>3 DEF StandsIn, SameWords
<1> QED
  BY <1>10, <1>11 DEF span

-----------------------------------------------------------------------------
(* What a model quotes.                                                     *)

\* A quote has a span exactly when it stands in the source.
LEMMA ResolvedLaw ==
  ASSUME NEW T, NEW quote \in Seq(T), NEW source \in Seq(T), NEW base \in Nat
  PROVE  /\ ResolveSpan(quote, source, base) # NoSpan <=> StandsIn(quote, source)
         /\ ResolveSpan(quote, source, base) # NoSpan =>
              \E a, b : LocatedAt(ResolveSpan(quote, source, base), quote, source, base, a, b)
<1> DEFINE span == ResolveSpan(quote, source, base)
<1>1. StandsIn(quote, source) => \E a, b : LocatedAt(span, quote, source, base, a, b)
  BY ResolveLaw
<1>2. ~StandsIn(quote, source) => span = NoSpan
  BY ResolveLaw
<1> HIDE DEF span
<1>3. ASSUME NEW a, NEW b, LocatedAt(span, quote, source, base, a, b) PROVE span # NoSpan
  <2>1. base + b # 0 /\ span.end = base + b
    BY <1>3 DEF LocatedAt
  <2> QED
    BY <2>1 DEF NoSpan
<1>4. span # NoSpan <=> StandsIn(quote, source)
  BY <1>1, <1>2, <1>3
<1> QED
  BY <1>1, <1>4 DEF span

\* A span that is located cuts the words of the quote out of the source.
LEMMA LocatedCuts ==
  ASSUME NEW T, NEW quote \in Seq(T), NEW source \in Seq(T), NEW base \in Nat, NEW span, NEW a, NEW b,
         LocatedAt(span, quote, source, base, a, b)
  PROVE  /\ Slice(source, span.start - base, span.end - base) = SubSeq(source, a, b)
         /\ base <= span.start /\ span.end <= base + Len(source)
         /\ SubSeq(source, a, b) \in Seq(T) /\ SubSeq(source, a, b) # <<>>
         /\ SameWords(SubSeq(source, a, b), quote) /\ Occurs(SubSeq(source, a, b), source, a)
<1> DEFINE n == Len(source)
<1>1. n \in Nat
  OBVIOUS
<1>2. a \in 1 .. n /\ b \in a .. n
  BY DEF LocatedAt
<1>3. span.start = base + a - 1 /\ span.end = base + b /\ Words(SubSeq(source, a, b)) = Words(quote)
  BY DEF LocatedAt
<1> HIDE DEF n
<1>4. a \in Nat /\ b \in Nat /\ a \in 1 .. n + 1 /\ b \in a - 1 .. n
  BY <1>1, <1>2
<1>5. span.start - base + 1 = a /\ span.end - base = b /\ base <= span.start /\ span.end <= base + n
  BY <1>1, <1>2, <1>3, <1>4
<1>6. SubSeq(source, a, b) \in Seq(T) /\ Len(SubSeq(source, a, b)) = b - a + 1
  BY <1>4, RunLaw DEF n
<1>7. b - a + 1 # 0 /\ a + (b - a + 1) - 1 = b /\ b <= n
  BY <1>1, <1>2, <1>4
<1>8. SubSeq(source, a, b) # <<>>
  <2>1. Len(SubSeq(source, a, b)) # 0
    BY <1>6, <1>7
  <2>2. Len(<<>>) = 0
    OBVIOUS
  <2> QED
    BY <2>1, <2>2, Zenon
<1>9. Occurs(SubSeq(source, a, b), source, a)
  BY <1>6, <1>7 DEF Occurs, n
<1>10. Slice(source, span.start - base, span.end - base) = SubSeq(source, a, b)
  BY <1>5 DEF Slice
<1> QED
  BY <1>3, <1>5, <1>6, <1>8, <1>9, <1>10 DEF SameWords, n

\* A cut at offsets of its own is the same part of the text.
LEMMA CutLaw ==
  ASSUME NEW T, NEW text \in Seq(T), NEW start \in Nat, NEW a \in 1 .. Len(text), NEW b \in a .. Len(text),
         NEW span, span.start = start + a - 1, span.end = start + b
  PROVE  Cut(text, span, start) = SubSeq(text, a, b)
<1> DEFINE n == Len(text)
<1>1. n \in Nat /\ a \in 1 .. n /\ b \in a .. n
  OBVIOUS
<1> HIDE DEF n
<1>2. span.start - start = a - 1 /\ span.end - start = b /\ a - 1 \in Nat /\ b \in Nat /\ a - 1 + 1 = a
  BY <1>1
<1>3. Max({a - 1, 0}) = a - 1 /\ Max({b, 0}) = b /\ Min({b, n}) = b
  <2>1. ASSUME NEW x \in Nat PROVE Max({x, 0}) = x
    <3>1. {x, 0} \in SUBSET (0 .. x) /\ {x, 0} # {}
      OBVIOUS
    <3>2. Max({x, 0}) \in {x, 0} /\ \A y \in {x, 0} : Max({x, 0}) >= y
      BY <3>1, GreatestExists
    <3> QED
      BY <3>2
  <2>2. Min({b, n}) \in {b, n} /\ \A y \in {b, n} : Min({b, n}) <= y
    <3>1. {b, n} \in SUBSET Nat /\ {b, n} # {}
      BY <1>1, <1>2
    <3> QED
      BY <3>1, MinLaw
  <2>3. Min({b, n}) = b
    BY <1>1, <1>2, <2>2
  <2> QED
    BY <1>2, <2>1, <2>3
<1> QED
  BY <1>2, <1>3 DEF Cut, n

\* A part of a text is the same part behind another text, moved.
LEMMA PartBehind ==
  ASSUME NEW T, NEW front \in Seq(T), NEW text \in Seq(T), NEW a \in 1 .. Len(text), NEW b \in a .. Len(text)
  PROVE  SubSeq(front \o text, Len(front) + a, Len(front) + b) = SubSeq(text, a, b)
<1> DEFINE m == Len(front)
           n == Len(text)
           all == front \o text
           x == SubSeq(all, m + a, m + b)
           y == SubSeq(text, a, b)
<1>1. m \in Nat /\ n \in Nat /\ a \in 1 .. n /\ b \in a .. n
  OBVIOUS
<1>2. all \in Seq(T) /\ Len(all) = m + n /\ \A i \in m + 1 .. m + n : all[i] = text[i - m]
  OBVIOUS
<1> HIDE DEF m, n, all
<1>3. m + a \in 1 .. (m + n) + 1 /\ m + b \in (m + a) - 1 .. m + n /\ a \in 1 .. n + 1 /\ b \in a - 1 .. n
  BY <1>1
<1>4. x \in Seq(T) /\ Len(x) = (m + b) - (m + a) + 1
      /\ \A i \in 1 .. (m + b) - (m + a) + 1 : x[i] = all[(m + a) + i - 1]
  <2> DEFINE s == m + a
             e == m + b
  <2>1. s \in 1 .. Len(all) + 1 /\ e \in s - 1 .. Len(all)
    BY <1>2, <1>3
  <2> HIDE DEF s, e
  <2>2. SubSeq(all, s, e) \in Seq(T) /\ Len(SubSeq(all, s, e)) = e - s + 1
        /\ \A i \in 1 .. e - s + 1 : SubSeq(all, s, e)[i] = all[s + i - 1]
    BY <1>2, <2>1, RunLaw
  <2> QED
    BY <2>2 DEF s, e
<1>5. y \in Seq(T) /\ Len(y) = b - a + 1 /\ \A i \in 1 .. b - a + 1 : y[i] = text[a + i - 1]
  BY <1>3, RunLaw DEF n
<1>6. (m + b) - (m + a) + 1 = b - a + 1
  BY <1>1
<1> HIDE DEF x, y
<1>7. ASSUME NEW i \in 1 .. b - a + 1 PROVE x[i] = y[i]
  <2>1. x[i] = all[(m + a) + i - 1] /\ y[i] = text[a + i - 1]
    BY <1>4, <1>5, <1>6
  <2> DEFINE k == (m + a) + i - 1
  <2>2. k \in m + 1 .. m + n /\ k - m = a + i - 1
    BY <1>1
  <2>3. x[i] = all[k]
    BY <2>1
  <2> HIDE DEF k
  <2>4. all[k] = text[k - m]
    BY <1>2, <2>2
  <2> QED
    BY <2>1, <2>2, <2>3, <2>4
<1>8. x = y
  BY <1>4, <1>5, <1>6, <1>7, SameSequence
<1> QED
  BY <1>8 DEF x, y, all, m

\* What a span cuts out of its source is found there again.
LEMMA PartIsFound ==
  ASSUME NEW T, NEW source \in Seq(T), NEW a \in 1 .. Len(source), NEW b \in a .. Len(source),
         Words(SubSeq(source, a, b)) # <<>>, NEW base \in Nat
  PROVE  /\ ResolveSpan(SubSeq(source, a, b), source, base) # NoSpan
         /\ Stripped(SubSeq(source, a, b)) # <<>>
<1>1. a \in DOMAIN source /\ b \in DOMAIN source
  OBVIOUS
<1>2. SubSeq(source, a, b) \in Seq(T)
  <2>1. a \in 1 .. Len(source) + 1 /\ b \in a - 1 .. Len(source)
    <3> DEFINE n == Len(source)
    <3>1. n \in Nat
      OBVIOUS
    <3> HIDE DEF n
    <3>2. a \in 1 .. n /\ b \in a .. n
      BY DEF n
    <3>3. a \in 1 .. n + 1 /\ b \in a - 1 .. n
      BY <3>1, <3>2
    <3> QED
      BY <3>3 DEF n
  <2> QED
    BY <2>1, RunLaw
<1>3. StandsIn(SubSeq(source, a, b), source)
  BY <1>1 DEF StandsIn, SameWords
<1>4. ResolveSpan(SubSeq(source, a, b), source, base) # NoSpan
  BY <1>2, <1>3, ResolvedLaw
<1>5. Stripped(SubSeq(source, a, b)) = <<>> <=> Words(SubSeq(source, a, b)) = <<>>
  BY <1>2, StrippedLaw
<1> QED
  BY <1>4, <1>5

\* The part of a text that is one character long.
LEMMA OneCharacter ==
  ASSUME NEW T, NEW text \in Seq(T), NEW k \in 1 .. Len(text)
  PROVE  SubSeq(text, k, k) = <<text[k]>>
<1>1. k \in Nat /\ k \in 1 .. Len(text) + 1 /\ k \in k - 1 .. Len(text)
  <2> DEFINE n == Len(text)
  <2>1. n \in Nat /\ k \in 1 .. n
    OBVIOUS
  <2> HIDE DEF n
  <2>2. k \in Nat /\ k \in 1 .. n + 1 /\ k \in k - 1 .. n
    BY <2>1
  <2> QED
    BY <2>2 DEF n
<1> DEFINE x == SubSeq(text, k, k)
<1>2. x \in Seq(T) /\ Len(x) = k - k + 1 /\ \A i \in 1 .. k - k + 1 : x[i] = text[k + i - 1]
  BY <1>1, RunLaw
<1> HIDE DEF x
<1>3. Len(x) = 1 /\ x[1] = text[k]
  BY <1>1, <1>2
<1>4. x = <<text[k]>>
  BY <1>2, <1>3
<1> QED
  BY <1>4 DEF x

\* The quote a is one word and stands where the source has that letter.
LEMMA LetterFound ==
  ASSUME NEW T, NEW source \in Seq(T), NEW c \in T, ~IsSpace(c), NEW base \in Nat, StandsIn(<<c>>, source)
  PROVE  LET span == ResolveSpan(<<c>>, source, base)
         IN  /\ base <= span.start /\ span.end <= base + Len(source)
             /\ Slice(source, span.start - base, span.end - base) = <<c>>
<1> DEFINE q == <<c>>
           span == ResolveSpan(q, source, base)
           exact == {i \in DOMAIN source : Occurs(q, source, i)}
           n == Len(source)
<1>1. q \in Seq(T) /\ Len(q) = 1 /\ q[1] = c /\ q # <<>> /\ DOMAIN q = {1}
  OBVIOUS
<1>2. Stripped(q) = q
  <2>1. {i \in DOMAIN q : ~IsSpace(q[i])} = {1}
    BY <1>1
  <2>2. Min({1}) = 1 /\ Max({1}) = 1
    BY DEF Min, Max
  <2>3. SubSeq(q, 1, 1) = <<q[1]>>
    <3>1. 1 \in 1 .. Len(q)
      BY <1>1
    <3> HIDE DEF q
    <3> QED
      BY <1>1, <3>1, OneCharacter
  <2>4. Stripped(q) = SubSeq(q, 1, 1)
    BY <2>1, <2>2 DEF Stripped
  <2> QED
    BY <1>1, <2>3, <2>4
<1>3. WordFrom(q, 1) = q
  <2>1. SolidRun(q, 1, 1)
    BY <1>1 DEF SolidRun
  <2>2. 1 \in 1 .. Len(q) /\ 1 \in 1 .. Len(q) /\ 1 = Len(q)
    BY <1>1
  <2> HIDE DEF q
  <2>3. WordFrom(q, 1) = SubSeq(q, 1, 1)
    BY <1>1, <2>1, <2>2, WordIs
  <2>4. SubSeq(q, 1, 1) = <<q[1]>>
    BY <1>1, <2>2, OneCharacter
  <2> QED
    BY <1>1, <2>3, <2>4 DEF q
<1>4. Words(q) # <<>> /\ \A w \in 1 .. Len(Words(q)) : Words(q)[w] = q
  <2>1. Words(q) # <<>>
    BY DEF StandsIn
  <2>2. PICK pos \in Seq(Nat) :
           /\ Len(pos) = Len(Words(q))
           /\ \A w \in 1 .. Len(pos) : pos[w] \in 1 .. Len(q) /\ Words(q)[w] = WordFrom(q, pos[w])
    <3>1. q \in Seq(T)
      BY <1>1
    <3> HIDE DEF q
    <3>2. PICK pos \in Seq(Nat) :
             /\ Len(pos) = Len(Words(q)) /\ Increasing(pos)
             /\ \A w \in 1 .. Len(pos) : pos[w] \in 1 .. Len(q) /\ pos[w] \in Starts(q)
                                         /\ Words(q)[w] = WordFrom(q, pos[w])
             /\ \A w \in 1 .. Len(pos) - 1 : \A m \in pos[w] + 1 .. pos[w + 1] - 1 : m \notin Starts(q)
      BY <3>1, WordPlaces, Zenon
    <3> QED
      BY <3>2
  <2>3. \A w \in 1 .. Len(Words(q)) : pos[w] = 1 /\ Words(q)[w] = WordFrom(q, pos[w])
    BY <1>1, <2>2
  <2> QED
    BY <1>3, <2>1, <2>3
<1> HIDE DEF q
<1>5. PICK i \in 1 .. n, j \in 1 .. n : Words(SubSeq(source, i, j)) = Words(q)
  BY DEF StandsIn, SameWords, q
<1>6. \E k \in 1 .. n : source[k] = c
  <2> DEFINE part == SubSeq(source, i, j)
  <2>1. part \in Seq(T) /\ Len(part) \in Nat
    OBVIOUS
  <2>2. PICK pos \in Seq(Nat) :
           /\ Len(pos) = Len(Words(part))
           /\ \A w \in 1 .. Len(pos) : pos[w] \in 1 .. Len(part) /\ Words(part)[w] = WordFrom(part, pos[w])
                                       /\ pos[w] \in Starts(part)
    BY <2>1, WordPlaces
  <2>3. Words(part) = Words(q) /\ Words(part) \in Seq(Seq(T))
    BY <1>5, <2>1, WordsAt
  <2> DEFINE W == Words(part)
  <2> HIDE DEF part
  <2>4. 1 \in 1 .. Len(W)
    <3>1. W \in Seq(Seq(T)) /\ W # <<>>
      BY <1>4, <2>3
    <3> HIDE DEF W
    <3> QED
      BY <3>1
  <2>5. pos[1] \in 1 .. Len(part) /\ WordFrom(part, pos[1]) = q /\ ~IsSpace(part[pos[1]])
    BY <1>4, <2>2, <2>3, <2>4 DEF Starts
  <2> DEFINE p == pos[1]
  <2> HIDE DEF p
  <2>6. PICK e \in p .. Len(part) : WordFrom(part, p) = SubSeq(part, p, e)
    <3>1. part \in Seq(T)
      BY <2>1
    <3>2. p \in 1 .. Len(part) /\ ~IsSpace(part[p])
      BY <2>5 DEF p
    <3> QED
      BY <3>1, <3>2, WordThere
  <2>7. part[p] = c
    <3>1. p \in Nat /\ e \in Nat /\ p <= e /\ p \in 1 .. Len(part) + 1 /\ e \in p - 1 .. Len(part)
      <4> DEFINE l == Len(part)
      <4>1. l \in Nat /\ p \in 1 .. l /\ e \in p .. l
        BY <2>1, <2>5, <2>6 DEF p
      <4> HIDE DEF l
      <4>2. p \in Nat /\ e \in Nat /\ p <= e /\ p \in 1 .. l + 1 /\ e \in p - 1 .. l
        BY <4>1
      <4> QED
        BY <4>2 DEF l
    <3>2. SubSeq(part, p, e)[1] = part[p]
      <4>1. \A x \in 1 .. e - p + 1 : SubSeq(part, p, e)[x] = part[p + x - 1]
        BY <2>1, <3>1, RunLaw DEF part
      <4>2. 1 \in 1 .. e - p + 1 /\ p + 1 - 1 = p
        BY <3>1
      <4> QED
        BY <4>1, <4>2
    <3> QED
      BY <1>1, <2>5, <2>6, <3>2 DEF p
  <2>8. \A x \in 1 .. Len(part) : part[x] \in Range(source)
    <3>1. \A x \in 1 .. Len(part) : i + x - 1 \in 1 .. Len(source) /\ part[x] = source[i + x - 1]
      BY DEF part
    <3>2. DOMAIN source = 1 .. Len(source)
      OBVIOUS
    <3> QED
      BY <3>1, <3>2, Zenon DEF Range
  <2>9. part[p] \in Range(source)
    BY <2>5, <2>8 DEF p
  <2>10. c \in Range(source) /\ DOMAIN source = 1 .. n
    BY <2>7, <2>9
  <2> QED
    BY <2>10, Zenon DEF Range
<1>7. exact # {} /\ exact \in SUBSET Nat /\ source # <<>>
  <2>1. PICK k \in 1 .. n : source[k] = c
    BY <1>6
  <2>2. SubSeq(source, k, k) = q
    BY <2>1, OneCharacter DEF q
  <2>3. k + Len(q) - 1 = k /\ k <= n
    BY <1>1
  <2>4. Occurs(q, source, k)
    BY <2>2, <2>3 DEF Occurs
  <2> QED
    BY <2>1, <2>4
<1>8. span = [start |-> base + Min(exact) - 1, end |-> base + Min(exact) - 1 + Len(q)]
  BY <1>1, <1>2, <1>7 DEF ResolveSpan
<1> DEFINE x == Min(exact)
<1>9. x \in exact
  BY <1>7, MinLaw
<1>10. x \in 1 .. n /\ Occurs(q, source, x)
  BY <1>9
<1> HIDE DEF exact, x, n, span
<1>11. x + Len(q) - 1 = x /\ SubSeq(source, x, x) = q
  <2>1. x + Len(q) - 1 = x
    BY <1>1, <1>10 DEF n
  <2> QED
    BY <1>10, <2>1 DEF Occurs
<1>12. span.start - base + 1 = x /\ span.end - base = x /\ base <= span.start /\ span.end <= base + n
  BY <1>1, <1>8, <1>10 DEF x, n
<1> QED
  BY <1>11, <1>12 DEF Slice, span, q, n

\* What a span cuts out is in its text as it is; nothing is cut out without one.
LEMMA CutAppears ==
  ASSUME NEW T, NEW cut \in Seq(T), NEW source \in Seq(T)
  PROVE  SpansAppearInContext(<<cut>>, <<source>>)
         <=> cut # <<>> /\ \E k \in DOMAIN source : Occurs(cut, source, k)
<1> DEFINE texts == <<source>>
           list == [i \in DOMAIN texts |-> IF i = 1 THEN texts[i] ELSE <<"n">> \o texts[i]]
<1>1. list = <<source>>
  OBVIOUS
<1>2. FlattenSeq(<<source>>) = source
  <2>1. FlattenSeq(Append(<<>>, source)) = FlattenSeq(<<>>) \o source /\ FlattenSeq(<<>>) = <<>>
    <3>1. <<>> \in Seq(Seq(T))
      OBVIOUS
    <3> QED
      BY <3>1, FlattenLaw
  <2>2. Append(<<>>, source) = <<source>> /\ <<>> \o source = source
    OBVIOUS
  <2> QED
    BY <2>1, <2>2
<1>3. FlattenSeq(list) = source
  BY <1>1, <1>2
<1>4. DOMAIN <<cut>> = {1} /\ <<cut>>[1] = cut
  OBVIOUS
<1> QED
  BY <1>3, <1>4 DEF SpansAppearInContext

\* What is cut out again by a located span is not blank.
LEMMA CutAgain ==
  ASSUME NEW T, NEW text \in Seq(T), NEW start \in Nat, NEW quote, Words(quote) # <<>>,
         NEW span, NEW a, NEW b, LocatedAt(span, quote, text, start, a, b)
  PROVE  Stripped(Cut(text, span, start)) # <<>>
<1>1. a \in 1 .. Len(text) /\ b \in a .. Len(text) /\ span.start = start + a - 1 /\ span.end = start + b
  BY DEF LocatedAt
<1>2. Words(SubSeq(text, a, b)) # <<>>
  BY DEF LocatedAt
<1>3. Stripped(SubSeq(text, a, b)) # <<>>
  <2>1. 0 \in Nat
    OBVIOUS
  <2> QED
    BY <1>1, <1>2, <2>1, PartIsFound
<1>4. Cut(text, span, start) = SubSeq(text, a, b)
  BY <1>1, CutLaw
<1> QED
  BY <1>3, <1>4

\* The same behind another text, where it is a quote as well.
LEMMA CutBehind ==
  ASSUME NEW T, NEW front \in Seq(T), NEW source \in Seq(T), NEW quote, Words(quote) # <<>>,
         NEW span, NEW a, NEW b, LocatedAt(span, quote, source, Len(front), a, b)
  PROVE  /\ Stripped(Cut(front \o source, span, 0)) # <<>>
         /\ ResolveSpan(Cut(front \o source, span, 0), source, 0) # NoSpan
<1> DEFINE full == front \o source
           m == Len(front)
           n == Len(source)
<1>1. full \in Seq(T) /\ Len(full) = m + n /\ m \in Nat /\ n \in Nat
  OBVIOUS
<1>2. a \in 1 .. n /\ b \in a .. n /\ span.start = m + a - 1 /\ span.end = m + b
  BY DEF LocatedAt
<1>3. Words(SubSeq(source, a, b)) # <<>>
  BY DEF LocatedAt
<1>4. ResolveSpan(SubSeq(source, a, b), source, 0) # NoSpan /\ Stripped(SubSeq(source, a, b)) # <<>>
  <2>1. 0 \in Nat /\ a \in 1 .. Len(source) /\ b \in a .. Len(source)
    BY <1>2
  <2> QED
    BY <1>3, <2>1, PartIsFound
<1>5. SubSeq(full, m + a, m + b) = SubSeq(source, a, b)
  <2>1. a \in 1 .. Len(source) /\ b \in a .. Len(source)
    BY <1>2
  <2>2. SubSeq(front \o source, Len(front) + a, Len(front) + b) = SubSeq(source, a, b)
    BY <2>1, PartBehind, Zenon
  <2> QED
    BY <2>2
<1>6. Cut(full, span, 0) = SubSeq(full, m + a, m + b)
  <2> HIDE DEF full, m, n
  <2> DEFINE x == m + a
             y == m + b
  <2>1. x \in 1 .. Len(full) /\ y \in x .. Len(full)
    BY <1>1, <1>2
  <2>2. span.start = 0 + x - 1 /\ span.end = 0 + y /\ 0 \in Nat
    BY <1>1, <1>2
  <2> HIDE DEF x, y
  <2>3. Cut(full, span, 0) = SubSeq(full, x, y)
    BY <1>1, <2>1, <2>2, CutLaw
  <2> QED
    BY <2>3 DEF x, y
<1> QED
  BY <1>4, <1>5, <1>6

\* What a judgement of a located quote says is found again in the texts it is about.
LEMMA NoProblems ==
  ASSUME NEW T, NEW quote \in Seq(T), NEW front \in Seq(T), NEW source \in Seq(T), NEW other \in Seq(T),
         NEW start \in Nat, NEW judged,
         judged.circular # NoSpan =>
           \E a, b : LocatedAt(judged.circular, quote, source, Len(front), a, b),
         judged.clause # NoSpan =>
           \E a, b : LocatedAt(judged.clause, quote, other, start, a, b),
         judged.circular # NoSpan \/ judged.clause # NoSpan => Words(quote) # <<>>,
         NEW clause, clause.text = other, clause.start = start,
         NEW obligation, obligation.text = source
  PROVE  FindingProblems(judged, front \o source, obligation, clause) = {}
<1> DEFINE full == front \o source
           quoted == Cut(full, judged.circular, 0)
           local == Cut(clause.text, judged.clause, clause.start)
<1>1. ASSUME judged.circular # NoSpan
      PROVE  Stripped(quoted) # <<>> /\ ResolveSpan(quoted, source, 0) # NoSpan
  <2>1. PICK a, b : LocatedAt(judged.circular, quote, source, Len(front), a, b)
    BY <1>1
  <2>2. Words(quote) # <<>>
    BY <1>1
  <2> QED
    BY <2>1, <2>2, CutBehind
<1>2. ASSUME judged.clause # NoSpan PROVE Stripped(local) # <<>>
  <2>1. PICK a, b : LocatedAt(judged.clause, quote, other, start, a, b)
    BY <1>2
  <2>2. Words(quote) # <<>>
    BY <1>2
  <2>3. Stripped(Cut(other, judged.clause, start)) # <<>>
    BY <2>1, <2>2, CutAgain
  <2> QED
    BY <2>3
<1> HIDE DEF quoted, local, full
<1>3. FindingProblems(judged, full, obligation, clause) =
        {p \in {"circular", "context", "clause"} :
           \/ p = "circular" /\ judged.circular # NoSpan /\ Stripped(quoted) = <<>>
           \/ p = "context" /\ judged.circular # NoSpan /\ ResolveSpan(quoted, source, 0) = NoSpan
           \/ p = "clause" /\ judged.clause # NoSpan /\ Stripped(local) = <<>>}
  BY DEF FindingProblems, quoted, local
<1>4. FindingProblems(judged, full, obligation, clause) = {}
  BY <1>1, <1>2, <1>3
<1> QED
  BY <1>4 DEF full

\* One more after the first.
LEMMA ListOfTwo ==
  ASSUME NEW T, NEW u \in T, NEW v \in T
  PROVE  Append(<<u>>, v) = <<u, v>>
<1> DEFINE x == Append(<<u>>, v)
           y == <<u, v>>
<1>1. <<u>> \in Seq(T) /\ Len(<<u>>) = 1 /\ <<u>>[1] = u
  OBVIOUS
<1>2. x \in Seq(T) /\ Len(x) = 2 /\ x[1] = u /\ x[2] = v
  BY <1>1
<1>3. y \in Seq(T) /\ Len(y) = 2 /\ y[1] = u /\ y[2] = v
  OBVIOUS
<1> HIDE DEF x, y
<1>4. \A i \in 1 .. Len(x) : x[i] = y[i]
  BY <1>2, <1>3
<1>5. x = y
  BY <1>2, <1>3, <1>4, SameSequence
<1> QED
  BY <1>5 DEF x, y

JudgedWell(judged, quote, source, other, impact, from, start) ==
  /\ judged.grounded => quote = <<>> \/ StandsIn(quote, source)
  /\ judged.clause # NoSpan => impact # "NO_MATCH"
  /\ judged.circular # NoSpan => \E a, b : LocatedAt(judged.circular, quote, source, from, a, b)
  /\ judged.clause # NoSpan => \E a, b : LocatedAt(judged.clause, quote, other, start, a, b)
  /\ judged.circular # NoSpan \/ judged.clause # NoSpan => Words(quote) # <<>>
ReadWell(outcome, says, q, r, source, base) ==
  /\ ~outcome.failed /\ (outcome.repaired <=> says = "invalid")
  /\ outcome.dropped + Len(outcome.candidates) = 2
  /\ \A c \in Range(outcome.candidates) :
       c # NoSpan /\ c \in {ResolveSpan(q, source, base), ResolveSpan(r, source, base)}

\* A judgement is grounded only on a quote that stands in the obligation, and then its
\* spans are the located ones.
LEMMA VerifiedLaw ==
  ASSUME NEW T, NEW quote \in Seq(T), NEW source \in Seq(T), NEW other \in Seq(T), NEW impact,
         NEW from \in Nat, NEW start \in Nat
  PROVE  JudgedWell(VerifyJudgement([circularSpan |-> quote, clauseSpan |-> quote, impact |-> impact],
                                    [text |-> source, start |-> from], [text |-> other, start |-> start]),
                    quote, source, other, impact, from, start)
<1> DEFINE judged == VerifyJudgement([circularSpan |-> quote, clauseSpan |-> quote, impact |-> impact],
                                     [text |-> source, start |-> from], [text |-> other, start |-> start])
           circular == ResolveSpan(quote, source, from)
           asks == impact # "NO_MATCH" /\ quote # <<>>
           located == IF asks THEN ResolveSpan(quote, other, start) ELSE NoSpan
<1>1. judged = IF quote # <<>> /\ circular = NoSpan
               THEN [grounded |-> FALSE, circular |-> NoSpan, clause |-> NoSpan]
               ELSE IF asks /\ located = NoSpan
               THEN [grounded |-> FALSE, circular |-> circular, clause |-> NoSpan]
               ELSE [grounded |-> TRUE, circular |-> circular, clause |-> located]
  BY DEF VerifyJudgement
<1>2. /\ circular # NoSpan <=> StandsIn(quote, source)
      /\ circular # NoSpan => \E a, b : LocatedAt(circular, quote, source, from, a, b)
  BY ResolvedLaw
<1>3. /\ ResolveSpan(quote, other, start) # NoSpan <=> StandsIn(quote, other)
      /\ ResolveSpan(quote, other, start) # NoSpan =>
           \E a, b : LocatedAt(ResolveSpan(quote, other, start), quote, other, start, a, b)
  BY ResolvedLaw
<1>4. located # NoSpan => impact # "NO_MATCH" /\ located = ResolveSpan(quote, other, start)
  OBVIOUS
<1>5. judged.circular \in {NoSpan, circular} /\ judged.clause \in {NoSpan, located}
  <2> HIDE DEF circular, located, asks
  <2> QED
    BY <1>1
<1>6. judged.grounded => quote = <<>> \/ circular # NoSpan
  <2> HIDE DEF circular, located, asks
  <2> QED
    BY <1>1
<1> HIDE DEF circular, located, judged
<1>7. judged.circular # NoSpan \/ judged.clause # NoSpan => Words(quote) # <<>>
  BY <1>2, <1>3, <1>4, <1>5 DEF StandsIn
<1> QED
  BY <1>2, <1>3, <1>4, <1>5, <1>6, <1>7, Zenon DEF judged, JudgedWell

\* How many are lost of two.
LEMMA OneOrTwo ==
  Cardinality({}) = 0 /\ Cardinality({1}) = 1 /\ Cardinality({2}) = 1 /\ Cardinality({1, 2}) = 2
<1>1. Cardinality({1}) = 1 /\ Cardinality({2}) = 1 /\ IsFiniteSet({1})
  BY FS_Singleton, Zenon
<1>2. Cardinality({1} \cup {2}) = Cardinality({1}) + 1
  <2>1. 2 \notin {1}
    OBVIOUS
  <2> QED
    BY <1>1, <2>1, FS_AddElement
<1>3. {1} \cup {2} = {1, 2}
  OBVIOUS
<1>4. Cardinality({1, 2}) = 2
  BY <1>1, <1>2, <1>3
<1> QED
  BY <1>1, <1>4, FS_EmptySet

\* Of two quotes each is either stored, located, or dropped.
LEMMA ExtractedLaw ==
  ASSUME NEW says \in {"invalid", "list"}, NEW q, NEW r, NEW source, NEW base
  PROVE  ReadWell(ExtractFromParagraph([says |-> says, quotes |-> <<q, r>>, priced |-> says = "list"],
                                       [says |-> "list", quotes |-> <<q, r>>, priced |-> "list" = "list"],
                                       source, base),
                  says, q, r, source, base)
<1> DEFINE reply(s) == [says |-> s, quotes |-> <<q, r>>, priced |-> s = "list"]
           outcome == ExtractFromParagraph(reply(says), reply("list"), source, base)
           x == ResolveSpan(q, source, base)
           y == ResolveSpan(r, source, base)
           used == IF says = "invalid" THEN reply("list") ELSE reply(says)
           spans == <<x, y>>
           lost == Unlocated(spans)
           list == [i \in DOMAIN spans |-> IF i \in lost THEN <<>> ELSE <<spans[i]>>]
<1>1. IsList(used) /\ used.quotes = <<q, r>>
  BY DEF IsList
<1>2. [i \in DOMAIN used.quotes |-> ResolveSpan(used.quotes[i], source, base)] = spans
  BY <1>1
<1>3. ~outcome.failed /\ (outcome.repaired <=> says = "invalid")
      /\ outcome.dropped = Cardinality(lost) /\ outcome.candidates = FlattenSeq(list)
  <2>1. /\ ~outcome.failed <=> IsList(used)
        /\ outcome.repaired <=> says = "invalid" /\ IsList(used)
    <3> HIDE DEF used
    <3>1. /\ outcome.failed <=> ~IsList(used)
          /\ outcome.repaired <=> says = "invalid" /\ IsList(used)
      BY Zenon DEF ExtractFromParagraph, used
    <3> QED
      BY <3>1
  <2>2. outcome.dropped = IF IsList(used)
          THEN Cardinality(Unlocated([i \in DOMAIN used.quotes |-> ResolveSpan(used.quotes[i], source, base)]))
          ELSE 0
    BY DEF ExtractFromParagraph
  <2> DEFINE places == [i \in DOMAIN used.quotes |-> ResolveSpan(used.quotes[i], source, base)]
  <2>3. outcome.candidates = IF ~IsList(used) THEN <<>>
          ELSE FlattenSeq([i \in DOMAIN places |-> IF i \in Unlocated(places) THEN <<>> ELSE <<places[i]>>])
    BY DEF ExtractFromParagraph
  <2> HIDE DEF outcome, x, y
  <2> QED
    BY <1>1, <1>2, <2>1, <2>2, <2>3
<1> HIDE DEF x, y, used
<1>4. lost = (IF x = NoSpan THEN {1} ELSE {}) \cup (IF y = NoSpan THEN {2} ELSE {})
  BY DEF Unlocated
<1> DEFINE first == IF x = NoSpan THEN <<>> ELSE <<x>>
           second == IF y = NoSpan THEN <<>> ELSE <<y>>
           V == {x, y}
<1>5. list = <<first, second>>
  BY <1>4
<1>6. first \in Seq(V) /\ second \in Seq(V)
  <2>1. <<>> \in Seq(V) /\ <<x>> \in Seq(V) /\ <<y>> \in Seq(V)
    OBVIOUS
  <2> HIDE DEF V
  <2> QED
    BY <2>1
<1>7. FlattenSeq(list) = first \o second
  <2> HIDE DEF first, second, V, list
  <2>1. <<>> \in Seq(Seq(V)) /\ <<first>> \in Seq(Seq(V))
    BY <1>6
  <2>2. FlattenSeq(Append(<<>>, first)) = FlattenSeq(<<>>) \o first /\ FlattenSeq(<<>>) = <<>>
    BY <1>6, <2>1, FlattenLaw
  <2>3. FlattenSeq(Append(<<first>>, second)) = FlattenSeq(<<first>>) \o second
    BY <1>6, <2>1, FlattenLaw
  <2>4. Append(<<>>, first) = <<first>> /\ Append(<<first>>, second) = <<first, second>>
    <3>1. Append(<<>>, first) = <<first>>
      BY <1>6
    <3>3. Append(<<first>>, second) = <<first, second>>
      BY <1>6, ListOfTwo
    <3> QED
      BY <3>1, <3>3
  <2>5. <<>> \o first = first
    BY <1>6
  <2> QED
    BY <1>5, <2>2, <2>3, <2>4, <2>5
<1>8. Cardinality({}) = 0 /\ Cardinality({1}) = 1 /\ Cardinality({2}) = 1 /\ Cardinality({1, 2}) = 2
  BY OneOrTwo, Zenon
<1>9. Cardinality(lost) + Len(first \o second) = 2
  <2> HIDE DEF lost
  <2>1. CASE x = NoSpan /\ y = NoSpan
    <3>1. lost = {1, 2} /\ Len(first \o second) = 0
      BY <1>4, <2>1
    <3> QED
      BY <1>8, <3>1
  <2>2. CASE x = NoSpan /\ y # NoSpan
    <3>1. lost = {1} /\ Len(first \o second) = 1
      BY <1>4, <2>2
    <3> QED
      BY <1>8, <3>1
  <2>3. CASE x # NoSpan /\ y = NoSpan
    <3>1. lost = {2} /\ Len(first \o second) = 1
      BY <1>4, <2>3
    <3> QED
      BY <1>8, <3>1
  <2>4. CASE x # NoSpan /\ y # NoSpan
    <3>1. lost = {} /\ Len(first \o second) = 2
      BY <1>4, <2>4
    <3> QED
      BY <1>8, <3>1
  <2> QED
    BY <2>1, <2>2, <2>3, <2>4
<1>10. \A c \in Range(first \o second) : c # NoSpan /\ c \in {x, y}
  BY DEF Range
<1>11. outcome.dropped + Len(outcome.candidates) = 2
  <2> HIDE DEF outcome, lost, list, first, second
  <2> QED
    BY <1>3, <1>7, <1>9
<1>12. \A c \in Range(outcome.candidates) : c # NoSpan /\ c \in {x, y}
  <2> HIDE DEF outcome, lost, list, first, second
  <2> QED
    BY <1>3, <1>7, <1>10
<1> QED
  BY <1>3, <1>11, <1>12, Zenon DEF x, y, ReadWell, outcome

\* Every quote and every source, however long: what the model quotes is stored only with
\* a span that cuts those words out of the source (resolve_span, verify_judgement).
THEOREM ModelQuotesAlwaysLocated == Spec => []ModelQuotesAreLocated
<1>1. Init => ModelQuotesAreLocated
  <2> SUFFICES ASSUME Init, input.task = "quote" PROVE ModelQuotesAreLocated
    BY DEF ModelQuotesAreLocated
  <2> DEFINE quote == input.quote
             source == input.source
             T == Letters \cup {"x"}
             span == ResolveSpan(quote, source, 0)
             cut == Slice(source, span.start, span.end)
             obligation == [text |-> source, start |-> 7]
             clause == [text |-> <<"a", "b">>, start |-> 3]
             judged == VerifyJudgement([circularSpan |-> quote, clauseSpan |-> quote, impact |-> input.impact],
                                       obligation, clause)
             front == [i \in 1 .. 7 |-> "x"]
             reply(says) == [says |-> says, quotes |-> <<quote, <<"a">>>>, priced |-> says = "list"]
             outcome == ExtractFromParagraph(reply(input.says), reply("list"), source, 7)
             stands == StandsIn(quote, source)
  <2>1. input \in QuoteInputs
    BY TaskLaw
  <2>2. quote \in BoundedSeq(Letters, MaxQuote) /\ source \in BoundedSeq(Letters, MaxSource)
        /\ input.says \in {"invalid", "list"}
    BY <2>1 DEF QuoteInputs
  <2>3. MaxQuote \in Int /\ MaxSource \in Int
    BY AlgorithmsAssumption DEF AlgorithmsAssumption
  <2>4. "a" \in T /\ "b" \in T /\ "x" \in T /\ ~IsSpace("a") /\ Letters \subseteq T
    <3>1. ~IsSpace("a")
      BY Zenon DEF IsSpace
    <3> QED
      BY <3>1 DEF Letters
  <2> HIDE DEF T
  <2>5. quote \in Seq(T) /\ source \in Seq(T)
    <3>1. quote \in Seq(Letters) /\ source \in Seq(Letters)
      BY <2>2, <2>3, BoundedLaw
    <3> HIDE DEF quote, source
    <3> QED
      BY <2>4, <3>1, WiderSeq
  <2>6. <<"a", "b">> \in Seq(T) /\ <<"a">> \in Seq(T) /\ front \in Seq(T) /\ Len(front) = 7
    BY <2>4
  <2> HIDE DEF quote, source, stands, span, cut, judged, outcome, front
  <2>7. /\ span # NoSpan <=> stands
        /\ span # NoSpan => \E a, b : LocatedAt(span, quote, source, 0, a, b)
    BY <2>5, ResolvedLaw DEF span, stands
  <2>8. ASSUME stands
        PROVE  /\ SameWords(cut, quote) /\ span.end <= Len(source)
               /\ cut \in Seq(T) /\ cut # <<>> /\ \E k \in DOMAIN source : Occurs(cut, source, k)
    <3>1. PICK a, b : LocatedAt(span, quote, source, 0, a, b)
      BY <2>7, <2>8
    <3>2. /\ Slice(source, span.start - 0, span.end - 0) = SubSeq(source, a, b)
          /\ span.end <= 0 + Len(source)
          /\ SubSeq(source, a, b) \in Seq(T) /\ SubSeq(source, a, b) # <<>>
          /\ SameWords(SubSeq(source, a, b), quote) /\ Occurs(SubSeq(source, a, b), source, a)
      BY <2>5, <3>1, LocatedCuts
    <3>3. span.start = 0 + a - 1 /\ span.end = 0 + b /\ a \in 1 .. Len(source) /\ b \in a .. Len(source)
      BY <3>1 DEF LocatedAt
    <3>4. span.start - 0 = span.start /\ span.end - 0 = span.end /\ span.end <= Len(source)
      <4> DEFINE n == Len(source)
      <4>1. n \in Nat
        BY <2>5
      <4>2. a \in 1 .. n /\ b \in a .. n
        BY <3>3
      <4> HIDE DEF n
      <4>3. span.start - 0 = span.start /\ span.end - 0 = span.end /\ span.end <= n
        BY <3>3, <4>1, <4>2
      <4> QED
        BY <4>3 DEF n
    <3>5. cut = SubSeq(source, a, b)
      BY <3>2, <3>4 DEF cut
    <3>6. a \in DOMAIN source
      BY <2>5, <3>3
    <3> QED
      BY <3>2, <3>4, <3>5, <3>6
  <2>9. ASSUME ~stands PROVE cut = <<>>
    <3>1. span = NoSpan
      BY <2>7, <2>9
    <3>2. cut = SubSeq(source, 1, 0)
      BY <3>1 DEF cut, Slice, NoSpan
    <3> QED
      BY <2>5, <3>2
  <2>10. SpansAppearInContext(<<cut>>, <<source>>) <=> stands
    <3>1. cut \in Seq(T)
      <4>1. <<>> \in Seq(T)
        OBVIOUS
      <4> QED
        BY <2>8, <2>9, <4>1
    <3>2. SpansAppearInContext(<<cut>>, <<source>>)
          <=> cut # <<>> /\ \E k \in DOMAIN source : Occurs(cut, source, k)
      BY <2>5, <3>1, CutAppears
    <3> QED
      BY <2>8, <2>9, <3>2
  <2>11. JudgedWell(judged, quote, source, <<"a", "b">>, input.impact, 7, 3)
    <3>1. 7 \in Nat /\ 3 \in Nat
      OBVIOUS
    <3> QED
      BY <2>5, <2>6, <3>1, VerifiedLaw, Zenon DEF judged
  <2>12. FindingProblems(judged, front \o source, obligation, clause) = {}
    <3>1. clause.text = <<"a", "b">> /\ clause.start = 3 /\ obligation.text = source
      OBVIOUS
    <3> HIDE DEF clause, obligation
    <3> QED
      BY <2>5, <2>6, <2>11, <3>1, NoProblems DEF JudgedWell
  <2>13. ReadWell(outcome, input.says, quote, <<"a">>, source, 7)
    BY <2>2, ExtractedLaw, Zenon DEF outcome
  <2>14. ASSUME NEW c \in Range(outcome.candidates)
         PROVE  /\ c.start >= 7 /\ c.end <= 7 + Len(source)
                /\ SameWords(Slice(source, c.start - 7, c.end - 7), quote)
                     \/ Slice(source, c.start - 7, c.end - 7) = <<"a">>
    <3>1. CASE c = ResolveSpan(quote, source, 7)
      <4>1. PICK a, b : LocatedAt(c, quote, source, 7, a, b)
        BY <2>5, <2>13, <3>1, ResolvedLaw DEF ReadWell
      <4>2. /\ Slice(source, c.start - 7, c.end - 7) = SubSeq(source, a, b)
            /\ 7 <= c.start /\ c.end <= 7 + Len(source)
            /\ SameWords(SubSeq(source, a, b), quote)
        BY <2>5, <4>1, LocatedCuts
      <4>3. c.start >= 7
        BY <4>1, <4>2 DEF LocatedAt
      <4> QED
        BY <4>2, <4>3
    <3>2. CASE c = ResolveSpan(<<"a">>, source, 7)
      <4>1. StandsIn(<<"a">>, source)
        BY <2>5, <2>6, <2>13, <3>2, ResolvedLaw DEF ReadWell
      <4>2. PICK a, b : LocatedAt(c, <<"a">>, source, 7, a, b)
        BY <2>5, <2>6, <2>13, <3>2, ResolvedLaw DEF ReadWell
      <4>3. /\ 7 <= c.start /\ c.end <= 7 + Len(source)
            /\ Slice(source, c.start - 7, c.end - 7) = <<"a">>
        BY <2>4, <2>5, <3>2, <4>1, LetterFound
      <4>4. c.start >= 7
        BY <4>2, <4>3 DEF LocatedAt
      <4> QED
        BY <4>3, <4>4
    <3> QED
      BY <2>13, <3>1, <3>2 DEF ReadWell
  <2>15. stands <=> /\ Words(quote) # <<>>
                    /\ \E i, j \in DOMAIN source : SameWords(SubSeq(source, i, j), quote)
    BY DEF stands, StandsIn
  <2> HIDE DEF obligation, clause
  <2> DEFINE stands2 == /\ Words(quote) # <<>>
                        /\ \E i, j \in DOMAIN source : SameWords(SubSeq(source, i, j), quote)
  <2>16. /\ (span # NoSpan) = stands2
         /\ stands2 => SameWords(cut, quote) /\ span.end <= Len(source)
         /\ judged.grounded => quote = <<>> \/ stands2
         /\ judged.clause # NoSpan => input.impact # "NO_MATCH"
         /\ SpansAppearInContext(<<cut>>, <<source>>) = stands2
    <3>1. stands2 <=> stands
      BY DEF stands, StandsIn
    <3> HIDE DEF stands2
    <3>2. span # NoSpan <=> stands2
      BY <2>7, <3>1
    <3>3. SpansAppearInContext(<<cut>>, <<source>>) <=> stands2
      BY <2>10, <3>1
    <3>4. judged.grounded => quote = <<>> \/ stands2
      BY <2>11, <3>1 DEF JudgedWell, stands
    <3>5. (span # NoSpan) = stands2
      BY <3>2, Zenon DEF stands2
    <3>6. SpansAppearInContext(<<cut>>, <<source>>) = stands2
      BY <3>3, Zenon DEF SpansAppearInContext, stands2
    <3> QED
      BY <2>8, <2>11, <3>1, <3>4, <3>5, <3>6 DEF JudgedWell
  <2>17. /\ ~outcome.failed /\ outcome.repaired = (input.says = "invalid")
         /\ outcome.dropped + Len(outcome.candidates) = 2
    <3>1. outcome.repaired = (input.says = "invalid")
      <4>1. outcome.repaired \in BOOLEAN
        BY Zenon DEF outcome, ExtractFromParagraph
      <4> QED
        BY <2>13, <4>1 DEF ReadWell
    <3> QED
      BY <2>13, <3>1 DEF ReadWell
  <2> QED
    BY <2>12, <2>14, <2>16, <2>17, Zenon
       DEF ModelQuotesAreLocated, quote, source, stands2, span, cut, judged, outcome, front, obligation, clause
<1>2. ModelQuotesAreLocated /\ [Next]_input => ModelQuotesAreLocated'
  BY DEF Next, ModelQuotesAreLocated
<1> QED
  BY <1>1, <1>2, PTL DEF Spec

-----------------------------------------------------------------------------
(* What the rule-based judge quotes.                                        *)

\* A text whose sentences hold no white space.
Readable(text) == \A i \in 1 .. Len(text) : i >= BodyStart(text) => ~IsSpace(text[i])
\* A quote as it should be: words that stand in the text.
Quotable(quote, text) == quote # <<>> /\ StandsIn(quote, text)

\* A part of a text that does not start with white space is a quote of it.
LEMMA PartIsQuotable ==
  ASSUME NEW T, NEW text \in Seq(T), NEW a \in 1 .. Len(text), NEW b \in a .. Len(text), ~IsSpace(text[a])
  PROVE  SubSeq(text, a, b) \in Seq(T) /\ Quotable(SubSeq(text, a, b), text)
<1> DEFINE n == Len(text)
           q == SubSeq(text, a, b)
<1>1. n \in Nat /\ a \in 1 .. n /\ b \in a .. n
  OBVIOUS
<1>2. a \in DOMAIN text /\ b \in DOMAIN text
  OBVIOUS
<1> HIDE DEF n
<1>3. a \in Nat /\ b \in Nat /\ a \in 1 .. n + 1 /\ b \in a - 1 .. n /\ 1 \in 1 .. b - a + 1 /\ a + 1 - 1 = a
  BY <1>1
<1>4. q \in Seq(T) /\ Len(q) = b - a + 1 /\ \A i \in 1 .. b - a + 1 : q[i] = text[a + i - 1]
  BY <1>3, RunLaw DEF n
<1>5. q[1] = text[a] /\ 1 \in 1 .. Len(q)
  BY <1>3, <1>4
<1> HIDE DEF q
<1>6. ~BlankRun(q, 1, Len(q))
  BY <1>5 DEF BlankRun
<1>7. Words(q) # <<>> /\ q # <<>>
  <2>1. Words(q) # <<>>
    BY <1>4, <1>6, WordsNone
  <2>2. BlankRun(<<>>, 1, Len(<<>>))
    BY DEF BlankRun
  <2> QED
    BY <1>6, <2>1, <2>2
<1>8. StandsIn(q, text)
  BY <1>2, <1>7 DEF StandsIn, SameWords, q
<1> QED
  BY <1>4, <1>7, <1>8 DEF Quotable, q

\* What is trimmed off a part of a text is its end, and only when it is too long to quote.
LEMMA TrimmedLaw ==
  ASSUME NEW T, NEW text \in Seq(T), NEW a \in 1 .. Len(text), NEW b \in a .. Len(text)
  PROVE  \E c \in a .. b : /\ TrimQuote(SubSeq(text, a, b)) = SubSeq(text, a, c)
                           /\ c = b \/ Len(SubSeq(text, a, c)) = MaxQuoted
<1> DEFINE n == Len(text)
           q == SubSeq(text, a, b)
           d == b - a + 1
           m == Min({MaxQuoted, d})
<1>1. n \in Nat /\ a \in 1 .. n /\ b \in a .. n
  OBVIOUS
<1> HIDE DEF n
<1>2. a \in Nat /\ b \in Nat /\ a \in 1 .. n + 1 /\ b \in a - 1 .. n /\ d \in Nat \ {0}
  BY <1>1
<1>3. Len(q) = d
  BY <1>2, RunLaw DEF n
<1>4. m \in {MaxQuoted, d} /\ \A y \in {MaxQuoted, d} : m <= y
  <2>1. {MaxQuoted, d} \in SUBSET Nat /\ {MaxQuoted, d} # {}
    BY <1>2, RuleJudgeAssumption DEF RuleJudgeAssumption
  <2> HIDE DEF d
  <2> QED
    BY <2>1, MinLaw
<1>5. m \in Nat \ {0} /\ m <= d
  <2>1. MaxQuoted \in Nat \ {0}
    BY RuleJudgeAssumption DEF RuleJudgeAssumption
  <2> HIDE DEF m, d
  <2> QED
    BY <1>2, <1>4, <2>1
<1>6. TrimQuote(q) = SubSeq(q, 1, m)
  BY <1>3 DEF TrimQuote
<1> HIDE DEF m
<1> DEFINE c == a + m - 1
<1>7. c \in a .. b /\ c - a + 1 = m /\ c \in a - 1 .. n /\ (m = d => c = b) /\ 1 \in 1 .. d + 1 /\ m \in 1 - 1 .. d
      /\ a + 1 - 1 = a /\ 1 \in 1 .. b - a + 2 /\ m \in 1 - 1 .. b - a + 1
  BY <1>1, <1>2, <1>5
<1>8. SubSeq(SubSeq(text, a, b), 1, m) = SubSeq(text, a + 1 - 1, a + m - 1)
  BY <1>2, <1>7, PartOfPart DEF n
<1>9. TrimQuote(q) = SubSeq(text, a, c)
  BY <1>6, <1>7, <1>8
<1>10. Len(SubSeq(text, a, c)) = m
  BY <1>2, <1>7, RunLaw DEF n
<1>11. c = b \/ Len(SubSeq(text, a, c)) = MaxQuoted
  BY <1>4, <1>7, <1>10
<1> HIDE DEF c
<1> QED
  BY <1>7, <1>9, <1>11

\* A sentence is a part of the text that starts behind its heading.
LEMMA SentencesLaw ==
  ASSUME NEW T, NEW text \in Seq(T)
  PROVE  /\ Sentences(text) \in Seq(Seq(T))
         /\ \A s \in Range(Sentences(text)) :
              \E a \in 1 .. Len(text) : \E b \in a .. Len(text) :
                a >= BodyStart(text) /\ s = SubSeq(text, a, b)
<1> DEFINE n == Len(text)
           starts(i) == /\ i >= BodyStart(text) /\ text[i] \notin Stops
                        /\ i = BodyStart(text) \/ text[i - 1] \in Stops
           stays(i) == starts(i) /\ Len(PieceFrom(text, i)) >= MinSentence
           list == [i \in DOMAIN text |-> IF stays(i) THEN <<PieceFrom(text, i)>> ELSE <<>>]
<1>0. DOMAIN text = 1 .. n /\ n \in Nat
  OBVIOUS
<1>1. Sentences(text) = FlattenSeq(list)
  BY DEF Sentences
<1>2. ASSUME NEW i \in 1 .. n
      PROVE  \E b \in i .. n : PieceFrom(text, i) = SubSeq(text, i, b) /\ SubSeq(text, i, b) \in Seq(T)
  <2> DEFINE ends == {j \in i .. n : text[j] \in Stops} \cup {n}
             b == Min(ends)
  <2>1. n \in i .. n /\ i .. n \in SUBSET Nat
    <3>1. n \in Nat
      BY <1>0
    <3> HIDE DEF n
    <3> QED
      BY <1>2, <3>1
  <2>2. ends \in SUBSET (i .. n) /\ ends # {} /\ ends \in SUBSET Nat
    BY <2>1
  <2>3. b \in ends
    <3> HIDE DEF ends
    <3> QED
      BY <2>2, MinLaw
  <2>4. PieceFrom(text, i) = SubSeq(text, i, b)
    BY DEF PieceFrom
  <2> HIDE DEF b
  <2>5. b \in i .. n
    BY <2>2, <2>3
  <2>6. SubSeq(text, i, b) \in Seq(T)
    <3>1. i \in 1 .. n + 1 /\ b \in i - 1 .. n
      <4>1. n \in Nat
        BY <1>0
      <4> HIDE DEF n, ends
      <4> QED
        BY <1>2, <2>5, <4>1
    <3> QED
      BY <3>1, RunLaw
  <2> QED
    BY <2>4, <2>5, <2>6
<1>3. list \in Seq(Seq(Seq(T)))
  <2> DEFINE V == Seq(T)
  <2>1. ASSUME NEW i \in 1 .. n PROVE list[i] \in Seq(V)
    <3>1. PieceFrom(text, i) \in V
      BY <1>2
    <3>2. <<PieceFrom(text, i)>> \in Seq(V) /\ <<>> \in Seq(V)
      <4> HIDE DEF V
      <4> QED
        BY <3>1
    <3> HIDE DEF V, stays
    <3> QED
      BY <1>0, <3>2
  <2>2. list = [i \in 1 .. n |-> list[i]]
    BY <1>0
  <2> HIDE DEF list, V, n
  <2>3. list \in [1 .. n -> Seq(V)]
    BY <2>1, <2>2
  <2>4. list \in Seq(Seq(V))
    BY <1>0, <2>3
  <2> QED
    BY <2>4 DEF V
<1>4. Sentences(text) \in Seq(Seq(T))
  <2> DEFINE V == Seq(T)
  <2> HIDE DEF list
  <2>1. list \in Seq(Seq(V))
    BY <1>3
  <2> HIDE DEF V
  <2>2. FlattenSeq(list) \in Seq(V)
    BY <2>1, FlattenLaw
  <2> QED
    BY <1>1, <2>2 DEF V
<1>5. ASSUME NEW s \in Range(Sentences(text))
      PROVE  \E a \in 1 .. n : \E b \in a .. n : a >= BodyStart(text) /\ s = SubSeq(text, a, b)
  <2>1. InOneOf(s, Range(list))
    <3> DEFINE V == Seq(T)
    <3> HIDE DEF list
    <3>1. list \in Seq(Seq(V))
      BY <1>3
    <3> HIDE DEF V
    <3>2. (s \in Range(FlattenSeq(list))) = InOneOf(s, Range(list))
      BY <3>1, FlattenRange
    <3> QED
      BY <1>1, <1>5, <3>2
  <2>2. PICK i \in 1 .. n : s \in Range(list[i])
    <3> HIDE DEF n
    <3>1. DOMAIN list = 1 .. n
      BY <1>0
    <3> HIDE DEF list
    <3> QED
      BY <2>1, <3>1 DEF InOneOf, Range
  <2>3. stays(i) /\ s = PieceFrom(text, i)
    <3>1. list[i] = IF stays(i) THEN <<PieceFrom(text, i)>> ELSE <<>>
      BY <1>0
    <3> HIDE DEF list, stays
    <3>2. \A e : Range(<<e>>) = {e}
      BY DEF Range
    <3>3. Range(<<>>) = {}
      BY DEF Range
    <3> QED
      BY <2>2, <3>1, <3>2, <3>3
  <2>4. i >= BodyStart(text)
    BY <2>3
  <2>5. PICK b \in i .. n : PieceFrom(text, i) = SubSeq(text, i, b)
    BY <1>2
  <2> QED
    BY <2>3, <2>4, <2>5
<1> QED
  BY <1>4, <1>5

\* A sentence of a text that reads well is quoted from it, in full unless it is too long.
LEMMA SentenceIsQuotable ==
  ASSUME NEW T, NEW text \in Seq(T), Readable(text), NEW k \in 1 .. Len(Sentences(text))
  PROVE  /\ TrimQuote(Sentences(text)[k]) \in Seq(T) /\ Quotable(TrimQuote(Sentences(text)[k]), text)
         /\ \/ TrimQuote(Sentences(text)[k]) = Sentences(text)[k]
            \/ Len(TrimQuote(Sentences(text)[k])) = MaxQuoted
<1> DEFINE s == Sentences(text)[k]
<1>1. s \in Range(Sentences(text))
  <2> DEFINE list == Sentences(text)
  <2>1. list \in Seq(Seq(T))
    BY SentencesLaw
  <2> HIDE DEF list
  <2>2. DOMAIN list = 1 .. Len(list)
    BY <2>1
  <2> QED
    BY <2>2 DEF Range, list
<1>2. PICK a \in 1 .. Len(text) : \E b \in a .. Len(text) : a >= BodyStart(text) /\ s = SubSeq(text, a, b)
  BY <1>1, SentencesLaw
<1>3. PICK b \in a .. Len(text) : a >= BodyStart(text) /\ s = SubSeq(text, a, b)
  BY <1>2
<1>4. PICK c \in a .. b : /\ TrimQuote(SubSeq(text, a, b)) = SubSeq(text, a, c)
                          /\ c = b \/ Len(SubSeq(text, a, c)) = MaxQuoted
  BY TrimmedLaw
<1>5. ~IsSpace(text[a])
  BY <1>3 DEF Readable
<1>6. c \in a .. Len(text)
  <2> DEFINE n == Len(text)
  <2>1. n \in Nat
    OBVIOUS
  <2>2. a \in 1 .. n /\ b \in a .. n
    OBVIOUS
  <2> HIDE DEF n
  <2>3. c \in a .. n
    BY <1>4, <2>1, <2>2
  <2> QED
    BY <2>3 DEF n
<1>7. SubSeq(text, a, c) \in Seq(T) /\ Quotable(SubSeq(text, a, c), text)
  BY <1>5, <1>6, PartIsQuotable
<1> HIDE DEF s
<1>8. TrimQuote(s) = SubSeq(text, a, c) /\ (TrimQuote(s) = s \/ Len(TrimQuote(s)) = MaxQuoted)
  BY <1>3, <1>4
<1>9. TrimQuote(s) \in Seq(T) /\ Quotable(TrimQuote(s), text)
                         /\ (TrimQuote(s) = s \/ Len(TrimQuote(s)) = MaxQuoted)
  BY <1>7, <1>8
<1> QED
  BY <1>9 DEF s

\* The best sentence of a text is a quote of it.
LEMMA BestIsQuotable ==
  ASSUME NEW T, NEW text \in Seq(T), Readable(text), NEW terms, BestSentence(text, terms) # <<>>
  PROVE  BestSentence(text, terms) \in Seq(T) /\ Quotable(BestSentence(text, terms), text)
<1> DEFINE list == Sentences(text)
           score(k) == Cardinality(Terms(list[k]) \cap terms)
           best == {k \in DOMAIN list : score(k) > 0 /\ \A j \in DOMAIN list : score(j) <= score(k)}
<1>1. BestSentence(text, terms) = IF best = {} THEN <<>> ELSE TrimQuote(list[Min(best)])
  BY DEF BestSentence
<1>2. DOMAIN list = 1 .. Len(list) /\ 1 .. Len(list) \in SUBSET Nat
  <2>1. list \in Seq(Seq(T))
    BY SentencesLaw
  <2> HIDE DEF list
  <2> QED
    BY <2>1
<1>3. best \in SUBSET (DOMAIN list)
  OBVIOUS
<1> HIDE DEF best, list
<1>4. best # {} /\ best \in SUBSET Nat
  BY <1>1, <1>2, <1>3
<1>5. Min(best) \in 1 .. Len(list)
  BY <1>2, <1>3, <1>4, MinLaw
<1>6. TrimQuote(list[Min(best)]) \in Seq(T) /\ Quotable(TrimQuote(list[Min(best)]), text)
  BY <1>5, SentenceIsQuotable DEF list
<1> QED
  BY <1>1, <1>4, <1>6

\* What is quoted around a figure is a quote of the text, with the figure in it unless the
\* sentence is too long to quote.
LEMMA AroundIsQuotable ==
  ASSUME NEW T, NEW text \in Seq(T), Readable(text),
         NEW i \in 1 .. Len(text), ~IsSpace(text[i])
  PROVE  LET quote == SentenceAround(text, text[i])
         IN  /\ quote \in Seq(T) /\ Quotable(quote, text)
             /\ text[i] \in Range(quote) \/ Len(quote) = MaxQuoted
<1> DEFINE list == Sentences(text)
           figure == text[i]
           stating == {k \in DOMAIN list : Contains(list[k], figure)}
           quote == SentenceAround(text, figure)
<1>1. quote = IF stating = {} THEN <<figure>> ELSE TrimQuote(list[Min(stating)])
  BY DEF SentenceAround
<1>2. DOMAIN list = 1 .. Len(list) /\ 1 .. Len(list) \in SUBSET Nat /\ list \in Seq(Seq(T))
  <2>1. list \in Seq(Seq(T))
    BY SentencesLaw
  <2> HIDE DEF list
  <2> QED
    BY <2>1
<1>3. stating \in SUBSET (DOMAIN list) /\ \A k \in stating : Contains(list[k], figure)
  OBVIOUS
<1> HIDE DEF stating, list
<1>4. CASE stating = {}
  <2>1. quote = SubSeq(text, i, i)
    BY <1>1, <1>4, OneCharacter
  <2>2. i \in i .. Len(text)
    <3> DEFINE n == Len(text)
    <3>1. n \in Nat /\ i \in 1 .. n
      OBVIOUS
    <3> HIDE DEF n
    <3>2. i \in i .. n
      BY <3>1
    <3> QED
      BY <3>2 DEF n
  <2>3. SubSeq(text, i, i) \in Seq(T) /\ Quotable(SubSeq(text, i, i), text)
    BY <2>2, PartIsQuotable
  <2>4. figure \in Range(<<figure>>)
    BY DEF Range
  <2> QED
    BY <1>1, <1>4, <2>1, <2>3, <2>4
<1>5. CASE stating # {}
  <2> DEFINE k == Min(stating)
  <2>1. k \in 1 .. Len(list) /\ Contains(list[k], figure)
    <3>1. stating \in SUBSET Nat
      BY <1>2, <1>3
    <3>2. Min(stating) \in stating
      BY <1>5, <3>1, MinLaw
    <3> QED
      BY <1>2, <1>3, <3>2
  <2> HIDE DEF k
  <2>2. TrimQuote(list[k]) \in Seq(T) /\ Quotable(TrimQuote(list[k]), text)
        /\ (TrimQuote(list[k]) = list[k] \/ Len(TrimQuote(list[k])) = MaxQuoted)
    BY <2>1, SentenceIsQuotable DEF list
  <2>3. figure \in Range(list[k])
    <3>1. list[k] \in Seq(T)
      BY <1>2, <2>1
    <3>2. DOMAIN list[k] = 1 .. Len(list[k])
      BY <3>1
    <3> HIDE DEF figure
    <3> QED
      BY <2>1, <3>2, Zenon DEF Contains, Range
  <2>4. quote = TrimQuote(list[k])
    BY <1>1, <1>5 DEF k
  <2> HIDE DEF quote, figure
  <2>5. quote \in Seq(T) /\ Quotable(quote, text) /\ (figure \in Range(quote) \/ Len(quote) = MaxQuoted)
    BY <2>2, <2>3, <2>4
  <2> QED
    BY <2>5 DEF quote, figure
<1> QED
  BY <1>4, <1>5

\* The first figure of a text is one of its words.
LEMMA QuantityLaw ==
  ASSUME NEW T, NEW text \in Seq(T), Quantity(text) # NoFigure
  PROVE  \E i \in 1 .. Len(text) : text[i] = Quantity(text) /\ Quantity(text) \in DOMAIN Figures
<1> DEFINE at == {i \in DOMAIN text : text[i] \in DOMAIN Figures}
<1>1. Quantity(text) = IF at = {} THEN NoFigure ELSE text[Min(at)]
  BY DEF Quantity
<1>2. DOMAIN text = 1 .. Len(text)
  OBVIOUS
<1>3. at # {} /\ at \in SUBSET Nat /\ Quantity(text) = text[Min(at)]
  BY <1>1, <1>2
<1>4. Min(at) \in at
  <2> HIDE DEF at
  <2> QED
    BY <1>3, MinLaw
<1>5. Min(at) \in 1 .. Len(text) /\ text[Min(at)] \in DOMAIN Figures
  BY <1>2, <1>4
<1> QED
  BY <1>3, <1>5

ShowsFigures(verdict) ==
  \/ MaxQuoted \in {Len(verdict.circularSpan), Len(verdict.clauseSpan)}
  \/ \E x \in Range(verdict.circularSpan) \cap DOMAIN Figures, y \in Range(verdict.clauseSpan) \cap DOMAIN Figures :
       Figures[x].unit = Figures[y].unit /\ Figures[x].value # Figures[y].value
JudgedTruly(verdict, obligation, clause, T) ==
  /\ verdict.circularSpan \in Seq(T) /\ Quotable(verdict.circularSpan, obligation)
  /\ verdict.clauseSpan \in Seq(T)
  /\ verdict.clauseSpan = <<>> <=> verdict.impact = "NO_MATCH"
  /\ verdict.clauseSpan # <<>> => Quotable(verdict.clauseSpan, clause)
  /\ verdict.impact = "MODIFIED" => ShowsFigures(verdict)
  /\ verdict.impact = "CONFLICT" => Prohibits(obligation) # Prohibits(verdict.clauseSpan)

\* What the figures differ over is quoted from both texts.
LEMMA ModifiedLaw ==
  ASSUME NEW T, NEW obligation \in Seq(T), NEW clause \in Seq(T), Readable(obligation), Readable(clause),
         \A f \in DOMAIN Figures : ~IsSpace(f),
         Quantity(obligation) # NoFigure, Quantity(clause) # NoFigure,
         Figures[Quantity(obligation)].unit = Figures[Quantity(clause)].unit,
         Figures[Quantity(obligation)].value # Figures[Quantity(clause)].value
  PROVE  JudgedTruly(Verdict("MODIFIED", SentenceAround(obligation, Quantity(obligation)),
                             SentenceAround(clause, Quantity(clause))), obligation, clause, T)
<1> DEFINE mine == Quantity(obligation)
           theirs == Quantity(clause)
           q == SentenceAround(obligation, mine)
           r == SentenceAround(clause, theirs)
           verdict == Verdict("MODIFIED", q, r)
<1>1. PICK i \in 1 .. Len(obligation) : obligation[i] = mine /\ mine \in DOMAIN Figures
  BY QuantityLaw
<1>2. PICK j \in 1 .. Len(clause) : clause[j] = theirs /\ theirs \in DOMAIN Figures
  BY QuantityLaw
<1>3. q \in Seq(T) /\ Quotable(q, obligation) /\ (mine \in Range(q) \/ Len(q) = MaxQuoted)
  <2> HIDE DEF mine
  <2>1. ~IsSpace(obligation[i])
    BY <1>1
  <2> QED
    BY <1>1, <2>1, AroundIsQuotable
<1>4. r \in Seq(T) /\ Quotable(r, clause) /\ (theirs \in Range(r) \/ Len(r) = MaxQuoted)
  <2> HIDE DEF theirs
  <2>1. ~IsSpace(clause[j])
    BY <1>2
  <2> QED
    BY <1>2, <2>1, AroundIsQuotable
<1>5. Figures[mine].unit = Figures[theirs].unit /\ Figures[mine].value # Figures[theirs].value
  OBVIOUS
<1> HIDE DEF mine, theirs, q, r
<1>6. verdict.impact = "MODIFIED" /\ verdict.circularSpan = q /\ verdict.clauseSpan = r
  BY DEF Verdict
<1> HIDE DEF verdict
<1>7. ShowsFigures(verdict)
  BY <1>1, <1>2, <1>3, <1>4, <1>5, <1>6 DEF ShowsFigures
<1>8. JudgedTruly(verdict, obligation, clause, T)
  BY <1>3, <1>4, <1>6, <1>7 DEF JudgedTruly, Quotable
<1> QED
  BY <1>8 DEF verdict, q, r, mine, theirs

\* Whatever the judgement, it quotes the texts it is about.
LEMMA JudgeLaw ==
  ASSUME NEW T, NEW obligation \in Seq(T), NEW clause \in Seq(T), obligation # <<>>,
         Readable(obligation), Readable(clause), ~IsSpace(obligation[1]),
         \A f \in DOMAIN Figures : ~IsSpace(f)
  PROVE  JudgedTruly(Judge(obligation, clause), obligation, clause, T)
<1> DEFINE terms == Terms(obligation)
           shared == Cardinality(terms \cap Terms(clause))
           overlaps(n, d) == terms # {} /\ shared * d >= n * Cardinality(terms)
           best == BestSentence(clause, terms)
           quote == TrimQuote(obligation)
           mine == Quantity(obligation)
           theirs == Quantity(clause)
           differs == /\ mine # NoFigure /\ theirs # NoFigure
                      /\ Figures[mine].unit = Figures[theirs].unit
                      /\ Figures[mine].value # Figures[theirs].value
           opposed == /\ Prohibits(obligation) # Prohibits(best) /\ overlaps(2, 5)
                      /\ Permits(IF Prohibits(obligation) THEN best ELSE obligation)
           modified == Verdict("MODIFIED", SentenceAround(obligation, mine), SentenceAround(clause, theirs))
           missed == ~overlaps(1, 4) \/ best = <<>>
           well == overlaps(1, 2)
           verdict == Judge(obligation, clause)
<1>1. verdict = IF missed THEN Verdict("NO_MATCH", quote, <<>>)
                ELSE IF differs THEN modified
                ELSE IF opposed THEN Verdict("CONFLICT", quote, best)
                ELSE Verdict(IF well THEN "ALREADY_COVERED" ELSE "NEW_REQUIREMENT", quote, best)
  BY DEF Judge
<1>2. quote \in Seq(T) /\ Quotable(quote, obligation)
  <2> DEFINE n == Len(obligation)
  <2>1. n \in Nat \ {0} /\ SubSeq(obligation, 1, n) = obligation
    OBVIOUS
  <2>2. 1 \in 1 .. n /\ n \in 1 .. n
    <3> HIDE DEF n
    <3> QED
      BY <2>1
  <2>3. PICK c \in 1 .. n : TrimQuote(SubSeq(obligation, 1, n)) = SubSeq(obligation, 1, c)
    BY <2>2, TrimmedLaw
  <2>4. SubSeq(obligation, 1, c) \in Seq(T) /\ Quotable(SubSeq(obligation, 1, c), obligation)
    BY <2>2, <2>3, PartIsQuotable
  <2> QED
    BY <2>1, <2>3, <2>4
<1>3. best # <<>> => best \in Seq(T) /\ Quotable(best, clause)
  BY BestIsQuotable
<1>4. differs => JudgedTruly(modified, obligation, clause, T)
  BY ModifiedLaw
<1>5. opposed => Prohibits(obligation) # Prohibits(best)
  OBVIOUS
<1> HIDE DEF quote, best, differs, opposed, modified, missed, well, verdict
<1>6. \A i, q, b : /\ Verdict(i, q, b).impact = i /\ Verdict(i, q, b).circularSpan = q
                   /\ Verdict(i, q, b).clauseSpan = b
  BY DEF Verdict
<1>7. CASE missed
  <2>1. verdict = Verdict("NO_MATCH", quote, <<>>)
    BY <1>1, <1>7
  <2>2. verdict.impact = "NO_MATCH" /\ verdict.circularSpan = quote /\ verdict.clauseSpan = <<>>
    BY <1>6, <2>1
  <2>3. <<>> \in Seq(T)
    OBVIOUS
  <2>4. JudgedTruly(verdict, obligation, clause, T)
    BY <1>2, <2>2, <2>3 DEF JudgedTruly
  <2> QED
    BY <2>4 DEF verdict
<1>8. CASE ~missed /\ differs
  BY <1>1, <1>4, <1>8 DEF verdict
<1>9. CASE ~missed /\ ~differs
  <2>1. best # <<>>
    BY <1>9 DEF missed
  <2>2. /\ verdict.circularSpan = quote /\ verdict.clauseSpan = best
        /\ verdict.impact \in {"CONFLICT", "ALREADY_COVERED", "NEW_REQUIREMENT"}
        /\ verdict.impact = "CONFLICT" => opposed
    <3>1. CASE opposed
      <4>1. verdict = Verdict("CONFLICT", quote, best)
        BY <1>1, <1>9, <3>1
      <4> QED
        BY <1>6, <3>1, <4>1
    <3>2. CASE ~opposed
      <4>1. verdict = Verdict(IF well THEN "ALREADY_COVERED" ELSE "NEW_REQUIREMENT", quote, best)
        BY <1>1, <1>9, <3>2
      <4>2. verdict.impact = (IF well THEN "ALREADY_COVERED" ELSE "NEW_REQUIREMENT")
            /\ verdict.circularSpan = quote /\ verdict.clauseSpan = best
        BY <1>6, <4>1
      <4> QED
        BY <4>2
    <3> QED
      BY <3>1, <3>2
  <2>3. JudgedTruly(verdict, obligation, clause, T)
    BY <1>2, <1>3, <1>5, <2>1, <2>2 DEF JudgedTruly
  <2> QED
    BY <2>3 DEF verdict
<1> QED
  BY <1>7, <1>8, <1>9

\* No word of a text and no figure is white space, nor a heading's mark.
LEMMA WordsAreWords ==
  /\ \A w \in ObligationWords \cup ClauseWords \cup DOMAIN Figures \cup {Heading, "a", "h3"} :
       ~IsSpace(w) /\ w # "n"
  /\ IsSpace("n")
<1>1. \A w \in ObligationWords : ~IsSpace(w) /\ w # "n"
  BY Zenon DEF ObligationWords, IsSpace
<1>2. \A w \in ClauseWords : ~IsSpace(w) /\ w # "n"
  BY Zenon DEF ClauseWords, IsSpace
<1>3. \A w \in {Heading, "a", "h3"} : ~IsSpace(w) /\ w # "n"
  BY Zenon DEF Heading, IsSpace
<1>4. DOMAIN Figures = {"d3", "d5", "h3"}
  BY DEF Figures
<1>5. \A w \in {"d3", "d5", "h3"} : ~IsSpace(w) /\ w # "n"
  BY Zenon DEF IsSpace
<1>6. IsSpace("n")
  BY Zenon DEF IsSpace
<1> QED
  BY <1>1, <1>2, <1>3, <1>4, <1>5, <1>6

\* Where the parts of a text stand that is put together from two.
LEMMA TwoParts ==
  ASSUME NEW T, NEW front \in Seq(T), NEW text \in Seq(T)
  PROVE  /\ front \o text \in Seq(T) /\ Len(front \o text) = Len(front) + Len(text)
         /\ \A i \in 1 .. Len(front) : (front \o text)[i] = front[i]
         /\ \A i \in Len(front) + 1 .. Len(front) + Len(text) : (front \o text)[i] = text[i - Len(front)]
OBVIOUS

\* A text without a heading line, or with one in front of it, reads well.
LEMMA InputsAreReadable ==
  ASSUME NEW T, Heading \in T, "n" \in T, NEW w \in T, w # "n",
         NEW words \in Seq(T), NEW heading \in {<<>>, <<Heading, w, "n">>},
         \A i \in 1 .. Len(words) : ~IsSpace(words[i])
  PROVE  Readable(heading \o words)
<1> DEFINE text == heading \o words
           m == Len(words)
<1>1. m \in Nat
  OBVIOUS
<1>2. CASE heading = <<>>
  <2>1. text = words
    BY <1>2
  <2> QED
    BY <2>1 DEF Readable
<1>3. CASE heading = <<Heading, w, "n">>
  <2>1. heading \in Seq(T) /\ Len(heading) = 3 /\ heading[1] = Heading /\ heading[2] = w /\ heading[3] = "n"
    BY <1>3
  <2>2. text \in Seq(T) /\ Len(text) = 3 + m /\ \A i \in 4 .. 3 + m : text[i] = words[i - 3]
    <3>1. /\ text \in Seq(T) /\ Len(text) = Len(heading) + Len(words)
          /\ \A i \in Len(heading) + 1 .. Len(heading) + Len(words) : text[i] = words[i - Len(heading)]
      BY <2>1, TwoParts, SMTT(30)
    <3>2. Len(heading) = 3
      BY <2>1
    <3> HIDE DEF text, m
    <3> QED
      BY <3>1, <3>2 DEF m
  <2>3. text[1] = Heading /\ text[2] = w /\ text[3] = "n"
    <3>1. \A i \in 1 .. Len(heading) : (heading \o words)[i] = heading[i]
      <4>1. heading \in Seq(T) /\ words \in Seq(T)
        BY <2>1
      <4> QED
        BY <4>1, TwoParts, Zenon
    <3>2. Len(heading) = 3 /\ 1 \in 1 .. 3 /\ 2 \in 1 .. 3 /\ 3 \in 1 .. 3
      BY <2>1
    <3>3. \A i \in 1 .. Len(heading) : text[i] = heading[i]
      BY <3>1
    <3> HIDE DEF text, m
    <3> QED
      BY <2>1, <3>2, <3>3
  <2> HIDE DEF text, m
  <2>4. \A i \in 4 .. 3 + m : ~IsSpace(text[i])
    <3>1. ASSUME NEW i \in 4 .. 3 + m PROVE ~IsSpace(text[i])
      <4> DEFINE j == i - 3
      <4>1. j \in 1 .. m
        BY <1>1
      <4>2. text[i] = words[j]
        BY <2>2
      <4> HIDE DEF j
      <4> QED
        BY <4>1, <4>2 DEF m
    <3> QED
      BY <3>1
  <2> DEFINE newlines == {i \in DOMAIN text : text[i] = "n"}
  <2>5. Heading # "n" /\ IsSpace("n")
    BY WordsAreWords
  <2>6. newlines = {3}
    <3>1. DOMAIN text = 1 .. 3 + m
      BY <2>2
    <3>2. \A i \in 1 .. 3 + m : i \in {1, 2, 3} \/ i \in 4 .. 3 + m
      BY <1>1
    <3>3. 3 \in 1 .. 3 + m
      BY <1>1
    <3> QED
      BY <2>3, <2>4, <2>5, <3>1, <3>2, <3>3
  <2>7. Min({3}) = 3
    BY DEF Min
  <2>8. text # <<>> /\ Head(text) = Heading
    <3>1. Len(text) # 0
      BY <1>1, <2>2
    <3> QED
      BY <2>2, <2>3, <3>1
  <2>9. BodyStart(text) = 4
    <3>1. BodyStart(text) = IF text = <<>> \/ Head(text) # Heading THEN 1
                            ELSE IF newlines = {} THEN Len(text) + 1 ELSE Min(newlines) + 1
      BY DEF BodyStart
    <3> HIDE DEF newlines
    <3> QED
      BY <2>6, <2>7, <2>8, <3>1
  <2>10. \A i \in 1 .. 3 + m : i >= 4 => ~IsSpace(text[i])
    BY <1>1, <2>4
  <2>11. Readable(text)
    BY <2>2, <2>9, <2>10 DEF Readable
  <2> QED
    BY <2>11 DEF text
<1> QED
  BY <1>2, <1>3

\* Every obligation and every clause, however long: the rule-based judge quotes only what
\* stands in both and says what its quotes show (_judge).
THEOREM RuleQuotesAlwaysLocated == Spec => []RuleQuotesAreLocated
<1>1. Init => RuleQuotesAreLocated
  <2> SUFFICES ASSUME Init, input.task = "judge", input.obligation # <<>> PROVE RuleQuotesAreLocated
    BY DEF RuleQuotesAreLocated
  <2> DEFINE obligation == input.obligation
             clause == input.clause
             T == ObligationWords \cup ClauseWords \cup {Heading, "a", "h3", "n"}
             verdict == Judge(obligation, clause)
             in(text) == [text |-> text, start |-> 0]
             checked == VerifyJudgement(verdict, in(obligation), in(clause))
  <2>1. input \in JudgeInputs
    BY TaskLaw
  <2>2. PICK o \in BoundedSeq(ObligationWords, MaxJudged), c \in BoundedSeq(ClauseWords, MaxJudged),
             heading \in {<<>>, <<Heading, "a", "n">>, <<Heading, "h3", "n">>} :
          obligation = o /\ clause = heading \o c
    BY <2>1 DEF JudgeInputs
  <2>3. o \in Seq(ObligationWords) /\ c \in Seq(ClauseWords)
    <3>1. MaxJudged \in Int
      BY AlgorithmsAssumption DEF AlgorithmsAssumption
    <3> QED
      BY <2>2, <3>1, BoundedLaw
  <2>4. Heading \in T /\ "n" \in T /\ "a" \in T /\ "h3" \in T /\ ObligationWords \subseteq T /\ ClauseWords \subseteq T
    OBVIOUS
  <2>5. \A w \in ObligationWords \cup ClauseWords \cup DOMAIN Figures \cup {Heading, "a", "h3"} :
          ~IsSpace(w) /\ w # "n"
    BY WordsAreWords
  <2> HIDE DEF T, obligation, clause, verdict, checked
  <2>6. o \in Seq(T) /\ c \in Seq(T)
    BY <2>3, <2>4, WiderSeq
  <2>7. (\A i \in 1 .. Len(o) : ~IsSpace(o[i])) /\ (\A i \in 1 .. Len(c) : ~IsSpace(c[i]))
    <3>1. (\A i \in 1 .. Len(o) : o[i] \in ObligationWords) /\ (\A i \in 1 .. Len(c) : c[i] \in ClauseWords)
      BY <2>3
    <3> QED
      BY <2>5, <3>1
  <2>8. obligation \in Seq(T) /\ Readable(obligation) /\ obligation # <<>> /\ ~IsSpace(obligation[1])
    <3>1. obligation # <<>>
      BY DEF obligation
    <3>2. 1 \in 1 .. Len(o)
      BY <2>2, <2>6, <3>1
    <3> QED
      BY <2>2, <2>6, <2>7, <3>1, <3>2 DEF Readable
  <2>9. clause \in Seq(T) /\ Readable(clause)
    <3>1. heading \in Seq(T)
      <4>1. <<>> \in Seq(T) /\ <<Heading, "a", "n">> \in Seq(T) /\ <<Heading, "h3", "n">> \in Seq(T)
        BY <2>4
      <4>2. heading \in {<<>>, <<Heading, "a", "n">>, <<Heading, "h3", "n">>}
        OBVIOUS
      <4> QED
        BY <4>1, <4>2, Zenon
    <3>2. \E w \in {"a", "h3"} : heading \in {<<>>, <<Heading, w, "n">>}
      OBVIOUS
    <3>3. PICK w \in {"a", "h3"} : heading \in {<<>>, <<Heading, w, "n">>}
      BY <3>2
    <3>4. w \in T /\ w # "n"
      BY <2>4, <2>5, <3>3
    <3>5. Readable(heading \o c)
      BY <2>4, <2>6, <2>7, <3>3, <3>4, InputsAreReadable
    <3> QED
      BY <2>2, <2>6, <3>1, <3>5
  <2>10. JudgedTruly(verdict, obligation, clause, T)
    BY <2>5, <2>8, <2>9, JudgeLaw DEF verdict
  <2>11. checked.grounded
    <3> DEFINE circular == ResolveSpan(verdict.circularSpan, obligation, 0)
               asks == verdict.impact # "NO_MATCH" /\ verdict.clauseSpan # <<>>
               located == IF asks THEN ResolveSpan(verdict.clauseSpan, clause, 0) ELSE NoSpan
    <3>1. checked = IF verdict.circularSpan # <<>> /\ circular = NoSpan
                    THEN [grounded |-> FALSE, circular |-> NoSpan, clause |-> NoSpan]
                    ELSE IF asks /\ located = NoSpan
                    THEN [grounded |-> FALSE, circular |-> circular, clause |-> NoSpan]
                    ELSE [grounded |-> TRUE, circular |-> circular, clause |-> located]
      BY DEF checked, VerifyJudgement
    <3>2. circular # NoSpan
      BY <2>8, <2>10, ResolvedLaw DEF JudgedTruly, Quotable
    <3>3. asks => located # NoSpan
      BY <2>9, <2>10, ResolvedLaw DEF JudgedTruly, Quotable
    <3> HIDE DEF circular, asks, located
    <3> QED
      BY <3>1, <3>2, <3>3
  <2>12. /\ verdict.impact = "NO_MATCH" <=> verdict.clauseSpan = <<>>
         /\ verdict.circularSpan # <<>>
    BY <2>10 DEF JudgedTruly, Quotable
  <2> DEFINE figure(text) == Range(text) \cap DOMAIN Figures
             shown == \/ MaxQuoted \in {Len(verdict.circularSpan), Len(verdict.clauseSpan)}
                      \/ \E x \in figure(verdict.circularSpan), y \in figure(verdict.clauseSpan) :
                           Figures[x].unit = Figures[y].unit /\ Figures[x].value # Figures[y].value
  <2>13. verdict.impact = "MODIFIED" => shown
    BY <2>10, Zenon DEF JudgedTruly, ShowsFigures
  <2>14. verdict.impact = "CONFLICT" => Prohibits(obligation) # Prohibits(verdict.clauseSpan)
    BY <2>10 DEF JudgedTruly
  <2> QED
    BY <2>11, <2>12, <2>13, <2>14, Zenon
       DEF RuleQuotesAreLocated, checked, verdict, obligation, clause, in, shown, figure
<1>2. RuleQuotesAreLocated /\ [Next]_input => RuleQuotesAreLocated'
  BY DEF Next, RuleQuotesAreLocated
<1> QED
  BY <1>1, <1>2, PTL DEF Spec

\* Whoever quotes, model or rule, and whatever the texts: what is stored as located is in
\* its source (resolve_span, verify_judgement, _judge).
THEOREM QuotesAlwaysLocated == Spec => []QuotesAreLocated
<1>1. ModelQuotesAreLocated /\ RuleQuotesAreLocated => QuotesAreLocated
  BY DEF QuotesAreLocated
<1> QED
  BY <1>1, ModelQuotesAlwaysLocated, RuleQuotesAlwaysLocated, PTL
=============================================================================
