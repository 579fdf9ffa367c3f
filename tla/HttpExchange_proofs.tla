------------------------ MODULE HttpExchange_proofs -------------------------
(***************************************************************************)
(* A request and its reply.  Reading, for every set of streams, every cut  *)
(* of them and every limit: the buffer holds, what is read does not depend *)
(* on the cuts, and the SQL text in it is the one the client meant.        *)
(* Replying, for all tables and errors: a JSON reader finds in the reply   *)
(* what the engine answered.                                               *)
(***************************************************************************)
EXTENDS HttpExchange, CommonLemmas, FiniteSetTheorems, SequenceTheorems

-----------------------------------------------------------------------------
(* Positions in a text and in its prefixes                                 *)

Marks == {<<"CR", "LF", "CR", "LF">>, <<"LF", "LF">>}

(* First is a member of its set, the least, or the default.                *)
LEMMA FirstIsLeast ==
    ASSUME NEW S \in SUBSET Nat, NEW n
    PROVE  /\ S = {} => First(S, n) = n
           /\ S # {} => First(S, n) \in S /\ \A i \in S : First(S, n) <= i
BY MinIsLeast DEF First

(* A prefix has its length and its characters.                             *)
LEMMA Prefix ==
    ASSUME NEW b \in Seq(STRING), NEW n \in 0 .. Len(b)
    PROVE  /\ SubSeq(b, 1, n) \in Seq(STRING)
           /\ Len(SubSeq(b, 1, n)) = n
           /\ \A i \in 1 .. n : SubSeq(b, 1, n)[i] = b[i]
<1>1. n \in Int /\ \A i \in 1 .. n : i \in 1 .. Len(b) /\ b[i] \in STRING
  BY ElementOfSeq
<1> QED BY <1>1, SubSeqProperties

LEMMA MarkLength ==
    ASSUME NEW mark \in Marks
    PROVE  Len(mark) \in {2, 4} /\ mark[Len(mark)] = "LF"
<1>1. CASE mark = <<"CR", "LF", "CR", "LF">>
  <2>1. Len(mark) = 4 /\ mark[4] = "LF"
    BY <1>1
  <2> QED BY <2>1
<1>2. CASE mark = <<"LF", "LF">>
  <2>1. Len(mark) = 2 /\ mark[2] = "LF"
    BY <1>2
  <2> QED BY <2>1
<1> QED BY <1>1, <1>2 DEF Marks

(* The ends of a mark are positions of the text, and behind the first.     *)
LEMMA EndsArePositions ==
    ASSUME NEW b \in Seq(STRING), NEW mark \in Marks
    PROVE  EndsOf(mark, b) \subseteq 2 .. Len(b)
<1>1. Len(mark) \in {2, 4} /\ Len(b) \in Nat
  BY MarkLength
<1>2. EndsOf(mark, b) \subseteq Len(mark) .. Len(b)
  BY DEF EndsOf
<1>3. \A k \in {2, 4} : \A n \in Nat : \A i \in k .. n : i \in 2 .. n
  OBVIOUS
<1> QED BY <1>1, <1>2, <1>3

(* In a prefix a mark ends where it ends in the text, as far as the prefix *)
(* goes.                                                                   *)
LEMMA EndsInPrefix ==
    ASSUME NEW b \in Seq(STRING), NEW n \in 0 .. Len(b), NEW mark \in Marks
    PROVE  EndsOf(mark, SubSeq(b, 1, n)) = {i \in EndsOf(mark, b) : i <= n}
<1> DEFINE k == Len(mark)
           p == SubSeq(b, 1, n)
<1>1. k \in {2, 4}
  BY MarkLength
<1>2. Len(p) = n
  BY Prefix
<1>3. ASSUME NEW i \in k .. n
      PROVE  SubSeq(p, i - k + 1, i) = SubSeq(b, i - k + 1, i)
  <2>1. /\ 1 \in 1 .. Len(b) /\ n \in 1 .. Len(b)
        /\ i - k + 1 \in 1 .. n - 1 + 1 /\ i \in 1 .. n - 1 + 1
        /\ 1 + (i - k + 1) - 1 = i - k + 1 /\ 1 + i - 1 = i
    BY <1>1
  <2> HIDE DEF k
  <2>2. SubSeq(SubSeq(b, 1, n), i - k + 1, i) = SubSeq(b, 1 + (i - k + 1) - 1, 1 + i - 1)
    BY <2>1, SubSeqOfSubSeq
  <2> QED BY <2>1, <2>2
<1>4. EndsOf(mark, p) = {i \in k .. n : SubSeq(p, i - k + 1, i) = mark}
  BY <1>2 DEF EndsOf
<1>5. EndsOf(mark, b) = {i \in k .. Len(b) : SubSeq(b, i - k + 1, i) = mark}
  BY DEF EndsOf
<1> HIDE DEF k, p
<1>6. k \in Nat /\ n \in Nat /\ Len(b) \in Nat /\ n <= Len(b)
  BY <1>1
<1> QED BY <1>3, <1>4, <1>5, <1>6 DEF p

(* A mark ends with an LF.                                                 *)
LEMMA MarkEndsLine ==
    ASSUME NEW b \in Seq(STRING), NEW mark \in Marks, NEW i \in EndsOf(mark, b)
    PROVE  b[i] = "LF"
<1> DEFINE k == Len(mark)
<1>1. k \in {2, 4} /\ mark[k] = "LF"
  BY MarkLength
<1>2. i \in k .. Len(b) /\ SubSeq(b, i - k + 1, i) = mark
  BY DEF EndsOf
<1> HIDE DEF k
<1>3. \A j \in i - k + 1 .. i : b[j] \in STRING
  BY <1>1, <1>2, ElementOfSeq
<1>4. SubSeq(b, i - k + 1, i)[k] = b[(i - k + 1) + k - 1]
  BY <1>1, <1>2, <1>3, SubSeqProperties
<1> QED BY <1>1, <1>2, <1>4

-----------------------------------------------------------------------------
(* Where the header ends                                                   *)

LEMMA EndsTyped ==
    ASSUME NEW b \in Seq(STRING)
    PROVE  CrlfEnds(b) \subseteq 2 .. Len(b) /\ LfEnds(b) \subseteq 2 .. Len(b)
BY EndsArePositions DEF CrlfEnds, LfEnds, Marks

LEMMA EndsCut ==
    ASSUME NEW b \in Seq(STRING), NEW n \in 0 .. Len(b)
    PROVE  /\ CrlfEnds(SubSeq(b, 1, n)) = {i \in CrlfEnds(b) : i <= n}
           /\ LfEnds(SubSeq(b, 1, n)) = {i \in LfEnds(b) : i <= n}
BY EndsInPrefix DEF CrlfEnds, LfEnds, Marks

(* What find_header_end returns on a prefix: an end of a mark within it,   *)
(* or 0 if there is none.                                                  *)
LEMMA HeaderEndFound ==
    ASSUME NEW b \in Seq(STRING), NEW n \in 0 .. Len(b)
    PROVE  LET e == FindHeaderEnd(SubSeq(b, 1, n))
           IN  /\ e \in 0 .. n
               /\ e = 0 => \A i \in HeaderEnds(b) : i > n
               /\ e # 0 => e \in HeaderEnds(b)
<1> DEFINE C == {i \in CrlfEnds(b) : i <= n}
           L == {i \in LfEnds(b) : i <= n}
           e == FindHeaderEnd(SubSeq(b, 1, n))
<1> SUFFICES /\ e \in 0 .. n
             /\ e = 0 => \A i \in HeaderEnds(b) : i > n
             /\ e # 0 => e \in HeaderEnds(b)
  OBVIOUS
<1>1. C \in SUBSET Nat /\ L \in SUBSET Nat /\ C \subseteq 2 .. n /\ L \subseteq 2 .. n
  BY EndsTyped
<1>2. e = First(C, First(L, 0))
  BY EndsCut DEF FindHeaderEnd
<1>3. \A i \in HeaderEnds(b) : i \in Nat /\ (i <= n => i \in C \cup L)
  BY EndsTyped DEF HeaderEnds
<1>4. C \cup L \subseteq HeaderEnds(b)
  BY DEF HeaderEnds
<1> HIDE DEF C, L, e
<1>5. CASE C # {}
  <2>1. e \in C
    BY <1>1, <1>2, <1>5, FirstIsLeast
  <2>2. e \in 2 .. n
    BY <1>1, <2>1
  <2> QED BY <1>4, <2>1, <2>2
<1>6. CASE C = {} /\ L # {}
  <2>1. First(L, 0) \in L
    BY <1>1, <1>6, FirstIsLeast
  <2>2. e = First(L, 0)
    BY <1>1, <1>2, <1>6, FirstIsLeast
  <2>3. e \in 2 .. n
    BY <1>1, <2>1, <2>2
  <2> QED BY <1>4, <2>1, <2>2, <2>3
<1>7. CASE C = {} /\ L = {}
  <2>1. e = 0
    BY <1>1, <1>2, <1>7, FirstIsLeast
  <2>2. \A i \in HeaderEnds(b) : i > n
    BY <1>3, <1>7
  <2> QED BY <2>1, <2>2
<1> QED BY <1>5, <1>6, <1>7

(* When no CR LF CR LF hides behind an LF LF, find_header_end finds in     *)
(* every prefix what it finds in the whole stream, if it finds anything.   *)
LEMMA HeaderEndStable ==
    ASSUME NEW b \in Seq(STRING), NEW n \in 0 .. Len(b),
           LfEnds(b) # {} /\ CrlfEnds(b) # {} => Min(CrlfEnds(b)) < Min(LfEnds(b)),
           FindHeaderEnd(SubSeq(b, 1, n)) # 0
    PROVE  FindHeaderEnd(SubSeq(b, 1, n)) = First(CrlfEnds(b) \cup LfEnds(b), 0)
<1> DEFINE CC == CrlfEnds(b)
           LL == LfEnds(b)
           C == {i \in CC : i <= n}
           L == {i \in LL : i <= n}
           e == FindHeaderEnd(SubSeq(b, 1, n))
<1>1. CC \in SUBSET Nat /\ LL \in SUBSET Nat /\ n \in Nat
  BY EndsTyped
<1>2. e = First(C, First(L, 0))
  BY EndsCut DEF FindHeaderEnd
<1>3. LL # {} /\ CC # {} => Min(CC) < Min(LL)
  OBVIOUS
<1>4. e # 0
  OBVIOUS
<1> HIDE DEF CC, LL, e
<1>5. CASE C # {}
  <2>1. Min(C) \in C /\ \A i \in C : Min(C) <= i
    BY <1>1, <1>5, MinIsLeast
  <2>2. e = Min(C)
    BY <1>2, <1>5 DEF First
  <2>3. \A i \in CC : Min(C) <= i
    <3> TAKE i \in CC
    <3>1. i \in Nat /\ Min(C) \in Nat /\ Min(C) <= n
      BY <1>1, <2>1
    <3>2. CASE i <= n
      BY <2>1, <3>2
    <3> QED BY <1>1, <3>1, <3>2
  <2>4. Min(CC) = Min(C)
    BY <1>1, <2>1, <2>3, MinUnique
  <2>5. \A i \in LL : Min(C) <= i
    <3>1. CASE LL = {}
      BY <3>1
    <3>2. CASE LL # {}
      <4>1. Min(LL) \in LL /\ \A i \in LL : Min(LL) <= i
        BY <1>1, <3>2, MinIsLeast
      <4>2. Min(C) < Min(LL)
        BY <1>3, <2>1, <2>4, <3>2
      <4>3. Min(C) \in Nat /\ \A i \in LL : i \in Nat
        BY <1>1, <2>1
      <4> QED BY <4>1, <4>2, <4>3
    <3> QED BY <3>1, <3>2
  <2>6. Min(CC \cup LL) = Min(C)
    BY <1>1, <2>1, <2>3, <2>5, MinUnique
  <2> QED BY <2>1, <2>2, <2>6 DEF First, e, CC, LL
<1>6. CASE C = {}
  <2>1. L # {} /\ e = Min(L)
    BY <1>2, <1>4, <1>6 DEF First
  <2>2. Min(L) \in L /\ \A i \in L : Min(L) <= i
    BY <1>1, <2>1, MinIsLeast
  <2>3. \A i \in LL : Min(L) <= i
    <3> TAKE i \in LL
    <3>1. i \in Nat /\ Min(L) \in Nat /\ Min(L) <= n
      BY <1>1, <2>2
    <3>2. CASE i <= n
      BY <2>2, <3>2
    <3> QED BY <1>1, <3>1, <3>2
  <2>4. Min(LL) = Min(L)
    BY <1>1, <2>2, <2>3, MinUnique
  <2>5. CC = {}
    <3>1. SUFFICES ASSUME CC # {} PROVE FALSE
      OBVIOUS
    <3>2. Min(CC) \in CC
      BY <1>1, <3>1, MinIsLeast
    <3>3. Min(CC) < Min(L)
      BY <1>3, <2>2, <2>4, <3>1
    <3>4. Min(CC) \in Nat /\ Min(L) \in Nat /\ Min(L) <= n
      BY <1>1, <2>2, <3>2
    <3> QED BY <1>6, <3>2, <3>3, <3>4
  <2>6. CC \cup LL = LL /\ LL # {}
    BY <2>1, <2>5
  <2> QED BY <2>1, <2>4, <2>6 DEF First, e, CC, LL
<1> QED BY <1>5, <1>6

-----------------------------------------------------------------------------
(* The request line and the length                                         *)

(* The first line ends where the header ends, or before.                   *)
LEMMA FirstLineInHeader ==
    ASSUME NEW b \in Seq(STRING)
    PROVE  /\ LineEnd(b, 1) \in Nat /\ LineEnd(b, 1) - 1 \in 0 .. Len(b)
           /\ \A i \in HeaderEnds(b) : LineEnd(b, 1) <= i
<1> DEFINE E == {j \in 1 .. Len(b) : b[j] \in Eol}
<1>1. E \in SUBSET Nat /\ Len(b) \in Nat
  OBVIOUS
<1>2. LineEnd(b, 1) = First(E, Len(b) + 1)
  BY DEF LineEnd, Find
<1>3. E # {} => LineEnd(b, 1) \in E /\ \A j \in E : LineEnd(b, 1) <= j
  <2> HIDE DEF E
  <2> QED BY <1>1, <1>2, FirstIsLeast
<1>4. E = {} => LineEnd(b, 1) = Len(b) + 1
  BY <1>2 DEF First
<1>5. \A i \in HeaderEnds(b) : i \in E
  <2> TAKE i \in HeaderEnds(b)
  <2>1. b[i] = "LF"
    BY MarkEndsLine DEF HeaderEnds, CrlfEnds, LfEnds, Marks
  <2>2. i \in 1 .. Len(b)
    BY EndsTyped DEF HeaderEnds
  <2> QED BY <2>1, <2>2 DEF Eol
<1>6. LineEnd(b, 1) \in Nat /\ LineEnd(b, 1) - 1 \in 0 .. Len(b)
  <2>1. CASE E = {}
    BY <1>1, <1>4, <2>1
  <2>2. CASE E # {}
    BY <1>1, <1>3, <2>2
  <2> QED BY <2>1, <2>2
<1>7. \A i \in HeaderEnds(b) : LineEnd(b, 1) <= i
  BY <1>3, <1>5
<1> QED BY <1>6, <1>7

(* Words of a prefix are words of every longer prefix.                     *)
LEMMA WordsGrow ==
    ASSUME NEW b \in Seq(STRING), NEW n \in 0 .. Len(b), NEW m \in 0 .. n,
           Cardinality(Words(SubSeq(b, 1, m))) >= 2
    PROVE  Cardinality(Words(SubSeq(b, 1, n))) >= 2
<1> DEFINE p == SubSeq(b, 1, m)
           q == SubSeq(b, 1, n)
<1>1. m \in 0 .. Len(b) /\ m \in Nat /\ n \in Nat /\ m <= n
  OBVIOUS
<1>2. DOMAIN p = 1 .. m /\ \A i \in 1 .. m : p[i] = b[i]
  BY <1>1, Prefix
<1>3. DOMAIN q = 1 .. n /\ \A i \in 1 .. n : q[i] = b[i]
  BY Prefix
<1> HIDE DEF p, q
<1>4. ASSUME NEW i \in Words(p) PROVE i \in Words(q)
  <2>1. i \in 1 .. m /\ p[i] \notin Space /\ (i = 1 \/ p[i - 1] \in Space)
    BY <1>2, <1>4 DEF Words
  <2>2. i \in 1 .. n /\ p[i] = q[i]
    BY <1>1, <1>2, <1>3, <2>1
  <2>3. i # 1 => p[i - 1] = q[i - 1]
    <3>1. i # 1 => i - 1 \in 1 .. m /\ i - 1 \in 1 .. n
      BY <1>1, <2>1
    <3> QED BY <1>2, <1>3, <3>1
  <2> QED BY <1>3, <2>1, <2>2, <2>3 DEF Words
<1>5. IsFiniteSet(1 .. n) /\ Words(q) \subseteq 1 .. n
  BY <1>1, <1>3, FS_Interval DEF Words
<1>6. IsFiniteSet(Words(q))
  BY <1>5, FS_Subset
<1>7. IsFiniteSet(Words(p)) /\ Cardinality(Words(p)) <= Cardinality(Words(q))
  BY <1>4, <1>6, FS_Subset
<1>8. Cardinality(Words(p)) \in Nat /\ Cardinality(Words(q)) \in Nat
  BY <1>6, <1>7, FS_CardinalityType
<1>9. Cardinality(Words(p)) >= 2
  BY DEF p
<1> QED BY <1>7, <1>8, <1>9 DEF q

(* What the digits of a value stand for is a natural number.               *)
LEMMA NumberIsNat ==
    ASSUME NEW v, Len(v) \in Nat
    PROVE  NumberOf(v) \in Nat
<1> DEFINE n == Len(v)
           step == [i \in 1 .. n |-> [x \in Nat |-> x * 10 + DigitValue(v[i])]]
           f == CHOOSE g : g = [i \in 0 .. n |->
                    IF i = 0 THEN 0 ELSE g[i - 1] * 10 + DigitValue(v[i])]
<1>1. ASSUME NEW d PROVE DigitValue(d) \in Nat
  <2> DEFINE S == {k \in DOMAIN Digits : Digits[k] = d}
  <2>1. S \in SUBSET Nat
    BY DEF Digits
  <2>2. DigitValue(d) = First(S, 0)
    BY DEF DigitValue
  <2> HIDE DEF S
  <2>3. S = {} => First(S, 0) = 0
    BY <2>1, FirstIsLeast
  <2>4. S # {} => First(S, 0) \in S
    BY <2>1, FirstIsLeast
  <2>5. CASE S = {}
    BY <2>2, <2>3, <2>5
  <2>6. CASE S # {}
    <3>1. First(S, 0) \in Nat
      BY <2>1, <2>4, <2>6
    <3> QED BY <2>2, <3>1
  <2> QED BY <2>5, <2>6
<1>2. step \in [1 .. n -> [Nat -> Nat]]
  BY <1>1
<1>3. n \in Nat /\ n \in 0 .. n
  OBVIOUS
<1>4. PICK g : IsRecursion(g, Nat, 0, step, n)
  <2> HIDE DEF step, n
  <2> QED BY <1>2, <1>3, RecursionExists
<1>5. /\ g \in [0 .. n -> Nat]
      /\ g[0] = 0
      /\ \A i \in 1 .. n : g[i] = step[i][g[i - 1]]
  <2> HIDE DEF step, n
  <2> QED BY <1>4 DEF IsRecursion
<1>6. g = [i \in 0 .. n |-> IF i = 0 THEN 0 ELSE g[i - 1] * 10 + DigitValue(v[i])]
  <2>1. ASSUME NEW i \in 1 .. n
        PROVE  g[i] = g[i - 1] * 10 + DigitValue(v[i])
    <3>1. i - 1 \in 0 .. n /\ g[i - 1] \in Nat
      BY <1>3, <1>5
    <3>2. step[i][g[i - 1]] = g[i - 1] * 10 + DigitValue(v[i])
      BY <3>1
    <3> HIDE DEF step
    <3> QED BY <1>5, <3>2
  <2>2. \A i \in 0 .. n : g[i] = IF i = 0 THEN 0 ELSE g[i - 1] * 10 + DigitValue(v[i])
    <3> HIDE DEF step
    <3> QED BY <1>3, <1>5, <2>1
  <2> HIDE DEF step
  <2> QED BY <1>5, <2>2
<1>7. f = [i \in 0 .. n |-> IF i = 0 THEN 0 ELSE f[i - 1] * 10 + DigitValue(v[i])]
  BY <1>6
<1> HIDE DEF f
<1>8. f[0] \in Nat
  BY <1>7
<1>9. ASSUME NEW i \in 1 .. n, f[i - 1] \in Nat PROVE f[i] \in Nat
  <2>1. f[i] = f[i - 1] * 10 + DigitValue(v[i])
    BY <1>7
  <2>2. DigitValue(v[i]) \in Nat
    BY <1>1
  <2> QED BY <1>9, <2>1, <2>2
<1>10. f[n] \in Nat
  <2>1. \A i \in 0 .. n : f[i] \in Nat
    BY <1>3, <1>8, <1>9, StepwiseIn
  <2> QED BY <1>3, <2>1
<1>11. NumberOf(v) = f[n]
  BY DEF NumberOf, f
<1> QED BY <1>10, <1>11

(* So is the length a header declares.                                     *)
LEMMA DeclaredIsNat ==
    ASSUME NEW h \in Seq(STRING)
    PROVE  DeclaredLength(h) \in Nat
<1>1. CASE LengthLines(h) = {}
  BY <1>1 DEF DeclaredLength
<1>2. CASE LengthLines(h) # {}
  <2> DEFINE i == Min(LengthLines(h))
             j == LineEnd(h, i)
             t == SubSeq(h, i + 1, j - 1)
             inner == {k \in DOMAIN t : t[k] \notin Blank}
  <2>1. LengthLines(h) \in SUBSET Nat /\ LengthLines(h) \subseteq 1 .. Len(h)
    BY DEF LengthLines
  <2>2. i \in 1 .. Len(h)
    BY <1>2, <2>1, MinIsLeast
  <2>3. j \in i .. Len(h) + 1
    <3> DEFINE E == {k \in i .. Len(h) : h[k] \in Eol}
    <3>1. j = First(E, Len(h) + 1) /\ E \in SUBSET Nat /\ E \subseteq i .. Len(h)
      BY <2>2 DEF LineEnd, Find
    <3> HIDE DEF E, i, j
    <3>2. CASE E = {}
      <4>1. j = Len(h) + 1
        BY <3>1, <3>2, FirstIsLeast
      <4> QED BY <2>2, <4>1
    <3>3. CASE E # {}
      <4>1. j \in E
        BY <3>1, <3>3, FirstIsLeast
      <4> QED BY <2>2, <3>1, <4>1
    <3> QED BY <3>2, <3>3
  <2> HIDE DEF i, j
  <2>4. t \in Seq(STRING)
    <3>1. i + 1 \in Int /\ j - 1 \in Int
      BY <2>2, <2>3
    <3>2. \A k \in i + 1 .. j - 1 : h[k] \in STRING
      BY <2>2, <2>3, ElementOfSeq
    <3> QED BY <3>1, <3>2, SubSeqProperties
  <2> HIDE DEF t
  <2>5. Len(Trim(t, Blank)) \in Nat
    <3>1. CASE inner = {}
      BY <3>1 DEF Trim
    <3>2. CASE inner # {}
      <4>1. Len(t) \in Nat /\ inner \in SUBSET (0 .. Len(t)) /\ inner \in SUBSET Nat
            /\ inner \subseteq 1 .. Len(t)
        BY <2>4
      <4>2. Min(inner) \in inner /\ Max(inner) \in inner
        BY <3>2, <4>1, MinIsLeast, MaxIsGreatest
      <4>3. Trim(t, Blank) = SubSeq(t, Min(inner), Max(inner))
        BY <3>2 DEF Trim
      <4> HIDE DEF inner
      <4>4. Min(inner) \in 1 .. Len(t) /\ Max(inner) \in 1 .. Len(t)
        BY <4>1, <4>2
      <4>5. \A k \in Min(inner) .. Max(inner) : t[k] \in STRING
        BY <2>4, <4>4, ElementOfSeq
      <4>6. SubSeq(t, Min(inner), Max(inner)) \in Seq(STRING)
        BY <4>4, <4>5, SubSeqProperties
      <4> QED BY <4>3, <4>6
    <3> QED BY <3>1, <3>2
  <2>6. DeclaredLength(h) = NumberOf(Trim(t, Blank))
    BY <1>2 DEF DeclaredLength, LengthValue, t, i, j
  <2> QED BY <2>5, <2>6, NumberIsNat
<1> QED BY <1>1, <1>2

-----------------------------------------------------------------------------
(* The buffer                                                              *)

LEMMA MinOfTwo ==
    ASSUME NEW a \in Int, NEW b \in Int
    PROVE  Min({a, b}) <= a /\ Min({a, b}) <= b /\ Min({a, b}) \in Int
<1>1. \E x \in {a, b} : \A y \in {a, b} : x <= y
  OBVIOUS
<1>2. Min({a, b}) \in {a, b} /\ \A y \in {a, b} : Min({a, b}) <= y
  BY <1>1 DEF Min
<1> QED BY <1>2

LEMMA Remainder ==
    ASSUME NEW a \in Nat, NEW b \in Nat \ {0}
    PROVE  a % b \in Nat /\ (a < b => a % b = a)
OBVIOUS

LEMMA Limits ==
    /\ HeaderLimit \in Nat /\ MaxBody \in Nat /\ MaxChunk \in Nat
    /\ SizeModulus \in Nat \ {0}
    /\ Capacity = HeaderLimit + MaxBody + 1 /\ Capacity \in Nat
BY HttpAssumption DEF Capacity

(* The stream as far as it was received.                                   *)
LEMMA StreamTyped ==
    ASSUME BufferState
    PROVE  /\ input.bytes \in Seq(STRING)
           /\ Len(input.bytes) \in Nat
           /\ total \in Nat /\ headerEnd \in Nat /\ contentLength \in Nat
           /\ headerEnd <= total /\ total <= Len(input.bytes) /\ contentLength <= MaxBody
           /\ headerEnd \in 0 .. Len(input.bytes)
<1>1. input \in Inputs /\ total \in 0 .. Len(input.bytes) /\ headerEnd \in 0 .. total
      /\ contentLength \in 0 .. MaxBody
  BY DEF BufferState
<1>2. input.bytes \in Seq(STRING)
  BY <1>1, HttpAssumption
<1>3. Len(input.bytes) \in Nat
  BY <1>2
<1> QED BY <1>1, <1>2, <1>3, Limits

(* A header within the stream, its declared length and what is parsed.     *)
LEMMA ParsedTyped ==
    ASSUME BufferState
    PROVE  LET h == Received(headerEnd)
           IN  /\ DeclaredLength(h) \in Nat
               /\ ParseContentLength(h) \in Nat
               /\ DeclaredLength(h) < SizeModulus => ParseContentLength(h) = DeclaredLength(h)
<1>1. Received(headerEnd) \in Seq(STRING)
  BY StreamTyped, Prefix DEF Received
<1>2. DeclaredLength(Received(headerEnd)) \in Nat
  BY <1>1, DeclaredIsNat
<1> QED BY <1>2, Limits, Remainder DEF ParseContentLength

LEMMA BufferInit == Init => BufferState
<1> SUFFICES ASSUME Init PROVE BufferState
  OBVIOUS
<1>1. input \in Inputs /\ Len(input.bytes) \in Nat
  BY HttpAssumption DEF Init
<1> QED BY <1>1, Limits DEF Init, BufferState

(* Every step keeps the counters within the buffer.                        *)
LEMMA BufferStep == BufferState /\ [Next]_vars => BufferState'
<1> SUFFICES ASSUME BufferState, [Next]_vars PROVE BufferState'
  OBVIOUS
<1>1. CASE HeaderTooLarge
  BY <1>1 DEF BufferState, HeaderTooLarge
<1>2. ASSUME NEW n \in 1 .. MaxChunk, RecvHeader(n) PROVE BufferState'
  <2>1. /\ pc = "header" /\ input' = input /\ contentLength' = contentLength
        /\ n \in Nat /\ n <= Len(input.bytes) - total
        /\ total' = total + n
        /\ headerEnd' = FindHeaderEnd(SubSeq(input.bytes, 1, total'))
        /\ pc' \in {"header", "parse"}
    BY <1>2, StreamTyped DEF RecvHeader, Received
  <2>2. n <= Capacity - total - 1
    <3>1. n <= Min({MaxChunk, Capacity - total - 1})
      BY <1>2 DEF RecvHeader, HeaderChunk
    <3>2. MaxChunk \in Int /\ Capacity - total - 1 \in Int
      BY Limits, StreamTyped
    <3> DEFINE room == Capacity - total - 1
    <3> HIDE DEF room
    <3>3. Min({MaxChunk, room}) <= room /\ Min({MaxChunk, room}) \in Int
      BY <3>2, MinOfTwo DEF room
    <3>4. n <= room
      BY <2>1, <3>1, <3>2, <3>3 DEF room
    <3> QED BY <3>4 DEF room
  <2>3. total' \in 0 .. Len(input.bytes) /\ total' + 1 <= Capacity
    BY <2>1, <2>2, StreamTyped, Limits
  <2>4. headerEnd' \in 0 .. total'
    BY <2>1, <2>3, StreamTyped, HeaderEndFound
  <2>5. total' < Capacity
    BY <2>1, <2>2, StreamTyped, Limits
  <2> QED BY <2>1, <2>3, <2>4, <2>5 DEF BufferState
<1>3. ASSUME NEW n \in 1 .. MaxChunk, RecvBody(n) PROVE BufferState'
  <2>1. /\ pc = "body" /\ UNCHANGED <<input, headerEnd, contentLength>>
        /\ n \in Nat /\ n <= Len(input.bytes) - total
        /\ total' = total + n
        /\ pc' = IF total' > Capacity THEN "undefined" ELSE "body"
    BY <1>3, StreamTyped DEF RecvBody
  <2>2. n <= headerEnd + contentLength - total
    <3>1. n <= Min({MaxChunk, headerEnd + contentLength - total})
      BY <1>3 DEF RecvBody
    <3>2. MaxChunk \in Int /\ headerEnd + contentLength - total \in Int
      BY Limits, StreamTyped
    <3> DEFINE room == headerEnd + contentLength - total
    <3> HIDE DEF room
    <3>3. Min({MaxChunk, room}) <= room /\ Min({MaxChunk, room}) \in Int
      BY <3>2, MinOfTwo DEF room
    <3>4. n <= room
      BY <2>1, <3>1, <3>2, <3>3 DEF room
    <3> QED BY <3>4 DEF room
  <2>3. total' \in 0 .. Len(input.bytes) /\ total' <= headerEnd + contentLength
        /\ headerEnd \in 0 .. total'
    BY <2>1, <2>2, StreamTyped
  <2> QED BY <2>1, <2>3 DEF BufferState
<1>4. CASE ParseHeader
  <2>1. /\ pc = "parse" /\ UNCHANGED <<input, total, headerEnd>>
        /\ \/ pc' = "body" /\ contentLength' = ParseContentLength(Received(headerEnd))
                            /\ contentLength' <= MaxBody
           \/ pc' = "refused" /\ contentLength' = contentLength
    BY <1>4 DEF ParseHeader, Acceptable
  <2>2. contentLength' \in 0 .. MaxBody
    BY <2>1, ParsedTyped, StreamTyped, Limits
  <2>3. total < Capacity
    BY <2>1, Limits, StreamTyped DEF BufferState
  <2> QED BY <2>1, <2>2, <2>3 DEF BufferState
<1>5. CASE RecvEnds
  BY <1>5 DEF BufferState, RecvEnds
<1>6. CASE ReadAborted
  BY <1>6 DEF BufferState, ReadAborted
<1>7. CASE Finish
  BY <1>7 DEF BufferState, Finish
<1>8. CASE Rest
  BY <1>8 DEF BufferState, Rest, vars
<1>9. CASE UNCHANGED vars
  BY <1>9 DEF BufferState, vars
<1> QED BY <1>1, <1>2, <1>3, <1>4, <1>5, <1>6, <1>7, <1>8, <1>9 DEF Next

-----------------------------------------------------------------------------
(* What is read                                                            *)

(* What the whole stream says changes with the stream only.                *)
LEMMA StreamKept ==
    ASSUME input' = input
    PROVE  /\ Regular' = Regular /\ WholeEnd' = WholeEnd /\ WholeRequest' = WholeRequest
           /\ \A n : Received(n)' = Received(n)
BY DEF Regular, WholeEnd, WholeRequest, Received

(* The request line of a regular stream is complete once its header is.    *)
LEMMA LineIsRead ==
    ASSUME BufferState, Regular, headerEnd \in HeaderEnds(input.bytes)
    PROVE  RequestLineRead(Received(total)) /\ RequestLineRead(input.bytes)
<1> DEFINE b == input.bytes
           m == LineEnd(b, 1) - 1
<1>1. b \in Seq(STRING) /\ Len(b) \in Nat /\ total \in 0 .. Len(b) /\ headerEnd <= total
      /\ headerEnd \in Nat
  BY StreamTyped
<1>2. m \in 0 .. Len(b) /\ LineEnd(b, 1) <= headerEnd
  BY <1>1, FirstLineInHeader
<1>3. Cardinality(Words(SubSeq(b, 1, m))) >= 2
  BY DEF Regular, Received
<1> HIDE DEF b
<1>4. m \in 0 .. total
  <2>1. LineEnd(b, 1) \in Nat
    BY <1>1, FirstLineInHeader
  <2> QED BY <1>1, <1>2, <2>1
<1> HIDE DEF m
<1>5. Cardinality(Words(SubSeq(b, 1, total))) >= 2
  BY <1>1, <1>3, <1>4, WordsGrow
<1>6. Cardinality(Words(SubSeq(b, 1, Len(b)))) >= 2
  BY <1>1, <1>2, <1>3, WordsGrow
<1>7. SubSeq(b, 1, Len(b)) = b
  BY <1>1, SubSeqFull
<1> QED BY <1>5, <1>6, <1>7 DEF RequestLineRead, Received, b

(* No end of a header within the first n bytes: the whole stream has none  *)
(* either, or a later one.                                                 *)
LEMMA NoEndYet ==
    ASSUME BufferState, \A i \in HeaderEnds(input.bytes) : i > total
    PROVE  WholeEnd = 0 \/ (WholeEnd \in HeaderEnds(input.bytes) /\ WholeEnd > total)
<1> DEFINE E == HeaderEnds(input.bytes)
<1>1. E \in SUBSET Nat
  BY StreamTyped, EndsTyped DEF HeaderEnds
<1>2. WholeEnd = First(E, 0)
  BY DEF WholeEnd, HeaderEnds
<1> HIDE DEF E
<1>3. E = {} => WholeEnd = 0
  BY <1>1, <1>2, FirstIsLeast
<1>4. E # {} => WholeEnd \in E
  BY <1>1, <1>2, FirstIsLeast
<1> QED BY <1>3, <1>4 DEF E

LEMMA ReadInit == Init => ReadSoFar
<1> SUFFICES ASSUME Init PROVE ReadSoFar
  OBVIOUS
<1>1. BufferState /\ pc = "header" /\ headerEnd = 0 /\ total = 0
  BY BufferInit DEF Init
<1>2. HeaderEnds(input.bytes) \subseteq 2 .. Len(input.bytes) /\ Len(input.bytes) \in Nat
  BY <1>1, StreamTyped, EndsTyped DEF HeaderEnds
<1>3. \A i \in HeaderEnds(input.bytes) : i > total
  BY <1>1, <1>2
<1> QED BY <1>1, <1>3 DEF ReadSoFar

(* Every step keeps what was decided true of the whole stream.             *)
LEMMA ReadStep == ReadInv /\ BufferState' /\ [Next]_vars => ReadSoFar'
<1> SUFFICES ASSUME BufferState, ReadSoFar, BufferState', [Next]_vars PROVE ReadSoFar'
  BY DEF ReadInv
<1> DEFINE Same == UNCHANGED <<input, total, headerEnd, contentLength>>
<1>1. ASSUME input' = input
      PROVE  /\ Regular' = Regular /\ WholeEnd' = WholeEnd /\ WholeRequest' = WholeRequest
             /\ HeaderEnds(input.bytes)' = HeaderEnds(input.bytes)
    BY <1>1, StreamKept
<1>2. ASSUME Same
      PROVE  Received(headerEnd)' = Received(headerEnd)
  BY <1>2 DEF Received
<1>3. CASE HeaderTooLarge
  <2>1. /\ pc = "header" /\ pc' = "refused" /\ Same /\ sql' = sql
        /\ total + 1 >= Capacity \/ total >= HeaderLimit + MaxBody
    BY <1>3 DEF HeaderTooLarge
  <2>2. ~WholeRequest
    <3>1. WholeEnd = 0 \/ (WholeEnd \in HeaderEnds(input.bytes) /\ WholeEnd > total)
      BY <2>1, NoEndYet DEF ReadSoFar
    <3>2. HeaderEnds(input.bytes) \subseteq Nat
      BY StreamTyped, EndsTyped DEF HeaderEnds
    <3>3. WholeEnd \notin 1 .. Capacity - 1
      BY <2>1, <3>1, <3>2, Limits, StreamTyped
    <3> QED BY <3>3 DEF WholeRequest
  <2> QED BY <1>1, <2>1, <2>2 DEF ReadSoFar
<1>4. ASSUME NEW n \in 1 .. MaxChunk, RecvHeader(n) PROVE ReadSoFar'
  <2> DEFINE b == input.bytes
  <2>1. /\ input' = input
        /\ headerEnd' = FindHeaderEnd(SubSeq(b, 1, total'))
        /\ pc' = IF headerEnd' = 0 THEN "header" ELSE "parse"
    BY <1>4 DEF RecvHeader, Received
  <2>2. b \in Seq(STRING) /\ total' \in 0 .. Len(b)
    BY <2>1, StreamTyped DEF BufferState
  <2>3. /\ headerEnd' = 0 => \A i \in HeaderEnds(b) : i > total'
        /\ headerEnd' # 0 => headerEnd' \in HeaderEnds(b)
    BY <2>1, <2>2, HeaderEndFound
  <2>4. Regular /\ headerEnd' # 0 => headerEnd' = WholeEnd
    <3>1. SUFFICES ASSUME Regular, headerEnd' # 0 PROVE headerEnd' = WholeEnd
      OBVIOUS
    <3>2. LfEnds(b) # {} /\ CrlfEnds(b) # {} => Min(CrlfEnds(b)) < Min(LfEnds(b))
      BY <3>1 DEF Regular
    <3>3. FindHeaderEnd(SubSeq(b, 1, total')) = First(CrlfEnds(b) \cup LfEnds(b), 0)
      BY <2>1, <2>2, <3>1, <3>2, HeaderEndStable
    <3> QED BY <2>1, <3>3 DEF WholeEnd
  <2> HIDE DEF b
  <2> QED BY <1>1, <2>1, <2>3, <2>4 DEF ReadSoFar, b
<1>5. ASSUME NEW n \in 1 .. MaxChunk, RecvBody(n) PROVE ReadSoFar'
  <2>1. /\ pc = "body" /\ pc' \in {"body", "undefined"}
        /\ UNCHANGED <<input, headerEnd, contentLength, sql>>
    BY <1>5 DEF RecvBody
  <2>2. Received(headerEnd)' = Received(headerEnd)
    BY <2>1 DEF Received
  <2> QED BY <1>1, <2>1, <2>2 DEF ReadSoFar
<1>6. CASE ParseHeader
  <2> DEFINE h == Received(headerEnd)
  <2>1. pc = "parse" /\ UNCHANGED <<input, total, headerEnd, sql>>
    BY <1>6 DEF ParseHeader
  <2>2. headerEnd \in HeaderEnds(input.bytes)
    BY <2>1 DEF ReadSoFar
  <2>3. CASE RequestLineRead(Received(total)) /\ Acceptable(h)
    <3>1. pc' = "body" /\ contentLength' = ParseContentLength(h) /\ LengthValid(h)
      BY <1>6, <2>3 DEF ParseHeader, Acceptable
    <3>2. Received(headerEnd)' = h
      BY <2>1 DEF Received
    <3> QED BY <1>1, <2>1, <2>2, <3>1, <3>2 DEF ReadSoFar
  <2>4. CASE ~(RequestLineRead(Received(total)) /\ Acceptable(h))
    <3>1. pc' = "refused"
      BY <1>6, <2>4 DEF ParseHeader
    <3>2. ASSUME Regular PROVE ~WholeRequest
      <4>1. headerEnd # 0
        BY <2>2, StreamTyped, EndsTyped DEF HeaderEnds
      <4>2. headerEnd = WholeEnd
        BY <3>2, <4>1 DEF ReadSoFar
      <4>3. ~(LengthValid(h) /\ ParseContentLength(h) <= MaxBody)
        BY <2>2, <2>4, <3>2, LineIsRead DEF Acceptable
      <4>4. ParseContentLength(h) = DeclaredLength(h)
        BY <3>2, <4>2, ParsedTyped DEF Regular
      <4> QED BY <4>2, <4>3, <4>4 DEF WholeRequest
    <3> QED BY <1>1, <2>1, <3>1, <3>2 DEF ReadSoFar
  <2> QED BY <2>3, <2>4
<1>7. CASE RecvEnds
  <2>1. /\ Same /\ sql' = sql /\ pc' = "refused"
        /\ total = Len(input.bytes)
        /\ pc = "header" \/ (pc = "body" /\ total < headerEnd + contentLength)
    BY <1>7 DEF RecvEnds
  <2>2. ASSUME Regular PROVE ~WholeRequest
    <3>1. CASE pc = "header"
      <4>1. WholeEnd = 0 \/ (WholeEnd \in HeaderEnds(input.bytes) /\ WholeEnd > total)
        BY <3>1, NoEndYet DEF ReadSoFar
      <4>2. HeaderEnds(input.bytes) \subseteq 2 .. Len(input.bytes)
        BY StreamTyped, EndsTyped DEF HeaderEnds
      <4>3. WholeEnd = 0
        BY <2>1, <4>1, <4>2, StreamTyped
      <4> QED BY <4>3, Limits DEF WholeRequest
    <3>2. CASE pc = "body" /\ total < headerEnd + contentLength
      <4>1. headerEnd \in HeaderEnds(input.bytes)
            /\ contentLength = ParseContentLength(Received(headerEnd))
        BY <3>2 DEF ReadSoFar
      <4>2. headerEnd = WholeEnd
        BY <2>2, <4>1, StreamTyped, EndsTyped DEF ReadSoFar, HeaderEnds
      <4>3. contentLength = DeclaredLength(Received(WholeEnd))
        BY <2>2, <4>1, <4>2, ParsedTyped DEF Regular
      <4>4. ~(WholeEnd + DeclaredLength(Received(WholeEnd)) <= Len(input.bytes))
        BY <2>1, <3>2, <4>2, <4>3, StreamTyped
      <4> QED BY <4>4 DEF WholeRequest
    <3> QED BY <2>1, <3>1, <3>2
  <2> QED BY <1>1, <2>1, <2>2 DEF ReadSoFar
<1>8. CASE ReadAborted
  <2>1. Same /\ sql' = sql /\ pc' = "aborted"
    BY <1>8 DEF ReadAborted
  <2> QED BY <1>1, <2>1 DEF ReadSoFar
<1>9. CASE Finish
  <2>1. /\ Same /\ pc = "body" /\ pc' = "done"
        /\ total >= headerEnd + contentLength
        /\ sql' = ExtractSqlText(SubSeq(input.bytes, headerEnd + 1, headerEnd + contentLength))
    BY <1>9 DEF Finish
  <2> QED BY <1>1, <1>2, <2>1 DEF ReadSoFar
<1>10. CASE Rest \/ UNCHANGED vars
  <2>1. Same /\ pc' = pc /\ sql' = sql
    BY <1>10 DEF Rest, vars
  <2> QED BY <1>1, <1>2, <2>1 DEF ReadSoFar
<1> QED BY <1>3, <1>4, <1>5, <1>6, <1>7, <1>8, <1>9, <1>10 DEF Next

-----------------------------------------------------------------------------
(* The theorems                                                            *)

(* The invariant of read_http_request.                                     *)
THEOREM ReadInvariance == Spec => []ReadInv
<1>1. Init => ReadInv
  BY BufferInit, ReadInit DEF ReadInv
<1>2. ReadInv /\ [Next]_vars => ReadInv'
  BY BufferStep, ReadStep DEF ReadInv
<1> QED BY <1>1, <1>2, PTL DEF Spec

(* handle_query leaves the request as it was read: an exchange reads its   *)
(* request as read_http_request does.                                      *)
THEOREM ExchangeReads == ExchangeSpec => Spec
<1>1. ExchangeInit => Init
  BY DEF ExchangeInit
<1>2. [ExchangeNext]_exchangeVars => [Next]_vars
  <2> SUFFICES ASSUME [ExchangeNext]_exchangeVars PROVE [Next]_vars
    OBVIOUS
  <2>1. CASE Next
    BY <2>1
  <2>2. CASE MissingSql
    BY <2>2 DEF MissingSql
  <2>3. ASSUME NEW t \in Tables, SelectAnswered(t) PROVE UNCHANGED vars
    BY <2>3 DEF SelectAnswered
  <2>4. CASE InsertAnswered
    BY <2>4 DEF InsertAnswered
  <2>5. ASSUME NEW m \in Errors, QueryFails(m) PROVE UNCHANGED vars
    BY <2>5 DEF QueryFails
  <2>6. CASE FormatFails
    BY <2>6 DEF FormatFails
  <2>7. CASE UNCHANGED exchangeVars
    BY <2>7 DEF exchangeVars, vars
  <2> QED BY <2>1, <2>2, <2>3, <2>4, <2>5, <2>6, <2>7 DEF ExchangeNext
<1> QED BY <1>1, <1>2, PTL DEF Spec, ExchangeSpec

(* No byte is written behind the buffer while the header is within its     *)
(* limit, for every stream, cut, limit and body.                           *)
THEOREM BufferIsHeld == ExchangeSpec => []BufferHolds
<1>1. ReadInv => BufferHolds
  <2> SUFFICES ASSUME BufferState PROVE BufferHolds
    BY DEF ReadInv
  <2>1. pc \in {"header", "parse"} => total + 1 <= Capacity
    BY DEF BufferState
  <2>2. ASSUME headerEnd <= HeaderLimit PROVE total <= Capacity /\ pc # "undefined"
    <3>1. total < Capacity \/ total <= headerEnd + contentLength
      BY DEF BufferState
    <3>2. total <= Capacity
      BY <2>2, <3>1, StreamTyped, Limits
    <3>3. ~(total > Capacity)
      BY <3>2, StreamTyped, Limits
    <3> QED BY <3>2, <3>3 DEF BufferState
  <2> QED BY <2>1, <2>2 DEF BufferHolds
<1> QED BY <1>1, ReadInvariance, ExchangeReads, PTL

(* A regular stream means the same however recv cuts it: the request is    *)
(* read exactly when the stream holds one, with that header and that body. *)
THEOREM CutsDoNotMatter == ExchangeSpec => []ChunkingIrrelevant
<1>1. ReadInv => ChunkingIrrelevant
  <2> SUFFICES ASSUME BufferState, ReadSoFar, Regular
               PROVE  /\ pc = "done" => /\ WholeRequest
                                        /\ headerEnd = WholeEnd
                                        /\ contentLength = DeclaredLength(Received(WholeEnd))
                                        /\ sql = ExtractSqlText(SubSeq(input.bytes, WholeEnd + 1,
                                                                       WholeEnd + contentLength))
                      /\ pc = "refused" => ~WholeRequest
    BY DEF ReadInv, ChunkingIrrelevant
  <2>1. pc = "refused" => ~WholeRequest
    BY DEF ReadSoFar
  <2>2. SUFFICES ASSUME pc = "done"
                 PROVE  /\ WholeRequest
                        /\ headerEnd = WholeEnd
                        /\ contentLength = DeclaredLength(Received(WholeEnd))
                        /\ sql = ExtractSqlText(SubSeq(input.bytes, WholeEnd + 1,
                                                       WholeEnd + contentLength))
    BY <2>1
  <2>3. /\ headerEnd \in HeaderEnds(input.bytes)
        /\ LengthValid(Received(headerEnd))
        /\ contentLength = ParseContentLength(Received(headerEnd))
        /\ total >= headerEnd + contentLength
        /\ sql = ExtractSqlText(SubSeq(input.bytes, headerEnd + 1, headerEnd + contentLength))
    BY <2>2 DEF ReadSoFar
  <2>4. headerEnd \in Nat \ {0}
    BY <2>3, StreamTyped, EndsTyped DEF HeaderEnds
  <2>5. headerEnd = WholeEnd
    BY <2>4 DEF ReadSoFar
  <2>6. contentLength = DeclaredLength(Received(WholeEnd))
    BY <2>3, <2>5, ParsedTyped DEF Regular
  <2>7. RequestLineRead(input.bytes)
    BY <2>3, LineIsRead
  <2>8. WholeEnd \in 1 .. Capacity - 1
    <3>1. headerEnd <= HeaderLimit
      BY <2>5 DEF Regular
    <3> QED BY <2>4, <2>5, <3>1, Limits
  <2>9. /\ DeclaredLength(Received(WholeEnd)) <= MaxBody
        /\ WholeEnd + DeclaredLength(Received(WholeEnd)) <= Len(input.bytes)
    BY <2>3, <2>5, <2>6, StreamTyped
  <2>10. WholeRequest
    BY <2>3, <2>5, <2>7, <2>8, <2>9 DEF WholeRequest
  <2> QED BY <2>3, <2>5, <2>6, <2>10
<1> QED BY <1>1, ReadInvariance, ExchangeReads, PTL

-----------------------------------------------------------------------------
(* A JSON string is read back                                              *)

(* All characters.  The provers do not know that a literal is a STRING.    *)
Signs == STRING \cup {NoText, Comma, "SP", "x"} \cup Escapes \cup Control

LEMMA OneSign ==
    ASSUME NEW S, NEW c \in S
    PROVE  <<c>> \in Seq(S) /\ Len(<<c>>) = 1 /\ <<c>>[1] = c
OBVIOUS

LEMMA TwoSigns ==
    ASSUME NEW S, NEW c \in S, NEW d \in S
    PROVE  <<c, d>> \in Seq(S) /\ Len(<<c, d>>) = 2 /\ <<c, d>>[1] = c /\ <<c, d>>[2] = d
OBVIOUS

LEMMA MeaningIs ==
    /\ \A d : Meaning(d) \in Signs
    /\ Meaning(Quote) = Quote /\ Meaning(Backslash) = Backslash
    /\ Meaning("n") = "LF" /\ Meaning("r") = "CR" /\ Meaning("t") = "TAB" /\ Meaning("u0001") = "CTL"
<1>1. Meaning(Quote) = Quote
  BY DEF Meaning, Quote, Backslash
<1>2. Meaning(Backslash) = Backslash
  BY DEF Meaning, Quote, Backslash
<1>3. Meaning("n") = "LF"
  BY DEF Meaning, Quote, Backslash
<1>4. Meaning("r") = "CR"
  BY DEF Meaning, Quote, Backslash
<1>5. Meaning("t") = "TAB"
  BY DEF Meaning, Quote, Backslash
<1>6. Meaning("u0001") = "CTL"
  BY DEF Meaning, Quote, Backslash
<1>7. {Quote, Backslash, "/", "LF", "CR", "TAB", "CTL", NoText} \subseteq Signs
  BY DEF Signs, Control, Eol, Escapes
<1>8. \A d : Meaning(d) \in {Quote, Backslash, "/", "LF", "CR", "TAB", "CTL", NoText}
  BY DEF Meaning
<1> QED BY <1>1, <1>2, <1>3, <1>4, <1>5, <1>6, <1>7, <1>8

(* What an escape stands for to a reader that knows these.                 *)
Named(c, escapes) == IF c \in escapes THEN Meaning(c) ELSE NoText

LEMMA NamedIs ==
    /\ \A c, escapes : Named(c, escapes) \in Signs
    /\ \A c \in Escapes : Named(c, Escapes) = Meaning(c)
<1>1. NoText \in Signs
  BY DEF Signs
<1> QED BY <1>1, MeaningIs DEF Named

(* What stands for a character between the quotes.                         *)
StandsFor(e, c) ==
    \/ e = <<c>> /\ c \notin {Quote, Backslash} \cup Control
    \/ \E d \in Escapes : e = <<Backslash, d>> /\ Meaning(d) = c

LEMMA EscapedIs == ASSUME NEW c \in Signs PROVE StandsFor(Escaped(c), c)
<1>1. {Quote, Backslash, "n", "r", "t", "u0001"} \subseteq Escapes
  BY DEF Escapes
<1>2. CASE c \in {Quote, Backslash}
  <2>1. Escaped(c) = <<Backslash, c>>
    BY <1>2 DEF Escaped, Quote, Backslash
  <2> QED BY <1>1, <1>2, <2>1, MeaningIs DEF StandsFor
<1>3. CASE c = "LF"
  <2>1. Escaped(c) = <<Backslash, "n">>
    BY <1>3 DEF Escaped, Quote, Backslash
  <2> QED BY <1>1, <1>3, <2>1, MeaningIs DEF StandsFor
<1>4. CASE c = "CR"
  <2>1. Escaped(c) = <<Backslash, "r">>
    BY <1>4 DEF Escaped, Quote, Backslash
  <2> QED BY <1>1, <1>4, <2>1, MeaningIs DEF StandsFor
<1>5. CASE c = "TAB"
  <2>1. Escaped(c) = <<Backslash, "t">>
    BY <1>5 DEF Escaped, Quote, Backslash
  <2> QED BY <1>1, <1>5, <2>1, MeaningIs DEF StandsFor
<1>6. CASE c = "CTL"
  <2>1. Escaped(c) = <<Backslash, "u0001">>
    BY <1>6 DEF Escaped, Quote, Backslash
  <2> QED BY <1>1, <1>6, <2>1, MeaningIs DEF StandsFor
<1>7. CASE c \notin {Quote, Backslash, "LF", "CR", "TAB", "CTL"}
  <2>1. Escaped(c) = <<c>>
    BY <1>7 DEF Escaped
  <2> QED BY <1>7, <2>1 DEF Control, Eol, StandsFor
<1> QED BY <1>2, <1>3, <1>4, <1>5, <1>6, <1>7

LEMMA StandsForTyped ==
    ASSUME NEW c \in Signs, NEW e, StandsFor(e, c)
    PROVE  e \in Seq(Signs) /\ Len(e) \in {1, 2}
<1>1. Backslash \in Signs /\ Escapes \subseteq Signs
  BY DEF Signs, Escapes
<1>2. CASE e = <<c>>
  BY <1>2, OneSign
<1>3. ASSUME NEW d \in Escapes, e = <<Backslash, d>> PROVE e \in Seq(Signs) /\ Len(e) \in {1, 2}
  BY <1>1, <1>3, TwoSigns
<1> QED BY <1>2, <1>3 DEF StandsFor

ReadRule(raw, escapes, i, g) ==
    IF i > Len(raw) THEN <<>>
    ELSE IF raw[i] \in {Quote} \cup Control \/ (i = Len(raw) /\ raw[i] = Backslash)
         THEN <<NoText>>
    ELSE IF raw[i] = Backslash THEN <<Named(raw[i + 1], escapes)>> \o g[i + 2]
    ELSE <<raw[i]>> \o g[i + 1]

LEMMA ReadExists ==
    ASSUME NEW raw \in Seq(Signs), NEW escapes
    PROVE  \E g : g = [i \in 1 .. Len(raw) + 1 |-> ReadRule(raw, escapes, i, g)]
<1> DEFINE m == Len(raw) + 1
           C == Signs
           S == Seq(C)
           F == [1 .. m -> S]
           step == [i \in 1 .. m |-> [g \in F |-> ReadRule(raw, escapes, i, g)]]
<1>1. m \in Nat /\ Len(raw) \in Nat /\ m = Len(raw) + 1
  OBVIOUS
<1>2. \A i \in 1 .. Len(raw) : raw[i] \in C /\ Named(raw[i], escapes) \in C
  <2>1. \A i \in 1 .. Len(raw) : raw[i] \in Signs
    BY ElementOfSeq
  <2> QED BY <2>1, NamedIs
<1>3. \A x \in C : <<x>> \in S
  <2> HIDE DEF C
  <2> QED OBVIOUS
<1>4. <<>> \in S /\ \A x, y \in S : x \o y \in S
  <2> HIDE DEF C
  <2> QED OBVIOUS
<1>5. NoText \in C
  BY DEF Signs
<1> HIDE DEF C, S
<1>6. ASSUME NEW i \in 1 .. m, NEW g \in F PROVE ReadRule(raw, escapes, i, g) \in S
  <2>1. CASE i > Len(raw)
    BY <1>4, <2>1 DEF ReadRule
  <2>2. CASE i <= Len(raw)
    <3>1. i \in 1 .. Len(raw) /\ ~(i > Len(raw)) /\ i + 1 \in 1 .. m
      BY <1>1, <2>2
    <3>2. CASE raw[i] \in {Quote} \cup Control \/ (i = Len(raw) /\ raw[i] = Backslash)
      <4>1. ReadRule(raw, escapes, i, g) = <<NoText>>
        BY <3>1, <3>2 DEF ReadRule
      <4> QED BY <1>3, <1>5, <4>1
    <3>3. CASE /\ ~(raw[i] \in {Quote} \cup Control \/ (i = Len(raw) /\ raw[i] = Backslash))
               /\ raw[i] = Backslash
      <4>1. ReadRule(raw, escapes, i, g) = <<Named(raw[i + 1], escapes)>> \o g[i + 2]
        BY <3>1, <3>3 DEF ReadRule
      <4>2. i + 1 \in 1 .. Len(raw) /\ i + 2 \in 1 .. m
        BY <1>1, <3>1, <3>3
      <4>3. g[i + 2] \in S /\ <<Named(raw[i + 1], escapes)>> \in S
        BY <1>2, <1>3, <4>2
      <4> QED BY <1>4, <4>1, <4>3
    <3>4. CASE /\ ~(raw[i] \in {Quote} \cup Control \/ (i = Len(raw) /\ raw[i] = Backslash))
               /\ raw[i] # Backslash
      <4>1. ReadRule(raw, escapes, i, g) = <<raw[i]>> \o g[i + 1]
        BY <3>1, <3>4 DEF ReadRule
      <4>2. g[i + 1] \in S /\ <<raw[i]>> \in S
        BY <1>2, <1>3, <3>1
      <4> QED BY <1>4, <4>1, <4>2
    <3> QED BY <3>2, <3>3, <3>4
  <2>3. i > Len(raw) \/ i <= Len(raw)
    BY <1>1
  <2> QED BY <2>1, <2>2, <2>3
<1>7. ASSUME NEW i \in 1 .. m, NEW g \in F, NEW h \in F, \A j \in i + 1 .. m : g[j] = h[j]
      PROVE  ReadRule(raw, escapes, i, g) = ReadRule(raw, escapes, i, h)
  <2>1. i <= Len(raw) => i + 1 \in i + 1 .. m
    BY <1>1
  <2>2. i < Len(raw) => i + 2 \in i + 1 .. m
    BY <1>1
  <2>3. i > Len(raw) \/ i = Len(raw) \/ i < Len(raw)
    BY <1>1
  <2>4. CASE i > Len(raw)
    BY <2>4 DEF ReadRule
  <2>5. CASE i = Len(raw)
    <3>1. g[i + 1] = h[i + 1]
      BY <1>1, <1>7, <2>1, <2>5
    <3> QED BY <2>5, <3>1 DEF ReadRule
  <2>6. CASE i < Len(raw)
    <3>1. g[i + 1] = h[i + 1] /\ g[i + 2] = h[i + 2]
      BY <1>1, <1>7, <2>1, <2>2, <2>6
    <3> QED BY <2>6, <3>1 DEF ReadRule
  <2> QED BY <2>3, <2>4, <2>5, <2>6
<1> HIDE DEF F, m
<1>8. step \in [1 .. m -> [F -> S]] /\ \A i \in 1 .. m : \A g \in F : step[i][g] = ReadRule(raw, escapes, i, g)
  BY <1>6
<1> HIDE DEF step
<1>9. \A i \in 1 .. m : \A g, h \in F :
         (\A j \in i + 1 .. m : g[j] = h[j]) => step[i][g] = step[i][h]
  BY <1>7, <1>8
<1>10. IsBackward(step, S, m)
  BY <1>8, <1>9 DEF IsBackward, F
<1>11. PICK g : SolvesBackward(g, step, S, m)
  BY ONLY <1>1, <1>4, <1>10, BackwardRecursion
<1>12. g \in F /\ \A i \in 1 .. m : g[i] = ReadRule(raw, escapes, i, g)
  BY <1>8, <1>11 DEF SolvesBackward, F
<1>13. g = [i \in 1 .. m |-> ReadRule(raw, escapes, i, g)]
  BY <1>12 DEF F
<1> QED BY <1>13 DEF m

(* A character in front of a text.                                         *)
LEMMA Behind ==
    ASSUME NEW S, NEW x \in S, NEW s \in Seq(S)
    PROVE  <<x>> \o s \in Seq(S)
OBVIOUS

(* At the place where a character was written the reader takes it and goes *)
(* on behind it.                                                           *)
StandsBehind(e, p, raw) ==
    p + Len(e) <= Len(raw) /\ \A j \in 1 .. Len(e) : raw[p + j] = e[j]

LEMMA ReadsOne ==
    ASSUME NEW raw \in Seq(Signs), NEW c \in Signs, NEW e, StandsFor(e, c), NEW g, NEW p \in Nat,
           StandsBehind(e, p, raw)
    PROVE  ReadRule(raw, Escapes, p + 1, g) = <<c>> \o g[p + Len(e) + 1]
<1>1. p + Len(e) <= Len(raw) /\ \A j \in 1 .. Len(e) : raw[p + j] = e[j]
  BY DEF StandsBehind
<1>2. Len(raw) \in Nat /\ Backslash \in Signs /\ Backslash \notin {Quote} \cup Control
  <2>1. Backslash \in Signs
    BY DEF Signs, Escapes
  <2>2. Backslash \notin {Quote} \cup Control
    BY DEF Quote, Backslash, Control, Eol
  <2>3. Len(raw) \in Nat
    OBVIOUS
  <2> QED BY <2>1, <2>2, <2>3
<1>3. CASE e = <<c>> /\ c \notin {Quote, Backslash} \cup Control
  <2>1. Len(e) = 1 /\ e[1] = c
    BY <1>3, OneSign
  <2>2. raw[p + 1] = c /\ p + 1 <= Len(raw) /\ p + Len(e) + 1 = (p + 1) + 1
    BY <1>1, <2>1
  <2>3. ~(p + 1 > Len(raw))
    BY <1>2, <2>2
  <2> QED BY <1>3, <2>2, <2>3 DEF ReadRule
<1>4. ASSUME NEW d \in Escapes, e = <<Backslash, d>>, Meaning(d) = c
      PROVE  ReadRule(raw, Escapes, p + 1, g) = <<c>> \o g[p + Len(e) + 1]
  <2>1. d \in Signs
    BY <1>4 DEF Signs
  <2>2. Len(e) = 2 /\ e[1] = Backslash /\ e[2] = d
    BY <1>2, <1>4, <2>1, TwoSigns
  <2>3. /\ raw[p + 1] = Backslash /\ raw[p + 2] = d
        /\ p + Len(e) + 1 = (p + 1) + 2 /\ (p + 1) + 1 = p + 2
    BY <1>1, <2>2
  <2>4. ~(p + 1 > Len(raw)) /\ p + 1 # Len(raw)
    BY <1>1, <1>2, <2>2
  <2>5. ReadRule(raw, Escapes, p + 1, g) = <<Named(raw[(p + 1) + 1], Escapes)>> \o g[(p + 1) + 2]
    BY <1>2, <2>3, <2>4 DEF ReadRule
  <2> QED BY <1>4, <2>3, <2>5, NamedIs
<1> QED BY <1>3, <1>4 DEF StandsFor

(* What a JSON reader takes from an escaped text is the text.              *)
LEMMA ReadEscaped ==
    ASSUME NEW t \in Seq(Signs)
    PROVE  JsonEscape(t) \in Seq(Signs) /\ ReadBack(JsonEscape(t)) = t
<1> DEFINE n == Len(t)
           e == [i \in DOMAIN t |-> Escaped(t[i])]
           U == Seq(Signs)
<1>1. n \in Nat /\ DOMAIN t = 1 .. n /\ \A i \in 1 .. n : t[i] \in Signs
  BY LenProperties, ElementOfSeq
<1>2. \A i \in 1 .. n : /\ e[i] = Escaped(t[i]) /\ StandsFor(e[i], t[i])
                        /\ e[i] \in U /\ Len(e[i]) \in {1, 2}
  BY <1>1, EscapedIs, StandsForTyped
<1>3. e \in Seq(U) /\ Len(e) = n
  <2> HIDE DEF U
  <2> QED BY <1>1, <1>2
<1>4. JsonEscape(t) = FlattenSeq(e)
  BY DEF JsonEscape
<1> HIDE DEF e, n
<1>5. PICK f : FlattenTrace(f, e, Signs) /\ FlattenSeq(e) = f[Len(e)]
  BY <1>3, FlattenIsTraced
<1> DEFINE raw == f[n]
           m == Len(raw) + 1
           g == CHOOSE g : g = [i \in 1 .. Len(raw) + 1 |-> ReadRule(raw, Escapes, i, g)]
<1>6. raw \in Seq(Signs) /\ raw = JsonEscape(t) /\ f[0] = <<>>
  BY <1>1, <1>3, <1>4, <1>5 DEF FlattenTrace
<1>7. /\ \A k \in 1 .. n : /\ Len(f[k - 1]) \in Nat /\ Len(f[k]) = Len(f[k - 1]) + Len(e[k])
                           /\ Len(f[k]) <= Len(raw)
                           /\ \A j \in 1 .. Len(e[k]) : raw[Len(f[k - 1]) + j] = e[k][j]
  <2>1. \A k \in 1 .. n : PlacedAt(f, e, n, k)
    BY ONLY <1>3, <1>5, FlattenPlaces
  <2> QED BY <2>1 DEF PlacedAt, raw
<1>8. ReadBack(raw) = g[1]
  BY DEF ReadBack, Read, ReadRule, Named
<1>9. g = [i \in 1 .. Len(raw) + 1 |-> ReadRule(raw, Escapes, i, g)]
  BY <1>6, ReadExists
<1> HIDE DEF raw, g
<1>10. \A i \in 1 .. Len(raw) + 1 : g[i] = ReadRule(raw, Escapes, i, g)
  BY <1>9
<1> DEFINE T == {k \in 1 .. n + 1 : g[Len(f[k - 1]) + 1] = SubSeq(t, k, n)}
<1>11. Len(raw) \in Nat
  BY <1>6
<1>12. n + 1 \in T
  <2>1. g[Len(raw) + 1] = <<>>
    <3>1. Len(raw) + 1 \in 1 .. Len(raw) + 1 /\ Len(raw) + 1 > Len(raw)
      BY <1>11
    <3> QED BY <1>10, <3>1 DEF ReadRule
  <2>2. SubSeq(t, n + 1, n) = <<>>
    BY <1>1, SubSeqEmpty
  <2>3. (n + 1) - 1 = n /\ n + 1 \in 1 .. n + 1
    BY <1>1
  <2> QED BY <2>1, <2>2, <2>3 DEF raw
<1>13. ASSUME NEW k \in 1 .. n, k + 1 \in T PROVE k \in T
  <2> DEFINE p == Len(f[k - 1])
  <2>1. /\ p \in Nat /\ Len(f[k]) = p + Len(e[k]) /\ Len(f[k]) <= Len(raw)
        /\ \A j \in 1 .. Len(e[k]) : raw[p + j] = e[k][j]
    BY <1>7
  <2>2. g[Len(f[k]) + 1] = SubSeq(t, k + 1, n)
    <3>1. (k + 1) - 1 = k
      OBVIOUS
    <3> QED BY <1>13, <3>1
  <2>3. t[k] \in Signs /\ StandsFor(e[k], t[k]) /\ Len(e[k]) \in {1, 2}
    BY <1>1, <1>2
  <2> HIDE DEF p
  <2>4. ReadRule(raw, Escapes, p + 1, g) = <<t[k]>> \o g[p + Len(e[k]) + 1]
    <3> DEFINE c == t[k]
               x == e[k]
    <3>1. /\ raw \in Seq(Signs) /\ c \in Signs /\ StandsFor(x, c) /\ p \in Nat
          /\ StandsBehind(x, p, raw)
      BY <1>6, <2>1, <2>3 DEF StandsBehind
    <3> HIDE DEF c, x, raw, g
    <3>2. ReadRule(raw, Escapes, p + 1, g) = <<c>> \o g[p + Len(x) + 1]
      BY ONLY <3>1, ReadsOne
    <3> QED BY ONLY <3>2 DEF c, x
  <2>5. p + 1 \in 1 .. Len(raw) + 1 /\ p + Len(e[k]) + 1 = Len(f[k]) + 1
    BY <1>11, <2>1, <2>3
  <2>6. g[p + 1] = <<t[k]>> \o SubSeq(t, k + 1, n)
    BY <1>10, <2>2, <2>4, <2>5
  <2>7. SubSeq(t, k, n) = <<t[k]>> \o SubSeq(t, k + 1, n)
    <3>1. k \in 1 .. Len(t) /\ n \in k .. Len(t) /\ n = Len(t)
      BY <1>1 DEF n
    <3> QED BY <3>1, SubSeqRecursiveFirst
  <2>8. k \in 1 .. n + 1
    BY <1>1
  <2> QED BY <2>6, <2>7, <2>8 DEF p
<1> HIDE DEF T
<1>14. ASSUME NEW i \in 1 .. n + 1, \A j \in i + 1 .. n + 1 : j \in T PROVE i \in T
  <2>1. CASE i = n + 1
    BY <1>12, <2>1
  <2>2. CASE i # n + 1
    <3>1. i \in 1 .. n /\ i + 1 \in i + 1 .. n + 1
      BY <1>1, <2>2
    <3> QED BY <1>13, <1>14, <3>1
  <2> QED BY <2>1, <2>2
<1>15. n + 1 \in Nat /\ 1 \in 1 .. n + 1
  BY <1>1
<1>16. 1 \in T
  BY <1>14, <1>15, DownwardIn
<1>17. g[Len(f[0]) + 1] = SubSeq(t, 1, n)
  <2>1. 1 - 1 = 0
    OBVIOUS
  <2> QED BY <1>16, <2>1 DEF T
<1>18. SubSeq(t, 1, n) = t
  BY SubSeqFull DEF n
<1>19. Len(f[0]) + 1 = 1
  BY <1>6
<1> QED BY <1>6, <1>8, <1>17, <1>18, <1>19

-----------------------------------------------------------------------------
(* Cutting a text into pieces                                              *)

Pieces(C) == Seq(Seq(C)) \ { <<>> }

LEMMA PiecesTyped ==
    ASSUME NEW C, NEW x \in Pieces(C)
    PROVE  /\ x \in Seq(Seq(C)) /\ Len(x) \in Nat \ {0} /\ Len(x) \in 1 .. Len(x)
           /\ \A i \in 1 .. Len(x) : x[i] \in Seq(C)
<1>1. x \in Seq(Seq(C)) /\ x # <<>>
  BY DEF Pieces
<1> DEFINE T == Seq(C)
<1> HIDE DEF T
<1>2. x \in Seq(T)
  BY <1>1 DEF T
<1>3. Len(x) \in Nat \ {0} /\ \A i \in 1 .. Len(x) : x[i] \in T
  BY <1>1, <1>2, EmptySeq, ElementOfSeq
<1>4. Len(x) \in 1 .. Len(x)
  BY <1>3
<1> QED BY <1>1, <1>3, <1>4 DEF T

(* What one more character does.                                           *)
LEMMA CutIs ==
    ASSUME NEW C, NEW x \in Pieces(C), NEW ch \in C, NEW c
    PROVE  /\ Cut(x, ch, c) \in Pieces(C)
           /\ ch = c => Cut(x, ch, c) = Append(x, <<>>)
           /\ ch # c => /\ Len(Cut(x, ch, c)) = Len(x)
                        /\ \A i \in 1 .. Len(x) :
                              Cut(x, ch, c)[i] = IF i = Len(x) THEN Append(x[i], ch) ELSE x[i]
<1> DEFINE T == Seq(C)
           k == Len(x)
           y == Append(x[k], ch)
<1>1. x \in Seq(T) /\ k \in Nat \ {0} /\ k \in 1 .. k /\ x[k] \in T
  BY PiecesTyped
<1>2. y \in T /\ <<>> \in T
  <2> HIDE DEF k
  <2> QED BY <1>1
<1> HIDE DEF T, y
<1>3. /\ [x EXCEPT ![k] = y] \in Seq(T)
      /\ Len([x EXCEPT ![k] = y]) = Len(x)
      /\ \A j \in 1 .. Len(x) : [x EXCEPT ![k] = y][j] = IF j = k THEN y ELSE x[j]
  BY <1>1, <1>2, ExceptSeq
<1>4. Append(x, <<>>) \in Seq(T) /\ Append(x, <<>>) # <<>>
  BY <1>1, <1>2, AppendProperties
<1>5. CASE ch = c
  <2>1. Cut(x, ch, c) = Append(x, <<>>)
    BY <1>5 DEF Cut
  <2> QED BY <1>4, <1>5, <2>1 DEF Pieces, T
<1>6. CASE ch # c
  <2> DEFINE z == [x EXCEPT ![k] = y]
  <2>1. Cut(x, ch, c) = z
    BY <1>6 DEF Cut, y
  <2> HIDE DEF z
  <2>2. z \in Seq(T) /\ Len(z) = k /\ \A j \in 1 .. k : z[j] = IF j = k THEN y ELSE x[j]
    BY <1>3 DEF z
  <2>3. z # <<>>
    BY <1>1, <2>2, EmptySeq
  <2>4. z \in Pieces(C)
    BY <2>2, <2>3 DEF Pieces, T
  <2>5. \A j \in 1 .. k : z[j] = IF j = k THEN Append(x[j], ch) ELSE x[j]
    BY <2>2 DEF y
  <2> QED BY <1>6, <2>1, <2>2, <2>4, <2>5
<1> QED BY <1>5, <1>6

(* The values of Split's loop.                                             *)
SplitTrace(u, text, c, C) ==
    /\ u \in [0 .. Len(text) -> Pieces(C)]
    /\ u[0] = << <<>> >>
    /\ \A i \in 1 .. Len(text) : u[i] = Cut(u[i - 1], text[i], c)

LEMMA SplitIsTraced ==
    ASSUME NEW C, NEW text \in Seq(C), NEW c
    PROVE  \E u : SplitTrace(u, text, c, C) /\ Split(text, c) = u[Len(text)]
<1> DEFINE n == Len(text)
           P == Pieces(C)
           base == << <<>> >>
           step == [i \in 1 .. n |-> [x \in P |-> Cut(x, text[i], c)]]
           u == CHOOSE u : u = [i \in 0 .. n |-> IF i = 0 THEN base ELSE Cut(u[i - 1], text[i], c)]
<1>1. n \in Nat /\ \A i \in 1 .. n : text[i] \in C
  BY LenProperties, ElementOfSeq
<1>2. base \in P
  <2> DEFINE T == Seq(C)
             e == <<>>
  <2>1. e \in T
    OBVIOUS
  <2> HIDE DEF T, e
  <2>2. <<e>> \in Seq(T) /\ <<e>> # <<>>
    BY <2>1
  <2> QED BY <2>2 DEF Pieces, T, e
<1>3. step \in [1 .. n -> [P -> P]]
  <2>1. \A i \in 1 .. n : \A x \in P : Cut(x, text[i], c) \in P
    BY <1>1, CutIs
  <2> QED BY <2>1
<1>4. Split(text, c) = u[n]
  BY DEF Split
<1> HIDE DEF n, P, base
<1>5. PICK g : IsRecursion(g, P, base, step, n)
  <2> HIDE DEF step
  <2> QED BY ONLY <1>1, <1>2, <1>3, RecursionExists
<1>6. /\ g \in [0 .. n -> P] /\ g[0] = base
      /\ \A i \in 1 .. n : g[i] = step[i][g[i - 1]]
  BY <1>5 DEF IsRecursion
<1>7. \A i \in 1 .. n : g[i] = Cut(g[i - 1], text[i], c)
  <2> TAKE i \in 1 .. n
  <2>1. i - 1 \in 0 .. n
    BY <1>1
  <2> QED BY <1>6, <2>1
<1>8. g = [i \in 0 .. n |-> IF i = 0 THEN base ELSE Cut(g[i - 1], text[i], c)]
  <2>1. \A i \in 0 .. n : g[i] = IF i = 0 THEN base ELSE Cut(g[i - 1], text[i], c)
    <3> TAKE i \in 0 .. n
    <3>1. i = 0 \/ (i # 0 /\ i \in 1 .. n)
      BY <1>1
    <3> QED BY <1>6, <1>7, <3>1
  <2> QED BY <1>6, <2>1
<1>9. u = [i \in 0 .. n |-> IF i = 0 THEN base ELSE Cut(u[i - 1], text[i], c)]
  BY <1>8
<1> HIDE DEF u
<1>10. u[0] = base /\ \A i \in 1 .. n : u[i] = Cut(u[i - 1], text[i], c)
  <2>1. 0 \in 0 .. n /\ \A i \in 1 .. n : i \in 0 .. n /\ i # 0
    BY <1>1
  <2> QED BY <1>9, <2>1
<1>11. \A i \in 0 .. n : u[i] \in P
  <2>1. \A i \in 1 .. n : u[i - 1] \in P => u[i] \in P
    BY <1>1, <1>10, CutIs DEF P
  <2> QED BY <1>1, <1>2, <1>10, <2>1, StepwiseIn
<1>12. u \in [0 .. n -> P]
  BY <1>9, <1>11
<1>13. SplitTrace(u, text, c, C)
  BY <1>10, <1>12 DEF SplitTrace, n, P, base
<1> QED BY <1>4, <1>13 DEF n

LEMMA SplitTyped ==
    ASSUME NEW C, NEW text \in Seq(C), NEW c
    PROVE  Split(text, c) \in Pieces(C)
<1>1. PICK u : SplitTrace(u, text, c, C) /\ Split(text, c) = u[Len(text)]
  BY SplitIsTraced
<1>2. Len(text) \in 0 .. Len(text)
  BY LenProperties
<1> QED BY <1>1, <1>2 DEF SplitTrace

LEMMA SplitNone == ASSUME NEW c PROVE Split(<<>>, c) = << <<>> >>
<1>1. <<>> \in Seq({}) /\ Len(<<>>) = 0
  OBVIOUS
<1>2. PICK u : SplitTrace(u, <<>>, c, {}) /\ Split(<<>>, c) = u[Len(<<>>)]
  BY <1>1, SplitIsTraced
<1> QED BY <1>1, <1>2 DEF SplitTrace

(* One more character.                                                     *)
LEMMA SplitAppend ==
    ASSUME NEW C, NEW text \in Seq(C), NEW ch \in C, NEW c
    PROVE  Split(Append(text, ch), c) = Cut(Split(text, c), ch, c)
<1> DEFINE q == Append(text, ch)
           n == Len(text)
<1>1. /\ n \in Nat /\ q \in Seq(C) /\ Len(q) = n + 1 /\ q[n + 1] = ch
      /\ \A i \in 1 .. n : q[i] = text[i]
  BY AppendProperties
<1> HIDE DEF q
<1>2. PICK f : SplitTrace(f, text, c, C) /\ Split(text, c) = f[n]
  BY SplitIsTraced
<1>3. PICK g : SplitTrace(g, q, c, C) /\ Split(q, c) = g[n + 1]
  BY <1>1, SplitIsTraced
<1>4. f[0] = << <<>> >> /\ \A i \in 1 .. n : f[i] = Cut(f[i - 1], text[i], c)
  BY <1>2 DEF SplitTrace
<1>5. g[0] = << <<>> >> /\ \A i \in 1 .. n + 1 : g[i] = Cut(g[i - 1], q[i], c)
  BY <1>1, <1>3 DEF SplitTrace
<1> HIDE DEF n
<1> DEFINE T == {i \in Nat : i <= n => g[i] = f[i]}
<1>6. 0 \in T
  BY <1>4, <1>5
<1>7. ASSUME NEW i \in Nat, i \in T PROVE i + 1 \in T
  <2>1. SUFFICES ASSUME i + 1 <= n PROVE g[i + 1] = f[i + 1]
    OBVIOUS
  <2>2. i + 1 \in 1 .. n /\ i + 1 \in 1 .. n + 1 /\ (i + 1) - 1 = i /\ g[i] = f[i]
    BY <1>1, <1>7, <2>1
  <2>3. g[i + 1] = Cut(g[i], q[i + 1], c) /\ f[i + 1] = Cut(f[i], text[i + 1], c)
    BY <1>4, <1>5, <2>2
  <2> QED BY <1>1, <2>2, <2>3
<1> HIDE DEF T
<1>8. n \in T
  BY <1>1, <1>6, <1>7, SetInduction
<1>9. g[n] = f[n]
  BY <1>1, <1>8 DEF T
<1>10. n + 1 \in 1 .. n + 1 /\ (n + 1) - 1 = n
  BY <1>1
<1>11. g[n + 1] = Cut(g[n], q[n + 1], c)
  BY <1>5, <1>10
<1> QED BY <1>1, <1>2, <1>3, <1>9, <1>11 DEF q

Avoids(b, c) == \A i \in 1 .. Len(b) : b[i] # c
LastGrown(y, x, b) ==
    Len(y) = Len(x) /\ \A i \in 1 .. Len(x) : y[i] = IF i = Len(x) THEN x[i] \o b ELSE x[i]

LEMMA AppendToConcat ==
    ASSUME NEW C, NEW a \in Seq(C), NEW b \in Seq(C), NEW x \in C
    PROVE  a \o Append(b, x) = Append(a \o b, x)
OBVIOUS

(* A text without c goes to the last piece.                                *)
LEMMA SplitRun ==
    ASSUME NEW C, NEW a \in Seq(C), NEW b \in Seq(C), NEW c, Avoids(b, c)
    PROVE  LastGrown(Split(a \o b, c), Split(a, c), b)
<1> DEFINE P == Split(a, c)
           T == {n \in Nat : \A d \in Seq(C) : Len(d) = n /\ Avoids(d, c) => LastGrown(Split(a \o d, c), P, d)}
<1>1. P \in Pieces(C) /\ Len(P) \in Nat /\ \A i \in 1 .. Len(P) : P[i] \in Seq(C)
  BY SplitTyped, PiecesTyped
<1> HIDE DEF P
<1>2. 0 \in T
  <2> SUFFICES ASSUME NEW d \in Seq(C), Len(d) = 0 PROVE LastGrown(Split(a \o d, c), P, d)
    OBVIOUS
  <2>1. d = <<>> /\ a \o <<>> = a /\ \A i \in 1 .. Len(P) : P[i] \o <<>> = P[i]
    BY <1>1, EmptySeq, ConcatEmptySeq
  <2>2. Split(a \o d, c) = P
    BY <2>1 DEF P
  <2> QED BY <2>1, <2>2 DEF LastGrown
<1>3. ASSUME NEW n \in Nat, n \in T PROVE n + 1 \in T
  <2> SUFFICES ASSUME NEW d \in Seq(C), Len(d) = n + 1, Avoids(d, c)
               PROVE  LastGrown(Split(a \o d, c), P, d)
    OBVIOUS
  <2>1. PICK e \in Seq(C), x \in C : d = Append(e, x) /\ Len(e) = n
    BY SplitLast
  <2>2. Avoids(e, c) /\ x # c
    <3>1. \A i \in 1 .. n : d[i] = e[i] /\ i \in 1 .. n + 1
      BY <2>1, AppendProperties
    <3>2. d[n + 1] = x /\ n + 1 \in 1 .. n + 1
      BY <2>1, AppendProperties
    <3> QED BY <2>1, <3>1, <3>2 DEF Avoids
  <2> DEFINE Q == Split(a \o e, c)
             R == Split(a \o d, c)
  <2>3. LastGrown(Q, P, e)
    BY <1>3, <2>1, <2>2
  <2>4. a \o e \in Seq(C) /\ a \o d = Append(a \o e, x)
    BY <2>1, AppendToConcat
  <2>5. Q \in Pieces(C) /\ R = Cut(Q, x, c)
    BY <2>4, SplitTyped, SplitAppend
  <2> HIDE DEF Q, R
  <2>6. /\ Len(R) = Len(Q)
        /\ \A i \in 1 .. Len(Q) : R[i] = IF i = Len(Q) THEN Append(Q[i], x) ELSE Q[i]
    BY <2>2, <2>5, CutIs
  <2>7. /\ Len(Q) = Len(P)
        /\ \A i \in 1 .. Len(P) : Q[i] = IF i = Len(P) THEN P[i] \o e ELSE P[i]
    BY <2>3 DEF LastGrown
  <2>8. \A i \in 1 .. Len(P) : Append(P[i] \o e, x) = P[i] \o d
    <3> TAKE i \in 1 .. Len(P)
    <3> DEFINE w == P[i]
    <3>1. w \in Seq(C)
      BY <1>1
    <3> HIDE DEF w
    <3>2. w \o Append(e, x) = Append(w \o e, x)
      BY ONLY <2>1, <3>1, AppendToConcat
    <3> QED BY <2>1, <3>2 DEF w
  <2>9. LastGrown(R, P, d)
    BY <2>6, <2>7, <2>8 DEF LastGrown
  <2> QED BY <2>9 DEF R
<1> HIDE DEF T
<1>4. Len(b) \in Nat /\ Len(b) \in T
  BY <1>2, <1>3, SetInduction
<1> QED BY <1>4 DEF T, P

(* c and a text without it make a new piece.                               *)
LEMMA SplitPiece ==
    ASSUME NEW C, NEW a \in Seq(C), NEW b \in Seq(C), NEW c \in C, Avoids(b, c),
           NEW x, x = Split(a, c), NEW y, y = Split(Append(a, c) \o b, c)
    PROVE  /\ Len(x) \in Nat /\ Len(y) = Len(x) + 1 /\ y[Len(x) + 1] = b
           /\ \A i \in 1 .. Len(x) : y[i] = x[i]
<1> DEFINE T == Seq(C)
           z == Split(Append(a, c), c)
<1>1. Append(a, c) \in Seq(C)
  OBVIOUS
<1>2. x \in Pieces(C) /\ z = Cut(x, c, c)
  BY SplitTyped, SplitAppend
<1>3. z = Append(x, <<>>)
  BY <1>2, CutIs
<1>4. LastGrown(y, z, b)
  BY <1>1, SplitRun
<1> HIDE DEF z
<1>5. <<>> \in T /\ x \in Seq(T)
  BY <1>2, PiecesTyped
<1> HIDE DEF T
<1>6. /\ Len(x) \in Nat /\ Len(z) = Len(x) + 1 /\ z[Len(x) + 1] = <<>>
      /\ \A i \in 1 .. Len(x) : z[i] = x[i]
  BY <1>3, <1>5, AppendProperties
<1>7. <<>> \o b = b
  BY ConcatEmptySeq
<1>8. /\ Len(y) = Len(x) + 1 /\ y[Len(x) + 1] = <<>> \o b
      /\ \A i \in 1 .. Len(x) : y[i] = z[i]
  <2>1. /\ Len(x) + 1 \in 1 .. Len(z)
        /\ \A i \in 1 .. Len(x) : i \in 1 .. Len(z) /\ i # Len(z)
    BY <1>6
  <2> QED BY <1>4, <1>6, <2>1 DEF LastGrown
<1> QED BY <1>6, <1>7, <1>8

LEMMA SplitWhole ==
    ASSUME NEW C, NEW b \in Seq(C), NEW c, Avoids(b, c)
    PROVE  Split(b, c) = <<b>>
<1> DEFINE x == Split(b, c)
           T == Seq(C)
           e == <<>>
<1>1. e \in Seq(C) /\ e \o b = b
  BY ConcatEmptySeq
<1>2. Split(e, c) = <<e>>
  BY SplitNone
<1>3. LastGrown(Split(e \o b, c), Split(e, c), b)
  BY <1>1, SplitRun
<1>4. x \in Pieces(C)
  BY SplitTyped
<1>5. x \in Seq(T)
  BY <1>4, PiecesTyped
<1>6. b \in T /\ e \in T
  BY <1>1
<1> HIDE DEF x, T, e
<1>7. Len(<<e>>) = 1 /\ <<e>>[1] = e /\ Len(<<b>>) = 1 /\ <<b>>[1] = b /\ <<b>> \in Seq(T)
  BY <1>6
<1>8. Len(x) = 1 /\ x[1] = b
  <2>1. LastGrown(x, <<e>>, b)
    BY <1>1, <1>2, <1>3 DEF x
  <2> DEFINE s == <<e>>
  <2> HIDE DEF s
  <2>2. LastGrown(x, s, b) /\ Len(s) = 1 /\ s[1] = e
    BY <1>7, <2>1 DEF s
  <2>3. Len(x) = 1 /\ x[1] = e \o b
    BY <2>2 DEF LastGrown
  <2> QED BY <1>1, <2>3 DEF e
<1>9. x = <<b>>
  BY <1>5, <1>7, <1>8, SeqEqual
<1> QED BY <1>9 DEF x


(* A line of the engine's output without its end.                          *)
Body(F) == FlattenSeq([i \in DOMAIN F |-> (IF i = 1 THEN <<>> ELSE <<Comma>>) \o F[i]])

(* The line as it is printed, field by field.                              *)
BodyTrace(f, F, n, X) ==
    /\ f \in [0 .. n -> Seq(X)] /\ f[1] = F[1] /\ f[n] = Body(F)
    /\ Len(F[1]) <= Len(f[n]) /\ \A j \in 1 .. Len(F[1]) : f[n][j] = F[1][j]
    /\ \A i \in 1 .. n - 1 : f[i + 1] = Append(f[i], Comma) \o F[i + 1]

LEMMA CommaFirst ==
    ASSUME NEW X, Comma \in X, NEW a \in Seq(X), NEW b \in Seq(X)
    PROVE  a \o (<<Comma>> \o b) = Append(a, Comma) \o b
<1> DEFINE s == <<Comma>>
<1>1. s \in Seq(X) /\ a \o s = Append(a, Comma)
  OBVIOUS
<1> HIDE DEF s
<1>2. a \in Seq(X) /\ s \in Seq(X) /\ b \in Seq(X)
  BY <1>1
<1>3. (a \o s) \o b = a \o (s \o b)
  BY ONLY <1>2, ConcatAssociative, SMTT(30)
<1> QED BY <1>1, <1>3 DEF s

LEMMA BodyIsTraced ==
    ASSUME NEW X, Comma \in X, NEW F \in Pieces(X), NEW n, n = Len(F)
    PROVE  \E f : BodyTrace(f, F, n, X)
<1> DEFINE e == [i \in DOMAIN F |-> (IF i = 1 THEN <<>> ELSE <<Comma>>) \o F[i]]
           U == Seq(X)
<1>1. /\ n \in Nat \ {0} /\ n \in 1 .. n /\ F \in Seq(U) /\ \A i \in 1 .. n : F[i] \in U
  BY PiecesTyped
<1>2. DOMAIN F = 1 .. n
  <2> HIDE DEF U
  <2> QED BY <1>1, LenProperties
<1>3. /\ e[1] = F[1] /\ \A i \in 2 .. n : e[i] = <<Comma>> \o F[i]
      /\ \A i \in 1 .. n : e[i] \in U
  <2>1. <<>> \in U /\ <<Comma>> \in U
    OBVIOUS
  <2>2. \A i \in 1 .. n : e[i] = (IF i = 1 THEN <<>> ELSE <<Comma>>) \o F[i]
    BY <1>2
  <2>3. <<>> \o F[1] = F[1] /\ 1 \in 1 .. n
    BY <1>1, ConcatEmptySeq
  <2>4. \A i \in 2 .. n : i \in 1 .. n /\ i # 1
    BY <1>1
  <2>5. \A x, y \in U : x \o y \in U
    OBVIOUS
  <2>6. \A i \in 1 .. n : e[i] \in U
    BY <1>1, <2>1, <2>2, <2>5
  <2> HIDE DEF e, U
  <2>7. e[1] = <<>> \o F[1]
    BY <2>2, <2>3
  <2>8. \A i \in 2 .. n : e[i] = <<Comma>> \o F[i]
    BY <2>2, <2>4
  <2> QED BY <2>3, <2>6, <2>7, <2>8
<1>4. e \in Seq(U) /\ Len(e) = n
  <2> HIDE DEF U
  <2>1. e \in Seq(U)
    BY <1>1, <1>2, <1>3
  <2> QED BY <1>1, <1>2, <2>1
<1>5. Body(F) = FlattenSeq(e)
  BY DEF Body
<1> HIDE DEF e
<1>6. PICK f : FlattenTrace(f, e, X) /\ FlattenSeq(e) = f[n]
  BY <1>4, FlattenIsTraced
<1>7. f \in [0 .. n -> Seq(X)] /\ f[0] = <<>> /\ \A i \in 1 .. n : f[i] = f[i - 1] \o e[i]
  BY <1>4, <1>6 DEF FlattenTrace
<1>8. PlacedAt(f, e, n, 1)
  <2>1. \A k \in 1 .. n : PlacedAt(f, e, n, k)
    BY <1>4, <1>6, FlattenPlaces
  <2> QED BY <1>1, <2>1
<1>9. Len(F[1]) <= Len(f[n]) /\ \A j \in 1 .. Len(F[1]) : f[n][j] = F[1][j]
  <2>1. 1 - 1 = 0 /\ Len(f[0]) = 0
    BY <1>7
  <2>2. Len(F[1]) \in Nat
    BY <1>1
  <2>3. /\ Len(f[1]) = Len(f[0]) + Len(F[1]) /\ Len(f[1]) <= Len(f[n])
        /\ \A j \in 1 .. Len(F[1]) : f[n][Len(f[0]) + j] = F[1][j]
    BY <1>3, <1>8, <2>1 DEF PlacedAt
  <2>4. \A j \in 1 .. Len(F[1]) : 0 + j = j
    BY <2>2
  <2>5. 0 + Len(F[1]) = Len(F[1])
    BY <2>2
  <2> QED BY <2>1, <2>3, <2>4, <2>5
<1>10. f[1] = F[1]
  <2>1. f[1] = f[0] \o e[1]
    <3>1. 1 \in 1 .. n /\ 1 - 1 = 0
      BY <1>1
    <3> QED BY <1>7, <3>1
  <2>2. <<>> \o F[1] = F[1]
    BY <1>1, ConcatEmptySeq
  <2> QED BY <1>3, <1>7, <2>1, <2>2
<1>11. ASSUME NEW i \in 1 .. n - 1 PROVE f[i + 1] = Append(f[i], Comma) \o F[i + 1]
  <2> DEFINE a == f[i]
             b == F[i + 1]
  <2>1. i + 1 \in 1 .. n /\ i + 1 \in 2 .. n /\ (i + 1) - 1 = i /\ i \in 0 .. n
    BY <1>1
  <2>2. f[i + 1] = a \o (<<Comma>> \o b)
    BY <1>3, <1>7, <2>1
  <2>3. a \in Seq(X) /\ b \in Seq(X)
    BY <1>1, <1>7, <2>1
  <2> HIDE DEF a, b
  <2>4. a \o (<<Comma>> \o b) = Append(a, Comma) \o b
    BY <2>3, CommaFirst
  <2> QED BY <2>2, <2>4 DEF a, b
<1>12. BodyTrace(f, F, n, X)
  BY <1>5, <1>6, <1>7, <1>9, <1>10, <1>11 DEF BodyTrace
<1> QED BY <1>12

LEMMA BodyTyped ==
    ASSUME NEW X, Comma \in X, NEW F \in Pieces(X)
    PROVE  /\ Body(F) \in Seq(X)
           /\ Len(F[1]) <= Len(Body(F)) /\ \A j \in 1 .. Len(F[1]) : Body(F)[j] = F[1][j]
<1> DEFINE n == Len(F)
<1>1. n \in 0 .. n
  BY PiecesTyped
<1> HIDE DEF n
<1>2. PICK f : BodyTrace(f, F, n, X)
  BY BodyIsTraced DEF n
<1> QED BY <1>1, <1>2 DEF BodyTrace

(* Its fields are found again.                                             *)
LEMMA SplitBody ==
    ASSUME NEW X, Comma \notin X, NEW F \in Pieces(X)
    PROVE  Split(Body(F), Comma) = F
<1> DEFINE Y == X \cup {Comma}
           n == Len(F)
           U == Seq(Y)
<1>1. /\ n \in Nat \ {0} /\ n \in 1 .. n
      /\ \A i \in 1 .. n : F[i] \in Seq(Y) /\ Avoids(F[i], Comma)
      /\ F \in Pieces(Y)
  <2>1. F \in Seq(Seq(X)) /\ n \in Nat \ {0} /\ n \in 1 .. n /\ \A i \in 1 .. n : F[i] \in Seq(X)
    BY PiecesTyped
  <2>2. Seq(X) \subseteq Seq(Y)
    <3> SUFFICES ASSUME NEW s \in Seq(X) PROVE s \in Seq(Y)
      OBVIOUS
    <3> HIDE DEF Y
    <3> QED BY SeqMonotonic DEF Y
  <2>3. F \in Seq(Seq(Y))
    BY <2>1, <2>2, SeqMonotonic
  <2>4. ASSUME NEW i \in 1 .. n PROVE Avoids(F[i], Comma)
    <3>1. \A j \in 1 .. Len(F[i]) : F[i][j] \in X
      BY <2>1, ElementOfSeq
    <3> QED BY <3>1 DEF Avoids
  <2> QED BY <2>1, <2>2, <2>3, <2>4 DEF Pieces
<1>2. Comma \in Y
  OBVIOUS
<1> HIDE DEF Y, n
<1>3. PICK f : BodyTrace(f, F, n, Y)
  BY <1>1, <1>2, BodyIsTraced DEF n
<1>4. /\ f \in [0 .. n -> Seq(Y)] /\ f[1] = F[1] /\ f[n] = Body(F)
      /\ \A i \in 1 .. n - 1 : f[i + 1] = Append(f[i], Comma) \o F[i + 1]
  BY <1>3 DEF BodyTrace
<1> DEFINE Found(i) == LET y == Split(f[i], Comma) IN Len(y) = i /\ \A j \in 1 .. i : y[j] = F[j]
           T == {i \in Nat : i + 1 \in 1 .. n => Found(i + 1)}
<1>5. 0 \in T
  <2>1. F[1] \in Seq(Y) /\ Avoids(F[1], Comma)
    BY <1>1
  <2>2. Split(f[1], Comma) = <<F[1]>>
    BY <1>4, <2>1, SplitWhole
  <2> DEFINE b == F[1]
  <2> HIDE DEF b, U
  <2>3. Len(<<b>>) = 1 /\ <<b>>[1] = b
    OBVIOUS
  <2>4. Found(1)
    BY <2>2, <2>3 DEF b
  <2>5. 0 + 1 = 1
    OBVIOUS
  <2> QED BY <2>4, <2>5
<1>6. ASSUME NEW i \in Nat, i \in T PROVE i + 1 \in T
  <2> SUFFICES ASSUME (i + 1) + 1 \in 1 .. n PROVE Found((i + 1) + 1)
    OBVIOUS
  <2> DEFINE k == i + 1
  <2>1. k \in 1 .. n - 1 /\ k \in 1 .. n /\ k + 1 \in 1 .. n /\ k \in 0 .. n
    BY <1>1
  <2>2. Found(k)
    BY <1>6, <2>1
  <2> HIDE DEF k
  <2> DEFINE a == f[k]
             b == F[k + 1]
             x == Split(a, Comma)
             y == Split(Append(a, Comma) \o b, Comma)
  <2>3. a \in Seq(Y) /\ b \in Seq(Y) /\ Avoids(b, Comma)
    BY <1>1, <1>4, <2>1
  <2>4. f[k + 1] = Append(a, Comma) \o b
    BY <1>4, <2>1
  <2>5. /\ Len(y) = Len(x) + 1 /\ y[Len(x) + 1] = b
        /\ \A j \in 1 .. Len(x) : y[j] = x[j]
    <3> HIDE DEF a, b
    <3> QED BY <1>2, <2>3, SplitPiece
  <2>6. Len(x) = k /\ \A j \in 1 .. k : x[j] = F[j]
    BY <2>2
  <2>7. y = Split(f[k + 1], Comma)
    BY <2>4
  <2> HIDE DEF x, y
  <2>8. Len(y) = k + 1 /\ \A j \in 1 .. k + 1 : y[j] = F[j]
    <3>1. \A j \in 1 .. k + 1 : j = k + 1 \/ j \in 1 .. k
      BY <2>1
    <3> QED BY <2>5, <2>6, <3>1 DEF b
  <2>9. Found(k + 1)
    BY <2>7, <2>8
  <2> QED BY <2>9 DEF k
<1> HIDE DEF T
<1>7. n - 1 \in Nat /\ (n - 1) + 1 = n
  BY <1>1
<1>8. n - 1 \in T
  BY <1>5, <1>6, <1>7, SetInduction
<1>9. Found(n)
  BY <1>1, <1>7, <1>8 DEF T
<1> DEFINE y == Split(Body(F), Comma)
<1>10. Len(y) = n /\ \A j \in 1 .. n : y[j] = F[j]
  BY <1>4, <1>9
<1>11. y \in Seq(U) /\ F \in Seq(U)
  <2>1. Body(F) \in Seq(Y)
    BY <1>1, <1>2, BodyTyped
  <2>2. y \in Pieces(Y)
    BY <2>1, SplitTyped
  <2> QED BY <1>1, <2>2, PiecesTyped
<1> HIDE DEF y, U
<1>12. y = F
  BY <1>10, <1>11, SeqEqual DEF n
<1> QED BY <1>12 DEF y

(* Lines that each end with the mark are found again, and nothing behind   *)
(* the last mark.                                                          *)
Marked(E, L, mark, n) ==
    Len(E) = n /\ \A i \in 1 .. n : E[i] = Append(L[i], mark) /\ Avoids(L[i], mark)
Beginning(y, L, n) ==
    Len(y) = n + 1 /\ y[n + 1] = <<>> /\ \A i \in 1 .. n : y[i] = L[i]

LEMMA SplitLines ==
    ASSUME NEW C, NEW mark \in C, NEW L \in Seq(Seq(C)), NEW E \in Seq(Seq(C)), NEW n, n = Len(L),
           Marked(E, L, mark, n)
    PROVE  Beginning(Split(FlattenSeq(E), mark), L, n)
<1>1. Len(E) = n /\ \A i \in 1 .. n : E[i] = Append(L[i], mark) /\ Avoids(L[i], mark)
  BY DEF Marked
<1>2. n \in Nat /\ \A i \in 1 .. n : L[i] \in Seq(C)
  BY SeqOfSeq
<1>3. PICK f : FlattenTrace(f, E, C) /\ FlattenSeq(E) = f[n]
  BY <1>1, FlattenIsTraced
<1>4. f \in [0 .. n -> Seq(C)] /\ f[0] = <<>> /\ \A i \in 1 .. n : f[i] = f[i - 1] \o Append(L[i], mark)
  BY <1>1, <1>3 DEF FlattenTrace
<1> DEFINE Found(z, i) == /\ Len(z) = i + 1 /\ z[i + 1] = <<>>
                          /\ \A j \in 1 .. i : z[j] = L[j]
           T == {i \in Nat : i <= n => Found(Split(f[i], mark), i)}
<1>5. 0 \in T
  <2>1. Split(f[0], mark) = << <<>> >>
    BY <1>4, SplitNone
  <2> DEFINE e == <<>>
  <2> HIDE DEF e
  <2>2. Len(<<e>>) = 1 /\ <<e>>[1] = e
    OBVIOUS
  <2>3. Found(Split(f[0], mark), 0)
    BY <2>1, <2>2 DEF e
  <2> QED BY <2>3
<1>6. ASSUME NEW i \in Nat, i \in T PROVE i + 1 \in T
  <2> DEFINE k == i + 1
  <2> SUFFICES ASSUME k <= n PROVE Found(Split(f[k], mark), k)
    OBVIOUS
  <2>1. k \in 1 .. n /\ k - 1 = i /\ i <= n /\ i \in 0 .. n /\ k = i + 1
    BY <1>2
  <2> DEFINE a == f[i]
             b == L[k]
             x == Split(a, mark)
             z == Split(a \o b, mark)
             w == Split(Append(a \o b, mark), mark)
  <2>2. Found(x, i)
    BY <1>6, <2>1
  <2>3. a \in Seq(C) /\ b \in Seq(C) /\ Avoids(b, mark)
    BY <1>1, <1>2, <1>4, <2>1
  <2>4. f[k] = a \o Append(b, mark)
    BY <1>4, <2>1
  <2> HIDE DEF a, b, k
  <2>5. a \o Append(b, mark) = Append(a \o b, mark) /\ a \o b \in Seq(C)
    BY <2>3, AppendToConcat
  <2>6. LastGrown(z, x, b)
    BY <2>3, SplitRun
  <2>7. z \in Pieces(C) /\ w = Cut(z, mark, mark)
    BY <2>5, SplitTyped, SplitAppend
  <2>8. w = Append(z, <<>>)
    BY <2>7, CutIs
  <2> HIDE DEF x, z, w
  <2>9. <<>> \o b = b
    BY <2>3, ConcatEmptySeq
  <2>10. /\ Len(z) = k
         /\ \A j \in 1 .. k : z[j] = L[j]
    <3>1. Len(z) = Len(x) /\ \A j \in 1 .. Len(x) : z[j] = IF j = Len(x) THEN x[j] \o b ELSE x[j]
      BY <2>6 DEF LastGrown
    <3>2. Len(x) = k /\ x[k] = <<>> /\ \A j \in 1 .. k : j # k => x[j] = L[j]
      <4>1. \A j \in 1 .. k : j # k => j \in 1 .. i
        BY <2>1
      <4> QED BY <2>1, <2>2, <4>1
    <3>3. z[k] = b
      <4>1. k \in 1 .. Len(x) /\ k = Len(x)
        BY <2>1, <3>2
      <4>2. z[k] = x[k] \o b
        BY <3>1, <4>1
      <4> QED BY <2>9, <3>2, <4>2
    <3> QED BY <3>1, <3>2, <3>3 DEF b
  <2>11. /\ Len(w) = Len(z) + 1 /\ w[Len(z) + 1] = <<>>
         /\ \A j \in 1 .. Len(z) : w[j] = z[j]
    <3> DEFINE U == Seq(C)
    <3>1. <<>> \in U /\ z \in Seq(U)
      BY <2>7, PiecesTyped
    <3> HIDE DEF U
    <3> QED BY <2>8, <3>1, AppendProperties
  <2>12. Found(w, k)
    BY <2>10, <2>11
  <2> QED BY <2>4, <2>5, <2>12 DEF w
<1> HIDE DEF T
<1>7. n \in T
  BY <1>2, <1>5, <1>6, SetInduction
<1>8. Found(Split(f[n], mark), n)
  BY <1>2, <1>7 DEF T
<1> QED BY <1>3, <1>8 DEF Beginning

(* Lines that do not end with CR or LF stay as they are.                   *)
LEMMA TrimNothing ==
    ASSUME NEW C, C \cap Eol = {}, NEW line \in Seq(C)
    PROVE  TrimLine(line) = line
<1> DEFINE n == Len(line)
           S == {0} \cup {i \in DOMAIN line : line[i] \notin Eol}
<1>1. n \in Nat /\ DOMAIN line = 1 .. n /\ \A i \in 1 .. n : line[i] \notin Eol
  BY LenProperties, ElementOfSeq
<1>2. S = 0 .. n
  BY <1>1
<1> HIDE DEF n, S
<1>3. Max(S) = n
  <2>1. S \in SUBSET (0 .. n) /\ S # {} /\ n \in S
    <3>1. n \in 0 .. n
      BY <1>1
    <3> QED BY ONLY <1>2, <3>1
  <2>2. Max(S) \in S /\ \A i \in S : i <= Max(S)
    BY ONLY <1>1, <2>1, MaxIsGreatest
  <2>3. Max(S) \in 0 .. n /\ n <= Max(S)
    BY <2>1, <2>2
  <2> QED BY <1>1, <2>3
<1>4. TrimLine(line) = SubSeq(line, 1, n)
  BY <1>3 DEF TrimLine, S, n
<1> QED BY <1>4, SubSeqFull DEF n

(* Of lines of which only the last is empty the others are left.           *)
LastIsEmpty(s, n) == Len(s) = n + 1 /\ s[n + 1] = <<>> /\ \A i \in 1 .. n : s[i] # <<>>
Leaves(y, s, n) == DOMAIN y = 1 .. n /\ \A i \in 1 .. n : y[i] = s[i]

LEMMA LastLineDropped ==
    ASSUME NEW C, NEW s \in Seq(Seq(C)), NEW n \in Nat, LastIsEmpty(s, n)
    PROVE  Leaves(NonEmpty(s), s, n)
<1> SUFFICES ASSUME Len(s) = n + 1, s[n + 1] = <<>>, \A i \in 1 .. n : s[i] # <<>>,
                    NEW y, y = NonEmpty(s)
             PROVE  DOMAIN y = 1 .. n /\ \A i \in 1 .. n : y[i] = s[i]
  BY DEF LastIsEmpty, Leaves
<1> DEFINE U == Seq(C)
           V == Seq(U)
           e == [i \in DOMAIN s |-> IF s[i] = <<>> THEN <<>> ELSE <<s[i]>>]
<1>1. DOMAIN s = 1 .. n + 1 /\ \A i \in 1 .. n + 1 : s[i] \in U
  BY SeqOfSeq
<1>2. <<>> \in V /\ \A x \in U : <<x>> \in V /\ Len(<<x>>) = 1 /\ <<x>>[1] = x
  <2> HIDE DEF U
  <2> QED OBVIOUS
<1>3. \A i \in 1 .. n + 1 : e[i] \in V
  <2> HIDE DEF U, V
  <2> QED BY <1>1, <1>2
<1>4. e[n + 1] = <<>> /\ \A i \in 1 .. n : e[i] = <<s[i]>>
  <2>1. n + 1 \in 1 .. n + 1 /\ \A i \in 1 .. n : i \in 1 .. n + 1
    OBVIOUS
  <2> HIDE DEF U, V
  <2> QED BY <1>1, <2>1
<1>5. y = FlattenSeq(e)
  BY DEF NonEmpty
<1>6. e \in Seq(V) /\ Len(e) = n + 1
  <2>1. e = [i \in 1 .. n + 1 |-> e[i]]
    BY <1>1
  <2> HIDE DEF V, e
  <2>2. e \in [1 .. n + 1 -> V]
    BY <1>3, <2>1
  <2>3. n + 1 \in Nat
    OBVIOUS
  <2> QED BY <2>2, <2>3
<1> HIDE DEF e
<1>7. PICK f : FlattenTrace(f, e, U) /\ FlattenSeq(e) = f[n + 1]
  <2> HIDE DEF U
  <2> QED BY <1>6, FlattenIsTraced DEF V
<1>8. f \in [0 .. n + 1 -> V] /\ f[0] = <<>> /\ \A i \in 1 .. n + 1 : f[i] = f[i - 1] \o e[i]
  BY <1>6, <1>7 DEF FlattenTrace
<1> HIDE DEF V
<1> DEFINE Found(z, i) == Len(z) = i /\ \A j \in 1 .. i : z[j] = s[j]
           T == {i \in Nat : i <= n => Found(f[i], i)}
<1>9. 0 \in T
  BY <1>8
<1>10. ASSUME NEW i \in Nat, i \in T PROVE i + 1 \in T
  <2> SUFFICES ASSUME i + 1 <= n PROVE Found(f[i + 1], i + 1)
    <3>1. i + 1 \in Nat
      OBVIOUS
    <3> HIDE DEF Found
    <3> QED BY <3>1
  <2>1. /\ i + 1 \in 1 .. n /\ i + 1 \in 1 .. n + 1 /\ (i + 1) - 1 = i /\ i <= n /\ i \in 0 .. n + 1
    OBVIOUS
  <2> DEFINE a == f[i]
             x == s[i + 1]
  <2>2. Found(a, i) /\ a \in V /\ x \in U /\ f[i + 1] = a \o <<x>>
    BY <1>1, <1>4, <1>8, <1>10, <2>1
  <2> HIDE DEF a, x
  <2>3. /\ Len(a \o <<x>>) = i + 1 /\ (a \o <<x>>)[i + 1] = x
        /\ \A j \in 1 .. i : (a \o <<x>>)[j] = a[j]
    <3> DEFINE b == <<x>>
    <3> HIDE DEF U
    <3>1. a \in Seq(U) /\ b \in Seq(U) /\ Len(b) = 1 /\ b[1] = x /\ Len(a) = i
      BY <1>2, <2>2 DEF V
    <3> HIDE DEF b
    <3>2. a \in Seq(U) /\ b \in Seq(U)
      BY <3>1
    <3>3. /\ Len(a \o b) = Len(a) + Len(b)
          /\ \A j \in 1 .. Len(a) : (a \o b)[j] = a[j]
          /\ \A j \in 1 .. Len(b) : (a \o b)[Len(a) + j] = b[j]
      BY ONLY <3>2, Concatenated
    <3>4. 1 \in 1 .. 1
      OBVIOUS
    <3> QED BY <3>1, <3>3, <3>4 DEF b
  <2>4. \A j \in 1 .. i + 1 : j = i + 1 \/ j \in 1 .. i
    OBVIOUS
  <2>5. \A j \in 1 .. i + 1 : f[i + 1][j] = s[j]
    BY <2>2, <2>3, <2>4 DEF x
  <2> QED BY <2>2, <2>3, <2>5
<1> HIDE DEF T
<1>11. n \in T
  BY <1>9, <1>10, SetInduction
<1>12. Found(f[n], n)
  BY <1>11 DEF T
<1>13. f[n + 1] = f[n]
  <2>1. n + 1 \in 1 .. n + 1 /\ (n + 1) - 1 = n /\ n \in 0 .. n + 1
    OBVIOUS
  <2>2. f[n + 1] = f[n] \o <<>> /\ f[n] \in V
    BY <1>4, <1>8, <2>1
  <2> HIDE DEF U
  <2> QED BY <2>2, ConcatEmptySeq DEF V
<1>14. y = f[n] /\ y \in V
  <2>1. n \in 0 .. n + 1
    OBVIOUS
  <2> QED BY <1>5, <1>7, <1>8, <1>13, <2>1
<1> HIDE DEF U
<1>15. DOMAIN y = 1 .. Len(y)
  BY <1>14, LenProperties DEF V
<1> QED BY <1>12, <1>14, <1>15

(* Characters of a field, and of a line.                                   *)
FieldSigns == Signs \ ({Comma} \cup Eol)
LineSigns == Signs \ Eol

LEMMA SignsApart ==
    /\ Comma \notin FieldSigns /\ Comma \in LineSigns /\ FieldSigns \subseteq LineSigns
    /\ LineSigns \subseteq Signs /\ LineSigns \cap Eol = {} /\ "LF" \in Signs /\ "LF" \notin LineSigns
    /\ FieldSigns \subseteq Signs
<1>1. Comma \notin Eol
  BY DEF Comma, Eol
<1>2. Comma \in Signs /\ "LF" \in Signs /\ "LF" \in Eol
  BY DEF Signs, Control, Eol
<1> QED BY <1>1, <1>2 DEF FieldSigns, LineSigns

LEMMA LineIs ==
    ASSUME NEW F \in Pieces(FieldSigns)
    PROVE  /\ Body(F) \in Seq(LineSigns) /\ Body(F) \in Seq(Signs)
           /\ CsvLine(F) = Append(Body(F), "LF") /\ CsvLine(F) \in Seq(Signs)
           /\ Avoids(Body(F), "LF") /\ TrimLine(Body(F)) = Body(F)
           /\ Split(Body(F), Comma) = F
           /\ F # << <<>> >> => Body(F) # <<>>
<1> DEFINE b == Body(F)
<1>1. F \in Pieces(LineSigns)
  <2>1. F \in Seq(Seq(FieldSigns)) /\ F # <<>>
    BY DEF Pieces
  <2>2. Seq(FieldSigns) \subseteq Seq(LineSigns)
    BY SignsApart, SeqMonotonic
  <2>3. F \in Seq(Seq(LineSigns))
    BY <2>1, <2>2, SeqMonotonic
  <2> QED BY <2>1, <2>3 DEF Pieces
<1>2. b \in Seq(LineSigns)
  BY <1>1, SignsApart, BodyTyped
<1>3. Split(b, Comma) = F
  BY SignsApart, SplitBody
<1>4. CsvLine(F) = b \o <<"LF">>
  BY DEF CsvLine, Body
<1> HIDE DEF b
<1>5. b \in Seq(Signs)
  BY <1>2, SignsApart, SeqMonotonic
<1>6. CsvLine(F) = Append(b, "LF") /\ CsvLine(F) \in Seq(Signs)
  BY <1>4, <1>5, SignsApart
<1>7. Avoids(b, "LF")
  <2>1. \A i \in 1 .. Len(b) : b[i] \in LineSigns
    BY <1>2, ElementOfSeq
  <2> QED BY <2>1, SignsApart DEF Avoids
<1>8. TrimLine(b) = b
  BY <1>2, SignsApart, TrimNothing
<1>9. F # << <<>> >> => b # <<>>
  BY <1>3, SplitNone
<1> QED BY <1>2, <1>3, <1>5, <1>6, <1>7, <1>8, <1>9 DEF b

(* A table whose texts are fields.                                         *)
Printable(t) ==
    /\ t.columns \in Pieces(FieldSigns)
    /\ t.rows \in Seq(Pieces(FieldSigns))

LineOf(t, i) == IF i = 1 THEN t.columns ELSE t.rows[i - 1]

(* The lines of what the engine prints are those of the table.             *)
LEMMA LinesAre ==
    ASSUME NEW t, Printable(t), NEW n, n = Len(t.rows), NEW y, y = Lines(Csv(t))
    PROVE  /\ n \in Nat /\ y \in Seq(Seq(LineSigns)) /\ Len(y) = n + 2
           /\ \A i \in 1 .. n + 1 : LineOf(t, i) \in Pieces(FieldSigns) /\ y[i] = Body(LineOf(t, i))
           /\ y[n + 2] = <<>>
<1> DEFINE U == Seq(Signs)
           P == Pieces(FieldSigns)
           L == [i \in 1 .. n + 1 |-> Body(LineOf(t, i))]
           E == [i \in 1 .. n + 1 |-> CsvLine(LineOf(t, i))]
           R == [i \in DOMAIN t.rows |-> CsvLine(t.rows[i])]
           x == Split(Csv(t), "LF")
<1>1. n \in Nat /\ DOMAIN t.rows = 1 .. n /\ \A i \in 1 .. n : t.rows[i] \in P
  <2>1. t.rows \in Seq(P)
    BY DEF Printable
  <2> HIDE DEF P
  <2> QED BY <2>1, LenProperties, ElementOfSeq
<1>2. \A i \in 1 .. n + 1 : LineOf(t, i) \in P
  <2> TAKE i \in 1 .. n + 1
  <2>1. CASE i = 1
    BY <2>1 DEF LineOf, Printable
  <2>2. CASE i # 1
    <3>1. i - 1 \in 1 .. n
      BY <1>1, <2>2
    <3> QED BY <1>1, <2>2, <3>1 DEF LineOf
  <2> QED BY <2>1, <2>2
<1>3. \A i \in 1 .. n + 1 : /\ L[i] \in U /\ E[i] \in U /\ E[i] = Append(L[i], "LF")
                            /\ Avoids(L[i], "LF") /\ TrimLine(L[i]) = L[i]
                            /\ L[i] \in Seq(LineSigns)
  BY <1>2, LineIs
<1>4. /\ L \in Seq(U) /\ Len(L) = n + 1 /\ E \in Seq(U) /\ Len(E) = n + 1
  <2>1. L \in [1 .. n + 1 -> U] /\ E \in [1 .. n + 1 -> U]
    BY <1>3
  <2> HIDE DEF L, E, U
  <2>2. n + 1 \in Nat
    BY <1>1
  <2> QED BY <2>1, <2>2, FunctionIsSeq
<1>5. Csv(t) = FlattenSeq(E)
  <2> DEFINE c == CsvLine(t.columns)
  <2>1. c \in U /\ \A i \in 1 .. n : R[i] \in U
    <3>1. t.columns \in P
      BY DEF Printable
    <3> QED BY <1>1, <3>1, LineIs
  <2>2. R = [i \in 1 .. n |-> R[i]] /\ \A i \in 1 .. n : R[i] = CsvLine(t.rows[i])
    BY <1>1
  <2>3. E[1] = c /\ \A i \in 1 .. n : E[i + 1] = R[i]
    <3>1. 1 \in 1 .. n + 1 /\ \A i \in 1 .. n : i + 1 \in 1 .. n + 1 /\ i + 1 # 1 /\ (i + 1) - 1 = i
      BY <1>1
    <3> QED BY <2>2, <3>1 DEF LineOf
  <2>4. Csv(t) = c \o FlattenSeq(R)
    BY DEF Csv
  <2> HIDE DEF c, R, E, U, L
  <2>5. R \in Seq(U) /\ Len(R) = n /\ <<c>> \in Seq(U) /\ Len(<<c>>) = 1 /\ <<c>>[1] = c
    <3>1. R \in [1 .. n -> U]
      BY <2>1, <2>2
    <3>2. R \in Seq(U) /\ Len(R) = n
      BY <1>1, <3>1, FunctionIsSeq
    <3> QED BY <2>1, <3>2, OneSign
  <2>6. E = <<c>> \o R
    <3> DEFINE s == <<c>>
    <3>1. s \in Seq(U) /\ Len(s) = 1 /\ s[1] = c /\ R \in Seq(U) /\ Len(R) = n
      BY <2>5
    <3> HIDE DEF s
    <3>2. /\ s \o R \in Seq(U) /\ Len(s \o R) = Len(s) + Len(R)
          /\ \A i \in 1 .. Len(s) : (s \o R)[i] = s[i]
          /\ \A i \in 1 .. Len(R) : (s \o R)[Len(s) + i] = R[i]
      <4>1. s \in Seq(U) /\ R \in Seq(U)
        BY <3>1
      <4> QED BY ONLY <4>1, Concatenated
    <3> DEFINE w == s \o R
    <3> HIDE DEF w
    <3>3. w \in Seq(U) /\ Len(w) = n + 1 /\ w[1] = c /\ \A i \in 1 .. n : w[i + 1] = R[i]
      <4>1. 1 + n = n + 1 /\ 1 \in 1 .. 1 /\ \A i \in 1 .. n : 1 + i = i + 1
        BY <1>1
      <4>2. w \in Seq(U) /\ Len(w) = 1 + n /\ w[1] = c /\ \A i \in 1 .. n : w[1 + i] = R[i]
        BY ONLY <3>1, <3>2, <4>1 DEF w
      <4> QED BY ONLY <4>1, <4>2
    <3>4. \A i \in 1 .. n + 1 : w[i] = E[i]
      <4> TAKE i \in 1 .. n + 1
      <4>1. i = 1 \/ (i - 1 \in 1 .. n /\ (i - 1) + 1 = i)
        BY <1>1
      <4> QED BY <2>3, <3>3, <4>1
    <3>5. w = E
      BY <1>4, <3>3, <3>4, SeqEqual
    <3> QED BY <3>5 DEF w, s
  <2>7. FlattenSeq(<<c>>) = c
    BY <2>1, FlattenOne DEF U
  <2>8. FlattenSeq(<<c>> \o R) = FlattenSeq(<<c>>) \o FlattenSeq(R)
    BY <2>5, FlattenConcat DEF U
  <2> QED BY <2>4, <2>6, <2>7, <2>8
<1>6. /\ Len(x) = n + 2 /\ x[n + 2] = <<>>
      /\ \A i \in 1 .. n + 1 : x[i] = L[i]
  <2> HIDE DEF L, E
  <2>1. /\ Len(x) = (n + 1) + 1 /\ x[(n + 1) + 1] = <<>>
        /\ \A i \in 1 .. n + 1 : x[i] = L[i]
    <3> DEFINE k == n + 1
    <3>1. L \in Seq(Seq(Signs)) /\ E \in Seq(Seq(Signs)) /\ k = Len(L)
      BY <1>4
    <3>2. Marked(E, L, "LF", k)
      BY <1>3, <1>4 DEF Marked
    <3>3. x = Split(FlattenSeq(E), "LF")
      BY <1>5
    <3> HIDE DEF x, k
    <3>4. "LF" \in Signs
      BY SignsApart
    <3>5. Beginning(x, L, k)
      BY <3>1, <3>2, <3>3, <3>4, SplitLines
    <3> QED BY <3>5 DEF k, Beginning
  <2>2. (n + 1) + 1 = n + 2
    BY <1>1
  <2> QED BY <2>1, <2>2
<1>7. DOMAIN x = 1 .. n + 2
  <2>1. Csv(t) \in U
    BY <1>4, <1>5, FlattenTyped
  <2>2. x \in Seq(U)
    BY <2>1, SplitTyped, PiecesTyped
  <2> HIDE DEF x, U
  <2> QED BY <1>6, <2>2, LenProperties
<1>8. y = [i \in 1 .. n + 2 |-> TrimLine(x[i])]
  BY <1>7 DEF Lines
<1>9. y[n + 2] = <<>> /\ \A i \in 1 .. n + 1 : y[i] = L[i]
  <2>1. TrimLine(<<>>) = <<>>
    <3>1. <<>> \in Seq({}) /\ {} \cap Eol = {}
      OBVIOUS
    <3> QED BY <3>1, TrimNothing
  <2>2. n + 2 \in 1 .. n + 2 /\ \A i \in 1 .. n + 1 : i \in 1 .. n + 2
    BY <1>1
  <2>3. \A i \in 1 .. n + 1 : TrimLine(L[i]) = L[i]
    BY <1>3
  <2> HIDE DEF x, L
  <2>4. y[n + 2] = TrimLine(x[n + 2]) /\ \A i \in 1 .. n + 1 : y[i] = TrimLine(x[i])
    BY <1>8, <2>2
  <2> QED BY <1>6, <2>1, <2>3, <2>4
<1>10. y \in Seq(Seq(LineSigns)) /\ Len(y) = n + 2
  <2> DEFINE V == Seq(LineSigns)
  <2>1. <<>> \in V
    OBVIOUS
  <2>2. \A i \in 1 .. n + 2 : i = n + 2 \/ i \in 1 .. n + 1
    BY <1>1
  <2> HIDE DEF x, L, V
  <2>3. \A i \in 1 .. n + 2 : y[i] \in V
    BY <1>3, <1>9, <2>1, <2>2 DEF V
  <2>4. y \in [1 .. n + 2 -> V] /\ n + 2 \in Nat
    BY <1>1, <1>8, <2>3
  <2>5. y \in Seq(V) /\ Len(y) = n + 2
    BY <2>4
  <2> QED BY <2>5 DEF V
<1> QED BY <1>1, <1>2, <1>9, <1>10

(* The fields of a line are read back from its JSON strings.               *)
LEMMA FieldsReadBack ==
    ASSUME NEW F \in Pieces(FieldSigns), NEW n, n = Len(F)
    PROVE  ReadAll(Strings(Body(F), n)) = F
<1> DEFINE U == Seq(FieldSigns)
           s == Strings(Body(F), n)
<1>1. n \in Nat /\ F \in Seq(U) /\ \A i \in 1 .. n : F[i] \in U
  BY PiecesTyped
<1>2. Split(Body(F), Comma) = F
  BY LineIs
<1>3. Fields(Body(F), n) = [i \in 1 .. n |-> F[i]]
  <2>1. \A i \in 1 .. n : i <= Len(F)
    OBVIOUS
  <2> QED BY <1>2, <2>1 DEF Fields
<1>4. s = [i \in 1 .. n |-> JsonEscape(F[i])]
  BY <1>3 DEF Strings
<1>5. \A i \in 1 .. n : ReadBack(JsonEscape(F[i])) = F[i]
  <2> TAKE i \in 1 .. n
  <2>1. F[i] \in Seq(Signs)
    BY <1>1, SignsApart, SeqMonotonic
  <2> QED BY <2>1, ReadEscaped
<1> HIDE DEF s
<1>6. ReadAll(s) = [i \in 1 .. n |-> F[i]]
  BY <1>4, <1>5 DEF ReadAll
<1>7. F = [i \in 1 .. n |-> F[i]]
  <2> HIDE DEF U
  <2> QED BY <1>1, LenProperties
<1> QED BY <1>6, <1>7 DEF s

(* Column names are told from other lines.                                 *)
Names(F) ==
    /\ F \in Pieces(FieldSigns)
    /\ \A i \in 1 .. Len(F) : F[i] # <<>> /\ F[i] \in Seq(NameChars)

LEMMA HeaderIsKnown == ASSUME NEW F, Names(F) PROVE IsIdentifierHeader(Body(F))
<1> DEFINE X == NameChars \cup {Comma}
           b == Body(F)
<1>1. F \in Pieces(FieldSigns) /\ \A i \in 1 .. Len(F) : F[i] # <<>> /\ F[i] \in Seq(NameChars)
  BY DEF Names
<1>2. Len(F) \in Nat \ {0} /\ 1 \in 1 .. Len(F) /\ F \in Seq(Seq(FieldSigns)) /\ F # <<>>
  BY <1>1, PiecesTyped DEF Pieces
<1>3. F \in Pieces(X)
  <2> DEFINE U == Seq(FieldSigns)
             V == Seq(X)
  <2>1. \A i \in 1 .. Len(F) : F[i] \in V
    BY <1>1, SeqMonotonic
  <2>2. F \in Seq(U)
    BY <1>2
  <2> HIDE DEF U, V
  <2>3. DOMAIN F = 1 .. Len(F) /\ F \in [1 .. Len(F) -> U] /\ Len(F) \in Nat
    BY <2>2, LenProperties
  <2>4. F \in [1 .. Len(F) -> V]
    BY <2>1, <2>3
  <2>5. F \in Seq(V)
    BY <2>3, <2>4, FunctionIsSeq
  <2> QED BY <1>2, <2>5 DEF Pieces, V
<1>4. /\ b \in Seq(X) /\ Len(F[1]) <= Len(b) /\ \A j \in 1 .. Len(F[1]) : b[j] = F[1][j]
  BY <1>3, BodyTyped
<1> HIDE DEF b
<1>5. ToSet(b) \subseteq X
  <2>1. DOMAIN b = 1 .. Len(b) /\ \A j \in 1 .. Len(b) : b[j] \in X
    BY <1>4, LenProperties, ElementOfSeq
  <2> QED BY <2>1 DEF ToSet
<1>6. ToSet(b) \cap NameChars # {}
  <2> DEFINE a == F[1]
  <2>1. a \in Seq(NameChars) /\ a # <<>>
    BY <1>1, <1>2
  <2>2. Len(a) \in Nat \ {0} /\ 1 \in 1 .. Len(a) /\ a[1] \in NameChars
    <3> HIDE DEF a
    <3>1. Len(a) \in Nat \ {0}
      BY <2>1, EmptySeq
    <3>2. 1 \in 1 .. Len(a)
      BY <3>1
    <3> QED BY <2>1, <3>1, <3>2, ElementOfSeq
  <2>3. Len(b) \in Nat /\ DOMAIN b = 1 .. Len(b)
    BY <1>4, LenProperties
  <2>4. Len(a) <= Len(b) /\ b[1] = a[1]
    BY <1>4, <2>2
  <2>5. 1 \in DOMAIN b /\ b[1] \in NameChars
    BY <2>2, <2>3, <2>4
  <2> QED BY <2>5 DEF ToSet
<1> QED BY <1>5, <1>6 DEF IsIdentifierHeader, b

(* The projection of a table that is shown, read by a JSON reader, is the  *)
(* table.                                                                  *)
LEMMA ProjectionReadBack ==
    ASSUME NEW t, Printable(t), Names(t.columns),
           \A r \in 1 .. Len(t.rows) : Len(t.rows[r]) = Len(t.columns) /\ t.rows[r] # << <<>> >>,
           NEW p, p = Projection(Csv(t))
    PROVE  /\ ReadAll(p.columns) = t.columns
           /\ [r \in DOMAIN p.rows |-> ReadAll(p.rows[r])] = t.rows
<1> DEFINE P == Pieces(FieldSigns)
           U == Seq(LineSigns)
           m == Len(t.rows)
           y == Lines(Csv(t))
           z == Tail(y)
           rows == NonEmpty(z)
           n == Len(t.columns)
<1>1. /\ m \in Nat /\ y \in Seq(U) /\ Len(y) = m + 2 /\ y[m + 2] = <<>>
      /\ \A i \in 1 .. m + 1 : LineOf(t, i) \in P /\ y[i] = Body(LineOf(t, i))
  BY LinesAre
<1>2. y[1] = Body(t.columns) /\ t.columns \in P
  <2>1. 1 \in 1 .. m + 1
    BY <1>1
  <2> QED BY <1>1, <2>1 DEF LineOf
<1>3. \A i \in 1 .. m : t.rows[i] \in P /\ y[i + 1] = Body(t.rows[i])
  <2> TAKE i \in 1 .. m
  <2>1. i + 1 \in 1 .. m + 1 /\ i + 1 # 1 /\ (i + 1) - 1 = i
    BY <1>1
  <2> QED BY <1>1, <2>1 DEF LineOf
<1>4. Split(y[1], Comma) = t.columns /\ IsIdentifierHeader(y[1])
  BY <1>2, LineIs, HeaderIsKnown
<1>5. /\ p.columns = Strings(y[1], n)
      /\ p.rows = [r \in DOMAIN rows |-> Strings(rows[r], n)]
  BY <1>4 DEF Projection
<1>6. ReadAll(p.columns) = t.columns
  BY <1>2, <1>5, FieldsReadBack
<1>7. /\ z \in Seq(U) /\ Len(z) = m + 1 /\ z[m + 1] = <<>>
      /\ \A i \in 1 .. m : z[i] = Body(t.rows[i])
  <2> HIDE DEF y, U
  <2>1. y # <<>>
    BY <1>1
  <2>2. z \in Seq(U) /\ Len(z) = Len(y) - 1 /\ \A i \in 1 .. Len(z) : z[i] = y[i + 1]
    BY <1>1, <2>1, HeadTailProperties
  <2>3. Len(z) = m + 1 /\ (m + 1) + 1 = m + 2 /\ m + 1 \in 1 .. m + 1 /\ \A i \in 1 .. m : i \in 1 .. m + 1
    BY <1>1, <2>2
  <2> QED BY <1>1, <1>3, <2>2, <2>3
<1> HIDE DEF y, z
<1>8. \A i \in 1 .. m : z[i] # <<>>
  BY <1>3, <1>7, LineIs
<1>9. DOMAIN rows = 1 .. m /\ \A i \in 1 .. m : rows[i] = Body(t.rows[i])
  <2>1. z \in Seq(Seq(LineSigns))
    BY <1>7
  <2> HIDE DEF rows, m, U
  <2>2. m \in Nat /\ LastIsEmpty(z, m)
    BY <1>1, <1>7, <1>8 DEF LastIsEmpty
  <2>3. Leaves(NonEmpty(z), z, m)
    BY ONLY <2>1, <2>2, LastLineDropped
  <2>4. DOMAIN rows = 1 .. m /\ \A i \in 1 .. m : rows[i] = z[i]
    BY <2>3 DEF rows, Leaves
  <2> QED BY <1>7, <2>4
<1>10. \A i \in 1 .. m : ReadAll(Strings(rows[i], n)) = t.rows[i]
  <2> TAKE i \in 1 .. m
  <2> DEFINE F == t.rows[i]
  <2>1. F \in P /\ n = Len(F) /\ rows[i] = Body(F)
    BY <1>3, <1>9
  <2> HIDE DEF F, rows, n
  <2>2. ReadAll(Strings(Body(F), n)) = F
    BY <2>1, FieldsReadBack
  <2> QED BY <2>1, <2>2 DEF F
<1> HIDE DEF rows, n
<1>11. p.rows = [r \in 1 .. m |-> Strings(rows[r], n)]
  BY <1>5, <1>9
<1>12. [r \in DOMAIN p.rows |-> ReadAll(p.rows[r])] = [r \in 1 .. m |-> t.rows[r]]
  BY <1>10, <1>11
<1>13. t.rows = [r \in 1 .. m |-> t.rows[r]]
  <2>1. t.rows \in Seq(P)
    BY DEF Printable
  <2> HIDE DEF P
  <2> QED BY <2>1, LenProperties DEF m
<1> QED BY <1>6, <1>12, <1>13

-----------------------------------------------------------------------------
(* What ExchangeAssumption says of a table                                 *)

TableOf(t, C) ==
    /\ t.columns \in Pieces(C)
    /\ \A r \in ToSet(t.rows) : r \in Pieces(C) /\ Len(r) = Len(t.columns)

LEMMA TablesAre ==
    ASSUME NEW t \in Tables
    PROVE  /\ TableOf(t, Signs) /\ t.rows \in Seq(Pieces(Signs))
           /\ \A r \in ToSet(t.rows) : r \in Seq(Seq(STRING))
           /\ \A r \in ToSet(t.rows) : \A v \in ToSet(r) : ToSet(v) \cap (Eol \cup {Comma}) = {}
           /\ t.columns \in Seq(Seq(STRING))
<1> DEFINE V == Seq(Seq(STRING))
           W == Seq(Seq(Signs))
<1>1. V \subseteq W
  <2>1. STRING \subseteq Signs
    BY DEF Signs
  <2>2. Seq(STRING) \subseteq Seq(Signs)
    BY <2>1, SeqMonotonic
  <2> QED BY <2>2, SeqMonotonic
<1>2. /\ t.columns \in V /\ t.columns # <<>> /\ t.rows \in Seq(V)
      /\ \A r \in ToSet(t.rows) :
            /\ Len(r) = Len(t.columns)
            /\ \A v \in ToSet(r) : ToSet(v) \cap (Eol \cup {Comma}) = {}
  BY ExchangeAssumption
<1> HIDE DEF V
<1>3. DOMAIN t.rows = 1 .. Len(t.rows) /\ \A i \in 1 .. Len(t.rows) : t.rows[i] \in V
  BY <1>2, LenProperties, ElementOfSeq
<1>4. \A r \in ToSet(t.rows) : r \in V
  BY <1>3 DEF ToSet
<1>5. t.columns \in W /\ \A r \in ToSet(t.rows) : r \in W
  BY <1>1, <1>2, <1>4
<1> HIDE DEF W
<1>6. \A r \in ToSet(t.rows) : r # <<>>
  <2> TAKE r \in ToSet(t.rows)
  <2>1. Len(t.columns) # 0
    BY <1>2, EmptySeq
  <2>2. Len(r) = Len(t.columns)
    BY <1>2
  <2>3. Len(<<>>) = 0
    OBVIOUS
  <2> QED BY <2>1, <2>2, <2>3
<1>7. TableOf(t, Signs)
  BY <1>2, <1>5, <1>6 DEF TableOf, Pieces, W
<1>8. t.rows \in Seq(Pieces(Signs))
  <2>1. \A i \in 1 .. Len(t.rows) : t.rows[i] \in Pieces(Signs)
    BY <1>3, <1>7 DEF TableOf, ToSet
  <2> DEFINE P == Pieces(Signs)
             rows == t.rows
  <2>2. rows \in Seq(V) /\ \A i \in 1 .. Len(rows) : rows[i] \in P
    BY <1>2, <2>1
  <2> HIDE DEF P, rows
  <2>3. rows \in Seq(P)
    BY ONLY <2>2, SeqOver
  <2> QED BY <2>3 DEF P, rows
<1> QED BY <1>2, <1>4, <1>7, <1>8 DEF V

LEMMA CsvLineTyped == ASSUME NEW F \in Pieces(Signs) PROVE CsvLine(F) \in Seq(Signs)
<1> DEFINE b == Body(F)
<1>1. b \in Seq(Signs)
  BY SignsApart, BodyTyped
<1>2. CsvLine(F) = b \o <<"LF">>
  BY DEF CsvLine, Body
<1> HIDE DEF b
<1> QED BY <1>1, <1>2, SignsApart

LEMMA CsvTyped == ASSUME NEW t \in Tables PROVE Csv(t) \in Seq(Signs)
<1> DEFINE U == Seq(Signs)
           m == Len(t.rows)
           c == CsvLine(t.columns)
           s == [i \in DOMAIN t.rows |-> CsvLine(t.rows[i])]
<1>1. t.columns \in Pieces(Signs) /\ t.rows \in Seq(Pieces(Signs))
  BY TablesAre DEF TableOf
<1>2. m \in Nat /\ DOMAIN t.rows = 1 .. m /\ \A i \in 1 .. m : t.rows[i] \in Pieces(Signs)
  <2> DEFINE P == Pieces(Signs)
             rows == t.rows
  <2>1. rows \in Seq(P)
    BY <1>1
  <2> HIDE DEF P, rows
  <2>2. Len(rows) \in Nat /\ DOMAIN rows = 1 .. Len(rows) /\ \A i \in 1 .. Len(rows) : rows[i] \in P
    BY <2>1, LenProperties, ElementOfSeq
  <2> QED BY <2>2 DEF P, rows
<1>3. c \in U /\ \A i \in 1 .. m : s[i] \in U
  BY <1>1, <1>2, CsvLineTyped
<1>4. s \in Seq(U)
  <2>1. s = [i \in 1 .. m |-> s[i]]
    BY <1>2
  <2> HIDE DEF s, U
  <2>2. s \in [1 .. m -> U]
    BY <1>3, <2>1
  <2> QED BY <1>2, <2>2, FunctionIsSeq
<1>5. FlattenSeq(s) \in U
  <2> HIDE DEF s
  <2> QED BY <1>4, FlattenTyped
<1>6. Csv(t) = c \o FlattenSeq(s)
  BY DEF Csv
<1> HIDE DEF c, s
<1>7. c \o FlattenSeq(s) \in U
  <2> DEFINE d == FlattenSeq(s)
  <2>1. c \in Seq(Signs) /\ d \in Seq(Signs)
    BY <1>3, <1>5
  <2> HIDE DEF d
  <2>2. c \o d \in Seq(Signs)
    BY ONLY <2>1, Concatenated
  <2> QED BY <2>2 DEF d
<1> QED BY <1>6, <1>7

LEMMA DigitsAre == ToSet(Digits) = {"1", "2", "3", "4", "5", "6", "7", "8", "9"}
<1>1. DOMAIN Digits = 1 .. 9
  BY DEF Digits
<1>2. 1 .. 9 = {1, 2, 3, 4, 5, 6, 7, 8, 9}
  OBVIOUS
<1>3. ToSet(Digits) = {Digits[i] : i \in {1, 2, 3, 4, 5, 6, 7, 8, 9}}
  BY <1>1, <1>2 DEF ToSet
<1>4. /\ Digits[1] = "1" /\ Digits[2] = "2" /\ Digits[3] = "3" /\ Digits[4] = "4" /\ Digits[5] = "5"
      /\ Digits[6] = "6" /\ Digits[7] = "7" /\ Digits[8] = "8" /\ Digits[9] = "9"
  BY DEF Digits
<1> QED BY <1>3, <1>4

LEMMA NamesApart == NameChars \cap ({Comma} \cup Eol) = {}
<1>1. ToSet(Digits) = {"1", "2", "3", "4", "5", "6", "7", "8", "9"}
  BY DigitsAre
<1>2. Comma \notin {"1", "2", "3", "4", "5", "6", "7", "8", "9", "x", "y", "_"}
  BY Zenon DEF Comma
<1>3. {"1", "2", "3", "4", "5", "6", "7", "8", "9", "x", "y", "_"} \cap Eol = {}
  BY DEF Eol
<1> QED BY <1>1, <1>2, <1>3 DEF NameChars

(* The texts of a line are fields when they hold neither commas nor line   *)
(* ends.                                                                   *)
LEMMA FieldsOf ==
    ASSUME NEW F \in Seq(Seq(STRING)), F # <<>>,
           \A v \in ToSet(F) : ToSet(v) \cap (Eol \cup {Comma}) = {}
    PROVE  F \in Pieces(FieldSigns)
<1> DEFINE T == Seq(STRING)
           U == Seq(FieldSigns)
<1>1. \A i \in 1 .. Len(F) : F[i] \in T /\ ToSet(F[i]) \cap (Eol \cup {Comma}) = {}
  <2> HIDE DEF T
  <2>1. F \in Seq(T)
    BY DEF T
  <2>2. DOMAIN F = 1 .. Len(F) /\ \A i \in 1 .. Len(F) : F[i] \in T
    BY <2>1, LenProperties, ElementOfSeq
  <2>3. \A i \in 1 .. Len(F) : F[i] \in ToSet(F)
    BY <2>2 DEF ToSet
  <2> QED BY <2>2, <2>3
<1>2. STRING \ (Eol \cup {Comma}) \subseteq FieldSigns
  BY DEF FieldSigns, Signs
<1>3. \A i \in 1 .. Len(F) : F[i] \in U
  <2> TAKE i \in 1 .. Len(F)
  <2> DEFINE v == F[i]
  <2>1. v \in Seq(STRING) /\ ToSet(v) \cap (Eol \cup {Comma}) = {}
    BY <1>1
  <2> HIDE DEF v
  <2>2. \A j \in 1 .. Len(v) : v[j] \in STRING /\ v[j] \in ToSet(v)
    <3>1. DOMAIN v = 1 .. Len(v) /\ \A j \in 1 .. Len(v) : v[j] \in STRING
      BY <2>1, LenProperties, ElementOfSeq
    <3> QED BY <3>1 DEF ToSet
  <2>3. \A j \in 1 .. Len(v) : v[j] \in FieldSigns
    BY <1>2, <2>1, <2>2
  <2>4. v \in Seq(FieldSigns)
    BY ONLY <2>1, <2>3, SeqOver
  <2> QED BY <2>4 DEF v
<1>4. F \in Seq(U)
  <2> HIDE DEF U, T
  <2>1. F \in Seq(T)
    BY DEF T
  <2> QED BY ONLY <1>3, <2>1, SeqOver
<1> QED BY <1>4 DEF Pieces

(* A table that is shown                                                   *)
RowsFit(t) ==
    \A r \in 1 .. Len(t.rows) : Len(t.rows[r]) = Len(t.columns) /\ t.rows[r] # << <<>> >>

LEMMA ShownTable ==
    ASSUME NEW t \in Tables, Shown(t)
    PROVE  Printable(t) /\ Names(t.columns) /\ RowsFit(t)
<1> DEFINE C == t.columns
           rows == t.rows
           m == Len(rows)
           V == Seq(Seq(STRING))
           P == Pieces(FieldSigns)
           W == Pieces(Signs)
<1>1. /\ C \in V /\ C # <<>>
      /\ rows \in Seq(W)
      /\ \A r \in ToSet(rows) : /\ r \in V /\ r # <<>> /\ Len(r) = Len(C)
                                 /\ \A v \in ToSet(r) : ToSet(v) \cap (Eol \cup {Comma}) = {}
  BY TablesAre DEF TableOf, Pieces
<1>2. /\ \A name \in ToSet(C) : name # <<>> /\ ToSet(name) \subseteq NameChars
      /\ \A r \in ToSet(rows) : r # << <<>> >>
  BY DEF Shown
<1>3. DOMAIN rows = 1 .. m /\ m \in Nat /\ \A i \in 1 .. m : rows[i] \in ToSet(rows)
  <2> HIDE DEF W, rows
  <2>1. DOMAIN rows = 1 .. m /\ m \in Nat
    BY <1>1, LenProperties
  <2> QED BY <2>1 DEF ToSet
<1>4. DOMAIN C = 1 .. Len(C) /\ \A i \in 1 .. Len(C) : C[i] \in ToSet(C) /\ C[i] \in Seq(STRING)
  <2> DEFINE T == Seq(STRING)
  <2>1. C \in Seq(T)
    BY <1>1
  <2> HIDE DEF C, T
  <2>2. DOMAIN C = 1 .. Len(C) /\ \A i \in 1 .. Len(C) : C[i] \in T
    BY <2>1, LenProperties, ElementOfSeq
  <2>3. \A i \in 1 .. Len(C) : C[i] \in ToSet(C)
    BY <2>2 DEF ToSet
  <2> QED BY <2>2, <2>3 DEF T
<1>5. C \in P
  <2>1. \A v \in ToSet(C) : ToSet(v) \cap (Eol \cup {Comma}) = {}
    BY <1>2, NamesApart
  <2>2. C \in Seq(Seq(STRING))
    BY <1>1
  <2> HIDE DEF C
  <2> QED BY <1>1, <2>1, <2>2, FieldsOf
<1>6. rows \in Seq(P)
  <2>1. \A i \in 1 .. m : rows[i] \in P
    <3> TAKE i \in 1 .. m
    <3> DEFINE F == rows[i]
    <3>1. /\ F \in Seq(Seq(STRING)) /\ F # <<>>
          /\ \A v \in ToSet(F) : ToSet(v) \cap (Eol \cup {Comma}) = {}
      BY <1>1, <1>3
    <3> HIDE DEF F
    <3> QED BY <3>1, FieldsOf DEF F
  <2>2. rows \in Seq(W)
    BY <1>1
  <2> HIDE DEF W, P, rows
  <2> QED BY ONLY <2>1, <2>2, SeqOver DEF m
<1>7. Names(C)
  <2>1. \A i \in 1 .. Len(C) : C[i] # <<>> /\ C[i] \in Seq(NameChars)
    <3> TAKE i \in 1 .. Len(C)
    <3> DEFINE x == C[i]
    <3>1. x \in Seq(STRING) /\ x # <<>> /\ ToSet(x) \subseteq NameChars
      BY <1>2, <1>4
    <3> HIDE DEF x
    <3>2. x \in Seq(NameChars)
      BY ONLY <3>1, SeqOverSet
    <3> QED BY <3>1, <3>2 DEF x
  <2> QED BY <1>5, <2>1 DEF Names
<1>8. RowsFit(t)
  BY <1>1, <1>2, <1>3 DEF RowsFit
<1> QED BY <1>5, <1>6, <1>7, <1>8 DEF Printable

(* INSERT's answer names no column.                                        *)
LEMMA InsertedIs ==
    /\ Inserted \in Seq(Signs)
    /\ Projection(Inserted).columns = <<>>
<1> DEFINE w == <<"x", "SP", "x">>
           L == <<w>>
           E == <<Inserted>>
           x == Split(Inserted, "LF")
<1>1. "x" \in LineSigns /\ "SP" \in LineSigns
  BY DEF LineSigns, Signs, Eol
<1>2. w \in Seq(LineSigns) /\ Inserted = Append(w, "LF") /\ Avoids(w, "LF") /\ w[2] = "SP" /\ 2 \in DOMAIN w
  <2>1. w \in Seq(LineSigns) /\ Len(w) = 3 /\ w[1] = "x" /\ w[2] = "SP" /\ w[3] = "x" /\ DOMAIN w = 1 .. 3
    BY <1>1
  <2>2. Avoids(w, "LF")
    BY <2>1 DEF Avoids
  <2>3. Inserted = Append(w, "LF")
    BY DEF Inserted
  <2>4. 2 \in 1 .. 3
    OBVIOUS
  <2> QED BY <2>1, <2>2, <2>3, <2>4
<1> HIDE DEF w
<1>3. w \in Seq(Signs)
  BY <1>2, SignsApart, SeqMonotonic
<1>4. Inserted \in Seq(Signs)
  BY <1>2, <1>3, SignsApart
<1>5. x[1] = w /\ Len(x) = 2
  <2>1. /\ L \in Seq(Seq(Signs)) /\ Len(L) = 1 /\ L[1] = w
        /\ E \in Seq(Seq(Signs)) /\ Len(E) = 1 /\ E[1] = Inserted
    BY <1>3, <1>4
  <2>2. FlattenSeq(E) = Inserted
    BY <1>4, FlattenOne
  <2> HIDE DEF L, E
  <2>3. Marked(E, L, "LF", 1)
    BY <1>2, <2>1 DEF Marked
  <2>4. L \in Seq(Seq(Signs)) /\ E \in Seq(Seq(Signs)) /\ 1 = Len(L) /\ "LF" \in Signs
    BY <2>1, SignsApart
  <2>5. Beginning(Split(FlattenSeq(E), "LF"), L, 1)
    BY ONLY <2>3, <2>4, SplitLines
  <2> QED BY <2>1, <2>2, <2>5 DEF Beginning
<1>6. 1 \in DOMAIN x
  <2>1. x \in Seq(Seq(Signs))
    BY <1>4, SplitTyped, PiecesTyped
  <2> DEFINE U == Seq(Signs)
  <2>2. x \in Seq(U)
    BY <2>1
  <2> HIDE DEF x, U
  <2> QED BY <1>5, <2>2, LenProperties
<1>7. Lines(Inserted)[1] = w
  <2>1. TrimLine(w) = w
    BY <1>2, SignsApart, TrimNothing
  <2>2. Lines(Inserted) = [i \in DOMAIN x |-> TrimLine(x[i])]
    BY DEF Lines
  <2> HIDE DEF x
  <2> QED BY <1>5, <1>6, <2>1, <2>2
<1>8. ~IsIdentifierHeader(w)
  <2>1. "SP" \in ToSet(w)
    BY <1>2 DEF ToSet
  <2>2. "SP" # Comma
    BY Zenon DEF Comma
  <2>3. "SP" \notin NameChars
    <3>1. ToSet(Digits) = {"1", "2", "3", "4", "5", "6", "7", "8", "9"}
      BY DigitsAre
    <3> QED BY <3>1 DEF NameChars
  <2> QED BY <2>1, <2>2, <2>3 DEF IsIdentifierHeader
<1> QED BY <1>4, <1>7, <1>8 DEF Projection

-----------------------------------------------------------------------------
(* Replies                                                                 *)

(* What a reply is made of, by the kind of answer.                         *)
ReplyMade ==
    /\ reply = NoReply => answer = NoAnswer
    /\ answer.kind = "table" => answer.value \in Tables /\ reply = QueryBody(Csv(answer.value))
    /\ answer.kind = "inserted" => reply = QueryBody(Inserted)
    /\ answer.kind = "error" => answer.value \in Errors /\ reply.error = JsonEscape(answer.value)

LEMMA RepliesMade == ExchangeSpec => []ReplyMade
<1>1. ExchangeInit => ReplyMade
  BY DEF ExchangeInit, ReplyMade, NoAnswer
<1>2. ReplyMade /\ [ExchangeNext]_exchangeVars => ReplyMade'
  <2> SUFFICES ASSUME ReplyMade, [ExchangeNext]_exchangeVars PROVE ReplyMade'
    OBVIOUS
  <2>1. CASE UNCHANGED <<answer, reply>>
    BY <2>1 DEF ReplyMade
  <2>2. CASE MissingSql
    <3>1. answer' = NoAnswer /\ reply'.status = 400
      BY <2>2 DEF MissingSql, Asked, ReplyMade
    <3> QED BY <3>1 DEF ReplyMade, NoAnswer, NoReply
  <2>3. CASE \E t \in Tables : SelectAnswered(t)
    <3>1. PICK t \in Tables : SelectAnswered(t)
      BY <2>3
    <3>2. answer'.kind = "table" /\ answer'.value = t /\ reply' = QueryBody(Csv(t))
      BY <3>1 DEF SelectAnswered
    <3>3. QueryBody(Csv(t)).status = 200
      BY DEF QueryBody
    <3>4. reply' # NoReply
      BY <3>2, <3>3 DEF NoReply
    <3> QED BY <3>2, <3>4 DEF ReplyMade
  <2>4. CASE InsertAnswered
    <3>1. answer'.kind = "inserted" /\ reply' = QueryBody(Inserted)
      BY <2>4 DEF InsertAnswered
    <3>2. QueryBody(Inserted).status = 200
      BY DEF QueryBody
    <3>3. reply' # NoReply
      BY <3>1, <3>2 DEF NoReply
    <3> QED BY <3>1, <3>3 DEF ReplyMade
  <2>5. CASE \E m \in Errors : QueryFails(m)
    <3>1. PICK m \in Errors : QueryFails(m)
      BY <2>5
    <3>2. /\ answer'.kind = "error" /\ answer'.value = m
          /\ reply'.status = 400 /\ reply'.error = JsonEscape(m)
      BY <3>1 DEF QueryFails
    <3>3. reply' # NoReply
      BY <3>2 DEF NoReply
    <3> QED BY <3>2, <3>3 DEF ReplyMade
  <2>6. CASE FormatFails
    <3>1. answer'.kind = "lost" /\ reply'.status = 500
      BY <2>6 DEF FormatFails
    <3> QED BY <3>1 DEF ReplyMade, NoReply
  <2> QED BY <2>1, <2>2, <2>3, <2>4, <2>5, <2>6 DEF ExchangeNext, exchangeVars
<1> QED BY <1>1, <1>2, PTL DEF ExchangeSpec

(* Whatever table, INSERT or error the engine answers with, a JSON reader  *)
(* finds it in the reply: the CSV text and the message character by        *)
(* character, a table that is shown cell by cell (handle_query,            *)
(* format_query_body, json_escape, append_table_projection_json).          *)
THEOREM RepliesCarryAnswers == ExchangeSpec => []ReplyCarriesAnswer
<1>1. ReplyMade => ReplyCarriesAnswer
  <2> SUFFICES ASSUME ReplyMade PROVE ReplyCarriesAnswer
    OBVIOUS
  <2>1. ASSUME answer.kind = "table"
        PROVE  /\ ReadBack(reply.result) = Csv(answer.value)
               /\ Shown(answer.value) =>
                     /\ ReadAll(reply.columns) = answer.value.columns
                     /\ [r \in DOMAIN reply.rows |-> ReadAll(reply.rows[r])] = answer.value.rows
    <3> DEFINE t == answer.value
               p == Projection(Csv(t))
    <3>1. t \in Tables /\ reply = QueryBody(Csv(t))
      BY <2>1 DEF ReplyMade
    <3> HIDE DEF t
    <3>2. reply.result = JsonEscape(Csv(t)) /\ reply.columns = p.columns /\ reply.rows = p.rows
      BY <3>1 DEF QueryBody
    <3>3. ReadBack(reply.result) = Csv(t)
      BY <3>1, <3>2, CsvTyped, ReadEscaped
    <3>4. ASSUME Shown(t)
          PROVE  /\ ReadAll(p.columns) = t.columns
                 /\ [r \in DOMAIN p.rows |-> ReadAll(p.rows[r])] = t.rows
      <4>1. Printable(t) /\ Names(t.columns) /\ RowsFit(t)
        BY <3>1, <3>4, ShownTable
      <4> QED BY <4>1, ProjectionReadBack DEF RowsFit
    <3> HIDE DEF p
    <3> QED BY <3>2, <3>3, <3>4 DEF t
  <2>2. ASSUME answer.kind = "inserted"
        PROVE  ReadBack(reply.result) = Inserted /\ reply.columns = <<>>
    <3>1. reply.result = JsonEscape(Inserted) /\ reply.columns = Projection(Inserted).columns
      BY <2>2 DEF ReplyMade, QueryBody
    <3> QED BY <3>1, InsertedIs, ReadEscaped
  <2>3. ASSUME answer.kind = "error" PROVE ReadBack(reply.error) = answer.value
    <3>1. answer.value \in Seq(STRING) /\ reply.error = JsonEscape(answer.value)
      BY <2>3, ExchangeAssumption DEF ReplyMade
    <3>2. STRING \subseteq Signs
      BY DEF Signs
    <3>3. answer.value \in Seq(Signs)
      BY <3>1, <3>2, SeqMonotonic
    <3> QED BY <3>1, <3>3, ReadEscaped
  <2> QED BY <2>1, <2>2, <2>3 DEF ReplyCarriesAnswer
<1> QED BY <1>1, RepliesMade, PTL

-----------------------------------------------------------------------------
(* Spaces and keys                                                         *)

LEMMA NoSpaces == Quote \notin Space /\ ":" \notin Space /\ Brace \notin Space
<1>1. Quote \notin Space /\ ":" \notin Space
  BY DEF Space, Blank, Eol, Quote
<1>2. Brace \notin Space
  BY Zenon DEF Space, Blank, Eol, Brace
<1> QED BY <1>1, <1>2

(* Skip stops at the next character that is not a space.                   *)
LEMMA SkipIsNext ==
    ASSUME NEW S, NEW b \in Seq(S), NEW i \in Nat \ {0}, NEW j, NEW c, c \notin Space, NextIs(b, i, j, c)
    PROVE  Skip(b, i, Space) = j
<1> DEFINE T == {m \in i .. Len(b) : b[m] \notin Space}
<1>1. Len(b) \in Nat
  OBVIOUS
<1>2. j \in i .. Len(b) /\ b[j] = c /\ \A m \in i .. j - 1 : b[m] \in Space
  BY DEF NextIs
<1>3. T \in SUBSET Nat /\ j \in T
  BY <1>1, <1>2
<1>4. \A m \in T : j <= m
  <2> SUFFICES ASSUME NEW m \in i .. Len(b), b[m] \notin Space PROVE j <= m
    OBVIOUS
  <2>1. m < j => m \in i .. j - 1
    BY <1>1, <1>2
  <2> QED BY <1>1, <1>2, <2>1
<1>5. Skip(b, i, Space) = First(T, Len(b) + 1)
  BY DEF Skip
<1> HIDE DEF T
<1>6. First(T, Len(b) + 1) = Min(T)
  BY <1>3 DEF First
<1>7. Min(T) = j
  BY <1>3, <1>4, MinUnique
<1> QED BY <1>5, <1>6, <1>7

LEMMA NextIsSkip ==
    ASSUME NEW S, NEW b \in Seq(S), NEW i \in Nat \ {0}, NEW j, j = Skip(b, i, Space), j \in DOMAIN b
    PROVE  NextIs(b, i, j, b[j])
<1> DEFINE T == {m \in i .. Len(b) : b[m] \notin Space}
<1>1. Len(b) \in Nat /\ DOMAIN b = 1 .. Len(b)
  BY LenProperties
<1>2. j = First(T, Len(b) + 1)
  BY DEF Skip
<1>3. T \in SUBSET Nat
  BY <1>1
<1>4. T # {}
  <2>1. j # Len(b) + 1
    BY <1>1
  <2> HIDE DEF T
  <2> QED BY <1>2, <2>1 DEF First
<1>5. j \in T /\ \A m \in T : j <= m
  <2> HIDE DEF T
  <2>1. j = Min(T)
    BY <1>2, <1>4 DEF First
  <2> QED BY <1>3, <1>4, <2>1, MinIsLeast
<1>6. j \in i .. Len(b)
  BY <1>5
<1>7. \A m \in i .. j - 1 : b[m] \in Space
  <2> SUFFICES ASSUME NEW m \in i .. j - 1, b[m] \notin Space PROVE FALSE
    OBVIOUS
  <2>1. m \in T /\ m < j
    BY <1>1, <1>6
  <2> QED BY <1>1, <1>5, <1>6, <2>1
<1> QED BY <1>6, <1>7 DEF NextIs

(* The keys that are found are those with a string for a value.            *)
LEMMA ValueOfField ==
    ASSUME NEW S, NEW b \in Seq(S), NEW k \in 1 .. Len(b) - 5, NEW q \in DOMAIN b, FieldAt(b, k, q)
    PROVE  k \in SqlKeys(b) /\ ValueStart(b, k) = q + 1
<1>1. Len(b) \in Nat /\ DOMAIN b = 1 .. Len(b)
  BY LenProperties
<1>2. PICK colon \in DOMAIN b : NextIs(b, k + 5, colon, ":") /\ NextIs(b, colon + 1, q, Quote)
  BY DEF FieldAt
<1>3. k + 5 \in Nat \ {0} /\ colon + 1 \in Nat \ {0}
  BY <1>1
<1>4. Skip(b, k + 5, Space) = colon /\ Skip(b, colon + 1, Space) = q
  BY <1>2, <1>3, NoSpaces, SkipIsNext
<1>5. Holds(b, colon, ":") /\ Holds(b, q, Quote)
  BY <1>2 DEF Holds, NextIs
<1>6. ValueStart(b, k) = q + 1
  BY <1>4, <1>5 DEF ValueStart
<1>7. SubSeq(b, k, k + 4) = SqlKey
  BY DEF FieldAt
<1>8. q + 1 # 0
  BY <1>1
<1> QED BY <1>6, <1>7, <1>8 DEF SqlKeys

LEMMA FieldOfValue ==
    ASSUME NEW S, NEW b \in Seq(S), NEW k \in SqlKeys(b)
    PROVE  k \in 1 .. Len(b) - 5 /\ \E q \in DOMAIN b : FieldAt(b, k, q)
<1>1. Len(b) \in Nat /\ DOMAIN b = 1 .. Len(b)
  BY LenProperties
<1>2. k \in 1 .. Len(b) - 5 /\ SubSeq(b, k, k + 4) = SqlKey /\ ValueStart(b, k) # 0
  BY DEF SqlKeys
<1> DEFINE colon == Skip(b, k + 5, Space)
           q == Skip(b, colon + 1, Space)
<1>3. Holds(b, colon, ":") /\ Holds(b, q, Quote)
  BY <1>2 DEF ValueStart
<1>4. colon \in DOMAIN b /\ b[colon] = ":" /\ q \in DOMAIN b /\ b[q] = Quote
  BY <1>3 DEF Holds
<1>5. k + 5 \in Nat \ {0} /\ colon + 1 \in Nat \ {0}
  BY <1>1, <1>2, <1>4
<1>6. NextIs(b, k + 5, colon, ":")
  BY <1>4, <1>5, NextIsSkip
<1>7. NextIs(b, colon + 1, q, Quote)
  BY <1>4, <1>5, NextIsSkip
<1> QED BY <1>2, <1>4, <1>6, <1>7 DEF FieldAt

(* The first field is the one that is taken.                               *)
LEMMA FirstField ==
    ASSUME NEW S, NEW b \in Seq(S), NEW k \in 1 .. Len(b) - 5, NEW q \in DOMAIN b, FieldAt(b, k, q),
           \A j \in 1 .. k - 1 : \A p \in DOMAIN b : ~FieldAt(b, j, p)
    PROVE  ExtractJson(b) = StringFrom(b, q + 1)
<1>1. k \in SqlKeys(b) /\ ValueStart(b, k) = q + 1
  BY ValueOfField
<1>2. SqlKeys(b) \in SUBSET Nat
  BY DEF SqlKeys
<1>3. \A j \in SqlKeys(b) : k <= j
  <2> SUFFICES ASSUME NEW j \in SqlKeys(b), ~(k <= j) PROVE FALSE
    OBVIOUS
  <2>1. j \in 1 .. Len(b) - 5 /\ \E p \in DOMAIN b : FieldAt(b, j, p)
    BY FieldOfValue
  <2>2. j \in 1 .. k - 1
    BY <2>1
  <2> QED BY <2>1, <2>2
<1>4. Min(SqlKeys(b)) = k
  BY <1>1, <1>2, <1>3, MinUnique
<1> QED BY <1>1, <1>4 DEF ExtractJson

-----------------------------------------------------------------------------
(* A string value                                                          *)

ScanRule(b, j, g) ==
    IF j > Len(b) THEN NoText
    ELSE IF b[j] = Quote THEN <<>>
    ELSE IF b[j] = Backslash /\ j < Len(b) THEN Joined(Unescaped(b[j + 1]), g[j + 2])
    ELSE Joined(b[j], g[j + 1])

LEMMA ScanEscape ==
    ASSUME NEW b, NEW d, NEW g, ~(d > Len(b)), b[d] = Backslash, d < Len(b)
    PROVE  ScanRule(b, d, g) = Joined(Unescaped(b[d + 1]), g[d + 2])
<1>1. Backslash # Quote
  BY DEF Backslash, Quote
<1> QED BY <1>1 DEF ScanRule

LEMMA ScanExists ==
    ASSUME NEW b \in Seq(Signs)
    PROVE  \E g : g = [j \in 1 .. Len(b) + 1 |-> ScanRule(b, j, g)]
<1> DEFINE m == Len(b) + 1
           C == Signs
           S == Seq(C) \cup {NoText}
           F == [1 .. m -> S]
           step == [i \in 1 .. m |-> [g \in F |-> ScanRule(b, i, g)]]
<1>1. m \in Nat /\ Len(b) \in Nat /\ m = Len(b) + 1
  OBVIOUS
<1>2. \A i \in 1 .. Len(b) : b[i] \in C /\ Unescaped(b[i]) \in C
  <2>1. \A i \in 1 .. Len(b) : b[i] \in Signs
    BY ElementOfSeq
  <2>2. {"LF", "CR", "TAB"} \subseteq Signs
    BY DEF Signs, Control, Eol
  <2> QED BY <2>1, <2>2 DEF Unescaped
<1>3. \A x \in C : \A r \in S : Joined(x, r) \in S
  <2> TAKE x \in C
  <2> TAKE r \in S
  <2>1. CASE r = NoText
    BY <2>1 DEF Joined
  <2>2. CASE r # NoText
    <3>1. r \in Seq(C)
      BY <2>2
    <3>2. <<x>> \o r \in Seq(C)
      <4> HIDE DEF C
      <4> QED BY <3>1
    <3> QED BY <2>2, <3>2 DEF Joined
  <2> QED BY <2>1, <2>2
<1>4. <<>> \in S /\ NoText \in S
  <2> HIDE DEF C
  <2> QED OBVIOUS
<1> HIDE DEF C, S
<1>5. ASSUME NEW i \in 1 .. m, NEW g \in F PROVE ScanRule(b, i, g) \in S
  <2>1. CASE i > Len(b)
    BY <1>4, <2>1 DEF ScanRule
  <2>2. CASE i <= Len(b)
    <3>1. i \in 1 .. Len(b) /\ ~(i > Len(b)) /\ i + 1 \in 1 .. m
      BY <1>1, <2>2
    <3>2. CASE b[i] = Quote
      BY <1>4, <3>1, <3>2 DEF ScanRule
    <3>3. CASE b[i] # Quote /\ b[i] = Backslash /\ i < Len(b)
      <4>1. ScanRule(b, i, g) = Joined(Unescaped(b[i + 1]), g[i + 2])
        BY <3>1, <3>3 DEF ScanRule
      <4>2. i + 1 \in 1 .. Len(b) /\ i + 2 \in 1 .. m
        BY <1>1, <3>1, <3>3
      <4>3. g[i + 2] \in S /\ Unescaped(b[i + 1]) \in C
        BY <1>2, <4>2
      <4> QED BY <1>3, <4>1, <4>3
    <3>4. CASE b[i] # Quote /\ ~(b[i] = Backslash /\ i < Len(b))
      <4>1. ScanRule(b, i, g) = Joined(b[i], g[i + 1])
        BY <3>1, <3>4 DEF ScanRule
      <4>2. g[i + 1] \in S /\ b[i] \in C
        BY <1>2, <3>1
      <4> QED BY <1>3, <4>1, <4>2
    <3> QED BY <3>2, <3>3, <3>4
  <2>3. i > Len(b) \/ i <= Len(b)
    BY <1>1
  <2> QED BY <2>1, <2>2, <2>3
<1>6. ASSUME NEW i \in 1 .. m, NEW g \in F, NEW h \in F, \A j \in i + 1 .. m : g[j] = h[j]
      PROVE  ScanRule(b, i, g) = ScanRule(b, i, h)
  <2>1. i <= Len(b) => i + 1 \in i + 1 .. m
    BY <1>1
  <2>2. i < Len(b) => i + 2 \in i + 1 .. m
    BY <1>1
  <2>3. i > Len(b) \/ i = Len(b) \/ i < Len(b)
    BY <1>1
  <2>4. CASE i > Len(b)
    BY <2>4 DEF ScanRule
  <2>5. CASE i = Len(b)
    <3>1. g[i + 1] = h[i + 1] /\ ~(i < Len(b))
      BY <1>1, <1>6, <2>1, <2>5
    <3> QED BY <2>5, <3>1 DEF ScanRule
  <2>6. CASE i < Len(b)
    <3>1. g[i + 1] = h[i + 1] /\ g[i + 2] = h[i + 2]
      BY <1>1, <1>6, <2>1, <2>2, <2>6
    <3> QED BY <2>6, <3>1 DEF ScanRule
  <2> QED BY <2>3, <2>4, <2>5, <2>6
<1> HIDE DEF F, m
<1>7. step \in [1 .. m -> [F -> S]] /\ \A i \in 1 .. m : \A g \in F : step[i][g] = ScanRule(b, i, g)
  BY <1>5
<1> HIDE DEF step
<1>8. \A i \in 1 .. m : \A g, h \in F :
         (\A j \in i + 1 .. m : g[j] = h[j]) => step[i][g] = step[i][h]
  BY <1>6, <1>7
<1>9. IsBackward(step, S, m)
  BY <1>7, <1>8 DEF IsBackward, F
<1>10. PICK g : SolvesBackward(g, step, S, m)
  BY ONLY <1>1, <1>4, <1>9, BackwardRecursion
<1>11. g \in F /\ \A i \in 1 .. m : g[i] = ScanRule(b, i, g)
  BY <1>7, <1>10 DEF SolvesBackward, F
<1>12. g = [i \in 1 .. m |-> ScanRule(b, i, g)]
  BY <1>11 DEF F
<1> QED BY <1>12 DEF m

(* The escapes the loop knows stand for what it makes of them.             *)
LEMMA UnderstoodIs ==
    ASSUME NEW c, Named(c, Understood) # NoText
    PROVE  Unescaped(c) = Named(c, Understood)
<1>1. c \in {Quote, Backslash, "/", "n", "r", "t"}
  BY DEF Named, Understood, Escapes
<1>2. Named(c, Understood) = Meaning(c)
  BY DEF Named
<1>3. Unescaped(c) = Meaning(c)
  <2>1. CASE c \in {Quote, Backslash, "/"}
    BY <2>1 DEF Unescaped, Meaning, Quote, Backslash
  <2>2. CASE c \in {"n", "r", "t"}
    BY <2>2 DEF Unescaped, Meaning, Quote, Backslash
  <2> QED BY <1>1, <2>1, <2>2
<1> QED BY <1>2, <1>3

(* A text of characters begins with one and goes on with such a text.      *)
LEMMA TextParts ==
    ASSUME NEW x \in Signs, NEW s \in Seq(Signs), <<x>> \o s \in Seq(STRING)
    PROVE  x \in STRING /\ s \in Seq(STRING) /\ x # NoText /\ s # NoText
<1> DEFINE t == <<x>> \o s
           n == Len(s)
<1>1. /\ n \in Nat /\ Len(t) = n + 1 /\ t[1] = x
      /\ \A i \in 1 .. n : t[i + 1] = s[i]
  <2> DEFINE U == Signs
  <2> HIDE DEF U
  <2> QED OBVIOUS
<1>2. t \in Seq(STRING)
  OBVIOUS
<1> HIDE DEF t
<1>3. \A i \in 1 .. n + 1 : t[i] \in STRING
  BY <1>1, <1>2, ElementOfSeq
<1>4. 1 \in 1 .. n + 1 /\ \A i \in 1 .. n : i + 1 \in 1 .. n + 1
  BY <1>1
<1>5. x \in STRING /\ \A i \in 1 .. n : s[i] \in STRING
  BY <1>1, <1>3, <1>4
<1>6. s \in Seq(STRING)
  BY <1>1, <1>5, SeqOver
<1> QED BY <1>5, <1>6, HttpAssumption

(* Between the quotes, where the reader finds characters only, the loop    *)
(* takes the same ones.                                                    *)
QuotedAt(b, q, raw) ==
    /\ q + Len(raw) < Len(b) /\ b[q + Len(raw) + 1] = Quote
    /\ \A j \in 1 .. Len(raw) : b[q + j] = raw[j]

Agrees(h, g, q, i) ==
    /\ h[i] \in Seq(Signs)
    /\ h[i] \in Seq(STRING) => g[q + i] = h[i]

LEMMA ReaderAgrees ==
    ASSUME NEW b \in Seq(Signs), NEW q \in Nat, NEW raw \in Seq(Signs), QuotedAt(b, q, raw),
           Read(raw, Understood) \in Seq(STRING)
    PROVE  StringFrom(b, q + 1) = Read(raw, Understood)
<1> DEFINE l == Len(raw)
           h == CHOOSE h : h = [i \in 1 .. Len(raw) + 1 |-> ReadRule(raw, Understood, i, h)]
           g == CHOOSE g : g = [j \in 1 .. Len(b) + 1 |-> ScanRule(b, j, g)]
<1>1. Read(raw, Understood) = h[1] /\ StringFrom(b, q + 1) = g[q + 1]
  BY DEF Read, ReadRule, Named, StringFrom, ScanRule
<1>2. h = [i \in 1 .. Len(raw) + 1 |-> ReadRule(raw, Understood, i, h)]
  BY ReadExists
<1>3. g = [j \in 1 .. Len(b) + 1 |-> ScanRule(b, j, g)]
  BY ScanExists
<1> HIDE DEF g, h
<1>4. \A i \in 1 .. Len(raw) + 1 : h[i] = ReadRule(raw, Understood, i, h)
  BY <1>2
<1>5. \A j \in 1 .. Len(b) + 1 : g[j] = ScanRule(b, j, g)
  BY <1>3
<1>6. /\ l \in Nat /\ Len(b) \in Nat /\ q + l < Len(b) /\ b[q + l + 1] = Quote
      /\ \A j \in 1 .. l : b[q + j] = raw[j] /\ raw[j] \in Signs
  BY LenProperties, ElementOfSeq DEF QuotedAt
<1>7. Backslash # Quote
  BY DEF Backslash, Quote
<1> DEFINE T == {i \in 1 .. l + 1 : Agrees(h, g, q, i)}
<1>8. ASSUME NEW i \in 1 .. l + 1, \A j \in i + 1 .. l + 1 : j \in T
      PROVE  i \in T
  <2>1. i \in Nat /\ q + i \in 1 .. Len(b) /\ ~(q + i > Len(b))
    BY <1>6
  <2>2. h[i] = ReadRule(raw, Understood, i, h)
    BY <1>4
  <2>3. g[q + i] = ScanRule(b, q + i, g)
    BY <1>5, <1>6, <2>1
  <2> SUFFICES /\ h[i] \in Seq(Signs)
               /\ h[i] \in Seq(STRING) => g[q + i] = h[i]
    BY DEF Agrees
  <2>4. \A j \in i + 1 .. l + 1 : Agrees(h, g, q, j)
    BY <1>8
  <2>5. CASE i > l
    <3>1. h[i] = <<>>
      BY <2>2, <2>5 DEF ReadRule
    <3>2. i = l + 1 /\ q + i = q + l + 1
      <4>1. l \in Nat /\ i \in 1 .. l + 1 /\ i > l
        BY <1>6, <2>5
      <4> HIDE DEF l
      <4> QED BY <4>1
    <3>3. g[q + i] = <<>>
      BY <1>6, <2>1, <2>3, <3>2 DEF ScanRule
    <3> QED BY <3>1, <3>3, EmptySeq
  <2>6. ASSUME i <= l PROVE i \in 1 .. l /\ ~(i > Len(raw)) /\ b[q + i] = raw[i] /\ raw[i] \in Signs
    BY <1>6, <2>6
  <2>7. CASE i <= l /\ (raw[i] \in {Quote} \cup Control \/ (i = Len(raw) /\ raw[i] = Backslash))
    <3>1. h[i] = <<NoText>>
      BY <2>2, <2>6, <2>7 DEF ReadRule
    <3>2. NoText \in Signs
      BY DEF Signs
    <3>3. <<NoText>> \in Seq(Signs) /\ Len(<<NoText>>) = 1 /\ <<NoText>>[1] = NoText
      BY <3>2, OneSign
    <3>4. <<NoText>> \notin Seq(STRING)
      BY <3>3, ElementOfSeq, HttpAssumption
    <3> QED BY <3>1, <3>3, <3>4
  <2>8. CASE /\ i <= l /\ raw[i] = Backslash
             /\ ~(raw[i] \in {Quote} \cup Control \/ (i = Len(raw) /\ raw[i] = Backslash))
    <3> DEFINE c == raw[i + 1]
               x == Named(c, Understood)
    <3>1. h[i] = <<x>> \o h[i + 2]
      BY <2>2, <2>6, <2>8 DEF ReadRule
    <3>2. /\ i + 2 \in i + 1 .. l + 1 /\ i + 1 \in 1 .. l /\ q + i < Len(b)
          /\ (q + i) + 1 = q + (i + 1) /\ (q + i) + 2 = q + (i + 2)
      <4> DEFINE w == Len(b)
      <4>1. i \in Nat /\ q \in Nat /\ l \in Nat /\ w \in Nat /\ q + l < w /\ i <= l /\ i # l /\ i \in 1 .. l
        BY <1>6, <2>1, <2>6, <2>8
      <4> HIDE DEF l, w
      <4>2. q + i < w
        BY <4>1
      <4>3. /\ i + 2 \in i + 1 .. l + 1 /\ i + 1 \in 1 .. l
            /\ (q + i) + 1 = q + (i + 1) /\ (q + i) + 2 = q + (i + 2)
        BY <4>1
      <4> QED BY ONLY <4>2, <4>3 DEF w, l
    <3>3. b[(q + i) + 1] = c
      <4>1. i + 1 \in 1 .. l /\ (q + i) + 1 = q + (i + 1)
        BY <3>2
      <4>2. \A j \in 1 .. l : b[q + j] = raw[j]
        BY <1>6
      <4> HIDE DEF l
      <4>3. b[q + (i + 1)] = raw[i + 1]
        BY <4>1, <4>2
      <4> QED BY <4>1, <4>3
    <3>4. g[q + i] = Joined(Unescaped(c), g[(q + i) + 2])
      <4>1. b[q + i] = Backslash
        BY <2>6, <2>8
      <4>2. ScanRule(b, q + i, g) = Joined(Unescaped(b[(q + i) + 1]), g[(q + i) + 2])
        BY ONLY <2>1, <3>2, <4>1, ScanEscape
      <4> QED BY <2>3, <3>3, <4>2
    <3>5. h[i + 2] \in Seq(Signs) /\ (h[i + 2] \in Seq(STRING) => g[(q + i) + 2] = h[i + 2])
      <4>1. Agrees(h, g, q, i + 2)
        BY <2>4, <3>2
      <4> QED BY <3>2, <4>1 DEF Agrees
    <3>6. x \in Signs
      BY NamedIs
    <3> HIDE DEF x, c
    <3>7. <<x>> \o h[i + 2] \in Seq(Signs)
      BY <3>5, <3>6, Behind
    <3>8. ASSUME <<x>> \o h[i + 2] \in Seq(STRING) PROVE g[q + i] = <<x>> \o h[i + 2]
      <4>1. h[i + 2] \in Seq(STRING) /\ x # NoText /\ h[i + 2] # NoText
        BY <3>5, <3>6, <3>8, TextParts
      <4>2. Unescaped(c) = x
        BY <4>1, UnderstoodIs DEF x
      <4> QED BY <3>4, <3>5, <4>1, <4>2 DEF Joined
    <3> QED BY <3>1, <3>7, <3>8
  <2>9. CASE /\ i <= l /\ raw[i] # Backslash
             /\ ~(raw[i] \in {Quote} \cup Control \/ (i = Len(raw) /\ raw[i] = Backslash))
    <3> DEFINE x == raw[i]
    <3>1. h[i] = <<x>> \o h[i + 1]
      BY <2>2, <2>6, <2>9 DEF ReadRule
    <3>2. i + 1 \in i + 1 .. l + 1 /\ (q + i) + 1 = q + (i + 1)
      BY <1>6, <2>1, <2>9
    <3>3. g[q + i] = Joined(x, g[(q + i) + 1])
      BY <2>1, <2>3, <2>6, <2>9 DEF ScanRule
    <3>4. h[i + 1] \in Seq(Signs) /\ (h[i + 1] \in Seq(STRING) => g[(q + i) + 1] = h[i + 1])
      <4>1. Agrees(h, g, q, i + 1)
        BY <2>4, <3>2
      <4> QED BY <3>2, <4>1 DEF Agrees
    <3>5. x \in Signs
      BY <2>6, <2>9
    <3> HIDE DEF x
    <3>6. <<x>> \o h[i + 1] \in Seq(Signs)
      BY <3>4, <3>5, Behind
    <3>7. ASSUME <<x>> \o h[i + 1] \in Seq(STRING) PROVE g[q + i] = <<x>> \o h[i + 1]
      <4>1. h[i + 1] \in Seq(STRING) /\ h[i + 1] # NoText
        BY <3>4, <3>5, <3>7, TextParts
      <4> QED BY <3>3, <3>4, <4>1 DEF Joined
    <3> QED BY <3>1, <3>6, <3>7
  <2>10. i > l \/ i <= l
    BY <1>6, <2>1
  <2> QED BY <2>5, <2>7, <2>8, <2>9, <2>10
<1> HIDE DEF T
<1>9. l + 1 \in Nat /\ 1 \in 1 .. l + 1
  BY <1>6
<1>10. 1 \in T
  BY <1>8, <1>9, DownwardIn
<1>11. h[1] \in Seq(STRING) => g[q + 1] = h[1]
  BY <1>10 DEF T, Agrees
<1> QED BY <1>1, <1>11

-----------------------------------------------------------------------------
(* What the client means is what is taken from the body                    *)

LEMMA JsonTaken ==
    ASSUME NEW b \in Seq(Signs), NEW t \in Seq(STRING), JsonMeans(b, t, Understood)
    PROVE  ExtractSqlText(b) = t
<1>1. Len(b) \in Nat /\ DOMAIN b = 1 .. Len(b)
  BY LenProperties
<1>2. PICK i \in DOMAIN b : NextIs(b, 1, i, Brace)
  BY DEF JsonMeans
<1>3. PICK k \in 1 .. Len(b) - 5, q \in DOMAIN b :
         /\ FieldAt(b, k, q)
         /\ \A j \in 1 .. k - 1 : \A p \in DOMAIN b : ~FieldAt(b, j, p)
         /\ \E z \in q + 1 .. Len(b) :
               b[z] = Quote /\ Read(SubSeq(b, q + 1, z - 1), Understood) = t
  BY DEF JsonMeans
<1>4. Skip(b, 1, Space) = i
  BY <1>2, NoSpaces, SkipIsNext
<1>5. Holds(b, i, Brace)
  BY <1>2 DEF Holds, NextIs
<1>6. ExtractSqlText(b) = ExtractJson(b)
  BY <1>4, <1>5 DEF ExtractSqlText
<1>7. ExtractJson(b) = StringFrom(b, q + 1)
  BY <1>3, FirstField
<1>8. PICK z \in q + 1 .. Len(b) : b[z] = Quote /\ Read(SubSeq(b, q + 1, z - 1), Understood) = t
  BY <1>3
<1> DEFINE raw == SubSeq(b, q + 1, z - 1)
<1>9. q \in Nat /\ z \in Nat /\ q + 1 \in Nat \ {0} /\ z - 1 \in Int
  BY <1>1
<1>10. \A m \in q + 1 .. z - 1 : m \in 1 .. Len(b) /\ b[m] \in Signs
  <2>1. \A m \in q + 1 .. z - 1 : m \in 1 .. Len(b)
    BY <1>1, <1>9
  <2> QED BY <2>1, ElementOfSeq
<1>11. /\ raw \in Seq(Signs) /\ Len(raw) = z - 1 - q
       /\ \A j \in 1 .. z - 1 - q : raw[j] = b[q + j]
  <2>1. /\ raw \in Seq(Signs)
        /\ Len(raw) = IF q + 1 <= z - 1 THEN z - 1 - (q + 1) + 1 ELSE 0
        /\ \A j \in 1 .. z - 1 - (q + 1) + 1 : raw[j] = b[q + 1 + j - 1]
    BY <1>9, <1>10, SubSeqProperties
  <2>2. /\ z - 1 - (q + 1) + 1 = z - 1 - q
        /\ (IF q + 1 <= z - 1 THEN z - 1 - (q + 1) + 1 ELSE 0) = z - 1 - q
        /\ \A j \in 1 .. z - 1 - q : q + 1 + j - 1 = q + j
    BY <1>1, <1>9
  <2> HIDE DEF raw
  <2> QED BY <2>1, <2>2
<1>12. QuotedAt(b, q, raw)
  <2> DEFINE n == Len(raw)
  <2>1. n = z - 1 - q /\ \A j \in 1 .. n : raw[j] = b[q + j]
    BY <1>11
  <2> HIDE DEF n
  <2>2. q + n < Len(b) /\ q + n + 1 = z
    <3> DEFINE w == Len(b)
    <3>1. w \in Nat /\ q \in Nat /\ z \in Nat /\ z <= w
      BY <1>1, <1>9
    <3>2. n = z - 1 - q
      BY <2>1
    <3> HIDE DEF w
    <3>3. q + (z - 1 - q) < w /\ q + (z - 1 - q) + 1 = z
      BY <3>1
    <3> QED BY <3>2, <3>3 DEF w
  <2> QED BY <1>8, <2>1, <2>2 DEF QuotedAt, n
<1> HIDE DEF raw
<1>13. Read(raw, Understood) = t
  BY <1>8 DEF raw
<1>14. StringFrom(b, q + 1) = t
  BY <1>9, <1>11, <1>12, <1>13, ReaderAgrees
<1> QED BY <1>6, <1>7, <1>14

LEMMA PlainTaken ==
    ASSUME NEW b \in Seq(Signs), NEW t, PlainMeans(b, t)
    PROVE  ExtractSqlText(b) = t
<1>1. Len(b) \in Nat /\ DOMAIN b = 1 .. Len(b)
  BY LenProperties
<1>2. PICK i \in DOMAIN b, j \in DOMAIN b :
        /\ i <= j /\ t = SubSeq(b, i, j)
        /\ b[i] \notin Space \cup {Brace} /\ b[j] \notin Space
        /\ \A m \in DOMAIN b : m < i \/ m > j => b[m] \in Space
  BY DEF PlainMeans
<1> DEFINE T == {m \in DOMAIN b : b[m] \notin Space}
<1>3. T \in SUBSET Nat /\ T \in SUBSET (0 .. Len(b)) /\ i \in T /\ j \in T
  BY <1>1, <1>2
<1>4. \A m \in T : i <= m /\ m <= j
  <2> SUFFICES ASSUME NEW m \in DOMAIN b, b[m] \notin Space PROVE i <= m /\ m <= j
    OBVIOUS
  <2>1. ~(m < i \/ m > j)
    BY <1>2
  <2>2. m \in Nat /\ i \in Nat /\ j \in Nat
    BY <1>1
  <2> QED BY <2>1, <2>2
<1>5. Trim(b, Space) = IF T = {} THEN <<>> ELSE SubSeq(b, Min(T), Max(T))
  BY DEF Trim
<1>6. NextIs(b, 1, i, b[i])
  <2>1. i \in 1 .. Len(b)
    BY <1>1
  <2>2. \A m \in 1 .. i - 1 : b[m] \in Space
    <3> SUFFICES ASSUME NEW m \in 1 .. i - 1 PROVE b[m] \in Space
      OBVIOUS
    <3>1. m \in DOMAIN b /\ m < i
      BY <1>1, <2>1
    <3> QED BY <1>2, <3>1
  <2> QED BY <2>1, <2>2 DEF NextIs
<1> HIDE DEF T
<1>7. Min(T) = i
  BY <1>3, <1>4, MinUnique
<1>8. Max(T) = j
  <2>1. T # {}
    BY <1>3
  <2>2. Max(T) \in T /\ \A m \in T : m <= Max(T)
    BY <1>1, <1>3, <2>1, MaxIsGreatest
  <2>3. Max(T) \in Nat /\ j \in Nat /\ Max(T) <= j /\ j <= Max(T)
    BY <1>3, <1>4, <2>2
  <2> QED BY <2>3
<1>9. Trim(b, Space) = t
  BY <1>2, <1>3, <1>5, <1>7, <1>8
<1>10. Skip(b, 1, Space) = i
  BY <1>2, <1>6, SkipIsNext
<1>11. ~Holds(b, i, Brace)
  BY <1>2 DEF Holds
<1> QED BY <1>9, <1>10, <1>11 DEF ExtractSqlText

(* Whatever a client means by a body, as plain text or as a JSON object    *)
(* with a field "sql" in any layout, spelled with any of the escapes       *)
(* \" \\ \/ \n \r \t, that text is given to the engine                     *)
(* (extract_sql_text, extract_json_sql_string), however recv cut the       *)
(* stream.                                                                 *)
THEOREM SqlTextsSurvive == ExchangeSpec => []SqlTextSurvives
<1>1. ReadInv /\ ChunkingIrrelevant => SqlTextSurvives
  <2> DEFINE b == BodyOf(input.bytes)
  <2> SUFFICES ASSUME ReadInv, ChunkingIrrelevant, pc = "done", Regular,
                      Means(b, input.sql, Understood)
               PROVE  sql = input.sql
    BY DEF SqlTextSurvives
  <2>1. input \in Inputs
    BY DEF ReadInv, BufferState
  <2>2. /\ input.sql \in Seq(STRING)
        /\ JsonMeans(b, input.sql, Understood) \/ PlainMeans(b, input.sql)
    BY DEF Means
  <2>3. sql = ExtractSqlText(b)
    BY DEF ChunkingIrrelevant, WholeEnd, Received, BodyOf
  <2>4. b \in Seq(Signs)
    <3> DEFINE end == First(CrlfEnds(input.bytes) \cup LfEnds(input.bytes), 0)
               n == DeclaredLength(SubSeq(input.bytes, 1, end))
    <3>1. input.bytes \in Seq(STRING)
      BY <2>1, HttpAssumption
    <3>2. end = WholeEnd /\ n = DeclaredLength(Received(WholeEnd))
      BY DEF WholeEnd, Received
    <3>3. b = SubSeq(input.bytes, end + 1, end + n)
      BY DEF BodyOf
    <3>4. WholeRequest
      BY DEF ChunkingIrrelevant
    <3>5. end \in 1 .. Capacity - 1 /\ end + n <= Len(input.bytes)
      BY <3>2, <3>4 DEF WholeRequest
    <3>6. end \in Nat \ {0} /\ Len(input.bytes) \in Nat
      BY <3>1, <3>5, Limits
    <3>7. headerEnd = WholeEnd
      BY DEF ChunkingIrrelevant
    <3>8. n \in Nat
      BY <3>2, <3>7, ParsedTyped DEF ReadInv
    <3> HIDE DEF end, n, b
    <3>9. \A i \in end + 1 .. end + n : input.bytes[i] \in STRING
      <4>1. \A i \in end + 1 .. end + n : i \in 1 .. Len(input.bytes)
        BY <3>5, <3>6, <3>8
      <4> QED BY <3>1, <4>1, ElementOfSeq
    <3>10. b \in Seq(STRING)
      BY <3>3, <3>6, <3>8, <3>9, SubSeqProperties
    <3>11. STRING \subseteq Signs
      BY DEF Signs
    <3> QED BY <3>10, <3>11, SeqMonotonic
  <2> HIDE DEF b
  <2>5. ExtractSqlText(b) = input.sql
    BY <2>2, <2>4, JsonTaken, PlainTaken
  <2> QED BY <2>3, <2>5
<1> QED BY <1>1, ReadInvariance, ExchangeReads, CutsDoNotMatter, PTL
=============================================================================
