--------------------------- MODULE Database_proofs --------------------------
(***************************************************************************)
(* One table and its index when reads, writes and appends may fail, lines  *)
(* are long, or other programs change the file: for every table.           *)
(***************************************************************************)
EXTENDS Database, CommonLemmas, FiniteSetTheorems, SequenceTheorems

-----------------------------------------------------------------------------
(* Ids, rows and next ids                                                  *)

LEMMA IntsTyped ==
    /\ MaxInt \in Nat /\ MaxInt >= 1
    /\ Ints \subseteq Int
    /\ 1 \in Ints
    /\ \A i : i \in Ints <=> i \in Int /\ -MaxInt - 1 <= i /\ i <= MaxInt
BY MachineIntAssumption DEF Ints, MinInt

LEMMA NextIdTyped ==
    ASSUME NEW n \in Ints, NEW id \in Ints
    PROVE  NextIdAfter(n, id) \in Ints
BY IntsTyped DEF NextIdAfter, Increment, MinInt

LEMMA TableRowTyped ==
    ASSUME NEW r \in TableRows
    PROVE  /\ Len(r) \in Nat
           /\ DOMAIN r = 1 .. Len(r)
           /\ \A i \in 1 .. Len(r) : r[i].id \in Ints /\ r[i].length \in LineKinds
<1>1. \A i \in 1 .. Len(r) : r[i] \in [id : Ints, length : LineKinds]
  BY ElementOfSeq DEF TableRows
<1> QED BY <1>1 DEF TableRows

(* The values next_id takes while the rows of r are inserted.              *)
NextTrace(f, r) ==
    /\ f \in [0 .. Len(r) -> Ints]
    /\ f[0] = 1
    /\ \A i \in 1 .. Len(r) : f[i] = NextIdAfter(f[i - 1], r[i].id)

LEMMA NextIdIsTraced ==
    ASSUME NEW r \in TableRows
    PROVE  \E f : NextTrace(f, r) /\ NextIdOf(r) = f[Len(r)]
<1> DEFINE n == Len(r)
           step == [i \in 1 .. n |-> [x \in Ints |-> NextIdAfter(x, r[i].id)]]
           f == CHOOSE g : g = [i \in 0 .. n |->
                    IF i = 0 THEN 1 ELSE NextIdAfter(g[i - 1], r[i].id)]
<1>1. n \in Nat /\ \A i \in 1 .. n : r[i].id \in Ints
  BY TableRowTyped
<1>2. step \in [1 .. n -> [Ints -> Ints]]
  BY <1>1, NextIdTyped
<1>3. PICK g : IsRecursion(g, Ints, 1, step, n)
  <2> HIDE DEF step, n
  <2> QED BY <1>1, <1>2, IntsTyped, RecursionExists
<1>4. /\ g \in [0 .. n -> Ints]
      /\ g[0] = 1
      /\ \A i \in 1 .. n : g[i] = step[i][g[i - 1]]
  <2> HIDE DEF step, n
  <2> QED BY <1>3 DEF IsRecursion
<1>5. g = [i \in 0 .. n |-> IF i = 0 THEN 1 ELSE NextIdAfter(g[i - 1], r[i].id)]
  <2>1. ASSUME NEW i \in 1 .. n
        PROVE  g[i] = NextIdAfter(g[i - 1], r[i].id)
    <3>1. g[i - 1] \in Ints
      BY <1>1, <1>4
    <3>2. step[i][g[i - 1]] = NextIdAfter(g[i - 1], r[i].id)
      BY <3>1
    <3> HIDE DEF step
    <3> QED BY <1>4, <3>2
  <2>2. \A i \in 0 .. n : g[i] = IF i = 0 THEN 1 ELSE NextIdAfter(g[i - 1], r[i].id)
    <3> HIDE DEF step
    <3> QED BY <1>1, <1>4, <2>1
  <2> HIDE DEF step
  <2> QED BY <1>4, <2>2
<1>6. f = [i \in 0 .. n |-> IF i = 0 THEN 1 ELSE NextIdAfter(f[i - 1], r[i].id)]
  BY <1>5
<1> HIDE DEF f
<1>7. f[0] = 1 /\ \A i \in 1 .. n : f[i] = NextIdAfter(f[i - 1], r[i].id)
  BY <1>1, <1>6
<1>8. \A i \in 0 .. n : f[i] \in Ints
  <2>1. f[0] \in Ints
    BY <1>7, IntsTyped
  <2>2. ASSUME NEW i \in 1 .. n, f[i - 1] \in Ints PROVE f[i] \in Ints
    BY <1>1, <1>7, <2>2, NextIdTyped
  <2> QED BY <1>1, <2>1, <2>2, StepwiseIn
<1>9. f \in [0 .. n -> Ints]
  BY <1>6, <1>8
<1>10. NextTrace(f, r)
  BY <1>7, <1>9 DEF NextTrace
<1>11. NextIdOf(r) = f[n]
  BY DEF NextIdOf, f
<1> QED BY <1>10, <1>11

LEMMA NextIdOfTyped ==
    ASSUME NEW r \in TableRows
    PROVE  NextIdOf(r) \in Ints
<1>1. PICK f : NextTrace(f, r) /\ NextIdOf(r) = f[Len(r)]
  BY NextIdIsTraced
<1>2. Len(r) \in 0 .. Len(r)
  BY TableRowTyped
<1> QED BY <1>1, <1>2 DEF NextTrace

LEMMA InsertIdTyped ==
    ASSUME TypeOK
    PROVE  InsertId \in Ints
BY DatabaseAssumption DEF TypeOK, InsertId

-----------------------------------------------------------------------------
(* Tables that grow, and the entries of their index                        *)

RowSet == [id : Ints, length : LineKinds]

(* Every row of r is still in q, with its id and at its place.             *)
Keeps(r, q) == \A i \in DOMAIN r : i \in DOMAIN q /\ q[i].id = r[i].id

LEMMA KeepsPoints ==
    ASSUME NEW r, NEW q, Keeps(r, q), NEW map, PointsRight(map, r)
    PROVE  PointsRight(map, q)
BY DEF Keeps, PointsRight

LEMMA BuiltPoints ==
    ASSUME NEW r \in TableRows
    PROVE  /\ IndexTyped(BuiltIndex(r))
           /\ DOMAIN BuiltIndex(r).map = IdsOf(r)
           /\ PointsRight(BuiltIndex(r).map, r)
           /\ BuiltIndex(r).size = Len(r) /\ BuiltIndex(r).torn = FALSE
<1>1. /\ BuiltIndex(r).map = Positions(r)
      /\ BuiltIndex(r).size = Len(r)
      /\ BuiltIndex(r).nextId = NextIdOf(r)
      /\ BuiltIndex(r).torn = FALSE
  BY DEF BuiltIndex, Index
<1>2. DOMAIN Positions(r) = IdsOf(r) /\ \A k \in IdsOf(r) : Positions(r)[k] = PositionOf(r, k)
  BY DEF Positions
<1>3. \A k \in IdsOf(r) : PositionOf(r, k) \in DOMAIN r /\ r[PositionOf(r, k)].id = k
  <2> TAKE k \in IdsOf(r)
  <2>1. \E i \in DOMAIN r : r[i].id = k
    BY DEF IdsOf
  <2> QED BY <2>1 DEF PositionOf
<1>4. IdsOf(r) \subseteq Ints
  BY TableRowTyped DEF IdsOf
<1>5. BuiltIndex(r) = Index(Positions(r), Len(r), NextIdOf(r), FALSE)
  BY DEF BuiltIndex
<1>6. IndexTyped(BuiltIndex(r))
  <2>1. NextIdOf(r) \in Ints /\ Len(r) \in Nat
    BY NextIdOfTyped, TableRowTyped
  <2> HIDE DEF BuiltIndex
  <2> QED BY <1>1, <1>2, <1>4, <1>5, <2>1 DEF IndexTyped
<1> QED BY <1>1, <1>2, <1>3, <1>6 DEF PointsRight

(* The lines up to n.                                                      *)
LEMMA PrefixRows ==
    ASSUME NEW r \in TableRows, NEW n \in 0 .. Len(r)
    PROVE  /\ SubSeq(r, 1, n) \in TableRows
           /\ Len(SubSeq(r, 1, n)) = n
           /\ \A i \in 1 .. n : SubSeq(r, 1, n)[i] = r[i]
           /\ Keeps(SubSeq(r, 1, n), r)
<1> DEFINE p == SubSeq(r, 1, n)
<1>1. n \in Int /\ Len(r) \in Nat /\ \A i \in 1 .. n : i \in 1 .. Len(r) /\ r[i] \in RowSet
  <2>1. n \in Int /\ Len(r) \in Nat /\ \A i \in 1 .. n : i \in 1 .. Len(r)
    BY TableRowTyped
  <2>2. \A i \in 1 .. Len(r) : r[i] \in RowSet
    BY ElementOfSeq DEF TableRows, RowSet
  <2> QED BY <2>1, <2>2
<1>2. p \in Seq(RowSet) /\ Len(p) = n /\ \A i \in 1 .. n : p[i] = r[i]
  BY <1>1, SubSeqProperties
<1>3. DOMAIN p = 1 .. n /\ DOMAIN r = 1 .. Len(r)
  BY <1>2, TableRowTyped DEF TableRows, RowSet
<1> QED BY <1>1, <1>2, <1>3 DEF Keeps, TableRows, RowSet

LEMMA FrontRows ==
    ASSUME NEW r \in TableRows, Len(r) \in DOMAIN r
    PROVE  /\ Front(r) \in TableRows /\ Len(Front(r)) = Len(r) - 1
           /\ \A i \in 1 .. Len(r) - 1 : Front(r)[i] = r[i]
           /\ Last(r) = r[Len(r)] /\ Last(r).id \in Ints
           /\ Len(r) \in Nat \ {0}
<1>1. Len(r) \in Nat \ {0} /\ DOMAIN r = 1 .. Len(r)
  BY TableRowTyped
<1>2. Len(r) - 1 \in 0 .. Len(r)
  BY <1>1
<1>3. Front(r) = SubSeq(r, 1, Len(r) - 1) /\ Last(r) = r[Len(r)]
  BY DEF Front, Last
<1>4. Last(r).id \in Ints
  BY <1>1, <1>3, TableRowTyped
<1> DEFINE n == Len(r) - 1
<1>5. /\ SubSeq(r, 1, n) \in TableRows
      /\ Len(SubSeq(r, 1, n)) = n
      /\ \A i \in 1 .. n : SubSeq(r, 1, n)[i] = r[i]
  <2> HIDE DEF n
  <2> QED BY <1>2, PrefixRows DEF n
<1> QED BY <1>1, <1>3, <1>4, <1>5

(* One more row with the id k.                                             *)
Lengthened(r, q, k) ==
    /\ q \in TableRows
    /\ Len(q) = Len(r) + 1
    /\ Keeps(r, q)
    /\ q[Len(r) + 1].id = k

LEMMA LengthenedIds ==
    ASSUME NEW r \in TableRows, NEW q, NEW k, Lengthened(r, q, k)
    PROVE  /\ Len(r) + 1 \in DOMAIN q
           /\ IdsOf(q) = IdsOf(r) \cup {k}
<1>1. /\ Len(r) \in Nat /\ DOMAIN r = 1 .. Len(r)
      /\ DOMAIN q = 1 .. Len(r) + 1
  BY TableRowTyped DEF Lengthened
<1>2. \A i \in 1 .. Len(r) + 1 : i \in 1 .. Len(r) \/ i = Len(r) + 1
  BY <1>1
<1>3. \A i \in 1 .. Len(r) : i \in DOMAIN q /\ q[i].id = r[i].id
  BY <1>1 DEF Lengthened, Keeps
<1>4. Len(r) + 1 \in DOMAIN q /\ q[Len(r) + 1].id = k
  BY <1>1 DEF Lengthened
<1>5. ASSUME NEW x \in IdsOf(q) PROVE x \in IdsOf(r) \cup {k}
  <2>1. PICK i \in DOMAIN q : x = q[i].id
    BY DEF IdsOf
  <2> QED BY <1>1, <1>2, <1>3, <1>4, <2>1 DEF IdsOf
<1>6. ASSUME NEW x \in IdsOf(r) PROVE x \in IdsOf(q)
  <2>1. PICK i \in DOMAIN r : x = r[i].id
    BY DEF IdsOf
  <2> QED BY <1>1, <1>3, <2>1 DEF IdsOf
<1>7. k \in IdsOf(q)
  BY <1>4 DEF IdsOf
<1> QED BY <1>4, <1>5, <1>6, <1>7

LEMMA AppendLengthens ==
    ASSUME NEW r \in TableRows, NEW x \in RowSet
    PROVE  /\ Lengthened(r, Append(r, x), x.id)
           /\ \A i \in DOMAIN r : Append(r, x)[i] = r[i]
<1> DEFINE q == Append(r, x)
<1>1. /\ q \in Seq(RowSet) /\ Len(q) = Len(r) + 1
      /\ \A i \in 1 .. Len(r) : q[i] = r[i]
      /\ q[Len(r) + 1] = x
  BY AppendProperties DEF TableRows, RowSet
<1> HIDE DEF q
<1>2. Len(r) \in Nat /\ DOMAIN r = 1 .. Len(r) /\ DOMAIN q = 1 .. Len(r) + 1
  BY <1>1, TableRowTyped DEF TableRows, RowSet
<1> QED BY <1>1, <1>2 DEF Lengthened, Keeps, TableRows, RowSet, q

(* A row behind an open line joins that line.                              *)
LEMMA JoinLengthens ==
    ASSUME NEW r \in TableRows, Len(r) \in DOMAIN r, NEW x \in RowSet
    PROVE  LET q == Front(r) \o <<Row(Last(r).id, "joined"), x>>
           IN  /\ Lengthened(r, q, x.id)
               /\ q[Len(r)].length = "joined"
               /\ \A i \in 1 .. Len(r) - 1 : q[i] = r[i]
<1> DEFINE n == Len(r)
           y == Row(Last(r).id, "joined")
           q == Front(r) \o <<y, x>>
<1>1. /\ Front(r) \in Seq(RowSet) /\ Len(Front(r)) = n - 1 /\ n \in Nat \ {0}
      /\ \A i \in 1 .. n - 1 : Front(r)[i] = r[i]
      /\ Last(r) = r[n] /\ Last(r).id \in Ints
  BY FrontRows DEF TableRows, RowSet
<1>2. y \in RowSet /\ y.id = r[n].id /\ y.length = "joined"
  BY <1>1 DEF Row, RowSet, LineKinds
<1> HIDE DEF y
<1>3. <<y, x>> \in Seq(RowSet) /\ Len(<<y, x>>) = 2 /\ <<y, x>>[1] = y /\ <<y, x>>[2] = x
  BY <1>2
<1> DEFINE f == Front(r)
           t == <<y, x>>
<1> HIDE DEF f, t, n
<1>4. f \in Seq(RowSet) /\ t \in Seq(RowSet) /\ Len(f) = n - 1 /\ Len(t) = 2
  BY <1>1, <1>3 DEF f, t
<1>5. /\ f \o t \in Seq(RowSet) /\ Len(f \o t) = Len(f) + Len(t)
      /\ \A i \in 1 .. Len(f) + Len(t) :
            (f \o t)[i] = IF i <= Len(f) THEN f[i] ELSE t[i - Len(f)]
  BY <1>4, ConcatProperties
<1>6. q = f \o t
  BY DEF f, t
<1> HIDE DEF q
<1>7. q \in TableRows /\ Len(q) = n + 1
  BY <1>1, <1>4, <1>5, <1>6 DEF TableRows, RowSet
<1>8. \A i \in 1 .. n - 1 : q[i] = r[i]
  <2> TAKE i \in 1 .. n - 1
  <2>1. i \in 1 .. Len(f) + Len(t) /\ i <= Len(f)
    BY <1>1, <1>4
  <2> QED BY <1>1, <1>5, <1>6, <2>1 DEF f
<1>9. q[n] = y
  <2>1. n \in 1 .. Len(f) + Len(t) /\ ~(n <= Len(f)) /\ n - Len(f) = 1
    BY <1>1, <1>4
  <2> QED BY <1>3, <1>5, <1>6, <2>1 DEF t
<1>10. q[n + 1] = x
  <2>1. n + 1 \in 1 .. Len(f) + Len(t) /\ ~(n + 1 <= Len(f)) /\ (n + 1) - Len(f) = 2
    BY <1>1, <1>4
  <2> QED BY <1>3, <1>5, <1>6, <2>1 DEF t
<1>11. DOMAIN r = 1 .. n /\ DOMAIN q = 1 .. n + 1
  BY <1>7, TableRowTyped DEF n
<1>12. Keeps(r, q)
  <2> SUFFICES ASSUME NEW i \in 1 .. n PROVE i \in DOMAIN q /\ q[i].id = r[i].id
    BY <1>11 DEF Keeps
  <2>1. i \in 1 .. n + 1
    BY <1>1
  <2>2. i \in 1 .. n - 1 \/ i = n
    BY <1>1
  <2> QED BY <1>2, <1>8, <1>9, <1>11, <2>1, <2>2
<1> QED BY <1>2, <1>7, <1>8, <1>9, <1>10, <1>12 DEF Lengthened, q, y, n

(* No line but the new one becomes a line of its own.                      *)
ShortStay(r, q) ==
    \A i \in RowsLike(q, {"short"}) : i \in RowsLike(r, {"short"}) \/ i = Len(r) + 1

LEMMA AppendStays ==
    ASSUME NEW r \in TableRows, NEW x \in RowSet
    PROVE  ShortStay(r, Append(r, x))
<1> DEFINE q == Append(r, x)
<1>1. Lengthened(r, q, x.id) /\ \A i \in DOMAIN r : q[i] = r[i]
  BY AppendLengthens
<1> HIDE DEF q
<1>2. DOMAIN q = 1 .. Len(r) + 1 /\ DOMAIN r = 1 .. Len(r) /\ Len(r) \in Nat
  BY <1>1, TableRowTyped DEF Lengthened
<1>3. \A i \in 1 .. Len(r) + 1 : i \in 1 .. Len(r) \/ i = Len(r) + 1
  BY <1>2
<1>4. ShortStay(r, q)
  BY <1>1, <1>2, <1>3 DEF ShortStay, RowsLike
<1> QED BY <1>4 DEF q

(* The rows after an append of the whole row.                              *)
LEMMA RowsLengthened ==
    ASSUME TypeOK, NEW id \in Ints, NEW length \in RowLengths
    PROVE  Lengthened(rows, RowsWith(id, length), id) /\ ShortStay(rows, RowsWith(id, length))
<1> DEFINE q == RowsWith(id, length)
<1>1. rows \in TableRows /\ Len(rows) \in Nat /\ DOMAIN rows = 1 .. Len(rows)
  BY TableRowTyped DEF TypeOK
<1>2. ASSUME Unfinished PROVE Lengthened(rows, q, id) /\ ShortStay(rows, q)
  <2> DEFINE x == Row(id, IF length = "long" THEN "longtail" ELSE "tail")
  <2>1. x \in RowSet /\ x.id = id
    BY DEF Row, RowSet, LineKinds
  <2>2. q = Front(rows) \o <<Row(Last(rows).id, "joined"), x>>
    BY <1>2 DEF RowsWith
  <2> HIDE DEF x, q
  <2>3. Len(rows) \in DOMAIN rows
    BY <1>2 DEF Unfinished, RowsLike
  <2>4. /\ Lengthened(rows, q, id)
        /\ q[Len(rows)].length = "joined"
        /\ \A i \in 1 .. Len(rows) - 1 : q[i] = rows[i]
    BY <1>1, <2>1, <2>2, <2>3, JoinLengthens
  <2>5. DOMAIN q = 1 .. Len(rows) + 1
    BY <1>1, <2>4, TableRowTyped DEF Lengthened
  <2> DEFINE n == Len(rows)
  <2>6. \A i \in 1 .. n + 1 : i \in 1 .. n - 1 \/ i = n \/ i = n + 1
    <3>1. n \in Nat
      BY <1>1
    <3> HIDE DEF n
    <3> QED BY <3>1
  <2>7. \A i \in 1 .. n - 1 : i \in DOMAIN rows
    BY <1>1
  <2>8. ShortStay(rows, q)
    BY <2>4, <2>5, <2>6, <2>7 DEF ShortStay, RowsLike
  <2> QED BY <2>4, <2>8
<1>3. ASSUME ~Unfinished PROVE Lengthened(rows, q, id) /\ ShortStay(rows, q)
  <2> DEFINE x == Row(id, IF length = "long" THEN "long" ELSE "short")
  <2>1. x \in RowSet /\ x.id = id
    BY DEF Row, RowSet, LineKinds
  <2>2. q = Append(rows, x)
    BY <1>3 DEF RowsWith
  <2> HIDE DEF x, q
  <2> QED BY <1>1, <2>1, <2>2, AppendLengthens, AppendStays
<1> QED BY <1>2, <1>3

(* The row of the INSERT is appended.                                      *)
LEMMA RowAppended ==
    ASSUME TypeOK, AppendRow
    PROVE  /\ Lengthened(rows, rows', InsertId) /\ ShortStay(rows, rows')
           /\ job'.offset = Len(rows) + 1 /\ InsertId' = IF job.id = AutoId THEN nextId' ELSE job.id
           /\ job' \in [kind : {"none", "select", "scan", "insert"},
                        id : ExplicitIds \cup {AutoId}, length : RowLengths, offset : Nat]
<1>1. InsertId \in Ints /\ Len(rows) \in Nat /\ job.length \in RowLengths
  BY InsertIdTyped, TableRowTyped DEF TypeOK
<1>2. Lengthened(rows, rows', InsertId) /\ ShortStay(rows, rows')
  BY <1>1, RowsLengthened DEF AppendRow
<1>3. job' = [job EXCEPT !.offset = Len(rows) + 1]
  BY DEF AppendRow
<1>4. /\ job' \in [kind : {"none", "select", "scan", "insert"},
                   id : ExplicitIds \cup {AutoId}, length : RowLengths, offset : Nat]
      /\ job'.offset = Len(rows) + 1 /\ job'.id = job.id
  BY <1>1, <1>3 DEF TypeOK
<1> QED BY <1>2, <1>4 DEF InsertId

(* A part of it is.                                                        *)
LEMMA PartAppended ==
    ASSUME TypeOK, AppendPart
    PROVE  Lengthened(rows, rows', InsertId) /\ ShortStay(rows, rows') /\ tableTime' = clock
<1>1. rows \in TableRows /\ InsertId \in Ints
  BY InsertIdTyped DEF TypeOK
<1>2. PICK kind \in {"cut", "open"} : rows' = Append(rows, Row(InsertId, kind))
  BY DEF AppendPart
<1> DEFINE x == Row(InsertId, kind)
<1>3. x \in RowSet /\ x.id = InsertId
  BY <1>1 DEF Row, RowSet, LineKinds
<1> HIDE DEF x
<1>4. rows' = Append(rows, x)
  BY <1>2 DEF x
<1> QED BY <1>1, <1>3, <1>4, AppendLengthens, AppendStays DEF AppendPart

-----------------------------------------------------------------------------
(* Indexes                                                                 *)

LEMMA IndexFields ==
    ASSUME NEW m, NEW size \in Nat, NEW next \in Ints, NEW torn \in BOOLEAN,
           DOMAIN m \subseteq Ints
    PROVE  /\ IndexTyped(Index(m, size, next, torn))
           /\ Index(m, size, next, torn).map = m
           /\ Index(m, size, next, torn).size = size
           /\ Index(m, size, next, torn).nextId = next
           /\ Index(m, size, next, torn).torn = torn
<1> DEFINE ix == Index(m, size, next, torn)
<1>1. ix.map = m /\ ix.size = size /\ ix.nextId = next
  BY DEF Index
<1>2. ix.torn = torn
  BY DEF Index
<1> HIDE DEF ix
<1>3. ix = Index(ix.map, ix.size, ix.nextId, ix.torn)
  BY <1>1, <1>2 DEF ix
<1>4. ix.torn \in BOOLEAN
  BY <1>2, Zenon
<1> QED BY <1>1, <1>2, <1>3, <1>4, Zenon DEF IndexTyped, ix

(* The same for a file with a write missing, or none.                      *)
LEMMA TornFields ==
    ASSUME NEW m, NEW size \in Nat, NEW next \in Ints, DOMAIN m \subseteq Ints
    PROVE  /\ IndexTyped(Index(m, size, next, TRUE)) /\ IndexTyped(Index(m, size, next, FALSE))
           /\ \A torn \in BOOLEAN : /\ Index(m, size, next, torn).map = m
                                    /\ Index(m, size, next, torn).size = size
           /\ Index(m, size, next, FALSE).torn = FALSE
<1> DEFINE t == TRUE
           f == FALSE
<1>1. t \in BOOLEAN /\ f \in BOOLEAN
  OBVIOUS
<1> HIDE DEF t, f
<1>2. IndexTyped(Index(m, size, next, t)) /\ IndexTyped(Index(m, size, next, f))
  BY <1>1, IndexFields
<1>3. Index(m, size, next, FALSE).torn = FALSE
  BY DEF Index
<1>4. \A torn \in BOOLEAN : /\ Index(m, size, next, torn).map = m
                            /\ Index(m, size, next, torn).size = size
  BY IndexFields
<1> QED BY <1>2, <1>3, <1>4 DEF t, f

LEMMA EmptyIndexTyped ==
    /\ IndexTyped(EmptyIndex)
    /\ EmptyIndex.map = EmptyMap /\ EmptyIndex.size = 0 /\ EmptyIndex.torn = FALSE
    /\ DOMAIN EmptyMap = {}
<1>1. DOMAIN EmptyMap = {}
  BY DEF EmptyMap
<1>2. 0 \in Nat /\ 1 \in Ints /\ FALSE \in BOOLEAN /\ DOMAIN EmptyMap \subseteq Ints
  BY <1>1, IntsTyped
<1>3. EmptyIndex = Index(EmptyMap, 0, 1, FALSE)
  BY DEF EmptyIndex
<1> DEFINE m == EmptyMap
           f == FALSE
<1> HIDE DEF m, f
<1>4. 0 \in Nat /\ 1 \in Ints /\ f \in BOOLEAN /\ DOMAIN m \subseteq Ints
  BY <1>2 DEF m, f
<1>5. /\ IndexTyped(Index(m, 0, 1, f)) /\ Index(m, 0, 1, f).map = m
      /\ Index(m, 0, 1, f).size = 0 /\ Index(m, 0, 1, f).torn = f
  BY ONLY <1>4, IndexFields
<1> QED BY ONLY <1>1, <1>3, <1>5, Zenon DEF m, f

LEMMA UnsettledFields ==
    ASSUME NEW ix, IndexTyped(ix), NEW before, IndexTyped(before)
    PROVE  /\ IndexTyped(Unsettled(ix, before))
           /\ Unsettled(ix, before).map = ix.map
           /\ Unsettled(ix, before).size = before.size
<1>1. before.size \in Nat /\ before.nextId \in Ints /\ DOMAIN ix.map \subseteq Ints
  BY DEF IndexTyped
<1>2. IndexTyped(Unsettled(ix, before))
  BY <1>1, TornFields DEF Unsettled
<1>3. Unsettled(ix, before).map = ix.map /\ Unsettled(ix, before).size = before.size
  BY DEF Unsettled, Index
<1> QED BY <1>2, <1>3

(* bptree_insert of the row that was appended.                             *)
LEMMA ExtendedFields ==
    ASSUME TypeOK
    PROVE  /\ IndexTyped(Extended)
           /\ DOMAIN Extended.map = DOMAIN index.map \cup {InsertId}
           /\ \A k \in DOMAIN Extended.map :
                 Extended.map[k] = IF k = InsertId THEN job.offset ELSE index.map[k]
           /\ Extended.size = index.size + 1
           /\ Extended.torn = FALSE
<1> DEFINE map == [k \in DOMAIN index.map \cup {InsertId} |->
                      IF k = InsertId THEN job.offset ELSE index.map[k]]
           next == NextIdAfter(index.nextId, InsertId)
<1>1. Extended = Index(map, index.size + 1, next, FALSE)
  BY DEF Extended
<1>2. InsertId \in Ints /\ index.nextId \in Ints /\ index.size \in Nat /\ DOMAIN index.map \subseteq Ints
  BY InsertIdTyped DEF TypeOK, IndexTyped
<1>3. DOMAIN map \subseteq Ints /\ index.size + 1 \in Nat /\ next \in Ints /\ FALSE \in BOOLEAN
  BY <1>2, NextIdTyped
<1>4. /\ DOMAIN map = DOMAIN index.map \cup {InsertId}
      /\ \A k \in DOMAIN map : map[k] = IF k = InsertId THEN job.offset ELSE index.map[k]
  OBVIOUS
<1> DEFINE size == index.size + 1
           f == FALSE
<1> HIDE DEF map, next, size, f
<1>5. IndexTyped(Extended) /\ Extended.map = map /\ Extended.size = index.size + 1 /\ Extended.torn = FALSE
  <2>1. size \in Nat /\ next \in Ints /\ f \in BOOLEAN /\ DOMAIN map \subseteq Ints
    BY <1>3 DEF size, f
  <2>2. /\ IndexTyped(Index(map, size, next, f)) /\ Index(map, size, next, f).map = map
        /\ Index(map, size, next, f).size = size /\ Index(map, size, next, f).torn = f
    BY ONLY <2>1, IndexFields
  <2>3. Extended = Index(map, size, next, f)
    BY <1>1 DEF size, f
  <2> QED BY ONLY <2>2, <2>3, Zenon DEF size, f
<1> QED BY <1>4, <1>5

(* What an insert that fails on a write leaves behind: some of the entries *)
(* it should have.                                                         *)
LEMMA FailedInsertFields ==
    ASSUME TypeOK, InsertIndexFails
    PROVE  /\ IndexTyped(index') /\ IndexTyped(written') /\ IndexTyped(disk')
           /\ written'.map = index'.map /\ disk'.map = index'.map
           /\ DOMAIN index'.map \subseteq DOMAIN Extended.map
           /\ \A k \in DOMAIN index'.map : index'.map[k] = Extended.map[k]
<1> DEFINE E == Extended
<1>1. /\ IndexTyped(E) /\ DOMAIN index.map \subseteq DOMAIN E.map
      /\ E = Index(E.map, E.size, E.nextId, E.torn)
      /\ DOMAIN E.map \subseteq Ints /\ E.size \in Nat /\ E.nextId \in Ints
  BY ExtendedFields DEF IndexTyped
<1>2. /\ index = Index(index.map, index.size, index.nextId, index.torn)
      /\ index.size \in Nat /\ index.nextId \in Ints
      /\ written.size \in Nat /\ written.nextId \in Ints
  BY DEF TypeOK, IndexTyped
<1>3. E.torn \in BOOLEAN /\ index.torn \in BOOLEAN
  BY <1>1, Zenon DEF TypeOK, IndexTyped
<1> HIDE DEF E
<1>4. \E kept \in SUBSET DOMAIN E.map :
         \/ index' = Index(Restrict(E.map, kept), E.size, E.nextId, E.torn)
         \/ index' = Index(Restrict(E.map, kept), index.size, index.nextId, index.torn)
  <2>1. CASE \E kept \in {DOMAIN index.map, DOMAIN E.map} :
                index' = [E EXCEPT !.map = Restrict(@, kept)]
    <3>1. PICK kept \in {DOMAIN index.map, DOMAIN E.map} :
                index' = [E EXCEPT !.map = Restrict(@, kept)]
      BY <2>1
    <3>2. kept \in SUBSET DOMAIN E.map
      BY <1>1, <3>1
    <3>3. index' = Index(Restrict(E.map, kept), E.size, E.nextId, E.torn)
      BY <1>1, <3>1 DEF Index
    <3> QED BY <3>2, <3>3
  <2>2. CASE \E kept \in SUBSET DOMAIN E.map :
                index' = [index EXCEPT !.map = Restrict(E.map, kept)]
    <3>1. PICK kept \in SUBSET DOMAIN E.map :
                index' = [index EXCEPT !.map = Restrict(E.map, kept)]
      BY <2>2
    <3>2. index' = Index(Restrict(E.map, kept), index.size, index.nextId, index.torn)
      BY <1>2, <3>1 DEF Index
    <3> QED BY <3>2
  <2> QED BY <2>1, <2>2 DEF InsertIndexFails, E
<1>5. PICK kept \in SUBSET DOMAIN E.map :
         \/ index' = Index(Restrict(E.map, kept), E.size, E.nextId, E.torn)
         \/ index' = Index(Restrict(E.map, kept), index.size, index.nextId, index.torn)
  BY <1>4
<1> DEFINE m == Restrict(E.map, kept)
<1>6. DOMAIN m = kept /\ \A k \in kept : m[k] = E.map[k]
  BY DEF Restrict
<1> HIDE DEF m
<1>7. DOMAIN m \subseteq Ints
  BY <1>1, <1>6
<1>8. IndexTyped(index') /\ index'.map = m
  <2>1. CASE index' = Index(m, E.size, E.nextId, E.torn)
    BY <1>1, <1>3, <1>7, <2>1, IndexFields
  <2>2. CASE index' = Index(m, index.size, index.nextId, index.torn)
    BY <1>2, <1>3, <1>7, <2>2, IndexFields
  <2> QED BY <1>5, <2>1, <2>2 DEF m
<1>9. index' = Index(m, index'.size, index'.nextId, index'.torn) /\ index'.torn \in BOOLEAN
  BY <1>8, Zenon DEF IndexTyped
<1>10. written' = Index(m, written.size, written.nextId, index'.torn)
  BY <1>8 DEF InsertIndexFails
<1>11. IndexTyped(written') /\ written'.map = m
  BY <1>2, <1>7, <1>9, <1>10, IndexFields
<1>12. IndexTyped(disk') /\ disk'.map = m
  <2>1. disk' = Unsettled(index', written)
    BY DEF InsertIndexFails
  <2>2. IndexTyped(written)
    BY DEF TypeOK
  <2> QED BY <1>8, <2>1, <2>2, UnsettledFields
<1> QED BY <1>6, <1>8, <1>11, <1>12 DEF E

LEMMA TornTyped ==
    ASSUME NEW ix, IndexTyped(ix)
    PROVE  IndexTyped([ix EXCEPT !.torn = TRUE]) /\ [ix EXCEPT !.torn = TRUE].map = ix.map
<1> DEFINE t == TRUE
<1> HIDE DEF t
<1>1. ix = Index(ix.map, ix.size, ix.nextId, ix.torn)
  BY DEF IndexTyped
<1>2. [ix EXCEPT !.torn = t] = Index(ix.map, ix.size, ix.nextId, t)
  BY <1>1 DEF Index
<1>3. ix.size \in Nat /\ ix.nextId \in Ints /\ DOMAIN ix.map \subseteq Ints
  BY DEF IndexTyped
<1>4. IndexTyped(Index(ix.map, ix.size, ix.nextId, t)) /\ Index(ix.map, ix.size, ix.nextId, t).map = ix.map
  <2>1. t \in BOOLEAN
    BY DEF t
  <2> QED BY ONLY <1>3, <2>1, IndexFields
<1> QED BY <1>2, <1>4 DEF t

-----------------------------------------------------------------------------
(* Types                                                                   *)

LEMMA NoJobTyped ==
    /\ NoJob \in [kind : {"none", "select", "scan", "insert"},
                  id : ExplicitIds \cup {AutoId}, length : RowLengths, offset : Nat]
    /\ \A kind \in {"select", "scan", "insert"}, id \in ExplicitIds \cup {AutoId},
          length \in RowLengths :
          Job(kind, id, length) \in [kind : {"none", "select", "scan", "insert"},
                  id : ExplicitIds \cup {AutoId}, length : RowLengths, offset : Nat]
BY DEF NoJob, Job, RowLengths

LEMMA TypeInit == Init => TypeOK
<1> SUFFICES ASSUME Init PROVE TypeOK
  OBVIOUS
<1>1. rows \in TableRows
  BY DatabaseAssumption DEF Init
<1>2. {tableTime, indexTime, clock} \subseteq 0 .. MaxClock
  BY DatabaseAssumption DEF Init
<1>3. nextId \in Ints /\ rowCount \in Nat /\ pc \in {"down", "idle", "load", "execute", "append"}
  BY IntsTyped DEF Init
<1>4. IndexTyped(disk) /\ IndexTyped(written) /\ IndexTyped(index)
  BY EmptyIndexTyped DEF Init
<1>5. loaded \in BOOLEAN /\ acked \subseteq Ints /\ failed \subseteq Failures \cup {"copy"}
  BY DEF Init
<1> QED BY <1>1, <1>2, <1>3, <1>4, <1>5, NoJobTyped DEF TypeOK, Init

LEMMA SettleTyped ==
    ASSUME TypeOK, Settle
    PROVE  IndexTyped(disk') /\ indexTime' \in 0 .. MaxClock
BY DEF TypeOK, Settle

LEMMA EditedRows ==
    ASSUME TypeOK, EditTable
    PROVE  rows' \in TableRows /\ Keeps(rows, rows')
<1> DEFINE n == Len(rows)
           x == Row(Last(rows).id, "open")
           f == Front(rows)
<1>1. rows \in TableRows /\ n \in DOMAIN rows
  BY DEF TypeOK, EditTable, RowsLike
<1>2. /\ f \in TableRows /\ Len(f) = n - 1 /\ n \in Nat \ {0}
      /\ \A i \in 1 .. n - 1 : f[i] = rows[i]
      /\ Last(rows) = rows[n] /\ Last(rows).id \in Ints
  BY <1>1, FrontRows
<1>3. x \in RowSet /\ x.id = rows[n].id
  BY <1>2 DEF RowSet, Row, LineKinds
<1>4. rows' = Append(f, x)
  BY DEF EditTable
<1> HIDE DEF f, x
<1>5. /\ rows' \in TableRows /\ Len(rows') = n /\ rows'[n].id = rows[n].id
      /\ \A i \in 1 .. n - 1 : rows'[i] = rows[i]
  <2>1. Lengthened(f, rows', x.id) /\ \A i \in DOMAIN f : rows'[i] = f[i]
    BY <1>2, <1>3, <1>4, AppendLengthens
  <2>2. DOMAIN f = 1 .. n - 1 /\ (n - 1) + 1 = n
    BY <1>2, TableRowTyped
  <2> QED BY <1>2, <1>3, <2>1, <2>2 DEF Lengthened
<1>6. DOMAIN rows = 1 .. n /\ DOMAIN rows' = 1 .. n
  BY <1>1, <1>5, TableRowTyped
<1>7. \A i \in 1 .. n : i \in 1 .. n - 1 \/ i = n
  BY <1>2
<1> QED BY <1>5, <1>6, <1>7 DEF Keeps

(* A load that fails leaves an index of the first lines: none of them is a *)
(* tail and no two have the same id.                                       *)
Startable(r, n) ==
    /\ \A i \in 1 .. n : r[i].length \notin {"tail", "longtail"}
    /\ \A i, j \in 1 .. n : r[i].id = r[j].id => i = j

LEMMA FailedRows ==
    ASSUME TypeOK, LoadFails
    PROVE  \E n \in 0 .. Len(rows) : disk' = BuiltIndex(SubSeq(rows, 1, n)) /\ Startable(rows, n)
<1>1. rows \in TableRows /\ Len(rows) \in Nat /\ DOMAIN rows = 1 .. Len(rows)
  BY TableRowTyped DEF TypeOK
<1>2. PICK bad \in DOMAIN rows :
         /\ \A i \in 1 .. bad - 1 : Indexable(rows, i)
         /\ \/ disk' = BuiltIndex(SubSeq(rows, 1, bad - 1))
            \/ /\ rows[bad].length = "long"
               /\ \A i \in 1 .. bad - 1 : rows[i].id # rows[bad].id
               /\ disk' = BuiltIndex(SubSeq(rows, 1, bad))
  BY DEF LoadFails
<1>3. bad \in 1 .. Len(rows) /\ bad \in 0 .. Len(rows) /\ bad - 1 \in 0 .. Len(rows)
  BY <1>1
<1>4. \A i \in 1 .. bad - 1 : /\ rows[i].length \notin {"tail", "longtail"}
                             /\ \A j \in 1 .. i - 1 : rows[j].id # rows[i].id
  BY <1>2 DEF Indexable
<1>5. ASSUME NEW i \in 1 .. bad - 1, NEW j \in 1 .. bad - 1, rows[i].id = rows[j].id
      PROVE  i = j
  <2>1. ~(i < j)
    BY <1>3, <1>4, <1>5
  <2>2. ~(j < i)
    BY <1>3, <1>4, <1>5
  <2> QED BY <1>3, <2>1, <2>2
<1>6. Startable(rows, bad - 1)
  BY <1>4, <1>5 DEF Startable
<1>7. ASSUME rows[bad].length = "long", \A i \in 1 .. bad - 1 : rows[i].id # rows[bad].id
      PROVE  Startable(rows, bad)
  <2>1. \A i \in 1 .. bad : i \in 1 .. bad - 1 \/ i = bad
    BY <1>3
  <2> QED BY <1>4, <1>5, <1>7, <2>1 DEF Startable
<1> QED BY <1>2, <1>3, <1>6, <1>7

LEMMA TypeStep == TypeOK /\ [Next]_vars => TypeOK'
<1> SUFFICES ASSUME TypeOK, [Next]_vars PROVE TypeOK'
  OBVIOUS
<1> USE DEF fileVars, tableVars, history
<1>1. CASE Start
  BY <1>1 DEF Start, TypeOK
<1>2. CASE Quit
  <2>1. IndexTyped(disk') /\ indexTime' \in 0 .. MaxClock
    BY <1>2, SettleTyped DEF Quit, TypeOK
  <2> QED BY <1>2, <2>1 DEF Quit, TypeOK
<1>3. CASE Kill
  <2>1. IndexTyped(disk')
    BY <1>3, TornTyped DEF Kill, TypeOK
  <2> QED BY <1>3, <2>1 DEF Kill, TypeOK
<1>4. CASE Tick
  BY <1>4, DatabaseAssumption DEF Tick, TypeOK
<1>5. ASSUME NEW r \in Copies, NEW time \in {0, clock}, CopyTable(r, time) PROVE TypeOK'
  <2>1. rows' \in TableRows /\ tableTime' \in 0 .. MaxClock
    BY <1>5, DatabaseAssumption DEF CopyTable, TypeOK
  <2> QED BY <1>5, <2>1 DEF CopyTable, TypeOK
<1>6. CASE EditTable
  <2>1. rows' \in TableRows
    BY <1>6, EditedRows
  <2> QED BY <1>6, <2>1 DEF EditTable, TypeOK
<1>7. ASSUME NEW kind \in {"select", "scan"}, Request(kind, AutoId, "short") PROVE TypeOK'
  <2>1. job' \in [kind : {"none", "select", "scan", "insert"}, id : ExplicitIds \cup {AutoId},
                  length : RowLengths, offset : Nat]
    BY <1>7, NoJobTyped DEF Request, RowLengths
  <2> QED BY <1>7, <2>1 DEF Request, TypeOK
<1>8. ASSUME NEW id \in ExplicitIds \cup {AutoId}, NEW length \in Lengths,
             Request("insert", id, length)
      PROVE  TypeOK'
  <2>1. length \in RowLengths
    BY DatabaseAssumption
  <2>2. job' \in [kind : {"none", "select", "scan", "insert"}, id : ExplicitIds \cup {AutoId},
                  length : RowLengths, offset : Nat]
    BY <1>8, <2>1, NoJobTyped DEF Request
  <2> QED BY <1>8, <2>2 DEF Request, TypeOK
<1>9. CASE LoadCached
  BY <1>9 DEF LoadCached, TypeOK
<1>10. CASE LoadKeep
  <2>1. CountTableRows(rows) \in Nat /\ disk.nextId \in Ints
    BY <1>10 DEF LoadKeep, ShouldRebuild, TypeOK, IndexTyped
  <2> QED BY <1>10, <2>1 DEF LoadKeep, TypeOK
<1>11. CASE LoadRebuild
  <2> DEFINE ix == BuiltIndex(rows)
  <2>1. rows \in TableRows
    BY DEF TypeOK
  <2>2. IndexTyped(ix) /\ ix.nextId \in Ints /\ ix.size \in Nat
    BY <2>1, BuiltPoints DEF IndexTyped
  <2>3. index' = ix /\ written' = ix /\ nextId' = ix.nextId /\ rowCount' = ix.size
    BY <1>11 DEF LoadRebuild
  <2> HIDE DEF ix
  <2>4. IndexTyped(disk')
    <3>1. CASE rows = <<>>
      BY <1>11, <2>2, <2>3, <3>1 DEF LoadRebuild
    <3>2. CASE rows # <<>>
      <4>1. Len(rows) \in DOMAIN rows
        BY <2>1, <3>2, EmptySeq, TableRowTyped DEF TableRows
      <4>2. Front(rows) \in TableRows
        BY <2>1, <4>1, FrontRows
      <4>3. IndexTyped(BuiltIndex(Front(rows)))
        BY <4>2, BuiltPoints
      <4>4. disk' = Unsettled(ix, BuiltIndex(Front(rows)))
        BY <1>11, <2>3, <3>2 DEF LoadRebuild
      <4> QED BY <2>2, <4>3, <4>4, UnsettledFields
    <3> QED BY <3>1, <3>2
  <2> QED BY <1>11, <2>2, <2>3, <2>4 DEF LoadRebuild, TypeOK
<1>12. CASE LoadFails
  <2>1. PICK n \in 0 .. Len(rows) : disk' = BuiltIndex(SubSeq(rows, 1, n))
    BY <1>12, FailedRows
  <2>2. SubSeq(rows, 1, n) \in TableRows
    BY PrefixRows DEF TypeOK
  <2>3. IndexTyped(disk')
    BY <2>1, <2>2, BuiltPoints
  <2> QED BY <1>12, <2>3, NoJobTyped DEF LoadFails, TypeOK
<1>13. CASE LoadRefused
  BY <1>13, NoJobTyped DEF LoadRefused, TypeOK
<1>14. ASSUME NEW n \in 0 .. MaxRows, KillDuringRebuild(n) PROVE TypeOK'
  <2>1. n \in Nat /\ 1 \in Ints /\ DOMAIN EmptyMap \subseteq Ints
    BY DatabaseAssumption, IntsTyped, EmptyIndexTyped
  <2>2. IndexTyped(disk')
    BY <1>14, <2>1, TornFields DEF KillDuringRebuild
  <2> QED BY <1>14, <2>2 DEF KillDuringRebuild, TypeOK
<1>15. CASE ExecuteSelect \/ InsertRefused \/ InsertDuplicate
  <2>1. IndexTyped(disk') /\ indexTime' \in 0 .. MaxClock
    BY <1>15, SettleTyped DEF ExecuteSelect, InsertRefused, InsertDuplicate, TypeOK
  <2>2. /\ pc' = "idle" /\ job' = NoJob
        /\ UNCHANGED <<rows, tableTime, clock, tableVars, history>>
    BY <1>15 DEF ExecuteSelect, InsertRefused, InsertDuplicate
  <2> QED BY <2>1, <2>2, NoJobTyped DEF TypeOK
<1>16. CASE InsertAppend
  <2>1. /\ rows' \in TableRows
        /\ job' \in [kind : {"none", "select", "scan", "insert"}, id : ExplicitIds \cup {AutoId},
                     length : RowLengths, offset : Nat]
    BY <1>16, RowAppended DEF InsertAppend, Lengthened
  <2>2. failed' \subseteq Failures \cup {"copy"}
    BY <1>16 DEF InsertAppend, Fault, TypeOK
  <2>3. IndexTyped(disk') /\ indexTime' \in 0 .. MaxClock
    BY <1>16, SettleTyped DEF InsertAppend
  <2>4. /\ pc' = "append" /\ tableTime' = clock
        /\ UNCHANGED <<clock, tableVars, acked>>
    BY <1>16 DEF InsertAppend, AppendRow
  <2> QED BY <2>1, <2>2, <2>3, <2>4 DEF TypeOK
<1>17. CASE InsertAppendFails
  <2>1. failed' \subseteq Failures \cup {"copy"}
    BY <1>17 DEF InsertAppendFails, Fault, TypeOK
  <2>2. IndexTyped(disk') /\ indexTime' \in 0 .. MaxClock
    BY <1>17, SettleTyped DEF InsertAppendFails
  <2>3. Len(rows) + 1 \in Nat
    BY TableRowTyped DEF TypeOK
  <2>4. job' \in [kind : {"none", "select", "scan", "insert"}, id : ExplicitIds \cup {AutoId},
                  length : RowLengths, offset : Nat]
    BY <1>17, <2>3 DEF InsertAppendFails, TypeOK
  <2>5. rows' \in TableRows /\ tableTime' \in 0 .. MaxClock
    <3>1. CASE UNCHANGED <<rows, tableTime>>
      BY <3>1 DEF TypeOK
    <3>2. CASE AppendPart
      BY <3>2, PartAppended DEF Lengthened, TypeOK
    <3> QED BY <1>17, <3>1, <3>2 DEF InsertAppendFails
  <2>6. pc' = "append" /\ UNCHANGED <<clock, tableVars, acked>>
    BY <1>17 DEF InsertAppendFails
  <2> QED BY <2>1, <2>2, <2>4, <2>5, <2>6 DEF TypeOK
<1>22. CASE KillDuringAppend
  <2>1. IndexTyped(disk') /\ indexTime' \in 0 .. MaxClock
    BY <1>22, SettleTyped DEF KillDuringAppend
  <2>2. rows' \in TableRows /\ tableTime' \in 0 .. MaxClock
    BY <1>22, PartAppended DEF KillDuringAppend, Lengthened, TypeOK
  <2>3. failed' \subseteq Failures \cup {"copy"} /\ pc' = "down" /\ loaded' = FALSE
    BY <1>22 DEF KillDuringAppend, TypeOK
  <2>4. UNCHANGED <<clock, job, written, index, nextId, rowCount, acked>>
    BY <1>22 DEF KillDuringAppend
  <2> QED BY <2>1, <2>2, <2>3, <2>4 DEF TypeOK
<1>18. CASE InsertIndex
  <2>1. IndexTyped(Extended) /\ IndexTyped(written)
    BY ExtendedFields DEF TypeOK
  <2>2. index' = Extended /\ written' = Extended /\ disk' = Unsettled(Extended, written)
    BY <1>18 DEF InsertIndex
  <2>3. IndexTyped(index') /\ IndexTyped(written') /\ IndexTyped(disk')
    BY <2>1, <2>2, UnsettledFields
  <2>4. nextId' \in Ints /\ acked' \subseteq Ints /\ rowCount' \in Nat
    BY <1>18, InsertIdTyped, NextIdTyped DEF InsertIndex, TypeOK
  <2> QED BY <1>18, <2>3, <2>4, NoJobTyped DEF InsertIndex, TypeOK
<1>19. CASE InsertIndexDuplicate
  BY <1>19, NoJobTyped DEF InsertIndexDuplicate, TypeOK
<1>20. CASE InsertIndexFails
  <2>1. IndexTyped(index') /\ IndexTyped(written') /\ IndexTyped(disk')
    BY <1>20, FailedInsertFields
  <2>2. failed' \subseteq Failures \cup {"copy"}
    BY <1>20 DEF InsertIndexFails, Fault, TypeOK
  <2>3. /\ indexTime' = clock /\ pc' = "idle" /\ job' = NoJob
        /\ UNCHANGED <<rows, tableTime, clock, loaded, nextId, rowCount, acked>>
    BY <1>20 DEF InsertIndexFails
  <2> QED BY <2>1, <2>2, <2>3, NoJobTyped DEF TypeOK
<1>21. CASE UNCHANGED vars
  BY <1>21 DEF vars, TypeOK
<1> QED BY <1>1, <1>2, <1>3, <1>4, <1>5, <1>6, <1>7, <1>8, <1>9, <1>10, <1>11, <1>12, <1>13,
           <1>14, <1>15, <1>16, <1>17, <1>18, <1>19, <1>20, <1>21, <1>22 DEF Next

-----------------------------------------------------------------------------
(* Where the entries lead                                                  *)

(* Nothing that went wrong is forgotten.                                   *)
LEMMA FailedGrows == [Next]_vars => failed \subseteq failed'
<1> SUFFICES ASSUME [Next]_vars PROVE failed \subseteq failed'
  OBVIOUS
<1> USE DEF fileVars, tableVars, history
<1>1. CASE Start \/ Quit \/ Tick \/ LoadCached \/ LoadKeep \/ LoadRebuild \/ LoadFails \/ LoadRefused
  BY <1>1 DEF Start, Quit, Tick, LoadCached, LoadKeep, LoadRebuild, LoadFails, LoadRefused
<1>2. CASE \/ \E kind \in {"select", "scan"} : Request(kind, AutoId, "short")
           \/ \E id \in ExplicitIds \cup {AutoId} : \E length \in Lengths :
                 Len(rows) < MaxRows /\ Request("insert", id, length)
  BY <1>2 DEF Request
<1>3. CASE Kill \/ EditTable \/ KillDuringAppend \/ (\E n \in 0 .. MaxRows : KillDuringRebuild(n))
  BY <1>3 DEF Kill, EditTable, KillDuringAppend, KillDuringRebuild
<1>4. CASE \E r \in Copies : \E time \in {0, clock} : CopyTable(r, time)
  BY <1>4 DEF CopyTable
<1>5. CASE \/ ExecuteSelect \/ InsertRefused \/ InsertDuplicate \/ InsertIndex
           \/ InsertIndexDuplicate \/ UNCHANGED vars
  BY <1>5 DEF ExecuteSelect, InsertRefused, InsertDuplicate, InsertIndex, InsertIndexDuplicate, vars
<1>6. CASE InsertAppend \/ InsertAppendFails \/ InsertIndexFails
  BY <1>6 DEF InsertAppend, InsertAppendFails, InsertIndexFails, Fault
<1> QED BY <1>1, <1>2, <1>3, <1>4, <1>5, <1>6 DEF Next

LEMMA PlacesInit == Init => PlacesRight
BY EmptyIndexTyped DEF Init, PlacesRight, PointsRight

LEMMA PlacesStep == TypeOK /\ PlacesRight /\ [Next]_vars => PlacesRight'
<1> SUFFICES ASSUME TypeOK, PlacesRight, [Next]_vars, failed' \cap {"tbl", "copy"} = {}
             PROVE  /\ PointsRight(disk'.map, rows') /\ PointsRight(written'.map, rows')
                    /\ PointsRight(index'.map, rows')
                    /\ pc' = "append" =>
                          job'.offset \in DOMAIN rows' /\ rows'[job'.offset].id = InsertId'
  BY DEF PlacesRight
<1> USE DEF fileVars, tableVars, history
<1>1. /\ PointsRight(disk.map, rows) /\ PointsRight(written.map, rows) /\ PointsRight(index.map, rows)
      /\ pc = "append" => job.offset \in DOMAIN rows /\ rows[job.offset].id = InsertId
  BY FailedGrows DEF PlacesRight
<1>2. rows \in TableRows /\ Len(rows) \in Nat
  BY TableRowTyped DEF TypeOK
<1>3. CASE \/ Start \/ Quit \/ Tick \/ LoadCached \/ LoadKeep \/ LoadRefused
           \/ (\E kind \in {"select", "scan"} : Request(kind, AutoId, "short"))
           \/ (\E id \in ExplicitIds \cup {AutoId} : \E length \in Lengths :
                 Len(rows) < MaxRows /\ Request("insert", id, length))
           \/ ExecuteSelect \/ InsertRefused \/ InsertDuplicate \/ InsertIndexDuplicate
           \/ UNCHANGED vars
  <2>1. /\ rows' = rows
        /\ disk' \in {disk, written} /\ written' \in {written, disk} /\ index' \in {index, disk}
        /\ pc' = "append" => pc = "append" /\ job' = job /\ nextId' = nextId
    <3>1. CASE Start \/ Quit \/ Tick
      BY <3>1 DEF Start, Quit, Tick, Settle
    <3>2. CASE LoadCached \/ LoadKeep \/ LoadRefused
      BY <3>2 DEF LoadCached, LoadKeep, LoadRefused
    <3>3. CASE \/ \E kind \in {"select", "scan"} : Request(kind, AutoId, "short")
               \/ \E id \in ExplicitIds \cup {AutoId} : \E length \in Lengths :
                     Len(rows) < MaxRows /\ Request("insert", id, length)
      BY <3>3 DEF Request
    <3>4. CASE \/ ExecuteSelect \/ InsertRefused \/ InsertDuplicate \/ InsertIndexDuplicate
               \/ UNCHANGED vars
      BY <3>4 DEF ExecuteSelect, InsertRefused, InsertDuplicate, InsertIndexDuplicate, Settle, vars
    <3> QED BY <1>3, <3>1, <3>2, <3>3, <3>4
  <2>2. pc' = "append" => InsertId' = InsertId
    BY <2>1 DEF InsertId
  <2> QED BY <1>1, <2>1, <2>2
<1>4. CASE Kill
  <2>1. disk'.map = disk.map
    BY <1>4, TornTyped DEF Kill, TypeOK
  <2> QED BY <1>1, <1>4, <2>1 DEF Kill
<1>5. CASE \E r \in Copies : \E time \in {0, clock} : CopyTable(r, time)
  BY <1>5 DEF CopyTable
<1>6. CASE EditTable
  <2>1. Keeps(rows, rows')
    BY <1>6, EditedRows
  <2> QED BY <1>1, <1>6, <2>1, KeepsPoints DEF EditTable
<1>7. CASE LoadRebuild
  <2> DEFINE ix == BuiltIndex(rows)
  <2>1. IndexTyped(ix) /\ PointsRight(ix.map, rows)
    BY <1>2, BuiltPoints
  <2>2. index' = ix /\ written' = ix /\ rows' = rows /\ pc' = "execute"
    BY <1>7 DEF LoadRebuild
  <2> HIDE DEF ix
  <2>3. disk'.map = ix.map
    <3>1. CASE rows = <<>>
      BY <1>7, <2>2, <3>1 DEF LoadRebuild
    <3>2. CASE rows # <<>>
      <4>1. disk' = Unsettled(ix, BuiltIndex(Front(rows)))
        BY <1>7, <2>2, <3>2 DEF LoadRebuild
      <4> QED BY <4>1 DEF Unsettled, Index
    <3> QED BY <3>1, <3>2
  <2> QED BY <2>1, <2>2, <2>3
<1>8. CASE LoadFails
  <2>1. PICK n \in 0 .. Len(rows) : disk' = BuiltIndex(SubSeq(rows, 1, n))
    BY <1>8, FailedRows
  <2>2. SubSeq(rows, 1, n) \in TableRows /\ Keeps(SubSeq(rows, 1, n), rows)
    BY <1>2, PrefixRows
  <2>3. PointsRight(disk'.map, rows)
    BY <2>1, <2>2, BuiltPoints, KeepsPoints
  <2> QED BY <1>1, <1>8, <2>3 DEF LoadFails
<1>9. ASSUME NEW n \in 0 .. MaxRows, KillDuringRebuild(n) PROVE PlacesRight'
  <2>1. disk'.map = EmptyMap /\ DOMAIN EmptyMap = {}
    BY <1>9, EmptyIndexTyped DEF KillDuringRebuild, Index
  <2>2. PointsRight(disk'.map, rows')
    BY <2>1 DEF PointsRight
  <2> QED BY <1>1, <1>9, <2>2 DEF KillDuringRebuild, PlacesRight
<1>10. CASE InsertAppend
  <2>1. Lengthened(rows, rows', InsertId) /\ job'.offset = Len(rows) + 1 /\ InsertId' = InsertId
    BY <1>10, RowAppended DEF InsertAppend, InsertId
  <2>2. Keeps(rows, rows') /\ Len(rows) + 1 \in DOMAIN rows' /\ rows'[Len(rows) + 1].id = InsertId
    BY <1>2, <2>1, LengthenedIds DEF Lengthened
  <2>3. disk' = written /\ written' = written /\ index' = index
    BY <1>10 DEF InsertAppend, Settle
  <2> QED BY <1>1, <2>1, <2>2, <2>3, KeepsPoints
<1>11. CASE InsertAppendFails
  BY <1>11 DEF InsertAppendFails, Fault
<1>14. CASE KillDuringAppend
  <2>1. Lengthened(rows, rows', InsertId)
    BY <1>14, PartAppended DEF KillDuringAppend
  <2>2. Keeps(rows, rows') /\ pc' = "down"
    BY <1>14, <2>1 DEF Lengthened, KillDuringAppend
  <2>3. disk' = written /\ written' = written /\ index' = index
    BY <1>14 DEF KillDuringAppend, Settle
  <2> QED BY <1>1, <2>2, <2>3, KeepsPoints
<1>12. CASE InsertIndex
  <2>1. index' = Extended /\ written' = Extended /\ disk' = Unsettled(Extended, written)
    BY <1>12 DEF InsertIndex
  <2>2. PointsRight(Extended.map, rows)
    BY <1>1, <1>12, ExtendedFields DEF PointsRight, InsertIndex
  <2>3. disk'.map = Extended.map
    BY <2>1 DEF Unsettled, Index
  <2> QED BY <1>12, <2>1, <2>2, <2>3 DEF InsertIndex
<1>13. CASE InsertIndexFails
  <2>1. PointsRight(Extended.map, rows)
    BY <1>1, <1>13, ExtendedFields DEF PointsRight, InsertIndexFails
  <2>2. /\ written'.map = index'.map /\ disk'.map = index'.map
        /\ DOMAIN index'.map \subseteq DOMAIN Extended.map
        /\ \A k \in DOMAIN index'.map : index'.map[k] = Extended.map[k]
    BY <1>13, FailedInsertFields
  <2>3. rows' = rows /\ pc' = "idle"
    BY <1>13 DEF InsertIndexFails
  <2>4. PointsRight(index'.map, rows)
    BY <2>1, <2>2 DEF PointsRight
  <2> QED BY <2>2, <2>3, <2>4
<1> QED BY <1>3, <1>4, <1>5, <1>6, <1>7, <1>8, <1>9, <1>10, <1>11, <1>12, <1>13, <1>14
        DEF Next, PlacesRight

-----------------------------------------------------------------------------
(* The entries of rows on lines of their own                               *)

(* WHERE id = k visits the entry of k and no other.                        *)
LEMMA FoundByKey ==
    ASSUME NEW k \in DOMAIN index.map,
           index.map[k] \in RowsLike(rows, {"short", "open", "tail"})
    PROVE  IndexedSelect("=", k) = Answer(TRUE, {<<k, index.map[k]>>})
<1> DEFINE visited == {j \in DOMAIN index.map : Holds("=", j, k)}
<1>1. visited = {k}
  BY DEF Holds
<1>2. {<<j, index.map[j]>> : j \in visited} = {<<k, index.map[k]>>}
  BY <1>1
<1>3. \A j \in visited : index.map[j] \in RowsLike(rows, {"short", "open", "tail"})
  BY <1>1
<1> QED BY <1>2, <1>3 DEF IndexedSelect

(* The count of lines is at least that of the rows that begin one.         *)
LEMMA LinesCounted ==
    ASSUME NEW r \in TableRows, NEW n \in 0 .. Len(r), Startable(r, n),
           NEW i \in RowsLike(r, {"short"}), i > n
    PROVE  CountTableRows(r) > n
<1> DEFINE D == DOMAIN r
           T == RowsLike(r, {"tail", "longtail"})
           L == RowsLike(r, {"long", "longtail"})
           S == (1 .. n) \cup {i}
<1>1. Len(r) \in Nat /\ D = 1 .. Len(r) /\ n \in Nat /\ n <= Len(r)
  BY TableRowTyped
<1>2. T \subseteq D /\ L \subseteq D /\ i \in D /\ i \notin 1 .. n /\ 1 .. n \subseteq D
  BY <1>1 DEF RowsLike
<1>3. S \cap T = {}
  BY <1>1 DEF RowsLike, Startable
<1> DEFINE N == 1 .. n
<1> HIDE DEF D, T, L, N
<1>4. IsFiniteSet(D) /\ Cardinality(D) = Len(r)
  <2> DEFINE m == Len(r)
  <2>1. m \in Nat /\ D = 1 .. m
    BY <1>1
  <2> HIDE DEF m
  <2>2. IsFiniteSet(1 .. m) /\ Cardinality(1 .. m) = m
    BY <2>1, FS_Interval
  <2> QED BY <2>1, <2>2 DEF m
<1>5. IsFiniteSet(N) /\ Cardinality(N) = n
  BY <1>1, FS_Interval DEF N
<1>6. IsFiniteSet(T) /\ IsFiniteSet(L) /\ Cardinality(L) \in Nat /\ Cardinality(T) \in Nat
  BY <1>2, <1>4, FS_Subset, FS_CardinalityType
<1>7. IsFiniteSet(N \cup {i}) /\ Cardinality(N \cup {i}) = n + 1
  BY <1>2, <1>5, FS_AddElement DEF N
<1>8. IsFiniteSet(D \ T) /\ Cardinality(D \ T) = Len(r) - Cardinality(T)
  <2>1. D \cap T = T
    BY <1>2
  <2>2. IsFiniteSet(D \ T) /\ Cardinality(D \ T) = Cardinality(D) - Cardinality(D \cap T)
    BY <1>4, FS_Difference
  <2> QED BY <1>4, <2>1, <2>2
<1>9. N \cup {i} \subseteq D \ T
  BY <1>2, <1>3 DEF N
<1>10. n + 1 <= Len(r) - Cardinality(T)
  BY <1>7, <1>8, <1>9, FS_Subset
<1>11. CountTableRows(r) = Len(r) + Cardinality(L) - Cardinality(T)
  BY DEF CountTableRows, L, T
<1> QED BY <1>1, <1>6, <1>10, <1>11

(* The index that a load leaves behind, whether it succeeds or fails: the  *)
(* rows it holds are the first ones.                                       *)
LEMMA PrefixServes ==
    ASSUME NEW r \in TableRows, NEW n \in 0 .. Len(r), Startable(r, n)
    PROVE  LET ix == BuiltIndex(SubSeq(r, 1, n))
           IN  /\ ix.size = n
               /\ \A i \in 1 .. n : r[i].id \in DOMAIN ix.map /\ ix.map[r[i].id] = i
<1> DEFINE p == SubSeq(r, 1, n)
           ix == BuiltIndex(p)
<1>1. p \in TableRows /\ Len(p) = n /\ \A i \in 1 .. n : p[i] = r[i]
  BY PrefixRows
<1> HIDE DEF p
<1>2. ix.size = n /\ DOMAIN ix.map = IdsOf(p) /\ PointsRight(ix.map, p) /\ DOMAIN p = 1 .. n
  BY <1>1, BuiltPoints, TableRowTyped
<1> HIDE DEF ix
<1>3. \A i \in 1 .. n : r[i].id \in IdsOf(p)
  BY <1>1, <1>2 DEF IdsOf
<1>4. \A i \in 1 .. n : ix.map[r[i].id] \in 1 .. n /\ r[ix.map[r[i].id]].id = r[i].id
  BY <1>1, <1>2, <1>3 DEF PointsRight
<1>5. \A i \in 1 .. n : ix.map[r[i].id] = i
  BY <1>4 DEF Startable
<1> QED BY <1>2, <1>3, <1>5 DEF p, ix

LEMMA RebuiltServes ==
    ASSUME NEW r \in TableRows, BuildSucceeds(r)
    PROVE  ServesShort(BuiltIndex(r).map, r)
<1>1. Len(r) \in Nat /\ DOMAIN r = 1 .. Len(r)
  BY TableRowTyped
<1>2. PointsRight(BuiltIndex(r).map, r) /\ DOMAIN BuiltIndex(r).map = IdsOf(r)
  BY BuiltPoints
<1> DEFINE m == BuiltIndex(r).map
<1> HIDE DEF m
<1>3. \A i \in 1 .. Len(r) : \A j \in 1 .. i - 1 : r[j].id # r[i].id
  BY <1>1 DEF BuildSucceeds, Indexable
<1>4. ASSUME NEW i \in 1 .. Len(r), NEW j \in 1 .. Len(r), r[i].id = r[j].id
      PROVE  i = j
  <2>1. ~(i < j)
    BY <1>1, <1>3, <1>4
  <2>2. ~(j < i)
    BY <1>1, <1>3, <1>4
  <2> QED BY <1>1, <2>1, <2>2
<1>5. \A i \in 1 .. Len(r) : r[i].id \in DOMAIN m
  BY <1>1, <1>2 DEF IdsOf, m
<1>6. \A i \in 1 .. Len(r) : m[r[i].id] \in 1 .. Len(r) /\ r[m[r[i].id]].id = r[i].id
  BY <1>1, <1>2, <1>5 DEF PointsRight, m
<1>7. \A i \in 1 .. Len(r) : m[r[i].id] = i
  BY <1>4, <1>6
<1> QED BY <1>1, <1>5, <1>7 DEF ServesShort, RowsLike, m

(* After a failed load either the file does not count as many keys as the  *)
(* table has lines, or all rows on lines of their own are in it.           *)
LEMMA FailedLoadServes ==
    ASSUME TypeOK, LoadFails, disk'.size = CountTableRows(rows)
    PROVE  ServesShort(disk'.map, rows)
<1>1. rows \in TableRows /\ Len(rows) \in Nat /\ DOMAIN rows = 1 .. Len(rows)
  BY TableRowTyped DEF TypeOK
<1>2. PICK n \in 0 .. Len(rows) : disk' = BuiltIndex(SubSeq(rows, 1, n)) /\ Startable(rows, n)
  BY FailedRows
<1>3. /\ disk'.size = n
      /\ \A i \in 1 .. n : rows[i].id \in DOMAIN disk'.map /\ disk'.map[rows[i].id] = i
  BY <1>1, <1>2, PrefixServes
<1>4. ASSUME NEW i \in RowsLike(rows, {"short"}) PROVE i \in 1 .. n
  <2>1. ~(i > n)
    BY <1>1, <1>2, <1>3, LinesCounted
  <2> QED BY <1>1, <2>1 DEF RowsLike
<1> QED BY <1>3, <1>4 DEF ServesShort

(* The new row, or nothing, or a part of it, is behind the others.         *)
LEMMA AppendedServes ==
    ASSUME NEW r \in TableRows, NEW q, NEW id, NEW map, ServesShort(map, r), id \notin DOMAIN map,
           q = r \/ (Lengthened(r, q, id) /\ ShortStay(r, q))
    PROVE  ServesShortSoon(map, q, id, Len(r) + 1)
<1> SUFFICES ASSUME NEW i \in RowsLike(q, {"short"})
             PROVE  IF q[i].id = id THEN i = Len(r) + 1
                    ELSE q[i].id \in DOMAIN map /\ map[q[i].id] = i
  BY DEF ServesShortSoon
<1>1. CASE i \in RowsLike(r, {"short"})
  <2>1. q[i].id = r[i].id
    BY <1>1 DEF Lengthened, Keeps, RowsLike
  <2> QED BY <1>1, <2>1 DEF ServesShort
<1>2. CASE i = Len(r) + 1 /\ Lengthened(r, q, id)
  BY <1>2 DEF Lengthened
<1> QED BY <1>1, <1>2 DEF ShortStay

LEMMA ServedInit == Init => ShortRowsServed
BY EmptyIndexTyped DEF Init, ShortRowsServed

LEMMA ServedStep == TypeOK /\ ShortRowsServed /\ [Next]_vars => ShortRowsServed'
<1> SUFFICES ASSUME TypeOK, ShortRowsServed, [Next]_vars, failed' \subseteq {"tbl"}
             PROVE  /\ pc' = "down" => ~loaded'
                    /\ pc' \in {"execute", "append"} => loaded'
                    /\ ~loaded' /\ disk'.size = CountTableRows(rows') /\ disk'.size # 0 =>
                          ServesShort(disk'.map, rows')
                    /\ loaded' => written' = index'
                    /\ loaded' /\ pc' # "append" => ServesShort(index'.map, rows')
                    /\ pc' = "append" =>
                          ServesShortSoon(index'.map, rows', InsertId', job'.offset)
  BY DEF ShortRowsServed
<1> USE DEF fileVars, tableVars, history
<1>1. failed \subseteq failed' /\ failed \subseteq {"tbl"}
  BY FailedGrows
<1>2. /\ pc = "down" => ~loaded
      /\ pc \in {"execute", "append"} => loaded
      /\ ~loaded /\ disk.size = CountTableRows(rows) /\ disk.size # 0 =>
            ServesShort(disk.map, rows)
      /\ loaded => written = index
      /\ loaded /\ pc # "append" => ServesShort(index.map, rows)
      /\ pc = "append" => ServesShortSoon(index.map, rows, InsertId, job.offset)
  BY <1>1 DEF ShortRowsServed
<1>3. rows \in TableRows
  BY DEF TypeOK
<1>4. CASE Start
  <2>1. pc = "down" /\ pc' = "idle" /\ ~loaded /\ ~loaded'
    BY <1>2, <1>4 DEF Start
  <2>2. UNCHANGED <<rows, disk>>
    BY <1>4 DEF Start
  <2> QED BY <1>2, <2>1, <2>2
<1>5. CASE Quit
  <2>1. pc = "idle" /\ pc' = "down" /\ ~loaded' /\ rows' = rows
    BY <1>5 DEF Quit
  <2>2. CASE loaded
    <3>1. disk' = index
      BY <1>2, <1>5, <2>2 DEF Quit, Settle
    <3> QED BY <1>2, <2>1, <2>2, <3>1
  <2>3. CASE ~loaded
    <3>1. disk' = disk
      BY <1>5, <2>3 DEF Quit
    <3> QED BY <1>2, <2>1, <2>3, <3>1
  <2> QED BY <2>2, <2>3
<1>6. CASE Tick \/ UNCHANGED vars
  <2>1. UNCHANGED <<fileVars, pc, job, tableVars, history>>
    BY <1>6 DEF Tick, vars
  <2>2. InsertId' = InsertId
    BY <2>1 DEF InsertId
  <2> QED BY <1>2, <2>1, <2>2
<1>7. CASE Kill \/ EditTable \/ KillDuringAppend \/ (\E n \in 0 .. MaxRows : KillDuringRebuild(n))
  <2>1. "kill" \in failed' \/ "edit" \in failed'
    BY <1>7 DEF Kill, EditTable, KillDuringAppend, KillDuringRebuild
  <2> QED BY <2>1
<1>8. CASE \E r \in Copies : \E time \in {0, clock} : CopyTable(r, time)
  BY <1>8 DEF CopyTable
<1>9. CASE \/ \E kind \in {"select", "scan"} : Request(kind, AutoId, "short")
           \/ \E id \in ExplicitIds \cup {AutoId} : \E length \in Lengths :
                 Len(rows) < MaxRows /\ Request("insert", id, length)
  <2>1. pc = "idle" /\ pc' = "load" /\ UNCHANGED <<fileVars, tableVars, history>>
    BY <1>9 DEF Request
  <2> QED BY <1>2, <2>1
<1>10. CASE LoadCached \/ LoadRefused
  <2>1. /\ pc = "load" /\ UNCHANGED <<fileVars, tableVars, history>>
        /\ (pc' = "execute" /\ loaded) \/ pc' = "idle"
    BY <1>10 DEF LoadCached, LoadRefused
  <2> QED BY <1>2, <2>1
<1>11. CASE LoadKeep
  <2>1. disk.size = CountTableRows(rows) /\ disk.size # 0 /\ ~loaded
    BY <1>11 DEF LoadKeep, ShouldRebuild
  <2>2. loaded' /\ written' = disk /\ index' = disk /\ pc' = "execute" /\ rows' = rows
    BY <1>11 DEF LoadKeep
  <2> QED BY <1>2, <2>1, <2>2
<1>12. CASE LoadRebuild
  <2> DEFINE ix == BuiltIndex(rows)
  <2>1. ServesShort(ix.map, rows)
    BY <1>3, <1>12, RebuiltServes DEF LoadRebuild
  <2>2. index' = ix /\ written' = ix /\ rows' = rows /\ pc' = "execute" /\ loaded'
    BY <1>12 DEF LoadRebuild
  <2> HIDE DEF ix
  <2> QED BY <2>1, <2>2
<1>13. CASE LoadFails
  <2>1. rows' = rows /\ pc' = "idle" /\ ~loaded'
    BY <1>13 DEF LoadFails
  <2> QED BY <1>13, <2>1, FailedLoadServes
<1>14. CASE ExecuteSelect \/ InsertRefused \/ InsertDuplicate
  <2>1. pc = "execute" /\ pc' = "idle" /\ UNCHANGED <<rows, tableVars, history>>
    BY <1>14 DEF ExecuteSelect, InsertRefused, InsertDuplicate
  <2> QED BY <1>2, <2>1
<1>15. CASE InsertAppend
  <2>1. /\ Lengthened(rows, rows', InsertId) /\ ShortStay(rows, rows')
        /\ job'.offset = Len(rows) + 1 /\ InsertId' = InsertId
        /\ pc = "execute" /\ pc' = "append" /\ UNCHANGED tableVars
    BY <1>15, RowAppended DEF InsertAppend, InsertId
  <2>2. InsertId \notin DOMAIN index.map
    BY <1>1, <1>15 DEF InsertAppend, Fault
  <2>3. ServesShort(index.map, rows)
    BY <1>2, <2>1
  <2>4. ServesShortSoon(index.map, rows', InsertId, Len(rows) + 1)
    BY <1>3, <2>1, <2>2, <2>3, AppendedServes
  <2> QED BY <1>2, <2>1, <2>4
<1>16. CASE InsertAppendFails
  <2>1. /\ pc = "execute" /\ pc' = "append" /\ UNCHANGED tableVars
        /\ InsertId \notin DOMAIN index.map
        /\ job' = [job EXCEPT !.offset = Len(rows) + 1]
    BY <1>16 DEF InsertAppendFails
  <2>2. InsertId' = InsertId /\ job'.offset = Len(rows) + 1
    BY <2>1 DEF InsertId, TypeOK
  <2>3. rows' = rows \/ (Lengthened(rows, rows', InsertId) /\ ShortStay(rows, rows'))
    BY <1>16, PartAppended DEF InsertAppendFails
  <2>4. ServesShort(index.map, rows)
    BY <1>2, <2>1
  <2>5. ServesShortSoon(index.map, rows', InsertId, Len(rows) + 1)
    BY <1>3, <2>1, <2>3, <2>4, AppendedServes
  <2> QED BY <1>2, <2>1, <2>2, <2>5
<1>17. CASE InsertIndex
  <2>1. /\ index' = Extended /\ written' = Extended /\ rows' = rows
        /\ pc = "append" /\ pc' = "idle" /\ loaded' = loaded
    BY <1>17 DEF InsertIndex
  <2>2. /\ DOMAIN Extended.map = DOMAIN index.map \cup {InsertId}
        /\ \A k \in DOMAIN Extended.map :
              Extended.map[k] = IF k = InsertId THEN job.offset ELSE index.map[k]
    BY ExtendedFields
  <2>3. ServesShortSoon(index.map, rows, InsertId, job.offset) /\ loaded
    BY <1>2, <2>1
  <2>4. ServesShort(Extended.map, rows)
    BY <2>2, <2>3 DEF ServesShort, ServesShortSoon
  <2> QED BY <2>1, <2>3, <2>4
<1>18. CASE InsertIndexDuplicate
  BY <1>2, <1>18 DEF InsertIndexDuplicate, ServesShortSoon
<1>19. CASE InsertIndexFails
  BY <1>19 DEF InsertIndexFails, Fault
<1> QED BY <1>4, <1>5, <1>6, <1>7, <1>8, <1>9, <1>10, <1>11, <1>12, <1>13, <1>14, <1>15, <1>16,
           <1>17, <1>18, <1>19 DEF Next

-----------------------------------------------------------------------------
(* The theorems                                                            *)

(* The types and both invariants hold in every run of shell and server on  *)
(* a table, whatever fails and whoever changes the file.                   *)
THEOREM FaultInvariance == Spec => []FaultInv
<1>1. Init => FaultInv
  BY TypeInit, PlacesInit, ServedInit DEF FaultInv
<1>2. FaultInv /\ [Next]_vars => FaultInv'
  BY TypeStep, PlacesStep, ServedStep DEF FaultInv
<1> QED BY <1>1, <1>2, PTL DEF Spec

(* The columns of the table in memory, the two files and the running       *)
(* statement keep their types.                                             *)
THEOREM TypeCorrectness == Spec => []TypeOK
<1>1. FaultInv => TypeOK
  BY DEF FaultInv
<1> QED BY <1>1, FaultInvariance, PTL

(* Unless somebody copies another file over the table or an append is      *)
(* lost, WHERE id never returns a row of another id (database.c 659),      *)
(* after any number of kills, failed reads and writes of the index, long   *)
(* lines and lines without a newline.                                      *)
THEOREM EntriesLeadToTheirRows == Spec => []("copy" \notin failed => IndexNeverPointsWrong)
<1>1. FaultInv => ("copy" \notin failed => IndexNeverPointsWrong)
  BY DEF FaultInv, PlacesRight, IndexNeverPointsWrong
<1> QED BY <1>1, FaultInvariance, PTL

(* An append that fails, wholly or half way, costs no other row: the rows  *)
(* on lines of their own stay findable by their ids (database.c 345-366,   *)
(* 487-489, 1101-1120), also when the lost row was never missed.           *)
THEOREM FailedAppendsCostNoOtherRow == Spec => []WholeRowsAreFound
<1>1. FaultInv => WholeRowsAreFound
  <2> SUFFICES ASSUME FaultInv, failed \subseteq {"tbl"}, Ready, NEW i \in RowsLike(rows, {"short"})
               PROVE  IndexedSelect("=", rows[i].id) = Answer(TRUE, {<<rows[i].id, i>>})
    BY DEF WholeRowsAreFound
  <2>1. rows[i].id \in DOMAIN index.map /\ index.map[rows[i].id] = i
    BY DEF FaultInv, ShortRowsServed, Ready, ServesShort
  <2>2. i \in RowsLike(rows, {"short", "open", "tail"})
    BY DEF RowsLike
  <2> QED BY <2>1, <2>2, FoundByKey
<1> QED BY <1>1, FaultInvariance, PTL

=============================================================================
