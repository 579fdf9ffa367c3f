---------------------------- MODULE Seeder_proofs ---------------------------
(***************************************************************************)
(* The table and its index through inserts, kills and restarts, for every  *)
(* number of rows, ids and seconds, and with the seeder.                   *)
(***************************************************************************)
EXTENDS Seeder, Database_proofs

-----------------------------------------------------------------------------
(* Ids and next ids                                                        *)

LEMMA ShortIsTable ==
    \A r \in ShortRows : r \in TableRows
<1> SUFFICES ASSUME NEW r \in ShortRows PROVE r \in TableRows
  OBVIOUS
<1> DEFINE S == [id : Ints, length : {"short"}]
           T == [id : Ints, length : LineKinds]
<1>1. S \subseteq T
  BY DEF LineKinds
<1>2. r \in Seq(S)
  BY DEF ShortRows
<1> HIDE DEF S, T
<1>3. r \in Seq(T)
  BY <1>1, <1>2, SeqMonotonic
<1> QED BY <1>3 DEF TableRows, T

LEMMA RowTyped ==
    ASSUME NEW r \in ShortRows
    PROVE  /\ Len(r) \in Nat
           /\ DOMAIN r = 1 .. Len(r)
           /\ \A i \in 1 .. Len(r) : r[i].id \in Ints /\ r[i].length = "short"
<1>1. \A i \in 1 .. Len(r) : r[i] \in [id : Ints, length : {"short"}]
  BY ElementOfSeq DEF ShortRows
<1> QED BY <1>1 DEF ShortRows

LEMMA NextIdOfNone == NextIdOf(<<>>) = 1
<1>1. <<>> \in ShortRows /\ Len(<<>>) = 0
  BY DEF ShortRows
<1>2. PICK f : NextTrace(f, <<>>) /\ NextIdOf(<<>>) = f[Len(<<>>)]
  BY <1>1, NextIdIsTraced, ShortIsTable
<1> QED BY <1>1, <1>2 DEF NextTrace

(* One more row takes next_id one step further.                            *)
LEMMA NextIdOfAppend ==
    ASSUME NEW r \in ShortRows, NEW x \in [id : Ints, length : {"short"}]
    PROVE  NextIdOf(Append(r, x)) = NextIdAfter(NextIdOf(r), x.id)
<1> DEFINE q == Append(r, x)
           n == Len(r)
<1>1. /\ q \in ShortRows /\ Len(q) = n + 1 /\ n \in Nat
      /\ \A i \in 1 .. n : q[i] = r[i]
      /\ q[n + 1] = x
  BY AppendProperties, RowTyped DEF ShortRows
<1> HIDE DEF q
<1>2. PICK f : NextTrace(f, r) /\ NextIdOf(r) = f[n]
  BY NextIdIsTraced, ShortIsTable
<1>3. PICK g : NextTrace(g, q) /\ NextIdOf(q) = g[n + 1]
  BY <1>1, NextIdIsTraced, ShortIsTable
<1>4. f[0] = 1 /\ \A i \in 1 .. n : f[i] = NextIdAfter(f[i - 1], r[i].id)
  BY <1>2 DEF NextTrace
<1>5. g[0] = 1 /\ \A i \in 1 .. n + 1 : g[i] = NextIdAfter(g[i - 1], q[i].id)
  BY <1>1, <1>3 DEF NextTrace
<1> HIDE DEF n
<1> DEFINE T == {i \in Nat : i <= n => g[i] = f[i]}
<1>6. 0 \in T
  BY <1>4, <1>5
<1>7. ASSUME NEW i \in Nat, i \in T PROVE i + 1 \in T
  <2>1. SUFFICES ASSUME i + 1 <= n PROVE g[i + 1] = f[i + 1]
    OBVIOUS
  <2>2. i + 1 \in 1 .. n /\ i + 1 \in 1 .. n + 1 /\ (i + 1) - 1 = i /\ g[i] = f[i]
    BY <1>1, <1>7, <2>1
  <2>3. g[i + 1] = NextIdAfter(g[i], q[i + 1].id) /\ f[i + 1] = NextIdAfter(f[i], r[i + 1].id)
    BY <1>4, <1>5, <2>2
  <2> QED BY <1>1, <2>2, <2>3
<1> HIDE DEF T
<1>8. n \in T
  BY <1>1, <1>6, <1>7, SetInduction
<1>9. g[n] = f[n]
  BY <1>1, <1>8 DEF T
<1>10. n + 1 \in 1 .. n + 1 /\ (n + 1) - 1 = n
  BY <1>1
<1>11. g[n + 1] = NextIdAfter(g[n], q[n + 1].id)
  BY <1>5, <1>10
<1> QED BY <1>1, <1>2, <1>3, <1>9, <1>11 DEF q

(* Without the largest int among the ids, next_id is above all of them.    *)
LEMMA NextIdIsAbove ==
    ASSUME NEW r \in ShortRows, MaxInt \notin IdsOf(r), NEW k \in IdsOf(r)
    PROVE  k < NextIdOf(r)
<1> DEFINE n == Len(r)
<1>1. n \in Nat /\ DOMAIN r = 1 .. n /\ \A i \in 1 .. n : r[i].id \in Ints /\ r[i].id # MaxInt
  BY RowTyped DEF IdsOf
<1>2. PICK f : NextTrace(f, r) /\ NextIdOf(r) = f[n]
  BY NextIdIsTraced, ShortIsTable
<1>3. /\ \A i \in 0 .. n : f[i] \in Ints
      /\ \A i \in 1 .. n : f[i] = NextIdAfter(f[i - 1], r[i].id)
  BY <1>2 DEF NextTrace
<1> HIDE DEF n
<1> DEFINE T == {i \in Nat : i <= n => \A j \in 1 .. i : r[j].id < f[i]}
<1>4. 0 \in T
  OBVIOUS
<1>5. ASSUME NEW i \in Nat, i \in T PROVE i + 1 \in T
  <2>1. SUFFICES ASSUME i + 1 <= n, NEW j \in 1 .. i + 1 PROVE r[j].id < f[i + 1]
    OBVIOUS
  <2>2. i + 1 \in 1 .. n /\ (i + 1) - 1 = i /\ i \in 0 .. n /\ j \in 1 .. n
    BY <1>1, <2>1
  <2>3. f[i + 1] = NextIdAfter(f[i], r[i + 1].id)
    BY <1>3, <2>2
  <2>4. f[i] \in Int /\ r[i + 1].id \in Int /\ r[i + 1].id # MaxInt /\ r[j].id \in Int
    BY <1>1, <1>3, <2>2, IntsTyped
  <2>5. f[i] <= f[i + 1] /\ r[i + 1].id < f[i + 1] /\ f[i + 1] \in Int
    BY <2>3, <2>4 DEF NextIdAfter, Increment
  <2>6. CASE j = i + 1
    BY <2>5, <2>6
  <2>7. CASE j # i + 1
    <3>1. j \in 1 .. i /\ i <= n
      BY <1>1, <2>1, <2>7
    <3>2. r[j].id < f[i]
      BY <1>5, <3>1
    <3> QED BY <2>4, <2>5, <3>2
  <2> QED BY <2>6, <2>7
<1> HIDE DEF T
<1>6. n \in T
  BY <1>1, <1>4, <1>5, SetInduction
<1>7. \A j \in 1 .. n : r[j].id < f[n]
  BY <1>1, <1>6 DEF T
<1> QED BY <1>1, <1>2, <1>7 DEF IdsOf

(* Rows numbered from 1: next_id is the number of the next row.            *)
LEMMA NextIdIsNumber ==
    ASSUME NEW r \in ShortRows, \A i \in DOMAIN r : r[i].id = i, Len(r) < MaxInt
    PROVE  NextIdOf(r) = Len(r) + 1
<1> DEFINE n == Len(r)
<1>1. n \in Nat /\ n < MaxInt /\ \A i \in 1 .. n : r[i].id = i
  BY RowTyped
<1>2. PICK f : NextTrace(f, r) /\ NextIdOf(r) = f[n]
  BY NextIdIsTraced, ShortIsTable
<1>3. f[0] = 1 /\ \A i \in 1 .. n : f[i] = NextIdAfter(f[i - 1], r[i].id)
  BY <1>2 DEF NextTrace
<1> HIDE DEF n
<1> DEFINE T == {i \in Nat : i <= n => f[i] = i + 1}
<1>4. 0 \in T
  BY <1>3
<1>5. ASSUME NEW i \in Nat, i \in T PROVE i + 1 \in T
  <2>1. SUFFICES ASSUME i + 1 <= n PROVE f[i + 1] = (i + 1) + 1
    OBVIOUS
  <2>2. i + 1 \in 1 .. n /\ (i + 1) - 1 = i /\ f[i] = i + 1
    BY <1>1, <1>5, <2>1
  <2>3. f[i + 1] = NextIdAfter(i + 1, i + 1)
    BY <1>1, <1>3, <2>2
  <2>4. i + 1 # MaxInt
    BY <1>1, <2>1, IntsTyped
  <2> QED BY <2>3, <2>4 DEF NextIdAfter, Increment
<1> HIDE DEF T
<1>6. n \in T
  BY <1>1, <1>4, <1>5, SetInduction
<1> QED BY <1>1, <1>2, <1>6 DEF T, n

-----------------------------------------------------------------------------
(* Tables of short rows and their index                                    *)

ShortRowSet == [id : Ints, length : {"short"}]

(* Short lines are counted as rows.                                        *)
LEMMA CountIsLen ==
    ASSUME NEW r \in ShortRows
    PROVE  CountTableRows(r) = Len(r)
<1>1. RowsLike(r, {"long", "longtail"}) = {} /\ RowsLike(r, {"tail", "longtail"}) = {}
  BY RowTyped DEF RowsLike
<1>2. Cardinality({}) = 0
  BY FS_EmptySet
<1>3. Len(r) \in Nat
  BY RowTyped
<1>4. CountTableRows(r) = Len(r) + Cardinality({}) - Cardinality({})
  BY <1>1 DEF CountTableRows
<1> QED BY <1>2, <1>3, <1>4

(* In a table that can be indexed an id has one place.                     *)
LEMMA PlaceIsUnique ==
    ASSUME NEW r \in ShortRows, BuildSucceeds(r), NEW i \in DOMAIN r
    PROVE  /\ \A j \in DOMAIN r : r[j].id = r[i].id => j = i
           /\ PositionOf(r, r[i].id) = i
           /\ r[i].id \in IdsOf(r)
<1>1. Len(r) \in Nat /\ DOMAIN r = 1 .. Len(r)
  BY RowTyped
<1>2. \A j \in DOMAIN r : r[j].id = r[i].id => j = i
  <2> TAKE j \in DOMAIN r
  <2>1. CASE j < i
    <3>1. j \in 1 .. i - 1
      BY <1>1, <2>1
    <3> QED BY <3>1 DEF BuildSucceeds, Indexable
  <2>2. CASE i < j
    <3>1. i \in 1 .. j - 1
      BY <1>1, <2>2
    <3> QED BY <3>1 DEF BuildSucceeds, Indexable
  <2> QED BY <1>1, <2>1, <2>2
<1> QED BY <1>2 DEF PositionOf, IdsOf

(* The index built from r leads from every id to its row.                  *)
LEMMA BuiltIsRight ==
    ASSUME NEW r \in ShortRows, BuildSucceeds(r)
    PROVE  LET ix == BuiltIndex(r)
           IN  /\ DOMAIN ix.map = IdsOf(r)
               /\ \A i \in DOMAIN r : ix.map[r[i].id] = i
               /\ \A k \in IdsOf(r) : ix.map[k] \in DOMAIN r /\ r[ix.map[k]].id = k
               /\ ix.size = Len(r) /\ ix.nextId = NextIdOf(r) /\ ix.torn = FALSE
<1>1. /\ BuiltIndex(r).map = Positions(r)
      /\ BuiltIndex(r).size = Len(r)
      /\ BuiltIndex(r).nextId = NextIdOf(r)
      /\ BuiltIndex(r).torn = FALSE
  BY DEF BuiltIndex, Index
<1>2. DOMAIN Positions(r) = IdsOf(r) /\ \A k \in IdsOf(r) : Positions(r)[k] = PositionOf(r, k)
  BY DEF Positions
<1>3. \A i \in DOMAIN r : Positions(r)[r[i].id] = i
  BY <1>2, PlaceIsUnique
<1>4. \A k \in IdsOf(r) : \E i \in DOMAIN r : r[i].id = k
  BY DEF IdsOf
<1>5. \A k \in IdsOf(r) : Positions(r)[k] \in DOMAIN r /\ r[Positions(r)[k]].id = k
  BY <1>3, <1>4
<1> QED BY <1>1, <1>2, <1>3, <1>5

LEMMA BuiltOfNone == BuiltIndex(<<>>) = EmptyIndex /\ IdsOf(<<>>) = {} /\ BuildSucceeds(<<>>)
<1>1. DOMAIN <<>> = {}
  OBVIOUS
<1>2. IdsOf(<<>>) = {} /\ BuildSucceeds(<<>>)
  BY <1>1 DEF IdsOf, BuildSucceeds
<1>3. Positions(<<>>) = EmptyMap
  BY <1>2 DEF Positions, EmptyMap
<1>4. Len(<<>>) = 0
  OBVIOUS
<1> QED BY <1>2, <1>3, <1>4, NextIdOfNone DEF BuiltIndex, EmptyIndex

(* The facts about r with a row of a new id at its end.                    *)
LEMMA AppendedRow ==
    ASSUME NEW r \in ShortRows, BuildSucceeds(r), NEW id \in Ints, id \notin IdsOf(r)
    PROVE  LET q == Append(r, Row(id, "short"))
           IN  /\ q \in ShortRows /\ BuildSucceeds(q)
               /\ Len(q) = Len(r) + 1
               /\ \A i \in 1 .. Len(r) : q[i] = r[i]
               /\ q[Len(r) + 1] = Row(id, "short")
               /\ IdsOf(q) = IdsOf(r) \cup {id}
<1> DEFINE x == Row(id, "short")
           q == Append(r, x)
           n == Len(r)
<1>1. x \in ShortRowSet /\ x.id = id /\ x.length = "short"
  BY DEF Row, ShortRowSet
<1>2. /\ q \in ShortRows /\ Len(q) = n + 1
      /\ \A i \in 1 .. n : q[i] = r[i]
      /\ q[n + 1] = x
  BY <1>1, AppendProperties DEF ShortRows, ShortRowSet
<1>3. n \in Nat /\ DOMAIN r = 1 .. n /\ DOMAIN q = 1 .. n + 1
  BY <1>2, RowTyped
<1> HIDE DEF x, q, n
<1>4. \A i \in 1 .. n + 1 : i \in 1 .. n \/ i = n + 1
  BY <1>3
<1>5. ASSUME NEW i \in 1 .. n + 1 PROVE Indexable(q, i)
  <2>1. q[i].length = "short"
    BY <1>2, <1>3, RowTyped
  <2>2. CASE i \in 1 .. n
    <3>1. Indexable(r, i)
      BY <1>3, <2>2 DEF BuildSucceeds
    <3>2. \A j \in 1 .. i - 1 : j \in 1 .. n
      BY <1>3, <2>2
    <3> QED BY <1>2, <2>1, <2>2, <3>1, <3>2 DEF Indexable
  <2>3. CASE i = n + 1
    <3>1. \A j \in 1 .. i - 1 : j \in 1 .. n
      BY <1>3, <2>3
    <3>2. \A j \in 1 .. n : r[j].id # id
      BY <1>3 DEF IdsOf
    <3> QED BY <1>1, <1>2, <2>1, <2>3, <3>1, <3>2 DEF Indexable
  <2> QED BY <1>4, <2>2, <2>3
<1>6. BuildSucceeds(q)
  BY <1>3, <1>5 DEF BuildSucceeds
<1>7. IdsOf(q) = IdsOf(r) \cup {id}
  <2>1. ASSUME NEW k \in IdsOf(q) PROVE k \in IdsOf(r) \cup {id}
    <3>1. PICK i \in 1 .. n + 1 : k = q[i].id
      BY <1>3 DEF IdsOf
    <3> QED BY <1>1, <1>2, <1>3, <1>4, <3>1 DEF IdsOf
  <2>2. ASSUME NEW k \in IdsOf(r) PROVE k \in IdsOf(q)
    <3>1. PICK i \in 1 .. n : k = r[i].id
      BY <1>3 DEF IdsOf
    <3>2. i \in DOMAIN q /\ k = q[i].id
      BY <1>2, <1>3, <3>1
    <3> QED BY <3>2 DEF IdsOf
  <2>3. id \in IdsOf(q)
    <3>1. n + 1 \in DOMAIN q /\ q[n + 1].id = id
      BY <1>1, <1>2, <1>3
    <3> QED BY <3>1 DEF IdsOf
  <2> QED BY <2>1, <2>2, <2>3
<1> QED BY <1>2, <1>6, <1>7 DEF q, x, n

(* bptree_insert of the appended row makes of the index of r that of the   *)
(* longer table.                                                           *)
LEMMA BuiltOfAppend ==
    ASSUME NEW r \in ShortRows, BuildSucceeds(r), NEW id \in Ints, id \notin IdsOf(r)
    PROVE  LET ix == BuiltIndex(r)
               map == [k \in DOMAIN ix.map \cup {id} |->
                         IF k = id THEN Len(r) + 1 ELSE ix.map[k]]
           IN  BuiltIndex(Append(r, Row(id, "short"))) =
                  Index(map, ix.size + 1, NextIdAfter(ix.nextId, id), FALSE)
<1> DEFINE x == Row(id, "short")
           q == Append(r, x)
           n == Len(r)
           m == BuiltIndex(r).map
           map == [k \in DOMAIN m \cup {id} |-> IF k = id THEN n + 1 ELSE m[k]]
<1>1. x \in ShortRowSet /\ x.id = id
  BY DEF Row, ShortRowSet
<1>2. /\ q \in ShortRows /\ BuildSucceeds(q)
      /\ Len(q) = n + 1
      /\ \A i \in 1 .. n : q[i] = r[i]
      /\ q[n + 1] = x
      /\ IdsOf(q) = IdsOf(r) \cup {id}
  BY AppendedRow
<1>3. n \in Nat /\ DOMAIN r = 1 .. n /\ DOMAIN q = 1 .. n + 1
  BY <1>2, RowTyped
<1>4. /\ DOMAIN m = IdsOf(r)
      /\ \A k \in IdsOf(r) : m[k] \in 1 .. n /\ r[m[k]].id = k
      /\ BuiltIndex(r).size = n /\ BuiltIndex(r).nextId = NextIdOf(r)
  BY <1>3, BuiltIsRight
<1>5. NextIdOf(q) = NextIdAfter(NextIdOf(r), id)
  BY <1>1, NextIdOfAppend DEF ShortRowSet
<1>6. /\ DOMAIN BuiltIndex(q).map = IdsOf(q)
      /\ \A i \in 1 .. n + 1 : BuiltIndex(q).map[q[i].id] = i
      /\ BuiltIndex(q) = Index(BuiltIndex(q).map, n + 1, NextIdOf(q), FALSE)
      /\ BuiltIndex(q).map = Positions(q)
  <2> HIDE DEF q
  <2>1. BuiltIndex(q) = Index(Positions(q), n + 1, NextIdOf(q), FALSE)
    BY <1>2 DEF BuiltIndex
  <2>2. BuiltIndex(q).map = Positions(q)
    BY <2>1 DEF Index
  <2> QED BY <1>2, <1>3, <2>1, <2>2, BuiltIsRight
<1> HIDE DEF q, x, n, m
<1>7. ASSUME NEW k \in IdsOf(q) PROVE Positions(q)[k] = map[k]
  <2>1. CASE k = id
    <3>1. n + 1 \in 1 .. n + 1
      BY <1>3
    <3> QED BY <1>1, <1>2, <1>6, <2>1, <3>1
  <2>2. CASE k # id
    <3>1. k \in IdsOf(r)
      BY <1>2, <2>2
    <3>2. m[k] \in 1 .. n /\ q[m[k]].id = k
      BY <1>2, <1>4, <3>1
    <3>3. m[k] \in 1 .. n + 1
      BY <1>3, <3>2
    <3>4. Positions(q)[k] = m[k]
      BY <1>6, <3>2, <3>3
    <3> QED BY <1>4, <2>2, <3>1, <3>4
  <2> QED BY <2>1, <2>2
<1>8. Positions(q) = map
  <2>1. DOMAIN map = IdsOf(q)
    BY <1>2, <1>4
  <2>2. Positions(q) = [k \in IdsOf(q) |-> Positions(q)[k]]
    BY DEF Positions
  <2> HIDE DEF map
  <2>3. map = [k \in IdsOf(q) |-> map[k]]
    BY <2>1 DEF map
  <2> QED BY <1>7, <2>2, <2>3
<1>9. BuiltIndex(q) = Index(map, n + 1, NextIdAfter(NextIdOf(r), id), FALSE)
  BY <1>5, <1>6, <1>8
<1> QED BY <1>4, <1>9 DEF q, x, n, m

(* A table that is not empty is its front and its last row.                *)
LEMMA FrontAndLast ==
    ASSUME NEW r \in ShortRows, r # <<>>
    PROVE  /\ Front(r) \in ShortRows /\ Len(Front(r)) = Len(r) - 1
           /\ Append(Front(r), Last(r)) = r
           /\ Last(r) = Row(Last(r).id, "short") /\ Last(r).id \in Ints
           /\ Len(r) \in Nat \ {0}
           /\ \A i \in 1 .. Len(r) - 1 : Front(r)[i] = r[i]
<1> DEFINE n == Len(r)
<1>1. r \in Seq(ShortRowSet) /\ n \in Nat \ {0} /\ n \in 1 .. n
  BY EmptySeq DEF ShortRows, ShortRowSet
<1>2. /\ Front(r) \in Seq(ShortRowSet) /\ Len(Front(r)) = n - 1
      /\ \A i \in 1 .. n - 1 : Front(r)[i] = r[i]
  <2>1. \A i \in 1 .. n - 1 : r[i] \in ShortRowSet
    BY <1>1, ElementOfSeq
  <2>2. 1 \in Int /\ n - 1 \in Int
    BY <1>1
  <2>3. /\ SubSeq(r, 1, n - 1) \in Seq(ShortRowSet)
        /\ Len(SubSeq(r, 1, n - 1)) = IF 1 <= n - 1 THEN n - 1 - 1 + 1 ELSE 0
        /\ \A i \in 1 .. n - 1 - 1 + 1 : SubSeq(r, 1, n - 1)[i] = r[1 + i - 1]
    BY <2>1, <2>2, SubSeqProperties
  <2> DEFINE p == SubSeq(r, 1, n - 1)
  <2> HIDE DEF p, n
  <2>4. Len(p) = n - 1 /\ \A i \in 1 .. n - 1 : p[i] = r[i]
    BY <1>1, <2>3 DEF p
  <2>5. Front(r) = p
    BY DEF Front, p, n
  <2> QED BY <2>3, <2>4, <2>5 DEF p
<1>3. Last(r) = r[n] /\ r[n] \in ShortRowSet
  BY <1>1, ElementOfSeq DEF Last
<1>4. Last(r) = Row(Last(r).id, "short") /\ Last(r).id \in Ints
  BY <1>3 DEF ShortRowSet, Row
<1>5. Append(Front(r), Last(r)) = r
  <2> DEFINE q == Append(Front(r), Last(r))
  <2>1. /\ q \in Seq(ShortRowSet) /\ Len(q) = n
        /\ \A i \in 1 .. n - 1 : q[i] = Front(r)[i]
        /\ q[n] = Last(r)
    BY <1>1, <1>2, <1>3, AppendProperties
  <2>2. \A i \in 1 .. n : i \in 1 .. n - 1 \/ i = n
    BY <1>1
  <2> HIDE DEF q, n
  <2>3. \A i \in 1 .. n : q[i] = r[i]
    BY <1>2, <1>3, <2>1, <2>2
  <2>4. q = r
    BY <1>1, <2>1, <2>3, SeqEqual DEF n
  <2> QED BY <2>4 DEF q
<1> QED BY <1>1, <1>2, <1>4, <1>5 DEF ShortRows, ShortRowSet

LEMMA FrontOfAppend ==
    ASSUME NEW r \in ShortRows, NEW x \in ShortRowSet
    PROVE  Front(Append(r, x)) = r /\ Last(Append(r, x)) = x /\ Append(r, x) # <<>>
<1> DEFINE q == Append(r, x)
<1>1. q \in ShortRows /\ q # <<>> /\ Len(q) = Len(r) + 1 /\ q[Len(r) + 1] = x
  BY AppendProperties DEF ShortRows, ShortRowSet
<1>2. Last(q) = x
  BY <1>1 DEF Last
<1>3. Append(Front(q), x) = q /\ Front(q) \in ShortRows
  BY <1>1, <1>2, FrontAndLast
<1>4. Front(q) = r
  BY <1>3, AppendInjective DEF ShortRows, ShortRowSet
<1> QED BY <1>1, <1>2, <1>4

(* Part of a table that can be indexed can be indexed.                     *)
LEMMA FrontBuilds ==
    ASSUME NEW r \in ShortRows, r # <<>>, BuildSucceeds(r)
    PROVE  BuildSucceeds(Front(r))
<1> DEFINE n == Len(r)
           f == Front(r)
<1>1. f \in ShortRows /\ Len(f) = n - 1 /\ n \in Nat \ {0} /\ \A i \in 1 .. n - 1 : f[i] = r[i]
  BY FrontAndLast
<1>2. DOMAIN r = 1 .. n /\ DOMAIN f = 1 .. n - 1
  BY <1>1, RowTyped
<1> HIDE DEF f, n
<1>3. ASSUME NEW i \in 1 .. n - 1 PROVE Indexable(f, i)
  <2>1. i \in 1 .. n /\ \A j \in 1 .. i - 1 : j \in 1 .. n - 1
    BY <1>1
  <2>2. Indexable(r, i)
    BY <1>2, <2>1 DEF BuildSucceeds
  <2> QED BY <1>1, <2>1, <2>2 DEF Indexable
<1> QED BY <1>2, <1>3 DEF BuildSucceeds, f

(* The size of a file whose header was not written out is the old one.     *)
LEMMA UnsettledSize ==
    ASSUME NEW r, NEW before
    PROVE  /\ Unsettled(BuiltIndex(r), before).size = before.size
           /\ [BuiltIndex(r) EXCEPT !.torn = TRUE].size = Len(r)
           /\ BuiltIndex(r).size = Len(r)
BY DEF Unsettled, BuiltIndex, Index

-----------------------------------------------------------------------------
(* The steps of shell, server or seeder                                    *)

LEMMA TableInit ==
    ASSUME Undisturbed
    PROVE  Init => TableInv
<1> SUFFICES ASSUME Init PROVE TableInv
  OBVIOUS
<1>1. RowsRight
  BY DEF RowsRight, Init, Undisturbed
<1>2. DiskRight
  <2>1. rows \in ShortRows /\ disk = EmptyIndex
    BY DEF Init, Undisturbed
  <2>2. disk.size = 0
    BY <2>1 DEF EmptyIndex, Index
  <2>3. Len(rows) = 0 => rows = <<>>
    BY <2>1, EmptySeq DEF ShortRows
  <2> QED BY <2>1, <2>2, <2>3, BuiltOfNone DEF DiskRight
<1>3. JobTyped
  BY DEF JobTyped, Init, NoJob, Job
<1>4. ProcessState /\ AppendState
  BY DEF ProcessState, AppendState, Init
<1> QED BY <1>1, <1>2, <1>3, <1>4 DEF TableInv

(* What a loaded table is between statements.                              *)
LEMMA LoadedTable ==
    ASSUME TableInv, loaded, pc # "append"
    PROVE  /\ rows \in ShortRows /\ BuildSucceeds(rows) /\ Len(rows) \in Nat
           /\ written = index /\ index = BuiltIndex(rows)
           /\ DOMAIN index.map = IdsOf(rows)
           /\ nextId = NextIdOf(rows) /\ nextId \in Ints
           /\ rowCount = Len(rows)
<1>1. rows \in ShortRows /\ BuildSucceeds(rows)
  BY DEF TableInv, RowsRight
<1>2. written = index /\ index = BuiltIndex(rows) /\ nextId = index.nextId /\ rowCount = Len(rows)
  BY DEF TableInv, ProcessState
<1>3. /\ DOMAIN BuiltIndex(rows).map = IdsOf(rows)
      /\ BuiltIndex(rows).nextId = NextIdOf(rows)
  BY <1>1, BuiltIsRight
<1>4. NextIdOf(rows) \in Ints /\ Len(rows) \in Nat
  BY <1>1, NextIdOfTyped, ShortIsTable, RowTyped
<1> QED BY <1>1, <1>2, <1>3, <1>4

(* Writing out the buffers then makes the file right.                      *)
LEMMA SettleIsRight ==
    ASSUME TableInv, loaded, pc # "append", Settle, rows' = rows
    PROVE  DiskRight'
BY LoadedTable DEF Settle, DiskRight

(* The row that InsertAppend writes.                                       *)
LEMMA RowIsAppended ==
    ASSUME TableInv, InsertAppend, Undisturbed
    PROVE  /\ loaded /\ pc = "execute" /\ pc' = "append" /\ job.kind = "insert"
           /\ InsertId \in Ints /\ InsertId \notin IdsOf(rows)
           /\ rows' = Append(rows, Row(InsertId, "short"))
           /\ job' = [job EXCEPT !.offset = Len(rows) + 1]
           /\ disk' = written
           /\ UNCHANGED <<tableVars, acked>>
<1>1. pc = "execute" /\ pc' = "append" /\ job.kind = "insert" /\ disk' = written
      /\ UNCHANGED <<tableVars, acked>>
  BY DEF InsertAppend, Settle
<1>2. loaded
  BY <1>1 DEF TableInv, ProcessState
<1>3. InsertId \notin DOMAIN index.map
  BY DEF InsertAppend, Fault, Undisturbed
<1>4. /\ rows \in ShortRows /\ Len(rows) \in Nat
      /\ DOMAIN index.map = IdsOf(rows) /\ nextId \in Ints
  BY <1>1, <1>2, LoadedTable
<1>5. job.length = "short" /\ job.id \in Ints \cup {AutoId}
  BY DatabaseAssumption DEF TableInv, JobTyped
<1>6. InsertId \in Ints
  BY <1>4, <1>5 DEF InsertId
<1>7. ~Unfinished
  BY <1>4, RowTyped DEF Unfinished, RowsLike
<1>8. /\ rows' = Append(rows, Row(InsertId, "short"))
      /\ job' = [job EXCEPT !.offset = Len(rows) + 1]
  BY <1>5, <1>7 DEF InsertAppend, AppendRow, RowsWith
<1> QED BY <1>1, <1>2, <1>3, <1>4, <1>6, <1>8

LEMMA AppendKeepsTable ==
    ASSUME TableInv, InsertAppend, Undisturbed
    PROVE  TableInv'
<1> DEFINE x == Row(InsertId, "short")
<1>1. /\ loaded /\ pc = "execute" /\ pc' = "append" /\ job.kind = "insert"
      /\ InsertId \in Ints /\ InsertId \notin IdsOf(rows)
      /\ rows' = Append(rows, x)
      /\ job' = [job EXCEPT !.offset = Len(rows) + 1]
      /\ disk' = written
      /\ UNCHANGED <<loaded, written, index, nextId, rowCount, acked>>
  BY RowIsAppended DEF tableVars
<1>2. /\ rows \in ShortRows /\ BuildSucceeds(rows) /\ Len(rows) \in Nat
      /\ written = index /\ index = BuiltIndex(rows) /\ rowCount = Len(rows)
  BY <1>1, LoadedTable
<1>3. /\ rows' \in ShortRows /\ BuildSucceeds(rows') /\ Len(rows') = Len(rows) + 1
      /\ IdsOf(rows') = IdsOf(rows) \cup {InsertId}
  BY <1>1, <1>2, AppendedRow
<1>4. x \in ShortRowSet /\ x.id = InsertId
  BY <1>1 DEF Row, ShortRowSet
<1>5. Front(rows') = rows /\ Last(rows') = x /\ rows' # <<>>
  BY <1>1, <1>2, <1>4, FrontOfAppend
<1> HIDE DEF x
<1>6. RowsRight'
  BY <1>1, <1>3 DEF TableInv, RowsRight
<1>7. DiskRight'
  <2>1. disk'.size = Len(rows)
    BY <1>1, <1>2, UnsettledSize
  <2>2. disk'.size # Len(rows')
    BY <1>2, <1>3, <2>1
  <2> QED BY <2>2 DEF DiskRight
<1>8. JobTyped'
  BY <1>1, <1>2 DEF TableInv, JobTyped
<1>9. ProcessState'
  BY <1>1, <1>2 DEF TableInv, ProcessState
<1>10. InsertId' = InsertId
  BY <1>1 DEF InsertId, TableInv, JobTyped
<1>11. AppendState'
  <2>1. job'.offset = Len(rows) + 1
    BY <1>1 DEF TableInv, JobTyped
  <2> QED BY <1>1, <1>2, <1>3, <1>4, <1>5, <1>10, <2>1 DEF AppendState
<1> QED BY <1>6, <1>7, <1>8, <1>9, <1>11 DEF TableInv

LEMMA InsertKeepsTable ==
    ASSUME TableInv, InsertIndex
    PROVE  TableInv'
<1> DEFINE f == Front(rows)
<1>1. /\ pc = "append" /\ pc' = "idle" /\ job' = NoJob
      /\ InsertId \notin DOMAIN index.map
      /\ index' = Extended /\ written' = index'
      /\ nextId' = NextIdAfter(nextId, InsertId)
      /\ acked' = acked \cup {InsertId}
      /\ rowCount' = rowCount + 1
      /\ disk' = Unsettled(index', written)
      /\ UNCHANGED <<rows, loaded>>
  BY DEF InsertIndex
<1>2. /\ rows \in ShortRows /\ BuildSucceeds(rows) /\ acked \subseteq IdsOf(rows)
      /\ rows # <<>> /\ index = BuiltIndex(f) /\ Last(rows).id = InsertId
      /\ job.offset = Len(rows) /\ rowCount = Len(rows) - 1
      /\ loaded /\ written = index /\ nextId = index.nextId
  BY <1>1 DEF TableInv, RowsRight, AppendState, ProcessState
<1>3. /\ f \in ShortRows /\ Len(f) = Len(rows) - 1 /\ Len(rows) \in Nat \ {0}
      /\ BuildSucceeds(f)
      /\ rows = Append(f, Row(InsertId, "short")) /\ InsertId \in Ints
  BY <1>2, FrontAndLast, FrontBuilds
<1> HIDE DEF f
<1>4. DOMAIN index.map = IdsOf(f)
  BY <1>2, <1>3, BuiltIsRight
<1>5. Extended = BuiltIndex(rows)
  <2>1. Len(f) + 1 = job.offset
    BY <1>2, <1>3
  <2>2. InsertId \notin IdsOf(f)
    BY <1>1, <1>4
  <2> QED BY <1>2, <1>3, <2>1, <2>2, BuiltOfAppend DEF Extended
<1>6. RowsRight'
  <2>1. IdsOf(rows) = IdsOf(f) \cup {InsertId}
    BY <1>1, <1>3, <1>4, AppendedRow
  <2> QED BY <1>1, <1>2, <2>1 DEF RowsRight
<1>7. DiskRight'
  <2>1. disk'.size = Len(f)
    BY <1>1, <1>2, <1>5, UnsettledSize
  <2>2. disk'.size # Len(rows)
    BY <1>3, <2>1
  <2> QED BY <1>1, <2>2 DEF DiskRight
<1>8. JobTyped'
  BY <1>1 DEF JobTyped, NoJob, Job
<1>9. ProcessState'
  <2>1. index'.nextId = NextIdAfter(index.nextId, InsertId)
    BY <1>1 DEF Extended, Index
  <2>2. rowCount' = Len(rows) /\ rowCount' \in Nat
    BY <1>1, <1>2, <1>3
  <2> QED BY <1>1, <1>2, <1>5, <2>1, <2>2 DEF ProcessState
<1>10. AppendState'
  BY <1>1 DEF AppendState
<1> QED BY <1>6, <1>7, <1>8, <1>9, <1>10 DEF TableInv

LEMMA LoadKeepsTable ==
    ASSUME TableInv, LoadKeep \/ LoadRebuild
    PROVE  TableInv'
<1>1. /\ pc = "load" /\ pc' = "execute" /\ loaded' = TRUE
      /\ UNCHANGED <<rows, job, acked>>
  BY DEF LoadKeep, LoadRebuild, fileVars, history
<1>2. rows \in ShortRows /\ BuildSucceeds(rows) /\ Len(rows) \in Nat
  BY RowTyped DEF TableInv, RowsRight
<1>3. CountTableRows(rows) = Len(rows)
  BY <1>2, CountIsLen
<1>4. /\ index' = BuiltIndex(rows) /\ written' = index' /\ nextId' = index'.nextId
      /\ rowCount' = Len(rows)
      /\ DiskRight'
  <2>1. CASE LoadKeep
    <3>1. /\ ~ShouldRebuild /\ disk' = disk /\ index' = disk /\ written' = disk
          /\ nextId' = disk.nextId /\ rowCount' = CountTableRows(rows)
      BY <2>1 DEF LoadKeep, fileVars
    <3>2. disk.size = Len(rows)
      BY <1>3, <3>1 DEF ShouldRebuild
    <3>3. disk = BuiltIndex(rows)
      BY <3>2 DEF TableInv, DiskRight
    <3> QED BY <1>1, <1>3, <3>1, <3>3 DEF DiskRight
  <2>2. CASE LoadRebuild
    <3>1. /\ index' = BuiltIndex(rows) /\ written' = index' /\ nextId' = index'.nextId
          /\ rowCount' = index'.size
          /\ disk' = IF rows = <<>> THEN index' ELSE Unsettled(index', BuiltIndex(Front(rows)))
      BY <2>2 DEF LoadRebuild
    <3>2. rowCount' = Len(rows)
      BY <3>1, UnsettledSize
    <3>3. CASE rows = <<>>
      BY <1>1, <3>1, <3>2, <3>3 DEF DiskRight
    <3>4. CASE rows # <<>>
      <4>1. disk'.size = Len(Front(rows))
        BY <3>1, <3>4, UnsettledSize
      <4>2. Len(Front(rows)) = Len(rows) - 1
        BY <1>2, <3>4, FrontAndLast
      <4>3. disk'.size # Len(rows)
        BY <1>2, <4>1, <4>2
      <4> QED BY <1>1, <3>1, <3>2, <4>3 DEF DiskRight
    <3> QED BY <3>3, <3>4
  <2> QED BY <2>1, <2>2
<1>5. RowsRight' /\ JobTyped'
  BY <1>1 DEF TableInv, RowsRight, JobTyped
<1>6. ProcessState'
  BY <1>1, <1>2, <1>4 DEF ProcessState
<1>7. AppendState'
  BY <1>1 DEF AppendState
<1> QED BY <1>4, <1>5, <1>6, <1>7 DEF TableInv

(* The steps that leave the rows and the loaded table alone: what they do  *)
(* to the index file keeps it right.                                       *)
Quiet ==
    /\ UNCHANGED <<rows, acked, written, index, nextId, rowCount>>
    /\ pc' \in {"down", "idle", "load", "execute"}
    /\ pc' = "execute" => pc = "load" /\ loaded
    /\ loaded' \in BOOLEAN
    /\ pc' = "down" => ~loaded'
    /\ loaded' => loaded /\ pc # "append"

LEMMA QuietKeepsTable ==
    ASSUME TableInv, Quiet, JobTyped', DiskRight', pc' = "execute" => loaded'
    PROVE  TableInv'
<1>1. RowsRight'
  BY DEF TableInv, RowsRight, Quiet
<1>2. ProcessState'
  BY DEF TableInv, ProcessState, Quiet
<1>3. AppendState'
  BY DEF AppendState, Quiet
<1> QED BY <1>1, <1>2, <1>3 DEF TableInv

(* A kill leaves the file as it was or, in the middle of an insertion,     *)
(* torn: it still counts one row less.                                     *)
LEMMA KillKeepsDisk ==
    ASSUME TableInv, Kill
    PROVE  DiskRight'
<1>1. rows' = rows /\ (disk' = disk \/ (pc = "append" /\ disk' = [disk EXCEPT !.torn = TRUE]))
  BY DEF Kill
<1>2. CASE disk' = disk
  BY <1>1, <1>2 DEF TableInv, DiskRight
<1>3. CASE pc = "append" /\ disk' = [disk EXCEPT !.torn = TRUE]
  <2>1. disk = BuiltIndex(Front(rows)) /\ rows \in ShortRows /\ rows # <<>>
    BY <1>3 DEF TableInv, AppendState, RowsRight
  <2>2. disk'.size = Len(Front(rows))
    BY <1>3, <2>1, UnsettledSize
  <2>3. Len(Front(rows)) = Len(rows) - 1 /\ Len(rows) \in Nat
    BY <2>1, FrontAndLast
  <2>4. disk'.size # Len(rows)
    BY <2>2, <2>3
  <2> QED BY <1>1, <2>4 DEF DiskRight
<1> QED BY <1>1, <1>2, <1>3

LEMMA RequestTyped ==
    ASSUME NEW kind \in {"select", "scan", "insert"}, NEW id \in ExplicitIds \cup {AutoId},
           TableInv, Request(kind, id, "short")
    PROVE  TableInv'
<1>1. Quiet /\ pc' = "load" /\ disk' = disk /\ rows' = rows
  <2>1. loaded' = loaded /\ loaded \in BOOLEAN
    BY DEF Request, tableVars, TableInv, ProcessState
  <2> QED BY <2>1 DEF Request, Quiet, fileVars, tableVars, history
<1>2. JobTyped'
  BY DEF Request, Job, JobTyped
<1>3. DiskRight'
  BY <1>1 DEF TableInv, DiskRight
<1> QED BY <1>1, <1>2, <1>3, QuietKeepsTable

(* Everything but the clock stays.                                         *)
LEMMA SameTable ==
    ASSUME TableInv, UNCHANGED <<rows, disk, pc, job, tableVars, acked>>
    PROVE  TableInv'
<1>1. RowsRight' /\ DiskRight' /\ JobTyped'
  BY DEF TableInv, RowsRight, DiskRight, JobTyped
<1>2. ProcessState'
  BY DEF TableInv, ProcessState, tableVars
<1>3. AppendState'
  BY DEF TableInv, AppendState, InsertId, tableVars
<1> QED BY <1>1, <1>2, <1>3 DEF TableInv

(* Every row goes out in one write.                                        *)
LEMMA NoneIsHalfWritten == TableInv => ~KillDuringAppend
BY DEF TableInv, JobTyped, KillDuringAppend


(* Every step of the process keeps the invariant.                          *)
LEMMA TableStep ==
    ASSUME Undisturbed, TableInv, Next
    PROVE  TableInv'
<1>1. pc \in {"down", "idle", "load", "execute", "append"} /\ loaded \in BOOLEAN
      /\ (pc \in {"execute", "append"} => loaded) /\ (pc = "down" => ~loaded)
  BY DEF TableInv, ProcessState
<1>2. NoJob \in [kind : {"none", "select", "scan", "insert"}, id : ExplicitIds \cup {AutoId},
                 length : {"short"}, offset : Nat]
  BY DEF NoJob, Job
<1>3. "idx" \notin Failures /\ "tbl" \notin Failures /\ "edit" \notin Failures /\ Copies = {}
  BY SeederAssumption DEF Undisturbed
<1>4. CASE Start
  <2>1. Quiet /\ pc' = "idle" /\ job' = job /\ disk' = disk /\ rows' = rows
    BY <1>4 DEF Start, Quiet, fileVars, history
  <2> QED BY <2>1, QuietKeepsTable DEF TableInv, JobTyped, DiskRight
<1>5. CASE Quit
  <2>1. Quiet /\ pc = "idle" /\ pc' = "down" /\ job' = job /\ rows' = rows
    BY <1>5 DEF Quit, Quiet, history
  <2>2. DiskRight'
    <3>1. CASE loaded
      <4>1. Settle
        BY <1>5, <3>1 DEF Quit
      <4> QED BY <2>1, <3>1, <4>1, SettleIsRight
    <3>2. CASE ~loaded
      <4>1. disk' = disk
        BY <1>5, <3>2 DEF Quit
      <4> QED BY <2>1, <4>1 DEF TableInv, DiskRight
    <3> QED BY <3>1, <3>2
  <2> QED BY <2>1, <2>2, QuietKeepsTable DEF TableInv, JobTyped
<1>6. CASE Kill
  <2>1. Quiet /\ pc' = "down" /\ job' = job
    BY <1>6 DEF Kill, Quiet
  <2> QED BY <1>6, <2>1, KillKeepsDisk, QuietKeepsTable DEF TableInv, JobTyped
<1>7. CASE Tick
  BY <1>7, SameTable DEF Tick, fileVars, history
<1>8. ASSUME NEW kind \in {"select", "scan"}, Request(kind, AutoId, "short") PROVE TableInv'
  BY <1>8, RequestTyped
<1>9. ASSUME NEW id \in ExplicitIds \cup {AutoId}, NEW length \in Lengths,
             Request("insert", id, length)
      PROVE  TableInv'
  <2>1. length = "short"
    BY DEF Undisturbed
  <2> QED BY <1>9, <2>1, RequestTyped
<1>10. CASE LoadCached
  <2>1. Quiet /\ pc' = "execute" /\ loaded' /\ job' = job /\ disk' = disk /\ rows' = rows
    BY <1>1, <1>10 DEF LoadCached, Quiet, fileVars, tableVars, history
  <2> QED BY <2>1, QuietKeepsTable DEF TableInv, JobTyped, DiskRight
<1>11. CASE LoadKeep \/ LoadRebuild
  BY <1>11, LoadKeepsTable
<1>12. CASE LoadFails
  BY <1>12 DEF LoadFails, TableInv, RowsRight, BuildSucceeds
<1>13. CASE LoadRefused
  <2>1. Quiet /\ pc' = "idle" /\ job' = NoJob /\ disk' = disk /\ rows' = rows
    BY <1>1, <1>13 DEF LoadRefused, Quiet, fileVars, tableVars, history
  <2> QED BY <1>2, <2>1, QuietKeepsTable DEF TableInv, JobTyped, DiskRight
<1>14. ASSUME NEW n \in 0 .. MaxRows, KillDuringRebuild(n) PROVE TableInv'
  <2>1. Quiet /\ pc' = "down" /\ job' = job
    BY <1>1, <1>14 DEF KillDuringRebuild, Quiet, tableVars
  <2>2. DiskRight'
    <3>1. rows' = rows /\ n < Len(rows) /\ disk' = Index(EmptyMap, n, 1, TRUE)
      BY <1>14 DEF KillDuringRebuild
    <3>2. disk'.size = n /\ Len(rows) \in Nat /\ n \in Nat
      BY <3>1, DatabaseAssumption, RowTyped DEF Index, TableInv, RowsRight
    <3>3. n < Len(rows)
      BY <3>1
    <3>4. n # Len(rows)
      BY <3>2, <3>3
    <3>5. disk'.size # Len(rows)
      BY <3>2, <3>4
    <3> QED BY <3>1, <3>5 DEF DiskRight
  <2> QED BY <2>1, <2>2, QuietKeepsTable DEF TableInv, JobTyped
<1>15. ASSUME pc = "execute", pc' = "idle", job' = NoJob, rows' = rows,
              UNCHANGED <<tableVars, history>>,
              Settle \/ disk' = disk
       PROVE  TableInv'
  <2>1. loaded /\ pc # "append"
    BY <1>1, <1>15
  <2>2. Quiet
    BY <1>1, <1>15 DEF Quiet, tableVars, history
  <2>3. DiskRight'
    BY <1>15, <2>1, SettleIsRight DEF TableInv, DiskRight
  <2> QED BY <1>2, <1>15, <2>2, <2>3, QuietKeepsTable DEF JobTyped
<1>16. CASE ExecuteSelect
  BY <1>15, <1>16 DEF ExecuteSelect
<1>17. CASE InsertRefused
  BY <1>15, <1>17 DEF InsertRefused
<1>18. CASE InsertDuplicate
  BY <1>15, <1>18 DEF InsertDuplicate
<1>19. CASE InsertAppend
  BY <1>19, AppendKeepsTable
<1>20. CASE InsertIndex
  BY <1>20, InsertKeepsTable
<1>21. CASE InsertIndexDuplicate
  <2>1. pc = "append" /\ InsertId \in DOMAIN index.map
    BY <1>21 DEF InsertIndexDuplicate
  <2>2. /\ rows \in ShortRows /\ BuildSucceeds(rows) /\ rows # <<>>
        /\ index = BuiltIndex(Front(rows)) /\ Last(rows).id = InsertId
    BY <2>1 DEF TableInv, RowsRight, AppendState
  <2> DEFINE n == Len(rows)
             f == Front(rows)
  <2>3. /\ f \in ShortRows /\ BuildSucceeds(f) /\ n \in Nat \ {0} /\ Len(f) = n - 1
        /\ \A i \in 1 .. n - 1 : f[i] = rows[i]
    BY <2>2, FrontAndLast, FrontBuilds
  <2>4. DOMAIN index.map = IdsOf(f) /\ DOMAIN f = 1 .. n - 1 /\ DOMAIN rows = 1 .. n
    BY <2>2, <2>3, BuiltIsRight, RowTyped
  <2>5. PICK i \in 1 .. n - 1 : rows[i].id = InsertId
    BY <2>1, <2>3, <2>4 DEF IdsOf
  <2>6. i \in 1 .. n /\ n \in 1 .. n /\ i # n /\ rows[n].id = InsertId
    BY <2>2, <2>3 DEF Last
  <2>7. n \in DOMAIN rows /\ i \in DOMAIN rows /\ rows[i].id = rows[n].id
    BY <2>4, <2>5, <2>6
  <2>8. i = n
    BY <2>2, <2>7, PlaceIsUnique
  <2> QED BY <2>6, <2>8
<1>22. /\ ~InsertAppendFails /\ ~InsertIndexFails /\ ~EditTable /\ ~KillDuringAppend
       /\ ~\E r \in Copies : \E time \in {0, clock} : CopyTable(r, time)
  BY <1>3, NoneIsHalfWritten DEF InsertAppendFails, InsertIndexFails, EditTable, Fault
<1> QED BY <1>4, <1>5, <1>6, <1>7, <1>8, <1>9, <1>10, <1>11, <1>12, <1>13, <1>14, <1>16, <1>17,
           <1>18, <1>19, <1>20, <1>21, <1>22 DEF Next

-----------------------------------------------------------------------------
(* The steps of the seeder                                                 *)

(* What a step within a statement does to the rows, the job and the count. *)
LEMMA StepFrame ==
    ASSUME Undisturbed, TableInv, Next, pc \notin {"down", "idle"}
    PROVE  /\ InsertAppend \/ rows' = rows
           /\ pc' \in {"down", "idle"} \/ (job'.kind = job.kind /\ job'.id = job.id)
           /\ pc' = "idle" => \/ pc = "append" /\ rowCount' = rowCount + 1
                              \/ rowCount' = rowCount
           /\ pc' = "append" => InsertAppend \/ pc = "append"
           /\ pc = "append" => pc' \in {"down", "idle", "append"} /\ rows' = rows
           /\ rowCount \in Nat
<1>1. rowCount \in Nat
  BY DEF TableInv, ProcessState
<1>2. CASE InsertAppend
  BY <1>1, <1>2, RowIsAppended DEF TableInv, JobTyped
<1>3. ASSUME Kill \/ \E n \in 0 .. MaxRows : KillDuringRebuild(n)
      PROVE  pc' = "down" /\ rows' = rows
  BY <1>3 DEF Kill, KillDuringRebuild
<1>4. ASSUME Tick
      PROVE  pc' = pc /\ rows' = rows /\ job' = job
  BY <1>4 DEF Tick, fileVars
<1>5. ASSUME LoadCached \/ LoadKeep \/ LoadRebuild
      PROVE  pc = "load" /\ pc' = "execute" /\ rows' = rows /\ job' = job
  BY <1>5 DEF LoadCached, LoadKeep, LoadRebuild, fileVars
<1>6. ASSUME LoadFails \/ LoadRefused \/ ExecuteSelect \/ InsertRefused \/ InsertDuplicate
                 \/ InsertIndexDuplicate
      PROVE  pc' = "idle" /\ rows' = rows /\ rowCount' = rowCount
  BY <1>6 DEF LoadFails, LoadRefused, ExecuteSelect, InsertRefused, InsertDuplicate,
              InsertIndexDuplicate, fileVars, tableVars
<1>7. ASSUME InsertIndex
      PROVE  pc = "append" /\ pc' = "idle" /\ rows' = rows /\ rowCount' = rowCount + 1
  BY <1>7 DEF InsertIndex
<1>8. /\ ~Start /\ ~Quit /\ ~EditTable
      /\ ~InsertAppendFails /\ ~InsertIndexFails /\ ~KillDuringAppend
  BY NoneIsHalfWritten
     DEF Start, Quit, EditTable, InsertAppendFails, InsertIndexFails, Fault, Undisturbed
<1>9. /\ ~\E kind \in {"select", "scan"} : Request(kind, AutoId, "short")
      /\ ~\E id \in ExplicitIds \cup {AutoId} : \E length \in Lengths :
            Len(rows) < MaxRows /\ Request("insert", id, length)
      /\ ~\E r \in Copies : \E time \in {0, clock} : CopyTable(r, time)
  BY SeederAssumption DEF Request
<1>10. \/ InsertAppend
       \/ Kill \/ \E n \in 0 .. MaxRows : KillDuringRebuild(n)
       \/ Tick
       \/ LoadCached \/ LoadKeep \/ LoadRebuild
       \/ LoadFails \/ LoadRefused \/ ExecuteSelect \/ InsertRefused \/ InsertDuplicate
          \/ InsertIndexDuplicate
       \/ InsertIndex
  BY <1>8, <1>9 DEF Next
<1>11. \/ InsertAppend
       \/ pc' = "down" /\ rows' = rows
       \/ pc' = pc /\ rows' = rows /\ job' = job
       \/ pc = "load" /\ pc' = "execute" /\ rows' = rows /\ job' = job
       \/ pc' = "idle" /\ rows' = rows /\ rowCount' = rowCount
       \/ pc = "append" /\ pc' = "idle" /\ rows' = rows /\ rowCount' = rowCount + 1
  BY <1>3, <1>4, <1>5, <1>6, <1>7, <1>10
<1> QED BY <1>1, <1>2, <1>11

LEMMA SeedStepKept ==
    ASSUME Undisturbed, SeederInv, SeedStep
    PROVE  SeedState'
<1>1. /\ Seeding /\ pc # "idle" /\ Next /\ mixed' = mixed
      /\ seeder' = CASE pc' = "down" -> NoSeed
                     [] pc' = "idle" /\ rowCount' # rowCount + 1 -> [seeder EXCEPT !.target = 0]
                     [] pc' = "idle" /\ rowCount' = rowCount + 1 -> [seeder EXCEPT !.next = @ + 1]
                     [] OTHER -> seeder
  BY DEF SeedStep
<1>2. /\ seeder \in [next : Nat \ {0}, target : Targets \cup {0}]
      /\ pc # "down" /\ job.kind = "insert" /\ job.id = AutoId
      /\ seeder.next <= seeder.target /\ mixed \in BOOLEAN
      /\ ~mixed => /\ \A i \in DOMAIN rows : rows[i].id = i
                   /\ seeder.target # 0 =>
                         seeder.next = IF pc = "append" THEN Len(rows) ELSE Len(rows) + 1
  BY <1>1 DEF SeederInv, SeedState
<1>3. TableInv
  BY DEF SeederInv
<1>4. /\ InsertAppend \/ rows' = rows
      /\ pc' \in {"down", "idle"} \/ (job'.kind = job.kind /\ job'.id = job.id)
      /\ pc' = "idle" => (pc = "append" /\ rowCount' = rowCount + 1) \/ rowCount' = rowCount
      /\ pc' = "append" => InsertAppend \/ pc = "append"
      /\ pc = "append" => pc' \in {"down", "idle", "append"} /\ rows' = rows
      /\ rowCount \in Nat
  BY <1>1, <1>2, <1>3, StepFrame
<1>5. \A t \in Targets : t \in Nat /\ t # 0 /\ t <= MaxInt
  BY SeederAssumption, IntsTyped, DatabaseAssumption
<1>6. seeder.next \in Nat \ {0} /\ seeder.target \in Nat /\ seeder.target # 0
      /\ seeder.target \in Targets
  <2>1. seeder.next \in Nat \ {0} /\ seeder.target \in Targets \cup {0}
        /\ seeder.next <= seeder.target
    BY <1>2
  <2>2. seeder.target \in Nat
    <3>1. CASE seeder.target = 0
      BY <3>1
    <3>2. CASE seeder.target \in Targets
      BY <1>5, <3>2
    <3> QED BY <2>1, <3>1, <3>2
  <2>3. seeder.target # 0
    BY <2>1, <2>2
  <2> QED BY <2>1, <2>2, <2>3
<1>7. rows \in ShortRows /\ Len(rows) \in Nat /\ DOMAIN rows = 1 .. Len(rows)
  BY <1>3, RowTyped DEF TableInv, RowsRight
<1>8. CASE InsertAppend
  <2>1. /\ pc = "execute" /\ pc' = "append" /\ loaded
        /\ InsertId \in Ints /\ InsertId \notin IdsOf(rows)
        /\ rows' = Append(rows, Row(InsertId, "short"))
    BY <1>3, <1>8, RowIsAppended
  <2>2. seeder' = seeder
    BY <1>1, <2>1
  <2>3. InsertId = NextIdOf(rows) /\ BuildSucceeds(rows)
    BY <1>2, <1>3, <2>1, LoadedTable DEF InsertId
  <2>4. /\ rows' \in ShortRows /\ Len(rows') = Len(rows) + 1
        /\ \A i \in 1 .. Len(rows) : rows'[i] = rows[i]
        /\ rows'[Len(rows) + 1] = Row(InsertId, "short")
    BY <1>7, <2>1, <2>3, AppendedRow
  <2>5. ASSUME ~mixed
        PROVE  /\ \A i \in DOMAIN rows' : rows'[i].id = i
               /\ seeder.next = Len(rows')
    <3>1. seeder.next = Len(rows) + 1 /\ \A i \in DOMAIN rows : rows[i].id = i
      BY <1>2, <1>6, <2>1, <2>5
    <3>2. Len(rows) < MaxInt
      BY <1>2, <1>5, <1>6, <1>7, <3>1, IntsTyped
    <3>3. InsertId = Len(rows) + 1
      BY <1>7, <2>3, <3>1, <3>2, NextIdIsNumber
    <3>4. DOMAIN rows' = 1 .. Len(rows) + 1
      BY <2>4, RowTyped
    <3>5. Row(InsertId, "short").id = Len(rows) + 1
      BY <3>3 DEF Row
    <3>6. ASSUME NEW i \in 1 .. Len(rows) + 1 PROVE rows'[i].id = i
      <4>1. CASE i = Len(rows) + 1
        BY <2>4, <3>5, <4>1
      <4>2. CASE i # Len(rows) + 1
        <5>1. i \in 1 .. Len(rows)
          BY <1>7, <4>2
        <5> QED BY <1>7, <2>4, <3>1, <5>1
      <4> QED BY <4>1, <4>2
    <3> QED BY <2>4, <3>1, <3>4, <3>6
  <2> QED BY <1>1, <1>2, <1>4, <2>1, <2>2, <2>5 DEF SeedState, Seeding
<1>9. CASE rows' = rows /\ pc' = "down"
  <2>1. seeder' = NoSeed
    BY <1>1, <1>9
  <2> QED BY <1>1, <1>2, <1>9, <2>1 DEF SeedState, Seeding
<1>10. CASE rows' = rows /\ pc' = "idle" /\ rowCount' # rowCount + 1
  <2>1. seeder' = [seeder EXCEPT !.target = 0]
    BY <1>1, <1>10
  <2>2. seeder' \in [next : Nat \ {0}, target : Targets \cup {0}] /\ seeder'.target = 0
    BY <1>2, <2>1
  <2> QED BY <1>1, <1>2, <1>10, <2>2 DEF SeedState, Seeding
<1>11. CASE rows' = rows /\ pc' = "idle" /\ rowCount' = rowCount + 1
  <2>1. seeder' = [seeder EXCEPT !.next = @ + 1]
    BY <1>1, <1>11
  <2>2. /\ seeder' \in [next : Nat \ {0}, target : Targets \cup {0}]
        /\ seeder'.next = seeder.next + 1 /\ seeder'.target = seeder.target
    BY <1>2, <2>1
  <2>3. pc = "append"
    BY <1>4, <1>11
  <2>4. ~mixed => seeder'.next = Len(rows) + 1
    BY <1>2, <1>6, <2>2, <2>3
  <2> QED BY <1>1, <1>2, <1>11, <2>2, <2>4 DEF SeedState, Seeding
<1>12. CASE rows' = rows /\ pc' \notin {"down", "idle"} /\ ~InsertAppend
  <2>1. seeder' = seeder
    BY <1>1, <1>12
  <2>2. pc' = "append" <=> pc = "append"
    BY <1>4, <1>12
  <2> QED BY <1>1, <1>2, <1>4, <1>12, <2>1, <2>2 DEF SeedState, Seeding
<1> QED BY <1>4, <1>8, <1>9, <1>10, <1>11, <1>12

(* The file of an emptied index is right: it counts no row.                *)
LEMMA EmptyDiskRight ==
    ASSUME rows' \in ShortRows, disk' = EmptyIndex
    PROVE  DiskRight'
<1>1. disk'.size = 0
  BY DEF EmptyIndex, Index
<1>2. Len(rows') = 0 => rows' = <<>>
  BY EmptySeq DEF ShortRows
<1> QED BY <1>1, <1>2, BuiltOfNone DEF DiskRight

(* A table made anew.                                                      *)
LEMMA PreparedTable ==
    ASSUME TableInv, PrepareTable, pc' \in {"down", "idle"}, loaded' = FALSE,
           UNCHANGED <<job, written, index, nextId, rowCount>>
    PROVE  TableInv'
<1>1. rows' = <<>> /\ acked' = {} /\ disk' = EmptyIndex
  BY DEF PrepareTable, ResetIndexFile
<1>2. rows' \in ShortRows
  BY <1>1 DEF ShortRows
<1>3. RowsRight'
  BY <1>1, <1>2, BuiltOfNone DEF RowsRight
<1>4. DiskRight'
  BY <1>1, <1>2, EmptyDiskRight
<1>5. JobTyped' /\ ProcessState' /\ AppendState'
  BY DEF TableInv, JobTyped, ProcessState, AppendState
<1> QED BY <1>3, <1>4, <1>5 DEF TableInv

(* A seeder that begins is one.                                            *)
LEMMA Begins ==
    ASSUME NEW first \in Nat \ {0}, NEW target \in Targets, RunFrom(first, target)
    PROVE  /\ Seeding' /\ pc' = "idle" /\ loaded' = FALSE
           /\ seeder' \in [next : Nat \ {0}, target : Targets \cup {0}]
           /\ seeder'.next = first /\ seeder'.target = target
<1>1. target \in Nat
  BY SeederAssumption, DatabaseAssumption
<1>2. seeder' \in [next : Nat, target : Nat]
  BY <1>1 DEF RunFrom
<1> QED BY <1>2, SeederAssumption DEF RunFrom, Seeding

LEMMA SeederStart ==
    ASSUME Undisturbed
    PROVE  SeederInit => SeederInv
<1> SUFFICES ASSUME SeederInit PROVE SeederInv
  OBVIOUS
<1>1. TableInv
  BY TableInit DEF SeederInit
<1>2. SeedState
  BY DEF SeederInit, SeedState, Seeding
<1> QED BY <1>1, <1>2 DEF SeederInv

LEMMA SeederStep ==
    ASSUME Undisturbed, SeederInv, [SeederNext]_<<vars, seedVars>>
    PROVE  SeederInv'
<1>1. TableInv /\ SeedState /\ mixed \in BOOLEAN
  BY DEF SeederInv, SeedState
<1>2. rows \in ShortRows /\ Len(rows) \in Nat /\ (pc = "down" => ~loaded) /\ loaded \in BOOLEAN
  BY <1>1, RowTyped DEF TableInv, RowsRight, ProcessState
<1>3. ASSUME NEW target \in Targets, SeedFresh(target) PROVE SeederInv'
  <2>1. /\ PrepareTable /\ RunFrom(1, target) /\ UNCHANGED <<job, written, index, nextId, rowCount>>
        /\ rows' = <<>> /\ mixed' = FALSE
    BY <1>3 DEF SeedFresh, PrepareTable
  <2>2. /\ Seeding' /\ pc' = "idle" /\ loaded' = FALSE
        /\ seeder' \in [next : Nat \ {0}, target : Targets \cup {0}]
        /\ seeder'.next = 1
    <3>1. 1 \in Nat \ {0}
      OBVIOUS
    <3> QED BY <2>1, <3>1, Begins
  <2>3. TableInv'
    BY <1>1, <2>1, <2>2, PreparedTable
  <2>4. DOMAIN rows' = {} /\ Len(rows') = 0
    BY <2>1
  <2>5. seeder'.next = Len(rows') + 1 /\ mixed' \in BOOLEAN
    <3>1. mixed' \in BOOLEAN
      BY <2>1, Zenon
    <3>2. seeder'.next = Len(rows') + 1
      BY <2>2, <2>4
    <3> QED BY <3>1, <3>2
  <2>6. SeedState'
    BY <2>2, <2>4, <2>5 DEF SeedState
  <2> QED BY <2>3, <2>6 DEF SeederInv
<1>4. CASE KillDuringPrepare
  <2>1. /\ pc = "down" /\ PrepareTable /\ UNCHANGED <<pc, loaded, job, written, index, nextId, rowCount>>
        /\ rows' = <<>> /\ mixed' = FALSE /\ ~Seeding'
    BY <1>4 DEF KillDuringPrepare, PrepareTable, Idle, Seeding
  <2>2. loaded' = FALSE
    BY <1>2, <2>1
  <2>3. TableInv'
    BY <1>1, <2>1, <2>2, PreparedTable
  <2>4. DOMAIN rows' = {}
    BY <2>1
  <2>5. SeedState'
    BY <2>1, <2>4 DEF SeedState
  <2> QED BY <2>3, <2>5 DEF SeederInv
<1>5. ASSUME NEW target \in Targets, SeedResume(target) PROVE SeederInv'
  <2>1. /\ pc = "down" /\ ~Seeding /\ disk' = EmptyIndex
        /\ UNCHANGED <<rows, job, written, index, nextId, rowCount, acked, mixed>>
    BY <1>5 DEF SeedResume, Idle, Seeding, ResetIndexFile, history
  <2>2. CountExistingRows = Len(rows)
    BY <1>2, CountIsLen DEF CountExistingRows
  <2>3. \/ UNCHANGED <<pc, loaded, seeder>>
        \/ RunFrom(Len(rows) + 1, target)
    BY <1>5, <2>2 DEF SeedResume
  <2>4. DiskRight'
    BY <1>2, <2>1, EmptyDiskRight
  <2>5. CASE UNCHANGED <<pc, loaded, seeder>>
    <3>1. TableInv'
      BY <1>1, <1>2, <2>1, <2>4, <2>5 DEF TableInv, RowsRight, JobTyped, ProcessState, AppendState
    <3>2. SeedState'
      BY <1>1, <2>1, <2>5 DEF SeedState, Seeding
    <3> QED BY <3>1, <3>2 DEF SeederInv
  <2>6. CASE RunFrom(Len(rows) + 1, target)
    <3>1. /\ Seeding' /\ pc' = "idle" /\ loaded' = FALSE
          /\ seeder' \in [next : Nat \ {0}, target : Targets \cup {0}]
          /\ seeder'.next = Len(rows) + 1
      <4>1. Len(rows) + 1 \in Nat \ {0}
        BY <1>2
      <4> QED BY <2>6, <4>1, Begins
    <3>2. TableInv'
      BY <1>1, <2>1, <2>4, <3>1 DEF TableInv, RowsRight, JobTyped, ProcessState, AppendState
    <3>3. SeedState'
      BY <1>1, <2>1, <3>1 DEF SeedState
    <3> QED BY <3>2, <3>3 DEF SeederInv
  <2> QED BY <2>3, <2>5, <2>6
<1>6. CASE SeedInsert
  <2>1. Seeding /\ seeder.next <= seeder.target /\ Request("insert", AutoId, "short")
        /\ UNCHANGED <<seeder, mixed>>
    BY <1>6 DEF SeedInsert, seedVars
  <2>2. TableInv'
    BY <1>1, <2>1, RequestTyped
  <2>3. pc = "idle" /\ pc' = "load" /\ rows' = rows /\ job'.kind = "insert" /\ job'.id = AutoId
    BY <2>1 DEF Request, Job, fileVars
  <2>4. SeedState'
    BY <1>1, <2>1, <2>3 DEF SeedState, Seeding
  <2> QED BY <2>2, <2>4 DEF SeederInv
<1>7. CASE SeedStep
  <2>1. TableInv'
    BY <1>1, <1>7, TableStep DEF SeedStep
  <2> QED BY <1>7, <2>1, SeedStepKept DEF SeederInv
<1>8. CASE SeedEnds \/ SeedKilled
  <2>1. (Quit \/ Kill) /\ seeder' = NoSeed /\ mixed' = mixed
    BY <1>8 DEF SeedEnds, SeedKilled
  <2>2. Next /\ rows' = rows
    BY <2>1 DEF Next, Quit, Kill
  <2>3. TableInv'
    BY <1>1, <2>2, TableStep
  <2>4. SeedState'
    BY <1>1, <2>1, <2>2 DEF SeedState, Seeding
  <2> QED BY <2>3, <2>4 DEF SeederInv
<1>9. CASE OtherStep
  <2>1. ~Seeding /\ Next /\ mixed' = (mixed \/ rows' # rows) /\ seeder' = seeder
    BY <1>9 DEF OtherStep
  <2>2. TableInv'
    BY <1>1, <2>1, TableStep
  <2>3. mixed' \in BOOLEAN /\ (~mixed' => ~mixed /\ rows' = rows)
    BY <1>1, <2>1
  <2>4. SeedState'
    BY <1>1, <2>1, <2>3 DEF SeedState, Seeding
  <2> QED BY <2>2, <2>4 DEF SeederInv
<1>10. CASE UNCHANGED <<vars, seedVars>>
  <2>1. TableInv'
    BY <1>1, <1>10, SameTable DEF vars, fileVars, history
  <2>2. SeedState'
    BY <1>1, <1>10 DEF SeedState, Seeding, vars, fileVars, seedVars
  <2> QED BY <2>1, <2>2 DEF SeederInv
<1> QED BY <1>3, <1>4, <1>5, <1>6, <1>7, <1>8, <1>9, <1>10 DEF SeederNext

-----------------------------------------------------------------------------
(* The theorems: a table that only this program writes, in rows that fit   *)
(* fgets, with no failing read or write, through kills anywhere.           *)

(* Rows, index, written and disk stand to each other as TableInv says at   *)
(* every step of load_table, database_execute_insert and the seeder's      *)
(* loop, and at every kill between two of them.                            *)
THEOREM SeederInvariance ==
    ASSUME Undisturbed
    PROVE  SeederSpec => []SeederInv
<1>1. SeederInit => SeederInv
  BY SeederStart
<1>2. SeederInv /\ [SeederNext]_<<vars, seedVars>> => SeederInv'
  BY SeederStep
<1> QED BY <1>1, <1>2, PTL DEF SeederSpec

(* The table file can always be indexed again: no id is in it twice.       *)
THEOREM TableIsLoadable ==
    ASSUME Undisturbed
    PROVE  SeederSpec => []TableStaysLoadable
<1>1. SeederInv => TableStaysLoadable
  BY DEF SeederInv, TableInv, RowsRight, TableStaysLoadable
<1> QED BY <1>1, SeederInvariance, PTL

(* An index file that the next process would take as it is, wherever the   *)
(* last one was killed, holds every row at its place and no other.         *)
THEOREM TrustedIndexIsComplete ==
    ASSUME Undisturbed
    PROVE  SeederSpec => []TrustedIndexIsRight
<1>1. SeederInv => TrustedIndexIsRight
  <2> SUFFICES ASSUME SeederInv, ~ShouldRebuild PROVE ~disk.torn /\ RightFor(disk.map, rows)
    BY DEF TrustedIndexIsRight
  <2>1. rows \in ShortRows /\ BuildSucceeds(rows) /\ DiskRight
    BY DEF SeederInv, TableInv, RowsRight
  <2>2. disk.size = Len(rows)
    BY <2>1, CountIsLen DEF ShouldRebuild
  <2>3. disk = BuiltIndex(rows)
    BY <2>1, <2>2 DEF DiskRight
  <2>4. /\ DOMAIN disk.map = IdsOf(rows) /\ disk.torn = FALSE
        /\ \A k \in IdsOf(rows) : disk.map[k] \in DOMAIN rows /\ rows[disk.map[k]].id = k
    BY <2>1, <2>3, BuiltIsRight
  <2> QED BY <2>4 DEF RightFor, PointsRight
<1> QED BY <1>1, SeederInvariance, PTL

(* What WHERE id op k finds through the index of a loaded table.           *)
LEMMA IndexedAnswer ==
    ASSUME SeederInv, Ready
    PROVE  /\ DOMAIN index.map = IdsOf(rows)
           /\ \A i \in DOMAIN rows : index.map[rows[i].id] = i
           /\ \A op, k : IndexedSelect(op, k) =
                 Answer(TRUE, {<<j, index.map[j]>> : j \in {x \in IdsOf(rows) : Holds(op, x, k)}})
<1>1. TableInv /\ loaded /\ pc # "append"
  BY DEF SeederInv, Ready
<1>2. /\ rows \in ShortRows /\ BuildSucceeds(rows) /\ index = BuiltIndex(rows)
      /\ DOMAIN index.map = IdsOf(rows)
  BY <1>1, LoadedTable
<1>3. \A i \in DOMAIN rows : index.map[rows[i].id] = i
  BY <1>2, BuiltIsRight
<1>4. \A j \in IdsOf(rows) : index.map[j] \in RowsLike(rows, {"short", "open", "tail"})
  <2> TAKE j \in IdsOf(rows)
  <2>1. PICK i \in DOMAIN rows : j = rows[i].id
    BY DEF IdsOf
  <2>2. i \in RowsLike(rows, {"short", "open", "tail"})
    BY <1>2, RowTyped DEF RowsLike
  <2> QED BY <1>3, <2>1, <2>2
<1> QED BY <1>2, <1>3, <1>4 DEF IndexedSelect

(* Between statements the index answers as a scan of the table does, for   *)
(* every comparison operator and every id.                                 *)
THEOREM IndexAgreesWithScan ==
    ASSUME Undisturbed
    PROVE  SeederSpec => []IndexAnswersLikeScan
<1>1. SeederInv => IndexAnswersLikeScan
  <2> SUFFICES ASSUME SeederInv, Ready, NEW op \in Ops, NEW k \in Ints
               PROVE  IndexedSelect(op, k) = LinearSelect(op, k)
    BY DEF IndexAnswersLikeScan
  <2>1. rows \in ShortRows
    BY DEF SeederInv, TableInv, RowsRight
  <2> DEFINE indexed == {<<j, index.map[j]>> : j \in {x \in IdsOf(rows) : Holds(op, x, k)}}
             scanned == {<<rows[i].id, i>> : i \in {j \in DOMAIN rows : Holds(op, rows[j].id, k)}}
  <2>2. \A i \in DOMAIN rows : rows[i].id \in IdsOf(rows) /\ index.map[rows[i].id] = i
    BY IndexedAnswer DEF IdsOf
  <2>3. ASSUME NEW e \in indexed PROVE e \in scanned
    <3>1. PICK j \in IdsOf(rows) : Holds(op, j, k) /\ e = <<j, index.map[j]>>
      OBVIOUS
    <3>2. PICK i \in DOMAIN rows : j = rows[i].id
      BY DEF IdsOf
    <3>3. e = <<rows[i].id, i>> /\ Holds(op, rows[i].id, k)
      BY <2>2, <3>1, <3>2
    <3> QED BY <3>3
  <2>4. ASSUME NEW e \in scanned PROVE e \in indexed
    <3>1. PICK i \in DOMAIN rows : Holds(op, rows[i].id, k) /\ e = <<rows[i].id, i>>
      OBVIOUS
    <3> DEFINE j == rows[i].id
    <3>2. j \in IdsOf(rows) /\ e = <<j, index.map[j]>> /\ Holds(op, j, k)
      BY <2>2, <3>1
    <3> HIDE DEF j
    <3> QED BY <3>2
  <2>5. indexed = scanned
    BY <2>3, <2>4
  <2>6. RowsLike(rows, {"long", "cut", "joined"}) = {}
    BY <2>1, RowTyped DEF RowsLike
  <2>7. IndexedSelect(op, k) = Answer(TRUE, indexed)
    BY IndexedAnswer
  <2>8. LinearSelect(op, k) = Answer(TRUE, scanned)
    BY <2>6 DEF LinearSelect
  <2> QED BY <2>5, <2>7, <2>8
<1> QED BY <1>1, SeederInvariance, PTL

(* A row whose INSERT was acknowledged is found, in this process and in    *)
(* every later one.                                                        *)
THEOREM AckedRowsAreFound ==
    ASSUME Undisturbed
    PROVE  SeederSpec => []AckedRowIsFound
<1>1. SeederInv => AckedRowIsFound
  <2> SUFFICES ASSUME SeederInv, Ready, NEW k \in acked
               PROVE  IndexedSelect("=", k).ok /\ IndexedSelect("=", k).found # {}
    BY DEF AckedRowIsFound
  <2>1. k \in IdsOf(rows)
    BY DEF SeederInv, TableInv, RowsRight
  <2> DEFINE found == {<<j, index.map[j]>> : j \in {x \in IdsOf(rows) : Holds("=", x, k)}}
  <2>2. IndexedSelect("=", k) = Answer(TRUE, found)
    BY IndexedAnswer
  <2>3. <<k, index.map[k]>> \in found
    BY <2>1 DEF Holds
  <2> HIDE DEF found
  <2> QED BY <2>2, <2>3 DEF Answer
<1> QED BY <1>1, SeederInvariance, PTL

(* As long as INT_MAX is not an id of the table, the id the next INSERT    *)
(* without an id will be given is free.                                    *)
THEOREM AutoIdStaysFree ==
    ASSUME Undisturbed
    PROVE  SeederSpec => []AutoIdIsFree
<1>1. SeederInv => AutoIdIsFree
  <2> SUFFICES ASSUME SeederInv, Ready, MaxInt \notin DOMAIN index.map, nextId \in DOMAIN index.map
               PROVE  FALSE
    BY DEF AutoIdIsFree
  <2>1. TableInv /\ loaded /\ pc # "append"
    BY DEF SeederInv, Ready
  <2>2. /\ rows \in ShortRows /\ DOMAIN index.map = IdsOf(rows)
        /\ nextId = NextIdOf(rows) /\ nextId \in Ints
    BY <2>1, LoadedTable
  <2>3. nextId < nextId
    BY <2>2, NextIdIsAbove
  <2>4. nextId \in Int
    BY <2>2, IntsTyped
  <2> QED BY <2>3, <2>4
<1> QED BY <1>1, SeederInvariance, PTL

(* In a table that only the seeder wrote the id of a row is its number,    *)
(* however often it was killed and resumed.                                *)
THEOREM SeededRowsAreNumbered ==
    ASSUME Undisturbed
    PROVE  SeederSpec => []SeededIdsAreRowNumbers
<1>1. SeederInv => SeededIdsAreRowNumbers
  <2> SUFFICES ASSUME SeedState PROVE SeededIdsAreRowNumbers
    BY DEF SeederInv
  <2> QED BY DEF SeedState, SeededIdsAreRowNumbers
<1> QED BY <1>1, SeederInvariance, PTL
=============================================================================
