-------------------------- MODULE BPlusTree_proofs --------------------------
(***************************************************************************)
(* The B+ tree, for every size of its nodes, every order of insertion and  *)
(* every number of pages.                                                  *)
(*                                                                         *)
(* The invariant speaks of what the file will be when the writes in todo   *)
(* are done (N), and gives each page p a level lv[p] (0 for leaves) and    *)
(* the ids it is responsible for, from lo[p] up to but not including       *)
(* hi[p].  A page that has just been split is responsible for less than    *)
(* its parent knows; top[p] is where it ends in the eyes of its parent.    *)
(* D is the set of ids in the leaves.                                      *)
(***************************************************************************)
EXTENDS BPlusTree, CommonLemmas, FiniteSetTheorems

Low == MinInt
High == MaxInt + 1

Ascending(s) == \A i, j \in 1 .. Len(s) : i < j => s[i] < s[j]

(* A leaf holds the ids of its range and their values.                     *)
PairsRight(ks, vs, l, h, D) ==
    /\ Ascending(ks)
    /\ ToSet(ks) = {k \in D : l <= k /\ k < h}
    /\ Len(vs) = Len(ks)
    /\ \A i \in 1 .. Len(ks) : vs[i] = ValueOf[ks[i]]

LeafRight(n, l, h, D) == n.leaf /\ PairsRight(n.keys, n.vals, l, h, D)

(* The next leaf begins where this one ends.                               *)
LinkRight(n, h, lo, lv, P) ==
    IF n.next = 0 THEN h = High ELSE n.next \in 1 .. P /\ lv[n.next] = 0 /\ lo[n.next] = h

(* The keys of an internal node and the ends of its range are the ends of  *)
(* its children.                                                           *)
Edge(keys, l, h, i) == IF i = 0 THEN l ELSE IF i = Len(keys) + 1 THEN h ELSE keys[i]

KidsPlaced(ks, cs, l, h, v, lo, top, lv, P) ==
    /\ Ascending(ks)
    /\ \A i \in 1 .. Len(ks) : l < ks[i] /\ ks[i] < h
    /\ Len(cs) = Len(ks) + 1
    /\ \A i \in 1 .. Len(cs) :
          /\ cs[i] \in 1 .. P
          /\ lv[cs[i]] = v - 1
          /\ lo[cs[i]] = Edge(ks, l, h, i - 1)
          /\ top[cs[i]] = Edge(ks, l, h, i)

KidsRight(n, l, h, v, lo, top, lv, P) ==
    ~n.leaf /\ KidsPlaced(n.keys, n.kids, l, h, v, lo, top, lv, P)

(* At least half full.                                                     *)
Filled(n) ==
    Len(n.keys) >= IF n.leaf THEN (MaxKeys + 1) \div 2 ELSE MaxKeys - (MaxKeys + 1) \div 2

RangeRight(lo, hi, top, p) ==
    Low <= lo[p] /\ lo[p] < hi[p] /\ hi[p] <= top[p] /\ top[p] <= High

PageRight(N, lo, hi, top, lv, P, D, p) ==
    /\ Len(N[p].keys) <= MaxKeys
    /\ IF lv[p] = 0
       THEN LeafRight(N[p], lo[p], hi[p], D) /\ LinkRight(N[p], hi[p], lo, lv, P)
       ELSE KidsRight(N[p], lo[p], hi[p], lv[p], lo, top, lv, P)

Disjoint(lo, hi, lv, P) ==
    \A p, q \in 1 .. P : p # q /\ lv[p] = lv[q] => hi[p] <= lo[q] \/ hi[q] <= lo[p]

Shaped(N, lo, hi, top, lv, P, D) ==
    /\ N \in [Pages -> Nodes]
    /\ lo \in [Pages -> Int] /\ hi \in [Pages -> Int] /\ top \in [Pages -> Int]
    /\ lv \in [Pages -> Nat]
    /\ \A p \in 1 .. P : RangeRight(lo, hi, top, p)
    /\ \A p \in 1 .. P : PageRight(N, lo, hi, top, lv, P, D, p)
    /\ Disjoint(lo, hi, lv, P)

RootRight(lo, top, lv, P, root, first) ==
    /\ root \in 1 .. P /\ lo[root] = Low /\ top[root] = High
    /\ lv[root] < P /\ \A p \in 1 .. P : lv[p] <= lv[root]
    /\ first \in 1 .. P /\ lo[first] = Low /\ lv[first] = 0

(* Only the root may be less than half full.                               *)
FilledRight(N, P, except) == \A p \in 1 .. P : p # except => Filled(N[p])

(* The pages from the root towards the leaf of k.                          *)
PathRight(N, lo, hi, lv, P, root, s, k) ==
    /\ \A j \in 1 .. Len(s) :
          /\ s[j] \in 1 .. P
          /\ lo[s[j]] <= k /\ k < hi[s[j]]
          /\ lv[s[j]] + j = lv[root] + 1
    /\ s # <<>> => s[1] = root
    /\ \A j \in 1 .. Len(s) - 1 : s[j + 1] = Child(N[s[j]], k)

(* The page the insert has come back from.                                 *)
Below(N, s, root, k) == IF s = <<>> THEN root ELSE Child(N[Last(s)], k)

(* It was split at m, its upper part is page r, and its parent does not    *)
(* know.                                                                   *)
SplitBelow(N, lo, hi, top, lv, P, root, s, k, m, r) ==
    LET c == Below(N, s, root, k)
    IN  /\ Len(s) <= lv[root]
        /\ c \in 1 .. P /\ r \in 1 .. P /\ r # c
        /\ hi[c] = m /\ lo[r] = m
        /\ lv[r] = lv[c] /\ lv[c] + Len(s) = lv[root]
        /\ top = [hi EXCEPT ![c] = hi[r]]

(* Doing the writes of w makes N of the pages in node.                     *)
WritesTo(w, p) == {i \in 1 .. Len(w) : w[i].kind = "node" /\ w[i].page = p}
Leads(node, w, N) ==
    \A p \in Pages :
        /\ WritesTo(w, p) = {} => N[p] = node[p]
        /\ \A i \in WritesTo(w, p) :
              (\A j \in WritesTo(w, p) : j <= i) => N[p] = w[i].node

IsPending(at, cr) == at = "ascend" /\ cr # <<>>
Pending == IsPending(pc, carry)

(* The file and the struct, when there is a tree, at each place of an      *)
(* insert: the writes w still to be done, the header h in memory.          *)
Grown(N, lo, hi, top, lv, D, node, w, h, at, s, k, cr, W) ==
    /\ Leads(node, w, N)
    /\ Shaped(N, lo, hi, top, lv, h.pages, D)
    /\ RootRight(lo, top, lv, h.pages, h.root, h.first)
    /\ FilledRight(N, h.pages, IF IsPending(at, cr) /\ s = <<>> THEN 0 ELSE h.root)
    /\ at = "descend" \/ IsPending(at, cr) => PathRight(N, lo, hi, lv, h.pages, h.root, s, k)
    /\ IF IsPending(at, cr) THEN SplitBelow(N, lo, hi, top, lv, h.pages, h.root, s, k, cr[1], cr[2])
       ELSE top = hi
    /\ W = IF at = "descend" THEN D \cup {k} ELSE D
    /\ Cardinality(D) = IF at = "ascend" THEN h.size + 1 ELSE h.size
    /\ MaxInt \notin W =>
          \A x \in D : x < h.nextId \/ (at = "ascend" /\ x = k)

GrownRight(N, lo, hi, top, lv, D) ==
    Grown(N, lo, hi, top, lv, D, file.node, todo, tree, pc, path, key, carry, want)

Fresh ==
    /\ tree = EmptyHeader /\ file.header = EmptyHeader /\ stable.header = EmptyHeader
    /\ pc = "idle" /\ todo = <<>> /\ want = {}

(* The struct in memory and the headers that are written.                  *)
HeadersRight ==
    /\ AtRest \/ pc = "descend" => file.header = tree
    /\ todo # <<>> /\ pc = "idle" =>
          /\ Last(todo) = HeaderWrite(tree)
          /\ file.header.size < tree.size
          /\ \A i \in 1 .. Len(todo) - 1 : todo[i].kind = "header" => todo[i].header.size < tree.size
    /\ pc = "ascend" =>
          /\ file.header.size = tree.size
          /\ \A i \in 1 .. Len(todo) : todo[i].kind = "header" => todo[i].header.size = tree.size
    /\ stable.header.size <= Cardinality(want)
    /\ stable.header.size = Cardinality(want) => todo = <<>> /\ pc # "ascend" /\ stable = file

ControlRight ==
    /\ pc = "descend" => todo = <<>> /\ carry = <<>> /\ path # <<>>
    /\ pc # "idle" => key \in want /\ tree.root # 0
    /\ IsFiniteSet(want)

TreeInv ==
    /\ TypeOK
    /\ ControlRight
    /\ HeadersRight
    /\ \/ tree.root = 0 /\ Fresh
       \/ \E N, lo, hi, top, lv, D : GrownRight(N, lo, hi, top, lv, D)

-----------------------------------------------------------------------------
(* Positions and sequences                                                 *)

(* Ids are integers, and High lies above all of them.                      *)
LEMMA IntsAre ==
    /\ MaxInt \in Nat /\ Low \in Int /\ High \in Int
    /\ Ints \subseteq Int /\ \A k \in Ints : Low <= k /\ k < High
BY MachineIntAssumption DEF Low, High, MinInt, Ints

(* The sizes of a tree.                                                    *)
LEMMA SizesAre == MaxKeys \in Nat /\ MaxKeys >= 2 /\ MaxPages \in Nat /\ MaxPages >= 1 /\ Keys \subseteq Ints
BY TreeAssumption

(* A set of positions that holds with each position those before it.       *)
LEMMA Prefix ==
    ASSUME NEW n \in Nat, NEW T \in SUBSET (1 .. n),
           \A i \in 1 .. n, j \in 1 .. n : i <= j /\ j \in T => i \in T
    PROVE  /\ 1 + Cardinality(T) \in 1 .. n + 1
           /\ \A i \in 1 .. n : i \in T <=> i < 1 + Cardinality(T)
<1> DEFINE U == T \cup {0}
           m == Max(U)
<1>1. U \in SUBSET (0 .. n) /\ U # {}
  OBVIOUS
<1>2. m \in U /\ \A y \in U : y <= m
  <2> HIDE DEF U
  <2> QED BY <1>1, MaxIsGreatest
<1> HIDE DEF m
<1>3. m \in 0 .. n
  BY <1>1, <1>2
<1>4. T = 1 .. m
  <2>1. ASSUME NEW i \in T PROVE i \in 1 .. m
    BY <1>2, <1>3
  <2>2. ASSUME NEW i \in 1 .. m PROVE i \in T
    <3>1. m \in T /\ m \in 1 .. n /\ i \in 1 .. n /\ i <= m
      BY <1>2, <1>3
    <3> QED BY <3>1
  <2> QED BY <2>1, <2>2
<1>5. Cardinality(1 .. m) = m
  <2>1. 1 \in Int /\ m \in Int /\ (1 > m => m = 0) /\ m - 1 + 1 = m
    BY <1>3
  <2>2. Cardinality(1 .. m) = IF 1 > m THEN 0 ELSE m - 1 + 1
    BY <2>1, FS_Interval
  <2> QED BY <2>1, <2>2
<1>6. Cardinality(T) = m
  BY <1>4, <1>5
<1> DEFINE c == Cardinality(T)
<1>7. c = m
  BY <1>6
<1> HIDE DEF c
<1>8. 1 + c \in 1 .. n + 1 /\ \A i \in 1 .. n : i \in 1 .. m <=> i < 1 + c
  BY <1>3, <1>7
<1> QED BY <1>4, <1>8 DEF c

(* In ascending keys UpperBound is the position of the first key above k.  *)
LEMMA UpperBoundIs ==
    ASSUME NEW s \in Seq(Int), Ascending(s), NEW k \in Int
    PROVE  /\ UpperBound(s, k) \in 1 .. Len(s) + 1
           /\ \A i \in 1 .. Len(s) : IF i < UpperBound(s, k) THEN s[i] <= k ELSE k < s[i]
<1> DEFINE T == {i \in DOMAIN s : s[i] <= k}
<1>1. Len(s) \in Nat /\ DOMAIN s = 1 .. Len(s) /\ \A i \in 1 .. Len(s) : s[i] \in Int
  BY ElementOfSeq
<1>2. T \in SUBSET (1 .. Len(s))
  BY <1>1
<1>3. ASSUME NEW i \in 1 .. Len(s), NEW j \in 1 .. Len(s), i <= j, j \in T PROVE i \in T
  <2>1. s[i] \in Int /\ s[j] \in Int /\ s[j] <= k
    BY <1>1, <1>3
  <2>2. CASE i = j
    BY <1>3, <2>2
  <2>3. CASE i # j
    <3>1. i < j
      BY <1>3, <2>3
    <3>2. s[i] < s[j]
      BY <3>1 DEF Ascending
    <3> QED BY <1>1, <2>1, <3>2
  <2> QED BY <2>2, <2>3
<1>4. \A i \in 1 .. Len(s) : i \in T <=> s[i] <= k
  BY <1>1
<1>5. UpperBound(s, k) = 1 + Cardinality(T)
  BY DEF UpperBound
<1> HIDE DEF T
<1>6. /\ 1 + Cardinality(T) \in 1 .. Len(s) + 1
      /\ \A i \in 1 .. Len(s) : i \in T <=> i < 1 + Cardinality(T)
  BY <1>1, <1>2, <1>3, Prefix
<1> DEFINE u == 1 + Cardinality(T)
<1> HIDE DEF u
<1>7. u \in 1 .. Len(s) + 1 /\ \A i \in 1 .. Len(s) : s[i] <= k <=> i < u
  BY <1>4, <1>6 DEF u
<1>8. \A i \in 1 .. Len(s) : IF i < u THEN s[i] <= k ELSE k < s[i]
  BY <1>1, <1>7
<1> QED BY <1>5, <1>7, <1>8 DEF u

(* And LowerBound that of the first key not below k.                       *)
LEMMA LowerBoundIs ==
    ASSUME NEW s \in Seq(Int), Ascending(s), NEW k \in Int
    PROVE  /\ LowerBound(s, k) \in 1 .. Len(s) + 1
           /\ \A i \in 1 .. Len(s) : IF i < LowerBound(s, k) THEN s[i] < k ELSE k <= s[i]
<1> DEFINE T == {i \in DOMAIN s : s[i] < k}
<1>1. Len(s) \in Nat /\ DOMAIN s = 1 .. Len(s) /\ \A i \in 1 .. Len(s) : s[i] \in Int
  BY ElementOfSeq
<1>2. T \in SUBSET (1 .. Len(s))
  BY <1>1
<1>3. ASSUME NEW i \in 1 .. Len(s), NEW j \in 1 .. Len(s), i <= j, j \in T PROVE i \in T
  <2>1. s[i] \in Int /\ s[j] \in Int /\ s[j] < k
    BY <1>1, <1>3
  <2>2. CASE i = j
    BY <1>3, <2>2
  <2>3. CASE i # j
    <3>1. i < j
      BY <1>3, <2>3
    <3>2. s[i] < s[j]
      BY <3>1 DEF Ascending
    <3> QED BY <1>1, <2>1, <3>2
  <2> QED BY <2>2, <2>3
<1>4. \A i \in 1 .. Len(s) : i \in T <=> s[i] < k
  BY <1>1
<1>5. LowerBound(s, k) = 1 + Cardinality(T)
  BY DEF LowerBound
<1> HIDE DEF T
<1>6. /\ 1 + Cardinality(T) \in 1 .. Len(s) + 1
      /\ \A i \in 1 .. Len(s) : i \in T <=> i < 1 + Cardinality(T)
  BY <1>1, <1>2, <1>3, Prefix
<1> DEFINE u == 1 + Cardinality(T)
<1> HIDE DEF u
<1>7. u \in 1 .. Len(s) + 1 /\ \A i \in 1 .. Len(s) : s[i] < k <=> i < u
  BY <1>4, <1>6 DEF u
<1>8. \A i \in 1 .. Len(s) : IF i < u THEN s[i] < k ELSE k <= s[i]
  BY <1>1, <1>7
<1> QED BY <1>5, <1>7, <1>8 DEF u

(* The elements of a stretch.                                              *)
LEMMA Stretch ==
    ASSUME NEW S, NEW s \in Seq(S), NEW a \in 1 .. Len(s) + 1, NEW b \in a - 1 .. Len(s)
    PROVE  /\ SubSeq(s, a, b) \in Seq(S) /\ Len(SubSeq(s, a, b)) = b - a + 1
           /\ \A i \in 1 .. b - a + 1 : SubSeq(s, a, b)[i] = s[a - 1 + i]
<1>1. Len(s) \in Nat /\ a \in Int /\ b \in Int /\ \A i \in a .. b : i \in 1 .. Len(s)
  OBVIOUS
<1>2. \A i \in a .. b : s[i] \in S
  BY <1>1, ElementOfSeq
<1>3. /\ SubSeq(s, a, b) \in Seq(S)
      /\ Len(SubSeq(s, a, b)) = IF a <= b THEN b - a + 1 ELSE 0
      /\ \A i \in 1 .. b - a + 1 : SubSeq(s, a, b)[i] = s[a + i - 1]
  BY <1>1, <1>2, SubSeqProperties
<1>4. (IF a <= b THEN b - a + 1 ELSE 0) = b - a + 1 /\ \A i \in 1 .. b - a + 1 : a + i - 1 = a - 1 + i
  BY <1>1
<1> DEFINE q == SubSeq(s, a, b)
<1> HIDE DEF q
<1>5. q \in Seq(S) /\ Len(q) = b - a + 1 /\ \A i \in 1 .. b - a + 1 : q[i] = s[a - 1 + i]
  BY <1>3, <1>4 DEF q
<1> QED BY <1>5 DEF q

(* w is s with e put at position u.                                        *)
Inserted(w, s, u, e) ==
    /\ Len(w) = Len(s) + 1
    /\ \A i \in 1 .. Len(s) + 1 : w[i] = IF i < u THEN s[i] ELSE IF i = u THEN e ELSE s[i - 1]

(* InsertAt puts an element at its position and moves those behind it.     *)
LEMMA InsertAtIs ==
    ASSUME NEW S, NEW s \in Seq(S), NEW u \in 1 .. Len(s) + 1, NEW e \in S
    PROVE  InsertAt(s, u, e) \in Seq(S) /\ Inserted(InsertAt(s, u, e), s, u, e)
<1> DEFINE n == Len(s)
           a == SubSeq(s, 1, u - 1)
           z == SubSeq(s, u, n)
           x == <<e>>
           y == a \o x
           w == y \o z
<1>1. n \in Nat /\ u \in 1 .. n + 1
  OBVIOUS
<1>2. a \in Seq(S) /\ Len(a) = u - 1 /\ \A i \in 1 .. u - 1 : a[i] = s[i]
  <2>1. 1 \in 1 .. Len(s) + 1 /\ u - 1 \in 1 - 1 .. Len(s) /\ u - 1 - 1 + 1 = u - 1
        /\ \A i \in 1 .. u - 1 : 1 - 1 + i = i
    OBVIOUS
  <2>2. /\ a \in Seq(S) /\ Len(a) = u - 1 - 1 + 1
        /\ \A i \in 1 .. u - 1 - 1 + 1 : a[i] = s[1 - 1 + i]
    BY <2>1, Stretch
  <2> HIDE DEF a
  <2> QED BY <2>1, <2>2
<1>3. z \in Seq(S) /\ Len(z) = n - u + 1 /\ \A i \in 1 .. n - u + 1 : z[i] = s[u - 1 + i]
  <2>1. n \in u - 1 .. Len(s)
    OBVIOUS
  <2> QED BY <2>1, Stretch
<1>4. x \in Seq(S) /\ Len(x) = 1 /\ x[1] = e
  OBVIOUS
<1> HIDE DEF a, z, x
<1>5. /\ y \in Seq(S) /\ Len(y) = Len(a) + Len(x)
      /\ \A i \in 1 .. Len(a) : y[i] = a[i]
      /\ \A i \in 1 .. Len(x) : y[Len(a) + i] = x[i]
  <2>1. a \in Seq(S) /\ x \in Seq(S)
    BY <1>2, <1>4
  <2> QED BY <2>1, Concatenated
<1>6. Len(y) = u /\ y[u] = e /\ \A i \in 1 .. u - 1 : y[i] = s[i]
  <2>1. 1 \in 1 .. Len(x) /\ (u - 1) + 1 = u
    BY <1>1, <1>4
  <2>2. y[(u - 1) + 1] = x[1]
    BY <1>2, <1>5, <2>1
  <2> QED BY <1>1, <1>2, <1>4, <1>5, <2>1, <2>2
<1> HIDE DEF y
<1>7. /\ w \in Seq(S) /\ Len(w) = Len(y) + Len(z)
      /\ \A i \in 1 .. Len(y) : w[i] = y[i]
      /\ \A i \in 1 .. Len(z) : w[Len(y) + i] = z[i]
  <2>1. y \in Seq(S) /\ z \in Seq(S)
    BY <1>3, <1>5
  <2> QED BY <2>1, Concatenated
<1> HIDE DEF w
<1>8. Len(w) = n + 1
  BY <1>1, <1>3, <1>6, <1>7
<1>9. ASSUME NEW i \in 1 .. n + 1
      PROVE  w[i] = IF i < u THEN s[i] ELSE IF i = u THEN e ELSE s[i - 1]
  <2>1. CASE i <= u
    <3>1. i \in 1 .. Len(y) /\ (i = u \/ i \in 1 .. u - 1)
      BY <1>1, <1>6, <2>1
    <3> QED BY <1>1, <1>6, <1>7, <3>1
  <2>2. CASE ~(i <= u)
    <3> DEFINE j == i - u
    <3>1. j \in 1 .. n - u + 1 /\ u + j = i /\ u - 1 + j = i - 1
      BY <1>1, <2>2
    <3> HIDE DEF j
    <3>2. w[i] = z[j] /\ z[j] = s[i - 1]
      BY <1>3, <1>6, <1>7, <3>1
    <3> QED BY <1>1, <2>2, <3>2
  <2> QED BY <2>1, <2>2
<1>10. InsertAt(s, u, e) = w
  BY DEF InsertAt, w, y, a, x, z, n
<1>11. Inserted(w, s, u, e)
  BY <1>8, <1>9 DEF Inserted, n
<1> QED BY <1>7, <1>10, <1>11

(* An element put in its place keeps the order.                            *)
LEMMA InsertAscending ==
    ASSUME NEW s \in Seq(Int), Ascending(s), NEW u \in 1 .. Len(s) + 1, NEW k \in Int,
           \A i \in 1 .. Len(s) : IF i < u THEN s[i] < k ELSE k < s[i]
    PROVE  /\ Ascending(InsertAt(s, u, k))
           /\ ToSet(InsertAt(s, u, k)) = ToSet(s) \cup {k}
<1> DEFINE w == InsertAt(s, u, k)
           n == Len(s)
<1>1. /\ n \in Nat /\ DOMAIN s = 1 .. n /\ \A i \in 1 .. n : s[i] \in Int
      /\ u \in 1 .. n + 1 /\ \A i \in 1 .. n : IF i < u THEN s[i] < k ELSE k < s[i]
  BY ElementOfSeq
<1>2. /\ w \in Seq(Int) /\ Len(w) = n + 1
      /\ \A i \in 1 .. n + 1 : w[i] = IF i < u THEN s[i] ELSE IF i = u THEN k ELSE s[i - 1]
  <2>1. s \in Seq(Int) /\ u \in 1 .. Len(s) + 1 /\ k \in Int
    OBVIOUS
  <2>2. InsertAt(s, u, k) \in Seq(Int) /\ Inserted(InsertAt(s, u, k), s, u, k)
    BY ONLY <2>1, InsertAtIs
  <2> QED BY <2>2 DEF Inserted
<1>3. \A i, j \in 1 .. n : i < j => s[i] < s[j]
  BY DEF Ascending
<1> HIDE DEF w, n
<1>4. ASSUME NEW i \in 1 .. n + 1, NEW j \in 1 .. n + 1, i < j PROVE w[i] < w[j]
  <2>1. CASE j < u
    <3>1. i \in 1 .. n /\ j \in 1 .. n /\ w[i] = s[i] /\ w[j] = s[j]
      BY <1>1, <1>2, <1>4, <2>1
    <3> QED BY <1>3, <1>4, <3>1
  <2>2. CASE j = u
    <3>1. i \in 1 .. n /\ i < u /\ w[i] = s[i] /\ w[j] = k
      BY <1>1, <1>2, <1>4, <2>2
    <3> QED BY <1>1, <3>1
  <2>3. CASE j > u /\ i = u
    <3>1. j - 1 \in 1 .. n /\ ~(j - 1 < u) /\ w[j] = s[j - 1] /\ w[i] = k
      BY <1>1, <1>2, <1>4, <2>3
    <3> QED BY <1>1, <3>1
  <2>4. CASE j > u /\ i < u
    <3>1. i \in 1 .. n /\ j - 1 \in 1 .. n /\ i < u /\ ~(j - 1 < u) /\ w[i] = s[i] /\ w[j] = s[j - 1]
      BY <1>1, <1>2, <1>4, <2>4
    <3>2. s[i] < k /\ k < s[j - 1] /\ s[i] \in Int /\ s[j - 1] \in Int
      BY <1>1, <3>1
    <3> QED BY <3>1, <3>2
  <2>5. CASE j > u /\ i > u
    <3>1. /\ j - 1 \in 1 .. n /\ i - 1 \in 1 .. n /\ i - 1 < j - 1
          /\ w[i] = s[i - 1] /\ w[j] = s[j - 1]
      BY <1>1, <1>2, <1>4, <2>5
    <3> QED BY <1>3, <3>1
  <2> QED BY <1>1, <1>4, <2>1, <2>2, <2>3, <2>4, <2>5
<1>5. Ascending(w)
  BY <1>2, <1>4 DEF Ascending
<1>6. DOMAIN w = 1 .. n + 1
  BY <1>1, <1>2
<1>7. ASSUME NEW x \in ToSet(w) PROVE x \in ToSet(s) \cup {k}
  <2>1. PICK i \in 1 .. n + 1 : x = w[i]
    BY <1>6 DEF ToSet
  <2>2. CASE i < u
    <3>1. i \in 1 .. n /\ x = s[i]
      BY <1>1, <1>2, <2>1, <2>2
    <3> QED BY <1>1, <3>1 DEF ToSet
  <2>3. CASE i = u
    BY <1>1, <1>2, <2>1, <2>3
  <2>4. CASE i > u
    <3>1. i - 1 \in 1 .. n /\ x = s[i - 1]
      BY <1>1, <1>2, <2>1, <2>4
    <3> QED BY <1>1, <3>1 DEF ToSet
  <2> QED BY <1>1, <2>2, <2>3, <2>4
<1>8. ASSUME NEW x \in ToSet(s) PROVE x \in ToSet(w)
  <2>1. PICK i \in 1 .. n : x = s[i]
    BY <1>1 DEF ToSet
  <2>2. CASE i < u
    <3>1. i \in 1 .. n + 1 /\ x = w[i]
      BY <1>1, <1>2, <2>1, <2>2
    <3> QED BY <1>6, <3>1 DEF ToSet
  <2>3. CASE ~(i < u)
    <3> DEFINE j == i + 1
    <3>1. j \in 1 .. n + 1 /\ ~(j < u) /\ j # u /\ j - 1 = i
      BY <1>1, <2>3
    <3> HIDE DEF j
    <3>2. x = w[j]
      BY <1>2, <2>1, <3>1
    <3> QED BY <1>6, <3>1, <3>2 DEF ToSet
  <2> QED BY <2>2, <2>3
<1>9. k \in ToSet(w)
  <2>1. u \in 1 .. n + 1 /\ w[u] = k
    BY <1>1, <1>2
  <2> QED BY <1>6, <2>1 DEF ToSet
<1>10. ToSet(w) = ToSet(s) \cup {k}
  BY <1>7, <1>8, <1>9
<1> QED BY <1>5, <1>10 DEF w

(* A stretch of an ascending sequence.                                     *)
LEMMA StretchAscending ==
    ASSUME NEW s \in Seq(Int), Ascending(s), NEW a \in 1 .. Len(s) + 1, NEW b \in a - 1 .. Len(s)
    PROVE  /\ Ascending(SubSeq(s, a, b))
           /\ ToSet(SubSeq(s, a, b)) = {s[i] : i \in a .. b}
<1> DEFINE q == SubSeq(s, a, b)
           n == Len(s)
           m == b - a + 1
<1>1. n \in Nat /\ a \in 1 .. n + 1 /\ b \in a - 1 .. n /\ m \in Nat
  OBVIOUS
<1>2. q \in Seq(Int) /\ Len(q) = m /\ \A i \in 1 .. m : q[i] = s[a - 1 + i]
  BY Stretch
<1>3. \A i, j \in 1 .. n : i < j => s[i] < s[j]
  BY DEF Ascending
<1>4. \A i \in 1 .. m : a - 1 + i \in 1 .. n /\ a - 1 + i \in a .. b
  OBVIOUS
<1>5. DOMAIN q = 1 .. m
  <2> HIDE DEF q, m
  <2> QED BY <1>1, <1>2
<1>6. \A i \in a .. b : i - a + 1 \in 1 .. m /\ a - 1 + (i - a + 1) = i
  OBVIOUS
<1> HIDE DEF q, n, m
<1>7. ASSUME NEW i \in 1 .. m, NEW j \in 1 .. m, i < j PROVE q[i] < q[j]
  <2>1. a - 1 + i < a - 1 + j
    BY <1>1, <1>7
  <2>2. s[a - 1 + i] < s[a - 1 + j]
    BY <1>3, <1>4, <2>1
  <2> QED BY <1>2, <2>2
<1>8. ToSet(q) = {s[i] : i \in a .. b}
  <2>1. ASSUME NEW x \in ToSet(q) PROVE x \in {s[i] : i \in a .. b}
    <3>1. PICK i \in 1 .. m : x = q[i]
      BY <1>5 DEF ToSet
    <3> QED BY <1>2, <1>4, <3>1
  <2>2. ASSUME NEW i \in a .. b PROVE s[i] \in ToSet(q)
    <3> DEFINE j == i - a + 1
    <3>1. j \in 1 .. m /\ a - 1 + j = i
      BY <1>6
    <3> HIDE DEF j
    <3>2. q[j] = s[i]
      BY <1>2, <3>1
    <3> QED BY <1>5, <3>1, <3>2 DEF ToSet
  <2> QED BY <2>1, <2>2
<1>9. Ascending(q)
  BY <1>2, <1>7 DEF Ascending
<1> QED BY <1>8, <1>9 DEF q

-----------------------------------------------------------------------------
(* Leaves                                                                  *)

(* The fields of a node, and what makes a record a node.                   *)
LEMMA NodeIs ==
    ASSUME NEW n \in Nodes
    PROVE  /\ n.leaf \in BOOLEAN /\ n.keys \in Seq(Ints) /\ n.keys \in Seq(Int) /\ n.vals \in Seq(Values)
           /\ n.kids \in Seq(0 .. MaxPages) /\ n.next \in 0 .. MaxPages
           /\ Len(n.keys) \in Nat /\ DOMAIN n.keys = 1 .. Len(n.keys)
           /\ \A i \in 1 .. Len(n.keys) : n.keys[i] \in Ints /\ n.keys[i] \in Int
<1>1. /\ n.leaf \in BOOLEAN /\ n.keys \in Seq(Ints) /\ n.vals \in Seq(Values)
      /\ n.kids \in Seq(0 .. MaxPages) /\ n.next \in 0 .. MaxPages
  BY DEF Nodes
<1> DEFINE s == n.keys
<1> HIDE DEF s
<1>2. s \in Seq(Ints)
  BY <1>1 DEF s
<1>3. Len(s) \in Nat /\ DOMAIN s = 1 .. Len(s) /\ \A i \in 1 .. Len(s) : s[i] \in Ints
  BY <1>2, ElementOfSeq
<1>4. \A i \in 1 .. Len(s) : s[i] \in Int
  BY <1>3, IntsAre
<1>5. s \in Seq(Int)
  <2>1. s = [i \in 1 .. Len(s) |-> s[i]]
    BY <1>2
  <2> QED BY <1>3, <1>4, <2>1
<1> QED BY <1>1, <1>3, <1>4, <1>5 DEF s

(* The fields of a leaf.                                                   *)
LEMMA LeafIs ==
    ASSUME NEW ks \in Seq(Ints), NEW vs \in Seq(Values), NEW nx \in 0 .. MaxPages
    PROVE  /\ Leaf(ks, vs, nx) \in Nodes /\ Leaf(ks, vs, nx).leaf /\ Leaf(ks, vs, nx).keys = ks
           /\ Leaf(ks, vs, nx).vals = vs /\ Leaf(ks, vs, nx).next = nx
<1>1. <<>> \in Seq(0 .. MaxPages)
  OBVIOUS
<1> QED BY <1>1 DEF Leaf, Nodes

(* The fields of an internal node.                                         *)
LEMMA InternalIs ==
    ASSUME NEW ks \in Seq(Ints), NEW cs \in Seq(0 .. MaxPages)
    PROVE  /\ Internal(ks, cs) \in Nodes /\ ~Internal(ks, cs).leaf /\ Internal(ks, cs).keys = ks
           /\ Internal(ks, cs).kids = cs
<1>1. <<>> \in Seq(Values) /\ 0 \in 0 .. MaxPages
  BY SizesAre
<1> QED BY <1>1 DEF Internal, Nodes

(* A new key and its value put in their place.                             *)
LEMMA LeafInserted ==
    ASSUME NEW n \in Nodes, NEW l \in Int, NEW h \in Int, NEW D, LeafRight(n, l, h, D),
           NEW k \in Keys, k \notin ToSet(n.keys), l <= k, k < h,
           NEW ks, ks = InsertAt(n.keys, LowerBound(n.keys, k), k),
           NEW vs, vs = InsertAt(n.vals, LowerBound(n.keys, k), ValueOf[k])
    PROVE  /\ ks \in Seq(Ints) /\ vs \in Seq(Values) /\ Len(ks) = Len(n.keys) + 1
           /\ PairsRight(ks, vs, l, h, D \cup {k})
<1> DEFINE s == n.keys
           t == n.vals
           u == LowerBound(s, k)
           c == Len(s)
<1>1. /\ s \in Seq(Int) /\ s \in Seq(Ints) /\ t \in Seq(Values) /\ c \in Nat /\ DOMAIN s = 1 .. c
      /\ \A i \in 1 .. c : s[i] \in Int
  BY NodeIs
<1>2. k \in Int /\ k \in Ints /\ ValueOf[k] \in Values
  BY SizesAre, IntsAre DEF Values
<1>3. /\ Ascending(s) /\ ToSet(s) = {x \in D : l <= x /\ x < h} /\ Len(t) = c
      /\ \A i \in 1 .. c : t[i] = ValueOf[s[i]]
  BY DEF LeafRight, PairsRight
<1> HIDE DEF s, t
<1>4. u \in 1 .. c + 1 /\ \A i \in 1 .. c : IF i < u THEN s[i] < k ELSE k <= s[i]
  BY <1>1, <1>2, <1>3, LowerBoundIs
<1>5. \A i \in 1 .. c : s[i] # k
  <2>1. k \notin ToSet(s)
    BY DEF s
  <2> QED BY <1>1, <2>1 DEF ToSet
<1>6. ks = InsertAt(s, u, k) /\ vs = InsertAt(t, u, ValueOf[k])
  BY DEF s, t
<1> HIDE DEF u
<1>7. \A i \in 1 .. c : IF i < u THEN s[i] < k ELSE k < s[i]
  BY <1>1, <1>2, <1>4, <1>5
<1>8. Ascending(ks) /\ ToSet(ks) = ToSet(s) \cup {k}
  BY <1>1, <1>2, <1>3, <1>4, <1>6, <1>7, InsertAscending
<1>9. /\ ks \in Seq(Ints) /\ Len(ks) = c + 1
      /\ \A i \in 1 .. c + 1 : ks[i] = IF i < u THEN s[i] ELSE IF i = u THEN k ELSE s[i - 1]
  <2>1. s \in Seq(Ints) /\ u \in 1 .. Len(s) + 1 /\ k \in Ints
    BY <1>1, <1>2, <1>4
  <2>2. InsertAt(s, u, k) \in Seq(Ints) /\ Inserted(InsertAt(s, u, k), s, u, k)
    BY ONLY <2>1, InsertAtIs
  <2> QED BY <2>2, <1>6 DEF Inserted
<1> DEFINE v == ValueOf[k]
<1> HIDE DEF v
<1>10. /\ vs \in Seq(Values) /\ Len(vs) = c + 1
       /\ \A i \in 1 .. c + 1 : vs[i] = IF i < u THEN t[i] ELSE IF i = u THEN v ELSE t[i - 1]
  <2>1. t \in Seq(Values) /\ u \in 1 .. Len(t) + 1 /\ v \in Values
    BY <1>1, <1>2, <1>3, <1>4 DEF v
  <2>2. InsertAt(t, u, v) \in Seq(Values) /\ Inserted(InsertAt(t, u, v), t, u, v)
    BY ONLY <2>1, InsertAtIs
  <2>3. vs = InsertAt(t, u, v) /\ Len(t) = c
    BY <1>3, <1>6 DEF v
  <2> QED BY <2>2, <2>3 DEF Inserted
<1> HIDE DEF c
<1>11. ASSUME NEW i \in 1 .. c + 1 PROVE vs[i] = ValueOf[ks[i]]
  <2>1. CASE i < u
    <3>1. i \in 1 .. c
      BY <1>1, <1>4, <2>1 DEF c
    <3> QED BY <1>3, <1>9, <1>10, <2>1, <3>1 DEF c
  <2>2. CASE i = u
    BY <1>4, <1>9, <1>10, <2>2 DEF v
  <2>3. CASE i > u
    <3>1. i - 1 \in 1 .. c /\ ~(i < u) /\ i # u
      BY <1>1, <1>4, <2>3 DEF c
    <3> QED BY <1>3, <1>9, <1>10, <3>1 DEF c
  <2> QED BY <1>1, <1>4, <2>1, <2>2, <2>3 DEF c
<1>12. ToSet(ks) = {x \in D \cup {k} : l <= x /\ x < h}
  BY <1>2, <1>3, <1>8
<1>13. PairsRight(ks, vs, l, h, D \cup {k})
  BY <1>8, <1>9, <1>10, <1>11, <1>12 DEF PairsRight
<1> QED BY <1>9, <1>10, <1>13 DEF c, s

(* The middle of an overfull node.                                         *)
LEMMA HalfIs ==
    ASSUME NEW c \in Nat, c = MaxKeys + 1, NEW half, half = c \div 2
    PROVE  /\ half \in 1 .. c - 1 /\ half \in Nat
           /\ half = (MaxKeys + 1) \div 2 /\ half <= MaxKeys
           /\ c - half >= (MaxKeys + 1) \div 2 /\ c - half <= MaxKeys
           /\ c - half - 1 = MaxKeys - (MaxKeys + 1) \div 2
           /\ half >= MaxKeys - (MaxKeys + 1) \div 2
BY SizesAre

(* Splitting an overfull leaf: the new range ends where the new leaf       *)
(* begins, and both are at least half full.                                *)
LeafHalved(k1, v1, k2, v2, l, m, h, D) ==
    /\ m \in Ints /\ l < m /\ m < h
    /\ k1 \in Seq(Ints) /\ v1 \in Seq(Values) /\ k2 \in Seq(Ints) /\ v2 \in Seq(Values)
    /\ PairsRight(k1, v1, l, m, D) /\ PairsRight(k2, v2, m, h, D)
    /\ Len(k1) <= MaxKeys /\ Len(k1) >= (MaxKeys + 1) \div 2
    /\ Len(k2) <= MaxKeys /\ Len(k2) >= (MaxKeys + 1) \div 2

(* SplitPoint parts an overfull leaf that way.                             *)
LEMMA LeafHalves ==
    ASSUME NEW ks \in Seq(Ints), NEW vs \in Seq(Values), NEW l \in Int, NEW h \in Int, NEW D \in SUBSET Int,
           PairsRight(ks, vs, l, h, D), Len(ks) = MaxKeys + 1,
           NEW half, half = SplitPoint(ks), NEW m, m = ks[half + 1],
           NEW k1, k1 = SubSeq(ks, 1, half), NEW k2, k2 = SubSeq(ks, half + 1, Len(ks)),
           NEW v1, v1 = SubSeq(vs, 1, half), NEW v2, v2 = SubSeq(vs, half + 1, Len(vs))
    PROVE  LeafHalved(k1, v1, k2, v2, l, m, h, D)
<1> DEFINE c == Len(ks)
<1>1. /\ c \in Nat /\ DOMAIN ks = 1 .. c /\ \A i \in 1 .. c : ks[i] \in Ints /\ ks[i] \in Int
  <2>1. c \in Nat /\ DOMAIN ks = 1 .. c /\ \A i \in 1 .. c : ks[i] \in Ints
    BY ElementOfSeq
  <2> HIDE DEF c
  <2> QED BY <2>1, IntsAre
<1>2. ks \in Seq(Int)
  BY SeqMonotonic, IntsAre
<1>3. /\ Ascending(ks) /\ ToSet(ks) = {x \in D : l <= x /\ x < h} /\ Len(vs) = c
      /\ \A i \in 1 .. c : vs[i] = ValueOf[ks[i]]
  BY DEF PairsRight
<1>4. half \in 1 .. c - 1 /\ half \in Nat
  BY <1>1, HalfIs DEF SplitPoint
<1>5. c \in Nat
  BY <1>1
<1>6. /\ half <= MaxKeys /\ half >= (MaxKeys + 1) \div 2
       /\ c - half >= (MaxKeys + 1) \div 2 /\ c - half <= MaxKeys
  <2>1. c \in Nat /\ c = MaxKeys + 1 /\ half = c \div 2
    BY <1>1 DEF SplitPoint
  <2> QED BY ONLY <2>1, HalfIs, SizesAre
<1>7. \A i, j \in 1 .. c : i < j => ks[i] < ks[j]
  BY <1>3 DEF Ascending
<1>8. 1 \in 1 .. c /\ half + 1 \in 1 .. c /\ 1 < half + 1
  BY <1>1, <1>4
<1>9. m \in Ints /\ m \in Int /\ ks[1] \in Int /\ ks[1] < m
  BY <1>1, <1>7, <1>8
<1>10. l <= ks[1] /\ m < h
  <2>1. ks[1] \in ToSet(ks) /\ m \in ToSet(ks)
    BY <1>1, <1>8 DEF ToSet
  <2> QED BY <1>3, <2>1
<1>11. l < m
  BY <1>9, <1>10
<1>12. /\ k1 \in Seq(Ints) /\ Len(k1) = half /\ \A i \in 1 .. half : k1[i] = ks[i]
       /\ Ascending(k1) /\ ToSet(k1) = {ks[i] : i \in 1 .. half}
  <2>1. 1 \in 1 .. Len(ks) + 1 /\ half \in 1 - 1 .. Len(ks) /\ half - 1 + 1 = half
        /\ \A i \in 1 .. half : 1 - 1 + i = i
    BY ONLY <1>5, <1>4
  <2>2. /\ k1 \in Seq(Ints) /\ Len(k1) = half - 1 + 1
        /\ \A i \in 1 .. half - 1 + 1 : k1[i] = ks[1 - 1 + i]
    BY ONLY <2>1, ks \in Seq(Ints), k1 = SubSeq(ks, 1, half), Stretch
  <2>3. Ascending(k1) /\ ToSet(k1) = {ks[i] : i \in 1 .. half}
    BY <1>2, <1>3, <2>1, StretchAscending
  <2> QED BY <2>1, <2>2, <2>3
<1>13. v1 \in Seq(Values) /\ Len(v1) = half /\ \A i \in 1 .. half : v1[i] = vs[i]
  <2>1. 1 \in 1 .. Len(vs) + 1 /\ half \in 1 - 1 .. Len(vs) /\ half - 1 + 1 = half
        /\ \A i \in 1 .. half : 1 - 1 + i = i
    BY <1>1, <1>3, <1>4
  <2>2. /\ v1 \in Seq(Values) /\ Len(v1) = half - 1 + 1
        /\ \A i \in 1 .. half - 1 + 1 : v1[i] = vs[1 - 1 + i]
    BY ONLY <2>1, vs \in Seq(Values), v1 = SubSeq(vs, 1, half), Stretch
  <2> QED BY <2>1, <2>2
<1>14. /\ k2 \in Seq(Ints) /\ Len(k2) = c - half /\ \A i \in 1 .. c - half : k2[i] = ks[half + i]
       /\ Ascending(k2) /\ ToSet(k2) = {ks[i] : i \in half + 1 .. c}
  <2>1. half + 1 \in 1 .. Len(ks) + 1 /\ c \in (half + 1) - 1 .. Len(ks) /\ c - (half + 1) + 1 = c - half
        /\ \A i \in 1 .. c - half : (half + 1) - 1 + i = half + i
    BY ONLY <1>5, <1>4
  <2>2. /\ k2 \in Seq(Ints) /\ Len(k2) = c - (half + 1) + 1
        /\ \A i \in 1 .. c - (half + 1) + 1 : k2[i] = ks[(half + 1) - 1 + i]
    BY <2>1, Stretch
  <2>3. Ascending(k2) /\ ToSet(k2) = {ks[i] : i \in half + 1 .. c}
    BY <1>2, <1>3, <2>1, StretchAscending
  <2> QED BY <2>1, <2>2, <2>3
<1>15. v2 \in Seq(Values) /\ Len(v2) = c - half /\ \A i \in 1 .. c - half : v2[i] = vs[half + i]
  <2>1. half + 1 \in 1 .. Len(vs) + 1 /\ c \in (half + 1) - 1 .. Len(vs) /\ c - (half + 1) + 1 = c - half
        /\ \A i \in 1 .. c - half : (half + 1) - 1 + i = half + i
    BY <1>1, <1>3, <1>4
  <2>2. v2 = SubSeq(vs, half + 1, c)
    BY <1>3
  <2>3. /\ v2 \in Seq(Values) /\ Len(v2) = c - (half + 1) + 1
        /\ \A i \in 1 .. c - (half + 1) + 1 : v2[i] = vs[(half + 1) - 1 + i]
    BY <2>1, <2>2, Stretch
  <2> QED BY <2>1, <2>3
<1> HIDE DEF c
<1>16. PairsRight(k1, v1, l, m, D)
  <2>1. \A i \in 1 .. half : i \in 1 .. c /\ ks[i] < m
    <3> TAKE i \in 1 .. half
    <3>1. i \in 1 .. c /\ i < half + 1
      BY ONLY <1>5, <1>4, i \in 1 .. half
    <3> QED BY <1>7, <1>8, <3>1
  <2>2. ASSUME NEW x \in D, l <= x, x < m PROVE x \in {ks[i] : i \in 1 .. half}
    <3>1. x \in ToSet(ks)
      BY <1>3, <1>9, <1>10, <2>2
    <3>2. PICK i \in 1 .. c : x = ks[i]
      BY <1>1, <3>1 DEF ToSet
    <3>3. ~(half + 1 < i) /\ half + 1 # i
      <4>1. half + 1 < i => m < x
        BY <1>7, <1>8, <3>2
      <4> QED BY <1>9, <2>2, <3>2, <4>1
    <3>4. i \in 1 .. half
      BY <1>4, <3>3
    <3> QED BY <3>2, <3>4
  <2>3. ASSUME NEW i \in 1 .. half PROVE ks[i] \in D /\ l <= ks[i] /\ ks[i] < m
    <3>1. i \in 1 .. c /\ ks[i] < m
      BY <2>1
    <3>2. ks[i] \in ToSet(ks)
      BY <1>1, <3>1 DEF ToSet
    <3> QED BY <1>3, <3>1, <3>2
  <2>4. ToSet(k1) = {x \in D : l <= x /\ x < m}
    BY <1>12, <2>2, <2>3
  <2>5. \A i \in 1 .. half : v1[i] = ValueOf[k1[i]]
    BY ONLY <1>3, <1>12, <1>13, <2>1
  <2> QED BY <1>12, <1>13, <2>4, <2>5 DEF PairsRight
<1>17. PairsRight(k2, v2, m, h, D)
  <2>1. \A i \in half + 1 .. c : i \in 1 .. c /\ m <= ks[i]
    <3> TAKE i \in half + 1 .. c
    <3>1. i \in 1 .. c /\ (half + 1 < i \/ half + 1 = i)
      BY ONLY <1>5, <1>4, i \in half + 1 .. c
    <3>2. half + 1 < i => m < ks[i]
      BY <1>7, <1>8, <3>1
    <3>3. ks[i] \in Int
      BY <1>1, <3>1
    <3> QED BY <1>9, <3>1, <3>2, <3>3
  <2>2. ASSUME NEW x \in D, m <= x, x < h PROVE x \in {ks[i] : i \in half + 1 .. c}
    <3>1. x \in ToSet(ks)
      BY <1>3, <1>9, <1>11, <2>2
    <3>2. PICK i \in 1 .. c : x = ks[i]
      BY <1>1, <3>1 DEF ToSet
    <3>3. ~(i < half + 1)
      <4>1. i < half + 1 => x < m
        BY <1>7, <1>8, <3>2
      <4> QED BY <1>9, <2>2, <3>2, <4>1
    <3>4. i \in half + 1 .. c
      BY <1>4, <3>3
    <3> QED BY <3>2, <3>4
  <2>3. ASSUME NEW i \in half + 1 .. c PROVE ks[i] \in D /\ m <= ks[i] /\ ks[i] < h
    <3>1. i \in 1 .. c /\ m <= ks[i]
      BY <2>1
    <3>2. ks[i] \in ToSet(ks)
      BY <1>1, <3>1 DEF ToSet
    <3> QED BY <1>3, <3>1, <3>2
  <2>4. ToSet(k2) = {x \in D : m <= x /\ x < h}
    BY ONLY <1>14, <2>2, <2>3
  <2>5. \A i \in 1 .. c - half : half + i \in 1 .. c
    BY ONLY <1>5, <1>4
  <2>6. \A i \in 1 .. c - half : v2[i] = ValueOf[k2[i]]
    BY <1>3, <1>14, <1>15, <2>5 DEF c
  <2> QED BY <1>14, <1>15, <2>4, <2>6 DEF PairsRight
<1> QED BY <1>9, <1>10, <1>11, <1>12, <1>13, <1>14, <1>15, <1>16, <1>17, <1>6 DEF LeafHalved

-----------------------------------------------------------------------------
(* Internal nodes                                                          *)

(* The edges lie between the ends and increase.                            *)
LEMMA EdgeIs ==
    ASSUME NEW ks \in Seq(Int), NEW l \in Int, NEW h \in Int, l < h, Ascending(ks),
           \A i \in 1 .. Len(ks) : l < ks[i] /\ ks[i] < h
    PROVE  /\ \A i \in 0 .. Len(ks) + 1 :
                 Edge(ks, l, h, i) \in Int /\ l <= Edge(ks, l, h, i) /\ Edge(ks, l, h, i) <= h
           /\ \A i, j \in 0 .. Len(ks) + 1 : i < j => Edge(ks, l, h, i) < Edge(ks, l, h, j)
<1> DEFINE c == Len(ks)
<1>1. c \in Nat /\ \A i \in 1 .. c : ks[i] \in Int /\ l < ks[i] /\ ks[i] < h
  BY ElementOfSeq
<1>2. \A i, j \in 1 .. c : i < j => ks[i] < ks[j]
  BY DEF Ascending
<1> HIDE DEF c
<1>3. \A i \in 0 .. c + 1 : Edge(ks, l, h, i) = IF i = 0 THEN l ELSE IF i = c + 1 THEN h ELSE ks[i]
  BY DEF Edge, c
<1>4. \A i \in 0 .. c + 1 : Edge(ks, l, h, i) \in Int /\ l <= Edge(ks, l, h, i) /\ Edge(ks, l, h, i) <= h
  BY <1>1, <1>3
<1>5. ASSUME NEW i \in 0 .. c + 1, NEW j \in 0 .. c + 1, i < j
      PROVE  Edge(ks, l, h, i) < Edge(ks, l, h, j)
  <2>1. CASE i = 0
    BY <1>1, <1>3, <1>5, <2>1
  <2>2. CASE j = c + 1
    BY <1>1, <1>3, <1>5, <2>2
  <2>3. CASE i # 0 /\ j # c + 1
    <3>1. i \in 1 .. c /\ j \in 1 .. c
      BY <1>1, <1>5, <2>3
    <3> QED BY <1>2, <1>3, <1>5, <2>3, <3>1
  <2> QED BY <2>1, <2>2, <2>3
<1> QED BY <1>4, <1>5 DEF c

(* The children of a node: distinct, one level down, inside its range.     *)
LEMMA KidsAre ==
    ASSUME NEW ks \in Seq(Int), NEW cs, NEW l \in Int, NEW h \in Int, l < h, NEW v, NEW lo, NEW top, NEW lv,
           NEW P, KidsPlaced(ks, cs, l, h, v, lo, top, lv, P)
    PROVE  \A i \in 1 .. Len(cs) :
              /\ cs[i] \in 1 .. P /\ lv[cs[i]] = v - 1
              /\ lo[cs[i]] \in Int /\ l <= lo[cs[i]] /\ lo[cs[i]] < top[cs[i]] /\ top[cs[i]] <= h
              /\ top[cs[i]] \in Int
              /\ \A j \in 1 .. Len(cs) : i # j => cs[i] # cs[j]
<1> DEFINE c == Len(ks)
           e(i) == Edge(ks, l, h, i)
<1>1. c \in Nat /\ Len(cs) = c + 1
  BY DEF KidsPlaced
<1>2. \A i \in 1 .. Len(cs) : cs[i] \in 1 .. P /\ lv[cs[i]] = v - 1 /\ lo[cs[i]] = e(i - 1) /\ top[cs[i]] = e(i)
  BY DEF KidsPlaced
<1>3. Ascending(ks) /\ \A i \in 1 .. Len(ks) : l < ks[i] /\ ks[i] < h
  BY DEF KidsPlaced
<1>4. /\ \A i \in 0 .. c + 1 : e(i) \in Int /\ l <= e(i) /\ e(i) <= h
      /\ \A i, j \in 0 .. c + 1 : i < j => e(i) < e(j)
  BY <1>3, EdgeIs
<1> HIDE DEF c, e
<1>5. \A i \in 1 .. Len(cs) : i - 1 \in 0 .. c + 1 /\ i \in 0 .. c + 1 /\ i - 1 < i
  BY <1>1
<1>6. ASSUME NEW i \in 1 .. Len(cs), NEW j \in 1 .. Len(cs), i # j PROVE cs[i] # cs[j]
  <2>1. i - 1 < j - 1 \/ j - 1 < i - 1
    BY <1>1, <1>6
  <2>2. e(i - 1) \in Int /\ e(j - 1) \in Int /\ (e(i - 1) < e(j - 1) \/ e(j - 1) < e(i - 1))
    BY <1>4, <1>5, <2>1
  <2>3. e(i - 1) # e(j - 1)
    BY <2>2
  <2> QED BY <1>2, <2>3
<1>7. ASSUME NEW i \in 1 .. Len(cs)
      PROVE  /\ cs[i] \in 1 .. P /\ lv[cs[i]] = v - 1
             /\ lo[cs[i]] \in Int /\ l <= lo[cs[i]] /\ lo[cs[i]] < top[cs[i]] /\ top[cs[i]] <= h
             /\ top[cs[i]] \in Int
  <2>1. e(i - 1) \in Int /\ l <= e(i - 1) /\ e(i - 1) < e(i) /\ e(i) <= h /\ e(i) \in Int
    BY <1>4, <1>5
  <2> QED BY <1>2, <2>1
<1> QED BY <1>6, <1>7

(* The child for k is the one whose range has k.                           *)
LEMMA ChildIs ==
    ASSUME NEW ks \in Seq(Int), NEW cs, NEW l \in Int, NEW h \in Int, l < h, NEW v, NEW lo, NEW top, NEW lv,
           NEW P, KidsPlaced(ks, cs, l, h, v, lo, top, lv, P), NEW k \in Int, l <= k, k < h
    PROVE  /\ UpperBound(ks, k) \in 1 .. Len(cs)
           /\ lo[cs[UpperBound(ks, k)]] <= k /\ k < top[cs[UpperBound(ks, k)]]
<1> DEFINE c == Len(ks)
           u == UpperBound(ks, k)
<1>1. c \in Nat /\ Len(cs) = c + 1 /\ Ascending(ks) /\ \A i \in 1 .. c : ks[i] \in Int
  BY ElementOfSeq DEF KidsPlaced
<1>2. u \in 1 .. c + 1 /\ \A i \in 1 .. c : IF i < u THEN ks[i] <= k ELSE k < ks[i]
  BY <1>1, UpperBoundIs
<1> HIDE DEF u
<1>3. lo[cs[u]] = Edge(ks, l, h, u - 1) /\ top[cs[u]] = Edge(ks, l, h, u)
  BY <1>1, <1>2 DEF KidsPlaced
<1> HIDE DEF c
<1>4. Edge(ks, l, h, u - 1) <= k
  <2>1. CASE u - 1 = 0
    BY <2>1 DEF Edge
  <2>2. CASE u - 1 # 0
    <3>1. u - 1 \in 1 .. c /\ u - 1 < u /\ u - 1 # c + 1
      BY <1>1, <1>2, <2>2
    <3>2. Edge(ks, l, h, u - 1) = ks[u - 1]
      BY <3>1, <2>2 DEF Edge, c
    <3> QED BY <1>2, <3>1, <3>2
  <2> QED BY <2>1, <2>2
<1>5. k < Edge(ks, l, h, u)
  <2>1. CASE u = c + 1
    <3>1. u # 0
      BY <1>2
    <3> QED BY <2>1, <3>1 DEF Edge, c
  <2>2. CASE u # c + 1
    <3>1. u \in 1 .. c /\ ~(u < u) /\ u # 0
      BY <1>1, <1>2, <2>2
    <3>2. Edge(ks, l, h, u) = ks[u]
      BY <2>2, <3>1 DEF Edge, c
    <3> QED BY <1>2, <3>1, <3>2
  <2> QED BY <2>1, <2>2
<1> QED BY <1>1, <1>2, <1>3, <1>4, <1>5 DEF u, c

(* A new key at position u is a new edge there.                            *)
LEMMA EdgeInserted ==
    ASSUME NEW ks \in Seq(Int), NEW l, NEW h, NEW u \in 1 .. Len(ks) + 1, NEW m, NEW w, Inserted(w, ks, u, m)
    PROVE  \A j \in 0 .. Len(ks) + 2 :
              Edge(w, l, h, j) = IF j < u THEN Edge(ks, l, h, j)
                                 ELSE IF j = u THEN m ELSE Edge(ks, l, h, j - 1)
<1> DEFINE c == Len(ks)
<1>1. c \in Nat /\ u \in 1 .. c + 1 /\ Len(w) = c + 1
  BY DEF Inserted
<1>2. \A i \in 1 .. c + 1 : w[i] = IF i < u THEN ks[i] ELSE IF i = u THEN m ELSE ks[i - 1]
  BY DEF Inserted
<1>3. \A i : Edge(ks, l, h, i) = IF i = 0 THEN l ELSE IF i = c + 1 THEN h ELSE ks[i]
  BY DEF Edge
<1>4. \A i : Edge(w, l, h, i) = IF i = 0 THEN l ELSE IF i = c + 1 + 1 THEN h ELSE w[i]
  BY <1>1 DEF Edge
<1> HIDE DEF c
<1>5. ASSUME NEW j \in 0 .. c + 2
      PROVE  Edge(w, l, h, j) = IF j < u THEN Edge(ks, l, h, j)
                                ELSE IF j = u THEN m ELSE Edge(ks, l, h, j - 1)
  <2>1. CASE j = 0
    BY <1>1, <1>3, <1>4, <2>1
  <2>2. CASE j = c + 2
    <3>1. j = c + 1 + 1 /\ j - 1 = c + 1 /\ ~(j < u) /\ j # u /\ j # 0 /\ j - 1 # 0
      BY <1>1, <2>2
    <3> QED BY <1>3, <1>4, <3>1
  <2>3. CASE j \in 1 .. c + 1
    <3>1. j # 0 /\ j # c + 1 + 1 /\ (j < u => j # c + 1) /\ (j > u => j - 1 # 0) /\ j - 1 # c + 1
      BY <1>1, <2>3
    <3>2. Edge(w, l, h, j) = w[j]
      BY <1>4, <3>1
    <3>3. CASE j < u
      BY <1>2, <1>3, <2>3, <3>1, <3>2, <3>3
    <3>4. CASE j = u
      BY <1>1, <1>2, <2>3, <3>2, <3>4
    <3>5. CASE j > u
      <4>1. ~(j < u) /\ j # u
        BY <1>1, <3>5
      <4>2. w[j] = ks[j - 1]
        BY <1>2, <2>3, <4>1
      <4>3. Edge(ks, l, h, j - 1) = ks[j - 1]
        BY <1>3, <3>1, <3>5
      <4> QED BY <3>2, <4>1, <4>2, <4>3
    <3> QED BY <1>1, <3>3, <3>4, <3>5
  <2> QED BY <1>1, <2>1, <2>2, <2>3
<1> QED BY <1>5 DEF c

(* A parent takes up the key at which its child c was split and the new    *)
(* page r behind it.                                                       *)
LEMMA KidInserted ==
    ASSUME NEW ks \in Seq(Ints), NEW cs \in Seq(0 .. MaxPages), NEW l \in Int, NEW h \in Int, l < h,
           NEW v, NEW lo, NEW top, NEW top2, NEW lv, NEW P \in 0 .. MaxPages,
           KidsPlaced(ks, cs, l, h, v, lo, top, lv, P),
           NEW k \in Int, l <= k, k < h,
           NEW u, u = UpperBound(ks, k), NEW c, c = cs[u],
           NEW m \in Ints, lo[c] < m, m < top[c],
           NEW r \in 1 .. P, lo[r] = m, lv[r] = lv[c],
           top2[c] = m, top2[r] = top[c], \A q \in 1 .. P : q # c => top2[q] = top[q],
           NEW ks2, ks2 = InsertAt(ks, u, m), NEW cs2, cs2 = InsertAt(cs, u + 1, r)
    PROVE  /\ ks2 \in Seq(Ints) /\ cs2 \in Seq(0 .. MaxPages) /\ Len(ks2) = Len(ks) + 1
           /\ KidsPlaced(ks2, cs2, l, h, v, lo, top2, lv, P)
<1> DEFINE z == Len(ks)
           e(i) == Edge(ks, l, h, i)
           e2(i) == Edge(ks2, l, h, i)
<1>1. ks \in Seq(Int) /\ m \in Int
  BY SeqMonotonic, IntsAre
<1>2. z \in Nat /\ Len(cs) = z + 1 /\ Ascending(ks) /\ \A i \in 1 .. z : l < ks[i] /\ ks[i] < h
  BY DEF KidsPlaced
<1>3. \A i \in 1 .. z : ks[i] \in Int
  BY <1>1, ElementOfSeq
<1>4. \A i \in 1 .. z + 1 : /\ cs[i] \in 1 .. P /\ lv[cs[i]] = v - 1
                            /\ lo[cs[i]] = e(i - 1) /\ top[cs[i]] = e(i)
  BY <1>2 DEF KidsPlaced
<1>5. u \in 1 .. z + 1
  BY <1>1, <1>2, UpperBoundIs
<1>6. /\ \A i \in 0 .. z + 1 : e(i) \in Int /\ l <= e(i) /\ e(i) <= h
      /\ \A i, j \in 0 .. z + 1 : i < j => e(i) < e(j)
  BY <1>1, <1>2, EdgeIs
<1>7. \A i \in 1 .. z + 1 : i # u => cs[i] # c
  <2>1. \A i \in 1 .. Len(cs) : \A j \in 1 .. Len(cs) : i # j => cs[i] # cs[j]
    BY <1>1, KidsAre
  <2> QED BY <1>2, <1>5, <2>1
<1>8. ks2 \in Seq(Ints) /\ Inserted(ks2, ks, u, m)
  <2>1. u \in 1 .. Len(ks) + 1
    BY <1>5
  <2> QED BY ONLY <2>1, ks \in Seq(Ints), m \in Ints, ks2 = InsertAt(ks, u, m), InsertAtIs
<1>9. cs2 \in Seq(0 .. MaxPages) /\ Inserted(cs2, cs, u + 1, r)
  <2>1. u + 1 \in 1 .. Len(cs) + 1
    BY <1>2, <1>5
  <2>2. r \in 0 .. MaxPages
    BY SizesAre
  <2> QED BY ONLY <2>1, <2>2, cs \in Seq(0 .. MaxPages), cs2 = InsertAt(cs, u + 1, r), InsertAtIs
<1>10. /\ Len(ks2) = z + 1 /\ Len(cs2) = z + 2
       /\ \A i \in 1 .. z + 2 : cs2[i] = IF i < u + 1 THEN cs[i] ELSE IF i = u + 1 THEN r ELSE cs[i - 1]
  <2>1. z + 1 + 1 = z + 2
    BY <1>2
  <2> QED BY <1>2, <1>8, <1>9, <2>1 DEF Inserted
<1>11. \A j \in 0 .. z + 2 : e2(j) = IF j < u THEN e(j) ELSE IF j = u THEN m ELSE e(j - 1)
  BY <1>1, <1>5, <1>8, EdgeInserted
<1>12. lo[c] = e(u - 1) /\ top[c] = e(u)
  BY <1>4, <1>5
<1>13. \A i \in 1 .. z : i \in 0 .. z + 1 /\ e(i) = ks[i]
  BY <1>2 DEF Edge
<1> HIDE DEF z, e, e2
<1>14. \A i \in 1 .. z : IF i < u THEN ks[i] < m ELSE m < ks[i]
  <2> TAKE i \in 1 .. z
  <2>1. CASE i < u
    <3>1. u - 1 \in 0 .. z + 1 /\ (i < u - 1 \/ i = u - 1)
      BY <1>2, <1>5, <2>1
    <3>2. e(i) \in Int /\ e(u - 1) \in Int /\ e(i) <= e(u - 1)
      BY <1>6, <1>13, <3>1
    <3>3. e(i) < m
      BY <1>1, <1>12, <3>2
    <3> QED BY <1>13, <2>1, <3>3
  <2>2. CASE ~(i < u)
    <3>1. u \in 0 .. z + 1 /\ (u < i \/ i = u)
      BY <1>2, <1>5, <2>2
    <3>2. e(i) \in Int /\ e(u) \in Int /\ e(u) <= e(i)
      BY <1>6, <1>13, <3>1
    <3>3. m < e(i)
      BY <1>1, <1>12, <3>2
    <3> QED BY <1>13, <2>2, <3>3
  <2> QED BY <2>1, <2>2
<1>15. Ascending(ks2) /\ ToSet(ks2) = ToSet(ks) \cup {m}
  <2>1. u \in 1 .. Len(ks) + 1 /\ \A i \in 1 .. Len(ks) : IF i < u THEN ks[i] < m ELSE m < ks[i]
    BY <1>5, <1>14 DEF z
  <2> QED BY ONLY <1>1, <1>2, <2>1, ks2 = InsertAt(ks, u, m), InsertAscending
<1>16. l < m /\ m < h
  <2>1. u - 1 \in 0 .. z + 1 /\ u \in 0 .. z + 1
    BY <1>2, <1>5
  <2>2. e(u - 1) \in Int /\ e(u) \in Int /\ l <= e(u - 1) /\ e(u) <= h
    BY <1>6, <2>1
  <2> QED BY <1>1, <1>12, <2>2
<1>17. \A i \in 1 .. z + 1 : l < ks2[i] /\ ks2[i] < h
  <2> TAKE i \in 1 .. z + 1
  <2>1. ks2[i] = IF i < u THEN ks[i] ELSE IF i = u THEN m ELSE ks[i - 1]
    BY <1>8 DEF Inserted, z
  <2>2. (i < u => i \in 1 .. z) /\ (i > u => i - 1 \in 1 .. z) /\ (i < u \/ i = u \/ i > u)
    BY <1>2, <1>5
  <2> QED BY <1>2, <1>16, <2>1, <2>2
<1>18. ASSUME NEW i \in 1 .. z + 2
       PROVE  /\ cs2[i] \in 1 .. P
              /\ lv[cs2[i]] = v - 1
              /\ lo[cs2[i]] = e2(i - 1)
              /\ top2[cs2[i]] = e2(i)
  <2>1. CASE i < u
    <3>1. i < u + 1 /\ i \in 1 .. z + 1 /\ i - 1 \in 0 .. z + 2 /\ i - 1 < u /\ i \in 0 .. z + 2 /\ i # u
      BY <1>2, <1>5, <2>1
    <3>2. cs2[i] = cs[i] /\ e2(i - 1) = e(i - 1) /\ e2(i) = e(i)
      BY <1>10, <1>11, <2>1, <3>1
    <3>3. cs[i] \in 1 .. P /\ cs[i] # c
      BY <1>2, <1>4, <1>7, <3>1
    <3> QED BY <1>4, <3>1, <3>2, <3>3
  <2>2. CASE i = u
    <3>1. i < u + 1 /\ i \in 1 .. z + 1 /\ i - 1 \in 0 .. z + 2 /\ i - 1 < u /\ i \in 0 .. z + 2 /\ ~(i < u)
      BY <1>2, <1>5, <2>2
    <3>2. cs2[i] = c /\ e2(i - 1) = e(i - 1) /\ e2(i) = m
      BY <1>10, <1>11, <2>2, <3>1
    <3> QED BY <1>4, <1>12, <2>2, <3>1, <3>2
  <2>3. CASE i = u + 1
    <3>1. /\ ~(i < u + 1) /\ i - 1 = u /\ u \in 1 .. z + 1 /\ u \in 0 .. z + 2 /\ ~(u < u)
          /\ i \in 0 .. z + 2 /\ ~(i < u) /\ i # u
      BY <1>2, <1>5, <2>3
    <3>2. cs2[i] = r /\ e2(i - 1) = m /\ e2(i) = e(i - 1)
      BY <1>10, <1>11, <2>3, <3>1
    <3> QED BY <1>4, <1>12, <3>1, <3>2
  <2>4. CASE i > u + 1
    <3>1. /\ ~(i < u + 1) /\ i # u + 1 /\ i - 1 \in 1 .. z + 1 /\ i - 1 # u
          /\ i - 1 \in 0 .. z + 2 /\ ~(i - 1 < u) /\ i \in 0 .. z + 2 /\ ~(i < u) /\ i # u
      BY <1>2, <1>5, <2>4
    <3>2. cs2[i] = cs[i - 1] /\ e2(i - 1) = e((i - 1) - 1) /\ e2(i) = e(i - 1)
      BY <1>10, <1>11, <3>1
    <3>3. cs[i - 1] \in 1 .. P /\ cs[i - 1] # c
      BY <1>2, <1>4, <1>7, <3>1
    <3> QED BY <1>4, <3>1, <3>2, <3>3
  <2> QED BY <1>2, <1>5, <2>1, <2>2, <2>3, <2>4
<1>19. KidsPlaced(ks2, cs2, l, h, v, lo, top2, lv, P)
  <2>1. Len(ks2) = z + 1 /\ Len(cs2) = Len(ks2) + 1 /\ Len(cs2) = z + 2
    BY <1>2, <1>10
  <2> QED BY <1>15, <1>17, <1>18, <2>1 DEF KidsPlaced, e2
<1> QED BY <1>8, <1>9, <1>10, <1>19 DEF z

(* Splitting an overfull internal node around its middle key.              *)
KidsHalved(k1, c1, k2, c2, l, m, h, v, lo, top, lv, P) ==
    /\ m \in Ints /\ l < m /\ m < h
    /\ k1 \in Seq(Ints) /\ c1 \in Seq(0 .. MaxPages) /\ k2 \in Seq(Ints) /\ c2 \in Seq(0 .. MaxPages)
    /\ KidsPlaced(k1, c1, l, m, v, lo, top, lv, P) /\ KidsPlaced(k2, c2, m, h, v, lo, top, lv, P)
    /\ Len(k1) <= MaxKeys /\ Len(k1) >= MaxKeys - (MaxKeys + 1) \div 2
    /\ Len(k2) <= MaxKeys /\ Len(k2) >= MaxKeys - (MaxKeys + 1) \div 2

(* SplitPoint parts an overfull internal node that way.                    *)
LEMMA KidHalves ==
    ASSUME NEW ks \in Seq(Ints), NEW cs \in Seq(0 .. MaxPages), NEW l \in Int, NEW h \in Int,
           NEW v, NEW lo, NEW top, NEW lv, NEW P,
           KidsPlaced(ks, cs, l, h, v, lo, top, lv, P), Len(ks) = MaxKeys + 1,
           NEW half, half = SplitPoint(ks), NEW m, m = ks[half + 1],
           NEW k1, k1 = SubSeq(ks, 1, half), NEW k2, k2 = SubSeq(ks, half + 2, Len(ks)),
           NEW c1, c1 = SubSeq(cs, 1, half + 1), NEW c2, c2 = SubSeq(cs, half + 2, Len(cs))
    PROVE  KidsHalved(k1, c1, k2, c2, l, m, h, v, lo, top, lv, P)
<1> DEFINE z == Len(ks)
           e(i) == Edge(ks, l, h, i)
           S == 0 .. MaxPages
           b == z - half - 1
<1>1. z \in Nat /\ \A i \in 1 .. z : ks[i] \in Ints
  BY ElementOfSeq
<1>2. ks \in Seq(Int) /\ \A i \in 1 .. z : ks[i] \in Int
  BY <1>1, SeqMonotonic, IntsAre
<1>3. Len(cs) = z + 1 /\ Ascending(ks) /\ \A i \in 1 .. z : l < ks[i] /\ ks[i] < h
  BY DEF KidsPlaced
<1>4. \A i \in 1 .. z + 1 : /\ cs[i] \in 1 .. P /\ lv[cs[i]] = v - 1
                            /\ lo[cs[i]] = e(i - 1) /\ top[cs[i]] = e(i)
  BY <1>3 DEF KidsPlaced
<1>5. half \in 1 .. z - 1 /\ half \in Nat
  BY <1>1, HalfIs DEF SplitPoint
<1>6. /\ half <= MaxKeys /\ half >= MaxKeys - (MaxKeys + 1) \div 2
      /\ b <= MaxKeys /\ b >= MaxKeys - (MaxKeys + 1) \div 2
  <2>1. z \in Nat /\ z = MaxKeys + 1 /\ half = z \div 2
    BY <1>1 DEF SplitPoint
  <2> QED BY ONLY <2>1, HalfIs, SizesAre
<1>7. z \in Nat
  BY <1>1
<1>8. \A i, j \in 1 .. z : i < j => ks[i] < ks[j]
  BY <1>3 DEF Ascending
<1>9. \A i \in 1 .. z : e(i) = ks[i]
  BY <1>7 DEF Edge
<1>10. e(0) = l /\ e(z + 1) = h
  BY <1>7 DEF Edge
<1>11. b \in Nat /\ half + 1 + b = z
  BY ONLY <1>5, <1>7
<1> HIDE DEF z
<1>12. /\ k1 \in Seq(Ints) /\ Len(k1) = half /\ \A i \in 1 .. half : k1[i] = ks[i]
       /\ Ascending(k1)
  <2>1. 1 \in 1 .. Len(ks) + 1 /\ half \in 1 - 1 .. Len(ks) /\ half - 1 + 1 = half
        /\ \A i \in 1 .. half : 1 - 1 + i = i
    BY ONLY <1>5, <1>7 DEF z
  <2>2. /\ k1 \in Seq(Ints) /\ Len(k1) = half - 1 + 1
        /\ \A i \in 1 .. half - 1 + 1 : k1[i] = ks[1 - 1 + i]
    BY ONLY <2>1, ks \in Seq(Ints), k1 = SubSeq(ks, 1, half), Stretch
  <2>3. Ascending(k1)
    BY ONLY <1>2, <1>3, <2>1, k1 = SubSeq(ks, 1, half), StretchAscending
  <2> QED BY <2>1, <2>2, <2>3
<1>13. /\ k2 \in Seq(Ints) /\ Len(k2) = b /\ \A i \in 1 .. b : k2[i] = ks[half + 1 + i]
       /\ Ascending(k2)
  <2>1. half + 2 \in 1 .. Len(ks) + 1 /\ Len(ks) \in (half + 2) - 1 .. Len(ks) /\ Len(ks) - (half + 2) + 1 = b
        /\ \A i \in 1 .. b : (half + 2) - 1 + i = half + 1 + i
    BY ONLY <1>5, <1>7 DEF z, b
  <2>2. /\ k2 \in Seq(Ints) /\ Len(k2) = Len(ks) - (half + 2) + 1
        /\ \A i \in 1 .. Len(ks) - (half + 2) + 1 : k2[i] = ks[(half + 2) - 1 + i]
    BY ONLY <2>1, ks \in Seq(Ints), k2 = SubSeq(ks, half + 2, Len(ks)), Stretch
  <2>3. Ascending(k2)
    BY ONLY <1>2, <1>3, <2>1, k2 = SubSeq(ks, half + 2, Len(ks)), StretchAscending
  <2> HIDE DEF b
  <2> QED BY <2>1, <2>2, <2>3
<1> HIDE DEF S
<1>14. cs \in Seq(S)
  BY DEF S
<1>15. c1 \in Seq(S) /\ Len(c1) = half + 1 /\ \A i \in 1 .. half + 1 : c1[i] = cs[i]
  <2>1. 1 \in 1 .. Len(cs) + 1 /\ half + 1 \in 1 - 1 .. Len(cs) /\ (half + 1) - 1 + 1 = half + 1
        /\ \A i \in 1 .. half + 1 : 1 - 1 + i = i
    BY ONLY <1>3, <1>5, <1>7
  <2>2. /\ c1 \in Seq(S) /\ Len(c1) = (half + 1) - 1 + 1
        /\ \A i \in 1 .. (half + 1) - 1 + 1 : c1[i] = cs[1 - 1 + i]
    BY ONLY <1>14, <2>1, c1 = SubSeq(cs, 1, half + 1), Stretch
  <2> QED BY <2>1, <2>2
<1>16. c2 \in Seq(S) /\ Len(c2) = b + 1 /\ \A i \in 1 .. b + 1 : c2[i] = cs[half + 1 + i]
  <2>1. half + 2 \in 1 .. Len(cs) + 1 /\ Len(cs) \in (half + 2) - 1 .. Len(cs)
        /\ Len(cs) - (half + 2) + 1 = b + 1
        /\ \A i \in 1 .. b + 1 : (half + 2) - 1 + i = half + 1 + i
    BY ONLY <1>3, <1>5, <1>7 DEF b
  <2>2. /\ c2 \in Seq(S) /\ Len(c2) = Len(cs) - (half + 2) + 1
        /\ \A i \in 1 .. Len(cs) - (half + 2) + 1 : c2[i] = cs[(half + 2) - 1 + i]
    BY ONLY <1>14, <2>1, c2 = SubSeq(cs, half + 2, Len(cs)), Stretch
  <2> HIDE DEF b
  <2> QED BY <2>1, <2>2
<1> HIDE DEF b, e
<1>17. half + 1 \in 1 .. z /\ m \in Ints /\ m \in Int /\ l < m /\ m < h
  <2>1. half + 1 \in 1 .. z
    BY ONLY <1>5, <1>7
  <2> QED BY <1>1, <1>2, <1>3, <2>1
<1>18. KidsPlaced(k1, c1, l, m, v, lo, top, lv, P)
  <2>1. \A i \in 1 .. half : l < k1[i] /\ k1[i] < m
    <3> TAKE i \in 1 .. half
    <3>1. i \in 1 .. z /\ i < half + 1
      BY ONLY <1>5, <1>7, i \in 1 .. half
    <3> QED BY <1>3, <1>8, <1>12, <1>17, <3>1
  <2>2. ASSUME NEW i \in 0 .. half + 1 PROVE Edge(k1, l, m, i) = e(i)
    <3>1. CASE i = 0
      BY <1>10, <3>1 DEF Edge
    <3>2. CASE i = half + 1
      <4>1. i # 0
        BY <1>5, <3>2
      <4> QED BY <1>9, <1>12, <1>17, <3>2, <4>1 DEF Edge
    <3>3. CASE i \in 1 .. half
      <4>1. i # 0 /\ i # half + 1 /\ i \in 1 .. z
        BY ONLY <1>5, <1>7, <3>3
      <4>2. Edge(k1, l, m, i) = k1[i]
        BY <1>12, <4>1 DEF Edge
      <4> QED BY <1>9, <1>12, <3>3, <4>1, <4>2
    <3> QED BY <1>5, <3>1, <3>2, <3>3
  <2>3. ASSUME NEW i \in 1 .. half + 1
        PROVE  /\ c1[i] \in 1 .. P /\ lv[c1[i]] = v - 1
               /\ lo[c1[i]] = Edge(k1, l, m, i - 1) /\ top[c1[i]] = Edge(k1, l, m, i)
    <3>1. i \in 1 .. z + 1 /\ i \in 0 .. half + 1 /\ i - 1 \in 0 .. half + 1
      BY ONLY <1>5, <1>7, i \in 1 .. half + 1
    <3>2. c1[i] = cs[i] /\ Edge(k1, l, m, i - 1) = e(i - 1) /\ Edge(k1, l, m, i) = e(i)
      BY <1>15, <2>2, <3>1
    <3> QED BY <1>4, <3>1, <3>2
  <2> QED BY <1>12, <1>15, <2>1, <2>3 DEF KidsPlaced
<1>19. KidsPlaced(k2, c2, m, h, v, lo, top, lv, P)
  <2>1. \A i \in 1 .. b : m < k2[i] /\ k2[i] < h
    <3> TAKE i \in 1 .. b
    <3>1. half + 1 + i \in 1 .. z /\ half + 1 < half + 1 + i
      BY ONLY <1>5, <1>7, <1>11, i \in 1 .. b
    <3> QED BY <1>3, <1>8, <1>13, <1>17, <3>1
  <2>2. ASSUME NEW i \in 0 .. b + 1 PROVE Edge(k2, m, h, i) = e(half + 1 + i)
    <3>1. CASE i = 0
      <4>1. half + 1 + i = half + 1
        BY <1>5, <3>1
      <4> QED BY <1>9, <1>17, <3>1, <4>1 DEF Edge
    <3>2. CASE i = b + 1
      <4>1. i # 0 /\ half + 1 + i = z + 1
        BY ONLY <1>5, <1>7, <1>11, <3>2
      <4> QED BY <1>10, <1>13, <3>2, <4>1 DEF Edge
    <3>3. CASE i \in 1 .. b
      <4>1. i # 0 /\ i # b + 1 /\ half + 1 + i \in 1 .. z
        BY ONLY <1>5, <1>7, <1>11, <3>3
      <4>2. Edge(k2, m, h, i) = k2[i]
        BY <1>13, <4>1 DEF Edge
      <4> QED BY <1>9, <1>13, <3>3, <4>1, <4>2
    <3> QED BY <1>11, <3>1, <3>2, <3>3
  <2>3. ASSUME NEW i \in 1 .. b + 1
        PROVE  /\ c2[i] \in 1 .. P /\ lv[c2[i]] = v - 1
               /\ lo[c2[i]] = Edge(k2, m, h, i - 1) /\ top[c2[i]] = Edge(k2, m, h, i)
    <3>1. /\ half + 1 + i \in 1 .. z + 1 /\ i \in 0 .. b + 1 /\ i - 1 \in 0 .. b + 1
          /\ half + 1 + (i - 1) = (half + 1 + i) - 1
      BY ONLY <1>5, <1>7, <1>11, i \in 1 .. b + 1
    <3>2. /\ c2[i] = cs[half + 1 + i] /\ Edge(k2, m, h, i - 1) = e((half + 1 + i) - 1)
          /\ Edge(k2, m, h, i) = e(half + 1 + i)
      BY <1>16, <2>2, <3>1
    <3> QED BY <1>4, <3>1, <3>2
  <2> QED BY <1>13, <1>16, <2>1, <2>3 DEF KidsPlaced
<1> QED BY <1>6, <1>12, <1>13, <1>15, <1>16, <1>17, <1>18, <1>19 DEF S, KidsHalved

-----------------------------------------------------------------------------
(* The whole tree                                                          *)

(* What the shape says of one page.                                        *)
LEMMA PageIs ==
    ASSUME NEW N, NEW lo, NEW hi, NEW top, NEW lv, NEW P \in 0 .. MaxPages, NEW D,
           Shaped(N, lo, hi, top, lv, P, D), NEW p \in 1 .. P
    PROVE  /\ p \in Pages /\ N[p] \in Nodes /\ lo[p] \in Int /\ hi[p] \in Int /\ top[p] \in Int /\ lv[p] \in Nat
           /\ Low <= lo[p] /\ lo[p] < hi[p] /\ hi[p] <= top[p] /\ top[p] <= High
           /\ Len(N[p].keys) <= MaxKeys
           /\ lv[p] = 0 => LeafRight(N[p], lo[p], hi[p], D) /\ LinkRight(N[p], hi[p], lo, lv, P)
           /\ lv[p] # 0 => KidsRight(N[p], lo[p], hi[p], lv[p], lo, top, lv, P)
<1>1. p \in Pages
  BY SizesAre DEF Pages
<1>2. RangeRight(lo, hi, top, p) /\ PageRight(N, lo, hi, top, lv, P, D, p)
  BY DEF Shaped
<1>3. /\ N \in [Pages -> Nodes] /\ lo \in [Pages -> Int] /\ hi \in [Pages -> Int]
      /\ top \in [Pages -> Int] /\ lv \in [Pages -> Nat]
  BY DEF Shaped
<1> QED BY <1>1, <1>2, <1>3 DEF RangeRight, PageRight

(* The children of an internal page.                                       *)
KidsInside(cs, l, h, v, lo, lv, P) ==
    \A i \in 1 .. Len(cs) :
        cs[i] \in 1 .. P /\ lv[cs[i]] = v - 1 /\ l <= lo[cs[i]] /\ lo[cs[i]] < h

(* They are one level below the page and inside its range.                 *)
LEMMA PageKids ==
    ASSUME NEW N, NEW lo, NEW hi, NEW top, NEW lv, NEW P \in 0 .. MaxPages, NEW D,
           Shaped(N, lo, hi, top, lv, P, D), NEW p \in 1 .. P, lv[p] # 0
    PROVE  KidsInside(N[p].kids, lo[p], hi[p], lv[p], lo, lv, P)
<1> SUFFICES ASSUME NEW i \in 1 .. Len(N[p].kids)
             PROVE  /\ N[p].kids[i] \in 1 .. P /\ lv[N[p].kids[i]] = lv[p] - 1
                    /\ lo[p] <= lo[N[p].kids[i]] /\ lo[N[p].kids[i]] < hi[p]
  BY DEF KidsInside
<1>1. /\ N[p] \in Nodes /\ lo[p] \in Int /\ hi[p] \in Int /\ lo[p] < hi[p]
      /\ KidsRight(N[p], lo[p], hi[p], lv[p], lo, top, lv, P)
  BY PageIs
<1> DEFINE ks == N[p].keys
           cs == N[p].kids
           l == lo[p]
           h == hi[p]
           v == lv[p]
<1>2. ks \in Seq(Int)
  BY <1>1, NodeIs
<1>3. KidsPlaced(ks, cs, l, h, v, lo, top, lv, P) /\ i \in 1 .. Len(cs) /\ l \in Int /\ h \in Int /\ l < h
  BY <1>1 DEF KidsRight
<1> HIDE DEF ks, cs, l, h, v
<1>4. \A x \in 1 .. Len(cs) :
              /\ cs[x] \in 1 .. P /\ lv[cs[x]] = v - 1
              /\ lo[cs[x]] \in Int /\ l <= lo[cs[x]] /\ lo[cs[x]] < top[cs[x]] /\ top[cs[x]] <= h
              /\ top[cs[x]] \in Int
              /\ \A j \in 1 .. Len(cs) : x # j => cs[x] # cs[j]
  BY <1>2, <1>3, KidsAre
<1>5. /\ cs[i] \in 1 .. P /\ lv[cs[i]] = v - 1
      /\ lo[cs[i]] \in Int /\ l <= lo[cs[i]] /\ lo[cs[i]] < top[cs[i]] /\ top[cs[i]] <= h /\ top[cs[i]] \in Int
  BY <1>3, <1>4
<1>6. lo[cs[i]] < h
  BY <1>3, <1>5
<1> QED BY <1>5, <1>6 DEF cs, l, h, v

(* No page is the child of two pages.                                      *)
IsKid(c, n) == \E i \in 1 .. Len(n.kids) : n.kids[i] = c
SingleParents(N, lv, P) ==
    \A p, q \in 1 .. P : lv[p] # 0 /\ lv[q] # 0 => \A c : IsKid(c, N[p]) /\ IsKid(c, N[q]) => p = q

(* For the ranges of a level are disjoint.                                 *)
LEMMA OneParent ==
    ASSUME NEW N, NEW lo, NEW hi, NEW top, NEW lv, NEW P \in 0 .. MaxPages, NEW D,
           Shaped(N, lo, hi, top, lv, P, D)
    PROVE  SingleParents(N, lv, P)
<1> SUFFICES ASSUME NEW p \in 1 .. P, NEW q \in 1 .. P, NEW c, lv[p] # 0, lv[q] # 0,
                    IsKid(c, N[p]), IsKid(c, N[q])
             PROVE  p = q
  BY DEF SingleParents
<1>1. c \in 1 .. P /\ lv[c] = lv[p] - 1 /\ lo[p] <= lo[c] /\ lo[c] < hi[p]
  <2>1. KidsInside(N[p].kids, lo[p], hi[p], lv[p], lo, lv, P)
    BY PageKids
  <2> QED BY <2>1 DEF KidsInside, IsKid
<1>2. lv[c] = lv[q] - 1 /\ lo[q] <= lo[c] /\ lo[c] < hi[q]
  <2>1. KidsInside(N[q].kids, lo[q], hi[q], lv[q], lo, lv, P)
    BY PageKids
  <2> QED BY <2>1 DEF KidsInside, IsKid
<1>3. lo[p] \in Int /\ hi[p] \in Int /\ lv[p] \in Nat
  BY PageIs
<1>4. lo[q] \in Int /\ hi[q] \in Int /\ lv[q] \in Nat
  BY PageIs
<1>5. lo[c] \in Int
  BY <1>1, PageIs
<1>6. lv[p] = lv[q]
  BY ONLY <1>1, <1>2, <1>3, <1>4
<1>7. p # q => hi[p] <= lo[q] \/ hi[q] <= lo[p]
  BY <1>6 DEF Shaped, Disjoint
<1> QED BY ONLY <1>1, <1>2, <1>3, <1>4, <1>5, <1>7

(* Placing is a matter of the children's ranges and levels alone.          *)
Kept(lo, lo2, lv, lv2, P) == \A q \in 1 .. P : lo2[q] = lo[q] /\ lv2[q] = lv[q]
TopsKept(cs, top, top2) == \A i \in 1 .. Len(cs) : top2[cs[i]] = top[cs[i]]

(* So it holds of other functions that agree on the children.              *)
LEMMA KidsMoved ==
    ASSUME NEW ks, NEW cs, NEW l, NEW h, NEW v, NEW lo, NEW top, NEW lv, NEW P \in Nat,
           KidsPlaced(ks, cs, l, h, v, lo, top, lv, P),
           NEW lo2, NEW top2, NEW lv2, NEW P2 \in Nat, P <= P2,
           Kept(lo, lo2, lv, lv2, P), TopsKept(cs, top, top2)
    PROVE  KidsPlaced(ks, cs, l, h, v, lo2, top2, lv2, P2)
<1>1. \A q \in 1 .. P : q \in 1 .. P2
  OBVIOUS
<1> QED BY <1>1 DEF KidsPlaced, Kept, TopsKept

(* The same for the link to the next leaf.                                 *)
LEMMA LinkMoved ==
    ASSUME NEW n, NEW h, NEW lo, NEW lv, NEW P \in Nat, LinkRight(n, h, lo, lv, P),
           NEW n2, n2.next = n.next, NEW lo2, NEW lv2, NEW P2 \in Nat, P <= P2,
           Kept(lo, lo2, lv, lv2, P)
    PROVE  LinkRight(n2, h, lo2, lv2, P2)
<1>1. \A q \in 1 .. P : q \in 1 .. P2
  OBVIOUS
<1> QED BY <1>1 DEF LinkRight, Kept

(* The leaves other than a hold of D2 what they hold of D; the pages other *)
(* than a find their children where they were.                             *)
SameIds(lo, hi, lv, P, a, D, D2) ==
    \A p \in 1 .. P : p # a /\ lv[p] = 0 =>
        \A k \in D \cup D2 : lo[p] <= k /\ k < hi[p] => (k \in D2 <=> k \in D)
SameTops(N, lv, P, a, top, top2) ==
    \A p \in 1 .. P : p # a /\ lv[p] # 0 => TopsKept(N[p].kids, top, top2)

(* Changing page a and adding pages behind the last.                       *)
LEMMA Reshaped ==
    ASSUME NEW N, NEW lo, NEW hi, NEW top, NEW lv, NEW P \in 0 .. MaxPages, NEW D,
           Shaped(N, lo, hi, top, lv, P, D),
           NEW N2 \in [Pages -> Nodes], NEW lo2 \in [Pages -> Int], NEW hi2 \in [Pages -> Int],
           NEW top2 \in [Pages -> Int], NEW lv2 \in [Pages -> Nat], NEW P2 \in P .. MaxPages, NEW D2,
           NEW a \in 0 .. P,
           Kept(lo, lo2, lv, lv2, P),
           \A p \in 1 .. P : hi2[p] <= hi[p] /\ (p # a => N2[p] = N[p] /\ hi2[p] = hi[p]),
           \A p \in 1 .. P2 : RangeRight(lo2, hi2, top2, p),
           \A p \in 1 .. P2 : p = a \/ p > P => PageRight(N2, lo2, hi2, top2, lv2, P2, D2, p),
           SameIds(lo, hi, lv, P, a, D, D2), SameTops(N, lv, P, a, top, top2),
           \A p \in 1 .. P2, q \in P + 1 .. P2 :
              p # q /\ lv2[p] = lv2[q] => hi2[p] <= lo2[q] \/ hi2[q] <= lo2[p]
    PROVE  Shaped(N2, lo2, hi2, top2, lv2, P2, D2)
<1>1. P \in Nat /\ P2 \in Nat /\ P <= P2 /\ \A p \in 1 .. P2 : p \in Pages
  BY SizesAre DEF Pages
<1>2. \A p \in 1 .. P : lo[p] \in Int /\ hi[p] \in Int /\ lo2[p] \in Int /\ hi2[p] \in Int
  BY <1>1, PageIs
<1>3. \A q \in 1 .. P : lo2[q] = lo[q] /\ lv2[q] = lv[q]
  BY DEF Kept
<1>4. ASSUME NEW p \in 1 .. P, p # a PROVE PageRight(N2, lo2, hi2, top2, lv2, P2, D2, p)
  <2>1. N2[p] = N[p] /\ hi2[p] = hi[p] /\ lo2[p] = lo[p] /\ lv2[p] = lv[p]
    BY <1>4, <1>3
  <2>2. CASE lv[p] = 0
    <3>1. LeafRight(N[p], lo[p], hi[p], D) /\ LinkRight(N[p], hi[p], lo, lv, P) /\ Len(N[p].keys) <= MaxKeys
      BY <2>2, PageIs
    <3>2. \A k \in D \cup D2 : lo[p] <= k /\ k < hi[p] => (k \in D2 <=> k \in D)
      BY <1>4, <2>2 DEF SameIds
    <3>3. {k \in D2 : lo[p] <= k /\ k < hi[p]} = {k \in D : lo[p] <= k /\ k < hi[p]}
      BY <3>2
    <3>4. LeafRight(N2[p], lo2[p], hi2[p], D2)
      BY <2>1, <3>1, <3>3 DEF LeafRight, PairsRight
    <3>5. LinkRight(N2[p], hi2[p], lo2, lv2, P2)
      <4>1. N2[p].next = N[p].next
        BY <2>1
      <4>2. LinkRight(N2[p], hi[p], lo2, lv2, P2)
        BY <1>1, <3>1, <4>1, LinkMoved
      <4> QED BY <2>1, <4>2
    <3> QED BY <2>1, <2>2, <3>1, <3>4, <3>5 DEF PageRight
  <2>3. CASE lv[p] # 0
    <3>1. KidsRight(N[p], lo[p], hi[p], lv[p], lo, top, lv, P) /\ Len(N[p].keys) <= MaxKeys
      BY <2>3, PageIs
    <3> DEFINE ks == N[p].keys
               cs == N[p].kids
               l == lo[p]
               h == hi[p]
               v == lv[p]
    <3>2. KidsPlaced(ks, cs, l, h, v, lo, top, lv, P) /\ ~N[p].leaf
      BY <3>1 DEF KidsRight
    <3>3. TopsKept(cs, top, top2)
      BY <1>4, <2>3 DEF SameTops
    <3>4. KidsPlaced(ks, cs, l, h, v, lo2, top2, lv2, P2)
      <4> HIDE DEF ks, cs, l, h, v
      <4>1. P \in Nat /\ P2 \in Nat /\ P <= P2
        BY <1>1
      <4>2. KidsPlaced(ks, cs, l, h, v, lo, top, lv, P)
        BY <3>2
      <4> QED BY <3>3, <4>1, <4>2, KidsMoved
    <3>5. KidsRight(N2[p], lo2[p], hi2[p], lv2[p], lo2, top2, lv2, P2)
      BY <2>1, <3>2, <3>4 DEF KidsRight
    <3> QED BY <2>1, <2>3, <3>1, <3>5 DEF PageRight
  <2> QED BY <2>2, <2>3
<1>5. \A p \in 1 .. P2 : PageRight(N2, lo2, hi2, top2, lv2, P2, D2, p)
  <2> TAKE p \in 1 .. P2
  <2>1. (p \in 1 .. P /\ p # a) \/ p = a \/ p > P
    BY <1>1
  <2> QED BY <1>4, <2>1
<1>6. Disjoint(lo2, hi2, lv2, P2)
  <2>1. SUFFICES ASSUME NEW p \in 1 .. P2, NEW q \in 1 .. P2, p # q, lv2[p] = lv2[q]
                 PROVE  hi2[p] <= lo2[q] \/ hi2[q] <= lo2[p]
    BY DEF Disjoint
  <2>2. CASE q \in P + 1 .. P2
    BY <2>1, <2>2
  <2>3. CASE p \in P + 1 .. P2
    BY <2>1, <2>3
  <2>4. CASE p \in 1 .. P /\ q \in 1 .. P
    <3>1. hi[p] <= lo[q] \/ hi[q] <= lo[p]
      <4>1. lv[p] = lv[q]
        BY <1>3, <2>1, <2>4
      <4>2. Disjoint(lo, hi, lv, P)
        BY DEF Shaped
      <4> QED BY ONLY <2>1, <2>4, <4>1, <4>2 DEF Disjoint
    <3> QED BY <1>2, <1>3, <2>4, <3>1
  <2> QED BY <1>1, <2>2, <2>3, <2>4
<1> QED BY <1>5, <1>6 DEF Shaped

(* The functions after page a was split at m into a and r.                 *)
CutLo(lo, r, m) == [lo EXCEPT ![r] = m]
CutHi(hi, a, r, m) == [hi EXCEPT ![a] = m, ![r] = hi[a]]
CutLv(lv, a, r) == [lv EXCEPT ![r] = lv[a]]
CutTop(hi, a, r) == [hi EXCEPT ![r] = hi[a]]

Cut(lo, hi, lv, P, a, r, m, lo2, hi2, lv2, top2) ==
    /\ r \in Pages /\ r # a /\ r \in 1 .. P + 1
    /\ lo2 \in [Pages -> Int] /\ hi2 \in [Pages -> Int]
    /\ lv2 \in [Pages -> Nat] /\ top2 \in [Pages -> Int]
    /\ \A p \in 1 .. P : /\ p \in Pages /\ p # r
                         /\ lo2[p] = lo[p] /\ lv2[p] = lv[p] /\ top2[p] = hi[p]
                         /\ hi2[p] = IF p = a THEN m ELSE hi[p]
    /\ lo2[r] = m /\ lv2[r] = lv[a] /\ top2[r] = hi[a] /\ hi2[r] = hi[a]
    /\ top2 = [hi2 EXCEPT ![a] = hi2[r]]

(* The values of these functions.                                          *)
LEMMA CutIs ==
    ASSUME NEW lo \in [Pages -> Int], NEW hi \in [Pages -> Int], NEW lv \in [Pages -> Nat],
           NEW P \in 1 .. MaxPages - 1, NEW a \in 1 .. P, NEW m \in Int,
           NEW r, r = P + 1
    PROVE  Cut(lo, hi, lv, P, a, r, m, CutLo(lo, r, m), CutHi(hi, a, r, m), CutLv(lv, a, r), CutTop(hi, a, r))
<1>1. MaxPages \in Nat /\ a \in Pages /\ r \in Pages /\ r # a /\ r \in 1 .. P + 1
      /\ \A p \in 1 .. P : p \in Pages /\ p # r
  BY SizesAre DEF Pages
<1>2. /\ CutLo(lo, r, m) \in [Pages -> Int] /\ CutHi(hi, a, r, m) \in [Pages -> Int]
      /\ CutLv(lv, a, r) \in [Pages -> Nat] /\ CutTop(hi, a, r) \in [Pages -> Int]
  BY <1>1 DEF CutLo, CutHi, CutLv, CutTop
<1>3. \A p \in 1 .. P : /\ CutLo(lo, r, m)[p] = lo[p] /\ CutLv(lv, a, r)[p] = lv[p]
                        /\ CutTop(hi, a, r)[p] = hi[p]
                        /\ CutHi(hi, a, r, m)[p] = IF p = a THEN m ELSE hi[p]
  BY <1>1 DEF CutLo, CutHi, CutLv, CutTop
<1>4. /\ CutLo(lo, r, m)[r] = m /\ CutLv(lv, a, r)[r] = lv[a]
      /\ CutTop(hi, a, r)[r] = hi[a] /\ CutHi(hi, a, r, m)[r] = hi[a]
  BY <1>1 DEF CutLo, CutHi, CutLv, CutTop
<1>5. \A p \in Pages : CutTop(hi, a, r)[p] = [CutHi(hi, a, r, m) EXCEPT ![a] = CutHi(hi, a, r, m)[r]][p]
  BY <1>1 DEF CutHi, CutTop
<1>6. CutTop(hi, a, r) = [CutHi(hi, a, r, m) EXCEPT ![a] = CutHi(hi, a, r, m)[r]]
  BY <1>1, <1>5 DEF CutHi, CutTop
<1> QED BY <1>1, <1>2, <1>3, <1>4, <1>6 DEF Cut

(* Splitting a page keeps the tree in shape; the pages above still see     *)
(* the range of the page that was split.                                   *)
LEMMA SplitShaped ==
    ASSUME NEW N, NEW lo, NEW hi, NEW top, NEW lv, NEW P \in 1 .. MaxPages - 1, NEW D, NEW D2,
           Shaped(N, lo, hi, top, lv, P, D),
           NEW a \in 1 .. P, NEW r, r = P + 1, NEW m \in Int, lo[a] < m, m < hi[a],
           NEW n1 \in Nodes, NEW n2 \in Nodes, NEW N2, N2 = [N EXCEPT ![a] = n1, ![r] = n2],
           NEW lo2, lo2 = CutLo(lo, r, m), NEW hi2, hi2 = CutHi(hi, a, r, m),
           NEW lv2, lv2 = CutLv(lv, a, r), NEW top2, top2 = CutTop(hi, a, r),
           PageRight(N2, lo2, hi2, top2, lv2, P + 1, D2, a),
           PageRight(N2, lo2, hi2, top2, lv2, P + 1, D2, r),
           SameIds(lo, hi, lv, P, a, D, D2), SameTops(N, lv, P, a, top, hi)
    PROVE  Shaped(N2, lo2, hi2, top2, lv2, P + 1, D2)
<1>1. /\ N \in [Pages -> Nodes] /\ lo \in [Pages -> Int] /\ hi \in [Pages -> Int] /\ lv \in [Pages -> Nat]
  BY DEF Shaped
<1>2. /\ r \in Pages /\ r # a /\ r \in 1 .. P + 1
      /\ lo2 \in [Pages -> Int] /\ hi2 \in [Pages -> Int]
      /\ lv2 \in [Pages -> Nat] /\ top2 \in [Pages -> Int]
      /\ \A p \in 1 .. P : /\ p \in Pages /\ p # r
                           /\ lo2[p] = lo[p] /\ lv2[p] = lv[p] /\ top2[p] = hi[p]
                           /\ hi2[p] = IF p = a THEN m ELSE hi[p]
      /\ lo2[r] = m /\ lv2[r] = lv[a] /\ top2[r] = hi[a] /\ hi2[r] = hi[a]
  <2>1. Cut(lo, hi, lv, P, a, r, m, lo2, hi2, lv2, top2)
    BY <1>1, CutIs
  <2> QED BY <2>1 DEF Cut
<1>3. P \in 0 .. MaxPages /\ P + 1 \in P .. MaxPages /\ P \in Nat /\ a \in 0 .. P /\ a \in Pages
  BY SizesAre DEF Pages
<1>4. N2 \in [Pages -> Nodes] /\ \A p \in 1 .. P : p # a => N2[p] = N[p]
  BY <1>1, <1>2, <1>3
<1>5. \A p \in 1 .. P : /\ lo[p] \in Int /\ hi[p] \in Int /\ lv[p] \in Nat /\ Low <= lo[p] /\ lo[p] < hi[p]
                        /\ hi[p] <= High
  <2> TAKE p \in 1 .. P
  <2>1. /\ lo[p] \in Int /\ hi[p] \in Int /\ top[p] \in Int /\ lv[p] \in Nat
        /\ Low <= lo[p] /\ lo[p] < hi[p] /\ hi[p] <= top[p] /\ top[p] <= High
    BY <1>3, PageIs
  <2> QED BY ONLY <2>1, IntsAre
<1>6. Kept(lo, lo2, lv, lv2, P)
  BY <1>2 DEF Kept
<1>7. \A p \in 1 .. P : hi2[p] <= hi[p] /\ (p # a => N2[p] = N[p] /\ hi2[p] = hi[p])
  BY <1>2, <1>4, <1>5
<1>8. \A p \in 1 .. P + 1 : p \in 1 .. P \/ p = r
  BY <1>3
<1>9. ASSUME NEW p \in 1 .. P + 1 PROVE RangeRight(lo2, hi2, top2, p)
  <2>1. CASE p = r
    <3>1. Low <= lo[a] /\ lo[a] \in Int /\ hi[a] \in Int /\ hi[a] <= High
      BY <1>5
    <3>2. Low <= m /\ m < hi[a] /\ hi[a] <= hi[a] /\ hi[a] <= High
      BY ONLY <3>1, IntsAre, m \in Int, lo[a] < m, m < hi[a]
    <3> QED BY <1>2, <2>1, <3>2 DEF RangeRight
  <2>2. CASE p \in 1 .. P /\ p # a
    <3>1. lo2[p] = lo[p] /\ top2[p] = hi[p] /\ hi2[p] = hi[p]
      BY <1>2, <2>2
    <3>2. lo[p] \in Int /\ hi[p] \in Int /\ Low <= lo[p] /\ lo[p] < hi[p] /\ hi[p] <= High
      BY <1>5, <2>2
    <3> QED BY <3>1, <3>2 DEF RangeRight
  <2>3. CASE p = a
    <3>1. lo2[p] = lo[p] /\ top2[p] = hi[p] /\ hi2[p] = m
      BY <1>2, <2>3
    <3>2. lo[p] \in Int /\ hi[p] \in Int /\ Low <= lo[p] /\ lo[p] < hi[p] /\ hi[p] <= High
      BY <1>5, <2>3
    <3> QED BY <2>3, <3>1, <3>2 DEF RangeRight
  <2> QED BY <1>8, <2>1, <2>2, <2>3
<1>10. ASSUME NEW p \in 1 .. P + 1, p = a \/ p > P
       PROVE  PageRight(N2, lo2, hi2, top2, lv2, P + 1, D2, p)
  <2>1. p = a \/ p = r
    BY <1>3, <1>10
  <2> QED BY <2>1
<1>11. SameTops(N, lv, P, a, top, top2)
  <2>1. SUFFICES ASSUME NEW p \in 1 .. P, p # a, lv[p] # 0, NEW i \in 1 .. Len(N[p].kids)
                 PROVE  top2[N[p].kids[i]] = top[N[p].kids[i]]
    BY DEF SameTops, TopsKept
  <2>2. KidsInside(N[p].kids, lo[p], hi[p], lv[p], lo, lv, P)
    BY <1>3, <2>1, PageKids
  <2>3. N[p].kids[i] \in 1 .. P
    BY <2>2 DEF KidsInside
  <2>4. hi[N[p].kids[i]] = top[N[p].kids[i]]
    BY <2>1 DEF SameTops, TopsKept
  <2> QED BY <1>2, <2>3, <2>4
<1>12. ASSUME NEW p \in 1 .. P + 1, NEW q \in P + 1 .. P + 1, p # q, lv2[p] = lv2[q]
       PROVE  hi2[p] <= lo2[q] \/ hi2[q] <= lo2[p]
  <2>1. q = r /\ p \in 1 .. P
    BY <1>3, <1>12
  <2>2. lv[p] = lv[a] /\ lo2[p] = lo[p] /\ lo2[q] = m /\ hi2[q] = hi[a]
    BY <1>2, <1>12, <2>1
  <2>3. CASE p = a
    BY <1>2, <2>2, <2>3
  <2>4. CASE p # a
    <3>1. hi[p] <= lo[a] \/ hi[a] <= lo[p]
      <4>1. Disjoint(lo, hi, lv, P)
        BY DEF Shaped
      <4> QED BY ONLY <2>1, <2>2, <2>4, <4>1, a \in 1 .. P DEF Disjoint
    <3>2. hi2[p] = hi[p] /\ hi[p] \in Int /\ lo[a] \in Int
      BY <1>2, <1>5, <2>1, <2>4
    <3>3. hi[p] <= lo[a] => hi[p] <= m
      BY ONLY <3>2, m \in Int, lo[a] < m
    <3> QED BY <2>2, <3>1, <3>2, <3>3
  <2> QED BY <2>3, <2>4
<1> DEFINE P2 == P + 1
<1> HIDE DEF P2
<1>13. /\ P2 \in P .. MaxPages
       /\ \A p \in 1 .. P2 : RangeRight(lo2, hi2, top2, p)
       /\ \A p \in 1 .. P2 : p = a \/ p > P => PageRight(N2, lo2, hi2, top2, lv2, P2, D2, p)
       /\ \A p \in 1 .. P2, q \in P + 1 .. P2 :
              p # q /\ lv2[p] = lv2[q] => hi2[p] <= lo2[q] \/ hi2[q] <= lo2[p]
  BY <1>3, <1>9, <1>10, <1>12 DEF P2
<1>14. Shaped(N2, lo2, hi2, top2, lv2, P2, D2)
  BY ONLY <1>2, <1>3, <1>4, <1>6, <1>7, <1>11, <1>13, Reshaped, SameIds(lo, hi, lv, P, a, D, D2),
          Shaped(N, lo, hi, top, lv, P, D)
<1> QED BY <1>14 DEF P2

-----------------------------------------------------------------------------
(* What the steps of an insert do to the shape                             *)

(* A key of a's range is in no other leaf's range.                         *)
LEMMA IdsElsewhere ==
    ASSUME NEW N, NEW lo, NEW hi, NEW top, NEW lv, NEW P \in 0 .. MaxPages, NEW D,
           Shaped(N, lo, hi, top, lv, P, D), NEW a \in 1 .. P, lv[a] = 0,
           NEW k \in Int, lo[a] <= k, k < hi[a]
    PROVE  SameIds(lo, hi, lv, P, a, D, D \cup {k})
<1>1. SUFFICES ASSUME NEW p \in 1 .. P, p # a, lv[p] = 0, lo[p] <= k, k < hi[p] PROVE FALSE
  BY DEF SameIds
<1>2. hi[p] <= lo[a] \/ hi[a] <= lo[p]
  <2>1. Disjoint(lo, hi, lv, P)
    BY DEF Shaped
  <2> QED BY <1>1, <2>1 DEF Disjoint
<1>3. lo[p] \in Int /\ hi[p] \in Int
  BY PageIs
<1>4. lo[a] \in Int /\ hi[a] \in Int
  BY PageIs
<1> QED BY <1>1, <1>2, <1>3, <1>4

(* Changing one page.                                                      *)
LEMMA Replaced ==
    ASSUME NEW N, NEW lo, NEW hi, NEW top, NEW lv, NEW P \in 0 .. MaxPages, NEW D, NEW D2,
           Shaped(N, lo, hi, top, lv, P, D), NEW a \in 1 .. P, NEW n \in Nodes,
           NEW N2, N2 = [N EXCEPT ![a] = n],
           PageRight(N2, lo, hi, hi, lv, P, D2, a),
           SameIds(lo, hi, lv, P, a, D, D2), SameTops(N, lv, P, a, top, hi)
    PROVE  Shaped(N2, lo, hi, hi, lv, P, D2)
<1>1. /\ N \in [Pages -> Nodes] /\ lo \in [Pages -> Int] /\ hi \in [Pages -> Int] /\ lv \in [Pages -> Nat]
  BY DEF Shaped
<1>2. P \in Nat /\ P \in P .. MaxPages /\ a \in 0 .. P /\ a \in Pages /\ \A p \in 1 .. P : p \in Pages
  BY SizesAre DEF Pages
<1>3. N2 \in [Pages -> Nodes] /\ \A p \in 1 .. P : p # a => N2[p] = N[p]
  BY <1>1, <1>2
<1>4. Kept(lo, lo, lv, lv, P)
  BY DEF Kept
<1>5. \A p \in 1 .. P : hi[p] <= hi[p] /\ (p # a => N2[p] = N[p] /\ hi[p] = hi[p])
  BY <1>1, <1>2, <1>3
<1>6. \A p \in 1 .. P : RangeRight(lo, hi, hi, p)
  <2> TAKE p \in 1 .. P
  <2>1. /\ lo[p] \in Int /\ hi[p] \in Int /\ top[p] \in Int
        /\ Low <= lo[p] /\ lo[p] < hi[p] /\ hi[p] <= top[p] /\ top[p] <= High
    BY PageIs
  <2>2. hi[p] <= hi[p] /\ hi[p] <= High
    BY ONLY <2>1, IntsAre
  <2> QED BY <2>1, <2>2 DEF RangeRight
<1>7. \A p \in 1 .. P : p = a \/ p > P => PageRight(N2, lo, hi, hi, lv, P, D2, p)
  BY <1>2
<1>8. \A p \in 1 .. P, q \in P + 1 .. P :
              p # q /\ lv[p] = lv[q] => hi[p] <= lo[q] \/ hi[q] <= lo[p]
  BY <1>2
<1> QED BY ONLY <1>1, <1>2, <1>3, <1>4, <1>5, <1>6, <1>7, <1>8, Reshaped, P \in 0 .. MaxPages,
                SameIds(lo, hi, lv, P, a, D, D2), SameTops(N, lv, P, a, top, hi),
                Shaped(N, lo, hi, top, lv, P, D)

(* The same tops are the same for everybody.                               *)
LEMMA TopsUnchanged == \A N, lv, P, a, top : SameTops(N, lv, P, a, top, top)
BY DEF SameTops, TopsKept

(* LeafInsert                                                              *)
LEMMA LeafInsertShaped ==
    ASSUME NEW N, NEW lo, NEW hi, NEW lv, NEW P \in 0 .. MaxPages, NEW D,
           Shaped(N, lo, hi, hi, lv, P, D), NEW a \in 1 .. P, lv[a] = 0,
           NEW k \in Keys, lo[a] <= k, k < hi[a], k \notin ToSet(N[a].keys),
           NEW ks, ks = InsertAt(N[a].keys, LowerBound(N[a].keys, k), k),
           NEW vs, vs = InsertAt(N[a].vals, LowerBound(N[a].keys, k), ValueOf[k]),
           Len(ks) <= MaxKeys, NEW n, n = Leaf(ks, vs, N[a].next)
    PROVE  /\ n \in Nodes /\ (Filled(N[a]) => Filled(n))
           /\ Shaped([N EXCEPT ![a] = n], lo, hi, hi, lv, P, D \cup {k})
<1> DEFINE o == N[a]
           l == lo[a]
           h == hi[a]
           N2 == [N EXCEPT ![a] = n]
           D2 == D \cup {k}
<1>1. /\ o \in Nodes /\ l \in Int /\ h \in Int /\ LeafRight(o, l, h, D) /\ LinkRight(o, h, lo, lv, P) /\ a \in Pages
  BY PageIs
<1>2. k \in Int /\ k \in Ints
  BY SizesAre, IntsAre
<1>3. /\ ks \in Seq(Ints) /\ vs \in Seq(Values) /\ Len(ks) = Len(o.keys) + 1
      /\ PairsRight(ks, vs, l, h, D2)
  <2>1. k \notin ToSet(o.keys) /\ l <= k /\ k < h
    OBVIOUS
  <2>2. ks = InsertAt(o.keys, LowerBound(o.keys, k), k) /\ vs = InsertAt(o.vals, LowerBound(o.keys, k), ValueOf[k])
    OBVIOUS
  <2> HIDE DEF o, l, h
  <2> QED BY ONLY <1>1, <2>1, <2>2, k \in Keys, LeafInserted
<1>4. o.next \in 0 .. MaxPages /\ Len(o.keys) \in Nat
  BY <1>1, NodeIs
<1>5. n \in Nodes /\ n.leaf /\ n.keys = ks /\ n.vals = vs /\ n.next = o.next
  <2> HIDE DEF o
  <2>1. n = Leaf(ks, vs, o.next)
    BY DEF o
  <2> QED BY ONLY <1>3, <1>4, <2>1, LeafIs
<1>6. N2[a] = n
  BY <1>1 DEF Shaped
<1> HIDE DEF N2
<1>7. LeafRight(n, l, h, D2) /\ LinkRight(n, h, lo, lv, P)
  <2>1. LinkRight(n, h, lo, lv, P)
    BY <1>1, <1>5 DEF LinkRight
  <2> QED BY <1>3, <1>5, <2>1 DEF LeafRight
<1>8. PageRight(N2, lo, hi, hi, lv, P, D2, a)
  BY <1>5, <1>6, <1>7 DEF PageRight
<1>9. SameIds(lo, hi, lv, P, a, D, D2)
  BY <1>2, IdsElsewhere
<1>10. SameTops(N, lv, P, a, hi, hi)
  BY TopsUnchanged
<1>11. Shaped(N2, lo, hi, hi, lv, P, D2)
  <2> HIDE DEF D2
  <2>1. N2 = [N EXCEPT ![a] = n]
    BY DEF N2
  <2> QED BY <1>5, <1>8, <1>9, <1>10, <2>1, Replaced
<1>12. Filled(o) => Filled(n)
  <2> HIDE DEF o
  <2>1. o.leaf
    BY <1>1 DEF LeafRight
  <2> DEFINE b == (MaxKeys + 1) \div 2
  <2>2. b \in Int
    BY SizesAre
  <2> HIDE DEF b
  <2>3. Len(o.keys) >= b => Len(ks) >= b
    BY <1>3, <1>4, <2>2
  <2> QED BY <1>5, <2>1, <2>3 DEF Filled, b
<1> QED BY <1>5, <1>11, <1>12 DEF N2

(* The halves n1 and n2 of page a, parted at m.                            *)
PageSplit(N, lo, hi, lv, P, D, a, r, m, n1, n2) ==
    /\ n1 \in Nodes /\ n2 \in Nodes /\ Filled(n1) /\ Filled(n2)
    /\ m \in Ints /\ lo[a] < m /\ m < hi[a]
    /\ Shaped([N EXCEPT ![a] = n1, ![r] = n2], CutLo(lo, r, m), CutHi(hi, a, r, m),
              CutTop(hi, a, r), CutLv(lv, a, r), P + 1, D)

(* LeafSplit                                                               *)
LEMMA LeafSplitShaped ==
    ASSUME NEW N, NEW lo, NEW hi, NEW lv, NEW P \in 1 .. MaxPages - 1, NEW D \in SUBSET Int,
           Shaped(N, lo, hi, hi, lv, P, D), NEW a \in 1 .. P, lv[a] = 0,
           NEW k \in Keys, lo[a] <= k, k < hi[a], k \notin ToSet(N[a].keys),
           NEW ks, ks = InsertAt(N[a].keys, LowerBound(N[a].keys, k), k),
           NEW vs, vs = InsertAt(N[a].vals, LowerBound(N[a].keys, k), ValueOf[k]),
           Len(ks) > MaxKeys, NEW half, half = SplitPoint(ks), NEW r, r = P + 1, NEW m, m = ks[half + 1],
           NEW n1, n1 = Leaf(SubSeq(ks, 1, half), SubSeq(vs, 1, half), r),
           NEW n2, n2 = Leaf(SubSeq(ks, half + 1, Len(ks)), SubSeq(vs, half + 1, Len(vs)), N[a].next)
    PROVE  PageSplit(N, lo, hi, lv, P, D \cup {k}, a, r, m, n1, n2)
<1> DEFINE o == N[a]
           l == lo[a]
           h == hi[a]
           N2 == [N EXCEPT ![a] = n1, ![r] = n2]
           D2 == D \cup {k}
           lo2 == CutLo(lo, r, m)
           hi2 == CutHi(hi, a, r, m)
           top2 == CutTop(hi, a, r)
           lv2 == CutLv(lv, a, r)
           k1 == SubSeq(ks, 1, half)
           v1 == SubSeq(vs, 1, half)
           k2 == SubSeq(ks, half + 1, Len(ks))
           v2 == SubSeq(vs, half + 1, Len(vs))
<1>1. P \in 0 .. MaxPages /\ P \in Nat /\ r \in 0 .. MaxPages /\ P + 1 \in Nat /\ P <= P + 1
  BY SizesAre
<1>2. /\ o \in Nodes /\ l \in Int /\ h \in Int /\ LeafRight(o, l, h, D) /\ LinkRight(o, h, lo, lv, P)
      /\ a \in Pages /\ Len(o.keys) <= MaxKeys
  BY <1>1, PageIs
<1>3. k \in Int /\ k \in Ints /\ D2 \in SUBSET Int
  BY SizesAre, IntsAre
<1>4. /\ ks \in Seq(Ints) /\ vs \in Seq(Values) /\ Len(ks) = Len(o.keys) + 1
      /\ PairsRight(ks, vs, l, h, D2)
  <2>1. k \notin ToSet(o.keys) /\ l <= k /\ k < h
    OBVIOUS
  <2>2. ks = InsertAt(o.keys, LowerBound(o.keys, k), k) /\ vs = InsertAt(o.vals, LowerBound(o.keys, k), ValueOf[k])
    OBVIOUS
  <2> HIDE DEF o, l, h
  <2> QED BY ONLY <1>2, <2>1, <2>2, k \in Keys, LeafInserted
<1>5. o.next \in 0 .. MaxPages /\ Len(o.keys) \in Nat
  BY <1>2, NodeIs
<1> HIDE DEF k1, k2, v1, v2, o, l, h, D2
<1>6. Len(ks) = MaxKeys + 1
  BY <1>2, <1>4, <1>5, SizesAre
<1>7. /\ m \in Ints /\ l < m /\ m < h
      /\ k1 \in Seq(Ints) /\ v1 \in Seq(Values) /\ k2 \in Seq(Ints) /\ v2 \in Seq(Values)
      /\ PairsRight(k1, v1, l, m, D2) /\ PairsRight(k2, v2, m, h, D2)
      /\ Len(k1) <= MaxKeys /\ Len(k1) >= (MaxKeys + 1) \div 2
      /\ Len(k2) <= MaxKeys /\ Len(k2) >= (MaxKeys + 1) \div 2
  <2>1. k1 = SubSeq(ks, 1, half) /\ v1 = SubSeq(vs, 1, half)
        /\ k2 = SubSeq(ks, half + 1, Len(ks)) /\ v2 = SubSeq(vs, half + 1, Len(vs))
    BY DEF k1, k2, v1, v2
  <2>2. D2 \in SUBSET Int /\ l \in Int /\ h \in Int
    BY <1>2, <1>3
  <2>3. LeafHalved(k1, v1, k2, v2, l, m, h, D2)
    BY ONLY <1>4, <1>6, <2>1, <2>2, half = SplitPoint(ks), m = ks[half + 1], LeafHalves
  <2> QED BY <2>3 DEF LeafHalved
<1>8. /\ n1 \in Nodes /\ n1.leaf /\ n1.keys = k1 /\ n1.vals = v1 /\ n1.next = r
  <2>1. n1 = Leaf(k1, v1, r)
    BY DEF k1, v1
  <2> QED BY ONLY <1>1, <1>7, <2>1, LeafIs
<1>9. /\ n2 \in Nodes /\ n2.leaf /\ n2.keys = k2 /\ n2.vals = v2 /\ n2.next = o.next
  <2>1. n2 = Leaf(k2, v2, o.next)
    BY DEF k2, v2, o
  <2> QED BY ONLY <1>5, <1>7, <2>1, LeafIs
<1>10. Filled(n1) /\ Filled(n2)
  BY <1>7, <1>8, <1>9 DEF Filled
<1>11. m \in Int
  BY <1>7, IntsAre
<1>12. Cut(lo, hi, lv, P, a, r, m, lo2, hi2, lv2, top2)
  BY <1>11, CutIs DEF Shaped
<1> HIDE DEF lo2, hi2, lv2, top2
<1>13. N2[a] = n1 /\ N2[r] = n2
  <2>1. N \in [Pages -> Nodes] /\ r \in Pages /\ r # a
    BY <1>12 DEF Shaped, Cut
  <2> QED BY <1>2, <2>1
<1> HIDE DEF N2
<1>14. /\ r \in 1 .. P + 1 /\ lo2[r] = m /\ lv2[r] = 0 /\ hi2[r] = h /\ hi2[a] = m /\ lo2[a] = l /\ lv2[a] = 0
       /\ r # 0
  BY <1>1, <1>12 DEF Cut, h, l
<1>15. Kept(lo, lo2, lv, lv2, P)
  BY <1>12 DEF Cut, Kept
<1>16. PageRight(N2, lo2, hi2, top2, lv2, P + 1, D2, a)
  <2>1. LeafRight(n1, l, m, D2)
    BY <1>7, <1>8 DEF LeafRight
  <2>2. LinkRight(n1, m, lo2, lv2, P + 1)
    BY <1>8, <1>14 DEF LinkRight
  <2> QED BY <1>7, <1>8, <1>13, <1>14, <2>1, <2>2 DEF PageRight
<1>17. PageRight(N2, lo2, hi2, top2, lv2, P + 1, D2, r)
  <2>1. LeafRight(n2, m, h, D2)
    BY <1>7, <1>9 DEF LeafRight
  <2>2. LinkRight(n2, h, lo2, lv2, P + 1)
    BY ONLY <1>1, <1>2, <1>9, <1>15, LinkMoved
  <2> QED BY <1>7, <1>9, <1>13, <1>14, <2>1, <2>2 DEF PageRight
<1>18. SameIds(lo, hi, lv, P, a, D, D2)
  BY <1>1, <1>3, IdsElsewhere DEF D2
<1>19. SameTops(N, lv, P, a, hi, hi)
  BY TopsUnchanged
<1>20. Shaped(N2, lo2, hi2, top2, lv2, P + 1, D2)
  <2>1. N2 = [N EXCEPT ![a] = n1, ![r] = n2]
    BY DEF N2
  <2>2. lo2 = CutLo(lo, r, m) /\ hi2 = CutHi(hi, a, r, m) /\ top2 = CutTop(hi, a, r) /\ lv2 = CutLv(lv, a, r)
    BY DEF lo2, hi2, lv2, top2
  <2>3. lo[a] < m /\ m < hi[a]
    BY <1>7 DEF l, h
  <2> QED BY ONLY <1>8, <1>9, <1>11, <1>16, <1>17, <1>18, <1>19, <2>1, <2>2, <2>3, SplitShaped,
                  P \in 1 .. MaxPages - 1, Shaped(N, lo, hi, hi, lv, P, D), a \in 1 .. P, r = P + 1
<1>21. lo[a] < m /\ m < hi[a]
  BY <1>7 DEF l, h
<1> QED BY <1>7, <1>8, <1>9, <1>10, <1>20, <1>21 DEF N2, lo2, hi2, lv2, top2, D2, PageSplit

(* Page a is the parent of c, which was split at m into c and r.           *)
TakesUp(N, lo, hi, top, lv, P, D, a, k, c, m, r) ==
    /\ Shaped(N, lo, hi, top, lv, P, D)
    /\ a \in 1 .. P /\ lv[a] # 0 /\ k \in Int /\ lo[a] <= k /\ k < hi[a] /\ c = Child(N[a], k)
    /\ m \in Ints /\ r \in 1 .. P /\ r # c
    /\ hi[c] = m /\ lo[r] = m /\ lv[r] = lv[c]
    /\ top = [hi EXCEPT ![c] = hi[r]]

(* With the new key and page, a is right, and nobody else has c.           *)
TakenUp(N, lo, hi, top, lv, P, a, ks, cs) ==
    /\ ks \in Seq(Ints) /\ cs \in Seq(0 .. MaxPages) /\ Len(ks) = Len(N[a].keys) + 1
    /\ KidsPlaced(ks, cs, lo[a], hi[a], lv[a], lo, hi, lv, P)
    /\ SameTops(N, lv, P, a, top, hi)

(* KidInserted for a page of the tree.                                     *)
LEMMA KidTaken ==
    ASSUME NEW N, NEW lo, NEW hi, NEW top, NEW lv, NEW P \in 0 .. MaxPages, NEW D, NEW a, NEW k, NEW c, NEW m, NEW r,
           TakesUp(N, lo, hi, top, lv, P, D, a, k, c, m, r),
           NEW ks, ks = InsertAt(N[a].keys, UpperBound(N[a].keys, k), m),
           NEW cs, cs = InsertAt(N[a].kids, UpperBound(N[a].keys, k) + 1, r)
    PROVE  TakenUp(N, lo, hi, top, lv, P, a, ks, cs)
<1> DEFINE o == N[a]
           l == lo[a]
           h == hi[a]
           v == lv[a]
           os == o.keys
           oc == o.kids
           u == UpperBound(os, k)
<1>1. /\ Shaped(N, lo, hi, top, lv, P, D)
      /\ a \in 1 .. P /\ v # 0 /\ k \in Int /\ l <= k /\ k < h /\ c = oc[u]
      /\ m \in Ints /\ r \in 1 .. P /\ r # c
      /\ hi[c] = m /\ lo[r] = m /\ lv[r] = lv[c]
      /\ top = [hi EXCEPT ![c] = hi[r]]
  BY DEF TakesUp, Child
<1>2. /\ o \in Nodes /\ l \in Int /\ h \in Int /\ l < h /\ v \in Nat
      /\ KidsRight(o, l, h, v, lo, top, lv, P)
  BY <1>1, PageIs
<1>3. os \in Seq(Int) /\ os \in Seq(Ints) /\ oc \in Seq(0 .. MaxPages)
  BY <1>2, NodeIs
<1>4. KidsPlaced(os, oc, l, h, v, lo, top, lv, P)
  BY <1>2 DEF KidsRight
<1>5. ks = InsertAt(os, u, m) /\ cs = InsertAt(oc, u + 1, r)
  OBVIOUS
<1>6. ASSUME NEW p \in 1 .. P, p # a, lv[p] # 0, NEW i \in 1 .. Len(N[p].kids) PROVE N[p].kids[i] # c
  <2>1. u \in 1 .. Len(N[a].kids) /\ N[a].kids[u] = c
    <3> HIDE DEF os, oc, l, h, v
    <3>1. UpperBound(os, k) \in 1 .. Len(oc)
      BY ONLY <1>1, <1>2, <1>3, <1>4, ChildIs
    <3> QED BY <1>1, <3>1 DEF oc
  <2> HIDE DEF u
  <2>2. SUFFICES ASSUME N[p].kids[i] = c PROVE FALSE
    OBVIOUS
  <2>3. IsKid(c, N[p]) /\ IsKid(c, N[a])
    BY <2>1, <2>2 DEF IsKid
  <2>4. SingleParents(N, lv, P)
    BY <1>1, OneParent
  <2>5. p = a
    BY <1>1, <1>6, <2>3, <2>4 DEF SingleParents
  <2> QED BY <1>6, <2>5
<1> HIDE DEF o, l, h, v, os, oc
<1>7. u \in 1 .. Len(oc) /\ lo[c] <= k /\ k < top[c]
  BY ONLY <1>1, <1>2, <1>3, <1>4, ChildIs DEF u
<1>8. c \in 1 .. P
  BY <1>1, <1>4, <1>7 DEF KidsPlaced
<1>9. lo[c] \in Int /\ hi[c] \in Int /\ lo[c] < hi[c]
  BY <1>1, <1>8, PageIs
<1>10. lo[r] \in Int /\ hi[r] \in Int /\ lo[r] < hi[r]
  BY <1>1, PageIs
<1>11. hi \in [Pages -> Int] /\ c \in Pages /\ \A p \in 1 .. P : p \in Pages
  <2>1. hi \in [Pages -> Int]
    BY <1>1 DEF Shaped
  <2>2. P \in Nat /\ P <= MaxPages
    BY <1>1, SizesAre
  <2>3. \A p \in 1 .. P : p \in Pages
    BY ONLY <2>2, SizesAre DEF Pages
  <2> QED BY <1>8, <2>1, <2>3
<1>12. top[c] = hi[r] /\ \A q \in 1 .. P : q # c => hi[q] = top[q]
  BY <1>1, <1>11
<1>13. lo[c] < m /\ m < top[c] /\ hi[r] = top[c]
  BY <1>1, <1>9, <1>10, <1>12
<1> HIDE DEF u
<1>14. /\ ks \in Seq(Ints) /\ cs \in Seq(0 .. MaxPages) /\ Len(ks) = Len(os) + 1
       /\ KidsPlaced(ks, cs, l, h, v, lo, hi, lv, P)
  <2>1. u = UpperBound(os, k)
    BY DEF u
  <2>2. os \in Seq(Ints) /\ oc \in Seq(0 .. MaxPages) /\ l \in Int /\ h \in Int /\ l < h
        /\ P \in 0 .. MaxPages /\ k \in Int /\ l <= k /\ k < h
    BY <1>1, <1>2, <1>3
  <2>3. c = oc[u] /\ m \in Ints /\ r \in 1 .. P /\ lo[r] = m /\ lv[r] = lv[c] /\ hi[c] = m
    BY <1>1
  <2> QED BY ONLY <1>4, <1>5, <1>12, <1>13, <2>1, <2>2, <2>3, KidInserted
<1>15. SameTops(N, lv, P, a, top, hi)
  <2>1. SUFFICES ASSUME NEW p \in 1 .. P, p # a, lv[p] # 0, NEW i \in 1 .. Len(N[p].kids)
                 PROVE  hi[N[p].kids[i]] = top[N[p].kids[i]]
    BY DEF SameTops, TopsKept
  <2>2. KidsInside(N[p].kids, lo[p], hi[p], lv[p], lo, lv, P)
    BY <1>1, <2>1, PageKids
  <2>3. N[p].kids[i] \in 1 .. P
    BY <2>2 DEF KidsInside
  <2> QED BY <1>6, <1>12, <2>1, <2>3
<1> QED BY <1>14, <1>15 DEF TakenUp, o, os, l, h, v

(* InternalInsert                                                          *)
LEMMA KidInsertShaped ==
    ASSUME NEW N, NEW lo, NEW hi, NEW top, NEW lv, NEW P \in 0 .. MaxPages, NEW D, NEW a, NEW k, NEW c, NEW m, NEW r,
           TakesUp(N, lo, hi, top, lv, P, D, a, k, c, m, r),
           NEW ks, ks = InsertAt(N[a].keys, UpperBound(N[a].keys, k), m),
           NEW cs, cs = InsertAt(N[a].kids, UpperBound(N[a].keys, k) + 1, r),
           Len(ks) <= MaxKeys, NEW n, n = Internal(ks, cs)
    PROVE  /\ n \in Nodes /\ (Filled(N[a]) => Filled(n))
           /\ Shaped([N EXCEPT ![a] = n], lo, hi, hi, lv, P, D)
<1> DEFINE N2 == [N EXCEPT ![a] = n]
<1>1. TakenUp(N, lo, hi, top, lv, P, a, ks, cs)
  BY KidTaken
<1>2. /\ ks \in Seq(Ints) /\ cs \in Seq(0 .. MaxPages) /\ Len(ks) = Len(N[a].keys) + 1
      /\ KidsPlaced(ks, cs, lo[a], hi[a], lv[a], lo, hi, lv, P)
      /\ SameTops(N, lv, P, a, top, hi)
  BY <1>1 DEF TakenUp
<1>3. Shaped(N, lo, hi, top, lv, P, D) /\ a \in 1 .. P /\ lv[a] # 0
  BY DEF TakesUp
<1>4. n \in Nodes /\ ~n.leaf /\ n.keys = ks /\ n.kids = cs
  BY ONLY <1>2, n = Internal(ks, cs), InternalIs
<1>5. N[a] \in Nodes /\ a \in Pages /\ KidsRight(N[a], lo[a], hi[a], lv[a], lo, top, lv, P)
  BY <1>3, PageIs
<1>6. N2[a] = n
  BY <1>3, <1>5 DEF Shaped
<1> HIDE DEF N2
<1>7. PageRight(N2, lo, hi, hi, lv, P, D, a)
  BY <1>2, <1>3, <1>4, <1>6 DEF PageRight, KidsRight
<1>8. SameIds(lo, hi, lv, P, a, D, D)
  BY DEF SameIds
<1>9. Shaped(N2, lo, hi, hi, lv, P, D)
  <2>1. N2 = [N EXCEPT ![a] = n]
    BY DEF N2
  <2> QED BY ONLY P \in 0 .. MaxPages, <1>2, <1>3, <1>4, <1>7, <1>8, <2>1, Replaced
<1>10. Filled(N[a]) => Filled(n)
  <2>1. ~N[a].leaf /\ Len(N[a].keys) \in Nat
    BY <1>5, NodeIs DEF KidsRight
  <2> DEFINE b == MaxKeys - (MaxKeys + 1) \div 2
  <2>2. b \in Int
    BY SizesAre
  <2> HIDE DEF b
  <2>3. Len(N[a].keys) >= b => Len(ks) >= b
    BY <1>2, <2>1, <2>2
  <2> QED BY <1>4, <2>1, <2>3 DEF Filled, b
<1> QED BY <1>4, <1>9, <1>10 DEF N2

(* InternalSplit                                                           *)
LEMMA KidSplitShaped ==
    ASSUME NEW N, NEW lo, NEW hi, NEW top, NEW lv, NEW P \in 1 .. MaxPages - 1, NEW D,
           NEW a, NEW k, NEW c, NEW b, NEW q,
           TakesUp(N, lo, hi, top, lv, P, D, a, k, c, b, q),
           NEW ks, ks = InsertAt(N[a].keys, UpperBound(N[a].keys, k), b),
           NEW cs, cs = InsertAt(N[a].kids, UpperBound(N[a].keys, k) + 1, q),
           Len(ks) > MaxKeys, NEW half, half = SplitPoint(ks), NEW r, r = P + 1, NEW m, m = ks[half + 1],
           NEW n1, n1 = Internal(SubSeq(ks, 1, half), SubSeq(cs, 1, half + 1)),
           NEW n2, n2 = Internal(SubSeq(ks, half + 2, Len(ks)), SubSeq(cs, half + 2, Len(cs)))
    PROVE  PageSplit(N, lo, hi, lv, P, D, a, r, m, n1, n2)
<1> DEFINE l == lo[a]
           h == hi[a]
           v == lv[a]
           N2 == [N EXCEPT ![a] = n1, ![r] = n2]
           lo2 == CutLo(lo, r, m)
           hi2 == CutHi(hi, a, r, m)
           top2 == CutTop(hi, a, r)
           lv2 == CutLv(lv, a, r)
           k1 == SubSeq(ks, 1, half)
           c1 == SubSeq(cs, 1, half + 1)
           k2 == SubSeq(ks, half + 2, Len(ks))
           c2 == SubSeq(cs, half + 2, Len(cs))
<1>1. P \in 0 .. MaxPages /\ P \in Nat /\ r \in 0 .. MaxPages /\ P + 1 \in Nat /\ P <= P + 1
  BY SizesAre
<1>2. TakenUp(N, lo, hi, top, lv, P, a, ks, cs)
  BY <1>1, KidTaken
<1>3. /\ ks \in Seq(Ints) /\ cs \in Seq(0 .. MaxPages) /\ Len(ks) = Len(N[a].keys) + 1
      /\ KidsPlaced(ks, cs, l, h, v, lo, hi, lv, P)
      /\ SameTops(N, lv, P, a, top, hi)
  BY <1>2 DEF TakenUp
<1>4. Shaped(N, lo, hi, top, lv, P, D) /\ a \in 1 .. P /\ lv[a] # 0
  BY DEF TakesUp
<1>5. N[a] \in Nodes /\ a \in Pages /\ l \in Int /\ h \in Int /\ Len(N[a].keys) <= MaxKeys
  BY <1>1, <1>4, PageIs
<1>6. Len(ks) = MaxKeys + 1
  <2>1. Len(N[a].keys) \in Nat
    BY <1>5, NodeIs
  <2> QED BY <1>3, <1>5, <2>1, SizesAre
<1> HIDE DEF k1, k2, c1, c2, l, h, v
<1>7. /\ m \in Ints /\ l < m /\ m < h
      /\ k1 \in Seq(Ints) /\ c1 \in Seq(0 .. MaxPages) /\ k2 \in Seq(Ints) /\ c2 \in Seq(0 .. MaxPages)
      /\ KidsPlaced(k1, c1, l, m, v, lo, hi, lv, P) /\ KidsPlaced(k2, c2, m, h, v, lo, hi, lv, P)
      /\ Len(k1) <= MaxKeys /\ Len(k1) >= MaxKeys - (MaxKeys + 1) \div 2
      /\ Len(k2) <= MaxKeys /\ Len(k2) >= MaxKeys - (MaxKeys + 1) \div 2
  <2>1. k1 = SubSeq(ks, 1, half) /\ c1 = SubSeq(cs, 1, half + 1)
        /\ k2 = SubSeq(ks, half + 2, Len(ks)) /\ c2 = SubSeq(cs, half + 2, Len(cs))
    BY DEF k1, k2, c1, c2
  <2>2. l \in Int /\ h \in Int
    BY <1>5
  <2>3. KidsHalved(k1, c1, k2, c2, l, m, h, v, lo, hi, lv, P)
    BY ONLY <1>3, <1>6, <2>1, <2>2, half = SplitPoint(ks), m = ks[half + 1], KidHalves
  <2> QED BY <2>3 DEF KidsHalved
<1>8. n1 \in Nodes /\ ~n1.leaf /\ n1.keys = k1 /\ n1.kids = c1
  <2>1. n1 = Internal(k1, c1)
    BY DEF k1, c1
  <2> QED BY ONLY <1>7, <2>1, InternalIs
<1>9. n2 \in Nodes /\ ~n2.leaf /\ n2.keys = k2 /\ n2.kids = c2
  <2>1. n2 = Internal(k2, c2)
    BY DEF k2, c2
  <2> QED BY ONLY <1>7, <2>1, InternalIs
<1>10. Filled(n1) /\ Filled(n2)
  BY <1>7, <1>8, <1>9 DEF Filled
<1>11. m \in Int
  BY <1>7, IntsAre
<1>12. Cut(lo, hi, lv, P, a, r, m, lo2, hi2, lv2, top2)
  <2>1. lo \in [Pages -> Int] /\ hi \in [Pages -> Int] /\ lv \in [Pages -> Nat]
    BY <1>4 DEF Shaped
  <2> QED BY <1>4, <1>11, <2>1, CutIs
<1> HIDE DEF lo2, hi2, lv2, top2
<1>13. N2[a] = n1 /\ N2[r] = n2
  <2>1. N \in [Pages -> Nodes] /\ r \in Pages /\ r # a
    BY <1>4, <1>12 DEF Shaped, Cut
  <2> QED BY <1>5, <2>1
<1> HIDE DEF N2
<1>14. lo2[r] = m /\ lv2[r] = v /\ hi2[r] = h /\ hi2[a] = m /\ lo2[a] = l /\ lv2[a] = v /\ v # 0
  BY <1>4, <1>12 DEF Cut, h, l, v
<1>15. Kept(lo, lo2, lv, lv2, P)
  BY <1>12 DEF Cut, Kept
<1>16. ASSUME NEW x, NEW s, NEW y, NEW z, KidsPlaced(s, x, y, z, v, lo, hi, lv, P)
       PROVE  KidsPlaced(s, x, y, z, v, lo2, top2, lv2, P + 1)
  <2>1. TopsKept(x, hi, top2)
    BY <1>12, <1>16 DEF KidsPlaced, TopsKept, Cut
  <2> QED BY ONLY <1>1, <1>15, <1>16, <2>1, KidsMoved
<1>17. PageRight(N2, lo2, hi2, top2, lv2, P + 1, D, a)
  <2>1. KidsPlaced(k1, c1, l, m, v, lo2, top2, lv2, P + 1)
    BY <1>7, <1>16
  <2> QED BY <1>7, <1>8, <1>13, <1>14, <2>1 DEF PageRight, KidsRight
<1>18. PageRight(N2, lo2, hi2, top2, lv2, P + 1, D, r)
  <2>1. KidsPlaced(k2, c2, m, h, v, lo2, top2, lv2, P + 1)
    BY <1>7, <1>16
  <2> QED BY <1>7, <1>9, <1>13, <1>14, <2>1 DEF PageRight, KidsRight
<1>19. SameIds(lo, hi, lv, P, a, D, D)
  BY DEF SameIds
<1>20. lo[a] < m /\ m < hi[a]
  BY <1>7 DEF l, h
<1>21. Shaped(N2, lo2, hi2, top2, lv2, P + 1, D)
  <2>1. N2 = [N EXCEPT ![a] = n1, ![r] = n2]
    BY DEF N2
  <2>2. lo2 = CutLo(lo, r, m) /\ hi2 = CutHi(hi, a, r, m) /\ top2 = CutTop(hi, a, r) /\ lv2 = CutLv(lv, a, r)
    BY DEF lo2, hi2, lv2, top2
  <2> QED BY ONLY <1>3, <1>4, <1>8, <1>9, <1>11, <1>17, <1>18, <1>19, <1>20, <2>1, <2>2, SplitShaped,
                  P \in 1 .. MaxPages - 1, r = P + 1
<1> QED BY <1>7, <1>8, <1>9, <1>10, <1>21, <1>20 DEF N2, lo2, hi2, lv2, top2, PageSplit

(* NewRoot: page r above c and q.                                          *)
NeedsRoot(N, lo, hi, top, lv, P, D, c, q, m, r, n, hi2) ==
    /\ Shaped(N, lo, hi, top, lv, P, D)
    /\ c \in 1 .. P /\ q \in 1 .. P /\ q # c /\ m \in Ints /\ hi[c] = m /\ lo[q] = m /\ lv[q] = lv[c]
    /\ top = [hi EXCEPT ![c] = hi[q]] /\ lo[c] = Low /\ top[c] = High /\ \A p \in 1 .. P : lv[p] <= lv[c]
    /\ r = P + 1 /\ n = Internal(<<m>>, <<c, q>>) /\ hi2 = [hi EXCEPT ![r] = High]

RootAbove(N, lo, hi, lv, P, D, c, r, n) ==
    /\ n \in Nodes
    /\ Shaped([N EXCEPT ![r] = n], [lo EXCEPT ![r] = Low], hi, hi,
              [lv EXCEPT ![r] = lv[c] + 1], P + 1, D)

(* A new root above the two halves makes them known.                       *)
LEMMA NewRootShaped ==
    ASSUME NEW N, NEW lo, NEW hi, NEW top, NEW lv, NEW P \in 1 .. MaxPages - 1, NEW D, NEW c, NEW q, NEW m,
           NEW r, NEW n, NEW hi2, NeedsRoot(N, lo, hi, top, lv, P, D, c, q, m, r, n, hi2)
    PROVE  RootAbove(N, lo, hi2, lv, P, D, c, r, n)
<1> DEFINE N2 == [N EXCEPT ![r] = n]
           lo2 == [lo EXCEPT ![r] = Low]
           lv2 == [lv EXCEPT ![r] = lv[c] + 1]
<1> USE DEF NeedsRoot
<1>1. P \in 0 .. MaxPages /\ P \in Nat /\ r \in Pages /\ P + 1 \in P .. MaxPages /\ 0 \in 0 .. P
      /\ c \in Pages /\ q \in Pages /\ \A p \in 1 .. P : p \in Pages /\ p # r
  BY SizesAre DEF Pages
<1>2. /\ N \in [Pages -> Nodes] /\ lo \in [Pages -> Int] /\ hi \in [Pages -> Int] /\ lv \in [Pages -> Nat]
  BY DEF Shaped
<1>3. <<m>> \in Seq(Ints) /\ <<c, q>> \in Seq(0 .. MaxPages)
  <2>1. c \in 0 .. MaxPages /\ q \in 0 .. MaxPages
    BY <1>1, SizesAre
  <2> QED BY <2>1
<1>4. n \in Nodes /\ ~n.leaf /\ n.keys = <<m>> /\ n.kids = <<c, q>>
  <2>1. n = Internal(<<m>>, <<c, q>>)
    OBVIOUS
  <2> QED BY ONLY <1>3, <2>1, InternalIs
<1>5. N2 \in [Pages -> Nodes] /\ N2[r] = n /\ \A p \in 1 .. P : N2[p] = N[p]
  BY <1>1, <1>2, <1>4
<1>6. lo2 \in [Pages -> Int] /\ lo2[r] = Low /\ \A p \in 1 .. P : lo2[p] = lo[p]
  BY <1>1, <1>2, IntsAre
<1>7. hi2 \in [Pages -> Int] /\ hi2[r] = High /\ \A p \in 1 .. P : hi2[p] = hi[p]
  BY <1>1, <1>2, IntsAre
<1>8. lv2 \in [Pages -> Nat] /\ lv2[r] = lv[c] + 1 /\ \A p \in 1 .. P : lv2[p] = lv[p]
  BY <1>1, <1>2
<1> HIDE DEF N2, lo2, lv2
<1>9. \A p \in 1 .. P : /\ lo[p] \in Int /\ hi[p] \in Int /\ lv[p] \in Nat /\ Low <= lo[p] /\ lo[p] < hi[p]
                        /\ hi[p] <= High
  <2> TAKE p \in 1 .. P
  <2>1. /\ lo[p] \in Int /\ hi[p] \in Int /\ top[p] \in Int /\ lv[p] \in Nat
        /\ Low <= lo[p] /\ lo[p] < hi[p] /\ hi[p] <= top[p] /\ top[p] <= High
    BY <1>1, PageIs
  <2> QED BY ONLY <2>1, IntsAre
<1>10. Low < High /\ Low \in Int /\ High \in Int /\ Low <= Low /\ High <= High /\ m \in Int
  BY IntsAre, MachineIntAssumption DEF Low, High, MinInt
<1>11. top[c] = hi[q] /\ Low < m /\ m < High
  BY <1>1, <1>2, <1>9
<1>12. \A p \in 1 .. P + 1 : p \in 1 .. P \/ p = r
  BY <1>1
<1>13. \A p \in 1 .. P + 1 : RangeRight(lo2, hi2, hi2, p)
  <2> TAKE p \in 1 .. P + 1
  <2>1. CASE p = r
    BY <1>6, <1>7, <1>10, <2>1 DEF RangeRight
  <2>2. CASE p \in 1 .. P
    <3>1. lo2[p] = lo[p] /\ hi2[p] = hi[p] /\ hi[p] <= hi[p]
      BY <1>6, <1>7, <1>9, <2>2
    <3> QED BY <1>9, <2>2, <3>1 DEF RangeRight
  <2> QED BY <1>12, <2>1, <2>2
<1>14. KidsPlaced(<<m>>, <<c, q>>, Low, High, lv2[r], lo2, hi2, lv2, P + 1)
  <2> DEFINE ks == <<m>>
             cs == <<c, q>>
  <2>1. Len(ks) = 1 /\ ks[1] = m /\ Len(cs) = 2 /\ cs[1] = c /\ cs[2] = q
    OBVIOUS
  <2> HIDE DEF ks, cs
  <2>2. Ascending(ks) /\ (\A i \in 1 .. Len(ks) : Low < ks[i] /\ ks[i] < High) /\ Len(cs) = Len(ks) + 1
    BY <1>10, <1>11, <2>1 DEF Ascending
  <2>3. Edge(ks, Low, High, 0) = Low /\ Edge(ks, Low, High, 1) = m /\ Edge(ks, Low, High, 2) = High
    BY <2>1 DEF Edge
  <2>4. c \in 1 .. P + 1 /\ q \in 1 .. P + 1 /\ lv2[c] = lv2[r] - 1 /\ lv2[q] = lv2[r] - 1
    BY <1>1, <1>8, <1>9
  <2>5. lo2[c] = Low /\ hi2[c] = m /\ lo2[q] = m /\ hi2[q] = High
    BY <1>6, <1>7, <1>11
  <2>6. ASSUME NEW i \in 1 .. Len(cs)
        PROVE  /\ cs[i] \in 1 .. P + 1 /\ lv2[cs[i]] = lv2[r] - 1
               /\ lo2[cs[i]] = Edge(ks, Low, High, i - 1) /\ hi2[cs[i]] = Edge(ks, Low, High, i)
    <3>1. (i = 1 /\ i - 1 = 0) \/ (i = 2 /\ i - 1 = 1)
      BY <2>1
    <3> QED BY <2>1, <2>3, <2>4, <2>5, <3>1
  <2>7. KidsPlaced(ks, cs, Low, High, lv2[r], lo2, hi2, lv2, P + 1)
    BY <2>2, <2>6 DEF KidsPlaced
  <2> QED BY <2>7 DEF ks, cs
<1>15. PageRight(N2, lo2, hi2, hi2, lv2, P + 1, D, r)
  <2>1. Len(n.keys) <= MaxKeys
    <3>1. Len(<<m>>) = 1 /\ 1 <= MaxKeys
      BY SizesAre
    <3> QED BY <1>4, <3>1
  <2>2. lv2[r] # 0
    BY <1>8, <1>9
  <2> QED BY <1>4, <1>5, <1>6, <1>7, <1>14, <2>1, <2>2 DEF PageRight, KidsRight
<1>16. \A p \in 1 .. P + 1 : p = 0 \/ p > P => PageRight(N2, lo2, hi2, hi2, lv2, P + 1, D, p)
  <2> TAKE p \in 1 .. P + 1
  <2>1. p = 0 \/ p > P => p = r
    BY <1>1
  <2> QED BY <1>15, <2>1
<1>17. SameTops(N, lv, P, 0, top, hi2)
  <2>1. SUFFICES ASSUME NEW p \in 1 .. P, lv[p] # 0, NEW i \in 1 .. Len(N[p].kids)
                 PROVE  hi2[N[p].kids[i]] = top[N[p].kids[i]]
    BY DEF SameTops, TopsKept
  <2>2. KidsInside(N[p].kids, lo[p], hi[p], lv[p], lo, lv, P)
    BY <1>1, <2>1, PageKids
  <2>3. N[p].kids[i] \in 1 .. P /\ lv[N[p].kids[i]] = lv[p] - 1
    BY <2>2 DEF KidsInside
  <2>4. lv[p] - 1 # lv[c]
    BY <1>9
  <2>5. N[p].kids[i] # c
    BY <2>3, <2>4
  <2> QED BY <1>1, <1>2, <1>7, <2>3, <2>5
<1>18. SameIds(lo, hi, lv, P, 0, D, D)
  BY DEF SameIds
<1>19. ASSUME NEW p \in 1 .. P + 1, NEW z \in P + 1 .. P + 1, p # z, lv2[p] = lv2[z]
       PROVE  hi2[p] <= lo2[z] \/ hi2[z] <= lo2[p]
  <2>1. z = r /\ p \in 1 .. P
    BY <1>1, <1>19
  <2> QED BY <1>8, <1>9, <1>19, <2>1
<1> DEFINE P2 == P + 1
<1> HIDE DEF P2
<1>20. /\ P2 \in P .. MaxPages
       /\ \A p \in 1 .. P2 : RangeRight(lo2, hi2, hi2, p)
       /\ \A p \in 1 .. P2 : p = 0 \/ p > P => PageRight(N2, lo2, hi2, hi2, lv2, P2, D, p)
       /\ \A p \in 1 .. P2, z \in P + 1 .. P2 :
              p # z /\ lv2[p] = lv2[z] => hi2[p] <= lo2[z] \/ hi2[z] <= lo2[p]
  BY <1>1, <1>13, <1>16, <1>19 DEF P2
<1>21. Kept(lo, lo2, lv, lv2, P) /\ \A p \in 1 .. P : hi2[p] <= hi[p] /\ (p # 0 => N2[p] = N[p] /\ hi2[p] = hi[p])
  BY <1>5, <1>6, <1>7, <1>8, <1>9 DEF Kept
<1>22. Shaped(N2, lo2, hi2, hi2, lv2, P2, D)
  BY ONLY <1>1, <1>5, <1>6, <1>7, <1>8, <1>17, <1>18, <1>20, <1>21, Reshaped,
          Shaped(N, lo, hi, top, lv, P, D)
<1> QED BY <1>4, <1>22 DEF P2, N2, lo2, lv2, RootAbove

(* InsertFirst: the tree of one leaf.                                      *)
LEMMA FirstShaped ==
    ASSUME NEW node \in [Pages -> Nodes], NEW k \in Keys, NEW n, n = Leaf(<<k>>, <<ValueOf[k]>>, 0),
           NEW lo, lo = [p \in Pages |-> Low], NEW hi, hi = [p \in Pages |-> High],
           NEW lv, lv = [p \in Pages |-> 0]
    PROVE  n \in Nodes /\ Shaped([node EXCEPT ![1] = n], lo, hi, hi, lv, 1, {k})
<1> DEFINE N2 == [node EXCEPT ![1] = n]
           ks == <<k>>
           vs == <<ValueOf[k]>>
<1>1. k \in Int /\ k \in Ints /\ ValueOf[k] \in Values /\ Low <= k /\ k < High
  BY SizesAre, IntsAre DEF Values
<1>2. /\ ks \in Seq(Ints) /\ vs \in Seq(Values) /\ Len(ks) = 1 /\ Len(vs) = 1 /\ ks[1] = k /\ vs[1] = ValueOf[k]
      /\ DOMAIN ks = {1}
  BY <1>1
<1>3. 1 \in Pages /\ 0 \in 0 .. MaxPages /\ 1 <= MaxKeys /\ \A p \in 1 .. 1 : p = 1
  BY SizesAre DEF Pages
<1> HIDE DEF ks, vs
<1>4. n \in Nodes /\ n.leaf /\ n.keys = ks /\ n.vals = vs /\ n.next = 0
  <2>1. n = Leaf(ks, vs, 0)
    BY DEF ks, vs
  <2> QED BY ONLY <1>2, <1>3, <2>1, LeafIs
<1>5. N2 \in [Pages -> Nodes] /\ N2[1] = n
  BY <1>3, <1>4
<1> HIDE DEF N2
<1>6. lo \in [Pages -> Int] /\ hi \in [Pages -> Int] /\ lv \in [Pages -> Nat] /\ lo[1] = Low /\ hi[1] = High /\ lv[1] = 0
  BY <1>3, IntsAre
<1>7. RangeRight(lo, hi, hi, 1)
  <2>1. Low <= Low /\ Low < High /\ High <= High
    BY IntsAre, MachineIntAssumption DEF Low, High, MinInt
  <2> QED BY <1>6, <2>1 DEF RangeRight
<1>8. PairsRight(ks, vs, Low, High, {k})
  <2>1. Ascending(ks)
    BY <1>2 DEF Ascending
  <2>2. ToSet(ks) = {k}
    BY <1>2 DEF ToSet
  <2>3. {x \in {k} : Low <= x /\ x < High} = {k}
    BY <1>1
  <2>4. \A i \in 1 .. Len(ks) : vs[i] = ValueOf[ks[i]]
    BY <1>2
  <2> QED BY <1>2, <2>1, <2>2, <2>3, <2>4 DEF PairsRight
<1>9. PageRight(N2, lo, hi, hi, lv, 1, {k}, 1)
  <2>1. LinkRight(n, High, lo, lv, 1)
    BY <1>4 DEF LinkRight
  <2> QED BY <1>2, <1>3, <1>4, <1>5, <1>6, <1>8, <2>1 DEF PageRight, LeafRight
<1>10. Disjoint(lo, hi, lv, 1)
  BY <1>3 DEF Disjoint
<1> QED BY <1>3, <1>4, <1>5, <1>6, <1>7, <1>9, <1>10 DEF Shaped, N2

-----------------------------------------------------------------------------
(* Writing                                                                 *)

(* The fields of a write.                                                  *)
LEMMA WriteIs ==
    /\ \A h : HeaderWrite(h).kind = "header" /\ HeaderWrite(h).header = h
    /\ \A p, n : NodeWrite(p, n).kind = "node" /\ NodeWrite(p, n).page = p /\ NodeWrite(p, n).node = n
BY DEF HeaderWrite, NodeWrite

(* Nothing to write: the pages are what they will be.                      *)
LEMMA LeadsNowhere ==
    ASSUME NEW node \in [Pages -> Nodes], NEW N \in [Pages -> Nodes], Leads(node, <<>>, N)
    PROVE  N = node
<1>1. \A p \in Pages : WritesTo(<<>>, p) = {}
  BY DEF WritesTo
<1> QED BY <1>1 DEF Leads

(* Headers alone leave the pages as they are.                              *)
LEMMA LeadsToSelf ==
    ASSUME NEW node, NEW w, \A i \in 1 .. Len(w) : w[i].kind = "header"
    PROVE  Leads(node, w, node)
<1>1. \A p \in Pages : WritesTo(w, p) = {}
  BY DEF WritesTo
<1> QED BY <1>1 DEF Leads

(* One page is written.                                                    *)
LEMMA LeadsOne ==
    ASSUME NEW node \in [Pages -> Nodes], NEW a \in Pages, NEW n
    PROVE  Leads(node, <<NodeWrite(a, n)>>, [node EXCEPT ![a] = n])
<1> DEFINE w == <<NodeWrite(a, n)>>
           N == [node EXCEPT ![a] = n]
<1>1. Len(w) = 1 /\ w[1].kind = "node" /\ w[1].page = a /\ w[1].node = n
  BY WriteIs
<1> HIDE DEF w
<1>2. \A p \in Pages : p # a => WritesTo(w, p) = {}
  BY <1>1 DEF WritesTo
<1>3. WritesTo(w, a) = {1}
  BY <1>1 DEF WritesTo
<1>4. N[a] = n /\ \A p \in Pages : p # a => N[p] = node[p]
  OBVIOUS
<1> HIDE DEF N
<1>5. Leads(node, w, N)
  BY <1>1, <1>2, <1>3, <1>4 DEF Leads
<1> QED BY <1>5 DEF w, N

(* Short tuples, element by element.                                       *)
LEMMA Tuples ==
    /\ \A x, y, z : <<x, y>> \o <<z>> = <<x, y, z>>
    /\ \A x, y, z, t : <<x, y>> \o <<z, t>> = <<x, y, z, t>>
    /\ \A x, y, z : Len(<<x, y, z>>) = 3 /\ <<x, y, z>>[1] = x /\ <<x, y, z>>[2] = y /\ <<x, y, z>>[3] = z
    /\ \A x, y, z, t : /\ Len(<<x, y, z, t>>) = 4 /\ <<x, y, z, t>>[1] = x /\ <<x, y, z, t>>[2] = y
                       /\ <<x, y, z, t>>[3] = z /\ <<x, y, z, t>>[4] = t
<1>1. \A x, y, z : Len(<<x, y, z>>) = 3 /\ <<x, y, z>>[1] = x /\ <<x, y, z>>[2] = y /\ <<x, y, z>>[3] = z
  OBVIOUS
<1>2. \A x, y, z, t : /\ Len(<<x, y, z, t>>) = 4 /\ <<x, y, z, t>>[1] = x /\ <<x, y, z, t>>[2] = y
                      /\ <<x, y, z, t>>[3] = z /\ <<x, y, z, t>>[4] = t
  OBVIOUS
<1>3. ASSUME NEW x, NEW y, NEW z PROVE <<x, y>> \o <<z>> = <<x, y, z>>
  <2> DEFINE S == {x, y, z}
             a == <<x, y>>
             b == <<z>>
             w == a \o b
             v == <<x, y, z>>
  <2>1. a \in Seq(S) /\ b \in Seq(S) /\ v \in Seq(S)
    OBVIOUS
  <2>2. Len(a) = 2 /\ Len(b) = 1 /\ a[1] = x /\ a[2] = y /\ b[1] = z
    OBVIOUS
  <2>3. Len(v) = 3 /\ v[1] = x /\ v[2] = y /\ v[3] = z
    OBVIOUS
  <2> HIDE DEF a, b, v, S
  <2>4. /\ w \in Seq(S) /\ Len(w) = Len(a) + Len(b)
        /\ \A i \in 1 .. Len(a) : w[i] = a[i]
        /\ \A i \in 1 .. Len(b) : w[Len(a) + i] = b[i]
    BY <2>1, Concatenated
  <2> HIDE DEF w
  <2>5. Len(w) = 3 /\ w[1] = x /\ w[2] = y
    BY <2>2, <2>4
  <2>6. w[2 + 1] = z /\ 2 + 1 = 3
    BY <2>2, <2>4
  <2>7. \A i \in 1 .. Len(w) : w[i] = v[i]
    <3>1. \A i \in 1 .. Len(w) : i = 1 \/ i = 2 \/ i = 3
      BY <2>5
    <3> QED BY <2>3, <2>5, <2>6, <3>1
  <2>8. w = v
    BY <2>1, <2>3, <2>4, <2>5, <2>7, SeqEqual
  <2> QED BY <2>8 DEF w, v, a, b
<1>4. ASSUME NEW x, NEW y, NEW z, NEW t PROVE <<x, y>> \o <<z, t>> = <<x, y, z, t>>
  <2> DEFINE S == {x, y, z, t}
             a == <<x, y>>
             b == <<z, t>>
             w == a \o b
             v == <<x, y, z, t>>
  <2>1. a \in Seq(S) /\ b \in Seq(S) /\ v \in Seq(S)
    OBVIOUS
  <2>2. Len(a) = 2 /\ Len(b) = 2 /\ a[1] = x /\ a[2] = y /\ b[1] = z /\ b[2] = t
    OBVIOUS
  <2>3. Len(v) = 4 /\ v[1] = x /\ v[2] = y /\ v[3] = z /\ v[4] = t
    OBVIOUS
  <2> HIDE DEF a, b, v, S
  <2>4. /\ w \in Seq(S) /\ Len(w) = Len(a) + Len(b)
        /\ \A i \in 1 .. Len(a) : w[i] = a[i]
        /\ \A i \in 1 .. Len(b) : w[Len(a) + i] = b[i]
    BY <2>1, Concatenated
  <2> HIDE DEF w
  <2>5. Len(w) = 4 /\ w[1] = x /\ w[2] = y
    BY <2>2, <2>4
  <2>6. w[2 + 1] = z /\ 2 + 1 = 3 /\ w[2 + 2] = t /\ 2 + 2 = 4
    BY <2>2, <2>4
  <2>7. \A i \in 1 .. Len(w) : w[i] = v[i]
    <3>1. \A i \in 1 .. Len(w) : i = 1 \/ i = 2 \/ i = 3 \/ i = 4
      BY <2>5
    <3> QED BY <2>3, <2>5, <2>6, <3>1
  <2>8. w = v
    BY <2>1, <2>3, <2>4, <2>5, <2>7, SeqEqual
  <2> QED BY <2>8 DEF w, v, a, b
<1> QED BY <1>1, <1>2, <1>3, <1>4

(* A new page r is written, zero first, perhaps after a page a.            *)
LEMMA LeadsAllocated ==
    ASSUME NEW node \in [Pages -> Nodes], NEW r \in Pages, NEW h, h.pages = r, NEW n, NEW w,
           w = AllocateWrites(h) \o <<NodeWrite(r, n)>>
             \/ \E g : w = AllocateWrites(h) \o <<NodeWrite(r, n), HeaderWrite(g)>>
    PROVE  Leads(node, w, [node EXCEPT ![r] = n])
<1> DEFINE N == [node EXCEPT ![r] = n]
<1>1. /\ Len(w) \in {3, 4} /\ w[1].kind = "header"
      /\ w[2].kind = "node" /\ w[2].page = r
      /\ w[3].kind = "node" /\ w[3].page = r /\ w[3].node = n
      /\ Len(w) = 4 => w[4].kind = "header"
  <2> DEFINE x == HeaderWrite(h)
             y == NodeWrite(r, ZeroNode)
             z == NodeWrite(r, n)
  <2>1. /\ x.kind = "header" /\ y.kind = "node" /\ y.page = r /\ z.kind = "node" /\ z.page = r /\ z.node = n
        /\ \A g : HeaderWrite(g).kind = "header"
    BY WriteIs
  <2>2. AllocateWrites(h) = <<x, y>>
    BY DEF AllocateWrites
  <2> HIDE DEF x, y
  <2>3. CASE w = AllocateWrites(h) \o <<z>>
    <3> HIDE DEF z
    <3>1. w = <<x, y, z>>
      BY <2>2, <2>3, Tuples
    <3>2. Len(w) = 3 /\ w[1] = x /\ w[2] = y /\ w[3] = z
      BY <3>1, Tuples
    <3> QED BY <2>1, <3>2
  <2>4. CASE \E g : w = AllocateWrites(h) \o <<z, HeaderWrite(g)>>
    <3> HIDE DEF z
    <3>1. PICK g : w = AllocateWrites(h) \o <<z, HeaderWrite(g)>>
      BY <2>4
    <3>2. w = <<x, y, z, HeaderWrite(g)>>
      BY <2>2, <3>1, Tuples
    <3>3. Len(w) = 4 /\ w[1] = x /\ w[2] = y /\ w[3] = z /\ w[4] = HeaderWrite(g)
      BY <3>2, Tuples
    <3> QED BY <2>1, <3>3
  <2> QED BY <2>3, <2>4
<1>2. \A i \in 1 .. Len(w) : i = 1 \/ i = 2 \/ i = 3 \/ (i = 4 /\ Len(w) = 4)
  <2>1. Len(w) = 3 \/ Len(w) = 4
    BY <1>1
  <2> DEFINE c == Len(w)
  <2> HIDE DEF c
  <2>2. \A i \in 1 .. c : i = 1 \/ i = 2 \/ i = 3 \/ (i = 4 /\ c = 4)
    <3>1. c = 3 \/ c = 4
      BY <2>1 DEF c
    <3>2. CASE c = 3
      BY ONLY <3>2
    <3>3. CASE c = 4
      BY ONLY <3>3
    <3> QED BY <3>1, <3>2, <3>3
  <2> QED BY <2>2 DEF c
<1>3. \A p \in Pages : p # r => WritesTo(w, p) = {}
  BY <1>1, <1>2 DEF WritesTo
<1>4. WritesTo(w, r) = {2, 3}
  BY <1>1, <1>2 DEF WritesTo
<1>5. N[r] = n /\ \A p \in Pages : p # r => N[p] = node[p]
  OBVIOUS
<1> HIDE DEF N
<1>6. Leads(node, w, N)
  BY ONLY <1>1, <1>3, <1>4, <1>5 DEF Leads
<1> QED BY <1>6 DEF N

(* The writes of a split lead to the pages with both halves.               *)
LEMMA LeadsSplit ==
    ASSUME NEW node \in [Pages -> Nodes], NEW r \in Pages, NEW h, h.pages = r,
           NEW a \in Pages, a # r, NEW n1, NEW n2, NEW w,
           w = AllocateWrites(h) \o <<NodeWrite(a, n1), NodeWrite(r, n2)>>
    PROVE  Leads(node, w, [node EXCEPT ![a] = n1, ![r] = n2])
<1> DEFINE N == [node EXCEPT ![a] = n1, ![r] = n2]
<1>1. /\ Len(w) = 4 /\ w[1].kind = "header"
      /\ w[2].kind = "node" /\ w[2].page = r
      /\ w[3].kind = "node" /\ w[3].page = a /\ w[3].node = n1
      /\ w[4].kind = "node" /\ w[4].page = r /\ w[4].node = n2
  <2> DEFINE x == HeaderWrite(h)
             y == NodeWrite(r, ZeroNode)
             z == NodeWrite(a, n1)
             t == NodeWrite(r, n2)
  <2>1. /\ x.kind = "header" /\ y.kind = "node" /\ y.page = r /\ z.kind = "node" /\ z.page = a /\ z.node = n1
        /\ t.kind = "node" /\ t.page = r /\ t.node = n2
    BY WriteIs
  <2>2. AllocateWrites(h) = <<x, y>>
    BY DEF AllocateWrites
  <2>3. w = AllocateWrites(h) \o <<z, t>>
    OBVIOUS
  <2> HIDE DEF x, y, z, t
  <2>4. w = <<x, y, z, t>>
    BY ONLY <2>2, <2>3, Tuples
  <2>5. Len(w) = 4 /\ w[1] = x /\ w[2] = y /\ w[3] = z /\ w[4] = t
    BY ONLY <2>4, Tuples
  <2> QED BY ONLY <2>1, <2>5
<1>2. \A i \in 1 .. Len(w) : i = 1 \/ i = 2 \/ i = 3 \/ i = 4
  BY <1>1
<1>3. \A p \in Pages : p # r /\ p # a => WritesTo(w, p) = {}
  BY <1>1, <1>2 DEF WritesTo
<1>4. WritesTo(w, r) = {2, 4}
  BY <1>1, <1>2 DEF WritesTo
<1>5. WritesTo(w, a) = {3}
  BY <1>1, <1>2 DEF WritesTo
<1>6. N[r] = n2 /\ N[a] = n1 /\ \A p \in Pages : p # r /\ p # a => N[p] = node[p]
  OBVIOUS
<1> HIDE DEF N
<1>7. Leads(node, w, N)
  BY ONLY <1>1, <1>3, <1>4, <1>5, <1>6 DEF Leads
<1> QED BY <1>7 DEF N

(* Doing the first of the writes leads nowhere else.                       *)
LEMMA LeadsOn ==
    ASSUME NEW node \in [Pages -> Nodes], NEW N, NEW w \in Seq(Writes), w # <<>>, Leads(node, w, N),
           NEW node2, node2 = IF w[1].kind = "node" THEN [node EXCEPT ![w[1].page] = w[1].node] ELSE node
    PROVE  Leads(node2, Tail(w), N)
<1> DEFINE t == Tail(w)
           c == Len(w)
<1>1. c \in Nat /\ c >= 1 /\ t \in Seq(Writes) /\ Len(t) = c - 1 /\ \A i \in 1 .. c - 1 : t[i] = w[i + 1]
  OBVIOUS
<1> HIDE DEF t, c
<1>2. SUFFICES ASSUME NEW p \in Pages
               PROVE  /\ WritesTo(t, p) = {} => N[p] = node2[p]
                      /\ \A i \in WritesTo(t, p) :
                            (\A j \in WritesTo(t, p) : j <= i) => N[p] = t[i].node
  BY DEF Leads, t
<1>3. \A i \in 1 .. c - 1 : i \in WritesTo(t, p) <=> i + 1 \in WritesTo(w, p)
  <2> TAKE i \in 1 .. c - 1
  <2>1. i + 1 \in 1 .. c /\ t[i] = w[i + 1]
    BY <1>1
  <2> QED BY <1>1, <2>1 DEF WritesTo, c
<1>4. \A j \in WritesTo(w, p) : j = 1 \/ (j - 1 \in 1 .. c - 1 /\ (j - 1) + 1 = j)
  BY <1>1 DEF WritesTo, c
<1>5. WritesTo(t, p) \subseteq 1 .. c - 1
  BY <1>1 DEF WritesTo
<1>6. 1 \in WritesTo(w, p) <=> w[1].kind = "node" /\ w[1].page = p
  BY <1>1 DEF WritesTo, c
<1>7. ASSUME WritesTo(t, p) = {} PROVE N[p] = node2[p]
  <2>1. \A j \in WritesTo(w, p) : j = 1
    BY <1>3, <1>4, <1>7
  <2>2. CASE 1 \in WritesTo(w, p)
    <3>1. N[p] = w[1].node
      BY <2>1, <2>2 DEF Leads
    <3> QED BY <1>6, <2>2, <3>1
  <2>3. CASE 1 \notin WritesTo(w, p)
    <3>1. WritesTo(w, p) = {}
      BY <2>1, <2>3
    <3>2. N[p] = node[p]
      BY <3>1 DEF Leads
    <3> QED BY <1>6, <2>3, <3>2
  <2> QED BY <2>2, <2>3
<1>8. ASSUME NEW i \in WritesTo(t, p), \A j \in WritesTo(t, p) : j <= i PROVE N[p] = t[i].node
  <2>1. i \in 1 .. c - 1 /\ i + 1 \in WritesTo(w, p) /\ t[i] = w[i + 1]
    BY <1>1, <1>3, <1>5
  <2>2. ASSUME NEW j \in WritesTo(w, p) PROVE j <= i + 1
    <3>1. CASE j = 1
      BY <1>1, <2>1, <3>1
    <3>2. CASE j # 1
      <4>1. j - 1 \in WritesTo(t, p) /\ j - 1 \in 1 .. c - 1 /\ (j - 1) + 1 = j
        BY <1>3, <1>4, <3>2
      <4>2. j - 1 <= i
        BY <1>8, <4>1
      <4> QED BY <1>1, <2>1, <4>1, <4>2
    <3> QED BY <3>1, <3>2
  <2>3. N[p] = w[i + 1].node
    BY <2>1, <2>2 DEF Leads
  <2> QED BY <2>1, <2>3
<1> QED BY <1>7, <1>8

(* GrownRight in the next state, from the parts of that state.             *)
LEMMA GrownNext ==
    ASSUME NEW N, NEW lo, NEW hi, NEW top, NEW lv, NEW D,
           Grown(N, lo, hi, top, lv, D, file'.node, todo', tree', pc', path', key', carry', want')
    PROVE  GrownRight(N, lo, hi, top, lv, D)'
BY DEF GrownRight

(* A next state of which Grown holds has GrownRight.                       *)
LEMMA NewGrown ==
    ASSUME \E N, lo, hi, top, lv, D :
              Grown(N, lo, hi, top, lv, D, file'.node, todo', tree', pc', path', key', carry', want')
    PROVE  (\E N, lo, hi, top, lv, D : GrownRight(N, lo, hi, top, lv, D))'
BY DEF GrownRight

(* The fields of a header.                                                 *)
LEMMA HeaderIs ==
    ASSUME NEW h \in Headers
    PROVE  /\ h.root \in 0 .. MaxPages /\ h.first \in 0 .. MaxPages /\ h.pages \in 0 .. MaxPages
           /\ h.size \in Nat /\ h.nextId \in Ints /\ h.nextId \in Int
           /\ h = [root |-> h.root, first |-> h.first, pages |-> h.pages, size |-> h.size, nextId |-> h.nextId]
<1>1. /\ h.root \in 0 .. MaxPages /\ h.first \in 0 .. MaxPages /\ h.pages \in 0 .. MaxPages
      /\ h.size \in Nat /\ h.nextId \in Ints
      /\ h = [root |-> h.root, first |-> h.first, pages |-> h.pages, size |-> h.size, nextId |-> h.nextId]
  BY DEF Headers
<1> QED BY <1>1, IntsAre

(* NextIdAfter stays in the ints, above the key unless that is MaxInt.     *)
LEMMA NextIdIs ==
    ASSUME NEW a \in Ints, NEW k \in Ints
    PROVE  /\ NextIdAfter(a, k) \in Ints
           /\ k # MaxInt => k < NextIdAfter(a, k) /\ a <= NextIdAfter(a, k)
BY MachineIntAssumption DEF NextIdAfter, Increment, Ints, MinInt

(* The header after allocate_page, after an insert, and after a new root.  *)
LEMMA HeaderSteps ==
    ASSUME NEW h \in Headers
    PROVE  /\ h.pages < MaxPages =>
                /\ Allocated(h) \in Headers /\ Allocated(h).pages = h.pages + 1 /\ Allocated(h).root = h.root
                /\ Allocated(h).first = h.first /\ Allocated(h).size = h.size /\ Allocated(h).nextId = h.nextId
           /\ \A p \in 0 .. MaxPages : LET g == [h EXCEPT !.root = p]
                 IN  /\ g \in Headers /\ g.root = p /\ g.pages = h.pages
                     /\ g.first = h.first /\ g.size = h.size /\ g.nextId = h.nextId
           /\ \A k \in Ints : LET g == [h EXCEPT !.size = @ + 1, !.nextId = NextIdAfter(@, k)]
                 IN  /\ g \in Headers /\ g.root = h.root /\ g.pages = h.pages
                     /\ g.first = h.first /\ g.size = h.size + 1 /\ g.nextId = NextIdAfter(h.nextId, k)
           /\ \A p \in 0 .. MaxPages, k \in Ints :
                 LET g == [h EXCEPT !.root = p, !.first = p, !.size = 1, !.nextId = NextIdAfter(@, k)]
                 IN  /\ g \in Headers /\ g.root = p /\ g.pages = h.pages
                     /\ g.first = p /\ g.size = 1 /\ g.nextId = NextIdAfter(h.nextId, k)
<1>1. /\ h.root \in 0 .. MaxPages /\ h.first \in 0 .. MaxPages /\ h.pages \in 0 .. MaxPages
      /\ h.size \in Nat /\ h.nextId \in Ints
      /\ h = [root |-> h.root, first |-> h.first, pages |-> h.pages, size |-> h.size, nextId |-> h.nextId]
  BY HeaderIs
<1>2. ASSUME h.pages < MaxPages
      PROVE  /\ Allocated(h) \in Headers /\ Allocated(h).pages = h.pages + 1 /\ Allocated(h).root = h.root
             /\ Allocated(h).first = h.first /\ Allocated(h).size = h.size /\ Allocated(h).nextId = h.nextId
  <2>1. h.pages + 1 \in 0 .. MaxPages
    BY <1>1, <1>2, SizesAre
  <2> QED BY <1>1, <2>1 DEF Allocated, Headers
<1>3. ASSUME NEW p \in 0 .. MaxPages
      PROVE  LET g == [h EXCEPT !.root = p]
             IN  /\ g \in Headers /\ g.root = p /\ g.pages = h.pages
                 /\ g.first = h.first /\ g.size = h.size /\ g.nextId = h.nextId
  BY <1>1 DEF Headers
<1>4. ASSUME NEW k \in Ints
      PROVE  LET g == [h EXCEPT !.size = @ + 1, !.nextId = NextIdAfter(@, k)]
             IN  /\ g \in Headers /\ g.root = h.root /\ g.pages = h.pages
                 /\ g.first = h.first /\ g.size = h.size + 1 /\ g.nextId = NextIdAfter(h.nextId, k)
  <2> DEFINE n == NextIdAfter(h.nextId, k)
             s == h.size + 1
             g == [h EXCEPT !.size = s, !.nextId = n]
  <2>1. n \in Ints /\ s \in Nat
    BY <1>1, NextIdIs
  <2>2. g = [h EXCEPT !.size = @ + 1, !.nextId = NextIdAfter(@, k)]
    OBVIOUS
  <2>3. g \in Headers /\ g.root = h.root /\ g.pages = h.pages /\ g.first = h.first /\ g.size = s /\ g.nextId = n
    <3> HIDE DEF n, s
    <3> QED BY <2>1 DEF Headers
  <2> QED BY ONLY <2>2, <2>3
<1>5. ASSUME NEW p \in 0 .. MaxPages, NEW k \in Ints
      PROVE  LET g == [h EXCEPT !.root = p, !.first = p, !.size = 1, !.nextId = NextIdAfter(@, k)]
             IN  /\ g \in Headers /\ g.root = p /\ g.pages = h.pages
                 /\ g.first = p /\ g.size = 1 /\ g.nextId = NextIdAfter(h.nextId, k)
  <2>1. NextIdAfter(h.nextId, k) \in Ints
    BY <1>1, NextIdIs
  <2> QED BY <1>1, <2>1 DEF Headers
<1> QED BY <1>2, <1>3, <1>4, <1>5

(* The writes of an insert have their type.                                *)
LEMMA WritesAre ==
    /\ ZeroNode \in Nodes /\ EmptyHeader \in Headers
    /\ \A h \in Headers : HeaderWrite(h) \in Writes
    /\ \A p \in 0 .. MaxPages, n \in Nodes : NodeWrite(p, n) \in Writes
<1>1. ZeroNode \in Nodes
  <2>1. <<>> \in Seq(Ints) /\ <<>> \in Seq(Values) /\ <<0>> \in Seq(0 .. MaxPages) /\ 0 \in 0 .. MaxPages
    BY SizesAre
  <2> QED BY <2>1 DEF ZeroNode, Nodes
<1>2. EmptyHeader \in Headers
  <2>1. 0 \in 0 .. MaxPages /\ 1 \in Ints
    BY SizesAre, MachineIntAssumption DEF Ints, MinInt
  <2> QED BY <2>1 DEF EmptyHeader, Headers
<1>3. 0 \in 0 .. MaxPages
  BY SizesAre
<1> QED BY <1>1, <1>2, <1>3 DEF HeaderWrite, NodeWrite, Writes

(* The writes of each step.                                                *)
LEMMA StepWrites ==
    ASSUME NEW g \in Headers
    PROVE  /\ AllocateWrites(g) = <<HeaderWrite(g), NodeWrite(g.pages, ZeroNode)>>
           /\ \A x \in Writes : AllocateWrites(g) \o <<x>> \in Seq(Writes)
           /\ \A x, y \in Writes : AllocateWrites(g) \o <<x, y>> \in Seq(Writes)
           /\ \A x : LET w == AllocateWrites(g) \o <<x>>
                     IN  Len(w) = 3 /\ w[1] = HeaderWrite(g) /\ w[2].kind = "node" /\ w[3] = x
           /\ \A x, y : LET w == AllocateWrites(g) \o <<x, y>>
                        IN  Len(w) = 4 /\ w[1] = HeaderWrite(g) /\ w[2].kind = "node" /\ w[3] = x /\ w[4] = y
<1> DEFINE a == HeaderWrite(g)
           b == NodeWrite(g.pages, ZeroNode)
<1>1. a \in Writes /\ b \in Writes /\ b.kind = "node"
  <2>1. g.pages \in 0 .. MaxPages
    BY HeaderIs
  <2> QED BY <2>1, WritesAre, WriteIs
<1>2. AllocateWrites(g) = <<a, b>>
  BY DEF AllocateWrites
<1> HIDE DEF a, b
<1>3. \A x : AllocateWrites(g) \o <<x>> = <<a, b, x>>
  BY <1>2, Tuples
<1>4. \A x, y : AllocateWrites(g) \o <<x, y>> = <<a, b, x, y>>
  BY <1>2, Tuples
<1>5. \A x \in Writes : <<a, b, x>> \in Seq(Writes)
  BY <1>1
<1>6. \A x, y \in Writes : <<a, b, x, y>> \in Seq(Writes)
  BY <1>1
<1>7. \A x : \A w : w = <<a, b, x>> => Len(w) = 3 /\ w[1] = a /\ w[2].kind = "node" /\ w[3] = x
  <2> TAKE x
  <2>1. Len(<<a, b, x>>) = 3 /\ <<a, b, x>>[1] = a /\ <<a, b, x>>[2] = b /\ <<a, b, x>>[3] = x
    BY ONLY Tuples
  <2> QED BY ONLY <1>1, <2>1
<1>8. \A x, y : \A w : w = <<a, b, x, y>> =>
                Len(w) = 4 /\ w[1] = a /\ w[2].kind = "node" /\ w[3] = x /\ w[4] = y
  <2> TAKE x, y
  <2>1. /\ Len(<<a, b, x, y>>) = 4 /\ <<a, b, x, y>>[1] = a /\ <<a, b, x, y>>[2] = b
        /\ <<a, b, x, y>>[3] = x /\ <<a, b, x, y>>[4] = y
    BY ONLY Tuples
  <2> QED BY ONLY <1>1, <2>1
<1>9. \A x : LET w == AllocateWrites(g) \o <<x>> IN Len(w) = 3 /\ w[1] = a /\ w[2].kind = "node" /\ w[3] = x
  <2> TAKE x
  <2> QED BY ONLY <1>3, <1>7, Zenon
<1>10. \A x, y : LET w == AllocateWrites(g) \o <<x, y>>
                 IN  Len(w) = 4 /\ w[1] = a /\ w[2].kind = "node" /\ w[3] = x /\ w[4] = y
  <2> TAKE x, y
  <2>1. AllocateWrites(g) \o <<x, y>> = <<a, b, x, y>>
    BY ONLY <1>4
  <2>2. \A w : w = <<a, b, x, y>> => Len(w) = 4 /\ w[1] = a /\ w[2].kind = "node" /\ w[3] = x /\ w[4] = y
    BY ONLY <1>8
  <2> QED BY ONLY <2>1, <2>2, Zenon
<1>11. (\A x \in Writes : AllocateWrites(g) \o <<x>> \in Seq(Writes))
       /\ \A x, y \in Writes : AllocateWrites(g) \o <<x, y>> \in Seq(Writes)
  BY ONLY <1>3, <1>4, <1>5, <1>6, Zenon
<1> QED BY ONLY <1>2, <1>9, <1>10, <1>11, Zenon DEF a, b

(* The parts of a file.                                                    *)
LEMMA FileIs ==
    ASSUME NEW f \in Files
    PROVE  f.header \in Headers /\ f.node \in [Pages -> Nodes]
BY DEF Files

(* A file after a write.                                                   *)
LEMMA FileSteps ==
    ASSUME NEW f \in Files
    PROVE  /\ \A h \in Headers : LET g == [f EXCEPT !.header = h]
                                 IN  g \in Files /\ g.header = h /\ g.node = f.node
           /\ \A n \in Nodes : \A p : LET g == [f EXCEPT !.node[p] = n]
                                        IN  g \in Files /\ g.header = f.header /\ g.node = [f.node EXCEPT ![p] = n]
<1>1. ASSUME NEW h \in Headers
      PROVE  LET g == [f EXCEPT !.header = h]
             IN  g \in Files /\ g.header = h /\ g.node = f.node
  BY FileIs DEF Files
<1>2. ASSUME NEW n \in Nodes, NEW p
      PROVE  LET g == [f EXCEPT !.node[p] = n]
             IN  g \in Files /\ g.header = f.header /\ g.node = [f.node EXCEPT ![p] = n]
  <2>1. [f.node EXCEPT ![p] = n] \in [Pages -> Nodes]
    BY FileIs
  <2> QED BY <2>1, FileIs DEF Files
<1> QED BY <1>1, <1>2

(* The last page of a path and the pages before it.                        *)
LEMMA PathIs ==
    ASSUME NEW s \in Seq(Pages), s # <<>>
    PROVE  /\ Len(s) \in Nat /\ Len(s) >= 1 /\ Last(s) = s[Len(s)] /\ Last(s) \in Pages
           /\ Front(s) \in Seq(Pages) /\ Len(Front(s)) = Len(s) - 1
           /\ \A j \in 1 .. Len(s) - 1 : Front(s)[j] = s[j]
           /\ Front(s) = <<>> <=> Len(s) = 1
<1>1. Len(s) \in Nat /\ Len(s) >= 1 /\ s[Len(s)] \in Pages
  BY EmptySeq
<1>2. Front(s) \in Seq(Pages) /\ Len(Front(s)) = Len(s) - 1 /\ \A j \in 1 .. Len(s) - 1 : Front(s)[j] = s[j]
  <2> DEFINE n == Len(s) - 1
  <2>1. 1 \in 1 .. Len(s) + 1 /\ n \in 1 - 1 .. Len(s)
    BY ONLY <1>1
  <2>2. /\ SubSeq(s, 1, n) \in Seq(Pages) /\ Len(SubSeq(s, 1, n)) = n - 1 + 1
        /\ \A i \in 1 .. n - 1 + 1 : SubSeq(s, 1, n)[i] = s[1 - 1 + i]
    BY <2>1, Stretch
  <2>3. n - 1 + 1 = n /\ \A i \in 1 .. n : i \in 1 .. n - 1 + 1 /\ 1 - 1 + i = i
    BY ONLY <1>1
  <2> HIDE DEF n
  <2>4. SubSeq(s, 1, n) \in Seq(Pages) /\ Len(SubSeq(s, 1, n)) = n /\ \A j \in 1 .. n : SubSeq(s, 1, n)[j] = s[j]
    BY ONLY <2>2, <2>3
  <2> QED BY <2>4 DEF Front, n
<1>3. Front(s) = <<>> <=> Len(s) = 1
  BY <1>1, <1>2, EmptySeq
<1> QED BY <1>1, <1>2, <1>3 DEF Last

(* Every page of the path has a level of its own.                          *)
PathEnds(N, lo, hi, lv, P, root, s, k) ==
    /\ Last(s) \in 1 .. P /\ lo[Last(s)] <= k /\ k < hi[Last(s)]
    /\ lv[Last(s)] + Len(s) = lv[root] + 1
    /\ \A j \in 1 .. Len(s) - 1 : s[j] \in 1 .. P /\ s[j] # Last(s)
    /\ Len(s) = 1 => Last(s) = root
    /\ Len(s) # 1 => Last(s) # root /\ Last(s) = Child(N[Last(Front(s))], k)
                     /\ Last(Front(s)) = s[Len(s) - 1]
    /\ PathRight(N, lo, hi, lv, P, root, Front(s), k)

(* So the last one is none of the others.                                  *)
LEMMA PathLevels ==
    ASSUME NEW N, NEW lo, NEW hi, NEW lv \in [Pages -> Nat], NEW P \in 0 .. MaxPages, NEW root \in 1 .. P,
           NEW s \in Seq(Pages), s # <<>>, NEW k, PathRight(N, lo, hi, lv, P, root, s, k)
    PROVE  PathEnds(N, lo, hi, lv, P, root, s, k)
<1>1. /\ Len(s) \in Nat /\ Len(s) >= 1 /\ Last(s) = s[Len(s)]
      /\ Front(s) \in Seq(Pages) /\ Len(Front(s)) = Len(s) - 1
      /\ \A j \in 1 .. Len(s) - 1 : Front(s)[j] = s[j]
      /\ Front(s) = <<>> <=> Len(s) = 1
  BY PathIs
<1>2. MaxPages \in Nat /\ \A p \in 1 .. P : p \in Pages /\ lv[p] \in Nat
  BY SizesAre DEF Pages
<1>3. \A j \in 1 .. Len(s) : s[j] \in 1 .. P /\ lo[s[j]] <= k /\ k < hi[s[j]] /\ lv[s[j]] + j = lv[root] + 1
  BY DEF PathRight
<1>4. s[1] = root /\ \A j \in 1 .. Len(s) - 1 : s[j + 1] = Child(N[s[j]], k)
  BY DEF PathRight
<1>5. Len(s) \in 1 .. Len(s)
  BY <1>1
<1>6. ASSUME NEW j \in 1 .. Len(s) - 1 PROVE s[j] \in 1 .. P /\ s[j] # Last(s)
  <2>1. j \in 1 .. Len(s) /\ j # Len(s) /\ j \in Nat
    BY <1>1
  <2>2. lv[s[j]] + j = lv[root] + 1 /\ lv[s[Len(s)]] + Len(s) = lv[root] + 1
        /\ s[j] \in 1 .. P /\ s[Len(s)] \in 1 .. P
    BY <2>1, <1>3, <1>5
  <2>3. lv[s[j]] \in Nat /\ lv[s[Len(s)]] \in Nat /\ lv[root] \in Nat
    BY <2>2, <1>2
  <2>4. lv[s[j]] # lv[s[Len(s)]]
    BY ONLY <2>1, <2>2, <2>3, <1>1
  <2> QED BY <2>2, <2>4, <1>1
<1>7. ASSUME Len(s) # 1
      PROVE  Last(s) # root /\ Last(s) = Child(N[Last(Front(s))], k) /\ Last(Front(s)) = s[Len(s) - 1]
  <2>1. 1 \in 1 .. Len(s) - 1 /\ Len(s) - 1 \in 1 .. Len(s) - 1 /\ (Len(s) - 1) + 1 = Len(s)
    BY <1>1, <1>7
  <2>2. Last(s) # root
    BY <2>1, <1>6, <1>4
  <2>3. Last(Front(s)) = s[Len(s) - 1]
    BY <2>1, <1>1 DEF Last
  <2>4. s[Len(s)] = Child(N[s[Len(s) - 1]], k)
    BY <2>1, <1>4
  <2> QED BY <2>2, <2>3, <2>4, <1>1
<1>8. PathRight(N, lo, hi, lv, P, root, Front(s), k)
  <2> DEFINE f == Front(s)
             n == Len(s)
  <2>1. n \in Nat /\ n >= 1 /\ Len(f) = n - 1 /\ (\A j \in 1 .. n - 1 : f[j] = s[j]) /\ (f = <<>> <=> n = 1)
    BY <1>1
  <2>2. \A j \in 1 .. n : s[j] \in 1 .. P /\ lo[s[j]] <= k /\ k < hi[s[j]] /\ lv[s[j]] + j = lv[root] + 1
    BY <1>3
  <2>3. s[1] = root /\ \A j \in 1 .. n - 1 : s[j + 1] = Child(N[s[j]], k)
    BY <1>4
  <2> HIDE DEF f, n
  <2>4. \A j \in 1 .. Len(f) : j \in 1 .. n /\ f[j] = s[j]
    BY ONLY <2>1
  <2>5. \A j \in 1 .. Len(f) :
          f[j] \in 1 .. P /\ lo[f[j]] <= k /\ k < hi[f[j]] /\ lv[f[j]] + j = lv[root] + 1
    <3> TAKE j \in 1 .. Len(f)
    <3>1. j \in 1 .. n /\ f[j] = s[j]
      BY ONLY <2>4
    <3>2. s[j] \in 1 .. P /\ lo[s[j]] <= k /\ k < hi[s[j]] /\ lv[s[j]] + j = lv[root] + 1
      BY ONLY <3>1, <2>2
    <3> QED BY ONLY <3>1, <3>2
  <2>6. f # <<>> => f[1] = root
    BY ONLY <2>1, <2>3
  <2>7. \A j \in 1 .. Len(f) - 1 : f[j + 1] = Child(N[f[j]], k)
    <3> TAKE j \in 1 .. Len(f) - 1
    <3>1. j \in 1 .. n - 1 /\ j + 1 \in 1 .. n - 1
      BY ONLY <2>1
    <3> QED BY ONLY <3>1, <2>1, <2>3
  <2> QED BY <2>5, <2>6, <2>7 DEF PathRight, f
<1> QED BY <1>1, <1>3, <1>4, <1>5, <1>6, <1>7, <1>8 DEF PathEnds

(* What GrownRight says of the number of ids.                              *)
LEMMA GrownSizes ==
    ASSUME TypeOK, IsFiniteSet(want), NEW N, NEW lo, NEW hi, NEW top, NEW lv, NEW D,
           GrownRight(N, lo, hi, top, lv, D)
    PROVE  /\ tree \in Headers /\ tree.size \in Nat /\ tree.pages \in 1 .. MaxPages /\ tree.root \in 1 .. tree.pages
           /\ D \subseteq want /\ want \subseteq Keys /\ IsFiniteSet(D)
           /\ Cardinality(D) \in Nat /\ Cardinality(want) \in Nat /\ Cardinality(D) <= Cardinality(want)
           /\ pc # "descend" => want = D
           /\ pc = "descend" => want = D \cup {key}
           /\ Cardinality(D) = IF pc = "ascend" THEN tree.size + 1 ELSE tree.size
<1>1. tree \in Headers /\ want \subseteq Keys
  BY DEF TypeOK
<1>2. tree.size \in Nat /\ tree.pages \in 0 .. MaxPages
  BY <1>1, HeaderIs
<1>3. tree.root \in 1 .. tree.pages
  BY DEF GrownRight, Grown, RootRight
<1>4. /\ want = IF pc = "descend" THEN D \cup {key} ELSE D
      /\ Cardinality(D) = IF pc = "ascend" THEN tree.size + 1 ELSE tree.size
  BY DEF GrownRight, Grown
<1>5. D \subseteq want
  BY <1>4
<1>6. IsFiniteSet(D) /\ Cardinality(D) <= Cardinality(want)
  BY <1>5, FS_Subset
<1>7. Cardinality(D) \in Nat /\ Cardinality(want) \in Nat
  BY <1>6, FS_CardinalityType
<1>8. tree.pages \in 1 .. MaxPages
  BY <1>2, <1>3
<1> QED BY <1>1, <1>2, <1>3, <1>4, <1>5, <1>6, <1>7, <1>8

(* With nothing to write the file is what it will be.                      *)
LEMMA GrownNow ==
    ASSUME TypeOK, todo = <<>>, NEW N, NEW lo, NEW hi, NEW top, NEW lv, NEW D,
           GrownRight(N, lo, hi, top, lv, D)
    PROVE  N = file.node /\ N \in [Pages -> Nodes]
<1>1. file.node \in [Pages -> Nodes]
  BY FileIs DEF TypeOK
<1>2. N \in [Pages -> Nodes] /\ Leads(file.node, todo, N)
  BY DEF GrownRight, Grown, Shaped
<1> QED BY <1>1, <1>2, LeadsNowhere

(* Every write brings the file nearer to what it shall be; its header      *)
(* counts the new key only with the last write of an insert.               *)
LEMMA WriteKeeps == ASSUME TreeInv, Write PROVE TreeInv'
<1>1. TypeOK /\ ControlRight /\ HeadersRight /\ IsFiniteSet(want)
  BY DEF TreeInv, ControlRight
<1>2. todo # <<>> /\ file \in Files /\ todo \in Seq(Writes) /\ tree \in Headers /\ pc \in {"idle", "descend", "ascend"}
  BY <1>1 DEF TypeOK, Write
<1>3. PICK N, lo, hi, top, lv, D : GrownRight(N, lo, hi, top, lv, D)
  BY <1>2 DEF TreeInv, Fresh
<1> DEFINE w == todo[1]
           rest == Tail(todo)
<1>4. /\ Head(todo) = w /\ w \in Writes /\ Len(todo) \in Nat /\ Len(todo) >= 1
      /\ rest \in Seq(Writes) /\ Len(rest) = Len(todo) - 1 /\ \A i \in 1 .. Len(rest) : rest[i] = todo[i + 1]
  <2>1. Len(todo) \in Nat /\ Len(todo) >= 1
    BY <1>2, EmptySeq
  <2>2. rest \in Seq(Writes) /\ Len(rest) = Len(todo) - 1 /\ \A i \in 1 .. Len(rest) : rest[i] = todo[i + 1]
    BY <1>2, <2>1, HeadTailProperties
  <2> QED BY <1>2, <2>1, <2>2
<1>5. /\ stable' = file /\ todo' = rest
      /\ file' = IF w.kind = "header" THEN [file EXCEPT !.header = w.header] ELSE [file EXCEPT !.node[w.page] = w.node]
      /\ tree' = tree /\ pc' = pc /\ key' = key /\ path' = path /\ carry' = carry /\ want' = want
  BY <1>4 DEF Write
<1>6. w.kind \in {"header", "node"} /\ w.header \in Headers /\ w.node \in Nodes
  BY <1>4 DEF Writes
<1> HIDE DEF rest, w
<1> DEFINE node2 == IF w.kind = "node" THEN [file.node EXCEPT ![w.page] = w.node] ELSE file.node
<1>7. /\ file' \in Files /\ file'.header = IF w.kind = "header" THEN w.header ELSE file.header
      /\ file'.node = node2
  <2>1. CASE w.kind = "header"
    <3>1. w.kind # "node" /\ file' = [file EXCEPT !.header = w.header]
      BY <2>1, <1>5
    <3>2. LET g == [file EXCEPT !.header = w.header] IN g \in Files /\ g.header = w.header /\ g.node = file.node
      BY <1>2, <1>6, FileSteps
    <3> QED BY <2>1, <3>1, <3>2
  <2>2. CASE w.kind # "header"
    <3>1. w.kind = "node" /\ file' = [file EXCEPT !.node[w.page] = w.node]
      BY <2>2, <1>5, <1>6
    <3>2. \A n \in Nodes : \A p : LET g == [file EXCEPT !.node[p] = n]
                                IN  g \in Files /\ g.header = file.header /\ g.node = [file.node EXCEPT ![p] = n]
      BY <1>2, FileSteps
    <3>3. LET g == [file EXCEPT !.node[w.page] = w.node]
          IN  g \in Files /\ g.header = file.header /\ g.node = [file.node EXCEPT ![w.page] = w.node]
      BY ONLY <1>6, <3>2, Zenon
    <3> QED BY <2>2, <3>1, <3>3
  <2> QED BY <2>1, <2>2
<1> HIDE DEF node2
<1>8. Leads(file'.node, rest, N)
  <2>1. file.node \in [Pages -> Nodes] /\ Leads(file.node, todo, N)
    BY <1>2, <1>3, FileIs DEF GrownRight, Grown
  <2>2. node2 = IF todo[1].kind = "node" THEN [file.node EXCEPT ![todo[1].page] = todo[1].node] ELSE file.node
    BY DEF node2, w
  <2>3. Leads(node2, Tail(todo), N)
    BY ONLY <2>1, <2>2, <1>2, LeadsOn
  <2> QED BY <2>3, <1>7 DEF rest
<1>9. (\E N2, lo2, hi2, top2, lv2, D2 : GrownRight(N2, lo2, hi2, top2, lv2, D2))'
  <2>1. Grown(N, lo, hi, top, lv, D, file'.node, todo', tree', pc', path', key', carry', want')
    BY <1>3, <1>5, <1>8 DEF GrownRight, Grown
  <2> QED BY <2>1, NewGrown
<1>10. pc # "descend"
  BY <1>1, <1>2 DEF ControlRight
<1>11. /\ want = D /\ Cardinality(want) \in Nat /\ tree.size \in Nat
       /\ Cardinality(want) = IF pc = "ascend" THEN tree.size + 1 ELSE tree.size
  BY <1>1, <1>3, <1>10, GrownSizes
<1>12. file.header.size \in Nat /\ w.header.size \in Nat
  BY <1>2, <1>6, FileIs, HeaderIs
<1>13. pc = "idle" => /\ todo[Len(todo)] = HeaderWrite(tree) /\ file.header.size < tree.size
                      /\ \A i \in 1 .. Len(todo) - 1 : todo[i].kind = "header" => todo[i].header.size < tree.size
  BY <1>1, <1>2 DEF HeadersRight, Last
<1>14. pc = "ascend" => /\ file.header.size = tree.size
                        /\ \A i \in 1 .. Len(todo) : todo[i].kind = "header" => todo[i].header.size = tree.size
  BY <1>1 DEF HeadersRight
<1>15. CASE pc = "idle"
  <2>1. file.header.size < Cardinality(want)
    BY <1>11, <1>13, <1>15
  <2>2. rest = <<>> => file'.header = tree
    <3>1. SUFFICES ASSUME rest = <<>> PROVE file'.header = tree
      OBVIOUS
    <3>2. Len(todo) = 1
      BY <3>1, <1>4
    <3>3. w = HeaderWrite(tree)
      BY <3>2, <1>13, <1>15 DEF w
    <3> QED BY <3>3, <1>7, WriteIs
  <2>3. rest # <<>> => /\ rest[Len(rest)] = HeaderWrite(tree) /\ file'.header.size < tree.size
                       /\ \A i \in 1 .. Len(rest) - 1 : rest[i].kind = "header" => rest[i].header.size < tree.size
    <3>1. SUFFICES ASSUME rest # <<>> PROVE /\ rest[Len(rest)] = HeaderWrite(tree) /\ file'.header.size < tree.size
                       /\ \A i \in 1 .. Len(rest) - 1 : rest[i].kind = "header" => rest[i].header.size < tree.size
      OBVIOUS
    <3>2. Len(rest) \in Nat /\ Len(rest) >= 1
      BY <3>1, <1>4, EmptySeq
    <3>3. 1 \in 1 .. Len(todo) - 1 /\ Len(rest) \in 1 .. Len(rest) /\ Len(rest) + 1 = Len(todo)
      BY ONLY <1>4, <3>2
    <3>4. \A i \in 1 .. Len(rest) - 1 : i \in 1 .. Len(rest) /\ i + 1 \in 1 .. Len(todo) - 1
      BY ONLY <1>4, <3>2
    <3>5. rest[Len(rest)] = HeaderWrite(tree)
      BY <3>3, <1>4, <1>13, <1>15
    <3>6. w.kind = "header" => w.header.size < tree.size
      BY <3>3, <1>13, <1>15 DEF w
    <3>7. file'.header.size < tree.size
      BY <3>6, <1>7, <1>13, <1>15
    <3>8. \A i \in 1 .. Len(rest) - 1 : rest[i].kind = "header" => rest[i].header.size < tree.size
      BY <3>4, <1>4, <1>13, <1>15
    <3> QED BY <3>5, <3>7, <3>8
  <2>4. HeadersRight'
    BY <2>1, <2>2, <2>3, <1>5, <1>11, <1>12, <1>15 DEF HeadersRight, AtRest, Last
  <2>5. TypeOK'
    BY <1>1, <1>2, <1>4, <1>5, <1>7 DEF TypeOK
  <2>6. ControlRight'
    BY <1>1, <1>5, <1>15 DEF ControlRight
  <2> QED BY <2>4, <2>5, <2>6, <1>9 DEF TreeInv
<1>16. CASE pc = "ascend"
  <2>1. file.header.size < Cardinality(want)
    BY <1>11, <1>14, <1>16
  <2>2. \A i \in 1 .. Len(rest) : rest[i].kind = "header" => rest[i].header.size = tree.size
    <3>1. \A i \in 1 .. Len(rest) : i + 1 \in 1 .. Len(todo)
      BY ONLY <1>4
    <3> QED BY <3>1, <1>4, <1>14, <1>16
  <2>3. file'.header.size = tree.size
    <3>1. 1 \in 1 .. Len(todo)
      BY ONLY <1>4
    <3> QED BY <3>1, <1>7, <1>14, <1>16 DEF w
  <2>4. HeadersRight'
    BY <2>1, <2>2, <2>3, <1>5, <1>11, <1>12, <1>16 DEF HeadersRight, AtRest, Last
  <2>5. TypeOK'
    BY <1>1, <1>2, <1>4, <1>5, <1>7 DEF TypeOK
  <2>6. ControlRight'
    BY <1>1, <1>5, <1>16 DEF ControlRight
  <2> QED BY <2>4, <2>5, <2>6, <1>9 DEF TreeInv
<1> QED BY <1>2, <1>10, <1>15, <1>16

(* The first key.                                                          *)
LEMMA InsertFirstKeeps == ASSUME TreeInv, NEW k \in Keys, InsertFirst(k) PROVE TreeInv'
<1>1. TypeOK /\ ControlRight /\ HeadersRight /\ IsFiniteSet(want)
  BY DEF TreeInv, ControlRight
<1>2. /\ todo = <<>> /\ pc = "idle" /\ tree.root = 0 /\ tree.pages < MaxPages
      /\ file \in Files /\ path \in Seq(Pages) /\ key \in Ints
  BY <1>1 DEF InsertFirst, Reading, CanAllocate, TypeOK
<1>3. Fresh
  <2>1. ASSUME NEW N, NEW lo, NEW hi, NEW top, NEW lv, NEW D, GrownRight(N, lo, hi, top, lv, D) PROVE FALSE
    <3>1. tree.root \in 1 .. tree.pages /\ tree.pages \in 1 .. MaxPages
      BY <1>1, <2>1, GrownSizes
    <3> QED BY <3>1, <1>2
  <2> QED BY <2>1 DEF TreeInv
<1>4. /\ EmptyHeader \in Headers /\ EmptyHeader.root = 0 /\ EmptyHeader.first = 0 /\ EmptyHeader.pages = 0
      /\ EmptyHeader.size = 0 /\ EmptyHeader.nextId = 1
  BY WritesAre DEF EmptyHeader
<1>5. k \in Ints /\ MaxPages \in Nat /\ MaxPages >= 1 /\ 1 \in Ints
  BY SizesAre, MachineIntAssumption DEF Ints, MinInt
<1> DEFINE grown == Allocated(tree)
           new == [grown EXCEPT !.root = grown.pages, !.first = grown.pages, !.size = 1, !.nextId = NextIdAfter(@, k)]
           n == Leaf(<<k>>, <<ValueOf[k]>>, 0)
           lo == [p \in Pages |-> Low]
           hi == [p \in Pages |-> High]
           lv == [p \in Pages |-> 0]
           N == [file.node EXCEPT ![1] = n]
<1>6. /\ grown \in Headers /\ grown.pages = 1 /\ grown.root = 0 /\ grown.first = 0 /\ grown.size = 0 /\ grown.nextId = 1
  <2>1. tree = EmptyHeader /\ EmptyHeader.pages < MaxPages
    BY <1>3, <1>4, <1>5 DEF Fresh
  <2>2. /\ Allocated(EmptyHeader) \in Headers /\ Allocated(EmptyHeader).pages = EmptyHeader.pages + 1
        /\ Allocated(EmptyHeader).root = EmptyHeader.root
        /\ Allocated(EmptyHeader).first = EmptyHeader.first /\ Allocated(EmptyHeader).size = EmptyHeader.size
        /\ Allocated(EmptyHeader).nextId = EmptyHeader.nextId
    BY ONLY <2>1, <1>4, HeaderSteps
  <2> HIDE DEF grown
  <2>3. grown = Allocated(EmptyHeader)
    BY <2>1 DEF grown
  <2> QED BY ONLY <2>2, <2>3, <1>4
<1> HIDE DEF grown
<1>7. /\ new \in Headers /\ new.root = 1 /\ new.pages = 1 /\ new.first = 1 /\ new.size = 1
      /\ new.nextId = NextIdAfter(1, k)
  <2>1. grown.pages \in 0 .. MaxPages /\ grown.nextId = 1
    BY <1>5, <1>6
  <2>2. LET g == [grown EXCEPT !.root = grown.pages, !.first = grown.pages, !.size = 1, !.nextId = NextIdAfter(@, k)]
        IN  /\ g \in Headers /\ g.root = grown.pages /\ g.pages = grown.pages
            /\ g.first = grown.pages /\ g.size = 1 /\ g.nextId = NextIdAfter(grown.nextId, k)
    <3>1. \A p \in 0 .. MaxPages, j \in Ints :
             LET g == [grown EXCEPT !.root = p, !.first = p, !.size = 1, !.nextId = NextIdAfter(@, j)]
             IN  /\ g \in Headers /\ g.root = p /\ g.pages = grown.pages
                 /\ g.first = p /\ g.size = 1 /\ g.nextId = NextIdAfter(grown.nextId, j)
      BY <1>6, HeaderSteps
    <3> QED BY ONLY <2>1, <3>1, <1>5, Zenon
  <2> QED BY ONLY <2>2, <1>6
<1> HIDE DEF new, n, lo, hi, lv
<1>8. /\ tree' = new /\ want' = want \cup {k}
      /\ todo' = AllocateWrites(grown) \o <<NodeWrite(new.root, n), HeaderWrite(new)>>
      /\ file' = file /\ stable' = stable /\ pc' = pc /\ key' = key /\ path' = path /\ carry' = carry
  BY DEF InsertFirst, grown, new, n
<1>9. n \in Nodes /\ Shaped(N, lo, hi, hi, lv, 1, {k})
  <2>1. file.node \in [Pages -> Nodes]
    BY <1>2, FileIs
  <2> QED BY <2>1, FirstShaped DEF n, lo, hi, lv
<1> HIDE DEF N
<1>10. /\ todo' \in Seq(Writes) /\ todo' # <<>> /\ Len(todo') = 4 /\ todo'[1] = HeaderWrite(grown)
       /\ todo'[2].kind = "node" /\ todo'[3] = NodeWrite(1, n) /\ todo'[4] = HeaderWrite(new)
  <2>1. NodeWrite(1, n) \in Writes /\ HeaderWrite(new) \in Writes
    BY <1>5, <1>7, <1>9, WritesAre
  <2>2. /\ \A x, y \in Writes : AllocateWrites(grown) \o <<x, y>> \in Seq(Writes)
        /\ \A x, y : LET w == AllocateWrites(grown) \o <<x, y>>
                     IN  Len(w) = 4 /\ w[1] = HeaderWrite(grown) /\ w[2].kind = "node" /\ w[3] = x /\ w[4] = y
    BY <1>6, StepWrites
  <2> DEFINE x == NodeWrite(1, n)
             y == HeaderWrite(new)
             w == AllocateWrites(grown) \o <<x, y>>
  <2>3. todo' = w
    BY <1>7, <1>8
  <2>4. w \in Seq(Writes) /\ Len(w) = 4 /\ w[1] = HeaderWrite(grown) /\ w[2].kind = "node" /\ w[3] = x /\ w[4] = y
    <3> HIDE DEF x, y
    <3> QED BY <2>1, <2>2 DEF x, y
  <2> HIDE DEF w
  <2>5. w # <<>>
    BY ONLY <2>4, EmptySeq
  <2> QED BY <2>3, <2>4, <2>5
<1>11. Leads(file'.node, todo', N)
  <2>1. file.node \in [Pages -> Nodes] /\ 1 \in Pages /\ grown.pages = 1
    BY <1>2, <1>5, <1>6, FileIs DEF Pages
  <2>2. todo' = AllocateWrites(grown) \o <<NodeWrite(1, n), HeaderWrite(new)>>
    BY <1>7, <1>8
  <2>3. Leads(file.node, todo', [file.node EXCEPT ![1] = n])
    BY ONLY <2>1, <2>2, LeadsAllocated
  <2> QED BY <2>3, <1>8 DEF N
<1>12. want' = {k} /\ Cardinality({k}) = 1 /\ IsFiniteSet({k})
  BY <1>3, <1>8, FS_Singleton DEF Fresh
<1>13. (\E N2, lo2, hi2, top2, lv2, D2 : GrownRight(N2, lo2, hi2, top2, lv2, D2))'
  <2>1. Shaped(N, lo, hi, hi, lv, tree'.pages, {k})
    BY <1>7, <1>8, <1>9
  <2>2. RootRight(lo, hi, lv, tree'.pages, tree'.root, tree'.first)
    <3>1. 1 \in Pages /\ lo[1] = Low /\ hi[1] = High /\ \A p \in 1 .. 1 : p \in Pages /\ lv[p] = 0
      BY <1>5 DEF lo, hi, lv, Pages
    <3> QED BY <3>1, <1>7, <1>8 DEF RootRight
  <2>3. FilledRight(N, tree'.pages, tree'.root)
    BY <1>7, <1>8 DEF FilledRight
  <2>4. pc' = "idle" /\ ~IsPending(pc', carry')
    BY <1>2, <1>8 DEF IsPending
  <2>5. MaxInt \notin want' => \A x \in {k} : x < tree'.nextId \/ (pc' = "ascend" /\ x = key')
    BY <1>5, <1>7, <1>8, <1>12, NextIdIs
  <2>6. Grown(N, lo, hi, hi, lv, {k}, file'.node, todo', tree', pc', path', key', carry', want')
    BY <2>1, <2>2, <2>3, <2>4, <2>5, <1>7, <1>8, <1>11, <1>12 DEF Grown
  <2> QED BY <2>6, NewGrown
<1>14. HeadersRight'
  <2>1. file'.header.size = 0 /\ stable'.header.size = 0 /\ tree'.size = 1 /\ pc' = "idle" /\ Cardinality(want') = 1
    BY <1>2, <1>3, <1>4, <1>7, <1>8, <1>12 DEF Fresh
  <2>2. \A i \in 1 .. 3 : todo'[i].kind = "header" => todo'[i].header.size = 0
    <3>1. todo'[3].kind = "node" /\ todo'[1].header = grown
      BY <1>10, WriteIs
    <3>2. \A i \in 1 .. 3 : i = 1 \/ i = 2 \/ i = 3
      OBVIOUS
    <3> QED BY <3>1, <3>2, <1>6, <1>10
  <2>3. todo'[Len(todo')] = HeaderWrite(tree')
    BY <1>8, <1>10
  <2> QED BY <2>1, <2>2, <2>3, <1>10 DEF HeadersRight, AtRest, Last
<1>15. TypeOK'
  BY <1>1, <1>7, <1>8, <1>10 DEF TypeOK
<1>16. ControlRight'
  BY <1>2, <1>8, <1>12 DEF ControlRight
<1> QED BY <1>13, <1>14, <1>15, <1>16 DEF TreeInv

(* An insert begins at the root, which is responsible for every id.        *)
LEMMA InsertBeginKeeps == ASSUME TreeInv, NEW k \in Keys, InsertBegin(k) PROVE TreeInv'
<1>1. TypeOK /\ ControlRight /\ HeadersRight /\ IsFiniteSet(want)
  BY DEF TreeInv, ControlRight
<1>2. todo = <<>> /\ pc = "idle" /\ tree.root # 0 /\ k \in Ints /\ k \in Int
  BY SizesAre, IntsAre DEF InsertBegin, Reading
<1>3. /\ pc' = "descend" /\ key' = k /\ path' = <<tree.root>> /\ carry' = <<>> /\ want' = want \cup {k}
      /\ file' = file /\ stable' = stable /\ tree' = tree /\ todo' = todo
  BY DEF InsertBegin
<1>4. PICK N, lo, hi, top, lv, D : GrownRight(N, lo, hi, top, lv, D)
  BY <1>2 DEF TreeInv
<1>5. /\ tree.pages \in 1 .. MaxPages /\ tree.root \in 1 .. tree.pages /\ D = want
      /\ Cardinality(D) = tree.size /\ Cardinality(want) \in Nat
  BY <1>1, <1>2, <1>4, GrownSizes
<1>6. /\ Leads(file.node, todo, N) /\ Shaped(N, lo, hi, top, lv, tree.pages, D)
      /\ RootRight(lo, top, lv, tree.pages, tree.root, tree.first)
      /\ FilledRight(N, tree.pages, tree.root) /\ top = hi
      /\ MaxInt \notin want => \A x \in D : x < tree.nextId
  BY <1>2, <1>4 DEF GrownRight, Grown, IsPending
<1>7. <<tree.root>> \in Seq(Pages) /\ Len(<<tree.root>>) = 1 /\ <<tree.root>>[1] = tree.root /\ <<tree.root>> # <<>>
  BY <1>5, SizesAre DEF Pages
<1>8. PathRight(N, lo, hi, lv, tree'.pages, tree'.root, path', key')
  <2>1. tree.root \in 1 .. tree.pages /\ lo[tree.root] = Low /\ hi[tree.root] = High
    BY <1>6 DEF RootRight
  <2>2. Low <= k /\ k < High
    BY <1>2, IntsAre
  <2> DEFINE s == <<tree.root>>
  <2>3. Len(s) = 1 /\ s[1] = tree.root
    BY <1>7
  <2> HIDE DEF s
  <2>4. \A j \in 1 .. Len(s) : j = 1
    BY <2>3
  <2>5. \A j \in 1 .. Len(s) - 1 : FALSE
    BY <2>3
  <2>6. PathRight(N, lo, hi, lv, tree.pages, tree.root, s, k)
    BY <2>1, <2>2, <2>3, <2>4, <2>5 DEF PathRight
  <2> QED BY <2>6, <1>3 DEF s
<1>9. (\E N2, lo2, hi2, top2, lv2, D2 : GrownRight(N2, lo2, hi2, top2, lv2, D2))'
  <2>1. ~IsPending(pc', carry') /\ pc' = "descend" /\ want' = D \cup {key'}
    BY <1>3, <1>5 DEF IsPending
  <2>2. MaxInt \notin want' => \A x \in D : x < tree'.nextId
    BY <1>3, <1>6
  <2>3. Grown(N, lo, hi, top, lv, D, file'.node, todo', tree', pc', path', key', carry', want')
    BY <1>3, <1>5, <1>6, <1>8, <2>1, <2>2 DEF Grown
  <2> QED BY <2>3, NewGrown
<1>10. HeadersRight'
  <2>1. file.header = tree /\ stable.header.size <= Cardinality(want)
        /\ (stable.header.size = Cardinality(want) => stable = file)
    BY <1>1, <1>2 DEF HeadersRight, AtRest
  <2>2. stable.header.size \in Nat
    BY <1>1, FileIs, HeaderIs DEF TypeOK
  <2>3. IsFiniteSet(want') /\ Cardinality(want) <= Cardinality(want') /\ Cardinality(want') \in Nat
    <3>1. IsFiniteSet(want') /\ want \subseteq want'
      BY <1>1, <1>3, FS_AddElement
    <3> QED BY <3>1, FS_Subset, FS_CardinalityType
  <2>4. stable.header.size <= Cardinality(want')
        /\ (stable.header.size = Cardinality(want') => stable = file)
    BY <2>1, <2>2, <2>3, <1>5
  <2> QED BY <2>1, <2>4, <1>2, <1>3 DEF HeadersRight
<1>11. TypeOK'
  BY <1>1, <1>2, <1>3, <1>7 DEF TypeOK
<1>12. ControlRight'
  <2>1. IsFiniteSet(want')
    BY <1>1, <1>3, FS_AddElement
  <2> QED BY <2>1, <1>2, <1>3, <1>7 DEF ControlRight
<1> QED BY <1>9, <1>10, <1>11, <1>12 DEF TreeInv

(* What holds while an insert is on its way down.                          *)
LEMMA Descending ==
    ASSUME TreeInv, Reading("descend")
    PROVE  \E lo, hi, lv, D :
              /\ Leads(file.node, <<>>, file.node) /\ Shaped(file.node, lo, hi, hi, lv, tree.pages, D)
              /\ RootRight(lo, hi, lv, tree.pages, tree.root, tree.first)
              /\ FilledRight(file.node, tree.pages, tree.root)
              /\ PathRight(file.node, lo, hi, lv, tree.pages, tree.root, path, key)
              /\ want = D \cup {key} /\ D \subseteq want /\ IsFiniteSet(D) /\ Cardinality(D) = tree.size
              /\ MaxInt \notin want => \A x \in D : x < tree.nextId
<1>1. TypeOK /\ ControlRight /\ IsFiniteSet(want) /\ todo = <<>> /\ pc = "descend"
  BY DEF TreeInv, ControlRight, Reading
<1>2. PICK N, lo, hi, top, lv, D : GrownRight(N, lo, hi, top, lv, D)
  BY <1>1 DEF TreeInv, Fresh
<1>3. N = file.node
  BY <1>1, <1>2, GrownNow
<1>4. want = D \cup {key} /\ D \subseteq want /\ IsFiniteSet(D) /\ Cardinality(D) = tree.size
  BY <1>1, <1>2, GrownSizes
<1>5. /\ Leads(file.node, todo, N) /\ Shaped(N, lo, hi, top, lv, tree.pages, D)
      /\ RootRight(lo, top, lv, tree.pages, tree.root, tree.first)
      /\ FilledRight(N, tree.pages, tree.root) /\ top = hi
      /\ PathRight(N, lo, hi, lv, tree.pages, tree.root, path, key)
      /\ MaxInt \notin want => \A x \in D : x < tree.nextId
  BY <1>1, <1>2 DEF GrownRight, Grown, IsPending
<1> QED BY <1>1, <1>3, <1>4, <1>5

(* The types on the way down.                                              *)
LEMMA DescendingTypes ==
    ASSUME TreeInv, Reading("descend")
    PROVE  /\ TypeOK /\ IsFiniteSet(want) /\ todo = <<>> /\ pc = "descend" /\ carry = <<>>
           /\ path \in Seq(Pages) /\ path # <<>> /\ key \in want /\ key \in Keys /\ key \in Ints /\ key \in Int
           /\ tree.root # 0 /\ tree.root \in 1 .. tree.pages /\ tree.pages \in 1 .. MaxPages
           /\ file \in Files /\ tree \in Headers /\ file.node \in [Pages -> Nodes]
           /\ file.header = tree /\ tree.size \in Nat
<1>1. TypeOK /\ ControlRight /\ HeadersRight /\ IsFiniteSet(want) /\ todo = <<>> /\ pc = "descend"
  BY DEF TreeInv, ControlRight, Reading
<1>2. PICK N, lo, hi, top, lv, D : GrownRight(N, lo, hi, top, lv, D)
  BY <1>1 DEF TreeInv, Fresh
<1>3. tree.root \in 1 .. tree.pages /\ tree.pages \in 1 .. MaxPages /\ tree.size \in Nat
  BY <1>1, <1>2, GrownSizes
<1>4. carry = <<>> /\ path # <<>> /\ key \in want /\ tree.root # 0 /\ file.header = tree
  BY <1>1 DEF ControlRight, HeadersRight
<1>5. path \in Seq(Pages) /\ key \in Ints /\ want \subseteq Keys /\ file \in Files /\ tree \in Headers
  BY <1>1 DEF TypeOK
<1>6. file.node \in [Pages -> Nodes]
  BY <1>5, FileIs
<1> QED BY <1>1, <1>3, <1>4, <1>5, <1>6, IntsAre

(* The page is read, so the file that a killed process leaves is this one; *)
(* it counts all ids only if the new key is already there.                 *)
LEMMA DescentHeaders ==
    ASSUME TypeOK, IsFiniteSet(want), file.header = tree, NEW D, D \subseteq want, Cardinality(D) = tree.size,
           pc' = "idle" \/ pc' = "descend", todo' = <<>>, stable' = file, file' = file, tree' = tree, want' = want
    PROVE  HeadersRight'
<1>1. Cardinality(D) <= Cardinality(want)
  BY FS_Subset
<1> QED BY <1>1 DEF HeadersRight, AtRest

(* The child for the key is responsible for it.                            *)
LEMMA DescendKeeps == ASSUME TreeInv, Descend PROVE TreeInv'
<1>1. Reading("descend") /\ ~Node.leaf
  BY DEF Descend
<1> DEFINE a == Here
           c == Child(Node, key)
<1>2. /\ path' = Append(path, c) /\ stable' = file /\ file' = file /\ tree' = tree /\ pc' = pc /\ key' = key
      /\ carry' = carry /\ todo' = todo /\ want' = want
  BY DEF Descend
<1>3. PICK lo, hi, lv, D :
              /\ Leads(file.node, <<>>, file.node) /\ Shaped(file.node, lo, hi, hi, lv, tree.pages, D)
              /\ RootRight(lo, hi, lv, tree.pages, tree.root, tree.first)
              /\ FilledRight(file.node, tree.pages, tree.root)
              /\ PathRight(file.node, lo, hi, lv, tree.pages, tree.root, path, key)
              /\ want = D \cup {key} /\ D \subseteq want /\ IsFiniteSet(D) /\ Cardinality(D) = tree.size
              /\ MaxInt \notin want => \A x \in D : x < tree.nextId
  BY <1>1, Descending
<1>4. /\ TypeOK /\ IsFiniteSet(want) /\ todo = <<>> /\ pc = "descend" /\ carry = <<>>
      /\ path \in Seq(Pages) /\ path # <<>> /\ key \in want /\ key \in Ints /\ key \in Int
      /\ tree.root # 0 /\ tree.root \in 1 .. tree.pages /\ tree.pages \in 1 .. MaxPages
      /\ file.node \in [Pages -> Nodes] /\ file.header = tree
  BY <1>1, DescendingTypes
<1> DEFINE N == file.node
           P == tree.pages
           root == tree.root
           s == path
           n == Len(path)
<1>5. lv \in [Pages -> Nat] /\ P \in 0 .. MaxPages /\ a = Last(s) /\ Node = N[a]
  BY <1>3, <1>4 DEF Shaped, Here, Node
<1>6. /\ a \in 1 .. P /\ lo[a] <= key /\ key < hi[a] /\ lv[a] + n = lv[root] + 1
  <2>1. /\ root \in 1 .. P /\ s \in Seq(Pages) /\ s # <<>> /\ PathRight(N, lo, hi, lv, P, root, s, key)
    BY <1>3, <1>4
  <2> HIDE DEF N, P, root, s
  <2>2. /\ Last(s) \in 1 .. P /\ lo[Last(s)] <= key /\ key < hi[Last(s)]
        /\ lv[Last(s)] + Len(s) = lv[root] + 1
    <3>1. PathEnds(N, lo, hi, lv, P, root, s, key)
      BY ONLY <2>1, <1>5, PathLevels
    <3> QED BY ONLY <3>1 DEF PathEnds
  <2> QED BY <2>2, <1>5 DEF s
<1>7. /\ a \in Pages /\ N[a] \in Nodes /\ lo[a] \in Int /\ hi[a] \in Int /\ lv[a] \in Nat
      /\ lo[a] < hi[a] /\ (lv[a] = 0 => LeafRight(N[a], lo[a], hi[a], D))
      /\ lv[a] # 0 => KidsRight(N[a], lo[a], hi[a], lv[a], lo, hi, lv, P)
  BY <1>3, <1>5, <1>6, PageIs
<1>8. lv[a] # 0 /\ KidsPlaced(N[a].keys, N[a].kids, lo[a], hi[a], lv[a], lo, hi, lv, P)
  BY <1>1, <1>5, <1>7 DEF LeafRight, KidsRight
<1>9. c \in 1 .. P /\ lo[c] <= key /\ key < hi[c] /\ lv[c] = lv[a] - 1
  <2> DEFINE ks == N[a].keys
             cs == N[a].kids
             u == UpperBound(ks, key)
  <2>1. ks \in Seq(Int)
    BY <1>7, NodeIs
  <2>2. u \in 1 .. Len(cs) /\ lo[cs[u]] <= key /\ key < hi[cs[u]]
    <3> HIDE DEF ks, cs, N, a
    <3> QED BY <2>1, <1>4, <1>6, <1>7, <1>8, ChildIs DEF ks, cs
  <2>3. \A i \in 1 .. Len(cs) : cs[i] \in 1 .. P /\ lv[cs[i]] = lv[a] - 1
    BY <1>8 DEF KidsPlaced
  <2>4. c = cs[u]
    BY <1>5 DEF Child
  <2> HIDE DEF u, cs
  <2> QED BY <2>2, <2>3, <2>4
<1>10. root \in 1 .. P /\ root \in Pages /\ lv[root] \in Nat /\ c \in Pages
  BY <1>4, <1>5, <1>9, SizesAre DEF Pages
<1>11. n \in Nat /\ n >= 1 /\ a = s[n]
  BY <1>4, <1>5, PathIs
<1> DEFINE q == Append(s, c)
<1>12. /\ q \in Seq(Pages) /\ Len(q) = n + 1 /\ q[n + 1] = c /\ \A j \in 1 .. n : q[j] = s[j]
  BY <1>4, <1>10, AppendProperties
<1> HIDE DEF q, c, a
<1>13. PathRight(N, lo, hi, lv, P, root, q, key)
  <2>1. /\ \A j \in 1 .. n : s[j] \in 1 .. P /\ lo[s[j]] <= key /\ key < hi[s[j]] /\ lv[s[j]] + j = lv[root] + 1
        /\ s[1] = root
        /\ \A j \in 1 .. n - 1 : s[j + 1] = Child(N[s[j]], key)
    BY <1>3, <1>4 DEF PathRight
  <2>2. c = Child(N[s[n]], key)
    BY <1>5, <1>11 DEF c
  <2> HIDE DEF N, P, root, s, n
  <2>3. lv[c] + (n + 1) = lv[root] + 1
    BY ONLY <1>6, <1>7, <1>9, <1>10, <1>11
  <2>4. ASSUME NEW j \in 1 .. n + 1
        PROVE q[j] \in 1 .. P /\ lo[q[j]] <= key /\ key < hi[q[j]] /\ lv[q[j]] + j = lv[root] + 1
    <3>1. CASE j = n + 1
      BY ONLY <3>1, <1>9, <1>12, <2>3
    <3>2. CASE j # n + 1
      <4>1. j \in 1 .. n /\ q[j] = s[j]
        BY ONLY <3>2, <1>11, <1>12
      <4>2. s[j] \in 1 .. P /\ lo[s[j]] <= key /\ key < hi[s[j]] /\ lv[s[j]] + j = lv[root] + 1
        BY ONLY <4>1, <2>1
      <4> QED BY ONLY <4>1, <4>2
    <3> QED BY <3>1, <3>2
  <2>5. ASSUME NEW j \in 1 .. Len(q) - 1
        PROVE  q[j + 1] = Child(N[q[j]], key)
    <3>1. j \in 1 .. n /\ q[j] = s[j]
      BY ONLY <1>11, <1>12
    <3>2. CASE j = n
      BY ONLY <3>1, <3>2, <1>12, <2>2
    <3>3. CASE j # n
      <4>1. j \in 1 .. n - 1 /\ j + 1 \in 1 .. n
        BY ONLY <3>1, <3>3, <1>11
      <4> QED BY ONLY <4>1, <3>1, <1>12, <2>1
    <3> QED BY <3>2, <3>3
  <2>6. q[1] = root
    <3>1. 1 \in 1 .. n
      BY ONLY <1>11
    <3> QED BY ONLY <3>1, <1>12, <2>1
  <2> QED BY <2>4, <2>5, <2>6, <1>12 DEF PathRight
<1>14. (\E N2, lo2, hi2, top2, lv2, D2 : GrownRight(N2, lo2, hi2, top2, lv2, D2))'
  <2>1. ~IsPending(pc', carry')
    BY <1>2, <1>4 DEF IsPending
  <2>2. path' = q
    BY <1>2 DEF q, c
  <2>3. Grown(N, lo, hi, hi, lv, D, file'.node, todo', tree', pc', path', key', carry', want')
    BY <1>2, <1>3, <1>4, <1>13, <2>1, <2>2 DEF Grown
  <2> QED BY <2>3, NewGrown
<1>15. HeadersRight'
  BY <1>2, <1>3, <1>4, DescentHeaders
<1>16. TypeOK'
  BY <1>2, <1>4, <1>12 DEF TypeOK, q, c
<1>17. ControlRight'
  <2>1. path' # <<>>
    BY ONLY <1>2, <1>11, <1>12, EmptySeq DEF q, c
  <2> QED BY <2>1, <1>2, <1>4 DEF ControlRight
<1> QED BY <1>14, <1>15, <1>16, <1>17 DEF TreeInv

(* The page at the end of the path, on the way down.                       *)
LeafHere(N, lo, hi, lv, P, D, k, a) ==
    /\ a \in 1 .. P /\ a \in Pages /\ N[a] \in Nodes /\ lo[a] <= k /\ k < hi[a]
    /\ lv[a] = 0 /\ LeafRight(N[a], lo[a], hi[a], D)

(* It is the leaf that is responsible for the key.                         *)
LEMMA LeafReached ==
    ASSUME NEW N, NEW lo, NEW hi, NEW lv, NEW P \in 1 .. MaxPages, NEW D, NEW root \in 1 .. P,
           NEW s \in Seq(Pages), s # <<>>, NEW k \in Int, PathRight(N, lo, hi, lv, P, root, s, k),
           Shaped(N, lo, hi, hi, lv, P, D), NEW a, a = Last(s), N[a].leaf
    PROVE  LeafHere(N, lo, hi, lv, P, D, k, a)
<1>1. lv \in [Pages -> Nat] /\ P \in 0 .. MaxPages
  BY SizesAre DEF Shaped
<1>2. PathEnds(N, lo, hi, lv, P, root, s, k)
  BY <1>1, PathLevels
<1>3. a \in 1 .. P /\ lo[a] <= k /\ k < hi[a]
  BY <1>2 DEF PathEnds
<1>4. /\ a \in Pages /\ N[a] \in Nodes /\ lv[a] \in Nat /\ (lv[a] = 0 => LeafRight(N[a], lo[a], hi[a], D))
      /\ lv[a] # 0 => KidsRight(N[a], lo[a], hi[a], lv[a], lo, hi, lv, P)
  BY <1>1, <1>3, PageIs
<1> QED BY <1>3, <1>4 DEF LeafHere, KidsRight

(* The key is in the leaf, so it was there before.                         *)
LEMMA DuplicateKeyKeeps == ASSUME TreeInv, DuplicateKey PROVE TreeInv'
<1>1. Reading("descend") /\ Node.leaf /\ key \in ToSet(Node.keys)
  BY DEF DuplicateKey
<1>2. /\ pc' = "idle" /\ path' = <<>> /\ stable' = file /\ file' = file /\ tree' = tree /\ key' = key
      /\ carry' = carry /\ todo' = todo /\ want' = want
  BY DEF DuplicateKey
<1>3. PICK lo, hi, lv, D :
              /\ Leads(file.node, <<>>, file.node) /\ Shaped(file.node, lo, hi, hi, lv, tree.pages, D)
              /\ RootRight(lo, hi, lv, tree.pages, tree.root, tree.first)
              /\ FilledRight(file.node, tree.pages, tree.root)
              /\ PathRight(file.node, lo, hi, lv, tree.pages, tree.root, path, key)
              /\ want = D \cup {key} /\ D \subseteq want /\ IsFiniteSet(D) /\ Cardinality(D) = tree.size
              /\ MaxInt \notin want => \A x \in D : x < tree.nextId
  BY <1>1, Descending
<1>4. /\ TypeOK /\ IsFiniteSet(want) /\ todo = <<>> /\ pc = "descend" /\ carry = <<>>
      /\ path \in Seq(Pages) /\ path # <<>> /\ key \in want /\ key \in Ints /\ key \in Int
      /\ tree.root # 0 /\ tree.root \in 1 .. tree.pages /\ tree.pages \in 1 .. MaxPages
      /\ file.node \in [Pages -> Nodes] /\ file.header = tree
  BY <1>1, DescendingTypes
<1>5. LeafHere(file.node, lo, hi, lv, tree.pages, D, key, Here)
  <2>1. Here = Last(path) /\ file.node[Here].leaf
    BY <1>1 DEF Here, Node
  <2> QED BY ONLY <2>1, <1>3, <1>4, LeafReached
<1>6. key \in D
  BY <1>1, <1>5 DEF LeafHere, LeafRight, PairsRight, Node
<1>7. (\E N2, lo2, hi2, top2, lv2, D2 : GrownRight(N2, lo2, hi2, top2, lv2, D2))'
  <2>1. ~IsPending(pc', carry') /\ want' = D
    BY <1>2, <1>3, <1>6 DEF IsPending
  <2>2. Grown(file.node, lo, hi, hi, lv, D, file'.node, todo', tree', pc', path', key', carry', want')
    BY <1>2, <1>3, <1>4, <2>1 DEF Grown
  <2> QED BY <2>2, NewGrown
<1>8. HeadersRight'
  BY <1>2, <1>3, <1>4, DescentHeaders
<1>9. TypeOK'
  BY <1>2, <1>4 DEF TypeOK
<1>10. ControlRight'
  BY <1>2, <1>4 DEF ControlRight
<1> QED BY <1>7, <1>8, <1>9, <1>10 DEF TreeInv

(* What holds while an insert is on its way up and has nothing to write.   *)
LEMMA AscendingTypes ==
    ASSUME TreeInv, Reading("ascend")
    PROVE  /\ TypeOK /\ IsFiniteSet(want) /\ todo = <<>> /\ pc = "ascend"
           /\ path \in Seq(Pages) /\ key \in want /\ key \in Keys /\ key \in Ints /\ key \in Int
           /\ carry # <<>> => carry \in Ints \X Pages
           /\ tree.root # 0 /\ tree.root \in 1 .. tree.pages /\ tree.pages \in 1 .. MaxPages
           /\ file \in Files /\ stable \in Files /\ tree \in Headers /\ file.node \in [Pages -> Nodes]
           /\ file.header.size = tree.size /\ stable.header.size \in Nat /\ tree.size \in Nat
           /\ Cardinality(want) = tree.size + 1 /\ stable.header.size < Cardinality(want)
           /\ \E lo, hi, top, lv :
                 Grown(file.node, lo, hi, top, lv, want, file.node, <<>>, tree, "ascend", path, key, carry, want)
<1>1. TypeOK /\ ControlRight /\ HeadersRight /\ IsFiniteSet(want) /\ todo = <<>> /\ pc = "ascend"
  BY DEF TreeInv, ControlRight, Reading
<1>2. PICK N, lo, hi, top, lv, D : GrownRight(N, lo, hi, top, lv, D)
  BY <1>1 DEF TreeInv, Fresh
<1>3. /\ tree.root \in 1 .. tree.pages /\ tree.pages \in 1 .. MaxPages /\ tree.size \in Nat
      /\ want = D /\ Cardinality(D) = tree.size + 1 /\ Cardinality(want) \in Nat
  BY <1>1, <1>2, GrownSizes
<1>4. /\ key \in want /\ tree.root # 0 /\ file.header.size = tree.size
      /\ stable.header.size <= Cardinality(want) /\ stable.header.size # Cardinality(want)
  BY <1>1 DEF ControlRight, HeadersRight
<1>5. path \in Seq(Pages) /\ key \in Ints /\ want \subseteq Keys /\ file \in Files /\ stable \in Files /\ tree \in Headers
      /\ (carry # <<>> => carry \in Ints \X Pages)
  BY <1>1 DEF TypeOK
<1>6. file.node \in [Pages -> Nodes] /\ stable.header.size \in Nat
  BY <1>5, FileIs, HeaderIs
<1>7. N = file.node
  BY <1>1, <1>2, GrownNow
<1>8. Grown(file.node, lo, hi, top, lv, want, file.node, <<>>, tree, "ascend", path, key, carry, want)
  BY <1>1, <1>2, <1>3, <1>7 DEF GrownRight
<1>9. stable.header.size < Cardinality(want)
  BY <1>3, <1>4, <1>6
<1> QED BY <1>1, <1>3, <1>4, <1>5, <1>6, <1>8, <1>9, IntsAre

(* All pages are right: the key is counted.                                *)
LEMMA InsertEndKeeps == ASSUME TreeInv, InsertEnd PROVE TreeInv'
<1>1. Reading("ascend") /\ carry = <<>>
  BY DEF InsertEnd
<1>2. /\ TypeOK /\ IsFiniteSet(want) /\ todo = <<>> /\ pc = "ascend" /\ key \in want /\ key \in Ints
      /\ tree.root # 0 /\ tree \in Headers /\ file.header.size = tree.size /\ tree.size \in Nat
      /\ Cardinality(want) = tree.size + 1 /\ stable.header.size < Cardinality(want)
      /\ stable.header.size \in Nat
  BY <1>1, AscendingTypes
<1>3. PICK lo, hi, top, lv :
         Grown(file.node, lo, hi, top, lv, want, file.node, <<>>, tree, "ascend", path, key, carry, want)
  BY <1>1, AscendingTypes
<1> DEFINE new == [tree EXCEPT !.size = @ + 1, !.nextId = NextIdAfter(@, key)]
<1>4. /\ tree' = new /\ todo' = <<HeaderWrite(new)>> /\ pc' = "idle" /\ path' = <<>>
      /\ file' = file /\ stable' = stable /\ key' = key /\ carry' = carry /\ want' = want
  BY DEF InsertEnd
<1>5. /\ new \in Headers /\ new.root = tree.root /\ new.pages = tree.pages
      /\ new.first = tree.first /\ new.size = tree.size + 1 /\ new.nextId = NextIdAfter(tree.nextId, key)
  <2>1. \A k \in Ints : LET g == [tree EXCEPT !.size = @ + 1, !.nextId = NextIdAfter(@, k)]
                 IN  /\ g \in Headers /\ g.root = tree.root /\ g.pages = tree.pages
                     /\ g.first = tree.first /\ g.size = tree.size + 1 /\ g.nextId = NextIdAfter(tree.nextId, k)
    BY <1>2, HeaderSteps
  <2> QED BY ONLY <2>1, <1>2, Zenon
<1> HIDE DEF new
<1> DEFINE w == <<HeaderWrite(new)>>
<1>6. /\ w \in Seq(Writes) /\ Len(w) = 1 /\ w[1] = HeaderWrite(new) /\ w # <<>>
  BY <1>5, WritesAre
<1>7. w[1].kind = "header"
  BY <1>6, WriteIs
<1> HIDE DEF w
<1>8. Leads(file.node, w, file.node)
  <2>1. \A i \in 1 .. Len(w) : w[i].kind = "header"
    BY <1>6, <1>7
  <2> QED BY <2>1, LeadsToSelf
<1>9. /\ Shaped(file.node, lo, hi, top, lv, tree.pages, want)
      /\ RootRight(lo, top, lv, tree.pages, tree.root, tree.first)
      /\ FilledRight(file.node, tree.pages, tree.root) /\ top = hi
      /\ MaxInt \notin want => \A x \in want : x < tree.nextId \/ x = key
  BY <1>1, <1>3 DEF Grown, IsPending
<1>10. MaxInt \notin want => \A x \in want : x < new.nextId
  <2>1. SUFFICES ASSUME MaxInt \notin want, NEW x \in want PROVE x < new.nextId
    OBVIOUS
  <2>2. key # MaxInt /\ tree.nextId \in Ints /\ x \in Ints
    BY <2>1, <1>2, HeaderIs, SizesAre DEF TypeOK
  <2>3. key < new.nextId /\ tree.nextId <= new.nextId
    BY <2>2, <1>2, <1>5, NextIdIs
  <2>4. x \in Int /\ key \in Int /\ tree.nextId \in Int /\ new.nextId \in Int
    BY <2>2, <1>2, <1>5, NextIdIs, IntsAre
  <2>5. x < tree.nextId \/ x = key
    BY <2>1, <1>9
  <2> QED BY ONLY <2>3, <2>4, <2>5
<1>11. (\E N2, lo2, hi2, top2, lv2, D2 : GrownRight(N2, lo2, hi2, top2, lv2, D2))'
  <2>1. ~IsPending(pc', carry') /\ pc' = "idle"
    BY <1>4 DEF IsPending
  <2>2. Grown(file.node, lo, hi, top, lv, want, file'.node, todo', tree', pc', path', key', carry', want')
    BY <1>2, <1>4, <1>5, <1>8, <1>9, <1>10, <2>1 DEF Grown, w
  <2> QED BY <2>2, NewGrown
<1>12. HeadersRight'
  <2>1. todo' = w /\ Last(w) = HeaderWrite(new)
    BY <1>4, <1>6 DEF w, Last
  <2>2. \A i \in 1 .. Len(w) - 1 : FALSE
    BY <1>6
  <2> QED BY <2>1, <2>2, <1>2, <1>4, <1>5, <1>6 DEF HeadersRight, AtRest
<1>13. TypeOK'
  BY <1>1, <1>2, <1>4, <1>5, <1>6 DEF TypeOK, w
<1>14. ControlRight'
  BY <1>2, <1>4 DEF ControlRight
<1> QED BY <1>11, <1>12, <1>13, <1>14 DEF TreeInv

(* The header in the file is the struct in memory, so nothing is lost.     *)
LEMMA ReopenKeeps == ASSUME TreeInv, Reopen PROVE TreeInv'
<1>1. TypeOK /\ ControlRight /\ HeadersRight /\ IsFiniteSet(want) /\ todo = <<>> /\ pc = "idle"
  BY DEF TreeInv, ControlRight, Reopen, Reading
<1>2. file.header = tree
  BY <1>1 DEF HeadersRight, AtRest
<1>3. /\ stable' = file /\ tree' = tree /\ file' = file /\ pc' = pc /\ key' = key /\ path' = path
      /\ carry' = carry /\ todo' = todo /\ want' = want
  BY <1>2 DEF Reopen
<1>4. TypeOK'
  BY <1>1, <1>3 DEF TypeOK
<1>5. ControlRight'
  BY <1>1, <1>3 DEF ControlRight
<1>6. CASE Fresh
  <2>1. tree.size = 0 /\ Cardinality(want) = 0 /\ tree.root = 0
    BY <1>6, FS_EmptySet DEF Fresh, EmptyHeader
  <2>2. HeadersRight'
    BY <2>1, <1>1, <1>2, <1>3 DEF HeadersRight, AtRest
  <2>3. Fresh'
    BY <1>3, <1>6 DEF Fresh
  <2>4. tree'.root = 0
    BY <2>1, <1>3
  <2> QED BY <2>2, <2>3, <2>4, <1>4, <1>5 DEF TreeInv
<1>7. ASSUME NEW N, NEW lo, NEW hi, NEW top, NEW lv, NEW D, GrownRight(N, lo, hi, top, lv, D)
      PROVE  TreeInv'
  <2>1. D \subseteq want /\ Cardinality(D) = tree.size
    BY <1>1, <1>7, GrownSizes
  <2>2. HeadersRight'
    BY <2>1, <1>1, <1>2, <1>3, DescentHeaders
  <2>3. GrownRight(N, lo, hi, top, lv, D)'
    BY <1>3, <1>7 DEF GrownRight
  <2> QED BY <2>2, <2>3, <1>4, <1>5 DEF TreeInv
<1> QED BY <1>6, <1>7 DEF TreeInv

(* The new id is not yet in D, so it adds one.                             *)
LEMMA OneMore ==
    ASSUME NEW D, IsFiniteSet(D), NEW k, k \notin D
    PROVE  IsFiniteSet(D \cup {k}) /\ Cardinality(D \cup {k}) = Cardinality(D) + 1 /\ Cardinality(D) \in Nat
BY FS_AddElement, FS_CardinalityType

(* A key that the responsible leaf has not is in no leaf.                  *)
LEMMA NotThere ==
    ASSUME NEW N, NEW lo, NEW hi, NEW lv, NEW P, NEW D, NEW k, NEW a,
           LeafHere(N, lo, hi, lv, P, D, k, a), k \notin ToSet(N[a].keys)
    PROVE  k \notin D
BY DEF LeafHere, LeafRight, PairsRight

(* The leaf takes the key; nothing above it changes.                       *)
LEMMA LeafInsertKeeps == ASSUME TreeInv, LeafInsert PROVE TreeInv'
<1> DEFINE a == Here
           ks == LeafKeys
           vs == LeafVals
           n == Leaf(ks, vs, Node.next)
           N == file.node
           N2 == [N EXCEPT ![a] = n]
           w == <<NodeWrite(a, n)>>
<1>1. Reading("descend") /\ Node.leaf /\ key \notin ToSet(Node.keys) /\ Len(ks) <= MaxKeys
  BY DEF LeafInsert
<1>2. /\ todo' = w /\ pc' = "ascend" /\ path' = Front(path) /\ stable' = file
      /\ file' = file /\ tree' = tree /\ key' = key /\ carry' = carry /\ want' = want
  BY DEF LeafInsert
<1>3. PICK lo, hi, lv, D :
              /\ Leads(file.node, <<>>, file.node) /\ Shaped(file.node, lo, hi, hi, lv, tree.pages, D)
              /\ RootRight(lo, hi, lv, tree.pages, tree.root, tree.first)
              /\ FilledRight(file.node, tree.pages, tree.root)
              /\ PathRight(file.node, lo, hi, lv, tree.pages, tree.root, path, key)
              /\ want = D \cup {key} /\ D \subseteq want /\ IsFiniteSet(D) /\ Cardinality(D) = tree.size
              /\ MaxInt \notin want => \A x \in D : x < tree.nextId
  BY <1>1, Descending
<1>4. /\ TypeOK /\ IsFiniteSet(want) /\ todo = <<>> /\ pc = "descend" /\ carry = <<>>
      /\ path \in Seq(Pages) /\ path # <<>> /\ key \in want /\ key \in Keys /\ key \in Ints /\ key \in Int
      /\ tree.root # 0 /\ tree.root \in 1 .. tree.pages /\ tree.pages \in 1 .. MaxPages
      /\ file.node \in [Pages -> Nodes] /\ file.header = tree /\ tree.size \in Nat
  BY <1>1, DescendingTypes
<1>5. LeafHere(N, lo, hi, lv, tree.pages, D, key, a)
  <2>1. Here = Last(path) /\ file.node[Here].leaf
    BY <1>1 DEF Here, Node
  <2> QED BY ONLY <2>1, <1>3, <1>4, LeafReached
<1>6. a \in 1 .. tree.pages /\ a \in Pages /\ lv[a] = 0 /\ lo[a] <= key /\ key < hi[a] /\ tree.pages \in 0 .. MaxPages
  BY <1>4, <1>5 DEF LeafHere
<1>7. key \notin D /\ key \notin ToSet(N[a].keys)
  <2>1. key \notin ToSet(N[a].keys)
    BY <1>1 DEF Node
  <2> HIDE DEF a, N
  <2> QED BY ONLY <2>1, <1>5, NotThere
<1>8. n \in Nodes /\ (Filled(N[a]) => Filled(n)) /\ Shaped(N2, lo, hi, hi, lv, tree.pages, D \cup {key})
  <2>1. /\ ks = InsertAt(N[a].keys, LowerBound(N[a].keys, key), key)
        /\ vs = InsertAt(N[a].vals, LowerBound(N[a].keys, key), ValueOf[key])
        /\ n = Leaf(ks, vs, N[a].next)
    BY DEF LeafKeys, LeafVals, Node
  <2> DEFINE k == key
             P == tree.pages
  <2>2. /\ P \in 0 .. MaxPages /\ Shaped(N, lo, hi, hi, lv, P, D) /\ a \in 1 .. P /\ lv[a] = 0
        /\ k \in Keys /\ lo[a] <= k /\ k < hi[a] /\ k \notin ToSet(N[a].keys) /\ Len(ks) <= MaxKeys
    BY ONLY <1>1, <1>3, <1>4, <1>6, <1>7
  <2> HIDE DEF a, ks, vs, n, N, k, P
  <2>3. n \in Nodes /\ (Filled(N[a]) => Filled(n)) /\ Shaped([N EXCEPT ![a] = n], lo, hi, hi, lv, P, D \cup {k})
    <3>1. /\ ks = InsertAt(N[a].keys, LowerBound(N[a].keys, k), k)
          /\ vs = InsertAt(N[a].vals, LowerBound(N[a].keys, k), ValueOf[k])
          /\ n = Leaf(ks, vs, N[a].next)
      BY ONLY <2>1 DEF k
    <3> QED BY ONLY <3>1, <2>2, LeafInsertShaped
  <2> QED BY ONLY <2>3 DEF N2, k, P
<1> HIDE DEF a, ks, vs, n, N
<1>9. Leads(N, w, N2)
  BY <1>4, <1>6, LeadsOne DEF N
<1>10. w \in Seq(Writes) /\ Len(w) = 1 /\ w[1] = NodeWrite(a, n) /\ w # <<>>
  <2>1. a \in 0 .. MaxPages
    BY <1>4, <1>6, SizesAre
  <2>2. NodeWrite(a, n) \in Writes
    BY <2>1, <1>8, WritesAre
  <2> QED BY <2>2
<1>11. w[1].kind = "node"
  BY <1>10, WriteIs
<1> HIDE DEF w, N2
<1>12. IsFiniteSet(want) /\ Cardinality(want) = tree.size + 1 /\ want = D \cup {key}
  BY <1>3, <1>7, OneMore
<1>13. FilledRight(N2, tree.pages, tree.root)
  <2>1. \A p \in 1 .. tree.pages : p # tree.root => Filled(N[p])
    BY <1>3 DEF FilledRight, N
  <2>2. \A p \in 1 .. tree.pages : p \in Pages /\ N2[p] = IF p = a THEN n ELSE N[p]
    BY <1>4, SizesAre DEF N2, N, Pages
  <2> QED BY <2>1, <2>2, <1>8 DEF FilledRight
<1>14. (\E N3, lo2, hi2, top2, lv2, D2 : GrownRight(N3, lo2, hi2, top2, lv2, D2))'
  <2>1. ~IsPending(pc', carry') /\ pc' = "ascend"
    BY <1>2, <1>4 DEF IsPending
  <2>2. MaxInt \notin want' => \A x \in D \cup {key} : x < tree'.nextId \/ x = key'
    BY <1>2, <1>3
  <2>3. file'.node = N
    BY <1>2 DEF N
  <2>4. Grown(N2, lo, hi, hi, lv, D \cup {key}, file'.node, todo', tree', pc', path', key', carry', want')
    BY <1>2, <1>3, <1>8, <1>9, <1>12, <1>13, <2>1, <2>2, <2>3 DEF Grown
  <2> QED BY <2>4, NewGrown
<1>15. HeadersRight'
  <2>1. file.header.size = tree.size
    BY <1>4
  <2>2. \A i \in 1 .. Len(w) : w[i].kind # "header"
    <3>1. \A i \in 1 .. Len(w) : i = 1
      BY <1>10
    <3> QED BY <3>1, <1>11
  <2> QED BY <2>1, <2>2, <1>2, <1>4, <1>12 DEF HeadersRight, AtRest
<1>16. TypeOK'
  <2>1. Front(path) \in Seq(Pages)
    BY <1>4, PathIs
  <2> QED BY <2>1, <1>2, <1>4, <1>10 DEF TypeOK
<1>17. ControlRight'
  BY <1>2, <1>4 DEF ControlRight
<1> QED BY <1>14, <1>15, <1>16, <1>17 DEF TreeInv

PathSplit(N, lo, hi, top, lv, P, root, first, s, k, m) ==
    /\ RootRight(lo, top, lv, P, root, first)
    /\ FilledRight(N, P, IF s = <<>> THEN 0 ELSE root)
    /\ PathRight(N, lo, hi, lv, P, root, s, k)
    /\ SplitBelow(N, lo, hi, top, lv, P, root, s, k, m, P)

(* After the split of the page at the end of the path, the rest of the     *)
(* path and the pages around it are as they were.                          *)
LEMMA SplitPath ==
    ASSUME NEW N, NEW lo, NEW hi, NEW lv, NEW P \in 1 .. MaxPages - 1, NEW root, NEW first,
           N \in [Pages -> Nodes], lo \in [Pages -> Int], hi \in [Pages -> Int], lv \in [Pages -> Nat],
           RootRight(lo, hi, lv, P, root, first), FilledRight(N, P, root),
           NEW s \in Seq(Pages), s # <<>>, NEW k \in Int, PathRight(N, lo, hi, lv, P, root, s, k),
           NEW a, a = Last(s), NEW r, r = P + 1, NEW m \in Int, lo[a] < m, m < hi[a],
           NEW n1, NEW n2, Filled(n1), Filled(n2), NEW N2, N2 = [N EXCEPT ![a] = n1, ![r] = n2],
           NEW lo2, NEW hi2, NEW top2, NEW lv2, Cut(lo, hi, lv, P, a, r, m, lo2, hi2, lv2, top2)
    PROVE  PathSplit(N2, lo2, hi2, top2, lv2, r, root, first, Front(s), k, m)
<1>1. /\ r \in Pages /\ r # a /\ r \in 1 .. r /\ r \in Nat /\ P \in 0 .. MaxPages
      /\ \A p \in 1 .. P : p \in 1 .. r /\ p # r
      /\ \A p \in 1 .. r : p # r => p \in 1 .. P
  <2>1. MaxPages \in Nat
    BY SizesAre
  <2>2. r \in Pages /\ r # a
    BY DEF Cut
  <2>3. P \in 1 .. MaxPages - 1 /\ r = P + 1
    OBVIOUS
  <2>4. /\ r \in 1 .. r /\ r \in Nat /\ P \in 0 .. MaxPages
        /\ \A p \in 1 .. P : p \in 1 .. r /\ p # r
    BY ONLY <2>1, <2>3
  <2>5. \A p \in 1 .. r : p # r => p \in 1 .. P
    BY ONLY <2>1, <2>3
  <2> QED BY ONLY <2>2, <2>4, <2>5
<1>2. /\ \A p \in 1 .. P : /\ p \in Pages /\ lo2[p] = lo[p] /\ lv2[p] = lv[p] /\ top2[p] = hi[p]
                           /\ hi2[p] = IF p = a THEN m ELSE hi[p]
      /\ lo2[r] = m /\ lv2[r] = lv[a] /\ top2[r] = hi[a] /\ hi2[r] = hi[a]
      /\ top2 = [hi2 EXCEPT ![a] = hi2[r]]
  BY DEF Cut
<1>3. /\ root \in 1 .. P /\ lo[root] = Low /\ hi[root] = High /\ lv[root] < P /\ (\A p \in 1 .. P : lv[p] <= lv[root])
      /\ first \in 1 .. P /\ lo[first] = Low /\ lv[first] = 0
  BY DEF RootRight
<1>4. PathEnds(N, lo, hi, lv, P, root, s, k)
  BY <1>1, <1>3, PathLevels
<1> DEFINE f == Front(s)
<1>5. /\ a \in 1 .. P /\ lo[a] <= k /\ k < hi[a] /\ lv[a] + Len(s) = lv[root] + 1
      /\ PathRight(N, lo, hi, lv, P, root, f, k)
      /\ \A j \in 1 .. Len(s) - 1 : s[j] \in 1 .. P /\ s[j] # a
      /\ Len(s) = 1 => a = root
      /\ Len(s) # 1 => a # root /\ a = Child(N[Last(f)], k)
  BY <1>4 DEF PathEnds
<1>6. /\ Len(s) \in Nat /\ Len(s) >= 1 /\ f \in Seq(Pages) /\ Len(f) = Len(s) - 1
      /\ \A j \in 1 .. Len(s) - 1 : f[j] = s[j]
      /\ f = <<>> <=> Len(s) = 1
  BY PathIs
<1> HIDE DEF f
<1>7. \A j \in 1 .. Len(f) : f[j] \in 1 .. P /\ f[j] # a
  <2> TAKE j \in 1 .. Len(f)
  <2>1. j \in 1 .. Len(s) - 1
    BY ONLY <1>6
  <2> QED BY <2>1, <1>5, <1>6
<1>8. \A p \in 1 .. P : p # a => N2[p] = N[p]
  BY <1>1, <1>2
<1>9. N2[a] = n1 /\ N2[r] = n2
  BY <1>1, <1>2, <1>5
<1>10. \A p \in 1 .. P : lv[p] \in Nat
  BY <1>2
<1>11. RootRight(lo2, top2, lv2, r, root, first)
  <2>1. root \in 1 .. r /\ first \in 1 .. r /\ lo2[root] = Low /\ top2[root] = High /\ lo2[first] = Low /\ lv2[first] = 0
    BY <1>1, <1>2, <1>3
  <2>2. lv2[root] < r
    BY <1>1, <1>2, <1>3, <1>10
  <2>3. \A p \in 1 .. r : lv2[p] <= lv2[root]
    <3> TAKE p \in 1 .. r
    <3>1. CASE p = r
      BY <3>1, <1>2, <1>3, <1>5
    <3>2. CASE p # r
      BY <3>2, <1>1, <1>2, <1>3
    <3> QED BY <3>1, <3>2
  <2> QED BY <2>1, <2>2, <2>3 DEF RootRight
<1>12. FilledRight(N2, r, IF f = <<>> THEN 0 ELSE root)
  <2>1. ASSUME NEW p \in 1 .. r, p # IF f = <<>> THEN 0 ELSE root PROVE Filled(N2[p])
    <3>1. CASE p = r
      BY <3>1, <1>9
    <3>2. CASE p = a
      BY <3>2, <1>9
    <3>3. CASE p # a /\ p # r
      <4>1. p \in 1 .. P /\ p # root /\ N2[p] = N[p]
        BY <2>1, <3>3, <1>1, <1>5, <1>6, <1>8
      <4> QED BY <4>1 DEF FilledRight
    <3> QED BY <3>1, <3>2, <3>3
  <2> QED BY <2>1 DEF FilledRight
<1>13. PathRight(N2, lo2, hi2, lv2, r, root, f, k)
  <2>1. ASSUME NEW j \in 1 .. Len(f)
        PROVE  f[j] \in 1 .. r /\ lo2[f[j]] <= k /\ k < hi2[f[j]] /\ lv2[f[j]] + j = lv2[root] + 1
    <3>1. f[j] \in 1 .. P /\ f[j] # a /\ lo[f[j]] <= k /\ k < hi[f[j]] /\ lv[f[j]] + j = lv[root] + 1
      BY <1>5, <1>7 DEF PathRight
    <3>2. lo2[f[j]] = lo[f[j]] /\ hi2[f[j]] = hi[f[j]] /\ lv2[f[j]] = lv[f[j]] /\ lv2[root] = lv[root] /\ f[j] \in 1 .. r
      BY <3>1, <1>1, <1>2, <1>3
    <3> QED BY ONLY <3>1, <3>2
  <2>2. f # <<>> => f[1] = root
    BY <1>5 DEF PathRight
  <2>3. ASSUME NEW j \in 1 .. Len(f) - 1 PROVE f[j + 1] = Child(N2[f[j]], k)
    <3>1. j \in 1 .. Len(f)
      BY <1>6
    <3>2. f[j + 1] = Child(N[f[j]], k)
      BY <1>5 DEF PathRight
    <3>3. N2[f[j]] = N[f[j]]
      BY <3>1, <1>7, <1>8
    <3> QED BY <3>2, <3>3
  <2> QED BY <2>1, <2>2, <2>3 DEF PathRight
<1>14. Below(N2, f, root, k) = a
  <2>1. CASE f = <<>>
    BY <2>1, <1>5, <1>6 DEF Below
  <2>2. CASE f # <<>>
    <3>1. Len(f) \in 1 .. Len(f) /\ Len(s) # 1
      BY ONLY <2>2, <1>6
    <3>2. Last(f) \in 1 .. P /\ Last(f) # a
      BY <3>1, <1>7 DEF Last
    <3>3. N2[Last(f)] = N[Last(f)]
      BY <3>2, <1>8
    <3> QED BY <2>2, <3>1, <3>3, <1>5 DEF Below
  <2> QED BY <2>1, <2>2
<1>15. SplitBelow(N2, lo2, hi2, top2, lv2, r, root, f, k, m, r)
  <2>1. lv[a] \in Nat /\ lv[root] \in Nat
    BY <1>3, <1>5, <1>10
  <2>2. Len(f) <= lv[root] /\ lv[a] + Len(f) = lv[root]
    <3>1. lv[a] + Len(s) = lv[root] + 1 /\ Len(s) \in Nat /\ Len(f) = Len(s) - 1
      BY <1>5, <1>6
    <3> QED BY ONLY <2>1, <3>1
  <2>3. /\ a \in 1 .. r /\ r \in 1 .. r /\ hi2[a] = m /\ lo2[r] = m /\ lv2[r] = lv2[a]
        /\ lv2[a] = lv[a] /\ lv2[root] = lv[root]
    BY <1>1, <1>2, <1>3, <1>5
  <2> QED BY <2>2, <2>3, <1>1, <1>2, <1>14 DEF SplitBelow
<1> QED BY <1>11, <1>12, <1>13, <1>15 DEF f, PathSplit

(* The header that is written when a page is allocated on the way up does  *)
(* not count the new key.                                                  *)
LEMMA AscentHeaders ==
    ASSUME pc' = "ascend", NEW n \in Nat, file'.header.size = n, tree'.size = n,
           \A i \in 1 .. Len(todo') : todo'[i].kind = "header" => todo'[i].header.size = n,
           stable'.header.size \in Nat, Cardinality(want') \in Nat, stable'.header.size < Cardinality(want')
    PROVE  HeadersRight'
BY DEF HeadersRight, AtRest

WritesWith(w, size) ==
    /\ w \in Seq(Writes) /\ w # <<>>
    /\ \A i \in 1 .. Len(w) : w[i].kind = "header" => w[i].header.size = size

(* The writes of a split.                                                  *)
LEMMA SplitWrites ==
    ASSUME NEW g \in Headers, NEW a \in 0 .. MaxPages, NEW r \in 0 .. MaxPages, NEW n1 \in Nodes, NEW n2 \in Nodes,
           NEW w, w = AllocateWrites(g) \o <<NodeWrite(a, n1), NodeWrite(r, n2)>>
    PROVE  WritesWith(w, g.size)
<1> DEFINE x == NodeWrite(a, n1)
           y == NodeWrite(r, n2)
<1>1. x \in Writes /\ y \in Writes /\ x.kind = "node" /\ y.kind = "node"
  BY WritesAre, WriteIs
<1>2. w = AllocateWrites(g) \o <<x, y>>
  OBVIOUS
<1> HIDE DEF x, y
<1>3. /\ \A s, t \in Writes : AllocateWrites(g) \o <<s, t>> \in Seq(Writes)
      /\ \A s, t : LET v == AllocateWrites(g) \o <<s, t>>
                   IN  Len(v) = 4 /\ v[1] = HeaderWrite(g) /\ v[2].kind = "node" /\ v[3] = s /\ v[4] = t
  BY StepWrites
<1>4. w \in Seq(Writes) /\ Len(w) = 4 /\ w[1] = HeaderWrite(g) /\ w[2].kind = "node" /\ w[3] = x /\ w[4] = y
  BY ONLY <1>1, <1>2, <1>3
<1>5. w[1].header = g
  BY <1>4, WriteIs
<1>6. \A i \in 1 .. Len(w) : i = 1 \/ i = 2 \/ i = 3 \/ i = 4
  BY ONLY <1>4
<1>7. \A i \in 1 .. Len(w) : w[i].kind = "header" => w[i].header.size = g.size
  BY ONLY <1>1, <1>4, <1>5, <1>6
<1>8. w # <<>>
  <2>1. w \in Seq(Writes) /\ Len(w) # 0
    BY ONLY <1>4
  <2> QED BY ONLY <2>1, EmptySeq
<1> QED BY <1>4, <1>7, <1>8 DEF WritesWith

(* The page that is allocated lies behind all others.                      *)
LEMMA NewPage ==
    ASSUME NEW h \in Headers, h.pages \in 1 .. MaxPages, h.pages < MaxPages
    PROVE  /\ Allocated(h) \in Headers /\ Allocated(h).pages = h.pages + 1 /\ Allocated(h).root = h.root
           /\ Allocated(h).first = h.first /\ Allocated(h).size = h.size /\ Allocated(h).nextId = h.nextId
           /\ h.pages \in 1 .. MaxPages - 1 /\ h.pages \in 0 .. MaxPages
           /\ h.pages + 1 \in Pages /\ h.pages + 1 \in 0 .. MaxPages
<1>1. /\ Allocated(h) \in Headers /\ Allocated(h).pages = h.pages + 1 /\ Allocated(h).root = h.root
      /\ Allocated(h).first = h.first /\ Allocated(h).size = h.size /\ Allocated(h).nextId = h.nextId
  BY HeaderSteps
<1>2. /\ h.pages \in 1 .. MaxPages - 1 /\ h.pages \in 0 .. MaxPages
      /\ h.pages + 1 \in Pages /\ h.pages + 1 \in 0 .. MaxPages
  BY SizesAre DEF Pages
<1> QED BY <1>1, <1>2

(* The leaf is parted; its parent does not know yet.                       *)
LEMMA LeafSplitKeeps == ASSUME TreeInv, LeafSplit PROVE TreeInv'
<1> DEFINE a == Here
           ks == LeafKeys
           vs == LeafVals
           grown == Allocated(tree)
           r == grown.pages
           half == SplitPoint(ks)
           m == ks[half + 1]
           n1 == Leaf(SubSeq(ks, 1, half), SubSeq(vs, 1, half), r)
           n2 == Leaf(SubSeq(ks, half + 1, Len(ks)), SubSeq(vs, half + 1, Len(vs)), Node.next)
           N == file.node
           N2 == [N EXCEPT ![a] = n1, ![r] = n2]
           w == AllocateWrites(grown) \o <<NodeWrite(a, n1), NodeWrite(r, n2)>>
           P == tree.pages
           k == key
<1>1. /\ Reading("descend") /\ Node.leaf /\ key \notin ToSet(Node.keys) /\ Len(ks) > MaxKeys
      /\ P < MaxPages
  BY DEF LeafSplit, CanAllocate
<1>2. /\ todo' = w /\ carry' = <<m, r>> /\ tree' = grown /\ pc' = "ascend" /\ path' = Front(path) /\ stable' = file
      /\ file' = file /\ key' = key /\ want' = want
  BY DEF LeafSplit
<1>3. PICK lo, hi, lv, D :
              /\ Leads(file.node, <<>>, file.node) /\ Shaped(file.node, lo, hi, hi, lv, tree.pages, D)
              /\ RootRight(lo, hi, lv, tree.pages, tree.root, tree.first)
              /\ FilledRight(file.node, tree.pages, tree.root)
              /\ PathRight(file.node, lo, hi, lv, tree.pages, tree.root, path, key)
              /\ want = D \cup {key} /\ D \subseteq want /\ IsFiniteSet(D) /\ Cardinality(D) = tree.size
              /\ MaxInt \notin want => \A x \in D : x < tree.nextId
  BY <1>1, Descending
<1>4. /\ TypeOK /\ IsFiniteSet(want) /\ todo = <<>> /\ pc = "descend"
      /\ path \in Seq(Pages) /\ path # <<>> /\ key \in want /\ key \in Keys /\ key \in Ints /\ key \in Int
      /\ tree.root # 0 /\ tree.root \in 1 .. tree.pages /\ tree.pages \in 1 .. MaxPages
      /\ tree \in Headers /\ file.node \in [Pages -> Nodes] /\ file.header = tree /\ tree.size \in Nat
  BY <1>1, DescendingTypes
<1>5. LeafHere(N, lo, hi, lv, P, D, k, a)
  <2>1. Here = Last(path) /\ file.node[Here].leaf
    BY <1>1 DEF Here, Node
  <2> QED BY ONLY <2>1, <1>3, <1>4, LeafReached
<1>6. a \in 1 .. P /\ a \in Pages /\ lv[a] = 0 /\ lo[a] <= k /\ k < hi[a] /\ N[a] \in Nodes
  BY <1>5 DEF LeafHere
<1>7. k \notin D /\ k \notin ToSet(N[a].keys)
  <2>1. k \notin ToSet(N[a].keys)
    BY <1>1 DEF Node
  <2> HIDE DEF a, N, k
  <2> QED BY ONLY <2>1, <1>5, NotThere
<1>8. /\ grown \in Headers /\ r = P + 1 /\ grown.root = tree.root /\ grown.first = tree.first
      /\ grown.size = tree.size /\ grown.nextId = tree.nextId
      /\ P \in 1 .. MaxPages - 1 /\ P \in 0 .. MaxPages /\ r \in Pages /\ r \in 0 .. MaxPages
  BY ONLY <1>1, <1>4, NewPage
<1> HIDE DEF grown, r
<1>9. D \in SUBSET Int
  BY <1>3, <1>4, SizesAre, IntsAre DEF TypeOK
<1> DEFINE lo2 == CutLo(lo, r, m)
           hi2 == CutHi(hi, a, r, m)
           top2 == CutTop(hi, a, r)
           lv2 == CutLv(lv, a, r)
<1>10. /\ n1 \in Nodes /\ n2 \in Nodes /\ Filled(n1) /\ Filled(n2) /\ m \in Ints /\ lo[a] < m /\ m < hi[a]
       /\ Shaped(N2, lo2, hi2, top2, lv2, P + 1, D \cup {k})
  <2>1. /\ ks = InsertAt(N[a].keys, LowerBound(N[a].keys, k), k)
        /\ vs = InsertAt(N[a].vals, LowerBound(N[a].keys, k), ValueOf[k])
        /\ n2 = Leaf(SubSeq(ks, half + 1, Len(ks)), SubSeq(vs, half + 1, Len(vs)), N[a].next)
    BY DEF LeafKeys, LeafVals, Node
  <2>2. /\ Shaped(N, lo, hi, hi, lv, P, D) /\ a \in 1 .. P /\ lv[a] = 0
        /\ k \in Keys /\ lo[a] <= k /\ k < hi[a] /\ k \notin ToSet(N[a].keys) /\ Len(ks) > MaxKeys
        /\ r = P + 1 /\ P \in 1 .. MaxPages - 1
    BY ONLY <1>1, <1>3, <1>4, <1>6, <1>7, <1>8
  <2>3. /\ half = SplitPoint(ks) /\ m = ks[half + 1]
        /\ n1 = Leaf(SubSeq(ks, 1, half), SubSeq(vs, 1, half), r)
    OBVIOUS
  <2> HIDE DEF a, ks, vs, half, m, n1, n2, N, P, k
  <2>4. PageSplit(N, lo, hi, lv, P, D \cup {k}, a, r, m, n1, n2)
    BY ONLY <2>1, <2>2, <2>3, <1>9, LeafSplitShaped, ZenonT(30)
  <2> QED BY ONLY <2>4 DEF PageSplit, N2, lo2, hi2, top2, lv2
<1>11. Here = Last(path)
  BY DEF Here
<1> HIDE DEF ks, vs, half, m, n1, n2, N
<1>12. lo \in [Pages -> Int] /\ hi \in [Pages -> Int] /\ lv \in [Pages -> Nat] /\ m \in Int
  BY <1>3, <1>10, IntsAre DEF Shaped
<1>13. Cut(lo, hi, lv, P, a, r, m, lo2, hi2, lv2, top2)
  BY ONLY <1>6, <1>8, <1>12, CutIs DEF lo2, hi2, lv2, top2
<1> HIDE DEF lo2, hi2, top2, lv2
<1> DEFINE root == tree.root
           s == path
<1>14. /\ RootRight(lo2, top2, lv2, r, root, tree.first)
       /\ FilledRight(N2, r, IF Front(s) = <<>> THEN 0 ELSE root)
       /\ PathRight(N2, lo2, hi2, lv2, r, root, Front(s), k)
       /\ SplitBelow(N2, lo2, hi2, top2, lv2, r, root, Front(s), k, m, r)
  <2>1. N \in [Pages -> Nodes] /\ RootRight(lo, hi, lv, P, root, tree.first) /\ FilledRight(N, P, root)
        /\ s \in Seq(Pages) /\ s # <<>> /\ k \in Int /\ PathRight(N, lo, hi, lv, P, root, s, k) /\ a = Last(s)
    BY <1>3, <1>4, <1>11 DEF N
  <2>2. N2 = [N EXCEPT ![a] = n1, ![r] = n2]
    OBVIOUS
  <2> DEFINE first == tree.first
  <2> HIDE DEF a, P, k, root, s, N2, first
  <2>3. N \in [Pages -> Nodes] /\ RootRight(lo, hi, lv, P, root, first) /\ FilledRight(N, P, root)
        /\ s \in Seq(Pages) /\ s # <<>> /\ k \in Int /\ PathRight(N, lo, hi, lv, P, root, s, k) /\ a = Last(s)
    BY <2>1 DEF first
  <2>4. PathSplit(N2, lo2, hi2, top2, lv2, r, root, first, Front(s), k, m)
    BY ONLY <2>2, <2>3, <1>8, <1>10, <1>12, <1>13, SplitPath
  <2> QED BY ONLY <2>4 DEF first, PathSplit
<1>15. Leads(N, w, N2)
  <2>1. N \in [Pages -> Nodes] /\ r \in Pages /\ grown.pages = r /\ a \in Pages /\ a # r
    BY <1>4, <1>6, <1>8 DEF N, r
  <2> HIDE DEF a, P
  <2> QED BY ONLY <2>1, LeadsSplit DEF w, N2
<1>16. /\ w \in Seq(Writes) /\ w # <<>>
       /\ \A i \in 1 .. Len(w) : w[i].kind = "header" => w[i].header.size = grown.size
  <2>1. a \in 0 .. MaxPages
    BY <1>6, <1>8, SizesAre
  <2> HIDE DEF a, P
  <2>2. w = AllocateWrites(grown) \o <<NodeWrite(a, n1), NodeWrite(r, n2)>>
    OBVIOUS
  <2> HIDE DEF w
  <2>3. WritesWith(w, grown.size)
    BY ONLY <2>1, <2>2, <1>8, <1>10, SplitWrites
  <2> QED BY ONLY <2>3 DEF WritesWith
<1> HIDE DEF w, N2
<1>17. IsFiniteSet(want) /\ Cardinality(want) = tree.size + 1 /\ want = D \cup {key}
  BY <1>3, <1>7, OneMore
<1>18. carry' # <<>> /\ carry'[1] = m /\ carry'[2] = r /\ carry' \in Ints \X Pages
  BY <1>2, <1>8, <1>10
<1>19. (\E N3, lo3, hi3, top3, lv3, D3 : GrownRight(N3, lo3, hi3, top3, lv3, D3))'
  <2>1. IsPending(pc', carry') /\ pc' = "ascend"
    BY <1>2, <1>18 DEF IsPending
  <2>2. MaxInt \notin want' => \A x \in D \cup {key} : x < tree'.nextId \/ x = key'
    BY <1>2, <1>3, <1>8
  <2>3. file'.node = N
    BY <1>2 DEF N
  <2>4. /\ tree'.pages = r /\ tree'.root = root /\ tree'.first = tree.first /\ tree'.size = tree.size
        /\ P + 1 = r
    BY <1>2, <1>8 DEF r
  <2>5. Shaped(N2, lo2, hi2, top2, lv2, tree'.pages, D \cup {k})
    BY <1>10, <2>4
  <2>6. Grown(N2, lo2, hi2, top2, lv2, D \cup {key}, file'.node, todo', tree', pc', path', key', carry', want')
    BY <1>2, <1>14, <1>15, <1>17, <1>18, <2>1, <2>2, <2>3, <2>4, <2>5 DEF Grown
  <2> QED BY <2>6, NewGrown
<1>20. HeadersRight'
  <2>1. file'.header.size = tree.size /\ tree'.size = tree.size /\ stable'.header.size = tree.size
    BY <1>2, <1>4, <1>8
  <2>2. \A i \in 1 .. Len(todo') : todo'[i].kind = "header" => todo'[i].header.size = tree.size
    BY <1>2, <1>8, <1>16
  <2>3. Cardinality(want') = tree.size + 1
    BY <1>2, <1>17
  <2> QED BY <2>1, <2>2, <2>3, <1>2, <1>4, AscentHeaders
<1>21. TypeOK'
  <2>1. Front(path) \in Seq(Pages)
    BY <1>4, PathIs
  <2> QED BY <2>1, <1>2, <1>4, <1>8, <1>16, <1>18 DEF TypeOK
<1>22. ControlRight'
  BY <1>2, <1>4, <1>8 DEF ControlRight
<1> QED BY <1>19, <1>20, <1>21, <1>22 DEF TreeInv

(* What holds while a page that was split is unknown to its parent.        *)
LEMMA Climbing ==
    ASSUME TreeInv, Reading("ascend"), path # <<>>, carry # <<>>
    PROVE  \E lo, hi, top, lv :
              /\ TakesUp(file.node, lo, hi, top, lv, tree.pages, want, Here, key,
                         Child(file.node[Here], key), carry[1], carry[2])
              /\ RootRight(lo, hi, lv, tree.pages, tree.root, tree.first)
              /\ FilledRight(file.node, tree.pages, tree.root)
              /\ PathRight(file.node, lo, hi, lv, tree.pages, tree.root, path, key)
              /\ MaxInt \notin want => \A x \in want : x < tree.nextId \/ x = key
<1> DEFINE N == file.node
           P == tree.pages
           root == tree.root
           s == path
           k == key
           a == Here
           c == Child(N[a], k)
           m == carry[1]
           q == carry[2]
<1>1. /\ s \in Seq(Pages) /\ s # <<>> /\ k \in Int /\ carry \in Ints \X Pages
      /\ root \in 1 .. P /\ P \in 1 .. MaxPages /\ N \in [Pages -> Nodes]
  BY AscendingTypes
<1>2. PICK lo, hi, top, lv :
         Grown(file.node, lo, hi, top, lv, want, file.node, <<>>, tree, "ascend", path, key, carry, want)
  BY AscendingTypes
<1>3. IsPending("ascend", carry)
  BY DEF IsPending
<1>4. /\ Shaped(N, lo, hi, top, lv, P, want) /\ RootRight(lo, top, lv, P, root, tree.first)
      /\ FilledRight(N, P, root) /\ PathRight(N, lo, hi, lv, P, root, s, k)
      /\ SplitBelow(N, lo, hi, top, lv, P, root, s, k, m, q)
      /\ MaxInt \notin want => \A x \in want : x < tree.nextId \/ x = k
  BY <1>1, <1>2, <1>3 DEF Grown
<1>5. /\ m \in Ints /\ a = Last(s) /\ Below(N, s, root, k) = c
  BY <1>1 DEF Here, Below
<1>6. /\ Len(s) <= lv[root] /\ c \in 1 .. P /\ q \in 1 .. P /\ q # c
      /\ hi[c] = m /\ lo[q] = m /\ lv[q] = lv[c] /\ lv[c] + Len(s) = lv[root] /\ top = [hi EXCEPT ![c] = hi[q]]
  BY <1>4, <1>5 DEF SplitBelow
<1>7. /\ lv \in [Pages -> Nat] /\ hi \in [Pages -> Int] /\ P \in 0 .. MaxPages
      /\ \A p \in 1 .. P : p \in Pages
  <2>1. lv \in [Pages -> Nat] /\ hi \in [Pages -> Int]
    BY <1>4 DEF Shaped
  <2>2. P \in 0 .. MaxPages
    BY <1>1
  <2>3. \A p \in 1 .. P : p \in Pages
    BY ONLY <2>2, SizesAre DEF Pages
  <2> QED BY <2>1, <2>2, <2>3
<1> HIDE DEF N, P, root, s, k, a, c, m, q
<1>8. PathEnds(N, lo, hi, lv, P, root, s, k)
  BY ONLY <1>1, <1>4, <1>7, PathLevels
<1>9. a \in 1 .. P /\ lo[a] <= k /\ k < hi[a] /\ lv[a] + Len(s) = lv[root] + 1
  BY <1>5, <1>8 DEF PathEnds
<1>10. lv[a] \in Nat /\ lv[c] \in Nat /\ lv[root] \in Nat /\ Len(s) \in Nat /\ Len(s) >= 1
  BY <1>1, <1>6, <1>7, <1>9, PathIs
<1>11. lv[a] # 0 /\ lv[c] < lv[root]
  BY ONLY <1>6, <1>9, <1>10
<1>12. TakesUp(N, lo, hi, top, lv, P, want, a, k, c, m, q)
  <2>1. c = Child(N[a], k)
    BY DEF c
  <2> QED BY <2>1, <1>1, <1>4, <1>5, <1>6, <1>9, <1>11 DEF TakesUp
<1>13. root # c /\ top[root] = hi[root]
  BY <1>1, <1>6, <1>7, <1>11
<1>14. RootRight(lo, hi, lv, P, root, tree.first)
  BY <1>4, <1>13 DEF RootRight
<1> QED BY <1>4, <1>12, <1>14 DEF N, P, root, s, k, a, c, m, q

(* The parent takes the new page; nothing else is affected.                *)
LEMMA InternalInsertKeeps == ASSUME TreeInv, InternalInsert PROVE TreeInv'
<1> DEFINE a == Here
           ks == UpKeys
           cs == UpKids
           n == Internal(ks, cs)
           N == file.node
           N2 == [N EXCEPT ![a] = n]
           w == <<NodeWrite(a, n)>>
           P == tree.pages
           k == key
           c == Child(N[a], k)
           m == carry[1]
           q == carry[2]
<1>1. Reading("ascend") /\ path # <<>> /\ carry # <<>> /\ Len(ks) <= MaxKeys
  BY DEF InternalInsert
<1>2. /\ todo' = w /\ carry' = <<>> /\ path' = Front(path) /\ pc' = pc
      /\ file' = file /\ stable' = stable /\ tree' = tree /\ key' = key /\ want' = want
  BY DEF InternalInsert
<1>3. PICK lo, hi, top, lv :
              /\ TakesUp(N, lo, hi, top, lv, P, want, a, k, c, m, q)
              /\ RootRight(lo, hi, lv, P, tree.root, tree.first)
              /\ FilledRight(N, P, tree.root)
              /\ PathRight(N, lo, hi, lv, P, tree.root, path, k)
              /\ MaxInt \notin want => \A x \in want : x < tree.nextId \/ x = k
  BY <1>1, Climbing
<1>4. /\ TypeOK /\ IsFiniteSet(want) /\ todo = <<>> /\ pc = "ascend"
      /\ path \in Seq(Pages) /\ key \in want
      /\ tree.root # 0 /\ tree.root \in 1 .. tree.pages /\ tree.pages \in 1 .. MaxPages
      /\ file.node \in [Pages -> Nodes]
      /\ file.header.size = tree.size /\ stable.header.size \in Nat /\ tree.size \in Nat
      /\ Cardinality(want) = tree.size + 1 /\ stable.header.size < Cardinality(want)
  BY <1>1, AscendingTypes
<1>5. P \in 0 .. MaxPages /\ a \in 1 .. P /\ a \in Pages /\ a \in 0 .. MaxPages
  <2>1. a \in 1 .. P
    BY <1>3 DEF TakesUp
  <2> QED BY <2>1, <1>4, SizesAre DEF Pages
<1>6. n \in Nodes /\ (Filled(N[a]) => Filled(n)) /\ Shaped(N2, lo, hi, hi, lv, P, want)
  <2>1. /\ ks = InsertAt(N[a].keys, UpperBound(N[a].keys, k), m)
        /\ cs = InsertAt(N[a].kids, UpperBound(N[a].keys, k) + 1, q) /\ n = Internal(ks, cs)
    BY DEF UpKeys, UpKids, Node
  <2>2. TakesUp(N, lo, hi, top, lv, P, want, a, k, c, m, q) /\ Len(ks) <= MaxKeys /\ P \in 0 .. MaxPages
    BY ONLY <1>1, <1>3, <1>5
  <2> HIDE DEF a, ks, cs, n, N, P, k, c, m, q
  <2>3. n \in Nodes /\ (Filled(N[a]) => Filled(n)) /\ Shaped([N EXCEPT ![a] = n], lo, hi, hi, lv, P, want)
    BY ONLY <2>1, <2>2, KidInsertShaped
  <2> QED BY ONLY <2>3 DEF N2
<1> HIDE DEF a, ks, cs, n, N
<1>7. Leads(N, w, N2)
  BY <1>4, <1>5, LeadsOne DEF N
<1>8. w \in Seq(Writes) /\ Len(w) = 1 /\ w[1] = NodeWrite(a, n) /\ w # <<>>
  <2>1. NodeWrite(a, n) \in Writes
    BY <1>5, <1>6, WritesAre
  <2> QED BY <2>1
<1>9. w[1].kind = "node"
  BY <1>8, WriteIs
<1> HIDE DEF w, N2
<1>10. FilledRight(N2, P, tree.root)
  <2>1. \A p \in 1 .. P : p # tree.root => Filled(N[p])
    BY <1>3 DEF FilledRight
  <2>2. \A p \in 1 .. P : p \in Pages /\ N2[p] = IF p = a THEN n ELSE N[p]
    BY <1>4, SizesAre DEF N2, N, Pages
  <2> HIDE DEF P
  <2> QED BY <2>1, <2>2, <1>6 DEF FilledRight
<1>11. (\E N3, lo2, hi2, top2, lv2, D2 : GrownRight(N3, lo2, hi2, top2, lv2, D2))'
  <2>1. ~IsPending(pc', carry') /\ pc' = "ascend"
    BY <1>2, <1>4 DEF IsPending
  <2>2. MaxInt \notin want' => \A x \in want : x < tree'.nextId \/ x = key'
    BY <1>2, <1>3
  <2>3. file'.node = N
    BY <1>2 DEF N
  <2>4. Grown(N2, lo, hi, hi, lv, want, file'.node, todo', tree', pc', path', key', carry', want')
    BY <1>2, <1>3, <1>4, <1>6, <1>7, <1>10, <2>1, <2>2, <2>3 DEF Grown
  <2> QED BY <2>4, NewGrown
<1>12. HeadersRight'
  <2>1. \A i \in 1 .. Len(todo') : todo'[i].kind = "header" => todo'[i].header.size = tree.size
    <3>1. \A i \in 1 .. Len(w) : i = 1
      BY <1>8
    <3> QED BY <3>1, <1>2, <1>9
  <2>2. /\ file'.header.size = tree.size /\ tree'.size = tree.size /\ pc' = "ascend" /\ tree.size \in Nat
        /\ stable'.header.size \in Nat /\ Cardinality(want') \in Nat /\ stable'.header.size < Cardinality(want')
    BY <1>2, <1>4
  <2> QED BY <2>1, <2>2, AscentHeaders
<1>13. TypeOK'
  <2>1. Front(path) \in Seq(Pages)
    BY <1>1, <1>4, PathIs
  <2> QED BY <2>1, <1>2, <1>4, <1>8 DEF TypeOK
<1>14. ControlRight'
  BY <1>2, <1>4 DEF ControlRight
<1> QED BY <1>11, <1>12, <1>13, <1>14 DEF TreeInv

(* The parent takes the new page and is parted itself.                     *)
LEMMA InternalSplitKeeps == ASSUME TreeInv, InternalSplit PROVE TreeInv'
<1> DEFINE a == Here
           ks == UpKeys
           cs == UpKids
           grown == Allocated(tree)
           r == grown.pages
           half == SplitPoint(ks)
           m == ks[half + 1]
           n1 == Internal(SubSeq(ks, 1, half), SubSeq(cs, 1, half + 1))
           n2 == Internal(SubSeq(ks, half + 2, Len(ks)), SubSeq(cs, half + 2, Len(cs)))
           N == file.node
           N2 == [N EXCEPT ![a] = n1, ![r] = n2]
           w == AllocateWrites(grown) \o <<NodeWrite(a, n1), NodeWrite(r, n2)>>
           P == tree.pages
           k == key
           c == Child(N[a], k)
           b == carry[1]
           q == carry[2]
<1>1. Reading("ascend") /\ path # <<>> /\ carry # <<>> /\ Len(ks) > MaxKeys /\ P < MaxPages
  BY DEF InternalSplit, CanAllocate
<1>2. /\ todo' = w /\ carry' = <<m, r>> /\ tree' = grown /\ path' = Front(path) /\ pc' = pc
      /\ file' = file /\ stable' = stable /\ key' = key /\ want' = want
  BY DEF InternalSplit
<1>3. PICK lo, hi, top, lv :
              /\ TakesUp(N, lo, hi, top, lv, P, want, a, k, c, b, q)
              /\ RootRight(lo, hi, lv, P, tree.root, tree.first)
              /\ FilledRight(N, P, tree.root)
              /\ PathRight(N, lo, hi, lv, P, tree.root, path, k)
              /\ MaxInt \notin want => \A x \in want : x < tree.nextId \/ x = k
  BY <1>1, Climbing
<1>4. /\ TypeOK /\ IsFiniteSet(want) /\ todo = <<>> /\ pc = "ascend"
      /\ path \in Seq(Pages) /\ path # <<>> /\ key \in want /\ key \in Int
      /\ tree.root # 0 /\ tree.root \in 1 .. tree.pages /\ tree.pages \in 1 .. MaxPages
      /\ tree \in Headers /\ file.node \in [Pages -> Nodes]
      /\ file.header.size = tree.size /\ stable.header.size \in Nat /\ tree.size \in Nat
      /\ Cardinality(want) = tree.size + 1 /\ stable.header.size < Cardinality(want)
  BY <1>1, AscendingTypes
<1>5. /\ grown \in Headers /\ r = P + 1 /\ grown.root = tree.root /\ grown.first = tree.first
      /\ grown.size = tree.size /\ grown.nextId = tree.nextId
      /\ P \in 1 .. MaxPages - 1 /\ P \in 0 .. MaxPages /\ r \in Pages /\ r \in 0 .. MaxPages
  BY ONLY <1>1, <1>4, NewPage
<1> HIDE DEF grown, r
<1>6. a \in 1 .. P /\ a \in Pages /\ a \in 0 .. MaxPages
  <2>1. a \in 1 .. P
    BY <1>3 DEF TakesUp
  <2> QED BY <2>1, <1>4, SizesAre DEF Pages
<1> DEFINE lo2 == CutLo(lo, r, m)
           hi2 == CutHi(hi, a, r, m)
           top2 == CutTop(hi, a, r)
           lv2 == CutLv(lv, a, r)
<1>7. /\ n1 \in Nodes /\ n2 \in Nodes /\ Filled(n1) /\ Filled(n2) /\ m \in Ints /\ lo[a] < m /\ m < hi[a]
      /\ Shaped(N2, lo2, hi2, top2, lv2, P + 1, want)
  <2>1. /\ ks = InsertAt(N[a].keys, UpperBound(N[a].keys, k), b)
        /\ cs = InsertAt(N[a].kids, UpperBound(N[a].keys, k) + 1, q)
    BY DEF UpKeys, UpKids, Node
  <2>2. /\ TakesUp(N, lo, hi, top, lv, P, want, a, k, c, b, q) /\ Len(ks) > MaxKeys
        /\ r = P + 1 /\ P \in 1 .. MaxPages - 1
    BY ONLY <1>1, <1>3, <1>5
  <2>3. /\ half = SplitPoint(ks) /\ m = ks[half + 1]
        /\ n1 = Internal(SubSeq(ks, 1, half), SubSeq(cs, 1, half + 1))
        /\ n2 = Internal(SubSeq(ks, half + 2, Len(ks)), SubSeq(cs, half + 2, Len(cs)))
    OBVIOUS
  <2> HIDE DEF a, ks, cs, half, m, n1, n2, N, P, k, c, b, q
  <2>4. PageSplit(N, lo, hi, lv, P, want, a, r, m, n1, n2)
    BY ONLY <2>1, <2>2, <2>3, KidSplitShaped
  <2> QED BY ONLY <2>4 DEF PageSplit, N2, lo2, hi2, top2, lv2
<1>8. Here = Last(path)
  BY DEF Here
<1> HIDE DEF ks, cs, half, m, n1, n2, N
<1>9. lo \in [Pages -> Int] /\ hi \in [Pages -> Int] /\ lv \in [Pages -> Nat] /\ m \in Int
  BY <1>3, <1>7, IntsAre DEF Shaped, TakesUp
<1>10. Cut(lo, hi, lv, P, a, r, m, lo2, hi2, lv2, top2)
  BY ONLY <1>6, <1>5, <1>9, CutIs DEF lo2, hi2, lv2, top2
<1> HIDE DEF lo2, hi2, top2, lv2
<1> DEFINE root == tree.root
           s == path
<1>11. /\ RootRight(lo2, top2, lv2, r, root, tree.first)
       /\ FilledRight(N2, r, IF Front(s) = <<>> THEN 0 ELSE root)
       /\ PathRight(N2, lo2, hi2, lv2, r, root, Front(s), k)
       /\ SplitBelow(N2, lo2, hi2, top2, lv2, r, root, Front(s), k, m, r)
  <2>1. N \in [Pages -> Nodes] /\ RootRight(lo, hi, lv, P, root, tree.first) /\ FilledRight(N, P, root)
        /\ s \in Seq(Pages) /\ s # <<>> /\ k \in Int /\ PathRight(N, lo, hi, lv, P, root, s, k) /\ a = Last(s)
    BY <1>3, <1>4, <1>8 DEF N
  <2>2. N2 = [N EXCEPT ![a] = n1, ![r] = n2]
    OBVIOUS
  <2> DEFINE first == tree.first
  <2> HIDE DEF a, P, k, root, s, N2, first
  <2>3. N \in [Pages -> Nodes] /\ RootRight(lo, hi, lv, P, root, first) /\ FilledRight(N, P, root)
        /\ s \in Seq(Pages) /\ s # <<>> /\ k \in Int /\ PathRight(N, lo, hi, lv, P, root, s, k) /\ a = Last(s)
    BY <2>1 DEF first
  <2>4. PathSplit(N2, lo2, hi2, top2, lv2, r, root, first, Front(s), k, m)
    BY ONLY <2>2, <2>3, <1>5, <1>7, <1>9, <1>10, SplitPath
  <2> QED BY ONLY <2>4 DEF first, PathSplit
<1>12. Leads(N, w, N2)
  <2>1. N \in [Pages -> Nodes] /\ r \in Pages /\ grown.pages = r /\ a \in Pages /\ a # r
    BY <1>4, <1>6, <1>5 DEF N, r
  <2> HIDE DEF a, P
  <2> QED BY ONLY <2>1, LeadsSplit DEF w, N2
<1>13. /\ w \in Seq(Writes) /\ w # <<>>
       /\ \A i \in 1 .. Len(w) : w[i].kind = "header" => w[i].header.size = grown.size
  <2>1. w = AllocateWrites(grown) \o <<NodeWrite(a, n1), NodeWrite(r, n2)>>
    OBVIOUS
  <2> HIDE DEF a, P, w
  <2>2. WritesWith(w, grown.size)
    BY ONLY <2>1, <1>5, <1>6, <1>7, SplitWrites
  <2> QED BY ONLY <2>2 DEF WritesWith
<1> HIDE DEF w, N2
<1>14. carry' # <<>> /\ carry'[1] = m /\ carry'[2] = r /\ carry' \in Ints \X Pages
  BY <1>2, <1>5, <1>7
<1>15. (\E N3, lo3, hi3, top3, lv3, D3 : GrownRight(N3, lo3, hi3, top3, lv3, D3))'
  <2>1. IsPending(pc', carry') /\ pc' = "ascend"
    BY <1>2, <1>4, <1>14 DEF IsPending
  <2>2. MaxInt \notin want' => \A x \in want : x < tree'.nextId \/ x = key'
    BY <1>2, <1>3, <1>5
  <2>3. file'.node = N
    BY <1>2 DEF N
  <2>4. /\ tree'.pages = r /\ tree'.root = root /\ tree'.first = tree.first /\ tree'.size = tree.size
        /\ P + 1 = r
    BY <1>2, <1>5 DEF r
  <2>5. Shaped(N2, lo2, hi2, top2, lv2, tree'.pages, want)
    BY <1>7, <2>4
  <2>6. Grown(N2, lo2, hi2, top2, lv2, want, file'.node, todo', tree', pc', path', key', carry', want')
    BY <1>2, <1>4, <1>11, <1>12, <1>14, <2>1, <2>2, <2>3, <2>4, <2>5 DEF Grown
  <2> QED BY <2>6, NewGrown
<1>16. HeadersRight'
  <2>1. /\ file'.header.size = tree.size /\ tree'.size = tree.size /\ pc' = "ascend" /\ tree.size \in Nat
        /\ stable'.header.size \in Nat /\ Cardinality(want') \in Nat /\ stable'.header.size < Cardinality(want')
    BY <1>2, <1>4, <1>5
  <2>2. \A i \in 1 .. Len(todo') : todo'[i].kind = "header" => todo'[i].header.size = tree.size
    BY <1>2, <1>5, <1>13
  <2> QED BY <2>1, <2>2, AscentHeaders
<1>17. TypeOK'
  <2>1. Front(path) \in Seq(Pages)
    BY <1>4, PathIs
  <2> QED BY <2>1, <1>2, <1>4, <1>5, <1>13, <1>14 DEF TypeOK
<1>18. ControlRight'
  BY <1>2, <1>4, <1>5 DEF ControlRight
<1> QED BY <1>15, <1>16, <1>17, <1>18 DEF TreeInv

(* The root was split.                                                     *)
LEMMA NewRootKeeps == ASSUME TreeInv, NewRoot PROVE TreeInv'
<1> DEFINE grown == Allocated(tree)
           r == grown.pages
           new == [grown EXCEPT !.root = r]
           c == tree.root
           m == carry[1]
           q == carry[2]
           n == Internal(<<m>>, <<c, q>>)
           N == file.node
           N2 == [N EXCEPT ![r] = n]
           x == NodeWrite(r, n)
           w == AllocateWrites(grown) \o <<x>>
           P == tree.pages
<1>1. Reading("ascend") /\ path = <<>> /\ carry # <<>> /\ P < MaxPages
  BY DEF NewRoot, CanAllocate
<1>2. /\ todo' = w /\ carry' = <<>> /\ tree' = new /\ path' = path /\ pc' = pc
      /\ file' = file /\ stable' = stable /\ key' = key /\ want' = want
  BY DEF NewRoot
<1>3. /\ TypeOK /\ IsFiniteSet(want) /\ todo = <<>> /\ pc = "ascend" /\ carry \in Ints \X Pages
      /\ path \in Seq(Pages) /\ key \in want
      /\ tree.root # 0 /\ tree.root \in 1 .. tree.pages /\ tree.pages \in 1 .. MaxPages
      /\ tree \in Headers /\ file.node \in [Pages -> Nodes]
      /\ file.header.size = tree.size /\ stable.header.size \in Nat /\ tree.size \in Nat
      /\ Cardinality(want) = tree.size + 1 /\ stable.header.size < Cardinality(want)
  BY <1>1, AscendingTypes
<1>4. PICK lo, hi, top, lv :
         Grown(file.node, lo, hi, top, lv, want, file.node, <<>>, tree, "ascend", path, key, carry, want)
  BY <1>1, AscendingTypes
<1>5. /\ Shaped(N, lo, hi, top, lv, P, want) /\ RootRight(lo, top, lv, P, c, tree.first)
      /\ FilledRight(N, P, 0) /\ SplitBelow(N, lo, hi, top, lv, P, c, path, key, m, q)
      /\ MaxInt \notin want => \A i \in want : i < tree.nextId \/ i = key
  BY <1>1, <1>4 DEF Grown, IsPending
<1>6. /\ c \in 1 .. P /\ q \in 1 .. P /\ q # c /\ m \in Ints /\ hi[c] = m /\ lo[q] = m /\ lv[q] = lv[c]
      /\ top = [hi EXCEPT ![c] = hi[q]] /\ lo[c] = Low /\ top[c] = High /\ lv[c] < P
      /\ (\A p \in 1 .. P : lv[p] <= lv[c])
      /\ tree.first \in 1 .. P /\ lo[tree.first] = Low /\ lv[tree.first] = 0
  BY <1>1, <1>3, <1>5 DEF SplitBelow, Below, RootRight
<1>7. /\ grown \in Headers /\ r = P + 1 /\ grown.root = tree.root /\ grown.first = tree.first
      /\ grown.size = tree.size /\ grown.nextId = tree.nextId
      /\ P \in 1 .. MaxPages - 1 /\ P \in 0 .. MaxPages /\ r \in Pages /\ r \in 0 .. MaxPages
  BY ONLY <1>1, <1>3, NewPage
<1> HIDE DEF grown
<1>8. /\ new \in Headers /\ new.root = r /\ new.pages = r /\ new.first = tree.first
      /\ new.size = tree.size /\ new.nextId = tree.nextId
  <2>1. \A p \in 0 .. MaxPages : LET g == [grown EXCEPT !.root = p]
                 IN  /\ g \in Headers /\ g.root = p /\ g.pages = grown.pages
                     /\ g.first = grown.first /\ g.size = grown.size /\ g.nextId = grown.nextId
    BY <1>7, HeaderSteps
  <2>2. LET g == [grown EXCEPT !.root = r]
        IN  /\ g \in Headers /\ g.root = r /\ g.pages = grown.pages
            /\ g.first = grown.first /\ g.size = grown.size /\ g.nextId = grown.nextId
    BY ONLY <2>1, <1>7, Zenon
  <2> QED BY ONLY <2>2, <1>7
<1>9. grown.pages = r
  OBVIOUS
<1> HIDE DEF new, r
<1> DEFINE lo2 == [lo EXCEPT ![r] = Low]
           hi2 == [hi EXCEPT ![r] = High]
           lv2 == [lv EXCEPT ![r] = lv[c] + 1]
<1>10. n \in Nodes /\ Shaped(N2, lo2, hi2, hi2, lv2, P + 1, want)
  <2>1. n = Internal(<<m>>, <<c, q>>) /\ hi2 = [hi EXCEPT ![r] = High]
    OBVIOUS
  <2>2. /\ P \in 1 .. MaxPages - 1 /\ r = P + 1 /\ Shaped(N, lo, hi, top, lv, P, want) /\ c \in 1 .. P /\ q \in 1 .. P
        /\ q # c /\ m \in Ints /\ hi[c] = m /\ lo[q] = m /\ lv[q] = lv[c]
        /\ top = [hi EXCEPT ![c] = hi[q]] /\ lo[c] = Low /\ top[c] = High /\ \A p \in 1 .. P : lv[p] <= lv[c]
    BY ONLY <1>5, <1>6, <1>7
  <2> HIDE DEF n, N, P, c, m, q, hi2
  <2>3. RootAbove(N, lo, hi2, lv, P, want, c, r, n)
    <3>1. NeedsRoot(N, lo, hi, top, lv, P, want, c, q, m, r, n, hi2)
      BY ONLY <2>1, <2>2 DEF NeedsRoot
    <3> QED BY ONLY <3>1, <2>2, NewRootShaped
  <2> QED BY ONLY <2>3 DEF RootAbove, N2, lo2, lv2
<1> HIDE DEF n
<1>11. /\ lo \in [Pages -> Int] /\ hi \in [Pages -> Int] /\ lv \in [Pages -> Nat]
       /\ (\A p \in 1 .. P : p \in Pages /\ p # r) /\ (\A p \in 1 .. r : p # r => p \in 1 .. P)
       /\ (\A p \in 1 .. P : p \in 1 .. r) /\ r \in 1 .. r /\ P < r
  <2>1. lo \in [Pages -> Int] /\ hi \in [Pages -> Int] /\ lv \in [Pages -> Nat]
    BY <1>5 DEF Shaped
  <2>2. r = P + 1 /\ P \in 1 .. MaxPages - 1 /\ MaxPages \in Nat
    BY <1>7, SizesAre
  <2> HIDE DEF P
  <2>3. (\A p \in 1 .. P : p \in Pages /\ p # r) /\ (\A p \in 1 .. P : p \in 1 .. r)
    BY ONLY <2>2 DEF Pages
  <2>4. (\A p \in 1 .. r : p # r => p \in 1 .. P) /\ r \in 1 .. r /\ P < r
    BY ONLY <2>2
  <2> QED BY <2>1, <2>3, <2>4
<1>12. /\ \A p \in 1 .. P : lo2[p] = lo[p] /\ lv2[p] = lv[p] /\ N2[p] = N[p]
       /\ lo2[r] = Low /\ hi2[r] = High /\ lv2[r] = lv[c] + 1 /\ N2[r] = n
  BY <1>3, <1>7, <1>11
<1>13. Leads(N, w, N2)
  <2>1. N \in [Pages -> Nodes] /\ r \in Pages
    BY <1>3, <1>7
  <2> HIDE DEF N, P
  <2> QED BY ONLY <2>1, <1>9, LeadsAllocated DEF w, x, N2
<1> HIDE DEF N, N2, lo2, hi2, lv2
<1>14. RootRight(lo2, hi2, lv2, r, r, tree.first)
  <2>1. lv2[r] < r /\ lv[c] \in Nat
    BY <1>6, <1>7, <1>11, <1>12
  <2>2. \A p \in 1 .. r : lv2[p] <= lv2[r]
    <3> TAKE p \in 1 .. r
    <3>1. CASE p = r
      BY <2>1, <3>1, <1>12
    <3>2. CASE p # r
      <4>1. p \in 1 .. P /\ lv2[p] = lv[p] /\ lv[p] <= lv[c] /\ lv[p] \in Nat
        BY <3>2, <1>6, <1>11, <1>12
      <4> QED BY ONLY <4>1, <2>1, <1>12
    <3> QED BY <3>1, <3>2
  <2>3. tree.first \in 1 .. r /\ lo2[tree.first] = Low /\ lv2[tree.first] = 0
    BY <1>6, <1>11, <1>12
  <2> QED BY <2>1, <2>2, <2>3, <1>11, <1>12 DEF RootRight
<1>15. FilledRight(N2, r, r)
  <2>1. ASSUME NEW p \in 1 .. r, p # r PROVE Filled(N2[p])
    <3>1. p \in 1 .. P /\ p # 0 /\ N2[p] = N[p]
      BY <2>1, <1>11, <1>12
    <3> QED BY <3>1, <1>5 DEF FilledRight
  <2> QED BY <2>1 DEF FilledRight
<1>16. x \in Writes /\ x.kind = "node"
  BY <1>7, <1>10, WritesAre, WriteIs
<1> HIDE DEF x
<1>17. /\ w \in Seq(Writes) /\ w # <<>>
       /\ \A i \in 1 .. Len(w) : w[i].kind = "header" => w[i].header.size = tree.size
  <2>1. /\ \A y \in Writes : AllocateWrites(grown) \o <<y>> \in Seq(Writes)
        /\ \A y : LET v == AllocateWrites(grown) \o <<y>>
                  IN  Len(v) = 3 /\ v[1] = HeaderWrite(grown) /\ v[2].kind = "node" /\ v[3] = y
    BY <1>7, StepWrites
  <2>2. w \in Seq(Writes) /\ Len(w) = 3 /\ w[1] = HeaderWrite(grown) /\ w[2].kind = "node" /\ w[3] = x
    BY ONLY <2>1, <1>16 DEF w
  <2> HIDE DEF w
  <2>3. w[1].header = grown /\ grown.size = tree.size
    BY <2>2, <1>7, WriteIs
  <2>4. \A i \in 1 .. Len(w) : i = 1 \/ i = 2 \/ i = 3
    BY ONLY <2>2
  <2>5. \A i \in 1 .. Len(w) : w[i].kind = "header" => w[i].header.size = tree.size
    BY ONLY <1>16, <2>2, <2>3, <2>4
  <2>6. w # <<>>
    <3>1. w \in Seq(Writes) /\ Len(w) # 0
      BY ONLY <2>2
    <3> QED BY ONLY <3>1, EmptySeq
  <2> QED BY <2>2, <2>5, <2>6
<1> HIDE DEF w
<1>18. (\E N3, lo3, hi3, top3, lv3, D3 : GrownRight(N3, lo3, hi3, top3, lv3, D3))'
  <2>1. ~IsPending(pc', carry') /\ pc' = "ascend"
    BY <1>2, <1>3 DEF IsPending
  <2>2. MaxInt \notin want' => \A i \in want : i < tree'.nextId \/ i = key'
    BY <1>2, <1>5, <1>8
  <2>3. file'.node = N
    BY <1>2 DEF N
  <2>4. tree'.pages = r /\ tree'.root = r /\ tree'.first = tree.first /\ tree'.size = tree.size /\ P + 1 = r
    BY <1>2, <1>7, <1>8
  <2>5. Shaped(N2, lo2, hi2, hi2, lv2, tree'.pages, want)
    BY <1>10, <2>4
  <2>6. Grown(N2, lo2, hi2, hi2, lv2, want, file'.node, todo', tree', pc', path', key', carry', want')
    BY <1>2, <1>3, <1>13, <1>14, <1>15, <2>1, <2>2, <2>3, <2>4, <2>5 DEF Grown
  <2> QED BY <2>6, NewGrown
<1>19. HeadersRight'
  <2>1. /\ file'.header.size = tree.size /\ tree'.size = tree.size /\ pc' = "ascend" /\ tree.size \in Nat
        /\ stable'.header.size \in Nat /\ Cardinality(want') \in Nat /\ stable'.header.size < Cardinality(want')
    BY <1>2, <1>3, <1>8
  <2>2. \A i \in 1 .. Len(todo') : todo'[i].kind = "header" => todo'[i].header.size = tree.size
    BY <1>2, <1>17
  <2> QED BY <2>1, <2>2, AscentHeaders
<1>20. TypeOK'
  BY <1>2, <1>3, <1>8, <1>17 DEF TypeOK
<1>21. ControlRight'
  <2>1. r # 0
    BY <1>7
  <2> QED BY <2>1, <1>2, <1>3, <1>8 DEF ControlRight
<1> QED BY <1>18, <1>19, <1>20, <1>21 DEF TreeInv

(* A new file has no tree.                                                 *)
LEMMA InitRight == ASSUME Init PROVE TreeInv
<1>1. /\ file = [header |-> EmptyHeader, node |-> [p \in Pages |-> ZeroNode]] /\ stable = file
      /\ tree = EmptyHeader /\ pc = "idle" /\ key = 1 /\ path = <<>> /\ carry = <<>> /\ todo = <<>> /\ want = {}
  BY DEF Init
<1>2. EmptyHeader \in Headers /\ ZeroNode \in Nodes /\ EmptyHeader.root = 0 /\ EmptyHeader.size = 0
  BY WritesAre DEF EmptyHeader
<1>3. file \in Files /\ file.header = EmptyHeader
  BY <1>1, <1>2 DEF Files
<1>4. TypeOK
  <2>1. 1 \in Ints
    BY MachineIntAssumption DEF Ints, MinInt
  <2>2. path \in Seq(Pages) /\ todo \in Seq(Writes)
    BY <1>1
  <2> QED BY <2>1, <2>2, <1>1, <1>2, <1>3 DEF TypeOK
<1>5. IsFiniteSet(want) /\ Cardinality(want) = 0
  BY <1>1, FS_EmptySet
<1>6. ControlRight
  BY <1>1, <1>5 DEF ControlRight
<1>7. HeadersRight
  BY <1>1, <1>2, <1>3, <1>5 DEF HeadersRight, AtRest
<1>8. tree.root = 0 /\ Fresh
  BY <1>1, <1>2, <1>3 DEF Fresh
<1> QED BY <1>4, <1>6, <1>7, <1>8 DEF TreeInv

(* Whatever is inserted in whatever order, at every point of every insert: *)
(* once the writes that are pending are done, the pages form a search tree *)
(* whose leaves hold the inserted ids, and the headers count them.         *)
THEOREM TreeInvariance == Spec => []TreeInv
<1>1. Init => TreeInv
  BY InitRight
<1>2. TreeInv /\ [Next]_vars => TreeInv'
  <2> SUFFICES ASSUME TreeInv, [Next]_vars PROVE TreeInv'
    OBVIOUS
  <2>1. CASE Write
    BY <2>1, WriteKeeps
  <2>2. ASSUME NEW k \in Keys, InsertFirst(k) PROVE TreeInv'
    BY <2>2, InsertFirstKeeps
  <2>3. ASSUME NEW k \in Keys, InsertBegin(k) PROVE TreeInv'
    BY <2>3, InsertBeginKeeps
  <2>4. CASE Descend
    BY <2>4, DescendKeeps
  <2>5. CASE DuplicateKey
    BY <2>5, DuplicateKeyKeeps
  <2>6. CASE LeafInsert
    BY <2>6, LeafInsertKeeps
  <2>7. CASE LeafSplit
    BY <2>7, LeafSplitKeeps
  <2>8. CASE InternalInsert
    BY <2>8, InternalInsertKeeps
  <2>9. CASE InternalSplit
    BY <2>9, InternalSplitKeeps
  <2>10. CASE NewRoot
    BY <2>10, NewRootKeeps
  <2>11. CASE InsertEnd
    BY <2>11, InsertEndKeeps
  <2>12. CASE Reopen
    BY <2>12, ReopenKeeps
  <2>13. CASE UNCHANGED vars
    <3>1. TypeOK' /\ ControlRight' /\ HeadersRight' /\ (Fresh => Fresh')
      BY <2>13 DEF TreeInv, TypeOK, ControlRight, HeadersRight, AtRest, Fresh, vars
    <3>2. ASSUME NEW N, NEW lo, NEW hi, NEW top, NEW lv, NEW D, GrownRight(N, lo, hi, top, lv, D)
          PROVE  GrownRight(N, lo, hi, top, lv, D)'
      BY <2>13, <3>2 DEF GrownRight, vars
    <3>3. tree' = tree
      BY <2>13 DEF vars
    <3> QED BY <3>1, <3>2, <3>3 DEF TreeInv
  <2> QED BY <2>1, <2>2, <2>3, <2>4, <2>5, <2>6, <2>7, <2>8, <2>9, <2>10, <2>11, <2>12, <2>13 DEF Next
<1> QED BY <1>1, <1>2, PTL DEF Spec

(* Every variable keeps its type; pages never leave the file.              *)
THEOREM TypeCorrectness == Spec => []TypeOK
<1>1. TreeInv => TypeOK
  BY DEF TreeInv
<1> QED BY <1>1, TreeInvariance, PTL

-----------------------------------------------------------------------------
(* What the invariant says of searching                                    *)

(* A tree with nothing to write, whose leaves hold the ids of D.           *)
Settled(N, lo, hi, lv, P, D, root, first) ==
    /\ P \in 1 .. MaxPages /\ D \in SUBSET Keys
    /\ Shaped(N, lo, hi, hi, lv, P, D)
    /\ RootRight(lo, hi, lv, P, root, first)

(* What that says of a page.                                               *)
LEMMA SettledIs ==
    ASSUME NEW N, NEW lo, NEW hi, NEW lv, NEW P, NEW D, NEW root, NEW first,
           Settled(N, lo, hi, lv, P, D, root, first), NEW p \in 1 .. P
    PROVE  /\ p \in Pages /\ N[p] \in Nodes /\ lo[p] \in Int /\ hi[p] \in Int /\ lv[p] \in Nat
           /\ Low <= lo[p] /\ lo[p] < hi[p] /\ hi[p] <= High
           /\ Len(N[p].keys) <= MaxKeys
           /\ lv[p] = 0 => LeafRight(N[p], lo[p], hi[p], D) /\ LinkRight(N[p], hi[p], lo, lv, P)
           /\ lv[p] # 0 => KidsRight(N[p], lo[p], hi[p], lv[p], lo, hi, lv, P)
           /\ lv[p] = 0 <=> N[p].leaf
<1>1. P \in 0 .. MaxPages /\ Shaped(N, lo, hi, hi, lv, P, D)
  BY SizesAre DEF Settled
<1>2. /\ p \in Pages /\ N[p] \in Nodes /\ lo[p] \in Int /\ hi[p] \in Int /\ lv[p] \in Nat
      /\ Low <= lo[p] /\ lo[p] < hi[p] /\ hi[p] <= High
      /\ Len(N[p].keys) <= MaxKeys
      /\ lv[p] = 0 => LeafRight(N[p], lo[p], hi[p], D) /\ LinkRight(N[p], hi[p], lo, lv, P)
      /\ lv[p] # 0 => KidsRight(N[p], lo[p], hi[p], lv[p], lo, hi, lv, P)
  BY ONLY <1>1, p \in 1 .. P, PageIs
<1>3. lv[p] = 0 <=> N[p].leaf
  BY <1>2 DEF LeafRight, KidsRight
<1> QED BY <1>2, <1>3

(* One step down from a page that is responsible for k.                    *)
StepDown(N, p, k) == IF p = 0 \/ N[p].leaf THEN p ELSE Child(N[p], k)
OnTheWay(lo, hi, P, k) == {p \in 1 .. P : lo[p] <= k /\ k < hi[p]}

(* The child for k is responsible for k and one level down.                *)
LEMMA OneStepDown ==
    ASSUME NEW N, NEW lo, NEW hi, NEW lv, NEW P, NEW D, NEW root, NEW first,
           Settled(N, lo, hi, lv, P, D, root, first), NEW k \in Ints, NEW p \in OnTheWay(lo, hi, P, k)
    PROVE  /\ StepDown(N, p, k) \in OnTheWay(lo, hi, P, k)
           /\ lv[p] \in Nat /\ lv[StepDown(N, p, k)] = IF lv[p] = 0 THEN 0 ELSE lv[p] - 1
<1>1. p \in 1 .. P /\ lo[p] <= k /\ k < hi[p] /\ k \in Int
  BY IntsAre DEF OnTheWay
<1>2. /\ N[p] \in Nodes /\ lo[p] \in Int /\ hi[p] \in Int /\ lv[p] \in Nat /\ lo[p] < hi[p]
      /\ lv[p] # 0 => KidsRight(N[p], lo[p], hi[p], lv[p], lo, hi, lv, P)
      /\ lv[p] = 0 <=> N[p].leaf
  BY <1>1, SettledIs
<1>3. CASE N[p].leaf
  BY <1>2, <1>3 DEF StepDown
<1>4. CASE ~N[p].leaf
  <2> DEFINE ks == N[p].keys
             cs == N[p].kids
             u == UpperBound(ks, k)
             l == lo[p]
             h == hi[p]
             v == lv[p]
  <2>1. ks \in Seq(Int) /\ KidsPlaced(ks, cs, l, h, v, lo, hi, lv, P)
    BY <1>2, <1>4, NodeIs DEF KidsRight
  <2>2. StepDown(N, p, k) = cs[u]
    <3>1. P \in Int
      BY SizesAre DEF Settled
    <3>2. p # 0
      BY <1>1, <3>1
    <3> QED BY <1>4, <3>2 DEF StepDown, Child
  <2>3. u \in 1 .. Len(cs) /\ lo[cs[u]] <= k /\ k < hi[cs[u]]
    <3>1. l \in Int /\ h \in Int /\ l < h /\ l <= k /\ k < h
      BY <1>1, <1>2
    <3> HIDE DEF ks, cs, l, h, v
    <3> QED BY ONLY <1>1, <2>1, <3>1, ChildIs DEF u
  <2>4. \A i \in 1 .. Len(cs) : cs[i] \in 1 .. P /\ lv[cs[i]] = v - 1
    BY <2>1 DEF KidsPlaced
  <2> HIDE DEF ks, cs, u
  <2>5. cs[u] \in 1 .. P /\ lv[cs[u]] = v - 1
    BY ONLY <2>3, <2>4
  <2> QED BY <2>2, <2>3, <2>5, <1>2, <1>4 DEF OnTheWay
<1> QED BY <1>3, <1>4

(* The walk goes down one level at a time and stays on pages that are      *)
(* responsible for k.                                                      *)
WalksDown(f, lo, hi, lv, P, root, k) ==
    \A d \in 0 .. MaxPages :
        /\ Walk(f, root, k)[d] \in OnTheWay(lo, hi, P, k)
        /\ lv[Walk(f, root, k)[d]] = IF d <= lv[root] THEN lv[root] - d ELSE 0

(* By induction over the steps of the walk.                                *)
LEMMA WalkIs ==
    ASSUME NEW f, NEW lo, NEW hi, NEW lv, NEW P, NEW D, NEW root, NEW first,
           Settled(f.node, lo, hi, lv, P, D, root, first), NEW k \in Ints
    PROVE  WalksDown(f, lo, hi, lv, P, root, k)
<1> DEFINE N == f.node
           n == MaxPages
           S == OnTheWay(lo, hi, P, k)
           step == [i \in 1 .. n |-> [x \in S |-> StepDown(N, x, k)]]
           W == CHOOSE h : h = [d \in 0 .. n |-> IF d = 0 THEN root
                                                 ELSE LET p == h[d - 1]
                                                      IN  IF p = 0 \/ f.node[p].leaf THEN p ELSE Child(f.node[p], k)]
<1>1. n \in Nat /\ n >= 1
  BY SizesAre
<1>2. root \in S /\ lv[root] \in Nat
  <2>1. root \in 1 .. P /\ lo[root] = Low /\ hi[root] = High
    BY DEF Settled, RootRight
  <2> QED BY <2>1, SettledIs, IntsAre DEF OnTheWay
<1>3. \A x \in S : StepDown(N, x, k) \in S /\ lv[x] \in Nat
                   /\ lv[StepDown(N, x, k)] = IF lv[x] = 0 THEN 0 ELSE lv[x] - 1
  <2> TAKE x \in S
  <2> HIDE DEF N
  <2>1. Settled(N, lo, hi, lv, P, D, root, first)
    BY DEF N
  <2> QED BY <2>1, OneStepDown
<1>4. PICK g : IsRecursion(g, S, root, step, n)
  <2>1. step \in [1 .. n -> [S -> S]]
    BY <1>3
  <2> HIDE DEF S, step, n
  <2> QED BY <1>1, <1>2, <2>1, RecursionExists
<1>5. g = [d \in 0 .. n |-> IF d = 0 THEN root
                            ELSE LET p == g[d - 1]
                                 IN  IF p = 0 \/ f.node[p].leaf THEN p ELSE Child(f.node[p], k)]
  <2>1. g \in [0 .. n -> S] /\ g[0] = root /\ \A i \in 1 .. n : g[i] = step[i][g[i - 1]]
    BY <1>4 DEF IsRecursion
  <2>2. ASSUME NEW d \in 0 .. n, d # 0
        PROVE  g[d] = IF g[d - 1] = 0 \/ f.node[g[d - 1]].leaf THEN g[d - 1] ELSE Child(f.node[g[d - 1]], k)
    <3>1. d \in 1 .. n /\ d - 1 \in 0 .. n
      BY <2>2, <1>1
    <3>2. g[d - 1] \in S
      BY <2>1, <3>1
    <3>3. step[d][g[d - 1]] = StepDown(N, g[d - 1], k)
      BY <3>1, <3>2
    <3> QED BY <2>1, <3>1, <3>3 DEF StepDown
  <2> HIDE DEF S, step
  <2> QED BY <2>1, <2>2
<1> HIDE DEF S
<1>6. Walk(f, root, k) = W
  BY DEF Walk
<1>7. W = [d \in 0 .. n |-> IF d = 0 THEN root
                            ELSE LET p == W[d - 1]
                                 IN  IF p = 0 \/ f.node[p].leaf THEN p ELSE Child(f.node[p], k)]
  BY <1>5
<1> HIDE DEF W
<1>8. W[0] = root /\ \A d \in 1 .. n : W[d] = StepDown(N, W[d - 1], k)
  <2>1. 0 \in 0 .. n /\ \A d \in 1 .. n : d \in 0 .. n /\ d # 0
    BY <1>1
  <2> QED BY <1>7, <2>1 DEF StepDown
<1> DEFINE level(d) == IF d <= lv[root] THEN lv[root] - d ELSE 0
           T == {d \in Nat : d <= n => W[d] \in S /\ lv[W[d]] = level(d)}
<1> HIDE DEF N, n
<1>9. 0 \in T
  BY <1>1, <1>2, <1>8
<1>10. ASSUME NEW d \in Nat, d \in T PROVE d + 1 \in T
  <2>1. SUFFICES ASSUME d + 1 <= n PROVE W[d + 1] \in S /\ lv[W[d + 1]] = level(d + 1)
    OBVIOUS
  <2>2. d <= n /\ d + 1 \in 1 .. n /\ (d + 1) - 1 = d
    BY ONLY <2>1, <1>1, d \in Nat
  <2>3. W[d] \in S /\ lv[W[d]] = level(d)
    BY <2>2, <1>10
  <2>4. W[d + 1] = StepDown(N, W[d], k)
    BY <1>8, <2>2
  <2>5. W[d + 1] \in S /\ lv[W[d]] \in Nat /\ lv[W[d + 1]] = IF lv[W[d]] = 0 THEN 0 ELSE lv[W[d]] - 1
    BY ONLY <1>3, <2>3, <2>4
  <2>6. lv[W[d + 1]] = level(d + 1)
    BY ONLY <1>2, <2>3, <2>5, d \in Nat
  <2> QED BY <2>5, <2>6
<1>11. \A d \in Nat : d \in T
  <2> HIDE DEF T
  <2> QED BY <1>9, <1>10, SetInduction
<1>12. \A d \in 0 .. n : W[d] \in S /\ lv[W[d]] = level(d)
  BY <1>11, <1>1
<1> QED BY <1>6, <1>12 DEF WalksDown, n, S

(* find_leaf_page ends at the leaf that is responsible for k.              *)
LeafFound(N, lo, hi, lv, P, D, k, p) ==
    /\ p \in 1 .. P /\ lo[p] <= k /\ k < hi[p] /\ lv[p] = 0
    /\ N[p] \in Nodes /\ LeafRight(N[p], lo[p], hi[p], D)

(* The tree has fewer levels than the walk has steps.                      *)
LEMMA FindLeafIs ==
    ASSUME NEW f, NEW lo, NEW hi, NEW lv, NEW P, NEW D, NEW root, NEW first,
           Settled(f.node, lo, hi, lv, P, D, root, first), NEW k \in Ints
    PROVE  LeafFound(f.node, lo, hi, lv, P, D, k, FindLeaf(f, root, k))
<1> DEFINE p == FindLeaf(f, root, k)
           N == f.node
<1>1. MaxPages \in 0 .. MaxPages /\ p = Walk(f, root, k)[MaxPages]
  BY SizesAre DEF FindLeaf
<1>2. WalksDown(f, lo, hi, lv, P, root, k)
  BY WalkIs
<1>3. p \in OnTheWay(lo, hi, P, k) /\ lv[p] = IF MaxPages <= lv[root] THEN lv[root] - MaxPages ELSE 0
  BY <1>1, <1>2 DEF WalksDown
<1> HIDE DEF p, N
<1>4. Settled(N, lo, hi, lv, P, D, root, first) /\ root \in 1 .. P /\ P \in 1 .. MaxPages /\ lv[root] < P
  BY DEF N, Settled, RootRight
<1>5. lv[root] \in Nat
  BY <1>4, SettledIs
<1>6. lv[p] = 0
  BY ONLY <1>3, <1>4, <1>5, SizesAre
<1>7. p \in 1 .. P /\ lo[p] <= k /\ k < hi[p]
  BY <1>3 DEF OnTheWay
<1>8. N[p] \in Nodes /\ LeafRight(N[p], lo[p], hi[p], D)
  BY <1>4, <1>6, <1>7, SettledIs
<1> QED BY <1>6, <1>7, <1>8 DEF LeafFound, p, N

(* Between inserts the tree in the file is settled.                        *)
LEMMA AtRestIs ==
    ASSUME TreeInv, AtRest, tree.root # 0
    PROVE  \E lo, hi, lv :
              /\ Settled(file.node, lo, hi, lv, tree.pages, want, tree.root, tree.first)
              /\ FilledRight(file.node, tree.pages, tree.root)
<1>1. TypeOK /\ IsFiniteSet(want) /\ todo = <<>> /\ pc = "idle"
  BY DEF TreeInv, ControlRight, AtRest
<1>2. PICK N, lo, hi, top, lv, D : GrownRight(N, lo, hi, top, lv, D)
  BY DEF TreeInv
<1>3. N = file.node
  BY <1>1, <1>2, GrownNow
<1>4. tree.pages \in 1 .. MaxPages /\ want = D /\ want \in SUBSET Keys
  BY <1>1, <1>2, GrownSizes
<1>5. /\ Shaped(N, lo, hi, top, lv, tree.pages, D) /\ top = hi
      /\ RootRight(lo, top, lv, tree.pages, tree.root, tree.first)
      /\ FilledRight(N, tree.pages, tree.root)
  BY <1>1, <1>2 DEF GrownRight, Grown, IsPending
<1> QED BY <1>3, <1>4, <1>5 DEF Settled

(* The value stored with k in the leaf that is responsible for k.          *)
LEMMA FoundInLeaf ==
    ASSUME NEW N, NEW lo, NEW hi, NEW lv, NEW P, NEW D, NEW k, NEW p,
           LeafFound(N, lo, hi, lv, P, D, k, p)
    PROVE  /\ DOMAIN N[p].keys = 1 .. Len(N[p].keys)
           /\ k \in D => \E i \in DOMAIN N[p].keys : N[p].keys[i] = k /\ N[p].vals[i] = ValueOf[k]
           /\ \A i \in DOMAIN N[p].keys : N[p].keys[i] = k => k \in D /\ N[p].vals[i] = ValueOf[k]
<1> DEFINE ks == N[p].keys
           vs == N[p].vals
<1>1. DOMAIN ks = 1 .. Len(ks)
  BY NodeIs DEF LeafFound
<1>2. /\ lo[p] <= k /\ k < hi[p] /\ ToSet(ks) = {x \in D : lo[p] <= x /\ x < hi[p]}
      /\ \A i \in 1 .. Len(ks) : vs[i] = ValueOf[ks[i]]
  BY DEF LeafFound, LeafRight, PairsRight
<1>3. ToSet(ks) = {ks[i] : i \in DOMAIN ks}
  BY DEF ToSet
<1> HIDE DEF ks, vs
<1>4. k \in D => \E i \in DOMAIN ks : ks[i] = k /\ vs[i] = ValueOf[k]
  BY <1>1, <1>2, <1>3
<1>5. \A i \in DOMAIN ks : ks[i] = k => k \in D /\ vs[i] = ValueOf[k]
  BY <1>1, <1>2, <1>3
<1> QED BY <1>1, <1>4, <1>5 DEF ks, vs

(* The leaf that is found has the key if any leaf has it.                  *)
LEMMA SearchRight == ASSUME TreeInv PROVE SearchFindsInserted
<1> SUFFICES ASSUME AtRest, NEW k \in Keys PROVE Search(k) = IF k \in want THEN {ValueOf[k]} ELSE {}
  BY DEF SearchFindsInserted
<1>1. CASE tree.root = 0
  <2>1. ASSUME NEW N, NEW lo, NEW hi, NEW top, NEW lv, NEW D, GrownRight(N, lo, hi, top, lv, D) PROVE FALSE
    <3>1. tree.root \in 1 .. tree.pages /\ tree.pages \in 1 .. MaxPages
      BY <2>1, GrownSizes DEF TreeInv, ControlRight
    <3> QED BY <3>1, <1>1
  <2>2. want = {}
    BY <2>1 DEF TreeInv, Fresh
  <2> QED BY <1>1, <2>2 DEF Search
<1>2. CASE tree.root # 0
  <2>1. PICK lo, hi, lv : Settled(file.node, lo, hi, lv, tree.pages, want, tree.root, tree.first)
    BY <1>2, AtRestIs
  <2>2. k \in Ints
    BY SizesAre
  <2> DEFINE p == FindLeaf(file, tree.root, k)
             n == file.node[p]
  <2>3. LeafFound(file.node, lo, hi, lv, tree.pages, want, k, p)
    BY <2>1, <2>2, FindLeafIs
  <2>4. /\ k \in want => \E i \in DOMAIN n.keys : n.keys[i] = k /\ n.vals[i] = ValueOf[k]
        /\ \A i \in DOMAIN n.keys : n.keys[i] = k => k \in want /\ n.vals[i] = ValueOf[k]
    <3> HIDE DEF p
    <3> QED BY <2>3, FoundInLeaf
  <2>5. Search(k) = {n.vals[i] : i \in {j \in DOMAIN n.keys : n.keys[j] = k}}
    BY <1>2 DEF Search
  <2> HIDE DEF n
  <2> QED BY <2>4, <2>5
<1> QED BY <1>1, <1>2

(* bptree_search finds exactly the inserted ids, each with the offset it   *)
(* was inserted with, in whatever order they were inserted and however     *)
(* often the pages were split.                                             *)
THEOREM SearchIsRight == Spec => []SearchFindsInserted
<1>1. TreeInv => SearchFindsInserted
  BY SearchRight
<1> QED BY <1>1, TreeInvariance, PTL

(* The depth of a key is the level of the root.                            *)
LEMMA DepthIs ==
    ASSUME NEW lo, NEW hi, NEW lv, NEW P, NEW D, NEW first,
           Settled(file.node, lo, hi, lv, P, D, tree.root, first), NEW k \in Ints
    PROVE  Depth(k) = lv[tree.root]
<1> DEFINE N == file.node
           root == tree.root
           W == Walk(file, root, k)
           Right(d) == N[W[d]].leaf /\ \A e \in 0 .. d - 1 : ~N[W[e]].leaf
<1>1. Depth(k) = CHOOSE d \in 0 .. MaxPages : Right(d)
  BY DEF Depth
<1>2. WalksDown(file, lo, hi, lv, P, root, k)
  BY WalkIs
<1>3. \A d \in 0 .. MaxPages : W[d] \in 1 .. P /\ lv[W[d]] = IF d <= lv[root] THEN lv[root] - d ELSE 0
  BY <1>2 DEF WalksDown, OnTheWay
<1> HIDE DEF N, W
<1>4. Settled(N, lo, hi, lv, P, D, root, first) /\ root \in 1 .. P /\ P \in 1 .. MaxPages /\ lv[root] < P
  BY DEF N, Settled, RootRight
<1> HIDE DEF root
<1>5. \A p \in 1 .. P : lv[p] \in Nat /\ (lv[p] = 0 <=> N[p].leaf)
  BY <1>4, SettledIs
<1>6. lv[root] \in 0 .. MaxPages /\ lv[root] \in Nat /\ MaxPages \in Nat
  BY <1>4, <1>5, SizesAre
<1>7. \A d \in 0 .. MaxPages : N[W[d]].leaf <=> lv[root] <= d
  <2> TAKE d \in 0 .. MaxPages
  <2>1. lv[W[d]] = IF d <= lv[root] THEN lv[root] - d ELSE 0
    BY <1>3
  <2>2. lv[W[d]] = 0 <=> lv[root] <= d
    BY ONLY <1>6, <2>1, d \in 0 .. MaxPages
  <2> QED BY <2>2, <1>3, <1>5
<1>8. Right(lv[root])
  <2>1. \A e \in 0 .. lv[root] - 1 : e \in 0 .. MaxPages /\ ~(lv[root] <= e)
    BY ONLY <1>6
  <2> QED BY <2>1, <1>6, <1>7
<1>9. ASSUME NEW d \in 0 .. MaxPages, Right(d) PROVE d = lv[root]
  <2>1. lv[root] <= d
    BY <1>7, <1>9
  <2>2. CASE lv[root] < d
    <3>1. lv[root] \in 0 .. d - 1
      BY ONLY <1>6, <2>2, d \in 0 .. MaxPages
    <3> QED BY <3>1, <1>6, <1>7, <1>9
  <2> QED BY ONLY <1>6, <2>1, <2>2, d \in 0 .. MaxPages
<1> HIDE DEF Right
<1> QED BY <1>1, <1>6, <1>8, <1>9 DEF root

(* The invariant says so of every page.                                    *)
LEMMA BalanceRight == ASSUME TreeInv PROVE Balanced
<1> SUFFICES ASSUME AtRest, tree.root # 0
             PROVE  /\ \A j, k \in Keys : Depth(j) = Depth(k)
                    /\ \A p \in 1 .. tree.pages :
                          LET n == file.node[p]
                          IN  /\ Len(n.keys) <= MaxKeys
                              /\ p # tree.root /\ n.leaf => Len(n.keys) >= (MaxKeys + 1) \div 2
                              /\ p # tree.root /\ ~n.leaf => Len(n.keys) >= MaxKeys - (MaxKeys + 1) \div 2
                              /\ ~n.leaf => Len(n.kids) = Len(n.keys) + 1
  BY DEF Balanced
<1>1. PICK lo, hi, lv : /\ Settled(file.node, lo, hi, lv, tree.pages, want, tree.root, tree.first)
                        /\ FilledRight(file.node, tree.pages, tree.root)
  BY AtRestIs
<1>2. \A j, k \in Keys : Depth(j) = Depth(k)
  <2>1. \A k \in Keys : k \in Ints
    BY SizesAre
  <2>2. \A k \in Keys : Depth(k) = lv[tree.root]
    BY <1>1, <2>1, DepthIs
  <2> QED BY <2>2
<1>3. ASSUME NEW p \in 1 .. tree.pages
      PROVE  LET n == file.node[p]
             IN  /\ Len(n.keys) <= MaxKeys
                 /\ p # tree.root /\ n.leaf => Len(n.keys) >= (MaxKeys + 1) \div 2
                 /\ p # tree.root /\ ~n.leaf => Len(n.keys) >= MaxKeys - (MaxKeys + 1) \div 2
                 /\ ~n.leaf => Len(n.kids) = Len(n.keys) + 1
  <2> DEFINE n == file.node[p]
             P == tree.pages
  <2>1. /\ Len(n.keys) <= MaxKeys
        /\ lv[p] # 0 => KidsRight(n, lo[p], hi[p], lv[p], lo, hi, lv, P)
        /\ lv[p] = 0 <=> n.leaf
    BY <1>1, SettledIs
  <2>2. ~n.leaf => Len(n.kids) = Len(n.keys) + 1
    BY <2>1 DEF KidsRight, KidsPlaced
  <2>3. p # tree.root => Filled(n)
    BY <1>1 DEF FilledRight
  <2> HIDE DEF n
  <2>4. /\ p # tree.root /\ n.leaf => Len(n.keys) >= (MaxKeys + 1) \div 2
        /\ p # tree.root /\ ~n.leaf => Len(n.keys) >= MaxKeys - (MaxKeys + 1) \div 2
    BY ONLY <2>3 DEF Filled
  <2> QED BY <2>1, <2>2, <2>4 DEF n
<1> QED BY <1>2, <1>3

(* All leaves are equally deep, and every page but the root is at least    *)
(* half full, for every node size (BPTREE_MAX_KEYS) and order of insertion.*)
THEOREM TreeStaysBalanced == Spec => []Balanced
<1>1. TreeInv => Balanced
  BY BalanceRight
<1> QED BY <1>1, TreeInvariance, PTL

(* With nothing to write, D is the set of inserted ids.                    *)
LEMMA HeaderRight == ASSUME TreeInv, MaxInt \notin want PROVE HeaderAgrees
<1> SUFFICES ASSUME AtRest
             PROVE  tree = file.header /\ tree.size = Cardinality(want) /\ \A k \in want : k < tree.nextId
  BY DEF HeaderAgrees
<1>1. TypeOK /\ IsFiniteSet(want) /\ pc = "idle" /\ tree = file.header
  BY DEF TreeInv, ControlRight, HeadersRight, AtRest
<1>2. CASE Fresh
  BY <1>1, <1>2, FS_EmptySet DEF Fresh, EmptyHeader
<1>3. ASSUME NEW N, NEW lo, NEW hi, NEW top, NEW lv, NEW D, GrownRight(N, lo, hi, top, lv, D)
      PROVE  tree.size = Cardinality(want) /\ \A k \in want : k < tree.nextId
  <2>1. want = D /\ Cardinality(D) = tree.size
    BY <1>1, <1>3, GrownSizes
  <2>2. \A x \in D : x < tree.nextId
    BY <1>1, <1>3 DEF GrownRight, Grown
  <2> QED BY <2>1, <2>2
<1> QED BY <1>1, <1>2, <1>3 DEF TreeInv

(* Between inserts the struct in memory is the header in the file, counts  *)
(* the ids, and its next_id lies above all of them -- as long as the       *)
(* largest int is not one of them: then next_id wraps (bptree.c 615).      *)
THEOREM HeaderAgreement == Spec => [](MaxInt \notin want => HeaderAgrees)
<1>1. TreeInv => (MaxInt \notin want => HeaderAgrees)
  BY HeaderRight
<1> QED BY <1>1, TreeInvariance, PTL

-----------------------------------------------------------------------------
(* What the invariant says of the chain of leaves                          *)

(* c holds leaves from p on, each beginning where the one before ends.     *)
Linked(lo, hi, lv, P, p, c) ==
    /\ c \in Seq(1 .. P) /\ c # <<>> /\ c[1] = p
    /\ \A j \in 1 .. Len(c) : lv[c[j]] = 0
    /\ \A j \in 1 .. Len(c) - 1 : lo[c[j + 1]] = hi[c[j]]

(* And the last one ends with the largest id.                              *)
ChainRight(lo, hi, lv, P, p, c) == Linked(lo, hi, lv, P, p, c) /\ hi[Last(c)] = High

(* The pages of a chain.                                                   *)
LEMMA LinkedIs ==
    ASSUME NEW lo, NEW hi, NEW lv, NEW P, NEW p, NEW c, Linked(lo, hi, lv, P, p, c)
    PROVE  /\ Len(c) \in Nat /\ Len(c) >= 1 /\ Last(c) = c[Len(c)]
           /\ \A j \in 1 .. Len(c) : c[j] \in 1 .. P
           /\ Last(c) \in 1 .. P /\ lv[Last(c)] = 0
<1> DEFINE T == 1 .. P
<1>1. c \in Seq(T) /\ c # <<>>
  BY DEF Linked
<1> HIDE DEF T
<1>2. Len(c) \in Nat /\ Len(c) >= 1 /\ \A j \in 1 .. Len(c) : c[j] \in T
  BY <1>1, EmptySeq, ElementOfSeq
<1>3. Len(c) \in 1 .. Len(c)
  BY <1>2
<1> QED BY <1>2, <1>3 DEF Last, Linked, T

(* Later leaves of a chain hold larger ids.                                *)
LEMMA LinkedAscends ==
    ASSUME NEW lo, NEW hi, NEW lv, NEW P, NEW p, NEW c, Linked(lo, hi, lv, P, p, c),
           \A q \in 1 .. P : lo[q] \in Int /\ hi[q] \in Int /\ lo[q] < hi[q]
    PROVE  \A i, j \in 1 .. Len(c) : i < j => hi[c[i]] <= lo[c[j]]
<1> DEFINE n == Len(c)
           L == [j \in 1 .. n |-> lo[c[j]]]
           H == [j \in 1 .. n |-> hi[c[j]]]
           T == {j \in Nat : j \in 1 .. n => \A i \in 1 .. n : i < j => H[i] <= L[j]}
<1>1. n \in Nat /\ \A j \in 1 .. n : c[j] \in 1 .. P
  BY LinkedIs
<1>2. \A j \in 1 .. n : L[j] \in Int /\ H[j] \in Int /\ L[j] < H[j]
  BY <1>1
<1>3. \A j \in 1 .. n - 1 : L[j + 1] = H[j]
  <2> TAKE j \in 1 .. n - 1
  <2>1. j \in 1 .. n /\ j + 1 \in 1 .. n
    BY <1>1
  <2>2. lo[c[j + 1]] = hi[c[j]]
    BY DEF Linked
  <2> QED BY <2>1, <2>2
<1> HIDE DEF L, H, n
<1>4. 0 \in T
  OBVIOUS
<1>5. ASSUME NEW j \in Nat, j \in T PROVE j + 1 \in T
  <2>1. SUFFICES ASSUME j + 1 \in 1 .. n, NEW i \in 1 .. n, i < j + 1 PROVE H[i] <= L[j + 1]
    OBVIOUS
  <2>2. j \in 1 .. n - 1 /\ j \in 1 .. n /\ (i = j \/ i < j)
    BY ONLY <1>1, <2>1, j \in Nat
  <2>3. L[j + 1] = H[j]
    BY <1>3, <2>2
  <2>4. i < j => H[i] <= L[j]
    BY <1>5, <2>2
  <2> QED BY ONLY <1>2, <2>1, <2>2, <2>3, <2>4
<1> HIDE DEF T
<1>6. \A j \in Nat : j \in T
  BY <1>4, <1>5, SetInduction
<1>7. \A i, j \in 1 .. n : i < j => H[i] <= L[j]
  BY <1>1, <1>6 DEF T
<1> QED BY <1>7 DEF H, L, n

(* So no leaf comes twice, and a chain is not longer than the file.        *)
LEMMA LinkedShort ==
    ASSUME NEW lo, NEW hi, NEW lv, NEW P \in Nat, NEW p, NEW c, Linked(lo, hi, lv, P, p, c),
           \A q \in 1 .. P : lo[q] \in Int /\ hi[q] \in Int /\ lo[q] < hi[q]
    PROVE  Len(c) <= P
<1> DEFINE S == 1 .. Len(c)
           T == 1 .. P
<1>1. Len(c) \in Nat /\ \A j \in S : c[j] \in T
  BY LinkedIs
<1>2. \A i, j \in S : i < j => hi[c[i]] <= lo[c[j]]
  BY LinkedAscends
<1>3. ASSUME NEW i \in S, NEW j \in S, i < j PROVE c[i] # c[j]
  <2>1. hi[c[i]] <= lo[c[j]] /\ c[j] \in T
    BY <1>1, <1>2, <1>3
  <2> QED BY <2>1
<1>4. \A i, j \in S : i # j => c[i] # c[j]
  <2> TAKE i, j \in S
  <2>1. i # j => i < j \/ j < i
    BY <1>1
  <2> QED BY <2>1, <1>3
<1>5. /\ IsFiniteSet(S) /\ Cardinality(S) = Len(c)
      /\ IsFiniteSet(T) /\ Cardinality(T) = P
  <2>1. 1 \in Int /\ Len(c) \in Int /\ P \in Int
    BY <1>1
  <2>2. /\ IsFiniteSet(S) /\ Cardinality(S) = IF 1 > Len(c) THEN 0 ELSE Len(c) - 1 + 1
        /\ IsFiniteSet(T) /\ Cardinality(T) = IF 1 > P THEN 0 ELSE P - 1 + 1
    BY <2>1, FS_Interval
  <2>3. /\ (IF 1 > Len(c) THEN 0 ELSE Len(c) - 1 + 1) = Len(c)
        /\ (IF 1 > P THEN 0 ELSE P - 1 + 1) = P
    BY ONLY <1>1, P \in Nat
  <2> QED BY <2>2, <2>3
<1> DEFINE f == [j \in S |-> c[j]]
<1>6. f \in [S -> T] /\ \A x, y \in S : x # y => f[x] # f[y]
  BY <1>1, <1>4
<1> HIDE DEF S, T, f
<1>7. ~(Cardinality(T) < Cardinality(S))
  BY <1>5, <1>6, FS_PigeonHole
<1> QED BY <1>1, <1>5, <1>7

(* One step along the chain.                                               *)
NextLink(N, c) == IF N[Last(c)].next = 0 THEN c ELSE Append(c, N[Last(c)].next)

(* A chain goes on until a leaf has no successor.                          *)
LEMMA OneLink ==
    ASSUME NEW N, NEW lo, NEW hi, NEW lv, NEW P, NEW D, NEW root, NEW first,
           Settled(N, lo, hi, lv, P, D, root, first), NEW p, NEW c, Linked(lo, hi, lv, P, p, c)
    PROVE  /\ Linked(lo, hi, lv, P, p, NextLink(N, c))
           /\ N[Last(c)].next = 0 => NextLink(N, c) = c /\ hi[Last(c)] = High
           /\ N[Last(c)].next # 0 => Len(NextLink(N, c)) = Len(c) + 1
<1> DEFINE q == Last(c)
           r == N[q].next
           T == 1 .. P
<1>1. /\ Len(c) \in Nat /\ Len(c) >= 1 /\ q = c[Len(c)] /\ q \in 1 .. P /\ lv[q] = 0
      /\ c \in Seq(T) /\ c[1] = p
      /\ \A j \in 1 .. Len(c) : lv[c[j]] = 0
      /\ \A j \in 1 .. Len(c) - 1 : lo[c[j + 1]] = hi[c[j]]
  <2>1. Len(c) \in Nat /\ Len(c) >= 1 /\ q = c[Len(c)] /\ q \in 1 .. P /\ lv[q] = 0
    BY LinkedIs
  <2>2. /\ c \in Seq(T) /\ c[1] = p
        /\ \A j \in 1 .. Len(c) : lv[c[j]] = 0
        /\ \A j \in 1 .. Len(c) - 1 : lo[c[j + 1]] = hi[c[j]]
    BY DEF Linked
  <2> HIDE DEF q, T
  <2> QED BY <2>1, <2>2
<1> HIDE DEF q
<1>2. LinkRight(N[q], hi[q], lo, lv, P)
  BY <1>1, SettledIs
<1>3. CASE r = 0
  BY <1>2, <1>3 DEF NextLink, LinkRight, q
<1>4. CASE r # 0
  <2>1. r \in T /\ lv[r] = 0 /\ lo[r] = hi[q]
    BY <1>2, <1>4 DEF LinkRight
  <2> HIDE DEF T, r
  <2> DEFINE a == Append(c, r)
  <2>2. /\ a \in Seq(T) /\ a # <<>> /\ Len(a) = Len(c) + 1
        /\ \A i \in 1 .. Len(c) : a[i] = c[i]
        /\ a[Len(c) + 1] = r
    BY <1>1, <2>1, AppendProperties
  <2> HIDE DEF a
  <2>3. a[1] = p
    <3>1. 1 \in 1 .. Len(c)
      BY <1>1
    <3> QED BY <1>1, <2>2, <3>1
  <2>4. \A j \in 1 .. Len(a) : lv[a[j]] = 0
    <3>1. \A j \in 1 .. Len(a) : j \in 1 .. Len(c) \/ j = Len(c) + 1
      BY <1>1, <2>2
    <3> QED BY <1>1, <2>1, <2>2, <3>1
  <2>5. ASSUME NEW j \in 1 .. Len(a) - 1 PROVE lo[a[j + 1]] = hi[a[j]]
    <3>1. j \in 1 .. Len(c) /\ (j = Len(c) \/ (j \in 1 .. Len(c) - 1 /\ j + 1 \in 1 .. Len(c)))
      BY ONLY <1>1, <2>2, j \in 1 .. Len(a) - 1
    <3>2. a[j] = c[j]
      BY <2>2, <3>1
    <3>3. CASE j = Len(c)
      BY <1>1, <2>1, <2>2, <3>2, <3>3
    <3>4. CASE j \in 1 .. Len(c) - 1 /\ j + 1 \in 1 .. Len(c)
      BY <1>1, <2>2, <3>2, <3>4
    <3> QED BY <3>1, <3>3, <3>4
  <2>6. Linked(lo, hi, lv, P, p, a)
    BY <2>2, <2>3, <2>4, <2>5 DEF Linked, T
  <2>7. NextLink(N, c) = a
    BY <1>4 DEF NextLink, a, r, q
  <2> QED BY <1>4, <2>2, <2>6, <2>7 DEF r, q
<1> QED BY <1>3, <1>4

(* The chain from a leaf reaches the last leaf of the tree.                *)
LEMMA ChainIs ==
    ASSUME NEW f, NEW lo, NEW hi, NEW lv, NEW P, NEW D, NEW root, NEW first,
           Settled(f.node, lo, hi, lv, P, D, root, first), NEW p \in 1 .. P, lv[p] = 0
    PROVE  ChainRight(lo, hi, lv, P, p, ChainFrom(f, p))
<1> DEFINE N == f.node
           n == MaxPages
           S == {c \in Seq(1 .. P) : Linked(lo, hi, lv, P, p, c)}
           step == [i \in 1 .. n |-> [c \in S |-> NextLink(N, c)]]
           W == CHOOSE h : h = [d \in 0 .. n |-> IF d = 0 THEN <<p>>
                                                 ELSE LET q == f.node[Last(h[d - 1])].next
                                                      IN  IF q = 0 THEN h[d - 1] ELSE Append(h[d - 1], q)]
<1>1. n \in Nat /\ n >= 1 /\ P \in 1 .. n
  BY SizesAre DEF Settled
<1>2. <<p>> \in S
  <2>1. <<p>> \in Seq(1 .. P) /\ Len(<<p>>) = 1 /\ <<p>>[1] = p /\ <<p>> # <<>>
    OBVIOUS
  <2>2. \A j \in 1 .. 1 : j = 1
    OBVIOUS
  <2>3. \A j \in 1 .. 1 - 1 : FALSE
    OBVIOUS
  <2>4. Linked(lo, hi, lv, P, p, <<p>>)
    BY <2>1, <2>2, <2>3 DEF Linked
  <2> QED BY <2>1, <2>4
<1>3. \A c \in S : /\ NextLink(N, c) \in S
                   /\ N[Last(c)].next = 0 => NextLink(N, c) = c /\ hi[Last(c)] = High
                   /\ N[Last(c)].next # 0 => Len(NextLink(N, c)) = Len(c) + 1
  <2> TAKE c \in S
  <2> HIDE DEF N
  <2>1. Settled(N, lo, hi, lv, P, D, root, first) /\ Linked(lo, hi, lv, P, p, c)
    BY DEF N
  <2>2. /\ Linked(lo, hi, lv, P, p, NextLink(N, c))
        /\ N[Last(c)].next = 0 => NextLink(N, c) = c /\ hi[Last(c)] = High
        /\ N[Last(c)].next # 0 => Len(NextLink(N, c)) = Len(c) + 1
    BY <2>1, OneLink
  <2>3. NextLink(N, c) \in Seq(1 .. P)
    BY <2>2 DEF Linked
  <2> QED BY <2>2, <2>3
<1>4. PICK g : IsRecursion(g, S, <<p>>, step, n)
  <2>1. step \in [1 .. n -> [S -> S]]
    BY <1>3
  <2> HIDE DEF S, step, n
  <2> QED BY <1>1, <1>2, <2>1, RecursionExists
<1>5. g = [d \in 0 .. n |-> IF d = 0 THEN <<p>>
                            ELSE LET q == f.node[Last(g[d - 1])].next
                                 IN  IF q = 0 THEN g[d - 1] ELSE Append(g[d - 1], q)]
  <2> HIDE DEF S
  <2>1. g \in [0 .. n -> S] /\ g[0] = <<p>> /\ \A i \in 1 .. n : g[i] = step[i][g[i - 1]]
    BY <1>4 DEF IsRecursion
  <2>2. ASSUME NEW d \in 0 .. n, d # 0
        PROVE  g[d] = IF f.node[Last(g[d - 1])].next = 0 THEN g[d - 1]
                      ELSE Append(g[d - 1], f.node[Last(g[d - 1])].next)
    <3>1. d \in 1 .. n /\ d - 1 \in 0 .. n
      BY <2>2, <1>1
    <3>2. g[d - 1] \in S
      BY <2>1, <3>1
    <3>3. step[d][g[d - 1]] = NextLink(N, g[d - 1])
      BY <3>1, <3>2
    <3> QED BY <2>1, <3>1, <3>3 DEF NextLink
  <2> HIDE DEF step
  <2> QED BY <2>1, <2>2
<1> HIDE DEF S
<1>6. ChainFrom(f, p) = W[n]
  BY DEF ChainFrom
<1>7. W = [d \in 0 .. n |-> IF d = 0 THEN <<p>>
                            ELSE LET q == f.node[Last(W[d - 1])].next
                                 IN  IF q = 0 THEN W[d - 1] ELSE Append(W[d - 1], q)]
  BY <1>5
<1> HIDE DEF W
<1>8. W[0] = <<p>> /\ \A d \in 1 .. n : W[d] = NextLink(N, W[d - 1])
  <2>1. 0 \in 0 .. n /\ \A d \in 1 .. n : d \in 0 .. n /\ d # 0
    BY <1>1
  <2> QED BY <1>7, <2>1 DEF NextLink
<1> DEFINE T == {d \in Nat : d <= n => W[d] \in S /\ (Len(W[d]) = d + 1 \/ N[Last(W[d])].next = 0)}
<1> HIDE DEF N, n
<1>9. 0 \in T
  <2>1. Len(<<p>>) = 0 + 1
    OBVIOUS
  <2> QED BY <1>1, <1>2, <1>8, <2>1
<1>10. ASSUME NEW d \in Nat, d \in T PROVE d + 1 \in T
  <2>1. SUFFICES ASSUME d + 1 <= n
                 PROVE  W[d + 1] \in S /\ (Len(W[d + 1]) = (d + 1) + 1 \/ N[Last(W[d + 1])].next = 0)
    OBVIOUS
  <2>2. d <= n /\ d + 1 \in 1 .. n /\ (d + 1) - 1 = d
    BY ONLY <2>1, <1>1, d \in Nat
  <2>3. W[d] \in S /\ (Len(W[d]) = d + 1 \/ N[Last(W[d])].next = 0)
    BY <2>2, <1>10
  <2>4. W[d + 1] = NextLink(N, W[d])
    BY <1>8, <2>2
  <2> QED BY <1>3, <2>3, <2>4
<1>11. \A d \in Nat : d \in T
  <2> HIDE DEF T
  <2> QED BY <1>9, <1>10, SetInduction
<1> DEFINE c == W[n]
<1>12. c \in S /\ (Len(c) = n + 1 \/ N[Last(c)].next = 0)
  BY <1>1, <1>11
<1> HIDE DEF c
<1>13. Linked(lo, hi, lv, P, p, c)
  BY <1>12 DEF S
<1>14. Len(c) <= P
  <2>1. P \in Nat /\ \A q \in 1 .. P : lo[q] \in Int /\ hi[q] \in Int /\ lo[q] < hi[q]
    <3>1. Settled(N, lo, hi, lv, P, D, root, first)
      BY DEF N
    <3> QED BY <1>1, <3>1, SettledIs
  <2> QED BY ONLY <1>13, <2>1, LinkedShort
<1>15. N[Last(c)].next = 0
  BY <1>1, <1>12, <1>14
<1>16. hi[Last(c)] = High
  BY <1>3, <1>12, <1>15
<1> QED BY <1>6, <1>13, <1>16 DEF ChainRight, c

-----------------------------------------------------------------------------
(* Lists of entries                                                        *)

Entry == Ints \X Values

(* Lists, position by position.                                            *)
Listed(e, S) ==
    /\ \A i \in 1 .. Len(e) : e[i][1] \in S /\ e[i] = <<e[i][1], ValueOf[e[i][1]]>>
    /\ \A k \in S : \E i \in 1 .. Len(e) : e[i][1] = k
    /\ \A i, j \in 1 .. Len(e) : i < j => e[i][1] < e[j][1]

(* e lists the ids of D that are in R.                                     *)
HandsOut(e, D, R) == e \in Seq(Entry) /\ Listed(e, {x \in D : x \in R})

(* Listed entries are what Lists says.                                     *)
LEMMA ListedLists ==
    ASSUME NEW e \in Seq(Entry), NEW S, Listed(e, S)
    PROVE  Lists(e, S)
<1>1. DOMAIN e = 1 .. Len(e)
  OBVIOUS
<1>2. ToSet(e) = {e[i] : i \in 1 .. Len(e)}
  BY <1>1 DEF ToSet
<1>3. \A i \in 1 .. Len(e) : e[i] \in {<<k, ValueOf[k]>> : k \in S}
  BY DEF Listed
<1>4. \A k \in S : \E i \in 1 .. Len(e) : e[i] = <<k, ValueOf[k]>>
  BY DEF Listed
<1>5. ToSet(e) = {<<k, ValueOf[k]>> : k \in S}
  BY <1>2, <1>3, <1>4
<1> QED BY <1>1, <1>5 DEF Lists, Listed

(* What comes after lists larger ids.                                      *)
LEMMA ListedConcat ==
    ASSUME NEW e \in Seq(Entry), NEW S, Listed(e, S), NEW d \in Seq(Entry), NEW R, Listed(d, R),
           \A x \in S, y \in R : x < y
    PROVE  e \o d \in Seq(Entry) /\ Listed(e \o d, S \cup R)
<1> DEFINE q == e \o d
           n == Len(e)
           m == Len(d)
<1>1. /\ q \in Seq(Entry) /\ Len(q) = n + m
      /\ \A i \in 1 .. n : q[i] = e[i]
      /\ \A i \in 1 .. m : q[n + i] = d[i]
  BY Concatenated
<1>2. n \in Nat /\ m \in Nat
  OBVIOUS
<1>3. /\ \A i \in 1 .. n : e[i][1] \in S /\ e[i] = <<e[i][1], ValueOf[e[i][1]]>>
      /\ \A k \in S : \E i \in 1 .. n : e[i][1] = k
      /\ \A i, j \in 1 .. n : i < j => e[i][1] < e[j][1]
  BY DEF Listed
<1>4. /\ \A i \in 1 .. m : d[i][1] \in R /\ d[i] = <<d[i][1], ValueOf[d[i][1]]>>
      /\ \A k \in R : \E i \in 1 .. m : d[i][1] = k
      /\ \A i, j \in 1 .. m : i < j => d[i][1] < d[j][1]
  BY DEF Listed
<1> HIDE DEF q, n, m
<1>5. \A i \in 1 .. n + m : i \in 1 .. n \/ (i - n \in 1 .. m /\ n + (i - n) = i)
  BY <1>2
<1>6. \A i \in 1 .. n + m : i \in 1 .. n \/ (i - n \in 1 .. m /\ q[i] = d[i - n])
  BY <1>1, <1>5
<1>7. ASSUME NEW i \in 1 .. n + m PROVE q[i][1] \in S \cup R /\ q[i] = <<q[i][1], ValueOf[q[i][1]]>>
  <2>1. CASE i \in 1 .. n
    BY <1>1, <1>3, <2>1
  <2>2. CASE i - n \in 1 .. m /\ q[i] = d[i - n]
    BY <1>4, <2>2
  <2> QED BY <1>6, <2>1, <2>2
<1>8. ASSUME NEW k \in S \cup R PROVE \E i \in 1 .. n + m : q[i][1] = k
  <2>1. CASE k \in S
    <3>1. PICK i \in 1 .. n : e[i][1] = k
      BY <1>3, <2>1
    <3>2. i \in 1 .. n + m
      BY <1>2
    <3> QED BY <1>1, <3>1, <3>2
  <2>2. CASE k \in R
    <3>1. PICK i \in 1 .. m : d[i][1] = k
      BY <1>4, <2>2
    <3>2. n + i \in 1 .. n + m
      BY <1>2
    <3> QED BY <1>1, <3>1, <3>2
  <2> QED BY <2>1, <2>2
<1>9. ASSUME NEW i \in 1 .. n + m, NEW j \in 1 .. n + m, i < j PROVE q[i][1] < q[j][1]
  <2>1. CASE i \in 1 .. n /\ j \in 1 .. n
    BY <1>1, <1>3, <1>9, <2>1
  <2>2. CASE i \in 1 .. n /\ j - n \in 1 .. m /\ q[j] = d[j - n]
    <3>1. q[i][1] \in S /\ q[j][1] \in R
      BY <1>1, <1>3, <1>4, <2>2
    <3> QED BY <3>1
  <2>3. CASE i - n \in 1 .. m /\ q[i] = d[i - n] /\ j - n \in 1 .. m /\ q[j] = d[j - n]
    <3>1. i - n < j - n
      BY ONLY <1>2, <1>9, i \in 1 .. n + m, j \in 1 .. n + m
    <3> QED BY <1>4, <2>3, <3>1
  <2>4. ~(j \in 1 .. n /\ i \notin 1 .. n)
    BY ONLY <1>2, <1>9, i \in 1 .. n + m, j \in 1 .. n + m
  <2> QED BY <1>6, <2>1, <2>2, <2>3, <2>4
<1>10. Listed(q, S \cup R)
  BY <1>1, <1>7, <1>8, <1>9 DEF Listed
<1> QED BY <1>1, <1>10 DEF q

(* A stretch lists the ids that are in it.                                 *)
LEMMA ListedStretch ==
    ASSUME NEW e \in Seq(Entry), NEW S, Listed(e, S), NEW R,
           NEW a \in 1 .. Len(e) + 1, NEW b \in a - 1 .. Len(e),
           \A i \in 1 .. Len(e) : e[i][1] \in R <=> a <= i /\ i <= b
    PROVE  SubSeq(e, a, b) \in Seq(Entry) /\ Listed(SubSeq(e, a, b), {x \in S : x \in R})
<1> DEFINE q == SubSeq(e, a, b)
           n == Len(e)
           m == b - a + 1
<1>1. q \in Seq(Entry) /\ Len(q) = m /\ \A i \in 1 .. m : q[i] = e[a - 1 + i]
  BY Stretch
<1>2. n \in Nat /\ a \in Int /\ b \in Int /\ a >= 1 /\ b <= n
  OBVIOUS
<1>3. /\ \A i \in 1 .. n : e[i][1] \in S /\ e[i] = <<e[i][1], ValueOf[e[i][1]]>>
      /\ \A k \in S : \E i \in 1 .. n : e[i][1] = k
      /\ \A i, j \in 1 .. n : i < j => e[i][1] < e[j][1]
  BY DEF Listed
<1>4. \A i \in 1 .. m : a - 1 + i \in 1 .. n /\ a <= a - 1 + i /\ a - 1 + i <= b
  BY <1>2
<1>5. \A i \in 1 .. n : a <= i /\ i <= b => i - a + 1 \in 1 .. m /\ a - 1 + (i - a + 1) = i
  BY <1>2
<1>6. \A i \in 1 .. n : e[i][1] \in R <=> a <= i /\ i <= b
  OBVIOUS
<1> HIDE DEF q, n, m
<1>7. ASSUME NEW i \in 1 .. m PROVE q[i][1] \in {x \in S : x \in R} /\ q[i] = <<q[i][1], ValueOf[q[i][1]]>>
  <2> DEFINE j == a - 1 + i
  <2>1. j \in 1 .. n /\ a <= j /\ j <= b /\ q[i] = e[j]
    BY <1>1, <1>4
  <2> HIDE DEF j
  <2>2. e[j][1] \in S /\ e[j] = <<e[j][1], ValueOf[e[j][1]]>> /\ e[j][1] \in R
    BY <1>3, <1>6, <2>1
  <2> QED BY <2>1, <2>2
<1>8. ASSUME NEW k \in {x \in S : x \in R} PROVE \E i \in 1 .. m : q[i][1] = k
  <2>1. PICK i \in 1 .. n : e[i][1] = k
    BY <1>3
  <2>2. a <= i /\ i <= b
    BY <1>6, <2>1
  <2> DEFINE j == i - a + 1
  <2>3. j \in 1 .. m /\ a - 1 + j = i
    BY <1>5, <2>2
  <2> HIDE DEF j
  <2> QED BY <1>1, <2>1, <2>3
<1>9. \A i, j \in 1 .. m : i < j => q[i][1] < q[j][1]
  <2> TAKE i, j \in 1 .. m
  <2> HAVE i < j
  <2>1. a - 1 + i < a - 1 + j
    BY <1>2
  <2> QED BY <1>1, <1>3, <1>4, <2>1
<1>10. Listed(q, {x \in S : x \in R})
  BY <1>1, <1>7, <1>8, <1>9 DEF Listed
<1> QED BY <1>1, <1>10 DEF q

(* The entries of a leaf are the ids of its range.                         *)
LEMMA EntriesAre ==
    ASSUME NEW n \in Nodes, NEW l, NEW h, NEW D, LeafRight(n, l, h, D)
    PROVE  /\ Entries(n) \in Seq(Entry) /\ Len(Entries(n)) = Len(n.keys)
           /\ \A i \in 1 .. Len(n.keys) : Entries(n)[i][1] = n.keys[i]
           /\ Listed(Entries(n), {k \in D : l <= k /\ k < h})
<1> DEFINE ks == n.keys
           vs == n.vals
           e == Entries(n)
           S == {k \in D : l <= k /\ k < h}
<1>1. /\ vs \in Seq(Values) /\ Len(ks) \in Nat /\ DOMAIN ks = 1 .. Len(ks)
      /\ \A i \in 1 .. Len(ks) : ks[i] \in Ints
  BY NodeIs
<1>2. /\ Ascending(ks) /\ ToSet(ks) = S /\ Len(vs) = Len(ks)
      /\ \A i \in 1 .. Len(ks) : vs[i] = ValueOf[ks[i]]
  BY DEF LeafRight, PairsRight
<1>3. e = [i \in 1 .. Len(ks) |-> <<ks[i], vs[i]>>]
  BY <1>1 DEF Entries
<1>4. ToSet(ks) = {ks[i] : i \in 1 .. Len(ks)}
  BY <1>1 DEF ToSet
<1> HIDE DEF ks, vs, e, S
<1>5. \A i \in 1 .. Len(ks) : vs[i] \in Values
  BY <1>1, <1>2, ElementOfSeq
<1>6. e \in Seq(Entry) /\ Len(e) = Len(ks)
  BY <1>1, <1>3, <1>5 DEF Entry
<1>7. \A i \in 1 .. Len(ks) : e[i] = <<ks[i], vs[i]>> /\ e[i][1] = ks[i]
  BY <1>3
<1>8. \A i \in 1 .. Len(ks) : e[i][1] \in S /\ e[i] = <<e[i][1], ValueOf[e[i][1]]>>
  BY <1>2, <1>4, <1>7
<1>9. \A k \in S : \E i \in 1 .. Len(ks) : e[i][1] = k
  BY <1>2, <1>4, <1>7
<1>10. \A i, j \in 1 .. Len(ks) : i < j => e[i][1] < e[j][1]
  BY <1>2, <1>7 DEF Ascending
<1>11. Listed(e, S)
  BY <1>6, <1>8, <1>9, <1>10 DEF Listed
<1> QED BY <1>6, <1>7, <1>11 DEF e, ks, S

(* The position u in leaf p parts the ids of D that are in R from those    *)
(* that are not.                                                           *)
PartedAt(keys, l, h, D, R, u) ==
    /\ u \in 1 .. Len(keys) + 1
    /\ \A i \in 1 .. Len(keys) : keys[i] \in R <=> u <= i
    /\ \A x \in D : (x < l => x \notin R) /\ (h <= x => x \in R)

(* What visit_from_leaf hands out of one page.                             *)
Part(N, c, u, i) ==
    LET e == Entries(N[c[i]])
    IN  IF i = 1 THEN SubSeq(e, u, Len(e)) ELSE e

PartRight(N, lo, hi, D, c, R, u, i) ==
    /\ Part(N, c, u, i) \in Seq(Entry)
    /\ Listed(Part(N, c, u, i), {x \in D : x \in R /\ lo[c[i]] <= x /\ x < hi[c[i]]})

(* It is the ids of that page that are in R.                               *)
LEMMA PartIs ==
    ASSUME NEW N, NEW lo, NEW hi, NEW lv, NEW P, NEW D, NEW root, NEW first,
           Settled(N, lo, hi, lv, P, D, root, first), NEW p, NEW c, Linked(lo, hi, lv, P, p, c),
           NEW R, NEW u, PartedAt(N[p].keys, lo[p], hi[p], D, R, u), NEW i \in 1 .. Len(c)
    PROVE  PartRight(N, lo, hi, D, c, R, u, i)
<1> DEFINE q == c[i]
           e == Entries(N[q])
           S == {k \in D : lo[q] <= k /\ k < hi[q]}
           G == {x \in D : x \in R /\ lo[q] <= x /\ x < hi[q]}
<1> SUFFICES Part(N, c, u, i) \in Seq(Entry) /\ Listed(Part(N, c, u, i), G)
  BY DEF PartRight
<1>1. q \in 1 .. P /\ lv[q] = 0 /\ c[1] = p
  <2>1. q \in 1 .. P
    BY LinkedIs
  <2>2. c[1] = p /\ \A j \in 1 .. Len(c) : lv[c[j]] = 0
    BY DEF Linked
  <2> QED BY <2>1, <2>2
<1> HIDE DEF q
<1>2. N[q] \in Nodes /\ LeafRight(N[q], lo[q], hi[q], D) /\ lo[q] \in Int /\ hi[q] \in Int
  BY <1>1, SettledIs
<1>3. /\ e \in Seq(Entry) /\ Len(e) = Len(N[q].keys)
      /\ \A j \in 1 .. Len(N[q].keys) : e[j][1] = N[q].keys[j]
      /\ Listed(e, S)
  BY <1>2, EntriesAre
<1>4. Len(e) \in Nat
  BY <1>3
<1> HIDE DEF e
<1>5. CASE i = 1
  <2>1. q = p
    BY <1>1, <1>5 DEF q
  <2>2. u \in 1 .. Len(e) + 1 /\ \A j \in 1 .. Len(e) : e[j][1] \in R <=> u <= j
    BY <1>3, <2>1 DEF PartedAt
  <2>3. Len(e) \in u - 1 .. Len(e) /\ \A j \in 1 .. Len(e) : e[j][1] \in R <=> u <= j /\ j <= Len(e)
    BY <1>4, <2>2
  <2>4. SubSeq(e, u, Len(e)) \in Seq(Entry) /\ Listed(SubSeq(e, u, Len(e)), {x \in S : x \in R})
    <3> HIDE DEF S
    <3> QED BY <1>3, <2>2, <2>3, ListedStretch
  <2>5. {x \in S : x \in R} = G
    OBVIOUS
  <2>6. Part(N, c, u, i) = SubSeq(e, u, Len(e))
    BY <1>5 DEF Part, e, q
  <2> HIDE DEF S, G
  <2>7. Listed(Part(N, c, u, i), G)
    BY <2>4, <2>5, <2>6
  <2> QED BY <2>4, <2>6, <2>7 
<1>6. CASE i # 1
  <2>1. 1 \in 1 .. Len(c) /\ 1 < i
    BY <1>6, LinkedIs
  <2>2. hi[p] <= lo[q]
    <3>1. \A x \in 1 .. P : lo[x] \in Int /\ hi[x] \in Int /\ lo[x] < hi[x]
      BY SettledIs
    <3>2. \A x, y \in 1 .. Len(c) : x < y => hi[c[x]] <= lo[c[y]]
      BY <3>1, LinkedAscends
    <3> QED BY <1>1, <2>1, <3>2 DEF q
  <2>3. p \in 1 .. P
    BY <1>1, <2>1, LinkedIs
  <2>4. hi[p] \in Int /\ D \subseteq Int
    <3>1. D \subseteq Int
      BY SizesAre, IntsAre DEF Settled
    <3> QED BY <2>3, <3>1, SettledIs
  <2>5. S = G
    <3>1. \A x \in D : hi[p] <= x => x \in R
      BY DEF PartedAt
    <3>2. ASSUME NEW x \in D, lo[q] <= x PROVE x \in R
      <4>1. x \in Int /\ lo[q] \in Int /\ hi[p] \in Int
        BY <1>2, <2>4
      <4>2. hi[p] <= x
        BY ONLY <4>1, <2>2, <3>2
      <4> QED BY <3>1, <4>2
    <3> QED BY <3>2
  <2>6. Part(N, c, u, i) = e
    BY <1>6 DEF Part, e, q
  <2> HIDE DEF S, G
  <2> QED BY <1>3, <2>5, <2>6
<1> QED BY <1>5, <1>6

(* visit_from_leaf hands out the ids of R, in ascending order.             *)
LEMMA VisitIs ==
    ASSUME NEW f, NEW lo, NEW hi, NEW lv, NEW P, NEW D, NEW root, NEW first,
           Settled(f.node, lo, hi, lv, P, D, root, first), NEW p \in 1 .. P, lv[p] = 0,
           NEW R, NEW u, PartedAt(f.node[p].keys, lo[p], hi[p], D, R, u)
    PROVE  HandsOut(VisitFromLeaf(f, p, u), D, R)
<1> DEFINE N == f.node
           c == ChainFrom(f, p)
           n == Len(c)
           s == [i \in 1 .. n |-> Part(N, c, u, i)]
           upTo(i) == IF i = 0 THEN lo[p] ELSE hi[c[i]]
           G(i) == {x \in D : x \in R /\ lo[p] <= x /\ x < upTo(i)}
           Own(i) == {x \in D : x \in R /\ lo[c[i]] <= x /\ x < hi[c[i]]}
<1>1. Linked(lo, hi, lv, P, p, c) /\ hi[Last(c)] = High
  BY ChainIs DEF ChainRight
<1> HIDE DEF c
<1>2. /\ n \in Nat /\ n >= 1 /\ Last(c) = c[n]
      /\ \A j \in 1 .. n : c[j] \in 1 .. P
  BY <1>1, LinkedIs
<1>3. c[1] = p /\ (\A j \in 1 .. n - 1 : lo[c[j + 1]] = hi[c[j]]) /\ DOMAIN c = 1 .. n
  BY <1>1 DEF Linked
<1>4. VisitFromLeaf(f, p, u) = FlattenSeq(s)
  BY <1>3 DEF VisitFromLeaf, Part, c
<1> HIDE DEF N
<1>5. Settled(N, lo, hi, lv, P, D, root, first) /\ PartedAt(N[p].keys, lo[p], hi[p], D, R, u)
  BY DEF N
<1>6. \A x \in 1 .. P : /\ lo[x] \in Int /\ hi[x] \in Int /\ Low <= lo[x] /\ lo[x] < hi[x] /\ hi[x] <= High
  BY <1>5, SettledIs
<1>7. D \subseteq Ints /\ D \subseteq Int
  BY <1>5, SizesAre, IntsAre DEF Settled
<1> HIDE DEF n, Own
<1>8. \A i \in 1 .. n : Part(N, c, u, i) \in Seq(Entry) /\ Listed(Part(N, c, u, i), Own(i))
  <2> TAKE i \in 1 .. n
  <2>1. Linked(lo, hi, lv, P, p, c) /\ i \in 1 .. Len(c)
    BY <1>1 DEF n
  <2>2. PartRight(N, lo, hi, D, c, R, u, i)
    BY ONLY <1>5, <2>1, PartIs
  <2> QED BY <2>2 DEF PartRight, Own
<1>9. s \in Seq(Seq(Entry)) /\ Len(s) = n /\ \A i \in 1 .. n : s[i] \in Seq(Entry) /\ Listed(s[i], Own(i))
  <2> DEFINE E == Seq(Entry)
  <2> HIDE DEF E
  <2>1. \A i \in 1 .. n : Part(N, c, u, i) \in E
    BY <1>8 DEF E
  <2>2. s \in Seq(E) /\ Len(s) = n /\ \A i \in 1 .. n : s[i] = Part(N, c, u, i)
    BY <1>2, <2>1
  <2> HIDE DEF s
  <2> QED BY <1>8, <2>2 DEF E
<1> HIDE DEF s
<1>10. PICK g : FlattenTrace(g, s, Entry) /\ FlattenSeq(s) = g[Len(s)]
  BY <1>9, FlattenIsTraced
<1>11. g[0] = <<>> /\ (\A i \in 1 .. n : g[i] = g[i - 1] \o s[i]) /\ \A i \in 0 .. n : g[i] \in Seq(Entry)
  BY <1>9, <1>10 DEF FlattenTrace
<1> DEFINE T == {i \in Nat : i <= n => Listed(g[i], G(i))}
<1>12. 0 \in T
  <2>1. lo[p] \in Int
    BY <1>6
  <2>2. G(0) = {}
    <3>1. \A x \in D : ~(lo[p] <= x /\ x < lo[p])
      BY <1>7, <2>1
    <3> QED BY <3>1
  <2> HIDE DEF G
  <2>3. Len(<<>>) = 0 /\ \A i \in 1 .. 0 : FALSE
    OBVIOUS
  <2>4. Listed(<<>>, {})
    BY <2>3 DEF Listed
  <2> QED BY <1>11, <2>2, <2>4
<1>13. ASSUME NEW i \in Nat, i \in T PROVE i + 1 \in T
  <2>1. SUFFICES ASSUME i + 1 <= n PROVE Listed(g[i + 1], G(i + 1))
    OBVIOUS
  <2> DEFINE j == i + 1
  <2>2. i <= n /\ i \in 0 .. n /\ j \in 1 .. n /\ j - 1 = i /\ j # 0 /\ (i # 0 => i \in 1 .. n - 1)
    BY ONLY <2>1, <1>2, i \in Nat
  <2>3. Listed(g[i], G(i)) /\ g[i] \in Seq(Entry)
    BY <1>11, <1>13, <2>2
  <2>4. g[j] = g[i] \o s[j] /\ s[j] \in Seq(Entry) /\ Listed(s[j], Own(j))
    BY <1>9, <1>11, <2>2
  <2>5. upTo(i) = lo[c[j]] /\ upTo(j) = hi[c[j]]
    BY <1>3, <2>2
  <2>6. c[j] \in 1 .. P /\ lo[p] \in Int /\ lo[p] <= lo[c[j]]
    <3>1. c[j] \in 1 .. P
      BY <1>2, <2>2
    <3>2. i = 0 => c[j] = p
      BY <1>3
    <3>3. ASSUME i # 0 PROVE lo[p] <= lo[c[j]]
      <4>1. 1 \in 1 .. n /\ 1 < j
        BY ONLY <2>2, <1>2, <3>3, i \in Nat
      <4>2. \A x, y \in 1 .. n : x < y => hi[c[x]] <= lo[c[y]]
        BY <1>1, <1>6, LinkedAscends DEF n
      <4>3. hi[p] <= lo[c[j]]
        BY <1>3, <2>2, <4>1, <4>2
      <4>4. lo[p] \in Int /\ hi[p] \in Int /\ lo[p] < hi[p] /\ lo[c[j]] \in Int
        BY <1>6, <3>1
      <4> QED BY <4>3, <4>4
    <3>4. lo[p] \in Int
      BY <1>6
    <3> QED BY <3>1, <3>2, <3>3, <3>4
  <2>7. lo[c[j]] \in Int /\ hi[c[j]] \in Int /\ lo[c[j]] < hi[c[j]]
    BY <1>6, <2>6
  <2> HIDE DEF j, upTo
  <2>8. G(j) = G(i) \cup Own(j)
    <3>1. ASSUME NEW x \in D
          PROVE  lo[p] <= x /\ x < hi[c[j]]
                 <=> (lo[p] <= x /\ x < lo[c[j]]) \/ (lo[c[j]] <= x /\ x < hi[c[j]])
      <4>1. x \in Int
        BY <1>7
      <4> QED BY ONLY <4>1, <2>6, <2>7
    <3>2. G(i) = {x \in D : x \in R /\ lo[p] <= x /\ x < lo[c[j]]}
      BY <2>5
    <3>3. G(j) = {x \in D : x \in R /\ lo[p] <= x /\ x < hi[c[j]]}
      BY <2>5
    <3> HIDE DEF G
    <3> QED BY <3>1, <3>2, <3>3 DEF Own
  <2>9. \A x \in G(i), y \in Own(j) : x < y
    <3> TAKE x \in G(i), y \in Own(j)
    <3>1. x \in Int /\ y \in Int /\ x < lo[c[j]] /\ lo[c[j]] <= y
      BY <1>7, <2>5 DEF Own
    <3> QED BY <3>1, <2>7
  <2> HIDE DEF G
  <2>10. Listed(g[i] \o s[j], G(i) \cup Own(j))
    BY ONLY <2>3, <2>4, <2>9, ListedConcat
  <2> QED BY <2>4, <2>8, <2>10 DEF j
<1> HIDE DEF T
<1>14. \A i \in Nat : i \in T
  BY <1>12, <1>13, SetInduction
<1>15. Listed(g[n], G(n))
  BY <1>2, <1>14 DEF T
<1>16. G(n) = {x \in D : x \in R}
  <2>1. upTo(n) = High
    BY <1>1, <1>2
  <2>2. \A x \in D : x < High
    BY <1>7, IntsAre
  <2>3. ASSUME NEW x \in D, x \in R PROVE lo[p] <= x
    <3>1. x < lo[p] => x \notin R
      BY <1>5 DEF PartedAt
    <3> QED BY <1>6, <1>7, <2>3, <3>1
  <2> HIDE DEF upTo
  <2> QED BY <2>1, <2>2, <2>3
<1> HIDE DEF G
<1>17. g[n] \in Seq(Entry)
  BY <1>2, <1>11
<1> QED BY <1>4, <1>9, <1>10, <1>15, <1>16, <1>17 DEF HandsOut

(* The entries before the first that is not in R, when all after it are    *)
(* not in R either.                                                        *)
Before(e, T) == IF T = {} THEN e ELSE SubSeq(e, 1, (CHOOSE i \in T : \A j \in T : i <= j) - 1)

(* They are the entries in R.                                              *)
LEMMA BeforeIs ==
    ASSUME NEW e \in Seq(Entry), NEW S, Listed(e, S), NEW R, NEW T,
           \A i \in 1 .. Len(e) : i \in T <=> e[i][1] \notin R, T \subseteq 1 .. Len(e),
           \A i, j \in 1 .. Len(e) : i < j /\ i \in T => j \in T
    PROVE  Before(e, T) \in Seq(Entry) /\ Listed(Before(e, T), {x \in S : x \in R})
<1>1. Len(e) \in Nat
  OBVIOUS
<1>2. CASE T = {}
  <2>1. \A k \in S : k \in R
    BY <1>2 DEF Listed
  <2>2. {x \in S : x \in R} = S
    BY <2>1
  <2> QED BY <1>2, <2>2 DEF Before
<1>3. CASE T # {}
  <2> DEFINE m == CHOOSE i \in T : \A j \in T : i <= j
  <2>1. T \in SUBSET Nat
    BY <1>1
  <2>2. \E i \in T : \A j \in T : i <= j
    BY <1>3, <2>1, LeastNumber
  <2>3. m \in T /\ \A j \in T : m <= j
    BY <2>2
  <2>4. Before(e, T) = SubSeq(e, 1, m - 1)
    BY <1>3 DEF Before
  <2> HIDE DEF m
  <2>5. m \in 1 .. Len(e)
    BY <2>3
  <2>6. 1 \in 1 .. Len(e) + 1 /\ m - 1 \in 1 - 1 .. Len(e)
    BY ONLY <1>1, <2>5
  <2>7. ASSUME NEW i \in 1 .. Len(e) PROVE e[i][1] \in R <=> 1 <= i /\ i <= m - 1
    <3>1. i \in T <=> m <= i
      <4>1. m < i => i \in T
        BY <2>3, <2>5
      <4>2. m = i \/ m < i <=> m <= i
        BY <2>5
      <4> QED BY <2>3, <4>1, <4>2
    <3>2. ~(m <= i) <=> 1 <= i /\ i <= m - 1
      BY <2>5
    <3> QED BY <3>1, <3>2
  <2>8. SubSeq(e, 1, m - 1) \in Seq(Entry) /\ Listed(SubSeq(e, 1, m - 1), {x \in S : x \in R})
    BY <2>6, <2>7, ListedStretch
  <2> QED BY <2>4, <2>8
<1> QED BY <1>2, <1>3

(* All entries but that of k.                                              *)
Without(e, k) == FlattenSeq([i \in DOMAIN e |-> IF e[i][1] = k THEN <<>> ELSE <<e[i]>>])

(* They are in the same order.                                             *)
LEMMA WithoutIs ==
    ASSUME NEW e \in Seq(Entry), NEW S, Listed(e, S), S \subseteq Int, NEW k
    PROVE  Without(e, k) \in Seq(Entry) /\ Listed(Without(e, k), {x \in S : x # k})
<1> DEFINE n == Len(e)
           s == [i \in 1 .. n |-> IF e[i][1] = k THEN <<>> ELSE <<e[i]>>]
           Own(i) == {x \in S : x # k /\ x = e[i][1]}
           G(i) == {x \in S : x # k /\ \E j \in 1 .. i : x = e[j][1]}
<1>1. n \in Nat /\ DOMAIN e = 1 .. n /\ \A i \in 1 .. n : e[i] \in Entry
  BY ElementOfSeq
<1>2. /\ \A i \in 1 .. n : e[i][1] \in S /\ e[i] = <<e[i][1], ValueOf[e[i][1]]>>
      /\ \A x \in S : \E i \in 1 .. n : e[i][1] = x
      /\ \A i, j \in 1 .. n : i < j => e[i][1] < e[j][1]
  BY DEF Listed
<1>3. Without(e, k) = FlattenSeq(s)
  BY <1>1 DEF Without
<1> HIDE DEF n
<1>4. ASSUME NEW i \in 1 .. n PROVE s[i] \in Seq(Entry) /\ Listed(s[i], Own(i))
  <2>1. CASE e[i][1] = k
    <3>1. s[i] = <<>> /\ Len(<<>>) = 0 /\ <<>> \in Seq(Entry) /\ \A j \in 1 .. 0 : FALSE
      BY <2>1
    <3>2. Own(i) = {}
      BY <2>1
    <3> HIDE DEF Own, s
    <3>3. Listed(<<>>, {})
      BY <3>1 DEF Listed
    <3> QED BY <3>1, <3>2, <3>3
  <2>2. CASE e[i][1] # k
    <3> DEFINE t == <<e[i]>>
    <3>1. s[i] = t
      BY <2>2
    <3>2. t \in Seq(Entry) /\ Len(t) = 1 /\ t[1] = e[i] /\ \A j \in 1 .. 1 : j = 1
      BY <1>1
    <3>3. Own(i) = {e[i][1]}
      BY <1>2, <2>2
    <3> HIDE DEF Own, s, t
    <3>4. \A j \in 1 .. Len(t) : t[j][1] \in {e[i][1]} /\ t[j] = <<t[j][1], ValueOf[t[j][1]]>>
      BY <1>2, <3>2
    <3>5. \A x \in {e[i][1]} : \E j \in 1 .. Len(t) : t[j][1] = x
      BY <3>2
    <3>6. \A j, m \in 1 .. Len(t) : j < m => t[j][1] < t[m][1]
      <4>1. \A j, m \in 1 .. Len(t) : j = 1 /\ m = 1
        BY <3>2
      <4>2. \A j, m \in 1 .. Len(t) : ~(j < m)
        BY <4>1
      <4> QED BY <4>2
    <3>7. Listed(t, {e[i][1]})
      BY <3>4, <3>5, <3>6 DEF Listed
    <3> QED BY <3>1, <3>2, <3>3, <3>7
  <2> QED BY <2>1, <2>2
<1>5. s \in Seq(Seq(Entry)) /\ Len(s) = n
  <2> DEFINE E == Seq(Entry)
  <2> HIDE DEF E
  <2>1. \A i \in 1 .. n : s[i] \in E
    BY <1>4 DEF E
  <2>2. s \in Seq(E) /\ Len(s) = n
    BY <1>1, <2>1
  <2> HIDE DEF s
  <2> QED BY <2>2 DEF E
<1> HIDE DEF s, Own, G
<1>6. PICK g : FlattenTrace(g, s, Entry) /\ FlattenSeq(s) = g[Len(s)]
  BY <1>5, FlattenIsTraced
<1>7. g[0] = <<>> /\ (\A i \in 1 .. n : g[i] = g[i - 1] \o s[i]) /\ \A i \in 0 .. n : g[i] \in Seq(Entry)
  BY <1>5, <1>6 DEF FlattenTrace
<1> DEFINE T == {i \in Nat : i <= n => Listed(g[i], G(i))}
<1>8. 0 \in T
  <2>1. G(0) = {}
    BY DEF G
  <2>2. Len(<<>>) = 0 /\ \A i \in 1 .. 0 : FALSE
    OBVIOUS
  <2>3. Listed(<<>>, {})
    BY <2>2 DEF Listed
  <2> QED BY <1>7, <2>1, <2>3
<1>9. ASSUME NEW i \in Nat, i \in T PROVE i + 1 \in T
  <2>1. SUFFICES ASSUME i + 1 <= n PROVE Listed(g[i + 1], G(i + 1))
    OBVIOUS
  <2> DEFINE j == i + 1
  <2>2. i <= n /\ i \in 0 .. n /\ j \in 1 .. n /\ j - 1 = i /\ i < j
        /\ \A m \in 1 .. i : m \in 1 .. n /\ m < j
    BY ONLY <2>1, <1>1, i \in Nat
  <2>3. \A m \in 1 .. j : m \in 1 .. i \/ m = j
    BY i \in Nat
  <2>4. \A m \in 1 .. i : m \in 1 .. j
    BY i \in Nat
  <2>5. Listed(g[i], G(i)) /\ g[i] \in Seq(Entry)
    BY <1>7, <1>9, <2>2
  <2>6. g[j] = g[i] \o s[j] /\ s[j] \in Seq(Entry) /\ Listed(s[j], Own(j))
    BY <1>4, <1>7, <2>2
  <2>7. j \in 1 .. j
    BY <2>2, <1>1
  <2> HIDE DEF j
  <2>8. G(j) = G(i) \cup Own(j)
    BY <2>3, <2>4, <2>7 DEF G, Own
  <2>9. \A x \in G(i), y \in Own(j) : x < y
    BY <1>2, <2>2 DEF G, Own
  <2>10. Listed(g[i] \o s[j], G(i) \cup Own(j))
    BY ONLY <2>5, <2>6, <2>9, ListedConcat
  <2> QED BY <2>6, <2>8, <2>10 DEF j
<1> HIDE DEF T
<1>10. \A i \in Nat : i \in T
  BY <1>8, <1>9, SetInduction
<1>11. Listed(g[n], G(n)) /\ g[n] \in Seq(Entry)
  BY <1>1, <1>7, <1>10 DEF T
<1>12. G(n) = {x \in S : x # k}
  BY <1>2 DEF G
<1> QED BY <1>3, <1>5, <1>6, <1>11, <1>12

(* The sequence of a set with one element, and of the empty set.           *)
LEMMA SetToSeqSmall ==
    /\ Len(SetToSeq({})) = 0 /\ SetToSeq({}) = <<>>
    /\ \A x : SetToSeq({x}) = <<x>>
<1>1. SetToSeq({}) = <<>>
  <2> DEFINE F == [1 .. Cardinality({}) -> {}]
  <2>1. Cardinality({}) = 0
    BY FS_EmptySet
  <2>2. <<>> \in F /\ IsInjective(<<>>)
    BY <2>1 DEF IsInjective
  <2>3. SetToSeq({}) \in F
    BY <2>2 DEF SetToSeq
  <2> QED BY <2>1, <2>3
<1>2. ASSUME NEW x PROVE SetToSeq({x}) = <<x>>
  <2> DEFINE F == [1 .. Cardinality({x}) -> {x}]
  <2>1. Cardinality({x}) = 1
    BY FS_Singleton
  <2>2. <<x>> \in F /\ IsInjective(<<x>>)
    BY <2>1 DEF IsInjective
  <2>3. SetToSeq({x}) \in F
    BY <2>2 DEF SetToSeq
  <2> QED BY <2>1, <2>3
<1> QED BY <1>1, <1>2

(* bptree_visit, operator by operator.                                     *)
LEMMA VisitBy ==
    ASSUME tree.root # 0, NEW k
    PROVE  LET leafPage == FindLeaf(file, tree.root, k)
               leafKeys == file.node[leafPage].keys
               all == VisitFromLeaf(file, tree.first, 1)
           IN  /\ Visit("=", k) = SetToSeq({<<k, v>> : v \in Search(k)})
               /\ Visit(">", k) = VisitFromLeaf(file, leafPage, UpperBound(leafKeys, k))
               /\ Visit(">=", k) = VisitFromLeaf(file, leafPage, LowerBound(leafKeys, k))
               /\ Visit("<", k) = Before(all, {i \in DOMAIN all : all[i][1] >= k})
               /\ Visit("<=", k) = Before(all, {i \in DOMAIN all : all[i][1] > k})
               /\ Visit("!=", k) = Without(all, k)
<1>1. Visit("=", k) = SetToSeq({<<k, v>> : v \in Search(k)})
  BY DEF Visit
<1>2. Visit(">", k) = VisitFromLeaf(file, FindLeaf(file, tree.root, k),
                                    UpperBound(file.node[FindLeaf(file, tree.root, k)].keys, k))
  BY DEF Visit
<1>3. Visit(">=", k) = VisitFromLeaf(file, FindLeaf(file, tree.root, k),
                                     LowerBound(file.node[FindLeaf(file, tree.root, k)].keys, k))
  BY DEF Visit
<1> DEFINE all == VisitFromLeaf(file, tree.first, 1)
<1>4. Visit("<", k) = Before(all, {i \in DOMAIN all : all[i][1] >= k})
  BY DEF Visit, Before
<1>5. Visit("<=", k) = Before(all, {i \in DOMAIN all : all[i][1] > k})
  BY DEF Visit, Before
<1>6. Visit("!=", k) = Without(all, k)
  BY DEF Visit, Without
<1> QED BY <1>1, <1>2, <1>3, <1>4, <1>5, <1>6

(* All entries, from the first leaf on.                                    *)
LEMMA VisitAll ==
    ASSUME NEW f, NEW lo, NEW hi, NEW lv, NEW P, NEW D, NEW root, NEW first,
           Settled(f.node, lo, hi, lv, P, D, root, first)
    PROVE  VisitFromLeaf(f, first, 1) \in Seq(Entry) /\ Listed(VisitFromLeaf(f, first, 1), D)
<1> DEFINE N == f.node
<1>1. first \in 1 .. P /\ lo[first] = Low /\ lv[first] = 0 /\ D \subseteq Ints
  BY SizesAre DEF Settled, RootRight
<1>2. N[first] \in Nodes
  <2> HIDE DEF N
  <2>1. Settled(N, lo, hi, lv, P, D, root, first)
    BY DEF N
  <2> QED BY <1>1, <2>1, SettledIs
<1> HIDE DEF N
<1>3. PartedAt(N[first].keys, lo[first], hi[first], D, Ints, 1)
  <2> DEFINE ks == N[first].keys
  <2>1. Len(ks) \in Nat /\ \A i \in 1 .. Len(ks) : ks[i] \in Ints
    BY <1>2, NodeIs
  <2> HIDE DEF ks
  <2>2. 1 \in 1 .. Len(ks) + 1 /\ \A i \in 1 .. Len(ks) : 1 <= i
    BY <2>1
  <2>3. \A x \in D : x \in Ints /\ ~(x < lo[first])
    BY <1>1, IntsAre
  <2> QED BY <2>1, <2>2, <2>3 DEF PartedAt, ks
<1>4. PartedAt(f.node[first].keys, lo[first], hi[first], D, Ints, 1)
  BY <1>3 DEF N
<1>5. HandsOut(VisitFromLeaf(f, first, 1), D, Ints)
  BY ONLY <1>1, <1>4, VisitIs, Settled(f.node, lo, hi, lv, P, D, root, first)
<1>6. {x \in D : x \in Ints} = D
  BY <1>1
<1> QED BY <1>5, <1>6 DEF HandsOut

(* The entries from the leaf of k on.                                      *)
LEMMA VisitAbove ==
    ASSUME NEW f, NEW lo, NEW hi, NEW lv, NEW P, NEW D, NEW root, NEW first,
           Settled(f.node, lo, hi, lv, P, D, root, first), NEW k \in Ints
    PROVE  LET p == FindLeaf(f, root, k)
               ks == f.node[p].keys
           IN  /\ HandsOut(VisitFromLeaf(f, p, UpperBound(ks, k)), D, {x \in Int : x > k})
               /\ HandsOut(VisitFromLeaf(f, p, LowerBound(ks, k)), D, {x \in Int : x >= k})
<1> DEFINE p == FindLeaf(f, root, k)
           ks == f.node[p].keys
           Above == {x \in Int : x > k}
           From == {x \in Int : x >= k}
<1>1. LeafFound(f.node, lo, hi, lv, P, D, k, p)
  BY FindLeafIs
<1> HIDE DEF p
<1>2. p \in 1 .. P /\ lo[p] <= k /\ k < hi[p] /\ lv[p] = 0 /\ f.node[p] \in Nodes /\ Ascending(ks)
  BY <1>1 DEF LeafFound, LeafRight, PairsRight
<1>3. ks \in Seq(Int) /\ Len(ks) \in Nat /\ \A i \in 1 .. Len(ks) : ks[i] \in Int
  BY <1>2, NodeIs
<1>4. k \in Int /\ D \subseteq Int
  BY SizesAre, IntsAre DEF Settled
<1>5. lo[p] \in Int /\ hi[p] \in Int
  <2> DEFINE N == f.node
  <2> HIDE DEF N
  <2>1. Settled(N, lo, hi, lv, P, D, root, first)
    BY DEF N
  <2> QED BY <1>2, <2>1, SettledIs
<1> HIDE DEF ks
<1>6. PartedAt(ks, lo[p], hi[p], D, Above, UpperBound(ks, k))
  <2> DEFINE u == UpperBound(ks, k)
  <2>1. u \in 1 .. Len(ks) + 1 /\ \A i \in 1 .. Len(ks) : IF i < u THEN ks[i] <= k ELSE k < ks[i]
    BY <1>2, <1>3, <1>4, UpperBoundIs
  <2> HIDE DEF u
  <2>2. \A i \in 1 .. Len(ks) : ks[i] \in Above <=> u <= i
    BY <1>3, <1>4, <2>1
  <2>3. \A x \in D : (x < lo[p] => x \notin Above) /\ (hi[p] <= x => x \in Above)
    BY <1>2, <1>4, <1>5
  <2> QED BY <2>1, <2>2, <2>3 DEF PartedAt, u
<1>7. PartedAt(ks, lo[p], hi[p], D, From, LowerBound(ks, k))
  <2> DEFINE u == LowerBound(ks, k)
  <2>1. u \in 1 .. Len(ks) + 1 /\ \A i \in 1 .. Len(ks) : IF i < u THEN ks[i] < k ELSE k <= ks[i]
    BY <1>2, <1>3, <1>4, LowerBoundIs
  <2> HIDE DEF u
  <2>2. \A i \in 1 .. Len(ks) : ks[i] \in From <=> u <= i
    BY <1>3, <1>4, <2>1
  <2>3. \A x \in D : (x < lo[p] => x \notin From) /\ (hi[p] <= x => x \in From)
    BY <1>2, <1>4, <1>5
  <2> QED BY <2>1, <2>2, <2>3 DEF PartedAt, u
<1> DEFINE up == VisitFromLeaf(f, p, UpperBound(ks, k))
           low == VisitFromLeaf(f, p, LowerBound(ks, k))
<1> HIDE DEF Above, From
<1>8. HandsOut(up, D, Above)
  <2>1. PartedAt(f.node[p].keys, lo[p], hi[p], D, Above, UpperBound(ks, k))
    BY <1>6 DEF ks
  <2> QED BY ONLY <1>2, <2>1, VisitIs, Settled(f.node, lo, hi, lv, P, D, root, first)
<1>9. HandsOut(low, D, From)
  <2>1. PartedAt(f.node[p].keys, lo[p], hi[p], D, From, LowerBound(ks, k))
    BY <1>7 DEF ks
  <2> QED BY ONLY <1>2, <2>1, VisitIs, Settled(f.node, lo, hi, lv, P, D, root, first)
<1> QED BY <1>8, <1>9 DEF p, ks, Above, From

(* The leaf of k, or the first leaf, and the chain give what is asked.     *)
LEMMA VisitRight == ASSUME TreeInv PROVE VisitMatchesFilter
<1> SUFFICES ASSUME AtRest, NEW op \in Ops, NEW k \in Keys
             PROVE  Lists(Visit(op, k), {x \in want : Holds(op, x, k)})
  BY DEF VisitMatchesFilter
<1>1. want \subseteq Keys /\ want \subseteq Int /\ k \in Ints /\ k \in Int
  BY SizesAre, IntsAre DEF TreeInv, TypeOK
<1>2. CASE tree.root = 0
  <2>1. ASSUME NEW N, NEW lo, NEW hi, NEW top, NEW lv, NEW D, GrownRight(N, lo, hi, top, lv, D) PROVE FALSE
    <3>1. tree.root \in 1 .. tree.pages /\ tree.pages \in 1 .. MaxPages
      BY <2>1, GrownSizes DEF TreeInv, ControlRight
    <3> QED BY <3>1, <1>2
  <2>2. want = {}
    BY <2>1 DEF TreeInv, Fresh
  <2>3. Visit(op, k) = <<>>
    BY <1>2 DEF Visit
  <2>4. ToSet(<<>>) = {} /\ DOMAIN <<>> = {}
    BY DEF ToSet
  <2>5. {<<x, ValueOf[x]>> : x \in {}} = {}
    OBVIOUS
  <2>6. Lists(<<>>, {})
    BY <2>4, <2>5 DEF Lists
  <2>7. {x \in want : Holds(op, x, k)} = {}
    BY <2>2
  <2> QED BY <2>3, <2>6, <2>7
<1>3. CASE tree.root # 0
  <2>1. PICK lo, hi, lv : Settled(file.node, lo, hi, lv, tree.pages, want, tree.root, tree.first)
    BY <1>3, AtRestIs
  <2> DEFINE p == FindLeaf(file, tree.root, k)
             all == VisitFromLeaf(file, tree.first, 1)
             up == VisitFromLeaf(file, p, UpperBound(file.node[p].keys, k))
             low == VisitFromLeaf(file, p, LowerBound(file.node[p].keys, k))
             Chosen == {x \in want : Holds(op, x, k)}
  <2>2. all \in Seq(Entry) /\ Listed(all, want)
    BY <2>1, VisitAll
  <2>3. /\ up \in Seq(Entry) /\ Listed(up, {x \in want : x > k})
        /\ low \in Seq(Entry) /\ Listed(low, {x \in want : x >= k})
    <3>1. HandsOut(up, want, {x \in Int : x > k}) /\ HandsOut(low, want, {x \in Int : x >= k})
      BY <1>1, <2>1, VisitAbove
    <3> HIDE DEF up, low
    <3>2. /\ {x \in want : x \in {y \in Int : y > k}} = {x \in want : x > k}
          /\ {x \in want : x \in {y \in Int : y >= k}} = {x \in want : x >= k}
      BY <1>1
    <3> QED BY <3>1, <3>2 DEF HandsOut
  <2>4. /\ Visit("=", k) = SetToSeq({<<k, v>> : v \in Search(k)})
        /\ Visit(">", k) = up
        /\ Visit(">=", k) = low
        /\ Visit("<", k) = Before(all, {i \in DOMAIN all : all[i][1] >= k})
        /\ Visit("<=", k) = Before(all, {i \in DOMAIN all : all[i][1] > k})
        /\ Visit("!=", k) = Without(all, k)
    BY <1>3, VisitBy
  <2> HIDE DEF up, low, all
  <2>5. /\ Len(all) \in Nat /\ DOMAIN all = 1 .. Len(all)
        /\ \A i \in 1 .. Len(all) : all[i][1] \in Int
        /\ \A i, j \in 1 .. Len(all) : i < j => all[i][1] < all[j][1]
    <3>1. Len(all) \in Nat /\ DOMAIN all = 1 .. Len(all)
      BY <2>2
    <3>2. \A i \in 1 .. Len(all) : all[i][1] \in want
      BY <2>2 DEF Listed
    <3>3. \A i, j \in 1 .. Len(all) : i < j => all[i][1] < all[j][1]
      BY <2>2 DEF Listed
    <3>4. \A i \in 1 .. Len(all) : all[i][1] \in Int
      BY <1>1, <3>2
    <3> QED BY <3>1, <3>3, <3>4
  <2>6. CASE op = "="
    <3>1. Chosen = {x \in want : x = k}
      BY <2>6 DEF Holds
    <3>2. Search(k) = IF k \in want THEN {ValueOf[k]} ELSE {}
      BY SearchRight DEF SearchFindsInserted
    <3>3. CASE k \in want
      <4>1. {<<k, v>> : v \in Search(k)} = {<<k, ValueOf[k]>>} /\ Chosen = {k}
        BY <3>1, <3>2, <3>3
      <4> DEFINE e == <<k, ValueOf[k]>>
      <4>2. Visit(op, k) = <<e>>
        BY <2>4, <2>6, <4>1, SetToSeqSmall
      <4>3. ToSet(<<e>>) = {<<x, ValueOf[x]>> : x \in {k}} /\ DOMAIN <<e>> = {1}
        BY DEF ToSet
      <4> HIDE DEF e, Chosen
      <4>4. Lists(<<e>>, {k})
        BY <4>3 DEF Lists
      <4> QED BY <4>1, <4>2, <4>4 DEF Chosen
    <3>4. CASE k \notin want
      <4>1. {<<k, v>> : v \in Search(k)} = {} /\ Chosen = {}
        BY <3>1, <3>2, <3>4
      <4>2. Visit(op, k) = <<>>
        BY <2>4, <2>6, <4>1, SetToSeqSmall
      <4>3. ToSet(<<>>) = {<<x, ValueOf[x]>> : x \in {}} /\ DOMAIN <<>> = {}
        BY DEF ToSet
      <4> HIDE DEF Chosen
      <4>4. Lists(<<>>, {})
        BY <4>3 DEF Lists
      <4> QED BY <4>1, <4>2, <4>4 DEF Chosen
    <3> QED BY <3>3, <3>4
  <2>7. CASE op = ">"
    <3>1. Chosen = {x \in want : x > k}
      BY <2>7 DEF Holds
    <3> HIDE DEF Chosen
    <3>2. Lists(up, Chosen)
      BY <2>3, <3>1, ListedLists
    <3> QED BY <2>4, <2>7, <3>2 DEF Chosen
  <2>8. CASE op = ">="
    <3>1. Chosen = {x \in want : x >= k}
      BY <2>8 DEF Holds
    <3> HIDE DEF Chosen
    <3>2. Lists(low, Chosen)
      BY <2>3, <3>1, ListedLists
    <3> QED BY <2>4, <2>8, <3>2 DEF Chosen
  <2>9. CASE op = "<"
    <3> DEFINE R == {x \in Int : x < k}
               T == {i \in DOMAIN all : all[i][1] >= k}
    <3>1. Chosen = {x \in want : x \in R}
      BY <1>1, <2>9 DEF Holds
    <3>2. T \subseteq 1 .. Len(all) /\ \A i \in 1 .. Len(all) : i \in T <=> all[i][1] \notin R
      BY <1>1, <2>5
    <3>3. \A i, j \in 1 .. Len(all) : i < j /\ i \in T => j \in T
      BY <1>1, <2>5
    <3>4. Visit(op, k) = Before(all, T)
      BY <2>4, <2>9
    <3> HIDE DEF R, T, Chosen
    <3>5. Before(all, T) \in Seq(Entry) /\ Listed(Before(all, T), Chosen)
      BY <2>2, <3>1, <3>2, <3>3, BeforeIs
    <3> QED BY <3>4, <3>5, ListedLists DEF Chosen
  <2>10. CASE op = "<="
    <3> DEFINE R == {x \in Int : x <= k}
               T == {i \in DOMAIN all : all[i][1] > k}
    <3>1. Chosen = {x \in want : x \in R}
      BY <1>1, <2>10 DEF Holds
    <3>2. T \subseteq 1 .. Len(all) /\ \A i \in 1 .. Len(all) : i \in T <=> all[i][1] \notin R
      BY <1>1, <2>5
    <3>3. \A i, j \in 1 .. Len(all) : i < j /\ i \in T => j \in T
      BY <1>1, <2>5
    <3>4. Visit(op, k) = Before(all, T)
      BY <2>4, <2>10
    <3> HIDE DEF R, T, Chosen
    <3>5. Before(all, T) \in Seq(Entry) /\ Listed(Before(all, T), Chosen)
      BY <2>2, <3>1, <3>2, <3>3, BeforeIs
    <3> QED BY <3>4, <3>5, ListedLists DEF Chosen
  <2>11. CASE op = "!="
    <3>1. Chosen = {x \in want : x # k}
      BY <2>11 DEF Holds
    <3> HIDE DEF Chosen
    <3>2. Without(all, k) \in Seq(Entry) /\ Listed(Without(all, k), Chosen)
      BY <1>1, <2>2, <3>1, WithoutIs
    <3> QED BY <2>4, <2>11, <3>2, ListedLists DEF Chosen
  <2> QED BY <2>6, <2>7, <2>8, <2>9, <2>10, <2>11 DEF Ops
<1> QED BY <1>2, <1>3

(* bptree_visit gives the callback exactly the ids that match, in          *)
(* ascending order, for every operator and whether or not the id it        *)
(* compares with is in the tree.                                           *)
THEOREM VisitIsRight == Spec => []VisitMatchesFilter
<1>1. TreeInv => VisitMatchesFilter
  BY VisitRight
<1> QED BY <1>1, TreeInvariance, PTL

(* A header that counts as many ids as there are rows is the one in        *)
(* memory, and the file lacks no write.                                    *)
LEMMA FullyCounted ==
    ASSUME TreeInv, stable.header.size = Cardinality(want), stable.header.size > 0
    PROVE  /\ stable = file /\ file.header = tree
           /\ \E lo, hi, lv : Settled(file.node, lo, hi, lv, tree.pages, want, tree.root, tree.first)
<1>1. TypeOK /\ IsFiniteSet(want) /\ todo = <<>> /\ pc # "ascend" /\ stable = file
  BY DEF TreeInv, ControlRight, HeadersRight
<1>2. AtRest \/ pc = "descend"
  BY <1>1 DEF TypeOK, AtRest
<1>3. file.header = tree
  BY <1>2 DEF TreeInv, HeadersRight
<1>4. ~Fresh
  <2>1. EmptyHeader.size = 0
    BY DEF EmptyHeader
  <2> QED BY <2>1 DEF Fresh
<1>5. PICK N, lo, hi, top, lv, D : GrownRight(N, lo, hi, top, lv, D)
  BY <1>4 DEF TreeInv
<1>6. N = file.node
  BY <1>1, <1>5, GrownNow
<1>7. /\ tree.pages \in 1 .. MaxPages /\ D \subseteq want /\ want \in SUBSET Keys
      /\ Cardinality(D) = tree.size
  BY <1>1, <1>5, GrownSizes
<1>8. D = want
  <2>1. D \in SUBSET want /\ Cardinality(want) = Cardinality(D)
    BY <1>1, <1>3, <1>7
  <2> QED BY <1>1, <2>1, FS_Subset
<1>9. /\ Shaped(N, lo, hi, top, lv, tree.pages, D) /\ top = hi
      /\ RootRight(lo, top, lv, tree.pages, tree.root, tree.first)
  BY <1>1, <1>5 DEF GrownRight, Grown, IsPending
<1> QED BY <1>1, <1>3, <1>6, <1>7, <1>8, <1>9 DEF Settled

(* Such a file has the tree of the invariant.                              *)
LEMMA StaleRight == ASSUME TreeInv PROVE StaleFileIsDetected
<1> DEFINE h == stable.header
<1> SUFFICES ASSUME h.size = Cardinality(want), h.size > 0
             PROVE  /\ Lists(VisitFromLeaf(stable, h.first, 1), want)
                    /\ \A k \in want :
                          LET n == stable.node[FindLeaf(stable, h.root, k)]
                          IN  \E i \in DOMAIN n.keys : n.keys[i] = k /\ n.vals[i] = ValueOf[k]
  BY DEF StaleFileIsDetected
<1>1. /\ stable = file /\ h = tree
      /\ \E lo, hi, lv : Settled(file.node, lo, hi, lv, tree.pages, want, tree.root, tree.first)
  BY FullyCounted
<1>2. PICK lo, hi, lv : Settled(file.node, lo, hi, lv, tree.pages, want, tree.root, tree.first)
  BY <1>1
<1>3. Lists(VisitFromLeaf(file, tree.first, 1), want)
  BY <1>2, VisitAll, ListedLists
<1>4. ASSUME NEW k \in want
      PROVE  LET n == file.node[FindLeaf(file, tree.root, k)]
             IN  \E i \in DOMAIN n.keys : n.keys[i] = k /\ n.vals[i] = ValueOf[k]
  <2> DEFINE p == FindLeaf(file, tree.root, k)
  <2>1. k \in Ints
    BY SizesAre DEF TreeInv, TypeOK
  <2>2. LeafFound(file.node, lo, hi, lv, tree.pages, want, k, p)
    BY <1>2, <2>1, FindLeafIs
  <2> HIDE DEF p
  <2>3. \E i \in DOMAIN file.node[p].keys : file.node[p].keys[i] = k /\ file.node[p].vals[i] = ValueOf[k]
    BY <2>2, FoundInLeaf
  <2> QED BY <2>3 DEF p
<1> QED BY <1>1, <1>3, <1>4

(* The index file that a killed process leaves behind is complete whenever *)
(* its header counts as many ids as there are rows: every id is found in   *)
(* it, and its chain of leaves lists exactly these ids.  Otherwise         *)
(* load_table sees the difference and rebuilds (database.c 487-489).       *)
THEOREM StaleFileDetection == Spec => []StaleFileIsDetected
<1>1. TreeInv => StaleFileIsDetected
  BY StaleRight
<1> QED BY <1>1, TreeInvariance, PTL
=============================================================================
