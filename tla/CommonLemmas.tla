---------------------------- MODULE CommonLemmas ----------------------------
(* Least members of sets of natural numbers, induction over a set instead  *)
(* of a predicate, functions defined by recursion, and sequences put       *)
(* together from others.                                                   *)
EXTENDS Integers, SequencesExt, WellFoundedInduction, SequenceTheorems, TLAPS

(* A set of natural numbers that is not empty has a least member.          *)
LEMMA LeastNumber ==
    ASSUME NEW T \in SUBSET Nat, T # {}
    PROVE  \E x \in T : \A y \in T : x <= y
<1>1. PICK x \in T : \A y \in T : <<y, x>> \notin OpToRel(<, Nat)
  BY NatLessThanWellFounded, WFMin
<1>2. ASSUME NEW y \in T PROVE x <= y
  <2>1. x \in Nat /\ y \in Nat
    OBVIOUS
  <2>2. <<y, x>> \in Nat \X Nat /\ <<y, x>>[1] = y /\ <<y, x>>[2] = x
    BY <2>1
  <2>3. ~(y < x)
    BY <1>1, <2>2 DEF OpToRel
  <2> QED BY <2>1, <2>3
<1> QED BY <1>2

(* Min is that member.                                                     *)
LEMMA MinIsLeast ==
    ASSUME NEW T \in SUBSET Nat, T # {}
    PROVE  Min(T) \in T /\ \A y \in T : Min(T) <= y
BY LeastNumber DEF Min

(* Nothing smaller than the least member is a member.                      *)
LEMMA MinUnique ==
    ASSUME NEW T \in SUBSET Nat, NEW x \in T, \A y \in T : x <= y
    PROVE  Min(T) = x
<1>1. Min(T) \in T /\ Min(T) <= x
  BY MinIsLeast
<1>2. Min(T) \in Nat /\ x \in Nat /\ x <= Min(T)
  BY <1>1
<1> QED BY <1>1, <1>2

(* A set of numbers up to n that is not empty has a greatest member, Max.  *)
LEMMA MaxIsGreatest ==
    ASSUME NEW n \in Nat, NEW T \in SUBSET (0 .. n), T # {}
    PROVE  Max(T) \in T /\ \A y \in T : y <= Max(T)
<1> DEFINE U == {u \in Nat : \A y \in T : y <= u}
<1>1. n \in U
  OBVIOUS
<1>2. PICK u \in U : \A w \in U : u <= w
  BY <1>1, LeastNumber
<1>3. u \in T
  <2>1. SUFFICES ASSUME u \notin T PROVE FALSE
    OBVIOUS
  <2>2. \A y \in T : y \in Nat /\ y < u
    <3> TAKE y \in T
    <3>1. y \in Nat /\ u \in Nat /\ y <= u /\ y # u
      BY <2>1
    <3> QED BY <3>1
  <2>3. u \in Nat /\ u # 0
    <3>1. PICK y : y \in T
      OBVIOUS
    <3>2. u \in Nat /\ y \in Nat /\ y < u
      BY <2>2, <3>1
    <3> QED BY <3>2
  <2>4. u - 1 \in Nat /\ \A y \in T : y <= u - 1
    BY <2>2, <2>3
  <2>5. u - 1 \in U
    BY <2>4
  <2> QED BY <1>2, <2>3, <2>5
<1>4. \E x \in T : \A y \in T : x >= y
  BY <1>3
<1>5. Max(T) \in T /\ \A y \in T : Max(T) >= y
  BY <1>4 DEF Max
<1> QED BY <1>5

(* A set that holds 0 and with every number the next holds them all.       *)
LEMMA SetInduction ==
    ASSUME NEW T, 0 \in T, \A i \in Nat : i \in T => i + 1 \in T
    PROVE  \A i \in Nat : i \in T
<1> DEFINE Out == {i \in Nat : i \notin T}
<1> SUFFICES ASSUME Out # {} PROVE FALSE
  OBVIOUS
<1>1. PICK x \in Out : \A y \in Out : x <= y
  BY LeastNumber
<1>2. x \in Nat \ {0} /\ x - 1 \in Nat /\ x - 1 \notin Out
  BY <1>1
<1>3. x - 1 \in T /\ (x - 1) + 1 = x
  BY <1>2
<1> QED BY <1>1, <1>2, <1>3

(* The values of a function on 0 .. n stay in S if every step keeps them   *)
(* there.                                                                  *)
LEMMA StepwiseIn ==
    ASSUME NEW S, NEW n \in Nat, NEW f,
           f[0] \in S, \A i \in 1 .. n : f[i - 1] \in S => f[i] \in S
    PROVE  \A i \in 0 .. n : f[i] \in S
<1> DEFINE T == {i \in Nat : i <= n => f[i] \in S}
<1>1. 0 \in T
  OBVIOUS
<1>2. ASSUME NEW i \in Nat, i \in T PROVE i + 1 \in T
  <2>1. CASE i + 1 <= n
    <3>1. i + 1 \in 1 .. n /\ (i + 1) - 1 = i /\ f[i] \in S
      BY <1>2, <2>1
    <3> QED BY <3>1
  <2>2. CASE ~(i + 1 <= n)
    BY <2>2
  <2> QED BY <2>1, <2>2
<1> HIDE DEF T
<1>3. \A i \in Nat : i \in T
  BY <1>1, <1>2, SetInduction
<1> QED BY <1>3 DEF T

(* g solves the recursion that begins with base and goes on with step.     *)
IsRecursion(g, S, base, step, n) ==
    /\ g \in [0 .. n -> S]
    /\ g[0] = base
    /\ \A i \in 1 .. n : g[i] = step[i][g[i - 1]]

(* A recursion on 0 .. n, its step given as a function, has a solution.    *)
LEMMA RecursionExists ==
    ASSUME NEW S, NEW base \in S, NEW n \in Nat, NEW step \in [1 .. n -> [S -> S]]
    PROVE  \E g : IsRecursion(g, S, base, step, n)
<1> DEFINE Solves(m, g) ==
             /\ g \in [0 .. m -> S]
             /\ \A i \in 0 .. m : g[i] = IF i = 0 THEN base ELSE step[i][g[i - 1]]
           T == {m \in Nat : m <= n => \E g : Solves(m, g)}
<1>1. 0 \in T
  <2>1. Solves(0, [i \in 0 .. 0 |-> base])
    OBVIOUS
  <2> QED BY <2>1
<1>2. ASSUME NEW m \in Nat, m \in T PROVE m + 1 \in T
  <2> SUFFICES ASSUME m + 1 <= n PROVE \E g : Solves(m + 1, g)
    OBVIOUS
  <2>1. PICK g : Solves(m, g)
    BY <1>2
  <2> DEFINE h == [i \in 0 .. m + 1 |-> IF i = m + 1 THEN step[m + 1][g[m]] ELSE g[i]]
  <2>2. step[m + 1] \in [S -> S] /\ g[m] \in S
    BY <2>1
  <2>3. h \in [0 .. m + 1 -> S]
    BY <2>1, <2>2
  <2>4. ASSUME NEW i \in 0 .. m + 1
        PROVE  h[i] = IF i = 0 THEN base ELSE step[i][h[i - 1]]
    <3>1. CASE i = m + 1
      <4>1. h[i] = step[m + 1][g[m]] /\ i - 1 = m /\ h[m] = g[m] /\ i # 0
        BY <3>1
      <4> QED BY <4>1, <3>1
    <3>2. CASE i \in 1 .. m
      <4>1. h[i] = g[i] /\ h[i - 1] = g[i - 1] /\ i # 0 /\ i \in 0 .. m
        BY <3>2
      <4> QED BY <4>1, <2>1
    <3>3. CASE i = 0
      BY <3>3, <2>1
    <3> QED BY <3>1, <3>2, <3>3
  <2> QED BY <2>3, <2>4
<1> HIDE DEF T
<1>3. n \in T
  BY <1>1, <1>2, SetInduction
<1>4. PICK g : Solves(n, g)
  BY <1>3 DEF T
<1>5. IsRecursion(g, S, base, step, n)
  BY <1>4 DEF IsRecursion
<1> QED BY <1>5

(* A set that holds each place of 1 .. m of which it holds all later       *)
(* ones holds them all.                                                    *)
LEMMA DownwardIn ==
    ASSUME NEW m \in Nat, NEW T,
           \A i \in 1 .. m : (\A j \in i + 1 .. m : j \in T) => i \in T
    PROVE  \A i \in 1 .. m : i \in T
<1> DEFINE D == {d \in Nat : \A i \in 1 .. m : i > m - d => i \in T}
<1>1. 0 \in D
  OBVIOUS
<1>2. ASSUME NEW d \in Nat, d \in D PROVE d + 1 \in D
  <2> SUFFICES ASSUME NEW i \in 1 .. m, i > m - (d + 1) PROVE i \in T
    OBVIOUS
  <2>1. \A j \in i + 1 .. m : j \in 1 .. m /\ j > m - d
    OBVIOUS
  <2>2. \A j \in i + 1 .. m : j \in T
    BY <1>2, <2>1
  <2> QED BY <2>2
<1> HIDE DEF D
<1>3. \A d \in Nat : d \in D
  BY <1>1, <1>2, SetInduction
<1>4. m \in D
  BY <1>3
<1> QED BY <1>4 DEF D

(* step gives the value at each place of 1 .. m from the values behind it. *)
IsBackward(step, S, m) ==
    /\ step \in [1 .. m -> [[1 .. m -> S] -> S]]
    /\ \A i \in 1 .. m : \A g, h \in [1 .. m -> S] :
          (\A j \in i + 1 .. m : g[j] = h[j]) => step[i][g] = step[i][h]

(* g solves that recursion.                                                *)
SolvesBackward(g, step, S, m) ==
    g \in [1 .. m -> S] /\ \A i \in 1 .. m : g[i] = step[i][g]

(* Such a recursion, over any distance, has a solution.                    *)
LEMMA BackwardRecursion ==
    ASSUME NEW S, NEW e \in S, NEW m \in Nat, NEW step, IsBackward(step, S, m)
    PROVE  \E g : SolvesBackward(g, step, S, m)
<1> DEFINE F == [1 .. m -> S]
<1>1. /\ step \in [1 .. m -> [F -> S]]
      /\ \A i \in 1 .. m : \A g, h \in F :
            (\A j \in i + 1 .. m : g[j] = h[j]) => step[i][g] = step[i][h]
  BY DEF IsBackward
<1> DEFINE Solves(d, g) == \A i \in 1 .. m : i > m - d => g[i] = step[i][g]
           D == {d \in Nat : d <= m => \E g \in F : Solves(d, g)}
<1>2. 0 \in D
  <2>1. [i \in 1 .. m |-> e] \in F /\ Solves(0, [i \in 1 .. m |-> e])
    OBVIOUS
  <2> QED BY <2>1
<1>3. ASSUME NEW d \in Nat, d \in D PROVE d + 1 \in D
  <2> SUFFICES ASSUME d + 1 <= m PROVE \E g \in F : Solves(d + 1, g)
    OBVIOUS
  <2>1. PICK g \in F : Solves(d, g)
    BY <1>3
  <2> DEFINE p == m - d
             h == [g EXCEPT ![p] = step[p][g]]
  <2>2. p \in 1 .. m
    OBVIOUS
  <2> HIDE DEF p
  <2>3. step[p][g] \in S
    BY <1>1, <2>2
  <2>4. h \in F /\ h[p] = step[p][g] /\ \A j \in 1 .. m : j # p => h[j] = g[j]
    BY <2>2, <2>3
  <2> HIDE DEF h
  <2>5. ASSUME NEW i \in 1 .. m, i >= p PROVE step[i][g] = step[i][h]
    <3>1. \A j \in i + 1 .. m : j \in 1 .. m /\ j # p
      BY <2>2, <2>5
    <3>2. \A j \in i + 1 .. m : g[j] = h[j]
      BY <2>4, <3>1
    <3> QED BY <1>1, <2>4, <3>2
  <2>6. ASSUME NEW i \in 1 .. m, i >= p PROVE h[i] = step[i][h]
    <3>1. CASE i = p
      BY <2>4, <2>5, <2>6, <3>1
    <3>2. CASE i # p
      <4>1. i > m - d
        BY <2>2, <2>6, <3>2 DEF p
      <4> QED BY <2>1, <2>4, <2>5, <2>6, <3>2, <4>1
    <3> QED BY <3>1, <3>2
  <2>7. \A i \in 1 .. m : i > m - (d + 1) => i >= p
    BY DEF p
  <2>8. Solves(d + 1, h)
    BY <2>6, <2>7
  <2> QED BY <2>4, <2>8
<1> HIDE DEF D
<1>4. m \in D
  BY <1>2, <1>3, SetInduction
<1>5. PICK g \in F : Solves(m, g)
  BY <1>4 DEF D
<1>6. \A i \in 1 .. m : i > m - m
  OBVIOUS
<1>7. SolvesBackward(g, step, S, m)
  BY <1>5, <1>6 DEF SolvesBackward
<1> QED BY <1>7

(* A function on 1 .. n is a sequence.                                     *)
LEMMA FunctionIsSeq ==
    ASSUME NEW S, NEW n \in Nat, NEW f \in [1 .. n -> S]
    PROVE  f \in Seq(S) /\ Len(f) = n /\ DOMAIN f = 1 .. n
OBVIOUS

(* A sequence over its elements, and over what its elements are among.     *)
LEMMA SeqOver ==
    ASSUME NEW C, NEW D, NEW x \in Seq(C), \A i \in 1 .. Len(x) : x[i] \in D
    PROVE  x \in Seq(D)
<1>1. Len(x) \in Nat /\ x \in [1 .. Len(x) -> C]
  BY LenProperties
<1>2. x = [i \in 1 .. Len(x) |-> x[i]]
  BY <1>1
<1>3. x \in [1 .. Len(x) -> D]
  BY <1>2
<1> QED BY <1>1, <1>3, FunctionIsSeq

LEMMA SeqOverSet ==
    ASSUME NEW C, NEW D, NEW x \in Seq(C), ToSet(x) \subseteq D
    PROVE  x \in Seq(D)
<1>1. DOMAIN x = 1 .. Len(x)
  BY LenProperties
<1>2. \A i \in 1 .. Len(x) : x[i] \in D
  BY <1>1 DEF ToSet
<1> QED BY <1>2, SeqOver

-----------------------------------------------------------------------------
(* FlattenSeq                                                              *)

(* The values of FlattenSeq's loop.                                        *)
FlattenTrace(f, s, S) ==
    /\ f \in [0 .. Len(s) -> Seq(S)]
    /\ f[0] = <<>>
    /\ \A i \in 1 .. Len(s) : f[i] = f[i - 1] \o s[i]

LEMMA SeqOfSeq ==
    ASSUME NEW S, NEW s \in Seq(Seq(S))
    PROVE  Len(s) \in Nat /\ DOMAIN s = 1 .. Len(s) /\ \A i \in 1 .. Len(s) : s[i] \in Seq(S)
<1> DEFINE T == Seq(S)
<1> HIDE DEF T
<1>1. s \in Seq(T)
  BY DEF T
<1>2. Len(s) \in Nat /\ DOMAIN s = 1 .. Len(s) /\ \A i \in 1 .. Len(s) : s[i] \in T
  BY <1>1, ElementOfSeq
<1> QED BY <1>2 DEF T

LEMMA Concatenated ==
    ASSUME NEW S, NEW s \in Seq(S), NEW t \in Seq(S)
    PROVE  /\ s \o t \in Seq(S) /\ Len(s \o t) = Len(s) + Len(t)
           /\ \A i \in 1 .. Len(s) : (s \o t)[i] = s[i]
           /\ \A i \in 1 .. Len(t) : (s \o t)[Len(s) + i] = t[i]
           /\ <<>> \o s = s /\ s \o <<>> = s
<1>1. Len(s) \in Nat /\ Len(t) \in Nat
  OBVIOUS
<1>2. /\ s \o t \in Seq(S) /\ Len(s \o t) = Len(s) + Len(t)
      /\ \A i \in 1 .. Len(s) + Len(t) : (s \o t)[i] = IF i <= Len(s) THEN s[i] ELSE t[i - Len(s)]
  BY ConcatProperties
<1>3. \A i \in 1 .. Len(s) : i \in 1 .. Len(s) + Len(t) /\ i <= Len(s)
  BY <1>1
<1>4. \A i \in 1 .. Len(t) : /\ Len(s) + i \in 1 .. Len(s) + Len(t)
                             /\ ~(Len(s) + i <= Len(s))
                             /\ (Len(s) + i) - Len(s) = i
  BY <1>1
<1>5. <<>> \o s = s /\ s \o <<>> = s
  BY ConcatEmptySeq
<1>6. \A i \in 1 .. Len(s) : (s \o t)[i] = s[i]
  BY <1>2, <1>3
<1>7. \A i \in 1 .. Len(t) : (s \o t)[Len(s) + i] = t[i]
  BY <1>2, <1>4
<1> QED BY <1>2, <1>5, <1>6, <1>7

LEMMA FlattenIsTraced ==
    ASSUME NEW S, NEW s \in Seq(Seq(S))
    PROVE  \E f : FlattenTrace(f, s, S) /\ FlattenSeq(s) = f[Len(s)]
<1> DEFINE n == Len(s)
           T == Seq(S)
           step == [i \in 1 .. n |-> [x \in T |-> x \o s[i]]]
           h == CHOOSE g : g = [i \in 1 .. n |-> IF i = 1 THEN s[i] ELSE g[i - 1] \o s[i]]
           f == [i \in 0 .. n |-> IF i = 0 THEN <<>> ELSE h[i]]
<1>1. n \in Nat /\ \A i \in 1 .. n : s[i] \in T
  BY SeqOfSeq
<1>2. <<>> \in T /\ \A x, y \in T : x \o y \in T
  OBVIOUS
<1>3. \A x \in T : <<>> \o x = x
  BY ConcatEmptySeq
<1> HIDE DEF n, T
<1>4. step \in [1 .. n -> [T -> T]]
  BY <1>1, <1>2
<1>5. PICK g : IsRecursion(g, T, <<>>, step, n)
  <2> HIDE DEF step
  <2> QED BY <1>1, <1>2, <1>4, RecursionExists
<1>6. g \in [0 .. n -> T] /\ g[0] = <<>> /\ \A i \in 1 .. n : g[i] = step[i][g[i - 1]]
  <2> HIDE DEF step
  <2> QED BY <1>5 DEF IsRecursion
<1>7. \A i \in 1 .. n : i - 1 \in 0 .. n /\ g[i - 1] \in T /\ g[i] = g[i - 1] \o s[i]
  <2> TAKE i \in 1 .. n
  <2>1. i - 1 \in 0 .. n
    BY <1>1
  <2>2. g[i - 1] \in T
    BY <1>6, <2>1
  <2>3. step[i][g[i - 1]] = g[i - 1] \o s[i]
    BY <2>2
  <2> HIDE DEF step
  <2> QED BY <1>6, <2>1, <2>2, <2>3
<1> HIDE DEF step
<1> DEFINE k == [i \in 1 .. n |-> g[i]]
<1>8. k = [i \in 1 .. n |-> IF i = 1 THEN s[i] ELSE k[i - 1] \o s[i]]
  <2>1. ASSUME NEW i \in 1 .. n PROVE k[i] = IF i = 1 THEN s[i] ELSE k[i - 1] \o s[i]
    <3>1. CASE i = 1
      <4>1. i - 1 = 0
        BY <3>1
      <4>2. g[i] = g[0] \o s[i] /\ s[i] \in T
        BY <1>1, <1>7, <4>1
      <4> QED BY <1>3, <1>6, <3>1, <4>2
    <3>2. CASE i # 1
      <4>1. i - 1 \in 1 .. n
        BY <1>1, <3>2
      <4>2. k[i - 1] = g[i - 1] /\ k[i] = g[i]
        BY <4>1
      <4> QED BY <1>7, <3>2, <4>2
    <3> QED BY <3>1, <3>2
  <2> QED BY <2>1
<1> HIDE DEF k
<1>9. h = [i \in 1 .. n |-> IF i = 1 THEN s[i] ELSE h[i - 1] \o s[i]]
  BY <1>8
<1>10. ASSUME n # 0 PROVE FlattenSeq(s) = h[n]
  BY <1>1, <1>10 DEF FlattenSeq, n
<1>11. ASSUME n = 0 PROVE FlattenSeq(s) = <<>>
  <2>1. FlattenSeq(s) = s
    BY <1>11 DEF FlattenSeq, n
  <2>2. s = <<>>
    BY <1>11, EmptySeq DEF n
  <2> QED BY <2>1, <2>2
<1> HIDE DEF h
<1>12. /\ \A i \in 1 .. n : h[i] = IF i = 1 THEN s[i] ELSE h[i - 1] \o s[i]
  BY <1>9
<1>13. f[0] = <<>> /\ \A i \in 1 .. n : f[i] = h[i]
  BY <1>1
<1>14. DOMAIN f = 0 .. n
  OBVIOUS
<1>15. \A i \in 1 .. n : f[i] = f[i - 1] \o s[i]
  <2> TAKE i \in 1 .. n
  <2>1. CASE i = 1
    <3>1. f[i - 1] = <<>> /\ s[i] \in T /\ f[i] = s[i]
      BY <1>1, <1>12, <1>13, <2>1
    <3> QED BY <1>3, <3>1
  <2>2. CASE i # 1
    <3>1. i - 1 \in 1 .. n
      BY <1>1, <2>2
    <3>2. f[i - 1] = h[i - 1] /\ f[i] = h[i]
      BY <1>13, <3>1
    <3> QED BY <1>12, <2>2, <3>2
  <2> QED BY <2>1, <2>2
<1>16. FlattenSeq(s) = f[n]
  <2>1. CASE n = 0
    BY <1>11, <1>13, <2>1
  <2>2. CASE n # 0
    <3>1. n \in 1 .. n
      BY <1>1, <2>2
    <3> QED BY <1>10, <1>13, <2>2, <3>1
  <2> QED BY <2>1, <2>2
<1>17. f = [i \in 0 .. n |-> f[i]]
  BY <1>14
<1> HIDE DEF f
<1>18. \A i \in 0 .. n : f[i] \in T
  <2>1. f[0] \in T
    BY <1>2, <1>13
  <2>2. \A i \in 1 .. n : f[i - 1] \in T => f[i] \in T
    BY <1>1, <1>2, <1>15
  <2> QED BY <1>1, <2>1, <2>2, StepwiseIn
<1>19. f \in [0 .. n -> T]
  BY <1>17, <1>18
<1>20. FlattenTrace(f, s, S)
  BY <1>13, <1>15, <1>19 DEF FlattenTrace, n, T
<1> QED BY <1>16, <1>20 DEF n

LEMMA FlattenTyped ==
    ASSUME NEW S, NEW s \in Seq(Seq(S))
    PROVE  FlattenSeq(s) \in Seq(S)
<1>1. PICK f : FlattenTrace(f, s, S) /\ FlattenSeq(s) = f[Len(s)]
  BY FlattenIsTraced
<1>2. Len(s) \in 0 .. Len(s)
  BY SeqOfSeq
<1> QED BY <1>1, <1>2 DEF FlattenTrace

LEMMA FlattenNone == FlattenSeq(<<>>) = <<>>
BY DEF FlattenSeq

(* One more sequence goes to the end.                                      *)
LEMMA FlattenAppend ==
    ASSUME NEW S, NEW s \in Seq(Seq(S)), NEW x \in Seq(S)
    PROVE  FlattenSeq(Append(s, x)) = FlattenSeq(s) \o x
<1> DEFINE q == Append(s, x)
           n == Len(s)
           U == Seq(S)
<1>1. n \in Nat
  BY SeqOfSeq
<1>2. q \in Seq(Seq(S)) /\ Len(q) = n + 1 /\ q[n + 1] = x /\ \A i \in 1 .. n : q[i] = s[i]
  <2> HIDE DEF U
  <2>1. s \in Seq(U) /\ x \in U
    BY DEF U
  <2>2. q \in Seq(U) /\ Len(q) = n + 1 /\ q[n + 1] = x /\ \A i \in 1 .. n : q[i] = s[i]
    BY <2>1, AppendProperties
  <2> QED BY <2>2 DEF U
<1> HIDE DEF q
<1>3. PICK f : FlattenTrace(f, s, S) /\ FlattenSeq(s) = f[n]
  BY FlattenIsTraced
<1>4. PICK g : FlattenTrace(g, q, S) /\ FlattenSeq(q) = g[n + 1]
  BY <1>2, FlattenIsTraced
<1>5. f[0] = <<>> /\ \A i \in 1 .. n : f[i] = f[i - 1] \o s[i]
  BY <1>3 DEF FlattenTrace
<1>6. g[0] = <<>> /\ \A i \in 1 .. n + 1 : g[i] = g[i - 1] \o q[i]
  BY <1>2, <1>4 DEF FlattenTrace
<1> HIDE DEF n
<1> DEFINE T == {i \in Nat : i <= n => g[i] = f[i]}
<1>7. 0 \in T
  BY <1>5, <1>6
<1>8. ASSUME NEW i \in Nat, i \in T PROVE i + 1 \in T
  <2>1. SUFFICES ASSUME i + 1 <= n PROVE g[i + 1] = f[i + 1]
    OBVIOUS
  <2>2. i + 1 \in 1 .. n /\ i + 1 \in 1 .. n + 1 /\ (i + 1) - 1 = i /\ g[i] = f[i]
    BY <1>1, <1>8, <2>1
  <2>3. g[i + 1] = g[i] \o q[i + 1] /\ f[i + 1] = f[i] \o s[i + 1]
    BY <1>5, <1>6, <2>2
  <2> QED BY <1>2, <2>2, <2>3
<1> HIDE DEF T
<1>9. n \in T
  BY <1>1, <1>7, <1>8, SetInduction
<1>10. g[n] = f[n]
  BY <1>1, <1>9 DEF T
<1>11. n + 1 \in 1 .. n + 1 /\ (n + 1) - 1 = n
  BY <1>1
<1>12. g[n + 1] = g[n] \o q[n + 1]
  BY <1>6, <1>11
<1> QED BY <1>2, <1>3, <1>4, <1>10, <1>12 DEF q

(* A sequence that is not empty is its front and its last element.         *)
LEMMA SplitLast ==
    ASSUME NEW S, NEW n \in Nat, NEW s \in Seq(S), Len(s) = n + 1
    PROVE  \E t \in Seq(S) : \E x \in S : s = Append(t, x) /\ Len(t) = n
<1> DEFINE t == SubSeq(s, 1, n)
<1>1. n \in Int /\ n + 1 \in 1 .. Len(s) /\ \A i \in 1 .. n : i \in 1 .. Len(s)
  OBVIOUS
<1>2. s[n + 1] \in S /\ \A i \in 1 .. n : s[i] \in S
  BY <1>1, ElementOfSeq
<1>3. t \in Seq(S) /\ Len(t) = n /\ \A i \in 1 .. n : t[i] = s[i]
  BY <1>1, <1>2, SubSeqProperties
<1> HIDE DEF t
<1>4. /\ Append(t, s[n + 1]) \in Seq(S) /\ Len(Append(t, s[n + 1])) = n + 1
      /\ \A i \in 1 .. n : Append(t, s[n + 1])[i] = t[i]
      /\ Append(t, s[n + 1])[n + 1] = s[n + 1]
  BY <1>2, <1>3, AppendProperties
<1> DEFINE q == Append(t, s[n + 1])
<1> HIDE DEF q
<1>5. \A i \in 1 .. n + 1 : q[i] = s[i]
  <2> TAKE i \in 1 .. n + 1
  <2>1. i \in 1 .. n \/ i = n + 1
    OBVIOUS
  <2> QED BY <1>3, <1>4, <2>1 DEF q
<1>6. q = s
  BY <1>4, <1>5, SeqEqual DEF q
<1> QED BY <1>2, <1>3, <1>6 DEF q

(* FlattenSeq distributes over concatenation.                              *)
LEMMA FlattenConcat ==
    ASSUME NEW S, NEW s \in Seq(Seq(S)), NEW t \in Seq(Seq(S))
    PROVE  FlattenSeq(s \o t) = FlattenSeq(s) \o FlattenSeq(t)
<1> DEFINE U == Seq(S)
           T == {n \in Nat : \A z \in Seq(U) : Len(z) = n =>
                    FlattenSeq(s \o z) = FlattenSeq(s) \o FlattenSeq(z)}
<1>1. FlattenSeq(s) \in Seq(S)
  BY FlattenTyped
<1>2. 0 \in T
  <2> SUFFICES ASSUME NEW z \in Seq(U), Len(z) = 0
               PROVE  FlattenSeq(s \o z) = FlattenSeq(s) \o FlattenSeq(z)
    OBVIOUS
  <2>1. z = <<>>
    BY EmptySeq
  <2>2. s \o <<>> = s /\ FlattenSeq(s) \o <<>> = FlattenSeq(s)
    <3> HIDE DEF U
    <3>1. s \in Seq(U)
      BY DEF U
    <3> QED BY <1>1, <3>1, ConcatEmptySeq
  <2> QED BY <2>1, <2>2, FlattenNone
<1>3. ASSUME NEW n \in Nat, n \in T PROVE n + 1 \in T
  <2> SUFFICES ASSUME NEW z \in Seq(U), Len(z) = n + 1
               PROVE  FlattenSeq(s \o z) = FlattenSeq(s) \o FlattenSeq(z)
    OBVIOUS
  <2>1. PICK y \in Seq(U), x \in U : z = Append(y, x) /\ Len(y) = n
    <3> HIDE DEF U
    <3> QED BY SplitLast
  <2>2. FlattenSeq(s \o y) = FlattenSeq(s) \o FlattenSeq(y)
    BY <1>3, <2>1
  <2>3. s \o z = Append(s \o y, x) /\ s \o y \in Seq(U)
    <3> HIDE DEF U
    <3>1. s \in Seq(U) /\ y \in Seq(U) /\ x \in U
      BY DEF U
    <3> QED BY <2>1, <3>1
  <2>4. FlattenSeq(Append(s \o y, x)) = FlattenSeq(s \o y) \o x /\ FlattenSeq(z) = FlattenSeq(y) \o x
    BY <2>1, <2>3, FlattenAppend
  <2>5. FlattenSeq(y) \in Seq(S)
    BY FlattenTyped
  <2>6. (FlattenSeq(s) \o FlattenSeq(y)) \o x = FlattenSeq(s) \o (FlattenSeq(y) \o x)
    <3> DEFINE a == FlattenSeq(s)
               b == FlattenSeq(y)
    <3>1. a \in Seq(S) /\ b \in Seq(S) /\ x \in Seq(S)
      BY <1>1, <2>5
    <3> HIDE DEF a, b, U, T
    <3>2. (a \o b) \o x = a \o (b \o x)
      BY ONLY <3>1, ConcatAssociative, SMTT(30)
    <3> QED BY <3>2 DEF a, b
  <2> QED BY <2>2, <2>3, <2>4, <2>6
<1> HIDE DEF T
<1>4. \A n \in Nat : n \in T
  BY <1>2, <1>3, SetInduction
<1>5. Len(t) \in Nat
  BY SeqOfSeq
<1> QED BY <1>4, <1>5 DEF T

(* One sequence is itself.                                                 *)
LEMMA FlattenOne ==
    ASSUME NEW C, NEW x \in Seq(C)
    PROVE  FlattenSeq(<<x>>) = x
<1> DEFINE U == Seq(C)
<1>1. <<>> \in Seq(U) /\ <<>> \o x = x
  <2>1. <<>> \o x = x
    BY ConcatEmptySeq
  <2> QED BY <2>1
<1>2. Append(<<>>, x) = <<x>>
  <2>1. x \in U
    OBVIOUS
  <2> HIDE DEF U
  <2> QED BY <2>1
<1>3. FlattenSeq(Append(<<>>, x)) = FlattenSeq(<<>>) \o x
  BY <1>1, FlattenAppend
<1> QED BY <1>1, <1>2, <1>3, FlattenNone

(* Each piece of a flattened sequence is found where those before it end.  *)
PlacedAt(f, s, n, k) ==
    /\ Len(f[k - 1]) \in Nat /\ Len(f[k]) = Len(f[k - 1]) + Len(s[k])
    /\ Len(f[k]) <= Len(f[n])
    /\ \A j \in 1 .. Len(s[k]) : f[n][Len(f[k - 1]) + j] = s[k][j]

LEMMA FlattenPlaces ==
    ASSUME NEW S, NEW s \in Seq(Seq(S)), NEW f, FlattenTrace(f, s, S), NEW n, n = Len(s)
    PROVE  \A k \in 1 .. n : PlacedAt(f, s, n, k)
<1>0. SUFFICES ASSUME NEW k \in 1 .. Len(s)
               PROVE  /\ Len(f[k - 1]) \in Nat /\ Len(f[k]) = Len(f[k - 1]) + Len(s[k])
                      /\ Len(f[k]) <= Len(f[Len(s)])
                      /\ \A j \in 1 .. Len(s[k]) : f[Len(s)][Len(f[k - 1]) + j] = s[k][j]
  BY DEF PlacedAt
<1> DEFINE T == Seq(S)
           P == {x \in T : Len(f[k]) <= Len(x) /\ \A j \in 1 .. Len(f[k]) : x[j] = f[k][j]}
           a == f[k - 1]
           b == s[k]
           K == {i \in Nat : i \in k .. n => f[i] \in P}
<1>1. n \in Nat /\ k - 1 \in 0 .. n /\ k \in 0 .. n /\ \A i \in 1 .. n : s[i] \in T
  BY SeqOfSeq
<1>2. /\ \A i \in 0 .. n : f[i] \in T
      /\ \A i \in 1 .. n : f[i] = f[i - 1] \o s[i]
  BY DEF FlattenTrace
<1>3. /\ f[k] = a \o b /\ f[k] \in T /\ Len(f[k]) = Len(a) + Len(b)
      /\ Len(a) \in Nat /\ Len(b) \in Nat
      /\ \A j \in 1 .. Len(b) : f[k][Len(a) + j] = b[j]
  <2>1. a \in Seq(S) /\ b \in Seq(S) /\ f[k] = a \o b
    BY <1>1, <1>2
  <2> HIDE DEF a, b
  <2>2. a \o b \in Seq(S) /\ Len(a \o b) = Len(a) + Len(b) /\ \A j \in 1 .. Len(b) : (a \o b)[Len(a) + j] = b[j]
    BY <2>1, Concatenated
  <2> QED BY <2>1, <2>2
<1>13. Len(f[k]) \in Nat
  <2> HIDE DEF a, b, T
  <2> QED BY ONLY <1>3
<1>4. \A x, y \in T : x \in P => x \o y \in P
  <2> SUFFICES ASSUME NEW x \in T, NEW y \in T, x \in P PROVE x \o y \in P
    OBVIOUS
  <2>1. /\ x \o y \in T /\ Len(x \o y) = Len(x) + Len(y) /\ Len(x) \in Nat /\ Len(y) \in Nat
        /\ \A i \in 1 .. Len(x) : (x \o y)[i] = x[i]
    BY Concatenated
  <2>2. Len(f[k]) <= Len(x) /\ Len(f[k]) \in Nat /\ \A j \in 1 .. Len(f[k]) : x[j] = f[k][j]
    BY <1>13 DEF P
  <2> HIDE DEF T
  <2>3. \A j \in 1 .. Len(f[k]) : j \in 1 .. Len(x)
    BY <2>1, <2>2
  <2>4. Len(f[k]) <= Len(x \o y)
    BY <2>1, <2>2
  <2> QED BY <2>1, <2>2, <2>3, <2>4
<1>5. f[k] \in P
  <2> HIDE DEF a, b, T
  <2>1. f[k] \in T /\ Len(f[k]) <= Len(f[k])
    BY ONLY <1>3, <1>13
  <2> QED BY ONLY <2>1 DEF P
<1> HIDE DEF P, T
<1>6. 0 \in K
  BY <1>1
<1>7. ASSUME NEW i \in Nat, i \in K PROVE i + 1 \in K
  <2> SUFFICES ASSUME i + 1 \in k .. n PROVE f[i + 1] \in P
    BY DEF K
  <2>1. CASE i + 1 = k
    BY <1>5, <2>1
  <2>2. CASE i + 1 # k
    <3>1. i \in k .. n /\ i + 1 \in 1 .. n /\ (i + 1) - 1 = i /\ i \in 0 .. n
      BY <1>1, <2>2
    <3>2. f[i] \in P
      BY <1>7, <3>1 DEF K
    <3> QED BY <1>1, <1>2, <1>4, <3>1, <3>2
  <2> QED BY <2>1, <2>2
<1> HIDE DEF K
<1>8. n \in K
  BY <1>1, <1>6, <1>7, SetInduction
<1>9. f[n] \in P
  <2>1. n \in k .. n
    BY <1>1
  <2> QED BY <1>8, <2>1 DEF K
<1> HIDE DEF a, b
<1>10. Len(f[k]) <= Len(f[n]) /\ Len(f[k]) \in Nat /\ \A j \in 1 .. Len(f[k]) : f[n][j] = f[k][j]
  BY <1>3, <1>9 DEF P
<1>11. \A j \in 1 .. Len(b) : Len(a) + j \in 1 .. Len(f[k])
  BY <1>3
<1>12. \A j \in 1 .. Len(b) : f[n][Len(a) + j] = b[j]
  BY <1>3, <1>10, <1>11
<1> QED BY <1>3, <1>10, <1>12 DEF a, b
=============================================================================
