----------------------------- MODULE Repl_proofs ----------------------------
(***************************************************************************)
(* What the shell executes is what was typed, for every text, every set of *)
(* characters and every size of the line buffer; and every text is cut     *)
(* into tokens as it should be.                                            *)
(***************************************************************************)
EXTENDS Repl, CommonLemmas, SequenceTheorems

-----------------------------------------------------------------------------
(* Texts without their line ends                                           *)

LEMMA KeptTyped ==
    ASSUME NEW S, NEW s \in Seq(S)
    PROVE  /\ Kept(s) \in Seq(Seq(S)) /\ Len(Kept(s)) = Len(s)
           /\ \A i \in 1 .. Len(s) :
                 Kept(s)[i] = IF s[i] \in LineEnds THEN <<>> ELSE <<s[i]>>
<1> DEFINE U == Seq(S)
           k == [i \in 1 .. Len(s) |-> IF s[i] \in LineEnds THEN <<>> ELSE <<s[i]>>]
<1>1. Len(s) \in Nat /\ DOMAIN s = 1 .. Len(s) /\ \A i \in 1 .. Len(s) : s[i] \in S
  BY ElementOfSeq
<1>2. Kept(s) = k
  BY <1>1 DEF Kept
<1>3. k \in [1 .. Len(s) -> U]
  BY <1>1
<1> HIDE DEF U
<1>4. k \in Seq(U) /\ Len(k) = Len(s)
  BY <1>1, <1>3
<1> QED BY <1>2, <1>4 DEF U

LEMMA JoinedTyped ==
    ASSUME NEW S, NEW s \in Seq(S)
    PROVE  Joined(s) \in Seq(S)
BY KeptTyped, FlattenTyped DEF Joined

LEMMA JoinedConcat ==
    ASSUME NEW S, NEW s \in Seq(S), NEW t \in Seq(S)
    PROVE  Joined(s \o t) = Joined(s) \o Joined(t)
<1> DEFINE U == Seq(S)
           a == Kept(s)
           b == Kept(t)
           c == Kept(s \o t)
           m == Len(s)
           n == Len(t)
<1>1. /\ s \o t \in Seq(S) /\ Len(s \o t) = m + n
      /\ \A i \in 1 .. m : (s \o t)[i] = s[i]
      /\ \A i \in 1 .. n : (s \o t)[m + i] = t[i]
      /\ m \in Nat /\ n \in Nat
  BY Concatenated
<1>2. a \in Seq(Seq(S)) /\ b \in Seq(Seq(S)) /\ c \in Seq(Seq(S))
  BY <1>1, KeptTyped
<1>3. /\ Len(a) = m /\ Len(b) = n /\ Len(c) = m + n
      /\ \A i \in 1 .. m : a[i] = IF s[i] \in LineEnds THEN <<>> ELSE <<s[i]>>
      /\ \A i \in 1 .. n : b[i] = IF t[i] \in LineEnds THEN <<>> ELSE <<t[i]>>
      /\ \A i \in 1 .. m + n : c[i] = IF (s \o t)[i] \in LineEnds THEN <<>> ELSE <<(s \o t)[i]>>
  BY <1>1, KeptTyped
<1> HIDE DEF a, b, c, m, n
<1>4. c = a \o b
  <2> DEFINE d == a \o b
  <2> HIDE DEF U
  <2>1. a \in Seq(U) /\ b \in Seq(U) /\ c \in Seq(U)
    BY <1>2 DEF U
  <2>2. /\ d \in Seq(U) /\ Len(d) = m + n
        /\ \A i \in 1 .. m : d[i] = a[i]
        /\ \A i \in 1 .. n : d[m + i] = b[i]
    BY <1>3, <2>1, Concatenated
  <2> HIDE DEF d
  <2>3. ASSUME NEW i \in 1 .. m + n PROVE d[i] = c[i]
    <3>1. CASE i \in 1 .. m
      <4>1. d[i] = a[i] /\ (s \o t)[i] = s[i]
        BY <1>1, <2>2, <3>1
      <4>2. c[i] = IF s[i] \in LineEnds THEN <<>> ELSE <<s[i]>>
        BY <1>3, <4>1
      <4>3. a[i] = IF s[i] \in LineEnds THEN <<>> ELSE <<s[i]>>
        BY <1>3, <3>1
      <4> QED BY <4>1, <4>2, <4>3
    <3>2. CASE i \notin 1 .. m
      <4>1. i - m \in 1 .. n /\ m + (i - m) = i
        BY <1>1, <3>2
      <4> DEFINE j == i - m
      <4>2. j \in 1 .. n /\ m + j = i
        BY <4>1
      <4> HIDE DEF j
      <4>3. d[i] = b[j] /\ (s \o t)[i] = t[j]
        BY <1>1, <2>2, <4>2
      <4>4. c[i] = IF t[j] \in LineEnds THEN <<>> ELSE <<t[j]>>
        BY <1>3, <4>3
      <4>5. b[j] = IF t[j] \in LineEnds THEN <<>> ELSE <<t[j]>>
        BY <1>3, <4>2
      <4> QED BY <4>3, <4>4, <4>5
    <3> QED BY <3>1, <3>2
  <2>4. d = c
    BY <1>3, <2>1, <2>2, <2>3, SeqEqual
  <2> QED BY <2>4 DEF d
<1>5. FlattenSeq(a \o b) = FlattenSeq(a) \o FlattenSeq(b)
  BY <1>2, FlattenConcat
<1> QED BY <1>4, <1>5 DEF Joined, a, b, c

(* A text of line ends is nothing.                                         *)
LEMMA JoinedLineEnds ==
    ASSUME NEW S, NEW s \in Seq(S), \A i \in 1 .. Len(s) : s[i] \in LineEnds
    PROVE  Joined(s) = <<>>
<1> DEFINE k == Kept(s)
<1>1. k \in Seq(Seq(S)) /\ \A i \in 1 .. Len(k) : k[i] = <<>>
  BY KeptTyped
<1> HIDE DEF k
<1>2. PICK f : FlattenTrace(f, k, S) /\ FlattenSeq(k) = f[Len(k)]
  BY <1>1, FlattenIsTraced
<1>3. f[0] = <<>> /\ \A i \in 1 .. Len(k) : f[i] = f[i - 1] \o k[i]
  BY <1>2 DEF FlattenTrace
<1>4. Len(k) \in Nat
  BY <1>1, SeqOfSeq
<1> DEFINE N == {<<>>}
<1>5. f[0] \in N
  BY <1>3
<1>6. \A i \in 1 .. Len(k) : f[i - 1] \in N => f[i] \in N
  <2> TAKE i \in 1 .. Len(k)
  <2>1. <<>> \o <<>> = <<>>
    OBVIOUS
  <2> QED BY <1>1, <1>3, <2>1
<1> HIDE DEF N
<1>7. \A i \in 0 .. Len(k) : f[i] \in N
  BY <1>4, <1>5, <1>6, StepwiseIn
<1>8. f[Len(k)] \in N
  BY <1>4, <1>7
<1> QED BY <1>2, <1>8 DEF Joined, N, k

(* Chars and the newline that ends a line in the buffer.                   *)
TextChars == Chars \cup {"LF"}

LEMMA JoinedAppend ==
    ASSUME NEW S, NEW s \in Seq(S), NEW c \in S
    PROVE  /\ Joined(Append(s, c)) = Joined(s) \o Joined(<<c>>)
           /\ c \in LineEnds => Joined(Append(s, c)) = Joined(s)
<1> DEFINE e == <<c>>
<1>1. e \in Seq(S) /\ Len(e) = 1 /\ e[1] = c
  OBVIOUS
<1>2. Append(s, c) = s \o e
  BY AppendIsConcat
<1> HIDE DEF e
<1>3. Joined(s \o e) = Joined(s) \o Joined(e)
  BY <1>1, JoinedConcat
<1>4. ASSUME c \in LineEnds PROVE Joined(s \o e) = Joined(s)
  <2>1. \A i \in 1 .. Len(e) : e[i] \in LineEnds
    <3> TAKE i \in 1 .. Len(e)
    <3>1. i = 1
      BY <1>1
    <3> QED BY <1>1, <1>4, <3>1
  <2>2. Joined(e) = <<>>
    BY <1>1, <2>1, JoinedLineEnds
  <2>3. Joined(s) \in Seq(S)
    BY JoinedTyped
  <2>4. Joined(s) \o <<>> = Joined(s)
    BY <2>3, ConcatEmptySeq
  <2> QED BY <1>3, <2>2, <2>4
<1> QED BY <1>2, <1>3, <1>4 DEF e

(* What fgets has is the trimmed line and line ends; the trimmed line has  *)
(* no newline.                                                             *)
LEMMA TrimmedLine ==
    ASSUME NEW S, line \in Seq(S), \A i \in 1 .. Len(line) - 1 : line[i] # "LF"
    PROVE  /\ Trimmed \in Seq(S)
           /\ Joined(Trimmed) = Joined(line)
           /\ \A i \in 1 .. Len(Trimmed) : Trimmed[i] # "LF"
<1> DEFINE n == Len(line)
           kept == {0} \cup {i \in DOMAIN line : line[i] \notin LineEnds}
           m == Max(kept)
           rest == SubSeq(line, m + 1, n)
           t == SubSeq(line, 1, m)
<1>1. n \in Nat /\ DOMAIN line = 1 .. n /\ \A i \in 1 .. n : line[i] \in S
  BY ElementOfSeq
<1>2. kept \in SUBSET (0 .. n) /\ kept # {}
  BY <1>1
<1>3. m \in kept /\ \A y \in kept : y <= m
  <2> HIDE DEF kept, n
  <2> QED BY <1>1, <1>2, MaxIsGreatest
<1>4. Trimmed = t
  BY DEF Trimmed, LineEnds
<1> HIDE DEF m
<1>5. m \in 0 .. n /\ (m = 0 \/ line[m] \notin LineEnds)
  BY <1>1, <1>3
<1>6. \A i \in m + 1 .. n : line[i] \in LineEnds
  <2> TAKE i \in m + 1 .. n
  <2>1. i \in 1 .. n /\ ~(i <= m)
    BY <1>1, <1>5
  <2>2. i \notin kept
    BY <1>3, <2>1
  <2> QED BY <1>1, <2>1, <2>2
<1> HIDE DEF kept
<1>7. /\ t \in Seq(S) /\ Len(t) = m
      /\ \A i \in 1 .. m : t[i] = line[i]
  <2>1. 1 \in Int /\ m \in Int /\ \A i \in 1 .. m : line[i] \in S
    BY <1>1, <1>5
  <2>2. /\ t \in Seq(S) /\ Len(t) = (IF 1 <= m THEN m - 1 + 1 ELSE 0)
        /\ \A i \in 1 .. m - 1 + 1 : t[i] = line[1 + i - 1]
    BY <2>1, SubSeqProperties
  <2>3. m - 1 + 1 = m /\ (1 <= m \/ m = 0) /\ \A i \in 1 .. m : 1 + i - 1 = i
    BY <1>5
  <2> HIDE DEF t
  <2> QED BY <2>2, <2>3
<1>8. /\ rest \in Seq(S) /\ \A i \in 1 .. Len(rest) : rest[i] \in LineEnds
  <2>1. m + 1 \in Int /\ n \in Int /\ \A i \in m + 1 .. n : line[i] \in S
    BY <1>1, <1>5
  <2> DEFINE p == m + 1
  <2> HIDE DEF p
  <2>2. /\ SubSeq(line, p, n) \in Seq(S)
        /\ Len(SubSeq(line, p, n)) = (IF p <= n THEN n - p + 1 ELSE 0)
        /\ \A i \in 1 .. n - p + 1 : SubSeq(line, p, n)[i] = line[p + i - 1]
    BY <2>1, SubSeqProperties DEF p
  <2> DEFINE r == SubSeq(line, p, n)
  <2> HIDE DEF r
  <2>3. ASSUME NEW i \in 1 .. Len(r) PROVE r[i] \in LineEnds
    <3>1. i \in 1 .. n - p + 1 /\ p + i - 1 \in m + 1 .. n
      BY <1>1, <1>5, <2>2 DEF r, p
    <3> QED BY <1>6, <2>2, <3>1 DEF r
  <2> QED BY <2>2, <2>3 DEF r, p
<1>9. line = t \o rest
  <2>1. 1 \in 1 .. Len(line) + 1 /\ m \in 1 - 1 .. Len(line) /\ n \in m .. Len(line)
    BY <1>1, <1>5
  <2>2. t \o rest = SubSeq(line, 1, n)
    BY <2>1, ConcatAdjacentSubSeq
  <2>3. SubSeq(line, 1, Len(line)) = line
    BY SubSeqFull
  <2> QED BY <2>2, <2>3
<1> HIDE DEF t, rest
<1>10. Joined(line) = Joined(t)
  <2>1. Joined(t \o rest) = Joined(t) \o Joined(rest)
    BY <1>7, <1>8, JoinedConcat
  <2>2. Joined(rest) = <<>>
    BY <1>8, JoinedLineEnds
  <2>3. Joined(t) \in Seq(S)
    BY <1>7, JoinedTyped
  <2>4. Joined(t) \o <<>> = Joined(t)
    BY <2>3, ConcatEmptySeq
  <2> QED BY <1>9, <2>1, <2>2, <2>4
<1>11. \A i \in 1 .. m : t[i] # "LF"
  <2> TAKE i \in 1 .. m
  <2>1. i \in 1 .. n - 1 \/ i = m
    BY <1>1, <1>5
  <2>2. m # 0
    BY <1>5
  <2> QED BY <1>5, <1>7, <2>1, <2>2 DEF LineEnds
<1> QED BY <1>4, <1>7, <1>10, <1>11

(* A line with a semicolon completes the statement.                        *)
LEMMA CompletedByLine ==
    ASSUME NEW S, NEW b \in Seq(S), NEW t \in Seq(S), "LF" \in S,
           Semicolon \notin ToSet(b), Semicolon \in ToSet(t),
           \A i \in 1 .. Len(t) : t[i] # "LF"
    PROVE  Complete(b \o Append(t, "LF"))
<1> DEFINE a == Append(t, "LF")
           w == b \o a
           m == Len(b)
           k == Len(t)
           semis == {j \in 1 .. Len(w) : w[j] \in {Semicolon}}
           s == Min(semis)
           ends == {j \in s .. Len(w) : w[j] \in {"LF"}}
<1>1. m \in Nat /\ k \in Nat /\ DOMAIN b = 1 .. m /\ DOMAIN t = 1 .. k
  OBVIOUS
<1>2. a \in Seq(S) /\ Len(a) = k + 1 /\ a[k + 1] = "LF" /\ \A i \in 1 .. k : a[i] = t[i]
  BY AppendProperties
<1> HIDE DEF a
<1>3. /\ w \in Seq(S) /\ Len(w) = m + (k + 1)
      /\ \A i \in 1 .. m : w[i] = b[i]
      /\ \A i \in 1 .. k + 1 : w[m + i] = a[i]
  <2>1. /\ w \in Seq(S) /\ Len(w) = Len(b) + Len(a)
        /\ \A i \in 1 .. Len(b) : w[i] = b[i]
        /\ \A i \in 1 .. Len(a) : w[Len(b) + i] = a[i]
    <3>1. a \in Seq(S)
      BY <1>2
    <3> QED BY <3>1, Concatenated
  <2> HIDE DEF w
  <2> QED BY <1>2, <2>1
<1>4. \A i \in 1 .. m : b[i] # Semicolon
  BY <1>1 DEF ToSet
<1>5. PICK p \in 1 .. k : t[p] = Semicolon
  BY <1>1 DEF ToSet
<1> HIDE DEF w, m, k
<1>6. m + p \in semis
  <2>1. p \in 1 .. k + 1 /\ m + p \in 1 .. Len(w)
    BY <1>1, <1>3
  <2>2. w[m + p] = Semicolon
    BY <1>2, <1>3, <1>5, <2>1
  <2> QED BY <2>1, <2>2
<1>7. semis \in SUBSET Nat /\ semis # {}
  BY <1>1, <1>3, <1>6
<1>8. s \in semis /\ s <= m + p
  <2> HIDE DEF semis
  <2> QED BY <1>6, <1>7, MinIsLeast
<1> HIDE DEF s
<1>9. s \in m + 1 .. m + k
  <2>1. s \in Nat /\ w[s] = Semicolon /\ s \in 1 .. m + (k + 1)
    BY <1>1, <1>3, <1>8
  <2>2. s \notin 1 .. m
    BY <1>3, <1>4, <2>1
  <2> QED BY <1>1, <1>8, <2>1, <2>2
<1>10. Find(w, 1, {Semicolon}) = s
  BY <1>7 DEF Find, First, s
<1>11. Len(w) \in ends
  <2>1. k + 1 \in 1 .. k + 1
    BY <1>1
  <2>2. w[m + (k + 1)] = "LF"
    BY <1>2, <1>3, <2>1
  <2>3. Len(w) \in s .. Len(w)
    BY <1>1, <1>3, <1>9
  <2> QED BY <1>3, <2>2, <2>3
<1>12. \A y \in ends : Len(w) <= y
  <2> SUFFICES ASSUME NEW y \in s .. Len(w), w[y] = "LF", ~(Len(w) <= y) PROVE FALSE
    OBVIOUS
  <2> DEFINE j == y - m
  <2>1. j \in 1 .. k /\ j \in 1 .. k + 1 /\ m + j = y
    BY <1>1, <1>3, <1>9
  <2> HIDE DEF j
  <2>2. w[y] = t[j]
    BY <1>2, <1>3, <2>1
  <2> QED BY <2>1, <2>2 DEF k
<1>13. ends \in SUBSET Nat
  BY <1>1, <1>3, <1>9
<1>14. Min(ends) = Len(w)
  <2> HIDE DEF ends
  <2> QED BY <1>11, <1>12, <1>13, MinUnique
<1>15. Find(w, s, {"LF"}) = Len(w)
  BY <1>11, <1>14 DEF Find, First
<1>16. Semicolon \in ToSet(w)
  <2>1. DOMAIN w = 1 .. Len(w)
    BY <1>3
  <2> QED BY <1>6, <2>1 DEF ToSet
<1> QED BY <1>10, <1>15, <1>16 DEF Complete, w, a

-----------------------------------------------------------------------------
(* The invariant                                                           *)

(* What was typed, in the parts the program holds it in.                   *)
InOrder(x, s, l, t) == (Joined(x) \o Joined(s)) \o Joined(l) = Joined(t)

LEMMA PartsJoined ==
    ASSUME NEW S, NEW x \in Seq(S), NEW s \in Seq(S), NEW l \in Seq(S), NEW t
    PROVE  InOrder(x, s, l, t) <=> Joined(x \o s \o l) = Joined(t)
<1>1. x \o s \in Seq(S)
  BY Concatenated
<1>2. Joined(x \o s) = Joined(x) \o Joined(s)
  BY JoinedConcat
<1> DEFINE y == x \o s
<1> HIDE DEF y
<1>3. Joined(y \o l) = Joined(y) \o Joined(l)
  BY <1>1, JoinedConcat DEF y
<1> QED BY <1>2, <1>3 DEF InOrder, y

(* The texts of the state, all over one set of characters.                 *)
Texts(x, s, l, t) ==
    /\ t \in Seq(TextChars) /\ l \in Seq(TextChars) /\ s \in Seq(TextChars)
    /\ x \in Seq(Seq(TextChars)) /\ FlattenSeq(x) \in Seq(TextChars)

LEMMA TextsTyped ==
    ASSUME NEW t \in Seq(Chars), NEW l \in Seq(Chars), NEW s \in Seq(TextChars),
           NEW x \in Seq(Seq(TextChars))
    PROVE  /\ Texts(x, s, l, t)
           /\ InOrder(FlattenSeq(x), s, l, t) <=> Joined(FlattenSeq(x) \o s \o l) = Joined(t)
<1> DEFINE C == Chars
           T == TextChars
           y == FlattenSeq(x)
<1>1. C \subseteq T
  BY DEF TextChars
<1>2. t \in Seq(C) /\ l \in Seq(C) /\ s \in Seq(T) /\ x \in Seq(Seq(T))
  OBVIOUS
<1> HIDE DEF C, T
<1>3. t \in Seq(T) /\ l \in Seq(T)
  BY <1>1, <1>2, SeqMonotonic
<1>4. y \in Seq(T)
  BY <1>2, FlattenTyped
<1>5. Texts(x, s, l, t)
  BY <1>2, <1>3, <1>4 DEF Texts, T
<1> HIDE DEF y
<1>6. InOrder(y, s, l, t) <=> Joined(y \o s \o l) = Joined(t)
  BY <1>2, <1>3, <1>4, PartsJoined
<1> QED BY <1>5, <1>6 DEF y

(* ReplInv, with the state as a parameter.                                 *)
Inv(x, s, l, t, at) ==
    /\ t \in Seq(Chars) /\ l \in Seq(Chars)
    /\ s \in Seq(TextChars) /\ x \in Seq(Seq(TextChars))
    /\ at \in {"read", "execute", "ended", "exited"}
    /\ \A i \in 1 .. Len(l) - 1 : l[i] # "LF"
    /\ at = "execute" => Complete(s)
    /\ at # "exited" => InOrder(FlattenSeq(x), s, l, t)
    /\ at = "read" => Semicolon \notin ToSet(s)
    /\ \A n \in DOMAIN x : Complete(x[n])

LEMMA InvIs ==
    ReplInv <=> Inv(executed, statement, line, typed, pc)
<1>1. CASE TypeOK
  <2>1. /\ typed \in Seq(Chars) /\ line \in Seq(Chars) /\ statement \in Seq(TextChars)
        /\ executed \in Seq(Seq(TextChars))
        /\ pc \in {"read", "execute", "ended", "exited"}
    BY <1>1 DEF TypeOK, TextChars
  <2>2. InOrder(FlattenSeq(executed), statement, line, typed)
          <=> Joined(FlattenSeq(executed) \o statement \o line) = Joined(typed)
    BY <2>1, TextsTyped
  <2> QED BY <1>1, <2>1, <2>2 DEF ReplInv, ExecutedAsTyped, Inv
<1>2. CASE ~TypeOK
  BY <1>2 DEF ReplInv, Inv, TypeOK, TextChars
<1> QED BY <1>1, <1>2

LEMMA InvIsNext ==
    ReplInv' <=> Inv(executed', statement', line', typed', pc')
<1>1. CASE TypeOK'
  <2>1. /\ typed' \in Seq(Chars) /\ line' \in Seq(Chars) /\ statement' \in Seq(TextChars)
        /\ executed' \in Seq(Seq(TextChars))
        /\ pc' \in {"read", "execute", "ended", "exited"}
    BY <1>1 DEF TypeOK, TextChars
  <2>2. InOrder(FlattenSeq(executed'), statement', line', typed')
          <=> Joined(FlattenSeq(executed') \o statement' \o line') = Joined(typed')
    BY <2>1, TextsTyped
  <2> QED BY <1>1, <2>1, <2>2 DEF ReplInv, ExecutedAsTyped, Inv
<1>2. CASE ~TypeOK'
  BY <1>2 DEF ReplInv, Inv, TypeOK, TextChars
<1> QED BY <1>1, <1>2

LEMMA SemicolonIsNoNewline == Semicolon # "LF"
BY Zenon DEF Semicolon

LEMMA JoinedNone == Joined(<<>>) = <<>>
<1> DEFINE T == TextChars
           e == <<>>
<1>1. e \in Seq(T) /\ \A i \in 1 .. Len(e) : e[i] \in LineEnds
  OBVIOUS
<1> HIDE DEF T, e
<1>2. Joined(e) = <<>>
  BY <1>1, JoinedLineEnds
<1> QED BY <1>2 DEF e

(* The parts of what was typed, without their line ends.                   *)
LEMMA PartsTyped ==
    ASSUME NEW x, NEW s, NEW l, NEW t, Texts(x, s, l, t)
    PROVE  /\ Joined(FlattenSeq(x)) \in Seq(TextChars) /\ Joined(s) \in Seq(TextChars)
           /\ Joined(l) \in Seq(TextChars) /\ Joined(t) \in Seq(TextChars)
BY JoinedTyped DEF Texts

LEMMA TypeStep ==
    ASSUME NEW x, NEW s, NEW l, NEW t, NEW c \in Chars,
           Inv(x, s, l, t, "read"), l = <<>> \/ Last(l) # "LF"
    PROVE  Inv(x, s, Append(l, c), Append(t, c), "read")
<1> DEFINE T == TextChars
           y == FlattenSeq(x)
           m == Append(l, c)
           u == Append(t, c)
           e == <<c>>
<1>1. Texts(x, s, l, t) /\ c \in T
  BY TextsTyped DEF Inv, TextChars
<1>2. Joined(y) \in Seq(T) /\ Joined(s) \in Seq(T) /\ Joined(l) \in Seq(T) /\ Joined(t) \in Seq(T)
  BY <1>1, PartsTyped
<1>3. e \in Seq(T)
  BY <1>1
<1>4. Joined(m) = Joined(l) \o Joined(e) /\ Joined(u) = Joined(t) \o Joined(e)
  <2> HIDE DEF T
  <2>1. l \in Seq(T) /\ t \in Seq(T)
    BY <1>1 DEF Texts, T
  <2> QED BY <1>1, <2>1, JoinedAppend
<1>5. InOrder(y, s, l, t)
  BY DEF Inv
<1>6. InOrder(y, s, m, u)
  <2> DEFINE a == Joined(y) \o Joined(s)
             b == Joined(l)
             d == Joined(e)
  <2> HIDE DEF T, e, y, m, u
  <2>1. a \in Seq(T) /\ b \in Seq(T) /\ d \in Seq(T)
    BY <1>2, <1>3, JoinedTyped, Concatenated
  <2>2. a \o b = Joined(t)
    BY <1>5 DEF InOrder
  <2> HIDE DEF a, b, d
  <2>3. (a \o b) \o d = a \o (b \o d)
    BY <2>1, ConcatAssociative, SMTT(30)
  <2>4. Joined(m) = b \o d /\ Joined(u) = Joined(t) \o d
    BY <1>4 DEF b, d
  <2> QED BY <2>2, <2>3, <2>4 DEF InOrder, a
<1>7. l \in Seq(Chars) /\ t \in Seq(Chars)
  BY DEF Inv
<1>8. /\ m \in Seq(Chars) /\ u \in Seq(Chars) /\ Len(m) = Len(l) + 1
      /\ \A i \in 1 .. Len(l) : m[i] = l[i]
  BY <1>7, AppendProperties
<1>9. ASSUME NEW i \in 1 .. Len(m) - 1 PROVE m[i] # "LF"
  <2>1. Len(l) \in Nat /\ i \in 1 .. Len(l) /\ (i \in 1 .. Len(l) - 1 \/ i = Len(l))
    BY <1>7, <1>8
  <2>2. i = Len(l) => l[i] # "LF"
    <3>1. i = Len(l) => l # <<>>
      BY <2>1
    <3> QED BY <3>1 DEF Last
  <2>3. i \in 1 .. Len(l) - 1 => l[i] # "LF"
    BY DEF Inv
  <2> QED BY <1>8, <2>1, <2>2, <2>3
<1>10. /\ s \in Seq(TextChars) /\ x \in Seq(Seq(TextChars))
       /\ Semicolon \notin ToSet(s) /\ \A n \in DOMAIN x : Complete(x[n])
  BY DEF Inv
<1> HIDE DEF m, u
<1>11. Inv(x, s, m, u, "read")
  BY <1>6, <1>8, <1>9, <1>10 DEF Inv
<1> QED BY <1>11 DEF m, u

(* The line is dropped: it was nothing but line ends.                      *)
LEMMA SkipStep ==
    ASSUME NEW x, NEW t, NEW l, Inv(x, <<>>, l, t, "read"), Joined(l) = <<>>
    PROVE  Inv(x, <<>>, <<>>, t, "read")
BY JoinedNone DEF Inv, InOrder

LEMMA AppendStep ==
    ASSUME NEW x, NEW s, NEW t, Inv(x, s, line, t, "read"), NEW at,
           at = IF Semicolon \in ToSet(Trimmed) THEN "execute" ELSE "read"
    PROVE  Inv(x, s \o Append(Trimmed, "LF"), <<>>, t, at)
<1> DEFINE T == TextChars
           y == FlattenSeq(x)
           tr == Trimmed
           a == Append(tr, "LF")
           w == s \o a
<1>1. Texts(x, s, line, t) /\ "LF" \in T
  BY TextsTyped DEF Inv, TextChars
<1>2. Joined(y) \in Seq(T) /\ Joined(s) \in Seq(T) /\ Joined(line) \in Seq(T)
  BY <1>1, PartsTyped
<1>3. InOrder(y, s, line, t) /\ Semicolon \notin ToSet(s) /\ s \in Seq(T)
  BY DEF Inv
<1>4. /\ tr \in Seq(T) /\ Joined(tr) = Joined(line)
      /\ \A i \in 1 .. Len(tr) : tr[i] # "LF"
  <2>1. line \in Seq(T) /\ \A i \in 1 .. Len(line) - 1 : line[i] # "LF"
    BY <1>1 DEF Inv, Texts
  <2> HIDE DEF T
  <2> QED BY <2>1, TrimmedLine
<1> HIDE DEF T, tr, y
<1>5. Joined(a) = Joined(line) /\ a \in Seq(T)
  <2>1. "LF" \in LineEnds
    BY DEF LineEnds
  <2>2. Joined(a) = Joined(tr)
    BY <1>1, <1>4, <2>1, JoinedAppend
  <2> QED BY <1>1, <1>4, <2>2, AppendProperties
<1>6. InOrder(y, w, <<>>, t)
  <2> HIDE DEF a
  <2>1. Joined(w) = Joined(s) \o Joined(line)
    BY <1>3, <1>5, JoinedConcat
  <2> DEFINE p == Joined(y)
             q == Joined(s)
             r == Joined(line)
             v == p \o (q \o r)
  <2>2. p \in Seq(T) /\ q \in Seq(T) /\ r \in Seq(T) /\ (p \o q) \o r = Joined(t)
    BY <1>2, <1>3 DEF InOrder
  <2> HIDE DEF p, q, r
  <2>3. (p \o q) \o r = v
    <3>1. p \in Seq(T) /\ q \in Seq(T) /\ r \in Seq(T)
      BY <2>2
    <3> QED BY <3>1, ConcatAssociative, SMTT(30)
  <2>4. v \in Seq(T)
    BY <2>2, Concatenated
  <2> HIDE DEF v
  <2>5. v \o <<>> = v
    BY <2>4, ConcatEmptySeq
  <2>6. p \o Joined(w) = v
    BY <2>1 DEF v, q, r
  <2> QED BY <2>2, <2>3, <2>5, <2>6, JoinedNone DEF InOrder, p
<1>7. w \in Seq(T)
  <2> HIDE DEF a
  <2> QED BY <1>3, <1>5, Concatenated
<1>8. ASSUME Semicolon \in ToSet(tr) PROVE Complete(w)
  BY <1>1, <1>3, <1>4, <1>8, CompletedByLine
<1>9. ASSUME Semicolon \notin ToSet(tr) PROVE Semicolon \notin ToSet(w)
  <2>1. /\ Len(s) \in Nat /\ Len(tr) \in Nat
        /\ DOMAIN s = 1 .. Len(s) /\ DOMAIN tr = 1 .. Len(tr) /\ DOMAIN w = 1 .. Len(w)
    <3> HIDE DEF w
    <3> QED BY <1>3, <1>4, <1>7
  <2>2. /\ Len(a) = Len(tr) + 1 /\ a[Len(tr) + 1] = "LF"
        /\ \A i \in 1 .. Len(tr) : a[i] = tr[i]
    BY <1>1, <1>4, AppendProperties
  <2> HIDE DEF a
  <2>3. ASSUME NEW i \in 1 .. Len(a) PROVE a[i] # Semicolon
    <3>1. i \in 1 .. Len(tr) \/ i = Len(tr) + 1
      BY <2>1, <2>2
    <3>2. \A j \in 1 .. Len(tr) : tr[j] # Semicolon
      BY <1>9, <2>1 DEF ToSet
    <3> QED BY <2>2, <3>1, <3>2, SemicolonIsNoNewline
  <2>4. /\ Len(w) = Len(s) + Len(a)
        /\ \A i \in 1 .. Len(s) : w[i] = s[i]
        /\ \A i \in 1 .. Len(a) : w[Len(s) + i] = a[i]
    BY <1>3, <1>5, Concatenated
  <2> HIDE DEF w
  <2>5. \A j \in 1 .. Len(s) : s[j] # Semicolon
    BY <1>3, <2>1 DEF ToSet
  <2>6. ASSUME NEW i \in 1 .. Len(w) PROVE w[i] # Semicolon
    <3>1. CASE i \in 1 .. Len(s)
      BY <2>4, <2>5, <3>1
    <3>2. CASE i \notin 1 .. Len(s)
      <4> DEFINE j == i - Len(s)
      <4>1. j \in 1 .. Len(a) /\ Len(s) + j = i
        BY <2>1, <2>2, <2>4, <3>2
      <4> HIDE DEF j
      <4> QED BY <2>3, <2>4, <4>1
    <3> QED BY <3>1, <3>2
  <2> QED BY <2>1, <2>6 DEF ToSet
<1> HIDE DEF w
<1>10. <<>> \in Seq(Chars) /\ \A i \in 1 .. Len(<<>>) - 1 : <<>>[i] # "LF"
  OBVIOUS
<1>11. at = IF Semicolon \in ToSet(tr) THEN "execute" ELSE "read"
  BY DEF tr
<1>12. /\ t \in Seq(Chars) /\ x \in Seq(Seq(TextChars)) /\ \A n \in DOMAIN x : Complete(x[n])
  BY DEF Inv
<1>13. Inv(x, w, <<>>, t, at)
  BY <1>6, <1>7, <1>8, <1>9, <1>10, <1>11, <1>12 DEF Inv, T, y
<1> QED BY <1>13 DEF w, a, tr

LEMMA ExecuteStep ==
    ASSUME NEW x, NEW s, NEW l, NEW t, Inv(x, s, l, t, "execute")
    PROVE  Inv(Append(x, s), <<>>, l, t, "read")
<1> DEFINE T == TextChars
           y == FlattenSeq(x)
           U == Seq(T)
           z == Append(x, s)
<1>1. Texts(x, s, l, t)
  BY TextsTyped DEF Inv
<1>2. /\ y \in Seq(T) /\ s \in Seq(T) /\ x \in Seq(U)
      /\ Joined(y) \in Seq(T) /\ Joined(s) \in Seq(T)
      /\ InOrder(y, s, l, t) /\ Complete(s) /\ \A n \in DOMAIN x : Complete(x[n])
  BY <1>1, PartsTyped DEF Texts, Inv
<1>3. FlattenSeq(z) = y \o s
  <2> HIDE DEF T
  <2> QED BY <1>2, FlattenAppend
<1>4. Joined(y \o s) = Joined(y) \o Joined(s) /\ (Joined(y) \o Joined(s)) \in Seq(T)
  <2> HIDE DEF T, y
  <2> QED BY <1>2, JoinedConcat, Concatenated
<1>5. InOrder(y \o s, <<>>, l, t)
  <2> DEFINE v == Joined(y) \o Joined(s)
  <2> HIDE DEF T, y
  <2>1. v \in Seq(T) /\ v \o Joined(l) = Joined(t)
    BY <1>2, <1>4 DEF InOrder
  <2> HIDE DEF v
  <2>2. v \o <<>> = v
    BY <2>1, ConcatEmptySeq
  <2> QED BY <1>4, <2>1, <2>2, JoinedNone DEF InOrder, v
<1>6. /\ z \in Seq(U) /\ \A n \in DOMAIN z : Complete(z[n])
  <2> HIDE DEF U
  <2>1. s \in U /\ x \in Seq(U)
    BY <1>2 DEF U
  <2>2. /\ z \in Seq(U) /\ Len(z) = Len(x) + 1 /\ z[Len(x) + 1] = s
        /\ \A i \in 1 .. Len(x) : z[i] = x[i]
    BY <2>1, AppendProperties
  <2>3. Len(x) \in Nat /\ DOMAIN x = 1 .. Len(x) /\ DOMAIN z = 1 .. Len(x) + 1
    <3> HIDE DEF z
    <3> QED BY <2>1, <2>2
  <2> HIDE DEF z
  <2>4. ASSUME NEW n \in 1 .. Len(x) + 1 PROVE Complete(z[n])
    <3>1. n \in 1 .. Len(x) \/ n = Len(x) + 1
      BY <2>3
    <3> QED BY <1>2, <2>2, <2>3, <3>1
  <2> QED BY <2>2, <2>3, <2>4
<1>7. <<>> \in Seq(T) /\ Semicolon \notin ToSet(<<>>)
  BY DEF ToSet
<1>8. InOrder(FlattenSeq(z), <<>>, l, t)
  BY <1>3, <1>5
<1>9. t \in Seq(Chars) /\ l \in Seq(Chars) /\ \A i \in 1 .. Len(l) - 1 : l[i] # "LF"
  BY DEF Inv
<1> HIDE DEF z
<1>10. Inv(z, <<>>, l, t, "read")
  BY <1>6, <1>7, <1>8, <1>9 DEF Inv, U, T
<1> QED BY <1>10 DEF z

LEMMA ReplInit == ASSUME Init PROVE ReplInv
<1>1. FlattenSeq(<<>>) = <<>> /\ Joined(<<>>) = <<>>
  BY FlattenNone, JoinedNone
<1>2. <<>> \o <<>> = <<>>
  OBVIOUS
<1>3. InOrder(FlattenSeq(<<>>), <<>>, <<>>, <<>>)
  BY <1>1, <1>2 DEF InOrder
<1>4. <<>> \in Seq(Seq(TextChars))
  <2> DEFINE U == Seq(TextChars)
  <2> HIDE DEF U
  <2>1. <<>> \in Seq(U)
    OBVIOUS
  <2> QED BY <2>1 DEF U
<1>5. Semicolon \notin ToSet(<<>>) /\ <<>> \in Seq(Chars) /\ <<>> \in Seq(TextChars)
  BY DEF ToSet
<1>6. Inv(<<>>, <<>>, <<>>, <<>>, "read")
  BY <1>3, <1>4, <1>5 DEF Inv
<1> QED BY <1>6, InvIs DEF Init

LEMMA ReplStep ==
    ASSUME ReplInv, [Next]_vars
    PROVE  ReplInv'
<1> USE DEF LineRead
<1>1. Inv(executed, statement, line, typed, pc)
  BY InvIs
<1>2. SUFFICES Inv(executed', statement', line', typed', pc')
  BY InvIsNext
<1>3. ASSUME NEW c \in Chars, Type(c) PROVE Inv(executed', statement', line', typed', pc')
  <2>1. /\ pc = "read" /\ pc' = "read" /\ executed' = executed /\ statement' = statement
        /\ line' = Append(line, c) /\ typed' = Append(typed, c)
        /\ line = <<>> \/ Last(line) # "LF"
    BY <1>3 DEF Type
  <2>2. Inv(executed, statement, Append(line, c), Append(typed, c), "read")
    BY <1>1, <2>1, TypeStep
  <2> QED BY <2>1, <2>2
<1>4. ASSUME Close \/ Rest \/ UNCHANGED vars
      PROVE  Inv(executed', statement', line', typed', pc')
  BY <1>1, <1>4 DEF Close, Rest, vars
<1>5. ASSUME SkipLine PROVE Inv(executed', statement', line', typed', pc')
  <2>1. /\ pc = "read" /\ pc' = "read" /\ executed' = executed /\ statement = <<>>
        /\ statement' = <<>> /\ line' = <<>> /\ typed' = typed /\ Trimmed = <<>>
    BY <1>5 DEF SkipLine
  <2>2. Joined(line) = <<>>
    BY <1>1, <2>1, TrimmedLine, JoinedNone DEF Inv
  <2>3. Inv(executed, <<>>, <<>>, typed, "read")
    BY <1>1, <2>1, <2>2, SkipStep
  <2> QED BY <2>1, <2>3
<1>6. ASSUME ExitLine \/ ExitStatement PROVE Inv(executed', statement', line', typed', pc')
  <2>1. /\ pc' = "exited" /\ executed' = executed /\ typed' = typed
        /\ statement' = <<>> /\ (line' = <<>> \/ line' = line)
    BY <1>6 DEF ExitLine, ExitStatement
  <2>2. /\ <<>> \in Seq(Chars) /\ <<>> \in Seq(TextChars)
        /\ \A i \in 1 .. Len(<<>>) - 1 : <<>>[i] # "LF"
    OBVIOUS
  <2> QED BY <1>1, <2>1, <2>2 DEF Inv
<1>7. ASSUME AppendLine PROVE Inv(executed', statement', line', typed', pc')
  <2>1. /\ pc = "read" /\ executed' = executed /\ typed' = typed /\ line' = <<>>
        /\ statement' = statement \o Append(Trimmed, "LF")
        /\ pc' = IF Semicolon \in ToSet(Trimmed) THEN "execute" ELSE "read"
    BY <1>7 DEF AppendLine
  <2>2. Inv(executed, statement \o Append(Trimmed, "LF"), <<>>, typed, pc')
    BY <1>1, <2>1, AppendStep
  <2> QED BY <2>1, <2>2
<1>8. ASSUME NEW ok \in BOOLEAN, Execute(ok) PROVE Inv(executed', statement', line', typed', pc')
  <2>1. /\ pc = "execute" /\ pc' = "read" /\ executed' = Append(executed, statement)
        /\ statement' = <<>> /\ line' = line /\ typed' = typed
    BY <1>8 DEF Execute, BufferAfter
  <2>2. Inv(Append(executed, statement), <<>>, line, typed, "read")
    BY <1>1, <2>1, ExecuteStep
  <2> QED BY <2>1, <2>2
<1>9. ASSUME End PROVE Inv(executed', statement', line', typed', pc')
  <2>1. /\ pc = "read" /\ pc' = "ended" /\ executed' = executed /\ statement' = statement
        /\ line' = line /\ typed' = typed
    BY <1>9 DEF End
  <2> QED BY <1>1, <2>1 DEF Inv
<1> QED BY <1>3, <1>4, <1>5, <1>6, <1>7, <1>8, <1>9 DEF Next

(* In every reachable state the shell's texts are right: a line ends at    *)
(* its first newline, what waits for the engine is complete, and           *)
(* ExecutedAsTyped holds (run_repl, main.c 147-184).                       *)
THEOREM ReplInvariance == Spec => []ReplInv
<1>1. Init => ReplInv
  BY ReplInit
<1>2. ReplInv /\ [Next]_vars => ReplInv'
  BY ReplStep
<1> QED BY <1>1, <1>2, PTL DEF Spec

(* Whatever is typed, with lines of any length and a line buffer of any    *)
(* size, every character is executed or waiting, once and in order, and a  *)
(* text goes to the engine with the first line that has a semicolon        *)
(* (fgets, trim_newline, append_text, main.c 147-184).           *)
THEOREM TextsAreExecutedAsTyped == Spec => []ExecutedAsTyped
<1>1. ReplInv => ExecutedAsTyped
  BY DEF ReplInv
<1> QED BY <1>1, ReplInvariance, PTL

-----------------------------------------------------------------------------
(* The tokenizer                                                           *)

(* Where a skipping loop stops.                                            *)
LEMMA SkipStops ==
    ASSUME NEW b, Len(b) \in Nat, NEW i \in 1 .. Len(b) + 1, NEW S
    PROVE  /\ Skip(b, i, S) \in i .. Len(b) + 1
           /\ \A k \in i .. Skip(b, i, S) - 1 : b[k] \in S
           /\ Skip(b, i, S) <= Len(b) => b[Skip(b, i, S)] \notin S
<1> DEFINE T == {j \in i .. Len(b) : b[j] \notin S}
           m == Skip(b, i, S)
<1>1. m = IF T = {} THEN Len(b) + 1 ELSE Min(T)
  BY DEF Skip, First
<1>2. T \in SUBSET Nat
  OBVIOUS
<1>3. T # {} => Min(T) \in T /\ \A y \in T : Min(T) <= y
  <2> HIDE DEF T
  <2> QED BY <1>2, MinIsLeast
<1> HIDE DEF m
<1>4. CASE T = {}
  BY <1>1, <1>4 DEF m
<1>5. CASE T # {}
  <2>1. m \in T /\ \A y \in T : m <= y
    BY <1>1, <1>3, <1>5
  <2> QED BY <2>1 DEF m
<1> QED BY <1>4, <1>5

(* Where a searching loop stops.                                           *)
LEMMA FindStops ==
    ASSUME NEW b, Len(b) \in Nat, NEW i \in 1 .. Len(b) + 1, NEW S
    PROVE  /\ Find(b, i, S) \in i .. Len(b) + 1
           /\ \A k \in i .. Find(b, i, S) - 1 : b[k] \notin S
           /\ Find(b, i, S) <= Len(b) => b[Find(b, i, S)] \in S
<1> DEFINE T == {j \in i .. Len(b) : b[j] \in S}
           m == Find(b, i, S)
<1>1. m = IF T = {} THEN Len(b) + 1 ELSE Min(T)
  BY DEF Find, First
<1>2. T \in SUBSET Nat
  OBVIOUS
<1>3. T # {} => Min(T) \in T /\ \A y \in T : Min(T) <= y
  <2> HIDE DEF T
  <2> QED BY <1>2, MinIsLeast
<1> HIDE DEF m
<1>4. CASE T = {}
  BY <1>1, <1>4 DEF m
<1>5. CASE T # {}
  <2>1. m \in T /\ \A y \in T : m <= y
    BY <1>1, <1>3, <1>5
  <2> QED BY <2>1 DEF m
<1> QED BY <1>4, <1>5

(* b from i to j is a lexeme, said of the characters of b.                 *)
LexemeFrom(b, i, j) ==
    \/ /\ b[i] \in Letters
       /\ \A k \in i .. j : b[k] \in Letters \cup Digits
    \/ \A k \in i .. j : b[k] \in Digits
    \/ j > i /\ b[i] = "-" /\ \A k \in i + 1 .. j : b[k] \in Digits
    \/ /\ j > i
       /\ b[i] = Quote /\ b[j] = Quote
       /\ \A k \in i + 1 .. j - 1 : b[k] # Quote
    \/ j = i + 1 /\ <<b[i], b[j]>> \in Pairs
    \/ j = i /\ b[i] \in Singles \cup {"<", ">"}

(* This is what IsLexeme says of that part of b.                           *)
LEMMA LexemeIs ==
    ASSUME NEW C, NEW b \in Seq(C), NEW i \in 1 .. Len(b), NEW j \in i .. Len(b)
    PROVE  IsLexeme(SubSeq(b, i, j)) <=> LexemeFrom(b, i, j)
<1> DEFINE s == SubSeq(b, i, j)
           n == j - i + 1
<1>1. n \in Nat /\ n >= 1 /\ i \in Nat /\ j \in Nat /\ Len(b) \in Nat
  OBVIOUS
<1>2. s \in Seq(C) /\ Len(s) = n /\ \A k \in 1 .. n : s[k] = b[i + k - 1]
  <2>1. i \in Int /\ j \in Int /\ \A k \in i .. j : b[k] \in C
    BY ElementOfSeq
  <2>2. i <= j
    OBVIOUS
  <2> QED BY <2>1, <2>2, SubSeqProperties
<1> HIDE DEF s, n
<1>3. DOMAIN s = 1 .. n /\ s # <<>>
  BY <1>1, <1>2
<1>4. \A k \in i .. j : k - i + 1 \in 1 .. n /\ s[k - i + 1] = b[k]
  <2> TAKE k \in i .. j
  <2>1. k - i + 1 \in 1 .. n /\ i + (k - i + 1) - 1 = k
    BY <1>1 DEF n
  <2> QED BY <1>2, <2>1
<1>5. \A k \in 1 .. n : i + k - 1 \in i .. j
  BY <1>1 DEF n
<1>6. ASSUME NEW S PROVE (ToSet(s) \subseteq S) <=> \A k \in i .. j : b[k] \in S
  BY <1>2, <1>3, <1>4, <1>5 DEF ToSet
<1>7. s[1] = b[i]
  BY <1>1, <1>2
<1>8. Last(s) = b[j]
  BY <1>1, <1>2 DEF Last, n
<1>9. ASSUME j > i, NEW S PROVE (ToSet(Tail(s)) \subseteq S) <=> \A k \in i + 1 .. j : b[k] \in S
  <2>1. Tail(s) \in Seq(C) /\ Len(Tail(s)) = n - 1 /\ \A k \in 1 .. n - 1 : Tail(s)[k] = s[k + 1]
    BY <1>2, <1>3, HeadTailProperties
  <2>2. DOMAIN Tail(s) = 1 .. n - 1
    BY <2>1
  <2>3. \A k \in i + 1 .. j : k - i \in 1 .. n - 1 /\ s[k - i + 1] = b[k]
    BY <1>1, <1>4 DEF n
  <2>4. \A k \in i + 1 .. j : k - i \in 1 .. n - 1 /\ Tail(s)[k - i] = b[k]
    BY <2>1, <2>3
  <2>5. \A k \in 1 .. n - 1 : i + k \in i + 1 .. j /\ Tail(s)[k] = b[i + k]
    <3> TAKE k \in 1 .. n - 1
    <3>1. i + k \in i + 1 .. j /\ (i + k) - i = k
      BY <1>1 DEF n
    <3> QED BY <2>4, <3>1
  <2>6. ToSet(Tail(s)) = {Tail(s)[k] : k \in 1 .. n - 1}
    BY ONLY <2>2 DEF ToSet
  <2> QED BY ONLY <2>4, <2>5, <2>6
<1>10. (Len(s) > 1) <=> (j > i)
  BY <1>1, <1>2 DEF n
<1>11. (\A k \in 2 .. Len(s) - 1 : s[k] # Quote) <=> \A k \in i + 1 .. j - 1 : b[k] # Quote
  <2>1. ASSUME \A k \in 2 .. Len(s) - 1 : s[k] # Quote, NEW k \in i + 1 .. j - 1 PROVE b[k] # Quote
    <3>1. k - i + 1 \in 2 .. Len(s) - 1 /\ k \in i .. j
      BY <1>1, <1>2 DEF n
    <3> QED BY <1>4, <2>1, <3>1
  <2>2. ASSUME \A k \in i + 1 .. j - 1 : b[k] # Quote, NEW k \in 2 .. Len(s) - 1 PROVE s[k] # Quote
    <3>1. k \in 1 .. n /\ i + k - 1 \in i + 1 .. j - 1
      BY <1>1, <1>2 DEF n
    <3> QED BY <1>2, <2>2, <3>1
  <2> QED BY <2>1, <2>2
<1>12. (s \in Pairs) <=> (j = i + 1 /\ <<b[i], b[j]>> \in Pairs)
  <2>1. \A t \in Pairs : Len(t) = 2
    BY DEF Pairs
  <2>2. j = i + 1 <=> Len(s) = 2
    BY <1>1, <1>2 DEF n
  <2>3. ASSUME j = i + 1 PROVE s = <<b[i], b[j]>>
    <3>1. Len(s) = 2 /\ s[1] = b[i] /\ s[2] = b[j]
      BY <1>1, <1>2, <2>3 DEF n
    <3>2. b[i] \in C /\ b[j] \in C
      BY <1>2, <3>1
    <3>3. \A k \in 1 .. Len(s) : s[k] = <<b[i], b[j]>>[k]
      BY <3>1
    <3>4. <<b[i], b[j]>> \in Seq(C) /\ Len(<<b[i], b[j]>>) = 2
      BY <3>2
    <3> DEFINE u == <<b[i], b[j]>>
    <3> HIDE DEF u
    <3>5. s = u
      BY <1>2, <3>1, <3>3, <3>4, SeqEqual DEF u
    <3> QED BY <3>5 DEF u
  <2> QED BY <2>1, <2>2, <2>3
<1>13. (Len(s) = 1) <=> (j = i)
  BY <1>1, <1>2 DEF n
<1> QED BY <1>6, <1>7, <1>8, <1>9, <1>10, <1>11, <1>12, <1>13 DEF IsLexeme, LexemeFrom, s

(* The token t is the longest lexeme at i, or an error where none begins.  *)
LongestAt(b, i, t) ==
    /\ t.from = i
    /\ t.to \in i .. Len(b)
    /\ t.type \in {"keyword", "identifier", "number", "string", "symbol", "error"}
    /\ IF t.type = "error" THEN t.to = i /\ \A j \in i .. Len(b) : ~LexemeFrom(b, i, j)
       ELSE LexemeFrom(b, i, t.to) /\ \A j \in t.to + 1 .. Len(b) : ~LexemeFrom(b, i, j)

(* tokenize_identifier, tokenize_number, tokenize_string and               *)
(* tokenize_symbol (tokenizer.c) find the longest lexeme, each at the      *)
(* characters that lead to it.                                             *)
LEMMA IdentifierIsLongest ==
    ASSUME NEW b, Len(b) \in Nat, NEW i \in 1 .. Len(b), b[i] \in Letters
    PROVE  LongestAt(b, i, TokenizeIdentifier(b, i))
<1> DEFINE W == Letters \cup Digits
           m == Skip(b, i, W)
           t == TokenizeIdentifier(b, i)
<1>1. m \in i .. Len(b) + 1 /\ (\A k \in i .. m - 1 : b[k] \in W) /\ (m <= Len(b) => b[m] \notin W)
  <2>1. i \in 1 .. Len(b) + 1
    OBVIOUS
  <2> HIDE DEF W
  <2> QED BY <2>1, SkipStops
<1>2. t.from = i /\ t.to = m - 1 /\ t.type \in {"keyword", "identifier"}
  BY DEF TokenizeIdentifier, Token, IdentifierType
<1> HIDE DEF m, t
<1>3. m # i
  BY <1>1
<1>4. t.to \in i .. Len(b)
  BY <1>1, <1>2, <1>3
<1>5. LexemeFrom(b, i, t.to)
  BY <1>1, <1>2 DEF LexemeFrom
<1>6. ASSUME NEW j \in t.to + 1 .. Len(b), LexemeFrom(b, i, j) PROVE FALSE
  <2>1. j \in m .. Len(b) /\ j > i /\ m \in i .. j /\ b[m] \notin W
    BY <1>1, <1>2, <1>3
  <2>2. b[i] \notin {"-", Quote} \cup Digits /\ \A x : <<b[i], x>> \notin Pairs
    BY DEF Letters, Exit, Keyword, Quote, Digits, Pairs
  <2>3. j # i
    BY <2>1
  <2>4. i \in i .. j
    BY <2>1
  <2> QED BY <1>6, <2>1, <2>2, <2>3, <2>4 DEF LexemeFrom
<1>7. LongestAt(b, i, t)
  BY <1>2, <1>4, <1>5, <1>6 DEF LongestAt
<1> QED BY <1>7 DEF t

LEMMA NumberIsLongest ==
    ASSUME NEW b, Len(b) \in Nat, NEW i \in 1 .. Len(b), StartsNumber(b, i)
    PROVE  LongestAt(b, i, TokenizeNumber(b, i))
<1> DEFINE p == IF b[i] = "-" THEN i + 1 ELSE i
           m == Skip(b, p, Digits)
           t == TokenizeNumber(b, i)
<1>1. p \in {i, i + 1} /\ p \in 1 .. Len(b) /\ b[p] \in Digits /\ (p = i + 1 <=> b[i] = "-")
  BY DEF StartsNumber, Digits
<1>2. t.from = i /\ t.to = m - 1 /\ t.type = "number"
  BY DEF TokenizeNumber, Token
<1> HIDE DEF p
<1>3. m \in p .. Len(b) + 1 /\ (\A k \in p .. m - 1 : b[k] \in Digits) /\ (m <= Len(b) => b[m] \notin Digits)
  <2>1. p \in 1 .. Len(b) + 1
    BY <1>1
  <2> QED BY <2>1, SkipStops
<1> HIDE DEF m, t
<1>4. m # p
  BY <1>1, <1>3
<1>5. t.to \in i .. Len(b) /\ t.to \in p .. Len(b)
  BY <1>1, <1>2, <1>3, <1>4
<1>6. LexemeFrom(b, i, t.to)
  BY <1>1, <1>2, <1>3, <1>5 DEF LexemeFrom
<1>7. ASSUME NEW j \in t.to + 1 .. Len(b), LexemeFrom(b, i, j) PROVE FALSE
  <2>1. j \in m .. Len(b) /\ j > i /\ m \in p .. j /\ b[m] \notin Digits
    BY <1>1, <1>2, <1>3, <1>4
  <2>2. m \in i .. j /\ (b[i] = "-" => m \in i + 1 .. j)
    BY <1>1, <2>1
  <2>3. b[i] \in Digits \cup {"-"}
    BY DEF StartsNumber
  <2>4. b[i] \notin Letters \cup {Quote} /\ \A x : <<b[i], x>> \notin Pairs
    BY <2>3 DEF Letters, Exit, Keyword, Quote, Digits, Pairs
  <2> QED BY <1>7, <2>1, <2>2, <2>4 DEF LexemeFrom
<1>8. LongestAt(b, i, t)
  BY <1>2, <1>5, <1>6, <1>7 DEF LongestAt
<1> QED BY <1>8 DEF t

LEMMA StringIsLongest ==
    ASSUME NEW b, Len(b) \in Nat, NEW i \in 1 .. Len(b), b[i] = Quote
    PROVE  LongestAt(b, i, TokenizeString(b, i))
<1> DEFINE Q == {Quote}
           m == Find(b, i + 1, Q)
           t == TokenizeString(b, i)
<1>1. m \in i + 1 .. Len(b) + 1 /\ (\A k \in i + 1 .. m - 1 : b[k] \notin Q) /\ (m <= Len(b) => b[m] \in Q)
  <2>1. i + 1 \in 1 .. Len(b) + 1
    OBVIOUS
  <2> HIDE DEF Q
  <2> QED BY <2>1, FindStops
<1>2. b[i] \notin Letters \cup Digits \cup {"-"} \cup Singles \cup {"<", ">"} /\ \A x : <<b[i], x>> \notin Pairs
  BY DEF Letters, Exit, Keyword, Quote, Digits, Singles, Semicolon, Pairs
<1>3. \A j \in i .. Len(b) : LexemeFrom(b, i, j) =>
        j > i /\ b[j] = Quote /\ \A k \in i + 1 .. j - 1 : b[k] # Quote
  <2> TAKE j \in i .. Len(b)
  <2>1. i \in i .. j
    OBVIOUS
  <2> QED BY <1>2, <2>1 DEF LexemeFrom
<1>4. CASE m > Len(b)
  <2>1. t.from = i /\ t.to = i /\ t.type = "error"
    BY <1>4 DEF TokenizeString, Token
  <2>2. ASSUME NEW j \in i .. Len(b), LexemeFrom(b, i, j) PROVE FALSE
    <3>1. j > i /\ b[j] = Quote
      BY <1>3, <2>2
    <3>2. j \in i + 1 .. m - 1
      BY <1>1, <1>4, <3>1
    <3> QED BY <1>1, <3>1, <3>2
  <2> HIDE DEF t
  <2>3. LongestAt(b, i, t)
    BY <2>1, <2>2 DEF LongestAt
  <2> QED BY <2>3 DEF t
<1>5. CASE ~(m > Len(b))
  <2>1. t.from = i /\ t.to = m /\ t.type = "string"
    BY <1>5 DEF TokenizeString, Token
  <2> HIDE DEF m, t
  <2>2. m \in i + 1 .. Len(b) /\ b[m] = Quote
    BY <1>1, <1>5
  <2>3. LexemeFrom(b, i, m)
    BY <1>1, <2>2 DEF LexemeFrom
  <2>4. ASSUME NEW j \in m + 1 .. Len(b), LexemeFrom(b, i, j) PROVE FALSE
    <3>1. j \in i .. Len(b) /\ m \in i + 1 .. j - 1
      BY <2>2
    <3> QED BY <1>3, <2>2, <2>4, <3>1
  <2>5. t.to \in i .. Len(b)
    BY <2>1, <2>2
  <2>6. LongestAt(b, i, t)
    BY <2>1, <2>3, <2>4, <2>5 DEF LongestAt
  <2> QED BY <2>6 DEF t
<1> QED BY <1>4, <1>5

LEMMA SymbolIsLongest ==
    ASSUME NEW C, NEW b \in Seq(C), NEW i \in 1 .. Len(b),
           b[i] \notin Letters, ~StartsNumber(b, i), b[i] # Quote
    PROVE  LongestAt(b, i, TokenizeSymbol(b, i))
<1> DEFINE q == Min({i + 1, Len(b)})
           t == TokenizeSymbol(b, i)
<1>1. Len(b) \in Nat /\ i \in Nat
  OBVIOUS
<1>2. q = IF i < Len(b) THEN i + 1 ELSE i
  <2> DEFINE U == {i + 1, Len(b)}
             v == IF i < Len(b) THEN i + 1 ELSE i
  <2>1. U \in SUBSET Nat /\ v \in U /\ \A y \in U : v <= y
    BY <1>1
  <2> HIDE DEF U, v
  <2>2. Min(U) = v
    BY <2>1, MinUnique
  <2> QED BY <2>2 DEF U, v
<1>3. q \in i .. Len(b)
  BY <1>1, <1>2
<1> DEFINE P == i < Len(b) /\ <<b[i], b[i + 1]>> \in Pairs
<1>4. SubSeq(b, i, q) \in Pairs <=> P
  <2> HIDE DEF q
  <2> DEFINE s == SubSeq(b, i, q)
  <2>1. i \in Int /\ q \in Int /\ \A k \in i .. q : b[k] \in C
    BY <1>1, <1>3, ElementOfSeq
  <2>2. s \in Seq(C) /\ Len(s) = q - i + 1 /\ \A k \in 1 .. q - i + 1 : s[k] = b[i + k - 1]
    BY <1>1, <1>3, <2>1, SubSeqProperties
  <2> HIDE DEF s
  <2>3. \A u \in Pairs : Len(u) = 2
    BY DEF Pairs
  <2>4. ASSUME i < Len(b) PROVE s \in Pairs <=> P
    <3>1. q = i + 1 /\ Len(s) = 2 /\ s[1] = b[i] /\ s[2] = b[i + 1]
      <4>1. q = i + 1
        BY <1>2, <2>4
      <4>2. q - i + 1 = 2 /\ i + 1 - 1 = i /\ i + 2 - 1 = i + 1
        BY <1>1, <4>1
      <4> QED BY <2>2, <4>1, <4>2
    <3> DEFINE u == <<b[i], b[i + 1]>>
    <3>2. u \in Seq(C) /\ Len(u) = 2 /\ \A k \in 1 .. 2 : u[k] = s[k]
      <4>1. b[i] \in C /\ b[i + 1] \in C
        BY <1>1, <2>4
      <4> QED BY <3>1, <4>1
    <3> HIDE DEF u
    <3>3. s = u
      BY <2>2, <3>1, <3>2, SeqEqual
    <3> QED BY <2>4, <3>3 DEF u
  <2>5. ASSUME ~(i < Len(b)) PROVE s \in Pairs <=> P
    <3>1. q = i /\ Len(s) = 1
      <4>1. q = i
        BY <1>2, <2>5
      <4> QED BY <1>1, <2>2, <4>1
    <3>2. s \notin Pairs
      BY <2>3, <3>1
    <3> QED BY <2>5, <3>2
  <2>6. s \in Pairs <=> P
    BY <2>4, <2>5
  <2> QED BY <2>6 DEF s, q
<1>5. /\ P => t = Token("symbol", i, i + 1)
      /\ ~P /\ b[i] \in Singles \cup {"<", ">"} => t = Token("symbol", i, i)
      /\ ~P /\ b[i] \notin Singles \cup {"<", ">"} => t = Token("error", i, i)
  <2> HIDE DEF P, q
  <2> QED BY <1>4 DEF TokenizeSymbol, q
<1> HIDE DEF q, t
<1>6. \A j \in i .. Len(b) : LexemeFrom(b, i, j) <=>
        (j = i + 1 /\ <<b[i], b[j]>> \in Pairs) \/ (j = i /\ b[i] \in Singles \cup {"<", ">"})
  <2> TAKE j \in i .. Len(b)
  <2>1. i \in i .. j /\ b[i] \notin Digits
    BY <1>1 DEF StartsNumber
  <2>2. ASSUME j > i, b[i] = "-", \A k \in i + 1 .. j : b[k] \in Digits PROVE FALSE
    <3>1. i + 1 \in i + 1 .. j /\ i < Len(b)
      BY <1>1, <2>2
    <3> QED BY <2>2, <3>1 DEF StartsNumber
  <2> QED BY <2>1, <2>2 DEF LexemeFrom
<1>7. CASE P
  <2>1. t.from = i /\ t.to = i + 1 /\ t.type = "symbol" /\ i + 1 \in i .. Len(b)
    BY <1>1, <1>5, <1>7 DEF Token
  <2>2. \A j \in i + 1 + 1 .. Len(b) : j \in i .. Len(b) /\ j # i /\ j # i + 1
    BY <1>1
  <2>3. LexemeFrom(b, i, i + 1)
    BY <1>6, <1>7, <2>1
  <2>4. \A j \in i + 1 + 1 .. Len(b) : ~LexemeFrom(b, i, j)
    BY <1>6, <2>2
  <2>5. LongestAt(b, i, t)
    BY <2>1, <2>3, <2>4 DEF LongestAt
  <2> QED BY <2>5 DEF t
<1>8. CASE ~P
  <2>1. t.from = i /\ t.to = i /\ i \in i .. Len(b)
    BY <1>1, <1>5, <1>8 DEF Token
  <2>2. \A j \in i .. Len(b) : LexemeFrom(b, i, j) => j = i /\ b[i] \in Singles \cup {"<", ">"}
    <3> TAKE j \in i .. Len(b)
    <3>1. j = i + 1 => i < Len(b)
      BY <1>1
    <3> QED BY <1>6, <1>8, <3>1
  <2>3. \A j \in i + 1 .. Len(b) : j \in i .. Len(b) /\ j # i
    BY <1>1
  <2>4. CASE b[i] \in Singles \cup {"<", ">"}
    <3>1. t.type = "symbol"
      BY <1>5, <1>8, <2>4 DEF Token
    <3>2. LexemeFrom(b, i, i)
      BY <1>6, <2>1, <2>4
    <3>3. LongestAt(b, i, t)
      BY <2>1, <2>2, <2>3, <3>1, <3>2 DEF LongestAt
    <3> QED BY <3>3 DEF t
  <2>5. CASE b[i] \notin Singles \cup {"<", ">"}
    <3>1. t.type = "error"
      BY <1>5, <1>8, <2>5 DEF Token
    <3>2. LongestAt(b, i, t)
      BY <2>1, <2>2, <2>5, <3>1 DEF LongestAt
    <3> QED BY <3>2 DEF t
  <2> QED BY <2>4, <2>5
<1> QED BY <1>7, <1>8

(* Whatever the character, the loop finds the longest lexeme.              *)
LEMMA TokenIsLongest ==
    ASSUME NEW C, NEW b \in Seq(C), NEW i \in 1 .. Len(b)
    PROVE  LongestAt(b, i, TokenAt(b, i))
<1>1. Len(b) \in Nat
  OBVIOUS
<1>2. CASE b[i] \in Letters
  <2>1. TokenAt(b, i) = TokenizeIdentifier(b, i)
    <3>1. b[i] \notin Digits \cup {"-", Quote}
      BY <1>2 DEF Letters, Exit, Keyword, Quote, Digits
    <3> QED BY <1>2, <3>1 DEF TokenAt, StartsNumber
  <2>2. LongestAt(b, i, TokenizeIdentifier(b, i))
    BY <1>1, <1>2, IdentifierIsLongest
  <2> QED BY <2>1, <2>2
<1>3. CASE StartsNumber(b, i)
  <2>1. TokenAt(b, i) = TokenizeNumber(b, i)
    <3>1. b[i] \in Digits \cup {"-"}
      BY <1>3 DEF StartsNumber
    <3>2. b[i] \notin Letters \cup {Quote}
      BY <3>1 DEF Letters, Exit, Keyword, Quote, Digits
    <3> QED BY <1>3, <3>2 DEF TokenAt
  <2>2. LongestAt(b, i, TokenizeNumber(b, i))
    BY <1>1, <1>3, NumberIsLongest
  <2> QED BY <2>1, <2>2
<1>4. CASE b[i] = Quote
  <2>1. TokenAt(b, i) = TokenizeString(b, i)
    <3>1. b[i] \notin Letters \cup Digits \cup {"-"}
      BY <1>4 DEF Letters, Exit, Keyword, Quote, Digits
    <3> QED BY <1>4, <3>1 DEF TokenAt, StartsNumber
  <2>2. LongestAt(b, i, TokenizeString(b, i))
    BY <1>1, <1>4, StringIsLongest
  <2> QED BY <2>1, <2>2
<1>5. CASE b[i] \notin Letters /\ ~StartsNumber(b, i) /\ b[i] # Quote
  <2>1. TokenAt(b, i) = TokenizeSymbol(b, i)
    BY <1>5 DEF TokenAt
  <2>2. LongestAt(b, i, TokenizeSymbol(b, i))
    BY <1>5, SymbolIsLongest
  <2> QED BY <2>1, <2>2
<1> QED BY <1>2, <1>3, <1>4, <1>5

(* The types of tokens.                                                    *)
TokenTypes == {"keyword", "identifier", "number", "string", "symbol", "error", "eof"}
Tokens == [type : TokenTypes, from : Nat, to : Nat]

(* A token is a record of these.                                           *)
LEMMA TokenIsRecord ==
    ASSUME NEW C, NEW b \in Seq(C), NEW i \in 1 .. Len(b)
    PROVE  TokenAt(b, i) \in Tokens
<1> DEFINE t == TokenAt(b, i)
<1>1. t = Token(t.type, t.from, t.to)
  BY DEF Token, TokenAt, TokenizeIdentifier, TokenizeNumber, TokenizeString, TokenizeSymbol
<1>2. LongestAt(b, i, t)
  BY TokenIsLongest
<1> HIDE DEF t
<1>3. t.from \in Nat /\ t.to \in Nat /\ t.type \in TokenTypes
  BY <1>2 DEF LongestAt, TokenTypes
<1>4. t \in Tokens
  BY <1>1, <1>3 DEF Token, Tokens
<1> QED BY <1>4 DEF t

(* The longest lexeme, in the words of RightTokens.                        *)
LEMMA LexemesAre ==
    ASSUME NEW C, NEW b \in Seq(C), NEW i \in 1 .. Len(b), NEW t, LongestAt(b, i, t)
    PROVE  IF t.type = "error" THEN LexemesAt(b, i) = {}
           ELSE LexemesAt(b, i) # {} /\ t.to = Max(LexemesAt(b, i))
<1> DEFINE T == LexemesAt(b, i)
<1>1. T = {j \in i .. Len(b) : LexemeFrom(b, i, j)}
  BY LexemeIs DEF LexemesAt
<1> HIDE DEF T
<1>2. CASE t.type = "error"
  BY <1>1, <1>2 DEF LongestAt, T
<1>3. CASE t.type # "error"
  <2>1. t.to \in i .. Len(b) /\ LexemeFrom(b, i, t.to) /\ \A j \in t.to + 1 .. Len(b) : ~LexemeFrom(b, i, j)
    BY <1>3 DEF LongestAt
  <2>2. t.to \in T
    BY <1>1, <2>1
  <2>3. T \in SUBSET (0 .. Len(b)) /\ Len(b) \in Nat
    BY <1>1
  <2>4. Max(T) \in T /\ \A y \in T : y <= Max(T)
    BY <2>2, <2>3, MaxIsGreatest
  <2>5. Max(T) \in i .. Len(b) /\ LexemeFrom(b, i, Max(T))
    BY <1>1, <2>4
  <2>6. Max(T) \notin t.to + 1 .. Len(b)
    BY <2>1, <2>5
  <2>7. t.to <= Max(T)
    BY <2>2, <2>4
  <2> DEFINE x == Max(T)
  <2> HIDE DEF x
  <2>8. t.to = x
    BY <2>1, <2>5, <2>6, <2>7 DEF x
  <2> QED BY <1>3, <2>2, <2>8 DEF T, x
<1> QED BY <1>2, <1>3

(* RightTokens, for one token with rest tokens behind it and for the       *)
(* tokens from place i on.                                                 *)
RightToken(b, t, before, rest) ==
    /\ \A k \in before + 1 .. t.from - 1 : b[k] \in Spaces
    /\ t.from > before
    /\ IF t.type = "eof" THEN rest = 0 /\ t.from = Len(b) + 1
       ELSE IF t.type = "error" THEN rest = 0 /\ b[t.from] \notin Spaces /\ LexemesAt(b, t.from) = {}
       ELSE rest # 0 /\ LexemesAt(b, t.from) # {} /\ t.to = Max(LexemesAt(b, t.from))

RightFrom(b, i, ts) ==
    /\ ts \in Seq(Tokens) /\ ts # <<>>
    /\ \A n \in 1 .. Len(ts) :
          RightToken(b, ts[n], IF n = 1 THEN i - 1 ELSE ts[n - 1].to, Len(ts) - n)

(* Token by token.                                                         *)
LEMMA RightFromEach ==
    ASSUME NEW b, NEW i, NEW ts, RightFrom(b, i, ts), NEW x, x = i - 1
    PROVE  \A n \in 1 .. Len(ts) : /\ n = 1 => RightToken(b, ts[n], x, Len(ts) - n)
                                   /\ n # 1 => RightToken(b, ts[n], ts[n - 1].to, Len(ts) - n)
BY DEF RightFrom

(* From the first place on, it is RightTokens.                             *)
LEMMA RightFromIs ==
    ASSUME NEW C, NEW b \in Seq(C), NEW ts, RightFrom(b, 1, ts)
    PROVE  RightTokens(b, ts)
<1> DEFINE m == Len(ts)
           Last1(n) == IF n = 1 THEN 0 ELSE ts[n - 1].to
<1>1. ts \in Seq(Tokens) /\ DOMAIN ts = 1 .. m /\ m \in Nat
  BY DEF RightFrom
<1>2. \A n \in 1 .. m : RightToken(b, ts[n], Last1(n), m - n)
  <2>1. 1 - 1 = 0
    OBVIOUS
  <2> QED BY <2>1 DEF RightFrom
<1> HIDE DEF m
<1>3. \A n \in 1 .. m : /\ (n < m) <=> (m - n # 0)
                        /\ (n = m) <=> (m - n = 0)
  BY ONLY <1>1
<1>4. ASSUME NEW n \in DOMAIN ts
      PROVE  LET t == ts[n]
                 before == IF n = 1 THEN 0 ELSE ts[n - 1].to
             IN  /\ \A k \in before + 1 .. t.from - 1 : b[k] \in Spaces
                 /\ t.from > before
                 /\ IF t.type = "eof" THEN n = m /\ t.from = Len(b) + 1
                    ELSE IF t.type = "error" THEN /\ n = m
                                                  /\ b[t.from] \notin Spaces
                                                  /\ LexemesAt(b, t.from) = {}
                    ELSE n < m /\ LexemesAt(b, t.from) # {}
                         /\ t.to = Max(LexemesAt(b, t.from))
  <2> DEFINE t == ts[n]
             before == Last1(n)
  <2>1. n \in 1 .. m
    BY <1>1
  <2>2. RightToken(b, t, before, m - n)
    BY <1>2, <2>1
  <2>3. ((n < m) <=> (m - n # 0)) /\ ((n = m) <=> (m - n = 0))
    BY <1>3, <2>1
  <2> QED BY <2>2, <2>3 DEF RightToken
<1> QED BY <1>4 DEF RightTokens, m

(* One turn of the loop of tokenize_sql and what follows it.               *)
FromStep(b, i, f) ==
    LET next == Skip(b, i, Spaces)
    IN  IF next > Len(b) THEN <<Token("eof", next, next)>>
        ELSE LET token == TokenAt(b, next)
             IN  <<token>> \o IF token.type = "error" THEN <<>> ELSE f[token.to + 1]

(* If what follows is right, so is what begins here.                       *)
LEMMA StepIsRight ==
    ASSUME NEW C, NEW b \in Seq(C), NEW i \in 1 .. Len(b) + 1, NEW f,
           \A j \in i + 1 .. Len(b) + 1 : RightFrom(b, j, f[j])
    PROVE  RightFrom(b, i, FromStep(b, i, f))
<1> DEFINE p == Skip(b, i, Spaces)
           ts == FromStep(b, i, f)
<1>1. Len(b) \in Nat /\ i \in Nat
  OBVIOUS
<1>2. p \in i .. Len(b) + 1 /\ (\A k \in i .. p - 1 : b[k] \in Spaces) /\ (p <= Len(b) => b[p] \notin Spaces)
  BY <1>1, SkipStops
<1>3. CASE p > Len(b)
  <2> DEFINE t == Token("eof", p, p)
  <2>1. ts = <<t>>
    BY <1>3 DEF FromStep
  <2>2. t \in Tokens /\ t.type = "eof" /\ t.from = p
    BY <1>1, <1>2 DEF Token, Tokens, TokenTypes
  <2> HIDE DEF p, t, ts
  <2>3. ts \in Seq(Tokens) /\ ts # <<>> /\ Len(ts) = 1 /\ ts[1] = t
    BY <2>1, <2>2
  <2>4. RightToken(b, t, i - 1, 0)
    BY <1>1, <1>2, <1>3, <2>2 DEF RightToken
  <2>5. ASSUME NEW n \in 1 .. Len(ts)
        PROVE  RightToken(b, ts[n], IF n = 1 THEN i - 1 ELSE ts[n - 1].to, Len(ts) - n)
    <3>1. n = 1 /\ Len(ts) - n = 0
      BY <2>3
    <3> QED BY <2>3, <2>4, <3>1
  <2>6. RightFrom(b, i, ts)
    BY <2>3, <2>5 DEF RightFrom
  <2> QED BY <2>6 DEF ts
<1>4. CASE ~(p > Len(b))
  <2> DEFINE t == TokenAt(b, p)
             r == IF t.type = "error" THEN <<>> ELSE f[t.to + 1]
  <2>1. ts = <<t>> \o r
    BY <1>4 DEF FromStep
  <2>2. p \in 1 .. Len(b)
    BY <1>1, <1>2, <1>4
  <2>3. t \in Tokens /\ LongestAt(b, p, t)
    BY <2>2, TokenIsRecord, TokenIsLongest
  <2> HIDE DEF p, t, ts
  <2>4. t.from = p /\ t.to \in p .. Len(b) /\ t.type # "eof"
    BY <2>3 DEF LongestAt
  <2>5. t.type # "error" => RightFrom(b, t.to + 1, r)
    <3>1. t.to + 1 \in i + 1 .. Len(b) + 1
      BY <1>1, <1>2, <2>4
    <3> QED BY <3>1
  <2>6. r \in Seq(Tokens) /\ (r = <<>> <=> t.type = "error")
    BY <2>5 DEF RightFrom
  <2> HIDE DEF r
  <2>7. /\ ts \in Seq(Tokens) /\ Len(ts) = 1 + Len(r) /\ ts[1] = t
        /\ \A n \in 1 .. Len(r) : ts[1 + n] = r[n]
        /\ Len(r) \in Nat
    <3> DEFINE u == <<t>>
    <3>1. u \in Seq(Tokens) /\ Len(u) = 1 /\ u[1] = t
      BY <2>3
    <3> HIDE DEF u
    <3>2. /\ u \o r \in Seq(Tokens) /\ Len(u \o r) = Len(u) + Len(r)
          /\ \A n \in 1 .. Len(u) : (u \o r)[n] = u[n]
          /\ \A n \in 1 .. Len(r) : (u \o r)[Len(u) + n] = r[n]
          /\ Len(r) \in Nat
      <4>1. r \in Seq(Tokens)
        BY <2>6
      <4>2. Len(r) \in Nat
        BY ONLY <4>1
      <4>3. /\ u \o r \in Seq(Tokens) /\ Len(u \o r) = Len(u) + Len(r)
            /\ \A n \in 1 .. Len(u) : (u \o r)[n] = u[n]
            /\ \A n \in 1 .. Len(r) : (u \o r)[Len(u) + n] = r[n]
        <5>1. u \in Seq(Tokens)
          BY <3>1
        <5> DEFINE S == Tokens
        <5> HIDE DEF S
        <5>2. u \in Seq(S) /\ r \in Seq(S)
          BY <4>1, <5>1 DEF S
        <5>3. /\ u \o r \in Seq(S) /\ Len(u \o r) = Len(u) + Len(r)
              /\ \A n \in 1 .. Len(u) : (u \o r)[n] = u[n]
              /\ \A n \in 1 .. Len(r) : (u \o r)[Len(u) + n] = r[n]
          BY ONLY <5>2, Concatenated
        <5> QED BY <5>3 DEF S
      <4> QED BY <4>2, <4>3
    <3>3. ts = u \o r
      BY <2>1 DEF u
    <3>4. 1 \in 1 .. Len(u)
      BY <3>1
    <3> QED BY <3>1, <3>2, <3>3, <3>4
  <2>8. ts # <<>>
    BY <2>7
  <2>9. (Len(r) = 0) <=> (r = <<>>)
    BY <2>6, EmptySeq
  <2>10. RightToken(b, t, i - 1, Len(ts) - 1)
    <3>1. (Len(ts) - 1 = 0) <=> (t.type = "error")
      BY <2>6, <2>7, <2>9
    <3>2. IF t.type = "error" THEN LexemesAt(b, p) = {}
          ELSE LexemesAt(b, p) # {} /\ t.to = Max(LexemesAt(b, p))
      BY <2>2, <2>3, LexemesAre
    <3>3. b[p] \notin Spaces /\ \A k \in i - 1 + 1 .. p - 1 : b[k] \in Spaces
      BY <1>1, <1>2, <1>4, <2>2
    <3>4. p > i - 1
      BY <1>1, <1>2, <2>2
    <3> QED BY <2>4, <3>1, <3>2, <3>3, <3>4 DEF RightToken
  <2>11. /\ r = <<>> \/ t.type # "error"
         /\ t.type # "error" =>
               \A y \in 1 .. Len(r) : /\ y = 1 => RightToken(b, r[y], t.to, Len(r) - y)
                                      /\ y # 1 => RightToken(b, r[y], r[y - 1].to, Len(r) - y)
    <3>1. r = <<>> \/ t.type # "error"
      BY <2>6
    <3>2. SUFFICES ASSUME t.type # "error"
                   PROVE  \A y \in 1 .. Len(r) :
                             /\ y = 1 => RightToken(b, r[y], t.to, Len(r) - y)
                             /\ y # 1 => RightToken(b, r[y], r[y - 1].to, Len(r) - y)
      BY <3>1
    <3> DEFINE x == t.to
               c == t.to + 1
    <3>3. RightFrom(b, c, r)
      BY <2>5, <3>2
    <3>4. x \in Int
      BY <2>4
    <3>5. x = c - 1
      BY ONLY <3>4
    <3> HIDE DEF x, c
    <3>6. \A y \in 1 .. Len(r) : /\ y = 1 => RightToken(b, r[y], x, Len(r) - y)
                                 /\ y # 1 => RightToken(b, r[y], r[y - 1].to, Len(r) - y)
      BY ONLY <3>3, <3>5, RightFromEach
    <3> QED BY <3>6 DEF x
  <2>12. ASSUME NEW n \in 1 .. Len(ts)
         PROVE  RightToken(b, ts[n], IF n = 1 THEN i - 1 ELSE ts[n - 1].to, Len(ts) - n)
    <3>1. CASE n = 1
      BY <2>7, <2>10, <3>1
    <3>2. CASE n # 1
      <4> DEFINE q == n - 1
      <4>1. q \in 1 .. Len(r) /\ 1 + q = n /\ Len(ts) - n = Len(r) - q /\ n - 1 = q
        BY <2>7, <3>2
      <4>2. q # 1 => q - 1 \in 1 .. Len(r) /\ 1 + (q - 1) = n - 1
        BY <2>7, <4>1
      <4>3. t.type # "error"
        BY <2>7, <2>9, <2>11, <4>1
      <4> HIDE DEF q
      <4>4. ts[n] = r[q] /\ (q = 1 => ts[n - 1] = t) /\ (q # 1 => ts[n - 1] = r[q - 1])
        BY <2>7, <4>1, <4>2
      <4>5. RightToken(b, r[q], ts[n - 1].to, Len(r) - q)
        <5>1. CASE q = 1
          BY <2>11, <4>1, <4>3, <4>4, <5>1
        <5>2. CASE q # 1
          BY <2>11, <4>1, <4>3, <4>4, <5>2
        <5> QED BY <5>1, <5>2
      <4> QED BY <3>2, <4>1, <4>4, <4>5
    <3> QED BY <3>1, <3>2
  <2>13. RightFrom(b, i, ts)
    BY <2>7, <2>8, <2>12 DEF RightFrom
  <2> QED BY <2>13 DEF ts
<1> QED BY <1>3, <1>4

(* The loop comes to an end: its recursion has a solution.                 *)
LEMMA FromExists ==
    ASSUME NEW C, NEW b \in Seq(C)
    PROVE  \E f : f = [i \in 1 .. Len(b) + 1 |-> FromStep(b, i, f)]
<1> DEFINE m == Len(b) + 1
           S == Seq(Tokens)
           F == [1 .. m -> S]
           step == [i \in 1 .. m |-> [g \in F |-> FromStep(b, i, g)]]
<1>1. m \in Nat /\ Len(b) \in Nat
  OBVIOUS
<1>2. ASSUME NEW i \in 1 .. m, Skip(b, i, Spaces) <= Len(b)
      PROVE  /\ Skip(b, i, Spaces) \in 1 .. Len(b)
             /\ TokenAt(b, Skip(b, i, Spaces)) \in Tokens
             /\ TokenAt(b, Skip(b, i, Spaces)).to + 1 \in i + 1 .. m
  <2> DEFINE p == Skip(b, i, Spaces)
             t == TokenAt(b, p)
  <2>1. p \in i .. Len(b) + 1
    BY <1>1, SkipStops
  <2> HIDE DEF p
  <2>2. p \in 1 .. Len(b)
    BY <1>1, <1>2, <2>1 DEF p
  <2>3. t \in Tokens /\ LongestAt(b, p, t)
    BY <2>2, TokenIsRecord, TokenIsLongest
  <2> HIDE DEF t
  <2>4. t.to \in p .. Len(b)
    BY <2>3 DEF LongestAt
  <2>5. t.to + 1 \in i + 1 .. m
    BY <1>1, <2>1, <2>2, <2>4
  <2> QED BY <2>2, <2>3, <2>5 DEF p, t
<1>3. ASSUME NEW i \in 1 .. m PROVE Skip(b, i, Spaces) \in Nat
  BY <1>1, SkipStops
<1>4. ASSUME NEW i \in 1 .. m, NEW g \in F PROVE FromStep(b, i, g) \in S
  <2> DEFINE p == Skip(b, i, Spaces)
             t == TokenAt(b, p)
             e == Token("eof", p, p)
             r == IF t.type = "error" THEN <<>> ELSE g[t.to + 1]
  <2>1. CASE p > Len(b)
    <3>1. FromStep(b, i, g) = <<e>>
      BY <2>1 DEF FromStep
    <3>2. e \in Tokens
      BY <1>3 DEF Token, Tokens, TokenTypes
    <3> HIDE DEF e
    <3> QED BY <3>1, <3>2
  <2>2. CASE ~(p > Len(b))
    <3>1. FromStep(b, i, g) = <<t>> \o r
      BY <2>2 DEF FromStep
    <3>2. p <= Len(b)
      BY <1>1, <1>3, <2>2
    <3>3. t \in Tokens /\ t.to + 1 \in i + 1 .. m
      BY <1>2, <3>2
    <3> HIDE DEF t
    <3>4. t.to + 1 \in 1 .. m
      BY <1>1, <3>3
    <3>5. r \in S
      BY <3>4
    <3> DEFINE u == <<t>>
    <3>6. u \in S
      BY <3>3
    <3> HIDE DEF r, u
    <3>7. u \o r \in S
      BY <3>5, <3>6
    <3> QED BY <3>1, <3>7 DEF u
  <2> QED BY <2>1, <2>2
<1>5. ASSUME NEW i \in 1 .. m, NEW g \in F, NEW h \in F, \A j \in i + 1 .. m : g[j] = h[j]
      PROVE  FromStep(b, i, g) = FromStep(b, i, h)
  <2> DEFINE p == Skip(b, i, Spaces)
             t == TokenAt(b, p)
  <2>1. CASE p > Len(b)
    BY <2>1 DEF FromStep
  <2>2. CASE ~(p > Len(b))
    <3>1. p <= Len(b)
      BY <1>1, <1>3, <2>2
    <3>2. t.to + 1 \in i + 1 .. m
      BY <1>2, <3>1
    <3>3. g[t.to + 1] = h[t.to + 1]
      BY <1>5, <3>2
    <3> QED BY <3>3 DEF FromStep
  <2> QED BY <2>1, <2>2
<1>6. step \in [1 .. m -> [[1 .. m -> S] -> S]]
  BY <1>4
<1>7. \A i \in 1 .. m : \A g \in F : step[i][g] = FromStep(b, i, g)
  OBVIOUS
<1>8. <<>> \in S
  OBVIOUS
<1> HIDE DEF S, step, m
<1>9. \A i \in 1 .. m : \A g, h \in [1 .. m -> S] :
        (\A j \in i + 1 .. m : g[j] = h[j]) => step[i][g] = step[i][h]
  <2> TAKE i \in 1 .. m
  <2> TAKE g, h \in F
  <2> HAVE \A j \in i + 1 .. m : g[j] = h[j]
  <2>1. FromStep(b, i, g) = FromStep(b, i, h)
    BY <1>5
  <2>2. step[i][g] = FromStep(b, i, g) /\ step[i][h] = FromStep(b, i, h)
    BY <1>7
  <2> QED BY <2>1, <2>2
<1>10. IsBackward(step, S, m)
  BY <1>6, <1>9 DEF IsBackward
<1>11. \E g : SolvesBackward(g, step, S, m)
  BY ONLY <1>1, <1>8, <1>10, BackwardRecursion
<1>12. PICK g \in F : \A i \in 1 .. m : g[i] = step[i][g]
  BY <1>11 DEF SolvesBackward
<1>13. \A i \in 1 .. m : g[i] = FromStep(b, i, g)
  BY <1>7, <1>12
<1>14. g = [i \in 1 .. m |-> FromStep(b, i, g)]
  BY <1>12, <1>13
<1> QED BY <1>14 DEF m

(* tokenize_sql cuts every text into its longest lexemes, up to the end or *)
(* to the first character that begins none (tokenizer.c 143-298).          *)
THEOREM TokenizerIsRight ==
    ASSUME NEW C, NEW b \in Seq(C)
    PROVE  RightTokens(b, TokenizeSql(b))
<1> DEFINE m == Len(b) + 1
           f == CHOOSE f : f = [i \in 1 .. m |-> FromStep(b, i, f)]
<1>1. TokenizeSql(b) = f[1]
  BY DEF TokenizeSql, FromStep
<1>2. f = [i \in 1 .. m |-> FromStep(b, i, f)]
  BY FromExists
<1> HIDE DEF f
<1>3. m \in Nat /\ 1 \in 1 .. m
  OBVIOUS
<1> DEFINE T == {i \in 1 .. m : RightFrom(b, i, f[i])}
<1>4. ASSUME NEW i \in 1 .. m, \A j \in i + 1 .. m : j \in T PROVE i \in T
  <2>1. \A j \in i + 1 .. m : RightFrom(b, j, f[j])
    BY <1>4
  <2>2. RightFrom(b, i, FromStep(b, i, f))
    BY <2>1, StepIsRight
  <2>3. f[i] = FromStep(b, i, f)
    BY <1>2
  <2> QED BY <2>2, <2>3
<1> HIDE DEF T, m
<1>5. \A i \in 1 .. m : i \in T
  BY <1>3, <1>4, DownwardIn
<1>6. RightFrom(b, 1, f[1])
  BY <1>3, <1>5 DEF T
<1> QED BY <1>1, <1>6, RightFromIs

(* Whatever is typed, the tokens of every text that is executed are its    *)
(* lexemes, each as long as it can be (tokenizer.c 143-298).               *)
THEOREM ExecutedTokensAreRight == Spec => []TokensAreRight
<1>1. ReplInv => TokensAreRight
  <2> SUFFICES ASSUME ReplInv, NEW n \in DOMAIN executed
               PROVE  RightTokens(executed[n], TokenizeSql(executed[n]))
    BY DEF TokensAreRight
  <2>1. executed \in Seq(Seq(TextChars))
    BY DEF ReplInv, TypeOK, TextChars
  <2>2. n \in 1 .. Len(executed)
    BY <2>1, SeqOfSeq
  <2>3. executed[n] \in Seq(TextChars)
    BY <2>1, <2>2, SeqOfSeq
  <2> QED BY <2>3, TokenizerIsRight
<1> QED BY <1>1, ReplInvariance, PTL

=============================================================================
