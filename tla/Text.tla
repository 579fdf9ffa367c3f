-------------------------------- MODULE Text --------------------------------
(* Positions in a text, a sequence of characters.                          *)
EXTENDS Integers, Sequences, FiniteSets, FiniteSetsExt, SequencesExt

(* The least member of S, or n if there is none.                           *)
First(S, n) == IF S = {} THEN n ELSE Min(S)

(* Where a loop that skips the characters of S from i on stops.            *)
Skip(text, i, S) == First({j \in i .. Len(text) : text[j] \notin S}, Len(text) + 1)

(* Where a loop that looks for a character of S from i on stops.           *)
Find(text, i, S) == First({j \in i .. Len(text) : text[j] \in S}, Len(text) + 1)

(* text without the characters of S at either end.                         *)
Trim(text, S) ==
    LET inner == {i \in DOMAIN text : text[i] \notin S}
    IN  IF inner = {} THEN <<>> ELSE SubSeq(text, Min(inner), Max(inner))

Holds(text, i, c) == i \in DOMAIN text /\ text[i] = c
=============================================================================
