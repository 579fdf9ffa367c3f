----------------------------- MODULE MachineInt -----------------------------
(***************************************************************************)
(* The C type int of the ids, in as many bits as the instance needs.       *)
(* key + 1 overflows at the largest value (bptree.c 572 and 615,           *)
(* database.c 1127); the compiled program wraps to the smallest one.       *)
(***************************************************************************)
EXTENDS Integers

CONSTANT MaxInt     \* INT_MAX

ASSUME MachineIntAssumption == MaxInt \in Nat \ {0}

MinInt == -MaxInt - 1
Ints == MinInt .. MaxInt

(* id + 1 as an int.                                                       *)
Increment(i) == IF i = MaxInt THEN MinInt ELSE i + 1

(* Mutant: > instead of >=.                                                *)
NextIdAfterStrict(nextId, id) == IF id > nextId THEN Increment(id) ELSE nextId
(* next_id after a row with this id: if (id >= next_id) next_id = id + 1.  *)
NextIdAfter(nextId, id) == IF id >= nextId THEN Increment(id) ELSE nextId

(* compare_ordered: the comparisons of a WHERE clause.                     *)
Ops == {"=", "!=", "<", "<=", ">", ">="}
Holds(op, a, b) ==
    CASE op = "=" -> a = b [] op = "!=" -> a # b [] op = "<" -> a < b
      [] op = "<=" -> a <= b [] op = ">" -> a > b [] op = ">=" -> a >= b
=============================================================================
