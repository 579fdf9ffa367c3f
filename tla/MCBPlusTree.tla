---------------------------- MODULE MCBPlusTree -----------------------------
(* BPlusTree with tiny nodes, so that a few ids make a tree of three levels. *)
EXTENDS BPlusTree

CONSTANT NumKeys

MCKeys == 1 .. NumKeys
MCValueOf == [k \in MCKeys |-> 10 * k]
=============================================================================
