----------------------------- MODULE BPlusTree ------------------------------
(***************************************************************************)
(* src/storage/bptree.c: the disk-backed B+ tree that maps ids to row      *)
(* offsets.  Every write_header and write_node is a step of its own,       *)
(* because a killed process leaves the index file between two of them.     *)
(*                                                                         *)
(* A write is fseek followed by fwrite into a 1 MB stdio buffer; fseek     *)
(* first hands the buffered bytes to the operating system.  So the file a  *)
(* reopening process finds ("stable") lacks at most the last write, and    *)
(* the file this process reads ("file") lacks nothing.  Reading a node     *)
(* seeks as well, which makes the last write stable.                       *)
(***************************************************************************)
EXTENDS MachineInt, Sequences, FiniteSets, SequencesExt

CONSTANTS Keys,       \* ids that are inserted
          ValueOf,    \* the row offset stored with each id
          MaxKeys,    \* BPTREE_MAX_KEYS, 63 in the program
          MaxPages    \* bound: pages of the index file

ASSUME TreeAssumption ==
    /\ Keys \subseteq Ints
    /\ MaxKeys \in Nat \ {0, 1}
    /\ MaxPages \in Nat \ {0}

VARIABLES file,     \* the index file as this process reads it
          stable,   \* the index file as the next process would find it
          tree,     \* the BPlusTree struct: header fields in memory
          pc,       \* where the running bptree_insert is
          key,      \* its argument
          path,     \* pages from the root to the current node
          carry,    \* InsertResult of the level below: <<>> or <<promoted, right>>
          todo,     \* writes of the current step that are still to be done
          want      \* history: ids whose insert has been called

vars == <<file, stable, tree, pc, key, path, carry, todo, want>>

Pages == 1 .. MaxPages

ZeroNode == [leaf |-> FALSE, keys |-> <<>>, vals |-> <<>>, kids |-> <<0>>, next |-> 0]
(* Mutant: a new leaf forgets its successor.                               *)
LeafUnlinked(keys, vals, next) ==
    [leaf |-> TRUE, keys |-> keys, vals |-> vals, kids |-> <<>>, next |-> 0]

Leaf(keys, vals, next) ==
    [leaf |-> TRUE, keys |-> keys, vals |-> vals, kids |-> <<>>, next |-> next]
Internal(keys, kids) ==
    [leaf |-> FALSE, keys |-> keys, vals |-> <<>>, kids |-> kids, next |-> 0]

EmptyHeader == [root |-> 0, first |-> 0, pages |-> 0, size |-> 0, nextId |-> 1]

(* bptree_open of a new file.                                              *)
Init ==
    /\ file = [header |-> EmptyHeader, node |-> [p \in Pages |-> ZeroNode]]
    /\ stable = file
    /\ tree = EmptyHeader
    /\ pc = "idle"
    /\ key = 1
    /\ path = <<>>
    /\ carry = <<>>
    /\ todo = <<>>
    /\ want = {}

-----------------------------------------------------------------------------
(* Searching inside a node: positions start at 1.                          *)

(* find_insert_index, lower_bound_in_leaf: the first key not below k.      *)
LowerBound(keys, k) == 1 + Cardinality({i \in DOMAIN keys : keys[i] < k})
(* Mutant: < instead of <=.                                                *)
UpperBoundStrict(keys, k) == 1 + Cardinality({i \in DOMAIN keys : keys[i] < k})
(* find_child_index, upper_bound_in_leaf: the first key above k.           *)
UpperBound(keys, k) == 1 + Cardinality({i \in DOMAIN keys : keys[i] <= k})

Child(n, k) == n.kids[UpperBound(n.keys, k)]

(* find_leaf_page, as a walk of at most MaxPages steps from the root.      *)
Walk(f, root, k) ==
    LET at[d \in 0 .. MaxPages] ==
          IF d = 0 THEN root
          ELSE LET p == at[d - 1]
               IN  IF p = 0 \/ f.node[p].leaf THEN p ELSE Child(f.node[p], k)
    IN  at

FindLeaf(f, root, k) == Walk(f, root, k)[MaxPages]

(* The pages of the leaf chain from page p on.                             *)
ChainFrom(f, p) ==
    LET chain[d \in 0 .. MaxPages] ==
          IF d = 0 THEN <<p>>
          ELSE LET q == f.node[Last(chain[d - 1])].next
               IN  IF q = 0 THEN chain[d - 1] ELSE Append(chain[d - 1], q)
    IN  chain[MaxPages]

Entries(n) == [i \in DOMAIN n.keys |-> <<n.keys[i], n.vals[i]>>]

(* What visit_from_leaf passes to its callback: this leaf from a position  *)
(* on, then every later leaf of the chain.                                 *)
VisitFromLeaf(f, p, start) ==
    LET chain == ChainFrom(f, p)
    IN  FlattenSeq([i \in DOMAIN chain |->
            LET e == Entries(f.node[chain[i]])
            IN  IF i = 1 THEN SubSeq(e, start, Len(e)) ELSE e])

(* bptree_search: the value stored with k, if it is there.                 *)
Search(k) ==
    IF tree.root = 0 THEN {}
    ELSE LET n == file.node[FindLeaf(file, tree.root, k)]
         IN  {n.vals[i] : i \in {j \in DOMAIN n.keys : n.keys[j] = k}}

(* bptree_visit: the entries given to the callback, in that order.         *)
Visit(op, k) ==
    LET leafPage == FindLeaf(file, tree.root, k)
        leafKeys == file.node[leafPage].keys
        all == VisitFromLeaf(file, tree.first, 1)
        Until(Stop(_)) ==
            LET stops == {i \in DOMAIN all : Stop(all[i][1])}
            IN  IF stops = {} THEN all
                ELSE SubSeq(all, 1, (CHOOSE i \in stops : \A j \in stops : i <= j) - 1)
    IN  CASE tree.root = 0 -> <<>>
          [] tree.root # 0 /\ op = "="  -> SetToSeq({<<k, v>> : v \in Search(k)})
          [] tree.root # 0 /\ op = ">"  -> VisitFromLeaf(file, leafPage, UpperBound(leafKeys, k))
          [] tree.root # 0 /\ op = ">=" -> VisitFromLeaf(file, leafPage, LowerBound(leafKeys, k))
          [] tree.root # 0 /\ op = "<"  -> Until(LAMBDA x : x >= k)
          [] tree.root # 0 /\ op = "<=" -> Until(LAMBDA x : x > k)
          [] tree.root # 0 /\ op = "!=" -> FlattenSeq([i \in DOMAIN all |->
                                               IF all[i][1] = k THEN <<>> ELSE <<all[i]>>])

-----------------------------------------------------------------------------
(* Writing                                                                 *)

HeaderWrite(h) == [kind |-> "header", page |-> 0, header |-> h, node |-> ZeroNode]
NodeWrite(p, n) == [kind |-> "node", page |-> p, header |-> EmptyHeader, node |-> n]

(* allocate_page: count the page, write the header, write a zero node.     *)
CanAllocate == tree.pages < MaxPages
Allocated(h) == [h EXCEPT !.pages = @ + 1]
AllocateWrites(h) == <<HeaderWrite(h), NodeWrite(h.pages, ZeroNode)>>

(* One write_header or write_node: the seek makes the previous one stable. *)
Write ==
    /\ todo # <<>>
    /\ LET w == Head(todo)
       IN  file' = IF w.kind = "header" THEN [file EXCEPT !.header = w.header]
                   ELSE [file EXCEPT !.node[w.page] = w.node]
    /\ stable' = file
    /\ todo' = Tail(todo)
    /\ UNCHANGED <<tree, pc, key, path, carry, want>>

(* A node is read only when no write is left to do.                        *)
Reading(where) ==
    /\ pc = where
    /\ todo = <<>>

Here == Last(path)
Node == file.node[Here]

(* How many keys stay in the left half of an overfull node.                *)
(* Mutant: rounded up.                                                     *)
SplitHigh(keys) == (Len(keys) + 1) \div 2
SplitPoint(keys) == Len(keys) \div 2

-----------------------------------------------------------------------------
(* bptree_insert                                                           *)

(* Mutant: the header that counts the key is written before its leaf.      *)
InsertFirstHeaderFirst(k) ==
    /\ Reading("idle")
    /\ tree.root = 0 /\ CanAllocate
    /\ LET grown == Allocated(tree)
           new == [grown EXCEPT !.root = grown.pages, !.first = grown.pages, !.size = 1,
                                !.nextId = NextIdAfter(@, k)]
       IN  /\ tree' = new
           /\ todo' = AllocateWrites(new) \o <<NodeWrite(new.root, Leaf(<<k>>, <<ValueOf[k]>>, 0))>>
    /\ want' = want \cup {k}
    /\ UNCHANGED <<file, stable, pc, key, path, carry>>

(* The first key: one leaf that is the root.                               *)
InsertFirst(k) ==
    /\ Reading("idle")
    /\ tree.root = 0 /\ CanAllocate
    /\ LET grown == Allocated(tree)
           new == [grown EXCEPT !.root = grown.pages, !.first = grown.pages, !.size = 1,
                                !.nextId = NextIdAfter(@, k)]
       IN  /\ tree' = new
           /\ todo' = AllocateWrites(grown)
                      \o <<NodeWrite(new.root, Leaf(<<k>>, <<ValueOf[k]>>, 0)), HeaderWrite(new)>>
    /\ want' = want \cup {k}
    /\ UNCHANGED <<file, stable, pc, key, path, carry>>

(* insert_recursive starts at the root.                                    *)
InsertBegin(k) ==
    /\ Reading("idle")
    /\ tree.root # 0
    /\ pc' = "descend"
    /\ key' = k
    /\ path' = <<tree.root>>
    /\ carry' = <<>>
    /\ want' = want \cup {k}
    /\ UNCHANGED <<file, stable, tree, todo>>

Descend ==
    /\ Reading("descend")
    /\ ~Node.leaf
    /\ path' = Append(path, Child(Node, key))
    /\ stable' = file
    /\ UNCHANGED <<file, tree, pc, key, carry, todo, want>>

(* The key is already there: nothing changes and the insert fails.         *)
DuplicateKey ==
    /\ Reading("descend")
    /\ Node.leaf
    /\ key \in ToSet(Node.keys)
    /\ pc' = "idle"
    /\ path' = <<>>
    /\ stable' = file
    /\ UNCHANGED <<file, tree, key, carry, todo, want>>

LeafKeys == InsertAt(Node.keys, LowerBound(Node.keys, key), key)
LeafVals == InsertAt(Node.vals, LowerBound(Node.keys, key), ValueOf[key])

(* The leaf has room.                                                      *)
LeafInsert ==
    /\ Reading("descend")
    /\ Node.leaf
    /\ key \notin ToSet(Node.keys)
    /\ Len(LeafKeys) <= MaxKeys
    /\ todo' = <<NodeWrite(Here, Leaf(LeafKeys, LeafVals, Node.next))>>
    /\ pc' = "ascend"
    /\ path' = Front(path)
    /\ stable' = file
    /\ UNCHANGED <<file, tree, key, carry, want>>

(* It has not: the upper half moves to a new leaf, linked behind this one, *)
(* and the new leaf's first key goes up.                                   *)
LeafSplit ==
    /\ Reading("descend")
    /\ Node.leaf
    /\ key \notin ToSet(Node.keys)
    /\ Len(LeafKeys) > MaxKeys /\ CanAllocate
    /\ LET grown == Allocated(tree)
           right == grown.pages
           half == SplitPoint(LeafKeys)
           Upper(s) == SubSeq(s, half + 1, Len(s))
       IN  /\ tree' = grown
           /\ todo' = AllocateWrites(grown)
                      \o <<NodeWrite(Here, Leaf(SubSeq(LeafKeys, 1, half),
                                                SubSeq(LeafVals, 1, half), right)),
                           NodeWrite(right, Leaf(Upper(LeafKeys), Upper(LeafVals), Node.next))>>
           /\ carry' = <<LeafKeys[half + 1], right>>
    /\ pc' = "ascend"
    /\ path' = Front(path)
    /\ stable' = file
    /\ UNCHANGED <<file, key, want>>

UpKeys == InsertAt(Node.keys, UpperBound(Node.keys, key), carry[1])
UpKids == InsertAt(Node.kids, UpperBound(Node.keys, key) + 1, carry[2])

(* The parent takes the promoted key and the new page.                     *)
InternalInsert ==
    /\ Reading("ascend")
    /\ path # <<>> /\ carry # <<>>
    /\ Len(UpKeys) <= MaxKeys
    /\ todo' = <<NodeWrite(Here, Internal(UpKeys, UpKids))>>
    /\ carry' = <<>>
    /\ path' = Front(path)
    /\ UNCHANGED <<file, stable, tree, pc, key, want>>

(* A full parent splits around its middle key, which goes up and stays in  *)
(* neither half.                                                           *)
InternalSplit ==
    /\ Reading("ascend")
    /\ path # <<>> /\ carry # <<>>
    /\ Len(UpKeys) > MaxKeys /\ CanAllocate
    /\ LET grown == Allocated(tree)
           right == grown.pages
           half == SplitPoint(UpKeys)
       IN  /\ tree' = grown
           /\ todo' = AllocateWrites(grown)
                      \o <<NodeWrite(Here, Internal(SubSeq(UpKeys, 1, half),
                                                    SubSeq(UpKids, 1, half + 1))),
                           NodeWrite(right, Internal(SubSeq(UpKeys, half + 2, Len(UpKeys)),
                                                     SubSeq(UpKids, half + 2, Len(UpKids))))>>
           /\ carry' = <<UpKeys[half + 1], right>>
    /\ path' = Front(path)
    /\ UNCHANGED <<file, stable, pc, key, want>>

(* The root split: a new root above both halves.                           *)
NewRoot ==
    /\ Reading("ascend")
    /\ path = <<>> /\ carry # <<>> /\ CanAllocate
    /\ LET grown == Allocated(tree)
       IN  /\ tree' = [grown EXCEPT !.root = grown.pages]
           /\ todo' = AllocateWrites(grown)
                      \o <<NodeWrite(grown.pages, Internal(<<carry[1]>>, <<tree.root, carry[2]>>))>>
    /\ carry' = <<>>
    /\ UNCHANGED <<file, stable, pc, key, path, want>>

(* Mutant: the header is counted in memory and not written.                *)
InsertEndUnwritten ==
    /\ Reading("ascend")
    /\ carry = <<>>
    /\ tree' = [tree EXCEPT !.size = @ + 1, !.nextId = NextIdAfter(@, key)]
    /\ pc' = "idle"
    /\ path' = <<>>
    /\ UNCHANGED <<file, stable, key, carry, todo, want>>

(* No split is pending: count the key and write the header last.           *)
InsertEnd ==
    /\ Reading("ascend")
    /\ carry = <<>>
    /\ LET new == [tree EXCEPT !.size = @ + 1, !.nextId = NextIdAfter(@, key)]
       IN  /\ tree' = new
           /\ todo' = <<HeaderWrite(new)>>
    /\ pc' = "idle"
    /\ path' = <<>>
    /\ UNCHANGED <<file, stable, key, carry, want>>

(* bptree_destroy (fclose) and bptree_open of the same file.               *)
Reopen ==
    /\ Reading("idle")
    /\ stable' = file
    /\ tree' = file.header
    /\ UNCHANGED <<file, pc, key, path, carry, todo, want>>

Next ==
    \/ Write
    \/ \E k \in Keys : InsertFirst(k) \/ InsertBegin(k)
    \/ Descend
    \/ DuplicateKey
    \/ LeafInsert
    \/ LeafSplit
    \/ InternalInsert
    \/ InternalSplit
    \/ NewRoot
    \/ InsertEnd
    \/ Reopen

Spec == Init /\ [][Next]_vars
-----------------------------------------------------------------------------
(* Properties                                                              *)

AtRest == pc = "idle" /\ todo = <<>>

Values == {ValueOf[k] : k \in Keys}
Headers == [root : 0 .. MaxPages, first : 0 .. MaxPages, pages : 0 .. MaxPages,
            size : Nat, nextId : Ints]
Nodes == [leaf : BOOLEAN, keys : Seq(Ints), vals : Seq(Values),
          kids : Seq(0 .. MaxPages), next : 0 .. MaxPages]
Files == [header : Headers, node : [Pages -> Nodes]]
Writes == [kind : {"header", "node"}, page : 0 .. MaxPages, header : Headers, node : Nodes]

(* Every variable has its type (header fields and InsertResult of bptree.c *)
(* 11-27); pages never leave the bound of the instance.                    *)
TypeOK ==
    /\ file \in Files /\ stable \in Files
    /\ tree \in Headers
    /\ todo \in Seq(Writes)
    /\ pc \in {"idle", "descend", "ascend"}
    /\ key \in Ints
    /\ path \in Seq(Pages)
    /\ carry = <<>> \/ carry \in Ints \X Pages
    /\ want \subseteq Keys

(* The entries of the ids of S, each once and in ascending order.          *)
Lists(entries, S) ==
    /\ ToSet(entries) = {<<k, ValueOf[k]>> : k \in S}
    /\ \A i, j \in DOMAIN entries : i < j => entries[i][1] < entries[j][1]

(* bptree_search finds exactly the inserted ids, each with the offset it   *)
(* was inserted with, whatever the order of insertion (bptree.c 621-651).  *)
SearchFindsInserted ==
    AtRest => \A k \in Keys : Search(k) = IF k \in want THEN {ValueOf[k]} ELSE {}

(* bptree_visit gives the callback exactly the matching ids, in ascending  *)
(* order, for every comparison operator and also for ids that are not in   *)
(* the tree and fall between two leaves (bptree.c 653-735).                *)
VisitMatchesFilter ==
    AtRest => \A op \in Ops : \A k \in Keys :
        Lists(Visit(op, k), {x \in want : Holds(op, x, k)})

(* The tree stays balanced and its nodes at least half full, so a lookup   *)
(* reads a logarithmic number of pages (splits at key_count / 2).          *)
Depth(k) ==
    LET at == Walk(file, tree.root, k)
    IN  CHOOSE d \in 0 .. MaxPages :
            file.node[at[d]].leaf /\ \A e \in 0 .. d - 1 : ~file.node[at[e]].leaf

Balanced ==
    AtRest /\ tree.root # 0 =>
        /\ \A j, k \in Keys : Depth(j) = Depth(k)
        /\ \A p \in 1 .. tree.pages :
              LET n == file.node[p]
              IN  /\ Len(n.keys) <= MaxKeys
                  /\ p # tree.root /\ n.leaf => Len(n.keys) >= (MaxKeys + 1) \div 2
                  /\ p # tree.root /\ ~n.leaf => Len(n.keys) >= MaxKeys - (MaxKeys + 1) \div 2
                  /\ ~n.leaf => Len(n.kids) = Len(n.keys) + 1

(* When no insert is running, the struct in memory is the header in the    *)
(* file, its size is the number of ids, and next_id lies above all of them *)
(* (load_table compares the size with the rows, database.c 487).           *)
HeaderAgrees ==
    AtRest =>
        /\ tree = file.header
        /\ tree.size = Cardinality(want)
        /\ \A k \in want : k < tree.nextId

(* The index file a killed process leaves behind is never silently wrong:  *)
(* if its header counts as many ids as there are rows (a row is in the     *)
(* table before bptree_insert is called), then every id is found in it and *)
(* the leaf chain lists exactly these ids.  Otherwise load_table notices   *)
(* the difference and rebuilds (database.c 487-489).                       *)
StaleFileIsDetected ==
    LET h == stable.header
    IN  h.size = Cardinality(want) /\ h.size > 0 =>
          /\ Lists(VisitFromLeaf(stable, h.first, 1), want)
          /\ \A k \in want :
                LET n == stable.node[FindLeaf(stable, h.root, k)]
                IN  \E i \in DOMAIN n.keys : n.keys[i] = k /\ n.vals[i] = ValueOf[k]
=============================================================================
