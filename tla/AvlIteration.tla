---------------------------- MODULE AvlIteration ----------------------------
(***************************************************************************)
(* The iterator and the lookup of vtl::AVLTree, on the trees that AvlTree  *)
(* builds. Their loops are recursive functions of the nodes.               *)
(***************************************************************************)
EXTENDS AvlTree

-----------------------------------------------------------------------------
(* begin(), next() and find()                                              *)

Leftmost[i \in DOMAIN node] ==
    IF node[i].small = Null THEN i ELSE Leftmost[node[i].small]

(* The first ancestor that i is on the small side of.                      *)
NextAbove[i \in DOMAIN node] ==
    LET p == node[i].parent
    IN  IF p = Null \/ node[p].small = i THEN p ELSE NextAbove[p]

NextNode(i) == IF node[i].large # Null THEN Leftmost[node[i].large] ELSE NextAbove[i]

Begin == IF root = Null THEN Null ELSE Leftmost[root]

(* Where an iterator is after n increments.                                *)
Iterator[n \in 0 .. Len(node)] ==
    IF n = 0 THEN Begin
    ELSE LET i == Iterator[n - 1] IN IF i = Null THEN Null ELSE NextNode(i)

FindNode(k) ==
    LET Find[i \in 0 .. Len(node)] ==
            IF i = Null \/ node[i].key = k THEN i
            ELSE Find[IF k < node[i].key THEN node[i].small ELSE node[i].large]
    IN  Find[root]

(* After every call, a loop over the tree (statistics, dialogs, colors,     *)
(* work items) ends and visits every key that was inserted once, in order, *)
(* with its own value, and each is found: neither a node nor a value is     *)
(* lost or exchanged when nodes, or their contents, are moved.             *)
IterationIsSortedMap ==
    pc = "rest" =>
        LET visits == {n \in 0 .. Len(node) : Iterator[n] # Null}
            visited(n) == node[Iterator[n]].key
        IN  /\ Len(node) \notin visits
            /\ {visited(n) : n \in visits} = contents
            /\ \A n1, n2 \in visits : n1 < n2 => visited(n1) < visited(n2)
            /\ \A i \in DOMAIN node : node[i].value = node[i].key
            /\ \A k \in Keys : FindNode(k) # Null <=> k \in contents
=============================================================================
