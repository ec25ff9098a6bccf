------------------------------- MODULE AvlTree -------------------------------
(***************************************************************************)
(* vtl::AVLTree (vtl/avltree.h): the maps of tasks, colors and strings.     *)
(* Nodes are numbers in the order of their allocation. A step of the       *)
(* machine is an iteration of a loop: the descent of findInsert_(), then   *)
(* the ascent of addValue_() (policy USEPOINTERS, which moves nodes) or    *)
(* addValueSwap_() (USESWAP, which exchanges their contents). The cases of *)
(* the source that mirror each other are one operator here: heavy is the   *)
(* side that has become too high, light the other.                         *)
(*                                                                         *)
(* The caller writes the value through the iterator that is returned. The  *)
(* value of a key is the key itself; a new node has none.                  *)
(***************************************************************************)
EXTENDS Integers, Sequences

CONSTANTS Keys,     \* the keys that may be inserted
          Policies  \* of {"pointers", "swap"}

ASSUME KeysAssumption == Keys \subseteq Nat \ {0}
ASSUME PoliciesAssumption == Policies \subseteq {"pointers", "swap"}

Null == 0
Sides == {"small", "large"}

VARIABLES policy,    \* BALANCE
          node,      \* the nodes, a sequence
          root,
          pc,        \* "rest", "search", "climb" or "return"
          key,       \* the argument
          entry, parent, grandParent, side,  \* as in the source; entry is parent[side]
          newentry,  \* what is returned
          contents   \* the keys that have been inserted since clear()

treeVars == <<policy, node, root, pc, key, entry, parent, grandParent, side, newentry, contents>>

TreeTypeOK ==
    /\ policy \in Policies
    /\ node \in Seq([small : 0 .. Len(node), large : 0 .. Len(node), height : Nat,
                     parent : 0 .. Len(node), key : Keys, value : Keys \union {0}])
    /\ {root, entry, parent, grandParent, newentry} \subseteq 0 .. Len(node)
    /\ pc \in {"rest", "search", "climb", "return"}
    /\ contents \subseteq Keys

TreeInit ==
    /\ policy \in Policies
    /\ node = << >> /\ root = Null /\ contents = {}
    /\ pc = "rest" /\ key = 0 /\ side = "small"
    /\ entry = Null /\ parent = Null /\ grandParent = Null /\ newentry = Null

-----------------------------------------------------------------------------
(* Nodes                                                                   *)

Height(n, i) == IF i = Null THEN -1 ELSE n[i].height

SetParent(n, i, p) == IF i = Null THEN n ELSE [n EXCEPT ![i].parent = p]

SetHeightFromChildren(n, i) ==
    LET lh == Height(n, n[i].small)
        rh == Height(n, n[i].large)
    IN  [n EXCEPT ![i].height = (IF lh >= rh THEN lh ELSE rh) + 1]

(* child takes the place of i below the parent of i.                       *)
StealParent(n, i, child) ==
    LET p == n[i].parent
        m == [n EXCEPT ![child].parent = p]
    IN  IF p = Null THEN m
        ELSE IF m[p].small = i THEN [m EXCEPT ![p].small = child]
        ELSE [m EXCEPT ![p].large = child]

SwapNodes(n, i, j) ==
    [n EXCEPT ![i].key = n[j].key, ![i].value = n[j].value,
              ![j].key = n[i].key, ![j].value = n[i].value]

-----------------------------------------------------------------------------
(* findInsert_()                                                           *)

FindInsert(k) ==
    /\ pc = "rest"
    /\ pc' = "search"
    /\ key' = k
    /\ entry' = root
    /\ parent' = Null
    /\ UNCHANGED <<policy, node, root, grandParent, side, newentry, contents>>

Descend ==
    /\ pc = "search"
    /\ entry # Null
    /\ node[entry].key # key
    /\ parent' = entry
    /\ side' = IF key < node[entry].key THEN "small" ELSE "large"
    /\ entry' = node[entry][side']
    /\ UNCHANGED <<policy, node, root, pc, key, grandParent, newentry, contents>>

Found ==
    /\ pc = "search"
    /\ entry # Null
    /\ node[entry].key = key
    /\ newentry' = entry
    /\ pc' = "return"
    /\ UNCHANGED <<policy, node, root, key, entry, parent, grandParent, side, contents>>

(* addValue_(), addValueSwap_(): a new leaf. Nothing has to be balanced if *)
(* its parent has another child.                                           *)
AddLeaf ==
    LET leaf == Len(node) + 1
        n == Append(node, [small |-> Null, large |-> Null, height |-> 0,
                           parent |-> parent, key |-> key, value |-> 0])
    IN  /\ pc = "search"
        /\ entry = Null
        /\ newentry' = leaf
        /\ entry' = leaf
        /\ root' = IF parent = Null THEN leaf ELSE root
        /\ contents' = contents \union {key}
        /\ IF parent = Null
           THEN node' = n /\ pc' = "return" /\ UNCHANGED grandParent
           ELSE IF node[parent].height > 0
           THEN /\ node' = [n EXCEPT ![parent][side] = leaf]
                /\ pc' = "return"
                /\ UNCHANGED grandParent
           ELSE /\ node' = [n EXCEPT ![parent][side] = leaf, ![parent].height = 1]
                /\ grandParent' = node[parent].parent
                /\ pc' = "climb"
        /\ UNCHANGED <<policy, key, parent, side>>

-----------------------------------------------------------------------------
(* The ascent                                                              *)

Diff == Height(node, node[grandParent].small) - Height(node, node[grandParent].large)

(* The tree below grandParent has grown, and is balanced.                  *)
Climb ==
    /\ pc = "climb"
    /\ grandParent # Null
    /\ Diff \in {-1, 1}
    /\ node' = [node EXCEPT ![grandParent].height = node[parent].height + 1]
    /\ entry' = parent
    /\ parent' = grandParent
    /\ grandParent' = node[grandParent].parent
    /\ UNCHANGED <<policy, root, pc, key, side, newentry, contents>>

(* The tree below grandParent has not grown.                               *)
StopClimbing ==
    /\ pc = "climb"
    /\ (grandParent # Null) => (Diff = 0)
    /\ pc' = "return"
    /\ UNCHANGED <<policy, node, root, key, entry, parent, grandParent, side, newentry, contents>>

(* Cases 1 and 4: entry is on the outer side of parent.                    *)
RotateOuterPointers(heavy, light) ==
    LET sibling == node[parent][light]
        n == StealParent(node, grandParent, parent)
        m == [n EXCEPT ![parent][light] = grandParent,
                       ![grandParent].parent = parent,
                       ![grandParent][heavy] = sibling,
                       ![grandParent].height = node[grandParent].height - 1]
    IN  SetParent(m, sibling, grandParent)

RotateOuterSwap(heavy, light) ==
    LET n == [node EXCEPT ![grandParent][heavy] = entry,
                          ![entry].parent = grandParent,
                          ![parent][heavy] = node[parent][light],
                          ![parent].height = node[parent].height - 1,
                          ![parent][light] = node[grandParent][light],
                          ![grandParent][light] = parent]
    IN  SwapNodes(SetParent(n, node[grandParent][light], parent), parent, grandParent)

(* Cases 2 and 3: entry is on the inner side of parent.                    *)
RotateInnerPointers(heavy, light) ==
    LET outer == node[entry][heavy]
        inner == node[entry][light]
        n == StealParent(node, grandParent, entry)
        m == [n EXCEPT ![entry][heavy] = parent,
                       ![entry][light] = grandParent,
                       ![entry].height = node[grandParent].height,
                       ![grandParent].parent = entry,
                       ![grandParent][heavy] = inner,
                       ![parent].parent = entry,
                       ![parent][light] = outer]
        h == SetHeightFromChildren(SetHeightFromChildren(m, grandParent), parent)
    IN  SetParent(SetParent(h, inner, grandParent), outer, parent)

(* A mutant: parent keeps its height.                                      *)
RotateInnerSwapHeight(heavy, light) ==
    LET outer == node[entry][heavy]
        inner == node[entry][light]
        lower == node[grandParent][light]
        n == [node EXCEPT ![parent][light] = outer,
                          ![entry][light] = lower,
                          ![entry][heavy] = inner,
                          ![entry].height = Height(node, lower) + 1,
                          ![grandParent][light] = entry,
                          ![entry].parent = grandParent]
        m == SetParent(SetParent(SetParent(n, lower, entry), outer, parent), inner, entry)
    IN  SwapNodes(m, entry, grandParent)

RotateInnerSwap(heavy, light) ==
    LET outer == node[entry][heavy]
        inner == node[entry][light]
        lower == node[grandParent][light]
        n == [node EXCEPT ![parent][light] = outer,
                          ![parent].height = node[grandParent].height - 1,
                          ![entry][light] = lower,
                          ![entry][heavy] = inner,
                          ![entry].height = Height(node, lower) + 1,
                          ![grandParent][light] = entry,
                          ![entry].parent = grandParent]
        m == SetParent(SetParent(SetParent(n, lower, entry), outer, parent), inner, entry)
    IN  SwapNodes(m, entry, grandParent)

(* A mutant: the new node is returned, although its contents have moved.   *)
ReturnedNodeUnswapped(outer) == newentry

(* The node that holds the new key after the rotation.                     *)
ReturnedNode(outer) ==
    IF policy = "swap" /\ ~outer /\ entry = newentry THEN grandParent ELSE newentry

Rebalance ==
    /\ pc = "climb"
    /\ grandParent # Null
    /\ Diff \notin -1 .. 1
    /\ LET heavy == IF Diff > 1 THEN "small" ELSE "large"
           light == IF Diff > 1 THEN "large" ELSE "small"
           outer == entry = node[parent][heavy]
       IN  /\ node' = IF policy = "pointers"
                      THEN IF outer THEN RotateOuterPointers(heavy, light)
                           ELSE RotateInnerPointers(heavy, light)
                      ELSE IF outer THEN RotateOuterSwap(heavy, light)
                           ELSE RotateInnerSwap(heavy, light)
           /\ root' = IF policy = "pointers" /\ grandParent = root
                      THEN IF outer THEN parent ELSE entry
                      ELSE root
           /\ newentry' = ReturnedNode(outer)
    /\ pc' = "return"
    /\ UNCHANGED <<policy, key, entry, parent, grandParent, side, contents>>

-----------------------------------------------------------------------------
(* The caller                                                              *)

(* insert(): the value is written to the node that was returned.           *)
Return ==
    /\ pc = "return"
    /\ node' = [node EXCEPT ![newentry].value = key]
    /\ pc' = "rest"
    /\ key' = 0 /\ side' = "small"
    /\ entry' = Null /\ parent' = Null /\ grandParent' = Null /\ newentry' = Null
    /\ UNCHANGED <<policy, root, contents>>

Clear ==
    /\ pc = "rest"
    /\ root # Null
    /\ root' = Null
    /\ node' = << >>
    /\ contents' = {}
    /\ UNCHANGED <<policy, pc, key, entry, parent, grandParent, side, newentry>>

TreeNext ==
    \/ \E k \in Keys : FindInsert(k)
    \/ Descend \/ Found \/ AddLeaf
    \/ Climb \/ StopClimbing \/ Rebalance
    \/ Return
    \/ Clear

TreeSpec == TreeInit /\ [][TreeNext]_treeVars

-----------------------------------------------------------------------------
(* Properties                                                              *)

(* After every call, the recorded heights are the real ones and no node has *)
(* a subtree that is more than one higher than the other: finding a key    *)
(* takes a logarithmic number of steps, for keys in any order.             *)
Balanced ==
    pc = "rest" =>
        \A i \in DOMAIN node :
            LET s == Height(node, node[i].small)
                l == Height(node, node[i].large)
            IN  s - l \in -1 .. 1 /\ node[i].height = (IF s > l THEN s ELSE l) + 1
=============================================================================
