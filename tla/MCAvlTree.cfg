\* Six keys in any order reach every rotation: at a leaf (at the root and
\* below it), and one level above the leaves at the root.
CONSTANTS
  Keys = {1, 2, 3, 4, 5, 6}
  Policies = {"pointers", "swap"}
SPECIFICATION TreeSpec
INVARIANTS
  IterationIsSortedMap
  Balanced
