--------------------------- MODULE MCRvsdgTraverser ---------------------------
(* A pass that traverses and changes a region of three nodes at will. *)
EXTENDS RvsdgTraverser, TLC

CONSTANTS a, b, c, d

Alike == Permutations(Nodes \ Structural)
=============================================================================
