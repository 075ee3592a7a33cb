------------------------------ MODULE MCExport ------------------------------
(* Instances of Export for TLC, on the names and batches of MCRegistry. *)
EXTENDS Export, MCRegistry

MCLeaves(n) == [i \in 1 .. n |-> LeafHash(i, "ann", TRUE)]

(* Pages of the run are short: the tree is checked here on longer ones.    *)
(* root_of builds the tree that RFC 6962 defines top down, and every leaf  *)
(* of it has a path to the root.                                           *)
ASSUME TreesMatchReference ==
  \A n \in 0 .. 9 : RootOf(MCLeaves(n)) = SplitRoot(MCLeaves(n))

ASSUME LeavesHavePaths ==
  \A n \in 1 .. 9 : \A i \in 1 .. n :
    RootFromLeaf(MCLeaves(n)[i], i, MCLeaves(n)) = RootOf(MCLeaves(n))

=============================================================================
