---------------------------- MODULE MCPatchwork ----------------------------
(* Small instances of Patchwork for TLC. *)
EXTENDS PatchworkRefinement, TLC

CONSTANTS t1, t2, m1, m2, f1, f2, p1, p2, p3

\* Two patches of one priority whose hashes collide and one that precedes both.
MCPriority == [p \in Patches |-> IF p = p3 THEN 7 ELSE 0]
MCLoaderHash == [p \in Patches |-> 1]
MCIdentityHash == [p \in Patches |-> IF p = p3 THEN 3 ELSE 5]

\* Every Member object denotes a function of its own.
MCCanonical == (m1 :> f1) @@ (m2 :> f2)
\* Two look-ups of the same method gave two Member objects.
MCTwoLookups == [m \in Members |-> f1]
=============================================================================
