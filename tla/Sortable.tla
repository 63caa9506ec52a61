------------------------------ MODULE Sortable ------------------------------
(***************************************************************************)
(* lang/Sortable.java: the order in which the patches of one function run. *)
(* A Sortable carries a priority; ties are broken by the identity hash of  *)
(* the class loader and then by that of the object itself.  Identity       *)
(* hashes are whatever the VM hands out, so they are constants here and    *)
(* two distinct objects may well share one.                                *)
(***************************************************************************)
EXTENDS Integers

CONSTANTS Patches,       \* the Sortable objects (every one here is a Patch)
          Priority,      \* Priority[p]: the final field p.priority
          LoaderHash,    \* identityHashCode of p's class loader
          IdentityHash   \* identityHashCode of p

ASSUME SortableAssumption ==
    /\ Priority \in [Patches -> Int]
    /\ LoaderHash \in [Patches -> Int]
    /\ IdentityHash \in [Patches -> Int]

-----------------------------------------------------------------------------

\* A mutant of CompareTo: the comparison of the priorities turned around.
CompareToAscending(p, q) ==
    IF p = q THEN 0
    ELSE IF Priority[q] # Priority[p]
         THEN IF Priority[q] > Priority[p] THEN -1 ELSE 1
         ELSE 0

\* p.compareTo(q): a higher priority sorts first.
CompareTo(p, q) ==
    IF p = q THEN 0
    ELSE IF Priority[q] # Priority[p]
         THEN IF Priority[q] > Priority[p] THEN 1 ELSE -1
    ELSE IF LoaderHash[p] # LoaderHash[q]
         THEN IF LoaderHash[p] > LoaderHash[q] THEN 1 ELSE -1
    ELSE IF IdentityHash[p] # IdentityHash[q]
         THEN IF IdentityHash[p] > IdentityHash[q] THEN 1 ELSE -1
    ELSE 0
=============================================================================
