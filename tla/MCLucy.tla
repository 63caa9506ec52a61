------------------------------- MODULE MCLucy -------------------------------
(***************************************************************************)
(* Small instances for TLC of tracing: Lucy's books, and the class         *)
(* searches that give Lucy.Chain its classes, over every inheritance graph *)
(* and every forest of inner classes of Count classes.  A behaviour is one *)
(* of the two, chosen by part.                                             *)
(***************************************************************************)
EXTENDS Lucy, ClassSearch, TLC

CONSTANTS t1, t2, c1, c2, m1, m2, m3, pkg

\* One class of the package with two members, one class outside it.
MCDeclaredBy == (m1 :> c1) @@ (m2 :> c1) @@ (m3 :> c2)
MCStartsWith == (c1 :> {pkg}) @@ (c2 :> {})

VARIABLE part

\* The part that does not run stays as it begins.
MCInit ==
    /\ part \in {"trace", "search"}
    /\ Init
    /\ IF part = "search" THEN SearchInit
       ELSE /\ super = << >> /\ members = << >> /\ numbered = << >> /\ search = "none"
            /\ input = << >> /\ output = << >> /\ done = FALSE

\* A search that is over is the end.
Over == part = "search" /\ done /\ UNCHANGED <<part, vars, searchVars>>

MCNext ==
    \/ part = "trace" /\ Next /\ UNCHANGED <<part, searchVars>>
    \/ part = "search" /\ SearchNext /\ UNCHANGED <<part, vars>>
    \/ Over

Tracing == part = "trace" /\ UNCHANGED <<part, searchVars>>

\* The fairness of Lucy's Spec.
MCSpec ==
    /\ MCInit /\ [][MCNext]_<<part, vars, searchVars>>
    /\ \A t \in Threads : WF_vars(Steps(t) /\ Tracing) /\ SF_vars(Waits(t) /\ Tracing)
=============================================================================
