------------------------------ MODULE Registry ------------------------------
(***************************************************************************)
(* What Patchwork.patch and Patchwork.recover promise, without threads,    *)
(* monitors, Member objects and arrays: a (function, patch) pair starts to *)
(* run, then gets an id that was never used before; an id is given back,   *)
(* and then the pair it stood for stops running.  One pair at a time is on *)
(* its way in or out, and it does not stay there.                          *)
(***************************************************************************)
EXTENDS Integers

CONSTANTS Pairs,     \* (function, patch) pairs
          Ids,       \* ids, 1 and up
          Null

VARIABLES running,   \* the pairs that run when their function is called
          table,     \* table[id]: the pair an id stands for, or Null
          last,      \* the last id handed out
          coming,    \* the pair that runs and has no id yet, or Null
          going      \* the pair that lost its id and still runs, or Null

vars == <<running, table, last, coming, going>>

Init ==
    /\ running = {}
    /\ table = [id \in Ids |-> Null]
    /\ last = 0
    /\ coming = Null /\ going = Null

Settled == coming = Null /\ going = Null

Start(pair) ==
    /\ Settled /\ pair \notin running
    /\ running' = running \cup {pair}
    /\ coming' = pair
    /\ UNCHANGED <<table, last, going>>

HandOut ==
    /\ coming # Null
    /\ last' = last + 1
    /\ table' = [table EXCEPT ![last + 1] = coming]
    /\ coming' = Null
    /\ UNCHANGED <<running, going>>

GiveBack(id) ==
    /\ Settled /\ table[id] # Null
    /\ going' = table[id]
    /\ table' = [table EXCEPT ![id] = Null]
    /\ UNCHANGED <<running, last, coming>>

Stop ==
    /\ going # Null
    /\ running' = running \ {going}
    /\ going' = Null
    /\ UNCHANGED <<table, last, coming>>

Next ==
    \/ \E pair \in Pairs : Start(pair)
    \/ HandOut
    \/ \E id \in Ids : GiveBack(id)
    \/ Stop

Safety == Init /\ [][Next]_vars

Spec == Safety /\ WF_vars(HandOut) /\ WF_vars(Stop)
=============================================================================
