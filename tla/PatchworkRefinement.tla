------------------------- MODULE PatchworkRefinement -------------------------
(***************************************************************************)
(* Patchwork implements Registry.  The pairs that run are read off the     *)
(* published arrays, the pair on its way in or out off the thread that is  *)
(* between the two steps of patch or of recover.                           *)
(***************************************************************************)
EXTENDS Patchwork

ASSUME RefinementAssumption == Null \notin Funcs \X Patches

\* A pair without its Member object.
Function(pair) == IF pair = Null THEN Null ELSE <<FuncOf[pair[1]], pair[2]>>

\* The pair, in args, of the thread that at shows at a label; the monitor
\* admits one thread there.
PairAt(at, args, label) ==
    IF \E t \in Threads : at[t] = label
    THEN Function(args[CHOOSE t \in Threads : at[t] = label])
    ELSE Null

\* The pairs that run, read off the published arrays.
RunningIn(arrays) == {pair \in Funcs \X Patches : pair[2] \in Content(arrays[pair[1]])}

\* The pair an id stands for, without the Member object.
TableOf(map) == [id \in Ids |-> Function(map[id])]

Abstract == INSTANCE Registry WITH
    Pairs   <- Funcs \X Patches,
    running <- RunningIn(elements),
    table   <- TableOf(pairs),
    last    <- count,
    coming  <- PairAt(pc, arg, "register"),
    going   <- PairAt(pc, arg, "remove")

\* Seen from outside, patch and recover are the two-step operations of
\* Registry, whatever the threads do to each other: a pair starts to run
\* before it has an id and loses its id before it stops, one pair at a time,
\* ids are never given twice (so a stale id cannot withdraw a later patch),
\* and no pair is left half-way.  For Member objects that denote functions of
\* their own.
ImplementsRegistry == Abstract!Spec
=============================================================================
