------------------------------ MODULE Dispatch ------------------------------
(***************************************************************************)
(* ExternalKernel.replaceHookedMember and Patch.Registers on top of the    *)
(* registry of Patchwork: what happens when a thread calls a function that *)
(* has been hooked, while other threads, or the callbacks themselves, add  *)
(* and recover patches.                                                    *)
(*                                                                         *)
(* Each thread has a stack of the hooked calls it is in.  User code runs   *)
(* inside every frame: a patch's callback ("before", "after") or the       *)
(* original body ("original", "direct").  User code may set the registers  *)
(* of its own call, call hooked functions and call patch and recover.      *)
(* A callback that throws ends like one that returns: the exception goes   *)
(* to wtf, a log.                                                          *)
(***************************************************************************)
EXTENDS Patchwork

CONSTANTS Callers,   \* bound: threads that call hooked functions
          MaxDepth   \* bound: hooked calls a thread is in

ASSUME DispatchAssumption == Callers \subseteq Threads /\ MaxDepth \in Nat

VARIABLES stack,    \* stack[t]: the frames of t, the innermost last
          outcome   \* outcome[t]: what t's last finished hooked call gave

vars == <<registryVars, stack, outcome>>

Unset == "NULL"     \* Registers.NULL, the sentinel "run the original"
Value == "value"    \* any object a call may return, Java's null included
None == "none"      \* thrown = null
Error == "error"    \* any Throwable

\* func     the called function
\* patches  the snapshot of its array taken on entry
\* index    the callback that runs
\* returned, thrown   the fields of Registers
\* open     (history) the patches whose beforeExecuted was started and whose
\*          afterExecuted was not, in the order they were started
Frame == [func : Funcs, patches : Seq(Patches), index : Nat,
          phase : {"before", "original", "after", "direct"},
          returned : {Unset, Value}, thrown : {None, Error}, open : Seq(Patches)]

Top(t) == stack[t][Len(stack[t])]
Pop(t) == SubSeq(stack[t], 1, Len(stack[t]) - 1)
UserCode(t) == pc[t] \in Resting
InPhase(t, phase) == UserCode(t) /\ stack[t] # << >> /\ Top(t).phase = phase

DispatchInit ==
    /\ Init
    /\ stack = [t \in Threads |-> << >>]
    /\ outcome = [t \in Threads |-> None]

-----------------------------------------------------------------------------

\* The call arrives: snapshot, and the first beforeExecuted unless it is empty.
Invoke(t) ==
    /\ UserCode(t)
    /\ t \in Callers /\ Len(stack[t]) < MaxDepth
    /\ \E f \in hooked :
         LET patches == elements[f]
         IN  stack' = [stack EXCEPT ![t] = Append(@,
                 [func |-> f, patches |-> patches, index |-> 1,
                  phase |-> IF patches = << >> THEN "direct" ELSE "before",
                  returned |-> Unset, thrown |-> None,
                  open |-> IF patches = << >> THEN << >> ELSE <<patches[1]>>])]
    /\ UNCHANGED <<registryVars, outcome>>

SetTop(t, frame) == stack' = [stack EXCEPT ![t] = Append(Pop(t), frame)]

\* Registers.setReturned, called by the running callback.
SetReturned(t) ==
    /\ InPhase(t, "before") \/ InPhase(t, "after")
    /\ SetTop(t, [Top(t) EXCEPT !.returned = Value, !.thrown = None])
    /\ UNCHANGED <<registryVars, outcome>>

\* Registers.setThrown.
SetThrown(t) ==
    /\ InPhase(t, "before") \/ InPhase(t, "after")
    /\ SetTop(t, [Top(t) EXCEPT !.returned = Unset, !.thrown = Error])
    /\ UNCHANGED <<registryVars, outcome>>

\* A beforeExecuted ends: the next one starts, or the original, unless a
\* callback has decided the result, or the last afterExecuted.
BeforeDone(t) ==
    /\ InPhase(t, "before")
    /\ LET r == Top(t)
           n == Len(r.patches)
       IN  \/ /\ r.index < n
              /\ SetTop(t, [r EXCEPT !.index = @ + 1,
                                     !.open = Append(@, r.patches[r.index + 1])])
           \/ /\ r.index = n
              /\ r.returned = Unset /\ r.thrown = None
              /\ SetTop(t, [r EXCEPT !.phase = "original"])
           \/ /\ r.index = n
              /\ ~(r.returned = Unset /\ r.thrown = None)
              /\ SetTop(t, [r EXCEPT !.phase = "after"])
    /\ UNCHANGED <<registryVars, outcome>>

\* Mutant: a Throwable of the original is logged like that of a callback.
OriginalDoneSwallows(t) ==
    /\ InPhase(t, "original")
    /\ \/ SetTop(t, [Top(t) EXCEPT !.phase = "after", !.returned = Value])
       \/ SetTop(t, [Top(t) EXCEPT !.phase = "after"])
    /\ UNCHANGED <<registryVars, outcome>>

\* The original body ends: the registers get its result.
OriginalDone(t) ==
    /\ InPhase(t, "original")
    /\ \/ SetTop(t, [Top(t) EXCEPT !.phase = "after", !.returned = Value])
       \/ SetTop(t, [Top(t) EXCEPT !.phase = "after", !.thrown = Error])
    /\ UNCHANGED <<registryVars, outcome>>

\* afterExecuted of p closes the call of p if that is the innermost open one.
Close(open, p) ==
    IF open # << >> /\ open[Len(open)] = p THEN SubSeq(open, 1, Len(open) - 1) ELSE open

\* Mutant: the after loop reads the set again instead of the snapshot.
AfterDoneRereads(t) ==
    /\ InPhase(t, "after")
    /\ LET r == Top(t)
           now == elements[r.func]
           open == IF r.index \in DOMAIN now THEN Close(r.open, now[r.index]) ELSE r.open
       IN  \/ /\ r.index > 1
              /\ SetTop(t, [r EXCEPT !.index = @ - 1, !.open = open])
              /\ UNCHANGED outcome
           \/ /\ r.index = 1
              /\ stack' = [stack EXCEPT ![t] = Pop(t)]
              /\ outcome' = [outcome EXCEPT ![t] =
                                IF r.thrown # None THEN Error ELSE r.returned]
    /\ UNCHANGED registryVars

\* An afterExecuted ends: the one before it starts, or the call ends with the
\* thrown Throwable or, if there is none, with returned.
AfterDone(t) ==
    /\ InPhase(t, "after")
    /\ LET r == Top(t)
           open == Close(r.open, r.patches[r.index])
       IN  \/ /\ r.index > 1
              /\ SetTop(t, [r EXCEPT !.index = @ - 1, !.open = open])
              /\ UNCHANGED outcome
           \/ /\ r.index = 1
              /\ stack' = [stack EXCEPT ![t] = Pop(t)]
              /\ outcome' = [outcome EXCEPT ![t] =
                                IF r.thrown # None THEN Error ELSE r.returned]
    /\ UNCHANGED registryVars

\* Without patches the original's result goes straight to the caller.
DirectDone(t) ==
    /\ InPhase(t, "direct")
    /\ stack' = [stack EXCEPT ![t] = Pop(t)]
    /\ \E result \in {Value, Error} : outcome' = [outcome EXCEPT ![t] = result]
    /\ UNCHANGED registryVars

Done(t) == BeforeDone(t) \/ OriginalDone(t) \/ AfterDone(t) \/ DirectDone(t)

Registry == Next /\ UNCHANGED <<stack, outcome>>

DispatchNext ==
    \/ Registry
    \/ \E t \in Threads : Invoke(t) \/ SetReturned(t) \/ SetThrown(t) \/ Done(t)

DispatchSpec == DispatchInit /\ [][DispatchNext]_vars

-----------------------------------------------------------------------------
(* Properties *)

\* "meaning will executing original": the sentinel never reaches a caller, and
\* while afterExecuted callbacks run exactly one of a value and a Throwable is
\* the result, whichever callbacks and original decided it.
ResultDecided ==
    /\ \A t \in Threads : outcome[t] # Unset
    /\ \A t \in Threads : \A i \in 1..Len(stack[t]) :
         LET r == stack[t][i]
         IN  /\ r.phase = "after" => (r.returned = Value <=> r.thrown = None)
             /\ r.phase = "original" => r.returned = Unset /\ r.thrown = None

\* Every patch whose beforeExecuted ran in a call gets its afterExecuted in
\* the same call, in reverse order, although patches are added and recovered
\* (by itself too) in between: the open ones are a prefix of the snapshot.
Bracketed ==
    \A t \in Threads : \A i \in 1..Len(stack[t]) :
        LET r == stack[t][i]
        IN  IF r.phase = "direct" THEN r.open = << >>
            ELSE r.open = SubSeq(r.patches, 1, r.index)
=============================================================================
