------------------------------- MODULE Logcat -------------------------------
(***************************************************************************)
(* util/logcat/Logcat.java as a patch: beforeExecuted logs the call,       *)
(* indented by a per-thread depth and with the class name left out when    *)
(* the line above shows it; afterExecuted logs the result.  While it       *)
(* formats arguments or results it runs application code (hashCode,        *)
(* toString, getters), which may call traced functions again; the          *)
(* thread-local flag mIgnores keeps those calls out of the log.            *)
(*                                                                         *)
(* Of the dispatch only what Dispatch guarantees is used: a call that runs *)
(* beforeExecuted runs afterExecuted, decided by the snapshot taken on     *)
(* entry, while hook and unhook go on.  Of a line its class name and its   *)
(* indentation are kept.                                                   *)
(***************************************************************************)
EXTENDS Integers, Sequences, FiniteSets

CONSTANTS Threads,
          Classes,    \* classes hooked and unhooked
          MaxDepth,   \* bound: calls of traced functions a thread is in
          Null        \* Java's null

ASSUME LogcatAssumption == MaxDepth \in Nat /\ Null \notin Int /\ Null \notin Classes

VARIABLES traced,     \* classes whose functions have the Logcat as a patch
          ignores,    \* mIgnores: TRUE while this thread formats
          depths,     \* mDepths: Null until the first call
          records,    \* mRecords: class named by the last entry line, or Null
          above,      \* (history) class of the thread's last line, Null if an
                      \* exit line or none
          unshown,    \* (history) formatting threw before the recorded name
                      \* was logged
          stack       \* stack[t]: calls of traced functions t is in

vars == <<traced, ignores, depths, records, above, unshown, stack>>

\* patched  the snapshot of the call has the Logcat
\* indent   (history) the indentation of the entry line, Null if not logged
\* exit     (history) the indentation of the exit line, Null if not logged
\* elided   the entry line leaves the class name out
NewCall(c, phase, patched, indent, elided) ==
    [class |-> c, phase |-> phase, patched |-> patched, indent |-> indent,
     exit |-> Null, elided |-> elided]

Init ==
    /\ traced = {}
    /\ ignores = [t \in Threads |-> FALSE]
    /\ depths = [t \in Threads |-> Null]
    /\ records = [t \in Threads |-> Null]
    /\ above = [t \in Threads |-> Null]
    /\ unshown = [t \in Threads |-> FALSE]
    /\ stack = [t \in Threads |-> << >>]

Push(t, call) == stack' = [stack EXCEPT ![t] = Append(@, call)]
Pop(t) == stack' = [stack EXCEPT ![t] = SubSeq(@, 1, Len(@) - 1)]
Top(t) == stack[t][Len(stack[t])]
SetTop(t, call) == stack' = [stack EXCEPT ![t][Len(stack[t])] = call]
At(t, phase) == stack[t] # << >> /\ Top(t).phase = phase
Room(t) == Len(stack[t]) < MaxDepth

-----------------------------------------------------------------------------

\* hook(c), by any thread.
Hook(c) ==
    /\ traced' = traced \cup {c}
    /\ UNCHANGED <<ignores, depths, records, above, unshown, stack>>

\* unhook(c), by any thread.
Unhook(c) ==
    /\ traced' = traced \ {c}
    /\ UNCHANGED <<ignores, depths, records, above, stack, unshown>>

\* User code calls a function of c that has no Logcat in its array.
CallUntraced(t, c) ==
    /\ Room(t) /\ c \notin traced
    /\ Push(t, NewCall(c, "body", FALSE, Null, FALSE))
    /\ UNCHANGED <<traced, ignores, depths, records, above, unshown>>

\* beforeExecuted during formatting.
CallIgnored(t, c) ==
    /\ Room(t) /\ c \in traced /\ ignores[t]
    /\ Push(t, NewCall(c, "body", TRUE, Null, FALSE))
    /\ UNCHANGED <<traced, ignores, depths, records, above, unshown>>

\* beforeExecuted otherwise: one deeper, the name is recorded and formatting
\* begins.
CallLogged(t, c) ==
    /\ Room(t) /\ c \in traced /\ ~ignores[t]
    /\ LET depth == (IF depths[t] = Null THEN -1 ELSE depths[t]) + 1
       IN  /\ depths' = [depths EXCEPT ![t] = depth]
           /\ Push(t, NewCall(c, "before", TRUE, depth, records[t] = c))
    /\ records' = [records EXCEPT ![t] = c]
    /\ ignores' = [ignores EXCEPT ![t] = TRUE]
    /\ UNCHANGED <<traced, above, unshown>>

\* The arguments are formatted and the line is logged.
BeforeEnds(t) ==
    /\ At(t, "before")
    /\ SetTop(t, [Top(t) EXCEPT !.phase = "body"])
    /\ ignores' = [ignores EXCEPT ![t] = FALSE]
    /\ above' = [above EXCEPT ![t] = Top(t).class]
    /\ unshown' = [unshown EXCEPT ![t] = @ /\ Top(t).elided]
    /\ UNCHANGED <<traced, depths, records>>

\* Mutant: the flag is left set, as without the finally.
BeforeThrowsDeaf(t) ==
    /\ At(t, "before")
    /\ SetTop(t, [Top(t) EXCEPT !.phase = "body"])
    /\ UNCHANGED <<traced, ignores, depths, records, above, unshown>>

\* Formatting throws: no line, the flag is reset by the finally.
BeforeThrows(t) ==
    /\ At(t, "before")
    /\ SetTop(t, [Top(t) EXCEPT !.phase = "body"])
    /\ ignores' = [ignores EXCEPT ![t] = FALSE]
    /\ unshown' = [unshown EXCEPT ![t] = @ \/ ~Top(t).elided]
    /\ UNCHANGED <<traced, depths, records, above>>

\* The function and the callbacks of other patches end; no afterExecuted.
ReturnUntraced(t) ==
    /\ At(t, "body") /\ ~Top(t).patched
    /\ Pop(t)
    /\ UNCHANGED <<traced, ignores, depths, records, above, unshown>>

\* Mutant: the depth is stepped back before the flag is tested.
ReturnIgnoredSteps(t) ==
    /\ At(t, "body") /\ Top(t).patched /\ ignores[t]
    /\ Pop(t)
    /\ depths' = [depths EXCEPT ![t] = @ - 1]
    /\ UNCHANGED <<traced, ignores, records, above, unshown>>

\* afterExecuted during formatting.
ReturnIgnored(t) ==
    /\ At(t, "body") /\ Top(t).patched /\ ignores[t]
    /\ Pop(t)
    /\ UNCHANGED <<traced, ignores, depths, records, above, unshown>>

\* What afterExecuted does before it formats: exit is the line's indentation.
Leave(t, exit) ==
    /\ At(t, "body") /\ Top(t).patched /\ ~ignores[t] /\ depths[t] # Null
    /\ depths' = [depths EXCEPT ![t] = @ - 1]
    /\ SetTop(t, [Top(t) EXCEPT !.phase = "after", !.exit = exit])
    /\ ignores' = [ignores EXCEPT ![t] = TRUE]
    /\ unshown' = [unshown EXCEPT ![t] = FALSE]
    /\ UNCHANGED <<traced, above>>

\* Mutant: the recorded name survives the exit line.
ReturnLoggedKeeps(t) ==
    /\ Leave(t, depths[t])
    /\ UNCHANGED records

\* afterExecuted otherwise.  Without a depth it would end with a
\* NullPointerException: DepthIsNesting shows that it has one.
ReturnLogged(t) ==
    /\ Leave(t, depths[t])
    /\ records' = [records EXCEPT ![t] = Null]

\* The result is formatted and the line is logged.
AfterEnds(t) ==
    /\ At(t, "after")
    /\ Pop(t)
    /\ ignores' = [ignores EXCEPT ![t] = FALSE]
    /\ above' = [above EXCEPT ![t] = Null]
    /\ UNCHANGED <<traced, depths, records, unshown>>

\* Formatting throws: no line.
AfterThrows(t) ==
    /\ At(t, "after")
    /\ Pop(t)
    /\ ignores' = [ignores EXCEPT ![t] = FALSE]
    /\ UNCHANGED <<traced, depths, records, above, unshown>>

Next ==
    \/ \E c \in Classes : Hook(c) \/ Unhook(c)
    \/ \E t \in Threads, c \in Classes :
         CallUntraced(t, c) \/ CallIgnored(t, c) \/ CallLogged(t, c)
    \/ \E t \in Threads :
         \/ BeforeEnds(t) \/ BeforeThrows(t) \/ AfterEnds(t) \/ AfterThrows(t)
         \/ ReturnUntraced(t) \/ ReturnIgnored(t) \/ ReturnLogged(t)

Spec == Init /\ [][Next]_vars

-----------------------------------------------------------------------------
(* Properties *)

\* Of the first n calls, the logged ones that are not logging their exit.
OpenCalls(calls, n) ==
    {i \in 1..n : calls[i].indent # Null /\ calls[i].phase \in {"before", "body"}}

\* The depth is the nesting of the logged calls, minus one: it is never lost
\* or doubled by calls made while formatting, by formatting that throws or by
\* hooking and unhooking in the middle of calls, and afterExecuted never finds
\* it unset; so the two lines of a call are indented alike.
DepthIsNesting ==
    \A t \in Threads :
        /\ (IF depths[t] = Null THEN -1 ELSE depths[t]) + 1
             = Cardinality(OpenCalls(stack[t], Len(stack[t])))
        /\ depths[t] = Null => \A i \in 1..Len(stack[t]) : ~stack[t][i].patched
        /\ \A i \in 1..Len(stack[t]) :
             stack[t][i].phase = "after" => stack[t][i].exit = stack[t][i].indent

\* The flag is set exactly while one of the thread's calls is formatting, and
\* never in two calls at once: a thread does not go deaf.
IgnoresWhileFormatting ==
    \A t \in Threads :
        LET Formatting == {i \in 1..Len(stack[t]) : stack[t][i].phase \in {"before", "after"}}
        IN  /\ ignores[t] <=> Formatting # {}
            /\ Cardinality(Formatting) <= 1

\* An entry line leaves its class name out only under an entry line of the
\* same class (mRecords), unless formatting threw before the name was logged:
\* the name is recorded first.
ElidedNameIsAbove ==
    \A t \in Threads : \A i \in 1..Len(stack[t]) :
        stack[t][i].phase = "before" /\ stack[t][i].elided /\ ~unshown[t]
            => above[t] = stack[t][i].class
=============================================================================
