------------------------------- MODULE Killer -------------------------------
(***************************************************************************)
(* killer/Killer.java and so_killer.cpp: telling listeners that a shared   *)
(* object was loaded.  The static initializer of Killer hands a listener   *)
(* to native code, which hooks the linker's do_dlopen with Dobby.  From    *)
(* then on every thread that loads a shared object comes by, Java threads  *)
(* and native threads unknown to the VM, the latter being attached to it   *)
(* for the time of the callback; listeners may load shared objects too.    *)
(*                                                                         *)
(* Of DobbyHook, which module Dobby has in full, this module keeps what    *)
(* other threads see: it stores the address of the original and then       *)
(* redirects do_dlopen, and does both with a null address when there is no *)
(* memory for the copy of the original.                                    *)
(***************************************************************************)
EXTENDS Integers, Sequences, FiniteSets, SequencesExt

CONSTANTS Threads,
          Native,       \* threads that were not made by the VM
          Listeners,
          MaxDepth,     \* bound: loads a thread is in
          Null

ASSUME KillerAssumption == Native \subseteq Threads /\ MaxDepth \in Nat

VARIABLES init,       \* progress of the static initializer
          initBy,     \* the thread that runs it, or Null
          jvm,        \* JVM # NULL
          listener,   \* mOnSharedObjectLoadedListener # NULL
          origin,     \* origin_do_dlopen_v23 # NULL
          hooked,     \* do_dlopen leads to replace_do_dlopen_v23
          listeners,  \* sOnSharedObjectLoadedListeners
          starved,    \* (history) DobbyHook had no memory
          dead,       \* the process has crashed
          attached,   \* attached[t]: the VM knows t
          stack       \* stack[t]: the calls of replace_do_dlopen t is in

initVars == <<init, initBy, jvm, listener, origin, hooked, starved>>
vars == <<initVars, dead, listeners, attached, stack>>

Init ==
    /\ init = "uninitialised" /\ initBy = Null
    /\ jvm = FALSE /\ listener = FALSE /\ origin = FALSE /\ hooked = FALSE
    /\ starved = FALSE /\ dead = FALSE /\ listeners = << >>
    /\ attached = [t \in Threads |-> t \notin Native]
    /\ stack = [t \in Threads |-> << >>]

Busy(t) == stack[t] # << >>
Top(t) == stack[t][Len(stack[t])]
At(t, phase) == ~dead /\ Busy(t) /\ Top(t).phase = phase
Drop(s) == SubSeq(s, 1, Len(s) - 1)
SetTop(t, frame) == stack' = [stack EXCEPT ![t][Len(stack[t])] = frame]

\* t runs Java code: at rest, or inside a listener.
InJava(t) == ~dead /\ attached[t] /\ (~Busy(t) \/ At(t, "listener")) /\ initBy # t
\* The class may be used: by everyone when initialised, before that by the
\* thread that initialises it; others wait.
Usable(t) == init = "initialised" \/ initBy = t

-----------------------------------------------------------------------------
(* The static initializer and setOnSharedObjectLoadedListener *)

BeginInit(t) ==
    /\ init = "uninitialised" /\ InJava(t)
    /\ init' = "listener" /\ initBy' = t
    /\ UNCHANGED <<jvm, listener, origin, hooked, starved, dead, listeners, attached, stack>>

\* Mutant: do_dlopen is redirected before the listener is stored.
SetListenerAfterHook ==
    /\ ~dead /\ init = "listener"
    /\ hooked' = TRUE /\ origin' = TRUE
    /\ init' = "origin"
    /\ UNCHANGED <<initBy, jvm, listener, starved, dead, listeners, attached, stack>>

\* GetJavaVM and NewGlobalRef; there is no earlier reference to delete.
SetListener ==
    /\ ~dead /\ init = "listener"
    /\ jvm' = TRUE /\ listener' = TRUE
    /\ init' = "origin"
    /\ UNCHANGED <<initBy, origin, hooked, starved, dead, listeners, attached, stack>>

\* DobbyHook stores the original first.
SetOrigin ==
    /\ ~dead /\ init = "origin"
    /\ origin' = TRUE
    /\ init' = "commit"
    /\ UNCHANGED <<initBy, jvm, listener, hooked, starved, dead, listeners, attached, stack>>

\* Without memory for the copy it stores NULL and goes on.
SetNoOrigin ==
    /\ ~dead /\ init = "origin"
    /\ starved' = TRUE
    /\ init' = "commit"
    /\ UNCHANGED <<initBy, jvm, listener, origin, hooked, dead, listeners, attached, stack>>

\* The symbol is not found: DobbyHook returns RS_FAILED, which is not read.
HookFails ==
    /\ ~dead /\ init = "origin"
    /\ init' = "end"
    /\ UNCHANGED <<initBy, jvm, listener, origin, hooked, starved, dead, listeners, attached, stack>>

Commit ==
    /\ ~dead /\ init = "commit"
    /\ hooked' = TRUE
    /\ init' = "end"
    /\ UNCHANGED <<initBy, jvm, listener, origin, starved, dead, listeners, attached, stack>>

EndInit ==
    /\ ~dead /\ init = "end"
    /\ init' = "initialised" /\ initBy' = Null
    /\ UNCHANGED <<jvm, listener, origin, hooked, starved, dead, listeners, attached, stack>>

-----------------------------------------------------------------------------
(* The listeners *)

AddListener(t, l) ==
    /\ InJava(t) /\ Usable(t)
    /\ listeners' = <<l>> \o RemoveFirst(listeners, l)
    /\ UNCHANGED <<initVars, dead, attached, stack>>

RemoveListener(t, l) ==
    /\ InJava(t) /\ Usable(t)
    /\ listeners' = RemoveFirst(listeners, l)
    /\ UNCHANGED <<initVars, dead, attached, stack>>

-----------------------------------------------------------------------------
(* replace_do_dlopen_v23 *)

\* detach  DetachCurrentThread is due
\* todo    the listeners of the snapshot not called yet
Load(t) ==
    /\ ~dead /\ hooked /\ initBy # t
    /\ ~Busy(t) \/ At(t, "listener")
    /\ Len(stack[t]) < MaxDepth
    /\ stack' = [stack EXCEPT ![t] =
          Append(@, [phase |-> "original", detach |-> FALSE, todo |-> << >>])]
    /\ UNCHANGED <<initVars, dead, listeners, attached>>

\* The original is called through a null pointer.
CallNull(t) ==
    /\ At(t, "original") /\ ~origin
    /\ dead' = TRUE
    /\ UNCHANGED <<initVars, listeners, attached, stack>>

\* The original has returned, with a handle or without.
Enter(t) ==
    /\ At(t, "original") /\ origin
    /\ SetTop(t, [Top(t) EXCEPT !.phase = "callback", !.detach = ~attached[t]])
    /\ attached' = [attached EXCEPT ![t] = TRUE]
    /\ UNCHANGED <<initVars, dead, listeners>>

\* The Java listener copies the list; it waits for the class initializer.
\* ReadyWhenHooked shows that the test of the listener never fails.
Snapshot(t) ==
    /\ At(t, "callback") /\ listener /\ Usable(t)
    /\ SetTop(t, [Top(t) EXCEPT !.phase = "loop", !.todo = listeners])
    /\ UNCHANGED <<initVars, dead, listeners, attached>>

\* Mutant: the loop does not advance.
CallListenerAgain(t) ==
    /\ At(t, "loop") /\ Top(t).todo # << >>
    /\ SetTop(t, [Top(t) EXCEPT !.phase = "listener"])
    /\ UNCHANGED <<initVars, dead, listeners, attached>>

CallListener(t) ==
    /\ At(t, "loop") /\ Top(t).todo # << >>
    /\ SetTop(t, [Top(t) EXCEPT !.phase = "listener", !.todo = Tail(@)])
    /\ UNCHANGED <<initVars, dead, listeners, attached>>

ListenerReturns(t) ==
    /\ At(t, "listener")
    /\ SetTop(t, [Top(t) EXCEPT !.phase = "loop"])
    /\ UNCHANGED <<initVars, dead, listeners, attached>>

\* The exception ends the loop and stays pending in native code.
ListenerThrows(t) ==
    /\ At(t, "listener")
    /\ SetTop(t, [Top(t) EXCEPT !.phase = "loop", !.todo = << >>])
    /\ UNCHANGED <<initVars, dead, listeners, attached>>

\* Mutant: the thread is detached whoever attached it.
LeaveDetaching(t) ==
    /\ At(t, "loop") /\ Top(t).todo = << >>
    /\ stack' = [stack EXCEPT ![t] = Drop(@)]
    /\ attached' = [attached EXCEPT ![t] = t \notin Native]
    /\ UNCHANGED <<initVars, dead, listeners>>

\* A thread attached by this call is detached, and do_dlopen returns.
Leave(t) ==
    /\ At(t, "loop") /\ Top(t).todo = << >>
    /\ stack' = [stack EXCEPT ![t] = Drop(@)]
    /\ attached' = [attached EXCEPT ![t] = ~Top(t).detach]
    /\ UNCHANGED <<initVars, dead, listeners>>

InLoad(t) == \/ CallNull(t) \/ Enter(t) \/ Snapshot(t) \/ CallListener(t)
             \/ ListenerReturns(t) \/ ListenerThrows(t) \/ Leave(t)
Initializer == SetListener \/ SetOrigin \/ SetNoOrigin \/ HookFails \/ Commit \/ EndInit

Next ==
    \/ Initializer
    \/ \E t \in Threads : \/ BeginInit(t) \/ Load(t) \/ InLoad(t)
                          \/ \E l \in Listeners : AddListener(t, l) \/ RemoveListener(t, l)

Spec == Init /\ [][Next]_vars

\* Listeners end, at every depth, and the initializer keeps running.
FairSpec ==
    /\ Spec /\ WF_vars(Initializer)
    /\ \A t \in Threads : \A d \in 1..MaxDepth : SF_vars(Len(stack[t]) = d /\ InLoad(t))

-----------------------------------------------------------------------------
(* Properties *)

\* Whoever comes through the hook finds what it needs: the original to call,
\* the VM to ask and the listener to tell, from the first redirected call on
\* (the order of setOnSharedObjectLoadedListener and DobbyHook), unless there
\* was no memory for the original; nothing else lets the process crash.
ReadyWhenHooked ==
    /\ \A t \in Threads : Busy(t) => jvm /\ listener /\ (origin \/ starved)
    /\ dead => starved

\* Java code runs on attached threads only: a load made by a listener does not
\* detach the thread under the feet of the outer callback.  And a thread leaves
\* do_dlopen as it came: native threads are detached again, so they can exit,
\* Java threads are not.
AttachedWhileNeeded ==
    \A t \in Threads :
        /\ \A i \in 1..Len(stack[t]) :
             stack[t][i].phase \in {"callback", "loop", "listener"} => attached[t]
        /\ ~Busy(t) => (attached[t] <=> t \notin Native)

\* Every load returns, also one that comes while the class is initialised,
\* unless the process crashes.
LoadsReturn ==
    \A t \in Threads : Busy(t) ~> ~Busy(t) \/ dead
=============================================================================
