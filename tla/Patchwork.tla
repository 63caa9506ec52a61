------------------------------ MODULE Patchwork ------------------------------
(***************************************************************************)
(* lang/Patchwork.java and the registry half of lang/ExternalKernel.java:  *)
(* threads call patch(member, patch) and recover(id); the static map pairs *)
(* remembers which id stands for which pair, the kernel keeps for every    *)
(* hooked function the sorted copy-on-write array of its patches.          *)
(*                                                                         *)
(* patch and recover are synchronized on the class, so lock is its monitor *)
(* and a call is split at every point another thread can look at the       *)
(* arrays, which are read without that monitor when a hooked function runs.*)
(*                                                                         *)
(* java.lang.reflect hands out a new Member object for every look-up, so   *)
(* several Members can denote one function.  pairs is searched by identity *)
(* (==), the kernel's mMemberMapping by equals: FuncOf[m] is what equals   *)
(* and hashCode see of m.                                                  *)
(***************************************************************************)
EXTENDS Sortable, Sequences, FiniteSets

CONSTANTS Threads,   \* application threads
          Members,   \* java.lang.reflect.Member objects
          Funcs,     \* constructors and methods
          FuncOf,    \* FuncOf[m]: the function Member m denotes
          MaxId,     \* bound: patch ids handed out
          Null       \* Java's null

Ids == 1..MaxId
Pairs == Members \X Patches

ASSUME PatchworkAssumption ==
    /\ FuncOf \in [Members -> Funcs]
    /\ MaxId \in Nat
    /\ Null \notin Pairs
    /\ Null \notin Threads

VARIABLES
    kernel,     \* Patchwork.externalKernel # null
    lock,       \* owner of the monitor of Patchwork.class, or Null
    pc,         \* pc[t]: where t is in patch or recover
    arg,        \* arg[t]: the (member, patch) pair t's call is about
    handle,     \* handle[t]: the id t passed to recover
    pairs,      \* Patchwork.pairs
    count,      \* Patchwork.count
    hooked,     \* keys of ExternalKernel.mMemberMapping
    elements    \* elements[f]: the published array of f's sorted set

registryVars == <<kernel, lock, pc, arg, handle, pairs, count, hooked, elements>>

\* A thread at rest runs application code; all but "idle" tell how its last
\* call of patch or recover ended.
Resting == {"idle", "returnedId", "returnedTrue", "returnedFalse", "threw"}
Locked == {"hook", "insert", "register", "remove"}
Entering == {"enterPatch", "enterRecover"}
Patching == {"enterPatch", "hook", "insert", "register"}

\* The patches of an array.
Content(s) == {s[i] : i \in DOMAIN s}
IsFor(pair, f, p) == FuncOf[pair[1]] = f /\ pair[2] = p
InEffect(pair) == pair[2] \in Content(elements[FuncOf[pair[1]]])
Registered(pair) == \E id \in Ids : pairs[id] = pair

Init ==
    /\ kernel = FALSE
    /\ lock = Null
    /\ pc = [t \in Threads |-> "idle"]
    /\ arg = [t \in Threads |-> Null]
    /\ handle = [t \in Threads |-> 0]
    /\ pairs = [id \in Ids |-> Null]
    /\ count = 0
    /\ hooked = {}
    /\ elements = [f \in Funcs |-> << >>]

-----------------------------------------------------------------------------
(* CopyOnWriteSortedSet *)

\* add: appended at the end, Arrays.sort moves the new element, being
\* stable, behind everything that does not compare greater.
Added(s, p, k) == [i \in 1..Len(s)+1 |-> IF i <= k THEN s[i]
                                         ELSE IF i = k + 1 THEN p
                                         ELSE s[i - 1]]
SortsTo(s, p, k) ==
    /\ \A i \in 1..k : CompareTo(s[i], p) <= 0
    /\ \A i \in k+1..Len(s) : CompareTo(s[i], p) > 0

\* Mutant: the second arraycopy starts one too early.
RemovedNext(s, k) == [i \in 1..Len(s)-1 |-> IF i <= k THEN s[i] ELSE s[i + 1]]

\* remove: the array without position k.
Removed(s, k) == [i \in 1..Len(s)-1 |-> IF i < k THEN s[i] ELSE s[i + 1]]

-----------------------------------------------------------------------------
(* Patchwork *)

\* The constructor of the one kernel of the process.
Provide ==
    /\ ~kernel
    /\ kernel' = TRUE
    /\ UNCHANGED <<lock, pc, arg, handle, pairs, count, hooked, elements>>

Goto(t, label) == pc' = [pc EXCEPT ![t] = label]

\* t calls patch(member, patch) and competes for the monitor.  Bound: every
\* call under way can still be given one of the MaxId ids.
PatchCall(t) ==
    /\ pc[t] \in Resting
    /\ count + Cardinality({u \in Threads : pc[u] \in Patching}) < MaxId
    /\ \E pair \in Pairs : arg' = [arg EXCEPT ![t] = pair]
    /\ handle' = [handle EXCEPT ![t] = 0]
    /\ Goto(t, "enterPatch")
    /\ UNCHANGED <<kernel, lock, pairs, count, hooked, elements>>

\* Mutant: the search compares the patches only.
PatchFoundByPatch(t) ==
    /\ pc[t] = "enterPatch" /\ lock = Null
    /\ \E id \in Ids : pairs[id] # Null /\ pairs[id][2] = arg[t][2]
    /\ Goto(t, "returnedId")
    /\ UNCHANGED <<kernel, lock, arg, handle, pairs, count, hooked, elements>>

\* The pair is registered already: its id is returned.
PatchFound(t) ==
    /\ pc[t] = "enterPatch" /\ lock = Null
    /\ Registered(arg[t])
    /\ Goto(t, "returnedId")
    /\ UNCHANGED <<kernel, lock, arg, handle, pairs, count, hooked, elements>>

\* No kernel yet: the NullPointerException leaves as a PatchError.
PatchNoKernel(t) ==
    /\ pc[t] = "enterPatch" /\ lock = Null
    /\ ~Registered(arg[t]) /\ ~kernel
    /\ Goto(t, "threw")
    /\ UNCHANGED <<kernel, lock, arg, handle, pairs, count, hooked, elements>>

\* Mutant: no search for a registration of the same pair.
PatchEnterUnsearched(t) ==
    /\ pc[t] = "enterPatch" /\ lock = Null
    /\ kernel
    /\ count < MaxId
    /\ lock' = t
    /\ Goto(t, "hook")
    /\ UNCHANGED <<kernel, arg, handle, pairs, count, hooked, elements>>

\* Neither: t goes on to addPatch with the monitor held.
PatchEnter(t) ==
    /\ pc[t] = "enterPatch" /\ lock = Null
    /\ ~Registered(arg[t]) /\ kernel
    /\ count < MaxId
    /\ lock' = t
    /\ Goto(t, "hook")
    /\ UNCHANGED <<kernel, arg, handle, pairs, count, hooked, elements>>

\* addPatch, the block under mMemberMapping: a function is hooked once.
AddPatchHook(t) ==
    /\ pc[t] = "hook"
    /\ hooked' = hooked \cup {FuncOf[arg[t][1]]}
    /\ Goto(t, "insert")
    /\ UNCHANGED <<kernel, lock, arg, handle, pairs, count, elements>>

\* Mutant: the exceptional exit keeps the monitor.
AddPatchHookThrowsLocked(t) ==
    /\ pc[t] = "hook"
    /\ FuncOf[arg[t][1]] \notin hooked
    /\ Goto(t, "threw")
    /\ UNCHANGED <<kernel, lock, arg, handle, pairs, count, hooked, elements>>

\* hookMember throws (an abstract method, a method Xposed refuses).
AddPatchHookThrows(t) ==
    /\ pc[t] = "hook"
    /\ FuncOf[arg[t][1]] \notin hooked
    /\ lock' = Null
    /\ Goto(t, "threw")
    /\ UNCHANGED <<kernel, arg, handle, pairs, count, hooked, elements>>

\* addPatch, struct.getPatches().add(patch): from now on calls of the
\* function see the patch, although it has no id yet.
AddPatchInsert(t) ==
    LET f == FuncOf[arg[t][1]]
        p == arg[t][2]
    IN  /\ pc[t] = "insert"
        /\ \/ /\ p \in Content(elements[f])
              /\ UNCHANGED elements
           \/ /\ p \notin Content(elements[f])
              /\ \E k \in 0..Len(elements[f]) :
                    /\ SortsTo(elements[f], p, k)
                    /\ elements' = [elements EXCEPT ![f] = Added(@, p, k)]
        /\ Goto(t, "register")
        /\ UNCHANGED <<kernel, lock, arg, handle, pairs, count, hooked>>

\* Mutant: the smallest free id is handed out again.
PatchRegisterReusing(t) ==
    /\ pc[t] = "register"
    /\ count' = count + 1
    /\ pairs' = [pairs EXCEPT ![CHOOSE id \in Ids : /\ pairs[id] = Null
                                                  /\ \A i \in 1..id - 1 : pairs[i] # Null] = arg[t]]
    /\ lock' = Null
    /\ Goto(t, "returnedId")
    /\ UNCHANGED <<kernel, arg, handle, hooked, elements>>

\* The pair gets the next id, which is returned.
PatchRegister(t) ==
    /\ pc[t] = "register"
    /\ count' = count + 1
    /\ pairs' = [pairs EXCEPT ![count + 1] = arg[t]]
    /\ lock' = Null
    /\ Goto(t, "returnedId")
    /\ UNCHANGED <<kernel, arg, handle, hooked, elements>>

\* t calls recover(id) with any id, handed out or not.
RecoverCall(t) ==
    /\ pc[t] \in Resting
    /\ \E id \in Ids : handle' = [handle EXCEPT ![t] = id]
    /\ arg' = [arg EXCEPT ![t] = Null]
    /\ Goto(t, "enterRecover")
    /\ UNCHANGED <<kernel, lock, pairs, count, hooked, elements>>

\* No pair under this id.
RecoverAbsent(t) ==
    /\ pc[t] = "enterRecover" /\ lock = Null
    /\ pairs[handle[t]] = Null
    /\ Goto(t, "returnedFalse")
    /\ UNCHANGED <<kernel, lock, arg, handle, pairs, count, hooked, elements>>

\* Mutant: pairs.get(id) instead of pairs.remove(id).
RecoverEnterKeeps(t) ==
    /\ pc[t] = "enterRecover" /\ lock = Null
    /\ pairs[handle[t]] # Null
    /\ arg' = [arg EXCEPT ![t] = pairs[handle[t]]]
    /\ lock' = t
    /\ Goto(t, "remove")
    /\ UNCHANGED <<kernel, handle, pairs, count, hooked, elements>>

\* Mutant: the test pair != null is missing.
RecoverEnterUnchecked(t) ==
    /\ pc[t] = "enterRecover" /\ lock = Null
    /\ arg' = [arg EXCEPT ![t] = pairs[handle[t]]]
    /\ pairs' = [pairs EXCEPT ![handle[t]] = Null]
    /\ lock' = t
    /\ Goto(t, "remove")
    /\ UNCHANGED <<kernel, handle, count, hooked, elements>>

\* pairs.remove(id): the id is gone, the patch still runs.
RecoverEnter(t) ==
    /\ pc[t] = "enterRecover" /\ lock = Null
    /\ pairs[handle[t]] # Null
    /\ arg' = [arg EXCEPT ![t] = pairs[handle[t]]]
    /\ pairs' = [pairs EXCEPT ![handle[t]] = Null]
    /\ lock' = t
    /\ Goto(t, "remove")
    /\ UNCHANGED <<kernel, handle, count, hooked, elements>>

\* removePatch: calls that took their snapshot before still run the patch.
RecoverRemove(t) ==
    LET f == FuncOf[arg[t][1]]
        p == arg[t][2]
    IN  /\ pc[t] = "remove"
        /\ \/ /\ f \in hooked /\ p \in Content(elements[f])
              /\ \E k \in DOMAIN elements[f] :
                    /\ elements[f][k] = p
                    /\ \A j \in 1..k-1 : elements[f][j] # p
                    /\ elements' = [elements EXCEPT ![f] = Removed(@, k)]
           \/ /\ f \notin hooked \/ p \notin Content(elements[f])
              /\ UNCHANGED elements
        /\ lock' = Null
        /\ Goto(t, "returnedTrue")
        /\ UNCHANGED <<kernel, arg, handle, pairs, count, hooked>>

Call(t) == PatchCall(t) \/ RecoverCall(t)
Enter(t) == \/ PatchFound(t) \/ PatchNoKernel(t) \/ PatchEnter(t)
            \/ RecoverAbsent(t) \/ RecoverEnter(t)
Inside(t) == \/ AddPatchHook(t) \/ AddPatchHookThrows(t) \/ AddPatchInsert(t)
             \/ PatchRegister(t) \/ RecoverRemove(t)

Next == Provide \/ \E t \in Threads : Call(t) \/ Enter(t) \/ Inside(t)

Spec == Init /\ [][Next]_registryVars

\* A thread inside patch or recover keeps running, and the VM lets a thread
\* that waits for the monitor have it eventually.
FairSpec ==
    /\ Spec
    /\ \A t \in Threads : WF_registryVars(Inside(t)) /\ SF_registryVars(Enter(t))

-----------------------------------------------------------------------------
(* Properties *)

\* The variables have their types, and a thread inside patch or recover has
\* the arguments its next step reads: recover never goes on with a null pair.
TypeOK ==
    /\ kernel \in BOOLEAN
    /\ lock \in Threads \cup {Null}
    /\ pc \in [Threads -> Resting \cup Entering \cup Locked]
    /\ arg \in [Threads -> Pairs \cup {Null}]
    /\ handle \in [Threads -> 0..MaxId]
    /\ \A t \in Threads :
          /\ pc[t] \in Locked \cup {"enterPatch"} => arg[t] # Null
          /\ pc[t] = "enterRecover" => handle[t] # 0
    /\ pairs \in [Ids -> Pairs \cup {Null}]
    /\ count \in 0..MaxId
    /\ hooked \subseteq Funcs
    /\ elements \in [Funcs -> Seq(Patches)]

\* Nobody leaves a patch behind: every patch that runs on some function is
\* either withdrawable through an id, or a call of patch or recover that is
\* under way accounts for it.  This is the two-step order of patch (array,
\* then pairs) and recover (pairs, then array) with every way out of them.
NoGhost ==
    \A f \in Funcs : \A p \in Content(elements[f]) :
        \/ \E id \in Ids : pairs[id] # Null /\ IsFor(pairs[id], f, p)
        \/ \E t \in Threads : pc[t] \in {"register", "remove"} /\ IsFor(arg[t], f, p)

\* An id stands for a patch that runs: as long as pairs has the id, the
\* function is hooked and the patch is in the function's array.
RegisteredInEffect ==
    \A id \in Ids : pairs[id] # Null =>
        FuncOf[pairs[id][1]] \in hooked /\ InEffect(pairs[id])

\* "@return patch exists or not": when recover goes on to answer true, the
\* patch it takes away is one that still runs.
RecoverAnswersExistence ==
    \A t \in Threads : pc[t] = "remove" => InEffect(arg[t])

\* Whichever way patch returns an id, the patch is in effect at that moment.
PatchAnswersInEffect ==
    [][\A t \in Threads :
          (pc[t] # pc'[t] /\ pc'[t] = "returnedId") => InEffect(arg[t])']_registryVars

\* Patches of a higher priority come first in every array another thread can
\* read, whatever the order in which patches are added and recovered.
HigherPriorityFirst ==
    \A f \in Funcs : \A i, j \in DOMAIN elements[f] :
        i < j => Priority[elements[f][i]] >= Priority[elements[f][j]]

\* Every call of patch or recover returns, also when others fail or compete.
CallsReturn ==
    \A t \in Threads : pc[t] \notin Resting ~> pc[t] \in Resting
=============================================================================
