--------------------------- MODULE PatchworkProofs ---------------------------
(***************************************************************************)
(* What holds of the patch registry for every set of threads, members,     *)
(* functions and patches and for every order on the patches, and of a call *)
(* of a hooked function at every depth of nested calls.                    *)
(***************************************************************************)
EXTENDS Dispatch, Registers, PatchworkRefinement, TLAPS

-----------------------------------------------------------------------------
(* The inductive invariant *)

\* A thread is between its lock and unlock exactly when it owns the monitor,
\* so at most one thread is inside patch or recover.
OwnerInside ==
    \A t \in Threads : pc[t] \in Locked <=> lock = t

\* Ids are handed out in order, and a patch call has one left to hand out.
IdsInOrder ==
    /\ \A id \in Ids : id > count => pairs[id] = Null
    /\ \A t \in Threads : pc[t] \in {"hook", "insert", "register"} => count < MaxId

\* A published array holds a patch once, patches of hooked functions only.
Distinct(s) == \A i, j \in DOMAIN s : s[i] = s[j] => i = j
ArraysOK ==
    /\ \A f \in Funcs : Distinct(elements[f])
    /\ \A f \in Funcs : elements[f] # << >> => f \in hooked
    /\ \A t \in Threads : pc[t] \in {"insert", "register"} => FuncOf[arg[t][1]] \in hooked

IInv == TypeOK /\ OwnerInside /\ IdsInOrder /\ ArraysOK /\ NoGhost

\* Member objects are canonical: equals identifies no two of them.
Canonical == \A m, n \in Members : FuncOf[m] = FuncOf[n] => m = n

\* With canonical members a pair has one id at most, the pair a call is about
\* has none while the call is inside, and it runs once it is inserted.
OneIdEach ==
    /\ \A i, j \in Ids : pairs[i] = pairs[j] /\ pairs[i] # Null => i = j
    /\ \A t \in Threads : pc[t] \in Locked => ~Registered(arg[t])
UnderWayInEffect ==
    \A t \in Threads : pc[t] \in {"register", "remove"} => InEffect(arg[t])

CInv == IInv /\ OneIdEach /\ UnderWayInEffect /\ RegisteredInEffect

-----------------------------------------------------------------------------
(* Facts about the arrays *)

\* add: the new array is a sequence with one more element, and has no element
\* twice when the old one had none and the element is new.
LEMMA AddedFacts ==
    ASSUME NEW s \in Seq(Patches), NEW p \in Patches, NEW k \in 0..Len(s)
    PROVE  /\ Added(s, p, k) \in Seq(Patches)
           /\ Added(s, p, k) # << >>
           /\ Content(Added(s, p, k)) = Content(s) \cup {p}
           /\ Distinct(s) /\ p \notin Content(s) => Distinct(Added(s, p, k))
<1> DEFINE a == Added(s, p, k)
<1>1. DOMAIN a = 1..Len(s)+1 /\ a \in Seq(Patches) /\ Len(a) = Len(s) + 1
  BY DEF Added
<1>2. Content(a) = Content(s) \cup {p}
  <2>1. ASSUME NEW i \in DOMAIN a PROVE a[i] \in Content(s) \cup {p}
    BY <1>1 DEF Added, Content
  <2>2. ASSUME NEW i \in DOMAIN s PROVE s[i] \in Content(a)
    <3>1. CASE i <= k
      <4>1. i \in DOMAIN a /\ a[i] = s[i]
        BY <3>1, <1>1 DEF Added
      <4> QED BY <4>1 DEF Content
    <3>2. CASE i > k
      <4>1. i + 1 \in DOMAIN a /\ a[i + 1] = s[i]
        BY <3>2, <1>1 DEF Added
      <4> QED BY <4>1 DEF Content
    <3> QED BY <3>1, <3>2
  <2>3. p \in Content(a)
    <3>1. k + 1 \in DOMAIN a /\ a[k + 1] = p
      BY <1>1 DEF Added
    <3> QED BY <3>1 DEF Content
  <2> QED BY <2>1, <2>2, <2>3 DEF Content
<1>3. ASSUME Distinct(s), p \notin Content(s) PROVE Distinct(a)
  BY <1>1, <1>3 DEF Added, Distinct, Content
<1> QED BY <1>1, <1>2, <1>3

\* remove: the new array is a sequence; it loses the element at k and, when
\* the old one had no element twice, nothing else.
LEMMA RemovedFacts ==
    ASSUME NEW s \in Seq(Patches), NEW k \in DOMAIN s, Distinct(s)
    PROVE  /\ Removed(s, k) \in Seq(Patches)
           /\ Distinct(Removed(s, k))
           /\ Content(Removed(s, k)) = Content(s) \ {s[k]}
<1> DEFINE r == Removed(s, k)
<1>1. DOMAIN r = 1..Len(s)-1 /\ r \in Seq(Patches)
  BY DEF Removed
<1>2. Distinct(r)
  BY <1>1 DEF Removed, Distinct
<1>3. ASSUME NEW i \in DOMAIN r PROVE r[i] \in Content(s) \ {s[k]}
  BY <1>1 DEF Removed, Content, Distinct
<1>4. ASSUME NEW i \in DOMAIN s, s[i] # s[k] PROVE s[i] \in Content(r)
  <2>1. CASE i < k
    <3>1. i \in DOMAIN r /\ r[i] = s[i]
      BY <2>1, <1>1 DEF Removed
    <3> QED BY <3>1 DEF Content
  <2>2. CASE i > k
    <3>1. i - 1 \in DOMAIN r /\ r[i - 1] = s[i]
      BY <2>2, <1>1 DEF Removed
    <3> QED BY <3>1 DEF Content
  <2> QED BY <2>1, <2>2, <1>4
<1> QED BY <1>1, <1>2, <1>3, <1>4 DEF Content

-----------------------------------------------------------------------------
(* IInv is inductive *)

\* The initial state satisfies the inductive invariant.
LEMMA InitIInv == Init => IInv
<1> SUFFICES ASSUME Init PROVE IInv
  OBVIOUS
<1> USE PatchworkAssumption DEF Init
<1>1. TypeOK
  <2>1. elements \in [Funcs -> Seq(Patches)]
    OBVIOUS
  <2>2. pc \in [Threads -> Resting \cup Entering \cup Locked]
    BY DEF Resting
  <2>3. arg \in [Threads -> Pairs \cup {Null}] /\ pairs \in [Ids -> Pairs \cup {Null}]
    OBVIOUS
  <2>4. handle \in [Threads -> 0..MaxId] /\ count \in 0..MaxId
    OBVIOUS
  <2> QED BY <2>1, <2>2, <2>3, <2>4 DEF TypeOK, Locked
<1>2. OwnerInside /\ IdsInOrder
  BY DEF OwnerInside, IdsInOrder, Locked, Ids
<1>3. ArraysOK /\ NoGhost
  BY DEF ArraysOK, NoGhost, Distinct, Content
<1> QED BY <1>1, <1>2, <1>3 DEF IInv

\* Every step of patch, recover and provide preserves the invariant.
LEMMA NextIInv == IInv /\ [Next]_registryVars => IInv'
<1> SUFFICES ASSUME IInv, [Next]_registryVars PROVE IInv'
  OBVIOUS
<1> USE PatchworkAssumption DEF IInv
<1>1. CASE UNCHANGED registryVars
  BY <1>1 DEF registryVars, TypeOK, OwnerInside, IdsInOrder, ArraysOK, NoGhost
<1>2. CASE Provide
  BY <1>2 DEF Provide, TypeOK, OwnerInside, IdsInOrder, ArraysOK, NoGhost
<1>3. ASSUME NEW t \in Threads, PatchCall(t) PROVE IInv'
  <2> USE <1>3 DEF PatchCall, Goto
  <2>1. TypeOK'
    BY DEF TypeOK, Resting, Entering, Locked, Ids
  <2>2. OwnerInside' /\ IdsInOrder'
    BY DEF TypeOK, OwnerInside, IdsInOrder, Resting, Locked
  <2>3. ArraysOK'
    BY DEF TypeOK, ArraysOK, Resting
  <2>4. NoGhost'
    BY DEF TypeOK, NoGhost, Resting
  <2> QED BY <2>1, <2>2, <2>3, <2>4
<1>4. ASSUME NEW t \in Threads, PatchFound(t) PROVE IInv'
  <2> USE <1>4 DEF PatchFound, Goto
  <2>1. TypeOK'
    BY DEF TypeOK, Resting, Entering, Locked, Ids
  <2>2. OwnerInside' /\ IdsInOrder'
    BY DEF TypeOK, OwnerInside, IdsInOrder, Resting, Locked
  <2>3. ArraysOK'
    BY DEF TypeOK, ArraysOK, Resting
  <2>4. NoGhost'
    BY DEF TypeOK, NoGhost, Resting
  <2> QED BY <2>1, <2>2, <2>3, <2>4
<1>5. ASSUME NEW t \in Threads, PatchNoKernel(t) PROVE IInv'
  <2> USE <1>5 DEF PatchNoKernel, Goto
  <2>1. TypeOK'
    BY DEF TypeOK, Resting, Entering, Locked, Ids
  <2>2. OwnerInside' /\ IdsInOrder'
    BY DEF TypeOK, OwnerInside, IdsInOrder, Resting, Locked
  <2>3. ArraysOK'
    BY DEF TypeOK, ArraysOK, Resting
  <2>4. NoGhost'
    BY DEF TypeOK, NoGhost, Resting
  <2> QED BY <2>1, <2>2, <2>3, <2>4
<1>6. ASSUME NEW t \in Threads, PatchEnter(t) PROVE IInv'
  <2> USE <1>6 DEF PatchEnter, Goto
  <2>1. TypeOK'
    BY DEF TypeOK, Resting, Entering, Locked, Ids
  <2>2. OwnerInside' /\ IdsInOrder'
    BY DEF TypeOK, OwnerInside, IdsInOrder, Resting, Locked
  <2>3. ArraysOK'
    BY DEF TypeOK, ArraysOK, Resting
  <2>4. NoGhost'
    BY DEF TypeOK, NoGhost, Resting
  <2> QED BY <2>1, <2>2, <2>3, <2>4
<1>7. ASSUME NEW t \in Threads, AddPatchHook(t) PROVE IInv'
  <2> USE <1>7 DEF AddPatchHook, Goto
  <2>1. TypeOK'
    BY DEF TypeOK, Resting, Entering, Locked, Ids, Pairs
  <2>2. OwnerInside' /\ IdsInOrder'
    BY DEF TypeOK, OwnerInside, IdsInOrder, Resting, Locked
  <2>3. ArraysOK'
    BY DEF TypeOK, ArraysOK, Resting
  <2>4. NoGhost'
    BY DEF TypeOK, NoGhost, Resting
  <2> QED BY <2>1, <2>2, <2>3, <2>4
<1>8. ASSUME NEW t \in Threads, AddPatchHookThrows(t) PROVE IInv'
  <2> USE <1>8 DEF AddPatchHookThrows, Goto
  <2>1. TypeOK'
    BY DEF TypeOK, Resting, Entering, Locked, Ids
  <2>2. OwnerInside' /\ IdsInOrder'
    BY DEF TypeOK, OwnerInside, IdsInOrder, Resting, Locked
  <2>3. ArraysOK'
    BY DEF TypeOK, ArraysOK, Resting
  <2>4. NoGhost'
    BY DEF TypeOK, NoGhost, Resting
  <2> QED BY <2>1, <2>2, <2>3, <2>4
<1>9. ASSUME NEW t \in Threads, RecoverCall(t) PROVE IInv'
  <2> USE <1>9 DEF RecoverCall, Goto
  <2>1. TypeOK'
    BY DEF TypeOK, Resting, Entering, Locked, Ids
  <2>2. OwnerInside' /\ IdsInOrder'
    BY DEF TypeOK, OwnerInside, IdsInOrder, Resting, Locked
  <2>3. ArraysOK'
    BY DEF TypeOK, ArraysOK, Resting
  <2>4. NoGhost'
    BY DEF TypeOK, NoGhost, Resting
  <2> QED BY <2>1, <2>2, <2>3, <2>4
<1>10. ASSUME NEW t \in Threads, RecoverAbsent(t) PROVE IInv'
  <2> USE <1>10 DEF RecoverAbsent, Goto
  <2>1. TypeOK'
    BY DEF TypeOK, Resting, Entering, Locked, Ids
  <2>2. OwnerInside' /\ IdsInOrder'
    BY DEF TypeOK, OwnerInside, IdsInOrder, Resting, Locked
  <2>3. ArraysOK'
    BY DEF TypeOK, ArraysOK, Resting
  <2>4. NoGhost'
    BY DEF TypeOK, NoGhost, Resting
  <2> QED BY <2>1, <2>2, <2>3, <2>4
<1>11. ASSUME NEW t \in Threads, AddPatchInsert(t) PROVE IInv'
  <2> DEFINE f == FuncOf[arg[t][1]]
             p == arg[t][2]
  <2>1. /\ pc[t] = "insert" /\ arg[t] \in Pairs /\ f \in Funcs /\ p \in Patches
        /\ elements[f] \in Seq(Patches)
        /\ pc' = [pc EXCEPT ![t] = "register"]
        /\ UNCHANGED <<kernel, lock, arg, handle, pairs, count, hooked>>
    BY <1>11 DEF AddPatchInsert, Goto, TypeOK, Locked, Pairs
  <2>2. /\ elements' \in [Funcs -> Seq(Patches)]
        /\ Content(elements'[f]) = Content(elements[f]) \cup {p}
        /\ Distinct(elements'[f])
        /\ \A g \in Funcs : g # f => elements'[g] = elements[g]
    <3>1. CASE p \in Content(elements[f]) /\ UNCHANGED elements
      BY <3>1, <2>1 DEF TypeOK, ArraysOK
    <3>2. CASE /\ p \notin Content(elements[f])
               /\ \E k \in 0..Len(elements[f]) :
                    elements' = [elements EXCEPT ![f] = Added(@, p, k)]
      <4>1. PICK k \in 0..Len(elements[f]) :
                    elements' = [elements EXCEPT ![f] = Added(@, p, k)]
        BY <3>2
      <4>2. /\ Added(elements[f], p, k) \in Seq(Patches)
            /\ Content(Added(elements[f], p, k)) = Content(elements[f]) \cup {p}
            /\ Distinct(Added(elements[f], p, k))
        BY <2>1, <3>2, AddedFacts DEF ArraysOK
      <4> QED BY <2>1, <4>1, <4>2 DEF TypeOK
    <3> QED BY <1>11, <3>1, <3>2 DEF AddPatchInsert
  <2>3. TypeOK'
    BY <2>1, <2>2 DEF TypeOK, Locked, Entering
  <2>4. OwnerInside' /\ IdsInOrder'
    BY <2>1 DEF TypeOK, OwnerInside, IdsInOrder, Locked
  <2>5. ArraysOK'
    BY <2>1, <2>2 DEF TypeOK, ArraysOK
  <2>6. NoGhost'
    <3> SUFFICES ASSUME NEW g \in Funcs, NEW q \in Content(elements'[g])
                 PROVE  \/ \E id \in Ids : pairs'[id] # Null /\ IsFor(pairs'[id], g, q)
                        \/ \E u \in Threads : pc'[u] \in {"register", "remove"} /\ IsFor(arg'[u], g, q)
      BY DEF NoGhost
    <3>1. CASE g = f /\ q = p
      BY <2>1, <3>1 DEF TypeOK, IsFor
    <3>2. CASE ~(g = f /\ q = p)
      <4>1. q \in Content(elements[g])
        BY <2>2, <3>2
      <4> QED BY <2>1, <4>1 DEF NoGhost, TypeOK
    <3> QED BY <3>1, <3>2
  <2> QED BY <2>3, <2>4, <2>5, <2>6
<1>12. ASSUME NEW t \in Threads, PatchRegister(t) PROVE IInv'
  <2>1. /\ pc[t] = "register" /\ arg[t] \in Pairs /\ count + 1 \in Ids
        /\ pairs[count + 1] = Null
        /\ pairs' = [pairs EXCEPT ![count + 1] = arg[t]]
        /\ \A u \in Threads : u # t => pc[u] \notin Locked
        /\ pc' = [pc EXCEPT ![t] = "returnedId"]
    BY <1>12 DEF PatchRegister, Goto, TypeOK, IdsInOrder, OwnerInside, Locked, Ids
  <2>2. TypeOK'
    BY <1>12, <2>1 DEF PatchRegister, TypeOK, Locked, Entering, Resting, Ids
  <2>3. OwnerInside' /\ IdsInOrder'
    BY <1>12, <2>1 DEF PatchRegister, TypeOK, OwnerInside, IdsInOrder, Locked, Ids
  <2>4. ArraysOK'
    BY <1>12, <2>1 DEF PatchRegister, TypeOK, ArraysOK
  <2>5. NoGhost'
    <3> SUFFICES ASSUME NEW g \in Funcs, NEW q \in Content(elements[g])
                 PROVE  \E id \in Ids : pairs'[id] # Null /\ IsFor(pairs'[id], g, q)
      BY <1>12 DEF PatchRegister, NoGhost
    <3>1. CASE \E id \in Ids : pairs[id] # Null /\ IsFor(pairs[id], g, q)
      <4>1. PICK id \in Ids : pairs[id] # Null /\ IsFor(pairs[id], g, q)
        BY <3>1
      <4>2. id # count + 1 /\ pairs'[id] = pairs[id]
        BY <2>1, <4>1 DEF TypeOK
      <4> QED BY <4>1, <4>2
    <3>2. CASE IsFor(arg[t], g, q)
      <4>1. pairs'[count + 1] = arg[t] /\ arg[t] # Null
        BY <2>1 DEF TypeOK
      <4> QED BY <2>1, <3>2, <4>1
    <3> QED BY <2>1, <3>1, <3>2 DEF NoGhost, Locked
  <2> QED BY <2>2, <2>3, <2>4, <2>5
<1>13. ASSUME NEW t \in Threads, RecoverEnter(t) PROVE IInv'
  <2>1. /\ pc[t] = "enterRecover" /\ lock = Null /\ handle[t] \in Ids
        /\ pairs[handle[t]] \in Pairs
        /\ arg' = [arg EXCEPT ![t] = pairs[handle[t]]]
        /\ pairs' = [pairs EXCEPT ![handle[t]] = Null]
        /\ \A u \in Threads : pc[u] \notin Locked
        /\ pc' = [pc EXCEPT ![t] = "remove"]
    BY <1>13 DEF RecoverEnter, Goto, TypeOK, OwnerInside, Locked, Ids
  <2>2. TypeOK'
    BY <1>13, <2>1 DEF RecoverEnter, TypeOK, Locked, Entering
  <2>3. OwnerInside' /\ IdsInOrder'
    BY <1>13, <2>1 DEF RecoverEnter, TypeOK, OwnerInside, IdsInOrder, Locked
  <2>4. ArraysOK'
    BY <1>13, <2>1 DEF RecoverEnter, TypeOK, ArraysOK
  <2>5. NoGhost'
    <3> SUFFICES ASSUME NEW g \in Funcs, NEW q \in Content(elements[g])
                 PROVE  \/ \E id \in Ids : pairs'[id] # Null /\ IsFor(pairs'[id], g, q)
                        \/ \E u \in Threads : pc'[u] \in {"register", "remove"} /\ IsFor(arg'[u], g, q)
      BY <1>13 DEF RecoverEnter, NoGhost
    <3>1. PICK id \in Ids : pairs[id] # Null /\ IsFor(pairs[id], g, q)
      BY <2>1 DEF NoGhost, Locked
    <3>2. CASE id = handle[t]
      <4>1. pc'[t] \in {"register", "remove"} /\ IsFor(arg'[t], g, q)
        BY <2>1, <3>1, <3>2 DEF TypeOK
      <4> QED BY <4>1
    <3>3. CASE id # handle[t]
      <4>1. pairs'[id] = pairs[id]
        BY <2>1, <3>1, <3>3 DEF TypeOK
      <4> QED BY <3>1, <4>1
    <3> QED BY <3>2, <3>3
  <2> QED BY <2>2, <2>3, <2>4, <2>5
<1>14. ASSUME NEW t \in Threads, RecoverRemove(t) PROVE IInv'
  <2> DEFINE f == FuncOf[arg[t][1]]
             p == arg[t][2]
  <2>1. /\ pc[t] = "remove" /\ arg[t] \in Pairs /\ f \in Funcs /\ p \in Patches
        /\ elements[f] \in Seq(Patches)
        /\ \A u \in Threads : u # t => pc[u] \notin Locked
        /\ pc' = [pc EXCEPT ![t] = "returnedTrue"] /\ lock' = Null
        /\ UNCHANGED <<kernel, arg, handle, pairs, count, hooked>>
    BY <1>14, SMTT(20) DEF RecoverRemove, Goto, TypeOK, OwnerInside, Locked, Pairs
  <2>2. /\ elements' \in [Funcs -> Seq(Patches)]
        /\ Content(elements'[f]) = Content(elements[f]) \ {p}
        /\ Distinct(elements'[f])
        /\ elements'[f] # << >> => f \in hooked
        /\ \A g \in Funcs : g # f => elements'[g] = elements[g]
    <3>1. CASE /\ f \in hooked
               /\ \E k \in DOMAIN elements[f] :
                     /\ elements[f][k] = p
                     /\ elements' = [elements EXCEPT ![f] = Removed(@, k)]
      <4>1. PICK k \in DOMAIN elements[f] :
                     /\ elements[f][k] = p
                     /\ elements' = [elements EXCEPT ![f] = Removed(@, k)]
        BY <3>1
      <4>2. /\ Removed(elements[f], k) \in Seq(Patches)
            /\ Content(Removed(elements[f], k)) = Content(elements[f]) \ {p}
            /\ Distinct(Removed(elements[f], k))
        BY <2>1, <4>1, RemovedFacts DEF ArraysOK
      <4> QED BY <2>1, <3>1, <4>1, <4>2 DEF TypeOK
    <3>2. CASE (f \notin hooked \/ p \notin Content(elements[f])) /\ UNCHANGED elements
      <4>1. p \notin Content(elements[f])
        BY <2>1, <3>2 DEF ArraysOK, Content
      <4> QED BY <2>1, <3>2, <4>1 DEF TypeOK, ArraysOK
    <3> QED BY <1>14, <3>1, <3>2 DEF RecoverRemove
  <2>3. TypeOK'
    BY <2>1, <2>2 DEF TypeOK, Locked, Entering, Resting
  <2>4. OwnerInside' /\ IdsInOrder'
    BY <2>1 DEF TypeOK, OwnerInside, IdsInOrder, Locked
  <2>5. ArraysOK'
    BY <2>1, <2>2 DEF TypeOK, ArraysOK
  <2>6. NoGhost'
    <3> SUFFICES ASSUME NEW g \in Funcs, NEW q \in Content(elements'[g])
                 PROVE  \E id \in Ids : pairs[id] # Null /\ IsFor(pairs[id], g, q)
      BY <2>1 DEF NoGhost
    <3>1. q \in Content(elements[g]) /\ ~(g = f /\ q = p)
      BY <2>2
    <3>2. ASSUME NEW u \in Threads, pc[u] \in {"register", "remove"} PROVE ~IsFor(arg[u], g, q)
      <4>1. u = t
        BY <2>1, <3>2 DEF Locked
      <4> QED BY <3>1, <4>1 DEF IsFor
    <3> QED BY <3>1, <3>2 DEF NoGhost
  <2> QED BY <2>3, <2>4, <2>5, <2>6
<1> QED
  BY <1>1, <1>2, <1>3, <1>4, <1>5, <1>6, <1>7, <1>8, <1>9, <1>10, <1>11, <1>12,
     <1>13, <1>14 DEF Next, Call, Enter, Inside

\* The inductive invariant holds in every reachable state.
THEOREM Invariance == Spec => []IInv
BY InitIInv, NextIInv, PTL DEF Spec

\* TypeOK: a thread inside patch or recover always has its arguments.
THEOREM TypeCorrect == Spec => []TypeOK
BY Invariance, PTL DEF IInv

\* NoGhost: whatever calls of patch and recover interleave, and whether or not
\* hookMember throws, no patch keeps running without an id to recover it by,
\* also when several Member objects denote one function.
THEOREM NoPatchLeftBehind == Spec => []NoGhost
BY Invariance, PTL DEF IInv

-----------------------------------------------------------------------------
(* CInv is inductive when Member objects are canonical *)

\* Every step preserves the stronger invariant of canonical members.
LEMMA NextCInv == Canonical /\ CInv /\ [Next]_registryVars => CInv'
<1> SUFFICES ASSUME Canonical, CInv, [Next]_registryVars PROVE CInv'
  OBVIOUS
<1> USE PatchworkAssumption DEF CInv
<1>i. IInv'
  BY NextIInv
<1>t. TypeOK /\ OwnerInside /\ ArraysOK /\ TypeOK'
  BY <1>i DEF IInv
<1> DEFINE Rest == OneIdEach /\ UnderWayInEffect /\ RegisteredInEffect
<1> SUFFICES Rest'
  BY <1>i
<1>1. CASE UNCHANGED registryVars
  BY <1>1 DEF registryVars, OneIdEach, UnderWayInEffect, RegisteredInEffect, Registered,
     InEffect
<1>2. CASE Provide
  BY <1>2 DEF Provide, OneIdEach, UnderWayInEffect, RegisteredInEffect, Registered, InEffect
<1>3. ASSUME NEW t \in Threads, PatchCall(t) PROVE Rest'
  <2>1. OneIdEach'
    BY <1>3, <1>t DEF PatchCall, Goto, TypeOK, OneIdEach, Registered, Resting, Locked
  <2>2. UnderWayInEffect' /\ RegisteredInEffect'
    BY <1>3, <1>t DEF PatchCall, Goto, TypeOK, UnderWayInEffect, RegisteredInEffect, InEffect,
       Resting
  <2> QED BY <2>1, <2>2
<1>4. ASSUME NEW t \in Threads, PatchFound(t) PROVE Rest'
  <2>1. OneIdEach'
    BY <1>4, <1>t DEF PatchFound, Goto, TypeOK, OneIdEach, Registered, Resting, Locked
  <2>2. UnderWayInEffect' /\ RegisteredInEffect'
    BY <1>4, <1>t DEF PatchFound, Goto, TypeOK, UnderWayInEffect, RegisteredInEffect, InEffect,
       Resting
  <2> QED BY <2>1, <2>2
<1>5. ASSUME NEW t \in Threads, PatchNoKernel(t) PROVE Rest'
  <2>1. OneIdEach'
    BY <1>5, <1>t DEF PatchNoKernel, Goto, TypeOK, OneIdEach, Registered, Resting, Locked
  <2>2. UnderWayInEffect' /\ RegisteredInEffect'
    BY <1>5, <1>t DEF PatchNoKernel, Goto, TypeOK, UnderWayInEffect, RegisteredInEffect, InEffect,
       Resting
  <2> QED BY <2>1, <2>2
<1>6. ASSUME NEW t \in Threads, PatchEnter(t) PROVE Rest'
  <2>1. OneIdEach'
    BY <1>6, <1>t DEF PatchEnter, Goto, TypeOK, OneIdEach, Registered, Resting, Locked
  <2>2. UnderWayInEffect' /\ RegisteredInEffect'
    BY <1>6, <1>t DEF PatchEnter, Goto, TypeOK, UnderWayInEffect, RegisteredInEffect, InEffect,
       Resting
  <2> QED BY <2>1, <2>2
<1>7. ASSUME NEW t \in Threads, AddPatchHook(t) PROVE Rest'
  <2>1. OneIdEach'
    BY <1>7, <1>t DEF AddPatchHook, Goto, TypeOK, OneIdEach, Registered, Resting, Locked
  <2>2. UnderWayInEffect' /\ RegisteredInEffect'
    BY <1>7, <1>t DEF AddPatchHook, Goto, TypeOK, UnderWayInEffect, RegisteredInEffect, InEffect,
       Resting
  <2> QED BY <2>1, <2>2
<1>8. ASSUME NEW t \in Threads, AddPatchHookThrows(t) PROVE Rest'
  <2>1. OneIdEach'
    BY <1>8, <1>t DEF AddPatchHookThrows, Goto, TypeOK, OneIdEach, Registered, Resting, Locked
  <2>2. UnderWayInEffect' /\ RegisteredInEffect'
    BY <1>8, <1>t DEF AddPatchHookThrows, Goto, TypeOK, UnderWayInEffect, RegisteredInEffect, InEffect,
       Resting
  <2> QED BY <2>1, <2>2
<1>9. ASSUME NEW t \in Threads, RecoverCall(t) PROVE Rest'
  <2>1. OneIdEach'
    BY <1>9, <1>t DEF RecoverCall, Goto, TypeOK, OneIdEach, Registered, Resting, Locked
  <2>2. UnderWayInEffect' /\ RegisteredInEffect'
    BY <1>9, <1>t DEF RecoverCall, Goto, TypeOK, UnderWayInEffect, RegisteredInEffect, InEffect,
       Resting
  <2> QED BY <2>1, <2>2
<1>10. ASSUME NEW t \in Threads, RecoverAbsent(t) PROVE Rest'
  <2>1. OneIdEach'
    BY <1>10, <1>t DEF RecoverAbsent, Goto, TypeOK, OneIdEach, Registered, Resting, Locked
  <2>2. UnderWayInEffect' /\ RegisteredInEffect'
    BY <1>10, <1>t DEF RecoverAbsent, Goto, TypeOK, UnderWayInEffect, RegisteredInEffect, InEffect,
       Resting
  <2> QED BY <2>1, <2>2
<1>11. ASSUME NEW t \in Threads, AddPatchInsert(t) PROVE Rest'
  <2> DEFINE f == FuncOf[arg[t][1]]
             p == arg[t][2]
  <2>1. /\ pc[t] = "insert" /\ arg[t] \in Pairs /\ f \in Funcs /\ p \in Patches
        /\ pc' = [pc EXCEPT ![t] = "register"]
        /\ UNCHANGED <<kernel, lock, arg, handle, pairs, count, hooked>>
    BY <1>11, <1>t DEF AddPatchInsert, Goto, TypeOK, Locked, Pairs
  <2>2. \A g \in Funcs : Content(elements[g]) \subseteq Content(elements'[g])
    <3>1. ASSUME NEW k \in 0..Len(elements[f]),
                 elements' = [elements EXCEPT ![f] = Added(@, p, k)]
          PROVE  \A g \in Funcs : Content(elements[g]) \subseteq Content(elements'[g])
      <4>1. Content(Added(elements[f], p, k)) = Content(elements[f]) \cup {p}
        BY <1>t, <2>1, AddedFacts DEF TypeOK
      <4> QED BY <1>t, <2>1, <3>1, <4>1 DEF TypeOK
    <3> QED BY <1>11, <3>1 DEF AddPatchInsert
  <2>3. InEffect(arg[t])'
    <3>1. ASSUME NEW k \in 0..Len(elements[f]),
                 elements' = [elements EXCEPT ![f] = Added(@, p, k)]
          PROVE  p \in Content(elements'[f])
      <4>1. Content(Added(elements[f], p, k)) = Content(elements[f]) \cup {p}
        BY <1>t, <2>1, AddedFacts DEF TypeOK
      <4> QED BY <1>t, <2>1, <3>1, <4>1 DEF TypeOK
    <3>2. p \in Content(elements'[f])
      BY <1>11, <3>1 DEF AddPatchInsert
    <3> QED BY <2>1, <3>2 DEF InEffect
  <2>4. OneIdEach'
    BY <2>1, <1>t DEF TypeOK, OneIdEach, Registered, Locked
  <2>5. UnderWayInEffect'
    BY <2>1, <2>2, <2>3, <1>t DEF TypeOK, UnderWayInEffect, InEffect, OwnerInside, Locked
  <2>6. RegisteredInEffect'
    <3> SUFFICES ASSUME NEW id \in Ids, pairs[id] # Null
                 PROVE  FuncOf[pairs[id][1]] \in hooked /\ InEffect(pairs[id])'
      BY <2>1 DEF RegisteredInEffect, InEffect
    <3>1. FuncOf[pairs[id][1]] \in Funcs
      BY <1>t DEF TypeOK, Pairs
    <3> QED BY <2>1, <2>2, <3>1 DEF RegisteredInEffect, InEffect
  <2> QED BY <2>4, <2>5, <2>6
<1>12. ASSUME NEW t \in Threads, PatchRegister(t) PROVE Rest'
  <2>1. /\ pc[t] = "register" /\ arg[t] \in Pairs /\ arg[t] # Null
        /\ count + 1 \in Ids /\ pairs[count + 1] = Null
        /\ pairs' = [pairs EXCEPT ![count + 1] = arg[t]]
        /\ \A u \in Threads : u # t => pc[u] \notin Locked
        /\ pc' = [pc EXCEPT ![t] = "returnedId"]
        /\ UNCHANGED <<arg, hooked, elements>>
        /\ ~Registered(arg[t]) /\ InEffect(arg[t]) /\ FuncOf[arg[t][1]] \in hooked
    BY <1>12, <1>t DEF PatchRegister, Goto, IInv, TypeOK, IdsInOrder, OwnerInside, Locked,
       Ids, OneIdEach, UnderWayInEffect, ArraysOK
  <2>2. OneIdEach'
    BY <2>1, <1>t DEF TypeOK, OneIdEach, Registered, Locked
  <2>3. UnderWayInEffect'
    BY <2>1, <1>t DEF TypeOK, UnderWayInEffect, InEffect, Locked
  <2>4. RegisteredInEffect'
    BY <2>1, <1>t DEF TypeOK, RegisteredInEffect, InEffect
  <2> QED BY <2>2, <2>3, <2>4
<1>13. ASSUME NEW t \in Threads, RecoverEnter(t) PROVE Rest'
  <2>1. /\ pc[t] = "enterRecover" /\ handle[t] \in Ids
        /\ pairs[handle[t]] \in Pairs /\ pairs[handle[t]] # Null
        /\ arg' = [arg EXCEPT ![t] = pairs[handle[t]]]
        /\ pairs' = [pairs EXCEPT ![handle[t]] = Null]
        /\ \A u \in Threads : pc[u] \notin Locked
        /\ pc' = [pc EXCEPT ![t] = "remove"]
        /\ UNCHANGED <<hooked, elements>>
    BY <1>13, <1>t DEF RecoverEnter, Goto, TypeOK, OwnerInside, Locked, Ids
  <2>2. OneIdEach'
    BY <2>1, <1>t DEF TypeOK, OneIdEach, Registered, Locked
  <2>3. UnderWayInEffect'
    BY <2>1, <1>t DEF TypeOK, UnderWayInEffect, RegisteredInEffect, InEffect, Locked
  <2>4. RegisteredInEffect'
    BY <2>1, <1>t DEF TypeOK, RegisteredInEffect, InEffect
  <2> QED BY <2>2, <2>3, <2>4
<1>14. ASSUME NEW t \in Threads, RecoverRemove(t) PROVE Rest'
  <2> DEFINE f == FuncOf[arg[t][1]]
             p == arg[t][2]
  <2>1. /\ pc[t] = "remove" /\ arg[t] \in Pairs /\ f \in Funcs /\ p \in Patches
        /\ \A u \in Threads : u # t => pc[u] \notin Locked
        /\ pc' = [pc EXCEPT ![t] = "returnedTrue"]
        /\ UNCHANGED <<arg, pairs, hooked>>
        /\ ~Registered(arg[t])
    BY <1>14, <1>t, SMTT(20) DEF RecoverRemove, Goto, TypeOK, OwnerInside, Locked, Pairs, OneIdEach
  <2>2. \A g \in Funcs : \A q \in Content(elements[g]) :
            (g = f /\ q = p) \/ q \in Content(elements'[g])
    <3>1. ASSUME NEW k \in DOMAIN elements[f], elements[f][k] = p,
                 elements' = [elements EXCEPT ![f] = Removed(@, k)]
          PROVE  \A g \in Funcs : \A q \in Content(elements[g]) :
                     (g = f /\ q = p) \/ q \in Content(elements'[g])
      <4>1. Content(Removed(elements[f], k)) = Content(elements[f]) \ {p}
        BY <1>t, <2>1, <3>1, RemovedFacts DEF TypeOK, ArraysOK
      <4> QED BY <1>t, <2>1, <3>1, <4>1 DEF TypeOK
    <3> QED BY <1>14, <3>1 DEF RecoverRemove
  <2>3. OneIdEach'
    BY <2>1, <1>t DEF TypeOK, OneIdEach, Registered, Locked
  <2>4. UnderWayInEffect'
    BY <2>1, <1>t DEF TypeOK, UnderWayInEffect, Locked
  <2>5. RegisteredInEffect'
    <3> SUFFICES ASSUME NEW id \in Ids, pairs[id] # Null
                 PROVE  FuncOf[pairs[id][1]] \in hooked /\ InEffect(pairs[id])'
      BY <2>1 DEF RegisteredInEffect, InEffect
    <3>1. pairs[id] \in Pairs /\ FuncOf[pairs[id][1]] \in Funcs /\ pairs[id] # arg[t]
      BY <1>t, <2>1 DEF TypeOK, Pairs, Registered
    <3>2. ~(FuncOf[pairs[id][1]] = f /\ pairs[id][2] = p)
      BY <3>1, <2>1 DEF Canonical, Pairs
    <3> QED BY <2>1, <2>2, <3>1, <3>2 DEF RegisteredInEffect, InEffect
  <2> QED BY <2>3, <2>4, <2>5
<1> QED
  BY <1>1, <1>2, <1>3, <1>4, <1>5, <1>6, <1>7, <1>8, <1>9, <1>10, <1>11, <1>12,
     <1>13, <1>14 DEF Next, Call, Enter, Inside

\* The stronger invariant holds in every reachable state.
THEOREM CanonicalInvariance == ASSUME Canonical PROVE Spec => []CInv
<1>1. Init => CInv
  BY InitIInv, PatchworkAssumption
  DEF Init, CInv, OneIdEach, UnderWayInEffect, RegisteredInEffect, Locked
<1>2. CInv /\ [Next]_registryVars => CInv'
  BY Canonical, NextCInv
<1> QED BY <1>1, <1>2, PTL DEF Spec

\* RegisteredInEffect: when callers use one Member object per function, an id
\* that Patchwork holds stands for a patch that runs.
THEOREM IdsStandForRunningPatches == ASSUME Canonical PROVE Spec => []RegisteredInEffect
BY CanonicalInvariance, PTL DEF CInv

\* RecoverAnswersExistence: then recover answers true only for a patch that
\* still runs.
THEOREM RecoverTellsTheTruth == ASSUME Canonical PROVE Spec => []RecoverAnswersExistence
<1>1. CInv => RecoverAnswersExistence
  BY DEF CInv, UnderWayInEffect, RecoverAnswersExistence
<1> QED BY <1>1, CanonicalInvariance, PTL

\* PatchAnswersInEffect: then patch returns an id only of a patch that runs,
\* on the path that finds the pair registered as well.
THEOREM PatchTellsTheTruth == ASSUME Canonical PROVE Spec => PatchAnswersInEffect
<1> DEFINE Answer == \A t \in Threads :
                (pc[t] # pc'[t] /\ pc'[t] = "returnedId") => InEffect(arg[t])'
<1>1. ASSUME CInv, [Next]_registryVars PROVE [Answer]_registryVars
  <2> SUFFICES ASSUME Next, NEW t \in Threads, pc[t] # pc'[t], pc'[t] = "returnedId"
               PROVE  InEffect(arg[t])'
    BY <1>1
  <2>1. PatchFound(t) \/ PatchRegister(t)
    <3>1. pc \in [Threads -> Resting \cup Entering \cup Locked]
      BY <1>1 DEF CInv, IInv, TypeOK
    <3>2. ~Provide
      BY DEF Provide
    <3>3. PICK u \in Threads : Call(u) \/ Enter(u) \/ Inside(u)
      BY <3>2, SMTT(20) DEF Next
    <3>4. PatchFound(u) \/ PatchRegister(u)
      <4>1. ~Goto(u, "enterPatch") /\ ~Goto(u, "threw") /\ ~Goto(u, "hook")
        BY <3>1 DEF Goto
      <4>2. ~Goto(u, "insert") /\ ~Goto(u, "register") /\ ~Goto(u, "enterRecover")
        BY <3>1 DEF Goto
      <4>3. ~Goto(u, "returnedFalse") /\ ~Goto(u, "remove") /\ ~Goto(u, "returnedTrue")
        BY <3>1 DEF Goto
      <4> QED
        BY <3>3, <4>1, <4>2, <4>3
        DEF Call, Enter, Inside, PatchCall, PatchNoKernel, PatchEnter, AddPatchHook,
            AddPatchHookThrows, AddPatchInsert, RecoverCall, RecoverAbsent, RecoverEnter,
            RecoverRemove
    <3>5. Goto(u, "returnedId")
      BY <3>4 DEF PatchFound, PatchRegister
    <3>6. u = t
      BY <3>1, <3>5 DEF Goto
    <3> QED BY <3>4, <3>6
  <2>2. InEffect(arg[t])
    <3>1. CASE PatchFound(t)
      BY <1>1, <3>1, PatchworkAssumption
      DEF PatchFound, CInv, IInv, TypeOK, RegisteredInEffect, Registered, Locked
    <3>2. CASE PatchRegister(t)
      BY <1>1, <3>2 DEF PatchRegister, CInv, UnderWayInEffect
    <3> QED BY <2>1, <3>1, <3>2
  <2>3. UNCHANGED <<arg, elements>>
    BY <2>1 DEF PatchFound, PatchRegister
  <2> QED BY <2>2, <2>3 DEF InEffect
<1> QED BY <1>1, CanonicalInvariance, PTL DEF Spec, PatchAnswersInEffect

-----------------------------------------------------------------------------
(* The order of the patches *)

\* compareTo keeps the contract Arrays.sort relies on, whatever the priorities
\* and the identity hashes are, colliding hashes included: the comparison
\* turned around has the opposite sign, and "not greater" is transitive.
THEOREM ComparatorContract ==
    ASSUME NEW p \in Patches, NEW q \in Patches, NEW r \in Patches
    PROVE  /\ CompareTo(p, q) = -CompareTo(q, p)
           /\ CompareTo(p, q) <= 0 /\ CompareTo(q, r) <= 0 => CompareTo(p, r) <= 0
<1>1. /\ Priority[p] \in Int /\ Priority[q] \in Int /\ Priority[r] \in Int
      /\ LoaderHash[p] \in Int /\ LoaderHash[q] \in Int /\ LoaderHash[r] \in Int
      /\ IdentityHash[p] \in Int /\ IdentityHash[q] \in Int /\ IdentityHash[r] \in Int
  BY SortableAssumption
<1>2. CompareTo(p, q) = -CompareTo(q, p)
  BY <1>1 DEF CompareTo
<1>3. ASSUME CompareTo(p, q) <= 0, CompareTo(q, r) <= 0 PROVE CompareTo(p, r) <= 0
  BY <1>1, <1>3 DEF CompareTo
<1> QED BY <1>2, <1>3

\* HigherPriorityFirst for one array.
Descending(s) == \A i, j \in DOMAIN s : i < j => Priority[s[i]] >= Priority[s[j]]

\* Arrays.sort puts the new element where the priorities stay in order.
LEMMA AddedDescending ==
    ASSUME NEW s \in Seq(Patches), NEW p \in Patches, NEW k \in 0..Len(s),
           Descending(s), SortsTo(s, p, k)
    PROVE  Descending(Added(s, p, k))
<1>1. \A q \in Patches : Priority[q] \in Int
  BY SortableAssumption
<1>2. ASSUME NEW i \in 1..k PROVE Priority[s[i]] >= Priority[p]
  <2>1. s[i] \in Patches
    OBVIOUS
  <2>2. CompareTo(s[i], p) <= 0
    BY DEF SortsTo
  <2> QED BY <1>1, <2>1, <2>2 DEF CompareTo
<1>3. ASSUME NEW i \in k+1..Len(s) PROVE Priority[p] >= Priority[s[i]]
  <2>1. s[i] \in Patches
    OBVIOUS
  <2>2. CompareTo(s[i], p) > 0
    BY DEF SortsTo
  <2> QED BY <1>1, <2>1, <2>2 DEF CompareTo
<1> DEFINE a == Added(s, p, k)
<1>4. DOMAIN a = 1..Len(s)+1
  BY DEF Added
<1> SUFFICES ASSUME NEW i \in 1..Len(s)+1, NEW j \in 1..Len(s)+1, i < j
             PROVE  Priority[a[i]] >= Priority[a[j]]
  BY <1>4 DEF Descending
<1>5. CASE j <= k
  BY <1>5 DEF Added, Descending
<1>6. CASE j = k + 1
  BY <1>2, <1>6 DEF Added
<1>7. CASE j > k + 1 /\ i <= k
  BY <1>7 DEF Added, Descending
<1>8. CASE j > k + 1 /\ i = k + 1
  BY <1>3, <1>8 DEF Added
<1>9. CASE j > k + 1 /\ i > k + 1
  BY <1>9 DEF Added, Descending
<1> QED BY <1>5, <1>6, <1>7, <1>8, <1>9

\* Taking an element out leaves the priorities in order.
LEMMA RemovedDescending ==
    ASSUME NEW s \in Seq(Patches), NEW k \in DOMAIN s, Descending(s)
    PROVE  Descending(Removed(s, k))
<1> DEFINE r == Removed(s, k)
<1>1. DOMAIN r = 1..Len(s)-1
  BY DEF Removed
<1> SUFFICES ASSUME NEW i \in 1..Len(s)-1, NEW j \in 1..Len(s)-1, i < j
             PROVE  Priority[r[i]] >= Priority[r[j]]
  BY <1>1 DEF Descending
<1>2. CASE j < k
  BY <1>2 DEF Removed, Descending
<1>3. CASE j >= k /\ i < k
  BY <1>3 DEF Removed, Descending
<1>4. CASE i >= k
  BY <1>4 DEF Removed, Descending
<1> QED BY <1>2, <1>3, <1>4

\* HigherPriorityFirst: in every array a hooked function can read, patches of a
\* higher priority come first.
THEOREM PriorityOrder == Spec => []HigherPriorityFirst
<1>1. Init => HigherPriorityFirst
  BY DEF Init, HigherPriorityFirst
<1>2. ASSUME IInv, HigherPriorityFirst, [Next]_registryVars PROVE HigherPriorityFirst'
  <2>1. \A f \in Funcs : Descending(elements[f])
    BY <1>2 DEF HigherPriorityFirst, Descending
  <2> SUFFICES ASSUME NEW f \in Funcs PROVE Descending(elements'[f])
    BY DEF HigherPriorityFirst, Descending
  <2>2. elements[f] \in Seq(Patches)
    BY <1>2 DEF IInv, TypeOK
  <2>3. CASE UNCHANGED elements
    BY <2>1, <2>3
  <2>4. ASSUME NEW t \in Threads, AddPatchInsert(t), elements' # elements
        PROVE  Descending(elements'[f])
    <3> DEFINE g == FuncOf[arg[t][1]]
    <3>1. arg[t] \in Pairs
      BY <1>2, <2>4 DEF IInv, TypeOK, AddPatchInsert, Locked
    <3>2. PICK k \in 0..Len(elements[g]) :
             /\ SortsTo(elements[g], arg[t][2], k)
             /\ elements' = [elements EXCEPT ![g] = Added(@, arg[t][2], k)]
      BY <2>4 DEF AddPatchInsert
    <3>3. CASE f = g
      <4>1. Descending(Added(elements[f], arg[t][2], k))
        BY <2>1, <2>2, <3>1, <3>2, <3>3, AddedDescending DEF Pairs
      <4> QED BY <1>2, <3>2, <3>3, <4>1 DEF IInv, TypeOK
    <3>4. CASE f # g
      BY <1>2, <2>1, <3>2, <3>4 DEF IInv, TypeOK
    <3> QED BY <3>3, <3>4
  <2>5. ASSUME NEW t \in Threads, RecoverRemove(t), elements' # elements
        PROVE  Descending(elements'[f])
    <3> DEFINE g == FuncOf[arg[t][1]]
    <3>1. PICK k \in DOMAIN elements[g] :
             elements' = [elements EXCEPT ![g] = Removed(@, k)]
      BY <2>5 DEF RecoverRemove
    <3>2. CASE f = g
      <4>1. Descending(Removed(elements[f], k))
        BY <2>1, <2>2, <3>1, <3>2, RemovedDescending
      <4> QED BY <1>2, <3>1, <3>2, <4>1 DEF IInv, TypeOK
    <3>3. CASE f # g
      BY <1>2, <2>1, <3>1, <3>3 DEF IInv, TypeOK
    <3> QED BY <3>2, <3>3
  <2> QED
    BY <1>2, <2>3, <2>4, <2>5
    DEF Next, Call, Enter, Inside, Provide, PatchCall, PatchFound, PatchNoKernel, PatchEnter,
        AddPatchHook, AddPatchHookThrows, PatchRegister, RecoverCall, RecoverAbsent,
        RecoverEnter, registryVars
<1> QED BY <1>1, <1>2, Invariance, PTL DEF Spec

-----------------------------------------------------------------------------
(***************************************************************************)
(* Patchwork implements the safety part of Registry for every instance     *)
(* whose Member objects are canonical: insert is Start, the registration   *)
(* of the id HandOut, the removal of the id GiveBack, the removal from the *)
(* array Stop, and every other step leaves the abstract state alone.       *)
(***************************************************************************)

(* The pair under way *)

\* One thread at the label: its pair is the one under way.
LEMMA PairAtOne ==
    ASSUME NEW pcs, NEW args, NEW label, NEW t \in Threads,
           pcs[t] = label, \A u \in Threads : pcs[u] = label => u = t
    PROVE  PairAt(pcs, args, label) = Function(args[t])
<1>1. (CHOOSE u \in Threads : pcs[u] = label) = t
  OBVIOUS
<1> QED BY <1>1 DEF PairAt

\* Nobody at the label: no pair is under way.
LEMMA PairAtNone ==
    ASSUME NEW pcs, NEW args, NEW label, \A u \in Threads : pcs[u] # label
    PROVE  PairAt(pcs, args, label) = Null
BY DEF PairAt

\* A step that moves no thread to or from the label, and leaves the pair of a
\* thread at the label alone, leaves the pair under way alone.
LEMMA PairAtSame ==
    ASSUME NEW pcs, NEW args, NEW pcs2, NEW args2, NEW label,
           \A u, v \in Threads : pcs[u] = label /\ pcs[v] = label => u = v,
           \A u \in Threads : pcs2[u] = label <=> pcs[u] = label,
           \A u \in Threads : pcs[u] = label => args2[u] = args[u]
    PROVE  PairAt(pcs2, args2, label) = PairAt(pcs, args, label)
<1>1. CASE \E t \in Threads : pcs[t] = label
  <2>1. PICK t \in Threads : pcs[t] = label
    BY <1>1
  <2>2. PairAt(pcs, args, label) = Function(args[t])
    BY <2>1, PairAtOne
  <2>3. PairAt(pcs2, args2, label) = Function(args2[t])
    BY <2>1, PairAtOne
  <2> QED BY <2>1, <2>2, <2>3
<1>2. CASE ~\E t \in Threads : pcs[t] = label
  BY <1>2, PairAtNone
<1> QED BY <1>1, <1>2

\* What a pair denotes is a pair of the abstract specification, never Null.
LEMMA FunctionOfPair ==
    ASSUME NEW pair \in Pairs
    PROVE  /\ Function(pair) = <<FuncOf[pair[1]], pair[2]>>
           /\ Function(pair) \in Funcs \X Patches
           /\ Function(pair) # Null
<1>1. pair # Null /\ pair[1] \in Members /\ pair[2] \in Patches
  BY PatchworkAssumption DEF Pairs
<1>2. FuncOf[pair[1]] \in Funcs
  BY <1>1, PatchworkAssumption
<1> QED BY <1>1, <1>2, RefinementAssumption DEF Function

\* Adding p to f's array adds one pair to the pairs that run.
LEMMA RunningAfterAdd ==
    ASSUME NEW els, NEW els2, NEW f \in Funcs, NEW p \in Patches,
           \A g \in Funcs : g # f => els2[g] = els[g],
           Content(els2[f]) = Content(els[f]) \cup {p}
    PROVE  RunningIn(els2) = RunningIn(els) \cup {<<f, p>>}
<1>1. ASSUME NEW g \in Funcs, NEW q \in Patches
      PROVE  q \in Content(els2[g]) <=> q \in Content(els[g]) \/ (g = f /\ q = p)
  OBVIOUS
<1> QED BY <1>1 DEF RunningIn

\* Taking p out of f's array takes one pair out.
LEMMA RunningAfterRemove ==
    ASSUME NEW els, NEW els2, NEW f \in Funcs, NEW p \in Patches,
           \A g \in Funcs : g # f => els2[g] = els[g],
           Content(els2[f]) = Content(els[f]) \ {p}
    PROVE  RunningIn(els2) = RunningIn(els) \ {<<f, p>>}
<1>1. ASSUME NEW g \in Funcs, NEW q \in Patches
      PROVE  q \in Content(els2[g]) <=> q \in Content(els[g]) /\ ~(g = f /\ q = p)
  OBVIOUS
<1> QED BY <1>1 DEF RunningIn

-----------------------------------------------------------------------------
(* One lemma per kind of step *)

\* A step that touches neither arrays nor ids and brings no thread to the
\* second step of patch or recover is invisible.
LEMMA Invisible ==
    ASSUME CInv, NEW t \in Threads, pc[t] \notin {"register", "remove"},
           NEW label, label \notin {"register", "remove"}, Goto(t, label),
           \A u \in Threads : u # t => arg'[u] = arg[u],
           UNCHANGED <<pairs, count, elements>>
    PROVE  UNCHANGED <<RunningIn(elements), TableOf(pairs), count,
                       PairAt(pc, arg, "register"), PairAt(pc, arg, "remove")>>
<1>1. pc \in [Threads -> Resting \cup Entering \cup Locked]
  BY DEF CInv, IInv, TypeOK
<1>2. \A u, v \in Threads : pc[u] \in {"register", "remove"} /\ pc[v] \in {"register", "remove"} => u = v
  BY DEF CInv, IInv, OwnerInside, Locked
<1>3. /\ \A u \in Threads : pc'[u] = "register" <=> pc[u] = "register"
      /\ \A u \in Threads : pc'[u] = "remove" <=> pc[u] = "remove"
  BY <1>1 DEF Goto
<1>4. \A u \in Threads : pc[u] \in {"register", "remove"} => arg'[u] = arg[u]
  OBVIOUS
<1>5. PairAt(pc', arg', "register") = PairAt(pc, arg, "register")
  BY <1>2, <1>3, <1>4, PairAtSame
<1>6. PairAt(pc', arg', "remove") = PairAt(pc, arg, "remove")
  BY <1>2, <1>3, <1>4, PairAtSame
<1> QED BY <1>5, <1>6

\* addPatch's insertion into the array is Start.
LEMMA InsertIsStart ==
    ASSUME Canonical, CInv, NEW t \in Threads, AddPatchInsert(t)
    PROVE  \E pair \in Funcs \X Patches : Abstract!Start(pair)
<1>1. /\ TypeOK /\ pc[t] = "insert" /\ arg[t] \in Pairs /\ arg[t] # Null
      /\ pc \in [Threads -> Resting \cup Entering \cup Locked]
      /\ \A u \in Threads : u # t => pc[u] \notin Locked
      /\ pc' = [pc EXCEPT ![t] = "register"]
      /\ UNCHANGED <<arg, pairs, count>>
  BY DEF AddPatchInsert, Goto, CInv, IInv, TypeOK, OwnerInside, Locked
<1>2. PICK f \in Funcs, p \in Patches :
         f = FuncOf[arg[t][1]] /\ p = arg[t][2] /\ elements[f] \in Seq(Patches)
  BY <1>1, PatchworkAssumption DEF TypeOK, Pairs
<1>3. p \notin Content(elements[f])
  <2> SUFFICES ASSUME p \in Content(elements[f]) PROVE FALSE
    OBVIOUS
  <2>1. ~\E u \in Threads : pc[u] \in {"register", "remove"} /\ IsFor(arg[u], f, p)
    BY <1>1 DEF Locked
  <2>2. PICK id \in Ids : pairs[id] # Null /\ IsFor(pairs[id], f, p)
    BY <1>2, <2>1 DEF CInv, IInv, NoGhost
  <2>3. pairs[id] = arg[t]
    <3>1. pairs[id] \in Pairs
      BY <1>1, <2>2 DEF TypeOK
    <3>2. pairs[id][1] = arg[t][1] /\ pairs[id][2] = arg[t][2]
      BY <1>1, <1>2, <2>2, <3>1 DEF IsFor, Canonical, Pairs
    <3> QED BY <1>1, <3>1, <3>2 DEF Pairs
  <2> QED BY <1>1, <2>2, <2>3 DEF CInv, OneIdEach, Registered, Locked
<1>4. PICK k \in 0..Len(elements[f]) : elements' = [elements EXCEPT ![f] = Added(@, p, k)]
  BY <1>2, <1>3 DEF AddPatchInsert
<1>5. Content(elements'[f]) = Content(elements[f]) \cup {p}
  <2>1. elements'[f] = Added(elements[f], p, k)
    BY <1>1, <1>2, <1>4 DEF TypeOK
  <2> QED BY <1>2, <2>1, AddedFacts, SMTT(20)
<1>6. \A g \in Funcs : g # f => elements'[g] = elements[g]
  BY <1>1, <1>4 DEF TypeOK
<1>7. RunningIn(elements') = RunningIn(elements) \cup {<<f, p>>}
  BY <1>5, <1>6, RunningAfterAdd
<1>8. <<f, p>> \in Funcs \X Patches /\ <<f, p>> \notin RunningIn(elements)
  BY <1>2, <1>3 DEF RunningIn
<1>9. /\ PairAt(pc, arg, "register") = Null /\ PairAt(pc, arg, "remove") = Null
      /\ PairAt(pc', arg', "remove") = Null
  <2>1. \A u \in Threads : pc[u] # "register" /\ pc[u] # "remove" /\ pc'[u] # "remove"
    BY <1>1 DEF Locked
  <2> QED BY <2>1, PairAtNone
<1>10. PairAt(pc', arg', "register") = <<f, p>>
  <2>1. /\ pc'[t] = "register"
        /\ \A u \in Threads : pc'[u] = "register" => u = t
    BY <1>1 DEF Locked
  <2>2. PairAt(pc', arg', "register") = Function(arg'[t])
    BY <2>1, PairAtOne
  <2> QED BY <1>1, <1>2, <2>2, FunctionOfPair
<1>11. Abstract!Start(<<f, p>>)
  BY <1>1, <1>7, <1>8, <1>9, <1>10 DEF Abstract!Start, Abstract!Settled
<1> QED BY <1>8, <1>11

\* Registering the pair under the next id is HandOut.
LEMMA RegisterIsHandOut ==
    ASSUME CInv, NEW t \in Threads, PatchRegister(t)
    PROVE  Abstract!HandOut
<1>1. /\ TypeOK /\ pc[t] = "register" /\ arg[t] \in Pairs
      /\ pc \in [Threads -> Resting \cup Entering \cup Locked]
      /\ \A u \in Threads : u # t => pc[u] \notin Locked
      /\ pc' = [pc EXCEPT ![t] = "returnedId"]
      /\ pairs' = [pairs EXCEPT ![count + 1] = arg[t]]
      /\ count' = count + 1 /\ count + 1 \in Ids
      /\ UNCHANGED <<arg, elements>>
  <2>1. TypeOK /\ pc[t] = "register" /\ OwnerInside /\ IdsInOrder
    BY DEF PatchRegister, CInv, IInv
  <2>2. \A u \in Threads : u # t => pc[u] \notin Locked
    BY <2>1 DEF OwnerInside, Locked
  <2>3. arg[t] \in Pairs /\ pc \in [Threads -> Resting \cup Entering \cup Locked]
    BY <2>1 DEF TypeOK, Locked
  <2>4. count + 1 \in Ids
    BY <2>1, PatchworkAssumption DEF IdsInOrder, TypeOK, Ids
  <2> QED BY <2>1, <2>2, <2>3, <2>4 DEF PatchRegister, Goto
<1>2. PairAt(pc, arg, "register") = Function(arg[t]) /\ Function(arg[t]) # Null
  <2>1. pc[t] = "register" /\ \A u \in Threads : pc[u] = "register" => u = t
    BY <1>1 DEF Locked
  <2>2. PairAt(pc, arg, "register") = Function(arg[t])
    BY <2>1, PairAtOne
  <2> QED BY <1>1, <2>2, FunctionOfPair
<1>3. /\ PairAt(pc', arg', "register") = Null
      /\ PairAt(pc, arg, "remove") = Null /\ PairAt(pc', arg', "remove") = Null
  <2>1. \A u \in Threads : pc'[u] # "register" /\ pc[u] # "remove" /\ pc'[u] # "remove"
    BY <1>1 DEF Locked
  <2> QED BY <2>1, PairAtNone
<1>4. TableOf(pairs') = [TableOf(pairs) EXCEPT ![count + 1] = Function(arg[t])]
  BY <1>1 DEF TableOf, TypeOK
<1> QED BY <1>1, <1>2, <1>3, <1>4 DEF Abstract!HandOut

\* pairs.remove(id) is GiveBack.
LEMMA RecoverIsGiveBack ==
    ASSUME CInv, NEW t \in Threads, RecoverEnter(t)
    PROVE  \E id \in Ids : Abstract!GiveBack(id)
<1>1. /\ TypeOK /\ pc[t] = "enterRecover" /\ handle[t] \in Ids
      /\ pairs[handle[t]] \in Pairs
      /\ pc \in [Threads -> Resting \cup Entering \cup Locked]
      /\ arg' = [arg EXCEPT ![t] = pairs[handle[t]]]
      /\ pairs' = [pairs EXCEPT ![handle[t]] = Null]
      /\ \A u \in Threads : pc[u] \notin Locked
      /\ pc' = [pc EXCEPT ![t] = "remove"]
      /\ UNCHANGED <<count, elements>>
  BY PatchworkAssumption DEF RecoverEnter, Goto, CInv, IInv, TypeOK, OwnerInside, Locked, Ids
<1>2. /\ PairAt(pc, arg, "register") = Null /\ PairAt(pc, arg, "remove") = Null
      /\ PairAt(pc', arg', "register") = Null
  <2>1. \A u \in Threads : pc[u] # "register" /\ pc[u] # "remove" /\ pc'[u] # "register"
    BY <1>1 DEF Locked
  <2> QED BY <2>1, PairAtNone
<1>3. /\ TableOf(pairs)[handle[t]] = Function(pairs[handle[t]])
      /\ Function(pairs[handle[t]]) # Null
  BY <1>1, FunctionOfPair DEF TableOf
<1>4. PairAt(pc', arg', "remove") = Function(pairs[handle[t]])
  <2>1. /\ pc'[t] = "remove" /\ arg'[t] = pairs[handle[t]]
        /\ \A u \in Threads : pc'[u] = "remove" => u = t
    BY <1>1 DEF Locked, TypeOK
  <2> QED BY <2>1, PairAtOne
<1>5. TableOf(pairs') = [TableOf(pairs) EXCEPT ![handle[t]] = Null]
  BY <1>1 DEF TableOf, TypeOK, Function
<1>6. Abstract!GiveBack(handle[t])
  BY <1>1, <1>2, <1>3, <1>4, <1>5 DEF Abstract!GiveBack, Abstract!Settled
<1> QED BY <1>1, <1>6

\* removePatch's removal from the array is Stop.
LEMMA RemoveIsStop ==
    ASSUME CInv, NEW t \in Threads, RecoverRemove(t)
    PROVE  Abstract!Stop
<1>1. /\ TypeOK /\ ArraysOK /\ pc[t] = "remove" /\ arg[t] \in Pairs
      /\ pc \in [Threads -> Resting \cup Entering \cup Locked]
      /\ \A u \in Threads : u # t => pc[u] \notin Locked
      /\ pc' = [pc EXCEPT ![t] = "returnedTrue"]
      /\ UNCHANGED <<arg, pairs, count>>
  BY DEF RecoverRemove, Goto, CInv, IInv, TypeOK, OwnerInside, Locked
<1>2. PICK f \in Funcs, p \in Patches :
         /\ f = FuncOf[arg[t][1]] /\ p = arg[t][2]
         /\ elements[f] \in Seq(Patches) /\ Distinct(elements[f])
  BY <1>1, PatchworkAssumption DEF TypeOK, ArraysOK, Pairs
<1>3. p \in Content(elements[f])
  BY <1>1, <1>2 DEF CInv, UnderWayInEffect, InEffect
<1>4. f \in hooked
  BY <1>1, <1>2, <1>3, SMTT(20) DEF ArraysOK, Content
<1>5. PICK k \in DOMAIN elements[f] :
         elements[f][k] = p /\ elements' = [elements EXCEPT ![f] = Removed(@, k)]
  BY <1>2, <1>3, <1>4 DEF RecoverRemove
<1>6. Content(elements'[f]) = Content(elements[f]) \ {p}
  <2>1. elements'[f] = Removed(elements[f], k)
    BY <1>1, <1>2, <1>5 DEF TypeOK
  <2> QED BY <1>2, <1>5, <2>1, RemovedFacts
<1>7. \A g \in Funcs : g # f => elements'[g] = elements[g]
  BY <1>1, <1>5 DEF TypeOK
<1>8. RunningIn(elements') = RunningIn(elements) \ {<<f, p>>}
  BY <1>6, <1>7, RunningAfterRemove
<1>9. PairAt(pc, arg, "remove") = <<f, p>> /\ <<f, p>> # Null
  <2>1. pc[t] = "remove" /\ \A u \in Threads : pc[u] = "remove" => u = t
    BY <1>1 DEF Locked
  <2>2. PairAt(pc, arg, "remove") = Function(arg[t])
    BY <2>1, PairAtOne
  <2> QED BY <1>1, <1>2, <2>2, FunctionOfPair
<1>10. /\ PairAt(pc', arg', "remove") = Null
       /\ PairAt(pc, arg, "register") = Null /\ PairAt(pc', arg', "register") = Null
  <2>1. \A u \in Threads : pc'[u] # "remove" /\ pc[u] # "register" /\ pc'[u] # "register"
    BY <1>1 DEF Locked
  <2> QED BY <2>1, PairAtNone
<1> QED BY <1>1, <1>8, <1>9, <1>10 DEF Abstract!Stop

-----------------------------------------------------------------------------

\* ImplementsRegistry without its fairness: seen from outside, patch and
\* recover take no step but those of Registry.  A pair starts to run before it
\* has an id and loses its id before it stops, one at a time, and no id stands
\* for two pairs in turn, for any number of threads, members and patches.
THEOREM RegistrySafety == ASSUME Canonical PROVE Spec => Abstract!Safety
<1>1. Init => Abstract!Init
  <2> SUFFICES ASSUME Init PROVE Abstract!Init
    OBVIOUS
  <2>1. RunningIn(elements) = {}
    BY DEF Init, RunningIn, Content
  <2>2. TableOf(pairs) = [id \in Ids |-> Null]
    BY DEF Init, TableOf, Function
  <2>3. PairAt(pc, arg, "register") = Null /\ PairAt(pc, arg, "remove") = Null
    BY PairAtNone DEF Init
  <2> QED BY <2>1, <2>2, <2>3 DEF Init, Abstract!Init
<1>2. ASSUME CInv, [Next]_registryVars PROVE [Abstract!Next]_(Abstract!vars)
  <2> DEFINE Same == UNCHANGED <<RunningIn(elements), TableOf(pairs), count,
                       PairAt(pc, arg, "register"), PairAt(pc, arg, "remove")>>
  <2>1. CASE UNCHANGED registryVars
    <3>1. Same
      BY <2>1 DEF registryVars
    <3> QED BY <3>1 DEF Abstract!vars
  <2>2. CASE Provide
    <3>1. Same
      BY <2>2 DEF Provide
    <3> QED BY <3>1 DEF Abstract!vars
  <2>3. ASSUME NEW t \in Threads, Call(t) \/ Enter(t) \/ Inside(t)
        PROVE  [Abstract!Next]_(Abstract!vars)
    <3>0. TypeOK
      BY <1>2 DEF CInv, IInv
    <3>1. CASE AddPatchInsert(t)
      BY <1>2, <3>1, Canonical, InsertIsStart DEF Abstract!Next
    <3>2. CASE PatchRegister(t)
      BY <1>2, <3>2, RegisterIsHandOut DEF Abstract!Next
    <3>3. CASE RecoverEnter(t)
      BY <1>2, <3>3, RecoverIsGiveBack DEF Abstract!Next
    <3>4. CASE RecoverRemove(t)
      BY <1>2, <3>4, RemoveIsStop DEF Abstract!Next
    <3>5. CASE PatchCall(t) \/ RecoverCall(t)
      <4>1. Same
        BY <1>2, <3>0, <3>5, Invisible DEF PatchCall, RecoverCall, Resting, TypeOK
      <4> QED BY <4>1 DEF Abstract!vars
    <3>6. CASE PatchFound(t) \/ PatchNoKernel(t) \/ PatchEnter(t) \/ RecoverAbsent(t)
      <4>1. Same
        BY <1>2, <3>6, Invisible DEF PatchFound, PatchNoKernel, PatchEnter, RecoverAbsent
      <4> QED BY <4>1 DEF Abstract!vars
    <3>7. CASE AddPatchHook(t) \/ AddPatchHookThrows(t)
      <4>1. Same
        BY <1>2, <3>7, Invisible DEF AddPatchHook, AddPatchHookThrows
      <4> QED BY <4>1 DEF Abstract!vars
    <3> QED BY <2>3, <3>1, <3>2, <3>3, <3>4, <3>5, <3>6, <3>7 DEF Call, Enter, Inside
  <2> QED BY <1>2, <2>1, <2>2, <2>3 DEF Next
<1> QED BY <1>1, <1>2, CanonicalInvariance, PTL DEF Spec, Abstract!Safety

-----------------------------------------------------------------------------
(* Calls of hooked functions *)

\* What the dispatch invariants say of one frame.
FrameOK(r) ==
    /\ r \in Frame
    /\ r.phase # "direct" => r.index \in 1..Len(r.patches) /\ r.open = SubSeq(r.patches, 1, r.index)
    /\ r.phase = "direct" => r.open = << >>
    /\ r.phase = "after" => (r.returned = Value <=> r.thrown = None)
    /\ r.phase = "original" => r.returned = Unset /\ r.thrown = None
    /\ r.phase = "before" => ~(r.returned = Value /\ r.thrown = Error)

\* All frames of all threads are so, and nobody was given the sentinel.
StacksOK ==
    /\ stack \in [Threads -> Seq(Frame)]
    /\ outcome \in [Threads -> {Value, None, Error}]
    /\ \A t \in Threads : Len(stack[t]) <= MaxDepth
    /\ \A t \in Threads : \A i \in 1..Len(stack[t]) : FrameOK(stack[t][i])

DInv == IInv /\ StacksOK

-----------------------------------------------------------------------------

\* DispatchSpec only observes the registry: its steps are steps of Patchwork
\* or leave the registry alone.
LEMMA DispatchStepsRegistry == [DispatchNext]_vars => [Next]_registryVars
BY DEF DispatchNext, vars, Registry, Invoke, SetReturned, SetThrown, Done, BeforeDone,
   OriginalDone, AfterDone, DirectDone

\* The snapshot discipline: starting one more callback, or ending the one that
\* runs, moves the open calls to the next or the previous prefix.
LEMMA PrefixFacts ==
    ASSUME NEW s \in Seq(Patches), NEW i \in 1..Len(s)
    PROVE  /\ SubSeq(s, 1, i) \in Seq(Patches)
           /\ Len(SubSeq(s, 1, i)) = i
           /\ SubSeq(s, 1, i)[i] = s[i]
           /\ SubSeq(SubSeq(s, 1, i), 1, i - 1) = SubSeq(s, 1, i - 1)
           /\ i < Len(s) => Append(SubSeq(s, 1, i), s[i + 1]) = SubSeq(s, 1, i + 1)
           /\ <<s[1]>> = SubSeq(s, 1, 1)
<1>1. /\ SubSeq(s, 1, i) \in Seq(Patches) /\ Len(SubSeq(s, 1, i)) = i
      /\ SubSeq(s, 1, i)[i] = s[i]
  OBVIOUS
<1>2. SubSeq(SubSeq(s, 1, i), 1, i - 1) = SubSeq(s, 1, i - 1)
  OBVIOUS
<1>3. i < Len(s) => Append(SubSeq(s, 1, i), s[i + 1]) = SubSeq(s, 1, i + 1)
  OBVIOUS
<1>4. <<s[1]>> = SubSeq(s, 1, 1)
  OBVIOUS
<1> QED BY <1>1, <1>2, <1>3, <1>4

\* Replacing the innermost frame by one that is in order keeps stacks in order.
LEMMA SetTopOK ==
    ASSUME StacksOK, NEW t \in Threads, stack[t] # << >>, NEW r, FrameOK(r),
           SetTop(t, r), outcome' = outcome
    PROVE  StacksOK'
<1> DEFINE n == Len(stack[t])
<1>1. stack[t] \in Seq(Frame) /\ n \in Nat \ {0} /\ r \in Frame
  BY DEF StacksOK, FrameOK
<1>2. /\ Pop(t) \in Seq(Frame) /\ Len(Pop(t)) = n - 1
      /\ \A i \in 1..n-1 : Pop(t)[i] = stack[t][i]
  BY <1>1 DEF Pop
<1>3. /\ Append(Pop(t), r) \in Seq(Frame) /\ Len(Append(Pop(t), r)) = n
      /\ \A i \in 1..n-1 : Append(Pop(t), r)[i] = stack[t][i]
      /\ Append(Pop(t), r)[n] = r
  BY <1>1, <1>2
<1>4. /\ stack' \in [Threads -> Seq(Frame)]
      /\ stack'[t] = Append(Pop(t), r)
      /\ \A u \in Threads : u # t => stack'[u] = stack[u]
  BY <1>3 DEF SetTop, StacksOK
<1>5. ASSUME NEW u \in Threads
      PROVE  Len(stack'[u]) <= MaxDepth /\ \A i \in 1..Len(stack'[u]) : FrameOK(stack'[u][i])
  <2>1. CASE u # t
    BY <1>4, <2>1 DEF StacksOK
  <2>2. CASE u = t
    <3>1. Len(stack'[u]) = n /\ n <= MaxDepth
      BY <1>3, <1>4, <2>2 DEF StacksOK
    <3>2. ASSUME NEW i \in 1..n PROVE FrameOK(stack'[u][i])
      <4>1. CASE i = n
        BY <1>3, <1>4, <2>2, <4>1
      <4>2. CASE i # n
        <5>1. i \in 1..n-1 /\ i \in 1..Len(stack[t])
          BY <1>1, <4>2
        <5> QED BY <1>3, <1>4, <2>2, <5>1 DEF StacksOK
      <4> QED BY <4>1, <4>2
    <3> QED BY <3>1, <3>2
  <2> QED BY <2>1, <2>2
<1> QED BY <1>4, <1>5 DEF StacksOK

\* Ending the innermost call with a value or a Throwable keeps them in order.
LEMMA PopOK ==
    ASSUME StacksOK, NEW t \in Threads, stack[t] # << >>, NEW ending \in {Value, Error},
           stack' = [stack EXCEPT ![t] = Pop(t)], outcome' = [outcome EXCEPT ![t] = ending]
    PROVE  StacksOK'
<1> DEFINE n == Len(stack[t])
<1>1. stack[t] \in Seq(Frame) /\ n \in Nat \ {0}
  BY DEF StacksOK
<1>2. /\ Pop(t) \in Seq(Frame) /\ Len(Pop(t)) = n - 1
      /\ \A i \in 1..n-1 : Pop(t)[i] = stack[t][i]
  BY <1>1 DEF Pop
<1>3. /\ stack' \in [Threads -> Seq(Frame)]
      /\ stack'[t] = Pop(t)
      /\ \A u \in Threads : u # t => stack'[u] = stack[u]
  BY <1>2 DEF StacksOK
<1>4. outcome' \in [Threads -> {Value, None, Error}]
  BY DEF StacksOK
<1>5. ASSUME NEW u \in Threads
      PROVE  Len(stack'[u]) <= MaxDepth /\ \A i \in 1..Len(stack'[u]) : FrameOK(stack'[u][i])
  <2>1. CASE u # t
    BY <1>3, <2>1 DEF StacksOK
  <2>2. CASE u = t
    <3>1. Len(stack'[u]) = n - 1 /\ n <= MaxDepth
      BY <1>2, <1>3, <2>2 DEF StacksOK
    <3>2. ASSUME NEW i \in 1..n-1 PROVE FrameOK(stack'[u][i])
      <4>1. stack'[u][i] = stack[t][i] /\ i \in 1..Len(stack[t])
        BY <1>1, <1>2, <1>3, <2>2
      <4> QED BY <4>1 DEF StacksOK
    <3> QED BY <1>1, <3>1, <3>2, DispatchAssumption
  <2> QED BY <2>1, <2>2
<1> QED BY <1>3, <1>4, <1>5 DEF StacksOK

-----------------------------------------------------------------------------
(* DInv is inductive *)

\* No call is under way at the start.
LEMMA DispatchInitOK == DispatchInit => DInv
<1> SUFFICES ASSUME DispatchInit PROVE DInv
  OBVIOUS
<1>1. IInv
  BY InitIInv DEF DispatchInit
<1>2. stack \in [Threads -> Seq(Frame)] /\ \A t \in Threads : Len(stack[t]) = 0
  BY DEF DispatchInit
<1>3. outcome \in [Threads -> {Value, None, Error}]
  BY DEF DispatchInit
<1> QED BY <1>1, <1>2, <1>3, DispatchAssumption DEF DInv, StacksOK

\* Calls, setters, callbacks and registry steps keep every frame in order.
LEMMA DispatchNextOK == DInv /\ [DispatchNext]_vars => DInv'
<1> SUFFICES ASSUME DInv, [DispatchNext]_vars PROVE DInv'
  OBVIOUS
<1>i. IInv'
  BY DispatchStepsRegistry, NextIInv DEF DInv
<1>s. StacksOK
  BY DEF DInv
<1> SUFFICES StacksOK'
  BY <1>i DEF DInv
<1>1. CASE UNCHANGED <<stack, outcome>>
  BY <1>s, <1>1 DEF StacksOK
<1>2. ASSUME NEW t \in Threads, Invoke(t) PROVE StacksOK'
  <2>1. PICK f \in hooked :
          stack' = [stack EXCEPT ![t] = Append(@,
                 [func |-> f, patches |-> elements[f], index |-> 1,
                  phase |-> IF elements[f] = << >> THEN "direct" ELSE "before",
                  returned |-> Unset, thrown |-> None,
                  open |-> IF elements[f] = << >> THEN << >> ELSE <<elements[f][1]>>])]
    BY <1>2 DEF Invoke
  <2> DEFINE r == [func |-> f, patches |-> elements[f], index |-> 1,
                  phase |-> IF elements[f] = << >> THEN "direct" ELSE "before",
                  returned |-> Unset, thrown |-> None,
                  open |-> IF elements[f] = << >> THEN << >> ELSE <<elements[f][1]>>]
             n == Len(stack[t])
  <2>2. f \in Funcs /\ elements[f] \in Seq(Patches)
    BY DEF DInv, IInv, TypeOK
  <2>3. FrameOK(r)
    <3>1. CASE elements[f] = << >>
      BY <2>2, <3>1 DEF FrameOK, Frame, Unset, None, Value, Error
    <3>2. CASE elements[f] # << >>
      <4>1. 1 \in 1..Len(elements[f]) /\ elements[f][1] \in Patches
        BY <2>2, <3>2
      <4>2. <<elements[f][1]>> = SubSeq(elements[f], 1, 1) /\ <<elements[f][1]>> \in Seq(Patches)
        BY <2>2, <4>1, PrefixFacts
      <4> QED BY <2>2, <3>2, <4>1, <4>2 DEF FrameOK, Frame, Unset, None, Value, Error
    <3> QED BY <3>1, <3>2
  <2>4. r \in Frame
    BY <2>3 DEF FrameOK
  <2> HIDE DEF r
  <2>5. stack[t] \in Seq(Frame) /\ n < MaxDepth /\ n \in Nat
    BY <1>2, <1>s DEF Invoke, StacksOK
  <2>6. /\ Append(stack[t], r) \in Seq(Frame) /\ Len(Append(stack[t], r)) = n + 1
        /\ \A i \in 1..n : Append(stack[t], r)[i] = stack[t][i]
        /\ Append(stack[t], r)[n + 1] = r
    BY <2>4, <2>5
  <2>7. stack' = [stack EXCEPT ![t] = Append(@, r)]
    BY <2>1 DEF r
  <2>8. /\ stack' \in [Threads -> Seq(Frame)]
        /\ stack'[t] = Append(stack[t], r)
        /\ \A u \in Threads : u # t => stack'[u] = stack[u]
    BY <1>s, <2>6, <2>7 DEF StacksOK
  <2>9. ASSUME NEW u \in Threads
        PROVE  Len(stack'[u]) <= MaxDepth /\ \A i \in 1..Len(stack'[u]) : FrameOK(stack'[u][i])
    <3>1. CASE u # t
      BY <1>s, <2>8, <3>1 DEF StacksOK
    <3>2. CASE u = t
      <4>1. Len(stack'[u]) = n + 1 /\ n + 1 <= MaxDepth
        BY <2>5, <2>6, <2>8, <3>2, DispatchAssumption
      <4>2. ASSUME NEW i \in 1..n+1 PROVE FrameOK(stack'[u][i])
        <5>1. CASE i = n + 1
          BY <2>3, <2>6, <2>8, <3>2, <5>1
        <5>2. CASE i # n + 1
          <6>1. i \in 1..n
            BY <2>5, <5>2
          <6> QED BY <1>s, <2>6, <2>8, <3>2, <6>1 DEF StacksOK
        <5> QED BY <5>1, <5>2
      <4> QED BY <4>1, <4>2
    <3> QED BY <3>1, <3>2
  <2> QED BY <1>2, <1>s, <2>8, <2>9 DEF StacksOK, Invoke
<1>3. ASSUME NEW t \in Threads, stack[t] # << >> PROVE FrameOK(Top(t))
  BY <1>s, <1>3 DEF StacksOK, Top
<1>m. ASSUME NEW r, FrameOK(r), r.phase # "direct", NEW i \in 1..Len(r.patches),
             NEW o \in Seq(Patches), o = SubSeq(r.patches, 1, i)
      PROVE  FrameOK([r EXCEPT !.index = i, !.open = o])
  <2> DEFINE q == [r EXCEPT !.index = i, !.open = o]
  <2>1. r \in Frame /\ i \in Nat
    BY <1>m DEF FrameOK, Frame
  <2>2. /\ q \in Frame /\ q.index = i /\ q.open = o /\ q.patches = r.patches
        /\ q.phase = r.phase /\ q.returned = r.returned /\ q.thrown = r.thrown
    BY <2>1 DEF Frame
  <2> HIDE DEF q
  <2>3. FrameOK(q)
    BY <1>m, <2>2 DEF FrameOK
  <2> QED BY <2>3 DEF q
<1>4. ASSUME NEW t \in Threads, SetReturned(t) PROVE StacksOK'
  <2> DEFINE r == [Top(t) EXCEPT !.returned = Value, !.thrown = None]
  <2>1. stack[t] # << >> /\ SetTop(t, r) /\ outcome' = outcome
        /\ Top(t).phase \in {"before", "after"}
    BY <1>4 DEF SetReturned, InPhase
  <2>2. FrameOK(r)
    BY <1>3, <2>1 DEF FrameOK, Frame, Unset, None, Value, Error
  <2> QED BY <1>s, <2>1, <2>2, SetTopOK
<1>5. ASSUME NEW t \in Threads, SetThrown(t) PROVE StacksOK'
  <2> DEFINE r == [Top(t) EXCEPT !.returned = Unset, !.thrown = Error]
  <2>1. stack[t] # << >> /\ SetTop(t, r) /\ outcome' = outcome
        /\ Top(t).phase \in {"before", "after"}
    BY <1>5 DEF SetThrown, InPhase
  <2>2. FrameOK(r)
    BY <1>3, <2>1 DEF FrameOK, Frame, Unset, None, Value, Error
  <2> QED BY <1>s, <2>1, <2>2, SetTopOK
<1>6. ASSUME NEW t \in Threads, BeforeDone(t) PROVE StacksOK'
  <2> DEFINE r == Top(t)
  <2>1. stack[t] # << >> /\ r.phase = "before" /\ outcome' = outcome
    BY <1>6 DEF BeforeDone, InPhase
  <2>2. FrameOK(r) /\ r.patches \in Seq(Patches) /\ r.index \in 1..Len(r.patches)
    BY <1>3, <2>1 DEF FrameOK, Frame
  <2>3. CASE /\ r.index < Len(r.patches)
             /\ SetTop(t, [r EXCEPT !.index = @ + 1,
                                    !.open = Append(@, r.patches[r.index + 1])])
    <3>1. /\ Append(r.open, r.patches[r.index + 1]) = SubSeq(r.patches, 1, r.index + 1)
          /\ r.index + 1 \in 1..Len(r.patches)
      BY <2>1, <2>2, <2>3, PrefixFacts, SMTT(20) DEF FrameOK
    <3>2. SubSeq(r.patches, 1, r.index + 1) \in Seq(Patches)
      BY <2>2, <3>1
    <3>3. FrameOK([r EXCEPT !.index = @ + 1, !.open = Append(@, r.patches[r.index + 1])])
      BY <1>m, <2>1, <2>2, <3>1, <3>2
    <3> QED BY <1>s, <2>1, <2>3, <3>3, SetTopOK
  <2>4. CASE r.returned = Unset /\ r.thrown = None /\ SetTop(t, [r EXCEPT !.phase = "original"])
    <3>1. FrameOK([r EXCEPT !.phase = "original"])
      BY <2>1, <2>2, <2>4 DEF FrameOK, Frame
    <3> QED BY <1>s, <2>1, <2>4, <3>1, SetTopOK
  <2>5. CASE ~(r.returned = Unset /\ r.thrown = None) /\ SetTop(t, [r EXCEPT !.phase = "after"])
    <3>1. FrameOK([r EXCEPT !.phase = "after"])
      BY <2>1, <2>2, <2>5 DEF FrameOK, Frame, Unset, None, Value, Error
    <3> QED BY <1>s, <2>1, <2>5, <3>1, SetTopOK
  <2> QED BY <1>6, <2>3, <2>4, <2>5 DEF BeforeDone
<1>7. ASSUME NEW t \in Threads, OriginalDone(t) PROVE StacksOK'
  <2>1. stack[t] # << >> /\ Top(t).phase = "original" /\ outcome' = outcome
    BY <1>7 DEF OriginalDone, InPhase
  <2>2. FrameOK([Top(t) EXCEPT !.phase = "after", !.returned = Value])
    BY <1>3, <2>1 DEF FrameOK, Frame, Unset, None, Value, Error
  <2>3. FrameOK([Top(t) EXCEPT !.phase = "after", !.thrown = Error])
    BY <1>3, <2>1 DEF FrameOK, Frame, Unset, None, Value, Error
  <2> QED BY <1>7, <1>s, <2>1, <2>2, <2>3, SetTopOK DEF OriginalDone
<1>8. ASSUME NEW t \in Threads, AfterDone(t) PROVE StacksOK'
  <2> DEFINE r == Top(t)
             open == Close(r.open, r.patches[r.index])
  <2>1. stack[t] # << >> /\ r.phase = "after"
    BY <1>8 DEF AfterDone, InPhase
  <2>2. /\ FrameOK(r) /\ r.patches \in Seq(Patches) /\ r.index \in 1..Len(r.patches)
        /\ r.open = SubSeq(r.patches, 1, r.index)
    BY <1>3, <2>1 DEF FrameOK, Frame
  <2>3. open = SubSeq(r.patches, 1, r.index - 1)
    <3>1. /\ SubSeq(r.patches, 1, r.index) # << >>
          /\ Len(SubSeq(r.patches, 1, r.index)) = r.index
          /\ SubSeq(r.patches, 1, r.index)[r.index] = r.patches[r.index]
          /\ SubSeq(SubSeq(r.patches, 1, r.index), 1, r.index - 1)
               = SubSeq(r.patches, 1, r.index - 1)
      BY <2>2, PrefixFacts
    <3> QED BY <2>2, <3>1 DEF Close
  <2>4. CASE /\ r.index > 1
             /\ SetTop(t, [r EXCEPT !.index = @ - 1, !.open = open])
             /\ UNCHANGED outcome
    <3>1. r.index - 1 \in 1..Len(r.patches)
      BY <2>2, <2>4
    <3>2. open \in Seq(Patches)
      BY <2>2, <2>3, <3>1, PrefixFacts
    <3>3. FrameOK([r EXCEPT !.index = @ - 1, !.open = open])
      BY <1>m, <2>1, <2>2, <2>3, <3>1, <3>2
    <3> QED BY <1>s, <2>1, <2>4, <3>3, SetTopOK
  <2>5. CASE /\ stack' = [stack EXCEPT ![t] = Pop(t)]
             /\ outcome' = [outcome EXCEPT ![t] = IF r.thrown # None THEN Error ELSE r.returned]
    <3>1. (IF r.thrown # None THEN Error ELSE r.returned) \in {Value, Error}
      BY <2>1, <2>2 DEF FrameOK, Frame, Unset, None, Value, Error
    <3> QED BY <1>s, <2>1, <2>5, <3>1, PopOK
  <2> QED BY <1>8, <2>4, <2>5 DEF AfterDone
<1>9. ASSUME NEW t \in Threads, DirectDone(t) PROVE StacksOK'
  <2>1. stack[t] # << >> /\ stack' = [stack EXCEPT ![t] = Pop(t)]
    BY <1>9 DEF DirectDone, InPhase
  <2>2. PICK ending \in {Value, Error} : outcome' = [outcome EXCEPT ![t] = ending]
    BY <1>9 DEF DirectDone
  <2> QED BY <1>s, <2>1, <2>2, PopOK
<1> QED
  BY <1>1, <1>2, <1>4, <1>5, <1>6, <1>7, <1>8, <1>9 DEF DispatchNext, Done, Registry, vars

\* Every reachable state has its registry and all its stacks in order.
THEOREM DispatchInvariance == DispatchSpec => []DInv
BY DispatchInitOK, DispatchNextOK, PTL DEF DispatchSpec

\* Whatever hooked calls do, patch and recover behave as in Patchwork: every
\* theorem about Spec holds of the composed system.
THEOREM DispatchImplementsRegistry == DispatchSpec => Spec
<1>1. DispatchInit => Init
  BY DEF DispatchInit
<1> QED BY <1>1, DispatchStepsRegistry, PTL DEF DispatchSpec, Spec

\* ResultDecided: the sentinel never reaches a caller, and while afterExecuted
\* callbacks run the result is a value or a Throwable, never both or neither.
THEOREM ResultAlwaysDecided == DispatchSpec => []ResultDecided
<1>1. DInv => ResultDecided
  BY DEF DInv, StacksOK, FrameOK, ResultDecided, Unset, None, Value, Error
<1> QED BY <1>1, DispatchInvariance, PTL

\* Bracketed: patches may be added and recovered while a call runs, each
\* beforeExecuted of the call still gets its afterExecuted, in reverse order.
THEOREM CallsAreBracketed == DispatchSpec => []Bracketed
<1>1. DInv => Bracketed
  BY DEF DInv, StacksOK, FrameOK, Bracketed
<1> QED BY <1>1, DispatchInvariance, PTL

-----------------------------------------------------------------------------
(***************************************************************************)
(* What holds of registers shared between threads, for any number of       *)
(* helpers.                                                                *)
(***************************************************************************)

(* The inductive invariants *)

RegistersTypeOK ==
    /\ use \in Uses
    /\ returned \in Writers \cup {Original, NULL}
    /\ thrown \in Writers \cup {Original, NoThrow}
    /\ at \in {"before", "readThrown", "original", "after", "return", "done"}
    /\ half \in [Writers -> {"none", "setReturned", "setThrown"}]

Undecided == returned = NULL /\ thrown = NoThrow
ReturnsLast == returned # NULL /\ thrown = NoThrow /\ last = <<"returned", returned>>
ThrowsLast == returned = NULL /\ thrown # NoThrow /\ last = <<"thrown", thrown>>

\* Callbacks that wait for their helpers: one setter is half-way at most, and
\* none while replaceHookedMember reads; between two setters the registers are
\* empty or hold exactly the result supplied last.
OneAtATime ==
    /\ at \notin Callback => Quiet
    /\ \A v, w \in Writers : half[v] # "none" /\ half[w] # "none" => v = w
    /\ \A w \in Writers : half[w] = "setReturned" => returned = w /\ last = <<"returned", w>>
    /\ \A w \in Writers : half[w] = "setThrown" => returned = NULL /\ last = <<"thrown", w>>
    /\ Quiet => Undecided \/ ReturnsLast \/ ThrowsLast
DecidedInTime ==
    /\ at = "readThrown" => returned = NULL
    /\ at = "original" => Undecided
    /\ at \in {"after", "return"} /\ Quiet => ~Undecided
    /\ at = "return" => thrown = NoThrow
    /\ at = "done" => result = last /\ ~Undecided
SerialInv == use.serialised => OneAtATime /\ DecidedInTime

\* Helpers that only call setReturned, at any moment: the object is there
\* before thrown is cleared, and nothing takes it away again.
ReturnedStays ==
    "setThrown" \notin use.setters =>
        /\ \A w \in Writers : half[w] # "setThrown"
        /\ \A w \in Writers : half[w] = "setReturned" => returned # NULL
        /\ at = "after" => ~Undecided
        /\ at = "return" => returned # NULL

RegistersInv == RegistersTypeOK /\ SerialInv /\ ReturnedStays

\* The uses for which the sentinel is kept: callbacks wait for the threads they
\* give the registers to, or nobody calls setThrown.
SafeUses == \A u \in Uses : u.serialised \/ "setThrown" \notin u.setters

-----------------------------------------------------------------------------
(* RegistersInv is inductive *)

\* A call begins with empty registers and nobody writing.
LEMMA InitRegistersInv == RegistersInit => RegistersInv
<1> SUFFICES ASSUME RegistersInit PROVE RegistersInv
  OBVIOUS
<1> USE RegistersAssumption DEF RegistersInit
<1>1. RegistersTypeOK
  BY DEF RegistersTypeOK
<1>2. SerialInv
  BY DEF SerialInv, OneAtATime, DecidedInTime, Quiet, Callback, Undecided
<1>3. ReturnedStays
  BY DEF ReturnedStays
<1> QED BY <1>1, <1>2, <1>3 DEF RegistersInv

\* Every write of a setter and every read of replaceHookedMember preserves it.
LEMMA NextRegistersInv == RegistersInv /\ [RegistersNext]_registersVars => RegistersInv'
<1> SUFFICES ASSUME RegistersInv, [RegistersNext]_registersVars PROVE RegistersInv'
  OBVIOUS
<1> USE RegistersAssumption DEF RegistersInv
<1>t. RegistersTypeOK /\ use.serialised \in BOOLEAN /\ Original \in Writers \cup {Original}
  BY DEF RegistersTypeOK
<1>1. CASE UNCHANGED registersVars
  BY <1>1 DEF registersVars, RegistersTypeOK, SerialInv, OneAtATime, DecidedInTime, Quiet,
     Callback, Undecided, ReturnsLast, ThrowsLast, ReturnedStays
<1>2. ASSUME NEW w \in Writers, SetReturnedFirst(w) PROVE RegistersInv'
  <2> USE <1>2 DEF SetReturnedFirst, MayWrite
  <2>1. RegistersTypeOK'
    BY DEF RegistersTypeOK, Callback
  <2>2. ASSUME use.serialised PROVE OneAtATime'
    BY <1>t, <2>2 DEF RegistersTypeOK, SerialInv, OneAtATime, DecidedInTime, Quiet, Callback,
       Undecided, ReturnsLast, ThrowsLast
  <2>3. ASSUME use.serialised PROVE DecidedInTime'
    BY <1>t, <2>3 DEF RegistersTypeOK, SerialInv, OneAtATime, DecidedInTime, Quiet, Callback,
       Undecided, ReturnsLast, ThrowsLast
  <2>4. ReturnedStays'
    BY <1>t DEF RegistersTypeOK, ReturnedStays, Undecided, Callback
  <2> QED BY <2>1, <2>2, <2>3, <2>4 DEF SerialInv
<1>3. ASSUME NEW w \in Writers, SetReturnedSecond(w) PROVE RegistersInv'
  <2> USE <1>3 DEF SetReturnedSecond
  <2>1. RegistersTypeOK'
    BY DEF RegistersTypeOK, Callback
  <2>2. ASSUME use.serialised PROVE OneAtATime'
    BY <1>t, <2>2 DEF RegistersTypeOK, SerialInv, OneAtATime, DecidedInTime, Quiet, Callback,
       Undecided, ReturnsLast, ThrowsLast
  <2>3. ASSUME use.serialised PROVE DecidedInTime'
    BY <1>t, <2>3 DEF RegistersTypeOK, SerialInv, OneAtATime, DecidedInTime, Quiet, Callback,
       Undecided, ReturnsLast, ThrowsLast
  <2>4. ReturnedStays'
    BY <1>t DEF RegistersTypeOK, ReturnedStays, Undecided, Callback
  <2> QED BY <2>1, <2>2, <2>3, <2>4 DEF SerialInv
<1>4. ASSUME NEW w \in Writers, SetThrownFirst(w) PROVE RegistersInv'
  <2> USE <1>4 DEF SetThrownFirst, MayWrite
  <2>1. RegistersTypeOK'
    BY DEF RegistersTypeOK, Callback
  <2>2. ASSUME use.serialised PROVE OneAtATime'
    BY <1>t, <2>2 DEF RegistersTypeOK, SerialInv, OneAtATime, DecidedInTime, Quiet, Callback,
       Undecided, ReturnsLast, ThrowsLast
  <2>3. ASSUME use.serialised PROVE DecidedInTime'
    BY <1>t, <2>3 DEF RegistersTypeOK, SerialInv, OneAtATime, DecidedInTime, Quiet, Callback,
       Undecided, ReturnsLast, ThrowsLast
  <2>4. ReturnedStays'
    BY <1>t DEF RegistersTypeOK, ReturnedStays, Undecided, Callback
  <2> QED BY <2>1, <2>2, <2>3, <2>4 DEF SerialInv
<1>5. ASSUME NEW w \in Writers, SetThrownSecond(w) PROVE RegistersInv'
  <2> USE <1>5 DEF SetThrownSecond
  <2>1. RegistersTypeOK'
    BY DEF RegistersTypeOK, Callback
  <2>2. ASSUME use.serialised PROVE OneAtATime'
    BY <1>t, <2>2 DEF RegistersTypeOK, SerialInv, OneAtATime, DecidedInTime, Quiet, Callback,
       Undecided, ReturnsLast, ThrowsLast
  <2>3. ASSUME use.serialised PROVE DecidedInTime'
    BY <1>t, <2>3 DEF RegistersTypeOK, SerialInv, OneAtATime, DecidedInTime, Quiet, Callback,
       Undecided, ReturnsLast, ThrowsLast
  <2>4. ReturnedStays'
    BY <1>t DEF RegistersTypeOK, ReturnedStays, Undecided, Callback
  <2> QED BY <2>1, <2>2, <2>3, <2>4 DEF SerialInv
<1>6. CASE ReadReturned
  <2> USE <1>6 DEF ReadReturned, CallbackEnds
  <2>1. RegistersTypeOK'
    BY DEF RegistersTypeOK, Callback
  <2>2. ASSUME use.serialised PROVE OneAtATime'
    BY <1>t, <2>2 DEF RegistersTypeOK, SerialInv, OneAtATime, DecidedInTime, Quiet, Callback,
       Undecided, ReturnsLast, ThrowsLast
  <2>3. ASSUME use.serialised PROVE DecidedInTime'
    BY <1>t, <2>3 DEF RegistersTypeOK, SerialInv, OneAtATime, DecidedInTime, Quiet, Callback,
       Undecided, ReturnsLast, ThrowsLast
  <2>4. ReturnedStays'
    BY <1>t DEF RegistersTypeOK, ReturnedStays, Undecided, Callback
  <2> QED BY <2>1, <2>2, <2>3, <2>4 DEF SerialInv
<1>7. CASE ReadThrown
  <2> USE <1>7 DEF ReadThrown
  <2>1. RegistersTypeOK'
    BY DEF RegistersTypeOK, Callback
  <2>2. ASSUME use.serialised PROVE OneAtATime'
    BY <1>t, <2>2 DEF RegistersTypeOK, SerialInv, OneAtATime, DecidedInTime, Quiet, Callback,
       Undecided, ReturnsLast, ThrowsLast
  <2>3. ASSUME use.serialised PROVE DecidedInTime'
    BY <1>t, <2>3 DEF RegistersTypeOK, SerialInv, OneAtATime, DecidedInTime, Quiet, Callback,
       Undecided, ReturnsLast, ThrowsLast
  <2>4. ReturnedStays'
    BY <1>t DEF RegistersTypeOK, ReturnedStays, Undecided, Callback
  <2> QED BY <2>1, <2>2, <2>3, <2>4 DEF SerialInv
<1>8. CASE OriginalReturns
  <2> USE <1>8 DEF OriginalReturns
  <2>1. RegistersTypeOK'
    BY DEF RegistersTypeOK, Callback
  <2>2. ASSUME use.serialised PROVE OneAtATime'
    BY <1>t, <2>2 DEF RegistersTypeOK, SerialInv, OneAtATime, DecidedInTime, Quiet, Callback,
       Undecided, ReturnsLast, ThrowsLast
  <2>3. ASSUME use.serialised PROVE DecidedInTime'
    BY <1>t, <2>3 DEF RegistersTypeOK, SerialInv, OneAtATime, DecidedInTime, Quiet, Callback,
       Undecided, ReturnsLast, ThrowsLast
  <2>4. ReturnedStays'
    BY <1>t DEF RegistersTypeOK, ReturnedStays, Undecided, Callback
  <2> QED BY <2>1, <2>2, <2>3, <2>4 DEF SerialInv
<1>9. CASE OriginalThrows
  <2> USE <1>9 DEF OriginalThrows
  <2>1. RegistersTypeOK'
    BY DEF RegistersTypeOK, Callback
  <2>2. ASSUME use.serialised PROVE OneAtATime'
    BY <1>t, <2>2 DEF RegistersTypeOK, SerialInv, OneAtATime, DecidedInTime, Quiet, Callback,
       Undecided, ReturnsLast, ThrowsLast
  <2>3. ASSUME use.serialised PROVE DecidedInTime'
    BY <1>t, <2>3 DEF RegistersTypeOK, SerialInv, OneAtATime, DecidedInTime, Quiet, Callback,
       Undecided, ReturnsLast, ThrowsLast
  <2>4. ReturnedStays'
    BY <1>t DEF RegistersTypeOK, ReturnedStays, Undecided, Callback
  <2> QED BY <2>1, <2>2, <2>3, <2>4 DEF SerialInv
<1>10. CASE LastReadThrown
  <2> USE <1>10 DEF LastReadThrown, CallbackEnds
  <2>1. RegistersTypeOK'
    BY DEF RegistersTypeOK, Callback
  <2>2. ASSUME use.serialised PROVE OneAtATime'
    BY <1>t, <2>2 DEF RegistersTypeOK, SerialInv, OneAtATime, DecidedInTime, Quiet, Callback,
       Undecided, ReturnsLast, ThrowsLast
  <2>3. ASSUME use.serialised PROVE DecidedInTime'
    BY <1>t, <2>3 DEF RegistersTypeOK, SerialInv, OneAtATime, DecidedInTime, Quiet, Callback,
       Undecided, ReturnsLast, ThrowsLast
  <2>4. ReturnedStays'
    BY <1>t DEF RegistersTypeOK, ReturnedStays, Undecided, Callback
  <2> QED BY <2>1, <2>2, <2>3, <2>4 DEF SerialInv
<1>11. CASE LastReadReturned
  <2> USE <1>11 DEF LastReadReturned
  <2>1. RegistersTypeOK'
    BY DEF RegistersTypeOK, Callback
  <2>2. ASSUME use.serialised PROVE OneAtATime'
    BY <1>t, <2>2 DEF RegistersTypeOK, SerialInv, OneAtATime, DecidedInTime, Quiet, Callback,
       Undecided, ReturnsLast, ThrowsLast
  <2>3. ASSUME use.serialised PROVE DecidedInTime'
    BY <1>t, <2>3 DEF RegistersTypeOK, SerialInv, OneAtATime, DecidedInTime, Quiet, Callback,
       Undecided, ReturnsLast, ThrowsLast
  <2>4. ReturnedStays'
    BY <1>t DEF RegistersTypeOK, ReturnedStays, Undecided, Callback
  <2> QED BY <2>1, <2>2, <2>3, <2>4 DEF SerialInv
<1> QED
  BY <1>1, <1>2, <1>3, <1>4, <1>5, <1>6, <1>7, <1>8, <1>9, <1>10, <1>11
  DEF RegistersNext, ReplaceHookedMember, Write

\* The registers are consistent at every moment, whoever uses them how.
THEOREM RegistersInvariance == RegistersSpec => []RegistersInv
BY InitRegistersInv, NextRegistersInv, PTL DEF RegistersSpec

\* LastResultWins: a call whose callbacks wait for their helpers ends with the
\* result supplied last, however many helpers there are.
THEOREM LastResultAlwaysWins == RegistersSpec => []LastResultWins
<1>1. RegistersInv => LastResultWins
  BY DEF RegistersInv, SerialInv, DecidedInTime, LastResultWins
<1> QED BY <1>1, RegistersInvariance, PTL

\* SentinelStaysInside: no caller receives Registers.NULL if the callbacks wait
\* for their helpers or the helpers call setReturned only; setReturned stores
\* the object before it clears thrown.
THEOREM SentinelKept == ASSUME SafeUses PROVE RegistersSpec => []SentinelStaysInside
<1>1. RegistersInit => SentinelStaysInside
  BY DEF RegistersInit, SentinelStaysInside
<1>2. ASSUME RegistersInv, SentinelStaysInside, [RegistersNext]_registersVars
      PROVE  SentinelStaysInside'
  <2>1. CASE UNCHANGED result
    BY <1>2, <2>1 DEF SentinelStaysInside
  <2>2. CASE LastReadThrown
    BY <1>2, <2>2 DEF LastReadThrown, SentinelStaysInside
  <2>3. CASE LastReadReturned
    <3>1. use \in Uses /\ (use.serialised \/ "setThrown" \notin use.setters)
      BY <1>2, SafeUses DEF RegistersInv, RegistersTypeOK, SafeUses
    <3>2. returned # NULL
      BY <1>2, <2>3, <3>1
      DEF LastReadReturned, RegistersInv, SerialInv, OneAtATime, DecidedInTime, Callback,
          Undecided, ReturnedStays
    <3> QED BY <2>3, <3>2 DEF LastReadReturned, SentinelStaysInside
  <2> QED
    BY <1>2, <2>1, <2>2, <2>3
    DEF RegistersNext, ReplaceHookedMember, Write, ReadReturned, ReadThrown, OriginalReturns,
        OriginalThrows, SetReturnedFirst, SetReturnedSecond, SetThrownFirst, SetThrownSecond,
        registersVars
<1> QED BY <1>1, <1>2, RegistersInvariance, PTL DEF RegistersSpec
=============================================================================
