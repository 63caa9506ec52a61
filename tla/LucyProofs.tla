----------------------------- MODULE LucyProofs -----------------------------
(***************************************************************************)
(* What holds of Lucy's books for any threads, classes, members and        *)
(* packages, and of the class searches for any number of classes.          *)
(***************************************************************************)
EXTENDS Lucy, ClassSearch, SequenceFacts, FiniteSetTheorems

-----------------------------------------------------------------------------
(* The inductive invariant *)

Hooking == {"hook", "superHook", "patching"}
Unhooking == {"unhooking", "recovering"}
\* Where a thread has the monitor of mHooking.
Inside == Hooking \cup Unhooking \cup {"ignore", "unhook"}
Labels == Inside \cup {"idle", "getInstance", "lockClass", "create", "enter"}

HookArgs == {"hook"} \X Classes
UnhookArgs == {"unhook"} \X Classes
IgnoreArgs == {"ignore"} \X Packages
Args == HookArgs \cup UnhookArgs \cup IgnoreArgs

LucyTypeOK ==
    /\ pc \in [Threads -> Labels]
    /\ arg \in [Threads -> Args \cup {Null}]
    /\ owner \in [Monitors -> Threads \cup {Null}]
    /\ ignored \subseteq Packages /\ hooking \subseteq Classes /\ keys \subseteq Classes
    /\ unhooks \subseteq Members /\ traced \subseteq Members
    /\ todo \in [Threads -> SUBSET Members]
    /\ victims \in [Threads -> SUBSET Classes]
    /\ current \in [Threads -> Classes \cup {Null}]

\* A thread that has begun an operation has the argument of that operation.
ArgsFit ==
    \A t \in Threads :
        /\ pc[t] # "idle" => arg[t] \in Args
        /\ pc[t] \in Hooking => arg[t] \in HookArgs
        /\ pc[t] = "unhook" => arg[t] \in UnhookArgs
        /\ pc[t] = "ignore" => arg[t] \in IgnoreArgs

\* The books are changed under the monitor of mHooking only.
OwnerInside == \A t \in Threads : pc[t] \in Inside <=> owner["mHooking"] = t

\* The books of a thread between two steps of hook or unhook: a class on its
\* way in is in mHooking and has no list yet, what a class on its way out has
\* lost from its list is still traced as far as todo says.
OnTheWay ==
    \A t \in Threads :
        /\ pc[t] \in {"superHook", "patching"} => arg[t][2] \in hooking
        /\ pc[t] = "patching" => arg[t][2] \notin keys /\ todo[t] \subseteq MembersOf(arg[t][2])
        /\ pc[t] = "recovering" => /\ current[t] \notin keys
                                   /\ todo[t] \cap unhooks = {}
                                   /\ traced = unhooks \cup todo[t]
Listed ==
    /\ keys \subseteq hooking
    /\ (\A t \in Threads : pc[t] # "recovering") => traced = unhooks
    /\ \A m \in unhooks :
         \/ DeclaredBy[m] \in keys
         \/ \E t \in Threads : pc[t] = "patching" /\ DeclaredBy[m] = arg[t][2]

\* A class in mHooking is not ignored, or a thread is about to unhook it; and a
\* class on its way in is not ignored.
NotIgnored ==
    /\ \A c \in hooking :
         \/ StartsWith[c] \cap ignored = {}
         \/ \E t \in Threads : \/ pc[t] \in Unhooking /\ c \in victims[t]
                               \/ pc[t] = "recovering" /\ c = current[t]
    /\ \A t \in Threads : pc[t] \in {"superHook", "patching"} =>
                            StartsWith[arg[t][2]] \cap ignored = {}

OneLucy == instance = instances /\ instance \in {0, 1}

LucyInv == LucyTypeOK /\ ArgsFit /\ OwnerInside /\ OnTheWay /\ Listed /\ NotIgnored /\ OneLucy

-----------------------------------------------------------------------------
(* LucyInv is inductive *)

\* At first nothing is traced and every thread is idle.
LEMMA InitLucyInv == Init => LucyInv
<1> SUFFICES ASSUME Init PROVE LucyInv
  OBVIOUS
<1> USE LucyAssumption DEF Init
<1>1. LucyTypeOK
  BY DEF LucyTypeOK, Labels
<1>2. ArgsFit /\ OwnerInside
  BY DEF ArgsFit, OwnerInside, Inside, Hooking, Unhooking, Monitors
<1>3. OnTheWay /\ Listed /\ NotIgnored /\ OneLucy
  BY DEF OnTheWay, Listed, NotIgnored, OneLucy
<1> QED BY <1>1, <1>2, <1>3 DEF LucyInv

\* Acquire takes the monitor of mIgnored and waits for the next one, or takes
\* that of mHooking and begins the operation.
LEMMA AcquireCases ==
    ASSUME LucyTypeOK, ArgsFit, NEW t \in Threads, Acquire(t)
    PROVE  /\ pc[t] = "enter"
           /\ \/ /\ owner' = [owner EXCEPT !["mIgnored"] = t]
                 /\ pc' = [pc EXCEPT ![t] = "enter"]
              \/ /\ owner["mHooking"] = Null
                 /\ owner' = [owner EXCEPT !["mHooking"] = t]
                 /\ pc' = [pc EXCEPT ![t] = arg[t][1]]
<1>1. pc[t] = "enter" /\ arg[t] \in Args
  BY DEF Acquire, ArgsFit
<1>2. CASE arg[t] \in HookArgs
  <2>a. Order(t) = <<"mIgnored", "mHooking">>
    BY <1>2 DEF HookArgs, Op, Order, HookOrder
  <2>1. /\ DOMAIN Order(t) = {1, 2} /\ Len(Order(t)) = 2
        /\ Order(t)[1] = "mIgnored" /\ Order(t)[2] = "mHooking"
    BY <2>a
  <2>2. PICK k \in {1, 2} :
           /\ owner[Order(t)[k]] = Null
           /\ owner' = [owner EXCEPT ![Order(t)[k]] = t]
           /\ pc' = [pc EXCEPT ![t] = IF k = 2 THEN arg[t][1] ELSE "enter"]
    BY <2>1 DEF Acquire, Goto, Op
  <2> QED BY <1>1, <2>1, <2>2
<1>3. CASE arg[t] \in UnhookArgs
  <2>a. Order(t) = <<"mHooking">>
    BY <1>3 DEF UnhookArgs, Op, Order, UnhookOrder
  <2>1. DOMAIN Order(t) = {1} /\ Len(Order(t)) = 1 /\ Order(t)[1] = "mHooking"
    BY <2>a
  <2>2. /\ owner["mHooking"] = Null /\ owner' = [owner EXCEPT !["mHooking"] = t]
        /\ pc' = [pc EXCEPT ![t] = arg[t][1]]
    BY <2>1 DEF Acquire, Goto, Op
  <2> QED BY <1>1, <2>2
<1>4. CASE arg[t] \in IgnoreArgs
  <2>a. Order(t) = <<"mIgnored", "mHooking">>
    BY <1>4 DEF IgnoreArgs, Op, Order, IgnoreOrder
  <2>1. /\ DOMAIN Order(t) = {1, 2} /\ Len(Order(t)) = 2
        /\ Order(t)[1] = "mIgnored" /\ Order(t)[2] = "mHooking"
    BY <2>a
  <2>2. PICK k \in {1, 2} :
           /\ owner[Order(t)[k]] = Null
           /\ owner' = [owner EXCEPT ![Order(t)[k]] = t]
           /\ pc' = [pc EXCEPT ![t] = IF k = 2 THEN arg[t][1] ELSE "enter"]
    BY <2>1 DEF Acquire, Goto, Op
  <2> QED BY <1>1, <2>1, <2>2
<1> QED BY <1>1, <1>2, <1>3, <1>4 DEF Args

\* Every step of every operation preserves the invariant.
LEMMA NextLucyInv == LucyInv /\ [Next]_vars => LucyInv'
<1> SUFFICES ASSUME LucyInv, [Next]_vars PROVE LucyInv'
  OBVIOUS
<1> USE LucyAssumption DEF LucyInv
<1>1. CASE UNCHANGED vars
  <2> USE <1>1 DEF vars
  <2>1. LucyTypeOK' /\ ArgsFit' /\ OwnerInside'
    BY DEF LucyTypeOK, ArgsFit, OwnerInside
  <2>2. OnTheWay' /\ Listed' /\ NotIgnored' /\ OneLucy'
    BY DEF OnTheWay, MembersOf, Listed, NotIgnored, OneLucy
  <2> QED BY <2>1, <2>2
<1>2. ASSUME NEW t \in Threads, CallBegin(t) PROVE LucyInv'
  <2> USE <1>2 DEF CallBegin, Goto, state
  <2>1. LucyTypeOK'
    BY DEF LucyTypeOK, Labels, Inside, Hooking, Unhooking, Monitors, Args, HookArgs, UnhookArgs, IgnoreArgs
  <2>2. ArgsFit'
    BY DEF LucyTypeOK, Labels, Inside, Hooking, Unhooking, Monitors, ArgsFit, Args, HookArgs, UnhookArgs, IgnoreArgs
  <2>3. OwnerInside'
    BY DEF LucyTypeOK, Labels, Inside, Hooking, Unhooking, Monitors, OwnerInside
  <2>4. OnTheWay'
    BY DEF LucyTypeOK, Labels, Inside, Hooking, Unhooking, Monitors, OnTheWay, MembersOf
  <2>5. Listed'
    BY DEF LucyTypeOK, Labels, Inside, Hooking, Unhooking, Monitors, OnTheWay, Listed, MembersOf
  <2>6. NotIgnored'
    BY DEF LucyTypeOK, Labels, Inside, Hooking, Unhooking, Monitors, NotIgnored
  <2>7. OneLucy'
    BY DEF OneLucy
  <2> QED BY <2>1, <2>2, <2>3, <2>4, <2>5, <2>6, <2>7
<1>3. ASSUME NEW t \in Threads, FirstCheck(t) PROVE LucyInv'
  <2> USE <1>3 DEF FirstCheck, Goto, state
  <2>1. LucyTypeOK'
    BY DEF LucyTypeOK, Labels, Inside, Hooking, Unhooking, Monitors
  <2>2. ArgsFit'
    BY DEF LucyTypeOK, Labels, Inside, Hooking, Unhooking, Monitors, ArgsFit, Args, HookArgs, UnhookArgs, IgnoreArgs
  <2>3. OwnerInside'
    BY DEF LucyTypeOK, Labels, Inside, Hooking, Unhooking, Monitors, OwnerInside
  <2>4. OnTheWay'
    BY DEF LucyTypeOK, Labels, Inside, Hooking, Unhooking, Monitors, OnTheWay, MembersOf
  <2>5. Listed'
    BY DEF LucyTypeOK, Labels, Inside, Hooking, Unhooking, Monitors, OnTheWay, Listed, MembersOf
  <2>6. NotIgnored'
    BY DEF LucyTypeOK, Labels, Inside, Hooking, Unhooking, Monitors, NotIgnored
  <2>7. OneLucy'
    BY DEF OneLucy
  <2> QED BY <2>1, <2>2, <2>3, <2>4, <2>5, <2>6, <2>7
<1>4. ASSUME NEW t \in Threads, LockClass(t) PROVE LucyInv'
  <2> USE <1>4 DEF LockClass, Goto, state
  <2>1. LucyTypeOK'
    BY DEF LucyTypeOK, Labels, Inside, Hooking, Unhooking, Monitors
  <2>2. ArgsFit'
    BY DEF LucyTypeOK, Labels, Inside, Hooking, Unhooking, Monitors, ArgsFit, Args, HookArgs, UnhookArgs, IgnoreArgs
  <2>3. OwnerInside'
    BY DEF LucyTypeOK, Labels, Inside, Hooking, Unhooking, Monitors, OwnerInside
  <2>4. OnTheWay'
    BY DEF LucyTypeOK, Labels, Inside, Hooking, Unhooking, Monitors, OnTheWay, MembersOf
  <2>5. Listed'
    BY DEF LucyTypeOK, Labels, Inside, Hooking, Unhooking, Monitors, OnTheWay, Listed, MembersOf
  <2>6. NotIgnored'
    BY DEF LucyTypeOK, Labels, Inside, Hooking, Unhooking, Monitors, NotIgnored
  <2>7. OneLucy'
    BY DEF OneLucy
  <2> QED BY <2>1, <2>2, <2>3, <2>4, <2>5, <2>6, <2>7
<1>5. ASSUME NEW t \in Threads, SecondCheck(t) PROVE LucyInv'
  <2> USE <1>5 DEF SecondCheck, Goto, state
  <2>1. LucyTypeOK'
    BY DEF LucyTypeOK, Labels, Inside, Hooking, Unhooking, Monitors
  <2>2. ArgsFit'
    BY DEF LucyTypeOK, Labels, Inside, Hooking, Unhooking, Monitors, ArgsFit, Args, HookArgs, UnhookArgs, IgnoreArgs
  <2>3. OwnerInside'
    BY DEF LucyTypeOK, Labels, Inside, Hooking, Unhooking, Monitors, OwnerInside
  <2>4. OnTheWay'
    BY DEF LucyTypeOK, Labels, Inside, Hooking, Unhooking, Monitors, OnTheWay, MembersOf
  <2>5. Listed'
    BY DEF LucyTypeOK, Labels, Inside, Hooking, Unhooking, Monitors, OnTheWay, Listed, MembersOf
  <2>6. NotIgnored'
    BY DEF LucyTypeOK, Labels, Inside, Hooking, Unhooking, Monitors, NotIgnored
  <2>7. OneLucy'
    BY DEF OneLucy
  <2> QED BY <2>1, <2>2, <2>3, <2>4, <2>5, <2>6, <2>7
<1>6. ASSUME NEW t \in Threads, Acquire(t) PROVE LucyInv'
  <2> USE <1>6 DEF Acquire, state
  <2>a. /\ pc[t] = "enter"
        /\ \/ /\ owner' = [owner EXCEPT !["mIgnored"] = t]
              /\ pc' = [pc EXCEPT ![t] = "enter"]
           \/ /\ owner["mHooking"] = Null
              /\ owner' = [owner EXCEPT !["mHooking"] = t]
              /\ pc' = [pc EXCEPT ![t] = arg[t][1]]
    BY AcquireCases
  <2>b. arg[t] \in Args /\ arg[t][1] \in {"hook", "unhook", "ignore"}
    BY <2>a DEF ArgsFit, Args, HookArgs, UnhookArgs, IgnoreArgs
  <2>1. LucyTypeOK'
    <3>1. pc' \in [Threads -> Labels]
      BY <2>a, <2>b DEF LucyTypeOK, Labels, Inside, Hooking
    <3>2. owner' \in [Monitors -> Threads \cup {Null}]
      BY <2>a DEF LucyTypeOK, Monitors
    <3> QED BY <3>1, <3>2 DEF LucyTypeOK
  <2>2. ArgsFit'
    BY <2>a, <2>b DEF LucyTypeOK, Labels, Inside, Hooking, Unhooking, Monitors, ArgsFit, Args, HookArgs, UnhookArgs, IgnoreArgs
  <2>3. OwnerInside'
    BY <2>a, <2>b DEF LucyTypeOK, Labels, Inside, Hooking, Unhooking, Monitors, OwnerInside
  <2>4. OnTheWay'
    BY <2>a, <2>b DEF LucyTypeOK, Labels, Inside, Hooking, Unhooking, Monitors, OnTheWay, MembersOf
  <2>5. Listed'
    BY <2>a, <2>b DEF LucyTypeOK, Labels, Inside, Hooking, Unhooking, Monitors, OnTheWay, Listed, MembersOf
  <2>6. NotIgnored'
    BY <2>a, <2>b DEF LucyTypeOK, Labels, Inside, Hooking, Unhooking, Monitors, NotIgnored
  <2>7. OneLucy'
    BY DEF OneLucy
  <2> QED BY <2>1, <2>2, <2>3, <2>4, <2>5, <2>6, <2>7
<1>7. ASSUME NEW t \in Threads, HookIgnored(t) PROVE LucyInv'
  <2> USE <1>7 DEF HookIgnored, Goto, state, ReleaseAll
  <2>a. \A u \in Threads : u # t => pc[u] \notin Inside
    BY DEF OwnerInside, Inside, Hooking, Unhooking
  <2>1. LucyTypeOK'
    BY <2>a DEF LucyTypeOK, Labels, Inside, Hooking, Unhooking, Monitors, ArgsFit, HookArgs, UnhookArgs, IgnoreArgs, MembersOf
  <2>2. ArgsFit'
    BY <2>a DEF LucyTypeOK, Labels, Inside, Hooking, Unhooking, Monitors, ArgsFit, Args, HookArgs, UnhookArgs, IgnoreArgs
  <2>3. OwnerInside'
    BY <2>a DEF LucyTypeOK, Labels, Inside, Hooking, Unhooking, Monitors, OwnerInside
  <2>4. OnTheWay'
    BY <2>a DEF LucyTypeOK, Labels, Inside, Hooking, Unhooking, Monitors, OnTheWay, MembersOf
  <2>5. Listed'
    BY <2>a DEF LucyTypeOK, Labels, Inside, Hooking, Unhooking, Monitors, OnTheWay, Listed, MembersOf
  <2>6. NotIgnored'
    BY <2>a DEF LucyTypeOK, Labels, Inside, Hooking, Unhooking, Monitors, NotIgnored
  <2>7. OneLucy'
    BY DEF OneLucy
  <2> QED BY <2>1, <2>2, <2>3, <2>4, <2>5, <2>6, <2>7
<1>8. ASSUME NEW t \in Threads, HookAdd(t) PROVE LucyInv'
  <2> USE <1>8 DEF HookAdd, Goto, state
  <2>a. \A u \in Threads : u # t => pc[u] \notin Inside
    BY DEF OwnerInside, Inside, Hooking, Unhooking
  <2>1. LucyTypeOK'
    BY <2>a DEF LucyTypeOK, Labels, Inside, Hooking, Unhooking, Monitors, ArgsFit, HookArgs, UnhookArgs, IgnoreArgs, MembersOf
  <2>2. ArgsFit'
    BY <2>a DEF LucyTypeOK, Labels, Inside, Hooking, Unhooking, Monitors, ArgsFit, Args, HookArgs, UnhookArgs, IgnoreArgs
  <2>3. OwnerInside'
    BY <2>a DEF LucyTypeOK, Labels, Inside, Hooking, Unhooking, Monitors, OwnerInside
  <2>4. OnTheWay'
    BY <2>a DEF LucyTypeOK, Labels, Inside, Hooking, Unhooking, Monitors, OnTheWay, MembersOf
  <2>5. Listed'
    BY <2>a DEF LucyTypeOK, Labels, Inside, Hooking, Unhooking, Monitors, OnTheWay, Listed, MembersOf
  <2>6. NotIgnored'
    BY <2>a DEF LucyTypeOK, Labels, Inside, Hooking, Unhooking, Monitors, NotIgnored
  <2>7. OneLucy'
    BY DEF OneLucy
  <2> QED BY <2>1, <2>2, <2>3, <2>4, <2>5, <2>6, <2>7
<1>9. ASSUME NEW t \in Threads, SuperHookKnown(t) PROVE LucyInv'
  <2> USE <1>9 DEF SuperHookKnown, Goto, state, ReleaseAll
  <2>a. \A u \in Threads : u # t => pc[u] \notin Inside
    BY DEF OwnerInside, Inside, Hooking, Unhooking
  <2>1. LucyTypeOK'
    BY <2>a DEF LucyTypeOK, Labels, Inside, Hooking, Unhooking, Monitors, ArgsFit, HookArgs, UnhookArgs, IgnoreArgs, MembersOf
  <2>2. ArgsFit'
    BY <2>a DEF LucyTypeOK, Labels, Inside, Hooking, Unhooking, Monitors, ArgsFit, Args, HookArgs, UnhookArgs, IgnoreArgs
  <2>3. OwnerInside'
    BY <2>a DEF LucyTypeOK, Labels, Inside, Hooking, Unhooking, Monitors, OwnerInside
  <2>4. OnTheWay'
    BY <2>a DEF LucyTypeOK, Labels, Inside, Hooking, Unhooking, Monitors, OnTheWay, MembersOf
  <2>5. Listed'
    BY <2>a DEF LucyTypeOK, Labels, Inside, Hooking, Unhooking, Monitors, OnTheWay, Listed, MembersOf
  <2>6. NotIgnored'
    BY <2>a DEF LucyTypeOK, Labels, Inside, Hooking, Unhooking, Monitors, NotIgnored
  <2>7. OneLucy'
    BY DEF OneLucy
  <2> QED BY <2>1, <2>2, <2>3, <2>4, <2>5, <2>6, <2>7
<1>10. ASSUME NEW t \in Threads, SuperHook(t) PROVE LucyInv'
  <2> USE <1>10 DEF SuperHook, Goto, state
  <2>a. \A u \in Threads : u # t => pc[u] \notin Inside
    BY DEF OwnerInside, Inside, Hooking, Unhooking
  <2>1. LucyTypeOK'
    BY <2>a DEF LucyTypeOK, Labels, Inside, Hooking, Unhooking, Monitors, ArgsFit, HookArgs, UnhookArgs, IgnoreArgs, MembersOf
  <2>2. ArgsFit'
    BY <2>a DEF LucyTypeOK, Labels, Inside, Hooking, Unhooking, Monitors, ArgsFit, Args, HookArgs, UnhookArgs, IgnoreArgs
  <2>3. OwnerInside'
    BY <2>a DEF LucyTypeOK, Labels, Inside, Hooking, Unhooking, Monitors, OwnerInside
  <2>4. OnTheWay'
    BY <2>a DEF LucyTypeOK, Labels, Inside, Hooking, Unhooking, Monitors, OnTheWay, MembersOf
  <2>5. Listed'
    BY <2>a DEF LucyTypeOK, Labels, Inside, Hooking, Unhooking, Monitors, OnTheWay, Listed, MembersOf
  <2>6. NotIgnored'
    BY <2>a DEF LucyTypeOK, Labels, Inside, Hooking, Unhooking, Monitors, NotIgnored
  <2>7. OneLucy'
    BY DEF OneLucy
  <2> QED BY <2>1, <2>2, <2>3, <2>4, <2>5, <2>6, <2>7
<1>11. ASSUME NEW t \in Threads, SuperHookThrows(t) PROVE LucyInv'
  <2> USE <1>11 DEF SuperHookThrows, Goto, state, ReleaseAll
  <2>a. \A u \in Threads : u # t => pc[u] \notin Inside
    BY DEF OwnerInside, Inside, Hooking, Unhooking
  <2>1. LucyTypeOK'
    BY <2>a DEF LucyTypeOK, Labels, Inside, Hooking, Unhooking, Monitors, ArgsFit, HookArgs, UnhookArgs, IgnoreArgs, MembersOf
  <2>2. ArgsFit'
    BY <2>a DEF LucyTypeOK, Labels, Inside, Hooking, Unhooking, Monitors, ArgsFit, Args, HookArgs, UnhookArgs, IgnoreArgs
  <2>3. OwnerInside'
    BY <2>a DEF LucyTypeOK, Labels, Inside, Hooking, Unhooking, Monitors, OwnerInside
  <2>4. OnTheWay'
    BY <2>a DEF LucyTypeOK, Labels, Inside, Hooking, Unhooking, Monitors, OnTheWay, MembersOf
  <2>5. Listed'
    BY <2>a DEF LucyTypeOK, Labels, Inside, Hooking, Unhooking, Monitors, OnTheWay, Listed, MembersOf
  <2>6. NotIgnored'
    BY <2>a DEF LucyTypeOK, Labels, Inside, Hooking, Unhooking, Monitors, NotIgnored
  <2>7. OneLucy'
    BY DEF OneLucy
  <2> QED BY <2>1, <2>2, <2>3, <2>4, <2>5, <2>6, <2>7
<1>12. ASSUME NEW t \in Threads, PatchMember(t) PROVE LucyInv'
  <2> USE <1>12 DEF PatchMember, Goto, state
  <2>a. \A u \in Threads : u # t => pc[u] \notin Inside
    BY DEF OwnerInside, Inside, Hooking, Unhooking
  <2>1. LucyTypeOK'
    BY <2>a DEF LucyTypeOK, Labels, Inside, Hooking, Unhooking, Monitors, ArgsFit, HookArgs, UnhookArgs, IgnoreArgs, MembersOf
  <2>2. ArgsFit'
    BY <2>a DEF LucyTypeOK, Labels, Inside, Hooking, Unhooking, Monitors, ArgsFit, Args, HookArgs, UnhookArgs, IgnoreArgs
  <2>3. OwnerInside'
    BY <2>a DEF LucyTypeOK, Labels, Inside, Hooking, Unhooking, Monitors, OwnerInside
  <2>4. OnTheWay'
    BY <2>a DEF LucyTypeOK, Labels, Inside, Hooking, Unhooking, Monitors, OnTheWay, MembersOf
  <2>5. Listed'
    <3>1. PICK m \in todo[t] : \/ traced' = traced \cup {m} /\ unhooks' = unhooks \cup {m}
                               \/ UNCHANGED <<traced, unhooks>>
      OBVIOUS
    <3>2. DeclaredBy[m] = arg[t][2]
      BY DEF OnTheWay, MembersOf
    <3> QED BY <2>a, <3>1, <3>2 DEF Listed
  <2>6. NotIgnored'
    BY <2>a DEF LucyTypeOK, Labels, Inside, Hooking, Unhooking, Monitors, NotIgnored
  <2>7. OneLucy'
    BY DEF OneLucy
  <2> QED BY <2>1, <2>2, <2>3, <2>4, <2>5, <2>6, <2>7
<1>13. ASSUME NEW t \in Threads, HookDone(t) PROVE LucyInv'
  <2> USE <1>13 DEF HookDone, Goto, state, ReleaseAll
  <2>a. \A u \in Threads : u # t => pc[u] \notin Inside
    BY DEF OwnerInside, Inside, Hooking, Unhooking
  <2>1. LucyTypeOK'
    BY <2>a DEF LucyTypeOK, Labels, Inside, Hooking, Unhooking, Monitors, ArgsFit, HookArgs, UnhookArgs, IgnoreArgs, MembersOf
  <2>2. ArgsFit'
    BY <2>a DEF LucyTypeOK, Labels, Inside, Hooking, Unhooking, Monitors, ArgsFit, Args, HookArgs, UnhookArgs, IgnoreArgs
  <2>3. OwnerInside'
    BY <2>a DEF LucyTypeOK, Labels, Inside, Hooking, Unhooking, Monitors, OwnerInside
  <2>4. OnTheWay'
    BY <2>a DEF LucyTypeOK, Labels, Inside, Hooking, Unhooking, Monitors, OnTheWay, MembersOf
  <2>5. Listed'
    BY <2>a DEF LucyTypeOK, Labels, Inside, Hooking, Unhooking, Monitors, OnTheWay, Listed, MembersOf
  <2>6. NotIgnored'
    BY <2>a DEF LucyTypeOK, Labels, Inside, Hooking, Unhooking, Monitors, NotIgnored
  <2>7. OneLucy'
    BY DEF OneLucy
  <2> QED BY <2>1, <2>2, <2>3, <2>4, <2>5, <2>6, <2>7
<1>14. ASSUME NEW t \in Threads, Ignore(t) PROVE LucyInv'
  <2> USE <1>14 DEF Ignore, Goto, state
  <2>a. \A u \in Threads : u # t => pc[u] \notin Inside
    BY DEF OwnerInside, Inside, Hooking, Unhooking
  <2>1. LucyTypeOK'
    BY <2>a DEF LucyTypeOK, Labels, Inside, Hooking, Unhooking, Monitors, ArgsFit, HookArgs, UnhookArgs, IgnoreArgs, MembersOf
  <2>2. ArgsFit'
    BY <2>a DEF LucyTypeOK, Labels, Inside, Hooking, Unhooking, Monitors, ArgsFit, Args, HookArgs, UnhookArgs, IgnoreArgs
  <2>3. OwnerInside'
    BY <2>a DEF LucyTypeOK, Labels, Inside, Hooking, Unhooking, Monitors, OwnerInside
  <2>4. OnTheWay'
    BY <2>a DEF LucyTypeOK, Labels, Inside, Hooking, Unhooking, Monitors, OnTheWay, MembersOf
  <2>5. Listed'
    BY <2>a DEF LucyTypeOK, Labels, Inside, Hooking, Unhooking, Monitors, OnTheWay, Listed, MembersOf
  <2>6. NotIgnored'
    BY <2>a DEF LucyTypeOK, Labels, Inside, Hooking, Unhooking, Monitors, NotIgnored
  <2>7. OneLucy'
    BY DEF OneLucy
  <2> QED BY <2>1, <2>2, <2>3, <2>4, <2>5, <2>6, <2>7
<1>15. ASSUME NEW t \in Threads, Unhook(t) PROVE LucyInv'
  <2> USE <1>15 DEF Unhook, Goto, state
  <2>a. \A u \in Threads : u # t => pc[u] \notin Inside
    BY DEF OwnerInside, Inside, Hooking, Unhooking
  <2>1. LucyTypeOK'
    BY <2>a DEF LucyTypeOK, Labels, Inside, Hooking, Unhooking, Monitors, ArgsFit, HookArgs, UnhookArgs, IgnoreArgs, MembersOf
  <2>2. ArgsFit'
    BY <2>a DEF LucyTypeOK, Labels, Inside, Hooking, Unhooking, Monitors, ArgsFit, Args, HookArgs, UnhookArgs, IgnoreArgs
  <2>3. OwnerInside'
    BY <2>a DEF LucyTypeOK, Labels, Inside, Hooking, Unhooking, Monitors, OwnerInside
  <2>4. OnTheWay'
    BY <2>a DEF LucyTypeOK, Labels, Inside, Hooking, Unhooking, Monitors, OnTheWay, MembersOf
  <2>5. Listed'
    BY <2>a DEF LucyTypeOK, Labels, Inside, Hooking, Unhooking, Monitors, OnTheWay, Listed, MembersOf
  <2>6. NotIgnored'
    BY <2>a DEF LucyTypeOK, Labels, Inside, Hooking, Unhooking, Monitors, NotIgnored
  <2>7. OneLucy'
    BY DEF OneLucy
  <2> QED BY <2>1, <2>2, <2>3, <2>4, <2>5, <2>6, <2>7
<1>16. ASSUME NEW t \in Threads, SuperUnhook(t) PROVE LucyInv'
  <2> USE <1>16 DEF SuperUnhook, Goto, state
  <2>a. \A u \in Threads : u # t => pc[u] \notin Inside
    BY DEF OwnerInside, Inside, Hooking, Unhooking
  <2>1. LucyTypeOK'
    BY <2>a DEF LucyTypeOK, Labels, Inside, Hooking, Unhooking, Monitors, ArgsFit, HookArgs, UnhookArgs, IgnoreArgs, MembersOf
  <2>2. ArgsFit'
    BY <2>a DEF LucyTypeOK, Labels, Inside, Hooking, Unhooking, Monitors, ArgsFit, Args, HookArgs, UnhookArgs, IgnoreArgs
  <2>3. OwnerInside'
    BY <2>a DEF LucyTypeOK, Labels, Inside, Hooking, Unhooking, Monitors, OwnerInside
  <2>4. OnTheWay'
    <3>1. PICK c \in victims[t] :
             /\ current' = [current EXCEPT ![t] = c]
             /\ keys' = keys \ {c}
             /\ todo' = [todo EXCEPT ![t] = IF c \in keys THEN MembersOf(c) \cap unhooks ELSE {}]
             /\ unhooks' = IF c \in keys THEN unhooks \ MembersOf(c) ELSE unhooks
      OBVIOUS
    <3>2. traced = unhooks
      BY <2>a DEF Listed, Inside, Unhooking
    <3>3. pc'[t] = "recovering" /\ \A u \in Threads : u # t => pc'[u] \notin Inside
      BY <2>a DEF LucyTypeOK
    <3>4. /\ current'[t] \notin keys'
          /\ todo'[t] \cap unhooks' = {}
          /\ traced' = unhooks' \cup todo'[t]
      BY <3>1, <3>2 DEF LucyTypeOK
    <3> QED BY <3>3, <3>4 DEF OnTheWay, Inside, Hooking, Unhooking
  <2>5. Listed'
    BY <2>a DEF LucyTypeOK, Labels, Inside, Hooking, Unhooking, Monitors, OnTheWay, Listed, MembersOf
  <2>6. NotIgnored'
    BY <2>a DEF LucyTypeOK, Labels, Inside, Hooking, Unhooking, Monitors, NotIgnored
  <2>7. OneLucy'
    BY DEF OneLucy
  <2> QED BY <2>1, <2>2, <2>3, <2>4, <2>5, <2>6, <2>7
<1>17. ASSUME NEW t \in Threads, RecoverMember(t) PROVE LucyInv'
  <2> USE <1>17 DEF RecoverMember, Goto, state
  <2>a. \A u \in Threads : u # t => pc[u] \notin Inside
    BY DEF OwnerInside, Inside, Hooking, Unhooking
  <2>1. LucyTypeOK'
    BY <2>a DEF LucyTypeOK, Labels, Inside, Hooking, Unhooking, Monitors, ArgsFit, HookArgs, UnhookArgs, IgnoreArgs, MembersOf
  <2>2. ArgsFit'
    BY <2>a DEF LucyTypeOK, Labels, Inside, Hooking, Unhooking, Monitors, ArgsFit, Args, HookArgs, UnhookArgs, IgnoreArgs
  <2>3. OwnerInside'
    BY <2>a DEF LucyTypeOK, Labels, Inside, Hooking, Unhooking, Monitors, OwnerInside
  <2>4. OnTheWay'
    BY <2>a DEF LucyTypeOK, Labels, Inside, Hooking, Unhooking, Monitors, OnTheWay, MembersOf
  <2>5. Listed'
    BY <2>a DEF LucyTypeOK, Labels, Inside, Hooking, Unhooking, Monitors, OnTheWay, Listed, MembersOf
  <2>6. NotIgnored'
    BY <2>a DEF LucyTypeOK, Labels, Inside, Hooking, Unhooking, Monitors, NotIgnored
  <2>7. OneLucy'
    BY DEF OneLucy
  <2> QED BY <2>1, <2>2, <2>3, <2>4, <2>5, <2>6, <2>7
<1>18. ASSUME NEW t \in Threads, UnhookDone(t) PROVE LucyInv'
  <2> USE <1>18 DEF UnhookDone, Goto, state
  <2>a. \A u \in Threads : u # t => pc[u] \notin Inside
    BY DEF OwnerInside, Inside, Hooking, Unhooking
  <2>1. LucyTypeOK'
    BY <2>a DEF LucyTypeOK, Labels, Inside, Hooking, Unhooking, Monitors, ArgsFit, HookArgs, UnhookArgs, IgnoreArgs, MembersOf
  <2>2. ArgsFit'
    BY <2>a DEF LucyTypeOK, Labels, Inside, Hooking, Unhooking, Monitors, ArgsFit, Args, HookArgs, UnhookArgs, IgnoreArgs
  <2>3. OwnerInside'
    BY <2>a DEF LucyTypeOK, Labels, Inside, Hooking, Unhooking, Monitors, OwnerInside
  <2>4. OnTheWay'
    BY <2>a DEF LucyTypeOK, Labels, Inside, Hooking, Unhooking, Monitors, OnTheWay, MembersOf
  <2>5. Listed'
    <3>1. traced = unhooks /\ current[t] \notin keys
      BY DEF OnTheWay
    <3>2. \A m \in unhooks : DeclaredBy[m] \in keys
      BY <2>a DEF Listed, Inside, Hooking
    <3>3. UNCHANGED <<keys, unhooks, traced>> /\ hooking' = hooking \ {current[t]}
      OBVIOUS
    <3> QED BY <3>1, <3>2, <3>3 DEF Listed
  <2>6. NotIgnored'
    BY <2>a DEF LucyTypeOK, Labels, Inside, Hooking, Unhooking, Monitors, NotIgnored
  <2>7. OneLucy'
    BY DEF OneLucy
  <2> QED BY <2>1, <2>2, <2>3, <2>4, <2>5, <2>6, <2>7
<1>19. ASSUME NEW t \in Threads, CallEnd(t) PROVE LucyInv'
  <2> USE <1>19 DEF CallEnd, Goto, state, ReleaseAll
  <2>a. \A u \in Threads : u # t => pc[u] \notin Inside
    BY DEF OwnerInside, Inside, Hooking, Unhooking
  <2>1. LucyTypeOK'
    BY <2>a DEF LucyTypeOK, Labels, Inside, Hooking, Unhooking, Monitors, ArgsFit, HookArgs, UnhookArgs, IgnoreArgs, MembersOf
  <2>2. ArgsFit'
    BY <2>a DEF LucyTypeOK, Labels, Inside, Hooking, Unhooking, Monitors, ArgsFit, Args, HookArgs, UnhookArgs, IgnoreArgs
  <2>3. OwnerInside'
    BY <2>a DEF LucyTypeOK, Labels, Inside, Hooking, Unhooking, Monitors, OwnerInside
  <2>4. OnTheWay'
    BY <2>a DEF LucyTypeOK, Labels, Inside, Hooking, Unhooking, Monitors, OnTheWay, MembersOf
  <2>5. Listed'
    BY <2>a DEF LucyTypeOK, Labels, Inside, Hooking, Unhooking, Monitors, OnTheWay, Listed, MembersOf
  <2>6. NotIgnored'
    BY <2>a DEF LucyTypeOK, Labels, Inside, Hooking, Unhooking, Monitors, NotIgnored
  <2>7. OneLucy'
    BY DEF OneLucy
  <2> QED BY <2>1, <2>2, <2>3, <2>4, <2>5, <2>6, <2>7
<1> QED
  BY <1>1, <1>2, <1>3, <1>4, <1>5, <1>6, <1>7, <1>8, <1>9, <1>10, <1>11, <1>12, <1>13, <1>14, <1>15, <1>16, <1>17, <1>18, <1>19 DEF Next, Steps, Waits

\* The books are in order at every moment.
THEOREM LucyInvariance == Spec => []LucyInv
BY InitLucyInv, NextLucyInv, PTL DEF Spec

\* SingleInstance: the double-checked locking of getInstance makes one Lucy.
THEOREM OneLucyOnly == Spec => []SingleInstance
<1>1. LucyInv => SingleInstance
  BY DEF LucyInv, OneLucy, SingleInstance
<1> QED BY <1>1, LucyInvariance, PTL

\* BooksAgree: outside the monitor of mHooking, Lucy's set, Logcat's lists and
\* the patches in effect agree, whatever hook, unhook and ignore raced before.
THEOREM BooksAlwaysAgree == Spec => []BooksAgree
<1>1. LucyInv => BooksAgree
  <2> SUFFICES ASSUME LucyInv, owner["mHooking"] = Null
               PROVE  keys \subseteq hooking /\ traced = unhooks /\ \A m \in traced : DeclaredBy[m] \in keys
    BY DEF BooksAgree
  <2>1. \A t \in Threads : pc[t] \notin Inside
    BY LucyAssumption DEF LucyInv, OwnerInside
  <2> QED BY <2>1 DEF LucyInv, Listed, Inside, Hooking, Unhooking
<1> QED BY <1>1, LucyInvariance, PTL

\* IgnoredNotTraced: outside that monitor no class of an ignored package is
\* traced, in whichever order hook and ignore came.
THEOREM IgnoredNeverTraced == Spec => []IgnoredNotTraced
<1>1. LucyInv => IgnoredNotTraced
  <2> SUFFICES ASSUME LucyInv, owner["mHooking"] = Null, NEW m \in traced
               PROVE  StartsWith[DeclaredBy[m]] \cap ignored = {}
    BY DEF IgnoredNotTraced
  <2>1. \A t \in Threads : pc[t] \notin Inside
    BY LucyAssumption DEF LucyInv, OwnerInside
  <2>2. DeclaredBy[m] \in hooking
    BY <2>1 DEF LucyInv, Listed, Inside, Hooking, Unhooking
  <2> QED BY <2>1, <2>2 DEF LucyInv, NotIgnored, Inside, Unhooking
<1> QED BY <1>1, LucyInvariance, PTL

-----------------------------------------------------------------------------
(* The class searches *)

\* The classes a visit of c finds.
Leads(c) ==
    {d \in Types : \/ d = super[c] \/ d \in ToSet(members[c])
                   \/ \E n \in DOMAIN numbered[c] :
                        /\ d = numbered[c][n]
                        /\ \A m \in 1..n : m \in DOMAIN numbered[c]}

\* The classes at most k such steps from the root.
Nearby == Ball({step \in Types \X Types : step[2] \in Leads(step[1])})

\* No class leads to itself, by any way.
Acyclic ==
    /\ super \in [Types -> Types \cup {NoType}]
    /\ members \in [Types -> Seq(Types)]
    /\ \A c \in Types : DOMAIN numbered[c] \subseteq Types
    /\ \A c \in Types : \A n \in DOMAIN numbered[c] : numbered[c][n] \in Types /\ numbered[c][n] > c
    /\ \A c \in Types : super[c] = NoType \/ super[c] > c
    /\ \A c \in Types : \A d \in ToSet(members[c]) : d > c

Seen == ToSet(output) \cup ToSet(input)

SearchTypeOK ==
    /\ input \in Seq(Types) /\ output \in Seq(Types) /\ done \in BOOLEAN
    /\ done => input = << >>

\* The list holds a class once, and nothing is forgotten or made up.
NothingLost ==
    /\ \A i, j \in DOMAIN output : output[i] = output[j] => i = j
    /\ Root \in Seen /\ Seen \subseteq Nearby[Count]
    /\ \A c \in ToSet(output) : Leads(c) \subseteq Seen

\* The list is in order of distance, and complete up to the distance of its
\* last class but for classes as far as that one.
ListInOrder ==
    \A k \in 0..Count :
        /\ \A i, j \in DOMAIN output :
             i < j /\ output[j] \in Nearby[k] => output[i] \in Nearby[k]
        /\ Nearby[k] \subseteq ToSet(output) \/ ToSet(output) \subseteq Nearby[k]

\* A class stands in the queue behind all nearer ones that are not in the list.
QueueInOrder ==
    \A k \in 0..Count : \A i \in DOMAIN input :
        input[i] \notin Nearby[k]
            => Nearby[k] \subseteq ToSet(output) \cup {input[j] : j \in 1..i - 1}

SearchInv == Acyclic /\ SearchTypeOK /\ NothingLost /\ ListInOrder /\ QueueInOrder

-----------------------------------------------------------------------------

\* A finite set as a list holds what the set holds.
LEMMA ListOfSet ==
    ASSUME NEW S, IsFiniteSet(S)
    PROVE  SetToSeq(S) \in Seq(S)
<1> DEFINE n == Cardinality(S)
<1>1. n \in Nat /\ ExistsBijection(1..n, S)
  BY FS_CardinalityType
<1> HIDE DEF n
<1>2. PICK f \in [1..n -> S] : IsInjective(f)
  BY <1>1 DEF ExistsBijection, Bijection, Injection, IsInjective
<1>3. (CHOOSE g \in [1..n -> S] : IsInjective(g)) \in [1..n -> S]
  BY <1>2, Zenon
<1>4. SetToSeq(S) \in [1..n -> S]
  BY <1>3 DEF SetToSeq, n
<1> QED BY <1>1, <1>4

\* So does the reversed list.
LEMMA ListReversed ==
    ASSUME NEW S, NEW s \in Seq(S)
    PROVE  Reverse(s) \in Seq(S)
<1> DEFINE n == Len(s)
<1>1. n \in Nat /\ \A i \in 1..n : (n - i) + 1 \in 1..n
  OBVIOUS
<1>2. \A i \in 1..n : s[(n - i) + 1] \in S
  BY <1>1
<1>3. Reverse(s) \in [1..n -> S]
  BY <1>2 DEF Reverse
<1> QED BY <1>1, <1>3

\* Classes after c are finitely many.
LEMMA LaterFinite ==
    ASSUME NEW c \in Types, NEW s \in SUBSET (c + 1..Count)
    PROVE  IsFiniteSet(s)
<1>1. c \in Int /\ c + 1 \in Int /\ Count \in Int
  BY ClassSearchAssumption DEF Types
<1> QED BY <1>1, FS_Interval, FS_Subset

\* The ways to list classes after c.
LEMMA ListsFacts ==
    ASSUME NEW c \in Types, NEW l \in Lists(c)
    PROVE  l \in Seq(Types) /\ \A d \in ToSet(l) : d > c
<1>1. PICK s \in SUBSET (c + 1..Count) : l \in {SetToSeq(s), Reverse(SetToSeq(s))}
  BY DEF Lists
<1>2. IsFiniteSet(s)
  BY LaterFinite
<1>3. l \in Seq(s)
  BY <1>1, <1>2, ListOfSet, ListReversed
<1>4. Count \in Nat /\ c \in 1..Count
  BY ClassSearchAssumption DEF Types
<1>5. s \subseteq Types /\ \A d \in s : d > c
  BY <1>4 DEF Types
<1>6. \A i \in DOMAIN l : l[i] \in s
  BY <1>3
<1> QED BY <1>3, <1>5, <1>6 DEF ToSet

\* Both kinds of graphs lead from a class to later ones.
LEMMA WorldsAcyclic == InheritWorld \/ InnerWorld => Acyclic
<1>0. Count \in Nat /\ Types = 1..Count
  BY ClassSearchAssumption DEF Types
<1>1. ASSUME InheritWorld PROVE Acyclic
  <2>1. /\ super \in [Types -> Types \cup {NoType}]
        /\ \A c \in Types : super[c] = NoType \/ super[c] > c
    BY <1>1 DEF InheritWorld
  <2>2. DOMAIN members = Types /\ \A c \in Types : members[c] \in Lists(c)
    BY <1>1 DEF InheritWorld
  <2>3. members = [c \in Types |-> members[c]]
    BY <1>1 DEF InheritWorld
  <2>4. \A c \in Types : members[c] \in Seq(Types) /\ \A d \in ToSet(members[c]) : d > c
    BY <2>2, ListsFacts
  <2>5. \A c \in Types : DOMAIN numbered[c] = {}
    BY <1>1 DEF InheritWorld
  <2>6. members \in [Types -> Seq(Types)]
    BY <2>3, <2>4
  <2> QED BY <2>1, <2>4, <2>5, <2>6 DEF Acyclic
<1>2. ASSUME InnerWorld PROVE Acyclic
  <2>1. PICK declarer \in {d \in [Types -> Types \cup {NoType}] : \A c \in Types : d[c] < c},
             number \in [Types -> 0..Count] :
         LET Of(c) == {d \in Types : declarer[d] = c}
         IN  /\ members = [c \in Types |-> SetToSeq({d \in Of(c) : number[d] = 0})]
             /\ numbered = [c \in Types |->
                  [n \in {number[d] : d \in Of(c)} \ {0} |->
                     CHOOSE d \in Of(c) : number[d] = n]]
    BY <1>2 DEF InnerWorld
  <2> DEFINE Of(c) == {d \in Types : declarer[d] = c}
  <2>2. \A c \in Types : \A d \in Of(c) : d \in Types /\ d > c
    BY <1>0, <2>1
  <2>3. ASSUME NEW c \in Types
        PROVE  members[c] \in Seq(Types) /\ \A d \in ToSet(members[c]) : d > c
    <3> DEFINE s == {d \in Of(c) : number[d] = 0}
    <3>1. s \in SUBSET (c + 1..Count)
      BY <1>0, <2>2
    <3>2. members[c] = SetToSeq(s)
      BY <2>1
    <3> HIDE DEF s, Of
    <3> QED BY <3>1, <3>2, ListsFacts DEF Lists
  <2>4. ASSUME NEW c \in Types, NEW n \in DOMAIN numbered[c]
        PROVE  n \in Types /\ numbered[c][n] \in Types /\ numbered[c][n] > c
    <3>1. numbered[c] = [m \in {number[d] : d \in Of(c)} \ {0} |-> CHOOSE d \in Of(c) : number[d] = m]
      BY <2>1
    <3> HIDE DEF Of
    <3>2. n \in {number[d] : d \in Of(c)} \ {0}
      BY <2>4, <3>1
    <3>3. numbered[c][n] = CHOOSE d \in Of(c) : number[d] = n
      BY <3>1, <3>2
    <3>4. PICK d \in Of(c) : number[d] = n
      BY <3>2
    <3>5. numbered[c][n] \in Of(c)
      BY <3>3, <3>4
    <3>6. n \in 0..Count /\ n # 0
      BY <2>1, <2>2, <3>2, <3>4
    <3> QED BY <1>0, <2>2, <3>5, <3>6
  <2>5. /\ members = [c \in Types |-> members[c]]
        /\ super = [c \in Types |-> NoType]
    BY <1>2, <2>1 DEF InnerWorld
  <2>6. members \in [Types -> Seq(Types)] /\ super \in [Types -> Types \cup {NoType}]
    BY <2>3, <2>5
  <2> QED BY <2>3, <2>4, <2>5, <2>6 DEF Acyclic
<1> QED BY <1>1, <1>2

\* The numbers the loop over c$1, c$2, ... gets to.
Reached(c) == {n \in DOMAIN numbered[c] : 1..n \subseteq DOMAIN numbered[c]}

\* They are the first ones.
LEMMA ReachedFirst ==
    ASSUME Acyclic, NEW c \in Types
    PROVE  Cardinality(Reached(c)) \in Nat /\ Reached(c) = 1..Cardinality(Reached(c))
<1> DEFINE D == DOMAIN numbered[c]
           B == 1..(Count + 1) \ Reached(c)
<1>1. Count \in Nat /\ D \subseteq 1..Count /\ Reached(c) = {n \in D : 1..n \subseteq D}
  BY ClassSearchAssumption DEF Acyclic, Types, Reached
<1> HIDE DEF D
<1>2. B \in SUBSET Nat /\ Count + 1 \in B
  BY <1>1
<1>3. PICK m \in B : \A i \in B : m <= i
  BY <1>2, MinOfNats
<1>4. ASSUME NEW n \in Reached(c), NEW i \in 1..n PROVE i \in Reached(c)
  <2>1. n \in 1..Count /\ 1..n \subseteq D
    BY <1>1
  <2>2. i \in D /\ \A j \in 1..i : j \in 1..n
    BY <2>1
  <2>3. 1..i \subseteq D
    BY <2>1, <2>2
  <2> QED BY <1>1, <2>2, <2>3
<1>5. m \in Nat /\ m - 1 \in Nat
  BY <1>1, <1>3
<1>6. \A n \in 1..m - 1 : n \in Reached(c)
  BY <1>1, <1>3, <1>5
<1>7. ASSUME NEW n \in Reached(c) PROVE n \in 1..m - 1
  <2>1. n \in 1..Count
    BY <1>1
  <2>2. ~(m <= n)
    <3> SUFFICES ASSUME m <= n PROVE FALSE
      OBVIOUS
    <3>1. m \in 1..n
      BY <1>3, <1>5, <2>1
    <3> QED BY <1>3, <1>4, <3>1
  <2> QED BY <1>5, <2>1, <2>2
<1> HIDE DEF B
<1>8. Reached(c) = 1..m - 1
  BY <1>6, <1>7
<1>9. Cardinality(1..m - 1) = m - 1
  <2>1. Cardinality(1..m - 1) = IF 1 > m - 1 THEN 0 ELSE (m - 1) - 1 + 1
    BY <1>5, FS_Interval
  <2> QED BY <1>5, <2>1
<1> QED BY <1>5, <1>8, <1>9

\* A visit queues exactly the classes c leads to, all of them later than c.
LEMMA NeighboursFacts ==
    ASSUME Acyclic, NEW c \in Types
    PROVE  /\ Neighbours(c) \in Seq(Types) /\ ToSet(Neighbours(c)) = Leads(c)
           /\ \A d \in Leads(c) : d > c
<1> DEFINE s == IF super[c] # NoType THEN <<super[c]>> ELSE << >>
           m == members[c]
           k == Cardinality(Reached(c))
           a == [n \in 1..k |-> numbered[c][n]]
<1>0. Count \in Nat /\ Types = 1..Count
  BY ClassSearchAssumption DEF Types
<1>1. k \in Nat /\ Reached(c) = 1..k
  BY ReachedFirst
<1>2. Anonymous(c) = a
  BY DEF Anonymous, Reached
<1>3. s \in Seq(Types) /\ m \in Seq(Types)
  BY DEF Acyclic
<1>4. \A n \in 1..k : n \in DOMAIN numbered[c] /\ numbered[c][n] \in Types /\ numbered[c][n] > c
  BY <1>1 DEF Acyclic, Reached
<1>5. a \in Seq(Types)
  <2> HIDE DEF k
  <2> QED BY <1>1, <1>4
<1>6. ToSet(s) = {d \in Types : d = super[c]}
  BY <1>0 DEF Acyclic, ToSet, NoType
<1>7. ToSet(a) = {numbered[c][n] : n \in 1..k}
  <2> HIDE DEF k
  <2> QED BY DEF ToSet
<1>8. ASSUME NEW d \in Types
      PROVE  d \in Leads(c) <=> d \in ToSet(s) \/ d \in ToSet(m) \/ d \in ToSet(a)
  <2>1. (\E n \in DOMAIN numbered[c] : d = numbered[c][n] /\ \A i \in 1..n : i \in DOMAIN numbered[c])
          <=> \E n \in Reached(c) : d = numbered[c][n]
    BY DEF Reached
  <2> HIDE DEF a, k, s, m
  <2>2. d \in ToSet(a) <=> \E n \in Reached(c) : d = numbered[c][n]
    BY <1>1, <1>7
  <2>3. d \in ToSet(s) <=> d = super[c]
    BY <1>6
  <2> QED BY <2>1, <2>2, <2>3 DEF Leads, m
<1>9. Neighbours(c) = (s \o m) \o a
  BY <1>2 DEF Neighbours
<1>10. ASSUME NEW d \in Leads(c) PROVE d > c
  <2>1. d \in Types
    BY DEF Leads
  <2>2. CASE d \in ToSet(s)
    BY <1>0, <1>6, <2>1, <2>2 DEF Acyclic, NoType
  <2>3. CASE d \in ToSet(m)
    BY <2>3 DEF Acyclic
  <2>4. CASE d \in ToSet(a)
    BY <1>4, <1>7, <2>4
  <2> QED BY <1>8, <1>10, <2>1, <2>2, <2>3, <2>4
<1>11. Leads(c) \subseteq Types
  BY DEF Leads
<1> HIDE DEF s, m, a
<1>12. /\ (s \o m) \o a \in Seq(Types)
       /\ ToSet((s \o m) \o a) = ToSet(s) \cup ToSet(m) \cup ToSet(a)
  <2> DEFINE sm == s \o m
  <2>1. sm \in Seq(Types) /\ ToSet(sm) = ToSet(s) \cup ToSet(m)
    BY <1>3, ConcatSet
  <2> HIDE DEF sm
  <2>2. sm \o a \in Seq(Types) /\ ToSet(sm \o a) = ToSet(sm) \cup ToSet(a)
    BY <1>5, <2>1, ConcatSet
  <2> QED BY <2>1, <2>2 DEF sm
<1>13. ToSet(s) \subseteq Types /\ ToSet(m) \subseteq Types /\ ToSet(a) \subseteq Types
  BY <1>3, <1>5 DEF ToSet
<1>14. ToSet(s) \cup ToSet(m) \cup ToSet(a) = Leads(c)
  BY <1>8, <1>11, <1>13
<1> QED BY <1>9, <1>10, <1>12, <1>14

-----------------------------------------------------------------------------

\* The classes at most k steps from the root, step by step.
LEMMA BallFacts ==
    ASSUME NEW steps
    PROVE  LET B == Ball(steps)
           IN  /\ B \in [0..Count -> SUBSET Types] /\ B[0] = {Root}
               /\ \A k \in 1..Count : B[k] = B[k - 1] \cup
                    {d \in Types : \E c \in B[k - 1] : <<c, d>> \in steps}
<1> DEFINE Then(near) ==
             near \cup {d \in Types : \E c \in near : <<c, d>> \in steps}
           B == Ball(steps)
           Is(w, n) == /\ w = [k \in 0..n |-> IF k = 0 THEN {Root} ELSE Then(w[k - 1])]
                       /\ w \in [0..n -> SUBSET Types]
           G == {n \in 0..Count : \E w : Is(w, n)}
<1>1. Count \in Nat /\ Root \in Types
  BY ClassSearchAssumption DEF Root, Types
<1>2. \A near \in SUBSET Types : Then(near) \in SUBSET Types
  OBVIOUS
<1> HIDE DEF Then
<1>3. 0 \in G
  <2> DEFINE z == [k \in 0..0 |-> {Root}]
  <2>1. \A k \in 0..0 : k = 0
    OBVIOUS
  <2>2. DOMAIN z = 0..0 /\ \A k \in 0..0 : z[k] = IF k = 0 THEN {Root} ELSE Then(z[k - 1])
    BY <2>1
  <2>3. z \in [0..0 -> SUBSET Types]
    BY <1>1
  <2> HIDE DEF z
  <2>4. z = [k \in 0..0 |-> IF k = 0 THEN {Root} ELSE Then(z[k - 1])]
    BY <2>2, <2>3
  <2> QED BY <1>1, <2>3, <2>4
<1>4. ASSUME NEW n \in 1..Count, n - 1 \in G PROVE n \in G
  <2>1. PICK w : Is(w, n - 1)
    BY <1>4
  <2> DEFINE z == [k \in 0..n |-> IF k = n THEN Then(w[n - 1]) ELSE w[k]]
  <2>2. n \in 0..Count /\ n - 1 \in Nat /\ n - 1 \in 0..n - 1
    BY <1>1
  <2>3. z \in [0..n -> SUBSET Types]
    <3>1. w[n - 1] \in SUBSET Types /\ Then(w[n - 1]) \in SUBSET Types
      BY <1>2, <2>1, <2>2
    <3>2. \A k \in 0..n : k # n => k \in 0..n - 1
      BY <2>2
    <3> QED BY <2>1, <3>1, <3>2
  <2>4. ASSUME NEW k \in 0..n PROVE z[k] = IF k = 0 THEN {Root} ELSE Then(z[k - 1])
    <3>1. CASE k = n
      <4>1. n - 1 \in 0..n /\ n - 1 # n /\ n # 0
        BY <2>2
      <4> QED BY <3>1, <4>1
    <3>2. CASE k # n
      <4>1. k \in 0..n - 1 /\ (k # 0 => k - 1 \in 0..n /\ k - 1 # n)
        BY <2>2, <3>2
      <4>2. z[k] = w[k] /\ (k # 0 => z[k - 1] = w[k - 1])
        BY <3>2, <4>1
      <4>3. w[k] = IF k = 0 THEN {Root} ELSE Then(w[k - 1])
        BY <2>1, <4>1
      <4> QED BY <4>2, <4>3
    <3> QED BY <3>1, <3>2
  <2> HIDE DEF z
  <2>5. Is(z, n)
    BY <2>3, <2>4
  <2> QED BY <2>2, <2>5
<1>5. PICK w : Is(w, Count)
  <2> HIDE DEF G
  <2>1. \A n \in 0..Count : n \in G
    BY <1>1, <1>3, <1>4, UpTo
  <2>2. Count \in G
    BY <1>1, <2>1
  <2> QED BY <2>2 DEF G
<1>6. B = [k \in 0..Count |-> IF k = 0 THEN {Root} ELSE Then(B[k - 1])]
  <2> DEFINE F(v) == [k \in 0..Count |-> IF k = 0 THEN {Root} ELSE Then(v[k - 1])]
  <2>1. B = CHOOSE v : v = F(v)
    BY Zenon DEF Ball, Then
  <2>2. w = F(w)
    BY <1>5
  <2> HIDE DEF F, Is
  <2>3. B = F(B)
    BY <2>1, <2>2, Zenon
  <2> QED BY <2>3 DEF F
<1>7. DOMAIN B = 0..Count /\ \A k \in 0..Count : B[k] = IF k = 0 THEN {Root} ELSE Then(B[k - 1])
  BY <1>6, Zenon
<1>8. B[0] = {Root} /\ \A k \in 1..Count : B[k] = Then(B[k - 1])
  BY <1>1, <1>7
<1>9. \A k \in 0..Count : B[k] \in SUBSET Types
  <2> DEFINE H == {k \in 0..Count : B[k] \in SUBSET Types}
  <2>1. 0 \in H
    BY <1>1, <1>8
  <2>2. ASSUME NEW n \in 1..Count, n - 1 \in H PROVE n \in H
    BY <1>1, <1>2, <1>8, <2>2
  <2> HIDE DEF H
  <2>3. \A n \in 0..Count : n \in H
    BY <1>1, <2>1, <2>2, UpTo
  <2> QED BY <2>3 DEF H
<1>10. B \in [0..Count -> SUBSET Types]
  BY <1>6, <1>7, <1>9
<1> QED BY <1>8, <1>10, Zenon DEF Then, B

\* The classes a search gets to in k steps.
LEMMA NearbyFacts ==
    /\ Nearby \in [0..Count -> SUBSET Types]
    /\ Nearby[0] = {Root}
    /\ \A k \in 1..Count :
         Nearby[k] = Nearby[k - 1] \cup {d \in Types : \E c \in Nearby[k - 1] : d \in Leads(c)}
<1> DEFINE R == {step \in Types \X Types : step[2] \in Leads(step[1])}
           N == Ball(R)
<1>1. /\ N \in [0..Count -> SUBSET Types] /\ N[0] = {Root}
      /\ \A k \in 1..Count :
           N[k] = N[k - 1] \cup {d \in Types : \E c \in N[k - 1] : <<c, d>> \in R}
  <2> HIDE DEF R
  <2> QED BY BallFacts
<1>2. \A c, d \in Types : <<c, d>> \in R <=> d \in Leads(c)
  OBVIOUS
<1> HIDE DEF N, R
<1>3. ASSUME NEW k \in 1..Count
      PROVE  {d \in Types : \E c \in N[k - 1] : <<c, d>> \in R}
               = {d \in Types : \E c \in N[k - 1] : d \in Leads(c)}
  <2>1. k - 1 \in 0..Count
    BY ClassSearchAssumption
  <2>2. N[k - 1] \subseteq Types
    BY <1>1, <2>1
  <2> QED BY <1>2, <2>2
<1>4. ASSUME NEW k \in 1..Count
      PROVE  N[k] = N[k - 1] \cup {d \in Types : \E c \in N[k - 1] : d \in Leads(c)}
  BY <1>1, <1>3
<1> QED BY <1>1, <1>4, Zenon DEF N, R, Nearby

\* The classes that all names together get to in k steps.
LEMMA WithinFacts ==
    /\ Within \in [0..Count -> SUBSET Types]
    /\ Within[0] = {Root}
    /\ \A k \in 1..Count :
         Within[k] = Within[k - 1] \cup {d \in Types : \E c \in Within[k - 1] : d \in Names(c)}
<1> DEFINE R == {step \in Types \X Types : step[2] \in Names(step[1])}
           N == Ball(R)
<1>1. /\ N \in [0..Count -> SUBSET Types] /\ N[0] = {Root}
      /\ \A k \in 1..Count :
           N[k] = N[k - 1] \cup {d \in Types : \E c \in N[k - 1] : <<c, d>> \in R}
  <2> HIDE DEF R
  <2> QED BY BallFacts
<1>2. \A c, d \in Types : <<c, d>> \in R <=> d \in Names(c)
  OBVIOUS
<1> HIDE DEF N, R
<1>3. ASSUME NEW k \in 1..Count
      PROVE  {d \in Types : \E c \in N[k - 1] : <<c, d>> \in R}
               = {d \in Types : \E c \in N[k - 1] : d \in Names(c)}
  <2>1. k - 1 \in 0..Count
    BY ClassSearchAssumption
  <2>2. N[k - 1] \subseteq Types
    BY <1>1, <2>1
  <2> QED BY <1>2, <2>2
<1>4. ASSUME NEW k \in 1..Count
      PROVE  N[k] = N[k - 1] \cup {d \in Types : \E c \in N[k - 1] : d \in Names(c)}
  BY <1>1, <1>3
<1> QED BY <1>1, <1>4, Zenon DEF N, R, Within

\* The graph is as long as it is deep: after Count steps nothing new is found.
LEMMA NearbyClosed ==
    ASSUME Acyclic
    PROVE  \A c \in Nearby[Count] : Leads(c) \subseteq Nearby[Count]
<1> DEFINE W == Nearby
           New(k) == \A c \in W[k] : c \in W[k - 1] \/ c >= k + 1
           G == {k \in 0..Count : k = 0 \/ New(k)}
<1>1. Count \in Nat /\ Count # 0 /\ Types = 1..Count
  BY ClassSearchAssumption DEF Types
<1>2. /\ W \in [0..Count -> SUBSET Types] /\ W[0] = {1}
      /\ \A k \in 1..Count : W[k] = W[k - 1] \cup {d \in Types : \E c \in W[k - 1] : d \in Leads(c)}
  BY NearbyFacts DEF Root
<1>3. \A c \in Types : \A d \in Leads(c) : d \in Types /\ d > c
  BY NeighboursFacts DEF Leads
<1> HIDE DEF W
<1>4. 0 \in G
  BY <1>1
<1>5. ASSUME NEW k \in 1..Count, k - 1 \in G PROVE k \in G
  <2>1. k \in 0..Count /\ k - 1 \in 0..Count /\ k \in Nat
    BY <1>1
  <2>2. ASSUME NEW c \in W[k], c \notin W[k - 1] PROVE c >= k + 1
    <3>1. PICK b \in W[k - 1] : c \in Leads(b)
      BY <1>2, <2>2
    <3>2. b \in 1..Count /\ c \in 1..Count /\ c > b
      BY <1>1, <1>2, <1>3, <2>1, <3>1
    <3>3. CASE k = 1
      BY <3>2, <3>3
    <3>4. CASE k # 1
      <4>1. k - 1 \in 1..Count /\ k - 1 # 0 /\ (k - 1) - 1 \in 0..Count
        BY <1>1, <2>1, <3>4
      <4>2. New(k - 1)
        BY <1>5, <4>1
      <4>3. b \notin W[(k - 1) - 1]
        BY <1>1, <1>2, <2>2, <3>1, <3>2, <4>1
      <4>4. b >= (k - 1) + 1
        BY <3>1, <4>2, <4>3
      <4> QED BY <2>1, <3>2, <4>4
    <3> QED BY <3>3, <3>4
  <2> QED BY <2>1, <2>2
<1> HIDE DEF G
<1>6. \A k \in 0..Count : k \in G
  BY <1>1, <1>4, <1>5, UpTo
<1>7. New(Count)
  BY <1>1, <1>6 DEF G
<1>8. Count \in 1..Count /\ Count \in 0..Count /\ Count - 1 \in 0..Count
  BY <1>1
<1>9. ASSUME NEW c \in W[Count] PROVE c \in W[Count - 1]
  <2>1. c \in 1..Count
    BY <1>1, <1>2, <1>8
  <2> QED BY <1>1, <1>7, <2>1
<1>10. ASSUME NEW c \in W[Count], NEW d \in Leads(c) PROVE d \in W[Count]
  <2>1. c \in W[Count - 1] /\ c \in Types
    BY <1>2, <1>8, <1>9
  <2>2. d \in Types
    BY <1>3, <2>1
  <2> QED BY <1>2, <1>8, <2>1, <2>2
<1> QED BY <1>10 DEF W

\* What is near stays near.
LEMMA NearbyGrows ==
    \A k \in 0..Count : Root \in Nearby[k] /\ Nearby[k] \subseteq Nearby[Count]
<1>1. Count \in Nat
  BY ClassSearchAssumption
<1> DEFINE W == Nearby
           H == {n \in 0..Count : Root \in W[n]}
           G == {n \in 0..Count : W[Count - n] \subseteq W[Count]}
<1>2. W[0] = {Root} /\ \A k \in 1..Count : W[k - 1] \subseteq W[k]
  BY NearbyFacts
<1> HIDE DEF W
<1>3. \A k \in 0..Count : k \in H
  <2>1. 0 \in H
    BY <1>1, <1>2
  <2>2. ASSUME NEW n \in 1..Count, n - 1 \in H PROVE n \in H
    BY <1>1, <1>2, <2>2
  <2> HIDE DEF H
  <2> QED BY <1>1, <2>1, <2>2, UpTo
<1>4. \A k \in 0..Count : k \in G
  <2>1. 0 \in G
    BY <1>1
  <2>2. ASSUME NEW n \in 1..Count, n - 1 \in G PROVE n \in G
    <3> DEFINE k == Count - (n - 1)
    <3>1. k \in 1..Count /\ k - 1 = Count - n /\ n \in 0..Count
      BY <1>1
    <3>2. W[k] \subseteq W[Count]
      BY <2>2
    <3> HIDE DEF k
    <3> QED BY <1>2, <3>1, <3>2
  <2> HIDE DEF G
  <2> QED BY <1>1, <2>1, <2>2, UpTo
<1>5. ASSUME NEW k \in 0..Count PROVE W[k] \subseteq W[Count]
  <2>1. Count - k \in 0..Count /\ Count - (Count - k) = k
    BY <1>1
  <2> QED BY <1>4, <2>1
<1> QED BY <1>3, <1>5 DEF W

\* The searches leave the classes as they are.
LEMMA WorldStays ==
    ASSUME UNCHANGED world
    PROVE  /\ Nearby' = Nearby /\ (Acyclic' <=> Acyclic)
           /\ \A c : Leads(c)' = Leads(c)
<1>1. super' = super /\ members' = members /\ numbered' = numbered
  BY DEF world
<1>2. Acyclic' <=> Acyclic
  BY <1>1 DEF Acyclic
<1>3. \A c : Leads(c)' = Leads(c)
  BY <1>1 DEF Leads
<1>4. Nearby' = Nearby
  <2> DEFINE R == {step \in Types \X Types : step[2] \in Leads(step[1])}
             R2 == {step \in Types \X Types : step[2] \in Leads(step[1])'}
  <2>1. R2 = R
    BY <1>3
  <2>2. Nearby = Ball(R) /\ Nearby' = Ball(R2)
    BY Zenon DEF Nearby
  <2> HIDE DEF R, R2
  <2> QED BY <2>1, <2>2
<1> QED BY <1>2, <1>3, <1>4

\* Only the root is queued.
LEMMA SearchInitially == SearchInit => SearchInv
<1> SUFFICES ASSUME SearchInit PROVE SearchInv
  OBVIOUS
<1>1. Acyclic
  BY WorldsAcyclic DEF SearchInit
<1>2. Count \in Nat /\ Root \in Types
  BY ClassSearchAssumption DEF Root, Types
<1>3. input = <<Root>> /\ output = << >> /\ done = FALSE
  BY DEF SearchInit
<1>4. /\ ToSet(input) = {Root} /\ ToSet(output) = {} /\ DOMAIN output = {}
      /\ DOMAIN input = {1} /\ input[1] = Root
  <2>1. DOMAIN output = {} /\ DOMAIN input = {1} /\ input[1] = Root
    BY <1>3
  <2>2. ToSet(output) = {}
    BY <2>1 DEF ToSet
  <2>3. ToSet(input) = {Root}
    BY <2>1, Zenon DEF ToSet
  <2> QED BY <2>1, <2>2, <2>3
<1>5. SearchTypeOK
  <2>1. <<Root>> \in Seq(Types) /\ << >> \in Seq(Types)
    BY <1>2
  <2> QED BY <1>3, <2>1, Zenon DEF SearchTypeOK
<1>6. Count \in 0..Count /\ \A k \in 0..Count : Root \in Nearby[k]
  BY <1>2, NearbyGrows
<1>7. NothingLost
  BY <1>4, <1>6 DEF NothingLost, Seen
<1>8. ListInOrder
  BY <1>4 DEF ListInOrder
<1>9. QueueInOrder
  BY <1>4, <1>6 DEF QueueInOrder
<1> QED BY <1>1, <1>5, <1>7, <1>8, <1>9 DEF SearchInv

\* A class that is known already leaves the queue.
LEMMA KnownStep ==
    ASSUME SearchInv, Known PROVE SearchInv'
<1> DEFINE h == Head(input)
           t == Tail(input)
           n == Len(t)
<1>1. /\ input # << >> /\ h \in ToSet(output) /\ input' = t /\ output' = output /\ done' = done
      /\ UNCHANGED world
    BY DEF Known
<1>2. Nearby' = Nearby /\ Acyclic' /\ \A c : Leads(c)' = Leads(c)
  BY <1>1, WorldStays DEF SearchInv
<1>3. /\ t \in Seq(Types) /\ n \in Nat /\ DOMAIN t = 1..n /\ DOMAIN input = 1..n + 1 /\ h = input[1]
      /\ \A i \in 1..n : t[i] = input[i + 1]
  BY <1>1, HeadTailProperties, LenProperties DEF SearchInv, SearchTypeOK
<1>4. ToSet(input) = {h} \cup ToSet(t)
  BY <1>1, HeadTailSet DEF SearchInv, SearchTypeOK
<1> HIDE DEF h, t, n
<1>5. SearchTypeOK'
  BY <1>1, <1>3 DEF SearchInv, SearchTypeOK
<1>6. Seen' = Seen /\ ToSet(output)' = ToSet(output)
  BY <1>1, <1>4 DEF Seen
<1>7. NothingLost'
  BY <1>1, <1>2, <1>6 DEF SearchInv, NothingLost
<1>8. ListInOrder'
  BY <1>1, <1>2, <1>6 DEF SearchInv, ListInOrder
<1>9. QueueInOrder'
  <2> SUFFICES ASSUME NEW k \in 0..Count, NEW i \in 1..n, t[i] \notin Nearby[k], NEW x \in Nearby[k]
               PROVE  x \in ToSet(output) \cup {t[j] : j \in 1..i - 1}
    BY <1>1, <1>2, <1>3, <1>6 DEF QueueInOrder
  <2>1. i + 1 \in DOMAIN input /\ input[i + 1] \notin Nearby[k] /\ (i + 1) - 1 = i
    BY <1>3
  <2>2. x \in ToSet(output) \cup {input[j] : j \in 1..i}
    BY <2>1 DEF SearchInv, QueueInOrder
  <2>3. ASSUME NEW j \in 1..i, x = input[j] PROVE x \in ToSet(output) \cup {t[m] : m \in 1..i - 1}
    <3>1. CASE j = 1
      BY <1>1, <1>3, <2>3, <3>1
    <3>2. CASE j # 1
      <4>1. j - 1 \in 1..n /\ j - 1 \in 1..i - 1 /\ (j - 1) + 1 = j
        BY <1>3, <3>2
      <4>2. x = t[j - 1]
        BY <1>3, <2>3, <4>1
      <4> QED BY <4>1, <4>2
    <3> QED BY <3>1, <3>2
  <2> QED BY <2>2, <2>3
<1> QED BY <1>2, <1>5, <1>7, <1>8, <1>9 DEF SearchInv

\* A new class is listed, and what it leads to is queued behind the others.
LEMMA VisitStep ==
    ASSUME SearchInv, Visit PROVE SearchInv'
<1> DEFINE h == Head(input)
           t == Tail(input)
           n == Len(t)
           r == Neighbours(h)
           W == Nearby
<1>1. /\ input # << >> /\ h \notin ToSet(output) /\ input' = t \o r /\ output' = Append(output, h)
      /\ done' = done /\ UNCHANGED world
    BY DEF Visit
<1>2. Nearby' = W /\ Acyclic' /\ \A c : Leads(c)' = Leads(c)
  BY <1>1, WorldStays DEF SearchInv
<1>3. /\ t \in Seq(Types) /\ n \in Nat /\ DOMAIN t = 1..n /\ DOMAIN input = 1..n + 1 /\ h = input[1]
      /\ \A i \in 1..n : t[i] = input[i + 1]
  BY <1>1, HeadTailProperties, LenProperties DEF SearchInv, SearchTypeOK
<1>4. ToSet(input) = {h} \cup ToSet(t)
  BY <1>1, HeadTailSet DEF SearchInv, SearchTypeOK
<1>5. h \in Types /\ output \in Seq(Types) /\ input \in Seq(Types) /\ done = FALSE
  BY <1>1, <1>3 DEF SearchInv, SearchTypeOK
<1>6. r \in Seq(Types) /\ ToSet(r) = Leads(h) /\ \A d \in Leads(h) : d > h
  BY <1>5, NeighboursFacts DEF SearchInv
<1> HIDE DEF h, t, n, r
<1>7. t \o r \in Seq(Types) /\ ToSet(t \o r) = ToSet(t) \cup ToSet(r)
  BY <1>3, <1>6, ConcatSet
<1>8. /\ output' \in Seq(Types) /\ ToSet(output') = ToSet(output) \cup {h}
  BY <1>1, <1>5, AppendedSet
<1>9. SearchTypeOK'
  BY <1>1, <1>5, <1>7, <1>8 DEF SearchTypeOK
<1>10. Seen' = Seen \cup Leads(h) /\ h \in Seen
  BY <1>1, <1>4, <1>6, <1>7, <1>8 DEF Seen
<1>11. /\ W \in [0..Count -> SUBSET Types] /\ W[0] = {Root}
       /\ \A k \in 1..Count : W[k] = W[k - 1] \cup {d \in Types : \E c \in W[k - 1] : d \in Leads(c)}
  BY NearbyFacts
<1>12. Count \in Nat
  BY ClassSearchAssumption
<1> DEFINE m == Len(output)
<1>13. /\ m \in Nat /\ DOMAIN output = 1..m /\ DOMAIN output' = 1..m + 1
       /\ output'[m + 1] = h /\ \A i \in 1..m : output'[i] = output[i]
  <2>1. Len(output') = m + 1 /\ output'[m + 1] = h /\ \A i \in 1..m : output'[i] = output[i]
    BY <1>1, <1>5, PushFacts
  <2> QED BY <1>5, <1>8, <2>1, LenProperties
<1> HIDE DEF m
<1>14. ToSet(output) = {output[i] : i \in 1..m}
  BY <1>13 DEF ToSet
<1>15. NothingLost'
  <2>1. \A i, j \in 1..m : output[i] = output[j] => i = j
    BY <1>13 DEF SearchInv, NothingLost
  <2>2. \A i, j \in 1..m + 1 : output'[i] = output'[j] => i = j
    <3>1. \A i \in 1..m : output[i] # h
      BY <1>1, <1>14
    <3>2. \A i \in 1..m + 1 : i = m + 1 \/ i \in 1..m
      BY <1>13
    <3> QED BY <1>13, <2>1, <3>1, <3>2
  <2>3. Seen \subseteq W[Count] /\ Leads(h) \subseteq W[Count]
    BY <1>10, NearbyClosed DEF SearchInv, NothingLost
  <2>4. Root \in Seen' /\ Seen' \subseteq W[Count]
    BY <1>10, <2>3 DEF SearchInv, NothingLost
  <2>5. \A c \in ToSet(output') : Leads(c) \subseteq Seen'
    BY <1>8, <1>10 DEF SearchInv, NothingLost
  <2> HIDE DEF W
  <2> QED BY <1>2, <1>13, <2>2, <2>4, <2>5 DEF NothingLost
\* Before the queue's first class all nearer ones were visited.
<1>16. ASSUME NEW k \in 0..Count, h \notin W[k] PROVE W[k] \subseteq ToSet(output)
  <2>1. 1 \in DOMAIN input /\ input[1] \notin W[k]
    BY <1>3, <1>16
  <2>2. W[k] \subseteq ToSet(output) \cup {input[j] : j \in 1..1 - 1}
    BY <2>1 DEF SearchInv, QueueInOrder
  <2>3. 1..1 - 1 = {}
    OBVIOUS
  <2> QED BY <2>2, <2>3
<1> HIDE DEF W
<1>17. ListInOrder'
  <2> SUFFICES ASSUME NEW k \in 0..Count
               PROVE  /\ \A i, j \in 1..m + 1 :
                           i < j /\ output'[j] \in W[k] => output'[i] \in W[k]
                      /\ W[k] \subseteq ToSet(output') \/ ToSet(output') \subseteq W[k]
    BY <1>2, <1>13 DEF ListInOrder
  <2>1. /\ \A i, j \in 1..m : i < j /\ output[j] \in W[k] => output[i] \in W[k]
        /\ W[k] \subseteq ToSet(output) \/ ToSet(output) \subseteq W[k]
    BY <1>13 DEF SearchInv, ListInOrder, W
  <2>2. h \in W[k] => ToSet(output) \subseteq W[k]
    BY <1>1, <2>1
  <2>3. ASSUME NEW i \in 1..m + 1, NEW j \in 1..m + 1, i < j, output'[j] \in W[k]
        PROVE  output'[i] \in W[k]
    <3>1. i \in 1..m /\ output'[i] = output[i]
      BY <1>13, <2>3
    <3>2. CASE j = m + 1
      BY <1>13, <1>14, <2>2, <2>3, <3>1, <3>2
    <3>3. CASE j # m + 1
      <4>1. j \in 1..m /\ output'[j] = output[j]
        BY <1>13, <3>3
      <4> QED BY <2>1, <2>3, <3>1, <4>1
    <3> QED BY <3>2, <3>3
  <2>4. W[k] \subseteq ToSet(output') \/ ToSet(output') \subseteq W[k]
    BY <1>8, <1>16, <2>1
  <2> QED BY <2>3, <2>4
<1>18. QueueInOrder'
  <2> DEFINE q == t \o r
             l == Len(r)
  <2>1. /\ l \in Nat /\ DOMAIN q = 1..n + l /\ \A i \in 1..n : q[i] = t[i]
        /\ \A i \in 1..l : q[n + i] = r[i]
    <3>1. Len(q) = n + l /\ \A i \in 1..n : q[i] = t[i]
      BY <1>3, <1>6, ConcatFacts DEF n
    <3>2. \A i \in 1..l : q[n + i] = r[i]
      BY <1>3, <1>6, ConcatFacts DEF n
    <3> QED BY <1>6, <1>7, <3>1, <3>2, LenProperties
  <2>2. \A i \in 1..l : r[i] \in Leads(h)
    BY <1>6 DEF ToSet
  <2>5. input' = q
    BY <1>1
  <2> HIDE DEF q, l
  <2> SUFFICES ASSUME NEW k \in 0..Count, NEW i \in 1..n + l, q[i] \notin W[k], NEW x \in W[k]
               PROVE  x \in ToSet(output) \cup {h} \cup {q[j] : j \in 1..i - 1}
    BY <1>2, <1>8, <2>1, <2>5 DEF QueueInOrder
  <2>3. CASE i <= n
    <3>1. i + 1 \in DOMAIN input /\ input[i + 1] \notin W[k] /\ (i + 1) - 1 = i
      BY <1>3, <2>1, <2>3
    <3>2. x \in ToSet(output) \cup {input[j] : j \in 1..i}
      BY <3>1 DEF SearchInv, QueueInOrder, W
    <3>3. ASSUME NEW j \in 1..i, x = input[j] PROVE x \in {h} \cup {q[y] : y \in 1..i - 1}
      <4>1. CASE j = 1
        BY <1>3, <3>3, <4>1
      <4>2. CASE j # 1
        <5>1. j - 1 \in 1..n /\ j - 1 \in 1..i - 1 /\ (j - 1) + 1 = j
          BY <1>3, <2>3, <4>2
        <5>2. x = q[j - 1]
          BY <1>3, <2>1, <3>3, <5>1
        <5> QED BY <5>1, <5>2
      <4> QED BY <4>1, <4>2
    <3> QED BY <3>2, <3>3
  <2>4. CASE i > n
    <3>1. i - n \in 1..l /\ n + (i - n) = i
      BY <1>3, <2>1, <2>4
    <3>2. q[i] \in Leads(h)
      BY <2>1, <2>2, <3>1
    <3>3. x \in Seen
      <4>1. CASE k = 0
        BY <1>11, <4>1 DEF SearchInv, NothingLost
      <4>2. CASE k # 0
        <5>1. k \in 1..Count /\ k - 1 \in 0..Count
          BY <1>12, <4>2
        <5>2. q[i] \in Types
          BY <3>2 DEF Leads
        <5>3. h \notin W[k - 1]
          BY <1>11, <3>2, <5>1, <5>2
        <5>4. W[k - 1] \subseteq ToSet(output)
          BY <1>16, <5>1, <5>3
        <5>5. CASE x \in W[k - 1]
          BY <5>4, <5>5 DEF Seen
        <5>6. CASE x \notin W[k - 1]
          <6>1. PICK c \in W[k - 1] : x \in Leads(c)
            BY <1>11, <5>1, <5>6
          <6> QED BY <5>4, <6>1 DEF SearchInv, NothingLost
        <5> QED BY <5>5, <5>6
      <4> QED BY <4>1, <4>2
    <3>4. ASSUME x \in ToSet(t) PROVE x \in {q[j] : j \in 1..i - 1}
      <4>1. PICK j \in 1..n : x = t[j]
        BY <1>3, <3>4 DEF ToSet
      <4>2. j \in 1..i - 1 /\ q[j] = x
        BY <1>3, <2>1, <2>4, <4>1
      <4> QED BY <4>2
    <3> QED BY <1>4, <3>3, <3>4 DEF Seen
  <2> QED BY <1>3, <2>1, <2>3, <2>4
<1> QED BY <1>2, <1>9, <1>15, <1>17, <1>18 DEF SearchInv

\* Every step of the searches.
LEMMA SearchStep ==
    ASSUME SearchInv, [SearchNext]_searchVars PROVE SearchInv'
<1>1. ASSUME UNCHANGED <<world, input, output>>, done' = done \/ (done' = TRUE /\ input = << >>)
      PROVE  SearchInv'
  <2>1. Nearby' = Nearby /\ Acyclic' /\ \A c : Leads(c)' = Leads(c)
    BY <1>1, WorldStays DEF SearchInv
  <2>2. SearchTypeOK'
    <3>1. CASE done' = done
      BY <1>1, <3>1 DEF SearchInv, SearchTypeOK
    <3>2. CASE done' = TRUE /\ input = << >>
      BY <1>1, <3>2 DEF SearchInv, SearchTypeOK
    <3> QED BY <1>1, <3>1, <3>2
  <2>3. NothingLost' /\ ListInOrder' /\ QueueInOrder'
    BY <1>1, <2>1 DEF SearchInv, NothingLost, Seen, ListInOrder, QueueInOrder
  <2> QED BY <2>1, <2>2, <2>3 DEF SearchInv
<1>2. CASE Finish
  BY <1>1, <1>2 DEF Finish
<1>3. CASE UNCHANGED searchVars
  BY <1>1, <1>3 DEF searchVars, world
<1> QED BY <1>2, <1>3, KnownStep, VisitStep DEF SearchNext

\* The inductive invariant of the searches.
LEMMA SearchInvariance == SearchSpec => []SearchInv
BY SearchInitially, SearchStep, PTL DEF SearchSpec

\* Either a visit finds all that a class names, or a class is named by one
\* other: inheritance is not numbered, and inner classes form a forest.
OneWay ==
    \/ \A c \in Types : Names(c) \subseteq Leads(c)
    \/ \A b, c \in Types : \A d \in Names(b) \cap Names(c) : b = c

\* A visit finds what is named, and all of it where there is no gap.
LEMMA LeadsAndNames ==
    ASSUME Acyclic, NEW c \in Types
    PROVE  /\ Leads(c) \subseteq Names(c)
           /\ Names(c) \subseteq Types
           /\ Gapless(c) => Names(c) \subseteq Leads(c)
<1>1. Leads(c) \subseteq Names(c)
  BY DEF Leads, Names, Types, NoType
<1>2. Names(c) \subseteq Types
  BY DEF Names, Acyclic, ToSet
<1>3. ASSUME Gapless(c), NEW d \in Names(c) PROVE d \in Leads(c)
  <2>1. d \in Types
    BY <1>2
  <2>2. CASE d \in {super[c]} \ {NoType} \/ d \in ToSet(members[c])
    BY <2>1, <2>2 DEF Leads
  <2>3. CASE \E n \in DOMAIN numbered[c] : d = numbered[c][n]
    BY <1>3, <2>1, <2>3 DEF Leads, Gapless
  <2> QED BY <2>2, <2>3 DEF Names
<1> QED BY <1>1, <1>2, <1>3

\* Both kinds of graphs are like that.
LEMMA WorldsOneWay == InheritWorld \/ InnerWorld => OneWay
<1>0. Count \in Nat /\ Types = 1..Count
  BY ClassSearchAssumption DEF Types
<1>1. ASSUME InheritWorld PROVE OneWay
  <2>1. Acyclic
    BY <1>1, WorldsAcyclic
  <2>2. \A c \in Types : Gapless(c)
    BY <1>1 DEF InheritWorld, Gapless
  <2> QED BY <2>1, <2>2, LeadsAndNames DEF OneWay
<1>2. ASSUME InnerWorld PROVE OneWay
  <2>1. PICK declarer \in {d \in [Types -> Types \cup {NoType}] : \A c \in Types : d[c] < c},
             number \in [Types -> 0..Count] :
         LET Of(c) == {d \in Types : declarer[d] = c}
         IN  /\ members = [c \in Types |-> SetToSeq({d \in Of(c) : number[d] = 0})]
             /\ numbered = [c \in Types |->
                  [n \in {number[d] : d \in Of(c)} \ {0} |->
                     CHOOSE d \in Of(c) : number[d] = n]]
    BY <1>2 DEF InnerWorld
  <2> DEFINE Of(c) == {d \in Types : declarer[d] = c}
  <2>2. ASSUME NEW c \in Types, NEW d \in ToSet(members[c]) PROVE d \in Of(c)
    <3> DEFINE s == {e \in Of(c) : number[e] = 0}
    <3>1. IsFiniteSet(s)
      <4>1. IsFiniteSet(1..Count) /\ s \subseteq 1..Count
        BY <1>0, FS_Interval
      <4> QED BY <4>1, FS_Subset
    <3>2. members[c] = SetToSeq(s) /\ s \subseteq Of(c)
      BY <2>1
    <3> HIDE DEF s, Of
    <3>3. members[c] \in Seq(s)
      BY <3>1, <3>2, ListOfSet
    <3> QED BY <2>2, <3>2, <3>3 DEF ToSet
  <2>3. ASSUME NEW c \in Types, NEW n \in DOMAIN numbered[c] PROVE numbered[c][n] \in Of(c)
    <3>1. numbered[c] = [m \in {number[d] : d \in Of(c)} \ {0} |-> CHOOSE d \in Of(c) : number[d] = m]
      BY <2>1
    <3> HIDE DEF Of
    <3>2. n \in {number[d] : d \in Of(c)} \ {0}
      BY <2>3, <3>1
    <3> QED BY <3>1, <3>2
  <2>4. \A c \in Types : \A d \in Names(c) : d \in Of(c)
    <3> HIDE DEF Of
    <3>1. \A c \in Types : {super[c]} \ {NoType} = {}
      BY <1>2 DEF InnerWorld
    <3> QED BY <2>2, <2>3, <3>1 DEF Names
  <2> QED BY <2>4 DEF OneWay
<1> QED BY <1>1, <1>2

\* It stays so.
LEMMA OneWayInvariance == SearchSpec => []OneWay
<1>1. SearchInit => OneWay
  BY WorldsOneWay DEF SearchInit
<1>2. ASSUME OneWay, [SearchNext]_searchVars PROVE OneWay'
  <2>1. super' = super /\ members' = members /\ numbered' = numbered
    BY <1>2 DEF SearchNext, Known, Visit, Finish, searchVars, world
  <2>2. \A c : Names(c)' = Names(c) /\ Leads(c)' = Leads(c)
    BY <2>1 DEF Names, Leads
  <2> QED BY <1>2, <2>2 DEF OneWay
<1> QED BY <1>1, <1>2, PTL DEF SearchSpec

\* What a search gets to, it gets to in as few steps as there are.
LEMMA NearbyIsWithin ==
    ASSUME Acyclic, OneWay
    PROVE  \A k \in 0..Count : /\ Nearby[k] \subseteq Within[k]
                               /\ Within[k] \cap Nearby[Count] \subseteq Nearby[k]
<1> DEFINE N == Nearby
           W == Within
           G == {k \in 0..Count : N[k] \subseteq W[k] /\ W[k] \cap N[Count] \subseteq N[k]}
<1>1. Count \in Nat
  BY ClassSearchAssumption
<1>2. /\ N[0] = {Root} /\ W[0] = {Root}
      /\ \A k \in 0..Count : N[k] \subseteq Types /\ W[k] \subseteq Types
      /\ \A k \in 1..Count : N[k] = N[k - 1] \cup {d \in Types : \E c \in N[k - 1] : d \in Leads(c)}
      /\ \A k \in 1..Count : W[k] = W[k - 1] \cup {d \in Types : \E c \in W[k - 1] : d \in Names(c)}
  BY NearbyFacts, WithinFacts
<1>3. \A k \in 0..Count : Root \in N[k]
  BY NearbyGrows
<1>4. \A c \in Types : Leads(c) \subseteq Names(c) /\ Leads(c) \subseteq Types
  BY LeadsAndNames
<1> HIDE DEF N, W
\* A class in the last ball is the root, or led to by one of it.
<1>5. \A k \in 0..Count : \A d \in N[k] : d = Root \/ \E b \in N[Count] : d \in Leads(b)
  <2> DEFINE H == {k \in 0..Count : \A d \in N[k] : d = Root \/ \E b \in N[Count] : d \in Leads(b)}
  <2>1. 0 \in H
    BY <1>1, <1>2
  <2>2. ASSUME NEW k \in 1..Count, k - 1 \in H PROVE k \in H
    <3>1. N[k - 1] \subseteq N[Count] /\ k \in 0..Count
      BY <1>1, NearbyGrows DEF N
    <3> QED BY <1>2, <2>2, <3>1
  <2> HIDE DEF H
  <2>3. \A k \in 0..Count : k \in H
    BY <1>1, <2>1, <2>2, UpTo
  <2> QED BY <2>3 DEF H
<1>6. 0 \in G
  BY <1>1, <1>2
<1>7. ASSUME NEW k \in 1..Count, k - 1 \in G PROVE k \in G
  <2>1. k \in 0..Count /\ k - 1 \in 0..Count /\ Count \in 0..Count
    BY <1>1
  <2>2. N[k] \subseteq W[k]
    BY <1>2, <1>4, <1>7, <2>1
  <2>3. ASSUME NEW d \in W[k], d \in N[Count] PROVE d \in N[k]
    <3>1. CASE d \in W[k - 1]
      BY <1>2, <1>7, <2>1, <2>3, <3>1
    <3>2. CASE d = Root
      BY <1>3, <2>1, <3>2
    <3>3. CASE d \notin W[k - 1] /\ d # Root
      <4>1. PICK c \in W[k - 1] : d \in Names(c)
        BY <1>2, <3>3
      <4>2. PICK b \in N[Count] : d \in Leads(b)
        BY <1>5, <2>1, <2>3, <3>3
      <4>3. b \in Types /\ c \in Types /\ d \in Types /\ d \in Names(b)
        BY <1>2, <1>4, <2>1, <2>3, <4>1, <4>2
      <4>4. CASE \A e \in Types : Names(e) \subseteq Leads(e)
        <5> DEFINE H == {n \in 0..Count : W[n] \subseteq N[n]}
        <5>1. 0 \in H
          BY <1>1, <1>2
        <5>2. ASSUME NEW n \in 1..Count, n - 1 \in H PROVE n \in H
          BY <1>1, <1>2, <4>4, <5>2
        <5> HIDE DEF H
        <5>3. \A n \in 0..Count : n \in H
          BY <1>1, <5>1, <5>2, UpTo
        <5> QED BY <2>1, <5>3 DEF H
      <4>5. CASE \A e, f \in Types : \A x \in Names(e) \cap Names(f) : e = f
        <5>1. b = c
          BY <4>1, <4>3, <4>5
        <5>2. c \in N[k - 1]
          BY <1>7, <4>1, <4>2, <5>1
        <5> QED BY <1>2, <4>2, <4>3, <5>1, <5>2
      <4> QED BY <4>4, <4>5 DEF OneWay
    <3> QED BY <3>1, <3>2, <3>3
  <2> QED BY <2>1, <2>2, <2>3
<1> HIDE DEF G
<1>8. \A k \in 0..Count : k \in G
  BY <1>1, <1>6, <1>7, UpTo
<1> QED BY <1>8 DEF G, N, W

\* For any number of classes, however they inherit or enclose each other: the
\* array a search returns holds classes the root leads to and no other, once
\* each, with everything those name where their numbering has no gap, all of
\* them if no numbering has one, and no class stands in it before a nearer one.
THEOREM SearchesOutwards == SearchSpec => []OnceNearestFirst
<1>1. SearchInv /\ OneWay => OnceNearestFirst
  <2> SUFFICES ASSUME SearchInv, OneWay PROVE OnceNearestFirst
    OBVIOUS
  <2> DEFINE N == Nearby
             W == Within
             o == ToSet(output)
  <2>1. Count \in Nat /\ Count \in 0..Count /\ Acyclic
    BY ClassSearchAssumption DEF SearchInv
  <2>2. \A k \in 0..Count : N[k] \subseteq W[k] /\ W[k] \cap N[Count] \subseteq N[k]
    BY <2>1, NearbyIsWithin
  <2>3. /\ o \subseteq N[Count] /\ o \subseteq Types
        /\ \A i \in DOMAIN output : output[i] \in o
    BY <2>1 DEF SearchInv, SearchTypeOK, NothingLost, Seen, ToSet
  <2>4. \A k \in 0..Count : \A i, j \in DOMAIN output :
          i < j /\ output[j] \in N[k] => output[i] \in N[k]
    BY DEF SearchInv, ListInOrder
  <2>5. \A c \in Types : Gapless(c) => Names(c) \subseteq Leads(c)
    BY <2>1, LeadsAndNames
  <2>6. IsInjective(output)
    BY DEF SearchInv, NothingLost, IsInjective
  <2>7. ASSUME done PROVE Root \in o /\ \A c \in o : Leads(c) \subseteq o
    <3>1. input = << >>
      BY <2>7 DEF SearchInv, SearchTypeOK
    <3>2. Seen = o
      BY <3>1 DEF Seen, ToSet
    <3> QED BY <3>2 DEF SearchInv, NothingLost
  <2>8. ASSUME done, \A c \in o : Gapless(c) PROVE W[Count] \subseteq o
    <3> DEFINE G == {k \in 0..Count : W[k] \subseteq o}
    <3>1. W[0] = {Root} /\ \A k \in 1..Count :
            W[k] = W[k - 1] \cup {d \in Types : \E c \in W[k - 1] : d \in Names(c)}
      BY WithinFacts
    <3> HIDE DEF W, o
    <3>2. 0 \in G
      BY <2>1, <2>7, <2>8, <3>1
    <3>3. ASSUME NEW k \in 1..Count, k - 1 \in G PROVE k \in G
      BY <2>1, <2>3, <2>5, <2>7, <2>8, <3>1, <3>3
    <3> HIDE DEF G
    <3>4. \A k \in 0..Count : k \in G
      BY <2>1, <3>2, <3>3, UpTo
    <3> QED BY <2>1, <3>4 DEF G
  <2> HIDE DEF N, W, o
  <2>9. \A k \in 0..Count : \A i, j \in DOMAIN output :
          i < j /\ output[j] \in W[k] => output[i] \in W[k]
    BY <2>2, <2>3, <2>4
  <2>10. o \subseteq W[Count]
    BY <2>1, <2>2, <2>3
  <2>11. done => \A c \in o : Gapless(c) => Names(c) \subseteq o
    BY <2>3, <2>5, <2>7
  <2>12. done /\ (\A c \in o : Gapless(c)) => o = W[Count]
    BY <2>8, <2>10
  <2> QED BY <2>6, <2>9, <2>10, <2>11, <2>12 DEF OnceNearestFirst, W, o
<1> QED BY <1>1, SearchInvariance, OneWayInvariance, PTL
=============================================================================
