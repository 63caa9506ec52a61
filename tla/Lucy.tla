-------------------------------- MODULE Lucy --------------------------------
(***************************************************************************)
(* logcat/extra/Lucy.java over logcat/Logcat.java: which classes are being *)
(* traced.  Threads get the one Lucy (double-checked locking) and call     *)
(* hook(class), unhook(class) and ignore(package), which nest the monitors *)
(* of mIgnored, mHooking (Lucy) and mUnhooks (Logcat).                     *)
(*                                                                         *)
(* Patchwork.patch and recover are single steps here: they are synchronized*)
(* and Patchwork shows what they guarantee.  patch may throw a PatchError  *)
(* for any member; hook skips that member.                                 *)
(***************************************************************************)
EXTENDS Naturals, Sequences, FiniteSets

CONSTANTS Threads,
          Classes,     \* classes of the application
          Members,     \* their declared constructors and methods
          DeclaredBy,  \* DeclaredBy[m]: the class that declares m
          Packages,    \* the prefixes given to ignore
          StartsWith,  \* StartsWith[c]: the packages c's name starts with
          Null

ASSUME LucyAssumption ==
    /\ DeclaredBy \in [Members -> Classes]
    /\ StartsWith \in [Classes -> SUBSET Packages]
    /\ Null \notin Threads

VARIABLES
    instances,  \* Lucy objects constructed
    instance,   \* the static field: 0 (null) or the number of the object
    pc,         \* pc[t]: where t is
    arg,        \* arg[t]: the class or package of t's call
    owner,      \* owner[l]: the thread that holds monitor l, or Null
    ignored,    \* mIgnored
    hooking,    \* mHooking
    keys,       \* keys of mUnhooks
    unhooks,    \* the members whose ids the lists of mUnhooks hold
    traced,     \* the members the Logcat patch runs on
    todo,       \* todo[t]: members left in t's loop
    victims,    \* victims[t]: classes left in ignore's loop
    current     \* current[t]: the class being unhooked

vars == <<instances, instance, pc, arg, owner, ignored, hooking, keys, unhooks, traced,
          todo, victims, current>>
state == <<ignored, hooking, keys, unhooks, traced>>

Monitors == {"Lucy.class", "mIgnored", "mHooking", "mUnhooks"}
MembersOf(c) == {m \in Members : DeclaredBy[m] = c}

Init ==
    /\ instances = 0 /\ instance = 0
    /\ pc = [t \in Threads |-> "idle"]
    /\ arg = [t \in Threads |-> Null]
    /\ owner = [l \in Monitors |-> Null]
    /\ ignored = {} /\ hooking = {} /\ keys = {} /\ unhooks = {} /\ traced = {}
    /\ todo = [t \in Threads |-> {}]
    /\ victims = [t \in Threads |-> {}]
    /\ current = [t \in Threads |-> Null]

Goto(t, label) == pc' = [pc EXCEPT ![t] = label]
Holds(t, l) == owner[l] = t

-----------------------------------------------------------------------------
(* getInstance *)

\* t calls hook, unhook or ignore through the chain of getInstance().
CallBegin(t) ==
    /\ pc[t] = "idle"
    /\ \/ /\ arg' \in {[arg EXCEPT ![t] = <<op, c>>] : op \in {"hook", "unhook"}, c \in Classes}
       \/ /\ arg' \in {[arg EXCEPT ![t] = <<"ignore", p>>] : p \in Packages}
    /\ Goto(t, "getInstance")
    /\ UNCHANGED <<instances, instance, owner, state, todo, victims, current>>

FirstCheck(t) ==
    /\ pc[t] = "getInstance"
    /\ Goto(t, IF instance = 0 THEN "lockClass" ELSE "enter")
    /\ UNCHANGED <<instances, instance, arg, owner, state, todo, victims, current>>

LockClass(t) ==
    /\ pc[t] = "lockClass"
    /\ owner["Lucy.class"] = Null
    /\ owner' = [owner EXCEPT !["Lucy.class"] = t]
    /\ Goto(t, "create")
    /\ UNCHANGED <<instances, instance, arg, state, todo, victims, current>>

\* Mutant: no second check under the monitor.
SecondCheckMissing(t) ==
    /\ pc[t] = "create"
    /\ instances' = instances + 1
    /\ instance' = instances + 1
    /\ owner' = [owner EXCEPT !["Lucy.class"] = Null]
    /\ Goto(t, "enter")
    /\ UNCHANGED <<arg, state, todo, victims, current>>

SecondCheck(t) ==
    /\ pc[t] = "create"
    /\ \/ instance # 0 /\ UNCHANGED <<instances, instance>>
       \/ instance = 0 /\ instances' = instances + 1 /\ instance' = instances + 1
    /\ owner' = [owner EXCEPT !["Lucy.class"] = Null]
    /\ Goto(t, "enter")
    /\ UNCHANGED <<arg, state, todo, victims, current>>

-----------------------------------------------------------------------------
(* The monitors each operation nests, outermost first *)

IgnoreOrder == <<"mIgnored", "mHooking">>
HookOrder == <<"mIgnored", "mHooking">>
UnhookOrder == <<"mHooking">>

Op(t) == arg[t][1]
Order(t) == CASE Op(t) = "hook" -> HookOrder
              [] Op(t) = "unhook" -> UnhookOrder
              [] Op(t) = "ignore" -> IgnoreOrder

\* t takes the next monitor of its operation.
Acquire(t) ==
    /\ pc[t] = "enter"
    /\ \E k \in DOMAIN Order(t) :
         /\ \A j \in 1..k-1 : Holds(t, Order(t)[j])
         /\ owner[Order(t)[k]] = Null
         /\ owner' = [owner EXCEPT ![Order(t)[k]] = t]
         /\ Goto(t, IF k = Len(Order(t)) THEN Op(t) ELSE "enter")
    /\ UNCHANGED <<instances, instance, arg, state, todo, victims, current>>

ReleaseAll(t) == owner' = [l \in Monitors |-> IF owner[l] = t THEN Null ELSE owner[l]]

-----------------------------------------------------------------------------
(* hook *)

\* A class of an ignored package is not hooked.
HookIgnored(t) ==
    /\ pc[t] = "hook"
    /\ StartsWith[arg[t][2]] \cap ignored # {}
    /\ ReleaseAll(t)
    /\ Goto(t, "idle")
    /\ UNCHANGED <<instances, instance, arg, state, todo, victims, current>>

HookAdd(t) ==
    /\ pc[t] = "hook"
    /\ StartsWith[arg[t][2]] \cap ignored = {}
    /\ hooking' = hooking \cup {arg[t][2]}
    /\ Goto(t, "superHook")
    /\ UNCHANGED <<instances, instance, arg, owner, ignored, keys, unhooks, traced, todo, victims, current>>

\* Logcat.hook: a class that has its list already is left alone.
SuperHookKnown(t) ==
    /\ pc[t] = "superHook" /\ owner["mUnhooks"] = Null
    /\ arg[t][2] \in keys
    /\ ReleaseAll(t)
    /\ Goto(t, "idle")
    /\ UNCHANGED <<instances, instance, arg, state, todo, victims, current>>

SuperHook(t) ==
    /\ pc[t] = "superHook" /\ owner["mUnhooks"] = Null
    /\ arg[t][2] \notin keys
    /\ owner' = [owner EXCEPT !["mUnhooks"] = t]
    /\ todo' = [todo EXCEPT ![t] = MembersOf(arg[t][2])]
    /\ Goto(t, "patching")
    /\ UNCHANGED <<instances, instance, arg, state, victims, current>>

\* The members of the class cannot be listed (a type in a signature is
\* missing): the Error leaves hook, mHooking keeps the class.
SuperHookThrows(t) ==
    /\ pc[t] = "superHook" /\ owner["mUnhooks"] = Null
    /\ arg[t][2] \notin keys
    /\ ReleaseAll(t)
    /\ Goto(t, "idle")
    /\ UNCHANGED <<instances, instance, arg, state, todo, victims, current>>

\* Mutant: the id is not kept.
PatchMemberForgets(t) ==
    /\ pc[t] = "patching"
    /\ \E m \in todo[t] :
         /\ todo' = [todo EXCEPT ![t] = @ \ {m}]
         /\ traced' = traced \cup {m}
         /\ UNCHANGED unhooks
    /\ UNCHANGED <<instances, instance, pc, arg, owner, ignored, hooking, keys, victims, current>>

PatchMember(t) ==
    /\ pc[t] = "patching"
    /\ \E m \in todo[t] :
         /\ todo' = [todo EXCEPT ![t] = @ \ {m}]
         /\ \/ traced' = traced \cup {m} /\ unhooks' = unhooks \cup {m}
            \/ UNCHANGED <<traced, unhooks>>      \* PatchError, ignored
    /\ UNCHANGED <<instances, instance, pc, arg, owner, ignored, hooking, keys, victims, current>>

HookDone(t) ==
    /\ pc[t] = "patching" /\ todo[t] = {}
    /\ keys' = keys \cup {arg[t][2]}
    /\ ReleaseAll(t)
    /\ Goto(t, "idle")
    /\ UNCHANGED <<instances, instance, arg, ignored, hooking, unhooks, traced, todo, victims, current>>

-----------------------------------------------------------------------------
(* unhook, and ignore, which unhooks the classes it finds *)

\* Mutant: classes that are traced already stay so.
IgnoreKeepsHooked(t) ==
    /\ pc[t] = "ignore"
    /\ ignored' = ignored \cup {arg[t][2]}
    /\ Goto(t, "unhooking")
    /\ UNCHANGED <<instances, instance, arg, owner, hooking, keys, unhooks, traced, todo,
                   victims, current>>

Ignore(t) ==
    /\ pc[t] = "ignore"
    /\ ignored' = ignored \cup {arg[t][2]}
    /\ victims' = [victims EXCEPT ![t] = {c \in hooking : arg[t][2] \in StartsWith[c]}]
    /\ Goto(t, "unhooking")
    /\ UNCHANGED <<instances, instance, arg, owner, hooking, keys, unhooks, traced, todo,
                   current>>

Unhook(t) ==
    /\ pc[t] = "unhook"
    /\ victims' = [victims EXCEPT ![t] = {arg[t][2]}]
    /\ Goto(t, "unhooking")
    /\ UNCHANGED <<instances, instance, arg, owner, state, todo, current>>

\* Mutant: ignore's loop goes on until its collection is empty, and nothing is
\* taken from it.
SuperUnhookAgain(t) ==
    /\ pc[t] = "unhooking" /\ owner["mUnhooks"] = Null
    /\ \E c \in victims[t] :
         /\ current' = [current EXCEPT ![t] = c]
         /\ keys' = keys \ {c}
         /\ todo' = [todo EXCEPT ![t] = IF c \in keys THEN MembersOf(c) \cap unhooks ELSE {}]
         /\ unhooks' = IF c \in keys THEN unhooks \ MembersOf(c) ELSE unhooks
    /\ owner' = [owner EXCEPT !["mUnhooks"] = t]
    /\ Goto(t, "recovering")
    /\ UNCHANGED <<instances, instance, arg, ignored, hooking, traced, victims>>

\* Logcat.unhook: the class loses its list, whose ids are then recovered.
SuperUnhook(t) ==
    /\ pc[t] = "unhooking" /\ owner["mUnhooks"] = Null
    /\ \E c \in victims[t] :
         /\ victims' = [victims EXCEPT ![t] = @ \ {c}]
         /\ current' = [current EXCEPT ![t] = c]
         /\ keys' = keys \ {c}
         /\ todo' = [todo EXCEPT ![t] = IF c \in keys THEN MembersOf(c) \cap unhooks ELSE {}]
         /\ unhooks' = IF c \in keys THEN unhooks \ MembersOf(c) ELSE unhooks
    /\ owner' = [owner EXCEPT !["mUnhooks"] = t]
    /\ Goto(t, "recovering")
    /\ UNCHANGED <<instances, instance, arg, ignored, hooking, traced>>

RecoverMember(t) ==
    /\ pc[t] = "recovering"
    /\ \E m \in todo[t] :
         /\ todo' = [todo EXCEPT ![t] = @ \ {m}]
         /\ traced' = traced \ {m}
    /\ UNCHANGED <<instances, instance, pc, arg, owner, ignored, hooking, keys, unhooks,
                   victims, current>>

\* mHooking.remove(clazz), the monitor of mUnhooks being free again.
UnhookDone(t) ==
    /\ pc[t] = "recovering" /\ todo[t] = {}
    /\ hooking' = hooking \ {current[t]}
    /\ owner' = [owner EXCEPT !["mUnhooks"] = Null]
    /\ Goto(t, "unhooking")
    /\ UNCHANGED <<instances, instance, arg, ignored, keys, unhooks, traced, todo, victims,
                   current>>

CallEnd(t) ==
    /\ pc[t] = "unhooking" /\ victims[t] = {}
    /\ ReleaseAll(t)
    /\ Goto(t, "idle")
    /\ UNCHANGED <<instances, instance, arg, state, todo, victims, current>>

-----------------------------------------------------------------------------

Steps(t) ==
    \/ FirstCheck(t) \/ SecondCheck(t)
    \/ HookIgnored(t) \/ HookAdd(t) \/ PatchMember(t) \/ HookDone(t)
    \/ Ignore(t) \/ Unhook(t) \/ RecoverMember(t) \/ UnhookDone(t) \/ CallEnd(t)
\* The steps that wait for a monitor.
Waits(t) == \/ LockClass(t) \/ Acquire(t)
            \/ SuperHookKnown(t) \/ SuperHook(t) \/ SuperHookThrows(t) \/ SuperUnhook(t)

Next == \E t \in Threads : CallBegin(t) \/ Steps(t) \/ Waits(t)

\* Threads run, and a thread waiting for a monitor is let in eventually.
Spec ==
    /\ Init /\ [][Next]_vars
    /\ \A t \in Threads : WF_vars(Steps(t)) /\ SF_vars(Waits(t))

-----------------------------------------------------------------------------
(* Properties *)

\* getInstance makes one Lucy however many threads race for the first one.
SingleInstance ==
    instances <= 1

\* Whenever no thread is inside mHooking, no class that is traced belongs to an
\* ignored package: neither order of a racing hook and ignore leaves one behind.
IgnoredNotTraced ==
    owner["mHooking"] = Null =>
        \A m \in traced : StartsWith[DeclaredBy[m]] \cap ignored = {}

\* Whenever no thread is inside mHooking, Lucy's set, Logcat's lists and the
\* patches in effect tell the same story, although hook and unhook work member
\* by member, some members refuse and some classes cannot be listed: what is
\* traced can be unhooked, and ignore finds it.
BooksAgree ==
    owner["mHooking"] = Null =>
        /\ keys \subseteq hooking
        /\ traced = unhooks
        /\ \A m \in traced : DeclaredBy[m] \in keys

\* The nested monitors never block each other: every call ends.
CallsEnd ==
    \A t \in Threads : pc[t] # "idle" ~> pc[t] = "idle"
=============================================================================
