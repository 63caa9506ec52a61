-------------------------------- MODULE Dobby --------------------------------
(***************************************************************************)
(* Dobby, the inline-hook library under so_killer.cpp: DobbyHook,          *)
(* DobbyInstrument and DobbyDestroy, the list of hook entries, the arena   *)
(* of executable pages, the relocation of a function's first instructions  *)
(* and the patching of its first bytes, as built for 32-bit x86 and ARM.   *)
(*                                                                         *)
(* One client installs and destroys hooks while threads call the functions.*)
(* A function is its first bytes and the rest, its body.  Every            *)
(* replacement keeps the address of the original in a variable of its own  *)
(* (origin_call); it is not installed a second time while it is in effect. *)
(***************************************************************************)
EXTENDS Sums, FiniteSets, SequencesExt, FiniteSetsExt

CONSTANTS Threads,
          Funs, FunAt, Flag,       \* functions, their places, the Thumb bit
          Prologues,               \* the ways the functions may begin
          Replacements, Handlers,
          Arm,                     \* TARGET_ARCH_ARM, or else TARGET_ARCH_IA32
          ArenaAt, PageSize,
          BridgeSize,              \* bytes of the closure bridge
          MaxPages,                \* bound: executable pages, then mmap fails
          MaxEntries,              \* bound: hooks on the list
          MaxChunks,               \* bound: chunks ever allocated
          Null

\* ldr pc and a word, without the nop of a Thumb function at 2 mod 4; jmp rel32.
JumpSize == IF Arm THEN 8 ELSE 5
Span == JumpSize + 14      \* the bytes a relocation may copy

\* An instruction: a kind of branch, one at which the decoder or the relocation
\* gives up (LOOP, LOOPcc, JECXZ and the opcodes of SSE; svc and udf in Thumb
\* code), or any other that does not refer to its own address, with its prefixes.
\* On ARM the only branch considered is that of a hook.  Lengths are the right
\* ones (see X86Decode), and no callee looks at the address it returns to.
Kinds == {"plain", "rel32", "unsupported"} \cup (IF Arm THEN {} ELSE {"jc8", "jmp8", "jcc32"})
Insn == {i \in [op : Kinds, len : 1..15, offset : Int] :
           /\ i.op \in {"jc8", "jmp8"} => i.len >= 2
           /\ i.op = "rel32" => i.len >= JumpSize}

\* What instructions add up to.
LengthOf(insns) == Total([n \in DOMAIN insns |-> insns[n].len])

\* A call of the client under way: an InterceptRouting and how far it is.
Hooks == Replacements \cup Handlers
Op == [fun : Funs, by : Hooks, stage : {"closure", "bridge", "copy", "origin", "commit", "aborted"},
       closure : Nat, relocated : Nat]

ASSUME DobbyAssumption ==
    /\ Prologues \subseteq [Funs -> Seq(Insn)]
    /\ \A pr \in Prologues, f \in Funs : LengthOf(pr[f]) >= JumpSize
    /\ Arm \in BOOLEAN /\ \A f \in Funs : Flag[f] \in {0, 1} /\ (Arm => FunAt[f] % 4 = 0)
    /\ ArenaAt \in Int /\ \A f \in Funs : FunAt[f] \in Int
    /\ {PageSize, BridgeSize, MaxPages, MaxEntries, MaxChunks} \subseteq Nat \ {0}
    /\ 32 <= PageSize /\ BridgeSize <= PageSize
    /\ Funs \cap Hooks = {} /\ Replacements \cap Handlers = {}
    /\ (Funs \cup Hooks \cup {Null}) \cap Nat = {} /\ Null \notin Funs \cup Hooks \cup Op

VARIABLES prologue,   \* prologue[f]: the instructions f begins with
          bytes,      \* bytes[f][k]: the k-th byte of the code of f; 0 is before f
          pages,      \* MemoryArena::page_chunks, as the cursors
          chunks,     \* every chunk of the pages, in the order of allocation
          bridge,     \* closure_bridge # NULL
          entries,    \* hook_entry_list_, newest first
          origin,     \* origin[r]: the chunk *origin_call points to; 0 is NULL
          op,         \* the call of the client, or Null
          call,       \* call[t]: the call thread t is in, or Null
          dead,       \* the process has crashed
          live,       \* (history) live[f]: the hooks of f in effect, newest first
          starved     \* (history) functions hooked without memory

clientVars == <<pages, chunks, bridge, entries, op, starved>>
dobbyVars == <<prologue, bytes, pages, chunks, bridge, entries, origin, op, call,
               dead, live, starved>>

Own(f) == [k \in 0..Span |-> [by |-> Null, k |-> k]]

DobbyInit ==
    /\ prologue \in Prologues
    /\ bytes = [f \in Funs |-> Own(f)]
    /\ pages = << >> /\ chunks = << >> /\ bridge = FALSE /\ entries = << >>
    /\ origin = [r \in Replacements |-> 0]
    /\ op = Null /\ call = [t \in Threads |-> Null] /\ dead = FALSE
    /\ live = [f \in Funs |-> << >>] /\ starved = {}

-----------------------------------------------------------------------------
(* CodePatch and the first bytes of a function *)

\* CodePatch makes the page writable, copies and flushes.
CodePatch(f, from, code) ==
    bytes' = [bytes EXCEPT ![f] = [k \in 0..Span |->
        IF k \in from..from + Len(code) - 1 THEN code[k - from + 1] ELSE bytes[f][k]]]

Trampoline(target) == [k \in 1..JumpSize |-> [by |-> target, k |-> k]]

\* What the processor meets at f: its own code, a jump, or parts of both.
Whole(f) == \A k \in 1..JumpSize : bytes[f][k] = [by |-> bytes[f][1].by, k |-> k]
JumpsTo(f) == bytes[f][1].by
LeadsTo(f) == IF JumpsTo(f) = Null THEN f ELSE JumpsTo(f)

-----------------------------------------------------------------------------
(* GenRelocateCodeAndBranch *)

\* The instructions at f, as they are now.
HookJump == <<[op |-> "rel32", len |-> JumpSize, offset |-> 0]>>
Instructions(f) == IF JumpsTo(f) = Null THEN prologue[f] ELSE HookJump

\* Whole instructions are copied until the trampoline is covered.
Shortest(insns) ==
    SubSeq(insns, 1, Min({n \in 0..Len(insns) : LengthOf(SubSeq(insns, 1, n)) >= JumpSize}))
Covered(f) == Shortest(Instructions(f))

\* The decoder or the relocation stops at one of them.
Unsupported(f) == \E n \in DOMAIN Covered(f) : Covered(f)[n].op = "unsupported"

\* Bytes emitted for an instruction: short branches get the long form.
Emitted(i) == CASE i.op = "jc8" -> 6 [] i.op = "jmp8" -> 5 [] OTHER -> i.len

\* With the jump behind the instructions copied.
EmittedLength(insns) == Total([n \in DOMAIN insns |-> Emitted(insns[n])]) + JumpSize

Int8(n) == LET u == n % 256 IN IF u >= 128 THEN u - 256 ELSE u

\* Where the copy of a branch at orig leads when it is placed at relo; jcc rel32
\* is not known to the relocation and is copied as it is.
LandsAt(i, orig, relo) ==
    CASE i.op = "jc8" -> relo + 6 + (orig + i.offset - relo)
      [] i.op = "jmp8" -> relo + 5 + Int8(orig + i.offset - relo)
      [] i.op = "rel32" -> relo + i.len + (orig + i.offset - relo)
      [] OTHER -> relo + i.len + i.offset

\* The branches among insns that lead elsewhere from the copy at relo.
Misled(f, insns, relo) ==
    {n \in DOMAIN insns :
        LET before == SubSeq(insns, 1, n - 1)
            orig == FunAt[f] + LengthOf(before)
            here == relo + EmittedLength(before) - JumpSize
        IN  /\ insns[n].op \notin {"plain", "unsupported"}
            /\ LandsAt(insns[n], orig, here) # orig + insns[n].len + insns[n].offset}

\* Mutant: one byte less.
SavedLengthShort(f) == JumpSize - 1

\* Bytes kept in origin_chunk_: the instructions copied; on ARM the length of
\* the trampoline, whatever was copied.
SavedLength(f) == IF Arm THEN JumpSize ELSE LengthOf(Covered(f))

\* The first chunk tried on x86 has 32 bytes, and ChunksHoldTheirCode says that
\* is enough.  The ARM code allocates what it has emitted; what ArmRelocation
\* adds to the instructions copied is left out here.
CopySize(f) == IF Arm THEN EmittedLength(Covered(f)) ELSE 32

\* The build for 32-bit x86: no address has the Thumb bit.
X86 == /\ ~Arm /\ \A f \in Funs : Flag[f] = 0
       /\ \A f, g \in Funs : FunAt[f] = FunAt[g] => f = g

-----------------------------------------------------------------------------
(* MemoryArena *)

\* Mutant: a page may be filled to the end and past it.
RoomLoose(size) == {p \in DOMAIN pages : pages[p] < PageSize}

Room(size) == {p \in DOMAIN pages : pages[p] + size < PageSize}

\* AllocateChunk takes the first page with room, or a new page.
PageFor(size) == IF Room(size) # {} THEN Min(Room(size)) ELSE Len(pages) + 1
CursorOf(p) == IF p \in DOMAIN pages THEN pages[p] ELSE 0
PageAt(p) == ArenaAt + (p - 1) * PageSize
AddressFor(size) == PageAt(PageFor(size)) + CursorOf(PageFor(size))

AllocateChunk(size, holds) ==
    /\ Len(chunks) < MaxChunks /\ PageFor(size) <= MaxPages
    /\ pages' = [p \in DOMAIN pages \cup {PageFor(size)} |->
                   IF p = PageFor(size) THEN CursorOf(p) + size ELSE pages[p]]
    /\ chunks' = Append(chunks, [address |-> AddressFor(size), size |-> size, holds |-> holds])

\* mmap gives no new page.
AllocateFails(size) == Room(size) = {}

NewChunk == Len(chunks) + 1

-----------------------------------------------------------------------------
(* DobbyHook, DobbyInstrument and DobbyDestroy *)

Address(f) == FunAt[f] + Flag[f]

\* FindHookEntry: the index of the newest entry of an address, or 0.
Find(address) == SelectInSeq(entries, LAMBDA e : e.address = address)

Newest(f) == IF Find(Address(f)) = 0 THEN [target |-> Null, by |-> Null]
             ELSE entries[Find(Address(f))]

\* The client: what it may ask for.
Free(r) == \A f \in Funs : r \notin ToSet(live[f])
ClientIdle == op = Null /\ ~dead
\* A bound: nothing more is hooked once memory ran out.
MayHook == ClientIdle /\ starved = {} /\ Len(entries) < MaxEntries

Begin(f, r, stage) ==
    op' = [fun |-> f, by |-> r, stage |-> stage, closure |-> 0, relocated |-> 0]

\* A replacement that the newest entry has is refused and nothing changes: the
\* step is left out, as is the refusal of a null address.
DobbyHook(f, r) ==
    /\ MayHook /\ Free(r) /\ Whole(f) /\ (Arm => live[f] = << >>)
    /\ Newest(f).target # r
    /\ Begin(f, r, "copy")
    /\ UNCHANGED <<prologue, bytes, pages, chunks, bridge, entries, origin, call,
                   dead, live, starved>>

\* The newest entry's handler is compared; in the route of a replacement the
\* same place holds the replacement.
DobbyInstrument(f, h) ==
    /\ MayHook /\ ~Arm
    /\ Newest(f).by # h
    /\ Begin(f, h, "closure")
    /\ UNCHANGED <<prologue, bytes, pages, chunks, bridge, entries, origin, call,
                   dead, live, starved>>

\* CreateClosureTrampoline
CreateClosure ==
    /\ op # Null /\ ~dead /\ op.stage = "closure"
    /\ AllocateChunk(32, [kind |-> "closure", by |-> op.by])
    /\ op' = [op EXCEPT !.stage = IF bridge THEN "copy" ELSE "bridge", !.closure = NewChunk]
    /\ UNCHANGED <<prologue, bytes, bridge, entries, origin, call, dead, live, starved>>

\* get_closure_bridge, the first time.
CreateBridge ==
    /\ op # Null /\ ~dead /\ op.stage = "bridge"
    /\ AllocateChunk(BridgeSize, [kind |-> "bridge"])
    /\ bridge' = TRUE /\ op' = [op EXCEPT !.stage = "copy"]
    /\ UNCHANGED <<prologue, bytes, entries, origin, call, dead, live, starved>>

\* Without memory for the closure or the bridge a null pointer is read.
InstrumentFails ==
    /\ op # Null /\ ~dead
    /\ \/ op.stage = "closure" /\ AllocateFails(32)
       \/ op.stage = "bridge" /\ AllocateFails(BridgeSize)
    /\ dead' = TRUE /\ starved' = starved \cup {op.fun}
    /\ UNCHANGED <<prologue, bytes, pages, chunks, bridge, entries, origin, op, call, live>>

Target == IF op.closure # 0 THEN op.closure ELSE op.by
AfterCopy == IF op.closure # 0 THEN "commit" ELSE "origin"

\* Mutant: list_add_tail in place of list_add.
AddHookEntryLast(relocated, saved) ==
    entries' = Append(entries, [address |-> Address(op.fun), target |-> Target, by |-> op.by,
                                relocated |-> relocated, saved |-> saved])

AddHookEntry(relocated, saved) ==
    entries' = <<[address |-> Address(op.fun), target |-> Target, by |-> op.by,
                  relocated |-> relocated, saved |-> saved]>> \o entries

\* GenerateRelocatedCode and AddHookEntry: the instructions under the trampoline
\* are copied, followed by a jump behind them, and saved.
GenerateRelocatedCode ==
    /\ op # Null /\ ~dead /\ op.stage = "copy" /\ ~Unsupported(op.fun)
    /\ LET f == op.fun
           copy == [kind |-> "copy", fun |-> f, to |-> LeadsTo(f), closure |-> op.closure,
                    used |-> EmittedLength(Covered(f)),
                    misled |-> {Covered(f)[n].op :
                                  n \in Misled(f, Covered(f), AddressFor(CopySize(f)))}]
       IN  /\ AllocateChunk(CopySize(f), copy)
           /\ AddHookEntry(NewChunk, [k \in 1..SavedLength(f) |-> bytes[f][k]])
    /\ op' = [op EXCEPT !.stage = AfterCopy, !.relocated = NewChunk]
    /\ UNCHANGED <<prologue, bytes, bridge, origin, call, dead, live, starved>>

\* UNIMPLEMENTED and UNREACHABLE abort.  On x86 the chunk is allocated first, the
\* ARM code decodes first.
RelocationAborts ==
    /\ op # Null /\ ~dead /\ op.stage = "copy" /\ Unsupported(op.fun)
    /\ Arm \/ ~AllocateFails(CopySize(op.fun))
    /\ dead' = TRUE /\ op' = [op EXCEPT !.stage = "aborted"]
    /\ UNCHANGED <<prologue, bytes, pages, chunks, bridge, entries, origin, call, live, starved>>

\* No memory for the copy: GenerateRelocatedCode returns and the caller goes on
\* with a null address and nothing saved.
RelocationFails ==
    /\ op # Null /\ ~dead /\ op.stage = "copy" /\ AllocateFails(CopySize(op.fun))
    /\ Arm => ~Unsupported(op.fun)
    /\ AddHookEntry(0, << >>)
    /\ op' = [op EXCEPT !.stage = AfterCopy]
    /\ starved' = starved \cup {op.fun}
    /\ UNCHANGED <<prologue, bytes, pages, chunks, bridge, origin, call, dead, live>>

\* Mutant: origin_call is set the first time only.
SetOriginOnce ==
    /\ op # Null /\ ~dead /\ op.stage = "origin"
    /\ origin' = [origin EXCEPT ![op.by] = IF @ = 0 THEN op.relocated ELSE @]
    /\ op' = [op EXCEPT !.stage = "commit"]
    /\ UNCHANGED <<prologue, bytes, pages, chunks, bridge, entries, call, dead, live, starved>>

SetOrigin ==
    /\ op # Null /\ ~dead /\ op.stage = "origin"
    /\ origin' = [origin EXCEPT ![op.by] = op.relocated]
    /\ op' = [op EXCEPT !.stage = "commit"]
    /\ UNCHANGED <<prologue, bytes, pages, chunks, bridge, entries, call, dead, live, starved>>

\* Calls that are under way when the code of f changes may see either.
Disturb(f) ==
    call' = [t \in Threads |-> IF call[t] = Null \/ call[t].fun # f THEN call[t]
                               ELSE [call[t] EXCEPT !.clean = FALSE]]

\* Mutant: the code is patched before origin_call is set.
CommitEarly ==
    /\ op # Null /\ ~dead /\ op.stage \in {"origin", "commit"}
    /\ ~Whole(op.fun) \/ JumpsTo(op.fun) # Target
    /\ CodePatch(op.fun, 1, Trampoline(Target))
    /\ live' = [live EXCEPT ![op.fun] = <<op.by>> \o @]
    /\ op' = IF op.stage = "commit" THEN Null ELSE op
    /\ Disturb(op.fun)
    /\ UNCHANGED <<prologue, pages, chunks, bridge, entries, origin, dead, starved>>

Commit ==
    /\ op # Null /\ ~dead /\ op.stage = "commit"
    /\ CodePatch(op.fun, 1, Trampoline(Target))
    /\ live' = [live EXCEPT ![op.fun] = <<op.by>> \o @]
    /\ op' = Null
    /\ Disturb(op.fun)
    /\ UNCHANGED <<prologue, pages, chunks, bridge, entries, origin, dead, starved>>

\* On ARM one is taken off the address: the Thumb bit of a Thumb function, and
\* one byte of any other.  The entry is then looked for at the new address.
DobbyDestroy(f) ==
    LET address == Address(f) - (IF Arm THEN 1 ELSE 0)
        found == Find(Address(f))
        listed == Find(address)
    IN  /\ ClientIdle /\ found # 0
        /\ CodePatch(f, address - FunAt[f] + 1, entries[found].saved)
        /\ entries' = IF listed = 0 THEN entries ELSE RemoveAt(entries, listed)
        /\ live' = [live EXCEPT ![f] = IF @ = << >> THEN @ ELSE Tail(@)]
        /\ Disturb(f)
        /\ UNCHANGED <<prologue, pages, chunks, bridge, origin, op, dead, starved>>

Client == \/ \E f \in Funs, r \in Replacements : DobbyHook(f, r)
          \/ \E f \in Funs, h \in Handlers : DobbyInstrument(f, h)
          \/ \E f \in Funs : DobbyDestroy(f)
Hooking == CreateClosure \/ CreateBridge \/ InstrumentFails \/ GenerateRelocatedCode
           \/ RelocationAborts \/ RelocationFails \/ SetOrigin \/ Commit

-----------------------------------------------------------------------------
(* A call of a hooked function *)

\* at     "head" of the function, "replacement", "chunk", "body", "returned", "astray"
\* where  the replacement, the chunk, or the function whose code runs
\* ran    the replacements and handlers that ran
\* clean  the function has not been patched since
At(t, at) == ~dead /\ call[t] # Null /\ call[t].at = at
Go(t, target, ran) ==
    call' = [call EXCEPT ![t].ran = ran, ![t].where = target,
                ![t].at = IF target \in Funs THEN "body"
                          ELSE IF target \in Replacements THEN "replacement" ELSE "chunk"]
Stop(t, at, where) == call' = [call EXCEPT ![t].at = at, ![t].where = where]
unpatched == <<prologue, bytes, clientVars, origin, live>>

Call(t, f) ==
    /\ ~dead /\ call[t] = Null
    /\ call' = [call EXCEPT ![t] =
          [fun |-> f, at |-> "head", where |-> Null, ran |-> << >>, clean |-> TRUE]]
    /\ UNCHANGED <<unpatched, dead>>

EnterHead(t) ==
    /\ At(t, "head") /\ Whole(call[t].fun)
    /\ Go(t, LeadsTo(call[t].fun), << >>)
    /\ UNCHANGED <<unpatched, dead>>

\* A replacement ends on its own, or by calling the original.
Replace(t) ==
    /\ At(t, "replacement")
    /\ Stop(t, "returned", Null)
    /\ UNCHANGED <<unpatched, dead>>

CallOrigin(t) ==
    /\ At(t, "replacement") /\ origin[call[t].where] # 0
    /\ Go(t, origin[call[t].where], Append(call[t].ran, call[t].where))
    /\ UNCHANGED <<unpatched, dead>>

InChunk(t, kind) == At(t, "chunk") /\ chunks[call[t].where].holds.kind = kind
Holds(t) == chunks[call[t].where].holds

\* The copy that the entry of a closure has; none if there was no memory.
Hops(t) == {c \in DOMAIN chunks : /\ chunks[c].holds.kind = "copy"
                                  /\ chunks[c].holds.closure = call[t].where}

\* The closure, the bridge and instrument_call_forward_handler.
ForwardHandler(t) ==
    /\ InChunk(t, "closure")
    /\ \E c \in Hops(t) : Go(t, c, Append(call[t].ran, Holds(t).by))
    /\ UNCHANGED <<unpatched, dead>>

\* Mutant: the copy ends with a jump to the function, not behind the trampoline.
RunCopyAgain(t) ==
    /\ InChunk(t, "copy") /\ "jmp8" \notin Holds(t).misled
    /\ Stop(t, "head", Null)
    /\ UNCHANGED <<unpatched, dead>>

\* The copied instructions and the jump to the rest.
RunCopy(t) ==
    /\ InChunk(t, "copy") /\ "jmp8" \notin Holds(t).misled
    /\ Go(t, Holds(t).to, call[t].ran)
    /\ UNCHANGED <<unpatched, dead>>

\* A copied branch is taken that leads elsewhere.
GoAstray(t) ==
    /\ InChunk(t, "copy") /\ Holds(t).misled # {}
    /\ Stop(t, "astray", Holds(t).fun)
    /\ UNCHANGED <<unpatched, dead>>

\* Torn code, or a jump to a null address.
Crash(t) ==
    /\ \/ At(t, "head") /\ ~Whole(call[t].fun)
       \/ At(t, "replacement") /\ origin[call[t].where] = 0
       \/ InChunk(t, "closure") /\ Hops(t) = {}
    /\ dead' = TRUE
    /\ UNCHANGED <<unpatched, call>>

Return(t) ==
    /\ At(t, "body") \/ At(t, "returned")
    /\ call' = [call EXCEPT ![t] = Null]
    /\ UNCHANGED <<unpatched, dead>>

InCall(t) == \/ EnterHead(t) \/ Replace(t) \/ CallOrigin(t) \/ ForwardHandler(t)
             \/ RunCopy(t) \/ GoAstray(t) \/ Crash(t) \/ Return(t)

DobbyNext ==
    \/ Client \/ Hooking
    \/ \E t \in Threads : InCall(t) \/ \E f \in Funs : Call(t, f)

DobbySafety == DobbyInit /\ [][DobbyNext]_dobbyVars

\* A thread in a call is scheduled again.
DobbySpec ==
    /\ DobbySafety
    /\ \A t \in Threads : WF_dobbyVars(InCall(t))

-----------------------------------------------------------------------------
(* Properties *)

\* p tells where in the list the entries of an address are, from the front.
Places(list, address, p) ==
    /\ \A i, j \in DOMAIN p : i < j => p[i] < p[j]
    /\ {p[i] : i \in DOMAIN p} = {i \in DOMAIN list : list[i].address = address}

\* The entries on the list are the hooks in effect, newest first, whenever the
\* client is between two calls: FindHookEntry, which DobbyHook asks "if already
\* hooked" and DobbyDestroy what to restore, tells the truth.
EntriesAreLive ==
    op = Null => \A f \in Funs : \E p \in [DOMAIN live[f] -> DOMAIN entries] :
        /\ Places(entries, Address(f), p)
        /\ \A i \in DOMAIN p : entries[p[i]].by = live[f][i]

\* Between two calls of the client a function begins with the jump of its
\* newest hook, or with its own bytes when the last hook is destroyed, however
\* hooks were piled up and taken down; unless memory ran out while hooking it.
HeadRestored ==
    op = Null => \A f \in Funs \ starved :
        /\ Whole(f)
        /\ live[f] = << >> => bytes[f] = Own(f)
        /\ live[f] # << >> =>
             JumpsTo(f) = Newest(f).target

\* A call during which the function is not patched runs the hooks in effect,
\* each once, newest first, and then the function itself, or stops at a
\* replacement that does not call the original: the copies and the variables
\* origin_call are chained rightly.  A call leaves its way only where the function
\* began with a conditional branch or a short jump: calls and jumps with 32 bits
\* lead from the copy where they led from the function.
CallsRunLive ==
    \A t \in Threads :
        /\ (call[t] # Null /\ call[t].clean /\ call[t].fun \notin starved) =>
             /\ IsPrefix(call[t].ran, live[call[t].fun])
             /\ call[t].at = "body" =>
                  call[t].ran = live[call[t].fun] /\ call[t].where = call[t].fun
        /\ (call[t] # Null /\ call[t].at = "astray") =>
             \E n \in DOMAIN prologue[call[t].where] :
                 prologue[call[t].where][n].op \in {"jc8", "jmp8", "jcc32"}

\* A hook is given up at an instruction that cannot be relocated.
Aborted == op # Null /\ op.stage = "aborted" /\ Unsupported(op.fun)

\* The process ends only in the relocation, over an instruction it does not know
\* among those under the trampoline, or if memory had run out: no order of
\* hooking, destroying and calling leads a thread to a null or a torn address
\* (DobbyHook sets origin_call before it patches).
CrashesAccountedFor == dead => Aborted \/ starved # {}

\* Chunks do not overlap and none reaches past its page, whatever is allocated
\* after what (MemoryArena::AllocateChunk).  What is copied fits the first chunk
\* tried, so x86_try_again is never taken, and what is saved fits the 64 bytes of
\* origin_chunk_.
ChunksHoldTheirCode ==
    /\ \A c \in DOMAIN chunks :
         /\ \E p \in DOMAIN pages : /\ PageAt(p) <= chunks[c].address
                                   /\ chunks[c].address + chunks[c].size <= PageAt(p) + PageSize
         /\ chunks[c].holds.kind = "copy" => chunks[c].holds.used <= chunks[c].size
    /\ \A c, d \in DOMAIN chunks :
         c < d => \/ chunks[c].address + chunks[c].size <= chunks[d].address
                  \/ chunks[d].address + chunks[d].size <= chunks[c].address
    /\ \A i \in DOMAIN entries : Len(entries[i].saved) <= 64

\* Every call ends, also while hooks come and go, unless it left its way, memory
\* ran out or the relocation gave up.
EveryCallEnds ==
    \A t \in Threads :
        call[t] # Null ~> \/ call[t] = Null \/ starved # {} \/ Aborted
                          \/ (call[t] # Null /\ call[t].at = "astray")
=============================================================================
