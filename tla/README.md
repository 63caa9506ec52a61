# A TLA+ model of AndroidPatch

AndroidPatch replaces the behaviour of constructors and methods inside running
Android applications. Application code (a *patch loader*) calls
`Patchwork.patch(member, patch)`; from then on every call of the member runs the
patch's `beforeExecuted` and `afterExecuted` around the original body. This
directory models the framework's own logic and the part of the vendored hook library
Dobby it runs on, checks them with TLC and proves nearly all of their safety with TLAPS. Paths below are relative to
`src/framework/src/main/java/utopia/android/patch/` unless they start with `src/`.

## 1. The system

| component | state | operations | talks to |
|---|---|---|---|
| **Patch registry** `lang/Patchwork.java`, registry half of `lang/ExternalKernel.java`, `lang/Sortable.java` | static `externalKernel`, `pairs`, `count`; the kernel's `mMemberMapping`, one sorted copy-on-write array per hooked function | `provide`, `patch`, `recover`, `addPatch`, `removePatch` | Xposed (`hookMember`); the arrays are read by the dispatch without the registry's monitor |
| **Call dispatch** `ExternalKernel.replaceHookedMember`, `lang/Patch.java` | per call: snapshot of the array, `index`, `Registers.returned`, `Registers.thrown` | entry, before loop, original, after loop, exit | user callbacks, which call the registry and hooked functions again |
| **Registers** `lang/Patch.java` | two volatile fields | `setReturned`, `setThrown` | any thread a callback hands them to |
| **Patch loading** `ExternalKernel.initPatchLoader/initPatch`, `src/xposed/.../XposedKernel.java`, `lang/extra/ProcessSelector.java` | the loaders of each kernel, the class loader ("generation") of a kernel | construction in the Zygote, fork, `handleLoadPackage`, debug reload, `loadAll`, `loadOne` | Xposed, user loaders |
| **Tracing control** `util/logcat/extra/Lucy.java` over `util/logcat/Logcat.java` | the singleton, `mIgnored`, `mHooking`, `mUnhooks` | `getInstance`, `hook`, `unhook`, `ignore` | the registry |
| **Call logger** `util/logcat/Logcat.java` | thread-locals `mIgnores`, `mDepths`, `mRecords` | `beforeExecuted`, `afterExecuted` | the dispatch; the formatter, which runs application code |
| **Object formatter** `util/logcat/FormatEntry.java`, `FormatObject`, `FormatIterable`, `FormatMap` | the list of formats and its published array, the thread-local stack of enclosing objects | `add`, `remove`, `toString` | custom formats, `equals`, getters |
| **Class searches** `util/SupplyAPI.getInheritClasses`, `util/reflect/ClassWrapper.getInnerClasses` | a queue and a list | one search | `java.lang.reflect` |
| **Killer** `src/killer/.../Killer.java`, `src/killer/src/main/cpp/so_killer.cpp` | the list of listeners; native globals `JVM`, listener, original `do_dlopen` | static initializer, add/remove listener, the `do_dlopen` replacement, `dumpSharedObject` | Dobby, the VM, every thread that loads a shared object |
| **Dobby: hooking** `src/killer/src/main/cpp/Dobby/source/` `dobby.cpp`, `InterceptRouting/`, `MemoryAllocator/`, `TrampolineBridge/` | list of hook entries, pages and chunks of executable memory, the first bytes of functions, each replacement's `origin_call` | `DobbyHook`, `DobbyInstrument`, `DobbyDestroy` | the relocations; every thread that calls a hooked function |
| **Dobby: x86 relocation** `InstructionRelocation/x86/` | opcode tables | length decoding, moving of branches | hooking |
| **Dobby: ARM relocation** `InstructionRelocation/arm/` | the copy, its labels, the map of moved instructions | one template per kind of instruction, fix-up | hooking |
| **Dobby: symbol resolver** `builtin-plugin/SymbolResolver/`, `UserMode/PlatformUtil/Linux/` | module list, one mapped file | `DobbySymbolResolver` | dynamic linker, `/proc/self/maps`, files |

Hard behaviours, and what would make each part correct:

* registry: two structures (array, `pairs`) are updated one after the other, in
  opposite orders by `patch` and `recover`, with exceptions in between. Every patch
  that runs must be withdrawable, every id must stand for a running patch, arrays
  stay in priority order;
* dispatch: patches come and go, also from their own callbacks, while a call is
  between its loops. Before/after callbacks must stay bracketed, a result must be
  decided, and the sentinel `Registers.NULL` must not escape;
* registers: two-step writes against two-step reads of another thread;
* loading: one loader failing must not cost another; several packages and the debug
  hand-over must not load twice, nor reload for ever;
* Lucy: double-checked locking, three nested monitors, `hook` racing `ignore`;
* logger: formatting re-enters traced functions and throws; depth, flag and recorded
  name must come out right;
* formatter: cyclic object graphs, equal copies, exceptions at depth, formats changed
  meanwhile;
* killer: native threads unknown to the VM, nested loads, loads during the static
  initializer;
* Dobby: hooks piled up on one function and taken down in any order while threads run
  through it, memory that runs out between two steps; copied instructions must do at
  another address what they did in place; variable-length instructions must be
  measured right, or the next one is cut;
* symbol resolver: files that do not open or map, or that are not the ELF file loaded
  there (a library mapped from inside an APK), modules unloaded between being listed and
  being read.

The hazards at their lines are in `PROJECT.json`.

## 2. Modules

| module | models | state and actions in terms of the code |
|---|---|---|
| `Sortable` | `Sortable.compareTo` | descending priority, then class-loader hash, then identity hash |
| `Patchwork` | registry | `lock` is the monitor of `Patchwork.class`. A call is split wherever a thread without that monitor can see the difference: entry with its early returns (`PatchFound`, `PatchNoKernel`, `RecoverAbsent`), hooking (`AddPatchHook`, `AddPatchHookThrows`), publishing the array (`AddPatchInsert`, `RecoverRemove`), updating `pairs` (`PatchRegister`, `RecoverEnter`). `FuncOf` relates `Member` objects to functions: `pairs` compares by identity, the kernel by `equals` |
| `Dispatch` | dispatch, EXTENDS `Patchwork` | a stack of frames per thread; a step per callback or body that ends; `SetReturned`, `SetThrown` by the running callback; registry steps interleave with all of them |
| `Registers` | registers across threads | one call, with each read and write of the two fields a step |
| `Loader` | loading | Zygote, fork, `handleLoadPackage`, reload, `initPatch`, `ProcessSelector.loadPatch` with its `finally` |
| `Lucy` | tracing control | monitors as owners; `Order(t)` lists what each operation nests; members are patched and recovered one by one |
| `Logcat` | logger | thread-locals as functions of the thread; a call is "before" (formatting arguments), "body", "after" (formatting the result) |
| `FormatEntry` | formatter | frames of the recursive `toString`; `ignores[t]` is the thread-local stack; `thrown[t]` an exception under way |
| `ClassSearch` | class searches | one step per element taken off the queue; the numbers of anonymous classes may have gaps, at which `Anonymous` stops and the reference `Names` does not |
| `Killer` | listeners and native callback | the steps of the static initializer, `DobbyHook`'s two effects, frames of `replace_do_dlopen_v23` per thread |
| `Maps` | `get_shared_object_maps`, `dumpSharedObject` | one step per line of the file, addresses modulo `2 * Half`, `jsize` signed |
| `Registry`, `PatchworkRefinement` | what the registry promises | `Registry` has no threads, monitors or arrays: a pair starts to run, then gets an id never used before; an id is given back, then its pair stops. `PatchworkRefinement` maps `Patchwork`'s state to it: `running` from the published arrays, `coming`/`going` from the thread between the two steps |
| `SymbolResolver` | `DobbySymbolResolver` | `dlsym`, one step per line of the maps, per file opened, mapped, searched and unmapped; `Unload` of another thread at any moment. `region_offset` is read by the code and never used: a file that opens but is not the ELF file loaded (`elf` false, an APK) goes through `SearchArchive`, whose outcomes are a crash, no symbol, or a made-up one; a line that does not parse is `ParseFails` (`FATAL`) |
| `Dobby` | hooking | the client's call is a record `op` that goes through the steps of `DobbyHook`/`DobbyInstrument`/`DobbyDestroy`; code is what each byte holds (`bytes`), chunks hold copies or trampolines; threads walk through both. A function may begin with an "unsupported" instruction, at which `RelocationAborts` ends the process |
| `X86Decode` | the length decoder | one step per stage: prefixes, opcode, modrm, displacement, immediate; what the operand loops find behind their array is chosen in `DecodeInit`. The references `ModrmByManual`, `TailByManual` and `LengthByManual` follow the manual for 32-bit mode: `0F 38` and `0F 3A` begin opcodes of three bytes, `62`, `C4` and `C5` with mod 3 are EVEX and VEX (`Vex`) |
| `ArmRelocation` | ARM and Thumb relocation | one step per instruction moved, the fix-up, then a machine that runs original and copy of the instruction. An `it` instruction makes the next `imm` instructions conditional: of the original those that follow it (`InBlock`), of the copy whatever was emitted, nops included (`InSlot`). `add`/`cmp` with the pc read their own register (`UsedValue`) |
| `Sums` | lengths of code | the bytes before each instruction of a list and of all of them, as the cursors of both relocations count them; used by `Dobby` and `ArmRelocation` |
| `PatchworkProofs`, `LoaderProofs`, `LucyProofs`, `LogcatProofs`, `KillerProofs`, `DobbyProofs` | | theorems and proofs: about the module of that name, and `PatchworkProofs` about `Dispatch`, `Registers` and the refinement, `LucyProofs` about `ClassSearch`, `LogcatProofs` about `FormatEntry`, `KillerProofs` about `Maps`, `DobbyProofs` about `SymbolResolver` |
| `RelocationProofs` | | theorems and proofs about `X86Decode` and `ArmRelocation` |
| `SequenceFacts` | | lemmas on minima, sequences and sums that these share |
| `MC*` | | the values of constants for TLC, no definitions of the system |

`Dispatch` composes with `Patchwork` directly (the arrays are shared state). `Lucy`
uses `patch` and `recover` as single steps and `Logcat` uses that a call's before and
after come in pairs: what `Patchwork` and `Dispatch` establish. `Killer` takes `DobbyHook`
as two steps, the address of the original stored and the function patched, in the order
`Dobby` checks, and includes its failure and the outcome without memory.

Data is abstracted to what matters: a returned object is `Value` (or who supplied it,
in `Registers`), a Throwable is `Error`, a log line is its class and indentation, a
class name is the set of ignored packages it starts with.

Assumed of code outside: `hookMember` and `invokeOriginalMember` (Xposed) do what
their names say, the former possibly throwing; `wtf`, the kernel's log of exceptions,
returns; `Patch` objects are compared by identity (no patch overrides `equals`);
`Arrays.sort` is a stable sort; the processor runs ARM, Thumb and x86 instructions as
their manuals say (`X86Decode`'s `...ByManual` and `ArmRelocation`'s `Meaning` are these
references).

Names ending in something like `...Unchecked` or `...Swapped` marked "Mutant" are
deliberately wrong variants of the definition that follows them. No specification
uses them; each shows, put in place of the right one, that the property listed beside
it in `PROJECT.json` notices.

## 3. Runs

`tlc -config X.cfg MCX` in this directory; all together take some minutes. Where a run
answers questions about parts that do not share state, its MC module puts their
specifications side by side: the constant-for-ever variable `part` chooses one, and the
others stay as they begin. `Over` stutters where such a part has come to its end.

| run | cfg | bounds | shows |
|---|---|---|---|
| registry | `MCPatchwork` | 2 threads, 2 functions, 3 patches (two tie in priority and all hashes), 3 ids | `TypeOK`, `NoGhost`, `RegisteredInEffect`, `RecoverAnswersExistence`, `HigherPriorityFirst`, `PatchAnswersInEffect`, `CallsReturn`, and the refinement `ImplementsRegistry`, liveness included |
| registry_two_lookups | `MCPatchworkTwoLookups` | 1 thread, two `Member` objects for one function | **violation**: see section 6 |
| dispatch | `MCDispatch` | calls: 2 threads, 2 patches, one thread calls, two calls deep. Registers: 3 helpers; either the callback waits for them, or they only call `setReturned`, at any moment. Loading: two processes of one app, three loader classes, debug and release, plug-in visible or not | `ResultDecided`, `Bracketed`; `SentinelStaysInside`, `LastResultWins`; `LoadedOnce`, `EveryLoaderCalled`, `LoadingEnds` |
| registers_race | `MCRegistersRace` | 1 helper, both setters at any moment | **violation**: see section 6 |
| tracing | `MCLucy` | Lucy: 2 threads, 2 classes, 3 members, 1 ignored package. Searches: all inheritance graphs and inner-class forests over 4 classes, numberings with gaps | `SingleInstance`, `IgnoredNotTraced`, `BooksAgree`, `CallsEnd`; `OnceNearestFirst` |
| inner_classes | `MCInnerGaps` (module `MCLucy`) | the searches of run tracing | **violation** |
| call_log | `MCLogcat` | log: 1 thread, 2 classes, 5 nested calls. Formatter: a list, a bean, an equal copy, a map and a word, with cycles; 2 custom formats | `DepthIsNesting`, `IgnoresWhileFormatting`, `ElidedNameIsAbove`; `CutsExactlyCycles`, `ChainTakesEveryObject`, `ToStringEnds` |
| so_listeners | `MCKiller` | listeners: a Java and a native thread, 2 listeners, loads two deep. Maps: all files of up to 3 lines, 2-bit addresses. Resolver: 2 modules, every combination of tables, the file an ELF file or an archive, bases {0, 7, 9}, files mapped at 7 or 50 | `ReadyWhenHooked`, `AttachedWhileNeeded`, `LoadsReturn`; `SmallestCover`; `FoundIfDefined`, `AddressOfSymbol` |
| dobby | `MCDobby` | hooking on x86: 2 functions, 2 replacements, 1 handler, 1 calling thread, 2 entries, 4 chunks on 2 pages of 110 bytes. Decoder: every opcode, one and two bytes, up to 2 prefixes, every form of addressing. ARM: each kind of instruction among plain ones, and in and behind an IT block | `EntriesAreLive`, `HeadRestored`, `CallsRunLive`, `CrashesAccountedFor`, `ChunksHoldTheirCode`, `EveryCallEnds`; `LengthRightIfSupported`; `CopiesDoTheSame` |
| dobby_destroy | `MCDobbyArm` | the same on ARM, one function in each instruction set | **violation** |
| x86_length | `MCX86Length` | the decoder of run dobby | **violation** |
| arm_fixup | `MCArmFixup` | the ARM part of run dobby | **violation** |

Why the bounds are enough. Registry: a conflict involves one thread that is inside the
monitor and one outside or at a call; three ids allow patch, recover and patch again
with a second patch present, and three patches with a complete tie cover every branch
of `compareTo`. Dispatch: a recover by another thread, or by the callback, between the
two loops needs two patches and one call; nesting two deep is where the registers of
an inner call could be confused with those of an outer one; a second calling thread
would add nothing, since calls meet only in the arrays, and the proofs have any number
of callers. Registers: two helpers already give every order of two writers and the
reader. Logger: the thread-locals of different
threads never meet, so one thread is the general case; five calls nest
traced-in-formatting-in-traced with room. Maps: three lines in any order show first,
lower and higher matches; two bits contain ranges below, at and above half the space.
Resolver: so2 is linked for address 0 (an ordinary shared object) and so1 is not (an
executable, a prelinked file); one base equals an address a file may be mapped at,
where differences vanish. Dobby: the beginning of f1 (two short branches, then the
longest instruction) is the one whose copy is longest, exactly the 32 bytes of the
first chunk; f2 has a relative call behind its first instruction; in a second instance f2 has
a `loop` under its trampoline, at which hooking it ends. Pages of 110 bytes are left with
too little, exactly enough and more than enough room for the next chunk within a few
hooks, and two pages are soon used up, so that every allocation also fails once. Two
entries give a pile of two on one function or one hook on each; a second calling thread
would share nothing with the first but code that both only read. After memory ran out
nothing more is hooked. Decoder: a third prefix only adds one to both lengths; the
register field of modrm matters to no opcode the property admits; one byte stands for
any number of bytes a stray immediate adds. ARM: the moved instruction stands at every
position, its function at 0 and 2 mod 4, and immediates lie at the limits the encoders
test; loads go to `r0`, to `pc` and to `r12`, which the templates use themselves. Blocks of
1, 2 and 4 instructions cover the nops alone, the copied instruction and the nops of the next.

Bounds in guards: `MaxId` (ids), `MaxDepth` (nesting), `Callers`, `MaxLines`, `Count`,
`MaxPages`, `MaxEntries`, `MaxChunks`, `MaxPrefixes`, `calls` of `Loader` (capped at 2:
the second stands for all later ones). Deadlock checking is off where the system may
stop: `MCKiller` (a search ends) and `MCDobby` (the process crashed, or the instruction is
decoded). Where a part of `MCDispatch` is over, `Over` stutters.

Fairness. Weak fairness for a thread's own steps says the scheduler runs it; strong
fairness for entering a monitor says the VM lets a waiting thread in eventually,
which Java does not promise in so many words but its VMs do. `Killer` assumes in
addition that user code ends: at each depth a listener returns or throws at some time,
even if it loads shared objects before (hence strong fairness per depth). `Dobby`
assumes that a thread inside a call keeps running, and nothing of the client that hooks.
`Registry` asks that a pair on its way in or out arrives; `Patchwork`'s fairness gives
it that. No run assumes that a new call is ever made.

## 4. Proofs

`tlapm M.tla` for each of the eight modules in section 2 (`DobbyProofs` and
`RelocationProofs` take some minutes from nothing). What is proved holds for every number
of threads, functions, hooks, patches, loaders, listeners, classes, objects, formats and
instructions, for every depth of nesting and every value of the bounds. The inductive
invariants were first checked with TLC on the instances of section 3, except `ArmInv`,
whose places in the buffer are quantified without bounds.

**Registry** (`PatchworkProofs`).

* `IInv == TypeOK /\ OwnerInside /\ IdsInOrder /\ ArraysOK /\ NoGhost`. `NoGhost`
  alone is not inductive: a thread past `AddPatchInsert` needs to be alone inside the
  monitor (`OwnerInside`), the next id must be free (`IdsInOrder`), and removing one
  position must remove the patch (`ArraysOK`: no duplicates, nothing in the array of
  an unhooked function). It gives `TypeCorrect` and `NoPatchLeftBehind`, for *any*
  relation of `Member` objects to functions.
* `CInv == IInv /\ OneIdEach /\ UnderWayInEffect /\ RegisteredInEffect`, inductive
  under `Canonical`: one `Member` object per function. It gives
  `IdsStandForRunningPatches`, `RecoverTellsTheTruth` and the action property
  `PatchTellsTheTruth`. Without `Canonical` these do not hold (section 6).
* `ComparatorContract`: the sign of `compareTo` is antisymmetric and "not greater" is
  transitive, what `Arrays.sort` requires. `PriorityOrder`: insertion and removal keep
  every published array in descending priority.
* `RegistrySafety`: under `Canonical` every step of `Patchwork`, seen through the
  mapping of `PatchworkRefinement`, is a step of `Registry` or none. One step per action:
  inserting into the array is `Start`, registering the pair hands out the id, `recover`
  gives it back and removal stops the pair; that `coming` and `going` name one pair each
  is `OwnerInside`.

**Dispatch and registers** (`PatchworkProofs`).

* `DispatchImplementsRegistry`: `DispatchSpec => Spec`, so everything above holds with
  calls going on;
* `DInv == IInv /\ StacksOK` describes a frame in each phase: `open` is the prefix of
  the snapshot up to `index`, and which registers are set. It yields
  `ResultAlwaysDecided` and `CallsAreBracketed`.
* `RegistersInv` follows the serialised use through every read and write
  (`SerialInv`) and says of the other that the object is stored before `thrown` is
  cleared and is never taken away (`ReturnedStays`). `LastResultAlwaysWins` needs no hypothesis; `SentinelKept` has
  `SafeUses`: callbacks wait for their helpers, or nobody calls `setThrown` from outside.
  Without it the sentinel escapes (`registers_race`).

**Loading** (`LoaderProofs`). `LoaderInv` relates what has been called to what is left:
`todo` is the rest of the loaders behind the first n, and the calls made are exactly
those due for the first n, in order (`Progress`; between `loadAll` and the `finally`, one
more). `KernelSettled` says that no call is made before the generation is. It gives
`NeverLoadedTwice` and `NoLoaderForgotten`.

**Lucy** (`LucyProofs`). `BooksAgree` and `IgnoredNotTraced` speak of moments when nobody
has the monitor of `mHooking`; `LucyInv` says what is true inside it: what a class on its
way in or out already has in which book (`OnTheWay`, `Listed`), and that an ignored class
still in `mHooking` is one a thread is about to unhook (`NotIgnored`). Also
`OneLucyOnly`.

**Class searches** (`LucyProofs`). `SearchesOutwards`: `OnceNearestFirst` for any number
of classes. What makes the array right at the end is a statement about every moment of the
queue. `SearchInv` has that every neighbour of a listed class is listed or queued
(`NothingLost`), that the list goes outwards (`ListInOrder`), and that a class stands in
the queue only behind everything nearer that is not listed yet (`QueueInOrder`), for each
distance k; a neighbour is what the code finds, and without gaps that is all a class names. `Acyclic` keeps of the two kinds of hierarchy what the argument needs: classes
lead to classes with higher numbers, so `Count` steps reach everything.

**Logger and formatter** (`LogcatProofs`). `LogInv` relates the calls of a thread to its
thread-locals: one call at most formats and nothing under it is logged, indentation
counts the open calls, the recorded name is on the line above. `FormatInv` says of every
frame of `toString` that a search has passed only formats that do not take the object and
that one ahead does, in the chain it holds whatever `add` and `remove` publish meanwhile,
and that `ignores` holds exactly the objects whose parts are formatted. The theorems are
`DepthAlwaysNesting`, `NeverDeaf`, `ElisionIsRight`, `CyclesCut` and `SearchFinds`.

**Killer** (`KillerProofs`). `KillerInv`: what the initializer has stored by its progress
(`InitOrder`), that every call but a thread's innermost waits in a listener
(`NestedInListeners`), and that a native thread is attached by its outermost call alone
(`AttachedByOutermost`). `HookIsReady`, `JavaRunsAttached`, `ToldOnce`. `MapsInv` says that
`start` and `end` are the extremes of the matching lines read so far; `DumpCovers`
follows for addresses of any width.

**Dobby** (`DobbyProofs`).

* Resolver: `ResolverInv` carries through the reading of the maps and the search of the
  files that the first module with the symbol among those found and those still to come
  is the one wanted (`MapsScanned`, `FilesSearched`), as long as nothing failed and no archive
  was opened. `DefinedIsFound`, `AddressIsRight`.
* Arena, on x86 and ARM: `ArenaInv` has for each page that its chunks end below its
  cursor (`Laid`), from which `ChunksAlwaysFit` follows for any page size, address and
  order of allocations.
* Hooking, on x86 (`X86`: no Thumb bits, functions at different addresses; on ARM
  `DobbyDestroy` is wrong, section 6). No property of hooking is inductive without saying
  how everything is chained. `HookInv(L)` does, for `L[f]` the entries of f, newest first
  (a theorem has `\E L`: the list mixes the entries of all functions). Unless f was hooked
  without memory: f begins with the jump to the newest entry; each entry has saved the
  bytes that lead to the next older one or to the function itself (`Saves`), its copy goes
  on to there (`GoesOn`), and its replacement's `origin_call`, or its closure, finds that
  copy and no other (`FindsCopy`). For calls, `OnItsWay` says how far along `L[f]` an
  undisturbed one is; for the client, `OpInv` says what a hook half installed has so far;
  `SoundInv` and `CodeInv` say that no address in use is null, which crashes would need.
  A step of a call keeps `L`; `Commit` puts an entry before `L[f]` and `DobbyDestroy` takes
  the first off. The theorems are `ListTellsTheTruth`, `HeadAlwaysRestored`,
  `CallsAlwaysRunLive` and `EveryCrashExplained`.

* The copy always fits (`ShortestFits`): whatever instructions a function begins with, the
  shortest list of them that covers the trampoline has at most `Span` bytes, and its copy,
  grown short branches and the jump back included, at most the 32 bytes of the first chunk
  tried, so `x86_try_again` is never reached. `LengthFacts` reduces the sums over a list of
  instructions to the recursive function `Offsets`, whose steps `SequenceFacts` proves by
  induction. Two short branches and an instruction of 15 bytes give exactly 32.

**Relocation** (`RelocationProofs`).

* x86: `LengthsMeasuredRight`. `DecodeInv` says at each stage of the decoder what the
  cursor has passed (prefixes, opcode bytes, modrm, sib) and which of these are there; at
  the end that is the sum the manual gives. The tables are compared opcode by opcode with
  the sets of the manual, those of one, two and three bytes; what they get wrong is named in
  `MisreadOpcodes`, `MisreadMod` and `MisreadBase` and nowhere else.
* ARM and Thumb: `CopiesAct`. `ArmInv` has three parts. `Moved`, while instructions are
  being moved: the template of each instruction moved so far lies at its recorded start,
  aligned as it needs, and its label names the original target (`CopyOf`). `Finished`,
  once the copy is closed: the jump to the rest of the function follows, then a word for
  each label, which holds the target unless the fix-up changed it. `RunInv`, while a copy
  runs: the processor is at a step of the template's way (`OnTrack`) with what the
  registers must hold there, or has arrived with the intended effect (`Arrived`). For each
  kind of instruction a lemma (`Goes...`) shows that one step leads to the next place on
  its way. That no instruction behind an IT block gets into a slot of its copy needs one more
  part: an `it` is copied as one item and every instruction after it as two or more, so items
  lie at least as far apart as the instructions they come from (`Spaced`), and the copy of an
  instruction outside the blocks is outside the slots (`Clear`).

Sequences of instructions are of any length. The induction their sums need is the one
over a subset of a range (`UpTo` in `SequenceFacts`), which has a set in place of the
operator parameter of the library's induction theorems and so is within the provers'
reach.

Assumptions. Most name the types of constants and that `Null` is none of the things it
stands beside. Those with content: `SymbolResolverAssumption` (modules are not loaded at
address 0, nor files mapped there), `FormatAssumption` (custom formats are none of the
built-in ones; `null` is formatted by the last), `DobbyAssumption` (a page has room for
the first chunk of 32 bytes and for the bridge; instructions have 1 to 15 bytes, branches
as many as their form has; a function is no shorter than the trampoline; names are no
numbers), `ArmRelocationAssumption` (functions and copies are aligned as their
instruction set demands; a function goes on behind the longest trampoline; an instruction
names only registers its encoding can name). The theorems on hooking share a bound of the
model: once memory ran out, nothing more is hooked.

Only model-checked: liveness (`CallsReturn`, `LoadingEnds`, `CallsEnd`, `ToStringEnds`,
`LoadsReturn`, `EveryCallEnds` and the fairness of `ImplementsRegistry`), since fairness is
outside the prover's reach. Every invariant and every action property of a passing run is
stated by a theorem, under the hypotheses named above (`Canonical`, `SafeUses`, `X86`).

## 5. Not modelled

* `util/HiddenAPI.java`, the conversions of `SupplyAPI`, the reflection wrappers other
  than the class search: single calls into Android or `java.lang.reflect`, no state.
* `Getter`: only as a source of values for custom formats.
* `Logcat.currentTag`: a hash made into a tag.
* unpacking of primitive and sparse arrays in the formats: conversions without
  control of their own.
* `DexKiller`, `SoKiller`, `DebugKiller`, `dex_killer.cpp`: file copying, process
  starting, foreign memory layouts.
* Dobby for other targets: the arm64, x64 and Darwin/Windows sources, the deprecated
  decoders, and the near-branch trampolines with `NearMemoryArena` (on 32-bit targets
  their builder returns NULL at once). The killer is built for `armeabi` and
  `x86` only (`src/killer/build.gradle`).
* Dobby's plug-ins other than the symbol resolver: switched off by default in its
  `CMakeLists.txt`, or (the hook of the global offset table) for Darwin only. `SupervisorCallMonitor/XnuInternal` holds
  copies of kernel headers, declarations only: about two thirds of the C and C++ lines
  of the repository are headers, and most of these are XNU's. With them, and with the
  sources of other targets, in the count, a model of everything that runs here still
  covers a small share of all lines.
* Dobby's containers (`LiteMutableArray`, `CodeBuffer`): growth by doubling, without
  control of their own; `FunctionWrapper`: unused by the killer.
* `CodePatch` is one step: which bytes a processor has fetched while `memcpy` writes them
  is below the model, and functions do not cross a page.
* a replacement that is installed again while it is in effect, with another one above it
  (`FunctionInlineReplaceExport.cc` compares the newest entry only): the client of
  `Dobby` does not do it, nor does `so_killer.cpp`, which hooks once.
* local classes with a name (`Outer$1Local`): `getDeclaredClasses` does not list them and
  no number alone names them, so `getInnerClasses` never asks for them.
* what a callee does with its return address: the copy of `call rel32` pushes an address in
  the copy, and a thunk that reads the program counter from there gets that one.
* an opcode `0F 70`-`0F 7F` that is no SSE opcode (`0F 71`-`0F 73`): the relocation looks at
  `primary_opcode` alone and takes it for a short conditional jump. The decoder's model has
  these among the misread opcodes, `Dobby` has not.
* builds of Dobby with `DOBBY_DEBUG` off. The option is on by default
  (`Dobby/CMakeLists.txt`), and only then `UNIMPLEMENTED`, `UNREACHABLE` and `FATAL` end
  the process, as `Dobby`, `X86Decode` and `SymbolResolver` have it.
* in `ArmRelocation`, different conditions within one IT block: `taken` stands for all of
  them, so "else" slots are not told from "then" slots.
* a getter that makes a new object at every call: the objects of `FormatEntry` are
  finitely many, and the real recursion ends with a `StackOverflowError`.
* a `wtf` that throws, as a toast without a view would make it on some Android versions.
* the stub classes under `src/android`.

## 6. Where code and comments disagree

* `registry_two_lookups`. `Patchwork.patch` looks for an existing registration with
  `pair[0] == member`; `java.lang.reflect` returns a new `Member` at each look-up, and
  the kernel compares them by `equals`. Patching "again" through a second look-up
  gives a second id for one array entry. After recovering the first, recovering the
  second returns `true`, documented as "patch exists or not", though the patch ended
  before.
* `registers_race`. `setThrown` stores `NULL` in `returned` before it stores the
  Throwable; a thread that does so while `replaceHookedMember` is between its last
  two reads makes the call return the sentinel, which the comment reserves for
  "will executing original". The order of the writes in `setReturned` is the safe one
  (run `dispatch`, where helpers only call `setReturned`).

* `inner_classes`. `ClassWrapper.getInnerClasses`, "Search inner classes, include self.",
  asks for `$1`, `$2`, ... and stops at the first that is not found. `javac` numbers without
  gaps; where a shrinker removed a class, every anonymous class behind it, with all inside,
  is missing, and `Lucy.Chain.traceInner`, "Hooking all inner classes by name or class", does
  not hook them. `OnceNearestFirst` of run `tracing` says what is returned all the same.
* `dobby_destroy`. On ARM `DobbyDestroy` looks its entry up under the caller's address,
  then takes one off the address, and patches and removes under the new one. The entry
  stays on the list, so hooking again with the same replacement is refused as already
  hooked; for a function in ARM state, which has no Thumb bit to take off, the saved
  bytes are written one byte early.
* `x86_length`. The base field of a sib byte (`ebp` is 5) is compared with the decoder's
  own constant `RBP`, which is 7: with mod 0, lengths are four bytes short for base
  `ebp` and four bytes long for base `edi`.
* `arm_fixup`. Labels of Thumb branches carry the Thumb bit, the map of moved
  instructions does not: a branch to another of the moved instructions leads to the
  begin of the copy instead of the copied instruction.

Some properties name what they leave out, because the code is wrong there and nothing in
the repository says it should not be.

* `LengthRightIfSupported` excepts the sib bytes above, the opcodes in `MisreadOpcodes` (far
  calls, moves from and to an address, `enter`, `aam`, `aad`, the coprocessor, the groups
  without operands in the tables, and the opcodes of three bytes behind `0F 38` and `0F 3A`,
  which the tables take for two-byte opcodes without a modrm byte), and modrm bytes whose mod
  field means something else (`MisreadMod`): VEX and EVEX prefixes, measured as `les`, `lds`
  or `bound`, and moves from and to control and debug registers with a mod other than 3.
* `CopiesDoTheSame` holds of the instructions in `Relocatable`, and not of ARM `b`/`bl`,
  conditional or byte `ldr`, conditional or rotated `adr`, Thumb `adr16`, `cbz`, `bcond16`
  backward or 16 and more forward, `b16` backward, `bcond32`, `adr32`, and `ldr32` to pc or
  with an unaligned offset. Nor of `add` or `cmp` of the pc with `r12` (the template loads the
  pc into `r12` before the instruction reads it: `ldr ip, label; add ip, ip`) or with the pc
  itself; nor of pc-relative encodings that no template knows and that are copied as they
  are (`pcrel`: `tbb`, the literal forms of `vldr` and `ldrb.w`, ARM's `mov` from the pc).
  And not inside an IT block: the nop in front of every copied Thumb instruction, and the
  other items of its template, take the slots of the block, so that the copy of an
  instruction in it is run unconditionally or by halves. Instructions behind the block are
  not affected.
* `CallsRunLive` lets a call go astray where a function begins with a conditional branch or a
  short jump.
* `CrashesAccountedFor` lets the process end while a function is hooked whose first
  instructions hold `loop`, `loopcc`, `jecxz` (`X86InstructionRelocation.cc:68-73`) or an SSE
  opcode (`x86_insn_decode.c:451-453`), or in Thumb code `svc` or `udf`.
* `FoundIfDefined` and `AddressOfSymbol` except a search that opened an archive: of a library
  mapped from inside an APK the maps name the APK, and its first bytes are read for an ELF
  header without a look at the magic number.

A further observation is not a disagreement with anything written: `Logcat` records the
class name before formatting; if formatting throws, the next line of the class is
printed without a name. `ElidedNameIsAbove` excepts that case through the history
variable `unshown`.

## 7. Plan

Done: the modules above, in the order registry, dispatch, proofs of both, registers,
loading, tracing, logger, formatter, killer, maps, class searches, abstract registry and
refinement, symbol resolver, Dobby with both relocations.

Proofs came in the order registry, dispatch, refinement, registers, Lucy, killer and
maps, logger and formatter, loading, resolver, arena, hooking, copy sizes, class
searches, decoder, ARM relocation.

What could follow:

1. `Logcat` over `Dispatch` in one composed module, replacing the assumption of pairs;
2. that hooked calls return, a fair specification over `Dispatch` on an instance
   smaller than the safety run's;
3. the lengths `X86Decode` measures in place of those `Dobby` takes as given, so that
   what a misread length does to a hook can be followed through a call.
