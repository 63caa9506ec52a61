------------------------------- MODULE Loader -------------------------------
(***************************************************************************)
(* How patches come to be loaded.  The constructor of XposedKernel runs    *)
(* initPatchLoader in the Zygote; processes are forked from it with the    *)
(* loaders it made.  Xposed calls handleLoadPackage in a process for every *)
(* package it loads.  A debug build hands the first call over to a second  *)
(* kernel, made from the installed package by the class loader Debugger,   *)
(* with classes and loaders of its own; otherwise initPatch calls the      *)
(* loaders.  ProcessSelector is the loader that picks package and process. *)
(*                                                                         *)
(* A generation is the class loader a kernel comes from.  Class loading,   *)
(* constructors, resource files and loadAll, loadOne are outside the       *)
(* source: they may fail where Java lets them.                             *)
(***************************************************************************)
EXTENDS Integers, Sequences, SequencesExt

CONSTANTS Processes,
          Classes,       \* loader classes
          Files,         \* Files[g]: what assets/patch_loader of generation g
                         \* may list, or NoFile
          Default,       \* patch.Loader
          Target,        \* Target[c]: mPackageName
          PackageOf,     \* PackageOf[p]: HiddenAPI.currentPackageName
          NameOf,        \* NameOf[p]: HiddenAPI.currentProcessName
          NoFile

Zygote == "zygote"
Generations == {"module", "debugger"}
Places == Processes \cup {Zygote}

ASSUME LoaderAssumption ==
    /\ Default \in Classes /\ Zygote \notin Processes
    /\ \A g \in Generations : \A file \in Files[g] : file = NoFile \/ file \in Seq(Classes)

VARIABLES debug,      \* BuildConfig.DEBUG of the plugin
          installed,  \* getPackageInfo finds the plugin (not in system_server)
          phase,      \* phase[p]: what the loading thread of p does
          gen,        \* gen[p]: generation of the kernel it does it in
          todo,       \* todo[p]: classes or loaders still to be visited
          loaders,    \* loaders[p][g]: mPatchLoaders
          ran,        \* (history) ran[p]: loadAll and loadOne calls, in order,
                      \* each with the place of its loader in mPatchLoaders
          calls       \* calls[p]: handleLoadPackage calls so far, capped at 2

loaderVars == <<debug, installed, phase, gen, todo, loaders, ran, calls>>
config == <<debug, installed>>

LoaderInit ==
    /\ debug \in BOOLEAN /\ installed \in BOOLEAN
    /\ phase = [p \in Places |-> IF p = Zygote THEN "read" ELSE "unborn"]
    /\ gen = [p \in Places |-> "module"]
    /\ todo = [p \in Places |-> << >>]
    /\ loaders = [p \in Places |-> [g \in Generations |-> << >>]]
    /\ ran = [p \in Places |-> << >>]
    /\ calls = [p \in Places |-> 0]

GotoPhase(p, label) == phase' = [phase EXCEPT ![p] = label]

-----------------------------------------------------------------------------
(* The constructor: initPatchLoader *)

\* The lines of the resource; an IOException ends the list early.
ReadFile(p) ==
    /\ phase[p] = "read"
    /\ \E file \in Files[gen[p]] \ {NoFile} : \E n \in 0..Len(file) :
         todo' = [todo EXCEPT ![p] = SubSeq(file, 1, n)]
    /\ GotoPhase(p, "create")
    /\ UNCHANGED <<config, gen, loaders, ran, calls>>

\* There is no such resource.
ReadDefault(p) ==
    /\ phase[p] = "read" /\ NoFile \in Files[gen[p]]
    /\ todo' = [todo EXCEPT ![p] = <<Default>>]
    /\ GotoPhase(p, "create")
    /\ UNCHANGED <<config, gen, loaders, ran, calls>>

\* A loader is made and kept.
Create(p) ==
    /\ phase[p] = "create" /\ todo[p] # << >>
    /\ loaders' = [loaders EXCEPT ![p][gen[p]] = Append(@, Head(todo[p]))]
    /\ todo' = [todo EXCEPT ![p] = Tail(@)]
    /\ UNCHANGED <<config, phase, gen, ran, calls>>

\* Its class is missing, no PatchLoader, or its constructor throws.
CreateFails(p) ==
    /\ phase[p] = "create" /\ todo[p] # << >>
    /\ todo' = [todo EXCEPT ![p] = Tail(@)]
    /\ UNCHANGED <<config, phase, gen, loaders, ran, calls>>

\* The kernel is made: the Zygote waits, a reloading process goes on with
\* handleLoadPackage of the new kernel.
Created(p) ==
    /\ phase[p] = "create" /\ todo[p] = << >>
    /\ GotoPhase(p, IF p = Zygote THEN "ready" ELSE "handle")
    /\ UNCHANGED <<config, gen, todo, loaders, ran, calls>>

\* A process is forked from the Zygote.
Fork(p) ==
    /\ phase[p] = "unborn" /\ phase[Zygote] = "ready"
    /\ loaders' = [loaders EXCEPT ![p] = loaders[Zygote]]
    /\ GotoPhase(p, "ready")
    /\ UNCHANGED <<config, gen, todo, ran, calls>>

-----------------------------------------------------------------------------
(* handleLoadPackage *)

\* Mutant: every package counts as the first one.
HandleFirstAlways(p) ==
    /\ p # Zygote /\ phase[p] = "ready" /\ calls[p] < 2
    /\ calls' = [calls EXCEPT ![p] = @ + 1]
    /\ GotoPhase(p, "handle")
    /\ UNCHANGED <<config, gen, todo, loaders, ran>>

\* Xposed's first call in a process has isFirstApplication set.
HandleFirst(p) ==
    /\ p # Zygote /\ phase[p] = "ready" /\ calls[p] = 0
    /\ calls' = [calls EXCEPT ![p] = 1]
    /\ GotoPhase(p, "handle")
    /\ UNCHANGED <<config, gen, todo, loaders, ran>>

\* Later ones return at once.
HandleOther(p) ==
    /\ p # Zygote /\ phase[p] = "ready" /\ calls[p] = 1
    /\ calls' = [calls EXCEPT ![p] = 2]
    /\ UNCHANGED <<config, phase, gen, todo, loaders, ran>>

\* Mutant: without the test for a kernel that is already reloaded.
ReloadNeededAgain(p) == debug /\ installed

\* isDebug and reloadIfNeeded, up to the new class loader.
ReloadNeeded(p) == debug /\ installed /\ gen[p] # "debugger"

\* The second kernel is made from the installed package.
Reload(p) ==
    /\ phase[p] = "handle" /\ ReloadNeeded(p)
    /\ gen' = [gen EXCEPT ![p] = "debugger"]
    /\ loaders' = [loaders EXCEPT ![p]["debugger"] = << >>]
    /\ GotoPhase(p, "read")
    /\ UNCHANGED <<config, todo, ran, calls>>

\* Its class cannot be loaded: the exception goes to Xposed.
ReloadFails(p) ==
    /\ phase[p] = "handle" /\ ReloadNeeded(p)
    /\ GotoPhase(p, "failed")
    /\ UNCHANGED <<config, gen, todo, loaders, ran, calls>>

\* initPatch takes the loaders of this kernel.
InitPatch(p) ==
    /\ phase[p] = "handle" /\ ~ReloadNeeded(p)
    /\ todo' = [todo EXCEPT ![p] = loaders[p][gen[p]]]
    /\ GotoPhase(p, "load")
    /\ UNCHANGED <<config, gen, loaders, ran, calls>>

-----------------------------------------------------------------------------
(* ProcessSelector.loadPatch, called by initPatch *)

Entry(p, method) ==
    [at |-> Len(loaders[p][gen[p]]) - Len(todo[p]) + 1,
     class |-> Head(todo[p]), gen |-> gen[p], method |-> method]
NextLoader(p) == todo' = [todo EXCEPT ![p] = Tail(@)]

\* Another package than the loader's.
LoadSkipped(p) ==
    /\ phase[p] = "load" /\ todo[p] # << >> /\ Target[Head(todo[p])] # PackageOf[p]
    /\ NextLoader(p)
    /\ UNCHANGED <<config, phase, gen, loaders, ran, calls>>

\* loadAll, which may return or throw.
LoadAll(p) ==
    /\ phase[p] = "load" /\ todo[p] # << >> /\ Target[Head(todo[p])] = PackageOf[p]
    /\ ran' = [ran EXCEPT ![p] = Append(@, Entry(p, "loadAll"))]
    /\ \E label \in {"finally", "finallyThrown"} : GotoPhase(p, label)
    /\ UNCHANGED <<config, gen, todo, loaders, calls>>

\* Mutant: loadOne after loadAll rather than in a finally.
LoadOneUnlessThrown(p) ==
    /\ phase[p] \in {"finally", "finallyThrown"}
    /\ IF NameOf[p] = Target[Head(todo[p])] /\ phase[p] = "finally"
       THEN ran' = [ran EXCEPT ![p] = Append(@, Entry(p, "loadOne"))]
       ELSE UNCHANGED ran
    /\ NextLoader(p)
    /\ GotoPhase(p, "load")
    /\ UNCHANGED <<config, gen, loaders, calls>>

\* The finally of loadPatch; an exception of either call ends in the catch of
\* initPatch, which goes on with the next loader.
LoadOne(p) ==
    /\ phase[p] \in {"finally", "finallyThrown"}
    /\ IF NameOf[p] = Target[Head(todo[p])]
       THEN ran' = [ran EXCEPT ![p] = Append(@, Entry(p, "loadOne"))]
       ELSE UNCHANGED ran
    /\ NextLoader(p)
    /\ GotoPhase(p, "load")
    /\ UNCHANGED <<config, gen, loaders, calls>>

\* initPatch, and with it handleLoadPackage of every kernel, returns.
Loaded(p) ==
    /\ phase[p] = "load" /\ todo[p] = << >>
    /\ GotoPhase(p, "ready")
    /\ UNCHANGED <<config, gen, todo, loaders, ran, calls>>

Step(p) ==
    \/ ReadFile(p) \/ ReadDefault(p) \/ Create(p) \/ CreateFails(p) \/ Created(p)
    \/ Reload(p) \/ ReloadFails(p) \/ InitPatch(p)
    \/ LoadSkipped(p) \/ LoadAll(p) \/ LoadOne(p) \/ Loaded(p)

LoaderNext ==
    \/ \E p \in Places : Step(p)
    \/ \E p \in Processes : Fork(p) \/ HandleFirst(p) \/ HandleOther(p)

LoaderSpec == LoaderInit /\ [][LoaderNext]_loaderVars

\* The loading thread of a process keeps running.
LoaderFairSpec == LoaderSpec /\ \A p \in Places : WF_loaderVars(Step(p))

-----------------------------------------------------------------------------
(* Properties *)

Kept(p) == loaders[p][gen[p]]
Handled(p) == phase[p] = "ready" /\ calls[p] > 0

\* One call comes before another: of an earlier loader, or loadAll before the
\* loadOne of the same loader.
Precedes(e, d) ==
    e.at < d.at \/ (e.at = d.at /\ e.method = "loadAll" /\ d.method = "loadOne")

\* The calls due to the first n of the loaders s of generation g: loadAll of
\* those made for this package, and loadOne in its main process.
Methods(p) == IF NameOf[p] = PackageOf[p] THEN {"loadAll", "loadOne"} ELSE {"loadAll"}
Due(p, s, g, n) ==
    {[at |-> k, class |-> s[k], gen |-> g, method |-> m] :
        k \in {i \in 1..n : Target[s[i]] = PackageOf[p]}, m \in Methods(p)}

\* The code of one generation alone is loaded into a process, the reloaded one
\* where there is one, and its loaders are called in the order they are kept,
\* each once: neither a second package in the process nor the hand-over of a
\* debug build loads patches twice.
LoadedOnce ==
    \A p \in Processes :
        /\ \A i \in DOMAIN ran[p] :
             ran[p][i].gen = IF debug /\ installed THEN "debugger" ELSE "module"
        /\ \A i, j \in DOMAIN ran[p] : i < j => Precedes(ran[p][i], ran[p][j])

\* After handleLoadPackage every loader that was made for this package has
\* been called, and no other, whichever of the others failed to load, to be
\* constructed or to run (the catch clauses of initPatchLoader and initPatch),
\* with loadOne after its loadAll in the main process only, even after one that
\* threw (the finally of loadPatch).
EveryLoaderCalled ==
    \A p \in Processes :
        Handled(p) => ToSet(ran[p]) = Due(p, Kept(p), gen[p], Len(Kept(p)))

\* handleLoadPackage ends: the hand-over to the reloaded kernel is not handed
\* over again.
LoadingEnds ==
    \A p \in Processes : phase[p] = "handle" ~> phase[p] \in {"ready", "failed"}
=============================================================================
