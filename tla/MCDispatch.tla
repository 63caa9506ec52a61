----------------------------- MODULE MCDispatch -----------------------------
(***************************************************************************)
(* Small instances for TLC of the kernel: how it loads patches, whole      *)
(* hooked calls among threads that patch, and one call whose registers are *)
(* shared between threads.  A behaviour is one of the three, chosen by     *)
(* part.                                                                   *)
(*                                                                         *)
(* Patches are loaded into the main process of an app and a second one of  *)
(* it.  Two loaders want the app, one another package; the installed       *)
(* package lists its loaders in another order than the one the Zygote has, *)
(* or has no list.                                                         *)
(***************************************************************************)
EXTENDS Dispatch, MCRegisters, Loader, TLC

CONSTANTS t1, t2, m1, f1, p1, p2

MCPriority == [p \in Patches |-> IF p = p2 THEN 7 ELSE 0]
MCHash == [p \in Patches |-> 1]
MCFuncOf == [m \in Members |-> f1]

CONSTANTS main, remote, a, b, other, app, elsewhere, appRemote

MCClasses == {a, b, other}
MCFiles == ("module" :> {<<a, other, b>>} @@ "debugger" :> {<<b, a>>, NoFile})
MCTarget == (a :> app @@ b :> app @@ other :> elsewhere)
MCPackageOf == [p \in Processes |-> app]
MCNameOf == (main :> app @@ remote :> appRemote)

VARIABLE part

\* The parts that do not run stay as they begin.
MCInit ==
    /\ part \in {"calls", "registers", "loading"}
    /\ DispatchInit /\ RegistersInit /\ LoaderInit
    /\ part # "registers" => use = CHOOSE u \in Uses : TRUE
    /\ part # "loading" => ~debug /\ ~installed

\* A call that is over is the end, and so is a process that has been told of
\* every package.
Over ==
    /\ \/ part = "registers" /\ at = "done"
       \/ part = "loading" /\ \A p \in Processes : phase[p] = "failed" \/ calls[p] = 2
    /\ UNCHANGED <<part, vars, registersVars, loaderVars>>

MCNext ==
    \/ part = "calls" /\ DispatchNext /\ UNCHANGED <<part, registersVars, loaderVars>>
    \/ part = "registers" /\ RegistersNext /\ UNCHANGED <<part, vars, loaderVars>>
    \/ part = "loading" /\ LoaderNext /\ UNCHANGED <<part, vars, registersVars>>
    \/ Over

\* The fairness of LoaderFairSpec.
MCSpec ==
    /\ MCInit /\ [][MCNext]_<<part, vars, registersVars, loaderVars>>
    /\ \A p \in Places :
         WF_loaderVars(part = "loading" /\ Step(p) /\ UNCHANGED <<part, vars, registersVars>>)
=============================================================================
