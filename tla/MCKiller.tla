------------------------------ MODULE MCKiller ------------------------------
(***************************************************************************)
(* Small instances for TLC of the native side of the killer: the hook of   *)
(* do_dlopen, the search for its symbol and the search of a shared object  *)
(* in the maps.  A behaviour is one of the three, chosen by part.          *)
(***************************************************************************)
EXTENDS Killer, SymbolResolver, Maps

CONSTANTS so1, so2

MCLoadedAt == [m \in Modules |-> IF m = so1 THEN 100 ELSE 200]

VARIABLE part

\* The parts that do not run stay as they begin.  Of the two modules searched
\* only so2 is linked for address 0 and may be inside an archive, which opens.
MCInit ==
    /\ part \in {"load", "resolve", "dump"}
    /\ Init
    /\ ResolverInit
    /\ file[so2].base = 0 /\ (part = "resolve" => file[so1].base # 0)
    /\ file[so1].elf /\ (file[so2].elf \/ (file[so2].opens /\ ~file[so2].dyn))
    /\ part # "resolve" => /\ \A m \in Modules : file[m] = file[so2] /\ ~file[m].opens
                           /\ ~file[so2].sym /\ ~file[so2].dyn /\ ~named
                           /\ library = NoModule /\ regions = <<NoModule, so1, so2>>
    /\ MapsInit
    /\ part # "dump" => start = 0 /\ end = 0

MCNext ==
    /\ UNCHANGED part
    /\ \/ part = "load" /\ Next /\ UNCHANGED <<resolverVars, mapsVars>>
       \/ part = "resolve" /\ ResolverNext /\ UNCHANGED <<vars, mapsVars>>
       \/ part = "dump" /\ MapsNext /\ UNCHANGED <<vars, resolverVars>>

Idle == part = "load" /\ UNCHANGED <<part, resolverVars, mapsVars>>

\* The fairness of Killer's FairSpec.
MCSpec ==
    /\ MCInit /\ [][MCNext]_<<part, vars, resolverVars, mapsVars>>
    /\ WF_vars(Initializer /\ Idle)
    /\ \A t \in Threads : \A d \in 1..MaxDepth : SF_vars(Len(stack[t]) = d /\ InLoad(t) /\ Idle)
=============================================================================
