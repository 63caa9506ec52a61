------------------------------ MODULE MCLogcat ------------------------------
(***************************************************************************)
(* Small instances for TLC of the call log: its lines, and the formatter   *)
(* that gives them their text.  A behaviour is one of the two, chosen by   *)
(* part.                                                                   *)
(*                                                                         *)
(* The objects: an application list that contains itself and a bean; a     *)
(* bean that points back at the list and at an equal copy of itself; a     *)
(* system map from a final object to the list.  Of the custom formats,     *)
(* getters lists the values of beans and lists, short answers without      *)
(* parts for beans.                                                        *)
(***************************************************************************)
EXTENDS Logcat, FormatEntry

CONSTANTS list, bean, copy, map, word, getters, short

MCObjects == {list, bean, copy, map, word, NullObject}
MCKindOf == (list :> "appIterable" @@ bean :> "plain" @@ copy :> "plain"
             @@ map :> "systemMap" @@ word :> "final" @@ NullObject :> "final")
MCClassOf == [o \in MCObjects |-> IF o = copy THEN bean ELSE o]
MCItemsOf == [o \in MCObjects |-> CASE o = list -> <<list, bean>>
                                    [] o = map  -> <<word, list>>
                                    [] OTHER    -> << >>]
MCTakes == (getters :> {bean, copy, list} @@ short :> {bean, copy})
MCValuesOf == [f \in {getters, short} |->
                 [o \in MCObjects |-> CASE f = short -> << >>
                                        [] o = bean -> <<word, copy, word, list>>
                                        [] o = copy -> <<word, bean, word>>
                                        [] OTHER    -> <<word, word>>]]

VARIABLE part

\* The part that does not run stays as it begins.
MCInit == part \in {"log", "format"} /\ Init /\ FormatInit

MCNext ==
    \/ part = "log" /\ Next /\ UNCHANGED <<part, formatVars>>
    \/ part = "format" /\ FormatNext /\ UNCHANGED <<part, vars>>

\* A thread inside toString keeps running.
MCSpec ==
    /\ MCInit /\ [][MCNext]_<<part, vars, formatVars>>
    /\ \A t \in Callers :
         WF_formatVars(part = "format" /\ Step(t) /\ UNCHANGED <<part, vars>>)
=============================================================================
