------------------------------ MODULE Registers ------------------------------
(***************************************************************************)
(* Patch.Registers shared between threads.  Dispatch treats setReturned    *)
(* and setThrown as atomic, which is right for a callback that uses the    *)
(* registers on the thread it was called on.  Nothing keeps a callback     *)
(* from handing its Registers to another thread, and the two fields are    *)
(* volatile; each setter is two separate writes, and replaceHookedMember   *)
(* reads the two fields one after the other.  This module is one call of   *)
(* replaceHookedMember with every read and write of the fields a step.     *)
(*                                                                         *)
(* An object or Throwable is known by who supplied it: a writer or the     *)
(* original body.                                                          *)
(***************************************************************************)
CONSTANTS Helpers,    \* threads that were given the registers
          Owner,      \* the thread that runs replaceHookedMember
          Original,   \* the body of the function, as a source of results
          NULL,       \* the sentinel Registers.NULL
          NoThrow,    \* Java's null in thrown
          Uses        \* the ways callbacks use the registers, see use

Writers == Helpers \cup {Owner}

ASSUME RegistersAssumption ==
    /\ NULL \notin Writers \cup {Original, NoThrow}
    /\ NoThrow \notin Writers \cup {Original}
    /\ \A u \in Uses : u.serialised \in BOOLEAN /\ u.setters \subseteq {"setReturned", "setThrown"}

VARIABLES use,       \* use.serialised: a callback waits for the threads it
                     \* gave the registers to, and these write one at a time;
                     \* use.setters: the setters that are called
          returned,  \* NULL or who supplied the object
          thrown,    \* NoThrow or who supplied the Throwable
          at,        \* where replaceHookedMember is
          half,      \* half[w]: the setter w has made the first write of
          result,    \* how the call ended: <<"returned", x>>, <<"thrown", x>>
          last       \* (history) the result supplied last

registersVars == <<use, returned, thrown, at, half, result, last>>

Callback == {"before", "after"}

RegistersInit ==
    /\ use \in Uses
    /\ returned = NULL /\ thrown = NoThrow
    /\ at = "before"
    /\ half = [w \in Writers |-> "none"]
    /\ result = << >> /\ last = << >>

-----------------------------------------------------------------------------
(* Registers *)

Quiet == \A w \in Writers : half[w] = "none"

\* The owner calls setters from its callbacks only.
MayWrite(w) ==
    /\ half[w] = "none"
    /\ IF use.serialised THEN at \in Callback /\ Quiet ELSE w = Owner => at \in Callback

\* Mutant: setReturned clears thrown before it stores the object.
SetReturnedFirstSwapped(w) ==
    /\ MayWrite(w) /\ "setReturned" \in use.setters
    /\ thrown' = NoThrow
    /\ half' = [half EXCEPT ![w] = "setReturned"]
    /\ last' = <<"returned", w>>
    /\ UNCHANGED <<use, returned, at, result>>

SetReturnedFirst(w) ==
    /\ MayWrite(w) /\ "setReturned" \in use.setters
    /\ returned' = w
    /\ half' = [half EXCEPT ![w] = "setReturned"]
    /\ last' = <<"returned", w>>
    /\ UNCHANGED <<use, thrown, at, result>>

\* Mutant: setReturned leaves thrown alone.
SetReturnedSecondMissing(w) ==
    /\ half[w] = "setReturned"
    /\ half' = [half EXCEPT ![w] = "none"]
    /\ UNCHANGED <<use, returned, thrown, at, result, last>>

SetReturnedSecond(w) ==
    /\ half[w] = "setReturned"
    /\ thrown' = NoThrow
    /\ half' = [half EXCEPT ![w] = "none"]
    /\ UNCHANGED <<use, returned, at, result, last>>

SetThrownFirst(w) ==
    /\ MayWrite(w) /\ "setThrown" \in use.setters
    /\ returned' = NULL
    /\ half' = [half EXCEPT ![w] = "setThrown"]
    /\ last' = <<"thrown", w>>
    /\ UNCHANGED <<use, thrown, at, result>>

SetThrownSecond(w) ==
    /\ half[w] = "setThrown"
    /\ thrown' = w
    /\ half' = [half EXCEPT ![w] = "none"]
    /\ UNCHANGED <<use, returned, at, result, last>>

-----------------------------------------------------------------------------
(* replaceHookedMember *)

\* The running callback can end.
CallbackEnds == IF use.serialised THEN Quiet ELSE half[Owner] = "none"

\* The last beforeExecuted has ended; registers.returned is compared first.
ReadReturned ==
    /\ at = "before" /\ CallbackEnds
    /\ at' = IF returned = NULL THEN "readThrown" ELSE "after"
    /\ UNCHANGED <<use, returned, thrown, half, result, last>>

ReadThrown ==
    /\ at = "readThrown"
    /\ at' = IF thrown = NoThrow THEN "original" ELSE "after"
    /\ UNCHANGED <<use, returned, thrown, half, result, last>>

OriginalReturns ==
    /\ at = "original"
    /\ returned' = Original
    /\ at' = "after"
    /\ last' = <<"returned", Original>>
    /\ UNCHANGED <<use, thrown, half, result>>

OriginalThrows ==
    /\ at = "original"
    /\ thrown' = Original
    /\ at' = "after"
    /\ last' = <<"thrown", Original>>
    /\ UNCHANGED <<use, returned, half, result>>

\* The last afterExecuted has ended; thrown decides.
LastReadThrown ==
    /\ at = "after" /\ CallbackEnds
    /\ \/ thrown = NoThrow /\ at' = "return" /\ UNCHANGED result
       \/ thrown # NoThrow /\ at' = "done" /\ result' = <<"thrown", thrown>>
    /\ UNCHANGED <<use, returned, thrown, half, last>>

LastReadReturned ==
    /\ at = "return"
    /\ result' = <<"returned", returned>>
    /\ at' = "done"
    /\ UNCHANGED <<use, returned, thrown, half, last>>

ReplaceHookedMember ==
    \/ ReadReturned \/ ReadThrown \/ OriginalReturns \/ OriginalThrows
    \/ LastReadThrown \/ LastReadReturned
Write(w) == \/ SetReturnedFirst(w) \/ SetReturnedSecond(w)
            \/ SetThrownFirst(w) \/ SetThrownSecond(w)

RegistersNext == ReplaceHookedMember \/ \E w \in Writers : Write(w)

RegistersSpec == RegistersInit /\ [][RegistersNext]_registersVars

-----------------------------------------------------------------------------
(* Properties *)

\* "meaning will executing original": a caller never receives the sentinel.
SentinelStaysInside == result # <<"returned", NULL>>

\* The call ends with the result supplied last, be it by a callback, by a
\* thread the callback waits for or by the original.
LastResultWins == use.serialised /\ at = "done" => result = last
=============================================================================
