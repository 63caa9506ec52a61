---------------------------- MODULE FormatEntry ----------------------------
(***************************************************************************)
(* util/logcat/FormatEntry.java: objects become text through a chain of    *)
(* formats that other threads change meanwhile.  toString is a stack       *)
(* machine per thread: a frame searches the array it read for a format     *)
(* that takes its object; a format that answers with parts makes it format *)
(* each part by a nested toString.  The thread-local stack mIgnores holds  *)
(* the objects whose parts are being formatted and cuts cycles.            *)
(*                                                                         *)
(* Objects are model values with a kind (what the belongTo of the built-in *)
(* formats tell apart), an equality class (equals) and parts.  The text is *)
(* left out.  Formats and equals run application code and may throw.  The  *)
(* "return null" that ends toString has no action: ChainTakesEveryObject   *)
(* shows that no search gets there.                                        *)
(***************************************************************************)
EXTENDS Integers, Sequences, FiniteSets, SequencesExt

CONSTANTS Callers,
          Objects,
          NullObject,       \* Java's null, an object to toString
          Custom,     \* formats passed to add and remove
          KindOf,     \* KindOf[o]: see Kinds
          ClassOf,    \* ClassOf[o] = ClassOf[p] iff o.equals(p)
          ItemsOf,    \* ItemsOf[o]: what an iterable or a map contains
          Takes,      \* Takes[f]: the objects a custom format belongs to
          ValuesOf    \* ValuesOf[f][o]: keys and values of f's toArray2

Kinds == {"final", "array", "systemIterable", "appIterable", "sparse",
          "systemMap", "appMap", "plain"}

VARIABLES formats,    \* mFormatList
          array,      \* mFormatArray
          nested,    \* mIgnores, empty until first used
          frames,      \* frames[t]: the toString calls t is in
          thrown      \* thrown[t]: an exception is leaving the top frame

formatVars == <<formats, array, nested, frames, thrown>>

-----------------------------------------------------------------------------
(* The formats *)

Before == <<"FormatObject.B", "FormatIterable.B", "FormatMap.B">>
After == <<"FormatMap.A", "FormatIterable.A", "FormatObject.A">>

\* The default formats are private to their package: no client adds one.
ASSUME FormatAssumption ==
    /\ NullObject \in Objects /\ KindOf[NullObject] = "final"
    /\ KindOf \in [Objects -> Kinds]
    /\ ItemsOf \in [Objects -> Seq(Objects)]
    /\ ValuesOf \in [Custom -> [Objects -> Seq(Objects)]]
    /\ Custom \cap (ToSet(Before) \cup ToSet(After)) = {}

\* Mutant: without the formats that take what no other does.
FlushUnbacked(list) == Before \o list \o SubSeq(After, 1, 2)

\* flush: final objects first, then the custom formats, then the defaults.
Flush(list) == Before \o list \o After

isFinalObject(o) == KindOf[o] = "final"
isIterable(o) == KindOf[o] \in {"array", "systemIterable", "appIterable"}
isFinalIterable(o) == isIterable(o) /\ KindOf[o] # "appIterable"
isMap(o) == KindOf[o] \in {"sparse", "systemMap", "appMap"}
isFinalMap(o) == isMap(o) /\ KindOf[o] # "appMap"

belongTo(f, o) ==
    CASE f = "FormatObject.B"   -> isFinalObject(o)
      [] f = "FormatIterable.B" -> isFinalIterable(o)
      [] f = "FormatMap.B"      -> isFinalMap(o)
      [] f = "FormatMap.A"      -> isMap(o)
      [] f = "FormatIterable.A" -> isIterable(o)
      [] f = "FormatObject.A"   -> TRUE
      [] OTHER                  -> o \in Takes[f]

\* FormatMap.format makes the number of parts even.
Paired(parts) == IF Len(parts) % 2 = 0 THEN parts ELSE Append(parts, NullObject)

\* Format0.toArray2: keys and values, an exception being a value too.
toArray2(f, o) == ValuesOf[f][o]

\* The parts a format answers with, none for FormatObject.
PartsOf(f, o) ==
    CASE f \in {"FormatObject.B", "FormatObject.A"}     -> << >>
      [] f \in {"FormatIterable.B", "FormatIterable.A"} -> ItemsOf[o]
      [] f \in {"FormatMap.B", "FormatMap.A"}           -> Paired(ItemsOf[o])
      [] OTHER                                          -> Paired(toArray2(f, o))

-----------------------------------------------------------------------------

FormatInit ==
    /\ formats = << >>
    /\ array = Flush(<< >>)
    /\ nested = [t \in Callers |-> << >>]
    /\ frames = [t \in Callers |-> << >>]
    /\ thrown = [t \in Callers |-> FALSE]

callVars == <<nested, frames, thrown>>
chainVars == <<formats, array>>

\* add: under the monitor of the list, so one step for every reader.
Add(f) ==
    /\ formats' = <<f>> \o RemoveFirst(formats, f)
    /\ array' = Flush(formats')
    /\ UNCHANGED callVars

\* remove, under the same monitor.
RemoveFormat(f) ==
    /\ formats' = RemoveFirst(formats, f)
    /\ array' = Flush(formats')
    /\ UNCHANGED callVars

Busy(t) == frames[t] # << >>
Frame(t) == frames[t][Len(frames[t])]
In(t, phase) == Busy(t) /\ ~thrown[t] /\ Frame(t).phase = phase
Drop(s) == SubSeq(s, 1, Len(s) - 1)

\* phase: "entered", "search" (chain read), "parts" (formatting part i)
NewFrame(o) == [object |-> o, phase |-> "entered", chain |-> << >>,
                parts |-> << >>, i |-> 0]

\* Mutant: only the innermost enclosing object is looked at.
IgnoredInnermost(t, o) ==
    nested[t] # << >> /\ ClassOf[nested[t][Len(nested[t])]] = ClassOf[o]

\* ignore.lastIndexOf(object) >= 0
Ignored(t, o) == \E k \in 1..Len(nested[t]) : ClassOf[nested[t][k]] = ClassOf[o]

\* toString called from outside.
Call(t, o) ==
    /\ ~Busy(t) /\ ~thrown[t]
    /\ frames' = [frames EXCEPT ![t] = <<NewFrame(o)>>]
    /\ UNCHANGED <<chainVars, nested, thrown>>

\* An object inside itself is returned as ".this".
ReturnThis(t) ==
    /\ In(t, "entered") /\ Ignored(t, Frame(t).object)
    /\ frames' = [frames EXCEPT ![t] = Drop(@)]
    /\ UNCHANGED <<chainVars, nested, thrown>>

\* Otherwise the array is read, once for this frame.
ReadChain(t) ==
    /\ In(t, "entered") /\ ~Ignored(t, Frame(t).object)
    /\ frames' = [frames EXCEPT ![t][Len(frames[t])].phase = "search",
                              ![t][Len(frames[t])].chain = array]
    /\ UNCHANGED <<chainVars, nested, thrown>>

\* f is the first format of the chain that takes o.
FirstFor(f, chain, o) ==
    \E k \in 1..Len(chain) : /\ chain[k] = f /\ belongTo(f, o)
                             /\ \A j \in 1..k-1 : ~belongTo(chain[j], o)

\* The format answers without parts: its text is returned.
ReturnText(t) ==
    /\ In(t, "search")
    /\ \E f \in ToSet(Frame(t).chain) : /\ FirstFor(f, Frame(t).chain, Frame(t).object)
                                      /\ PartsOf(f, Frame(t).object) = << >>
    /\ frames' = [frames EXCEPT ![t] = Drop(@)]
    /\ UNCHANGED <<chainVars, nested, thrown>>

\* It answers with parts: the object is pushed.
PushObject(t) ==
    /\ In(t, "search")
    /\ \E f \in ToSet(Frame(t).chain) :
         /\ FirstFor(f, Frame(t).chain, Frame(t).object)
         /\ PartsOf(f, Frame(t).object) # << >>
         /\ frames' = [frames EXCEPT
               ![t][Len(frames[t])] = [@ EXCEPT !.phase = "parts", !.chain = << >>,
                                   !.parts = PartsOf(f, Frame(t).object)]]
    /\ nested' = [nested EXCEPT ![t] = Append(@, Frame(t).object)]
    /\ UNCHANGED <<chainVars, thrown>>

\* Mutant: the index stays.
NextPartAgain(t) ==
    /\ In(t, "parts") /\ Frame(t).i < Len(Frame(t).parts)
    /\ frames' = [frames EXCEPT ![t] = Append(@, NewFrame(Frame(t).parts[Frame(t).i + 1]))]
    /\ UNCHANGED <<chainVars, nested, thrown>>

\* The next part, by a nested toString.
NextPart(t) ==
    /\ In(t, "parts") /\ Frame(t).i < Len(Frame(t).parts)
    /\ frames' = [frames EXCEPT ![t] =
          Append([@ EXCEPT ![Len(@)].i = Frame(t).i + 1],
                 NewFrame(Frame(t).parts[Frame(t).i + 1]))]
    /\ UNCHANGED <<chainVars, nested, thrown>>

\* All parts are text: finally pops, and the frame returns.
PopObject(t) ==
    /\ In(t, "parts") /\ Frame(t).i = Len(Frame(t).parts)
    /\ frames' = [frames EXCEPT ![t] = Drop(@)]
    /\ nested' = [nested EXCEPT ![t] = Drop(@)]
    /\ UNCHANGED <<chainVars, thrown>>

\* equals or a format throws: the frame ends, its caller sees the exception.
Throw(t) ==
    /\ In(t, "entered") \/ In(t, "search")
    /\ frames' = [frames EXCEPT ![t] = Drop(@)]
    /\ thrown' = [thrown EXCEPT ![t] = TRUE]
    /\ UNCHANGED <<chainVars, nested>>

\* The exception passes a frame that is formatting parts: finally pops.
Unwind(t) ==
    /\ Busy(t) /\ thrown[t]
    /\ frames' = [frames EXCEPT ![t] = Drop(@)]
    /\ nested' = [nested EXCEPT ![t] = Drop(@)]
    /\ UNCHANGED <<chainVars, thrown>>

\* The caller of toString catches it.
Catch(t) ==
    /\ ~Busy(t) /\ thrown[t]
    /\ thrown' = [thrown EXCEPT ![t] = FALSE]
    /\ UNCHANGED <<chainVars, nested, frames>>

Step(t) ==
    \/ ReturnThis(t) \/ ReadChain(t) \/ ReturnText(t)
    \/ PushObject(t) \/ NextPart(t) \/ PopObject(t)
    \/ Throw(t) \/ Unwind(t) \/ Catch(t)

FormatNext ==
    \/ \E f \in Custom : Add(f) \/ RemoveFormat(f)
    \/ \E t \in Callers : (\E o \in Objects : Call(t, o)) \/ Step(t)

FormatSpec == FormatInit /\ [][FormatNext]_formatVars

-----------------------------------------------------------------------------
(* Properties *)

\* mIgnores holds exactly the objects whose parts are being formatted, in
\* order: no exception from a format, from equals or from a getter, at any
\* depth, leaves an object behind to be shown as ".this" for the rest of the
\* thread's life (the finally of toString).  No two of them are equal, so nesting
\* is bounded by the number of different objects even when the object graph has
\* cycles, self-loops or equal copies.
CutsExactlyCycles ==
    \A t \in Callers :
        /\ {k \in 1..Len(frames[t]) : frames[t][k].phase = "parts"} = 1..Len(nested[t])
        /\ \A k \in 1..Len(nested[t]) : nested[t][k] = frames[t][k].object
        /\ IsInjective([k \in 1..Len(nested[t]) |-> ClassOf[nested[t][k]]])

\* The chain a frame searches takes its object, whatever add and remove have
\* done since it was read, and consults no format twice: toString never falls
\* through to its final "return null".
ChainTakesEveryObject ==
    \A t \in Callers : \A k \in 1..Len(frames[t]) :
        frames[t][k].phase = "search" =>
            /\ IsInjective(frames[t][k].chain)
            /\ \E f \in ToSet(frames[t][k].chain) : belongTo(f, frames[t][k].object)

\* toString returns, or throws, for every object graph.
ToStringEnds == \A t \in Callers : Busy(t) ~> ~Busy(t)
=============================================================================
