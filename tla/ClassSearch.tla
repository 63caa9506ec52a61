---------------------------- MODULE ClassSearch ----------------------------
(***************************************************************************)
(* The class searches: SupplyAPI.getInheritClasses (superclass and         *)
(* interfaces, transitively) and ClassWrapper.getInnerClasses (declared    *)
(* and numbered anonymous classes, transitively), two breadth-first loops  *)
(* over a queue "input" and a list "output".                               *)
(*                                                                         *)
(* The classes are any Java allows.  An inheritance graph has no cycle and *)
(* may share an ancestor: a class is a number below its ancestors'.  Inner *)
(* classes form a forest: a class is declared or numbered by one other.    *)
(* The root is a class: for null the first poll ends the loop and the      *)
(* array is empty.                                                         *)
(***************************************************************************)
EXTENDS Integers, Sequences, FiniteSets, SequencesExt

CONSTANTS Count    \* bound: classes

ASSUME ClassSearchAssumption == Count \in Nat \ {0}

Types == 1..Count
NoType == 0
Root == 1

VARIABLES super,     \* super[c]: getSuperclass, or NoType
          members,   \* members[c]: getInterfaces, or getDeclaredClasses
          numbered,  \* numbered[c]: what Class.forName finds: n |-> c$n
          search,    \* "inherit" or "inner"
          input, output, done

world == <<super, members, numbered, search>>
searchVars == <<super, members, numbered, search, input, output, done>>

\* The ways to list some of the classes after c, each once.
Lists(c) == {SetToSeq(s) : s \in SUBSET (c+1..Count)} \cup
            {Reverse(SetToSeq(s)) : s \in SUBSET (c+1..Count)}

InheritWorld ==
    /\ search = "inherit"
    /\ super \in {s \in [Types -> Types \cup {NoType}] :
                    \A c \in Types : s[c] = NoType \/ s[c] > c}
    /\ members \in {m \in [Types -> UNION {Lists(c) : c \in Types}] :
                      \A c \in Types : m[c] \in Lists(c)}
    /\ numbered = [c \in Types |-> [n \in {} |-> c]]

\* declarer[c] encloses c; number[c] is 0 for a class with a name.  Numbers
\* are at most Count and may have gaps.
InnerWorld ==
    /\ search = "inner"
    /\ super = [c \in Types |-> NoType]
    /\ \E declarer \in {d \in [Types -> Types \cup {NoType}] : \A c \in Types : d[c] < c},
          number \in [Types -> 0..Count] :
         LET Of(c) == {d \in Types : declarer[d] = c}
         IN  /\ \A c, d \in Types :
                  c # d /\ declarer[c] = declarer[d] /\ number[c] # 0 => number[c] # number[d]
             /\ members = [c \in Types |-> SetToSeq({d \in Of(c) : number[d] = 0})]
             /\ numbered = [c \in Types |->
                  [n \in {number[d] : d \in Of(c)} \ {0} |->
                     CHOOSE d \in Of(c) : number[d] = n]]

SearchInit ==
    /\ InheritWorld \/ InnerWorld
    /\ input = <<Root>> /\ output = << >> /\ done = FALSE

-----------------------------------------------------------------------------

\* The loop over c$1, c$2, ...: it stops at the first ClassNotFoundException.
Anonymous(c) ==
    LET found == {n \in DOMAIN numbered[c] : 1..n \subseteq DOMAIN numbered[c]}
    IN  [n \in 1..Cardinality(found) |-> numbered[c][n]]

\* What a visit of c adds to the queue; no inheritance graph is numbered, no
\* inner-class graph has superclasses.
Neighbours(c) ==
    (IF super[c] # NoType THEN <<super[c]>> ELSE << >>) \o members[c] \o Anonymous(c)

\* A class that is in the output already is taken off the queue.
Known ==
    /\ input # << >> /\ Head(input) \in ToSet(output)
    /\ input' = Tail(input)
    /\ UNCHANGED <<world, output, done>>

\* Mutant: a stack in place of the queue.
VisitDepthFirst ==
    /\ input # << >> /\ Head(input) \notin ToSet(output)
    /\ output' = Append(output, Head(input))
    /\ input' = Neighbours(Head(input)) \o Tail(input)
    /\ UNCHANGED <<world, done>>

Visit ==
    /\ input # << >> /\ Head(input) \notin ToSet(output)
    /\ output' = Append(output, Head(input))
    /\ input' = Tail(input) \o Neighbours(Head(input))
    /\ UNCHANGED <<world, done>>

\* The queue is empty and the list is returned as an array.
Finish ==
    /\ input = << >> /\ ~done
    /\ done' = TRUE
    /\ UNCHANGED <<world, input, output>>

SearchNext == Known \/ Visit \/ Finish

SearchSpec == SearchInit /\ [][SearchNext]_searchVars

-----------------------------------------------------------------------------

\* Reference: whatever c names, its superclass, interfaces, declared classes
\* and every numbered class, and the classes at most k such steps from the root.
Names(c) ==
    ({super[c]} \ {NoType}) \cup ToSet(members[c]) \cup
    {numbered[c][n] : n \in DOMAIN numbered[c]}

Ball(steps) ==
    LET ball[k \in 0..Count] ==
          IF k = 0 THEN {Root}
          ELSE ball[k - 1] \cup
               {d \in Types : \E c \in ball[k - 1] : <<c, d>> \in steps}
    IN  ball

Within == Ball({step \in Types \X Types : step[2] \in Names(step[1])})

\* The anonymous classes of c are numbered from 1 without a gap, as javac does.
Gapless(c) == \A n \in DOMAIN numbered[c] : 1..n \subseteq DOMAIN numbered[c]

\* The returned array holds classes the root leads to and no other, once each,
\* however the hierarchy shares its ancestors, and with a class everything that
\* class names unless its numbering has a gap: it is complete where there is none
\* (SupplyAPI.getInheritClasses, ClassWrapper.getInnerClasses).  The searches go
\* outwards from the root: no class is listed before one that is nearer, so
\* Lucy.Chain.traceInner, which hooks in the order of the array, hooks an
\* enclosing class before the classes inside it.
OnceNearestFirst ==
    /\ done =>
         /\ IsInjective(output) /\ ToSet(output) \subseteq Within[Count]
         /\ \A c \in ToSet(output) : Gapless(c) => Names(c) \subseteq ToSet(output)
         /\ (\A c \in ToSet(output) : Gapless(c)) => ToSet(output) = Within[Count]
    /\ \A k \in 0..Count :
         LET near == Within[k]
         IN  \A i, j \in DOMAIN output :
                i < j /\ output[j] \in near => output[i] \in near

\* getInnerClasses, "Search inner classes, include self.", as Lucy.Chain relies
\* on it for "Hooking all inner classes": nothing inside the class is missing.
AllInnerClasses ==
    done /\ search = "inner" => ToSet(output) = Within[Count]
=============================================================================
