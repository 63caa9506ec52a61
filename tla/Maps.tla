-------------------------------- MODULE Maps --------------------------------
(***************************************************************************)
(* so_killer.cpp, get_shared_object_maps and dumpSharedObject: the lines   *)
(* of /proc/self/maps are read one by one, the ranges of those whose path  *)
(* contains the name are merged into one, and the memory from start to end *)
(* is copied.  Addresses and the length have the same width; the length is *)
(* a signed jsize, so a range of half the address space or more is         *)
(* negative.                                                               *)
(*                                                                         *)
(* A line is its range and whether its path contains the name.  Lines come *)
(* in any order and are made up as they are read; past lines are kept as   *)
(* history.                                                                *)
(***************************************************************************)
EXTENDS Integers, FiniteSets, FiniteSetsExt

CONSTANTS Half,       \* half the number of addresses, 2^(w - 1) for w bits
          MaxLines    \* bound: different lines of the file

ASSUME MapsAssumption == Half \in Nat \ {0} /\ MaxLines \in Nat

Space == 2 * Half
Addresses == 0..Space - 1
Lines == [left : Addresses, right : Addresses, match : BOOLEAN]

VARIABLES at,        \* "open", "reading", "closed" or "dumped"
          got,       \* whether a line matched
          start, end,
          length,    \* of the array, as a jsize
          past       \* (history) the lines read

mapsVars == <<at, got, start, end, length, past>>

\* start and end are uninitialised locals of dumpSharedObject.
MapsInit ==
    /\ at = "open" /\ got = FALSE
    /\ start \in Addresses /\ end \in Addresses /\ length = 0
    /\ past = {}

OpenFile ==
    /\ at = "open"
    /\ at' \in {"reading", "closed"}      \* fopen may fail
    /\ UNCHANGED <<got, start, end, length, past>>

Record(line) == past' = past \cup {line}

\* A line that is turned around or of another file changes nothing.
SkipLine(line) ==
    /\ at = "reading" /\ Cardinality(past) < MaxLines
    /\ line.left > line.right \/ ~line.match
    /\ Record(line)
    /\ UNCHANGED <<at, got, start, end, length>>

FirstMatch(line) ==
    /\ at = "reading" /\ Cardinality(past) < MaxLines
    /\ line.left <= line.right /\ line.match /\ ~got
    /\ got' = TRUE /\ start' = line.left /\ end' = line.right
    /\ Record(line)
    /\ UNCHANGED <<at, length>>

\* Mutant: the lines are taken to be sorted.
NextMatchSorted(line) ==
    /\ at = "reading" /\ Cardinality(past) < MaxLines
    /\ line.left <= line.right /\ line.match /\ got
    /\ end' = line.right
    /\ Record(line)
    /\ UNCHANGED <<at, got, start, length>>

NextMatch(line) ==
    /\ at = "reading" /\ Cardinality(past) < MaxLines
    /\ line.left <= line.right /\ line.match /\ got
    /\ start' = IF start > line.left THEN line.left ELSE start
    /\ end' = IF end < line.right THEN line.right ELSE end
    /\ Record(line)
    /\ UNCHANGED <<at, got, length>>

CloseFile ==
    /\ at = "reading"
    /\ at' = "closed"
    /\ UNCHANGED <<got, start, end, length, past>>

\* A difference of two addresses as a signed number of the same width.
Signed(n) == LET u == n % Space IN IF u >= Half THEN u - Space ELSE u

\* The rest of dumpSharedObject: start and end are reset when nothing was
\* found, and the length is computed in a jsize.
Dump ==
    /\ at = "closed"
    /\ start' = IF got THEN start ELSE 0
    /\ end' = IF got THEN end ELSE 0
    /\ length' = Signed(end' - start')
    /\ at' = "dumped"
    /\ UNCHANGED <<got, past>>

MapsNext ==
    \/ OpenFile \/ CloseFile \/ Dump
    \/ \E line \in Lines : SkipLine(line) \/ FirstMatch(line) \/ NextMatch(line)

MapsSpec == MapsInit /\ [][MapsNext]_mapsVars

-----------------------------------------------------------------------------
(* Properties *)

Matching == {line \in past : line.match /\ line.left <= line.right}

\* The range copied is the smallest one that covers every segment of the
\* object, whatever the order of the lines, and empty if there is none; and the
\* length given to NewByteArray is its size, unless it takes half of the
\* address space or more.
SmallestCover ==
    at = "dumped" =>
        /\ IF Matching = {} THEN start = 0 /\ end = 0
           ELSE /\ start = Min({line.left : line \in Matching})
                /\ end = Max({line.right : line \in Matching})
        /\ end - start < Half => length = end - start
=============================================================================
