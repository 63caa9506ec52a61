-------------------------------- MODULE Sums --------------------------------
(***************************************************************************)
(* Lengths of code: the bytes before each of a list of instructions, and   *)
(* of all of them.                                                         *)
(***************************************************************************)
EXTENDS Integers, Sequences

\* Offsets(lens)[n]: what the first n lengths add up to.
Offsets(lens) ==
    LET to[n \in 0..Len(lens)] == IF n = 0 THEN 0 ELSE to[n - 1] + lens[n]
    IN  to

Total(lens) == Offsets(lens)[Len(lens)]
=============================================================================
