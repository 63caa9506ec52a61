------------------------------ MODULE MCDobby ------------------------------
(***************************************************************************)
(* Small instances of Dobby, of X86Decode and of ArmRelocation for TLC.    *)
(* They are run side by side: a behaviour is one of either, chosen by part. *)
(***************************************************************************)
EXTENDS Dobby, X86Decode, ArmRelocation, TLC

CONSTANTS f1, f2

Instr(kind, len, offset) == [op |-> kind, len |-> len, offset |-> offset]

\* Two short branches and the longest instruction: 32 bytes are emitted.
Branches == <<Instr("jc8", 2, 20), Instr("jc8", 2, -7), Instr("plain", 15, 0)>>
\* A call behind the first instruction: 6 bytes are under the trampoline.
Relative == <<Instr("plain", 1, 0), Instr("rel32", 5, 300)>>
\* loop rel8 under the trampoline.
Loop == <<Instr("plain", 1, 0), Instr("unsupported", 2, 0), Instr("plain", 4, 0)>>
Plain == <<Instr("plain", 4, 0), Instr("plain", 4, 0)>>

MCPrologues == {[f \in Funs |-> IF f = f1 THEN Branches ELSE Relative],
                [f \in Funs |-> IF f = f1 THEN Relative ELSE Loop]}
MCPlain == {[f \in Funs |-> Plain]}
MCFunAt == [f \in Funs |-> IF f = f1 THEN 100 ELSE 200]

NoFlag == [f \in Funs |-> 0]
\* On ARM f1 is ARM code and f2 Thumb code.
MCFlag == [f \in Funs |-> IF f = f1 THEN 0 ELSE 1]
\* Every kind of addressing; the register field does not matter.
MCModRMs == {64 * mod + rm : mod \in 0..3, rm \in 3..6}

-----------------------------------------------------------------------------
(* ARM and Thumb functions: one instruction among plain ones *)

Code(kind, len, fields) ==
    fields @@ [op |-> kind, len |-> len, cond |-> FALSE, link |-> FALSE, reg |-> "r0",
               imm |-> 0, offset |-> 0, rotate |-> 0, sign |-> 1]

Short == Code("plain", 2, << >>)
Long == Code("plain", 4, << >>)
IfThen == Code("it", 2, [imm |-> 1])

ArmInsns ==
    {Code(kind, 4, [offset |-> n, reg |-> r, cond |-> c]) :
        kind \in {"ldr", "ldrb"}, n \in {-64, 256}, r \in {"r0", "r12", "pc"}, c \in BOOLEAN}
    \cup {Code("adr", 4, [imm |-> 40, rotate |-> n, sign |-> s]) : n \in {0, 15}, s \in {1, -1}}
    \cup {Code("b", 4, [imm |-> n, cond |-> c, link |-> l]) :
            n \in {100, 2^24 - 20}, c \in BOOLEAN, l \in BOOLEAN}
    \cup {Code("pcrel", 4, [offset |-> 256])}

\* The immediates of branches are at the limits that the relocation gets wrong,
\* or lead to a neighbour.
ThumbInsns ==
    {Code(kind, 2, [imm |-> 30]) : kind \in {"bxpc", "ldr16", "adr16"}}
    \cup {Code(kind, 2, [reg |-> r]) : kind \in {"pc16", "mov16"}, r \in {"r0", "r12", "pc"}}
    \cup {Code("it", 2, [imm |-> n]) : n \in {1, 2, 4}} \cup {Code("pcrel", 4, [offset |-> 256])}
    \cup {Code("b16", 2, [imm |-> n]) : n \in {0, 50, 1023, 1024, 2046}}
    \cup {Code("bcond16", 2, [imm |-> n, cond |-> TRUE]) : n \in {0, 15, 16, 254}}
    \cup {Code("cbz", 2, [imm |-> n, cond |-> TRUE]) : n \in {0, 40}}
    \cup {Code(kind, 4, [offset |-> n]) : kind \in {"b32", "bl", "blx", "adr32"}, n \in {-64, 256}}
    \cup {Code("bcond32", 4, [offset |-> n, cond |-> TRUE]) : n \in {-64, 256}}
    \cup {Code("ldr32", 4, [offset |-> n, reg |-> r]) : n \in {-64, 66, 256}, r \in {"r0", "r12", "pc"}}

MCSources ==
    [thumb : {FALSE}, start : {400},
     insns : {<<i, Long>> : i \in ArmInsns} \cup {<<Long, i>> : i \in ArmInsns}]
    \cup
    [thumb : {TRUE}, start : {400, 402},
     insns : {before \o <<i, Short, Long, Short, Long>> : i \in ThumbInsns,
                before \in {<< >>, <<Short>>, <<Long>>, <<Short, Long>>, <<IfThen>>, <<IfThen, Short>>}}]

-----------------------------------------------------------------------------
VARIABLE part

\* The parts that do not run stay as they begin.  One byte stands for any
\* immediate that is made up.
MCInit ==
    /\ DobbyInit /\ DecodeInit /\ ArmInit
    /\ part \in {"hook", "decode", "move"}
    /\ strayBytes \in {0, 1}
    /\ part # "decode" => ~strayModrm /\ strayBytes = 0
    /\ part # "move" => source = CHOOSE s \in Sources : TRUE

MCNext ==
    /\ UNCHANGED part
    /\ \/ part = "hook" /\ DobbyNext /\ UNCHANGED <<decodeVars, armVars>>
       \/ part = "decode" /\ DecodeNext /\ UNCHANGED <<dobbyVars, armVars>>
       \/ part = "move" /\ ArmNext /\ UNCHANGED <<dobbyVars, decodeVars>>

MCSpec ==
    /\ MCInit /\ [][MCNext]_<<part, dobbyVars, decodeVars, armVars>>
    /\ \A t \in Threads :
         WF_dobbyVars(part = "hook" /\ InCall(t) /\ UNCHANGED <<part, decodeVars, armVars>>)
=============================================================================
