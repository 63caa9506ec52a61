---------------------------- MODULE ArmRelocation ----------------------------
(***************************************************************************)
(* ARMInstructionRelocation.cc: how Dobby moves the first instructions of  *)
(* an ARM or a Thumb function.  An instruction that depends on its address *)
(* is replaced by a few that do not; the addresses they need lie between   *)
(* them or behind the copy (labels).  The module also runs the copy of an  *)
(* instruction, as the processor would, and compares.                      *)
(*                                                                         *)
(* Instructions are what the relocation tells apart, with the fields it    *)
(* computes with: imm as it is in the code, offset with its sign where the *)
(* relocation extends it.  A Thumb it instruction makes the next imm       *)
(* instructions conditional (its block).  pcrel stands for the encodings   *)
(* that depend on the pc and that the relocation does not know (tbb, the   *)
(* literal forms of vldr and ldrb.w, ARM's mov from the pc).  svc and udf, *)
(* at which Dobby aborts, are left out; blx pc is undefined, and the       *)
(* relocation never recognises it.                                         *)
(***************************************************************************)
EXTENDS Sums, SequencesExt

CONSTANTS Sources,    \* the beginnings of functions: thumb, start, insns
          CopyAt      \* where the copy is placed

Bytes(items) == Total([n \in DOMAIN items |-> items[n].len])

ArmKinds == {"plain", "ldr", "ldrb", "adr", "b", "pcrel"}
ThumbConditional == {"bcond16", "bcond32", "cbz"}
\* pc16 is add or cmp with the pc, which read their own register; mov16 does not.
ThumbKinds == {"plain", "pc16", "mov16", "bxpc", "ldr16", "adr16", "b16", "b32", "bl", "blx",
               "adr32", "ldr32", "it", "pcrel"} \cup ThumbConditional

\* An instruction: its fields are what the relocation computes with.
Instruction(thumb, i) ==
    /\ i.op \in (IF thumb THEN ThumbKinds ELSE ArmKinds)
    /\ i.len \in (IF thumb THEN {2, 4} ELSE {4})
    /\ i.cond \in BOOLEAN /\ (thumb => (i.cond <=> i.op \in ThumbConditional))
    /\ i.imm \in Nat /\ i.offset \in Int /\ i.rotate \in 0..15 /\ i.sign \in {1, -1}
    /\ i.reg \notin {"none", "use"}
    /\ i.op = "it" => i.imm \in 1..4
    /\ i.op \in {"ldr16", "adr16"} => i.reg \notin {"r12", "pc"}    \* three bits name it

\* A function goes on behind what the longest trampoline overwrites.
ASSUME ArmRelocationAssumption ==
    /\ CopyAt \in Nat /\ CopyAt % 4 = 0
    /\ \A s \in Sources :
         /\ s.thumb \in BOOLEAN
         /\ s.start \in Nat /\ s.start % (IF s.thumb THEN 2 ELSE 4) = 0
         /\ s.insns \in Seq(ToSet(s.insns))
         /\ \A n \in DOMAIN s.insns : Instruction(s.thumb, s.insns[n])
         /\ Bytes(s.insns) >= (IF s.thumb THEN 10 ELSE 8)

VARIABLES source,
          moved,      \* instructions relocated
          copy,       \* the code buffer
          starts,     \* relo_map: starts[n] is where the copy of n begins
          labels,     \* the labels, with what they point to
          stage,      \* "relocating", "copied", "running" or "ran"
          core        \* the processor

armVars == <<source, moved, copy, starts, labels, stage, core>>

\* A value is an address, or the word or byte that is stored there.
Address32(n) == [n |-> n, as |-> "address"]
WordOf(n) == [n |-> n, as |-> "word"]
ByteOf(n) == [n |-> n, as |-> "byte"]
Nothing == Address32(-1)

Reset == [n |-> 0, taken |-> FALSE, at |-> 0, r12 |-> Nothing, reg |-> "none",
         value |-> Nothing, jump |-> Nothing, link |-> -1, lost |-> FALSE]

ArmInit ==
    /\ source \in Sources
    /\ moved = 0 /\ copy = << >> /\ starts = << >> /\ labels = << >>
    /\ stage = "relocating" /\ core = Reset

-----------------------------------------------------------------------------
(* The code buffer *)

Floor4(n) == 4 * (n \div 4)
Pc(at) == at + (IF source.thumb THEN 4 ELSE 8)
FlagOf(thumb) == IF thumb THEN 1 ELSE 0

Nop == [op |-> "nop", len |-> 2]
Same(i) == [op |-> "same", len |-> i.len, insn |-> i]
Word(n) == [op |-> "word", len |-> 4, n |-> n]
\* Branches, to offset from the pc, linked or not, on a condition or not.
Branch(len, offset, link, cond) ==
    [op |-> "branch", len |-> len, offset |-> offset, link |-> link, cond |-> cond]
Goto4(offset) == Branch(4, offset, FALSE, FALSE)
\* ldr of the word at offset from the pc, or of a label's word; ldr through a
\* register; instruction i with r12 in place of the pc.
Literal(reg, offset) == [op |-> "literal", len |-> 4, reg |-> reg, offset |-> offset]
Labelled(reg) == [op |-> "labelled", len |-> 4, reg |-> reg, label |-> Len(labels) + 1]
Deref(reg, base) == [op |-> "deref", len |-> 4, reg |-> reg, base |-> base]
UseR12(i) == [op |-> "use", len |-> 2, insn |-> i]

\* What becomes of an instruction: items, and at most one label.
Items(items) == [items |-> items, label |-> << >>]
ItemsWith(items, n, branch) == [items |-> items, label |-> <<[n |-> n, branch |-> branch]>>]

-----------------------------------------------------------------------------
(* ARMRelocateSingleInstr *)

\* The local variables H and cond hide the fields of the instruction, so every
\* branch is taken for one without link; the bits stay in the first word.
ArmBranch(i, pc) ==
    Items(<<Branch(4, 4, i.link, i.cond), Goto4(4), Literal("pc", -4), Word(pc + 4 * i.imm)>>)

ArmTemplate(i, pc) ==
    CASE i.op \in {"ldr", "ldrb"} /\ i.reg = "pc" ->
           ItemsWith(<<Labelled("r12"), Deref("pc", "r12")>>, pc + i.offset, FALSE)
      [] i.op \in {"ldr", "ldrb"} /\ i.reg # "pc" ->
           ItemsWith(<<Labelled(i.reg), Deref(i.reg, i.reg)>>, pc + i.offset, FALSE)
      [] i.op = "adr" -> ItemsWith(<<Labelled(i.reg)>>, 
                                   pc + i.sign * (256 * i.rotate + i.imm), FALSE)
      [] i.op = "b" -> ArmBranch(i, pc)
      [] OTHER -> Items(<<Same(i)>>)

-----------------------------------------------------------------------------
(* Thumb1RelocateSingleInstr and Thumb2RelocateSingleInstr *)

Signed8(u) == IF u >= 128 THEN u - 256 ELSE u

\* The upper half of the offset stays in the instruction.
ThumbBranchIf(i, pc) ==
    ItemsWith(<<Branch(2, 2 * Signed8(16 * (i.imm \div 16) + 2), FALSE, TRUE), Nop,
                Goto4(4), Labelled("pc")>>, pc + 2 * i.imm + 1, TRUE)

CompareBranch(i, pc) ==
    ItemsWith(<<Branch(2, 2, FALSE, TRUE), Nop, Goto4(0), Labelled("pc")>>,
              pc + 2 * i.imm + 1, TRUE)

\* The sign stays in the instruction.
ThumbBranchIf32(i, pc) ==
    Items(<<Branch(4, IF i.offset < 0 THEN 4 - 2^20 ELSE 4, FALSE, TRUE), Goto4(4),
            Literal("pc", 0), Word(pc + i.offset + 1)>>)

LinkTo(n) == Items(<<Branch(4, 4, TRUE, FALSE), Goto4(8), Literal("pc", 0), Word(n)>>)

ThumbTemplate(i, pc) ==
    CASE i.op \in {"pc16", "mov16"} -> ItemsWith(<<Labelled("r12"), UseR12(i)>>, pc, FALSE)
      [] i.op = "bxpc" -> ItemsWith(<<Labelled("pc")>>, pc, TRUE)
      [] i.op = "ldr16" -> ItemsWith(<<Labelled(i.reg), Deref(i.reg, i.reg)>>,
                                     Floor4(pc + 4 * i.imm), FALSE)
      [] i.op = "adr16" -> ItemsWith(<<Labelled(i.reg)>>, pc + i.imm, FALSE)
      [] i.op = "bcond16" -> ThumbBranchIf(i, pc)
      [] i.op = "cbz" -> CompareBranch(i, pc)
      [] i.op = "b16" -> ItemsWith(<<Labelled("pc")>>, pc + 2 * i.imm + 1, TRUE)
      [] i.op = "bcond32" -> ThumbBranchIf32(i, pc)
      [] i.op = "b32" -> Items(<<Literal("pc", 0), Word(pc + i.offset + 1)>>)
      [] i.op = "bl" -> LinkTo(pc + i.offset + 1)
      [] i.op = "blx" -> LinkTo(Floor4(pc) + i.offset)
      [] i.op = "adr32" -> Items(<<Literal(i.reg, 4), Goto4(0), Word(pc + i.offset)>>)
      [] i.op = "ldr32" -> Items(<<Literal(i.reg, 4), Goto4(4), Word(Floor4(pc + i.offset)),
                                   Deref(i.reg, i.reg)>>)
      [] OTHER -> Items(<<Same(i)>>)

-----------------------------------------------------------------------------
(* GenRelocateCodeAndBranch *)

\* GenerateNormalTrampolineBuffer: a Thumb trampoline is aligned by a nop.
TrampolineSize == IF source.thumb /\ source.start % 4 # 0 THEN 10 ELSE 8
OrigAt(n) == source.start + Bytes(SubSeq(source.insns, 1, n - 1))
Done == OrigAt(moved + 1) >= source.start + TrampolineSize

\* bx pc leads to ARM code; the loop stops when it arrives there.  What follows
\* is never relocated as ARM code: the origin has just been cut at that address.
StateChanged ==
    \E n \in 1..moved : source.insns[n].op = "bxpc" /\ OrigAt(moved + 1) = Pc(OrigAt(n))

\* Mutant: no nop before an instruction that must be aligned.
AlignThumbNopNever(items) == items

AlignThumbNop(items) == IF Bytes(items) % 4 # 0 THEN Append(items, Nop) ELSE items

\* One turn of gen_arm_relocate_code or gen_thumb_relocate_code.
Relocate ==
    LET i == source.insns[moved + 1]
        pc == Pc(OrigAt(moved + 1))
        to == IF source.thumb THEN ThumbTemplate(i, pc) ELSE ArmTemplate(i, pc)
        room == IF source.thumb THEN AlignThumbNop(Append(copy, Nop)) ELSE copy
    IN  /\ stage = "relocating" /\ ~Done /\ ~StateChanged
        /\ copy' = room \o to.items
        /\ labels' = labels \o to.label
        /\ starts' = Append(starts, Bytes(copy))
        /\ moved' = moved + 1
        /\ UNCHANGED <<source, stage, core>>

\* reloc_label_fixup: a label that points into the bytes the trampoline will
\* overwrite is led to the copy of the instruction there, or to the copy's
\* begin if none is found.  Thumb labels of branches carry the Thumb bit.
Fixup(label) ==
    IF /\ source.thumb => label.branch
       /\ label.n \in source.start..source.start + TrampolineSize - 1
    THEN LET hits == {n \in DOMAIN starts : OrigAt(n) = label.n}
         IN  IF hits = {} THEN CopyAt ELSE CopyAt + starts[CHOOSE n \in hits : TRUE]
    ELSE label.n

\* The jump to the rest, the words of the labels, and their fix-up.
FinishCopy ==
    LET rest == OrigAt(moved + 1)
        tail == IF source.thumb
                THEN AlignThumbNop(copy) \o <<Literal("pc", 0), Word(rest + 1)>>
                ELSE copy \o <<Literal("pc", -4), Word(rest)>>
    IN  /\ stage = "relocating" /\ (Done \/ StateChanged)
        /\ copy' = tail \o [l \in DOMAIN labels |-> Word(Fixup(labels[l]))]
        /\ starts' = Append(starts, Bytes(copy))     \* of the jump to the rest
        /\ stage' = "copied"
        /\ UNCHANGED <<source, moved, labels, core>>

-----------------------------------------------------------------------------
(* The processor *)

Jump(n) == [jump |-> Address32(n), link |-> FALSE, reg |-> "none", value |-> Nothing]
Load(reg, v) == IF reg = "pc" THEN [Jump(0) EXCEPT !.jump = v]
                ELSE [jump |-> Nothing, link |-> FALSE, reg |-> reg, value |-> v]
NoEffect == [jump |-> Nothing, link |-> FALSE, reg |-> "none", value |-> Nothing]
Signed11(u) == IF u >= 1024 THEN u - 2048 ELSE u
Signed24(u) == IF u >= 2^23 THEN u - 2^24 ELSE u
Rotated(i) == IF i.rotate = 0 THEN i.imm ELSE i.imm * 2^(32 - 2 * i.rotate)

\* What the architecture says that instruction i at address a does; taken tells
\* whether its condition holds.
Meaning(i, a, taken) ==
    LET pc == Pc(a)
    IN  IF i.cond /\ ~taken THEN NoEffect
        ELSE CASE i.op \in {"pc16", "mov16"} -> Load("use", Address32(pc))
               [] i.op = "bxpc" -> Jump(pc)
               [] i.op = "ldr16" -> Load(i.reg, WordOf(Floor4(pc) + 4 * i.imm))
               [] i.op = "adr16" -> Load(i.reg, Address32(Floor4(pc) + 4 * i.imm))
               [] i.op = "bcond16" -> Jump(pc + 2 * Signed8(i.imm) + 1)
               [] i.op = "cbz" -> Jump(pc + 2 * i.imm + 1)
               [] i.op = "b16" -> Jump(pc + 2 * Signed11(i.imm) + 1)
               [] i.op \in {"bcond32", "b32"} -> Jump(pc + i.offset + 1)
               [] i.op = "bl" -> [Jump(pc + i.offset + 1) EXCEPT !.link = TRUE]
               [] i.op = "blx" -> [Jump(Floor4(pc) + i.offset) EXCEPT !.link = TRUE]
               [] i.op = "adr32" -> Load(i.reg, Address32(Floor4(pc) + i.offset))
               [] i.op \in {"ldr32", "ldr", "pcrel"} -> Load(i.reg, WordOf(Floor4(pc) + i.offset))
               [] i.op = "ldrb" -> Load(i.reg, ByteOf(pc + i.offset))
               [] i.op = "adr" -> Load(i.reg, Address32(pc + i.sign * Rotated(i)))
               [] i.op = "b" -> [Jump(pc + 4 * Signed24(i.imm)) EXCEPT !.link = i.link]
               [] OTHER -> NoEffect

\* The copy of instruction n is entered; moved + 1 is the jump to the rest.
Run(n, taken) ==
    /\ stage = "copied"
    /\ core' = [Reset EXCEPT !.n = n, !.taken = taken, !.at = starts[n]]
    /\ stage' = "running"
    /\ UNCHANGED <<source, moved, copy, starts, labels>>

ItemAt(at) == {k \in DOMAIN copy : Bytes(SubSeq(copy, 1, k - 1)) = at}
WordAt(at) == {k \in ItemAt(at) : copy[k].op = "word"}
EndOf(n) == IF n > moved THEN Bytes(copy) ELSE starts[n + 1]
LabelAt(l) == Bytes(copy) - 4 * (Len(labels) - l + 1)

\* Item k falls into the block of a copied it instruction: every instruction of
\* the copy takes a slot, the nops too.
InSlot(k) ==
    \E j \in 1..k - 1 :
        copy[j].op = "same" /\ copy[j].insn.op = "it" /\ k - j <= copy[j].insn.imm

\* A register gets a value; a value for the pc is a jump, after which a call
\* comes back to the link.
Gets(reg, v) ==
    IF reg = "r12" THEN [core EXCEPT !.r12 = v, !.at = @ + 4]
    ELSE IF reg # "pc" THEN [core EXCEPT !.reg = reg, !.value = v, !.at = @ + 4]
    ELSE [core EXCEPT !.jump = v, !.at = IF core.link = -1 THEN EndOf(core.n) ELSE core.link]

Lost == [core EXCEPT !.lost = TRUE]
Loads(reg, from) ==
    IF WordAt(from) = {} THEN Lost
    ELSE Gets(reg, Address32(copy[CHOOSE k \in WordAt(from) : TRUE].n))

\* The pc that add or cmp works on.  Its own register is read too: r12 holds the
\* pc by then, and the pc is that of the copy.
UsedValue(i) ==
    IF i.op = "pc16" /\ i.reg \in {"r12", "pc"} THEN [core.r12 EXCEPT !.as = "mixed"]
    ELSE core.r12

After(i) ==
    LET at == core.at + i.len
        does == Meaning(i.insn, CopyAt + core.at, core.taken)
    IN  CASE i.op = "nop" -> [core EXCEPT !.at = at]
          [] i.op = "branch" ->
               IF i.cond /\ ~core.taken THEN [core EXCEPT !.at = at]
               ELSE [core EXCEPT !.at = Pc(@) + i.offset, !.link = IF i.link THEN at ELSE @]
          [] i.op = "literal" -> Loads(i.reg, Floor4(Pc(core.at)) + i.offset)
          [] i.op = "labelled" -> Loads(i.reg, LabelAt(i.label))
          [] i.op = "deref" -> Gets(i.reg, WordOf((IF i.base = "r12" THEN core.r12 ELSE core.value).n))
          [] i.op = "use" -> [core EXCEPT !.reg = "use", !.value = UsedValue(i.insn), !.at = at]
          [] i.op = "same" -> [core EXCEPT !.reg = does.reg, !.value = does.value,
                                           !.jump = does.jump, !.at = at]
          [] OTHER -> Lost

Running == stage = "running" /\ ~core.lost /\ core.at # EndOf(core.n)

\* One instruction of the copy; words are no instructions.  In a slot it is
\* passed over if the condition does not hold.
Execute ==
    LET k == CHOOSE j \in ItemAt(core.at) : TRUE
    IN  /\ Running
        /\ core' = IF ItemAt(core.at) = {} THEN Lost
                   ELSE IF InSlot(k) /\ ~core.taken THEN [core EXCEPT !.at = @ + copy[k].len]
                   ELSE After(copy[k])
        /\ UNCHANGED <<source, moved, copy, starts, labels, stage>>

EndRun ==
    /\ stage = "running" /\ ~Running
    /\ stage' = "ran"
    /\ UNCHANGED <<source, moved, copy, starts, labels, core>>

ArmNext ==
    \/ Relocate \/ FinishCopy \/ Execute \/ EndRun
    \/ \E n \in 1..moved + 1, taken \in BOOLEAN : Run(n, taken)

ArmSpec == ArmInit /\ [][ArmNext]_armVars

-----------------------------------------------------------------------------
(* Properties *)

\* Instruction n is in the block of an it instruction that is moved.
InBlock(n) ==
    \E m \in 1..moved : /\ m < n /\ source.insns[m].op = "it"
                         /\ n - m <= source.insns[m].imm

\* What the copy entered should do.
Intended ==
    IF core.n <= moved
    THEN IF InBlock(core.n) /\ ~core.taken THEN NoEffect
         ELSE Meaning(source.insns[core.n], OrigAt(core.n), core.taken)
    ELSE Jump(OrigAt(moved + 1) + FlagOf(source.thumb))

\* An address is outside the bytes that the trampoline overwrites.
Outside(n) == n \notin source.start..source.start + TrampolineSize

Untouched == core.n > moved \/ (Outside(Intended.jump.n) /\ Outside(Intended.value.n))

\* The instructions that the relocation gets right.
Relocatable(i) ==
    \/ i.op \in {"plain", "mov16", "bxpc", "ldr16", "b32", "bl", "blx"}
    \/ i.op = "pc16" /\ i.reg \notin {"r12", "pc"}
    \/ i.op = "bcond16" /\ i.imm < 16
    \/ i.op = "b16" /\ i.imm < 1024
    \/ i.op = "ldr32" /\ i.offset % 4 = 0 /\ i.reg # "pc"
    \/ i.op = "ldr" /\ ~i.cond
    \/ i.op = "adr" /\ ~i.cond /\ i.rotate = 0

\* The copy has the effect; r12 may be changed, unless it is what is loaded.
Did(does) ==
    /\ ~core.lost
    /\ core.jump = does.jump
    /\ IF does.reg = "r12" THEN core.reg = "none" /\ core.r12 = does.value
       ELSE core.reg = does.reg /\ core.value = does.value
    /\ does.link <=> core.link # -1

\* Wherever the function and its instructions lie (the Thumb pc is rounded, the
\* copy is filled with nops, labels follow), the copy of an instruction jumps,
\* links and loads as the instruction did in its place, and the copy ends with
\* the first instruction that was not moved.  True of the instructions listed,
\* of addresses outside the overwritten bytes, and outside the blocks of it
\* instructions: the nops take the slots of those, but of no instruction behind.
CopiesDoTheSame ==
    (/\ stage = "ran" /\ Untouched /\ ~InBlock(core.n)
     /\ core.n <= moved => Relocatable(source.insns[core.n]))
        => Did(Intended)

\* A branch into the overwritten bytes leads to the copy of the instruction that
\* was there ("fixup the instr branch into trampoline", reloc_label_fixup).
BranchesStayInCopy ==
    (stage = "ran" /\ core.n <= moved /\ ~core.lost) =>
        \A m \in 1..moved :
            Intended.jump = Address32(OrigAt(m) + FlagOf(source.thumb))
                => core.jump = Address32(CopyAt + starts[m] + FlagOf(source.thumb))
=============================================================================
