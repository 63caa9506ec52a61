------------------------------ MODULE X86Decode ------------------------------
(***************************************************************************)
(* Dobby's x86_insn_decode, in 32-bit mode: how long the instruction is    *)
(* that starts at a hooked function or behind the instruction before.      *)
(* Dobby copies whole instructions, so a wrong length cuts one in two.     *)
(*                                                                         *)
(* The decoder reads a byte at a time, and a byte is made up when it is    *)
(* read.  The loops over the operands of an instruction run to             *)
(* sizeof(operands) = 6 although there are 3: the fourth is the flags, the *)
(* last two lie behind the structure, on the stack of the caller.          *)
(* strayModrm and strayBytes are what the build happens to keep there.     *)
(*                                                                         *)
(* UNIMPLEMENTED and UNREACHABLE abort: DOBBY_DEBUG is on by default.      *)
(***************************************************************************)
EXTENDS Integers, FiniteSets

CONSTANTS MaxPrefixes,   \* bound: prefix bytes of an instruction
          ModRMs         \* the modrm bytes that are tried

ASSUME X86DecodeAssumption == MaxPrefixes \in Nat /\ ModRMs \subseteq 0..255

Byte == 0..255
PrefixBytes == {\hF0, \hF2, \hF3, \h2E, \h36, \h3E, \h26, \h64, \h65, \h66, \h67}
OperandSize == \h66
AddressSize == \h67

VARIABLES phase,     \* what is read next, or "decoded", or "aborted"
          prefix,    \* those of the two size prefixes that were read
          prefixes,  \* (history) prefix bytes read
          escaped,   \* whether 0F preceded the opcode
          opcode,    \* primary_opcode
          modrm,     \* the byte, or None
          base,      \* the base field of the sib byte, or None
          cursor,    \* bytes read: buffer_cursor - buffer
          strayModrm,   \* operands[4] or [5] looks like G, E, M or R
          strayBytes    \* bytes of immediate they seem to ask for

stray == <<strayModrm, strayBytes>>
decodeVars == <<phase, prefix, prefixes, escaped, opcode, modrm, base, cursor, stray>>

None == -1

DecodeInit ==
    /\ phase = "prefix" /\ prefix = {} /\ prefixes = 0
    /\ escaped = FALSE /\ opcode = None
    /\ modrm = None /\ base = None /\ cursor = 0
    /\ strayModrm \in BOOLEAN /\ strayBytes \in {0, 1, 2, 4}

-----------------------------------------------------------------------------
(* The opcode tables, by what they say of the operands *)

\* add, or, adc, sbb, and, sub, xor, cmp have the same six forms.
Arithmetic(form) == {8 * k + form : k \in 0..7}

\* Some operand is of kind G, E, M or R.
OneByteModrm ==
    (UNION {Arithmetic(form) : form \in 0..3}) \cup {\h62, \h63, \h69, \h6B} \cup
    \h80..\h8F \cup {\hC0, \hC1} \cup \hC4..\hC7 \cup \hD0..\hD3 \cup {\hFE}
TwoByteModrm ==
    {\h02, \h03} \cup \h20..\h23 \cup \h40..\h4F \cup \h90..\h9F \cup
    \hA3..\hA5 \cup \hAB..\hAD \cup {\hAF} \cup \hB0..\hB7 \cup \hBA..\hBF \cup
    {\hC0, \hC1, \hC3, \hC7}

\* The type of the first operand of kind I, J or O.
OneByteImmediate == [
    b |-> Arithmetic(4) \cup {\h6A, \h6B} \cup \h70..\h7F \cup {\h80, \h82, \h83} \cup
          {\hA0, \hA2, \hA8} \cup \hB0..\hB7 \cup {\hC0, \hC1, \hC6, \hCD} \cup
          \hE0..\hE7 \cup {\hEB},
    w |-> {\hC2, \hC8, \hCA},
    z |-> Arithmetic(5) \cup {\h68, \h69, \h81, \hA9, \hC7, \hE8, \hE9},
    v |-> {\hA1, \hA3} \cup \hB8..\hBF]
TwoByteImmediate == [
    b |-> {\hA4, \hAC, \hBA}, w |-> {}, z |-> \h80..\h8F, v |-> {}]

\* Opcodes of the SSE groups are not implemented.
Sse == \h10..\h17 \cup \h28..\h2F \cup \h50..\h70 \cup \h74..\h7F \cup
       {\hC2, \hC4, \hC5, \hC6} \cup \hD0..\hFF

\* x86_insn_has_modrm_byte
HasModrm(esc, code) ==
    \/ code \in (IF esc THEN TwoByteModrm ELSE OneByteModrm)
    \/ strayModrm

\* Mutant: the last operand decides.
ImmediateBytesLast(esc, code) ==
    LET types == IF esc THEN TwoByteImmediate ELSE OneByteImmediate
        operand == IF OperandSize \in prefix THEN 2 ELSE 4
    IN  IF strayBytes # 0 THEN strayBytes
        ELSE IF code \in types.b THEN 1
        ELSE IF code \in types.w THEN 2
        ELSE IF code \in types.z \cup types.v THEN operand ELSE 0

\* x86_insn_immediate_type and x86_insn_imm_bits, in bytes.  The groups
\* replace the name and the flags of an instruction, not its operands.
ImmediateBytes(esc, code) ==
    LET types == IF esc THEN TwoByteImmediate ELSE OneByteImmediate
        operand == IF OperandSize \in prefix THEN 2 ELSE 4
    IN  IF code \in types.b THEN 1
        ELSE IF code \in types.w THEN 2
        ELSE IF code \in types.z \cup types.v THEN operand
        ELSE strayBytes

-----------------------------------------------------------------------------
(* x86_insn_decode *)

\* The immediate is the last part of an instruction.
Immediate(esc, code, at) ==
    /\ cursor' = at + ImmediateBytes(esc, code)
    /\ phase' = "decoded"

ReadPrefix(b) ==
    /\ phase = "prefix" /\ b \in PrefixBytes
    /\ prefixes < MaxPrefixes
    /\ prefix' = prefix \cup ({b} \cap {OperandSize, AddressSize})
    /\ prefixes' = prefixes + 1 /\ cursor' = cursor + 1
    /\ UNCHANGED <<phase, escaped, opcode, modrm, base, stray>>

\* x86_insn_decode_opcode, of one or of two bytes.
Opcode(esc, b) ==
    /\ opcode' = b /\ escaped' = esc
    /\ \/ /\ esc /\ b \in Sse
          /\ phase' = "aborted" /\ cursor' = cursor + 1
       \/ /\ ~(esc /\ b \in Sse) /\ HasModrm(esc, b)
          /\ phase' = "modrm" /\ cursor' = cursor + 1
       \/ /\ ~(esc /\ b \in Sse) /\ ~HasModrm(esc, b)
          /\ Immediate(esc, b, cursor + 1)
    /\ UNCHANGED <<prefix, prefixes, modrm, base, stray>>

ReadOpcode(b) ==
    /\ phase = "prefix" /\ b \notin PrefixBytes \cup {\h0F}
    /\ Opcode(FALSE, b)

ReadEscape ==
    /\ phase = "prefix"
    /\ phase' = "second" /\ cursor' = cursor + 1
    /\ UNCHANGED <<prefix, prefixes, escaped, opcode, modrm, base, stray>>

ReadSecond(b) ==
    /\ phase = "second"
    /\ Opcode(TRUE, b)

Mod(b) == b \div 64
RegisterField(b) == (b \div 8) % 8
RM(b) == b % 8

\* Bytes of displacement with 32-bit addresses, before a sib byte is seen.
Displacement(b) ==
    IF Mod(b) = 0 /\ RM(b) = 5 THEN 4
    ELSE IF Mod(b) = 1 THEN 1
    ELSE IF Mod(b) = 2 THEN 4
    ELSE 0

\* With 16-bit addresses: the displacement of mod 0 is set for rm 6 only.
HasDisplacement16(b) == Mod(b) # 0 \/ RM(b) = 6
Displacement16(b) == IF Mod(b) = 1 THEN 1 ELSE 2

\* x86_insn_decode_modrm_sib
ReadModrm(b) ==
    /\ phase = "modrm"
    /\ modrm' = b
    /\ \/ /\ Mod(b) = 3
          /\ Immediate(escaped, opcode, cursor + 1)
       \/ /\ Mod(b) # 3 /\ AddressSize \notin prefix /\ RM(b) # 4
          /\ Immediate(escaped, opcode, cursor + 1 + Displacement(b))
       \/ /\ Mod(b) # 3 /\ AddressSize \notin prefix /\ RM(b) = 4
          /\ phase' = "sib" /\ cursor' = cursor + 1
       \/ /\ Mod(b) # 3 /\ AddressSize \in prefix /\ HasDisplacement16(b)
          /\ Immediate(escaped, opcode, cursor + 1 + Displacement16(b))
       \/ /\ Mod(b) # 3 /\ AddressSize \in prefix /\ ~HasDisplacement16(b)
          /\ phase' = "aborted" /\ cursor' = cursor + 1
    /\ UNCHANGED <<prefix, prefixes, escaped, opcode, base, stray>>

\* The base field is compared with RBP of x86_ia32e_register_t, which is 7;
\* the number of ebp in a sib byte is 5.
RBP == 7
DisplacementSib(b) ==
    IF b # RBP THEN Displacement(modrm)
    ELSE IF Mod(modrm) = 1 THEN 1 ELSE 4

ReadSib(b) ==
    /\ phase = "sib"
    /\ base' = b
    /\ Immediate(escaped, opcode, cursor + 1 + DisplacementSib(b))
    /\ UNCHANGED <<prefix, prefixes, escaped, opcode, modrm, stray>>

DecodeNext ==
    \/ ReadEscape
    \/ \E b \in Byte : ReadPrefix(b) \/ ReadOpcode(b) \/ ReadSecond(b)
    \/ \E b \in ModRMs : ReadModrm(b)
    \/ \E b \in 0..7 : ReadSib(b)

DecodeSpec == DecodeInit /\ [][DecodeNext]_decodeVars

-----------------------------------------------------------------------------
(* Properties *)

\* The answer of Intel's manual, for 32-bit mode.  Opcodes with a modrm byte; 0F 38
\* and 0F 3A begin an opcode of three bytes, which all have one.
ModrmByManual ==
    IF escaped
    THEN Byte \ ({\h05, \h06, \h07, \h08, \h09, \h0B, \h0E}
                 \cup (\h30..\h3F \ {\h38, \h3A}) \cup {\h77}
                 \cup \h80..\h8F \cup {\hA0, \hA1, \hA2, \hA8, \hA9, \hAA} \cup \hC8..\hCF)
    ELSE {b \in 0..\h3F : b % 8 \in 0..3} \cup {\h62, \h63, \h69, \h6B} \cup \h80..\h8F
         \cup {\hC0, \hC1, \hC4, \hC5, \hC6, \hC7} \cup \hD0..\hD3 \cup \hD8..\hDF
         \cup {\hF6, \hF7, \hFE, \hFF}

\* Bytes of immediate, offset or address that end the instruction.
TailByManual ==
    LET z == IF OperandSize \in prefix THEN 2 ELSE 4
        a == IF AddressSize \in prefix THEN 2 ELSE 4
        test == RegisterField(modrm) \in {0, 1}
    IN  IF escaped
        THEN IF opcode \in \h80..\h8F THEN z
             ELSE IF opcode \in {\h0F, \h3A} \cup \h70..\h73 \cup
                                {\hA4, \hAC, \hBA, \hC2, \hC4, \hC5, \hC6} THEN 1 ELSE 0
        ELSE CASE opcode < \h40 /\ opcode % 8 = 4 -> 1
               [] opcode < \h40 /\ opcode % 8 = 5 -> z
               [] opcode \in {\h68, \h69, \h81, \hA9, \hC7, \hE8, \hE9} \cup \hB8..\hBF -> z
               [] opcode \in \h70..\h7F \cup \hB0..\hB7 \cup \hE0..\hE7 -> 1
               [] opcode \in {\h6A, \h6B, \h80, \h82, \h83, \hA8, \hC0, \hC1, \hC6,
                              \hCD, \hD4, \hD5, \hEB} -> 1
               [] opcode \in {\hC2, \hCA} -> 2
               [] opcode = \hC8 -> 3
               [] opcode \in \hA0..\hA3 -> a
               [] opcode \in {\h9A, \hEA} -> z + 2
               [] opcode = \hF6 /\ test -> 1
               [] opcode = \hF7 /\ test -> z
               [] OTHER -> 0

\* Moves from and to control and debug registers ignore the mod field.
RegistersOnly == escaped /\ opcode \in \h20..\h23

AddressByManual ==
    IF modrm = None \/ Mod(modrm) = 3 \/ RegistersOnly THEN 0
    ELSE IF AddressSize \in prefix
         THEN IF Mod(modrm) = 1 THEN 1
              ELSE IF Mod(modrm) = 2 \/ RM(modrm) = 6 THEN 2 ELSE 0
         ELSE (IF RM(modrm) = 4 THEN 1 ELSE 0) +
              (IF Mod(modrm) = 1 THEN 1
               ELSE IF Mod(modrm) = 2 THEN 4
               ELSE IF RM(modrm) = 5 \/ (RM(modrm) = 4 /\ base = 5) THEN 4 ELSE 0)

\* LES, LDS and BOUND have a memory operand: with mod 3 their opcodes are VEX and
\* EVEX prefixes, and an opcode and its modrm byte are still to come.
Vex == ~escaped /\ opcode \in {\h62, \hC4, \hC5} /\ modrm # None /\ Mod(modrm) = 3

\* The length of the instruction, if it is agreed where the opcode ends and
\* whether there is a modrm byte.
LengthByManual ==
    prefixes + (IF ~escaped THEN 1 ELSE IF opcode \in {\h38, \h3A} THEN 3 ELSE 2)
             + (IF modrm # None THEN 1 ELSE 0) + AddressByManual + TailByManual

\* Opcodes the tables get wrong: far calls and jumps, moves from and to an
\* address, enter, aam, aad, the coprocessor, the opcodes of three bytes, and the
\* groups 3, 5, 6, 7, 10, 12 to 16 and p, which the tables give no operands.
MisreadOpcodes ==
    IF escaped
    THEN {\h00, \h01, \h04, \h0A, \h0C, \h0D, \h0F} \cup \h18..\h1F \cup \h24..\h27 \cup
         {\h38, \h3A} \cup \h71..\h73 \cup {\hA6, \hA7, \hAE, \hB8, \hB9}
    ELSE {\h9A, \hEA} \cup \hA0..\hA3 \cup {\hC8, \hD4, \hD5} \cup \hD8..\hDF \cup
         {\hF6, \hF7, \hFF}

\* A modrm byte whose mod field means something else.
MisreadMod == Vex \/ (RegistersOnly /\ modrm # None /\ Mod(modrm) # 3)

\* A sib byte whose base is taken for the other of ebp and edi.
MisreadBase == modrm # None /\ Mod(modrm) = 0 /\ base \in {5, 7}

Right ==
    /\ ~Vex /\ (modrm # None <=> opcode \in ModrmByManual)
    /\ cursor = LengthByManual

\* Where the decoder can be trusted: it returns the length that Intel's manual
\* gives the instruction, whatever its prefixes and its addressing, unless the
\* opcode, the mod field or the base register is one of those it misreads.  A letter
\* behind the structure does harm only to an instruction that lacks what the
\* letter stands for: one with an immediate of its own is measured by its own,
\* one with a modrm byte of its own does not get another.
LengthRightIfSupported ==
    (/\ phase = "decoded" /\ opcode \notin MisreadOpcodes /\ ~MisreadMod /\ ~MisreadBase
     /\ opcode \in ModrmByManual \/ ~strayModrm
     /\ TailByManual # 0 \/ strayBytes = 0) => Right

\* x86_insn_decode_t.length is the "insn length", for every opcode the tables
\* describe: the copy of a function's first instructions ends between two of
\* them.
LengthRight ==
    (/\ phase = "decoded" /\ ~strayModrm /\ strayBytes = 0
     /\ opcode \notin MisreadOpcodes /\ ~MisreadMod) => Right
=============================================================================
