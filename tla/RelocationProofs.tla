-------------------------- MODULE RelocationProofs --------------------------
(***************************************************************************)
(* What holds of Dobby's copies of a function's first instructions: how    *)
(* long an x86 instruction is measured, for any number of prefixes and any *)
(* modrm and sib bytes; and what the copy of an ARM or a Thumb instruction *)
(* does, for any function.                                                 *)
(*                                                                         *)
(* The second rests on where things lie.  Buffers are lists of items of    *)
(* two or four bytes (Piece), so that an address belongs to one item       *)
(* (OneItem).  While instructions are moved, each copy keeps its place     *)
(* (Moved); when the copy is finished, the words of the labels lie behind  *)
(* it and those outside the overwritten bytes are what the instructions    *)
(* asked for (Finished).  A processor that entered a copy is at the nops   *)
(* before it, on the way through it, or at its end with the effect of the  *)
(* instruction (OnTrack).                                                  *)
(***************************************************************************)
EXTENDS X86Decode, ArmRelocation, SequenceFacts

-----------------------------------------------------------------------------
(* The length decoder *)

OpcodeBytes == IF escaped THEN 2 ELSE 1

\* What the decoder reads for the address, once it has read all of it.
AddressBytes ==
    IF modrm = None \/ Mod(modrm) = 3 THEN 0
    ELSE IF AddressSize \in prefix THEN Displacement16(modrm)
    ELSE IF RM(modrm) # 4 THEN Displacement(modrm)
    ELSE 1 + DisplacementSib(base)

DecodeTypeOK ==
    /\ phase \in {"prefix", "second", "modrm", "sib", "decoded", "aborted"}
    /\ prefix \subseteq {OperandSize, AddressSize} /\ prefixes \in Nat /\ cursor \in Nat
    /\ escaped \in BOOLEAN /\ opcode \in Byte \cup {None}
    /\ modrm \in Byte \cup {None} /\ base \in 0..7 \cup {None}
    /\ strayModrm \in BOOLEAN /\ strayBytes \in {0, 1, 2, 4}

\* An opcode whose operands the tables describe.
InTables ==
    /\ opcode \in Byte /\ (escaped => opcode \notin Sse)
    /\ ~escaped => opcode \notin PrefixBytes \cup {\h0F}

\* The cursor stands behind what has been read so far.
DecodeInv ==
    /\ DecodeTypeOK
    /\ phase \in {"prefix", "second"} => ~escaped /\ modrm = None /\ base = None
    /\ phase = "prefix" => cursor = prefixes
    /\ phase = "second" => cursor = prefixes + 1
    /\ phase \in {"modrm", "sib"} => InTables /\ HasModrm(escaped, opcode) /\ base = None
    /\ phase = "modrm" => modrm = None /\ cursor = prefixes + OpcodeBytes
    /\ phase = "sib" => /\ modrm \in Byte /\ cursor = prefixes + OpcodeBytes + 1
                        /\ Mod(modrm) # 3 /\ RM(modrm) = 4 /\ AddressSize \notin prefix
    /\ phase = "decoded" =>
         /\ InTables /\ (modrm # None <=> HasModrm(escaped, opcode))
         /\ (modrm # None /\ Mod(modrm) # 3 /\ AddressSize \in prefix) => HasDisplacement16(modrm)
         /\ (modrm # None /\ Mod(modrm) # 3 /\ AddressSize \notin prefix /\ RM(modrm) = 4)
              => base \in 0..7
         /\ (base # None => modrm # None /\ RM(modrm) = 4)
         /\ cursor = prefixes + OpcodeBytes + (IF modrm # None THEN 1 ELSE 0) + AddressBytes
                     + ImmediateBytes(escaped, opcode)

\* The opcodes of the arithmetic instructions, by the form of their operands.
LEMMA ArithmeticFacts ==
    ASSUME NEW code \in Byte, NEW form \in 0..7
    PROVE  code \in Arithmetic(form) <=> code < 64 /\ code % 8 = form
<1>1. ASSUME NEW k \in 0..7, code = 8 * k + form PROVE code < 64 /\ code % 8 = form
  BY <1>1
<1>2. ASSUME code < 64, code % 8 = form PROVE code \div 8 \in 0..7 /\ code = 8 * (code \div 8) + form
  BY <1>2 DEF Byte
<1> QED BY <1>1, <1>2 DEF Arithmetic

\* Where the manual and the tables agree on the modrm byte.
LEMMA ModrmTables ==
    ASSUME InTables, opcode \notin MisreadOpcodes
    PROVE  opcode \in (IF escaped THEN TwoByteModrm ELSE OneByteModrm) <=> opcode \in ModrmByManual
<1>1. CASE escaped
  BY <1>1 DEF InTables, MisreadOpcodes, TwoByteModrm, ModrmByManual, Byte, Sse
<1>2. CASE ~escaped
  <2> DEFINE U == UNION {Arithmetic(form) : form \in 0..3}
  <2>1. opcode \in U <=> opcode < 64 /\ opcode % 8 \in 0..3
    BY ArithmeticFacts DEF InTables
  <2>2. opcode \in OneByteModrm <=>
          \/ opcode \in U
          \/ opcode \in {\h62, \h63, \h69, \h6B} \cup \h80..\h8F \cup {\hC0, \hC1}
                        \cup \hC4..\hC7 \cup \hD0..\hD3 \cup {\hFE}
    BY DEF OneByteModrm
  <2> HIDE DEF U
  <2>3. opcode \in 0..255
    BY DEF InTables, Byte
  <2> QED BY <1>2, <2>1, <2>2, <2>3 DEF MisreadOpcodes, ModrmByManual
<1> QED BY <1>1, <1>2

\* Where they agree on what ends the instruction.
LEMMA TailTables ==
    ASSUME DecodeTypeOK, InTables, opcode \notin MisreadOpcodes,
           TailByManual # 0 \/ strayBytes = 0
    PROVE  ImmediateBytes(escaped, opcode) = TailByManual
<1>1. CASE escaped
  BY <1>1 DEF DecodeTypeOK, InTables, MisreadOpcodes, ImmediateBytes, TwoByteImmediate,
              TailByManual, Byte, Sse
<1>2. CASE ~escaped
  <2>1. /\ opcode \in Arithmetic(4) <=> opcode < 64 /\ opcode % 8 = 4
        /\ opcode \in Arithmetic(5) <=> opcode < 64 /\ opcode % 8 = 5
    BY ArithmeticFacts DEF InTables
  <2>2. opcode \in 0..255
    BY DEF InTables, Byte
  <2> DEFINE A == Arithmetic(4)
             B == Arithmetic(5)
             t == OneByteImmediate
             z == IF OperandSize \in prefix THEN 2 ELSE 4
  <2>3. /\ t.b = A \cup {\h6A, \h6B} \cup \h70..\h7F \cup {\h80, \h82, \h83} \cup
                  {\hA0, \hA2, \hA8} \cup \hB0..\hB7 \cup {\hC0, \hC1, \hC6, \hCD} \cup
                  \hE0..\hE7 \cup {\hEB}
        /\ t.w = {\hC2, \hC8, \hCA}
        /\ t.z = B \cup {\h68, \h69, \h81, \hA9, \hC7, \hE8, \hE9}
        /\ t.v = {\hA1, \hA3} \cup \hB8..\hBF
    BY DEF OneByteImmediate
  <2>4. ImmediateBytes(escaped, opcode) = IF opcode \in t.b THEN 1
                                          ELSE IF opcode \in t.w THEN 2
                                          ELSE IF opcode \in t.z \cup t.v THEN z
                                          ELSE strayBytes
    BY <1>2 DEF ImmediateBytes
  <2> HIDE DEF A, B, t, z
  <2>5. opcode \notin {\h9A, \hEA} \cup \hA0..\hA3 \cup {\hC8, \hD4, \hD5} \cup \hD8..\hDF \cup
                      {\hF6, \hF7, \hFF}
    BY <1>2 DEF MisreadOpcodes
  <2>6. TailByManual = IF opcode \in t.b THEN 1
                       ELSE IF opcode \in t.w THEN 2
                       ELSE IF opcode \in t.z \cup t.v THEN z ELSE 0
    <3>1. CASE opcode \in t.b
      BY <1>2, <2>1, <2>2, <2>3, <2>5, <3>1 DEF TailByManual, A, B
    <3>2. CASE opcode \in t.w
      BY <1>2, <2>1, <2>2, <2>3, <2>5, <3>2 DEF TailByManual, A, B
    <3>3. CASE opcode \in t.z
      BY <1>2, <2>1, <2>2, <2>3, <2>5, <3>3 DEF TailByManual, A, B, z
    <3>4. CASE opcode \in t.v
      BY <1>2, <2>1, <2>2, <2>3, <2>5, <3>4 DEF TailByManual, A, B, z
    <3>5. CASE opcode \notin t.b \cup t.w \cup t.z \cup t.v
      BY <1>2, <2>1, <2>2, <2>3, <2>5, <3>5 DEF TailByManual, A, B
    <3> QED BY <3>1, <3>2, <3>3, <3>4, <3>5
  <2> QED BY <2>4, <2>6
<1> QED BY <1>1, <1>2

\* Where they agree on the address.
LEMMA AddressRight ==
    ASSUME DecodeInv, phase = "decoded", ~MisreadMod, ~MisreadBase
    PROVE  AddressBytes = AddressByManual
<1>1. CASE modrm = None \/ Mod(modrm) = 3
  BY <1>1 DEF AddressBytes, AddressByManual
<1>2. CASE modrm # None /\ Mod(modrm) # 3
  <2>0. ~RegistersOnly
    BY <1>2 DEF MisreadMod
  <2>1. modrm \in 0..255 /\ base \in 0..7 \cup {-1}
    BY <1>2 DEF DecodeInv, DecodeTypeOK, Byte, None
  <2>2. Mod(modrm) \in {0, 1, 2} /\ RM(modrm) \in 0..7
    BY <1>2, <2>1 DEF Mod, RM
  <2>3. CASE AddressSize \in prefix
    <3>1. Mod(modrm) # 0 \/ RM(modrm) = 6
      BY <1>2, <2>3 DEF DecodeInv, HasDisplacement16
    <3> QED BY <1>2, <2>0, <2>2, <2>3, <3>1 DEF AddressBytes, AddressByManual, Displacement16
  <2>4. CASE AddressSize \notin prefix /\ RM(modrm) # 4
    BY <1>2, <2>0, <2>2, <2>4 DEF AddressBytes, AddressByManual, Displacement
  <2>5. CASE AddressSize \notin prefix /\ RM(modrm) = 4
    <3>1. base \in 0..7 /\ (Mod(modrm) = 0 => base \notin {5, 7})
      BY <1>2, <2>5 DEF DecodeInv, MisreadBase
    <3> QED BY <1>2, <2>0, <2>2, <2>5, <3>1
            DEF AddressBytes, AddressByManual, DisplacementSib, Displacement, RBP
  <2> QED BY <2>3, <2>4, <2>5
<1> QED BY <1>1, <1>2

\* What the immediate adds to the cursor.
LEMMA ImmediateNat ==
    ASSUME DecodeTypeOK PROVE ImmediateBytes(escaped, opcode) \in Nat
BY DEF DecodeTypeOK, ImmediateBytes


\* Nothing has been read.
LEMMA DecodeInitially == DecodeInit => DecodeInv
<1> SUFFICES ASSUME DecodeInit PROVE DecodeInv
  OBVIOUS
<1>1. DecodeTypeOK
  BY DEF DecodeInit, DecodeTypeOK
<1> QED BY <1>1 DEF DecodeInit, DecodeInv

\* Every byte that is read moves the cursor over what it stands for.
LEMMA DecodeStep ==
    ASSUME DecodeInv, [DecodeNext]_decodeVars PROVE DecodeInv'
<1>1. CASE UNCHANGED decodeVars
  BY <1>1 DEF decodeVars, stray, DecodeInv, DecodeTypeOK, InTables, OpcodeBytes, AddressBytes,
              HasModrm, ImmediateBytes, DisplacementSib
<1>2. CASE ReadEscape
  BY <1>2 DEF ReadEscape, stray, DecodeInv, DecodeTypeOK
<1>3. ASSUME NEW b \in Byte, ReadPrefix(b) PROVE DecodeInv'
  <2>1. prefix' \subseteq {OperandSize, AddressSize} /\ prefixes' \in Nat /\ cursor' \in Nat
    BY <1>3 DEF ReadPrefix, DecodeInv, DecodeTypeOK
  <2> QED BY <1>3, <2>1 DEF ReadPrefix, stray, DecodeInv, DecodeTypeOK
<1> DEFINE Read(esc, b) ==
      /\ DecodeInv /\ ~escaped /\ modrm = None /\ base = None /\ phase \in {"prefix", "second"}
      /\ cursor = prefixes + (IF esc THEN 1 ELSE 0)
      /\ ~esc => b \notin PrefixBytes \cup {\h0F}
<1>4. ASSUME NEW esc \in BOOLEAN, NEW b \in Byte, Opcode(esc, b), Read(esc, b) PROVE DecodeInv'
  <2>1. /\ opcode' = b /\ escaped' = esc
        /\ UNCHANGED <<prefix, prefixes, modrm, base, strayModrm, strayBytes>>
    BY <1>4 DEF Opcode, stray
  <2>2. DecodeTypeOK /\ cursor \in Nat /\ prefixes \in Nat
    BY <1>4 DEF DecodeInv, DecodeTypeOK
  <2>3. /\ HasModrm(esc, b) <=> HasModrm(escaped, opcode)'
        /\ ImmediateBytes(esc, b) = ImmediateBytes(escaped, opcode)'
        /\ ImmediateBytes(esc, b) \in Nat
    BY <2>1, <2>2 DEF HasModrm, ImmediateBytes, DecodeTypeOK
  <2>4. CASE esc /\ b \in Sse /\ phase' = "aborted" /\ cursor' = cursor + 1
    BY <2>1, <2>2, <2>4 DEF DecodeInv, DecodeTypeOK
  <2>5. CASE ~(esc /\ b \in Sse) /\ HasModrm(esc, b) /\ phase' = "modrm" /\ cursor' = cursor + 1
    <3>1. InTables'
      BY <1>4, <2>1, <2>5 DEF InTables
    <3>2. (cursor = prefixes + OpcodeBytes)'
      BY <1>4, <2>1, <2>2, <2>5 DEF OpcodeBytes
    <3> QED BY <1>4, <2>1, <2>2, <2>3, <2>5, <3>1, <3>2 DEF DecodeInv, DecodeTypeOK
  <2>6. CASE ~(esc /\ b \in Sse) /\ ~HasModrm(esc, b) /\ Immediate(esc, b, cursor + 1)
    <3>1. InTables'
      BY <1>4, <2>1, <2>6 DEF InTables
    <3>2. phase' = "decoded" /\ cursor' = cursor + 1 + ImmediateBytes(esc, b)
      BY <2>6 DEF Immediate
    <3>3. AddressBytes' = 0 /\ modrm' = None /\ base' = None
      BY <1>4, <2>1 DEF AddressBytes
    <3>4. (cursor = prefixes + OpcodeBytes + (IF modrm # None THEN 1 ELSE 0) + AddressBytes
                    + ImmediateBytes(escaped, opcode))'
      BY <1>4, <2>1, <2>2, <2>3, <3>2, <3>3 DEF OpcodeBytes
    <3>5. DecodeTypeOK'
      BY <2>1, <2>2, <2>3, <3>2 DEF DecodeTypeOK
    <3> QED BY <2>3, <2>6, <3>1, <3>2, <3>3, <3>4, <3>5 DEF DecodeInv
  <2> QED BY <1>4, <2>4, <2>5, <2>6 DEF Opcode
<1>5. ASSUME NEW b \in Byte, ReadOpcode(b) PROVE DecodeInv'
  <2>1. Opcode(FALSE, b) /\ b \notin PrefixBytes \cup {\h0F} /\ phase = "prefix"
    BY <1>5 DEF ReadOpcode
  <2>2. ~escaped /\ modrm = None /\ base = None /\ cursor = prefixes + 0
    BY <2>1 DEF DecodeInv, DecodeTypeOK
  <2>3. Read(FALSE, b)
    BY <2>1, <2>2
  <2> HIDE DEF Read
  <2> QED BY <1>4, <2>1, <2>3
<1>6. ASSUME NEW b \in Byte, ReadSecond(b) PROVE DecodeInv'
  <2>1. Read(TRUE, b) /\ Opcode(TRUE, b)
    BY <1>6 DEF ReadSecond, DecodeInv, DecodeTypeOK
  <2> HIDE DEF Read
  <2> QED BY <1>4, <2>1
\* The operands are read: the cursor stands at the end of the address.
<1> DEFINE Ends(at) == /\ UNCHANGED <<prefix, prefixes, escaped, opcode, strayModrm, strayBytes>>
                       /\ modrm' \in Byte /\ base' \in 0..7 \cup {None}
                       /\ phase' = "decoded" /\ cursor' = at + ImmediateBytes(escaped, opcode)
<1>7. ASSUME NEW at \in Nat, Ends(at), DecodeInv, phase \in {"modrm", "sib"},
             at = prefixes + OpcodeBytes + 1 + AddressBytes',
             (Mod(modrm) # 3 /\ AddressSize \in prefix => HasDisplacement16(modrm))',
             (Mod(modrm) # 3 /\ AddressSize \notin prefix /\ RM(modrm) = 4 => base \in 0..7)',
             (base # None => RM(modrm) = 4)'
      PROVE  DecodeInv'
  <2>1. modrm' # None
    BY <1>7 DEF Byte, None
  <2>2. DecodeTypeOK /\ InTables /\ HasModrm(escaped, opcode) /\ prefixes \in Nat
    BY <1>7 DEF DecodeInv, DecodeTypeOK
  <2>3. /\ HasModrm(escaped, opcode)' <=> HasModrm(escaped, opcode)
        /\ ImmediateBytes(escaped, opcode)' = ImmediateBytes(escaped, opcode)
        /\ ImmediateBytes(escaped, opcode) \in Nat
        /\ OpcodeBytes' = OpcodeBytes /\ OpcodeBytes \in Nat
        /\ InTables' <=> InTables
    BY <1>7, <2>2, ImmediateNat DEF HasModrm, ImmediateBytes, OpcodeBytes, InTables
  <2>4. cursor' \in Nat
    BY <1>7, <2>3
  <2>5. DecodeTypeOK'
    BY <1>7, <2>2, <2>4 DEF DecodeTypeOK
  <2>6. phase' = "decoded"
    BY <1>7
  <2>7. (prefixes + OpcodeBytes + 1 + AddressBytes)' = at
    BY <1>7, <2>3
  <2>8. (cursor = prefixes + OpcodeBytes + (IF modrm # None THEN 1 ELSE 0) + AddressBytes
                  + ImmediateBytes(escaped, opcode))'
    BY <1>7, <2>1, <2>3, <2>7
  <2> QED BY <1>7, <2>1, <2>2, <2>3, <2>5, <2>6, <2>8 DEF DecodeInv
<1>8. ASSUME NEW b \in ModRMs, ReadModrm(b) PROVE DecodeInv'
  <2>1. /\ UNCHANGED <<prefix, prefixes, escaped, opcode, base, strayModrm, strayBytes>>
        /\ modrm' = b /\ b \in Byte /\ phase = "modrm"
    BY <1>8, X86DecodeAssumption DEF ReadModrm, stray, Byte
  <2>2. /\ cursor = prefixes + OpcodeBytes /\ cursor \in Nat /\ base = None
        /\ prefixes \in Nat /\ OpcodeBytes \in Nat
    BY <2>1 DEF DecodeInv, DecodeTypeOK, OpcodeBytes
  <2>3. b # None /\ Displacement(b) \in Nat /\ Displacement16(b) \in Nat
    BY <2>1 DEF Byte, None, Displacement, Displacement16
  <2>4. CASE Mod(b) = 3 /\ Immediate(escaped, opcode, cursor + 1)
    <3>1. Ends(cursor + 1) /\ AddressBytes' = 0
      BY <2>1, <2>2, <2>4 DEF Immediate, AddressBytes
    <3> HIDE DEF Ends
    <3> QED BY <1>7, <2>1, <2>2, <2>4, <3>1
  <2>5. CASE /\ Mod(b) # 3 /\ AddressSize \notin prefix /\ RM(b) # 4
             /\ Immediate(escaped, opcode, cursor + 1 + Displacement(b))
    <3>1. Ends(cursor + 1 + Displacement(b)) /\ AddressBytes' = Displacement(b)
      BY <2>1, <2>2, <2>3, <2>5 DEF Immediate, AddressBytes
    <3> HIDE DEF Ends
    <3>2. cursor + 1 + Displacement(b) \in Nat
      BY <2>2, <2>3
    <3> QED BY <1>7, <2>1, <2>2, <2>5, <3>1, <3>2
  <2>6. CASE /\ Mod(b) # 3 /\ AddressSize \notin prefix /\ RM(b) = 4
             /\ phase' = "sib" /\ cursor' = cursor + 1
    <3>1. /\ HasModrm(escaped, opcode)' <=> HasModrm(escaped, opcode)
          /\ OpcodeBytes' = OpcodeBytes /\ InTables' <=> InTables
      BY <2>1 DEF HasModrm, OpcodeBytes, InTables
    <3>2. DecodeTypeOK'
      BY <2>1, <2>2, <2>6 DEF DecodeInv, DecodeTypeOK
    <3> QED BY <2>1, <2>2, <2>6, <3>1, <3>2 DEF DecodeInv
  <2>7. CASE /\ Mod(b) # 3 /\ AddressSize \in prefix /\ HasDisplacement16(b)
             /\ Immediate(escaped, opcode, cursor + 1 + Displacement16(b))
    <3>1. Ends(cursor + 1 + Displacement16(b)) /\ AddressBytes' = Displacement16(b)
      BY <2>1, <2>2, <2>3, <2>7 DEF Immediate, AddressBytes
    <3> HIDE DEF Ends
    <3>2. cursor + 1 + Displacement16(b) \in Nat
      BY <2>2, <2>3
    <3> QED BY <1>7, <2>1, <2>2, <2>7, <3>1, <3>2
  <2>8. CASE phase' = "aborted" /\ cursor' = cursor + 1
    BY <2>1, <2>2, <2>8 DEF DecodeInv, DecodeTypeOK
  <2> QED BY <1>8, <2>4, <2>5, <2>6, <2>7, <2>8 DEF ReadModrm
<1>9. ASSUME NEW b \in 0..7, ReadSib(b) PROVE DecodeInv'
  <2>1. /\ UNCHANGED <<prefix, prefixes, escaped, opcode, modrm, strayModrm, strayBytes>>
        /\ base' = b /\ phase = "sib" /\ Immediate(escaped, opcode, cursor + 1 + DisplacementSib(b))
    BY <1>9 DEF ReadSib, stray
  <2>2. /\ cursor = prefixes + OpcodeBytes + 1 /\ cursor \in Nat /\ modrm \in Byte
        /\ prefixes \in Nat /\ OpcodeBytes \in Nat
        /\ Mod(modrm) # 3 /\ RM(modrm) = 4 /\ AddressSize \notin prefix
    BY <2>1 DEF DecodeInv, DecodeTypeOK, OpcodeBytes
  <2>3. DisplacementSib(b) \in Nat /\ modrm # None
    BY <2>2 DEF DisplacementSib, Displacement, Byte, None
  <2>4. AddressBytes' = 1 + DisplacementSib(b)
    BY <2>1, <2>2, <2>3 DEF AddressBytes, DisplacementSib
  <2>5. Ends(cursor + 1 + DisplacementSib(b))
    BY <2>1, <2>2 DEF Immediate
  <2> HIDE DEF Ends
  <2>6. /\ cursor + 1 + DisplacementSib(b) \in Nat
        /\ cursor + 1 + DisplacementSib(b) = prefixes + OpcodeBytes + 1 + (1 + DisplacementSib(b))
    BY <2>2, <2>3
  <2> QED BY <1>7, <2>1, <2>2, <2>4, <2>5, <2>6
<1> QED BY <1>1, <1>2, <1>3, <1>5, <1>6, <1>8, <1>9 DEF DecodeNext

\* The decoder returns the length that Intel's manual gives an instruction, for
\* every number of prefixes and every modrm and sib byte, unless the opcode, the
\* mod field or the base register is one of those it misreads or what happens to
\* lie behind the operands asks for a byte the instruction lacks.
THEOREM LengthsMeasuredRight == DecodeSpec => []LengthRightIfSupported
<1>1. DecodeInv => LengthRightIfSupported
  <2> SUFFICES ASSUME DecodeInv, phase = "decoded", opcode \notin MisreadOpcodes, ~MisreadMod,
                      ~MisreadBase,
                      opcode \in ModrmByManual \/ ~strayModrm, TailByManual # 0 \/ strayBytes = 0
               PROVE  Right
    BY DEF LengthRightIfSupported
  <2>1. DecodeTypeOK /\ InTables /\ (modrm # None <=> HasModrm(escaped, opcode))
    BY DEF DecodeInv
  <2>2. modrm # None <=> opcode \in ModrmByManual
    BY <2>1, ModrmTables DEF HasModrm
  <2>3. AddressBytes = AddressByManual /\ ImmediateBytes(escaped, opcode) = TailByManual
    BY <2>1, AddressRight, TailTables
  <2>4. cursor = prefixes + OpcodeBytes + (IF modrm # None THEN 1 ELSE 0) + AddressBytes
                 + ImmediateBytes(escaped, opcode)
    BY DEF DecodeInv
  <2>5. escaped => opcode \notin {\h38, \h3A}
    BY DEF MisreadOpcodes
  <2>6. cursor = LengthByManual
    BY <2>1, <2>3, <2>4, <2>5 DEF LengthByManual, OpcodeBytes, DecodeTypeOK
  <2> QED BY <2>2, <2>6 DEF Right, MisreadMod
<1> QED BY <1>1, DecodeInitially, DecodeStep, PTL DEF DecodeSpec

-----------------------------------------------------------------------------
(* ARM code buffers *)

\* A list of things of two or four bytes.
Piece(s) == \E S : s \in Seq(S) /\ \A x \in S : x.len \in {2, 4}

\* The bytes before each of them.
Off(s) == Offsets([n \in DOMAIN s |-> s[n].len])

\* Where they lie.
LEMMA PieceFacts ==
    ASSUME NEW s, Piece(s)
    PROVE  /\ Len(s) \in Nat /\ DOMAIN s = 1..Len(s)
           /\ \A k \in 1..Len(s) : s[k].len \in {2, 4}
           /\ Off(s) \in [0..Len(s) -> Nat] /\ Off(s)[0] = 0
           /\ \A k \in 1..Len(s) : Off(s)[k] = Off(s)[k - 1] + s[k].len
           /\ Bytes(s) = Off(s)[Len(s)] /\ Bytes(s) \in Nat
<1>1. PICK S : s \in Seq(S) /\ \A x \in S : x.len \in {2, 4}
  BY DEF Piece
<1> DEFINE N == Len(s)
           lens == [n \in DOMAIN s |-> s[n].len]
<1>2. N \in Nat /\ DOMAIN s = 1..N /\ \A k \in 1..N : s[k].len \in {2, 4}
  BY <1>1
<1>3. lens \in [1..N -> Nat]
  BY <1>2
<1>4. lens \in Seq(Nat) /\ Len(lens) = N /\ lens \in Seq(Int)
  BY <1>2, <1>3
<1>5. \A k \in 1..N : lens[k] = s[k].len
  BY <1>2
<1> HIDE DEF lens, N
<1>6. Offsets(lens) \in [0..N -> Nat]
  BY <1>4, OffsetsNat
<1>7. Offsets(lens)[0] = 0 /\ \A n \in 1..N : Offsets(lens)[n] = Offsets(lens)[n - 1] + lens[n]
  BY <1>4, OffsetsFacts
<1>8. Off(s) = Offsets(lens) /\ Bytes(s) = Offsets(lens)[N]
  BY <1>4 DEF Off, Bytes, Total, lens
<1>9. Offsets(lens)[N] \in Nat
  BY <1>2, <1>6
<1> QED BY <1>2, <1>5, <1>6, <1>7, <1>8, <1>9 DEF N

\* The bytes before an item are those of the items before it.
LEMMA PrefixBytesOf ==
    ASSUME NEW s, Piece(s), NEW k \in 0..Len(s)
    PROVE  Bytes(SubSeq(s, 1, k)) = Off(s)[k]
<1>1. PICK S : s \in Seq(S) /\ \A x \in S : x.len \in {2, 4}
  BY DEF Piece
<1> DEFINE a == SubSeq(s, 1, k)
           l == [n \in DOMAIN s |-> s[n].len]
           m == [n \in DOMAIN a |-> a[n].len]
<1>2. /\ a \in Seq(S) /\ Len(a) = k /\ DOMAIN a = 1..k /\ \A i \in 1..k : a[i] = s[i]
  BY <1>1, FirstN
<1>3. Len(s) \in Nat /\ DOMAIN s = 1..Len(s) /\ k \in Nat /\ k <= Len(s)
  BY <1>1
<1> HIDE DEF a
<1>4. \A x \in S : x.len \in Int
  BY <1>1
<1>5. l \in [1..Len(s) -> Int] /\ m \in [1..k -> Int]
  BY <1>1, <1>2, <1>3, <1>4
<1>6. l \in Seq(Int) /\ Len(l) = Len(s) /\ m \in Seq(Int) /\ Len(m) = k
  <2> HIDE DEF l, m
  <2>1. l \in Seq(Int) /\ Len(l) = Len(s)
    BY <1>3, <1>5
  <2>2. m \in Seq(Int) /\ Len(m) = k
    BY <1>3, <1>5
  <2> QED BY <2>1, <2>2
<1>7. \A i \in 1..k : m[i] = l[i]
  BY <1>2, <1>3
<1> HIDE DEF l, m
<1>8. \A i \in 0..k : Offsets(m)[i] = Offsets(l)[i]
  <2>1. k <= Len(m) /\ k <= Len(l)
    BY <1>3, <1>6
  <2> QED BY <1>3, <1>6, <1>7, <2>1, SameOffsets
<1>9. Bytes(a) = Offsets(m)[k] /\ Off(s) = Offsets(l)
  BY <1>6 DEF Bytes, Total, Off, l, m
<1> QED BY <1>3, <1>8, <1>9 DEF a

\* Two items lie at different places.
LEMMA OffIncreases ==
    ASSUME NEW s, Piece(s)
    PROVE  \A j, k \in 0..Len(s) : j < k => Off(s)[j] < Off(s)[k]
<1> DEFINE N == Len(s)
           o == Off(s)
           G == {k \in 0..N : \A j \in 0..N : j < k => o[j] < o[k]}
<1>1. /\ N \in Nat /\ o \in [0..N -> Nat] /\ \A k \in 1..N : o[k] = o[k - 1] + s[k].len
      /\ \A k \in 1..N : s[k].len \in {2, 4}
  BY PieceFacts
<1> HIDE DEF N, o
<1>2. 0 \in G
  BY <1>1
<1>3. ASSUME NEW k \in 1..N, k - 1 \in G PROVE k \in G
  <2>1. k - 1 \in 0..N /\ k \in 0..N /\ o[k - 1] \in Nat /\ o[k] > o[k - 1]
    <3>1. k - 1 \in 0..N /\ k \in 0..N
      BY <1>1
    <3>2. o[k - 1] \in Nat /\ o[k] = o[k - 1] + s[k].len /\ s[k].len \in {2, 4}
      BY <1>1, <3>1
    <3> QED BY <3>1, <3>2
  <2>2. ASSUME NEW j \in 0..N, j < k PROVE o[j] < o[k]
    <3>1. o[j] \in Nat /\ o[k] \in Nat
      BY <1>1, <2>1
    <3>2. CASE j = k - 1
      BY <2>1, <3>2
    <3>3. CASE j # k - 1
      <4>1. j < k - 1
        <5>1. \A x, y \in Int : x < y /\ x # y - 1 => x < y - 1
          OBVIOUS
        <5>2. j \in Int /\ k \in Int
          BY <1>1
        <5> QED BY <2>2, <3>3, <5>1, <5>2
      <4>2. o[j] < o[k - 1]
        BY <1>3, <4>1
      <4> QED BY <2>1, <3>1, <4>2
    <3> QED BY <3>2, <3>3
  <2> QED BY <2>1, <2>2
<1> HIDE DEF G
<1>4. \A k \in 0..N : k \in G
  BY <1>1, <1>2, <1>3, UpTo
<1> QED BY <1>4 DEF G, N, o

\* Two pieces, one behind the other.
LEMMA PieceConcat ==
    ASSUME NEW s, NEW t, Piece(s), Piece(t)
    PROVE  /\ Piece(s \o t) /\ Len(s \o t) = Len(s) + Len(t)
           /\ \A i \in 1..Len(s) : (s \o t)[i] = s[i]
           /\ \A i \in 1..Len(t) : (s \o t)[Len(s) + i] = t[i]
           /\ \A i \in 0..Len(s) : Off(s \o t)[i] = Off(s)[i]
           /\ \A i \in 0..Len(t) : Off(s \o t)[Len(s) + i] = Bytes(s) + Off(t)[i]
           /\ Bytes(s \o t) = Bytes(s) + Bytes(t)
<1> DEFINE m == Len(s)
           n == Len(t)
           c == s \o t
<1>1. PICK S : s \in Seq(S) /\ \A x \in S : x.len \in {2, 4}
  BY DEF Piece
<1>2. PICK T : t \in Seq(T) /\ \A x \in T : x.len \in {2, 4}
  BY DEF Piece
<1>3. s \in Seq(S \cup T) /\ t \in Seq(S \cup T)
  BY <1>1, <1>2
<1>4. /\ c \in Seq(S \cup T) /\ Len(c) = m + n
      /\ \A i \in 1..m : c[i] = s[i]
      /\ \A i \in 1..n : c[m + i] = t[i]
  BY <1>3, ConcatFacts
<1>5. Piece(c)
  <2>1. \A x \in S \cup T : x.len \in {2, 4}
    BY <1>1, <1>2
  <2> HIDE DEF c
  <2> QED BY <1>4, <2>1 DEF Piece
<1>6. /\ m \in Nat /\ Off(s) \in [0..m -> Nat] /\ Off(s)[0] = 0
      /\ \A k \in 1..m : Off(s)[k] = Off(s)[k - 1] + s[k].len
      /\ Bytes(s) = Off(s)[m] /\ Bytes(s) \in Nat
  BY PieceFacts
<1>7. /\ n \in Nat /\ Off(t) \in [0..n -> Nat] /\ Off(t)[0] = 0
      /\ \A k \in 1..n : Off(t)[k] = Off(t)[k - 1] + t[k].len
      /\ \A k \in 1..n : t[k].len \in {2, 4}
      /\ Bytes(t) = Off(t)[n]
  BY PieceFacts
<1>8. /\ Off(c) \in [0..Len(c) -> Nat] /\ Off(c)[0] = 0
      /\ \A k \in 1..Len(c) : Off(c)[k] = Off(c)[k - 1] + c[k].len
      /\ Bytes(c) = Off(c)[Len(c)]
  BY <1>5, PieceFacts
<1> HIDE DEF c, m, n
<1>9. \A i \in 0..m : Off(c)[i] = Off(s)[i]
  <2> DEFINE G == {i \in 0..m : Off(c)[i] = Off(s)[i]}
  <2>1. 0 \in G
    BY <1>6, <1>8
  <2>2. ASSUME NEW k \in 1..m, k - 1 \in G PROVE k \in G
    <3>1. k \in 1..Len(c) /\ c[k] = s[k] /\ k \in 0..m
      BY <1>4, <1>6, <1>7
    <3> QED BY <1>6, <1>8, <2>2, <3>1
  <2> HIDE DEF G
  <2>3. \A i \in 0..m : i \in G
    BY <1>6, <2>1, <2>2, UpTo
  <2> QED BY <2>3 DEF G
<1>10. \A i \in 0..n : Off(c)[m + i] = Bytes(s) + Off(t)[i]
  <2> DEFINE G == {i \in 0..n : Off(c)[m + i] = Bytes(s) + Off(t)[i]}
  <2>1. 0 \in G
    <3>1. m + 0 = m /\ m \in 0..m /\ Off(c)[m] = Off(s)[m] /\ 0 \in 0..n
      BY <1>6, <1>7, <1>9
    <3> QED BY <1>6, <1>7, <3>1
  <2>2. ASSUME NEW k \in 1..n, k - 1 \in G PROVE k \in G
    <3>1. /\ m + k \in 1..Len(c) /\ c[m + k] = t[k] /\ k \in 0..n /\ (m + k) - 1 = m + (k - 1)
          /\ t[k].len \in {2, 4} /\ Off(t)[k - 1] \in Nat
      BY <1>4, <1>6, <1>7
    <3>2. Off(c)[m + k] = Off(c)[m + (k - 1)] + t[k].len
      BY <1>8, <3>1
    <3>3. Off(c)[m + (k - 1)] = Bytes(s) + Off(t)[k - 1]
      BY <2>2
    <3>4. Off(t)[k] = Off(t)[k - 1] + t[k].len
      BY <1>7
    <3>5. Off(c)[m + k] = Bytes(s) + Off(t)[k]
      BY <1>6, <3>1, <3>2, <3>3, <3>4
    <3> QED BY <3>1, <3>5
  <2> HIDE DEF G
  <2>3. \A i \in 0..n : i \in G
    BY <1>7, <2>1, <2>2, UpTo
  <2> QED BY <2>3 DEF G
<1>11. Bytes(c) = Bytes(s) + Bytes(t)
  <2>1. n \in 0..n
    BY <1>7
  <2> QED BY <1>4, <1>7, <1>8, <1>10, <2>1
<1> QED BY <1>4, <1>5, <1>9, <1>10, <1>11 DEF c, m, n

\* One item is a piece.
LEMMA PieceOne ==
    ASSUME NEW x, x.len \in {2, 4}
    PROVE  Piece(<<x>>) /\ Len(<<x>>) = 1 /\ <<x>>[1] = x /\ Bytes(<<x>>) = x.len
<1>1. <<x>> \in Seq({x}) /\ \A y \in {x} : y.len \in {2, 4}
  OBVIOUS
<1>2. Piece(<<x>>)
  <2> DEFINE s == <<x>>
  <2>1. s \in Seq({x}) /\ \A y \in {x} : y.len \in {2, 4}
    BY <1>1
  <2> HIDE DEF s
  <2>2. Piece(s)
    BY <2>1 DEF Piece
  <2> QED BY <2>2 DEF s
<1>3. Len(<<x>>) = 1 /\ <<x>>[1] = x
  OBVIOUS
<1> DEFINE s == <<x>>
<1>4. /\ Off(s)[0] = 0 /\ Bytes(s) = Off(s)[Len(s)]
      /\ \A k \in 1..Len(s) : Off(s)[k] = Off(s)[k - 1] + s[k].len
  BY <1>2, PieceFacts
<1>5. Bytes(s) = x.len
  <2> HIDE DEF s
  <2>1. Len(s) = 1 /\ s[1] = x
    BY <1>3 DEF s
  <2>2. 1 \in 1..Len(s) /\ 1 - 1 = 0
    BY <2>1
  <2>3. Off(s)[1] = 0 + x.len
    BY <1>4, <2>1, <2>2
  <2> QED BY <1>4, <2>1, <2>3
<1> QED BY <1>2, <1>3, <1>5

\* An item is appended.
LEMMA PieceAppend ==
    ASSUME NEW s, NEW x, Piece(s), x.len \in {2, 4}
    PROVE  /\ Piece(Append(s, x)) /\ Len(Append(s, x)) = Len(s) + 1
           /\ Append(s, x)[Len(s) + 1] = x /\ \A i \in 1..Len(s) : Append(s, x)[i] = s[i]
           /\ \A i \in 0..Len(s) : Off(Append(s, x))[i] = Off(s)[i]
           /\ Bytes(Append(s, x)) = Bytes(s) + x.len
<1>1. PICK S : s \in Seq(S)
  BY DEF Piece
<1>2. s \in Seq(S \cup {x}) /\ x \in S \cup {x}
  BY <1>1
<1>3. Append(s, x) = s \o <<x>>
  BY <1>2, AppendIsConcat
<1>4. Piece(<<x>>) /\ Len(<<x>>) = 1 /\ <<x>>[1] = x /\ Bytes(<<x>>) = x.len
  BY PieceOne
<1> DEFINE t == <<x>>
           c == s \o t
<1> HIDE DEF t
<1>5. /\ Piece(c) /\ Len(c) = Len(s) + Len(t) /\ (\A i \in 1..Len(s) : c[i] = s[i])
      /\ \A i \in 1..Len(t) : c[Len(s) + i] = t[i]
  BY <1>4, PieceConcat DEF t
<1>6. /\ \A i \in 0..Len(s) : Off(c)[i] = Off(s)[i]
      /\ Bytes(c) = Bytes(s) + Bytes(t)
  BY <1>4, PieceConcat DEF t
<1>7. 1 \in 1..Len(t)
  BY <1>4 DEF t
<1>8. Append(s, x) = c
  BY <1>3 DEF t
<1> HIDE DEF c
<1>9. Len(t) = 1 /\ t[1] = x /\ Bytes(t) = x.len
  BY <1>4 DEF t
<1> QED BY <1>5, <1>6, <1>7, <1>8, <1>9

\* z is r and then q.
Joined(z, r, q) == z = r \o q

\* Three pieces.
LEMMA JoinedTwice ==
    ASSUME NEW a, NEW b, NEW c, NEW x, NEW z, Piece(a), Piece(b), Piece(c), Joined(x, a, b), Joined(z, x, c)
    PROVE  \E y : Piece(y) /\ Joined(z, a, y)
<1>1. PICK S : a \in Seq(S)
  BY DEF Piece
<1>2. PICK T : b \in Seq(T)
  BY DEF Piece
<1>3. PICK U : c \in Seq(U)
  BY DEF Piece
<1> DEFINE V == S \cup T \cup U
<1>4. a \in Seq(V) /\ b \in Seq(V) /\ c \in Seq(V)
  BY <1>1, <1>2, <1>3
<1> HIDE DEF V
<1>5. (a \o b) \o c = a \o (b \o c)
  BY <1>4, ConcatAssociative
<1>6. z = (a \o b) \o c
  BY DEF Joined
<1> DEFINE y == b \o c
<1>7. Piece(y) /\ z = a \o y
  BY <1>5, <1>6, PieceConcat
<1> HIDE DEF y
<1> QED BY <1>7 DEF Joined

\* Pieces have an even number of bytes.
LEMMA PieceEven ==
    ASSUME NEW s, Piece(s)
    PROVE  Bytes(s) % 2 = 0
<1> DEFINE N == Len(s)
           o == Off(s)
           G == {k \in 0..N : o[k] % 2 = 0}
<1>1. /\ N \in Nat /\ o \in [0..N -> Nat] /\ o[0] = 0 /\ \A k \in 1..N : o[k] = o[k - 1] + s[k].len
      /\ \A k \in 1..N : s[k].len \in {2, 4}
      /\ Bytes(s) = o[N]
  BY PieceFacts
<1> HIDE DEF N, o
<1>2. 0 \in G
  BY <1>1
<1>3. ASSUME NEW k \in 1..N, k - 1 \in G PROVE k \in G
  <2>1. k - 1 \in 0..N /\ k \in 0..N
    BY <1>1
  <2>2. o[k - 1] \in Nat /\ o[k] = o[k - 1] + s[k].len /\ s[k].len \in {2, 4} /\ o[k - 1] % 2 = 0
    BY <1>1, <1>3, <2>1
  <2>3. o[k] % 2 = 0
    BY <2>2
  <2> QED BY <2>1, <2>3
<1> HIDE DEF G
<1>4. \A k \in 0..N : k \in G
  BY <1>1, <1>2, <1>3, UpTo
<1> QED BY <1>1, <1>4 DEF G

\* Pieces of words.
LEMMA PieceOfWords ==
    ASSUME NEW s, Piece(s), \A k \in 1..Len(s) : s[k].len = 4
    PROVE  (\A k \in 0..Len(s) : Off(s)[k] = 4 * k) /\ Bytes(s) = 4 * Len(s)
<1> DEFINE N == Len(s)
           o == Off(s)
           G == {k \in 0..N : o[k] = 4 * k}
<1>1. /\ N \in Nat /\ o \in [0..N -> Nat] /\ o[0] = 0 /\ \A k \in 1..N : o[k] = o[k - 1] + s[k].len
      /\ \A k \in 1..N : s[k].len = 4
      /\ Bytes(s) = o[N]
  BY PieceFacts
<1> HIDE DEF N, o
<1>2. 0 \in G
  BY <1>1
<1>3. ASSUME NEW k \in 1..N, k - 1 \in G PROVE k \in G
  <2>1. k - 1 \in 0..N /\ k \in 0..N
    BY <1>1
  <2>2. o[k] = o[k - 1] + 4 /\ o[k - 1] = 4 * (k - 1)
    BY <1>1, <1>3, <2>1
  <2>3. o[k] = 4 * k
    BY <2>1, <2>2
  <2> QED BY <2>1, <2>3
<1> HIDE DEF G
<1>4. \A k \in 0..N : k \in G
  BY <1>1, <1>2, <1>3, UpTo
<1> QED BY <1>1, <1>4 DEF G, N, o

\* Pieces of up to four items.
Sized(x) == x.len \in {2, 4}
LEMMA SmallPieces ==
    /\ \A a : Sized(a) => Piece(<<a>>)
    /\ \A a, b : Sized(a) /\ Sized(b) => Piece(<<a, b>>)
    /\ \A a, b, c : Sized(a) /\ Sized(b) /\ Sized(c) => Piece(<<a, b, c>>)
    /\ \A a, b, c, d : Sized(a) /\ Sized(b) /\ Sized(c) /\ Sized(d) => Piece(<<a, b, c, d>>)
<1>1. ASSUME NEW a, NEW b, NEW c, NEW d, NEW s, s \in Seq({a, b, c, d}),
             Sized(a), Sized(b), Sized(c), Sized(d)
      PROVE  Piece(s)
  <2> DEFINE S == {a, b, c, d}
  <2>1. s \in Seq(S) /\ \A x \in S : x.len \in {2, 4}
    BY <1>1 DEF Sized
  <2> HIDE DEF S
  <2> QED BY <2>1 DEF Piece
<1>2. \A a, b, c, d :
        /\ <<a>> \in Seq({a, a, a, a}) /\ <<a, b>> \in Seq({a, a, a, b})
        /\ <<a, b, c>> \in Seq({a, a, b, c}) /\ <<a, b, c, d>> \in Seq({a, b, c, d})
  OBVIOUS
<1>3. ASSUME NEW a, Sized(a) PROVE Piece(<<a>>)
  BY <1>1, <1>2, <1>3, Zenon
<1>4. ASSUME NEW a, NEW b, Sized(a), Sized(b) PROVE Piece(<<a, b>>)
  BY <1>1, <1>2, <1>4, Zenon
<1>5. ASSUME NEW a, NEW b, NEW c, Sized(a), Sized(b), Sized(c) PROVE Piece(<<a, b, c>>)
  BY <1>1, <1>2, <1>5, Zenon
<1>6. ASSUME NEW a, NEW b, NEW c, NEW d, Sized(a), Sized(b), Sized(c), Sized(d)
      PROVE  Piece(<<a, b, c, d>>)
  BY <1>1, <1>2, <1>6, Zenon
<1> QED BY <1>3, <1>4, <1>5, <1>6

-----------------------------------------------------------------------------
(* The copy of an instruction *)

LabelledAs(reg, l) == [op |-> "labelled", len |-> 4, reg |-> reg, label |-> l]

WithLabel == {"pc16", "mov16", "bxpc", "ldr16", "bcond16", "b16", "ldr", "adr"}

\* What an instruction that is relocated right becomes, if its label is the l-th.
Shape(i, pc, l) ==
    CASE i.op = "plain" -> <<Same(i)>>
      [] i.op \in {"pc16", "mov16"} -> <<LabelledAs("r12", l), UseR12(i)>>
      [] i.op \in {"bxpc", "b16"} -> <<LabelledAs("pc", l)>>
      [] i.op = "ldr" /\ i.reg = "pc" -> <<LabelledAs("r12", l), Deref("pc", "r12")>>
      [] i.op = "ldr16" \/ (i.op = "ldr" /\ i.reg # "pc") ->
           <<LabelledAs(i.reg, l), Deref(i.reg, i.reg)>>
      [] i.op = "adr" -> <<LabelledAs(i.reg, l)>>
      [] i.op = "bcond16" -> <<Branch(2, 4, FALSE, TRUE), Nop, Goto4(4), LabelledAs("pc", l)>>
      [] i.op = "b32" -> <<Literal("pc", 0), Word(pc + i.offset + 1)>>
      [] i.op = "bl" -> <<Branch(4, 4, TRUE, FALSE), Goto4(8), Literal("pc", 0), Word(pc + i.offset + 1)>>
      [] i.op = "blx" ->
           <<Branch(4, 4, TRUE, FALSE), Goto4(8), Literal("pc", 0), Word(Floor4(pc) + i.offset)>>
      [] i.op = "ldr32" ->
           <<Literal(i.reg, 4), Goto4(4), Word(Floor4(pc + i.offset)), Deref(i.reg, i.reg)>>

\* What its label points to.
Target(i, pc) ==
    CASE i.op \in {"pc16", "mov16"} -> [n |-> pc, branch |-> FALSE]
      [] i.op = "bxpc" -> [n |-> pc, branch |-> TRUE]
      [] i.op = "ldr16" -> [n |-> Floor4(pc + 4 * i.imm), branch |-> FALSE]
      [] i.op \in {"bcond16", "b16"} -> [n |-> pc + 2 * i.imm + 1, branch |-> TRUE]
      [] i.op = "ldr" -> [n |-> pc + i.offset, branch |-> FALSE]
      [] i.op = "adr" -> [n |-> pc + i.sign * (256 * i.rotate + i.imm), branch |-> FALSE]

Template(i, pc) == IF source.thumb THEN ThumbTemplate(i, pc) ELSE ArmTemplate(i, pc)

\* The instructions that are moved right become what Shape says.
LEMMA TemplateShape ==
    ASSUME NEW i, NEW pc \in Int, Instruction(source.thumb, i), Relocatable(i)
    PROVE  /\ Template(i, pc).items = Shape(i, pc, Len(labels) + 1)
           /\ Template(i, pc).label = IF i.op \in WithLabel THEN <<Target(i, pc)>> ELSE << >>
<1>1. CASE source.thumb
  <2>1. i.op \in ThumbKinds /\ i.op \notin {"ldr", "adr"}
    BY <1>1 DEF Instruction, ThumbKinds, ThumbConditional
  <2>2. i.op \in {"plain", "pc16", "mov16", "bxpc", "ldr16", "b32", "bl", "blx", "bcond16", "b16",
                  "ldr32"}
    BY <2>1 DEF Relocatable
  <2>3. CASE i.op = "bcond16"
    <3>1. i.imm \in Nat /\ i.imm < 16
      BY <2>3 DEF Relocatable, Instruction
    <3>2. 2 * Signed8(16 * (i.imm \div 16) + 2) = 4
      BY <3>1 DEF Signed8
    <3>4. Template(i, pc).items = <<Branch(2, 4, FALSE, TRUE), Nop, Goto4(4), Labelled("pc")>>
      BY <1>1, <2>3, <3>2 DEF Template, ThumbTemplate, ThumbBranchIf, ItemsWith
    <3>5. Template(i, pc).label = <<[n |-> pc + 2 * i.imm + 1, branch |-> TRUE]>>
      BY <1>1, <2>3 DEF Template, ThumbTemplate, ThumbBranchIf, ItemsWith
    <3>6. Shape(i, pc, Len(labels) + 1) = <<Branch(2, 4, FALSE, TRUE), Nop, Goto4(4), Labelled("pc")>>
      BY <2>3 DEF Shape, Labelled, LabelledAs
    <3> QED BY <2>3, <3>4, <3>5, <3>6 DEF Target, WithLabel
  <2>4. CASE i.op # "bcond16"
    BY <1>1, <2>2, <2>4
       DEF Template, ThumbTemplate, LinkTo, Items, ItemsWith, Shape, Target, WithLabel, Labelled,
           LabelledAs
  <2> QED BY <2>3, <2>4
<1>2. CASE ~source.thumb
  <2>1. i.op \in {"plain", "ldr", "adr"}
    BY <1>2 DEF Instruction, ArmKinds, Relocatable
  <2> QED BY <1>2, <2>1
          DEF Template, ArmTemplate, Items, ItemsWith, Shape, Target, WithLabel, Labelled, LabelledAs
<1> QED BY <1>1, <1>2

\* Whatever an instruction becomes is a piece, of words in ARM code, with a
\* label or with none.
LEMMA TemplatePiece ==
    ASSUME NEW i, NEW pc, Instruction(source.thumb, i)
    PROVE  /\ Piece(Template(i, pc).items)
           /\ ~source.thumb => \A k \in 1..Len(Template(i, pc).items) : Template(i, pc).items[k].len = 4
           /\ \/ Template(i, pc).label = << >>
              \/ \E x : Template(i, pc).label = <<x>>
<1>0. /\ Sized(Nop) /\ Sized(UseR12(i)) /\ (Sized(i) => Sized(Same(i)))
      /\ \A n : Sized(Word(n)) /\ Sized(Goto4(n))
      /\ \A reg, n : Sized(Literal(reg, n)) /\ Sized(Labelled(reg)) /\ Sized(Deref(reg, n))
  BY DEF Sized, Nop, UseR12, Same, Word, Goto4, Branch, Literal, Labelled, Deref
<1>00. \A n : /\ Sized(Branch(2, n, FALSE, TRUE)) /\ Sized(Branch(4, n, FALSE, TRUE))
              /\ Sized(Branch(4, n, TRUE, FALSE)) /\ Sized(Branch(4, n, i.link, i.cond))
  BY DEF Sized, Branch
<1>1. CASE source.thumb
  <2> DEFINE to == ThumbTemplate(i, pc)
  <2>1. i.op \in ThumbKinds /\ Sized(i)
    BY <1>1 DEF Instruction, Sized
  <2>2. /\ Piece(<<Labelled("r12"), UseR12(i)>>) /\ Piece(<<Labelled("pc")>>) /\ Piece(<<Labelled(i.reg)>>)
        /\ Piece(<<Labelled(i.reg), Deref(i.reg, i.reg)>>)
        /\ Piece(<<Same(i)>>)
    BY <1>0, <2>1, SmallPieces
  <2>3. \A n : /\ Piece(<<Branch(2, n, FALSE, TRUE), Nop, Goto4(4), Labelled("pc")>>)
               /\ Piece(<<Branch(2, n, FALSE, TRUE), Nop, Goto4(0), Labelled("pc")>>)
    BY <1>0, <1>00, SmallPieces, Zenon
  <2>4. \A m, n : /\ Piece(<<Branch(4, m, FALSE, TRUE), Goto4(4), Literal("pc", 0), Word(n)>>)
                  /\ Piece(<<Branch(4, m, TRUE, FALSE), Goto4(8), Literal("pc", 0), Word(n)>>)
    BY <1>0, <1>00, SmallPieces, Zenon
  <2>5. \A n : /\ Piece(<<Literal("pc", 0), Word(n)>>)
               /\ Piece(<<Literal(i.reg, 4), Goto4(0), Word(n)>>)
               /\ Piece(<<Literal(i.reg, 4), Goto4(4), Word(n), Deref(i.reg, i.reg)>>)
    BY <1>0, SmallPieces, Zenon
  <2>6. Piece(to.items) /\ (to.label = << >> \/ \E x : to.label = <<x>>)
    <3>1. CASE i.op \in {"plain", "it", "pcrel", "pc16", "mov16", "bxpc", "ldr16", "adr16", "b16"}
      BY <2>2, <3>1 DEF ThumbTemplate, Items, ItemsWith
    <3>2. CASE i.op \in {"b32", "bl", "blx", "adr32", "ldr32"}
      BY <2>4, <2>5, <3>2 DEF ThumbTemplate, Items, LinkTo
    <3>3. CASE i.op \in ThumbConditional
      BY <2>3, <2>4, <3>3 DEF ThumbTemplate, ThumbConditional, ThumbBranchIf, CompareBranch,
                              ThumbBranchIf32, Items, ItemsWith
    <3> QED BY <2>1, <3>1, <3>2, <3>3 DEF ThumbKinds
  <2>7. Template(i, pc) = to
    BY <1>1 DEF Template
  <2> HIDE DEF to
  <2> QED BY <1>1, <2>6, <2>7
<1>2. CASE ~source.thumb
  <2> DEFINE to == ArmTemplate(i, pc)
  <2>1. i.op \in ArmKinds /\ i.len = 4
    BY <1>2 DEF Instruction
  <2>2. /\ Piece(<<Labelled("r12"), Deref("pc", "r12")>>) /\ Piece(<<Labelled(i.reg), Deref(i.reg, i.reg)>>)
        /\ Piece(<<Labelled(i.reg)>>)
        /\ \A n : Piece(<<Branch(4, 4, i.link, i.cond), Goto4(4), Literal("pc", -4), Word(n)>>)
    BY <1>0, <1>00, SmallPieces, Zenon
  <2>3. Piece(<<Same(i)>>)
    <3>1. Sized(i)
      BY <2>1 DEF Sized
    <3> QED BY <1>0, <3>1, SmallPieces
  <2>4. Piece(to.items) /\ (to.label = << >> \/ \E x : to.label = <<x>>)
    BY <2>1, <2>2, <2>3 DEF ArmTemplate, ArmKinds, ArmBranch, Items, ItemsWith
  <2>5. \A k \in 1..Len(to.items) : to.items[k].len = 4
    BY <2>1 DEF ArmTemplate, ArmKinds, ArmBranch, Items, ItemsWith, Same, Word, Branch, Goto4,
                Literal, Labelled, Deref
  <2>6. Template(i, pc) = to
    BY <1>2 DEF Template
  <2> HIDE DEF to
  <2> QED BY <1>2, <2>4, <2>5, <2>6
<1> QED BY <1>1, <1>2

\* A copied it instruction.
IsIt(x) == x.op = "same" /\ x.insn.op = "it"

\* Items without one.
NoIt(s) == Len(s) >= 1 /\ \A k \in 1..Len(s) : ~IsIt(s[k])

Other(x) == x.op # "same"
LEMMA SmallNoIt ==
    /\ \A a : Other(a) => NoIt(<<a>>)
    /\ \A a, b : Other(a) /\ Other(b) => NoIt(<<a, b>>)
    /\ \A a, b, c : Other(a) /\ Other(b) /\ Other(c) => NoIt(<<a, b, c>>)
    /\ \A a, b, c, d : Other(a) /\ Other(b) /\ Other(c) /\ Other(d) => NoIt(<<a, b, c, d>>)
<1>1. \A x : Other(x) => ~IsIt(x)
  BY DEF Other, IsIt
<1>2. ASSUME NEW a, Other(a) PROVE NoIt(<<a>>)
  BY <1>1, <1>2 DEF NoIt
<1>3. ASSUME NEW a, NEW b, Other(a), Other(b) PROVE NoIt(<<a, b>>)
  BY <1>1, <1>3 DEF NoIt
<1>4. ASSUME NEW a, NEW b, NEW c, Other(a), Other(b), Other(c) PROVE NoIt(<<a, b, c>>)
  BY <1>1, <1>4 DEF NoIt
<1>5. ASSUME NEW a, NEW b, NEW c, NEW d, Other(a), Other(b), Other(c), Other(d)
      PROVE  NoIt(<<a, b, c, d>>)
  BY <1>1, <1>5 DEF NoIt
<1> QED BY <1>2, <1>3, <1>4, <1>5

\* It is all that becomes of an it instruction.
LEMMA TemplateIt ==
    ASSUME NEW i, NEW pc, Instruction(source.thumb, i)
    PROVE  /\ Len(Template(i, pc).items) >= 1
           /\ \A k \in 1..Len(Template(i, pc).items) :
                IsIt(Template(i, pc).items[k])
                    => k = Len(Template(i, pc).items) /\ Template(i, pc).items[k].insn = i
<1> DEFINE q == Template(i, pc).items
<1>1. /\ Other(Nop) /\ Other(UseR12(i))
      /\ \A n : Other(Word(n)) /\ Other(Goto4(n))
      /\ \A reg, n : Other(Literal(reg, n)) /\ Other(Labelled(reg)) /\ Other(Deref(reg, n))
  BY DEF Other, Nop, UseR12, Word, Goto4, Branch, Literal, Labelled, Deref
<1>2. \A n : /\ Other(Branch(2, n, FALSE, TRUE)) /\ Other(Branch(4, n, FALSE, TRUE))
             /\ Other(Branch(4, n, TRUE, FALSE)) /\ Other(Branch(4, n, i.link, i.cond))
  BY DEF Other, Branch
<1>3. q = <<Same(i)>> \/ NoIt(q)
  <2>1. CASE source.thumb
    <3> DEFINE to == ThumbTemplate(i, pc)
    <3>1. i.op \in ThumbKinds
      BY <2>1 DEF Instruction
    <3>2. /\ NoIt(<<Labelled("r12"), UseR12(i)>>) /\ NoIt(<<Labelled("pc")>>)
          /\ NoIt(<<Labelled(i.reg)>>) /\ NoIt(<<Labelled(i.reg), Deref(i.reg, i.reg)>>)
      BY <1>1, SmallNoIt
    <3>3. \A n : /\ NoIt(<<Branch(2, n, FALSE, TRUE), Nop, Goto4(4), Labelled("pc")>>)
                 /\ NoIt(<<Branch(2, n, FALSE, TRUE), Nop, Goto4(0), Labelled("pc")>>)
      BY <1>1, <1>2, SmallNoIt, Zenon
    <3>4. \A m, n : /\ NoIt(<<Branch(4, m, FALSE, TRUE), Goto4(4), Literal("pc", 0), Word(n)>>)
                    /\ NoIt(<<Branch(4, m, TRUE, FALSE), Goto4(8), Literal("pc", 0), Word(n)>>)
      BY <1>1, <1>2, SmallNoIt, Zenon
    <3>5. \A n : /\ NoIt(<<Literal("pc", 0), Word(n)>>)
                 /\ NoIt(<<Literal(i.reg, 4), Goto4(0), Word(n)>>)
                 /\ NoIt(<<Literal(i.reg, 4), Goto4(4), Word(n), Deref(i.reg, i.reg)>>)
      BY <1>1, SmallNoIt, Zenon
    <3>6. to.items = <<Same(i)>> \/ NoIt(to.items)
      <4>1. CASE i.op \in {"plain", "it", "pcrel"}
        BY <4>1 DEF ThumbTemplate, Items
      <4>2. CASE i.op \in {"pc16", "mov16", "bxpc", "ldr16", "adr16", "b16"}
        BY <3>2, <4>2 DEF ThumbTemplate, ItemsWith
      <4>3. CASE i.op \in {"b32", "bl", "blx", "adr32", "ldr32"}
        BY <3>4, <3>5, <4>3 DEF ThumbTemplate, Items, LinkTo
      <4>4. CASE i.op \in ThumbConditional
        BY <3>3, <3>4, <4>4 DEF ThumbTemplate, ThumbConditional, ThumbBranchIf, CompareBranch,
                                ThumbBranchIf32, Items, ItemsWith
      <4> QED BY <3>1, <4>1, <4>2, <4>3, <4>4 DEF ThumbKinds
    <3>7. q = to.items
      BY <2>1 DEF Template
    <3> HIDE DEF to, q
    <3> QED BY <3>6, <3>7
  <2>2. CASE ~source.thumb
    <3> DEFINE to == ArmTemplate(i, pc)
    <3>1. i.op \in ArmKinds
      BY <2>2 DEF Instruction
    <3>2. /\ NoIt(<<Labelled("r12"), Deref("pc", "r12")>>)
          /\ NoIt(<<Labelled(i.reg), Deref(i.reg, i.reg)>>) /\ NoIt(<<Labelled(i.reg)>>)
          /\ \A n : NoIt(<<Branch(4, 4, i.link, i.cond), Goto4(4), Literal("pc", -4), Word(n)>>)
      BY <1>1, <1>2, SmallNoIt, Zenon
    <3>3. to.items = <<Same(i)>> \/ NoIt(to.items)
      BY <3>1, <3>2 DEF ArmTemplate, ArmKinds, ArmBranch, Items, ItemsWith
    <3>4. q = to.items
      BY <2>2 DEF Template
    <3> HIDE DEF to, q
    <3> QED BY <3>3, <3>4
  <2> QED BY <2>1, <2>2
<1> HIDE DEF q
<1>4. CASE NoIt(q)
  BY <1>4 DEF NoIt, q
<1>5. CASE q = <<Same(i)>>
  <2>1. Same(i).insn = i
    BY DEF Same
  <2>2. Len(q) = 1 /\ q[1] = Same(i) /\ \A k \in 1..1 : k = 1
    BY <1>5
  <2>3. Len(q) >= 1 /\ \A k \in 1..Len(q) : k = Len(q) /\ q[k].insn = i
    BY <2>1, <2>2
  <2> QED BY <2>3 DEF q
<1> QED BY <1>3, <1>4, <1>5

-----------------------------------------------------------------------------
(* Where the copies lie *)

\* The piece q lies in c behind the first k items, on a word boundary, and ends
\* at e; who enters at b runs over at most two nops.
LiesAt(c, k, b, e, q) ==
    /\ k \in Nat /\ Len(q) \in Nat /\ k + Len(q) <= Len(c)
    /\ Off(c)[k] % 4 = 0
    /\ \/ Off(c)[k] = b
       \/ k >= 1 /\ c[k] = Nop /\ Off(c)[k] = b + 2
       \/ k >= 2 /\ c[k] = Nop /\ c[k - 1] = Nop /\ Off(c)[k] = b + 4
    /\ \A j \in 1..Len(q) : c[k + j] = q[j]
    /\ Off(c)[k + Len(q)] = e

\* What is written behind it does not move it.
LEMMA LiesStill ==
    ASSUME NEW c, NEW d, NEW k, NEW b, NEW e, NEW q, Piece(c), Piece(d), LiesAt(c, k, b, e, q)
    PROVE  LiesAt(c \o d, k, b, e, q)
<1> DEFINE z == c \o d
           m == Len(q)
           N == Len(c)
<1>1. /\ Len(z) = N + Len(d) /\ \A i \in 1..N : z[i] = c[i]
      /\ \A i \in 0..N : Off(z)[i] = Off(c)[i]
  BY PieceConcat
<1>2. N \in Nat /\ Len(d) \in Nat
  BY PieceFacts
<1> HIDE DEF z, m, N
<1>3. /\ k \in Nat /\ m \in Nat /\ k + m <= N /\ Off(c)[k] % 4 = 0
      /\ \/ Off(c)[k] = b
         \/ k >= 1 /\ c[k] = Nop /\ Off(c)[k] = b + 2
         \/ k >= 2 /\ c[k] = Nop /\ c[k - 1] = Nop /\ Off(c)[k] = b + 4
      /\ \A j \in 1..m : c[k + j] = q[j]
      /\ Off(c)[k + m] = e
  BY DEF LiesAt, m, N
<1>4. /\ k \in 0..N /\ k + m \in 0..N /\ k + m <= Len(z)
      /\ k >= 1 => k \in 1..N
      /\ k >= 2 => k - 1 \in 1..N
      /\ \A j \in 1..m : k + j \in 1..N
  BY <1>1, <1>2, <1>3
<1>5. Off(z)[k] = Off(c)[k] /\ Off(z)[k + m] = e
  BY <1>1, <1>3, <1>4
<1>6. \A j \in 1..m : z[k + j] = q[j]
  BY <1>1, <1>3, <1>4
<1>7. \/ Off(z)[k] = b
      \/ k >= 1 /\ z[k] = Nop /\ Off(z)[k] = b + 2
      \/ k >= 2 /\ z[k] = Nop /\ z[k - 1] = Nop /\ Off(z)[k] = b + 4
  BY <1>1, <1>3, <1>4, <1>5
<1>8. k \in Nat /\ m \in Nat /\ k + m <= Len(z) /\ Off(z)[k] % 4 = 0
  BY <1>3, <1>4, <1>5
<1> QED BY <1>5, <1>6, <1>7, <1>8 DEF LiesAt, z, m

\* c with at most two nops behind it.
Room(c, r) == r \in {c, Append(c, Nop), Append(Append(c, Nop), Nop)}

\* What is behind it is nops.
LEMMA RoomItems ==
    ASSUME NEW c, Piece(c), NEW r, Room(c, r)
    PROVE  /\ Len(r) \in Nat /\ Len(c) \in Nat /\ Len(r) >= Len(c)
           /\ r \in {Append(c, Nop), Append(Append(c, Nop), Nop)} => Len(r) >= Len(c) + 1
           /\ \A k \in 1..Len(c) : r[k] = c[k]
           /\ \A k \in Len(c) + 1..Len(r) : r[k] = Nop
<1> DEFINE d == Append(c, Nop)
           e == Append(d, Nop)
<1>1. Nop.len \in {2, 4} /\ Len(c) \in Nat
  BY PieceFacts DEF Nop
<1>2. /\ Piece(d) /\ Len(d) = Len(c) + 1 /\ d[Len(c) + 1] = Nop
      /\ \A k \in 1..Len(c) : d[k] = c[k]
  BY <1>1, PieceAppend
<1> HIDE DEF d
<1>3. /\ Len(e) = Len(d) + 1 /\ e[Len(d) + 1] = Nop
      /\ \A k \in 1..Len(d) : e[k] = d[k]
  BY <1>1, <1>2, PieceAppend
<1> HIDE DEF e
<1>4. r \in {c, d, e} /\ (r \in {Append(c, Nop), Append(Append(c, Nop), Nop)} <=> r \in {d, e})
  BY DEF Room, d, e
<1>5. CASE r = c /\ r \notin {d, e}
  BY <1>1, <1>4, <1>5
<1>6. CASE r = d
  <2>1. Len(r) = Len(c) + 1 /\ \A k \in Len(c) + 1..Len(r) : k = Len(c) + 1
    BY <1>1, <1>2, <1>6
  <2> QED BY <1>1, <1>2, <1>4, <1>6, <2>1
<1>7. CASE r = e
  <2>1. Len(r) = Len(c) + 2 /\ \A k \in Len(c) + 1..Len(r) : k = Len(c) + 1 \/ k = Len(d) + 1
    BY <1>1, <1>2, <1>3, <1>7
  <2>2. Len(c) + 1 \in 1..Len(d) /\ \A k \in 1..Len(c) : k \in 1..Len(d)
    BY <1>1, <1>2
  <2> QED BY <1>1, <1>2, <1>3, <1>4, <1>7, <2>1, <2>2
<1> QED BY <1>4, <1>5, <1>6, <1>7

\* A nop is added where one is missing.
LEMMA AlignedBytes ==
    ASSUME NEW c, Piece(c)
    PROVE  Bytes(AlignThumbNop(c)) % 4 = 0 /\ AlignThumbNop(c) \in {c, Append(c, Nop)}
<1> DEFINE b == Bytes(c)
           d == Append(c, Nop)
<1>1. b \in Nat /\ b % 2 = 0
  BY PieceFacts, PieceEven
<1>2. Bytes(d) = b + 2
  <2>1. Nop.len = 2
    BY DEF Nop
  <2> QED BY <2>1, PieceAppend
<1>3. AlignThumbNop(c) = IF b % 4 # 0 THEN d ELSE c
  BY DEF AlignThumbNop
<1> HIDE DEF b, d
<1>4. b % 4 # 0 => (b + 2) % 4 = 0
  BY <1>1
<1>5. CASE b % 4 # 0
  <2>1. AlignThumbNop(c) = d
    BY <1>3, <1>5
  <2> QED BY <1>2, <1>4, <1>5, <2>1 DEF d
<1>6. CASE b % 4 = 0
  <2>1. AlignThumbNop(c) = c
    BY <1>3, <1>6
  <2> QED BY <1>6, <2>1 DEF b
<1> QED BY <1>5, <1>6

\* A piece that is written behind the nops lies there.
LEMMA LiesNew ==
    ASSUME NEW c, NEW r, NEW q, Piece(c), Piece(q), Room(c, r), Bytes(r) % 4 = 0,
           NEW z, Joined(z, r, q)
    PROVE  /\ Piece(r) /\ Piece(z) /\ Bytes(z) = Bytes(r) + Bytes(q)
           /\ LiesAt(z, Len(r), Bytes(c), Bytes(z), q)
           /\ \E d : Piece(d) /\ Joined(z, c, d)
<1>0. Nop.len \in {2, 4} /\ Nop.len = 2 /\ z = r \o q
  BY DEF Nop, Joined
<1> DEFINE c1 == Append(c, Nop)
           c2 == Append(c1, Nop)
           N == Len(c)
<1>1. N \in Nat /\ Bytes(c) \in Nat
  BY PieceFacts
<1>2. /\ Piece(c1) /\ Len(c1) = N + 1 /\ c1[N + 1] = Nop /\ Bytes(c1) = Bytes(c) + 2
  BY <1>0, PieceAppend
<1> HIDE DEF c1
<1>3. /\ Piece(c2) /\ Len(c2) = Len(c1) + 1 /\ c2[Len(c1) + 1] = Nop /\ Bytes(c2) = Bytes(c1) + 2
      /\ \A i \in 1..Len(c1) : c2[i] = c1[i]
  BY <1>0, <1>2, PieceAppend
<1> HIDE DEF c2, N
<1>4. r \in {c, c1, c2}
  BY DEF Room, c1, c2
<1>5. Piece(r)
  BY <1>2, <1>3, <1>4
<1> DEFINE k == Len(r)
           m == Len(q)
<1>6. /\ Piece(z) /\ Len(z) = k + m /\ (\A i \in 1..k : z[i] = r[i])
      /\ \A i \in 1..m : z[k + i] = q[i]
  BY <1>0, <1>5, PieceConcat
<1>7. /\ \A i \in 0..k : Off(z)[i] = Off(r)[i]
      /\ \A i \in 0..m : Off(z)[k + i] = Bytes(r) + Off(q)[i]
      /\ Bytes(z) = Bytes(r) + Bytes(q)
  BY <1>0, <1>5, PieceConcat
<1>8. k \in Nat /\ Bytes(r) = Off(r)[k] /\ m \in Nat /\ Bytes(q) = Off(q)[m]
  BY <1>5, PieceFacts
<1> HIDE DEF k, m
<1>9. Off(z)[k] = Bytes(r) /\ Off(z)[k + m] = Bytes(z)
  <2>1. k \in 0..k /\ m \in 0..m
    BY <1>8
  <2> QED BY <1>7, <1>8, <2>1
<1>10. \/ Off(z)[k] = Bytes(c)
       \/ k >= 1 /\ z[k] = Nop /\ Off(z)[k] = Bytes(c) + 2
       \/ k >= 2 /\ z[k] = Nop /\ z[k - 1] = Nop /\ Off(z)[k] = Bytes(c) + 4
  <2>1. CASE r = c
    BY <1>9, <2>1
  <2>2. CASE r = c1
    <3>1. k = N + 1 /\ r[k] = Nop /\ Bytes(r) = Bytes(c) + 2
      BY <1>2, <2>2 DEF k
    <3>2. k \in 1..k /\ k >= 1
      BY <1>1, <3>1
    <3> QED BY <1>6, <1>9, <3>1, <3>2
  <2>3. CASE r = c2
    <3>1. k = N + 2 /\ r[k] = Nop /\ r[k - 1] = Nop /\ Bytes(r) = Bytes(c) + 4
      <4>1. k = Len(c1) + 1 /\ Len(c1) = N + 1
        BY <1>2, <1>3, <2>3 DEF k
      <4>2. N + 1 \in 1..Len(c1)
        BY <1>1, <4>1
      <4>3. k - 1 = N + 1 /\ k = N + 2
        BY <1>1, <4>1
      <4>4. r[k] = Nop /\ r[k - 1] = Nop
        BY <1>2, <1>3, <2>3, <4>1, <4>2, <4>3
      <4> QED BY <1>1, <1>2, <1>3, <2>3, <4>3, <4>4
    <3>2. k \in 1..k /\ k - 1 \in 1..k /\ k >= 2
      BY <1>1, <3>1
    <3> QED BY <1>6, <1>9, <3>1, <3>2
  <2> QED BY <1>4, <2>1, <2>2, <2>3
<1>11. LiesAt(z, k, Bytes(c), Bytes(z), q)
  <2>1. k + m <= Len(z)
    BY <1>6, <1>8
  <2> QED BY <1>6, <1>8, <1>9, <1>10, <2>1 DEF LiesAt, m
<1>12. \E d : Piece(d) /\ Joined(z, c, d)
  <2> DEFINE one == <<Nop>>
  <2>1. Piece(one)
    BY <1>0, PieceOne
  <2>2. ASSUME NEW a, Piece(a) PROVE Joined(Append(a, Nop), a, one)
    <3>1. PICK S : a \in Seq(S)
      BY <2>2 DEF Piece
    <3>2. a \in Seq(S \cup {Nop}) /\ Nop \in S \cup {Nop}
      BY <3>1
    <3> QED BY <3>2, AppendIsConcat DEF Joined
  <2>3. Joined(c1, c, one) /\ Joined(c2, c1, one)
    BY <1>2, <2>2 DEF c1, c2
  <2> HIDE DEF one
  <2>4. CASE r = c
    BY <2>4
  <2>5. CASE r = c1
    BY <2>1, <2>3, <2>5, JoinedTwice
  <2>6. CASE r = c2
    <3>1. PICK d : Piece(d) /\ Joined(z, c1, d)
      BY <1>2, <2>1, <2>3, <2>6, JoinedTwice
    <3> QED BY <2>1, <2>3, <3>1, JoinedTwice
  <2> QED BY <1>4, <2>4, <2>5, <2>6
<1> QED BY <1>5, <1>6, <1>7, <1>11, <1>12 DEF k

-----------------------------------------------------------------------------
(* The inductive invariant *)

Listed(x) == \E S : x \in Seq(S)

NextStart(n) == IF n < Len(starts) THEN starts[n + 1] ELSE Bytes(copy)

\* The copy of instruction n.
CopyOf(n) ==
    \E k, l :
        /\ LiesAt(copy, k, starts[n], NextStart(n), Shape(source.insns[n], Pc(OrigAt(n)), l))
        /\ source.insns[n].op \in WithLabel =>
             l \in 1..Len(labels) /\ labels[l] = Target(source.insns[n], Pc(OrigAt(n)))

\* A copied it instruction, and two items for every instruction behind it.
Spaced ==
    \A j \in 1..Len(copy) : IsIt(copy[j]) =>
        \E m \in 1..moved : copy[j].insn = source.insns[m] /\ Len(copy) - j >= 2 * (moved - m)

\* No item of copy n takes a slot of an it instruction.
Clear(n) ==
    \A k \in 1..Len(copy) :
        starts[n] <= Off(copy)[k - 1] /\ Off(copy)[k - 1] < NextStart(n) => ~InSlot(k)

\* What has been moved lies in the buffer.
Moved ==
    /\ source \in Sources /\ moved \in 0..Len(source.insns)
    /\ stage \in {"relocating", "copied", "running", "ran"}
    /\ Piece(copy) /\ Listed(labels) /\ starts \in Seq(Nat)
    /\ Len(starts) = moved + (IF stage = "relocating" THEN 0 ELSE 1)
    /\ stage = "relocating" /\ ~source.thumb => Bytes(copy) % 4 = 0
    /\ stage = "relocating" => Spaced
    /\ \A n \in 1..Len(starts) : starts[n] <= Bytes(copy) /\ (~InBlock(n) => Clear(n))
    /\ \A n \in 1..moved : Relocatable(source.insns[n]) => CopyOf(n)

\* The jump to the first instruction that was not moved.
ToRest == <<Literal("pc", IF source.thumb THEN 0 ELSE -4),
            Word(OrigAt(moved + 1) + FlagOf(source.thumb))>>

\* The fix-up changes what the label points to.
Fixed(label) ==
    /\ source.thumb => label.branch
    /\ label.n \in source.start..source.start + TrampolineSize - 1

\* The jump and the words of the labels follow.
Finished ==
    /\ \E k, e : LiesAt(copy, k, starts[moved + 1], e, ToRest)
    /\ \A l \in 1..Len(labels) : \E j \in 1..Len(copy) : \E m :
         /\ Off(copy)[j - 1] = LabelAt(l) /\ copy[j] = Word(m)
         /\ ~Fixed(labels[l]) => m = labels[l].n

-----------------------------------------------------------------------------

\* The instructions of a function are a piece.
LEMMA SourcePiece ==
    ASSUME source \in Sources PROVE Piece(source.insns)
<1> DEFINE s == source.insns
<1>1. s \in Seq(ToSet(s)) /\ \A n \in DOMAIN s : Instruction(source.thumb, s[n])
  BY ArmRelocationAssumption
<1> HIDE DEF s
<1>2. \A n \in DOMAIN s : s[n].len \in {2, 4}
  BY <1>1 DEF Instruction
<1>3. \A x \in ToSet(s) : x.len \in {2, 4}
  BY <1>2 DEF ToSet
<1>4. Piece(s)
  BY <1>1, <1>3 DEF Piece
<1> QED BY <1>4 DEF s

\* Where the instructions of a function lie.
LEMMA OrigFacts ==
    ASSUME source \in Sources
    PROVE  /\ source.thumb \in BOOLEAN /\ source.start \in Nat
           /\ Len(source.insns) \in Nat /\ DOMAIN source.insns = 1..Len(source.insns)
           /\ \A n \in 1..Len(source.insns) : Instruction(source.thumb, source.insns[n])
           /\ Bytes(source.insns) >= TrampolineSize
           /\ OrigAt(Len(source.insns) + 1) = source.start + Bytes(source.insns)
           /\ \A n \in 1..Len(source.insns) + 1 :
                /\ OrigAt(n) \in Nat
                /\ ~source.thumb => OrigAt(n) % 4 = 0
<1> DEFINE s == source.insns
           N == Len(s)
<1>1. /\ source.thumb \in BOOLEAN /\ source.start \in Nat
      /\ source.start % (IF source.thumb THEN 2 ELSE 4) = 0
      /\ s \in Seq(ToSet(s)) /\ (\A n \in DOMAIN s : Instruction(source.thumb, s[n]))
      /\ Bytes(s) >= (IF source.thumb THEN 10 ELSE 8)
  BY ArmRelocationAssumption
<1>2. N \in Nat /\ DOMAIN s = 1..N
  BY <1>1
<1> HIDE DEF s
<1>4. Piece(s)
  BY SourcePiece DEF s
<1>5. /\ Off(s) \in [0..N -> Nat] /\ Off(s)[0] = 0 /\ Bytes(s) = Off(s)[N] /\ Bytes(s) \in Nat
      /\ \A k \in 1..N : Off(s)[k] = Off(s)[k - 1] + s[k].len
  BY <1>4, PieceFacts
<1> HIDE DEF N
<1>6. ASSUME NEW n \in 1..N + 1 PROVE n - 1 \in 0..N /\ OrigAt(n) = source.start + Off(s)[n - 1]
  <2>1. n - 1 \in 0..N
    BY <1>2
  <2>2. Bytes(SubSeq(s, 1, n - 1)) = Off(s)[n - 1]
    BY <1>4, <2>1, PrefixBytesOf DEF N
  <2> QED BY <2>1, <2>2 DEF OrigAt, s
<1>7. ASSUME NEW n \in 1..N + 1 PROVE OrigAt(n) \in Nat
  BY <1>1, <1>5, <1>6
<1>8. OrigAt(N + 1) = source.start + Bytes(s)
  <2>1. N + 1 \in 1..N + 1 /\ (N + 1) - 1 = N
    BY <1>2
  <2> QED BY <1>5, <1>6, <2>1
<1>9. ASSUME ~source.thumb, NEW n \in 1..N + 1 PROVE OrigAt(n) % 4 = 0
  <2>1. \A k \in 1..N : s[k].len = 4
    BY <1>1, <1>2, <1>9 DEF Instruction
  <2>2. \A k \in 0..N : Off(s)[k] = 4 * k
    BY <1>4, <2>1, PieceOfWords DEF N
  <2>3. OrigAt(n) = source.start + 4 * (n - 1) /\ source.start % 4 = 0
    BY <1>1, <1>6, <1>9, <2>2
  <2> QED BY <1>1, <1>2, <2>3
<1>10. Bytes(s) >= TrampolineSize
  BY <1>1, <1>5 DEF TrampolineSize
<1>11. \A n \in 1..N : Instruction(source.thumb, s[n])
  BY <1>1, <1>2
<1> QED BY <1>1, <1>2, <1>7, <1>8, <1>9, <1>10, <1>11 DEF s, N

\* The pc of an instruction.
LEMMA PcNat ==
    ASSUME source \in Sources, NEW n \in 1..Len(source.insns) + 1
    PROVE  Pc(OrigAt(n)) \in Nat
<1>1. OrigAt(n) \in Nat
  BY OrigFacts
<1> QED BY <1>1 DEF Pc

\* While bytes are missing there is an instruction to move.
LEMMA InstructionLeft ==
    ASSUME Moved, ~Done
    PROVE  moved + 1 \in 1..Len(source.insns)
<1>1. moved \in 0..Len(source.insns) /\ source \in Sources
  BY DEF Moved
<1>2. Len(source.insns) \in Nat /\ source.start \in Nat /\ Bytes(source.insns) >= TrampolineSize
  BY <1>1, OrigFacts
<1>3. OrigAt(Len(source.insns) + 1) = source.start + Bytes(source.insns)
  BY <1>1, OrigFacts
<1>4. OrigAt(Len(source.insns) + 1) \in Nat
  BY <1>1, <1>2, OrigFacts
<1>5. moved # Len(source.insns)
  <2> SUFFICES ASSUME moved = Len(source.insns) PROVE FALSE
    OBVIOUS
  <2>1. ~(OrigAt(Len(source.insns) + 1) >= source.start + TrampolineSize)
    BY DEF Done
  <2>2. TrampolineSize \in Nat
    BY DEF TrampolineSize
  <2>3. Bytes(source.insns) \in Int
    BY <1>1, SourcePiece, PieceFacts
  <2> QED BY <1>2, <1>3, <2>1, <2>2, <2>3
<1> QED BY <1>1, <1>2, <1>5

\* The labels with one more or with no more.
LEMMA LabelsAdded ==
    ASSUME Listed(labels), NEW q, q = << >> \/ \E x : q = <<x>>
    PROVE  /\ Listed(labels \o q) /\ Len(labels) \in Nat /\ Len(labels \o q) >= Len(labels)
           /\ \A l \in 1..Len(labels) : (labels \o q)[l] = labels[l]
           /\ \A x : q = <<x>> => /\ Len(labels \o q) = Len(labels) + 1
                                  /\ (labels \o q)[Len(labels) + 1] = x
<1>1. PICK S : labels \in Seq(S)
  BY DEF Listed
<1>2. CASE q = << >>
  <2>1. labels \o q = labels
    BY <1>1, <1>2
  <2>2. \A x : q # <<x>>
    BY <1>2
  <2> QED BY <1>1, <2>1, <2>2
<1>3. ASSUME NEW x, q = <<x>>
      PROVE  /\ Listed(labels \o q) /\ Len(labels) \in Nat /\ Len(labels \o q) = Len(labels) + 1
             /\ \A l \in 1..Len(labels) : (labels \o q)[l] = labels[l]
             /\ (labels \o q)[Len(labels) + 1] = x
  <2> DEFINE T == S \cup {x}
             z == Append(labels, x)
  <2>1. labels \in Seq(T) /\ x \in T
    BY <1>1
  <2> HIDE DEF T
  <2>2. labels \o q = z
    BY <1>3, <2>1, AppendIsConcat
  <2>3. /\ z \in Seq(T) /\ Len(z) = Len(labels) + 1 /\ Len(labels) \in Nat
        /\ (\A l \in 1..Len(labels) : z[l] = labels[l]) /\ z[Len(labels) + 1] = x
    BY <2>1, AppendProperties
  <2> HIDE DEF z
  <2>4. Listed(z)
    BY <2>3 DEF Listed
  <2> QED BY <2>2, <2>3, <2>4
<1>4. \A x, y : q = <<x>> /\ q = <<y>> => x = y
  OBVIOUS
<1>5. CASE \E x : q = <<x>>
  <2>1. PICK x : q = <<x>>
    BY <1>5
  <2>2. \A y : q = <<y>> => y = x
    BY <1>4, <2>1
  <2> DEFINE z == labels \o q
  <2>3. /\ Listed(z) /\ Len(labels) \in Nat /\ Len(z) = Len(labels) + 1
        /\ (\A l \in 1..Len(labels) : z[l] = labels[l]) /\ z[Len(labels) + 1] = x
    BY <1>3, <2>1
  <2> HIDE DEF z
  <2>4. Len(z) >= Len(labels)
    BY <2>3
  <2> QED BY <2>2, <2>3, <2>4 DEF z
<1> QED BY <1>2, <1>5

\* A copy is not moved by what is written later.
LEMMA CopyStays ==
    ASSUME Moved, NEW n \in 1..moved, CopyOf(n), source' = source,
           NEW d, Piece(d), copy' = copy \o d, starts' = Append(starts, Bytes(copy)),
           NEW q, q = << >> \/ (\E x : q = <<x>>), labels' = labels \o q
    PROVE  CopyOf(n)'
<1> DEFINE i == source.insns[n]
           pc == Pc(OrigAt(n))
<1>1. PICK k, l : /\ LiesAt(copy, k, starts[n], NextStart(n), Shape(i, pc, l))
                  /\ i.op \in WithLabel => l \in 1..Len(labels) /\ labels[l] = Target(i, pc)
  BY DEF CopyOf
<1>2. Piece(copy) /\ starts \in Seq(Nat) /\ Bytes(copy) \in Nat /\ Listed(labels)
  BY PieceFacts DEF Moved
<1>3. /\ Len(starts') = Len(starts) + 1 /\ starts'[Len(starts) + 1] = Bytes(copy)
      /\ \A m \in 1..Len(starts) : starts'[m] = starts[m]
  BY <1>2, AppendProperties
<1>4. Len(starts) \in Nat /\ Len(starts) >= moved /\ moved \in Nat /\ n \in Nat /\ 1 <= n /\ n <= moved
  <2>1. Len(source.insns) \in Nat
    BY OrigFacts DEF Moved
  <2>2. moved \in 0..Len(source.insns) /\ Len(starts) \in {moved, moved + 1}
    BY DEF Moved
  <2> QED BY <2>1, <2>2
<1>5. starts'[n] = starts[n] /\ NextStart(n)' = NextStart(n)
  <2>1. n \in 1..Len(starts) /\ n < Len(starts')
    BY <1>3, <1>4
  <2>2. CASE n < Len(starts)
    <3>1. n + 1 \in 1..Len(starts)
      BY <1>4, <2>2
    <3> QED BY <1>3, <2>1, <2>2, <3>1 DEF NextStart
  <2>3. CASE ~(n < Len(starts))
    <3>1. n = Len(starts)
      BY <1>4, <2>3
    <3> QED BY <1>3, <2>1, <3>1 DEF NextStart
  <2> QED BY <2>2, <2>3
<1>6. pc' = pc /\ i' = i
  BY DEF Pc, OrigAt
<1> HIDE DEF pc, i
<1>7. LiesAt(copy', k, starts'[n], NextStart(n)', Shape(i, pc, l))
  BY <1>1, <1>2, <1>5, LiesStill
<1>8. i.op \in WithLabel => l \in 1..Len(labels') /\ labels'[l] = Target(i, pc)
  <2>1. /\ Len(labels) \in Nat /\ Len(labels') >= Len(labels) /\ Listed(labels')
        /\ \A m \in 1..Len(labels) : labels'[m] = labels[m]
    BY <1>2, LabelsAdded
  <2>2. Len(labels') \in Nat
    BY <2>1 DEF Listed
  <2> QED BY <1>1, <2>1, <2>2
<1> QED BY <1>6, <1>7, <1>8 DEF CopyOf, pc, i

\* What is written takes no slot but of instructions in the block.
LEMMA ClearNew ==
    ASSUME Moved, stage = "relocating", source' = source, moved' \in {moved, moved + 1},
           NEW d, Piece(d), copy' = copy \o d, starts' = Append(starts, Bytes(copy)),
           \A k \in Len(copy) + 1..Len(copy') : IsIt(copy'[k]) => k = Len(copy')
    PROVE  \A n \in 1..Len(starts') :
              starts'[n] <= Bytes(copy') /\ (~InBlock(n)' => Clear(n)')
<1> DEFINE N == Len(copy)
           M == Len(copy')
           o == Off(copy)
           u == Off(copy')
           S == Len(starts)
<1>1. /\ Piece(copy) /\ starts \in Seq(Nat) /\ S = moved /\ Bytes(copy) \in Nat /\ moved \in Nat
      /\ Spaced /\ source \in Sources /\ N \in Nat
      /\ \A n \in 1..S : starts[n] <= Bytes(copy) /\ (~InBlock(n) => Clear(n))
  <2>1. Len(source.insns) \in Nat
    BY OrigFacts DEF Moved
  <2> QED BY <2>1, PieceFacts DEF Moved
<1>2. /\ Piece(copy') /\ M = N + Len(d) /\ (\A k \in 1..N : copy'[k] = copy[k])
      /\ (\A k \in 0..N : u[k] = o[k]) /\ Bytes(copy') = Bytes(copy) + Bytes(d)
  BY <1>1, PieceConcat
<1>3. Len(d) \in Nat /\ Bytes(d) \in Nat /\ u \in [0..M -> Nat] /\ o[N] = Bytes(copy) /\ M \in Nat
  BY <1>1, <1>2, PieceFacts
<1>4. \A j, k \in 0..M : j < k => u[j] < u[k]
  BY <1>2, OffIncreases
<1>5. /\ Len(starts') = S + 1 /\ starts'[S + 1] = Bytes(copy) /\ S \in Nat
      /\ \A n \in 1..S : starts'[n] = starts[n] /\ starts[n] \in Nat
  BY <1>1, AppendProperties
<1>6. \A n \in 1..S + 1 : InBlock(n)' <=> InBlock(n)
  <2> SUFFICES ASSUME NEW n \in 1..S + 1 PROVE InBlock(n)' <=> InBlock(n)
    OBVIOUS
  <2>1. \A m : m \in 1..moved' /\ m < n <=> m \in 1..moved /\ m < n
    BY <1>1, <1>5
  <2> QED BY <2>1 DEF InBlock
<1>7. \A k \in 1..N : InSlot(k)' <=> InSlot(k)
  <2> SUFFICES ASSUME NEW k \in 1..N PROVE InSlot(k)' <=> InSlot(k)
    OBVIOUS
  <2>1. \A j \in 1..k - 1 : j \in 1..N
    BY <1>1
  <2> QED BY <1>2, <2>1 DEF InSlot
<1>8. \A n \in 1..S : NextStart(n)' = NextStart(n) /\ NextStart(n) <= Bytes(copy)
  <2> SUFFICES ASSUME NEW n \in 1..S
               PROVE NextStart(n)' = NextStart(n) /\ NextStart(n) <= Bytes(copy)
    OBVIOUS
  <2>1. CASE n < S
    <3>1. n + 1 \in 1..S /\ n < Len(starts')
      BY <1>5, <2>1
    <3> QED BY <1>1, <1>5, <2>1, <3>1 DEF NextStart
  <2>2. CASE ~(n < S)
    <3>1. n = S /\ n < Len(starts')
      BY <1>5, <2>2
    <3> QED BY <1>1, <1>5, <3>1 DEF NextStart
  <2> QED BY <2>1, <2>2
<1>9. ASSUME NEW n \in 1..S + 1 PROVE starts'[n] <= Bytes(copy')
  <2>1. starts'[n] <= Bytes(copy) /\ starts'[n] \in Nat
    BY <1>1, <1>5
  <2> QED BY <1>1, <1>2, <1>3, <2>1
<1> HIDE DEF N, M, o, u, S
<1>10. \A k \in 1..M : k > N => u[k - 1] >= Bytes(copy)
  <2> SUFFICES ASSUME NEW k \in 1..M, k > N PROVE u[k - 1] >= Bytes(copy)
    OBVIOUS
  <2>1. N \in 0..M /\ k - 1 \in 0..M /\ (N = k - 1 \/ N < k - 1) /\ N \in 0..N
    BY <1>1, <1>3
  <2>2. u[N] = Bytes(copy)
    BY <1>2, <1>3, <2>1
  <2> DEFINE y == k - 1
  <2>3. N = y \/ u[N] < u[y]
    BY <1>4, <2>1
  <2>4. u[y] \in Nat /\ u[N] \in Nat
    BY <1>3, <2>1
  <2> HIDE DEF y
  <2>5. u[y] >= Bytes(copy)
    BY <1>1, <2>2, <2>3, <2>4
  <2> QED BY <2>5 DEF y
<1>11. ASSUME NEW n \in 1..S, ~InBlock(n) PROVE Clear(n)'
  <2> SUFFICES ASSUME NEW k \in 1..M, starts'[n] <= u[k - 1], u[k - 1] < NextStart(n)'
               PROVE  ~InSlot(k)'
    BY DEF Clear, M, u
  <2>1. k <= N
    <3> SUFFICES ASSUME k > N PROVE FALSE
      BY <1>1, <1>3
    <3> DEFINE y == u[k - 1]
               z == NextStart(n)
    <3>1. y >= Bytes(copy) /\ z <= Bytes(copy) /\ y < z
      BY <1>8, <1>10
    <3>2. y \in Nat
      <4>1. k - 1 \in 0..M
        BY <1>3
      <4> QED BY <1>3, <4>1
    <3>3. z \in Nat
      <4>1. n < S => n + 1 \in 1..S
        BY <1>5
      <4> QED BY <1>1, <1>5, <4>1 DEF NextStart, S
    <3> HIDE DEF y, z
    <3> QED BY <1>1, <3>1, <3>2, <3>3
  <2>2. k \in 1..N /\ k - 1 \in 0..N
    BY <1>1, <2>1
  <2>3. starts[n] <= o[k - 1] /\ o[k - 1] < NextStart(n)
    BY <1>2, <1>5, <1>8, <2>2
  <2>4. ~InSlot(k)
    BY <1>1, <1>11, <2>2, <2>3 DEF Clear, N, o
  <2> QED BY <1>7, <2>2, <2>4
<1>12. ASSUME NEW n, n = S + 1, ~InBlock(n) PROVE Clear(n)'
  <2> SUFFICES ASSUME NEW k \in 1..M, starts'[n] <= u[k - 1], InSlot(k)' PROVE FALSE
    BY DEF Clear, M, u
  <2>1. k > N
    <3> SUFFICES ASSUME k <= N PROVE FALSE
      BY <1>1, <1>3
    <3>1. k - 1 \in 0..M /\ N \in 0..M /\ k - 1 < N /\ N \in 0..N
      BY <1>1, <1>2, <1>3
    <3> DEFINE y == k - 1
    <3>2. u[y] < u[N] /\ u[N] = Bytes(copy) /\ u[y] \in Nat
      BY <1>2, <1>3, <1>4, <3>1
    <3>3. Bytes(copy) <= u[y]
      BY <1>5, <1>12
    <3> HIDE DEF y
    <3> QED BY <1>1, <3>2, <3>3
  <2>2. PICK j \in 1..k - 1 : IsIt(copy'[j]) /\ k - j <= copy'[j].insn.imm
    BY DEF InSlot, IsIt
  <2>3. j \in 1..M /\ j < k /\ k <= M
    BY <1>3
  <2>4. j <= N
    <3> SUFFICES ASSUME j > N PROVE FALSE
      BY <1>1, <1>3, <2>3
    <3>1. j \in N + 1..M
      BY <1>1, <2>3
    <3>2. j = M
      BY <2>2, <3>1 DEF N, M
    <3> QED BY <1>3, <2>3, <3>2
  <2>5. j \in 1..N /\ copy'[j] = copy[j]
    <3>1. j \in 1..N
      BY <1>1, <1>3, <2>3, <2>4
    <3> QED BY <1>2, <3>1
  <2>6. PICK m \in 1..moved : copy[j].insn = source.insns[m] /\ N - j >= 2 * (moved - m)
    BY <1>1, <2>2, <2>5 DEF Spaced, N
  <2> DEFINE c == source.insns[m].imm
  <2>7. source.insns[m].op = "it" /\ k - j <= c
    BY <2>2, <2>5, <2>6 DEF IsIt
  <2>8. c \in Nat
    <3>1. m \in 1..Len(source.insns)
      BY <1>1, OrigFacts DEF Moved
    <3> QED BY <1>1, <3>1, OrigFacts DEF Instruction
  <2>9. m < n /\ ~(n - m <= c)
    <3>1. m < n
      BY <1>1, <1>12
    <3> QED BY <1>12, <2>7, <3>1 DEF InBlock
  <2> HIDE DEF c
  <2> QED BY <1>1, <1>3, <1>12, <2>1, <2>3, <2>6, <2>7, <2>8, <2>9
<1>13. \A n \in 1..S + 1 : n \in 1..S \/ n = S + 1
  BY <1>5
<1> QED BY <1>5, <1>6, <1>9, <1>11, <1>12, <1>13

\* One turn of the loop keeps the copies of it instructions apart.
LEMMA SpacedNew ==
    ASSUME Moved, stage = "relocating", source' = source, moved' = moved + 1, NEW i,
           i = source.insns[moved + 1], NEW q, NEW room, Piece(q), Piece(room), Joined(copy', room, q),
           Room(copy, room), Len(q) >= 1,
           source.thumb => room \in {Append(copy, Nop), Append(Append(copy, Nop), Nop)},
           \A k \in 1..Len(q) : IsIt(q[k]) => k = Len(q) /\ q[k].insn = i
    PROVE  /\ Spaced'
           /\ \A k \in Len(copy) + 1..Len(copy') : IsIt(copy'[k]) => k = Len(copy')
<1> DEFINE N == Len(copy)
           R == Len(room)
           M == Len(copy')
<1>1. /\ Piece(copy) /\ Spaced /\ source \in Sources /\ moved \in Nat
      /\ moved <= Len(source.insns) /\ Len(source.insns) \in Nat
  <2>1. Len(source.insns) \in Nat
    BY OrigFacts DEF Moved
  <2> QED BY <2>1 DEF Moved
<1>2. /\ R \in Nat /\ N \in Nat /\ R >= N /\ (source.thumb => R >= N + 1)
      /\ \A k \in 1..N : room[k] = copy[k]
      /\ \A k \in N + 1..R : room[k] = Nop
  BY <1>1, RoomItems
<1>3. /\ M = R + Len(q) /\ (\A k \in 1..R : copy'[k] = room[k])
      /\ \A k \in 1..Len(q) : copy'[R + k] = q[k]
  <2> DEFINE z == room \o q
  <2>1. /\ Len(z) = Len(room) + Len(q) /\ (\A k \in 1..Len(room) : z[k] = room[k])
        /\ \A k \in 1..Len(q) : z[Len(room) + k] = q[k]
    BY PieceConcat
  <2>2. copy' = z
    BY DEF Joined
  <2> HIDE DEF z
  <2> QED BY <2>1, <2>2
<1>4. Len(q) \in Nat
  BY PieceFacts
<1>5. ~IsIt(Nop)
  BY DEF IsIt, Nop
<1> HIDE DEF N, R, M
<1>6. ASSUME NEW k \in N + 1..M, IsIt(copy'[k]) PROVE k = M /\ copy'[k].insn = i
  <2>1. k > R
    <3> SUFFICES ASSUME k <= R PROVE FALSE
      BY <1>2
    <3>1. k \in N + 1..R /\ k \in 1..R
      BY <1>2
    <3> QED BY <1>2, <1>3, <1>5, <1>6, <3>1
  <2> DEFINE y == k - R
  <2>2. y \in 1..Len(q) /\ k = R + y
    BY <1>2, <1>3, <1>4, <2>1
  <2> HIDE DEF y
  <2>3. IsIt(q[y]) /\ copy'[k] = q[y]
    BY <1>3, <1>6, <2>2
  <2>4. y = Len(q) /\ q[y].insn = i
    BY <2>2, <2>3
  <2> QED BY <1>3, <2>2, <2>3, <2>4
<1>7. ASSUME NEW j \in 1..M, IsIt(copy'[j])
      PROVE  \E m \in 1..moved + 1 :
                copy'[j].insn = source.insns[m] /\ M - j >= 2 * ((moved + 1) - m)
  <2>1. CASE j > N
    <3>1. j \in N + 1..M /\ moved + 1 \in 1..moved + 1
      BY <1>1, <1>2, <2>1
    <3>2. j = M /\ copy'[j].insn = source.insns[moved + 1]
      BY <1>6, <1>7, <3>1
    <3>3. M - j >= 2 * ((moved + 1) - (moved + 1))
      BY <1>1, <1>2, <1>3, <1>4, <3>2
    <3> QED BY <3>1, <3>2, <3>3
  <2>2. CASE j <= N
    <3>1. j \in 1..N /\ j \in 1..R
      BY <1>2, <2>2
    <3>2. copy'[j] = copy[j]
      BY <1>2, <1>3, <3>1
    <3>3. PICK m \in 1..moved : copy[j].insn = source.insns[m] /\ N - j >= 2 * (moved - m)
      BY <1>1, <1>7, <3>1, <3>2 DEF Spaced, N
    <3>4. source.thumb
      <4>1. source.insns[m].op = "it"
        BY <1>7, <3>2, <3>3 DEF IsIt
      <4>2. Instruction(source.thumb, source.insns[m]) /\ source.thumb \in BOOLEAN
        <5>1. m \in 1..Len(source.insns)
          BY <1>1
        <5> QED BY <1>1, <5>1, OrigFacts
      <4> QED BY <4>1, <4>2 DEF Instruction, ArmKinds
    <3>5. M >= N + 2
      BY <1>2, <1>3, <1>4, <3>4
    <3>6. m \in 1..moved + 1 /\ M - j >= 2 * ((moved + 1) - m)
      BY <1>1, <1>2, <1>3, <1>4, <3>3, <3>5
    <3> QED BY <3>2, <3>3, <3>6
  <2> QED BY <1>2, <2>1, <2>2
<1>8. Spaced'
  <2>1. \A j \in 1..M : IsIt(copy'[j]) =>
          \E m \in 1..moved' : copy'[j].insn = source'.insns[m] /\ M - j >= 2 * (moved' - m)
    <3> SUFFICES ASSUME NEW j \in 1..M, IsIt(copy'[j])
                 PROVE  \E m \in 1..moved' :
                           copy'[j].insn = source'.insns[m] /\ M - j >= 2 * (moved' - m)
      OBVIOUS
    <3> DEFINE c == copy'
               k == moved + 1
               f == source.insns
    <3>1. \E m \in 1..k : c[j].insn = f[m] /\ M - j >= 2 * (k - m)
      BY <1>7
    <3>2. moved' = k /\ source'.insns = f
      OBVIOUS
    <3> HIDE DEF c, k, f
    <3> QED BY <3>1, <3>2 DEF c
  <2>2. Spaced' <=> \A j \in 1..M : IsIt(copy'[j]) =>
          \E m \in 1..moved' : copy'[j].insn = source'.insns[m] /\ M - j >= 2 * (moved' - m)
    BY DEF Spaced, M, IsIt
  <2> QED BY <2>1, <2>2
<1> QED BY <1>6, <1>8 DEF N, M

\* One turn of the loop.
LEMMA RelocateStep ==
    ASSUME Moved, Relocate
    PROVE  Moved' /\ stage' = "relocating"
<1> DEFINE i == source.insns[moved + 1]
           pc == Pc(OrigAt(moved + 1))
           to == Template(i, pc)
           room == IF source.thumb THEN AlignThumbNop(Append(copy, Nop)) ELSE copy
<1>1. /\ stage = "relocating" /\ ~Done /\ copy' = room \o to.items /\ labels' = labels \o to.label
      /\ starts' = Append(starts, Bytes(copy)) /\ moved' = moved + 1
      /\ source' = source /\ stage' = stage
  BY DEF Relocate, Template
<1>2. moved + 1 \in 1..Len(source.insns) /\ source \in Sources /\ moved \in Nat
  <2>1. Len(source.insns) \in Nat
    BY OrigFacts DEF Moved
  <2> QED BY <1>1, <2>1, InstructionLeft DEF Moved
<1>3. Instruction(source.thumb, i) /\ pc \in Nat
  <2>1. moved + 1 \in 1..Len(source.insns) + 1
    BY <1>2, OrigFacts
  <2> QED BY <1>2, <2>1, OrigFacts, PcNat
<1>4. /\ Piece(copy) /\ starts \in Seq(Nat) /\ Bytes(copy) \in Nat /\ Listed(labels)
      /\ Len(starts) = moved
  BY <1>1, <1>2, PieceFacts DEF Moved
<1>5. /\ Room(copy, room) /\ Bytes(room) % 4 = 0
      /\ source.thumb => room \in {Append(copy, Nop), Append(Append(copy, Nop), Nop)}
  <2>1. CASE ~source.thumb
    BY <1>1, <2>1 DEF Room, Moved
  <2>2. CASE source.thumb
    <3>1. Nop.len = 2
      BY DEF Nop
    <3> DEFINE c1 == Append(copy, Nop)
    <3>2. Piece(c1)
      BY <1>4, <3>1, PieceAppend
    <3>3. room = AlignThumbNop(c1)
      BY <2>2
    <3> HIDE DEF c1, room
    <3>4. Bytes(room) % 4 = 0 /\ room \in {c1, Append(c1, Nop)}
      BY <3>2, <3>3, AlignedBytes
    <3> QED BY <3>4 DEF Room, c1
  <2> QED BY <2>1, <2>2
<1>6. /\ Piece(to.items)
      /\ ~source.thumb => \A k \in 1..Len(to.items) : to.items[k].len = 4
      /\ to.label = << >> \/ \E x : to.label = <<x>>
  BY <1>3, TemplatePiece
<1>7. ASSUME Relocatable(i)
      PROVE  /\ to.items = Shape(i, pc, Len(labels) + 1)
             /\ i.op \in WithLabel => to.label = <<Target(i, pc)>>
  <2> HIDE DEF i, pc
  <2>1. pc \in Int
    BY <1>3
  <2> QED BY <1>3, <1>7, <2>1, TemplateShape
<1>8. \A n : Pc(OrigAt(n))' = Pc(OrigAt(n))
  BY <1>1 DEF Pc, OrigAt
<1> HIDE DEF i, pc, to, room
<1>9. /\ Piece(copy') /\ Bytes(copy') = Bytes(room) + Bytes(to.items)
      /\ LiesAt(copy', Len(room), Bytes(copy), Bytes(copy'), to.items)
      /\ \E d : Piece(d) /\ copy' = copy \o d
  <2> DEFINE q == to.items
  <2>1. Piece(q) /\ Joined(copy', room, q)
    BY <1>1, <1>6 DEF Joined
  <2> HIDE DEF q
  <2>2. /\ Piece(copy') /\ Bytes(copy') = Bytes(room) + Bytes(q)
        /\ LiesAt(copy', Len(room), Bytes(copy), Bytes(copy'), q)
        /\ \E d : Piece(d) /\ Joined(copy', copy, d)
    BY <1>4, <1>5, <2>1, LiesNew
  <2> QED BY <2>2 DEF q, Joined
<1>10. PICK d : Piece(d) /\ copy' = copy \o d
  BY <1>9
<1>11. ASSUME NEW n \in 1..moved, Relocatable(source.insns[n]) PROVE CopyOf(n)'
  BY <1>1, <1>6, <1>10, <1>11, CopyStays DEF Moved
<1>12. /\ starts' \in Seq(Nat) /\ Len(starts') = moved + 1 /\ starts'[moved + 1] = Bytes(copy)
  BY <1>1, <1>4, AppendProperties
<1>13. ASSUME Relocatable(i), NEW m, m = moved + 1 PROVE CopyOf(m)'
  <2> DEFINE l == Len(labels) + 1
  <2>1. NextStart(m)' = Bytes(copy')
    <3>1. ~(m < Len(starts'))
      BY <1>2, <1>12, <1>13
    <3> QED BY <3>1 DEF NextStart
  <2>2. LiesAt(copy', Len(room), starts'[m], NextStart(m)', Shape(i, pc, l))
    BY <1>7, <1>9, <1>12, <1>13, <2>1
  <2>3. i.op \in WithLabel => l \in 1..Len(labels') /\ labels'[l] = Target(i, pc)
    <3> SUFFICES ASSUME i.op \in WithLabel PROVE l \in 1..Len(labels') /\ labels'[l] = Target(i, pc)
      OBVIOUS
    <3>1. to.label = <<Target(i, pc)>>
      BY <1>7, <1>13
    <3>2. Len(labels) \in Nat /\ Len(labels') = Len(labels) + 1 /\ labels'[Len(labels) + 1] = Target(i, pc)
      BY <1>1, <1>4, <3>1, LabelsAdded
    <3> QED BY <3>2
  <2>4. (source.insns[m])' = i /\ Pc(OrigAt(m))' = pc
    BY <1>1, <1>8, <1>13 DEF i, pc
  <2> HIDE DEF l
  <2> QED BY <2>2, <2>3, <2>4 DEF CopyOf
<1>14. ASSUME NEW n \in 1..moved', Relocatable(source'.insns[n]) PROVE CopyOf(n)'
  <2>1. n \in 1..moved \/ n = moved + 1
    BY <1>1, <1>2
  <2> QED BY <1>1, <1>11, <1>13, <1>14, <2>1 DEF i
<1>15. Listed(labels')
  BY <1>1, <1>4, <1>6, LabelsAdded
<1>16. ~source.thumb => Bytes(copy') % 4 = 0
  <2> SUFFICES ASSUME ~source.thumb PROVE Bytes(copy') % 4 = 0
    OBVIOUS
  <2>1. Bytes(to.items) = 4 * Len(to.items) /\ Len(to.items) \in Nat
    BY <1>6, PieceOfWords, PieceFacts
  <2>2. Bytes(room) \in Nat
    <3>1. room = copy
      BY DEF room
    <3> QED BY <1>4, <3>1
  <2> QED BY <1>5, <1>9, <2>1, <2>2
<1>17. moved' \in 0..Len(source.insns)
  BY <1>1, <1>2
<1>18. /\ Spaced'
       /\ \A k \in Len(copy) + 1..Len(copy') : IsIt(copy'[k]) => k = Len(copy')
  <2> DEFINE q == to.items
  <2>1. /\ Piece(q) /\ Joined(copy', room, q) /\ Len(q) >= 1
        /\ \A k \in 1..Len(q) : IsIt(q[k]) => k = Len(q) /\ q[k].insn = i
    <3>1. /\ Len(q) >= 1
          /\ \A k \in 1..Len(q) : IsIt(q[k]) => k = Len(q) /\ q[k].insn = i
      BY <1>3, TemplateIt DEF to
    <3> QED BY <1>1, <1>6, <3>1 DEF Joined
  <2>2. Piece(room)
    BY <1>4, <1>5, <2>1, LiesNew
  <2>3. i = source.insns[moved + 1]
    BY DEF i
  <2> HIDE DEF q
  <2> QED BY <1>1, <1>5, <2>1, <2>2, <2>3, SpacedNew
<1>19. \A n \in 1..Len(starts') : starts'[n] <= Bytes(copy') /\ (~InBlock(n)' => Clear(n)')
  BY <1>1, <1>10, <1>18, ClearNew
<1> QED BY <1>1, <1>2, <1>9, <1>12, <1>14, <1>15, <1>16, <1>17, <1>18, <1>19 DEF Moved

\* The copy is finished.
LEMMA FinishStep ==
    ASSUME Moved, FinishCopy
    PROVE  Moved' /\ Finished' /\ stage' = "copied"
<1> DEFINE room == IF source.thumb THEN AlignThumbNop(copy) ELSE copy
           q == ToRest
           tail == room \o q
           words == [l \in DOMAIN labels |-> Word(Fixup(labels[l]))]
           L == Len(labels)
<1>1. /\ stage = "relocating" /\ starts' = Append(starts, Bytes(copy)) /\ moved' = moved
      /\ source' = source /\ stage' = "copied" /\ labels' = labels
  BY DEF FinishCopy
<1>2. moved \in Nat /\ source \in Sources /\ moved + 1 \in 1..Len(source.insns) + 1
  <2>1. Len(source.insns) \in Nat
    BY OrigFacts DEF Moved
  <2> QED BY <1>1, <2>1 DEF Moved
<1>3. OrigAt(moved + 1) \in Nat
  BY <1>2, OrigFacts
<1>4. copy' = tail \o words
  <2>1. CASE source.thumb
    <3>1. ToRest = <<Literal("pc", 0), Word(OrigAt(moved + 1) + 1)>>
      BY <2>1 DEF ToRest, FlagOf
    <3>2. copy' = (AlignThumbNop(copy) \o <<Literal("pc", 0), Word(OrigAt(moved + 1) + 1)>>) \o words
      BY <2>1, Zenon DEF FinishCopy
    <3>3. room = AlignThumbNop(copy)
      BY <2>1
    <3> HIDE DEF words
    <3> QED BY <3>1, <3>2, <3>3, Zenon
  <2>2. CASE ~source.thumb
    <3>1. ToRest = <<Literal("pc", -4), Word(OrigAt(moved + 1))>>
      BY <1>3, <2>2 DEF ToRest, FlagOf
    <3>2. copy' = (copy \o <<Literal("pc", -4), Word(OrigAt(moved + 1))>>) \o words
      BY <2>2, Zenon DEF FinishCopy
    <3>3. room = copy
      BY <2>2
    <3> HIDE DEF words
    <3> QED BY <3>1, <3>2, <3>3, Zenon
  <2> QED BY <2>1, <2>2
<1>5. /\ Piece(copy) /\ starts \in Seq(Nat) /\ Bytes(copy) \in Nat /\ Listed(labels)
      /\ Len(starts) = moved
  BY <1>1, <1>2, PieceFacts DEF Moved
<1>6. Room(copy, room) /\ Bytes(room) % 4 = 0
  <2>1. CASE ~source.thumb
    BY <1>1, <2>1 DEF Room, Moved
  <2>2. CASE source.thumb
    <3>1. room = AlignThumbNop(copy)
      BY <2>2
    <3> HIDE DEF room
    <3> QED BY <1>5, <3>1, AlignedBytes DEF Room
  <2> QED BY <2>1, <2>2
<1>7. Piece(q) /\ Len(q) = 2 /\ q[2].op = "word"
  <2>1. \A n, m : Sized(Literal("pc", n)) /\ Sized(Word(m)) /\ Word(m).op = "word"
    BY DEF Sized, Literal, Word
  <2> QED BY <2>1, SmallPieces DEF ToRest
<1>8. L \in Nat /\ DOMAIN labels = 1..L
  BY <1>5 DEF Listed
<1>9. /\ Piece(words) /\ Len(words) = L
      /\ \A l \in 1..L : words[l] = Word(Fixup(labels[l])) /\ words[l].len = 4
  <2> DEFINE S == {Word(Fixup(labels[l])) : l \in 1..L}
  <2>1. \A n : Word(n).len = 4
    BY DEF Word
  <2>2. words \in [1..L -> S]
    BY <1>8
  <2>3. words \in Seq(S) /\ Len(words) = L
    BY <1>8, <2>2
  <2>4. \A x \in S : x.len \in {2, 4}
    BY <2>1
  <2>5. \A l \in 1..L : words[l] = Word(Fixup(labels[l]))
    BY <1>8
  <2> QED BY <2>1, <2>3, <2>4, <2>5 DEF Piece
<1>10. (\A k \in 0..L : Off(words)[k] = 4 * k) /\ Bytes(words) = 4 * L
  <2> HIDE DEF words
  <2> QED BY <1>9, PieceOfWords
<1>11. \A n : Pc(OrigAt(n))' = Pc(OrigAt(n)) /\ OrigAt(n)' = OrigAt(n)
  BY <1>1 DEF Pc, OrigAt
<1>12. q' = q
  BY <1>1, <1>11 DEF ToRest, FlagOf
<1>13. Joined(tail, room, q)
  BY DEF Joined
<1>14. Joined(copy', tail, words)
  BY <1>4 DEF Joined
<1> HIDE DEF words, tail, q, room, L
<1>15. /\ Piece(tail) /\ LiesAt(tail, Len(room), Bytes(copy), Bytes(tail), q)
       /\ \E d : Piece(d) /\ Joined(tail, copy, d)
  BY <1>5, <1>6, <1>7, <1>13, LiesNew
<1>16. Bytes(tail) \in Nat /\ Len(tail) \in Nat
  BY <1>15, PieceFacts
<1>17. /\ Piece(copy') /\ Len(copy') = Len(tail) + L /\ Bytes(copy') = Bytes(tail) + 4 * L
       /\ \A l \in 1..L : copy'[Len(tail) + l] = words[l]
       /\ \A l \in 0..L : Off(copy')[Len(tail) + l] = Bytes(tail) + Off(words)[l]
  <2> DEFINE z == tail \o words
  <2>1. /\ Piece(z) /\ Len(z) = Len(tail) + Len(words) /\ Bytes(z) = Bytes(tail) + Bytes(words)
        /\ \A l \in 1..Len(words) : z[Len(tail) + l] = words[l]
        /\ \A l \in 0..Len(words) : Off(z)[Len(tail) + l] = Bytes(tail) + Off(words)[l]
    BY <1>9, <1>15, PieceConcat
  <2>2. copy' = z
    BY <1>4
  <2> HIDE DEF z
  <2> QED BY <1>9, <1>10, <2>1, <2>2
<1>18. LiesAt(copy', Len(room), Bytes(copy), Bytes(tail), q)
  BY <1>4, <1>9, <1>15, LiesStill
<1>19. \E d : Piece(d) /\ copy' = copy \o d
  <2>1. PICK d : Piece(d) /\ Joined(tail, copy, d)
    BY <1>15
  <2>2. \E y : Piece(y) /\ Joined(copy', copy, y)
    BY <1>5, <1>9, <1>14, <2>1, JoinedTwice
  <2> QED BY <2>2 DEF Joined
<1>20. ASSUME NEW n \in 1..moved, Relocatable(source.insns[n]) PROVE CopyOf(n)'
  <2>1. labels' = labels \o << >>
    BY <1>1, <1>5 DEF Listed
  <2>2. PICK d : Piece(d) /\ copy' = copy \o d
    BY <1>19
  <2>3. CopyOf(n)
    BY <1>20 DEF Moved
  <2> QED BY <1>1, <2>1, <2>2, <2>3, CopyStays
<1>21. /\ starts' \in Seq(Nat) /\ Len(starts') = moved + 1 /\ starts'[moved + 1] = Bytes(copy)
  BY <1>1, <1>5, AppendProperties
<1>22. \E k, e : LiesAt(copy', k, starts'[moved' + 1], e, q')
  BY <1>1, <1>12, <1>18, <1>21
<1>23. ASSUME NEW l \in 1..L
       PROVE  \E j \in 1..Len(copy') : \E m :
                 /\ Off(copy')[j - 1] = LabelAt(l)' /\ copy'[j] = Word(m)
                 /\ ~Fixed(labels[l]) => m = labels[l].n
  <2> DEFINE j == Len(tail) + l
  <2>1. j \in 1..Len(copy') /\ j - 1 = Len(tail) + (l - 1) /\ l - 1 \in 0..L
    BY <1>8, <1>16, <1>17
  <2>2. Off(copy')[j - 1] = Bytes(tail) + 4 * (l - 1)
    BY <1>10, <1>17, <2>1
  <2>3. LabelAt(l)' = Bytes(copy') - 4 * (L - l + 1)
    BY <1>1 DEF LabelAt, L
  <2>4. Off(copy')[j - 1] = LabelAt(l)'
    BY <1>8, <1>16, <1>17, <2>2, <2>3
  <2>5. copy'[j] = Word(Fixup(labels[l]))
    BY <1>9, <1>17
  <2>6. ~Fixed(labels[l]) => Fixup(labels[l]) = labels[l].n
    BY DEF Fixed, Fixup
  <2> HIDE DEF j
  <2> QED BY <2>1, <2>4, <2>5, <2>6
<1>24. \A l : Fixed(labels[l])' <=> Fixed(labels[l])
  BY <1>1 DEF Fixed, TrampolineSize
<1>25. Finished'
  <2>1. \A l \in 1..Len(labels') : \E j \in 1..Len(copy') : \E m :
                 /\ Off(copy')[j - 1] = LabelAt(l)' /\ copy'[j] = Word(m)
                 /\ ~Fixed(labels[l])' => m = labels'[l].n
    BY <1>1, <1>23, <1>24 DEF L
  <2> QED BY <1>22, <2>1 DEF Finished, q
<1>26. Listed(labels') /\ moved' \in 0..Len(source'.insns)
  BY <1>1, <1>5 DEF Moved
<1>27. \A k \in Len(copy) + 1..Len(copy') : ~IsIt(copy'[k])
  <2> DEFINE N == Len(copy)
             R == Len(room)
             T == Len(tail)
  <2>1. R \in Nat /\ N \in Nat /\ R >= N /\ \A k \in N + 1..R : room[k] = Nop
    BY <1>5, <1>6, RoomItems
  <2>2. Piece(room)
    BY <1>5, <1>6, <1>7, <1>13, LiesNew
  <2>3. /\ T = R + 2 /\ (\A k \in 1..R : tail[k] = room[k])
        /\ \A k \in 1..2 : tail[R + k] = q[k]
    <3> DEFINE z == room \o q
    <3>1. /\ Len(z) = Len(room) + Len(q) /\ (\A k \in 1..Len(room) : z[k] = room[k])
          /\ \A k \in 1..Len(q) : z[Len(room) + k] = q[k]
      <4>1. Piece(room) /\ Piece(q)
        BY <1>7, <2>2
      <4> QED BY <4>1, PieceConcat
    <3>2. tail = z
      BY <1>13 DEF Joined
    <3> HIDE DEF z
    <3> QED BY <1>7, <3>1, <3>2
  <2>4. /\ \A k \in 1..T : copy'[k] = tail[k]
        /\ \A l \in 1..L : copy'[T + l] = words[l]
    <3> DEFINE z == tail \o words
    <3>1. \A k \in 1..Len(tail) : z[k] = tail[k]
      BY <1>9, <1>15, PieceConcat
    <3>2. copy' = z
      BY <1>14 DEF Joined
    <3> HIDE DEF z
    <3> QED BY <1>17, <3>1, <3>2
  <2>5. /\ ~IsIt(Nop) /\ (\A x : ~IsIt(Word(x))) /\ \A k \in 1..2 : ~IsIt(q[k])
    <3>1. ~IsIt(Nop) /\ (\A x : ~IsIt(Word(x))) /\ \A reg, x : ~IsIt(Literal(reg, x))
      BY DEF IsIt, Nop, Word, Literal
    <3>2. \A k \in 1..2 : k = 1 \/ k = 2
      OBVIOUS
    <3>3. ~IsIt(q[1]) /\ ~IsIt(q[2])
      BY <3>1 DEF q, ToRest
    <3> QED BY <3>1, <3>2, <3>3
  <2> HIDE DEF N, R, T
  <2> SUFFICES ASSUME NEW k \in N + 1..Len(copy') PROVE ~IsIt(copy'[k])
    BY DEF N
  <2>6. Len(copy') = T + L
    BY <1>17 DEF T
  <2>7. CASE k <= R
    <3>1. k \in N + 1..R /\ k \in 1..R /\ k \in 1..T
      BY <2>1, <2>3, <2>7
    <3> QED BY <2>1, <2>3, <2>4, <2>5, <3>1
  <2>8. CASE k > R /\ k <= T
    <3> DEFINE y == k - R
    <3>1. y \in 1..2 /\ k = R + y /\ k \in 1..T
      BY <2>1, <2>3, <2>8
    <3> HIDE DEF y
    <3> QED BY <2>3, <2>4, <2>5, <3>1
  <2>9. CASE k > T
    <3> DEFINE y == k - T
    <3>1. y \in 1..L /\ k = T + y
      BY <1>8, <2>1, <2>3, <2>6, <2>9
    <3> HIDE DEF y
    <3> QED BY <1>9, <2>4, <2>5, <3>1
  <2> QED BY <2>1, <2>3, <2>7, <2>8, <2>9
<1>28. \A n \in 1..Len(starts') : starts'[n] <= Bytes(copy') /\ (~InBlock(n)' => Clear(n)')
  BY <1>1, <1>19, <1>27, ClearNew
<1> QED BY <1>1, <1>2, <1>17, <1>20, <1>21, <1>25, <1>26, <1>28 DEF Moved

-----------------------------------------------------------------------------
(* The processor *)

\* A processor that is not lost.
State(n, t, a, r, g, v, j, k) ==
    [n |-> n, taken |-> t, at |-> a, r12 |-> r, reg |-> g, value |-> v, jump |-> j, link |-> k,
     lost |-> FALSE]

\* One that has done nothing yet.
Fresh(n, t, a) == State(n, t, a, Nothing, "none", Nothing, Nothing, -1)

\* The item x lies at a.
ItemIs(a, x) == \E j \in 1..Len(copy) : Off(copy)[j - 1] = a /\ copy[j] = x

\* One item lies at a place.
LEMMA OneItem ==
    ASSUME Piece(copy), NEW j \in 1..Len(copy)
    PROVE  ItemAt(Off(copy)[j - 1]) = {j}
<1> DEFINE o == Off(copy)
           N == Len(copy)
<1>1. N \in Nat /\ DOMAIN copy = 1..N /\ o \in [0..N -> Nat]
  BY PieceFacts
<1>2. \A i, k \in 0..N : i < k => o[i] < o[k]
  BY OffIncreases
<1>3. \A k \in 1..N : k - 1 \in 0..N
  BY <1>1
<1>4. \A k \in 1..N : Bytes(SubSeq(copy, 1, k - 1)) = o[k - 1]
  BY <1>3, PrefixBytesOf
<1> HIDE DEF N, o
<1>5. \A k \in 1..N : o[k - 1] = o[j - 1] => k = j
  <2> SUFFICES ASSUME NEW k \in 1..N, o[k - 1] = o[j - 1], k # j PROVE FALSE
    OBVIOUS
  <2>1. j \in 1..N
    BY DEF N
  <2>2. /\ k - 1 < j - 1 \/ j - 1 < k - 1
        /\ k - 1 \in 0..N /\ j - 1 \in 0..N
    BY <1>1, <2>1
  <2> DEFINE x == k - 1
             y == j - 1
  <2>3. o[x] \in Nat /\ o[y] \in Nat /\ (o[x] < o[y] \/ o[y] < o[x]) /\ o[x] = o[y]
    BY <1>1, <1>2, <2>2
  <2> QED BY <2>3
<1>6. ItemAt(o[j - 1]) = {k \in 1..N : Bytes(SubSeq(copy, 1, k - 1)) = o[j - 1]}
  BY <1>1 DEF ItemAt
<1>7. j \in 1..N
  BY DEF N
<1> QED BY <1>4, <1>5, <1>6, <1>7 DEF o

\* The item at the pc is outside the blocks of it instructions, and executed.
Advances == Execute /\ \A k \in ItemAt(core.at) : ~InSlot(k)

LEMMA Executes ==
    ASSUME Piece(copy), Advances, NEW x, ItemIs(core.at, x)
    PROVE  core' = After(x)
<1>1. PICK j \in 1..Len(copy) : Off(copy)[j - 1] = core.at /\ copy[j] = x
  BY DEF ItemIs
<1>2. ItemAt(core.at) = {j}
  BY <1>1, OneItem
<1>3. \A i : (CHOOSE k \in {i} : TRUE) = i
  OBVIOUS
<1> QED BY <1>1, <1>2, <1>3 DEF Advances, Execute

\* A word is loaded.
LEMMA LoadsWord ==
    ASSUME Piece(copy), NEW a, NEW m, ItemIs(a, Word(m)), NEW reg
    PROVE  Loads(reg, a) = Gets(reg, Address32(m))
<1>1. PICK j \in 1..Len(copy) : Off(copy)[j - 1] = a /\ copy[j] = Word(m)
  BY DEF ItemIs
<1>2. ItemAt(a) = {j}
  BY <1>1, OneItem
<1>3. Word(m).op = "word" /\ Word(m).n = m
  BY DEF Word
<1>4. WordAt(a) = {j}
  BY <1>1, <1>2, <1>3 DEF WordAt
<1>5. (CHOOSE k \in {j} : TRUE) = j
  OBVIOUS
<1> QED BY <1>1, <1>3, <1>4, <1>5 DEF Loads

\* What lies where, of a piece.
LEMMA LiesItems ==
    ASSUME Piece(copy), NEW k, NEW b, NEW e, NEW q, LiesAt(copy, k, b, e, q), NEW p, p = Off(copy)[k]
    PROVE  /\ p \in Nat /\ p % 4 = 0 /\ e <= Bytes(copy)
           /\ Len(q) = 1 => ItemIs(p, q[1]) /\ e = p + q[1].len
           /\ Len(q) = 2 => ItemIs(p, q[1]) /\ ItemIs(p + q[1].len, q[2]) /\ e = p + q[1].len + q[2].len
           /\ Len(q) = 4 => /\ ItemIs(p, q[1]) /\ ItemIs(p + q[1].len, q[2])
                            /\ ItemIs(p + q[1].len + q[2].len, q[3])
                            /\ ItemIs(p + q[1].len + q[2].len + q[3].len, q[4])
                            /\ e = p + q[1].len + q[2].len + q[3].len + q[4].len
<1> DEFINE o == Off(copy)
           N == Len(copy)
           m == Len(q)
<1>1. /\ N \in Nat /\ o \in [0..N -> Nat] /\ Bytes(copy) = o[N]
      /\ \A i \in 1..N : o[i] = o[i - 1] + copy[i].len
  BY PieceFacts
<1>2. /\ k \in Nat /\ m \in Nat /\ k + m <= N /\ o[k] % 4 = 0
      /\ \A i \in 1..m : copy[k + i] = q[i]
      /\ o[k + m] = e
  BY DEF LiesAt
<1>3. \A i, j \in 0..N : i < j => o[i] < o[j]
  BY OffIncreases
<1>4. \A i \in 1..m : ItemIs(o[k + i - 1], q[i]) /\ o[k + i] = o[k + i - 1] + q[i].len
  <2> SUFFICES ASSUME NEW i \in 1..m
               PROVE ItemIs(o[k + i - 1], q[i]) /\ o[k + i] = o[k + i - 1] + q[i].len
    OBVIOUS
  <2> DEFINE y == k + i
  <2>1. y \in 1..N /\ copy[y] = q[i]
    BY <1>1, <1>2
  <2> HIDE DEF N, o, m, y
  <2>2. o[y] = o[y - 1] + q[i].len
    BY <1>1, <2>1
  <2>3. ItemIs(o[y - 1], q[i])
    BY <2>1 DEF ItemIs, N, o
  <2>4. k + i - 1 = y - 1 /\ k + i = y
    BY <1>2 DEF y
  <2> QED BY <2>2, <2>3, <2>4, Zenon
<1> HIDE DEF N, o, m
<1>5. p = o[k] /\ p \in Nat /\ p % 4 = 0
  <2>1. k \in 0..N
    BY <1>1, <1>2
  <2> QED BY <1>1, <1>2, <2>1 DEF o
<1>6. e <= Bytes(copy)
  <2> DEFINE x == k + m
  <2>1. x \in 0..N /\ N \in 0..N /\ (x = N \/ x < N)
    BY <1>1, <1>2
  <2> HIDE DEF x
  <2>2. o[x] <= o[N]
    BY <1>1, <1>3, <2>1
  <2> QED BY <1>1, <1>2, <2>2 DEF x
<1>7. k + 1 - 1 = k /\ k + 2 - 1 = k + 1 /\ k + 3 - 1 = k + 2 /\ k + 4 - 1 = k + 3
  BY <1>2
<1>8. CASE m = 1
  <2>1. 1 \in 1..m
    BY <1>8
  <2>2. ItemIs(p, q[1]) /\ o[k + 1] = p + q[1].len
    BY <1>4, <1>5, <1>7, <2>1
  <2> QED BY <1>2, <1>5, <1>6, <1>8, <2>2 DEF m
<1>9. CASE m = 2
  <2>1. 1 \in 1..m /\ 2 \in 1..m
    BY <1>9
  <2>2. ItemIs(p, q[1]) /\ o[k + 1] = p + q[1].len
    BY <1>4, <1>5, <1>7, <2>1
  <2>3. ItemIs(p + q[1].len, q[2]) /\ o[k + 2] = p + q[1].len + q[2].len
    BY <1>4, <1>7, <2>1, <2>2
  <2> QED BY <1>2, <1>5, <1>6, <1>9, <2>2, <2>3 DEF m
<1>10. CASE m = 4
  <2>1. 1 \in 1..m /\ 2 \in 1..m /\ 3 \in 1..m /\ 4 \in 1..m
    BY <1>10
  <2>2. ItemIs(p, q[1]) /\ o[k + 1] = p + q[1].len
    BY <1>4, <1>5, <1>7, <2>1
  <2>3. ItemIs(p + q[1].len, q[2]) /\ o[k + 2] = p + q[1].len + q[2].len
    BY <1>4, <1>7, <2>1, <2>2
  <2>4. /\ ItemIs(p + q[1].len + q[2].len, q[3])
        /\ o[k + 3] = p + q[1].len + q[2].len + q[3].len
    BY <1>4, <1>7, <2>1, <2>3
  <2>5. /\ ItemIs(p + q[1].len + q[2].len + q[3].len, q[4])
        /\ o[k + 4] = p + q[1].len + q[2].len + q[3].len + q[4].len
    BY <1>4, <1>7, <2>1, <2>4
  <2> QED BY <1>2, <1>5, <1>6, <1>10, <2>2, <2>3, <2>4, <2>5 DEF m
<1>11. CASE m \notin {1, 2, 4}
  BY <1>5, <1>6, <1>11 DEF m
<1> QED BY <1>8, <1>9, <1>10, <1>11

\* What a register gets.
LEMMA GetsFacts ==
    ASSUME NEW n, NEW t, NEW a, NEW r, NEW g, NEW v, NEW j, NEW k, core = State(n, t, a, r, g, v, j, k),
           NEW x
    PROVE  /\ Gets("r12", x) = State(n, t, a + 4, x, g, v, j, k)
           /\ Gets("pc", x) = State(n, t, IF k = -1 THEN EndOf(n) ELSE k, r, g, v, x, k)
           /\ \A reg : reg \notin {"r12", "pc"} => Gets(reg, x) = State(n, t, a + 4, r, reg, x, j, k)
BY DEF Gets, State

\* What a load of the copy does.
LEMMA AfterLoads ==
    ASSUME NEW reg, NEW off, NEW r, NEW v, core.r12 = r, core.value = v
    PROVE  /\ After(Literal(reg, off)) = Loads(reg, Floor4(Pc(core.at)) + off)
           /\ After(LabelledAs(reg, off)) = Loads(reg, LabelAt(off))
           /\ After(Deref(reg, off)) = Gets(reg, WordOf((IF off = "r12" THEN r ELSE v).n))
<1>1. After(Literal(reg, off)) = Loads(reg, Floor4(Pc(core.at)) + off)
  BY DEF After, Literal
<1>2. After(LabelledAs(reg, off)) = Loads(reg, LabelAt(off))
  BY DEF After, LabelledAs
<1>3. After(Deref(reg, off)) = Gets(reg, WordOf((IF off = "r12" THEN r ELSE v).n))
  BY DEF After, Deref
<1> QED BY <1>1, <1>2, <1>3

\* What an instruction does that does not depend on its address.
LEMMA AfterPlain ==
    ASSUME NEW i, i.op = "plain"
    PROVE  After(Same(i)) = [core EXCEPT !.reg = "none", !.value = Nothing, !.jump = Nothing,
                                         !.at = core.at + i.len]
<1> DEFINE x == Same(i)
           does == Meaning(i, CopyAt + core.at, core.taken)
<1>1. does = NoEffect
  BY DEF Meaning
<1>2. x.insn = i /\ x.op = "same" /\ x.len = i.len
  BY DEF Same
<1> HIDE DEF x
<1>3. After(x) = [core EXCEPT !.reg = does.reg, !.value = does.value, !.jump = does.jump,
                              !.at = core.at + i.len]
  BY <1>2 DEF After
<1>4. does.reg = "none" /\ does.value = Nothing /\ does.jump = Nothing
  BY <1>1 DEF NoEffect
<1> QED BY <1>3, <1>4 DEF x

-----------------------------------------------------------------------------
(* The way through a copy *)

\* What copy n should do.
Aim(n, t) ==
    IF n <= moved THEN Meaning(source.insns[n], OrigAt(n), t)
    ELSE Jump(OrigAt(moved + 1) + FlagOf(source.thumb))

\* The processor c has done it.
Achieved(c, does) ==
    /\ ~c.lost
    /\ c.jump = does.jump
    /\ IF does.reg = "r12" THEN c.reg = "none" /\ c.r12 = does.value
       ELSE c.reg = does.reg /\ c.value = does.value
    /\ does.link <=> c.link # -1

\* A register got the value v from the instruction at a.
Got(n, t, a, reg, v) ==
    IF reg = "pc" THEN State(n, t, EndOf(n), Nothing, "none", Nothing, v, -1)
    ELSE IF reg = "r12" THEN State(n, t, a + 4, v, "none", Nothing, Nothing, -1)
    ELSE State(n, t, a + 4, Nothing, reg, v, Nothing, -1)

\* The address a call leads to.
Callee(i, pc) == IF i.op = "bl" THEN pc + i.offset + 1 ELSE Floor4(pc) + i.offset

\* The states of the processor in the copy of i at p, but for the last.
Way(i, pc, n, t, p) ==
    {Fresh(n, t, p)} \cup
      CASE i.op \in {"pc16", "mov16"} \/ (i.op = "ldr" /\ i.reg = "pc") ->
             {Got(n, t, p, "r12", Address32(Target(i, pc).n))}
        [] i.op = "ldr16" \/ (i.op = "ldr" /\ i.reg # "pc") ->
             {Got(n, t, p, i.reg, Address32(Target(i, pc).n))}
        [] i.op = "bcond16" -> IF t THEN {Fresh(n, t, p + 8)} ELSE {Fresh(n, t, p + 2), Fresh(n, t, p + 4)}
        [] i.op \in {"bl", "blx"} ->
             {State(n, t, p + 8, Nothing, "none", Nothing, Nothing, p + 4),
              State(n, t, p + 4, Nothing, "none", Nothing, Address32(Callee(i, pc)), p + 4)}
        [] i.op = "ldr32" -> {Got(n, t, p, i.reg, Address32(Floor4(pc + i.offset))),
                              Got(n, t, p + 8, i.reg, Address32(Floor4(pc + i.offset)))}
        [] OTHER -> {}

\* A word is fetched, from a label or beside the instruction.
LEMMA Fetches ==
    ASSUME Piece(copy), Advances, NEW n, NEW t \in BOOLEAN, NEW a, core = Fresh(n, t, a), NEW reg, NEW m,
           \/ \E l : ItemIs(a, LabelledAs(reg, l)) /\ ItemIs(LabelAt(l), Word(m))
           \/ \E off : ItemIs(a, Literal(reg, off)) /\ ItemIs(Floor4(Pc(a)) + off, Word(m))
    PROVE  core' = Got(n, t, a, reg, Address32(m))
<1>1. core.at = a /\ core = State(n, t, a, Nothing, "none", Nothing, Nothing, -1)
  BY DEF Fresh, State
<1>2. core' = Gets(reg, Address32(m))
  <2>1. ASSUME NEW l, ItemIs(a, LabelledAs(reg, l)), ItemIs(LabelAt(l), Word(m))
        PROVE  core' = Gets(reg, Address32(m))
    <3>1. core' = After(LabelledAs(reg, l))
      BY <1>1, <2>1, Executes
    <3>2. After(LabelledAs(reg, l)) = Loads(reg, LabelAt(l))
      BY <1>1, AfterLoads
    <3>3. Loads(reg, LabelAt(l)) = Gets(reg, Address32(m))
      BY <2>1, LoadsWord
    <3> QED BY <3>1, <3>2, <3>3
  <2>2. ASSUME NEW off, ItemIs(a, Literal(reg, off)), ItemIs(Floor4(Pc(a)) + off, Word(m))
        PROVE  core' = Gets(reg, Address32(m))
    <3>1. core' = After(Literal(reg, off))
      BY <1>1, <2>2, Executes
    <3>2. After(Literal(reg, off)) = Loads(reg, Floor4(Pc(a)) + off)
      BY <1>1, AfterLoads
    <3>3. Loads(reg, Floor4(Pc(a)) + off) = Gets(reg, Address32(m))
      BY <2>2, LoadsWord
    <3> QED BY <3>1, <3>2, <3>3
  <2> QED BY <2>1, <2>2
<1> DEFINE x == Address32(m)
<1> HIDE DEF x
<1>3. /\ Gets("r12", x) = State(n, t, a + 4, x, "none", Nothing, Nothing, -1)
      /\ Gets("pc", x) = State(n, t, IF -1 = -1 THEN EndOf(n) ELSE -1, Nothing, "none", Nothing, x, -1)
      /\ reg \notin {"r12", "pc"} => Gets(reg, x) = State(n, t, a + 4, Nothing, reg, x, Nothing, -1)
  BY <1>1, GetsFacts
<1>4. core' = Got(n, t, a, reg, x)
  BY <1>2, <1>3 DEF Got, x
<1> QED BY <1>4 DEF x

\* A value is fetched through the register that got the address.
LEMMA FetchesThrough ==
    ASSUME Piece(copy), Advances, NEW n, NEW t \in BOOLEAN, NEW a, NEW reg, NEW w, reg # "pc",
           core = Got(n, t, a, reg, Address32(w)), NEW to, to \in {reg, "pc"}, to = "pc" => reg = "r12",
           ItemIs(a + 4, Deref(to, reg))
    PROVE  core' = IF to = "pc"
                   THEN State(n, t, EndOf(n), Address32(w), "none", Nothing, WordOf(w), -1)
                   ELSE Got(n, t, a + 4, reg, WordOf(w))
<1> DEFINE x == Address32(w)
           y == WordOf(w)
<1>1. x.n = w
  BY DEF Address32
<1> HIDE DEF x, y
<1>2. CASE reg = "r12"
  <2>1. /\ core = State(n, t, a + 4, x, "none", Nothing, Nothing, -1) /\ core.at = a + 4
        /\ core.r12 = x /\ core.value = Nothing
    BY <1>2 DEF Got, State, x
  <2>2. core' = After(Deref(to, reg))
    BY <2>1, Executes
  <2>3. After(Deref(to, reg)) = Gets(to, WordOf((IF reg = "r12" THEN x ELSE Nothing).n))
    BY <2>1, AfterLoads
  <2>4. core' = Gets(to, y)
    BY <1>1, <1>2, <2>2, <2>3 DEF y
  <2>5. /\ Gets("r12", y) = State(n, t, a + 4 + 4, y, "none", Nothing, Nothing, -1)
        /\ Gets("pc", y) = State(n, t, IF -1 = -1 THEN EndOf(n) ELSE -1, x, "none", Nothing, y, -1)
    BY <2>1, GetsFacts
  <2> QED BY <1>2, <2>4, <2>5 DEF Got, x, y
<1>3. CASE reg # "r12"
  <2>1. /\ core = State(n, t, a + 4, Nothing, reg, x, Nothing, -1) /\ core.at = a + 4
        /\ core.r12 = Nothing /\ core.value = x
    BY <1>3 DEF Got, State, x
  <2>2. core' = After(Deref(to, reg))
    BY <2>1, Executes
  <2>3. After(Deref(to, reg)) = Gets(to, WordOf((IF reg = "r12" THEN Nothing ELSE x).n))
    BY <2>1, AfterLoads
  <2>4. core' = Gets(to, y)
    BY <1>1, <1>3, <2>2, <2>3 DEF y
  <2>5. Gets(reg, y) = State(n, t, a + 4 + 4, Nothing, reg, y, Nothing, -1)
    BY <1>3, <2>1, GetsFacts
  <2>6. to = reg
    BY <1>3
  <2> QED BY <1>3, <2>4, <2>5, <2>6 DEF Got, y
<1> QED BY <1>2, <1>3

\* The copy of an instruction i, which lay at a, lies behind item k, with label l.
InCopy(i, a, l, n, t, k) ==
    /\ Piece(copy) /\ t \in BOOLEAN /\ a \in Nat /\ source.thumb \in BOOLEAN
    /\ Instruction(source.thumb, i) /\ Relocatable(i)
    /\ \E b : LiesAt(copy, k, b, EndOf(n), Shape(i, Pc(a), l))
    /\ i.op \in WithLabel /\ (i.op = "bcond16" => t) => ItemIs(LabelAt(l), Word(Target(i, Pc(a)).n))
    /\ ~source.thumb => Pc(a) % 4 = 0

\* The next state is on the way, or it is the last and the effect is there.
Goes(i, a, n, t, k) ==
    \/ core' \in Way(i, Pc(a), n, t, Off(copy)[k])
    \/ core'.at = EndOf(n) /\ Achieved(core', Meaning(i, a, t))

\* One item.
LEMMA InCopyOne ==
    ASSUME NEW i, NEW a, NEW l, NEW n, NEW t, NEW k, InCopy(i, a, l, n, t, k), NEW x,
           Shape(i, Pc(a), l) = <<x>>
    PROVE  /\ Off(copy)[k] \in Nat /\ Off(copy)[k] % 4 = 0 /\ ItemIs(Off(copy)[k], x)
           /\ EndOf(n) = Off(copy)[k] + x.len
<1> DEFINE q == Shape(i, Pc(a), l)
           p == Off(copy)[k]
<1>1. PICK b : LiesAt(copy, k, b, EndOf(n), q)
  BY DEF InCopy
<1>2. Piece(copy) /\ Len(q) = 1 /\ q[1] = x
  BY DEF InCopy
<1> HIDE DEF q, p
<1>3. p \in Nat /\ p % 4 = 0 /\ ItemIs(p, q[1]) /\ EndOf(n) = p + q[1].len
  BY <1>1, <1>2, LiesItems DEF p
<1> QED BY <1>2, <1>3 DEF p

\* Two items.
LEMMA InCopyTwo ==
    ASSUME NEW i, NEW a, NEW l, NEW n, NEW t, NEW k, InCopy(i, a, l, n, t, k), NEW x, NEW y,
           Shape(i, Pc(a), l) = <<x, y>>
    PROVE  /\ Off(copy)[k] \in Nat /\ Off(copy)[k] % 4 = 0 /\ ItemIs(Off(copy)[k], x)
           /\ ItemIs(Off(copy)[k] + x.len, y)
           /\ EndOf(n) = Off(copy)[k] + x.len + y.len
<1> DEFINE q == Shape(i, Pc(a), l)
           p == Off(copy)[k]
<1>1. PICK b : LiesAt(copy, k, b, EndOf(n), q)
  BY DEF InCopy
<1>2. Piece(copy) /\ Len(q) = 2 /\ q[1] = x /\ q[2] = y
  BY DEF InCopy
<1> HIDE DEF q, p
<1>3. /\ p \in Nat /\ p % 4 = 0 /\ ItemIs(p, q[1]) /\ ItemIs(p + q[1].len, q[2])
      /\ EndOf(n) = p + q[1].len + q[2].len
  BY <1>1, <1>2, LiesItems DEF p
<1> QED BY <1>2, <1>3 DEF p

\* Four items.
LEMMA InCopyFour ==
    ASSUME NEW i, NEW a, NEW l, NEW n, NEW t, NEW k, InCopy(i, a, l, n, t, k),
           NEW x, NEW y, NEW z, NEW w, Shape(i, Pc(a), l) = <<x, y, z, w>>
    PROVE  /\ Off(copy)[k] \in Nat /\ Off(copy)[k] % 4 = 0 /\ ItemIs(Off(copy)[k], x)
           /\ ItemIs(Off(copy)[k] + x.len, y) /\ ItemIs(Off(copy)[k] + x.len + y.len, z)
           /\ ItemIs(Off(copy)[k] + x.len + y.len + z.len, w)
           /\ EndOf(n) = Off(copy)[k] + x.len + y.len + z.len + w.len
<1> DEFINE q == Shape(i, Pc(a), l)
           p == Off(copy)[k]
<1>1. PICK b : LiesAt(copy, k, b, EndOf(n), q)
  BY DEF InCopy
<1>2. Piece(copy) /\ Len(q) = 4 /\ q[1] = x /\ q[2] = y /\ q[3] = z /\ q[4] = w
  BY DEF InCopy
<1> HIDE DEF q, p
<1>3. /\ p \in Nat /\ p % 4 = 0 /\ ItemIs(p, q[1]) /\ ItemIs(p + q[1].len, q[2])
      /\ ItemIs(p + q[1].len + q[2].len, q[3]) /\ ItemIs(p + q[1].len + q[2].len + q[3].len, q[4])
      /\ EndOf(n) = p + q[1].len + q[2].len + q[3].len + q[4].len
  BY <1>1, <1>2, LiesItems DEF p
<1> QED BY <1>2, <1>3 DEF p

\* An instruction that is the same everywhere.
LEMMA GoesPlain ==
    ASSUME NEW i, NEW a, NEW l, NEW n, NEW t, NEW k, InCopy(i, a, l, n, t, k), Advances,
           i.op = "plain", core \in Way(i, Pc(a), n, t, Off(copy)[k])
    PROVE  Goes(i, a, n, t, k)
<1> DEFINE p == Off(copy)[k]
<1>1. Shape(i, Pc(a), l) = <<Same(i)>> /\ Same(i).len = i.len
  BY DEF Shape, Same
<1>2. p \in Nat /\ ItemIs(p, Same(i)) /\ EndOf(n) = p + i.len
  BY <1>1, InCopyOne
<1>3. core = Fresh(n, t, p)
  BY DEF Way
<1> HIDE DEF p
<1>4. core = State(n, t, p, Nothing, "none", Nothing, Nothing, -1) /\ core.at = p
  BY <1>3 DEF Fresh, State
<1>5. core' = After(Same(i))
  BY <1>2, <1>4, Executes DEF InCopy
<1>6. core' = State(n, t, p + i.len, Nothing, "none", Nothing, Nothing, -1)
  <2>1. core' = [core EXCEPT !.reg = "none", !.value = Nothing, !.jump = Nothing, !.at = core.at + i.len]
    BY <1>5, AfterPlain
  <2> QED BY <1>4, <2>1 DEF State
<1>7. Meaning(i, a, t) = NoEffect
  BY DEF Meaning
<1>8. core'.at = EndOf(n) /\ Achieved(core', NoEffect)
  BY <1>2, <1>6 DEF State, Achieved, NoEffect
<1> QED BY <1>7, <1>8 DEF Goes

\* A jump to a label, or an address for a register.
LEMMA GoesToLabel ==
    ASSUME NEW i, NEW a, NEW l, NEW n, NEW t, NEW k, InCopy(i, a, l, n, t, k), Advances,
           i.op \in {"bxpc", "b16", "adr"}, core \in Way(i, Pc(a), n, t, Off(copy)[k])
    PROVE  Goes(i, a, n, t, k)
<1> DEFINE p == Off(copy)[k]
           reg == IF i.op = "adr" THEN i.reg ELSE "pc"
           m == Target(i, Pc(a)).n
<1>1. Shape(i, Pc(a), l) = <<LabelledAs(reg, l)>> /\ LabelledAs(reg, l).len = 4
  BY DEF Shape, LabelledAs
<1>2. p \in Nat /\ ItemIs(p, LabelledAs(reg, l)) /\ EndOf(n) = p + 4
  BY <1>1, InCopyOne
<1>3. core = Fresh(n, t, p)
  BY DEF Way
<1>4. ItemIs(LabelAt(l), Word(m)) /\ Piece(copy) /\ t \in BOOLEAN
  BY DEF InCopy, WithLabel
<1>5. Meaning(i, a, t) = Load(reg, Address32(m)) /\ reg \notin {"none", "use"}
  <2>1. CASE i.op = "bxpc"
    <3>1. ~i.cond
      BY <2>1 DEF InCopy, Instruction, ThumbKinds, ArmKinds, ThumbConditional
    <3> QED BY <2>1, <3>1 DEF Meaning, Target, Load, Jump
  <2>2. CASE i.op = "b16"
    <3>1. ~i.cond /\ i.imm < 1024 /\ i.imm \in Nat
      BY <2>2 DEF InCopy, Instruction, ThumbKinds, ArmKinds, ThumbConditional, Relocatable
    <3>2. Signed11(i.imm) = i.imm
      BY <3>1 DEF Signed11
    <3> QED BY <2>2, <3>1, <3>2 DEF Meaning, Target, Load, Jump
  <2>3. CASE i.op = "adr"
    <3>1. ~i.cond /\ i.rotate = 0 /\ i.imm \in Nat /\ i.reg \notin {"none", "use"}
      BY <2>3 DEF InCopy, Instruction, ThumbKinds, ArmKinds, ThumbConditional, Relocatable
    <3>2. 256 * i.rotate + i.imm = i.imm
      BY <3>1
    <3>3. Rotated(i) = i.imm
      BY <3>1 DEF Rotated
    <3>4. Target(i, Pc(a)).n = Pc(a) + i.sign * i.imm
      BY <2>3, <3>2 DEF Target
    <3> QED BY <2>3, <3>1, <3>3, <3>4 DEF Meaning
  <2> QED BY <2>1, <2>2, <2>3
<1> HIDE DEF p, reg, m
<1>6. core' = Got(n, t, p, reg, Address32(m))
  BY <1>2, <1>3, <1>4, Fetches
<1>7. core'.at = EndOf(n)
  BY <1>2, <1>6 DEF Got, State
<1>8. Achieved(core', Load(reg, Address32(m)))
  BY <1>5, <1>6 DEF Achieved, Load, Jump, Got, State
<1> QED BY <1>5, <1>7, <1>8 DEF Goes

\* The pc is used by an instruction.
LEMMA GoesWithPc ==
    ASSUME NEW i, NEW a, NEW l, NEW n, NEW t, NEW k, InCopy(i, a, l, n, t, k), Advances,
           i.op \in {"pc16", "mov16"}, core \in Way(i, Pc(a), n, t, Off(copy)[k])
    PROVE  Goes(i, a, n, t, k)
<1> DEFINE p == Off(copy)[k]
           x == Address32(Pc(a))
<1>1. /\ Shape(i, Pc(a), l) = <<LabelledAs("r12", l), UseR12(i)>>
      /\ LabelledAs("r12", l).len = 4 /\ UseR12(i).len = 2
  BY DEF Shape, LabelledAs, UseR12
<1>2. p \in Nat /\ ItemIs(p, LabelledAs("r12", l)) /\ ItemIs(p + 4, UseR12(i)) /\ EndOf(n) = p + 4 + 2
  BY <1>1, InCopyTwo
<1>3. Target(i, Pc(a)).n = Pc(a)
  BY DEF Target
<1>4. ItemIs(LabelAt(l), Word(Pc(a))) /\ Piece(copy) /\ t \in BOOLEAN
  BY <1>3 DEF InCopy, WithLabel
<1>5. Way(i, Pc(a), n, t, p) = {Fresh(n, t, p), Got(n, t, p, "r12", x)}
  BY <1>3 DEF Way
<1>6. CASE core = Fresh(n, t, p)
  <2> HIDE DEF p
  <2>1. core' = Got(n, t, p, "r12", x)
    BY <1>2, <1>4, <1>6, Fetches
  <2> QED BY <1>5, <2>1 DEF Goes, p
<1>7. CASE core = Got(n, t, p, "r12", x)
  <2> HIDE DEF p, x
  <2>1. core = State(n, t, p + 4, x, "none", Nothing, Nothing, -1) /\ core.at = p + 4
    BY <1>7 DEF Got, State
  <2>2. core' = After(UseR12(i))
    BY <1>2, <1>4, <2>1, Executes
  <2>3. core' = State(n, t, p + 4 + 2, x, "use", x, Nothing, -1)
    <3>1. ~(i.op = "pc16" /\ i.reg \in {"r12", "pc"})
      BY DEF InCopy, Relocatable
    <3>2. UsedValue(i) = x
      BY <2>1, <3>1 DEF UsedValue, State
    <3>3. UseR12(i).insn = i /\ UseR12(i).op = "use" /\ UseR12(i).len = 2
      BY DEF UseR12
    <3>4. core' = [core EXCEPT !.reg = "use", !.value = x, !.at = core.at + 2]
      BY <2>2, <3>2, <3>3 DEF After
    <3> QED BY <2>1, <3>4 DEF State
  <2>4. ~i.cond
    BY DEF InCopy, Instruction, ThumbKinds, ArmKinds, ThumbConditional
  <2>5. Meaning(i, a, t) = Load("use", x)
    BY <2>4 DEF Meaning, x
  <2>6. core'.at = EndOf(n) /\ Achieved(core', Load("use", x))
    BY <1>2, <2>3 DEF State, Achieved, Load
  <2> QED BY <2>5, <2>6 DEF Goes
<1> QED BY <1>5, <1>6, <1>7

\* A load through a register.
LEMMA GoesThrough ==
    ASSUME NEW i, NEW a, NEW l, NEW n, NEW t, NEW k, InCopy(i, a, l, n, t, k), Advances,
           i.op \in {"ldr", "ldr16"}, core \in Way(i, Pc(a), n, t, Off(copy)[k])
    PROVE  Goes(i, a, n, t, k)
<1> DEFINE p == Off(copy)[k]
           reg == IF i.op = "ldr" /\ i.reg = "pc" THEN "r12" ELSE i.reg
           m == Target(i, Pc(a)).n
           first == LabelledAs(reg, l)
           second == Deref(i.reg, reg)
           x == Got(n, t, p, reg, Address32(m))
<1>1. Shape(i, Pc(a), l) = <<first, second>> /\ first.len = 4 /\ second.len = 4
  BY DEF Shape, LabelledAs, Deref
<1>2. p \in Nat /\ ItemIs(p, first) /\ ItemIs(p + 4, second) /\ EndOf(n) = p + 4 + 4
  BY <1>1, InCopyTwo
<1>3. ItemIs(LabelAt(l), Word(m)) /\ Piece(copy) /\ t \in BOOLEAN
  BY DEF InCopy, WithLabel
<1>4. /\ i.reg \notin {"none", "use"} /\ reg # "pc" /\ i.reg \in {reg, "pc"} /\ (i.reg = "pc" => reg = "r12")
      /\ ~i.cond
  <2>1. i.op = "ldr16" => i.reg # "pc"
    BY DEF InCopy, Instruction
  <2>2. i.reg \notin {"none", "use"}
    BY DEF InCopy, Instruction
  <2>3. ~i.cond
    BY DEF InCopy, Instruction, Relocatable, ThumbKinds, ArmKinds, ThumbConditional
  <2> QED BY <2>1, <2>2, <2>3
<1>5. Meaning(i, a, t) = Load(i.reg, WordOf(m))
  <2>1. Pc(a) \in Nat /\ i.imm \in Nat /\ i.offset \in Int
    BY DEF InCopy, Pc, Instruction
  <2>2. CASE i.op = "ldr16"
    <3>1. \A x1, y1 \in Nat : Floor4(x1 + 4 * y1) = Floor4(x1) + 4 * y1
      BY DEF Floor4
    <3>2. m = Floor4(Pc(a)) + 4 * i.imm
      BY <2>1, <2>2, <3>1 DEF Target
    <3> QED BY <1>4, <2>2, <3>2 DEF Meaning
  <2>3. CASE i.op = "ldr"
    <3>1. Pc(a) % 4 = 0
      BY <2>3 DEF InCopy, Instruction, ThumbKinds, ThumbConditional
    <3>2. Floor4(Pc(a)) = Pc(a)
      BY <2>1, <3>1 DEF Floor4
    <3>3. m = Floor4(Pc(a)) + i.offset
      BY <2>3, <3>2 DEF Target
    <3> QED BY <1>4, <2>3, <3>3 DEF Meaning
  <2> QED BY <2>2, <2>3
<1>6. Way(i, Pc(a), n, t, p) = {Fresh(n, t, p), x}
  BY DEF Way
<1>7. CASE core = Fresh(n, t, p)
  <2>1. core' = x
    <3> HIDE DEF p, m, reg
    <3> QED BY <1>2, <1>3, <1>7, Fetches
  <2> QED BY <1>6, <2>1 DEF Goes
<1>8. CASE core = x
  <2> HIDE DEF p, m, reg
  <2>1. core' = IF i.reg = "pc"
                THEN State(n, t, EndOf(n), Address32(m), "none", Nothing, WordOf(m), -1)
                ELSE Got(n, t, p + 4, reg, WordOf(m))
    BY <1>2, <1>3, <1>4, <1>8, FetchesThrough
  <2>2. core'.at = EndOf(n) /\ Achieved(core', Load(i.reg, WordOf(m)))
    <3>1. CASE i.reg = "pc"
      <4>1. core' = State(n, t, EndOf(n), Address32(m), "none", Nothing, WordOf(m), -1)
        BY <2>1, <3>1
      <4> QED BY <3>1, <4>1 DEF State, Achieved, Load, Jump
    <3>2. CASE i.reg # "pc"
      <4>1. core' = Got(n, t, p + 4, i.reg, WordOf(m))
        BY <1>4, <2>1, <3>2
      <4> QED BY <1>2, <1>4, <3>2, <4>1 DEF Got, State, Achieved, Load
    <3> QED BY <3>1, <3>2
  <2> QED BY <1>5, <2>2 DEF Goes
<1> QED BY <1>6, <1>7, <1>8

\* A branch on a condition.
LEMMA GoesIf ==
    ASSUME NEW i, NEW a, NEW l, NEW n, NEW t, NEW k, InCopy(i, a, l, n, t, k), Advances,
           i.op = "bcond16", core \in Way(i, Pc(a), n, t, Off(copy)[k])
    PROVE  Goes(i, a, n, t, k)
<1> DEFINE p == Off(copy)[k]
           first == Branch(2, 4, FALSE, TRUE)
           m == Target(i, Pc(a)).n
<1>1. /\ Shape(i, Pc(a), l) = <<first, Nop, Goto4(4), LabelledAs("pc", l)>>
      /\ first.len = 2 /\ Nop.len = 2 /\ Goto4(4).len = 4 /\ LabelledAs("pc", l).len = 4
  BY DEF Shape, Branch, Nop, Goto4, LabelledAs
<1>2. /\ p \in Nat /\ ItemIs(p, first) /\ ItemIs(p + 2, Nop) /\ ItemIs(p + 2 + 2, Goto4(4))
      /\ ItemIs(p + 2 + 2 + 4, LabelledAs("pc", l)) /\ EndOf(n) = p + 2 + 2 + 4 + 4
  <2> DEFINE x == first
             y == Nop
             z == Goto4(4)
             w == LabelledAs("pc", l)
  <2>1. /\ Shape(i, Pc(a), l) = <<x, y, z, w>>
        /\ x.len = 2 /\ y.len = 2 /\ z.len = 4 /\ w.len = 4
    BY <1>1
  <2> HIDE DEF x, y, z, w
  <2>2. /\ p \in Nat /\ ItemIs(p, x) /\ ItemIs(p + x.len, y) /\ ItemIs(p + x.len + y.len, z)
        /\ ItemIs(p + x.len + y.len + z.len, w) /\ EndOf(n) = p + x.len + y.len + z.len + w.len
    BY <2>1, InCopyFour
  <2>3. /\ p \in Nat /\ ItemIs(p, x) /\ ItemIs(p + 2, y) /\ ItemIs(p + 2 + 2, z)
        /\ ItemIs(p + 2 + 2 + 4, w) /\ EndOf(n) = p + 2 + 2 + 4 + 4
    BY <2>1, <2>2
  <2> QED BY <2>3 DEF x, y, z, w
<1>3. Piece(copy) /\ t \in BOOLEAN /\ (t => ItemIs(LabelAt(l), Word(m)))
  BY DEF InCopy, WithLabel
<1>4. i.cond /\ source.thumb /\ i.imm \in Nat /\ i.imm < 16
  BY DEF InCopy, Instruction, Relocatable, ThumbConditional, ArmKinds
<1>5. \A x : Pc(x) = x + 4
  BY <1>4 DEF Pc
<1>6. /\ p + 2 + 2 = p + 4 /\ p + 2 + 2 + 4 = p + 8 /\ p + 2 + 2 + 4 + 4 = p + 12
      /\ p + 4 + 4 = p + 8 /\ p + 4 + 4 + 4 = p + 12
  BY <1>2
<1> HIDE DEF p, m
<1>7. CASE t
  <2>1. Way(i, Pc(a), n, t, p) = {Fresh(n, t, p), Fresh(n, t, p + 8)}
    BY <1>7 DEF Way
  <2>2. CASE core = Fresh(n, t, p)
    <3>1. core' = After(first)
      <4>1. core.at = p
        BY <2>2 DEF Fresh, State
      <4> QED BY <1>2, <1>3, <4>1, Executes
    <3>2. core' = Fresh(n, t, p + 8)
      BY <1>5, <1>6, <1>7, <2>2, <3>1 DEF After, Branch, Fresh, State
    <3> QED BY <2>1, <3>2 DEF Goes, p
  <2>3. CASE core = Fresh(n, t, p + 8)
    <3>1. core' = Got(n, t, p + 8, "pc", Address32(m))
      <4>1. ItemIs(p + 8, LabelledAs("pc", l)) /\ ItemIs(LabelAt(l), Word(m))
        BY <1>2, <1>3, <1>6, <1>7
      <4> QED BY <1>3, <2>3, <4>1, Fetches
    <3>2. Meaning(i, a, t) = Jump(m)
      <4>1. Signed8(i.imm) = i.imm
        BY <1>4 DEF Signed8
      <4> QED BY <1>7, <4>1 DEF Meaning, Target, m
    <3>3. core'.at = EndOf(n) /\ Achieved(core', Jump(m))
      BY <3>1 DEF Got, State, Achieved, Jump
    <3> QED BY <3>2, <3>3 DEF Goes
  <2> QED BY <2>1, <2>2, <2>3 DEF p
<1>8. CASE ~t
  <2>1. Way(i, Pc(a), n, t, p) = {Fresh(n, t, p), Fresh(n, t, p + 2), Fresh(n, t, p + 4)}
    BY <1>8 DEF Way
  <2>2. CASE core = Fresh(n, t, p)
    <3>1. core' = After(first)
      <4>1. core.at = p
        BY <2>2 DEF Fresh, State
      <4> QED BY <1>2, <1>3, <4>1, Executes
    <3>2. core' = Fresh(n, t, p + 2)
      BY <1>8, <2>2, <3>1 DEF After, Branch, Fresh, State
    <3> QED BY <2>1, <3>2 DEF Goes, p
  <2>3. CASE core = Fresh(n, t, p + 2)
    <3>1. core' = After(Nop)
      <4>1. core.at = p + 2
        BY <2>3 DEF Fresh, State
      <4> QED BY <1>2, <1>3, <4>1, Executes
    <3>2. core' = Fresh(n, t, p + 4)
      BY <1>6, <2>3, <3>1 DEF After, Nop, Fresh, State
    <3> QED BY <2>1, <3>2 DEF Goes, p
  <2>4. CASE core = Fresh(n, t, p + 4)
    <3>1. core' = After(Goto4(4))
      <4>1. core.at = p + 4
        BY <2>4 DEF Fresh, State
      <4> QED BY <1>2, <1>3, <1>6, <4>1, Executes
    <3>2. core' = Fresh(n, t, p + 12)
      BY <1>5, <1>6, <2>4, <3>1 DEF After, Goto4, Branch, Fresh, State
    <3>3. Meaning(i, a, t) = NoEffect
      BY <1>4, <1>8 DEF Meaning
    <3>4. core'.at = EndOf(n) /\ Achieved(core', NoEffect)
      BY <1>2, <1>6, <3>2 DEF Fresh, State, Achieved, NoEffect
    <3> QED BY <3>3, <3>4 DEF Goes
  <2> QED BY <2>1, <2>2, <2>3, <2>4 DEF p
<1> QED BY <1>3, <1>7, <1>8

\* A branch to an address in the code.
LEMMA GoesFar ==
    ASSUME NEW i, NEW a, NEW l, NEW n, NEW t, NEW k, InCopy(i, a, l, n, t, k), Advances,
           i.op = "b32", core \in Way(i, Pc(a), n, t, Off(copy)[k])
    PROVE  Goes(i, a, n, t, k)
<1> DEFINE p == Off(copy)[k]
           m == Pc(a) + i.offset + 1
           first == Literal("pc", 0)
<1>1. Shape(i, Pc(a), l) = <<first, Word(m)>> /\ first.len = 4 /\ Word(m).len = 4
  BY DEF Shape, Literal, Word
<1>2. p \in Nat /\ p % 4 = 0 /\ ItemIs(p, first) /\ ItemIs(p + 4, Word(m)) /\ EndOf(n) = p + 4 + 4
  BY <1>1, InCopyTwo
<1>3. core = Fresh(n, t, p)
  BY DEF Way
<1>4. Piece(copy) /\ t \in BOOLEAN /\ source.thumb /\ ~i.cond
  BY DEF InCopy, Instruction, ThumbKinds, ArmKinds, ThumbConditional
<1>5. Meaning(i, a, t) = Jump(m)
  BY <1>4 DEF Meaning
<1> HIDE DEF p, m
<1>6. Floor4(Pc(p)) + 0 = p + 4
  BY <1>2, <1>4 DEF Floor4, Pc
<1>7. ItemIs(p, Literal("pc", 0)) /\ ItemIs(Floor4(Pc(p)) + 0, Word(m))
  BY <1>2, <1>6
<1>8. core' = Got(n, t, p, "pc", Address32(m))
  BY <1>3, <1>4, <1>7, Fetches
<1>9. core'.at = EndOf(n) /\ Achieved(core', Jump(m))
  BY <1>8 DEF Got, State, Achieved, Jump
<1> QED BY <1>5, <1>9 DEF Goes

\* A call: it comes back and jumps over the address.
LEMMA GoesAndReturns ==
    ASSUME NEW i, NEW a, NEW l, NEW n, NEW t, NEW k, InCopy(i, a, l, n, t, k), Advances,
           i.op \in {"bl", "blx"}, core \in Way(i, Pc(a), n, t, Off(copy)[k])
    PROVE  Goes(i, a, n, t, k)
<1> DEFINE p == Off(copy)[k]
           m == Callee(i, Pc(a))
           x == Branch(4, 4, TRUE, FALSE)
           y == Goto4(8)
           z == Literal("pc", 0)
           w == Word(m)
           s1 == State(n, t, p + 8, Nothing, "none", Nothing, Nothing, p + 4)
           s2 == State(n, t, p + 4, Nothing, "none", Nothing, Address32(m), p + 4)
<1>1. /\ Shape(i, Pc(a), l) = <<x, y, z, w>>
      /\ x.len = 4 /\ y.len = 4 /\ z.len = 4 /\ w.len = 4
  <2>1. CASE i.op = "bl"
    BY <2>1 DEF Shape, Branch, Goto4, Literal, Word, Callee
  <2>2. CASE i.op = "blx"
    BY <2>2 DEF Shape, Branch, Goto4, Literal, Word, Callee
  <2> QED BY <2>1, <2>2
<1>2. Piece(copy) /\ t \in BOOLEAN /\ source.thumb /\ ~i.cond
  BY DEF InCopy, Instruction, ThumbKinds, ArmKinds, ThumbConditional
<1>3. Meaning(i, a, t) = [Jump(m) EXCEPT !.link = TRUE]
  BY <1>2 DEF Meaning, Callee
<1>4. Way(i, Pc(a), n, t, p) = {Fresh(n, t, p), s1, s2}
  BY DEF Way
<1>5. \A b : Pc(b) = b + 4
  BY <1>2 DEF Pc
<1> HIDE DEF p, m
<1>6. /\ p \in Nat /\ p % 4 = 0 /\ ItemIs(p, x) /\ ItemIs(p + 4, y) /\ ItemIs(p + 8, z)
      /\ ItemIs(p + 12, w) /\ EndOf(n) = p + 16
  <2> HIDE DEF x, y, z, w
  <2>2. /\ p \in Nat /\ p % 4 = 0 /\ ItemIs(p, x) /\ ItemIs(p + x.len, y) /\ ItemIs(p + x.len + y.len, z)
        /\ ItemIs(p + x.len + y.len + z.len, w) /\ EndOf(n) = p + x.len + y.len + z.len + w.len
    BY <1>1, InCopyFour DEF p
  <2>3. /\ p + x.len = p + 4 /\ p + x.len + y.len = p + 8 /\ p + x.len + y.len + z.len = p + 12
        /\ p + x.len + y.len + z.len + w.len = p + 16
    BY <1>1, <2>2
  <2> QED BY <2>2, <2>3
<1>7. CASE core = Fresh(n, t, p)
  <2>1. core.at = p
    BY <1>7 DEF Fresh, State
  <2>2. core' = After(x)
    <3> HIDE DEF x
    <3> QED BY <1>2, <1>6, <2>1, Executes
  <2>3. p + 4 + 4 = p + 8
    BY <1>6
  <2>4. core' = s1
    BY <1>5, <1>7, <2>2, <2>3 DEF After, Branch, Fresh, State
  <2> QED BY <1>4, <2>4 DEF Goes, p
<1>8. CASE core = s1
  <2>1. core.at = p + 8 /\ core.r12 = Nothing /\ core.value = Nothing
    BY <1>8 DEF State
  <2>2. core' = After(z)
    <3> HIDE DEF z
    <3> QED BY <1>2, <1>6, <2>1, Executes
  <2>3. Floor4(Pc(p + 8)) + 0 = p + 12
    BY <1>5, <1>6 DEF Floor4
  <2>4. core' = Loads("pc", p + 12)
    BY <2>1, <2>2, <2>3, AfterLoads
  <2>5. core' = Gets("pc", Address32(m))
    BY <1>2, <1>6, <2>4, LoadsWord
  <2>6. p + 4 # -1
    BY <1>6
  <2>7. core' = s2
    BY <1>8, <2>5, <2>6 DEF Gets, State
  <2> QED BY <1>4, <2>7 DEF Goes, p
<1>9. CASE core = s2
  <2>1. core.at = p + 4
    BY <1>9 DEF State
  <2>2. core' = After(y)
    <3> HIDE DEF y
    <3> QED BY <1>2, <1>6, <2>1, Executes
  <2>3. p + 4 + 4 + 8 = p + 16 /\ p + 4 # -1
    BY <1>6
  <2>4. core' = State(n, t, p + 16, Nothing, "none", Nothing, Address32(m), p + 4)
    BY <1>5, <1>9, <2>2, <2>3 DEF After, Goto4, Branch, State
  <2>5. core'.at = EndOf(n) /\ Achieved(core', [Jump(m) EXCEPT !.link = TRUE])
    BY <1>6, <2>3, <2>4 DEF State, Achieved, Jump
  <2> QED BY <1>3, <2>5 DEF Goes
<1> QED BY <1>4, <1>7, <1>8, <1>9 DEF p

\* A load from an address in the code.
LEMMA GoesToLiteral ==
    ASSUME NEW i, NEW a, NEW l, NEW n, NEW t, NEW k, InCopy(i, a, l, n, t, k), Advances,
           i.op = "ldr32", core \in Way(i, Pc(a), n, t, Off(copy)[k])
    PROVE  Goes(i, a, n, t, k)
<1> DEFINE p == Off(copy)[k]
           m == Floor4(Pc(a) + i.offset)
           x == Literal(i.reg, 4)
           y == Goto4(4)
           z == Word(m)
           w == Deref(i.reg, i.reg)
           s1 == Got(n, t, p, i.reg, Address32(m))
           s2 == Got(n, t, p + 8, i.reg, Address32(m))
<1>1. /\ Shape(i, Pc(a), l) = <<x, y, z, w>>
      /\ x.len = 4 /\ y.len = 4 /\ z.len = 4 /\ w.len = 4
  BY DEF Shape, Branch, Goto4, Literal, Word, Deref
<1>2. /\ Piece(copy) /\ t \in BOOLEAN /\ source.thumb /\ ~i.cond /\ i.offset \in Int
      /\ i.reg \notin {"none", "use"} /\ i.reg # "pc" /\ i.offset % 4 = 0 /\ a \in Nat
  BY DEF InCopy, Instruction, ThumbKinds, ArmKinds, ThumbConditional, Relocatable
<1>3. Meaning(i, a, t) = Load(i.reg, WordOf(m))
  <2>1. \A b \in Nat, c \in Int : c % 4 = 0 => Floor4(b + c) = Floor4(b) + c
    BY DEF Floor4
  <2>2. m = Floor4(Pc(a)) + i.offset
    <3>1. Pc(a) \in Nat
      BY <1>2 DEF Pc
    <3> QED BY <1>2, <2>1, <3>1
  <2> HIDE DEF m
  <2> QED BY <1>2, <2>2 DEF Meaning
<1>4. Way(i, Pc(a), n, t, p) = {Fresh(n, t, p), s1, s2}
  BY DEF Way
<1>5. \A b : Pc(b) = b + 4
  BY <1>2 DEF Pc
<1> HIDE DEF p, m
<1>6. /\ p \in Nat /\ p % 4 = 0 /\ ItemIs(p, x) /\ ItemIs(p + 4, y) /\ ItemIs(p + 8, z)
      /\ ItemIs(p + 12, w) /\ EndOf(n) = p + 16
  <2> HIDE DEF x, y, z, w
  <2>2. /\ p \in Nat /\ p % 4 = 0 /\ ItemIs(p, x) /\ ItemIs(p + x.len, y) /\ ItemIs(p + x.len + y.len, z)
        /\ ItemIs(p + x.len + y.len + z.len, w) /\ EndOf(n) = p + x.len + y.len + z.len + w.len
    BY <1>1, InCopyFour DEF p
  <2>3. /\ p + x.len = p + 4 /\ p + x.len + y.len = p + 8 /\ p + x.len + y.len + z.len = p + 12
        /\ p + x.len + y.len + z.len + w.len = p + 16
    BY <1>1, <2>2
  <2> QED BY <2>2, <2>3
<1>7. CASE core = Fresh(n, t, p)
  <2>1. Floor4(Pc(p)) + 4 = p + 8
    BY <1>5, <1>6 DEF Floor4
  <2>2. ItemIs(p, Literal(i.reg, 4)) /\ ItemIs(Floor4(Pc(p)) + 4, Word(m))
    BY <1>6, <2>1
  <2>3. core' = s1
    BY <1>2, <1>7, <2>2, Fetches
  <2> QED BY <1>4, <2>3 DEF Goes, p
<1>8. CASE core = s1
  <2>1. core.at = p + 4
    BY <1>2, <1>8 DEF Got, State
  <2>2. core' = After(y)
    <3> HIDE DEF y
    <3> QED BY <1>2, <1>6, <2>1, Executes
  <2>3. p + 4 + 4 + 4 = p + 12 /\ p + 8 + 4 = p + 12
    BY <1>6
  <2>4. core' = [core EXCEPT !.at = p + 12, !.link = core.link]
    <3>1. core' = [core EXCEPT !.at = Pc(core.at) + 4, !.link = core.link]
      BY <2>2 DEF After, Goto4, Branch
    <3>2. Pc(core.at) + 4 = p + 12
      BY <1>5, <2>1, <2>3
    <3> QED BY <3>1, <3>2
  <2> DEFINE v == Address32(m)
  <2> HIDE DEF v
  <2>5. ASSUME i.reg = "r12" PROVE core' = s2
    <3>1. core = State(n, t, p + 4, v, "none", Nothing, Nothing, -1)
      BY <1>8, <2>5 DEF Got, v
    <3>2. core' = State(n, t, p + 12, v, "none", Nothing, Nothing, -1)
      BY <2>4, <3>1 DEF State
    <3> QED BY <2>3, <2>5, <3>2 DEF Got, v
  <2>6. ASSUME i.reg # "r12" PROVE core' = s2
    <3>1. core = State(n, t, p + 4, Nothing, i.reg, v, Nothing, -1)
      BY <1>2, <1>8, <2>6 DEF Got, v
    <3>2. core' = State(n, t, p + 12, Nothing, i.reg, v, Nothing, -1)
      BY <2>4, <3>1 DEF State
    <3> QED BY <1>2, <2>3, <2>6, <3>2 DEF Got, v
  <2>7. core' = s2
    BY <2>5, <2>6
  <2> QED BY <1>4, <2>7 DEF Goes, p
<1>9. CASE core = s2
  <2>1. p + 8 + 4 = p + 12 /\ p + 8 + 4 + 4 = p + 16
    BY <1>6
  <2>2. ItemIs(p + 8 + 4, Deref(i.reg, i.reg))
    BY <1>6, <2>1
  <2>3. core' = Got(n, t, p + 8 + 4, i.reg, WordOf(m))
    <3>1. core' = IF i.reg = "pc"
                  THEN State(n, t, EndOf(n), Address32(m), "none", Nothing, WordOf(m), -1)
                  ELSE Got(n, t, p + 8 + 4, i.reg, WordOf(m))
      BY <1>2, <1>9, <2>2, FetchesThrough
    <3> QED BY <1>2, <3>1
  <2>4. core'.at = EndOf(n) /\ Achieved(core', Load(i.reg, WordOf(m)))
    BY <1>2, <1>6, <2>1, <2>3 DEF Got, State, Achieved, Load
  <2> QED BY <1>3, <2>4 DEF Goes
<1> QED BY <1>4, <1>7, <1>8, <1>9 DEF p

\* Every copy goes its way.
LEMMA GoesOn ==
    ASSUME NEW i, NEW a, NEW l, NEW n, NEW t, NEW k, InCopy(i, a, l, n, t, k), Advances,
           core \in Way(i, Pc(a), n, t, Off(copy)[k])
    PROVE  Goes(i, a, n, t, k)
<1>1. i.op \in {"plain", "pc16", "mov16", "bxpc", "ldr16", "b32", "bl", "blx", "bcond16", "b16",
                "ldr32", "ldr", "adr"}
  BY DEF InCopy, Relocatable
<1> QED BY <1>1, GoesPlain, GoesToLabel, GoesWithPc, GoesThrough, GoesIf, GoesFar, GoesAndReturns,
           GoesToLiteral

-----------------------------------------------------------------------------
(* The processor stays on its way *)

\* What copy n does is among what the property is about.
Good(n, t) ==
    /\ n > moved \/ (Outside(Aim(n, t).jump.n) /\ Outside(Aim(n, t).value.n))
    /\ ~InBlock(n) /\ (n <= moved => Relocatable(source.insns[n]))

\* Copy n lies behind item k.
InPlace(n, t, k) ==
    IF n <= moved THEN \E l : InCopy(source.insns[n], OrigAt(n), l, n, t, k)
    ELSE \E b, e : LiesAt(copy, k, b, e, ToRest)

\* The processor c is at one of the nops before it.
Approaches(c, n, t, k) ==
    /\ k >= 1 /\ copy[k] = Nop /\ starts[n] <= c.at
    /\ \/ c = Fresh(n, t, Off(copy)[k] - 2)
       \/ k >= 2 /\ copy[k - 1] = Nop /\ c = Fresh(n, t, Off(copy)[k] - 4)

Path(n, t, p) ==
    IF n <= moved THEN Way(source.insns[n], Pc(OrigAt(n)), n, t, p) ELSE {Fresh(n, t, p)}

Arrived(c, n, t) == c.at = EndOf(n) /\ Achieved(c, Aim(n, t))

OnTrack(c, n, t) ==
    \E k : /\ InPlace(n, t, k) /\ starts[n] <= Off(copy)[k]
           /\ Approaches(c, n, t, k) \/ c \in Path(n, t, Off(copy)[k]) \/ Arrived(c, n, t)

\* The processor c runs copy n.
Runs(c, n, t) == {"n", "taken"} \subseteq DOMAIN c /\ c.n = n /\ c.taken = t

RunInv ==
    stage \in {"running", "ran"} =>
        \E n \in 1..moved + 1, t \in BOOLEAN :
            /\ Runs(core, n, t)
            /\ Good(n, t) => OnTrack(core, n, t)
            /\ Good(n, t) /\ stage = "ran" => Arrived(core, n, t)

ArmInv == Moved /\ (stage # "relocating" => Finished) /\ RunInv

\* The code does not change while it runs.
LEMMA CodeStays ==
    ASSUME UNCHANGED <<source, moved, copy, starts, labels>>
    PROVE  /\ \A c, n, t : OnTrack(c, n, t)' <=> OnTrack(c, n, t)
           /\ \A c, n, t : Arrived(c, n, t)' <=> Arrived(c, n, t)
           /\ \A n, t : Good(n, t)' <=> Good(n, t)
           /\ \A n, t, k : InPlace(n, t, k)' <=> InPlace(n, t, k)
<1>1. /\ \A a : Pc(a)' = Pc(a)
      /\ \A n : OrigAt(n)' = OrigAt(n) /\ EndOf(n)' = EndOf(n) /\ LabelAt(n)' = LabelAt(n)
      /\ \A a, x : ItemIs(a, x)' <=> ItemIs(a, x)
      /\ \A x : Outside(x)' <=> Outside(x)
      /\ \A n : InBlock(n)' <=> InBlock(n)
  BY DEF Pc, OrigAt, EndOf, LabelAt, ItemIs, Outside, TrampolineSize, InBlock
<1>2. ToRest' = ToRest
  BY <1>1 DEF ToRest
<1>3. \A i, a, t : Meaning(i, a, t)' = Meaning(i, a, t)
  <2> SUFFICES ASSUME NEW i, NEW a, NEW t PROVE Meaning(i, a, t)' = Meaning(i, a, t)
    OBVIOUS
  <2>1. Pc(a)' = Pc(a)
    BY <1>1
  <2> QED BY <2>1, Zenon DEF Meaning
<1>4. \A n, t : Aim(n, t)' = Aim(n, t)
  BY <1>1, <1>3 DEF Aim
<1>5. \A n, t : Good(n, t)' <=> Good(n, t)
  BY <1>1, <1>4 DEF Good
<1>6. \A n, t, a, reg, v : Got(n, t, a, reg, v)' = Got(n, t, a, reg, v)
  BY <1>1 DEF Got
<1>7. \A i, pc, n, t, p : Way(i, pc, n, t, p)' = Way(i, pc, n, t, p)
  BY <1>6 DEF Way
<1>8. \A n, t, p : Path(n, t, p)' = Path(n, t, p)
  BY <1>1, <1>7 DEF Path
<1>9. \A i, a, l, n, t, k : InCopy(i, a, l, n, t, k)' <=> InCopy(i, a, l, n, t, k)
  BY <1>1 DEF InCopy
<1>10. \A n, t, k : InPlace(n, t, k)' <=> InPlace(n, t, k)
  BY <1>1, <1>2, <1>9 DEF InPlace
<1>11. \A c, n, t : Arrived(c, n, t)' <=> Arrived(c, n, t)
  BY <1>1, <1>4 DEF Arrived
<1>12. \A c, n, t, k : Approaches(c, n, t, k)' <=> Approaches(c, n, t, k)
  BY DEF Approaches
<1>13. \A c, n, t : OnTrack(c, n, t)' <=> OnTrack(c, n, t)
  BY <1>8, <1>10, <1>11, <1>12 DEF OnTrack
<1> QED BY <1>5, <1>10, <1>11, <1>13

\* The processor runs what it entered.
LEMMA RunsStill ==
    ASSUME NEW n, NEW t, Runs(core, n, t), Execute
    PROVE  Runs(core', n, t)
<1>1. {"n", "taken"} \subseteq DOMAIN core /\ core.n = n /\ core.taken = t
  BY DEF Runs
<1>3. /\ \A b : Runs([core EXCEPT !.at = b], n, t)
      /\ \A b, m : Runs([core EXCEPT !.at = b, !.link = m], n, t)
      /\ \A b, x : Runs([core EXCEPT !.r12 = x, !.at = b], n, t)
      /\ \A b, x : Runs([core EXCEPT !.jump = x, !.at = b], n, t)
      /\ \A b, x, y : Runs([core EXCEPT !.reg = x, !.value = y, !.at = b], n, t)
      /\ \A b, x, y, z : Runs([core EXCEPT !.reg = x, !.value = y, !.jump = z, !.at = b], n, t)
      /\ Runs(Lost, n, t)
  BY <1>1 DEF Runs, Lost
<1>4. ASSUME NEW reg, NEW x PROVE Runs(Gets(reg, x), n, t)
  BY <1>3, Zenon DEF Gets
<1>5. ASSUME NEW reg, NEW x PROVE Runs(Loads(reg, x), n, t)
  BY <1>3, <1>4, Zenon DEF Loads
<1>6. ASSUME NEW i PROVE Runs(After(i), n, t)
  BY <1>3, <1>4, <1>5, Zenon DEF After
<1> QED BY <1>3, <1>6 DEF Execute

\* On the way through the copy of an instruction the end is not reached.
LEMMA WayGoesOn ==
    ASSUME NEW i, NEW a, NEW l, NEW n, NEW t, NEW k, InCopy(i, a, l, n, t, k)
    PROVE  /\ Off(copy)[k] \in Nat /\ Off(copy)[k] < EndOf(n)
           /\ \A c \in Way(i, Pc(a), n, t, Off(copy)[k]) :
                ~c.lost /\ c.at \in Nat /\ Off(copy)[k] <= c.at /\ c.at < EndOf(n)
<1> DEFINE p == Off(copy)[k]
           pc == Pc(a)
           v == Address32(Target(i, pc).n)
           u == Address32(Floor4(pc + i.offset))
<1>1. i.op \in {"plain", "pc16", "mov16", "bxpc", "ldr16", "b32", "bl", "blx", "bcond16", "b16",
                "ldr32", "ldr", "adr"}
  BY DEF InCopy, Relocatable
<1>2. i.len \in {2, 4} /\ (i.op \in {"ldr16", "ldr32"} => i.reg # "pc")
  BY DEF InCopy, Instruction, Relocatable
<1>3. \A b : Fresh(n, t, b).at = b /\ ~Fresh(n, t, b).lost
  BY DEF Fresh, State
<1>4. \A b, reg, x : reg # "pc" => Got(n, t, b, reg, x).at = b + 4 /\ ~Got(n, t, b, reg, x).lost
  BY DEF Got, State
<1>5. CASE i.op \in {"plain", "bxpc", "b16", "adr"}
  <2>1. \E x : Shape(i, pc, l) = <<x>> /\ x.len \in {2, 4}
    BY <1>2, <1>5 DEF Shape, Same, LabelledAs
  <2>2. PICK x : Shape(i, pc, l) = <<x>> /\ x.len \in {2, 4}
    BY <2>1
  <2>3. p \in Nat /\ EndOf(n) = p + x.len
    BY <2>2, InCopyOne
  <2>4. Way(i, pc, n, t, p) = {Fresh(n, t, p)}
    BY <1>5 DEF Way
  <2> HIDE DEF p, pc
  <2>5. p < EndOf(n) /\ p <= p
    BY <2>2, <2>3
  <2> QED BY <1>3, <2>3, <2>4, <2>5 DEF p, pc
<1>6. CASE i.op \in {"pc16", "mov16", "ldr", "ldr16", "b32"}
  <2>1. \E x, y : Shape(i, pc, l) = <<x, y>> /\ x.len = 4 /\ y.len \in {2, 4}
    BY <1>6 DEF Shape, UseR12, LabelledAs, Deref, Literal, Word
  <2>2. PICK x, y : Shape(i, pc, l) = <<x, y>> /\ x.len = 4 /\ y.len \in {2, 4}
    BY <2>1
  <2>3. p \in Nat /\ EndOf(n) = p + x.len + y.len
    BY <2>2, InCopyTwo
  <2>4. \E reg : reg # "pc" /\ Way(i, pc, n, t, p) \subseteq {Fresh(n, t, p), Got(n, t, p, reg, v)}
    <3>1. CASE i.op = "b32"
      <4>1. Way(i, pc, n, t, p) = {Fresh(n, t, p)} /\ "r12" # "pc"
        BY <3>1 DEF Way
      <4> QED BY <4>1
    <3>2. CASE i.op \in {"pc16", "mov16"} \/ (i.op = "ldr" /\ i.reg = "pc")
      <4>1. Way(i, pc, n, t, p) = {Fresh(n, t, p), Got(n, t, p, "r12", v)} /\ "r12" # "pc"
        BY <3>2 DEF Way
      <4> QED BY <4>1
    <3>3. CASE i.op = "ldr16" \/ (i.op = "ldr" /\ i.reg # "pc")
      <4>1. Way(i, pc, n, t, p) = {Fresh(n, t, p), Got(n, t, p, i.reg, v)} /\ i.reg # "pc"
        BY <1>2, <3>3 DEF Way
      <4> QED BY <4>1
    <3> QED BY <1>6, <3>1, <3>2, <3>3
  <2>5. PICK reg : reg # "pc" /\ Way(i, pc, n, t, p) \subseteq {Fresh(n, t, p), Got(n, t, p, reg, v)}
    BY <2>4
  <2> HIDE DEF p, pc, v
  <2>6. p < EndOf(n) /\ p + 4 < EndOf(n) /\ p <= p /\ p <= p + 4 /\ p + 4 \in Nat
    BY <2>2, <2>3
  <2>7. \A c \in {Fresh(n, t, p), Got(n, t, p, reg, v)} : ~c.lost /\ c.at \in Nat /\ p <= c.at /\ c.at < EndOf(n)
    BY <1>3, <1>4, <2>3, <2>5, <2>6
  <2> QED BY <2>3, <2>5, <2>6, <2>7 DEF p, pc
<1>7. CASE i.op \in {"bcond16", "bl", "blx", "ldr32"}
  <2>1. \E x, y, z, w : /\ Shape(i, pc, l) = <<x, y, z, w>>
                        /\ x.len + y.len + z.len + w.len = IF i.op = "bcond16" THEN 12 ELSE 16
                        /\ x.len \in Nat /\ y.len \in Nat /\ z.len \in Nat /\ w.len \in Nat
    <3>1. CASE i.op = "bcond16"
      <4> DEFINE x == Branch(2, 4, FALSE, TRUE)
                 y == Nop
                 z == Goto4(4)
                 w == LabelledAs("pc", l)
      <4>1. Shape(i, pc, l) = <<x, y, z, w>>
        BY <3>1 DEF Shape
      <4>2. x.len = 2 /\ y.len = 2 /\ z.len = 4 /\ w.len = 4
        BY DEF Branch, Nop, Goto4, LabelledAs
      <4> HIDE DEF x, y, z, w
      <4> QED BY <3>1, <4>1, <4>2
    <3>2. CASE i.op \in {"bl", "blx"}
      <4> DEFINE x == Branch(4, 4, TRUE, FALSE)
                 y == Goto4(8)
                 z == Literal("pc", 0)
                 w == Word(Callee(i, pc))
      <4>1. Shape(i, pc, l) = <<x, y, z, w>>
        <5>1. CASE i.op = "bl"
          BY <5>1 DEF Shape, Callee
        <5>2. CASE i.op = "blx"
          BY <5>2 DEF Shape, Callee
        <5> QED BY <3>2, <5>1, <5>2
      <4>2. x.len = 4 /\ y.len = 4 /\ z.len = 4 /\ w.len = 4
        BY DEF Branch, Goto4, Literal, Word
      <4> HIDE DEF x, y, z, w
      <4> QED BY <3>2, <4>1, <4>2
    <3>3. CASE i.op = "ldr32"
      <4> DEFINE x == Literal(i.reg, 4)
                 y == Goto4(4)
                 z == Word(Floor4(pc + i.offset))
                 w == Deref(i.reg, i.reg)
      <4>1. Shape(i, pc, l) = <<x, y, z, w>>
        BY <3>3 DEF Shape
      <4>2. x.len = 4 /\ y.len = 4 /\ z.len = 4 /\ w.len = 4
        BY DEF Branch, Goto4, Literal, Word, Deref
      <4> HIDE DEF x, y, z, w
      <4> QED BY <3>3, <4>1, <4>2
    <3> QED BY <1>7, <3>1, <3>2, <3>3
  <2>2. PICK x, y, z, w : /\ Shape(i, pc, l) = <<x, y, z, w>>
                          /\ x.len + y.len + z.len + w.len = IF i.op = "bcond16" THEN 12 ELSE 16
                          /\ x.len \in Nat /\ y.len \in Nat /\ z.len \in Nat /\ w.len \in Nat
    BY <2>1
  <2>3. p \in Nat /\ EndOf(n) = p + x.len + y.len + z.len + w.len
    BY <2>2, InCopyFour
  <2>4. EndOf(n) = p + (IF i.op = "bcond16" THEN 12 ELSE 16)
    BY <2>2, <2>3
  <2>5. CASE i.op = "bcond16"
    <3>1. Way(i, pc, n, t, p) \subseteq
            {Fresh(n, t, p), Fresh(n, t, p + 8), Fresh(n, t, p + 2), Fresh(n, t, p + 4)}
      BY <2>5 DEF Way
    <3> HIDE DEF p, pc
    <3>2. /\ p < EndOf(n) /\ p + 8 < EndOf(n) /\ p + 2 < EndOf(n) /\ p + 4 < EndOf(n)
          /\ p <= p /\ p <= p + 8 /\ p <= p + 2 /\ p <= p + 4
          /\ p + 8 \in Nat /\ p + 2 \in Nat /\ p + 4 \in Nat
      BY <2>3, <2>4, <2>5
    <3>3. \A c \in {Fresh(n, t, p), Fresh(n, t, p + 8), Fresh(n, t, p + 2), Fresh(n, t, p + 4)} :
            ~c.lost /\ c.at \in Nat /\ p <= c.at /\ c.at < EndOf(n)
      BY <1>3, <2>3, <3>2
    <3> QED BY <2>3, <3>1, <3>2, <3>3 DEF p, pc
  <2>6. CASE i.op \in {"bl", "blx"}
    <3> DEFINE s1 == State(n, t, p + 8, Nothing, "none", Nothing, Nothing, p + 4)
               s2 == State(n, t, p + 4, Nothing, "none", Nothing, Address32(Callee(i, pc)), p + 4)
    <3>1. Way(i, pc, n, t, p) = {Fresh(n, t, p), s1, s2}
      BY <2>6 DEF Way
    <3>2. s1.at = p + 8 /\ ~s1.lost /\ s2.at = p + 4 /\ ~s2.lost
      BY DEF State
    <3> HIDE DEF p, pc, s1, s2
    <3>3. /\ p < EndOf(n) /\ p + 8 < EndOf(n) /\ p + 4 < EndOf(n)
          /\ p <= p /\ p <= p + 8 /\ p <= p + 4 /\ p + 8 \in Nat /\ p + 4 \in Nat
      BY <2>3, <2>4, <2>6
    <3>4. \A c \in {Fresh(n, t, p), s1, s2} : ~c.lost /\ c.at \in Nat /\ p <= c.at /\ c.at < EndOf(n)
      BY <1>3, <2>3, <3>2, <3>3
    <3> QED BY <2>3, <3>1, <3>3, <3>4 DEF p, pc
  <2>7. CASE i.op = "ldr32"
    <3> DEFINE s1 == Got(n, t, p, i.reg, u)
               s2 == Got(n, t, p + 8, i.reg, u)
    <3>1. Way(i, pc, n, t, p) = {Fresh(n, t, p), s1, s2}
      BY <2>7 DEF Way
    <3>2. s1.at = p + 4 /\ ~s1.lost /\ s2.at = p + 8 + 4 /\ ~s2.lost
      BY <1>2, <1>4, <2>7
    <3> HIDE DEF p, pc, s1, s2
    <3>3. /\ p < EndOf(n) /\ p + 8 + 4 < EndOf(n) /\ p + 4 < EndOf(n)
          /\ p <= p /\ p <= p + 8 + 4 /\ p <= p + 4 /\ p + 8 + 4 \in Nat /\ p + 4 \in Nat
      BY <2>3, <2>4, <2>7
    <3>4. \A c \in {Fresh(n, t, p), s1, s2} : ~c.lost /\ c.at \in Nat /\ p <= c.at /\ c.at < EndOf(n)
      BY <1>3, <2>3, <3>2, <3>3
    <3> QED BY <2>3, <3>1, <3>3, <3>4 DEF p, pc
  <2> QED BY <1>7, <2>5, <2>6, <2>7
<1> QED BY <1>1, <1>5, <1>6, <1>7

\* Before the end is reached, the processor goes on.
LEMMA NotYet ==
    ASSUME Piece(copy), NEW n, NEW t, NEW k, InPlace(n, t, k), n \in Nat, moved \in Nat,
           starts[n] \in Nat, starts[n] <= Off(copy)[k],
           NEW c, Approaches(c, n, t, k) \/ c \in Path(n, t, Off(copy)[k])
    PROVE  ~c.lost /\ c.at # EndOf(n) /\ starts[n] <= c.at /\ c.at < EndOf(n)
<1> DEFINE p == Off(copy)[k]
<1>1. /\ p \in Nat /\ p < EndOf(n) /\ EndOf(n) \in Int
      /\ \A x \in Path(n, t, p) : ~x.lost /\ x.at \in Nat /\ p <= x.at /\ x.at < EndOf(n)
  <2>1. CASE n <= moved
    <3>1. PICK l : InCopy(source.insns[n], OrigAt(n), l, n, t, k)
      BY <2>1 DEF InPlace
    <3>2. /\ p \in Nat /\ p < EndOf(n)
          /\ \A x \in Way(source.insns[n], Pc(OrigAt(n)), n, t, p) : ~x.lost /\ x.at \in Nat /\ p <= x.at /\ x.at < EndOf(n)
      BY <3>1, WayGoesOn
    <3>3. EndOf(n) \in Int
      <4>1. PICK b, q : LiesAt(copy, k, b, EndOf(n), q)
        BY <3>1 DEF InCopy
      <4>2. EndOf(n) = Off(copy)[k + Len(q)] /\ k + Len(q) \in 0..Len(copy)
        BY <4>1, PieceFacts DEF LiesAt
      <4> QED BY <4>2, PieceFacts
    <3> QED BY <2>1, <3>2, <3>3 DEF Path
  <2>2. CASE ~(n <= moved)
    <3>1. PICK b, e : LiesAt(copy, k, b, e, ToRest)
      BY <2>2 DEF InPlace
    <3>2. Len(ToRest) = 2 /\ ToRest[1].len = 4 /\ ToRest[2].len = 4
      BY DEF ToRest, Literal, Word
    <3>3. p \in Nat /\ e <= Bytes(copy) /\ e = p + ToRest[1].len + ToRest[2].len
      BY <3>1, <3>2, LiesItems
    <3>4. EndOf(n) = Bytes(copy) /\ Bytes(copy) \in Nat
      BY <2>2, PieceFacts DEF EndOf
    <3>5. Path(n, t, p) = {Fresh(n, t, p)} /\ ~Fresh(n, t, p).lost /\ Fresh(n, t, p).at = p
      BY <2>2 DEF Path, Fresh, State
    <3> HIDE DEF p
    <3>6. p < EndOf(n) /\ p <= p
      BY <3>2, <3>3, <3>4
    <3> QED BY <3>3, <3>4, <3>5, <3>6 DEF p
  <2> QED BY <2>1, <2>2
<1> HIDE DEF p
<1>2. CASE Approaches(c, n, t, k)
  <2>1. c = Fresh(n, t, p - 2) \/ c = Fresh(n, t, p - 4)
    BY <1>2 DEF Approaches, p
  <2>2. ~c.lost /\ (c.at = p - 2 \/ c.at = p - 4) /\ starts[n] <= c.at
    BY <1>2, <2>1 DEF Fresh, State, Approaches
  <2> QED BY <1>1, <2>2
<1>3. CASE c \in Path(n, t, p)
  <2>1. ~c.lost /\ c.at \in Nat /\ p <= c.at /\ c.at < EndOf(n) /\ starts[n] <= p
    BY <1>1, <1>3 DEF p
  <2> QED BY <1>1, <2>1
<1> QED BY <1>2, <1>3 DEF p

\* A label that is not to be fixed up, since what the instruction leads to is
\* outside the overwritten bytes.
LEMMA LabelStays ==
    ASSUME NEW i, NEW a \in Nat, NEW t, Instruction(source.thumb, i), Relocatable(i),
           source \in Sources, ~source.thumb => Pc(a) % 4 = 0,
           Outside(Meaning(i, a, t).jump.n), Outside(Meaning(i, a, t).value.n),
           i.op \in WithLabel, i.op = "bcond16" => t
    PROVE  ~Fixed(Target(i, Pc(a)))
<1> DEFINE pc == Pc(a)
           m == Target(i, pc).n
           does == Meaning(i, a, t)
<1>0. \A x : WordOf(x).n = x /\ Address32(x).n = x
  BY DEF WordOf, Address32
<1>1. CASE i.op \in {"pc16", "mov16", "ldr16"}
  <2>1. Target(i, pc).branch = FALSE
    BY <1>1 DEF Target
  <2>2. source.thumb
    BY <1>1, OrigFacts DEF Instruction, ArmKinds
  <2> QED BY <2>1, <2>2 DEF Fixed
<1>2. ASSUME does.jump.n = m \/ does.value.n = m PROVE ~Fixed(Target(i, pc))
  <2> HIDE DEF m
  <2>1. Outside(m)
    BY <1>2
  <2>2. source.start \in Nat /\ TrampolineSize \in Nat
    BY OrigFacts DEF TrampolineSize
  <2>3. m \notin source.start..source.start + TrampolineSize - 1
    BY <2>1, <2>2 DEF Outside
  <2> QED BY <2>3 DEF Fixed, m
<1>3. CASE i.op = "bxpc"
  <2>1. ~i.cond
    BY <1>3, OrigFacts DEF Instruction, ArmKinds, ThumbConditional
  <2>2. does.jump.n = m
    BY <1>0, <1>3, <2>1 DEF Meaning, Jump, Target
  <2> QED BY <1>2, <2>2
<1>4. CASE i.op = "b16"
  <2>1. ~i.cond /\ i.imm \in Nat /\ i.imm < 1024
    BY <1>4, OrigFacts DEF Instruction, ArmKinds, ThumbConditional, Relocatable
  <2>2. Signed11(i.imm) = i.imm
    BY <2>1 DEF Signed11
  <2>3. does.jump.n = m
    BY <1>0, <1>4, <2>1, <2>2 DEF Meaning, Jump, Target
  <2> QED BY <1>2, <2>3
<1>5. CASE i.op = "bcond16"
  <2>1. i.imm \in Nat /\ i.imm < 16 /\ t
    BY <1>5 DEF Instruction, Relocatable
  <2>2. Signed8(i.imm) = i.imm
    BY <2>1 DEF Signed8
  <2>3. does.jump.n = m
    BY <1>0, <1>5, <2>1, <2>2 DEF Meaning, Jump, Target
  <2> QED BY <1>2, <2>3
<1>6. CASE i.op = "ldr"
  <2>1. ~i.cond /\ ~source.thumb
    BY <1>6, OrigFacts DEF Instruction, ThumbKinds, ThumbConditional, Relocatable
  <2>2. Floor4(pc) = pc
    <3>1. pc \in Nat
      BY DEF Pc
    <3> QED BY <2>1, <3>1 DEF Floor4
  <2>3. does = Load(i.reg, WordOf(pc + i.offset))
    BY <1>6, <2>1, <2>2 DEF Meaning
  <2>4. m = pc + i.offset
    BY <1>6 DEF Target
  <2>5. does.jump = WordOf(m) \/ does.value = WordOf(m)
    BY <2>3, <2>4 DEF Load, Jump
  <2> QED BY <1>0, <1>2, <2>5
<1>7. CASE i.op = "adr"
  <2>1. ~i.cond /\ i.rotate = 0 /\ i.imm \in Nat
    BY <1>7 DEF Instruction, Relocatable
  <2>2. Rotated(i) = i.imm /\ 256 * i.rotate + i.imm = i.imm
    BY <2>1 DEF Rotated
  <2>3. does = Load(i.reg, Address32(pc + i.sign * i.imm))
    BY <1>7, <2>1, <2>2 DEF Meaning
  <2>4. m = pc + i.sign * i.imm
    BY <1>7, <2>2 DEF Target
  <2>5. does.jump = Address32(m) \/ does.value = Address32(m)
    BY <2>3, <2>4 DEF Load, Jump
  <2> QED BY <1>0, <1>2, <2>5
<1> QED BY <1>1, <1>3, <1>4, <1>5, <1>6, <1>7 DEF WithLabel

\* The copy of an instruction is found where it is entered.
LEMMA Enters ==
    ASSUME Moved, Finished, stage # "relocating", NEW n \in 1..moved + 1, NEW t \in BOOLEAN, Good(n, t)
    PROVE  OnTrack(Fresh(n, t, starts[n]), n, t)
<1> DEFINE b == starts[n]
           c == Fresh(n, t, b)
<1>1. /\ source \in Sources /\ moved \in 0..Len(source.insns) /\ Piece(copy)
      /\ Len(starts) = moved + 1
  BY DEF Moved
<1>2. moved \in Nat /\ Len(source.insns) \in Nat /\ n \in Nat
  BY <1>1, OrigFacts
<1>3. ASSUME NEW k, NEW e, NEW q, LiesAt(copy, k, b, e, q)
      PROVE  /\ Approaches(c, n, t, k) \/ c \in Path(n, t, Off(copy)[k])
             /\ b <= Off(copy)[k]
  <2> DEFINE p == Off(copy)[k]
  <2>1. k \in Nat /\ k <= Len(copy) /\ Len(copy) \in Nat
    BY <1>1, <1>3, PieceFacts DEF LiesAt
  <2>2. p \in Nat
    <3>1. k \in 0..Len(copy)
      BY <2>1
    <3> QED BY <1>1, <3>1, PieceFacts
  <2>3. b \in Nat
    BY <1>1, <1>2 DEF Moved
  <2>4. Fresh(n, t, p) \in Path(n, t, p)
    BY DEF Path, Way
  <2>0. c.at = b /\ b <= b
    BY <2>3 DEF Fresh, State
  <2>5. CASE p = b
    BY <2>0, <2>4, <2>5
  <2>6. CASE k >= 1 /\ copy[k] = Nop /\ p = b + 2
    <3>1. b = p - 2 /\ b <= p
      BY <2>2, <2>3, <2>6
    <3> QED BY <2>0, <2>6, <3>1 DEF Approaches
  <2>7. CASE k >= 2 /\ copy[k] = Nop /\ copy[k - 1] = Nop /\ p = b + 4
    <3>1. b = p - 4 /\ b <= p /\ k >= 1
      BY <2>1, <2>2, <2>3, <2>7
    <3> QED BY <2>0, <2>7, <3>1 DEF Approaches
  <2> QED BY <1>3, <2>5, <2>6, <2>7 DEF LiesAt
<1>4. CASE n <= moved
  <2> DEFINE i == source.insns[n]
             a == OrigAt(n)
  <2>1. n \in 1..moved /\ n \in 1..Len(source.insns) /\ n \in 1..Len(source.insns) + 1
    BY <1>1, <1>2, <1>4
  <2>2. /\ Instruction(source.thumb, i) /\ a \in Nat /\ source.thumb \in BOOLEAN
        /\ ~source.thumb => a % 4 = 0
    BY <1>1, <2>1, OrigFacts
  <2>3. Relocatable(i) /\ Outside(Meaning(i, a, t).jump.n) /\ Outside(Meaning(i, a, t).value.n)
    BY <1>2, <1>4 DEF Good, Aim
  <2>4. CopyOf(n)
    BY <2>1, <2>3 DEF Moved
  <2>5. PICK k, l : /\ LiesAt(copy, k, b, NextStart(n), Shape(i, Pc(a), l))
                    /\ i.op \in WithLabel => l \in 1..Len(labels) /\ labels[l] = Target(i, Pc(a))
    BY <2>4 DEF CopyOf
  <2>6. NextStart(n) = EndOf(n)
    <3>1. n < Len(starts) /\ ~(n > moved)
      BY <1>1, <1>2, <1>4
    <3> QED BY <3>1 DEF NextStart, EndOf
  <2>7. ~source.thumb => Pc(a) % 4 = 0
    BY <2>2 DEF Pc
  <2>8. ASSUME i.op \in WithLabel, i.op = "bcond16" => t
        PROVE  ItemIs(LabelAt(l), Word(Target(i, Pc(a)).n))
    <3> DEFINE g == Target(i, Pc(a))
    <3>1. l \in 1..Len(labels) /\ labels[l] = g
      BY <2>5, <2>8
    <3>2. ~Fixed(g)
      BY <1>1, <2>2, <2>3, <2>7, <2>8, LabelStays
    <3> HIDE DEF g
    <3>3. \E j \in 1..Len(copy) : \E m :
             /\ Off(copy)[j - 1] = LabelAt(l) /\ copy[j] = Word(m)
             /\ ~Fixed(labels[l]) => m = labels[l].n
      BY <3>1 DEF Finished
    <3>4. \E j \in 1..Len(copy) : Off(copy)[j - 1] = LabelAt(l) /\ copy[j] = Word(g.n)
      BY <3>1, <3>2, <3>3
    <3> QED BY <3>4 DEF ItemIs, g
  <2>9. InCopy(i, a, l, n, t, k)
    BY <1>1, <2>2, <2>3, <2>5, <2>6, <2>7, <2>8 DEF InCopy
  <2>10. InPlace(n, t, k)
    BY <1>4, <2>9 DEF InPlace
  <2>11. /\ Approaches(c, n, t, k) \/ c \in Path(n, t, Off(copy)[k])
         /\ b <= Off(copy)[k]
    BY <1>3, <2>5
  <2> QED BY <2>10, <2>11 DEF OnTrack
<1>5. CASE ~(n <= moved)
  <2>1. n = moved + 1
    BY <1>2, <1>5
  <2>2. PICK k, e : LiesAt(copy, k, b, e, ToRest)
    BY <2>1 DEF Finished
  <2>3. InPlace(n, t, k)
    BY <1>5, <2>2 DEF InPlace
  <2>4. /\ Approaches(c, n, t, k) \/ c \in Path(n, t, Off(copy)[k])
        /\ b <= Off(copy)[k]
    BY <1>3, <2>2
  <2> QED BY <2>3, <2>4 DEF OnTrack
<1> QED BY <1>4, <1>5

\* One instruction keeps the processor on its way.
LEMMA StaysOnTrack ==
    ASSUME Moved, NEW n \in 1..moved + 1, NEW t \in BOOLEAN, Runs(core, n, t), OnTrack(core, n, t),
           Execute, stage # "relocating", ~InBlock(n)
    PROVE  OnTrack(core', n, t)
<1>1. PICK k : /\ InPlace(n, t, k) /\ starts[n] <= Off(copy)[k]
               /\ \/ Approaches(core, n, t, k) \/ core \in Path(n, t, Off(copy)[k])
                  \/ Arrived(core, n, t)
  BY DEF OnTrack
<1> DEFINE p == Off(copy)[k]
           N == Len(copy)
<1>2. Piece(copy) /\ N \in Nat /\ Off(copy) \in [0..N -> Nat]
      /\ \A x \in 1..N : Off(copy)[x] = Off(copy)[x - 1] + copy[x].len
  BY PieceFacts DEF Moved
<1>3. ~Arrived(core, n, t)
  BY DEF Execute, Running, Runs, Arrived
<1>4. k \in Nat /\ k <= N /\ p \in Nat
  <2>1. \E b, e, q : LiesAt(copy, k, b, e, q)
    BY <1>1 DEF InPlace, InCopy
  <2>2. k \in Nat /\ k <= N
    BY <1>2, <2>1 DEF LiesAt
  <2>3. k \in 0..N
    BY <1>2, <2>2
  <2> QED BY <1>2, <2>2, <2>3
<1>8. Advances
  <2>1. moved \in Nat /\ n \in Nat /\ starts \in Seq(Nat) /\ Len(starts) = moved + 1 /\ n \in 1..Len(starts)
    BY OrigFacts DEF Moved
  <2>2. starts[n] <= core.at /\ core.at < EndOf(n)
    <3>1. starts[n] \in Nat
      BY <2>1
    <3> QED BY <1>1, <1>2, <1>3, <2>1, <3>1, NotYet
  <2>3. NextStart(n) = EndOf(n)
    <3>1. n < Len(starts) <=> ~(n > moved)
      BY <2>1
    <3> QED BY <3>1 DEF NextStart, EndOf
  <2>4. Clear(n)
    BY <2>1 DEF Moved
  <2>5. ASSUME NEW j \in ItemAt(core.at) PROVE ~InSlot(j)
    <3>1. j \in 1..N /\ Bytes(SubSeq(copy, 1, j - 1)) = core.at
      BY <1>2, PieceFacts DEF ItemAt
    <3>2. j - 1 \in 0..N
      BY <1>2, <3>1
    <3>3. Off(copy)[j - 1] = core.at
      BY <1>2, <3>1, <3>2, PrefixBytesOf
    <3> QED BY <2>2, <2>3, <2>4, <3>1, <3>3 DEF Clear
  <2> QED BY <2>5 DEF Advances
<1>5. CASE Approaches(core, n, t, k)
  <2>1. k \in 1..N /\ copy[k] = Nop /\ Nop.len = 2
    BY <1>2, <1>4, <1>5 DEF Approaches, Nop
  <2>2. ItemIs(p - 2, Nop)
    <3>1. Off(copy)[k - 1] \in Nat
      <4>1. k - 1 \in 0..N
        BY <1>2, <2>1
      <4> QED BY <1>2, <4>1
    <3>2. Off(copy)[k - 1] = p - 2
      BY <1>2, <2>1, <3>1
    <3> QED BY <2>1, <3>2 DEF ItemIs
  <2>3. CASE core = Fresh(n, t, p - 2)
    <3>1. core.at = p - 2
      BY <2>3 DEF Fresh, State
    <3>2. core' = After(Nop)
      BY <1>2, <1>8, <2>2, <3>1, Executes
    <3>3. p - 2 + 2 = p
      BY <1>4
    <3>4. core' = Fresh(n, t, p)
      BY <2>3, <3>2, <3>3 DEF After, Nop, Fresh, State
    <3>5. Fresh(n, t, p) \in Path(n, t, p)
      BY DEF Path, Way
    <3> QED BY <1>1, <3>4, <3>5 DEF OnTrack
  <2>4. CASE k >= 2 /\ copy[k - 1] = Nop /\ core = Fresh(n, t, p - 4)
    <3> DEFINE y == k - 1
    <3>0. y \in 1..N /\ copy[y] = Nop /\ y \in 0..N /\ y - 1 \in 0..N
      BY <1>2, <1>4, <2>4
    <3>1. Off(copy)[y] = p - 2
      <4>1. p = Off(copy)[y] + 2
        BY <1>2, <2>1
      <4>2. Off(copy)[y] \in Nat
        BY <1>2, <3>0
      <4> QED BY <4>1, <4>2
    <3>2. Off(copy)[y - 1] = p - 4
      <4> HIDE DEF y, p
      <4>1. Off(copy)[y] = Off(copy)[y - 1] + 2 /\ Off(copy)[y - 1] \in Nat
        BY <1>2, <2>1, <3>0
      <4> QED BY <1>4, <3>1, <4>1
    <3>3. ItemIs(p - 4, Nop)
      <4> HIDE DEF y, p
      <4> QED BY <3>0, <3>2 DEF ItemIs
    <3>4. core.at = p - 4
      BY <2>4 DEF Fresh, State
    <3>5. core' = After(Nop)
      BY <1>2, <1>8, <3>3, <3>4, Executes
    <3>6. p - 4 + 2 = p - 2
      BY <1>4
    <3>7. core' = Fresh(n, t, p - 2)
      BY <2>4, <3>5, <3>6 DEF After, Nop, Fresh, State
    <3>8. Approaches(core', n, t, k)
      <4>1. starts[n] <= core'.at
        <5>1. starts[n] \in Nat /\ starts[n] <= p - 4 /\ core'.at = p - 2
          <6>1. n \in 1..Len(starts) /\ starts \in Seq(Nat)
            BY OrigFacts DEF Moved
          <6>2. starts[n] <= core.at /\ core'.at = p - 2
            BY <1>5, <3>7 DEF Approaches, Fresh, State
          <6> QED BY <3>4, <6>1, <6>2
        <5> QED BY <1>4, <5>1
      <4> QED BY <1>5, <3>7, <4>1 DEF Approaches
    <3> QED BY <1>1, <3>8 DEF OnTrack
  <2> QED BY <1>5, <2>3, <2>4 DEF Approaches
<1>6. CASE core \in Path(n, t, p) /\ n <= moved
  <2> DEFINE i == source.insns[n]
             a == OrigAt(n)
  <2>1. PICK l : InCopy(i, a, l, n, t, k)
    BY <1>1, <1>6 DEF InPlace
  <2>2. core \in Way(i, Pc(a), n, t, p)
    BY <1>6 DEF Path
  <2>3. Goes(i, a, n, t, k)
    BY <1>8, <2>1, <2>2, GoesOn
  <2>4. core' \in Path(n, t, p) \/ Arrived(core', n, t)
    BY <1>6, <2>3 DEF Goes, Path, Arrived, Aim
  <2> QED BY <1>1, <2>4 DEF OnTrack
<1>7. CASE core \in Path(n, t, p) /\ ~(n <= moved)
  <2> DEFINE m == OrigAt(moved + 1) + FlagOf(source.thumb)
             off == IF source.thumb THEN 0 ELSE -4
             q == ToRest
  <2>1. core = Fresh(n, t, p)
    BY <1>7 DEF Path
  <2>2. PICK b, e : LiesAt(copy, k, b, e, q)
    BY <1>1, <1>7 DEF InPlace
  <2>3. Len(q) = 2 /\ q[1] = Literal("pc", off) /\ q[2] = Word(m) /\ q[1].len = 4
    BY DEF ToRest, Literal, Word
  <2> HIDE DEF q
  <2>4. p % 4 = 0 /\ ItemIs(p, q[1]) /\ ItemIs(p + q[1].len, q[2])
    BY <1>2, <2>2, <2>3, LiesItems
  <2>5. Floor4(Pc(p)) + off = p + 4
    BY <1>4, <2>4 DEF Floor4, Pc
  <2>6. ItemIs(p, Literal("pc", off)) /\ ItemIs(Floor4(Pc(p)) + off, Word(m))
    BY <2>3, <2>4, <2>5
  <2> HIDE DEF m, off, p
  <2>7. core' = Got(n, t, p, "pc", Address32(m))
    BY <1>2, <1>8, <2>1, <2>6, Fetches
  <2>8. core'.at = EndOf(n) /\ Achieved(core', Jump(m))
    BY <2>7 DEF Got, State, Achieved, Jump
  <2>9. Arrived(core', n, t)
    BY <1>7, <2>8 DEF Arrived, Aim, m
  <2> QED BY <1>1, <2>9 DEF OnTrack
<1> QED BY <1>1, <1>3, <1>5, <1>6, <1>7

-----------------------------------------------------------------------------

LEMMA ArmInitially ==
    ASSUME ArmInit PROVE ArmInv
<1>1. /\ source \in Sources /\ moved = 0 /\ copy = << >> /\ starts = << >> /\ labels = << >>
      /\ stage = "relocating"
  BY DEF ArmInit
<1>2. Len(source.insns) \in Nat
  BY <1>1, OrigFacts
<1>3. Piece(copy) /\ Listed(labels) /\ starts \in Seq(Nat) /\ Len(starts) = 0
  <2>1. copy \in Seq({Nop}) /\ labels \in Seq({}) /\ \A x \in {Nop} : x.len \in {2, 4}
    BY <1>1 DEF Nop
  <2>2. Piece(copy)
    <3> DEFINE S == {Nop}
    <3>1. copy \in Seq(S) /\ \A x \in S : x.len \in {2, 4}
      BY <2>1
    <3> HIDE DEF S
    <3> QED BY <3>1 DEF Piece
  <2>3. Listed(labels)
    BY <2>1, Zenon DEF Listed
  <2> QED BY <1>1, <2>2, <2>3
<1>4. Bytes(copy) = 0
  <2>1. \A k \in 1..Len(copy) : copy[k].len = 4
    BY <1>1
  <2>2. Bytes(copy) = 4 * Len(copy)
    BY <1>3, <2>1, PieceOfWords
  <2> QED BY <1>1, <2>2
<1>5. Moved
  BY <1>1, <1>2, <1>3, <1>4 DEF Moved, Spaced
<1> QED BY <1>1, <1>5 DEF ArmInv, RunInv

\* The code is kept by a step of the processor.
LEMMA MovedStays ==
    ASSUME Moved, Finished, stage # "relocating", UNCHANGED <<source, moved, copy, starts, labels>>,
           stage' \in {"copied", "running", "ran"}
    PROVE  Moved' /\ Finished' /\ stage' # "relocating"
<1>1. /\ \A a : Pc(a)' = Pc(a)
      /\ \A n : OrigAt(n)' = OrigAt(n) /\ LabelAt(n)' = LabelAt(n)
      /\ \A n : NextStart(n)' = NextStart(n)
      /\ \A x : Fixed(x)' <=> Fixed(x)
      /\ \A n : (InBlock(n)' <=> InBlock(n)) /\ (InSlot(n)' <=> InSlot(n))
  BY DEF Pc, OrigAt, LabelAt, NextStart, Fixed, TrampolineSize, InBlock, InSlot
<1>2. ToRest' = ToRest
  BY <1>1 DEF ToRest
<1>3. \A n : (CopyOf(n)' <=> CopyOf(n)) /\ (Clear(n)' <=> Clear(n))
  BY <1>1 DEF CopyOf, Clear
<1>4. Moved'
  BY <1>1, <1>3 DEF Moved
<1>5. Finished'
  BY <1>1, <1>2 DEF Finished
<1> QED BY <1>4, <1>5

LEMMA ArmStep ==
    ASSUME ArmInv, [ArmNext]_armVars PROVE ArmInv'
<1>1. Moved /\ (stage # "relocating" => Finished) /\ RunInv
  BY DEF ArmInv
<1>2. CASE Relocate
  BY <1>1, <1>2, RelocateStep DEF ArmInv, RunInv
<1>3. CASE FinishCopy
  BY <1>1, <1>3, FinishStep DEF ArmInv, RunInv
<1>4. ASSUME NEW n \in 1..moved + 1, NEW t \in BOOLEAN, Run(n, t) PROVE ArmInv'
  <2>1. /\ stage = "copied" /\ stage' = "running" /\ UNCHANGED <<source, moved, copy, starts, labels>>
        /\ core' = [Reset EXCEPT !.n = n, !.taken = t, !.at = starts[n]]
    BY <1>4 DEF Run
  <2>2. core' = Fresh(n, t, starts[n])
    BY <2>1 DEF Reset, Fresh, State
  <2>3. Moved' /\ Finished' /\ stage' # "relocating"
    BY <1>1, <2>1, MovedStays
  <2>4. Good(n, t)' => OnTrack(core', n, t)
    BY <1>1, <2>1, <2>2, CodeStays, Enters
  <2>5. Runs(core', n, t)
    BY <2>2 DEF Runs, Fresh, State
  <2>6. Good(n, t)' => OnTrack(core, n, t)'
    <3>1. \A c : OnTrack(c, n, t)' <=> OnTrack(c, n, t)
      BY <2>1, CodeStays
    <3> QED BY <2>4, <3>1 DEF OnTrack
  <2>7. RunInv'
    BY <2>1, <2>5, <2>6 DEF RunInv
  <2> QED BY <2>3, <2>7 DEF ArmInv
<1>5. CASE Execute
  <2>1. stage = "running" /\ stage' = stage /\ UNCHANGED <<source, moved, copy, starts, labels>>
    BY <1>5 DEF Execute, Running
  <2>2. PICK n \in 1..moved + 1, t \in BOOLEAN :
           Runs(core, n, t) /\ (Good(n, t) => OnTrack(core, n, t))
    BY <1>1, <2>1 DEF RunInv
  <2>3. Runs(core', n, t) /\ (Good(n, t) => OnTrack(core', n, t))
    <3>1. Runs(core', n, t)
      BY <1>5, <2>2, RunsStill
    <3>2. ASSUME Good(n, t) PROVE OnTrack(core', n, t)
      BY <1>1, <1>5, <2>1, <2>2, <3>2, StaysOnTrack DEF Good
    <3> QED BY <3>1, <3>2
  <2>4. Good(n, t)' => OnTrack(core, n, t)'
    BY <2>1, <2>3, CodeStays
  <2>5. RunInv'
    BY <2>1, <2>2, <2>3, <2>4 DEF RunInv
  <2>6. Moved' /\ Finished'
    BY <1>1, <2>1, MovedStays
  <2> QED BY <2>1, <2>5, <2>6 DEF ArmInv
<1>6. CASE EndRun
  <2>1. /\ stage = "running" /\ stage' = "ran" /\ ~Running /\ core' = core
        /\ UNCHANGED <<source, moved, copy, starts, labels>>
    BY <1>6 DEF EndRun
  <2>2. PICK n \in 1..moved + 1, t \in BOOLEAN :
           Runs(core, n, t) /\ (Good(n, t) => OnTrack(core, n, t))
    BY <1>1, <2>1 DEF RunInv
  <2>3. moved \in Nat /\ n \in Nat /\ Piece(copy)
    BY <1>1, OrigFacts DEF Moved
  <2>4. core.lost \/ core.at = EndOf(n)
    BY <2>1, <2>2 DEF Running, Runs
  <2>5. ASSUME Good(n, t) PROVE Arrived(core, n, t)
    <3>1. starts[n] \in Nat
      BY <1>1, <2>1, <2>3 DEF Moved
    <3> QED BY <2>2, <2>3, <2>4, <2>5, <3>1, NotYet DEF OnTrack
  <2>6. /\ Good(n, t)' => OnTrack(core, n, t)'
        /\ Good(n, t)' => Arrived(core, n, t)'
    BY <2>1, <2>2, <2>5, CodeStays
  <2>7. RunInv'
    BY <2>1, <2>2, <2>6 DEF RunInv, Runs
  <2>8. Moved' /\ Finished'
    BY <1>1, <2>1, MovedStays
  <2> QED BY <2>1, <2>7, <2>8 DEF ArmInv
<1>7. CASE UNCHANGED armVars
  <2>1. /\ core' = core /\ stage' = stage /\ UNCHANGED <<source, moved, copy, starts, labels>>
    BY <1>7 DEF armVars
  <2>2. CASE stage = "relocating"
    <3>1. /\ \A n : Pc(OrigAt(n))' = Pc(OrigAt(n)) /\ NextStart(n)' = NextStart(n)
          /\ \A n : (InBlock(n)' <=> InBlock(n)) /\ (InSlot(n)' <=> InSlot(n))
      BY <2>1 DEF Pc, OrigAt, NextStart, InBlock, InSlot
    <3>2. /\ \A n : (CopyOf(n)' <=> CopyOf(n)) /\ (Clear(n)' <=> Clear(n))
          /\ Spaced' <=> Spaced
      BY <2>1, <3>1 DEF CopyOf, Clear, Spaced, IsIt
    <3>3. Moved'
      BY <1>1, <2>1, <3>1, <3>2 DEF Moved
    <3> QED BY <2>1, <2>2, <3>3 DEF ArmInv, RunInv
  <2>3. CASE stage # "relocating"
    <3>1. Moved' /\ Finished'
      BY <1>1, <2>1, <2>3, MovedStays DEF Moved
    <3>2. RunInv'
      <4>1. /\ \A c, n, t : OnTrack(c, n, t)' <=> OnTrack(c, n, t)
            /\ \A c, n, t : Arrived(c, n, t)' <=> Arrived(c, n, t)
            /\ \A n, t : Good(n, t)' <=> Good(n, t)
        BY <2>1, CodeStays
      <4> QED BY <1>1, <2>1, <4>1 DEF RunInv, Runs
    <3> QED BY <2>1, <2>3, <3>1, <3>2 DEF ArmInv
  <2> QED BY <2>2, <2>3
<1> QED BY <1>2, <1>3, <1>4, <1>5, <1>6, <1>7 DEF ArmNext

\* The copy of an instruction of an ARM or a Thumb function jumps, links and
\* loads as the instruction did (ARMInstructionRelocation.cc), and the copy
\* goes on behind the moved instructions: for every function, every place of it
\* and of the copy, of the instructions that are Relocatable, outside the blocks
\* of it instructions (though behind them) and with what they lead to outside
\* the overwritten bytes.
THEOREM CopiesAct == ArmSpec => []CopiesDoTheSame
<1>1. ArmInv => CopiesDoTheSame
  <2> SUFFICES ASSUME ArmInv, stage = "ran", Untouched, ~InBlock(core.n),
                      core.n <= moved => Relocatable(source.insns[core.n])
               PROVE  Did(Intended)
    BY DEF CopiesDoTheSame
  <2>1. PICK n \in 1..moved + 1, t \in BOOLEAN :
           Runs(core, n, t) /\ (Good(n, t) => Arrived(core, n, t))
    BY DEF ArmInv, RunInv
  <2>2. core.n = n /\ core.taken = t
    BY <2>1 DEF Runs
  <2>3. Intended = Aim(n, t)
    BY <2>2 DEF Intended, Aim
  <2>4. Good(n, t)
    BY <2>2, <2>3 DEF Good, Untouched
  <2>5. Achieved(core, Aim(n, t))
    BY <2>1, <2>4 DEF Arrived
  <2> QED BY <2>3, <2>5 DEF Did, Achieved
<1> QED BY <1>1, ArmInitially, ArmStep, PTL DEF ArmSpec
=============================================================================
