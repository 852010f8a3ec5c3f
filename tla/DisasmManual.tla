---------------------------- MODULE DisasmManual ----------------------------
(***************************************************************************)
(* What the decoder of Disasm promises: the bytes an assembler writes for  *)
(* an instruction are decoded to the operands it was written with.  The    *)
(* encoding and the operands are those of the processor's manual; where    *)
(* the decoder is known to differ, the difference has a name here.         *)
(***************************************************************************)
EXTENDS Disasm

CONSTANT Encodings  \* the instructions that are decoded, as written:
    \* [inst, system, prefixes, rex, mod, reg, rm, scale, index, base, disp, imm]

VARIABLE source

\* The size of an operand: a number of bytes or one that goes by prefixes.
V == 0      \* 2, 4 or 8
Z == -1     \* 2 or 4
Y == -2     \* 4 or 8

-----------------------------------------------------------------------------
(* The encoding. *)

Has(s, byte) == byte \in s.prefixes
W(s) == Bit(s.rex, 8)
B(s) == IF Bit(s.rex, 1) THEN 8 ELSE 0
X(s) == IF Bit(s.rex, 2) THEN 8 ELSE 0
RR(s) == IF Bit(s.rex, 4) THEN 8 ELSE 0

InModrm == {"rm", "r", "m", "sreg", "cr", "dr", "mm", "mmrm", "xmm", "xmmrm", "rmreg", "xmmreg"}

Modrmed(inst) == inst.digit >= 0 \/ \E n \in DOMAIN inst.ops : inst.ops[n][1] \in InModrm
HasModrm(s) == Modrmed(s.inst)
InMemory(s) == HasModrm(s) /\ s.mod # 3
HasSib(s)   == InMemory(s) /\ s.rm = 4
NoBase(s)   == HasSib(s) /\ s.mod = 0 /\ s.base = 5
Direct(s)   == InMemory(s) /\ s.mod = 0 /\ s.rm = 5

OperandSize(s) ==
    IF W(s) THEN 8 ELSE IF Has(s, 102) THEN 2
    ELSE IF s.inst.d64 /\ s.system = 8 THEN 8 ELSE 4

AddressSize(s) == IF Has(s, 103) THEN s.system \div 2 ELSE s.system

Size(s, n) ==
    CASE n > 0 -> n
      [] n = V -> OperandSize(s)
      [] n = Z -> IF OperandSize(s) = 2 THEN 2 ELSE 4
      [] n = Y -> IF W(s) THEN 8 ELSE 4

DispSize(s) ==
    CASE ~InMemory(s)                            -> 0
      [] s.mod = 1                               -> 1
      [] s.mod = 2 \/ Direct(s) \/ NoBase(s)     -> 4
      [] OTHER                                   -> 0

\* The bytes of an operand that follow the address.
ImmSize(s, o) ==
    CASE o[1] \in {"imm", "rel"} -> Size(s, o[2])
      [] o[1] = "moffs"          -> AddressSize(s)
      [] o[1] = "far"            -> s.system + 2
      [] OTHER                   -> 0

\* Operands keep their constants in the order they are written.
ImmPlace(s, n) ==
    LET place[k \in 1 .. n] == IF k = 1 THEN 0 ELSE place[k - 1] + ImmSize(s, s.inst.ops[k - 1])
    IN  place[n]

Imm(s, n) == SubSeq(s.imm, ImmPlace(s, n) + 1, ImmPlace(s, n) + ImmSize(s, s.inst.ops[n]))

Imms(s) ==
    LET n == Len(s.inst.ops)
    IN  IF n = 0 THEN <<>> ELSE SubSeq(s.imm, 1, ImmPlace(s, n) + ImmSize(s, s.inst.ops[n]))

\* A prefix of an instruction is written before the REX prefix.
PrefixBytes(s) ==
    SelectSeq(<<100, 102, 103, 242, 243>>, LAMBDA b : b \in s.prefixes)

Encode(s) ==
    PrefixBytes(s)
    \o (IF s.rex = 0 THEN <<>> ELSE <<s.rex>>)
    \o s.inst.op
    \o (IF HasModrm(s)
        THEN <<64 * s.mod + 8 * (IF s.inst.digit >= 0 THEN s.inst.digit ELSE s.reg) + s.rm>>
        ELSE <<>>)
    \o (IF HasSib(s) THEN <<64 * s.scale + 8 * s.index + s.base>> ELSE <<>>)
    \o SubSeq(s.disp, 1, DispSize(s))
    \o Imms(s)

-----------------------------------------------------------------------------
(* The operands. *)

\* v as a number of n bytes, extended by its sign.
Signed(v, n) ==
    SubSeq(Extend(v, 8, IF v # <<>> /\ v[Len(v)] >= 128 THEN 255 ELSE 0), 1, n)

Zero == Extend(<<>>, 8, 0)

\* Where column c of a register's row is its name for n bytes; 1 is a high byte.
NameColumn(n) == CASE n = 1 -> 0 [] n = 2 -> 2 [] n = 4 -> 4 [] n = 8 -> 6

Gp(s, number, n) ==
    IF n = 1 /\ s.rex = 0 /\ number \in 4 .. 7 THEN <<"gp", number - 4, 1, 1>>
    ELSE <<"gp", number, n, NameColumn(n)>>

AfterInst(s) == Plus(CurrentAddr, Extend(<<Len(Encode(s))>>, 8, 0))

Displacement(s) == Signed(SubSeq(s.disp, 1, DispSize(s)), 8)

Base(s) ==
    CASE Direct(s) \/ NoBase(s) -> -1
      [] HasSib(s)              -> s.base + B(s)
      [] OTHER                  -> s.rm + B(s)

Index(s) == IF HasSib(s) /\ s.index + X(s) # 4 THEN s.index + X(s) ELSE -1

Segment(s) == IF Has(s, 100) THEN 100 ELSE 0

\* A memory operand: its size, the size of its address, base, index, scale,
\* displacement and segment.
Mem(s, n) ==
    <<"mem", n, AddressSize(s), Base(s), Index(s),
      IF Index(s) = -1 THEN 1 ELSE 2^s.scale,
      SubSeq(IF Direct(s) /\ s.system = 8 THEN Plus(AfterInst(s), Displacement(s))
             ELSE Displacement(s), 1, AddressSize(s)),
      Segment(s)>>

InString(s, number, n, segment) ==
    <<"mem", n, AddressSize(s), number, -1, 1, SubSeq(Zero, 1, AddressSize(s)), segment>>

\* The segment registers es, cs, ss, ds, fs, gs in the order of the rows.
SregRow == <<3, 0, 2, 1, 4, 5>>

Operand(s, n) ==
    LET o == s.inst.ops[n]
        k == o[1]
        z == Size(s, o[2])
    IN  CASE k \in {"rm", "rmreg"} /\ s.mod = 3      -> Gp(s, s.rm + B(s), z)
          [] k \in {"rm", "m"} /\ s.mod # 3          -> Mem(s, z)
          [] k = "r"                                 -> Gp(s, s.reg + RR(s), z)
          [] k = "code"                              -> Gp(s, o[3] + B(s), z)
          [] k = "fixed"                             -> Gp([s EXCEPT !.rex = 0], o[3], z)
          [] k = "one"                               -> <<"imm", Signed(<<1>>, 8)>>
          [] k = "imm"                               -> <<"imm", Signed(Imm(s, n), 8)>>
          [] k = "rel" ->
                <<"to", SubSeq(Plus(AfterInst(s), Signed(Imm(s, n), 8)), 1, s.system)>>
          [] k = "far" -> <<"far", SubSeq(s.imm, 1, s.system), SubSeq(s.imm, s.system + 1, s.system + 2)>>
          [] k = "moffs" -> <<"mem", z, AddressSize(s), -1, -1, 1, Imm(s, n), Segment(s)>>
          [] k = "rsi"                               -> InString(s, 6, z, Segment(s))
          [] k = "rdi"                               -> InString(s, 7, z, 0)
          [] k = "sreg"                              -> <<"sreg", SregRow[s.reg + 1]>>
          [] k = "seg"                               -> <<"sreg", o[3]>>
          [] k = "cr"                                -> <<"cr", s.reg + RR(s)>>
          [] k = "dr"                                -> <<"dr", s.reg>>
          [] k = "mm"                                -> <<"mm", s.reg>>
          [] k = "mmrm" /\ s.mod = 3                 -> <<"mm", s.rm>>
          [] k = "xmm"                               -> <<"xmm", s.reg + RR(s)>>
          [] k \in {"xmmrm", "xmmreg"} /\ s.mod = 3               -> <<"xmm", s.rm + B(s)>>
          [] k \in {"mmrm", "xmmrm"} /\ s.mod # 3    -> Mem(s, z)
          [] k = "st"                                -> <<"st", o[3]>>

Operands(s) == [n \in DOMAIN s.inst.ops |-> Operand(s, n)]

\* The manual has the instruction in the mode.
Known(s) == s.system \in s.inst.modes

-----------------------------------------------------------------------------
(* What the decoder read. *)

\* A register by the name the tables give it.
Named(reg) ==
    CASE reg[1] \in {0, 1} -> <<"gp", 8 * reg[1] + reg[2], reg[3], reg[4]>>
      [] reg[1] = 2        -> <<"sreg", reg[2]>>
      [] reg[1] = 3        -> <<"cr", reg[2]>>
      [] reg[1] = 4        -> <<"dr", reg[2]>>
      [] reg[1] = 5        -> <<"mm", reg[2]>>
      [] reg[1] = 6        -> <<"xmm", reg[2]>>
      [] reg[1] = 8        -> <<"st", reg[2]>>

Number(reg) == IF reg = None THEN -1 ELSE 8 * reg[1] + reg[2]

Meaning(i) ==
    CASE i.type = "REG" /\ i.reg = None -> <<"unknown">>
      [] i.type = "REG"   -> Named(i.reg)
      [] i.type = "IMM"   -> <<"imm", Signed(i.const, 8)>>
      [] i.type = "DIS"   -> <<"to", i.const>>
      [] i.type = "IADDR" -> <<"far", i.const, i.segment>>
      [] i.type = ""      -> <<"none">>
      [] OTHER            ->
            <<"mem", i.data, i.addr, Number(i.reg), Number(i.index),
              IF i.scale = 0 THEN 1 ELSE i.scale, Signed(i.const, i.addr),
              i.prefix>>

-----------------------------------------------------------------------------
(* Where the decoder is known to differ from the manual. *)

Kinds(s)     == {s.inst.ops[n][1] : n \in DOMAIN s.inst.ops}

\* There is an operand of such a kind and size.
Exists(s, kinds, sizes) ==
    \E n \in DOMAIN s.inst.ops : s.inst.ops[n][1] \in kinds /\ s.inst.ops[n][2] \in sizes

\* REX.W makes every operand eight bytes, those of a fixed size too.
FixedSizeWidened(s) ==
    W(s) /\ Exists(s, {"rm", "rmreg", "r", "m", "rsi", "rdi"}, {1, 2, 4, Z})

\* ... and a displacement of a jump is read as one of eight.
JumpWidened(s) == W(s) /\ "rel" \in Kinds(s)

\* 66 makes a fixed size of two bytes four, that of an immediate too.
WordWidened(s) ==
    Has(s, 102) /\ Exists(s, {"rm", "imm"}, {2})

\* 66 makes an immediate two bytes in spite of REX.W.
ImmediateHalved(s) ==
    W(s) /\ Has(s, 102) /\ Exists(s, {"imm"}, {Z})

\* push and pop of an operand of the ModRM byte take eight bytes in spite of 66.
WordPushWidened(s) == s.system = 8 /\ s.inst.d64 /\ Has(s, 102) /\ "rm" \in Kinds(s)

\* A call of an operand takes four bytes, push, pop and jmp eight.
CallNarrowed(s) == s.system = 8 /\ s.inst.op = <<255>> /\ s.inst.digit = 2 /\ ~W(s)

\* The table's row of adc r/m8, r8 names a register of the size v.
RowSlips(s) == s.inst.op = <<16>>

\* The segment is given to three shapes of an operand, and rdi is one of them.
SegmentLost(s) ==
    /\ Has(s, 100) /\ InMemory(s)
    /\ Direct(s) \/ (HasSib(s) /\ (Index(s) # -1 \/ DispSize(s) = 0 \/ NoBase(s)))
SegmentGiven(s) == Has(s, 100) /\ "rdi" \in Kinds(s)

\* The row of index 100 has no scale, and with REX.X it is r12.
ScaleLost(s) == Index(s) = 12 /\ s.scale # 0

\* The rows of segment, control and debug registers have the groups and places
\* of another numbering.
OldNumbers(s) == Kinds(s) \cap {"sreg", "cr", "dr"} # {}

\* A register of SSE has no row for REX.
SseWithRex(s) == s.rex # 0 /\ Kinds(s) \cap {"xmm", "xmmrm", "xmmreg"} # {}

\* 67 changes no address in 64 bit mode, and none at all after a 66.
AddressSizeKept(s) ==
    /\ Has(s, 103) /\ (s.system = 8 \/ Has(s, 102))
    /\ InMemory(s) \/ Kinds(s) \cap {"moffs", "rsi", "rdi"} # {}

\* 67 makes the address of a jump in 32 bit mode one of two bytes.
JumpNarrowed(s) == Has(s, 103) /\ s.system = 4 /\ Kinds(s) \cap {"rel", "far"} # {}

\* Of several prefixes the last alone chooses the instruction.
LastChooses(s) == 102 \in s.inst.mand /\ Has(s, 103)

\* A displacement of exactly half its range is added.
HalfAdded(s) ==
    \E n \in DOMAIN s.inst.ops :
        s.inst.ops[n][1] = "rel" /\ Imm(s, n)[Len(Imm(s, n))] = 128 /\ ~AboveHalf(Imm(s, n))

\* A three byte opcode is found without a prefix only.
PrefixedThree(s) == s.inst.op[1] = 15 /\ Len(s.inst.op) = 3 /\ s.prefixes # {}

Divergent(s) ==
    \/ FixedSizeWidened(s) \/ JumpWidened(s) \/ WordWidened(s) \/ ImmediateHalved(s)
    \/ WordPushWidened(s) \/ CallNarrowed(s) \/ RowSlips(s) \/ SegmentLost(s) \/ SegmentGiven(s) \/ ScaleLost(s)
    \/ OldNumbers(s) \/ SseWithRex(s) \/ AddressSizeKept(s) \/ HalfAdded(s)
    \/ JumpNarrowed(s) \/ LastChooses(s)

\* The divergences that change how many bytes are read.
OtherLength(s) ==
    \/ JumpWidened(s) \/ WordWidened(s) \/ ImmediateHalved(s)
    \/ (AddressSizeKept(s) /\ "moffs" \in Kinds(s))
    \/ (JumpNarrowed(s) /\ "far" \in Kinds(s))

-----------------------------------------------------------------------------
Init ==
    /\ source \in Encodings
    /\ Start(Extend(Encode(source), 24, 0), source.system)

Same == UNCHANGED source

NextOfSource ==
    \/ (Prefix /\ Same) \/ (Rex /\ Same) \/ (OneOpcode /\ Same) \/ (TwoOpcode /\ Same)
    \/ (ThreeOpcode /\ Same) \/ (ExtOneOpcode /\ Same) \/ (ExtTwoOpcode /\ Same)
    \/ (ExtThreeOpcode /\ Same) \/ (Modrm /\ Same) \/ (Sibs /\ Same) \/ (Items /\ Same)

Spec == Init /\ [][NextOfSource]_<<vars, source>>

\* An instruction the manual has in the mode is decoded to the operands it was
\* written with: the registers by their names, the parts of an address, the
\* constants by their values and a jump by the address it goes to.
Decoded ==
    xx_inst.finish = "EXIST" =>
        Divergent(source)
        \/ [n \in DOMAIN xx_inst.items |-> Meaning(xx_inst.items[n])] = Operands(source)

\* The decoder knows every instruction of the manual, refuses what is not one
\* in the mode, and reads exactly its bytes: the next is looked for behind them.
Measured ==
    xx_inst.finish # "NOTOP" =>
        IF Known(source) /\ ~PrefixedThree(source)
        THEN /\ xx_inst.finish = "EXIST"
             /\ OtherLength(source) \/ xx_inst.length = Len(Encode(source))
        ELSE xx_inst.finish = "UNEXIST"

=============================================================================
