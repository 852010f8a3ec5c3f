------------------------------- MODULE MCCpu -------------------------------
(* Instances of Cpu. *)
EXTENDS CpuForms

Plain(op, items)   == Inst(op, items) @@ [cc |-> "none", rep |-> FALSE]
With(op, cc, items) == Inst(op, items) @@ [cc |-> cc, rep |-> FALSE]
Rep(op, items)     == Inst(op, items) @@ [cc |-> "none", rep |-> TRUE]

D(r) == Reg(r, "d")
W(r) == Reg(r, "w")
L(r) == Reg(r, "l")
H(r) == Reg(r, "h")

\* The stack is at 36, data at 0..15; 48 addresses.
Context(eax, ecx, f) ==
  [ok |-> TRUE, ip |-> 20, f |-> f,
   r |-> [eax |-> eax, ecx |-> ecx, edx |-> 5, ebx |-> 4, esp |-> 36, ebp |-> 12, esi |-> 8, edi |-> 10],
   mem |-> [j \in 0..47 |-> (j * 7 + 3) % 16]]
Numbers == {<<0, 1>>, <<32767, 65535>>, <<32768, 3>>, <<4660, 2>>, <<65528, 135>>, <<7, 32775>>}
Contexts == {Context(n[1], n[2], f) : n \in Numbers, f \in {{}, {"CF", "ZF", "OF"}, {"SF", "PF", "DF"}}}

Pairs2 == {<<D("eax"), D("ecx")>>, <<W("eax"), W("ecx")>>, <<L("eax"), H("ecx")>>, <<H("eax"), L("eax")>>,
           <<MReg("ebx", 4), D("ecx")>>, <<D("eax"), MDis("esi", 12, 4)>>, <<MDis("esp", 13, 2), W("eax")>>}
\* A constant of one byte that is positive, and one that is not.
Narrow(k)  == {<<D("eax"), Imm(k, 1)>>, <<W("ecx"), Imm(k, 1)>>, <<MReg("ebx", 4), Imm(k, 1)>>}
Constants2 == Narrow(5) \cup {<<D("eax"), Imm(32769, 4)>>, <<L("ecx"), Imm(9, 1)>>}
\* The operand of an instruction with an fs prefix, in 8..11.
Fs    == InSegment(MReg("ebx", 4), 4)
Places == {<<D("eax")>>, <<W("ecx")>>, <<H("eax")>>, <<MDis("ebp", 13, 2)>>, <<MIdx("ebx", "edx", 4)>>}
Wider == {<<D("eax"), W("ecx")>>, <<D("edx"), L("ecx")>>, <<W("eax"), H("ecx")>>, <<D("eax"), MReg("ebx", 1)>>}

\* al, ax or eax, which the disassembler lists as an operand of its own.
Accumulator(size) == CASE size = 1 -> L("eax") [] size = 2 -> W("eax") [] OTHER -> D("eax")

Of(ops, operands) == {Plain(op, o) : op \in ops, o \in operands}
Counts == {<<o, c>> : o \in {D("eax"), W("eax"), L("eax"), MReg("ebx", 2)}, c \in {L("ecx"), Imm(1, 1), Imm(9, 1)}}

Calculations ==
  Of({"add", "sub", "adc", "sbb", "and", "or"}, Pairs2 \cup Constants2 \cup Narrow(11))
    \cup Of({"sub"}, {<<Fs, D("ecx")>>})
    \cup Of({"xor", "cmp", "test"}, Pairs2 \cup Constants2)
    \cup Of({"not", "neg", "inc", "dec"}, Places)
    \cup Of({"mul", "div", "idiv"}, {<<o[1], Accumulator(o[1].size)>> : o \in Places})
    \cup Of(Shifts, Counts)
    \cup Of({"shld", "shrd"}, {<<o[1], o[2], c>> : o \in {<<D("eax"), D("edx")>>, <<MReg("ebx", 2), W("edx")>>}, c \in {L("ecx"), Imm(3, 1)}})
    \cup Of(BitOps, {<<D("eax"), D("ecx")>>, <<W("edx"), Imm(9, 1)>>, <<MReg("ebx", 4), Imm(9, 1)>>})
    \cup Of({"bsf", "bsr", "imul"}, {<<D("edx"), D("eax")>>, <<W("edx"), MReg("ebx", 2)>>})
    \cup Of({"imul"}, {<<D("edx"), D("eax"), Imm(5, 1)>>, <<W("edx"), MReg("ebx", 2), Imm(32, 2)>>})
    \cup Of({"xadd", "xchg"}, {<<D("eax"), D("ecx")>>, <<D("eax"), D("eax")>>, <<MReg("ebx", 4), D("ebx")>>, <<L("eax"), H("eax")>>})
    \cup Of(Adjusts \cup {"lahf", "sahf", "cpuid", "nop", "clc", "stc", "cmc", "cld", "std", "cdq", "cwd", "cwde", "cbw"}, {<<>>})
Moves ==
  Of({"mov"}, Pairs2 \cup Constants2) \cup Of({"movzx", "movsx"}, Wider) \cup Of({"bswap"}, {<<D("eax")>>})
    \cup Of({"lea"}, {<<D("eax"), MDis("esp", 12, 4)>>, <<W("eax"), MScale("ebx", "ecx")>>})
    \cup Of({"push"}, {<<D("esp")>>, <<W("eax")>>, <<MDis("esp", 4, 4)>>, <<Imm(5, 1)>>, <<Imm(32769, 4)>>})
    \cup Of({"mov"}, {<<D("eax"), Fs>>, <<Fs, D("ecx")>>}) \cup Of({"push", "pop"}, {<<Fs>>})
    \cup Of({"pop"}, {<<D("esp")>>, <<W("eax")>>, <<MDis("esp", 12, 4)>>, <<MReg("ebx", 4)>>})
    \cup Of({"pushad", "popad", "pushfd", "popfd", "leave"}, {<<>>})
    \cup {With("cmov", cc, o) : cc \in Conditions \ {"c", "nc"}, o \in {<<D("eax"), D("edx")>>, <<W("edx"), MReg("esi", 2)>>}}
Jumps ==
  {With("j", cc, <<Imm(32, 4)>>) : cc \in Conditions \ {"g"}}
    \cup {With("set", cc, <<L("edx")>>) : cc \in Conditions \ {"c", "nc"}}
    \cup Of({"jmp", "jecxz", "loop", "loope", "loopne", "call"}, {<<Imm(32, 4)>>})
    \cup Of({"ret"}, {<<>>, <<Imm(8, 2)>>}) \cup Of({"jmp", "call"}, {<<D("ecx")>>, <<MReg("ebx", 4)>>})
\* Elements and their operands.
Items(op, size) ==
  CASE op = "lods" -> <<Accumulator(size), MReg("esi", size)>>
    [] op = "stos" -> <<MReg("edi", size), Accumulator(size)>>
    [] op = "movs" -> <<MReg("edi", size), MReg("esi", size)>>
StringInsts ==
  {Plain(op, Items(op, size)) : op \in Strings, size \in {1, 2, 4}}
    \cup {Rep(op, Items(op, size)) : op \in Strings, size \in {1, 2}}

Comparisons == Of({"cmp"}, {<<D("eax"), D("ecx")>>, <<W("eax"), W("ecx")>>, <<L("eax"), L("ecx")>>, <<D("ecx"), D("ecx")>>})
Setup == Comparisons \cup Of({"nop"}, {<<>>})
All   == Calculations \cup Moves \cup Jumps \cup StringInsts
TwoSteps == <<Setup, All>>

Greater == <<Comparisons, {With("j", cc, <<Imm(32, 4)>>) : cc \in {"g", "le"}}>>
============================================================================
