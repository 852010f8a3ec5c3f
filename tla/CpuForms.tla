------------------------------ MODULE CpuForms ------------------------------
(***************************************************************************)
(* The contexts a program can be in, and the forms of instructions in      *)
(* which every operation of the emulation looks at its operands as the     *)
(* processor does.  What is left out:                                      *)
(*  - a constant of one byte that is negative, for an operation that does  *)
(*    not extend it (xor, cmp, test, mov and push; the stack is not moved  *)
(*    by a negative number either);                                        *)
(*  - bit operations on a string of bits in memory, jg, and operations     *)
(*    that have no function;                                               *)
(*  - the operations on strings of bytes in memory that are repeated.      *)
(***************************************************************************)
EXTENDS Cpu

NumbersOf(size) == {x \in Nat : x < 2^Width(size)}
AllContexts == [ok : BOOLEAN, ip : Nat, f : SUBSET Flags, r : [Registers -> NumbersOf(4)], mem : [0..MemSize - 1 -> NumbersOf(1)]]
ASSUME StartsAssumption == Starts \subseteq AllContexts

----------------------------------------------------------------------------
(* Operands.                                                               *)

IsReg(o) == o.t = "REG" /\ o.def \in Registers \X {"d", "w", "l", "h"} /\ o.size = PartSize(o.def[2])
IsImm(o) == o.t = "IMM" /\ o.size \in {1, 2, 4} /\ o.k \in NumbersOf(o.size)
IsMem(o) == /\ InMemory(o) /\ o.size \in {1, 2, 4} /\ o.k \in NumbersOf(1) /\ {o.scale, o.seg} \subseteq Nat
            /\ o.def[1] \in Registers /\ (o.idx = None \/ o.idx[1] \in Registers \ {"esp"})
IsPlace(o)  == IsReg(o) \/ IsMem(o)
IsCount(o)  == o.size = 1 /\ (IsReg(o) \/ IsImm(o))
Formed(i)   == \A n \in 1..3 : i.item[n] = NoItem \/ IsPlace(i.item[n]) \/ IsImm(i.item[n])

\* A constant that is the same number in more bytes.
Positive(o) == IsImm(o) /\ o.k < 2^(Width(o.size) - 1)

----------------------------------------------------------------------------
(* Instructions.                                                           *)

Same(i)   == i.item[1].size = i.item[2].size
Narrower(i) == i.item[2].size <= i.item[1].size

Calculates(i) == IsPlace(i.item[1]) /\
    \/ i.op \in {"add", "sub", "adc", "sbb", "and", "or"} /\ (Same(i) \/ (IsImm(i.item[2]) /\ Narrower(i)))
    \/ i.op \in {"xor", "cmp", "test"} /\ (Same(i) \/ (Positive(i.item[2]) /\ Narrower(i)))
    \/ i.op \in {"not", "neg", "inc", "dec"} /\ i.item[2] = NoItem
    \/ i.op \in Shifts /\ IsCount(i.item[2])
    \/ i.op \in {"shld", "shrd"} /\ i.item[1].size > 1 /\ Same(i) /\ IsReg(i.item[2]) /\ IsCount(i.item[3])
    \/ i.op \in BitOps /\ i.item[1].size > 1 /\ i.item[3] = NoItem
         /\ (IsImm(i.item[2]) \/ (IsReg(i.item[1]) /\ IsReg(i.item[2]))) /\ (Same(i) \/ IsCount(i.item[2]))
    \/ i.op \in {"mul", "div", "idiv"}
    \/ i.op = "imul" /\ i.item[2] = NoItem
    \/ i.op = "imul" /\ i.item[1].size > 1 /\ Same(i) /\ i.item[3] = NoItem
    \/ i.op = "imul" /\ i.item[1].size > 1 /\ Same(i)
         /\ IsImm(i.item[3]) /\ (i.item[3].size = i.item[1].size \/ (Positive(i.item[3]) /\ i.item[3].size = 1))
    \/ i.op \in {"bsf", "bsr"} /\ i.item[1].size > 1 /\ Same(i)
    \/ i.op = "xadd" /\ Same(i) /\ IsReg(i.item[2])

Alone == {"nop", "clc", "stc", "cmc", "cld", "std", "lahf", "sahf", "cpuid", "cdq", "cwd", "cwde", "cbw",
          "pushfd", "popfd", "pushad", "popad", "leave"} \cup Adjusts

MovesData(i) ==
    \/ i.op = "mov" /\ IsPlace(i.item[1]) /\ (Same(i) \/ (Positive(i.item[2]) /\ Narrower(i)))
    \/ i.op = "movzx" /\ IsPlace(i.item[1]) /\ IsPlace(i.item[2]) /\ Narrower(i)
    \/ i.op = "movsx" /\ IsPlace(i.item[1]) /\ IsPlace(i.item[2]) /\ Narrower(i) /\ i.item[2].size < 4
    \/ i.op = "cmov" /\ i.cc \in Conditions \ {"c", "nc"} /\ IsPlace(i.item[1]) /\ Same(i)
    \/ i.op = "lea" /\ IsReg(i.item[1]) /\ IsMem(i.item[2]) /\ i.item[2].seg = 0
    \/ i.op = "xchg" /\ IsPlace(i.item[1]) /\ IsReg(i.item[2]) /\ Same(i)
    \/ i.op = "bswap" /\ IsReg(i.item[1]) /\ i.item[1].size = 4
    \/ i.op = "set" /\ i.cc \in Conditions \ {"c", "nc"} /\ IsPlace(i.item[1]) /\ i.item[1].size = 1
    \/ i.op = "push" /\ (IsPlace(i.item[1]) \/ Positive(i.item[1]) \/ (IsImm(i.item[1]) /\ i.item[1].size = 4))
    \/ i.op = "pop" /\ IsPlace(i.item[1]) /\ i.item[2] = NoItem /\ i.item[3] = NoItem
    \/ i.op \in Alone

\* One element of a string: the pointers are those the instruction moves.
Points(o, reg) == IsMem(o) /\ o.def[1] = reg /\ o.k = 0 /\ o.idx = None /\ o.seg = 0
OnElement(i) == ~i.rep /\ Same(i) /\ i.item[3] = NoItem /\
    \/ i.op = "lods" /\ IsReg(i.item[1]) /\ Points(i.item[2], "esi")
    \/ i.op = "stos" /\ Points(i.item[1], "edi") /\ IsReg(i.item[2])
    \/ i.op = "movs" /\ Points(i.item[1], "edi") /\ Points(i.item[2], "esi")

GoesOn(i) ==
    \/ i.op = "j" /\ i.cc \in Conditions \ {"g"} /\ IsImm(i.item[1]) /\ i.item[1].size = 4
    \/ i.op \in {"jecxz", "loop", "loope", "loopne"} /\ IsImm(i.item[1]) /\ i.item[1].size = 4
    \/ i.op \in {"jmp", "call"} /\ i.item[1].size = 4
    \/ i.op = "ret" /\ (i.item[1] = NoItem \/ Positive(i.item[1]))

Alike(i) == Formed(i) /\ (Calculates(i) \/ MovesData(i) \/ OnElement(i) \/ GoesOn(i))
=============================================================================
