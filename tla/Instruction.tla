---------------------------- MODULE Instruction ----------------------------
(***************************************************************************)
(* A decoded instruction as the emulations read it: XX_INST with the       *)
(* operands xxdisasm32 or xxdisasm64 puts in it.                           *)
(***************************************************************************)
EXTENDS Naturals, Sequences

CONSTANT WORD   \* bytes of a register: 4 in xx_vm32, 8 in xx_vm_x64
ASSUME WordAssumption == WORD \in {4, 8}

(* Registers and operands.  A definition of a register is its number and   *)
(* the part of it that is meant; index is none when its length is 0.  The  *)
(* registers have their names of 32 bits on both machines: part q of eax   *)
(* is rax.  The prefix of an instruction that names a segment is kept with *)
(* its operand in memory, as the base of the segment.                      *)

None        == <<"none", "none">>
PartSize(p) == CASE p = "q" -> 8 [] p = "d" -> 4 [] p = "w" -> 2 [] OTHER -> 1
Whole       == IF WORD = 8 THEN "q" ELSE "d"

Operand(t, def, idx, scale, size, k) ==
  [t |-> t, def |-> def, idx |-> idx, scale |-> scale, size |-> size, k |-> k, seg |-> 0]

NoItem           == Operand("none", None, None, 0, 0, 0)
Reg(r, p)        == Operand("REG", <<r, p>>, None, 0, PartSize(p), 0)
Imm(k, size)     == Operand("IMM", None, None, 0, size, k)
MReg(r, size)    == Operand("MREG", <<r, Whole>>, None, 0, size, 0)
MDis(r, k, size) == Operand("MREGDIS", <<r, Whole>>, None, 0, size, k)
MIdx(r, x, size) == Operand("MREGI", <<r, Whole>>, <<x, Whole>>, 0, size, 0)
MScale(r, x)     == Operand("MREGISDIS", <<r, Whole>>, <<x, Whole>>, 4, WORD, 0)
MHere            == Operand("MDIS", None, None, 0, WORD, 0)
InSegment(o, b)  == [o EXCEPT !.seg = b]

\* An instruction with its three operand slots; unused ones are NoItem.
Inst(op, items) == [op |-> op, item |-> SubSeq(items \o <<NoItem, NoItem, NoItem>>, 1, 3)]
============================================================================
