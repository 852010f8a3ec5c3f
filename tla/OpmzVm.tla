------------------------------- MODULE OpmzVm -------------------------------
(***************************************************************************)
(* What the pseudo instructions and the restored lines do, on terms: the    *)
(* reference that a listing is compared with.  A machine has registers, a   *)
(* stack of two-byte slots addressed from sp at the start of the piece, and *)
(* a memory, the sequence of the stores made.  Unknown values are terms:    *)
(* <<"r", i>> the initial register, <<"s", o>> the initial slot.           *)
(* The semantics are those of the handlers of the traced program, as the    *)
(* texts of the instruction table describe them (add d[sp+4],d[sp] pops two *)
(* dwords, pushes the sum and then the flags).                             *)
(***************************************************************************)
EXTENDS OpmzTrees

CONSTANTS Regs,     \* register indexes
          FlagReg,  \* the register flags are popped into
          Reach     \* how far sp moves from the start of a piece, in bytes

Slots == {2 * k : k \in -(Reach \div 2)..(Reach \div 2)}

Machine0 == [reg |-> [i \in Regs |-> <<"r", i>>],
             stk |-> [o \in Slots |-> <<"s", o>>],
             mem |-> <<>>, sp |-> 0]

Peek(m, off, sz) == IF sz = 2 THEN m.stk[off] ELSE Cat(m.stk[off+2], m.stk[off])
Poke(m, off, sz, x) ==
    IF sz = 2 THEN [m EXCEPT !.stk[off] = LoHalf(x)]
              ELSE [m EXCEPT !.stk[off] = LoHalf(x), !.stk[off+2] = HiHalf(x)]
Move(m, d) == [m EXCEPT !.sp = @ + d]
Push(m, sz, x) == Move(Poke(m, m.sp - sz, sz, x), -sz)
Read(m, a)     == <<"m", Len(m.mem), a>>
Write(m, a, x) == [m EXCEPT !.mem = Append(@, <<a, x>>)]
\* A word register is the low half of the dword register.
SetReg(m, r, sz, x) ==
    [m EXCEPT !.reg[r[2]] = IF sz = 2 THEN Cat(HiHalf(@), LoHalf(x)) ELSE x]
GetReg(m, r, sz) == Bytes(m.reg[r[2]], sz)
Shift(x, c) == <<">>", x, c>>
FlagsOf(x)  == <<"flags", x>>

\* The value an instruction computes.
Result(m, ins) ==
    CASE ins.idef = "push_dreg" -> GetReg(m, ins.var, 4)
      [] ins.idef = "push_wreg" -> GetReg(m, ins.var, 2)
      [] ins.idef \in {"push_dconst", "push_bconst", "push_dconst0"} -> ins.var
      [] ins.idef = "push_mem"  -> Read(m, ins.var)
      [] ins.idef = "pop_dreg"  -> Peek(m, m.sp, 4)
      [] ins.idef = "pop_wreg"  -> Peek(m, m.sp, 2)
      [] ins.idef = "add"       -> Plus(Peek(m, m.sp + 4, 4), Peek(m, m.sp, 4))
      [] ins.idef \in {"shr", "cdw1", "cdw2"} -> Shift(Peek(m, m.sp, 4), Peek(m, m.sp + 4, 2))
      [] ins.idef = "load"      -> Read(m, Peek(m, m.sp, 4))
      [] ins.idef = "store"     -> Peek(m, m.sp + 4, 4)
      [] OTHER                  -> NoVar

Exec(m, ins) ==
    LET x == Result(m, ins)
    IN  CASE ins.idef \in {"push_dreg", "push_dconst", "push_dconst0", "push_mem"} -> Push(m, 4, x)
          [] ins.idef \in {"push_wreg", "push_bconst"} -> Push(m, 2, x)
          [] ins.idef = "pop_dreg" -> Move(SetReg(m, ins.var, 4, x), 4)
          [] ins.idef = "pop_wreg" -> Move(SetReg(m, ins.var, 2, x), 2)
          [] ins.idef = "add"      -> Poke(Poke(m, m.sp + 4, 4, x), m.sp, 4, FlagsOf(x))
          [] ins.idef = "shr"      -> Move(Poke(Poke(m, m.sp + 2, 4, x), m.sp - 2, 4, FlagsOf(x)), -2)
          [] ins.idef = "cdw1"     -> Poke(m, m.sp + 2, 2, LoHalf(x))
          [] ins.idef = "cdw2"     -> Poke(m, m.sp + 4, 2, HiHalf(x))
          [] ins.idef = "load"     -> Poke(m, m.sp, 4, x)
          [] ins.idef = "store"    -> Move(Write(m, Peek(m, m.sp, 4), x), 8)
          [] OTHER                 -> m

\* Machines before each instruction of a piece and after the last.
RECURSIVE RunFrom(_, _)
RunFrom(ms, ops) == IF Len(ms) > Len(ops) THEN ms
                    ELSE With(Append(ms, Exec(Last(ms), ops[Len(ms)])),
                              LAMBDA next : RunFrom(next, ops))
Run(ops) == RunFrom(<<Machine0>>, ops)

\* What the analysis records of it: for a push the handlers keep sp instead.
Pushing == {"push_dreg", "push_wreg", "push_dconst", "push_bconst", "push_dconst0"}
RecordedResult(m, ins) == IF ins.idef \in Pushing THEN <<"sp", m.sp>> ELSE Result(m, ins)

\* The trace of a piece: each instruction with its recorded result.
Traced(ops) ==
    LET trace(ms) == [i \in DOMAIN ops |-> [idef |-> ops[i].idef, var |-> ops[i].var,
                                            res |-> RecordedResult(ms[i], ops[i])]]
    IN  Eager(With(Run(ops), trace))

-----------------------------------------------------------------------------
(* The listing: restored lines in the syntax of x86.                       *)

Value(m, tok) == IF tok.t = "reg" THEN GetReg(m, tok.v, tok.sz) ELSE tok.v
Assign(m, tok, x) == SetReg(m, tok.v, tok.sz, x)

ExecAsm(m, asm) ==
    LET a == asm.args
        val(i) == Value(m, a[i])
    IN  CASE asm.op = "mov"    -> Assign(m, a[1], val(2))
          [] asm.op = "movzx"  -> Assign(m, a[1], Cat(<<"c", 0>>, val(2)))
          [] asm.op = "add"    -> Assign(m, a[1], Plus(val(2), val(1)))
          [] asm.op = "lea"    -> Assign(m, a[1], Plus(val(2), val(3)))
          [] asm.op = "load"   -> Assign(m, a[1], Read(m, val(2)))
          [] asm.op = "load2"  -> Assign(m, a[1], Read(m, Plus(val(2), val(3))))
          [] asm.op = "store"  -> Write(m, val(1), val(2))
          [] asm.op = "store2" -> Write(m, Plus(val(1), val(2)), val(3))
          [] asm.op = "shr"    -> Assign(m, a[1], Shift(val(1), val(2)))
          [] asm.op = "push"   -> Push(m, 4, Read(m, Plus(val(1), val(2))))
=============================================================================
