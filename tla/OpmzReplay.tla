----------------------------- MODULE OpmzReplay -----------------------------
(* The listing of a piece as a program: what a reader of the restored file  *)
(* gets when the lines and the instructions left in it are executed in the  *)
(* order they are printed, against what the recorded piece did.             *)
EXTENDS OpmzPass, OpmzVm

\* A pop of flags that is not printed belongs to the instruction that pushed
\* them: when that instruction is printed, it is printed without its flags.
RunLine(m, i) == IF "asm" \in out[i] THEN ExecAsm(m, line[i].asm) ELSE m
RunInst(m, i) ==
    IF "inst" \in out[i] THEN Exec(m, inst[i])
    ELSE IF inst[i].idef = "mov_flag" /\ HasRflag(inst[owner[i]])
            /\ "inst" \in out[owner[i]] THEN Move(m, 4)
    ELSE m

RECURSIVE ReplayFrom(_, _)
ReplayFrom(m, i) == IF i > N THEN m
                    ELSE With(RunLine(m, i), LAMBDA m1 :
                         With(RunInst(m1, i), LAMBDA m2 : ReplayFrom(m2, i + 1)))

\* The stack is compared from the final sp on, the flags are not: the
\* restored lines set them by themselves.
Observed(m, sp) == [sp |-> m.sp, reg |-> [i \in Regs \ {FlagReg} |-> m.reg[i]], mem |-> m.mem,
                    stk |-> [o \in {o \in Slots : o >= sp} |-> m.stk[o]]]

Recorded == Last(Run(prog))
Replayed == ReplayFrom(Machine0, 1)
Agree(m1, m2) == Observed(m1, m2.sp) = Observed(m2, m2.sp)
Equivalent == With(Recorded, LAMBDA m2 : With(Replayed, LAMBDA m1 : Agree(m1, m2)))

-----------------------------------------------------------------------------
\* The instruction at whose place the effect of i shows, when i was consumed.
RECURSIVE Place(_)
Place(i) == IF owner[i] <= i THEN i ELSE Place(owner[i])

MEM == <<"mem", 0>>
ReadsOf(ins) ==
    IF ins.idef \in {"push_dreg", "push_wreg"} THEN {ins.var}
    ELSE IF ins.idef = "load" THEN {MEM} ELSE {}
WritesOf(ins) ==
    IF ins.idef \in {"pop_dreg", "pop_wreg"} THEN {ins.var}
    ELSE IF ins.idef = "store" THEN {MEM} ELSE {}

\* Nothing overwrites a value between the instruction that read it and the
\* instruction that its reading was moved to.
ReadsSettled ==
    \A i \in 1..N : \A j \in i+1..Place(i)-1 : ReadsOf(prog[i]) \cap WritesOf(prog[j]) = {}

\* The constant register is only written where the piece sets it.
CregSettled == \A i \in 3..N : creg.reg \notin WritesOf(prog[i])

\* An expansion that was made was also used, by a line that needed it.
HalvesUsed == \A i \in 1..N : inst[i].idef \in {"cdw1", "cdw2"} => Hidden(i)

\* Every operand on the stack is a whole result or made of whole results: no
\* result was partly overwritten, none is read in part (but for shr).
Span(off, sz) == off..off+sz-1
WritesTo(ins, sp) ==
    LET res == Def[ins.idef].res
    IN  (IF res.k = STK THEN {Span(sp + res.off, res.sz)} ELSE {})
        \cup (IF HasRflag(ins) THEN {Span(sp + res.off - 4, 4)} ELSE {})
OperandsAt(ins, sp) ==
    {Span(sp + it.off, it.sz) : it \in {x \in ToSet(Def[ins.idef].items) : x.k = STK}}
WholeSlots ==
    LET whole(ms) ==
          LET spans == [i \in 1..N |-> WritesTo(prog[i], ms[i].sp)]
              isLast(j, span, k) ==
                  \A i \in j+1..k-1 : \A w \in spans[i] : w \cap span = {}
          IN  \A k \in 1..N : \A x \in OperandsAt(prog[k], ms[k].sp) :
                \A j \in 1..k-1 : \A w \in spans[j] :
                  (\E b \in w \cap x : isLast(j, {b}, k)) =>
                     isLast(j, w, k) /\ (w \subseteq x \/ prog[j].idef = "shr")
    IN  With(Eager(Run(prog)), whole)

Settled == ReadsSettled /\ CregSettled /\ HalvesUsed /\ WholeSlots

\* The listing of a piece does what the piece did, for the pieces in which
\* moving a reading to the end of its expression is harmless (xx_opmz_start,
\* xx_opmz_tree_merge, the rules and the table together).
Faithful == pc = "done" /\ ignored = {} /\ Settled => Equivalent

\* The same, whatever is written to a register or to memory between a reading
\* and the end of its expression.
FaithfulWhenRewritten ==
    pc = "done" /\ ignored = {} /\ CregSettled /\ HalvesUsed /\ WholeSlots
        => Equivalent
=============================================================================
