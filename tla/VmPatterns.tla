----------------------------- MODULE VmPatterns -----------------------------
(***************************************************************************)
(* What the recognition of handlers is made of in xx_vm32 and xx_vm_x64:   *)
(* the comparison of registers, the passes over a window, and what a       *)
(* handler that matches returns.                                           *)
(*                                                                         *)
(* w is the window (the instructions up to the jump to the next handler),  *)
(* c the contexts: c[n] before instruction n, c[n + 1] after it.  e holds  *)
(* the roles init_vmsreg2 found: sp, ip, opcode and those of the window    *)
(* before (osp, oip, oopcode).  The passes over the window are independent *)
(* of each other: no pattern requires its instructions to be in order.     *)
(***************************************************************************)
EXTENDS Emulator, FiniteSetsExt

RegBase == <<"esp", Whole>>   \* vm_regbase, fixed in xx_vm.c
Key     == <<"ebx", Whole>>   \* vm_key

----------------------------------------------------------------------------
(* Passes over a window.                                                   *)

Finds(w, ops, P1(_), P2(_)) ==
  {n \in DOMAIN w : w[n].op \in ops /\ P1(w[n].item[1]) /\ P2(w[n].item[2])}
Has(w, op)  == \E n \in DOMAIN w : w[n].op = op
Foremost(S) == IF S = {} THEN 0 ELSE Min(S)
Hindmost(S) == IF S = {} THEN 0 ELSE Max(S)

mov  == {"mov"}
movx == {"mov", "movzx"}
Sizes  == {1, 2, 4, 8}

IsReg(o)       == o.t = "REG"
TheReg(o, d)   == o.t = "REG" /\ o.def = d
\* Mutant: the parts of a register are not told apart.
InRegNarrow(d, part) == d = part
InReg(d, part) == d[1] = part[1] /\ PartSize(d[2]) >= PartSize(part[2])   \* xreg_incmp = 0
AnyReg(o)      == TRUE
At(o, d, k)    == o.def = d /\ (IF o.t = "MREGDIS" THEN o.k % 256 = k ELSE o.t = "MREG" /\ k = 0)
VmReg(o)       == o.t = "MREGI" /\ o.def = RegBase /\ o.idx # None
Through(o, d)  == o.t = "MREG" /\ o.def = d

\* The register an instruction of the window writes.
Def(w, n) == IF n = 0 THEN None ELSE w[n].item[1].def
\* mov reg, size [sp + k]
Loads(w, ops, sp, k, sizes) == Finds(w, ops, IsReg, LAMBDA o : At(o, sp, k) /\ o.size \in sizes)
\* mov size [sp + k], reg
Stores(w, sp, k, sizes, R(_)) ==
  Finds(w, mov, LAMBDA o : At(o, sp, k) /\ o.size \in sizes, LAMBDA o : IsReg(o) /\ R(o))

Moves(w, reg, op, lo, k) ==
  \E n \in DOMAIN w : LET x == w[n].item[1] y == w[n].item[2] IN
    /\ TheReg(x, reg)
    /\ \/ w[n].op = op /\ y.t = "IMM" /\ y.k % 256 = k
       \/ w[n].op = "lea" /\ y.t = "MREGDIS" /\ y.def = reg /\ y.k % 256 = lo
Grows(w, sp, k)   == Moves(w, sp, "sub", 256 - k, k)
Shrinks(w, sp, k) == Moves(w, sp, "add", k, k)
\* sub regbase, c0: the context of the machine is laid out.
Enters(w) == Grows(w, RegBase, 192)
\* An instruction that ends a window.
EndsWindow(i) == i.op = "ret" \/ (i.op = "jmp" /\ i.item[1].t = "REG")
\* lea reg, [address of this instruction]
HereIn(w, P(_)) == Finds(w, {"lea"}, P, LAMBDA o : o.t = "MDIS") # {}

----------------------------------------------------------------------------
(* What a handler returns.                                                 *)

Unmatched == [match |-> FALSE]
Blank     == [item_num |-> 0, var |-> <<>>, result |-> Zeros(WORD), flag_start |-> Zeros(WORD), flag_end |-> Zeros(WORD)]
Only      == [match |-> TRUE, item |-> Blank, out |-> Zeros(WORD)]
\* Mutant: the flags before the instruction are recorded as those after it.
SeenBefore(c, n, num, vars, result) ==
  [match |-> TRUE, out |-> Zeros(WORD),
   item |-> [item_num |-> num, var |-> vars, result |-> result,
             flag_start |-> c[n].eflag, flag_end |-> c[n].eflag]]
Seen(c, n, num, vars, result) ==
  [match |-> TRUE, out |-> Zeros(WORD),
   item |-> [item_num |-> num, var |-> vars, result |-> result,
             flag_start |-> c[n].eflag, flag_end |-> c[n + 1].eflag]]
With(m, out) == [m EXCEPT !.out = out]
Check(ok, m) == IF ok THEN m ELSE Unmatched

\* Mutant: the context after the instruction.
RAfter(c, n, d, k) == Low(c[Min({n + 1, Len(c)})].r[d[1]], k)
\* The low k bytes of a register: r[get_reg_index(def)].
R(c, n, d, k) == Low(c[n].r[d[1]], k)
ESP(c, n)     == c[n].r["esp"]

----------------------------------------------------------------------------
(* Patterns of several handlers.                                           *)

Same(d, o) == d = o

PushReg(w, c, e, ops, size, k, sizes, Eq(_, _)) ==
  LET from == Foremost(Finds(w, ops, IsReg, LAMBDA o : VmReg(o) /\ o.size = size))
      to   == Foremost(Stores(w, e.sp, 0, sizes, LAMBDA o : Eq(o, Def(w, from))))
  IN  Check(from # 0 /\ Grows(w, e.sp, k) /\ to # 0,
            With(Seen(c, to, 1, <<R(c, to, w[to].item[2].def, size)>>, ESP(c, to)),
                 R(c, from, w[from].item[2].idx, WORD)))

\* Something is fetched from the registers of the traced machine.
FromRegs(w) == Finds(w, movx, IsReg, VmReg) # {}

PopAs(w, c, e, read, size, k, Eq(_, _)) ==
  LET from == Hindmost(Loads(w, mov, e.sp, 0, {read}))
      to   == Foremost(Finds(w, mov, VmReg, LAMBDA o : IsReg(o) /\ Eq(o.def, Def(w, from)) /\ o.size = size))
  IN  Check(from # 0 /\ Shrinks(w, e.sp, k) /\ to # 0,
            With(Seen(c, to, 1, <<ESP(c, to)>>, R(c, to, w[to].item[2].def, size)),
                 R(c, to, w[to].item[1].idx, WORD)))
PopReg(w, c, e, size, k, Eq(_, _)) == PopAs(w, c, e, size, size, k, Eq)

\* add, shl, shr: mov t0, [sp]; mov t1, [sp + k]; op t0, t1.
TwoOf(w, c, op, a, b, Eq0(_, _), Eq1(_, _), Vars(_, _, _), size) ==
  LET t0 == Def(w, a)
      t1 == Def(w, b)
      at == Foremost(Finds(w, {op}, LAMBDA o : IsReg(o) /\ Eq0(t0, o.def), LAMBDA o : IsReg(o) /\ Eq1(t1, o.def)))
      x  == w[at].item[1].def
  IN  Check(a # 0 /\ b # 0 /\ at # 0, Seen(c, at, 2, Vars(at, x, w[at].item[2].def), R(c, at + 1, x, size)))

Shift(w, c, e, op, ops, in0, k, in1, Eq(_, _), size) ==
  TwoOf(w, c, op, Hindmost(Loads(w, ops, e.sp, 0, in0)), Hindmost(Loads(w, mov, e.sp, k, in1)), Eq, InReg,
        LAMBDA at, x, y : <<R(c, at, x, size), R(c, at, y, 1)>>, size)
=============================================================================
