------------------------------ MODULE VmHandles ------------------------------
(***************************************************************************)
(* vm_sreg.c and vm_handle_*.c of xx_vm32: the registers of the traced     *)
(* virtual machine, the patterns by which one of its handlers is told from *)
(* the others, and the item each of them writes for the optimizer.         *)
(***************************************************************************)
EXTENDS VmPatterns

----------------------------------------------------------------------------
(* init_vmsreg2.                                                           *)

CodeReg == {<<"esi", "d">>, <<"edi", "d">>, <<"ebp", "d">>}
NoRoles == [sp |-> None, ip |-> None, opcode |-> None]

\* The register the window jumps to; None for a plain return.
var_ip(w) ==
  LET n == Foremost({k \in DOMAIN w : EndsWindow(w[k])})
      i == w[n]
  IN CASE n = 0       -> None
       [] i.op = "jmp" -> i.item[1].def
       [] n > 1 /\ w[n - 1].op = "push" /\ IsReg(w[n - 1].item[1]) -> w[n - 1].item[1].def
       [] OTHER -> None

\* The last register that is moved by 4.
MovesBy4(i) ==
  LET a == i.item[1]
      b == i.item[2]
  IN /\ a.t = "REG"
     /\ \/ i.op \in {"add", "sub"} /\ b.t = "IMM" /\ b.k = 4
        \/ i.op = "lea" /\ b.t = "MREGDIS" /\ b.def = a.def /\ b.k \in {4, -4}
\* Mutant: the first register.
var_opcodeFirst(w) == Def(w, Foremost({n \in DOMAIN w : MovesBy4(w[n])}))
var_opcode(w) == Def(w, Hindmost({n \in DOMAIN w : MovesBy4(w[n])}))

\* What is found, and whether it is enough.
init_vmsreg2(w, before) ==
  LET ip == var_ip(w)
      op == var_opcode(w)
      sp == CHOOSE r \in CodeReg : r \notin {ip, op}
      ok == {ip, op} \subseteq CodeReg /\ ip # op
  IN  {[ok |-> ok, roles |-> IF ok THEN [sp |-> sp, ip |-> ip, opcode |-> op] ELSE NoRoles]}

\* Whether xx_start_execute goes on after that many unknown handlers and
\* windows without registers in a row.
GoesOn(unknown, failed) == unknown < 3 /\ failed = 0

----------------------------------------------------------------------------
(* Entry, jump, call, return.                                              *)

H0000(w, c, e) ==
  Check(/\ Finds(w, mov, LAMBDA o : IsReg(o) /\ o.def # Key, LAMBDA o : TheReg(o, RegBase)) # {}
        /\ Enters(w)
        /\ Finds(w, mov, LAMBDA o : TheReg(o, Key), IsReg) # {}
        /\ HereIn(w, IsReg), Only)

H0f00(w, c, e) == Check(HereIn(w, LAMBDA o : TheReg(o, e.ip)) /\ ~Enters(w), Only)

H1200(w, c, e) ==
  LET pops(d) == Finds(w, {"pop"}, LAMBDA o : TheReg(o, d), AnyReg) # {}
  IN  Check(/\ Finds(w, mov, LAMBDA o : TheReg(o, RegBase), LAMBDA o : TheReg(o, e.osp)) # {}
            /\ pops(e.osp) /\ pops(e.oopcode) /\ pops(e.oip), Only)

H1400(w, c, e) ==
  Check(/\ Finds(w, {"call"}, IsReg, AnyReg) # {}
        /\ Finds(w, mov, IsReg, LAMBDA o : o.scale = 4) # {}, Only)

----------------------------------------------------------------------------
(* push reg, push constant, pop reg.                                       *)

H0100(w, c, e) == PushReg(w, c, e, mov, 4, 4, {4}, LAMBDA o, d : o.def = d)
H0101(w, c, e) == PushReg(w, c, e, mov, 2, 2, Sizes, LAMBDA o, d : o.def = d /\ o.size = 2)
H0102(w, c, e) == PushReg(w, c, e, movx, 1, 2, Sizes, LAMBDA o, d : InReg(o.def, d) /\ o.size = 2)

SetsKey(w)     == Finds(w, mov, LAMBDA o : TheReg(o, Key), IsReg) # {}
OfOpcode(o, e) == o.def = e.opcode /\ o.t \in {"MREG", "MREGDIS"}

H0200(w, c, e) ==
  LET to == Foremost(Stores(w, e.sp, 0, {4}, LAMBDA o : o.size = 4))
      v  == R(c, to, w[to].item[2].def, 4)
  IN  Check(/\ Grows(w, e.sp, 4) /\ to # 0
            /\ Cardinality(Finds(w, movx, IsReg, LAMBDA o : OfOpcode(o, e))) = 2
            /\ ~FromRegs(w) /\ ~SetsKey(w),
            With(Seen(c, to, 1, <<v>>, IF w[to].item[1].t = "MREGDIS" THEN v ELSE ESP(c, to)), v))

PushConst(w, c, e, size) ==
  LET to == Foremost(Stores(w, e.sp, 0, {2}, LAMBDA o : o.size = 2))
  IN  Check(/\ Grows(w, e.sp, 2) /\ to # 0
            /\ Finds(w, movx, IsReg, LAMBDA o : At(o, e.opcode, 0) /\ o.size = size) # {}
            /\ ~FromRegs(w) /\ ~SetsKey(w),
            With(Seen(c, to, 1, <<R(c, to, w[to].item[2].def, size)>>, ESP(c, to)),
                 R(c, to, w[to].item[2].def, 4)))
H0201(w, c, e) == PushConst(w, c, e, 2)
H0202(w, c, e) == PushConst(w, c, e, 1)

H0300(w, c, e) == PopReg(w, c, e, 4, 4, LAMBDA d, t : d = t)
H0301(w, c, e) == PopReg(w, c, e, 2, 2, LAMBDA d, t : InReg(t, d))
H0302(w, c, e) == PopReg(w, c, e, 1, 2, LAMBDA d, t : InReg(t, d))

----------------------------------------------------------------------------
(* Arithmetic on the two words at the top of the stack of the machine.     *)

\* Mutant: the operands are recorded in the order they are added in.
SummandsInOrder(c, at, x, y, size) == <<R(c, at, x, size), R(c, at, y, size)>>
Summands(c, at, x, y, size) == <<R(c, at, y, size), R(c, at, x, size)>>
Add(w, c, e, ops, k, in0, in1, Eq(_, _), size) ==
  TwoOf(w, c, "add", Hindmost(Loads(w, ops, e.sp, 0, in0)), Hindmost(Loads(w, ops, e.sp, k, in1)), Eq, Eq,
        LAMBDA at, x, y : Summands(c, at, x, y, size), size)
H0400(w, c, e) == Add(w, c, e, mov, 4, Sizes, Sizes, Same, 4)
H0401(w, c, e) == Add(w, c, e, movx, 2, {2}, {2}, InReg, 2)
H0402(w, c, e) == Add(w, c, e, movx, 2, {1}, {1}, InReg, 1)

H0b00(w, c, e) == Shift(w, c, e, "shr", mov, {4}, 4, {1}, Same, 4)
H0b01(w, c, e) == Shift(w, c, e, "shr", movx, {2}, 2, {1}, InReg, 2)
H0b02(w, c, e) == Shift(w, c, e, "shr", movx, {1}, 2, {1}, InReg, 1)
H0e00(w, c, e) == Shift(w, c, e, "shl", mov, {4}, 4, {1}, Same, 4)
H0e01(w, c, e) == Shift(w, c, e, "shl", movx, {2}, 2, {1}, InReg, 2)
H0e02(w, c, e) == Shift(w, c, e, "shl", movx, {1}, 2, {1}, InReg, 1)

\* shrd, shld: a third word, the count.
ShiftDouble(w, c, e, op) ==
  LET a  == Hindmost(Loads(w, mov, e.sp, 0, {4}))
      b  == Hindmost(Loads(w, mov, e.sp, 4, {4}))
      k  == Hindmost(Loads(w, mov, e.sp, 8, {1}))
      at == Foremost({n \in DOMAIN w : /\ w[n].op = op /\ TheReg(w[n].item[1], Def(w, a))
                                    /\ TheReg(w[n].item[2], Def(w, b))
                                    /\ IsReg(w[n].item[3]) /\ InReg(Def(w, k), w[n].item[3].def)})
      v(j, size) == R(c, at, w[at].item[j].def, size)
  IN  Check(a # 0 /\ b # 0 /\ k # 0 /\ at # 0,
            Seen(c, at, 3, <<v(1, 4), v(2, 4), v(3, 1)>>, R(c, at + 1, w[at].item[1].def, 4)))
H0b10(w, c, e) == ShiftDouble(w, c, e, "shrd")
H0e10(w, c, e) == ShiftDouble(w, c, e, "shld")

\* nand and nor: both words are inverted before they meet.  Vars gives the
\* operands from the places of the two not instructions.
Inverted(w, c, e, op, ops, k, sizes, Eq(_, _), Vars(_, _), size) ==
  LET b  == Foremost(Loads(w, ops, e.sp, k, sizes))
      a  == Foremost(Loads(w, ops, e.sp, 0, sizes))
      t0 == Def(w, a)
      t1 == Def(w, b)
      nots(t) == Hindmost(Finds(w, {"not"}, LAMBDA o : IsReg(o) /\ Eq(t, o.def), AnyReg))
      at == Foremost(Finds(w, {op}, LAMBDA o : IsReg(o) /\ Eq(t0, o.def), LAMBDA o : IsReg(o) /\ Eq(t1, o.def)))
  IN  Check(a # 0 /\ b # 0 /\ nots(t1) # 0 /\ nots(t0) # 0 /\ at # 0,
            Seen(c, at, 2, Vars(R(c, nots(t1), t1, size), R(c, nots(t0), t0, size)),
                 R(c, at + 1, w[at].item[1].def, size)))

\* The second operand is written over the first one (0900, 0902), or both
\* into the second place (0901).
H0900(w, c, e) == Inverted(w, c, e, "and", mov, 4, Sizes, Same, LAMBDA x, y : <<y, Zeros(WORD)>>, 4)
H0901(w, c, e) == Inverted(w, c, e, "and", movx, 2, {2}, InReg, LAMBDA x, y : <<Zeros(WORD), y>>, 2)
H0902(w, c, e) == Inverted(w, c, e, "and", movx, 2, {1}, InReg, LAMBDA x, y : <<y, Zeros(WORD)>>, 1)
H0d00(w, c, e) == Inverted(w, c, e, "or", mov, 4, {4}, Same, LAMBDA x, y : <<x, y>>, 4)
H0d01(w, c, e) == Inverted(w, c, e, "or", movx, 2, {2}, InReg, LAMBDA x, y : <<x, y>>, 2)
H0d02(w, c, e) == Inverted(w, c, e, "or", movx, 2, {1}, InReg, LAMBDA x, y : <<x, y>>, 1)

\* mul, imul: the high half of the product is not recorded.
Multiply(w, c, e, op) ==
  LET a  == Hindmost(Loads(w, mov, e.sp, 4, Sizes))
      b  == Hindmost(Loads(w, mov, e.sp, 0, Sizes))
      at == Foremost(Finds(w, {op}, LAMBDA o : TheReg(o, Def(w, b)), AnyReg))
  IN  Check(a # 0 /\ b # 0 /\ at # 0,
            Seen(c, at, 2, <<c[at].r["eax"], R(c, at, Def(w, b), 4)>>, c[at + 1].r["eax"]))
H0c00(w, c, e) == Multiply(w, c, e, "mul")
H0c10(w, c, e) == Multiply(w, c, e, "imul")

\* div, idiv: two operands are announced, the first place stays empty.
Divide(w, c, e, op) ==
  LET load(k) == Foremost(Loads(w, mov, e.sp, k, Sizes))
      at == Foremost(Finds(w, {op}, LAMBDA o : TheReg(o, Def(w, load(8))), AnyReg))
  IN  Check(load(0) # 0 /\ load(4) # 0 /\ load(8) # 0 /\ at # 0,
            Seen(c, at, 2, <<Zeros(WORD), c[at].r["eax"], R(c, at, Def(w, load(8)), 4)>>, c[at + 1].r["eax"]))
H0a00(w, c, e) == Divide(w, c, e, "div")
H0a10(w, c, e) == Divide(w, c, e, "idiv")

----------------------------------------------------------------------------
(* Memory, stack pointer, flags.                                           *)

H0500(w, c, e) ==
  LET t0 == Def(w, Foremost(Loads(w, mov, e.sp, 0, Sizes)))
      at == Foremost(Finds(w, mov, IsReg, LAMBDA o : Through(o, t0) /\ o.size = 4))
      t1 == Def(w, at)
  IN  Check(/\ t0 # None /\ at # 0
            /\ Stores(w, e.sp, 0, Sizes, LAMBDA o : o.def = t1 /\ o.size = 4) # {},
            Seen(c, at, 1, <<R(c, at, t0, 4)>>, R(c, at + 1, t1, 4)))

Fetch2(w, c, e, size) ==
  LET t0 == Def(w, Foremost(Loads(w, mov, e.sp, 0, Sizes)))
      at == Foremost(Finds(w, movx, LAMBDA o : IsReg(o) /\ (size = 2 => o.size = 2), LAMBDA o : Through(o, t0) /\ o.size = size))
      t1 == Def(w, at)
  IN  Check(/\ t0 # None /\ at # 0 /\ Shrinks(w, e.sp, 2)
            /\ Stores(w, e.sp, 0, {2}, LAMBDA o : o.def = t1 /\ o.size = 2) # {},
            Seen(c, at, 1, <<R(c, at, t0, 4)>>, R(c, at + 1, t1, size)))
H0501(w, c, e) == Fetch2(w, c, e, 2)
H0502(w, c, e) == Fetch2(w, c, e, 1)

Put(w, c, e, size) ==
  LET t0 == Def(w, Hindmost(Loads(w, mov, e.sp, 0, Sizes)))
      t1 == Def(w, Hindmost(Finds(w, mov, LAMBDA o : IsReg(o) /\ o.size = size, LAMBDA o : o.t = "MREGDIS" /\ At(o, e.sp, 4))))
      at == Foremost(Finds(w, mov, LAMBDA o : Through(o, t0), LAMBDA o : TheReg(o, t1) /\ o.size = size))
  IN  Check(t0 # None /\ t1 # None /\ at # 0,
            Seen(c, at, 1, <<R(c, at, t1, size)>>, R(c, at, t0, 4)))
H0600(w, c, e) == Put(w, c, e, 4)
H0601(w, c, e) == Put(w, c, e, 2)
H0602(w, c, e) == Put(w, c, e, 1)

\* Mutant: what is pushed need not be the stack pointer.
H0700OfAny(w, c, e) ==
  LET to == Foremost(Stores(w, e.sp, 0, Sizes, AnyReg))
  IN  Check(Grows(w, e.sp, 4) /\ to # 0, Seen(c, to, 1, <<R(c, to, w[to].item[2].def, 4)>>, ESP(c, to)))
H0700(w, c, e) ==
  LET to == Foremost(Stores(w, e.sp, 0, Sizes, AnyReg))
      t0 == w[to].item[2].def
  IN  Check(/\ Grows(w, e.sp, 4) /\ to # 0
            /\ Finds(w, mov, LAMBDA o : TheReg(o, t0), LAMBDA o : TheReg(o, e.sp)) # {},
            Seen(c, to, 1, <<R(c, to, t0, 4)>>, ESP(c, to)))
H0701(w, c, e) ==
  LET t0 == Def(w, Hindmost(Finds(w, movx, IsReg, LAMBDA o : TheReg(o, e.sp))))
      to == Foremost(Stores(w, e.sp, 0, {2}, LAMBDA o : InReg(t0, o.def)))
  IN  Check(t0 # None /\ Grows(w, e.sp, 2) /\ to # 0,
            Seen(c, to, 1, <<R(c, to, w[to].item[2].def, 2)>>, ESP(c, to)))

H0800(w, c, e) ==
  LET steps(op) == Finds(w, {op}, LAMBDA o : IsReg(o) /\ o.size = 4, AnyReg) # {}
  IN  Check(/\ steps("inc") /\ steps("dec")
            /\ Stores(w, e.sp, 0, Sizes, AnyReg) # {}
            /\ \E n \in Finds(w, mov, IsReg, LAMBDA o : o.t = "MREGISDIS" /\ o.scale = 4) :
                 w[n].item[1].def = w[n].item[2].idx, Only)

H1000(w, c, e) ==
  Check(/\ Has(w, "cpuid") /\ Loads(w, mov, e.sp, 0, {4}) # {}
        /\ \A k \in {0, 4, 8, 12} : Stores(w, e.sp, k, Sizes, AnyReg) # {}, Only)
H1001(w, c, e) ==
  Check(Has(w, "rdtsc") /\ \A k \in {0, 4} : Stores(w, e.sp, k, Sizes, AnyReg) # {}, Only)

H1100(w, c, e) ==
  LET at == Foremost(Finds(w, mov, LAMBDA o : TheReg(o, e.sp), LAMBDA o : At(o, e.sp, 0)))
  IN  Check(at # 0, Seen(c, at, 1, <<ESP(c, at)>>, R(c, at + 1, e.sp, 4)))

\* Any constant added to sp will do: the comparison with 4 is an assignment.
H1300(w, c, e) ==
  LET at == Hindmost({n \in DOMAIN w : w[n].op = "popfd"})
  IN  Check(/\ Finds(w, {"push"}, LAMBDA o : At(o, e.sp, 0) /\ o.size = 4, AnyReg) # {}
            /\ \/ Finds(w, {"add"}, LAMBDA o : TheReg(o, e.sp), LAMBDA o : o.t = "IMM") # {}
               \/ Shrinks(w, e.sp, 4)
            /\ at # 0,
            Seen(c, at, 1, <<ESP(c, at)>>, c[at + 1].eflag))

----------------------------------------------------------------------------
\* The rows of the table in the order vm_handle() tries them.
st_handle_func ==
  <<"0000", "0100", "0101", "0102", "0200", "0201", "0202", "0300", "0301", "0302",
    "0400", "0401", "0402", "0500", "0501", "0502", "0600", "0601", "0602", "0700", "0701", "0800",
    "0900", "0901", "0902", "0a00", "0a10", "0b00", "0b01", "0b02", "0b10", "0c00", "0c10",
    "0d00", "0d01", "0d02", "0e00", "0e01", "0e02", "0e10", "0f00",
    "1000", "1001", "1100", "1200", "1300", "1400">>
func_handle(code, w, c, e) ==
  CASE code = "0000" -> H0000(w, c, e)
    [] code = "0100" -> H0100(w, c, e)
    [] code = "0101" -> H0101(w, c, e)
    [] code = "0102" -> H0102(w, c, e)
    [] code = "0200" -> H0200(w, c, e)
    [] code = "0201" -> H0201(w, c, e)
    [] code = "0202" -> H0202(w, c, e)
    [] code = "0300" -> H0300(w, c, e)
    [] code = "0301" -> H0301(w, c, e)
    [] code = "0302" -> H0302(w, c, e)
    [] code = "0400" -> H0400(w, c, e)
    [] code = "0401" -> H0401(w, c, e)
    [] code = "0402" -> H0402(w, c, e)
    [] code = "0500" -> H0500(w, c, e)
    [] code = "0501" -> H0501(w, c, e)
    [] code = "0502" -> H0502(w, c, e)
    [] code = "0600" -> H0600(w, c, e)
    [] code = "0601" -> H0601(w, c, e)
    [] code = "0602" -> H0602(w, c, e)
    [] code = "0700" -> H0700(w, c, e)
    [] code = "0701" -> H0701(w, c, e)
    [] code = "0800" -> H0800(w, c, e)
    [] code = "0900" -> H0900(w, c, e)
    [] code = "0901" -> H0901(w, c, e)
    [] code = "0902" -> H0902(w, c, e)
    [] code = "0a00" -> H0a00(w, c, e)
    [] code = "0a10" -> H0a10(w, c, e)
    [] code = "0b00" -> H0b00(w, c, e)
    [] code = "0b01" -> H0b01(w, c, e)
    [] code = "0b02" -> H0b02(w, c, e)
    [] code = "0b10" -> H0b10(w, c, e)
    [] code = "0c00" -> H0c00(w, c, e)
    [] code = "0c10" -> H0c10(w, c, e)
    [] code = "0d00" -> H0d00(w, c, e)
    [] code = "0d01" -> H0d01(w, c, e)
    [] code = "0d02" -> H0d02(w, c, e)
    [] code = "0e00" -> H0e00(w, c, e)
    [] code = "0e01" -> H0e01(w, c, e)
    [] code = "0e02" -> H0e02(w, c, e)
    [] code = "0e10" -> H0e10(w, c, e)
    [] code = "0f00" -> H0f00(w, c, e)
    [] code = "1000" -> H1000(w, c, e)
    [] code = "1001" -> H1001(w, c, e)
    [] code = "1100" -> H1100(w, c, e)
    [] code = "1200" -> H1200(w, c, e)
    [] code = "1300" -> H1300(w, c, e)
    [] code = "1400" -> H1400(w, c, e)
=============================================================================
