----------------------------- MODULE VmHandles64 -----------------------------
(***************************************************************************)
(* vm_sreg.c and vm_handle_*.c of xx_vm_x64, the counterpart of VmHandles  *)
(* for words of 8 bytes.  The registers of the traced machine are found by *)
(* other means than in xx_vm32, and a window without them need not end the *)
(* recording.                                                              *)
(***************************************************************************)
EXTENDS VmPatterns

----------------------------------------------------------------------------
(* init_vmsreg2.                                                           *)

Lost == [sp |-> None, ip |-> None, opcode |-> None]

\* Where the window ends, and the register it jumps to.
WindowEnd(w) == Foremost({n \in DOMAIN w : EndsWindow(w[n])})
PlainReturn(w, n) == w[n].op = "ret" /\ ~(n > 1 /\ w[n - 1].op = "push" /\ IsReg(w[n - 1].item[1]))
var_ip(w, n) == IF w[n].op = "ret" THEN Def(w, n - 1) ELSE Def(w, n)

\* The last register of 8 bytes that is moved by 4; if there is none the code
\* reads an array it has not written, here empty or what the last call left.
MovesBy4(i) ==
  LET a == i.item[1]
      b == i.item[2]
  IN /\ a.t = "REG" /\ a.size = 8
     /\ \/ i.op \in {"add", "sub"} /\ b.t = "IMM" /\ b.k = 4
        \/ i.op = "lea" /\ b.t = "MREGDIS" /\ b.def = a.def /\ b.k \in {4, -4}
\* Mutant: the first such register.
var_opcodeFirst(w, before) ==
  LET n == Foremost({k \in DOMAIN w : MovesBy4(w[k])})
  IN  IF n = 0 THEN {None, before.opcode} ELSE {Def(w, n)}
var_opcode(w, before) ==
  LET n == Hindmost({k \in DOMAIN w : MovesBy4(w[k])})
  IN  IF n = 0 THEN {None, before.opcode} ELSE {Def(w, n)}

\* An operand in memory without an index.
xx_item_maddr(o) == o.t \in {"MREG", "MREGDIS", "MDIS"} /\ o.idx = None
\* The base of the first such operand that is neither rsp nor one of others;
\* None if there is no such operand, or if its address has no base.
xx_vmp_sp(w, others) ==
  LET of(n)   == {k \in 1..3 : xx_item_maddr(w[n].item[k])}
      base(n) == w[n].item[Min(of(n))].def
      at == Foremost({n \in DOMAIN w : of(n) # {} /\ base(n) \notin others \cup {RegBase}})
  IN  IF at = 0 THEN None ELSE base(at)

\* Without any operand in memory an array is read that was not written.
var_sp(w, ip, op, before) ==
  IF op = None THEN {None}
  ELSE IF \A n \in DOMAIN w : \A k \in 1..3 : ~xx_item_maddr(w[n].item[k]) THEN {None, before.sp}
  ELSE {xx_vmp_sp(w, {ip, op})}

Found(ip, op, sp) == [ok |-> sp # None, roles |-> [sp |-> sp, ip |-> ip, opcode |-> op]]
init_vmsreg2(w, before) ==
  IF WindowEnd(w) = 0 \/ PlainReturn(w, WindowEnd(w)) THEN {[ok |-> FALSE, roles |-> Lost]}
  ELSE UNION {{Found(var_ip(w, WindowEnd(w)), op, sp) : sp \in var_sp(w, var_ip(w, WindowEnd(w)), op, before)} :
              op \in var_opcode(w, before)}

\* Whether xx_start_execute goes on after that many unknown handlers and
\* windows without registers in a row.
GoesOn(unknown, failed) == unknown < 5 /\ failed <= 2
\* A jump to an address does not stay in the window.
Keeps(i) == ~(i.op = "jmp" /\ i.item[1].t # "REG")

----------------------------------------------------------------------------
(* Entry, jumps, call, return.                                             *)

H0000(w, c, e) ==
  Check(/\ \/ Finds(w, {"sub"}, LAMBDA o : TheReg(o, RegBase), LAMBDA o : o.t = "IMM" /\ o.k = 384) # {}
           \/ Finds(w, {"lea"}, LAMBDA o : TheReg(o, RegBase),
                    LAMBDA o : o.t = "MREGDIS" /\ o.def = RegBase /\ o.k = -384) # {}
        /\ HereIn(w, LAMBDA o : TheReg(o, e.ip)), Only)

\* A jump that leaves the registers alone, and one that assigns them anew.
H0f00(w, c, e) ==
  Check(/\ HereIn(w, LAMBDA o : TheReg(o, e.oip)) /\ ~Enters(w) /\ ~Shrinks(w, e.osp, 4), Only)
H0f01(w, c, e) ==
  Check(/\ Loads(w, mov, e.osp, 0, Sizes) # {} /\ Shrinks(w, e.osp, 8) /\ HereIn(w, IsReg), Only)

H1200(w, c, e) ==
  LET pops(d) == Finds(w, {"pop"}, LAMBDA o : TheReg(o, d), AnyReg) # {}
  IN  Check(/\ Finds(w, mov, LAMBDA o : TheReg(o, RegBase), LAMBDA o : TheReg(o, e.osp)) # {}
            /\ pops(e.osp) /\ pops(e.oopcode) /\ pops(e.oip), Only)

H1400(w, c, e) ==
  Check(/\ Finds(w, {"call"}, IsReg, AnyReg) # {}
        /\ Finds(w, mov, IsReg, LAMBDA o : o.scale = 4) # {}, Only)

----------------------------------------------------------------------------
(* push reg, push constant, pop reg.                                       *)

H0100(w, c, e)  == PushReg(w, c, e, mov, 4, 4, {4}, LAMBDA o, d : o.def = d)
H0101(w, c, e)  == PushReg(w, c, e, mov, 2, 2, Sizes, LAMBDA o, d : o.def = d /\ o.size = 2)
H0102(w, c, e)  == PushReg(w, c, e, movx, 1, 2, Sizes, LAMBDA o, d : InReg(o.def, d) /\ o.size = 2)
H10103(w, c, e) == PushReg(w, c, e, mov, 8, 8, {8}, LAMBDA o, d : o.def = d)

\* A constant of 4 or 8 bytes: the bytecode is read twice.
OfOpcode(o, e) == o.def = e.opcode /\ o.t \in {"MREG", "MREGDIS"}
PushWide(w, c, e, size) ==
  LET to == Foremost(Stores(w, e.sp, 0, {size}, LAMBDA o : o.size = size))
      v  == R(c, to, w[to].item[2].def, size)
  IN  Check(/\ Grows(w, e.sp, size) /\ to # 0
            /\ Cardinality(Finds(w, movx, IsReg, LAMBDA o : OfOpcode(o, e))) = 2
            /\ ~FromRegs(w), With(Seen(c, to, 1, <<v>>, ESP(c, to)), R(c, to, w[to].item[2].def, WORD)))
H0200(w, c, e)  == PushWide(w, c, e, 4)
H10203(w, c, e) == PushWide(w, c, e, 8)

PushConst(w, c, e, size) ==
  LET to == Foremost(Stores(w, e.sp, 0, {2}, LAMBDA o : o.size = 2))
  IN  Check(/\ Grows(w, e.sp, 2) /\ to # 0
            /\ Finds(w, movx, IsReg, LAMBDA o : At(o, e.opcode, 0) /\ o.size = size) # {}
            /\ ~FromRegs(w) /\ Finds(w, movx, IsReg, LAMBDA o : o.t = "MREGI" /\ o.idx = RegBase) = {},
            With(Seen(c, to, 1, <<R(c, to, w[to].item[2].def, size)>>, ESP(c, to)),
                 R(c, to, w[to].item[2].def, WORD)))
H0201(w, c, e) == PushConst(w, c, e, 2)
H0202(w, c, e) == PushConst(w, c, e, 1)

H0300(w, c, e)  == PopReg(w, c, e, 4, 4, LAMBDA d, t : d = t)
H0301(w, c, e)  == PopReg(w, c, e, 2, 2, LAMBDA d, t : InReg(t, d))
\* A byte is popped as a word.
H0302(w, c, e) == PopAs(w, c, e, 2, 1, 2, LAMBDA d, t : InReg(t, d))
H10303(w, c, e) == PopReg(w, c, e, 8, 8, LAMBDA d, t : d = t)

----------------------------------------------------------------------------
(* Arithmetic on the two words at the top of the stack of the machine.     *)

Add(w, c, e, ops, k, in, Eq(_, _), size) ==
  TwoOf(w, c, "add", Hindmost(Loads(w, ops, e.sp, 0, in)), Hindmost(Loads(w, ops, e.sp, k, in)), Eq, Eq,
        LAMBDA at, x, y : <<R(c, at, y, size), R(c, at, x, size)>>, size)
H10400(w, c, e) == Add(w, c, e, mov, 4, Sizes, Same, 4)
H10401(w, c, e) == Add(w, c, e, movx, 2, {2}, InReg, 2)
H10402(w, c, e) == Add(w, c, e, movx, 2, {1}, InReg, 1)
H10403(w, c, e) == Add(w, c, e, mov, 8, Sizes, Same, 8)

Shifted64(w, c, e, op, ops, k, Eq(_, _), n) ==
  LET t0 == Def(w, Hindmost(Loads(w, ops, e.sp, 0, Sizes)))
      t1 == Def(w, Hindmost(Loads(w, ops, e.sp, k, Sizes)))
      at == Foremost(Finds(w, {op}, LAMBDA o : IsReg(o) /\ Eq(t0, o.def) /\ o.size = n,
                                    LAMBDA o : IsReg(o) /\ InReg(t1, o.def) /\ o.size = 1))
      v(j, size) == R(c, at, w[at].item[j].def, size)
  IN  Check(t0 # None /\ t1 # None /\ at # 0, Seen(c, at, 2, <<v(1, n), v(2, 1)>>, R(c, at + 1, w[at].item[1].def, n)))
H10b00(w, c, e) == Shifted64(w, c, e, "shr", mov, 4, Same, 4)
H10b01(w, c, e) == Shifted64(w, c, e, "shr", movx, 2, InReg, 2)
H10b02(w, c, e) == Shifted64(w, c, e, "shr", movx, 2, InReg, 1)
H10b03(w, c, e) == Shifted64(w, c, e, "shr", mov, 8, Same, 8)
H10e00(w, c, e) == Shifted64(w, c, e, "shl", mov, 4, Same, 4)
H10e01(w, c, e) == Shifted64(w, c, e, "shl", movx, 2, InReg, 2)
H10e02(w, c, e) == Shifted64(w, c, e, "shl", movx, 2, InReg, 1)
H10e03(w, c, e) == Shifted64(w, c, e, "shl", mov, 8, Same, 8)

ShiftDouble(w, c, e, op, n) ==
  LET load(k, size) == Hindmost(Loads(w, mov, e.sp, k, {size}))
      a  == load(0, n)
      b  == load(n, n)
      k  == load(2 * n, 1)
      at == Foremost({j \in DOMAIN w : /\ w[j].op = op /\ TheReg(w[j].item[1], Def(w, a))
                                    /\ TheReg(w[j].item[2], Def(w, b))
                                    /\ IsReg(w[j].item[3]) /\ InReg(Def(w, k), w[j].item[3].def)})
      v(j, size) == R(c, at, w[at].item[j].def, size)
  IN  Check(a # 0 /\ b # 0 /\ k # 0 /\ at # 0,
            Seen(c, at, 3, <<v(1, n), v(2, n), v(3, 1)>>, R(c, at + 1, w[at].item[1].def, n)))
H0b10(w, c, e) == ShiftDouble(w, c, e, "shrd", 4)
H0b11(w, c, e) == ShiftDouble(w, c, e, "shrd", 8)
H0e10(w, c, e) == ShiftDouble(w, c, e, "shld", 4)
H0e11(w, c, e) == ShiftDouble(w, c, e, "shld", 8)

\* nand and nor: both operands are written into the first place, the one that
\* is inverted by t1 last.
Inverted(w, c, op, a, b, Eq(_, _), size) ==
  LET t0 == Def(w, a)
      t1 == Def(w, b)
      nots(t) == Hindmost(Finds(w, {"not"}, LAMBDA o : IsReg(o) /\ Eq(t, o.def), AnyReg))
      at == Foremost(Finds(w, {op}, LAMBDA o : IsReg(o) /\ Eq(t0, o.def), LAMBDA o : IsReg(o) /\ Eq(t1, o.def)))
  IN  Check(a # 0 /\ b # 0 /\ nots(t0) # 0 /\ nots(t1) # 0 /\ at # 0,
            Seen(c, at, 2, <<R(c, nots(t1), t1, size), Zeros(WORD)>>, R(c, at + 1, w[at].item[1].def, size)))

\* mov t0, [sp] of nand of 4 and 8 bytes: the first, of any size without a
\* displacement.
FirstOfNand(w, e, n) ==
  Foremost(Finds(w, mov, IsReg, LAMBDA o : At(o, e.sp, 0) /\ (o.t = "MREGDIS" => o.size = n)))
Nand(w, c, e, in1, n) == Inverted(w, c, "and", FirstOfNand(w, e, n), Foremost(Loads(w, mov, e.sp, n, in1)), Same, n)
Nand2(w, c, e, n) ==
  Inverted(w, c, "and", Foremost(Loads(w, movx, e.sp, 0, {n})), Foremost(Loads(w, movx, e.sp, 2, {n})), InReg, n)
H10900(w, c, e) == Nand(w, c, e, {4}, 4)
H10901(w, c, e) == Nand2(w, c, e, 2)
H10902(w, c, e) == Nand2(w, c, e, 1)
H10903(w, c, e) == Nand(w, c, e, Sizes, 8)

\* The one of nor: the first without a displacement, or else the last.
FirstOfNor(w, ops, e, n) ==
  LET all    == Loads(w, ops, e.sp, 0, {n})
      direct == {k \in all : w[k].item[2].t = "MREG"}
  IN  IF direct = {} THEN Hindmost(all) ELSE Min(direct)
H10d00(w, c, e) == Inverted(w, c, "or", FirstOfNor(w, mov, e, 4), Foremost(Loads(w, mov, e.sp, 4, {4})), Same, 4)
H10d01(w, c, e) == Inverted(w, c, "or", FirstOfNor(w, movx, e, 2), Foremost(Loads(w, movx, e.sp, 2, {2})), InReg, 2)
H10d02(w, c, e) ==
  Inverted(w, c, "or", Foremost(Loads(w, movx, e.sp, 0, {1})), Foremost(Loads(w, movx, e.sp, 2, {1})), InReg, 1)
H10d03(w, c, e) == Inverted(w, c, "or", FirstOfNor(w, mov, e, 8), Foremost(Loads(w, mov, e.sp, 8, {8})), Same, 8)

\* mul, imul: the product is by eax, which is also the second operand.
Multiply(w, c, e, op, n) ==
  LET t0 == Def(w, Hindmost(Loads(w, mov, e.sp, 0, Sizes)))
      t1 == Def(w, Hindmost(Loads(w, mov, e.sp, n, Sizes)))
      at == Foremost(Finds(w, {op}, LAMBDA o : TheReg(o, t0) /\ o.size = n, LAMBDA o : TheReg(o, t1) /\ o.size = n))
  IN  Check(t0 # None /\ t1 # None /\ at # 0,
            Seen(c, at, 2, <<Low(c[at].r["eax"], n), R(c, at, t1, n)>>, Low(c[at + 1].r["eax"], n)))
H10c00(w, c, e) == Multiply(w, c, e, "mul", 4)
H10c10(w, c, e) == Multiply(w, c, e, "imul", 4)
H10c23(w, c, e) == Multiply(w, c, e, "mul", 8)
H10c33(w, c, e) == Multiply(w, c, e, "imul", 8)

\* div, idiv: two operands are announced, the first place stays empty.
Divide(w, c, e, op, n) ==
  LET load(k) == Foremost(Loads(w, mov, e.sp, k, Sizes))
      t2 == Def(w, load(2 * n))
      at == Foremost(Finds(w, {op}, LAMBDA o : TheReg(o, t2), AnyReg))
  IN  Check(load(0) # 0 /\ load(n) # 0 /\ load(2 * n) # 0 /\ at # 0,
            Seen(c, at, 2, <<Zeros(WORD), c[at].r["eax"], R(c, at, t2, WORD)>>, c[at + 1].r["eax"]))
H10a00(w, c, e) == Divide(w, c, e, "div", 4)
H10a10(w, c, e) == Divide(w, c, e, "idiv", 4)
H10a23(w, c, e) == Divide(w, c, e, "div", 8)
H10a33(w, c, e) == Divide(w, c, e, "idiv", 8)

----------------------------------------------------------------------------
(* Memory, stack pointer, flags.                                           *)

\* mov t1, [t0] of 4 bytes with any displacement, of 8 bytes without.
Fetch(w, c, e, n) ==
  LET t0 == Def(w, Foremost(Loads(w, mov, e.sp, 0, Sizes)))
      at == Foremost(Finds(w, mov, IsReg, LAMBDA o : (At(o, t0, 0) \/ (n = 4 /\ o.t = "MREGDIS" /\ o.def = t0)) /\ o.size = n))
      t1 == Def(w, at)
  IN  Check(/\ t0 # None /\ at # 0
            /\ Stores(w, e.sp, 0, Sizes, LAMBDA o : o.def = t1 /\ o.size = n) # {},
            Seen(c, at, 1, <<R(c, at, t0, n)>>, R(c, at + 1, t1, n)))
H10500(w, c, e) == Fetch(w, c, e, 4)
H10503(w, c, e) == Fetch(w, c, e, 8)

Fetch2(w, c, e, size) ==
  LET t0 == Def(w, Foremost(Loads(w, mov, e.sp, 0, Sizes)))
      at == Foremost(Finds(w, movx, LAMBDA o : IsReg(o) /\ (size = 2 => o.size = 2), LAMBDA o : At(o, t0, 0) /\ o.size = size))
      t1 == Def(w, at)
  IN  Check(/\ t0 # None /\ at # 0 /\ Shrinks(w, e.sp, 6)
            /\ Stores(w, e.sp, 0, {2}, LAMBDA o : o.def = t1 /\ o.size = 2) # {},
            Seen(c, at, 1, <<R(c, at, t0, WORD)>>, R(c, at + 1, t1, size)))
H10501(w, c, e) == Fetch2(w, c, e, 2)
H10502(w, c, e) == Fetch2(w, c, e, 1)

\* The address is recorded in as many bytes as are stored at it.
Put(w, c, e, n) ==
  LET t0 == Def(w, Hindmost(Finds(w, mov, LAMBDA o : IsReg(o) /\ o.size = 8, LAMBDA o : At(o, e.sp, 0))))
      t1 == Def(w, Hindmost(Finds(w, mov, IsReg, LAMBDA o : o.t = "MREGDIS" /\ At(o, e.sp, 8) /\ o.size = n)))
      at == Foremost(Finds(w, mov, LAMBDA o : At(o, t0, 0), LAMBDA o : TheReg(o, t1)))
  IN  Check(t0 # None /\ t1 # None /\ at # 0, Seen(c, at, 1, <<R(c, at, t1, n)>>, R(c, at, t0, n)))
H10610(w, c, e) == Put(w, c, e, 4)
H10611(w, c, e) == Put(w, c, e, 2)
H10612(w, c, e) == Put(w, c, e, 1)
H10613(w, c, e) == Put(w, c, e, 8)

PushSp(w, c, e, n, Eq(_, _)) ==
  LET to == Foremost(Stores(w, e.sp, 0, Sizes, AnyReg))
      t0 == w[to].item[2].def
  IN  Check(/\ Grows(w, e.sp, n) /\ to # 0
            /\ Finds(w, mov, LAMBDA o : IsReg(o) /\ Eq(o.def, t0), LAMBDA o : TheReg(o, e.sp)) # {},
            Seen(c, to, 1, <<R(c, to, t0, n)>>, ESP(c, to)))
H0700(w, c, e) == PushSp(w, c, e, 4, InReg)
H0701(w, c, e) == PushSp(w, c, e, 2, InReg)
H0703(w, c, e) == PushSp(w, c, e, 8, Same)

H0800(w, c, e) ==
  LET steps(op) == Finds(w, {op}, LAMBDA o : IsReg(o) /\ o.size = 4, AnyReg) # {}
  IN  Check(/\ steps("inc") /\ steps("dec")
            /\ Stores(w, e.sp, 0, Sizes, AnyReg) # {}
            /\ \E n \in Finds(w, mov, IsReg, LAMBDA o : o.t = "MREGISDIS" /\ o.scale = 4) :
                 w[n].item[1].def = w[n].item[2].idx, Only)

H1000(w, c, e) ==
  Check(/\ Has(w, "cpuid") /\ Loads(w, mov, e.sp, 0, {4}) # {}
        /\ \A k \in {0, 4, 8, 12} : Stores(w, e.sp, k, Sizes, AnyReg) # {}, Only)
H1001(w, c, e) ==
  Check(Has(w, "rdtsc") /\ \A k \in {0, 4} : Stores(w, e.sp, k, Sizes, AnyReg) # {}, Only)

\* The first operand would have to have 4 bytes, which sp never has here.
H1100(w, c, e) ==
  Check(Finds(w, mov, LAMBDA o : TheReg(o, e.sp) /\ o.size = 4, LAMBDA o : At(o, e.sp, 0)) # {}, Only)
H1103(w, c, e) ==
  LET at == Foremost(Finds(w, mov, LAMBDA o : TheReg(o, e.sp) /\ o.size = 8, LAMBDA o : At(o, e.sp, 0)))
  IN  Check(at # 0, Seen(c, at, 1, <<ESP(c, at)>>, R(c, at + 1, e.sp, 8)))

\* The flags are taken from the stack of the machine; nothing is noted of it.
TakeFlags(w, e, n) ==
  Check(/\ Finds(w, {"push"}, LAMBDA o : At(o, e.sp, 0) /\ o.size = n, AnyReg) # {}
        /\ Shrinks(w, e.sp, n) /\ Has(w, "popfd"), Only)
H1300(w, c, e) == TakeFlags(w, e, 4)
H1303(w, c, e) == TakeFlags(w, e, 8)

----------------------------------------------------------------------------
\* The rows of the table in the order vm_handle() tries them.
st_handle_func ==
  <<"0000", "0100", "0101", "0102", "10103", "0200", "0201", "0202", "10203", "0300",
    "0301", "0302", "10303", "10400", "10401", "10402", "10403", "10500", "10501", "10502",
    "10503", "10610", "10611", "10612", "10613", "0700", "0701", "0703", "0800", "10900",
    "10901", "10902", "10903", "10a00", "10a10", "10a23", "10a33", "10b00", "10b01", "10b02",
    "10b03", "0b10", "0b11", "10c00", "10c10", "10c23", "10c33", "10d00", "10d01", "10d02",
    "10d03", "10e00", "10e01", "10e02", "10e03", "0e10", "0e11", "0f00", "0f01", "1000",
    "1001", "1100", "1103", "1200", "1300", "1303", "1400">>
func_handle(code, w, c, e) ==
  CASE code = "0000" -> H0000(w, c, e)
    [] code = "0100" -> H0100(w, c, e)
    [] code = "0101" -> H0101(w, c, e)
    [] code = "0102" -> H0102(w, c, e)
    [] code = "10103" -> H10103(w, c, e)
    [] code = "0200" -> H0200(w, c, e)
    [] code = "0201" -> H0201(w, c, e)
    [] code = "0202" -> H0202(w, c, e)
    [] code = "10203" -> H10203(w, c, e)
    [] code = "0300" -> H0300(w, c, e)
    [] code = "0301" -> H0301(w, c, e)
    [] code = "0302" -> H0302(w, c, e)
    [] code = "10303" -> H10303(w, c, e)
    [] code = "10400" -> H10400(w, c, e)
    [] code = "10401" -> H10401(w, c, e)
    [] code = "10402" -> H10402(w, c, e)
    [] code = "10403" -> H10403(w, c, e)
    [] code = "10500" -> H10500(w, c, e)
    [] code = "10501" -> H10501(w, c, e)
    [] code = "10502" -> H10502(w, c, e)
    [] code = "10503" -> H10503(w, c, e)
    [] code = "10610" -> H10610(w, c, e)
    [] code = "10611" -> H10611(w, c, e)
    [] code = "10612" -> H10612(w, c, e)
    [] code = "10613" -> H10613(w, c, e)
    [] code = "0700" -> H0700(w, c, e)
    [] code = "0701" -> H0701(w, c, e)
    [] code = "0703" -> H0703(w, c, e)
    [] code = "0800" -> H0800(w, c, e)
    [] code = "10900" -> H10900(w, c, e)
    [] code = "10901" -> H10901(w, c, e)
    [] code = "10902" -> H10902(w, c, e)
    [] code = "10903" -> H10903(w, c, e)
    [] code = "10a00" -> H10a00(w, c, e)
    [] code = "10a10" -> H10a10(w, c, e)
    [] code = "10a23" -> H10a23(w, c, e)
    [] code = "10a33" -> H10a33(w, c, e)
    [] code = "10b00" -> H10b00(w, c, e)
    [] code = "10b01" -> H10b01(w, c, e)
    [] code = "10b02" -> H10b02(w, c, e)
    [] code = "10b03" -> H10b03(w, c, e)
    [] code = "0b10" -> H0b10(w, c, e)
    [] code = "0b11" -> H0b11(w, c, e)
    [] code = "10c00" -> H10c00(w, c, e)
    [] code = "10c10" -> H10c10(w, c, e)
    [] code = "10c23" -> H10c23(w, c, e)
    [] code = "10c33" -> H10c33(w, c, e)
    [] code = "10d00" -> H10d00(w, c, e)
    [] code = "10d01" -> H10d01(w, c, e)
    [] code = "10d02" -> H10d02(w, c, e)
    [] code = "10d03" -> H10d03(w, c, e)
    [] code = "10e00" -> H10e00(w, c, e)
    [] code = "10e01" -> H10e01(w, c, e)
    [] code = "10e02" -> H10e02(w, c, e)
    [] code = "10e03" -> H10e03(w, c, e)
    [] code = "0e10" -> H0e10(w, c, e)
    [] code = "0e11" -> H0e11(w, c, e)
    [] code = "0f00" -> H0f00(w, c, e)
    [] code = "0f01" -> H0f01(w, c, e)
    [] code = "1000" -> H1000(w, c, e)
    [] code = "1001" -> H1001(w, c, e)
    [] code = "1100" -> H1100(w, c, e)
    [] code = "1103" -> H1103(w, c, e)
    [] code = "1200" -> H1200(w, c, e)
    [] code = "1300" -> H1300(w, c, e)
    [] code = "1303" -> H1303(w, c, e)
    [] code = "1400" -> H1400(w, c, e)
=============================================================================
