------------------------------ MODULE Emulator ------------------------------
(***************************************************************************)
(* The emulation of one instruction of the traced program, in xx_vm32 with *)
(* words of 4 bytes and in xx_vm_x64 with words of 8: conv_item fetches    *)
(* the operands, func_op_* computes, calc_item stores.                     *)
(* Values are symbolic.  A word is a sequence of bytes, a byte is byte i   *)
(* of a term.  Constants and offsets are computed; what an operation of    *)
(* the processor returns is named after the step that computed it, so that *)
(* two words are equal when they are the same result.                      *)
(***************************************************************************)
EXTENDS Instruction, Integers, TLC

----------------------------------------------------------------------------
(* Terms, bytes and words.                                                 *)

Term(op, n, of) == [op |-> op, n |-> n, of |-> of]
Bytes(t, size)  == [i \in 1..size |-> [t |-> t, i |-> i]]
ConstByte(n)    == [t |-> Term("const", n % 256, <<>>), i |-> 1]
Const(n)        == [i \in 1..WORD |-> ConstByte(IF i <= 4 THEN n \div 256^(i - 1) ELSE IF n < 0 THEN 255 ELSE 0)]
Zeros(k)        == [i \in 1..k |-> ConstByte(0)]

\* Pointers into memory that exists from the start.
Ptr(region, n) == Bytes(Term(region, n, <<>>), WORD)
Regions        == {"stack", "native"}

IsWhole(w)  == Len(w) = WORD /\ \A i \in 1..WORD : w[i] = [t |-> w[1].t, i |-> i]
IsPtr(w)    == w[1].t.op \in Regions /\ IsWhole(w)
IsOffset(w) == w[1].t.op = "plus" /\ IsWhole(w)
IsConst(w)  == \A i \in DOMAIN w : w[i].t.op = "const"
ValueOf(w)  == w[1].t.n + 256 * w[2].t.n + 65536 * w[3].t.n
                 + 16777216 * (IF w[4].t.n >= 128 THEN w[4].t.n - 256 ELSE w[4].t.n)

Low(w, k) == SubSeq(w, 1, k) \o Zeros(WORD - k)
Base(w)   == IF IsWhole(w) THEN w[1].t ELSE Term("word", 0, w)

\* Sums with a constant are computed; offsets of one base add up.
Plus(t, n) == Bytes(IF n = 0 THEN t ELSE Term("plus", n, <<t>>), WORD)
Shifted(w, n) ==
  CASE IsPtr(w)    -> Ptr(w[1].t.op, w[1].t.n + n)
    [] IsOffset(w) -> Plus(w[1].t.of[1], w[1].t.n + n)
    [] OTHER       -> Plus(Base(w), n)
Sum2(a, b) ==
  CASE IsConst(a) /\ IsConst(b) -> Const(ValueOf(a) + ValueOf(b))
    [] IsConst(a)               -> Shifted(b, ValueOf(a))
    [] IsConst(b)               -> Shifted(a, ValueOf(b))
    [] OTHER                    -> Bytes(Term("sum", 0, <<Base(a), Base(b)>>), WORD)

----------------------------------------------------------------------------
(* The machine: registers, flags, memory, and the number of instructions   *)
(* executed, which names the results.                                      *)

\* Result h of operation op, size bytes of it.
Result(s, op, h, size) == Low(Bytes(Term(op, 4 * s.step + h, <<>>), WORD), size)

\* An address is a base and an offset, so that accesses through the same
\* pointer overlap as they do in memory.
AddrOf(w) == CASE IsPtr(w)    -> <<Term(w[1].t.op, 0, <<>>), w[1].t.n>>
               [] IsOffset(w) -> <<w[1].t.of[1], w[1].t.n>>
               [] OTHER       -> <<Base(w), 0>>
MemByte(m, a, j) == IF <<a[1], a[2] + j>> \in DOMAIN m THEN m[<<a[1], a[2] + j>>]
                    ELSE [t |-> Term("mem", a[2] + j, <<a[1]>>), i |-> 1]

xx_read_fmem(s, w, size)     == LET a == AddrOf(w) IN [j \in 1..size |-> MemByte(s.mem, a, j - 1)]
xx_write_fmem(s, w, v, size) ==
  LET a == AddrOf(w)
  IN  [s EXCEPT !.mem = [y \in {<<a[1], a[2] + j>> : j \in 0..size - 1} |-> v[y[2] - a[2] + 1]] @@ @]

\* What conv_item makes of operand n: value, address, size.
conv_item(i, n, s) ==
  LET o   == i.item[n]
      reg == s.r[o.def[1]]
      at  == Sum2(IF o.idx = None THEN reg
                  ELSE Sum2(reg, IF o.scale = 4 THEN Result(s, "times", 0, WORD) ELSE s.r[o.idx[1]]),
                  Const(o.k))
      mem(w) == [var  |-> IF i.op = "lea" THEN Zeros(WORD)
                          ELSE xx_read_fmem(s, w, o.size) \o Zeros(WORD - o.size),
                 addr |-> w, size |-> o.size]
      val(w) == [var |-> w, addr |-> Zeros(WORD), size |-> o.size]
  IN CASE o.t = "IMM"  -> val(Const(o.k))
       [] o.t = "none" -> val(Zeros(WORD))
       [] o.t = "REG"  -> val(IF o.def[2] = "h" THEN <<reg[2]>> \o Zeros(WORD - 1) ELSE Low(reg, o.size))
       [] o.t = "MDIS" -> [var |-> Zeros(WORD), addr |-> Ptr("native", 0), size |-> o.size]
       [] OTHER        -> mem(IF i.op = "pop" /\ o.def[1] = "esp" THEN Sum2(at, Const(o.size)) ELSE at)

\* calc_item stores result into operand n; 32 bits of a register of 64 clear
\* the others.
calc_item(i, n, v, s, result) ==
  LET o == i.item[n]
      old == s.r[o.def[1]]
  IN CASE o.t \in {"IMM", "none"} -> s
       [] o.t = "REG" ->
            [s EXCEPT !.r[o.def[1]] =
               CASE o.def[2] \in {"l", "w"} -> SubSeq(result, 1, o.size) \o SubSeq(old, o.size + 1, WORD)
                 [] o.def[2] = "h" -> <<old[1], result[1]>> \o SubSeq(old, 3, WORD)
                 [] OTHER          -> Low(result, o.size)]
       [] OTHER -> xx_write_fmem(s, v[n].addr, result, v[n].size)

SetFlags(s) == [s EXCEPT !.eflag = Result(s, "flags", 0, WORD)]

\* An operation of the processor whose result replaces the first operand.
Alu(op, i, v, s)   == calc_item(i, 1, v, s, Result(s, op, 0, v[1].size))
AluFlags(op, i, v, s) == SetFlags(Alu(op, i, v, s))

----------------------------------------------------------------------------
(* The operations.  i is the instruction, v its fetched operands.          *)

Write(reg, w, s) == [s EXCEPT !.r[reg] = w]
SpPlus(s, k)     == Sum2(s.r["esp"], Const(k))

func_op_push(i, v, s) ==
  LET t == Write("esp", SpPlus(s, -v[1].size), s)
  IN  xx_write_fmem(t, t.r["esp"], v[1].var, v[1].size)
func_op_pop(i, v, s) ==
  LET top == xx_read_fmem(s, s.r["esp"], v[1].size) \o Zeros(WORD - v[1].size)
  IN  calc_item(i, 1, v, Write("esp", SpPlus(s, v[1].size), s), top)
func_op_pushfd(i, v, s) ==
  LET t == Write("esp", SpPlus(s, -WORD), s) IN xx_write_fmem(t, t.r["esp"], s.eflag, WORD)
func_op_popfd(i, v, s) ==
  [Write("esp", SpPlus(s, WORD), s) EXCEPT !.eflag = xx_read_fmem(s, s.r["esp"], WORD)]

func_op_call(i, v, s) ==
  LET t == Write("esp", SpPlus(s, -WORD), s) IN xx_write_fmem(t, t.r["esp"], Ptr("native", 1), WORD)
func_op_retn(i, v, s) == Write("esp", Sum2(SpPlus(s, WORD), v[1].var), s)
func_op_jmp(i, v, s)  == s

func_op_mov(i, v, s)   == calc_item(i, 1, v, s, v[2].var)
func_op_movzx(i, v, s) == calc_item(i, 1, v, s, v[2].var)
func_op_lea(i, v, s)   == calc_item(i, 1, v, s, v[2].addr)
func_op_xchg(i, v, s)  == calc_item(i, 2, v, calc_item(i, 1, v, s, v[2].var), v[1].var)

func_op_add(i, v, s) ==
  SetFlags(IF v[1].size = WORD THEN calc_item(i, 1, v, s, Sum2(v[1].var, v[2].var)) ELSE Alu("add", i, v, s))
func_op_sub(i, v, s) ==
  SetFlags(IF v[1].size = WORD /\ IsConst(v[2].var) THEN calc_item(i, 1, v, s, Sum2(v[1].var, Const(-ValueOf(v[2].var))))
           ELSE Alu("sub", i, v, s))
func_op_inc(i, v, s) == AluFlags("inc", i, v, s)
func_op_dec(i, v, s) == AluFlags("dec", i, v, s)
func_op_not(i, v, s) == Alu("not", i, v, s)
func_op_neg(i, v, s) == AluFlags("neg", i, v, s)
func_op_and(i, v, s) == AluFlags("and", i, v, s)
func_op_or(i, v, s)  == AluFlags("or", i, v, s)
func_op_xor(i, v, s) == AluFlags("xor", i, v, s)
func_op_shl(i, v, s) == AluFlags("shl", i, v, s)
func_op_shr(i, v, s) == AluFlags("shr", i, v, s)
func_op_rol(i, v, s) == AluFlags("rol", i, v, s)
func_op_test(i, v, s) == SetFlags(s)
func_op_cmp(i, v, s)  == SetFlags(s)

func_op_shld(i, v, s) == AluFlags("shld", i, v, s)
func_op_shrd(i, v, s) == AluFlags("shrd", i, v, s)

\* edx:eax and the first operand; the result is in eax and edx.
Wide(op, v, s) ==
  SetFlags(Write("eax", Result(s, op, 0, v[1].size), Write("edx", Result(s, op, 1, v[1].size), s)))
func_op_mul(i, v, s)   == Wide("mul", v, s)
func_op_div(i, v, s)   == Wide("div", v, s)
func_op_idiv(i, v, s)  == Wide("idiv", v, s)
\* The disassembler lists imul with one operand as it lists mul, with eax as
\* the second: the product of the two replaces the first.  The other bits of a
\* register stay (calc_item with sign_flag 0).
Product(i, v, s) == SubSeq(Result(s, "imul", 0, WORD), 1, v[1].size) \o SubSeq(s.r[i.item[1].def[1]], v[1].size + 1, WORD)
func_op_imul2(i, v, s) ==
  SetFlags(IF i.item[1].t = "REG" THEN Write(i.item[1].def[1], Product(i, v, s), s) ELSE Alu("imul", i, v, s))

func_op_cpuid(i, v, s) ==
  LET out(n) == Result(s, "cpuid", n, 4)
  IN  Write("eax", out(0), Write("ecx", out(1), Write("edx", out(2), Write("ebx", out(3), s))))
func_op_rdtsc(i, v, s) == Write("edx", Result(s, "rdtsc", 1, 4), Write("eax", Result(s, "rdtsc", 0, 4), s))

----------------------------------------------------------------------------
\* The functions of the operations.
func_op(i, v, s) ==
  CASE i.op = "mov"    -> func_op_mov(i, v, s)
    [] i.op = "movzx"  -> func_op_movzx(i, v, s)
    [] i.op = "lea"    -> func_op_lea(i, v, s)
    [] i.op = "xchg"   -> func_op_xchg(i, v, s)
    [] i.op = "push"   -> func_op_push(i, v, s)
    [] i.op = "pop"    -> func_op_pop(i, v, s)
    [] i.op = "pushfd" -> func_op_pushfd(i, v, s)
    [] i.op = "popfd"  -> func_op_popfd(i, v, s)
    [] i.op = "call"   -> func_op_call(i, v, s)
    [] i.op = "ret"    -> func_op_retn(i, v, s)
    [] i.op = "jmp"    -> func_op_jmp(i, v, s)
    [] i.op = "add"    -> func_op_add(i, v, s)
    [] i.op = "sub"    -> func_op_sub(i, v, s)
    [] i.op = "inc"    -> func_op_inc(i, v, s)
    [] i.op = "dec"    -> func_op_dec(i, v, s)
    [] i.op = "not"    -> func_op_not(i, v, s)
    [] i.op = "neg"    -> func_op_neg(i, v, s)
    [] i.op = "and"    -> func_op_and(i, v, s)
    [] i.op = "or"     -> func_op_or(i, v, s)
    [] i.op = "xor"    -> func_op_xor(i, v, s)
    [] i.op = "shl"    -> func_op_shl(i, v, s)
    [] i.op = "shr"    -> func_op_shr(i, v, s)
    [] i.op = "rol"    -> func_op_rol(i, v, s)
    [] i.op = "test"   -> func_op_test(i, v, s)
    [] i.op = "cmp"    -> func_op_cmp(i, v, s)
    [] i.op = "shld"   -> func_op_shld(i, v, s)
    [] i.op = "shrd"   -> func_op_shrd(i, v, s)
    [] i.op = "mul"    -> func_op_mul(i, v, s)
    [] i.op = "imul"   -> func_op_imul2(i, v, s)
    [] i.op = "div"    -> func_op_div(i, v, s)
    [] i.op = "idiv"   -> func_op_idiv(i, v, s)
    [] i.op = "cpuid"  -> func_op_cpuid(i, v, s)
    [] i.op = "rdtsc"  -> func_op_rdtsc(i, v, s)

Fetched(i, s) == func_op(i, [n \in 1..3 |-> conv_item(i, n, s)], s)
xx_execute(i, before) == Fetched(i, [before EXCEPT !.step = @ + 1])
=============================================================================
