-------------------------------- MODULE Cpu --------------------------------
(***************************************************************************)
(* xx_execute of xx_vm32 with all its operations, on numbers: the context  *)
(* the emulation computes beside the one the processor would compute.      *)
(* conv_item fetches the operands, func_op_* computes, with the            *)
(* instruction itself where the source has inline assembly, calc_item      *)
(* stores the result and the operation moves the instruction pointer.      *)
(***************************************************************************)
EXTENDS Processor

CONSTANTS
    Starts,       \* contexts a program starts in
    Programs      \* sequence of sets: what the n-th instruction may be

VARIABLES
    m,            \* in_context: ok, r, f (eflag), ip, mem (the memory files)
    p,            \* the context of the processor
    ran           \* the instructions so far, each with the context before it

vars == <<m, p, ran>>

----------------------------------------------------------------------------
(* Operands.                                                               *)

xx_read_fmem(s, a, size)     == [ok |-> Readable(a, size), var |-> IF Readable(a, size) THEN Load(s, a, size) ELSE 0]
xx_write_fmem(s, a, x, size) == Store(s, a, x, size)

\* A displacement of one byte with its sign.
Displaced(base, k) == IF k >= 2^(ByteBits - 1) THEN base - (2^ByteBits - 1 - k) - 1 ELSE base + k

\* The index with its scale, and seg_fs with an fs prefix.
Index(o, s) == (IF o.idx = None THEN 0 ELSE s.r[o.idx[1]] * (IF o.scale = 0 THEN 1 ELSE o.scale)) + o.seg

\* Mutant: pop addresses with the stack pointer before it.
conv_itemPop(i, n, s) ==
  LET o == i.item[n]
      at == Fit(Displaced(s.r[o.def[1]], o.k) + Index(o, s), 4)
      mem == IF i.op = "lea" THEN [ok |-> TRUE, var |-> 0] ELSE xx_read_fmem(s, at, o.size)
      val(x, size) == [ok |-> TRUE, var |-> x, addr |-> 0, size |-> size]
  IN CASE o.t = "none" -> val(0, 0)
       [] o.t = "IMM"  -> val(o.k, IF i.op = "push" THEN 4 ELSE o.size)
       [] o.t = "REG"  -> val(GetPart(s.r[o.def[1]], o.def[2]), o.size)
       [] OTHER        -> [ok |-> mem.ok, var |-> mem.var, addr |-> at, size |-> o.size]
conv_item(i, n, s) ==
  LET o == i.item[n]
      at == Fit(Displaced(s.r[o.def[1]], o.k)
                  + (IF i.op = "pop" /\ o.def[1] = "esp" THEN o.size ELSE 0)
                  + Index(o, s), 4)
      mem == IF i.op = "lea" THEN [ok |-> TRUE, var |-> 0] ELSE xx_read_fmem(s, at, o.size)
      val(x, size) == [ok |-> TRUE, var |-> x, addr |-> 0, size |-> size]
  IN CASE o.t = "none" -> val(0, 0)
       [] o.t = "IMM"  -> val(o.k, IF i.op = "push" THEN 4 ELSE o.size)
       [] o.t = "REG"  -> val(GetPart(s.r[o.def[1]], o.def[2]), o.size)
       [] OTHER        -> [ok |-> mem.ok, var |-> mem.var, addr |-> at, size |-> o.size]

calc_item(i, n, v, s, result) ==
  LET o == i.item[n]
  IN CASE o.t = "IMM" -> s
       [] o.t = "REG" -> [s EXCEPT !.r[o.def[1]] = SetPart(@, o.def[2], result)]
       [] OTHER       -> xx_write_fmem(s, v[n].addr, result, v[n].size)

\* The second operand takes the size of the first.
item_sign_ext(size1, size2, var) == IF size1 <= size2 THEN var ELSE Fit(Signed(var, size2), size1)

----------------------------------------------------------------------------
(* Arithmetic and logic.                                                   *)

Ip(s)            == [s EXCEPT !.ip = @ + 1]
Reg4(s, reg, x)  == Put(s, reg, x)
Flags4(s, f)     == [s EXCEPT !.f = f]
Extended2(v)     == item_sign_ext(v[1].size, v[2].size, v[2].var)
\* The instruction on the values of the operands; its result goes to the first.
Result1(i, v, s, x) == Ip(Flags4(calc_item(i, 1, v, s, x.r), x.f))
Assembled(op, i, v, s, y) == Result1(i, v, s, Alu(op, v[1].size, v[1].var, y, s.f))
\* Only the flags are kept.
Tested(op, v, s) == Ip(Flags4(s, Alu(op, v[1].size, v[1].var, v[2].var, s.f).f))

\* Mutant: the constant is not extended.
func_op_addPlain(i, v, s) == Assembled("add", i, v, s, v[2].var)
func_op_add(i, v, s) == Assembled("add", i, v, s, Extended2(v))
func_op_sub(i, v, s) == Assembled("sub", i, v, s, Extended2(v))
func_op_sbb(i, v, s) == Assembled("sbb", i, v, s, Extended2(v))
func_op_adc(i, v, s) == Assembled("adc", i, v, s, Extended2(v))
func_op_and(i, v, s) == Assembled("and", i, v, s, Extended2(v))
func_op_or(i, v, s)  == Assembled("or", i, v, s, Extended2(v))
func_op_xor(i, v, s) == Assembled("xor", i, v, s, v[2].var)
func_op_cmp(i, v, s)  == Tested("cmp", v, s)
func_op_test(i, v, s) == Tested("test", v, s)
func_op_not(i, v, s) == Assembled("not", i, v, s, 0)
func_op_neg(i, v, s) == Assembled("neg", i, v, s, 0)

\* The result is computed in C, the flags by the instruction.
func_op_inc(i, v, s) ==
  Ip(Flags4(calc_item(i, 1, v, s, Fit(v[1].var + 1, 4)), Alu("inc", v[1].size, v[1].var, 0, s.f).f))
func_op_dec(i, v, s) ==
  Ip(Flags4(calc_item(i, 1, v, s, Fit(v[1].var - 1, 4)), Alu("dec", v[1].size, v[1].var, 0, s.f).f))

func_op_shl(i, v, s) == Assembled("shl", i, v, s, v[2].var)
func_op_sal(i, v, s) == Assembled("sal", i, v, s, v[2].var)
func_op_shr(i, v, s) == Assembled("shr", i, v, s, v[2].var)
func_op_sar(i, v, s) == Assembled("sar", i, v, s, v[2].var)
func_op_rol(i, v, s) == Assembled("rol", i, v, s, v[2].var)
func_op_ror(i, v, s) == Assembled("ror", i, v, s, v[2].var)
func_op_rcl(i, v, s) == Assembled("rcl", i, v, s, v[2].var)
func_op_rcr(i, v, s) == Assembled("rcr", i, v, s, v[2].var)

NotBytes(v, s, out) == IF v[1].size = 1 THEN Stopped(s) ELSE out
Double(op, i, v, s) ==
  NotBytes(v, s, Result1(i, v, s, ShiftDouble(op, v[1].size, v[1].var, v[2].var, v[3].var, s.f)))
func_op_shld(i, v, s) == Double("shld", i, v, s)
func_op_shrd(i, v, s) == Double("shrd", i, v, s)

\* The bit is looked for in the value of the operand.
BitSizes(v, s, out) == IF v[1].size > 1 /\ v[2].size \in {1, v[1].size} THEN out ELSE Stopped(s)
func_op_bt(i, v, s)  == BitSizes(v, s, Tested("bt", v, s))
func_op_btc(i, v, s) == BitSizes(v, s, Assembled("btc", i, v, s, v[2].var))
func_op_btr(i, v, s) == BitSizes(v, s, Assembled("btr", i, v, s, v[2].var))
func_op_bts(i, v, s) == BitSizes(v, s, Assembled("bts", i, v, s, v[2].var))
func_op_bsf(i, v, s) == NotBytes(v, s, Assembled("bsf", i, v, s, v[2].var))
func_op_bsr(i, v, s) == NotBytes(v, s, Assembled("bsr", i, v, s, v[2].var))

func_op_xadd(i, v, s) == Assembled("add", i, v, calc_item(i, 2, v, s, v[1].var), v[2].var)

\* edx, eax and the operand go through the instruction.
Widely(op, v, s) == Ip(TakeWide(s, Wide(op, v[1].size, s.r["edx"], s.r["eax"], v[1].var, s.f)))
func_op_mul(i, v, s)   == Widely("mul", v, s)
func_op_div(i, v, s)   == Widely("div", v, s)
func_op_idiv(i, v, s)  == Widely("idiv", v, s)
func_op_imul1(i, v, s) == Widely("imul", v, s)
func_op_imul2(i, v, s) == NotBytes(v, s, Assembled("imul", i, v, s, v[2].var))
func_op_imul3(i, v, s) ==
  IF v[1].size \in {2, 4} /\ v[2].size = v[1].size /\ v[3].size \in {1, v[1].size}
  THEN Result1(i, v, s, Alu("imul", v[2].size, v[2].var, v[3].var, s.f)) ELSE Stopped(s)
func_op_imul(i, v, s) ==
  IF i.item[2].t = "none" THEN func_op_imul1(i, v, s)
  ELSE IF i.item[3].t = "none" THEN func_op_imul2(i, v, s) ELSE func_op_imul3(i, v, s)

\* eax goes through the instruction.
Adjusted(op, s) == Ip(TakeEax(s, Adjust(op, s.r["eax"], s.f)))
func_op_aaa(i, v, s) == Adjusted("aaa", s)
func_op_aas(i, v, s) == Adjusted("aas", s)
func_op_daa(i, v, s) == Adjusted("daa", s)
func_op_das(i, v, s) == Adjusted("das", s)
\* These two are copied with their constant to a page and called there.
func_op_aam(i, v, s) == Adjusted("aam", s)
func_op_aad(i, v, s) == Adjusted("aad", s)

func_op_lahf(i, v, s) == Ip(Reg4(s, "eax", Splice(s.r["eax"], 1, 1, Fit(FlagWord(s.f), 1))))
func_op_sahf(i, v, s) == Ip(Flags4(s, (s.f \cap {"DF", "OF"}) \cup FlagsIn(GetPart(s.r["eax"], "h"))))
func_op_cpuid(i, v, s) == Ip([s EXCEPT !.r = Identify(@)])
func_op_nop(i, v, s) == Ip(s)

func_op_clc(i, v, s) == Ip(Flags4(s, s.f \ {"CF"}))
func_op_cld(i, v, s) == Ip(Flags4(s, s.f \ {"DF"}))
func_op_cmc(i, v, s) == Ip(Flags4(s, (s.f \cup {"CF"}) \ (s.f \cap {"CF"})))
func_op_stc(i, v, s) == Ip(Flags4(s, s.f \cup {"CF"}))
func_op_std(i, v, s) == Ip(Flags4(s, s.f \cup {"DF"}))

----------------------------------------------------------------------------
(* Moves and the stack.                                                    *)

Moved(i, v, s, x) == Ip(calc_item(i, 1, v, s, x))
func_op_mov(i, v, s)   == Moved(i, v, s, v[2].var)
func_op_movzx(i, v, s) == Moved(i, v, s, v[2].var)
func_op_lea(i, v, s)   == Moved(i, v, s, v[2].addr)
\* Mutant: a word is not extended.
func_op_movsxByte(i, v, s) ==
  CASE v[2].size = 1 -> Moved(i, v, s, Fit(Signed(v[2].var, 1), 4))
    [] v[2].size = 2 -> Moved(i, v, s, v[2].var)
    [] OTHER         -> Stopped(s)
func_op_movsx(i, v, s) ==
  CASE v[2].size = 1 -> Moved(i, v, s, Fit(Signed(v[2].var, 1), 4))
    [] v[2].size = 2 -> Moved(i, v, s, Fit(Signed(v[2].var, 2), 4))
    [] OTHER         -> Stopped(s)
func_op_xchg(i, v, s)  == Ip(calc_item(i, 2, v, calc_item(i, 1, v, s, v[2].var), v[1].var))
\* A register of two bytes is cleared.
func_op_bswap(i, v, s) ==
  LET byte(j) == Slice(v[1].var, j, 1)
  IN  Moved(i, v, s, IF v[1].size = 2 THEN 0
                     ELSE ((byte(0) * 2^ByteBits + byte(1)) * 2^ByteBits + byte(2)) * 2^ByteBits + byte(3))

Sign(x, size) == IF x >= 2^(Width(size) - 1) THEN 2^Width(size) - 1 ELSE 0
\* cdq and cwde with and without the prefix 66.
func_op_cdq(i, v, s) ==
  IF i.op = "cwd" THEN Ip([s EXCEPT !.r["edx"] = Splice(@, 0, 2, Sign(Fit(s.r["eax"], 2), 2))])
  ELSE Ip([s EXCEPT !.r["edx"] = Sign(s.r["eax"], 4)])
func_op_cwde(i, v, s) ==
  IF i.op = "cbw" THEN Ip([s EXCEPT !.r["eax"] = Splice(@, 1, 1, Sign(Fit(@, 1), 1))])
  ELSE Ip([s EXCEPT !.r["eax"] = Splice(@, 2, 2, Sign(Fit(@, 2), 2))])

Pushed(s, x, size) == LET t == Reg4(s, "esp", s.r["esp"] - size) IN xx_write_fmem(t, t.r["esp"], x, size)
\* Reading fails when the memory is not there.
Reads1(s, a, size, Next(_)) == LET x == xx_read_fmem(s, a, size) IN IF x.ok THEN Next(x.var) ELSE Stopped(s)

func_op_push(i, v, s) == Ip(Pushed(s, v[1].var, v[1].size))
func_op_pop(i, v, s) ==
  Reads1(s, s.r["esp"], v[1].size,
         LAMBDA x : Ip(calc_item(i, 1, v, Reg4(s, "esp", s.r["esp"] + v[1].size), x)))
\* The registers as they are now, and esp as it was.
PushedReg(s, t, reg) == Pushed(t, IF reg = "esp" THEN s.r["esp"] ELSE t.r[reg], 4)
func_op_pushad(i, v, s) ==
  LET push(t, reg) == PushedReg(s, t, reg)
      half         == push(push(push(push(s, "eax"), "ecx"), "edx"), "ebx")
  IN  Ip(push(push(push(push(half, "esp"), "ebp"), "esi"), "edi"))
\* The fourth word, esp, is skipped.
PopadAt == [edi |-> 0, esi |-> 4, ebp |-> 8, ebx |-> 16, edx |-> 20, ecx |-> 24, eax |-> 28]
func_op_popad(i, v, s) ==
  LET read(reg) == xx_read_fmem(s, s.r["esp"] + PopadAt[reg], 4)
  IN  IF \A reg \in DOMAIN PopadAt : read(reg).ok
      THEN Ip([s EXCEPT !.r = [reg \in Registers |-> IF reg = "esp" THEN Fit(@[reg] + 32, 4) ELSE read(reg).var]])
      ELSE Stopped(s)
func_op_pushfd(i, v, s) == Ip(Pushed(s, FlagWord(s.f), 4))
func_op_popfd(i, v, s) ==
  Reads1(s, s.r["esp"], 4, LAMBDA x : Ip(Reg4(Flags4(s, FlagsIn(x)), "esp", s.r["esp"] + 4)))
func_op_leave(i, v, s) ==
  LET t == Reg4(s, "esp", s.r["ebp"])
  IN  Reads1(t, t.r["esp"], 4, LAMBDA x : Ip(Reg4(Reg4(t, "esp", t.r["esp"] + 4), "ebp", x)))
func_op_call(i, v, s) == [Pushed(s, s.ip + 1, 4) EXCEPT !.ip = v[1].var]
func_op_retn(i, v, s) ==
  Reads1(s, s.r["esp"], 4, LAMBDA x : [Reg4(s, "esp", s.r["esp"] + 4 + v[1].var) EXCEPT !.ip = x])

----------------------------------------------------------------------------
(* Jumps.                                                                  *)

zf(s)   == "ZF" \in s.f
cf(s)   == "CF" \in s.f
sf(s)   == "SF" \in s.f
of(s)   == "OF" \in s.f
pf(s)   == "PF" \in s.f
\* eflag & 0x880 is 0x880 or 0.
sfof(s) == {"SF", "OF"} \subseteq s.f \/ {"SF", "OF"} \cap s.f = {}

Near(v, s, out)  == IF v[1].size = 4 THEN out ELSE Stopped(s)
Jump(c, v, s)    == Near(v, s, IF c THEN [s EXCEPT !.ip = v[1].var] ELSE Ip(s))
func_op_jmp(i, v, s) == Jump(TRUE, v, s)
func_op_je(i, v, s)  == Jump(zf(s), v, s)
func_op_jne(i, v, s) == Jump(~zf(s), v, s)
func_op_ja(i, v, s)  == Jump(~cf(s) /\ ~zf(s), v, s)
func_op_jae(i, v, s) == Jump(~cf(s), v, s)
func_op_jb(i, v, s)  == Jump(cf(s), v, s)
func_op_jbe(i, v, s) == Jump(cf(s) \/ zf(s), v, s)
\* Neither zero nor greater: the instruction pointer stays where it is.
func_op_jg(i, v, s)  == Near(v, s, CASE zf(s)             -> Ip(s)
                                     [] ~zf(s) /\ sfof(s)  -> [s EXCEPT !.ip = v[1].var]
                                     [] ~zf(s) /\ ~sfof(s) -> s)
func_op_jge(i, v, s) == Jump(sfof(s), v, s)
func_op_jl(i, v, s)  == Jump(~sfof(s), v, s)
func_op_jle(i, v, s) == Jump(zf(s) \/ ~sfof(s), v, s)
func_op_jc(i, v, s)  == Jump(cf(s), v, s)
func_op_jnc(i, v, s) == Jump(~cf(s), v, s)
func_op_jo(i, v, s)  == Jump(of(s), v, s)
func_op_jno(i, v, s) == Jump(~of(s), v, s)
func_op_js(i, v, s)  == Jump(sf(s), v, s)
func_op_jns(i, v, s) == Jump(~sf(s), v, s)
func_op_jp(i, v, s)  == Jump(pf(s), v, s)
func_op_jnp(i, v, s) == Jump(~pf(s), v, s)
func_op_jecxz(i, v, s) == Jump(s.r["ecx"] = 0, v, s)

Counted(v, s, Also(_)) ==
  LET t == Reg4(s, "ecx", s.r["ecx"] - 1) IN Near(v, s, Jump(t.r["ecx"] # 0 /\ Also(s), v, t))
func_op_loop(i, v, s)   == Counted(v, s, LAMBDA t : TRUE)
func_op_loope(i, v, s)  == Counted(v, s, zf)
func_op_loopne(i, v, s) == Counted(v, s, LAMBDA t : ~zf(t))

----------------------------------------------------------------------------
(* setcc and cmovcc.                                                       *)

SetTo(i, v, s, c) == Moved(i, v, s, IF c THEN 1 ELSE 0)
func_op_sete(i, v, s)  == SetTo(i, v, s, zf(s))
func_op_setne(i, v, s) == SetTo(i, v, s, ~zf(s))
func_op_seta(i, v, s)  == SetTo(i, v, s, ~cf(s) /\ ~zf(s))
func_op_setae(i, v, s) == SetTo(i, v, s, ~cf(s))
func_op_setb(i, v, s)  == SetTo(i, v, s, cf(s))
func_op_setbe(i, v, s) == SetTo(i, v, s, cf(s) \/ zf(s))
func_op_setg(i, v, s)  == SetTo(i, v, s, ~zf(s) /\ sfof(s))
\* Mutant: only the sign is looked at.
func_op_setgeSign(i, v, s) == SetTo(i, v, s, ~sf(s))
func_op_setge(i, v, s) == SetTo(i, v, s, sfof(s))
func_op_setl(i, v, s)  == SetTo(i, v, s, ~sfof(s))
func_op_setle(i, v, s) == SetTo(i, v, s, zf(s) \/ ~sfof(s))
func_op_sets(i, v, s)  == SetTo(i, v, s, sf(s))
func_op_setns(i, v, s) == SetTo(i, v, s, ~sf(s))
func_op_seto(i, v, s)  == SetTo(i, v, s, of(s))
func_op_setno(i, v, s) == SetTo(i, v, s, ~of(s))
func_op_setp(i, v, s)  == SetTo(i, v, s, pf(s))
func_op_setnp(i, v, s) == SetTo(i, v, s, ~pf(s))

MovedIf(c, i, v, s) == IF c THEN Moved(i, v, s, v[2].var) ELSE Ip(s)
func_op_cmove(i, v, s)  == MovedIf(zf(s), i, v, s)
func_op_cmovne(i, v, s) == MovedIf(~zf(s), i, v, s)
func_op_cmova(i, v, s)  == MovedIf(~cf(s) /\ ~zf(s), i, v, s)
func_op_cmovae(i, v, s) == MovedIf(~cf(s), i, v, s)
func_op_cmovb(i, v, s)  == MovedIf(cf(s), i, v, s)
func_op_cmovbe(i, v, s) == MovedIf(cf(s) \/ zf(s), i, v, s)
func_op_cmovg(i, v, s)  == MovedIf(~zf(s) /\ sfof(s), i, v, s)
func_op_cmovge(i, v, s) == MovedIf(sfof(s), i, v, s)
func_op_cmovl(i, v, s)  == MovedIf(~sfof(s), i, v, s)
func_op_cmovle(i, v, s) == MovedIf(zf(s) \/ ~sfof(s), i, v, s)
func_op_cmovs(i, v, s)  == MovedIf(sf(s), i, v, s)
func_op_cmovns(i, v, s) == MovedIf(~sf(s), i, v, s)
func_op_cmovo(i, v, s)  == MovedIf(of(s), i, v, s)
func_op_cmovno(i, v, s) == MovedIf(~of(s), i, v, s)
func_op_cmovp(i, v, s)  == MovedIf(pf(s), i, v, s)
func_op_cmovnp(i, v, s) == MovedIf(~pf(s), i, v, s)

----------------------------------------------------------------------------
(* String instructions.  A repeated one is done in one piece: count bytes  *)
(* are read, written, and the pointers moved.                              *)

Down(s)           == "DF" \in s.f
\* The pointers after n bytes, and where the lowest of them is.
Passed(s, reg, n) == Fit(IF Down(s) THEN s.r[reg] - n ELSE s.r[reg] + n, 4)
Lowest(s, reg, n, size) == Fit(IF Down(s) THEN s.r[reg] - n + size ELSE s.r[reg], 4)

\* memcpy of all bytes, through a buffer.
Copied(s, from, to, n) ==
  IF Readable(from, n) /\ Readable(to, n)
  THEN [s EXCEPT !.mem = [j \in DOMAIN @ |-> IF j - to \in 0..n - 1 THEN @[j - to + from] ELSE @[j]]]
  ELSE Stopped(s)
Filled(s, to, n, size) ==
  IF Readable(to, n)
  THEN [s EXCEPT !.mem = [j \in DOMAIN @ |-> IF j - to \in 0..n - 1 THEN Slice(s.r["eax"], (j - to) % size, 1) ELSE @[j]]]
  ELSE Stopped(s)

\* Only the last element is read.
Lods(i, s, size) ==
  LET n == s.r["ecx"] * size
      last == Fit(IF Down(s) THEN Passed(s, "esi", n) + size ELSE Passed(s, "esi", n) - size, 4)
      at(a, moved, t) ==
        Reads1(t, a, size, LAMBDA x : Ip([t EXCEPT !.r["eax"] = Splice(@, 0, size, x), !.r["esi"] = Passed(t, "esi", moved)]))
  IN CASE ~i.rep              -> at(s.r["esi"], size, s)
       [] i.rep /\ n = 0      -> Ip(s)
       [] OTHER               -> at(last, n, Reg4(s, "ecx", 0))
func_op_lodsb(i, v, s) == Lods(i, s, 1)
func_op_lods(i, v, s)  == Lods(i, s, v[1].size)

\* The bytes of all elements, a product that is cut to a word.
VarSize(i, s, size) == IF i.rep THEN Fit(s.r["ecx"] * size, 4) ELSE size

\* The elements of a product that was cut do not fit in its buffer.
Stos(i, s, size) ==
  LET n == VarSize(i, s, size)
      t == IF i.rep THEN Reg4(s, "ecx", 0) ELSE s
  IN  IF n = 0 THEN Ip(s)
      ELSE IF i.rep /\ n # s.r["ecx"] * size THEN Stopped(s)
      ELSE Ip(Reg4(Filled(t, Lowest(s, "edi", n, size), n, size), "edi", Passed(s, "edi", n)))
func_op_stosb(i, v, s) == Stos(i, s, 1)
func_op_stos(i, v, s)  == Stos(i, s, v[1].size)

\* Overlapping regions: the instruction itself runs on the bytes of the file,
\* from the pointers of the context but with the direction of the debugger.
func_op_movsb_ext(s, size) ==
  LET done == Repeated("movs", size, [s EXCEPT !.f = {}])
  IN  IF done.ok THEN [s EXCEPT !.mem = done.mem] ELSE Stopped(s)
Overlaps(s, n) ==
  LET ahead == IF Down(s) THEN s.r["esi"] - s.r["edi"] ELSE s.r["edi"] - s.r["esi"]
  IN  ahead \in 0..n

Movs(i, s, size) ==
  LET n == VarSize(i, s, size)
      copied == IF i.rep /\ Overlaps(s, n) THEN func_op_movsb_ext(s, size)
                ELSE Copied(s, Lowest(s, "esi", n, size), Lowest(s, "edi", n, size), n)
      moved == [copied EXCEPT !.r["esi"] = Passed(s, "esi", n), !.r["edi"] = Passed(s, "edi", n)]
  IN CASE n = 0  -> Ip(s)
       [] i.rep  -> Ip(Reg4(moved, "ecx", 0))
       [] OTHER  -> Ip(moved)
func_op_movsb(i, v, s) == Movs(i, s, 1)
func_op_movs(i, v, s)  == Movs(i, s, v[1].size)

----------------------------------------------------------------------------
(* xx_execute.                                                             *)

Jcc(i, v, s) ==
  CASE i.cc = "e"  -> func_op_je(i, v, s)   [] i.cc = "ne" -> func_op_jne(i, v, s)
    [] i.cc = "a"  -> func_op_ja(i, v, s)   [] i.cc = "ae" -> func_op_jae(i, v, s)
    [] i.cc = "b"  -> func_op_jb(i, v, s)   [] i.cc = "be" -> func_op_jbe(i, v, s)
    [] i.cc = "g"  -> func_op_jg(i, v, s)   [] i.cc = "ge" -> func_op_jge(i, v, s)
    [] i.cc = "l"  -> func_op_jl(i, v, s)   [] i.cc = "le" -> func_op_jle(i, v, s)
    [] i.cc = "s"  -> func_op_js(i, v, s)   [] i.cc = "ns" -> func_op_jns(i, v, s)
    [] i.cc = "o"  -> func_op_jo(i, v, s)   [] i.cc = "no" -> func_op_jno(i, v, s)
    [] i.cc = "p"  -> func_op_jp(i, v, s)   [] i.cc = "np" -> func_op_jnp(i, v, s)
    [] i.cc = "c"  -> func_op_jc(i, v, s)   [] i.cc = "nc" -> func_op_jnc(i, v, s)
Setcc(i, v, s) ==
  CASE i.cc = "e"  -> func_op_sete(i, v, s) [] i.cc = "ne" -> func_op_setne(i, v, s)
    [] i.cc = "a"  -> func_op_seta(i, v, s) [] i.cc = "ae" -> func_op_setae(i, v, s)
    [] i.cc = "b"  -> func_op_setb(i, v, s) [] i.cc = "be" -> func_op_setbe(i, v, s)
    [] i.cc = "g"  -> func_op_setg(i, v, s) [] i.cc = "ge" -> func_op_setge(i, v, s)
    [] i.cc = "l"  -> func_op_setl(i, v, s) [] i.cc = "le" -> func_op_setle(i, v, s)
    [] i.cc = "s"  -> func_op_sets(i, v, s) [] i.cc = "ns" -> func_op_setns(i, v, s)
    [] i.cc = "o"  -> func_op_seto(i, v, s) [] i.cc = "no" -> func_op_setno(i, v, s)
    [] i.cc = "p"  -> func_op_setp(i, v, s) [] i.cc = "np" -> func_op_setnp(i, v, s)
\* An operation with a case and no function returns what conv_item returned
\* last: with operands it succeeds, with a context of zeroes.
Unhandled(i, s) ==
  IF i.item[1].t = "none" THEN Stopped(s) ELSE [s EXCEPT !.r = [reg \in DOMAIN @ |-> 0], !.f = {}, !.ip = 0]
\* cmovc and cmovnc have no function.
Cmovcc(i, v, s) ==
  CASE i.cc = "e"  -> func_op_cmove(i, v, s) [] i.cc = "ne" -> func_op_cmovne(i, v, s)
    [] i.cc = "a"  -> func_op_cmova(i, v, s) [] i.cc = "ae" -> func_op_cmovae(i, v, s)
    [] i.cc = "b"  -> func_op_cmovb(i, v, s) [] i.cc = "be" -> func_op_cmovbe(i, v, s)
    [] i.cc = "g"  -> func_op_cmovg(i, v, s) [] i.cc = "ge" -> func_op_cmovge(i, v, s)
    [] i.cc = "l"  -> func_op_cmovl(i, v, s) [] i.cc = "le" -> func_op_cmovle(i, v, s)
    [] i.cc = "s"  -> func_op_cmovs(i, v, s) [] i.cc = "ns" -> func_op_cmovns(i, v, s)
    [] i.cc = "o"  -> func_op_cmovo(i, v, s) [] i.cc = "no" -> func_op_cmovno(i, v, s)
    [] i.cc = "p"  -> func_op_cmovp(i, v, s) [] i.cc = "np" -> func_op_cmovnp(i, v, s)
    [] OTHER       -> Unhandled(i, s)

\* The switch over the type of the operation.
Dispatch(i, v, s) ==
  CASE i.op = "add" -> func_op_add(i, v, s)   [] i.op = "sub" -> func_op_sub(i, v, s)
    [] i.op = "adc" -> func_op_adc(i, v, s)   [] i.op = "sbb" -> func_op_sbb(i, v, s)
    [] i.op = "and" -> func_op_and(i, v, s)   [] i.op = "or"  -> func_op_or(i, v, s)
    [] i.op = "xor" -> func_op_xor(i, v, s)   [] i.op = "cmp" -> func_op_cmp(i, v, s)
    [] i.op = "test" -> func_op_test(i, v, s) [] i.op = "not" -> func_op_not(i, v, s)
    [] i.op = "neg" -> func_op_neg(i, v, s)   [] i.op = "inc" -> func_op_inc(i, v, s)
    [] i.op = "dec" -> func_op_dec(i, v, s)   [] i.op = "shl" -> func_op_shl(i, v, s)
    [] i.op = "sal" -> func_op_sal(i, v, s)   [] i.op = "shr" -> func_op_shr(i, v, s)
    [] i.op = "sar" -> func_op_sar(i, v, s)   [] i.op = "rol" -> func_op_rol(i, v, s)
    [] i.op = "ror" -> func_op_ror(i, v, s)   [] i.op = "rcl" -> func_op_rcl(i, v, s)
    [] i.op = "rcr" -> func_op_rcr(i, v, s)   [] i.op = "shld" -> func_op_shld(i, v, s)
    [] i.op = "shrd" -> func_op_shrd(i, v, s) [] i.op = "bt"  -> func_op_bt(i, v, s)
    [] i.op = "btc" -> func_op_btc(i, v, s)   [] i.op = "btr" -> func_op_btr(i, v, s)
    [] i.op = "bts" -> func_op_bts(i, v, s)   [] i.op = "bsf" -> func_op_bsf(i, v, s)
    [] i.op = "bsr" -> func_op_bsr(i, v, s)   [] i.op = "xadd" -> func_op_xadd(i, v, s)
    [] i.op = "mul" -> func_op_mul(i, v, s)   [] i.op = "div" -> func_op_div(i, v, s)
    [] i.op = "imul" -> func_op_imul(i, v, s) [] i.op = "idiv" -> func_op_idiv(i, v, s)
    [] i.op = "aaa" -> func_op_aaa(i, v, s)   [] i.op = "aas" -> func_op_aas(i, v, s)
    [] i.op = "aam" -> func_op_aam(i, v, s)   [] i.op = "aad" -> func_op_aad(i, v, s)
    [] i.op = "daa" -> func_op_daa(i, v, s)   [] i.op = "das" -> func_op_das(i, v, s)
    [] i.op = "lahf" -> func_op_lahf(i, v, s) [] i.op = "sahf" -> func_op_sahf(i, v, s)
    [] i.op = "cpuid" -> func_op_cpuid(i, v, s) [] i.op = "nop" -> func_op_nop(i, v, s)
    [] i.op = "clc" -> func_op_clc(i, v, s)   [] i.op = "stc" -> func_op_stc(i, v, s)
    [] i.op = "cmc" -> func_op_cmc(i, v, s)   [] i.op = "cld" -> func_op_cld(i, v, s)
    [] i.op = "std" -> func_op_std(i, v, s)   [] i.op = "mov" -> func_op_mov(i, v, s)
    [] i.op = "movzx" -> func_op_movzx(i, v, s) [] i.op = "movsx" -> func_op_movsx(i, v, s)
    [] i.op = "lea" -> func_op_lea(i, v, s)   [] i.op = "xchg" -> func_op_xchg(i, v, s)
    [] i.op = "bswap" -> func_op_bswap(i, v, s)
    [] i.op \in {"cdq", "cwd"} -> func_op_cdq(i, v, s) [] i.op \in {"cwde", "cbw"} -> func_op_cwde(i, v, s)
    [] i.op = "push" -> func_op_push(i, v, s) [] i.op = "pop" -> func_op_pop(i, v, s)
    [] i.op = "pushad" -> func_op_pushad(i, v, s) [] i.op = "popad" -> func_op_popad(i, v, s)
    [] i.op = "pushfd" -> func_op_pushfd(i, v, s) [] i.op = "popfd" -> func_op_popfd(i, v, s)
    [] i.op = "leave" -> func_op_leave(i, v, s) [] i.op = "call" -> func_op_call(i, v, s)
    [] i.op = "ret" -> func_op_retn(i, v, s)  [] i.op = "jmp" -> func_op_jmp(i, v, s)
    [] i.op = "j" -> Jcc(i, v, s) [] i.op = "set" -> Setcc(i, v, s) [] i.op = "cmov" -> Cmovcc(i, v, s)
    [] i.op = "jecxz" -> func_op_jecxz(i, v, s) [] i.op = "loop" -> func_op_loop(i, v, s)
    [] i.op = "loope" -> func_op_loope(i, v, s) [] i.op = "loopne" -> func_op_loopne(i, v, s)
    [] i.op = "lods" -> IF i.item[1].size = 1 THEN func_op_lodsb(i, v, s) ELSE func_op_lods(i, v, s)
    [] i.op = "stos" -> IF i.item[1].size = 1 THEN func_op_stosb(i, v, s) ELSE func_op_stos(i, v, s)
    [] i.op = "movs" -> IF i.item[1].size = 1 THEN func_op_movsb(i, v, s) ELSE func_op_movs(i, v, s)
    [] OTHER -> Unhandled(i, s)

Returned(s, out) == IF out.ok THEN out ELSE Stopped(s)
Converted(i, v, s) == IF \A n \in 1..3 : v[n].ok THEN Returned(s, Dispatch(i, v, s)) ELSE Stopped(s)
xx_execute(i, s) == Converted(i, [n \in 1..3 |-> conv_item(i, n, s)], s)

----------------------------------------------------------------------------

Init == m \in Starts /\ p = m /\ ran = <<>>

\* get_inst_context goes on until an operation fails.
Execute ==
    /\ m.ok /\ Len(ran) < Len(Programs)
    /\ \E i \in Programs[Len(ran) + 1] :
         /\ m' = xx_execute(i, m)
         /\ p' = Run(i, p)
         /\ ran' = Append(ran, [i |-> i, at |-> m])

Spec == Init /\ [][Execute]_vars

----------------------------------------------------------------------------
(* Properties.                                                             *)

LastRan == ran[Len(ran)]

\* The emulated context is the context the traced program has, instruction
\* after instruction.  The emulation stops only where the program would: at
\* memory that is not there.  (A string instruction that is repeated zero
\* times touches no memory, the emulation looks at its operands all the same;
\* of a rep lods it looks at the last element only.)
Tracks == ran # <<>> =>
    \/ m.ok /\ m = p
    \/ ~m.ok /\ ~p.ok
    \/ ~m.ok /\ LastRan.i.op \in Strings /\ LastRan.i.rep /\ LastRan.at.r["ecx"] = 0
    \/ ~p.ok /\ LastRan.i.op = "lods" /\ LastRan.i.rep

\* Whether the last instruction did what it does when its condition is c.
Decided(c) == CASE LastRan.i.op = "j"   -> m.ip = IF c THEN Value(LastRan.i.item[1], LastRan.at) ELSE LastRan.at.ip + 1
                [] LastRan.i.op = "set" -> Value(LastRan.i.item[1], m) = IF c THEN 1 ELSE 0
\* After a comparison a conditional instruction acts as the numbers that were
\* compared stand to each other, whatever the flags are called.
Compares == Len(ran) > 1 /\ m.ok =>
    LET c == ran[Len(ran) - 1]
        size == c.i.item[1].size
    IN  c.i.op = "cmp" /\ LastRan.i.op \in {"j", "set"} =>
          Decided(Relation(LastRan.i.cc, Value(c.i.item[1], c.at), Fit(Value(c.i.item[2], c.at), size), size))

\* A jump ends at its target or at the next instruction (func_op5.c:255).
JumpsMove == ran # <<>> /\ m.ok /\ LastRan.i.op = "j" => m.ip # LastRan.at.ip
=============================================================================
