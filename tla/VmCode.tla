------------------------------- MODULE VmCode -------------------------------
(***************************************************************************)
(* The traced program: the handlers of a protector's virtual machine, as   *)
(* the comments at the head of vm_handle_*.c show them, in every           *)
(* assignment of registers.  The program is outside this repository; it is *)
(* what the recording has to cope with.                                    *)
(*                                                                         *)
(* role gives the registers of the machine: sp, ip, op (the bytecode).     *)
(* t are three scratch registers, f the forms chosen for a zero            *)
(* displacement (mem), for a step of a pointer (step), for the jump to the *)
(* next handler (leave) and for what is read to pop a byte (pop).  Truth says what the handler means: where its *)
(* operands are when it starts and where its result is when it ends.       *)
(***************************************************************************)
EXTENDS Emulator

Roles == {r \in [{"sp", "ip", "op"} -> {"esi", "edi", "ebp"}] : \A x, y \in DOMAIN r : x # y => r[x] # r[y]}

I(op, x, y) == Inst(op, <<x, y>>)
One(op, x)  == Inst(op, <<x>>)
Part(n)     == CASE n = 1 -> "l" [] n = 2 -> "w" [] n = 4 -> "d" [] n = 8 -> "q"
View(r, n)  == Reg(r, Part(n))   \* n bytes of a register
Full(r)     == Reg(r, Whole)
Dw(r)       == View(r, 4)
Wo(r)       == View(r, 2)

Slot(r, k, size, f) == IF k = 0 /\ f.mem = "mreg" THEN MReg(r, size) ELSE MDis(r, k, size)
\* A pointer moves up by k, or down if k is negative.
Step(r, k, f) ==
  CASE k = 0 -> <<>>
    [] f.step = "lea" -> <<I("lea", Full(r), MDis(r, k, WORD))>>
    [] k > 0 -> <<I("add", Full(r), Imm(k, 1))>>
    [] OTHER -> <<I("sub", Full(r), Imm(-k, 1))>>

----------------------------------------------------------------------------
(* The kinds of handlers: a form, an operation of the processor, and the   *)
(* size of the operands, 1, 2, 4 or 8 for the places of codes.  The codes  *)
(* that begin with 1 and have five digits are those of xx_vm_x64.          *)

Forms4(form, op, codes) == {[code |-> codes[k], form |-> form, op |-> op, n |-> 2^(k - 1)] : k \in {j \in 1..4 : codes[j] # ""}}
Families ==
  {Forms4("push", "", <<"0102", "0101", "0100", "10103">>), Forms4("const", "", <<"0202", "0201", "0200", "10203">>),
   Forms4("pop", "", <<"0302", "0301", "0300", "10303">>),
   Forms4("two", "add", <<"0402", "0401", "0400", "">>), Forms4("two", "add", <<"10402", "10401", "10400", "10403">>),
   Forms4("fetch", "", <<"0502", "0501", "0500", "">>), Forms4("fetch", "", <<"10502", "10501", "10500", "10503">>),
   Forms4("put", "", <<"0602", "0601", "0600", "">>), Forms4("put", "", <<"10612", "10611", "10610", "10613">>),
   Forms4("sp", "", <<"", "0701", "0700", "0703">>),
   Forms4("not", "and", <<"0902", "0901", "0900", "">>), Forms4("not", "and", <<"10902", "10901", "10900", "10903">>),
   Forms4("not", "or", <<"0d02", "0d01", "0d00", "">>), Forms4("not", "or", <<"10d02", "10d01", "10d00", "10d03">>),
   Forms4("divide", "div", <<"", "", "0a00", "">>), Forms4("divide", "idiv", <<"", "", "0a10", "">>),
   Forms4("divide", "div", <<"", "", "10a00", "10a23">>), Forms4("divide", "idiv", <<"", "", "10a10", "10a33">>),
   Forms4("times", "mul", <<"", "", "0c00", "">>), Forms4("times", "imul", <<"", "", "0c10", "">>),
   Forms4("times", "mul", <<"", "", "10c00", "10c23">>), Forms4("times", "imul", <<"", "", "10c10", "10c33">>),
   Forms4("shift", "shr", <<"0b02", "0b01", "0b00", "">>), Forms4("shift", "shr", <<"10b02", "10b01", "10b00", "10b03">>),
   Forms4("shift", "shl", <<"0e02", "0e01", "0e00", "">>), Forms4("shift", "shl", <<"10e02", "10e01", "10e00", "10e03">>),
   Forms4("double", "shrd", <<"", "", "0b10", "0b11">>), Forms4("double", "shld", <<"", "", "0e10", "0e11">>),
   Forms4("cpuid", "", <<"", "", "1000", "">>), Forms4("rdtsc", "", <<"", "", "1001", "">>),
   Forms4("setsp", "", <<"", "", "1100", "1103">>), Forms4("popf", "", <<"", "", "1300", "1303">>)}
Shapes == UNION Families
Known == {s.code : s \in Shapes}
ShapeOf(kind) ==
  IF kind \in Known THEN CHOOSE s \in Shapes : s.code = kind ELSE [code |-> kind, form |-> "other", op |-> "", n |-> 0]

\* A byte takes the place of two on the stack of the machine.
Room(n) == IF n = 1 THEN 2 ELSE n

----------------------------------------------------------------------------
(* The code of a handler in two parts: up to the instruction whose flags   *)
(* count, and the rest.  Between them nothing may be inserted.             *)

\* The number of a register of the machine, from the bytecode.
Index(role, x, f) == <<I("movzx", Dw(x), Slot(role.op, 0, 1, f))>> \o Step(role.op, 1, f)
\* The flags go to the top of the stack.
Flags(role, f) == <<Inst("pushfd", <<>>), One("pop", Slot(role.sp, 0, WORD, f))>>

Shaped(form, op, n, role, t, f) ==
  LET S(k, size) == Slot(role.sp, k, size, f)
      a == t[1]  b == t[2]  x == t[3]
      up(k)    == Step(role.sp, k, f)
      down(k)  == up(-k)
      pair     == <<I("mov", View(a, n), S(0, n)), I("mov", View(b, n), S(Room(n), n))>>
      result   == <<I("mov", S(WORD, Room(n)), View(a, Room(n)))>> \o Flags(role, f)
      plain(s) == <<s, <<>>>>
  IN
  CASE form = "push"  -> plain(Index(role, x, f) \o <<I("mov", View(a, n), MIdx("esp", x, n))>> \o down(Room(n))
                               \o <<I("mov", S(0, Room(n)), View(a, Room(n)))>>)
    [] form = "const" -> plain(<<I(IF n < 4 THEN "movzx" ELSE "mov", View(a, IF n = 8 THEN 8 ELSE 4), Slot(role.op, 0, n, f))>>
                               \o Step(role.op, n, f) \o <<I("xor", View(a, n), View("ebx", n))>> \o down(Room(n))
                               \o <<I("mov", S(0, Room(n)), View(a, Room(n)))>>)
    [] form = "pop"   -> LET m == IF f.pop = "word" THEN Room(n) ELSE n IN
                         plain(Index(role, x, f) \o <<I("mov", View(a, m), S(0, m))>> \o up(Room(n))
                               \o <<I("mov", MIdx("esp", x, n), View(a, n))>>)
    [] form = "two"   -> <<pair \o down(WORD - Room(n)), <<I(op, View(a, n), View(b, n))>> \o result>>
    [] form = "not"   -> <<pair \o down(WORD - Room(n)) \o <<One("not", View(a, n)), One("not", View(b, n))>>,
                           <<I(op, View(a, n), View(b, n))>> \o result>>
    [] form = "shift" -> <<<<I("mov", View(a, n), S(0, n)), I("mov", View(b, 1), S(Room(n), 1))>> \o down(WORD - 2),
                           <<I(op, View(a, n), View(b, 1))>> \o result>>
    [] form = "double" -> <<pair \o <<I("mov", View(x, 1), S(2 * n, 1))>> \o up(n + 2 - WORD),
                            <<Inst(op, <<View(a, n), View(b, n), View(x, 1)>>)>> \o result>>
    [] form = "times" -> <<<<I("mov", View("eax", n), S(n, n)), I("mov", View("edx", n), S(0, n))>> \o down(WORD),
                           <<I(op, View("edx", n), View("eax", n)), I("mov", S(WORD, n), View("edx", n)),
                             I("mov", S(WORD + n, n), View("eax", n))>> \o Flags(role, f)>>
    [] form = "divide" -> <<<<I("mov", View("edx", n), S(0, n)), I("mov", View("eax", n), S(n, n)),
                              I("mov", View("ecx", n), S(2 * n, n))>> \o down(WORD - n),
                            <<I(op, View("ecx", n), View("eax", n)), I("mov", S(WORD, n), View("edx", n)),
                              I("mov", S(WORD + n, n), View("eax", n))>> \o Flags(role, f)>>
    [] form = "fetch" -> plain(<<I("mov", Full(a), S(0, WORD)),
                                 I(IF n = 1 THEN "movzx" ELSE "mov", View(b, Room(n)), MReg(a, n))>> \o up(WORD - Room(n))
                               \o <<I("mov", S(0, Room(n)), View(b, Room(n)))>>)
    [] form = "put"   -> plain(<<I("mov", Full(a), S(0, WORD)), I("mov", View(b, n), S(WORD, n))>> \o up(WORD + Room(n))
                               \o <<I("mov", MReg(a, n), View(b, n))>>)
    [] form = "sp"    -> plain(<<I("mov", Full(a), Full(role.sp))>> \o down(n) \o <<I("mov", S(0, n), View(a, n))>>)
    [] form = "cpuid" -> plain(<<I("mov", Dw("eax"), S(0, 4)), One("push", Full("ebx")), Inst("cpuid", <<>>)>> \o down(12)
                               \o <<I("mov", S(12, 4), Dw("eax")), I("mov", S(8, 4), Dw("ebx")), I("mov", S(4, 4), Dw("ecx")),
                                    I("mov", S(0, 4), Dw("edx")), One("pop", Full("ebx"))>>)
    [] form = "rdtsc" -> plain(<<Inst("rdtsc", <<>>)>> \o down(8) \o <<I("mov", S(0, 4), Dw("edx")), I("mov", S(4, 4), Dw("eax"))>>)
    [] form = "setsp" -> plain(<<I("mov", Full(role.sp), S(0, WORD))>>)
    [] form = "popf"  -> <<<<One("push", S(0, WORD))>> \o up(WORD), <<Inst("popfd", <<>>)>>>>
CodeOf(s, role, t, f) == Shaped(s.form, s.op, s.n, role, t, f)
Code(kind, role, t, f) == CodeOf(ShapeOf(kind), role, t, f)

\* The handler of a kind jumps to the next one.
Leave(role, x, f) ==
  <<I("mov", Dw(x), Slot(role.op, 0, 4, f))>> \o Step(role.op, 4, f) \o <<I("xor", Dw(x), Dw("ebx")), I("add", Full(role.ip), Full(x))>>
  \o IF f.leave = "jmp" THEN <<One("jmp", Full(role.ip))>> ELSE <<One("push", Full(role.ip)), Inst("ret", <<>>)>>

\* Entry of the machine, jumps in it (one that assigns the registers anew and
\* one that does not), and its end.
Entry(role, f) ==
  <<I("mov", Full(role.sp), Full("esp")), I("sub", Full("esp"), Imm(IF WORD = 8 THEN 384 ELSE 192, 4)), I("mov", Full("ebx"), Full(role.op)),
    I("mov", Full(role.op), MDis(role.sp, 40, WORD)), I("lea", Full(role.ip), MHere)>>
Jump(role, new, x, f) ==
  <<I("mov", Full(x), Slot(role.sp, 0, WORD, f))>> \o Step(role.sp, WORD, f)
  \o <<I("mov", Full("eax"), Full(role.sp)), I("mov", Full(new.op), Full(x)), I("mov", Full("ebx"), Full(x)),
       I("mov", Full(new.sp), Full("eax")), I("lea", Full(new.ip), MHere)>>
Turn(role) == <<I("mov", Full("ebx"), Full(role.op)), I("lea", Full(role.ip), MHere)>>
End(role) ==
  <<I("mov", Full("esp"), Full(role.sp)), One("pop", Full(role.sp)), One("pop", Full(role.op)), One("pop", Full(role.ip)),
    One("pop", Full("ebx")), Inst("ret", <<>>)>>

----------------------------------------------------------------------------
(* What the handlers mean: operands, result, and what the instruction that *)
(* is recorded holds.  S and E are the words at the stack pointer of the   *)
(* machine at the start and at the end of the handler, S[k, n] being n     *)
(* bytes k bytes above it.                                                 *)

AtStack(s, role) == [k \in {0, 2, 4, 8, 12, 16}, n \in {1, 2, 4, 8} |->
                       Low(xx_read_fmem(s, Sum2(s.r[role.sp], Const(k)), WORD), n)]
is(var, result, out) == [var |-> var, result |-> result, out |-> out]

Meaning(form, n, S, E, regs, sp, byte, no) ==
  CASE form = "push"  -> is(<<E[0, n]>>, regs, byte)
    [] form = "const" -> is(<<E[0, n]>>, regs, E[0, n])
    [] form = "pop"   -> is(<<regs>>, S[0, n], byte)
    [] form \in {"two", "not"} -> is(<<S[Room(n), n], S[0, n]>>, E[WORD, n], no)
    [] form = "fetch" -> is(<<S[0, WORD]>>, E[0, n], no)
    [] form = "put"   -> is(<<S[WORD, n]>>, S[0, WORD], no)
    [] form = "sp"    -> is(<<Low(sp, n)>>, regs, no)
    [] form = "divide" -> is(<<S[n, n], S[2 * n, n]>>, E[WORD + n, n], no)
    [] form = "shift" -> is(<<S[0, n], S[Room(n), 1]>>, E[WORD, n], no)
    [] form = "double" -> is(<<S[0, n], S[n, n], S[2 * n, 1]>>, E[WORD, n], no)
    [] form = "times" -> is(<<S[n, n], S[0, n]>>, E[WORD + n, n], no)
    [] form = "setsp" -> is(<<regs>>, S[0, WORD], no)
    [] form = "popf" /\ WORD = 4 -> is(<<Shifted(regs, -WORD)>>, S[0, WORD], no)   \* the flags are still pushed
    [] OTHER -> is(<<>>, no, no)
Truth(kind, start, end, role) ==
  Meaning(ShapeOf(kind).form, ShapeOf(kind).n, AtStack(start, role), AtStack(end, role), start.r["esp"], start.r[role.sp],
          Low(xx_read_fmem(start, start.r[role.op], WORD), 1), Zeros(WORD))

\* Handlers that leave the flags of their operation on the stack.
WithFlags == {s.code : s \in {h \in Shapes : h.form \in {"two", "not", "divide", "times", "shift", "double"}}}
FlagsOf(end, role) == xx_read_fmem(end, end.r[role.sp], WORD)
=============================================================================
