------------------------------ MODULE MCDisasm ------------------------------
(* The decoder with rows of the tables the program loads (the data files  *)
(* of xxdisasm64) and instructions of the manual to decode with them.      *)
EXTENDS DisasmManual, TLC

Address == <<0, 16, 64, 0, 1, 0, 0, 0>>

-----------------------------------------------------------------------------
(* Rows of opcodes, as the tables have them; a row that is repeated for a  *)
(* prefix is one row here, and the rows of a group are looked at when the  *)
(* table is asked for the group.                                           *)

I(type, ltype)         == [type |-> type, ltype |-> ltype, citem |-> ""]
J(type, ltype, citem)  == [type |-> type, ltype |-> ltype, citem |-> citem]

Prefixes == {240, 242, 243, 46, 54, 62, 38, 100, 101, 102, 103}
NoMand   == Prefixes \cup {-1}
Sse      == NoMand \ {242, 243, 102}
InMem    == 0 .. 2

R(items) == [items |-> items, modrm |-> FALSE, sups |-> "", other |-> FALSE,
             rex |-> FALSE, kind |-> "", prefixes |-> NoMand, mods |-> 0 .. 3, rms |-> 0 .. 7]
M(items) == [R(items) EXCEPT !.modrm = TRUE]

Sup(sups, row) == [row EXCEPT !.sups = sups]
Other(row)     == [row EXCEPT !.other = TRUE]
Kind(kind)     == [Other(R(<<>>)) EXCEPT !.kind = kind]
For(ps, row)   == [row EXCEPT !.prefixes = ps]
With(ms, row)  == [row EXCEPT !.mods = ms]

RName   == <<"rAX", "rCX", "rDX", "rBX", "rSP", "rBP", "rSI", "rDI">>
EName   == <<"eAX", "eCX", "eDX", "eBX", "eSP", "eBP", "eSI", "eDI">>
CName   == <<"r8", "r9", "r10", "r11", "r12", "r13", "r14", "r15">>
BName   == <<"AL", "CL", "DL", "BL", "AH", "CH", "DH", "BH">>
CBName  == <<"r8l", "r9l", "r10l", "r11l", "r12l", "r13l", "r14l", "r15l">>

\* The first six of each eight opcodes below 40: add, or, adc, ... cmp.
Arithmetic(form) ==
    CASE form = 0 -> <<M(<<I("E", "b"), I("G", "b")>>)>>
      [] form = 1 -> <<M(<<I("E", "v"), I("G", "v")>>)>>
      [] form = 2 -> <<M(<<I("G", "b"), I("E", "b")>>)>>
      [] form = 3 -> <<M(<<I("G", "v"), I("E", "v")>>)>>
      [] form = 4 -> <<R(<<I("AL", "b"), I("I", "b")>>)>>
      [] form = 5 -> <<R(<<I("rAX", "v"), I("I", "z")>>)>>

\* The row of 10, adc, names the size v for its register.
Ones ==
    (16 :> <<M(<<I("E", "b"), I("G", "v")>>)>>) @@ (6 :> <<Sup("i64", R(<<I("ES", "v")>>))>>) @@ (15 :> <<Kind("two")>>)
    @@ (99 :> <<Other(Sup("i64", M(<<I("E", "w"), I("G", "w")>>))),
                Sup("o64", M(<<I("G", "v"), I("E", "d")>>))>>)
    @@ (104 :> <<Sup("d64", R(<<I("I", "z")>>))>>)
    @@ (105 :> <<M(<<I("G", "v"), I("E", "v"), I("I", "z")>>)>>)
    @@ (106 :> <<Sup("d64", R(<<I("I", "b")>>))>>)
    @@ (107 :> <<M(<<I("G", "v"), I("E", "v"), I("I", "b")>>)>>)
    @@ (116 :> <<Sup("f64", R(<<I("J", "b")>>))>>)
    @@ (128 :> <<Kind("ext")>>) @@ (129 :> <<Kind("ext")>>) @@ (131 :> <<Kind("ext")>>)
    @@ (132 :> Arithmetic(0)) @@ (136 :> Arithmetic(0)) @@ (137 :> Arithmetic(1))
    @@ (139 :> Arithmetic(3))
    @@ (140 :> <<M(<<I("E", "v"), I("S", "w")>>)>>)
    @@ (141 :> <<M(<<I("G", "v"), I("M", "v")>>)>>)
    @@ (143 :> <<Kind("ext")>>)
    @@ (144 :> <<R(<<>>)>>)
    @@ (154 :> <<Sup("i64", R(<<I("A", "p")>>))>>)
    @@ (161 :> <<R(<<I("rAX", "v"), I("O", "v")>>)>>)
    @@ (163 :> <<R(<<I("O", "v"), I("rAX", "v")>>)>>)
    @@ (164 :> <<R(<<I("Y", "b"), I("X", "b")>>)>>)
    @@ (165 :> <<R(<<I("Y", "v"), I("X", "v")>>)>>)
    @@ (171 :> <<R(<<I("Y", "v"), I("rAX", "v")>>)>>)
    @@ (192 :> <<Kind("ext")>>) @@ (193 :> <<Kind("ext")>>)
    @@ (194 :> <<R(<<I("I", "w")>>)>>) @@ (195 :> <<R(<<>>)>>)
    @@ (199 :> <<Kind("ext")>>)
    @@ (209 :> <<Kind("ext")>>) @@ (211 :> <<Kind("ext")>>)
    @@ (214 :> <<Kind("undefined")>>) @@ (216 :> <<Kind("fpu")>>) @@ (217 :> <<Kind("fpu")>>)
    @@ (232 :> <<Sup("f64", R(<<I("J", "z")>>))>>)
    @@ (233 :> <<Sup("f64", R(<<I("J", "z")>>))>>)
    @@ (235 :> <<Sup("f64", R(<<I("J", "b")>>))>>)
    @@ (246 :> <<Kind("ext")>>) @@ (247 :> <<Kind("ext")>>) @@ (255 :> <<Kind("ext")>>)

OneRows(b) ==
    IF b < 64 /\ b % 8 < 6 THEN Arithmetic(b % 8)
    ELSE IF b \in 64 .. 79
    THEN <<[Sup("i64", R(<<I(EName[(b % 8) + 1], "v")>>)) EXCEPT !.rex = TRUE]>>
    ELSE IF b \in 80 .. 95
    THEN <<Sup("d64", R(<<J(RName[(b % 8) + 1], "v", CName[(b % 8) + 1])>>))>>
    ELSE IF b \in 176 .. 183
    THEN <<R(<<J(BName[(b % 8) + 1], "b", CBName[(b % 8) + 1]), I("I", "b")>>)>>
    ELSE IF b \in 184 .. 191
    THEN <<R(<<J(RName[(b % 8) + 1], "v", CName[(b % 8) + 1]), I("I", "v")>>)>>
    ELSE <<>>

OneOpcodes == Ones @@ [b \in 0 .. 255 |-> OneRows(b)]

Ev == <<M(<<I("E", "v")>>)>>
Eb == <<M(<<I("E", "b")>>)>>

\* /2 .. /7 of f6 and f7: the accumulator is an operand of the last four.
Unary(r, e, a, z) ==
    CASE r = 0       -> <<M(<<e, z>>)>>
      [] r \in {2, 3} -> <<M(<<e>>)>>
      [] r \in 4 .. 7 -> <<M(<<e, a>>)>>

Groups ==
    [k \in ({128, 129, 131, 192, 193, 209, 211} \X (0 .. 7)) |->
        CASE k[1] \in {128, 192} -> <<M(<<I("E", "b"), I("I", "b")>>)>>
          [] k[1] = 129          -> <<M(<<I("E", "v"), I("I", "z")>>)>>
          [] k[1] \in {131, 193} -> <<M(<<I("E", "v"), I("I", "b")>>)>>
          [] k[1] = 209          -> <<M(<<I("E", "v"), I("1", "b")>>)>>
          [] k[1] = 211          -> <<M(<<I("E", "v"), I("CL", "b")>>)>>]
    @@ [k \in ({246} \X {0, 2, 3, 4, 5, 6, 7}) |->
            Unary(k[2], I("E", "b"), I("AL", "b"), I("I", "b"))]
    @@ [k \in ({247} \X {0, 2, 3, 4, 5, 6, 7}) |->
            Unary(k[2], I("E", "v"), I("rAX", "v"), I("I", "z"))]
    @@ (<<143, 0>> :> <<Sup("d64", M(<<I("E", "v")>>))>>)
    @@ (<<199, 0>> :> <<M(<<I("E", "v"), I("I", "z")>>)>>)
    @@ (<<199, 7>> :> <<With({3}, [Other(M(<<I("J", "z")>>)) EXCEPT !.rms = {0}])>>)
    @@ (<<255, 0>> :> Ev) @@ (<<255, 1>> :> Ev)
    @@ (<<255, 2>> :> <<Sup("f64", M(<<I("E", "v")>>))>>)
    @@ (<<255, 4>> :> <<Sup("f64", M(<<I("E", "addr")>>))>>)
    @@ (<<255, 6>> :> <<Sup("d64", M(<<I("E", "v")>>))>>)

Twos ==
    (5 :> <<Other(Sup("o64", R(<<>>)))>>)
    @@ (16 :> <<For(Sse, Other(M(<<I("V", "ps"), I("W", "ps")>>))),
                For({242}, Other(M(<<I("V", "x"), I("W", "32-8")>>))),
                For({243}, Other(M(<<I("V", "x"), I("W", "32-4")>>))),
                For({102}, Other(M(<<I("V", "pd"), I("W", "pd")>>)))>>)
    @@ (31 :> Ev)
    @@ (32 :> <<M(<<I("R", "d"), I("C", "d")>>)>>)
    @@ (33 :> <<M(<<I("R", "d"), I("D", "d")>>)>>)
    @@ (56 :> <<Kind("three")>>) @@ (58 :> <<Kind("three")>>)
    @@ (68 :> Arithmetic(3))
    @@ (110 :> <<For(Sse, Other(M(<<I("P", "d"), I("E", "y")>>))),
                 For({102}, Other(M(<<I("V", "y"), I("E", "y")>>)))>>)
    @@ (111 :> <<For(Sse, Other(M(<<I("P", "q"), I("Q", "q")>>))),
                 For({102, 243}, Other(M(<<I("V", "x"), I("W", "x")>>)))>>)
    @@ (132 :> <<R(<<I("J", "z")>>)>>)
    @@ (148 :> Eb) @@ (162 :> <<R(<<>>)>>)
    @@ (164 :> <<M(<<I("E", "v"), I("G", "v"), I("I", "b")>>)>>)
    @@ (175 :> Arithmetic(3))
    @@ (182 :> <<M(<<I("G", "v"), I("E", "b")>>)>>)
    @@ (183 :> <<M(<<I("G", "v"), I("E", "w")>>)>>)
    @@ (184 :> <<For({243}, M(<<I("G", "v"), I("E", "v")>>))>>)
    @@ (186 :> <<Kind("ext")>>)
    @@ (190 :> <<M(<<I("G", "v"), I("E", "b")>>)>>)
    @@ (191 :> <<M(<<I("G", "v"), I("E", "w")>>)>>)
    @@ (193 :> Arithmetic(1))
    @@ (199 :> <<Kind("ext")>>)
    @@ (200 :> <<R(<<J("rAX", "v", "r8")>>)>>)
    @@ (215 :> <<For(Sse, Other(M(<<I("G", "d"), I("N", "q")>>))),
                 For({102}, Other(M(<<I("G", "d"), I("U", "x")>>)))>>)

Threes ==
    (<<56, 0>> :> <<Other(M(<<I("P", "q"), I("Q", "q")>>)),
                    Other(M(<<I("V", "x"), I("W", "x")>>))>>)
    @@ (<<56, 16>> :> <<Other(M(<<I("V", "dq"), I("W", "dq")>>))>>)
    @@ (<<56, 240>> :> <<M(<<I("G", "y"), I("M", "y")>>), M(<<I("G", "w"), I("M", "w")>>),
                         M(<<I("G", "d"), I("E", "b")>>)>>)
    @@ (<<56, 243>> :> <<Kind("ext")>>)
    @@ (<<58, 15>> :> <<Other(M(<<I("P", "q"), I("Q", "q"), I("I", "b")>>))>>)

Groups2 ==
    [k \in ({186} \X (4 .. 7)) |-> <<For(Prefixes, M(<<I("E", "v"), I("I", "b")>>))>>]
    @@ (<<199, 1>> :> <<For(Prefixes, With(InMem, M(<<I("M", "q")>>)))>>)
    @@ (<<199, 6>> :> <<For(Prefixes, With(InMem, Other(M(<<I("M", "q")>>)))),
                        For(Prefixes, With({3}, M(<<I("R", "v")>>)))>>)

\* The key has no room for the rm field the search asks for.
Groups3 == (<<56, 243, -1, 1, -1>> :> <<Other(Sup("v", M(<<I("B", "y"), I("E", "y")>>)))>>)

\* fadd, fmul, ... of memory and of st(0) with st(i).
Floats ==
    [k \in ({216, 217} \X {"reg"} \X {0, 2, 3}) |-> <<Other(M(<<I("M", "v")>>))>>]
    @@ [k \in ({216, 217} \X {"byte"} \X (192 .. 199)) |->
            <<Other(M(<< <<8, 0, 16, 16, 16, 8, 1>>, <<8, k[3] - 192, 16, 16, 16, 8, 1>> >>))>>]

-----------------------------------------------------------------------------
(* ModRM, SIB and operand tables. *)

GpRow(group, n) ==
    << IF group = 0 /\ n >= 4 THEN <<0, n - 4, 8, 1, 1, 1, 2>> ELSE <<group, n, 8, 1, 1, 0, 1>>,
       <<group, n, 8, 1, 2, 2, 1>>, <<group, n, 8, 1, 4, 4, 1>>, <<group, n, 8, 1, 8, 6, 1>> >>

AddressRow(n)  == <<0, n, 8, 1, 4, 4, 1>>
AddressRow8(g, n) == <<g, n, 8, 1, 8, 6, 1>>
Nothing == <<None, None, None, None>>

RmType(mod, rm) ==
    CASE mod = 3            -> 1
      [] rm = 4             -> IF mod = 0 THEN 4 ELSE 5
      [] mod = 0 /\ rm = 5  -> 6
      [] mod = 0            -> 2
      [] OTHER              -> 3

ModrmRow(mod, reg, rm) ==
    [mod |-> mod, rm_type |-> RmType(mod, rm), sib_exist |-> mod # 3 /\ rm = 4,
     displacement |-> CASE mod = 1 -> 1 [] mod = 2 -> 4 [] mod = 0 /\ rm = 5 -> 4 [] OTHER -> 0,
     reg_opcode |-> reg, rm_field |-> rm,
     reg_def |-> GpRow(0, reg), reg_def_c |-> GpRow(1, reg),
     rm_def |-> IF mod = 3 THEN GpRow(0, rm)
                ELSE IF rm = 4 \/ (mod = 0 /\ rm = 5) THEN Nothing
                ELSE <<AddressRow(rm), AddressRow(rm), AddressRow(rm), AddressRow8(0, rm)>>,
     rm_def_c |-> IF mod = 3 THEN GpRow(1, rm)
                  ELSE IF rm = 4 \/ (mod = 0 /\ rm = 5) THEN Nothing
                  ELSE [n \in 1 .. 4 |-> AddressRow8(1, rm)],
     reg_def_mmx |-> <<5, reg, 8, 8, 8, 6, 1>>, rm_def_mmx |-> <<5, rm, 8, 8, 8, 6, 1>>,
     reg_def_xmm |-> <<6, reg, 16, 16, 16, 10, 1>>, rm_def_xmm |-> <<6, rm, 16, 16, 16, 10, 1>>,
     reg_def_cr |-> <<<<2, 1, 4, 4, 4, 2>>, None, <<2, 3, 4, 4, 4, 2>>, <<2, 4, 4, 4, 4, 2>>,
                      <<2, 5, 4, 4, 4, 2>>, None, None, None>>[reg + 1],
     reg_def_dr |-> IF reg \in {4, 5} THEN None ELSE <<3, reg + 1, 4, 4, 4, 2>>,
     reg_def_seg |-> IF reg > 5 THEN None
                     ELSE <<5, <<4, 1, 3, 2, 5, 6>>[reg + 1], 2, 2, 2, 3>>]

Modrms ==
    [m \in 0 .. 255 |-> ModrmRow(m \div 64, (m \div 8) % 8, m % 8)] @@ <<>>

SibRow(scale, index, base) ==
    [base |-> <<0, base, 8, 1, 0, 0, 1>>, base_c |-> <<1, base, 8, 1, 0, 0, 1>>,
     index |-> IF index = 4 THEN None ELSE <<0, index, 8, 1, 0, 0, 1>>,
     index_c |-> <<1, index, 8, 1, 0, 0, 1>>,
     scale |-> IF index = 4 THEN 0 ELSE <<0, 2, 4, 8>>[scale + 1],
     base_special |-> base = 5]

SibTable ==
    [m \in 0 .. 255 |-> SibRow(m \div 64, (m \div 8) % 8, m % 8)] @@ <<>>

T(kind) == [item_type |-> kind, size |-> 0, reg_def |-> None]
TR(row, size) == [item_type |-> "REG", size |-> size, reg_def |-> row]

Named8(names, row(_), size) ==
    [name \in {names[n] : n \in 1 .. 8} |-> TR(row(CHOOSE n \in 0 .. 7 : names[n + 1] = name), size)]

ItemTypes ==
    ("A" :> T("IADDR")) @@ ("C" :> T("REG")) @@ ("D" :> T("REG")) @@ ("E" :> T("M_REG"))
    @@ ("G" :> T("REG")) @@ ("I" :> T("IMM")) @@ ("J" :> T("DIS")) @@ ("M" :> T("MREGDIS"))
    @@ ("O" :> T("MIMM")) @@ ("P" :> [T("REG") EXCEPT !.size = 8])
    @@ ("Q" :> [T("M_MMX") EXCEPT !.size = 8]) @@ ("R" :> T("REG")) @@ ("S" :> T("REG"))
    @@ ("U" :> T("REG")) @@ ("V" :> T("REG")) @@ ("W" :> T("M_XMM"))
    @@ ("X" :> [T("MREG") EXCEPT !.reg_def = <<0, 6, 8, 4, 0, 0, 1>>])
    @@ ("Y" :> [T("MREG") EXCEPT !.reg_def = <<0, 7, 8, 4, 0, 0, 1>>])
    @@ ("1" :> T("IMM")) @@ ("ES" :> TR(<<2, 3, 2, 2, 2, 2, 1>>, 0))
    @@ Named8(RName, LAMBDA n : <<0, n, 8, 2, 0, 0, 1>>, 0)
    @@ Named8(EName, LAMBDA n : <<0, n, 4, 2, 0, 0, 1>>, 0)
    @@ Named8(CName, LAMBDA n : <<1, n, 8, 2, 0, 0, 1>>, 0)
    @@ Named8(BName, LAMBDA n : IF n < 4 THEN <<0, n, 1, 1, 1, 0, 1>> ELSE <<0, n - 4, 1, 1, 1, 1, 2>>, 1)
    @@ Named8(CBName, LAMBDA n : <<1, n, 1, 1, 0, 0, 1>>, 0)

BySystem == [s \in {4, 8} |-> s]
Lt(data) == [data |-> [s \in {4, 8} |-> data], addr |-> BySystem]

ItemLtypes ==
    ("b" :> Lt(1)) @@ ("w" :> Lt(2)) @@ ("d" :> Lt(4)) @@ ("p" :> Lt(4)) @@ ("v" :> Lt(4))
    @@ ("y" :> Lt(4)) @@ ("z" :> Lt(4)) @@ ("q" :> Lt(8)) @@ ("32-4" :> Lt(4)) @@ ("32-8" :> Lt(8))
    @@ ("dq" :> Lt(16)) @@ ("pd" :> Lt(16)) @@ ("ps" :> Lt(16)) @@ ("x" :> Lt(16)) 
    @@ ("addr" :> [data |-> BySystem, addr |-> BySystem])

-----------------------------------------------------------------------------
(* Instructions of the manual. *)

Form(op, ops) == [op |-> op, digit |-> -1, ops |-> ops, modes |-> {4, 8},
                  d64 |-> FALSE, mand |-> {}]
Digit(op, digit, ops) == [Form(op, ops) EXCEPT !.digit = digit]
D64(inst)      == [inst EXCEPT !.d64 = TRUE]
In(mode, inst) == [inst EXCEPT !.modes = {mode}]
Mand(p, inst)  == [inst EXCEPT !.mand = {p}]
NotInst(op)    == [Form(op, <<>>) EXCEPT !.modes = {}]

rm8 == <<"rm", 1>>     rmv == <<"rm", V>>
r8  == <<"r", 1>>      rv  == <<"r", V>>
i8  == <<"imm", 1>>    iz  == <<"imm", Z>>
Acc(n) == <<"fixed", n, 0>>
Code(n, r) == <<"code", n, r>>

Instructions ==
    {Form(<<1>>, <<rmv, rv>>), Form(<<16>>, <<rm8, r8>>), Form(<<42>>, <<r8, rm8>>), Form(<<60>>, <<Acc(1), i8>>),
     Form(<<5>>, <<Acc(V), iz>>), In(4, Form(<<6>>, <<<<"seg", 2, 3>>>>)),
     In(4, Form(<<67>>, <<Code(V, 3)>>)), In(4, Form(<<76>>, <<Code(V, 4)>>)),
     D64(Form(<<80>>, <<Code(V, 0)>>)), D64(Form(<<92>>, <<Code(V, 4)>>)),
     In(8, Form(<<99>>, <<rv, <<"rm", Z>>>>)),
     D64(Form(<<104>>, <<iz>>)), Form(<<105>>, <<rv, rmv, iz>>),
     D64(Form(<<106>>, <<i8>>)), Form(<<107>>, <<rv, rmv, i8>>),
     Form(<<116>>, <<<<"rel", 1>>>>), Form(<<232>>, <<<<"rel", 4>>>>), Form(<<233>>, <<<<"rel", 4>>>>),
     Form(<<235>>, <<<<"rel", 1>>>>), Form(<<15, 132>>, <<<<"rel", 4>>>>),
     Form(<<132>>, <<rm8, r8>>), Form(<<136>>, <<rm8, r8>>), Form(<<137>>, <<rmv, rv>>),
     Form(<<139>>, <<rv, rmv>>), Form(<<140>>, <<rmv, <<"sreg", 2>>>>),
     Form(<<141>>, <<rv, <<"m", V>>>>), D64(Digit(<<143>>, 0, <<rmv>>)),
     Form(<<144>>, <<>>), In(4, Form(<<154>>, <<<<"far", 4>>>>)),
     Form(<<161>>, <<Acc(V), <<"moffs", V>>>>), Form(<<163>>, <<<<"moffs", V>>, Acc(V)>>),
     Form(<<164>>, <<<<"rdi", 1>>, <<"rsi", 1>>>>), Form(<<165>>, <<<<"rdi", V>>, <<"rsi", V>>>>),
     Form(<<171>>, <<<<"rdi", V>>, Acc(V)>>),
     Form(<<178>>, <<Code(1, 2), i8>>), Form(<<181>>, <<Code(1, 5), i8>>),
     Form(<<185>>, <<Code(V, 1), <<"imm", V>>>>), Form(<<194>>, <<<<"imm", 2>>>>), Form(<<195>>, <<>>),
     Form(<<15, 164>>, <<rmv, rv, i8>>), Form(<<15, 68>>, <<rv, rmv>>),
     Form(<<15, 175>>, <<rv, rmv>>), Form(<<15, 182>>, <<rv, rm8>>), Form(<<15, 183>>, <<rv, <<"rm", 2>>>>),
     Form(<<15, 190>>, <<rv, rm8>>), Form(<<15, 193>>, <<rmv, rv>>), Form(<<15, 162>>, <<>>),
     Form(<<15, 148>>, <<rm8>>), Form(<<15, 200>>, <<Code(V, 0)>>),
     Form(<<15, 5>>, <<>>),
     Form(<<15, 32>>, <<<<"rmreg", 4>>, <<"cr", 4>>>>), Form(<<15, 33>>, <<<<"rmreg", 4>>, <<"dr", 4>>>>),
     Form(<<15, 110>>, <<<<"mm", 8>>, <<"rm", Y>>>>),
     Form(<<15, 111>>, <<<<"mm", 8>>, <<"mmrm", 8>>>>),
     Form(<<15, 16>>, <<<<"xmm", 16>>, <<"xmmrm", 16>>>>),
     Form(<<15, 56, 0>>, <<<<"mm", 8>>, <<"mmrm", 8>>>>),
     Form(<<15, 56, 240>>, <<<<"r", V>>, <<"m", V>>>>),
     Form(<<15, 58, 15>>, <<<<"mm", 8>>, <<"mmrm", 8>>, i8>>),
     Digit(<<15, 199>>, 1, <<<<"m", 8>>>>), Digit(<<15, 199>>, 6, <<<<"rmreg", V>>>>),
     Digit(<<128>>, 0, <<rm8, i8>>), Digit(<<129>>, 7, <<rmv, iz>>), Digit(<<131>>, 5, <<rmv, i8>>),
     Digit(<<193>>, 4, <<rmv, i8>>), Digit(<<209>>, 5, <<rmv, <<"one", 1>>>>),
     Digit(<<211>>, 0, <<rmv, <<"fixed", 1, 1>>>>),
     Digit(<<246>>, 0, <<rm8, i8>>), Digit(<<246>>, 2, <<rm8>>),
     Digit(<<247>>, 0, <<rmv, iz>>), Digit(<<247>>, 3, <<rmv>>), Digit(<<199>>, 0, <<rmv, iz>>),
     Digit(<<255>>, 1, <<rmv>>), D64(Digit(<<255>>, 2, <<rmv>>)), D64(Digit(<<255>>, 4, <<rmv>>)),
     D64(Digit(<<255>>, 6, <<rmv>>)),
     Digit(<<15, 186>>, 5, <<rmv, i8>>), Digit(<<216>>, 0, <<<<"m", 4>>>>),
     Form(<<216, 195>>, <<<<"st", 16, 0>>, <<"st", 16, 3>>>>),
     Mand(242, Form(<<15, 16>>, <<<<"xmm", 16>>, <<"xmmrm", 8>>>>)),
     Mand(243, Form(<<15, 16>>, <<<<"xmm", 16>>, <<"xmmrm", 4>>>>)),
     Mand(102, Form(<<15, 111>>, <<<<"xmm", 16>>, <<"xmmrm", 16>>>>)),
     Mand(102, Form(<<15, 110>>, <<<<"xmm", 16>>, <<"rm", Y>>>>)),
     Mand(102, Form(<<15, 215>>, <<<<"r", 4>>, <<"xmmreg", 16>>>>)),
     Mand(243, Form(<<15, 184>>, <<rv, rmv>>)), NotInst(<<15, 56, 243>>),
     NotInst(<<214>>), [NotInst(<<246>>) EXCEPT !.digit = 1], NotInst(<<15, 255>>), NotInst(<<15, 56, 255>>)}

-----------------------------------------------------------------------------
(* How they are written. *)

Positive == <<18, 86, 4, 1, 18, 86, 4, 1, 7, 0>>
Negative == <<240, 255, 255, 255, 255, 255, 255, 255, 255, 255>>
Half     == <<128, 0, 0, 0, 0, 0, 0, 0, 0, 0>>

Source(inst, system, prefixes, rex, form, imm) ==
    [inst |-> inst, system |-> system, prefixes |-> prefixes \cup inst.mand, rex |-> rex,
     mod |-> form.mod, reg |-> form.reg, rm |-> form.rm, scale |-> form.scale,
     index |-> form.index, base |-> form.base, disp |-> form.disp, imm |-> imm]

At1(mod, reg, rm) ==
    [mod |-> mod, reg |-> reg, rm |-> rm, scale |-> 0, index |-> 0, base |-> 0, disp |-> Positive]
AtSib(mod, reg, scale, index, base) ==
    [At1(mod, reg, 4) EXCEPT !.scale = scale, !.index = index, !.base = base]

\* Every instruction, with few addresses and the prefixes it may have.
Forms(inst) ==
    IF ~Modrmed(inst) THEN {At1(3, 0, 0)}
    ELSE {At1(3, 1, 6), At1(1, 5, 3), At1(0, 2, 5), AtSib(2, 7, 2, 6, 1), AtSib(1, 3, 2, 4, 1)}

Constants(inst) ==
    IF \E n \in DOMAIN inst.ops : inst.ops[n][1] \in {"imm", "rel", "moffs", "far"}
    THEN {Positive, Negative, Half} ELSE {Positive}

Everything ==
    UNION {{Source(inst, mode[1], ps, mode[2], form, imm) :
                mode \in {<<4, 0>>, <<8, 0>>, <<8, 72>>, <<8, 69>>},
                ps \in {{}, {102}, {100}, {103}},
                form \in Forms(inst), imm \in Constants(inst)} : inst \in Instructions}

Rexes == {0} \cup (64 .. 79)

\* Few instructions, with every address.
Addresses ==
    {At1(mod, reg, rm) : mod \in 0 .. 3, reg \in {2, 6}, rm \in {0, 3, 5, 6}}
    \cup {[AtSib(mod, 2, scale, index, base) EXCEPT !.disp = disp] :
            mod \in 0 .. 2, scale \in {0, 3}, index \in {1, 4, 5}, base \in {2, 4, 5},
            disp \in {Positive, Negative}}

Addressed ==
    {Source(inst, 8, {}, rex, form, Negative) :
        inst \in {Form(<<137>>, <<rmv, rv>>), Digit(<<129>>, 7, <<rmv, iz>>)},
        rex \in Rexes, form \in Addresses}
    \cup {Source(Form(<<136>>, <<rm8, r8>>), 4, {}, 0, form, Negative) : form \in Addresses}

\* lea and its like need memory, others a register; the jumps, MMX and SSE
\* take no 66 here: it makes them other instructions.
Writable(s) ==
    /\ "m" \in Kinds(s) => s.mod # 3
    /\ "rmreg" \in Kinds(s) => s.mod = 3
    /\ "sreg" \in Kinds(s) => s.reg < 6
    /\ Has(s, 102) /\ Kinds(s) \cap {"rel", "mm", "xmm", "xmmreg"} # {} => 102 \in s.inst.mand
    /\ Has(s, 103) /\ s.system = 4 => ~InMemory(s) /\ Kinds(s) \cap {"moffs", "rsi", "rdi"} = {}
    /\ "xmmreg" \in Kinds(s) => s.mod = 3
    /\ s.rex # 0 => s.system = 8 \/ s.inst.modes = {}
    /\ ~Known(s) => s.rex = 0 /\ s.inst.op \notin {<<67>>, <<76>>, <<99>>}

Written == {s \in Everything : Writable(s)} \cup Addressed
=============================================================================
