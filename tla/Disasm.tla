------------------------------- MODULE Disasm -------------------------------
(***************************************************************************)
(* The decoder of xxdisasm64, the disassembler every tool of xxvm reads    *)
(* the recorded code with: the dispatch over the parts of an instruction   *)
(* (xx_disasm_mod_dispatch), the module of each part (mod_*.c), the search *)
(* of the tables (seek_table.c) and the decoding of every kind of operand  *)
(* (item_type_a.c).  One action is one round of the dispatch.              *)
(*                                                                         *)
(* A constant of an instruction is a sequence of bytes, lowest first, as   *)
(* the code keeps it.  The tables are constants of the module: the program *)
(* loads them from its data_* files.  The text of the disassembly is left  *)
(* out: nothing of the decoding reads it.                                  *)
(***************************************************************************)
EXTENDS Integers, Sequences

CONSTANTS
    CurrentAddr,    \* current_addr, eight bytes
    TblPrefix,      \* the prefix bytes
    TblOneOpcode,   \* byte -> the rows of the byte, in the table's order
    TblTwoOpcode,   \* byte after 0f -> its rows
    TblThreeOpcode, \* <<second, third>> -> its rows
    TblExtOne,      \* <<first, reg>> -> the rows of the group
    TblExtTwo,      \* <<second, reg>> -> the rows of the group
    TblExtThree,    \* <<second, third, prefix, reg, rm>> -> the rows of the group
    TblFpu,         \* <<first, "reg" or "byte", value>> -> its rows
    TblModrm,       \* ModRM byte -> its row
    TblSib,         \* SIB byte -> its row
    TblItemType,    \* operand letter -> its row
    TblItemLtype    \* operand size letter -> [data, addr: system -> size]

VARIABLES xx_inst,  \* struct XX_INST
          codes     \* the bytes it is read from

vars == <<xx_inst, codes>>

\* No row, register or byte.
None == <<>>

-----------------------------------------------------------------------------
(* Bytes. *)

Extend(v, n, fill) == [i \in 1 .. n |-> IF i <= Len(v) THEN v[i] ELSE fill]

\* a + b, both of the same number of bytes, without the last carry.
Plus(a, b) ==
    LET carry[i \in 0 .. Len(a)] ==
            IF i = 0 THEN 0 ELSE (a[i] + b[i] + carry[i - 1]) \div 256
    IN  [i \in 1 .. Len(a) |-> (a[i] + b[i] + carry[i - 1]) % 256]

\* The test of a displacement: strictly above the half, it is subtracted.
AboveHalf(v) ==
    LET n == Len(v)
    IN  v[n] > 128 \/ (v[n] = 128 /\ \E i \in 1 .. n - 1 : v[i] # 0)

\* The address a displacement leads to from the end of what was read.
Target(displacement, length) ==
    Plus(Plus(CurrentAddr,
              Extend(displacement, 8, IF AboveHalf(displacement) THEN 255 ELSE 0)),
         Extend(<<length>>, 8, 0))

\* n bytes at the place that was reached, and the place after them.
Read(x, n) == SubSeq(codes, x.length + 1, x.length + n)
Take(x, n) == [x EXCEPT !.length = @ + n]
Next1(x)   == codes[x.length + 1]

Bit(b, n) == (b \div n) % 2 = 1
Rexw(x)   == Bit(x.rex, 8)
Rexr(x)   == Bit(x.rex, 4)
Rexx(x)   == Bit(x.rex, 2)
Rexb(x)   == Bit(x.rex, 1)

\* subprefix: is the byte one of the prefixes?  The bytes are compared as
\* signed ones, so that f0, f2 and f3 are never found.
subprefix(x, b) == b < 128 /\ \E i \in 1 .. Len(x.prefix) : x.prefix[i] = b

LastPrefix(x) == x.prefix[Len(x.prefix)]

-----------------------------------------------------------------------------
(* The tables. *)

\* The first row of a table's part that satisfies the search.
FirstOf(rows, found) ==
    IF found = {} THEN None
    ELSE rows[CHOOSE n \in found : \A m \in found : n <= m]

seek_one_opcode_tbl(opcode, system) ==
    LET rows == TblOneOpcode[opcode]
    IN  FirstOf(rows, {n \in DOMAIN rows :
            IF system = 8 THEN rows[n].rex \/ rows[n].sups # "i64"
                          ELSE rows[n].sups # "o64"})

RowsAt(tbl, key) == IF key \in DOMAIN tbl THEN tbl[key] ELSE <<>>

\* A row of the two byte table names the prefixes it is for, -1 for none.
seek_two_opcode_tbl(x) ==
    LET rows == RowsAt(TblTwoOpcode, x.second)
        key  == IF x.prefix = <<>> THEN -1 ELSE LastPrefix(x)
    IN  FirstOf(rows, {n \in DOMAIN rows : key \in rows[n].prefixes})

\* With a prefix the search string starts with the prefix as a raw byte and
\* finds nothing; without one the first row of the two bytes is taken,
\* whatever prefix it is for.
seek_three_opcode_tbl(x) ==
    LET rows == RowsAt(TblThreeOpcode, <<x.second, x.third>>)
    IN  FirstOf(rows, {n \in DOMAIN rows : x.prefix = <<>>})

seek_ext_one_opcode_tbl(opcode, m) ==
    LET rows == RowsAt(TblExtOne, <<opcode, m.reg_opcode>>)
    IN  FirstOf(rows, {n \in DOMAIN rows :
            m.mod \in rows[n].mods /\ m.rm_field \in rows[n].rms})

seek_ext_two_opcode_tbl(x, m) ==
    LET rows == RowsAt(TblExtTwo, <<x.second, m.reg_opcode>>)
    IN  FirstOf(rows, {n \in DOMAIN rows :
            /\ m.mod \in rows[n].mods
            /\ m.rm_field \in rows[n].rms
            /\ x.prefix # <<>> => LastPrefix(x) \in rows[n].prefixes})

seek_ext_three_opcode_tbl(x, m) ==
    LET rows == RowsAt(TblExtThree,
                       <<x.second, x.third,
                         IF x.prefix = <<>> THEN -1 ELSE LastPrefix(x),
                         m.reg_opcode, m.rm_field>>)
    IN  FirstOf(rows, {n \in DOMAIN rows : m.mod \in rows[n].mods})

\* Up to bf the rows go by the reg field, from c0 by the whole byte.
seek_fpu_opcode_tbl(opcode, modrm) ==
    LET rows == IF modrm < 192
                THEN RowsAt(TblFpu, <<opcode, "reg", (modrm \div 8) % 8>>)
                ELSE RowsAt(TblFpu, <<opcode, "byte", modrm>>)
    IN  FirstOf(rows, DOMAIN rows)

-----------------------------------------------------------------------------
(* Registers. A row is <<group, index, most, least, size, column, part>>,  *)
(* a register <<group, index, size, column>> of reg_def_data.              *)

\* The column a row without a size gets: the size of the item decides.
SizedColumn(row, dsize) ==
    IF row[5] # 0 \/ row[6] # 0 THEN row[6]
    ELSE CASE dsize = 8 -> 5 + row[7]
           [] dsize = 4 -> 3 + row[7]
           [] dsize = 2 -> 1 + row[7]
           [] dsize = 1 -> row[7] - 1
           [] OTHER     -> 0

\* With a REX prefix the high bytes are the low bytes of the next four.
reg_def(x, row, dsize) ==
    IF row = None \/ dsize = 0 THEN None
    ELSE LET size   == IF row[5] = 0 THEN dsize ELSE row[5]
             column == SizedColumn(row, dsize)
         IN  IF size > row[3] \/ size < row[4] THEN None
             ELSE IF /\ x.rex # 0 /\ dsize = 1
                     /\ row[1] = 0 /\ row[2] < 4 /\ column = 1
                  THEN <<0, row[2] + 4, size, 0>>
                  ELSE <<row[1], row[2], size, column>>

\* A general register row of the ModRM table is kept four times, for the
\* operands of one, two, four and eight bytes.
SizeRow(size) == CASE size = 1 -> 1 [] size = 2 -> 2 [] size = 4 -> 3 [] size = 8 -> 4

get_modrm_reg(x, field, size) ==
    LET m == TblModrm[x.modrm]
    IN  CASE field = "REG" /\ size \in {1, 2, 4, 8} ->
                reg_def(x, (IF Rexr(x) THEN m.reg_def_c ELSE m.reg_def)[SizeRow(size)], size)
          [] field = "RM" /\ size \in {1, 2, 4, 8} ->
                reg_def(x, (IF Rexb(x) THEN m.rm_def_c ELSE m.rm_def)[SizeRow(size)], size)
          [] field = "REG_MMX"    -> reg_def(x, m.reg_def_mmx, size)
          [] field = "RM_REG_MMX" -> reg_def(x, m.rm_def_mmx, size)
          [] field = "RM_REG_XMM" -> reg_def(x, m.rm_def_xmm, size)
          [] OTHER                -> None

get_sib_reg(x, field, size) ==
    LET s == TblSib[x.sib]
    IN  IF field = "BASE"
        THEN reg_def(x, IF Rexb(x) THEN s.base_c ELSE s.base, size)
        ELSE reg_def(x, IF Rexx(x) THEN s.index_c ELSE s.index, size)

-----------------------------------------------------------------------------
(* Operands. A function of item_type_a.c gives the instruction and the     *)
(* item after it and whether it returned 0.                                *)

Done(x, i) == [x |-> x, i |-> i, ok |-> TRUE]
Fail(x, i) == [x |-> x, i |-> i, ok |-> FALSE]

InRegister(x, i, reg) ==
    IF reg = None THEN Fail(x, i) ELSE Done(x, [i EXCEPT !.reg = reg])

\* The item keeps the n bytes that follow.
WithConst(x, i, n) ==
    Done(Take(x, n), [i EXCEPT !.const = Read(x, n), !.const_size = n])

\* The shape an operand with a SIB byte is given: a lone base keeps the type
\* the table names.
SibShape(i) ==
    LET base == i.reg # None
        index == i.index # None
        scale == i.scale # 0
        dis == i.const_size # 0
    IN  CASE ~base /\ ~index /\ ~scale /\ dis -> "MDIS"
          [] base /\ index /\ ~scale /\ ~dis  -> "MREGI"
          [] base /\ index /\ scale /\ ~dis   -> "MREGIS"
          [] base /\ index /\ ~scale /\ dis   -> "MREGIDIS"
          [] base /\ index /\ scale /\ dis    -> "MREGISDIS"
          [] ~base /\ index /\ scale /\ dis   -> "MISDIS"
          [] ~base /\ index /\ ~scale /\ dis  -> "MIDIS"
          [] base /\ ~index /\ ~scale /\ dis  -> "MREGDIS"
          [] OTHER                            -> i.type

\* The index of the SIB byte; its scale is taken only with one, and the row
\* of index 100 has a scale of 0.
Indexed(i, index, scale) ==
    IF index = None THEN i ELSE [i EXCEPT !.index = index, !.scale = scale]

SibIndex(x, i) == Indexed(i, get_sib_reg(x, "INDEX", i.addr), TblSib[x.sib].scale)

Shaped(r) == [r EXCEPT !.i.type = SibShape(r.i)]

\* Base, index and n bytes of displacement.
Sib(x, i, base, n) == Shaped(WithConst(x, SibIndex(x, [i EXCEPT !.reg = base]), n))

SibBase(x, i) == get_sib_reg(x, "BASE", i.addr)

\* Mutant: the displacement of the ModRM byte's row is taken.
SibSpecialByRow(x, i) ==
    IF TblModrm[x.modrm].mod = 0 THEN Sib(x, i, None, TblModrm[x.modrm].displacement)
    ELSE Sib(x, i, SibBase(x, i), TblModrm[x.modrm].displacement)

\* Base 101 means no base with mod 00, and the displacement goes by mod.
SibSpecial(x, i) ==
    CASE TblModrm[x.modrm].mod = 0 -> Sib(x, i, None, 4)
      [] TblModrm[x.modrm].mod = 1 -> Sib(x, i, SibBase(x, i), 1)
      [] OTHER                     -> Sib(x, i, SibBase(x, i), 4)

type_sib(x, i) ==
    IF TblSib[x.sib].base_special THEN SibSpecial(x, i)
    ELSE Sib(x, i, SibBase(x, i), 0)

type_sib_displacement(x, i) ==
    IF TblSib[x.sib].base_special THEN SibSpecial(x, i)
    ELSE Sib(x, i, SibBase(x, i), TblModrm[x.modrm].displacement)

\* Mutant: the item is not remembered.
type_sib_mdspForgotten(x, i) ==
    LET y == Take(x, 4)
    IN  Done(y, [i EXCEPT !.type = "MDIS", !.const = SubSeq(Target(Read(x, 4), y.length), 1, i.addr),
                          !.const_size = i.addr])

\* Relative to the instruction pointer: the address is computed from what was
\* read so far, and the item is remembered for item_const_fix.
type_sib_mdsp(x, i) ==
    LET y == Take(x, 4)
    IN  Done([y EXCEPT !.fix_item = Len(x.items) + 1],
             [i EXCEPT !.type = "MDIS",
                       !.const = SubSeq(Target(Read(x, 4), y.length), 1, i.addr),
                       !.const_size = i.addr])

\* The memory operand that the types E, M, Q and W share, by rm_type.
Displaced(x, i, reg, n) ==
    IF reg = None THEN Fail(x, i) ELSE WithConst(x, [i EXCEPT !.reg = reg], n)

Memory(x, i) ==
    LET m == TblModrm[x.modrm]
    IN  CASE m.rm_type = 2 ->
                InRegister(x, [i EXCEPT !.type = "MREG"], get_modrm_reg(x, "RM", i.addr))
          [] m.rm_type = 3 ->
                Displaced(x, [i EXCEPT !.type = "MREGDIS"],
                          get_modrm_reg(x, "RM", i.addr), m.displacement)
          [] m.rm_type = 4 -> type_sib(x, i)
          [] m.rm_type = 5 -> type_sib_displacement(x, i)
          [] m.rm_type = 6 ->
                IF x.system = 8 THEN type_sib_mdsp(x, i)
                ELSE WithConst(x, [i EXCEPT !.type = "MDIS"], i.addr)
          [] OTHER         -> Fail(x, i)

IsRegister(x) == TblModrm[x.modrm].rm_type = 1

item_type_A(x, i) ==
    Done(Take(x, i.addr + 2),
         [i EXCEPT !.type = "IADDR", !.const = Read(x, i.addr),
                   !.segment = Read(Take(x, i.addr), 2)])

item_type_C(x, i) ==
    InRegister(x, [i EXCEPT !.type = "REG"],
               reg_def(x, TblModrm[x.modrm].reg_def_cr, i.data))

item_type_D(x, i) ==
    InRegister(x, [i EXCEPT !.type = "REG"],
               reg_def(x, TblModrm[x.modrm].reg_def_dr, i.data))

item_type_E(x, i) ==
    LET j == IF x.system = 8 /\ x.row.sups = "d64" THEN [i EXCEPT !.data = 8] ELSE i
    IN  IF IsRegister(x)
        THEN InRegister(x, [j EXCEPT !.type = "REG"], get_modrm_reg(x, "RM", j.data))
        ELSE Memory(x, j)

item_type_G(x, i) == InRegister(x, i, get_modrm_reg(x, "REG", i.data))

\* A constant of four bytes that the item widens to eight.
SignExtended(i) ==
    [i EXCEPT !.const = Extend(@, 8, IF @[4] >= 128 THEN 255 ELSE 0), !.data = 8]

\* Only the opcodes b8..bf read eight bytes; else REX.W widens the value.
item_type_I(x, i) ==
    LET size  == IF Rexw(x) /\ x.first \in 184 .. 191 THEN 8 ELSE i.data
        r     == WithConst(x, [i EXCEPT !.data = size], size)
        widen == size = 4 /\ (Rexw(x) \/ (x.system = 8 /\ x.row.sups = "d64"))
    IN  IF widen THEN Done(r.x, SignExtended(r.i)) ELSE r

item_type_J(x, i) ==
    LET y == Take(x, i.data)
    IN  Done(y, [i EXCEPT !.const = SubSeq(Target(Read(x, i.data), y.length), 1, i.addr),
                          !.const_size = i.addr, !.data = i.addr])

item_type_M(x, i) == IF IsRegister(x) THEN Fail(x, i) ELSE Memory(x, i)

item_type_O(x, i) == WithConst(x, i, i.addr)

item_type_P(x, i) == InRegister(x, i, get_modrm_reg(x, "REG_MMX", i.data))

item_type_Q(x, i) ==
    IF IsRegister(x)
    THEN InRegister(x, [i EXCEPT !.type = "REG"], get_modrm_reg(x, "RM_REG_MMX", i.data))
    ELSE Memory(x, i)

item_type_R(x, i) ==
    IF IsRegister(x) THEN InRegister(x, i, get_modrm_reg(x, "RM", i.data))
    ELSE Fail(x, i)

item_type_S(x, i) ==
    InRegister(x, i, reg_def(x, TblModrm[x.modrm].reg_def_seg, i.data))

\* U and V return 0 without a register too.
item_type_U(x, i) ==
    Done(x, [i EXCEPT !.reg = reg_def(x, TblModrm[x.modrm].rm_def_xmm, i.data)])

item_type_V(x, i) ==
    Done(x, [i EXCEPT !.reg = reg_def(x, TblModrm[x.modrm].reg_def_xmm, i.data)])

item_type_W(x, i) ==
    IF IsRegister(x)
    THEN InRegister(x, [i EXCEPT !.type = "REG"], get_modrm_reg(x, "RM_REG_XMM", i.data))
    ELSE Memory(x, i)

\* The string operands: rsi and rdi by the size of an address.
item_type_X(x, i, row) == InRegister(x, i, reg_def(x, row.reg_def, i.addr))

item_type_Y(x, i, row) == InRegister(x, i, reg_def(x, row.reg_def, i.addr))

\* The constant 1 is not read.
item_type_CONST(x, i) == Done(x, [i EXCEPT !.const = Extend(<<1>>, i.data, 0), !.const_size = i.data])

\* A register the table names; push and pop take it whole.
item_type_reg(x, i, row) ==
    LET j == IF x.system = 8 /\ x.row.sups = "d64" /\ i.data = 4
             THEN [i EXCEPT !.data = 8] ELSE i
    IN  InRegister(x, j, reg_def(x, row.reg_def, j.data))

item_type_func(x, i, letter) ==
    CASE letter = "A" -> item_type_A(x, i)
      [] letter = "C" -> item_type_C(x, i)
      [] letter = "D" -> item_type_D(x, i)
      [] letter = "E" -> item_type_E(x, i)
      [] letter = "G" -> item_type_G(x, i)
      [] letter = "I" -> item_type_I(x, i)
      [] letter = "J" -> item_type_J(x, i)
      [] letter = "M" -> item_type_M(x, i)
      [] letter = "O" -> item_type_O(x, i)
      [] letter = "P" -> item_type_P(x, i)
      [] letter = "Q" -> item_type_Q(x, i)
      [] letter = "R" -> item_type_R(x, i)
      [] letter = "S" -> item_type_S(x, i)
      [] letter = "U" -> item_type_U(x, i)
      [] letter = "V" -> item_type_V(x, i)
      [] letter = "W" -> item_type_W(x, i)
      [] letter = "X" -> item_type_X(x, i, TblItemType[letter])
      [] letter = "Y" -> item_type_Y(x, i, TblItemType[letter])
      [] letter = "1" -> item_type_CONST(x, i)
      [] OTHER        -> item_type_reg(x, i, TblItemType[letter])

-----------------------------------------------------------------------------
(* The items of an instruction. *)

\* 66 exchanges the sizes 4 and 2 of the data, 67 those of the address and
\* only without a 66; both only for the rows of the general instructions.
Exchanged(size) == IF size = 4 THEN 2 ELSE IF size = 2 THEN 4 ELSE size

DataSize(x, letter, size) ==
    LET wide == IF Rexw(x) /\ letter # "I" THEN 8 ELSE size
    IN  IF TblItemType[letter].size # 0 THEN TblItemType[letter].size
        ELSE IF x.row.other \/ ~subprefix(x, 102) THEN wide
        ELSE Exchanged(wide)

AddrSize(x, size) ==
    IF x.row.other \/ subprefix(x, 102) \/ ~subprefix(x, 103) THEN size
    ELSE Exchanged(size)

\* The segment of the prefixes, in the order the code asks for them, or 0.
SegmentPrefix(x) ==
    LET found == SelectSeq(<<46, 54, 62, 38, 100, 101>>, LAMBDA b : subprefix(x, b))
    IN  IF found = <<>> THEN 0 ELSE Head(found)

NoItem == [type |-> "", data |-> 0, addr |-> 0, reg |-> None, index |-> None,
           scale |-> 0, const |-> <<>>, const_size |-> 0,
           segment |-> <<>>, prefix |-> 0]

\* Three shapes take the segment.
InSegment(x, r) ==
    IF r.ok /\ r.i.type \in {"MREG", "MIMM", "MREGDIS"}
    THEN [r EXCEPT !.i.prefix = SegmentPrefix(x)] ELSE r

\* One operand: its sizes, its function and its segment.
item_type(x, letter, ltype) ==
    LET size == TblItemLtype[ltype]
        i == [NoItem EXCEPT !.type = TblItemType[letter].item_type,
                            !.data = DataSize(x, letter, size.data[x.system]),
                            !.addr = AddrSize(x, size.addr[x.system])]
    IN  InSegment(x, item_type_func(x, i, letter))

\* What follows the address of an operand moves it by its length.
item_const_fix(x, offset) ==
    LET i == x.items[x.fix_item]
    IN  [x EXCEPT !.items[x.fix_item] =
            [i EXCEPT !.const = SubSeq(Plus(Extend(i.const, 8, 0),
                                            Extend(<<offset>>, 8, 0)), 1, i.addr),
                      !.const_size = i.addr]]

\* With REX.B a row of the one and two byte tables may name another operand.
Letter(x, item) == IF Rexb(x) /\ item.citem # "" THEN item.citem ELSE item.type

\* One item of the loop: a failing operand stays as it was left.
WithItem(y, i) == [y EXCEPT !.items = Append(@, i)]

Moved(x, y) ==
    IF y.length > x.length /\ x.fix_item # 0
    THEN item_const_fix(y, y.length - x.length) ELSE y

Added(x, r) == Moved(x, WithItem(r.x, r.i))

op_item(x, letter, ltype) == Added(x, item_type(x, letter, ltype))

\* The loop stops at a letter or a size the tables do not have, which leaves
\* the items that are left empty.
op_items(x, items) ==
    LET Known(n) == /\ Letter(x, items[n]) \in DOMAIN TblItemType
                    /\ items[n].ltype \in DOMAIN TblItemLtype
        after[n \in 0 .. Len(items)] ==
            IF n = 0 THEN x
            ELSE IF \A m \in 1 .. n : Known(m)
            THEN op_item(after[n - 1], Letter(x, items[n]), items[n].ltype)
            ELSE [after[n - 1] EXCEPT !.items = Append(@, NoItem)]
    IN  after[Len(items)]

-----------------------------------------------------------------------------
(* The modules. A module that returns an error gives Undefined.            *)

Undefined(x) == [x EXCEPT !.finish = "UNEXIST"]
Then(x, next) == [x EXCEPT !.next = next]

\* The dispatch ends an instruction whose items were read.
Dispatched(x) ==
    IF x.finish = "NOTOP" /\ x.next = "FINISH" THEN [x EXCEPT !.finish = "EXIST"]
    ELSE x

\* Every prefix byte is taken, whatever their number and order.
xx_prefix_mod(x) ==
    LET n == CHOOSE n \in 0 .. Len(codes) :
                /\ \A k \in 1 .. n : codes[k] \in TblPrefix
                /\ codes[n + 1] \notin TblPrefix
    IN  Then([Take(x, n) EXCEPT !.prefix = Read(x, n)], "REX")

xx_rex_mod(x) ==
    LET row == seek_one_opcode_tbl(Next1(x), x.system)
    IN  IF x.system # 8 THEN Then(x, "ONE_OPCODE")
        ELSE IF row = None \/ row.kind = "undefined" THEN Undefined(x)
        ELSE IF ~row.rex THEN Then(x, "ONE_OPCODE")
        ELSE Then([Take(x, 1) EXCEPT !.rex = Next1(x)], "ONE_OPCODE")

\* The row whose operands are decoded, and the ModRM byte or them at once.
WithRow(x, row) == Then([x EXCEPT !.row = row], IF row.modrm THEN "MODRM" ELSE "ITEMS")

\* A floating point operation on registers names them in its own row.
FpuRegister(x, def) ==
    [NoItem EXCEPT !.type = "REG", !.data = x.system, !.addr = x.system,
                   !.reg = reg_def(x, def, x.system)]

fpu_modrm_flag2(x, row) ==
    Then([Take(x, 1) EXCEPT !.modrm = Next1(x), !.row = row,
                            !.items = [n \in DOMAIN row.items |-> FpuRegister(x, row.items[n])]],
         "FINISH")

xx_fpu_opcode_mod(x) ==
    LET y   == [Take(x, 1) EXCEPT !.first = Next1(x)]
        row == seek_fpu_opcode_tbl(y.first, Next1(y))
    IN  IF row = None THEN Undefined(x)
        ELSE IF Next1(y) < 192 THEN WithRow(y, row)
        ELSE fpu_modrm_flag2(y, row)

xx_one_opcode_mod(x) ==
    LET row == seek_one_opcode_tbl(Next1(x), x.system)
        y   == [Take(x, 1) EXCEPT !.first = Next1(x)]
    IN  IF row = None \/ row.kind = "undefined" THEN Undefined(x)
        ELSE CASE row.kind = "fpu" -> xx_fpu_opcode_mod(x)
               [] row.kind = "two" -> Then(y, "TWO_OPCODE")
               [] row.kind = "ext" -> Then(y, "EXT_ONE_OPCODE")
               [] OTHER            -> WithRow(y, row)

\* The groups look at the ModRM byte and leave it to be read.
xx_ext_one_opcode_mod(x) ==
    LET row == seek_ext_one_opcode_tbl(x.first, TblModrm[Next1(x)])
    IN  IF row = None THEN Undefined(x) ELSE WithRow(x, row)

xx_two_opcode_mod(x) ==
    LET y   == [Take(x, 1) EXCEPT !.second = Next1(x)]
        row == seek_two_opcode_tbl(y)
    IN  IF row = None THEN Undefined(y)
        ELSE CASE row.kind = "three" -> Then(y, "THREE_OPCODE")
               [] row.kind = "ext"   -> Then(y, "EXT_TWO_OPCODE")
               [] OTHER              -> WithRow(y, row)

xx_ext_two_opcode_mod(x) ==
    LET row == seek_ext_two_opcode_tbl(x, TblModrm[Next1(x)])
    IN  IF row = None THEN Undefined(x) ELSE WithRow(x, row)

xx_three_opcode_mod(x) ==
    LET y   == [Take(x, 1) EXCEPT !.third = Next1(x)]
        row == seek_three_opcode_tbl(y)
    IN  IF row = None THEN Undefined(y)
        ELSE IF row.kind = "ext" THEN Then(y, "EXT_THREE_OPCODE")
        ELSE WithRow(y, row)

\* The module marks its own kind of row as absent, so that its items are
\* never decoded.
xx_ext_three_opcode_mod(x) ==
    LET row == seek_ext_three_opcode_tbl(x, TblModrm[Next1(x)])
    IN  IF row = None THEN Undefined(x)
        ELSE [WithRow(x, row) EXCEPT !.row = None]

xx_modrm_mod(x) ==
    LET y == [Take(x, 1) EXCEPT !.modrm = Next1(x)]
    IN  Then(y, IF TblModrm[y.modrm].sib_exist THEN "SIB" ELSE "ITEMS")

xx_sib_mod(x) == Then([Take(x, 1) EXCEPT !.sib = Next1(x)], "ITEMS")

xx_items_mod(x) ==
    IF x.row = None THEN Undefined(x)
    ELSE Then(op_items(x, x.row.items), "FINISH")

-----------------------------------------------------------------------------
(* One round of the dispatch is one action. *)

NewInst(system) ==
    [system |-> system, length |-> 0, prefix |-> <<>>, rex |-> 0,
     first |-> -1, second |-> -1, third |-> -1, row |-> None,
     modrm |-> -1, sib |-> -1, items |-> <<>>, fix_item |-> 0,
     next |-> "PREFIX", finish |-> "NOTOP"]

\* A call of the disassembler: system is INST_SYSTEM_32 or INST_SYSTEM_64.
Start(bytes, system) ==
    /\ codes = bytes
    /\ xx_inst = NewInst(system)

At(next) == xx_inst.finish = "NOTOP" /\ xx_inst.next = next /\ UNCHANGED codes

Prefix       == At("PREFIX") /\ xx_inst' = xx_prefix_mod(xx_inst)
Rex          == At("REX") /\ xx_inst' = xx_rex_mod(xx_inst)
OneOpcode    == At("ONE_OPCODE") /\ xx_inst' = Dispatched(xx_one_opcode_mod(xx_inst))
TwoOpcode    == At("TWO_OPCODE") /\ xx_inst' = xx_two_opcode_mod(xx_inst)
ThreeOpcode  == At("THREE_OPCODE") /\ xx_inst' = xx_three_opcode_mod(xx_inst)
ExtOneOpcode == At("EXT_ONE_OPCODE") /\ xx_inst' = xx_ext_one_opcode_mod(xx_inst)
ExtTwoOpcode == At("EXT_TWO_OPCODE") /\ xx_inst' = xx_ext_two_opcode_mod(xx_inst)
ExtThreeOpcode == At("EXT_THREE_OPCODE") /\ xx_inst' = xx_ext_three_opcode_mod(xx_inst)
Modrm        == At("MODRM") /\ xx_inst' = xx_modrm_mod(xx_inst)
Sibs         == At("SIB") /\ xx_inst' = xx_sib_mod(xx_inst)
Items        == At("ITEMS") /\ xx_inst' = Dispatched(xx_items_mod(xx_inst))

=============================================================================
