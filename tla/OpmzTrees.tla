----------------------------- MODULE OpmzTrees -----------------------------
(***************************************************************************)
(* Instruction trees of the optimizer (st_tree.c, st_node.c, opmz_tree.c,   *)
(* opmz_tree_cb.c, opmz_rule.c) and the table that turns the expression of  *)
(* a tree into an assembly line or a middle instruction (xx_exp.c).         *)
(*                                                                         *)
(* A node is [k, off, sz, v, op, src, item, res, subs]: what it denotes     *)
(* (data.idef, data.offset, data.op_size, data.var), the operation that     *)
(* computes it from its subnodes (op.idef), the instruction and operand it  *)
(* comes from (op.src_idef, 0 for the result) and the result recorded for   *)
(* that instruction (ginst_dfile).  Registers are <<"r", index>>; constants *)
(* and recorded results are terms, <<"c", 5>> for a literal.                *)
(* 64-bit rows of the tables are left out: they repeat the 32-bit ones.     *)
(***************************************************************************)
EXTENDS Integers, OpmzDef, SequencesExt

\* data.idef: register, constant, [sp], [[sp]], [constant], ignorable [sp]
REG   == 1
CONST == 2
STK   == 4
DEREF == 5
CMEM  == 7
GONE  == 8

\* op.idef
NONE == 0
MOV  == 1
ADD  == 2
SHR  == 6
LOAD == 8
STORE == 9
CWD  == 10
CDW1 == 14
CDW2 == 16

NoVar  == <<"-", 0>>
DSP    == <<"d[sp]", 0>>    \* the text a rule gives to a root it made constant
NoNode == [k |-> 0]

-----------------------------------------------------------------------------
(* The instruction tables xx_def_inst_lv2.h, _lv3.h and _lv4.h.            *)

It(k, sz, off) == [k |-> k, sz |-> sz, off |-> off]
Row(op, sp, rflag, res, items) ==
    [op |-> op, sp |-> sp, rflag |-> rflag, res |-> res, items |-> items]
NoRes(sp) == Row(NONE, sp, FALSE, It(0, 0, 0), <<>>)

Boundaries == [idef \in {"entry", "invalid", "jmp", "retn"} |-> NoRes(0)]
Pushes ==
    [push_dreg   |-> Row(MOV, -4, FALSE, It(STK, 4, -4), <<It(REG, 4, 0)>>),
     push_wreg   |-> Row(MOV, -2, FALSE, It(STK, 2, -2), <<It(REG, 2, 0)>>),
     push_dconst |-> Row(MOV, -4, FALSE, It(STK, 4, -4), <<It(CONST, 4, 0)>>),
     push_bconst |-> Row(MOV, -2, FALSE, It(STK, 2, -2), <<It(CONST, 2, 0)>>)]
Pops ==
    [pop_dreg |-> Row(MOV, 4, FALSE, It(REG, 4, 4), <<It(STK, 4, 0)>>),
     pop_wreg |-> Row(MOV, 2, FALSE, It(REG, 2, 2), <<It(STK, 2, 0)>>)]
Adds ==
    [add |-> Row(ADD, 0, TRUE, It(STK, 4, 4), <<It(STK, 4, 4), It(STK, 4, 0)>>)]
ShiftRows ==
    [shr |-> Row(SHR, -2, TRUE, It(STK, 4, 2), <<It(STK, 4, 0), It(STK, 2, 4)>>)]
Loads ==
    [load |-> Row(LOAD, 0, FALSE, It(STK, 4, 0), <<It(STK, 4, 0)>>)]
Stores ==
    [store |-> Row(STORE, 8, FALSE, It(DEREF, 4, 8), <<It(STK, 4, 0), It(STK, 4, 4)>>)]

\* Instructions that the optimizer makes up: a pop of flags, the halves of a
\* dword, and the middle instructions.
FlagMoves ==
    [mov_flag |-> Row(MOV, 4, FALSE, It(REG, 4, 0), <<It(6, 4, 0)>>)]
Halves ==
    [cwd  |-> Row(CWD, 0, FALSE, It(STK, 4, 0), <<It(STK, 2, 2), It(STK, 2, 0)>>),
     cdw1 |-> Row(CDW1, 0, FALSE, It(STK, 2, 0), <<It(STK, 4, 0)>>),
     cdw2 |-> Row(CDW2, 0, FALSE, It(STK, 2, 2), <<It(STK, 4, 0)>>)]
MiddleRows ==
    [push_mem     |-> Row(MOV, -4, FALSE, It(STK, 4, -4), <<It(CMEM, 4, 0)>>),
     push_dconst0 |-> Row(MOV, -4, FALSE, It(STK, 4, -4), <<It(CONST, 4, 0)>>)]

Def == Boundaries @@ Pushes @@ Pops @@ Adds @@ ShiftRows @@ Loads @@ Stores
       @@ FlagMoves @@ Halves @@ MiddleRows
Invented == DOMAIN Halves \cup DOMAIN MiddleRows

Defined(ins)   == ins.idef \in DOMAIN Def
HasRflag(ins)   == Defined(ins) /\ Def[ins.idef].rflag
DefSp(ins) == IF Defined(ins) THEN Def[ins.idef].sp ELSE 0
IsBoundary(ins)  == ins.idef \in {"entry", "invalid", "jmp", "retn"}
IsOpening(ins) == ins.idef \in {"entry", "jmp"}
IsPopReg(ins)    == ins.idef = "pop_dreg"
PopSize(ins)    == IF ins.idef = "pop_dreg" THEN 4 ELSE 0
ToMovFlag(ins)   == [ins EXCEPT !.idef = "mov_flag"]

\* Column tree_analyze of the three tables.
DefAnalyze(idef, lv) ==
    \/ idef = "load"
    \/ lv >= LV3 /\ idef \in {"pop_dreg", "pop_wreg", "store"}
    \/ lv = LV4 /\ idef = "add"

\* Column chg_flag: a popped dword may be split into two words, the result of
\* a shift may be widened, both from the LV3 table on.
MaySplit(idef, item, lv) == lv >= LV3 /\ idef = "pop_dreg" /\ item = 1
MayWiden(idef, lv)       == lv >= LV3 /\ idef = "shr"

-----------------------------------------------------------------------------
(* xx_opmz_tree_gen: one instruction, sp before it.                        *)

Leaf(ins, i, off) ==
    LET it == Def[ins.idef].items[i]
    IN  [k |-> it.k, off |-> off + it.off, sz |-> it.sz,
         v |-> IF it.k \in {REG, CONST, CMEM} THEN ins.var ELSE NoVar,
         op |-> NONE, src |-> ins.idef, item |-> i, res |-> ins.res, subs |-> <<>>]

TreeGen(ins, off) ==
    IF ~Defined(ins) \/ Def[ins.idef].res.k = 0 THEN NoNode
    ELSE LET d == Def[ins.idef]
         IN  [k |-> d.res.k, off |-> off + d.res.off, sz |-> d.res.sz,
              v |-> IF d.res.k = REG THEN ins.var ELSE NoVar,
              op |-> d.op, src |-> ins.idef, item |-> 0, res |-> ins.res,
              subs |-> [i \in DOMAIN d.items |-> Leaf(ins, i, off)]]

TreeOffset(t) == t.off

\* An instruction the merge makes up: same recorded result, no operand.
Made(idef, node) == TreeGen([idef |-> idef, var |-> NoVar, res |-> node.res], node.off)

-----------------------------------------------------------------------------
(* Values that TLC evaluates once, not at each use.                        *)

Eager(s) == SubSeq(s, 1, Len(s))
With(e, F(_)) == CHOOSE y \in {F(x) : x \in {e}} : TRUE

-----------------------------------------------------------------------------
(* Merging (xx_opmz_tree_merge and the callbacks it compares with).        *)

RECURSIVE LeavesOf(_), Graft(_, _), Ignorable(_)
LeavesOf(t) == IF t.subs = <<>> THEN <<t>>
               ELSE FlattenSeq(Eager([i \in DOMAIN t.subs |-> LeavesOf(t.subs[i])]))

\* The root is never a lowest subnode, even when it has no subnodes.
LowNodes(t) == IF t.subs = <<>> THEN <<>> ELSE LeavesOf(t)

\* Mutant: values are matched by kind and size only.
SameAnywhere(p, r) == p.sz = r.sz /\ p.k = r.k /\ p.v = r.v

Same(p, r)   == p.off = r.off /\ p.sz = r.sz /\ p.k = r.k /\ p.v = r.v
Splits(p, r) == p.k = r.k /\ p.sz = 2 * r.sz /\ p.v = r.v /\ r.off - p.off \in {0, r.sz}
Widens(p, r) == p.k = r.k /\ r.sz = 2 * p.sz /\ p.v = r.v /\ p.off - r.off \in {0, p.sz}

Matches(t, P(_)) == SelectSeq(LowNodes(t), P)

\* xx_tree_merge: t2 replaces every lowest subnode it is the value of.
Merges(t, t2) == \E i \in DOMAIN LowNodes(t) : Same(LowNodes(t)[i], t2)
Graft(t, t2)  ==
    [t EXCEPT !.subs = Eager([i \in DOMAIN @ |->
        IF @[i].subs = <<>> /\ Same(@[i], t2) THEN t2 ELSE Graft(@[i], t2)])]

\* The operands of the half that stays are virtual values to be ignored.
Ignorable(t) == IF t.subs = <<>> THEN [t EXCEPT !.k = GONE]
                ELSE [t EXCEPT !.subs = Eager([i \in DOMAIN @ |-> Ignorable(@[i])])]

Outcome(ok, work) == [ok |-> ok, work |-> work, expanded |-> FALSE]

Split(work, p, t2, lv) ==
    LET halves == Graft(work, Made("cwd", p))
    IN  IF p.item = 0 \/ ~MaySplit(p.src, p.item, lv) THEN Outcome(FALSE, work)
        ELSE Outcome(Merges(halves, t2), Graft(halves, t2))

\* The half that the tree needs is merged, the other half stays in the list.
Widen(work, t2, lv) ==
    LET half(idef) == Graft(Made(idef, t2), t2)
        use(a, b)  == [ok |-> TRUE, work |-> Graft(work, half(a)), expanded |-> TRUE,
                       tree |-> Ignorable(half(b)), idef |-> b]
    IN  IF ~MayWiden(t2.src, lv) THEN Outcome(FALSE, work)
        ELSE IF Merges(work, half("cdw1")) THEN use("cdw1", "cdw2")
        ELSE IF Merges(work, half("cdw2")) THEN use("cdw2", "cdw1")
        ELSE Outcome(FALSE, work)

TreeMerge(work, t2, lv) ==
    LET split == Matches(work, LAMBDA p : Splits(p, t2))
        widen == Matches(work, LAMBDA p : Widens(p, t2))
    IN  IF Merges(work, t2) THEN Outcome(TRUE, Graft(work, t2))
        ELSE IF split # <<>> THEN Split(work, Head(split), t2, lv)
        ELSE IF widen # <<>> THEN Widen(work, t2, lv)
        ELSE Outcome(FALSE, work)

\* xx_tree_low_check: no lowest node is still a stack slot.
TreeComplete(t) ==
    \A i \in DOMAIN LeavesOf(t) : LeavesOf(t)[i].k \in {REG, CONST, 3, CMEM, GONE}

-----------------------------------------------------------------------------
(* The rules of opmz_rule.c, applied from the lowest nodes to the root, on  *)
(* the nodes whose subnodes have no subnodes themselves.                    *)

IsNum(x) == x[1] = "c"
Plus(a, b) == IF IsNum(a) /\ IsNum(b) THEN <<"c", a[2] + b[2]>> ELSE <<"+", a, b>>
\* The low half of a dword; a word is its own.
LoHalf(x) == IF IsNum(x) \/ x[1] \in {"lo", "hi", "s"} THEN x
             ELSE IF x[1] = "cat" THEN x[3] ELSE <<"lo", x>>
HiHalf(x) == IF IsNum(x) THEN <<"c", 0>> ELSE IF x[1] = "cat" THEN x[2] ELSE <<"hi", x>>
Cat(hi, lo) ==
    IF hi = <<"c", 0>> /\ IsNum(lo) THEN lo
    ELSE IF hi[1] = "hi" /\ lo[1] = "lo" /\ hi[2] = lo[2] THEN hi[2]
    ELSE <<"cat", hi, lo>>
\* memcpy of op_size bytes of a value.
Bytes(x, sz) == IF sz = 2 THEN LoHalf(x) ELSE x

AllSubs(t, K) == \A i \in DOMAIN t.subs : t.subs[i].k \in K
ToConst(t, x, op) == [t EXCEPT !.k = CONST, !.v = x, !.op = op, !.subs = <<>>]

\* The constant register is replaced by its value.
Rule1(creg, t) ==
    [t EXCEPT !.subs = [i \in DOMAIN @ |->
        IF @[i].k = REG /\ @[i].v = creg.reg
        THEN [@[i] EXCEPT !.k = CONST, !.v = creg.val] ELSE @[i]]]

\* A stack slot that was only moved to is the value that was moved.
Rule2(t, root) ==
    IF Len(t.subs) = 1 /\ ~root /\ t.k = STK /\ t.op = MOV
    THEN LET s == t.subs[1]
         IN  [t EXCEPT !.k = s.k, !.off = s.off, !.sz = s.sz, !.v = s.v,
                       !.op = NONE, !.subs = <<>>]
    ELSE t

\* The sum of two constants.
Rule3(t, root) ==
    IF t.op = ADD /\ Len(t.subs) = 2 /\ AllSubs(t, {CONST})
    THEN LET sum == Plus(t.subs[1].v, t.subs[2].v)
         IN  IF root
             THEN [t EXCEPT !.op = NONE, !.k = STK, !.v = DSP,
                            !.subs = <<ToConst(t.subs[1], sum, NONE)>>]
             ELSE ToConst(t, sum, MOV)
    ELSE t

\* Only constants below: the result is the one recorded in the trace.
Rule4(t, root) ==
    IF t.k = STK /\ AllSubs(t, {CONST, CMEM})
    THEN IF root
         THEN [t EXCEPT !.op = MOV, !.v = DSP,
                        !.subs = <<ToConst(t.subs[1], Bytes(t.res, t.subs[1].sz), NONE)>>]
         ELSE ToConst(t, Bytes(t.res, t.sz), NONE)
    ELSE t

RECURSIVE Apply(_, _, _, _)
Apply(rule, creg, t, root) ==
    LET step(node) ==
          IF node.subs = <<>> \/ \E i \in DOMAIN node.subs : node.subs[i].subs # <<>>
          THEN node
          ELSE CASE rule = 1 -> Rule1(creg, node)
                 [] rule = 2 -> Rule2(node, root)
                 [] rule = 3 -> Rule3(node, root)
                 [] rule = 4 -> Rule4(node, root)
    IN  With([t EXCEPT !.subs = Eager([i \in DOMAIN @ |-> Apply(rule, creg, @[i], FALSE)])],
             step)

Rules(t, lv, creg) ==
    LET upto3 == With(With(Apply(1, creg, t, TRUE), LAMBDA t1 : Apply(2, creg, t1, TRUE)),
                      LAMBDA t2 : Apply(3, creg, t2, TRUE))
    IN  IF lv = LV2 THEN upto3 ELSE With(upto3, LAMBDA t3 : Apply(4, creg, t3, TRUE))

-----------------------------------------------------------------------------
(* The expression of a tree, as the sequence of its symbols.               *)

Sym(s) == <<[t |-> s]>>
Arity == MOV :> 1 @@ ADD :> 2 @@ SHR :> 2 @@ LOAD :> 1 @@ STORE :> 2
         @@ CWD :> 2 @@ CDW1 :> 1 @@ CDW2 :> 1

LeafText(t) ==
    CASE t.k = REG  -> <<[t |-> "reg", v |-> t.v, sz |-> t.sz]>>
      [] t.k = CONST -> <<[t |-> "const", v |-> t.v]>>
      [] t.k = CMEM -> Sym("[") \o <<[t |-> "const", v |-> t.v]>> \o Sym("]")
      [] OTHER      -> Sym("[sp]")

RECURSIVE Expressible(_), NodeExp(_)
Expressible(t) ==
    t.subs # <<>> => /\ t.op \in DOMAIN Arity /\ Len(t.subs) = Arity[t.op]
                     /\ \A i \in DOMAIN t.subs : Expressible(t.subs[i])

NodeExp(t) ==
    IF t.subs = <<>> THEN LeafText(t)
    ELSE LET e == Eager([i \in DOMAIN t.subs |-> NodeExp(t.subs[i])])
         IN  CASE t.op = MOV   -> e[1]
               [] t.op = ADD   -> Sym("(") \o e[1] \o Sym("+") \o e[2] \o Sym(")")
               [] t.op = SHR   -> e[1] \o Sym(">>") \o e[2]
               [] t.op = LOAD  -> Sym("d[") \o e[1] \o Sym("]")
               [] t.op = STORE -> Sym("d[") \o e[1] \o Sym("]") \o Sym("=") \o e[2]
               [] t.op = CWD   -> Sym("cwd(") \o e[1] \o Sym(",") \o e[2] \o Sym(")")
               [] t.op = CDW1  -> Sym("cdw1(") \o e[1] \o Sym(")")
               [] t.op = CDW2  -> Sym("cdw2(") \o e[1] \o Sym(")")

RootText(t) == IF t.k # STK THEN LeafText(t)
               ELSE IF t.v = DSP THEN Sym("d[sp]") ELSE Sym("[sp]")

TreeExp(t) == IF t.op = STORE THEN NodeExp(t)
              ELSE RootText(t) \o Sym("=") \o NodeExp(t)

-----------------------------------------------------------------------------
(* xx_exp_gen numbers the variables of an expression, constants first, and  *)
(* xx_exp_rule looks the numbered expression up in exp_tbl (xx_exp_tbl.h).  *)

Firsts(exp, kind) ==
    LET all == SelectSeq(exp, LAMBDA x : x.t = kind)
        isNew(i) == \A j \in 1..i-1 : all[j] # all[i]
    IN  SelectSeq([i \in DOMAIN all |-> [tok |-> all[i], new |-> isNew(i)]],
                  LAMBDA x : x.new)

VarsOf(exp) ==
    LET all == Firsts(exp, "const") \o Firsts(exp, "reg")
    IN  [i \in DOMAIN all |-> all[i].tok]

ConstNames == <<"const0", "const1", "const2", "const3", "const4", "const5", "const6">>
RegNames == <<"reg0", "reg1", "reg2", "reg3", "reg4", "reg5", "reg6">>
MaxVars == 8    \* exp_var[8]: an expression that fills it is rejected
NameOf(tok, vs) ==
    IF tok.t \notin {"const", "reg"} THEN tok.t
    ELSE LET i == CHOOSE i \in DOMAIN vs : vs[i] = tok
         IN  IF tok.t = "const" THEN ConstNames[i] ELSE RegNames[i]
Numbered(exp, vs) == [i \in DOMAIN exp |-> NameOf(exp[i], vs)]

\* Levels of lv_flag: 0x4, 0x10 and 0x1e.
AtLv2 == {LV2}
AtLv4 == {LV4}
AtAll == {LV2, LV3, LV4}
Entry(exp, lvs, kind, asm) == [exp |-> exp, lvs |-> lvs, kind |-> kind, asm |-> asm]
AsmRow(exp, asm) == Entry(exp, AtAll, "asm", asm)

\* The rows that the modelled instructions can produce; the asm of a row is
\* its operation and its operands, or the definition of a middle instruction.
ExpTbl ==
  { Entry(<<"d[sp]", "=", "const0">>, AtLv4, "middle", <<"push_dconst0">>),
    Entry(<<"[sp]", "=", "d[", "const0", "]">>, AtLv2, "middle", <<"push_mem">>),
    Entry(<<"[sp]", "=", "d[", "(", "reg1", "+", "const0", ")", "]">>, AtLv4, "asm",
          <<"push", "reg1", "const0">>),
    AsmRow(<<"reg1", "=", "const0">>, <<"mov", "reg1", "const0">>),
    AsmRow(<<"reg0", "=", "reg1">>, <<"mov", "reg0", "reg1">>),
    AsmRow(<<"reg0", "=", "reg0">>, <<"mov", "reg0", "reg0">>),
    AsmRow(<<"reg1", "=", "cwd(", "const0", ",", "reg2", ")">>, <<"movzx", "reg1", "reg2">>),
    AsmRow(<<"d[", "const0", "]", "=", "reg1">>, <<"store", "const0", "reg1">>),
    AsmRow(<<"d[", "reg1", "]", "=", "const0">>, <<"store", "reg1", "const0">>),
    AsmRow(<<"reg1", "=", "[", "const0", "]">>, <<"load", "reg1", "const0">>),
    AsmRow(<<"reg0", "=", "(", "reg1", "+", "reg0", ")">>, <<"add", "reg0", "reg1">>),
    AsmRow(<<"reg1", "=", "(", "reg2", "+", "const0", ")">>, <<"lea", "reg1", "reg2", "const0">>),
    AsmRow(<<"d[", "(", "reg1", "+", "const0", ")", "]", "=", "reg2">>,
           <<"store2", "reg1", "const0", "reg2">>),
    AsmRow(<<"d[", "(", "reg2", "+", "const0", ")", "]", "=", "const1">>,
           <<"store2", "reg2", "const0", "const1">>),
    AsmRow(<<"reg0", "=", "d[", "(", "reg1", "+", "reg2", ")", "]">>,
           <<"load2", "reg0", "reg1", "reg2">>),
    AsmRow(<<"reg1", "=", "d[", "(", "reg2", "+", "const0", ")", "]">>,
           <<"load2", "reg1", "reg2", "const0">>),
    AsmRow(<<"reg1", "=", "reg1", ">>", "const0">>, <<"shr", "reg1", "const0">>),
    Entry(<<"reg0", "=", "cdw2(", "[sp]", ">>", "[sp]", ")">>, AtAll, "ignore", <<>>) }

\* The row of movzx asks for the text "<0x0>" of its first constant.
Fits(row, exp, vs, lv) ==
    /\ lv \in row.lvs /\ row.exp = Numbered(exp, vs)
    /\ row.asm # <<>> /\ row.asm[1] = "movzx" => vs[1].v = <<"c", 0>>

\* Names are written back: each operand of the row stands for its variable.
WriteBack(row, exp, vs) ==
    [op |-> row.asm[1],
     args |-> [i \in 1..Len(row.asm)-1 |->
                 exp[CHOOSE j \in DOMAIN exp : NameOf(exp[j], vs) = row.asm[i+1]]]]

NoMatch == [kind |-> "none"]

\* What xx_opmz_start makes of a complete tree.  A middle instruction takes
\* the value of the first variable only.
ExpRestore(work, lv, creg) ==
    LET use(row, exp, vs) ==
          CASE row.kind = "ignore" -> [kind |-> "ignore"]
            [] row.kind = "middle" -> [kind |-> "middle", idef |-> row.asm[1], var |-> vs[1].v]
            [] row.kind = "asm"    -> [kind |-> "asm", asm |-> WriteBack(row, exp, vs)]
        find(exp, vs) ==
          LET rows == {r \in ExpTbl : Fits(r, exp, vs, lv)}
          IN  IF Len(vs) >= MaxVars \/ rows = {} THEN NoMatch
              ELSE use(CHOOSE r \in rows : TRUE, exp, vs)
        write(t) == IF t.subs = <<>> \/ ~Expressible(t) THEN NoMatch
                    ELSE With(TreeExp(t), LAMBDA e : With(VarsOf(e), LAMBDA vs : find(e, vs)))
    IN  With(Rules(work, lv, creg), write)
=============================================================================
