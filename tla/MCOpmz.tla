------------------------------- MODULE MCOpmz -------------------------------
(* The optimizer on every piece that can be written with the blocks of a    *)
(* family, compared with the reference semantics of OpmzVm.                *)
EXTENDS OpmzReplay, OpmzRefinement

\* A family of pieces: the blocks they are made of, how they start and end,
\* and the bytes on the stack when they start.
CONSTANT Families

Op(idef, var) == <<[idef |-> idef, var |-> var]>>
R(i) == <<"r", i>>
C(x) == <<"c", x>>

Entry0 == Op("entry", NoVar)
Retn   == Op("retn", NoVar)
PushD(i)  == Op("push_dreg", R(i))
PushW(i)  == Op("push_wreg", R(i))
PushDC(c) == Op("push_dconst", C(c))
PushBC(c) == Op("push_bconst", C(c))
PopD(i)   == Op("pop_dreg", R(i))
PopW(i)   == Op("pop_wreg", R(i))
PopFlags  == PopD(FlagReg)
AddF      == Op("add", NoVar) \o PopFlags
ShrF      == Op("shr", NoVar) \o PopFlags
Load      == Op("load", NoVar)
Store     == Op("store", NoVar)
Unknown   == Op("nosuch", NoVar)

\* Blocks: dwords with sums and memory; moves between registers; addresses
\* that are sums; words and dwords made of words; shifts; pieces that some
\* pass gives up on.
Dwords == {PushD(1), PushDC(5), PopD(1), AddF, Load, Store}
Moves  == {PushD(0), PushD(1), PushD(2), PushDC(5), PopD(1), PopD(2)}
Memory == {PushD(1) \o PushDC(5) \o AddF, PushD(1) \o PushD(2) \o AddF, PushD(2), PushDC(7),
           PopD(2), Load, Store}
Words  == {PushW(1), PushBC(0), PushDC(5), PopD(2), PopW(1)}
Shifts == {PushBC(3), PushD(1), ShrF, PopD(1), PopW(1), PopW(2)}
Faults == {PushD(1), PopD(1), Load, AddF, Op("add", NoVar), Unknown, Retn}

\* A piece starts at a boundary, and a piece that was entered pops the
\* constant register first; the first piece of a file starts with the first
\* instruction that was recorded.
Entered == {Entry0 \o PopD(0)}
Cut     == {Entry0, Op("invalid", NoVar), PushD(1), Load}

DeltaOf(b) == FoldLeft(LAMBDA sp, ins : sp + DefSp(ins), 0, b)
MaxOf(S) == IF S = {} THEN 0 ELSE Max(S)

\* A piece takes from the stack at most what it or the pieces before it
\* pushed: depth bytes are left to take, k instructions to write.
Needs(ins) == IF Defined(ins)
              THEN MaxOf({it.off + it.sz : it \in {x \in ToSet(Def[ins.idef].items) : x.k = STK}})
              ELSE 0
RECURSIVE Pieces(_, _, _)
Pieces(blocks, k, depth) ==
    IF k = 0 THEN {<<>>}
    ELSE UNION {{b \o p : p \in With(depth - DeltaOf(b), LAMBDA d : Pieces(blocks, k - Len(b), d))} :
                   b \in {x \in blocks : Len(x) <= k /\ Needs(x[1]) <= depth}}

PiecesOf(f) ==
    UNION {{o \o p \o f.close :
               p \in Pieces(f.blocks, N - Len(o \o f.close), f.depth - DeltaOf(o))} :
              o \in f.open}
McPrograms == {Traced(p) : p \in UNION {PiecesOf(f) : f \in Families}}

Family(blocks, open, close, depth) ==
    [blocks |-> blocks, open |-> open, close |-> close, depth |-> depth]
Computing == {Family(Dwords, Entered, Retn, 4), Family(Shifts, Entered, <<>>, 4),
              Family(Words, Entered, Retn, 4), Family(Memory, Entered, Retn, 4),
              Family(Moves, Entered, Retn \o Retn, 12)}
Rewritten == {Family(Moves, Entered, <<>>, 4)}
Broken    == {Family(Faults, Cut, <<>>, 8)}

Creg0 == [reg |-> R(0), val |-> C(0)]
CregOf(ins) == [reg |-> ins.var, val |-> ins.res]
=============================================================================
