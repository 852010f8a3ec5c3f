----------------------------- MODULE CpuProofs -----------------------------
(***************************************************************************)
(* In a program of the forms of CpuForms the emulation tracks the          *)
(* processor (EmulationTracks) and what follows a comparison acts as the   *)
(* numbers stand (ConditionsCompare).  The operations with conditions,     *)
(* moves and jumps come first, then Agrees, which gathers them and those   *)
(* of CpuOperations, then the invariant of a program.                      *)
(***************************************************************************)
EXTENDS CpuOperations

----------------------------------------------------------------------------
(* Conditions.                                                             *)

LEMMA SfOf == ASSUME NEW s PROVE sfof(s) <=> ("SF" \in s.f <=> "OF" \in s.f)
  BY DEF sfof

\* Each function of a condition asks the flags what the processor asks.
LEMMA CmovIs == ASSUME NEW i, NEW v, NEW s, i.cc \in Conditions \ {"c", "nc"} PROVE Cmovcc(i, v, s) = MovedIf(Holds(i.cc, s.f), i, v, s)
  <1>1. sfof(s) <=> ("SF" \in s.f <=> "OF" \in s.f)
    BY SfOf
  <1>2. CASE i.cc = "e"
    BY <1>2, Zenon DEF Cmovcc, func_op_cmove, Holds, MovedIf, zf
  <1>3. CASE i.cc = "ne"
    BY <1>3, Zenon DEF Cmovcc, func_op_cmovne, Holds, MovedIf, zf
  <1>4. CASE i.cc = "a"
    BY <1>4, Zenon DEF Cmovcc, func_op_cmova, Holds, MovedIf, cf, zf
  <1>5. CASE i.cc = "ae"
    BY <1>5, Zenon DEF Cmovcc, func_op_cmovae, Holds, MovedIf, cf
  <1>6. CASE i.cc = "b"
    BY <1>6, Zenon DEF Cmovcc, func_op_cmovb, Holds, MovedIf, cf
  <1>7. CASE i.cc = "be"
    BY <1>7, Zenon DEF Cmovcc, func_op_cmovbe, Holds, MovedIf, cf, zf
  <1>8. CASE i.cc = "g"
    BY <1>1, <1>8, Zenon DEF Cmovcc, func_op_cmovg, Holds, MovedIf, zf
  <1>9. CASE i.cc = "ge"
    BY <1>1, <1>9, Zenon DEF Cmovcc, func_op_cmovge, Holds, MovedIf
  <1>10. CASE i.cc = "l"
    BY <1>1, <1>10, Zenon DEF Cmovcc, func_op_cmovl, Holds, MovedIf
  <1>11. CASE i.cc = "le"
    BY <1>1, <1>11, Zenon DEF Cmovcc, func_op_cmovle, Holds, MovedIf, zf
  <1>12. CASE i.cc = "s"
    BY <1>12, Zenon DEF Cmovcc, func_op_cmovs, Holds, MovedIf, sf
  <1>13. CASE i.cc = "ns"
    BY <1>13, Zenon DEF Cmovcc, func_op_cmovns, Holds, MovedIf, sf
  <1>14. CASE i.cc = "o"
    BY <1>14, Zenon DEF Cmovcc, func_op_cmovo, Holds, MovedIf, of
  <1>15. CASE i.cc = "no"
    BY <1>15, Zenon DEF Cmovcc, func_op_cmovno, Holds, MovedIf, of
  <1>16. CASE i.cc = "p"
    BY <1>16, Zenon DEF Cmovcc, func_op_cmovp, Holds, MovedIf, pf
  <1>17. CASE i.cc = "np"
    BY <1>17, Zenon DEF Cmovcc, func_op_cmovnp, Holds, MovedIf, pf
  <1> QED
    BY <1>2, <1>3, <1>4, <1>5, <1>6, <1>7, <1>8, <1>9, <1>10, <1>11, <1>12, <1>13, <1>14, <1>15, <1>16, <1>17, Zenon DEF Conditions

LEMMA SetIs == ASSUME NEW i, NEW v, NEW s, i.cc \in Conditions \ {"c", "nc"} PROVE Setcc(i, v, s) = SetTo(i, v, s, Holds(i.cc, s.f))
  <1>1. sfof(s) <=> ("SF" \in s.f <=> "OF" \in s.f)
    BY SfOf
  <1>2. CASE i.cc = "e"
    BY <1>2, Zenon DEF Setcc, func_op_sete, Holds, SetTo, zf
  <1>3. CASE i.cc = "ne"
    BY <1>3, Zenon DEF Setcc, func_op_setne, Holds, SetTo, zf
  <1>4. CASE i.cc = "a"
    BY <1>4, Zenon DEF Setcc, func_op_seta, Holds, SetTo, cf, zf
  <1>5. CASE i.cc = "ae"
    BY <1>5, Zenon DEF Setcc, func_op_setae, Holds, SetTo, cf
  <1>6. CASE i.cc = "b"
    BY <1>6, Zenon DEF Setcc, func_op_setb, Holds, SetTo, cf
  <1>7. CASE i.cc = "be"
    BY <1>7, Zenon DEF Setcc, func_op_setbe, Holds, SetTo, cf, zf
  <1>8. CASE i.cc = "g"
    BY <1>1, <1>8, Zenon DEF Setcc, func_op_setg, Holds, SetTo, zf
  <1>9. CASE i.cc = "ge"
    BY <1>1, <1>9, Zenon DEF Setcc, func_op_setge, Holds, SetTo
  <1>10. CASE i.cc = "l"
    BY <1>1, <1>10, Zenon DEF Setcc, func_op_setl, Holds, SetTo
  <1>11. CASE i.cc = "le"
    BY <1>1, <1>11, Zenon DEF Setcc, func_op_setle, Holds, SetTo, zf
  <1>12. CASE i.cc = "s"
    BY <1>12, Zenon DEF Setcc, func_op_sets, Holds, SetTo, sf
  <1>13. CASE i.cc = "ns"
    BY <1>13, Zenon DEF Setcc, func_op_setns, Holds, SetTo, sf
  <1>14. CASE i.cc = "o"
    BY <1>14, Zenon DEF Setcc, func_op_seto, Holds, SetTo, of
  <1>15. CASE i.cc = "no"
    BY <1>15, Zenon DEF Setcc, func_op_setno, Holds, SetTo, of
  <1>16. CASE i.cc = "p"
    BY <1>16, Zenon DEF Setcc, func_op_setp, Holds, SetTo, pf
  <1>17. CASE i.cc = "np"
    BY <1>17, Zenon DEF Setcc, func_op_setnp, Holds, SetTo, pf
  <1> QED
    BY <1>2, <1>3, <1>4, <1>5, <1>6, <1>7, <1>8, <1>9, <1>10, <1>11, <1>12, <1>13, <1>14, <1>15, <1>16, <1>17, Zenon DEF Conditions

LEMMA JumpIs == ASSUME NEW i, NEW v, NEW s, i.cc \in Conditions \ {"g"} PROVE Jcc(i, v, s) = Jump(Holds(i.cc, s.f), v, s)
  <1>1. sfof(s) <=> ("SF" \in s.f <=> "OF" \in s.f)
    BY SfOf
  <1>2. CASE i.cc = "e"
    BY <1>2, Zenon DEF Jcc, func_op_je, Holds, Jump, zf
  <1>3. CASE i.cc = "ne"
    BY <1>3, Zenon DEF Jcc, func_op_jne, Holds, Jump, zf
  <1>4. CASE i.cc = "a"
    BY <1>4, Zenon DEF Jcc, func_op_ja, Holds, Jump, cf, zf
  <1>5. CASE i.cc = "ae"
    BY <1>5, Zenon DEF Jcc, func_op_jae, Holds, Jump, cf
  <1>6. CASE i.cc = "b"
    BY <1>6, Zenon DEF Jcc, func_op_jb, Holds, Jump, cf
  <1>7. CASE i.cc = "be"
    BY <1>7, Zenon DEF Jcc, func_op_jbe, Holds, Jump, cf, zf
  <1>8. CASE i.cc = "ge"
    BY <1>1, <1>8, Zenon DEF Jcc, func_op_jge, Holds, Jump
  <1>9. CASE i.cc = "l"
    BY <1>1, <1>9, Zenon DEF Jcc, func_op_jl, Holds, Jump
  <1>10. CASE i.cc = "le"
    BY <1>1, <1>10, Zenon DEF Jcc, func_op_jle, Holds, Jump, zf
  <1>11. CASE i.cc = "s"
    BY <1>11, Zenon DEF Jcc, func_op_js, Holds, Jump, sf
  <1>12. CASE i.cc = "ns"
    BY <1>12, Zenon DEF Jcc, func_op_jns, Holds, Jump, sf
  <1>13. CASE i.cc = "o"
    BY <1>13, Zenon DEF Jcc, func_op_jo, Holds, Jump, of
  <1>14. CASE i.cc = "no"
    BY <1>14, Zenon DEF Jcc, func_op_jno, Holds, Jump, of
  <1>15. CASE i.cc = "p"
    BY <1>15, Zenon DEF Jcc, func_op_jp, Holds, Jump, pf
  <1>16. CASE i.cc = "np"
    BY <1>16, Zenon DEF Jcc, func_op_jnp, Holds, Jump, pf
  <1>17. CASE i.cc = "c"
    BY <1>17, Zenon DEF Jcc, func_op_jc, Holds, Jump, cf
  <1>18. CASE i.cc = "nc"
    BY <1>18, Zenon DEF Jcc, func_op_jnc, Holds, Jump, cf
  <1> QED
    BY <1>2, <1>3, <1>4, <1>5, <1>6, <1>7, <1>8, <1>9, <1>10, <1>11, <1>12, <1>13, <1>14, <1>15, <1>16, <1>17, <1>18, Zenon DEF Conditions

----------------------------------------------------------------------------
(* Moves.                                                                  *)

\* The first operand takes a number, or the part of it that it can hold.
LEMMA Assigned ==
  ASSUME NEW i, Ordinary(i), Straight(i), NEW s \in AllContexts, IsPlace(i.item[1]), NEW x \in Int, NEW y \in Int,
         Fit(x, i.item[1].size) = Fit(y, i.item[1].size),
         Effect(i, s) = Assign(i.item[1], At(i.item[1], s), s, x),
         Dispatch(i, Seen(i, s), s) = Moved(i, Seen(i, s), s, y)
  PROVE  Agree(i, s)
  <1> DEFINE o == i.item[1]
             e == Assign(o, At(o, s), s, x)
  <1>1. At(o, s) \in Int
    BY Operands DEF Ordinary
  <1>2. e \in AllContexts /\ e.ip = s.ip
    BY <1>1, AssignIs
  <1>3. calc_item(i, 1, Seen(i, s), s, y) = Assign(o, At(o, s), s, y)
    BY SeenItem, CalcIs
  <1>4. e = Assign(o, At(o, s), s, y)
    BY <1>1, AssignFits
  <1>5. Dispatch(i, Seen(i, s), s) = Ip(e)
    BY <1>3, <1>4 DEF Moved
  <1> HIDE DEF e
  <1> QED
    BY <1>2, <1>5, MovesOn DEF e

\* The moves, one after the other.
LEMMA Moves_mov ==
  ASSUME NEW i, Formed(i), NEW s \in AllContexts, IsPlace(i.item[1]), i.op = "mov",
         Same(i) \/ (Positive(i.item[2]) /\ Narrower(i))
  PROVE  Agree(i, s)
  <1> DEFINE o == i.item[1]
             v == Seen(i, s)
             x == Value(i.item[2], s)
             y == Var(i.item[2], s)
  <1>1. Ordinary(i) /\ Straight(i)
    BY Zenon DEF Ordinary, Straight, BitOps, Strings
  <1>2. x \in Int /\ y \in Int /\ o.size \in {1, 2, 4}
    BY Operands
  <1>3. Effect(i, s) = Assign(o, At(o, s), s, x)
    BY Zenon DEF Effect, Results, Shifts, Rotates, BitOps, Reads, Strings, Adjusts, At
  <1>4. Dispatch(i, v, s) = Moved(i, v, s, y)
    <2>1. Dispatch(i, v, s) = Moved(i, v, s, v[2].var)
      BY Zenon DEF Dispatch, func_op_mov
    <2> QED
      BY <2>1, SeenItem
  <1>5. Fit(x, o.size) = Fit(y, o.size)
    BY <1>2, Plainly
  <1> HIDE DEF o, v, x, y
  <1> QED
    BY <1>1, <1>2, <1>3, <1>4, <1>5, Assigned DEF o, v

LEMMA Moves_movzx ==
  ASSUME NEW i, Formed(i), NEW s \in AllContexts, IsPlace(i.item[1]), i.op = "movzx", IsPlace(i.item[2])
  PROVE  Agree(i, s)
  <1> DEFINE o == i.item[1]
             v == Seen(i, s)
             x == Value(i.item[2], s)
  <1>1. Ordinary(i) /\ Straight(i)
    BY Zenon DEF Ordinary, Straight, BitOps, Strings
  <1>2. x \in Int /\ Var(i.item[2], s) = x
    BY Operands
  <1>3. Effect(i, s) = Assign(o, At(o, s), s, x)
    BY Zenon DEF Effect, Results, Shifts, Rotates, BitOps, Reads, Strings, Adjusts, At
  <1>4. Dispatch(i, v, s) = Moved(i, v, s, x)
    <2>1. Dispatch(i, v, s) = Moved(i, v, s, v[2].var)
      BY Zenon DEF Dispatch, func_op_movzx
    <2> QED
      BY <1>2, <2>1, SeenItem
  <1> HIDE DEF o, v, x
  <1> QED
    BY <1>1, <1>2, <1>3, <1>4, Assigned DEF o, v

LEMMA Moves_movsx ==
  ASSUME NEW i, Formed(i), NEW s \in AllContexts, IsPlace(i.item[1]), i.op = "movsx", IsPlace(i.item[2]), i.item[2].size \in {1, 2}
  PROVE  Agree(i, s)
  <1> DEFINE o == i.item[1]
             v == Seen(i, s)
             z == i.item[2].size
             y == Signed(Value(i.item[2], s), z)
             x == Fit(y, o.size)
             w == Fit(y, 4)
  <1>1. Ordinary(i) /\ Straight(i)
    BY Zenon DEF Ordinary, Straight, BitOps, Strings
  <1>2. Value(i.item[2], s) \in Int /\ Var(i.item[2], s) = Value(i.item[2], s) /\ o.size \in {1, 2, 4} /\ z \in {1, 2, 4}
    BY Operands
  <1>3. y \in Int
    BY <1>2, SignedIs
  <1>4. Effect(i, s) = Assign(o, At(o, s), s, x)
    BY Zenon DEF Effect, Results, Shifts, Rotates, BitOps, Reads, Strings, Adjusts, At
  <1>5. Dispatch(i, v, s) = Moved(i, v, s, w)
    <2>1. Dispatch(i, v, s) = func_op_movsx(i, v, s)
      BY Zenon DEF Dispatch
    <2>2. v[2].size = z /\ v[2].var = Value(i.item[2], s)
      BY <1>2, SeenItem
    <2>3. CASE z = 1
      <3>1. func_op_movsx(i, v, s) = Moved(i, v, s, Fit(Signed(v[2].var, 1), 4))
        BY <2>2, <2>3, Zenon DEF func_op_movsx
      <3> QED
        BY <2>1, <2>2, <2>3, <3>1
    <2>4. CASE z = 2
      <3>1. v[2].size # 1
        BY <2>2, <2>4
      <3>2. func_op_movsx(i, v, s) = Moved(i, v, s, Fit(Signed(v[2].var, 2), 4))
        BY <2>2, <2>4, <3>1, Zenon DEF func_op_movsx
      <3> QED
        BY <2>1, <2>2, <2>4, <3>2
    <2> QED
      BY <2>3, <2>4
  <1> HIDE DEF y
  <1>6. x \in Int /\ w \in Int
    BY <1>2, <1>3, FitInt
  <1>7. Fit(x, o.size) = Fit(w, o.size)
    <2>1. Fit(x, o.size) = Fit(y, o.size)
      BY <1>2, <1>3, FitFit
    <2>2. Fit(w, o.size) = Fit(y, o.size)
      BY <1>2, <1>3, FitFit
    <2> QED
      BY <2>1, <2>2
  <1> HIDE DEF o, v, x, w
  <1> QED
    BY <1>1, <1>4, <1>5, <1>6, <1>7, Assigned DEF o, v

LEMMA Moves_cmov ==
  ASSUME NEW i, Formed(i), NEW s \in AllContexts, IsPlace(i.item[1]), i.op = "cmov", Same(i), i.cc \in Conditions \ {"c", "nc"}
  PROVE  Agree(i, s)
  <1> DEFINE o == i.item[1]
             v == Seen(i, s)
             x == Value(i.item[2], s)
             y == Var(i.item[2], s)
             c == Holds(i.cc, s.f)
  <1>1. Ordinary(i) /\ Straight(i)
    BY Zenon DEF Ordinary, Straight, BitOps, Strings
  <1>2. x \in Int /\ y \in Int /\ o.size \in {1, 2, 4}
    BY Operands
  <1>3. Effect(i, s) = IF c THEN Assign(o, At(o, s), s, x) ELSE s
    BY Zenon DEF Effect, Results, Shifts, Rotates, BitOps, Reads, Strings, Adjusts, At
  <1>4. Dispatch(i, v, s) = IF c THEN Moved(i, v, s, y) ELSE Ip(s)
    <2>1. Dispatch(i, v, s) = Cmovcc(i, v, s)
      BY Zenon DEF Dispatch
    <2>2. Cmovcc(i, v, s) = IF c THEN Moved(i, v, s, v[2].var) ELSE Ip(s)
      BY CmovIs DEF MovedIf
    <2> QED
      BY <2>1, <2>2, SeenItem
  <1>5. Fit(x, o.size) = Fit(y, o.size)
    BY <1>2, Plainly
  <1> HIDE DEF o, v, x, y, c
  <1>6. CASE c
    BY <1>1, <1>2, <1>3, <1>4, <1>5, <1>6, Assigned DEF o, v
  <1>7. CASE ~c
    BY <1>1, <1>3, <1>4, <1>7, MovesOn DEF v
  <1> QED
    BY <1>6, <1>7

LEMMA Moves_set ==
  ASSUME NEW i, Formed(i), NEW s \in AllContexts, IsPlace(i.item[1]), i.op = "set", i.cc \in Conditions \ {"c", "nc"}
  PROVE  Agree(i, s)
  <1> DEFINE o == i.item[1]
             v == Seen(i, s)
             x == IF Holds(i.cc, s.f) THEN 1 ELSE 0
  <1>1. Ordinary(i) /\ Straight(i)
    BY Zenon DEF Ordinary, Straight, BitOps, Strings
  <1>2. Effect(i, s) = Assign(o, At(o, s), s, x)
    BY Zenon DEF Effect, Results, Shifts, Rotates, BitOps, Reads, Strings, Adjusts, At
  <1>3. Dispatch(i, v, s) = Moved(i, v, s, x)
    <2>1. Dispatch(i, v, s) = Setcc(i, v, s)
      BY Zenon DEF Dispatch
    <2> QED
      BY <2>1, SetIs DEF SetTo
  <1>4. x \in Int
    BY SMT
  <1> HIDE DEF x
  <1> QED
    BY <1>1, <1>2, <1>3, <1>4, Assigned

LEMMA Moves_bswap ==
  ASSUME NEW i, Formed(i), NEW s \in AllContexts, i.op = "bswap", IsReg(i.item[1]), i.item[1].size = 4
  PROVE  Agree(i, s)
  <1> DEFINE o == i.item[1]
             v == Seen(i, s)
             a == Value(o, s)
             byte(j) == Slice(a, j, 1)
             y == ((byte(0) * 2^ByteBits + byte(1)) * 2^ByteBits + byte(2)) * 2^ByteBits + byte(3)
  <1>1. Ordinary(i) /\ Straight(i) /\ IsPlace(o)
    BY Zenon DEF Ordinary, Straight, BitOps, Strings, IsPlace
  <1>2. a \in Int /\ Var(o, s) = a
    BY <1>1, Operands
  <1>3. Effect(i, s) = Assign(o, At(o, s), s, Swapped(a))
    BY Zenon DEF Effect, Results, Shifts, Rotates, BitOps, Reads, Strings, Adjusts, At
  <1>4. Dispatch(i, v, s) = Moved(i, v, s, y)
    <2>1. Dispatch(i, v, s) = func_op_bswap(i, v, s)
      BY Zenon DEF Dispatch
    <2>2. v[1].var = a /\ v[1].size # 2
      BY <1>2, SeenItem
    <2> HIDE DEF v, a
    <2> QED
      BY <2>1, <2>2 DEF func_op_bswap
  <1>5. byte(0) \in Int /\ byte(1) \in Int /\ byte(2) \in Int /\ byte(3) \in Int
    <2>1. \A j \in {0, 1, 2, 3} : byte(j) \in Below(16)
      BY <1>2, SliceByte, Numbered
    <2> QED
      BY <2>1 DEF Below
  <1>6. Swapped(a) = byte(3) * 1 + byte(2) * 16 + byte(1) * 256 + byte(0) * 4096
    <2>1. 3 - 0 = 3 /\ 3 - 1 = 2 /\ 3 - 2 = 1 /\ 3 - 3 = 0
      BY SMT
    <2> HIDE DEF a
    <2> QED
      BY <2>1, Power0, Power1, Power2, Power3 DEF Swapped
  <1>7. y = Swapped(a) /\ y \in Int
    <2>1. 2^ByteBits = 16
      BY SMT DEF ByteBits
    <2> HIDE DEF byte
    <2> QED
      BY <1>5, <1>6, <2>1, SMT
  <1> HIDE DEF y, a, o, v
  <1> QED
    BY <1>1, <1>3, <1>4, <1>7, Assigned DEF o, v

\* Two parts of one size: the same or the two low bytes.
LEMMA PartsOfSize == ASSUME NEW q \in Parts, NEW r \in Parts, PartSize(q) = PartSize(r)
                     PROVE  q = r \/ (q = "l" /\ r = "h") \/ (q = "h" /\ r = "l")
  BY PartSizes DEF Parts

\* The two low bytes of a register can be written in either order.
LEMMA LowAndHigh == ASSUME NEW x \in Word, NEW a \in Int, NEW b \in Int
    PROVE  Splice(Splice(x, 0, 1, a), 1, 1, b) = Splice(Splice(x, 1, 1, b), 0, 1, a)
  <1> DEFINE u == Fit(a, 1)
             q == Fit(b, 1)
             l == x % 16
             h == (x \div 16) % 16
             y == x + (u - l)
             z == x + (q - h) * 16
  <1>1. x \in Int /\ x >= 0 /\ x < 65536
    BY SMT DEF Word, Below
  <1>2. u \in Int /\ u >= 0 /\ u < 16 /\ q \in Int /\ q >= 0 /\ q < 16
    BY FitRange, SMT DEF Below
  <1>3. Splice(x, 0, 1, a) = x + (u - Slice(x, 0, 1)) * 1 /\ Splice(x, 1, 1, b) = x + (q - Slice(x, 1, 1)) * 16
    BY Power0, Power1 DEF Splice
  <1>4. Slice(x, 0, 1) = l /\ Slice(x, 1, 1) = h
    BY <1>1, Slice01, Slice11
  <1>5. l \in Int /\ h \in Int
    BY <1>1, SMT
  <1>6. Splice(x, 0, 1, a) = y /\ Splice(x, 1, 1, b) = z
    <2> HIDE DEF u, q, l, h
    <2> QED
      BY <1>1, <1>2, <1>3, <1>4, <1>5, SMT
  <1>7. y \in Int /\ z \in Int
    <2> HIDE DEF u, q, l, h
    <2> QED
      BY <1>1, <1>2, <1>5, SMT
  <1>8. Splice(y, 1, 1, b) = y + (q - Slice(y, 1, 1)) * 16 /\ Splice(z, 0, 1, a) = z + (u - Slice(z, 0, 1)) * 1
    BY Power0, Power1 DEF Splice
  <1>9. Slice(y, 1, 1) = (y \div 16) % 16 /\ Slice(z, 0, 1) = z % 16
    BY <1>7, Slice01, Slice11
  <1>10. (y \div 16) % 16 = h /\ z % 16 = l
    <2> HIDE DEF u, q
    <2>1. y \div 16 = x \div 16
      BY <1>1, <1>2, SMT
    <2>2. z % 16 = x % 16
      <3>1. h \in Int
        BY <1>5
      <3> HIDE DEF h
      <3> QED
        BY <1>1, <1>2, <3>1, SMT
    <2> QED
      BY <2>1, <2>2
  <1>11. y + (q - h) * 16 = z + (u - l) * 1
    <2> HIDE DEF u, q, l, h
    <2> QED
      BY <1>1, <1>2, <1>5, SMT
  <1> HIDE DEF u, q, l, h, y, z
  <1> QED
    BY <1>6, <1>8, <1>9, <1>10, <1>11

\* Two registers can be written in either order, if they take what the other had.
LEMMA Exchanges ==
  ASSUME NEW s \in AllContexts, NEW o, NEW u, IsPlace(o), IsReg(u), o.size = u.size
  PROVE  Assign(o, At(o, s), Assign(u, 0, s, Value(o, s)), Value(u, s))
           = Assign(u, 0, Assign(o, At(o, s), s, Value(u, s)), Value(o, s))
  <1> DEFINE a == Value(o, s)
             b == Value(u, s)
             at == At(o, s)
             reg == u.def[1]
             q == u.def[2]
  <1>1. reg \in Registers /\ q \in Parts /\ u.size = PartSize(q) /\ u.t = "REG"
    BY DEF IsReg, Parts
  <1>2. a \in Int /\ b \in Int
    <2>1. a \in Nat /\ b \in Nat
      BY ValueIs DEF Operand1, IsPlace
    <2> QED
      BY <2>1
  <1>3. b = GetPart(s.r[reg], q)
    BY <1>1, Zenon DEF Value
  <1>4. /\ s.r \in [Registers -> Word] /\ s.mem \in [0..MemSize - 1 -> NumbersOf(1)]
        /\ s = [ok |-> s.ok, ip |-> s.ip, f |-> s.f, r |-> s.r, mem |-> s.mem]
    BY ContextFields
  <1>5. CASE IsReg(o)
    <2> DEFINE reg2 == o.def[1]
               q2 == o.def[2]
               x == s.r[reg]
    <2>1. reg2 \in Registers /\ q2 \in Parts /\ o.size = PartSize(q2) /\ o.t = "REG"
      BY <1>5 DEF IsReg, Parts
    <2>2. a = GetPart(s.r[reg2], q2)
      BY <2>1, Zenon DEF Value
    <2>3. Assign(o, at, Assign(u, 0, s, a), b) =
            [s EXCEPT !.r = [[s.r EXCEPT ![reg] = SetPart(s.r[reg], q, a)] EXCEPT ![reg2] = SetPart(@, q2, b)]]
      <3> HIDE DEF a, b, at
      <3> QED
        BY <1>1, <1>4, <2>1 DEF Assign
    <2>4. Assign(u, 0, Assign(o, at, s, b), a) =
            [s EXCEPT !.r = [[s.r EXCEPT ![reg2] = SetPart(s.r[reg2], q2, b)] EXCEPT ![reg] = SetPart(@, q, a)]]
      <3> HIDE DEF a, b, at
      <3> QED
        BY <1>1, <1>4, <2>1 DEF Assign
    <2>5. CASE reg # reg2
      <3>1. [[s.r EXCEPT ![reg] = SetPart(s.r[reg], q, a)] EXCEPT ![reg2] = SetPart(@, q2, b)]
              = [[s.r EXCEPT ![reg2] = SetPart(s.r[reg2], q2, b)] EXCEPT ![reg] = SetPart(@, q, a)]
        <4> HIDE DEF a, b
        <4> QED
          BY <1>1, <1>4, <2>1, <2>5
      <3> QED
        BY <2>3, <2>4, <3>1
    <2>6. CASE reg = reg2
      <3>1. SetPart(SetPart(x, q, a), q2, b) = SetPart(SetPart(x, q2, b), q, a)
        <4>1. x \in Word
          BY <1>1, <1>4
        <4>2. CASE q = q2
          BY <1>3, <2>2, <2>6, <4>2
        <4>3. CASE q = "l" /\ q2 = "h"
          <5>1. \A z, y : SetPart(z, "l", y) = Splice(z, 0, 1, y) /\ SetPart(z, "h", y) = Splice(z, 1, 1, y)
            BY PartSizes DEF SetPart, Place
          <5> HIDE DEF a, b, x
          <5> QED
            BY <1>2, <4>1, <4>3, <5>1, LowAndHigh
        <4>4. CASE q = "h" /\ q2 = "l"
          <5>1. \A z, y : SetPart(z, "l", y) = Splice(z, 0, 1, y) /\ SetPart(z, "h", y) = Splice(z, 1, 1, y)
            BY PartSizes DEF SetPart, Place
          <5> HIDE DEF a, b, x
          <5> QED
            BY <1>2, <4>1, <4>4, <5>1, LowAndHigh
        <4> QED
          BY <1>1, <2>1, <4>2, <4>3, <4>4, PartsOfSize
      <3>2. [[s.r EXCEPT ![reg] = SetPart(s.r[reg], q, a)] EXCEPT ![reg2] = SetPart(@, q2, b)]
              = [s.r EXCEPT ![reg] = SetPart(SetPart(x, q, a), q2, b)]
        <4> HIDE DEF a, b
        <4> QED
          BY <1>1, <1>4, <2>6
      <3>3. [[s.r EXCEPT ![reg2] = SetPart(s.r[reg2], q2, b)] EXCEPT ![reg] = SetPart(@, q, a)]
              = [s.r EXCEPT ![reg] = SetPart(SetPart(x, q2, b), q, a)]
        <4> HIDE DEF a, b
        <4> QED
          BY <1>1, <1>4, <2>6
      <3> QED
        BY <2>3, <2>4, <3>1, <3>2, <3>3
    <2> QED
      BY <2>5, <2>6
  <1>6. CASE IsMem(o)
    <2>1. o.t # "REG"
      BY <1>6, Kinds
    <2> HIDE DEF a, b, at
    <2> QED
      BY <1>1, <1>4, <2>1 DEF Assign, Store, Touch
  <1> QED
    BY <1>5, <1>6 DEF IsPlace

LEMMA Moves_xchg ==
  ASSUME NEW i, Formed(i), NEW s \in AllContexts, i.op = "xchg", IsPlace(i.item[1]), IsReg(i.item[2]), Same(i)
  PROVE  Agree(i, s)
  <1> DEFINE o == i.item[1]
             u == i.item[2]
             v == Seen(i, s)
             a == Value(o, s)
             b == Value(u, s)
             t == Assign(u, 0, s, a)
             e == Assign(o, At(o, s), t, b)
  <1>1. Ordinary(i) /\ Straight(i)
    BY Zenon DEF Ordinary, Straight, BitOps, Strings
  <1>2. IsPlace(u) /\ At(u, s) = 0
    BY Kinds DEF IsPlace, At
  <1>3. a \in Int /\ b \in Int /\ Var(o, s) = a /\ Var(u, s) = b /\ At(o, s) \in Int
    BY <1>2, Operands
  <1>4. Effect(i, s) = e
    BY Zenon DEF Effect, Results, Shifts, Rotates, BitOps, Reads, Strings, Adjusts, At
  <1>5. e = Assign(u, 0, Assign(o, At(o, s), s, b), a)
    BY Exchanges DEF Same
  <1>6. Dispatch(i, v, s) = Ip(e)
    <2>1. Dispatch(i, v, s) = Ip(calc_item(i, 2, v, calc_item(i, 1, v, s, v[2].var), v[1].var))
      BY Zenon DEF Dispatch, func_op_xchg
    <2>2. /\ v[1].var = a /\ v[1].addr = At(o, s) /\ v[1].size = o.size
          /\ v[2].var = b /\ v[2].addr = 0 /\ v[2].size = u.size
      BY <1>2, <1>3, SeenItem
    <2>3. calc_item(i, 1, v, s, b) = Assign(o, At(o, s), s, b)
      BY <2>2, CalcIs
    <2>4. calc_item(i, 2, v, Assign(o, At(o, s), s, b), a) = Assign(u, 0, Assign(o, At(o, s), s, b), a)
      BY <1>2, <2>2, CalcIs
    <2> HIDE DEF v, a, b, e
    <2> QED
      BY <1>5, <2>1, <2>2, <2>3, <2>4
  <1>7. e \in AllContexts /\ e.ip = s.ip
    <2>1. t \in AllContexts /\ t.ip = s.ip
      <3>1. 0 \in Int
        BY SMT
      <3> QED
        BY <1>2, <1>3, <3>1, AssignIs
    <2> HIDE DEF t
    <2> QED
      BY <1>3, <2>1, AssignIs
  <1> HIDE DEF e, v
  <1> QED
    BY <1>1, <1>4, <1>6, <1>7, MovesOn DEF v

LEMMA Moves_lea ==
  ASSUME NEW i, Formed(i), NEW s \in AllContexts, i.op = "lea", IsReg(i.item[1]), IsMem(i.item[2]), i.item[2].seg = 0
  PROVE  Agree(i, s)
  <1> DEFINE o == i.item[1]
             x == Fit(Offset(i.item[2], s), 4)
             v == [n \in 1..3 |-> conv_item(i, n, s)]
             e == Assign(o, 0, s, x)
  <1>0. x = Address(i.item[2], s)
    <2>1. Offset(i.item[2], s) + i.item[2].seg = Offset(i.item[2], s)
      BY AddressIs
    <2> QED
      BY <2>1 DEF Address
  <1>1. Straight(i) /\ ~Faults(i, s) /\ IsPlace(o)
    BY Zenon DEF Straight, Faults, IsPlace
  <1>2. \A n \in 1..3 : v[n].ok
    <2>1. ASSUME NEW n \in 1..3 PROVE conv_item(i, n, s).ok
      BY DEF conv_item
    <2> QED
      BY <2>1
  <1>3. v[1].size = o.size /\ v[1].addr = 0
    <2>1. o.t = "REG"
      BY DEF IsReg
    <2> QED
      BY <2>1 DEF conv_item
  <1>4. v[2].addr = x
    <2>1. i.item[2].t \notin {"none", "IMM", "REG"}
      BY Kinds
    <2>2. x = Fit(Displaced(s.r[i.item[2].def[1]], i.item[2].k) + 0 + Index(i.item[2], s), 4)
      BY <1>0, AddressIs
    <2>3. conv_item(i, 2, s).addr = Fit(Displaced(s.r[i.item[2].def[1]], i.item[2].k) + 0 + Index(i.item[2], s), 4)
      BY <2>1 DEF conv_item, Index
    <2> HIDE DEF x
    <2> QED
      BY <2>2, <2>3
  <1>5. x \in Int
    <2>1. x \in Word
      BY <1>0, AddressIs
    <2> QED
      BY <2>1, Words
  <1>6. Effect(i, s) = e
    <2>1. ~InMemory(o)
      BY Kinds
    <2> QED
      BY <2>1, Zenon DEF Effect, Results, Shifts, Rotates, BitOps, Reads, Strings, Adjusts
  <1>7. e \in AllContexts /\ e.ip = s.ip
    <2>1. 0 \in Int
      BY SMT
    <2> QED
      BY <1>1, <1>5, <2>1, AssignIs
  <1>8. Dispatch(i, v, s) = Ip(e)
    <2>1. Dispatch(i, v, s) = Ip(calc_item(i, 1, v, s, v[2].addr))
      BY Zenon DEF Dispatch, func_op_lea, Moved
    <2>2. calc_item(i, 1, v, s, x) = e
      BY <1>1, <1>3, CalcIs
    <2> HIDE DEF v, x, e
    <2> QED
      BY <1>4, <2>1, <2>2
  <1> HIDE DEF e
  <1>9. Goes(i, s, Effect(i, s), Dispatch(i, v, s))
    BY <1>1, <1>6, <1>7, <1>8, IpIs DEF Goes
  <1>10. Target(i, s) \in Nat
    BY <1>1, NextIs
  <1> QED
    BY <1>1, <1>2, <1>6, <1>7, <1>9, <1>10, Framed

\* A push takes every constant for one of four bytes.
LEMMA ConvPush ==
  ASSUME NEW s \in AllContexts, NEW i, NEW n \in 1..3, Operand1(i.item[n]), i.op = "push"
  PROVE  LET o == i.item[n]
         IN  conv_item(i, n, s) = [ok |-> Here(o, s), var |-> Var(o, s), addr |-> At(o, s),
                                   size |-> IF o.t = "IMM" THEN 4 ELSE o.size]
  <1> DEFINE o == i.item[n]
             y == IF o.t = "IMM" THEN 4 ELSE o.size
  <1>1. CASE o = NoItem
    <2>1. conv_item(i, n, s) = [ok |-> TRUE, var |-> 0, addr |-> 0, size |-> 0]
      BY <1>1, Kinds, Zenon DEF conv_item
    <2> QED
      BY <1>1, <2>1, Kinds, ValueIs DEF Here, Var, At, Operand1
  <1>2. CASE IsImm(o)
    <2>1. conv_item(i, n, s) = [ok |-> TRUE, var |-> o.k, addr |-> 0, size |-> 4]
      BY <1>2, Kinds, Zenon DEF conv_item
    <2> QED
      BY <1>2, <2>1, Kinds DEF Here, Var, At
  <1>3. CASE IsReg(o)
    <2>1. conv_item(i, n, s) = [ok |-> TRUE, var |-> GetPart(s.r[o.def[1]], o.def[2]), addr |-> 0, size |-> o.size]
      BY <1>3, Kinds, Zenon DEF conv_item
    <2>2. Value(o, s) = GetPart(s.r[o.def[1]], o.def[2])
      BY <1>3, Kinds DEF Value
    <2> QED
      BY <1>3, <2>1, <2>2, Kinds DEF Here, Var, At
  <1>4. CASE IsMem(o)
    <2> DEFINE at == Fit(Displaced(s.r[o.def[1]], o.k) + 0 + Index(o, s), 4)
    <2>1. conv_item(i, n, s) = [ok |-> xx_read_fmem(s, at, o.size).ok, var |-> xx_read_fmem(s, at, o.size).var,
                                addr |-> at, size |-> o.size]
      BY <1>4, Kinds, Zenon DEF conv_item, Index
    <2>2. at = Address(o, s)
      BY <1>4, AddressIs
    <2> HIDE DEF at
    <2>3. Value(o, s) = IF Readable(Address(o, s), o.size) THEN Load(s, Address(o, s), o.size) ELSE 0
      BY <1>4, Kinds, Zenon DEF Value
    <2>4. /\ xx_read_fmem(s, at, o.size).ok = Readable(Address(o, s), o.size)
          /\ xx_read_fmem(s, at, o.size).var = Value(o, s)
      BY <2>2, <2>3 DEF xx_read_fmem
    <2>5. Here(o, s) = Readable(Address(o, s), o.size)
      BY <1>4, Kinds DEF Here, Readable
    <2> QED
      BY <1>4, <2>1, <2>2, <2>4, <2>5, Kinds DEF Var, At
  <1> QED
    BY <1>1, <1>2, <1>3, <1>4 DEF Operand1, IsPlace

LEMMA Moves_push ==
  ASSUME NEW i, Formed(i), NEW s \in AllContexts, i.op = "push",
         IsPlace(i.item[1]) \/ Positive(i.item[1]) \/ (IsImm(i.item[1]) /\ i.item[1].size = 4)
  PROVE  Agree(i, s)
  <1> DEFINE o == i.item[1]
             v == [n \in 1..3 |-> conv_item(i, n, s)]
             a == Value(o, s)
             y == Var(o, s)
             z == IF o.t = "IMM" THEN 4 ELSE o.size
             e == Push(s, a, z)
  <1>1. Straight(i) /\ (Faults(i, s) <=> ~AllHere(i, s))
    BY Zenon DEF Straight, Faults, AllHere, Here, BitOps, Strings
  <1>2. \A n \in 1..3 : v[n].ok = Here(i.item[n], s)
    BY ConvPush DEF Formed, Operand1
  <1>3. v[1].var = y /\ v[1].size = z
    BY ConvPush DEF Formed, Operand1
  <1>4. a \in Int /\ y \in Int
    BY Operands
  <1>5. z \in {1, 2, 4}
    BY SizesOf DEF Positive
  <1>6. Effect(i, s) = e
    BY Zenon DEF Effect, Results, Shifts, Rotates, BitOps, Reads, Strings, Adjusts
  <1>7. Push(s, y, z) = e
    <2>1. CASE IsPlace(o)
      <3>1. a = y
        BY <2>1, Operands
      <3> QED
        BY <3>1
    <2>2. CASE IsImm(o)
      <3>1. o.t = "IMM" /\ z = 4 /\ y = o.k
        BY <2>2, Kinds DEF Var
      <3>2. Fit(a, 4) = Fit(y, 4)
        <4>1. CASE Positive(o)
          <5>1. a = Fit(y, 4)
            BY <3>1, <4>1, PositiveIs
          <5> HIDE DEF a, y
          <5> QED
            BY <1>4, <5>1, FitFit
        <4>2. CASE o.size = 4
          <5>1. a = Fit(Signed(o.k, 4), 4) /\ o.k \in NumbersOf(4)
            BY <2>2, <4>2, ValueIs DEF Operand1, IsImm
          <5>2. a = y
            BY <3>1, <5>1, FitSigned
          <5> QED
            BY <5>2
        <4> QED
          BY <2>2, <4>1, <4>2, Kinds DEF IsPlace
      <3>3. \A t \in AllContexts : Store(t, t.r["esp"], a, 4) = Store(t, t.r["esp"], y, 4)
        <4>1. ASSUME NEW t \in AllContexts PROVE t.r["esp"] \in Int
          BY ContextFields, Words DEF Registers
        <4> HIDE DEF a, y
        <4> QED
          BY <1>4, <3>2, <4>1, StoreFits
      <3>4. Put(s, "esp", s.r["esp"] - 4) \in AllContexts
        <4>1. s.r["esp"] - 4 \in Int /\ "esp" \in Registers
          BY ContextFields, Words DEF Registers
        <4> QED
          BY <4>1, PutIs
      <3> HIDE DEF a, y, z
      <3> QED
        BY <3>1, <3>3, <3>4 DEF Push
    <2> QED
      BY <2>1, <2>2 DEF Positive
  <1>8. Pushed(s, y, z) = e /\ e \in AllContexts /\ e.ip = s.ip
    <2> HIDE DEF a, y, z
    <2> QED
      BY <1>4, <1>5, <1>7, PushIs
  <1>9. Dispatch(i, v, s) = Ip(e)
    <2>1. Dispatch(i, v, s) = Ip(Pushed(s, v[1].var, v[1].size))
      BY Zenon DEF Dispatch, func_op_push
    <2> HIDE DEF v, e, y, z
    <2> QED
      BY <1>3, <1>8, <2>1
  <1>10. (\A n \in 1..3 : v[n].ok) <=> AllHere(i, s)
    BY <1>2 DEF AllHere
  <1> HIDE DEF e
  <1>11. Goes(i, s, Effect(i, s), Dispatch(i, v, s))
    BY <1>1, <1>6, <1>8, <1>9, IpIs DEF Goes
  <1>12. Target(i, s) \in Nat
    BY <1>1, NextIs
  <1> QED
    BY <1>1, <1>6, <1>8, <1>10, <1>11, <1>12, Framed

LEMMA AssignOkAt == ASSUME NEW s \in AllContexts, NEW o, IsPlace(o), NEW a \in Int, NEW x \in Int
    PROVE  Assign(o, a, s, x).ok = (s.ok /\ (InMemory(o) => Readable(a, o.size)))
  <1>1. CASE IsReg(o)
    <2>1. o.def[1] \in Registers /\ o.def[2] \in Parts /\ o.t = "REG" /\ ~InMemory(o)
      BY <1>1, Kinds DEF IsReg, Parts
    <2>2. SetPart(s.r[o.def[1]], o.def[2], x) \in Word
      BY <2>1, ContextFields, SetParts
    <2>3. Assign(o, a, s, x) = [s EXCEPT !.r[o.def[1]] = SetPart(s.r[o.def[1]], o.def[2], x)]
      BY <2>1 DEF Assign
    <2> QED
      BY <2>1, <2>2, <2>3, RegIs, ContextFields
  <1>2. CASE IsMem(o)
    <2>1. o.t # "REG" /\ InMemory(o) /\ o.size \in {1, 2, 4}
      BY <1>2, Kinds DEF IsMem
    <2>2. Assign(o, a, s, x) = Store(s, a, x, o.size)
      BY <2>1 DEF Assign
    <2> QED
      BY <2>1, <2>2, StoreIs
  <1> QED
    BY <1>1, <1>2 DEF IsPlace

LEMMA FitAdd == ASSUME NEW x \in Int, NEW y \in Int PROVE Fit(Fit(x, 4) + y, 4) = Fit(x + y, 4)
  <1>1. Fit(x, 4) = x % 65536
    BY Fit4
  <1>2. (x % 65536) + y \in Int /\ x + y \in Int
    BY SMT
  <1>3. Fit(Fit(x, 4) + y, 4) = ((x % 65536) + y) % 65536 /\ Fit(x + y, 4) = (x + y) % 65536
    BY <1>1, <1>2, Fit4
  <1>4. ((x % 65536) + y) % 65536 = (x + y) % 65536
    BY SMT
  <1> QED
    BY <1>3, <1>4

\* The address of the operand of a pop, once the stack has moved.
LEMMA PopAddress ==
  ASSUME NEW s \in AllContexts, NEW o, IsMem(o), NEW z \in Nat
  PROVE  LET t == Put(s, "esp", s.r["esp"] + z)
         IN  Address(o, t) = Fit(Displaced(s.r[o.def[1]], o.k) + (IF o.def[1] = "esp" THEN z ELSE 0) + Index(o, s), 4)
  <1> DEFINE t == Put(s, "esp", s.r["esp"] + z)
             b == s.r[o.def[1]]
             k == Signed(o.k, 1)
             x == Index(o, s)
  <1>1. s.r["esp"] + z \in Int /\ "esp" \in Registers /\ o.def[1] \in Registers
    BY ContextFields, Words DEF Registers, IsMem
  <1>2. t \in AllContexts /\ t.r = [s.r EXCEPT !["esp"] = Fit(s.r["esp"] + z, 4)]
    BY <1>1, PutIs
  <1>3. Address(o, t) = Fit(Displaced(t.r[o.def[1]], o.k) + 0 + Index(o, t), 4) /\ t.r[o.def[1]] \in Int
    BY <1>2, AddressIs
  <1>4. Index(o, t) = x
    <2>1. o.idx = None \/ o.idx[1] \in Registers \ {"esp"}
      BY DEF IsMem
    <2>2. o.idx = None \/ t.r[o.idx[1]] = s.r[o.idx[1]]
      <3> HIDE DEF t
      <3> QED
        BY <1>2, <2>1, ContextFields
    <2> HIDE DEF t
    <2> QED
      BY <2>2 DEF Index
  <1>5. x \in Int /\ b \in Int /\ o.k \in NumbersOf(1)
    BY AddressIs DEF IsMem
  <1>6. k \in Int /\ Displaced(b, o.k) = b + k /\ Displaced(t.r[o.def[1]], o.k) = t.r[o.def[1]] + k
    BY <1>3, <1>5, DisplacedIs
  <1>7. CASE o.def[1] = "esp"
    <2>1. t.r[o.def[1]] = Fit(b + z, 4)
      <3> HIDE DEF t
      <3> QED
        BY <1>1, <1>2, <1>7, ContextFields
    <2>2. b + z \in Int /\ k + x \in Int /\ Fit(b + z, 4) \in Int
      BY <1>5, <1>6, FitInt
    <2> HIDE DEF t, b, k, x
    <2>3. Address(o, t) = Fit(Fit(b + z, 4) + (k + x), 4)
      <3>1. (Fit(b + z, 4) + k) + 0 + x = Fit(b + z, 4) + (k + x)
        BY <1>5, <1>6, <2>2
      <3> QED
        BY <1>3, <1>4, <1>6, <2>1, <3>1
    <2>4. Address(o, t) = Fit((b + z) + (k + x), 4)
      BY <2>2, <2>3, FitAdd
    <2>5. (b + z) + (k + x) = (b + k) + z + x
      BY <1>5, <1>6
    <2> QED
      BY <1>6, <1>7, <2>4, <2>5 DEF t, b, k, x
  <1>8. CASE o.def[1] # "esp"
    <2>1. t.r[o.def[1]] = b
      <3> HIDE DEF t
      <3> QED
        BY <1>1, <1>2, <1>8, ContextFields
    <2> HIDE DEF t, b
    <2> QED
      BY <1>3, <1>4, <1>8, <2>1 DEF t, b
  <1> QED
    BY <1>7, <1>8

\* What a pop sees of its operand.
LEMMA ConvPop ==
  ASSUME NEW s \in AllContexts, NEW i, IsPlace(i.item[1]), i.op = "pop"
  PROVE  LET o == i.item[1]
             t == Put(s, "esp", s.r["esp"] + o.size)
             c == conv_item(i, 1, s)
         IN  /\ c.size = o.size /\ c.ok \in BOOLEAN
             /\ c.addr = (IF InMemory(o) THEN Address(o, t) ELSE 0)
             /\ c.ok <=> (InMemory(o) => Readable(c.addr, o.size))
  <1> DEFINE o == i.item[1]
             t == Put(s, "esp", s.r["esp"] + o.size)
             at == Fit(Displaced(s.r[o.def[1]], o.k) + (IF o.def[1] = "esp" THEN o.size ELSE 0) + Index(o, s), 4)
             c == conv_item(i, 1, s)
  <1>1. CASE IsReg(o)
    <2>1. o.t = "REG" /\ ~InMemory(o)
      BY <1>1, Kinds
    <2>2. c = [ok |-> TRUE, var |-> GetPart(s.r[o.def[1]], o.def[2]), addr |-> 0, size |-> o.size]
      BY <2>1, Zenon DEF conv_item
    <2> HIDE DEF c
    <2>3. c.size = o.size /\ c.ok = TRUE /\ c.addr = 0
      BY <2>2
    <2> HIDE DEF t, at
    <2> QED
      BY <2>1, <2>3 DEF c, t
  <1>2. CASE IsMem(o)
    <2>1. o.t \notin {"none", "IMM", "REG"} /\ InMemory(o)
      BY <1>2, Kinds
    <2>2. c = [ok |-> xx_read_fmem(s, at, o.size).ok, var |-> xx_read_fmem(s, at, o.size).var, addr |-> at, size |-> o.size]
      BY <2>1, Zenon DEF conv_item, Index
    <2>3. xx_read_fmem(s, at, o.size).ok = Readable(at, o.size) /\ Readable(at, o.size) \in BOOLEAN
      BY DEF xx_read_fmem, Readable
    <2>4. o.size \in Nat
      BY <1>2, SMT DEF IsMem
    <2>5. Address(o, t) = at
      BY <1>2, <2>4, PopAddress
    <2> HIDE DEF c, at, t
    <2> QED
      BY <2>1, <2>2, <2>3, <2>5 DEF c, t
  <1> QED
    BY <1>1, <1>2 DEF IsPlace

LEMMA Moves_pop ==
  ASSUME NEW i, Formed(i), NEW s \in AllContexts, i.op = "pop", IsPlace(i.item[1]), i.item[2] = NoItem, i.item[3] = NoItem
  PROVE  Agree(i, s)
  <1> DEFINE o == i.item[1]
             z == o.size
             v == [n \in 1..3 |-> conv_item(i, n, s)]
             c == conv_item(i, 1, s)
             sp == s.r["esp"]
             p1 == Pop(s, z)
             t == Put(s, "esp", sp + z)
             x == Top(s, z)
             a == IF InMemory(o) THEN Address(o, p1) ELSE 0
             e == Assign(o, a, p1, x)
             d == Dispatch(i, v, s)
  <1>1. Straight(i) /\ ~Faults(i, s)
    BY Zenon DEF Straight, Faults
  <1>2. z \in {1, 2, 4}
    BY SizesOf
  <1>3. /\ sp \in Nat /\ sp + z \in Int /\ "esp" \in Registers
        /\ p1 \in AllContexts /\ p1.ip = s.ip
        /\ Readable(sp, z) => p1 = t /\ x = Load(s, sp, z)
        /\ ~Readable(sp, z) => ~p1.ok
        /\ x \in Nat
    BY <1>2, PopIs
  <1>4. Effect(i, s) = e
    BY Zenon DEF Effect, Results, Shifts, Rotates, BitOps, Reads, Strings, Adjusts, PopTo
  <1>5. x \in Int /\ a \in Int
    <2>1. \A u \in AllContexts : IsMem(o) => Address(o, u) \in Int
      BY AddressIs, Words
    <2>2. InMemory(o) => IsMem(o)
      BY Kinds DEF IsPlace
    <2>3. 0 \in Int
      BY SMT
    <2> HIDE DEF p1, x
    <2> QED
      BY <1>3, <2>1, <2>2, <2>3
  <1>6. e \in AllContexts /\ e.ip = s.ip /\ e.ok = (p1.ok /\ (InMemory(o) => Readable(a, z)))
    <2> HIDE DEF p1, x, a
    <2> QED
      BY <1>3, <1>5, AssignIs, AssignOkAt
  <1>7. /\ c.size = z /\ c.ok \in BOOLEAN
        /\ c.addr = (IF InMemory(o) THEN Address(o, t) ELSE 0)
        /\ c.ok <=> (InMemory(o) => Readable(c.addr, z))
    BY ConvPop
  <1>8. (\A n \in 1..3 : v[n].ok) <=> c.ok
    <2>1. conv_item(i, 2, s).ok /\ conv_item(i, 3, s).ok
      BY Kinds DEF conv_item
    <2>2. v[1].ok = c.ok /\ v[2].ok /\ v[3].ok
      BY <2>1
    <2> HIDE DEF v, c
    <2> QED
      BY <1>7, <2>2
  <1>9. d = IF Readable(sp, z) THEN Ip(calc_item(i, 1, v, Put(s, "esp", sp + z), Load(s, sp, z))) ELSE Stopped(s)
    <2>1. d = func_op_pop(i, v, s)
      BY Zenon DEF Dispatch
    <2>2. v[1].size = z
      BY <1>7
    <2> HIDE DEF d, v
    <2> QED
      BY <2>1, <2>2 DEF func_op_pop, Reads1, xx_read_fmem, Reg4
  <1>10. calc_item(i, 1, v, t, x) = Assign(o, c.addr, t, x)
    <2>1. v[1].size = z /\ v[1].addr = c.addr
      BY <1>7
    <2> HIDE DEF v, c, t, x
    <2> QED
      BY <2>1, CalcIs
  <1>11. Target(i, s) \in Nat
    BY <1>1, NextIs
  <1>12. CASE Readable(sp, z)
    <2>1. c.addr = a /\ d = Ip(e) /\ (~c.ok => ~e.ok)
      <3> HIDE DEF c, d, v, sp, t, x
      <3>1. p1 = t /\ x = Load(s, sp, z) /\ t = Put(s, "esp", sp + z)
        BY <1>3, <1>12 DEF t
      <3> HIDE DEF p1
      <3> QED
        BY <1>6, <1>7, <1>9, <1>10, <1>12, <3>1
    <2> HIDE DEF c, d, e, v
    <2>2. Goes(i, s, Effect(i, s), d)
      BY <1>1, <1>4, <1>6, <2>1, IpIs DEF Goes
    <2> QED
      BY <1>1, <1>4, <1>6, <1>7, <1>8, <1>11, <2>1, <2>2, Framed DEF d, v
  <1>13. CASE ~Readable(sp, z)
    <2>1. ~e.ok /\ ~d.ok
      BY <1>3, <1>6, <1>9, <1>13, StoppedIs
    <2> HIDE DEF c, d, e, v
    <2>2. Goes(i, s, Effect(i, s), d)
      BY <1>4, <2>1 DEF Goes
    <2> QED
      BY <1>1, <1>4, <1>6, <1>7, <1>8, <1>11, <2>1, <2>2, Framed DEF d, v
  <1> QED
    BY <1>12, <1>13

----------------------------------------------------------------------------
(* Jumps.                                                                  *)

LEMMA Jumped ==
  ASSUME NEW i, Ordinary(i), NEW s \in AllContexts, NEW e \in AllContexts, NEW to \in Nat, Target(i, s) = to, Effect(i, s) = e,
         Dispatch(i, Seen(i, s), s) = [e EXCEPT !.ip = to]
  PROVE  Agree(i, s)
  <1>1. Goes(i, s, Effect(i, s), Dispatch(i, Seen(i, s), s))
    BY DEF Goes
  <1> QED
    BY <1>1, Ordinarily

\* A target that is a constant.
LEMMA Targets == ASSUME NEW o, IsImm(o), o.size = 4, NEW s \in AllContexts
                 PROVE  Value(o, s) = Var(o, s) /\ Value(o, s) \in Nat
  <1>1. Value(o, s) = Fit(Signed(o.k, 4), 4) /\ o.k \in NumbersOf(4) /\ Value(o, s) \in Nat
    BY ValueIs DEF Operand1, IsImm
  <1>2. Var(o, s) = o.k
    BY Kinds DEF Var
  <1> QED
    BY <1>1, <1>2, FitSigned

\* A jump on a condition, from a context that has counted or not.
LEMMA JumpsOn ==
  ASSUME NEW i, Ordinary(i), NEW s \in AllContexts, IsImm(i.item[1]), i.item[1].size = 4,
         NEW e \in AllContexts, e.ip = s.ip, NEW c, Effect(i, s) = e,
         Target(i, s) = IF c THEN Value(i.item[1], s) ELSE s.ip + 1,
         Dispatch(i, Seen(i, s), s) = Jump(c, Seen(i, s), e)
  PROVE  Agree(i, s)
  <1> DEFINE v == Seen(i, s)
             to == Target(i, s)
  <1>1. v[1].size = 4 /\ v[1].var = Value(i.item[1], s) /\ Value(i.item[1], s) \in Nat
    BY SeenItem, Targets
  <1>2. to \in Nat
    BY <1>1, ContextFields
  <1>3. Jump(c, v, e) = IF c THEN [e EXCEPT !.ip = v[1].var] ELSE [e EXCEPT !.ip = e.ip + 1]
    <2> HIDE DEF v
    <2> QED
      BY <1>1 DEF Jump, Near, Ip
  <1>4. Jump(c, v, e) = [e EXCEPT !.ip = to]
    <2> HIDE DEF v
    <2> QED
      BY <1>1, <1>3
  <1> HIDE DEF v
  <1> QED
    BY <1>2, <1>4, Jumped DEF v

\* The jumps, one after the other.
LEMMA Goes_j ==
  ASSUME NEW i, Formed(i), NEW s \in AllContexts, i.op = "j", IsImm(i.item[1]), i.item[1].size = 4, i.cc \in Conditions \ {"g"}
  PROVE  Agree(i, s)
  <1> DEFINE c == Holds(i.cc, s.f)
  <1>1. Ordinary(i)
    BY Zenon DEF Ordinary, BitOps, Strings
  <1>2. Effect(i, s) = s
    BY Zenon DEF Effect, Results, Shifts, Rotates, BitOps, Reads, Strings, Adjusts
  <1>3. Target(i, s) = IF c THEN Value(i.item[1], s) ELSE s.ip + 1
    BY Zenon DEF Target
  <1>4. Dispatch(i, Seen(i, s), s) = Jump(c, Seen(i, s), s)
    <2>1. Dispatch(i, Seen(i, s), s) = Jcc(i, Seen(i, s), s)
      BY Zenon DEF Dispatch
    <2> QED
      BY <2>1, JumpIs
  <1> HIDE DEF c
  <1> QED
    BY <1>1, <1>2, <1>3, <1>4, JumpsOn

LEMMA Goes_jecxz ==
  ASSUME NEW i, Formed(i), NEW s \in AllContexts, i.op = "jecxz", IsImm(i.item[1]), i.item[1].size = 4
  PROVE  Agree(i, s)
  <1> DEFINE c == s.r["ecx"] = 0
  <1>1. Ordinary(i)
    BY Zenon DEF Ordinary, BitOps, Strings
  <1>2. Effect(i, s) = s
    BY Zenon DEF Effect, Results, Shifts, Rotates, BitOps, Reads, Strings, Adjusts
  <1>3. Target(i, s) = IF c THEN Value(i.item[1], s) ELSE s.ip + 1
    BY Zenon DEF Target
  <1>4. Dispatch(i, Seen(i, s), s) = Jump(c, Seen(i, s), s)
    BY Zenon DEF Dispatch, func_op_jecxz
  <1> HIDE DEF c
  <1> QED
    BY <1>1, <1>2, <1>3, <1>4, JumpsOn

LEMMA Goes_loop ==
  ASSUME NEW i, Formed(i), NEW s \in AllContexts, i.op \in {"loop", "loope", "loopne"}, IsImm(i.item[1]), i.item[1].size = 4
  PROVE  Agree(i, s)
  <1> DEFINE v == Seen(i, s)
             e == Put(s, "ecx", s.r["ecx"] - 1)
             more == Fit(s.r["ecx"] - 1, 4) # 0
  <1>1. Ordinary(i)
    BY Zenon DEF Ordinary, BitOps, Strings
  <1>2. Effect(i, s) = e
    BY Zenon DEF Effect, Results, Shifts, Rotates, BitOps, Reads, Strings, Adjusts
  <1>3. e \in AllContexts /\ e.ip = s.ip /\ e.r["ecx"] = Fit(s.r["ecx"] - 1, 4)
    <2>1. s.r["ecx"] - 1 \in Int /\ "ecx" \in Registers /\ s.r \in [Registers -> Word]
      BY ContextFields, Words DEF Registers
    <2>2. e \in AllContexts /\ e.ip = s.ip /\ e.r = [s.r EXCEPT !["ecx"] = Fit(s.r["ecx"] - 1, 4)]
      BY <2>1, PutIs
    <2> HIDE DEF e
    <2> QED
      BY <2>1, <2>2
  <1>4. v[1].size = 4
    BY SeenItem
  <1>5. CASE i.op = "loop"
    <2>1. Target(i, s) = IF more THEN Value(i.item[1], s) ELSE s.ip + 1
      BY <1>5, Zenon DEF Target
    <2>2. Dispatch(i, v, s) = func_op_loop(i, v, s)
      BY <1>5, Zenon DEF Dispatch
    <2>3. func_op_loop(i, v, s) = Jump(more, v, e)
      <3>1. func_op_loop(i, v, s) = Jump(e.r["ecx"] # 0 /\ TRUE, v, e)
        <4> HIDE DEF v
        <4> QED
          BY <1>4 DEF func_op_loop, Counted, Near, Reg4
      <3>2. (e.r["ecx"] # 0 /\ TRUE) = more
        BY <1>3
      <3> QED
        BY <3>1, <3>2
    <2> HIDE DEF more, e, v
    <2> QED
      BY <1>1, <1>2, <1>3, <2>1, <2>2, <2>3, JumpsOn DEF v
  <1>6. CASE i.op = "loope"
    <2> DEFINE g == more /\ zf(s)
    <2>1. Target(i, s) = IF g THEN Value(i.item[1], s) ELSE s.ip + 1
      BY <1>6, Zenon DEF Target, zf
    <2>2. Dispatch(i, v, s) = func_op_loope(i, v, s)
      BY <1>6, Zenon DEF Dispatch
    <2>3. func_op_loope(i, v, s) = Jump(g, v, e)
      <3>1. func_op_loope(i, v, s) = Jump(e.r["ecx"] # 0 /\ zf(s), v, e)
        <4> HIDE DEF v
        <4> QED
          BY <1>4 DEF func_op_loope, Counted, Near, Reg4
      <3>2. (e.r["ecx"] # 0 /\ zf(s)) = g
        BY <1>3
      <3> QED
        BY <3>1, <3>2
    <2> HIDE DEF g, e, v
    <2> QED
      BY <1>1, <1>2, <1>3, <2>1, <2>2, <2>3, JumpsOn DEF v
  <1>7. CASE i.op = "loopne"
    <2> DEFINE g == more /\ ~zf(s)
    <2>1. Target(i, s) = IF g THEN Value(i.item[1], s) ELSE s.ip + 1
      BY <1>7, Zenon DEF Target, zf
    <2>2. Dispatch(i, v, s) = func_op_loopne(i, v, s)
      BY <1>7, Zenon DEF Dispatch
    <2>3. func_op_loopne(i, v, s) = Jump(g, v, e)
      <3>1. func_op_loopne(i, v, s) = Jump(e.r["ecx"] # 0 /\ ~zf(s), v, e)
        <4> HIDE DEF v
        <4> QED
          BY <1>4 DEF func_op_loopne, Counted, Near, Reg4
      <3>2. (e.r["ecx"] # 0 /\ ~zf(s)) = g
        BY <1>3
      <3> QED
        BY <3>1, <3>2
    <2> HIDE DEF g, e, v
    <2> QED
      BY <1>1, <1>2, <1>3, <2>1, <2>2, <2>3, JumpsOn DEF v
  <1> QED
    BY <1>5, <1>6, <1>7

LEMMA Goes_jmp ==
  ASSUME NEW i, Formed(i), NEW s \in AllContexts, i.op = "jmp", i.item[1].size = 4
  PROVE  Agree(i, s)
  <1> DEFINE o == i.item[1]
             v == Seen(i, s)
             to == Value(o, s)
  <1>1. Ordinary(i)
    BY Zenon DEF Ordinary, BitOps, Strings
  <1>2. Effect(i, s) = s /\ Target(i, s) = to
    <2>1. Effect(i, s) = s
      BY Zenon DEF Effect, Results, Shifts, Rotates, BitOps, Reads, Strings, Adjusts
    <2>2. Target(i, s) = to
      BY Zenon DEF Target
    <2> QED
      BY <2>1, <2>2
  <1>3. Var(o, s) = to /\ to \in Nat
    BY Operands, ValueIs, Targets, Kinds DEF Formed, Operand1
  <1>4. Dispatch(i, v, s) = [s EXCEPT !.ip = to]
    <2>1. Dispatch(i, v, s) = func_op_jmp(i, v, s)
      BY Zenon DEF Dispatch
    <2>2. v[1].var = to /\ v[1].size = 4
      BY <1>3, SeenItem
    <2> HIDE DEF v, to
    <2> QED
      BY <2>1, <2>2 DEF func_op_jmp, Jump, Near
  <1> QED
    BY <1>1, <1>2, <1>3, <1>4, Jumped

LEMMA Goes_call ==
  ASSUME NEW i, Formed(i), NEW s \in AllContexts, i.op = "call", i.item[1].size = 4
  PROVE  Agree(i, s)
  <1> DEFINE o == i.item[1]
             v == Seen(i, s)
             to == Value(o, s)
             e == Push(s, s.ip + 1, 4)
  <1>1. Ordinary(i)
    BY Zenon DEF Ordinary, BitOps, Strings
  <1>2. Effect(i, s) = e /\ Target(i, s) = to
    <2>1. Effect(i, s) = e
      BY Zenon DEF Effect, Results, Shifts, Rotates, BitOps, Reads, Strings, Adjusts
    <2>2. Target(i, s) = to
      BY Zenon DEF Target
    <2> QED
      BY <2>1, <2>2
  <1>3. Var(o, s) = to /\ to \in Nat
    BY Operands, ValueIs, Targets, Kinds DEF Formed, Operand1
  <1>4. Pushed(s, s.ip + 1, 4) = e /\ e \in AllContexts
    <2>1. s.ip + 1 \in Int
      BY ContextFields
    <2> QED
      BY <2>1, PushIs
  <1>5. Dispatch(i, v, s) = [e EXCEPT !.ip = to]
    <2>1. Dispatch(i, v, s) = [Pushed(s, s.ip + 1, 4) EXCEPT !.ip = v[1].var]
      BY Zenon DEF Dispatch, func_op_call
    <2>2. v[1].var = to
      BY <1>3, SeenItem
    <2> HIDE DEF v, to, e
    <2> QED
      BY <1>4, <2>1, <2>2
  <1> HIDE DEF e
  <1> QED
    BY <1>1, <1>2, <1>3, <1>4, <1>5, Jumped

LEMMA Goes_ret ==
  ASSUME NEW i, Formed(i), NEW s \in AllContexts, i.op = "ret", i.item[1] = NoItem \/ Positive(i.item[1])
  PROVE  Agree(i, s)
  <1> DEFINE o == i.item[1]
             v == Seen(i, s)
             sp == s.r["esp"]
             a == Value(o, s)
             y == Var(o, s)
             to == Top(s, 4)
             e == Put(Pop(s, 4), "esp", sp + 4 + a)
             d == Dispatch(i, v, s)
  <1>1. Ordinary(i)
    BY Zenon DEF Ordinary, BitOps, Strings
  <1>2. Effect(i, s) = e /\ Target(i, s) = to
    <2>1. Effect(i, s) = e
      BY Zenon DEF Effect, Results, Shifts, Rotates, BitOps, Reads, Strings, Adjusts
    <2>2. Target(i, s) = to
      BY Zenon DEF Target
    <2> QED
      BY <2>1, <2>2
  <1>3. a = y /\ a \in Int
    <2>1. CASE o = NoItem
      BY <2>1, Kinds, Operands DEF Var
    <2>2. CASE Positive(o)
      <3>1. a = Fit(o.k, 4) /\ y = o.k /\ IsImm(o)
        BY <2>2, PositiveIs
      <3>2. o.k \in Word
        <4>1. o.k \in NumbersOf(1) \cup NumbersOf(2) \cup NumbersOf(4)
          BY <3>1 DEF IsImm
        <4> QED
          BY <4>1, Numbered, SMT DEF Word, Below
      <3> QED
        BY <3>1, <3>2, FitSame, Words
    <2> QED
      BY <2>1, <2>2
  <1>4. /\ sp \in Nat /\ "esp" \in Registers
        /\ Pop(s, 4) \in AllContexts /\ Pop(s, 4).ip = s.ip
        /\ Readable(sp, 4) => Pop(s, 4) = Put(s, "esp", sp + 4) /\ to = Load(s, sp, 4)
        /\ ~Readable(sp, 4) => ~Pop(s, 4).ok
        /\ to \in Nat
    BY PopIs
  <1>5. sp + 4 + a \in Int
    BY <1>3, <1>4
  <1>6. e \in AllContexts /\ e.ok = Pop(s, 4).ok
    <2>1. \A u \in AllContexts : \A x \in Int : Put(u, "esp", x) \in AllContexts /\ Put(u, "esp", x).ok = u.ok
      BY <1>4, PutIs
    <2> HIDE DEF a, sp
    <2> QED
      BY <1>4, <1>5, <2>1
  <1>7. d = IF Readable(sp, 4) THEN [Put(s, "esp", sp + 4 + y) EXCEPT !.ip = Load(s, sp, 4)] ELSE Stopped(s)
    <2>1. d = func_op_retn(i, v, s)
      BY Zenon DEF Dispatch
    <2>2. v[1].var = y
      BY SeenItem
    <2> HIDE DEF v, y, d
    <2> QED
      BY <2>1, <2>2 DEF func_op_retn, Reads1, xx_read_fmem, Reg4
  <1>8. Readable(sp, 4) => Put(s, "esp", sp + 4 + y) = e
    <2>1. \A x, z : Put(Put(s, "esp", x), "esp", z) = Put(s, "esp", z)
      BY ContextFields DEF Put
    <2> HIDE DEF a, y, sp
    <2> QED
      BY <1>3, <1>4, <2>1
  <1>9. Goes(i, s, Effect(i, s), d)
    <2>1. CASE Readable(sp, 4)
      <3> HIDE DEF d, e, sp, y, a, to
      <3> QED
        BY <1>2, <1>4, <1>7, <1>8, <2>1 DEF Goes
    <2>2. CASE ~Readable(sp, 4)
      <3> HIDE DEF d, e, sp, y, a, to
      <3> QED
        BY <1>2, <1>4, <1>6, <1>7, <2>2, StoppedIs DEF Goes
    <2> QED
      BY <2>1, <2>2
  <1> HIDE DEF e, to, d
  <1> QED
    BY <1>1, <1>2, <1>4, <1>6, <1>9, Ordinarily DEF d

----------------------------------------------------------------------------
(* Every form of instruction.                                              *)

LEMMA CalculatesAgrees == ASSUME NEW i, Formed(i), Calculates(i), NEW s \in AllContexts PROVE Agree(i, s)
  <1>1. IsPlace(i.item[1])
    BY DEF Calculates
  <1>2. CASE i.op \in Extending /\ (Same(i) \/ (IsImm(i.item[2]) /\ Narrower(i)))
    BY <1>1, <1>2, CalculatesExtended
  <1>3. CASE i.op = "xor" /\ (Same(i) \/ (Positive(i.item[2]) /\ Narrower(i)))
    BY <1>1, <1>3, CalculatesXor
  <1>4. CASE i.op \in {"cmp", "test"} /\ (Same(i) \/ (Positive(i.item[2]) /\ Narrower(i)))
    BY <1>1, <1>4, CalculatesTests
  <1>5. CASE i.op \in {"not", "neg"} /\ i.item[2] = NoItem
    BY <1>1, <1>5, CalculatesAlone
  <1>6. CASE i.op = "inc" /\ i.item[2] = NoItem
    BY <1>1, <1>6, Calculates_inc
  <1>7. CASE i.op = "dec" /\ i.item[2] = NoItem
    BY <1>1, <1>7, Calculates_dec
  <1>8. CASE i.op \in Shifts /\ IsCount(i.item[2])
    BY <1>1, <1>8, CalculatesShifts
  <1>9. CASE i.op \in {"shld", "shrd"} /\ i.item[1].size > 1 /\ Same(i) /\ IsReg(i.item[2]) /\ IsCount(i.item[3])
    BY <1>1, <1>9, CalculatesDoubles
  <1>10. CASE /\ i.op \in BitOps /\ i.item[1].size > 1 /\ i.item[3] = NoItem
              /\ (IsImm(i.item[2]) \/ (IsReg(i.item[1]) /\ IsReg(i.item[2]))) /\ (Same(i) \/ IsCount(i.item[2]))
    BY <1>1, <1>10, CalculatesBits
  <1>11. CASE i.op \in {"mul", "div", "idiv"} \/ (i.op = "imul" /\ i.item[2] = NoItem)
    BY <1>1, <1>11, CalculatesWide
  <1>12. CASE /\ i.op = "imul" /\ i.item[1].size > 1 /\ Same(i)
              /\ \/ i.item[3] = NoItem
                 \/ IsImm(i.item[3]) /\ (i.item[3].size = i.item[1].size \/ (Positive(i.item[3]) /\ i.item[3].size = 1))
    BY <1>1, <1>12, CalculatesProducts
  <1>13. CASE i.op = "xadd" /\ Same(i) /\ IsReg(i.item[2])
    BY <1>1, <1>13, CalculatesXadd
  <1>14. CASE i.op \in {"bsf", "bsr"} /\ i.item[1].size > 1 /\ Same(i)
    BY <1>1, <1>14, CalculatesScans
  <1> QED
    BY <1>2, <1>3, <1>4, <1>5, <1>6, <1>7, <1>8, <1>9, <1>10, <1>11, <1>12, <1>13, <1>14, Zenon DEF Calculates, Extending

\* The forms of CpuForms, gathered.
LEMMA MovesAgrees == ASSUME NEW i, Formed(i), MovesData(i), NEW s \in AllContexts PROVE Agree(i, s)
  <1>1. CASE i.op = "mov" /\ IsPlace(i.item[1]) /\ (Same(i) \/ (Positive(i.item[2]) /\ Narrower(i)))
    BY <1>1, Moves_mov
  <1>2. CASE i.op = "movzx" /\ IsPlace(i.item[1]) /\ IsPlace(i.item[2])
    BY <1>2, Moves_movzx
  <1>3. CASE i.op = "movsx" /\ IsPlace(i.item[1]) /\ IsPlace(i.item[2]) /\ i.item[2].size < 4
    <2>1. i.item[2].size \in {1, 2}
      <3>1. i.item[2].size \in {1, 2, 4}
        BY <1>3, SizesOf
      <3> QED
        BY <1>3, <3>1
    <2> QED
      BY <1>3, <2>1, Moves_movsx
  <1>4. CASE i.op = "cmov" /\ i.cc \in Conditions \ {"c", "nc"} /\ IsPlace(i.item[1]) /\ Same(i)
    BY <1>4, Moves_cmov
  <1>5. CASE i.op = "lea" /\ IsReg(i.item[1]) /\ IsMem(i.item[2]) /\ i.item[2].seg = 0
    BY <1>5, Moves_lea
  <1>6. CASE i.op = "xchg" /\ IsPlace(i.item[1]) /\ IsReg(i.item[2]) /\ Same(i)
    BY <1>6, Moves_xchg
  <1>7. CASE i.op = "bswap" /\ IsReg(i.item[1]) /\ i.item[1].size = 4
    BY <1>7, Moves_bswap
  <1>8. CASE i.op = "set" /\ i.cc \in Conditions \ {"c", "nc"} /\ IsPlace(i.item[1])
    BY <1>8, Moves_set
  <1>9. CASE i.op = "push" /\ (IsPlace(i.item[1]) \/ Positive(i.item[1]) \/ (IsImm(i.item[1]) /\ i.item[1].size = 4))
    BY <1>9, Moves_push
  <1>10. CASE i.op = "pop" /\ IsPlace(i.item[1]) /\ i.item[2] = NoItem /\ i.item[3] = NoItem
    BY <1>10, Moves_pop
  <1>11. CASE i.op \in Alone
    <2>1. CASE i.op \in Adjusts
      BY <2>1, AloneAdjusts
    <2>2. CASE i.op \in {"clc", "stc", "cmc", "cld", "std"}
      BY <2>2, AloneFlags
    <2>3. CASE i.op \in {"cdq", "cwd", "cwde", "cbw"}
      BY <2>3, AloneSigns
    <2>4. CASE i.op \in {"nop", "lahf", "sahf", "cpuid"}
      BY <2>4, AloneNop, AloneLahf, AloneSahf, AloneCpuid
    <2>5. CASE i.op \in {"pushfd", "popfd", "leave", "pushad", "popad"}
      BY <2>5, AlonePushfd, AlonePopfd, AloneLeave, AlonePushad, AlonePopad
    <2> QED
      BY <1>11, <2>1, <2>2, <2>3, <2>4, <2>5, Zenon DEF Alone
  <1> QED
    BY <1>1, <1>2, <1>3, <1>4, <1>5, <1>6, <1>7, <1>8, <1>9, <1>10, <1>11, Zenon DEF MovesData

LEMMA ElementAgrees == ASSUME NEW i, Formed(i), OnElement(i), NEW s \in AllContexts PROVE Agree(i, s)
  BY MoveLods, MoveStos, MoveMovs, Zenon DEF OnElement

LEMMA GoesAgrees == ASSUME NEW i, Formed(i), GoesOn(i), NEW s \in AllContexts PROVE Agree(i, s)
  <1>1. CASE i.op = "j" /\ i.cc \in Conditions \ {"g"} /\ IsImm(i.item[1]) /\ i.item[1].size = 4
    BY <1>1, Goes_j
  <1>2. CASE i.op \in {"jecxz", "loop", "loope", "loopne"} /\ IsImm(i.item[1]) /\ i.item[1].size = 4
    BY <1>2, Goes_jecxz, Goes_loop
  <1>3. CASE i.op \in {"jmp", "call"} /\ i.item[1].size = 4
    BY <1>3, Goes_jmp, Goes_call
  <1>4. CASE i.op = "ret" /\ (i.item[1] = NoItem \/ Positive(i.item[1]))
    BY <1>4, Goes_ret
  <1> QED
    BY <1>1, <1>2, <1>3, <1>4, Zenon DEF GoesOn

\* Every instruction of one of the forms leaves the context the processor
\* leaves, in every context.
LEMMA Agrees == ASSUME NEW i, Alike(i), NEW s \in AllContexts PROVE Agree(i, s)
  BY CalculatesAgrees, MovesAgrees, ElementAgrees, GoesAgrees DEF Alike

----------------------------------------------------------------------------
(* A comparison and what depends on it.                                    *)

LEMMA Survivors == ASSUME NEW i, NEW s \in AllContexts, Run(i, s).ok
    PROVE  ~Faults(i, s) /\ Effect(i, s).ok /\ Run(i, s) = [Effect(i, s) EXCEPT !.ip = Target(i, s)]
  <1>1. ~Stopped(s).ok
    BY StoppedIs
  <1> QED
    BY <1>1 DEF Run, Survives

LEMMA Subtracts == ASSUME NEW size, NEW a, NEW b, NEW f
                   PROVE  AluFitted("cmp", size, a, b, f) = Difference(size, a, b, 0, f)
  <1>1. ASSUME NEW op, op = "cmp" PROVE AluFitted(op, size, a, b, f) = Difference(size, a, b, IF op = "sbb" THEN Carry(f) ELSE 0, f)
    BY <1>1, Zenon DEF AluFitted, Shifts, Rotates, BitOps
  <1>2. (IF "cmp" = "sbb" THEN Carry(f) ELSE 0) = 0
    OBVIOUS
  <1> QED
    BY <1>1, <1>2

\* The flags a comparison leaves.
LEMMA ComparesIs ==
  ASSUME NEW i, Alike(i), i.op = "cmp", NEW s \in AllContexts, Run(i, s).ok
  PROVE  LET size == i.item[1].size
             a == Value(i.item[1], s)
             b == Fit(Value(i.item[2], s), size)
         IN  /\ size \in {1, 2, 4} /\ a \in NumbersOf(size) /\ b \in NumbersOf(size)
             /\ Run(i, s).f = Difference(size, a, b, 0, s.f).f
  <1> DEFINE o == i.item[1]
             size == o.size
             a == Value(o, s)
             y == Value(i.item[2], s)
             b == Fit(y, size)
             x == Alu("cmp", size, a, y, s.f)
             e == Effect(i, s)
             t == Touch(s, At(o, s), IF InMemory(o) THEN size ELSE 0)
  <1>1. IsPlace(o) /\ Formed(i)
    BY Zenon DEF Alike, Calculates, MovesData, OnElement, GoesOn, Alone, Adjusts
  <1>2. size \in {1, 2, 4} /\ a \in NumbersOf(size) /\ a \in Int /\ y \in Int
    BY <1>1, Operands
  <1>3. b \in NumbersOf(size)
    BY <1>2, FitNumber
  <1>4. e = [t EXCEPT !.f = x.f]
    <2>1. e = Calculated(i, s, Far(i, s, At(o, s), y), y)
      BY Zenon DEF Effect, At, Results, Shifts, Rotates, BitOps, Reads, Strings, Adjusts
    <2>2. Far(i, s, At(o, s), y) = At(o, s)
      BY Zenon DEF Far, BitOps
    <2>3. Old(i, s, At(o, s)) = a
      BY <1>1, OldIs
    <2>4. i.op \in Reads
      BY DEF Reads
    <2> QED
      BY <2>1, <2>2, <2>3, <2>4 DEF Calculated
  <1>5. t \in AllContexts
    BY <1>1, TouchIs
  <1>6. x = Difference(size, a, b, 0, s.f)
    <2>1. Fit(a, size) = a
      BY <1>2, NumberFit
    <2>2. AluFitted("cmp", size, a, b, s.f) = Difference(size, a, b, 0, s.f)
      BY Subtracts
    <2>3. "cmp" \notin Shifts
      BY Zenon DEF Shifts, Rotates
    <2> QED
      BY <2>1, <2>2, <2>3 DEF Alu
  <1>7. Run(i, s) = [e EXCEPT !.ip = Target(i, s)]
    BY Survivors
  <1>8. e.f = x.f /\ [e EXCEPT !.ip = Target(i, s)].f = e.f
    <2> HIDE DEF e, x, t
    <2> QED
      BY <1>4, <1>5 DEF AllContexts
  <1>9. Run(i, s).f = Difference(size, a, b, 0, s.f).f
    <2> HIDE DEF e, x, t, a, b, size
    <2> QED
      BY <1>6, <1>7, <1>8
  <1> QED
    BY <1>2, <1>3, <1>9

\* What a jump and a set do when their condition holds, and when it does not.
LEMMA JumpDecides ==
  ASSUME NEW i, i.op = "j", NEW s \in AllContexts, Run(i, s).ok
  PROVE  Run(i, s).ip = IF Holds(i.cc, s.f) THEN Value(i.item[1], s) ELSE s.ip + 1
  <1>1. Effect(i, s) = s
    BY Zenon DEF Effect, Results, Shifts, Rotates, BitOps, Reads, Strings, Adjusts
  <1>2. Target(i, s) = IF Holds(i.cc, s.f) THEN Value(i.item[1], s) ELSE s.ip + 1
    BY Zenon DEF Target
  <1>3. Run(i, s) = [s EXCEPT !.ip = Target(i, s)]
    BY <1>1, Survivors
  <1>4. [s EXCEPT !.ip = Target(i, s)].ip = Target(i, s)
    BY DEF AllContexts
  <1> QED
    BY <1>2, <1>3, <1>4

\* An operand of a byte holds what was written to it.
LEMMA Written ==
  ASSUME NEW s \in AllContexts, NEW o, IsPlace(o), o.size = 1, Here(o, s), NEW x \in {0, 1}, NEW ip \in Nat
  PROVE  Value(o, [Assign(o, At(o, s), s, x) EXCEPT !.ip = ip]) = x
  <1> DEFINE a == Assign(o, At(o, s), s, x)
             m1 == [a EXCEPT !.ip = ip]
  <1>1. x \in Int /\ Fit(x, 1) = x
    BY FitSame, SMT DEF Below
  <1>2. CASE IsReg(o)
    <2>1. o.def[1] \in Registers /\ o.def[2] \in Parts /\ o.t = "REG" /\ PartSize(o.def[2]) = 1
      BY <1>2 DEF IsReg, Parts
    <2>2. SetPart(s.r[o.def[1]], o.def[2], x) \in Word /\ GetPart(SetPart(s.r[o.def[1]], o.def[2], x), o.def[2]) = x
      BY <1>1, <2>1, ContextFields, SetParts
    <2>3. a = [s EXCEPT !.r[o.def[1]] = SetPart(s.r[o.def[1]], o.def[2], x)]
      BY <2>1 DEF Assign
    <2>4. a \in AllContexts /\ a.r = [s.r EXCEPT ![o.def[1]] = SetPart(s.r[o.def[1]], o.def[2], x)]
      BY <2>1, <2>2, <2>3, RegIs
    <2> HIDE DEF a
    <2>5. m1.r[o.def[1]] = SetPart(s.r[o.def[1]], o.def[2], x)
      BY <2>1, <2>4, ContextFields DEF AllContexts
    <2>6. Value(o, m1) = GetPart(m1.r[o.def[1]], o.def[2])
      <3> HIDE DEF m1
      <3> QED
        BY <2>1, Zenon DEF Value
    <2> QED
      BY <2>2, <2>5, <2>6 DEF a
  <1>3. CASE IsMem(o)
    <2> DEFINE at == Address(o, s)
    <2>1. o.t \notin {"none", "IMM", "REG"} /\ InMemory(o) /\ At(o, s) = at /\ Readable(at, 1)
      BY <1>3, Kinds DEF At, Here
    <2>2. at \in Nat /\ at \in Int
      BY <1>3, AddressIs, Words
    <2>3. a = Store(s, at, x, 1)
      BY <2>1 DEF Assign
    <2> HIDE DEF at
    <2>4. a \in AllContexts /\ a.r = s.r /\ a.mem = Stored(s, at, x, 1)
      BY <1>1, <2>2, <2>3, StoreIs
    <2> HIDE DEF a
    <2>5. m1.r = s.r /\ m1.mem = Stored(s, at, x, 1)
      BY <2>4 DEF AllContexts
    <2> HIDE DEF m1
    <2>6. Address(o, m1) = at
      BY <2>5 DEF Address, Offset, at
    <2>7. Value(o, m1) = Load(m1, at, 1)
      <3>1. Value(o, m1) = IF Readable(Address(o, m1), o.size) THEN Load(m1, Address(o, m1), o.size) ELSE 0
        BY <2>1, Zenon DEF Value
      <3> QED
        BY <2>1, <2>6, <3>1
    <2>8. m1.mem[at] = x
      <3>1. at \in 0..MemSize - 1 /\ at - at = 0 /\ 0 \in 0..1 - 1
        BY <2>1, <2>2, MemSizeNat, SMT DEF Readable
      <3>2. Slice(x, 0, 1) = x
        BY <1>1, SliceFits
      <3> QED
        BY <2>5, <3>1, <3>2 DEF Stored
    <2>9. Load(m1, at, 1) = x
      <3>1. at + 0 = at /\ 0 < 1 /\ ~(1 < 1) /\ ~(2 < 1) /\ ~(3 < 1)
        BY <2>2, SMT
      <3>2. Load(m1, at, 1) = m1.mem[at] * 1 + 0 + 0 + 0
        BY <3>1, Power0 DEF Load
      <3> QED
        BY <1>1, <2>8, <3>2
    <2> QED
      BY <2>7, <2>9 DEF m1, a
  <1> QED
    BY <1>2, <1>3 DEF IsPlace

\* After a set its operand holds whether the condition held.
LEMMA SetDecides ==
  ASSUME NEW i, Alike(i), i.op = "set", NEW s \in AllContexts, Run(i, s).ok
  PROVE  Value(i.item[1], Run(i, s)) = IF Holds(i.cc, s.f) THEN 1 ELSE 0
  <1> DEFINE o == i.item[1]
             x == IF Holds(i.cc, s.f) THEN 1 ELSE 0
             a == Assign(o, At(o, s), s, x)
  <1>1. IsPlace(o) /\ o.size = 1 /\ Formed(i)
    BY Zenon DEF Alike, Calculates, MovesData, OnElement, GoesOn, Alone, Adjusts, BitOps, Shifts, Rotates
  <1>2. Effect(i, s) = a
    BY Zenon DEF Effect, Results, Shifts, Rotates, BitOps, Reads, Strings, Adjusts, At
  <1>3. Here(o, s)
    <2>1. Ordinary(i)
      BY <1>1, Zenon DEF Ordinary, BitOps, Strings
    <2>2. ~Faults(i, s)
      BY Survivors
    <2> QED
      BY <2>1, <2>2, FaultsIs DEF AllHere
  <1>4. Target(i, s) \in Nat
    <2>1. Straight(i)
      BY Zenon DEF Straight
    <2> QED
      BY <2>1, NextIs
  <1>5. Run(i, s) = [a EXCEPT !.ip = Target(i, s)]
    BY <1>2, Survivors
  <1>6. x \in {0, 1}
    OBVIOUS
  <1> HIDE DEF x
  <1>7. Value(o, Run(i, s)) = x
    BY <1>1, <1>3, <1>4, <1>5, <1>6, Written
  <1> QED
    BY <1>7 DEF x

----------------------------------------------------------------------------
(* Programs.                                                               *)

\* Every instruction a program can have is of one of the forms.
OnlyAlike == \A n \in Nat : n < Len(Programs) => \A i \in Programs[n + 1] : Alike(i)

\* What a program has run: an instruction and the context it ran in.
Steps == [i : UNION {Programs[n + 1] : n \in Nat}, at : AllContexts]
\* The context after the n-th instruction.
After(n) == IF n = Len(ran) THEN m ELSE ran[n + 1].at
\* Each instruction was one of those of its place, survived the one before it
\* and left the context the processor leaves.
Ran(n) == Alike(ran[n].i) /\ ran[n].at.ok /\ After(n) = Run(ran[n].i, ran[n].at)
CInv ==
    /\ m \in AllContexts /\ p = m /\ ran \in Seq(Steps)
    /\ \A n \in 1..Len(ran) : Ran(n)

LEMMA Appended == ASSUME NEW q \in Seq(Steps), NEW x \in Steps
    PROVE  /\ Append(q, x) \in Seq(Steps) /\ Len(Append(q, x)) = Len(q) + 1 /\ Len(q) \in Nat
           /\ Append(q, x)[Len(q) + 1] = x
           /\ \A n \in 1..Len(q) : Append(q, x)[n] = q[n]
  OBVIOUS

\* The invariant holds at the start and every instruction keeps it.
LEMMA Started == Init => CInv
  <1> SUFFICES ASSUME Init PROVE CInv
    OBVIOUS
  <1>1. m \in AllContexts /\ p = m /\ ran = <<>>
    BY StartsAssumption DEF Init
  <1>2. ran \in Seq(Steps) /\ Len(ran) = 0
    BY <1>1
  <1>3. \A n \in 1..Len(ran) : FALSE
    BY <1>2
  <1> QED
    BY <1>1, <1>2, <1>3 DEF CInv

LEMMA Kept == ASSUME OnlyAlike, CInv, [Execute]_vars PROVE CInv'
  <1>1. CASE UNCHANGED vars
    BY <1>1 DEF vars, CInv, Ran, After
  <1>2. CASE Execute
    <2>1. PICK i \in Programs[Len(ran) + 1] : m' = xx_execute(i, m) /\ p' = Run(i, p) /\ ran' = Append(ran, [i |-> i, at |-> m])
      BY <1>2 DEF Execute
    <2>2. m.ok /\ Len(ran) < Len(Programs) /\ m \in AllContexts /\ p = m /\ ran \in Seq(Steps) /\ Len(ran) \in Nat
      BY <1>2 DEF Execute, CInv
    <2> DEFINE x == [i |-> i, at |-> m]
               k == Len(ran)
    <2>3. Alike(i)
      BY <2>2 DEF OnlyAlike
    <2>4. xx_execute(i, m) = Run(i, m) /\ xx_execute(i, m) \in AllContexts
      BY <2>2, <2>3, Agrees DEF Agree
    <2>5. x \in Steps
      BY <2>1, <2>2 DEF Steps
    <2>6. /\ ran' \in Seq(Steps) /\ Len(ran') = k + 1 /\ k \in Nat
          /\ ran'[k + 1] = x
          /\ \A n \in 1..k : ran'[n] = ran[n]
      <3> HIDE DEF x
      <3> QED
        BY <2>1, <2>2, <2>5, Appended DEF x
    <2>7. m' \in AllContexts /\ p' = m'
      BY <2>1, <2>2, <2>4
    <2>8. ASSUME NEW n \in 1..Len(ran') PROVE Ran(n)'
      <3>1. CASE n = k + 1
        <4>1. After(n)' = m'
          BY <2>6, <3>1 DEF After
        <4>2. ran'[n].i = i /\ ran'[n].at = m
          BY <2>6, <3>1
        <4> QED
          BY <2>1, <2>2, <2>3, <2>4, <4>1, <4>2 DEF Ran
      <3>2. CASE n # k + 1
        <4>1. n \in 1..k /\ n # Len(ran') /\ n \in Int
          BY <2>6, <2>8, <3>2
        <4>2. ran'[n] = ran[n]
          BY <2>6, <4>1
        <4>3. Ran(n)
          BY <4>1 DEF CInv
        <4>4. After(n)' = After(n)
          <5>1. After(n)' = ran'[n + 1].at
            BY <4>1 DEF After
          <5>2. CASE n = k
            BY <2>6, <5>1, <5>2 DEF After
          <5>3. CASE n # k
            <6>1. n + 1 \in 1..k
              BY <2>6, <4>1, <5>3
            <6> QED
              BY <2>6, <5>1, <5>3, <6>1 DEF After
          <5> QED
            BY <5>2, <5>3
        <4> QED
          BY <4>2, <4>3, <4>4 DEF Ran
      <3> QED
        BY <3>1, <3>2
    <2> QED
      BY <2>6, <2>7, <2>8 DEF CInv
  <1> QED
    BY <1>1, <1>2

\* What the invariant says of the properties the runs check.
LEMMA Tracked == CInv => Tracks
  <1> SUFFICES ASSUME CInv PROVE Tracks
    OBVIOUS
  <1>1. m.ok \in BOOLEAN /\ p = m
    BY ContextFields DEF CInv
  <1> QED
    BY <1>1 DEF Tracks

\* A jump or set that follows a comparison decides as the numbers stand:
\* the comparison ran, survived and left the flags of a difference (Ran), and
\* its condition is what the relation of the numbers is (Compared).
LEMMA Comparable == CInv => Compares
  <1> SUFFICES ASSUME CInv, Len(ran) > 1, m.ok,
                      ran[Len(ran) - 1].i.op = "cmp", LastRan.i.op \in {"j", "set"}
               PROVE  LET c == ran[Len(ran) - 1]
                          size == c.i.item[1].size
                      IN  Decided(Relation(LastRan.i.cc, Value(c.i.item[1], c.at), Fit(Value(c.i.item[2], c.at), size), size))
    BY Zenon DEF Compares
  <1> DEFINE k == Len(ran)
             c == ran[k - 1]
             l == ran[k]
             size == c.i.item[1].size
             a == Value(c.i.item[1], c.at)
             b == Fit(Value(c.i.item[2], c.at), size)
             holds == Holds(l.i.cc, l.at.f)
             rel == Relation(l.i.cc, a, b, size)
  <1>1. k \in Nat /\ k - 1 \in 1..k /\ k \in 1..k /\ k - 1 # k /\ (k - 1) + 1 = k
    BY DEF CInv
  <1>2. c \in Steps /\ l \in Steps /\ m \in AllContexts
    <2>1. ran \in Seq(Steps) /\ m \in AllContexts
      BY DEF CInv
    <2>2. \A n \in 1..Len(ran) : ran[n] \in Steps
      <3> HIDE DEF k, c, l, size, a, b, holds, rel
      <3> QED
        BY <2>1
    <2> QED
      BY <1>1, <2>1, <2>2
  <1>3. Alike(l.i) /\ m = Run(l.i, l.at)
    BY <1>1 DEF CInv, Ran, After
  <1>4. Alike(c.i) /\ l.at = Run(c.i, c.at) /\ l.at.ok
    BY <1>1 DEF CInv, Ran, After
  <1>5. c.at \in AllContexts /\ l.at \in AllContexts
    BY <1>2 DEF Steps
  <1>6. size \in {1, 2, 4} /\ a \in NumbersOf(size) /\ b \in NumbersOf(size) /\ l.at.f = Difference(size, a, b, 0, c.at.f).f
    <2> HIDE DEF l
    <2> QED
      BY <1>4, <1>5, ComparesIs
  <1>7. LastRan = l
    BY DEF LastRan
  <1>8. l.i.cc \in Conditions
    <2> HIDE DEF l
    <2> QED
      BY <1>3, <1>7, Zenon DEF Alike, Calculates, MovesData, OnElement, GoesOn, Alone, Adjusts, BitOps, Shifts, Rotates
  <1> HIDE DEF size, a, b
  <1>9. holds <=> rel
    BY <1>6, <1>8, Compared
  <1> HIDE DEF c, l
  <1>10. CASE l.i.op = "j"
    <2>1. m.ip = IF holds THEN Value(l.i.item[1], l.at) ELSE l.at.ip + 1
      BY <1>3, <1>5, <1>10, JumpDecides
    <2> HIDE DEF holds, rel
    <2>2. m.ip = IF rel THEN Value(l.i.item[1], l.at) ELSE l.at.ip + 1
      BY <1>9, <2>1
    <2>3. Decided(rel)
      BY <1>7, <1>10, <2>2, Zenon DEF Decided
    <2> QED
      BY <1>7, <2>3 DEF rel, c, size, a, b
  <1>11. CASE l.i.op = "set"
    <2>1. Value(l.i.item[1], m) = IF holds THEN 1 ELSE 0
      BY <1>3, <1>5, <1>11, SetDecides
    <2> HIDE DEF holds, rel
    <2>2. Value(l.i.item[1], m) = IF rel THEN 1 ELSE 0
      BY <1>9, <2>1
    <2>3. Decided(rel)
      BY <1>7, <1>11, <2>2, Zenon DEF Decided
    <2> QED
      BY <1>7, <2>3 DEF rel, c, size, a, b
  <1> QED
    BY <1>7, <1>10, <1>11

\* In a program of these forms the context the emulation keeps is the one the
\* processor would have after every instruction, whatever the registers, the
\* memory and the flags hold at the start: what xx_execute and its functions
\* do is what the traced code does.
THEOREM EmulationTracks == ASSUME OnlyAlike PROVE Spec => [](CInv /\ Tracks)
  <1>1. Init => CInv
    BY Started
  <1>2. CInv /\ [Execute]_vars => CInv'
    BY Kept
  <1>3. CInv => Tracks
    BY Tracked
  <1> QED
    BY <1>1, <1>2, <1>3, PTL DEF Spec

\* A conditional jump or set that runs right after a comparison decides as the
\* compared numbers stand: the flags func_op_cmp leaves and the flags every
\* func_op_j.. and func_op_set.. asks fit together, for all operands.
THEOREM ConditionsCompare == ASSUME OnlyAlike PROVE Spec => []Compares
  <1>1. CInv => Compares
    BY Comparable
  <1>2. Spec => [](CInv /\ Tracks)
    BY EmulationTracks
  <1> QED
    BY <1>1, <1>2, PTL
=============================================================================
