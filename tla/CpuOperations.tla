--------------------------- MODULE CpuOperations ---------------------------
(***************************************************************************)
(* What an operation of the emulation leaves is what the processor leaves: *)
(* the calculations, the instructions that have no operands, one element   *)
(* of a string of bytes.  Framed, MovesOn and ReadsOn are the three ways   *)
(* to show it for an instruction.                                          *)
(***************************************************************************)
EXTENDS CpuLemmas

----------------------------------------------------------------------------
(* One instruction: what the emulation and the processor have in common.   *)

Agree(i, s) == xx_execute(i, s) = Run(i, s) /\ xx_execute(i, s) \in AllContexts
Goes(i, s, e, out) == out = [e EXCEPT !.ip = Target(i, s)] \/ (~out.ok /\ ~e.ok)

\* xx_execute and Run agree when the operation does what the processor does,
\* or when both stop.
LEMMA Framed ==
  ASSUME NEW i, NEW s \in AllContexts, NEW v, v = [n \in 1..3 |-> conv_item(i, n, s)],
         Effect(i, s) \in AllContexts, Target(i, s) \in Nat,
         \/ (\A n \in 1..3 : v[n].ok) /\ ~Faults(i, s) /\ Goes(i, s, Effect(i, s), Dispatch(i, v, s))
         \/ ~(\A n \in 1..3 : v[n].ok) /\ (Faults(i, s) \/ ~Effect(i, s).ok)
  PROVE  Agree(i, s)
  <1> DEFINE e == Effect(i, s)
             out == Dispatch(i, v, s)
             t == Target(i, s)
  <1>1. xx_execute(i, s) = Converted(i, v, s)
    BY DEF xx_execute
  <1>2. e \in AllContexts /\ t \in Nat
    OBVIOUS
  <1>3. Run(i, s) = IF Faults(i, s) \/ ~e.ok THEN Stopped(s) ELSE [e EXCEPT !.ip = t]
    BY DEF Run, Survives
  <1>4. Converted(i, v, s) = IF \A n \in 1..3 : v[n].ok THEN (IF out.ok THEN out ELSE Stopped(s)) ELSE Stopped(s)
    BY DEF Converted, Returned
  <1>5. Stopped(s) \in AllContexts
    BY StoppedIs
  <1>6. [e EXCEPT !.ip = t] \in AllContexts /\ [e EXCEPT !.ip = t].ok = e.ok
    BY <1>2, WithIp
  <1>7. Goes(i, s, e, out) <=> out = [e EXCEPT !.ip = t] \/ (~out.ok /\ ~e.ok)
    BY DEF Goes
  <1>8. CASE (\A n \in 1..3 : v[n].ok) /\ ~Faults(i, s) /\ Goes(i, s, e, out)
    <2> HIDE DEF e, out, t
    <2>1. CASE out = [e EXCEPT !.ip = t]
      <3>1. Converted(i, v, s) = IF e.ok THEN [e EXCEPT !.ip = t] ELSE Stopped(s)
        BY <1>4, <1>6, <1>8, <2>1
      <3> QED
        BY <1>1, <1>3, <1>5, <1>6, <1>8, <3>1 DEF Agree
    <2>2. CASE ~out.ok /\ ~e.ok
      BY <1>1, <1>3, <1>4, <1>5, <1>8, <2>2 DEF Agree
    <2> QED
      BY <1>7, <1>8, <2>1, <2>2
  <1>9. CASE ~(\A n \in 1..3 : v[n].ok) /\ (Faults(i, s) \/ ~e.ok)
    <2> HIDE DEF e, out, t
    <2> QED
      BY <1>1, <1>3, <1>4, <1>5, <1>9 DEF Agree
  <1> QED
    BY <1>8, <1>9

\* The operands as both sides see them.
Seen(i, s) == [n \in 1..3 |-> [ok |-> Here(i.item[n], s), var |-> Var(i.item[n], s), addr |-> At(i.item[n], s), size |-> i.item[n].size]]
AllHere(i, s) == \A n \in 1..3 : Here(i.item[n], s)

\* What the converted operands are for an operation that looks at plain values.
LEMMA SeenIs == ASSUME NEW i, NEW s \in AllContexts, Formed(i), i.op \notin {"lea", "pop", "push"}
    PROVE  /\ [n \in 1..3 |-> conv_item(i, n, s)] = Seen(i, s)
           /\ (\A n \in 1..3 : Seen(i, s)[n].ok) <=> AllHere(i, s)
  <1>1. ASSUME NEW n \in 1..3
        PROVE  conv_item(i, n, s) = [ok |-> Here(i.item[n], s), var |-> Var(i.item[n], s), addr |-> At(i.item[n], s), size |-> i.item[n].size]
    BY ConvIs DEF Formed, Operand1
  <1>2. [n \in 1..3 |-> conv_item(i, n, s)] = Seen(i, s)
    BY <1>1 DEF Seen
  <1>3. \A n \in 1..3 : Seen(i, s)[n].ok = Here(i.item[n], s)
    BY DEF Seen
  <1> QED
    BY <1>2, <1>3 DEF AllHere

Ordinary(i) == Formed(i) /\ i.op \notin {"lea", "pop", "push"} \cup BitOps \cup Strings

\* An ordinary operation faults when an operand is not there.
LEMMA FaultsIs == ASSUME NEW i, NEW s, Ordinary(i) PROVE Faults(i, s) <=> ~AllHere(i, s)
  BY Zenon DEF Faults, AllHere, Here, Ordinary

\* An instruction whose operands are all looked at.
LEMMA Ordinarily ==
  ASSUME NEW i, NEW s \in AllContexts, Ordinary(i), Effect(i, s) \in AllContexts, Target(i, s) \in Nat,
         AllHere(i, s) => Goes(i, s, Effect(i, s), Dispatch(i, Seen(i, s), s))
  PROVE  Agree(i, s)
  <1>1. Formed(i) /\ i.op \notin {"lea", "pop", "push"}
    BY DEF Ordinary
  <1>2. Faults(i, s) <=> ~AllHere(i, s)
    BY FaultsIs
  <1> QED
    BY <1>1, <1>2, SeenIs, Framed

\* An instruction that does not jump.
Straight(i) == i.op \notin {"jmp", "call", "j", "jecxz", "loop", "loope", "loopne", "ret"}
\* An operation that does not jump goes to the next instruction.
LEMMA NextIs == ASSUME NEW i, NEW s \in AllContexts, Straight(i)
                PROVE  Target(i, s) = s.ip + 1 /\ Target(i, s) \in Nat
  <1>1. Target(i, s) = s.ip + 1
    BY Zenon DEF Target, Straight
  <1> QED
    BY <1>1, ContextFields

\* The instruction pointer moves on from a context that kept it.
LEMMA IpIs == ASSUME NEW i, NEW s \in AllContexts, Straight(i), NEW e \in AllContexts, e.ip = s.ip
              PROVE  Ip(e) = [e EXCEPT !.ip = Target(i, s)]
  <1>1. Target(i, s) = s.ip + 1
    BY NextIs
  <1>2. Ip(e) = [e EXCEPT !.ip = e.ip + 1]
    BY DEF Ip
  <1> QED
    BY <1>1, <1>2
----------------------------------------------------------------------------
(* Calculations.                                                           *)

LEMMA Operands == ASSUME NEW i, Formed(i), NEW s \in AllContexts, NEW n \in 1..3
    PROVE  /\ Value(i.item[n], s) \in Int /\ Var(i.item[n], s) \in Int /\ At(i.item[n], s) \in Int
           /\ IsPlace(i.item[n]) => Var(i.item[n], s) = Value(i.item[n], s) /\ Value(i.item[n], s) \in NumbersOf(i.item[n].size)
           /\ IsPlace(i.item[n]) \/ IsImm(i.item[n]) => i.item[n].size \in {1, 2, 4}
  <1> DEFINE o == i.item[n]
  <1>1. Operand1(o)
    BY DEF Formed, Operand1
  <1>2. Value(o, s) \in Int /\ Var(o, s) \in Int /\ (IsPlace(o) => Value(o, s) \in NumbersOf(o.size))
    BY <1>1, ValueIs
  <1>3. At(o, s) \in Int
    <2>1. CASE IsMem(o)
      BY <2>1, Kinds, AddressIs DEF At, Word, Below
    <2>2. CASE ~IsMem(o)
      BY <1>1, <2>2, Kinds DEF At, Operand1, IsPlace
    <2> QED
      BY <2>1, <2>2
  <1>4. IsPlace(o) => Var(o, s) = Value(o, s)
    BY Kinds DEF IsPlace, Var
  <1>5. IsPlace(o) \/ IsImm(o) => o.size \in {1, 2, 4}
    BY SizesOf
  <1> QED
    BY <1>2, <1>3, <1>4, <1>5

LEMMA SeenItem == ASSUME NEW i, NEW s, NEW n \in 1..3
    PROVE  /\ Seen(i, s)[n].var = Var(i.item[n], s) /\ Seen(i, s)[n].addr = At(i.item[n], s)
           /\ Seen(i, s)[n].size = i.item[n].size
  BY DEF Seen

LEMMA TakeIs == ASSUME NEW i, Formed(i), IsPlace(i.item[1]), NEW s \in AllContexts, NEW x, IsResult(x)
    PROVE  /\ Take(i.item[1], At(i.item[1], s), s, x) \in AllContexts
           /\ Take(i.item[1], At(i.item[1], s), s, x).ip = s.ip
           /\ Result1(i, Seen(i, s), s, x) = Ip(Take(i.item[1], At(i.item[1], s), s, x))
  <1> DEFINE a == Assign(i.item[1], At(i.item[1], s), s, x.r)
  <1>1. At(i.item[1], s) \in Int
    BY Operands
  <1>2. a \in AllContexts /\ a.ip = s.ip
    BY <1>1, AssignIs DEF IsResult
  <1>3. calc_item(i, 1, Seen(i, s), s, x.r) = a
    BY CalcIs, SeenItem
  <1>4. Take(i.item[1], At(i.item[1], s), s, x) = [a EXCEPT !.f = x.f]
    BY DEF Take
  <1> HIDE DEF a
  <1>5. Result1(i, Seen(i, s), s, x) = Ip([a EXCEPT !.f = x.f])
    BY <1>3 DEF Result1, Flags4
  <1> QED
    BY <1>2, <1>4, <1>5, WithFlags DEF IsResult

LEMMA OldIs == ASSUME NEW i, IsPlace(i.item[1]), NEW s
               PROVE  Old(i, s, At(i.item[1], s)) = Value(i.item[1], s)
  <1>1. CASE IsReg(i.item[1])
    BY <1>1, Kinds DEF Old
  <1>2. CASE IsMem(i.item[1])
    <2>1. Value(i.item[1], s) = IF Readable(Address(i.item[1], s), i.item[1].size) THEN Load(s, Address(i.item[1], s), i.item[1].size) ELSE 0
      BY <1>2, Kinds, Zenon DEF Value
    <2> QED
      BY <1>2, <2>1, Kinds DEF Old, At
  <1> QED
    BY <1>1, <1>2 DEF IsPlace

\* The processor calculates with the operands, and the result goes to the first.
LEMMA EffectIs == ASSUME NEW i, IsPlace(i.item[1]), NEW s, i.op \in Results, i.op \notin Reads \cup BitOps
    PROVE  Effect(i, s) = Take(i.item[1], At(i.item[1], s), s,
                               Alu(i.op, i.item[1].size, Value(i.item[1], s), Value(i.item[2], s), s.f))
  <1> DEFINE b == Value(i.item[2], s)
             at == At(i.item[1], s)
  <1>1. Effect(i, s) = Calculated(i, s, Far(i, s, at, b), b)
    BY Zenon DEF Effect, At, Results, Shifts, Rotates, BitOps, Reads, Strings, Adjusts
  <1>2. Far(i, s, at, b) = at
    BY DEF Far
  <1>3. Old(i, s, at) = Value(i.item[1], s)
    BY OldIs
  <1> HIDE DEF b, at
  <1> QED
    BY <1>1, <1>2, <1>3 DEF Calculated, b, at

\* A calculation whose function gives the fitted operands to the same
\* arithmetic agrees with the processor.
LEMMA Assembles ==
  ASSUME NEW i, Ordinary(i), IsPlace(i.item[1]), NEW s \in AllContexts, Straight(i),
         i.op \in Results \cap Computed, i.op \notin Reads, NEW y,
         Dispatch(i, Seen(i, s), s) = Assembled(i.op, i, Seen(i, s), s, y),
         Alu(i.op, i.item[1].size, Value(i.item[1], s), y, s.f)
           = Alu(i.op, i.item[1].size, Value(i.item[1], s), Value(i.item[2], s), s.f)
  PROVE  Agree(i, s)
  <1> DEFINE x == Alu(i.op, i.item[1].size, Value(i.item[1], s), Value(i.item[2], s), s.f)
             e == Take(i.item[1], At(i.item[1], s), s, x)
  <1>1. Formed(i) /\ i.op \notin BitOps
    BY DEF Ordinary
  <1>2. IsResult(x)
    BY <1>1, Operands, AluIs, ContextFields
  <1>3. Effect(i, s) = e
    BY <1>1, EffectIs
  <1>4. Dispatch(i, Seen(i, s), s) = Result1(i, Seen(i, s), s, x)
    <2>1. Seen(i, s)[1].var = Value(i.item[1], s) /\ Seen(i, s)[1].size = i.item[1].size
      BY <1>1, Operands, SeenItem
    <2> QED
      BY <2>1 DEF Assembled
  <1> HIDE DEF x
  <1>5. e \in AllContexts /\ e.ip = s.ip /\ Dispatch(i, Seen(i, s), s) = Ip(e)
    BY <1>1, <1>2, <1>4, TakeIs
  <1> HIDE DEF e
  <1>6. Dispatch(i, Seen(i, s), s) = [e EXCEPT !.ip = Target(i, s)]
    BY <1>5, IpIs
  <1> QED
    BY <1>3, <1>5, <1>6, NextIs, Ordinarily DEF Goes
\* A number cut twice.
LEMMA FitFit == ASSUME NEW x \in Int, NEW size \in {1, 2, 4}, NEW big \in {1, 2, 4}, size <= big
                PROVE  Fit(Fit(x, big), size) = Fit(x, size)
  <1>1. Fit(x, big) \in Int /\ Fit(x, size) \in Int
    BY FitInt
  <1>2. CASE size = big
    BY <1>2, FitNumber, NumberFit
  <1>3. CASE size = 1 /\ big = 2
    <2>1. (x % 256) % 16 = x % 16
      BY SMT
    <2> QED
      BY <1>1, <1>3, <2>1, Fit1, Fit2
  <1>4. CASE size = 1 /\ big = 4
    <2>1. (x % 65536) % 16 = x % 16
      BY SMT
    <2>2. Fit(Fit(x, 4), 1) = (x % 65536) % 16 /\ Fit(x, 1) = x % 16
      BY <1>1, <1>4, Fit1, Fit4, SMT
    <2> QED
      BY <1>4, <2>1, <2>2
  <1>5. CASE size = 2 /\ big = 4
    <2>1. (x % 65536) % 256 = x % 256
      BY SMT
    <2>2. Fit(Fit(x, 4), 2) = (x % 65536) % 256 /\ Fit(x, 2) = x % 256
      BY <1>1, <1>5, Fit2, Fit4, SMT
    <2> QED
      BY <1>5, <2>1, <2>2
  <1>6. size = big \/ (size = 1 /\ big = 2) \/ (size = 1 /\ big = 4) \/ (size = 2 /\ big = 4)
    BY SMT
  <1> QED
    BY <1>2, <1>3, <1>4, <1>5, <1>6

\* A negative number is cut to the number it was written as.
LEMMA FitSigned == ASSUME NEW size \in {1, 2, 4}, NEW k \in NumbersOf(size)
                   PROVE  Fit(Signed(k, size), size) = k
  <1>1. CASE size = 1
    <2>1. k \in Nat /\ k < 16
      BY <1>1, Power1 DEF NumbersOf
    <2>2. Signed(k, 1) = (IF k >= 8 THEN k - 16 ELSE k)
      BY Half1, Power1 DEF Signed
    <2>3. Signed(k, 1) % 16 = k /\ Signed(k, 1) \in Int
      BY <2>1, <2>2, SMT
    <2> QED
      BY <1>1, <2>3, Fit1
  <1>2. CASE size = 2
    <2>1. k \in Nat /\ k < 256
      BY <1>2, Power2 DEF NumbersOf
    <2>2. Signed(k, 2) = (IF k >= 128 THEN k - 256 ELSE k)
      BY Half2, Power2 DEF Signed
    <2>3. Signed(k, 2) % 256 = k /\ Signed(k, 2) \in Int
      BY <2>1, <2>2, SMT
    <2> QED
      BY <1>2, <2>3, Fit2
  <1>3. CASE size = 4
    <2>1. k \in Nat /\ k < 65536
      BY <1>3, Power4, SMT DEF NumbersOf
    <2>2. Signed(k, 4) = (IF k >= 32768 THEN k - 65536 ELSE k)
      BY Half4, Power4, SMT DEF Signed
    <2>3. Signed(k, 4) % 65536 = k /\ Signed(k, 4) \in Int
      BY <2>1, <2>2, SMT
    <2> QED
      BY <1>3, <2>3, Fit4, SMT
  <1> QED
    BY <1>1, <1>2, <1>3

\* A constant that is extended is the number the processor reads.
LEMMA Extends ==
  ASSUME NEW i, Formed(i), NEW s \in AllContexts, i.item[1].size \in {1, 2, 4}, Same(i) \/ (IsImm(i.item[2]) /\ Narrower(i))
  PROVE  Fit(Extended2(Seen(i, s)), i.item[1].size) = Fit(Value(i.item[2], s), i.item[1].size)
  <1> DEFINE o == i.item[2]
             z == i.item[1].size
             y == Extended2(Seen(i, s))
  <1>1. y = IF z <= o.size THEN Var(o, s) ELSE Fit(Signed(Var(o, s), o.size), z)
    BY SeenItem DEF Extended2, item_sign_ext
  <1>2. z \in {1, 2, 4}
    OBVIOUS
  <1>3. IsPlace(o) \/ IsImm(o)
    <2>1. o = NoItem => o.size = 0
      BY Kinds
    <2> QED
      BY <1>2, <2>1 DEF Formed, Same, IsImm
  <1>4. CASE IsPlace(o)
    <2>1. ~IsImm(o) /\ z = o.size
      BY <1>4, Kinds DEF IsPlace, Same
    <2>2. y = Value(o, s)
      BY <1>1, <1>2, <1>4, <2>1, Operands
    <2> QED
      BY <2>2
  <1>5. CASE IsImm(o)
    <2> DEFINE k == o.k
               g == Signed(k, o.size)
    <2>1. o.size \in {1, 2, 4} /\ k \in NumbersOf(o.size) /\ Var(o, s) = k /\ k \in Int
      BY <1>5, Kinds DEF IsImm, Var, NumbersOf
    <2>2. Value(o, s) = Fit(g, 4) /\ g \in Int
      BY <1>5, ValueIs DEF Operand1
    <2>3. Fit(Value(o, s), z) = Fit(g, z)
      BY <1>2, <2>2, FitFit
    <2>4. o.size <= z
      BY <1>2, <2>1, SMT DEF Same, Narrower
    <2>5. CASE z = o.size
      <3>1. y = k
        BY <1>1, <1>2, <2>1, <2>5
      <3>2. Fit(g, z) = k /\ Fit(k, z) = k
        BY <2>1, <2>5, FitSigned, NumberFit
      <3> QED
        BY <2>3, <3>1, <3>2
    <2>6. CASE z # o.size
      <3>1. ~(z <= o.size)
        BY <1>2, <2>1, <2>4, <2>6, SMT
      <3>2. y = Fit(g, z)
        BY <1>1, <2>1, <3>1
      <3>3. Fit(Fit(g, z), z) = Fit(g, z)
        BY <1>2, <2>2, FitFit
      <3> QED
        BY <2>3, <3>2, <3>3
    <2> QED
      BY <2>5, <2>6
  <1> QED
    BY <1>3, <1>4, <1>5

\* A positive constant is read the same with and without its sign.
LEMMA PositiveIs == ASSUME NEW o, Positive(o), NEW s \in AllContexts
                    PROVE  Value(o, s) = Fit(o.k, 4) /\ Var(o, s) = o.k /\ o.k \in Int /\ IsImm(o)
  <1>1. o.size \in {1, 2, 4} /\ o.k \in NumbersOf(o.size) /\ o.k < 2^(Width(o.size) - 1) /\ IsImm(o)
    BY DEF Positive, IsImm
  <1>2. o.k \in Nat /\ 2^(Width(o.size) - 1) \in Nat
    BY <1>1, HighBit
  <1>3. Signed(o.k, o.size) = o.k
    BY <1>1, <1>2 DEF Signed
  <1> QED
    BY <1>1, <1>2, <1>3, ValueIs, Kinds DEF Operand1, Var

\* A constant that is not extended.
LEMMA Plainly ==
  ASSUME NEW i, Formed(i), NEW s \in AllContexts, i.item[1].size \in {1, 2, 4}, Same(i) \/ (Positive(i.item[2]) /\ Narrower(i))
  PROVE  Fit(Var(i.item[2], s), i.item[1].size) = Fit(Value(i.item[2], s), i.item[1].size)
  <1> DEFINE o == i.item[2]
             z == i.item[1].size
  <1>1. CASE Same(i)
    <2>1. z <= o.size
      BY <1>1, SMT DEF Same
    <2>2. Extended2(Seen(i, s)) = Var(o, s)
      BY <2>1, SeenItem DEF Extended2, item_sign_ext
    <2> QED
      BY <1>1, <2>2, Extends
  <1>2. CASE Positive(o) /\ Narrower(i)
    <2>1. Value(o, s) = Fit(o.k, 4) /\ Var(o, s) = o.k /\ o.k \in Int
      BY <1>2, PositiveIs
    <2> QED
      BY <2>1, FitFit
  <1> QED
    BY <1>1, <1>2

\* How far a number is shifted.
LEMMA Counts == ASSUME NEW o, IsCount(o), NEW s \in AllContexts
                PROVE  Count(Var(o, s)) = Count(Value(o, s))
  <1>1. CASE IsReg(o)
    BY <1>1, Kinds DEF Var
  <1>2. CASE IsImm(o)
    <2>1. o.k \in Nat /\ o.k < 16 /\ Var(o, s) = o.k
      BY <1>2, Kinds, Power1 DEF IsCount, IsImm, NumbersOf, Var
    <2>2. Value(o, s) = Fit(Signed(o.k, 1), 4)
      BY <1>2, ValueIs DEF IsCount, Operand1
    <2>3. Signed(o.k, 1) = (IF o.k >= 8 THEN o.k - 16 ELSE o.k)
      BY Half1, Power1 DEF Signed
    <2>4. Signed(o.k, 1) \in Int
      BY <2>1, <2>3
    <2>5. Value(o, s) = (IF o.k >= 8 THEN o.k - 16 ELSE o.k) % 65536
      BY <2>2, <2>3, <2>4, Fit4, SMT
    <2>6. Value(o, s) % 16 = o.k /\ o.k % 16 = o.k
      BY <2>1, <2>5, SMT
    <2>7. 4 * ByteBits = 16
      BY DEF ByteBits
    <2> QED
      BY <2>1, <2>6, <2>7 DEF Count
  <1> QED
    BY <1>1, <1>2 DEF IsCount
----------------------------------------------------------------------------
(* Each operation is the instruction of its name.                          *)

LEMMA Dispatched1 ==
  ASSUME NEW i, NEW v, NEW s
  PROVE
    /\ i.op = "add" => Dispatch(i, v, s) = Assembled(i.op, i, v, s, Extended2(v))
    /\ i.op = "sub" => Dispatch(i, v, s) = Assembled(i.op, i, v, s, Extended2(v))
    /\ i.op = "adc" => Dispatch(i, v, s) = Assembled(i.op, i, v, s, Extended2(v))
    /\ i.op = "sbb" => Dispatch(i, v, s) = Assembled(i.op, i, v, s, Extended2(v))
    /\ i.op = "and" => Dispatch(i, v, s) = Assembled(i.op, i, v, s, Extended2(v))
    /\ i.op = "or" => Dispatch(i, v, s) = Assembled(i.op, i, v, s, Extended2(v))
  <1>1. ASSUME i.op = "add" PROVE Dispatch(i, v, s) = Assembled(i.op, i, v, s, Extended2(v))
    BY <1>1, Zenon DEF Dispatch, func_op_add
  <1>2. ASSUME i.op = "sub" PROVE Dispatch(i, v, s) = Assembled(i.op, i, v, s, Extended2(v))
    BY <1>2, Zenon DEF Dispatch, func_op_sub
  <1>3. ASSUME i.op = "adc" PROVE Dispatch(i, v, s) = Assembled(i.op, i, v, s, Extended2(v))
    BY <1>3, Zenon DEF Dispatch, func_op_adc
  <1>4. ASSUME i.op = "sbb" PROVE Dispatch(i, v, s) = Assembled(i.op, i, v, s, Extended2(v))
    BY <1>4, Zenon DEF Dispatch, func_op_sbb
  <1>5. ASSUME i.op = "and" PROVE Dispatch(i, v, s) = Assembled(i.op, i, v, s, Extended2(v))
    BY <1>5, Zenon DEF Dispatch, func_op_and
  <1>6. ASSUME i.op = "or" PROVE Dispatch(i, v, s) = Assembled(i.op, i, v, s, Extended2(v))
    BY <1>6, Zenon DEF Dispatch, func_op_or
  <1> QED
    BY <1>1, <1>2, <1>3, <1>4, <1>5, <1>6

LEMMA Dispatched2 ==
  ASSUME NEW i, NEW v, NEW s
  PROVE
    /\ i.op = "not" => Dispatch(i, v, s) = Assembled(i.op, i, v, s, 0)
    /\ i.op = "neg" => Dispatch(i, v, s) = Assembled(i.op, i, v, s, 0)
    /\ i.op = "xor" => Dispatch(i, v, s) = Assembled(i.op, i, v, s, v[2].var)
    /\ i.op = "shl" => Dispatch(i, v, s) = Assembled(i.op, i, v, s, v[2].var)
    /\ i.op = "sal" => Dispatch(i, v, s) = Assembled(i.op, i, v, s, v[2].var)
    /\ i.op = "shr" => Dispatch(i, v, s) = Assembled(i.op, i, v, s, v[2].var)
    /\ i.op = "sar" => Dispatch(i, v, s) = Assembled(i.op, i, v, s, v[2].var)
    /\ i.op = "rol" => Dispatch(i, v, s) = Assembled(i.op, i, v, s, v[2].var)
    /\ i.op = "ror" => Dispatch(i, v, s) = Assembled(i.op, i, v, s, v[2].var)
    /\ i.op = "rcl" => Dispatch(i, v, s) = Assembled(i.op, i, v, s, v[2].var)
    /\ i.op = "rcr" => Dispatch(i, v, s) = Assembled(i.op, i, v, s, v[2].var)
  <1>1. ASSUME i.op = "not" PROVE Dispatch(i, v, s) = Assembled(i.op, i, v, s, 0)
    BY <1>1, Zenon DEF Dispatch, func_op_not
  <1>2. ASSUME i.op = "neg" PROVE Dispatch(i, v, s) = Assembled(i.op, i, v, s, 0)
    BY <1>2, Zenon DEF Dispatch, func_op_neg
  <1>3. ASSUME i.op = "xor" PROVE Dispatch(i, v, s) = Assembled(i.op, i, v, s, v[2].var)
    BY <1>3, Zenon DEF Dispatch, func_op_xor
  <1>4. ASSUME i.op = "shl" PROVE Dispatch(i, v, s) = Assembled(i.op, i, v, s, v[2].var)
    BY <1>4, Zenon DEF Dispatch, func_op_shl
  <1>5. ASSUME i.op = "sal" PROVE Dispatch(i, v, s) = Assembled(i.op, i, v, s, v[2].var)
    BY <1>5, Zenon DEF Dispatch, func_op_sal
  <1>6. ASSUME i.op = "shr" PROVE Dispatch(i, v, s) = Assembled(i.op, i, v, s, v[2].var)
    BY <1>6, Zenon DEF Dispatch, func_op_shr
  <1>7. ASSUME i.op = "sar" PROVE Dispatch(i, v, s) = Assembled(i.op, i, v, s, v[2].var)
    BY <1>7, Zenon DEF Dispatch, func_op_sar
  <1>8. ASSUME i.op = "rol" PROVE Dispatch(i, v, s) = Assembled(i.op, i, v, s, v[2].var)
    BY <1>8, Zenon DEF Dispatch, func_op_rol
  <1>9. ASSUME i.op = "ror" PROVE Dispatch(i, v, s) = Assembled(i.op, i, v, s, v[2].var)
    BY <1>9, Zenon DEF Dispatch, func_op_ror
  <1>10. ASSUME i.op = "rcl" PROVE Dispatch(i, v, s) = Assembled(i.op, i, v, s, v[2].var)
    BY <1>10, Zenon DEF Dispatch, func_op_rcl
  <1>11. ASSUME i.op = "rcr" PROVE Dispatch(i, v, s) = Assembled(i.op, i, v, s, v[2].var)
    BY <1>11, Zenon DEF Dispatch, func_op_rcr
  <1> QED
    BY <1>1, <1>2, <1>3, <1>4, <1>5, <1>6, <1>7, <1>8, <1>9, <1>10, <1>11

Extending == {"add", "sub", "adc", "sbb", "and", "or"}
\* The calculations, one kind after the other.
LEMMA CalculatesExtended ==
  ASSUME NEW i, Formed(i), NEW s \in AllContexts, IsPlace(i.item[1]), i.op \in Extending,
         Same(i) \/ (IsImm(i.item[2]) /\ Narrower(i))
  PROVE  Agree(i, s)
  <1>1. Ordinary(i) /\ Straight(i) /\ i.op \in Results \cap Computed /\ i.op \notin Reads \cup BitOps \cup Shifts
    BY Zenon DEF Ordinary, Straight, Results, Computed, Reads, Extending, BitOps, Strings, Shifts, Rotates
  <1>2. Dispatch(i, Seen(i, s), s) = Assembled(i.op, i, Seen(i, s), s, Extended2(Seen(i, s)))
    BY Dispatched1 DEF Extending
  <1>3. Fit(Extended2(Seen(i, s)), i.item[1].size) = Fit(Value(i.item[2], s), i.item[1].size)
    BY SizesOf, Extends
  <1> QED
    BY <1>1, <1>2, <1>3, AluSame, Assembles

LEMMA CalculatesXor ==
  ASSUME NEW i, Formed(i), NEW s \in AllContexts, IsPlace(i.item[1]), i.op = "xor",
         Same(i) \/ (Positive(i.item[2]) /\ Narrower(i))
  PROVE  Agree(i, s)
  <1>1. Ordinary(i) /\ Straight(i) /\ i.op \in Results \cap Computed /\ i.op \notin Reads \cup BitOps \cup Shifts
    BY Zenon DEF Ordinary, Straight, Results, Computed, Reads, BitOps, Strings, Shifts, Rotates
  <1>2. Dispatch(i, Seen(i, s), s) = Assembled(i.op, i, Seen(i, s), s, Var(i.item[2], s))
    BY Dispatched2, SeenItem
  <1>3. Fit(Var(i.item[2], s), i.item[1].size) = Fit(Value(i.item[2], s), i.item[1].size)
    BY SizesOf, Plainly
  <1> QED
    BY <1>1, <1>2, <1>3, AluSame, Assembles

LEMMA CalculatesAlone ==
  ASSUME NEW i, Formed(i), NEW s \in AllContexts, IsPlace(i.item[1]), i.op \in {"not", "neg"}, i.item[2] = NoItem
  PROVE  Agree(i, s)
  <1>1. Ordinary(i) /\ Straight(i) /\ i.op \in Results \cap Computed /\ i.op \notin Reads \cup BitOps \cup Shifts
    BY Zenon DEF Ordinary, Straight, Results, Computed, Reads, BitOps, Strings, Shifts, Rotates
  <1>2. Dispatch(i, Seen(i, s), s) = Assembled(i.op, i, Seen(i, s), s, 0)
    BY Dispatched2
  <1>3. Value(i.item[2], s) = 0
    BY ValueIs DEF Operand1
  <1> QED
    BY <1>1, <1>2, <1>3, Assembles

LEMMA CalculatesShifts ==
  ASSUME NEW i, Formed(i), NEW s \in AllContexts, IsPlace(i.item[1]), i.op \in Shifts, IsCount(i.item[2])
  PROVE  Agree(i, s)
  <1> DEFINE z == i.item[1].size
             b == Var(i.item[2], s)
             y == Value(i.item[2], s)
  <1>1. Ordinary(i) /\ Straight(i) /\ i.op \in Results \cap Computed /\ i.op \notin Reads \cup BitOps
    BY Zenon DEF Ordinary, Straight, Results, Computed, Reads, BitOps, Strings, Shifts, Rotates
  <1>2. Dispatch(i, Seen(i, s), s) = Assembled(i.op, i, Seen(i, s), s, b)
    BY Dispatched2, SeenItem DEF Shifts, Rotates
  <1>3. Count(b) = Count(y)
    BY Counts
  <1>4. ASSUME NEW a, NEW c PROVE Alu(i.op, z, a, c, s.f) = Shift(i.op, z, Fit(a, z), c, s.f)
    <2>1. ASSUME NEW w PROVE AluFitted(i.op, z, w, c, s.f) = Shift(i.op, z, w, c, s.f)
      BY Zenon DEF AluFitted, Shifts, Rotates, BitOps
    <2> QED
      BY <2>1 DEF Alu
  <1>5. Alu(i.op, z, Value(i.item[1], s), b, s.f) = Alu(i.op, z, Value(i.item[1], s), y, s.f)
    BY <1>3, <1>4 DEF Shift
  <1> QED
    BY <1>1, <1>2, <1>5, Assembles

\* Only the flags are kept.
LEMMA CalculatesTests ==
  ASSUME NEW i, Formed(i), NEW s \in AllContexts, IsPlace(i.item[1]), i.op \in {"cmp", "test"},
         Same(i) \/ (Positive(i.item[2]) /\ Narrower(i))
  PROVE  Agree(i, s)
  <1> DEFINE o == i.item[1]
             b == Value(i.item[2], s)
             x == Alu(i.op, o.size, Value(o, s), b, s.f)
             e == [s EXCEPT !.f = x.f]
  <1>1. Ordinary(i) /\ Straight(i) /\ i.op \in Computed /\ i.op \notin BitOps \cup Shifts /\ i.op \in Reads
    BY Zenon DEF Ordinary, Straight, Computed, Reads, BitOps, Strings, Shifts, Rotates
  <1>2. IsResult(x)
    BY <1>1, Operands, AluIs, ContextFields
  <1>3. Dispatch(i, Seen(i, s), s) = Ip(e)
    <2>1. Dispatch(i, Seen(i, s), s) = Tested(i.op, Seen(i, s), s)
      <3>1. i.op = "cmp" => Dispatch(i, Seen(i, s), s) = Tested(i.op, Seen(i, s), s)
        BY Zenon DEF Dispatch, func_op_cmp
      <3>2. i.op = "test" => Dispatch(i, Seen(i, s), s) = Tested(i.op, Seen(i, s), s)
        BY Zenon DEF Dispatch, func_op_test
      <3> QED
        BY <3>1, <3>2
    <2>2. Fit(Var(i.item[2], s), o.size) = Fit(b, o.size)
      BY SizesOf, Plainly
    <2>3. Seen(i, s)[1].var = Value(o, s) /\ Seen(i, s)[1].size = o.size /\ Seen(i, s)[2].var = Var(i.item[2], s)
      BY Operands, SeenItem
    <2>4. Alu(i.op, o.size, Value(o, s), Var(i.item[2], s), s.f) = x
      BY <1>1, <2>2, AluSame
    <2> QED
      BY <2>1, <2>3, <2>4 DEF Tested, Flags4
  <1>4. Effect(i, s) = [Touch(s, At(o, s), IF InMemory(o) THEN o.size ELSE 0) EXCEPT !.f = x.f]
    <2>1. Effect(i, s) = Calculated(i, s, Far(i, s, At(o, s), b), b)
      BY Zenon DEF Effect, At, Results, Shifts, Rotates, BitOps, Reads, Strings, Adjusts
    <2>2. Far(i, s, At(o, s), b) = At(o, s)
      BY <1>1 DEF Far
    <2>3. Old(i, s, At(o, s)) = Value(o, s)
      BY OldIs
    <2> QED
      BY <1>1, <2>1, <2>2, <2>3 DEF Calculated
  <1> HIDE DEF x
  <1>5. e \in AllContexts /\ e.ip = s.ip
    BY <1>2, WithFlags DEF IsResult
  <1>6. [s EXCEPT !.ok = FALSE] \in AllContexts /\ [s EXCEPT !.ok = s.ok] = s
    BY ContextFields DEF AllContexts
  <1>7. Touch(s, At(o, s), IF InMemory(o) THEN o.size ELSE 0) \in AllContexts
    BY DEF Touch, Readable, AllContexts
  <1>8. Effect(i, s) \in AllContexts
    BY <1>2, <1>4, <1>7, WithFlags DEF IsResult
  <1>9. AllHere(i, s) => Effect(i, s) = e
    <2> SUFFICES ASSUME AllHere(i, s) PROVE Touch(s, At(o, s), IF InMemory(o) THEN o.size ELSE 0) = s
      BY <1>4
    <2>1. Readable(At(o, s), IF InMemory(o) THEN o.size ELSE 0)
      <3>1. CASE InMemory(o)
        BY <3>1 DEF AllHere, Here, At
      <3>2. CASE ~InMemory(o)
        BY <3>2, MemSizeNat DEF At, Readable
      <3> QED
        BY <3>1, <3>2
    <2>2. Touch(s, At(o, s), IF InMemory(o) THEN o.size ELSE 0) = [s EXCEPT !.ok = s.ok]
      BY <2>1, ContextFields DEF Touch
    <2> QED
      BY <2>2, <1>6
  <1> HIDE DEF e
  <1>10. Ip(e) = [e EXCEPT !.ip = Target(i, s)]
    BY <1>1, <1>5, IpIs
  <1>11. AllHere(i, s) => Goes(i, s, Effect(i, s), Dispatch(i, Seen(i, s), s))
    BY <1>3, <1>9, <1>10 DEF Goes
  <1> QED
    BY <1>1, <1>8, <1>11, NextIs, Ordinarily
LEMMA Calculates_inc ==
  ASSUME NEW i, Formed(i), NEW s \in AllContexts, IsPlace(i.item[1]), i.op = "inc", i.item[2] = NoItem
  PROVE  Agree(i, s)
  <1> DEFINE o == i.item[1]
             z == o.size
             a == Value(o, s)
             x == Alu("inc", z, a, 0, s.f)
             c == Fit(a + 1, 4)
             e == Take(o, At(o, s), s, x)
  <1>1. Ordinary(i) /\ Straight(i) /\ i.op \in Results \cap Computed /\ i.op \notin Reads \cup BitOps
    BY Zenon DEF Ordinary, Straight, Results, Computed, Reads, BitOps, Strings, Shifts, Rotates
  <1>2. IsResult(x) /\ At(o, s) \in Int /\ a \in Int /\ a \in NumbersOf(z) /\ z \in {1, 2, 4}
    <2>1. At(o, s) \in Int /\ a \in Int /\ a \in NumbersOf(z) /\ z \in {1, 2, 4}
      BY Operands
    <2>2. "inc" \in Computed /\ 0 \in Int /\ s.f \in SUBSET Flags
      BY ContextFields DEF Computed
    <2>3. IsResult(x)
      BY <2>1, <2>2, AluIs
    <2> QED
      BY <2>1, <2>3
  <1>3. Value(i.item[2], s) = 0
    BY ValueIs DEF Operand1
  <1>4. Effect(i, s) = e
    BY <1>1, <1>3, EffectIs
  <1>5. Dispatch(i, Seen(i, s), s) = Ip([Assign(o, At(o, s), s, c) EXCEPT !.f = x.f])
    <2>1. Dispatch(i, Seen(i, s), s) = func_op_inc(i, Seen(i, s), s)
      BY Zenon DEF Dispatch
    <2>2. Seen(i, s)[1].var = a /\ Seen(i, s)[1].size = z /\ Seen(i, s)[1].addr = At(o, s)
      BY Operands, SeenItem
    <2>3. calc_item(i, 1, Seen(i, s), s, c) = Assign(o, At(o, s), s, c)
      BY <2>2, CalcIs
    <2> QED
      BY <2>1, <2>2, <2>3 DEF func_op_inc, Flags4
  <1>6. Fit(c, z) = Fit(x.r, z)
    <2>1. x.r = Fit(a + 1 + 0, z)
      <3>1. \A w, y : AluFitted("inc", z, w, y, s.f) = KeepCarry(s.f, Sum(z, w, 1, 0, s.f))
        BY Zenon DEF AluFitted, Shifts, Rotates, BitOps
      <3>2. x = KeepCarry(s.f, Sum(z, Fit(a, z), 1, 0, s.f))
        BY <3>1, Zenon DEF Alu
      <3>3. Fit(a, z) = a
        BY <1>2, NumberFit
      <3> QED
        BY <3>2, <3>3 DEF KeepCarry, Sum, Exact, Outcome
    <2>2. a + 1 + 0 = a + 1 /\ a + 1 \in Int
      BY <1>2
    <2>3. Fit(c, z) = Fit(a + 1, z)
      BY <1>2, <2>2, FitFit
    <2>4. Fit(Fit(a + 1, z), z) = Fit(a + 1, z)
      BY <1>2, <2>2, FitFit
    <2> QED
      BY <2>1, <2>2, <2>3, <2>4
  <1>7. c \in Int
    BY <1>2, FitInt
  <1>8. Assign(o, At(o, s), s, c) = Assign(o, At(o, s), s, x.r)
    BY <1>2, <1>6, <1>7, AssignFits DEF IsResult
  <1>9. Dispatch(i, Seen(i, s), s) = Ip(e)
    BY <1>5, <1>8 DEF Take
  <1>10. e \in AllContexts /\ e.ip = s.ip
    BY <1>2, TakeIs
  <1> HIDE DEF e
  <1>11. Dispatch(i, Seen(i, s), s) = [e EXCEPT !.ip = Target(i, s)]
    BY <1>1, <1>9, <1>10, IpIs
  <1> QED
    BY <1>1, <1>4, <1>10, <1>11, NextIs, Ordinarily DEF Goes

LEMMA Calculates_dec ==
  ASSUME NEW i, Formed(i), NEW s \in AllContexts, IsPlace(i.item[1]), i.op = "dec", i.item[2] = NoItem
  PROVE  Agree(i, s)
  <1> DEFINE o == i.item[1]
             z == o.size
             a == Value(o, s)
             x == Alu("dec", z, a, 0, s.f)
             c == Fit(a - 1, 4)
             e == Take(o, At(o, s), s, x)
  <1>1. Ordinary(i) /\ Straight(i) /\ i.op \in Results \cap Computed /\ i.op \notin Reads \cup BitOps
    BY Zenon DEF Ordinary, Straight, Results, Computed, Reads, BitOps, Strings, Shifts, Rotates
  <1>2. IsResult(x) /\ At(o, s) \in Int /\ a \in Int /\ a \in NumbersOf(z) /\ z \in {1, 2, 4}
    <2>1. At(o, s) \in Int /\ a \in Int /\ a \in NumbersOf(z) /\ z \in {1, 2, 4}
      BY Operands
    <2>2. "dec" \in Computed /\ 0 \in Int /\ s.f \in SUBSET Flags
      BY ContextFields DEF Computed
    <2>3. IsResult(x)
      BY <2>1, <2>2, AluIs
    <2> QED
      BY <2>1, <2>3
  <1>3. Value(i.item[2], s) = 0
    BY ValueIs DEF Operand1
  <1>4. Effect(i, s) = e
    BY <1>1, <1>3, EffectIs
  <1>5. Dispatch(i, Seen(i, s), s) = Ip([Assign(o, At(o, s), s, c) EXCEPT !.f = x.f])
    <2>1. Dispatch(i, Seen(i, s), s) = func_op_dec(i, Seen(i, s), s)
      BY Zenon DEF Dispatch
    <2>2. Seen(i, s)[1].var = a /\ Seen(i, s)[1].size = z /\ Seen(i, s)[1].addr = At(o, s)
      BY Operands, SeenItem
    <2>3. calc_item(i, 1, Seen(i, s), s, c) = Assign(o, At(o, s), s, c)
      BY <2>2, CalcIs
    <2> QED
      BY <2>1, <2>2, <2>3 DEF func_op_dec, Flags4
  <1>6. Fit(c, z) = Fit(x.r, z)
    <2>1. x.r = Fit(a - 1 - 0, z)
      <3>1. \A w, y : AluFitted("dec", z, w, y, s.f) = KeepCarry(s.f, Difference(z, w, 1, 0, s.f))
        BY Zenon DEF AluFitted, Shifts, Rotates, BitOps
      <3>2. x = KeepCarry(s.f, Difference(z, Fit(a, z), 1, 0, s.f))
        BY <3>1, Zenon DEF Alu
      <3>3. Fit(a, z) = a
        BY <1>2, NumberFit
      <3> QED
        BY <3>2, <3>3 DEF KeepCarry, Difference, Exact, Outcome
    <2>2. a - 1 - 0 = a - 1 /\ a - 1 \in Int
      BY <1>2
    <2>3. Fit(c, z) = Fit(a - 1, z)
      BY <1>2, <2>2, FitFit
    <2>4. Fit(Fit(a - 1, z), z) = Fit(a - 1, z)
      BY <1>2, <2>2, FitFit
    <2> QED
      BY <2>1, <2>2, <2>3, <2>4
  <1>7. c \in Int
    BY <1>2, FitInt
  <1>8. Assign(o, At(o, s), s, c) = Assign(o, At(o, s), s, x.r)
    BY <1>2, <1>6, <1>7, AssignFits DEF IsResult
  <1>9. Dispatch(i, Seen(i, s), s) = Ip(e)
    BY <1>5, <1>8 DEF Take
  <1>10. e \in AllContexts /\ e.ip = s.ip
    BY <1>2, TakeIs
  <1> HIDE DEF e
  <1>11. Dispatch(i, Seen(i, s), s) = [e EXCEPT !.ip = Target(i, s)]
    BY <1>1, <1>9, <1>10, IpIs
  <1> QED
    BY <1>1, <1>4, <1>10, <1>11, NextIs, Ordinarily DEF Goes

\* A result that goes to the first operand, however it comes about.
LEMMA Taken ==
  ASSUME NEW i, Ordinary(i), IsPlace(i.item[1]), NEW s \in AllContexts, Straight(i), NEW x, IsResult(x),
         Effect(i, s) = Take(i.item[1], At(i.item[1], s), s, x),
         Dispatch(i, Seen(i, s), s) = Result1(i, Seen(i, s), s, x)
  PROVE  Agree(i, s)
  <1> DEFINE e == Take(i.item[1], At(i.item[1], s), s, x)
  <1>1. e \in AllContexts /\ e.ip = s.ip /\ Dispatch(i, Seen(i, s), s) = Ip(e) /\ Effect(i, s) = e
    BY TakeIs DEF Ordinary
  <1> HIDE DEF e
  <1>2. Dispatch(i, Seen(i, s), s) = [e EXCEPT !.ip = Target(i, s)]
    BY <1>1, IpIs
  <1> QED
    BY <1>1, <1>2, NextIs, Ordinarily DEF Goes

LEMMA CalculatesDoubles ==
  ASSUME NEW i, Formed(i), NEW s \in AllContexts, IsPlace(i.item[1]), i.op \in {"shld", "shrd"},
         i.item[1].size > 1, Same(i), IsReg(i.item[2]), IsCount(i.item[3])
  PROVE  Agree(i, s)
  <1> DEFINE o == i.item[1]
             z == o.size
             x == ShiftDouble(i.op, z, Value(o, s), Value(i.item[2], s), Value(i.item[3], s), s.f)
             v == Seen(i, s)
  <1>1. Ordinary(i) /\ Straight(i)
    BY Zenon DEF Ordinary, Straight, BitOps, Strings
  <1>2. /\ v[1].var = Value(o, s) /\ v[1].size = z /\ v[2].var = Value(i.item[2], s) /\ v[3].var = Var(i.item[3], s)
        /\ z \in {1, 2, 4} /\ Value(o, s) \in Int /\ Value(i.item[2], s) \in Int /\ Value(i.item[3], s) \in Int
    <2>1. v[2].var = Value(i.item[2], s)
      BY Operands, SeenItem DEF IsPlace
    <2>2. v[1].var = Value(o, s) /\ v[1].size = z /\ v[3].var = Var(i.item[3], s)
      BY Operands, SeenItem
    <2>3. z \in {1, 2, 4} /\ Value(o, s) \in Int /\ Value(i.item[2], s) \in Int /\ Value(i.item[3], s) \in Int
      BY Operands
    <2> QED
      BY <2>1, <2>2, <2>3
  <1>3. IsResult(x)
    BY <1>2, ShiftDoubleIs, ContextFields
  <1>4. Effect(i, s) = Take(o, At(o, s), s, x)
    BY Zenon DEF Effect, At, Results, Shifts, Rotates, BitOps, Reads, Strings, Adjusts
  <1>5. Count(Var(i.item[3], s)) = Count(Value(i.item[3], s))
    BY Counts
  <1>6. ShiftDouble(i.op, z, Value(o, s), Value(i.item[2], s), Var(i.item[3], s), s.f) = x
    BY <1>5 DEF ShiftDouble
  <1>7. Dispatch(i, v, s) = Double(i.op, i, v, s)
    <2>1. i.op = "shld" => Dispatch(i, v, s) = Double(i.op, i, v, s)
      BY Zenon DEF Dispatch, func_op_shld
    <2>2. i.op = "shrd" => Dispatch(i, v, s) = Double(i.op, i, v, s)
      BY Zenon DEF Dispatch, func_op_shrd
    <2> QED
      BY <2>1, <2>2
  <1>8. z # 1
    BY <1>2, SMT
  <1>9. Dispatch(i, v, s) = Result1(i, v, s, x)
    BY <1>2, <1>6, <1>7, <1>8 DEF Double, NotBytes
  <1> HIDE DEF x
  <1> QED
    BY <1>1, <1>3, <1>4, <1>9, Taken
\* An instruction that does the same on both sides and then moves on.
LEMMA MovesOn ==
  ASSUME NEW i, Ordinary(i), NEW s \in AllContexts, Straight(i), NEW e \in AllContexts, e.ip = s.ip,
         Effect(i, s) = e, AllHere(i, s) => Dispatch(i, Seen(i, s), s) = Ip(e)
  PROVE  Agree(i, s)
  <1>1. AllHere(i, s) => Dispatch(i, Seen(i, s), s) = [e EXCEPT !.ip = Target(i, s)]
    BY IpIs
  <1> QED
    BY <1>1, NextIs, Ordinarily DEF Goes

LEMMA CalculatesProducts ==
  ASSUME NEW i, Formed(i), NEW s \in AllContexts, IsPlace(i.item[1]), i.op = "imul", i.item[1].size > 1, Same(i),
         \/ i.item[3] = NoItem
         \/ IsImm(i.item[3]) /\ (i.item[3].size = i.item[1].size \/ (Positive(i.item[3]) /\ i.item[3].size = 1))
  PROVE  Agree(i, s)
  <1> DEFINE o == i.item[1]
             z == o.size
             v == Seen(i, s)
             a == IF i.item[3].t = "none" THEN Value(o, s) ELSE Value(i.item[2], s)
             b == IF i.item[3].t = "none" THEN Value(i.item[2], s) ELSE Value(i.item[3], s)
             x == Alu("imul", z, a, b, s.f)
  <1>1. Ordinary(i) /\ Straight(i)
    BY Zenon DEF Ordinary, Straight, BitOps, Strings
  <1>2. /\ z \in {1, 2, 4} /\ Value(o, s) \in Int /\ Value(i.item[2], s) \in Int /\ Value(i.item[3], s) \in Int
        /\ v[1].var = Value(o, s) /\ v[1].size = z
        /\ v[2].var = Var(i.item[2], s) /\ v[2].size = z /\ v[3].var = Var(i.item[3], s) /\ v[3].size = i.item[3].size
    <2>1. z \in {1, 2, 4} /\ Value(o, s) \in Int /\ Value(i.item[2], s) \in Int /\ Value(i.item[3], s) \in Int
      BY Operands
    <2>2. v[1].var = Value(o, s) /\ v[1].size = z
      BY Operands, SeenItem
    <2>3. v[2].var = Var(i.item[2], s) /\ v[2].size = z /\ v[3].var = Var(i.item[3], s) /\ v[3].size = i.item[3].size
      BY SeenItem DEF Same
    <2> QED
      BY <2>1, <2>2, <2>3
  <1>3. z # 1 /\ z \in {2, 4}
    BY <1>2, SMT
  <1>4. i.item[2].t # "none"
    <2>1. i.item[2] = NoItem => i.item[2].size = 0
      BY Kinds
    <2>2. i.item[2] # NoItem
      BY <1>2, <2>1, SMT DEF Same
    <2> QED
      BY <2>2, Kinds DEF Formed, IsPlace, IsReg
  <1>5. Effect(i, s) = Take(o, At(o, s), s, x)
    BY <1>4, Zenon DEF Effect, At, Results, Shifts, Rotates, BitOps, Reads, Strings, Adjusts
  <1>6. IsResult(x)
    <2>1. "imul" \in Computed /\ s.f \in SUBSET Flags
      BY ContextFields DEF Computed
    <2>2. a \in Int /\ b \in Int
      BY <1>2
    <2> QED
      BY <1>2, <2>1, <2>2, AluIs
  <1>7. "imul" \notin Shifts
    BY DEF Shifts, Rotates
  <1>8. Fit(Var(i.item[2], s), z) = Fit(Value(i.item[2], s), z)
    BY <1>2, Plainly
  <1>9. Dispatch(i, v, s) = func_op_imul(i, v, s)
    BY Zenon DEF Dispatch
  <1>10. CASE i.item[3] = NoItem
    <2>1. i.item[3].t = "none"
      BY <1>10, Kinds
    <2>2. func_op_imul(i, v, s) = func_op_imul2(i, v, s)
      BY <1>4, <2>1, Zenon DEF func_op_imul
    <2>3. func_op_imul2(i, v, s) = Result1(i, v, s, Alu("imul", z, Value(o, s), Var(i.item[2], s), s.f))
      BY <1>2, <1>3 DEF func_op_imul2, NotBytes, Assembled
    <2>4. Alu("imul", z, Value(o, s), Var(i.item[2], s), s.f) = x
      BY <1>7, <1>8, <2>1, AluSame
    <2> HIDE DEF x
    <2> QED
      BY <1>1, <1>5, <1>6, <1>9, <2>2, <2>3, <2>4, Taken
  <1>11. CASE IsImm(i.item[3]) /\ (i.item[3].size = z \/ (Positive(i.item[3]) /\ i.item[3].size = 1))
    <2>1. i.item[3].t # "none"
      BY <1>11, Kinds
    <2>2. func_op_imul(i, v, s) = func_op_imul3(i, v, s)
      BY <1>4, <2>1, Zenon DEF func_op_imul
    <2>3. v[3].size \in {1, v[1].size}
      BY <1>2, <1>11
    <2>4. func_op_imul3(i, v, s) = Result1(i, v, s, Alu("imul", z, Var(i.item[2], s), Var(i.item[3], s), s.f))
      BY <1>2, <1>3, <2>3 DEF func_op_imul3
    <2>5. Fit(Var(i.item[3], s), z) = Fit(Value(i.item[3], s), z)
      <3>1. CASE i.item[3].size = z
        <4> DEFINE k == i.item[3].k
                   g == Signed(k, z)
        <4>1. k \in NumbersOf(z) /\ Var(i.item[3], s) = k
          BY <1>11, <3>1, Kinds DEF IsImm, Var
        <4>2. Value(i.item[3], s) = Fit(g, 4) /\ g \in Int
          BY <1>11, <3>1, ValueIs DEF Operand1
        <4>3. Fit(Fit(g, 4), z) = Fit(g, z)
          BY <1>2, <4>2, FitFit
        <4> QED
          BY <1>2, <4>1, <4>2, <4>3, FitSigned, NumberFit
      <3>2. CASE Positive(i.item[3])
        <4>1. Value(i.item[3], s) = Fit(i.item[3].k, 4) /\ Var(i.item[3], s) = i.item[3].k /\ i.item[3].k \in Int
          BY <3>2, PositiveIs
        <4> QED
          BY <1>2, <4>1, FitFit
      <3> QED
        BY <1>11, <3>1, <3>2
    <2>6. Alu("imul", z, Var(i.item[2], s), Var(i.item[3], s), s.f) = x
      <3>1. \A p1, q1, p2, q2 : Fit(p1, z) = Fit(p2, z) /\ Fit(q1, z) = Fit(q2, z)
              => Alu("imul", z, p1, q1, s.f) = Alu("imul", z, p2, q2, s.f)
        BY <1>7 DEF Alu
      <3> QED
        BY <1>8, <2>1, <2>5, <3>1
    <2> HIDE DEF x
    <2> QED
      BY <1>1, <1>5, <1>6, <1>9, <2>2, <2>4, <2>6, Taken
  <1> QED
    BY <1>10, <1>11
LEMMA SpliceIs == ASSUME NEW x \in Word, NEW y \in Int
    PROVE  /\ \A size \in {1, 2, 4} : Splice(x, 0, size, y) \in Word
           /\ Splice(x, 1, 1, y) \in Word /\ Splice(x, 2, 2, y) \in Word
  BY Splice01, Splice02, Splice04, Splice11, Splice22

LEMMA Words == \A x \in Word : x \in Int /\ x \in Nat
  BY DEF Word, Below

LEMMA TakeEaxIs == ASSUME NEW s \in AllContexts, NEW x, x.eax \in Int, x.f \in SUBSET Flags
                   PROVE  TakeEax(s, x) \in AllContexts /\ TakeEax(s, x).ip = s.ip
  <1>1. Put(s, "eax", x.eax) \in AllContexts /\ Put(s, "eax", x.eax).ip = s.ip
    BY PutIs DEF Registers
  <1> QED
    BY <1>1, WithFlags DEF TakeEax

\* mul, div, imul and idiv write eax, edx and the flags.
LEMMA WideIs ==
  ASSUME NEW op, NEW size \in {1, 2, 4}, NEW s \in AllContexts, NEW x \in Int
  PROVE  LET w == Wide(op, size, s.r["edx"], s.r["eax"], x, s.f)
         IN  TakeWide(s, w) \in AllContexts /\ TakeWide(s, w).ip = s.ip
  <1> DEFINE w == Wide(op, size, s.r["edx"], s.r["eax"], x, s.f)
             edx == s.r["edx"]
             eax == s.r["eax"]
             k == IF op \in {"mul", "imul"} THEN 1 ELSE 2
             lo == Mixed(Fit(eax, size), Fit(x, size), k, size)
             hi == Mixed(Fit(x, size), Fit(eax, size), IF k = 1 THEN 0 ELSE edx, size)
  <1>1. edx \in Word /\ eax \in Word /\ edx \in Int /\ eax \in Int
    BY ContextFields, Words DEF Registers
  <1> HIDE DEF edx, eax
  <1>2. Fit(eax, size) \in Int /\ Fit(x, size) \in Int /\ k \in Int /\ (IF k = 1 THEN 0 ELSE edx) \in Int
    BY <1>1, FitInt
  <1>3. lo \in Int /\ hi \in Int
    BY <1>2, MixedIs
  <1>4. /\ w.edx = IF size = 1 THEN edx ELSE Splice(edx, 0, size, hi)
        /\ w.eax = IF size = 1 THEN Splice(Splice(eax, 0, 1, lo), 1, 1, hi) ELSE Splice(eax, 0, size, lo)
        /\ w.f = Outcome(lo, size, Bit(hi, 0), Bit(hi, 0), s.f).f
    BY DEF Wide, edx, eax
  <1> HIDE DEF lo, hi, w
  <1>5. w.f \in SUBSET Flags
    BY <1>3, <1>4, OutcomeIs DEF IsResult
  <1>6. w.edx \in Int /\ w.eax \in Int
    <2>1. Splice(eax, 0, 1, lo) \in Word /\ Splice(edx, 0, size, hi) \in Word /\ Splice(eax, 0, size, lo) \in Word
      BY <1>1, <1>3, SpliceIs
    <2>2. Splice(Splice(eax, 0, 1, lo), 1, 1, hi) \in Word
      BY <1>3, <2>1, SpliceIs
    <2>3. w.edx \in Word /\ w.eax \in Word
      BY <1>1, <1>4, <2>1, <2>2
    <2> QED
      BY <2>3, Words
  <1> DEFINE t == Put(s, "edx", w.edx)
  <1>7. t \in AllContexts /\ t.ip = s.ip
    BY <1>6, PutIs DEF Registers
  <1>8. TakeWide(s, w) = TakeEax(t, w)
    BY DEF TakeWide
  <1> HIDE DEF t
  <1> QED
    BY <1>5, <1>6, <1>7, <1>8, TakeEaxIs DEF w

LEMMA CalculatesWide ==
  ASSUME NEW i, Formed(i), NEW s \in AllContexts, IsPlace(i.item[1]),
         i.op \in {"mul", "div", "idiv"} \/ (i.op = "imul" /\ i.item[2] = NoItem)
  PROVE  Agree(i, s)
  <1> DEFINE v == Seen(i, s)
             w == Wide(i.op, i.item[1].size, s.r["edx"], s.r["eax"], Value(i.item[1], s), s.f)
             e == TakeWide(s, w)
  <1>1. Ordinary(i) /\ Straight(i)
    BY Zenon DEF Ordinary, Straight, BitOps, Strings
  <1>2. Effect(i, s) = e
    <2>1. i.item[2] = NoItem => i.item[2].t = "none"
      BY Kinds
    <2> QED
      BY <2>1, Zenon DEF Effect, At, Results, Shifts, Rotates, BitOps, Reads, Strings, Adjusts
  <1>3. v[1].var = Value(i.item[1], s) /\ v[1].size = i.item[1].size
    BY Operands, SeenItem
  <1>4. Dispatch(i, v, s) = Widely(i.op, v, s)
    <2>1. i.op = "mul" => Dispatch(i, v, s) = Widely(i.op, v, s)
      BY Zenon DEF Dispatch, func_op_mul
    <2>2. i.op = "div" => Dispatch(i, v, s) = Widely(i.op, v, s)
      BY Zenon DEF Dispatch, func_op_div
    <2>3. i.op = "idiv" => Dispatch(i, v, s) = Widely(i.op, v, s)
      BY Zenon DEF Dispatch, func_op_idiv
    <2>4. ASSUME i.op = "imul", i.item[2] = NoItem PROVE Dispatch(i, v, s) = Widely(i.op, v, s)
      <3>1. Dispatch(i, v, s) = func_op_imul(i, v, s)
        BY <2>4, Zenon DEF Dispatch
      <3>2. i.item[2].t = "none"
        BY <2>4, Kinds
      <3>3. func_op_imul(i, v, s) = func_op_imul1(i, v, s)
        BY <3>2, Zenon DEF func_op_imul
      <3> QED
        BY <2>4, <3>1, <3>3 DEF func_op_imul1
    <2> QED
      BY <2>1, <2>2, <2>3, <2>4
  <1>5. Dispatch(i, v, s) = Ip(e)
    BY <1>3, <1>4 DEF Widely
  <1>6. e \in AllContexts /\ e.ip = s.ip
    <2>1. i.item[1].size \in {1, 2, 4} /\ Value(i.item[1], s) \in Int
      BY Operands
    <2> QED
      BY <2>1, WideIs
  <1> HIDE DEF e
  <1> QED
    BY <1>1, <1>2, <1>5, <1>6, MovesOn

LEMMA CalculatesXadd ==
  ASSUME NEW i, Formed(i), NEW s \in AllContexts, IsPlace(i.item[1]), i.op = "xadd", Same(i), IsReg(i.item[2])
  PROVE  Agree(i, s)
  <1> DEFINE v == Seen(i, s)
             o == i.item[1]
             z == o.size
             a == Value(o, s)
             b == Value(i.item[2], s)
             t == Assign(i.item[2], 0, s, a)
             x == Sum(z, a, b, 0, s.f)
             u == Assign(o, At(o, s), t, x.r)
             e == [u EXCEPT !.f = x.f]
  <1>1. Ordinary(i) /\ Straight(i)
    BY Zenon DEF Ordinary, Straight, BitOps, Strings
  <1>2. z \in {1, 2, 4} /\ a \in NumbersOf(z) /\ a \in Int /\ At(o, s) \in Int
    BY Operands
  <1>3. IsPlace(i.item[2]) /\ At(i.item[2], s) = 0 /\ 0 \in Int
    BY Kinds DEF IsPlace, At
  <1>4. b \in NumbersOf(z) /\ b \in Int
    BY <1>3, Operands DEF Same
  <1>5. v[1].var = a /\ v[1].size = z /\ v[1].addr = At(o, s)
    BY Operands, SeenItem
  <1>6. v[2].var = b /\ v[2].addr = 0 /\ v[2].size = i.item[2].size
    BY <1>3, Operands, SeenItem
  <1>7. Effect(i, s) = e
    <2>1. Effect(i, s) = Take(o, At(o, s), t, x)
      BY Zenon DEF Effect, At, Results, Shifts, Rotates, BitOps, Reads, Strings, Adjusts
    <2> QED
      BY <2>1 DEF Take
  <1>8. t \in AllContexts /\ t.ip = s.ip /\ t.f = s.f
    BY <1>2, <1>3, AssignIs
  <1>9. IsResult(x)
    BY <1>2, <1>4, SumIs
  <1>10. Alu("add", z, a, b, s.f) = x
    <2>1. \A p1, q1 : AluFitted("add", z, p1, q1, s.f) = Sum(z, p1, q1, 0, s.f)
      BY Zenon DEF AluFitted, Shifts, Rotates, BitOps
    <2>2. Fit(a, z) = a /\ Fit(b, z) = b
      BY <1>2, <1>4, NumberFit
    <2>3. "add" \notin Shifts
      BY DEF Shifts, Rotates
    <2> QED
      BY <2>1, <2>2, <2>3 DEF Alu
  <1>11. Dispatch(i, v, s) = Assembled("add", i, v, calc_item(i, 2, v, s, v[1].var), v[2].var)
    BY Zenon DEF Dispatch, func_op_xadd
  <1>12. calc_item(i, 2, v, s, v[1].var) = t
    BY <1>3, <1>5, <1>6, CalcIs
  <1> HIDE DEF t, x
  <1>13. calc_item(i, 1, v, t, x.r) = u
    BY <1>5, CalcIs
  <1>14. u \in AllContexts /\ u.ip = s.ip
    BY <1>2, <1>8, <1>9, AssignIs DEF IsResult
  <1> HIDE DEF u
  <1>15. Dispatch(i, v, s) = Ip(e)
    BY <1>5, <1>6, <1>8, <1>10, <1>11, <1>12, <1>13 DEF Assembled, Result1, Flags4
  <1>16. e \in AllContexts /\ e.ip = s.ip
    BY <1>9, <1>14, WithFlags DEF IsResult
  <1> HIDE DEF e
  <1> QED
    BY <1>1, <1>7, <1>15, <1>16, MovesOn
----------------------------------------------------------------------------
(* Operations on a bit.                                                    *)

LEMMA AssignOk == ASSUME NEW s \in AllContexts, NEW o, IsPlace(o), NEW a \in Int, NEW x \in Int
    PROVE  Assign(o, At(o, s), s, x).ok = (s.ok /\ Here(o, s))
  <1>1. CASE IsReg(o)
    <2>1. o.def[1] \in Registers /\ o.def[2] \in Parts
      BY <1>1 DEF IsReg, Parts
    <2>2. SetPart(s.r[o.def[1]], o.def[2], x) \in Word
      BY <2>1, ContextFields, SetParts
    <2>3. Assign(o, At(o, s), s, x) = [s EXCEPT !.r[o.def[1]] = SetPart(s.r[o.def[1]], o.def[2], x)]
      BY <1>1, Kinds DEF Assign
    <2>4. Here(o, s)
      BY <1>1, Kinds DEF Here
    <2>5. Assign(o, At(o, s), s, x).ok = s.ok
      BY <2>1, <2>2, <2>3, RegIs
    <2> QED
      BY <2>4, <2>5, ContextFields
  <1>2. CASE IsMem(o)
    <2>1. Assign(o, At(o, s), s, x) = Store(s, At(o, s), x, o.size)
      BY <1>2, Kinds DEF Assign
    <2>2. At(o, s) = Address(o, s) /\ At(o, s) \in Int /\ (Here(o, s) <=> Readable(Address(o, s), o.size))
      BY <1>2, Kinds, AddressIs, Words DEF At, Here
    <2>3. Store(s, At(o, s), x, o.size).ok = (s.ok /\ Readable(At(o, s), o.size))
      BY <2>2, SizesOf, StoreIs
    <2> QED
      BY <2>1, <2>2, <2>3
  <1> QED
    BY <1>1, <1>2 DEF IsPlace

\* An operand that is looked at and not changed.
LEMMA TouchIs == ASSUME NEW s \in AllContexts, NEW o, IsPlace(o)
    PROVE  LET t == Touch(s, At(o, s), IF InMemory(o) THEN o.size ELSE 0)
           IN  t \in AllContexts /\ t.ip = s.ip /\ t.ok = (s.ok /\ Here(o, s)) /\ (Here(o, s) => t = s)
  <1> DEFINE ok == s.ok /\ Readable(At(o, s), IF InMemory(o) THEN o.size ELSE 0)
  <1>1. Readable(At(o, s), IF InMemory(o) THEN o.size ELSE 0) <=> Here(o, s)
    <2>1. CASE InMemory(o)
      BY <2>1 DEF Here, At
    <2>2. CASE ~InMemory(o)
      BY <2>2, MemSizeNat DEF At, Here, Readable
    <2> QED
      BY <2>1, <2>2
  <1>2. ok \in BOOLEAN /\ (ok <=> s.ok /\ Here(o, s)) /\ (Here(o, s) => ok = s.ok)
    BY <1>1, ContextFields
  <1>3. Touch(s, At(o, s), IF InMemory(o) THEN o.size ELSE 0) = [s EXCEPT !.ok = ok]
    BY DEF Touch
  <1> HIDE DEF ok
  <1>4. [s EXCEPT !.ok = ok] \in AllContexts /\ [s EXCEPT !.ok = ok].ip = s.ip /\ [s EXCEPT !.ok = ok].ok = ok
    BY <1>2 DEF AllContexts
  <1>5. [s EXCEPT !.ok = s.ok] = s
    BY DEF AllContexts
  <1> QED
    BY <1>2, <1>3, <1>4, <1>5, ContextFields

\* A bit of a number is the same bit of the number with its sign.
LEMMA BitCount == ASSUME NEW o, IsCount(o), NEW s \in AllContexts, NEW size \in {2, 4}
    PROVE  Fit(Var(o, s), size) % Width(size) = Fit(Value(o, s), size) % Width(size)
  <1>1. CASE IsReg(o)
    BY <1>1, Kinds DEF Var
  <1>2. CASE IsImm(o)
    <2>1. o.k \in Nat /\ o.k < 16 /\ Var(o, s) = o.k
      BY <1>2, Kinds, Power1 DEF IsCount, IsImm, NumbersOf, Var
    <2>2. Value(o, s) = Fit(Signed(o.k, 1), 4)
      BY <1>2, ValueIs DEF IsCount, Operand1
    <2>3. Signed(o.k, 1) = (IF o.k >= 8 THEN o.k - 16 ELSE o.k)
      BY Half1, Power1 DEF Signed
    <2> DEFINE g == IF o.k >= 8 THEN o.k - 16 ELSE o.k
    <2>4. g \in Int /\ o.k \in Int
      BY <2>1
    <2>5. Fit(Value(o, s), size) = Fit(g, size)
      BY <2>2, <2>3, <2>4, FitFit
    <2>6. CASE size = 2
      <3>1. Width(size) = 8
        BY <2>6 DEF Width, ByteBits
      <3>2. Fit(g, size) = g % 256 /\ Fit(o.k, size) = o.k % 256
        BY <2>4, <2>6, Fit2
      <3>3. (g % 256) % 8 = (o.k % 256) % 8
        BY <2>1, SMT
      <3> QED
        BY <2>1, <2>5, <3>1, <3>2, <3>3
    <2>7. CASE size = 4
      <3>1. Width(size) = 16
        BY <2>7 DEF Width, ByteBits
      <3>2. Fit(g, size) = g % 65536 /\ Fit(o.k, size) = o.k % 65536
        BY <2>4, <2>7, Fit4, SMT
      <3>3. (g % 65536) % 16 = (o.k % 65536) % 16
        BY <2>1, SMT
      <3> QED
        BY <2>1, <2>5, <3>1, <3>2, <3>3
    <2> QED
      BY <2>6, <2>7
  <1> QED
    BY <1>1, <1>2 DEF IsCount

\* Bits of operands by number.
LEMMA CalculatesBits ==
  ASSUME NEW i, Formed(i), NEW s \in AllContexts, IsPlace(i.item[1]), i.op \in BitOps, i.item[1].size > 1, i.item[3] = NoItem,
         IsImm(i.item[2]) \/ (IsReg(i.item[1]) /\ IsReg(i.item[2])), Same(i) \/ IsCount(i.item[2])
  PROVE  Agree(i, s)
  <1> DEFINE v == Seen(i, s)
             o == i.item[1]
             z == o.size
             a == Value(o, s)
             b == Value(i.item[2], s)
             x == Alu(i.op, z, a, b, s.f)
             e == Effect(i, s)
             d == Dispatch(i, v, s)
  <1>1. Straight(i) /\ i.op \notin {"lea", "pop", "push"} /\ i.op \in Computed /\ i.op \notin Shifts
        /\ i.op \in Results \cup Reads /\ (i.op \in Reads <=> i.op = "bt")
    BY Zenon DEF Straight, BitOps, Computed, Shifts, Rotates, Results, Reads
  <1>2. z \in {2, 4} /\ z \in {1, 2, 4} /\ a \in Int /\ b \in Int /\ At(o, s) \in Int
    BY Operands
  <1>3. IsResult(x)
    BY <1>1, <1>2, AluIs, ContextFields
  <1>4. ~Faults(i, s)
    BY DEF Faults
  <1>5. AllHere(i, s) <=> Here(o, s)
    <2>1. Here(i.item[2], s) /\ Here(i.item[3], s)
      BY Kinds DEF Here
    <2> QED
      BY <2>1 DEF AllHere
  <1>6. Alu(i.op, z, a, Var(i.item[2], s), s.f) = x
    <2>1. \A c, w : AluFitted(i.op, z, c, w, s.f) = BitOp(i.op, c, w % Width(z), s.f)
      BY Zenon DEF AluFitted, Shifts, Rotates, BitOps
    <2>2. CASE Same(i)
      BY <1>1, <1>2, <2>2, Plainly, AluSame
    <2>3. CASE IsCount(i.item[2])
      <3>1. Fit(Var(i.item[2], s), z) % Width(z) = Fit(b, z) % Width(z)
        BY <1>2, <2>3, BitCount
      <3> QED
        BY <1>1, <2>1, <3>1 DEF Alu
    <2> QED
      BY <2>2, <2>3
  <1>7. v[1].var = a /\ v[1].size = z /\ v[2].var = Var(i.item[2], s) /\ v[2].size = i.item[2].size
    BY Operands, SeenItem
  <1>8. v[1].size > 1 /\ v[2].size \in {1, v[1].size}
    BY <1>2, <1>7 DEF Same, IsCount
  <1>9. e = Calculated(i, s, At(o, s), b)
    <2>1. e = Calculated(i, s, Far(i, s, At(o, s), b), b)
      BY <1>1, Zenon DEF Effect, At, Results, Shifts, Rotates, BitOps, Reads, Strings, Adjusts
    <2>2. ~InMemory(o) \/ i.item[2].t # "REG"
      BY Kinds
    <2> QED
      BY <2>1, <2>2 DEF Far
  <1>10. Old(i, s, At(o, s)) = a
    BY OldIs
  <1> HIDE DEF x
  <1>11. CASE i.op = "bt"
    <2> DEFINE t == Touch(s, At(o, s), IF InMemory(o) THEN z ELSE 0)
    <2>1. e = [t EXCEPT !.f = x.f]
      BY <1>1, <1>9, <1>10, <1>11 DEF Calculated, x
    <2>2. t \in AllContexts /\ t.ip = s.ip /\ t.ok = (s.ok /\ Here(o, s)) /\ (Here(o, s) => t = s)
      BY TouchIs
    <2>3. d = Ip([s EXCEPT !.f = x.f])
      <3>1. d = func_op_bt(i, v, s)
        BY <1>11, Zenon DEF Dispatch
      <3> QED
        BY <1>6, <1>7, <1>8, <1>11, <3>1 DEF func_op_bt, BitSizes, Tested, Flags4
    <2> HIDE DEF t
    <2>4. e \in AllContexts /\ e.ip = s.ip /\ e.ok = t.ok
      BY <1>3, <2>1, <2>2, WithFlags DEF IsResult, AllContexts
    <2>5. Here(o, s) => d = Ip(e)
      BY <2>1, <2>2, <2>3
    <2> HIDE DEF e, d
    <2>6. Here(o, s) => Goes(i, s, e, d)
      BY <1>1, <2>4, <2>5, IpIs DEF Goes
    <2>7. ~Here(o, s) => ~e.ok
      BY <2>2, <2>4
    <2> QED
      BY <1>1, <1>4, <1>5, <2>4, <2>6, <2>7, SeenIs, NextIs, Framed DEF e, d
  <1>12. CASE i.op # "bt"
    <2> DEFINE u == Assign(o, At(o, s), s, x.r)
    <2>1. e = [u EXCEPT !.f = x.f] /\ e = Take(o, At(o, s), s, x)
      BY <1>1, <1>9, <1>10, <1>12 DEF Calculated, Take, x
    <2>2. u \in AllContexts /\ u.ok = (s.ok /\ Here(o, s))
      BY <1>2, <1>3, AssignIs, AssignOk DEF IsResult
    <2>3. d = Result1(i, v, s, x)
      <3>1. d = BitSizes(v, s, Assembled(i.op, i, v, s, v[2].var))
        <4>1. i.op = "btc" => d = BitSizes(v, s, Assembled(i.op, i, v, s, v[2].var))
          BY Zenon DEF Dispatch, func_op_btc
        <4>2. i.op = "btr" => d = BitSizes(v, s, Assembled(i.op, i, v, s, v[2].var))
          BY Zenon DEF Dispatch, func_op_btr
        <4>3. i.op = "bts" => d = BitSizes(v, s, Assembled(i.op, i, v, s, v[2].var))
          BY Zenon DEF Dispatch, func_op_bts
        <4> QED
          BY <1>12, <4>1, <4>2, <4>3 DEF BitOps
      <3> QED
        BY <1>6, <1>7, <1>8, <3>1 DEF BitSizes, Assembled
    <2>4. e \in AllContexts /\ e.ip = s.ip /\ d = Ip(e)
      <3>1. Take(o, At(o, s), s, x) \in AllContexts /\ Take(o, At(o, s), s, x).ip = s.ip /\ Result1(i, v, s, x) = Ip(Take(o, At(o, s), s, x))
        BY <1>3, TakeIs
      <3> HIDE DEF e, d
      <3> QED
        BY <2>1, <2>3, <3>1
    <2> HIDE DEF u
    <2>5. e.ok = u.ok
      BY <2>1, <2>2 DEF AllContexts
    <2> HIDE DEF e, d
    <2>6. Goes(i, s, e, d)
      BY <1>1, <2>4, IpIs DEF Goes
    <2>7. ~Here(o, s) => ~e.ok
      BY <2>2, <2>5
    <2> QED
      BY <1>1, <1>4, <1>5, <2>4, <2>6, <2>7, SeenIs, NextIs, Framed DEF e, d
  <1> QED
    BY <1>11, <1>12

\* The scans for the first and the last bit that is set.
LEMMA CalculatesScans ==
  ASSUME NEW i, Formed(i), NEW s \in AllContexts, IsPlace(i.item[1]), i.op \in {"bsf", "bsr"}, i.item[1].size > 1, Same(i)
  PROVE  Agree(i, s)
  <1>1. Ordinary(i) /\ Straight(i) /\ i.op \in Results \cap Computed /\ i.op \notin Reads \cup BitOps \cup Shifts
    BY Zenon DEF Ordinary, Straight, Results, Computed, Reads, BitOps, Strings, Shifts, Rotates
  <1>2. Dispatch(i, Seen(i, s), s) = Assembled(i.op, i, Seen(i, s), s, Var(i.item[2], s))
    <2>1. Seen(i, s)[1].size # 1 /\ Seen(i, s)[2].var = Var(i.item[2], s)
      BY SeenItem, SizesOf, SMT
    <2>2. CASE i.op = "bsf"
      BY <2>1, <2>2, Zenon DEF Dispatch, func_op_bsf, NotBytes
    <2>3. CASE i.op = "bsr"
      BY <2>1, <2>3, Zenon DEF Dispatch, func_op_bsr, NotBytes
    <2> QED
      BY <2>2, <2>3
  <1>3. Fit(Var(i.item[2], s), i.item[1].size) = Fit(Value(i.item[2], s), i.item[1].size)
    BY SizesOf, Plainly
  <1> QED
    BY <1>1, <1>2, <1>3, AluSame, Assembles

----------------------------------------------------------------------------
(* Instructions that have no operands.                                     *)

LEMMA AdjustIs == ASSUME NEW op, NEW s \in AllContexts
    PROVE  LET x == Adjust(op, s.r["eax"], s.f) IN TakeEax(s, x) \in AllContexts /\ TakeEax(s, x).ip = s.ip
  <1> DEFINE x == Adjust(op, s.r["eax"], s.f)
             eax == s.r["eax"]
             n == IF op \in {"daa", "das"} THEN 1 ELSE 2
             c == IF op \in {"aaa", "aam", "daa"} THEN 1 ELSE 2
             r == Mixed(Fit(eax, n), Carry(s.f), c, n)
  <1>1. eax \in Word /\ eax \in Int /\ n \in {1, 2, 4} /\ c \in Int /\ Carry(s.f) \in Int
    BY ContextFields, Words, CarryIs DEF Registers
  <1>2. x.eax = Splice(eax, 0, n, r) /\ x.f = Outcome(r, n, ~Bit(eax, 0), FALSE, s.f).f
    BY DEF Adjust
  <1> HIDE DEF eax, n, c
  <1>3. r \in Int
    BY <1>1, FitInt, MixedIs
  <1> HIDE DEF r, x
  <1>4. x.eax \in Int /\ x.f \in SUBSET Flags
    BY <1>1, <1>2, <1>3, SpliceIs, Words, OutcomeIs DEF IsResult
  <1> QED
    BY <1>4, TakeEaxIs DEF x

LEMMA Adjusts1 == ASSUME NEW i, NEW v, NEW s, i.op \in Adjusts PROVE Dispatch(i, v, s) = Adjusted(i.op, s)
  <1>1. i.op = "aaa" => Dispatch(i, v, s) = Adjusted(i.op, s)
    BY Zenon DEF Dispatch, func_op_aaa
  <1>2. i.op = "aas" => Dispatch(i, v, s) = Adjusted(i.op, s)
    BY Zenon DEF Dispatch, func_op_aas
  <1>3. i.op = "aam" => Dispatch(i, v, s) = Adjusted(i.op, s)
    BY Zenon DEF Dispatch, func_op_aam
  <1>4. i.op = "aad" => Dispatch(i, v, s) = Adjusted(i.op, s)
    BY Zenon DEF Dispatch, func_op_aad
  <1>5. i.op = "daa" => Dispatch(i, v, s) = Adjusted(i.op, s)
    BY Zenon DEF Dispatch, func_op_daa
  <1>6. i.op = "das" => Dispatch(i, v, s) = Adjusted(i.op, s)
    BY Zenon DEF Dispatch, func_op_das
  <1> QED
    BY <1>1, <1>2, <1>3, <1>4, <1>5, <1>6 DEF Adjusts

LEMMA AloneAdjusts == ASSUME NEW i, Formed(i), NEW s \in AllContexts, i.op \in Adjusts PROVE Agree(i, s)
  <1> DEFINE e == TakeEax(s, Adjust(i.op, s.r["eax"], s.f))
  <1>1. Ordinary(i) /\ Straight(i)
    BY Zenon DEF Ordinary, Straight, BitOps, Strings, Adjusts
  <1>2. Effect(i, s) = e
    BY Zenon DEF Effect, Results, Shifts, Rotates, BitOps, Reads, Strings, Adjusts
  <1>3. Dispatch(i, Seen(i, s), s) = Ip(e)
    BY Adjusts1 DEF Adjusted
  <1>4. e \in AllContexts /\ e.ip = s.ip
    BY AdjustIs
  <1> HIDE DEF e
  <1> QED
    BY <1>1, <1>2, <1>3, <1>4, MovesOn

\* The operations without operands, one kind after the other.
LEMMA AloneNop == ASSUME NEW i, Formed(i), NEW s \in AllContexts, i.op = "nop" PROVE Agree(i, s)
  <1>1. Ordinary(i) /\ Straight(i)
    BY Zenon DEF Ordinary, Straight, BitOps, Strings
  <1>2. Effect(i, s) = s
    BY Zenon DEF Effect, Results, Shifts, Rotates, BitOps, Reads, Strings, Adjusts
  <1>3. Dispatch(i, Seen(i, s), s) = Ip(s)
    BY Zenon DEF Dispatch, func_op_nop
  <1> QED
    BY <1>1, <1>2, <1>3, MovesOn

\* The flags become others.
LEMMA Flagged ==
  ASSUME NEW i, Ordinary(i), NEW s \in AllContexts, Straight(i), NEW f \in SUBSET Flags,
         Effect(i, s) = [s EXCEPT !.f = f], Dispatch(i, Seen(i, s), s) = Ip(Flags4(s, f))
  PROVE  Agree(i, s)
  <1> DEFINE e == [s EXCEPT !.f = f]
  <1>1. Flags4(s, f) = e /\ Effect(i, s) = e
    BY DEF Flags4
  <1>2. e \in AllContexts /\ e.ip = s.ip
    BY WithFlags
  <1> HIDE DEF e
  <1> QED
    BY <1>1, <1>2, MovesOn

LEMMA AloneFlags ==
  ASSUME NEW i, Formed(i), NEW s \in AllContexts, i.op \in {"clc", "stc", "cmc", "cld", "std"} PROVE Agree(i, s)
  <1>1. Ordinary(i) /\ Straight(i)
    BY Zenon DEF Ordinary, Straight, BitOps, Strings
  <1> USE DEF Results, Shifts, Rotates, BitOps, Reads, Strings, Adjusts
  <1>2. CASE i.op = "clc"
    <2> DEFINE f == s.f \ {"CF"}
    <2>1. f \in SUBSET Flags
      BY ContextFields, FlagNames
    <2>2. Dispatch(i, Seen(i, s), s) = Ip(Flags4(s, f))
      BY <1>2, Zenon DEF Dispatch, func_op_clc
    <2>3. Effect(i, s) = [s EXCEPT !.f = f]
      BY <1>2, Zenon DEF Effect
    <2> HIDE DEF f
    <2> QED
      BY <1>1, <2>1, <2>2, <2>3, Flagged
  <1>3. CASE i.op = "stc"
    <2> DEFINE f == s.f \cup {"CF"}
    <2>1. f \in SUBSET Flags
      BY ContextFields, FlagNames
    <2>2. Dispatch(i, Seen(i, s), s) = Ip(Flags4(s, f))
      BY <1>3, Zenon DEF Dispatch, func_op_stc
    <2>3. Effect(i, s) = [s EXCEPT !.f = f]
      BY <1>3, Zenon DEF Effect
    <2> HIDE DEF f
    <2> QED
      BY <1>1, <2>1, <2>2, <2>3, Flagged
  <1>4. CASE i.op = "cmc"
    <2> DEFINE f == (s.f \cup {"CF"}) \ (s.f \cap {"CF"})
    <2>1. f \in SUBSET Flags
      BY ContextFields, FlagNames
    <2>2. Dispatch(i, Seen(i, s), s) = Ip(Flags4(s, f))
      BY <1>4, Zenon DEF Dispatch, func_op_cmc
    <2>3. Effect(i, s) = [s EXCEPT !.f = f]
      <3>1. Effect(i, s) = [s EXCEPT !.f = IF "CF" \in s.f THEN s.f \ {"CF"} ELSE s.f \cup {"CF"}]
        BY <1>4, Zenon DEF Effect
      <3>2. (IF "CF" \in s.f THEN s.f \ {"CF"} ELSE s.f \cup {"CF"}) = f
        OBVIOUS
      <3> QED
        BY <3>1, <3>2
    <2> HIDE DEF f
    <2> QED
      BY <1>1, <2>1, <2>2, <2>3, Flagged
  <1>5. CASE i.op = "cld"
    <2> DEFINE f == s.f \ {"DF"}
    <2>1. f \in SUBSET Flags
      BY ContextFields, FlagNames
    <2>2. Dispatch(i, Seen(i, s), s) = Ip(Flags4(s, f))
      BY <1>5, Zenon DEF Dispatch, func_op_cld
    <2>3. Effect(i, s) = [s EXCEPT !.f = f]
      BY <1>5, Zenon DEF Effect
    <2> HIDE DEF f
    <2> QED
      BY <1>1, <2>1, <2>2, <2>3, Flagged
  <1>6. CASE i.op = "std"
    <2> DEFINE f == s.f \cup {"DF"}
    <2>1. f \in SUBSET Flags
      BY ContextFields, FlagNames
    <2>2. Dispatch(i, Seen(i, s), s) = Ip(Flags4(s, f))
      BY <1>6, Zenon DEF Dispatch, func_op_std
    <2>3. Effect(i, s) = [s EXCEPT !.f = f]
      BY <1>6, Zenon DEF Effect
    <2> HIDE DEF f
    <2> QED
      BY <1>1, <2>1, <2>2, <2>3, Flagged
  <1> QED
    BY <1>2, <1>3, <1>4, <1>5, <1>6

LEMMA FlagsInIs == ASSUME NEW w PROVE FlagsIn(w) \in SUBSET Flags
  <1>1. \A k \in 1..6 : FlagOrder[k] \in Flags
    BY FlagNames DEF FlagOrder
  <1> QED
    BY <1>1 DEF FlagsIn

\* The word of flags.
LEMMA FlagWordIs == ASSUME NEW f PROVE FlagWord(f) \in Int
  <1> DEFINE bit(k) == IF FlagOrder[k] \in f THEN 2^(k - 1) ELSE 0
  <1>1. bit(1) \in Int /\ bit(2) \in Int /\ bit(3) \in Int /\ bit(4) \in Int /\ bit(5) \in Int /\ bit(6) \in Int
    BY SMT
  <1>2. FlagWord(f) = bit(1) + bit(2) + bit(3) + bit(4) + bit(5) + bit(6)
    BY DEF FlagWord
  <1> HIDE DEF bit
  <1> QED
    BY <1>1, <1>2

\* The flags that ah does not hold.
LEMMA HighFlags == FlagsIn(2^7 - 2^ByteBits) = {"DF", "OF"}
  <1>1. 2^7 - 2^ByteBits = 112
    BY SMT DEF ByteBits
  <1>2. ~Bit(112, 0) /\ ~Bit(112, 1) /\ ~Bit(112, 2) /\ ~Bit(112, 3) /\ Bit(112, 4) /\ Bit(112, 5)
    BY SMT DEF Bit
  <1>3. {k \in 1..6 : Bit(112, k - 1)} = {5, 6}
    <2>1. \A k \in 1..6 : k = 1 \/ k = 2 \/ k = 3 \/ k = 4 \/ k = 5 \/ k = 6
      BY SMT
    <2>2. 1 - 1 = 0 /\ 2 - 1 = 1 /\ 3 - 1 = 2 /\ 4 - 1 = 3 /\ 5 - 1 = 4 /\ 6 - 1 = 5 /\ 5 \in 1..6 /\ 6 \in 1..6
      BY SMT
    <2> QED
      BY <1>2, <2>1, <2>2, Zenon
  <1>4. FlagOrder[5] = "DF" /\ FlagOrder[6] = "OF"
    BY DEF FlagOrder
  <1>5. FlagsIn(112) = {FlagOrder[k] : k \in {5, 6}}
    BY <1>3 DEF FlagsIn
  <1> QED
    BY <1>1, <1>4, <1>5

LEMMA AloneSahf == ASSUME NEW i, Formed(i), NEW s \in AllContexts, i.op = "sahf" PROVE Agree(i, s)
  <1> DEFINE f == (s.f \cap {"DF", "OF"}) \cup FlagsIn(GetPart(s.r["eax"], "h"))
  <1>1. Ordinary(i) /\ Straight(i)
    BY Zenon DEF Ordinary, Straight, BitOps, Strings
  <1>2. f \in SUBSET Flags
    BY ContextFields, FlagsInIs
  <1>3. Dispatch(i, Seen(i, s), s) = Ip(Flags4(s, f))
    BY Zenon DEF Dispatch, func_op_sahf
  <1>4. Effect(i, s) = [s EXCEPT !.f = (s.f \cap FlagsIn(2^7 - 2^ByteBits)) \cup FlagsIn(Slice(s.r["eax"], 1, 1))]
    BY Zenon DEF Effect, Results, Shifts, Rotates, BitOps, Reads, Strings, Adjusts
  <1>5. Slice(s.r["eax"], 1, 1) = GetPart(s.r["eax"], "h")
    BY PartSizes DEF GetPart, Place
  <1>6. Effect(i, s) = [s EXCEPT !.f = f]
    BY <1>4, <1>5, HighFlags
  <1> HIDE DEF f
  <1> QED
    BY <1>1, <1>2, <1>3, <1>6, Flagged

\* A register takes another number.
LEMMA Registered ==
  ASSUME NEW i, Ordinary(i), NEW s \in AllContexts, Straight(i), NEW reg \in Registers, NEW x \in Int,
         Effect(i, s) = Put(s, reg, x), Dispatch(i, Seen(i, s), s) = Ip(Put(s, reg, x))
  PROVE  Agree(i, s)
  <1> DEFINE e == Put(s, reg, x)
  <1>1. e \in AllContexts /\ e.ip = s.ip /\ Effect(i, s) = e /\ Dispatch(i, Seen(i, s), s) = Ip(e)
    BY PutIs
  <1> HIDE DEF e
  <1> QED
    BY <1>1, MovesOn

LEMMA AloneLahf == ASSUME NEW i, Formed(i), NEW s \in AllContexts, i.op = "lahf" PROVE Agree(i, s)
  <1> DEFINE x == Splice(s.r["eax"], 1, 1, Fit(FlagWord(s.f), 1))
  <1>1. Ordinary(i) /\ Straight(i)
    BY Zenon DEF Ordinary, Straight, BitOps, Strings
  <1>2. x \in Int /\ "eax" \in Registers
    <2>1. s.r["eax"] \in Word
      BY ContextFields DEF Registers
    <2>2. Fit(FlagWord(s.f), 1) \in Int
      BY FlagWordIs, FitInt
    <2> QED
      BY <2>1, <2>2, SpliceIs, Words DEF Registers
  <1>3. Dispatch(i, Seen(i, s), s) = Ip(Put(s, "eax", x))
    BY Zenon DEF Dispatch, func_op_lahf, Reg4
  <1>4. Effect(i, s) = Put(s, "eax", x)
    BY Zenon DEF Effect, Results, Shifts, Rotates, BitOps, Reads, Strings, Adjusts
  <1> HIDE DEF x
  <1> QED
    BY <1>1, <1>2, <1>3, <1>4, Registered

LEMMA AloneCpuid == ASSUME NEW i, Formed(i), NEW s \in AllContexts, i.op = "cpuid" PROVE Agree(i, s)
  <1> DEFINE r == Identify(s.r)
             e == [s EXCEPT !.r = r]
  <1>1. Ordinary(i) /\ Straight(i)
    BY Zenon DEF Ordinary, Straight, BitOps, Strings
  <1>2. Effect(i, s) = e
    BY Zenon DEF Effect, Results, Shifts, Rotates, BitOps, Reads, Strings, Adjusts
  <1>3. Dispatch(i, Seen(i, s), s) = Ip(e)
    BY Zenon DEF Dispatch, func_op_cpuid
  <1>4. ASSUME NEW c \in {1, 2} PROVE Mixed(s.r["eax"], s.r["ecx"], c, 4) \in Word
    <2>1. s.r["eax"] \in Int /\ s.r["ecx"] \in Int
      BY ContextFields, Words DEF Registers
    <2>2. 7 * s.r["eax"] + 5 * s.r["ecx"] + 3 * c + 1 \in Int
      BY <2>1
    <2> QED
      BY <2>2, FitRange DEF Mixed
  <1>5. r \in [Registers -> Word]
    <2>1. s.r \in [Registers -> Word] /\ DOMAIN s.r = Registers
      BY ContextFields
    <2> QED
      BY <1>4, <2>1 DEF Identify
  <1> HIDE DEF r
  <1>6. e \in AllContexts /\ e.ip = s.ip
    BY <1>5, Numbered DEF AllContexts
  <1> HIDE DEF e
  <1> QED
    BY <1>1, <1>2, <1>3, <1>6, MovesOn

\* A register takes another number, which the emulation has computed whole.
LEMMA RegisteredAs ==
  ASSUME NEW i, Ordinary(i), NEW s \in AllContexts, Straight(i), NEW reg \in Registers, NEW x \in Int, NEW y,
         Effect(i, s) = Put(s, reg, x), Dispatch(i, Seen(i, s), s) = Ip([s EXCEPT !.r[reg] = y]), Fit(x, 4) = y
  PROVE  Agree(i, s)
  <1>1. Put(s, reg, x) = [s EXCEPT !.r[reg] = y]
    BY DEF Put
  <1> QED
    BY <1>1, Registered

\* The sign of a word and of its half, for the operations that extend it.
LEMMA SignOfWord == ASSUME NEW w \in Word
    PROVE  /\ Fit(IF Signed(w, 4) < 0 THEN -1 ELSE 0, 4) = Sign(w, 4)
           /\ Fit(IF Signed(Fit(w, 2), 2) < 0 THEN -1 ELSE 0, 2) = Fit(Sign(Fit(w, 2), 2), 2)
           /\ Sign(w, 4) \in Int /\ Sign(Fit(w, 2), 2) \in Int
  <1> DEFINE h == Fit(w, 2)
  <1>1. w \in Int /\ w >= 0 /\ w < 65536
    BY SMT DEF Word, Below
  <1>2. h \in Int /\ h >= 0 /\ h < 256
    BY <1>1, FitRange, SMT DEF Below
  <1>3. Signed(w, 4) = IF w >= 32768 THEN w - 65536 ELSE w
    BY Half4, Power4 DEF Signed
  <1>4. Signed(h, 2) = IF h >= 128 THEN h - 256 ELSE h
    BY Half2, Power2 DEF Signed
  <1>5. Sign(w, 4) = IF w >= 32768 THEN 65536 - 1 ELSE 0
    BY Half4, Power4 DEF Sign
  <1>6. Sign(h, 2) = IF h >= 128 THEN 256 - 1 ELSE 0
    BY Half2, Power2 DEF Sign
  <1>7. (Signed(w, 4) < 0 <=> w >= 32768) /\ (Signed(h, 2) < 0 <=> h >= 128)
    BY <1>1, <1>2, <1>3, <1>4, SMT
  <1>8. Fit(-1, 4) = 65535 /\ Fit(0, 4) = 0 /\ Fit(-1, 2) = 255 /\ Fit(0, 2) = 0 /\ Fit(255, 2) = 255
    BY Fit2, Fit4, SMT
  <1>9. 65536 - 1 = 65535 /\ 256 - 1 = 255 /\ 65535 \in Int /\ 255 \in Int /\ 0 \in Int
    BY SMT
  <1> HIDE DEF h
  <1>10. Fit(IF Signed(w, 4) < 0 THEN -1 ELSE 0, 4) = Sign(w, 4)
    <2>1. CASE w >= 32768
      BY <1>5, <1>7, <1>8, <1>9, <2>1, SMT
    <2>2. CASE ~(w >= 32768)
      BY <1>5, <1>7, <1>8, <1>9, <2>2, SMT
    <2> QED
      BY <2>1, <2>2
  <1>11. Fit(IF Signed(h, 2) < 0 THEN -1 ELSE 0, 2) = Fit(Sign(h, 2), 2)
    <2>1. CASE h >= 128
      BY <1>6, <1>7, <1>8, <1>9, <2>1, SMT
    <2>2. CASE ~(h >= 128)
      BY <1>6, <1>7, <1>8, <1>9, <2>2, SMT
    <2> QED
      BY <2>1, <2>2
  <1>12. Sign(w, 4) \in Int /\ Sign(h, 2) \in Int
    BY <1>5, <1>6, <1>9, SMT
  <1> QED
    BY <1>10, <1>11, <1>12 DEF h

LEMMA Halves == ASSUME NEW w \in Word
    PROVE  /\ Fit(Signed(Fit(w, 2), 2), 4) = Splice(w, 2, 2, Sign(Fit(w, 2), 2))
           /\ Splice(w, 0, 2, Signed(Fit(w, 1), 1)) = Splice(w, 1, 1, Sign(Fit(w, 1), 1))
           /\ Signed(Fit(w, 2), 2) \in Int /\ Signed(Fit(w, 1), 1) \in Int
  <1> DEFINE h == Fit(w, 2)
             l == Fit(w, 1)
             b == Slice(w, 1, 1)
             u == Slice(w, 2, 2)
  <1>1. w \in Int /\ w >= 0 /\ w < 65536
    BY SMT DEF Word, Below
  <1>2. h = w % 256 /\ l = w % 16 /\ b = (w \div 16) % 16
    BY <1>1, Fit1, Fit2, Slice11
  <1>3. u = w \div 256
    <2>1. u = (w \div 256) % 256
      BY <1>1, SliceFits, Fit2
    <2>2. (w \div 256) % 256 = w \div 256
      BY <1>1, SMT
    <2> QED
      BY <2>1, <2>2
  <1>4. h \in Int /\ h >= 0 /\ h < 256 /\ l \in Int /\ l >= 0 /\ l < 16 /\ b \in Int /\ b >= 0 /\ b < 16
    BY <1>1, <1>2, SMT
  <1>5. w = u * 256 + h /\ u \in Int /\ u >= 0 /\ u < 256
    BY <1>1, <1>2, <1>3, SMT
  <1>6. h = b * 16 + l
    BY <1>1, <1>2, SMT
  <1>7. Signed(h, 2) = (IF h >= 128 THEN h - 256 ELSE h) /\ Sign(h, 2) = (IF h >= 128 THEN 256 - 1 ELSE 0)
    BY Half2, Power2 DEF Signed, Sign
  <1>8. Signed(l, 1) = (IF l >= 8 THEN l - 16 ELSE l) /\ Sign(l, 1) = (IF l >= 8 THEN 16 - 1 ELSE 0)
    BY Half1, Power1 DEF Signed, Sign
  <1>9. Splice(w, 2, 2, Sign(h, 2)) = w + (Fit(Sign(h, 2), 2) - u) * 256
    BY Power2 DEF Splice
  <1>10. Splice(w, 0, 2, Signed(l, 1)) = w + (Fit(Signed(l, 1), 2) - h) * 1
    BY Power0, <1>1, SliceFits DEF Splice
  <1>11. Splice(w, 1, 1, Sign(l, 1)) = w + (Fit(Sign(l, 1), 1) - b) * 16
    BY Power1 DEF Splice
  <1>12. Fit(Signed(h, 2), 4) = IF h >= 128 THEN h + 65280 ELSE h
    <2>1. h - 256 \in Int
      BY <1>4
    <2>2. Fit(h, 4) = h % 65536 /\ Fit(h - 256, 4) = (h - 256) % 65536
      BY <1>4, <2>1, Fit4
    <2> HIDE DEF h
    <2>3. h % 65536 = h /\ (h >= 128 => (h - 256) % 65536 = h + 65280)
      BY <1>4, SMT
    <2>4. CASE h >= 128
      BY <1>7, <2>2, <2>3, <2>4, SMT
    <2>5. CASE ~(h >= 128)
      BY <1>7, <2>2, <2>3, <2>5, SMT
    <2> QED
      BY <2>4, <2>5
  <1>13. Fit(Sign(h, 2), 2) = IF h >= 128 THEN 255 ELSE 0
    <2>1. 256 - 1 = 255 /\ Fit(255, 2) = 255 /\ Fit(0, 2) = 0
      BY Fit2, SMT
    <2> QED
      BY <1>7, <2>1, Zenon
  <1>14. Fit(Sign(l, 1), 1) = IF l >= 8 THEN 15 ELSE 0
    <2>1. 16 - 1 = 15 /\ Fit(15, 1) = 15 /\ Fit(0, 1) = 0
      BY Fit1, SMT
    <2> QED
      BY <1>8, <2>1, Zenon
  <1>15. Fit(Signed(l, 1), 2) = IF l >= 8 THEN l + 240 ELSE l
    <2>1. l - 16 \in Int
      BY <1>4
    <2>2. Fit(l, 2) = l % 256 /\ Fit(l - 16, 2) = (l - 16) % 256
      BY <1>4, <2>1, Fit2
    <2> HIDE DEF l
    <2>3. l % 256 = l /\ (l >= 8 => (l - 16) % 256 = l + 240)
      BY <1>4, SMT
    <2> QED
      BY <1>8, <2>2, <2>3, Zenon
  <1> HIDE DEF h, l, b, u
  <1>16. Fit(Signed(h, 2), 4) = Splice(w, 2, 2, Sign(h, 2))
    <2>1. CASE h >= 128
      <3>1. w + (255 - u) * 256 = h + 65280
        BY <1>4, <1>5, SMT
      <3> QED
        BY <1>9, <1>12, <1>13, <2>1, <3>1, SMT
    <2>2. CASE ~(h >= 128)
      <3>1. w + (0 - u) * 256 = h
        BY <1>4, <1>5, SMT
      <3> QED
        BY <1>9, <1>12, <1>13, <2>2, <3>1, SMT
    <2> QED
      BY <2>1, <2>2
  <1>17. Splice(w, 0, 2, Signed(l, 1)) = Splice(w, 1, 1, Sign(l, 1))
    <2>1. w + ((IF l >= 8 THEN l + 240 ELSE l) - h) * 1 = w + ((IF l >= 8 THEN 15 ELSE 0) - b) * 16
      BY <1>1, <1>4, <1>6, SMT
    <2> QED
      BY <1>10, <1>11, <1>14, <1>15, <2>1, Zenon
  <1>18. Signed(h, 2) \in Int /\ Signed(l, 1) \in Int
    BY <1>4, SignedIs
  <1> QED
    BY <1>16, <1>17, <1>18 DEF h, l

LEMMA AloneSigns ==
  ASSUME NEW i, Formed(i), NEW s \in AllContexts, i.op \in {"cdq", "cwd", "cwde", "cbw"} PROVE Agree(i, s)
  <1> DEFINE eax == s.r["eax"]
             edx == s.r["edx"]
             v == Seen(i, s)
  <1>1. Ordinary(i) /\ Straight(i)
    BY Zenon DEF Ordinary, Straight, BitOps, Strings
  <1>2. eax \in Word /\ edx \in Word /\ "eax" \in Registers /\ "edx" \in Registers
    BY ContextFields DEF Registers
  <1>3. -1 \in Int /\ 0 \in Int
    BY SMT
  <1> USE DEF Results, Shifts, Rotates, BitOps, Reads, Strings, Adjusts
  <1>4. CASE i.op = "cdq"
    <2> DEFINE x == IF Signed(eax, 4) < 0 THEN -1 ELSE 0
    <2>1. Dispatch(i, v, s) = Ip([s EXCEPT !.r["edx"] = Sign(eax, 4)])
      <3>1. Dispatch(i, v, s) = func_op_cdq(i, v, s)
        BY <1>4, Zenon DEF Dispatch
      <3> QED
        BY <1>4, <3>1, Zenon DEF func_op_cdq
    <2>2. Effect(i, s) = Put(s, "edx", x)
      BY <1>4, Zenon DEF Effect
    <2>3. Fit(x, 4) = Sign(eax, 4)
      BY <1>2, SignOfWord
    <2>4. x \in Int
      BY <1>3
    <2> HIDE DEF x
    <2> QED
      BY <1>1, <1>2, <2>1, <2>2, <2>3, <2>4, RegisteredAs
  <1>5. CASE i.op = "cwd"
    <2> DEFINE y == IF Signed(Fit(eax, 2), 2) < 0 THEN -1 ELSE 0
               x == Splice(edx, 0, 2, y)
               z == Splice(edx, 0, 2, Sign(Fit(eax, 2), 2))
    <2>1. Dispatch(i, v, s) = Ip([s EXCEPT !.r["edx"] = z])
      <3>1. Dispatch(i, v, s) = func_op_cdq(i, v, s)
        BY <1>5, Zenon DEF Dispatch
      <3> QED
        BY <1>5, <3>1, Zenon DEF func_op_cdq
    <2>2. Effect(i, s) = Put(s, "edx", x)
      BY <1>5, Zenon DEF Effect
    <2>3. Fit(y, 2) = Fit(Sign(Fit(eax, 2), 2), 2)
      BY <1>2, SignOfWord
    <2>4. y \in Int
      BY <1>3
    <2> HIDE DEF y
    <2>5. x = z /\ x \in Word
      BY <1>2, <2>3, <2>4, SpliceIs DEF Splice
    <2>6. Fit(x, 4) = z /\ x \in Int
      BY <2>5, FitSame, Words
    <2> HIDE DEF x, z
    <2> QED
      BY <1>1, <1>2, <2>1, <2>2, <2>6, RegisteredAs
  <1>6. CASE i.op = "cwde"
    <2> DEFINE x == Signed(Fit(eax, 2), 2)
               z == Splice(eax, 2, 2, Sign(Fit(eax, 2), 2))
    <2>1. Dispatch(i, v, s) = Ip([s EXCEPT !.r["eax"] = z])
      <3>1. Dispatch(i, v, s) = func_op_cwde(i, v, s)
        BY <1>6, Zenon DEF Dispatch
      <3> QED
        BY <1>6, <3>1, Zenon DEF func_op_cwde
    <2>2. Effect(i, s) = Put(s, "eax", x)
      BY <1>6, Zenon DEF Effect
    <2>3. Fit(x, 4) = z /\ x \in Int
      BY <1>2, Halves
    <2> HIDE DEF x, z
    <2> QED
      BY <1>1, <1>2, <2>1, <2>2, <2>3, RegisteredAs
  <1>7. CASE i.op = "cbw"
    <2> DEFINE x == Splice(eax, 0, 2, Signed(Fit(eax, 1), 1))
               z == Splice(eax, 1, 1, Sign(Fit(eax, 1), 1))
    <2>1. Dispatch(i, v, s) = Ip([s EXCEPT !.r["eax"] = z])
      <3>1. Dispatch(i, v, s) = func_op_cwde(i, v, s)
        BY <1>7, Zenon DEF Dispatch
      <3> QED
        BY <1>7, <3>1, Zenon DEF func_op_cwde
    <2>2. Effect(i, s) = Put(s, "eax", x)
      BY <1>7, Zenon DEF Effect
    <2>3. x = z /\ x \in Word
      BY <1>2, Halves, SpliceIs
    <2>4. Fit(x, 4) = z /\ x \in Int
      BY <2>3, FitSame, Words
    <2> HIDE DEF x, z
    <2> QED
      BY <1>1, <1>2, <2>1, <2>2, <2>4, RegisteredAs
  <1> QED
    BY <1>4, <1>5, <1>6, <1>7

----------------------------------------------------------------------------
(* The stack.                                                              *)

LEMMA PushIs == ASSUME NEW s \in AllContexts, NEW x \in Int, NEW size \in {1, 2, 4}
    PROVE  Pushed(s, x, size) = Push(s, x, size) /\ Push(s, x, size) \in AllContexts /\ Push(s, x, size).ip = s.ip
  <1> DEFINE t == Put(s, "esp", s.r["esp"] - size)
  <1>1. s.r["esp"] - size \in Int /\ "esp" \in Registers
    BY ContextFields, Words DEF Registers
  <1>2. t \in AllContexts /\ t.ip = s.ip
    BY <1>1, PutIs
  <1>3. t.r["esp"] \in Int
    BY <1>2, ContextFields, Words DEF Registers
  <1>4. Push(s, x, size) = Store(t, t.r["esp"], x, size)
    BY DEF Push
  <1>5. Pushed(s, x, size) = Store(t, t.r["esp"], x, size)
    BY DEF Pushed, Reg4, xx_write_fmem
  <1> HIDE DEF t
  <1> QED
    BY <1>2, <1>3, <1>4, <1>5, StoreIs

\* The top of the stack is a number and taking it leaves a context.
LEMMA PopIs == ASSUME NEW s \in AllContexts, NEW size \in {1, 2, 4}
    PROVE  /\ s.r["esp"] \in Nat /\ s.r["esp"] + size \in Int /\ "esp" \in Registers
           /\ Pop(s, size) \in AllContexts /\ Pop(s, size).ip = s.ip
           /\ Readable(s.r["esp"], size) => /\ Pop(s, size) = Put(s, "esp", s.r["esp"] + size)
                                            /\ Top(s, size) = Load(s, s.r["esp"], size)
           /\ ~Readable(s.r["esp"], size) => ~Pop(s, size).ok
           /\ Top(s, size) \in NumbersOf(size) /\ Top(s, size) \in Nat
  <1> DEFINE at == s.r["esp"]
             ok == s.ok /\ Readable(at, size)
             t == [s EXCEPT !.ok = ok]
  <1>1. at \in Nat /\ at + size \in Int /\ "esp" \in Registers
    BY ContextFields, Words DEF Registers
  <1>2. Touch(s, at, size) = t
    BY DEF Touch
  <1>3. t \in AllContexts /\ t.ip = s.ip /\ t.ok = ok
    BY DEF AllContexts, Readable
  <1>4. ok = s.ok => t = s
    BY ContextFields
  <1>5. Readable(at, size) => ok = s.ok
    BY ContextFields
  <1>6. Pop(s, size) = Put(t, "esp", at + size)
    BY <1>2 DEF Pop
  <1>7. Top(s, size) = IF Readable(at, size) THEN Load(s, at, size) ELSE 0
    BY DEF Top
  <1>8. Top(s, size) \in NumbersOf(size) /\ Top(s, size) \in Nat
    <2>1. 0 \in NumbersOf(size) /\ NumbersOf(size) \subseteq Nat
      BY Numbered, SMT DEF Below, Word
    <2> QED
      BY <1>1, <1>7, <2>1, LoadIs
  <1>9. ~Readable(at, size) => ~ok
    OBVIOUS
  <1> HIDE DEF ok, t, at
  <1>10. Put(t, "esp", at + size) \in AllContexts /\ Put(t, "esp", at + size).ip = s.ip /\ Put(t, "esp", at + size).ok = ok
    BY <1>1, <1>3, PutIs
  <1> QED
    BY <1>1, <1>4, <1>5, <1>6, <1>7, <1>8, <1>9, <1>10 DEF at

\* An instruction that reads the stack, which may not be there.
LEMMA ReadsOn ==
  ASSUME NEW i, Ordinary(i), NEW s \in AllContexts, Straight(i), NEW e \in AllContexts, e.ip = s.ip,
         NEW there \in BOOLEAN, Effect(i, s) = e,
         there => Dispatch(i, Seen(i, s), s) = Ip(e),
         ~there => ~e.ok /\ Dispatch(i, Seen(i, s), s) = Stopped(s)
  PROVE  Agree(i, s)
  <1>1. there => Dispatch(i, Seen(i, s), s) = [e EXCEPT !.ip = Target(i, s)]
    BY IpIs
  <1>2. ~Stopped(s).ok
    BY StoppedIs
  <1>3. Goes(i, s, Effect(i, s), Dispatch(i, Seen(i, s), s))
    BY <1>1, <1>2 DEF Goes
  <1>4. Target(i, s) \in Nat
    BY NextIs
  <1> QED
    BY <1>3, <1>4, Ordinarily

LEMMA AlonePushfd == ASSUME NEW i, Formed(i), NEW s \in AllContexts, i.op = "pushfd" PROVE Agree(i, s)
  <1> DEFINE e == Push(s, FlagWord(s.f), 4)
  <1>1. Ordinary(i) /\ Straight(i)
    BY Zenon DEF Ordinary, Straight, BitOps, Strings
  <1>2. Effect(i, s) = e
    BY Zenon DEF Effect, Results, Shifts, Rotates, BitOps, Reads, Strings, Adjusts
  <1>3. Dispatch(i, Seen(i, s), s) = Ip(Pushed(s, FlagWord(s.f), 4))
    BY Zenon DEF Dispatch, func_op_pushfd
  <1>4. Pushed(s, FlagWord(s.f), 4) = e /\ e \in AllContexts /\ e.ip = s.ip
    BY FlagWordIs, PushIs
  <1> HIDE DEF e
  <1> QED
    BY <1>1, <1>2, <1>3, <1>4, MovesOn

LEMMA AlonePopfd == ASSUME NEW i, Formed(i), NEW s \in AllContexts, i.op = "popfd" PROVE Agree(i, s)
  <1> DEFINE at == s.r["esp"]
             f == FlagsIn(Top(s, 4))
             g == FlagsIn(Load(s, at, 4))
             e == [Pop(s, 4) EXCEPT !.f = f]
             d == Dispatch(i, Seen(i, s), s)
  <1>1. Ordinary(i) /\ Straight(i)
    BY Zenon DEF Ordinary, Straight, BitOps, Strings
  <1>2. Effect(i, s) = e
    BY Zenon DEF Effect, Results, Shifts, Rotates, BitOps, Reads, Strings, Adjusts
  <1>3. d = func_op_popfd(i, Seen(i, s), s)
    BY Zenon DEF Dispatch
  <1>4. d = IF Readable(at, 4) THEN Ip(Reg4(Flags4(s, FlagsIn(Load(s, at, 4))), "esp", at + 4)) ELSE Stopped(s)
    BY <1>3 DEF func_op_popfd, Reads1, xx_read_fmem
  <1>5. f \in SUBSET Flags
    BY FlagsInIs
  <1>6. /\ at + 4 \in Int /\ "esp" \in Registers
        /\ Pop(s, 4) \in AllContexts /\ Pop(s, 4).ip = s.ip
        /\ Readable(at, 4) => Pop(s, 4) = Put(s, "esp", at + 4) /\ Top(s, 4) = Load(s, at, 4)
        /\ ~Readable(at, 4) => ~Pop(s, 4).ok
    BY PopIs
  <1>7. e \in AllContexts /\ e.ip = s.ip /\ e.ok = Pop(s, 4).ok
    BY <1>5, <1>6 DEF AllContexts
  <1>8. Readable(at, 4) => Reg4(Flags4(s, FlagsIn(Load(s, at, 4))), "esp", at + 4) = e
    BY <1>6, ContextFields DEF Reg4, Flags4, Put
  <1>9. Readable(at, 4) \in BOOLEAN
    BY DEF Readable
  <1> HIDE DEF e, d, f, at
  <1> QED
    BY <1>1, <1>2, <1>4, <1>6, <1>7, <1>8, <1>9, ReadsOn DEF d

LEMMA AloneLeave == ASSUME NEW i, Formed(i), NEW s \in AllContexts, i.op = "leave" PROVE Agree(i, s)
  <1> DEFINE t == Put(s, "esp", s.r["ebp"])
             at == t.r["esp"]
             e == Put(Pop(t, 4), "ebp", Top(t, 4))
             d == Dispatch(i, Seen(i, s), s)
  <1>1. Ordinary(i) /\ Straight(i)
    BY Zenon DEF Ordinary, Straight, BitOps, Strings
  <1>2. Effect(i, s) = e
    BY Zenon DEF Effect, Results, Shifts, Rotates, BitOps, Reads, Strings, Adjusts, PopBp
  <1>3. d = func_op_leave(i, Seen(i, s), s)
    BY Zenon DEF Dispatch
  <1>4. d = IF Readable(at, 4) THEN Ip(Put(Put(t, "esp", at + 4), "ebp", Load(t, at, 4))) ELSE Stopped(t)
    BY <1>3 DEF func_op_leave, Reads1, xx_read_fmem, Reg4
  <1>5. t \in AllContexts /\ t.ip = s.ip /\ "ebp" \in Registers
    <2>1. s.r["ebp"] \in Int /\ "esp" \in Registers /\ "ebp" \in Registers
      BY ContextFields, Words DEF Registers
    <2> QED
      BY <2>1, PutIs
  <1> HIDE DEF t
  <1>6. /\ at + 4 \in Int /\ "esp" \in Registers
        /\ Pop(t, 4) \in AllContexts /\ Pop(t, 4).ip = t.ip
        /\ Readable(at, 4) => Pop(t, 4) = Put(t, "esp", at + 4) /\ Top(t, 4) = Load(t, at, 4)
        /\ ~Readable(at, 4) => ~Pop(t, 4).ok
        /\ Top(t, 4) \in Nat
    BY <1>5, PopIs
  <1>7. e \in AllContexts /\ e.ip = s.ip /\ e.ok = Pop(t, 4).ok
    <2>1. \A u \in AllContexts : \A x \in Int : Put(u, "ebp", x) \in AllContexts /\ Put(u, "ebp", x).ip = u.ip
                                                  /\ Put(u, "ebp", x).ok = u.ok
      BY <1>5, PutIs
    <2>2. Pop(t, 4) \in AllContexts /\ Pop(t, 4).ip = s.ip /\ Top(t, 4) \in Int
      BY <1>5, <1>6
    <2> QED
      BY <2>1, <2>2
  <1>8. Readable(at, 4) => d = Ip(e)
    BY <1>4, <1>6
  <1>9. Readable(at, 4) \in BOOLEAN
    BY DEF Readable
  <1>10. ~Readable(at, 4) => ~e.ok /\ ~d.ok
    BY <1>4, <1>5, <1>6, <1>7, StoppedIs
  <1>11. Goes(i, s, Effect(i, s), d)
    <2> HIDE DEF e, d, at
    <2> QED
      BY <1>1, <1>2, <1>7, <1>8, <1>9, <1>10, IpIs DEF Goes
  <1>12. Target(i, s) \in Nat
    BY <1>1, NextIs
  <1> HIDE DEF e
  <1> QED
    BY <1>1, <1>2, <1>7, <1>11, <1>12, Ordinarily

----------------------------------------------------------------------------
(* All registers to the stack and back.                                    *)

\* What pushing registers leaves alone.
Pushing(s, t) == t \in AllContexts /\ t.ip = s.ip /\ \A reg \in Registers \ {"esp"} : t.r[reg] = s.r[reg]

\* Pushing a register leaves the others, so the next one is still the old one.
LEMMA PushKeeps == ASSUME NEW s \in AllContexts, NEW t, Pushing(s, t), NEW reg \in Registers
    PROVE  /\ PushedReg(s, t, reg) = Push(t, s.r[reg], 4)
           /\ Pushing(s, Push(t, s.r[reg], 4))
  <1> DEFINE x == s.r[reg]
             u == Put(t, "esp", t.r["esp"] - 4)
  <1>1. t \in AllContexts /\ t.ip = s.ip /\ \A other \in Registers \ {"esp"} : t.r[other] = s.r[other]
    BY DEF Pushing
  <1>2. (IF reg = "esp" THEN s.r["esp"] ELSE t.r[reg]) = x /\ x \in Int
    BY <1>1, ContextFields, Words
  <1>3. Pushed(t, x, 4) = Push(t, x, 4) /\ Push(t, x, 4) \in AllContexts /\ Push(t, x, 4).ip = s.ip
    BY <1>1, <1>2, PushIs
  <1>4. Push(t, x, 4) = Store(u, u.r["esp"], x, 4)
    BY DEF Push
  <1>5. t.r["esp"] - 4 \in Int /\ "esp" \in Registers
    BY <1>1, ContextFields, Words DEF Registers
  <1>6. u \in AllContexts /\ u.r = [t.r EXCEPT !["esp"] = Fit(t.r["esp"] - 4, 4)] /\ u.r["esp"] \in Int
    <2>1. u \in AllContexts /\ u.r = [t.r EXCEPT !["esp"] = Fit(t.r["esp"] - 4, 4)]
      BY <1>1, <1>5, PutIs
    <2> QED
      BY <2>1, <1>5, ContextFields, Words
  <1> HIDE DEF u
  <1>7. Push(t, x, 4).r = u.r
    BY <1>2, <1>4, <1>6, StoreIs
  <1>8. DOMAIN t.r = Registers
    BY <1>1, ContextFields
  <1>9. \A other \in Registers \ {"esp"} : Push(t, x, 4).r[other] = s.r[other]
    BY <1>1, <1>6, <1>7, <1>8
  <1> QED
    BY <1>2, <1>3, <1>9 DEF Pushing, PushedReg

PushOf(s, t, reg) == Push(t, s.r[reg], 4)
CodeHalf(s) == PushedReg(s, PushedReg(s, PushedReg(s, PushedReg(s, s, "eax"), "ecx"), "edx"), "ebx")
PushHalf(s) == PushOf(s, PushOf(s, PushOf(s, PushOf(s, s, "eax"), "ecx"), "edx"), "ebx")
CodeRest(s, t) == PushedReg(s, PushedReg(s, PushedReg(s, PushedReg(s, t, "esp"), "ebp"), "esi"), "edi")
PushRest(s, t) == PushOf(s, PushOf(s, PushOf(s, PushOf(s, t, "esp"), "ebp"), "esi"), "edi")

\* The registers go to the stack one after the other, esp as it was at first.
LEMMA AlonePushad == ASSUME NEW i, Formed(i), NEW s \in AllContexts, i.op = "pushad" PROVE Agree(i, s)
  <1>1. Ordinary(i) /\ Straight(i)
    BY Zenon DEF Ordinary, Straight, BitOps, Strings
  <1>2. Effect(i, s) = PushRest(s, PushHalf(s))
    <2>1. Effect(i, s) = PushAll(s)
      BY Zenon DEF Effect, Results, Shifts, Rotates, BitOps, Reads, Strings, Adjusts
    <2> QED
      BY <2>1, Zenon DEF PushAll, PushRest, PushHalf, PushOf
  <1>3. Dispatch(i, Seen(i, s), s) = Ip(CodeRest(s, CodeHalf(s)))
    <2>1. Dispatch(i, Seen(i, s), s) = func_op_pushad(i, Seen(i, s), s)
      BY Zenon DEF Dispatch
    <2> QED
      BY <2>1, Zenon DEF func_op_pushad, CodeRest, CodeHalf
  <1>4. \A t : Pushing(s, t) => \A reg \in Registers : PushedReg(s, t, reg) = PushOf(s, t, reg) /\ Pushing(s, PushOf(s, t, reg))
    BY PushKeeps DEF PushOf
  <1>5. Pushing(s, s) /\ {"eax", "ecx", "edx", "ebx", "esp", "ebp", "esi", "edi"} \subseteq Registers
    BY DEF Pushing, Registers
  <1>6. CodeHalf(s) = PushHalf(s) /\ Pushing(s, PushHalf(s))
    BY <1>4, <1>5 DEF CodeHalf, PushHalf
  <1>7. \A t : Pushing(s, t) => CodeRest(s, t) = PushRest(s, t) /\ Pushing(s, PushRest(s, t))
    BY <1>4, <1>5 DEF CodeRest, PushRest
  <1>8. PushRest(s, PushHalf(s)) \in AllContexts /\ PushRest(s, PushHalf(s)).ip = s.ip
    BY <1>6, <1>7 DEF Pushing
  <1>9. CodeRest(s, CodeHalf(s)) = PushRest(s, PushHalf(s))
    BY <1>6, <1>7
  <1> QED
    BY <1>1, <1>2, <1>3, <1>8, <1>9, MovesOn
\* The k-th word from the top of the stack was read.
Deep(s, k) == k = 0 \/ s.r["esp"] + 4 * k <= MemSize
Popping(s, t, k) ==
  /\ t \in AllContexts /\ t.ip = s.ip /\ t.f = s.f /\ t.mem = s.mem
  /\ t.ok = (s.ok /\ Deep(s, k))
  /\ Deep(s, k) => t.r["esp"] = s.r["esp"] + 4 * k

LEMMA MemSizeSmall == MemSize \in Nat /\ MemSize < 65536
  <1>1. 2^(4 * ByteBits) = 65536
    BY SMT DEF ByteBits
  <1> QED
    BY <1>1, MemSizeAssumption, SMT

LEMMA FitSmall == ASSUME NEW x \in Nat, x < 65536 PROVE Fit(x, 4) = x
  BY Fit4, SMT

\* Taking the k-th word from the stack.
LEMMA PopsOne == ASSUME NEW s \in AllContexts, NEW k \in 0..7, NEW t, Popping(s, t, k)
    PROVE  /\ Popping(s, Pop(t, 4), k + 1)
           /\ \A other \in Registers \ {"esp"} : Pop(t, 4).r[other] = t.r[other]
           /\ Deep(s, k + 1) => Top(t, 4) = Load(s, s.r["esp"] + 4 * k, 4)
           /\ Top(t, 4) \in Word
  <1> DEFINE at == t.r["esp"]
             esp == s.r["esp"]
             u == Touch(t, at, 4)
  <1>1. t \in AllContexts /\ t.ip = s.ip /\ t.f = s.f /\ t.mem = s.mem /\ t.ok = (s.ok /\ Deep(s, k))
        /\ (Deep(s, k) => at = esp + 4 * k)
    BY DEF Popping
  <1>2. esp \in Nat /\ at \in Nat /\ "esp" \in Registers /\ MemSize \in Nat /\ MemSize < 65536
    <2>1. esp \in Nat /\ at \in Nat /\ "esp" \in Registers
      BY <1>1, ContextFields, Words DEF Registers
    <2> QED
      BY <2>1, MemSizeSmall, SMT
  <1>3. Deep(s, k + 1) <=> esp + 4 * k + 4 <= MemSize
    BY <1>2, SMT DEF Deep
  <1>4. Deep(s, k + 1) <=> Deep(s, k) /\ Readable(at, 4)
    BY <1>1, <1>2, <1>3, SMT DEF Deep, Readable
  <1>5. u \in AllContexts /\ u.ip = t.ip /\ u.f = t.f /\ u.mem = t.mem /\ u.r = t.r /\ u.ok = (t.ok /\ Readable(at, 4))
    BY <1>1 DEF Touch, AllContexts
  <1>6. Pop(t, 4) = Put(u, "esp", at + 4)
    BY DEF Pop
  <1> HIDE DEF u
  <1>7. /\ Pop(t, 4) \in AllContexts /\ Pop(t, 4).ip = u.ip /\ Pop(t, 4).f = u.f /\ Pop(t, 4).mem = u.mem /\ Pop(t, 4).ok = u.ok
        /\ Pop(t, 4).r = [u.r EXCEPT !["esp"] = Fit(at + 4, 4)]
    <2>1. at + 4 \in Int
      BY <1>2
    <2> QED
      BY <1>2, <1>5, <1>6, <2>1, PutIs
  <1>8. DOMAIN u.r = Registers
    BY <1>5, ContextFields
  <1>9. Pop(t, 4).r["esp"] = Fit(at + 4, 4) /\ \A other \in Registers \ {"esp"} : Pop(t, 4).r[other] = t.r[other]
    BY <1>2, <1>5, <1>7, <1>8
  <1>10. Deep(s, k + 1) => at = esp + 4 * k /\ Fit(at + 4, 4) = esp + 4 * (k + 1)
    <2> SUFFICES ASSUME Deep(s, k + 1) PROVE at = esp + 4 * k /\ Fit(at + 4, 4) = esp + 4 * (k + 1)
      OBVIOUS
    <2>1. at = esp + 4 * k
      BY <1>1, <1>4
    <2>2. at + 4 \in Nat /\ at + 4 < 65536 /\ at + 4 = esp + 4 * (k + 1)
      BY <1>2, <1>3, <2>1, SMT
    <2> QED
      BY <2>1, <2>2, FitSmall
  <1>11. Popping(s, Pop(t, 4), k + 1)
    <2>1. t.ok /\ Readable(at, 4) <=> s.ok /\ Deep(s, k + 1)
      BY <1>1, <1>4
    <2>2. u.ok = (s.ok /\ Deep(s, k + 1))
      BY <1>5, <2>1
    <2> HIDE DEF at, esp
    <2> QED
      BY <1>1, <1>5, <1>7, <1>9, <1>10, <2>2 DEF Popping, esp
  <1>12. Deep(s, k + 1) => Top(t, 4) = Load(s, esp + 4 * k, 4)
    <2>1. Deep(s, k + 1) => Top(t, 4) = Load(t, esp + 4 * k, 4)
      BY <1>4, <1>10 DEF Top
    <2>2. \A a : Load(t, a, 4) = Load(s, a, 4)
      BY <1>1 DEF Load
    <2> QED
      BY <2>1, <2>2
  <1>13. Top(t, 4) \in Word
    BY <1>1, PopIs, Numbered
  <1> QED
    BY <1>9, <1>11, <1>12, <1>13

\* A word goes from the stack to a register.
PopStep(t, reg) == Put(Pop(t, 4), reg, Top(t, 4))

\* The k-th word goes to a register and the others stay.
LEMMA PopsTo == ASSUME NEW s \in AllContexts, NEW k \in 0..7, NEW t, Popping(s, t, k), NEW reg \in Registers \ {"esp"}
    PROVE  /\ Popping(s, PopStep(t, reg), k + 1)
           /\ \A other \in Registers \ {"esp", reg} : PopStep(t, reg).r[other] = t.r[other]
           /\ Deep(s, k + 1) => PopStep(t, reg).r[reg] = Load(s, s.r["esp"] + 4 * k, 4)
  <1> DEFINE u == Pop(t, 4)
             x == Top(t, 4)
             w == Put(u, reg, x)
  <1>1. /\ Popping(s, u, k + 1) /\ \A other \in Registers \ {"esp"} : u.r[other] = t.r[other]
        /\ Deep(s, k + 1) => x = Load(s, s.r["esp"] + 4 * k, 4)
        /\ x \in Word
    BY PopsOne
  <1> HIDE DEF u, x
  <1>2. u \in AllContexts /\ x \in Int /\ Fit(x, 4) = x /\ reg \in Registers /\ reg # "esp" /\ "esp" \in Registers
    BY <1>1, Words, FitSame DEF Popping, Word, Registers
  <1>3. w \in AllContexts /\ w.ip = u.ip /\ w.f = u.f /\ w.mem = u.mem /\ w.ok = u.ok /\ w.r = [u.r EXCEPT ![reg] = x]
    BY <1>2, PutIs
  <1>4. DOMAIN u.r = Registers
    BY <1>2, ContextFields
  <1> HIDE DEF w
  <1>5. w.r[reg] = x /\ \A other \in Registers \ {reg} : w.r[other] = u.r[other]
    BY <1>2, <1>3, <1>4
  <1>6. Popping(s, w, k + 1)
    BY <1>1, <1>2, <1>3, <1>5 DEF Popping
  <1>7. PopStep(t, reg) = w
    BY DEF PopStep, w, u, x
  <1> QED
    BY <1>1, <1>5, <1>6, <1>7

PopThree(s)   == PopStep(PopStep(PopStep(s, "edi"), "esi"), "ebp")
PopHalf(s)    == Pop(PopThree(s), 4)
PopSeven(t)   == PopStep(PopStep(PopStep(PopStep(t, "ebx"), "edx"), "ecx"), "eax")
Word4(s, k)   == Load(s, s.r["esp"] + 4 * k, 4)

\* The first four words, of which the one for esp is dropped, and the last four.
LEMMA PopsHalf == ASSUME NEW s \in AllContexts
    PROVE  /\ Popping(s, PopHalf(s), 4)
           /\ Deep(s, 4) => /\ PopHalf(s).r["edi"] = Word4(s, 0) /\ PopHalf(s).r["esi"] = Word4(s, 1)
                            /\ PopHalf(s).r["ebp"] = Word4(s, 2)
  <1> DEFINE t1 == PopStep(s, "edi")
             t2 == PopStep(t1, "esi")
             t3 == PopStep(t2, "ebp")
             t4 == Pop(t3, 4)
  <1>a. {"edi", "esi", "ebp"} \subseteq Registers \ {"esp"} /\ Popping(s, s, 0)
    <2>1. s.r["esp"] \in Int /\ s.r["esp"] = s.r["esp"] + 4 * 0
      BY ContextFields, Words DEF Registers
    <2> QED
      BY <2>1, ContextFields DEF Popping, Deep, Registers
  <1>b. s.r["esp"] \in Nat /\ MemSize \in Nat
    BY ContextFields, Words, MemSizeNat DEF Registers
  <1>c. (Deep(s, 4) => Deep(s, 3)) /\ (Deep(s, 3) => Deep(s, 2)) /\ (Deep(s, 2) => Deep(s, 1))
    BY <1>b, SMT DEF Deep
  <1>1. Popping(s, t1, 1) /\ (Deep(s, 1) => t1.r["edi"] = Word4(s, 0))
    BY <1>a, PopsTo DEF Word4
  <1> HIDE DEF t1
  <1>2. Popping(s, t2, 2) /\ t2.r["edi"] = t1.r["edi"] /\ (Deep(s, 2) => t2.r["esi"] = Word4(s, 1))
    BY <1>a, <1>1, PopsTo DEF Word4
  <1> HIDE DEF t2
  <1>3. Popping(s, t3, 3) /\ t3.r["edi"] = t2.r["edi"] /\ t3.r["esi"] = t2.r["esi"] /\ (Deep(s, 3) => t3.r["ebp"] = Word4(s, 2))
    BY <1>a, <1>2, PopsTo DEF Word4
  <1> HIDE DEF t3
  <1>4. Popping(s, t4, 4) /\ t4.r["edi"] = t3.r["edi"] /\ t4.r["esi"] = t3.r["esi"] /\ t4.r["ebp"] = t3.r["ebp"]
    BY <1>a, <1>3, PopsOne
  <1>5. PopHalf(s) = t4
    BY DEF PopHalf, PopThree, t1, t2, t3
  <1> HIDE DEF t4
  <1> QED
    BY <1>c, <1>1, <1>2, <1>3, <1>4, <1>5

LEMMA PopsSeven == ASSUME NEW s \in AllContexts, NEW t, Popping(s, t, 4)
    PROVE  /\ Popping(s, PopSeven(t), 8)
           /\ \A other \in {"edi", "esi", "ebp"} : PopSeven(t).r[other] = t.r[other]
           /\ Deep(s, 8) => /\ PopSeven(t).r["ebx"] = Word4(s, 4) /\ PopSeven(t).r["edx"] = Word4(s, 5)
                            /\ PopSeven(t).r["ecx"] = Word4(s, 6) /\ PopSeven(t).r["eax"] = Word4(s, 7)
  <1> DEFINE t1 == PopStep(t, "ebx")
             t2 == PopStep(t1, "edx")
             t3 == PopStep(t2, "ecx")
             t4 == PopStep(t3, "eax")
             others == {"edi", "esi", "ebp"}
  <1>a. {"eax", "ebx", "ecx", "edx"} \subseteq Registers \ {"esp"}
        /\ others \subseteq Registers \ {"esp"} /\ others \cap {"eax", "ebx", "ecx", "edx"} = {}
    BY DEF Registers
  <1>b. s.r["esp"] \in Nat /\ MemSize \in Nat
    BY ContextFields, Words, MemSizeNat DEF Registers
  <1>c. (Deep(s, 8) => Deep(s, 7)) /\ (Deep(s, 7) => Deep(s, 6)) /\ (Deep(s, 6) => Deep(s, 5))
    BY <1>b, SMT DEF Deep
  <1> HIDE DEF others
  <1>1. Popping(s, t1, 5) /\ (\A other \in others : t1.r[other] = t.r[other]) /\ (Deep(s, 5) => t1.r["ebx"] = Word4(s, 4))
    BY <1>a, PopsTo DEF Word4
  <1> HIDE DEF t1
  <1>2. Popping(s, t2, 6) /\ (\A other \in others \cup {"ebx"} : t2.r[other] = t1.r[other]) /\ (Deep(s, 6) => t2.r["edx"] = Word4(s, 5))
    BY <1>a, <1>1, PopsTo DEF Word4
  <1> HIDE DEF t2
  <1>3. Popping(s, t3, 7) /\ (\A other \in others \cup {"ebx", "edx"} : t3.r[other] = t2.r[other]) /\ (Deep(s, 7) => t3.r["ecx"] = Word4(s, 6))
    BY <1>a, <1>2, PopsTo DEF Word4
  <1> HIDE DEF t3
  <1>4. Popping(s, t4, 8) /\ (\A other \in others \cup {"ebx", "edx", "ecx"} : t4.r[other] = t3.r[other])
        /\ (Deep(s, 8) => t4.r["eax"] = Word4(s, 7))
    BY <1>a, <1>3, PopsTo DEF Word4
  <1>5. PopSeven(t) = t4
    BY DEF PopSeven, t1, t2, t3
  <1> HIDE DEF t4
  <1>6. \A other \in others : t4.r[other] = t.r[other]
    BY <1>1, <1>2, <1>3, <1>4
  <1>7. Deep(s, 8) => t4.r["ebx"] = Word4(s, 4) /\ t4.r["edx"] = Word4(s, 5) /\ t4.r["ecx"] = Word4(s, 6) /\ t4.r["eax"] = Word4(s, 7)
    BY <1>c, <1>1, <1>2, <1>3, <1>4
  <1> QED
    BY <1>4, <1>5, <1>6, <1>7 DEF others

\* The eight words popped one by one are those that are read at their places.
LEMMA AlonePopad == ASSUME NEW i, Formed(i), NEW s \in AllContexts, i.op = "popad" PROVE Agree(i, s)
  <1> DEFINE e == PopSeven(PopHalf(s))
             esp == s.r["esp"]
             there == Deep(s, 8)
             new == [reg \in Registers |-> IF reg = "esp" THEN Fit(esp + 32, 4)
                                           ELSE xx_read_fmem(s, esp + PopadAt[reg], 4).var]
             d == Dispatch(i, Seen(i, s), s)
  <1>1. Ordinary(i) /\ Straight(i)
    BY Zenon DEF Ordinary, Straight, BitOps, Strings
  <1>2. Effect(i, s) = e
    <2>1. Effect(i, s) = PopAll(s)
      BY Zenon DEF Effect, Results, Shifts, Rotates, BitOps, Reads, Strings, Adjusts
    <2> QED
      BY <2>1, Zenon DEF PopAll, PopSeven, PopHalf, PopThree, PopStep
  <1>3. d = IF \A reg \in DOMAIN PopadAt : xx_read_fmem(s, esp + PopadAt[reg], 4).ok
            THEN Ip([s EXCEPT !.r = new]) ELSE Stopped(s)
    <2>1. d = func_op_popad(i, Seen(i, s), s)
      BY Zenon DEF Dispatch
    <2>2. [s EXCEPT !.r = [reg \in Registers |-> IF reg = "esp" THEN Fit(@[reg] + 32, 4)
                                                 ELSE xx_read_fmem(s, esp + PopadAt[reg], 4).var]] = [s EXCEPT !.r = new]
      OBVIOUS
    <2> QED
      BY <2>1, <2>2, Zenon DEF func_op_popad
  <1>4. esp \in Nat /\ MemSize \in Nat
    BY ContextFields, Words, MemSizeNat DEF Registers
  <1>5. /\ DOMAIN PopadAt = Registers \ {"esp"}
        /\ PopadAt["edi"] = 0 /\ PopadAt["esi"] = 4 /\ PopadAt["ebp"] = 8 /\ PopadAt["ebx"] = 16
        /\ PopadAt["edx"] = 20 /\ PopadAt["ecx"] = 24 /\ PopadAt["eax"] = 28
    BY DEF PopadAt, Registers
  <1>6. there <=> \A reg \in DOMAIN PopadAt : xx_read_fmem(s, esp + PopadAt[reg], 4).ok
    <2>1. \A a : xx_read_fmem(s, a, 4).ok <=> Readable(a, 4)
      BY DEF xx_read_fmem
    <2>2. there <=> \A reg \in Registers \ {"esp"} : Readable(esp + PopadAt[reg], 4)
      <3>1. there <=> Readable(esp + 28, 4)
        BY <1>4, SMT DEF Deep, Readable
      <3>2. Readable(esp + 28, 4) => \A k \in {0, 4, 8, 16, 20, 24, 28} : Readable(esp + k, 4)
        BY <1>4, SMT DEF Readable
      <3>3. \A reg \in Registers \ {"esp"} : PopadAt[reg] \in {0, 4, 8, 16, 20, 24, 28}
        BY <1>5, Zenon DEF Registers
      <3>4. "eax" \in Registers \ {"esp"}
        BY DEF Registers
      <3> HIDE DEF there, esp
      <3> QED
        BY <1>5, <3>1, <3>2, <3>3, <3>4
    <2> HIDE DEF there, esp
    <2> QED
      BY <1>5, <2>1, <2>2
  <1>7. Popping(s, e, 8)
    BY PopsHalf, PopsSeven
  <1>8. ASSUME there PROVE e = [s EXCEPT !.r = new]
    <2>1. e \in AllContexts /\ e.ip = s.ip /\ e.f = s.f /\ e.mem = s.mem /\ e.ok = s.ok /\ e.r["esp"] = esp + 4 * 8
      <3> HIDE DEF e
      <3> QED
        BY <1>7, <1>8, ContextFields DEF Popping
    <2>2. esp + 4 * 8 = esp + 32 /\ esp + 32 \in Nat /\ esp + 32 < 65536
      BY <1>4, <1>8, MemSizeSmall, SMT DEF Deep
    <2>3. new["esp"] = e.r["esp"]
      <3>1. new["esp"] = Fit(esp + 32, 4)
        BY DEF Registers
      <3> HIDE DEF new, e, esp
      <3> QED
        BY <2>1, <2>2, <3>1, FitSmall
    <2>4. \A reg \in DOMAIN PopadAt : new[reg] = Load(s, esp + PopadAt[reg], 4)
      <3>1. \A reg \in DOMAIN PopadAt : new[reg] = xx_read_fmem(s, esp + PopadAt[reg], 4).var
        BY <1>5
      <3>2. \A a : xx_read_fmem(s, a, 4).ok => xx_read_fmem(s, a, 4).var = Load(s, a, 4)
        BY DEF xx_read_fmem
      <3> HIDE DEF new, there
      <3> QED
        BY <1>6, <1>8, <3>1, <3>2
    <2>5. /\ e.r["edi"] = Word4(s, 0) /\ e.r["esi"] = Word4(s, 1) /\ e.r["ebp"] = Word4(s, 2) /\ e.r["ebx"] = Word4(s, 4)
          /\ e.r["edx"] = Word4(s, 5) /\ e.r["ecx"] = Word4(s, 6) /\ e.r["eax"] = Word4(s, 7)
      <3>1. Deep(s, 4)
        BY <1>4, <1>8, SMT DEF Deep
      <3> QED
        BY <1>8, <3>1, PopsHalf, PopsSeven
    <2>6. /\ esp + 4 * 0 = esp + 0 /\ esp + 4 * 1 = esp + 4 /\ esp + 4 * 2 = esp + 8 /\ esp + 4 * 4 = esp + 16
          /\ esp + 4 * 5 = esp + 20 /\ esp + 4 * 6 = esp + 24 /\ esp + 4 * 7 = esp + 28
      BY <1>4, SMT
    <2>7. \A reg \in Registers \ {"esp"} : e.r[reg] = new[reg]
      <3>1. Registers \ {"esp"} = {"eax", "ebx", "ecx", "edx", "esi", "edi", "ebp"}
        BY DEF Registers
      <3>2. /\ Word4(s, 0) = Load(s, esp + 0, 4) /\ Word4(s, 1) = Load(s, esp + 4, 4) /\ Word4(s, 2) = Load(s, esp + 8, 4)
            /\ Word4(s, 4) = Load(s, esp + 16, 4) /\ Word4(s, 5) = Load(s, esp + 20, 4) /\ Word4(s, 6) = Load(s, esp + 24, 4)
            /\ Word4(s, 7) = Load(s, esp + 28, 4)
        BY <2>6, Zenon DEF Word4
      <3> HIDE DEF new, e, esp
      <3> QED
        BY <1>5, <2>4, <2>5, <3>1, <3>2
    <2>8. e.r = new
      <3>1. e.r \in [Registers -> Word] /\ DOMAIN new = Registers
        BY <2>1, ContextFields
      <3> HIDE DEF new, e
      <3>2. \A reg \in Registers : e.r[reg] = new[reg]
        BY <2>3, <2>7
      <3>3. new = [reg \in Registers |-> new[reg]] /\ e.r = [reg \in Registers |-> e.r[reg]]
        BY <3>1 DEF new
      <3> QED
        BY <3>2, <3>3
    <2> HIDE DEF e, new
    <2> QED
      BY <2>1, <2>8, ContextFields
  <1>9. there => d = Ip(e)
    <2> HIDE DEF there, e, new, d
    <2> QED
      BY <1>3, <1>6, <1>8
  <1>10. ~there => ~e.ok /\ d = Stopped(s)
    <2> HIDE DEF there, e, new, d
    <2> QED
      BY <1>3, <1>6, <1>7 DEF Popping, there
  <1>11. there \in BOOLEAN
    BY DEF Deep
  <1>12. e \in AllContexts /\ e.ip = s.ip
    BY <1>7 DEF Popping
  <1> HIDE DEF e, there
  <1> QED
    BY <1>1, <1>2, <1>9, <1>10, <1>11, <1>12, ReadsOn DEF d

----------------------------------------------------------------------------
(* Strings of bytes in memory, one element.                                *)

\* How far a pointer moves, and where it is then.
Stride(s, size) == IF "DF" \in s.f THEN -size ELSE size
Onward(s, reg, size) == Fit(s.r[reg] + Stride(s, size), 4)

\* A pointer without displacement and index is the address.
LEMMA PointsAt == ASSUME NEW s \in AllContexts, NEW o, NEW reg \in Registers, Points(o, reg)
    PROVE  At(o, s) = s.r[reg] /\ (Here(o, s) <=> Readable(s.r[reg], o.size))
  <1>1. IsMem(o) /\ o.def[1] = reg /\ o.k = 0 /\ o.idx = None /\ o.seg = 0 /\ InMemory(o)
    BY Kinds DEF Points
  <1>2. Address(o, s) = Fit(Displaced(s.r[reg], 0) + 0 + Index(o, s), 4) /\ s.r[reg] \in Int /\ s.r[reg] \in Word
    BY <1>1, AddressIs, ContextFields
  <1>3. Index(o, s) = 0
    BY <1>1 DEF Index
  <1>4. Displaced(s.r[reg], 0) = s.r[reg]
    <2>1. 2^(ByteBits - 1) = 8
      BY SMT DEF ByteBits
    <2>2. ~(0 >= 2^(ByteBits - 1))
      BY <2>1
    <2> QED
      BY <1>2, <2>2 DEF Displaced
  <1>5. s.r[reg] + 0 + 0 = s.r[reg]
    BY <1>2
  <1>6. Address(o, s) = s.r[reg]
    BY <1>2, <1>3, <1>4, <1>5, FitSame
  <1> QED
    BY <1>1, <1>6 DEF At, Here

\* The pointers of the emulation are those of the processor.
LEMMA OnwardIs == ASSUME NEW s \in AllContexts, NEW reg \in Registers, NEW size \in {1, 2, 4}
    PROVE  /\ Passed(s, reg, size) = Onward(s, reg, size) /\ Onward(s, reg, size) \in Word
           /\ Lowest(s, reg, size, size) = s.r[reg] /\ s.r[reg] + Stride(s, size) \in Int
  <1> DEFINE r == s.r[reg]
  <1>1. r \in Word /\ r \in Int
    BY ContextFields, Words
  <1> HIDE DEF r
  <1>2. r - size \in Int /\ r + size \in Int /\ r + (-size) = r - size /\ (r - size) + size = r
    BY <1>1
  <1>3. Fit(r, 4) = r
    BY <1>1, FitSame
  <1>4. Lowest(s, reg, size, size) = r
    <2>1. (IF Down(s) THEN r - size + size ELSE r) = r
      BY <1>2
    <2> QED
      BY <1>3, <2>1 DEF Lowest, r
  <1>5. r + Stride(s, size) = IF Down(s) THEN r - size ELSE r + size
    BY <1>2 DEF Stride, Down
  <1>6. r + Stride(s, size) \in Int
    BY <1>2, <1>5
  <1>7. Onward(s, reg, size) \in Word
    BY <1>6, FitRange DEF Onward, r
  <1>8. Passed(s, reg, size) = Onward(s, reg, size)
    BY <1>5 DEF Passed, Onward, r
  <1> QED
    BY <1>4, <1>6, <1>7, <1>8 DEF r

\* Contexts with the same fields are one.
LEMMA SameContext ==
  ASSUME NEW s \in AllContexts, NEW t \in AllContexts, s.ok = t.ok, s.ip = t.ip, s.f = t.f, s.r = t.r, s.mem = t.mem
  PROVE  s = t
  BY ContextFields

\* An element is handled when both its operands are there.
LEMMA StringsAgree ==
  ASSUME NEW i, Formed(i), NEW s \in AllContexts, i.op \in Strings, NEW e \in AllContexts, e.ip = s.ip, Effect(i, s) = e,
         AllHere(i, s) => Dispatch(i, Seen(i, s), s) = Ip(e), ~AllHere(i, s) => ~e.ok
  PROVE  Agree(i, s)
  <1>1. ~Faults(i, s)
    BY Zenon DEF Faults
  <1>2. Straight(i) /\ i.op \notin {"lea", "pop", "push"}
    BY Zenon DEF Straight, Strings
  <1>3. AllHere(i, s) => Goes(i, s, e, Dispatch(i, Seen(i, s), s))
    BY <1>2, IpIs DEF Goes
  <1> QED
    BY <1>1, <1>2, <1>3, NextIs, SeenIs, Framed

\* A byte of what was read is the byte of memory.
LEMMA LoadByte ==
  ASSUME NEW s \in AllContexts, NEW a \in Nat, NEW size \in {1, 2, 4}, Readable(a, size), NEW d \in 0..size - 1
  PROVE  Slice(Load(s, a, size), d, 1) = s.mem[a + d]
  <1> DEFINE b(k) == IF k < size THEN s.mem[a + k] ELSE 0
  <1>1. \A k \in {0, 1, 2, 3} : b(k) \in 0..15
    <2>1. ASSUME NEW k \in {0, 1, 2, 3}, k < size PROVE s.mem[a + k] \in 0..15
      <3>1. s.mem[a + k] \in Nat /\ s.mem[a + k] < 16
        BY <2>1, MemoryBytes
      <3> QED
        BY <3>1, SMT
    <2> QED
      BY <2>1
  <1>2. Load(s, a, size) = b(0) * 1 + b(1) * 16 + b(2) * 256 + b(3) * 4096
    <2>1. ASSUME NEW k \in {0, 1, 2, 3}, NEW w \in Int
          PROVE  (IF k < size THEN s.mem[a + k] * w ELSE 0) = b(k) * w
      <3>1. b(k) \in Int
        BY <1>1
      <3>2. 0 * w = 0
        BY <2>1
      <3> QED
        BY <3>2
    <2> HIDE DEF b
    <2>2. Load(s, a, size) = b(0) * 2^Width(0) + b(1) * 2^Width(1) + b(2) * 2^Width(2) + b(3) * 2^Width(3)
      BY <2>1, Power0, Power1, Power2, Power3 DEF Load
    <2> QED
      BY <2>2, Power0, Power1, Power2, Power3
  <1>3. d \in {0, 1, 2, 3} /\ b(d) = s.mem[a + d]
    BY SMT
  <1> HIDE DEF b
  <1>4. b(0) \in 0..15 /\ b(1) \in 0..15 /\ b(2) \in 0..15 /\ b(3) \in 0..15
    BY <1>1
  <1> DEFINE x == Load(s, a, size)
  <1> HIDE DEF x
  <1>5. x = b(0) * 1 + b(1) * 16 + b(2) * 256 + b(3) * 4096
    BY <1>2 DEF x
  <1>6. PICK c0 \in 0..15, c1 \in 0..15, c2 \in 0..15, c3 \in 0..15 : c0 = b(0) /\ c1 = b(1) /\ c2 = b(2) /\ c3 = b(3)
    BY <1>4
  <1>7. x = c0 * 1 + c1 * 16 + c2 * 256 + c3 * 4096
    BY <1>5, <1>6
  <1>8. x \in Int
    BY <1>7
  <1>9. Slice(x, 0, 1) = c0
    <2>1. x % 16 = c0
      BY <1>7, SMT
    <2> QED
      BY <1>8, <2>1, Slice01, Zenon
  <1>10. Slice(x, 1, 1) = c1
    <2>1. x \div 16 = c1 + c2 * 16 + c3 * 256
      BY <1>7, SMT
    <2>2. (c1 + c2 * 16 + c3 * 256) % 16 = c1
      BY SMT
    <2>3. Slice(x, 1, 1) = (x \div 16) % 16
      BY <1>8, Slice11, Zenon
    <2> QED
      BY <2>1, <2>2, <2>3
  <1>11. Slice(x, 2, 1) = c2
    <2>1. x \div 256 = c2 + c3 * 16
      BY <1>7, SMT
    <2>2. (c2 + c3 * 16) % 16 = c2
      BY SMT
    <2>3. Slice(x, 2, 1) = (x \div 256) % 16
      BY <1>8, Slice21, Zenon
    <2> QED
      BY <2>1, <2>2, <2>3
  <1>12. Slice(x, 3, 1) = c3
    <2>1. x \div 4096 = c3
      BY <1>7, SMT
    <2>2. c3 % 16 = c3
      BY SMT
    <2>3. Slice(x, 3, 1) = (x \div 4096) % 16
      BY <1>8, Slice31
    <2> QED
      BY <2>1, <2>2, <2>3
  <1>13. Slice(x, d, 1) = b(d)
    BY <1>3, <1>6, <1>9, <1>10, <1>11, <1>12, Zenon
  <1> QED
    BY <1>3, <1>13 DEF x

\* lods: memory at esi to the accumulator.
LEMMA MoveLods ==
  ASSUME NEW i, Formed(i), NEW s \in AllContexts, i.op = "lods", ~i.rep, Same(i), IsReg(i.item[1]), Points(i.item[2], "esi"), i.item[3] = NoItem
  PROVE  Agree(i, s)
  <1> DEFINE size == i.item[1].size
             si == s.r["esi"]
             x == IF Readable(si, size) THEN Load(s, si, size) ELSE 0
             t == Touch(s, si, size)
             u == Put(t, "esi", si + Stride(s, size))
             e == [u EXCEPT !.r["eax"] = Splice(@, 0, size, x)]
             out == [s EXCEPT !.r["eax"] = Splice(@, 0, size, x), !.r["esi"] = Passed(s, "esi", size)]
  <1>1. size \in {1, 2, 4} /\ {"eax", "esi"} \subseteq Registers
    BY SizesOf DEF IsPlace, Registers
  <1>2. si \in Nat /\ x \in Int /\ s.r["eax"] \in Word
    <2>1. si \in Nat /\ s.r["eax"] \in Word
      BY <1>1, ContextFields, Words
    <2>2. Readable(si, size) => Load(s, si, size) \in Int
      BY <1>1, <2>1, LoadIs, Numbered, Words DEF Below
    <2> QED
      BY <2>1, <2>2
  <1>3. Effect(i, s) = e
    <2>1. Effect(i, s) = Element("lods", size, s)
      BY Zenon DEF Effect, Results, Shifts, Rotates, BitOps, Reads, Strings, Adjusts
    <2> QED
      BY <2>1, Zenon DEF Element, Stride
  <1>4. AllHere(i, s) <=> Readable(si, size)
    <2>1. Here(i.item[2], s) <=> Readable(si, size)
      BY <1>1, PointsAt DEF Same
    <2>2. Here(i.item[1], s) /\ Here(i.item[3], s)
      BY Kinds DEF Here
    <2> QED
      BY <2>1, <2>2 DEF AllHere
  <1>5. t \in AllContexts /\ t.ip = s.ip /\ t.f = s.f /\ t.mem = s.mem /\ t.r = s.r /\ t.ok = (s.ok /\ Readable(si, size))
    BY <1>2 DEF Touch, AllContexts
  <1>6. si + Stride(s, size) \in Int /\ Fit(si + Stride(s, size), 4) = Passed(s, "esi", size) /\ Passed(s, "esi", size) \in Word
    BY <1>1, OnwardIs DEF Onward
  <1> HIDE DEF t, x, size
  <1>7. u \in AllContexts /\ u.ip = s.ip /\ u.f = s.f /\ u.mem = s.mem /\ u.ok = t.ok /\ u.r = [s.r EXCEPT !["esi"] = Passed(s, "esi", size)]
    BY <1>1, <1>5, <1>6, PutIs
  <1> DEFINE y == Splice(s.r["eax"], 0, size, x)
  <1>8. y \in Word
    BY <1>1, <1>2, SpliceIs
  <1> HIDE DEF u
  <1>9. u.r["eax"] = s.r["eax"]
    <2>1. DOMAIN s.r = Registers
      BY ContextFields
    <2> QED
      BY <1>1, <1>7, <2>1
  <1>10. e = [u EXCEPT !.r["eax"] = y]
    BY <1>9
  <1>11. /\ e \in AllContexts /\ e.ip = s.ip /\ e.f = s.f /\ e.mem = s.mem /\ e.ok = t.ok
         /\ e.r = [u.r EXCEPT !["eax"] = y]
    <2> HIDE DEF e, y
    <2> QED
      BY <1>1, <1>7, <1>8, <1>10, RegIs
  <1> HIDE DEF e
  <1>12. Dispatch(i, Seen(i, s), s) = IF Readable(si, size) THEN Ip(out) ELSE Stopped(s)
    <2>1. Dispatch(i, Seen(i, s), s) = IF size = 1 THEN Lods(i, s, 1) ELSE Lods(i, s, Seen(i, s)[1].size)
      BY Zenon DEF Dispatch, func_op_lodsb, func_op_lods, size
    <2>2. Dispatch(i, Seen(i, s), s) = Lods(i, s, size)
      BY <2>1, SeenItem DEF size
    <2>3. Lods(i, s, size) = Reads1(s, si, size,
            LAMBDA z : Ip([s EXCEPT !.r["eax"] = Splice(@, 0, size, z), !.r["esi"] = Passed(s, "esi", size)]))
      BY Zenon DEF Lods
    <2> QED
      BY <2>2, <2>3, Zenon DEF Reads1, xx_read_fmem, x
  <1>13. Readable(si, size) => out = e
    <2> SUFFICES ASSUME Readable(si, size) PROVE out = e
      OBVIOUS
    <2> DEFINE w == [s EXCEPT !.r["eax"] = y]
    <2>1. out = [w EXCEPT !.r["esi"] = Passed(s, "esi", size)]
      OBVIOUS
    <2>2. w \in AllContexts /\ w.ip = s.ip /\ w.f = s.f /\ w.mem = s.mem /\ w.ok = s.ok /\ w.r = [s.r EXCEPT !["eax"] = y]
      <3> HIDE DEF y
      <3> QED
        BY <1>1, <1>8, RegIs
    <2> HIDE DEF w, out
    <2>3. /\ out \in AllContexts /\ out.ip = s.ip /\ out.f = s.f /\ out.mem = s.mem /\ out.ok = s.ok
          /\ out.r = [w.r EXCEPT !["esi"] = Passed(s, "esi", size)]
      BY <1>1, <1>6, <2>1, <2>2, RegIs
    <2>4. DOMAIN s.r = Registers
      BY ContextFields
    <2> HIDE DEF y
    <2>5. out.r = e.r
      BY <1>1, <1>7, <1>11, <2>2, <2>3, <2>4
    <2>6. e.ok = s.ok
      BY <1>5, <1>11, ContextFields
    <2> QED
      BY <1>11, <2>3, <2>5, <2>6, SameContext
  <1>14. ~Readable(si, size) => ~e.ok
    BY <1>5, <1>11
  <1> HIDE DEF out
  <1>15. i.op \in Strings
    BY DEF Strings
  <1> QED
    BY <1>3, <1>4, <1>11, <1>12, <1>13, <1>14, <1>15, StringsAgree

\* Contexts that differ in memory only.
LEMMA WithMemory == ASSUME NEW s \in AllContexts, NEW mem \in [0..MemSize - 1 -> NumbersOf(1)]
    PROVE  /\ [s EXCEPT !.mem = mem] \in AllContexts
           /\ [s EXCEPT !.mem = mem].ip = s.ip /\ [s EXCEPT !.mem = mem].f = s.f /\ [s EXCEPT !.mem = mem].ok = s.ok
           /\ [s EXCEPT !.mem = mem].r = s.r /\ [s EXCEPT !.mem = mem].mem = mem
  BY DEF AllContexts

\* stos: the bytes of eax that fit in an element go to memory at edi.
LEMMA MoveStos ==
  ASSUME NEW i, Formed(i), NEW s \in AllContexts, i.op = "stos", ~i.rep, Same(i), Points(i.item[1], "edi"), IsReg(i.item[2]), i.item[3] = NoItem
  PROVE  Agree(i, s)
  <1> DEFINE size == i.item[1].size
             di == s.r["edi"]
             x == Fit(s.r["eax"], size)
             u == Store(s, di, x, size)
             e == Put(u, "edi", di + Stride(s, size))
             w == Filled(s, di, size, size)
             out == Put(w, "edi", Passed(s, "edi", size))
  <1>1. size \in {1, 2, 4} /\ {"eax", "edi"} \subseteq Registers
    BY SizesOf DEF IsPlace, Registers, Points
  <1>2. di \in Nat /\ s.r["eax"] \in Int /\ x \in Int
    <2>1. di \in Nat /\ s.r["eax"] \in Int
      BY <1>1, ContextFields, Words
    <2> QED
      BY <1>1, <2>1, FitRange, Words DEF Below
  <1>3. Effect(i, s) = e
    <2>1. Effect(i, s) = Element("stos", size, s)
      BY Zenon DEF Effect, Results, Shifts, Rotates, BitOps, Reads, Strings, Adjusts
    <2> QED
      BY <2>1, Zenon DEF Element, Stride
  <1>4. AllHere(i, s) <=> Readable(di, size)
    <2>1. Here(i.item[1], s) <=> Readable(di, size)
      BY <1>1, PointsAt
    <2>2. Here(i.item[2], s) /\ Here(i.item[3], s)
      BY Kinds DEF Here
    <2> QED
      BY <2>1, <2>2 DEF AllHere
  <1>5. di + Stride(s, size) \in Int /\ Fit(di + Stride(s, size), 4) = Passed(s, "edi", size) /\ Passed(s, "edi", size) \in Word
        /\ Lowest(s, "edi", size, size) = di
    BY <1>1, OnwardIs DEF Onward
  <1> HIDE DEF x, size, di
  <1>6. /\ u \in AllContexts /\ u.ip = s.ip /\ u.f = s.f /\ u.r = s.r /\ u.ok = (s.ok /\ Readable(di, size))
        /\ u.mem = Stored(s, di, x, size)
    BY <1>1, <1>2, StoreIs
  <1> HIDE DEF u
  <1>7. /\ e \in AllContexts /\ e.ip = s.ip /\ e.f = s.f /\ e.mem = u.mem /\ e.ok = u.ok
        /\ e.r = [s.r EXCEPT !["edi"] = Passed(s, "edi", size)]
    BY <1>1, <1>5, <1>6, PutIs
  <1> HIDE DEF e
  <1>8. Dispatch(i, Seen(i, s), s) = Ip(out)
    <2>1. Dispatch(i, Seen(i, s), s) = IF size = 1 THEN Stos(i, s, 1) ELSE Stos(i, s, Seen(i, s)[1].size)
      BY Zenon DEF Dispatch, func_op_stosb, func_op_stos, size
    <2>2. Dispatch(i, Seen(i, s), s) = Stos(i, s, size)
      BY <2>1, SeenItem DEF size
    <2>3. size # 0
      BY <1>1
    <2>4. Stos(i, s, size) = Ip(Reg4(Filled(s, Lowest(s, "edi", size, size), size, size), "edi", Passed(s, "edi", size)))
      BY <2>3, Zenon DEF Stos, VarSize
    <2> QED
      BY <2>2, <2>4, <1>5 DEF Reg4
  <1>9. Readable(di, size) => out = e
    <2> SUFFICES ASSUME Readable(di, size) PROVE out = e
      OBVIOUS
    <2> DEFINE mem == [j \in 0..MemSize - 1 |-> IF j - di \in 0..size - 1 THEN Slice(s.r["eax"], (j - di) % size, 1) ELSE s.mem[j]]
    <2>1. DOMAIN s.mem = 0..MemSize - 1 /\ DOMAIN s.r = Registers /\ s.mem \in [0..MemSize - 1 -> NumbersOf(1)]
      BY ContextFields
    <2>2. w = [s EXCEPT !.mem = mem]
      BY <2>1 DEF Filled
    <2>3. ASSUME NEW j \in 0..MemSize - 1, j - di \in 0..size - 1
          PROVE  Slice(s.r["eax"], (j - di) % size, 1) = Slice(x, j - di, 1)
      <3> DEFINE d == j - di
      <3>1. d \in Nat /\ d < size
        BY <1>1, <2>3
      <3> HIDE DEF d
      <3>2. d % size = d
        BY <1>1, <3>1, SMT
      <3>3. Slice(x, d, 1) = Slice(s.r["eax"], d, 1)
        BY <1>1, <1>2, <3>1, SliceOfFit DEF x
      <3>4. Slice(s.r["eax"], d % size, 1) = Slice(x, d, 1)
        BY <3>2, <3>3
      <3> QED
        BY <3>4 DEF d
    <2>4. mem = Stored(s, di, x, size)
      BY <2>3 DEF Stored
    <2> HIDE DEF mem, w
    <2>5. mem \in [0..MemSize - 1 -> NumbersOf(1)]
      BY <1>6, <2>4, ContextFields
    <2>6. w \in AllContexts /\ w.ip = s.ip /\ w.f = s.f /\ w.ok = s.ok /\ w.r = s.r /\ w.mem = mem
      BY <2>2, <2>5, WithMemory
    <2>7. Fit(Passed(s, "edi", size), 4) = Passed(s, "edi", size) /\ Passed(s, "edi", size) \in Int
      BY <1>5, FitSame, Words
    <2>8. /\ out \in AllContexts /\ out.ip = s.ip /\ out.f = s.f /\ out.mem = mem /\ out.ok = s.ok
          /\ out.r = [s.r EXCEPT !["edi"] = Passed(s, "edi", size)]
      BY <1>1, <2>6, <2>7, PutIs
    <2> HIDE DEF out
    <2>9. e.ok = s.ok
      BY <1>6, <1>7, ContextFields
    <2> QED
      BY <1>6, <1>7, <2>4, <2>8, <2>9, SameContext
  <1>10. ~Readable(di, size) => ~e.ok
    BY <1>6, <1>7
  <1> HIDE DEF out
  <1>11. i.op \in Strings
    BY DEF Strings
  <1> QED
    BY <1>3, <1>4, <1>7, <1>8, <1>9, <1>10, <1>11, StringsAgree

\* movs: the element at esi, byte by byte, to memory at edi.
LEMMA MoveMovs ==
  ASSUME NEW i, Formed(i), NEW s \in AllContexts, i.op = "movs", ~i.rep, Same(i), Points(i.item[1], "edi"), Points(i.item[2], "esi"), i.item[3] = NoItem
  PROVE  Agree(i, s)
  <1> DEFINE size == i.item[1].size
             di == s.r["edi"]
             si == s.r["esi"]
             x == IF Readable(si, size) THEN Load(s, si, size) ELSE 0
             t == Touch(s, si, size)
             q == Put(t, "esi", si + Stride(s, size))
             u == Store(q, di, x, size)
             e == Put(u, "edi", di + Stride(s, size))
             w == Copied(s, si, di, size)
             out == [w EXCEPT !.r["esi"] = Passed(s, "esi", size), !.r["edi"] = Passed(s, "edi", size)]
  <1>1. size \in {1, 2, 4} /\ {"esi", "edi"} \subseteq Registers
    BY SizesOf, Kinds DEF IsPlace, Registers, Points
  <1>2. di \in Nat /\ si \in Nat /\ x \in Int
    <2>1. si \in Nat /\ di \in Nat
      BY <1>1, ContextFields, Words
    <2>2. Readable(si, size) => Load(s, si, size) \in Int
      BY <1>1, <2>1, LoadIs, Numbered, Words DEF Below
    <2> QED
      BY <2>1, <2>2
  <1>3. Effect(i, s) = e
    <2>1. Effect(i, s) = Element("movs", size, s)
      BY Zenon DEF Effect, Results, Shifts, Rotates, BitOps, Reads, Strings, Adjusts
    <2> QED
      BY <2>1, Zenon DEF Element, Stride
  <1>4. AllHere(i, s) <=> Readable(di, size) /\ Readable(si, size)
    <2>1. (Here(i.item[1], s) <=> Readable(di, size)) /\ (Here(i.item[2], s) <=> Readable(si, size))
      BY <1>1, PointsAt DEF Same
    <2>2. Here(i.item[3], s)
      BY Kinds DEF Here
    <2> QED
      BY <2>1, <2>2 DEF AllHere
  <1>5. /\ di + Stride(s, size) \in Int /\ Fit(di + Stride(s, size), 4) = Passed(s, "edi", size) /\ Passed(s, "edi", size) \in Word
        /\ si + Stride(s, size) \in Int /\ Fit(si + Stride(s, size), 4) = Passed(s, "esi", size) /\ Passed(s, "esi", size) \in Word
        /\ Lowest(s, "edi", size, size) = di /\ Lowest(s, "esi", size, size) = si
    BY <1>1, OnwardIs DEF Onward
  <1>6. t \in AllContexts /\ t.ip = s.ip /\ t.f = s.f /\ t.mem = s.mem /\ t.r = s.r /\ t.ok = (s.ok /\ Readable(si, size))
    BY <1>2 DEF Touch, AllContexts
  <1> HIDE DEF x, size, di, si, t
  <1>7. q \in AllContexts /\ q.ip = s.ip /\ q.f = s.f /\ q.mem = s.mem /\ q.ok = t.ok /\ q.r = [s.r EXCEPT !["esi"] = Passed(s, "esi", size)]
    BY <1>1, <1>5, <1>6, PutIs
  <1> HIDE DEF q
  <1>8. /\ u \in AllContexts /\ u.ip = s.ip /\ u.f = s.f /\ u.r = q.r /\ u.ok = (q.ok /\ Readable(di, size))
        /\ u.mem = Stored(q, di, x, size)
    BY <1>1, <1>2, <1>7, StoreIs
  <1>9. u.mem = Stored(s, di, x, size)
    BY <1>7, <1>8 DEF Stored
  <1> HIDE DEF u
  <1>10. /\ e \in AllContexts /\ e.ip = s.ip /\ e.f = s.f /\ e.mem = u.mem /\ e.ok = u.ok
         /\ e.r = [q.r EXCEPT !["edi"] = Passed(s, "edi", size)]
    BY <1>1, <1>5, <1>8, PutIs
  <1> HIDE DEF e
  <1>11. Dispatch(i, Seen(i, s), s) = Ip(out)
    <2>1. Dispatch(i, Seen(i, s), s) = IF size = 1 THEN Movs(i, s, 1) ELSE Movs(i, s, Seen(i, s)[1].size)
      BY Zenon DEF Dispatch, func_op_movsb, func_op_movs, size
    <2>2. Dispatch(i, Seen(i, s), s) = Movs(i, s, size)
      BY <2>1, SeenItem DEF size
    <2>3. size # 0
      BY <1>1
    <2>4. Movs(i, s, size) =
            Ip([Copied(s, Lowest(s, "esi", size, size), Lowest(s, "edi", size, size), size)
                  EXCEPT !.r["esi"] = Passed(s, "esi", size), !.r["edi"] = Passed(s, "edi", size)])
      BY <2>3, Zenon DEF Movs, VarSize
    <2> QED
      BY <2>2, <2>4, <1>5
  <1>12. Readable(si, size) /\ Readable(di, size) => out = e
    <2> SUFFICES ASSUME Readable(si, size), Readable(di, size) PROVE out = e
      OBVIOUS
    <2> DEFINE mem == [j \in 0..MemSize - 1 |-> IF j - di \in 0..size - 1 THEN s.mem[j - di + si] ELSE s.mem[j]]
               v == [w EXCEPT !.r["esi"] = Passed(s, "esi", size)]
    <2>1. DOMAIN s.mem = 0..MemSize - 1 /\ DOMAIN s.r = Registers /\ s.mem \in [0..MemSize - 1 -> NumbersOf(1)]
      BY ContextFields
    <2>2. w = [s EXCEPT !.mem = mem]
      BY <2>1 DEF Copied
    <2>3. ASSUME NEW j \in 0..MemSize - 1, j - di \in 0..size - 1
          PROVE  s.mem[j - di + si] = Slice(x, j - di, 1)
      <3> DEFINE d == j - di
      <3>1. d \in 0..size - 1
        BY <2>3
      <3>2. d + si = si + d
        BY <1>1, <1>2, <3>1
      <3> HIDE DEF d
      <3>3. x = Load(s, si, size)
        BY DEF x
      <3>4. Slice(Load(s, si, size), d, 1) = s.mem[si + d]
        BY <1>1, <1>2, <3>1, LoadByte
      <3>5. s.mem[d + si] = Slice(x, d, 1)
        BY <3>2, <3>3, <3>4
      <3> QED
        BY <3>5 DEF d
    <2>4. mem = Stored(s, di, x, size)
      BY <2>3 DEF Stored
    <2> HIDE DEF mem, w
    <2>5. mem \in [0..MemSize - 1 -> NumbersOf(1)]
      BY <1>8, <1>9, <2>4, ContextFields
    <2>6. w \in AllContexts /\ w.ip = s.ip /\ w.f = s.f /\ w.ok = s.ok /\ w.r = s.r /\ w.mem = mem
      BY <2>2, <2>5, WithMemory
    <2>7. out = [v EXCEPT !.r["edi"] = Passed(s, "edi", size)]
      OBVIOUS
    <2>8. v \in AllContexts /\ v.ip = s.ip /\ v.f = s.f /\ v.ok = s.ok /\ v.mem = mem /\ v.r = q.r
      BY <1>1, <1>5, <1>7, <2>6, RegIs
    <2> HIDE DEF v, out
    <2>9. /\ out \in AllContexts /\ out.ip = s.ip /\ out.f = s.f /\ out.mem = mem /\ out.ok = s.ok
          /\ out.r = [q.r EXCEPT !["edi"] = Passed(s, "edi", size)]
      BY <1>1, <1>5, <2>7, <2>8, RegIs
    <2>10. e.ok = s.ok
      BY <1>6, <1>7, <1>8, <1>10, ContextFields
    <2> QED
      BY <1>9, <1>10, <2>4, <2>9, <2>10, SameContext
  <1>13. ~(Readable(si, size) /\ Readable(di, size)) => ~e.ok
    BY <1>6, <1>7, <1>8, <1>10
  <1> HIDE DEF out
  <1>14. i.op \in Strings
    BY DEF Strings
  <1> QED
    BY <1>3, <1>4, <1>10, <1>11, <1>12, <1>13, <1>14, StringsAgree
=============================================================================
