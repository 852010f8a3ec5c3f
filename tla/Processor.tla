----------------------------- MODULE Processor -----------------------------
(***************************************************************************)
(* The processor the traced program runs on: what one instruction does.    *)
(* It is not part of the repository.  The emulation of xx_vm32 uses it in  *)
(* its inline assembly (Alu, Wide, Adjust) and is compared with all of it  *)
(* (Effect).                                                               *)
(*                                                                         *)
(* A byte has four bits here and a register four bytes.  The flags keep     *)
(* their order, the low byte of the flag word holds the first ByteBits of  *)
(* them.  Multiplication, division and decimal adjustment are some         *)
(* function of their operands that writes the registers they write.        *)
(***************************************************************************)
EXTENDS Instruction, Integers, FiniteSetsExt, SequencesExt

CONSTANT MemSize  \* the addresses 0 .. MemSize - 1 can be accessed

ByteBits  == 4
ASSUME MemSizeAssumption == MemSize \in 1..2^(4 * ByteBits) - 1

Registers == {"eax", "ebx", "ecx", "edx", "esi", "edi", "ebp", "esp"}
FlagOrder == <<"CF", "PF", "ZF", "SF", "DF", "OF">>
Flags     == Range(FlagOrder)

----------------------------------------------------------------------------
(* Numbers.                                                                *)

Width(size)     == ByteBits * size
Fit(x, size)    == x % 2^Width(size)
Signed(x, size) == IF x >= 2^(Width(size) - 1) THEN x - 2^Width(size) ELSE x
Bit(x, k)       == (x \div 2^k) % 2 = 1
Slice(x, at, n) == Fit(x \div 2^Width(at), n)
Splice(x, at, n, y) == x + (Fit(y, n) - Slice(x, at, n)) * 2^Width(at)

\* The place of a part of a register: its first byte and its size.
Place(p)         == IF p = "h" THEN 1 ELSE 0
GetPart(x, p)    == Slice(x, Place(p), PartSize(p))
SetPart(x, p, y) == Splice(x, Place(p), PartSize(p), y)

FlagWord(f) ==
  LET bit(k) == IF FlagOrder[k] \in f THEN 2^(k - 1) ELSE 0
  IN  bit(1) + bit(2) + bit(3) + bit(4) + bit(5) + bit(6)
FlagsIn(w)  == {FlagOrder[k] : k \in {k \in 1..6 : Bit(w, k - 1)}}
If(c, flag) == IF c THEN {flag} ELSE {}

\* An operation on bits, on the bits of a byte and on the bytes of a register:
\* in which bits the result has a one, by how many of the operands have one.
Bits(ones, a, b) ==
  LET bit(k) == IF ((a \div 2^k) % 2) + ((b \div 2^k) % 2) \in ones THEN 2^k ELSE 0
  IN  bit(0) + bit(1) + bit(2) + bit(3)
Bitwise(ones, a, b) ==
  LET byte(j) == Bits(ones, Slice(a, j, 1), Slice(b, j, 1)) * 2^Width(j)
  IN  byte(0) + byte(1) + byte(2) + byte(3)
And(a, b) == Bitwise({2}, a, b)
Or(a, b)  == Bitwise({1, 2}, a, b)
Xor(a, b) == Bitwise({1}, a, b)

----------------------------------------------------------------------------
(* Results and flags of the arithmetic unit.                               *)

EvenParity(x)  == Cardinality({k \in 0..ByteBits - 1 : Bit(x, k)}) % 2 = 0
Shown(r, size) == If(r = 0, "ZF") \cup If(Bit(r, Width(size) - 1), "SF") \cup If(EvenParity(r), "PF")
Outcome(r, size, cf, of, f) ==
  [r |-> r, f |-> (f \cap {"DF"}) \cup Shown(r, size) \cup If(cf, "CF") \cup If(of, "OF")]
Carry(f) == IF "CF" \in f THEN 1 ELSE 0

\* The unsigned and the signed result, which fits or not.
Exact(u, i, size, f) == Outcome(Fit(u, size), size, u # Fit(u, size), i # Signed(Fit(u, size), size), f)
Sum(size, a, b, c, f)        == Exact(a + b + c, Signed(a, size) + Signed(b, size) + c, size, f)
Difference(size, a, b, c, f) == Exact(a - b - c, Signed(a, size) - Signed(b, size) - c, size, f)
KeepCarry(f, o) == [o EXCEPT !.f = (@ \ {"CF"}) \cup (f \cap {"CF"})]

\* Rotation of an n-bit number; shifts by c bits, c <= n.
RotateLeft(x, n, c) == (x % 2^(n - c)) * 2^c + x \div 2^(n - c)
Extended(size, a, f) == a + Carry(f) * 2^Width(size)

\* What a shift of n bits by c > 0 leaves: result and carry.  Rotated is the
\* number after a rotation, with the carry at bit c.
Rotated(x, n, c)   == [r |-> x % 2^n, cf |-> Bit(x, c)]
Least(c, n)        == IF c > n THEN n ELSE c
Shifted(op, size, a, c, f) ==
  LET n == Width(size)
  IN CASE op \in {"shl", "sal"} -> [r |-> (a % 2^(n - Least(c, n))) * 2^Least(c, n), cf |-> c <= n /\ Bit(a, n - c)]
       [] op = "shr" -> [r |-> a \div 2^Least(c, n), cf |-> c <= n /\ Bit(a, c - 1)]
       [] op = "sar" -> [r |-> Fit(Signed(a, size) \div 2^Least(c, n), size), cf |-> Bit(a, Least(c, n) - 1)]
       [] op = "rcl" -> Rotated(RotateLeft(Extended(size, a, f), n + 1, c % (n + 1)), n, n)
       [] op = "rcr" -> Rotated(RotateLeft(Extended(size, a, f), n + 1, ((n + 1) - (c % (n + 1))) % (n + 1)), n, n)
       [] op = "rol" -> Rotated(RotateLeft(a, n, c % n), n, 0)
       [] op = "ror" -> Rotated(RotateLeft(a, n, (n - (c % n)) % n), n, n - 1)
Rotates == {"rol", "ror", "rcl", "rcr"}
Shifts  == Rotates \cup {"shl", "sal", "shr", "sar"}
SignTurns(a, r, size) == Bit(a, Width(size) - 1) # Bit(r, Width(size) - 1)
ShiftFlags(op, size, a, x, f) ==
  IF op \in Rotates
  THEN [r |-> x.r, f |-> (f \ {"CF", "OF"}) \cup If(x.cf, "CF") \cup If(SignTurns(a, x.r, size), "OF")]
  ELSE Outcome(x.r, size, x.cf, SignTurns(a, x.r, size), f)
Count(b) == b % (4 * ByteBits)
Shift(op, size, a, b, f) ==
  IF Count(b) = 0 THEN [r |-> a, f |-> f] ELSE ShiftFlags(op, size, a, Shifted(op, size, a, Count(b), f), f)
\* shld and shrd: the bits that come in are those of b.
ShiftDouble(op, size, a, b, k, f) ==
  LET n == Width(size)
      c == Count(k) % n
      left == op = "shld"
  IN  IF c = 0 THEN [r |-> a, f |-> f]
      ELSE ShiftFlags(op, size, a, [r  |-> IF left THEN (a % 2^(n - c)) * 2^c + b \div 2^(n - c)
                                                   ELSE a \div 2^c + (b % 2^c) * 2^(n - c),
                                    cf |-> Bit(a, IF left THEN n - c ELSE c - 1)], f)

BitOps == {"bt", "btc", "btr", "bts"}
BitOp(op, a, k, f) ==
  [r |-> CASE op = "bt"               -> a
           [] op = "btr" /\ Bit(a, k) -> a - 2^k
           [] op = "bts" /\ ~Bit(a, k) -> a + 2^k
           [] op = "btc"              -> IF Bit(a, k) THEN a - 2^k ELSE a + 2^k
           [] OTHER                   -> a,
   f |-> (f \ {"CF"}) \cup If(Bit(a, k), "CF")]
Scan(op, a, ones, f) ==
  IF ones = {} THEN [r |-> a, f |-> f \cup {"ZF"}]
  ELSE [r |-> IF op = "bsf" THEN Min(ones) ELSE Max(ones), f |-> f \ {"ZF"}]

Mixed(a, b, c, size) == Fit(7 * a + 5 * b + 3 * c + 1, size)

\* An instruction of the arithmetic unit on operands of one size.
AluFitted(op, size, a, b, f) ==
  CASE op \in {"add", "adc"} -> Sum(size, a, b, IF op = "adc" THEN Carry(f) ELSE 0, f)
    [] op \in {"sub", "cmp", "sbb"} -> Difference(size, a, b, IF op = "sbb" THEN Carry(f) ELSE 0, f)
    [] op = "neg" -> Difference(size, 0, a, 0, f)
    [] op = "inc" -> KeepCarry(f, Sum(size, a, 1, 0, f))
    [] op = "dec" -> KeepCarry(f, Difference(size, a, 1, 0, f))
    [] op = "not" -> [r |-> 2^Width(size) - 1 - a, f |-> f]
    [] op \in {"and", "test"} -> Outcome(And(a, b), size, FALSE, FALSE, f)
    [] op = "or"  -> Outcome(Or(a, b), size, FALSE, FALSE, f)
    [] op = "xor" -> Outcome(Xor(a, b), size, FALSE, FALSE, f)
    [] op \in Shifts -> Shift(op, size, a, b, f)
    [] op \in BitOps -> BitOp(op, a, b % Width(size), f)
    [] op \in {"bsf", "bsr"} -> Scan(op, a, {k \in 0..Width(size) - 1 : Bit(b, k)}, f)
    [] op = "imul" -> Outcome(Mixed(a, b, a + b, size), size, Bit(a, 0), Bit(a, 0), f)
Alu(op, size, x, y, f) == AluFitted(op, size, Fit(x, size), IF op \in Shifts THEN y ELSE Fit(y, size), f)

\* mul, div, imul and idiv of edx and eax by a number of the given size.
Wide(op, size, edx, eax, x, f) ==
  LET k == IF op \in {"mul", "imul"} THEN 1 ELSE 2
      lo == Mixed(Fit(eax, size), Fit(x, size), k, size)
      hi == Mixed(Fit(x, size), Fit(eax, size), IF k = 1 THEN 0 ELSE edx, size)
  IN [edx |-> IF size = 1 THEN edx ELSE Splice(edx, 0, size, hi),
      eax |-> IF size = 1 THEN Splice(Splice(eax, 0, 1, lo), 1, 1, hi) ELSE Splice(eax, 0, size, lo),
      f   |-> Outcome(lo, size, Bit(hi, 0), Bit(hi, 0), f).f]

\* aaa, aas, aam, aad, daa, das.
Adjusts == {"aaa", "aas", "aam", "aad", "daa", "das"}
Adjust(op, eax, f) ==
  LET n == IF op \in {"daa", "das"} THEN 1 ELSE 2
      r == Mixed(Fit(eax, n), Carry(f), IF op \in {"aaa", "aam", "daa"} THEN 1 ELSE 2, n)
  IN [eax |-> Splice(eax, 0, n, r), f |-> Outcome(r, n, ~Bit(eax, 0), FALSE, f).f]

\* cpuid: a function of the leaf.
Identify(r) ==
  [reg \in DOMAIN r |-> IF reg \in {"eax", "ebx", "ecx", "edx"}
                        THEN Mixed(r["eax"], r["ecx"], IF reg = "eax" THEN 1 ELSE 2, 4) ELSE r[reg]]

----------------------------------------------------------------------------
(* Registers, memory and operands.  A context that is not ok is one the    *)
(* program does not survive.                                               *)

Readable(a, size)  == a + size <= MemSize
Touch(m, a, size)  == [m EXCEPT !.ok = @ /\ Readable(a, size)]
Load(m, a, size)   ==
  LET byte(j) == IF j < size THEN m.mem[a + j] * 2^Width(j) ELSE 0
  IN  byte(0) + byte(1) + byte(2) + byte(3)
Store(m, a, x, size) ==
  [Touch(m, a, size) EXCEPT !.mem = [j \in DOMAIN @ |-> IF j - a \in 0..size - 1 THEN Slice(x, j - a, 1) ELSE @[j]]]
Put(m, reg, x)     == [m EXCEPT !.r[reg] = Fit(x, 4)]
Stopped(m)         == [m EXCEPT !.ok = FALSE]

InMemory(o)      == o.t \in {"MREG", "MREGDIS", "MREGI", "MREGISDIS"}
Offset(o, m)     == m.r[o.def[1]] + Signed(o.k, 1)
                      + (IF o.idx = None THEN 0 ELSE m.r[o.idx[1]] * (IF o.scale = 0 THEN 1 ELSE o.scale))
Address(o, m)    == Fit(Offset(o, m) + o.seg, 4)
Value(o, m) ==
  CASE o.t = "none" -> 0
    [] o.t = "IMM"  -> Fit(Signed(o.k, o.size), 4)
    [] o.t = "REG"  -> GetPart(m.r[o.def[1]], o.def[2])
    [] OTHER        -> IF Readable(Address(o, m), o.size) THEN Load(m, Address(o, m), o.size) ELSE 0
\* The address is a parameter: an instruction computes it before it writes.
Assign(o, a, m, x) ==
  IF o.t = "REG" THEN [m EXCEPT !.r[o.def[1]] = SetPart(@, o.def[2], x)] ELSE Store(m, a, x, o.size)

Push(m, x, size) == LET t == Put(m, "esp", m.r["esp"] - size) IN Store(t, t.r["esp"], x, size)
Top(m, size)     == IF Readable(m.r["esp"], size) THEN Load(m, m.r["esp"], size) ELSE 0
Pop(m, size)     == Put(Touch(m, m.r["esp"], size), "esp", m.r["esp"] + size)

----------------------------------------------------------------------------
(* Conditions.                                                             *)

Conditions == {"e", "ne", "a", "ae", "b", "be", "g", "ge", "l", "le", "s", "ns", "o", "no", "p", "np", "c", "nc"}
Holds(cc, f) ==
  LET cf == "CF" \in f   zf == "ZF" \in f   sf == "SF" \in f   of == "OF" \in f   pf == "PF" \in f
  IN CASE cc = "e" -> zf          [] cc = "ne" -> ~zf
       [] cc \in {"b", "c"} -> cf   [] cc \in {"ae", "nc"} -> ~cf
       [] cc = "be" -> cf \/ zf   [] cc = "a" -> ~(cf \/ zf)
       [] cc = "l" -> ~(sf <=> of)  [] cc = "ge" -> (sf <=> of)
       [] cc = "le" -> zf \/ ~(sf <=> of) [] cc = "g" -> ~zf /\ (sf <=> of)
       [] cc = "s" -> sf          [] cc = "ns" -> ~sf
       [] cc = "o" -> of          [] cc = "no" -> ~of
       [] cc = "p" -> pf          [] cc = "np" -> ~pf

\* What the conditions mean after a comparison of a with b.
Relation(cc, a, b, size) ==
  LET sa == Signed(a, size)
      sb == Signed(b, size)
      d  == Fit(a - b, size)
  IN CASE cc = "e" -> a = b       [] cc = "ne" -> a # b
       [] cc \in {"b", "c"} -> a < b [] cc \in {"ae", "nc"} -> a >= b
       [] cc = "be" -> a <= b     [] cc = "a" -> a > b
       [] cc = "l" -> sa < sb     [] cc = "ge" -> sa >= sb
       [] cc = "le" -> sa <= sb   [] cc = "g" -> sa > sb
       [] cc = "s" -> Signed(d, size) < 0   [] cc = "ns" -> Signed(d, size) >= 0
       [] cc = "o" -> sa - sb # Signed(d, size) [] cc = "no" -> sa - sb = Signed(d, size)
       [] cc = "p" -> EvenParity(d) [] cc = "np" -> ~EvenParity(d)

----------------------------------------------------------------------------
(* String instructions, one element at a time.                             *)

Strings == {"lods", "movs", "stos"}
Element(op, size, m) ==
  LET d == IF "DF" \in m.f THEN -size ELSE size
      si == m.r["esi"]
      di == m.r["edi"]
      x == IF Readable(si, size) THEN Load(m, si, size) ELSE 0
      seen == IF op = "stos" THEN m ELSE Put(Touch(m, si, size), "esi", si + d)
  IN CASE op = "lods" -> [seen EXCEPT !.r["eax"] = Splice(@, 0, size, x)]
       [] op = "movs" -> Put(Store(seen, di, x, size), "edi", di + d)
       [] op = "stos" -> Put(Store(seen, di, Fit(m.r["eax"], size), size), "edi", di + d)
\* More elements than the memory has cannot be accessed.
Repeated(op, size, m) ==
  IF m.r["ecx"] > MemSize THEN Stopped(m)
  ELSE Put(FoldLeft(LAMBDA s, k : IF s.ok THEN Element(op, size, s) ELSE s, m, [k \in 1..m.r["ecx"] |-> k]), "ecx", 0)

----------------------------------------------------------------------------
(* The effect of an instruction on everything but the instruction pointer. *)

PushAll(m) ==
  LET push(t, reg) == Push(t, m.r[reg], 4)
      half         == push(push(push(push(m, "eax"), "ecx"), "edx"), "ebx")
  IN  push(push(push(push(half, "esp"), "ebp"), "esi"), "edi")
\* The fourth word is dropped.
PopAll(m) ==
  LET pop(t, reg) == Put(Pop(t, 4), reg, Top(t, 4))
      half        == Pop(pop(pop(pop(m, "edi"), "esi"), "ebp"), 4)
  IN  pop(pop(pop(pop(half, "ebx"), "edx"), "ecx"), "eax")
\* The bytes in the other order.
Swapped(x) ==
  LET byte(j) == Slice(x, 3 - j, 1) * 2^Width(j)
  IN  byte(0) + byte(1) + byte(2) + byte(3)
Results == {"add", "adc", "sub", "sbb", "and", "or", "xor", "neg", "inc", "dec", "not", "bsf", "bsr"}
             \cup Shifts \cup (BitOps \ {"bt"})
Reads   == {"cmp", "test", "bt"}

\* The destination and the flags take a result.
Take(o, a, m, x)   == [Assign(o, a, m, x.r) EXCEPT !.f = x.f]
TakeEax(m, x)      == [Put(m, "eax", x.eax) EXCEPT !.f = x.f]
TakeWide(m, x)     == TakeEax(Put(m, "edx", x.edx), x)
PopTo(o, m, t)     == Assign(o, IF InMemory(o) THEN Address(o, t) ELSE 0, t, Top(m, o.size))
PopBp(t)           == Put(Pop(t, 4), "ebp", Top(t, 4))
\* The operand of a calculation: the addressed one, or the part of a string of
\* bits in memory that the index points to.
Far(i, m, at, b) ==
  IF i.op \in BitOps /\ InMemory(i.item[1]) /\ i.item[2].t = "REG"
  THEN Fit(at + i.item[1].size * (Signed(b, i.item[2].size) \div Width(i.item[1].size)), 4) ELSE at
Old(i, m, at) ==
  IF ~InMemory(i.item[1]) THEN Value(i.item[1], m)
  ELSE IF Readable(at, i.item[1].size) THEN Load(m, at, i.item[1].size) ELSE 0
Calculated(i, m, at, b) ==
  IF i.op \in Reads
  THEN [Touch(m, at, IF InMemory(i.item[1]) THEN i.item[1].size ELSE 0) EXCEPT
          !.f = Alu(i.op, i.item[1].size, Old(i, m, at), b, m.f).f]
  ELSE Take(i.item[1], at, m, Alu(i.op, i.item[1].size, Old(i, m, at), b, m.f))

Effect(i, m) ==
  LET o1 == i.item[1]
      o2 == i.item[2]
      a  == Value(o1, m)
      b  == Value(o2, m)
      at == IF InMemory(o1) THEN Address(o1, m) ELSE 0
      eax == m.r["eax"]
      c  == Value(i.item[3], m)
  IN CASE i.op \in Results \cup Reads -> Calculated(i, m, Far(i, m, at, b), b)
       [] i.op \in {"shld", "shrd"} -> Take(o1, at, m, ShiftDouble(i.op, o1.size, a, b, c, m.f))
       [] i.op = "xadd"    -> Take(o1, at, Assign(o2, 0, m, a), Sum(o1.size, a, b, 0, m.f))
       [] i.op = "imul" /\ o2.t # "none" ->
            Take(o1, at, m, Alu("imul", o1.size, IF i.item[3].t = "none" THEN a ELSE b,
                                IF i.item[3].t = "none" THEN b ELSE c, m.f))
       [] i.op \in {"mul", "div", "idiv"} \/ (i.op = "imul" /\ o2.t = "none") ->
            TakeWide(m, Wide(i.op, o1.size, m.r["edx"], eax, a, m.f))
       [] i.op \in {"mov", "movzx"} -> Assign(o1, at, m, b)
       [] i.op = "movsx"   -> Assign(o1, at, m, Fit(Signed(b, o2.size), o1.size))
       [] i.op = "lea"     -> Assign(o1, at, m, Fit(Offset(o2, m), 4))
       [] i.op = "xchg"    -> Assign(o1, at, Assign(o2, 0, m, a), b)
       [] i.op = "bswap"   -> Assign(o1, at, m, Swapped(a))
       [] i.op = "cdq"     -> Put(m, "edx", IF Signed(eax, 4) < 0 THEN -1 ELSE 0)
       [] i.op = "cwd"     -> Put(m, "edx", Splice(m.r["edx"], 0, 2, IF Signed(Fit(eax, 2), 2) < 0 THEN -1 ELSE 0))
       [] i.op = "cwde"    -> Put(m, "eax", Signed(Fit(eax, 2), 2))
       [] i.op = "cbw"     -> Put(m, "eax", Splice(eax, 0, 2, Signed(Fit(eax, 1), 1)))
       [] i.op = "push"    -> Push(m, a, IF o1.t = "IMM" THEN 4 ELSE o1.size)
       [] i.op = "pop"     -> PopTo(o1, m, Pop(m, o1.size))
       [] i.op = "pushad"  -> PushAll(m)
       [] i.op = "popad"   -> PopAll(m)
       [] i.op = "pushfd"  -> Push(m, FlagWord(m.f), 4)
       [] i.op = "popfd"   -> [Pop(m, 4) EXCEPT !.f = FlagsIn(Top(m, 4))]
       [] i.op = "lahf"    -> Put(m, "eax", Splice(eax, 1, 1, Fit(FlagWord(m.f), 1)))
       [] i.op = "sahf"    -> [m EXCEPT !.f = (@ \cap FlagsIn(2^7 - 2^ByteBits)) \cup FlagsIn(Slice(eax, 1, 1))]
       [] i.op = "leave"   -> PopBp(Put(m, "esp", m.r["ebp"]))
       [] i.op \in Adjusts -> TakeEax(m, Adjust(i.op, eax, m.f))
       [] i.op = "cpuid"   -> [m EXCEPT !.r = Identify(@)]
       [] i.op = "clc"     -> [m EXCEPT !.f = @ \ {"CF"}]
       [] i.op = "stc"     -> [m EXCEPT !.f = @ \cup {"CF"}]
       [] i.op = "cmc"     -> [m EXCEPT !.f = IF "CF" \in @ THEN @ \ {"CF"} ELSE @ \cup {"CF"}]
       [] i.op = "cld"     -> [m EXCEPT !.f = @ \ {"DF"}]
       [] i.op = "std"     -> [m EXCEPT !.f = @ \cup {"DF"}]
       [] i.op = "set"     -> Assign(o1, at, m, IF Holds(i.cc, m.f) THEN 1 ELSE 0)
       [] i.op = "cmov"    -> IF Holds(i.cc, m.f) THEN Assign(o1, at, m, b) ELSE m
       [] i.op \in Strings -> IF i.rep THEN Repeated(i.op, o1.size, m) ELSE Element(i.op, o1.size, m)
       [] i.op = "call"    -> Push(m, m.ip + 1, 4)
       [] i.op = "ret"     -> Put(Pop(m, 4), "esp", m.r["esp"] + 4 + a)
       [] i.op \in {"loop", "loope", "loopne"} -> Put(m, "ecx", m.r["ecx"] - 1)
       [] i.op \in {"nop", "jmp", "j", "jecxz"} -> m

\* Where the program goes on.
Target(i, m) ==
  LET to == Value(i.item[1], m)
      again == Fit(m.r["ecx"] - 1, 4) # 0
      zf == "ZF" \in m.f
      goes == CASE i.op \in {"jmp", "call"} -> TRUE
                [] i.op = "j"      -> Holds(i.cc, m.f)
                [] i.op = "jecxz"  -> m.r["ecx"] = 0
                [] i.op = "loop"   -> again
                [] i.op = "loope"  -> again /\ zf
                [] i.op = "loopne" -> again /\ ~zf
                [] OTHER           -> FALSE
  IN CASE i.op = "ret" -> Top(m, 4) [] goes -> to [] OTHER -> m.ip + 1

\* Every operand in memory must be accessible.  lea reads none; the others
\* that are left out look at another address than that of the operand.
Faults(i, m) ==
  i.op \notin {"lea", "pop"} \cup BitOps \cup Strings /\ \E n \in 1..3 : InMemory(i.item[n]) /\ ~Readable(Address(i.item[n], m), i.item[n].size)

Survives(i, m, out) == IF Faults(i, m) \/ ~out.ok THEN Stopped(m) ELSE [out EXCEPT !.ip = Target(i, m)]
Run(i, m)           == Survives(i, m, Effect(i, m))
=============================================================================
