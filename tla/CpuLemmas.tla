----------------------------- MODULE CpuLemmas -----------------------------
(***************************************************************************)
(* The operators of Processor and Cpu on every operand, context and flag:  *)
(* numbers and their parts, memory, operands, and the arithmetic that both *)
(* the emulation and the processor are described with.                     *)
(***************************************************************************)
EXTENDS CpuForms, TLAPS

\* The numbers an operand of one byte, and of four, can be.
Below(n) == {x \in Nat : x < n}
Word == Below(65536)

\* The sizes of operands as powers of two, and what Fit does for each.
LEMMA Power0 == 2^Width(0) = 1      BY SMT DEF Width, ByteBits
LEMMA Power1 == 2^Width(1) = 16     BY SMT DEF Width, ByteBits
LEMMA Power2 == 2^Width(2) = 256    BY SMT DEF Width, ByteBits
LEMMA Power3 == 2^Width(3) = 4096   BY SMT DEF Width, ByteBits
LEMMA Power4 == 2^Width(4) = 65536  BY SMT DEF Width, ByteBits

LEMMA Fit1 == \A x \in Int : Fit(x, 1) = x % 16    BY Power1, SMT DEF Fit
LEMMA Fit2 == \A x \in Int : Fit(x, 2) = x % 256   BY Power2, SMT DEF Fit
LEMMA Fit4 == \A x \in Int : Fit(x, 4) = x % 65536 BY Power4, SMT DEF Fit

LEMMA FitRange ==
    \A x \in Int : Fit(x, 1) \in Below(16) /\ Fit(x, 2) \in Below(256) /\ Fit(x, 4) \in Word
  <1> TAKE x \in Int
  <1>1. Fit(x, 1) \in Below(16)
    BY Fit1, SMT DEF Word, Below
  <1>2. Fit(x, 2) \in Below(256)
    BY Fit2, SMT DEF Word, Below
  <1>3. Fit(x, 4) \in Word
    BY Fit4, SMT DEF Word, Below
  <1> QED
    BY <1>1, <1>2, <1>3

LEMMA FitSame == /\ \A x \in Below(16) : Fit(x, 1) = x
                 /\ \A x \in Below(256) : Fit(x, 2) = x
                 /\ \A x \in Word : Fit(x, 4) = x
  <1>1. \A x \in Below(16) : Fit(x, 1) = x
    BY Fit1, SMT DEF Word, Below
  <1>2. \A x \in Below(256) : Fit(x, 2) = x
    BY Fit2, SMT DEF Word, Below
  <1>3. \A x \in Word : Fit(x, 4) = x
    BY Fit4, SMT DEF Word, Below
  <1> QED
    BY <1>1, <1>2, <1>3

\* A slice of a whole operand is the operand cut to its size.
LEMMA SliceFits == ASSUME NEW x \in Int
                   PROVE  /\ \A n : Slice(x, 0, n) = Fit(x, n)
                          /\ \A n : Slice(x, 1, n) = Fit(x \div 16, n)
                          /\ \A n : Slice(x, 2, n) = Fit(x \div 256, n)
                          /\ \A n : Slice(x, 3, n) = Fit(x \div 4096, n)
                          /\ x \div 16 \in Int /\ x \div 256 \in Int /\ x \div 4096 \in Int
  <1>1. x \div 1 = x
    BY SMT
  <1>2. x \div 16 \in Int /\ x \div 256 \in Int /\ x \div 4096 \in Int
    BY SMT
  <1>3. \A n : Slice(x, 0, n) = Fit(x, n)
    BY <1>1, Power0, SMT DEF Slice
  <1>4. \A n : Slice(x, 1, n) = Fit(x \div 16, n)
    BY Power1, SMT DEF Slice
  <1>5. \A n : Slice(x, 2, n) = Fit(x \div 256, n)
    BY Power2, SMT DEF Slice
  <1>6. \A n : Slice(x, 3, n) = Fit(x \div 4096, n)
    BY Power3, SMT DEF Slice
  <1> QED
    BY <1>2, <1>3, <1>4, <1>5, <1>6

\* A part that is spliced into a word keeps the word a word, and is read back.
LEMMA Splice01 == ASSUME NEW x \in Word, NEW y \in Int
    PROVE  Splice(x, 0, 1, y) \in Word /\ Slice(Splice(x, 0, 1, y), 0, 1) = Fit(y, 1)
  <1>1. x \in Int /\ x >= 0 /\ x < 65536
    BY SMT DEF Word, Below
  <1>2. Fit(y, 1) = y % 16 /\ Slice(x, 0, 1) = x % 16
    BY <1>1, Fit1, SliceFits, SMT
  <1>3. Splice(x, 0, 1, y) = x + ((y % 16) - (x % 16))
    BY <1>1, <1>2, Power0, SMT DEF Splice
  <1>4. Splice(x, 0, 1, y) \in Word
    BY <1>1, <1>3, SMT DEF Word, Below
  <1>5. (x + ((y % 16) - (x % 16))) % 16 = y % 16
    BY <1>1, SMT
  <1>6. Splice(x, 0, 1, y) \in Int
    BY <1>1, <1>3, SMT
  <1>7. Slice(Splice(x, 0, 1, y), 0, 1) = Splice(x, 0, 1, y) % 16
    BY <1>6, Fit1, SliceFits, SMT
  <1> QED
    BY <1>2, <1>3, <1>4, <1>5, <1>7

LEMMA Splice02 == ASSUME NEW x \in Word, NEW y \in Int
    PROVE  Splice(x, 0, 2, y) \in Word /\ Slice(Splice(x, 0, 2, y), 0, 2) = Fit(y, 2)
  <1>1. x \in Int /\ x >= 0 /\ x < 65536
    BY SMT DEF Word, Below
  <1>2. Fit(y, 2) = y % 256 /\ Slice(x, 0, 2) = x % 256
    BY <1>1, Fit2, SliceFits, SMT
  <1>3. Splice(x, 0, 2, y) = x + ((y % 256) - (x % 256))
    BY <1>1, <1>2, Power0, SMT DEF Splice
  <1>4. Splice(x, 0, 2, y) \in Word
    BY <1>1, <1>3, SMT DEF Word, Below
  <1>5. (x + ((y % 256) - (x % 256))) % 256 = y % 256
    BY <1>1, SMT
  <1>6. Splice(x, 0, 2, y) \in Int
    BY <1>1, <1>3, SMT
  <1>7. Slice(Splice(x, 0, 2, y), 0, 2) = Splice(x, 0, 2, y) % 256
    BY <1>6, Fit2, SliceFits, SMT
  <1> QED
    BY <1>2, <1>3, <1>4, <1>5, <1>7

LEMMA Splice04 == ASSUME NEW x \in Word, NEW y \in Int
    PROVE  Splice(x, 0, 4, y) = Fit(y, 4) /\ Fit(y, 4) \in Word /\ Slice(Fit(y, 4), 0, 4) = Fit(y, 4)
  <1>1. x \in Int /\ x >= 0 /\ x < 65536
    BY SMT DEF Word, Below
  <1>2. Fit(y, 4) \in Word /\ Fit(y, 4) \in Int
    BY FitRange, SMT DEF Word, Below
  <1>3. Slice(x, 0, 4) = x /\ Slice(Fit(y, 4), 0, 4) = Fit(y, 4)
    BY <1>1, <1>2, FitSame, SliceFits, SMT
  <1>4. Splice(x, 0, 4, y) = Fit(y, 4)
    BY <1>1, <1>2, <1>3, Power0, SMT DEF Splice
  <1> QED
    BY <1>2, <1>3, <1>4

LEMMA Splice11 == ASSUME NEW x \in Word, NEW y \in Int
    PROVE  Splice(x, 1, 1, y) \in Word /\ Slice(Splice(x, 1, 1, y), 1, 1) = Fit(y, 1)
  <1>1. x \in Int /\ x >= 0 /\ x < 65536
    BY SMT DEF Word, Below
  <1>2. Fit(y, 1) = y % 16 /\ Slice(x, 1, 1) = (x \div 16) % 16
    BY <1>1, Fit1, SliceFits, SMT
  <1>3. Splice(x, 1, 1, y) = x + ((y % 16) - ((x \div 16) % 16)) * 16
    <2>1. Splice(x, 1, 1, y) = x + (Fit(y, 1) - Slice(x, 1, 1)) * 16
      BY Power1 DEF Splice
    <2> QED
      BY <2>1, <1>2
  <1>4. Splice(x, 1, 1, y) \in Word
    BY <1>1, <1>3, SMT DEF Word, Below
  <1>5. ((x + ((y % 16) - ((x \div 16) % 16)) * 16) \div 16) % 16 = y % 16
    BY <1>1, SMT
  <1>6. Splice(x, 1, 1, y) \in Int /\ Splice(x, 1, 1, y) \div 16 \in Int
    BY <1>1, <1>3, SMT
  <1>7. Slice(Splice(x, 1, 1, y), 1, 1) = (Splice(x, 1, 1, y) \div 16) % 16
    BY <1>6, Fit1, SliceFits, SMT
  <1> QED
    BY <1>2, <1>3, <1>4, <1>5, <1>7

LEMMA Splice22 == ASSUME NEW x \in Word, NEW y \in Int
    PROVE  Splice(x, 2, 2, y) \in Word
  <1>1. x \in Int /\ x >= 0 /\ x < 65536
    BY SMT DEF Word, Below
  <1>2. Fit(y, 2) = y % 256 /\ Slice(x, 2, 2) = (x \div 256) % 256
    BY <1>1, Fit2, SliceFits, SMT
  <1>3. Splice(x, 2, 2, y) = x + ((y % 256) - ((x \div 256) % 256)) * 256
    <2>1. Splice(x, 2, 2, y) = x + (Fit(y, 2) - Slice(x, 2, 2)) * 256
      BY Power2 DEF Splice
    <2> QED
      BY <2>1, <1>2
  <1> QED
    BY <1>1, <1>3, SMT DEF Word, Below

Parts == {"d", "w", "l", "h"}
\* The parts of a register.
LEMMA PartSizes == PartSize("d") = 4 /\ PartSize("w") = 2 /\ PartSize("l") = 1 /\ PartSize("h") = 1
  BY DEF PartSize

\* A part of a register holds what was written to it.
LEMMA SetParts == ASSUME NEW x \in Word, NEW q \in Parts, NEW y \in Int
    PROVE  SetPart(x, q, y) \in Word /\ GetPart(SetPart(x, q, y), q) = Fit(y, PartSize(q))
  <1>1. CASE q = "d"
    BY <1>1, PartSizes, Splice04 DEF SetPart, GetPart, Place
  <1>2. CASE q = "w"
    BY <1>2, PartSizes, Splice02 DEF SetPart, GetPart, Place
  <1>3. CASE q = "l"
    BY <1>3, PartSizes, Splice01 DEF SetPart, GetPart, Place
  <1>4. CASE q = "h"
    BY <1>4, PartSizes, Splice11 DEF SetPart, GetPart, Place
  <1> QED
    BY <1>1, <1>2, <1>3, <1>4 DEF Parts

LEMMA SetPartFits == ASSUME NEW x, NEW q, NEW y, NEW z, Fit(y, PartSize(q)) = Fit(z, PartSize(q))
                     PROVE  SetPart(x, q, y) = SetPart(x, q, z)
  BY DEF SetPart, Splice

LEMMA Numbered == NumbersOf(1) = Below(16) /\ NumbersOf(2) = Below(256) /\ NumbersOf(4) = Word
  BY Power1, Power2, Power4 DEF NumbersOf, Below, Word

LEMMA FitNumber == ASSUME NEW x \in Int, NEW size \in {1, 2, 4}
                   PROVE  Fit(x, size) \in NumbersOf(size)
  BY FitRange, Numbered DEF Word

LEMMA NumberFit == ASSUME NEW size \in {1, 2, 4}, NEW x \in NumbersOf(size)
                   PROVE  Fit(x, size) = x
  BY FitSame, Numbered DEF Word

LEMMA GetParts == ASSUME NEW x \in Int, NEW q \in Parts
                  PROVE  GetPart(x, q) \in NumbersOf(PartSize(q))
  <1>1. CASE q = "h"
    BY <1>1, PartSizes, SliceFits, FitNumber DEF GetPart, Place
  <1>2. CASE q # "h"
    BY <1>2, PartSizes, SliceFits, FitNumber DEF GetPart, Place, Parts
  <1> QED
    BY <1>1, <1>2

LEMMA Half1 == 2^(Width(1) - 1) = 8      BY SMT DEF Width, ByteBits
LEMMA Half2 == 2^(Width(2) - 1) = 128    BY SMT DEF Width, ByteBits
LEMMA Half4 == 2^(Width(4) - 1) = 32768  BY SMT DEF Width, ByteBits

\* The high bit of a difference tells which number was less.
LEMMA HighBit == ASSUME NEW size \in {1, 2, 4}, NEW d \in NumbersOf(size)
    PROVE  /\ Bit(d, Width(size) - 1) <=> d >= 2^(Width(size) - 1)
           /\ 2^(Width(size) - 1) \in Nat /\ 2^Width(size) = 2 * 2^(Width(size) - 1)
           /\ d \in Nat /\ d < 2^Width(size)
  <1>1. CASE size = 1
    <2>1. d \in Nat /\ d < 16
      BY <1>1, Power1 DEF NumbersOf
    <2>2. (d \div 8) % 2 = 1 <=> d >= 8
      BY <2>1, SMT
    <2> QED
      BY <1>1, <2>1, <2>2, Half1, Power1 DEF Bit
  <1>2. CASE size = 2
    <2>1. d \in Nat /\ d < 256
      BY <1>2, Power2 DEF NumbersOf
    <2>2. (d \div 128) % 2 = 1 <=> d >= 128
      BY <2>1, SMT
    <2> QED
      BY <1>2, <2>1, <2>2, Half2, Power2, SMT DEF Bit
  <1>3. CASE size = 4
    <2>1. d \in Nat /\ d < 65536
      BY <1>3, Power4, SMT DEF NumbersOf
    <2>2. (d \div 32768) % 2 = 1 <=> d >= 32768
      BY <2>1, SMT
    <2> QED
      BY <1>3, <2>1, <2>2, Half4, Power4, SMT DEF Bit
  <1> QED
    BY <1>1, <1>2, <1>3

\* A difference that does not fit is one turn away from one that does.
LEMMA Wraps == ASSUME NEW size \in {1, 2, 4}, NEW a \in NumbersOf(size), NEW b \in NumbersOf(size)
    PROVE  /\ Fit(a - b, size) = IF a >= b THEN a - b ELSE (a - b) + 2^Width(size)
           /\ Fit(a - b, size) \in NumbersOf(size)
  <1>1. CASE size = 1
    <2>1. a \in Nat /\ a < 16 /\ b \in Nat /\ b < 16 /\ a - b \in Int
      BY <1>1, Power1, SMT DEF NumbersOf
    <2>2. (a - b) % 16 = IF a >= b THEN a - b ELSE (a - b) + 16
      BY <2>1, SMT
    <2> QED
      BY <1>1, <2>1, <2>2, Fit1, Power1, FitNumber
  <1>2. CASE size = 2
    <2>1. a \in Nat /\ a < 256 /\ b \in Nat /\ b < 256 /\ a - b \in Int
      BY <1>2, Power2, SMT DEF NumbersOf
    <2>2. (a - b) % 256 = IF a >= b THEN a - b ELSE (a - b) + 256
      BY <2>1, SMT
    <2> QED
      BY <1>2, <2>1, <2>2, Fit2, Power2, FitNumber, SMT
  <1>3. CASE size = 4
    <2>1. a \in Nat /\ a < 65536 /\ b \in Nat /\ b < 65536 /\ a - b \in Int
      BY <1>3, Power4, SMT DEF NumbersOf
    <2>2. (a - b) % 65536 = IF a >= b THEN a - b ELSE (a - b) + 65536
      BY <2>1, SMT
    <2> QED
      BY <1>3, <2>1, <2>2, Fit4, Power4, FitNumber, SMT
  <1> QED
    BY <1>1, <1>2, <1>3

LEMMA FlagNames == {"CF", "PF", "ZF", "SF", "DF", "OF"} \subseteq Flags
  <1>1. DOMAIN FlagOrder = 1..6
    BY DEF FlagOrder
  <1>2. FlagOrder[1] = "CF" /\ FlagOrder[2] = "PF" /\ FlagOrder[3] = "ZF" /\ FlagOrder[4] = "SF" /\ FlagOrder[5] = "DF" /\ FlagOrder[6] = "OF"
    BY DEF FlagOrder
  <1> QED
    BY <1>1, <1>2 DEF Flags, Range

\* The flags after a comparison, and the numbers.
LEMMA ComparisonFlags ==
  ASSUME NEW size \in {1, 2, 4}, NEW a \in NumbersOf(size), NEW b \in NumbersOf(size), NEW f
  PROVE  LET fl == Difference(size, a, b, 0, f).f
             d  == Fit(a - b, size)
         IN  /\ "ZF" \in fl <=> a = b
             /\ "CF" \in fl <=> a < b
             /\ "SF" \in fl <=> Signed(d, size) < 0
             /\ "OF" \in fl <=> Signed(a, size) - Signed(b, size) # Signed(d, size)
             /\ "PF" \in fl <=> EvenParity(d)
  <1> DEFINE fl == Difference(size, a, b, 0, f).f
             d  == Fit(a - b, size)
             H  == 2^(Width(size) - 1)
             M  == 2^Width(size)
             minus == Bit(d, Width(size) - 1)
             over == Signed(a, size) - Signed(b, size) # Signed(d, size)
  <1>1. /\ a \in Nat /\ b \in Nat /\ a < M /\ b < M /\ H \in Nat /\ M = 2 * H
        /\ d \in Nat /\ d < M /\ d = (IF a >= b THEN a - b ELSE (a - b) + M)
        /\ minus <=> d >= H
    BY HighBit, Wraps
  <1> HIDE DEF d, H, M, minus
  <1>2. a - b - 0 = a - b /\ Signed(a, size) - Signed(b, size) - 0 = Signed(a, size) - Signed(b, size)
    <2>1. Signed(a, size) \in Int /\ Signed(b, size) \in Int
      BY <1>1, SMT DEF Signed, H, M
    <2> QED
      BY <1>1, <2>1, SMT
  <1>3. fl = (f \cap {"DF"}) \cup (If(d = 0, "ZF") \cup If(minus, "SF") \cup If(EvenParity(d), "PF"))
               \cup If(a - b # d, "CF") \cup If(over, "OF")
    BY <1>2 DEF Difference, Exact, Outcome, Shown, d, minus
  <1>4. /\ "ZF" \in fl <=> d = 0
        /\ "CF" \in fl <=> a - b # d
        /\ "SF" \in fl <=> minus
        /\ "OF" \in fl <=> over
        /\ "PF" \in fl <=> EvenParity(d)
    BY <1>3, Zenon DEF If
  <1>5. (d = 0 <=> a = b) /\ (a - b # d <=> a < b)
    BY <1>1, SMT
  <1>6. Signed(d, size) < 0 <=> minus
    BY <1>1, SMT DEF Signed, H, M
  <1> QED
    BY <1>4, <1>5, <1>6 DEF d

\* Every condition after a comparison says how the two numbers stand,
\* without sign or with it, for every pair of operands of a size.
LEMMA Compared ==
  ASSUME NEW size \in {1, 2, 4}, NEW a \in NumbersOf(size), NEW b \in NumbersOf(size), NEW f, NEW cc \in Conditions
  PROVE  Holds(cc, Difference(size, a, b, 0, f).f) <=> Relation(cc, a, b, size)
  <1> DEFINE fl == Difference(size, a, b, 0, f).f
             d  == Fit(a - b, size)
             H  == 2^(Width(size) - 1)
             M  == 2^Width(size)
             sa == Signed(a, size)
             sb == Signed(b, size)
             sd == Signed(d, size)
  <1>1. /\ a \in Nat /\ b \in Nat /\ a < M /\ b < M /\ H \in Nat /\ M = 2 * H
        /\ d \in Nat /\ d < M /\ d = (IF a >= b THEN a - b ELSE (a - b) + M)
    BY HighBit, Wraps
  <1> HIDE DEF d, H, M
  <1>2. /\ sa = (IF a >= H THEN a - M ELSE a)
        /\ sb = (IF b >= H THEN b - M ELSE b)
        /\ sd = (IF d >= H THEN d - M ELSE d)
    BY DEF Signed, H, M
  <1> HIDE DEF sa, sb, sd
  <1>3. /\ "ZF" \in fl <=> a = b
        /\ "CF" \in fl <=> a < b
        /\ "SF" \in fl <=> sd < 0
        /\ "OF" \in fl <=> sa - sb # sd
        /\ "PF" \in fl <=> EvenParity(d)
    BY ComparisonFlags DEF sa, sb, sd, d
  <1> HIDE DEF fl
  <1>4. /\ (a # b <=> ~(a = b)) /\ (a >= b <=> ~(a < b)) /\ (a <= b <=> (a < b \/ a = b)) /\ (a > b <=> ~(a < b \/ a = b))
        /\ sd >= 0 <=> ~(sd < 0)
    BY <1>1, <1>2, SMT
  <1>5. /\ sa < sb <=> ~(sd < 0 <=> sa - sb # sd)
        /\ sa >= sb <=> (sd < 0 <=> sa - sb # sd)
        /\ sa <= sb <=> (a = b \/ ~(sd < 0 <=> sa - sb # sd))
        /\ sa > sb <=> (~(a = b) /\ (sd < 0 <=> sa - sb # sd))
    BY <1>1, <1>2, SMT
  <1>c1. ASSUME cc = "e" PROVE Holds(cc, fl) <=> Relation(cc, a, b, size)
    BY <1>c1, <1>3, <1>4, <1>5, Zenon DEF Holds, Relation, sa, sb, sd, d
  <1>c2. ASSUME cc = "ne" PROVE Holds(cc, fl) <=> Relation(cc, a, b, size)
    BY <1>c2, <1>3, <1>4, <1>5, Zenon DEF Holds, Relation, sa, sb, sd, d
  <1>c3. ASSUME cc = "a" PROVE Holds(cc, fl) <=> Relation(cc, a, b, size)
    BY <1>c3, <1>3, <1>4, <1>5, Zenon DEF Holds, Relation, sa, sb, sd, d
  <1>c4. ASSUME cc = "ae" PROVE Holds(cc, fl) <=> Relation(cc, a, b, size)
    BY <1>c4, <1>3, <1>4, <1>5, Zenon DEF Holds, Relation, sa, sb, sd, d
  <1>c5. ASSUME cc = "b" PROVE Holds(cc, fl) <=> Relation(cc, a, b, size)
    BY <1>c5, <1>3, <1>4, <1>5, Zenon DEF Holds, Relation, sa, sb, sd, d
  <1>c6. ASSUME cc = "be" PROVE Holds(cc, fl) <=> Relation(cc, a, b, size)
    BY <1>c6, <1>3, <1>4, <1>5, Zenon DEF Holds, Relation, sa, sb, sd, d
  <1>c7. ASSUME cc = "g" PROVE Holds(cc, fl) <=> Relation(cc, a, b, size)
    BY <1>c7, <1>3, <1>4, <1>5, Zenon DEF Holds, Relation, sa, sb, sd, d
  <1>c8. ASSUME cc = "ge" PROVE Holds(cc, fl) <=> Relation(cc, a, b, size)
    BY <1>c8, <1>3, <1>4, <1>5, Zenon DEF Holds, Relation, sa, sb, sd, d
  <1>c9. ASSUME cc = "l" PROVE Holds(cc, fl) <=> Relation(cc, a, b, size)
    BY <1>c9, <1>3, <1>4, <1>5, Zenon DEF Holds, Relation, sa, sb, sd, d
  <1>c10. ASSUME cc = "le" PROVE Holds(cc, fl) <=> Relation(cc, a, b, size)
    BY <1>c10, <1>3, <1>4, <1>5, Zenon DEF Holds, Relation, sa, sb, sd, d
  <1>c11. ASSUME cc = "s" PROVE Holds(cc, fl) <=> Relation(cc, a, b, size)
    BY <1>c11, <1>3, <1>4, <1>5, Zenon DEF Holds, Relation, sa, sb, sd, d
  <1>c12. ASSUME cc = "ns" PROVE Holds(cc, fl) <=> Relation(cc, a, b, size)
    BY <1>c12, <1>3, <1>4, <1>5, Zenon DEF Holds, Relation, sa, sb, sd, d
  <1>c13. ASSUME cc = "o" PROVE Holds(cc, fl) <=> Relation(cc, a, b, size)
    BY <1>c13, <1>3, <1>4, <1>5, Zenon DEF Holds, Relation, sa, sb, sd, d
  <1>c14. ASSUME cc = "no" PROVE Holds(cc, fl) <=> Relation(cc, a, b, size)
    BY <1>c14, <1>3, <1>4, <1>5, Zenon DEF Holds, Relation, sa, sb, sd, d
  <1>c15. ASSUME cc = "p" PROVE Holds(cc, fl) <=> Relation(cc, a, b, size)
    BY <1>c15, <1>3, <1>4, <1>5, Zenon DEF Holds, Relation, sa, sb, sd, d
  <1>c16. ASSUME cc = "np" PROVE Holds(cc, fl) <=> Relation(cc, a, b, size)
    BY <1>c16, <1>3, <1>4, <1>5, Zenon DEF Holds, Relation, sa, sb, sd, d
  <1>c17. ASSUME cc = "c" PROVE Holds(cc, fl) <=> Relation(cc, a, b, size)
    BY <1>c17, <1>3, <1>4, <1>5, Zenon DEF Holds, Relation, sa, sb, sd, d
  <1>c18. ASSUME cc = "nc" PROVE Holds(cc, fl) <=> Relation(cc, a, b, size)
    BY <1>c18, <1>3, <1>4, <1>5, Zenon DEF Holds, Relation, sa, sb, sd, d
  <1> QED
    BY <1>c1, <1>c2, <1>c3, <1>c4, <1>c5, <1>c6, <1>c7, <1>c8, <1>c9, <1>c10, <1>c11, <1>c12, <1>c13, <1>c14, <1>c15, <1>c16, <1>c17, <1>c18 DEF Conditions, fl

----------------------------------------------------------------------------
(* Contexts.                                                               *)

LEMMA MemSizeNat == MemSize \in Nat
  <1>1. 2^(4 * ByteBits) - 1 \in Int
    BY SMT DEF ByteBits
  <1> QED
    BY <1>1, MemSizeAssumption, SMT

\* Contexts: their fields, and what changing one of them leaves.
LEMMA ContextFields == ASSUME NEW s \in AllContexts
    PROVE  /\ s.ok \in BOOLEAN /\ s.ip \in Nat /\ s.f \in SUBSET Flags
           /\ s.r \in [Registers -> Word] /\ s.mem \in [0..MemSize - 1 -> NumbersOf(1)]
           /\ s = [ok |-> s.ok, ip |-> s.ip, f |-> s.f, r |-> s.r, mem |-> s.mem]
  BY Numbered DEF AllContexts

LEMMA ContextIs ==
  ASSUME NEW ok \in BOOLEAN, NEW ip \in Nat, NEW f \in SUBSET Flags, NEW r \in [Registers -> Word],
         NEW mem \in [0..MemSize - 1 -> NumbersOf(1)]
  PROVE  [ok |-> ok, ip |-> ip, f |-> f, r |-> r, mem |-> mem] \in AllContexts
  BY Numbered DEF AllContexts

LEMMA WithFlags == ASSUME NEW s \in AllContexts, NEW f \in SUBSET Flags
    PROVE  [s EXCEPT !.f = f] \in AllContexts /\ [s EXCEPT !.f = f].ip = s.ip /\ [s EXCEPT !.f = f].f = f
  BY DEF AllContexts

LEMMA WithIp == ASSUME NEW s \in AllContexts, NEW ip \in Nat
    PROVE  [s EXCEPT !.ip = ip] \in AllContexts /\ [s EXCEPT !.ip = ip].ok = s.ok /\ [s EXCEPT !.ip = ip].ip = ip
  BY DEF AllContexts

LEMMA StoppedIs == ASSUME NEW s \in AllContexts
    PROVE  Stopped(s) \in AllContexts /\ ~Stopped(s).ok
  BY DEF AllContexts, Stopped

LEMMA RegIs == ASSUME NEW s \in AllContexts, NEW reg \in Registers, NEW x \in Word
    PROVE  /\ [s EXCEPT !.r[reg] = x] \in AllContexts
           /\ [s EXCEPT !.r[reg] = x].ip = s.ip /\ [s EXCEPT !.r[reg] = x].f = s.f
           /\ [s EXCEPT !.r[reg] = x].ok = s.ok /\ [s EXCEPT !.r[reg] = x].mem = s.mem
           /\ [s EXCEPT !.r[reg] = x].r = [s.r EXCEPT ![reg] = x]
  BY Numbered DEF AllContexts

LEMMA PutIs == ASSUME NEW s \in AllContexts, NEW reg \in Registers, NEW x \in Int
    PROVE  /\ Put(s, reg, x) \in AllContexts /\ Put(s, reg, x).ip = s.ip /\ Put(s, reg, x).f = s.f
           /\ Put(s, reg, x).ok = s.ok /\ Put(s, reg, x).mem = s.mem
           /\ Put(s, reg, x).r = [s.r EXCEPT ![reg] = Fit(x, 4)]
  <1>1. Fit(x, 4) \in Word
    BY FitRange
  <1> QED
    BY <1>1, RegIs DEF Put

LEMMA SliceByte == ASSUME NEW x \in Int, NEW d \in {0, 1, 2, 3}
                   PROVE  Slice(x, d, 1) \in NumbersOf(1)
  BY SliceFits, FitNumber

\* The memory after a store.
Stored(s, a, x, size) ==
  [j \in 0..MemSize - 1 |-> IF j - a \in 0..size - 1 THEN Slice(x, j - a, 1) ELSE s.mem[j]]

\* Writing to memory: the result is a context that differs in memory only.
LEMMA StoreIs ==
  ASSUME NEW s \in AllContexts, NEW a \in Int, NEW x \in Int, NEW size \in {1, 2, 4}
  PROVE  /\ Store(s, a, x, size) \in AllContexts /\ Store(s, a, x, size).ip = s.ip
         /\ Store(s, a, x, size).f = s.f /\ Store(s, a, x, size).r = s.r
         /\ Store(s, a, x, size).ok = (s.ok /\ Readable(a, size))
         /\ Store(s, a, x, size).mem = Stored(s, a, x, size)
  <1> DEFINE mem == [j \in 0..MemSize - 1 |-> IF j - a \in 0..size - 1 THEN Slice(x, j - a, 1) ELSE s.mem[j]]
  <1>1. mem \in [0..MemSize - 1 -> NumbersOf(1)]
    <2> SUFFICES ASSUME NEW j \in 0..MemSize - 1, j - a \in 0..size - 1
                 PROVE  Slice(x, j - a, 1) \in NumbersOf(1)
      BY ContextFields
    <2>1. j - a \in {0, 1, 2, 3}
      BY MemSizeNat
    <2> QED
      BY <2>1, SliceByte
  <1>2. DOMAIN s.mem = 0..MemSize - 1
    BY ContextFields
  <1>3. Readable(a, size) \in BOOLEAN
    BY DEF Readable
  <1>4. Store(s, a, x, size) = [ok |-> s.ok /\ Readable(a, size), ip |-> s.ip, f |-> s.f, r |-> s.r, mem |-> mem]
    <2> DEFINE t == Touch(s, a, size)
               ok == s.ok /\ Readable(a, size)
    <2>1. ok \in BOOLEAN
      BY <1>3, ContextFields
    <2>2. t \in AllContexts /\ t.ok = ok /\ t.mem = s.mem /\ t.ip = s.ip /\ t.f = s.f /\ t.r = s.r
      <3>1. t = [s EXCEPT !.ok = ok]
        BY DEF Touch
      <3> HIDE DEF t, ok
      <3> QED
        BY <2>1, <3>1 DEF AllContexts
    <2> HIDE DEF t, ok
    <2>3. DOMAIN t.mem = 0..MemSize - 1
      BY <2>2, <1>2
    <2>4. Store(s, a, x, size) = [t EXCEPT !.mem = mem]
      BY <2>2, <2>3 DEF Store, t
    <2> HIDE DEF mem
    <2>5. [t EXCEPT !.mem = mem] = [ok |-> t.ok, ip |-> t.ip, f |-> t.f, r |-> t.r, mem |-> mem]
      BY <2>2 DEF AllContexts
    <2> QED
      BY <2>2, <2>4, <2>5 DEF ok
  <1> HIDE DEF mem
  <1> QED
    BY <1>1, <1>3, <1>4, ContextFields, ContextIs DEF mem, Stored

----------------------------------------------------------------------------
(* Operands.                                                               *)

LEMMA SizesOf == ASSUME NEW o, IsPlace(o) \/ IsImm(o) PROVE o.size \in {1, 2, 4}
  <1>1. ASSUME IsReg(o) PROVE o.size \in {1, 2, 4}
    <2>1. o.def[2] \in Parts
      BY <1>1 DEF IsReg, Parts
    <2> QED
      BY <1>1, <2>1, PartSizes DEF IsReg, Parts
  <1> QED
    BY <1>1 DEF IsPlace, IsMem, IsImm

LEMMA MemoryBytes == ASSUME NEW s \in AllContexts, NEW a \in Nat, NEW size \in {1, 2, 4}, Readable(a, size),
                            NEW d \in Nat, d < size
                     PROVE  s.mem[a + d] \in Nat /\ s.mem[a + d] < 16
  <1>1. a + d \in 0..MemSize - 1
    BY MemSizeNat DEF Readable
  <1>2. s.mem[a + d] \in NumbersOf(1)
    BY <1>1, ContextFields
  <1> QED
    BY <1>2, Numbered DEF Below

\* Reading from memory yields a number of the size read.
LEMMA LoadIs == ASSUME NEW s \in AllContexts, NEW a \in Nat, NEW size \in {1, 2, 4}, Readable(a, size)
                PROVE  Load(s, a, size) \in NumbersOf(size)
  <1> DEFINE b(d) == s.mem[a + d]
  <1>1. ASSUME NEW d \in Nat, d < size PROVE b(d) \in Nat /\ b(d) < 16
    BY <1>1, MemoryBytes
  <1> HIDE DEF b
  <1>2. CASE size = 1
    <2>1. Load(s, a, size) = b(0) * 1 + 0 + 0 + 0
      BY <1>2, Power0 DEF Load, b
    <2>2. b(0) \in Nat /\ b(0) < 16
      BY <1>1, <1>2
    <2> QED
      BY <1>2, <2>1, <2>2, Numbered DEF Below
  <1>3. CASE size = 2
    <2>1. Load(s, a, size) = b(0) * 1 + b(1) * 16 + 0 + 0
      BY <1>3, Power0, Power1 DEF Load, b
    <2>2. b(0) \in Nat /\ b(0) < 16 /\ b(1) \in Nat /\ b(1) < 16
      BY <1>1, <1>3
    <2> QED
      BY <1>3, <2>1, <2>2, Numbered DEF Below
  <1>4. CASE size = 4
    <2>1. Load(s, a, size) = b(0) * 1 + b(1) * 16 + b(2) * 256 + b(3) * 4096
      BY <1>4, Power0, Power1, Power2, Power3 DEF Load, b
    <2>2. b(0) \in Nat /\ b(0) < 16 /\ b(1) \in Nat /\ b(1) < 16 /\ b(2) \in Nat /\ b(2) < 16 /\ b(3) \in Nat /\ b(3) < 16
      BY <1>1, <1>4
    <2>3. Load(s, a, size) \in Nat /\ Load(s, a, size) < 65536
      BY <2>1, <2>2, SMT
    <2> QED
      BY <1>4, <2>3, Numbered, SMT DEF Word, Below
  <1> QED
    BY <1>2, <1>3, <1>4

\* A displacement of one byte with its sign is the same number on both sides.
LEMMA DisplacedIs == ASSUME NEW x \in Int, NEW k \in NumbersOf(1)
                     PROVE  Displaced(x, k) = x + Signed(k, 1) /\ Signed(k, 1) \in Int
  <1>1. k \in Nat
    BY DEF NumbersOf
  <1>2. 2^(ByteBits - 1) = 8 /\ 2^ByteBits = 16
    BY SMT DEF ByteBits
  <1>3. Displaced(x, k) = IF k >= 8 THEN x - (16 - 1 - k) - 1 ELSE x + k
    BY <1>2 DEF Displaced
  <1>4. Signed(k, 1) = IF k >= 8 THEN k - 16 ELSE k
    BY Half1, Power1 DEF Signed
  <1> QED
    BY <1>1, <1>3, <1>4

\* The address of an operand is the one conv_item computes.
LEMMA AddressIs == ASSUME NEW s \in AllContexts, NEW o, IsMem(o)
    PROVE  /\ Address(o, s) = Fit(Displaced(s.r[o.def[1]], o.k) + 0 + Index(o, s), 4)
           /\ Address(o, s) \in Word /\ Index(o, s) \in Int /\ s.r[o.def[1]] \in Int
           /\ Offset(o, s) \in Int
  <1>1. s.r[o.def[1]] \in Int
    BY ContextFields DEF IsMem, Word, Below
  <1>2. Index(o, s) \in Int
    <2>1. CASE o.idx = None
      BY <2>1 DEF Index, IsMem
    <2>2. CASE o.idx # None
      <3>1. s.r[o.idx[1]] \in Int
        BY <2>2, ContextFields DEF IsMem, Word, Below
      <3>2. o.scale \in Int /\ o.seg \in Int
        BY DEF IsMem
      <3> QED
        BY <2>2, <3>1, <3>2 DEF Index
    <2> QED
      BY <2>1, <2>2
  <1>3. Displaced(s.r[o.def[1]], o.k) = s.r[o.def[1]] + Signed(o.k, 1) /\ Signed(o.k, 1) \in Int
    BY <1>1, DisplacedIs DEF IsMem
  <1>4. Offset(o, s) \in Int /\ Offset(o, s) + o.seg = s.r[o.def[1]] + Signed(o.k, 1) + Index(o, s)
    <2> DEFINE b == s.r[o.def[1]]
               k == Signed(o.k, 1)
               x == IF o.idx = None THEN 0 ELSE s.r[o.idx[1]] * (IF o.scale = 0 THEN 1 ELSE o.scale)
    <2>1. o.seg \in Int
      BY DEF IsMem
    <2>2. x \in Int
      <3>1. CASE o.idx = None
        BY <3>1
      <3>2. CASE o.idx # None
        <4>1. s.r[o.idx[1]] \in Int
          BY <3>2, ContextFields DEF IsMem, Word, Below
        <4> QED
          BY <3>2, <4>1 DEF IsMem
      <3> QED
        BY <3>1, <3>2
    <2>3. b \in Int /\ k \in Int /\ Offset(o, s) = b + k + x /\ Index(o, s) = x + o.seg
      BY <1>1, <1>3 DEF Offset, Index
    <2> HIDE DEF b, k, x
    <2>4. b + k + x + o.seg = b + k + (x + o.seg)
      BY <2>1, <2>2, <2>3
    <2> QED
      BY <2>2, <2>3, <2>4 DEF b, k
  <1>5. Offset(o, s) + o.seg = Displaced(s.r[o.def[1]], o.k) + 0 + Index(o, s)
    BY <1>1, <1>2, <1>3, <1>4
  <1>6. s.r[o.def[1]] + Signed(o.k, 1) + Index(o, s) \in Int
    BY <1>1, <1>2, <1>3
  <1> QED
    BY <1>1, <1>2, <1>4, <1>5, <1>6, FitRange DEF Address

Operand1(o) == o = NoItem \/ IsPlace(o) \/ IsImm(o)

LEMMA Kinds ==
    /\ NoItem.t = "none" /\ NoItem.size = 0 /\ ~InMemory(NoItem)
    /\ \A o : IsReg(o) => o.t = "REG" /\ ~InMemory(o)
    /\ \A o : IsImm(o) => o.t = "IMM" /\ ~InMemory(o)
    /\ \A o : IsMem(o) => InMemory(o) /\ o.t \notin {"none", "IMM", "REG"}
  BY DEF NoItem, Operand, IsReg, IsImm, IsMem, InMemory

\* What an operand is to an operation: its value, where it is, and whether it
\* is there.
Var(o, s)  == IF o.t = "IMM" THEN o.k ELSE Value(o, s)
At(o, s)   == IF InMemory(o) THEN Address(o, s) ELSE 0
Here(o, s) == InMemory(o) => Readable(Address(o, s), o.size)

\* The value of an operand is the one conv_item reads.
LEMMA ValueIs == ASSUME NEW s \in AllContexts, NEW o, Operand1(o)
    PROVE  /\ IsPlace(o) => Value(o, s) \in NumbersOf(o.size)
           /\ o = NoItem => Value(o, s) = 0
           /\ IsImm(o) => Value(o, s) = Fit(Signed(o.k, o.size), 4) /\ Signed(o.k, o.size) \in Int
           /\ Value(o, s) \in Nat /\ Var(o, s) \in Nat
  <1>1. ASSUME IsReg(o) PROVE Value(o, s) \in NumbersOf(o.size)
    <2>1. Value(o, s) = GetPart(s.r[o.def[1]], o.def[2])
      BY <1>1, Kinds DEF Value
    <2>2. s.r[o.def[1]] \in Int /\ o.def[2] \in Parts
      BY <1>1, ContextFields DEF IsReg, Word, Below, Parts
    <2> QED
      BY <1>1, <2>1, <2>2, GetParts DEF IsReg
  <1>2. ASSUME IsMem(o) PROVE Value(o, s) \in NumbersOf(o.size)
    <2>1. Value(o, s) = IF Readable(Address(o, s), o.size) THEN Load(s, Address(o, s), o.size) ELSE 0
      BY <1>2, Kinds, Zenon DEF Value
    <2>2. Address(o, s) \in Nat
      BY <1>2, AddressIs DEF Word, Below
    <2>3. o.size \in {1, 2, 4}
      BY <1>2 DEF IsMem
    <2>4. 0 \in NumbersOf(o.size)
      BY <2>3, Numbered, SMT DEF Word, Below
    <2> QED
      BY <2>1, <2>2, <2>3, <2>4, LoadIs
  <1>3. o = NoItem => Value(o, s) = 0 /\ Var(o, s) = 0
    BY Kinds, Zenon DEF Value, Var
  <1>4. ASSUME IsImm(o) PROVE Value(o, s) = Fit(Signed(o.k, o.size), 4) /\ Signed(o.k, o.size) \in Int /\ Value(o, s) \in Nat /\ Var(o, s) \in Nat
    <2>1. Value(o, s) = Fit(Signed(o.k, o.size), 4)
      BY <1>4, Kinds, Zenon DEF Value
    <2>2. o.size \in {1, 2, 4} /\ o.k \in NumbersOf(o.size)
      BY <1>4 DEF IsImm
    <2>3. Signed(o.k, o.size) \in Int
      <3>1. 2^Width(o.size) \in Int /\ o.k \in Int
        BY <2>2, HighBit
      <3> QED
        BY <3>1 DEF Signed
    <2>4. Fit(Signed(o.k, o.size), 4) \in Nat
      BY <2>3, FitRange DEF Word, Below
    <2>5. Var(o, s) = o.k
      BY <1>4, Kinds DEF Var
    <2> QED
      BY <2>1, <2>2, <2>3, <2>4, <2>5 DEF NumbersOf
  <1>5. IsPlace(o) => Value(o, s) \in NumbersOf(o.size) /\ Var(o, s) = Value(o, s)
    BY <1>1, <1>2, Kinds DEF IsPlace, Var
  <1>6. \A x, size : x \in NumbersOf(size) => x \in Nat
    BY DEF NumbersOf
  <1> QED
    BY <1>3, <1>4, <1>5, <1>6 DEF Operand1

\* conv_item fetches an operand as the processor does.
LEMMA ConvIs ==
  ASSUME NEW s \in AllContexts, NEW i, NEW n \in 1..3, Operand1(i.item[n]), i.op \notin {"lea", "pop", "push"}
  PROVE  LET o == i.item[n]
         IN  conv_item(i, n, s) = [ok |-> Here(o, s), var |-> Var(o, s), addr |-> At(o, s), size |-> o.size]
  <1> DEFINE o == i.item[n]
  <1>1. CASE o = NoItem
    <2>1. conv_item(i, n, s) = [ok |-> TRUE, var |-> 0, addr |-> 0, size |-> 0]
      BY <1>1, Kinds, Zenon DEF conv_item
    <2> QED
      BY <1>1, <2>1, Kinds, ValueIs DEF Here, Var, At, Operand1
  <1>2. CASE IsImm(o)
    <2>1. conv_item(i, n, s) = [ok |-> TRUE, var |-> o.k, addr |-> 0, size |-> o.size]
      BY <1>2, Kinds, Zenon DEF conv_item
    <2> QED
      BY <1>2, <2>1, Kinds DEF Here, Var, At
  <1>3. CASE IsReg(o)
    <2>1. conv_item(i, n, s) = [ok |-> TRUE, var |-> GetPart(s.r[o.def[1]], o.def[2]), addr |-> 0, size |-> o.size]
      BY <1>3, Kinds, Zenon DEF conv_item
    <2>2. Value(o, s) = GetPart(s.r[o.def[1]], o.def[2])
      BY <1>3, Kinds DEF Value
    <2> QED
      BY <1>3, <2>1, <2>2, Kinds DEF Here, Var, At
  <1>4. CASE IsMem(o)
    <2> DEFINE at == Fit(Displaced(s.r[o.def[1]], o.k) + 0 + Index(o, s), 4)
    <2>1. conv_item(i, n, s) = [ok |-> xx_read_fmem(s, at, o.size).ok, var |-> xx_read_fmem(s, at, o.size).var,
                                addr |-> at, size |-> o.size]
      BY <1>4, Kinds, Zenon DEF conv_item, Index
    <2>2. at = Address(o, s)
      BY <1>4, AddressIs
    <2> HIDE DEF at
    <2>3. Value(o, s) = IF Readable(Address(o, s), o.size) THEN Load(s, Address(o, s), o.size) ELSE 0
      BY <1>4, Kinds, Zenon DEF Value
    <2>4. /\ xx_read_fmem(s, at, o.size).ok = Readable(Address(o, s), o.size)
          /\ xx_read_fmem(s, at, o.size).var = Value(o, s)
      BY <2>2, <2>3 DEF xx_read_fmem
    <2>5. Here(o, s) = Readable(Address(o, s), o.size)
      BY <1>4, Kinds DEF Here, Readable
    <2> QED
      BY <1>4, <2>1, <2>2, <2>4, <2>5, Kinds DEF Var, At
  <1> QED
    BY <1>1, <1>2, <1>3, <1>4 DEF Operand1, IsPlace

LEMMA Slice01 == \A x \in Int : Slice(x, 0, 1) = x % 16
  BY SliceFits, Fit1
LEMMA Slice11 == \A x \in Int : Slice(x, 1, 1) = (x \div 16) % 16
  BY SliceFits, Fit1
LEMMA Slice21 == \A x \in Int : Slice(x, 2, 1) = (x \div 256) % 16
  BY SliceFits, Fit1
LEMMA Slice31 == \A x \in Int : Slice(x, 3, 1) = (x \div 4096) % 16
  BY SliceFits, Fit1

\* The bytes of a number are those of the number cut to as many bytes.
LEMMA SameByte0of16 == ASSUME NEW x \in Int, NEW z \in Int, z = x % 16 PROVE Slice(z, 0, 1) = Slice(x, 0, 1)
  <1>1. Slice(z, 0, 1) = z % 16
    BY Slice01
  <1>2. Slice(x, 0, 1) = x % 16
    BY Slice01
  <1>3. z % 16 = x % 16
    BY SMT
  <1> QED
    BY <1>1, <1>2, <1>3
LEMMA SameByte0of256 == ASSUME NEW x \in Int, NEW z \in Int, z = x % 256 PROVE Slice(z, 0, 1) = Slice(x, 0, 1)
  <1>1. Slice(z, 0, 1) = z % 16
    BY Slice01
  <1>2. Slice(x, 0, 1) = x % 16
    BY Slice01
  <1>3. z % 16 = x % 16
    BY SMT
  <1> QED
    BY <1>1, <1>2, <1>3
LEMMA SameByte0of65536 == ASSUME NEW x \in Int, NEW z \in Int, z = x % 65536 PROVE Slice(z, 0, 1) = Slice(x, 0, 1)
  <1>1. Slice(z, 0, 1) = z % 16
    BY Slice01
  <1>2. Slice(x, 0, 1) = x % 16
    BY Slice01
  <1>3. z % 16 = x % 16
    BY SMT
  <1> QED
    BY <1>1, <1>2, <1>3
LEMMA SameByte1of256 == ASSUME NEW x \in Int, NEW z \in Int, z = x % 256 PROVE Slice(z, 1, 1) = Slice(x, 1, 1)
  <1>1. Slice(z, 1, 1) = (z \div 16) % 16
    BY Slice11
  <1>2. Slice(x, 1, 1) = (x \div 16) % 16
    BY Slice11
  <1>3. (z \div 16) % 16 = (x \div 16) % 16
    BY SMT
  <1> QED
    BY <1>1, <1>2, <1>3
LEMMA SameByte1of65536 == ASSUME NEW x \in Int, NEW z \in Int, z = x % 65536 PROVE Slice(z, 1, 1) = Slice(x, 1, 1)
  <1>1. Slice(z, 1, 1) = (z \div 16) % 16
    BY Slice11
  <1>2. Slice(x, 1, 1) = (x \div 16) % 16
    BY Slice11
  <1>3. (z \div 16) % 16 = (x \div 16) % 16
    BY SMT
  <1> QED
    BY <1>1, <1>2, <1>3
LEMMA SameByte2of65536 == ASSUME NEW x \in Int, NEW z \in Int, z = x % 65536 PROVE Slice(z, 2, 1) = Slice(x, 2, 1)
  <1>1. Slice(z, 2, 1) = (z \div 256) % 16
    BY Slice21
  <1>2. Slice(x, 2, 1) = (x \div 256) % 16
    BY Slice21
  <1>3. (z \div 256) % 16 = (x \div 256) % 16
    BY SMT
  <1> QED
    BY <1>1, <1>2, <1>3
LEMMA SameByte3of65536 == ASSUME NEW x \in Int, NEW z \in Int, z = x % 65536 PROVE Slice(z, 3, 1) = Slice(x, 3, 1)
  <1>1. Slice(z, 3, 1) = (z \div 4096) % 16
    BY Slice31
  <1>2. Slice(x, 3, 1) = (x \div 4096) % 16
    BY Slice31
  <1>3. (z \div 4096) % 16 = (x \div 4096) % 16
    <2> DEFINE q == x \div 65536
               y == z \div 4096
    <2>1. q \in Int /\ x = 65536 * q + z
      BY SMT
    <2>2. y \in Int /\ 4096 * y <= z /\ z < 4096 * y + 4096
      BY SMT
    <2> HIDE DEF q, y
    <2>3. x \div 4096 = 16 * q + y
      BY <2>1, <2>2, SMT
    <2>4. (16 * q + y) % 16 = y % 16
      BY <2>1, <2>2, SMT
    <2> QED
      BY <2>3, <2>4 DEF y
  <1> QED
    BY <1>1, <1>2, <1>3

\* Cutting a number to its size does not change the bytes inside that size.
LEMMA SliceOfFit == ASSUME NEW x \in Int, NEW size \in {1, 2, 4}, NEW d \in Nat, d < size
                    PROVE  Slice(Fit(x, size), d, 1) = Slice(x, d, 1)
  <1>1. \A y \in {1, 2, 4} : Fit(x, y) \in Int
    BY FitRange DEF Word, Below
  <1>2. Slice(Fit(x, 1), 0, 1) = Slice(x, 0, 1)
    BY <1>1, SameByte0of16, Fit1
  <1>3. Slice(Fit(x, 2), 0, 1) = Slice(x, 0, 1) /\ Slice(Fit(x, 2), 1, 1) = Slice(x, 1, 1)
    BY <1>1, SameByte0of256, SameByte1of256, Fit2
  <1>4. /\ Slice(Fit(x, 4), 0, 1) = Slice(x, 0, 1) /\ Slice(Fit(x, 4), 1, 1) = Slice(x, 1, 1)
        /\ Slice(Fit(x, 4), 2, 1) = Slice(x, 2, 1) /\ Slice(Fit(x, 4), 3, 1) = Slice(x, 3, 1)
    BY <1>1, SameByte0of65536, SameByte1of65536, SameByte2of65536, SameByte3of65536, Fit4, SMT
  <1>5. \/ size = 1 /\ d = 0
        \/ size = 2 /\ (d = 0 \/ d = 1)
        \/ size = 4 /\ (d = 0 \/ d = 1 \/ d = 2 \/ d = 3)
    BY SMT
  <1> QED
    BY <1>2, <1>3, <1>4, <1>5

\* Assigning to an operand yields a context, and takes only what fits.
LEMMA AssignIs == ASSUME NEW s \in AllContexts, NEW o, IsPlace(o), NEW a \in Int, NEW x \in Int
    PROVE  Assign(o, a, s, x) \in AllContexts /\ Assign(o, a, s, x).ip = s.ip /\ Assign(o, a, s, x).f = s.f
  <1>1. CASE IsReg(o)
    <2>1. o.def[1] \in Registers /\ o.def[2] \in Parts
      BY <1>1 DEF IsReg, Parts
    <2>2. SetPart(s.r[o.def[1]], o.def[2], x) \in Word
      BY <2>1, ContextFields, SetParts
    <2>3. Assign(o, a, s, x) = [s EXCEPT !.r[o.def[1]] = SetPart(s.r[o.def[1]], o.def[2], x)]
      BY <1>1, Kinds DEF Assign
    <2> QED
      BY <2>1, <2>2, <2>3, RegIs
  <1>2. CASE IsMem(o)
    <2>1. Assign(o, a, s, x) = Store(s, a, x, o.size)
      BY <1>2, Kinds DEF Assign
    <2> QED
      BY <2>1, SizesOf, StoreIs
  <1> QED
    BY <1>1, <1>2 DEF IsPlace

LEMMA StoreFits == ASSUME NEW s \in AllContexts, NEW a \in Int, NEW size \in {1, 2, 4}, NEW x \in Int, NEW y \in Int,
                          Fit(x, size) = Fit(y, size)
                   PROVE  Store(s, a, x, size) = Store(s, a, y, size)
  <1>1. ASSUME NEW j \in 0..MemSize - 1, j - a \in 0..size - 1
        PROVE  Slice(x, j - a, 1) = Slice(y, j - a, 1)
    <2>1. j - a \in Nat /\ j - a < size
      BY <1>1, MemSizeNat
    <2>2. Slice(x, j - a, 1) = Slice(Fit(x, size), j - a, 1) /\ Slice(y, j - a, 1) = Slice(Fit(y, size), j - a, 1)
      BY <2>1, SliceOfFit
    <2> QED
      BY <2>2
  <1>2. Store(s, a, x, size).mem = Store(s, a, y, size).mem
    <2>1. Stored(s, a, x, size) = Stored(s, a, y, size)
      BY <1>1 DEF Stored
    <2> QED
      BY <2>1, StoreIs
  <1> QED
    <2> DEFINE t == Store(s, a, x, size)
               u == Store(s, a, y, size)
    <2>1. t \in AllContexts /\ t.ok = (s.ok /\ Readable(a, size)) /\ t.ip = s.ip /\ t.f = s.f /\ t.r = s.r
      BY StoreIs
    <2>2. u \in AllContexts /\ u.ok = (s.ok /\ Readable(a, size)) /\ u.ip = s.ip /\ u.f = s.f /\ u.r = s.r
      BY StoreIs
    <2> HIDE DEF t, u
    <2>3. t.mem = u.mem
      BY <1>2 DEF t, u
    <2>4. t = u
      BY <2>1, <2>2, <2>3, ContextFields
    <2> QED
      BY <2>4 DEF t, u

\* What is assigned is cut to the size of the place.
LEMMA AssignFits == ASSUME NEW s \in AllContexts, NEW o, IsPlace(o), NEW a \in Int, NEW x \in Int, NEW y \in Int,
                           Fit(x, o.size) = Fit(y, o.size)
                    PROVE  Assign(o, a, s, x) = Assign(o, a, s, y)
  <1>1. CASE IsReg(o)
    BY <1>1, Kinds, SetPartFits DEF Assign, IsReg
  <1>2. CASE IsMem(o)
    BY <1>2, Kinds, SizesOf, StoreFits DEF Assign, IsPlace
  <1> QED
    BY <1>1, <1>2 DEF IsPlace

\* calc_item assigns as the processor does.
LEMMA CalcIs == ASSUME NEW i, NEW n, NEW v, NEW s, NEW x, IsPlace(i.item[n]), v[n].size = i.item[n].size
                PROVE  calc_item(i, n, v, s, x) = Assign(i.item[n], v[n].addr, s, x)
  <1> DEFINE o == i.item[n]
  <1>1. CASE IsReg(o)
    BY <1>1, Kinds, Zenon DEF calc_item, Assign
  <1>2. CASE IsMem(o)
    BY <1>2, Kinds, Zenon DEF calc_item, Assign, xx_write_fmem
  <1> QED
    BY <1>1, <1>2 DEF IsPlace

----------------------------------------------------------------------------
(* The arithmetic unit: results are numbers, flags are flags.              *)

LEMMA Power_0 == 2^0 \in Nat /\ 2^0 > 0 BY SMT
\* The powers the shifts divide and multiply by.
LEMMA Power_1 == 2^1 \in Nat /\ 2^1 > 0 BY SMT
LEMMA Power_2 == 2^2 \in Nat /\ 2^2 > 0 BY SMT
LEMMA Power_3 == 2^3 \in Nat /\ 2^3 > 0 BY SMT
LEMMA Power_4 == 2^4 \in Nat /\ 2^4 > 0 BY SMT
LEMMA Power_5 == 2^5 \in Nat /\ 2^5 > 0 BY SMT
LEMMA Power_6 == 2^6 \in Nat /\ 2^6 > 0 BY SMT
LEMMA Power_7 == 2^7 \in Nat /\ 2^7 > 0 BY SMT
LEMMA Power_8 == 2^8 \in Nat /\ 2^8 > 0 BY SMT
LEMMA Power_9 == 2^9 \in Nat /\ 2^9 > 0 BY SMT
LEMMA Power_10 == 2^10 \in Nat /\ 2^10 > 0 BY SMT
LEMMA Power_11 == 2^11 \in Nat /\ 2^11 > 0 BY SMT
LEMMA Power_12 == 2^12 \in Nat /\ 2^12 > 0 BY SMT
LEMMA Power_13 == 2^13 \in Nat /\ 2^13 > 0 BY SMT
LEMMA Power_14 == 2^14 \in Nat /\ 2^14 > 0 BY SMT
LEMMA Power_15 == 2^15 \in Nat /\ 2^15 > 0 BY SMT
LEMMA Power_16 == 2^16 \in Nat /\ 2^16 > 0 BY SMT
LEMMA Power_17 == 2^17 \in Nat /\ 2^17 > 0 BY SMT

LEMMA PowerPositive == ASSUME NEW k \in Nat, k <= 17 PROVE 2^k \in Nat /\ 2^k > 0
  <1>1. \/ k = 0 \/ k = 1 \/ k = 2 \/ k = 3 \/ k = 4 \/ k = 5 \/ k = 6 \/ k = 7 \/ k = 8 \/ k = 9 \/ k = 10 \/ k = 11 \/ k = 12 \/ k = 13 \/ k = 14 \/ k = 15 \/ k = 16 \/ k = 17
    BY SMT
  <1> QED
    BY <1>1, Power_0, Power_1, Power_2, Power_3, Power_4, Power_5, Power_6, Power_7, Power_8, Power_9, Power_10, Power_11, Power_12, Power_13, Power_14, Power_15, Power_16, Power_17

IsResult(x) == x.r \in Int /\ x.f \in SUBSET Flags

\* Flags and numbers that the arithmetic operations leave.
LEMMA IfFlag == \A c : \A flag \in Flags : If(c, flag) \subseteq Flags
  BY DEF If

LEMMA OutcomeIs == ASSUME NEW r \in Int, NEW size, NEW carry, NEW over, NEW f
                   PROVE  IsResult(Outcome(r, size, carry, over, f))
  <1>1. Outcome(r, size, carry, over, f).f \subseteq Flags
    BY FlagNames DEF Outcome, Shown, If
  <1> QED
    BY <1>1 DEF IsResult, Outcome

LEMMA FitInt == ASSUME NEW x \in Int, NEW size \in {1, 2, 4} PROVE Fit(x, size) \in Int /\ Fit(x, size) \in Nat
  BY FitNumber DEF NumbersOf

LEMMA SumIs == ASSUME NEW size \in {1, 2, 4}, NEW a \in Int, NEW b \in Int, NEW c \in Int, NEW f
               PROVE  IsResult(Sum(size, a, b, c, f))
  <1>1. a + b + c \in Int
    OBVIOUS
  <1>2. Fit(a + b + c, size) \in Int
    BY <1>1, FitInt
  <1> QED
    BY <1>2, OutcomeIs DEF Sum, Exact

LEMMA DifferenceIs == ASSUME NEW size \in {1, 2, 4}, NEW a \in Int, NEW b \in Int, NEW c \in Int, NEW f
               PROVE  IsResult(Difference(size, a, b, c, f))
  <1>1. a - b - c \in Int
    OBVIOUS
  <1>2. Fit(a - b - c, size) \in Int
    BY <1>1, FitInt
  <1> QED
    BY <1>2, OutcomeIs DEF Difference, Exact
LEMMA KeepCarryIs == ASSUME NEW r \in Int, NEW size, NEW carry, NEW over, NEW f \in SUBSET Flags
                     PROVE  IsResult(KeepCarry(f, Outcome(r, size, carry, over, f)))
  <1> DEFINE x == Outcome(r, size, carry, over, f)
  <1>1. IsResult(x)
    BY OutcomeIs
  <1>2. KeepCarry(f, x) = [r |-> r, f |-> (x.f \ {"CF"}) \cup (f \cap {"CF"})]
    BY DEF KeepCarry, Outcome
  <1>3. (x.f \ {"CF"}) \cup (f \cap {"CF"}) \subseteq Flags
    BY <1>1 DEF IsResult
  <1> HIDE DEF x
  <1> QED
    BY <1>2, <1>3 DEF IsResult, x

\* A word put together from the bits of two.
LEMMA BitsIs == ASSUME NEW ones, NEW x, NEW y PROVE Bits(ones, x, y) \in Int
  <1> DEFINE bit(k) == IF ((x \div 2^k) % 2) + ((y \div 2^k) % 2) \in ones THEN 2^k ELSE 0
  <1>1. bit(0) \in Int /\ bit(1) \in Int /\ bit(2) \in Int /\ bit(3) \in Int
    BY Power_0, Power_1, Power_2, Power_3
  <1>2. Bits(ones, x, y) = bit(0) + bit(1) + bit(2) + bit(3)
    BY DEF Bits
  <1> HIDE DEF bit
  <1> QED
    BY <1>1, <1>2

\* Operations on the bits of numbers yield numbers.
LEMMA BitwiseIs == ASSUME NEW ones, NEW x, NEW y PROVE Bitwise(ones, x, y) \in Int
  <1> DEFINE byte(j) == Bits(ones, Slice(x, j, 1), Slice(y, j, 1))
  <1>1. byte(0) \in Int /\ byte(1) \in Int /\ byte(2) \in Int /\ byte(3) \in Int
    BY BitsIs
  <1>2. Bitwise(ones, x, y) = byte(0) * 2^Width(0) + byte(1) * 2^Width(1) + byte(2) * 2^Width(2) + byte(3) * 2^Width(3)
    BY DEF Bitwise
  <1> HIDE DEF byte
  <1>3. byte(0) * 1 + byte(1) * 16 + byte(2) * 256 + byte(3) * 4096 \in Int
    BY <1>1
  <1> QED
    BY <1>2, <1>3, Power0, Power1, Power2, Power3

LEMMA LogicIs == ASSUME NEW x, NEW y PROVE And(x, y) \in Int /\ Or(x, y) \in Int /\ Xor(x, y) \in Int
  BY BitwiseIs DEF And, Or, Xor

----------------------------------------------------------------------------
(* Shifts.                                                                 *)

Widths == {4, 8, 16}
LEMMA WidthIs == ASSUME NEW size \in {1, 2, 4} PROVE Width(size) \in Widths
  BY SMT DEF Width, ByteBits, Widths

LEMMA ByPower == ASSUME NEW x \in Int, NEW k \in Nat, k <= 17 PROVE x % 2^k \in Int /\ x \div 2^k \in Int /\ x * 2^k \in Int
  <1> DEFINE q == 2^k
  <1>1. q \in Nat /\ q > 0
    BY PowerPositive
  <1> HIDE DEF q
  <1>2. x % q \in Int /\ x \div q \in Int /\ x * q \in Int
    BY <1>1, SMT
  <1> QED
    BY <1>2 DEF q

\* Shifts and rotations yield numbers and flags.
LEMMA RotateLeftIs == ASSUME NEW x \in Int, NEW n \in Nat, n <= 17, NEW c \in Nat, c <= n
                      PROVE  RotateLeft(x, n, c) \in Int
  <1>1. n - c \in Nat /\ n - c <= 17 /\ c <= 17
    BY SMT
  <1>2. x % 2^(n - c) \in Int /\ x \div 2^(n - c) \in Int
    BY <1>1, ByPower
  <1>3. (x % 2^(n - c)) * 2^c \in Int
    BY <1>1, <1>2, ByPower
  <1> QED
    BY <1>2, <1>3 DEF RotateLeft

LEMMA RotatedIs == ASSUME NEW x \in Int, NEW n \in Nat, n <= 17, NEW c PROVE Rotated(x, n, c).r \in Int
  BY ByPower DEF Rotated

LEMMA CountIs == ASSUME NEW b \in Int PROVE Count(b) \in Nat /\ Count(b) <= 15
  BY SMT DEF Count, ByteBits

LEMMA ShiftFlagsIs == ASSUME NEW op, NEW size, NEW a, NEW x, x.r \in Int, NEW f \in SUBSET Flags
                      PROVE  IsResult(ShiftFlags(op, size, a, x, f))
  <1>1. (f \ {"CF", "OF"}) \cup If(x.cf, "CF") \cup If(SignTurns(a, x.r, size), "OF") \subseteq Flags
    BY FlagNames DEF If
  <1>2. CASE op \in Rotates
    BY <1>1, <1>2 DEF ShiftFlags, IsResult
  <1>3. CASE op \notin Rotates
    BY <1>3, OutcomeIs DEF ShiftFlags
  <1> QED
    BY <1>2, <1>3
LEMMA SignedIs == ASSUME NEW a \in Int, NEW size \in {1, 2, 4} PROVE Signed(a, size) \in Int
  <1>1. 2^Width(size) \in Int
    BY Power1, Power2, Power4
  <1> QED
    BY <1>1 DEF Signed

\* The number that is rotated with the carry, and how far a number is rotated.
LEMMA ExtendedIs == ASSUME NEW a \in Int, NEW size \in {1, 2, 4}, NEW f PROVE Extended(size, a, f) \in Int
  <1>1. Carry(f) \in Int
    BY DEF Carry
  <1>2. Carry(f) * 2^Width(size) \in Int
    BY <1>1, Power1, Power2, Power4
  <1> QED
    BY <1>2 DEF Extended

LEMMA Turns == ASSUME NEW c \in Nat, NEW n \in {4, 5, 8, 9, 16, 17}
               PROVE  c % n \in Nat /\ c % n <= n /\ (n - (c % n)) % n \in Nat /\ (n - (c % n)) % n <= n
  <1>1. c % n \in Nat /\ c % n < n
    BY SMT
  <1> DEFINE d == c % n
  <1>2. n - d \in Nat
    BY <1>1, SMT
  <1> HIDE DEF d
  <1>3. (n - d) % n \in Nat /\ (n - d) % n < n
    BY <1>2, SMT
  <1> QED
    BY <1>1, <1>3 DEF d

LEMMA ShiftedIs == ASSUME NEW op \in Shifts, NEW size \in {1, 2, 4}, NEW a \in Int, NEW c \in Nat, NEW f
                   PROVE  Shifted(op, size, a, c, f).r \in Int
  <1> DEFINE n == Width(size)
             l == Least(c, n)
  <1>1. n \in {4, 8, 16} /\ n \in Nat /\ n <= 17 /\ n + 1 \in {5, 9, 17} /\ n + 1 \in Nat /\ n + 1 <= 17
    BY WidthIs, SMT DEF Widths
  <1> HIDE DEF n
  <1>2. l \in Nat /\ l <= 17 /\ n - l \in Nat /\ n - l <= 17
    BY <1>1, SMT DEF Least
  <1> HIDE DEF l
  <1>3. CASE op \in {"shl", "sal"}
    <2>1. Shifted(op, size, a, c, f).r = (a % 2^(n - l)) * 2^l
      BY <1>3, Zenon DEF Shifted, n, l
    <2>2. a % 2^(n - l) \in Int
      BY <1>2, ByPower
    <2> QED
      BY <1>2, <2>1, <2>2, ByPower
  <1>4. CASE op = "shr"
    <2>1. Shifted(op, size, a, c, f).r = a \div 2^l
      BY <1>4, Zenon DEF Shifted, n, l
    <2> QED
      BY <1>2, <2>1, ByPower
  <1>5. CASE op = "sar"
    <2>1. Shifted(op, size, a, c, f).r = Fit(Signed(a, size) \div 2^l, size)
      BY <1>5, Zenon DEF Shifted, n, l
    <2>2. Signed(a, size) \div 2^l \in Int
      BY <1>2, ByPower, SignedIs
    <2> QED
      BY <2>1, <2>2, FitInt
  <1>6. CASE op = "rcl"
    <2> DEFINE d == c % (n + 1)
    <2>1. Shifted(op, size, a, c, f) = Rotated(RotateLeft(Extended(size, a, f), n + 1, d), n, n)
      BY <1>6, Zenon DEF Shifted, n
    <2>2. d \in Nat /\ d <= n + 1
      BY <1>1, Turns
    <2> HIDE DEF d
    <2> QED
      BY <1>1, <2>1, <2>2, ExtendedIs, RotateLeftIs, RotatedIs
  <1>7. CASE op = "rcr"
    <2> DEFINE d == ((n + 1) - (c % (n + 1))) % (n + 1)
    <2>1. Shifted(op, size, a, c, f) = Rotated(RotateLeft(Extended(size, a, f), n + 1, d), n, n)
      BY <1>7, Zenon DEF Shifted, n
    <2>2. d \in Nat /\ d <= n + 1
      BY <1>1, Turns
    <2> HIDE DEF d
    <2> QED
      BY <1>1, <2>1, <2>2, ExtendedIs, RotateLeftIs, RotatedIs
  <1>8. CASE op = "rol"
    <2> DEFINE d == c % n
    <2>1. Shifted(op, size, a, c, f) = Rotated(RotateLeft(a, n, d), n, 0)
      BY <1>8, Zenon DEF Shifted, n
    <2>2. d \in Nat /\ d <= n
      BY <1>1, Turns
    <2> HIDE DEF d
    <2> QED
      BY <1>1, <2>1, <2>2, RotateLeftIs, RotatedIs
  <1>9. CASE op = "ror"
    <2> DEFINE d == (n - (c % n)) % n
    <2>1. Shifted(op, size, a, c, f) = Rotated(RotateLeft(a, n, d), n, n - 1)
      BY <1>9, Zenon DEF Shifted, n
    <2>2. d \in Nat /\ d <= n
      BY <1>1, Turns
    <2> HIDE DEF d
    <2> QED
      BY <1>1, <2>1, <2>2, RotateLeftIs, RotatedIs
  <1> QED
    BY <1>3, <1>4, <1>5, <1>6, <1>7, <1>8, <1>9, Zenon DEF Shifts, Rotates

LEMMA ShiftIs == ASSUME NEW op \in Shifts, NEW size \in {1, 2, 4}, NEW a \in Int, NEW b \in Int, NEW f \in SUBSET Flags
                 PROVE  IsResult(Shift(op, size, a, b, f))
  <1>1. Shifted(op, size, a, Count(b), f).r \in Int
    BY CountIs, ShiftedIs
  <1> QED
    BY <1>1, ShiftFlagsIs DEF Shift, IsResult

LEMMA ShiftDoubleIs ==
    ASSUME NEW op, NEW size \in {1, 2, 4}, NEW a \in Int, NEW b \in Int, NEW k \in Int, NEW f \in SUBSET Flags
    PROVE  IsResult(ShiftDouble(op, size, a, b, k, f))
  <1> DEFINE n == Width(size)
             c == Count(k) % n
  <1>1. n \in {4, 8, 16}
    BY WidthIs DEF Widths
  <1> HIDE DEF n
  <1>2. c \in Nat /\ c <= n
    BY <1>1, CountIs, Turns
  <1>3. c <= 17 /\ n - c \in Nat /\ n - c <= 17
    BY <1>1, <1>2, SMT
  <1> HIDE DEF c
  <1> DEFINE x == [r  |-> IF op = "shld" THEN (a % 2^(n - c)) * 2^c + b \div 2^(n - c)
                                         ELSE a \div 2^c + (b % 2^c) * 2^(n - c),
                   cf |-> Bit(a, IF op = "shld" THEN n - c ELSE c - 1)]
  <1>4. ShiftDouble(op, size, a, b, k, f) = IF c = 0 THEN [r |-> a, f |-> f] ELSE ShiftFlags(op, size, a, x, f)
    BY DEF ShiftDouble, n, c
  <1>5. (a % 2^(n - c)) * 2^c \in Int /\ b \div 2^(n - c) \in Int
    <2>1. a % 2^(n - c) \in Int
      BY <1>3, ByPower
    <2> QED
      BY <1>2, <1>3, <2>1, ByPower
  <1>6. (b % 2^c) * 2^(n - c) \in Int /\ a \div 2^c \in Int
    <2>1. b % 2^c \in Int
      BY <1>2, <1>3, ByPower
    <2> QED
      BY <1>2, <1>3, <2>1, ByPower
  <1>7. x.r \in Int
    BY <1>5, <1>6
  <1> HIDE DEF x
  <1> QED
    BY <1>4, <1>7, ShiftFlagsIs DEF IsResult
----------------------------------------------------------------------------
(* The arithmetic unit as a whole.                                         *)

LEMMA MixedIs == ASSUME NEW a \in Int, NEW b \in Int, NEW c \in Int, NEW size \in {1, 2, 4}
                 PROVE  Mixed(a, b, c, size) \in Int
  <1>1. 7 * a + 5 * b + 3 * c + 1 \in Int
    OBVIOUS
  <1> QED
    BY <1>1, FitInt DEF Mixed

LEMMA CarryIs == \A f : Carry(f) \in Int
  BY DEF Carry

LEMMA KeptCarry == ASSUME NEW size \in {1, 2, 4}, NEW a \in Int, NEW b \in Int, NEW f \in SUBSET Flags
                   PROVE  IsResult(KeepCarry(f, Sum(size, a, b, 0, f))) /\ IsResult(KeepCarry(f, Difference(size, a, b, 0, f)))
  <1>1. a + b + 0 \in Int /\ a - b - 0 \in Int
    OBVIOUS
  <1>2. Fit(a + b + 0, size) \in Int /\ Fit(a - b - 0, size) \in Int
    BY <1>1, FitInt
  <1>3. IsResult(KeepCarry(f, Sum(size, a, b, 0, f)))
    BY <1>2, KeepCarryIs DEF Sum, Exact
  <1>4. IsResult(KeepCarry(f, Difference(size, a, b, 0, f)))
    BY <1>2, KeepCarryIs DEF Difference, Exact
  <1> QED
    BY <1>3, <1>4

\* Operations on one bit, and the scans for one.
LEMMA BitOpIs == ASSUME NEW op \in BitOps, NEW a \in Int, NEW k \in Nat, k <= 17, NEW f \in SUBSET Flags
                 PROVE  IsResult(BitOp(op, a, k, f))
  <1> DEFINE q == 2^k
             z == BitOp(op, a, k, f)
  <1>1. q \in Int
    BY PowerPositive
  <1>2. z.r = a \/ z.r = a - q \/ z.r = a + q
    <2>1. CASE op = "bt"
      BY <2>1, Zenon DEF BitOp
    <2>2. CASE op = "btr"
      <3>1. CASE Bit(a, k)
        BY <2>2, <3>1, Zenon DEF BitOp
      <3>2. CASE ~Bit(a, k)
        BY <2>2, <3>2, Zenon DEF BitOp
      <3> QED
        BY <3>1, <3>2
    <2>3. CASE op = "bts"
      <3>1. CASE Bit(a, k)
        BY <2>3, <3>1, Zenon DEF BitOp
      <3>2. CASE ~Bit(a, k)
        BY <2>3, <3>2, Zenon DEF BitOp
      <3> QED
        BY <3>1, <3>2
    <2>4. CASE op = "btc"
      BY <2>4, Zenon DEF BitOp
    <2> QED
      BY <2>1, <2>2, <2>3, <2>4 DEF BitOps
  <1>3. z.f = (f \ {"CF"}) \cup If(Bit(a, k), "CF")
    BY DEF BitOp
  <1> HIDE DEF q, z
  <1>4. z.r \in Int
    BY <1>1, <1>2
  <1>5. z.f \subseteq Flags
    BY <1>3, FlagNames DEF If
  <1> QED
    BY <1>4, <1>5 DEF IsResult, z

\* A set of positions of bits has a first and a last element.
LEMMA FirstIs == ASSUME NEW S, S \subseteq 0..15, S # {} PROVE Min(S) \in S
  <1>1. \E x \in S : \A y \in S : x <= y
    <2> SUFFICES ASSUME \A x \in S : \E y \in S : y < x PROVE FALSE
      OBVIOUS
    <2> DEFINE From(n) == \A k \in S : k >= n
    <2>1. From(0)
      OBVIOUS
    <2>2. \A n \in 0..15 : From(n) => From(n + 1)
      OBVIOUS
    <2> HIDE DEF From
    <2>3. From(4)
      BY <2>1, <2>2
    <2>4. From(8)
      BY <2>2, <2>3
    <2>5. From(12)
      BY <2>2, <2>4
    <2>6. From(16)
      BY <2>2, <2>5
    <2>7. PICK e \in S : e \in 0..15
      OBVIOUS
    <2> QED
      BY <2>6, <2>7 DEF From
  <1> QED
    BY <1>1 DEF Min

LEMMA LastIs == ASSUME NEW S, S \subseteq 0..15, S # {} PROVE Max(S) \in S
  <1>1. \E x \in S : \A y \in S : x >= y
    <2> SUFFICES ASSUME \A x \in S : \E y \in S : y > x PROVE FALSE
      OBVIOUS
    <2> DEFINE Upto(n) == \A k \in S : k + n <= 15
    <2>1. Upto(0)
      OBVIOUS
    <2>2. \A n \in 0..15 : Upto(n) => Upto(n + 1)
      OBVIOUS
    <2> HIDE DEF Upto
    <2>3. Upto(4)
      BY <2>1, <2>2
    <2>4. Upto(8)
      BY <2>2, <2>3
    <2>5. Upto(12)
      BY <2>2, <2>4
    <2>6. Upto(16)
      BY <2>2, <2>5
    <2>7. PICK e \in S : e \in 0..15
      OBVIOUS
    <2> QED
      BY <2>6, <2>7 DEF Upto
  <1> QED
    BY <1>1 DEF Max

LEMMA ScanIs == ASSUME NEW op, NEW a \in Int, NEW ones, ones \subseteq 0..15, NEW f \in SUBSET Flags
                PROVE  IsResult(Scan(op, a, ones, f))
  <1>1. ones # {} => Min(ones) \in Int /\ Max(ones) \in Int
    <2>1. ones # {} => Min(ones) \in ones /\ Max(ones) \in ones
      BY FirstIs, LastIs
    <2>2. ones \subseteq Int
      OBVIOUS
    <2> QED
      BY <2>1, <2>2
  <1> QED
    BY <1>1, FlagNames DEF Scan, IsResult

Computed == {"add", "adc", "sub", "cmp", "sbb", "neg", "inc", "dec", "not", "and", "test", "or", "xor", "imul", "bsf", "bsr"} \cup Shifts \cup BitOps

\* Every calculation the processor has yields a number and flags.
LEMMA FittedIs ==
  ASSUME NEW op \in Computed, NEW size \in {1, 2, 4}, NEW a \in Int, NEW b \in Int, NEW f \in SUBSET Flags
  PROVE  IsResult(AluFitted(op, size, a, b, f))
  <1> DEFINE z == AluFitted(op, size, a, b, f)
  <1> USE DEF Shifts, Rotates, BitOps
  <1>1. ASSUME op \in {"add", "adc"} PROVE IsResult(z)
    <2>1. z = Sum(size, a, b, IF op = "adc" THEN Carry(f) ELSE 0, f)
      BY <1>1, Zenon DEF AluFitted
    <2> QED
      BY <2>1, CarryIs, SumIs
  <1>2. ASSUME op \in {"sub", "cmp", "sbb"} PROVE IsResult(z)
    <2>1. z = Difference(size, a, b, IF op = "sbb" THEN Carry(f) ELSE 0, f)
      BY <1>2, Zenon DEF AluFitted
    <2> QED
      BY <2>1, CarryIs, DifferenceIs
  <1>3. ASSUME op = "neg" PROVE IsResult(z)
    <2>1. z = Difference(size, 0, a, 0, f)
      BY <1>3, Zenon DEF AluFitted
    <2> QED
      BY <2>1, DifferenceIs
  <1>4. ASSUME op = "inc" PROVE IsResult(z)
    <2>1. z = KeepCarry(f, Sum(size, a, 1, 0, f))
      BY <1>4, Zenon DEF AluFitted
    <2> QED
      BY <2>1, KeptCarry
  <1>5. ASSUME op = "dec" PROVE IsResult(z)
    <2>1. z = KeepCarry(f, Difference(size, a, 1, 0, f))
      BY <1>5, Zenon DEF AluFitted
    <2> QED
      BY <2>1, KeptCarry
  <1>6. ASSUME op = "not" PROVE IsResult(z)
    <2>1. z = [r |-> 2^Width(size) - 1 - a, f |-> f]
      BY <1>6, Zenon DEF AluFitted
    <2>2. 2^Width(size) \in Int
      BY Power1, Power2, Power4
    <2> QED
      BY <2>1, <2>2 DEF IsResult
  <1>7. ASSUME op \in {"and", "test"} PROVE IsResult(z)
    <2>1. z = Outcome(And(a, b), size, FALSE, FALSE, f)
      BY <1>7, Zenon DEF AluFitted
    <2> QED
      BY <2>1, LogicIs, OutcomeIs
  <1>8. ASSUME op = "or" PROVE IsResult(z)
    <2>1. z = Outcome(Or(a, b), size, FALSE, FALSE, f)
      BY <1>8, Zenon DEF AluFitted
    <2> QED
      BY <2>1, LogicIs, OutcomeIs
  <1>9. ASSUME op = "xor" PROVE IsResult(z)
    <2>1. z = Outcome(Xor(a, b), size, FALSE, FALSE, f)
      BY <1>9, Zenon DEF AluFitted
    <2> QED
      BY <2>1, LogicIs, OutcomeIs
  <1>10. ASSUME op \in Shifts PROVE IsResult(z)
    <2>1. z = Shift(op, size, a, b, f)
      BY <1>10, Zenon DEF AluFitted
    <2> QED
      BY <1>10, <2>1, ShiftIs
  <1>11. ASSUME op \in BitOps PROVE IsResult(z)
    <2>1. z = BitOp(op, a, b % Width(size), f)
      BY <1>11, Zenon DEF AluFitted
    <2>2. b % Width(size) \in Nat /\ b % Width(size) <= 17
      BY WidthIs, SMT DEF Widths
    <2> QED
      BY <1>11, <2>1, <2>2, BitOpIs
  <1>12. ASSUME op = "imul" PROVE IsResult(z)
    <2>1. z = Outcome(Mixed(a, b, a + b, size), size, Bit(a, 0), Bit(a, 0), f)
      BY <1>12, Zenon DEF AluFitted
    <2>2. a + b \in Int
      OBVIOUS
    <2>3. Mixed(a, b, a + b, size) \in Int
      BY <2>2, MixedIs
    <2> QED
      BY <2>1, <2>3, OutcomeIs
  <1>13. ASSUME op \in {"bsf", "bsr"} PROVE IsResult(z)
    <2> DEFINE ones == {k \in 0..Width(size) - 1 : Bit(b, k)}
    <2>1. z = Scan(op, a, ones, f)
      BY <1>13, Zenon DEF AluFitted
    <2>2. ones \subseteq 0..15
      BY SMT DEF Width, ByteBits
    <2> HIDE DEF ones
    <2> QED
      BY <2>1, <2>2, ScanIs
  <1> QED
    BY <1>1, <1>2, <1>3, <1>4, <1>5, <1>6, <1>7, <1>8, <1>9, <1>10, <1>11, <1>12, <1>13, Zenon DEF Computed

\* The same of operands that are first cut to their size.
LEMMA AluIs ==
  ASSUME NEW op \in Computed, NEW size \in {1, 2, 4}, NEW a \in Int, NEW b \in Int, NEW f \in SUBSET Flags
  PROVE  IsResult(Alu(op, size, a, b, f))
  <1>1. Fit(a, size) \in Int /\ Fit(b, size) \in Int
    BY FitInt
  <1> QED
    BY <1>1, FittedIs DEF Alu

\* Operands that are cut to the same numbers have the same result.
LEMMA AluSame ==
  ASSUME NEW op, NEW size, NEW a, NEW b, NEW y, NEW f, op \notin Shifts, Fit(b, size) = Fit(y, size)
  PROVE  Alu(op, size, a, b, f) = Alu(op, size, a, y, f)
  BY DEF Alu
=============================================================================
