-------------------------- MODULE SimulationProofs --------------------------
(***************************************************************************)
(* The code the selector makes of a kernel computes what the kernel means. *)
(* A lane that runs the code keeps, in the register of each value, the     *)
(* value that the IR gives it; every group of machine instructions is one  *)
(* step of the IR, or none.                                                *)
(***************************************************************************)
EXTENDS SelectorProofs

-----------------------------------------------------------------------------
(* Numbers.                                                                *)

\* Half of the numbers of a word are negative.
LEMMA HalfOfAWord ==
  \E h \in Nat : /\ h > 2047 /\ Words = (-h)..(h - 1)
                 /\ \A n : WordOf(n) = ((n + h) % (2 * h)) - h
                 /\ 2^LANE_WIDTH_BITS = 2 * h
<1>1. /\ 2^(16 - 1) \in Nat /\ 2^(16 - 1) > 2047 /\ 2^16 = 2 * 2^(16 - 1)
      /\ 2^(32 - 1) \in Nat /\ 2^(32 - 1) > 2047 /\ 2^32 = 2 * 2^(32 - 1)
  BY SMT
<1>2. PICK h : h = 2^(LANE_WIDTH_BITS - 1)
  OBVIOUS
<1>3. h \in Nat /\ h > 2047 /\ 2^LANE_WIDTH_BITS = 2 * h
  <2>1. CASE LANE_WIDTH_BITS = 16
    BY <1>1, <1>2, <2>1
  <2>2. CASE LANE_WIDTH_BITS = 32
    BY <1>1, <1>2, <2>2
  <2> QED
    BY <2>1, <2>2, LaneAssumption
<1>4. Words = (-h)..(h - 1)
  BY <1>2, Zenon DEF Words
<1>5. PICK d : d = 2^LANE_WIDTH_BITS
  OBVIOUS
<1>6. \A n : WordOf(n) = ((n + h) % d) - h
  BY <1>2, <1>5, Zenon DEF WordOf, InBits
<1>7. \A n : WordOf(n) = ((n + h) % (2 * h)) - h
  <2>1. d = 2 * h
    BY <1>3, <1>5
  <2> QED
    BY <1>6, <2>1
<1> QED
  BY <1>3, <1>4, <1>7

\* The remainder does not see a multiple.
LEMMA RemainderShifts ==
  ASSUME NEW d \in Nat \ {0}, NEW m \in Int, NEW k \in Int
  PROVE  (m - k * d) % d = m % d
<1> DEFINE q == m \div d
           r == m % d
<1>1. q \in Int /\ r \in 0..(d - 1) /\ m = q * d + r
  OBVIOUS
<1> HIDE DEF q, r
<1>2. m - k * d = (q - k) * d + r
  BY <1>1
<1>3. PICK j \in Int : j = q - k
  BY <1>1
<1>4. PICK p \in Int : p = m - k * d
  OBVIOUS
<1>5. p = j * d + r
  BY <1>2, <1>3, <1>4
<1>6. p % d = r
  BY <1>1, <1>5
<1> QED
  BY <1>4, <1>6 DEF r

\* A word is what it is, and any number gives one.
LEMMA WordsAre ==
  /\ \A n \in Words : n \in Int /\ WordOf(n) = n
  /\ \A n \in Int : WordOf(n) \in Words
<1>1. PICK h \in Nat : /\ h > 2047 /\ Words = (-h)..(h - 1)
                       /\ \A n : WordOf(n) = ((n + h) % (2 * h)) - h
  BY HalfOfAWord
<1>2. ASSUME NEW n \in Words PROVE n \in Int /\ WordOf(n) = n
  <2>1. n + h \in 0..(2 * h - 1)
    BY <1>1
  <2>2. (n + h) % (2 * h) = n + h
    BY <1>1, <2>1
  <2> QED
    BY <1>1, <2>2
<1>3. ASSUME NEW n \in Int PROVE WordOf(n) \in Words
  <2>1. PICK r : r = (n + h) % (2 * h)
    OBVIOUS
  <2>2. r \in 0..(2 * h - 1)
    BY <1>1, <2>1
  <2>3. WordOf(n) = r - h
    BY <1>1, <2>1
  <2> QED
    BY <1>1, <2>2, <2>3
<1> QED
  BY <1>2, <1>3

LEMMA ZeroIsWord == 0 \in Words
  BY HalfOfAWord

\* Wrapping a part of a sum is lost when the sum wraps.
LEMMA WordOfSum ==
  ASSUME NEW a \in Int, NEW b \in Int
  PROVE  WordOf(a + WordOf(b)) = WordOf(a + b) /\ WordOf(WordOf(b) + a) = WordOf(b + a)
<1>1. PICK h \in Nat : /\ h > 2047 /\ Words = (-h)..(h - 1)
                       /\ \A n : WordOf(n) = ((n + h) % (2 * h)) - h
  BY HalfOfAWord
<1>2. PICK d \in Nat \ {0} : d = 2 * h
  BY <1>1
<1>3. PICK k \in Int : k = (b + h) \div d
  BY <1>2
<1>4. (b + h) % d = (b + h) - k * d
  BY <1>2, <1>3
<1>5. WordOf(b) = b - k * d
  <2>1. WordOf(b) = ((b + h) % d) - h
    BY <1>1, <1>2
  <2>2. PICK e \in Int : e = k * d
    OBVIOUS
  <2> QED
    BY <1>1, <1>4, <2>1, <2>2
<1>6. PICK m \in Int : m = a + b + h
  BY <1>1
<1>7. (m - k * d) % d = m % d
  BY RemainderShifts
<1>8. (a + WordOf(b)) + h = m - k * d
  BY <1>3, <1>5, <1>6
<1>9. WordOf(a + WordOf(b)) = ((m - k * d) % d) - h
  BY <1>1, <1>2, <1>8
<1>10. WordOf(a + b) = (m % d) - h
  BY <1>1, <1>2, <1>6
<1>11. WordOf(b) + a = a + WordOf(b) /\ b + a = a + b
  BY <1>3, <1>5
<1> QED
  BY <1>7, <1>9, <1>10, <1>11

\* The difference of two words, as a word: 0 for equal words; when it wraps, the
\* signs differ and its sign is the wrong one.
LEMMA DifferenceOfWords ==
  ASSUME NEW x \in Words, NEW y \in Words, NEW w, w = WordOf(x - y)
  PROVE  /\ x \in Int /\ y \in Int /\ w \in Int
         /\ w = 0 <=> x = y
         /\ w # x - y => ((x < 0) # (y < 0)) /\ (w < 0 <=> y < 0) /\ (w > 0 <=> x < 0)
<1>1. PICK h \in Nat : /\ h > 2047 /\ Words = (-h)..(h - 1)
                       /\ \A n : WordOf(n) = ((n + h) % (2 * h)) - h
  BY HalfOfAWord
<1>2. x \in Int /\ y \in Int /\ -h <= x /\ x < h /\ -h <= y /\ y < h
  BY <1>1
<1>3. PICK m \in Int : m = (x - y) + h
  BY <1>1, <1>2
<1>4. PICK d \in Nat \ {0} : d = 2 * h
  BY <1>1
<1>5. w = (m % d) - h
  BY <1>1, <1>3, <1>4
<1>6. CASE m < 0
  <2>1. m = (-1) * d + (m + d) /\ m + d \in 0..(d - 1)
    BY <1>2, <1>3, <1>4, <1>6
  <2>2. m % d = m + d
    BY <2>1
  <2> QED
    BY <1>1, <1>2, <1>3, <1>4, <1>5, <1>6, <2>2
<1>7. CASE 0 <= m /\ m < d
  <2>1. m % d = m
    BY <1>7
  <2>2. w = m - h
    BY <1>5, <2>1
  <2>3. w = x - y
    BY <1>2, <1>3, <2>2
  <2> QED
    BY <1>2, <2>3
<1>8. CASE d <= m
  <2>1. m = 1 * d + (m - d) /\ m - d \in 0..(d - 1)
    BY <1>2, <1>3, <1>4, <1>8
  <2>2. m % d = m - d
    BY <2>1
  <2> QED
    BY <1>1, <1>2, <1>3, <1>4, <1>5, <1>8, <2>2
<1> QED
  BY <1>4, <1>6, <1>7, <1>8

\* A number that fits survives the fourteen bits of the word.
LEMMA SignedFields ==
  ASSUME NEW h \in Nat \ {0}, NEW n \in Int, -h <= n, n < h
  PROVE  LET low == n % (2 * h)
         IN  n = IF low < h THEN low ELSE low - 2 * h
<1> DEFINE d == 2 * h
<1>1. CASE n < 0
  <2>1. n % d = n + d
    <3>1. n = (-1) * d + (n + d) /\ n + d \in 0..(d - 1) /\ d \in Nat \ {0}
      BY <1>1
    <3> QED
      BY <3>1
  <2> QED
    BY <1>1, <2>1
<1>2. CASE ~(n < 0)
  <2>1. n % d = n
    BY <1>2
  <2> QED
    BY <1>2, <2>1
<1> QED
  BY <1>1, <1>2

\* The bounds of an immediate of fourteen bits.
LEMMA FittingBounds == \A m : Fits(m) => m \in Int /\ -8192 <= m /\ m < 8192 /\ m \in Words
<1>1. \A m : Fits(m) => m \in Int /\ -8192 <= m /\ m < 8192
  BY DEF Fits
<1>2. ASSUME NEW m, Fits(m) PROVE m \in Words
  <2>1. PICK h \in Nat : h > 2047 /\ Words = (-h)..(h - 1)
    BY HalfOfAWord
  <2>2. m \in Int /\ -2048 <= m /\ m <= 2047
    BY <1>2 DEF Fits
  <2> QED
    BY <2>1, <2>2
<1> QED
  BY <1>1, <1>2

\* An immediate that fits is the number the lane computes with.
LEMMA ImmediateIs ==
  ASSUME NEW mi, Fits(mi.imm) PROVE Immediate(mi) = mi.imm
<1> DEFINE n == mi.imm
           d == 2^14
           h == 2^(14 - 1)
<1>1. h = 8192 /\ d = 2 * h
  BY SMT
<1>2. n \in Int /\ -8192 <= n /\ n < 8192
  BY FittingBounds
<1>3. Immediate(mi) = IF n % d < h THEN n % d ELSE (n % d) - d
  BY Zenon DEF Immediate, SignExtended, Masked
<1> HIDE DEF n, d, h
<1>4. LET low == n % (2 * h) IN n = IF low < h THEN low ELSE low - 2 * h
  BY <1>1, <1>2, SignedFields
<1>5. Immediate(mi) = n
  BY <1>1, <1>3, <1>4
<1> QED
  BY <1>5 DEF n

\* The letters of a predicate: those of the signs of x - y for which it holds.
LEMMA LettersAre ==
  /\ LettersOf(1) = {"P"} /\ LettersOf(2) = {"Z"} /\ LettersOf(4) = {"N"}
  /\ LettersOf(3) = {"Z", "P"} /\ LettersOf(5) = {"N", "P"} /\ LettersOf(6) = {"N", "Z"}
  BY DEF LettersOf

\* The letters of a predicate hold after CMP exactly when the predicate does,
\* where the sign of the difference is the order.
LEMMA SignDecides ==
  ASSUME NEW pred \in Predicates, NEW x \in Words, NEW y \in Words, ~Misread(pred, x, y)
  PROVE  Sign(WordOf(x - y)) \in LettersOf(BranchCond(pred)) <=> Kernel!Holds(pred, x, y)
<1>0. PICK w : w = WordOf(x - y)
  OBVIOUS
<1>1. /\ x \in Int /\ y \in Int /\ w \in Int
      /\ w = 0 <=> x = y
      /\ w # x - y => ((x < 0) # (y < 0)) /\ (w < 0 <=> y < 0) /\ (w > 0 <=> x < 0)
  BY <1>0, DifferenceOfWords
<1>2. /\ pred \in Signed => w = x - y
      /\ pred \in Unsigned => (x < 0) = (y < 0) \/ w # x - y
  BY <1>0 DEF Misread
<1>3. pred \in Signed => (w < 0 <=> x < y) /\ (w > 0 <=> y < x)
  BY <1>1, <1>2
<1>4. pred \in Unsigned => (w < 0 <=> Kernel!Below(x, y)) /\ (w > 0 <=> Kernel!Below(y, x))
  BY <1>1, <1>2 DEF Kernel!Below
<1>5. Sign(w) = IF w < 0 THEN "N" ELSE IF w = 0 THEN "Z" ELSE "P"
  BY DEF Sign
<1>6. Sign(w) = "N" <=> w < 0
  BY <1>5
<1>7. Sign(w) = "P" <=> w > 0
  BY <1>1, <1>5
<1>8. Sign(w) = "Z" <=> x = y
  BY <1>1, <1>5
<1>9. Sign(w) \in {"N", "Z", "P"}
  BY <1>5
<1> DEFINE Holds == Kernel!Holds(pred, x, y)
           letters == LettersOf(BranchCond(pred))
<1>10. CASE pred = "eq"
  <2>1. letters = {"Z"} /\ (Holds <=> x = y)
    BY <1>10, LettersAre DEF BranchCond, Kernel!Holds
  <2> QED
    BY <1>0, <1>8, <2>1
<1>11. CASE pred = "ne"
  <2>1. letters = {"N", "P"} /\ (Holds <=> x # y)
    BY <1>11, LettersAre DEF BranchCond, Kernel!Holds, NE
  <2> QED
    BY <1>0, <1>8, <1>9, <2>1
<1>12. CASE pred \in {"slt", "ult"}
  <2>1. letters = {"N"} /\ (Holds <=> w < 0)
    BY <1>1, <1>3, <1>4, <1>12, LettersAre DEF BranchCond, Kernel!Holds, Signed, Unsigned
  <2> QED
    BY <1>0, <1>6, <2>1
<1>13. CASE pred \in {"sle", "ule"}
  <2>1. letters = {"N", "Z"}
    BY <1>13, LettersAre DEF BranchCond
  <2>2. CASE pred = "sle"
    <3>1. Holds <=> x <= y
      BY <2>2 DEF Kernel!Holds
    <3>2. x <= y <=> ~(w > 0)
      BY <1>1, <1>3, <2>2 DEF Signed
    <3> QED
      BY <1>0, <1>6, <1>7, <1>9, <2>1, <3>1, <3>2
  <2>3. CASE pred = "ule"
    <3>1. Holds <=> ~Kernel!Below(y, x)
      BY <2>3 DEF Kernel!Holds
    <3>2. ~Kernel!Below(y, x) <=> ~(w > 0)
      BY <1>4, <2>3 DEF Unsigned
    <3> QED
      BY <1>0, <1>6, <1>7, <1>9, <2>1, <3>1, <3>2
  <2> QED
    BY <1>13, <2>2, <2>3
<1>14. CASE pred \in {"sgt", "ugt"}
  <2>1. letters = {"P"} /\ (Holds <=> w > 0)
    BY <1>1, <1>3, <1>4, <1>14, LettersAre DEF BranchCond, Kernel!Holds, Signed, Unsigned
  <2> QED
    BY <1>0, <1>7, <2>1
<1>15. CASE pred \in {"sge", "uge"}
  <2>1. letters = {"Z", "P"}
    BY <1>15, LettersAre DEF BranchCond
  <2>2. CASE pred = "sge"
    <3>1. Holds <=> x >= y
      BY <2>2 DEF Kernel!Holds
    <3>2. x >= y <=> ~(w < 0)
      BY <1>1, <1>3, <2>2 DEF Signed
    <3> QED
      BY <1>0, <1>6, <1>7, <1>9, <2>1, <3>1, <3>2
  <2>3. CASE pred = "uge"
    <3>1. Holds <=> ~Kernel!Below(x, y)
      BY <2>3 DEF Kernel!Holds
    <3>2. ~Kernel!Below(x, y) <=> ~(w < 0)
      BY <1>4, <2>3 DEF Unsigned
    <3> QED
      BY <1>0, <1>6, <1>7, <1>9, <2>1, <3>1, <3>2
  <2> QED
    BY <1>15, <2>2, <2>3
<1> QED
  BY <1>10, <1>11, <1>12, <1>13, <1>14, <1>15 DEF Predicates

-----------------------------------------------------------------------------
(* What the kernel's meaning says of an instruction.                       *)

\* The kernel speaks of the same values and the same maps.
LEMMA KernelWords ==
  /\ \A v : (Kernel!IsConst(v) <=> IsConst(v)) /\ (Kernel!IsResult(v) <=> IsResult(v))
  /\ \A c, j : Kernel!Result(c, j) = Result(c, j)
  /\ \A m, k, x : Kernel!Updated(m, k, x) = Updated(m, k, x)
  /\ \A dim : /\ Kernel!LocalIdRegister(dim) = LocalIdRegister(dim)
              /\ Kernel!GroupIdRegister(dim) = GroupIdRegister(dim)
  /\ Kernel!RegisterCalls = RegisterCalls
  /\ Kernel!EmptyMap = EmptyMap
  /\ \A n : Kernel!WordOf(n) = WordOf(n) /\ Kernel!InBits(n, LANE_WIDTH_BITS) = WordOf(n)
<1>1. /\ Kernel!TID_X = TID_X /\ Kernel!TID_Y = TID_Y /\ Kernel!BID_X = BID_X /\ Kernel!BID_Y = BID_Y
  BY DEF Kernel!TID_X, TID_X, Kernel!TID_Y, TID_Y, Kernel!BID_X, BID_X, Kernel!BID_Y, BID_Y
<1>2. /\ \A v : (Kernel!IsConst(v) <=> IsConst(v)) /\ (Kernel!IsResult(v) <=> IsResult(v))
      /\ \A c, j : Kernel!Result(c, j) = Result(c, j)
  BY DEF Kernel!IsConst, IsConst, Kernel!IsResult, IsResult, Kernel!Result, Result
<1>3. \A m, k, x : Kernel!Updated(m, k, x) = Updated(m, k, x)
  BY DEF Kernel!Updated, Updated
<1>4. \A dim : /\ Kernel!LocalIdRegister(dim) = LocalIdRegister(dim)
              /\ Kernel!GroupIdRegister(dim) = GroupIdRegister(dim)
  BY <1>1 DEF Kernel!LocalIdRegister, LocalIdRegister, Kernel!GroupIdRegister, GroupIdRegister
<1>5. Kernel!RegisterCalls = RegisterCalls
  BY <1>1 DEF Kernel!RegisterCalls, RegisterCalls
<1>6. Kernel!EmptyMap = EmptyMap
  BY DEF Kernel!EmptyMap, EmptyMap
<1>7. \A n : Kernel!WordOf(n) = WordOf(n) /\ Kernel!InBits(n, LANE_WIDTH_BITS) = WordOf(n)
  BY Zenon DEF Kernel!WordOf, Kernel!InBits, WordOf, InBits
<1> QED
  BY <1>2, <1>3, <1>4, <1>5, <1>6, <1>7

-----------------------------------------------------------------------------
(* The bytes of memory.                                                    *)

\* What is left of a number above a byte.
LEMMA BytesUnits ==
  256^0 = 1 /\ 256^1 = 256 /\ 256^2 = 256 * 256 /\ 256^3 = 256 * (256 * 256)
  BY SMT

LEMMA WidthUnits ==
  2^16 = 256 * 256 /\ 2^32 = 256 * (256 * (256 * 256))
  BY SMT

LEMMA ByteIs ==
  ASSUME NEW n \in Int
  PROVE  /\ Kernel!Byte(n, 0) = n % 256 /\ Kernel!Byte(n, 1) = (n \div 256) % 256
         /\ Kernel!Byte(n, 2) = ((n \div 256) \div 256) % 256
         /\ Kernel!Byte(n, 3) = (((n \div 256) \div 256) \div 256) % 256
<1>1. /\ Kernel!Byte(n, 0) = (n \div 256^0) % 256 /\ Kernel!Byte(n, 1) = (n \div 256^1) % 256
      /\ Kernel!Byte(n, 2) = (n \div 256^2) % 256 /\ Kernel!Byte(n, 3) = (n \div 256^3) % 256
  BY Zenon DEF Kernel!Byte
<1>2. /\ n \div 1 = n /\ n \div (256 * 256) = (n \div 256) \div 256
      /\ n \div (256 * (256 * 256)) = ((n \div 256) \div 256) \div 256
  OBVIOUS
<1>3. /\ n \div 256^0 = n /\ n \div 256^1 = n \div 256
      /\ n \div 256^2 = (n \div 256) \div 256
      /\ n \div 256^3 = ((n \div 256) \div 256) \div 256
  BY <1>2, BytesUnits
<1> QED
  BY <1>1, <1>3

\* A byte is a number.
LEMMA ByteIsNumber ==
  ASSUME NEW n \in Int, NEW i \in 0..3 PROVE Kernel!Byte(n, i) \in Int
<1>1. PICK u : u = 256^i
  OBVIOUS
<1>2. u \in Nat \ {0}
  <2>1. i = 0 \/ i = 1 \/ i = 2 \/ i = 3
    OBVIOUS
  <2>2. 256^0 \in Nat \ {0} /\ 256^1 \in Nat \ {0} /\ 256^2 \in Nat \ {0} /\ 256^3 \in Nat \ {0}
    BY BytesUnits
  <2> QED
    BY <1>1, <2>1, <2>2, Zenon
<1>3. Kernel!Byte(n, i) = (n \div u) % 256
  BY <1>1, Zenon DEF Kernel!Byte
<1> QED
  BY <1>2, <1>3

\* How many bytes a word has.
LEMMA WordSize ==
  /\ LANE_WIDTH_BITS = 16 => Kernel!Size(LANE_WIDTH_BITS) = 2
  /\ LANE_WIDTH_BITS = 32 => Kernel!Size(LANE_WIDTH_BITS) = 4
  /\ Kernel!Size(LANE_WIDTH_BITS) \in {2, 4}
  BY LaneAssumption DEF Kernel!Size

\* A multiple of what a word can count is lost in a word.
LEMMA WordOfRest ==
  ASSUME NEW n \in Int, NEW k \in Int, NEW d, d = 2^LANE_WIDTH_BITS, d \in Int
  PROVE  WordOf(n - k * d) = WordOf(n)
<1>1. PICK h \in Nat : /\ h > 2047 /\ d = 2 * h
                       /\ \A m : WordOf(m) = ((m + h) % (2 * h)) - h
  BY HalfOfAWord
<1>2. PICK m \in Int : m = n + h
  BY <1>1
<1>3. (m - k * d) % d = m % d
  BY <1>1, RemainderShifts
<1>4. PICK e \in Int : e = k * d
  BY <1>1
<1>5. (n - e) + h = m - e
  BY <1>1, <1>2, <1>4
<1>6. WordOf(n - e) = ((m - e) % d) - h
  BY <1>1, <1>5
<1>7. WordOf(n) = (m % d) - h
  BY <1>1, <1>2
<1> QED
  BY <1>3, <1>4, <1>6, <1>7

\* The bytes of a word, put together again.
LEMMA WordOfBytes ==
  ASSUME NEW n \in Words, NEW memory, NEW a,
         \A i \in 0..(Kernel!Size(LANE_WIDTH_BITS) - 1) :
           Kernel!MemoryAt(memory, WordOf(a + i)) = Kernel!Byte(n, i)
  PROVE  Kernel!LoadedFrom(memory, a, LANE_WIDTH_BITS) = n
<1>1. n \in Int /\ WordOf(n) = n
  BY WordsAre
<1> DEFINE B(i) == IF i < Kernel!Size(LANE_WIDTH_BITS) THEN Kernel!MemoryAt(memory, WordOf(a + i)) ELSE 0
           Four(i) == B(i) + 256 * (B(i + 1) + 256 * (B(i + 2) + 256 * B(i + 3)))
           q1 == n \div 256
           q2 == q1 \div 256
           q3 == q2 \div 256
           q4 == q3 \div 256
<1>2. Kernel!LoadedFrom(memory, a, LANE_WIDTH_BITS)
        = WordOf(Four(0) + 256 * (256 * (256 * (256 * Four(4)))))
  BY Zenon DEF Kernel!LoadedFrom, Kernel!WordOf, Kernel!InBits, WordOf, InBits
<1>3. /\ n = 256 * q1 + (n % 256) /\ q1 = 256 * q2 + (q1 % 256)
      /\ q2 = 256 * q3 + (q2 % 256) /\ q3 = 256 * q4 + (q3 % 256)
      /\ q1 \in Int /\ q2 \in Int /\ q3 \in Int /\ q4 \in Int
      /\ n % 256 \in Int /\ q1 % 256 \in Int /\ q2 % 256 \in Int /\ q3 % 256 \in Int
  BY <1>1
<1>4. /\ Kernel!Byte(n, 0) = n % 256 /\ Kernel!Byte(n, 1) = q1 % 256
      /\ Kernel!Byte(n, 2) = q2 % 256 /\ Kernel!Byte(n, 3) = q3 % 256
  BY <1>1, ByteIs
<1>5. /\ Kernel!Size(LANE_WIDTH_BITS) = 2 => B(0) = n % 256 /\ B(1) = q1 % 256 /\ B(2) = 0 /\ B(3) = 0
      /\ Kernel!Size(LANE_WIDTH_BITS) = 4 => /\ B(0) = n % 256 /\ B(1) = q1 % 256
                                     /\ B(2) = q2 % 256 /\ B(3) = q3 % 256
      /\ Kernel!Size(LANE_WIDTH_BITS) \in {2, 4} => B(4) = 0 /\ B(5) = 0 /\ B(6) = 0 /\ B(7) = 0
  BY <1>4
<1>6. PICK t : t = Four(0) + 256 * (256 * (256 * (256 * Four(4))))
  OBVIOUS
<1>7. /\ Four(0) = B(0) + 256 * (B(1) + 256 * (B(2) + 256 * B(3)))
      /\ Four(4) = B(4) + 256 * (B(5) + 256 * (B(6) + 256 * B(7)))
  OBVIOUS
<1> HIDE DEF B, Four, q1, q2, q3, q4
<1>8. CASE LANE_WIDTH_BITS = 16
  <2>1. t = (n % 256) + 256 * (q1 % 256)
    BY <1>3, <1>5, <1>6, <1>7, <1>8, WordSize
  <2>2. t = n - q2 * (256 * 256)
    BY <1>1, <1>3, <2>1
  <2>3. PICK d : d = 2^LANE_WIDTH_BITS
    OBVIOUS
  <2>4. d = 256 * 256 /\ d \in Int
    BY <1>8, <2>3, WidthUnits
  <2>5. n \in Int /\ q2 \in Int /\ d \in Int
    BY <1>1, <1>3, <2>4
  <2>6. WordOf(n - q2 * d) = WordOf(n)
    BY <2>3, <2>5, WordOfRest
  <2> QED
    BY <1>1, <1>2, <1>6, <2>2, <2>4, <2>6
<1>9. CASE LANE_WIDTH_BITS = 32
  <2>1. t = (n % 256) + 256 * ((q1 % 256) + 256 * ((q2 % 256) + 256 * (q3 % 256)))
    BY <1>3, <1>5, <1>6, <1>7, <1>9, WordSize
  <2>2. t = n - q4 * (256 * (256 * (256 * 256)))
    BY <1>1, <1>3, <2>1
  <2>3. PICK d : d = 2^LANE_WIDTH_BITS
    OBVIOUS
  <2>4. d = 256 * (256 * (256 * 256)) /\ d \in Int
    BY <1>9, <2>3, WidthUnits
  <2>5. n \in Int /\ q4 \in Int /\ d \in Int
    BY <1>1, <1>3, <2>4
  <2>6. WordOf(n - q4 * d) = WordOf(n)
    BY <2>3, <2>5, WordOfRest
  <2> QED
    BY <1>1, <1>2, <1>6, <2>2, <2>4, <2>6
<1> QED
  BY <1>8, <1>9, LaneAssumption

\* What is read from bytes is a word.
LEMMA LoadedIsWord ==
  ASSUME NEW memory, \A a \in DOMAIN memory : memory[a] \in Int, NEW a
  PROVE  Kernel!LoadedFrom(memory, a, LANE_WIDTH_BITS) \in Words
<1> DEFINE B(i) == IF i < Kernel!Size(LANE_WIDTH_BITS) THEN Kernel!MemoryAt(memory, WordOf(a + i)) ELSE 0
           Four(i) == B(i) + 256 * (B(i + 1) + 256 * (B(i + 2) + 256 * B(i + 3)))
<1>1. Kernel!LoadedFrom(memory, a, LANE_WIDTH_BITS)
        = WordOf(Four(0) + 256 * (256 * (256 * (256 * Four(4)))))
  BY Zenon DEF Kernel!LoadedFrom, Kernel!WordOf, Kernel!InBits, WordOf, InBits
<1>2. \A i : B(i) \in Int
  BY DEF Kernel!MemoryAt
<1> HIDE DEF B
<1>3. Four(0) \in Int /\ Four(4) \in Int
  BY <1>2
<1> HIDE DEF Four
<1>4. PICK t \in Int : t = Four(0) + 256 * (256 * (256 * (256 * Four(4))))
  BY <1>3
<1> QED
  BY <1>1, <1>4, WordsAre

\* Memory stays bytes at addresses.
LEMMA StoredIsMemory ==
  ASSUME NEW memory, DOMAIN memory \subseteq Int, \A a \in DOMAIN memory : memory[a] \in Int,
         NEW address \in Int, NEW n \in Int
  PROVE  LET stored == Kernel!StoredIn(memory, address, n, LANE_WIDTH_BITS)
         IN  DOMAIN stored \subseteq Int /\ \A a \in DOMAIN stored : stored[a] \in Int
<1> DEFINE Offset(a) == (a - address) % 2^LANE_WIDTH_BITS
           new == {WordOf(address + i) : i \in 0..(Kernel!Size(LANE_WIDTH_BITS) - 1)}
           stored == Kernel!StoredIn(memory, address, n, LANE_WIDTH_BITS)
<1>1. stored = [a \in DOMAIN memory \cup new |->
                  IF Offset(a) < Kernel!Size(LANE_WIDTH_BITS) THEN Kernel!Byte(n, Offset(a))
                  ELSE Kernel!MemoryAt(memory, a)]
  BY Zenon DEF Kernel!StoredIn, Kernel!WordOf, Kernel!InBits, WordOf, InBits
<1>2. new \subseteq Int
  <2>1. ASSUME NEW i \in 0..(Kernel!Size(LANE_WIDTH_BITS) - 1) PROVE WordOf(address + i) \in Int
    <3>1. i \in Int
      BY WordSize
    <3>2. address + i \in Int
      BY <3>1
    <3> QED
      BY <3>2, WordsAre
  <2> QED
    BY <2>1
<1>3. PICK d \in Nat \ {0} : d = 2^LANE_WIDTH_BITS
  BY HalfOfAWord
<1>4. ASSUME NEW a \in DOMAIN memory \cup new
      PROVE  (IF Offset(a) < Kernel!Size(LANE_WIDTH_BITS) THEN Kernel!Byte(n, Offset(a))
              ELSE Kernel!MemoryAt(memory, a)) \in Int
  <2>1. PICK i : i = Offset(a)
    OBVIOUS
  <2>2. a - address \in Int
    BY <1>2
  <2>3. i = (a - address) % d
    BY <1>3, <2>1
  <2>4. i \in Nat
    BY <1>3, <2>2, <2>3
  <2>5. CASE i < Kernel!Size(LANE_WIDTH_BITS)
    <3>1. i \in 0..3
      BY <2>4, <2>5, WordSize
    <3> QED
      BY <2>1, <2>5, <3>1, ByteIsNumber
  <2>6. CASE ~(i < Kernel!Size(LANE_WIDTH_BITS))
    BY <2>1, <2>6 DEF Kernel!MemoryAt
  <2> QED
    BY <2>5, <2>6
<1> QED
  BY <1>1, <1>2, <1>4

-----------------------------------------------------------------------------
(* What the kernel's meaning says of a value.                              *)

\* What the kernel calls the value of a constant, an argument, a result.
LEMMA ValueIs ==
  \A v : /\ IsConst(v) => Kernel!ValueOf(v) = v[2]
         /\ v[1] = "arg" => Kernel!ValueOf(v) = args[v[2] + 1]
         /\ IsResult(v) => Kernel!ValueOf(v) = env[v]
  BY DEF Kernel!ValueOf, Kernel!IsConst, IsConst, Kernel!IsResult, IsResult

\* The kernel is at the instruction whose code the lane is in.
LEMMA KernelIsAt ==
  ASSUME Shape, NEW b \in Blocks, NEW i \in DOMAIN CodeOf(b), at = <<b, i>>
  PROVE  /\ KernelPosition = <<b, i>> /\ KernelPosition[1] = b /\ KernelPosition[2] = i
         /\ Kernel!Ins = CodeOf(b)[i] /\ at \notin {NotStarted, Returned, Fault}
<1>1. at \notin {NotStarted, Returned, Fault}
  BY PlacesApart
<1>2. KernelPosition = <<b, i>>
  BY <1>1 DEF KernelPosition
<1> QED
  BY <1>1, <1>2 DEF Kernel!Ins, CodeOf

\* A sum of one number.
LEMMA SumOfOne ==
  ASSUME NEW f, f[1] \in Int
  PROVE  (CHOOSE g : g = [s \in SUBSET {1} |-> IF s = {} THEN 0
                            ELSE f[CHOOSE x \in s : TRUE] + g[s \ {CHOOSE x \in s : TRUE}]])[{1}] = f[1]
  BY FoldOfOne DEF FoldFunctionOnSet, MapThenFoldSet

\* What the kernel's meaning says of each class of instruction.
LEMMA OutcomeIs ==
  LET ins == Kernel!Ins
  IN  /\ ins.op = "binary" /\ ins.form \notin {"ldr", "s2r"} =>
           Kernel!Outcome = Kernel!InBits(Kernel!Arithmetic(ins.form, Kernel!X, Kernel!Y), ins.bits)
      /\ ins.op = "icmp" /\ ins.form \notin {"ldr", "s2r"} =>
           Kernel!Outcome = IF Kernel!Holds(ins.form, Kernel!X, Kernel!Y) THEN 1 ELSE 0
      /\ ins.op = "cast" /\ ins.form = "bitcast" => Kernel!Outcome = Kernel!InBits(Kernel!X, ins.bits)
      /\ ins.op = "gep" /\ ins.form \notin {"ldr", "s2r"} =>
           Kernel!Outcome = WordOf(Kernel!X + Kernel!MapThenSumSet(
                              LAMBDA k : Kernel!ValueOf(ins.ops[k + 1]) * ins.attr[k], DOMAIN ins.attr))
      /\ (ins.op = "load" /\ ins.form # "s2r") \/ (ins.op = "asm" /\ ins.form = "ldr") =>
           Kernel!Outcome = Kernel!LoadedFrom(mem, Kernel!X, ins.bits)
      /\ ins.op = "asm" /\ ins.form = "s2r" => Kernel!Outcome = SysReg[ins.attr[1]]
      /\ ins.op = "call" /\ ins.form \notin {"ldr", "s2r"} => Kernel!Outcome = Kernel!CallResult(ins.form)
<1> DEFINE ins == Kernel!Ins
           Case(op, form, binary, icmp, cast, gep, load, s2r, call) ==
             CASE op = "binary" -> binary
               [] op = "icmp"   -> icmp
               [] op = "cast"   -> cast
               [] op = "gep"    -> gep
               [] op = "load" \/ form = "ldr" -> load
               [] form = "s2r"  -> s2r
               [] op = "call"   -> call
           cast == Kernel!InBits(IF ins.form = "zext" THEN Kernel!X % 2^ins.attr[1] ELSE Kernel!X, ins.bits)
           gep == WordOf(Kernel!X + Kernel!MapThenSumSet(
                           LAMBDA k : Kernel!ValueOf(ins.ops[k + 1]) * ins.attr[k], DOMAIN ins.attr))
<1>1. Kernel!Outcome
        = Case(ins.op, ins.form,
               Kernel!InBits(Kernel!Arithmetic(ins.form, Kernel!X, Kernel!Y), ins.bits),
               IF Kernel!Holds(ins.form, Kernel!X, Kernel!Y) THEN 1 ELSE 0, cast, gep,
               Kernel!LoadedFrom(mem, Kernel!X, ins.bits), SysReg[ins.attr[1]], Kernel!CallResult(ins.form))
  BY Zenon DEF Kernel!Outcome, Kernel!WordOf, WordOf, Kernel!InBits, InBits
<1>2. \A op, form, b, i, c, g, l, s, r :
        LET value == Case(op, form, b, i, c, g, l, s, r)
        IN  /\ op = "binary" /\ form \notin {"ldr", "s2r"} => value = b
            /\ op = "icmp" /\ form \notin {"ldr", "s2r"} => value = i
            /\ op = "cast" /\ form \notin {"ldr", "s2r"} => value = c
            /\ op = "gep" /\ form \notin {"ldr", "s2r"} => value = g
            /\ (op = "load" /\ form # "s2r") \/ (op = "asm" /\ form = "ldr") => value = l
            /\ op = "asm" /\ form = "s2r" => value = s
            /\ op = "call" /\ form \notin {"ldr", "s2r"} => value = r
  OBVIOUS
<1>3. ins.form = "bitcast" => cast = Kernel!InBits(Kernel!X, ins.bits)
  BY Zenon
<1>4. PICK b, i, l, s, r :
        /\ b = Kernel!InBits(Kernel!Arithmetic(ins.form, Kernel!X, Kernel!Y), ins.bits)
        /\ i = IF Kernel!Holds(ins.form, Kernel!X, Kernel!Y) THEN 1 ELSE 0
        /\ l = Kernel!LoadedFrom(mem, Kernel!X, ins.bits)
        /\ s = SysReg[ins.attr[1]]
        /\ r = Kernel!CallResult(ins.form)
  BY Zenon
<1> HIDE DEF cast, gep, Case
<1>5. Kernel!Outcome = Case(ins.op, ins.form, b, i, cast, gep, l, s, r)
  BY <1>1, <1>4, Zenon
<1>6. LET value == Kernel!Outcome
          op == ins.op
          form == ins.form
      IN  /\ op = "binary" /\ form \notin {"ldr", "s2r"} => value = b
          /\ op = "icmp" /\ form \notin {"ldr", "s2r"} => value = i
          /\ op = "cast" /\ form = "bitcast" => value = cast
          /\ op = "gep" /\ form \notin {"ldr", "s2r"} => value = gep
          /\ (op = "load" /\ form # "s2r") \/ (op = "asm" /\ form = "ldr") => value = l
          /\ op = "asm" /\ form = "s2r" => value = s
          /\ op = "call" /\ form \notin {"ldr", "s2r"} => value = r
  BY <1>2, <1>5
<1> QED
  BY <1>3, <1>4, <1>6, Zenon DEF gep

\* The offset of an address.
LEMMA OffsetOfOne ==
  ASSUME DOMAIN Kernel!Ins.attr = {1}, Kernel!Ins.op = "gep", Kernel!Ins.form \notin {"ldr", "s2r"},
         Kernel!ValueOf(Kernel!Ins.ops[2]) * Kernel!Ins.attr[1] \in Int
  PROVE  Kernel!Outcome = WordOf(Kernel!ValueOf(Kernel!Ins.ops[1])
                                   + Kernel!ValueOf(Kernel!Ins.ops[2]) * Kernel!Ins.attr[1])
<1> DEFINE ins == Kernel!Ins
           f(k) == Kernel!ValueOf(ins.ops[k + 1]) * ins.attr[k]
           A(g, s) == IF s = {} THEN 0
                      ELSE f(CHOOSE x \in s : TRUE) + g[s \ {CHOOSE x \in s : TRUE}]
           Is(g, T) == g = [s \in SUBSET T |-> A(g, s)]
           h == [k \in {1} |-> f(k)]
           B(g, s) == IF s = {} THEN 0
                      ELSE h[CHOOSE x \in s : TRUE] + g[s \ {CHOOSE x \in s : TRUE}]
           Sums(g) == g = [s \in SUBSET {1} |-> B(g, s)]
<1>1. Kernel!Outcome = WordOf(Kernel!ValueOf(ins.ops[1]) + (CHOOSE g : Is(g, DOMAIN ins.attr))[DOMAIN ins.attr])
  <2>1. Kernel!Outcome = WordOf(Kernel!X + Kernel!MapThenSumSet(
                           LAMBDA k : Kernel!ValueOf(ins.ops[k + 1]) * ins.attr[k], DOMAIN ins.attr))
    BY OutcomeIs, Zenon
  <2> QED
    BY <2>1, Zenon DEF Kernel!X, Kernel!MapThenSumSet, Kernel!MapThenFoldSet
<1>2. \A g : Is(g, {1}) <=> Sums(g)
  <2>1. ASSUME NEW g, NEW s \in SUBSET {1} PROVE A(g, s) = B(g, s)
    <3>1. CASE s # {}
      <4>1. (CHOOSE x \in s : TRUE) \in {1}
        BY <3>1
      <4>2. \A x \in {1} : f(x) = h[x]
        BY Zenon
      <4>3. PICK y : y = (CHOOSE x \in s : TRUE)
        OBVIOUS
      <4>4. f(y) = h[y]
        BY <4>1, <4>2, <4>3
      <4> HIDE DEF f, h
      <4> QED
        BY <3>1, <4>3, <4>4
    <3> QED
      BY <3>1
  <2> HIDE DEF A, B
  <2> QED
    BY <2>1
<1>3. (CHOOSE g : Is(g, {1})) = (CHOOSE g : Sums(g))
  <2> HIDE DEF Is, Sums
  <2> QED
    BY <1>2
<1>4. h[1] = f(1) /\ f(1) = Kernel!ValueOf(ins.ops[2]) * ins.attr[1]
  <2>1. 1 + 1 = 2
    OBVIOUS
  <2>2. f(1) = Kernel!ValueOf(ins.ops[2]) * ins.attr[1]
    BY <2>1, Zenon
  <2>3. h[1] = f(1)
    BY Zenon
  <2> QED
    BY <2>2, <2>3
<1>5. (CHOOSE g : Sums(g))[{1}] = h[1]
  <2> HIDE DEF h
  <2> QED
    BY <1>4, SumOfOne
<1> QED
  <2> HIDE DEF Is, Sums, A, B, f, h
  <2> QED
    BY <1>1, <1>3, <1>4, <1>5
-----------------------------------------------------------------------------
(* The lane and the kernel, side by side.                                  *)

\* The register of v has the value that v has in the kernel.
InRegister(v) ==
  /\ v \in DOMAIN valueToVReg /\ valueToVReg[v] \in DOMAIN regs
  /\ regs[valueToVReg[v]] = Kernel!ValueOf(v)

Typed ==
  /\ args \in [1..kernel.params -> Words]
  /\ \A r \in DOMAIN regs : regs[r] \in Words
  /\ DOMAIN mem \subseteq Int /\ \A a \in DOMAIN mem : mem[a] \in Int
  /\ \A v \in DOMAIN env : env[v] \in Int

\* A register of a constant has it as soon as it has anything.
ConstantsHold ==
  \A v \in DOMAIN valueToVReg :
    IsFilling(v) /\ valueToVReg[v] \in DOMAIN regs => regs[valueToVReg[v]] = v[2]

\* The values of the kernel are in their registers, but for predicates, which
\* have none.
NamesHold ==
  \A v \in DOMAIN env : \E c \in Blocks : \E j \in DOMAIN CodeOf(c) :
    /\ v = Result(c, j) /\ Kernel!Computes(CodeOf(c)[j])
    /\ CodeOf(c)[j].op # "icmp" => InRegister(v)

ArgumentsHold == \A k \in 0..(kernel.params - 1) : InRegister(Arg(k))

\* The kernel has the value of instruction j of block c, and what it compares.
Known(c, j) ==
  /\ Kernel!Computes(CodeOf(c)[j]) => Result(c, j) \in DOMAIN env
  /\ CodeOf(c)[j].op = "icmp" => \A v \in Range(CodeOf(c)[j].ops) : IsResult(v) => v \in DOMAIN env

Decided(ins) ==
  IF Kernel!Holds(ins.form, Kernel!ValueOf(ins.ops[1]), Kernel!ValueOf(ins.ops[2])) THEN 1 ELSE 0

\* What a predicate says of its operands is still so.
PredicateHolds(c, j) ==
  \A ins : ins = CodeOf(c)[j] /\ ins.op = "icmp" => env[Result(c, j)] = Decided(ins)

Passed(b, i) ==
  \A c \in Blocks : \A j \in DOMAIN CodeOf(c) :
    Precedes(kernel.blocks, c, j, b, i) => Known(c, j) /\ PredicateHolds(c, j)

\* There is a path to b.
Reachable(b) ==
  \A S \in SUBSET Blocks : 1 \in S /\ (\A c \in S : Successors(kernel.blocks, c) \subseteq S) => b \in S

\* A group writes no register twice and none that it has read, so that what it
\* has written is what it would write now.
GroupHolds ==
  \A d \in 1..done : \A mi :
    mi = Group[d] /\ Writes(mi) => mi.rd \in DOMAIN regs /\ regs[mi.rd] = ValueWritten(mi)

\* The comparison before a branch, and the jump that was not taken.
Tested(b, i) ==
  \A ins, c : ins = CodeOf(b)[i] /\ ins.op = "br" /\ ins.ops # <<>> /\ c = InstructionOf(ins.ops[1]) =>
    /\ done > Len(Group) - 3 =>
         nzp = Sign(WordOf(Kernel!ValueOf(c.ops[1]) - Kernel!ValueOf(c.ops[2])))
    /\ done > Len(Group) - 2 => nzp \notin LettersOf(BranchCond(c.form))

\* Before the entry block the arguments are loaded, one after the other.
PrologueHolds ==
  /\ env = EmptyMap /\ mem = Kernel!ArgumentMemory
  /\ \A k \in 0..(kernel.params - 1) :
       /\ done = 2 * k + 1 => /\ prologue[done].rd \in DOMAIN regs
                              /\ regs[prologue[done].rd] = 8 * k
       /\ done >= 2 * k + 2 => InRegister(Arg(k))

Values == Typed /\ ConstantsHold /\ NamesHold

Inside(b, i) == ArgumentsHold /\ Reachable(b) /\ Passed(b, i) /\ GroupHolds /\ Tested(b, i)

Faithful ==
  /\ Values
  /\ at = NotStarted => PrologueHolds
  /\ \A b \in Blocks : \A i \in DOMAIN CodeOf(b) : at = <<b, i>> => Inside(b, i)

Simulates ==
  /\ args \in kernel.inputs
  /\ ~Finished => regs = EmptyMap /\ env = EmptyMap /\ mem = Kernel!ArgumentMemory
  /\ Supported /\ Finished => Faithful

-----------------------------------------------------------------------------
(* What the lane reads.                                                    *)

\* A value the kernel has is in its register, unless it is a predicate.
LEMMA NamedInRegister ==
  ASSUME NamesHold, NEW v \in DOMAIN env, NEW c \in Blocks, NEW j \in DOMAIN CodeOf(c),
         v = Result(c, j), CodeOf(c)[j].op # "icmp"
  PROVE  InRegister(v)
<1>1. PICK d \in Blocks : \E k \in DOMAIN CodeOf(d) :
        v = Result(d, k) /\ (CodeOf(d)[k].op # "icmp" => InRegister(v))
  BY Zenon DEF NamesHold
<1>2. PICK k \in DOMAIN CodeOf(d) : v = Result(d, k) /\ (CodeOf(d)[k].op # "icmp" => InRegister(v))
  BY <1>1
<1>3. c = d /\ j = k
  BY <1>2 DEF Result
<1> QED
  BY <1>2, <1>3

\* A value an instruction names has been computed.
LEMMA OperandKnown ==
  ASSUME Selected, NEW b \in Blocks, NEW i \in DOMAIN CodeOf(b), Passed(b, i),
         NEW v \in Range(CodeOf(b)[i].ops), IsResult(v), v \in Operands
  PROVE  v \in DOMAIN env /\ v[2] \in Blocks /\ v[3] \in DOMAIN CodeOf(v[2]) /\ v = Result(v[2], v[3])
         /\ Precedes(kernel.blocks, v[2], v[3], b, i)
<1>1. kernel \in Kernels /\ Supported
  BY DEF Selected, Shape, InCode
<1>2. Defined(kernel, b, i, v) /\ IsSupported(CodeOf(b)[i])
  BY <1>1, InstructionIsVerified, SupportedInstruction
<1>3. /\ v[2] \in Blocks /\ v[3] \in DOMAIN CodeOf(v[2])
      /\ Yields(CodeOf(v[2])[v[3]])
      /\ Precedes(kernel.blocks, v[2], v[3], b, i)
  BY <1>2 DEF Defined, Blocks, CodeOf, IsSupported, IsDropped
<1>4. IsSupported(CodeOf(v[2])[v[3]])
  BY <1>1, <1>3, SupportedInstruction
<1>5. Kernel!Computes(CodeOf(v[2])[v[3]])
  BY <1>3, <1>4 DEF Yields, IsSupported, IsDropped
<1>6. v = Result(v[2], v[3])
  BY OperandsAre
<1>7. Known(v[2], v[3])
  BY <1>3 DEF Passed
<1> QED
  BY <1>3, <1>5, <1>6, <1>7 DEF Known

\* A needed value that is no constant is in its register.
LEMMA NeededHolds ==
  ASSUME Selected, NamesHold, ArgumentsHold,
         NEW b \in Blocks, NEW i \in DOMAIN CodeOf(b), Passed(b, i),
         NEW v \in Needed(CodeOf(b)[i]), ~IsConst(v)
  PROVE  InRegister(v) /\ (IsResult(v) => v \in DOMAIN env)
<1>1. kernel \in Kernels /\ Supported
  BY DEF Selected, Shape, InCode
<1>2. v \in Operands /\ v[1] \in {"const", "arg", "ins"}
  BY <1>1, NeededAre
<1>3. CASE v[1] = "arg"
  <2>1. v[2] \in 0..(kernel.params - 1) /\ v = Arg(v[2])
    BY <1>1, <1>2, <1>3, NeededAre, OperandsAre
  <2>2. ~IsResult(v)
    BY <1>3 DEF IsResult
  <2> QED
    BY <2>1, <2>2 DEF ArgumentsHold
<1>4. CASE IsResult(v)
  <2>1. v[2] \in Blocks /\ v[3] \in DOMAIN CodeOf(v[2]) /\ CodeOf(v[2])[v[3]].op # "icmp"
    BY <1>1, <1>4, NeededAre
  <2>2. v = Result(v[2], v[3])
    BY <1>2, <1>4, OperandsAre
  <2>3. PICK c \in Blocks : \E j \in DOMAIN CodeOf(c) :
          /\ v \in Range(CodeOf(c)[j].ops) /\ CodeOf(c)[j].op # "br"
          /\ \/ c = b /\ j = i
             \/ /\ CodeOf(b)[i].op = "br" /\ CodeOf(c)[j].op = "icmp"
                /\ Precedes(kernel.blocks, c, j, b, i)
    BY <1>1, NeededBy
  <2>4. PICK j \in DOMAIN CodeOf(c) :
          /\ v \in Range(CodeOf(c)[j].ops)
          /\ \/ c = b /\ j = i
             \/ CodeOf(c)[j].op = "icmp" /\ Precedes(kernel.blocks, c, j, b, i)
    BY <2>3
  <2>5. v \in DOMAIN env
    <3>1. CASE c = b /\ j = i
      BY <1>2, <1>4, <2>4, <3>1, OperandKnown
    <3>2. CASE CodeOf(c)[j].op = "icmp" /\ Precedes(kernel.blocks, c, j, b, i)
      BY <1>4, <2>4, <3>2 DEF Passed, Known
    <3> QED
      BY <2>4, <3>1, <3>2
  <2> QED
    BY <2>1, <2>2, <2>5, NamedInRegister
<1> QED
  BY <1>2, <1>3, <1>4 DEF IsConst, IsResult

\* The value of an operand, when its register is filled.
LEMMA ReadsValue ==
  ASSUME LaneShape, Selected, Values, ArgumentsHold,
         NEW b \in Blocks, NEW i \in DOMAIN CodeOf(b), Passed(b, i),
         NEW v \in Needed(CodeOf(b)[i]), NEW r, IsNumberOf(valueToVReg, v, r), Filled(r)
  PROVE  Read(r) = Kernel!ValueOf(v) /\ Kernel!ValueOf(v) \in Words
<1>1. kernel \in Kernels /\ Supported /\ Numbered
  BY DEF Selected, Shape, InCode
<1>2. /\ v \in Operands /\ v[1] \in {"const", "arg", "ins"}
      /\ IsConst(v) => v[2] \in Int
  BY <1>1, NeededAre
<1>3. CASE v = Zero
  <2>1. IsConst(v) /\ v[2] = 0
    BY <1>3 DEF Zero, IsConst, Const
  <2>2. r = VREG_ZERO
    BY <1>3 DEF IsNumberOf
  <2> QED
    BY <2>1, <2>2, ValueIs, ZeroIsWord DEF Read
<1>4. CASE v # Zero
  <2>1. v \in DOMAIN valueToVReg /\ r = valueToVReg[v]
    BY <1>4 DEF IsNumberOf
  <2>2. r # VREG_ZERO
    BY <1>1, <2>1 DEF Numbered, VREG_ZERO
  <2>3. Read(r) = regs[r] /\ r \in DOMAIN regs /\ regs[r] \in Words
    BY <2>2 DEF Read, Filled, Values, Typed
  <2>4. CASE IsConst(v)
    BY <1>2, <1>4, <2>1, <2>3, <2>4, ValueIs DEF Values, ConstantsHold, IsFilling
  <2>5. CASE ~IsConst(v)
    <3>1. InRegister(v)
      BY <2>5, NeededHolds DEF Values
    <3> QED
      BY <2>1, <2>3, <3>1 DEF InRegister
  <2> QED
    BY <2>4, <2>5
<1> QED
  BY <1>3, <1>4

\* What an instruction puts into its register.
LEMMA WrittenBy ==
  ASSUME NEW op, NEW d, NEW x, NEW y, NEW n, NEW mi, mi = Instruction(op, d, x, y, n)
  PROVE  /\ op = "ADDI" /\ Fits(n) => ValueWritten(mi) = WordOf(Read(x) + n)
         /\ op = "ADD" => ValueWritten(mi) = WordOf(Read(x) + Read(y))
         /\ op = "SUB" => ValueWritten(mi) = WordOf(Read(x) - Read(y))
         /\ op = "MUL" => ValueWritten(mi) = WordOf(Read(x) * Read(y))
         /\ op = "LDR" => ValueWritten(mi) = Kernel!LoadedFrom(mem, Read(x), LANE_WIDTH_BITS)
         /\ op = "S2R" => ValueWritten(mi) = SysReg[n]
<1>1. mi.op = op /\ mi.rs1 = x /\ mi.rs2 = y /\ mi.imm = n
  BY InstructionFields
<1>2. op = "ADDI" /\ Fits(n) => Immediate(mi) = n
  BY <1>1, ImmediateIs
<1>3. op = "ADDI" => ValueWritten(mi) = WordOf(Read(x) + Immediate(mi))
  BY <1>1 DEF ValueWritten, Sum
<1>4. /\ op = "ADD" => ValueWritten(mi) = WordOf(Read(x) + Read(y))
      /\ op = "SUB" => ValueWritten(mi) = WordOf(Read(x) - Read(y))
      /\ op = "MUL" => ValueWritten(mi) = WordOf(Read(x) * Read(y))
      /\ op = "LDR" => ValueWritten(mi) = Kernel!LoadedFrom(mem, Read(x), LANE_WIDTH_BITS)
      /\ op = "S2R" => ValueWritten(mi) = SysReg[n]
  BY <1>1 DEF ValueWritten, Sum
<1> QED
  BY <1>2, <1>3, <1>4

\* The last instruction of a group is next, and everything it needs is there.
EndsWell(g, ins, self) ==
  /\ Len(g) \in Nat \ {0} /\ Kernel!Ins = ins
  /\ Means(valueToVReg, g, ins, self) /\ IsSupported(ins) /\ InItsClass(ins)
  /\ \A r \in RegistersRead(g[Len(g)]) : Filled(r)
  /\ \A d \in 1..(Len(g) - 1) : Writes(g[d]) => Filled(g[d].rd) /\ Read(g[d].rd) = ValueWritten(g[d])
  /\ \A v \in Needed(ins) : \A r :
       IsNumberOf(valueToVReg, v, r) =>
         /\ ~IsConst(v) => Filled(r)
         /\ Filled(r) => Read(r) = Kernel!ValueOf(v) /\ Kernel!ValueOf(v) \in Words

\* A last instruction that adds a number to one operand.
LEMMA EndsInMove ==
  ASSUME NEW g, NEW ins, NEW self, EndsWell(g, ins, self), NEW v \in Needed(ins),
         NEW d, NEW x, NEW n, Fits(n), IsNumberOf(valueToVReg, v, x),
         g[Len(g)] = Instruction("ADDI", d, x, 0, n)
  PROVE  ValueWritten(g[Len(g)]) = WordOf(Kernel!ValueOf(v) + n) /\ Kernel!ValueOf(v) \in Words
<1>1. ValueWritten(g[Len(g)]) = WordOf(Read(x) + n)
  BY WrittenBy
<1>2. x \in RegistersRead(g[Len(g)])
  BY ReadsOf
<1>3. Filled(x)
  BY <1>2 DEF EndsWell
<1> QED
  BY <1>1, <1>3 DEF EndsWell

\* A last instruction on two operands.
LEMMA EndsInTwo ==
  ASSUME NEW g, NEW ins, NEW self, EndsWell(g, ins, self),
         NEW v \in Needed(ins), NEW w \in Needed(ins),
         NEW op \in ThreeRegister, NEW d, NEW x, NEW y,
         IsNumberOf(valueToVReg, v, x), IsNumberOf(valueToVReg, w, y),
         g[Len(g)] = Instruction(op, d, x, y, 0)
  PROVE  /\ op = "ADD" => ValueWritten(g[Len(g)]) = WordOf(Kernel!ValueOf(v) + Kernel!ValueOf(w))
         /\ op = "SUB" => ValueWritten(g[Len(g)]) = WordOf(Kernel!ValueOf(v) - Kernel!ValueOf(w))
         /\ op = "MUL" => ValueWritten(g[Len(g)]) = WordOf(Kernel!ValueOf(v) * Kernel!ValueOf(w))
         /\ Kernel!ValueOf(v) \in Words /\ Kernel!ValueOf(w) \in Words
<1>1. /\ op = "ADD" => ValueWritten(g[Len(g)]) = WordOf(Read(x) + Read(y))
      /\ op = "SUB" => ValueWritten(g[Len(g)]) = WordOf(Read(x) - Read(y))
      /\ op = "MUL" => ValueWritten(g[Len(g)]) = WordOf(Read(x) * Read(y))
  BY WrittenBy
<1>2. x \in RegistersRead(g[Len(g)]) /\ y \in RegistersRead(g[Len(g)])
  BY ReadsOf DEF ThreeRegister
<1>3. Filled(x) /\ Filled(y)
  BY <1>2 DEF EndsWell
<1>4. Read(x) = Kernel!ValueOf(v) /\ Read(y) = Kernel!ValueOf(w)
      /\ Kernel!ValueOf(v) \in Words /\ Kernel!ValueOf(w) \in Words
  BY <1>3 DEF EndsWell
<1> QED
  BY <1>1, <1>4

\* ADDI from R0 writes its immediate.
LEMMA FillWrites ==
  ASSUME NEW mi, NEW r, NEW n, mi = Fill(r, n), Fits(n) PROVE ValueWritten(mi) = n
<1>1. ValueWritten(mi) = WordOf(Read(VREG_ZERO) + n)
  BY WrittenBy DEF Fill
<1>2. Read(VREG_ZERO) = 0 /\ n \in Int /\ n \in Words
  BY FittingBounds DEF Read
<1>3. WordOf(n) = n
  BY <1>2, WordsAre
<1> QED
  BY <1>1, <1>2, <1>3

\* A filling that has been executed.
LEMMA FillingDone ==
  ASSUME NEW g, NEW ins, NEW self, EndsWell(g, ins, self), NEW e \in 1..(Len(g) - 1),
         NEW t, NEW n, Fits(n), g[e] = Fill(t, n)
  PROVE  Filled(t) /\ Read(t) = n
<1>1. Writes(g[e]) /\ g[e].rd = t
  BY FillFields
<1>2. Filled(t) /\ Read(t) = ValueWritten(g[e])
  BY <1>1 DEF EndsWell
<1>3. ValueWritten(g[e]) = n
  BY FillWrites
<1> QED
  BY <1>2, <1>3

\* What the kernel means by arithmetic.
LEMMA BinaryOutcome ==
  ASSUME Kernel!Ins.op = "binary", Kernel!Ins.form \in {"add", "sub", "mul", "shl"},
         Kernel!Ins.bits = LANE_WIDTH_BITS
  PROVE  Kernel!Outcome = WordOf(Kernel!Arithmetic(Kernel!Ins.form, Kernel!ValueOf(Kernel!Ins.ops[1]),
                                                   Kernel!ValueOf(Kernel!Ins.ops[2])))
<1>1. Kernel!Ins.form \notin {"ldr", "s2r"}
  OBVIOUS
<1>2. Kernel!Outcome = Kernel!InBits(Kernel!Arithmetic(Kernel!Ins.form, Kernel!X, Kernel!Y), LANE_WIDTH_BITS)
  BY <1>1, OutcomeIs
<1> QED
  BY <1>2, KernelWords, Zenon DEF Kernel!X, Kernel!Y

\* A constant of a supported instruction fits an immediate.
LEMMA ConstantOperand ==
  ASSUME NEW ins, IsSupported(ins), NEW v \in Range(ins.ops), IsConst(v)
  PROVE  Fits(v[2]) /\ Kernel!ValueOf(v) = v[2]
<1>1. v[2] \in Numbers(ins)
  BY DEF Numbers
<1> QED
  BY <1>1, ValueIs DEF IsSupported

\* A shift by more than one place is a product.
LEMMA ShiftValue ==
  ASSUME NEW g, NEW ins, NEW self, EndsWell(g, ins, self), ins.op = "binary", Shifts(ins),
         ins.ops[1] \in Needed(ins), NEW p, p = 2^(ins.ops[2][2]),
         NEW d, NEW x, IsNumberOf(valueToVReg, ins.ops[1], x),
         NEW e \in 1..(Len(g) - 1), NEW t, g[e] = Fill(t, p),
         g[Len(g)] = Instruction("MUL", d, x, t, 0)
  PROVE  ValueWritten(g[Len(g)]) = WordOf(Kernel!ValueOf(ins.ops[1]) * p)
<1>1. p \in Numbers(ins)
  BY Zenon DEF Numbers, Shifts
<1>2. Fits(p)
  BY <1>1 DEF EndsWell, IsSupported
<1>3. Filled(t) /\ Read(t) = p
  BY <1>2, FillingDone
<1>4. ValueWritten(g[Len(g)]) = WordOf(Read(x) * Read(t))
  BY WrittenBy
<1>5. x \in RegistersRead(g[Len(g)])
  BY ReadsOf
<1>6. Read(x) = Kernel!ValueOf(ins.ops[1])
  BY <1>5 DEF EndsWell
<1> QED
  BY <1>3, <1>4, <1>6

\* ADDI stands for an addition of a constant only.
LEMMA ShortAdds ==
  ASSUME NEW ins, AddsShort(ins) PROVE IsConst(ins.ops[2]) /\ ins.form = "add"
<1>1. ins.form = "add" /\ IsShort(ins.ops[2])
  BY DEF AddsShort
<1> DEFINE v == ins.ops[2]
<1>2. IsShort(v)
  BY <1>1
<1> HIDE DEF v
<1>3. IsConst(v)
  BY <1>2 DEF IsShort
<1> QED
  BY <1>1, <1>3 DEF v

\* The case of Instruction::Add, Sub, Mul and Shl.
LEMMA BinaryValue ==
  ASSUME NEW g, NEW ins, NEW self, EndsWell(g, ins, self), ins.op = "binary",
         ins.ops[1] \in Range(ins.ops), ins.ops[2] \in Range(ins.ops),
         Needed(ins) = IF AddsShort(ins) \/ Shifts(ins) THEN {ins.ops[1]} ELSE {ins.ops[1], ins.ops[2]}
  PROVE  ValueWritten(g[Len(g)]) = Kernel!Outcome
<1> DEFINE n == ins.ops[2][2]
           X == Kernel!ValueOf(ins.ops[1])
           Y == Kernel!ValueOf(ins.ops[2])
<1>1. /\ Kernel!Ins = ins /\ IsSupported(ins) /\ ins.form \in {"add", "sub", "mul", "shl"}
      /\ ins.form = "shl" => IsConst(ins.ops[2])
      /\ ins.bits = LANE_WIDTH_BITS
  BY DEF EndsWell, IsSupported, HasWidth
<1>2. Kernel!Outcome = WordOf(Kernel!Arithmetic(ins.form, X, Y))
  BY <1>1, BinaryOutcome
<1>3. ins.ops[1] \in Needed(ins) /\ (~AddsShort(ins) /\ ~Shifts(ins) => ins.ops[2] \in Needed(ins))
  OBVIOUS
<1>4. MeansBinary(valueToVReg, g, ins, self)
  BY DEF EndsWell, Means
<1>5. IsConst(ins.ops[2]) => Fits(n) /\ Y = n
  BY <1>1, ConstantOperand
<1>6. PICK d, x :
        /\ IsNumberOf(valueToVReg, ins.ops[1], x)
        /\ \/ AddsShort(ins) /\ g[Len(g)] = Instruction("ADDI", d, x, 0, n)
           \/ Shifts(ins) /\ n = 0 /\ g[Len(g)] = Instruction("ADDI", d, x, 0, 0)
           \/ Shifts(ins) /\ n = 1 /\ g[Len(g)] = Instruction("ADD", d, x, x, 0)
           \/ /\ Shifts(ins) /\ n > 1
              /\ \E e \in 1..(Len(g) - 1) : \E t :
                   g[e] = Fill(t, 2^n) /\ g[Len(g)] = Instruction("MUL", d, x, t, 0)
           \/ /\ ~AddsShort(ins) /\ ~Shifts(ins)
              /\ \E y : /\ IsNumberOf(valueToVReg, ins.ops[2], y)
                        /\ g[Len(g)] = Instruction(RegisterForm(ins.form), d, x, y, 0)
  BY <1>4, Zenon DEF MeansBinary
<1>7. Shifts(ins) => Kernel!Outcome = WordOf(X * 2^n)
  BY <1>2, <1>5, Zenon DEF Shifts, Kernel!Arithmetic
<1> DEFINE p == 2^n
<1>8. n = 0 => p = 1
  BY SMT
<1>9. n = 1 => p = 2
  BY SMT
<1>10. PICK q : q = p
  OBVIOUS
<1>11. /\ Shifts(ins) => Kernel!Outcome = WordOf(X * q)
       /\ n = 0 => q = 1
       /\ n = 1 => q = 2
  BY <1>7, <1>8, <1>9, <1>10
<1>12. \/ AddsShort(ins) /\ g[Len(g)] = Instruction("ADDI", d, x, 0, n)
       \/ Shifts(ins) /\ n = 0 /\ g[Len(g)] = Instruction("ADDI", d, x, 0, 0)
       \/ Shifts(ins) /\ n = 1 /\ g[Len(g)] = Instruction("ADD", d, x, x, 0)
       \/ /\ Shifts(ins)
          /\ \E e \in 1..(Len(g) - 1) : \E t :
               g[e] = Fill(t, q) /\ g[Len(g)] = Instruction("MUL", d, x, t, 0)
       \/ /\ ~AddsShort(ins) /\ ~Shifts(ins)
          /\ \E y : /\ IsNumberOf(valueToVReg, ins.ops[2], y)
                    /\ g[Len(g)] = Instruction(RegisterForm(ins.form), d, x, y, 0)
  BY <1>6, <1>10, Zenon
<1>13. IsNumberOf(valueToVReg, ins.ops[1], x)
  BY <1>6
<1>14. q = 2^(ins.ops[2][2])
  BY <1>10
<1>15. ASSUME Shifts(ins), NEW e \in 1..(Len(g) - 1), NEW t,
              g[e] = Fill(t, q), g[Len(g)] = Instruction("MUL", d, x, t, 0)
       PROVE  ValueWritten(g[Len(g)]) = WordOf(X * q)
  BY <1>3, <1>13, <1>14, <1>15, ShiftValue
<1> HIDE DEF p, n
<1>16. CASE AddsShort(ins) /\ g[Len(g)] = Instruction("ADDI", d, x, 0, n)
  <2>1. IsConst(ins.ops[2]) /\ ins.form = "add"
    BY <1>16, ShortAdds
  <2>2. ValueWritten(g[Len(g)]) = WordOf(X + n)
    BY <1>3, <1>5, <1>13, <1>16, <2>1, EndsInMove
  <2> QED
    BY <1>2, <1>5, <2>1, <2>2 DEF Kernel!Arithmetic
<1>17. CASE Shifts(ins) /\ n = 0 /\ g[Len(g)] = Instruction("ADDI", d, x, 0, 0)
  <2>1. Fits(0)
    BY DEF Fits
  <2>2. ValueWritten(g[Len(g)]) = WordOf(X + 0) /\ X \in Words
    BY <1>3, <1>13, <1>17, <2>1, EndsInMove
  <2>3. X + 0 = X * q
    BY <1>11, <1>17, <2>2, WordsAre
  <2> QED
    BY <1>11, <1>17, <2>2, <2>3
<1>18. CASE Shifts(ins) /\ n = 1 /\ g[Len(g)] = Instruction("ADD", d, x, x, 0)
  <2>1. "ADD" \in ThreeRegister
    BY DEF ThreeRegister
  <2>2. ValueWritten(g[Len(g)]) = WordOf(X + X) /\ X \in Words
    BY <1>3, <1>13, <1>18, <2>1, EndsInTwo
  <2>3. X + X = X * q
    BY <1>11, <1>18, <2>2, WordsAre
  <2> QED
    BY <1>11, <1>18, <2>2, <2>3
<1>19. CASE /\ ~AddsShort(ins) /\ ~Shifts(ins)
            /\ \E y : /\ IsNumberOf(valueToVReg, ins.ops[2], y)
                      /\ g[Len(g)] = Instruction(RegisterForm(ins.form), d, x, y, 0)
  <2>1. PICK y : /\ IsNumberOf(valueToVReg, ins.ops[2], y)
                 /\ g[Len(g)] = Instruction(RegisterForm(ins.form), d, x, y, 0)
    BY <1>19
  <2>2. ins.form \in {"add", "sub", "mul"}
    BY <1>1, <1>19 DEF Shifts
  <2> DEFINE op == RegisterForm(ins.form)
  <2>3. /\ op \in ThreeRegister
        /\ ins.form = "add" => op = "ADD" /\ Kernel!Outcome = WordOf(X + Y)
        /\ ins.form = "sub" => op = "SUB" /\ Kernel!Outcome = WordOf(X - Y)
        /\ ins.form = "mul" => op = "MUL" /\ Kernel!Outcome = WordOf(X * Y)
    BY <1>2, <2>2 DEF RegisterForm, ThreeRegister, Kernel!Arithmetic
  <2> HIDE DEF op
  <2>4. g[Len(g)] = Instruction(op, d, x, y, 0)
    BY <2>1 DEF op
  <2>5. ins.ops[1] \in Needed(ins) /\ ins.ops[2] \in Needed(ins) /\ op \in ThreeRegister
    BY <1>3, <1>19, <2>3
  <2>6. /\ op = "ADD" => ValueWritten(g[Len(g)]) = WordOf(X + Y)
        /\ op = "SUB" => ValueWritten(g[Len(g)]) = WordOf(X - Y)
        /\ op = "MUL" => ValueWritten(g[Len(g)]) = WordOf(X * Y)
    BY <1>13, <2>1, <2>4, <2>5, EndsInTwo
  <2> QED
    BY <2>2, <2>3, <2>6
<1>20. ValueWritten(g[Len(g)]) = WordOf(X * q) /\ Shifts(ins) => ValueWritten(g[Len(g)]) = Kernel!Outcome
  BY <1>11
<1> QED
  BY <1>12, <1>15, <1>16, <1>17, <1>18, <1>19, <1>20, Zenon

\* An address.
LEMMA AddressNumbers ==
  ASSUME NEW ins, IsSupported(ins), ins.op = "gep", InItsClass(ins), ins \in IRInstruction
  PROVE  /\ DOMAIN ins.attr = {1} /\ ins.attr[1] \in Int /\ Fits(ins.attr[1])
         /\ ins.form \notin {"ldr", "s2r"}
         /\ IsConst(ins.ops[2]) => Fits(ins.ops[2][2] * ins.attr[1])
<1>1. ins.attr \in Seq(Int) /\ Len(ins.attr) = 1
  BY DEF IsSupported, IRInstruction
<1>2. DOMAIN ins.attr = {1} /\ ins.attr[1] \in Int
  BY <1>1
<1> DEFINE n == ins.ops[2][2] * ins.attr[1]
<1>3. /\ ins.attr[1] \in Numbers(ins)
      /\ IsConst(ins.ops[2]) => n \in Numbers(ins)
  BY Zenon DEF Numbers
<1> HIDE DEF n
<1>4. Fits(ins.attr[1]) /\ (IsConst(ins.ops[2]) => Fits(n))
  BY <1>3 DEF IsSupported
<1>5. ins.form = ""
  BY DEF InItsClass
<1>6. ins.form \notin {"ldr", "s2r"}
  BY <1>5, Zenon
<1> QED
  BY <1>2, <1>4, <1>6 DEF n

\* An index multiplied by the size of what it counts.
LEMMA StrideValue ==
  ASSUME NEW g, NEW ins, NEW self, EndsWell(g, ins, self),
         NEW m, Fits(m), NEW v \in Needed(ins), NEW w \in Needed(ins), ~IsConst(w),
         NEW d, NEW x, NEW y, IsNumberOf(valueToVReg, v, x), IsNumberOf(valueToVReg, w, y),
         NEW e \in 1..(Len(g) - 2), NEW s, NEW t,
         g[e] = Fill(s, m),
         g[Len(g) - 1] = Instruction("MUL", t, y, s, 0),
         g[Len(g)] = Instruction("ADD", d, x, t, 0)
  PROVE  ValueWritten(g[Len(g)]) = WordOf(Kernel!ValueOf(v) + Kernel!ValueOf(w) * m)
<1>0. Len(g) \in Nat
  BY DEF EndsWell
<1>1. e \in 1..(Len(g) - 1) /\ Len(g) - 1 \in 1..(Len(g) - 1)
  BY <1>0
<1>2. Filled(s) /\ Read(s) = m
  BY <1>1, FillingDone
<1>3. Filled(y) /\ Read(y) = Kernel!ValueOf(w) /\ Kernel!ValueOf(w) \in Words
  BY DEF EndsWell
<1> DEFINE product == g[Len(g) - 1]
<1>4. Writes(product) /\ product.rd = t /\ ValueWritten(product) = WordOf(Read(y) * Read(s))
  <2>1. product = Instruction("MUL", t, y, s, 0)
    OBVIOUS
  <2> HIDE DEF product
  <2> QED
    BY <2>1, ReadsOf, InstructionFields, WrittenBy
<1>5. Read(t) = ValueWritten(product)
  BY <1>1, <1>4 DEF EndsWell
<1>6. x \in RegistersRead(g[Len(g)])
  BY ReadsOf
<1>7. Read(x) = Kernel!ValueOf(v) /\ Kernel!ValueOf(v) \in Words
  BY <1>6 DEF EndsWell
<1>8. ValueWritten(g[Len(g)]) = WordOf(Read(x) + Read(t))
  BY WrittenBy
<1>9. Kernel!ValueOf(v) \in Int /\ Kernel!ValueOf(w) \in Int /\ m \in Int
  BY <1>3, <1>7, WordsAre, FittingBounds
<1>10. PICK p \in Int : p = Kernel!ValueOf(w) * m
  BY <1>9
<1>11. WordOf(Kernel!ValueOf(v) + WordOf(p)) = WordOf(Kernel!ValueOf(v) + p)
  BY <1>9, WordOfSum
<1> QED
  BY <1>2, <1>3, <1>4, <1>5, <1>7, <1>8, <1>10, <1>11

\* The case of GetElementPtr.
LEMMA AddressValue ==
  ASSUME NEW g, NEW ins, NEW self, EndsWell(g, ins, self), ins.op = "gep", ins \in IRInstruction,
         Needed(ins) = IF IsConst(ins.ops[2]) THEN {ins.ops[1]} ELSE {ins.ops[1], ins.ops[2]},
         ins.ops[2] \in Range(ins.ops)
  PROVE  ValueWritten(g[Len(g)]) = Kernel!Outcome
<1> DEFINE v == ins.ops[1]
           w == ins.ops[2]
           m == ins.attr[1]
           n == w[2] * m
<1>1. /\ Kernel!Ins = ins /\ IsSupported(ins) /\ InItsClass(ins)
      /\ MeansAddress(valueToVReg, g, ins, self)
  BY DEF EndsWell, Means
<1>2. /\ DOMAIN ins.attr = {1} /\ m \in Int /\ Fits(m)
      /\ ins.form \notin {"ldr", "s2r"}
      /\ IsConst(w) => Fits(n)
  BY <1>1, AddressNumbers
<1>3. Kernel!ValueOf(w) * m \in Int => Kernel!Outcome = WordOf(Kernel!ValueOf(v) + Kernel!ValueOf(w) * m)
  BY <1>1, <1>2, OffsetOfOne
<1>4. IsConst(w) => Kernel!ValueOf(w) = w[2] /\ Fits(w[2])
  BY <1>1, ConstantOperand
<1>5. PICK d, x :
        /\ IsNumberOf(valueToVReg, v, x)
        /\ \/ IsConst(w) /\ g[Len(g)] = Instruction("ADDI", d, x, 0, n)
           \/ \E y : /\ ~IsConst(w) /\ IsNumberOf(valueToVReg, w, y)
                     /\ \/ m = 1 /\ g[Len(g)] = Instruction("ADD", d, x, y, 0)
                        \/ \E e \in 1..(Len(g) - 2) : \E s, t :
                             /\ g[e] = Fill(s, m)
                             /\ g[Len(g) - 1] = Instruction("MUL", t, y, s, 0)
                             /\ g[Len(g)] = Instruction("ADD", d, x, t, 0)
  BY <1>1, Zenon DEF MeansAddress
<1>6. v \in Needed(ins) /\ (~IsConst(w) => w \in Needed(ins))
  OBVIOUS
<1>7. CASE IsConst(w) /\ g[Len(g)] = Instruction("ADDI", d, x, 0, n)
  <2>1. PICK k : k = n
    OBVIOUS
  <2>2. Fits(k) /\ g[Len(g)] = Instruction("ADDI", d, x, 0, k)
    BY <1>2, <1>7, <2>1
  <2> HIDE DEF v, w, m, n
  <2>3. ValueWritten(g[Len(g)]) = WordOf(Kernel!ValueOf(v) + k)
    BY <1>5, <1>6, <2>2, EndsInMove
  <2>4. k \in Int
    BY <2>2, FittingNumbers
  <2>5. Kernel!ValueOf(w) * m = k
    BY <1>4, <1>7, <2>1 DEF n
  <2> QED
    BY <1>3, <2>3, <2>4, <2>5
<1>8. ASSUME NEW y, ~IsConst(w), IsNumberOf(valueToVReg, w, y), m = 1,
             g[Len(g)] = Instruction("ADD", d, x, y, 0)
      PROVE  ValueWritten(g[Len(g)]) = Kernel!Outcome
  <2> HIDE DEF v, w, m, n
  <2>1. "ADD" \in ThreeRegister
    BY DEF ThreeRegister
  <2>2. /\ ValueWritten(g[Len(g)]) = WordOf(Kernel!ValueOf(v) + Kernel!ValueOf(w))
        /\ Kernel!ValueOf(v) \in Words /\ Kernel!ValueOf(w) \in Words
    BY <1>5, <1>6, <1>8, <2>1, EndsInTwo
  <2>3. Kernel!ValueOf(w) \in Int /\ Kernel!ValueOf(w) * m = Kernel!ValueOf(w)
    BY <1>8, <2>2, WordsAre
  <2> QED
    BY <1>3, <2>2, <2>3
<1>9. ASSUME NEW y, ~IsConst(w), IsNumberOf(valueToVReg, w, y),
             NEW e \in 1..(Len(g) - 2), NEW s, NEW t,
             g[e] = Fill(s, m),
             g[Len(g) - 1] = Instruction("MUL", t, y, s, 0),
             g[Len(g)] = Instruction("ADD", d, x, t, 0)
      PROVE  ValueWritten(g[Len(g)]) = Kernel!Outcome
  <2> HIDE DEF v, w, m, n
  <2>1. ValueWritten(g[Len(g)]) = WordOf(Kernel!ValueOf(v) + Kernel!ValueOf(w) * m)
    BY <1>2, <1>5, <1>6, <1>9, StrideValue
  <2>2. Filled(y)
    BY <1>6, <1>9 DEF EndsWell
  <2>3. Kernel!ValueOf(w) \in Int
    BY <1>6, <1>9, <2>2, WordsAre DEF EndsWell
  <2> QED
    BY <1>2, <1>3, <2>1, <2>3
<1> HIDE DEF v, w, m, n
<1> QED
  BY <1>5, <1>7, <1>8, <1>9, Zenon

\* Loads, casts and calls.
LEMMA LoadValue ==
  ASSUME NEW g, NEW ins, NEW self, EndsWell(g, ins, self), IsLoad(ins), Needed(ins) = {ins.ops[1]}
  PROVE  ValueWritten(g[Len(g)]) = Kernel!Outcome
<1>1. PICK d, x : IsNumberOf(valueToVReg, ins.ops[1], x) /\ g[Len(g)] = Instruction("LDR", d, x, 0, 0)
  BY Zenon DEF EndsWell, Means
<1>2. ValueWritten(g[Len(g)]) = Kernel!LoadedFrom(mem, Read(x), LANE_WIDTH_BITS) /\ x \in RegistersRead(g[Len(g)])
  BY <1>1, WrittenBy, ReadsOf
<1>3. Read(x) = Kernel!ValueOf(ins.ops[1])
  BY <1>1, <1>2 DEF EndsWell
<1>4. /\ Kernel!Ins = ins /\ ins.form # "s2r"
      /\ ins.op = "load" \/ (ins.op = "asm" /\ ins.form = "ldr")
      /\ ins.bits = LANE_WIDTH_BITS
  <2>1. Kernel!Ins = ins /\ InItsClass(ins) /\ (ins.op = "load" \/ (ins.op = "asm" /\ ins.form = "ldr"))
    BY DEF EndsWell, IsLoad
  <2>2. ins.op = "load" => ins.form = ""
    BY <2>1 DEF InItsClass
  <2>3. ins.op = "load" => ins.bits = LANE_WIDTH_BITS
    BY DEF EndsWell, IsSupported, HasWidth
  <2>4. ins.op = "asm" /\ ins.form = "ldr" => ins.bits = LANE_WIDTH_BITS
    BY <2>1 DEF InItsClass, RegisterCalls, DimensionCalls
  <2> QED
    BY <2>1, <2>2, <2>3, <2>4, Zenon
<1>5. Kernel!Outcome = Kernel!LoadedFrom(mem, Kernel!ValueOf(ins.ops[1]), LANE_WIDTH_BITS)
  BY <1>4, OutcomeIs, Zenon DEF Kernel!X
<1> QED
  BY <1>2, <1>3, <1>5

\* The case of the casts, which move.
LEMMA CastValue ==
  ASSUME NEW g, NEW ins, NEW self, EndsWell(g, ins, self), ins.op = "cast", Needed(ins) = {ins.ops[1]}
  PROVE  ValueWritten(g[Len(g)]) = Kernel!Outcome
<1>1. PICK d, x : IsNumberOf(valueToVReg, ins.ops[1], x) /\ g[Len(g)] = Instruction("ADDI", d, x, 0, 0)
  BY Zenon DEF EndsWell, Means
<1>2. Fits(0)
  BY DEF Fits
<1>3. ValueWritten(g[Len(g)]) = WordOf(Kernel!ValueOf(ins.ops[1]) + 0) /\ Kernel!ValueOf(ins.ops[1]) \in Words
  BY <1>1, <1>2, EndsInMove
<1>4. Kernel!Ins = ins /\ ins.form = "bitcast" /\ ins.bits = LANE_WIDTH_BITS
  BY DEF EndsWell, IsSupported
<1>5. Kernel!Outcome = Kernel!InBits(Kernel!ValueOf(ins.ops[1]), LANE_WIDTH_BITS)
  BY <1>4, OutcomeIs, Zenon DEF Kernel!X
<1>6. Kernel!ValueOf(ins.ops[1]) + 0 = Kernel!ValueOf(ins.ops[1])
  BY <1>3, WordsAre
<1> QED
  BY <1>3, <1>5, <1>6, KernelWords

\* The dimension a call is asked for is a constant.
LEMMA DimensionValue ==
  ASSUME NEW ins, IsSupported(ins), InItsClass(ins), ins \in IRInstruction,
         ins.op = "call", ins.form \in DimensionCalls
  PROVE  Kernel!ValueOf(ins.ops[1]) = ins.ops[1][2]
<1>1. Len(ins.ops) = 1 /\ ins.ops \in Seq(Operands)
  <2>1. Len(ins.ops) = 1
    BY DEF InItsClass, DimensionCalls, RegisterCalls
  <2>2. ins.ops \in Seq(Operands)
    BY DEF IRInstruction
  <2> QED
    BY <2>1, <2>2
<1>2. ins.ops[1] \in Range(ins.ops)
  <2> HIDE DEF Operands
  <2> QED
    BY <1>1, RangeOfTwo
<1>3. IsConst(ins.ops[1])
  BY <1>2 DEF IsSupported
<1> QED
  BY <1>3, ValueIs

\* The cases of selectCall that read a system register.
LEMMA RegisterValue ==
  ASSUME NEW g, NEW ins, NEW self, EndsWell(g, ins, self), ins \in IRInstruction, ReadsRegister(ins)
  PROVE  ValueWritten(g[Len(g)]) = Kernel!Outcome
<1>1. /\ Kernel!Ins = ins /\ IsSupported(ins) /\ InItsClass(ins)
      /\ \E d : g[Len(g)] = Instruction("S2R", d, 0, 0, RegisterOf(ins))
  BY Zenon DEF EndsWell, Means
<1>2. PICK r : r = RegisterOf(ins)
  OBVIOUS
<1>3. ValueWritten(g[Len(g)]) = SysReg[r]
  <2>1. PICK d : g[Len(g)] = Instruction("S2R", d, 0, 0, r)
    BY <1>1, <1>2
  <2> QED
    BY <2>1, WrittenBy
<1>4. DOMAIN RegisterCalls = {"get_thread_id_x", "get_thread_id_y", "get_block_id_x", "get_block_id_y"}
  BY DEF RegisterCalls
<1>5. CASE ins.op = "asm"
  <2>1. ins.form = "s2r"
    BY <1>1, <1>4, <1>5 DEF ReadsRegister, RegisterReads, InItsClass
  <2>2. Kernel!Outcome = SysReg[ins.attr[1]]
    BY <1>1, <1>5, <2>1, OutcomeIs
  <2>3. r = ins.attr[1]
    BY <1>2, <2>1, <1>4 DEF RegisterOf
  <2> QED
    BY <1>3, <2>2, <2>3
<1>6. CASE ins.op = "call"
  <2>1. ins.form \in DOMAIN RegisterCalls \cup {"get_local_id", "get_group_id"}
    BY <1>1, <1>4, <1>6 DEF ReadsRegister, RegisterReads, InItsClass, DimensionCalls
  <2>2. Kernel!Outcome = Kernel!CallResult(ins.form)
    <3>1. ins.form \notin {"ldr", "s2r"}
      BY <1>4, <2>1
    <3> QED
      BY <1>1, <1>6, <3>1, OutcomeIs
  <2>3. CASE ins.form \in DOMAIN RegisterCalls
    <3>1. Kernel!CallResult(ins.form) = SysReg[RegisterCalls[ins.form]]
      BY <1>4, <2>3, KernelWords DEF Kernel!CallResult
    <3>2. r = RegisterCalls[ins.form]
      BY <1>2, <1>4, <2>3 DEF RegisterOf
    <3> QED
      BY <1>3, <2>2, <3>1, <3>2
  <2>4. CASE ins.form \in {"get_local_id", "get_group_id"}
    <3>1. Kernel!ValueOf(ins.ops[1]) = ins.ops[1][2]
      BY <1>1, <1>6, <2>4, DimensionValue DEF DimensionCalls
    <3>2. Kernel!X = ins.ops[1][2]
      BY <1>1, <3>1 DEF Kernel!X
    <3>3. CASE ins.form = "get_local_id"
      <4>1. Kernel!CallResult(ins.form) = SysReg[LocalIdRegister(ins.ops[1][2])]
        BY <1>4, <3>2, <3>3, KernelWords DEF Kernel!CallResult
      <4>2. r = LocalIdRegister(ins.ops[1][2])
        BY <1>2, <1>4, <3>3 DEF RegisterOf
      <4> QED
        BY <1>3, <2>2, <4>1, <4>2
    <3>4. CASE ins.form = "get_group_id"
      <4>1. Kernel!CallResult(ins.form) = SysReg[GroupIdRegister(ins.ops[1][2])]
        BY <1>4, <3>2, <3>4, KernelWords DEF Kernel!CallResult
      <4>2. r = GroupIdRegister(ins.ops[1][2])
        BY <1>2, <1>4, <3>4 DEF RegisterOf
      <4> QED
        BY <1>3, <2>2, <4>1, <4>2
    <3> QED
      BY <2>4, <3>3, <3>4
  <2> QED
    BY <2>1, <2>3, <2>4
<1> QED
  BY <1>5, <1>6 DEF ReadsRegister

\* The case of get_global_id: the group's number times its size, plus the
\* lane's number in the group.
LEMMA GlobalIdValue ==
  ASSUME NEW g, NEW ins, NEW self, EndsWell(g, ins, self), ins \in IRInstruction, IsGlobalId(ins)
  PROVE  ValueWritten(g[Len(g)]) = Kernel!Outcome
<1>1. /\ Kernel!Ins = ins /\ IsSupported(ins) /\ InItsClass(ins)
      /\ MeansGlobalId(valueToVReg, g, ins, self)
      /\ ins.op = "call" /\ ins.form = "get_global_id"
  BY DEF EndsWell, Means, IsGlobalId
<1>2. PICK dim : dim = ins.ops[1][2]
  OBVIOUS
<1>3. Kernel!X = dim
  BY <1>1, <1>2, DimensionValue DEF Kernel!X, DimensionCalls
<1> DEFINE lid == SysReg[LocalIdRegister(dim)]
           gid == SysReg[GroupIdRegister(dim)]
<1>4. Kernel!Outcome = WordOf(IF dim = 0 THEN gid + gid + lid ELSE gid + lid)
  <2>1. DOMAIN RegisterCalls = {"get_thread_id_x", "get_thread_id_y", "get_block_id_x", "get_block_id_y"}
    BY DEF RegisterCalls
  <2>2. Kernel!Outcome = Kernel!CallResult("get_global_id")
    <3>1. ins.form \notin {"ldr", "s2r"}
      BY <1>1
    <3> QED
      BY <1>1, <3>1, OutcomeIs
  <2>3. Kernel!CallResult("get_global_id") = WordOf(IF dim = 0 THEN gid + gid + lid ELSE gid + lid)
    BY <1>3, <2>1, KernelWords DEF Kernel!CallResult
  <2> QED
    BY <2>2, <2>3
<1>5. PICK d, tid, bid :
        /\ g[1] = Instruction("S2R", tid, 0, 0, LocalIdRegister(dim))
        /\ g[2] = Instruction("S2R", bid, 0, 0, GroupIdRegister(dim))
        /\ \/ /\ dim = 0 /\ Len(g) = 4
              /\ \E s : /\ g[3] = Instruction("ADD", s, bid, bid, 0)
                        /\ g[4] = Instruction("ADD", d, s, tid, 0)
           \/ dim # 0 /\ Len(g) = 3 /\ g[3] = Instruction("ADD", d, bid, tid, 0)
  <2> DEFINE n == ins.ops[1][2]
             Adds(d, tid, bid, m) ==
               \/ /\ m = 0 /\ Len(g) = 4
                  /\ \E s : /\ g[3] = Instruction("ADD", s, bid, bid, 0)
                            /\ g[4] = Instruction("ADD", d, s, tid, 0)
               \/ m # 0 /\ Len(g) = 3 /\ g[3] = Instruction("ADD", d, bid, tid, 0)
  <2>1. PICK d, tid, bid :
          /\ g[1] = Instruction("S2R", tid, 0, 0, LocalIdRegister(n))
          /\ g[2] = Instruction("S2R", bid, 0, 0, GroupIdRegister(n))
          /\ Adds(d, tid, bid, n)
    BY <1>1, Zenon DEF MeansGlobalId
  <2>2. n = dim
    BY <1>2
  <2> HIDE DEF n, Adds
  <2>3. /\ g[1] = Instruction("S2R", tid, 0, 0, LocalIdRegister(dim))
        /\ g[2] = Instruction("S2R", bid, 0, 0, GroupIdRegister(dim))
        /\ Adds(d, tid, bid, dim)
    BY <2>1, <2>2
  <2>4. Adds(d, tid, bid, dim) =>
           \/ /\ dim = 0 /\ Len(g) = 4
              /\ \E s : /\ g[3] = Instruction("ADD", s, bid, bid, 0)
                        /\ g[4] = Instruction("ADD", d, s, tid, 0)
           \/ dim # 0 /\ Len(g) = 3 /\ g[3] = Instruction("ADD", d, bid, tid, 0)
    BY DEF Adds
  <2> QED
    BY <2>3, <2>4
<1>6. Len(g) \in {3, 4} /\ 1 \in 1..(Len(g) - 1) /\ 2 \in 1..(Len(g) - 1)
  BY <1>5
<1>7. Read(tid) = lid
  <2> DEFINE mi == g[1]
             n == LocalIdRegister(dim)
  <2>1. mi = Instruction("S2R", tid, 0, 0, n)
    BY <1>5
  <2> HIDE DEF mi, n
  <2>2. Writes(mi) /\ mi.rd = tid /\ ValueWritten(mi) = SysReg[n]
    BY <2>1, ReadsOf, InstructionFields, WrittenBy
  <2> QED
    BY <1>6, <2>2 DEF EndsWell, mi, n
<1>8. Read(bid) = gid
  <2> DEFINE mi == g[2]
             n == GroupIdRegister(dim)
  <2>1. mi = Instruction("S2R", bid, 0, 0, n)
    BY <1>5
  <2> HIDE DEF mi, n
  <2>2. Writes(mi) /\ mi.rd = bid /\ ValueWritten(mi) = SysReg[n]
    BY <2>1, ReadsOf, InstructionFields, WrittenBy
  <2> QED
    BY <1>6, <2>2 DEF EndsWell, mi, n
<1>0. lid \in Int /\ gid \in Int
  <2>1. LocalIdRegister(dim) \in TID_X..BID_Y /\ GroupIdRegister(dim) \in TID_X..BID_Y
    BY DEF LocalIdRegister, GroupIdRegister, TID_X, TID_Y, BID_X, BID_Y
  <2>2. lid \in Words /\ gid \in Words
    BY <2>1, RunAssumption
  <2> QED
    BY <2>2, WordsAre
<1> HIDE DEF lid, gid
<1>9. CASE dim # 0 /\ Len(g) = 3 /\ g[3] = Instruction("ADD", d, bid, tid, 0)
  <2>1. ValueWritten(g[3]) = WordOf(Read(bid) + Read(tid))
    BY <1>9, WrittenBy
  <2> QED
    BY <1>4, <1>7, <1>8, <1>9, <2>1
<1>10. ASSUME dim = 0, Len(g) = 4, NEW s, g[3] = Instruction("ADD", s, bid, bid, 0),
              g[4] = Instruction("ADD", d, s, tid, 0)
       PROVE  ValueWritten(g[Len(g)]) = Kernel!Outcome
  <2>1. ValueWritten(g[4]) = WordOf(Read(s) + Read(tid))
    BY <1>10, WrittenBy
  <2>2. Writes(g[3]) /\ g[3].rd = s /\ ValueWritten(g[3]) = WordOf(Read(bid) + Read(bid))
    BY <1>10, ReadsOf, InstructionFields, WrittenBy
  <2>3. 3 \in 1..(Len(g) - 1)
    BY <1>10
  <2>4. Read(s) = ValueWritten(g[3])
    BY <2>2, <2>3 DEF EndsWell
  <2>5. PICK p \in Int : p = gid + gid
    BY <1>0
  <2>6. WordOf(WordOf(p) + lid) = WordOf(p + lid)
    BY <1>0, WordOfSum
  <2> QED
    BY <1>4, <1>7, <1>8, <1>10, <2>1, <2>2, <2>4, <2>5, <2>6
<1> QED
  BY <1>5, <1>9, <1>10

\* Whatever the instruction, its last machine instruction writes its outcome.
LEMMA OutcomeWritten ==
  ASSUME kernel \in Kernels, Supported, NEW b \in Blocks, NEW i \in DOMAIN CodeOf(b),
         NEW ins, ins = CodeOf(b)[i], NEW g, NEW self, EndsWell(g, ins, self),
         Kernel!Computes(ins), ins.op # "icmp"
  PROVE  ValueWritten(g[Len(g)]) = Kernel!Outcome
<1>1. ins \in IRInstruction
  BY InstructionIsVerified
<1>2. CASE ins.op = "binary"
  <2>1. /\ Range(ins.ops) = {ins.ops[1], ins.ops[2]}
        /\ Needed(ins) = IF AddsShort(ins) \/ Shifts(ins) THEN {ins.ops[1]} ELSE {ins.ops[1], ins.ops[2]}
    BY <1>2, NeededValues
  <2>2. ins.ops[1] \in Range(ins.ops) /\ ins.ops[2] \in Range(ins.ops)
    BY <2>1
  <2> QED
    BY <1>2, <2>1, <2>2, BinaryValue
<1>3. CASE ins.op = "gep"
  <2>1. /\ Range(ins.ops) = {ins.ops[1], ins.ops[2]}
        /\ Needed(ins) = IF IsConst(ins.ops[2]) THEN {ins.ops[1]} ELSE {ins.ops[1], ins.ops[2]}
    BY <1>3, NeededValues
  <2>2. ins.ops[2] \in Range(ins.ops)
    BY <2>1
  <2> QED
    BY <1>1, <1>3, <2>1, <2>2, AddressValue
<1>4. CASE IsLoad(ins)
  <2>1. Needed(ins) = {ins.ops[1]}
    BY <1>4, NeededValues DEF IsLoad
  <2> QED
    BY <1>4, <2>1, LoadValue
<1>5. CASE ins.op = "cast"
  <2>1. Needed(ins) = {ins.ops[1]}
    BY <1>5, NeededValues
  <2> QED
    BY <1>5, <2>1, CastValue
<1>6. CASE ReadsRegister(ins)
  BY <1>1, <1>6, RegisterValue
<1>7. CASE IsGlobalId(ins)
  BY <1>1, <1>7, GlobalIdValue
<1>8. Kernel!RegisterCalls = RegisterCalls
  BY KernelWords
<1>9. \/ ins.op \in {"binary", "gep", "cast"}
      \/ IsLoad(ins) \/ ReadsRegister(ins) \/ IsGlobalId(ins)
  BY <1>8 DEF Kernel!Computes, IsLoad, ReadsRegister, RegisterReads, IsGlobalId
<1> QED
  BY <1>2, <1>3, <1>4, <1>5, <1>6, <1>7, <1>9

\* The lane before the last instruction of the code of <<b, i>>.
AtEnd(b, i) ==
  /\ LaneShape /\ Selected /\ Values /\ Inside(b, i) /\ at = <<b, i>>
  /\ done < Len(Group) /\ \A r \in RegistersRead(NextInstruction) : Filled(r)

\* What is known of the group the lane is in.
LEMMA LaneCode ==
  ASSUME LaneShape, Selected, NEW b \in Blocks, NEW i \in DOMAIN CodeOf(b), at = <<b, i>>
  PROVE  /\ Group = code[b][i] /\ Len(Group) \in Nat /\ done \in Nat
         /\ GroupOk(valueToVReg, nextVReg, Group, Needed(CodeOf(b)[i]), Result(b, i))
         /\ Means(valueToVReg, Group, CodeOf(b)[i], Result(b, i))
         /\ InItsClass(CodeOf(b)[i]) /\ IsSupported(CodeOf(b)[i])
         /\ \A e \in 1..Len(Group) : IsInstruction(Group[e])
         /\ kernel \in Kernels /\ Supported /\ Numbered /\ Valued
<1>1. Shape /\ Forms /\ Supported /\ Finished /\ done \in Nat
  BY DEF Selected, LaneShape
<1>2. at # NotStarted
  BY <1>1, PlacesApart
<1>3. Group = code[b][i]
  BY <1>2 DEF Group
<1>4. /\ IsCode(valueToVReg, nextVReg, code[b][i], b, i)
      /\ Len(code[b][i]) \in Nat
      /\ InItsClass(CodeOf(b)[i]) /\ IsSupported(CodeOf(b)[i])
  BY <1>1, CodeIsFormed
<1>5. \A e \in 1..Len(code[b][i]) : IsInstruction(code[b][i][e])
  BY <1>1, PlacesHaveCode DEF IsGroup
<1> QED
  BY <1>1, <1>3, <1>4, <1>5 DEF IsCode, Shape, InCode

\* A register that the group has written is not R0.
LEMMA WrittenRegister ==
  ASSUME DOMAIN regs \subseteq 1..(FieldSize - 1), NEW r \in DOMAIN regs
  PROVE  Filled(r) /\ Read(r) = regs[r] /\ r # VREG_ZERO
<1>1. r # 0
  BY FieldSizeAssumption
<1> QED
  BY <1>1 DEF Filled, Read, VREG_ZERO

\* When the lane is at the last instruction of a group, what the group does
\* before it has been done.
LEMMA EndReached ==
  ASSUME NEW b \in Blocks, NEW i \in DOMAIN CodeOf(b), AtEnd(b, i), done + 1 = Len(Group)
  PROVE  EndsWell(Group, CodeOf(b)[i], Result(b, i))
<1> DEFINE g == Group
           ins == CodeOf(b)[i]
<1>1. /\ LaneShape /\ Selected /\ Values /\ ArgumentsHold /\ Passed(b, i) /\ GroupHolds /\ at = <<b, i>>
      /\ \A r \in RegistersRead(NextInstruction) : Filled(r)
  BY DEF AtEnd, Inside
<1>2. /\ Len(g) \in Nat /\ done \in Nat
      /\ Means(valueToVReg, g, ins, Result(b, i)) /\ InItsClass(ins) /\ IsSupported(ins)
      /\ kernel \in Kernels /\ Supported
  BY <1>1, LaneCode
<1>3. Kernel!Ins = ins
  BY <1>1, KernelIsAt DEF Selected
<1>4. NextInstruction = g[Len(g)] /\ 1..done = 1..(Len(g) - 1)
  BY <1>2 DEF NextInstruction
<1>5. \A d \in 1..(Len(g) - 1) : Writes(g[d]) => Filled(g[d].rd) /\ Read(g[d].rd) = ValueWritten(g[d])
  <2> SUFFICES ASSUME NEW d \in 1..done, Writes(g[d])
               PROVE  Filled(g[d].rd) /\ Read(g[d].rd) = ValueWritten(g[d])
    BY <1>4
  <2>1. g[d].rd \in DOMAIN regs /\ regs[g[d].rd] = ValueWritten(g[d])
    BY <1>1 DEF GroupHolds
  <2>2. DOMAIN regs \subseteq 1..(FieldSize - 1)
    BY <1>1 DEF LaneShape
  <2> QED
    BY <2>1, <2>2, WrittenRegister
<1>6. ASSUME NEW v \in Needed(ins), NEW r, IsNumberOf(valueToVReg, v, r)
      PROVE  /\ ~IsConst(v) => Filled(r)
             /\ Filled(r) => Read(r) = Kernel!ValueOf(v) /\ Kernel!ValueOf(v) \in Words
  <2>1. Filled(r) => Read(r) = Kernel!ValueOf(v) /\ Kernel!ValueOf(v) \in Words
    BY <1>1, <1>6, ReadsValue
  <2>2. CASE ~IsConst(v)
    <3>1. InRegister(v)
      BY <1>1, <2>2, NeededHolds DEF Values
    <3>2. v # Zero
      BY <2>2 DEF Zero, IsConst, Const
    <3>3. r = valueToVReg[v]
      BY <1>6, <3>2 DEF IsNumberOf
    <3> QED
      BY <2>1, <3>1, <3>3 DEF InRegister, Filled
  <2> QED
    BY <2>1, <2>2
<1>7. Len(g) \in Nat \ {0} /\ \A r \in RegistersRead(g[Len(g)]) : Filled(r)
  BY <1>1, <1>2, <1>4
<1> QED
  BY <1>2, <1>3, <1>5, <1>6, <1>7 DEF EndsWell

-----------------------------------------------------------------------------
(* What an instruction changes.                                            *)

\* Immediates are integers.
LEMMA ImmediateIsNumber ==
  ASSUME NEW mi, mi.imm \in Int PROVE Immediate(mi) \in Int
<1> DEFINE n == mi.imm
           d == 2^14
           h == 2^(14 - 1)
<1>1. d \in Nat \ {0} /\ h \in Int
  BY SMT
<1>2. Immediate(mi) = IF n % d < h THEN n % d ELSE (n % d) - d
  BY Zenon DEF Immediate, SignExtended, Masked
<1>3. n \in Int
  OBVIOUS
<1> HIDE DEF n, d, h
<1>4. n % d \in Int
  BY <1>1, <1>3
<1> QED
  BY <1>1, <1>2, <1>4

\* What is read of a register that was written is a word.
LEMMA ReadIsNumber ==
  ASSUME Typed, NEW r, Filled(r) PROVE Read(r) \in Words
  BY ZeroIsWord DEF Typed, Filled, Read

\* Only words are written.
LEMMA WrittenIsNumber ==
  ASSUME Typed, NEW mi, Writes(mi), \A r \in RegistersRead(mi) : Filled(r),
         mi.op = "ADDI" => mi.imm \in Int, mi.op = "S2R" => mi.imm \in TID_X..BID_Y
  PROVE  ValueWritten(mi) \in Words
<1>1. mi.op \in {"ADD", "SUB", "MUL", "ADDI", "LDR", "S2R"}
  BY DEF Writes, WritingOps, ThreeRegister
<1>2. CASE mi.op = "S2R"
  <2>1. ValueWritten(mi) = SysReg[mi.imm]
    BY <1>2 DEF ValueWritten
  <2> QED
    BY <1>2, <2>1, RunAssumption
<1>3. CASE mi.op = "LDR"
  <2>1. ValueWritten(mi) = Kernel!LoadedFrom(mem, Read(mi.rs1), LANE_WIDTH_BITS)
    BY <1>3 DEF ValueWritten
  <2>2. \A a \in DOMAIN mem : mem[a] \in Int
    BY DEF Typed
  <2>3. Kernel!LoadedFrom(mem, Read(mi.rs1), LANE_WIDTH_BITS) \in Words
    BY <2>2, LoadedIsWord
  <2> QED
    BY <2>1, <2>3
<1>4. CASE mi.op = "ADDI"
  <2>1. ValueWritten(mi) = WordOf(Read(mi.rs1) + Immediate(mi))
    BY <1>4 DEF ValueWritten, Sum
  <2>2. RegistersRead(mi) = {mi.rs1}
    BY <1>4 DEF RegistersRead, ThreeRegister
  <2>3. Read(mi.rs1) \in Int /\ Immediate(mi) \in Int
    BY <1>4, <2>2, ImmediateIsNumber, ReadIsNumber, WordsAre
  <2>4. PICK n \in Int : n = Read(mi.rs1) + Immediate(mi)
    BY <2>3
  <2> QED
    BY <2>1, <2>4, WordsAre
<1>5. CASE mi.op \in {"ADD", "SUB", "MUL"}
  <2>1. /\ mi.op = "ADD" => ValueWritten(mi) = WordOf(Read(mi.rs1) + Read(mi.rs2))
        /\ mi.op = "SUB" => ValueWritten(mi) = WordOf(Read(mi.rs1) - Read(mi.rs2))
        /\ mi.op = "MUL" => ValueWritten(mi) = WordOf(Read(mi.rs1) * Read(mi.rs2))
    BY <1>5 DEF ValueWritten, Sum
  <2>2. RegistersRead(mi) = {mi.rs1, mi.rs2}
    BY <1>5 DEF RegistersRead, ThreeRegister
  <2>3. Read(mi.rs1) \in Int /\ Read(mi.rs2) \in Int
    BY <2>2, ReadIsNumber, WordsAre
  <2>4. PICK s, d, m \in Int : /\ s = Read(mi.rs1) + Read(mi.rs2)
                              /\ d = Read(mi.rs1) - Read(mi.rs2)
                              /\ m = Read(mi.rs1) * Read(mi.rs2)
    BY <2>3
  <2>5. WordOf(s) \in Words /\ WordOf(d) \in Words /\ WordOf(m) \in Words
    BY <2>4, WordsAre
  <2> QED
    BY <1>5, <2>1, <2>4, <2>5
<1> QED
  BY <1>1, <1>2, <1>3, <1>4, <1>5

\* The registers after an instruction.
RegistersAfter(mi) ==
  IF Writes(mi)
  THEN /\ DOMAIN regs' = DOMAIN regs \cup {mi.rd}
       /\ regs'[mi.rd] = ValueWritten(mi)
       /\ \A r \in DOMAIN regs : r # mi.rd => regs'[r] = regs[r]
  ELSE regs' = regs

\* What one machine instruction changes.
LEMMA Executes ==
  ASSUME NEW mi, Execute(mi), Writes(mi) => mi.rd # VREG_ZERO
  PROVE  /\ RegistersAfter(mi)
         /\ mi.op # "STR" => mem' = mem
         /\ nzp' = IF SetsSign(mi) THEN Sign(Sum(mi)) ELSE nzp
<1>1. mem' = IF mi.op = "STR"
             THEN Kernel!StoredIn(mem, Read(mi.rs1), Read(mi.rs2), LANE_WIDTH_BITS) ELSE mem
  BY DEF Execute
<1>2. nzp' = IF SetsSign(mi) THEN Sign(Sum(mi)) ELSE nzp
  BY DEF Execute
<1>3. regs' = IF Writes(mi) /\ mi.rd # VREG_ZERO THEN Updated(regs, mi.rd, ValueWritten(mi)) ELSE regs
  BY DEF Execute, Writes, WritingOps
<1>4. RegistersAfter(mi)
  BY <1>3 DEF RegistersAfter, Updated
<1> QED
  BY <1>1, <1>2, <1>4

\* An instruction of a group, by what it does to the values.
WritesWell(g, ins, self, e) ==
  LET mi == g[e]
  IN  Writes(mi) =>
        /\ mi.rd \in 1..(nextVReg - 1) /\ ValueWritten(mi) \in Words
        /\ \A v \in DOMAIN valueToVReg : valueToVReg[v] = mi.rd =>
             \/ e = Len(g) /\ v = self
             \/ IsFilling(v) /\ ValueWritten(mi) = v[2]

\* No instruction of a group writes anything but a temporary, a constant it
\* materialises, or, as its last, the result.
LEMMA GroupWritesWell ==
  ASSUME Numbered, Typed, NEW g, NEW ins, NEW needs, NEW self,
         GroupOk(valueToVReg, nextVReg, g, needs, self), ~IsConst(self),
         \A v \in needs : IsConst(v) => Fits(v[2]),
         NEW e \in 1..Len(g), \A r \in RegistersRead(g[e]) : Filled(r)
  PROVE  WritesWell(g, ins, self, e)
<1>1. PICK mi : mi = g[e]
  OBVIOUS
<1> SUFFICES ASSUME Writes(mi)
             PROVE  /\ mi.rd \in 1..(nextVReg - 1) /\ ValueWritten(mi) \in Words
                    /\ \A v \in DOMAIN valueToVReg : valueToVReg[v] = mi.rd =>
                         \/ e = Len(g) /\ v = self
                         \/ IsFilling(v) /\ ValueWritten(mi) = v[2]
  BY <1>1 DEF WritesWell
<1>2. IsTidy(valueToVReg, nextVReg, g, needs, self, e)
  BY DEF GroupOk
<1>3. /\ mi.op = "ADDI" => mi.imm \in Int
      /\ mi.op = "S2R" => mi.imm \in TID_X..BID_Y
      /\ \/ e = Len(g) /\ self \in DOMAIN valueToVReg /\ mi.rd = valueToVReg[self]
         \/ IsFree(valueToVReg, nextVReg, mi.rd)
         \/ \E v \in needs : IsFilling(v) /\ v \in DOMAIN valueToVReg /\ mi = Fill(valueToVReg[v], v[2])
  BY <1>1, <1>2 DEF IsTidy
<1>4. ValueWritten(mi) \in Words
  BY <1>1, <1>3, WrittenIsNumber
<1>5. CASE e = Len(g) /\ self \in DOMAIN valueToVReg /\ mi.rd = valueToVReg[self]
  BY <1>4, <1>5 DEF Numbered
<1>6. CASE IsFree(valueToVReg, nextVReg, mi.rd)
  BY <1>4, <1>6 DEF IsFree
<1>7. ASSUME NEW v \in needs, IsFilling(v), v \in DOMAIN valueToVReg, mi = Fill(valueToVReg[v], v[2])
      PROVE  /\ mi.rd \in 1..(nextVReg - 1)
             /\ \A w \in DOMAIN valueToVReg : valueToVReg[w] = mi.rd =>
                  IsFilling(w) /\ ValueWritten(mi) = w[2]
  <2>1. Fits(v[2])
    BY <1>7 DEF IsFilling
  <2>2. mi.rd = valueToVReg[v] /\ ValueWritten(mi) = v[2]
    BY <1>7, <2>1, FillFields, FillWrites
  <2>3. \A w \in DOMAIN valueToVReg : valueToVReg[w] = mi.rd => w = v
    BY <1>7, <2>2 DEF Numbered
  <2> QED
    BY <1>7, <2>2, <2>3 DEF Numbered
<1> QED
  BY <1>3, <1>4, <1>5, <1>6, <1>7

\* Another value than self keeps its register.
KeepsRegisters(self) ==
  \A v \in DOMAIN valueToVReg :
    ~IsConst(v) /\ valueToVReg[v] \in DOMAIN regs /\ v # self =>
      valueToVReg[v] \in DOMAIN regs' /\ regs'[valueToVReg[v]] = regs[valueToVReg[v]]

\* So the registers of all values but the result are kept.
LEMMA RegistersKept ==
  ASSUME Typed, ConstantsHold, UNCHANGED valueToVReg,
         NEW g, NEW ins, NEW self, NEW e, WritesWell(g, ins, self, e), RegistersAfter(g[e]),
         ~IsConst(self)
  PROVE  /\ \A r \in DOMAIN regs' : regs'[r] \in Words
         /\ ConstantsHold'
         /\ KeepsRegisters(self)
         /\ e # Len(g) => \A v : KeepsRegisters(v)
<1>1. PICK mi : mi = g[e]
  OBVIOUS
<1>2. RegistersAfter(mi)
  BY <1>1
<1>3. Writes(mi) =>
        /\ mi.rd \in 1..(nextVReg - 1) /\ ValueWritten(mi) \in Words
        /\ \A v \in DOMAIN valueToVReg : valueToVReg[v] = mi.rd =>
             \/ e = Len(g) /\ v = self
             \/ IsFilling(v) /\ ValueWritten(mi) = v[2]
  BY <1>1 DEF WritesWell
<1>4. CASE ~Writes(mi)
  <2>1. regs' = regs
    BY <1>2, <1>4 DEF RegistersAfter
  <2>2. ConstantsHold'
    BY <2>1 DEF ConstantsHold
  <2> QED
    BY <2>1, <2>2 DEF KeepsRegisters, Typed
<1>5. CASE Writes(mi)
  <2>1. /\ DOMAIN regs' = DOMAIN regs \cup {mi.rd}
        /\ regs'[mi.rd] = ValueWritten(mi)
        /\ \A r \in DOMAIN regs : r # mi.rd => regs'[r] = regs[r]
    BY <1>2, <1>5 DEF RegistersAfter
  <2>2. /\ ValueWritten(mi) \in Words
        /\ \A v \in DOMAIN valueToVReg : valueToVReg[v] = mi.rd =>
             \/ e = Len(g) /\ v = self
             \/ IsFilling(v) /\ ValueWritten(mi) = v[2]
    BY <1>3, <1>5
  <2>3. \A r \in DOMAIN regs' : regs'[r] \in Words
    BY <2>1, <2>2 DEF Typed
  <2>4. ASSUME NEW v \in DOMAIN valueToVReg, IsFilling(v), valueToVReg[v] \in DOMAIN regs'
        PROVE  regs'[valueToVReg[v]] = v[2]
    <3>1. CASE valueToVReg[v] = mi.rd
      BY <2>1, <2>2, <2>4, <3>1 DEF IsFilling
    <3>2. CASE valueToVReg[v] # mi.rd
      BY <2>1, <2>4, <3>2 DEF ConstantsHold
    <3> QED
      BY <3>1, <3>2
  <2>5. ConstantsHold'
    BY <2>4 DEF ConstantsHold
  <2>6. ASSUME NEW v \in DOMAIN valueToVReg, ~IsConst(v), valueToVReg[v] \in DOMAIN regs,
               v # self \/ e # Len(g)
        PROVE  valueToVReg[v] \in DOMAIN regs' /\ regs'[valueToVReg[v]] = regs[valueToVReg[v]]
    <3>1. valueToVReg[v] # mi.rd
      BY <2>2, <2>6 DEF IsFilling
    <3> QED
      BY <2>1, <2>6, <3>1
  <2> QED
    BY <2>3, <2>5, <2>6 DEF KeepsRegisters
<1> QED
  BY <1>4, <1>5

\* An instruction would write the same again if its operands are the same.
LEMMA WrittenSame ==
  ASSUME NEW mi, Writes(mi), mem' = mem, \A r \in RegistersRead(mi) : Read(r)' = Read(r)
  PROVE  ValueWritten(mi)' = ValueWritten(mi)
<1>1. mi.op \in {"ADD", "SUB", "MUL", "ADDI", "LDR", "S2R"}
  BY DEF Writes, WritingOps, ThreeRegister
<1>2. CASE mi.op = "S2R"
  BY <1>2 DEF ValueWritten
<1>3. CASE mi.op = "LDR"
  <2>1. RegistersRead(mi) = {mi.rs1}
    BY <1>3 DEF RegistersRead, ThreeRegister
  <2>2. Read(mi.rs1)' = Read(mi.rs1)
    BY <2>1
  <2> QED
    BY <1>3, <2>2 DEF ValueWritten
<1>4. CASE mi.op = "ADDI"
  <2>1. RegistersRead(mi) = {mi.rs1}
    BY <1>4 DEF RegistersRead, ThreeRegister
  <2>2. Read(mi.rs1)' = Read(mi.rs1)
    BY <2>1
  <2> QED
    BY <1>4, <2>2 DEF ValueWritten, Sum
<1>5. CASE mi.op \in {"ADD", "SUB", "MUL"}
  <2>1. RegistersRead(mi) = {mi.rs1, mi.rs2}
    BY <1>5 DEF RegistersRead, ThreeRegister
  <2>2. Read(mi.rs1)' = Read(mi.rs1) /\ Read(mi.rs2)' = Read(mi.rs2)
    BY <2>1
  <2> QED
    BY <1>5, <2>2 DEF ValueWritten, Sum
<1> QED
  BY <1>1, <1>2, <1>3, <1>4, <1>5

\* What a group has written stays what its instructions would write.
LEMMA GroupAfter ==
  ASSUME DOMAIN regs \subseteq 1..(FieldSize - 1),
         NEW g, NEW needs, NEW self, GroupOk(valueToVReg, nextVReg, g, needs, self),
         Len(g) \in Nat, NEW e \in 1..Len(g),
         \A d \in 1..e : \A r \in RegistersRead(g[d]) : Filled(r),
         \A d \in 1..(e - 1) : Writes(g[d]) => g[d].rd \in DOMAIN regs /\ regs[g[d].rd] = ValueWritten(g[d]),
         RegistersAfter(g[e]), Writes(g[e]) => g[e].rd # VREG_ZERO, mem' = mem
  PROVE  \A d \in 1..e : Writes(g[d]) => g[d].rd \in DOMAIN regs' /\ regs'[g[d].rd] = ValueWritten(g[d])'
<1>1. PICK mi : mi = g[e]
  OBVIOUS
<1>2. RegistersAfter(mi) /\ (Writes(mi) => mi.rd # VREG_ZERO)
  BY <1>1
<1>3. Writes(mi) => /\ mi.rd \notin WrittenBefore(g, e)
                    /\ \A d \in 1..e : mi.rd \notin RegistersRead(g[d])
  BY <1>1 DEF GroupOk, IsTidy
<1>4. ASSUME NEW d \in 1..e, Writes(g[d])
      PROVE  ValueWritten(g[d])' = ValueWritten(g[d])
  <2>1. PICK md : md = g[d]
    OBVIOUS
  <2>2. ASSUME NEW r \in RegistersRead(md) PROVE Read(r)' = Read(r)
    <3>1. Filled(r) /\ (Writes(mi) => r # mi.rd)
      BY <1>3, <2>1
    <3>2. CASE r = VREG_ZERO
      BY <3>2 DEF Read
    <3>3. CASE r # VREG_ZERO
      <4>1. r \in DOMAIN regs
        BY <3>1, <3>3 DEF Filled
      <4>2. regs'[r] = regs[r]
        BY <1>2, <3>1, <4>1 DEF RegistersAfter
      <4> QED
        BY <3>3, <4>2 DEF Read
    <3> QED
      BY <3>2, <3>3
  <2>3. Writes(md)
    BY <1>4, <2>1
  <2>4. ValueWritten(md)' = ValueWritten(md)
    BY <2>2, <2>3, WrittenSame
  <2> QED
    BY <2>1, <2>4
<1>5. ASSUME NEW d \in 1..e, Writes(g[d])
      PROVE  g[d].rd \in DOMAIN regs' /\ regs'[g[d].rd] = ValueWritten(g[d])
  <2>1. CASE d = e
    BY <1>1, <1>2, <1>5, <2>1 DEF RegistersAfter
  <2>2. CASE d # e
    <3>1. d \in 1..(e - 1)
      BY <2>2
    <3>2. g[d].rd \in DOMAIN regs /\ regs[g[d].rd] = ValueWritten(g[d])
      BY <1>5, <3>1
    <3>3. g[d].rd \in WrittenBefore(g, e)
      BY <1>5, <3>1 DEF WrittenBefore
    <3>4. Writes(mi) => g[d].rd # mi.rd
      BY <1>3, <3>3
    <3> QED
      BY <1>2, <3>2, <3>4 DEF RegistersAfter
  <2> QED
    BY <2>1, <2>2
<1> QED
  BY <1>4, <1>5

-----------------------------------------------------------------------------
(* Steps within a block.                                                   *)

\* The lane is in the code of <<b, i>>, and everything is as it should be.
At(b, i) ==
  LaneShape /\ Selected /\ LaneFilled /\ Values /\ Inside(b, i) /\ at = <<b, i>>

\* What holds of instruction e of group g, and after it.
Stepped(g, e, self) ==
  /\ e \in 1..Len(g) /\ e \in Nat /\ Len(g) \in Nat
  /\ \A r \in RegistersRead(g[e]) : Filled(r)
  /\ RegistersAfter(g[e])
  /\ g[e].op # "STR" => mem' = mem
  /\ nzp' = IF SetsSign(g[e]) THEN Sign(Sum(g[e])) ELSE nzp
  /\ \A r \in DOMAIN regs' : regs'[r] \in Words
  /\ ConstantsHold'
  /\ KeepsRegisters(self)
  /\ e # Len(g) => \A v : KeepsRegisters(v)

\* One machine instruction inside a group.
LEMMA StepKeeps ==
  ASSUME NEW b \in Blocks, NEW i \in DOMAIN CodeOf(b), At(b, i), Ready, Execute(NextInstruction),
         UNCHANGED selectorVars, NEW g, g = Group, NEW e, e = done + 1
  PROVE  /\ Stepped(g, e, Result(b, i))
         /\ g[e].op # "STR" =>
              \A d \in 1..e : Writes(g[d]) => g[d].rd \in DOMAIN regs' /\ regs'[g[d].rd] = ValueWritten(g[d])'
<1> DEFINE ins == CodeOf(b)[i]
           self == Result(b, i)
           needs == Needed(CodeOf(b)[i])
<1>1. /\ LaneShape /\ Selected /\ LaneFilled /\ Typed /\ ConstantsHold /\ GroupHolds /\ at = <<b, i>>
      /\ Shape /\ done \in Nat /\ DOMAIN regs \subseteq 1..(FieldSize - 1)
  BY DEF At, Inside, Values, LaneShape
<1>2. /\ g = code[b][i] /\ Len(g) \in Nat
      /\ GroupOk(valueToVReg, nextVReg, g, needs, self)
      /\ kernel \in Kernels /\ Supported /\ Numbered
  BY <1>1, LaneCode
<1>3. e \in 1..Len(g) /\ e \in Nat /\ 1..(e - 1) = 1..done /\ NextInstruction = g[e]
  BY <1>1, <1>2 DEF Ready, NextInstruction
<1>4. \A d \in 1..(e - 1) : Writes(g[d]) => g[d].rd \in DOMAIN regs /\ regs[g[d].rd] = ValueWritten(g[d])
  BY <1>1, <1>3 DEF GroupHolds
<1>5. ASSUME NEW d \in 1..e, NEW r \in RegistersRead(g[d]) PROVE Filled(r)
  <2>1. Reached(b, i)
    BY <1>1, <1>2 DEF LaneFilled
  <2>2. d \in 1..Len(g) /\ 1..(d - 1) \subseteq 1..(e - 1)
    BY <1>2, <1>3
  <2>3. \A c \in 1..(d - 1) : Writes(g[c]) => Filled(g[c].rd)
    BY <1>4, <2>2 DEF Filled
  <2> QED
    BY <1>1, <1>2, <2>1, <2>2, <2>3, GroupReads
<1>6. WritesWell(g, ins, self, e)
  <2>1. ~IsConst(self)
    BY DEF Result, IsConst
  <2>2. \A v \in needs : IsConst(v) => Fits(v[2])
    BY <1>2, NeededAre
  <2>3. \A r \in RegistersRead(g[e]) : Filled(r)
    BY <1>3, <1>5
  <2> QED
    BY <1>1, <1>2, <1>3, <2>1, <2>2, <2>3, GroupWritesWell
<1>7. Writes(g[e]) => g[e].rd # VREG_ZERO
  BY <1>2, <1>6 DEF WritesWell, VREG_ZERO, Numbered
<1>8. PICK mi : mi = g[e]
  OBVIOUS
<1>9. /\ RegistersAfter(mi)
      /\ mi.op # "STR" => mem' = mem
      /\ nzp' = IF SetsSign(mi) THEN Sign(Sum(mi)) ELSE nzp
  BY <1>3, <1>7, <1>8, Executes
<1>10. UNCHANGED valueToVReg /\ ~IsConst(self)
  BY DEF Result, IsConst, selectorVars
<1>11. RegistersAfter(g[e])
  BY <1>8, <1>9
<1>12. /\ \A r \in DOMAIN regs' : regs'[r] \in Words
       /\ ConstantsHold'
       /\ KeepsRegisters(self)
       /\ e # Len(g) => \A v : KeepsRegisters(v)
  BY <1>1, <1>6, <1>10, <1>11, RegistersKept
<1>13. \A r \in RegistersRead(g[e]) : Filled(r)
  BY <1>3, <1>5
<1>14. Stepped(g, e, self)
  BY <1>3, <1>8, <1>9, <1>11, <1>12, <1>13 DEF Stepped
<1>15. g[e].op # "STR" =>
         \A d \in 1..e : Writes(g[d]) => g[d].rd \in DOMAIN regs' /\ regs'[g[d].rd] = ValueWritten(g[d])'
  BY <1>1, <1>2, <1>3, <1>4, <1>5, <1>7, <1>8, <1>9, <1>11, GroupAfter
<1> QED
  BY <1>14, <1>15

\* The lane does not change what the selector made.
LEMMA CodeSame ==
  ASSUME UNCHANGED selectorVars
  PROVE  /\ UNCHANGED <<kernel, position, valueToVReg, nextVReg, prologue, code>>
         /\ UNCHANGED Blocks /\ \A b : CodeOf(b)' = CodeOf(b)
         /\ \A v : InstructionOf(v)' = InstructionOf(v)
         /\ \A b : Reachable(b)' <=> Reachable(b)
         /\ Finished' <=> Finished
<1>1. UNCHANGED <<kernel, position, valueToVReg, nextVReg, prologue, code>>
  BY DEF selectorVars
<1>2. UNCHANGED Blocks /\ \A b : CodeOf(b)' = CodeOf(b)
  BY <1>1 DEF Blocks, CodeOf
<1>3. \A v : InstructionOf(v)' = InstructionOf(v)
  BY <1>1 DEF InstructionOf, CodeOf
<1>4. \A b : Reachable(b)' <=> Reachable(b)
  BY <1>1, <1>2, Zenon DEF Reachable
<1>5. Finished' <=> Finished
  BY <1>1, <1>2 DEF Finished
<1> QED
  BY <1>1, <1>2, <1>3, <1>4, <1>5

\* Nothing the kernel knows has changed.
LEMMA SameEnv ==
  ASSUME UNCHANGED selectorVars, UNCHANGED <<args, env>>
  PROVE  /\ \A v : Kernel!ValueOf(v)' = Kernel!ValueOf(v)
         /\ \A c, j : Known(c, j)' <=> Known(c, j)
         /\ \A c, j : PredicateHolds(c, j)' <=> PredicateHolds(c, j)
         /\ \A b, i : Passed(b, i)' <=> Passed(b, i)
<1>1. UNCHANGED Blocks /\ UNCHANGED kernel /\ \A b : CodeOf(b)' = CodeOf(b)
  BY CodeSame
<1>2. \A v : Kernel!ValueOf(v)' = Kernel!ValueOf(v)
  BY DEF Kernel!ValueOf
<1>3. \A c, j : Known(c, j)' <=> Known(c, j)
  BY <1>1, Zenon DEF Known
<1>4. \A ins : Decided(ins)' = Decided(ins)
  BY <1>2 DEF Decided
<1>5. \A c, j : PredicateHolds(c, j)' <=> PredicateHolds(c, j)
  BY <1>1, <1>4, Zenon DEF PredicateHolds
<1>6. \A b, i : Passed(b, i)' <=> Passed(b, i)
  BY <1>1, <1>3, <1>5, Zenon DEF Passed
<1> QED
  BY <1>2, <1>3, <1>5, <1>6

\* The values stay where they are.
LEMMA SameNames ==
  ASSUME NamesHold, UNCHANGED selectorVars, UNCHANGED <<args, env>>,
         NEW self, KeepsRegisters(self), self \notin DOMAIN env, \A k : self # Arg(k)
  PROVE  NamesHold' /\ (ArgumentsHold => ArgumentsHold')
<1>1. /\ UNCHANGED <<Blocks, kernel, valueToVReg>> /\ \A b : CodeOf(b)' = CodeOf(b)
      /\ \A v : Kernel!ValueOf(v)' = Kernel!ValueOf(v)
  BY CodeSame, SameEnv
<1>2. ASSUME NEW v, InRegister(v), ~IsConst(v), v # self PROVE InRegister(v)'
  BY <1>1, <1>2 DEF InRegister, KeepsRegisters
<1>3. ArgumentsHold => ArgumentsHold'
  <2>1. \A k : ~IsConst(Arg(k))
    BY DEF IsConst, Arg
  <2> QED
    BY <1>1, <1>2, <2>1 DEF ArgumentsHold
<1>4. NamesHold'
  <2>1. \A v \in DOMAIN env : \E c \in Blocks : \E j \in DOMAIN CodeOf(c) :
          /\ v = Result(c, j) /\ Kernel!Computes(CodeOf(c)[j])
          /\ CodeOf(c)[j].op # "icmp" => InRegister(v)'
    <3> SUFFICES ASSUME NEW v \in DOMAIN env
                 PROVE  \E c \in Blocks : \E j \in DOMAIN CodeOf(c) :
                          /\ v = Result(c, j) /\ Kernel!Computes(CodeOf(c)[j])
                          /\ CodeOf(c)[j].op # "icmp" => InRegister(v)'
      OBVIOUS
    <3>1. PICK c \in Blocks : \E j \in DOMAIN CodeOf(c) :
            /\ v = Result(c, j) /\ Kernel!Computes(CodeOf(c)[j])
            /\ CodeOf(c)[j].op # "icmp" => InRegister(v)
      BY Zenon DEF NamesHold
    <3>2. \A d, j : ~IsConst(Result(d, j))
      BY DEF IsConst, Result
    <3>3. v # self
      OBVIOUS
    <3> QED
      BY <1>2, <3>1, <3>2, <3>3
  <2> QED
    BY <1>1, <2>1, Zenon DEF NamesHold
<1> QED
  BY <1>3, <1>4

\* What a conditional branch tests.
LEMMA TestOperands ==
  ASSUME kernel \in Kernels, Supported, NEW b \in Blocks, NEW i \in DOMAIN CodeOf(b),
         CodeOf(b)[i].op = "br", CodeOf(b)[i].ops # <<>>,
         NEW c, c = InstructionOf(CodeOf(b)[i].ops[1])
  PROVE  /\ c.op = "icmp" /\ c.form \in Predicates
         /\ c.ops[1] \in Range(c.ops) /\ c.ops[2] \in Range(c.ops)
         /\ c.ops[1] \in Needed(CodeOf(b)[i]) /\ c.ops[2] \in Needed(CodeOf(b)[i])
<1> DEFINE v == CodeOf(b)[i].ops[1]
<1>1. /\ v[2] \in Blocks /\ v[3] \in DOMAIN CodeOf(v[2])
      /\ c = CodeOf(v[2])[v[3]] /\ c.op = "icmp"
  BY PredicateOf
<1>2. c \in IRInstruction /\ InItsClass(c)
  BY <1>1, InstructionIsVerified
<1>3. c.form \in Predicates /\ Len(c.ops) = 2
  BY <1>1, <1>2 DEF InItsClass
<1>4. c.ops \in Seq(Operands)
  BY <1>2 DEF IRInstruction
<1>5. Range(c.ops) = {c.ops[1], c.ops[2]}
  <2> HIDE DEF Operands
  <2> QED
    BY <1>3, <1>4, RangeOfTwo
<1>6. Needed(CodeOf(b)[i]) = Range(c.ops)
  BY NeededValues
<1> QED
  BY <1>1, <1>3, <1>5, <1>6

\* An instruction that is not the last of its group.
LEMMA StepWithin ==
  ASSUME NEW b \in Blocks, NEW i \in DOMAIN CodeOf(b), At(b, i),
         Ready, ~Taken(NextInstruction), Execute(NextInstruction), done + 1 # Len(Group),
         done' = done + 1, UNCHANGED selectorVars, UNCHANGED <<args, at, env>>
  PROVE  Values' /\ Inside(b, i)' /\ mem' = mem
<1> DEFINE ins == CodeOf(b)[i]
<1>1. PICK g : g = Group
  OBVIOUS
<1>2. PICK e : e = done + 1
  OBVIOUS
<1>3. /\ LaneShape /\ Selected /\ LaneFilled /\ Typed /\ ConstantsHold /\ NamesHold /\ at = <<b, i>>
      /\ ArgumentsHold /\ Reachable(b) /\ Passed(b, i) /\ GroupHolds /\ Tested(b, i)
  BY DEF At, Inside, Values
<1>4. /\ Stepped(g, e, Result(b, i))
      /\ g[e].op # "STR" =>
           \A d \in 1..e : Writes(g[d]) => g[d].rd \in DOMAIN regs' /\ regs'[g[d].rd] = ValueWritten(g[d])'
  BY <1>1, <1>2, StepKeeps
<1>5. /\ GroupOk(valueToVReg, nextVReg, g, Needed(ins), Result(b, i))
      /\ Means(valueToVReg, g, ins, Result(b, i)) /\ Len(g) \in Nat
      /\ done \in Nat /\ kernel \in Kernels /\ Supported
  BY <1>1, <1>3, LaneCode
<1>6. e \in 1..Len(g) /\ e < Len(g) /\ NextInstruction = g[e]
  BY <1>1, <1>2, <1>4, <1>5 DEF Stepped, NextInstruction
<1>7. IsTidy(valueToVReg, nextVReg, g, Needed(ins), Result(b, i), e)
  BY <1>5, <1>6 DEF GroupOk
<1>8. g[e].op # "STR" /\ mem' = mem
  <2>1. Writes(g[e]) \/ g[e].op \in {"CMP", "BR"}
    BY <1>6, <1>7 DEF IsTidy
  <2>2. g[e].op # "STR"
    BY <2>1 DEF Writes, WritingOps, ThreeRegister
  <2> QED
    BY <1>4, <2>2 DEF Stepped
<1>9. /\ UNCHANGED <<Blocks, kernel, code, valueToVReg>> /\ \A c : CodeOf(c)' = CodeOf(c)
      /\ \A v : InstructionOf(v)' = InstructionOf(v)
      /\ Reachable(b)' /\ Passed(b, i)' /\ \A v : Kernel!ValueOf(v)' = Kernel!ValueOf(v)
  BY <1>3, CodeSame, SameEnv
<1>10. Group' = g
  BY <1>1, CodeSame DEF Group
<1>11. Typed' /\ ConstantsHold'
  BY <1>3, <1>4, <1>8, <1>9 DEF Typed, Stepped
<1>12. NamesHold' /\ ArgumentsHold'
  <2>1. KeepsRegisters(Zero)
    BY <1>4, <1>6 DEF Stepped
  <2>2. \A c, j : Zero # Result(c, j) /\ Zero # Arg(j)
    BY DEF Zero, Const, Result, Arg
  <2>3. Zero \notin DOMAIN env
    BY <1>3, <2>2, Zenon DEF NamesHold
  <2> QED
    BY <1>3, <2>1, <2>2, <2>3, SameNames
<1>13. GroupHolds'
  <2>1. \A d \in 1..e : \A mi : mi = g[d] /\ Writes(mi) =>
          mi.rd \in DOMAIN regs' /\ regs'[mi.rd] = ValueWritten(mi)'
    <3> SUFFICES ASSUME NEW d \in 1..e, NEW mi, mi = g[d], Writes(mi)
                 PROVE  mi.rd \in DOMAIN regs' /\ regs'[mi.rd] = ValueWritten(mi)'
      OBVIOUS
    <3>1. g[d].rd \in DOMAIN regs' /\ regs'[g[d].rd] = ValueWritten(g[d])'
      BY <1>4, <1>8
    <3> QED
      BY <3>1
  <2>2. done' = e
    BY <1>2
  <2> QED
    BY <1>10, <2>1, <2>2, Zenon DEF GroupHolds
<1>14. Tested(b, i)'
  <2> SUFFICES ASSUME NEW c, ins.op = "br", ins.ops # <<>>, c = InstructionOf(ins.ops[1])
               PROVE  /\ e > Len(g) - 3 =>
                           nzp' = Sign(WordOf(Kernel!ValueOf(c.ops[1]) - Kernel!ValueOf(c.ops[2])))
                      /\ e > Len(g) - 2 => nzp' \notin LettersOf(BranchCond(c.form))
    <3>1. \A c : ins.op = "br" /\ ins.ops # <<>> /\ c = InstructionOf(ins.ops[1]) =>
            /\ e > Len(g) - 3 =>
                 nzp' = Sign(WordOf(Kernel!ValueOf(c.ops[1]) - Kernel!ValueOf(c.ops[2])))'
            /\ e > Len(g) - 2 => nzp' \notin LettersOf(BranchCond(c.form))
      BY <1>9
    <3>2. done' = e
      BY <1>2
    <3> HIDE DEF ins
    <3>3. ins = CodeOf(b)'[i]
      BY <1>9 DEF ins
    <3> QED
      BY <1>9, <1>10, <3>1, <3>2, <3>3 DEF Tested
  <2>1. MeansBranch(valueToVReg, g, ins)
    BY <1>5 DEF Means
  <2>2. PICK x, y :
          /\ IsNumberOf(valueToVReg, c.ops[1], x) /\ IsNumberOf(valueToVReg, c.ops[2], y)
          /\ Len(g) > 2
          /\ g[Len(g) - 2] = Instruction("CMP", 0, x, y, 0)
          /\ g[Len(g) - 1] = Jump(BranchCond(c.form), ins.succ[1])
    BY <2>1, Zenon DEF MeansBranch
  <2>3. /\ done > Len(g) - 3 =>
             nzp = Sign(WordOf(Kernel!ValueOf(c.ops[1]) - Kernel!ValueOf(c.ops[2])))
        /\ done > Len(g) - 2 => nzp \notin LettersOf(BranchCond(c.form))
    BY <1>1, <1>3 DEF Tested
  <2>4. nzp' = IF SetsSign(g[e]) THEN Sign(Sum(g[e])) ELSE nzp
    BY <1>4 DEF Stepped
  <2>5. CASE e = Len(g) - 2
    <3>1. PICK mi : mi = g[e]
      OBVIOUS
    <3>2. mi = Instruction("CMP", 0, x, y, 0)
      BY <2>2, <2>5, <3>1
    <3>3. mi.op = "CMP" /\ mi.rs1 = x /\ mi.rs2 = y /\ RegistersRead(mi) = {x, y}
      BY <3>2, InstructionFields, ReadsOf
    <3>4. Filled(x) /\ Filled(y)
      BY <1>4, <3>1, <3>3 DEF Stepped
    <3>5. c.ops[1] \in Needed(ins) /\ c.ops[2] \in Needed(ins)
      BY <1>5, TestOperands
    <3>6. Read(x) = Kernel!ValueOf(c.ops[1]) /\ Read(y) = Kernel!ValueOf(c.ops[2])
      BY <1>3, <2>2, <3>4, <3>5, ReadsValue DEF Values
    <3>7. Sum(mi) = WordOf(Read(x) - Read(y)) /\ SetsSign(mi)
      BY <3>3 DEF Sum, SetsSign
    <3>8. nzp' = Sign(WordOf(Read(x) - Read(y)))
      BY <2>4, <2>5, <3>1, <3>7, <1>2
    <3>9. ~(e > Len(g) - 2)
      BY <1>5, <2>5
    <3> QED
      BY <3>6, <3>8, <3>9
  <2>6. CASE e = Len(g) - 1
    <3>1. PICK mi : mi = g[e]
      OBVIOUS
    <3>2. mi.op = "BR" /\ mi.cond = BranchCond(c.form)
      BY <2>2, <2>6, <3>1, JumpFields
    <3>3. ~SetsSign(mi)
      BY <3>2 DEF SetsSign, ThreeRegister
    <3>4. nzp \notin LettersOf(BranchCond(c.form))
      BY <1>6, <3>1, <3>2 DEF Taken
    <3>5. done > Len(g) - 3
      BY <1>2, <1>5, <2>6
    <3> QED
      BY <2>3, <2>4, <3>1, <3>3, <3>4, <3>5
  <2>7. e < Len(g) - 2 \/ e = Len(g) - 2 \/ e = Len(g) - 1
    BY <1>5, <1>6
  <2> QED
    BY <1>5, <1>6, <2>5, <2>6, <2>7
<1> QED
  BY <1>8, <1>9, <1>11, <1>12, <1>13, <1>14 DEF Values, Inside

-----------------------------------------------------------------------------
(* From one instruction to the next.                                       *)

\* Two instructions are not each before the other.
LEMMA NotBothWays ==
  ASSUME kernel \in Kernels, NEW b \in Blocks, NEW i \in Int, NEW c \in Blocks, NEW j \in Int,
         Reachable(b), Precedes(kernel.blocks, c, j, b, i), Precedes(kernel.blocks, b, i, c, j)
  PROVE  FALSE
<1>1. CASE c = b
  BY <1>1 DEF Precedes
<1>2. CASE c # b
  <2>1. Dominates(kernel.blocks, c, b) /\ Dominates(kernel.blocks, b, c)
    BY <1>2 DEF Precedes
  <2>2. 1 \in Blocks
    BY KernelShape
  <2>3. \/ c = 1
        \/ \E S \in SUBSET (Blocks \ {c, b}) :
             1 \in S /\ \A d \in S : Successors(kernel.blocks, d) \subseteq S \cup {c}
    BY <1>2, <2>1 DEF Dominates, Blocks
  <2>4. \/ b = 1
        \/ \E T \in SUBSET (Blocks \ {b, c}) :
             1 \in T /\ \A d \in T : Successors(kernel.blocks, d) \subseteq T \cup {b}
    BY <1>2, <2>1 DEF Dominates, Blocks
  <2>5. c # 1 /\ b # 1
    BY <1>2, <2>3, <2>4
  <2>6. PICK S \in SUBSET (Blocks \ {c, b}) :
          1 \in S /\ \A d \in S : Successors(kernel.blocks, d) \subseteq S \cup {c}
    BY <2>3, <2>5
  <2>7. PICK T \in SUBSET (Blocks \ {b, c}) :
          1 \in T /\ \A d \in T : Successors(kernel.blocks, d) \subseteq T \cup {b}
    BY <2>4, <2>5
  <2>8. S \cap T \in SUBSET Blocks /\ 1 \in S \cap T /\ b \notin S \cap T
    BY <2>6, <2>7
  <2>9. \A d \in S \cap T : Successors(kernel.blocks, d) \subseteq S \cap T
    BY <1>2, <2>6, <2>7
  <2> QED
    BY <2>8, <2>9 DEF Reachable
<1> QED
  BY <1>1, <1>2

\* The entry block is reached.
LEMMA ReachedEntry == ASSUME kernel \in Kernels PROVE Reachable(1)
  BY DEF Reachable

\* So is a successor of a block that is.
LEMMA ReachableNext ==
  ASSUME NEW b \in Blocks, Reachable(b), NEW s \in Successors(kernel.blocks, b) PROVE Reachable(s)
  BY DEF Reachable

\* What a comparison compares.
LEMMA ComparedValues ==
  ASSUME kernel \in Kernels, Supported, NEW b \in Blocks, NEW i \in DOMAIN CodeOf(b),
         NEW ins, ins = CodeOf(b)[i], ins.op = "icmp"
  PROVE  /\ ins.form \in Predicates
         /\ ins.ops[1] \in Range(ins.ops) /\ ins.ops[2] \in Range(ins.ops)
         /\ \A v \in Range(ins.ops) :
              /\ v \in Operands /\ v[1] \in {"const", "arg", "ins"}
              /\ IsConst(v) => v[2] \in Int
              /\ v[1] = "arg" => v[2] \in 0..(kernel.params - 1) /\ v = Arg(v[2])
              /\ IsResult(v) =>
                   /\ v[2] \in Blocks /\ v[3] \in DOMAIN CodeOf(v[2]) /\ v = Result(v[2], v[3])
                   /\ Precedes(kernel.blocks, v[2], v[3], b, i)
                   /\ CodeOf(v[2])[v[3]].op # "icmp"
<1>1. /\ ins \in IRInstruction /\ InItsClass(ins)
      /\ \A v \in Range(ins.ops) : Defined(kernel, b, i, v)
  BY InstructionIsVerified
<1>2. IsSupported(ins)
  BY SupportedInstruction
<1>3. ins.form \in Predicates /\ Len(ins.ops) = 2
  BY <1>1 DEF InItsClass
<1>4. ins.ops \in Seq(Operands)
  BY <1>1 DEF IRInstruction
<1>5. Range(ins.ops) = {ins.ops[1], ins.ops[2]} /\ Range(ins.ops) \subseteq Operands
  <2> HIDE DEF Operands
  <2> QED
    BY <1>3, <1>4, RangeOfTwo
<1>6. ASSUME NEW v \in Range(ins.ops)
      PROVE  /\ v \in Operands /\ v[1] \in {"const", "arg", "ins"}
             /\ IsConst(v) => v[2] \in Int
             /\ v[1] = "arg" => v[2] \in 0..(kernel.params - 1) /\ v = Arg(v[2])
             /\ IsResult(v) =>
                  /\ v[2] \in Blocks /\ v[3] \in DOMAIN CodeOf(v[2]) /\ v = Result(v[2], v[3])
                  /\ Precedes(kernel.blocks, v[2], v[3], b, i)
                  /\ CodeOf(v[2])[v[3]].op # "icmp"
  <2>1. v \in Operands /\ v[1] # "global" /\ Defined(kernel, b, i, v)
    BY <1>1, <1>2, <1>5 DEF IsSupported
  <2>2. /\ v[1] \in {"const", "arg", "ins"}
        /\ IsConst(v) => v[2] \in Int
        /\ v[1] = "arg" => v[2] \in Nat /\ v = Arg(v[2])
        /\ IsResult(v) => v = Result(v[2], v[3])
    <3> HIDE DEF Operands
    <3> QED
      BY <2>1, OperandsAre
  <2>3. v[1] = "arg" => v[2] < kernel.params
    BY <2>1 DEF Defined
  <2>4. kernel.params \in Nat
    BY KernelShape
  <2>5. IsResult(v) => /\ v[2] \in Blocks /\ v[3] \in DOMAIN CodeOf(v[2])
                       /\ Precedes(kernel.blocks, v[2], v[3], b, i)
    BY <2>1 DEF Defined, Blocks, CodeOf
  <2>6. ASSUME IsResult(v) PROVE CodeOf(v[2])[v[3]].op # "icmp"
    <3> SUFFICES ASSUME CodeOf(v[2])[v[3]].op = "icmp" PROVE FALSE
      OBVIOUS
    <3>1. BranchOnly(v)
      BY <2>2, <2>5, <2>6, SupportedInstruction
    <3> QED
      BY <3>1 DEF BranchOnly
  <2> HIDE DEF Operands
  <2> QED
    BY <2>1, <2>2, <2>3, <2>4, <2>5, <2>6
<1> HIDE DEF Operands
<1> QED
  BY <1>3, <1>5, <1>6

\* The lane shows what a register has.
LEMMA ShownInRegister ==
  ASSUME Numbered, nextVReg <= FieldSize, NEW v, ~IsConst(v), InRegister(v)
  PROVE  Shown(v, regs) = Kernel!ValueOf(v)
<1>1. Field(valueToVReg[v]) = valueToVReg[v]
  <2>1. valueToVReg[v] \in 1..(nextVReg - 1) /\ nextVReg \in Nat
    BY DEF InRegister, Numbered
  <2>2. FieldSize \in Nat
    BY FieldSizeAssumption
  <2>3. valueToVReg[v] \in Nat /\ valueToVReg[v] < FieldSize
    BY <2>1, <2>2
  <2> QED
    BY <2>3, FieldsHold
<1>2. Shown(v, regs) = regs[valueToVReg[v]]
  BY <1>1 DEF Shown, InRegister
<1> QED
  BY <1>2 DEF InRegister

\* The lane shows the values that a comparison compares.
LEMMA ShownIs ==
  ASSUME Selected, NamesHold, ArgumentsHold, NEW b \in Blocks, NEW i \in DOMAIN CodeOf(b), Passed(b, i),
         CodeOf(b)[i].op = "icmp", NEW v \in Range(CodeOf(b)[i].ops)
  PROVE  Shown(v, regs) = Kernel!ValueOf(v) /\ (IsResult(v) => v \in DOMAIN env)
<1>1. kernel \in Kernels /\ Supported /\ Numbered /\ nextVReg <= FieldSize
  BY DEF Selected, Shape, InCode, Supported
<1>2. /\ v \in Operands /\ v[1] \in {"const", "arg", "ins"}
      /\ v[1] = "arg" => v[2] \in 0..(kernel.params - 1) /\ v = Arg(v[2])
      /\ IsResult(v) =>
           /\ v[2] \in Blocks /\ v[3] \in DOMAIN CodeOf(v[2]) /\ v = Result(v[2], v[3])
           /\ Precedes(kernel.blocks, v[2], v[3], b, i)
           /\ CodeOf(v[2])[v[3]].op # "icmp"
  <2> HIDE DEF Operands
  <2> QED
    BY <1>1, ComparedValues
<1>3. IsResult(v) => v \in DOMAIN env
  <2> HIDE DEF Operands
  <2> QED
    BY <1>2, OperandKnown
<1>4. CASE IsConst(v)
  <2>1. Shown(v, regs) = v[2]
    BY <1>4 DEF Shown
  <2> QED
    BY <1>3, <1>4, <2>1, ValueIs
<1>5. CASE ~IsConst(v)
  <2>1. InRegister(v)
    <3>1. v[1] = "arg" => InRegister(v)
      BY <1>2 DEF ArgumentsHold
    <3>2. IsResult(v) => InRegister(v)
      BY <1>2, <1>3, NamedInRegister
    <3> QED
      BY <1>2, <1>5, <3>1, <3>2 DEF IsConst, IsResult
  <2>2. Shown(v, regs) = Kernel!ValueOf(v)
    BY <1>1, <1>5, <2>1, ShownInRegister
  <2> QED
    BY <1>3, <2>2
<1> QED
  BY <1>4, <1>5

\* An instruction has its value: what comes before it is as it was.
LEMMA EnvAfter ==
  ASSUME kernel \in Kernels, Supported, NEW b \in Blocks, NEW i \in DOMAIN CodeOf(b),
         Reachable(b), Passed(b, i), UNCHANGED selectorVars, UNCHANGED args,
         NEW self, self = Result(b, i), NEW x, env' = Updated(env, self, x)
  PROVE  /\ DOMAIN env' = DOMAIN env \cup {self} /\ env'[self] = x
         /\ \A v \in DOMAIN env : v # self => env'[v] = env[v]
         /\ \A v : \/ v[1] \in {"const", "arg"}
                   \/ IsResult(v) /\ v \in DOMAIN env /\ v # self
                   => Kernel!ValueOf(v)' = Kernel!ValueOf(v)
         /\ \A c \in Blocks : \A j \in DOMAIN CodeOf(c) :
              Precedes(kernel.blocks, c, j, b, i) => Known(c, j)' /\ PredicateHolds(c, j)'
<1>1. /\ DOMAIN env' = DOMAIN env \cup {self} /\ env'[self] = x
      /\ \A v \in DOMAIN env : v # self => env'[v] = env[v]
  BY DEF Updated
<1>2. /\ UNCHANGED <<kernel, Blocks>> /\ \A c : CodeOf(c)' = CodeOf(c)
  BY CodeSame
<1>3. ASSUME NEW v, \/ v[1] \in {"const", "arg"}
                    \/ IsResult(v) /\ v \in DOMAIN env /\ v # self
      PROVE  Kernel!ValueOf(v)' = Kernel!ValueOf(v)
  <2>1. CASE v[1] = "const"
    BY <2>1 DEF Kernel!ValueOf, Kernel!IsConst
  <2>2. CASE v[1] = "arg"
    BY <2>2 DEF Kernel!ValueOf, Kernel!IsConst, Kernel!IsResult
  <2>3. CASE IsResult(v) /\ v \in DOMAIN env /\ v # self
    <3>1. env'[v] = env[v]
      BY <1>1, <2>3
    <3> QED
      BY <2>3, <3>1 DEF Kernel!ValueOf, Kernel!IsConst, Kernel!IsResult, IsResult
  <2> QED
    BY <1>3, <2>1, <2>2, <2>3
<1>4. ASSUME NEW c \in Blocks, NEW j \in DOMAIN CodeOf(c), Precedes(kernel.blocks, c, j, b, i)
      PROVE  Known(c, j)' /\ PredicateHolds(c, j)'
  <2>1. Known(c, j) /\ PredicateHolds(c, j)
    BY <1>4 DEF Passed
  <2>2. Known(c, j)'
    <3>1. /\ Kernel!Computes(CodeOf(c)[j]) => Result(c, j) \in DOMAIN env'
          /\ CodeOf(c)[j].op = "icmp" => \A v \in Range(CodeOf(c)[j].ops) : IsResult(v) => v \in DOMAIN env'
      BY <1>1, <2>1 DEF Known
    <3> QED
      BY <1>2, <3>1, Zenon DEF Known
  <2>3. ASSUME NEW ins, ins = CodeOf(c)[j], ins.op = "icmp"
        PROVE  env'[Result(c, j)] = Decided(ins)'
    <3>1. i \in Int /\ j \in Int
      BY KernelShape
    <3>2. Result(c, j) \in DOMAIN env
      BY <2>1, <2>3 DEF Known, Kernel!Computes
    <3>3. Result(c, j) # self
      <4>1. c # b \/ j # i
        BY <1>4, <3>1 DEF Precedes
      <4> QED
        BY <4>1 DEF Result
    <3>4. ASSUME NEW v \in Range(ins.ops) PROVE Kernel!ValueOf(v)' = Kernel!ValueOf(v)
      <4>1. /\ v[1] \in {"const", "arg", "ins"}
            /\ IsResult(v) => /\ v = Result(v[2], v[3])
                              /\ Precedes(kernel.blocks, v[2], v[3], c, j)
        BY <2>3, ComparedValues
      <4>2. IsResult(v) => v \in DOMAIN env
        BY <2>1, <2>3 DEF Known
      <4>3. v # self
        <5> SUFFICES ASSUME v = self PROVE FALSE
          OBVIOUS
        <5>1. IsResult(v) /\ v[2] = b /\ v[3] = i
          BY DEF Result, IsResult
        <5> QED
          BY <1>4, <3>1, <4>1, <5>1, NotBothWays
      <4> QED
        BY <1>3, <4>1, <4>2, <4>3 DEF IsResult
    <3>5. ins.ops[1] \in Range(ins.ops) /\ ins.ops[2] \in Range(ins.ops)
      BY <2>3, ComparedValues
    <3>6. Decided(ins)' = Decided(ins)
      BY <3>4, <3>5 DEF Decided
    <3>7. env[Result(c, j)] = Decided(ins)
      BY <2>1, <2>3 DEF PredicateHolds
    <3> QED
      BY <1>1, <3>2, <3>3, <3>6, <3>7
  <2>4. PredicateHolds(c, j)'
    BY <1>2, <2>3, Zenon DEF PredicateHolds
  <2> QED
    BY <2>2, <2>4
<1> QED
  BY <1>1, <1>3, <1>4

\* What holds of everything on the paths to an instruction, and of itself,
\* holds of everything on the paths to the next.
LEMMA PassedOn ==
  ASSUME kernel \in Kernels, UNCHANGED selectorVars,
         NEW b \in Blocks, NEW i \in DOMAIN CodeOf(b), Known(b, i)', PredicateHolds(b, i)',
         \A c \in Blocks : \A j \in DOMAIN CodeOf(c) :
           Precedes(kernel.blocks, c, j, b, i) => Known(c, j)' /\ PredicateHolds(c, j)'
  PROVE  /\ Passed(b, i + 1)'
         /\ i = Len(CodeOf(b)) => \A s \in Successors(kernel.blocks, b) : Passed(s, 1)'
<1>1. UNCHANGED <<kernel, Blocks>> /\ \A c : CodeOf(c)' = CodeOf(c)
  BY CodeSame
<1>2. \A c \in Blocks : \A j \in DOMAIN CodeOf(c) :
        Precedes(kernel.blocks, c, j, b, i + 1) => Known(c, j)' /\ PredicateHolds(c, j)'
  BY PrecedesFollowing
<1>3. ASSUME i = Len(CodeOf(b)), NEW s \in Successors(kernel.blocks, b)
      PROVE  \A c \in Blocks : \A j \in DOMAIN CodeOf(c) :
               Precedes(kernel.blocks, c, j, s, 1) => Known(c, j)' /\ PredicateHolds(c, j)'
  BY <1>3, PrecedesSuccessor
<1> QED
  BY <1>1, <1>2, <1>3, Zenon DEF Passed

\* The lane comes to an instruction, or to an end.
LEMMA Arrived ==
  ASSUME Selected, UNCHANGED selectorVars, Values', done' = 0,
         \/ at' = Returned
         \/ \E b \in Blocks : \E i \in DOMAIN CodeOf(b) :
              at' = <<b, i>> /\ ArgumentsHold' /\ Reachable(b) /\ Passed(b, i)'
  PROVE  Faithful'
<1>1. /\ Shape /\ Forms /\ Supported /\ Finished
      /\ UNCHANGED <<Blocks, code, prologue>> /\ \A c : CodeOf(c)' = CodeOf(c)
      /\ \A v : InstructionOf(v)' = InstructionOf(v)
      /\ \A b : Reachable(b)' <=> Reachable(b)
  BY CodeSame DEF Selected
<1>2. CASE at' = Returned
  <2>1. at' # NotStarted
    BY <1>2 DEF Returned, NotStarted
  <2>2. \A b \in Blocks : \A i \in DOMAIN CodeOf(b) : at' # <<b, i>>
    BY <1>1, <1>2, PlacesApart
  <2> QED
    BY <1>1, <2>1, <2>2, Zenon DEF Faithful, NotStarted
<1>3. ASSUME NEW b \in Blocks, NEW i \in DOMAIN CodeOf(b),
             at' = <<b, i>>, ArgumentsHold', Reachable(b), Passed(b, i)'
      PROVE  Faithful'
  <2>1. at' # NotStarted
    BY <1>1, <1>3, PlacesApart
  <2>2. GroupHolds'
    <3>1. \A d : d \notin 1..0
      OBVIOUS
    <3> QED
      BY <3>1 DEF GroupHolds
  <2>3. PICK g : g = code[b][i]
    OBVIOUS
  <2>4. Group' = g
    BY <1>1, <1>3, <2>1, <2>3 DEF Group, NotStarted
  <2>5. /\ IsCode(valueToVReg, nextVReg, g, b, i) /\ Len(g) \in Nat
    BY <1>1, <2>3, CodeIsFormed
  <2>6. Tested(b, i)'
    <3>1. PICK ins : ins = CodeOf(b)[i]
      OBVIOUS
    <3>2. ins.op = "br" /\ ins.ops # <<>> => Len(g) > 2
      <4>1. ins.op = "br" => MeansBranch(valueToVReg, g, ins)
        BY <2>5, <3>1 DEF IsCode, Means
      <4> QED
        BY <4>1, Zenon DEF MeansBranch
    <3>3. ins.op = "br" /\ ins.ops # <<>> => ~(0 > Len(g) - 3) /\ ~(0 > Len(g) - 2)
      BY <2>5, <3>2
    <3>4. ins = CodeOf(b)'[i]
      BY <1>1, <3>1
    <3> QED
      BY <2>4, <3>3, <3>4 DEF Tested
  <2>7. Inside(b, i)'
    BY <1>1, <1>3, <2>2, <2>6 DEF Inside
  <2>8. \A c \in Blocks : \A j \in DOMAIN CodeOf(c) : at' = <<c, j>> => c = b /\ j = i
    BY <1>3
  <2>9. \A c \in Blocks : \A j \in DOMAIN CodeOf(c) : at' = <<c, j>> => Inside(c, j)'
    BY <2>7, <2>8
  <2> QED
    BY <1>1, <2>1, <2>9, Zenon DEF Faithful, NotStarted
<1> QED
  BY <1>2, <1>3

\* Where the lane may go from instruction i of block b.
Onward(b, i, to) ==
  \/ to = Returned
  \/ to = <<b, i + 1>> /\ i < Len(CodeOf(b))
  \/ i = Len(CodeOf(b)) /\ \E s \in Successors(kernel.blocks, b) : to = <<s, 1>>

\* A lane that has done an instruction goes on with what it needs.
LEMMA GoesOn ==
  ASSUME Selected, UNCHANGED selectorVars, Values', ArgumentsHold', done' = 0,
         NEW b \in Blocks, NEW i \in DOMAIN CodeOf(b), Reachable(b), Onward(b, i, at'),
         Known(b, i)', PredicateHolds(b, i)',
         \A c \in Blocks : \A j \in DOMAIN CodeOf(c) :
           Precedes(kernel.blocks, c, j, b, i) => Known(c, j)' /\ PredicateHolds(c, j)'
  PROVE  Faithful'
<1>1. kernel \in Kernels
  BY DEF Selected, Shape, InCode
<1>2. /\ Passed(b, i + 1)'
      /\ i = Len(CodeOf(b)) => \A s \in Successors(kernel.blocks, b) : Passed(s, 1)'
  BY <1>1, PassedOn
<1>3. CASE at' = Returned
  BY <1>3, Arrived
<1>4. CASE at' = <<b, i + 1>> /\ i < Len(CodeOf(b))
  <2>1. i + 1 \in DOMAIN CodeOf(b)
    BY <1>1, <1>4, KernelShape
  <2> QED
    BY <1>2, <1>4, <2>1, Arrived
<1>5. ASSUME i = Len(CodeOf(b)), NEW s \in Successors(kernel.blocks, b), at' = <<s, 1>>
      PROVE  Faithful'
  <2>1. s \in Blocks
    <3>1. PICK ins \in Range(CodeOf(b)) : s \in Range(ins.succ)
      BY <1>5 DEF Successors, CodeOf
    <3>2. PICK k \in DOMAIN CodeOf(b) : ins = CodeOf(b)[k]
      BY <3>1 DEF Range
    <3> QED
      BY <1>1, <3>1, <3>2, InstructionIsVerified
  <2>2. 1 \in DOMAIN CodeOf(s)
    BY <1>1, <2>1, KernelShape
  <2>3. Reachable(s)
    BY <1>5, ReachableNext
  <2> QED
    BY <1>2, <1>5, <2>1, <2>2, <2>3, Arrived
<1> QED
  BY <1>3, <1>4, <1>5 DEF Onward

\* An instruction without a value is left behind.
LEMMA LeavesNothing ==
  ASSUME NEW b \in Blocks, NEW i \in DOMAIN CodeOf(b), At(b, i), ~Kernel!Computes(CodeOf(b)[i]),
         UNCHANGED selectorVars, UNCHANGED <<args, env>>, done' = 0,
         Typed', ConstantsHold', KeepsRegisters(Result(b, i)), Onward(b, i, at')
  PROVE  Faithful'
<1>1. /\ Selected /\ NamesHold /\ ArgumentsHold /\ Reachable(b) /\ Passed(b, i)
      /\ UNCHANGED <<kernel, Blocks>> /\ \A c : CodeOf(c)' = CodeOf(c)
  BY CodeSame DEF At, Inside, Values
<1>2. Result(b, i) \notin DOMAIN env
  <2> SUFFICES ASSUME Result(b, i) \in DOMAIN env PROVE FALSE
    OBVIOUS
  <2>1. PICK c \in Blocks : \E j \in DOMAIN CodeOf(c) :
          Result(b, i) = Result(c, j) /\ Kernel!Computes(CodeOf(c)[j])
    BY <1>1, Zenon DEF NamesHold
  <2> QED
    BY <2>1 DEF Result
<1>3. \A k : Result(b, i) # Arg(k)
  BY DEF Result, Arg
<1>4. NamesHold' /\ ArgumentsHold'
  BY <1>1, <1>2, <1>3, SameNames
<1>5. /\ \A c, j : Known(c, j)' <=> Known(c, j)
      /\ \A c, j : PredicateHolds(c, j)' <=> PredicateHolds(c, j)
  BY SameEnv
<1>6. CodeOf(b)[i].op # "icmp"
  BY DEF Kernel!Computes
<1>7. Known(b, i) /\ PredicateHolds(b, i)
  BY <1>6 DEF Known, PredicateHolds
<1>8. \A c \in Blocks : \A j \in DOMAIN CodeOf(c) :
        Precedes(kernel.blocks, c, j, b, i) => Known(c, j)' /\ PredicateHolds(c, j)'
  BY <1>1, <1>5 DEF Passed
<1> QED
  BY <1>1, <1>4, <1>5, <1>7, <1>8, GoesOn DEF Values

\* An instruction is left with the value x.
LEMMA LeavesValue ==
  ASSUME NEW b \in Blocks, NEW i \in DOMAIN CodeOf(b), At(b, i),
         NEW ins, ins = CodeOf(b)[i], Kernel!Computes(ins),
         NEW self, self = Result(b, i), NEW x \in Int, env' = Updated(env, self, x),
         UNCHANGED selectorVars, UNCHANGED <<args, mem>>, done' = 0,
         \A r \in DOMAIN regs' : regs'[r] \in Words, ConstantsHold', KeepsRegisters(self),
         ins.op # "icmp" => /\ self \in DOMAIN valueToVReg /\ valueToVReg[self] \in DOMAIN regs'
                            /\ regs'[valueToVReg[self]] = x,
         ins.op = "icmp" => x = Decided(ins),
         Onward(b, i, at')
  PROVE  Faithful'
<1>1. /\ Selected /\ Typed /\ NamesHold /\ ArgumentsHold /\ Reachable(b) /\ Passed(b, i)
      /\ UNCHANGED <<kernel, Blocks, valueToVReg>> /\ \A c : CodeOf(c)' = CodeOf(c)
  BY CodeSame DEF At, Inside, Values
<1>2. kernel \in Kernels /\ Supported
  BY <1>1 DEF Selected, Shape, InCode
<1>3. /\ DOMAIN env' = DOMAIN env \cup {self} /\ env'[self] = x
      /\ \A v \in DOMAIN env : v # self => env'[v] = env[v]
      /\ \A v : \/ v[1] \in {"const", "arg"}
                \/ IsResult(v) /\ v \in DOMAIN env /\ v # self
                => Kernel!ValueOf(v)' = Kernel!ValueOf(v)
      /\ \A c \in Blocks : \A j \in DOMAIN CodeOf(c) :
           Precedes(kernel.blocks, c, j, b, i) => Known(c, j)' /\ PredicateHolds(c, j)'
  BY <1>1, <1>2, EnvAfter
<1>4. Typed'
  <2>1. \A v \in DOMAIN env' : env'[v] \in Int
    BY <1>1, <1>3 DEF Typed
  <2> QED
    BY <1>1, <2>1 DEF Typed
<1>5. ASSUME NEW v, InRegister(v), ~IsConst(v), v # self, Kernel!ValueOf(v)' = Kernel!ValueOf(v)
      PROVE  InRegister(v)'
  BY <1>1, <1>5 DEF InRegister, KeepsRegisters
<1>6. ArgumentsHold'
  <2>1. \A k : ~IsConst(Arg(k)) /\ Arg(k) # self /\ Arg(k)[1] = "arg"
    BY DEF IsConst, Arg, Result
  <2>2. \A k : Kernel!ValueOf(Arg(k))' = Kernel!ValueOf(Arg(k))
    <3> SUFFICES ASSUME NEW k PROVE Kernel!ValueOf(Arg(k))' = Kernel!ValueOf(Arg(k))
      OBVIOUS
    <3>1. PICK v : v = Arg(k)
      OBVIOUS
    <3>2. Kernel!ValueOf(v)' = Kernel!ValueOf(v)
      BY <1>3, <2>1, <3>1
    <3> QED
      BY <3>1, <3>2
  <2>3. \A k \in 0..(kernel.params - 1) : InRegister(Arg(k))'
    BY <1>1, <1>5, <2>1, <2>2 DEF ArgumentsHold
  <2> QED
    BY <1>1, <2>3 DEF ArgumentsHold
<1>7. ASSUME NEW v \in DOMAIN env'
      PROVE  \E c \in Blocks : \E j \in DOMAIN CodeOf(c) :
               /\ v = Result(c, j) /\ Kernel!Computes(CodeOf(c)[j])
               /\ CodeOf(c)[j].op # "icmp" => InRegister(v)'
  <2>1. CASE v = self
    <3>1. ins.op # "icmp" => InRegister(v)'
      <4>1. Kernel!ValueOf(self)' = env'[self]
        <5>1. IsResult(self) /\ self[1] = "ins"
          BY DEF Result, IsResult
        <5> QED
          BY <5>1 DEF Kernel!ValueOf, Kernel!IsConst, Kernel!IsResult
      <4> QED
        BY <1>1, <1>3, <2>1, <4>1 DEF InRegister
    <3> QED
      BY <2>1, <3>1
  <2>2. CASE v # self
    <3>1. v \in DOMAIN env
      BY <1>3, <2>2
    <3>2. PICK c \in Blocks : \E j \in DOMAIN CodeOf(c) :
            /\ v = Result(c, j) /\ Kernel!Computes(CodeOf(c)[j])
            /\ CodeOf(c)[j].op # "icmp" => InRegister(v)
      BY <1>1, <3>1, Zenon DEF NamesHold
    <3>3. IsResult(v) /\ ~IsConst(v)
      BY <3>2 DEF Result, IsResult, IsConst
    <3>4. Kernel!ValueOf(v)' = Kernel!ValueOf(v)
      BY <1>3, <2>2, <3>1, <3>3
    <3> QED
      BY <1>5, <2>2, <3>2, <3>3, <3>4
  <2> QED
    BY <2>1, <2>2
<1>8. NamesHold'
  BY <1>1, <1>7, Zenon DEF NamesHold
<1>9. Known(b, i)'
  <2>1. Result(b, i) \in DOMAIN env'
    BY <1>3
  <2>2. ins.op = "icmp" => \A v \in Range(ins.ops) : IsResult(v) => v \in DOMAIN env'
    BY <1>1, <1>3, ShownIs
  <2> QED
    BY <1>1, <2>1, <2>2, Zenon DEF Known
<1>10. PredicateHolds(b, i)'
  <2>1. ins.op = "icmp" => Decided(ins)' = Decided(ins)
    <3> SUFFICES ASSUME ins.op = "icmp" PROVE Decided(ins)' = Decided(ins)
      OBVIOUS
    <3>1. ASSUME NEW v \in Range(ins.ops) PROVE Kernel!ValueOf(v)' = Kernel!ValueOf(v)
      <4>1. /\ v[1] \in {"const", "arg", "ins"}
            /\ IsResult(v) => /\ v = Result(v[2], v[3])
                              /\ Precedes(kernel.blocks, v[2], v[3], b, i)
        BY <1>2, ComparedValues
      <4>2. IsResult(v) => v \in DOMAIN env
        BY <1>1, ShownIs
      <4>3. v # self
        <5> SUFFICES ASSUME v = self PROVE FALSE
          OBVIOUS
        <5>1. IsResult(v) /\ v[2] = b /\ v[3] = i
          BY DEF Result, IsResult
        <5>2. i \in Int
          BY <1>2, KernelShape
        <5> QED
          BY <4>1, <5>1, <5>2 DEF Precedes
      <4> QED
        BY <1>3, <4>1, <4>2, <4>3 DEF IsResult
    <3>2. ins.ops[1] \in Range(ins.ops) /\ ins.ops[2] \in Range(ins.ops)
      BY <1>2, ComparedValues
    <3> QED
      BY <3>1, <3>2 DEF Decided
  <2>2. ins.op = "icmp" => env'[Result(b, i)] = Decided(ins)'
    BY <1>3, <2>1
  <2> QED
    BY <1>1, <2>2, Zenon DEF PredicateHolds
<1> QED
  BY <1>1, <1>3, <1>4, <1>6, <1>8, <1>9, <1>10, GoesOn DEF Values

-----------------------------------------------------------------------------
(* The kernel takes the same step.                                         *)

\* Every supported instruction is of one of five kinds.
LEMMA Classes ==
  ASSUME NEW ins, InItsClass(ins), IsSupported(ins)
  PROVE  Kernel!Computes(ins) \/ Kernel!Stores(ins) \/ Kernel!Waits(ins) \/ Kernel!Ends(ins) \/ ins.op = "br"
<1>1. ~IsDropped(ins) /\ ins.op # "alloca"
  BY DEF IsSupported
<1>2. Kernel!RegisterCalls = RegisterCalls
  BY KernelWords
<1>3. \/ ins.op \in {"ret", "binary", "icmp", "br", "load", "store", "cast", "gep"}
      \/ ins.op = "asm" /\ ins.form \in {"ldr", "str", "s2r", "sync", "ssy", "exit"}
      \/ /\ ins.op = "call"
         /\ ins.form \in {"syncthreads", "barrier", "gpu_exit"} \cup DOMAIN RegisterCalls \cup DimensionCalls
  BY <1>1 DEF InItsClass, IsDropped
<1> QED
  BY <1>2, <1>3 DEF Kernel!Computes, Kernel!Stores, Kernel!Waits, Kernel!Ends, DimensionCalls

\* The kernel is where the lane is.
LEMMA KernelStarts ==
  ASSUME Shape, UNCHANGED selectorVars, NEW b \in Blocks, NEW i \in DOMAIN CodeOf(b), at = <<b, i>>
  PROVE  /\ UNCHANGED kernel.blocks
         /\ Kernel!Following = <<b, i + 1>>
         /\ Kernel!Returned = Returned /\ KernelPosition # Kernel!Returned
         /\ at' # NotStarted => KernelPosition' = at'
<1>1. KernelPosition = <<b, i>> /\ at # Returned
  BY KernelIsAt
<1>2. UNCHANGED kernel
  BY CodeSame
<1>3. at' # NotStarted => KernelPosition' = at'
  BY DEF KernelPosition, NotStarted
<1>4. Kernel!Returned = Returned
  BY DEF Kernel!Returned, Returned
<1>5. Kernel!Following = <<b, i + 1>>
  BY <1>1 DEF Kernel!Following
<1> QED
  BY <1>1, <1>2, <1>3, <1>4, <1>5

\* A step of the kernel that gives a name a value.
LEMMA KernelComputes ==
  ASSUME Shape, UNCHANGED selectorVars, NEW b \in Blocks, NEW i \in DOMAIN CodeOf(b), at = <<b, i>>,
         Kernel!Computes(CodeOf(b)[i]), env' = Updated(env, Result(b, i), Kernel!Outcome),
         at' = <<b, i + 1>>, UNCHANGED <<args, mem>>
  PROVE  Kernel!Next
<1>1. KernelPosition[1] = b /\ KernelPosition[2] = i /\ Kernel!Ins = CodeOf(b)[i]
  BY KernelIsAt
<1>2. at' # NotStarted
  <2>1. i \in Nat \ {0}
    <3>1. kernel \in Kernels
      BY DEF Shape, InCode
    <3>2. DOMAIN CodeOf(b) = 1..Len(CodeOf(b)) /\ Len(CodeOf(b)) \in Nat
      BY <3>1, KernelShape
    <3> QED
      BY <3>2
  <2>2. i + 1 # 0
    BY <2>1
  <2> QED
    BY <2>2 DEF NotStarted
<1>3. /\ UNCHANGED kernel.blocks /\ KernelPosition' = Kernel!Following
      /\ KernelPosition # Kernel!Returned
  BY <1>2, KernelStarts
<1>4. env' = Kernel!Updated(env, Kernel!Result(KernelPosition[1], KernelPosition[2]), Kernel!Outcome)
  BY <1>1, KernelWords
<1>5. Kernel!Compute
  BY <1>1, <1>3, <1>4 DEF Kernel!Compute
<1> QED
  BY <1>3, <1>5 DEF Kernel!Next

\* A step of the kernel that writes memory.
LEMMA KernelStores ==
  ASSUME Shape, UNCHANGED selectorVars, NEW b \in Blocks, NEW i \in DOMAIN CodeOf(b), at = <<b, i>>,
         NEW ins, ins = CodeOf(b)[i], Kernel!Stores(ins),
         ins.bits = LANE_WIDTH_BITS,
         mem' = Kernel!StoredIn(mem, Kernel!ValueOf(ins.ops[2]), Kernel!ValueOf(ins.ops[1]), LANE_WIDTH_BITS),
         at' = <<b, i + 1>>, UNCHANGED <<args, env>>
  PROVE  Kernel!Next
<1>1. Kernel!Ins = ins
  BY KernelIsAt
<1>2. at' # NotStarted
  <2>1. i \in Nat \ {0}
    <3>1. kernel \in Kernels
      BY DEF Shape, InCode
    <3>2. DOMAIN CodeOf(b) = 1..Len(CodeOf(b)) /\ Len(CodeOf(b)) \in Nat
      BY <3>1, KernelShape
    <3> QED
      BY <3>2
  <2>2. i + 1 # 0
    BY <2>1
  <2> QED
    BY <2>2 DEF NotStarted
<1>3. /\ UNCHANGED kernel.blocks /\ KernelPosition' = Kernel!Following
      /\ KernelPosition # Kernel!Returned
  BY <1>2, KernelStarts
<1>4. mem' = Kernel!StoredIn(mem, Kernel!Y, Kernel!X, Kernel!Ins.bits)
  BY <1>1, Zenon DEF Kernel!X, Kernel!Y
<1>5. Kernel!WriteMemory
  BY <1>1, <1>3, <1>4 DEF Kernel!WriteMemory
<1> QED
  BY <1>3, <1>5 DEF Kernel!Next

\* A step of the kernel that does neither: a barrier, SYNC or SSY.
LEMMA KernelWaits ==
  ASSUME Shape, UNCHANGED selectorVars, NEW b \in Blocks, NEW i \in DOMAIN CodeOf(b), at = <<b, i>>,
         Kernel!Waits(CodeOf(b)[i]), at' = <<b, i + 1>>, UNCHANGED <<args, env, mem>>
  PROVE  Kernel!Next
<1>1. Kernel!Ins = CodeOf(b)[i]
  BY KernelIsAt
<1>2. at' # NotStarted
  <2>1. i \in Nat \ {0}
    <3>1. kernel \in Kernels
      BY DEF Shape, InCode
    <3>2. DOMAIN CodeOf(b) = 1..Len(CodeOf(b)) /\ Len(CodeOf(b)) \in Nat
      BY <3>1, KernelShape
    <3> QED
      BY <3>2
  <2>2. i + 1 # 0
    BY <2>1
  <2> QED
    BY <2>2 DEF NotStarted
<1>3. /\ UNCHANGED kernel.blocks /\ KernelPosition' = Kernel!Following
      /\ KernelPosition # Kernel!Returned
  BY <1>2, KernelStarts
<1>4. Kernel!Wait
  BY <1>1, <1>3 DEF Kernel!Wait
<1> QED
  BY <1>3, <1>4 DEF Kernel!Next

\* The return of the kernel.
LEMMA KernelReturns ==
  ASSUME Shape, UNCHANGED selectorVars, NEW b \in Blocks, NEW i \in DOMAIN CodeOf(b), at = <<b, i>>,
         Kernel!Ends(CodeOf(b)[i]), at' = Returned, UNCHANGED <<args, env, mem>>
  PROVE  Kernel!Next
<1>1. Kernel!Ins = CodeOf(b)[i]
  BY KernelIsAt
<1>2. at' # NotStarted
  BY DEF NotStarted, Returned
<1>3. /\ UNCHANGED kernel.blocks /\ KernelPosition' = Kernel!Returned
      /\ KernelPosition # Kernel!Returned
  BY <1>2, KernelStarts
<1>4. Kernel!Return
  BY <1>1, <1>3 DEF Kernel!Return
<1> QED
  BY <1>3, <1>4 DEF Kernel!Next

\* A branch of the kernel.
LEMMA KernelBranches ==
  ASSUME Shape, UNCHANGED selectorVars, NEW b \in Blocks, NEW i \in DOMAIN CodeOf(b), at = <<b, i>>,
         NEW ins, ins = CodeOf(b)[i], ins.op = "br",
         NEW s, at' = <<s, 1>>, UNCHANGED <<args, env, mem>>,
         s = IF ins.ops = <<>> \/ Kernel!ValueOf(ins.ops[1]) # 0 THEN ins.succ[1] ELSE ins.succ[2]
  PROVE  Kernel!Next
<1>1. Kernel!Ins = ins
  BY KernelIsAt
<1>2. at' # NotStarted
  BY DEF NotStarted
<1>3. /\ UNCHANGED kernel.blocks /\ KernelPosition' = at'
      /\ KernelPosition # Kernel!Returned
  BY <1>2, KernelStarts
<1>4. Kernel!Branch
  BY <1>1, <1>3 DEF Kernel!Branch, Kernel!X
<1> QED
  BY <1>3, <1>4 DEF Kernel!Next

-----------------------------------------------------------------------------
(* Leaving the code of an instruction.                                     *)

\* A group that ends neither in EXIT nor in a jump is not the last of its
\* block: the lane falls on to the next.
LEMMA FallsOn ==
  ASSUME Selected, LaneShape, NEW b \in Blocks, NEW i \in DOMAIN CodeOf(b), at = <<b, i>>,
         NEW g, g = Group,
         Len(g) = 0 \/ ~(g[Len(g)].op = "EXIT" \/ (g[Len(g)].op = "BR" /\ g[Len(g)].cond = ALWAYS))
  PROVE  i < Len(CodeOf(b)) /\ Fallthrough = <<b, i + 1>>
<1>1. g = code[b][i]
  BY LaneCode
<1>2. i < Len(CodeOf(b))
  <2> SUFFICES ASSUME ~(i < Len(CodeOf(b))) PROVE FALSE
    OBVIOUS
  <2>1. /\ Len(g) \in Nat \ {0}
        /\ g[Len(g)].op = "EXIT" \/ (g[Len(g)].op = "BR" /\ g[Len(g)].cond = ALWAYS)
    BY <1>1, LastOfBlock
  <2> QED
    BY <2>1
<1>3. at # NotStarted
  BY PlacesApart DEF Selected
<1> QED
  BY <1>2, <1>3 DEF Fallthrough

\* When the lane leaves a group, what it computed is given its name.
LEMMA LeaveSees ==
  ASSUME Shape, NEW b \in Blocks, NEW i \in DOMAIN CodeOf(b), at = <<b, i>>, NEW to, Leave(to)
  PROVE  /\ at' = to /\ done' = 0
         /\ Kernel!Computes(CodeOf(b)[i]) =>
              env' = Updated(env, Result(b, i), Seen(CodeOf(b)[i], Result(b, i)))
         /\ ~Kernel!Computes(CodeOf(b)[i]) => env' = env
<1>1. at # NotStarted /\ at[1] = b /\ at[2] = i
  BY PlacesApart
<1>2. env' = IF at # NotStarted /\ Kernel!Computes(CodeOf(at[1])[at[2]])
             THEN Updated(env, Result(at[1], at[2]), Seen(CodeOf(at[1])[at[2]], Result(at[1], at[2])))
             ELSE env
  BY DEF Leave
<1>3. at' = to /\ done' = 0
  BY DEF Leave
<1>4. Kernel!Computes(CodeOf(b)[i]) =>
        env' = Updated(env, Result(b, i), Seen(CodeOf(b)[i], Result(b, i)))
  BY <1>1, <1>2
<1>5. ~Kernel!Computes(CodeOf(b)[i]) => env' = env
  BY <1>1, <1>2
<1> QED
  BY <1>3, <1>4, <1>5

\* The last instruction of a group is executed.
Finishing(b, i, g) ==
  /\ At(b, i) /\ g = Group /\ done + 1 = Len(g)
  /\ Ready /\ ~Taken(NextInstruction) /\ NextInstruction.op # "EXIT"
  /\ Execute(NextInstruction) /\ Leave(Fallthrough)
  /\ UNCHANGED selectorVars /\ UNCHANGED args

\* What is known when the last instruction of a group falls on.
LEMMA FinishingIs ==
  ASSUME NEW b \in Blocks, NEW i \in DOMAIN CodeOf(b), NEW g, Finishing(b, i, g)
  PROVE  /\ Selected /\ Shape /\ LaneShape /\ Values /\ kernel \in Kernels /\ Supported /\ at = <<b, i>>
         /\ Numbered /\ nextVReg <= FieldSize
         /\ Len(g) \in Nat \ {0} /\ NextInstruction = g[Len(g)]
         /\ Stepped(g, Len(g), Result(b, i))
         /\ EndsWell(g, CodeOf(b)[i], Result(b, i))
         /\ i < Len(CodeOf(b)) /\ at' = <<b, i + 1>> /\ Onward(b, i, at') /\ done' = 0
         /\ CodeOf(b)[i].op # "br" /\ CodeOf(b)[i].op # "icmp" /\ ~Kernel!Ends(CodeOf(b)[i])
<1> DEFINE ins == CodeOf(b)[i]
<1>1. /\ At(b, i) /\ g = Group /\ done + 1 = Len(g)
      /\ Ready /\ ~Taken(NextInstruction) /\ NextInstruction.op # "EXIT"
      /\ Execute(NextInstruction) /\ Leave(Fallthrough)
      /\ UNCHANGED selectorVars
  BY DEF Finishing
<1>2. LaneShape /\ Selected /\ Values /\ Inside(b, i) /\ at = <<b, i>> /\ Shape
  BY <1>1 DEF At, Selected
<1>3. /\ Len(g) \in Nat /\ done \in Nat
      /\ Means(valueToVReg, g, ins, Result(b, i)) /\ InItsClass(ins) /\ IsSupported(ins)
      /\ kernel \in Kernels /\ Supported /\ Numbered
  BY <1>1, <1>2, LaneCode
<1>4. Len(g) \in Nat \ {0} /\ NextInstruction = g[Len(g)]
  BY <1>1, <1>3 DEF NextInstruction
<1>5. Stepped(g, Len(g), Result(b, i))
  BY <1>1, StepKeeps
<1>6. EndsWell(g, ins, Result(b, i))
  <2>1. AtEnd(b, i)
    BY <1>1, <1>2 DEF AtEnd, Ready
  <2> QED
    BY <1>1, <2>1, EndReached
<1>7. g[Len(g)].op # "EXIT" /\ ~(g[Len(g)].op = "BR" /\ g[Len(g)].cond = ALWAYS)
  BY <1>1, <1>4 DEF Taken
<1>8. i < Len(CodeOf(b)) /\ Fallthrough = <<b, i + 1>>
  BY <1>1, <1>2, <1>7, FallsOn
<1>9. at' = <<b, i + 1>> /\ done' = 0
  BY <1>1, <1>2, <1>8, LeaveSees
<1>10. ins.op # "br"
  <2> SUFFICES ASSUME ins.op = "br" PROVE FALSE
    OBVIOUS
  <2>1. MeansBranch(valueToVReg, g, ins)
    BY <1>3 DEF Means
  <2>2. \E k : g[Len(g)] = Jump(ALWAYS, k)
    BY <2>1, Zenon DEF MeansBranch
  <2>3. g[Len(g)].op = "BR" /\ g[Len(g)].cond = ALWAYS
    BY <2>2, JumpFields
  <2> QED
    BY <1>7, <2>3
<1>11. Frame(g, ins)
  BY <1>3 DEF Means
<1>12. ins.op # "icmp" /\ ~Kernel!Ends(ins)
  BY <1>4, <1>7, <1>10, <1>11 DEF Frame
<1>13. nextVReg <= FieldSize
  BY <1>3 DEF Supported
<1> QED
  BY <1>2, <1>3, <1>4, <1>5, <1>6, <1>8, <1>9, <1>10, <1>12, <1>13 DEF Onward

\* It gave the value that the kernel gives.
LEMMA FinishedComputing ==
  ASSUME NEW b \in Blocks, NEW i \in DOMAIN CodeOf(b), NEW g, Finishing(b, i, g),
         Kernel!Computes(CodeOf(b)[i])
  PROVE  Faithful' /\ Kernel!Next
<1>1. PICK ins : ins = CodeOf(b)[i]
  OBVIOUS
<1>2. PICK self : self = Result(b, i)
  OBVIOUS
<1>3. PICK mi : mi = g[Len(g)]
  OBVIOUS
<1>4. /\ Selected /\ Shape /\ Values /\ kernel \in Kernels /\ Supported /\ at = <<b, i>>
      /\ Numbered /\ nextVReg <= FieldSize
      /\ Stepped(g, Len(g), self) /\ EndsWell(g, ins, self)
      /\ at' = <<b, i + 1>> /\ Onward(b, i, at') /\ done' = 0 /\ ins.op # "icmp"
      /\ UNCHANGED selectorVars /\ UNCHANGED args /\ At(b, i) /\ Leave(Fallthrough)
  BY <1>1, <1>2, FinishingIs DEF Finishing
<1>5. ValueWritten(mi) = Kernel!Outcome
  BY <1>1, <1>3, <1>4, OutcomeWritten
<1>6. self \in DOMAIN valueToVReg /\ Writes(mi) /\ mi.rd = valueToVReg[self]
  <2>1. Means(valueToVReg, g, ins, self)
    BY <1>4 DEF EndsWell
  <2>2. self # Zero
    BY <1>2 DEF Result, Zero, Const
  <2> QED
    BY <1>1, <1>3, <1>4, <2>1, <2>2, ValueWrittenLast DEF Yield
<1>7. /\ RegistersAfter(mi) /\ (mi.op # "STR" => mem' = mem)
      /\ \A r \in DOMAIN regs' : regs'[r] \in Words
      /\ ConstantsHold' /\ KeepsRegisters(self)
  BY <1>3, <1>4 DEF Stepped
<1>8. valueToVReg[self] \in DOMAIN regs' /\ regs'[valueToVReg[self]] = Kernel!Outcome
  BY <1>5, <1>6, <1>7 DEF RegistersAfter
<1>9. mem' = mem
  BY <1>6, <1>7 DEF Writes, WritingOps, ThreeRegister
<1>10. UNCHANGED valueToVReg
  BY <1>4, CodeSame
<1>11. Field(valueToVReg[self]) = valueToVReg[self]
  <2>1. valueToVReg[self] \in 1..(nextVReg - 1) /\ nextVReg \in Nat /\ FieldSize \in Nat
    BY <1>4, <1>6, FieldSizeAssumption DEF Numbered
  <2>2. valueToVReg[self] \in Nat /\ valueToVReg[self] < FieldSize
    BY <1>4, <2>1
  <2> QED
    BY <2>2, FieldsHold
<1>12. Seen(ins, self) = Kernel!Outcome
  <2>1. Seen(ins, self) = Shown(self, regs')
    BY <1>4 DEF Seen
  <2>2. ~IsConst(self)
    BY <1>2 DEF Result, IsConst
  <2>3. Shown(self, regs') = regs'[valueToVReg[self]]
    BY <1>6, <1>8, <1>11, <2>2 DEF Shown
  <2> QED
    BY <1>8, <2>1, <2>3
<1>13. PICK x : x = Kernel!Outcome
  OBVIOUS
<1>14. env' = Updated(env, self, x)
  BY <1>1, <1>2, <1>4, <1>12, <1>13, LeaveSees
<1>15. x \in Int
  BY <1>7, <1>8, <1>13, WordsAre
<1>16. Faithful'
  BY <1>1, <1>2, <1>4, <1>6, <1>7, <1>8, <1>9, <1>13, <1>14, <1>15, LeavesValue
<1>17. Kernel!Next
  BY <1>1, <1>2, <1>4, <1>9, <1>13, <1>14, KernelComputes
<1> QED
  BY <1>16, <1>17

\* It wrote the word that the kernel writes.
LEMMA FinishedStoring ==
  ASSUME NEW b \in Blocks, NEW i \in DOMAIN CodeOf(b), NEW g, Finishing(b, i, g),
         Kernel!Stores(CodeOf(b)[i]), ~Kernel!Computes(CodeOf(b)[i])
  PROVE  Faithful' /\ Kernel!Next
<1>1. PICK ins : ins = CodeOf(b)[i]
  OBVIOUS
<1>2. PICK mi : mi = g[Len(g)]
  OBVIOUS
<1>3. /\ Selected /\ Shape /\ Values /\ kernel \in Kernels /\ Supported /\ at = <<b, i>>
      /\ Stepped(g, Len(g), Result(b, i)) /\ EndsWell(g, ins, Result(b, i))
      /\ at' = <<b, i + 1>> /\ Onward(b, i, at') /\ done' = 0
      /\ NextInstruction = mi
      /\ UNCHANGED selectorVars /\ UNCHANGED args /\ At(b, i) /\ Leave(Fallthrough)
      /\ Execute(NextInstruction)
  BY <1>1, <1>2, FinishingIs DEF Finishing
<1>4. PICK x, y : /\ IsNumberOf(valueToVReg, ins.ops[1], x) /\ IsNumberOf(valueToVReg, ins.ops[2], y)
                  /\ mi = Instruction("STR", 0, y, x, 0)
  BY <1>1, <1>2, <1>3, Zenon DEF EndsWell, Means
<1>5. mi.op = "STR" /\ mi.rs1 = y /\ mi.rs2 = x /\ RegistersRead(mi) = {x, y}
  BY <1>4, InstructionFields, ReadsOf
<1>6. Needed(ins) = {ins.ops[1], ins.ops[2]}
  BY <1>1, <1>3, NeededValues DEF Kernel!Stores
<1>7. Filled(x) /\ Filled(y)
  BY <1>2, <1>3, <1>5 DEF EndsWell
<1>8. /\ Read(x) = Kernel!ValueOf(ins.ops[1]) /\ Read(y) = Kernel!ValueOf(ins.ops[2])
      /\ Read(x) \in Words /\ Read(y) \in Words
  BY <1>3, <1>4, <1>6, <1>7 DEF EndsWell
<1>9. mem' = Kernel!StoredIn(mem, Kernel!ValueOf(ins.ops[2]), Kernel!ValueOf(ins.ops[1]), LANE_WIDTH_BITS)
  <2>1. mem' = Kernel!StoredIn(mem, Read(mi.rs1), Read(mi.rs2), LANE_WIDTH_BITS)
    BY <1>3, <1>5, Zenon DEF Execute
  <2> QED
    BY <1>5, <1>8, <2>1, Zenon
<1>10. DOMAIN mem' \subseteq Int /\ \A a \in DOMAIN mem' : mem'[a] \in Int
  <2>1. DOMAIN mem \subseteq Int /\ \A a \in DOMAIN mem : mem[a] \in Int
    BY <1>3 DEF Values, Typed
  <2>2. PICK a \in Int : a = Kernel!ValueOf(ins.ops[2])
    BY <1>8, WordsAre
  <2>3. PICK n \in Int : n = Kernel!ValueOf(ins.ops[1])
    BY <1>8, WordsAre
  <2>4. PICK stored : stored = Kernel!StoredIn(mem, a, n, LANE_WIDTH_BITS)
    OBVIOUS
  <2>5. DOMAIN stored \subseteq Int /\ \A c \in DOMAIN stored : stored[c] \in Int
    BY <2>1, <2>4, StoredIsMemory
  <2>6. mem' = stored
    BY <1>9, <2>2, <2>3, <2>4
  <2> QED
    BY <2>5, <2>6
<1>11. env' = env
  BY <1>1, <1>3, LeaveSees
<1>12. /\ \A r \in DOMAIN regs' : regs'[r] \in Words
       /\ ConstantsHold' /\ KeepsRegisters(Result(b, i))
  BY <1>3 DEF Stepped
<1>13. UNCHANGED kernel
  BY <1>3, CodeSame
<1>14. Typed'
  BY <1>3, <1>10, <1>11, <1>12, <1>13 DEF Typed, Values
<1>15. Faithful'
  BY <1>1, <1>3, <1>11, <1>12, <1>14, LeavesNothing
<1>16. ins.bits = LANE_WIDTH_BITS
  <2>1. InItsClass(ins) /\ IsSupported(ins) /\ (ins.op = "store" \/ (ins.op = "asm" /\ ins.form = "str"))
    BY <1>1, <1>3 DEF EndsWell, Kernel!Stores
  <2>2. ins.op = "store" => ins.bits = LANE_WIDTH_BITS
    BY <2>1 DEF IsSupported, HasWidth
  <2>3. ins.op = "asm" /\ ins.form = "str" => ins.bits = LANE_WIDTH_BITS
    BY <2>1 DEF InItsClass, RegisterCalls, DimensionCalls
  <2> QED
    BY <2>1, <2>2, <2>3
<1>17. Kernel!Next
  BY <1>1, <1>3, <1>9, <1>11, <1>16, KernelStores
<1> QED
  BY <1>15, <1>17

\* It did neither, as the kernel does.
LEMMA FinishedWaiting ==
  ASSUME NEW b \in Blocks, NEW i \in DOMAIN CodeOf(b), NEW g, Finishing(b, i, g),
         Kernel!Waits(CodeOf(b)[i]), ~Kernel!Stores(CodeOf(b)[i]), ~Kernel!Computes(CodeOf(b)[i])
  PROVE  Faithful' /\ Kernel!Next
<1>1. PICK ins : ins = CodeOf(b)[i]
  OBVIOUS
<1>2. PICK mi : mi = g[Len(g)]
  OBVIOUS
<1>3. /\ Selected /\ Shape /\ Values /\ at = <<b, i>> /\ Len(g) \in Nat \ {0}
      /\ Stepped(g, Len(g), Result(b, i)) /\ EndsWell(g, ins, Result(b, i))
      /\ at' = <<b, i + 1>> /\ Onward(b, i, at') /\ done' = 0 /\ ins.op # "br"
      /\ UNCHANGED selectorVars /\ UNCHANGED args /\ At(b, i) /\ Leave(Fallthrough)
  BY <1>1, <1>2, FinishingIs DEF Finishing
<1>4. mi.op # "STR"
  <2>1. Frame(g, ins)
    BY <1>3 DEF EndsWell, Means
  <2> QED
    BY <1>1, <1>2, <1>3, <2>1 DEF Frame
<1>5. mem' = mem
  BY <1>2, <1>3, <1>4 DEF Stepped
<1>6. env' = env
  BY <1>1, <1>3, LeaveSees
<1>7. /\ \A r \in DOMAIN regs' : regs'[r] \in Words
      /\ ConstantsHold' /\ KeepsRegisters(Result(b, i))
  BY <1>3 DEF Stepped
<1>8. UNCHANGED kernel
  BY <1>3, CodeSame
<1>9. Typed'
  BY <1>3, <1>5, <1>6, <1>7, <1>8 DEF Typed, Values
<1>10. Faithful'
  BY <1>1, <1>3, <1>6, <1>7, <1>9, LeavesNothing
<1>11. Kernel!Next
  BY <1>1, <1>3, <1>5, <1>6, KernelWaits
<1> QED
  BY <1>10, <1>11

\* Whatever it was, the kernel makes the same step.
LEMMA FinishedStep ==
  ASSUME NEW b \in Blocks, NEW i \in DOMAIN CodeOf(b), NEW g, Finishing(b, i, g)
  PROVE  Faithful' /\ Kernel!Next
<1>1. /\ EndsWell(g, CodeOf(b)[i], Result(b, i))
      /\ CodeOf(b)[i].op # "br" /\ ~Kernel!Ends(CodeOf(b)[i])
  BY FinishingIs
<1>2. \/ Kernel!Computes(CodeOf(b)[i]) \/ Kernel!Stores(CodeOf(b)[i]) \/ Kernel!Waits(CodeOf(b)[i])
  BY <1>1, Classes DEF EndsWell
<1> QED
  BY <1>2, FinishedComputing, FinishedStoring, FinishedWaiting

-----------------------------------------------------------------------------
(* The other steps within the code of a kernel.                            *)

\* What the lane does when it leaves registers and memory alone.
LEMMA NothingWritten ==
  ASSUME Values, UNCHANGED selectorVars, UNCHANGED <<args, regs, mem>>, NEW self
  PROVE  /\ \A r \in DOMAIN regs' : regs'[r] \in Words
         /\ ConstantsHold' /\ KeepsRegisters(self)
         /\ env' = env => Typed'
<1>1. UNCHANGED valueToVReg /\ UNCHANGED kernel
  BY CodeSame
<1>2. \A r \in DOMAIN regs' : regs'[r] \in Words
  BY DEF Values, Typed
<1>3. ConstantsHold'
  BY <1>1 DEF Values, ConstantsHold
<1>4. KeepsRegisters(self)
  BY DEF KeepsRegisters
<1>5. env' = env => Typed'
  BY <1>1 DEF Values, Typed
<1> QED
  BY <1>2, <1>3, <1>4, <1>5

\* What the kernel means by a comparison.
LEMMA ComparisonOutcome ==
  ASSUME NEW ins, Kernel!Ins = ins, ins.op = "icmp", ins.form \notin {"ldr", "s2r"}
  PROVE  Kernel!Outcome = Decided(ins)
  BY OutcomeIs DEF Kernel!X, Kernel!Y, Decided

\* A comparison has no code; its value is what the registers say.
LEMMA PassAt ==
  ASSUME NEW b \in Blocks, NEW i \in DOMAIN CodeOf(b), At(b, i), Pass
  PROVE  Faithful' /\ Kernel!Next
<1>1. PICK ins : ins = CodeOf(b)[i]
  OBVIOUS
<1>2. PICK self : self = Result(b, i)
  OBVIOUS
<1>3. PICK g : g = Group
  OBVIOUS
<1>4. /\ LaneShape /\ Selected /\ Values /\ Inside(b, i) /\ at = <<b, i>> /\ Shape
      /\ ArgumentsHold /\ Passed(b, i) /\ NamesHold
  BY DEF At, Selected, Inside, Values
<1>5. /\ g = <<>> /\ Leave(Fallthrough)
      /\ UNCHANGED selectorVars /\ UNCHANGED <<args, regs, mem>>
  BY <1>3 DEF Pass
<1>6. kernel \in Kernels /\ Supported /\ Means(valueToVReg, g, ins, self)
  BY <1>1, <1>2, <1>3, <1>4, LaneCode
<1>7. Len(g) = 0
  BY <1>5
<1>8. ins.op = "icmp"
  BY <1>6, <1>7 DEF Means, Frame
<1>9. i < Len(CodeOf(b)) /\ Fallthrough = <<b, i + 1>>
  BY <1>3, <1>4, <1>7, FallsOn
<1>10. Kernel!Computes(ins)
  BY <1>8 DEF Kernel!Computes
<1>11. /\ at' = <<b, i + 1>> /\ done' = 0
       /\ env' = Updated(env, self, Seen(ins, self))
  BY <1>1, <1>2, <1>4, <1>5, <1>9, <1>10, LeaveSees
<1>12. Seen(ins, self) = Decided(ins)
  <2>1. ins.ops[1] \in Range(ins.ops) /\ ins.ops[2] \in Range(ins.ops)
    BY <1>1, <1>6, <1>8, ComparedValues
  <2>2. Shown(ins.ops[1], regs) = Kernel!ValueOf(ins.ops[1])
    BY <1>1, <1>4, <1>8, <2>1, ShownIs
  <2>3. Shown(ins.ops[2], regs) = Kernel!ValueOf(ins.ops[2])
    BY <1>1, <1>4, <1>8, <2>1, ShownIs
  <2> QED
    BY <1>8, <2>2, <2>3 DEF Seen, Decided
<1>13. PICK x : x = Decided(ins)
  OBVIOUS
<1>14. x \in Int
  BY <1>13 DEF Decided
<1>15. /\ \A r \in DOMAIN regs' : regs'[r] \in Words
       /\ ConstantsHold' /\ KeepsRegisters(self)
  BY <1>4, <1>5, NothingWritten
<1>16. Onward(b, i, at')
  BY <1>9, <1>11 DEF Onward
<1>17. env' = Updated(env, self, x)
  BY <1>11, <1>12, <1>13
<1>18. UNCHANGED <<args, mem>>
  BY <1>5
<1>19. Faithful'
  BY <1>1, <1>2, <1>5, <1>8, <1>10, <1>11, <1>13, <1>14, <1>15, <1>16, <1>17, <1>18, LeavesValue
<1>20. x = Kernel!Outcome
  <2>1. Kernel!Ins = ins
    BY <1>1, <1>4, KernelIsAt
  <2>2. ins.form \in Predicates
    BY <1>1, <1>6, <1>8, ComparedValues
  <2>3. ins.form \notin {"ldr", "s2r"}
    BY <2>2 DEF Predicates
  <2> QED
    BY <1>8, <1>13, <2>1, <2>3, ComparisonOutcome
<1>21. Kernel!Next
  BY <1>1, <1>2, <1>4, <1>5, <1>10, <1>11, <1>17, <1>18, <1>20, KernelComputes
<1> QED
  BY <1>19, <1>21

\* A return computes nothing and does not branch.
LEMMA EndsAreApart ==
  ASSUME NEW ins, Kernel!Ends(ins) PROVE ~Kernel!Computes(ins) /\ ins.op # "br"
<1>1. \A name \in DOMAIN Kernel!RegisterCalls : name # "gpu_exit"
  BY KernelWords DEF RegisterCalls
<1> QED
  BY <1>1 DEF Kernel!Ends, Kernel!Computes

\* EXIT is what a return has become, and nothing else has.
LEMMA ExitAt ==
  ASSUME NEW b \in Blocks, NEW i \in DOMAIN CodeOf(b), At(b, i), Exit
  PROVE  Faithful' /\ Kernel!Next
<1>1. PICK ins : ins = CodeOf(b)[i]
  OBVIOUS
<1>2. PICK g : g = Group
  OBVIOUS
<1>3. PICK e : e = done + 1
  OBVIOUS
<1>4. /\ LaneShape /\ Selected /\ Values /\ at = <<b, i>> /\ Shape
  BY DEF At, Selected
<1>5. /\ done < Len(g) /\ g[e].op = "EXIT" /\ Leave(Returned)
      /\ UNCHANGED selectorVars /\ UNCHANGED <<args, regs, mem>>
  BY <1>2, <1>3 DEF Exit, Ready, NextInstruction
<1>6. Means(valueToVReg, g, ins, Result(b, i)) /\ Len(g) \in Nat /\ done \in Nat
  BY <1>1, <1>2, <1>4, LaneCode
<1>7. e \in 1..Len(g)
  BY <1>3, <1>5, <1>6
<1>8. ins.op # "br"
  <2> SUFFICES ASSUME ins.op = "br" PROVE FALSE
    OBVIOUS
  <2>1. MeansBranch(valueToVReg, g, ins)
    BY <1>6 DEF Means
  <2>2. CASE ins.ops = <<>>
    <3>1. Len(g) = 1 /\ g[1] = Jump(ALWAYS, ins.succ[1])
      BY <2>1, <2>2, Zenon DEF MeansBranch
    <3>2. e = 1
      BY <1>7, <3>1
    <3> QED
      BY <1>5, <3>1, <3>2, JumpFields
  <2>3. CASE ins.ops # <<>>
    <3>1. PICK x, y, c :
             /\ \A d \in 1..(Len(g) - 3) : Writes(g[d])
             /\ g[Len(g) - 2] = Instruction("CMP", 0, x, y, 0)
             /\ g[Len(g) - 1] = Jump(BranchCond(c.form), ins.succ[1])
             /\ g[Len(g)] = Jump(ALWAYS, ins.succ[2])
      BY <2>1, <2>3, Zenon DEF MeansBranch
    <3>2. CASE e \in 1..(Len(g) - 3)
      BY <1>5, <3>1, <3>2 DEF Writes, WritingOps, ThreeRegister
    <3>3. CASE e = Len(g) - 2
      BY <1>5, <3>1, <3>3, InstructionFields
    <3>4. CASE e = Len(g) - 1 \/ e = Len(g)
      BY <1>5, <3>1, <3>4, JumpFields
    <3> QED
      BY <1>6, <1>7, <3>2, <3>3, <3>4
  <2> QED
    BY <2>2, <2>3
<1>9. Kernel!Ends(ins)
  BY <1>5, <1>6, <1>7, <1>8 DEF Means, Frame
<1>10. ~Kernel!Computes(ins)
  BY <1>9, EndsAreApart
<1>11. at' = Returned /\ done' = 0 /\ env' = env
  BY <1>1, <1>4, <1>5, <1>10, LeaveSees
<1>12. Typed' /\ ConstantsHold' /\ KeepsRegisters(Result(b, i))
  BY <1>4, <1>5, <1>11, NothingWritten
<1>13. Onward(b, i, at')
  BY <1>11 DEF Onward
<1>14. UNCHANGED <<args, env>> /\ UNCHANGED <<args, env, mem>>
  BY <1>5, <1>11
<1>15. Faithful'
  BY <1>1, <1>5, <1>10, <1>11, <1>12, <1>13, <1>14, LeavesNothing
<1>16. Kernel!Next
  BY <1>1, <1>4, <1>5, <1>9, <1>11, <1>14, KernelReturns
<1> QED
  BY <1>15, <1>16

\* What a branch tests: the values its comparison compared, still in their
\* registers, and what came of it.
LEMMA TestedValues ==
  ASSUME Selected, Values, ArgumentsHold, NEW b \in Blocks, NEW i \in DOMAIN CodeOf(b), Passed(b, i),
         NEW ins, ins = CodeOf(b)[i], ins.op = "br", ins.ops # <<>>,
         NEW c, c = InstructionOf(ins.ops[1])
  PROVE  /\ c.form \in Predicates
         /\ \A v \in {c.ops[1], c.ops[2]} : Shown(v, regs) = Kernel!ValueOf(v) /\ Kernel!ValueOf(v) \in Words
         /\ Kernel!ValueOf(ins.ops[1]) = Decided(c)
<1>1. kernel \in Kernels /\ Supported /\ Numbered /\ nextVReg <= FieldSize
  BY DEF Selected, Shape, InCode, Supported
<1>2. c.form \in Predicates /\ {c.ops[1], c.ops[2]} \subseteq Needed(ins)
  BY <1>1, TestOperands
<1>3. ASSUME NEW v \in {c.ops[1], c.ops[2]}
      PROVE  Shown(v, regs) = Kernel!ValueOf(v) /\ Kernel!ValueOf(v) \in Words
  <2>1. v \in Needed(CodeOf(b)[i])
    BY <1>2
  <2>2. CASE IsConst(v)
    <3>1. v[2] \in Words
      <4>1. Fits(v[2])
        BY <1>1, <2>1, <2>2, NeededAre
      <4> QED
        BY <4>1, FittingBounds
    <3>2. Shown(v, regs) = v[2]
      BY <2>2 DEF Shown
    <3> QED
      BY <2>2, <3>1, <3>2, ValueIs
  <2>3. CASE ~IsConst(v)
    <3>1. InRegister(v)
      BY <2>1, <2>3, NeededHolds DEF Values
    <3>2. Shown(v, regs) = Kernel!ValueOf(v)
      BY <1>1, <2>3, <3>1, ShownInRegister
    <3>3. Kernel!ValueOf(v) \in Words
      BY <3>1 DEF InRegister, Values, Typed
    <3> QED
      BY <3>2, <3>3
  <2> QED
    BY <2>2, <2>3
<1>4. Kernel!ValueOf(ins.ops[1]) = Decided(c)
  <2>1. PICK v : v = ins.ops[1]
    OBVIOUS
  <2>2. /\ v[2] \in Blocks /\ v[3] \in DOMAIN CodeOf(v[2]) /\ v = Result(v[2], v[3])
        /\ c = CodeOf(v[2])[v[3]] /\ c.op = "icmp"
        /\ Precedes(kernel.blocks, v[2], v[3], b, i)
    BY <1>1, <2>1, PredicateOf
  <2>3. PredicateHolds(v[2], v[3])
    BY <2>2 DEF Passed
  <2>4. env[v] = Decided(c)
    BY <2>2, <2>3 DEF PredicateHolds
  <2>5. IsResult(v)
    BY <2>2 DEF Result, IsResult
  <2> QED
    BY <2>1, <2>4, <2>5, ValueIs
<1> QED
  BY <1>2, <1>3, <1>4

\* Blocks have names of their own, so that a jump goes where it should.
LEMMA LabelOfBlock ==
  ASSUME kernel \in Kernels, Supported, NEW s \in Blocks
  PROVE  BlockLabelled(BlockName(s)) = s
<1>1. BlockLabelled(BlockName(s)) \in Blocks /\ BlockName(BlockLabelled(BlockName(s))) = BlockName(s)
  BY LabelsAreFound
<1> QED
  BY <1>1 DEF Supported

\* The targets of a branch are blocks.
LEMMA BranchSuccessors ==
  ASSUME kernel \in Kernels, NEW b \in Blocks, NEW i \in DOMAIN CodeOf(b),
         NEW ins, ins = CodeOf(b)[i], ins.op = "br"
  PROVE  ins.succ[1] \in Blocks /\ (ins.ops # <<>> => ins.succ[2] \in Blocks)
<1>1. /\ ins \in IRInstruction /\ InItsClass(ins) /\ Range(ins.succ) \subseteq Blocks
  BY InstructionIsVerified
<1>2. <<Len(ins.ops), Len(ins.succ)>> \in {<<0, 1>>, <<1, 2>>}
  BY <1>1 DEF InItsClass
<1>3. ins.succ \in Seq(Nat) /\ ins.ops \in Seq(Operands)
  BY <1>1 DEF IRInstruction
<1>4. \A k \in 1..Len(ins.succ) : ins.succ[k] \in Blocks
  BY <1>1, <1>3, LenProperties DEF Range
<1>5. ins.ops # <<>> => Len(ins.ops) # 0
  BY <1>3, EmptySeq
<1> QED
  BY <1>2, <1>4, <1>5

\* The condition of a predicate is never the unconditional one.
LEMMA ConditionsAre ==
  \A pred \in Predicates : BranchCond(pred) # ALWAYS
  BY DEF Predicates, BranchCond, NE, ALWAYS

\* The conditional branch is taken when its predicate holds, unless it is one
\* that the sign of the difference does not decide.
LEMMA TestDecides ==
  ASSUME NEW b \in Blocks, NEW i \in DOMAIN CodeOf(b), At(b, i), ~AtMisreadComparison,
         NEW ins, ins = CodeOf(b)[i], ins.op = "br", ins.ops # <<>>,
         NEW c, c = InstructionOf(ins.ops[1]),
         nzp = Sign(WordOf(Kernel!ValueOf(c.ops[1]) - Kernel!ValueOf(c.ops[2])))
  PROVE  nzp \in LettersOf(BranchCond(c.form)) <=> Kernel!ValueOf(ins.ops[1]) # 0
<1>1. /\ Selected /\ Shape /\ Values /\ at = <<b, i>> /\ ArgumentsHold /\ Passed(b, i)
  BY DEF At, Selected, Inside
<1>2. PICK x : x = Kernel!ValueOf(c.ops[1])
  OBVIOUS
<1>3. PICK y : y = Kernel!ValueOf(c.ops[2])
  OBVIOUS
<1>4. /\ c.form \in Predicates
      /\ Shown(c.ops[1], regs) = x /\ Shown(c.ops[2], regs) = y /\ x \in Words /\ y \in Words
      /\ Kernel!ValueOf(ins.ops[1]) = Decided(c)
  BY <1>1, <1>2, <1>3, TestedValues
<1>5. ~Misread(c.form, x, y)
  <2>1. at \notin {NotStarted, Returned, Fault} /\ at[1] = b /\ at[2] = i
    BY <1>1, KernelIsAt
  <2>2. ~Misread(c.form, Shown(c.ops[1], regs), Shown(c.ops[2], regs))
    BY <2>1 DEF AtMisreadComparison
  <2> QED
    BY <1>4, <2>2
<1>6. Sign(WordOf(x - y)) \in LettersOf(BranchCond(c.form)) <=> Kernel!Holds(c.form, x, y)
  BY <1>4, <1>5, SignDecides
<1>7. Decided(c) # 0 <=> Kernel!Holds(c.form, x, y)
  BY <1>2, <1>3 DEF Decided
<1> QED
  BY <1>2, <1>3, <1>4, <1>6, <1>7

\* A jump that is taken goes where the kernel's branch goes: the first jump of
\* a group on the predicate, the second without a condition.
LEMMA BranchGoes ==
  ASSUME NEW b \in Blocks, NEW i \in DOMAIN CodeOf(b), At(b, i), Ready, Taken(NextInstruction),
         NEW ins, ins = CodeOf(b)[i], NEW s, s = BlockLabelled(NextInstruction.labelTarget)
  PROVE  /\ ins.op = "br" /\ Onward(b, i, <<s, 1>>)
         /\ ~AtMisreadComparison =>
              s = IF ins.ops = <<>> \/ Kernel!ValueOf(ins.ops[1]) # 0 THEN ins.succ[1] ELSE ins.succ[2]
<1>1. PICK g : g = Group
  OBVIOUS
<1>2. PICK e : e = done + 1
  OBVIOUS
<1>3. PICK mi : mi = g[e]
  OBVIOUS
<1>4. LaneShape /\ Selected /\ at = <<b, i>> /\ Tested(b, i)
  BY DEF At, Inside
<1>5. /\ g = code[b][i] /\ Means(valueToVReg, g, ins, Result(b, i)) /\ Len(g) \in Nat /\ done \in Nat
      /\ kernel \in Kernels /\ Supported
  BY <1>1, <1>4, LaneCode
<1>6. /\ e \in 1..Len(g) /\ NextInstruction = mi
      /\ mi.op = "BR" /\ (mi.cond = ALWAYS \/ nzp \in LettersOf(mi.cond))
  BY <1>1, <1>2, <1>3, <1>5 DEF Ready, NextInstruction, Taken
<1>7. i = Len(CodeOf(b)) /\ s \in Successors(kernel.blocks, b)
  BY <1>3, <1>4, <1>5, <1>6, JumpsOfGroup
<1>8. ins.op = "br"
  BY <1>3, <1>5, <1>6 DEF Means, Frame
<1>9. MeansBranch(valueToVReg, g, ins)
  BY <1>5, <1>8 DEF Means
<1>10. ins.succ[1] \in Blocks /\ (ins.ops # <<>> => ins.succ[2] \in Blocks)
  BY <1>5, <1>8, BranchSuccessors
<1>11. \A cond : \A t \in Blocks : mi = Jump(cond, t) => s = t /\ mi.cond = cond
  BY <1>5, <1>6, JumpFields, LabelOfBlock
<1>12. CASE ins.ops = <<>>
  <2>1. Len(g) = 1 /\ g[1] = Jump(ALWAYS, ins.succ[1])
    BY <1>9, <1>12, Zenon DEF MeansBranch
  <2>2. e = 1
    BY <1>6, <2>1
  <2>3. s = ins.succ[1]
    BY <1>3, <1>10, <1>11, <2>1, <2>2
  <2> QED
    BY <1>7, <1>8, <1>12, <2>3 DEF Onward
<1>13. CASE ins.ops # <<>>
  <2>1. PICK c : c = InstructionOf(ins.ops[1])
    OBVIOUS
  <2>2. PICK x, y :
          /\ Len(g) > 2 /\ \A d \in 1..(Len(g) - 3) : Writes(g[d])
          /\ g[Len(g) - 2] = Instruction("CMP", 0, x, y, 0)
          /\ g[Len(g) - 1] = Jump(BranchCond(c.form), ins.succ[1])
          /\ g[Len(g)] = Jump(ALWAYS, ins.succ[2])
    BY <1>9, <1>13, <2>1, Zenon DEF MeansBranch
  <2>3. e \notin 1..(Len(g) - 3)
    BY <1>3, <1>6, <2>2 DEF Writes, WritingOps, ThreeRegister
  <2>4. e # Len(g) - 2
    BY <1>3, <1>6, <2>2, InstructionFields
  <2>5. e = Len(g) - 1 \/ e = Len(g)
    BY <1>5, <1>6, <2>2, <2>3, <2>4
  <2>6. /\ nzp = Sign(WordOf(Kernel!ValueOf(c.ops[1]) - Kernel!ValueOf(c.ops[2])))
        /\ e = Len(g) => nzp \notin LettersOf(BranchCond(c.form))
    BY <1>1, <1>2, <1>4, <1>5, <1>8, <1>13, <2>1, <2>2, <2>5 DEF Tested
  <2>7. c.form \in Predicates
    BY <1>5, <1>8, <1>13, <2>1, TestOperands
  <2>8. ~AtMisreadComparison => (nzp \in LettersOf(BranchCond(c.form)) <=> Kernel!ValueOf(ins.ops[1]) # 0)
    BY <1>8, <1>13, <2>1, <2>6, TestDecides
  <2>9. CASE e = Len(g) - 1
    <3>1. s = ins.succ[1] /\ mi.cond = BranchCond(c.form)
      BY <1>3, <1>10, <1>11, <2>2, <2>9
    <3>2. nzp \in LettersOf(BranchCond(c.form))
      BY <1>6, <2>7, <3>1, ConditionsAre
    <3> QED
      BY <1>7, <1>8, <2>8, <3>1, <3>2 DEF Onward
  <2>10. CASE e = Len(g)
    <3>1. s = ins.succ[2]
      BY <1>3, <1>10, <1>11, <1>13, <2>2, <2>10
    <3> QED
      BY <1>7, <1>8, <1>13, <2>6, <2>8, <2>10, <3>1 DEF Onward
  <2> QED
    BY <2>5, <2>9, <2>10
<1> QED
  BY <1>12, <1>13

\* The step that takes a jump.
LEMMA BranchAt ==
  ASSUME NEW b \in Blocks, NEW i \in DOMAIN CodeOf(b), At(b, i), TakeBranch
  PROVE  Faithful' /\ (~AtMisreadComparison => Kernel!Next)
<1>1. PICK ins : ins = CodeOf(b)[i]
  OBVIOUS
<1>2. PICK s : s = BlockLabelled(NextInstruction.labelTarget)
  OBVIOUS
<1>3. /\ Ready /\ Taken(NextInstruction) /\ Leave(<<s, 1>>)
      /\ UNCHANGED selectorVars /\ UNCHANGED <<args, regs, mem>>
  BY <1>2 DEF TakeBranch
<1>4. /\ Selected /\ Values /\ at = <<b, i>> /\ Shape
  BY DEF At, Selected
<1>5. /\ ins.op = "br" /\ Onward(b, i, <<s, 1>>)
      /\ ~AtMisreadComparison =>
           s = IF ins.ops = <<>> \/ Kernel!ValueOf(ins.ops[1]) # 0 THEN ins.succ[1] ELSE ins.succ[2]
  BY <1>1, <1>2, <1>3, BranchGoes
<1>6. ~Kernel!Computes(ins)
  BY <1>5 DEF Kernel!Computes
<1>7. at' = <<s, 1>> /\ done' = 0 /\ env' = env
  BY <1>1, <1>3, <1>4, <1>6, LeaveSees
<1>8. Typed' /\ ConstantsHold' /\ KeepsRegisters(Result(b, i))
  BY <1>3, <1>4, <1>7, NothingWritten
<1>9. UNCHANGED <<args, env>> /\ UNCHANGED <<args, env, mem>>
  BY <1>3, <1>7
<1>10. Onward(b, i, at')
  BY <1>5, <1>7
<1>11. Faithful'
  BY <1>1, <1>3, <1>6, <1>7, <1>8, <1>9, <1>10, LeavesNothing
<1>12. ~AtMisreadComparison => Kernel!Next
  BY <1>1, <1>3, <1>4, <1>5, <1>7, <1>9, KernelBranches
<1> QED
  BY <1>11, <1>12

-----------------------------------------------------------------------------
(* Before the entry block.                                                 *)

\* The lane begins with nothing in its registers.
LEMMA NothingMapped == DOMAIN EmptyMap = {}
  BY DEF EmptyMap

\* The prologue is two instructions for each argument.
LEMMA PrologueLoads ==
  ASSUME Selected
  PROVE  /\ kernel.params \in Nat /\ Len(prologue) = 2 * kernel.params
         /\ \A k \in 0..(kernel.params - 1) : LoadsArgument(k)
<1>1. kernel \in Kernels /\ 1 \in Blocks /\ kernel.params \in Nat
  BY KernelShape DEF Selected, Shape, InCode
<1>2. position # <<1, 1>>
  BY <1>1 DEF Selected, Finished
<1>3. Len(prologue) = 2 * kernel.params
  BY <1>2 DEF Selected, Shape, Loaded
<1>4. PICK n \in 0..kernel.params : Len(prologue) = 2 * n /\ \A k \in 0..(n - 1) : LoadsArgument(k)
  BY Zenon DEF Selected, Forms, LoadsArguments
<1>5. n = kernel.params
  BY <1>1, <1>3, <1>4
<1> QED
  BY <1>1, <1>3, <1>4, <1>5

\* The addresses of the arguments a kernel can have.
Low == 0..2032

\* They fit an immediate.
LEMMA LowFits == ASSUME NEW m \in Low PROVE Fits(m)
  BY SMT DEF Fits, Low

\* So do the addresses of all their bytes.
LEMMA LowBytes == ASSUME NEW m \in Low, NEW i \in 0..3 PROVE Fits(m + i)
  BY SMT DEF Fits, Low

\* Arguments are eight bytes apart.
LEMMA AddressesAreLow == ASSUME NEW m \in 0..254 PROVE 8 * m \in Low
  BY SMT DEF Low

\* There are fewer arguments than registers, so that every address fits.
LEMMA AddressesFit ==
  ASSUME Selected, NEW k \in 0..(kernel.params - 1) PROVE 8 * k \in Low /\ Fits(8 * k)
<1> DEFINE n == kernel.params
           S == 0..(n - 1)
           T == 1..(nextVReg - 1)
           f == [j \in S |-> valueToVReg[Arg(j)]]
<1>1. /\ n \in Nat /\ \A j \in S : Arg(j) \in DOMAIN valueToVReg
      /\ Numbered /\ nextVReg <= FieldSize
  BY PrologueLoads DEF LoadsArgument, Selected, Shape, Supported
<1>2. nextVReg \in Nat \ {0} /\ f \in [S -> T]
  BY <1>1 DEF Numbered
<1>3. \A i, j \in S : f[i] = f[j] => i = j
  <2> SUFFICES ASSUME NEW i \in S, NEW j \in S, f[i] = f[j] PROVE i = j
    OBVIOUS
  <2>1. valueToVReg[Arg(i)] = valueToVReg[Arg(j)]
    OBVIOUS
  <2>2. Arg(i) = Arg(j)
    BY <1>1, <2>1 DEF Numbered
  <2> QED
    BY <2>2 DEF Arg
<1>4. /\ IsFiniteSet(S) /\ Cardinality(S) = n
      /\ IsFiniteSet(T) /\ Cardinality(T) = nextVReg - 1
  <2>1. IsFiniteSet(S) /\ Cardinality(S) = IF 0 > n - 1 THEN 0 ELSE (n - 1) - 0 + 1
    <3>1. 0 \in Int /\ n - 1 \in Int
      BY <1>1
    <3> HIDE DEF n
    <3> QED
      BY <3>1, FS_Interval, Zenon
  <2>2. IsFiniteSet(T) /\ Cardinality(T) = IF 1 > nextVReg - 1 THEN 0 ELSE (nextVReg - 1) - 1 + 1
    BY <1>2, FS_Interval
  <2> QED
    BY <1>1, <1>2, <2>1, <2>2
<1>5. ~(Cardinality(T) < Cardinality(S))
  <2> HIDE DEF S, T, f
  <2> QED
    BY <1>2, <1>3, <1>4, FS_PigeonHole
<1>6. n <= 255
  BY <1>1, <1>2, <1>4, <1>5, FieldSizeAssumption
<1>7. k \in 0..254
  BY <1>1, <1>6
<1> QED
  BY <1>7, AddressesAreLow, LowFits, Zenon

\* Argument k is the word at 8 k.
LEMMA ArgumentWord ==
  ASSUME NEW n \in Nat, args \in [1..n -> Words]
  PROVE  /\ \A k \in 0..(n - 1) : 8 * k \in Low =>
              Kernel!LoadedFrom(Kernel!ArgumentMemory, 8 * k, LANE_WIDTH_BITS) = args[k + 1]
         /\ DOMAIN Kernel!ArgumentMemory \subseteq Int
         /\ \A a \in DOMAIN Kernel!ArgumentMemory : Kernel!ArgumentMemory[a] \in Int
<1>1. PICK size \in {2, 4} : size = Kernel!Size(LANE_WIDTH_BITS)
  BY WordSize
<1> DEFINE B(a) == Kernel!Byte(args[a \div 8 + 1], a % 8)
<1>2. PICK bytes :
        bytes = UNION {8 * (k - 1)..8 * (k - 1) + Kernel!Size(LANE_WIDTH_BITS) - 1 : k \in DOMAIN args}
  OBVIOUS
<1>3. \A a : a \in bytes <=> \E k \in 1..n : \E i \in 0..(size - 1) : a = 8 * (k - 1) + i
  <2>1. \A a : a \in bytes <=> \E k \in 1..n : a \in 8 * (k - 1)..8 * (k - 1) + size - 1
    BY <1>1, <1>2
  <2>2. ASSUME NEW a, NEW k \in 1..n
        PROVE  a \in 8 * (k - 1)..8 * (k - 1) + size - 1 <=> \E i \in 0..(size - 1) : a = 8 * (k - 1) + i
    <3>1. PICK c \in Int : c = 8 * (k - 1)
      OBVIOUS
    <3>2. CASE size = 2
      <4>1. a \in c..c + size - 1 <=> a = c + 0 \/ a = c + 1
        BY <3>2
      <4> QED
        BY <3>1, <3>2, <4>1
    <3>3. CASE size = 4
      <4>1. a \in c..c + size - 1 <=> a = c + 0 \/ a = c + 1 \/ a = c + 2 \/ a = c + 3
        BY <3>3
      <4> QED
        BY <3>1, <3>3, <4>1
    <3> QED
      BY <3>2, <3>3
  <2> QED
    BY <2>1, <2>2
<1>4. PICK content : content = [a \in bytes |-> B(a)]
  OBVIOUS
<1>5. Kernel!ArgumentMemory = content
  BY <1>2, <1>4, Zenon DEF Kernel!ArgumentMemory
<1> HIDE DEF B
<1>6. DOMAIN content = bytes /\ \A a \in bytes : content[a] = B(a)
  BY <1>4
<1>7. ASSUME NEW k \in 0..(n - 1), NEW i \in 0..(size - 1), NEW a, a = 8 * k + i
      PROVE  a \in Int /\ a \in bytes /\ content[a] = Kernel!Byte(args[k + 1], i)
  <2>1. k + 1 \in 1..n /\ a = 8 * ((k + 1) - 1) + i /\ a \in Int
    BY <1>7
  <2>2. a \in bytes
    BY <1>3, <2>1
  <2>3. a \div 8 = k /\ a % 8 = i
    BY <1>7
  <2>4. B(a) = Kernel!Byte(args[k + 1], i)
    BY <2>3 DEF B
  <2> QED
    BY <1>6, <2>1, <2>2, <2>4
<1>8. \A k \in 0..(n - 1) : args[k + 1] \in Words
  OBVIOUS
<1>9. ASSUME NEW a \in bytes PROVE a \in Int /\ content[a] \in Int
  <2>1. PICK j \in 1..n : \E i \in 0..(size - 1) : a = 8 * (j - 1) + i
    BY <1>3
  <2>2. PICK i \in 0..(size - 1) : a = 8 * (j - 1) + i
    BY <2>1
  <2>3. PICK k \in 0..(n - 1) : k = j - 1
    OBVIOUS
  <2>4. a = 8 * k + i
    BY <2>2, <2>3
  <2>5. PICK x \in Int : x = args[k + 1]
    BY <1>8, WordsAre
  <2>6. i \in 0..3
    OBVIOUS
  <2>7. PICK y \in Int : y = Kernel!Byte(x, i)
    BY <2>6, ByteIsNumber
  <2>8. a \in Int /\ content[a] = Kernel!Byte(args[k + 1], i)
    BY <1>7, <2>4
  <2> QED
    BY <2>5, <2>7, <2>8
<1>10. ASSUME NEW k \in 0..(n - 1), 8 * k \in Low
      PROVE  Kernel!LoadedFrom(content, 8 * k, LANE_WIDTH_BITS) = args[k + 1]
  <2>1. PICK m \in Low : m = 8 * k
    BY <1>10
  <2>2. PICK x \in Words : x = args[k + 1]
    BY <1>8
  <2>3. ASSUME NEW i \in 0..(Kernel!Size(LANE_WIDTH_BITS) - 1)
        PROVE  Kernel!MemoryAt(content, WordOf(m + i)) = Kernel!Byte(x, i)
    <3>1. i \in 0..(size - 1)
      BY <1>1
    <3>2. i \in 0..3
      BY <3>1
    <3>3. PICK a : a = m + i
      OBVIOUS
    <3>4. Fits(m + i)
      BY <3>2, LowBytes
    <3>5. WordOf(a) = a
      BY <3>3, <3>4, FittingBounds, WordsAre
    <3>6. a \in DOMAIN content /\ content[a] = Kernel!Byte(x, i)
      BY <1>6, <1>7, <2>1, <2>2, <3>1, <3>3
    <3> QED
      BY <3>3, <3>5, <3>6, Zenon DEF Kernel!MemoryAt
  <2>4. Kernel!LoadedFrom(content, m, LANE_WIDTH_BITS) = x
    BY <2>3, WordOfBytes
  <2> QED
    BY <2>1, <2>2, <2>4
<1> QED
  BY <1>5, <1>6, <1>10, <1>9

\* The lane loads argument k: it has executed 2 k instructions, or one more.
Loading(k) ==
  /\ LaneShape /\ Selected /\ LaneFilled /\ Values /\ PrologueHolds /\ at = NotStarted
  /\ k \in 0..(kernel.params - 1) /\ done \in {2 * k, 2 * k + 1}
  /\ Execute(NextInstruction) /\ UNCHANGED selectorVars /\ UNCHANGED args

\* A register of no other value gets a number.
LEMMA WritesAlone ==
  ASSUME Typed, ConstantsHold, UNCHANGED valueToVReg, NEW mi, Writes(mi),
         NEW self, ~IsConst(self), mi.rd \in 1..(nextVReg - 1), ValueWritten(mi) \in Words,
         \A v \in DOMAIN valueToVReg : valueToVReg[v] = mi.rd => v = self,
         RegistersAfter(mi)
  PROVE  /\ \A r \in DOMAIN regs' : regs'[r] \in Words
         /\ ConstantsHold' /\ KeepsRegisters(self)
<1>1. PICK g : g = <<mi>>
  OBVIOUS
<1>2. Len(g) = 1 /\ g[1] = mi
  BY <1>1
<1>3. WritesWell(g, mi, self, 1)
  BY <1>2 DEF WritesWell
<1>4. RegistersAfter(g[1])
  BY <1>2
<1> QED
  BY <1>3, <1>4, RegistersKept

\* What is known when the lane loads argument k.
LEMMA LoadingIs ==
  ASSUME NEW k, Loading(k)
  PROVE  /\ k \in Nat /\ done \in Nat /\ done < Len(prologue) /\ NextInstruction = prologue[done + 1]
         /\ Arg(k) \in DOMAIN valueToVReg /\ ~IsConst(Arg(k)) /\ Kernel!ValueOf(Arg(k)) = args[k + 1]
         /\ args[k + 1] \in Words /\ UNCHANGED valueToVReg /\ Fits(8 * k)
         /\ Typed /\ ConstantsHold /\ Numbered
         /\ \E t : /\ IsFree(valueToVReg, nextVReg, t)
                   /\ prologue[2 * k + 1] = Fill(t, 8 * k)
                   /\ prologue[2 * k + 2] = Instruction("LDR", valueToVReg[Arg(k)], t, 0, 0)
<1>1. /\ Selected /\ at = NotStarted /\ k \in 0..(kernel.params - 1) /\ done \in {2 * k, 2 * k + 1}
      /\ UNCHANGED selectorVars /\ Values
  BY DEF Loading
<1>2. /\ kernel.params \in Nat /\ Len(prologue) = 2 * kernel.params /\ LoadsArgument(k)
  BY <1>1, PrologueLoads
<1>3. k \in Nat /\ done \in Nat /\ done < Len(prologue)
  BY <1>1, <1>2
<1>4. NextInstruction = prologue[done + 1]
  BY <1>1 DEF NextInstruction, Group
<1>5. ~IsConst(Arg(k)) /\ Kernel!ValueOf(Arg(k)) = args[k + 1]
  <2>1. PICK v : v = Arg(k)
    OBVIOUS
  <2>2. v[1] = "arg" /\ v[2] = k
    BY <2>1 DEF Arg
  <2> QED
    BY <2>1, <2>2, ValueIs DEF IsConst
<1>6. args[k + 1] \in Words
  <2>1. args \in [1..kernel.params -> Words]
    BY <1>1 DEF Values, Typed
  <2>2. k + 1 \in 1..kernel.params
    BY <1>1, <1>2
  <2> QED
    BY <2>1, <2>2
<1>7. UNCHANGED valueToVReg
  BY <1>1, CodeSame
<1>8. Fits(8 * k)
  BY <1>1, AddressesFit
<1>9. Typed /\ ConstantsHold /\ Numbered
  BY <1>1 DEF Values, Selected, Shape
<1>10. /\ Arg(k) \in DOMAIN valueToVReg
       /\ \E t : /\ IsFree(valueToVReg, nextVReg, t)
                 /\ prologue[2 * k + 1] = Fill(t, 8 * k)
                 /\ prologue[2 * k + 2] = Instruction("LDR", valueToVReg[Arg(k)], t, 0, 0)
  BY <1>2, Zenon DEF LoadsArgument
<1> QED
  BY <1>3, <1>4, <1>5, <1>6, <1>7, <1>8, <1>9, <1>10

\* The address goes into a register of no value.
LEMMA AddressLoaded ==
  ASSUME NEW k, Loading(k), done = 2 * k
  PROVE  /\ \A r \in DOMAIN regs' : regs'[r] \in Words
         /\ ConstantsHold' /\ KeepsRegisters(Arg(k)) /\ mem' = mem
         /\ prologue[2 * k + 1].rd \in DOMAIN regs' /\ regs'[prologue[2 * k + 1].rd] = 8 * k
<1>1. PICK mi : mi = prologue[2 * k + 1]
  OBVIOUS
<1>2. PICK a : a = 8 * k
  OBVIOUS
<1>3. /\ k \in Nat /\ ~IsConst(Arg(k)) /\ UNCHANGED valueToVReg /\ Fits(a)
      /\ NextInstruction = mi /\ Typed /\ ConstantsHold /\ Execute(mi)
  BY <1>1, <1>2, LoadingIs DEF Loading
<1>4. PICK t : IsFree(valueToVReg, nextVReg, t) /\ mi = Fill(t, a)
  BY <1>1, <1>2, LoadingIs
<1>5. /\ mi.op = "ADDI" /\ mi.rd = t /\ Writes(mi) /\ RegistersRead(mi) = {VREG_ZERO}
      /\ ValueWritten(mi) = a /\ a \in Words
  BY <1>3, <1>4, FillFields, FillWrites, FittingBounds
<1>6. /\ t \in 1..(nextVReg - 1) /\ \A v \in DOMAIN valueToVReg : valueToVReg[v] # t
      /\ t # VREG_ZERO
  BY <1>4 DEF IsFree, VREG_ZERO
<1>7. RegistersAfter(mi) /\ mem' = mem
  BY <1>3, <1>5, <1>6, Executes
<1>8. /\ \A r \in DOMAIN regs' : regs'[r] \in Words
      /\ ConstantsHold' /\ KeepsRegisters(Arg(k))
  BY <1>3, <1>5, <1>6, <1>7, WritesAlone
<1>9. t \in DOMAIN regs' /\ regs'[t] = a
  BY <1>5, <1>7 DEF RegistersAfter
<1> QED
  BY <1>1, <1>2, <1>5, <1>7, <1>8, <1>9

\* The argument goes into its register.
LEMMA ArgumentLoaded ==
  ASSUME NEW k, Loading(k), done = 2 * k + 1
  PROVE  /\ \A r \in DOMAIN regs' : regs'[r] \in Words
         /\ ConstantsHold' /\ KeepsRegisters(Arg(k)) /\ mem' = mem
         /\ valueToVReg[Arg(k)] \in DOMAIN regs' /\ regs'[valueToVReg[Arg(k)]] = args[k + 1]
<1>1. PICK mi : mi = prologue[2 * k + 2]
  OBVIOUS
<1>2. PICK self : self = Arg(k)
  OBVIOUS
<1>3. PICK d : d = valueToVReg[self]
  OBVIOUS
<1>4. /\ k \in Nat /\ self \in DOMAIN valueToVReg /\ ~IsConst(self) /\ UNCHANGED valueToVReg
      /\ args[k + 1] \in Words /\ Typed /\ ConstantsHold /\ Numbered
  BY <1>2, LoadingIs
<1>5. NextInstruction = mi /\ Execute(mi)
  <2>1. done + 1 = 2 * k + 2
    BY <1>4
  <2> QED
    BY <1>1, <2>1, LoadingIs DEF Loading
<1>6. PICK t, fill : /\ IsFree(valueToVReg, nextVReg, t)
                     /\ fill = prologue[2 * k + 1] /\ fill = Fill(t, 8 * k)
                     /\ mi = Instruction("LDR", d, t, 0, 0)
  BY <1>1, <1>2, <1>3, LoadingIs
<1>7. t \in DOMAIN regs /\ regs[t] = 8 * k
  <2>1. fill.rd = t
    BY <1>6, FillFields
  <2>2. /\ prologue[done].rd \in DOMAIN regs /\ regs[prologue[done].rd] = 8 * k
    BY DEF Loading, PrologueHolds
  <2> QED
    BY <1>6, <2>1, <2>2
<1>8. t # VREG_ZERO
  BY <1>6 DEF IsFree, VREG_ZERO
<1>9. Read(t) = 8 * k
  BY <1>7, <1>8 DEF Read
<1>10. ValueWritten(mi) = args[k + 1]
  <2>1. ValueWritten(mi) = Kernel!LoadedFrom(mem, Read(t), LANE_WIDTH_BITS)
    BY <1>6, WrittenBy
  <2>2. mem = Kernel!ArgumentMemory
    BY DEF Loading, PrologueHolds
  <2>3. kernel.params \in Nat /\ args \in [1..kernel.params -> Words] /\ k \in 0..(kernel.params - 1)
    BY <1>4, PrologueLoads DEF Loading, Typed
  <2>4. 8 * k \in Low
    BY <2>3, AddressesFit DEF Loading
  <2>5. Kernel!LoadedFrom(Kernel!ArgumentMemory, 8 * k, LANE_WIDTH_BITS) = args[k + 1]
    BY <2>3, <2>4, ArgumentWord
  <2> QED
    BY <1>9, <2>1, <2>2, <2>5
<1>11. mi.op = "LDR" /\ mi.rd = d /\ Writes(mi)
  BY <1>6, InstructionFields DEF Writes, WritingOps
<1>12. d \in 1..(nextVReg - 1) /\ d # VREG_ZERO /\ \A v \in DOMAIN valueToVReg : valueToVReg[v] = d => v = self
  BY <1>3, <1>4 DEF Numbered, VREG_ZERO
<1>13. RegistersAfter(mi) /\ mem' = mem
  BY <1>5, <1>11, <1>12, Executes
<1>14. /\ \A r \in DOMAIN regs' : regs'[r] \in Words
       /\ ConstantsHold' /\ KeepsRegisters(self)
  BY <1>4, <1>10, <1>11, <1>12, <1>13, WritesAlone
<1>15. d \in DOMAIN regs' /\ regs'[d] = args[k + 1]
  BY <1>10, <1>11, <1>13 DEF RegistersAfter
<1> QED
  BY <1>2, <1>3, <1>13, <1>14, <1>15

\* The arguments loaded so far stay where they are.
LEMMA LoadingKeeps ==
  ASSUME NEW k, Loading(k), env' = env
  PROVE  /\ Values' /\ mem' = mem
         /\ done = 2 * k => /\ prologue[2 * k + 1].rd \in DOMAIN regs'
                            /\ regs'[prologue[2 * k + 1].rd] = 8 * k
         /\ \A j \in 0..(kernel.params - 1) : done + 1 >= 2 * j + 2 => InRegister(Arg(j))'
<1>1. /\ LaneShape /\ Selected /\ Values /\ PrologueHolds /\ done \in {2 * k, 2 * k + 1}
      /\ UNCHANGED selectorVars /\ UNCHANGED <<args, env>>
  BY DEF Loading
<1>2. /\ \A r \in DOMAIN regs' : regs'[r] \in Words
      /\ ConstantsHold' /\ KeepsRegisters(Arg(k)) /\ mem' = mem
      /\ done = 2 * k => /\ prologue[2 * k + 1].rd \in DOMAIN regs'
                         /\ regs'[prologue[2 * k + 1].rd] = 8 * k
      /\ done = 2 * k + 1 => /\ valueToVReg[Arg(k)] \in DOMAIN regs'
                             /\ regs'[valueToVReg[Arg(k)]] = args[k + 1]
  BY <1>1, AddressLoaded, ArgumentLoaded
<1>3. UNCHANGED kernel /\ UNCHANGED valueToVReg
  BY <1>1, CodeSame
<1>4. Typed'
  BY <1>1, <1>2, <1>3 DEF Values, Typed
<1>5. NamesHold'
  <2>1. env' = EmptyMap
    BY <1>1 DEF PrologueHolds
  <2>2. DOMAIN env' = {}
    BY <2>1, NothingMapped
  <2> QED
    BY <2>2, Zenon DEF NamesHold
<1>6. ASSUME NEW j \in 0..(kernel.params - 1), done + 1 >= 2 * j + 2
      PROVE  InRegister(Arg(j))'
  <2>1. PICK v : v = Arg(j)
    OBVIOUS
  <2>2. Kernel!ValueOf(v)' = Kernel!ValueOf(v)
    BY <1>1, SameEnv
  <2>3. k \in Nat /\ j \in Nat /\ kernel.params \in Nat
    BY <1>1, LoadingIs, PrologueLoads
  <2>4. CASE j = k
    <3>1. done = 2 * k + 1
      BY <1>1, <1>6, <2>3, <2>4
    <3>2. v \in DOMAIN valueToVReg /\ Kernel!ValueOf(v) = args[k + 1]
      BY <2>1, <2>4, LoadingIs
    <3>3. valueToVReg[v] \in DOMAIN regs' /\ regs'[valueToVReg[v]] = args[k + 1]
      BY <1>2, <2>1, <2>4, <3>1
    <3>4. InRegister(v)'
      BY <1>3, <2>2, <3>2, <3>3 DEF InRegister
    <3> QED
      BY <2>1, <3>4
  <2>5. CASE j # k
    <3>1. done >= 2 * j + 2
      BY <1>1, <1>6, <2>3, <2>5
    <3>2. InRegister(v)
      BY <1>1, <2>1, <3>1 DEF PrologueHolds
    <3>3. v # Arg(k) /\ ~IsConst(v)
      BY <2>1, <2>5 DEF Arg, IsConst
    <3>4. valueToVReg[v] \in DOMAIN regs' /\ regs'[valueToVReg[v]] = regs[valueToVReg[v]]
      BY <1>2, <3>2, <3>3 DEF KeepsRegisters, InRegister
    <3>5. InRegister(v)'
      BY <1>3, <2>2, <3>2, <3>4 DEF InRegister
    <3> QED
      BY <2>1, <3>5
  <2> QED
    BY <2>4, <2>5
<1> QED
  BY <1>1, <1>2, <1>3, <1>4, <1>5, <1>6 DEF Values

\* The entry block begins with every argument in its register.
LEMMA EntryReached ==
  ASSUME Selected, UNCHANGED selectorVars, Values', done' = 0, at' = <<1, 1>>,
         \A j \in 0..(kernel.params - 1) : InRegister(Arg(j))'
  PROVE  Faithful'
<1>1. kernel \in Kernels
  BY DEF Selected, Shape, InCode
<1>2. 1 \in Blocks /\ 1 \in DOMAIN CodeOf(1)
  BY <1>1, KernelShape
<1>3. UNCHANGED kernel /\ UNCHANGED Blocks /\ \A c : CodeOf(c)' = CodeOf(c)
  BY CodeSame
<1>4. ArgumentsHold'
  BY <1>3, Zenon DEF ArgumentsHold
<1>5. Reachable(1)
  BY <1>1, ReachedEntry
<1>6. Passed(1, 1)'
  <2>1. \A c \in Blocks : \A j \in DOMAIN CodeOf(c) : ~Precedes(kernel.blocks, c, j, 1, 1)
    BY <1>1, NothingPrecedesEntry
  <2> QED
    BY <1>3, <2>1, Zenon DEF Passed
<1> QED
  BY <1>2, <1>4, <1>5, <1>6, Arrived

\* In the prologue the kernel does not move.
LEMMA NotStartedStays ==
  ASSUME at = NotStarted, UNCHANGED selectorVars, UNCHANGED <<args, env, mem>>,
         at' \in {NotStarted, <<1, 1>>}
  PROVE  UNCHANGED Kernel!kernelVars
<1>1. UNCHANGED kernel
  BY CodeSame
<1>2. KernelPosition = <<1, 1>> /\ KernelPosition' = <<1, 1>>
  BY DEF KernelPosition
<1> QED
  BY <1>1, <1>2 DEF Kernel!kernelVars

\* Before the entry block the kernel waits.
LEMMA StepAtStart ==
  ASSUME LaneShape, Selected, LaneFilled, Faithful, at = NotStarted, Step
  PROVE  Faithful' /\ UNCHANGED Kernel!kernelVars
<1>1. Values /\ PrologueHolds
  BY DEF Faithful
<1>2. PICK n : n = kernel.params
  OBVIOUS
<1>3. n \in Nat /\ Len(prologue) = 2 * n /\ done \in Nat
  BY <1>2, PrologueLoads DEF LaneShape
<1>4. /\ Execute(NextInstruction) /\ done < Len(prologue)
      /\ UNCHANGED selectorVars /\ UNCHANGED args
      /\ IF done + 1 = Len(prologue) THEN Leave(<<1, 1>>)
         ELSE done' = done + 1 /\ UNCHANGED <<at, env>>
  BY DEF Step, Ready, Group, Fallthrough
<1>5. PICK k \in 0..(n - 1) : done \in {2 * k, 2 * k + 1}
  <2>1. done = 2 * (done \div 2) \/ done = 2 * (done \div 2) + 1
    BY <1>3
  <2>2. done \div 2 \in 0..(n - 1)
    BY <1>3, <1>4, <2>1
  <2> QED
    BY <2>1, <2>2
<1>6. Loading(k)
  BY <1>1, <1>2, <1>4, <1>5 DEF Loading
<1>7. env' = env
  BY <1>4 DEF Leave
<1>8. /\ Values' /\ mem' = mem
      /\ done = 2 * k => /\ prologue[2 * k + 1].rd \in DOMAIN regs'
                         /\ regs'[prologue[2 * k + 1].rd] = 8 * k
      /\ \A j \in 0..(n - 1) : done + 1 >= 2 * j + 2 => InRegister(Arg(j))'
  BY <1>2, <1>6, <1>7, LoadingKeeps
<1>9. CASE done + 1 = Len(prologue)
  <2>1. at' = <<1, 1>> /\ done' = 0
    BY <1>4, <1>9 DEF Leave
  <2>2. \A j \in 0..(n - 1) : InRegister(Arg(j))'
    BY <1>3, <1>8, <1>9
  <2>3. Faithful'
    BY <1>2, <1>4, <1>8, <2>1, <2>2, EntryReached
  <2> QED
    BY <1>4, <1>7, <1>8, <2>1, <2>3, NotStartedStays
<1>10. CASE done + 1 # Len(prologue)
  <2>1. at' = NotStarted /\ done' = done + 1
    BY <1>4, <1>10
  <2>2. UNCHANGED kernel /\ UNCHANGED prologue /\ UNCHANGED Blocks /\ \A c : CodeOf(c)' = CodeOf(c)
    BY <1>4, CodeSame
  <2>3. env' = EmptyMap /\ mem' = Kernel!ArgumentMemory'
    BY <1>1, <1>4, <1>7, <1>8 DEF PrologueHolds, Kernel!ArgumentMemory
  <2>4. ASSUME NEW j \in 0..(n - 1)
        PROVE  /\ done + 1 = 2 * j + 1 => /\ prologue[done + 1].rd \in DOMAIN regs'
                                          /\ regs'[prologue[done + 1].rd] = 8 * j
               /\ done + 1 >= 2 * j + 2 => InRegister(Arg(j))'
    <3>1. done + 1 = 2 * j + 1 => j = k /\ done = 2 * k
      BY <1>3, <1>5
    <3> QED
      BY <1>8, <3>1
  <2>5. PrologueHolds'
    BY <1>2, <2>1, <2>2, <2>3, <2>4 DEF PrologueHolds
  <2>6. \A b \in Blocks : \A i \in DOMAIN CodeOf(b) : at' # <<b, i>>
    BY <2>1, PlacesApart DEF Selected
  <2>7. Faithful'
    BY <1>8, <2>2, <2>5, <2>6, Zenon DEF Faithful
  <2> QED
    BY <1>4, <1>7, <1>8, <2>1, <2>7, NotStartedStays
<1> QED
  BY <1>9, <1>10

\* A kernel without arguments has no prologue.
LEMMA PassAtStart ==
  ASSUME Selected, Faithful, at = NotStarted, Pass
  PROVE  Faithful' /\ UNCHANGED Kernel!kernelVars
<1>1. /\ prologue = <<>> /\ Leave(<<1, 1>>)
      /\ UNCHANGED selectorVars /\ UNCHANGED <<args, regs, mem>>
  BY DEF Pass, Group, Fallthrough
<1>2. at' = <<1, 1>> /\ done' = 0 /\ env' = env
  BY <1>1 DEF Leave
<1>3. kernel.params = 0
  BY <1>1, PrologueLoads
<1>4. Values'
  <2>1. Typed' /\ ConstantsHold'
    BY <1>1, <1>2, NothingWritten DEF Faithful
  <2>2. DOMAIN env' = {}
    BY <1>2, NothingMapped DEF Faithful, PrologueHolds
  <2>3. NamesHold'
    BY <2>2, Zenon DEF NamesHold
  <2> QED
    BY <2>1, <2>3 DEF Values
<1>5. \A j \in 0..(kernel.params - 1) : InRegister(Arg(j))'
  <2>1. \A j : j \notin 0..(kernel.params - 1)
    BY <1>3
  <2> QED
    BY <2>1
<1>6. Faithful'
  BY <1>1, <1>2, <1>4, <1>5, EntryReached
<1>7. UNCHANGED Kernel!kernelVars
  BY <1>1, <1>2, NotStartedStays
<1> QED
  BY <1>6, <1>7

\* The prologue has no jump and no EXIT.
LEMMA PrologueGoesOn ==
  ASSUME LaneShape, Selected, at = NotStarted, Ready
  PROVE  ~Taken(NextInstruction) /\ NextInstruction.op # "EXIT"
<1>1. done + 1 \in 1..Len(prologue) /\ NextInstruction = prologue[done + 1]
  BY DEF Ready, Group, NextInstruction, LaneShape
<1>2. NextInstruction.op \in {"ADDI", "LDR"}
  BY <1>1, PrologueIs DEF PrologueForm
<1> QED
  BY <1>2 DEF Taken

-----------------------------------------------------------------------------
(* The refinement.                                                         *)

\* Before the lane starts its registers are empty, and its memory holds the
\* arguments.
LEMMA FaithfulAtStart ==
  Shape /\ args \in kernel.inputs /\ at = NotStarted /\ done = 0
    /\ regs = EmptyMap /\ env = EmptyMap /\ mem = Kernel!ArgumentMemory => Faithful
<1> SUFFICES ASSUME Shape, args \in kernel.inputs, at = NotStarted, done = 0,
                    regs = EmptyMap, env = EmptyMap, mem = Kernel!ArgumentMemory
             PROVE  Faithful
  OBVIOUS
<1>1. kernel \in Kernels /\ kernel.params \in Nat
  BY KernelShape DEF Shape, InCode
<1>2. args \in [1..kernel.params -> Words]
  BY <1>1, VerifiedAssumption DEF IsVerified
<1>3. DOMAIN regs = {} /\ DOMAIN env = {}
  BY NothingMapped
<1>4. DOMAIN mem \subseteq Int /\ \A a \in DOMAIN mem : mem[a] \in Int
  BY <1>1, <1>2, ArgumentWord
<1>5. Typed
  BY <1>2, <1>3, <1>4 DEF Typed
<1>6. ConstantsHold
  BY <1>3, Zenon DEF ConstantsHold
<1>7. NamesHold
  BY <1>3, Zenon DEF NamesHold
<1>8. PrologueHolds
  <2>1. \A k \in 0..(kernel.params - 1) : done # 2 * k + 1 /\ ~(done >= 2 * k + 2)
    BY <1>1
  <2> QED
    BY <2>1, Zenon DEF PrologueHolds
<1>9. \A b \in Blocks : \A i \in DOMAIN CodeOf(b) : at # <<b, i>>
  BY PlacesApart
<1> QED
  BY <1>5, <1>6, <1>7, <1>8, <1>9, Zenon DEF Faithful, Values

\* A lane that has not started, and a kernel that has not.
LEMMA SimulatesAtFirst == LaneInit => Simulates /\ Kernel!Init
<1> SUFFICES ASSUME LaneInit PROVE Simulates /\ Kernel!Init
  OBVIOUS
<1>1. /\ Init /\ args \in kernel.inputs /\ at = NotStarted /\ done = 0
      /\ regs = EmptyMap /\ env = EmptyMap /\ mem = Kernel!ArgumentMemory
  BY DEF LaneInit
<1>2. Faithful
  BY <1>1, ShapeAtFirst, FaithfulAtStart
<1>3. Kernel!Init
  <2>1. KernelPosition = <<1, 1>>
    BY <1>1 DEF KernelPosition
  <2> QED
    BY <1>1, <2>1, KernelWords DEF Kernel!Init
<1> QED
  BY <1>1, <1>2, <1>3 DEF Simulates

\* The selector touches nothing of the lane, nor of the kernel.
LEMMA SelectSimulates ==
  ASSUME LaneShape, Simulates, Select, Shape' PROVE Simulates' /\ UNCHANGED Kernel!kernelVars
<1>1. at = NotStarted /\ done = 0 /\ UNCHANGED kernel /\ ~Finished
  BY SelectsFirst
<1>2. UNCHANGED <<args, at, done, regs, nzp, mem, env, steps>>
  BY DEF Select, laneVars
<1>3. args \in kernel.inputs /\ regs = EmptyMap /\ env = EmptyMap /\ mem = Kernel!ArgumentMemory
  BY <1>1 DEF Simulates
<1>4. mem' = Kernel!ArgumentMemory'
  BY <1>2, <1>3 DEF Kernel!ArgumentMemory
<1>5. (Shape /\ args \in kernel.inputs /\ at = NotStarted /\ done = 0
        /\ regs = EmptyMap /\ env = EmptyMap /\ mem = Kernel!ArgumentMemory)' => Faithful'
  BY FaithfulAtStart, PTL
<1>6. args' \in kernel'.inputs /\ regs' = EmptyMap /\ env' = EmptyMap /\ at' = NotStarted /\ done' = 0
  BY <1>1, <1>2, <1>3
<1>7. Faithful'
  BY <1>4, <1>5, <1>6
<1>8. UNCHANGED Kernel!kernelVars
  BY <1>1, <1>2 DEF Kernel!kernelVars, KernelPosition
<1> QED
  BY <1>4, <1>6, <1>7, <1>8 DEF Simulates

\* A step inside a block that does not jump.
LEMMA StepAt ==
  ASSUME NEW b \in Blocks, NEW i \in DOMAIN CodeOf(b), At(b, i), Step
  PROVE  Faithful' /\ (Kernel!Next \/ UNCHANGED Kernel!kernelVars)
<1>1. PICK g : g = Group
  OBVIOUS
<1>2. /\ Ready /\ ~Taken(NextInstruction) /\ NextInstruction.op # "EXIT"
      /\ Execute(NextInstruction) /\ UNCHANGED selectorVars /\ UNCHANGED args
      /\ IF done + 1 = Len(g) THEN Leave(Fallthrough)
         ELSE done' = done + 1 /\ UNCHANGED <<at, env>>
  BY <1>1 DEF Step
<1>3. CASE done + 1 = Len(g)
  <2>1. Finishing(b, i, g)
    BY <1>1, <1>2, <1>3 DEF Finishing
  <2> QED
    BY <2>1, FinishedStep
<1>4. CASE done + 1 # Len(g)
  <2>1. done' = done + 1 /\ UNCHANGED <<args, at, env>>
    BY <1>2, <1>4
  <2>2. Values' /\ Inside(b, i)' /\ mem' = mem
    BY <1>1, <1>2, <1>4, <2>1, StepWithin
  <2>3. at = <<b, i>> /\ Shape
    BY DEF At, Selected
  <2>4. at' = <<b, i>> /\ at' # NotStarted
    BY <2>1, <2>3, PlacesApart
  <2>5. UNCHANGED kernel /\ UNCHANGED Blocks /\ \A c : CodeOf(c)' = CodeOf(c)
    BY <1>2, CodeSame
  <2>6. \A c, j : at' = <<c, j>> => c = b /\ j = i
    BY <2>4
  <2>7. \A c \in Blocks : \A j \in DOMAIN CodeOf(c) : at' = <<c, j>> => Inside(c, j)'
    BY <2>2, <2>6
  <2>8. Faithful'
    BY <2>2, <2>4, <2>5, <2>7, Zenon DEF Faithful
  <2>9. UNCHANGED Kernel!kernelVars
    BY <2>1, <2>2, <2>5 DEF Kernel!kernelVars, KernelPosition
  <2> QED
    BY <2>8, <2>9
<1> QED
  BY <1>3, <1>4

\* The lane runs, whatever it does.
Runs == Pass \/ Step \/ TakeBranch \/ Exit \/ ReadUnfilled

\* Every step of the lane.
LEMMA RunSimulates ==
  ASSUME LaneShape, Selected, LaneFilled, Faithful, Runs
  PROVE  Faithful' /\ (AtMisreadComparison \/ Kernel!Next \/ UNCHANGED Kernel!kernelVars)
<1>1. Running
  BY DEF Runs, Pass, Step, TakeBranch, Exit, ReadUnfilled, Ready
<1>2. at \notin {Returned, Fault}
  BY <1>1 DEF Running
<1>3. ~ReadUnfilled
  BY <1>2, ReadsFilled DEF ReadUnfilled
<1>4. CASE at = NotStarted
  <2>1. ~TakeBranch /\ ~Exit
    BY <1>4, PrologueGoesOn DEF TakeBranch, Exit
  <2>2. Pass \/ Step
    BY <1>3, <2>1 DEF Runs
  <2> QED
    BY <1>4, <2>2, PassAtStart, StepAtStart
<1>5. CASE at # NotStarted
  <2>1. IsPlace(at)
    BY <1>2, <1>5 DEF LaneShape
  <2>2. PICK b \in Blocks : \E i \in DOMAIN CodeOf(b) : at = <<b, i>>
    BY <2>1 DEF IsPlace
  <2>3. PICK i \in DOMAIN CodeOf(b) : at = <<b, i>>
    BY <2>2
  <2>4. At(b, i)
    BY <2>3 DEF At, Faithful
  <2>5. Pass => Faithful' /\ Kernel!Next
    BY <2>4, PassAt
  <2>6. Step => Faithful' /\ (Kernel!Next \/ UNCHANGED Kernel!kernelVars)
    BY <2>4, StepAt
  <2>7. TakeBranch => Faithful' /\ (~AtMisreadComparison => Kernel!Next)
    BY <2>4, BranchAt
  <2>8. Exit => Faithful' /\ Kernel!Next
    BY <2>4, ExitAt
  <2> QED
    BY <1>3, <2>5, <2>6, <2>7, <2>8 DEF Runs
<1> QED
  BY <1>4, <1>5

\* The lane runs only what is finished, and changes neither code nor arguments.
LEMMA RunsKeep ==
  ASSUME Runs
  PROVE  Finished /\ UNCHANGED selectorVars /\ UNCHANGED args
  BY DEF Runs, Pass, Step, TakeBranch, Exit, ReadUnfilled, Ready, Running

\* A step that leaves selector and lane alone.
LEMMA SimulatesStays ==
  ASSUME Shape, Simulates, UNCHANGED selectorVars,
         UNCHANGED <<args, at, done, regs, nzp, mem, env, steps>>
  PROVE  Simulates'
<1>1. /\ UNCHANGED <<kernel, position, valueToVReg, nextVReg, prologue, code>>
      /\ UNCHANGED Blocks /\ \A b : CodeOf(b)' = CodeOf(b)
      /\ \A v : InstructionOf(v)' = InstructionOf(v)
      /\ \A b : Reachable(b)' <=> Reachable(b)
      /\ Finished' <=> Finished
  BY CodeSame
<1>2. /\ UNCHANGED <<args, at, done, regs, nzp, mem, env>>
      /\ \A v : Kernel!ValueOf(v)' = Kernel!ValueOf(v)
      /\ \A b, i : Passed(b, i)' <=> Passed(b, i)
  BY SameEnv
<1>3. mem = Kernel!ArgumentMemory => mem' = Kernel!ArgumentMemory'
  BY <1>2 DEF Kernel!ArgumentMemory
<1>4. \A v : InRegister(v)' <=> InRegister(v)
  BY <1>1, <1>2 DEF InRegister
<1>5. Supported' => Supported
  BY <1>1, SupportKept DEF Shape, Numbered
<1>6. ASSUME Faithful PROVE Faithful'
  <2>1. /\ Values
        /\ at = NotStarted => PrologueHolds
        /\ \A b \in Blocks : \A i \in DOMAIN CodeOf(b) : at = <<b, i>> => Inside(b, i)
    BY <1>6 DEF Faithful
  <2>2. Typed' /\ ConstantsHold'
    BY <1>2, <2>1, NothingWritten
  <2>3. NamesHold'
    BY <1>1, <1>2, <1>4, <2>1, Zenon DEF NamesHold, Values
  <2>4. Group' = Group
    BY <1>1, <1>2 DEF Group
  <2>5. PrologueHolds => PrologueHolds'
    BY <1>1, <1>2, <1>3, <1>4, Zenon DEF PrologueHolds
  <2>6. GroupHolds => GroupHolds'
    <3>1. \A r : Read(r)' = Read(r)
      BY <1>2 DEF Read
    <3>2. \A mi : Writes(mi) => ValueWritten(mi)' = ValueWritten(mi)
      BY <1>2, <3>1, WrittenSame
    <3> QED
      BY <1>2, <2>4, <3>2, Zenon DEF GroupHolds
  <2>7. ArgumentsHold => ArgumentsHold'
    BY <1>1, <1>4, Zenon DEF ArgumentsHold
  <2>8. \A b, i : Tested(b, i) => Tested(b, i)'
    BY <1>1, <1>2, <2>4, Zenon DEF Tested
  <2>9. \A b, i : Inside(b, i) => Inside(b, i)'
    BY <1>1, <1>2, <2>6, <2>7, <2>8, Zenon DEF Inside
  <2> QED
    BY <1>1, <1>2, <2>1, <2>2, <2>3, <2>5, <2>9, Zenon DEF Faithful, Values
<1>7. args' \in kernel'.inputs
  BY <1>1, <1>2 DEF Simulates
<1>8. ~Finished' => regs' = EmptyMap /\ env' = EmptyMap /\ mem' = Kernel!ArgumentMemory'
  BY <1>1, <1>2, <1>3 DEF Simulates
<1>9. Supported' /\ Finished' => Faithful'
  BY <1>1, <1>5, <1>6 DEF Simulates
<1> QED
  BY <1>7, <1>8, <1>9 DEF Simulates

\* The lane's step is a step of the kernel or none, unless it is the exception.
Follows == AtMisreadComparison \/ Kernel!Next \/ UNCHANGED Kernel!kernelVars

\* Every step of selector and lane.
LEMMA SimulatesKept ==
  ASSUME LaneShape, Forms, LaneFilled, Simulates, [LaneNext]_<<selectorVars, laneVars>>, Shape'
  PROVE  Simulates' /\ (Supported /\ Finished => Follows)
<1>1. CASE Select
  BY <1>1, SelectSimulates DEF Follows
<1>2. CASE Runs
  <2>1. Finished /\ UNCHANGED selectorVars /\ UNCHANGED args
    BY <1>2, RunsKeep
  <2>2. UNCHANGED kernel /\ UNCHANGED nextVReg /\ Finished'
    BY <2>1, CodeSame
  <2>3. args' \in kernel'.inputs
    BY <2>1, <2>2 DEF Simulates
  <2>4. Supported' => Supported
    BY <2>2, SupportKept DEF LaneShape, Shape, Numbered
  <2>5. Supported => Faithful' /\ Follows
    <3> SUFFICES ASSUME Supported PROVE Faithful' /\ Follows
      OBVIOUS
    <3>1. Selected /\ Faithful
      BY <2>1 DEF Selected, LaneShape, Simulates
    <3> QED
      BY <1>2, <3>1, RunSimulates DEF Follows
  <2> QED
    BY <2>2, <2>3, <2>4, <2>5 DEF Simulates
<1>3. CASE UNCHANGED <<selectorVars, laneVars>>
  <2>1. /\ UNCHANGED selectorVars
        /\ UNCHANGED <<args, at, done, regs, nzp, mem, env, steps>>
    BY <1>3 DEF laneVars
  <2>2. UNCHANGED <<kernel, position, valueToVReg, nextVReg, prologue, code>>
    BY <2>1, CodeSame
  <2>3. Simulates'
    BY <2>1, SimulatesStays DEF LaneShape
  <2>4. UNCHANGED Kernel!kernelVars
    BY <2>1, <2>2 DEF Kernel!kernelVars, KernelPosition
  <2> QED
    BY <2>3, <2>4 DEF Follows
<1> QED
  BY <1>1, <1>2, <1>3 DEF LaneNext, Runs

\* Instruction by instruction the lane computes the values the IR computes,
\* writes the same bytes of memory and goes the same way.  Excepted are a branch
\* whose comparison the sign of CMP does not decide (signed, and the difference
\* wraps; unsigned, of different signs, and it does not) and, by Supported, what
\* is not as wide as a word and an ADDI of more than twelve bits.
THEOREM CodeImplementsKernel == LaneSpec => ImplementsKernel
<1> DEFINE Inv == LaneShape /\ Forms /\ LaneFilled /\ Simulates
<1>1. LaneInit => Inv /\ Kernel!Init
  BY LaneShapeAtFirst, FormsAtFirst, LaneFilledAtFirst, SimulatesAtFirst DEF LaneInit
<1>2. Inv /\ [LaneNext]_<<selectorVars, laneVars>>
        => Inv' /\ [Supported /\ Finished /\ ~AtMisreadComparison => Kernel!Next]_(Kernel!kernelVars)
  <2> SUFFICES ASSUME Inv, [LaneNext]_<<selectorVars, laneVars>>
               PROVE  Inv' /\ [Supported /\ Finished /\ ~AtMisreadComparison => Kernel!Next]_(Kernel!kernelVars)
    OBVIOUS
  <2>1. [Next]_selectorVars
    BY DEF LaneNext, Select, Pass, Step, TakeBranch, Exit, ReadUnfilled
  <2>2. LaneShape' /\ Forms' /\ LaneFilled'
    BY <2>1, FormsKept, LaneShapeKept, LaneFilledKept DEF LaneShape
  <2>3. Simulates' /\ (Supported /\ Finished => Follows)
    BY <2>2, SimulatesKept DEF LaneShape
  <2> QED
    BY <2>2, <2>3 DEF Follows
<1> QED
  BY <1>1, <1>2, PTL DEF LaneSpec, ImplementsKernel

=============================================================================
