---------------------------- MODULE EseLinkProofs ----------------------------
(***************************************************************************)
(* What is proved of a transfer over the SPI line: its types, and the two  *)
(* properties about time, for every length of a second, block waiting time *)
(* and setting of the clock.  The heart of both is ElapsedTime: how far    *)
(* Utils_getElapsedTimeInMs may be from the true age of a timestamp.  The  *)
(* first part is about the codec: a checksum has 16 bits and changes with  *)
(* every change of one byte, and a block that arrives as it was formed is  *)
(* read as it was formed.                                                  *)
(***************************************************************************)
EXTENDS EseLink, Loops, SequenceTheorems

(* The codec.                                                              *)

(* The bits of a byte and of a checksum.                                   *)
LEMMA Powers ==
    /\ 2^0 = 1 /\ 2^1 = 2 /\ 2^2 = 4 /\ 2^3 = 8 /\ 2^4 = 16 /\ 2^5 = 32
    /\ 2^6 = 64 /\ 2^7 = 128 /\ 2^10 = 1024 /\ 2^15 = 32768
    /\ 2^16 = 65536
  OBVIOUS

LEMMA ZeroIsWord == 0 \in Word
  <1>1. 2^16 \in Nat /\ 2^16 >= 1
    BY Powers
  <1> QED BY <1>1 DEF Word

LEMMA PowerIn == ASSUME NEW k \in 0 .. 7 PROVE 2^k \in Nat \ {0}
  <1>1. CASE k = 0
    BY <1>1, Powers
  <1>2. CASE k = 1
    BY <1>2, Powers
  <1>3. CASE k = 2
    BY <1>3, Powers
  <1>4. CASE k = 3
    BY <1>4, Powers
  <1>5. CASE k = 4
    BY <1>5, Powers
  <1>6. CASE k = 5
    BY <1>6, Powers
  <1>7. CASE k = 6
    BY <1>7, Powers
  <1>8. CASE k = 7
    BY <1>8, Powers
  <1>9. k \in {0, 1, 2, 3, 4, 5, 6, 7}
    OBVIOUS
  <1> QED BY <1>1, <1>2, <1>3, <1>4, <1>5, <1>6, <1>7, <1>8, <1>9

LEMMA BitIn ==
    ASSUME NEW v \in Nat, NEW k \in 0 .. 7
    PROVE  BitOf(v, k) \in {0, 1}
  <1>1. \A p \in Nat \ {0} : v \div p \in Int
    OBVIOUS
  <1>2. v \div 2^k \in Int
    BY <1>1, PowerIn
  <1>3. \A x \in Int : x % 2 \in {0, 1}
    OBVIOUS
  <1> QED BY <1>2, <1>3 DEF BitOf

LEMMA FlipInByte == ASSUME NEW b \in Byte PROVE FlipBit(b, 4) \in Byte /\ FlipBit(b, 0) \in Byte
  BY Powers DEF FlipBit, BitOf, Byte

LEMMA FlipChanges == ASSUME NEW b \in Byte PROVE FlipBit(b, 0) # b
  BY Powers DEF FlipBit, BitOf, Byte

Half == 0 .. 2^15 - 1

LEMMA FlipInShifted ==
    ASSUME NEW u \in Half
    PROVE  FlipBit(u, 10) \in Half /\ FlipBit(u, 3) \in Half
  <1>0. u \in Int /\ u >= 0 /\ u <= 32767
    BY Powers DEF Half
  <1>1. (u \div 1024) % 2 = 1 => u >= 1024
    BY <1>0
  <1>2. (u \div 1024) % 2 # 1 => u <= 31743
    BY <1>0
  <1>3. (u \div 8) % 2 = 1 => u >= 8
    BY <1>0
  <1>4. (u \div 8) % 2 # 1 => u <= 32759
    BY <1>0
  <1>5. \/ FlipBit(u, 10) = u - 1024 /\ u >= 1024
        \/ FlipBit(u, 10) = u + 1024 /\ u <= 31743
    BY <1>1, <1>2, Powers DEF FlipBit, BitOf
  <1>6. \/ FlipBit(u, 3) = u - 8 /\ u >= 8
        \/ FlipBit(u, 3) = u + 8 /\ u <= 32759
    BY <1>3, <1>4, Powers DEF FlipBit, BitOf
  <1> QED BY <1>0, <1>5, <1>6, Powers DEF Half

LEMMA ShiftInWord ==
    ASSUME NEW v \in Word
    PROVE  ShiftCrc(v) \in Word
  <1>1. v \div 2 \in Half /\ v \div 2 \in Word
    BY Powers DEF Word, Half
  <1>2. FlipBit(v \div 2, 10) \in Half
    BY <1>1, FlipInShifted
  <1>3. FlipBit(FlipBit(v \div 2, 10), 3) \in Half
    BY <1>2, FlipInShifted
  <1>4. 32768 + FlipBit(FlipBit(v \div 2, 10), 3) \in Word
    BY <1>3, Powers DEF Word, Half
  <1>5. \/ ShiftCrc(v) = 32768 + FlipBit(FlipBit(v \div 2, 10), 3)
        \/ ShiftCrc(v) = v \div 2
    BY Powers DEF ShiftCrc
  <1> QED BY <1>1, <1>4, <1>5

(* A turn of the shift register loses nothing: its bit 15 tells which bit  *)
(* was shifted out.                                                        *)
LEMMA FlipTwice ==
    ASSUME NEW u \in Half, NEW t \in Half
    PROVE  /\ FlipBit(u, 10) = FlipBit(t, 10) => u = t
           /\ FlipBit(u, 3) = FlipBit(t, 3) => u = t
  <1>1. u \in Nat /\ t \in Nat
    BY DEF Half
  <1>2. ASSUME NEW x \in Nat
        PROVE  /\ (x \div 1024) % 2 = 1 => ((x - 1024) \div 1024) % 2 # 1
               /\ (x \div 1024) % 2 # 1 => ((x + 1024) \div 1024) % 2 = 1
               /\ (x \div 8) % 2 = 1 => ((x - 8) \div 8) % 2 # 1
               /\ (x \div 8) % 2 # 1 => ((x + 8) \div 8) % 2 = 1
    OBVIOUS
  <1>3. \A x \in Nat :
          /\ FlipBit(x, 10) = IF (x \div 1024) % 2 = 1 THEN x - 1024 ELSE x + 1024
          /\ FlipBit(x, 3) = IF (x \div 8) % 2 = 1 THEN x - 8 ELSE x + 8
    BY Powers DEF FlipBit, BitOf
  <1>4. FlipBit(u, 10) = FlipBit(t, 10) => u = t
    BY <1>1, <1>2, <1>3
  <1>5. FlipBit(u, 3) = FlipBit(t, 3) => u = t
    BY <1>1, <1>2, <1>3
  <1> QED BY <1>4, <1>5

LEMMA ShiftKeepsApart ==
    ASSUME NEW v \in Word, NEW w \in Word, v # w
    PROVE  ShiftCrc(v) # ShiftCrc(w)
  <1> DEFINE flipped(x) == FlipBit(FlipBit(x \div 2, 10), 3)
  <1>1. \A x \in Word : x \div 2 \in Half
    BY Powers DEF Word, Half
  <1>2. \A x \in Word : flipped(x) \in Half
    BY <1>1, FlipInShifted
  <1>3. \A x, y \in Word : flipped(x) = flipped(y) => x \div 2 = y \div 2
    <2> SUFFICES ASSUME NEW x \in Word, NEW y \in Word, flipped(x) = flipped(y)
                 PROVE  x \div 2 = y \div 2
      OBVIOUS
    <2>1. /\ FlipBit(x \div 2, 10) \in Half /\ FlipBit(y \div 2, 10) \in Half
          /\ x \div 2 \in Half /\ y \div 2 \in Half
      BY <1>1, FlipInShifted
    <2>2. FlipBit(x \div 2, 10) = FlipBit(y \div 2, 10)
      BY <2>1, FlipTwice
    <2> QED BY <2>1, <2>2, FlipTwice
  <1>4. \A x \in Word : ShiftCrc(x) = IF x % 2 = 1 THEN 32768 + flipped(x) ELSE x \div 2
    BY Powers DEF ShiftCrc
  <1> HIDE DEF flipped
  <1>5. \A x \in Half : x \in Int /\ x >= 0 /\ x < 32768
    BY Powers DEF Half
  <1>6. ASSUME ShiftCrc(v) = ShiftCrc(w) PROVE v % 2 = w % 2 /\ v \div 2 = w \div 2
    <2>0. v % 2 \in {0, 1} /\ w % 2 \in {0, 1}
      BY DEF Word
    <2>1. /\ flipped(v) \in Int /\ flipped(v) >= 0 /\ flipped(w) \in Int /\ flipped(w) >= 0
          /\ v \div 2 \in Int /\ v \div 2 < 32768 /\ w \div 2 \in Int /\ w \div 2 < 32768
      BY <1>1, <1>2, <1>5
    <2>2. v % 2 = 1 <=> w % 2 = 1
      BY <1>4, <1>6, <2>1
    <2>3. CASE v % 2 = 1
      <3>1. flipped(v) = flipped(w)
        BY <1>4, <1>6, <2>1, <2>2, <2>3
      <3> QED BY <1>3, <2>2, <2>3, <3>1
    <2>4. CASE v % 2 # 1
      BY <1>4, <1>6, <2>0, <2>2, <2>4
    <2> QED BY <2>3, <2>4
  <1>7. v = 2 * (v \div 2) + (v % 2) /\ w = 2 * (w \div 2) + (w % 2)
    BY DEF Word
  <1> QED BY <1>6, <1>7

(* A number is its lowest eight bits and the others, and no other bits     *)
(* make the same number.                                                   *)
Bits(v) == [i \in 0 .. 7 |-> BitOf(v, i)]
SumOfBits(v, b) == [i \in 0 .. 7 |-> (BitOf(v, i) + BitOf(b, i)) % 2]
Weight(x) == x[0] + 2 * x[1] + 4 * x[2] + 8 * x[3]
               + 16 * x[4] + 32 * x[5] + 64 * x[6] + 128 * x[7]

LEMMA BitsOf ==
    ASSUME NEW v \in Nat
    PROVE  Bits(v) \in [0 .. 7 -> {0, 1}] /\ v = 256 * (v \div 256) + Weight(Bits(v))
  <1>1. /\ BitOf(v, 0) = v % 2 /\ BitOf(v, 1) = (v \div 2) % 2
        /\ BitOf(v, 2) = (v \div 4) % 2 /\ BitOf(v, 3) = (v \div 8) % 2
        /\ BitOf(v, 4) = (v \div 16) % 2 /\ BitOf(v, 5) = (v \div 32) % 2
        /\ BitOf(v, 6) = (v \div 64) % 2 /\ BitOf(v, 7) = (v \div 128) % 2
    <2>1. v \div 1 = v
      OBVIOUS
    <2> QED BY <2>1, Powers DEF BitOf
  <1>2. \A x \in Nat : x = 2 * (x \div 2) + (x % 2) /\ x % 2 \in Nat
    OBVIOUS
  <1>3. /\ v \div 4 = (v \div 2) \div 2 /\ v \div 8 = (v \div 4) \div 2
        /\ v \div 16 = (v \div 8) \div 2 /\ v \div 32 = (v \div 16) \div 2
    OBVIOUS
  <1>4. /\ v \div 64 = (v \div 32) \div 2 /\ v \div 128 = (v \div 64) \div 2
        /\ v \div 256 = (v \div 128) \div 2
    OBVIOUS
  <1>5. /\ v \div 2 \in Nat /\ v \div 4 \in Nat /\ v \div 8 \in Nat /\ v \div 16 \in Nat
        /\ v \div 32 \in Nat /\ v \div 64 \in Nat /\ v \div 128 \in Nat /\ v \div 256 \in Nat
    OBVIOUS
  <1>6. \A k \in 0 .. 7 : BitOf(v, k) \in Nat
    <2>1. \A k \in 0 .. 7 : BitOf(v, k) \in {0, 1}
      BY BitIn
    <2> QED BY <2>1
  <1>7. /\ BitOf(v, 0) \in Nat /\ BitOf(v, 1) \in Nat /\ BitOf(v, 2) \in Nat
        /\ BitOf(v, 3) \in Nat /\ BitOf(v, 4) \in Nat /\ BitOf(v, 5) \in Nat
        /\ BitOf(v, 6) \in Nat /\ BitOf(v, 7) \in Nat
    BY <1>6
  <1> DEFINE h1 == v \div 2 h2 == v \div 4 h3 == v \div 8 h4 == v \div 16
             h5 == v \div 32 h6 == v \div 64 h7 == v \div 128 h8 == v \div 256
  <1>8. /\ v = 2 * h1 + BitOf(v, 0) /\ h1 = 2 * h2 + BitOf(v, 1)
        /\ h2 = 2 * h3 + BitOf(v, 2) /\ h3 = 2 * h4 + BitOf(v, 3)
    BY <1>1, <1>2, <1>3, <1>5
  <1>9. /\ h4 = 2 * h5 + BitOf(v, 4) /\ h5 = 2 * h6 + BitOf(v, 5)
        /\ h6 = 2 * h7 + BitOf(v, 6) /\ h7 = 2 * h8 + BitOf(v, 7)
    BY <1>1, <1>2, <1>3, <1>4, <1>5
  <1>10. /\ h1 \in Nat /\ h2 \in Nat /\ h3 \in Nat /\ h4 \in Nat
         /\ h5 \in Nat /\ h6 \in Nat /\ h7 \in Nat /\ h8 \in Nat
    BY <1>5
  <1>11. v = 256 * h8 + BitOf(v, 0) + 2 * BitOf(v, 1) + 4 * BitOf(v, 2) + 8 * BitOf(v, 3)
               + 16 * BitOf(v, 4) + 32 * BitOf(v, 5) + 64 * BitOf(v, 6) + 128 * BitOf(v, 7)
    <2> HIDE DEF h1, h2, h3, h4, h5, h6, h7, h8
    <2>1. v = 16 * h4 + BitOf(v, 0) + 2 * BitOf(v, 1) + 4 * BitOf(v, 2) + 8 * BitOf(v, 3)
      BY <1>7, <1>8, <1>10
    <2>2. h4 = 16 * h8 + BitOf(v, 4) + 2 * BitOf(v, 5) + 4 * BitOf(v, 6) + 8 * BitOf(v, 7)
      BY <1>7, <1>9, <1>10
    <2> QED BY <1>7, <1>10, <2>1, <2>2
  <1>12. Bits(v) \in [0 .. 7 -> {0, 1}]
    BY BitIn DEF Bits
  <1>13. Weight(Bits(v)) = BitOf(v, 0) + 2 * BitOf(v, 1) + 4 * BitOf(v, 2) + 8 * BitOf(v, 3)
               + 16 * BitOf(v, 4) + 32 * BitOf(v, 5) + 64 * BitOf(v, 6) + 128 * BitOf(v, 7)
    BY DEF Weight, Bits
  <1> QED BY <1>5, <1>7, <1>11, <1>12, <1>13

LEMMA BitsTell ==
    ASSUME NEW x \in [0 .. 7 -> {0, 1}], NEW y \in [0 .. 7 -> {0, 1}],
           NEW h \in Nat, NEW k \in Nat,
           256 * h + Weight(x) = 256 * k + Weight(y)
    PROVE  h = k /\ x = y
  <1>1. \A i \in 0 .. 7 : x[i] \in {0, 1} /\ y[i] \in {0, 1}
    OBVIOUS
  <1>2. /\ x[0] \in {0, 1} /\ y[0] \in {0, 1} /\ x[1] \in {0, 1} /\ y[1] \in {0, 1}
        /\ x[2] \in {0, 1} /\ y[2] \in {0, 1} /\ x[3] \in {0, 1} /\ y[3] \in {0, 1}
        /\ x[4] \in {0, 1} /\ y[4] \in {0, 1} /\ x[5] \in {0, 1} /\ y[5] \in {0, 1}
        /\ x[6] \in {0, 1} /\ y[6] \in {0, 1} /\ x[7] \in {0, 1} /\ y[7] \in {0, 1}
    BY <1>1
  <1> DEFINE low(z) == z[0] + 2 * z[1] + 4 * z[2] + 8 * z[3]
             high(z) == z[4] + 2 * z[5] + 4 * z[6] + 8 * z[7]
  <1>3. low(x) \in 0 .. 15 /\ low(y) \in 0 .. 15 /\ high(x) \in 0 .. 15 /\ high(y) \in 0 .. 15
    BY <1>2
  <1>4. Weight(x) = low(x) + 16 * high(x) /\ Weight(y) = low(y) + 16 * high(y)
    BY <1>2 DEF Weight
  <1>5. low(x) = low(y) /\ high(x) = high(y) /\ h = k
    <2> HIDE DEF low, high
    <2>1. ASSUME NEW p \in 0 .. 15, NEW q \in 0 .. 15, NEW u \in Nat, NEW t \in Nat,
                 p + 16 * u = q + 16 * t
          PROVE  p = q /\ u = t
      <3>1. ~(u + 1 <= t) /\ ~(t + 1 <= u)
        BY <2>1
      <3>2. u = t
        BY <3>1
      <3> QED BY <2>1, <3>2
    <2>2. low(x) + 16 * (high(x) + 16 * h) = low(y) + 16 * (high(y) + 16 * k)
      <3>1. low(x) \in Int /\ low(y) \in Int /\ high(x) \in Int /\ high(y) \in Int
        BY <1>3
      <3>2. 256 * h + (low(x) + 16 * high(x)) = 256 * k + (low(y) + 16 * high(y))
        BY <1>4
      <3> QED BY <3>1, <3>2
    <2>3. high(x) + 16 * h \in Nat /\ high(y) + 16 * k \in Nat
      BY <1>3
    <2>4. low(x) = low(y) /\ high(x) + 16 * h = high(y) + 16 * k
      BY <1>3, <2>1, <2>2, <2>3
    <2> QED BY <1>3, <2>1, <2>4
  <1>6. x[0] = y[0] /\ x[1] = y[1] /\ x[2] = y[2] /\ x[3] = y[3]
    BY <1>2, <1>5
  <1>7. x[4] = y[4] /\ x[5] = y[5] /\ x[6] = y[6] /\ x[7] = y[7]
    BY <1>2, <1>5
  <1>8. \A i \in 0 .. 7 : i \in {0, 1, 2, 3, 4, 5, 6, 7}
    OBVIOUS
  <1>9. ASSUME NEW i \in 0 .. 7 PROVE x[i] = y[i]
    <2>1. CASE i \in {0, 1, 2, 3}
      BY <1>6, <2>1, Zenon
    <2>2. CASE i \in {4, 5, 6, 7}
      BY <1>7, <2>2, Zenon
    <2> QED BY <1>8, <2>1, <2>2
  <1>10. x = y
    BY <1>9
  <1> QED BY <1>5, <1>10

LEMMA SumOfBitsTells ==
    ASSUME NEW v \in Nat, NEW w \in Nat, NEW b \in Nat, NEW c \in Nat,
           SumOfBits(v, b) = SumOfBits(w, c)
    PROVE  /\ v = w => Bits(b) = Bits(c)
           /\ b = c => Bits(v) = Bits(w)
           /\ SumOfBits(v, b) \in [0 .. 7 -> {0, 1}]
  <1>1. ASSUME NEW i \in 0 .. 7
        PROVE  /\ (BitOf(v, i) + BitOf(b, i)) % 2 = (BitOf(w, i) + BitOf(c, i)) % 2
               /\ BitOf(v, i) \in {0, 1} /\ BitOf(b, i) \in {0, 1}
               /\ BitOf(w, i) \in {0, 1} /\ BitOf(c, i) \in {0, 1}
    <2>1. SumOfBits(v, b)[i] = SumOfBits(w, c)[i]
      OBVIOUS
    <2> QED BY <2>1, BitIn DEF SumOfBits
  <1>2. \A p, q, r \in {0, 1} : /\ (p + q) % 2 = (p + r) % 2 => q = r
                                /\ (q + p) % 2 = (r + p) % 2 => q = r
                                /\ (p + q) % 2 \in {0, 1}
    OBVIOUS
  <1>3. ASSUME v = w, NEW i \in 0 .. 7 PROVE BitOf(b, i) = BitOf(c, i)
    BY <1>1, <1>2, <1>3
  <1>4. ASSUME b = c, NEW i \in 0 .. 7 PROVE BitOf(v, i) = BitOf(w, i)
    BY <1>1, <1>2, <1>4
  <1>5. \A i \in 0 .. 7 : (BitOf(v, i) + BitOf(b, i)) % 2 \in {0, 1}
    BY <1>1, <1>2, Zenon
  <1> QED BY <1>3, <1>4, <1>5 DEF Bits, SumOfBits

(* What a byte is added to: the eight sums of bits take the place of the   *)
(* lowest bits.                                                            *)
LEMMA XorIs ==
    ASSUME NEW v \in Word, NEW b \in Byte
    PROVE  XorByte(v, b) = 256 * (v \div 256) + Weight(SumOfBits(v, b))
  <1> DEFINE bit(i) == (BitOf(v, i - 1) + BitOf(b, i - 1)) % 2
             step == [i \in 1 .. 8 |-> [x \in Nat |-> x + 2^(i - 1) * bit(i)]]
             Eq(s) == s = [i \in 0 .. 8 |-> IF i = 0 THEN 0 ELSE s[i - 1] + 2^(i - 1) * bit(i)]
             low == CHOOSE s : Eq(s)
  <1>1. \A i \in 1 .. 8 : bit(i) \in {0, 1} /\ 2^(i - 1) \in Nat
    <2> SUFFICES ASSUME NEW i \in 1 .. 8 PROVE bit(i) \in {0, 1} /\ 2^(i - 1) \in Nat
      OBVIOUS
    <2>1. i - 1 \in 0 .. 7 /\ v \in Nat /\ b \in Nat
      BY DEF Word, Byte
    <2>2. BitOf(v, i - 1) \in {0, 1} /\ BitOf(b, i - 1) \in {0, 1}
      BY <2>1, BitIn
    <2>3. \A x, y \in {0, 1} : (x + y) % 2 \in {0, 1}
      OBVIOUS
    <2> QED BY <2>1, <2>2, <2>3, PowerIn
  <1>2. \A i \in 1 .. 8 : bit(i) = SumOfBits(v, b)[i - 1]
    <2>1. \A i \in 1 .. 8 : i - 1 \in 0 .. 7
      OBVIOUS
    <2> QED BY <2>1 DEF SumOfBits
  <1> HIDE DEF bit
  <1>3. \A i \in 1 .. 8 : 2^(i - 1) * bit(i) \in Nat
    <2>1. \A p \in Nat : \A x \in {0, 1} : p * x \in Nat
      OBVIOUS
    <2> QED BY <1>1, <2>1
  <1>4. step \in [1 .. 8 -> [Nat -> Nat]]
    BY <1>3
  <1>5. \A i \in 1 .. 8 : \A x \in Nat : step[i][x] = x + 2^(i - 1) * bit(i)
    OBVIOUS
  <1> HIDE DEF step
  <1>6. PICK f : Loop(f, Nat, 8, 0, step)
    <2>1. 8 \in Nat /\ 0 \in Nat
      OBVIOUS
    <2> QED BY <1>4, <2>1, LoopRuns, Zenon
  <1>7. Eq(f)
    <2>0. /\ f \in [0 .. 8 -> Nat] /\ f[0] = 0
          /\ \A i \in 1 .. 8 : f[i] = step[i][f[i - 1]]
      BY <1>6 DEF Loop
    <2>1. \A i \in 1 .. 8 : i - 1 \in 0 .. 8 /\ f[i - 1] \in Nat
      BY <2>0
    <2>2. \A i \in 1 .. 8 : f[i] = f[i - 1] + 2^(i - 1) * bit(i)
      BY <1>5, <2>0, <2>1
    <2>3. \A i \in 0 .. 8 : i # 0 => i \in 1 .. 8
      OBVIOUS
    <2>4. \A i \in 0 .. 8 : f[i] = IF i = 0 THEN 0 ELSE f[i - 1] + 2^(i - 1) * bit(i)
      BY <2>0, <2>2, <2>3, Zenon
    <2> QED BY <2>0, <2>4, Zenon
  <1>8. Eq(low)
    <2> HIDE DEF Eq
    <2> QED BY <1>7
  <1>9. low[0] = 0 /\ \A i \in 1 .. 8 : low[i] = low[i - 1] + 2^(i - 1) * bit(i)
    <2> HIDE DEF low
    <2> QED BY <1>8
  <1>10. XorByte(v, b) = 256 * (v \div 256) + low[8]
    BY DEF XorByte, bit
  <1> HIDE DEF low, Eq
  <1>11. low[8] = Weight(SumOfBits(v, b))
    <2>1. /\ low[1] = low[0] + 1 * bit(1) /\ low[2] = low[1] + 2 * bit(2)
          /\ low[3] = low[2] + 4 * bit(3) /\ low[4] = low[3] + 8 * bit(4)
          /\ low[5] = low[4] + 16 * bit(5) /\ low[6] = low[5] + 32 * bit(6)
          /\ low[7] = low[6] + 64 * bit(7) /\ low[8] = low[7] + 128 * bit(8)
      BY <1>9, Powers
    <2>2. /\ bit(1) \in Nat /\ bit(2) \in Nat /\ bit(3) \in Nat /\ bit(4) \in Nat
          /\ bit(5) \in Nat /\ bit(6) \in Nat /\ bit(7) \in Nat /\ bit(8) \in Nat
      BY <1>1
    <2>3. low[8] = bit(1) + 2 * bit(2) + 4 * bit(3) + 8 * bit(4)
                     + 16 * bit(5) + 32 * bit(6) + 64 * bit(7) + 128 * bit(8)
      BY <1>9, <2>1, <2>2
    <2>4. /\ bit(1) = SumOfBits(v, b)[0] /\ bit(2) = SumOfBits(v, b)[1]
          /\ bit(3) = SumOfBits(v, b)[2] /\ bit(4) = SumOfBits(v, b)[3]
          /\ bit(5) = SumOfBits(v, b)[4] /\ bit(6) = SumOfBits(v, b)[5]
          /\ bit(7) = SumOfBits(v, b)[6] /\ bit(8) = SumOfBits(v, b)[7]
      BY <1>2
    <2> QED BY <2>3, <2>4 DEF Weight
  <1> QED BY <1>10, <1>11

LEMMA XorInWord ==
    ASSUME NEW v \in Word, NEW b \in Byte
    PROVE  XorByte(v, b) \in Word
  <1>1. v \in Nat /\ b \in Nat /\ v \div 256 \in 0 .. 255
    BY Powers DEF Word, Byte
  <1>2. SumOfBits(v, b) \in [0 .. 7 -> {0, 1}]
    BY <1>1, SumOfBitsTells
  <1>3. \A x \in [0 .. 7 -> {0, 1}] : Weight(x) \in 0 .. 255
    <2> SUFFICES ASSUME NEW x \in [0 .. 7 -> {0, 1}] PROVE Weight(x) \in 0 .. 255
      OBVIOUS
    <2>1. /\ x[0] \in {0, 1} /\ x[1] \in {0, 1} /\ x[2] \in {0, 1} /\ x[3] \in {0, 1}
          /\ x[4] \in {0, 1} /\ x[5] \in {0, 1} /\ x[6] \in {0, 1} /\ x[7] \in {0, 1}
      OBVIOUS
    <2> QED BY <2>1 DEF Weight
  <1>4. Weight(SumOfBits(v, b)) \in 0 .. 255
    BY <1>2, <1>3
  <1>5. XorByte(v, b) = 256 * (v \div 256) + Weight(SumOfBits(v, b))
    BY XorIs
  <1> QED BY <1>1, <1>4, <1>5, Powers DEF Word

(* Adding a byte loses nothing either, neither of the checksum nor of the  *)
(* byte.                                                                   *)
LEMMA XorKeepsApart ==
    ASSUME NEW v \in Word, NEW w \in Word, NEW b \in Byte, NEW c \in Byte,
           XorByte(v, b) = XorByte(w, c)
    PROVE  (v = w => b = c) /\ (b = c => v = w)
  <1>1. v \in Nat /\ w \in Nat /\ b \in Nat /\ c \in Nat
    BY Powers DEF Word, Byte
  <1>2. v \div 256 \in Nat /\ w \div 256 \in Nat /\ b \div 256 = 0 /\ c \div 256 = 0
    BY Powers DEF Word, Byte
  <1>3. /\ SumOfBits(v, b) \in [0 .. 7 -> {0, 1}]
        /\ SumOfBits(w, c) \in [0 .. 7 -> {0, 1}]
    BY <1>1, SumOfBitsTells
  <1>4. 256 * (v \div 256) + Weight(SumOfBits(v, b))
          = 256 * (w \div 256) + Weight(SumOfBits(w, c))
    BY XorIs
  <1>5. v \div 256 = w \div 256 /\ SumOfBits(v, b) = SumOfBits(w, c)
    BY <1>2, <1>3, <1>4, BitsTell
  <1>6. SumOfBits(v, b) = SumOfBits(w, c)
    BY <1>5
  <1>7. ASSUME v = w PROVE b = c
    <2>1. Bits(b) = Bits(c)
      BY <1>1, <1>6, <1>7, SumOfBitsTells
    <2>2. b = 256 * (b \div 256) + Weight(Bits(b)) /\ c = 256 * (c \div 256) + Weight(Bits(c))
      BY <1>1, BitsOf
    <2> QED BY <1>2, <2>1, <2>2
  <1>8. ASSUME b = c PROVE v = w
    <2>1. Bits(v) = Bits(w)
      BY <1>1, <1>6, <1>8, SumOfBitsTells
    <2>2. v = 256 * (v \div 256) + Weight(Bits(v)) /\ w = 256 * (w \div 256) + Weight(Bits(w))
      BY <1>1, BitsOf
    <2> QED BY <1>5, <2>1, <2>2
  <1> QED BY <1>7, <1>8

(* computeCrc turns the shift register eight times for each byte. *)
Shifts(f) == \A k \in 1 .. 8 : f[k] = ShiftCrc(f[k - 1])

LEMMA CrcByteShifts ==
    ASSUME NEW v \in Word, NEW b \in Byte
    PROVE  \E f \in [0 .. 8 -> Word] :
              f[0] = XorByte(v, b) /\ Shifts(f) /\ CrcByte(v, b) = f[8]
  <1> DEFINE once == [w \in Word |-> ShiftCrc(w)]
             step == [k \in 1 .. 8 |-> once]
             Eq(s) == s = [k \in 0 .. 8 |-> IF k = 0 THEN XorByte(v, b) ELSE once[s[k - 1]]]
             shift == CHOOSE s : Eq(s)
  <1>1. once \in [Word -> Word] /\ \A w \in Word : once[w] = ShiftCrc(w)
    BY ShiftInWord
  <1>2. CrcByte(v, b) = shift[8]
    BY DEF CrcByte
  <1> HIDE DEF once
  <1>3. step \in [1 .. 8 -> [Word -> Word]] /\ \A k \in 1 .. 8 : step[k] = once
    BY <1>1
  <1> HIDE DEF step
  <1>4. XorByte(v, b) \in Word
    BY XorInWord
  <1>5. PICK f : Loop(f, Word, 8, XorByte(v, b), step)
    <2>1. 8 \in Nat
      OBVIOUS
    <2> QED BY <1>3, <1>4, <2>1, LoopRuns, Zenon
  <1>6. Eq(f)
    <2>1. \A k \in 0 .. 8 : f[k] = IF k = 0 THEN XorByte(v, b) ELSE once[f[k - 1]]
      BY <1>3, <1>5 DEF Loop
    <2>2. f \in [0 .. 8 -> Word]
      BY <1>5 DEF Loop
    <2> QED BY <2>1, <2>2
  <1>7. Eq(shift)
    <2> HIDE DEF Eq
    <2> QED BY <1>6
  <1>8. /\ shift[0] = XorByte(v, b) /\ \A k \in 1 .. 8 : shift[k] = once[shift[k - 1]]
        /\ DOMAIN shift = 0 .. 8 /\ shift = [k \in 0 .. 8 |-> shift[k]]
    <2> HIDE DEF shift
    <2> QED BY <1>7
  <1> HIDE DEF shift, Eq
  <1>9. \A k \in 0 .. 8 : shift[k] \in Word
    <2>1. \A k \in 1 .. 8 : shift[k - 1] \in Word => shift[k] \in Word
      BY <1>1, <1>8
    <2> QED BY <1>4, <1>8, <2>1, LoopKeeps
  <1>10. shift \in [0 .. 8 -> Word]
    BY <1>8, <1>9
  <1>11. Shifts(shift)
    <2>1. \A k \in 1 .. 8 : k - 1 \in 0 .. 8
      OBVIOUS
    <2> QED BY <1>1, <1>8, <1>9, <2>1 DEF Shifts
  <1> QED BY <1>8, <1>2, <1>10, <1>11

LEMMA CrcByteInWord ==
    ASSUME NEW v \in Word, NEW b \in Byte
    PROVE  CrcByte(v, b) \in Word
  BY CrcByteShifts

LEMMA CrcByteKeepsApart ==
    ASSUME NEW v \in Word, NEW w \in Word, NEW b \in Byte, NEW c \in Byte,
           CrcByte(v, b) = CrcByte(w, c)
    PROVE  (v = w => b = c) /\ (b = c => v = w)
  <1>1. PICK f \in [0 .. 8 -> Word] :
           f[0] = XorByte(v, b) /\ Shifts(f) /\ CrcByte(v, b) = f[8]
    BY CrcByteShifts
  <1>2. PICK g \in [0 .. 8 -> Word] :
           g[0] = XorByte(w, c) /\ Shifts(g) /\ CrcByte(w, c) = g[8]
    BY CrcByteShifts
  <1> DEFINE Apart == {p \in Word \X Word : p[1] # p[2]}
             h == [k \in 0 .. 8 |-> <<f[k], g[k]>>]
  <1>3. ASSUME f[0] # g[0] PROVE FALSE
    <2>1. h[0] \in Apart
      BY <1>3
    <2>2. ASSUME NEW k \in 1 .. 8, h[k - 1] \in Apart PROVE h[k] \in Apart
      <3>1. k - 1 \in 0 .. 8 /\ k \in 0 .. 8
        OBVIOUS
      <3>2. f[k - 1] \in Word /\ g[k - 1] \in Word /\ f[k - 1] # g[k - 1]
        BY <2>2, <3>1
      <3>3. f[k] = ShiftCrc(f[k - 1]) /\ g[k] = ShiftCrc(g[k - 1])
        BY <1>1, <1>2 DEF Shifts
      <3>4. f[k] \in Word /\ g[k] \in Word /\ f[k] # g[k]
        BY <3>1, <3>2, <3>3, ShiftKeepsApart
      <3> QED BY <3>1, <3>4
    <2>3. \A k \in 0 .. 8 : h[k] \in Apart
      <3> HIDE DEF h, Apart
      <3> QED BY <2>1, <2>2, LoopKeeps
    <2>4. h[8] \in Apart
      BY <2>3
    <2>5. f[8] # g[8]
      <3>1. 8 \in 0 .. 8
        OBVIOUS
      <3> QED BY <2>4, <3>1
    <2> QED BY <1>1, <1>2, <2>5
  <1>4. XorByte(v, b) = XorByte(w, c)
    BY <1>1, <1>2, <1>3
  <1> QED BY <1>4, XorKeepsApart

LEMMA Inverted == ASSUME NEW v \in Word PROVE 65535 - v \in Word /\ v \in Int
  BY Powers DEF Word

(* The checksum after each byte of data. *)
Sums(f, data) == \A i \in 1 .. Len(data) : f[i] = CrcByte(f[i - 1], data[i])

LEMMA CrcSums ==
    ASSUME NEW data \in Seq(Byte)
    PROVE  \E f \in [0 .. Len(data) -> Word] :
              f[0] = CRC_PRESET /\ Sums(f, data) /\ ComputeCrc(data) = 65535 - f[Len(data)]
  <1> DEFINE n == Len(data)
             add == [v \in Word |-> [b \in Byte |-> CrcByte(v, b)]]
             step == [i \in 1 .. n |-> [v \in Word |-> add[v][data[i]]]]
             Eq(s) == s = [i \in 0 .. n |-> IF i = 0 THEN CRC_PRESET ELSE add[s[i - 1]][data[i]]]
             crc == CHOOSE s : Eq(s)
  <1>1. add \in [Word -> [Byte -> Word]]
    BY CrcByteInWord
  <1>2. \A v \in Word : \A b \in Byte : add[v][b] = CrcByte(v, b)
    OBVIOUS
  <1>3. n \in Nat /\ \A i \in 1 .. n : data[i] \in Byte
    OBVIOUS
  <1>4. ComputeCrc(data) = 65535 - crc[n]
    BY DEF ComputeCrc
  <1> HIDE DEF add, n
  <1>5. /\ step \in [1 .. n -> [Word -> Word]]
        /\ \A i \in 1 .. n : \A v \in Word : step[i][v] = add[v][data[i]]
    BY <1>1, <1>3
  <1> HIDE DEF step
  <1>6. CRC_PRESET \in Word
    BY Powers DEF CRC_PRESET, Word
  <1>7. PICK f : Loop(f, Word, n, CRC_PRESET, step)
    BY <1>3, <1>5, <1>6, LoopRuns, Zenon
  <1>8. Eq(f)
    <2>0. /\ f \in [0 .. n -> Word] /\ f[0] = CRC_PRESET
          /\ \A i \in 1 .. n : f[i] = step[i][f[i - 1]]
      BY <1>7 DEF Loop
    <2>1. \A i \in 1 .. n : i - 1 \in 0 .. n /\ f[i - 1] \in Word
      BY <1>3, <2>0
    <2>2. \A i \in 0 .. n : f[i] = IF i = 0 THEN CRC_PRESET ELSE add[f[i - 1]][data[i]]
      BY <1>3, <1>5, <2>0, <2>1
    <2> QED BY <2>0, <2>2
  <1>9. Eq(crc)
    <2> HIDE DEF Eq
    <2> QED BY <1>8
  <1>10. crc[0] = CRC_PRESET /\ \A i \in 1 .. n : crc[i] = add[crc[i - 1]][data[i]]
    <2> HIDE DEF crc
    <2> QED BY <1>3, <1>6, <1>9
  <1>11. crc = [i \in 0 .. n |-> crc[i]]
    <2> HIDE DEF crc
    <2> QED BY <1>9
  <1> HIDE DEF crc, Eq
  <1>12. \A i \in 0 .. n : crc[i] \in Word
    <2>1. ASSUME NEW i \in 1 .. n, crc[i - 1] \in Word PROVE crc[i] \in Word
      <3>1. data[i] \in Byte
        BY <1>3
      <3>2. add[crc[i - 1]][data[i]] \in Word
        BY <1>1, <2>1, <3>1
      <3> QED BY <1>10, <3>2
    <2> QED BY <1>3, <1>6, <1>10, <2>1, LoopKeeps
  <1>13. crc \in [0 .. n -> Word]
    BY <1>12, <1>11
  <1>14. \A i \in 1 .. n : crc[i] = CrcByte(crc[i - 1], data[i])
    <2>1. \A i \in 1 .. n : i - 1 \in 0 .. n
      BY <1>3
    <2> QED BY <1>3, <1>10, <1>12, <1>2, <2>1
  <1>15. Sums(crc, data) /\ crc \in [0 .. Len(data) -> Word] /\ ComputeCrc(data) = 65535 - crc[Len(data)]
    BY <1>4, <1>13, <1>14 DEF Sums, n
  <1>16. crc[0] = CRC_PRESET
    BY <1>10
  <1> QED BY <1>15, <1>16

(* A checksum is two bytes, whatever it is of. *)
LEMMA CrcInWord ==
    ASSUME NEW data \in Seq(Byte)
    PROVE  ComputeCrc(data) \in Word
  <1>1. PICK f \in [0 .. Len(data) -> Word] : ComputeCrc(data) = 65535 - f[Len(data)]
    BY CrcSums
  <1>2. Len(data) \in 0 .. Len(data)
    OBVIOUS
  <1> QED BY <1>1, <1>2, Inverted

(* No change of one byte, at any place in data of any length, keeps the    *)
(* checksum (computeCrc in Iso13239CRC.cc).                                *)
THEOREM CrcFindsOneByte ==
    ASSUME NEW data \in Seq(Byte), NEW other \in Seq(Byte), Len(other) = Len(data),
           NEW at \in 1 .. Len(data), other[at] # data[at],
           \A i \in 1 .. Len(data) : i # at => other[i] = data[i]
    PROVE  ComputeCrc(other) # ComputeCrc(data)
  <1> DEFINE n == Len(data)
  <1>1. PICK f \in [0 .. n -> Word] :
           f[0] = CRC_PRESET /\ Sums(f, data) /\ ComputeCrc(data) = 65535 - f[n]
    BY CrcSums
  <1>2. PICK g \in [0 .. n -> Word] :
           g[0] = CRC_PRESET /\ Sums(g, other) /\ ComputeCrc(other) = 65535 - g[n]
    BY CrcSums
  <1>3. n \in Nat /\ at \in Nat /\ 1 <= at /\ at <= n
    OBVIOUS
  <1>4. \A i \in 1 .. n : data[i] \in Byte /\ other[i] \in Byte
    OBVIOUS
  <1>5. \A i \in 1 .. n : f[i] = CrcByte(f[i - 1], data[i]) /\ g[i] = CrcByte(g[i - 1], other[i])
    BY <1>1, <1>2 DEF Sums
  <1>6. \A i \in 1 .. n : i # at => other[i] = data[i]
    OBVIOUS
  <1> HIDE DEF n
  (* The same until the change, never the same again after it. *)
  <1> DEFINE Parted == {p \in Nat \X Word \X Word : p[2] = p[3] <=> p[1] < at}
             h == [i \in 0 .. n |-> <<i, f[i], g[i]>>]
  <1>7. h[0] \in Parted
    <2>1. 0 \in 0 .. n
      BY <1>3
    <2> QED BY <1>1, <1>2, <1>3, <2>1
  <1>8. ASSUME NEW i \in 1 .. n, h[i - 1] \in Parted PROVE h[i] \in Parted
    <2>1. i - 1 \in 0 .. n /\ i \in 0 .. n /\ i \in Nat /\ i - 1 \in Nat
      BY <1>3
    <2>2. /\ f[i - 1] \in Word /\ g[i - 1] \in Word /\ f[i] \in Word /\ g[i] \in Word
          /\ f[i - 1] = g[i - 1] <=> i - 1 < at
      BY <1>8, <2>1
    <2> HIDE DEF h, Parted
    <2>3. CASE i < at
      <3>1. f[i - 1] = g[i - 1] /\ other[i] = data[i]
        BY <1>3, <1>6, <2>1, <2>2, <2>3
      <3>2. f[i] = g[i]
        BY <1>5, <3>1
      <3> QED BY <2>1, <2>2, <2>3, <3>2 DEF h, Parted
    <2>4. CASE i = at
      <3>1. f[i - 1] = g[i - 1] /\ other[i] # data[i]
        BY <1>3, <2>1, <2>2, <2>4
      <3>2. f[i] # g[i]
        BY <1>4, <1>5, <2>2, <3>1, CrcByteKeepsApart
      <3>3. ~(i < at)
        BY <1>3, <2>4
      <3> QED BY <2>1, <2>2, <3>2, <3>3 DEF h, Parted
    <2>5. CASE i > at
      <3>1. f[i - 1] # g[i - 1] /\ other[i] = data[i] /\ ~(i < at)
        BY <1>3, <1>6, <2>1, <2>2, <2>5
      <3>2. f[i] # g[i]
        BY <1>4, <1>5, <2>2, <3>1, CrcByteKeepsApart
      <3> QED BY <2>1, <2>2, <3>1, <3>2 DEF h, Parted
    <2> QED BY <1>3, <2>1, <2>3, <2>4, <2>5
  <1>9. \A i \in 0 .. n : h[i] \in Parted
    <2> HIDE DEF h, Parted
    <2> QED BY <1>3, <1>7, <1>8, LoopKeeps
  <1>10. h[n] \in Parted /\ n \in 0 .. n
    BY <1>3, <1>9
  <1>11. f[n] # g[n] /\ f[n] \in Word /\ g[n] \in Word
    BY <1>3, <1>10
  <1>12. \A x, y \in Word : 65535 - x = 65535 - y => x = y
    <2>1. \A x \in Word : x \in Int
      BY Inverted
    <2>2. \A x, y \in Int : 65535 - x = 65535 - y => x = y
      OBVIOUS
    <2> QED BY <2>1, <2>2
  <1> QED BY <1>1, <1>2, <1>11, <1>12

(* Bytes whose last two are the checksum of the n before them: a change of *)
(* any one byte of all these shows.                                        *)
Checked(s, n) == s[n + 1] + 256 * s[n + 2] = ComputeCrc(SubSeq(s, 1, n))

LEMMA Beginning ==
    ASSUME NEW s \in Seq(Byte), NEW n \in Nat, n <= Len(s)
    PROVE  /\ SubSeq(s, 1, n) \in Seq(Byte) /\ Len(SubSeq(s, 1, n)) = n
           /\ \A i \in 1 .. n : SubSeq(s, 1, n)[i] = s[i]
  <1>1. \A i \in 1 .. n : s[i] \in Byte
    OBVIOUS
  <1>2. /\ SubSeq(s, 1, n) \in Seq(Byte)
        /\ Len(SubSeq(s, 1, n)) = IF 1 <= n THEN n - 1 + 1 ELSE 0
        /\ \A i \in 1 .. n - 1 + 1 : SubSeq(s, 1, n)[i] = s[1 + i - 1]
    BY <1>1, SubSeqProperties
  <1> QED BY <1>2

(* Nor does any change of one byte of data or checksum keep the two in     *)
(* accord (Tpdu_isChecksumOk, Atp_setAtp).                                 *)
THEOREM OneByteShows ==
    ASSUME NEW a \in Seq(Byte), NEW n \in Nat, Len(a) = n + 2, Checked(a, n),
           NEW at \in 1 .. Len(a), NEW b \in Byte, b # a[at]
    PROVE  ~Checked([a EXCEPT ![at] = b], n)
  <1> DEFINE d == [a EXCEPT ![at] = b]
             covered(s) == SubSeq(s, 1, n)
  <1>1. /\ d \in Seq(Byte) /\ Len(d) = Len(a)
        /\ \A i \in 1 .. Len(a) : d[i] = IF i = at THEN b ELSE a[i]
    OBVIOUS
  <1> HIDE DEF d
  <1>2. /\ covered(a) \in Seq(Byte) /\ Len(covered(a)) = n
        /\ \A i \in 1 .. n : covered(a)[i] = a[i]
    BY Beginning
  <1>3. /\ covered(d) \in Seq(Byte) /\ Len(covered(d)) = n
        /\ \A i \in 1 .. n : covered(d)[i] = d[i]
    <2>1. n <= Len(d)
      BY <1>1
    <2> QED BY <1>1, <2>1, Beginning
  <1>4. a[n + 1] + 256 * a[n + 2] = ComputeCrc(covered(a))
    BY DEF Checked
  <1>5. Checked(d, n) => d[n + 1] + 256 * d[n + 2] = ComputeCrc(covered(d))
    BY DEF Checked
  <1> HIDE DEF covered
  <1>6. /\ n + 1 \in 1 .. Len(a) /\ n + 2 \in 1 .. Len(a)
        /\ a[n + 1] \in Byte /\ a[n + 2] \in Byte
    <2>1. n + 1 \in 1 .. Len(a) /\ n + 2 \in 1 .. Len(a)
      OBVIOUS
    <2> QED BY <2>1
  <1>7. CASE at <= n
    <2>1. d[n + 1] = a[n + 1] /\ d[n + 2] = a[n + 2]
      BY <1>1, <1>6, <1>7
    <2>2. at \in 1 .. Len(covered(a)) /\ covered(d)[at] # covered(a)[at]
      <3>1. at \in 1 .. n
        BY <1>7
      <3>2. d[at] # a[at]
        BY <1>1
      <3> QED BY <1>2, <1>3, <3>1, <3>2
    <2>3. \A i \in 1 .. Len(covered(a)) : i # at => covered(d)[i] = covered(a)[i]
      <3>1. \A i \in 1 .. n : i \in 1 .. Len(a)
        OBVIOUS
      <3> QED BY <1>1, <1>2, <1>3, <3>1
    <2>4. ComputeCrc(covered(d)) # ComputeCrc(covered(a))
      BY <1>2, <1>3, <2>2, <2>3, CrcFindsOneByte
    <2>5. ~Checked(d, n)
      BY <1>4, <1>5, <2>1, <2>4
    <2> QED BY <2>5 DEF d
  <1>8. CASE at > n
    <2>1. covered(d) = covered(a)
      <3>1. \A i \in 1 .. n : i \in 1 .. Len(a) /\ i # at
        BY <1>8
      <3>2. \A i \in 1 .. n : covered(d)[i] = covered(a)[i]
        BY <1>1, <1>2, <1>3, <3>1
      <3> QED BY <1>2, <1>3, <3>2, SeqEqual
    <2>2. \/ at = n + 1 /\ d[n + 1] = b /\ d[n + 2] = a[n + 2]
          \/ at = n + 2 /\ d[n + 1] = a[n + 1] /\ d[n + 2] = b
      BY <1>1, <1>6, <1>8
    <2>3. \A p, q, x \in Byte : x # p => x + 256 * q # p + 256 * q /\ q + 256 * x # q + 256 * p
      BY DEF Byte
    <2>4. d[n + 1] + 256 * d[n + 2] # a[n + 1] + 256 * a[n + 2]
      BY <1>6, <2>2, <2>3
    <2>5. ~Checked(d, n)
      BY <1>4, <1>5, <2>1, <2>4
    <2> QED BY <2>5 DEF d
  <1> QED BY <1>7, <1>8

(* A checksum travels as two bytes and is the same when it is read. *)
LEMMA ChecksumTravels ==
    ASSUME NEW c \in Word
    PROVE  /\ ChecksumBytes(c) \in Seq(Byte) /\ Len(ChecksumBytes(c)) = 2
           /\ ChecksumValue(ChecksumBytes(c)) = c
  <1>1. c \in Int /\ c >= 0 /\ c <= 65535
    BY Powers DEF Word
  <1>2. c % 256 \in Byte /\ c \div 256 \in Byte
    BY <1>1 DEF Byte
  <1>3. (c % 256) + 256 * (c \div 256) = c
    BY <1>1
  <1> QED BY <1>2, <1>3 DEF ChecksumBytes, ChecksumValue

(* Bytes with their checksum behind them. *)
LEMMA SealedIs ==
    ASSUME NEW s \in Seq(Byte), NEW sealed, sealed = s \o ChecksumBytes(ComputeCrc(s))
    PROVE  /\ sealed \in Seq(Byte) /\ Len(sealed) = Len(s) + 2
           /\ \A i \in 1 .. Len(s) : sealed[i] = s[i]
           /\ Checked(sealed, Len(s))
  <1> DEFINE n == Len(s)
             crc == ComputeCrc(s)
             check == ChecksumBytes(crc)
  <1>1. n \in Nat
    OBVIOUS
  <1>2. crc \in Word
    BY CrcInWord
  <1> HIDE DEF crc
  <1>3. check \in Seq(Byte) /\ Len(check) = 2 /\ check[1] + 256 * check[2] = crc
    BY <1>2, ChecksumTravels DEF ChecksumValue
  <1> HIDE DEF check
  <1>4. /\ s \o check \in Seq(Byte) /\ Len(s \o check) = Len(s) + Len(check)
        /\ \A i \in 1 .. Len(s) + Len(check) :
              (s \o check)[i] = IF i <= Len(s) THEN s[i] ELSE check[i - Len(s)]
    BY <1>3, ConcatProperties
  <1>5. sealed = s \o check
    BY DEF check, crc
  <1>6. /\ sealed \in Seq(Byte) /\ Len(sealed) = n + 2
        /\ \A i \in 1 .. n + 2 : sealed[i] = IF i <= n THEN s[i] ELSE check[i - n]
    BY <1>3, <1>4, <1>5
  <1>7. \A i \in 1 .. n : sealed[i] = s[i]
    <2> HIDE DEF n
    <2> QED BY <1>1, <1>6
  <1>8. SubSeq(sealed, 1, n) = s
    <2>1. /\ SubSeq(sealed, 1, n) \in Seq(Byte) /\ Len(SubSeq(sealed, 1, n)) = n
          /\ \A i \in 1 .. n : SubSeq(sealed, 1, n)[i] = sealed[i]
      <3>1. n <= Len(sealed)
        BY <1>1, <1>6
      <3> QED BY <1>1, <1>6, <3>1, Beginning
    <2>2. \A i \in 1 .. n : SubSeq(sealed, 1, n)[i] = s[i]
      BY <1>7, <2>1
    <2> QED BY <2>1, <2>2, SeqEqual
  <1>9. sealed[n + 1] = check[1] /\ sealed[n + 2] = check[2]
    <2> HIDE DEF n
    <2>1. \A i \in 1 .. n + 2 : ~(i <= n) => sealed[i] = check[i - n]
      <3>1. \A i \in 1 .. n + 2 : sealed[i] = IF i <= n THEN s[i] ELSE check[i - n]
        BY <1>6
      <3> QED BY <3>1, Zenon
    <2>2. /\ n + 1 \in 1 .. n + 2 /\ ~(n + 1 <= n) /\ (n + 1) - n = 1
          /\ n + 2 \in 1 .. n + 2 /\ ~(n + 2 <= n) /\ (n + 2) - n = 2
      BY <1>1
    <2>3. sealed[n + 1] = check[(n + 1) - n] /\ sealed[n + 2] = check[(n + 2) - n]
      BY <2>1, <2>2, Zenon
    <2> QED BY <2>2, <2>3
  <1>10. Checked(sealed, n)
    BY <1>3, <1>8, <1>9 DEF Checked, crc
  <1> QED BY <1>6, <1>7, <1>10

(* The second read of a block has its data and then its checksum. *)
LEMMA RestRead ==
    ASSUME NEW data \in Seq(Byte), NEW check \in Seq(Byte), Len(check) = 2
    PROVE  /\ SubSeq(data \o check, 1, Len(data)) = data
           /\ SubSeq(data \o check, Len(data) + 1, Len(data) + 2)[1] = check[1]
           /\ SubSeq(data \o check, Len(data) + 1, Len(data) + 2)[2] = check[2]
  <1> DEFINE rest == data \o check
             n == Len(data)
  <1>1. /\ n \in Nat /\ rest \in Seq(Byte) /\ Len(rest) = n + 2
        /\ \A i \in 1 .. n + 2 : rest[i] = IF i <= n THEN data[i] ELSE check[i - n]
    <2>1. /\ data \o check \in Seq(Byte) /\ Len(data \o check) = Len(data) + Len(check)
          /\ \A i \in 1 .. Len(data) + Len(check) :
                (data \o check)[i] = IF i <= Len(data) THEN data[i] ELSE check[i - Len(data)]
      BY ConcatProperties, Zenon
    <2>2. Len(data) \in Nat
      OBVIOUS
    <2> QED BY <2>1, <2>2
  <1> HIDE DEF rest, n
  <1>2. \A i \in 1 .. n + 2 : rest[i] \in Byte
    BY <1>1
  <1>3. /\ SubSeq(rest, 1, n) \in Seq(Byte) /\ Len(SubSeq(rest, 1, n)) = n
        /\ \A i \in 1 .. n : SubSeq(rest, 1, n)[i] = rest[i]
    BY <1>1, <1>2
  <1>4. SubSeq(rest, 1, n) = data
    <2>1. \A i \in 1 .. n : SubSeq(rest, 1, n)[i] = data[i]
      BY <1>1, <1>3
    <2>2. Len(data) = n
      BY DEF n
    <2> QED BY <1>3, <2>1, <2>2, SeqEqual
  <1>5. /\ SubSeq(rest, n + 1, n + 2)[1] = rest[n + 1]
        /\ SubSeq(rest, n + 1, n + 2)[2] = rest[n + 2]
    BY <1>1, <1>2
  <1>6. rest[n + 1] = check[1] /\ rest[n + 2] = check[2]
    BY <1>1
  <1> QED BY <1>4, <1>5, <1>6 DEF rest, n

(* A block that Tpdu_formTpdu made, sent by Tpdu_toByteArray and read in   *)
(* two reads without damage is the block that was sent, and its checksum   *)
(* is accepted: for every header and any data that a length byte can tell. *)
Header(nad, pcb, data) == <<nad, pcb, Len(data)>>

LEMMA FormedIsRead ==
    ASSUME NEW nad \in Byte, NEW pcb \in Byte, NEW data \in Seq(Byte), Len(data) \in Byte
    PROVE  LET tpdu   == FormTpdu(nad, pcb, data)
               front  == Header(nad, pcb, data)
               check  == ChecksumBytes(tpdu.checksum)
           IN  /\ ToByteArray(tpdu) = front \o data \o check
               /\ ToByteArray(tpdu) \in Seq(Byte)
               /\ Len(ToByteArray(tpdu)) = Len(data) + 5
               /\ FromBytes(front, data \o check) = tpdu
               /\ ChecksumOk(tpdu)
               /\ check \in Seq(Byte)
  <1> SUFFICES
        ASSUME NEW tpdu, tpdu = FormTpdu(nad, pcb, data)
        PROVE  /\ ToByteArray(tpdu) =
                     <<nad, pcb, Len(data)>> \o data \o ChecksumBytes(tpdu.checksum)
               /\ ToByteArray(tpdu) \in Seq(Byte) /\ Len(ToByteArray(tpdu)) = Len(data) + 5
               /\ FromBytes(<<nad, pcb, Len(data)>>, data \o ChecksumBytes(tpdu.checksum))
                     = tpdu
               /\ ChecksumOk(tpdu)
               /\ ChecksumBytes(tpdu.checksum) \in Seq(Byte)
    BY DEF Header
  <1> DEFINE front == <<nad, pcb, Len(data)>>
             crc == ComputeCrc(front \o data)
             check == ChecksumBytes(crc)
             rest == data \o check
  <1>1. front \in Seq(Byte) /\ Len(front) = 3
    OBVIOUS
  <1>2. front \o data \in Seq(Byte) /\ Len(front \o data) = 3 + Len(data)
    BY <1>1
  <1>3. crc \in Word
    BY <1>2, CrcInWord
  <1>4. tpdu = [nad |-> nad, pcb |-> pcb, len |-> Len(data), data |-> data, checksum |-> crc]
    BY DEF FormTpdu
  <1> HIDE DEF crc
  <1>5. check \in Seq(Byte) /\ Len(check) = 2 /\ ChecksumValue(check) = crc
    BY <1>3, ChecksumTravels
  <1>6. ToByteArray(tpdu) = front \o data \o check
    BY <1>4 DEF ToByteArray
  <1> HIDE DEF check
  <1>7. /\ front \o data \o check \in Seq(Byte)
        /\ Len(front \o data \o check) = Len(data) + 5
    <2>1. Len(data) \in Nat
      OBVIOUS
    <2> DEFINE both == front \o data
    <2> HIDE DEF both
    <2>2. both \in Seq(Byte) /\ Len(both) = 3 + Len(data)
      BY <1>2 DEF both
    <2>3. both \o check \in Seq(Byte) /\ Len(both \o check) = Len(both) + Len(check)
      BY <1>5, <2>2, ConcatProperties
    <2> QED BY <1>5, <2>1, <2>2, <2>3 DEF both
  <1>8. SubSeq(rest, 1, Len(data)) = data
    BY <1>5, RestRead
  <1>9. ChecksumValue(SubSeq(rest, Len(data) + 1, Len(data) + 2)) = ChecksumValue(check)
    BY <1>5, RestRead DEF ChecksumValue
  <1>10. FromBytes(front, rest) = tpdu
    <2>1. front[1] = nad /\ front[2] = pcb /\ front[3] = Len(data)
      OBVIOUS
    <2> HIDE DEF front, rest
    <2> QED BY <1>4, <1>5, <1>8, <1>9, <2>1 DEF FromBytes
  <1>11. ChecksumOk(tpdu)
    BY <1>4 DEF ChecksumOk, crc
  <1>12. check = ChecksumBytes(tpdu.checksum)
    BY <1>4 DEF check
  <1> QED BY <1>6, <1>7, <1>10, <1>11, <1>12

LEMMA ByteReplaced ==
    ASSUME NEW s \in Seq(Byte), NEW i, NEW b, i \in DOMAIN s => b \in Byte
    PROVE  [s EXCEPT ![i] = b] \in Seq(Byte)
  <1>1. CASE i \in DOMAIN s
    BY <1>1
  <1>2. CASE i \notin DOMAIN s
    <2>1. [s EXCEPT ![i] = b] = s
      BY <1>2
    <2> QED BY <2>1
  <1> QED BY <1>1, <1>2

LEMMA ByteChanged ==
    ASSUME NEW s \in Seq(Byte), NEW at \in 1 .. Len(s), NEW b \in Byte
    PROVE  /\ [s EXCEPT ![at] = b] \in Seq(Byte) /\ Len([s EXCEPT ![at] = b]) = Len(s)
           /\ \A i \in 1 .. Len(s) : i # at => [s EXCEPT ![at] = b][i] = s[i]
  OBVIOUS

LEMMA IfscIsPositive == Ifsc \in Nat /\ Ifsc >= 1
  <1>1. Ifsc \in Byte /\ Ifsc # 0
    BY LinkAssumption
  <1> QED BY <1>1 DEF Byte

LEMMA Bytes ==
    /\ NAD_SLAVE_TO_HOST \in Byte /\ Ifsc \in Byte /\ 0 \in Byte /\ 1 \in Byte
    /\ RBlockPcb(0, "ErrorFree") = 128 /\ IBlockPcb(1, TRUE) = 64
    /\ ResponseTo(SBLOCK_IFS_REQUEST) = 225
    /\ 128 \in Byte /\ 64 \in Byte /\ 225 \in Byte
  BY LinkAssumption
  DEF NAD_SLAVE_TO_HOST, Byte, RBlockPcb, IBlockPcb, ResponseTo, SBLOCK_IFS_REQUEST

LEMMA FormedIsBytes ==
    ASSUME NEW nad \in Byte, NEW pcb \in Byte, NEW data \in Seq(Byte), Len(data) \in Byte
    PROVE  ToByteArray(FormTpdu(nad, pcb, data)) \in Seq(Byte)
  BY FormedIsRead

(* The blocks the SE answers with carry one byte at most. *)
LEMMA AnswerIsBytes ==
    ASSUME NEW pcb \in Byte, NEW data,
           data = <<>> \/ data = <<NAD_SLAVE_TO_HOST>> \/ data = <<Ifsc>>
    PROVE  ToByteArray(FormTpdu(NAD_SLAVE_TO_HOST, pcb, data)) \in Seq(Byte)
  <1>1. /\ NAD_SLAVE_TO_HOST \in Byte /\ Ifsc \in Byte
        /\ Len(data) = 0 \/ Len(data) = 1 => Len(data) \in Byte
    BY Bytes
  <1>2. CASE data = <<>>
    <2>1. data \in Seq(Byte) /\ Len(data) = 0
      BY <1>2
    <2> QED BY <1>1, <2>1, FormedIsBytes
  <1>3. ASSUME NEW b \in Byte, data = <<b>>
        PROVE  ToByteArray(FormTpdu(NAD_SLAVE_TO_HOST, pcb, data)) \in Seq(Byte)
    <2>1. data \in Seq(Byte) /\ Len(data) = 1
      BY <1>3
    <2> QED BY <1>1, <2>1, FormedIsBytes
  <1> QED BY <1>1, <1>2, <1>3

LEMMA PcbBytes ==
    /\ RBlockPcb(0, "ErrorFree") \in Byte /\ IBlockPcb(1, TRUE) \in Byte
    /\ ResponseTo(SBLOCK_IFS_REQUEST) \in Byte
  BY DEF Byte, RBlockPcb, IBlockPcb, ResponseTo, SBLOCK_IFS_REQUEST

LEMMA AtpIsBytes ==
    ASSUME NEW bwt \in Word, NEW type \in {0, 1}
    PROVE  AtpOf(bwt, type) \in Seq(Byte)
  <1> DEFINE start == <<EXPECTED_ATP_LENGTH, 1, 2, 3, 4, 5, bwt \div 256, bwt % 256,
                        6, 7, 8, 9, type, Ifsc>>
             zeros == [i \in 1 .. 22 |-> 0]
             fields == start \o zeros
  <1>1. bwt \div 256 \in Byte /\ bwt % 256 \in Byte
    <2>1. bwt \in Int /\ bwt >= 0 /\ bwt <= 65535
      BY Powers DEF Word
    <2> QED BY <2>1 DEF Byte
  <1>2. start \in Seq(Byte)
    BY <1>1, LinkAssumption DEF EXPECTED_ATP_LENGTH, Byte
  <1>3. zeros \in Seq(Byte)
    BY DEF Byte
  <1>4. fields \in Seq(Byte)
    <2> HIDE DEF start, zeros
    <2> QED BY <1>2, <1>3
  <1>5. AtpOf(bwt, type) = fields \o ChecksumBytes(ComputeCrc(fields))
    BY DEF AtpOf
  <1> HIDE DEF fields
  <1>6. ChecksumBytes(ComputeCrc(fields)) \in Seq(Byte)
    BY <1>4, CrcInWord, ChecksumTravels
  <1> QED BY <1>4, <1>5, <1>6

(* The SE's answers are bytes, also when one of them was damaged. *)
LEMMA AnswersAreBytes ==
    ASSUME NEW bytes \in Atps \cup ExchangeAnswers \cup IfsAnswers
    PROVE  bytes \in Seq(Byte) /\ Damaged(bytes) \subseteq Seq(Byte)
  <1>1. bytes \in Seq(Byte)
    <2>1. CASE bytes \in Atps
      <3>1. \E bwt \in Word, type \in {0, 1} : bytes = AtpOf(bwt, type)
        <4>1. 0 \in Word
          BY Powers DEF Word
        <4> QED BY <2>1, <4>1, LinkAssumption DEF Atps
      <3> QED BY <3>1, AtpIsBytes
    <2>2. CASE bytes \in ExchangeAnswers
      <3>1. PICK pcb \in Byte, data \in {<<>>, <<NAD_SLAVE_TO_HOST>>} :
               bytes = ToByteArray(FormTpdu(NAD_SLAVE_TO_HOST, pcb, data))
        BY <2>2, PcbBytes DEF ExchangeAnswers
      <3> QED BY <3>1, AnswerIsBytes
    <2>3. CASE bytes \in IfsAnswers
      <3>1. PICK pcb \in Byte : bytes = ToByteArray(FormTpdu(NAD_SLAVE_TO_HOST, pcb, <<Ifsc>>))
        BY <2>3, PcbBytes DEF IfsAnswers
      <3> QED BY <3>1, AnswerIsBytes
    <2> QED BY <2>1, <2>2, <2>3
  <1>2. ASSUME NEW d \in Damaged(bytes) PROVE d \in Seq(Byte)
    <2>1. CASE bytes \in Atps
      <3>1. \/ d = [bytes EXCEPT ![1] = 0]
            \/ \E i \in {8, 13} : d = [bytes EXCEPT ![i] = FlipBit(bytes[i], 0)]
        BY <1>2, <2>1 DEF Damaged
      <3>2. CASE d = [bytes EXCEPT ![1] = 0]
        BY <1>1, <3>2, Bytes, ByteReplaced
      <3>3. ASSUME NEW i \in {8, 13}, d = [bytes EXCEPT ![i] = FlipBit(bytes[i], 0)]
            PROVE  d \in Seq(Byte)
        <4>1. i \in DOMAIN bytes => FlipBit(bytes[i], 0) \in Byte
          <5>1. i \in DOMAIN bytes => bytes[i] \in Byte
            BY <1>1
          <5> QED BY <5>1, FlipInByte
        <4> QED BY <1>1, <3>3, <4>1, ByteReplaced
      <3> QED BY <3>1, <3>2, <3>3
    <2>2. CASE bytes \notin Atps
      <3> DEFINE noisy(i) == {[bytes EXCEPT ![i] = b] : b \in Noise(bytes[i])}
      <3>0. Damaged(bytes) = UNION {noisy(i) : i \in DOMAIN bytes}
        BY <2>2 DEF Damaged
      <3> HIDE DEF noisy
      <3>9. PICK i \in DOMAIN bytes : d \in noisy(i)
        BY <1>2, <3>0
      <3>1. PICK b \in Noise(bytes[i]) : d = [bytes EXCEPT ![i] = b]
        BY <3>9 DEF noisy
      <3>2. bytes[i] \in Byte
        BY <1>1
      <3>3. b \in Byte
        BY <3>2, Bytes, FlipInByte DEF Noise
      <3> QED BY <1>1, <3>1, <3>3, ByteReplaced
    <2> QED BY <2>1, <2>2
  <1> QED BY <1>1, <1>2

-----------------------------------------------------------------------------
(* Division by a positive number, and by two as C divides.                 *)

LEMMA Division ==
    \A w \in Int : \A t \in Nat \ {0} :
        /\ w \div t \in Int /\ w % t \in 0 .. t - 1
        /\ w = t * (w \div t) + (w % t)
  OBVIOUS

LEMMA Halving ==
    \A x \in Int :
        /\ Truncated(x, 2) \in Int
        /\ 2 * Truncated(x, 2) <= x + 1
        /\ 2 * Truncated(x, 2) >= x - 1
        /\ x >= 0 => Truncated(x, 2) >= 0
  BY DEF Truncated

(* Utils_getElapsedTimeInMs of a timestamp the clock was left alone since. *)
LEMMA ElapsedTime ==
    ASSUME phase \in Int, NEW t, t.age \in Nat, t.wall = t.age
    PROVE  /\ Elapsed(t) \in Nat
           /\ 2 * Elapsed(t) <= t.age + 1
           /\ SecondsSince(t) = 0 => Elapsed(t) = Truncated(t.age, 2)
  <1> DEFINE w == WallNow
             v == WallNow - t.wall
             d == Ticks(Second)
             q == (w \div d) - (v \div d)
             r1 == w % d
             r2 == v % d
  <1>1. Second \in Nat \ {0} /\ d = 2 * Second /\ d \in Nat \ {0} /\ Horizon \in Nat
    BY LinkAssumption DEF Ticks
  <1>2. w \in Int /\ v \in Int /\ w - v = t.age
    BY <1>1 DEF WallNow, Ticks
  <1>3. /\ w \div d \in Int /\ v \div d \in Int
        /\ r1 \in 0 .. 2 * Second - 1 /\ r2 \in 0 .. 2 * Second - 1
        /\ w = d * (w \div d) + r1 /\ v = d * (v \div d) + r2
    <2> HIDE DEF w, v, d
    <2> QED BY <1>1, <1>2, Division
  <1>4. q \in Int /\ t.age = d * q + (r1 - r2)
    <2>1. \A a, b, m \in Int : m * (a - b) = m * a - m * b
      OBVIOUS
    <2>2. d * q = d * (w \div d) - d * (v \div d)
      <3> HIDE DEF w, v, d
      <3> QED BY <1>1, <1>3, <2>1
    <2>3. d * (w \div d) \in Int /\ d * (v \div d) \in Int
      <3> HIDE DEF w, v, d
      <3> QED BY <1>1, <1>3
    <2>4. q \in Int
      <3> HIDE DEF w, v, d
      <3> QED BY <1>3
    <2> HIDE DEF w, v, d, q, r1, r2
    <2> QED BY <1>1, <1>2, <1>3, <2>2, <2>3, <2>4
  <1> DEFINE x == r1 - r2
             p == q * Second
  <1>5. x \in Int /\ x > -(2 * Second) /\ x < 2 * Second
    <2> HIDE DEF w, v, d, r1, r2
    <2> QED BY <1>1, <1>3
  <1>6. p \in Int /\ t.age = 2 * p + x
    <2> HIDE DEF w, v, q, r1, r2
    <2>1. d * q = 2 * p
      BY <1>1, <1>4
    <2> QED BY <1>1, <1>3, <1>4, <2>1
  <1>7. q <= -1 => p <= -Second
    <2> HIDE DEF q
    <2> QED BY <1>1, <1>4
  <1>8. (q = 0 => p = 0) /\ (q >= 1 => p >= Second)
    <2> HIDE DEF q
    <2> QED BY <1>1, <1>4
  <1>9. Elapsed(t) = p + Truncated(x, 2) /\ SecondsSince(t) = q
    BY DEF Elapsed, SecondsSince, Ticks
  <1> HIDE DEF w, v, d, q, r1, r2, x, p
  <1>10. /\ Truncated(x, 2) \in Int /\ 2 * Truncated(x, 2) <= x + 1
         /\ 2 * Truncated(x, 2) >= x - 1
         /\ x >= 0 => Truncated(x, 2) >= 0
    BY <1>5, Halving
  <1>11. q >= 0
    BY <1>1, <1>4, <1>5, <1>6, <1>7
  <1>12. p + Truncated(x, 2) >= 0
    <2>1. CASE q = 0
      BY <1>5, <1>6, <1>8, <1>10, <2>1
    <2>2. CASE q >= 1
      BY <1>1, <1>5, <1>6, <1>8, <1>10, <2>2
    <2> QED BY <1>4, <1>11, <2>1, <2>2
  <1>13. 2 * (p + Truncated(x, 2)) <= t.age + 1
    BY <1>5, <1>6, <1>10
  <1>14. q = 0 => p + Truncated(x, 2) = Truncated(t.age, 2)
    <2>1. q = 0 => x = t.age
      BY <1>5, <1>6, <1>8
    <2> QED BY <1>8, <1>10, <2>1
  <1> QED BY <1>6, <1>9, <1>10, <1>12, <1>13, <1>14

-----------------------------------------------------------------------------
(* The type invariant in parts, and that a header was read before the rest *)
(* of a block is.                                                          *)
Control ==
    /\ pc \in Steps
    /\ currentMode \in {"RX", "TX"} /\ tries \in 0 .. 3 /\ rc \in {-1, 0}
    /\ result \in {"pending", "delivered", "refused", "timeout", "failed"}

Flags == setup \in BOOLEAN /\ linkReady \in BOOLEAN

Contents ==
    /\ header \in {<<>>} \cup [1 .. 3 -> Byte]
    /\ ATP \in [bwt : Nat, crc : BOOLEAN, ifsc : Byte]
    /\ got \in Seq(Byte)
    /\ pc = "rest" => header \in [1 .. 3 -> Byte]

Clock ==
    /\ phase \in 0 .. Ticks(Second) - 1
    /\ lastRxTxTime \in Time /\ startTime \in Time

Line ==
    /\ se \in {"quiet", "booting", "working"}
    /\ out \in Seq(Byte) /\ waiting \in BOOLEAN
    /\ offered \in Seq(Byte) /\ spoilt \in BOOLEAN

FaultsCounted == faults \in 0 .. MaxFaults

LinkInv == Control /\ Flags /\ Contents /\ Clock /\ Line /\ FaultsCounted

LEMMA LinkInitInv == Init => LinkInv
  <1> SUFFICES ASSUME Init PROVE LinkInv
    OBVIOUS
  <1>1. Control /\ FaultsCounted
    BY LinkAssumption DEF Init, Control, Steps, FaultsCounted
  <1>2. Flags
    BY Zenon DEF Init, Flags
  <1>3. Contents
    BY DEF Init, Contents, DefaultAtp, Byte
  <1>4. Clock
    <2>1. Ticks(Second) \in Nat /\ Ticks(Second) >= 1
      BY LinkAssumption DEF Ticks
    <2> QED BY <2>1 DEF Init, Clock, Now, Time
  <1>5. Line
    BY EmptySeq, Zenon DEF Init, Line
  <1> QED BY <1>1, <1>2, <1>3, <1>4, <1>5 DEF LinkInv

(* Whatever the clock does, the timestamps are timestamps.                 *)
LEMMA TimeTypes ==
    ASSUME Clock, NEW io \in Time, NEW start \in Time, NEW ticks \in Nat, NEW set \in Int,
           TimePasses(io, start, ticks, set)
    PROVE  Clock'
  <1>1. /\ Ticks(Second) \in Nat \ {0} /\ Horizon \in Nat
        /\ Ticks(MIN_TIME_BETWEEN_MODE_SWITCH) \in Nat
    BY LinkAssumption DEF Ticks, MIN_TIME_BETWEEN_MODE_SWITCH
  <1>2. phase' \in 0 .. Ticks(Second) - 1
    <2>1. phase + ticks + set \in Int
      BY <1>1 DEF Clock
    <2> QED BY <1>1, <2>1, Division DEF TimePasses
  <1>3. ASSUME NEW t \in Time, NEW cap \in Nat
        PROVE  Later(t, ticks, set, cap) \in Time
    <2>1. t.age + ticks \in Nat /\ t.wall + ticks + set \in Int
      BY DEF Time
    <2>2. AtMost(t.age + ticks, cap) \in Nat /\ AtMost(t.wall + ticks + set, cap) \in Int
      BY <2>1 DEF AtMost
    <2> QED BY <2>2 DEF Later, Time
  <1>4. Now \in Time
    BY DEF Now, Time
  <1> QED BY <1>1, <1>2, <1>3, <1>4 DEF Clock, TimePasses

(* The elapsed time is a number also when the clock was set.               *)
LEMMA ElapsedType ==
    ASSUME Clock, NEW t \in Time
    PROVE  Elapsed(t) \in Int
  <1>1. Ticks(Second) \in Nat \ {0} /\ Second \in Int /\ Ticks(1) = 2
    BY LinkAssumption DEF Ticks
  <1>2. WallNow \in Int /\ WallNow - t.wall \in Int
    BY <1>1, LinkAssumption DEF WallNow, Clock, Time
  <1>3. SecondsSince(t) \in Int
    <2>1. /\ WallNow \div Ticks(Second) \in Int
          /\ (WallNow - t.wall) \div Ticks(Second) \in Int
      BY <1>1, <1>2, Division
    <2> QED BY <2>1 DEF SecondsSince
  <1>4. (WallNow % Ticks(Second)) - ((WallNow - t.wall) % Ticks(Second)) \in Int
    <2>1. /\ WallNow % Ticks(Second) \in 0 .. Ticks(Second) - 1
          /\ (WallNow - t.wall) % Ticks(Second) \in 0 .. Ticks(Second) - 1
      BY <1>1, <1>2, Division
    <2> QED BY <1>1, <2>1
  <1> QED BY <1>1, <1>3, <1>4, Halving DEF Elapsed

(* The helpers of the actions.                                             *)
LEMMA MoveToTypes ==
    ASSUME LinkInv, NEW step \in Steps, NEW io \in Time, NEW delay \in Nat,
           MoveTo(step, io, delay)
    PROVE  /\ pc' = step /\ tries' = 0 /\ rc' = 0 /\ UNCHANGED currentMode
           /\ Clock'
           /\ result' \in {"pending", "delivered", "refused", "timeout", "failed"}
                => Control'
  <1>1. /\ pc' = step /\ tries' = 0 /\ rc' = 0 /\ UNCHANGED currentMode
        /\ TimePasses(io, IF pc = step THEN startTime ELSE Now, Ticks(delay), 0)
    BY DEF MoveTo
  <1>2. /\ (IF pc = step THEN startTime ELSE Now) \in Time
        /\ Ticks(delay) \in Nat /\ 0 \in Int /\ Clock
    BY DEF LinkInv, Clock, Now, Time, Ticks
  <1>3. Clock'
    BY <1>1, <1>2, TimeTypes
  <1> QED BY <1>1, <1>3 DEF LinkInv, Control

LEMMA GoToTypes ==
    ASSUME LinkInv, NEW step \in Steps, NEW delay \in Nat, GoTo(step, delay)
    PROVE  /\ pc' = step /\ Control' /\ Clock' /\ FaultsCounted'
           /\ UNCHANGED <<result, header, faults>>
  <1>1. MoveTo(step, Now, delay) /\ UNCHANGED <<result, header, faults>> /\ Now \in Time
    BY DEF GoTo, Now, Time
  <1>2. result' \in {"pending", "delivered", "refused", "timeout", "failed"}
    BY <1>1 DEF LinkInv, Control
  <1> QED BY <1>1, <1>2, MoveToTypes DEF LinkInv, FaultsCounted

LEMMA EndWithTypes ==
    ASSUME LinkInv, NEW r \in {"delivered", "refused", "timeout", "failed"}, EndWith(r)
    PROVE  /\ pc' = "idle" /\ result' = r /\ header' = <<>>
           /\ Control' /\ Clock' /\ FaultsCounted'
  <1>1. /\ MoveTo("idle", Now, 0) /\ result' = r /\ header' = <<>> /\ faults' = 0
        /\ Now \in Time /\ "idle" \in Steps /\ 0 \in Nat
    BY DEF EndWith, Now, Time, Steps
  <1>2. pc' = "idle" /\ Clock' /\ Control'
    BY <1>1, MoveToTypes
  <1>3. FaultsCounted'
    BY <1>1, LinkAssumption DEF FaultsCounted
  <1> QED BY <1>1, <1>2, <1>3

LEMMA UsleepTypes ==
    ASSUME LinkInv, NEW ms \in Nat, Usleep(ms)
    PROVE  Clock'
  BY TimeTypes DEF LinkInv, Usleep, Ticks, Clock

LEMMA ShiftTypes ==
    ASSUME LinkInv, NEW n \in Nat
    PROVE  /\ Shifted(n) \in [1 .. n -> Byte]
           /\ Shifted(n) \in Seq(Byte)
           /\ ReadOn(n) \/ ReadAway(n) \/ ReadOut(n) => Line'
  <1>1. out \in Seq(Byte) /\ 0 \in Byte
    BY DEF LinkInv, Line, Byte
  <1>2. Shifted(n) \in [1 .. n -> Byte]
    BY <1>1 DEF Shifted
  <1>3. Shifted(n) \in Seq(Byte)
    BY <1>2, SeqDef
  <1>4. ASSUME ReadOn(n) \/ ReadAway(n) \/ ReadOut(n) PROVE Line'
    <2> DEFINE m == AtMost(n, Len(out)) + 1
    <2>1. m \in 1 .. Len(out) + 1
      BY <1>1 DEF AtMost
    <2>2. SubSeq(out, m, Len(out)) \in Seq(Byte)
      <3> HIDE DEF m
      <3> QED BY <1>1, <2>1, SubSeqProperties
    <2>3. out' \in Seq(Byte) /\ UNCHANGED <<se, waiting>>
      BY <1>4, <2>2 DEF ReadOn, ReadAway, ReadOut, ShiftOut
    <2>4. offered' \in Seq(Byte) /\ spoilt' \in BOOLEAN
      <3>1. CASE UNCHANGED <<offered, spoilt>>
        BY <3>1, Zenon DEF LinkInv, Line
      <3>2. CASE UNCHANGED offered /\ spoilt' = (offered # <<>>)
        BY <3>2 DEF LinkInv, Line
      <3>3. CASE offered' = <<>> /\ spoilt' = FALSE
        BY <3>3, EmptySeq
      <3> QED BY <1>4, <3>1, <3>2, <3>3 DEF ReadOn, ReadAway, ReadOut
    <2> QED BY <2>3, <2>4, Zenon DEF LinkInv, Line
  <1> QED BY <1>2, <1>3, <1>4

LEMMA SeTurnsToTypes ==
    ASSUME NEW state \in {"quiet", "booting", "working"}, SeTurnsTo(state)
    PROVE  Line'
  BY Zenon, EmptySeq DEF SeTurnsTo, Line

LEMMA SeTakesTypes == ASSUME LinkInv, SeTakesBlock PROVE Line'
  <1>1. CASE SeTurnsTo("working")
    BY <1>1, SeTurnsToTypes
  <1>2. CASE waiting' = TRUE /\ UNCHANGED <<se, out, offered, spoilt>>
    BY <1>2, Zenon DEF LinkInv, Line
  <1> QED BY <1>1, <1>2 DEF SeTakesBlock

LEMMA KeptTypes ==
    ASSUME LinkInv, UNCHANGED kept, header' = <<>> \/ UNCHANGED header,
           pc' = "rest" => pc = "rest" /\ UNCHANGED header
    PROVE  Flags' /\ Contents'
  <1>1. UNCHANGED <<setup, linkReady>> /\ UNCHANGED ATP /\ UNCHANGED got
    BY DEF kept
  <1>2. Flags'
    BY <1>1, Zenon DEF LinkInv, Flags
  <1>3. Contents'
    BY <1>1 DEF LinkInv, Contents
  <1> QED BY <1>2, <1>3

LEMMA LineKept == ASSUME LinkInv, UNCHANGED seVars PROVE Line'
  BY Zenon DEF LinkInv, Line, seVars

LEMMA CountKept ==
    ASSUME LinkInv, UNCHANGED faults \/ Faulty
    PROVE  FaultsCounted'
  BY LinkAssumption DEF LinkInv, FaultsCounted, Faulty

-----------------------------------------------------------------------------
(* The driver: it is opened, the direction changes, an attempt fails.      *)
LEMMA DriverInv ==
    ASSUME LinkInv, SwitchMode \/ AttemptFails \/ Open
    PROVE  LinkInv'
  <1>1. /\ UNCHANGED pc /\ UNCHANGED kept /\ UNCHANGED header /\ UNCHANGED result
        /\ UNCHANGED seVars
        /\ UNCHANGED faults \/ Faulty
    BY DEF SwitchMode, AttemptFails, Open
  <1>2. Flags' /\ Contents' /\ Line' /\ FaultsCounted'
    BY <1>1, KeptTypes, LineKept, CountKept
  <1>3. CASE SwitchMode
    <2>1. Control'
      BY <1>1, <1>3 DEF SwitchMode, LinkInv, Control, Mode
    <2>2. SwitchDelay(Elapsed(lastRxTxTime)) \in Nat
      BY ElapsedType DEF LinkInv, Clock, SwitchDelay, MIN_TIME_BETWEEN_MODE_SWITCH
    <2>3. Clock'
      BY <1>3, <2>2, UsleepTypes DEF SwitchMode
    <2> QED BY <1>2, <2>1, <2>3 DEF LinkInv
  <1>4. CASE AttemptFails
    <2>1. tries \in 0 .. 2 /\ tries' = tries + 1 /\ rc' \in {-1, 0} /\ UNCHANGED currentMode
      BY <1>4 DEF AttemptFails, Ready, LinkInv, Control, CountAttempt
    <2>2. Control'
      BY <1>1, <2>1 DEF LinkInv, Control
    <2>3. RetryDelay(rc', tries) \in Nat
      BY <2>1 DEF RetryDelay
    <2>4. Clock'
      BY <1>4, <2>3, UsleepTypes DEF AttemptFails
    <2> QED BY <1>2, <2>2, <2>4 DEF LinkInv
  <1>5. CASE Open
    <2>1. Control'
      BY <1>1, <1>5 DEF Open, LinkInv, Control
    <2>2. Now \in Time /\ startTime \in Time /\ 0 \in Nat /\ 0 \in Int /\ Clock
      BY DEF LinkInv, Clock, Now, Time
    <2>3. Clock'
      BY <1>5, <2>2, TimeTypes DEF Open
    <2> QED BY <1>2, <2>1, <2>3 DEF LinkInv
  <1> QED BY <1>3, <1>4, <1>5

LEMMA GiveUpInv ==
    ASSUME LinkInv, GiveUp
    PROVE  LinkInv'
  <1>1. Line'
    BY LineKept, ShiftTypes, 0 \in Nat DEF GiveUp
  <1>2. CASE EndWith("failed")
    <2>1. Control' /\ Clock' /\ FaultsCounted' /\ pc' = "idle" /\ header' = <<>>
      BY <1>2, EndWithTypes
    <2> QED BY <1>1, <2>1, KeptTypes DEF GiveUp, LinkInv
  <1>3. CASE GoTo("atpRest", 0)
    <2>1. Control' /\ Clock' /\ FaultsCounted' /\ pc' = "atpRest" /\ UNCHANGED header
      BY <1>3, GoToTypes DEF Steps
    <2> QED BY <1>1, <2>1, KeptTypes DEF GiveUp, LinkInv
  <1> QED BY <1>2, <1>3 DEF GiveUp

LEMMA CutShortInv ==
    ASSUME LinkInv, CutShort
    PROVE  LinkInv'
  <1>1. Control' /\ Clock' /\ FaultsCounted' /\ pc' = "idle" /\ header' = <<>>
    BY EndWithTypes DEF CutShort
  <1>2. Line'
    BY ShiftTypes, SeTakesTypes, LineKept, 1 \in Nat DEF CutShort
  <1> QED BY <1>1, <1>2, KeptTypes DEF CutShort, LinkInv

(* Nothing but time passes. *)
LEMMA TickInv ==
    ASSUME LinkInv, Tick \/ SetClock
    PROVE  LinkInv'
  <1>1. /\ UNCHANGED pc /\ UNCHANGED kept /\ UNCHANGED driverVars /\ UNCHANGED header
        /\ UNCHANGED result /\ UNCHANGED seVars
        /\ UNCHANGED faults \/ Faulty
    BY DEF Tick, SetClock
  <1>2. Flags' /\ Contents' /\ Line' /\ FaultsCounted'
    BY <1>1, KeptTypes, LineKept, CountKept
  <1>3. Control'
    BY <1>1 DEF LinkInv, Control, driverVars
  <1>4. PICK ticks \in Nat, set \in Int : TimePasses(lastRxTxTime, startTime, ticks, set)
    <2>1. CASE Tick
      BY <2>1, 1 \in Nat, 0 \in Int DEF Tick
    <2>2. CASE SetClock
      BY <2>2, LinkAssumption, 0 \in Nat DEF SetClock
    <2> QED BY <2>1, <2>2
  <1>5. Clock'
    BY <1>4, TimeTypes DEF LinkInv, Clock
  <1> QED BY <1>2, <1>3, <1>5 DEF LinkInv

(* What the SE offers are bytes, also when one of them was damaged.        *)
LEMMA SeInv ==
    ASSUME LinkInv, SeOffersAtp \/ SeAnswers \/ SeGoesOn
    PROVE  LinkInv'
  <1>1. /\ UNCHANGED pc /\ UNCHANGED kept /\ UNCHANGED driverVars /\ UNCHANGED header
        /\ UNCHANGED result /\ UNCHANGED timeVars
    BY DEF SeOffersAtp, SeAnswers, SeGoesOn, Offers
  <1>2. Flags' /\ Contents'
    BY <1>1, KeptTypes
  <1>3. Control' /\ Clock'
    BY <1>1 DEF LinkInv, Control, Clock, driverVars, timeVars
  <1>4. ASSUME NEW bytes \in Atps \cup ExchangeAnswers \cup IfsAnswers,
               NEW p \in Passages(bytes)
        PROVE  p.bytes \in Seq(Byte) /\ bytes \in Seq(Byte) /\ p.faults \in 0 .. MaxFaults
    <2>1. bytes \in Seq(Byte) /\ Damaged(bytes) \subseteq Seq(Byte)
      BY AnswersAreBytes
    <2>2. \/ p = [bytes |-> bytes, faults |-> faults]
          \/ /\ faults < MaxFaults
             /\ \E d \in Damaged(bytes) : p = [bytes |-> d, faults |-> faults + 1]
      BY DEF Passages
    <2> QED BY <2>1, <2>2, LinkAssumption DEF LinkInv, FaultsCounted
  <1>5. CASE SeOffersAtp \/ SeAnswers
    <2>1. PICK answers \in SUBSET (Atps \cup ExchangeAnswers \cup IfsAnswers) : Offers(answers)
      BY <1>5 DEF SeOffersAtp, SeAnswers
    <2>2. PICK bytes \in answers : \E p \in Passages(bytes) :
              /\ out' = p.bytes /\ faults' = p.faults
              /\ offered' = bytes /\ spoilt' = (p.bytes # bytes)
      BY <2>1 DEF Offers
    <2>3. out' \in Seq(Byte) /\ offered' \in Seq(Byte) /\ FaultsCounted'
      BY <1>4, <2>2 DEF FaultsCounted
    <2>4. spoilt' \in BOOLEAN /\ se' = "quiet" /\ UNCHANGED waiting
      BY <2>1, <2>2 DEF Offers
    <2>5. waiting' \in BOOLEAN
      BY <2>4, Zenon DEF LinkInv, Line
    <2> QED BY <1>2, <1>3, <2>3, <2>4, <2>5 DEF LinkInv, Line
  <1>6. CASE SeGoesOn
    BY <1>2, <1>3, <1>6, SeTurnsToTypes DEF SeGoesOn, LinkInv, FaultsCounted
  <1> QED BY <1>5, <1>6

-----------------------------------------------------------------------------
(* Setup. *)
LEMMA SetupInv ==
    ASSUME LinkInv, BeginSetup \/ SetupNoReset \/ PwtOver
    PROVE  LinkInv'
  <1>1. CASE BeginSetup
    <2>1. /\ MoveTo("pwt", lastRxTxTime, 0) /\ "pwt" \in Steps
          /\ lastRxTxTime \in Time /\ 0 \in Nat /\ result' = "pending"
      BY <1>1 DEF BeginSetup, LinkInv, Clock, Steps
    <2>2. Control' /\ Clock' /\ pc' = "pwt"
      BY <2>1, MoveToTypes
    <2>3. Line'
      BY <1>1, SeTurnsToTypes DEF BeginSetup
    <2>4. Flags'
      BY <1>1, Zenon DEF BeginSetup, LinkInv, Flags
    <2>5. UNCHANGED <<header, ATP, faults>> /\ got' = <<>>
      BY <1>1 DEF BeginSetup
    <2>6. Contents' /\ FaultsCounted'
      BY <2>2, <2>5, EmptySeq DEF LinkInv, Contents, FaultsCounted
    <2> QED BY <2>2, <2>3, <2>4, <2>6 DEF LinkInv
  <1>2. CASE SetupNoReset
    <2>1. /\ UNCHANGED <<pc, driverVars, header, timeVars, seVars, faults>>
          /\ UNCHANGED kept /\ result' = "failed"
      BY <1>2 DEF SetupNoReset
    <2>2. Flags' /\ Contents' /\ Line'
      BY <2>1, KeptTypes, LineKept
    <2> QED BY <2>1, <2>2
            DEF LinkInv, Control, Clock, FaultsCounted, driverVars, timeVars
  <1>3. CASE PwtOver
    <2>1. /\ MoveTo("atpLength", lastRxTxTime, 0) /\ "atpLength" \in Steps
          /\ lastRxTxTime \in Time /\ 0 \in Nat
          /\ UNCHANGED kept /\ UNCHANGED <<header, result, seVars, faults>>
      BY <1>3 DEF PwtOver, LinkInv, Clock, Steps
    <2>2. Control' /\ Clock' /\ pc' = "atpLength"
      BY <2>1, MoveToTypes DEF LinkInv, Control
    <2>3. Flags' /\ Contents' /\ Line'
      BY <2>1, <2>2, KeptTypes, LineKept
    <2> QED BY <2>1, <2>2, <2>3 DEF LinkInv, FaultsCounted
  <1> QED BY <1>1, <1>2, <1>3

LEMMA ReadAtpLengthInv ==
    ASSUME LinkInv, ReadAtpLength
    PROVE  LinkInv'
  <1>1. Line'
    BY ShiftTypes, 1 \in Nat DEF ReadAtpLength
  <1>2. CASE EndWith("failed")
    <2>1. Control' /\ Clock' /\ FaultsCounted' /\ pc' = "idle" /\ header' = <<>>
      BY <1>2, EndWithTypes
    <2> QED BY <1>1, <2>1, KeptTypes DEF ReadAtpLength, LinkInv
  <1>3. CASE GoTo("atpRest", 0)
    <2>1. Control' /\ Clock' /\ FaultsCounted' /\ pc' = "atpRest" /\ UNCHANGED header
      BY <1>3, GoToTypes DEF Steps
    <2> QED BY <1>1, <2>1, KeptTypes DEF ReadAtpLength, LinkInv
  <1> QED BY <1>2, <1>3 DEF ReadAtpLength

(* A byte in front of others moves each of them by one place.              *)
LEMMA InFront ==
    ASSUME NEW n \in Nat, NEW s \in [1 .. n -> Byte], NEW e \in Byte
    PROVE  /\ s \in Seq(Byte)
           /\ \A i \in 1 .. n : (<<e>> \o s)[i + 1] = s[i] /\ s[i] \in Byte
  <1>1. s \in Seq(Byte) /\ Len(s) = n
    BY SeqDef, LenProperties
  <1>2. <<e>> \in Seq(Byte) /\ Len(<<e>>) = 1
    OBVIOUS
  <1>3. \A i \in 1 .. 1 + n : (<<e>> \o s)[i] = IF i <= 1 THEN <<e>>[i] ELSE s[i - 1]
    BY <1>1, <1>2, ConcatProperties
  <1> QED BY <1>1, <1>3

LEMMA ReadAtpRestInv ==
    ASSUME LinkInv, ReadAtpRest
    PROVE  LinkInv'
  <1> DEFINE rest == Shifted(EXPECTED_ATP_LENGTH)
             atp == <<EXPECTED_ATP_LENGTH>> \o rest
  <1>1. /\ ReadOut(EXPECTED_ATP_LENGTH) \/ ReadAway(EXPECTED_ATP_LENGTH)
        /\ ATP' = AtpFields(atp) \/ UNCHANGED ATP
        /\ GoTo("write", 0) \/ EndWith("failed")
        /\ UNCHANGED <<setup, linkReady>> /\ UNCHANGED got
    BY DEF ReadAtpRest, AtpAfter
  <1>2. rest \in [1 .. EXPECTED_ATP_LENGTH -> Byte] /\ rest \in Seq(Byte) /\ Line'
    BY <1>1, ShiftTypes DEF EXPECTED_ATP_LENGTH
  <1>3. ATP' \in [bwt : Nat, crc : BOOLEAN, ifsc : Byte]
    <2>1. \A i \in 1 .. EXPECTED_ATP_LENGTH : atp[i + 1] = rest[i] /\ rest[i] \in Byte
      <3>1. EXPECTED_ATP_LENGTH \in Nat /\ EXPECTED_ATP_LENGTH \in Byte
        BY DEF EXPECTED_ATP_LENGTH, Byte
      <3> HIDE DEF rest
      <3> QED BY <1>2, <3>1, InFront
    <2>2. atp[7] \in Byte /\ atp[8] \in Byte /\ atp[14] \in Byte
      <3>1. 6 \in 1 .. EXPECTED_ATP_LENGTH /\ 7 \in 1 .. EXPECTED_ATP_LENGTH
            /\ 13 \in 1 .. EXPECTED_ATP_LENGTH
        BY DEF EXPECTED_ATP_LENGTH
      <3>2. atp[6 + 1] \in Byte /\ atp[7 + 1] \in Byte /\ atp[13 + 1] \in Byte
        <4> HIDE DEF atp
        <4> QED BY <2>1, <3>1
      <3> HIDE DEF atp
      <3> QED BY <3>2
    <2>3. AtpFields(atp) \in [bwt : Nat, crc : BOOLEAN, ifsc : Byte]
      <3> DEFINE bwt == 256 * AtpByte(atp, 6) + AtpByte(atp, 7)
                 crc == AtpByte(atp, 12) = 1
                 ifsc == AtpByte(atp, 13)
      <3>1. AtpFields(atp) = [bwt |-> bwt, crc |-> crc, ifsc |-> ifsc]
        BY DEF AtpFields
      <3>2. bwt \in Nat /\ ifsc \in Byte
        <4>1. /\ AtpByte(atp, 6) = atp[7] /\ AtpByte(atp, 7) = atp[8]
              /\ AtpByte(atp, 13) = atp[14]
          <5> HIDE DEF atp
          <5> QED BY DEF AtpByte
        <4>2. \A x, y \in Byte : 256 * x + y \in Nat
          BY DEF Byte
        <4>3. AtpByte(atp, 6) \in Byte /\ AtpByte(atp, 7) \in Byte /\ AtpByte(atp, 13) \in Byte
          <5> HIDE DEF atp
          <5> QED BY <2>2, <4>1
        <4> HIDE DEF atp
        <4> QED BY <4>2, <4>3
      <3>3. crc \in BOOLEAN
        OBVIOUS
      <3> HIDE DEF atp, bwt, crc, ifsc
      <3> QED BY <3>1, <3>2, <3>3
    <2> HIDE DEF atp
    <2> QED BY <1>1, <2>3 DEF LinkInv, Contents
  <1>4. Flags' /\ got' \in Seq(Byte)
    <2>1. Flags'
      BY <1>1, Zenon DEF LinkInv, Flags
    <2> QED BY <1>1, <2>1 DEF LinkInv, Contents
  <1>5. Control' /\ Clock' /\ FaultsCounted' /\ pc' # "rest"
        /\ (header' = <<>> \/ UNCHANGED header)
    <2>1. CASE GoTo("write", 0)
      BY <2>1, GoToTypes DEF Steps
    <2>2. CASE EndWith("failed")
      BY <2>2, EndWithTypes
    <2> QED BY <1>1, <2>1, <2>2
  <1>6. Contents'
    BY <1>3, <1>4, <1>5 DEF LinkInv, Contents
  <1> QED BY <1>2, <1>4, <1>5, <1>6 DEF LinkInv

-----------------------------------------------------------------------------
(* Exchange. *)
LEMMA BeginExchangeInv ==
    ASSUME LinkInv, BeginExchange
    PROVE  LinkInv'
  <1>1. /\ MoveTo("write", lastRxTxTime, 0) /\ "write" \in Steps
        /\ lastRxTxTime \in Time /\ 0 \in Nat /\ result' = "pending"
    BY DEF BeginExchange, LinkInv, Clock, Steps
  <1>2. Control' /\ Clock' /\ pc' = "write"
    BY <1>1, MoveToTypes
  <1>3. Flags'
    BY Zenon DEF BeginExchange, LinkInv, Flags
  <1>4. Line'
    BY LineKept DEF BeginExchange
  <1>5. UNCHANGED <<header, ATP, faults>> /\ got' = <<>>
    BY DEF BeginExchange
  <1>6. Contents' /\ FaultsCounted'
    BY <1>2, <1>5, EmptySeq DEF LinkInv, Contents, FaultsCounted
  <1> QED BY <1>2, <1>3, <1>4, <1>6 DEF LinkInv

LEMMA WriteTpduInv ==
    ASSUME LinkInv, WriteTpdu
    PROVE  LinkInv'
  <1>1. Line' /\ UNCHANGED kept
    BY SeTakesTypes DEF WriteTpdu
  <1>2. Control' /\ Clock' /\ FaultsCounted' /\ pc' = "poll" /\ UNCHANGED header
    BY GoToTypes DEF WriteTpdu, Steps, PollInterval
  <1> QED BY <1>1, <1>2, KeptTypes DEF LinkInv

LEMMA PollInv ==
    ASSUME LinkInv, Poll
    PROVE  LinkInv'
  <1>1. Line' /\ UNCHANGED kept
    BY ShiftTypes, 1 \in Nat DEF Poll
  <1>2. CASE EndWith("timeout")
    <2>1. Control' /\ Clock' /\ FaultsCounted' /\ pc' = "idle" /\ header' = <<>>
      BY <1>2, EndWithTypes
    <2> QED BY <1>1, <2>1, KeptTypes DEF LinkInv
  <1>3. ASSUME NEW step \in {"header", "poll"}, NEW delay \in Nat, GoTo(step, delay)
        PROVE  LinkInv'
    <2>1. Control' /\ Clock' /\ FaultsCounted' /\ pc' = step /\ UNCHANGED header
      BY <1>3, GoToTypes DEF Steps
    <2> QED BY <1>1, <2>1, KeptTypes DEF LinkInv
  <1> QED BY <1>2, <1>3, 0 \in Nat, 1 \in Nat DEF Poll, PollInterval

LEMMA ReadHeaderInv ==
    ASSUME LinkInv, ReadHeader
    PROVE  LinkInv'
  <1>1. /\ ReadOn(2) /\ header' = <<NAD_SLAVE_TO_HOST>> \o Shifted(2)
        /\ MoveTo("rest", Now, 0) /\ "rest" \in Steps /\ Now \in Time
        /\ UNCHANGED kept /\ UNCHANGED <<result, faults>>
    BY DEF ReadHeader, Steps, Now, Time
  <1>2. Control' /\ Clock' /\ pc' = "rest"
    BY <1>1, MoveToTypes DEF LinkInv, Control
  <1>3. Line' /\ Shifted(2) \in [1 .. 2 -> Byte]
    BY <1>1, ShiftTypes, 2 \in Nat
  <1>4. header' \in [1 .. 3 -> Byte]
    <2>1. Len(Shifted(2)) = 2 /\ Shifted(2)[1] \in Byte /\ Shifted(2)[2] \in Byte
      BY <1>3
    <2>2. NAD_SLAVE_TO_HOST \in Byte
      BY DEF NAD_SLAVE_TO_HOST, Byte
    <2>3. header' = [i \in 1 .. 3 |-> IF i = 1 THEN NAD_SLAVE_TO_HOST ELSE Shifted(2)[i - 1]]
      BY <1>1, <1>3, <2>1
    <2> QED BY <2>1, <2>2, <2>3
  <1>5. Flags'
    BY <1>1, Zenon DEF kept, LinkInv, Flags
  <1>6. UNCHANGED ATP /\ UNCHANGED got
    BY <1>1 DEF kept
  <1>7. Contents' /\ FaultsCounted'
    BY <1>1, <1>4, <1>6 DEF LinkInv, Contents, FaultsCounted
  <1> QED BY <1>2, <1>3, <1>5, <1>7 DEF LinkInv

LEMMA ReadRestInv ==
    ASSUME LinkInv, ReadRest
    PROVE  LinkInv'
  <1> DEFINE n == header[3] + 2
             rest == Shifted(n)
             tpdu == FromBytes(header, rest)
             ok == BlockOk(tpdu, ATP.ifsc)
                     /\ (setup => tpdu.pcb = ResponseTo(SBLOCK_IFS_REQUEST))
  <1>1. /\ ReadOut(n) \/ ReadAway(n)
        /\ EndWith(IF ok THEN "delivered" ELSE "refused")
        /\ got' = IF ok THEN header \o rest ELSE <<>>
        /\ ATP' = IF ok /\ setup THEN [ATP EXCEPT !.ifsc = tpdu.data[1]] ELSE ATP
        /\ linkReady' = (linkReady \/ setup) /\ UNCHANGED setup
        /\ pc = "rest"
    BY DEF ReadRest, Ready
  <1>2. header \in [1 .. 3 -> Byte] /\ header \in Seq(Byte) /\ header[3] \in Byte /\ n \in Nat
    <2>1. header \in [1 .. 3 -> Byte]
      BY <1>1 DEF LinkInv, Contents
    <2>2. 3 \in Nat /\ 3 \in 1 .. 3
      OBVIOUS
    <2>3. header \in Seq(Byte)
      BY <2>1, <2>2, InFront
    <2>4. header[3] \in Byte
      BY <2>1, <2>2
    <2>5. n \in Nat
      BY <2>4 DEF Byte
    <2> QED BY <2>1, <2>3, <2>4, <2>5
  <1>3. rest \in [1 .. n -> Byte] /\ rest \in Seq(Byte) /\ Line'
    <2> HIDE DEF n
    <2> QED BY <1>1, <1>2, ShiftTypes
  <1>4. EndWith("delivered") \/ EndWith("refused")
    BY <1>1
  <1>5. Control' /\ Clock' /\ FaultsCounted' /\ pc' = "idle" /\ header' = <<>>
    BY <1>4, EndWithTypes
  <1>6. Flags'
    BY <1>1, Zenon DEF LinkInv, Flags
  <1>7. got' \in Seq(Byte)
    <2>1. header \o rest \in Seq(Byte)
      <3> HIDE DEF rest
      <3> QED BY <1>2, <1>3, ConcatProperties
    <2> HIDE DEF ok, rest
    <2> QED BY <1>1, <2>1, EmptySeq
  <1>8. ok /\ setup => tpdu.data[1] \in Byte
    <2>1. SUFFICES ASSUME ok, setup PROVE tpdu.data[1] \in Byte
      OBVIOUS
    <2>2. tpdu.pcb = 225 /\ LenOk(tpdu, ATP.ifsc)
      BY <2>1 DEF BlockOk, ResponseTo, SBLOCK_IFS_REQUEST
    <2>3. tpdu.len = 1
      BY <2>2 DEF LenOk, OneByteSBlocks, ResponseTo, SBLOCK_IFS_REQUEST
    <2>4. header[3] = 1
      BY <2>3 DEF FromBytes
    <2>5. tpdu.data = SubSeq(rest, 1, 1)
      BY <2>4 DEF FromBytes
    <2>6. SubSeq(rest, 1, 1)[1] = rest[1] /\ rest[1] \in Byte
      <3>1. Len(rest) = 3 /\ n = 3
        BY <1>3, <2>4
      <3>2. rest[1] \in Byte
        BY <1>3, <3>1
      <3> HIDE DEF rest
      <3> QED BY <1>3, <3>1, <3>2
    <2> HIDE DEF tpdu, rest
    <2> QED BY <2>5, <2>6
  <1>9. ATP' \in [bwt : Nat, crc : BOOLEAN, ifsc : Byte]
    <2> HIDE DEF ok, tpdu
    <2> QED BY <1>1, <1>8 DEF LinkInv, Contents
  <1>10. Contents'
    BY <1>5, <1>7, <1>9 DEF Contents
  <1> QED BY <1>3, <1>5, <1>6, <1>10 DEF LinkInv

-----------------------------------------------------------------------------
LEMMA LinkStepInv ==
    ASSUME LinkInv, [Next]_vars
    PROVE  LinkInv'
  <1>1. CASE Host
    BY <1>1, DriverInv, GiveUpInv, CutShortInv, SetupInv, ReadAtpLengthInv, ReadAtpRestInv,
       WriteTpduInv, PollInv, ReadHeaderInv, ReadRestInv DEF Host
  <1>2. CASE Call
    BY <1>2, DriverInv, SetupInv, BeginExchangeInv DEF Call
  <1>3. CASE Tick \/ SetClock
    BY <1>3, TickInv
  <1>4. CASE SeOffersAtp \/ SeAnswers \/ SeGoesOn
    BY <1>4, SeInv
  <1>5. CASE UNCHANGED vars
    <2>1. /\ UNCHANGED <<pc, header, ATP, result, got, faults>>
          /\ UNCHANGED <<setup, linkReady>> /\ UNCHANGED driverVars
          /\ UNCHANGED timeVars /\ UNCHANGED seVars
      BY <1>5 DEF vars
    <2>2. Flags' /\ Line'
      BY <2>1, LineKept, Zenon DEF LinkInv, Flags
    <2>3. Control' /\ Contents' /\ Clock' /\ FaultsCounted'
      BY <2>1 DEF LinkInv, Control, Contents, Clock, FaultsCounted, driverVars, timeVars
    <2> QED BY <2>2, <2>3 DEF LinkInv
  <1> QED BY <1>1, <1>2, <1>3, <1>4, <1>5 DEF Next

LEMMA LinkInvAlways == Spec => []LinkInv
  BY LinkInitInv, LinkStepInv, PTL DEF Spec

(* Every variable keeps its type: the bytes that arrive are bytes, the ATP *)
(* and the ifsc read from them have their fields, the retries stay within  *)
(* three and the clock's phase within its second.                          *)
THEOREM LinkTypeCorrect == Spec => []TypeOK
  <1>1. LinkInv => TypeOK
    <2> SUFFICES ASSUME LinkInv PROVE TypeOK
      OBVIOUS
    <2>1. setup \in BOOLEAN /\ linkReady \in BOOLEAN /\ Line
      BY Zenon DEF LinkInv, Flags
    <2>2. se \in {"quiet", "booting", "working"} /\ out \in Seq(Byte)
          /\ waiting \in BOOLEAN /\ offered \in Seq(Byte) /\ spoilt \in BOOLEAN
      BY <2>1, Zenon DEF Line
    <2>3. Control /\ Contents /\ Clock /\ FaultsCounted
      BY DEF LinkInv
    <2> HIDE DEF LinkInv
    <2> QED BY <2>1, <2>2, <2>3 DEF Control, Contents, Clock, FaultsCounted, TypeOK
  <1> QED BY <1>1, LinkInvAlways, PTL

-----------------------------------------------------------------------------
(* SpiLayerComm_waitForResponse: when a call times out, more than the      *)
(* block waiting time has passed since its block was written, for every    *)
(* waiting time below the threshold and every length of a second.          *)
THEOREM TimesOutLateHolds == Spec => TimesOutLate
  <1> DEFINE Late == (result' = "timeout" /\ result # "timeout") =>
         /\ ATP.bwt < BWT_THRESHOLD
         /\ Untouched(startTime) /\ startTime.age < Horizon => startTime.age > Ticks(ATP.bwt)
  <1>1. ASSUME LinkInv, [Next]_vars PROVE [Late]_vars
    <2>1. SUFFICES ASSUME result' = "timeout", result # "timeout"
                   PROVE  /\ ATP.bwt < BWT_THRESHOLD
                          /\ Untouched(startTime) => startTime.age > Ticks(ATP.bwt)
      OBVIOUS
    <2>2. Expired
      <3>1. CASE Host
        <4>1. CASE Poll
          BY <2>1, <4>1 DEF Poll, GoTo, EndWith
        <4>2. CASE ~Poll
          BY <2>1, <3>1, <4>2
             DEF Host, SwitchMode, AttemptFails, GiveUp, CutShort, PwtOver, ReadAtpLength,
                 ReadAtpRest, WriteTpdu, ReadHeader, ReadRest, GoTo, EndWith
        <4> QED BY <4>1, <4>2
      <3>2. CASE ~Host
        BY <1>1, <2>1, <3>2
           DEF Next, Call, Open, BeginSetup, SetupNoReset, BeginExchange, Tick, SetClock,
               SeOffersAtp, SeAnswers, SeGoesOn, Offers, vars
      <3> QED BY <3>1, <3>2
    <2>3. SUFFICES ASSUME Untouched(startTime) PROVE startTime.age > Ticks(ATP.bwt)
      BY <2>2 DEF Expired
    <2>4. phase \in Int /\ startTime.age \in Nat /\ startTime.wall = startTime.age
      BY <1>1, <2>3, LinkAssumption DEF LinkInv, Clock, Time, Untouched, Ticks
    <2>5. Elapsed(startTime) \in Nat /\ 2 * Elapsed(startTime) <= startTime.age + 1
      BY <2>4, ElapsedTime
    <2>6. Elapsed(startTime) > ATP.bwt
      BY <2>2, <2>5, <1>1 DEF Expired, Unsigned, DEFAULT_NBWT, LinkInv, Contents
    <2>7. ATP.bwt \in Nat
      BY <1>1 DEF LinkInv, Contents
    <2> QED BY <2>4, <2>5, <2>6, <2>7 DEF Ticks
  <1> QED BY <1>1, LinkInvAlways, PTL DEF Spec, TimesOutLate

(* SpiLayerDriver: the SE has its turnaround time before the direction of  *)
(* the line changes, at every phase of the clock.                          *)
THEOREM TurnaroundKeptHolds == Spec => TurnaroundKept
  <1> DEFINE Kept == (pc \in Transfers /\ currentMode' # currentMode
                        /\ Untouched(lastRxTxTime) /\ SecondsSince(lastRxTxTime) = 0) =>
         lastRxTxTime'.age >= Ticks(MIN_TIME_BETWEEN_MODE_SWITCH)
  <1>1. ASSUME LinkInv, [Next]_vars PROVE [Kept]_vars
    <2>1. SUFFICES ASSUME pc \in Transfers, currentMode' # currentMode, Untouched(lastRxTxTime),
                          SecondsSince(lastRxTxTime) = 0
                   PROVE  lastRxTxTime'.age >= Ticks(MIN_TIME_BETWEEN_MODE_SWITCH)
      OBVIOUS
    <2>2. SwitchMode
      <3>1. CASE Host
        BY <2>1, <3>1
           DEF Host, AttemptFails, GiveUp, CutShort, PwtOver, ReadAtpLength, ReadAtpRest,
               WriteTpdu, Poll, ReadHeader, ReadRest, GoTo, EndWith, MoveTo
      <3>2. CASE ~Host
        BY <1>1, <2>1, <3>2
           DEF Next, Call, Open, BeginSetup, SetupNoReset, BeginExchange, Tick, SetClock,
               SeOffersAtp, SeAnswers, SeGoesOn, Offers, MoveTo, vars, driverVars, Transfers, Reads
      <3> QED BY <3>1, <3>2
    <2> DEFINE age == lastRxTxTime.age
               ms == Elapsed(lastRxTxTime)
               delay == SwitchDelay(ms)
    <2>3. phase \in Int /\ age \in Nat /\ lastRxTxTime.wall = age
      BY <1>1, <2>1, LinkAssumption DEF LinkInv, Clock, Time, Untouched, Ticks
    <2>4. ms \in Nat /\ ms = Truncated(age, 2)
      BY <2>1, <2>3, ElapsedTime
    <2>5. 2 * ms <= age + 1 /\ ms >= 0
      <3> HIDE DEF age, ms
      <3> QED BY <2>3, <2>4, Halving
    <2>6. delay = IF ms < 1 THEN 1 - ms ELSE 0
      BY DEF SwitchDelay, MIN_TIME_BETWEEN_MODE_SWITCH
    <2>7. lastRxTxTime'.age = AtMost(age + 2 * delay, 2)
      BY <2>2 DEF SwitchMode, Usleep, TimePasses, Later, Ticks, MIN_TIME_BETWEEN_MODE_SWITCH
    <2>8. age + 2 * delay >= 2
      <3>1. ms >= 1 => age >= 2
        BY <2>3, <2>4 DEF Truncated
      <3> HIDE DEF age, ms, delay
      <3> QED BY <2>3, <2>4, <2>6, <3>1
    <2> HIDE DEF age, delay
    <2> QED BY <2>7, <2>8 DEF AtMost, Ticks, MIN_TIME_BETWEEN_MODE_SWITCH
  <1> QED BY <1>1, LinkInvAlways, PTL DEF Spec, TurnaroundKept
=============================================================================
