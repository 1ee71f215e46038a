------------------------ MODULE LinkRefinementProofs ------------------------
(***************************************************************************)
(* Theorems of LinkRefinement: whatever the line damages and whatever call *)
(* of the driver fails, the transfers implement BlockTransfer and the ATP  *)
(* in use is one the SE sent.  A frame or an ATP with one damaged byte is  *)
(* proved to be refused, from CrcFindsOneByte; FrameAssumption is used     *)
(* where the damage moves the frame, SilenceAssumption where no ATP came.  *)
(***************************************************************************)
EXTENDS LinkRefinement, EseLinkProofs

(* Reading bytes one after the other. *)

LEMMA DroppedIs ==
    ASSUME NEW s \in Seq(Byte), NEW n \in Nat
    PROVE  /\ Dropped(s, n) \in Seq(Byte)
           /\ Len(Dropped(s, n)) = IF n > Len(s) THEN 0 ELSE Len(s) - n
           /\ \A i \in 1 .. Len(Dropped(s, n)) : Dropped(s, n)[i] = s[n + i]
  <1> DEFINE m == AtMost(n, Len(s)) + 1
  <1>1. m \in 1 .. Len(s) + 1 /\ m = (IF n > Len(s) THEN Len(s) ELSE n) + 1
    BY DEF AtMost
  <1>2. Dropped(s, n) = SubSeq(s, m, Len(s))
    BY DEF Dropped
  <1>3. m \in Int /\ Len(s) \in Int /\ \A i \in m .. Len(s) : s[i] \in Byte
    <2> HIDE DEF m
    <2> QED BY <1>1
  <1> HIDE DEF m
  <1>4. /\ SubSeq(s, m, Len(s)) \in Seq(Byte)
        /\ Len(SubSeq(s, m, Len(s))) = IF m <= Len(s) THEN Len(s) - m + 1 ELSE 0
        /\ \A i \in 1 .. Len(s) - m + 1 : SubSeq(s, m, Len(s))[i] = s[m + i - 1]
    BY <1>3, SubSeqProperties
  <1>5. Len(Dropped(s, n)) = IF n > Len(s) THEN 0 ELSE Len(s) - n
    <2>1. CASE n > Len(s)
      BY <1>1, <1>2, <1>4, <2>1
    <2>2. CASE n = Len(s)
      BY <1>1, <1>2, <1>4, <2>2
    <2>3. CASE n < Len(s)
      <3>1. m = n + 1 /\ m <= Len(s) /\ Len(s) - m + 1 = Len(s) - n
        BY <1>1, <2>3
      <3>2. Len(Dropped(s, n)) = Len(s) - n
        BY <1>2, <1>4, <3>1, Zenon
      <3> QED BY <2>3, <3>2
    <2> QED BY <1>3, <2>1, <2>2, <2>3
  <1>6. ASSUME NEW i \in 1 .. Len(Dropped(s, n)) PROVE Dropped(s, n)[i] = s[n + i]
    <2>1. n <= Len(s) /\ m = n + 1 /\ i \in 1 .. Len(s) - m + 1
      BY <1>1, <1>5
    <2>2. SubSeq(s, m, Len(s))[i] = s[m + i - 1]
      BY <1>4, <2>1, Zenon
    <2>3. m + i - 1 = n + i
      BY <2>1
    <2> QED BY <1>2, <2>2, <2>3, Zenon
  <1> QED BY <1>2, <1>4, <1>5, <1>6

LEMMA AllDropped ==
    ASSUME NEW s \in Seq(Byte), NEW n \in Nat, n >= Len(s)
    PROVE  Dropped(s, n) = <<>>
  <1>1. Dropped(s, n) \in Seq(Byte) /\ Len(Dropped(s, n)) = 0
    BY DroppedIs
  <1> QED BY <1>1, EmptySeq

LEMMA NothingLeft == ASSUME NEW n \in Nat PROVE Dropped(<<>>, n) = <<>>
  <1>1. ASSUME NEW s \in Seq(Byte), Len(s) = 0 PROVE Dropped(s, n) = <<>>
    <2>1. n >= Len(s)
      BY <1>1
    <2> QED BY <2>1, AllDropped
  <1>2. <<>> \in Seq(Byte) /\ Len(<<>>) = 0
    BY EmptySeq
  <1> QED BY <1>1, <1>2, n \in Nat, Zenon

(* Nothing is dropped. *)
LEMMA NoneDropped == ASSUME NEW s \in Seq(Byte) PROVE Dropped(s, 0) = s
  <1>1. /\ Dropped(s, 0) \in Seq(Byte) /\ Len(Dropped(s, 0)) = Len(s)
        /\ \A i \in 1 .. Len(s) : Dropped(s, 0)[i] = s[0 + i] /\ 0 + i = i
    BY DroppedIs
  <1> QED BY <1>1, SeqEqual

LEMMA TakenIs ==
    ASSUME NEW s \in Seq(Byte), NEW n \in Nat
    PROVE  /\ Taken(s, n) \in [1 .. n -> Byte]
           /\ Taken(s, n) \in Seq(Byte) /\ Len(Taken(s, n)) = n
           /\ \A i \in 1 .. n : Taken(s, n)[i] = IF i <= Len(s) THEN s[i] ELSE 0
  <1>1. Taken(s, n) \in [1 .. n -> Byte]
    <2>1. \A i \in 1 .. n : (IF i <= Len(s) THEN s[i] ELSE 0) \in Byte
      <3>1. 0 \in Byte
        BY DEF Byte
      <3> QED BY <3>1, LenProperties
    <2> QED BY <2>1 DEF Taken
  <1> QED BY <1>1, SeqDef DEF Taken

LEMMA DroppedTwice ==
    ASSUME NEW s \in Seq(Byte), NEW m \in Nat, NEW n \in Nat
    PROVE  Dropped(Dropped(s, m), n) = Dropped(s, m + n)
  <1> DEFINE d == Dropped(s, m)
             x == Dropped(d, n)
             y == Dropped(s, m + n)
  <1>1. /\ d \in Seq(Byte) /\ Len(d) = IF m > Len(s) THEN 0 ELSE Len(s) - m
        /\ \A i \in 1 .. Len(d) : d[i] = s[m + i]
    BY DroppedIs
  <1>2. /\ y \in Seq(Byte) /\ Len(y) = IF m + n > Len(s) THEN 0 ELSE Len(s) - (m + n)
        /\ \A i \in 1 .. Len(y) : y[i] = s[m + n + i]
    BY DroppedIs, m + n \in Nat
  <1> HIDE DEF d, y
  <1>3. /\ x \in Seq(Byte) /\ Len(x) = IF n > Len(d) THEN 0 ELSE Len(d) - n
        /\ \A i \in 1 .. Len(x) : x[i] = d[n + i]
    BY <1>1, DroppedIs
  <1> HIDE DEF x
  <1>4. Len(x) = Len(y)
    BY <1>1, <1>2, <1>3
  <1>5. ASSUME NEW i \in 1 .. Len(x) PROVE x[i] = y[i]
    <2>1. n + i \in 1 .. Len(d)
      BY <1>1, <1>3
    <2>2. x[i] = s[m + (n + i)] /\ m + (n + i) = m + n + i
      BY <1>1, <1>3, <2>1
    <2> QED BY <1>2, <1>4, <2>2
  <1>6. x = y
    BY <1>2, <1>3, <1>4, <1>5, SeqEqual
  <1> QED BY <1>6 DEF x, y, d

LEMMA SuffixIs ==
    ASSUME NEW s \in Seq(Byte)
    PROVE  /\ Suffixes(s) = {Dropped(s, k) : k \in 0 .. Len(s)}
           /\ s \in Suffixes(s)
  <1>1. \A k \in 0 .. Len(s) : Dropped(s, k) = SubSeq(s, k + 1, Len(s))
    <2> TAKE k \in 0 .. Len(s)
    <2>1. AtMost(k, Len(s)) = k
      BY DEF AtMost
    <2> QED BY <2>1 DEF Dropped
  <1>2. \A k \in 1 .. Len(s) + 1 : k - 1 \in 0 .. Len(s) /\ k = (k - 1) + 1
    OBVIOUS
  <1>3. \A k \in 0 .. Len(s) : k + 1 \in 1 .. Len(s) + 1
    OBVIOUS
  <1>4. Suffixes(s) = {Dropped(s, k) : k \in 0 .. Len(s)}
    <2>1. ASSUME NEW x \in Suffixes(s) PROVE \E k \in 0 .. Len(s) : x = Dropped(s, k)
      <3>1. PICK k \in 1 .. Len(s) + 1 : x = SubSeq(s, k, Len(s))
        BY DEF Suffixes
      <3>2. k - 1 \in 0 .. Len(s) /\ x = Dropped(s, k - 1)
        BY <1>1, <1>2, <3>1
      <3> QED BY <3>2
    <2>2. ASSUME NEW k \in 0 .. Len(s) PROVE Dropped(s, k) \in Suffixes(s)
      BY <1>1, <1>3 DEF Suffixes
    <2> QED BY <2>1, <2>2
  <1>5. s = Dropped(s, 0)
    BY NoneDropped
  <1> QED BY <1>4, <1>5

LEMMA SuffixOfSuffix ==
    ASSUME NEW s \in Seq(Byte), NEW x \in Suffixes(s), NEW n \in Nat
    PROVE  x \in Seq(Byte) /\ Dropped(x, n) \in Suffixes(s)
  <1>1. PICK k \in 0 .. Len(s) : x = Dropped(s, k)
    BY SuffixIs
  <1>2. x \in Seq(Byte) /\ Dropped(x, n) = Dropped(s, k + n) /\ k + n \in Nat
    BY <1>1, DroppedIs, DroppedTwice
  <1>3. CASE k + n <= Len(s)
    BY <1>2, <1>3, SuffixIs
  <1>4. CASE k + n > Len(s)
    <2>1. Dropped(s, k + n) = Dropped(s, Len(s))
      BY <1>2, <1>4 DEF Dropped, AtMost
    <2> QED BY <1>2, <2>1, SuffixIs
  <1> QED BY <1>2, <1>3, <1>4

LEMMA TakenOfDropped ==
    ASSUME NEW s \in Seq(Byte), NEW m \in Nat, NEW n \in Nat, NEW i \in 1 .. n
    PROVE  Taken(Dropped(s, m), n)[i] = Taken(s, m + n)[m + i]
  <1>1. /\ Dropped(s, m) \in Seq(Byte)
        /\ Len(Dropped(s, m)) = IF m > Len(s) THEN 0 ELSE Len(s) - m
        /\ \A j \in 1 .. Len(Dropped(s, m)) : Dropped(s, m)[j] = s[m + j]
    BY DroppedIs
  <1>2. Taken(Dropped(s, m), n)[i] = IF i <= Len(Dropped(s, m)) THEN Dropped(s, m)[i] ELSE 0
    BY <1>1, TakenIs
  <1>3. m + n \in Nat /\ m + i \in 1 .. m + n
    OBVIOUS
  <1>4. Taken(s, m + n)[m + i] = IF m + i <= Len(s) THEN s[m + i] ELSE 0
    BY <1>3, TakenIs
  <1>5. i <= Len(Dropped(s, m)) <=> m + i <= Len(s)
    BY <1>1
  <1> QED BY <1>1, <1>2, <1>4, <1>5

-----------------------------------------------------------------------------
(* Frames. *)

LEMMA HeaderOf ==
    ASSUME NEW nad \in Byte, NEW s \in Seq(Byte), Len(s) = 2
    PROVE  /\ <<nad>> \o s \in Seq(Byte) /\ Len(<<nad>> \o s) = 3
           /\ (<<nad>> \o s)[1] = nad /\ (<<nad>> \o s)[2] = s[1]
           /\ (<<nad>> \o s)[3] = s[2]
  <1> DEFINE start == <<nad>>
  <1>1. start \in Seq(Byte) /\ Len(start) = 1 /\ start[1] = nad
    OBVIOUS
  <1> HIDE DEF start
  <1>2. /\ start \o s \in Seq(Byte) /\ Len(start \o s) = Len(start) + Len(s)
        /\ \A i \in 1 .. Len(start) + Len(s) :
             (start \o s)[i] = IF i <= Len(start) THEN start[i] ELSE s[i - Len(start)]
    BY <1>1, ConcatProperties
  <1>3. /\ start \o s \in Seq(Byte) /\ Len(start \o s) = 3
        /\ (start \o s)[1] = nad /\ (start \o s)[2] = s[1] /\ (start \o s)[3] = s[2]
    BY <1>1, <1>2
  <1> QED BY <1>3 DEF start

(* The start, the other two bytes of the header, and the rest.             *)
LEMMA HeaderRead ==
    ASSUME NEW x \in Seq(Byte), StartsFrame(x), out = Dropped(x, 1)
    PROVE  /\ <<NAD_SLAVE_TO_HOST>> \o Shifted(2) = Taken(x, 3)
           /\ ShiftOut(2) => out' = Dropped(x, 3)
  <1> DEFINE h == <<NAD_SLAVE_TO_HOST>> \o Shifted(2)
  <1>1. Shifted(2) = Taken(Dropped(x, 1), 2)
    BY DEF Shifted, Taken
  <1>2. /\ Taken(x, 3) \in Seq(Byte) /\ Len(Taken(x, 3)) = 3
        /\ \A i \in 1 .. 3 : Taken(x, 3)[i] = IF i <= Len(x) THEN x[i] ELSE 0
    BY TakenIs, 3 \in Nat
  <1>3. Shifted(2) \in Seq(Byte) /\ Len(Shifted(2)) = 2
    <2>1. Dropped(x, 1) \in Seq(Byte)
      BY DroppedIs, 1 \in Nat
    <2>2. Taken(Dropped(x, 1), 2) \in Seq(Byte) /\ Len(Taken(Dropped(x, 1), 2)) = 2
      BY <2>1, TakenIs, 2 \in Nat
    <2> QED BY <1>1, <2>2
  <1>4. Taken(x, 3)[1] = NAD_SLAVE_TO_HOST
    <2>1. 1 <= Len(x) /\ x[1] = NAD_SLAVE_TO_HOST
      BY EmptySeq DEF StartsFrame
    <2> QED BY <1>2, <2>1
  <1>5. Shifted(2)[1] = Taken(x, 3)[2] /\ Shifted(2)[2] = Taken(x, 3)[3]
    <2>1. \A i \in 1 .. 2 : Taken(Dropped(x, 1), 2)[i] = Taken(x, 1 + 2)[1 + i]
      BY TakenOfDropped, 1 \in Nat, 2 \in Nat
    <2> QED BY <1>1, <2>1
  <1>6. h \in Seq(Byte) /\ Len(h) = 3 /\ h[1] = NAD_SLAVE_TO_HOST
        /\ h[2] = Shifted(2)[1] /\ h[3] = Shifted(2)[2]
    <2>1. NAD_SLAVE_TO_HOST \in Byte
      BY DEF NAD_SLAVE_TO_HOST, Byte
    <2>2. \A s \in Seq(Byte) : Len(s) = 2 =>
            LET b == <<NAD_SLAVE_TO_HOST>> \o s
            IN  b \in Seq(Byte) /\ Len(b) = 3 /\ b[1] = NAD_SLAVE_TO_HOST
                /\ b[2] = s[1] /\ b[3] = s[2]
      BY <2>1, HeaderOf, Zenon
    <2> QED BY <1>3, <2>2, Zenon
  <1>7. h = Taken(x, 3)
    <2> HIDE DEF h
    <2>1. \A i \in 1 .. 3 : h[i] = Taken(x, 3)[i]
      BY <1>4, <1>5, <1>6
    <2> QED BY <1>2, <1>6, <2>1, SeqEqual
  <1>8. ShiftOut(2) => out' = Dropped(Dropped(x, 1), 2)
    BY DEF ShiftOut, Dropped
  <1>9. Dropped(Dropped(x, 1), 2) = Dropped(x, 3)
    BY DroppedTwice, 1 \in Nat, 2 \in Nat
  <1> QED BY <1>7, <1>8, <1>9

(* The two reads of a frame. *)
LEMMA FrameParts ==
    ASSUME NEW a \in Seq(Byte), Len(a) >= 5, Len(a) = a[3] + 5
    PROVE  /\ a[3] \in Nat
           /\ Taken(a, 3) \in Seq(Byte) /\ Len(Taken(a, 3)) = 3
           /\ \A i \in 1 .. 3 : Taken(a, 3)[i] = a[i]
           /\ Rest(a) \in Seq(Byte) /\ Len(Rest(a)) = a[3] + 2
           /\ \A i \in 1 .. a[3] + 2 : Rest(a)[i] = a[3 + i]
  <1> DEFINE n == a[3] + 2
             h == Taken(a, 3)
             r == Rest(a)
  <1>1. a[3] \in Nat /\ n \in Nat /\ Len(a) = 3 + n
    <2>1. 3 \in 1 .. Len(a)
      OBVIOUS
    <2>2. a[3] \in Byte
      BY <2>1, ElementOfSeq
    <2>3. \A b \in Byte : b \in Nat
      BY DEF Byte
    <2>4. \A l, b \in Nat : l = b + 5 => b + 2 \in Nat /\ l = 3 + (b + 2)
      OBVIOUS
    <2>5. a[3] \in Nat /\ Len(a) \in Nat
      BY <2>2, <2>3
    <2> QED BY <2>4, <2>5
  <1>2. /\ h \in Seq(Byte) /\ Len(h) = 3
        /\ \A i \in 1 .. 3 : h[i] = a[i]
    <2>1. /\ h \in Seq(Byte) /\ Len(h) = 3
          /\ \A i \in 1 .. 3 : h[i] = IF i <= Len(a) THEN a[i] ELSE 0
      BY TakenIs, 3 \in Nat
    <2> HIDE DEF h
    <2> QED BY <2>1
  <1>3. r = Taken(Dropped(a, 3), n)
    BY <1>2 DEF Rest
  <1>4. r \in Seq(Byte) /\ Len(r) = n
    <2> HIDE DEF n, r
    <2> QED BY <1>1, <1>3, DroppedIs, TakenIs, 3 \in Nat
  <1>5. ASSUME NEW i \in 1 .. n PROVE r[i] = a[3 + i]
    <2>1. r[i] = Taken(a, 3 + n)[3 + i]
      <3> HIDE DEF n, r
      <3> QED BY <1>1, <1>3, TakenOfDropped, 3 \in Nat
    <2>2. 3 + i \in 1 .. 3 + n /\ 3 + n \in Nat
      BY <1>1
    <2>3. Taken(a, 3 + n)[3 + i] = IF 3 + i <= Len(a) THEN a[3 + i] ELSE 0
      <3> HIDE DEF n
      <3> QED BY <2>2, TakenIs
    <2> HIDE DEF n, r
    <2> QED BY <1>1, <2>1, <2>2, <2>3
  <1> QED BY <1>1, <1>2, <1>4, <1>5

(* The check of a frame, by the bytes it was read from. *)
LEMMA FrameCheck ==
    ASSUME NEW a \in Seq(Byte), Len(a) >= 5, Len(a) = a[3] + 5
    PROVE  a[3] \in Nat /\ (ChecksumOk(Frame(a)) <=> Checked(a, a[3] + 3))
  <1> DEFINE l == a[3]
             h == Taken(a, 3)
             r == Rest(a)
             data == SubSeq(r, 1, l)
             check == SubSeq(r, l + 1, l + 2)
             front == <<a[1], a[2], l>>
             covered == SubSeq(a, 1, l + 3)
  <1>1. /\ l \in Nat /\ Len(a) = l + 5
        /\ h[1] = a[1] /\ h[2] = a[2] /\ h[3] = l
        /\ r \in Seq(Byte) /\ Len(r) = l + 2
        /\ \A i \in 1 .. l + 2 : r[i] = a[3 + i]
    BY FrameParts
  <1>2. \A i \in 1 .. l + 5 : a[i] \in Byte
    <2> HIDE DEF l
    <2> QED BY <1>1
  <1>3. /\ covered \in Seq(Byte) /\ Len(covered) = l + 3
        /\ \A i \in 1 .. l + 3 : covered[i] = a[i]
    <2> HIDE DEF l
    <2>1. l + 3 \in Nat /\ l + 3 <= Len(a)
      BY <1>1
    <2> QED BY <2>1, Beginning
  <1>4. /\ data \in Seq(Byte) /\ Len(data) = l
        /\ \A i \in 1 .. l : data[i] = a[3 + i]
    <2> HIDE DEF l, r
    <2> QED BY <1>1
  <1>5. check[1] = a[l + 4] /\ check[2] = a[l + 5]
    <2> HIDE DEF l, r
    <2>1. check[1] = r[l + 1] /\ check[2] = r[l + 2]
      BY <1>1
    <2> QED BY <1>1, <2>1
  <1>6. front \in Seq(Byte) /\ Len(front) = 3 /\ front[1] = a[1] /\ front[2] = a[2] /\ front[3] = l
    <2>1. 1 \in 1 .. l + 5 /\ 2 \in 1 .. l + 5 /\ 3 \in 1 .. l + 5
      <3> HIDE DEF l
      <3> QED BY <1>1
    <2>2. a[1] \in Byte /\ a[2] \in Byte /\ l \in Byte
      BY <1>2, <2>1
    <2> HIDE DEF l
    <2> QED BY <2>2
  <1>7. Frame(a).nad = a[1] /\ Frame(a).pcb = a[2] /\ Frame(a).len = l
        /\ Frame(a).data = data /\ Frame(a).checksum = check[1] + 256 * check[2]
    <2>1. h[1] = a[1] /\ h[2] = a[2] /\ h[3] = l
      BY <1>1
    <2> HIDE DEF h, r, l
    <2> QED BY <2>1 DEF Frame, FromBytes, ChecksumValue, h, r
  <1> HIDE DEF data, check, front
  <1>8. front \o data = covered
    <2>1. /\ front \o data \in Seq(Byte) /\ Len(front \o data) = Len(front) + Len(data)
          /\ \A i \in 1 .. Len(front) + Len(data) :
               (front \o data)[i] = IF i <= Len(front) THEN front[i] ELSE data[i - Len(front)]
      BY <1>4, <1>6, ConcatProperties
    <2> HIDE DEF l, covered
    <2>2. ASSUME NEW i \in 1 .. l + 3 PROVE (front \o data)[i] = covered[i]
      <3>0. covered[i] = a[i]
        BY <1>3
      <3>1. CASE i <= 3
        <4>1. i \in {1, 2, 3} /\ i \in 1 .. Len(front) + Len(data) /\ i <= Len(front)
          BY <1>1, <1>4, <1>6, <3>1
        <4>2. (front \o data)[i] = front[i]
          BY <2>1, <4>1
        <4>3. front[i] = a[i]
          BY <1>6, <4>1 DEF l
        <4> QED BY <3>0, <4>2, <4>3
      <3>2. CASE i > 3
        <4>1. i - 3 \in 1 .. l /\ 3 + (i - 3) = i
          BY <1>1, <3>2
        <4>2. (front \o data)[i] = data[i - 3]
          <5>1. i \in 1 .. Len(front) + Len(data) /\ Len(front) = 3 /\ ~(i <= 3)
            BY <1>1, <1>4, <1>6, <3>2
          <5> QED BY <2>1, <5>1
        <4>3. data[i - 3] = a[i]
          BY <1>4, <4>1
        <4> QED BY <3>0, <4>2, <4>3
      <3>3. i <= 3 \/ i > 3
        <4>1. l \in Nat
          BY <1>1
        <4> QED BY <4>1
      <3> QED BY <3>1, <3>2, <3>3
    <2>3. Len(front \o data) = l + 3
      BY <1>1, <1>4, <1>6, <2>1
    <2> QED BY <1>3, <2>1, <2>2, <2>3, SeqEqual
  <1>9. ChecksumOk(Frame(a)) <=> a[l + 4] + 256 * a[l + 5] = ComputeCrc(covered)
    <2>1. <<Frame(a).nad, Frame(a).pcb, Frame(a).len>> \o Frame(a).data = covered
      BY <1>7, <1>8 DEF front
    <2>2. Frame(a).checksum = a[l + 4] + 256 * a[l + 5]
      <3> HIDE DEF l
      <3> QED BY <1>5, <1>7
    <2> HIDE DEF l, covered
    <2> QED BY <2>1, <2>2, Zenon DEF ChecksumOk
  <1>10. Checked(a, l + 3) <=> a[l + 4] + 256 * a[l + 5] = ComputeCrc(covered)
    <2> HIDE DEF l
    <2>1. l + 3 + 1 = l + 4 /\ l + 3 + 2 = l + 5
      BY <1>1
    <2> QED BY <2>1 DEF Checked
  <1> QED BY <1>1, <1>9, <1>10

(* A frame of any length is refused when one byte of it changed on its     *)
(* way, but for the length byte: that one decides which bytes the checksum *)
(* is of (Tpdu_isChecksumOk, T1protocol_checkResponseTpduChecksum).        *)
THEOREM DamageRefused ==
    ASSUME NEW a \in Seq(Byte), Len(a) >= 5, Len(a) = a[3] + 5, ChecksumOk(Frame(a)),
           NEW at \in 1 .. Len(a), at # 3, NEW b \in Byte, b # a[at]
    PROVE  ~ChecksumOk(Frame([a EXCEPT ![at] = b]))
  <1> DEFINE d == [a EXCEPT ![at] = b]
             n == a[3] + 3
  <1>1. n \in Nat /\ Len(a) = n + 2 /\ Checked(a, n)
    BY FrameCheck
  <1>2. ~Checked(d, n)
    BY <1>1, OneByteShows
  <1>3. d \in Seq(Byte) /\ Len(d) = Len(a) /\ d[3] = a[3]
    OBVIOUS
  <1>4. ChecksumOk(Frame(d)) <=> Checked(d, n)
    <2> HIDE DEF d
    <2>1. Len(d) >= 5 /\ Len(d) = d[3] + 5
      BY <1>3
    <2> QED BY <1>3, <2>1, FrameCheck
  <1> QED BY <1>2, <1>4

(* The same of an ATP of the expected length.  Of its length byte the code *)
(* knows what it expects (Atp_setAtp).                                     *)
LEMMA LastTwo ==
    ASSUME NEW s \in Seq(Byte), NEW n \in Nat, Len(s) = n + 2
    PROVE  /\ SubSeq(s, n + 1, n + 2)[1] = s[n + 1]
           /\ SubSeq(s, n + 1, n + 2)[2] = s[n + 2]
  <1>1. \A i \in 1 .. n + 2 : s[i] \in Byte
    OBVIOUS
  <1> QED BY <1>1

LEMMA AtpCheck ==
    ASSUME NEW a \in Seq(Byte), Len(a) = EXPECTED_ATP_LENGTH + 1, a[1] = EXPECTED_ATP_LENGTH
    PROVE  /\ 36 \in Nat /\ Len(a) = 36 + 2
           /\ AtpOk(a) <=> Checked(a, 36) /\ a[13] \in {0, 1}
  <1>1. AtpByte(a, 0) = 37 /\ AtpByte(a, 12) = a[13]
    <2>1. 0 + 1 = 1 /\ 12 + 1 = 13
      OBVIOUS
    <2> QED BY <2>1 DEF AtpByte, EXPECTED_ATP_LENGTH
  <1>2. 37 - 1 = 36 /\ 37 <= 39
    OBVIOUS
  <1>3. Len(a) = 36 + 2
    BY DEF EXPECTED_ATP_LENGTH
  <1>4. /\ SubSeq(a, 36 + 1, 36 + 2)[1] = a[36 + 1]
        /\ SubSeq(a, 36 + 1, 36 + 2)[2] = a[36 + 2]
    BY <1>3, 36 \in Nat, LastTwo
  <1>5. AtpOk(a) <=> Checked(a, 36) /\ a[13] \in {0, 1}
    BY <1>1, <1>2, <1>4
    DEF AtpOk, Checked, ChecksumValue, CHECKSUM_OFFSET_IN_ATP, ATP_MAX_ALLOWED_LENGTH
  <1> QED BY <1>3, <1>5

(* An ATP of the expected length is refused when one byte of it changed on *)
(* its way, but for the length byte in front (Atp_setAtp).                 *)
THEOREM AtpDamageRefused ==
    ASSUME NEW a \in Seq(Byte), Len(a) = EXPECTED_ATP_LENGTH + 1, a[1] = EXPECTED_ATP_LENGTH,
           AtpOk(a), NEW at \in 2 .. Len(a), NEW b \in Byte, b # a[at]
    PROVE  ~AtpOk([a EXCEPT ![at] = b])
  <1> DEFINE d == [a EXCEPT ![at] = b]
  <1>1. d \in Seq(Byte) /\ Len(d) = Len(a) /\ d[1] = a[1] /\ at \in 1 .. Len(a)
    OBVIOUS
  <1>2. Checked(a, 36) /\ 36 \in Nat /\ Len(a) = 36 + 2
    BY AtpCheck
  <1>3. ~Checked(d, 36)
    BY <1>1, <1>2, OneByteShows, Zenon
  <1> HIDE DEF d
  <1>4. ~AtpOk(d)
    BY <1>1, <1>3, AtpCheck
  <1> QED BY <1>4 DEF d

LEMMA WholeFrame ==
    ASSUME NEW a \in Seq(Byte), Len(a) >= 5, Len(a) = a[3] + 5
    PROVE  Taken(a, 3) \o Rest(a) = a
  <1> DEFINE n == a[3] + 2
             h == Taken(a, 3)
             r == Rest(a)
  <1>1. n \in Nat /\ Len(a) = 3 + n
    BY FrameParts
  <1>2. h \in Seq(Byte) /\ Len(h) = 3 /\ \A i \in 1 .. 3 : h[i] = a[i]
    BY FrameParts
  <1>4. r \in Seq(Byte) /\ Len(r) = n
    BY FrameParts
  <1>5. \A i \in 1 .. n : r[i] = a[3 + i]
    BY FrameParts
  <1> HIDE DEF n, h, r
  <1>6. /\ h \o r \in Seq(Byte) /\ Len(h \o r) = 3 + n
        /\ \A i \in 1 .. 3 + n : (h \o r)[i] = IF i <= 3 THEN h[i] ELSE r[i - 3]
    <2>1. /\ h \o r \in Seq(Byte) /\ Len(h \o r) = Len(h) + Len(r)
          /\ \A i \in 1 .. Len(h) + Len(r) :
               (h \o r)[i] = IF i <= Len(h) THEN h[i] ELSE r[i - Len(h)]
      BY <1>2, <1>4, ConcatProperties
    <2> QED BY <1>1, <1>2, <1>4, <2>1
  <1>7. ASSUME NEW i \in 1 .. 3 + n PROVE (h \o r)[i] = a[i]
    <2>1. CASE i <= 3
      BY <1>2, <1>6, <2>1
    <2>2. CASE i > 3
      <3>1. i - 3 \in 1 .. n /\ 3 + (i - 3) = i
        BY <1>1, <2>2
      <3> QED BY <1>5, <1>6, <2>2, <3>1
    <2>3. \A k, m \in Nat : k \in 1 .. 3 + m => k <= 3 \/ k > 3
      OBVIOUS
    <2>4. i \in Nat /\ n \in Nat
      BY <1>1
    <2> QED BY <2>1, <2>2, <2>3, <2>4
  <1>8. h \o r = a
    BY <1>1, <1>6, <1>7, SeqEqual
  <1> QED BY <1>8 DEF h, r

(* A concatenation begins with its front. *)
LEMMA Front ==
    ASSUME NEW S, NEW s \in Seq(S), NEW t \in Seq(S)
    PROVE  /\ s \o t \in Seq(S) /\ Len(s \o t) = Len(s) + Len(t)
           /\ \A i \in 1 .. Len(s) : (s \o t)[i] = s[i]
  <1>1. /\ s \o t \in Seq(S) /\ Len(s \o t) = Len(s) + Len(t)
        /\ \A i \in 1 .. Len(s) + Len(t) :
             (s \o t)[i] = IF i <= Len(s) THEN s[i] ELSE t[i - Len(s)]
    BY ConcatProperties, Zenon
  <1>2. Len(s) \in Nat /\ Len(t) \in Nat
    OBVIOUS
  <1> DEFINE k == Len(s)
             n == Len(t)
             both == s \o t
  <1>3. /\ k \in Nat /\ n \in Nat
        /\ \A i \in 1 .. k + n : both[i] = IF i <= k THEN s[i] ELSE t[i - k]
    BY <1>1, <1>2
  <1> HIDE DEF k, n, both
  <1>4. \A i \in 1 .. k : both[i] = s[i]
    BY <1>3
  <1> QED BY <1>1, <1>4 DEF k, both

(* What follows the same front is the same. *)
LEMMA SameFront ==
    ASSUME NEW S, NEW s \in Seq(S), NEW t \in Seq(S), NEW u \in Seq(S), s \o t = s \o u
    PROVE  t = u
  <1>1. /\ Len(s \o t) = Len(s) + Len(t)
        /\ \A i \in 1 .. Len(s) + Len(t) :
             (s \o t)[i] = IF i <= Len(s) THEN s[i] ELSE t[i - Len(s)]
    BY ConcatProperties, Zenon
  <1>2. /\ Len(s \o u) = Len(s) + Len(u)
        /\ \A i \in 1 .. Len(s) + Len(u) :
             (s \o u)[i] = IF i <= Len(s) THEN s[i] ELSE u[i - Len(s)]
    BY ConcatProperties, Zenon
  <1>3. Len(s) \in Nat /\ Len(t) \in Nat /\ Len(u) \in Nat
    OBVIOUS
  <1> DEFINE k == Len(s)
             n == Len(t)
             both == s \o t
  <1>4. k \in Nat /\ n \in Nat /\ Len(u) = n
    BY <1>1, <1>2, <1>3
  <1>5. ASSUME NEW i \in 1 .. n PROVE t[i] = u[i]
    <2>1. /\ \A j \in 1 .. k + n : both[j] = IF j <= k THEN s[j] ELSE t[j - k]
          /\ \A j \in 1 .. k + n : both[j] = IF j <= k THEN s[j] ELSE u[j - k]
      BY <1>1, <1>2, <1>4
    <2> HIDE DEF k, n, both
    <2> DEFINE j == k + i
    <2>2. j \in 1 .. k + n /\ ~ j <= k /\ j - k = i
      BY <1>4
    <2> HIDE DEF j
    <2>3. both[j] = t[j - k]
      BY <2>1, <2>2
    <2>4. both[j] = u[j - k]
      BY <2>1, <2>2
    <2> QED BY <2>2, <2>3, <2>4
  <1> QED BY <1>4, <1>5, SeqEqual

(* A block formed, sent and read is the block that was formed.             *)
LEMMA FrameOfFormed ==
    ASSUME NEW nad \in Byte, NEW pcb \in Byte, NEW data \in Seq(Byte), Len(data) \in Byte
    PROVE  LET a == ToByteArray(FormTpdu(nad, pcb, data))
           IN  /\ a \in Seq(Byte) /\ Len(a) = Len(data) + 5
               /\ a[1] = nad /\ a[3] = Len(data) /\ Len(a) >= 5
               /\ Frame(a) = FormTpdu(nad, pcb, data)
               /\ ChecksumOk(Frame(a))
  <1> SUFFICES ASSUME NEW a, a = ToByteArray(FormTpdu(nad, pcb, data))
               PROVE  /\ a \in Seq(Byte) /\ Len(a) = Len(data) + 5
                      /\ a[1] = nad /\ a[3] = Len(data) /\ Len(a) >= 5
                      /\ Frame(a) = FormTpdu(nad, pcb, data)
                      /\ ChecksumOk(Frame(a))
    OBVIOUS
  <1> DEFINE front == Header(nad, pcb, data)
             check == ChecksumBytes(FormTpdu(nad, pcb, data).checksum)
  <1>1. /\ a = front \o data \o check /\ a \in Seq(Byte) /\ Len(a) = Len(data) + 5
        /\ FromBytes(front, data \o check) = FormTpdu(nad, pcb, data)
        /\ ChecksumOk(FormTpdu(nad, pcb, data)) /\ check \in Seq(Byte)
    BY FormedIsRead
  <1>2. /\ front \in Seq(Byte) /\ Len(front) = 3
        /\ front[1] = nad /\ front[2] = pcb /\ front[3] = Len(data)
    BY DEF Header
  <1> HIDE DEF front, check
  <1>3. check \in Seq(Byte)
    BY <1>1
  <1>4. a = front \o (data \o check) /\ data \o check \in Seq(Byte)
    <2>1. data \o check \in Seq(Byte)
      BY <1>3, Front, Zenon
    <2>2. front \o data \o check = front \o (data \o check)
      <3>1. front \in Seq(Byte)
        BY <1>2
      <3> QED BY <1>3, <3>1, ConcatAssociative, SMTT(30)
    <2> QED BY <1>1, <2>1, <2>2
  <1>5. \A i \in 1 .. 3 : a[i] = front[i]
    <2>1. \A i \in 1 .. Len(front) : (front \o (data \o check))[i] = front[i]
      <3>1. front \in Seq(Byte)
        BY <1>2
      <3> QED BY <1>4, <3>1, Front, Zenon
    <2> QED BY <1>2, <1>4, <2>1, Zenon
  <1>6. a[1] = nad /\ a[3] = Len(data) /\ Len(a) >= 5 /\ Len(a) = a[3] + 5
    <2> DEFINE n == Len(data)
               m == Len(a)
    <2>1. n \in Nat /\ m = n + 5 /\ front[1] = nad /\ front[3] = n
      BY <1>1, <1>2
    <2> HIDE DEF n, m
    <2>2. a[1] = nad /\ a[3] = n
      BY <1>5, <2>1
    <2>3. m >= 5 /\ m = n + 5
      BY <2>1
    <2> QED BY <2>2, <2>3 DEF n, m
  <1>7. Taken(a, 3) = front
    <2>1. /\ Taken(a, 3) \in Seq(Byte) /\ Len(Taken(a, 3)) = 3
          /\ \A i \in 1 .. 3 : Taken(a, 3)[i] = IF i <= Len(a) THEN a[i] ELSE 0
      BY <1>1, TakenIs, 3 \in Nat
    <2>2. \A i \in 1 .. 3 : Taken(a, 3)[i] = front[i]
      BY <1>5, <1>6, <2>1
    <2> QED BY <1>2, <2>1, <2>2, SeqEqual
  <1>8. Rest(a) = data \o check
    <2>1. front \o Rest(a) = front \o (data \o check)
      BY <1>1, <1>4, <1>6, <1>7, WholeFrame
    <2>2. Rest(a) \in Seq(Byte)
      <3>1. Taken(a, 3)[3] + 2 \in Nat
        <4>1. Len(data) \in Nat
          OBVIOUS
        <4> QED BY <1>2, <1>7, <4>1
      <3>2. Dropped(a, 3) \in Seq(Byte)
        BY <1>1, DroppedIs, 3 \in Nat
      <3> QED BY <3>1, <3>2, TakenIs DEF Rest
    <2> QED BY <1>2, <1>4, <2>1, <2>2, SameFront
  <1>9. Frame(a) = FormTpdu(nad, pcb, data)
    BY <1>1, <1>7, <1>8 DEF Frame
  <1> QED BY <1>1, <1>6, <1>9

(* An answer of the SE that was formed is a frame that is accepted.        *)
Shape(pcb, n) ==
    \/ pcb = 128 /\ n = 0
    \/ (pcb = 64 \/ pcb = 225) /\ n = 1

LEMMA FormedAccepted ==
    ASSUME NEW pcb \in Byte, NEW data \in Seq(Byte), Len(data) \in Byte, Shape(pcb, Len(data))
    PROVE  LET a == ToByteArray(FormTpdu(NAD_SLAVE_TO_HOST, pcb, data))
           IN  /\ a \in Seq(Byte) /\ StartsFrame(a)
               /\ Len(a) >= 5 /\ Len(a) = a[3] + 5 /\ BlockOk(Frame(a), Ifsc)
               /\ Frame(a).pcb = pcb /\ Frame(a).data = data
  <1> SUFFICES ASSUME NEW a, a = ToByteArray(FormTpdu(NAD_SLAVE_TO_HOST, pcb, data))
               PROVE  /\ a \in Seq(Byte) /\ StartsFrame(a)
                      /\ Len(a) >= 5 /\ Len(a) = a[3] + 5 /\ BlockOk(Frame(a), Ifsc)
                      /\ Frame(a).pcb = pcb /\ Frame(a).data = data
    OBVIOUS
  <1>1. /\ a \in Seq(Byte) /\ Len(a) = Len(data) + 5 /\ a[1] = NAD_SLAVE_TO_HOST
        /\ a[3] = Len(data) /\ Len(a) >= 5
        /\ Frame(a) = FormTpdu(NAD_SLAVE_TO_HOST, pcb, data) /\ ChecksumOk(Frame(a))
    <2>1. NAD_SLAVE_TO_HOST \in Byte
      BY Bytes
    <2> DEFINE t == ToByteArray(FormTpdu(NAD_SLAVE_TO_HOST, pcb, data))
    <2>2. /\ t \in Seq(Byte) /\ Len(t) = Len(data) + 5 /\ t[1] = NAD_SLAVE_TO_HOST
          /\ t[3] = Len(data) /\ Len(t) >= 5
          /\ Frame(t) = FormTpdu(NAD_SLAVE_TO_HOST, pcb, data) /\ ChecksumOk(Frame(t))
      BY <2>1, FrameOfFormed, Zenon
    <2> QED BY <2>2, Zenon
  <1>2. Frame(a).pcb = pcb /\ Frame(a).len = Len(data) /\ Frame(a).data = data
    BY <1>1 DEF FormTpdu
  <1>3. PcbOk(pcb)
    <2>1. PcbOk(128)
      BY Powers DEF PcbOk, TpduType, BitOf
    <2>2. PcbOk(64)
      BY DEF PcbOk, TpduType
    <2>3. PcbOk(225)
      BY Powers DEF PcbOk, TpduType, BitOf
    <2>4. pcb = 128 \/ pcb = 64 \/ pcb = 225
      BY DEF Shape
    <2> QED BY <2>1, <2>2, <2>3, <2>4
  <1>4. LenOk(Frame(a), Ifsc)
    <2> DEFINE f == Frame(a)
               n == Len(data)
    <2>1. f.pcb = pcb /\ f.len = n
      BY <1>2
    <2>2. \/ pcb = 128 /\ n = 0
          \/ (pcb = 64 \/ pcb = 225) /\ n = 1
      BY DEF Shape
    <2>3. Ifsc \in Nat /\ Ifsc >= 1
      BY IfscIsPositive
    <2> HIDE DEF f, n
    <2>4. LenOk(f, Ifsc)
      BY <2>1, <2>2, <2>3
      DEF LenOk, TpduType, OneByteSBlocks, EmptySBlocks, ResponseTo, SBLOCK_WTX_REQUEST,
          SBLOCK_IFS_REQUEST, SBLOCK_ABORT_REQUEST, SBLOCK_RESYNCH_REQUEST
    <2> QED BY <2>4 DEF f
  <1>5. BlockOk(Frame(a), Ifsc)
    BY <1>1, <1>2, <1>3, <1>4 DEF BlockOk
  <1>6. StartsFrame(a)
    <2> DEFINE n == Len(a)
    <2>1. n >= 5 /\ (a = <<>> => n = 0)
      BY <1>1
    <2> HIDE DEF n
    <2>2. a # <<>>
      BY <2>1
    <2> QED BY <1>1, <2>2 DEF StartsFrame
  <1> QED BY <1>1, <1>2, <1>5, <1>6

(* An intact answer is a frame that is accepted.                           *)
LEMMA IntactAccepted ==
    ASSUME NEW a \in Answers
    PROVE  /\ a \in Seq(Byte) /\ StartsFrame(a)
           /\ Len(a) >= 5 /\ Len(a) = a[3] + 5 /\ BlockOk(Frame(a), Ifsc)
           /\ a \in IfsAnswers => /\ Frame(a).pcb = ResponseTo(SBLOCK_IFS_REQUEST)
                                  /\ Frame(a).data[1] = Ifsc
  <1> DEFINE Accepted == /\ a \in Seq(Byte) /\ StartsFrame(a)
                         /\ Len(a) >= 5 /\ Len(a) = a[3] + 5 /\ BlockOk(Frame(a), Ifsc)
  <1>1. ASSUME NEW pcb \in Byte, NEW data \in Seq(Byte), NEW n, Len(data) = n, n \in Byte,
               Shape(pcb, n), a = ToByteArray(FormTpdu(NAD_SLAVE_TO_HOST, pcb, data))
        PROVE  Accepted /\ Frame(a).pcb = pcb /\ Frame(a).data = data
    BY <1>1, FormedAccepted
  <1> HIDE DEF Accepted
  <1> DEFINE Form(pcb, data) == ToByteArray(FormTpdu(NAD_SLAVE_TO_HOST, pcb, data))
             rPcb == 128   iPcb == 64   ifsPcb == 225   none == 0   one == 1
             empty == <<>>   nad == <<NAD_SLAVE_TO_HOST>>   ifsc == <<Ifsc>>
  <1>2. /\ empty \in Seq(Byte) /\ Len(empty) = none
        /\ nad \in Seq(Byte) /\ Len(nad) = one
        /\ ifsc \in Seq(Byte) /\ Len(ifsc) = one /\ ifsc[1] = Ifsc
        /\ rPcb \in Byte /\ iPcb \in Byte /\ ifsPcb \in Byte /\ none \in Byte /\ one \in Byte
    BY Bytes
  <1>3. Shape(rPcb, none) /\ Shape(iPcb, one) /\ Shape(ifsPcb, one)
    BY DEF Shape
  <1>4. a \in IfsAnswers => a = Form(ifsPcb, ifsc)
    BY Bytes DEF IfsAnswers
  <1>5. a \notin IfsAnswers => a = Form(rPcb, empty) \/ a = Form(iPcb, nad)
    BY Bytes DEF Answers, ExchangeAnswers
  <1>6. ifsPcb = ResponseTo(SBLOCK_IFS_REQUEST)
    BY Bytes
  <1> HIDE DEF rPcb, iPcb, ifsPcb, none, one, empty, nad, ifsc
  <1>7. CASE a \in IfsAnswers
    <2>1. Accepted /\ Frame(a).pcb = ifsPcb /\ Frame(a).data = ifsc
      BY <1>1, <1>2, <1>3, <1>4, <1>7
    <2> QED BY <1>2, <1>6, <2>1 DEF Accepted
  <1>8. CASE a \notin IfsAnswers
    <2>1. Accepted
      BY <1>1, <1>2, <1>3, <1>5, <1>8
    <2> QED BY <1>8, <2>1 DEF Accepted
  <1> QED BY <1>7, <1>8

(* An ATP is accepted and announces Ifsc.  What its byte 12 holds could    *)
(* not be a checksum type: a byte that was not read shows there.           *)
IsAtp(a) ==
    /\ a \in Seq(Byte) /\ Len(a) = EXPECTED_ATP_LENGTH + 1
    /\ a[1] = EXPECTED_ATP_LENGTH /\ a[12] = 9 /\ a[14] = Ifsc
    /\ AtpOk(a)

LEMMA AtpOfIs ==
    ASSUME NEW bwt \in Word, NEW type \in {0, 1}
    PROVE  IsAtp(AtpOf(bwt, type))
  <1> DEFINE start == <<EXPECTED_ATP_LENGTH, 1, 2, 3, 4, 5, bwt \div 256, bwt % 256,
                        6, 7, 8, 9, type, Ifsc>>
             zeros == [i \in 1 .. 22 |-> 0]
             fields == start \o zeros
             a == AtpOf(bwt, type)
  <1>1. bwt \div 256 \in Byte /\ bwt % 256 \in Byte
    <2>1. bwt \in Int /\ bwt >= 0 /\ bwt <= 65535
      BY Powers DEF Word
    <2> QED BY <2>1 DEF Byte
  <1>2. /\ start \in Seq(Byte) /\ Len(start) = 14
        /\ start[1] = EXPECTED_ATP_LENGTH /\ start[12] = 9 /\ start[13] = type
        /\ start[14] = Ifsc
    BY <1>1, LinkAssumption DEF EXPECTED_ATP_LENGTH, Byte
  <1>3. zeros \in Seq(Byte) /\ Len(zeros) = 22
    BY DEF Byte
  <1>4. a = fields \o ChecksumBytes(ComputeCrc(fields))
    BY DEF AtpOf
  <1> HIDE DEF start, zeros, a
  <1>5. /\ fields \in Seq(Byte) /\ Len(fields) = Len(start) + Len(zeros)
        /\ \A i \in 1 .. Len(start) : fields[i] = start[i]
    <2>1. start \in Seq(Byte) /\ zeros \in Seq(Byte)
      BY <1>2, <1>3
    <2> QED BY <2>1, Front, Zenon
  <1> HIDE DEF fields
  <1>6. Len(fields) = 36
    BY <1>2, <1>3, <1>5
  <1>7. /\ a \in Seq(Byte) /\ Len(a) = Len(fields) + 2
        /\ \A i \in 1 .. Len(fields) : a[i] = fields[i]
        /\ Checked(a, Len(fields))
    BY <1>4, <1>5, SealedIs
  <1>8. ASSUME NEW i \in {1, 12, 13, 14} PROVE a[i] = start[i]
    <2>1. i \in 1 .. Len(start) /\ i \in 1 .. Len(fields)
      BY <1>2, <1>6
    <2> QED BY <1>5, <1>7, <2>1, Zenon
  <1>9. /\ a[1] = EXPECTED_ATP_LENGTH /\ a[12] = 9 /\ a[13] = type /\ a[14] = Ifsc
    BY <1>2, <1>8
  <1>10. Len(a) = EXPECTED_ATP_LENGTH + 1
    BY <1>6, <1>7 DEF EXPECTED_ATP_LENGTH
  <1>11. AtpOk(a)
    BY <1>6, <1>7, <1>9, <1>10, AtpCheck
  <1> QED BY <1>7, <1>9, <1>10, <1>11 DEF IsAtp, a

LEMMA AtpIs == ASSUME NEW a \in Atps PROVE IsAtp(a)
  <1>1. \E bwt \in Word : \E type \in {0, 1} : a = AtpOf(bwt, type)
    BY ZeroIsWord, LinkAssumption DEF Atps
  <1> QED BY <1>1, AtpOfIs

LEMMA SentIfsc == ASSUME NEW f \in SentAtps PROVE f.ifsc = Ifsc
  <1>1. PICK a \in Atps : f = AtpFields(a)
    BY DEF SentAtps
  <1>2. a[14] = Ifsc
    BY AtpIs DEF IsAtp
  <1>3. 13 + 1 = 14
    OBVIOUS
  <1>4. f.ifsc = a[13 + 1]
    BY <1>1 DEF AtpFields, AtpByte
  <1> QED BY <1>2, <1>3, <1>4

(* The two begin differently: an answer is no ATP. *)
LEMMA Beginnings ==
    /\ \A a \in Answers : /\ a \notin Atps /\ a \in Seq(Byte) /\ a # <<>> /\ Len(a) >= 1
                          /\ StartsFrame(a)
    /\ \A a \in Atps : /\ a \notin Answers /\ a \in Seq(Byte) /\ a # <<>> /\ Len(a) >= 1
                       /\ ~StartsFrame(a)
  <1>1. ASSUME NEW a \in Answers
        PROVE  a \in Seq(Byte) /\ a # <<>> /\ a[1] = 18 /\ Len(a) >= 1 /\ StartsFrame(a)
    <2>1. a \in Seq(Byte) /\ StartsFrame(a)
      BY IntactAccepted
    <2> QED BY <2>1, EmptySeq DEF StartsFrame, NAD_SLAVE_TO_HOST
  <1>2. ASSUME NEW a \in Atps
        PROVE  a \in Seq(Byte) /\ a # <<>> /\ a[1] = 37 /\ Len(a) >= 1 /\ ~StartsFrame(a)
    <2>1. a \in Seq(Byte) /\ Len(a) = 38 /\ a[1] = 37
      BY AtpIs DEF IsAtp, EXPECTED_ATP_LENGTH
    <2> DEFINE n == Len(a)
    <2>2. n = 38 /\ (a = <<>> => n = 0)
      BY <2>1, EmptySeq
    <2> HIDE DEF n
    <2>3. a # <<>> /\ n >= 1
      BY <2>2
    <2> QED BY <2>1, <2>3 DEF StartsFrame, NAD_SLAVE_TO_HOST
  <1>3. 18 # 37
    OBVIOUS
  <1> QED BY <1>1, <1>2, <1>3

(* What arrives in place of an ATP. *)
LEMMA DamagedAtp ==
    ASSUME NEW a \in Atps, NEW d \in Damaged(a)
    PROVE  \/ d = [a EXCEPT ![1] = 0]
           \/ \E i \in 2 .. Len(a) : \E b \in Byte :
                 i # 12 /\ b # a[i] /\ d = [a EXCEPT ![i] = b]
  <1>1. a \in Seq(Byte) /\ Len(a) = EXPECTED_ATP_LENGTH + 1
    BY AtpIs DEF IsAtp
  <1>2. ASSUME NEW i \in {8, 13}
        PROVE  /\ i \in 2 .. Len(a) /\ i # 12
               /\ FlipBit(a[i], 0) \in Byte /\ FlipBit(a[i], 0) # a[i]
    <2>1. i \in 2 .. Len(a) /\ i # 12
      BY <1>1 DEF EXPECTED_ATP_LENGTH
    <2>2. a[i] \in Byte
      BY <1>1, <2>1
    <2> QED BY <2>1, <2>2, FlipInByte, FlipChanges
  <1>3. d = [a EXCEPT ![1] = 0] \/ \E i \in {8, 13} : d = [a EXCEPT ![i] = FlipBit(a[i], 0)]
    BY DEF Damaged
  <1> QED BY <1>2, <1>3

(* An ATP is read in two parts, and a first part that failed is taken for  *)
(* the length expected: an ATP that is accepted is the one that was sent.  *)
LEMMA AtpRead ==
    ASSUME NEW a \in Atps, NEW p \in {a} \cup Damaged(a),
           NEW x, x = p \/ (p[1] # 0 /\ x = Dropped(p, 1)),
           NEW atp, atp = <<EXPECTED_ATP_LENGTH>> \o Taken(x, EXPECTED_ATP_LENGTH), AtpOk(atp)
    PROVE  p \notin Damaged(a) /\ x = Dropped(a, 1) /\ atp = a
  <1> DEFINE l == EXPECTED_ATP_LENGTH
             first == <<l>>
  <1>1. l \in Nat /\ l \in Byte /\ l >= 13
    BY DEF EXPECTED_ATP_LENGTH, Byte
  <1> HIDE DEF l
  <1>2. first \in Seq(Byte) /\ Len(first) = 1 /\ first[1] = l
    BY <1>1
  <1> HIDE DEF first
  <1>3. ASSUME NEW y \in Seq(Byte), NEW r, r = first \o Taken(y, l)
        PROVE  /\ r \in Seq(Byte) /\ Len(r) = l + 1 /\ r[1] = l
               /\ \A i \in 2 .. l + 1 : r[i] = IF i - 1 <= Len(y) THEN y[i - 1] ELSE 0
    <2> DEFINE t == Taken(y, l)
    <2>1. /\ t \in Seq(Byte) /\ Len(t) = l
          /\ \A i \in 1 .. l : t[i] = IF i <= Len(y) THEN y[i] ELSE 0
      BY <1>1, TakenIs
    <2> HIDE DEF t
    <2>2. /\ first \o t \in Seq(Byte) /\ Len(first \o t) = Len(first) + Len(t)
          /\ \A i \in 1 .. Len(first) + Len(t) :
                (first \o t)[i] = IF i <= Len(first) THEN first[i] ELSE t[i - Len(first)]
      BY <1>2, <2>1, ConcatProperties
    <2>3. r = first \o t
      BY <1>3 DEF t
    <2>4. r \in Seq(Byte) /\ Len(r) = l + 1 /\ r[1] = l
      BY <1>1, <1>2, <2>1, <2>2, <2>3
    <2>5. ASSUME NEW i \in 2 .. l + 1 PROVE r[i] = IF i - 1 <= Len(y) THEN y[i - 1] ELSE 0
      <3>1. i \in 1 .. l + 1 /\ ~(i <= 1) /\ i - 1 \in 1 .. l
        BY <1>1
      <3>2. r[i] = t[i - 1]
        BY <1>2, <2>1, <2>2, <2>3, <3>1
      <3> QED BY <2>1, <3>1, <3>2
    <2> QED BY <2>4, <2>5
  <1>4. atp = first \o Taken(x, l)
    BY DEF first, l
  <1>7. \/ p = a
        \/ p \in Damaged(a) /\ p = [a EXCEPT ![1] = 0]
        \/ p \in Damaged(a) /\ \E i \in 2 .. Len(a) : \E b \in Byte :
              i # 12 /\ b # a[i] /\ p = [a EXCEPT ![i] = b]
    BY DamagedAtp
  <1>8. /\ a \in Seq(Byte) /\ Len(a) = l + 1 /\ a[1] = l /\ a[12] = 9 /\ AtpOk(a)
    BY AtpIs DEF IsAtp, l
  <1>9. p \in Seq(Byte) /\ Len(p) = l + 1 /\ p[12] = 9
    <2>1. 0 \in Byte /\ 1 \in 1 .. Len(a) /\ 12 \in 1 .. Len(a) /\ 1 # 12
      BY <1>1, <1>8 DEF Byte
    <2>2. ASSUME NEW i \in 1 .. Len(a), NEW b \in Byte, i # 12, p = [a EXCEPT ![i] = b]
          PROVE  p \in Seq(Byte) /\ Len(p) = Len(a) /\ p[12] = a[12]
      BY <1>8, <2>1, <2>2, ByteChanged
    <2>3. \A i \in 2 .. Len(a) : i \in 1 .. Len(a)
      BY <1>1, <1>8
    <2>4. p \in Seq(Byte) /\ Len(p) = Len(a) /\ p[12] = a[12]
      BY <1>7, <1>8, <2>1, <2>2, <2>3
    <2> QED BY <1>8, <2>4
  <1>10. x # p
    <2> SUFFICES ASSUME x = p PROVE FALSE
      OBVIOUS
    <2>1. /\ atp \in Seq(Byte) /\ Len(atp) = l + 1 /\ atp[1] = l
          /\ \A i \in 2 .. l + 1 : atp[i] = IF i - 1 <= Len(p) THEN p[i - 1] ELSE 0
      BY <1>3, <1>4, <1>9
    <2>2. atp[13] = 9
      <3>1. 13 \in 2 .. l + 1 /\ 13 - 1 = 12 /\ 12 <= Len(p)
        BY <1>1, <1>9
      <3> QED BY <1>9, <2>1, <3>1
    <2>3. atp[13] \in {0, 1}
      <3>1. /\ atp \in Seq(Byte) /\ Len(atp) = EXPECTED_ATP_LENGTH + 1
            /\ atp[1] = EXPECTED_ATP_LENGTH
        BY <2>1 DEF l
      <3> QED BY <3>1, AtpCheck
    <2>4. \A t \in {0, 1} : t # 9
      OBVIOUS
    <2> QED BY <2>2, <2>3, <2>4
  <1>11. /\ atp \in Seq(Byte) /\ Len(atp) = l + 1 /\ atp[1] = l
         /\ \A i \in 2 .. l + 1 : atp[i] = p[i]
    <2>1. /\ Dropped(p, 1) \in Seq(Byte) /\ Len(Dropped(p, 1)) = l
          /\ \A i \in 1 .. l : Dropped(p, 1)[i] = p[1 + i]
      <3>1. /\ Dropped(p, 1) \in Seq(Byte)
            /\ Len(Dropped(p, 1)) = IF 1 > Len(p) THEN 0 ELSE Len(p) - 1
            /\ \A i \in 1 .. Len(Dropped(p, 1)) : Dropped(p, 1)[i] = p[1 + i]
        BY <1>9, DroppedIs, 1 \in Nat
      <3> QED BY <1>1, <1>9, <3>1
    <2>2. x = Dropped(p, 1)
      BY <1>10
    <2>3. /\ atp \in Seq(Byte) /\ Len(atp) = l + 1 /\ atp[1] = l
          /\ \A i \in 2 .. l + 1 : atp[i] = IF i - 1 <= Len(x) THEN x[i - 1] ELSE 0
      <3>1. x \in Seq(Byte)
        BY <2>1, <2>2
      <3> QED BY <1>3, <1>4, <3>1
    <2>4. ASSUME NEW i \in 2 .. l + 1 PROVE atp[i] = p[i]
      <3>1. i - 1 \in 1 .. l /\ i - 1 <= l /\ 1 + (i - 1) = i
        BY <1>1
      <3> QED BY <2>1, <2>2, <2>3, <3>1
    <2> QED BY <2>3, <2>4
  <1>12. p # [a EXCEPT ![1] = 0]
    <2>1. 1 \in 1 .. Len(a)
      BY <1>1, <1>8
    <2>2. [a EXCEPT ![1] = 0][1] = 0
      BY <1>8, <2>1
    <2> QED BY <1>10, <2>2
  <1>13. ASSUME NEW i \in 2 .. Len(a), NEW b \in Byte, b # a[i], p = [a EXCEPT ![i] = b]
         PROVE  FALSE
    <2>1. p[1] = l
      <3>1. 1 \in 1 .. Len(a) /\ i # 1
        BY <1>1, <1>8
      <3> QED BY <1>8, <1>13, <3>1
    <2>2. \A j \in 1 .. l + 1 : j = 1 \/ j \in 2 .. l + 1
      BY <1>1
    <2>3. \A j \in 1 .. l + 1 : atp[j] = p[j]
      BY <1>11, <2>1, <2>2
    <2>4. atp = p
      BY <1>9, <1>11, <2>3, SeqEqual
    <2>5. ~AtpOk(p)
      BY <1>8, <1>13, AtpDamageRefused DEF l
    <2> QED BY <2>4, <2>5
  <1>14. p = a
    BY <1>7, <1>12, <1>13
  <1>15. p \notin Damaged(a)
    <2> SUFFICES ASSUME p \in Damaged(a) PROVE FALSE
      OBVIOUS
    <2>1. \/ p = [a EXCEPT ![1] = 0]
          \/ \E i \in 2 .. Len(a) : \E b \in Byte :
                i # 12 /\ b # a[i] /\ p = [a EXCEPT ![i] = b]
      BY DamagedAtp
    <2> QED BY <1>12, <1>13, <2>1
  <1>16. atp = a
    <2>1. \A i \in 1 .. l + 1 : i = 1 \/ i \in 2 .. l + 1
      BY <1>1
    <2>2. \A i \in 1 .. l + 1 : atp[i] = a[i]
      BY <1>8, <1>11, <1>14, <2>1
    <2> QED BY <1>8, <1>11, <2>2, SeqEqual
  <1> QED BY <1>10, <1>14, <1>15, <1>16

(* A damaged answer is the answer with one byte changed.                   *)
LEMMA DamagedAnswer ==
    ASSUME NEW a \in Answers, NEW d \in Damaged(a)
    PROVE  \E i \in 1 .. Len(a) : \E b \in Byte : b # a[i] /\ d = [a EXCEPT ![i] = b]
  <1>1. a \in Seq(Byte) /\ a \notin Atps
    BY Beginnings
  <1>3. PICK i \in DOMAIN a : \E b \in Noise(a[i]) : d = [a EXCEPT ![i] = b]
    BY <1>1 DEF Damaged
  <1>4. i \in 1 .. Len(a) /\ a[i] \in Byte
    BY <1>1
  <1>5. \A b \in Noise(a[i]) : b \in Byte /\ b # a[i]
    <2>1. FlipBit(a[i], 4) \in Byte
      BY <1>4, FlipInByte
    <2>2. NAD_SLAVE_TO_HOST \in Byte /\ 0 \in Byte
      BY Bytes
    <2> QED BY <2>1, <2>2 DEF Noise
  <1> QED BY <1>3, <1>4, <1>5

Said == Answers \cup Atps

LEMMA RemainsIff ==
    ASSUME NEW a, NEW x
    PROVE  x \in Remains(a) <=> (\E d \in {a} \cup Damaged(a) : x \in Suffixes(d))
                                /\ (x # a \/ a \in Atps)
  <1> DEFINE whole == {a} \cup Damaged(a)
             all == UNION {Suffixes(d) : d \in whole}
  <1>1. x \in all <=> \E d \in whole : x \in Suffixes(d)
    <2> HIDE DEF whole
    <2>1. ASSUME x \in all PROVE \E d \in whole : x \in Suffixes(d)
      BY <2>1
    <2>2. ASSUME NEW d \in whole, x \in Suffixes(d) PROVE x \in all
      BY <2>2
    <2> QED BY <2>1, <2>2
  <1>2. Remains(a) = all \ ({a} \ Atps)
    BY Zenon DEF Remains
  <1> HIDE DEF all
  <1> QED BY <1>1, <1>2

LEMMA DamagedIs ==
    ASSUME NEW a \in Said, NEW d \in Damaged(a)
    PROVE  /\ d \in Seq(Byte) /\ Len(d) = Len(a) /\ d # a
           /\ d \in Remains(a)
  <1>1. a \in Seq(Byte) /\ Len(a) >= 1
    BY Beginnings DEF Said
  <1>2. \E i \in 1 .. Len(a) : \E b \in Byte : b # a[i] /\ d = [a EXCEPT ![i] = b]
    <2>1. CASE a \in Answers
      BY <2>1, DamagedAnswer
    <2>2. CASE a \in Atps
      <3>1. 1 \in 1 .. Len(a) /\ 0 \in Byte /\ a[1] # 0
        BY <1>1, <2>2, AtpIs, Bytes DEF IsAtp, EXPECTED_ATP_LENGTH
      <3>2. \A i \in 2 .. Len(a) : i \in 1 .. Len(a)
        BY <1>1
      <3> QED BY <2>2, <3>1, <3>2, DamagedAtp
    <2> QED BY <2>1, <2>2 DEF Said
  <1>3. PICK i \in 1 .. Len(a) : \E b \in Byte : b # a[i] /\ d = [a EXCEPT ![i] = b]
    BY <1>2
  <1>4. PICK b \in Byte : b # a[i] /\ d = [a EXCEPT ![i] = b]
    BY <1>3
  <1>5. d \in Seq(Byte) /\ Len(d) = Len(a) /\ d # a
    BY <1>1, <1>4
  <1>6. d \in Suffixes(d)
    BY <1>5, SuffixIs
  <1> QED BY <1>5, <1>6, RemainsIff

(* What is left of an answer is shorter, or damaged.                       *)
LEMMA RemainsIs ==
    ASSUME NEW a \in Said, NEW x \in Remains(a)
    PROVE  \E d \in {a} \cup Damaged(a) :
              /\ d \in Seq(Byte) /\ Len(d) = Len(a) /\ x \in Suffixes(d)
              /\ x \in Seq(Byte) /\ Len(x) <= Len(a) /\ (Len(x) = Len(a) => x = d)
  <1>1. PICK d \in {a} \cup Damaged(a) : x \in Suffixes(d)
    BY RemainsIff
  <1>2. d \in Seq(Byte) /\ Len(d) = Len(a)
    BY <1>1, Beginnings, DamagedIs DEF Said
  <1>3. PICK k \in 0 .. Len(d) : x = Dropped(d, k)
    BY <1>1, <1>2, SuffixIs
  <1>4. /\ x \in Seq(Byte) /\ Len(x) = IF k > Len(d) THEN 0 ELSE Len(d) - k
        /\ \A i \in 1 .. Len(x) : x[i] = d[k + i]
    BY <1>2, <1>3, DroppedIs
  <1>5. Len(x) <= Len(d) /\ (Len(x) = Len(d) => k = 0)
    BY <1>2, <1>4
  <1>6. ASSUME k = 0, Len(x) = Len(d) PROVE x = d
    <2>1. \A i \in 1 .. Len(x) : x[i] = d[i]
      BY <1>4, <1>6
    <2> QED BY <1>2, <1>4, <1>6, <2>1, SeqEqual
  <1> QED BY <1>1, <1>2, <1>4, <1>5, <1>6

(* No frame in it is accepted.                                             *)
LEMMA RemainsRefused ==
    ASSUME NEW a \in Said, NEW x \in Remains(a), StartsFrame(x)
    PROVE  ~BlockOk(Frame(x), Ifsc)
  <1>1. CASE a \in Atps \/ Len(x) # Len(a) \/ x[3] # a[3]
    BY <1>1, FrameAssumption DEF Said
  <1>2. CASE a \in Answers /\ Len(x) = Len(a) /\ x[3] = a[3]
    <2>1. x \in Damaged(a)
      <3>1. x \in {a} \cup Damaged(a)
        BY <1>2, RemainsIs
      <3>2. x # a
        BY <1>2, Beginnings, RemainsIff
      <3> QED BY <3>1, <3>2
    <2>2. /\ a \in Seq(Byte) /\ Len(a) >= 5 /\ Len(a) = a[3] + 5 /\ BlockOk(Frame(a), Ifsc)
      BY <1>2, IntactAccepted
    <2>3. ChecksumOk(Frame(a))
      BY <2>2 DEF BlockOk
    <2>4. PICK i \in 1 .. Len(a) : \E b \in Byte : b # a[i] /\ x = [a EXCEPT ![i] = b]
      BY <1>2, <2>1, DamagedAnswer
    <2>5. PICK b \in Byte : b # a[i] /\ x = [a EXCEPT ![i] = b]
      BY <2>4
    <2>6. i # 3
      BY <1>2, <2>2, <2>5
    <2>7. ~ChecksumOk(Frame(x))
      BY <2>2, <2>3, <2>5, <2>6, DamageRefused
    <2> QED BY <2>7 DEF BlockOk
  <1> QED BY <1>1, <1>2 DEF Said

(* When some of it is read, what is left remains.                          *)
LEMMA LeftIs ==
    ASSUME NEW a \in Said, NEW x \in Remains(a) \cup {a}, NEW n \in Nat, n >= 1 \/ a \in Atps
    PROVE  Dropped(x, n) \in Remains(a)
  <1>0. a \in Seq(Byte) /\ Len(a) >= 1 /\ a \in Suffixes(a)
    BY Beginnings, SuffixIs DEF Said
  <1>1. PICK d \in {a} \cup Damaged(a) :
           d \in Seq(Byte) /\ x \in Suffixes(d) /\ x \in Seq(Byte) /\ Len(x) <= Len(a)
    BY <1>0, RemainsIs
  <1>2. Dropped(x, n) \in Suffixes(d)
    BY <1>1, SuffixOfSuffix
  <1>3. CASE a \in Atps
    BY <1>1, <1>2, <1>3, RemainsIff
  <1>4. CASE n >= 1
    <2>1. Len(Dropped(x, n)) = IF n > Len(x) THEN 0 ELSE Len(x) - n
      BY <1>1, DroppedIs
    <2>2. Len(Dropped(x, n)) < Len(a)
      BY <1>0, <1>1, <1>4, <2>1
    <2>3. Dropped(x, n) # a
      BY <1>0, <2>2
    <2> QED BY <1>1, <1>2, <2>3, RemainsIff
  <1> QED BY <1>3, <1>4

(* What is heard is the answer itself, or contains no frame to accept.     *)
LEMMA HeardIs ==
    ASSUME offered \in Said, NEW x \in Heard
    PROVE  /\ x \in Seq(Byte)
           /\ x \in Remains(offered) \cup {offered}
           /\ spoilt => (StartsFrame(x) => ~BlockOk(Frame(x), Ifsc))
           /\ ~spoilt => x = offered
  <1>1. CASE spoilt
    BY <1>1, RemainsIs, RemainsRefused DEF Heard
  <1>2. CASE ~spoilt
    BY <1>2, Beginnings DEF Heard, Said
  <1> QED BY <1>1, <1>2

(* The block the host has read is the intact answer and accepted, or the   *)
(* answer was damaged or lost in part and the block is refused.            *)
LEMMA BlockRead ==
    ASSUME LineInv, AtpInv, AnswerInv, pc = "rest", NEW n, n = header[3] + 2,
           NEW tpdu, tpdu = FromBytes(header, Shifted(n))
    PROVE  /\ ATP \in SentAtps /\ ATP.ifsc = Ifsc /\ offered # <<>>
           /\ spoilt => ~BlockOk(tpdu, Ifsc)
           /\ ~spoilt => /\ offered \in Answers
                         /\ BlockOk(tpdu, Ifsc)
                         /\ header \o Shifted(n) = offered
                         /\ Dropped(out, n) = <<>>
                         /\ setup => /\ tpdu.pcb = ResponseTo(SBLOCK_IFS_REQUEST)
                                     /\ tpdu.data[1] = Ifsc
  <1>1. /\ offered # <<>> /\ offered \in Said
        /\ setup => offered \in IfsAnswers
    BY DEF AnswerInv, LineInv, Said
  <1>2. PICK x \in Heard : StartsFrame(x) /\ out = Dropped(x, 3) /\ header = Taken(x, 3)
    BY DEF AnswerInv
  <1>3. x \in Seq(Byte) /\ (spoilt => ~BlockOk(Frame(x), Ifsc)) /\ (~spoilt => x = offered)
    BY <1>1, <1>2, HeardIs
  <1>4. Shifted(n) = Rest(x)
    BY <1>2 DEF Shifted, Rest, Taken
  <1>5. tpdu = Frame(x)
    BY <1>2, <1>4 DEF Frame
  <1>6. ATP \in SentAtps /\ ATP.ifsc = Ifsc
    BY SentIfsc DEF AtpInv
  <1>7. ASSUME ~spoilt
        PROVE  /\ offered \in Answers
               /\ BlockOk(tpdu, Ifsc)
               /\ header \o Shifted(n) = offered
               /\ Dropped(out, n) = <<>>
               /\ setup => /\ tpdu.pcb = ResponseTo(SBLOCK_IFS_REQUEST)
                           /\ tpdu.data[1] = Ifsc
    <2>1. x = offered
      BY <1>3, <1>7
    <2>2. offered \in Answers
      BY <1>1, <1>2, <2>1, Beginnings DEF Said
    <2>3. /\ Len(x) >= 5 /\ Len(x) = x[3] + 5 /\ BlockOk(Frame(x), Ifsc)
          /\ x \in IfsAnswers => /\ Frame(x).pcb = ResponseTo(SBLOCK_IFS_REQUEST)
                                 /\ Frame(x).data[1] = Ifsc
      BY <2>1, <2>2, IntactAccepted
    <2>4. header \o Shifted(n) = x
      BY <1>2, <1>3, <1>4, <2>3, WholeFrame
    <2>5. x[3] \in Nat /\ header[3] = x[3] /\ n = x[3] + 2
      BY <1>2, <1>3, <2>3, FrameParts
    <2>6. Dropped(out, n) = Dropped(x, 3 + n)
      <3>1. n \in Nat /\ 3 \in Nat
        BY <2>5
      <3> QED BY <1>2, <1>3, <3>1, DroppedTwice
    <2>7. Dropped(x, 3 + n) = <<>>
      <3>1. 3 + n \in Nat /\ 3 + n = Len(x)
        BY <2>3, <2>5
      <3> QED BY <1>3, <3>1, AllDropped
    <2> QED BY <1>1, <1>5, <2>1, <2>2, <2>3, <2>4, <2>6, <2>7
  <1> QED BY <1>1, <1>3, <1>5, <1>6, <1>7

-----------------------------------------------------------------------------
(* The inductive invariant. *)

LEMMA TransferInitInv == Init => TransferInv
  <1> SUFFICES ASSUME Init PROVE TransferInv
    OBVIOUS
  <1>1. CallInv
    BY DEF Init, CallInv
  <1>2. LineInv
    BY DEF Init, LineInv
  <1>3. AtpInv
    BY DEF Init, AtpInv, AtpIntact
  <1>4. AnswerInv
    BY DEF Init, AnswerInv
  <1> QED BY <1>1, <1>2, <1>3, <1>4 DEF TransferInv

(* Most of the driver's work and the time leave alone what it is about.    *)
LEMMA OthersKeep ==
    ASSUME TransferInv, UNCHANGED pc, UNCHANGED kept, UNCHANGED header, UNCHANGED result,
           UNCHANGED seVars
    PROVE  TransferInv'
  <1>1. /\ UNCHANGED <<pc, header, result, ATP, got>> /\ UNCHANGED <<se, out, offered>>
        /\ setup' = setup /\ linkReady' = linkReady /\ spoilt' = spoilt /\ waiting' = waiting
    BY DEF kept, seVars
  <1>2. Heard' = Heard /\ Arrived' = Arrived
    BY <1>1 DEF Heard, Arrived
  <1>3. CallInv' /\ LineInv'
    BY <1>1, <1>2 DEF TransferInv, CallInv, LineInv
  <1>4. AtpInv'
    BY <1>1, <1>2 DEF TransferInv, AtpInv, AtpIntact
  <1>5. AnswerInv'
    BY <1>1, <1>2 DEF TransferInv, AnswerInv
  <1> QED BY <1>3, <1>4, <1>5 DEF TransferInv

(* What the SE shifts out next is always part of what is heard.            *)
LEMMA LineParts ==
    ASSUME TransferInv, offered # <<>>
    PROVE  /\ offered \in Said /\ se = "quiet"
           /\ \E x \in Heard : \E k \in Nat :
                 out = Dropped(x, k) /\ (pc \in {"header", "rest"} => k >= 1)
           /\ pc = "atpRest" => offered \in Atps
  <1>1. offered \in Said /\ se = "quiet"
    BY DEF TransferInv, LineInv, Said
  <1>2. CASE pc \in {"header", "rest"}
    <2>1. 1 \in Nat /\ 3 \in Nat /\ 1 >= 1 /\ 3 >= 1
      OBVIOUS
    <2> QED BY <1>1, <1>2, <2>1 DEF TransferInv, AnswerInv
  <1>3. CASE pc = "atpRest"
    <2>1. offered \in Atps
      BY <1>3 DEF TransferInv, AtpInv, LineInv
    <2>2. PICK x \in Arrived : out = x \/ out = Dropped(x, 1)
      BY <1>3 DEF TransferInv, AtpInv
    <2>3. x \in Heard /\ x \in Seq(Byte)
      BY <1>1, <2>2, DamagedIs, Beginnings DEF Arrived, Heard, Said
    <2>4. out = Dropped(x, 0) \/ out = Dropped(x, 1)
      BY <2>2, <2>3, NoneDropped
    <2>5. 0 \in Nat /\ 1 \in Nat
      OBVIOUS
    <2> QED BY <1>1, <1>3, <2>1, <2>3, <2>4, <2>5
  <1>4. CASE pc \notin {"atpRest", "header", "rest"}
    <2>1. out \in Heard
      BY <1>4 DEF TransferInv, LineInv
    <2>2. out = Dropped(out, 0) /\ 0 \in Nat
      BY <1>1, <2>1, HeardIs, NoneDropped
    <2> QED BY <1>1, <1>4, <2>1, <2>2
  <1> QED BY <1>2, <1>3, <1>4

(* Bytes are read and thrown away: of a block, of an ATP, or one at least. *)
LEMMA AwayKeeps ==
    ASSUME TransferInv, NEW n \in Nat, ReadAway(n),
           n >= 1 \/ pc \in {"atpRest", "header", "rest"}
    PROVE  /\ UNCHANGED <<se, waiting, offered>> /\ spoilt' = (offered # <<>>)
           /\ LineInv'
  <1>1. /\ UNCHANGED <<se, waiting, offered>> /\ spoilt' = (offered # <<>>)
        /\ out' = Dropped(out, n)
    BY DEF ReadAway, ShiftOut, Dropped
  <1>2. CASE offered = <<>>
    <2>1. out' = <<>>
      BY <1>1, <1>2, NothingLeft DEF TransferInv, LineInv
    <2> QED BY <1>1, <1>2, <2>1 DEF LineInv
  <1>3. CASE offered # <<>>
    <2>1. /\ offered \in Said /\ se = "quiet"
          /\ pc = "atpRest" => offered \in Atps
      BY <1>3, LineParts
    <2>2. PICK x \in Heard : \E k \in Nat :
             out = Dropped(x, k) /\ (pc \in {"header", "rest"} => k >= 1)
      BY <1>3, LineParts
    <2>3. PICK k \in Nat : out = Dropped(x, k) /\ (pc \in {"header", "rest"} => k >= 1)
      BY <2>2
    <2>4. x \in Seq(Byte) /\ x \in Remains(offered) \cup {offered}
      BY <2>1, HeardIs
    <2>5. out' = Dropped(x, k + n) /\ k + n \in Nat
      BY <1>1, <2>3, <2>4, DroppedTwice
    <2>6. k + n >= 1 \/ offered \in Atps
      BY <2>1, <2>3
    <2>7. out' \in Remains(offered)
      BY <2>1, <2>4, <2>5, <2>6, LeftIs
    <2>8. out' \in Heard'
      BY <1>1, <1>3, <2>7 DEF Heard
    <2> QED BY <1>1, <1>3, <2>1, <2>8 DEF LineInv, Said
  <1> QED BY <1>1, <1>2, <1>3

(* The SE is reset or turns to a block. *)
LEMMA TurnKeeps ==
    ASSUME NEW state, SeTurnsTo(state)
    PROVE  LineInv'
  BY DEF SeTurnsTo, LineInv

LEMMA TakesKeeps ==
    ASSUME TransferInv, pc = "write", SeTakesBlock
    PROVE  LineInv'
  <1>1. CASE UNCHANGED <<se, out, offered, spoilt>>
    <2>1. Heard' = Heard
      BY <1>1 DEF Heard
    <2> QED BY <1>1, <2>1 DEF TransferInv, LineInv
  <1> QED BY <1>1, TurnKeeps DEF SeTakesBlock

(* A call has ended. *)
LEMMA EndKeeps ==
    ASSUME pc' = "idle", result' # "pending", LineInv', AtpIntact',
           linkReady' => ATP' \in SentAtps
    PROVE  TransferInv'
  BY DEF TransferInv, CallInv, AtpInv, AnswerInv

LEMMA EndKeepsAtp ==
    ASSUME TransferInv, pc' = "idle", result' # "pending", UNCHANGED kept, LineInv'
    PROVE  TransferInv'
  <1>1. UNCHANGED ATP /\ linkReady' = linkReady
    BY DEF kept
  <1>2. AtpIntact' /\ (linkReady' => ATP' \in SentAtps)
    BY <1>1 DEF TransferInv, AtpInv, AtpIntact
  <1> QED BY <1>2, EndKeeps

(* The SE and the line are left alone by a step that reads no block or ATP. *)
LEMMA LineStays ==
    ASSUME TransferInv, pc \notin {"atpRest", "header", "rest"}, UNCHANGED seVars
    PROVE  LineInv'
  <1>1. UNCHANGED <<se, out, offered>> /\ spoilt' = spoilt
    BY DEF seVars
  <1>2. Heard' = Heard
    BY <1>1 DEF Heard
  <1> QED BY <1>1, <1>2 DEF TransferInv, LineInv

LEMMA GiveUpKeeps == ASSUME TransferInv, GiveUp PROVE TransferInv'
  <1>1. UNCHANGED kept
    BY DEF GiveUp
  <1>2. CASE EndWith("failed") /\ pc \in {"atpRest", "header", "rest"} /\ ReadAway(0)
    <2>1. LineInv'
      BY <1>2, AwayKeeps, 0 \in Nat
    <2> QED BY <1>1, <1>2, <2>1, EndKeepsAtp DEF EndWith, MoveTo
  <1>3. CASE EndWith("failed") /\ pc \notin {"atpRest", "header", "rest"} /\ UNCHANGED seVars
    <2>1. LineInv'
      BY <1>3, LineStays
    <2> QED BY <1>1, <1>3, <2>1, EndKeepsAtp DEF EndWith, MoveTo
  <1>4. CASE pc = "atpLength" /\ GoTo("atpRest", 0) /\ UNCHANGED seVars
    <2>1. /\ pc' = "atpRest" /\ UNCHANGED <<result, ATP, got, se, out, offered>>
          /\ setup' = setup /\ linkReady' = linkReady /\ spoilt' = spoilt /\ waiting' = waiting
      BY <1>1, <1>4 DEF GoTo, MoveTo, kept, seVars
    <2>2. Arrived' = Arrived /\ LineInv'
      BY <1>4, <2>1, LineStays DEF Arrived
    <2>3. CallInv'
      BY <1>4, <2>1 DEF TransferInv, CallInv
    <2>4. AtpInv'
      BY <1>4, <2>1, <2>2 DEF TransferInv, AtpInv, AtpIntact
    <2> QED BY <2>1, <2>2, <2>3, <2>4 DEF TransferInv, AnswerInv
  <1> QED BY <1>2, <1>3, <1>4 DEF GiveUp

LEMMA CutShortKeeps == ASSUME TransferInv, CutShort PROVE TransferInv'
  <1>1. pc' = "idle" /\ result' # "pending" /\ UNCHANGED kept
    BY DEF CutShort, EndWith, MoveTo
  <1>2. CASE pc = "write" /\ SeTakesBlock
    BY <1>1, <1>2, TakesKeeps, EndKeepsAtp
  <1>3. CASE pc = "write" /\ UNCHANGED seVars
    BY <1>1, <1>3, LineStays, EndKeepsAtp
  <1>4. CASE ReadAway(1)
    <2>1. LineInv'
      BY <1>4, AwayKeeps, 1 \in Nat
    <2> QED BY <1>1, <2>1, EndKeepsAtp
  <1> QED BY <1>2, <1>3, <1>4 DEF CutShort

-----------------------------------------------------------------------------
(* Setup. *)
LEMMA BeginSetupKeeps == ASSUME TransferInv, BeginSetup PROVE TransferInv'
  <1>1. /\ pc' = "pwt" /\ setup' = TRUE /\ got' = <<>> /\ result' = "pending"
        /\ se' = "booting" /\ out' = <<>> /\ offered' = <<>> /\ spoilt' = FALSE
        /\ waiting' = FALSE /\ linkReady' = linkReady /\ ATP' = ATP
    BY DEF BeginSetup, MoveTo, SeTurnsTo
  <1>2. CallInv' /\ LineInv' /\ AnswerInv'
    BY <1>1 DEF CallInv, LineInv, AnswerInv
  <1>3. AtpInv'
    BY <1>1 DEF TransferInv, AtpInv, AtpIntact
  <1> QED BY <1>2, <1>3 DEF TransferInv

LEMMA SetupNoResetKeeps == ASSUME TransferInv, SetupNoReset PROVE TransferInv'
  <1>1. /\ pc = "idle" /\ pc' = "idle" /\ result' # "pending" /\ UNCHANGED kept
        /\ UNCHANGED seVars
    BY DEF SetupNoReset
  <1> QED BY <1>1, LineStays, EndKeepsAtp

LEMMA PwtOverKeeps == ASSUME TransferInv, PwtOver PROVE TransferInv'
  <1>1. /\ pc = "pwt" /\ pc' = "atpLength" /\ UNCHANGED <<result, ATP, got, se, out, offered>>
        /\ setup' = setup /\ linkReady' = linkReady /\ spoilt' = spoilt /\ waiting' = waiting
        /\ UNCHANGED seVars
    BY DEF PwtOver, MoveTo, kept, seVars
  <1>2. Arrived' = Arrived /\ LineInv'
    BY <1>1, LineStays DEF Arrived
  <1>3. CallInv' /\ AnswerInv'
    BY <1>1 DEF TransferInv, CallInv, AnswerInv
  <1>4. AtpInv'
    BY <1>1, <1>2 DEF TransferInv, AtpInv, AtpIntact
  <1> QED BY <1>2, <1>3, <1>4 DEF TransferInv

LEMMA ReadAtpLengthKeeps == ASSUME LinkInv, TransferInv, ReadAtpLength PROVE TransferInv'
  <1>1. pc = "atpLength" /\ UNCHANGED kept
    BY DEF ReadAtpLength, Ready
  <1>2. CASE ReadAway(1) /\ EndWith("failed")
    <2>1. LineInv'
      BY <1>2, AwayKeeps, 1 \in Nat
    <2> QED BY <1>1, <1>2, <2>1, EndKeepsAtp DEF EndWith, MoveTo
  <1>3. CASE Shifted(1)[1] # 0 /\ ReadOn(1) /\ GoTo("atpRest", 0)
    <2>1. /\ pc' = "atpRest" /\ UNCHANGED <<result, ATP, got, se, offered>>
          /\ setup' = setup /\ linkReady' = linkReady /\ spoilt' = spoilt /\ waiting' = waiting
          /\ out' = Dropped(out, 1)
      BY <1>1, <1>3 DEF GoTo, MoveTo, kept, ReadOn, ShiftOut, Dropped
    <2>2. Arrived' = Arrived
      BY <2>1 DEF Arrived
    <2>3. offered = <<>> => out' = <<>>
      BY <2>1, NothingLeft, 1 \in Nat DEF TransferInv, LineInv
    <2>4. LineInv'
      BY <2>1, <2>3 DEF TransferInv, LineInv
    <2>5. offered # <<>> => out \in Arrived /\ out[1] # 0
      <3>1. out \in Seq(Byte)
        BY DEF LinkInv, Line
      <3>2. out # <<>> => Shifted(1)[1] = out[1]
        <4>1. out # <<>> => 1 <= Len(out)
          BY <3>1, EmptySeq
        <4> QED BY <4>1 DEF Shifted
      <3>3. out = <<>> => Shifted(1)[1] = 0
        <4>1. out = <<>> => ~ 1 <= Len(out)
          OBVIOUS
        <4> QED BY <4>1 DEF Shifted
      <3> QED BY <1>1, <1>3, <3>2, <3>3 DEF TransferInv, AtpInv
    <2>6. CallInv'
      BY <1>1, <2>1 DEF TransferInv, CallInv
    <2>7. AtpInv'
      BY <1>1, <2>1, <2>2, <2>5 DEF TransferInv, AtpInv, AtpIntact
    <2> QED BY <2>1, <2>4, <2>6, <2>7 DEF TransferInv, AnswerInv
  <1> QED BY <1>2, <1>3 DEF ReadAtpLength

(* An ATP that is accepted is one the SE sent, and is read to its end.     *)
LEMMA AtpAccepted ==
    ASSUME TransferInv, pc = "atpRest", NEW atp,
           atp = <<EXPECTED_ATP_LENGTH>> \o Shifted(EXPECTED_ATP_LENGTH), AtpOk(atp)
    PROVE  /\ offered \in Atps /\ offered # <<>> /\ ~spoilt /\ se = "quiet"
           /\ AtpFields(atp) \in SentAtps
           /\ Dropped(out, EXPECTED_ATP_LENGTH) = <<>>
  <1>1. atp = <<EXPECTED_ATP_LENGTH>> \o Taken(out, EXPECTED_ATP_LENGTH)
    BY DEF Shifted, Taken
  <1>2. offered # <<>>
    <2> SUFFICES ASSUME offered = <<>> PROVE FALSE
      OBVIOUS
    <2>1. out = <<>>
      BY DEF TransferInv, LineInv
    <2> QED BY <1>1, <2>1, SilenceAssumption
  <1>3. offered \in Atps /\ se = "quiet"
    BY <1>2, LineParts
  <1>4. PICK p \in Arrived : out = p \/ (p[1] # 0 /\ out = Dropped(p, 1))
    BY <1>2 DEF TransferInv, AtpInv
  <1>5. p \in {offered} \cup Damaged(offered)
    BY <1>4 DEF Arrived
  <1>6. p \notin Damaged(offered) /\ out = Dropped(offered, 1) /\ atp = offered
    BY <1>1, <1>3, <1>4, <1>5, AtpRead
  <1>7. ~spoilt
    BY <1>4, <1>6 DEF Arrived
  <1>8. Dropped(out, EXPECTED_ATP_LENGTH) = <<>>
    <2>1. offered \in Seq(Byte) /\ Len(offered) = EXPECTED_ATP_LENGTH + 1
      BY <1>3, AtpIs DEF IsAtp
    <2>2. EXPECTED_ATP_LENGTH \in Nat
      BY DEF EXPECTED_ATP_LENGTH
    <2>3. Dropped(out, EXPECTED_ATP_LENGTH) = Dropped(offered, 1 + EXPECTED_ATP_LENGTH)
      BY <1>6, <2>1, <2>2, DroppedTwice, 1 \in Nat
    <2>4. 1 + EXPECTED_ATP_LENGTH \in Nat /\ 1 + EXPECTED_ATP_LENGTH >= Len(offered)
      BY <2>1, <2>2
    <2> QED BY <2>1, <2>3, <2>4, AllDropped
  <1> QED BY <1>2, <1>3, <1>6, <1>7, <1>8 DEF SentAtps

LEMMA ReadAtpRestKeeps == ASSUME TransferInv, ReadAtpRest PROVE TransferInv'
  <1> DEFINE atp == <<EXPECTED_ATP_LENGTH>> \o Shifted(EXPECTED_ATP_LENGTH)
             ok == AtpOk(atp)
  <1>1. /\ pc = "atpRest" /\ setup' = setup /\ linkReady' = linkReady /\ UNCHANGED got
        /\ ATP' = IF ok THEN AtpFields(atp) ELSE ATP
        /\ IF ok THEN ReadOut(EXPECTED_ATP_LENGTH) ELSE ReadAway(EXPECTED_ATP_LENGTH)
        /\ IF ok /\ ATP'.crc THEN GoTo("write", 0) ELSE EndWith("failed")
    BY DEF ReadAtpRest, Ready, AtpAfter
  <1>2. setup
    BY <1>1 DEF TransferInv, AtpInv
  <1>3. CASE ok
    <2>1. /\ se = "quiet" /\ AtpFields(atp) \in SentAtps
          /\ Dropped(out, EXPECTED_ATP_LENGTH) = <<>>
      <3> HIDE DEF atp
      <3>1. atp = <<EXPECTED_ATP_LENGTH>> \o Shifted(EXPECTED_ATP_LENGTH)
        BY DEF atp
      <3> QED BY <1>1, <1>3, <3>1, AtpAccepted
    <2> HIDE DEF atp, ok
    <2>2. /\ se' = "quiet" /\ waiting' = waiting /\ out' = <<>>
          /\ offered' = <<>> /\ spoilt' = FALSE
      BY <1>1, <1>3, <2>1 DEF ReadOut, ShiftOut, Dropped
    <2>3. LineInv'
      BY <2>2 DEF LineInv
    <2>4. ATP' \in SentAtps /\ AtpIntact'
      BY <1>1, <1>3, <2>1 DEF AtpIntact, SentAtps
    <2>5. CASE EndWith("failed")
      BY <2>3, <2>4, <2>5, EndKeeps DEF EndWith, MoveTo
    <2>6. CASE GoTo("write", 0)
      <3>1. pc' = "write" /\ result' = result
        BY <2>6 DEF GoTo, MoveTo
      <3>2. CallInv'
        BY <1>1, <1>2, <2>2, <3>1 DEF TransferInv, CallInv
      <3>3. AtpInv'
        BY <2>2, <2>4, <3>1 DEF AtpInv
      <3> QED BY <2>3, <3>1, <3>2, <3>3 DEF TransferInv, AnswerInv
    <2> QED BY <1>1, <2>5, <2>6
  <1>4. CASE ~ok
    <2> HIDE DEF atp, ok
    <2>1. LineInv'
      BY <1>1, <1>4, AwayKeeps DEF EXPECTED_ATP_LENGTH
    <2>2. AtpIntact' /\ (linkReady' => ATP' \in SentAtps)
      BY <1>1, <1>4 DEF TransferInv, AtpInv, AtpIntact
    <2> QED BY <1>1, <1>4, <2>1, <2>2, EndKeeps DEF EndWith, MoveTo
  <1> QED BY <1>3, <1>4

-----------------------------------------------------------------------------
(* The SE speaks. *)
LEMMA OffersKeeps ==
    ASSUME TransferInv, se # "quiet", NEW answers, answers \subseteq Said, Offers(answers),
           setup /\ pc \in {"poll", "header", "rest"} => answers \subseteq IfsAnswers,
           pc \in {"pwt", "atpLength", "atpRest"} => answers \subseteq Atps
    PROVE  TransferInv'
  <1>1. /\ UNCHANGED <<pc, header, ATP, got, result>>
        /\ setup' = setup /\ linkReady' = linkReady /\ waiting' = waiting
        /\ se' = "quiet" /\ offered = <<>>
    BY DEF Offers, kept, TransferInv, LineInv
  <1>2. PICK bytes \in answers :
          \E p \in Passages(bytes) :
            /\ out' = p.bytes /\ offered' = bytes /\ spoilt' = (p.bytes # bytes)
    BY DEF Offers
  <1>3. \A p \in Passages(bytes) : p.bytes = bytes \/ p.bytes \in Damaged(bytes)
    BY DEF Passages
  <1>4. /\ offered' = bytes /\ out' \in {bytes} \cup Damaged(bytes)
        /\ spoilt' = (out' # bytes)
    BY <1>2, <1>3
  <1>5. offered' \in Said /\ offered' # <<>>
    BY <1>4, Beginnings DEF Said
  <1>6. out' \in Arrived'
    BY <1>4 DEF Arrived
  <1>7. out' \in Heard'
    <2>1. CASE spoilt'
      BY <1>4, <1>5, <2>1, DamagedIs DEF Heard
    <2>2. CASE ~spoilt'
      BY <1>4, <2>2 DEF Heard
    <2> QED BY <2>1, <2>2
  <1>8. pc \notin {"header", "rest"} /\ ~(pc = "write" /\ setup)
    BY <1>1 DEF TransferInv, AnswerInv, AtpInv
  <1>9. CallInv' /\ LineInv'
    BY <1>1, <1>5, <1>7 DEF TransferInv, CallInv, LineInv, Said
  <1>10. AtpInv'
    BY <1>1, <1>4, <1>6, <1>8 DEF TransferInv, AtpInv, AtpIntact
  <1>11. AnswerInv'
    BY <1>1, <1>4, <1>8 DEF TransferInv, AnswerInv
  <1> QED BY <1>9, <1>10, <1>11 DEF TransferInv

LEMMA SeOffersAtpKeeps == ASSUME TransferInv, SeOffersAtp PROVE TransferInv'
  <1>1. se = "booting" /\ Offers(Atps)
    BY DEF SeOffersAtp
  <1>2. ~(setup /\ pc \in {"poll", "header", "rest"})
    BY <1>1 DEF TransferInv, AnswerInv
  <1> QED BY <1>1, <1>2, OffersKeeps DEF Said

LEMMA SeAnswersKeeps == ASSUME TransferInv, SeAnswers PROVE TransferInv'
  <1> DEFINE answers == IF setup THEN IfsAnswers ELSE ExchangeAnswers \cup IfsAnswers
  <1>1. se = "working" /\ Offers(answers)
    BY DEF SeAnswers
  <1>2. pc \notin {"pwt", "atpLength", "atpRest"}
    BY <1>1 DEF TransferInv, AtpInv
  <1>3. answers \subseteq Said /\ (setup => answers \subseteq IfsAnswers)
    BY DEF Said, Answers
  <1> HIDE DEF answers
  <1> QED BY <1>1, <1>2, <1>3, OffersKeeps

LEMMA SeGoesOnKeeps == ASSUME TransferInv, SeGoesOn PROVE TransferInv'
  <1>1. /\ UNCHANGED <<pc, ATP, got, result>> /\ setup' = setup /\ linkReady' = linkReady
        /\ pc \notin {"header", "rest"} /\ waiting
        /\ offered' = <<>> /\ waiting' = FALSE
    BY DEF SeGoesOn, kept, SeTurnsTo
  <1>2. LineInv'
    BY TurnKeeps DEF SeGoesOn
  <1>3. ~(setup /\ pc # "idle")
    BY <1>1 DEF TransferInv, CallInv
  <1>4. CallInv'
    BY <1>1 DEF TransferInv, CallInv
  <1>5. AtpInv'
    BY <1>1, <1>3 DEF TransferInv, AtpInv, AtpIntact
  <1>6. AnswerInv'
    BY <1>1, <1>3 DEF AnswerInv
  <1> QED BY <1>2, <1>4, <1>5, <1>6 DEF TransferInv

-----------------------------------------------------------------------------
(* Exchange. *)
LEMMA BeginExchangeKeeps == ASSUME TransferInv, BeginExchange PROVE TransferInv'
  <1>1. /\ pc = "idle" /\ linkReady /\ pc' = "write" /\ got' = <<>> /\ result' = "pending"
        /\ setup' = FALSE /\ linkReady' = linkReady /\ UNCHANGED ATP /\ UNCHANGED seVars
    BY DEF BeginExchange, MoveTo
  <1>2. LineInv'
    BY <1>1, LineStays
  <1>3. CallInv' /\ AnswerInv'
    BY <1>1 DEF CallInv, AnswerInv
  <1>4. AtpInv'
    BY <1>1 DEF TransferInv, AtpInv, AtpIntact
  <1> QED BY <1>2, <1>3, <1>4 DEF TransferInv

LEMMA WriteTpduKeeps == ASSUME TransferInv, WriteTpdu PROVE TransferInv'
  <1>1. /\ pc = "write" /\ pc' = "poll" /\ UNCHANGED <<result, ATP, got>>
        /\ setup' = setup /\ linkReady' = linkReady /\ SeTakesBlock
    BY DEF WriteTpdu, Ready, GoTo, MoveTo, kept
  <1>2. LineInv'
    BY <1>1, TakesKeeps
  <1>3. setup => SeTurnsTo("working")
    BY <1>1 DEF SeTakesBlock, TransferInv, AtpInv, LineInv
  <1>4. setup => se' = "working" /\ offered' = <<>> /\ waiting' = FALSE
    BY <1>3 DEF SeTurnsTo
  <1>5. CallInv' /\ AnswerInv'
    BY <1>1, <1>4 DEF TransferInv, CallInv, AnswerInv
  <1>6. AtpInv'
    BY <1>1 DEF TransferInv, AtpInv, AtpIntact
  <1> QED BY <1>2, <1>5, <1>6 DEF TransferInv

LEMMA PollKeeps == ASSUME LinkInv, TransferInv, Poll PROVE TransferInv'
  <1>1. pc = "poll" /\ UNCHANGED kept
    BY DEF Poll, Ready
  <1>2. CASE StartOfFrame(Shifted(1)[1]) /\ ReadOn(1) /\ GoTo("header", 0)
    <2>1. /\ pc' = "header" /\ UNCHANGED <<result, ATP, got, se, offered>>
          /\ setup' = setup /\ linkReady' = linkReady /\ spoilt' = spoilt /\ waiting' = waiting
          /\ out' = Dropped(out, 1)
      BY <1>1, <1>2 DEF GoTo, MoveTo, kept, ReadOn, ShiftOut, Dropped
    <2>2. StartsFrame(out)
      <3>1. Shifted(1)[1] = IF 1 <= Len(out) THEN out[1] ELSE 0
        BY DEF Shifted
      <3>2. 1 <= Len(out) => out # <<>>
        OBVIOUS
      <3>3. Shifted(1)[1] = 18
        BY <1>2 DEF StartOfFrame, NAD_SLAVE_TO_HOST
      <3> QED BY <3>1, <3>2, <3>3 DEF StartsFrame, NAD_SLAVE_TO_HOST
    <2>3. offered # <<>> /\ out \in Heard
      BY <1>1, <2>2 DEF TransferInv, LineInv, StartsFrame
    <2>4. Heard' = Heard
      BY <2>1 DEF Heard
    <2>5. LineInv'
      BY <2>1, <2>3 DEF TransferInv, LineInv
    <2>6. CallInv'
      BY <1>1, <2>1 DEF TransferInv, CallInv
    <2>7. AtpInv'
      BY <1>1, <2>1 DEF TransferInv, AtpInv, AtpIntact
    <2>8. AnswerInv'
      BY <1>1, <2>1, <2>2, <2>3, <2>4 DEF TransferInv, AnswerInv
    <2> QED BY <2>5, <2>6, <2>7, <2>8 DEF TransferInv
  <1>3. CASE ReadAway(1) /\ EndWith("timeout")
    <2>1. LineInv'
      BY <1>3, AwayKeeps, 1 \in Nat
    <2> QED BY <1>1, <1>3, <2>1, EndKeepsAtp DEF EndWith, MoveTo
  <1>4. CASE ReadAway(1) /\ GoTo("poll", PollInterval)
    <2>1. /\ pc' = "poll" /\ UNCHANGED <<result, ATP, got>>
          /\ setup' = setup /\ linkReady' = linkReady
      BY <1>1, <1>4 DEF GoTo, MoveTo, kept
    <2>2. UNCHANGED <<se, waiting, offered>> /\ LineInv'
      BY <1>4, AwayKeeps, 1 \in Nat
    <2>3. CallInv'
      BY <1>1, <2>1, <2>2 DEF TransferInv, CallInv
    <2>4. AtpInv'
      BY <1>1, <2>1, <2>2 DEF TransferInv, AtpInv, AtpIntact
    <2>5. AnswerInv'
      BY <1>1, <2>1, <2>2 DEF TransferInv, AnswerInv
    <2> QED BY <2>2, <2>3, <2>4, <2>5 DEF TransferInv
  <1> QED BY <1>2, <1>3, <1>4 DEF Poll

LEMMA ReadHeaderKeeps == ASSUME TransferInv, ReadHeader PROVE TransferInv'
  <1>1. /\ pc = "header" /\ pc' = "rest" /\ UNCHANGED <<result, ATP, got, se, offered>>
        /\ setup' = setup /\ linkReady' = linkReady /\ spoilt' = spoilt /\ waiting' = waiting
        /\ ShiftOut(2) /\ header' = <<NAD_SLAVE_TO_HOST>> \o Shifted(2)
    BY DEF ReadHeader, Ready, MoveTo, ReadOn, ShiftOut, kept
  <1>2. Heard' = Heard
    BY <1>1 DEF Heard
  <1>3. offered # <<>> /\ offered \in Said
    BY <1>1 DEF TransferInv, AnswerInv, LineInv, Said
  <1>4. PICK x \in Heard : StartsFrame(x) /\ out = Dropped(x, 1)
    BY <1>1 DEF TransferInv, AnswerInv
  <1>5. out' = Dropped(x, 3) /\ header' = Taken(x, 3)
    BY <1>1, <1>3, <1>4, HeardIs, HeaderRead
  <1>6. AnswerInv'
    BY <1>1, <1>2, <1>3, <1>4, <1>5 DEF TransferInv, AnswerInv
  <1>7. LineInv'
    BY <1>1, <1>3 DEF TransferInv, LineInv
  <1>8. CallInv'
    BY <1>1 DEF TransferInv, CallInv
  <1>9. AtpInv'
    BY <1>1 DEF TransferInv, AtpInv, AtpIntact
  <1> QED BY <1>6, <1>7, <1>8, <1>9 DEF TransferInv

LEMMA ReadRestKeeps == ASSUME LinkInv, TransferInv, ReadRest PROVE TransferInv'
  <1> DEFINE n == header[3] + 2
             tpdu == FromBytes(header, Shifted(n))
             ok == BlockOk(tpdu, ATP.ifsc)
                     /\ (setup => tpdu.pcb = ResponseTo(SBLOCK_IFS_REQUEST))
  <1>1. /\ pc = "rest"
        /\ IF ok THEN ReadOut(n) ELSE ReadAway(n)
        /\ EndWith(IF ok THEN "delivered" ELSE "refused")
        /\ ATP' = IF ok /\ setup THEN [ATP EXCEPT !.ifsc = tpdu.data[1]] ELSE ATP
    BY DEF ReadRest, Ready
  <1>2. /\ ATP \in SentAtps /\ ATP.ifsc = Ifsc
        /\ spoilt => ~BlockOk(tpdu, Ifsc)
        /\ ~spoilt => (setup => tpdu.data[1] = Ifsc) /\ Dropped(out, n) = <<>>
    <2> HIDE DEF n, tpdu
    <2> QED BY <1>1, BlockRead DEF TransferInv, n, tpdu
  <1>3. ATP' = ATP
    <2>1. CASE ok /\ setup
      <3>1. tpdu.data[1] = Ifsc
        BY <1>2, <2>1
      <3>2. ATP' = [ATP EXCEPT !.ifsc = ATP.ifsc]
        BY <1>1, <1>2, <2>1, <3>1
      <3>3. ATP \in [bwt : Nat, crc : BOOLEAN, ifsc : Byte]
        BY DEF LinkInv, Contents
      <3> HIDE DEF tpdu, ok
      <3> QED BY <3>2, <3>3
    <2>2. CASE ~(ok /\ setup)
      BY <1>1, <2>2
    <2> QED BY <2>1, <2>2
  <1>4. pc' = "idle" /\ result' # "pending"
    BY <1>1 DEF EndWith, MoveTo
  <1>5. AtpIntact' /\ ATP' \in SentAtps
    BY <1>2, <1>3 DEF AtpIntact, SentAtps
  <1>6. n \in Nat
    <2>1. header[3] \in Byte
      <3>1. header \in [1 .. 3 -> Byte] /\ 3 \in 1 .. 3
        BY <1>1 DEF LinkInv, Contents
      <3> QED BY <3>1
    <2> QED BY <2>1 DEF Byte
  <1>7. LineInv'
    <2>1. CASE ok
      <3>1. ~spoilt
        BY <1>2, <2>1
      <3>2. out' = <<>> /\ offered' = <<>> /\ spoilt' = FALSE
        <4> HIDE DEF n, tpdu, ok
        <4> QED BY <1>1, <1>2, <2>1, <3>1 DEF ReadOut, ShiftOut, Dropped
      <3> QED BY <3>2 DEF LineInv
    <2>2. CASE ~ok
      <3> HIDE DEF n, tpdu, ok
      <3> QED BY <1>1, <1>6, <2>2, AwayKeeps
    <2> QED BY <2>1, <2>2
  <1> QED BY <1>4, <1>5, <1>7, EndKeeps

-----------------------------------------------------------------------------
LEMMA TransferStepInv ==
    ASSUME LinkInv, TransferInv, [Next]_vars
    PROVE  TransferInv'
  <1>1. CASE SwitchMode \/ AttemptFails \/ Open \/ Tick \/ SetClock \/ UNCHANGED vars
    <2>1. /\ UNCHANGED pc /\ UNCHANGED kept /\ UNCHANGED header /\ UNCHANGED result
          /\ UNCHANGED seVars
      BY <1>1 DEF SwitchMode, AttemptFails, Open, Tick, SetClock, vars, kept, seVars
    <2> QED BY <2>1, OthersKeep
  <1>2. CASE Host
    BY <1>1, <1>2, GiveUpKeeps, CutShortKeeps, PwtOverKeeps, ReadAtpLengthKeeps,
       ReadAtpRestKeeps, WriteTpduKeeps, PollKeeps, ReadHeaderKeeps, ReadRestKeeps DEF Host
  <1>3. CASE Call
    BY <1>1, <1>3, BeginSetupKeeps, SetupNoResetKeeps, BeginExchangeKeeps DEF Call
  <1> QED BY <1>1, <1>2, <1>3, SeOffersAtpKeeps, SeAnswersKeeps, SeGoesOnKeeps DEF Next

LEMMA TransferInvAlways == Spec => [](LinkInv /\ TransferInv)
  BY LinkInitInv, LinkStepInv, TransferInitInv, TransferStepInv, PTL DEF Spec

(* Atp_setAtp: whatever is damaged, cut short or not read at all, the ATP  *)
(* in use is the build's or one the SE sent.                               *)
THEOREM AtpIntactHolds == Spec => []AtpIntact
  <1>1. LinkInv /\ TransferInv => AtpIntact
    BY DEF TransferInv, AtpInv
  <1> QED BY <1>1, TransferInvAlways, PTL

-----------------------------------------------------------------------------
(* The steps of a transfer are those of BlockTransfer.                     *)
Sent == pc \in {"poll", "header", "rest"}

(* What the SE does and what is read of it, there. *)
Heeds == UNCHANGED <<Unread, offered, spoilt>>
Given == Transfer!Given
Read  == Transfer!Read
Spoil == Transfer!Spoil

LEMMA AwayRefines ==
    ASSUME LinkInv, TransferInv, NEW n, ReadAway(n)
    PROVE  Heeds \/ (Spoil /\ offered # <<>>)
  <1>1. UNCHANGED <<se, waiting, offered>> /\ spoilt' = (offered # <<>>)
    BY DEF ReadAway, ShiftOut
  <1>2. Unread' = Unread
    BY <1>1 DEF Unread
  <1>3. offered = <<>> => spoilt = FALSE
    BY DEF TransferInv, LineInv, LinkInv, Line
  <1> QED BY <1>1, <1>2, <1>3 DEF Heeds, Spoil, Transfer!Spoil

LEMMA StaysRefines == ASSUME UNCHANGED seVars PROVE Heeds
  <1>1. UNCHANGED <<se, offered>> /\ spoilt' = spoilt /\ waiting' = waiting
    BY DEF seVars
  <1>2. Unread' = Unread
    BY <1>1 DEF Unread
  <1> QED BY <1>1, <1>2 DEF Heeds

LEMMA OnRefines == ASSUME NEW n, ReadOn(n) PROVE Heeds
  <1>1. UNCHANGED <<se, offered>> /\ spoilt' = spoilt /\ waiting' = waiting
    BY DEF ReadOn, ShiftOut
  <1>2. Unread' = Unread
    BY <1>1 DEF Unread
  <1> QED BY <1>1, <1>2 DEF Heeds

LEMMA OutRefines ==
    ASSUME offered # <<>>, se = "quiet", ~spoilt, NEW n, ReadOut(n)
    PROVE  Read
  <1>1. UNCHANGED <<se, waiting>> /\ offered' = <<>> /\ spoilt' = FALSE
    BY DEF ReadOut, ShiftOut
  <1>2. Unread' = Unread - 1
    BY <1>1 DEF Unread
  <1> QED BY <1>1, <1>2 DEF Read, Transfer!Read, Transfer!NothingSaid

LEMMA TakesRefines ==
    ASSUME TransferInv, SeTakesBlock
    PROVE  Given
  <1>1. CASE SeTurnsTo("working")
    <2>1. se' = "working" /\ waiting' = FALSE /\ offered' = <<>> /\ spoilt' = FALSE
      BY <1>1 DEF SeTurnsTo
    <2>2. Unread' = 1
      BY <2>1 DEF Unread
    <2> QED BY <2>1, <2>2 DEF Given, Transfer!Given, Transfer!NothingSaid
  <1>2. CASE /\ se # "quiet" \/ out # <<>>
             /\ waiting' = TRUE /\ UNCHANGED <<se, out, offered, spoilt>>
    <2>1. se # "quiet" \/ offered # <<>>
      BY <1>2 DEF TransferInv, LineInv
    <2>2. Unread > 0 /\ Unread' = 2
      BY <1>2, <2>1 DEF Unread
    <2> QED BY <1>2, <2>2 DEF Given, Transfer!Given
  <1> QED BY <1>1, <1>2 DEF SeTakesBlock

LEMMA FailRefines ==
    ASSUME EndWith("failed"), got' = got, Heeds \/ Given \/ Read \/ Spoil
    PROVE  Transfer!Fail
  <1>1. result' = "failed" /\ pc' = "idle"
    BY DEF EndWith, MoveTo
  <1> QED BY <1>1 DEF Transfer!Fail, Transfer!seVars, Heeds, Given, Read, Spoil

Stutters == UNCHANGED <<result, Sent, Unread, offered, spoilt, got>>

LEMMA GiveUpRefines ==
    ASSUME LinkInv, TransferInv, GiveUp
    PROVE  Transfer!Fail \/ Stutters
  <1>1. got' = got
    BY DEF GiveUp, kept
  <1>2. CASE EndWith("failed") /\ (ReadAway(0) \/ UNCHANGED seVars)
    BY <1>1, <1>2, AwayRefines, StaysRefines, FailRefines
  <1>3. CASE pc = "atpLength" /\ GoTo("atpRest", 0) /\ UNCHANGED seVars
    <2>1. Heeds
      BY <1>3, StaysRefines
    <2> QED BY <1>1, <1>3, <2>1 DEF GoTo, MoveTo, Sent, Stutters, Heeds
  <1> QED BY <1>2, <1>3 DEF GiveUp

LEMMA CutShortRefines ==
    ASSUME LinkInv, TransferInv, CutShort
    PROVE  Transfer!Fail
  <1>1. EndWith("failed") /\ got' = got
    BY DEF CutShort, kept
  <1>2. SeTakesBlock \/ UNCHANGED seVars \/ ReadAway(1)
    BY DEF CutShort
  <1> QED BY <1>1, <1>2, TakesRefines, StaysRefines, AwayRefines, FailRefines

LEMMA NoResetRefines ==
    ASSUME SetupNoReset
    PROVE  Transfer!Fail
  <1>1. pc' = "idle" /\ result' = "failed" /\ got' = got /\ UNCHANGED seVars
    BY DEF SetupNoReset, kept
  <1>2. Heeds
    BY <1>1, StaysRefines
  <1> QED BY <1>1, <1>2 DEF Transfer!Fail, Transfer!seVars, Heeds

LEMMA BeginRefines ==
    ASSUME LinkInv, TransferInv, BeginSetup \/ BeginExchange
    PROVE  Transfer!Begin
  <1>1. result \in Transfer!Outcomes
    BY DEF BeginSetup, BeginExchange, LinkInv, Control, TransferInv, CallInv, Transfer!Outcomes
  <1>2. result' = "pending" /\ got' = <<>> /\ pc' \notin {"poll", "header", "rest"}
    BY DEF BeginSetup, BeginExchange, MoveTo
  <1>3. CASE BeginExchange
    <2>1. Heeds
      BY <1>3, StaysRefines DEF BeginExchange
    <2> QED BY <1>1, <1>2, <2>1 DEF Transfer!Begin, Transfer!seVars, Heeds
  <1>4. CASE BeginSetup
    <2>1. se' = "booting" /\ waiting' = FALSE /\ offered' = <<>> /\ spoilt' = FALSE
      BY <1>4 DEF BeginSetup, SeTurnsTo
    <2>2. Unread' = 1
      BY <2>1 DEF Unread
    <2> QED BY <1>1, <1>2, <2>1, <2>2 DEF Transfer!Begin, Transfer!Reset, Transfer!NothingSaid
  <1> QED BY <1>3, <1>4

LEMMA AtpLengthRefines ==
    ASSUME LinkInv, TransferInv, PwtOver \/ ReadAtpLength
    PROVE  Transfer!Fail \/ Stutters
  <1>1. got' = got
    BY DEF PwtOver, ReadAtpLength, kept
  <1>2. CASE ReadAway(1) /\ EndWith("failed")
    BY <1>1, <1>2, AwayRefines, FailRefines
  <1>3. CASE ReadAtpLength /\ ReadOn(1) /\ GoTo("atpRest", 0)
    <2>1. Heeds
      BY <1>3, OnRefines
    <2> QED BY <1>1, <1>3, <2>1 DEF ReadAtpLength, Ready, GoTo, MoveTo, Sent, Stutters, Heeds
  <1>4. CASE PwtOver
    <2>1. Heeds
      BY <1>4, StaysRefines DEF PwtOver
    <2> QED BY <1>1, <1>4, <2>1 DEF PwtOver, MoveTo, Sent, Stutters, Heeds
  <1> QED BY <1>2, <1>3, <1>4 DEF ReadAtpLength

LEMMA AtpRestRefines ==
    ASSUME LinkInv, TransferInv, ReadAtpRest
    PROVE  Transfer!Greet \/ Transfer!Fail
  <1> DEFINE atp == <<EXPECTED_ATP_LENGTH>> \o Shifted(EXPECTED_ATP_LENGTH)
             ok == AtpOk(atp)
  <1>1. /\ pc = "atpRest" /\ got' = got
        /\ IF ok THEN ReadOut(EXPECTED_ATP_LENGTH) ELSE ReadAway(EXPECTED_ATP_LENGTH)
        /\ (GoTo("write", 0) /\ ok) \/ EndWith("failed")
    BY DEF ReadAtpRest, Ready
  <1>2. CASE ok
    <2>1. offered \in Atps /\ offered # <<>> /\ ~spoilt /\ se = "quiet"
      <3> HIDE DEF atp
      <3>1. atp = <<EXPECTED_ATP_LENGTH>> \o Shifted(EXPECTED_ATP_LENGTH)
        BY DEF atp
      <3> QED BY <1>1, <1>2, <3>1, AtpAccepted
    <2> HIDE DEF ok
    <2>2. Read
      BY <1>1, <1>2, <2>1, OutRefines
    <2>3. CASE EndWith("failed")
      BY <1>1, <2>2, <2>3, FailRefines
    <2>4. CASE GoTo("write", 0)
      <3>1. pc' = "write" /\ result' = result /\ result = "pending"
        BY <1>1, <2>4 DEF GoTo, MoveTo, TransferInv, CallInv
      <3> QED BY <1>1, <2>1, <2>2, <3>1 DEF Transfer!Greet, Read
    <2> QED BY <1>1, <2>3, <2>4
  <1>3. CASE ~ok
    <2> HIDE DEF ok
    <2> QED BY <1>1, <1>3, AwayRefines, FailRefines
  <1> QED BY <1>2, <1>3

LEMMA WriteRefines ==
    ASSUME TransferInv, WriteTpdu
    PROVE  Transfer!Give
  <1>1. pc = "write" /\ pc' = "poll" /\ result' = result /\ got' = got /\ SeTakesBlock
    BY DEF WriteTpdu, Ready, GoTo, MoveTo, kept
  <1> QED BY <1>1, TakesRefines DEF TransferInv, CallInv, Transfer!Give, Given

LEMMA OffersRefines ==
    ASSUME TransferInv, SeOffersAtp \/ SeAnswers
    PROVE  Transfer!SeAnswers
  <1>1. PICK answers : answers \subseteq Said /\ Offers(answers) /\ se # "quiet"
    BY DEF SeOffersAtp, SeAnswers, Said, Answers
  <1>2. /\ pc' = pc /\ result' = result /\ got' = got /\ offered = <<>>
        /\ se' = "quiet" /\ waiting' = waiting
    BY <1>1 DEF Offers, kept, TransferInv, LineInv
  <1>3. offered' \in Said /\ spoilt' \in BOOLEAN
    BY <1>1 DEF Offers
  <1>4. offered' # <<>>
    BY <1>3, Beginnings DEF Said
  <1>5. Unread' = Unread /\ Unread > 0
    BY <1>1, <1>2, <1>4 DEF Unread
  <1> QED BY <1>2, <1>3, <1>5 DEF Transfer!SeAnswers, Said

LEMMA GoesOnRefines ==
    ASSUME LinkInv, TransferInv, SeGoesOn
    PROVE  Transfer!SeGoesOn \/ Stutters
  <1>1. /\ pc' = pc /\ result' = result /\ got' = got
        /\ pc \notin {"header", "rest"} /\ waiting /\ se = "quiet" /\ out = <<>>
        /\ se' = "working" /\ waiting' = FALSE /\ offered' = <<>> /\ spoilt' = FALSE
    BY DEF SeGoesOn, kept, SeTurnsTo
  <1>2. Unread' = 1
    BY <1>1 DEF Unread
  <1>3. CASE offered = <<>>
    <2>1. Unread = 1 /\ spoilt = FALSE
      BY <1>1, <1>3 DEF Unread, TransferInv, LineInv, LinkInv, Line
    <2> QED BY <1>1, <1>2, <1>3, <2>1 DEF Stutters, Sent
  <1>4. CASE offered # <<>>
    <2>1. Unread = 2
      BY <1>1, <1>4 DEF Unread
    <2>2. pc # "atpRest"
      BY <1>1 DEF TransferInv, CallInv, AtpInv
    <2>3. spoilt
      BY <1>1, <1>4, <2>2 DEF TransferInv, LineInv, Heard
    <2> QED BY <1>1, <1>2, <2>1, <2>3 DEF Transfer!SeGoesOn, Transfer!NothingSaid
  <1> QED BY <1>3, <1>4

LEMMA PollRefines ==
    ASSUME LinkInv, TransferInv, Poll
    PROVE  Transfer!Skip \/ Transfer!TimeOut \/ Stutters
  <1>1. pc = "poll" /\ got' = got /\ result = "pending"
    BY DEF Poll, Ready, kept, TransferInv, CallInv
  <1>2. CASE ReadOn(1) /\ GoTo("header", 0)
    <2>1. Heeds
      BY <1>2, OnRefines
    <2> QED BY <1>1, <1>2, <2>1 DEF GoTo, MoveTo, Sent, Stutters, Heeds
  <1>3. CASE ~StartOfFrame(Shifted(1)[1]) /\ ReadAway(1)
    <2>1. Heeds \/ (Spoil /\ offered # <<>>)
      BY <1>3, AwayRefines
    <2>2. Heeds \/ (offered \in Atps /\ Spoil)
      <3> SUFFICES ASSUME ~Heeds, offered \notin Atps PROVE FALSE
        BY <2>1
      <3>1. offered # <<>> /\ offered \in Answers
        BY <2>1 DEF TransferInv, LineInv
      <3>2. ~spoilt
        <4>1. UNCHANGED <<se, waiting, offered>> /\ spoilt' = (offered # <<>>)
          BY <1>3 DEF ReadAway, ShiftOut
        <4>2. Unread' = Unread
          BY <4>1 DEF Unread
        <4> QED BY <3>1, <4>1, <4>2 DEF Heeds, LinkInv, Line
      <3>3. out = offered
        BY <1>1, <3>1, <3>2 DEF TransferInv, LineInv, Heard
      <3>4. Len(out) >= 1 /\ out[1] = NAD_SLAVE_TO_HOST
        BY <3>1, <3>3, Beginnings DEF StartsFrame
      <3>5. Shifted(1)[1] = out[1]
        BY <3>4 DEF Shifted
      <3> QED BY <1>3, <3>4, <3>5 DEF StartOfFrame
    <2>3. CASE EndWith("timeout")
      <3>1. pc' = "idle" /\ result' = "timeout"
        BY <2>3 DEF EndWith, MoveTo
      <3> QED BY <1>1, <2>2, <3>1
          DEF Transfer!TimeOut, Transfer!EndTransfer, Transfer!seVars, Heeds, Spoil
    <2>4. CASE GoTo("poll", PollInterval)
      <3>1. pc' = "poll" /\ result' = result
        BY <2>4 DEF GoTo, MoveTo
      <3> QED BY <1>1, <2>2, <3>1 DEF Transfer!Skip, Sent, Stutters, Heeds, Spoil
    <2> QED BY <1>3, <2>3, <2>4 DEF Poll
  <1> QED BY <1>2, <1>3 DEF Poll

LEMMA HeaderRefines == ASSUME ReadHeader PROVE Stutters
  <1>1. pc = "header" /\ pc' = "rest" /\ result' = result /\ got' = got /\ ReadOn(2)
    BY DEF ReadHeader, Ready, MoveTo, kept
  <1> QED BY <1>1, OnRefines DEF Sent, Stutters, Heeds

LEMMA RestRefines ==
    ASSUME LinkInv, TransferInv, ReadRest
    PROVE  Transfer!Deliver \/ Transfer!Refuse
  <1> DEFINE n == header[3] + 2
             tpdu == FromBytes(header, Shifted(n))
             ok == BlockOk(tpdu, ATP.ifsc)
                     /\ (setup => tpdu.pcb = ResponseTo(SBLOCK_IFS_REQUEST))
  <1>1. /\ pc = "rest"
        /\ IF ok THEN ReadOut(n) ELSE ReadAway(n)
        /\ EndWith(IF ok THEN "delivered" ELSE "refused")
        /\ got' = IF ok THEN header \o Shifted(n) ELSE <<>>
    BY DEF ReadRest, Ready
  <1>2. /\ ATP.ifsc = Ifsc /\ offered # <<>>
        /\ spoilt => ~BlockOk(tpdu, Ifsc)
        /\ ~spoilt => /\ BlockOk(tpdu, Ifsc)
                      /\ offered \in Answers
                      /\ header \o Shifted(n) = offered
                      /\ setup => tpdu.pcb = ResponseTo(SBLOCK_IFS_REQUEST)
    <2> HIDE DEF n, tpdu
    <2> QED BY <1>1, BlockRead DEF TransferInv, n, tpdu
  <1>3. result = "pending" /\ got = <<>> /\ se = "quiet"
    BY <1>1, <1>2 DEF TransferInv, CallInv, LineInv
  <1>4. pc' = "idle" /\ result' = IF ok THEN "delivered" ELSE "refused"
    BY <1>1 DEF EndWith, MoveTo
  <1>5. CASE spoilt
    <2>1. ~ok
      BY <1>2, <1>5
    <2> HIDE DEF ok, n
    <2>2. UNCHANGED <<se, waiting, offered>> /\ spoilt' = TRUE
      BY <1>1, <1>2, <2>1 DEF ReadAway, ShiftOut
    <2>3. Unread' = Unread
      BY <2>2 DEF Unread
    <2>4. spoilt' = spoilt
      BY <1>5, <2>2 DEF LinkInv, Line
    <2> QED BY <1>1, <1>3, <1>4, <1>5, <2>1, <2>2, <2>3, <2>4
        DEF Transfer!Refuse, Transfer!EndTransfer, Transfer!seVars
  <1>6. CASE ~spoilt
    <2>1. ok /\ header \o Shifted(n) = offered /\ offered \in Answers
      BY <1>2, <1>6
    <2> HIDE DEF ok, n
    <2>2. Read
      BY <1>1, <1>2, <1>3, <1>6, <2>1, OutRefines
    <2> QED BY <1>1, <1>3, <1>4, <2>1, <2>2
        DEF Transfer!Deliver, Transfer!EndTransfer, Read
  <1> QED BY <1>5, <1>6

LEMMA StepRefines ==
    ASSUME LinkInv, TransferInv, [Next]_vars
    PROVE  Transfer!TransferNext \/ Stutters
  <1>1. CASE SwitchMode \/ AttemptFails \/ Open \/ Tick \/ SetClock \/ UNCHANGED vars
    <2>1. pc' = pc /\ result' = result /\ got' = got /\ UNCHANGED seVars
      BY <1>1 DEF SwitchMode, AttemptFails, Open, Tick, SetClock, vars, kept, seVars
    <2> QED BY <2>1, StaysRefines DEF Sent, Stutters, Heeds
  <1>2. CASE Host
    BY <1>1, <1>2, GiveUpRefines, CutShortRefines, AtpLengthRefines, AtpRestRefines,
       WriteRefines, PollRefines, HeaderRefines, RestRefines DEF Host, Transfer!TransferNext
  <1>3. CASE Call
    BY <1>1, <1>3, NoResetRefines, BeginRefines DEF Call, Transfer!TransferNext
  <1>4. CASE SeOffersAtp \/ SeAnswers \/ SeGoesOn
    BY <1>4, OffersRefines, GoesOnRefines DEF Transfer!TransferNext
  <1> QED BY <1>1, <1>2, <1>3, <1>4 DEF Next

(* SpiLayerInterface_transcieveTpdu returns an intact answer of the SE,    *)
(* each at most once, and one that is not to the block it has written only *)
(* when an earlier call ended without its own; it refuses only what was    *)
(* damaged or lost in part, and otherwise times out or fails.              *)
THEOREM ImplementsTransferHolds == Spec => ImplementsTransfer
  <1>1. Init => Transfer!TransferInit
    BY DEF Init, Transfer!TransferInit, Unread
  <1>2. LinkInv /\ TransferInv /\ [Next]_vars => [Transfer!TransferNext]_(Transfer!transferVars)
    BY StepRefines DEF Stutters, Sent, Transfer!transferVars, Transfer!seVars
  <1> QED
    BY <1>1, <1>2, TransferInvAlways, PTL DEF Spec, ImplementsTransfer, Transfer!TransferSpec
=============================================================================
