--------------------------- MODULE ApduDataProofs ---------------------------
(***************************************************************************)
(* Theorems of ApduData, for commands, blocks and lists of any length: the *)
(* types, that the parts a command is cut into make the command again, and *)
(* that the length kept beside the list is the length of the list.         *)
(*                                                                         *)
(* What LengthOf, a recursive function, returns is proved by the           *)
(* inductions of Loops.                                                    *)
(***************************************************************************)
EXTENDS ApduData, Loops

Part == [from : Nat, len : Nat, more : BOOLEAN]

(* What is left to send is what the parts so far have not covered, and it  *)
(* is never nothing.                                                       *)
LeftToSend ==
    step = "parts" =>
      /\ pCmdlen >= 1 /\ CmdPart + pCmdlen = length
      /\ CmdPart = IF parts = <<>> THEN 0 ELSE Ends(parts[Len(parts)])

DataInv == DataTypeOK /\ PartsMakeCommand /\ LeftToSend

LEMMA DataInitInv == DataInit => DataInv
  BY DataAssumption
  DEF DataInit, DataInv, DataTypeOK, PartsMakeCommand, LeftToSend, NoResponse, Part

(* A step that leaves the command alone, and does not begin one.           *)
LEMMA CommandKept ==
    ASSUME PartsMakeCommand, LeftToSend, UNCHANGED command,
           step' # "parts" \/ UNCHANGED step,
           step' \in {"answer", "data"} => step \in {"answer", "data"}
    PROVE  PartsMakeCommand' /\ LeftToSend'
  BY DEF command, PartsMakeCommand, LeftToSend, Ends

(* One more part: it begins where the last one ended, it is chained when   *)
(* something is left after it.                                             *)
LEMMA PartFits ==
    ASSUME DataInv, step = "parts", NEW len \in Nat, Exchange(len),
           len >= 1, IsChained <=> CmdPart + len < length, UNCHANGED length
    PROVE  /\ parts' \in Seq(Part) /\ parts' # <<>>
           /\ parts'[Len(parts')] = [from |-> CmdPart, len |-> len, more |-> IsChained]
           /\ \A i \in DOMAIN parts' :
                 /\ parts'[i].from = (IF i = 1 THEN 0 ELSE Ends(parts'[i - 1]))
                 /\ parts'[i].len \in 1 .. MaxData
                 /\ parts'[i].more = (Ends(parts'[i]) < length)
  <1> DEFINE new == [from |-> CmdPart, len |-> len, more |-> IsChained]
  <1>1. /\ parts \in Seq(Part) /\ CmdPart \in Nat /\ length \in Nat
        /\ CmdPart = IF parts = <<>> THEN 0 ELSE Ends(parts[Len(parts)])
        /\ len <= MaxData /\ parts' = Append(parts, new)
    BY DEF DataInv, DataTypeOK, LeftToSend, Exchange, Part
  <1>2. IsChained \in BOOLEAN /\ new \in Part
    BY <1>1 DEF IsChained, Part
  <1>3. /\ parts' \in Seq(Part) /\ Len(parts') = Len(parts) + 1
        /\ parts'[Len(parts')] = new /\ DOMAIN parts' = 1 .. Len(parts) + 1
        /\ \A i \in 1 .. Len(parts) : parts'[i] = parts[i]
    <2> HIDE DEF new
    <2> QED BY <1>1, <1>2
  <1>4. \A i \in 1 .. Len(parts) : i \in DOMAIN parts
    BY <1>1
  <1>5. ASSUME NEW i \in 1 .. Len(parts)
        PROVE  /\ parts'[i].from = (IF i = 1 THEN 0 ELSE Ends(parts'[i - 1]))
               /\ parts'[i].len \in 1 .. MaxData
               /\ parts'[i].more = (Ends(parts'[i]) < length)
    <2>1. /\ parts[i].from = (IF i = 1 THEN 0 ELSE Ends(parts[i - 1]))
          /\ parts[i].len \in 1 .. MaxData
          /\ parts[i].more = (Ends(parts[i]) < length)
      BY <1>4 DEF DataInv, PartsMakeCommand
    <2>2. parts'[i] = parts[i] /\ (i # 1 => i - 1 \in 1 .. Len(parts))
      BY <1>1, <1>3
    <2>3. i # 1 => parts'[i - 1] = parts[i - 1]
      BY <1>3, <2>2
    <2> QED BY <2>1, <2>2, <2>3 DEF Ends
  <1>6. ASSUME NEW i, i = Len(parts) + 1
        PROVE  /\ parts'[i].from = (IF i = 1 THEN 0 ELSE Ends(parts'[i - 1]))
               /\ parts'[i].len \in 1 .. MaxData
               /\ parts'[i].more = (Ends(parts'[i]) < length)
    <2>1. parts'[i] = new
      BY <1>3, <1>6
    <2>2. i = 1 <=> parts = <<>>
      BY <1>1, <1>6
    <2>3. parts # <<>> => parts'[i - 1] = parts[Len(parts)]
      BY <1>1, <1>3, <1>6
    <2>4. new.from = (IF i = 1 THEN 0 ELSE Ends(parts'[i - 1]))
      BY <1>1, <2>2, <2>3
    <2>5. new.len \in 1 .. MaxData
      BY <1>1, DataAssumption
    <2>6. new.more = (Ends(new) < length)
      BY <1>2 DEF Ends
    <2> QED BY <2>1, <2>4, <2>5, <2>6
  <1>7. \A i \in DOMAIN parts' : i \in 1 .. Len(parts) \/ i = Len(parts) + 1
    BY <1>1, <1>3
  <1>8. parts' # <<>>
    BY <1>1, <1>3
  <1> QED BY <1>3, <1>5, <1>6, <1>7, <1>8

LEMMA SendPartInv ==
    ASSUME DataInv, SendPart
    PROVE  DataInv'
  <1>1. /\ step = "parts" /\ IsChained /\ Exchange(ifsc)
        /\ pCmdlen' = pCmdlen - ifsc /\ CmdPart' = CmdPart + ifsc
        /\ UNCHANGED <<step, ifsc, length, head, total_len, response>>
    BY DEF SendPart
  <1>2. /\ ifsc \in Nat /\ ifsc >= 1 /\ CmdPart \in Nat /\ pCmdlen \in Nat
        /\ CmdPart + pCmdlen = length /\ pCmdlen > ifsc
    BY <1>1, DataAssumption DEF DataInv, DataTypeOK, LeftToSend, IsChained
  <1>3. IsChained <=> CmdPart + ifsc < length
    BY <1>1, <1>2
  <1>4. /\ parts' \in Seq(Part) /\ parts' # <<>>
        /\ parts'[Len(parts')] = [from |-> CmdPart, len |-> ifsc, more |-> IsChained]
        /\ \A i \in DOMAIN parts' :
              /\ parts'[i].from = (IF i = 1 THEN 0 ELSE Ends(parts'[i - 1]))
              /\ parts'[i].len \in 1 .. MaxData
              /\ parts'[i].more = (Ends(parts'[i]) < length)
    BY <1>1, <1>2, <1>3, PartFits
  <1>5. DataTypeOK'
    <2>1. pCmdlen' \in Nat /\ CmdPart' \in Nat
      BY <1>1, <1>2
    <2>2. /\ step \in {"idle", "parts", "answer", "data"} /\ ifsc \in Ifscs
          /\ length \in Nat /\ head \in Seq(Nat) /\ total_len \in 0 .. Width - 1
          /\ response \in [status : {"SUCCESS", "FAILED"}, len : Nat, fragments : Seq(Nat)]
      BY DEF DataInv, DataTypeOK
    <2> QED BY <1>1, <1>4, <2>1, <2>2 DEF DataTypeOK, Part
  <1>6. LeftToSend'
    BY <1>1, <1>2, <1>4 DEF LeftToSend, Ends
  <1>7. PartsMakeCommand'
    BY <1>1, <1>4 DEF PartsMakeCommand, Ends
  <1> QED BY <1>5, <1>6, <1>7 DEF DataInv

LEMMA SendLastPartInv ==
    ASSUME DataInv, SendLastPart
    PROVE  DataInv'
  <1>1. /\ step = "parts" /\ ~IsChained /\ Exchange(pCmdlen) /\ step' = "answer"
        /\ UNCHANGED <<ifsc, length, pCmdlen, CmdPart, head, total_len, response>>
    BY DEF SendLastPart
  <1>2. /\ CmdPart \in Nat /\ pCmdlen \in Nat /\ pCmdlen >= 1 /\ length \in Nat
        /\ CmdPart + pCmdlen = length
    BY <1>1 DEF DataInv, DataTypeOK, LeftToSend
  <1>3. IsChained <=> CmdPart + pCmdlen < length
    BY <1>1, <1>2
  <1>4. /\ parts' \in Seq(Part) /\ parts' # <<>>
        /\ parts'[Len(parts')] = [from |-> CmdPart, len |-> pCmdlen, more |-> IsChained]
        /\ \A i \in DOMAIN parts' :
              /\ parts'[i].from = (IF i = 1 THEN 0 ELSE Ends(parts'[i - 1]))
              /\ parts'[i].len \in 1 .. MaxData
              /\ parts'[i].more = (Ends(parts'[i]) < length)
    BY <1>1, <1>2, <1>3, PartFits
  <1>5. DataTypeOK'
    BY <1>1, <1>2, <1>4 DEF DataInv, DataTypeOK, Part
  <1>6. Ends(parts'[Len(parts')]) = length
    BY <1>2, <1>4 DEF Ends
  <1>7. PartsMakeCommand' /\ LeftToSend'
    BY <1>1, <1>4, <1>6 DEF PartsMakeCommand, LeftToSend, Ends
  <1> QED BY <1>5, <1>7 DEF DataInv

(* The list: a fragment is added, or all are returned and deleted.         *)
LEMMA ListSteps ==
    ASSUME DataInv, ReceiveFragment \/ GetData
    PROVE  DataInv'
  <1>1. /\ UNCHANGED <<ifsc, length, pCmdlen, CmdPart, parts>> /\ UNCHANGED command
        /\ step \in {"answer", "data"} /\ step' \in {"answer", "data", "idle"}
    BY DEF ReceiveFragment, GetData, command
  <1>2. PartsMakeCommand' /\ LeftToSend'
    BY <1>1, CommandKept DEF DataInv
  <1>3. CASE ReceiveFragment
    <2>1. PICK len \in 0 .. ifsc : Store(len)
      BY <1>3 DEF ReceiveFragment
    <2>2. len \in Nat /\ total_len \in Nat /\ Width \in Nat /\ Width > 0
      BY DataAssumption DEF DataInv, DataTypeOK
    <2>3. total_len' \in 0 .. Width - 1
      <3>1. total_len + len \in Nat
        BY <2>2
      <3>2. \A n \in Nat : n % Width \in 0 .. Width - 1
        BY <2>2
      <3> QED BY <2>1, <3>1, <3>2 DEF Store
    <2>4. head' \in Seq(Nat)
      BY <2>1, <2>2 DEF DataInv, DataTypeOK, Store
    <2> QED BY <1>1, <1>2, <1>3, <2>3, <2>4 DEF DataInv, DataTypeOK, ReceiveFragment
  <1>4. CASE GetData
    <2>1. Copied = total_len /\ head' = <<>> /\ total_len' = 0 /\ step' = "idle"
      BY <1>4 DEF GetData, CanGetData, DeleteList
    <2>2. response' = [status |-> "SUCCESS", len |-> total_len, fragments |-> head]
      BY <1>4, <2>1 DEF GetData
    <2>3. /\ total_len \in Nat /\ head \in Seq(Nat) /\ 0 \in 0 .. Width - 1
          /\ head' \in Seq(Nat)
      BY <2>1, DataAssumption DEF DataInv, DataTypeOK
    <2>4. DataTypeOK'
      BY <1>1, <2>1, <2>2, <2>3 DEF DataInv, DataTypeOK
    <2> QED BY <1>2, <2>4 DEF DataInv
  <1> QED BY <1>3, <1>4

(* Every step keeps the invariant. *)
LEMMA DataStepInv ==
    ASSUME DataInv, [DataNext]_dataVars
    PROVE  DataInv'
  <1>1. CASE UNCHANGED dataVars
    <2>1. UNCHANGED command /\ UNCHANGED step
      BY <1>1 DEF dataVars
    <2>2. DataTypeOK'
      BY <1>1 DEF DataInv, DataTypeOK, dataVars, command
    <2> QED BY <2>1, <2>2, CommandKept DEF DataInv
  <1>2. CASE NewAtp \/ CallFails \/ GetDataFails
    <2>1. /\ UNCHANGED command /\ UNCHANGED <<head, total_len, response>>
          /\ UNCHANGED <<length, pCmdlen, CmdPart, parts>>
          /\ ifsc' \in Ifscs /\ step' = "idle"
      BY <1>2 DEF NewAtp, CallFails, GetDataFails, DataInv, DataTypeOK, command
    <2>2. DataTypeOK'
      BY <2>1 DEF DataInv, DataTypeOK
    <2> QED BY <2>1, <2>2, CommandKept DEF DataInv
  <1>3. CASE Transceive
    <2>1. /\ length' \in 1 .. MaxLength /\ pCmdlen' = length' /\ CmdPart' = 0
          /\ parts' = <<>> /\ step' = "parts" /\ response' = NoResponse
          /\ UNCHANGED <<ifsc, head, total_len>>
      BY <1>3 DEF Transceive
    <2>2. DataTypeOK'
      BY <2>1, DataAssumption DEF DataInv, DataTypeOK, NoResponse
    <2>3. PartsMakeCommand'
      <3>1. DOMAIN parts' = {} /\ step' \notin {"answer", "data"}
        BY <2>1
      <3> QED BY <3>1 DEF PartsMakeCommand
    <2>4. LeftToSend'
      <3>1. length' \in Nat /\ length' >= 1
        BY <2>1, DataAssumption
      <3>2. pCmdlen' >= 1 /\ CmdPart' + pCmdlen' = length'
        <4>1. pCmdlen' = length' /\ CmdPart' = 0
          BY <2>1
        <4>2. \A n \in Nat : 0 + n = n
          OBVIOUS
        <4> QED BY <3>1, <4>1, <4>2
      <3>3. CmdPart' = IF parts' = <<>> THEN 0 ELSE Ends(parts'[Len(parts')])
        BY <2>1
      <3> QED BY <3>2, <3>3 DEF LeftToSend, Ends
    <2> QED BY <2>2, <2>3, <2>4 DEF DataInv
  <1>4. CASE SendPart
    BY <1>4, SendPartInv
  <1>5. CASE SendLastPart
    BY <1>5, SendLastPartInv
  <1>6. CASE ReceiveFragment \/ GetData
    BY <1>6, ListSteps
  <1> QED BY <1>1, <1>2, <1>3, <1>4, <1>5, <1>6 DEF DataNext

-----------------------------------------------------------------------------
(* The types: the length beside the list stays in its 16 bits. *)
THEOREM DataTypeCorrect == DataSpec => []DataTypeOK
  <1>1. DataInv => DataTypeOK
    BY DEF DataInv
  <1> QED BY <1>1, DataInitInv, DataStepInv, PTL DEF DataSpec

(* StEse_Transceive cuts a command of any length for blocks of any size    *)
(* into parts that make the command again, with the right chaining bits.   *)
THEOREM PartsMakeCommandHolds == DataSpec => []PartsMakeCommand
  <1>1. DataInv => PartsMakeCommand
    BY DEF DataInv
  <1> QED BY <1>1, DataInitInv, DataStepInv, PTL DEF DataSpec

-----------------------------------------------------------------------------
(* Division with a remainder, and what the remainder of a sum is: a        *)
(* counter of limited width may wrap at every step or once at the end.     *)
LEMMA Quotient ==
    ASSUME NEW w \in Nat \ {0}, NEW a \in Nat
    PROVE  \E q \in Nat, r \in 0 .. w - 1 : a = w * q + r
  <1> DEFINE Odd == {n \in Nat : \A q \in Nat, r \in 0 .. w - 1 : n # w * q + r}
  <1> SUFFICES ASSUME a \in Odd PROVE FALSE
    OBVIOUS
  <1>1. PICK n \in Odd : \A m \in Odd : n <= m
    <2>1. Odd \in SUBSET Nat /\ Odd # {}
      OBVIOUS
    <2> HIDE DEF Odd
    <2> QED BY <2>1, NatMin
  <1>2. CASE n < w
    <2>1. n = w * 0 + n /\ n \in 0 .. w - 1
      BY <1>2
    <2> QED BY <2>1
  <1>3. CASE n >= w
    <2>1. n - w \in Nat /\ ~(n <= n - w)
      BY <1>3
    <2>2. n - w \notin Odd
      BY <1>1, <2>1
    <2>3. PICK q \in Nat, r \in 0 .. w - 1 : n - w = w * q + r
      BY <2>1, <2>2
    <2>4. w * (q + 1) = w * q + w /\ w * q \in Int
      OBVIOUS
    <2>5. n = w * (q + 1) + r
      BY <2>3, <2>4
    <2>6. q + 1 \in Nat
      OBVIOUS
    <2> QED BY <2>5, <2>6
  <1> QED BY <1>2, <1>3

LEMMA Remainder ==
    ASSUME NEW w \in Nat \ {0}, NEW q \in Nat, NEW r \in 0 .. w - 1
    PROVE  (w * q + r) % w = r
  OBVIOUS

LEMMA ModAdd ==
    ASSUME NEW w \in Nat \ {0}, NEW a \in Nat, NEW x \in Nat
    PROVE  ((a % w) + x) % w = (a + x) % w
  <1>1. PICK q \in Nat, r \in 0 .. w - 1 : a = w * q + r
    BY Quotient
  <1>2. a % w = r
    BY <1>1, Remainder
  <1>3. r + x \in Nat
    OBVIOUS
  <1>4. PICK p \in Nat, s \in 0 .. w - 1 : r + x = w * p + s
    BY <1>3, Quotient
  <1>5. (r + x) % w = s
    BY <1>4, Remainder
  <1>6. a + x = w * (q + p) + s
    <2>1. w * (q + p) = w * q + w * p
      OBVIOUS
    <2>2. w * q \in Int /\ w * p \in Int
      OBVIOUS
    <2> QED BY <1>1, <1>4, <2>1, <2>2
  <1>7. (a + x) % w = s
    BY <1>6, Remainder, q + p \in Nat
  <1> QED BY <1>2, <1>5, <1>7

(* The sums f[i] of the first i lengths of a list, up to n.                *)
SumsOf(f, list, n) ==
    /\ f \in [0 .. n -> Nat] /\ f[0] = 0
    /\ \A i \in 1 .. n : f[i] = f[i - 1] + list[i]

(* There are such sums, and they are determined by the list.               *)
LEMMA SumsExist ==
    ASSUME NEW list \in Seq(Nat), NEW k \in 0 .. Len(list)
    PROVE  \E f : SumsOf(f, list, k)
  <1> DEFINE adds == [i \in 1 .. k |-> [x \in Nat |-> x + list[i]]]
  <1>1. k \in Nat /\ \A i \in 1 .. k : list[i] \in Nat
    OBVIOUS
  <1>2. adds \in [1 .. k -> [Nat -> Nat]]
    BY <1>1
  <1>3. \A i \in 1 .. k : \A x \in Nat : adds[i][x] = x + list[i]
    OBVIOUS
  <1> HIDE DEF adds
  <1>4. PICK f : Loop(f, Nat, k, 0, adds)
    BY <1>1, <1>2, LoopRuns
  <1>5. f \in [0 .. k -> Nat] /\ f[0] = 0 /\ \A i \in 1 .. k : f[i] = adds[i][f[i - 1]]
    BY <1>4 DEF Loop
  <1>6. ASSUME NEW i \in 1 .. k PROVE f[i] = f[i - 1] + list[i]
    <2>1. i - 1 \in 0 .. k
      BY <1>1
    <2>2. f[i - 1] \in Nat
      BY <1>5, <2>1
    <2> QED BY <1>3, <1>5, <2>2
  <1>7. SumsOf(f, list, k)
    BY <1>5, <1>6 DEF SumsOf
  <1> QED BY <1>7

LEMMA SumsAgree ==
    ASSUME NEW n \in Nat, NEW k \in 0 .. n, NEW a, NEW b, NEW f, NEW g,
           SumsOf(f, a, n), \A i \in 1 .. k : a[i] = b[i],
           g[0] = 0, \A i \in 1 .. k : g[i] = g[i - 1] + b[i]
    PROVE  f[k] = g[k]
  <1> DEFINE Bad == {i \in 0 .. k : f[i] # g[i]}
  <1> SUFFICES ASSUME k \in Bad PROVE FALSE
    OBVIOUS
  <1>1. PICK m \in Bad : \A j \in Bad : m <= j
    <2>1. Bad \in SUBSET Nat /\ Bad # {}
      OBVIOUS
    <2> HIDE DEF Bad
    <2> QED BY <2>1, NatMin
  <1>2. m # 0
    BY DEF SumsOf
  <1>3. m \in 1 .. k /\ m \in 1 .. n /\ m - 1 \in 0 .. k /\ ~(m <= m - 1)
    BY <1>2
  <1>4. f[m - 1] = g[m - 1]
    BY <1>1, <1>3
  <1>5. f[m] = f[m - 1] + a[m] /\ g[m] = g[m - 1] + b[m] /\ a[m] = b[m]
    BY <1>3 DEF SumsOf
  <1> QED BY <1>4, <1>5

(* LengthOf chooses its sums; these are they.                              *)
LEMMA LengthOfSums ==
    ASSUME NEW list \in Seq(Nat), NEW f, SumsOf(f, list, Len(list))
    PROVE  LengthOf(list) = f[Len(list)] /\ LengthOf(list) \in Nat
  <1> DEFINE Eq(s) == s = [i \in 0 .. Len(list) |->
                              IF i = 0 THEN 0 ELSE s[i - 1] + list[i]]
             sum == CHOOSE s : Eq(s)
  <1>0. Len(list) \in Nat
    OBVIOUS
  <1>1. Eq(f)
    <2>1. /\ f \in [0 .. Len(list) -> Nat] /\ f[0] = 0
          /\ \A i \in 1 .. Len(list) : f[i] = f[i - 1] + list[i]
      BY DEF SumsOf
    <2>2. \A i \in 0 .. Len(list) : f[i] = IF i = 0 THEN 0 ELSE f[i - 1] + list[i]
      BY <1>0, <2>1
    <2> QED BY <2>1, <2>2
  <1>2. Eq(sum)
    <2> HIDE DEF Eq
    <2> QED BY <1>1
  <1>3. LengthOf(list) = sum[Len(list)]
    BY DEF LengthOf
  <1>4. sum[0] = 0 /\ \A i \in 1 .. Len(list) : sum[i] = sum[i - 1] + list[i]
    <2> HIDE DEF sum
    <2> QED BY <1>0, <1>2
  <1>5. f[Len(list)] = sum[Len(list)]
    <2> HIDE DEF sum
    <2>1. Len(list) \in 0 .. Len(list)
      BY <1>0
    <2> QED BY <1>0, <1>4, <2>1, SumsAgree
  <1>6. f[Len(list)] \in Nat
    BY <1>0 DEF SumsOf
  <1> QED BY <1>3, <1>5, <1>6

(* What DataMgmt.cc needs of the length of a list.                         *)
LEMMA LengthOfEmpty == LengthOf(<<>>) = 0
  <1>1. <<>> \in Seq(Nat) /\ Len(<<>>) = 0 /\ 0 \in 0 .. Len(<<>>)
    OBVIOUS
  <1>2. PICK f : SumsOf(f, <<>>, Len(<<>>))
    BY <1>1, SumsExist
  <1> QED BY <1>1, <1>2, LengthOfSums DEF SumsOf

LEMMA LengthOfAppend ==
    ASSUME NEW list \in Seq(Nat), NEW x \in Nat
    PROVE  /\ LengthOf(list) \in Nat
           /\ LengthOf(Append(list, x)) = LengthOf(list) + x
  <1> DEFINE longer == Append(list, x)
             n == Len(list)
  <1>1. /\ n \in Nat /\ longer \in Seq(Nat) /\ Len(longer) = n + 1
        /\ longer[n + 1] = x /\ \A i \in 1 .. n : longer[i] = list[i]
    OBVIOUS
  <1> HIDE DEF longer, n
  <1>2. PICK f : SumsOf(f, list, n)
    BY <1>1, SumsExist DEF n
  <1>3. PICK g : SumsOf(g, longer, n + 1)
    BY <1>1, SumsExist
  <1>4. LengthOf(list) = f[n] /\ LengthOf(list) \in Nat
    BY <1>2, LengthOfSums DEF n
  <1>5. LengthOf(longer) = g[n + 1]
    BY <1>1, <1>3, LengthOfSums
  <1>6. f[n] = g[n]
    <2>1. n \in 0 .. n /\ \A i \in 1 .. n : i \in 1 .. n + 1
      BY <1>1
    <2>2. g[0] = 0 /\ \A i \in 1 .. n : g[i] = g[i - 1] + longer[i]
      BY <1>3, <2>1 DEF SumsOf
    <2> QED BY <1>1, <1>2, <2>1, <2>2, SumsAgree
  <1>7. g[n + 1] = g[n] + x
    <2>1. n + 1 \in 1 .. n + 1 /\ (n + 1) - 1 = n
      BY <1>1
    <2> QED BY <1>1, <1>3, <2>1 DEF SumsOf
  <1> QED BY <1>4, <1>5, <1>6, <1>7 DEF longer

-----------------------------------------------------------------------------
(* The length beside the list is that of the list, in its 16 bits; the     *)
(* call that succeeds has stored a fragment; and what it returned has the  *)
(* length it says.                                                         *)
TotalMatches ==
    /\ total_len = LengthOf(head) % Width
    /\ step = "data" => head # <<>>
    /\ response.status = "SUCCESS" =>
         response.len = LengthOf(response.fragments) % Width

ListInv == DataInv /\ TotalMatches

LEMMA ListInitInv == DataInit => ListInv
  <1> SUFFICES ASSUME DataInit PROVE TotalMatches
    BY DataInitInv DEF ListInv
  <1>1. 0 % Width = 0
    BY DataAssumption
  <1> QED BY <1>1, LengthOfEmpty DEF DataInit, TotalMatches, NoResponse

LEMMA StoreMatches ==
    ASSUME ListInv, ReceiveFragment
    PROVE  TotalMatches'
  <1>1. PICK len \in 0 .. ifsc : Store(len)
    BY DEF ReceiveFragment
  <1>2. /\ len \in Nat /\ head \in Seq(Nat) /\ Width \in Nat \ {0}
        /\ total_len = LengthOf(head) % Width
    BY DataAssumption DEF ListInv, TotalMatches, DataInv, DataTypeOK
  <1>3. /\ LengthOf(head) \in Nat
        /\ LengthOf(Append(head, len)) = LengthOf(head) + len
    BY <1>2, LengthOfAppend
  <1>4. total_len' = LengthOf(head') % Width
    <2>1. head' = Append(head, len) /\ total_len' = (total_len + len) % Width
      BY <1>1 DEF Store
    <2>2. ((LengthOf(head) % Width) + len) % Width = (LengthOf(head) + len) % Width
      BY <1>2, <1>3, ModAdd
    <2> QED BY <1>2, <1>3, <2>1, <2>2
  <1>5. head' # <<>>
    BY <1>1, <1>2 DEF Store
  <1> QED BY <1>4, <1>5 DEF TotalMatches, ListInv, ReceiveFragment

LEMMA GetDataMatches ==
    ASSUME ListInv, GetData
    PROVE  TotalMatches'
  <1>1. /\ head' = <<>> /\ total_len' = 0 /\ step' = "idle"
        /\ response' = [status |-> "SUCCESS", len |-> Copied, fragments |-> head]
    BY DEF GetData, DeleteList
  <1>2. 0 % Width = 0
    BY DataAssumption
  <1>3. total_len' = LengthOf(head') % Width
    BY <1>1, <1>2, LengthOfEmpty
  <1>4. response'.len = LengthOf(response'.fragments) % Width
    BY <1>1 DEF Copied
  <1> QED BY <1>1, <1>3, <1>4 DEF TotalMatches

LEMMA ListStepInv ==
    ASSUME ListInv, [DataNext]_dataVars
    PROVE  ListInv'
  <1>1. DataInv'
    BY DataStepInv DEF ListInv
  <1>2. CASE ReceiveFragment
    BY <1>1, <1>2, StoreMatches DEF ListInv
  <1>3. CASE GetData
    BY <1>1, <1>3, GetDataMatches DEF ListInv
  <1>4. CASE UNCHANGED dataVars \/ NewAtp \/ Transceive \/ SendPart \/ SendLastPart
             \/ CallFails \/ GetDataFails
    <2>1. /\ UNCHANGED <<head, total_len>>
          /\ UNCHANGED response \/ response' = NoResponse
          /\ step' = "data" => step = "data"
      BY <1>4 DEF dataVars, NewAtp, Transceive, SendPart, SendLastPart, CallFails,
                  GetDataFails
    <2> QED BY <1>1, <2>1 DEF ListInv, TotalMatches, NoResponse
  <1> QED BY <1>2, <1>3, <1>4 DEF DataNext

(* DataMgmt.cc keeps a length beside the list: for any number of fragments *)
(* of any length, stored, returned or left behind by calls that failed, it *)
(* is the length of the list, so a response of less than 2^16 bytes can be *)
(* had whole, and what is returned has the length it says.                 *)
THEOREM ResponseWholeHolds == DataSpec => []ResponseWhole
  <1>1. ASSUME ListInv PROVE ResponseWhole
    <2>1. Width \in Nat \ {0} /\ \A n \in 0 .. Width - 1 : n % Width = n
      BY DataAssumption
    <2>2. /\ head \in Seq(Nat) /\ total_len = LengthOf(head) % Width
          /\ step = "data" => head # <<>>
      BY <1>1 DEF ListInv, TotalMatches, DataInv, DataTypeOK
    <2>3. ASSUME step = "data", LengthOf(head) \in 1 .. Width - 1,
                 \A i \in DOMAIN head : head[i] <= ifsc
          PROVE  CanGetData
      <3>1. LengthOf(head) # 0 /\ LengthOf(head) \in 0 .. Width - 1
        BY <2>1, <2>3
      <3>2. total_len = LengthOf(head)
        BY <2>1, <2>2, <3>1
      <3> QED BY <2>2, <2>3, <3>1, <3>2 DEF CanGetData, Copyable, Copied
    <2>4. ASSUME response.status = "SUCCESS", LengthOf(response.fragments) < Width
          PROVE  response.len = LengthOf(response.fragments)
      <3>1. LengthOf(response.fragments) \in 0 .. Width - 1
        <4>1. response.fragments \in Seq(Nat)
          BY <1>1 DEF ListInv, DataInv, DataTypeOK
        <4>2. LengthOf(response.fragments) \in Nat
          BY <4>1, LengthOfAppend, 0 \in Nat
        <4> QED BY <2>1, <2>4, <4>2
      <3> QED BY <1>1, <2>1, <2>4, <3>1 DEF ListInv, TotalMatches
    <2> QED BY <2>3, <2>4 DEF ResponseWhole
  <1> QED BY <1>1, ListInitInv, ListStepInv, PTL DEF DataSpec
=============================================================================
