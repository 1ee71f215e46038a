--------------------------- MODULE LinkRefinement ---------------------------
(***************************************************************************)
(* The transfers of EseLink implement BlockTransfer: over a line that      *)
(* damages bytes, with a driver whose calls fail and an SE that answers    *)
(* late, the T=1 protocol is given an intact answer the host has not read  *)
(* before, or nothing it could take for one.                               *)
(***************************************************************************)
EXTENDS EseLink

(* For TLC: the clock is set back by one and a half milliseconds or forth  *)
(* by one.                                                                 *)
ClockJumps == {-3, 2}

Answers == ExchangeAnswers \cup IfsAnswers

(* What the SE has still to say, or is still to be read of it. *)
Unread == (IF se # "quiet" \/ offered # <<>> THEN 1 ELSE 0) + (IF waiting THEN 1 ELSE 0)

Transfer == INSTANCE BlockTransfer WITH
    NoAnswer  <- <<>>,
    Greetings <- Atps,
    outcome   <- result,
    sent      <- pc \in {"poll", "header", "rest"},
    unread    <- Unread,
    answer    <- offered,
    spoilt    <- spoilt,
    got       <- got

(* transcieveTpdu returns an intact answer, each at most once; one to an   *)
(* earlier block only if that block's call ended without it; it refuses    *)
(* only what was damaged or lost in part, and otherwise times out or fails *)
(* (SpiLayerInterface.cc:89, SpiLayerComm.cc:218 and 293).                 *)
ImplementsTransfer == Transfer!TransferSpec

-----------------------------------------------------------------------------
(* What is read of bytes the SE has to shift out, zeros after their end,   *)
(* and what is then left of them.                                          *)
Taken(bytes, n) == [i \in 1 .. n |-> IF i <= Len(bytes) THEN bytes[i] ELSE 0]
Dropped(bytes, n) == SubSeq(bytes, AtMost(n, Len(bytes)) + 1, Len(bytes))
Suffixes(bytes) == {SubSeq(bytes, k, Len(bytes)) : k \in 1 .. Len(bytes) + 1}

(* The block two reads make of them. *)
Rest(bytes) == Taken(Dropped(bytes, 3), Taken(bytes, 3)[3] + 2)
Frame(bytes) == FromBytes(Taken(bytes, 3), Rest(bytes))
StartsFrame(bytes) == bytes # <<>> /\ bytes[1] = NAD_SLAVE_TO_HOST

(* What may be left to read of an answer that is not whole; of an ATP even *)
(* all of it, when every attempt to read it failed.                        *)
Remains(a) == (UNION {Suffixes(d) : d \in {a} \cup Damaged(a)}) \ ({a} \ Atps)

(* A frame of other bytes than those the answer's checksum is of, because  *)
(* its start was lost or damaged, its length byte was, or because it is no *)
(* frame but an ATP, is refused.  That any other damage is found is        *)
(* proved: DamageRefused.                                                  *)
ASSUME FrameAssumption ==
    \A a \in Answers \cup Atps : \A x \in Remains(a) :
       StartsFrame(x) /\ (a \in Atps \/ Len(x) # Len(a) \/ x[3] # a[3])
          => ~BlockOk(Frame(x), Ifsc)

(* The zeros that are read of an SE that says nothing are no ATP. *)
ASSUME SilenceAssumption ==
    ~AtpOk(<<EXPECTED_ATP_LENGTH>> \o Taken(<<>>, EXPECTED_ATP_LENGTH))

SentAtps == {AtpFields(a) : a \in Atps}

-----------------------------------------------------------------------------
(* Why ImplementsTransfer and AtpIntact hold.                              *)
CallInv ==
    /\ pc = "idle" <=> result # "pending"
    /\ result = "pending" => got = <<>>
    /\ pc # "idle" /\ setup => ~waiting

(* What the SE says when it arrives, and what is left of it later.         *)
Arrived == IF spoilt THEN Damaged(offered) ELSE {offered}
Heard == IF spoilt THEN Remains(offered) ELSE {offered}

LineInv ==
    /\ se # "quiet" => offered = <<>>
    /\ offered = <<>> => out = <<>> /\ ~spoilt
    /\ offered # <<>> =>
         /\ offered \in Answers \cup Atps
         /\ pc \notin {"atpRest", "header", "rest"} => out \in Heard

(* While a setup reads the ATP, and when it has.                           *)
AtpInv ==
    /\ AtpIntact
    /\ pc \in {"pwt", "atpLength", "atpRest"} =>
         /\ setup
         /\ se = "booting" \/ (se = "quiet" /\ offered \in Atps)
    /\ pc \in {"pwt", "atpLength"} /\ offered # <<>> => out \in Arrived
    /\ pc = "atpRest" /\ offered # <<>> =>
         \E x \in Arrived : out = x \/ (x[1] # 0 /\ out = Dropped(x, 1))
    /\ pc = "write" /\ setup => se = "quiet" /\ offered = <<>>
    /\ pc \in {"write", "poll", "header", "rest"} \/ linkReady => ATP \in SentAtps

(* While an exchange, or the IFS request of a setup, reads an answer.      *)
AnswerInv ==
    /\ pc \in {"poll", "header", "rest"} /\ setup /\ offered # <<>> => offered \in IfsAnswers
    /\ pc \in {"poll", "header", "rest"} /\ setup => se # "booting"
    /\ pc \in {"header", "rest"} => offered # <<>>
    /\ pc = "header" => \E x \in Heard : StartsFrame(x) /\ out = Dropped(x, 1)
    /\ pc = "rest" => \E x \in Heard : /\ StartsFrame(x) /\ out = Dropped(x, 3)
                                       /\ header = Taken(x, 3)

TransferInv == CallInv /\ LineInv /\ AtpInv /\ AnswerInv
=============================================================================
