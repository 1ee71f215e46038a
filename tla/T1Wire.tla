------------------------------- MODULE T1Wire -------------------------------
(***************************************************************************)
(* The half-duplex T=1 line between the HAL (the host, "master") and the   *)
(* ST secure element (the SE, "slave"): the blocks that travel, what one   *)
(* transfer may do to them, and the three places a block can be in.        *)
(*                                                                         *)
(* A TPDU is abstracted to its kind, one sequence bit, the chaining bit    *)
(* and an opaque payload.  The kind is what T1protocol.cc tells apart by   *)
(* the PCB byte: an I-block, an R-block or one of the S-blocks of          *)
(* T1protocol.h:40-50.  A block whose checksum, PCB or length is wrong on  *)
(* arrival has kind "GARBLED": each such defect leads both parties to the  *)
(* same reaction.                                                          *)
(***************************************************************************)
EXTENDS Naturals, Sequences

CONSTANTS
    MaxApdus,    \* bound: APDUs submitted during a behaviour
    MaxParts,    \* bound: command TPDUs one APDU is cut into (by ATP.ifsc)
    MaxFrags,    \* bound: I-blocks one response is cut into
    MaxAsk,      \* bound: S-requests the SE makes before it answers a command
    MaxFaults,   \* bound: transfer faults per exchange
    FaultKinds,  \* which faults the line and the SE may show, see below
    Unreset      \* may the caller go on after a failure that no reset followed?

AllFaultKinds == {"lose", "garble", "io", "late", "request"}

ASSUME BoundsAssumption ==
    /\ MaxApdus \in Nat
    /\ MaxParts \in Nat \ {0}
    /\ MaxFrags \in Nat \ {0}
    /\ MaxAsk \in Nat
    /\ MaxFaults \in Nat

ASSUME FaultAssumption ==
    /\ FaultKinds \subseteq AllFaultKinds
    /\ Unreset \in BOOLEAN

VARIABLES
    toSE,     \* block written by the host and not yet taken by the SE
    seIn,     \* block the SE has taken and is working on
    toHost,   \* block the SE offers and the host has not read
    faults    \* faults of the current exchange, at most MaxFaults

wireVars == <<toSE, seIn, toHost, faults>>

-----------------------------------------------------------------------------
(* Sequence numbers are modulo 2. *)
Bit == {0, 1}
FlipUnwrapped(b) == b + 1    \* mutant: the "% 2" is forgotten
Flip(b) == 1 - b

(* What the SE may ask of the host instead of answering. *)
AskKinds == {"S_WTX_REQ", "S_IFS_REQ", "S_ABORT_REQ", "S_RESYNC_REQ"}

BlockKinds == {"none", "GARBLED", "I", "R", "S_WTX_RES", "S_RESYNC_RES",
               "S_SWRESET_REQ", "S_SWRESET_RES"} \cup AskKinds

(* Host payload: <<APDU, part>>.  SE payload: <<execution, fragment>>. *)
Payload == Nat \X Nat
NoPayload == <<0, 0>>

Block == [kind : BlockKinds, seq : Bit, more : BOOLEAN, data : Payload]

IBlock(ns, more, data) == [kind |-> "I", seq |-> ns, more |-> more, data |-> data]
RBlock(nr) == [kind |-> "R", seq |-> nr, more |-> FALSE, data |-> NoPayload]
SBlock(k)  == [kind |-> k, seq |-> 0, more |-> FALSE, data |-> NoPayload]
NoBlock == SBlock("none")
Garbled == SBlock("GARBLED")

-----------------------------------------------------------------------------
(* Budgeted faults.  "lose": the block never arrives; "garble": it arrives *)
(* damaged; "io": a driver call fails; "late": the SE is still working     *)
(* when the block waiting time ends; "request": the SE asks for something  *)
(* other than more time.                                                   *)
CanFault(k) == k \in FaultKinds /\ faults < MaxFaults

(* What can come of putting block b on the line. *)
Transfers(b) ==
    {[block |-> b, faults |-> faults]}
      \cup {t \in {[block |-> NoBlock, faults |-> faults + 1]} : CanFault("lose")}
      \cup {t \in {[block |-> Garbled, faults |-> faults + 1]} : CanFault("garble")}

WireInit == /\ toSE = NoBlock
            /\ seIn = NoBlock
            /\ toHost = NoBlock
            /\ faults = 0

WireTypeOK == /\ toSE \in Block
              /\ seIn \in Block
              /\ toHost \in Block
              /\ faults \in Nat
=============================================================================
