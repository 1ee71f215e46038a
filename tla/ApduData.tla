------------------------------ MODULE ApduData ------------------------------
(***************************************************************************)
(* The data of an exchange, by lengths: how StEse_Transceive (StEseApi.cc) *)
(* cuts a command into parts of at most ATP.ifsc bytes, and how the list   *)
(* of utils-lib/DataMgmt.cc joins the fragments of the response.           *)
(*                                                                         *)
(* T1Host counts parts and fragments; here they have lengths, which the    *)
(* code keeps in 8 and 16 bits.  Bytes are told by their place: a part is  *)
(* where it begins in the command and how long it is.                      *)
(***************************************************************************)
EXTENDS Integers, Sequences

CONSTANTS
    MaxLength,    \* bound: length of a command
    Ifscs,        \* values of ATP.ifsc an SE may announce
    MaxData,      \* TPDU_MAX_DATA_LENGTH, scaled down
    Width,        \* 2^16, scaled down: values of a uint16_t
    MaxNodes      \* bound: fragments the list holds

ASSUME DataAssumption ==
    /\ MaxLength \in Nat /\ MaxData \in Nat /\ MaxNodes \in Nat
    /\ Width \in Nat \ {0}
    /\ Ifscs \subseteq Nat \ {0}

VARIABLES
    step,         \* "idle", "parts", "answer" or "data"
    ifsc,         \* of the ATP
    length,       \* pCmd->len
    pCmdlen,      \* what is left to send
    CmdPart,      \* where the next part begins
    parts,        \* ghost: the parts the SE took, in order
    head,         \* the lengths of the fragments in the list
    total_len,
    response      \* lengths of what the last call returned, and its length

command == <<length, pCmdlen, CmdPart, parts>>
dataVars == <<step, ifsc, command, head, total_len, response>>

NoResponse == [status |-> "FAILED", len |-> 0, fragments |-> <<>>]

(* Nothing was exchanged yet, the ATP was read. *)
DataInit ==
    /\ step = "idle" /\ ifsc \in Ifscs
    /\ length = 0 /\ pCmdlen = 0 /\ CmdPart = 0 /\ parts = <<>>
    /\ head = <<>> /\ total_len = 0
    /\ response = NoResponse

(* A reset reads the ATP again and negotiates: the list stays. *)
NewAtp ==
    /\ step = "idle"
    /\ ifsc' \in Ifscs
    /\ UNCHANGED <<step, command, head, total_len, response>>

-----------------------------------------------------------------------------
(* StEse_Transceive refuses an empty command. *)
Transceive ==
    /\ step = "idle"
    /\ length' \in 1 .. MaxLength
    /\ pCmdlen' = length' /\ CmdPart' = 0 /\ parts' = <<>>
    /\ step' = "parts"
    /\ response' = NoResponse
    /\ UNCHANGED <<ifsc, head, total_len>>

IsChainedEvenIfLast == pCmdlen >= ifsc   \* mutant: the loop runs once too often
IsChained == pCmdlen > ifsc

(* T1protocol_transcieveApduPart with so many bytes: Tpdu_formTpdu refuses *)
(* more than fit a block.                                                  *)
Exchange(len) ==
    /\ len <= MaxData
    /\ parts' = Append(parts, [from |-> CmdPart, len |-> len, more |-> IsChained])

SendPart ==
    /\ step = "parts" /\ IsChained
    /\ Exchange(ifsc)
    /\ pCmdlen' = pCmdlen - ifsc
    /\ CmdPart' = CmdPart + ifsc
    /\ UNCHANGED <<step, ifsc, length, head, total_len, response>>

SendLastPart ==
    /\ step = "parts" /\ ~IsChained
    /\ Exchange(pCmdlen)
    /\ step' = "answer"
    /\ UNCHANGED <<ifsc, length, pCmdlen, CmdPart, head, total_len, response>>

(* The part does not fit a block, or its exchange fails; or the answer     *)
(* cannot be stored, or its next fragment does not come.                   *)
CallFails ==
    /\ step \in {"parts", "answer"}
    /\ step' = "idle"
    /\ UNCHANGED <<ifsc, command, head, total_len, response>>

-----------------------------------------------------------------------------
StoreWide(len) ==   \* mutant: the length does not wrap
    head' = Append(head, len) /\ total_len' = total_len + len

(* DataMgmt_StoreDataInList, of a fragment that passed the checks. *)
Store(len) ==
    /\ head' = Append(head, len)
    /\ total_len' = (total_len + len) % Width

ReceiveFragment ==
    /\ step = "answer" /\ Len(head) < MaxNodes
    /\ \E len \in 0 .. ifsc : Store(len)
    /\ step' \in {"answer", "data"}
    /\ UNCHANGED <<ifsc, command, response>>

(* The sum of the first lengths of the list. *)
LengthOf(list) ==
    LET sum[i \in 0 .. Len(list)] == IF i = 0 THEN 0 ELSE sum[i - 1] + list[i]
    IN  sum[Len(list)]

(* DataMgmt_GetDataFromList: one offset of 16 bits, every node checked. *)
Copied == LengthOf(head) % Width
Copyable == head # <<>> /\ \A i \in DOMAIN head : head[i] <= ifsc

CanGetData == total_len # 0 /\ Copyable /\ Copied = total_len

DeleteNodes == head' = <<>> /\ UNCHANGED total_len   \* mutant: the length is kept
DeleteList == head' = <<>> /\ total_len' = 0

(* DataMgmt_GetData after the last fragment; when it fails nothing of the  *)
(* list is deleted.  An allocation may fail.                               *)
GetData ==
    /\ step = "data" /\ CanGetData
    /\ response' = [status |-> "SUCCESS", len |-> Copied, fragments |-> head]
    /\ DeleteList
    /\ step' = "idle"
    /\ UNCHANGED <<ifsc, command>>

GetDataFails ==
    /\ step = "data"
    /\ step' = "idle"
    /\ UNCHANGED <<ifsc, command, head, total_len, response>>

DataNext ==
    \/ NewAtp \/ Transceive \/ SendPart \/ SendLastPart \/ CallFails
    \/ ReceiveFragment \/ GetData \/ GetDataFails

DataSpec == DataInit /\ [][DataNext]_dataVars

-----------------------------------------------------------------------------
DataTypeOK ==
    /\ step \in {"idle", "parts", "answer", "data"}
    /\ ifsc \in Ifscs
    /\ length \in Nat /\ pCmdlen \in Nat /\ CmdPart \in Nat
    /\ parts \in Seq([from : Nat, len : Nat, more : BOOLEAN])
    /\ head \in Seq(Nat) /\ total_len \in 0 .. Width - 1
    /\ response \in [status : {"SUCCESS", "FAILED"}, len : Nat, fragments : Seq(Nat)]

Ends(part) == part.from + part.len

(* The parts are the command cut up: each begins where the one before      *)
(* ended, none is empty or longer than the SE accepts, the chaining bit    *)
(* tells the last, and when the answer is awaited nothing is left over --  *)
(* also for a command of a multiple of ATP.ifsc bytes (StEse_Transceive).  *)
PartsMakeCommand ==
    /\ \A i \in DOMAIN parts :
         /\ parts[i].from = (IF i = 1 THEN 0 ELSE Ends(parts[i - 1]))
         /\ parts[i].len \in 1 .. MaxData
         /\ parts[i].more = (Ends(parts[i]) < length)
    /\ step \in {"answer", "data"} =>
         parts # <<>> /\ Ends(parts[Len(parts)]) = length

(* DataMgmt.cc keeps the length of the list beside the list: whatever was  *)
(* stored, returned or left behind by calls that failed, the two agree, so *)
(* that a response which is not empty and fits 16 bits can be had whole -- *)
(* unless a call that failed left a fragment longer than the ifsc is now.  *)
ResponseWhole ==
    /\ step = "data" /\ LengthOf(head) \in 1 .. Width - 1
         /\ (\A i \in DOMAIN head : head[i] <= ifsc)
       => CanGetData
    /\ response.status = "SUCCESS" /\ LengthOf(response.fragments) < Width
       => response.len = LengthOf(response.fragments)
=============================================================================
