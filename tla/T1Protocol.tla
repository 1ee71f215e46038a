----------------------------- MODULE T1Protocol -----------------------------
(***************************************************************************)
(* Exchanges of APDUs between the HAL and the SE over a faulty line: the   *)
(* host of T1Host, the SE of T1Card, the wire of T1Wire.                   *)
(***************************************************************************)
EXTENDS T1Host, T1Card, FiniteSets

vars == <<wireVars, hostVars, cardVars>>

Init == WireInit /\ HostInit /\ CardInit

Submit == /\ \E n \in 1..MaxParts : Start(n)
          /\ resyncs' = 0
          /\ UNCHANGED <<linkVars, oweVars, executed>>

Host == HostStep /\ UNCHANGED cardVars

Card == CardStep /\ UNCHANGED hostVars

Reset == Setup /\ CardPowerReset

(* The caller has no more APDUs: the bound of the model, not of the code. *)
Finished == hpc = "idle" /\ apdu = MaxApdus /\ UNCHANGED vars

Next == Submit \/ Host \/ Card \/ Reset \/ Finished

Spec == Init /\ [][Next]_vars

(* The SE answers and the host's thread runs on. *)
FairSpec == Spec /\ WF_vars(Host) /\ WF_vars(Card)

InExchange == hpc \in {"send", "wait"}

-----------------------------------------------------------------------------
TypeOK == WireTypeOK /\ HostTypeOK /\ CardTypeOK

(* Between exchanges the two ends agree on both sequence numbers           *)
(* (SEQ_NUM_MASTER and SEQ_NUM_SLAVE, T1protocol.cc:31-32), whatever       *)
(* combination of recovery steps the exchange needed.                      *)
SeqAgreement == hpc = "idle" => SEQ_NUM_MASTER = seVR /\ SEQ_NUM_SLAVE = seVS

-----------------------------------------------------------------------------
(* Why SeqAgreement holds when every failed exchange is followed by a      *)
(* successful reset and the SE is never late.  The parts below hold        *)
(* together, and SeqAgreement is part of the first.                        *)
Disciplined == "late" \notin FaultKinds /\ ~Unreset

NothingOwed == seNext > seTotal /\ ~seWait

IdleInv == hpc = "idle" => /\ SEQ_NUM_MASTER = seVR
                           /\ SEQ_NUM_SLAVE = seVS
                           /\ NothingOwed

(* One block on the line, and only while the host waits. *)
LineInv == /\ hpc \in {"idle", "send"} =>
                 toSE = NoBlock /\ seIn = NoBlock /\ toHost = NoBlock
           /\ hpc = "wait" => /\ toSE # NoBlock => seIn = NoBlock /\ toHost = NoBlock
                              /\ seIn # NoBlock => toHost = NoBlock

(* The host can still form what it has to send next. *)
Live == hpc = "wait" \/ (hpc = "send" /\ ~HasNoCase)

OrigInv == Live => orig.ns = SEQ_NUM_MASTER /\ orig.more = (part < nparts)

CommandInv ==
    hpc = "wait" => \A b \in {toSE, seIn} :
        /\ b.kind = "I" => b.seq = SEQ_NUM_MASTER /\ b.more = orig.more
        /\ b.kind = "R" => b.seq = SEQ_NUM_SLAVE

(* The block the SE keeps for retransmission is the last one it numbered,  *)
(* and a response is over once its last fragment was sent.                 *)
LastBlockInv ==
    lastI # NoBlock => /\ lastI.kind = "I" /\ lastI.seq = Flip(seVS) /\ ~seWait
                       /\ ~lastI.more => seNext > seTotal

AnswerInv ==
    hpc = "wait" =>
        /\ toHost.kind = "I" => /\ toHost.seq = Flip(seVS) /\ ~seWait
                                /\ ~toHost.more => seNext > seTotal
                                /\ seVR # SEQ_NUM_MASTER /\ ~orig.more
        /\ toHost.kind = "R" => toHost.seq = seVR
        /\ toHost.kind = "S_RESYNC_RES" =>
              seVR = 0 /\ lastI = NoBlock /\ NothingOwed

(* A command the SE has not taken leaves nothing of this exchange to send; *)
(* one it has taken and answers is the last part of its APDU.              *)
OweInv ==
    Live => IF seVR = SEQ_NUM_MASTER
            THEN NothingOwed /\ (lastI # NoBlock => SEQ_NUM_SLAVE = seVS)
            ELSE lastI # NoBlock \/ ~NothingOwed => ~orig.more

SeqInv == /\ IdleInv /\ LineInv /\ OrigInv /\ CommandInv
          /\ LastBlockInv /\ AnswerInv /\ OweInv

-----------------------------------------------------------------------------
(* The runs of the current APDU: those whose command ends with its last part. *)
Runs == {i \in DOMAIN executed : executed[i].cmd[Len(executed[i].cmd)][1] = apdu}

(* An APDU is run again only when a RESYNCH made the SE forget that it ran *)
(* it (processRBlock and doRecovery choose S_Resync_REQ), once per RESYNCH. *)
RerunNeedsResync == Cardinality(Runs) <= 1 + resyncs

(* Why it holds: a command is on its way to an SE that would run it only   *)
(* while one more run is excused (MayRun).  The software reset also makes  *)
(* the SE forget, but it is the last step of the host's recovery: whatever *)
(* becomes of its answer, the exchange is over (SoftResetting).            *)
MayRun == Cardinality(Runs) <= resyncs

ExecutedInv ==
    \A i \in DOMAIN executed :
        LET cmd == executed[i].cmd
        IN  cmd # <<>> /\ cmd[Len(cmd)][1] <= apdu

CommandOfApdu ==
    /\ toSE = NoBlock \/ seIn = NoBlock
    /\ \A b \in {toSE, seIn} : b.kind = "I" => b.data[1] = apdu

SoftResetIsLast ==
    /\ hpc = "send" /\ gNextCmd = "S_SWReset_REQ" => recoveryStatus = "WARM_RESET"
    /\ hpc = "wait" => \A b \in {toSE, seIn} :
          b.kind = "S_SWRESET_REQ" => recoveryStatus = "WARM_RESET"

SoftResetting ==
    /\ hpc = "wait" /\ recoveryStatus = "WARM_RESET"
    /\ toSE = NoBlock /\ seIn = NoBlock
    /\ toHost.kind \in {"none", "GARBLED", "S_SWRESET_RES"}

ExcusedInv ==
    /\ \A b \in {toSE, seIn} : b.kind = "I" /\ b.seq = seVR /\ ~b.more => MayRun
    /\ Live /\ ~SoftResetting /\ (seVR = SEQ_NUM_MASTER \/ orig.more) => MayRun
    /\ hpc = "wait" /\ toHost.kind = "S_RESYNC_RES" => MayRun

RerunInv == /\ ExecutedInv /\ CommandOfApdu /\ SoftResetIsLast /\ ExcusedInv
            /\ RerunNeedsResync

(* Every command the SE runs is a whole APDU: the parts StEse_Transceive   *)
(* cut it into, in order, none missing, none twice.                        *)
WholeCommands ==
    \A i \in DOMAIN executed :
        LET cmd == executed[i].cmd
        IN  \A p \in DOMAIN cmd : cmd[p] = <<cmd[1][1], p>>

(* A response StEse_Transceive returns is the whole response of one run of *)
(* the current APDU: nothing of an earlier exchange or of an earlier run,  *)
(* no fragment missing, none twice.                                        *)
Returns == InExchange /\ hpc' = "idle"

ResponseIntact ==
    [][Returns => \E i \in Runs :
            rsp' = [f \in 1..executed[i].frags |-> <<i, f>>]]_vars

(* Short of a driver error and of a request the host does not know, an     *)
(* exchange fails only when RESEND, RESYNCH and software reset were each   *)
(* tried (updateRecoveryStatus): fewer than three faults are repaired.     *)
HostGaveUp == InExchange /\ hpc' = "failed"
DriverError == faults' # faults
UnknownRequest == HasNoCase \/ toHost.kind = "S_ABORT_REQ"

FailsOnlyAfterThree ==
    [][HostGaveUp => faults >= 3 \/ DriverError \/ UnknownRequest]_vars

(* Why it holds: a step of recovery is taken for a fault of its own, since *)
(* the answer to what it sends is good unless there is another one.        *)
Steps == [s \in RecoveryStates |->
             CASE s = "OK"       -> 0
               [] s = "RESEND_1" -> 1
               [] s = "RESYNC_1" -> 2
               [] OTHER          -> 3]

Spare == Steps[recoveryStatus] < faults \/ faults >= 3

(* The host can only time out, or refuse what it reads. *)
NoGoodAnswer == \/ toSE = NoBlock /\ seIn = NoBlock /\ toHost = NoBlock
                \/ ~Consistent(toHost)

StepInv ==
    InExchange => /\ Steps[recoveryStatus] <= faults
                  /\ recoveryStatus = "RESEND_1" => gNextCmd = "R_Other_Error"
                  /\ recoveryStatus = "RESYNC_1" => gNextCmd = "S_Resync_REQ"

SpareInv ==
    hpc = "wait" =>
        /\ NoGoodAnswer => Spare
        /\ \A b \in {toSE, seIn} \ {NoBlock} :
              /\ b.kind = "GARBLED" => Spare
              /\ recoveryStatus = "RESEND_1" => b.kind = "R" \/ Spare
              /\ recoveryStatus = "RESYNC_1" => b.kind = "S_RESYNC_REQ" \/ Spare
        /\ toHost.kind = "S_SWRESET_RES" => faults >= 3

(* An SE that keeps no block for retransmission numbers its next one as    *)
(* the host expects, as long as nothing went wrong.                        *)
SlaveInv ==
    /\ lastI = NoBlock => seWait \/ seNext > seTotal
    /\ hpc = "wait" /\ toHost.kind = "S_RESYNC_RES" => seVS = 0
    /\ faults = 0 /\ Live /\ lastI = NoBlock =>
          SEQ_NUM_SLAVE = seVS \/ (hpc = "wait" /\ toHost.kind = "S_RESYNC_RES")

RepairInv == StepInv /\ SpareInv /\ SlaveInv

-----------------------------------------------------------------------------
(* Why WholeCommands and ResponseIntact hold when one fault at most hits   *)
(* an exchange and no block is damaged (OneFault): recovery then never     *)
(* gets as far as a RESYNCH, which is what cuts a command short and mixes  *)
(* the fragments of two runs.  WantedInv and FragmentInv need only         *)
(* Disciplined.                                                            *)
OneFault == Disciplined /\ "garble" \notin FaultKinds /\ MaxFaults <= 1

(* The SE has taken the part being exchanged. *)
Taken == Live /\ seVR # SEQ_NUM_MASTER

(* The host sends an I-block only as long as the SE has not taken it, and  *)
(* grants time only to an SE that waits for it.                            *)
WantedInv ==
    /\ hpc = "send" => /\ gNextCmd # "Idle"
                       /\ gNextCmd = "I_block" => seVR = SEQ_NUM_MASTER
                       /\ gNextCmd = "S_WTX_RES" => seWait
    /\ hpc = "wait" =>
          /\ \A b \in {toSE, seIn} : /\ b.kind = "I" => seVR = SEQ_NUM_MASTER
                                     /\ b.kind = "S_WTX_RES" => seWait
          /\ toHost.kind \in AskKinds => seWait

(* What the SE sends is the next fragment of a run of the current APDU.    *)
FragsInv == \A i \in DOMAIN executed : executed[i].frags \in 1..MaxFrags

OwnRunInv ==
    Taken => /\ lastI # NoBlock \/ ~NothingOwed =>
                   /\ seRun \in Runs
                   /\ seTotal = executed[seRun].frags
                   /\ seNext \in 1..(seTotal + 1)
             /\ IF lastI = NoBlock
                THEN seNext = 1
                ELSE /\ seNext > 1
                     /\ lastI.data = <<seRun, seNext - 1>>
                     /\ lastI.more = (seNext <= seTotal)

AnswerIsLast == hpc = "wait" /\ toHost.kind = "I" => toHost = lastI

FragmentInv == FragsInv /\ OwnRunInv /\ AnswerIsLast

(* An APDU is run once, and once more per fault of its exchange at most:   *)
(* nothing the SE asks for, and no answer it repeats, makes the host start *)
(* a command over.                                                         *)
RerunNeedsFault == Cardinality(Runs) <= 1 + faults

(* Why it holds: what can still lead to a RESYNCH is due to a fault that   *)
(* led to none so far (Unspent).  An R-block is the host's request for a   *)
(* block the SE owes it, and the SE rejects only what it has not taken.    *)
Unspent == resyncs < faults

ResetRequests == {"S_RESYNC_REQ", "S_SWRESET_REQ"}

Repairing ==
    hpc = "send" /\ gNextCmd \in {"R_Other_Error", "S_Resync_REQ", "S_SWReset_REQ"}

BlamedInv ==
    /\ resyncs <= faults
    /\ \A b \in {toSE, seIn} : b.kind \in ResetRequests \cup {"GARBLED"} => Unspent
    /\ Repairing => Unspent
    /\ hpc = "wait" /\ NoGoodAnswer => Unspent

AckInv ==
    /\ hpc = "send" /\ gNextCmd = "R_ACK" => ~NothingOwed
    /\ hpc = "wait" => \A b \in {toSE, seIn} : b.kind = "R" => ~NothingOwed \/ Unspent

RejectInv ==
    hpc = "wait" /\ toHost.kind = "R" /\ ~orig.more => ~Taken \/ Unspent

NumberInv ==
    Live /\ lastI = NoBlock =>
        \/ SEQ_NUM_SLAVE = seVS \/ Unspent
        \/ hpc = "wait" /\ toHost.kind = "S_RESYNC_RES"

ResyncInv == BlamedInv /\ AckInv /\ RejectInv /\ NumberInv

(* No RESYNCH was asked for. *)
NoResync ==
    /\ faults <= MaxFaults /\ resyncs = 0
    /\ hpc = "send" => gNextCmd # "S_Resync_REQ"
    /\ \A b \in {toSE, seIn} : b.kind \notin {"GARBLED", "S_RESYNC_REQ"}
    /\ toHost.kind \notin {"GARBLED", "S_RESYNC_RES"}

(* The host lacks the last fragment sent at the most, it lacks one until   *)
(* the response is over, and the SE rejects nothing it has taken.          *)
PendingInv ==
    /\ Live /\ lastI = NoBlock => SEQ_NUM_SLAVE = seVS
    /\ Taken /\ ~orig.more => ~NothingOwed \/ SEQ_NUM_SLAVE # seVS
    /\ hpc = "wait" /\ toHost.kind = "R" /\ ~orig.more => ~Taken

OneFaultInv == NoResync /\ PendingInv

(* Parts 1 to k of the current APDU, fragments 1 to k of the run answered. *)
Parts(k) == [p \in 1..k |-> <<apdu, p>>]
Fragments(k) == [f \in 1..k |-> <<seRun, f>>]

(* What the SE holds of a command: the parts before the one being          *)
(* exchanged, and that one too once taken, until the last makes it run.    *)
ChainInv ==
    /\ InExchange => part \in 1..nparts
    /\ \A b \in {toSE, seIn} :
          b.kind = "I" => /\ part # 0 /\ b.data = <<apdu, part>>
                          /\ b.seq = seVR => seRx = Parts(part - 1)
    /\ Live => seRx = Parts(IF ~Taken THEN part - 1 ELSE IF orig.more THEN part ELSE 0)
    /\ hpc = "idle" => seRx = <<>>

(* The list of DataMgmt.cc holds the fragments sent, but for the one the   *)
(* host has not read; nothing is left in it between exchanges.             *)
ListInv ==
    rxList = IF ~Taken \/ lastI = NoBlock THEN <<>>
             ELSE IF SEQ_NUM_SLAVE = seVS THEN Fragments(seNext - 1)
             ELSE Fragments(seNext - 2)

(* Whatever the SE runs from now on, pRsp is no answer to it. *)
RspInv == rsp # <<>> => rsp[1][1] \in DOMAIN executed

(* As long as the line does no more than lose blocks, an exchange never    *)
(* fails, and the SE has nothing left to run after a reset that did.       *)
NeverFails ==
    /\ hpc = "send" => ~HasNoCase
    /\ hpc = "wait" => toHost.kind \notin AskKinds \ {"S_WTX_REQ"}
    /\ hpc = "failed" => toSE = NoBlock /\ seIn = NoBlock

PromiseInv == /\ WantedInv /\ FragmentInv /\ OneFaultInv /\ ChainInv /\ ListInv
              /\ RspInv /\ (FaultKinds \subseteq {"lose"} => NeverFails)

-----------------------------------------------------------------------------
(* Every exchange ends: the loop of T1protocol_transcieveApduPart leaves    *)
(* off, with a response or a failure, however the answers go wrong.        *)
ExchangeEnds == InExchange ~> ~InExchange
=============================================================================
