------------------------------- MODULE T1Host -------------------------------
(***************************************************************************)
(* The host's end of the T=1 line: ese-spi-driver/T1protocol.cc, driven by *)
(* StEse_Transceive (StEseApi.cc), which cuts an APDU into parts, and      *)
(* using the reception list of utils-lib/DataMgmt.cc.                      *)
(*                                                                         *)
(* One turn of the loop of T1protocol_transcieveApduPart is two steps: the *)
(* switch on gNextCmd writes a block (HostSend) and then waits; the answer *)
(* is read and handled by T1protocol_handleTpduResponse (the HostRecv      *)
(* actions, HostTimeout).  The handler of the block that completes a part  *)
(* also starts the next part, as StEse_Transceive does, or delivers the    *)
(* response.  There is one binder thread, so exchanges never interleave.   *)
(***************************************************************************)
EXTENDS T1Wire

VARIABLES
    hpc,             \* "idle", "send", "wait" (for an answer) or "failed"
    gNextCmd,
    SEQ_NUM_MASTER,
    SEQ_NUM_SLAVE,
    recoveryStatus,
    orig,            \* originalCmdTpdu: its N(S) and M bits
    apdu,            \* APDUs submitted so far, the number of the current one
    part, nparts,    \* the part being exchanged, the parts of the APDU
    rxList,          \* the list of DataMgmt.cc
    rsp              \* pRsp

seqVars  == <<SEQ_NUM_MASTER, SEQ_NUM_SLAVE>>
apduVars == <<apdu, nparts>>
dataVars == <<part, rxList, rsp>>
hostVars == <<hpc, gNextCmd, seqVars, recoveryStatus, orig, apduVars, dataVars>>

Commands == {"Idle", "I_block", "R_ACK", "R_Other_Error", "S_Resync_REQ",
             "S_Resync_RES", "S_IFS_RES", "S_WTX_RES", "S_SWReset_REQ"}

(* RESEND_2, RESYNC_2 and RESYNC_3 are declared but never reached. *)
RecoveryStates == {"OK", "RESEND_1", "RESYNC_1", "WARM_RESET", "KO"}

HostInit ==
    /\ hpc = "idle" /\ gNextCmd = "Idle"
    /\ SEQ_NUM_MASTER = 0 /\ SEQ_NUM_SLAVE = 0
    /\ recoveryStatus = "OK"
    /\ orig = [ns |-> 0, more |-> FALSE]
    /\ apdu = 0 /\ part = 0 /\ nparts = 0
    /\ rxList = <<>> /\ rsp = <<>>

HostTypeOK ==
    /\ hpc \in {"idle", "send", "wait", "failed"}
    /\ gNextCmd \in Commands
    /\ SEQ_NUM_MASTER \in Bit /\ SEQ_NUM_SLAVE \in Bit
    /\ recoveryStatus \in RecoveryStates
    /\ orig \in [ns : Bit, more : BOOLEAN]
    /\ apdu \in Nat /\ part \in Nat /\ nparts \in Nat
    /\ rxList \in Seq(Payload) /\ rsp \in Seq(Payload)

-----------------------------------------------------------------------------
(* formCommandTpduToSend and the top of transcieveApduPart. *)
BeginPart(p, n, ns) ==
    /\ part' = p
    /\ orig' = [ns |-> ns, more |-> p < n]
    /\ recoveryStatus' = "OK"
    /\ gNextCmd' = "I_block"
    /\ hpc' = "send"

(* StEse_Transceive for an APDU of n parts. *)
Start(n) ==
    /\ hpc = "idle" \/ (hpc = "failed" /\ Unreset)
    /\ apdu < MaxApdus
    /\ apdu' = apdu + 1
    /\ nparts' = n
    /\ faults' = 0
    /\ BeginPart(1, n, SEQ_NUM_MASTER)
    /\ UNCHANGED <<toSE, seIn, toHost, seqVars, rxList, rsp>>

(* The block each case of the switch writes. *)
CommandBlock ==
    CASE gNextCmd = "I_block"      -> IBlock(orig.ns, orig.more, <<apdu, part>>)
      [] gNextCmd \in {"R_ACK", "R_Other_Error"} -> RBlock(SEQ_NUM_SLAVE)
      [] gNextCmd = "S_Resync_REQ" -> SBlock("S_RESYNC_REQ")
      [] gNextCmd = "S_SWReset_REQ" -> SBlock("S_SWRESET_REQ")
      [] OTHER                     -> SBlock("S_WTX_RES")

HasNoCase == gNextCmd \in {"S_Resync_RES", "S_IFS_RES"}

HostSend ==
    /\ hpc = "send" /\ ~HasNoCase
    /\ toSE = NoBlock
    /\ \E t \in Transfers(CommandBlock) : toSE' = t.block /\ faults' = t.faults
    /\ hpc' = "wait"
    /\ UNCHANGED <<seIn, toHost, gNextCmd, seqVars, recoveryStatus, orig,
                   apduVars, dataVars>>

(* The default case of the switch: no answer is formed, the part fails. *)
HostNoCase ==
    /\ hpc = "send" /\ HasNoCase
    /\ hpc' = "failed"
    /\ UNCHANGED <<wireVars, gNextCmd, seqVars, recoveryStatus, orig, apduVars,
                   dataVars>>

-----------------------------------------------------------------------------
NextRecoveryHasty ==   \* mutant: no retransmission is asked for
    [s \in RecoveryStates |->
        CASE s = "OK"       -> "RESYNC_1"
          [] s = "RESYNC_1" -> "WARM_RESET"
          [] OTHER          -> "KO"]

NextRecovery ==
    [s \in RecoveryStates |->
        CASE s = "OK"       -> "RESEND_1"
          [] s = "RESEND_1" -> "RESYNC_1"
          [] s = "RESYNC_1" -> "WARM_RESET"
          [] OTHER          -> "KO"]

RecoveryCommand ==
    [s \in RecoveryStates \ {"OK", "KO"} |->
        CASE s = "RESEND_1" -> "R_Other_Error"
          [] s = "RESYNC_1" -> "S_Resync_REQ"
          [] OTHER          -> "S_SWReset_REQ"]

DoRecovery ==
    LET s == NextRecovery[recoveryStatus]
    IN  /\ recoveryStatus' = s
        /\ IF s = "KO" THEN hpc' = "failed" /\ UNCHANGED gNextCmd
                       ELSE hpc' = "send" /\ gNextCmd' = RecoveryCommand[s]
        /\ UNCHANGED <<seqVars, orig, apduVars, dataVars>>

(* N(S) of an I-block; N(R) of an R-block that acknowledges a chained      *)
(* block, or that asks for the last block again.                           *)
IsSequenceNumberOk(b) ==
    b.seq = (IF b.kind = "I" THEN SEQ_NUM_SLAVE
             ELSE IF orig.more THEN Flip(SEQ_NUM_MASTER)
             ELSE SEQ_NUM_MASTER)

(* What T1protocol_checkTpduConsistency accepts: lastCmdTpduSent stays the *)
(* I-block of the part, so the check of S-responses never applies.         *)
ConsistentAnyNumber(b) == b.kind # "GARBLED"   \* mutant: N(S) is not checked

Consistent(b) ==
    /\ b.kind # "GARBLED"
    /\ b.kind = "I" => IsSequenceNumberOk(b)

ReadBlock(kinds) ==
    /\ hpc = "wait"
    /\ toHost.kind \in kinds
    /\ toHost' = NoBlock
    /\ UNCHANGED <<toSE, seIn, faults>>

Continue(cmd) == gNextCmd' = cmd /\ hpc' = "send"

(* The loop ends with gNextCmd = Idle: StEse_Transceive starts the next    *)
(* part or returns.  r is what the part leaves in pRsp.                    *)
EndPart(r) ==
    /\ SEQ_NUM_MASTER' = Flip(SEQ_NUM_MASTER)
    /\ rsp' = r
    /\ IF part < nparts
       THEN BeginPart(part + 1, nparts, Flip(SEQ_NUM_MASTER))
       ELSE /\ hpc' = "idle" /\ gNextCmd' = "Idle" /\ recoveryStatus' = "OK"
            /\ UNCHANGED <<part, orig>>

HostRecvInconsistent ==
    /\ ReadBlock(BlockKinds \ {"none"})
    /\ ~Consistent(toHost)
    /\ DoRecovery

(* DataMgmt_GetData hands the list over and empties it. *)
KeepList == UNCHANGED rxList   \* mutant: the list is not emptied
EmptyList == rxList' = <<>>

HostRecvI ==
    /\ ReadBlock({"I"})
    /\ Consistent(toHost)
    /\ SEQ_NUM_SLAVE' = Flip(SEQ_NUM_SLAVE)
    /\ IF toHost.more
       THEN /\ rxList' = Append(rxList, toHost.data)
            /\ Continue("R_ACK")
            /\ recoveryStatus' = "OK"
            /\ UNCHANGED <<SEQ_NUM_MASTER, orig, part, rsp>>
       ELSE /\ EndPart(Append(rxList, toHost.data))
            /\ EmptyList
    /\ UNCHANGED apduVars

(* processRBlock, when the R-block does not acknowledge a chained I-block. *)
ReplyToRNak ==   \* mutant: a retransmission is asked for instead of a RESYNCH
    IF orig.more \/ IsSequenceNumberOk(toHost) THEN "I_block" ELSE "R_Other_Error"

ReplyToR ==
    IF orig.more \/ IsSequenceNumberOk(toHost) THEN "I_block" ELSE "S_Resync_REQ"

HostRecvR ==
    /\ ReadBlock({"R"})
    /\ IF orig.more /\ IsSequenceNumberOk(toHost)
       THEN EndPart(<<>>)
       ELSE /\ Continue(ReplyToR)
            /\ recoveryStatus' = "OK"
            /\ UNCHANGED <<SEQ_NUM_MASTER, orig, part, rsp>>
    /\ UNCHANGED <<SEQ_NUM_SLAVE, apduVars, rxList>>

ResetMasterOnly ==   \* mutant: the number of the slave is kept
    SEQ_NUM_MASTER' = 0 /\ UNCHANGED SEQ_NUM_SLAVE

ResetSequenceNumbers == SEQ_NUM_MASTER' = 0 /\ SEQ_NUM_SLAVE' = 0

(* S-blocks that leave the numbers alone. *)
HostRecvRequest ==
    /\ ReadBlock({"S_WTX_REQ", "S_IFS_REQ", "S_ABORT_REQ"})
    /\ recoveryStatus' = "OK"
    /\ \/ toHost.kind = "S_WTX_REQ" /\ Continue("S_WTX_RES")
       \/ toHost.kind = "S_IFS_REQ" /\ Continue("S_IFS_RES")
       \/ toHost.kind = "S_ABORT_REQ" /\ hpc' = "failed" /\ UNCHANGED gNextCmd
    /\ UNCHANGED <<seqVars, orig, apduVars, dataVars>>

(* The I-block of the part is sent again, now with N(S) = 0. *)
ResendKeepingNs == Continue("I_block") /\ UNCHANGED orig   \* mutant
ResendWithNsZero == Continue("I_block") /\ orig' = [orig EXCEPT !.ns = 0]

(* The software reset is the end of the exchange. *)
SoftResetResumes == ResendWithNsZero   \* mutant: treated as a RESYNCH
SoftResetEnds == hpc' = "failed" /\ UNCHANGED <<gNextCmd, orig>>

(* S-blocks that reset them. *)
HostRecvReset ==
    /\ ReadBlock({"S_RESYNC_REQ", "S_RESYNC_RES", "S_SWRESET_RES"})
    /\ recoveryStatus' = "OK"
    /\ ResetSequenceNumbers
    /\ \/ toHost.kind = "S_RESYNC_RES" /\ ResendWithNsZero
       \/ toHost.kind = "S_RESYNC_REQ" /\ Continue("S_Resync_RES") /\ UNCHANGED orig
       \/ toHost.kind = "S_SWRESET_RES" /\ SoftResetEnds
    /\ UNCHANGED <<apduVars, dataVars>>

-----------------------------------------------------------------------------
(* The block waiting time ends: nothing is on its way or, under "late",    *)
(* the SE is still working.                                                *)
HostTimeout ==
    /\ hpc = "wait" /\ toHost = NoBlock /\ toSE = NoBlock
    /\ \/ seIn = NoBlock /\ UNCHANGED faults
       \/ seIn # NoBlock /\ CanFault("late") /\ faults' = faults + 1
    /\ DoRecovery
    /\ UNCHANGED <<toSE, seIn, toHost>>

(* A driver read or write fails: transcieveTpdu returns -1. *)
HostIoError ==
    /\ hpc \in {"send", "wait"} /\ CanFault("io")
    /\ faults' = faults + 1
    /\ hpc' = "failed"
    /\ toHost' = toHost \/ (hpc = "wait" /\ toHost' = NoBlock)
    /\ UNCHANGED <<toSE, seIn, gNextCmd, seqVars, recoveryStatus, orig, apduVars,
                   dataVars>>

HostStep ==
    \/ HostSend \/ HostNoCase \/ HostTimeout \/ HostIoError
    \/ HostRecvInconsistent \/ HostRecvI \/ HostRecvR
    \/ HostRecvRequest \/ HostRecvReset

-----------------------------------------------------------------------------
(* StEse_Reset = SpiLayerInterface_setup, the host's side of its outcomes  *)
(* once the reset line was pulsed (a failing ioctl changes nothing).       *)
MayReset == hpc \in {"idle", "failed"}

(* The ATP cannot be read: the numbers are not reset. *)
SetupNoAtp ==
    /\ MayReset /\ FaultKinds \cap {"lose", "garble", "io"} # {}
    /\ hpc' = "failed"
    /\ UNCHANGED <<gNextCmd, seqVars, recoveryStatus, orig, apduVars, dataVars>>

(* No answer to the IFS request, or the driver fails. *)
SetupNoIfs ==
    /\ MayReset /\ FaultKinds \cap {"lose", "io"} # {}
    /\ ResetSequenceNumbers
    /\ hpc' = "failed"
    /\ UNCHANGED <<gNextCmd, recoveryStatus, orig, apduVars, dataVars>>

(* A wrong answer: doRequestIFS returns what doRecovery returns, and what  *)
(* doRecovery plans is never sent.                                         *)
SetupWrongIfs ==
    /\ MayReset /\ "garble" \in FaultKinds
    /\ ResetSequenceNumbers
    /\ LET s == NextRecovery[recoveryStatus]
       IN  /\ recoveryStatus' = s
           /\ IF s = "KO" THEN hpc' = "failed" /\ UNCHANGED gNextCmd
                          ELSE hpc' = "idle" /\ gNextCmd' = RecoveryCommand[s]
    /\ UNCHANGED <<orig, apduVars, dataVars>>

SetupOk ==
    /\ MayReset
    /\ ResetSequenceNumbers
    /\ recoveryStatus' = "OK"
    /\ hpc' = "idle"
    /\ UNCHANGED <<gNextCmd, orig, apduVars, dataVars>>

Setup == SetupNoAtp \/ SetupNoIfs \/ SetupWrongIfs \/ SetupOk
=============================================================================
