-------------------------- MODULE T1RecoveryProofs --------------------------
(***************************************************************************)
(* How good recovery is, for every number of APDUs, parts, fragments and   *)
(* faults: an APDU is run again only after a RESYNCH (RerunNeedsResync,    *)
(* from the inductive invariant RerunInv), and an exchange is given up     *)
(* only after three faults (FailsOnlyAfterThree, from RepairInv).          *)
(***************************************************************************)
EXTENDS T1ProtocolProofs, FiniteSetTheorems

LEMMA RunsFinite ==
    ASSUME TypeOK
    PROVE  IsFiniteSet(Runs) /\ Cardinality(Runs) \in Nat
  <1>1. DOMAIN executed = 1..Len(executed) /\ Len(executed) \in Nat
    BY DEF TypeOK, CardTypeOK
  <1>2. Runs \subseteq 1..Len(executed)
    BY <1>1 DEF Runs
  <1>3. IsFiniteSet(1..Len(executed))
    BY <1>1, FS_Interval
  <1> QED BY <1>2, <1>3, FS_Subset, FS_CardinalityType

LEMMA LastAppended ==
    ASSUME NEW s \in Seq(Payload), NEW e \in Payload
    PROVE  Append(s, e) # <<>> /\ Append(s, e)[Len(Append(s, e))] = e
  <1>1. /\ Append(s, e) \in Seq(Payload) /\ Len(Append(s, e)) = Len(s) + 1
        /\ Append(s, e)[Len(s) + 1] = e
    OBVIOUS
  <1>2. Append(s, e) # <<>>
    BY <1>1
  <1> QED BY <1>1, <1>2, Zenon

(* What counts the runs of an APDU is changed by the SE only. *)
LEMMA CountKept ==
    ASSUME UNCHANGED <<executed, resyncs, apdu>>
    PROVE  /\ MayRun' <=> MayRun
           /\ ExecutedInv => ExecutedInv'
           /\ RerunNeedsResync => RerunNeedsResync'
  <1>1. Runs' = Runs
    BY DEF Runs
  <1>2. Cardinality(Runs)' = Cardinality(Runs)
    BY <1>1
  <1> QED BY <1>2 DEF MayRun, ExecutedInv, RerunNeedsResync

LEMMA InitRerunInv == Init => RerunInv
  <1> SUFFICES ASSUME Init PROVE RerunInv
    OBVIOUS
  <1>1. executed = <<>> /\ resyncs = 0 /\ hpc = "idle" /\ toSE = NoBlock /\ seIn = NoBlock
    BY DEF Init, WireInit, HostInit, CardInit
  <1>2. Runs = {}
    BY <1>1 DEF Runs
  <1>3. Cardinality(Runs) = 0
    BY <1>2, FS_EmptySet
  <1> QED
    BY <1>1, <1>3, KindsOfBlocks
       DEF RerunInv, ExecutedInv, CommandOfApdu, SoftResetIsLast, ExcusedInv,
           RerunNeedsResync, Live

-----------------------------------------------------------------------------
(* A new APDU has not run: no command of an earlier one carries its number. *)
LEMMA SubmitRerunInv ==
    ASSUME TypeOK, SeqInv, RerunInv, Disciplined, Submit
    PROVE  RerunInv'
  <1>1. PICK n \in 1..MaxParts : Start(n)
    BY DEF Submit
  <1>2. /\ hpc = "idle" /\ hpc' = "send" /\ gNextCmd' = "I_block"
        /\ apdu' = apdu + 1 /\ resyncs' = 0 /\ executed' = executed
        /\ toSE' = NoBlock /\ seIn' = NoBlock
    BY <1>1 DEF Start, BeginPart, Disciplined, Submit, SeqInv, LineInv
  <1>3. apdu \in Nat /\ executed \in Seq(Run)
    BY DEF TypeOK, HostTypeOK, CardTypeOK
  <1>4. ASSUME NEW i \in DOMAIN executed
        PROVE  /\ executed[i].cmd # <<>>
               /\ executed[i].cmd[Len(executed[i].cmd)] \in Payload
               /\ executed[i].cmd[Len(executed[i].cmd)][1] <= apdu
    <2>1. executed[i].cmd # <<>> /\ executed[i].cmd[Len(executed[i].cmd)][1] <= apdu
      BY <1>4 DEF RerunInv, ExecutedInv
    <2>2. executed[i].cmd \in Seq(Payload)
      <3>1. executed[i] \in Run
        BY <1>3, <1>4
      <3> QED BY <3>1 DEF Run
    <2>3. Len(executed[i].cmd) \in DOMAIN executed[i].cmd
      BY <2>1, <2>2
    <2> QED BY <2>1, <2>2, <2>3
  <1>5. \A i \in DOMAIN executed :
            /\ executed[i].cmd[Len(executed[i].cmd)][1] <= apdu + 1
            /\ executed[i].cmd[Len(executed[i].cmd)][1] # apdu + 1
    <2> TAKE i \in DOMAIN executed
    <2>1. executed[i].cmd[Len(executed[i].cmd)][1] \in Nat
      BY <1>4 DEF Payload
    <2> QED BY <1>3, <1>4, <2>1
  <1>6. Runs' = {}
    BY <1>2, <1>5 DEF Runs
  <1>7. Cardinality(Runs)' = 0
    BY <1>6, FS_EmptySet
  <1>8. ExecutedInv'
    BY <1>2, <1>4, <1>5 DEF ExecutedInv
  <1>9. RerunNeedsResync' /\ MayRun'
    BY <1>2, <1>7 DEF RerunNeedsResync, MayRun
  <1>10. CommandOfApdu' /\ SoftResetIsLast' /\ ExcusedInv'
    BY <1>2, <1>9, KindsOfBlocks DEF CommandOfApdu, SoftResetIsLast, ExcusedInv
  <1> QED BY <1>8, <1>9, <1>10 DEF RerunInv

-----------------------------------------------------------------------------
(* The steps of the host. *)
LEMMA HostSendRerunInv ==
    ASSUME TypeOK, SeqInv, RerunInv, HostSend, UNCHANGED cardVars
    PROVE  RerunInv'
  <1>1. PICK t \in Transfers(CommandBlock) : toSE' = t.block
    BY DEF HostSend
  <1>2. /\ hpc = "send" /\ ~HasNoCase /\ hpc' = "wait"
        /\ toSE' \in {CommandBlock, NoBlock, Garbled}
        /\ UNCHANGED <<seIn, toHost, gNextCmd, SEQ_NUM_MASTER, recoveryStatus, orig, apdu>>
    BY <1>1, TransferResult DEF HostSend, seqVars, apduVars, dataVars
  <1>3. UNCHANGED <<seVR, executed, resyncs>>
    BY DEF cardVars, linkVars
  <1>4. seIn' = NoBlock /\ toHost' = NoBlock
    BY <1>2 DEF SeqInv, LineInv
  <1>5. /\ CommandBlock.kind = "I" => /\ CommandBlock.seq = SEQ_NUM_MASTER
                                      /\ CommandBlock.data[1] = apdu
        /\ CommandBlock.kind = "S_SWRESET_REQ" => gNextCmd = "S_SWReset_REQ"
    <2>1. orig.ns = SEQ_NUM_MASTER
      BY <1>2 DEF SeqInv, OrigInv, Live
    <2>2. CASE gNextCmd = "I_block"
      BY <2>1, <2>2 DEF CommandBlock, IBlock
    <2>3. CASE gNextCmd # "I_block"
      BY <2>3, KindsOfBlocks DEF CommandBlock
    <2> QED BY <2>2, <2>3
  <1>6. CommandOfApdu' /\ SoftResetIsLast'
    BY <1>2, <1>4, <1>5, KindsOfBlocks
       DEF RerunInv, CommandOfApdu, SoftResetIsLast
  <1>7. seVR = SEQ_NUM_MASTER \/ orig.more => MayRun
    BY <1>2 DEF RerunInv, ExcusedInv, Live, SoftResetting
  <1>8. ExcusedInv'
    BY <1>2, <1>3, <1>4, <1>5, <1>7, KindsOfBlocks, CountKept DEF ExcusedInv
  <1> QED BY <1>2, <1>3, <1>6, <1>8, CountKept DEF RerunInv

(* A failed exchange: the SE may still have its command. *)
LEMMA FailedRerunInv ==
    ASSUME RerunInv, hpc' = "failed", UNCHANGED <<toSE, seIn, apdu, cardVars>>
    PROVE  RerunInv'
  <1>1. UNCHANGED <<seVR, executed, resyncs>>
    BY DEF cardVars, linkVars
  <1> QED
    BY <1>1, CountKept
       DEF RerunInv, CommandOfApdu, SoftResetIsLast, ExcusedInv, Live

(* The answer was read, or there is none: the line is empty. *)
LEMMA ResumeRerunInv ==
    ASSUME RerunInv, UNCHANGED <<apdu, cardVars>>,
           hpc' # "wait", toSE' = NoBlock, seIn' = NoBlock,
           hpc' = "send" /\ gNextCmd' = "S_SWReset_REQ" => recoveryStatus' = "WARM_RESET",
           Live' /\ (seVR = SEQ_NUM_MASTER' \/ orig'.more) => MayRun
    PROVE  RerunInv'
  <1>1. UNCHANGED <<seVR, executed, resyncs>>
    BY DEF cardVars, linkVars
  <1>2. CommandOfApdu' /\ SoftResetIsLast'
    BY KindsOfBlocks DEF CommandOfApdu, SoftResetIsLast
  <1>3. ExcusedInv'
    BY <1>1, KindsOfBlocks, CountKept DEF ExcusedInv
  <1> QED BY <1>1, <1>2, <1>3, CountKept DEF RerunInv

LEMMA RecoveryRerunInv ==
    ASSUME TypeOK, RerunInv, DoRecovery, hpc = "wait",
           toSE' = NoBlock, seIn' = NoBlock, UNCHANGED cardVars
    PROVE  RerunInv'
  <1>1. UNCHANGED <<SEQ_NUM_MASTER, orig, apdu>>
    BY DEF DoRecovery, seqVars, apduVars
  <1>2. CASE hpc' = "failed"
    BY <1>1, <1>2, ResumeRerunInv DEF Live
  <1>3. CASE hpc' # "failed"
    <2>1. /\ hpc' = "send" /\ recoveryStatus # "WARM_RESET"
          /\ gNextCmd' = "S_SWReset_REQ" => recoveryStatus' = "WARM_RESET"
      BY <1>3 DEF DoRecovery, TypeOK, HostTypeOK, RecoveryStates, NextRecovery, RecoveryCommand
    <2>2. seVR = SEQ_NUM_MASTER \/ orig.more => MayRun
      BY <2>1 DEF RerunInv, ExcusedInv, SoftResetting, Live
    <2> QED BY <1>1, <2>1, <2>2, ResumeRerunInv
  <1> QED BY <1>2, <1>3

LEMMA HostRecvIRerunInv ==
    ASSUME TypeOK, SeqInv, RerunInv, HostRecvI, UNCHANGED cardVars
    PROVE  RerunInv'
  <1>1. /\ hpc = "wait" /\ toSE' = NoBlock /\ seIn' = NoBlock
        /\ toHost.kind = "I" /\ apdu' = apdu
    BY ReadEmptiesLine DEF HostRecvI, ReadBlock, apduVars
  <1>2. seVR # SEQ_NUM_MASTER /\ ~orig.more
    BY <1>1 DEF SeqInv, AnswerInv
  <1>3. CASE toHost.more
    <2>1. hpc' = "send" /\ gNextCmd' = "R_ACK" /\ UNCHANGED <<SEQ_NUM_MASTER, orig>>
      BY <1>3 DEF HostRecvI, Continue
    <2> QED BY <1>1, <1>2, <2>1, ResumeRerunInv
  <1>4. CASE ~toHost.more
    <2>1. PICK r : EndPart(r)
      BY <1>4 DEF HostRecvI
    <2>2. hpc' = "idle"
      BY <1>1, <1>2, <2>1, EndPartLast
    <2> QED BY <1>1, <2>2, ResumeRerunInv DEF Live
  <1> QED BY <1>3, <1>4

LEMMA HostRecvRRerunInv ==
    ASSUME TypeOK, SeqInv, RerunInv, HostRecvR, UNCHANGED cardVars
    PROVE  RerunInv'
  <1>1. /\ hpc = "wait" /\ toSE' = NoBlock /\ seIn' = NoBlock
        /\ toHost.kind = "R" /\ apdu' = apdu
    BY ReadEmptiesLine DEF HostRecvR, ReadBlock, apduVars
  <1>2. seVR = SEQ_NUM_MASTER \/ orig.more => MayRun
    BY <1>1 DEF RerunInv, ExcusedInv, SoftResetting, Live
  <1>3. CASE orig.more /\ IsSequenceNumberOk(toHost)
    <2>1. EndPart(<<>>)
      BY <1>1, <1>3 DEF HostRecvR
    <2>2. hpc' = "send" /\ gNextCmd' = "I_block"
      BY <1>1, <1>3, <2>1, EndPartNext
    <2> QED BY <1>1, <1>2, <1>3, <2>2, ResumeRerunInv
  <1>4. CASE ~(orig.more /\ IsSequenceNumberOk(toHost))
    <2>1. /\ hpc' = "send" /\ gNextCmd' # "S_SWReset_REQ"
          /\ UNCHANGED <<SEQ_NUM_MASTER, orig>>
      BY <1>1, <1>4 DEF HostRecvR, ReplyToR, Continue
    <2> QED BY <1>1, <1>2, <2>1, ResumeRerunInv
  <1> QED BY <1>3, <1>4

LEMMA HostRecvRequestRerunInv ==
    ASSUME TypeOK, SeqInv, RerunInv, HostRecvRequest, UNCHANGED cardVars
    PROVE  RerunInv'
  <1>1. /\ hpc = "wait" /\ toSE' = NoBlock /\ seIn' = NoBlock
        /\ toHost.kind \in {"S_WTX_REQ", "S_IFS_REQ", "S_ABORT_REQ"}
        /\ UNCHANGED <<SEQ_NUM_MASTER, orig, apdu>>
    BY ReadEmptiesLine DEF HostRecvRequest, ReadBlock, seqVars, apduVars
  <1>2. seVR = SEQ_NUM_MASTER \/ orig.more => MayRun
    BY <1>1 DEF RerunInv, ExcusedInv, SoftResetting, Live
  <1>3. hpc' # "wait" /\ (hpc' = "send" => gNextCmd' # "S_SWReset_REQ")
    BY DEF HostRecvRequest, Continue
  <1> QED BY <1>1, <1>2, <1>3, ResumeRerunInv

LEMMA HostRecvResetRerunInv ==
    ASSUME TypeOK, SeqInv, RerunInv, HostRecvReset, UNCHANGED cardVars
    PROVE  RerunInv'
  <1>1. hpc = "wait" /\ toSE' = NoBlock /\ seIn' = NoBlock /\ apdu' = apdu
    BY ReadEmptiesLine DEF HostRecvReset, ReadBlock, apduVars
  <1>2. CASE toHost.kind = "S_RESYNC_RES"
    <2>1. MayRun
      BY <1>1, <1>2 DEF RerunInv, ExcusedInv
    <2>2. hpc' = "send" /\ gNextCmd' = "I_block"
      BY <1>2 DEF HostRecvReset, ResendWithNsZero, Continue
    <2> QED BY <1>1, <2>1, <2>2, ResumeRerunInv
  <1>3. CASE toHost.kind = "S_RESYNC_REQ"
    <2>1. hpc' = "send" /\ gNextCmd' = "S_Resync_RES" /\ ~Live'
      BY <1>3 DEF HostRecvReset, Continue, Live, HasNoCase
    <2> QED BY <1>1, <2>1, ResumeRerunInv
  <1>4. CASE toHost.kind = "S_SWRESET_RES"
    <2>1. hpc' = "failed"
      BY <1>4 DEF HostRecvReset, SoftResetEnds
    <2> QED BY <1>1, <2>1, ResumeRerunInv DEF Live
  <1> QED BY <1>2, <1>3, <1>4 DEF HostRecvReset

LEMMA HostStepRerunInv ==
    ASSUME TypeOK, SeqInv, RerunInv, Disciplined, HostStep, UNCHANGED cardVars
    PROVE  RerunInv'
  <1>1. CASE HostSend
    BY <1>1, HostSendRerunInv
  <1>2. CASE HostNoCase \/ HostIoError
    BY <1>2, FailedRerunInv DEF HostNoCase, HostIoError, wireVars, apduVars
  <1>3. CASE HostTimeout
    <2>1. toSE = NoBlock /\ seIn = NoBlock
      BY <1>3 DEF HostTimeout, CanFault, Disciplined
    <2> QED BY <1>3, <2>1, RecoveryRerunInv DEF HostTimeout
  <1>4. CASE HostRecvInconsistent
    <2>1. ReadBlock(BlockKinds \ {"none"}) /\ DoRecovery
      BY <1>4 DEF HostRecvInconsistent
    <2>2. hpc = "wait" /\ toSE' = NoBlock /\ seIn' = NoBlock
      BY <2>1, ReadEmptiesLine
    <2> QED BY <2>1, <2>2, RecoveryRerunInv
  <1>5. CASE HostRecvI
    BY <1>5, HostRecvIRerunInv
  <1>6. CASE HostRecvR
    BY <1>6, HostRecvRRerunInv
  <1>7. CASE HostRecvRequest
    BY <1>7, HostRecvRequestRerunInv
  <1>8. CASE HostRecvReset
    BY <1>8, HostRecvResetRerunInv
  <1> QED
    BY <1>1, <1>2, <1>3, <1>4, <1>5, <1>6, <1>7, <1>8 DEF HostStep

-----------------------------------------------------------------------------
(* The steps of the SE. *)
LEMMA CardTakeRerunInv ==
    ASSUME RerunInv, CardTake, UNCHANGED hostVars
    PROVE  RerunInv'
  <1>1. /\ toSE # NoBlock /\ seIn' = toSE /\ toSE' = NoBlock /\ toHost' = toHost
        /\ UNCHANGED <<seVR, executed, resyncs>>
    BY DEF CardTake, cardVars, linkVars
  <1>2. UNCHANGED <<hpc, gNextCmd, SEQ_NUM_MASTER, recoveryStatus, orig, apdu>>
    BY DEF hostVars, seqVars, apduVars
  <1>3. CommandOfApdu' /\ SoftResetIsLast'
    BY <1>1, <1>2, KindsOfBlocks DEF RerunInv, CommandOfApdu, SoftResetIsLast
  <1>4. ~SoftResetting
    BY <1>1 DEF SoftResetting
  <1>5. ExcusedInv'
    BY <1>1, <1>2, <1>4, KindsOfBlocks, CountKept
       DEF RerunInv, ExcusedInv, Live, HasNoCase
  <1> QED BY <1>1, <1>2, <1>3, <1>5, CountKept DEF RerunInv

(* The SE answers: its block was the only one it had, and what is left to  *)
(* show is what it counted and what the host will read.                    *)
LEMMA AnswerRerunInv ==
    ASSUME RerunInv, UNCHANGED hostVars, seIn # NoBlock, NEW b, Answer(b),
           ExecutedInv', RerunNeedsResync',
           Live /\ ~SoftResetting' /\ (seVR' = SEQ_NUM_MASTER \/ orig.more) => MayRun',
           hpc = "wait" /\ b.kind = "S_RESYNC_RES" => MayRun'
    PROVE  RerunInv'
  <1>1. /\ toSE' = NoBlock /\ seIn' = NoBlock /\ toHost' \in {b, NoBlock, Garbled}
    BY TransferResult DEF Answer, RerunInv, CommandOfApdu
  <1>2. UNCHANGED <<hpc, gNextCmd, SEQ_NUM_MASTER, recoveryStatus, orig, apdu>>
    BY DEF hostVars, seqVars, apduVars
  <1>3. CommandOfApdu' /\ SoftResetIsLast'
    BY <1>1, <1>2, KindsOfBlocks DEF RerunInv, CommandOfApdu, SoftResetIsLast
  <1>4. Live' <=> Live
    BY <1>2 DEF Live, HasNoCase
  <1>5. ExcusedInv'
    BY <1>1, <1>2, <1>4, KindsOfBlocks DEF ExcusedInv
  <1> QED BY <1>3, <1>5 DEF RerunInv

(* An answer that runs nothing and leaves the SE's numbers as they are. *)
LEMMA PlainAnswerRerunInv ==
    ASSUME RerunInv, UNCHANGED hostVars, seIn # NoBlock, NEW b, Answer(b),
           b.kind # "S_RESYNC_RES", UNCHANGED <<seVR, executed, resyncs>>
    PROVE  RerunInv'
  <1>1. apdu' = apdu /\ ~SoftResetting
    BY DEF hostVars, apduVars, SoftResetting
  <1>2. ExecutedInv' /\ RerunNeedsResync' /\ (MayRun' <=> MayRun)
    BY <1>1, CountKept DEF RerunInv
  <1>3. Live /\ (seVR' = SEQ_NUM_MASTER \/ orig.more) => MayRun'
    BY <1>1, <1>2 DEF RerunInv, ExcusedInv
  <1> QED BY <1>2, <1>3, AnswerRerunInv

(* The SE runs a command of the current APDU. *)
LEMMA NewRun ==
    ASSUME TypeOK, apdu' = apdu, NEW cmd \in Seq(Payload), cmd[Len(cmd)][1] = apdu,
           NEW total \in Nat,
           executed' = Append(executed, [cmd |-> cmd, frags |-> total])
    PROVE  /\ Len(executed) \in Nat
           /\ DOMAIN executed = 1..Len(executed)
           /\ DOMAIN executed' = 1..(Len(executed) + 1)
           /\ \A i \in DOMAIN executed : executed'[i] = executed[i]
           /\ executed'[Len(executed) + 1] = [cmd |-> cmd, frags |-> total]
           /\ Runs' = Runs \cup {Len(executed) + 1}
  <1>1. executed \in Seq(Run) /\ [cmd |-> cmd, frags |-> total] \in Run
    BY DEF TypeOK, CardTypeOK, Run
  <1>2. /\ Len(executed) \in Nat
        /\ DOMAIN executed = 1..Len(executed)
        /\ DOMAIN executed' = 1..(Len(executed) + 1)
        /\ \A i \in DOMAIN executed : executed'[i] = executed[i]
        /\ executed'[Len(executed) + 1] = [cmd |-> cmd, frags |-> total]
    BY <1>1
  <1>3. Runs' = Runs \cup {Len(executed) + 1}
    BY <1>2 DEF Runs
  <1> QED BY <1>2, <1>3

LEMMA CardExecuteRerunInv ==
    ASSUME TypeOK, SeqInv, RerunInv, CardExecute, UNCHANGED hostVars
    PROVE  RerunInv'
  <1>1. /\ seIn.kind = "I" /\ seIn.seq = seVR /\ ~seIn.more
        /\ seVR' = Flip(seVR) /\ resyncs' = resyncs
    BY DEF CardExecute
  <1>2. PICK total \in 1..MaxFrags, ask \in 0..MaxAsk :
            /\ executed' = Append(executed, [cmd   |-> Append(seRx, seIn.data),
                                             frags |-> total])
            /\ IF ask = 0 THEN SendFragment(Len(executed) + 1, 1, total)
                          ELSE AskHost(Len(executed) + 1, total, ask - 1)
    BY DEF CardExecute
  <1>3. seIn # NoBlock /\ MayRun /\ seIn.data[1] = apdu
    BY <1>1, KindsOfBlocks DEF RerunInv, ExcusedInv, CommandOfApdu
  <1>4. PICK b : Answer(b) /\ b.kind # "S_RESYNC_RES"
    <2>1. CASE ask = 0
      BY <1>2, <2>1, KindsOfBlocks DEF SendFragment
    <2>2. CASE ask # 0
      <3>1. PICK k \in AskKinds : Answer(SBlock(k))
        BY <1>2, <2>2 DEF AskHost, AskKinds
      <3> QED BY <3>1, KindsOfBlocks DEF AskKinds
    <2> QED BY <2>1, <2>2
  <1>5. /\ executed \in Seq(Run) /\ seRx \in Seq(Payload)
        /\ apdu \in Nat /\ resyncs \in Nat /\ seIn.data \in Payload
    BY DEF TypeOK, CardTypeOK, HostTypeOK, WireTypeOK, Block
  <1>6. apdu' = apdu /\ UNCHANGED <<SEQ_NUM_MASTER, orig>>
    BY DEF hostVars, apduVars, seqVars
  <1> DEFINE cmd == Append(seRx, seIn.data)
  <1>7. cmd # <<>> /\ cmd[Len(cmd)] = seIn.data
    BY <1>5, LastAppended
  <1>8. /\ Len(executed) \in Nat
        /\ DOMAIN executed = 1..Len(executed)
        /\ DOMAIN executed' = 1..(Len(executed) + 1)
        /\ \A i \in DOMAIN executed : executed'[i] = executed[i]
        /\ executed'[Len(executed) + 1].cmd = cmd
        /\ Runs' = Runs \cup {Len(executed) + 1}
    <2>1. cmd \in Seq(Payload) /\ cmd[Len(cmd)][1] = apdu /\ total \in Nat
      BY <1>3, <1>5, <1>7, BoundsAssumption
    <2>2. executed' = Append(executed, [cmd |-> cmd, frags |-> total])
      BY <1>2
    <2> HIDE DEF cmd
    <2> QED BY <1>6, <2>1, <2>2, NewRun
  <1>9. ExecutedInv'
    <2>1. ASSUME NEW i \in DOMAIN executed
          PROVE  /\ executed'[i].cmd # <<>>
                 /\ executed'[i].cmd[Len(executed'[i].cmd)][1] <= apdu
      BY <1>8, <2>1 DEF RerunInv, ExecutedInv
    <2>2. /\ executed'[Len(executed) + 1].cmd # <<>>
          /\ executed'[Len(executed) + 1].cmd[Len(cmd)][1] <= apdu
      BY <1>3, <1>5, <1>7, <1>8
    <2>3. \A i \in DOMAIN executed' : i \in DOMAIN executed \/ i = Len(executed) + 1
      BY <1>8
    <2> QED BY <1>6, <1>8, <2>1, <2>2, <2>3 DEF ExecutedInv
  <1>10. Runs' = Runs \cup {Len(executed) + 1}
    BY <1>8
  <1>11. RerunNeedsResync'
    <2>1. IsFiniteSet(Runs) /\ Cardinality(Runs) \in Nat
      BY RunsFinite
    <2>2. PICK S, x : S = Runs /\ x = Len(executed) + 1
      OBVIOUS
    <2>3. Cardinality(S \cup {x}) \in {Cardinality(S), Cardinality(S) + 1}
      BY <2>1, <2>2, FS_AddElement
    <2>4. Cardinality(Runs)' = Cardinality(S \cup {x})
      BY <1>10, <2>2
    <2>5. Cardinality(Runs)' <= Cardinality(Runs) + 1 /\ Cardinality(Runs)' \in Nat
      BY <2>1, <2>2, <2>3, <2>4
    <2> QED BY <1>1, <1>3, <1>5, <2>1, <2>5 DEF MayRun, RerunNeedsResync
  <1>12. Live => seVR' # SEQ_NUM_MASTER /\ ~orig.more
    <2> SUFFICES ASSUME Live PROVE seVR' # SEQ_NUM_MASTER /\ ~orig.more
      OBVIOUS
    <2>1. hpc = "wait"
      BY <1>3 DEF Live, SeqInv, LineInv
    <2>2. seIn.seq = SEQ_NUM_MASTER /\ seIn.more = orig.more
      BY <1>1, <2>1 DEF SeqInv, CommandInv
    <2> QED
      BY <1>1, <2>2, FlipIsBit DEF TypeOK, CardTypeOK, HostTypeOK
  <1> QED BY <1>3, <1>4, <1>9, <1>11, <1>12, AnswerRerunInv

LEMMA CardStepRerunInv ==
    ASSUME TypeOK, SeqInv, RerunInv, CardStep, UNCHANGED hostVars
    PROVE  RerunInv'
  <1>1. apdu' = apdu /\ UNCHANGED <<hpc, recoveryStatus, SEQ_NUM_MASTER, orig>>
    BY DEF hostVars, apduVars, seqVars
  <1>2. CASE CardTake
    BY <1>2, CardTakeRerunInv
  <1>3. CASE CardReject
    BY <1>3, KindsOfBlocks, PlainAnswerRerunInv DEF CardReject, cardVars, linkVars
  <1>4. CASE CardChain
    <2>1. /\ seIn.kind = "I" /\ seIn.more /\ Answer(RBlock(Flip(seVR)))
          /\ UNCHANGED <<executed, resyncs>>
      BY <1>4 DEF CardChain
    <2>2. seIn # NoBlock
      BY <2>1, KindsOfBlocks
    <2>3. Live => MayRun
      <3> SUFFICES ASSUME Live PROVE MayRun
        OBVIOUS
      <3>1. hpc = "wait"
        BY <2>2 DEF Live, SeqInv, LineInv
      <3>2. orig.more
        BY <2>1, <3>1 DEF SeqInv, CommandInv
      <3> QED BY <2>2, <3>2 DEF RerunInv, ExcusedInv, SoftResetting
    <2>4. ExecutedInv' /\ RerunNeedsResync' /\ (MayRun' <=> MayRun)
      BY <1>1, <2>1, CountKept DEF RerunInv
    <2> QED BY <2>1, <2>2, <2>3, <2>4, KindsOfBlocks, AnswerRerunInv
  <1>5. CASE CardExecute
    BY <1>5, CardExecuteRerunInv
  <1>6. CASE CardRetransmit
    <2>1. lastI.kind = "I" /\ Answer(lastI) /\ seIn # NoBlock
          /\ UNCHANGED <<seVR, executed, resyncs>>
      BY <1>6, KindsOfBlocks
         DEF CardRetransmit, AsksAgain, SeqInv, LastBlockInv, cardVars, linkVars
    <2>2. PICK b : b = lastI
      OBVIOUS
    <2> QED BY <2>1, <2>2, PlainAnswerRerunInv
  <1>7. CASE CardContinue
    <2>1. PICK b : Answer(b) /\ b.kind = "I"
      BY <1>7, KindsOfBlocks DEF CardContinue, SendFragment
    <2>2. seIn # NoBlock /\ UNCHANGED <<seVR, executed, resyncs>>
      BY <1>7, KindsOfBlocks DEF CardContinue
    <2> QED BY <2>1, <2>2, PlainAnswerRerunInv
  <1>8. CASE CardAskAgain
    <2>1. PICK left : AskHost(seRun, seTotal, left)
      BY <1>8 DEF CardAskAgain
    <2>2. PICK k \in AskKinds : Answer(SBlock(k))
      BY <2>1 DEF AskHost, AskKinds
    <2>3. seIn # NoBlock /\ UNCHANGED <<seVR, executed, resyncs>>
      BY <1>8, KindsOfBlocks DEF CardAskAgain
    <2>4. SBlock(k).kind # "S_RESYNC_RES"
      BY <2>2, KindsOfBlocks DEF AskKinds
    <2> QED BY <2>2, <2>3, <2>4, PlainAnswerRerunInv
  <1>9. CASE CardResync
    <2>1. /\ Answer(SBlock("S_RESYNC_RES")) /\ seIn # NoBlock
          /\ resyncs' = resyncs + 1 /\ executed' = executed
      BY <1>9, KindsOfBlocks DEF CardResync
    <2>2. Runs' = Runs
      BY <1>1, <2>1 DEF Runs
    <2>3. Cardinality(Runs)' = Cardinality(Runs)
      BY <2>2
    <2>4. Cardinality(Runs) \in Nat /\ resyncs \in Nat
      BY RunsFinite DEF TypeOK, CardTypeOK
    <2>5. MayRun' /\ RerunNeedsResync'
      BY <2>1, <2>3, <2>4 DEF RerunInv, RerunNeedsResync, MayRun
    <2>6. ExecutedInv'
      BY <1>1, <2>1 DEF RerunInv, ExecutedInv
    <2> QED BY <2>1, <2>5, <2>6, AnswerRerunInv
  <1>10. CASE CardSoftReset
    <2>1. /\ Answer(SBlock("S_SWRESET_RES")) /\ seIn # NoBlock
          /\ seIn.kind = "S_SWRESET_REQ"
          /\ UNCHANGED <<executed, resyncs>>
      BY <1>10, KindsOfBlocks DEF CardSoftReset
    <2>2. ExecutedInv' /\ RerunNeedsResync'
      BY <1>1, <2>1, CountKept DEF RerunInv
    <2>3. /\ toSE' = NoBlock /\ seIn' = NoBlock
          /\ toHost' \in {SBlock("S_SWRESET_RES"), NoBlock, Garbled}
      BY <2>1, TransferResult DEF Answer, RerunInv, CommandOfApdu
    <2>4. Live => SoftResetting'
      <3> SUFFICES ASSUME Live PROVE SoftResetting'
        OBVIOUS
      <3>1. hpc = "wait"
        BY <2>1 DEF Live, SeqInv, LineInv
      <3>2. recoveryStatus = "WARM_RESET"
        BY <2>1, <3>1 DEF RerunInv, SoftResetIsLast
      <3> QED BY <1>1, <2>3, <3>1, <3>2, KindsOfBlocks DEF SoftResetting
    <2> QED BY <2>1, <2>2, <2>4, KindsOfBlocks, AnswerRerunInv
  <1> QED
    BY <1>2, <1>3, <1>4, <1>5, <1>6, <1>7, <1>8, <1>9, <1>10 DEF CardStep

-----------------------------------------------------------------------------
LEMMA ResetRerunInv ==
    ASSUME RerunInv, Reset
    PROVE  RerunInv'
  <1>1. /\ toSE' = NoBlock /\ seIn' = NoBlock /\ UNCHANGED <<executed, resyncs, apdu>>
        /\ hpc' \in {"idle", "failed"}
    BY DEF Reset, CardPowerReset, Setup, SetupNoAtp, SetupNoIfs, SetupWrongIfs, SetupOk,
           apduVars
  <1> QED
    BY <1>1, CountKept, KindsOfBlocks
       DEF RerunInv, CommandOfApdu, SoftResetIsLast, ExcusedInv, Live

(* RerunInv is inductive beside SeqInv. *)
THEOREM RerunInvHolds ==
    ASSUME Disciplined
    PROVE  Spec => []RerunInv
  <1>1. TypeOK /\ SeqInv /\ RerunInv /\ [Next]_vars => RerunInv'
    <2> SUFFICES ASSUME TypeOK, SeqInv, RerunInv, [Next]_vars PROVE RerunInv'
      OBVIOUS
    <2>1. CASE Submit
      BY <2>1, SubmitRerunInv
    <2>2. CASE Host
      BY <2>2, HostStepRerunInv DEF Host
    <2>3. CASE Card
      BY <2>3, CardStepRerunInv DEF Card
    <2>4. CASE Reset
      BY <2>4, ResetRerunInv
    <2>5. CASE Finished \/ UNCHANGED vars
      <3>1. UNCHANGED vars
        BY <2>5 DEF Finished
      <3>2. UNCHANGED <<executed, resyncs, apdu>>
        BY <3>1 DEF vars, cardVars, hostVars, apduVars
      <3> QED
        BY <3>1, <3>2, CountKept
           DEF vars, wireVars, hostVars, cardVars, seqVars, apduVars, linkVars,
               RerunInv, CommandOfApdu, SoftResetIsLast, ExcusedInv, Live, HasNoCase,
               SoftResetting
    <2> QED BY <2>1, <2>2, <2>3, <2>4, <2>5 DEF Next
  <1> QED
    BY <1>1, InitRerunInv, TypeCorrect, SeqInvHolds, PTL DEF Spec

(* An APDU is run again only when a RESYNCH made the SE forget that it ran *)
(* it, once per RESYNCH, whatever the line loses or damages.               *)
THEOREM RerunNeedsResyncHolds ==
    ASSUME Disciplined
    PROVE  Spec => []RerunNeedsResync
  <1>1. RerunInv => RerunNeedsResync
    BY DEF RerunInv
  <1> QED
    BY <1>1, RerunInvHolds, PTL

-----------------------------------------------------------------------------
(* Three faults. *)
LEMMA TransferCost ==
    ASSUME NEW b, NEW t \in Transfers(b)
    PROVE  \/ t.block = b /\ t.faults = faults
           \/ t.block \in {NoBlock, Garbled} /\ t.faults = faults + 1
  BY DEF Transfers

LEMMA StepsAreSteps ==
    /\ \A s \in RecoveryStates : Steps[s] \in 0..3
    /\ Steps["OK"] = 0 /\ Steps["RESEND_1"] = 1 /\ Steps["RESYNC_1"] = 2
    /\ Steps["WARM_RESET"] = 3 /\ Steps["KO"] = 3
  BY DEF Steps, RecoveryStates

LEMMA InitRepairInv == Init => RepairInv
  BY KindsOfBlocks
     DEF Init, WireInit, HostInit, CardInit, RepairInv, StepInv, SpareInv, SlaveInv,
         InExchange, Live

LEMMA SubmitRepairInv ==
    ASSUME TypeOK, SeqInv, RepairInv, Disciplined, Submit
    PROVE  RepairInv'
  <1>1. PICK n \in 1..MaxParts : Start(n)
    BY DEF Submit
  <1>2. /\ hpc = "idle" /\ hpc' = "send" /\ recoveryStatus' = "OK" /\ faults' = 0
        /\ UNCHANGED <<SEQ_NUM_SLAVE, seVS, seNext, seTotal, seWait, lastI>>
    BY <1>1 DEF Start, BeginPart, Disciplined, Submit, seqVars, linkVars, oweVars
  <1>3. SEQ_NUM_SLAVE = seVS
    BY <1>2 DEF SeqInv, IdleInv
  <1>4. StepInv' /\ SpareInv'
    BY <1>2, StepsAreSteps DEF StepInv, SpareInv
  <1>5. SlaveInv'
    BY <1>2, <1>3 DEF RepairInv, SlaveInv
  <1> QED BY <1>4, <1>5 DEF RepairInv

(* The host leaves the SE alone, so SlaveInv is disturbed only by what it  *)
(* does to its own number, or when it goes on after a RESYNCH.             *)
LEMMA SlaveKept ==
    ASSUME SlaveInv, UNCHANGED <<SEQ_NUM_SLAVE, cardVars>>,
           faults' = 0 => faults = 0,
           Live' => Live /\ ~(hpc = "wait" /\ toHost.kind = "S_RESYNC_RES"),
           hpc' = "wait" => toHost'.kind # "S_RESYNC_RES"
    PROVE  SlaveInv'
  BY DEF SlaveInv, cardVars, linkVars, oweVars

LEMMA HostSendRepairInv ==
    ASSUME TypeOK, SeqInv, RepairInv, HostSend, UNCHANGED cardVars
    PROVE  RepairInv'
  <1>1. PICK t \in Transfers(CommandBlock) : toSE' = t.block /\ faults' = t.faults
    BY DEF HostSend
  <1>2. /\ hpc = "send" /\ ~HasNoCase /\ hpc' = "wait"
        /\ UNCHANGED <<seIn, toHost, gNextCmd, SEQ_NUM_MASTER, SEQ_NUM_SLAVE,
                       recoveryStatus, orig>>
    BY DEF HostSend, seqVars
  <1>3. seIn' = NoBlock /\ toHost' = NoBlock
    BY <1>2 DEF SeqInv, LineInv
  <1>4. /\ faults \in Nat /\ recoveryStatus \in RecoveryStates
        /\ Steps[recoveryStatus] \in 0..3 /\ Steps[recoveryStatus] <= faults
    BY <1>2, StepsAreSteps
       DEF TypeOK, WireTypeOK, HostTypeOK, RepairInv, StepInv, InExchange
  <1>5. \/ toSE' = CommandBlock /\ faults' = faults
        \/ toSE' \in {NoBlock, Garbled} /\ faults' = faults + 1 /\ Spare'
    BY <1>1, <1>2, <1>4, TransferCost DEF Spare
  <1>6. /\ CommandBlock.kind \notin {"GARBLED", "none"}
        /\ gNextCmd = "R_Other_Error" => CommandBlock.kind = "R"
        /\ gNextCmd = "S_Resync_REQ" => CommandBlock.kind = "S_RESYNC_REQ"
    BY <1>2, KindsOfBlocks DEF CommandBlock
  <1>7. StepInv'
    BY <1>2, <1>4, <1>5 DEF RepairInv, StepInv, InExchange
  <1>8. SpareInv'
    <2>1. Consistent(toHost)'
      BY <1>3, KindsOfBlocks DEF Consistent
    <2>2. NoGoodAnswer' => Spare'
      BY <1>5, <1>6, <2>1, KindsOfBlocks DEF NoGoodAnswer
    <2>3. \A b \in {toSE', seIn'} \ {NoBlock} :
              /\ b.kind = "GARBLED" => Spare'
              /\ recoveryStatus = "RESEND_1" => b.kind = "R" \/ Spare'
              /\ recoveryStatus = "RESYNC_1" => b.kind = "S_RESYNC_REQ" \/ Spare'
      BY <1>2, <1>3, <1>5, <1>6 DEF RepairInv, StepInv, InExchange
    <2> QED BY <1>2, <1>3, <2>2, <2>3, KindsOfBlocks DEF SpareInv
  <1>9. SlaveInv'
    <2>1. faults' = 0 => faults = 0
      BY <1>4, <1>5
    <2>2. Live /\ hpc # "wait" /\ toHost'.kind # "S_RESYNC_RES"
      BY <1>2, <1>3, KindsOfBlocks DEF Live
    <2> QED BY <1>2, <2>1, <2>2, SlaveKept DEF RepairInv
  <1> QED BY <1>7, <1>8, <1>9 DEF RepairInv

LEMMA FailedRepairInv ==
    ASSUME RepairInv, hpc' = "failed", UNCHANGED cardVars
    PROVE  RepairInv'
  BY DEF RepairInv, StepInv, SpareInv, SlaveInv, InExchange, Live, cardVars, linkVars,
         oweVars

(* A good answer ends recovery. *)
LEMMA RepairedRepairInv ==
    ASSUME TypeOK, hpc' # "wait", recoveryStatus' = "OK", faults' = faults, SlaveInv'
    PROVE  RepairInv'
  BY StepsAreSteps
     DEF RepairInv, StepInv, SpareInv, InExchange, TypeOK, WireTypeOK

(* A step of recovery: there was a fault for it. *)
LEMMA RecoveryRepairInv ==
    ASSUME TypeOK, RepairInv, DoRecovery, hpc = "wait", NoGoodAnswer,
           toHost.kind # "S_RESYNC_RES", faults' = faults, UNCHANGED cardVars
    PROVE  RepairInv'
  <1>1. CASE hpc' = "failed"
    BY <1>1, FailedRepairInv
  <1>2. CASE hpc' # "failed"
    <2>1. hpc' = "send" /\ UNCHANGED SEQ_NUM_SLAVE
      BY <1>2 DEF DoRecovery, seqVars
    <2>2. Spare /\ faults \in Nat /\ recoveryStatus \in RecoveryStates
      BY DEF RepairInv, SpareInv, TypeOK, WireTypeOK, HostTypeOK
    <2>3. StepInv'
      BY <1>2, <2>2, StepsAreSteps
         DEF DoRecovery, RecoveryStates, NextRecovery, RecoveryCommand, Spare, StepInv
    <2>4. SlaveInv'
      BY <2>1, SlaveKept DEF RepairInv, Live
    <2> QED BY <2>1, <2>3, <2>4 DEF RepairInv, SpareInv
  <1> QED BY <1>1, <1>2

LEMMA HostRecvIRepairInv ==
    ASSUME TypeOK, SeqInv, RepairInv, HostRecvI, UNCHANGED cardVars
    PROVE  RepairInv'
  <1>1. /\ hpc = "wait" /\ faults' = faults
        /\ toHost.kind = "I" /\ toHost.seq = SEQ_NUM_SLAVE
        /\ SEQ_NUM_SLAVE' = Flip(SEQ_NUM_SLAVE)
    BY DEF HostRecvI, ReadBlock, Consistent, IsSequenceNumberOk
  <1>2. toHost.seq = Flip(seVS) /\ ~orig.more
    BY <1>1 DEF SeqInv, AnswerInv
  <1>3. UNCHANGED <<seVS, seNext, seTotal, seWait, lastI>>
    BY DEF cardVars, linkVars, oweVars
  <1>4. SEQ_NUM_SLAVE' = seVS
    BY <1>1, <1>2, FlipIsBit DEF TypeOK, CardTypeOK
  <1>5. hpc' # "wait" /\ recoveryStatus' = "OK"
    BY <1>1, <1>2 DEF HostRecvI, Continue, EndPart, BeginPart
  <1>6. SlaveInv'
    BY <1>3, <1>4, <1>5 DEF RepairInv, SlaveInv
  <1> QED BY <1>1, <1>5, <1>6, RepairedRepairInv

LEMMA HostRecvRRepairInv ==
    ASSUME TypeOK, RepairInv, HostRecvR, UNCHANGED cardVars
    PROVE  RepairInv'
  <1>1. /\ hpc = "wait" /\ faults' = faults /\ toHost.kind = "R"
        /\ SEQ_NUM_SLAVE' = SEQ_NUM_SLAVE
        /\ hpc' # "wait" /\ recoveryStatus' = "OK"
    BY DEF HostRecvR, ReadBlock, Continue, EndPart, BeginPart
  <1>2. SlaveInv'
    BY <1>1, SlaveKept DEF RepairInv, Live
  <1> QED BY <1>1, <1>2, RepairedRepairInv

LEMMA HostRecvRequestRepairInv ==
    ASSUME TypeOK, RepairInv, HostRecvRequest, UNCHANGED cardVars
    PROVE  RepairInv'
  <1>1. /\ hpc = "wait" /\ faults' = faults /\ toHost.kind # "S_RESYNC_RES"
        /\ SEQ_NUM_SLAVE' = SEQ_NUM_SLAVE
        /\ hpc' # "wait" /\ recoveryStatus' = "OK"
    BY DEF HostRecvRequest, ReadBlock, Continue, seqVars
  <1>2. SlaveInv'
    BY <1>1, SlaveKept DEF RepairInv, Live
  <1> QED BY <1>1, <1>2, RepairedRepairInv

LEMMA HostRecvResetRepairInv ==
    ASSUME TypeOK, RepairInv, HostRecvReset, UNCHANGED cardVars
    PROVE  RepairInv'
  <1>1. /\ hpc = "wait" /\ faults' = faults /\ SEQ_NUM_SLAVE' = 0
        /\ hpc' # "wait" /\ recoveryStatus' = "OK"
    BY DEF HostRecvReset, ReadBlock, ResetSequenceNumbers, ResendWithNsZero, Continue,
           SoftResetEnds
  <1>2. UNCHANGED <<seVS, seNext, seTotal, seWait, lastI>>
    BY DEF cardVars, linkVars, oweVars
  <1>3. CASE toHost.kind = "S_RESYNC_RES"
    <2>1. seVS = 0
      BY <1>1, <1>3 DEF RepairInv, SlaveInv
    <2>2. SlaveInv'
      BY <1>1, <1>2, <2>1 DEF RepairInv, SlaveInv
    <2> QED BY <1>1, <2>2, RepairedRepairInv
  <1>4. CASE toHost.kind # "S_RESYNC_RES"
    <2>1. ~Live'
      BY <1>4 DEF HostRecvReset, Continue, SoftResetEnds, Live, HasNoCase
    <2>2. SlaveInv'
      BY <1>1, <1>2, <2>1 DEF RepairInv, SlaveInv
    <2> QED BY <1>1, <2>2, RepairedRepairInv
  <1> QED BY <1>3, <1>4

LEMMA HostStepRepairInv ==
    ASSUME TypeOK, SeqInv, RepairInv, Disciplined, HostStep, UNCHANGED cardVars
    PROVE  RepairInv'
  <1>1. CASE HostSend
    BY <1>1, HostSendRepairInv
  <1>2. CASE HostNoCase \/ HostIoError
    BY <1>2, FailedRepairInv DEF HostNoCase, HostIoError
  <1>3. CASE HostTimeout
    <2>1. /\ hpc = "wait" /\ toSE = NoBlock /\ seIn = NoBlock /\ toHost = NoBlock
          /\ faults' = faults /\ DoRecovery
      BY <1>3 DEF HostTimeout, CanFault, Disciplined
    <2> QED BY <2>1, RecoveryRepairInv, KindsOfBlocks DEF NoGoodAnswer
  <1>4. CASE HostRecvInconsistent
    <2>1. hpc = "wait" /\ ~Consistent(toHost) /\ faults' = faults /\ DoRecovery
      BY <1>4 DEF HostRecvInconsistent, ReadBlock
    <2>2. toHost.kind # "S_RESYNC_RES"
      BY <2>1 DEF Consistent
    <2> QED BY <2>1, <2>2, RecoveryRepairInv DEF NoGoodAnswer
  <1>5. CASE HostRecvI
    BY <1>5, HostRecvIRepairInv
  <1>6. CASE HostRecvR
    BY <1>6, HostRecvRRepairInv
  <1>7. CASE HostRecvRequest
    BY <1>7, HostRecvRequestRepairInv
  <1>8. CASE HostRecvReset
    BY <1>8, HostRecvResetRepairInv
  <1> QED
    BY <1>1, <1>2, <1>3, <1>4, <1>5, <1>6, <1>7, <1>8 DEF HostStep

-----------------------------------------------------------------------------
(* What the SE still owes, it owes after a request or after a fragment. *)
LEMMA OwesAfterBlock ==
    ASSUME lastI = NoBlock => seWait \/ seNext > seTotal, CardStep
    PROVE  lastI' = NoBlock => seWait' \/ seNext' > seTotal'
  <1>1. ASSUME NEW run, NEW next, NEW total, SendFragment(run, next, total)
        PROVE  lastI' # NoBlock
    BY <1>1, KindsOfBlocks DEF SendFragment
  <1>2. ASSUME NEW run, NEW total, NEW left, AskHost(run, total, left)
        PROVE  seWait'
    BY <1>2 DEF AskHost
  <1>3. CASE CardTake \/ CardReject \/ CardRetransmit
    BY <1>3 DEF CardTake, CardReject, CardRetransmit, cardVars, oweVars
  <1>4. CASE CardChain \/ CardResync \/ CardSoftReset
    BY <1>4 DEF CardChain, CardResync, CardSoftReset, ForgetLink, OweNothing
  <1>5. CASE CardExecute
    BY <1>1, <1>2, <1>5 DEF CardExecute
  <1>6. CASE CardContinue
    BY <1>1, <1>6 DEF CardContinue
  <1>7. CASE CardAskAgain
    BY <1>2, <1>7 DEF CardAskAgain
  <1> QED BY <1>3, <1>4, <1>5, <1>6, <1>7 DEF CardStep

(* What the SE numbers before anything went wrong has the number expected. *)
LEMMA SlaveAgrees ==
    ASSUME SeqInv, SlaveInv, hpc = "wait", seIn # NoBlock, faults = 0,
           seVR = SEQ_NUM_MASTER \/ seWait
    PROVE  SEQ_NUM_SLAVE = seVS
  <1>1. toHost = NoBlock
    BY DEF SeqInv, LineInv
  <1>2. CASE lastI = NoBlock
    BY <1>1, <1>2, KindsOfBlocks DEF SlaveInv, Live
  <1>3. CASE lastI # NoBlock
    BY <1>3 DEF SeqInv, LastBlockInv, OweInv, Live
  <1> QED BY <1>2, <1>3

(* Other blocks than those of recovery come before it, or with a fault to  *)
(* spare.                                                                  *)
LEMMA BeforeRecovery ==
    ASSUME TypeOK, RepairInv, hpc = "wait", seIn # NoBlock,
           seIn.kind \notin {"R", "S_RESYNC_REQ"}
    PROVE  Spare \/ faults = 0
  <1>1. faults \in Nat /\ recoveryStatus \in RecoveryStates
    BY DEF TypeOK, WireTypeOK, HostTypeOK
  <1>2. Steps[recoveryStatus] <= faults
    BY DEF RepairInv, StepInv, InExchange
  <1>3. recoveryStatus \in {"RESEND_1", "RESYNC_1"} => Spare
    BY DEF RepairInv, SpareInv
  <1> QED BY <1>1, <1>2, <1>3, StepsAreSteps DEF Spare, RecoveryStates

LEMMA AnswerRepairInv ==
    ASSUME TypeOK, SeqInv, RepairInv, CardStep, hpc = "wait", seIn # NoBlock,
           UNCHANGED hostVars, NEW b, Answer(b),
           b.kind \notin {"GARBLED", "none"},
           b.kind = "I" => b.seq = SEQ_NUM_SLAVE \/ Spare,
           b.kind = "S_SWRESET_RES" => faults >= 3,
           b.kind = "S_RESYNC_RES" => seVS' = 0,
           faults = 0 /\ lastI' = NoBlock =>
               SEQ_NUM_SLAVE = seVS' \/ b.kind = "S_RESYNC_RES"
    PROVE  RepairInv'
  <1>1. PICK t \in Transfers(b) : toHost' = t.block /\ faults' = t.faults
    BY DEF Answer
  <1>2. toSE' = NoBlock /\ seIn' = NoBlock
    BY AnswerLine DEF SeqInv
  <1>3. UNCHANGED <<hpc, gNextCmd, SEQ_NUM_MASTER, SEQ_NUM_SLAVE, recoveryStatus, orig>>
    BY DEF hostVars, seqVars
  <1>4. /\ faults \in Nat /\ recoveryStatus \in RecoveryStates
        /\ Steps[recoveryStatus] \in 0..3 /\ Steps[recoveryStatus] <= faults
    BY StepsAreSteps
       DEF TypeOK, WireTypeOK, HostTypeOK, RepairInv, StepInv, InExchange
  <1>5. \/ toHost' = b /\ faults' = faults
        \/ toHost' \in {NoBlock, Garbled} /\ faults' = faults + 1 /\ Spare'
    BY <1>1, <1>3, <1>4, TransferCost DEF Spare
  <1>6. StepInv'
    BY <1>3, <1>4, <1>5 DEF RepairInv, StepInv, InExchange
  <1>7. SpareInv'
    <2>1. ASSUME toHost' = b, faults' = faults, ~Spare
          PROVE  ~NoGoodAnswer'
      <3>1. Consistent(b)'
        BY <1>3, <2>1 DEF Consistent, IsSequenceNumberOk
      <3> QED BY <2>1, <3>1, KindsOfBlocks DEF NoGoodAnswer
    <2>2. faults' = faults => (Spare' <=> Spare)
      BY <1>3 DEF Spare
    <2>3. NoGoodAnswer' => Spare'
      BY <1>5, <2>1, <2>2
    <2>4. toHost'.kind = "S_SWRESET_RES" => faults' >= 3
      BY <1>5, KindsOfBlocks
    <2> QED BY <1>2, <2>3, <2>4 DEF SpareInv
  <1>8. SlaveInv'
    <2>1. lastI' = NoBlock => seWait' \/ seNext' > seTotal'
      BY OwesAfterBlock DEF RepairInv, SlaveInv
    <2>2. toHost'.kind = "S_RESYNC_RES" => seVS' = 0
      BY <1>5, KindsOfBlocks
    <2>3. faults' = 0 => faults = 0 /\ toHost' = b
      BY <1>4, <1>5
    <2> QED BY <1>3, <2>1, <2>2, <2>3 DEF SlaveInv
  <1> QED BY <1>6, <1>7, <1>8 DEF RepairInv

LEMMA SendFragmentRepairInv ==
    ASSUME TypeOK, SeqInv, RepairInv, CardStep, hpc = "wait", seIn # NoBlock,
           UNCHANGED hostVars, SEQ_NUM_SLAVE = seVS \/ Spare,
           NEW run, NEW next, NEW total, SendFragment(run, next, total)
    PROVE  RepairInv'
  <1>1. PICK b : b = IBlock(seVS, next < total, <<run, next>>)
    OBVIOUS
  <1>2. b.kind = "I" /\ b.seq = seVS
    BY <1>1, KindsOfBlocks
  <1>3. Answer(b) /\ lastI' # NoBlock
    BY <1>1, KindsOfBlocks DEF SendFragment
  <1> QED BY <1>2, <1>3, AnswerRepairInv

LEMMA AskHostRepairInv ==
    ASSUME TypeOK, SeqInv, RepairInv, CardStep, hpc = "wait", seIn # NoBlock,
           UNCHANGED hostVars, faults = 0 => SEQ_NUM_SLAVE = seVS,
           NEW run, NEW total, NEW left, AskHost(run, total, left)
    PROVE  RepairInv'
  <1>1. PICK k \in AskKinds : Answer(SBlock(k))
    BY DEF AskHost, AskKinds
  <1>2. PICK b : b = SBlock(k)
    OBVIOUS
  <1>3. b.kind \in AskKinds
    BY <1>2, KindsOfBlocks
  <1>4. seVS' = seVS
    BY DEF AskHost
  <1> QED BY <1>1, <1>2, <1>3, <1>4, AnswerRepairInv DEF AskKinds

LEMMA CardStepRepairInv ==
    ASSUME TypeOK, SeqInv, SoftResetIsLast, RepairInv, CardStep, UNCHANGED hostVars
    PROVE  RepairInv'
  <1>1. UNCHANGED <<hpc, gNextCmd, SEQ_NUM_MASTER, SEQ_NUM_SLAVE, recoveryStatus, orig>>
    BY DEF hostVars, seqVars
  <1>2. toSE # NoBlock \/ seIn # NoBlock
    BY KindsOfBlocks
       DEF CardStep, CardTake, CardReject, CardChain, CardExecute, CardRetransmit,
           AsksAgain, CardContinue, CardAskAgain, CardResync, CardSoftReset
  <1>3. hpc \in {"wait", "failed"}
    BY <1>2 DEF SeqInv, LineInv, TypeOK, HostTypeOK
  <1>4. CASE hpc = "failed"
    <2>1. lastI' = NoBlock => seWait' \/ seNext' > seTotal'
      BY OwesAfterBlock DEF RepairInv, SlaveInv
    <2> QED
      BY <1>1, <1>4, <2>1
         DEF RepairInv, StepInv, SpareInv, SlaveInv, InExchange, Live
  <1>5. CASE hpc = "wait"
    <2> USE <1>5
    <2>1. /\ seIn.kind = "I" => seIn.seq = SEQ_NUM_MASTER
          /\ seIn.kind = "R" => seIn.seq = SEQ_NUM_SLAVE
      BY DEF SeqInv, CommandInv
    <2>2. seIn # NoBlock => toHost = NoBlock
      BY DEF SeqInv, LineInv
    <2>3. CASE CardTake
      <3>1. /\ seIn' = toSE /\ toSE' = NoBlock /\ toHost' = NoBlock /\ toSE # NoBlock
            /\ faults' = faults
            /\ UNCHANGED <<seVS, seNext, seTotal, seWait, lastI>>
        BY <2>3 DEF CardTake, cardVars, linkVars, oweVars, SeqInv, LineInv
      <3>2. StepInv'
        BY <1>1, <3>1 DEF RepairInv, StepInv, InExchange
      <3>3. Spare' <=> Spare
        BY <1>1, <3>1 DEF Spare
      <3>4. ~NoGoodAnswer'
        BY <3>1, KindsOfBlocks DEF NoGoodAnswer, Consistent
      <3>5. SpareInv'
        BY <1>1, <3>1, <3>3, <3>4, KindsOfBlocks DEF RepairInv, SpareInv
      <3>6. toHost = NoBlock
        BY <3>1 DEF SeqInv, LineInv
      <3>7. SlaveInv'
        BY <1>1, <3>1, <3>6, KindsOfBlocks DEF RepairInv, SlaveInv, Live
      <3> QED BY <3>2, <3>5, <3>7 DEF RepairInv
    <2>4. CASE CardReject
      <3>1. Answer(RBlock(seVR)) /\ seIn # NoBlock /\ UNCHANGED <<seVS, lastI>>
        BY <2>4, KindsOfBlocks DEF CardReject, cardVars, linkVars, oweVars
      <3>2. faults = 0 /\ lastI' = NoBlock => SEQ_NUM_SLAVE = seVS'
        BY <2>2, <3>1, KindsOfBlocks DEF RepairInv, SlaveInv, Live
      <3> QED BY <3>1, <3>2, KindsOfBlocks, AnswerRepairInv
    <2>5. CASE CardChain
      <3>1. /\ Answer(RBlock(Flip(seVR))) /\ seIn.kind = "I" /\ seIn.seq = seVR
            /\ seVS' = seVS
        BY <2>5 DEF CardChain
      <3>2. seIn # NoBlock
        BY <3>1, KindsOfBlocks
      <3>3. faults = 0 => SEQ_NUM_SLAVE = seVS'
        BY <2>1, <3>1, <3>2, SlaveAgrees DEF RepairInv
      <3> QED BY <3>1, <3>2, <3>3, KindsOfBlocks, AnswerRepairInv
    <2>6. CASE CardExecute
      <3>1. seIn.kind = "I" /\ seIn.seq = seVR
        BY <2>6 DEF CardExecute
      <3>2. seIn # NoBlock
        BY <3>1, KindsOfBlocks
      <3>3. faults = 0 => SEQ_NUM_SLAVE = seVS
        BY <2>1, <3>1, <3>2, SlaveAgrees DEF RepairInv
      <3>4. SEQ_NUM_SLAVE = seVS \/ Spare
        BY <3>1, <3>2, <3>3, BeforeRecovery
      <3>5. PICK total \in 1..MaxFrags, ask \in 0..MaxAsk :
              IF ask = 0 THEN SendFragment(Len(executed) + 1, 1, total)
                         ELSE AskHost(Len(executed) + 1, total, ask - 1)
        BY <2>6 DEF CardExecute
      <3>6. CASE ask = 0
        <4>1. SendFragment(Len(executed) + 1, 1, total)
          BY <3>5, <3>6
        <4> QED BY <3>2, <3>4, <4>1, SendFragmentRepairInv
      <3>7. CASE ask # 0
        <4>1. AskHost(Len(executed) + 1, total, ask - 1)
          BY <3>5, <3>7
        <4> QED BY <3>2, <3>3, <4>1, AskHostRepairInv
      <3> QED BY <3>6, <3>7
    <2>7. CASE CardRetransmit
      <3>1. /\ seIn.kind = "R" /\ lastI # NoBlock /\ seIn.seq # seVS /\ Answer(lastI)
            /\ UNCHANGED <<seVS, lastI>>
        BY <2>7 DEF CardRetransmit, AsksAgain, cardVars, linkVars, oweVars
      <3>2. seIn # NoBlock
        BY <3>1, KindsOfBlocks
      <3>3. lastI.kind = "I" /\ lastI.seq = Flip(seVS)
        BY <3>1 DEF SeqInv, LastBlockInv
      <3>4. lastI.seq = SEQ_NUM_SLAVE
        BY <2>1, <3>1, <3>3 DEF TypeOK, HostTypeOK, CardTypeOK, Bit, Flip
      <3>5. PICK b : b = lastI
        OBVIOUS
      <3> QED BY <3>1, <3>2, <3>3, <3>4, <3>5, AnswerRepairInv
    <2>8. CASE CardContinue
      <3>1. SendFragment(seRun, seNext, seTotal) /\ seIn # NoBlock
        BY <2>8, KindsOfBlocks DEF CardContinue
      <3>2. SEQ_NUM_SLAVE = seVS \/ Spare
        <4>1. CASE seIn.kind = "R" /\ ~AsksAgain /\ ~seWait /\ seNext <= seTotal
          <5>1. lastI # NoBlock
            BY <4>1 DEF RepairInv, SlaveInv, TypeOK, CardTypeOK
          <5> QED BY <2>1, <4>1, <5>1 DEF AsksAgain
        <4>2. CASE seIn.kind = "S_WTX_RES" /\ seWait
          BY <3>1, <4>2, BeforeRecovery, SlaveAgrees DEF RepairInv
        <4> QED BY <2>8, <4>1, <4>2 DEF CardContinue
      <3> QED BY <3>1, <3>2, SendFragmentRepairInv
    <2>9. CASE CardAskAgain
      <3>1. PICK left : AskHost(seRun, seTotal, left)
        BY <2>9 DEF CardAskAgain
      <3>2. seWait /\ seIn # NoBlock
        BY <2>9, KindsOfBlocks DEF CardAskAgain
      <3>3. faults = 0 => SEQ_NUM_SLAVE = seVS
        BY <3>2, SlaveAgrees DEF RepairInv
      <3> QED BY <3>1, <3>2, <3>3, AskHostRepairInv
    <2>10. CASE CardResync
      <3>1. Answer(SBlock("S_RESYNC_RES")) /\ seIn # NoBlock /\ seVS' = 0
        BY <2>10, KindsOfBlocks DEF CardResync, ForgetLink
      <3> QED BY <3>1, KindsOfBlocks, AnswerRepairInv
    <2>11. CASE CardSoftReset
      <3>1. /\ Answer(SBlock("S_SWRESET_RES")) /\ seIn.kind = "S_SWRESET_REQ"
            /\ seIn # NoBlock
        BY <2>11, KindsOfBlocks DEF CardSoftReset
      <3>2. recoveryStatus = "WARM_RESET"
        BY <3>1 DEF SoftResetIsLast
      <3>3. faults >= 3
        BY <3>2, StepsAreSteps DEF RepairInv, StepInv, InExchange, TypeOK, WireTypeOK
      <3> QED BY <3>1, <3>3, KindsOfBlocks, AnswerRepairInv
    <2> QED
      BY <2>3, <2>4, <2>5, <2>6, <2>7, <2>8, <2>9, <2>10, <2>11 DEF CardStep
  <1> QED BY <1>3, <1>4, <1>5

LEMMA ResetRepairInv ==
    ASSUME Reset
    PROVE  RepairInv'
  <1>1. hpc' \in {"idle", "failed"}
    BY DEF Reset, Setup, SetupNoAtp, SetupNoIfs, SetupWrongIfs, SetupOk
  <1>2. seNext' = 1 /\ seTotal' = 0
    BY DEF Reset, CardPowerReset, ForgetLink, OweNothing
  <1> QED
    BY <1>1, <1>2 DEF RepairInv, StepInv, SpareInv, SlaveInv, InExchange, Live

(* RepairInv is inductive beside SeqInv and RerunInv. *)
THEOREM RepairInvHolds ==
    ASSUME Disciplined
    PROVE  Spec => []RepairInv
  <1>1. TypeOK /\ SeqInv /\ RerunInv /\ RepairInv /\ [Next]_vars => RepairInv'
    <2> SUFFICES ASSUME TypeOK, SeqInv, RerunInv, RepairInv, [Next]_vars
                 PROVE  RepairInv'
      OBVIOUS
    <2>1. CASE Submit
      BY <2>1, SubmitRepairInv
    <2>2. CASE Host
      BY <2>2, HostStepRepairInv DEF Host
    <2>3. CASE Card
      BY <2>3, CardStepRepairInv DEF Card, RerunInv
    <2>4. CASE Reset
      BY <2>4, ResetRepairInv
    <2>5. CASE Finished \/ UNCHANGED vars
      BY <2>5
         DEF Finished, vars, wireVars, hostVars, cardVars, seqVars, apduVars, dataVars,
             linkVars, oweVars, RepairInv, StepInv, SpareInv, SlaveInv, InExchange,
             Spare, NoGoodAnswer, Consistent, IsSequenceNumberOk, Live, HasNoCase
    <2> QED BY <2>1, <2>2, <2>3, <2>4, <2>5 DEF Next
  <1> QED
    BY <1>1, InitRepairInv, TypeCorrect, SeqInvHolds, RerunInvHolds, PTL DEF Spec

(* Short of a driver error and of a request the host does not know, an     *)
(* exchange is given up only after three faults: fewer are repaired.       *)
THEOREM FailsOnlyAfterThreeHolds ==
    ASSUME Disciplined
    PROVE  Spec => FailsOnlyAfterThree
  <1>1. /\ TypeOK /\ RepairInv /\ [Next]_vars
        => [HostGaveUp => faults >= 3 \/ DriverError \/ UnknownRequest]_vars
    <2> SUFFICES ASSUME TypeOK, RepairInv, Next, HostGaveUp, ~DriverError, ~UnknownRequest
                 PROVE  faults >= 3
      OBVIOUS
    <2>1. /\ hpc \in {"send", "wait"} /\ hpc' = "failed" /\ faults' = faults
          /\ ~HasNoCase /\ toHost.kind # "S_ABORT_REQ"
      BY DEF HostGaveUp, DriverError, UnknownRequest, InExchange
    <2>2. faults \in Nat /\ recoveryStatus \in RecoveryStates
      BY DEF TypeOK, WireTypeOK, HostTypeOK
    <2>3. ASSUME hpc = "wait", NoGoodAnswer, DoRecovery
          PROVE  faults >= 3
      <3>1. Spare
        BY <2>3 DEF RepairInv, SpareInv
      <3>2. recoveryStatus \in {"WARM_RESET", "KO"}
        BY <2>1, <2>2, <2>3 DEF DoRecovery, NextRecovery, RecoveryStates
      <3> QED BY <2>2, <3>1, <3>2, StepsAreSteps DEF Spare
    <2>4. HostStep
      BY <2>1 DEF Next, Submit, Start, BeginPart, Host, Card, hostVars, Reset, Setup,
                  SetupNoAtp, SetupNoIfs, SetupWrongIfs, SetupOk, MayReset, Finished
    <2>5. CASE HostTimeout
      BY <2>1, <2>2, <2>3, <2>5 DEF HostTimeout, NoGoodAnswer
    <2>6. CASE HostRecvInconsistent
      BY <2>3, <2>6 DEF HostRecvInconsistent, ReadBlock, NoGoodAnswer
    <2>7. CASE HostRecvReset
      <3>1. hpc = "wait" /\ toHost.kind = "S_SWRESET_RES"
        BY <2>1, <2>7 DEF HostRecvReset, ReadBlock, ResendWithNsZero, Continue
      <3> QED BY <3>1 DEF RepairInv, SpareInv
    <2>8. CASE HostIoError
      BY <2>1, <2>2, <2>8 DEF HostIoError
    <2>9. CASE HostSend \/ HostNoCase \/ HostRecvI \/ HostRecvR \/ HostRecvRequest
      BY <2>1, <2>9
         DEF HostSend, HostNoCase, HostRecvI, HostRecvR, HostRecvRequest, Continue,
             EndPart, BeginPart
    <2> QED BY <2>4, <2>5, <2>6, <2>7, <2>8, <2>9 DEF HostStep
  <1> QED
    BY <1>1, TypeCorrect, RepairInvHolds, PTL DEF Spec, FailsOnlyAfterThree

=============================================================================
