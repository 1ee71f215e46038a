-------------------------- MODULE T1ProtocolProofs --------------------------
(***************************************************************************)
(* Theorems of T1Protocol, for every value of its bounds: types, and the   *)
(* two ends of the line agree on the sequence numbers between exchanges    *)
(* (SeqAgreement, from the inductive invariant SeqInv).                    *)
(***************************************************************************)
EXTENDS T1Protocol, TLAPS

(* What one transfer may leave on the line, and in the count of faults. *)
LEMMA TransferResult ==
    ASSUME NEW b, NEW t \in Transfers(b)
    PROVE  /\ t.block \in {b, NoBlock, Garbled}
           /\ t.faults \in {faults, faults + 1}
  BY DEF Transfers

(* The blocks the two ends put on the line are blocks. *)
LEMMA BlocksAreBlocks ==
    /\ \A ns \in Bit, more \in BOOLEAN, d \in Payload : IBlock(ns, more, d) \in Block
    /\ \A nr \in Bit : RBlock(nr) \in Block
    /\ \A k \in BlockKinds : SBlock(k) \in Block
    /\ NoBlock \in Block /\ Garbled \in Block
  BY DEF IBlock, RBlock, SBlock, NoBlock, Garbled, Block, Bit, Payload, NoPayload,
         BlockKinds, AskKinds

LEMMA FlipIsBit == \A b \in Bit : Flip(b) \in Bit /\ Flip(b) # b /\ Flip(Flip(b)) = b
  BY DEF Bit, Flip

-----------------------------------------------------------------------------
(* Type correctness. *)
LEMMA InitTypeOK == Init => TypeOK
  <1> SUFFICES ASSUME Init PROVE TypeOK
    OBVIOUS
  <1>1. WireTypeOK
    BY BlocksAreBlocks DEF Init, WireInit, WireTypeOK
  <1>2. HostTypeOK
    BY DEF Init, HostInit, HostTypeOK, Bit, Commands, RecoveryStates
  <1>3. CardTypeOK
    <2>1. lastI \in Block
      BY BlocksAreBlocks DEF Init, CardInit
    <2>2. seRx \in Seq(Payload) /\ executed \in Seq(Run)
      BY DEF Init, CardInit
    <2> QED BY <2>1, <2>2 DEF Init, CardInit, CardTypeOK, Bit
  <1> QED BY <1>1, <1>2, <1>3 DEF TypeOK

(* A send of the SE keeps the wire's types. *)
LEMMA AnswerType ==
    ASSUME WireTypeOK, NEW b \in Block, Answer(b)
    PROVE  WireTypeOK'
  BY TransferResult, BlocksAreBlocks DEF Answer, WireTypeOK

LEMMA SendFragmentType ==
    ASSUME WireTypeOK, CardTypeOK,
           NEW run \in Nat, NEW next \in Nat, NEW total \in Nat,
           SendFragment(run, next, total)
    PROVE  /\ WireTypeOK'
           /\ seVS' \in Bit /\ seRun' \in Nat /\ seNext' \in Nat /\ seTotal' \in Nat
           /\ seAsk' \in Nat /\ seWait' \in BOOLEAN /\ lastI' \in Block
  <1> DEFINE b == IBlock(seVS, next < total, <<run, next>>)
  <1>1. b \in Block
    <2>1. (next < total) \in BOOLEAN
      OBVIOUS
    <2>2. <<run, next>> \in Payload
      BY DEF Payload
    <2>3. seVS \in Bit
      BY DEF CardTypeOK
    <2> QED BY <2>1, <2>2, <2>3, BlocksAreBlocks, Zenon
  <1>2. Answer(b)
    BY DEF SendFragment
  <1>3. WireTypeOK'
    <2> HIDE DEF b
    <2> QED BY <1>1, <1>2, AnswerType
  <1>4. lastI' = b /\ seVS' = Flip(seVS) /\ seRun' = run /\ seNext' = next + 1
        /\ seTotal' = total /\ seAsk' = 0 /\ seWait' = FALSE
    BY DEF SendFragment
  <1>5. seVS' \in Bit
    BY <1>4, FlipIsBit DEF CardTypeOK
  <1>6. seRun' \in Nat /\ seNext' \in Nat /\ seTotal' \in Nat /\ seAsk' \in Nat
    BY <1>4
  <1>7. seWait' \in BOOLEAN
    BY <1>4
  <1>8. lastI' \in Block
    BY <1>1, <1>4, Zenon
  <1> QED BY <1>3, <1>5, <1>6, <1>7, <1>8

LEMMA AskHostType ==
    ASSUME WireTypeOK, CardTypeOK,
           NEW run \in Nat, NEW total \in Nat, NEW left \in Nat,
           AskHost(run, total, left)
    PROVE  /\ WireTypeOK'
           /\ seVS' \in Bit /\ seRun' \in Nat /\ seNext' \in Nat /\ seTotal' \in Nat
           /\ seAsk' \in Nat /\ seWait' \in BOOLEAN /\ lastI' \in Block
  <1>1. PICK k \in AskKinds : Answer(SBlock(k))
    BY DEF AskHost, AskKinds
  <1>2. SBlock(k) \in Block
    BY BlocksAreBlocks DEF BlockKinds
  <1>3. WireTypeOK'
    BY <1>1, <1>2, AnswerType
  <1> QED
    BY <1>3, BlocksAreBlocks DEF AskHost, CardTypeOK

LEMMA OweNothingType ==
    ASSUME CardTypeOK, OweNothing
    PROVE  /\ seRun' \in Nat /\ seNext' \in Nat /\ seTotal' \in Nat
           /\ seAsk' \in Nat /\ seWait' \in BOOLEAN /\ lastI' \in Block
  <1>1. lastI' \in Block
    BY BlocksAreBlocks DEF OweNothing
  <1> QED BY <1>1 DEF OweNothing, CardTypeOK

LEMMA ForgetLinkType ==
    ASSUME CardTypeOK, ForgetLink
    PROVE  /\ seVR' \in Bit /\ seVS' \in Bit /\ seRx' \in Seq(Payload)
           /\ seRun' \in Nat /\ seNext' \in Nat /\ seTotal' \in Nat
           /\ seAsk' \in Nat /\ seWait' \in BOOLEAN /\ lastI' \in Block
  <1>1. OweNothing /\ seVR' = 0 /\ seVS' = 0 /\ seRx' = <<>>
    BY DEF ForgetLink
  <1>2. seRx' \in Seq(Payload)
    BY <1>1
  <1> QED BY <1>1, <1>2, OweNothingType DEF Bit

LEMMA CardStepType ==
    ASSUME WireTypeOK, CardTypeOK, CardStep
    PROVE  WireTypeOK' /\ CardTypeOK'
  <1> USE DEF linkVars, oweVars, cardVars
  <1>1. CASE CardTake
    BY <1>1, BlocksAreBlocks DEF CardTake, WireTypeOK, CardTypeOK
  <1>2. CASE CardReject
    <2>1. RBlock(seVR) \in Block
      BY BlocksAreBlocks DEF CardTypeOK
    <2> QED BY <1>2, <2>1, AnswerType DEF CardReject, CardTypeOK
  <1>3. CASE CardChain
    <2>1. RBlock(Flip(seVR)) \in Block
      BY BlocksAreBlocks, FlipIsBit DEF CardTypeOK
    <2>2. WireTypeOK'
      BY <1>3, <2>1, AnswerType DEF CardChain
    <2>3. seIn.data \in Payload
      BY DEF WireTypeOK, Block
    <2>4. OweNothing /\ seVR' = Flip(seVR) /\ seRx' = Append(seRx, seIn.data)
          /\ UNCHANGED <<seVS, executed, resyncs>>
      BY <1>3 DEF CardChain
    <2>5. seVR' \in Bit /\ seRx' \in Seq(Payload)
      BY <2>3, <2>4, FlipIsBit DEF CardTypeOK
    <2> QED BY <2>2, <2>4, <2>5, OweNothingType DEF CardTypeOK
  <1>4. CASE CardExecute
    <2>1. PICK total \in 1..MaxFrags, ask \in 0..MaxAsk :
            /\ executed' = Append(executed, [cmd   |-> Append(seRx, seIn.data),
                                             frags |-> total])
            /\ IF ask = 0 THEN SendFragment(Len(executed) + 1, 1, total)
                          ELSE AskHost(Len(executed) + 1, total, ask - 1)
      BY <1>4 DEF CardExecute
    <2>2. seIn.data \in Payload
      BY DEF WireTypeOK, Block
    <2>3. /\ total \in Nat /\ 1 \in Nat /\ Len(executed) + 1 \in Nat
          /\ ask # 0 => ask - 1 \in Nat
      BY BoundsAssumption DEF CardTypeOK
    <2>4. executed' \in Seq(Run)
      <3>1. Append(seRx, seIn.data) \in Seq(Payload)
        BY <2>2 DEF CardTypeOK
      <3>2. [cmd |-> Append(seRx, seIn.data), frags |-> total] \in Run
        BY <3>1, <2>3 DEF Run
      <3> QED BY <2>1, <3>2 DEF CardTypeOK
    <2>5. /\ WireTypeOK'
          /\ seVS' \in Bit /\ seRun' \in Nat /\ seNext' \in Nat /\ seTotal' \in Nat
          /\ seAsk' \in Nat /\ seWait' \in BOOLEAN /\ lastI' \in Block
      <3>1. CASE ask = 0
        BY <3>1, <2>1, <2>3, SendFragmentType
      <3>2. CASE ask # 0
        BY <3>2, <2>1, <2>3, AskHostType
      <3> QED BY <3>1, <3>2
    <2> QED
      BY <1>4, <2>4, <2>5, FlipIsBit DEF CardExecute, CardTypeOK
  <1>5. CASE CardRetransmit
    BY <1>5, AnswerType DEF CardRetransmit, CardTypeOK
  <1>6. CASE CardContinue
    <2>1. SendFragment(seRun, seNext, seTotal)
      BY <1>6 DEF CardContinue
    <2>2. seRun \in Nat /\ seNext \in Nat /\ seTotal \in Nat
      BY DEF CardTypeOK
    <2>3. /\ WireTypeOK'
          /\ seVS' \in Bit /\ seRun' \in Nat /\ seNext' \in Nat /\ seTotal' \in Nat
          /\ seAsk' \in Nat /\ seWait' \in BOOLEAN /\ lastI' \in Block
      BY <2>1, <2>2, SendFragmentType
    <2> QED BY <1>6, <2>3 DEF CardContinue, CardTypeOK
  <1>7. CASE CardAskAgain
    <2>1. PICK left \in Nat : AskHost(seRun, seTotal, left)
      BY <1>7 DEF CardAskAgain, CardTypeOK
    <2>2. seRun \in Nat /\ seTotal \in Nat
      BY DEF CardTypeOK
    <2>3. /\ WireTypeOK'
          /\ seVS' \in Bit /\ seRun' \in Nat /\ seNext' \in Nat /\ seTotal' \in Nat
          /\ seAsk' \in Nat /\ seWait' \in BOOLEAN /\ lastI' \in Block
      BY <2>1, <2>2, AskHostType
    <2> QED BY <1>7, <2>3 DEF CardAskAgain, CardTypeOK
  <1>8. CASE CardResync
    <2>1. SBlock("S_RESYNC_RES") \in Block
      BY BlocksAreBlocks DEF BlockKinds
    <2>2. WireTypeOK'
      BY <1>8, <2>1, AnswerType DEF CardResync
    <2> QED
      BY <1>8, <2>2, ForgetLinkType
         DEF CardResync, CardTypeOK
  <1>9. CASE CardSoftReset
    <2>1. SBlock("S_SWRESET_RES") \in Block
      BY BlocksAreBlocks DEF BlockKinds
    <2>2. WireTypeOK'
      BY <1>9, <2>1, AnswerType DEF CardSoftReset
    <2> QED
      BY <1>9, <2>2, ForgetLinkType
         DEF CardSoftReset, CardTypeOK
  <1> QED
    BY <1>1, <1>2, <1>3, <1>4, <1>5, <1>6, <1>7, <1>8, <1>9 DEF CardStep

(* The block the host writes is a block. *)
LEMMA CommandBlockType ==
    ASSUME HostTypeOK
    PROVE  CommandBlock \in Block
  <1>1. orig.ns \in Bit /\ orig.more \in BOOLEAN /\ SEQ_NUM_SLAVE \in Bit
    BY DEF HostTypeOK
  <1>2. <<apdu, part>> \in Payload
    BY DEF HostTypeOK, Payload
  <1>3. IBlock(orig.ns, orig.more, <<apdu, part>>) \in Block
    BY <1>1, <1>2, BlocksAreBlocks
  <1>4. RBlock(SEQ_NUM_SLAVE) \in Block
    BY <1>1, BlocksAreBlocks
  <1>5. /\ SBlock("S_RESYNC_REQ") \in Block
        /\ SBlock("S_SWRESET_REQ") \in Block
        /\ SBlock("S_WTX_RES") \in Block
    BY BlocksAreBlocks DEF BlockKinds, AskKinds
  <1> QED BY <1>3, <1>4, <1>5 DEF CommandBlock

LEMMA RecoveryType ==
    ASSUME NEW s \in RecoveryStates
    PROVE  /\ NextRecovery[s] \in RecoveryStates \ {"OK"}
           /\ NextRecovery[s] # "KO" =>
                 RecoveryCommand[NextRecovery[s]] \in
                    {"R_Other_Error", "S_Resync_REQ", "S_SWReset_REQ"}
  BY DEF NextRecovery, RecoveryCommand, RecoveryStates

LEMMA DoRecoveryType ==
    ASSUME HostTypeOK, DoRecovery
    PROVE  HostTypeOK'
  BY RecoveryType DEF DoRecovery, HostTypeOK, Commands, seqVars, apduVars, dataVars

LEMMA EndPartType ==
    ASSUME HostTypeOK, NEW r \in Seq(Payload), EndPart(r)
    PROVE  /\ SEQ_NUM_MASTER' \in Bit /\ rsp' \in Seq(Payload) /\ part' \in Nat
           /\ orig' \in [ns : Bit, more : BOOLEAN] /\ gNextCmd' \in Commands
           /\ hpc' \in {"idle", "send", "wait", "failed"}
           /\ recoveryStatus' \in RecoveryStates
  <1>1. SEQ_NUM_MASTER' \in Bit /\ Flip(SEQ_NUM_MASTER) \in Bit
    BY FlipIsBit DEF EndPart, HostTypeOK
  <1>2. CASE part < nparts
    <2>1. /\ part' = part + 1 /\ rsp' = r /\ recoveryStatus' = "OK"
          /\ gNextCmd' = "I_block" /\ hpc' = "send"
          /\ orig' = [ns |-> Flip(SEQ_NUM_MASTER), more |-> part + 1 < nparts]
      BY <1>2 DEF EndPart, BeginPart
    <2>2. orig' \in [ns : Bit, more : BOOLEAN]
      <3>1. (part + 1 < nparts) \in BOOLEAN
        OBVIOUS
      <3> QED BY <1>1, <2>1, <3>1, Zenon
    <2>3. part' \in Nat
      BY <2>1 DEF HostTypeOK
    <2> QED BY <1>1, <2>1, <2>2, <2>3 DEF Commands, RecoveryStates
  <1>3. CASE ~(part < nparts)
    BY <1>1, <1>3 DEF EndPart, HostTypeOK, Commands, RecoveryStates
  <1> QED BY <1>2, <1>3

LEMMA HostStepType ==
    ASSUME WireTypeOK, HostTypeOK, HostStep
    PROVE  WireTypeOK' /\ HostTypeOK'
  <1> USE DEF wireVars, seqVars, apduVars, dataVars
  <1>1. CASE HostSend
    <2>1. PICK t \in Transfers(CommandBlock) : toSE' = t.block /\ faults' = t.faults
      BY <1>1 DEF HostSend
    <2>2. toSE' \in Block /\ faults' \in Nat
      BY <2>1, TransferResult, CommandBlockType, BlocksAreBlocks DEF WireTypeOK
    <2> QED BY <1>1, <2>2 DEF HostSend, WireTypeOK, HostTypeOK
  <1>2. CASE HostNoCase
    BY <1>2 DEF HostNoCase, WireTypeOK, HostTypeOK
  <1>3. CASE HostTimeout
    BY <1>3, DoRecoveryType DEF HostTimeout, WireTypeOK
  <1>4. CASE HostIoError
    <2>1. toHost' \in Block
      BY <1>4, BlocksAreBlocks DEF HostIoError, WireTypeOK
    <2>2. WireTypeOK'
      BY <1>4, <2>1 DEF HostIoError, WireTypeOK
    <2> QED BY <1>4, <2>2 DEF HostIoError, HostTypeOK
  <1>5. CASE HostRecvInconsistent
    BY <1>5, DoRecoveryType, BlocksAreBlocks
       DEF HostRecvInconsistent, ReadBlock, WireTypeOK
  <1>6. CASE HostRecvI
    <2>1. WireTypeOK'
      BY <1>6, BlocksAreBlocks DEF HostRecvI, ReadBlock, WireTypeOK
    <2>2. Append(rxList, toHost.data) \in Seq(Payload)
      <3>1. toHost.data \in Payload
        BY DEF WireTypeOK, Block
      <3> QED BY <3>1 DEF HostTypeOK
    <2>3. SEQ_NUM_SLAVE' \in Bit
      BY <1>6, FlipIsBit DEF HostRecvI, HostTypeOK
    <2>4. UNCHANGED apduVars
      BY <1>6 DEF HostRecvI
    <2>5. CASE toHost.more
      <3>1. rxList' = Append(rxList, toHost.data) /\ Continue("R_ACK")
            /\ recoveryStatus' = "OK" /\ UNCHANGED <<SEQ_NUM_MASTER, orig, part, rsp>>
        BY <1>6, <2>5 DEF HostRecvI
      <3>2. rxList' \in Seq(Payload)
        BY <2>2, <3>1
      <3>3. gNextCmd' = "R_ACK" /\ hpc' = "send"
        BY <3>1 DEF Continue
      <3>4. apdu' = apdu /\ nparts' = nparts
            /\ SEQ_NUM_MASTER' = SEQ_NUM_MASTER /\ orig' = orig /\ part' = part
            /\ rsp' = rsp /\ recoveryStatus' = "OK"
        BY <2>4, <3>1
      <3> QED BY <2>1, <2>3, <3>2, <3>3, <3>4 DEF HostTypeOK, Commands, RecoveryStates
    <2>6. CASE ~toHost.more
      <3>1. EndPart(Append(rxList, toHost.data)) /\ rxList' = <<>>
        BY <1>6, <2>6 DEF HostRecvI, EmptyList
      <3>2. rxList' \in Seq(Payload)
        BY <3>1
      <3>3. /\ SEQ_NUM_MASTER' \in Bit /\ rsp' \in Seq(Payload) /\ part' \in Nat
            /\ orig' \in [ns : Bit, more : BOOLEAN] /\ gNextCmd' \in Commands
            /\ hpc' \in {"idle", "send", "wait", "failed"}
            /\ recoveryStatus' \in RecoveryStates
        BY <2>2, <3>1, EndPartType
      <3>4. apdu' = apdu /\ nparts' = nparts
        BY <2>4
      <3> QED BY <2>1, <2>3, <3>2, <3>3, <3>4 DEF HostTypeOK
    <2> QED BY <2>1, <2>5, <2>6
  <1>7. CASE HostRecvR
    <2>1. WireTypeOK'
      BY <1>7, BlocksAreBlocks DEF HostRecvR, ReadBlock, WireTypeOK
    <2>2. CASE orig.more /\ IsSequenceNumberOk(toHost)
      <3>1. EndPart(<<>>) /\ UNCHANGED <<SEQ_NUM_SLAVE, apduVars, rxList>>
        BY <1>7, <2>2 DEF HostRecvR
      <3>2. <<>> \in Seq(Payload)
        OBVIOUS
      <3>3. /\ SEQ_NUM_MASTER' \in Bit /\ rsp' \in Seq(Payload) /\ part' \in Nat
            /\ orig' \in [ns : Bit, more : BOOLEAN] /\ gNextCmd' \in Commands
            /\ hpc' \in {"idle", "send", "wait", "failed"}
            /\ recoveryStatus' \in RecoveryStates
        BY <3>1, <3>2, EndPartType
      <3>4. /\ apdu' = apdu /\ nparts' = nparts
            /\ rxList' = rxList /\ SEQ_NUM_SLAVE' = SEQ_NUM_SLAVE
        BY <3>1
      <3> QED BY <2>1, <3>3, <3>4 DEF HostTypeOK
    <2>3. CASE ~(orig.more /\ IsSequenceNumberOk(toHost))
      <3>1. /\ gNextCmd' \in {"I_block", "S_Resync_REQ"} /\ hpc' = "send"
            /\ recoveryStatus' = "OK"
            /\ UNCHANGED <<SEQ_NUM_MASTER, orig, part, rsp>>
            /\ UNCHANGED <<SEQ_NUM_SLAVE, apduVars, rxList>>
        BY <1>7, <2>3 DEF HostRecvR, ReplyToR, Continue
      <3>2. /\ apdu' = apdu /\ nparts' = nparts
            /\ rxList' = rxList /\ SEQ_NUM_SLAVE' = SEQ_NUM_SLAVE
            /\ SEQ_NUM_MASTER' = SEQ_NUM_MASTER /\ orig' = orig /\ part' = part
            /\ rsp' = rsp
        BY <3>1
      <3> QED BY <2>1, <3>1, <3>2 DEF HostTypeOK, Commands, RecoveryStates
    <2> QED BY <2>1, <2>2, <2>3
  <1>8. CASE HostRecvRequest
    BY <1>8, BlocksAreBlocks
       DEF HostRecvRequest, ReadBlock, Continue, WireTypeOK, HostTypeOK, Commands,
           RecoveryStates
  <1>9. CASE HostRecvReset
    <2>1. WireTypeOK'
      BY <1>9, BlocksAreBlocks DEF HostRecvReset, ReadBlock, WireTypeOK
    <2>2. orig' \in [ns : Bit, more : BOOLEAN]
      BY <1>9 DEF HostRecvReset, ResendWithNsZero, SoftResetEnds, HostTypeOK, Bit
    <2> QED
      BY <1>9, <2>1, <2>2, SMTT(20)
         DEF HostRecvReset, ResendWithNsZero, SoftResetEnds, ResetSequenceNumbers, Continue, HostTypeOK, Commands,
             RecoveryStates, Bit
  <1> QED
    BY <1>1, <1>2, <1>3, <1>4, <1>5, <1>6, <1>7, <1>8, <1>9 DEF HostStep

LEMMA SetupType ==
    ASSUME HostTypeOK, Setup
    PROVE  HostTypeOK'
  <1>1. CASE SetupWrongIfs
    <2>1. PICK s \in RecoveryStates \ {"OK"} :
             /\ recoveryStatus' = s
             /\ IF s = "KO" THEN hpc' = "failed" /\ UNCHANGED gNextCmd
                            ELSE hpc' = "idle" /\ gNextCmd' \in Commands
      BY <1>1, RecoveryType DEF SetupWrongIfs, HostTypeOK, Commands
    <2> QED
      BY <1>1, <2>1
         DEF SetupWrongIfs, ResetSequenceNumbers, HostTypeOK, Bit, apduVars, dataVars
  <1>2. CASE SetupNoAtp \/ SetupNoIfs \/ SetupOk
    BY <1>2
       DEF SetupNoAtp, SetupNoIfs, SetupOk, ResetSequenceNumbers, HostTypeOK,
           RecoveryStates, Bit, seqVars, apduVars, dataVars
  <1> QED BY <1>1, <1>2 DEF Setup

(* Every variable of an exchange keeps its type. *)
THEOREM TypeCorrect == Spec => []TypeOK
  <1>1. TypeOK /\ [Next]_vars => TypeOK'
    <2> SUFFICES ASSUME TypeOK, [Next]_vars PROVE TypeOK'
      OBVIOUS
    <2> USE DEF TypeOK
    <2>1. CASE Submit
      <3>1. PICK n \in 1..MaxParts : Start(n)
        BY <2>1 DEF Submit
      <3>2. WireTypeOK'
        BY <3>1 DEF Start, WireTypeOK
      <3>3. HostTypeOK'
        BY <3>1, BoundsAssumption
           DEF Start, BeginPart, HostTypeOK, Commands, RecoveryStates, seqVars
      <3>4. CardTypeOK'
        BY <2>1 DEF Submit, CardTypeOK, linkVars, oweVars
      <3> QED BY <3>2, <3>3, <3>4
    <2>2. CASE Host
      <3>1. CardTypeOK'
        BY <2>2 DEF Host, CardTypeOK, cardVars, linkVars, oweVars
      <3> QED BY <2>2, <3>1, HostStepType DEF Host
    <2>3. CASE Card
      <3>1. HostTypeOK'
        BY <2>3 DEF Card, HostTypeOK, hostVars, seqVars, apduVars, dataVars
      <3> QED BY <2>3, <3>1, CardStepType DEF Card
    <2>4. CASE Reset
      <3>1. WireTypeOK'
        BY <2>4, BlocksAreBlocks DEF Reset, CardPowerReset, WireTypeOK
      <3>2. HostTypeOK'
        BY <2>4, SetupType DEF Reset
      <3>3. CardTypeOK'
        BY <2>4, ForgetLinkType DEF Reset, CardPowerReset, CardTypeOK
      <3> QED BY <3>1, <3>2, <3>3
    <2>5. CASE Finished \/ UNCHANGED vars
      BY <2>5 DEF Finished, vars, wireVars, hostVars, cardVars, seqVars, apduVars,
                  dataVars, linkVars, oweVars, WireTypeOK, HostTypeOK, CardTypeOK
    <2> QED
      BY <2>1, <2>2, <2>3, <2>4, <2>5 DEF Next
  <1> QED
    BY <1>1, InitTypeOK, PTL DEF Spec

-----------------------------------------------------------------------------
LEMMA KindsOfBlocks ==
    /\ NoBlock.kind = "none" /\ Garbled.kind = "GARBLED"
    /\ \A ns, more, d : /\ IBlock(ns, more, d).kind = "I"
                        /\ IBlock(ns, more, d).seq = ns
                        /\ IBlock(ns, more, d).more = more
    /\ \A nr : RBlock(nr).kind = "R" /\ RBlock(nr).seq = nr
    /\ \A k : SBlock(k).kind = k
  BY DEF NoBlock, Garbled, IBlock, RBlock, SBlock

(* The SE sends only in answer, so it steps only while the host waits or   *)
(* has failed, and its answer is then the only block on the line.          *)
LEMMA AnswerLine ==
    ASSUME LineInv, seIn # NoBlock, hpc = "wait", NEW b, Answer(b)
    PROVE  /\ toSE = NoBlock /\ toSE' = NoBlock /\ seIn' = NoBlock
           /\ toHost' \in {b, NoBlock, Garbled}
  BY TransferResult DEF LineInv, Answer

LEMMA InitSeqInv == Init => SeqInv
  BY KindsOfBlocks
     DEF Init, WireInit, HostInit, CardInit, SeqInv, IdleInv, LineInv, OrigInv,
         CommandInv, LastBlockInv, AnswerInv, OweInv, NothingOwed, Live

-----------------------------------------------------------------------------
(* One lemma per action of the host. *)
LEMMA SubmitSeqInv ==
    ASSUME TypeOK, SeqInv, Disciplined, Submit
    PROVE  SeqInv'
  <1>1. PICK n \in 1..MaxParts : Start(n)
    BY DEF Submit
  <1>2. /\ hpc = "idle" /\ hpc' = "send" /\ gNextCmd' = "I_block"
        /\ orig' = [ns |-> SEQ_NUM_MASTER, more |-> 1 < n]
        /\ part' = 1 /\ nparts' = n
        /\ UNCHANGED <<toSE, seIn, toHost, SEQ_NUM_MASTER, SEQ_NUM_SLAVE>>
    BY <1>1 DEF Start, BeginPart, Disciplined, seqVars
  <1>3. UNCHANGED <<seVR, seVS, seNext, seTotal, seWait, lastI>>
    BY DEF Submit, linkVars, oweVars
  <1>4. IdleInv /\ LineInv /\ LastBlockInv
    BY DEF SeqInv
  <1>5. IdleInv' /\ CommandInv' /\ AnswerInv'
    BY <1>2 DEF IdleInv, CommandInv, AnswerInv
  <1>6. LineInv' /\ OrigInv'
    BY <1>2, <1>4 DEF LineInv, OrigInv, Live
  <1>7. LastBlockInv'
    BY <1>3, <1>4 DEF LastBlockInv
  <1>8. OweInv'
    BY <1>2, <1>3, <1>4 DEF OweInv, IdleInv, NothingOwed
  <1> QED BY <1>5, <1>6, <1>7, <1>8 DEF SeqInv

LEMMA HostSendSeqInv ==
    ASSUME TypeOK, SeqInv, HostSend, UNCHANGED cardVars
    PROVE  SeqInv'
  <1>1. PICK t \in Transfers(CommandBlock) : toSE' = t.block
    BY DEF HostSend
  <1>2. /\ hpc = "send" /\ ~HasNoCase /\ hpc' = "wait"
        /\ toSE' \in {CommandBlock, NoBlock, Garbled}
        /\ UNCHANGED <<seIn, toHost, gNextCmd, SEQ_NUM_MASTER, SEQ_NUM_SLAVE, orig,
                       part, nparts>>
    BY <1>1, TransferResult DEF HostSend, seqVars, apduVars, dataVars
  <1>3. UNCHANGED <<seVR, seVS, seNext, seTotal, seWait, lastI>>
    BY DEF cardVars, linkVars, oweVars
  <1>4. LineInv /\ OrigInv /\ LastBlockInv /\ OweInv
    BY DEF SeqInv
  <1>5. /\ orig.ns = SEQ_NUM_MASTER
        /\ CommandBlock.kind = "I" => CommandBlock.seq = orig.ns
                                      /\ CommandBlock.more = orig.more
        /\ CommandBlock.kind = "R" => CommandBlock.seq = SEQ_NUM_SLAVE
    BY <1>2, <1>4, KindsOfBlocks DEF CommandBlock, OrigInv, Live
  <1>6. seIn' = NoBlock /\ toHost' = NoBlock
    BY <1>2, <1>4 DEF LineInv
  <1>7. LineInv' /\ IdleInv' /\ AnswerInv'
    BY <1>2, <1>6, KindsOfBlocks DEF LineInv, IdleInv, AnswerInv
  <1>8. OrigInv' /\ OweInv'
    BY <1>2, <1>3, <1>4 DEF OrigInv, OweInv, Live, NothingOwed
  <1>9. CommandInv'
    BY <1>2, <1>5, <1>6, KindsOfBlocks DEF CommandInv
  <1>10. LastBlockInv'
    BY <1>3, <1>4 DEF LastBlockInv
  <1> QED BY <1>7, <1>8, <1>9, <1>10 DEF SeqInv

(* A failed exchange promises nothing but the block kept by the SE. *)
LEMMA FailedSeqInv ==
    ASSUME hpc' = "failed", LastBlockInv'
    PROVE  SeqInv'
  BY DEF SeqInv, IdleInv, LineInv, OrigInv, CommandInv, AnswerInv, OweInv, Live

(* The host goes on with a new command and an empty line. *)
LEMMA ResumeSeqInv ==
    ASSUME SeqInv, hpc = "wait", hpc' = "send",
           toSE' = NoBlock, seIn' = NoBlock, toHost' = NoBlock,
           OrigInv', OweInv', UNCHANGED cardVars
    PROVE  SeqInv'
  <1>1. LastBlockInv'
    BY DEF SeqInv, LastBlockInv, cardVars, linkVars, oweVars
  <1> QED
    BY <1>1 DEF SeqInv, IdleInv, LineInv, CommandInv, AnswerInv

LEMMA RecoverySeqInv ==
    ASSUME TypeOK, SeqInv, DoRecovery, hpc = "wait",
           toSE' = NoBlock, seIn' = NoBlock, toHost' = NoBlock, UNCHANGED cardVars
    PROVE  SeqInv'
  <1>1. LastBlockInv' /\ OrigInv /\ OweInv
    BY DEF SeqInv, LastBlockInv, cardVars, linkVars, oweVars
  <1>2. CASE hpc' = "failed"
    BY <1>1, <1>2, FailedSeqInv
  <1>3. CASE hpc' # "failed"
    <2>1. /\ hpc' = "send" /\ ~HasNoCase'
          /\ UNCHANGED <<SEQ_NUM_MASTER, SEQ_NUM_SLAVE, orig, part, nparts>>
      BY <1>3, RecoveryType
         DEF DoRecovery, TypeOK, HostTypeOK, HasNoCase, seqVars, apduVars, dataVars
    <2>2. UNCHANGED <<seVR, seVS, seNext, seTotal, seWait, lastI>>
      BY DEF cardVars, linkVars, oweVars
    <2>3. OrigInv' /\ OweInv'
      BY <1>1, <2>1, <2>2 DEF OrigInv, OweInv, Live, NothingOwed
    <2> QED BY <2>1, <2>3, ResumeSeqInv
  <1> QED BY <1>2, <1>3

(* Reading the only block on the line empties it. *)
LEMMA ReadEmptiesLine ==
    ASSUME SeqInv, NEW K, "none" \notin K, ReadBlock(K)
    PROVE  /\ hpc = "wait" /\ toSE' = NoBlock /\ seIn' = NoBlock /\ toHost' = NoBlock
           /\ toHost # NoBlock
  BY KindsOfBlocks DEF SeqInv, LineInv, ReadBlock

(* The end of a part answered by an acknowledgement: there is another one. *)
LEMMA EndPartNext ==
    ASSUME TypeOK, SeqInv, hpc = "wait", orig.more, NEW r, EndPart(r)
    PROVE  /\ hpc' = "send" /\ gNextCmd' = "I_block"
           /\ part' = part + 1 /\ nparts' = nparts => OrigInv'
           /\ SEQ_NUM_MASTER' = Flip(SEQ_NUM_MASTER)
  <1>1. part < nparts
    BY DEF SeqInv, OrigInv, Live
  <1> QED
    BY <1>1 DEF EndPart, BeginPart, OrigInv

(* The end of the last part. *)
LEMMA EndPartLast ==
    ASSUME TypeOK, SeqInv, hpc = "wait", ~orig.more, NEW r, EndPart(r)
    PROVE  hpc' = "idle" /\ SEQ_NUM_MASTER' = Flip(SEQ_NUM_MASTER)
  BY DEF SeqInv, OrigInv, Live, EndPart

LEMMA HostRecvISeqInv ==
    ASSUME TypeOK, SeqInv, HostRecvI, UNCHANGED cardVars
    PROVE  SeqInv'
  <1>1. /\ hpc = "wait" /\ toSE' = NoBlock /\ seIn' = NoBlock /\ toHost' = NoBlock
        /\ toHost.kind = "I" /\ toHost.seq = SEQ_NUM_SLAVE
        /\ SEQ_NUM_SLAVE' = Flip(SEQ_NUM_SLAVE) /\ nparts' = nparts
    BY ReadEmptiesLine DEF HostRecvI, ReadBlock, Consistent, IsSequenceNumberOk, apduVars
  <1>2. /\ toHost.seq = Flip(seVS) /\ ~seWait
        /\ ~toHost.more => seNext > seTotal
        /\ seVR # SEQ_NUM_MASTER /\ ~orig.more
    BY <1>1 DEF SeqInv, AnswerInv
  <1>3. UNCHANGED <<seVR, seVS, seNext, seTotal, seWait, lastI>>
    BY DEF cardVars, linkVars, oweVars
  <1>4. SEQ_NUM_SLAVE' = seVS
    BY <1>1, <1>2, FlipIsBit DEF TypeOK, CardTypeOK
  <1>5. CASE toHost.more
    <2>1. hpc' = "send" /\ gNextCmd' = "R_ACK" /\ UNCHANGED <<SEQ_NUM_MASTER, orig, part>>
      BY <1>5 DEF HostRecvI, Continue
    <2>2. OrigInv'
      BY <1>1, <2>1 DEF SeqInv, OrigInv, Live
    <2>3. OweInv'
      BY <1>2, <1>3, <2>1 DEF OweInv
    <2> QED BY <1>1, <2>1, <2>2, <2>3, ResumeSeqInv
  <1>6. CASE ~toHost.more
    <2>1. PICK r : EndPart(r)
      BY <1>6 DEF HostRecvI
    <2>2. hpc' = "idle" /\ SEQ_NUM_MASTER' = Flip(SEQ_NUM_MASTER)
      BY <1>1, <1>2, <2>1, EndPartLast
    <2>3. SEQ_NUM_MASTER' = seVR
      BY <1>2, <2>2 DEF TypeOK, HostTypeOK, CardTypeOK, Bit, Flip
    <2>4. IdleInv'
      BY <1>2, <1>3, <1>4, <1>6, <2>3 DEF IdleInv, NothingOwed
    <2>5. LastBlockInv'
      BY <1>3 DEF SeqInv, LastBlockInv
    <2> QED
      BY <1>1, <2>2, <2>4, <2>5
         DEF SeqInv, LineInv, OrigInv, CommandInv, AnswerInv, OweInv, Live
  <1> QED BY <1>5, <1>6

LEMMA HostRecvRSeqInv ==
    ASSUME TypeOK, SeqInv, HostRecvR, UNCHANGED cardVars
    PROVE  SeqInv'
  <1>1. /\ hpc = "wait" /\ toSE' = NoBlock /\ seIn' = NoBlock /\ toHost' = NoBlock
        /\ toHost.kind = "R" /\ SEQ_NUM_SLAVE' = SEQ_NUM_SLAVE /\ nparts' = nparts
    BY ReadEmptiesLine DEF HostRecvR, ReadBlock, apduVars
  <1>2. toHost.seq = seVR
    BY <1>1 DEF SeqInv, AnswerInv
  <1>3. UNCHANGED <<seVR, seVS, seNext, seTotal, seWait, lastI>>
    BY DEF cardVars, linkVars, oweVars
  <1>4. CASE orig.more /\ toHost.seq = Flip(SEQ_NUM_MASTER)
    <2>1. EndPart(<<>>)
      BY <1>1, <1>4 DEF HostRecvR, IsSequenceNumberOk
    <2>2. /\ hpc' = "send" /\ gNextCmd' = "I_block" /\ OrigInv'
          /\ SEQ_NUM_MASTER' = Flip(SEQ_NUM_MASTER)
      <3>1. part' = part + 1
        BY <1>1, <1>4, <2>1 DEF EndPart, BeginPart, SeqInv, OrigInv, Live
      <3> QED BY <1>1, <1>4, <2>1, <3>1, EndPartNext
    <2>3. SEQ_NUM_MASTER # seVR /\ SEQ_NUM_MASTER' = seVR
      BY <1>2, <1>4, <2>2, FlipIsBit DEF TypeOK, HostTypeOK
    <2>4. lastI = NoBlock /\ NothingOwed
      BY <1>1, <1>4, <2>3 DEF SeqInv, OweInv, Live
    <2>5. OweInv'
      BY <1>3, <2>3, <2>4 DEF OweInv, NothingOwed
    <2> QED BY <1>1, <2>2, <2>5, ResumeSeqInv
  <1>5. CASE ~(orig.more /\ toHost.seq = Flip(SEQ_NUM_MASTER))
    <2>1. /\ hpc' = "send" /\ UNCHANGED <<SEQ_NUM_MASTER, orig, part>>
      BY <1>1, <1>5 DEF HostRecvR, ReplyToR, IsSequenceNumberOk, Continue
    <2>2. OrigInv' /\ OweInv'
      BY <1>1, <1>3, <2>1 DEF SeqInv, OrigInv, OweInv, Live, NothingOwed
    <2> QED BY <1>1, <2>1, <2>2, ResumeSeqInv
  <1> QED BY <1>4, <1>5

LEMMA HostRecvRequestSeqInv ==
    ASSUME TypeOK, SeqInv, HostRecvRequest, UNCHANGED cardVars
    PROVE  SeqInv'
  <1>1. /\ hpc = "wait" /\ toSE' = NoBlock /\ seIn' = NoBlock /\ toHost' = NoBlock
        /\ UNCHANGED <<SEQ_NUM_MASTER, SEQ_NUM_SLAVE, orig, part, nparts>>
    BY ReadEmptiesLine
       DEF HostRecvRequest, ReadBlock, seqVars, apduVars, dataVars
  <1>2. UNCHANGED <<seVR, seVS, seNext, seTotal, seWait, lastI>>
    BY DEF cardVars, linkVars, oweVars
  <1>3. hpc' \in {"send", "failed"}
    BY DEF HostRecvRequest, Continue
  <1>4. OrigInv' /\ OweInv' /\ LastBlockInv'
    BY <1>1, <1>2, <1>3
       DEF SeqInv, OrigInv, OweInv, LastBlockInv, Live, NothingOwed
  <1> QED BY <1>1, <1>3, <1>4, ResumeSeqInv, FailedSeqInv

LEMMA HostRecvResetSeqInv ==
    ASSUME TypeOK, SeqInv, HostRecvReset, UNCHANGED cardVars
    PROVE  SeqInv'
  <1>1. /\ hpc = "wait" /\ toSE' = NoBlock /\ seIn' = NoBlock /\ toHost' = NoBlock
        /\ SEQ_NUM_MASTER' = 0 /\ SEQ_NUM_SLAVE' = 0
        /\ UNCHANGED <<part, nparts>>
    BY ReadEmptiesLine
       DEF HostRecvReset, ReadBlock, ResetSequenceNumbers, apduVars, dataVars
  <1>2. UNCHANGED <<seVR, seVS, seNext, seTotal, seWait, lastI>>
    BY DEF cardVars, linkVars, oweVars
  <1>3. LastBlockInv'
    BY <1>2 DEF SeqInv, LastBlockInv
  <1>4. CASE toHost.kind = "S_RESYNC_RES"
    <2>1. hpc' = "send" /\ orig'.ns = 0 /\ orig'.more = orig.more
      BY <1>4 DEF HostRecvReset, ResendWithNsZero, SoftResetEnds, Continue, TypeOK, HostTypeOK
    <2>2. seVR = 0 /\ lastI = NoBlock /\ NothingOwed
      BY <1>1, <1>4 DEF SeqInv, AnswerInv
    <2>3. OrigInv' /\ OweInv'
      BY <1>1, <1>2, <2>1, <2>2 DEF SeqInv, OrigInv, OweInv, Live, NothingOwed
    <2> QED BY <1>1, <2>1, <2>3, ResumeSeqInv
  <1>5. CASE toHost.kind = "S_RESYNC_REQ"
    <2>1. hpc' = "send" /\ HasNoCase'
      BY <1>5 DEF HostRecvReset, ResendWithNsZero, SoftResetEnds, Continue, HasNoCase
    <2>2. OrigInv' /\ OweInv'
      BY <2>1 DEF OrigInv, OweInv, Live
    <2> QED BY <1>1, <2>1, <2>2, ResumeSeqInv
  <1>6. CASE toHost.kind = "S_SWRESET_RES"
    BY <1>3, <1>6, FailedSeqInv DEF HostRecvReset, SoftResetEnds
  <1> QED BY <1>4, <1>5, <1>6 DEF HostRecvReset, SoftResetEnds

LEMMA HostStepSeqInv ==
    ASSUME TypeOK, SeqInv, Disciplined, HostStep, UNCHANGED cardVars
    PROVE  SeqInv'
  <1>1. LastBlockInv'
    BY DEF SeqInv, LastBlockInv, cardVars, linkVars, oweVars
  <1>2. CASE HostSend
    BY <1>2, HostSendSeqInv
  <1>3. CASE HostNoCase
    BY <1>1, <1>3, FailedSeqInv DEF HostNoCase
  <1>4. CASE HostIoError
    BY <1>1, <1>4, FailedSeqInv DEF HostIoError
  <1>5. CASE HostTimeout
    <2>1. seIn = NoBlock
      BY <1>5 DEF HostTimeout, CanFault, Disciplined
    <2> QED BY <1>5, <2>1, RecoverySeqInv DEF HostTimeout
  <1>6. CASE HostRecvInconsistent
    <2>1. ReadBlock(BlockKinds \ {"none"}) /\ DoRecovery
      BY <1>6 DEF HostRecvInconsistent
    <2>2. /\ hpc = "wait" /\ toSE' = NoBlock /\ seIn' = NoBlock /\ toHost' = NoBlock
      BY <2>1, ReadEmptiesLine
    <2> QED BY <2>1, <2>2, RecoverySeqInv
  <1>7. CASE HostRecvI
    BY <1>7, HostRecvISeqInv
  <1>8. CASE HostRecvR
    BY <1>8, HostRecvRSeqInv
  <1>9. CASE HostRecvRequest
    BY <1>9, HostRecvRequestSeqInv
  <1>10. CASE HostRecvReset
    BY <1>10, HostRecvResetSeqInv
  <1> QED
    BY <1>2, <1>3, <1>4, <1>5, <1>6, <1>7, <1>8, <1>9, <1>10 DEF HostStep

-----------------------------------------------------------------------------
(* The steps of the SE. *)
LEMMA CardLastBlock ==
    ASSUME TypeOK, LastBlockInv, CardStep
    PROVE  LastBlockInv'
  <1>1. ASSUME NEW run, NEW next \in Nat, NEW total \in Nat,
               SendFragment(run, next, total)
        PROVE  LastBlockInv'
    <2>1. /\ lastI' = IBlock(seVS, next < total, <<run, next>>)
          /\ seVS' = Flip(seVS) /\ seNext' = next + 1 /\ seTotal' = total
          /\ seWait' = FALSE
      BY <1>1 DEF SendFragment
    <2>2. lastI'.kind = "I" /\ lastI'.seq = seVS /\ (lastI'.more <=> next < total)
      BY <2>1 DEF IBlock
    <2>3. Flip(seVS') = seVS
      BY <2>1, FlipIsBit DEF TypeOK, CardTypeOK
    <2> QED BY <2>1, <2>2, <2>3 DEF LastBlockInv
  <1>2. ASSUME lastI' = NoBlock
        PROVE  LastBlockInv'
    BY <1>2 DEF LastBlockInv
  <1>3. ASSUME UNCHANGED cardVars
        PROVE  LastBlockInv'
    BY <1>3 DEF LastBlockInv, cardVars, linkVars, oweVars
  <1>4. CASE CardTake \/ CardReject \/ CardRetransmit
    BY <1>3, <1>4 DEF CardTake, CardReject, CardRetransmit
  <1>5. CASE CardChain \/ CardResync \/ CardSoftReset
    BY <1>2, <1>5 DEF CardChain, CardResync, CardSoftReset, ForgetLink, OweNothing
  <1>6. CASE CardExecute
    <2>1. PICK total \in 1..MaxFrags, ask \in 0..MaxAsk :
            IF ask = 0 THEN SendFragment(Len(executed) + 1, 1, total)
                       ELSE AskHost(Len(executed) + 1, total, ask - 1)
      BY <1>6 DEF CardExecute
    <2>2. total \in Nat /\ 1 \in Nat
      BY BoundsAssumption
    <2>3. CASE ask = 0
      BY <1>1, <2>1, <2>2, <2>3
    <2>4. CASE ask # 0
      BY <1>2, <2>1, <2>4 DEF AskHost
    <2> QED BY <2>3, <2>4
  <1>7. CASE CardContinue
    BY <1>1, <1>7 DEF CardContinue, TypeOK, CardTypeOK
  <1>8. CASE CardAskAgain
    BY <1>2, <1>8 DEF CardAskAgain, AskHost
  <1> QED
    BY <1>4, <1>5, <1>6, <1>7, <1>8 DEF CardStep

(* While the host waits, it is enough that the answer fits what the SE     *)
(* then owes.                                                              *)
LEMMA AnswerSeqInv ==
    ASSUME SeqInv, hpc = "wait", seIn # NoBlock, UNCHANGED hostVars,
           LastBlockInv', OweInv', NEW b, Answer(b),
           b.kind = "I" => /\ b.seq = Flip(seVS') /\ ~seWait'
                           /\ ~b.more => seNext' > seTotal'
                           /\ seVR' # SEQ_NUM_MASTER /\ ~orig.more,
           b.kind = "R" => b.seq = seVR',
           b.kind = "S_RESYNC_RES" =>
               seVR' = 0 /\ lastI' = NoBlock /\ seNext' > seTotal' /\ ~seWait'
    PROVE  SeqInv'
  <1>1. /\ hpc' = hpc /\ gNextCmd' = gNextCmd
        /\ UNCHANGED <<SEQ_NUM_MASTER, SEQ_NUM_SLAVE, orig, part, nparts>>
    BY DEF hostVars, seqVars, apduVars, dataVars
  <1>2. /\ toSE' = NoBlock /\ seIn' = NoBlock
        /\ toHost' \in {b, NoBlock, Garbled}
    BY AnswerLine DEF SeqInv
  <1>3. IdleInv' /\ LineInv' /\ OrigInv' /\ CommandInv'
    BY <1>1, <1>2, KindsOfBlocks
       DEF SeqInv, IdleInv, LineInv, OrigInv, CommandInv, Live
  <1>4. AnswerInv'
    BY <1>1, <1>2, KindsOfBlocks DEF AnswerInv, NothingOwed
  <1> QED BY <1>3, <1>4 DEF SeqInv

LEMMA SendFragmentSeqInv ==
    ASSUME TypeOK, SeqInv, hpc = "wait", seIn # NoBlock, UNCHANGED hostVars,
           LastBlockInv', OweInv', seVR' # SEQ_NUM_MASTER, ~orig.more,
           NEW run, NEW next \in Nat, NEW total \in Nat,
           SendFragment(run, next, total)
    PROVE  SeqInv'
  <1>1. PICK b : b = IBlock(seVS, next < total, <<run, next>>)
    OBVIOUS
  <1>2. b.kind = "I" /\ b.seq = seVS /\ (b.more <=> next < total)
    BY <1>1 DEF IBlock
  <1>3. /\ Answer(b) /\ seVS' = Flip(seVS) /\ seNext' = next + 1 /\ seTotal' = total
        /\ seWait' = FALSE
    BY <1>1 DEF SendFragment
  <1>4. Flip(seVS') = seVS
    BY <1>3, FlipIsBit DEF TypeOK, CardTypeOK
  <1>5. ~b.more => seNext' > seTotal'
    BY <1>2, <1>3
  <1> QED BY <1>2, <1>3, <1>4, <1>5, AnswerSeqInv

LEMMA AskHostSeqInv ==
    ASSUME SeqInv, hpc = "wait", seIn # NoBlock, UNCHANGED hostVars,
           LastBlockInv', OweInv', NEW run, NEW total, NEW left,
           AskHost(run, total, left)
    PROVE  SeqInv'
  <1>1. PICK k \in AskKinds : Answer(SBlock(k))
    BY DEF AskHost, AskKinds
  <1>2. PICK b : b = SBlock(k)
    OBVIOUS
  <1>3. b.kind \in AskKinds
    BY <1>2, KindsOfBlocks
  <1> QED BY <1>1, <1>2, <1>3, AnswerSeqInv DEF AskKinds

LEMMA CardStepSeqInv ==
    ASSUME TypeOK, SeqInv, CardStep, UNCHANGED hostVars
    PROVE  SeqInv'
  <1>1. LastBlockInv'
    BY CardLastBlock DEF SeqInv
  <1>2. hpc' = hpc /\ gNextCmd' = gNextCmd
        /\ UNCHANGED <<SEQ_NUM_MASTER, SEQ_NUM_SLAVE, orig, part, nparts>>
    BY DEF hostVars, seqVars, apduVars, dataVars
  <1>3. toSE # NoBlock \/ seIn # NoBlock
    BY KindsOfBlocks
       DEF CardStep, CardTake, CardReject, CardChain, CardExecute, CardRetransmit,
           AsksAgain, CardContinue, CardAskAgain, CardResync, CardSoftReset
  <1>4. hpc \in {"wait", "failed"}
    BY <1>3 DEF SeqInv, LineInv, TypeOK, HostTypeOK
  <1>5. CASE hpc = "failed"
    BY <1>1, <1>2, <1>5, FailedSeqInv
  <1>6. CASE hpc = "wait"
    <2> USE <1>6
    <2>1. OweInv /\ LastBlockInv /\ CommandInv /\ Live
      BY DEF SeqInv, Live
    <2>2. /\ seVR \in Bit /\ seVS \in Bit /\ SEQ_NUM_MASTER \in Bit
          /\ seNext \in Nat /\ seTotal \in Nat /\ seWait \in BOOLEAN
      BY DEF TypeOK, CardTypeOK, HostTypeOK
    <2>3. /\ seIn.kind = "I" => /\ seIn.seq = SEQ_NUM_MASTER
                                /\ seIn.more = orig.more
          /\ seIn.kind = "R" => seIn.seq = SEQ_NUM_SLAVE
      BY <2>1 DEF CommandInv
    <2>4. CASE CardTake
      <3>1. /\ seIn' = toSE /\ toSE' = NoBlock /\ toHost' = toHost
            /\ UNCHANGED <<seVR, seVS, seNext, seTotal, seWait, lastI>>
            /\ toSE # NoBlock
        BY <2>4 DEF CardTake, cardVars, linkVars, oweVars
      <3>2. IdleInv' /\ LineInv' /\ OrigInv' /\ CommandInv'
        BY <1>2, <3>1, KindsOfBlocks
           DEF SeqInv, IdleInv, LineInv, OrigInv, CommandInv, Live
      <3>3. AnswerInv' /\ OweInv'
        BY <1>2, <3>1 DEF SeqInv, AnswerInv, OweInv, Live, NothingOwed
      <3> QED BY <1>1, <3>2, <3>3 DEF SeqInv
    <2>5. CASE CardReject
      <3>1. Answer(RBlock(seVR)) /\ UNCHANGED <<seVR, seVS, seNext, seTotal, seWait, lastI>>
        BY <2>5 DEF CardReject, cardVars, linkVars, oweVars
      <3>2. seIn # NoBlock
        BY <2>5, KindsOfBlocks DEF CardReject
      <3>3. OweInv'
        BY <1>2, <2>1, <3>1 DEF OweInv, NothingOwed
      <3> QED BY <1>1, <3>1, <3>2, <3>3, KindsOfBlocks, AnswerSeqInv
    <2>6. CASE CardChain
      <3>1. /\ Answer(RBlock(Flip(seVR))) /\ seVR' = Flip(seVR) /\ seVS' = seVS
            /\ seNext' = 1 /\ seTotal' = 0 /\ ~seWait' /\ lastI' = NoBlock
            /\ seIn.kind = "I" /\ seIn.seq = seVR
        BY <2>6 DEF CardChain, OweNothing
      <3>2. seIn # NoBlock
        BY <3>1, KindsOfBlocks
      <3>3. OweInv'
        BY <3>1 DEF OweInv, NothingOwed
      <3> QED BY <1>1, <3>1, <3>2, <3>3, KindsOfBlocks, AnswerSeqInv
    <2>7. CASE CardExecute
      <3>1. /\ seIn.kind = "I" /\ seIn.seq = seVR /\ ~seIn.more /\ seVR' = Flip(seVR)
        BY <2>7 DEF CardExecute
      <3>2. seVR' # SEQ_NUM_MASTER /\ ~orig.more /\ seIn # NoBlock
        BY <2>2, <2>3, <3>1, FlipIsBit, KindsOfBlocks
      <3>3. OweInv'
        BY <1>2, <3>2 DEF OweInv
      <3>4. PICK total \in 1..MaxFrags, ask \in 0..MaxAsk :
              IF ask = 0 THEN SendFragment(Len(executed) + 1, 1, total)
                         ELSE AskHost(Len(executed) + 1, total, ask - 1)
        BY <2>7 DEF CardExecute
      <3>5. CASE ask = 0
        <4>1. SendFragment(Len(executed) + 1, 1, total) /\ total \in Nat
          BY <3>4, <3>5, BoundsAssumption
        <4> QED BY <1>1, <3>2, <3>3, <4>1, SendFragmentSeqInv
      <3>6. CASE ask # 0
        <4>1. AskHost(Len(executed) + 1, total, ask - 1)
          BY <3>4, <3>6
        <4> QED BY <1>1, <3>2, <3>3, <4>1, AskHostSeqInv
      <3> QED BY <3>5, <3>6
    <2>8. CASE CardRetransmit
      <3>1. /\ seIn.kind = "R" /\ lastI # NoBlock /\ seIn.seq # seVS /\ Answer(lastI)
            /\ UNCHANGED <<seVR, seVS, seNext, seTotal, seWait, lastI>>
        BY <2>8 DEF CardRetransmit, AsksAgain, cardVars, linkVars, oweVars
      <3>2. seVR # SEQ_NUM_MASTER /\ ~orig.more /\ seIn # NoBlock
        BY <2>1, <2>3, <3>1, KindsOfBlocks DEF OweInv
      <3>3. OweInv'
        BY <1>2, <2>1, <3>1 DEF OweInv, NothingOwed
      <3>4. PICK b : b = lastI
        OBVIOUS
      <3>5. /\ b.kind = "I" /\ b.seq = Flip(seVS) /\ ~seWait
            /\ ~b.more => seNext > seTotal
        BY <2>1, <3>1, <3>4 DEF LastBlockInv
      <3> QED BY <1>1, <3>1, <3>2, <3>3, <3>4, <3>5, AnswerSeqInv
    <2>9. CASE CardContinue
      <3>1. /\ SendFragment(seRun, seNext, seTotal) /\ seVR' = seVR
            /\ ~NothingOwed /\ seIn # NoBlock
        BY <2>2, <2>9, KindsOfBlocks DEF CardContinue, NothingOwed
      <3>2. seVR' # SEQ_NUM_MASTER /\ ~orig.more
        BY <2>1, <3>1 DEF OweInv
      <3>3. OweInv'
        BY <1>2, <3>2 DEF OweInv
      <3> QED BY <1>1, <2>2, <3>1, <3>2, <3>3, SendFragmentSeqInv
    <2>10. CASE CardAskAgain
      <3>1. PICK left : AskHost(seRun, seTotal, left)
        BY <2>10 DEF CardAskAgain
      <3>2. seVR' = seVR /\ seWait /\ seIn # NoBlock
        BY <2>10, KindsOfBlocks DEF CardAskAgain
      <3>3. seVR' # SEQ_NUM_MASTER /\ ~orig.more
        BY <2>1, <3>2 DEF OweInv, NothingOwed
      <3>4. OweInv'
        BY <1>2, <3>3 DEF OweInv
      <3> QED BY <1>1, <3>1, <3>2, <3>3, <3>4, AskHostSeqInv
    <2>11. CASE CardResync
      <3>1. Answer(SBlock("S_RESYNC_RES")) /\ ForgetLink /\ seIn # NoBlock
        BY <2>11, KindsOfBlocks DEF CardResync
      <3>2. OweInv'
        BY <3>1 DEF OweInv, NothingOwed, ForgetLink, OweNothing
      <3> QED
        BY <1>1, <3>1, <3>2, KindsOfBlocks, AnswerSeqInv DEF ForgetLink, OweNothing
    <2>12. CASE CardSoftReset
      <3>1. Answer(SBlock("S_SWRESET_RES")) /\ ForgetLink /\ seIn # NoBlock
        BY <2>12, KindsOfBlocks DEF CardSoftReset
      <3>2. OweInv'
        BY <3>1 DEF OweInv, NothingOwed, ForgetLink, OweNothing
      <3> QED BY <1>1, <3>1, <3>2, KindsOfBlocks, AnswerSeqInv
    <2> QED
      BY <2>4, <2>5, <2>6, <2>7, <2>8, <2>9, <2>10, <2>11, <2>12 DEF CardStep
  <1> QED BY <1>4, <1>5, <1>6

-----------------------------------------------------------------------------
LEMMA ResetSeqInv ==
    ASSUME TypeOK, SeqInv, Reset
    PROVE  SeqInv'
  <1>1. /\ toSE' = NoBlock /\ seIn' = NoBlock /\ toHost' = NoBlock
        /\ seVR' = 0 /\ seVS' = 0 /\ seNext' = 1 /\ seTotal' = 0
        /\ seWait' = FALSE /\ lastI' = NoBlock
    BY DEF Reset, CardPowerReset, ForgetLink, OweNothing
  <1>2. LastBlockInv'
    BY <1>1 DEF LastBlockInv
  <1>3. \/ hpc' = "failed"
        \/ hpc' = "idle" /\ SEQ_NUM_MASTER' = 0 /\ SEQ_NUM_SLAVE' = 0
    BY DEF Reset, Setup, SetupNoAtp, SetupNoIfs, SetupWrongIfs, SetupOk,
           ResetSequenceNumbers
  <1> QED
    BY <1>1, <1>2, <1>3, FailedSeqInv
       DEF SeqInv, IdleInv, LineInv, OrigInv, CommandInv, AnswerInv, OweInv,
           NothingOwed, Live

(* SeqInv is inductive when a failed exchange is followed by a reset and   *)
(* the SE is never late.                                                   *)
THEOREM SeqInvHolds ==
    ASSUME Disciplined
    PROVE  Spec => []SeqInv
  <1>1. TypeOK /\ SeqInv /\ [Next]_vars => SeqInv'
    <2> SUFFICES ASSUME TypeOK, SeqInv, [Next]_vars PROVE SeqInv'
      OBVIOUS
    <2>1. CASE Submit
      BY <2>1, SubmitSeqInv
    <2>2. CASE Host
      BY <2>2, HostStepSeqInv DEF Host
    <2>3. CASE Card
      BY <2>3, CardStepSeqInv DEF Card
    <2>4. CASE Reset
      BY <2>4, ResetSeqInv
    <2>5. CASE Finished \/ UNCHANGED vars
      BY <2>5
         DEF Finished, vars, wireVars, hostVars, cardVars, seqVars, apduVars, dataVars,
             linkVars, oweVars, SeqInv, IdleInv, LineInv, OrigInv, CommandInv,
             LastBlockInv, AnswerInv, OweInv, NothingOwed, Live, HasNoCase
    <2> QED BY <2>1, <2>2, <2>3, <2>4, <2>5 DEF Next
  <1> QED
    BY <1>1, InitSeqInv, TypeCorrect, PTL DEF Spec

(* Between exchanges the two ends agree on both sequence numbers, whatever *)
(* recovery the exchanges needed, for every bound.                         *)
THEOREM SeqAgreementHolds ==
    ASSUME Disciplined
    PROVE  Spec => []SeqAgreement
  <1>1. SeqInv => SeqAgreement
    BY DEF SeqInv, IdleInv, SeqAgreement
  <1> QED
    BY <1>1, SeqInvHolds, PTL
=============================================================================
