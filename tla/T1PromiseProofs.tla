-------------------------- MODULE T1PromiseProofs --------------------------
(***************************************************************************)
(* What an exchange delivers, for every number of APDUs, parts, fragments  *)
(* and requests.  When at most one fault hits an exchange and no block is  *)
(* damaged (OneFault): whole commands, intact responses and the promise of *)
(* ApduExchange.  For any faults: a second run of a command is paid for by *)
(* a fault, and APDUs of one block keep the promise all the same.          *)
(***************************************************************************)
EXTENDS T1RecoveryProofs, T1Refinement, SequenceTheorems

(* The SE steps only while the host waits or after it failed. *)
LEMMA CardSteps ==
    ASSUME TypeOK, LineInv, CardStep
    PROVE  hpc \in {"wait", "failed"} /\ (CardTake \/ seIn # NoBlock)
  <1>1. CardTake \/ seIn # NoBlock
    BY KindsOfBlocks
       DEF CardStep, CardReject, CardChain, CardExecute, CardRetransmit, AsksAgain,
           CardContinue, CardAskAgain, CardResync, CardSoftReset
  <1>2. toSE # NoBlock \/ seIn # NoBlock
    BY <1>1 DEF CardTake
  <1> QED BY <1>1, <1>2 DEF LineInv, TypeOK, HostTypeOK

LEMMA HostKept ==
    ASSUME UNCHANGED hostVars
    PROVE  /\ UNCHANGED <<hpc, gNextCmd, SEQ_NUM_MASTER, SEQ_NUM_SLAVE, recoveryStatus,
                          orig, apdu, nparts, part, rxList, rsp>>
           /\ Live' <=> Live
           /\ InExchange' <=> InExchange
  BY DEF hostVars, seqVars, apduVars, dataVars, Live, HasNoCase, InExchange

LEMMA CardKept ==
    ASSUME UNCHANGED cardVars
    PROVE  UNCHANGED <<seVR, seVS, seRx, seRun, seNext, seTotal, seAsk, seWait, lastI,
                       executed, resyncs>>
  BY DEF cardVars, linkVars, oweVars

(* The block that answers a request, and the one that makes none. *)
LEMMA AskHostBlock ==
    ASSUME NEW run, NEW total, NEW left, AskHost(run, total, left)
    PROVE  \E b : b.kind \in AskKinds /\ Answer(b)
  <1>1. PICK k \in AskKinds : Answer(SBlock(k))
    BY DEF AskHost, AskKinds
  <1>2. PICK b : b = SBlock(k)
    OBVIOUS
  <1>3. b.kind \in AskKinds
    BY <1>2, KindsOfBlocks
  <1> QED BY <1>1, <1>2, <1>3

-----------------------------------------------------------------------------
(* The host sends what the SE wants. *)
LEMMA HostStepWantedInv ==
    ASSUME TypeOK, SeqInv, WantedInv, Disciplined, HostStep, UNCHANGED cardVars
    PROVE  WantedInv'
  <1> USE CardKept
  <1>1. CASE HostSend
    <2>1. PICK t \in Transfers(CommandBlock) : toSE' = t.block
      BY <1>1 DEF HostSend
    <2>2. /\ hpc = "send" /\ ~HasNoCase /\ hpc' = "wait"
          /\ toSE' \in {CommandBlock, NoBlock, Garbled}
          /\ UNCHANGED <<seIn, toHost, gNextCmd, SEQ_NUM_MASTER>>
      BY <1>1, <2>1, TransferResult DEF HostSend, seqVars
    <2>3. seIn' = NoBlock /\ toHost' = NoBlock
      BY <2>2 DEF SeqInv, LineInv
    <2>4. /\ CommandBlock.kind = "I" => seVR = SEQ_NUM_MASTER
          /\ CommandBlock.kind = "S_WTX_RES" => seWait
      <3>1. /\ gNextCmd \in Commands \ {"Idle", "S_Resync_RES", "S_IFS_RES"}
            /\ gNextCmd = "I_block" => seVR = SEQ_NUM_MASTER
            /\ gNextCmd = "S_WTX_RES" => seWait
        BY <2>2 DEF WantedInv, HasNoCase, TypeOK, HostTypeOK
      <3> QED BY <3>1, KindsOfBlocks DEF CommandBlock, Commands
    <2> QED BY <2>2, <2>3, <2>4, KindsOfBlocks DEF WantedInv, AskKinds
  <1>2. CASE HostNoCase \/ HostIoError
    BY <1>2 DEF HostNoCase, HostIoError, WantedInv
  <1>3. CASE DoRecovery
    BY <1>3, RecoveryType DEF DoRecovery, WantedInv, TypeOK, HostTypeOK
  <1>4. CASE HostRecvI
    <2>1. hpc = "wait" /\ toHost.kind = "I"
      BY <1>4 DEF HostRecvI, ReadBlock
    <2>2. ~orig.more
      BY <2>1 DEF SeqInv, AnswerInv
    <2>3. hpc' = "idle" \/ (hpc' = "send" /\ gNextCmd' = "R_ACK")
      BY <1>4, <2>1, <2>2, EndPartLast DEF HostRecvI, Continue
    <2> QED BY <2>3 DEF WantedInv
  <1>5. CASE HostRecvR
    <2>1. hpc = "wait" /\ toHost.kind = "R" /\ toHost.seq = seVR
      BY <1>5 DEF HostRecvR, ReadBlock, SeqInv, AnswerInv
    <2>2. seVR \in Bit /\ SEQ_NUM_MASTER \in Bit
      BY DEF TypeOK, CardTypeOK, HostTypeOK
    <2>3. IsSequenceNumberOk(toHost) <=>
             seVR = (IF orig.more THEN Flip(SEQ_NUM_MASTER) ELSE SEQ_NUM_MASTER)
      BY <2>1 DEF IsSequenceNumberOk
    <2>4. CASE orig.more /\ IsSequenceNumberOk(toHost)
      <3>1. EndPart(<<>>)
        BY <1>5, <2>4 DEF HostRecvR
      <3>2. /\ hpc' = "send" /\ gNextCmd' = "I_block"
            /\ SEQ_NUM_MASTER' = Flip(SEQ_NUM_MASTER)
        BY <2>1, <2>4, <3>1, EndPartNext
      <3> QED BY <2>3, <2>4, <3>2 DEF WantedInv
    <2>5. CASE ~(orig.more /\ IsSequenceNumberOk(toHost))
      <3>1. hpc' = "send" /\ gNextCmd' = ReplyToR /\ SEQ_NUM_MASTER' = SEQ_NUM_MASTER
        BY <1>5, <2>5 DEF HostRecvR, Continue
      <3>2. ReplyToR \in {"I_block", "S_Resync_REQ"}
        BY DEF ReplyToR
      <3>3. ReplyToR = "I_block" => seVR = SEQ_NUM_MASTER
        BY <2>2, <2>3, <2>5 DEF ReplyToR, Bit, Flip
      <3> QED BY <3>1, <3>2, <3>3 DEF WantedInv
    <2> QED BY <2>4, <2>5
  <1>6. CASE HostRecvRequest
    BY <1>6 DEF HostRecvRequest, ReadBlock, Continue, WantedInv, AskKinds
  <1>7. CASE HostRecvReset
    <2>1. hpc = "wait" /\ SEQ_NUM_MASTER' = 0
      BY <1>7 DEF HostRecvReset, ReadBlock, ResetSequenceNumbers
    <2>2. CASE toHost.kind = "S_RESYNC_RES"
      BY <1>7, <2>1, <2>2
         DEF HostRecvReset, ResendWithNsZero, Continue, SeqInv, AnswerInv, WantedInv
    <2>3. CASE toHost.kind # "S_RESYNC_RES"
      BY <1>7, <2>3 DEF HostRecvReset, Continue, SoftResetEnds, WantedInv
    <2> QED BY <2>2, <2>3
  <1> QED
    BY <1>1, <1>2, <1>3, <1>4, <1>5, <1>6, <1>7
       DEF HostStep, HostTimeout, HostRecvInconsistent

(* An answer that is no request, or one the SE then waits on. *)
LEMMA AnswerWantedInv ==
    ASSUME SeqInv, hpc = "wait", seIn # NoBlock, UNCHANGED hostVars,
           NEW b, Answer(b), b.kind \in AskKinds => seWait'
    PROVE  WantedInv'
  <1>1. toSE' = NoBlock /\ seIn' = NoBlock /\ toHost' \in {b, NoBlock, Garbled}
    BY AnswerLine DEF SeqInv
  <1> QED BY <1>1, HostKept, KindsOfBlocks DEF WantedInv, AskKinds

LEMMA CardStepWantedInv ==
    ASSUME TypeOK, SeqInv, WantedInv, CardStep, UNCHANGED hostVars
    PROVE  WantedInv'
  <1>1. hpc \in {"wait", "failed"} /\ (CardTake \/ seIn # NoBlock)
    BY CardSteps DEF SeqInv
  <1>2. CASE hpc = "failed"
    BY <1>2, HostKept DEF WantedInv
  <1>3. CASE hpc = "wait" /\ CardTake
    BY <1>3, HostKept, KindsOfBlocks DEF CardTake, cardVars, linkVars, oweVars, WantedInv
  <1>4. CASE hpc = "wait" /\ ~CardTake
    <2>1. seIn # NoBlock
      BY <1>1, <1>4
    <2>2. ASSUME NEW b, b.kind \notin AskKinds, Answer(b)
          PROVE  WantedInv'
      BY <1>4, <2>1, <2>2, AnswerWantedInv
    <2>3. ASSUME NEW run, NEW total, NEW left, AskHost(run, total, left)
          PROVE  WantedInv'
      <3>1. seWait' /\ \E b : b.kind \in AskKinds /\ Answer(b)
        BY <2>3, AskHostBlock DEF AskHost
      <3> QED BY <1>4, <2>1, <3>1, AnswerWantedInv
    <2>4. ASSUME NEW run, NEW next, NEW total, SendFragment(run, next, total)
          PROVE  WantedInv'
      <3>1. PICK b : b = IBlock(seVS, next < total, <<run, next>>)
        OBVIOUS
      <3>2. b.kind \notin AskKinds /\ Answer(b)
        BY <2>4, <3>1, KindsOfBlocks DEF SendFragment, AskKinds
      <3> QED BY <2>2, <3>2
    <2>5. CASE CardReject
      BY <2>2, <2>5, KindsOfBlocks DEF CardReject, AskKinds
    <2>6. CASE CardChain
      BY <2>2, <2>6, KindsOfBlocks DEF CardChain, AskKinds
    <2>7. CASE CardExecute
      BY <2>3, <2>4, <2>7 DEF CardExecute
    <2>8. CASE CardRetransmit
      <3>1. PICK b : b = lastI
        OBVIOUS
      <3>2. b.kind \notin AskKinds /\ Answer(b)
        BY <2>8, <3>1
           DEF CardRetransmit, AsksAgain, SeqInv, LastBlockInv, AskKinds
      <3> QED BY <2>2, <3>2
    <2>9. CASE CardContinue
      BY <2>4, <2>9 DEF CardContinue
    <2>10. CASE CardAskAgain
      BY <2>3, <2>10 DEF CardAskAgain
    <2>11. CASE CardResync \/ CardSoftReset
      BY <2>2, <2>11, KindsOfBlocks DEF CardResync, CardSoftReset, AskKinds
    <2> QED
      BY <1>4, <2>5, <2>6, <2>7, <2>8, <2>9, <2>10, <2>11 DEF CardStep
  <1> QED BY <1>1, <1>2, <1>3, <1>4

(* WantedInv is inductive beside SeqInv, whatever the faults. *)
THEOREM WantedInvHolds ==
    ASSUME Disciplined
    PROVE  Spec => []WantedInv
  <1>1. Init => WantedInv
    BY DEF Init, HostInit, WantedInv
  <1>2. TypeOK /\ SeqInv /\ WantedInv /\ [Next]_vars => WantedInv'
    <2> SUFFICES ASSUME TypeOK, SeqInv, WantedInv, [Next]_vars PROVE WantedInv'
      OBVIOUS
    <2>1. CASE Submit
      BY <2>1
         DEF Submit, Start, BeginPart, Disciplined, SeqInv, IdleInv, WantedInv, seqVars,
             linkVars
    <2>2. CASE Host
      BY <2>2, HostStepWantedInv DEF Host
    <2>3. CASE Card
      BY <2>3, CardStepWantedInv DEF Card
    <2>4. CASE Reset
      BY <2>4 DEF Reset, Setup, SetupNoAtp, SetupNoIfs, SetupWrongIfs, SetupOk, WantedInv
    <2>5. CASE Finished \/ UNCHANGED vars
      BY <2>5, HostKept, CardKept DEF Finished, vars, wireVars, WantedInv
    <2> QED BY <2>1, <2>2, <2>3, <2>4, <2>5 DEF Next
  <1> QED
    BY <1>1, <1>2, TypeCorrect, SeqInvHolds, PTL DEF Spec

-----------------------------------------------------------------------------
(* The SE answers with its own fragments of a run of the current APDU.     *)
LEMMA RunsKept ==
    ASSUME UNCHANGED <<executed, apdu>>
    PROVE  Runs' = Runs
  BY DEF Runs

(* The host changes nothing of what the SE owes; it ends what the SE has   *)
(* taken, or leaves it as it is.                                           *)
LEMMA HostFragmentInv ==
    ASSUME FragmentInv, UNCHANGED <<apdu, cardVars>>, Taken' => Taken,
           hpc' = "wait" => toHost'.kind # "I"
    PROVE  FragmentInv'
  <1>1. Runs' = Runs /\ (NothingOwed' <=> NothingOwed)
    BY CardKept, RunsKept DEF NothingOwed
  <1>2. FragsInv'
    BY CardKept DEF FragmentInv, FragsInv
  <1>3. OwnRunInv'
    BY <1>1, CardKept DEF FragmentInv, OwnRunInv
  <1> QED BY <1>2, <1>3 DEF FragmentInv, AnswerIsLast

LEMMA HostStepFragmentInv ==
    ASSUME TypeOK, SeqInv, FragmentInv, Disciplined, HostStep, UNCHANGED cardVars
    PROVE  FragmentInv'
  <1> USE CardKept
  <1>1. CASE HostSend
    <2>1. /\ hpc = "send" /\ ~HasNoCase /\ toHost' = toHost
          /\ UNCHANGED <<SEQ_NUM_MASTER, apdu>>
      BY <1>1 DEF HostSend, seqVars, apduVars
    <2>2. toHost = NoBlock
      BY <2>1 DEF SeqInv, LineInv
    <2> QED BY <2>1, <2>2, HostFragmentInv, KindsOfBlocks DEF Taken, Live
  <1>2. CASE HostNoCase \/ HostIoError
    BY <1>2, HostFragmentInv DEF HostNoCase, HostIoError, Taken, Live, apduVars
  <1>3. CASE hpc = "wait" /\ hpc' # "wait" /\ UNCHANGED <<SEQ_NUM_MASTER, apdu>>
    BY <1>3, HostFragmentInv DEF Taken, Live
  <1>4. CASE HostTimeout \/ HostRecvInconsistent
    <2>1. hpc = "wait" /\ DoRecovery
      BY <1>4 DEF HostTimeout, HostRecvInconsistent, ReadBlock
    <2>2. hpc' # "wait" /\ UNCHANGED <<SEQ_NUM_MASTER, apdu>>
      BY <2>1 DEF DoRecovery, seqVars, apduVars
    <2> QED BY <1>3, <2>1, <2>2
  <1>5. CASE HostRecvI
    <2>1. hpc = "wait" /\ toHost.kind = "I" /\ apdu' = apdu
      BY <1>5 DEF HostRecvI, ReadBlock, apduVars
    <2>2. ~orig.more
      BY <2>1 DEF SeqInv, AnswerInv
    <2>3. \/ hpc' = "idle"
          \/ hpc' = "send" /\ UNCHANGED SEQ_NUM_MASTER
      BY <1>5, <2>1, <2>2, EndPartLast DEF HostRecvI, Continue
    <2>4. CASE hpc' = "idle"
      BY <2>1, <2>4, HostFragmentInv DEF Taken, Live
    <2> QED BY <1>3, <2>1, <2>3, <2>4
  <1>6. CASE HostRecvR
    <2>1. /\ hpc = "wait" /\ toHost.kind = "R" /\ toHost.seq = seVR /\ apdu' = apdu
      BY <1>6 DEF HostRecvR, ReadBlock, SeqInv, AnswerInv, apduVars
    <2>2. CASE orig.more /\ IsSequenceNumberOk(toHost)
      <3>1. EndPart(<<>>)
        BY <1>6, <2>2 DEF HostRecvR
      <3>2. hpc' = "send" /\ SEQ_NUM_MASTER' = Flip(SEQ_NUM_MASTER)
        BY <2>1, <2>2, <3>1, EndPartNext
      <3>3. ~Taken'
        BY <2>1, <2>2, <3>2 DEF IsSequenceNumberOk, Taken
      <3> QED BY <2>1, <3>2, <3>3, HostFragmentInv
    <2>3. CASE ~(orig.more /\ IsSequenceNumberOk(toHost))
      BY <1>3, <1>6, <2>1, <2>3 DEF HostRecvR, Continue
    <2> QED BY <2>2, <2>3
  <1>7. CASE HostRecvRequest
    BY <1>3, <1>7 DEF HostRecvRequest, ReadBlock, Continue, seqVars, apduVars
  <1>8. CASE HostRecvReset
    <2>1. hpc = "wait" /\ SEQ_NUM_MASTER' = 0 /\ hpc' # "wait" /\ apdu' = apdu
      BY <1>8
         DEF HostRecvReset, ReadBlock, ResetSequenceNumbers, ResendWithNsZero, Continue,
             SoftResetEnds, apduVars
    <2>2. CASE toHost.kind = "S_RESYNC_RES"
      BY <2>1, <2>2, HostFragmentInv DEF SeqInv, AnswerInv, Taken
    <2>3. CASE toHost.kind # "S_RESYNC_RES"
      <3>1. ~Live'
        BY <1>8, <2>1, <2>3
           DEF HostRecvReset, Continue, SoftResetEnds, Live, HasNoCase
      <3> QED BY <2>1, <3>1, HostFragmentInv DEF Taken
    <2> QED BY <2>2, <2>3
  <1> QED
    BY <1>1, <1>2, <1>4, <1>5, <1>6, <1>7, <1>8 DEF HostStep

(* The SE's next fragment. *)
LEMMA SendFragmentOwnRun ==
    ASSUME TypeOK, SeqInv, hpc = "wait", seIn # NoBlock, UNCHANGED hostVars,
           NEW run \in Runs', NEW next \in Nat, NEW total \in Nat,
           SendFragment(run, next, total),
           total = executed'[run].frags, next \in 1..total
    PROVE  OwnRunInv' /\ AnswerIsLast'
  <1>1. PICK b : b = IBlock(seVS, next < total, <<run, next>>)
    OBVIOUS
  <1>2. b.kind = "I" /\ b.data = <<run, next>> /\ b.more = (next < total)
    BY <1>1 DEF IBlock
  <1>3. Answer(b) /\ lastI' = b /\ seRun' = run /\ seNext' = next + 1 /\ seTotal' = total
    BY <1>1 DEF SendFragment
  <1>4. toHost' \in {b, NoBlock, Garbled}
    BY <1>3, AnswerLine DEF SeqInv
  <1>5. AnswerIsLast'
    BY <1>3, <1>4, KindsOfBlocks DEF AnswerIsLast
  <1>6. lastI' # NoBlock
    BY <1>2, <1>3, KindsOfBlocks
  <1>7. /\ seNext' \in 1..(seTotal' + 1) /\ seNext' > 1 /\ seNext' - 1 = next
        /\ (next < total) = (seNext' <= seTotal')
    BY <1>3
  <1>8. OwnRunInv'
    BY <1>2, <1>3, <1>6, <1>7 DEF OwnRunInv
  <1> QED BY <1>5, <1>8

(* An answer that is not a fragment, and a request. *)
LEMMA NoFragmentAnswer ==
    ASSUME SeqInv, hpc = "wait", seIn # NoBlock, NEW b, Answer(b), b.kind # "I"
    PROVE  AnswerIsLast'
  <1>1. toHost' \in {b, NoBlock, Garbled}
    BY AnswerLine DEF SeqInv
  <1> QED BY <1>1, KindsOfBlocks DEF AnswerIsLast

LEMMA AskHostOwnRun ==
    ASSUME SeqInv, hpc = "wait", seIn # NoBlock, NEW run \in Runs', NEW total, NEW left,
           AskHost(run, total, left), total = executed'[run].frags, total \in Nat
    PROVE  OwnRunInv' /\ AnswerIsLast'
  <1>1. PICK b : b.kind \in AskKinds /\ Answer(b)
    BY AskHostBlock
  <1>2. AnswerIsLast'
    BY <1>1, NoFragmentAnswer DEF AskKinds
  <1>3. /\ seRun' = run /\ seNext' = 1 /\ seTotal' = total /\ lastI' = NoBlock
    BY DEF AskHost
  <1>4. OwnRunInv'
    BY <1>3 DEF OwnRunInv
  <1> QED BY <1>2, <1>4

(* The SE owes nothing of the current APDU. *)
LEMMA OweNothingOwnRun ==
    ASSUME OweNothing
    PROVE  OwnRunInv'
  <1>1. seNext' = 1 /\ seTotal' = 0 /\ seWait' = FALSE /\ lastI' = NoBlock
    BY DEF OweNothing
  <1> QED BY <1>1 DEF OwnRunInv, NothingOwed

LEMMA CardStepFragmentInv ==
    ASSUME TypeOK, SeqInv, RerunInv, FragmentInv, CardStep, UNCHANGED hostVars
    PROVE  FragmentInv'
  <1> USE HostKept
  <1>1. hpc \in {"wait", "failed"} /\ (CardTake \/ seIn # NoBlock)
    BY CardSteps DEF SeqInv
  <1>2. /\ ~CardExecute => executed' = executed /\ Runs' = Runs
        /\ CardExecute => \E total \in 1..MaxFrags :
              /\ executed' = Append(executed, [cmd   |-> Append(seRx, seIn.data),
                                               frags |-> total])
              /\ \E ask \in 0..MaxAsk :
                    IF ask = 0 THEN SendFragment(Len(executed) + 1, 1, total)
                               ELSE AskHost(Len(executed) + 1, total, ask - 1)
    <2>1. ~CardExecute => executed' = executed
      BY DEF CardStep, CardTake, CardReject, CardChain, CardRetransmit, CardContinue,
             CardAskAgain, CardResync, CardSoftReset, cardVars
    <2> QED BY <2>1, RunsKept DEF CardExecute
  <1>3. ASSUME NEW total \in 1..MaxFrags, CardExecute,
               executed' = Append(executed, [cmd   |-> Append(seRx, seIn.data),
                                             frags |-> total])
        PROVE  /\ FragsInv'
               /\ Len(executed) + 1 \in Runs'
               /\ executed'[Len(executed) + 1].frags = total
               /\ total \in Nat /\ total \in 1..MaxFrags
    <2>1. /\ seRx \in Seq(Payload) /\ seIn.data \in Payload /\ total \in Nat
          /\ seIn.data[1] = apdu
      BY <1>3, BoundsAssumption
         DEF TypeOK, CardTypeOK, WireTypeOK, Block, RerunInv, CommandOfApdu, CardExecute
    <2>2. PICK cmd : cmd = Append(seRx, seIn.data)
      OBVIOUS
    <2>3. cmd \in Seq(Payload) /\ cmd[Len(cmd)][1] = apdu
      BY <2>1, <2>2, LastAppended
    <2>4. /\ Len(executed) \in Nat
          /\ DOMAIN executed = 1..Len(executed)
          /\ DOMAIN executed' = 1..(Len(executed) + 1)
          /\ \A i \in DOMAIN executed : executed'[i] = executed[i]
          /\ executed'[Len(executed) + 1] = [cmd |-> cmd, frags |-> total]
          /\ Runs' = Runs \cup {Len(executed) + 1}
      BY <1>3, <2>1, <2>2, <2>3, NewRun
    <2>5. \A i \in DOMAIN executed' : i \in DOMAIN executed \/ i = Len(executed) + 1
      BY <2>4
    <2>6. FragsInv'
      BY <1>3, <2>4, <2>5 DEF FragmentInv, FragsInv
    <2> QED BY <1>3, <2>1, <2>4, <2>6
  <1>4. FragsInv'
    BY <1>2, <1>3 DEF FragmentInv, FragsInv
  <1>5. CASE hpc = "failed"
    BY <1>4, <1>5 DEF FragmentInv, OwnRunInv, AnswerIsLast, Taken, Live
  <1>6. CASE hpc = "wait" /\ (CardTake \/ CardReject \/ CardRetransmit)
    <2>1. UNCHANGED cardVars
      BY <1>6 DEF CardTake, CardReject, CardRetransmit
    <2>2. Runs' = Runs /\ (NothingOwed' <=> NothingOwed) /\ (Taken' <=> Taken)
      BY <2>1, CardKept, RunsKept DEF NothingOwed, Taken
    <2>3. OwnRunInv'
      BY <2>1, <2>2, CardKept DEF FragmentInv, OwnRunInv
    <2>4. CASE CardTake
      BY <1>4, <2>1, <2>3, <2>4, CardKept DEF CardTake, FragmentInv, AnswerIsLast
    <2>5. CASE CardReject
      <3>1. seIn # NoBlock /\ Answer(RBlock(seVR))
        BY <2>5, KindsOfBlocks DEF CardReject
      <3>2. AnswerIsLast'
        BY <1>6, <3>1, NoFragmentAnswer, KindsOfBlocks
      <3> QED BY <1>4, <2>3, <3>2 DEF FragmentInv
    <2>6. CASE CardRetransmit
      <3>1. seIn # NoBlock /\ Answer(lastI)
        BY <2>6, KindsOfBlocks DEF CardRetransmit, AsksAgain
      <3>2. PICK b : b = lastI
        OBVIOUS
      <3>3. toHost' \in {lastI, NoBlock, Garbled}
        BY <1>6, <3>1, <3>2, AnswerLine DEF SeqInv
      <3>4. AnswerIsLast'
        BY <2>1, <3>3, CardKept, KindsOfBlocks DEF AnswerIsLast
      <3> QED BY <1>4, <2>3, <3>4 DEF FragmentInv
    <2> QED BY <1>6, <2>4, <2>5, <2>6
  <1>7. CASE hpc = "wait" /\ (CardChain \/ CardResync \/ CardSoftReset)
    <2>1. /\ OweNothing /\ seIn # NoBlock
          /\ \E b : b.kind # "I" /\ Answer(b)
      BY <1>7, KindsOfBlocks DEF CardChain, CardResync, CardSoftReset, ForgetLink
    <2>2. OwnRunInv' /\ AnswerIsLast'
      BY <1>7, <2>1, OweNothingOwnRun, NoFragmentAnswer
    <2> QED BY <1>4, <2>2 DEF FragmentInv
  <1>8. CASE hpc = "wait" /\ CardExecute
    <2>1. PICK total \in 1..MaxFrags :
              /\ executed' = Append(executed, [cmd   |-> Append(seRx, seIn.data),
                                               frags |-> total])
              /\ \E ask \in 0..MaxAsk :
                    IF ask = 0 THEN SendFragment(Len(executed) + 1, 1, total)
                               ELSE AskHost(Len(executed) + 1, total, ask - 1)
      BY <1>2, <1>8
    <2>2. /\ Len(executed) + 1 \in Runs' /\ total \in Nat /\ 1 \in 1..total /\ 1 \in Nat
          /\ executed'[Len(executed) + 1].frags = total
      BY <1>3, <1>8, <2>1
    <2>3. seIn # NoBlock
      BY <1>8, KindsOfBlocks DEF CardExecute
    <2>4. OwnRunInv' /\ AnswerIsLast'
      BY <1>8, <2>1, <2>2, <2>3, SendFragmentOwnRun, AskHostOwnRun
    <2> QED BY <1>4, <2>4 DEF FragmentInv
  <1>9. CASE hpc = "wait" /\ (CardContinue \/ CardAskAgain)
    <2>1. /\ seIn # NoBlock /\ seNext \in Nat /\ seTotal \in Nat
          /\ seWait \/ seNext <= seTotal
          /\ UNCHANGED <<executed, seVR>>
      BY <1>9, KindsOfBlocks DEF CardContinue, CardAskAgain, TypeOK, CardTypeOK
    <2>2. ~NothingOwed
      BY <2>1 DEF NothingOwed
    <2>3. Taken
      BY <1>9, <2>2 DEF SeqInv, OweInv, Taken, Live
    <2>4. /\ seRun \in Runs' /\ seTotal = executed'[seRun].frags
          /\ seNext \in 1..(seTotal + 1)
      BY <2>1, <2>2, <2>3, RunsKept DEF FragmentInv, OwnRunInv
    <2>5. seTotal >= 1
      BY <2>1, <2>4 DEF FragmentInv, FragsInv, Runs
    <2>6. CASE CardContinue
      <3>1. seNext \in 1..seTotal
        <4>1. CASE seWait
          <5>1. lastI = NoBlock
            BY <4>1 DEF SeqInv, LastBlockInv
          <5>2. seNext = 1
            BY <2>3, <5>1 DEF FragmentInv, OwnRunInv
          <5> QED BY <2>1, <2>5, <5>2
        <4>2. CASE seNext <= seTotal
          BY <2>1, <2>4, <4>2
        <4> QED BY <2>1, <4>1, <4>2
      <3>2. SendFragment(seRun, seNext, seTotal)
        BY <2>6 DEF CardContinue
      <3>3. OwnRunInv' /\ AnswerIsLast'
        BY <1>9, <2>1, <2>4, <3>1, <3>2, SendFragmentOwnRun
      <3> QED BY <1>4, <3>3 DEF FragmentInv
    <2>7. CASE CardAskAgain
      <3>1. PICK left : AskHost(seRun, seTotal, left)
        BY <2>7 DEF CardAskAgain
      <3>2. OwnRunInv' /\ AnswerIsLast'
        BY <1>9, <2>1, <2>4, <3>1, AskHostOwnRun
      <3> QED BY <1>4, <3>2 DEF FragmentInv
    <2> QED BY <1>9, <2>6, <2>7
  <1> QED
    BY <1>1, <1>5, <1>6, <1>7, <1>8, <1>9 DEF CardStep

(* FragmentInv is inductive beside SeqInv and RerunInv, whatever the       *)
(* faults.                                                                 *)
THEOREM FragmentInvHolds ==
    ASSUME Disciplined
    PROVE  Spec => []FragmentInv
  <1>1. Init => FragmentInv
    BY DEF Init, HostInit, CardInit, FragmentInv, FragsInv, OwnRunInv, AnswerIsLast,
           Taken, Live
  <1>2. TypeOK /\ SeqInv /\ RerunInv /\ FragmentInv /\ [Next]_vars => FragmentInv'
    <2> SUFFICES ASSUME TypeOK, SeqInv, RerunInv, FragmentInv, [Next]_vars
                 PROVE  FragmentInv'
      OBVIOUS
    <2>1. CASE Submit
      <3>1. /\ hpc = "idle" /\ hpc' = "send" /\ executed' = executed
            /\ UNCHANGED <<SEQ_NUM_MASTER, seVR>>
        BY <2>1 DEF Submit, Start, BeginPart, Disciplined, seqVars, linkVars
      <3>2. ~Taken'
        BY <3>1 DEF SeqInv, IdleInv, Taken
      <3> QED BY <3>1, <3>2 DEF FragmentInv, FragsInv, OwnRunInv, AnswerIsLast
    <2>2. CASE Host
      BY <2>2, HostStepFragmentInv DEF Host
    <2>3. CASE Card
      BY <2>3, CardStepFragmentInv DEF Card
    <2>4. CASE Reset
      <3>1. hpc' \in {"idle", "failed"} /\ executed' = executed
        BY <2>4
           DEF Reset, CardPowerReset, Setup, SetupNoAtp, SetupNoIfs, SetupWrongIfs,
               SetupOk
      <3> QED
        BY <3>1 DEF FragmentInv, FragsInv, OwnRunInv, AnswerIsLast, Taken, Live
    <2>5. CASE Finished \/ UNCHANGED vars
      <3>1. UNCHANGED <<wireVars, hostVars, cardVars>>
        BY <2>5 DEF Finished, vars
      <3>2. Runs' = Runs
        BY <3>1, HostKept, CardKept, RunsKept
      <3> QED
        BY <3>1, <3>2, HostKept, CardKept
           DEF wireVars, FragmentInv, FragsInv, OwnRunInv, AnswerIsLast, Taken,
               NothingOwed
    <2> QED BY <2>1, <2>2, <2>3, <2>4, <2>5 DEF Next
  <1> QED
    BY <1>1, <1>2, TypeCorrect, SeqInvHolds, RerunInvHolds, PTL DEF Spec

-----------------------------------------------------------------------------
(* One fault: no RESYNCH. *)
LEMMA TransferClean ==
    ASSUME OneFault, TypeOK, faults <= MaxFaults, NEW b, NEW t \in Transfers(b)
    PROVE  t.block \in {b, NoBlock} /\ t.faults <= MaxFaults
  BY BoundsAssumption DEF OneFault, Transfers, CanFault, TypeOK, WireTypeOK

(* The only step of recovery is to ask for the last block again. *)
LEMMA RecoveryAsksAgain ==
    ASSUME OneFault, TypeOK, RepairInv, NoResync, hpc = "wait", NoGoodAnswer, DoRecovery
    PROVE  hpc' = "send" /\ gNextCmd' = "R_Other_Error"
  <1>1. recoveryStatus = "OK"
    <2>1. faults \in Nat /\ faults <= 1 /\ recoveryStatus \in RecoveryStates
      BY BoundsAssumption
         DEF OneFault, NoResync, TypeOK, WireTypeOK, HostTypeOK
    <2>2. Steps[recoveryStatus] < faults
      BY <2>1 DEF RepairInv, SpareInv, Spare
    <2> QED BY <2>1, <2>2, StepsAreSteps DEF RecoveryStates
  <1> QED
    BY <1>1 DEF DoRecovery, NextRecovery, RecoveryCommand, RecoveryStates

LEMMA NoSoftReset ==
    ASSUME OneFault, TypeOK, RerunInv, RepairInv, NoResync, hpc = "wait"
    PROVE  seIn.kind # "S_SWRESET_REQ" /\ toHost.kind # "S_SWRESET_RES"
  <1>1. faults \in Nat /\ faults <= 1
    BY BoundsAssumption DEF OneFault, NoResync, TypeOK, WireTypeOK
  <1>2. Steps[recoveryStatus] <= faults
    BY DEF RepairInv, StepInv, InExchange
  <1>3. recoveryStatus # "WARM_RESET"
    BY <1>1, <1>2, StepsAreSteps
  <1> QED BY <1>1, <1>3 DEF RerunInv, SoftResetIsLast, RepairInv, SpareInv

LEMMA HostStepOneFaultInv ==
    ASSUME OneFault, TypeOK, SeqInv, RerunInv, RepairInv, WantedInv, FragmentInv,
           OneFaultInv, HostStep, UNCHANGED cardVars
    PROVE  OneFaultInv'
  <1> USE CardKept
  <1>1. CASE HostSend
    <2>1. PICK t \in Transfers(CommandBlock) : toSE' = t.block /\ faults' = t.faults
      BY <1>1 DEF HostSend
    <2>2. /\ hpc = "send" /\ ~HasNoCase /\ hpc' = "wait"
          /\ UNCHANGED <<seIn, toHost, gNextCmd, SEQ_NUM_MASTER, SEQ_NUM_SLAVE, orig>>
      BY <1>1 DEF HostSend, seqVars
    <2>3. toSE' \in {CommandBlock, NoBlock} /\ faults' <= MaxFaults
      BY <2>1, TransferClean DEF OneFaultInv, NoResync
    <2>4. CommandBlock.kind \notin {"GARBLED", "S_RESYNC_REQ"}
      BY <2>2, KindsOfBlocks DEF OneFaultInv, NoResync, CommandBlock
    <2>5. seIn' = NoBlock /\ toHost' = NoBlock
      BY <2>2 DEF SeqInv, LineInv
    <2>6. NoResync'
      BY <2>2, <2>3, <2>4, <2>5, KindsOfBlocks DEF OneFaultInv, NoResync
    <2>7. PendingInv'
      BY <2>2, <2>5, KindsOfBlocks
         DEF OneFaultInv, PendingInv, Live, Taken, NothingOwed
    <2> QED BY <2>6, <2>7 DEF OneFaultInv
  <1>2. ASSUME hpc' = "failed", UNCHANGED <<toSE, seIn>>, toHost' \in {toHost, NoBlock},
               faults' <= MaxFaults
        PROVE  OneFaultInv'
    BY <1>2, KindsOfBlocks DEF OneFaultInv, NoResync, PendingInv, Live, Taken
  <1>3. ASSUME hpc = "wait", hpc' \in {"send", "failed"}, gNextCmd' # "S_Resync_REQ",
               UNCHANGED <<toSE, seIn, faults, SEQ_NUM_MASTER, SEQ_NUM_SLAVE, orig>>,
               toHost' = NoBlock
        PROVE  OneFaultInv'
    BY <1>3, KindsOfBlocks
       DEF OneFaultInv, NoResync, PendingInv, Live, Taken, NothingOwed
  <1>4. CASE HostNoCase \/ HostIoError
    <2>1. faults' <= MaxFaults
      BY <1>4, BoundsAssumption
         DEF HostNoCase, HostIoError, CanFault, wireVars, OneFaultInv, NoResync, TypeOK,
             WireTypeOK
    <2> QED BY <1>2, <1>4, <2>1 DEF HostNoCase, HostIoError, wireVars
  <1>5. CASE HostTimeout \/ HostRecvInconsistent
    <2>1. /\ hpc = "wait" /\ NoGoodAnswer /\ DoRecovery
          /\ UNCHANGED <<toSE, seIn, faults>> /\ toHost' = NoBlock
      BY <1>5
         DEF HostTimeout, CanFault, OneFault, Disciplined, HostRecvInconsistent,
             ReadBlock, NoGoodAnswer
    <2>2. hpc' = "send" /\ gNextCmd' = "R_Other_Error"
      BY <2>1, RecoveryAsksAgain DEF OneFaultInv
    <2> QED BY <1>3, <2>1, <2>2 DEF DoRecovery, seqVars
  <1>6. CASE HostRecvI
    <2>1. /\ hpc = "wait" /\ toHost.kind = "I" /\ toHost.seq = SEQ_NUM_SLAVE
          /\ SEQ_NUM_SLAVE' = Flip(SEQ_NUM_SLAVE)
          /\ UNCHANGED <<toSE, seIn, faults>> /\ toHost' = NoBlock
      BY <1>6 DEF HostRecvI, ReadBlock, Consistent, IsSequenceNumberOk
    <2>2. /\ ~orig.more /\ toHost.seq = Flip(seVS) /\ Taken
          /\ toHost = lastI /\ lastI # NoBlock
      BY <2>1, KindsOfBlocks
         DEF SeqInv, AnswerInv, FragmentInv, AnswerIsLast, Taken, Live
    <2>3. SEQ_NUM_SLAVE' = seVS
      BY <2>1, <2>2, FlipIsBit DEF TypeOK, CardTypeOK
    <2>4. CASE toHost.more
      <3>1. hpc' = "send" /\ gNextCmd' = "R_ACK" /\ UNCHANGED <<SEQ_NUM_MASTER, orig>>
        BY <1>6, <2>4 DEF HostRecvI, Continue
      <3>2. ~NothingOwed'
        <4>1. lastI.more = (seNext <= seTotal) /\ lastI.more
          BY <2>2, <2>4 DEF FragmentInv, OwnRunInv
        <4>2. seNext <= seTotal /\ seNext \in Nat /\ seTotal \in Nat
          BY <4>1 DEF TypeOK, CardTypeOK
        <4> QED BY <4>2, CardKept DEF NothingOwed
      <3>3. NoResync'
        BY <2>1, <3>1, KindsOfBlocks DEF OneFaultInv, NoResync
      <3>4. PendingInv'
        BY <2>3, <3>1, <3>2 DEF PendingInv
      <3> QED BY <3>3, <3>4 DEF OneFaultInv
    <2>5. CASE ~toHost.more
      <3>1. hpc' = "idle"
        BY <1>6, <2>1, <2>2, <2>5, EndPartLast DEF HostRecvI
      <3> QED
        BY <2>1, <3>1, KindsOfBlocks DEF OneFaultInv, NoResync, PendingInv, Live, Taken
    <2> QED BY <2>4, <2>5
  <1>7. CASE HostRecvR
    <2>1. /\ hpc = "wait" /\ toHost.kind = "R" /\ toHost.seq = seVR
          /\ UNCHANGED <<toSE, seIn, faults, SEQ_NUM_SLAVE>> /\ toHost' = NoBlock
      BY <1>7 DEF HostRecvR, ReadBlock, SeqInv, AnswerInv
    <2>2. CASE orig.more /\ IsSequenceNumberOk(toHost)
      <3>1. EndPart(<<>>)
        BY <1>7, <2>2 DEF HostRecvR
      <3>2. /\ hpc' = "send" /\ gNextCmd' = "I_block"
            /\ SEQ_NUM_MASTER' = Flip(SEQ_NUM_MASTER)
        BY <2>1, <2>2, <3>1, EndPartNext
      <3>3. ~Taken'
        BY <2>1, <2>2, <3>2 DEF IsSequenceNumberOk, Taken
      <3>4. lastI' = NoBlock => SEQ_NUM_SLAVE' = seVS'
        BY <2>1 DEF OneFaultInv, PendingInv, Live
      <3> QED
        BY <2>1, <3>2, <3>3, <3>4, KindsOfBlocks DEF OneFaultInv, NoResync, PendingInv
    <2>3. CASE ~(orig.more /\ IsSequenceNumberOk(toHost))
      <3>1. hpc' = "send" /\ gNextCmd' = ReplyToR /\ UNCHANGED <<SEQ_NUM_MASTER, orig>>
        BY <1>7, <2>3 DEF HostRecvR, Continue
      <3>2. ReplyToR = "I_block"
        BY <2>1 DEF ReplyToR, IsSequenceNumberOk, OneFaultInv, PendingInv, Taken, Live
      <3> QED BY <1>3, <2>1, <3>1, <3>2
    <2> QED BY <2>2, <2>3
  <1>8. CASE HostRecvRequest
    <2>1. /\ hpc = "wait" /\ hpc' \in {"send", "failed"}
          /\ hpc' = "send" => gNextCmd' # "S_Resync_REQ"
          /\ UNCHANGED <<toSE, seIn, faults, SEQ_NUM_MASTER, SEQ_NUM_SLAVE, orig>>
          /\ toHost' = NoBlock /\ faults' <= MaxFaults
      BY <1>8 DEF HostRecvRequest, ReadBlock, Continue, seqVars, OneFaultInv, NoResync
    <2> QED BY <1>2, <1>3, <2>1
  <1>9. CASE HostRecvReset
    <2>1. /\ hpc = "wait" /\ toHost' = NoBlock
          /\ UNCHANGED <<toSE, seIn, faults>>
      BY <1>9 DEF HostRecvReset, ReadBlock
    <2>2. toHost.kind = "S_RESYNC_REQ"
      BY <1>9, <2>1, NoSoftReset DEF HostRecvReset, OneFaultInv, NoResync
    <2>3. hpc' = "send" /\ gNextCmd' = "S_Resync_RES" /\ ~Live'
      BY <1>9, <2>2 DEF HostRecvReset, Continue, Live, HasNoCase
    <2> QED
      BY <2>1, <2>3, KindsOfBlocks DEF OneFaultInv, NoResync, PendingInv, Taken
  <1> QED
    BY <1>1, <1>4, <1>5, <1>6, <1>7, <1>8, <1>9 DEF HostStep

(* Whatever the SE answers, it asks for no RESYNCH. *)
LEMMA AnswerNoResync ==
    ASSUME OneFault, TypeOK, NoResync, CommandOfApdu, seIn # NoBlock, UNCHANGED hostVars,
           resyncs' = 0, NEW b, Answer(b), b.kind \notin {"GARBLED", "S_RESYNC_RES"}
    PROVE  NoResync'
  <1>1. PICK t \in Transfers(b) : toHost' = t.block /\ faults' = t.faults
    BY DEF Answer
  <1>2. toHost' \in {b, NoBlock} /\ faults' <= MaxFaults
    BY <1>1, TransferClean DEF NoResync
  <1>3. toSE' = NoBlock /\ seIn' = NoBlock
    BY DEF Answer, CommandOfApdu
  <1> QED BY <1>2, <1>3, HostKept, KindsOfBlocks DEF NoResync

LEMMA CardStepNoResync ==
    ASSUME OneFault, TypeOK, LastBlockInv, RerunInv, NoResync, CardStep,
           UNCHANGED hostVars
    PROVE  NoResync'
  <1>1. ~CardResync
    BY DEF NoResync, CardResync
  <1>2. resyncs' = 0
    BY <1>1
       DEF NoResync, CardStep, CardTake, CardReject, CardChain, CardExecute,
           CardRetransmit, CardContinue, CardAskAgain, CardSoftReset, cardVars
  <1>3. CASE CardTake
    BY <1>2, <1>3, HostKept, KindsOfBlocks DEF CardTake, NoResync
  <1>4. ASSUME seIn # NoBlock, NEW b, Answer(b), b.kind \notin {"GARBLED", "S_RESYNC_RES"}
        PROVE  NoResync'
    BY <1>2, <1>4, AnswerNoResync DEF RerunInv
  <1>5. ASSUME seIn # NoBlock, NEW run, NEW total, NEW left, AskHost(run, total, left)
        PROVE  NoResync'
    BY <1>4, <1>5, AskHostBlock DEF AskKinds
  <1>6. ASSUME seIn # NoBlock, NEW run, NEW next, NEW total,
               SendFragment(run, next, total)
        PROVE  NoResync'
    <2>1. PICK b : b = IBlock(seVS, next < total, <<run, next>>)
      OBVIOUS
    <2>2. b.kind = "I" /\ Answer(b)
      BY <1>6, <2>1, KindsOfBlocks DEF SendFragment
    <2> QED BY <1>4, <1>6, <2>2
  <1>7. CASE CardReject \/ CardChain \/ CardSoftReset
    BY <1>4, <1>7, KindsOfBlocks DEF CardReject, AsksAgain, CardChain, CardSoftReset
  <1>8. CASE CardExecute
    BY <1>5, <1>6, <1>8, KindsOfBlocks DEF CardExecute
  <1>9. CASE CardRetransmit
    <2>1. PICK b : b = lastI
      OBVIOUS
    <2>2. seIn # NoBlock /\ Answer(b) /\ b.kind = "I"
      BY <1>9, <2>1, KindsOfBlocks DEF CardRetransmit, AsksAgain, LastBlockInv
    <2> QED BY <1>4, <2>2
  <1>10. CASE CardContinue \/ CardAskAgain
    BY <1>5, <1>6, <1>10, KindsOfBlocks DEF CardContinue, CardAskAgain
  <1> QED
    BY <1>1, <1>3, <1>7, <1>8, <1>9, <1>10 DEF CardStep

(* What the SE says next is what the host expects next. *)
LEMMA SlaveExpectsNext ==
    ASSUME SeqInv, PendingInv, hpc = "wait", CardChain \/ CardExecute \/ CardContinue
    PROVE  SEQ_NUM_SLAVE = seVS
  <1>1. Live
    BY DEF Live
  <1>2. CASE lastI = NoBlock
    BY <1>1, <1>2 DEF PendingInv
  <1>3. CASE lastI # NoBlock
    <2>1. CASE CardChain \/ CardExecute
      <3>1. seVR = SEQ_NUM_MASTER
        BY <2>1 DEF CardChain, CardExecute, SeqInv, CommandInv
      <3> QED BY <1>1, <1>3, <3>1 DEF SeqInv, OweInv
    <2>2. CASE CardContinue
      <3>1. seIn.kind = "R" /\ ~AsksAgain
        BY <1>3, <2>2 DEF CardContinue, SeqInv, LastBlockInv
      <3> QED BY <1>3, <3>1 DEF AsksAgain, SeqInv, CommandInv
    <2> QED BY <2>1, <2>2
  <1> QED BY <1>2, <1>3

LEMMA CardStepPendingInv ==
    ASSUME OneFault, TypeOK, SeqInv, RerunInv, RepairInv, WantedInv, FragmentInv,
           OneFaultInv, CardStep, UNCHANGED hostVars
    PROVE  PendingInv'
  <1> USE HostKept
  <1>1. hpc \in {"wait", "failed"} /\ (CardTake \/ seIn # NoBlock)
    BY CardSteps DEF SeqInv
  <1>2. CASE hpc = "failed"
    BY <1>2 DEF PendingInv, Live, Taken
  <1>3. CASE hpc = "wait"
    <2> USE <1>3
    <2>1. /\ seIn.kind = "I" => seIn.seq = SEQ_NUM_MASTER /\ seIn.more = orig.more
          /\ seIn.kind = "R" => seIn.seq = SEQ_NUM_SLAVE
      BY DEF SeqInv, CommandInv
    <2>2. seVR \in Bit /\ seVS \in Bit /\ seNext \in Nat /\ seTotal \in Nat
      BY DEF TypeOK, CardTypeOK
    <2>3. Live /\ Live'
      BY DEF Live
    <2>4. ASSUME seIn # NoBlock, NEW b, Answer(b), b.kind # "R"
          PROVE  toHost'.kind # "R"
      BY <2>4, AnswerLine, KindsOfBlocks DEF SeqInv
    <2>5. ASSUME seIn # NoBlock, SEQ_NUM_SLAVE = seVS,
                 NEW run, NEW next, NEW total, SendFragment(run, next, total)
          PROVE  PendingInv'
      <3>1. PICK b : b = IBlock(seVS, next < total, <<run, next>>)
        OBVIOUS
      <3>2. /\ b.kind = "I" /\ Answer(b) /\ lastI' # NoBlock /\ seVS' = Flip(seVS)
        BY <2>5, <3>1, KindsOfBlocks DEF SendFragment
      <3>3. toHost'.kind # "R"
        BY <2>4, <2>5, <3>2
      <3> QED BY <2>2, <2>5, <3>2, <3>3, FlipIsBit DEF PendingInv
    <2>6. ASSUME seIn # NoBlock, SEQ_NUM_SLAVE = seVS,
                 NEW run, NEW total, NEW left, AskHost(run, total, left)
          PROVE  PendingInv'
      <3>1. toHost'.kind # "R"
        BY <2>4, <2>6, AskHostBlock DEF AskKinds
      <3>2. seVS' = seVS /\ seWait'
        BY <2>6 DEF AskHost
      <3> QED BY <2>6, <3>1, <3>2 DEF PendingInv, NothingOwed
    <2>7. CASE CardTake
      <3>1. UNCHANGED <<toHost, cardVars>>
        BY <2>7 DEF CardTake
      <3> QED BY <3>1, CardKept DEF OneFaultInv, PendingInv, Taken, NothingOwed
    <2>8. CASE CardReject
      <3>1. UNCHANGED cardVars
        BY <2>8 DEF CardReject
      <3>2. ~(~orig.more /\ Taken)
        <4> SUFFICES ASSUME ~orig.more, Taken PROVE FALSE
          OBVIOUS
        <4>1. /\ seIn.kind # "GARBLED"
              /\ seIn.kind = "I" => seIn.seq = seVR
              /\ seIn.kind = "S_WTX_RES" => seWait
          BY <2>1 DEF OneFaultInv, NoResync, WantedInv
        <4>2. seIn.kind = "R" /\ ~AsksAgain /\ NothingOwed
          BY <2>8, <4>1 DEF CardReject, NothingOwed
        <4>3. SEQ_NUM_SLAVE # seVS
          BY <4>2 DEF OneFaultInv, PendingInv
        <4>4. lastI = NoBlock
          BY <2>1, <4>2, <4>3 DEF AsksAgain
        <4> QED BY <2>3, <4>3, <4>4 DEF OneFaultInv, PendingInv
      <3> QED
        BY <3>1, <3>2, CardKept DEF OneFaultInv, PendingInv, Taken, NothingOwed
    <2>9. CardChain \/ CardExecute \/ CardContinue => SEQ_NUM_SLAVE = seVS
      BY SlaveExpectsNext DEF OneFaultInv
    <2>10. CASE CardChain
      <3>1. /\ seIn.kind = "I" /\ seIn.seq = seVR /\ seIn.more
            /\ seVS' = seVS
        BY <2>10 DEF CardChain
      <3> QED BY <2>1, <2>9, <2>10, <3>1 DEF PendingInv
    <2>11. CASE CardExecute
      BY <2>5, <2>6, <2>9, <2>11, KindsOfBlocks DEF CardExecute
    <2>12. CASE CardRetransmit
      <3>1. PICK b : b = lastI
        OBVIOUS
      <3>2. /\ seIn # NoBlock /\ Answer(b) /\ b.kind = "I"
            /\ UNCHANGED cardVars
        BY <2>12, <3>1, KindsOfBlocks
           DEF CardRetransmit, AsksAgain, SeqInv, LastBlockInv
      <3>3. toHost'.kind # "R"
        BY <2>4, <3>2
      <3> QED
        BY <3>2, <3>3, CardKept DEF OneFaultInv, PendingInv, Taken, NothingOwed
    <2>13. CASE CardContinue
      BY <2>5, <2>9, <2>13, KindsOfBlocks DEF CardContinue
    <2>14. CASE CardAskAgain
      <3>1. lastI = NoBlock
        BY <2>14 DEF CardAskAgain, SeqInv, LastBlockInv
      <3>2. SEQ_NUM_SLAVE = seVS
        BY <2>3, <3>1 DEF OneFaultInv, PendingInv
      <3> QED BY <2>6, <2>14, <3>2, KindsOfBlocks DEF CardAskAgain
    <2>15. ~CardResync /\ ~CardSoftReset
      BY NoSoftReset DEF OneFaultInv, NoResync, CardResync, CardSoftReset
    <2> QED
      BY <2>7, <2>8, <2>10, <2>11, <2>12, <2>13, <2>14, <2>15 DEF CardStep
  <1> QED BY <1>1, <1>2, <1>3

(* With one fault per exchange and no damaged block the host never asks    *)
(* for a RESYNCH.                                                          *)
THEOREM OneFaultInvHolds ==
    ASSUME OneFault
    PROVE  Spec => []OneFaultInv
  <1> DEFINE Known == SeqInv /\ RerunInv /\ RepairInv /\ WantedInv /\ FragmentInv
  <1>1. Disciplined
    BY DEF OneFault
  <1>2. Init => OneFaultInv
    BY BoundsAssumption, KindsOfBlocks
       DEF Init, WireInit, HostInit, CardInit, OneFaultInv, NoResync, PendingInv, Live,
           Taken
  <1>3. TypeOK /\ Known /\ OneFaultInv /\ [Next]_vars => OneFaultInv'
    <2> SUFFICES ASSUME TypeOK, Known, OneFaultInv, [Next]_vars PROVE OneFaultInv'
      OBVIOUS
    <2>1. CASE Submit
      <3>1. /\ hpc = "idle" /\ hpc' = "send" /\ gNextCmd' = "I_block"
            /\ faults' = 0 /\ resyncs' = 0
            /\ UNCHANGED <<toSE, seIn, toHost, SEQ_NUM_MASTER, SEQ_NUM_SLAVE, seVR, seVS,
                           lastI>>
        BY <1>1, <2>1
           DEF Submit, Start, BeginPart, Disciplined, seqVars, linkVars, oweVars
      <3>2. ~Taken' /\ SEQ_NUM_SLAVE' = seVS'
        BY <3>1 DEF SeqInv, IdleInv, Taken
      <3> QED
        BY <3>1, <3>2, BoundsAssumption DEF OneFaultInv, NoResync, PendingInv
    <2>2. CASE Host
      BY <2>2, HostStepOneFaultInv DEF Host
    <2>3. CASE Card
      BY <2>3, CardStepNoResync, CardStepPendingInv DEF Card, OneFaultInv, SeqInv
    <2>4. CASE Reset
      BY <2>4, KindsOfBlocks
         DEF Reset, CardPowerReset, Setup, SetupNoAtp, SetupNoIfs, SetupWrongIfs, SetupOk,
             OneFaultInv, NoResync, PendingInv, Live, Taken
    <2>5. CASE Finished \/ UNCHANGED vars
      BY <2>5, HostKept, CardKept
         DEF Finished, vars, wireVars, OneFaultInv, NoResync, PendingInv, Taken,
             NothingOwed
    <2> QED BY <2>1, <2>2, <2>3, <2>4, <2>5 DEF Next
  <1> QED
    BY <1>1, <1>2, <1>3, TypeCorrect, SeqInvHolds, RerunInvHolds, RepairInvHolds,
       WantedInvHolds, FragmentInvHolds, PTL DEF Spec
-----------------------------------------------------------------------------
(* The command the SE collects. *)
(* Numbered from 1 to k, as Parts and Fragments are. *)
LEMMA NumberedSeq ==
    ASSUME NEW a \in Nat, NEW k \in Nat
    PROVE  /\ [p \in 1..k |-> <<a, p>>] \in Seq(Payload)
           /\ Len([p \in 1..k |-> <<a, p>>]) = k
  <1>1. PICK s : s = [p \in 1..k |-> <<a, p>>]
    OBVIOUS
  <1>2. s \in [1..k -> Payload]
    BY <1>1 DEF Payload
  <1>3. s \in Seq(Payload)
    BY <1>2, SeqDef
  <1>4. Len(s) = k
    <2>1. DOMAIN s = 1..k
      BY <1>1
    <2>2. DOMAIN s = 1..Len(s) /\ Len(s) \in Nat
      BY <1>3, LenProperties
    <2>3. \A i, j \in Nat : 1..i = 1..j => i = j
      OBVIOUS
    <2> QED BY <2>1, <2>2, <2>3
  <1> QED BY <1>1, <1>3, <1>4

LEMMA AppendNumbered ==
    ASSUME NEW a \in Nat, NEW k \in Nat, k # 0
    PROVE  Append([p \in 1..(k - 1) |-> <<a, p>>], <<a, k>>) = [p \in 1..k |-> <<a, p>>]
  <1>1. PICK s : s = [p \in 1..(k - 1) |-> <<a, p>>]
    OBVIOUS
  <1>2. PICK t : t = [p \in 1..k |-> <<a, p>>]
    OBVIOUS
  <1>3. /\ s \in Seq(Payload) /\ Len(s) = k - 1
        /\ t \in Seq(Payload) /\ Len(t) = k
    <2>1. PICK j \in Nat : j = k - 1
      OBVIOUS
    <2>2. s = [p \in 1..j |-> <<a, p>>]
      BY <1>1, <2>1
    <2>3. s \in Seq(Payload) /\ Len(s) = j
      BY <2>2, NumberedSeq
    <2> QED BY <1>2, <2>1, <2>3, NumberedSeq
  <1>4. PICK u : u = Append(s, <<a, k>>)
    OBVIOUS
  <1>5. /\ u \in Seq(Payload) /\ Len(u) = k
        /\ \A i \in 1..k : u[i] = IF i = k THEN <<a, k>> ELSE s[i]
    <2>1. <<a, k>> \in Payload
      BY DEF Payload
    <2>2. /\ u \in Seq(Payload) /\ Len(u) = Len(s) + 1
          /\ u[Len(s) + 1] = <<a, k>>
          /\ \A i \in 1..Len(s) : u[i] = s[i]
      BY <1>3, <1>4, <2>1
    <2>3. Len(s) + 1 = k /\ \A i \in 1..k : i # k => i \in 1..Len(s)
      BY <1>3
    <2> QED BY <2>2, <2>3
  <1>6. ASSUME NEW i \in 1..k PROVE u[i] = t[i]
    <2>1. t[i] = <<a, i>>
      BY <1>2
    <2>2. i # k => i \in 1..(k - 1) /\ s[i] = <<a, i>>
      BY <1>1
    <2> QED BY <1>5, <2>1, <2>2
  <1>7. u = t
    BY <1>3, <1>5, <1>6, SeqEqual
  <1> QED BY <1>1, <1>2, <1>4, <1>7

LEMMA PartsKept ==
    ASSUME UNCHANGED apdu, NEW k
    PROVE  [p \in 1..k |-> <<apdu', p>>] = Parts(k)
  BY DEF Parts

LEMMA AppendPart ==
    ASSUME TypeOK, part # 0
    PROVE  Append(Parts(part - 1), <<apdu, part>>) = Parts(part)
  BY AppendNumbered DEF Parts, TypeOK, HostTypeOK

LEMMA NoParts == Parts(0) = <<>>
  BY DEF Parts

(* The host neither ends the part nor moves a block. *)
LEMMA HostChainInv ==
    ASSUME ChainInv, hpc = "wait", hpc' \in {"send", "failed"},
           UNCHANGED <<toSE, seIn, part, apdu, nparts, orig, SEQ_NUM_MASTER, cardVars>>
    PROVE  ChainInv'
  <1>1. Live /\ (Live' => (Taken' <=> Taken))
    BY CardKept DEF Live, Taken
  <1> QED BY <1>1, CardKept DEF ChainInv, InExchange, Parts

LEMMA FailedChainInv ==
    ASSUME ChainInv, hpc' = "failed", UNCHANGED <<toSE, seIn, part, apdu, cardVars>>
    PROVE  ChainInv'
  BY CardKept DEF ChainInv, InExchange, Live, Parts

LEMMA HostStepChainInv ==
    ASSUME OneFault, TypeOK, SeqInv, RerunInv, RepairInv, WantedInv, OneFaultInv,
           ChainInv, HostStep, UNCHANGED cardVars
    PROVE  ChainInv'
  <1> USE CardKept
  <1>1. CASE HostSend
    <2>1. PICK t \in Transfers(CommandBlock) : toSE' = t.block
      BY <1>1 DEF HostSend
    <2>2. /\ hpc = "send" /\ ~HasNoCase /\ hpc' = "wait"
          /\ UNCHANGED <<seIn, toHost, gNextCmd, SEQ_NUM_MASTER, orig, apdu, part, nparts>>
      BY <1>1 DEF HostSend, seqVars, apduVars, dataVars
    <2>3. toSE' \in {CommandBlock, NoBlock}
      BY <2>1, TransferClean DEF OneFaultInv, NoResync
    <2>4. Live /\ Live' /\ (Taken' <=> Taken) /\ InExchange /\ seIn = NoBlock
      BY <2>2 DEF Live, Taken, InExchange, SeqInv, LineInv
    <2>5. CommandBlock.kind = "I" =>
             /\ CommandBlock.data = <<apdu, part>>
             /\ CommandBlock.seq = SEQ_NUM_MASTER
      BY <2>4, KindsOfBlocks DEF CommandBlock, SeqInv, OrigInv, IBlock
    <2>6. part \in 1..nparts
      BY <2>4 DEF ChainInv
    <2>7. SEQ_NUM_MASTER = seVR => seRx = Parts(part - 1)
      BY <2>4 DEF ChainInv, Taken
    <2> QED
      BY <2>2, <2>3, <2>4, <2>5, <2>6, <2>7, KindsOfBlocks DEF ChainInv, Parts
  <1>2. CASE HostNoCase \/ HostIoError
    BY <1>2, FailedChainInv DEF HostNoCase, HostIoError, wireVars, apduVars, dataVars
  <1>3. CASE HostTimeout \/ HostRecvInconsistent
    <2>1. hpc = "wait" /\ DoRecovery /\ UNCHANGED <<toSE, seIn>>
      BY <1>3 DEF HostTimeout, HostRecvInconsistent, ReadBlock
    <2> QED BY <2>1, HostChainInv DEF DoRecovery, seqVars, apduVars, dataVars
  <1>4. CASE HostRecvI
    <2>1. /\ hpc = "wait" /\ toHost.kind = "I" /\ ~orig.more /\ Taken /\ Live
          /\ UNCHANGED <<toSE, seIn, apdu, nparts>>
          /\ toSE' = NoBlock /\ seIn' = NoBlock
      BY <1>4, ReadEmptiesLine
         DEF HostRecvI, ReadBlock, SeqInv, AnswerInv, Taken, Live, apduVars
    <2>2. CASE toHost.more
      BY <1>4, <2>1, <2>2, HostChainInv DEF HostRecvI, Continue
    <2>3. CASE ~toHost.more
      <3>1. hpc' = "idle"
        BY <1>4, <2>1, <2>3, EndPartLast DEF HostRecvI
      <3>2. seRx = <<>>
        BY <2>1, NoParts DEF ChainInv
      <3> QED BY <2>1, <3>1, <3>2, KindsOfBlocks DEF ChainInv, InExchange, Live
    <2> QED BY <2>2, <2>3
  <1>5. CASE HostRecvR
    <2>1. /\ hpc = "wait" /\ toHost.kind = "R" /\ toHost.seq = seVR
          /\ UNCHANGED <<toSE, seIn, apdu, nparts>>
          /\ toSE' = NoBlock /\ seIn' = NoBlock
      BY <1>5, ReadEmptiesLine DEF HostRecvR, ReadBlock, SeqInv, AnswerInv, apduVars
    <2>2. CASE orig.more /\ IsSequenceNumberOk(toHost)
      <3>1. EndPart(<<>>)
        BY <1>5, <2>2 DEF HostRecvR
      <3>2. /\ hpc' = "send" /\ part' = part + 1 /\ part < nparts
            /\ SEQ_NUM_MASTER' = Flip(SEQ_NUM_MASTER)
        BY <2>1, <2>2, <3>1, EndPartNext
           DEF EndPart, BeginPart, SeqInv, OrigInv, Live
      <3>3. Taken /\ Live /\ ~Taken'
        BY <2>1, <2>2, <3>2, FlipIsBit
           DEF IsSequenceNumberOk, Taken, Live, TypeOK, HostTypeOK
      <3>4. seRx = Parts(part)
        BY <2>2, <3>3 DEF ChainInv
      <3>5. part \in 1..nparts /\ nparts \in Nat
        BY <2>1 DEF ChainInv, InExchange, TypeOK, HostTypeOK
      <3>6. part' \in 1..nparts' /\ part' - 1 = part
        BY <2>1, <3>2, <3>5
      <3>7. seRx' = Parts(part - 1)'
        BY <2>1, <3>4, <3>6 DEF Parts
      <3> QED
        BY <2>1, <3>2, <3>3, <3>6, <3>7, KindsOfBlocks DEF ChainInv
    <2>3. CASE ~(orig.more /\ IsSequenceNumberOk(toHost))
      BY <1>5, <2>1, <2>3, HostChainInv DEF HostRecvR, Continue
    <2> QED BY <2>2, <2>3
  <1>6. CASE HostRecvRequest
    <2>1. /\ hpc = "wait" /\ hpc' \in {"send", "failed"}
          /\ UNCHANGED <<toSE, seIn, part, apdu, nparts, orig, SEQ_NUM_MASTER>>
      BY <1>6 DEF HostRecvRequest, ReadBlock, Continue, seqVars, apduVars, dataVars
    <2> QED BY <2>1, HostChainInv
  <1>7. CASE HostRecvReset
    <2>1. /\ hpc = "wait" /\ UNCHANGED <<toSE, seIn, part, apdu, nparts>>
          /\ toSE' = NoBlock /\ seIn' = NoBlock
      BY <1>7, ReadEmptiesLine DEF HostRecvReset, ReadBlock, apduVars, dataVars
    <2>2. toHost.kind = "S_RESYNC_REQ"
      BY <1>7, <2>1, NoSoftReset DEF HostRecvReset, OneFaultInv, NoResync
    <2>3. hpc' = "send" /\ ~Live'
      BY <1>7, <2>2 DEF HostRecvReset, Continue, Live, HasNoCase
    <2> QED BY <2>1, <2>3, KindsOfBlocks DEF ChainInv, InExchange
  <1> QED
    BY <1>1, <1>2, <1>3, <1>4, <1>5, <1>6, <1>7 DEF HostStep

(* What the SE has received is the whole command when it runs it. *)
LEMMA TakenCommand ==
    ASSUME TypeOK, ChainInv, seIn.kind = "I", seIn.seq = seVR
    PROVE  Append(seRx, seIn.data) = Parts(part)
  BY AppendPart DEF ChainInv

LEMMA CardStepChainInv ==
    ASSUME OneFault, TypeOK, SeqInv, RerunInv, RepairInv, OneFaultInv, ChainInv,
           CardStep, UNCHANGED hostVars
    PROVE  ChainInv'
  <1> USE HostKept
  <1>1. hpc \in {"wait", "failed"} /\ (CardTake \/ seIn # NoBlock)
    BY CardSteps DEF SeqInv
  <1>2. CASE CardTake
    <2>1. UNCHANGED cardVars /\ seIn' = toSE /\ toSE' = NoBlock
      BY <1>2 DEF CardTake
    <2>2. Taken' <=> Taken
      BY <2>1, CardKept DEF Taken
    <2> QED BY <2>1, <2>2, CardKept, KindsOfBlocks DEF ChainInv, Parts
  <1>3. CASE ~CardTake
    <2>1. toSE' = NoBlock /\ seIn' = NoBlock
      BY <1>1, <1>3
         DEF CardStep, CardReject, CardChain, CardExecute, CardRetransmit, CardContinue,
             CardAskAgain, CardResync, CardSoftReset, SendFragment, AskHost, Answer,
             RerunInv, CommandOfApdu
    <2>2. CASE hpc = "failed"
      BY <2>1, <2>2, KindsOfBlocks DEF ChainInv, InExchange, Live
    <2>3. CASE hpc = "wait" /\ UNCHANGED <<seVR, seRx>>
      <3>1. Taken' <=> Taken
        BY <2>3 DEF Taken
      <3> QED BY <2>1, <2>3, <3>1, KindsOfBlocks DEF ChainInv, Parts
    <2>4. ASSUME hpc = "wait", seIn.kind = "I", seIn.seq = seVR, seVR' = Flip(seVR)
          PROVE  Taken' /\ seIn.more = orig.more
      <3>1. seVR = SEQ_NUM_MASTER /\ seIn.more = orig.more
        BY <2>4 DEF SeqInv, CommandInv
      <3> QED
        BY <2>4, <3>1, FlipIsBit DEF Taken, Live, TypeOK, CardTypeOK
    <2>5. CASE hpc = "wait" /\ CardChain
      <3>1. /\ seIn.kind = "I" /\ seIn.seq = seVR /\ seVR' = Flip(seVR) /\ seIn.more
            /\ seRx' = Append(seRx, seIn.data)
        BY <2>5 DEF CardChain
      <3>2. seRx' = Parts(part)
        BY <3>1, TakenCommand
      <3> QED
        BY <2>1, <2>4, <2>5, <3>1, <3>2, KindsOfBlocks DEF ChainInv, InExchange, Parts
    <2>6. CASE hpc = "wait" /\ CardExecute
      <3>1. /\ seIn.kind = "I" /\ seIn.seq = seVR /\ seVR' = Flip(seVR) /\ ~seIn.more
            /\ seRx' = <<>>
        BY <2>6 DEF CardExecute
      <3>2. Parts(0)' = <<>>
        BY DEF Parts
      <3> QED
        BY <2>1, <2>4, <2>6, <3>1, <3>2, KindsOfBlocks DEF ChainInv, InExchange
    <2>7. hpc = "wait" => ~CardResync /\ ~CardSoftReset
      BY NoSoftReset DEF OneFaultInv, NoResync, CardResync, CardSoftReset
    <2>8. CardReject \/ CardRetransmit \/ CardContinue \/ CardAskAgain =>
             UNCHANGED <<seVR, seRx>>
      BY DEF CardReject, CardRetransmit, CardContinue, CardAskAgain, cardVars, linkVars
    <2> QED
      BY <1>1, <1>3, <2>2, <2>3, <2>5, <2>6, <2>7, <2>8 DEF CardStep
  <1> QED BY <1>2, <1>3

LEMMA CardStepWholeCommands ==
    ASSUME TypeOK, RerunInv, ChainInv, WholeCommands, CardStep, UNCHANGED hostVars
    PROVE  WholeCommands'
  <1>1. CASE ~CardExecute
    <2>1. executed' = executed
      BY <1>1
         DEF CardStep, CardTake, CardReject, CardChain, CardRetransmit, CardContinue,
             CardAskAgain, CardResync, CardSoftReset, cardVars
    <2> QED BY <2>1 DEF WholeCommands
  <1>2. CASE CardExecute
    <2>1. PICK total \in 1..MaxFrags :
             executed' = Append(executed, [cmd   |-> Append(seRx, seIn.data),
                                           frags |-> total])
      BY <1>2 DEF CardExecute
    <2>2. /\ Append(seRx, seIn.data) = Parts(part) /\ part # 0 /\ part \in Nat
          /\ apdu \in Nat /\ apdu' = apdu
      BY <1>2, TakenCommand, HostKept
         DEF CardExecute, ChainInv, TypeOK, HostTypeOK
    <2>3. Parts(part) \in Seq(Payload) /\ Len(Parts(part)) = part
      BY <2>2, NumberedSeq DEF Parts
    <2>4. /\ Parts(part)[1][1] = apdu /\ Parts(part)[Len(Parts(part))][1] = apdu
          /\ \A p \in DOMAIN Parts(part) : Parts(part)[p] = <<apdu, p>>
      BY <2>2, <2>3 DEF Parts
    <2>5. /\ DOMAIN executed = 1..Len(executed) /\ Len(executed) \in Nat
          /\ DOMAIN executed' = 1..(Len(executed) + 1)
          /\ \A i \in DOMAIN executed : executed'[i] = executed[i]
          /\ executed'[Len(executed) + 1] = [cmd |-> Parts(part), frags |-> total]
      BY <2>1, <2>2, <2>3, <2>4, NewRun
    <2> SUFFICES ASSUME NEW i \in DOMAIN executed', NEW p \in DOMAIN executed'[i].cmd
                 PROVE  executed'[i].cmd[p] = <<executed'[i].cmd[1][1], p>>
      BY DEF WholeCommands
    <2>6. CASE i \in DOMAIN executed
      BY <2>5, <2>6 DEF WholeCommands
    <2>7. CASE i = Len(executed) + 1
      BY <2>4, <2>5, <2>7
    <2> QED BY <2>5, <2>6, <2>7
  <1> QED BY <1>1, <1>2

(* The SE holds the parts sent before the one being exchanged, and runs    *)
(* nothing but whole commands.                                             *)
LEMMA ChainInvHolds ==
    ASSUME OneFault
    PROVE  Spec => [](ChainInv /\ WholeCommands)
  <1> DEFINE Known == SeqInv /\ RerunInv /\ RepairInv /\ WantedInv /\ OneFaultInv
             Inv == ChainInv /\ WholeCommands
  <1>1. Disciplined
    BY DEF OneFault
  <1>2. Init => Inv
    BY KindsOfBlocks
       DEF Init, WireInit, HostInit, CardInit, ChainInv, WholeCommands, InExchange, Live
  <1>3. TypeOK /\ Known /\ Inv /\ [Next]_vars => Inv'
    <2> SUFFICES ASSUME TypeOK, Known, Inv, [Next]_vars PROVE Inv'
      OBVIOUS
    <2>1. CASE Submit
      <3>1. PICK n \in 1..MaxParts : Start(n)
        BY <2>1 DEF Submit
      <3>2. /\ hpc = "idle" /\ hpc' = "send" /\ part' = 1 /\ nparts' = n
            /\ UNCHANGED <<toSE, seIn, SEQ_NUM_MASTER, seVR, seRx, executed>>
        BY <1>1, <2>1, <3>1 DEF Submit, Start, BeginPart, Disciplined, seqVars, linkVars
      <3>3. toSE' = NoBlock /\ seIn' = NoBlock /\ ~Taken' /\ seRx = <<>>
        BY <3>2 DEF SeqInv, IdleInv, LineInv, Taken, ChainInv
      <3>4. Parts(part - 1)' = <<>> /\ part' \in 1..nparts'
        BY <3>2, BoundsAssumption DEF Parts
      <3> QED
        BY <3>2, <3>3, <3>4, KindsOfBlocks DEF ChainInv, WholeCommands
    <2>2. CASE Host
      BY <2>2, HostStepChainInv, CardKept DEF Host, WholeCommands
    <2>3. CASE Card
      BY <2>3, CardStepChainInv, CardStepWholeCommands DEF Card
    <2>4. CASE Reset
      <3>1. /\ toSE' = NoBlock /\ seIn' = NoBlock /\ seRx' = <<>> /\ executed' = executed
            /\ hpc' \in {"idle", "failed"}
        BY <2>4
           DEF Reset, CardPowerReset, ForgetLink, Setup, SetupNoAtp, SetupNoIfs,
               SetupWrongIfs, SetupOk
      <3> QED
        BY <3>1, KindsOfBlocks DEF ChainInv, WholeCommands, InExchange, Live
    <2>5. CASE Finished \/ UNCHANGED vars
      <3>1. UNCHANGED <<wireVars, hostVars, cardVars>>
        BY <2>5 DEF Finished, vars
      <3>2. Taken' <=> Taken
        BY <3>1, HostKept, CardKept DEF Taken
      <3> QED
        BY <3>1, <3>2, HostKept, CardKept DEF wireVars, ChainInv, WholeCommands, Parts
    <2> QED BY <2>1, <2>2, <2>3, <2>4, <2>5 DEF Next
  <1> QED
    BY <1>1, <1>2, <1>3, TypeCorrect, SeqInvHolds, RerunInvHolds, RepairInvHolds,
       WantedInvHolds, OneFaultInvHolds, PTL DEF Spec

(* The SE runs nothing but the commands StEse_Transceive was given, each   *)
(* of them whole: no part missing, none twice (WholeCommands).             *)
THEOREM WholeCommandsHolds ==
    ASSUME OneFault
    PROVE  Spec => []WholeCommands
  BY ChainInvHolds, PTL

-----------------------------------------------------------------------------
(* The list of DataMgmt.cc. *)
LEMMA NoFragments == Fragments(0) = <<>>
  BY DEF Fragments

(* What is left untouched as long as the exchange goes on. *)
LEMMA SameListInv ==
    ASSUME ListInv, Taken' <=> Taken,
           UNCHANGED <<rxList, SEQ_NUM_SLAVE, seVS, seRun, seNext, lastI>>
    PROVE  ListInv'
  BY DEF ListInv, Fragments

LEMMA EmptyListInv ==
    ASSUME rxList' = <<>>, ~Taken' \/ lastI' = NoBlock
    PROVE  ListInv'
  BY DEF ListInv

(* An I-block the host accepts is the fragment it lacks. *)
LEMMA ReadFragment ==
    ASSUME TypeOK, SeqInv, FragmentInv, HostRecvI
    PROVE  /\ hpc = "wait" /\ Live /\ Taken /\ ~orig.more
           /\ toHost.data = <<seRun, seNext - 1>> /\ seNext > 1
           /\ toHost.more <=> seNext <= seTotal
           /\ lastI # NoBlock /\ SEQ_NUM_SLAVE # seVS
           /\ seRun \in Runs /\ seTotal = executed[seRun].frags
           /\ seNext \in 1..(seTotal + 1)
  <1>1. hpc = "wait" /\ toHost.kind = "I" /\ toHost.seq = SEQ_NUM_SLAVE
    BY DEF HostRecvI, ReadBlock, Consistent, IsSequenceNumberOk
  <1>2. Live /\ Taken /\ ~orig.more /\ toHost.seq = Flip(seVS) /\ toHost = lastI
    BY <1>1 DEF SeqInv, AnswerInv, Taken, Live, FragmentInv, AnswerIsLast
  <1>3. lastI # NoBlock /\ SEQ_NUM_SLAVE # seVS
    BY <1>1, <1>2, KindsOfBlocks, FlipIsBit DEF TypeOK, CardTypeOK
  <1>4. toHost.more = (seNext <= seTotal)
    BY <1>2, <1>3 DEF FragmentInv, OwnRunInv
  <1>5. toHost.more <=> seNext <= seTotal
    BY <1>4
  <1> QED BY <1>1, <1>2, <1>3, <1>5 DEF FragmentInv, OwnRunInv

LEMMA AppendFragment ==
    ASSUME seRun \in Nat, seNext \in Nat, seNext > 1
    PROVE  Append(Fragments(seNext - 2), <<seRun, seNext - 1>>) = Fragments(seNext - 1)
  <1>1. PICK k \in Nat : k = seNext - 1 /\ k # 0 /\ k - 1 = seNext - 2
    OBVIOUS
  <1>2. Append(Fragments(k - 1), <<seRun, k>>) = Fragments(k)
    BY <1>1, AppendNumbered DEF Fragments
  <1> QED BY <1>1, <1>2

LEMMA HostStepListInv ==
    ASSUME OneFault, "io" \notin FaultKinds,
           TypeOK, SeqInv, RerunInv, RepairInv, WantedInv, FragmentInv, OneFaultInv,
           ListInv, HostStep, UNCHANGED cardVars
    PROVE  ListInv'
  <1> USE CardKept
  <1>1. CASE HostSend
    <2>1. Taken' <=> Taken
      BY <1>1 DEF HostSend, seqVars, Taken, Live, HasNoCase
    <2> QED BY <1>1, <2>1, SameListInv DEF HostSend, seqVars, dataVars
  <1>2. CASE HostNoCase
    <2>1. ~Taken /\ ~Taken'
      BY <1>2 DEF HostNoCase, Taken, Live
    <2> QED BY <1>2, <2>1, EmptyListInv DEF HostNoCase, dataVars, ListInv
  <1>3. ~HostIoError
    BY DEF HostIoError, CanFault
  <1>4. CASE HostTimeout \/ HostRecvInconsistent
    <2>1. hpc = "wait" /\ NoGoodAnswer /\ DoRecovery
      BY <1>4
         DEF HostTimeout, CanFault, OneFault, Disciplined, HostRecvInconsistent,
             ReadBlock, NoGoodAnswer
    <2>2. hpc' = "send" /\ gNextCmd' = "R_Other_Error"
      BY <2>1, RecoveryAsksAgain DEF OneFaultInv
    <2>3. Taken' <=> Taken
      BY <2>1, <2>2 DEF DoRecovery, seqVars, Taken, Live, HasNoCase
    <2> QED BY <2>1, <2>3, SameListInv DEF DoRecovery, seqVars, dataVars
  <1>5. CASE HostRecvI
    <2>1. /\ hpc = "wait" /\ Live /\ Taken /\ ~orig.more
          /\ toHost.data = <<seRun, seNext - 1>> /\ seNext > 1
          /\ lastI # NoBlock /\ SEQ_NUM_SLAVE # seVS
      BY <1>5, ReadFragment
    <2>2. rxList = Fragments(seNext - 2)
      BY <2>1 DEF ListInv
    <2>3. CASE toHost.more
      <3>1. /\ rxList' = Append(rxList, toHost.data) /\ hpc' = "send"
            /\ gNextCmd' = "R_ACK" /\ SEQ_NUM_SLAVE' = Flip(SEQ_NUM_SLAVE)
            /\ SEQ_NUM_MASTER' = SEQ_NUM_MASTER
        BY <1>5, <2>3 DEF HostRecvI, Continue
      <3>2. rxList' = Fragments(seNext - 1)
        BY <2>1, <2>2, <3>1, AppendFragment DEF TypeOK, CardTypeOK
      <3>3. SEQ_NUM_SLAVE' = seVS
        BY <2>1, <3>1 DEF Flip, Bit, TypeOK, HostTypeOK, CardTypeOK
      <3>4. Taken'
        BY <2>1, <3>1 DEF Taken, Live, HasNoCase
      <3> QED BY <2>1, <3>2, <3>3, <3>4 DEF ListInv, Fragments
    <2>4. CASE ~toHost.more
      <3>1. EndPart(Append(rxList, toHost.data)) /\ rxList' = <<>>
        BY <1>5, <2>4 DEF HostRecvI, EmptyList
      <3>2. hpc' = "idle"
        BY <2>1, <3>1, EndPartLast
      <3> QED BY <3>1, <3>2, EmptyListInv DEF Taken, Live
    <2> QED BY <2>3, <2>4
  <1>6. CASE HostRecvR
    <2>1. /\ hpc = "wait" /\ Live /\ toHost.kind = "R" /\ toHost.seq = seVR
          /\ UNCHANGED <<SEQ_NUM_SLAVE, rxList>>
      BY <1>6 DEF HostRecvR, ReadBlock, SeqInv, AnswerInv, Live
    <2>2. CASE orig.more /\ IsSequenceNumberOk(toHost)
      <3>1. EndPart(<<>>)
        BY <1>6, <2>2 DEF HostRecvR
      <3>2. SEQ_NUM_MASTER' = Flip(SEQ_NUM_MASTER)
        BY <2>1, <2>2, <3>1, EndPartNext
      <3>3. Taken /\ ~Taken'
        BY <2>1, <2>2, <3>2, FlipIsBit
           DEF IsSequenceNumberOk, Taken, TypeOK, HostTypeOK
      <3>4. lastI = NoBlock
        BY <2>2, <3>3 DEF Taken, SeqInv, OweInv
      <3> QED BY <2>1, <3>3, <3>4, EmptyListInv DEF ListInv
    <2>3. CASE ~(orig.more /\ IsSequenceNumberOk(toHost))
      <3>1. /\ hpc' = "send" /\ gNextCmd' \in {"I_block", "S_Resync_REQ"}
            /\ SEQ_NUM_MASTER' = SEQ_NUM_MASTER
        BY <1>6, <2>3 DEF HostRecvR, Continue, ReplyToR
      <3>2. Taken' <=> Taken
        BY <2>1, <3>1 DEF Taken, Live, HasNoCase
      <3> QED BY <2>1, <3>2, SameListInv
    <2> QED BY <2>2, <2>3
  <1>7. CASE HostRecvRequest \/ HostRecvReset
    <2>1. hpc = "wait" /\ rxList' = rxList
      BY <1>7 DEF HostRecvRequest, HostRecvReset, ReadBlock, dataVars
    <2>2. toHost.kind \in AskKinds
      BY <1>7, <2>1, NoSoftReset
         DEF HostRecvRequest, HostRecvReset, ReadBlock, AskKinds, OneFaultInv, NoResync
    <2>3. lastI = NoBlock
      BY <2>1, <2>2 DEF WantedInv, SeqInv, LastBlockInv
    <2> QED BY <2>1, <2>3, EmptyListInv DEF ListInv
  <1> QED
    BY <1>1, <1>2, <1>3, <1>4, <1>5, <1>6, <1>7 DEF HostStep

LEMMA CardStepListInv ==
    ASSUME OneFault, TypeOK, SeqInv, RerunInv, RepairInv, FragmentInv, OneFaultInv,
           ListInv, CardStep, UNCHANGED hostVars
    PROVE  ListInv'
  <1> USE HostKept
  <1>1. hpc \in {"wait", "failed"} /\ (CardTake \/ seIn # NoBlock)
    BY CardSteps DEF SeqInv
  <1>2. CASE hpc = "failed"
    <2>1. ~Taken /\ ~Taken'
      BY <1>2 DEF Taken, Live
    <2> QED BY <2>1, EmptyListInv DEF ListInv
  <1>3. CASE hpc = "wait"
    <2>1. Live /\ Live' /\ seVR \in Bit /\ seVS \in Bit
      BY <1>3 DEF Live, TypeOK, CardTypeOK
    <2>2. CASE CardTake \/ CardReject \/ CardRetransmit
      <3>1. UNCHANGED cardVars
        BY <2>2 DEF CardTake, CardReject, CardRetransmit
      <3> QED BY <3>1, CardKept, SameListInv DEF Taken
    <2>3. CardChain \/ CardExecute => ~Taken
      BY <1>3 DEF CardChain, CardExecute, Taken, SeqInv, CommandInv
    <2>4. CASE CardChain
      <3>1. lastI' = NoBlock
        BY <2>4 DEF CardChain, OweNothing
      <3> QED BY <2>3, <2>4, <3>1, EmptyListInv DEF ListInv
    <2>5. CardExecute \/ CardContinue => SEQ_NUM_SLAVE = seVS
      BY <1>3, SlaveExpectsNext DEF OneFaultInv
    <2>6. ASSUME SEQ_NUM_SLAVE = seVS, NEW run, NEW next, NEW total,
                 SendFragment(run, next, total), rxList = Fragments(next - 1)',
                 next \in Nat, Taken'
          PROVE  ListInv'
      <3>1. /\ seVS' # SEQ_NUM_SLAVE /\ seNext' = next + 1
        BY <2>1, <2>6, FlipIsBit DEF SendFragment
      <3>2. lastI' # NoBlock
        BY <2>6, KindsOfBlocks DEF SendFragment
      <3>3. seNext' - 2 = next - 1
        BY <2>6, <3>1
      <3> QED BY <2>6, <3>1, <3>2, <3>3 DEF ListInv, Fragments
    <2>7. CASE CardExecute
      <3>1. rxList = <<>>
        BY <2>3, <2>7 DEF ListInv
      <3>2. PICK total, ask :
               IF ask = 0 THEN SendFragment(Len(executed) + 1, 1, total)
                          ELSE AskHost(Len(executed) + 1, total, ask - 1)
        BY <2>7 DEF CardExecute
      <3>3. CASE SendFragment(Len(executed) + 1, 1, total)
        <4>1. Taken'
          BY <2>1, <2>3, <2>7, FlipIsBit DEF CardExecute, Taken
        <4>2. rxList = Fragments(1 - 1)'
          BY <3>1 DEF Fragments
        <4> QED BY <2>5, <2>6, <2>7, <3>3, <4>1, <4>2
      <3>4. CASE AskHost(Len(executed) + 1, total, ask - 1)
        BY <3>1, <3>4, EmptyListInv DEF AskHost
      <3> QED BY <3>2, <3>3, <3>4
    <2>8. CASE CardContinue
      <3>1. ~NothingOwed /\ SendFragment(seRun, seNext, seTotal) /\ seVR' = seVR
        BY <2>8 DEF CardContinue, NothingOwed, TypeOK, CardTypeOK
      <3>2. Taken /\ Taken'
        BY <2>1, <3>1 DEF SeqInv, OweInv, Taken
      <3>3. seRun' = seRun /\ seNext \in Nat
        BY <3>1 DEF SendFragment, TypeOK, CardTypeOK
      <3>4. rxList = Fragments(seNext - 1)
        <4>1. CASE lastI = NoBlock
          <5>1. rxList = <<>> /\ seNext = 1
            BY <3>2, <4>1 DEF ListInv, FragmentInv, OwnRunInv
          <5> QED BY <5>1 DEF Fragments
        <4>2. CASE lastI # NoBlock
          BY <2>5, <2>8, <3>2, <4>2 DEF ListInv
        <4> QED BY <4>1, <4>2
      <3>5. rxList = [f \in 1..(seNext - 1) |-> <<seRun', f>>]
        BY <3>3, <3>4 DEF Fragments
      <3>6. /\ seVS' # SEQ_NUM_SLAVE /\ seNext' - 2 = seNext - 1 /\ lastI' # NoBlock
        BY <2>1, <2>5, <2>8, <3>1, <3>3, FlipIsBit, KindsOfBlocks DEF SendFragment
      <3> QED BY <3>2, <3>5, <3>6 DEF ListInv, Fragments
    <2>9. CASE CardAskAgain
      <3>1. lastI = NoBlock
        BY <2>9 DEF CardAskAgain, SeqInv, LastBlockInv
      <3>2. lastI' = NoBlock
        BY <2>9 DEF CardAskAgain, AskHost
      <3> QED BY <3>1, <3>2, EmptyListInv DEF ListInv
    <2>10. ~CardResync /\ ~CardSoftReset
      BY <1>3, NoSoftReset DEF OneFaultInv, NoResync, CardResync, CardSoftReset
    <2> QED
      BY <2>2, <2>4, <2>7, <2>8, <2>9, <2>10 DEF CardStep
  <1> QED BY <1>1, <1>2, <1>3

THEOREM ListInvHolds ==
    ASSUME OneFault, "io" \notin FaultKinds
    PROVE  Spec => []ListInv
  <1> DEFINE Known == SeqInv /\ RerunInv /\ RepairInv /\ WantedInv /\ FragmentInv
                      /\ OneFaultInv
  <1>1. Disciplined
    BY DEF OneFault
  <1>2. Init => ListInv
    BY DEF Init, HostInit, ListInv, Taken, Live
  <1>3. TypeOK /\ Known /\ ListInv /\ [Next]_vars => ListInv'
    <2> SUFFICES ASSUME TypeOK, Known, ListInv, [Next]_vars PROVE ListInv'
      OBVIOUS
    <2>1. CASE Submit
      <3>1. /\ hpc = "idle" /\ rxList' = rxList
            /\ UNCHANGED <<SEQ_NUM_MASTER, SEQ_NUM_SLAVE, seVR>>
        BY <1>1, <2>1 DEF Submit, Start, Disciplined, seqVars, linkVars
      <3>2. ~Taken /\ ~Taken'
        BY <3>1 DEF SeqInv, IdleInv, Taken, Live
      <3> QED BY <3>1, <3>2, EmptyListInv DEF ListInv
    <2>2. CASE Host
      BY <2>2, HostStepListInv DEF Host
    <2>3. CASE Card
      BY <2>3, CardStepListInv DEF Card
    <2>4. CASE Reset
      <3>1. rxList' = rxList /\ ~Taken /\ ~Taken'
        BY <2>4
           DEF Reset, Setup, SetupNoAtp, SetupNoIfs, SetupWrongIfs, SetupOk, MayReset,
               dataVars, Taken, Live
      <3> QED BY <3>1, EmptyListInv DEF ListInv
    <2>5. CASE Finished \/ UNCHANGED vars
      <3>1. UNCHANGED <<hostVars, cardVars>>
        BY <2>5 DEF Finished, vars
      <3> QED BY <3>1, HostKept, CardKept, SameListInv DEF Taken
    <2> QED BY <2>1, <2>2, <2>3, <2>4, <2>5 DEF Next
  <1> QED
    BY <1>1, <1>2, <1>3, TypeCorrect, SeqInvHolds, RerunInvHolds, RepairInvHolds,
       WantedInvHolds, FragmentInvHolds, OneFaultInvHolds, PTL DEF Spec

(* Responses of one block need no list, whatever the faults. *)
LEMMA OneBlockList ==
    ASSUME Disciplined, MaxFrags = 1
    PROVE  Spec => [](rxList = <<>>)
  <1> DEFINE Empty == rxList = <<>>
  <1>1. Init => Empty
    BY DEF Init, HostInit
  <1>2. TypeOK /\ SeqInv /\ FragmentInv /\ Empty /\ [Next]_vars => Empty'
    <2> SUFFICES ASSUME TypeOK, SeqInv, FragmentInv, Empty, [Next]_vars
                 PROVE  Empty'
      OBVIOUS
    <2>1. CASE HostRecvI
      <3>1. /\ toHost.more <=> seNext <= seTotal
            /\ seRun \in Runs /\ seTotal = executed[seRun].frags /\ seNext > 1
        BY <2>1, ReadFragment
      <3>2. seTotal = 1
        BY <3>1 DEF FragmentInv, FragsInv, Runs
      <3>3. ~toHost.more
        BY <3>1, <3>2 DEF TypeOK, CardTypeOK
      <3> QED BY <2>1, <3>3 DEF HostRecvI, EmptyList
    <2>2. CASE ~HostRecvI
      BY <2>2
         DEF Next, Submit, Start, Host, HostStep, HostSend, HostNoCase, HostTimeout,
             HostIoError, HostRecvInconsistent, DoRecovery, HostRecvR, HostRecvRequest,
             HostRecvReset, Card, hostVars, Reset, Setup, SetupNoAtp, SetupNoIfs,
             SetupWrongIfs, SetupOk, Finished, vars, dataVars
    <2> QED BY <2>1, <2>2
  <1>3. Spec => []Empty
    BY <1>1, <1>2, TypeCorrect, SeqInvHolds, FragmentInvHolds, PTL DEF Spec
  <1> QED BY <1>3

-----------------------------------------------------------------------------
(* The response returned: the fragments read before its last are in the   *)
(* list, if it has several.                                                *)
ListRead == ListInv \/ (MaxFrags = 1 /\ rxList = <<>>)

LEMMA ListWhenRead ==
    ASSUME TypeOK, SeqInv, FragmentInv, HostRecvI,
           ListRead
    PROVE  rxList = Fragments(seNext - 2)
  <1>1. /\ Taken /\ lastI # NoBlock /\ SEQ_NUM_SLAVE # seVS /\ seNext > 1
        /\ seRun \in Runs /\ seTotal = executed[seRun].frags
        /\ seNext \in 1..(seTotal + 1)
    BY ReadFragment
  <1>2. CASE ListInv
    BY <1>1, <1>2 DEF ListInv
  <1>3. CASE MaxFrags = 1 /\ rxList = <<>>
    <2>1. seTotal = 1
      BY <1>1, <1>3 DEF FragmentInv, FragsInv, Runs
    <2>2. seNext = 2
      BY <1>1, <2>1
    <2> QED BY <1>3, <2>2, NoFragments
  <1> QED BY <1>2, <1>3 DEF ListRead

LEMMA ReturnedResponse ==
    ASSUME TypeOK, SeqInv, FragmentInv, ListRead,
           Next, Returns
    PROVE  /\ HostRecvI /\ UNCHANGED cardVars
           /\ seRun \in Runs
           /\ rsp' = [f \in 1..executed[seRun].frags |-> <<seRun, f>>]
  <1>1. hpc \in {"send", "wait"} /\ hpc' = "idle"
    BY DEF Returns, InExchange
  <1>2. Host
    BY <1>1
       DEF Next, Submit, Start, BeginPart, Card, hostVars, Reset, Setup, SetupNoAtp,
           SetupNoIfs, SetupWrongIfs, SetupOk, MayReset, Finished
  <1>3. ~HostRecvR
    <2> SUFFICES ASSUME HostRecvR PROVE FALSE
      OBVIOUS
    <2>1. hpc = "wait" /\ orig.more /\ EndPart(<<>>)
      BY <1>1 DEF HostRecvR, ReadBlock, Continue
    <2> QED BY <1>1, <2>1, EndPartNext
  <1>4. HostRecvI
    BY <1>1, <1>2, <1>3
       DEF Host, HostStep, HostSend, HostNoCase, HostTimeout, HostIoError,
           HostRecvInconsistent, DoRecovery, HostRecvRequest, HostRecvReset, Continue,
           ResendWithNsZero, SoftResetEnds
  <1>5. /\ toHost.data = <<seRun, seNext - 1>> /\ seNext > 1
        /\ toHost.more <=> seNext <= seTotal
        /\ seRun \in Runs /\ seTotal = executed[seRun].frags
        /\ seNext \in 1..(seTotal + 1)
    BY <1>4, ReadFragment
  <1>6. ~toHost.more
    BY <1>1, <1>4 DEF HostRecvI, Continue
  <1>7. rsp' = Append(rxList, toHost.data)
    BY <1>4, <1>6 DEF HostRecvI, EndPart
  <1>8. Append(rxList, toHost.data) = Fragments(seNext - 1)
    BY <1>4, <1>5, ListWhenRead, AppendFragment DEF TypeOK, CardTypeOK
  <1>9. seNext - 1 = seTotal
    BY <1>5, <1>6 DEF TypeOK, CardTypeOK
  <1> QED BY <1>2, <1>4, <1>5, <1>7, <1>8, <1>9 DEF Host, Fragments

LEMMA ListReadHolds ==
    ASSUME Disciplined, MaxFrags = 1 \/ (OneFault /\ "io" \notin FaultKinds)
    PROVE  Spec => []ListRead
  <1>1. CASE MaxFrags = 1
    <2>1. rxList = <<>> => ListRead
      BY <1>1 DEF ListRead
    <2> QED BY <1>1, <2>1, OneBlockList, PTL
  <1>2. CASE OneFault /\ "io" \notin FaultKinds
    <2>1. ListInv => ListRead
      BY DEF ListRead
    <2> QED BY <1>2, <2>1, ListInvHolds, PTL
  <1> QED BY <1>1, <1>2

(* A response StEse_Transceive returns is the whole response of one run of *)
(* the current APDU, with any number of faults as long as responses have   *)
(* one block, and with any number of blocks as long as no more than one    *)
(* block is lost and none is damaged (ResponseIntact).                     *)
THEOREM ResponseIntactHolds ==
    ASSUME Disciplined, MaxFrags = 1 \/ (OneFault /\ "io" \notin FaultKinds)
    PROVE  Spec => ResponseIntact
  <1>1. /\ TypeOK /\ SeqInv /\ FragmentInv /\ ListRead /\ [Next]_vars
        => [Returns => \E i \in Runs :
               rsp' = [f \in 1..executed[i].frags |-> <<i, f>>]]_vars
    BY ReturnedResponse
  <1> QED
    BY <1>1, ListReadHolds, TypeCorrect, SeqInvHolds, FragmentInvHolds, PTL
       DEF Spec, ResponseIntact

-----------------------------------------------------------------------------
(* What pRsp holds between exchanges is not the response to a later run.   *)
LEMMA ExecutedGrows ==
    ASSUME TypeOK, RerunInv, CardExecute, UNCHANGED hostVars
    PROVE  \E total \in 1..MaxFrags, cmd \in Seq(Payload) :
              /\ Len(executed) \in Nat
              /\ DOMAIN executed = 1..Len(executed)
              /\ DOMAIN executed' = 1..(Len(executed) + 1)
              /\ \A i \in DOMAIN executed : executed'[i] = executed[i]
              /\ executed'[Len(executed) + 1] = [cmd |-> cmd, frags |-> total]
              /\ Runs' = Runs \cup {Len(executed) + 1}
  <1>1. PICK total \in 1..MaxFrags :
           executed' = Append(executed, [cmd   |-> Append(seRx, seIn.data),
                                         frags |-> total])
    BY DEF CardExecute
  <1>2. /\ seRx \in Seq(Payload) /\ seIn.data \in Payload /\ total \in Nat
        /\ seIn.data[1] = apdu
    BY BoundsAssumption
       DEF TypeOK, CardTypeOK, WireTypeOK, Block, RerunInv, CommandOfApdu, CardExecute
  <1>3. PICK cmd : cmd = Append(seRx, seIn.data)
    OBVIOUS
  <1>4. cmd \in Seq(Payload) /\ cmd[Len(cmd)][1] = apdu
    BY <1>2, <1>3, LastAppended
  <1> QED BY <1>1, <1>2, <1>3, <1>4, HostKept, NewRun

LEMMA NotExecuted ==
    ASSUME CardStep, ~CardExecute
    PROVE  executed' = executed
  BY DEF CardStep, CardTake, CardReject, CardChain, CardRetransmit, CardContinue,
         CardAskAgain, CardResync, CardSoftReset, cardVars

(* pRsp is written when a part ends. *)
LEMMA ResponseWritten ==
    ASSUME TypeOK, SeqInv, FragmentInv, ListRead, Next, rsp' # rsp
    PROVE  \/ rsp' = <<>> /\ executed' = executed
           \/ Returns
  <1>1. Host /\ (HostRecvI \/ HostRecvR)
    BY DEF Next, Submit, Start, Host, HostStep, HostSend, HostNoCase, HostTimeout,
           HostIoError, HostRecvInconsistent, DoRecovery, HostRecvRequest, HostRecvReset,
           Card, hostVars, Reset, Setup, SetupNoAtp, SetupNoIfs, SetupWrongIfs, SetupOk,
           Finished, vars, dataVars
  <1>2. CASE HostRecvR
    BY <1>1, <1>2, CardKept DEF Host, HostRecvR, EndPart
  <1>3. CASE HostRecvI
    <2>1. hpc = "wait" /\ ~orig.more
      BY <1>3, ReadFragment
    <2>2. PICK r : EndPart(r)
      BY <1>3 DEF HostRecvI
    <2> QED BY <2>1, <2>2, EndPartLast DEF Returns, InExchange
  <1> QED BY <1>1, <1>2, <1>3

LEMMA RspInvHolds ==
    ASSUME Disciplined, MaxFrags = 1 \/ (OneFault /\ "io" \notin FaultKinds)
    PROVE  Spec => []RspInv
  <1> DEFINE Known == SeqInv /\ RerunInv /\ FragmentInv /\ ListRead
  <1>1. Init => RspInv
    BY DEF Init, HostInit, RspInv
  <1>2. TypeOK /\ Known /\ RspInv /\ [Next]_vars => RspInv'
    <2> SUFFICES ASSUME TypeOK, Known, RspInv, [Next]_vars PROVE RspInv'
      OBVIOUS
    <2>1. CASE UNCHANGED <<rsp, executed>>
      BY <2>1 DEF RspInv
    <2>2. CASE rsp' = rsp /\ executed' # executed
      <3>1. Card /\ CardExecute
        BY <2>2, NotExecuted, CardKept
           DEF Next, Submit, Host, Card, Reset, CardPowerReset, Finished, vars, cardVars
      <3>2. PICK n \in Nat : DOMAIN executed = 1..n /\ DOMAIN executed' = 1..(n + 1)
        BY <3>1, ExecutedGrows DEF Card
      <3>3. \A i \in DOMAIN executed : i \in DOMAIN executed'
        BY <3>2
      <3> QED BY <2>2, <3>3 DEF RspInv
    <2>3. CASE rsp' # rsp
      <3>1. Next
        BY <2>3 DEF vars, hostVars, dataVars
      <3>2. CASE rsp' = <<>>
        BY <3>2 DEF RspInv
      <3>3. CASE Returns
        <4>1. /\ UNCHANGED cardVars /\ seRun \in Runs
              /\ rsp' = [f \in 1..executed[seRun].frags |-> <<seRun, f>>]
          BY <3>1, <3>3, ReturnedResponse
        <4>2. executed' = executed /\ seRun \in DOMAIN executed
          BY <4>1, CardKept DEF Runs
        <4>3. 1 \in 1..executed[seRun].frags
          BY <4>2 DEF FragmentInv, FragsInv
        <4> QED BY <4>1, <4>2, <4>3 DEF RspInv
      <3> QED BY <2>3, <3>1, <3>2, <3>3, ResponseWritten
    <2> QED BY <2>1, <2>2, <2>3
  <1> QED
    BY <1>1, <1>2, TypeCorrect, SeqInvHolds, RerunInvHolds, FragmentInvHolds,
       ListReadHolds, PTL DEF Spec

-----------------------------------------------------------------------------
(* A line that loses one block does not make an exchange fail. *)
LEMMA HostNeverFails ==
    ASSUME OneFault, FaultKinds \subseteq {"lose"}, TypeOK, SeqInv, RerunInv, RepairInv,
           WantedInv, FragmentInv, OneFaultInv, NeverFails, HostStep
    PROVE  NeverFails' /\ hpc' # "failed"
  <1>1. CASE HostSend
    <2>1. hpc' = "wait" /\ toHost' = NoBlock
      BY <1>1 DEF HostSend, SeqInv, LineInv
    <2> QED BY <2>1, KindsOfBlocks DEF NeverFails, AskKinds
  <1>2. ~HostNoCase /\ ~HostIoError
    BY DEF HostNoCase, HostIoError, CanFault, NeverFails
  <1>3. CASE HostTimeout \/ HostRecvInconsistent
    <2>1. hpc = "wait" /\ NoGoodAnswer /\ DoRecovery
      BY <1>3
         DEF HostTimeout, CanFault, OneFault, Disciplined, HostRecvInconsistent,
             ReadBlock, NoGoodAnswer
    <2>2. hpc' = "send" /\ gNextCmd' = "R_Other_Error"
      BY <2>1, RecoveryAsksAgain DEF OneFaultInv
    <2> QED BY <2>2 DEF NeverFails, HasNoCase
  <1>4. CASE HostRecvI
    <2>1. hpc = "wait" /\ ~orig.more
      BY <1>4, ReadFragment
    <2>2. hpc' = "idle" \/ (hpc' = "send" /\ gNextCmd' = "R_ACK")
      BY <1>4, <2>1, EndPartLast DEF HostRecvI, Continue
    <2> QED BY <2>2 DEF NeverFails, HasNoCase
  <1>5. CASE HostRecvR
    <2>1. hpc = "wait"
      BY <1>5 DEF HostRecvR, ReadBlock
    <2>2. hpc' = "send" /\ gNextCmd' \in {"I_block", "S_Resync_REQ"}
      BY <1>5, <2>1, EndPartNext DEF HostRecvR, Continue, ReplyToR
    <2> QED BY <2>2 DEF NeverFails, HasNoCase
  <1>6. CASE HostRecvRequest
    <2>1. toHost.kind = "S_WTX_REQ"
      BY <1>6 DEF HostRecvRequest, ReadBlock, NeverFails, AskKinds
    <2>2. hpc' = "send" /\ gNextCmd' = "S_WTX_RES"
      BY <1>6, <2>1 DEF HostRecvRequest, Continue
    <2> QED BY <2>2 DEF NeverFails, HasNoCase
  <1>7. ~HostRecvReset
    BY NoSoftReset
       DEF HostRecvReset, ReadBlock, NeverFails, AskKinds, OneFaultInv, NoResync
  <1> QED
    BY <1>1, <1>2, <1>3, <1>4, <1>5, <1>6, <1>7 DEF HostStep

LEMMA CardNeverFails ==
    ASSUME OneFault, FaultKinds \subseteq {"lose"}, TypeOK, SeqInv, OneFaultInv,
           NeverFails, CardStep, UNCHANGED hostVars
    PROVE  NeverFails'
  <1> USE HostKept
  <1>1. hpc \in {"wait", "failed"} /\ (CardTake \/ seIn # NoBlock)
    BY CardSteps DEF SeqInv
  <1>2. hpc = "wait"
    BY <1>1 DEF NeverFails, CardTake
  <1>3. ASSUME seIn # NoBlock, NEW b, Answer(b), b.kind \notin AskKinds \ {"S_WTX_REQ"}
        PROVE  NeverFails'
    <2>1. toHost' \in {b, NoBlock, Garbled}
      BY <1>2, <1>3, AnswerLine DEF SeqInv
    <2> QED BY <1>2, <1>3, <2>1, KindsOfBlocks DEF NeverFails, AskKinds
  <1>4. ASSUME seIn # NoBlock, NEW run, NEW total, NEW left, AskHost(run, total, left)
        PROVE  NeverFails'
    <2>1. Answer(SBlock("S_WTX_REQ"))
      BY <1>4 DEF AskHost
    <2>2. PICK b : b = SBlock("S_WTX_REQ")
      OBVIOUS
    <2>3. b.kind = "S_WTX_REQ"
      BY <2>2, KindsOfBlocks DEF AskKinds
    <2> QED BY <1>3, <1>4, <2>1, <2>2, <2>3
  <1>5. ASSUME seIn # NoBlock, NEW run, NEW next, NEW total,
               SendFragment(run, next, total)
        PROVE  NeverFails'
    <2>1. PICK b : b = IBlock(seVS, next < total, <<run, next>>)
      OBVIOUS
    <2>2. b.kind = "I" /\ Answer(b)
      BY <1>5, <2>1, KindsOfBlocks DEF SendFragment
    <2> QED BY <1>3, <1>5, <2>2 DEF AskKinds
  <1>6. CASE CardTake
    BY <1>2, <1>6 DEF CardTake, NeverFails
  <1>7. CASE CardReject \/ CardChain \/ CardResync \/ CardSoftReset
    <2>1. PICK b : Answer(b) /\ b.kind \in {"R", "S_RESYNC_RES", "S_SWRESET_RES"}
      BY <1>7, KindsOfBlocks
         DEF CardReject, CardChain, CardResync, CardSoftReset, AskKinds
    <2>2. seIn # NoBlock
      BY <1>7, KindsOfBlocks
         DEF CardReject, AsksAgain, CardChain, CardResync, CardSoftReset
    <2> QED BY <1>3, <2>1, <2>2 DEF AskKinds
  <1>8. CASE CardExecute \/ CardContinue \/ CardAskAgain
    BY <1>4, <1>5, <1>8, KindsOfBlocks DEF CardExecute, CardContinue, CardAskAgain
  <1>9. CASE CardRetransmit
    <2>1. PICK b : b = lastI
      OBVIOUS
    <2>2. seIn # NoBlock /\ Answer(b) /\ b.kind = "I"
      BY <1>9, <2>1, KindsOfBlocks DEF CardRetransmit, AsksAgain, SeqInv, LastBlockInv
    <2> QED BY <1>3, <2>2 DEF AskKinds
  <1> QED BY <1>6, <1>7, <1>8, <1>9 DEF CardStep

THEOREM NeverFailsHolds ==
    ASSUME OneFault, FaultKinds \subseteq {"lose"}
    PROVE  Spec => []NeverFails
  <1> DEFINE Known == SeqInv /\ RerunInv /\ RepairInv /\ WantedInv /\ FragmentInv
                      /\ OneFaultInv
  <1>1. Disciplined
    BY DEF OneFault
  <1>2. Init => NeverFails
    BY DEF Init, HostInit, NeverFails
  <1>3. TypeOK /\ Known /\ NeverFails /\ [Next]_vars => NeverFails'
    <2> SUFFICES ASSUME TypeOK, Known, NeverFails, [Next]_vars PROVE NeverFails'
      OBVIOUS
    <2>1. CASE Submit
      BY <2>1 DEF Submit, Start, BeginPart, NeverFails, HasNoCase
    <2>2. CASE Host
      BY <2>2, HostNeverFails DEF Host
    <2>3. CASE Card
      BY <2>3, CardNeverFails DEF Card
    <2>4. CASE Reset
      BY <2>4
         DEF Reset, CardPowerReset, Setup, SetupNoAtp, SetupNoIfs, SetupWrongIfs, SetupOk,
             NeverFails
    <2>5. CASE Finished \/ UNCHANGED vars
      BY <2>5, HostKept DEF Finished, vars, wireVars, NeverFails, HasNoCase
    <2> QED BY <2>1, <2>2, <2>3, <2>4, <2>5 DEF Next
  <1> QED
    BY <1>1, <1>2, <1>3, TypeCorrect, SeqInvHolds, RerunInvHolds, RepairInvHolds,
       WantedInvHolds, FragmentInvHolds, OneFaultInvHolds, PTL DEF Spec

(* The invariant of an exchange that one fault may hit: what the host      *)
(* sends, what the SE answers, what each of them has collected.            *)
THEOREM PromiseInvHolds ==
    ASSUME OneFault, "io" \notin FaultKinds
    PROVE  Spec => []PromiseInv
  <1> DEFINE Held == WantedInv /\ FragmentInv /\ OneFaultInv /\ ChainInv /\ ListInv
                       /\ RspInv
  <1>1. Disciplined
    BY DEF OneFault
  <1>2. Spec => []Held
    BY <1>1, WantedInvHolds, FragmentInvHolds, OneFaultInvHolds, ChainInvHolds,
       ListInvHolds, RspInvHolds, PTL
  <1>3. CASE FaultKinds \subseteq {"lose"}
    <2>1. Held /\ NeverFails => PromiseInv
      BY DEF PromiseInv
    <2> QED BY <1>2, <1>3, <2>1, NeverFailsHolds, PTL
  <1>4. CASE ~(FaultKinds \subseteq {"lose"})
    <2>1. Held => PromiseInv
      BY <1>4 DEF PromiseInv
    <2> QED BY <1>2, <2>1, PTL
  <1> QED BY <1>3, <1>4

-----------------------------------------------------------------------------
(* The steps of an exchange are those of ApduExchange. *)
Phase == IF InExchange THEN "busy" ELSE hpc
Answered == IF InExchange \/ Answers(rsp) = {} THEN 0
            ELSE CHOOSE a \in Answers(rsp) : TRUE

(* The last part of the command of a run. *)
LEMMA LastPart ==
    ASSUME TypeOK, RerunInv, NEW i \in DOMAIN executed,
           NEW cmd, cmd = executed[i].cmd
    PROVE  /\ Len(cmd) \in DOMAIN cmd
           /\ cmd[Len(cmd)][1] \in 0..apdu
  <1>1. executed \in Seq(Run)
    BY DEF TypeOK, CardTypeOK
  <1>2. executed[i] \in Run
    BY <1>1
  <1>3. cmd \in Seq(Payload)
    BY <1>2 DEF Run
  <1>4. cmd # <<>> /\ cmd[Len(cmd)][1] <= apdu
    BY DEF RerunInv, ExecutedInv
  <1>5. Len(cmd) \in DOMAIN cmd /\ cmd[Len(cmd)] \in Payload
    BY <1>3, <1>4
  <1>6. cmd[Len(cmd)][1] \in Nat /\ apdu \in Nat
    BY <1>5 DEF Payload, TypeOK, HostTypeOK
  <1> QED BY <1>4, <1>5, <1>6

(* The command a run belongs to. *)
LEMMA CommandOfRun ==
    ASSUME TypeOK, RerunInv, WholeCommands, NEW i \in DOMAIN executed
    PROVE  /\ executed[i].cmd[1][1] = executed[i].cmd[Len(executed[i].cmd)][1]
           /\ executed[i].cmd[1][1] \in 0..apdu
  <1>1. PICK cmd : cmd = executed[i].cmd
    OBVIOUS
  <1>2. Len(cmd) \in DOMAIN cmd /\ cmd[Len(cmd)][1] \in 0..apdu
    BY <1>1, LastPart
  <1>3. cmd[Len(cmd)] = <<cmd[1][1], Len(cmd)>>
    BY <1>1, <1>2 DEF WholeCommands
  <1> QED BY <1>1, <1>2, <1>3

LEMMA AnsweredInRange ==
    ASSUME TypeOK, RerunInv, WholeCommands
    PROVE  Answered \in 0..apdu
  <1>1. Answers(rsp) \subseteq 0..apdu
    BY CommandOfRun DEF Answers
  <1>2. apdu \in Nat
    BY DEF TypeOK, HostTypeOK
  <1> QED BY <1>1, <1>2 DEF Answered

(* The response of a run answers the command of that run and no other. *)
LEMMA AnswersOfRun ==
    ASSUME TypeOK, FragsInv, WholeCommands, NEW i \in DOMAIN executed, NEW r,
           r = [f \in 1..executed[i].frags |-> <<i, f>>]
    PROVE  Answers(r) = {executed[i].cmd[1][1]}
  <1>1. ASSUME NEW j \in DOMAIN executed,
               r = [f \in 1..executed[j].frags |-> <<j, f>>]
        PROVE  j = i
    <2>1. 1 \in 1..executed[i].frags /\ 1 \in 1..executed[j].frags
      BY DEF FragsInv
    <2>2. r[1] = <<i, 1>> /\ r[1] = <<j, 1>>
      BY <1>1, <2>1
    <2> QED BY <2>2
  <1> QED BY <1>1 DEF Answers, WholeCommands

(* A run more leaves what pRsp holds the answer to what it was. *)
LEMMA AnswersKept ==
    ASSUME TypeOK, RspInv, RerunInv, CardStep, UNCHANGED hostVars
    PROVE  Answers(rsp)' = Answers(rsp)
  <1>1. CASE ~CardExecute
    BY <1>1, NotExecuted, HostKept DEF Answers
  <1>2. CASE CardExecute
    <2>1. PICK total \in 1..MaxFrags, cmd \in Seq(Payload) :
              /\ Len(executed) \in Nat
              /\ DOMAIN executed = 1..Len(executed)
              /\ DOMAIN executed' = 1..(Len(executed) + 1)
              /\ \A i \in DOMAIN executed : executed'[i] = executed[i]
              /\ executed'[Len(executed) + 1] = [cmd |-> cmd, frags |-> total]
      BY <1>2, ExecutedGrows
    <2>2. PICK n : n = Len(executed) + 1
      OBVIOUS
    <2>3. rsp # [f \in 1..total |-> <<n, f>>]
      <3> SUFFICES ASSUME rsp = [f \in 1..total |-> <<n, f>>] PROVE FALSE
        OBVIOUS
      <3>1. 1 \in 1..total
        OBVIOUS
      <3>2. rsp[1][1] = n /\ rsp # <<>>
        BY <3>1
      <3> QED BY <2>1, <2>2, <3>2 DEF RspInv
    <2>4. /\ \A i \in DOMAIN executed' : i \in DOMAIN executed \/ i = n
          /\ \A i \in DOMAIN executed : i \in DOMAIN executed'
          /\ executed'[n].frags = total
      BY <2>1, <2>2
    <2>5. rsp' = rsp
      BY HostKept
    <2> DEFINE Given == {j \in DOMAIN executed :
                             /\ rsp = [f \in 1..executed[j].frags |-> <<j, f>>]
                             /\ \A p \in DOMAIN executed[j].cmd :
                                   executed[j].cmd[p] = <<executed[j].cmd[1][1], p>>}
    <2>6. Given' = Given
      BY <2>1, <2>3, <2>4, <2>5
    <2>7. \A j \in Given : executed'[j] = executed[j]
      BY <2>1
    <2> QED BY <2>6, <2>7 DEF Answers
  <1> QED BY <1>1, <1>2

LEMMA CountRuns ==
    ASSUME TypeOK, RerunInv, CardStep, UNCHANGED hostVars
    PROVE  Cardinality(Runs)' = IF CardExecute THEN Cardinality(Runs) + 1
                                               ELSE Cardinality(Runs)
  <1>1. CASE ~CardExecute
    <2>1. Runs' = Runs
      BY <1>1, NotExecuted, RunsKept, HostKept
    <2> QED BY <1>1, <2>1
  <1>2. CASE CardExecute
    <2>1. PICK n : n = Len(executed) + 1
      OBVIOUS
    <2>2. Runs' = Runs \cup {n} /\ n \notin DOMAIN executed
      <3>1. /\ Runs' = Runs \cup {n} /\ Len(executed) \in Nat
            /\ DOMAIN executed = 1..Len(executed)
        BY <1>2, <2>1, ExecutedGrows
      <3> QED BY <2>1, <3>1
    <2>3. n \notin Runs
      BY <2>2 DEF Runs
    <2>4. IsFiniteSet(Runs)
      BY RunsFinite
    <2>5. Cardinality(Runs \cup {n}) = Cardinality(Runs) + 1
      BY <2>3, <2>4, FS_AddElement
    <2>6. Cardinality(Runs)' = Cardinality(Runs \cup {n})
      BY <2>2
    <2> QED BY <1>2, <2>5, <2>6
  <1> QED BY <1>1, <1>2

(* What no step refines by itself: the SE runs the command. *)
LEMMA CardRefines ==
    ASSUME TypeOK, SeqInv, RerunInv, RspInv, CardStep, UNCHANGED hostVars,
           MaxRuns \in Nat, Cardinality(Runs)' <= MaxRuns,
           hpc = "failed" => MayFail
    PROVE  Promise!RunOnce \/ UNCHANGED <<Phase, apdu, Cardinality(Runs), Answered>>
  <1>1. /\ hpc' = hpc /\ apdu' = apdu /\ (InExchange' <=> InExchange)
        /\ Answers(rsp)' = Answers(rsp)
    BY HostKept, AnswersKept
  <1>2. Phase' = Phase /\ Answered' = Answered
    BY <1>1 DEF Phase, Answered
  <1>3. CASE ~CardExecute
    BY <1>1, <1>2, <1>3, CountRuns
  <1>4. CASE CardExecute
    <2>1. Cardinality(Runs)' = Cardinality(Runs) + 1 /\ Cardinality(Runs) \in Nat
      BY <1>4, CountRuns, RunsFinite
    <2>2. Cardinality(Runs) < MaxRuns
      BY <2>1
    <2>3. hpc \in {"wait", "failed"}
      BY CardSteps DEF SeqInv
    <2>4. Phase = "busy" \/ (Phase = "failed" /\ MayFail)
      BY <2>3 DEF Phase, InExchange
    <2> QED BY <1>1, <1>2, <2>1, <2>2, <2>4 DEF Promise!RunOnce, Phase, Answered
  <1> QED BY <1>3, <1>4

LEMMA ReturnRefines ==
    ASSUME TypeOK, SeqInv, RerunInv, FragmentInv, ListRead, WholeCommands, Host, Returns
    PROVE  Promise!Return
  <1>1. /\ HostRecvI /\ UNCHANGED cardVars /\ seRun \in Runs
        /\ rsp' = [f \in 1..executed[seRun].frags |-> <<seRun, f>>]
    BY ReturnedResponse DEF Next
  <1>2. seRun \in DOMAIN executed /\ executed' = executed /\ apdu' = apdu
    BY <1>1, CardKept DEF Runs, HostRecvI, apduVars
  <1>3. executed[seRun].cmd[1][1] = apdu
    BY <1>1, <1>2, CommandOfRun DEF Runs
  <1>4. PICK r : r = rsp'
    OBVIOUS
  <1>5. Answers(r) = {apdu}
    BY <1>1, <1>2, <1>3, <1>4, AnswersOfRun DEF FragmentInv
  <1>6. Answers(rsp)' = Answers(r)
    BY <1>2, <1>4 DEF Answers
  <1>7. InExchange /\ ~InExchange' /\ hpc' = "idle"
    BY DEF Returns, InExchange
  <1>8. Answered' = apdu
    BY <1>5, <1>6, <1>7 DEF Answered
  <1>9. Cardinality(Runs) > 0
    BY <1>1, RunsFinite, FS_EmptySet
  <1>10. Runs' = Runs
    BY <1>2, RunsKept
  <1>11. Phase = "busy" /\ Phase' = "idle" /\ Cardinality(Runs)' = Cardinality(Runs)
    BY <1>7, <1>10 DEF Phase
  <1> QED BY <1>2, <1>8, <1>9, <1>11 DEF Promise!Return, Phase, Answered

LEMMA HostRefines ==
    ASSUME TypeOK, SeqInv, RerunInv, FragmentInv, ListRead, WholeCommands, Host,
           TypeOK', hpc' = "failed" => MayFail
    PROVE  \/ Promise!Return \/ Promise!Fail
           \/ UNCHANGED <<Phase, apdu, Cardinality(Runs), Answered>>
  <1>1. InExchange /\ executed' = executed /\ apdu' = apdu
    BY CardKept
       DEF Host, HostStep, HostSend, HostNoCase, HostTimeout, HostIoError, DoRecovery,
           HostRecvInconsistent, HostRecvI, HostRecvR, HostRecvRequest, HostRecvReset,
           ReadBlock, InExchange, apduVars
  <1>2. Runs' = Runs
    BY <1>1, RunsKept
  <1>3. Cardinality(Runs)' = Cardinality(Runs)
    BY <1>2
  <1>4. CASE hpc' = "idle"
    <2>1. Returns
      BY <1>1, <1>4 DEF Returns
    <2> QED BY <2>1, ReturnRefines
  <1>5. CASE InExchange'
    BY <1>1, <1>3, <1>5 DEF Phase, Answered
  <1>6. CASE hpc' = "failed"
    <2>1. \A i \in DOMAIN executed' : executed'[i].cmd[1][1] \in 0..apdu
      BY <1>1, CommandOfRun
    <2>2. Answers(rsp)' \subseteq 0..apdu
      BY <2>1 DEF Answers
    <2>3. Answered' \in 0..apdu
      BY <2>2 DEF Answered, TypeOK, HostTypeOK
    <2>4. Phase = "busy" /\ Phase' = "failed"
      BY <1>1, <1>6 DEF Phase, InExchange
    <2> QED BY <1>1, <1>3, <1>6, <2>3, <2>4 DEF Promise!Fail, Phase, Answered
  <1>7. hpc' \in {"idle", "send", "wait", "failed"}
    BY DEF TypeOK, HostTypeOK
  <1> QED BY <1>4, <1>5, <1>6, <1>7 DEF InExchange

LEMMA SubmitRefines ==
    ASSUME TypeOK, RerunInv, Disciplined, Submit
    PROVE  Promise!Submit
  <1>1. /\ hpc = "idle" /\ hpc' = "send" /\ apdu' = apdu + 1 /\ executed' = executed
    BY DEF Submit, Start, BeginPart, Disciplined
  <1>2. Runs' = {}
    <2>1. apdu \in Nat
      BY DEF TypeOK, HostTypeOK
    <2>2. ASSUME NEW i \in DOMAIN executed
          PROVE  executed[i].cmd[Len(executed[i].cmd)][1] # apdu'
      <3>1. PICK cmd : cmd = executed[i].cmd
        OBVIOUS
      <3>2. cmd[Len(cmd)][1] \in 0..apdu
        BY <3>1, LastPart
      <3> QED BY <1>1, <2>1, <3>1, <3>2
    <2> QED BY <1>1, <2>2 DEF Runs
  <1>3. Cardinality(Runs)' = 0
    BY <1>2, FS_EmptySet
  <1> QED BY <1>1, <1>3 DEF Promise!Submit, InExchange

LEMMA ResetRefines ==
    ASSUME Reset
    PROVE  Promise!Reset
  <1>1. /\ hpc \in {"idle", "failed"} /\ hpc' \in {"idle", "failed"}
        /\ UNCHANGED <<apdu, rsp, executed>>
    BY RecoveryType
       DEF Reset, CardPowerReset, Setup, SetupNoAtp, SetupNoIfs, SetupWrongIfs, SetupOk,
           MayReset, apduVars, dataVars
  <1>2. Runs' = Runs /\ Answers(rsp)' = Answers(rsp)
    BY <1>1, RunsKept DEF Answers
  <1>3. ~InExchange /\ ~InExchange'
    BY <1>1 DEF InExchange
  <1>4. Cardinality(Runs)' = Cardinality(Runs)
    BY <1>2
  <1> QED BY <1>1, <1>2, <1>3, <1>4 DEF Promise!Reset

FewRuns == Cardinality(Runs) <= MaxRuns

(* An exchange that fails is one that may. *)
Excused == \/ MayFail
           \/ /\ OneFault /\ FaultKinds \subseteq {"lose"}
              /\ RepairInv /\ WantedInv /\ OneFaultInv /\ NeverFails

LEMMA StepRefines ==
    ASSUME Disciplined, MaxRuns \in Nat, TypeOK, SeqInv, RerunInv, FragmentInv, ListRead,
           WholeCommands, RspInv, Excused, TypeOK', FewRuns', [Next]_vars
    PROVE  [Promise!Next]_(Promise!vars)
  <1>1. CASE Submit
    BY <1>1, SubmitRefines DEF Promise!Next
  <1>2. CASE Host
    <2>1. hpc' = "failed" => MayFail
      BY <1>2, HostNeverFails DEF Host, Excused
    <2> QED
      BY <1>2, <2>1, HostRefines DEF Promise!Next, Promise!vars, Phase, Answered
  <1>3. CASE Card
    <2>1. hpc = "failed" => MayFail
      <3>1. CardTake \/ seIn # NoBlock
        BY <1>3, CardSteps DEF Card, SeqInv
      <3> QED BY <3>1 DEF Excused, NeverFails, CardTake
    <2> QED
      BY <1>3, <2>1, CardRefines
         DEF Card, FewRuns, Promise!Next, Promise!vars, Phase, Answered
  <1>4. CASE Reset
    BY <1>4, ResetRefines DEF Promise!Next
  <1>5. CASE Finished \/ UNCHANGED vars
    <2>1. UNCHANGED <<hostVars, cardVars>>
      BY <1>5 DEF Finished, vars
    <2>2. /\ UNCHANGED <<hpc, apdu, rsp, executed>> /\ (InExchange' <=> InExchange)
      BY <2>1, HostKept, CardKept
    <2>3. Runs' = Runs /\ Answers(rsp)' = Answers(rsp)
      BY <2>2, RunsKept DEF Answers
    <2>4. Cardinality(Runs)' = Cardinality(Runs)
      BY <2>3
    <2> QED BY <2>2, <2>3, <2>4 DEF Promise!vars
  <1> QED BY <1>1, <1>2, <1>3, <1>4, <1>5 DEF Next

LEMMA InitRefines == Init => Promise!Init
  <1> SUFFICES ASSUME Init PROVE Promise!Init
    OBVIOUS
  <1>1. hpc = "idle" /\ apdu = 0 /\ executed = <<>>
    BY DEF Init, HostInit, CardInit
  <1>2. Runs = {} /\ Answers(rsp) = {}
    BY <1>1 DEF Runs, Answers
  <1>3. Cardinality(Runs) = 0
    BY <1>2, FS_EmptySet
  <1> QED BY <1>1, <1>2, <1>3 DEF Promise!Init, InExchange

(* When one fault at most hits an exchange and no block is damaged,        *)
(* StEse_Transceive keeps its promise: the SE runs a command at most once, *)
(* and a successful exchange returns the response to it; where the only    *)
(* fault is a lost block, every exchange succeeds (KeepsPromise).          *)
THEOREM KeepsPromiseHolds ==
    ASSUME OneFault, "io" \notin FaultKinds \/ MaxFrags = 1,
           MaxRuns \in Nat \ {0}, MayFail \/ FaultKinds \subseteq {"lose"}
    PROVE  Spec => KeepsPromise
  <1> DEFINE Known == /\ TypeOK /\ SeqInv /\ RerunInv /\ RepairInv /\ WantedInv
                      /\ FragmentInv /\ OneFaultInv /\ ListRead /\ WholeCommands
                      /\ RspInv
             Inv == Known /\ FewRuns /\ (FaultKinds \subseteq {"lose"} => NeverFails)
  <1>1. Disciplined
    BY DEF OneFault
  <1>2. Spec => []Known
    BY <1>1, TypeCorrect, SeqInvHolds, RerunInvHolds, RepairInvHolds, WantedInvHolds,
       FragmentInvHolds, OneFaultInvHolds, ListReadHolds, WholeCommandsHolds,
       RspInvHolds, PTL
  <1>3. Known => FewRuns
    <2> SUFFICES ASSUME Known PROVE FewRuns
      OBVIOUS
    <2>1. Cardinality(Runs) <= 1 /\ Cardinality(Runs) \in Nat
      BY RunsFinite DEF RerunInv, RerunNeedsResync, OneFaultInv, NoResync
    <2> QED BY <2>1 DEF FewRuns
  <1>4. Spec => []Inv
    <2>1. CASE FaultKinds \subseteq {"lose"}
      <3>1. Known /\ FewRuns /\ NeverFails => Inv
        OBVIOUS
      <3> QED BY <1>2, <1>3, <2>1, <3>1, NeverFailsHolds, PTL
    <2>2. CASE ~(FaultKinds \subseteq {"lose"})
      <3>1. Known /\ FewRuns => Inv
        BY <2>2
      <3> QED BY <1>2, <1>3, <3>1, PTL
    <2> QED BY <2>1, <2>2
  <1>5. Inv /\ Inv' /\ [Next]_vars => [Promise!Next]_(Promise!vars)
    <2> SUFFICES ASSUME Inv, Inv', [Next]_vars PROVE [Promise!Next]_(Promise!vars)
      OBVIOUS
    <2>1. Excused
      BY DEF Excused
    <2> QED BY <1>1, <2>1, StepRefines
  <1> QED
    BY <1>4, <1>5, InitRefines, PTL DEF Spec, KeepsPromise, Promise!Spec

-----------------------------------------------------------------------------
(* An APDU is run once more per fault at most: every RESYNCH is due to a   *)
(* fault of its own.                                                       *)
LEMMA CountsAreNat ==
    ASSUME TypeOK
    PROVE  faults \in Nat /\ resyncs \in Nat
  BY DEF TypeOK, WireTypeOK, CardTypeOK

(* A fault that led to no RESYNCH yet excuses whatever comes next. *)
LEMMA UnspentResyncInv ==
    ASSUME resyncs' < faults', resyncs' \in Nat, faults' \in Nat,
           hpc' = "send" => gNextCmd' # "R_ACK" \/ ~NothingOwed'
    PROVE  ResyncInv'
  BY DEF ResyncInv, BlamedInv, Repairing, AckInv, RejectInv, NumberInv, Unspent

(* The answer was read: the host goes on without a RESYNCH in mind. *)
LEMMA ResumeResyncInv ==
    ASSUME ResyncInv, UNCHANGED <<faults, cardVars>>,
           hpc' # "wait", toSE' = NoBlock, seIn' = NoBlock,
           hpc' = "send" => gNextCmd' \in {"I_block", "S_WTX_RES", "S_Resync_RES",
                                           "S_IFS_RES"},
           NumberInv'
    PROVE  ResyncInv'
  <1>1. resyncs' <= faults'
    BY CardKept DEF ResyncInv, BlamedInv
  <1> QED
    BY <1>1, KindsOfBlocks
       DEF ResyncInv, BlamedInv, Repairing, AckInv, RejectInv, ResetRequests

LEMMA HostSendResyncInv ==
    ASSUME TypeOK, SeqInv, WantedInv, ResyncInv, HostSend, UNCHANGED cardVars
    PROVE  ResyncInv'
  <1> USE CardKept, CountsAreNat
  <1>1. PICK t \in Transfers(CommandBlock) : toSE' = t.block /\ faults' = t.faults
    BY DEF HostSend
  <1>2. /\ hpc = "send" /\ ~HasNoCase /\ hpc' = "wait"
        /\ UNCHANGED <<seIn, toHost, gNextCmd, SEQ_NUM_SLAVE>>
    BY DEF HostSend, seqVars
  <1>3. seIn' = NoBlock /\ toHost' = NoBlock
    BY <1>2 DEF SeqInv, LineInv
  <1>4. resyncs <= faults /\ resyncs' = resyncs
    BY DEF ResyncInv, BlamedInv
  <1>5. CASE resyncs' < faults'
    <2>1. faults' \in Nat
      BY <1>1, TransferCost
    <2> QED BY <1>2, <1>4, <1>5, <2>1, UnspentResyncInv
  <1>6. CASE ~(resyncs' < faults')
    <2>1. toSE' = CommandBlock /\ faults' = faults /\ ~Unspent
      BY <1>1, <1>4, <1>6, TransferCost DEF Unspent
    <2>2. /\ gNextCmd \in {"I_block", "R_ACK", "S_WTX_RES"}
          /\ gNextCmd = "R_ACK" => ~NothingOwed
      BY <1>2, <2>1
         DEF ResyncInv, BlamedInv, Repairing, AckInv, WantedInv, HasNoCase, TypeOK,
             HostTypeOK, Commands
    <2>3. /\ CommandBlock.kind \in {"I", "R", "S_WTX_RES"}
          /\ CommandBlock.kind = "R" => ~NothingOwed
      BY <2>2, KindsOfBlocks DEF CommandBlock
    <2>4. BlamedInv'
      BY <1>2, <1>3, <1>4, <2>1, <2>3, KindsOfBlocks
         DEF BlamedInv, Repairing, ResetRequests, NoGoodAnswer, Consistent
    <2>5. AckInv'
      BY <1>2, <1>3, <2>1, <2>3, KindsOfBlocks DEF AckInv, NothingOwed
    <2>6. NumberInv'
      BY <1>2, <2>1 DEF ResyncInv, NumberInv, Live
    <2> QED BY <1>3, <2>4, <2>5, <2>6, KindsOfBlocks DEF ResyncInv, RejectInv
  <1> QED BY <1>5, <1>6

LEMMA FailedResyncInv ==
    ASSUME TypeOK, ResyncInv, hpc' = "failed", UNCHANGED <<toSE, seIn, resyncs>>,
           faults' \in {faults, faults + 1}
    PROVE  ResyncInv'
  BY CountsAreNat
     DEF ResyncInv, BlamedInv, Repairing, AckInv, RejectInv, NumberInv, Unspent, Live

(* A step of recovery has a fault to blame. *)
LEMMA RecoveryResyncInv ==
    ASSUME TypeOK, ResyncInv, DoRecovery, hpc = "wait", NoGoodAnswer,
           UNCHANGED <<faults, cardVars>>
    PROVE  ResyncInv'
  <1>1. resyncs' < faults' /\ resyncs' \in Nat /\ faults' \in Nat
    BY CardKept, CountsAreNat DEF ResyncInv, BlamedInv, Repairing, Unspent
  <1>2. hpc' = "send" => gNextCmd' # "R_ACK"
    BY RecoveryType DEF DoRecovery, TypeOK, HostTypeOK
  <1> QED BY <1>1, <1>2, UnspentResyncInv

LEMMA HostRecvIResyncInv ==
    ASSUME TypeOK, SeqInv, FragmentInv, ResyncInv, HostRecvI, UNCHANGED cardVars
    PROVE  ResyncInv'
  <1> USE CardKept, CountsAreNat
  <1>1. /\ hpc = "wait" /\ ~orig.more /\ lastI # NoBlock
        /\ toHost.more <=> seNext <= seTotal
    BY ReadFragment
  <1>2. toSE' = NoBlock /\ seIn' = NoBlock /\ faults' = faults
    BY ReadEmptiesLine DEF HostRecvI, ReadBlock
  <1>3. resyncs <= faults
    BY DEF ResyncInv, BlamedInv
  <1>4. \/ hpc' = "idle"
        \/ hpc' = "send" /\ gNextCmd' = "R_ACK" /\ toHost.more
    BY <1>1, EndPartLast DEF HostRecvI, Continue
  <1>5. toHost.more => ~NothingOwed'
    BY <1>1 DEF NothingOwed, TypeOK, CardTypeOK
  <1> QED
    BY <1>1, <1>2, <1>3, <1>4, <1>5, KindsOfBlocks
       DEF ResyncInv, BlamedInv, Repairing, AckInv, RejectInv, NumberInv, ResetRequests

LEMMA HostRecvRResyncInv ==
    ASSUME TypeOK, SeqInv, ResyncInv, HostRecvR, UNCHANGED cardVars
    PROVE  ResyncInv'
  <1> USE CardKept, CountsAreNat
  <1>1. /\ hpc = "wait" /\ toHost.kind = "R" /\ toHost.seq = seVR
        /\ toSE' = NoBlock /\ seIn' = NoBlock
        /\ faults' = faults /\ SEQ_NUM_SLAVE' = SEQ_NUM_SLAVE
    BY ReadEmptiesLine DEF HostRecvR, ReadBlock, SeqInv, AnswerInv
  <1>2. hpc' = "send"
    BY <1>1, EndPartNext DEF HostRecvR, Continue
  <1>3. NumberInv'
    BY <1>1, <1>2 DEF ResyncInv, NumberInv, Live, Unspent
  <1>4. CASE gNextCmd' = "I_block"
    BY <1>1, <1>2, <1>3, <1>4, ResumeResyncInv
  <1>5. CASE gNextCmd' # "I_block"
    <2>1. ~(orig.more /\ IsSequenceNumberOk(toHost))
      BY <1>1, <1>5, EndPartNext DEF HostRecvR
    <2>2. ~orig.more /\ ~IsSequenceNumberOk(toHost) /\ gNextCmd' = "S_Resync_REQ"
      BY <1>5, <2>1 DEF HostRecvR, Continue, ReplyToR
    <2>3. seVR # SEQ_NUM_MASTER
      BY <1>1, <2>2 DEF IsSequenceNumberOk
    <2>4. Unspent
      BY <1>1, <2>2, <2>3 DEF ResyncInv, RejectInv, Taken, Live
    <2> QED BY <1>1, <2>2, <2>4, UnspentResyncInv DEF Unspent
  <1> QED BY <1>4, <1>5

LEMMA HostStepResyncInv ==
    ASSUME TypeOK, SeqInv, RepairInv, WantedInv, FragmentInv, ResyncInv, Disciplined,
           HostStep, UNCHANGED cardVars
    PROVE  ResyncInv'
  <1> USE CardKept
  <1>1. CASE HostSend
    BY <1>1, HostSendResyncInv
  <1>2. CASE HostNoCase \/ HostIoError
    BY <1>2, FailedResyncInv DEF HostNoCase, HostIoError, wireVars
  <1>3. CASE HostTimeout \/ HostRecvInconsistent
    <2>1. hpc = "wait" /\ NoGoodAnswer /\ DoRecovery /\ faults' = faults
      BY <1>3
         DEF HostTimeout, CanFault, Disciplined, HostRecvInconsistent, ReadBlock,
             NoGoodAnswer
    <2> QED BY <2>1, RecoveryResyncInv
  <1>4. CASE HostRecvI
    BY <1>4, HostRecvIResyncInv
  <1>5. CASE HostRecvR
    BY <1>5, HostRecvRResyncInv
  <1>6. CASE HostRecvRequest
    <2>1. /\ hpc = "wait" /\ toHost.kind # "S_RESYNC_RES"
          /\ toSE' = NoBlock /\ seIn' = NoBlock
          /\ UNCHANGED <<faults, SEQ_NUM_SLAVE>>
      BY <1>6, ReadEmptiesLine DEF HostRecvRequest, ReadBlock, seqVars
    <2>2. hpc' = "failed" \/ (hpc' = "send" /\ gNextCmd' \in {"S_WTX_RES", "S_IFS_RES"})
      BY <1>6 DEF HostRecvRequest, Continue
    <2>3. NumberInv'
      BY <2>1, <2>2 DEF ResyncInv, NumberInv, Live, Unspent
    <2> QED BY <2>1, <2>2, <2>3, ResumeResyncInv
  <1>7. CASE HostRecvReset
    <2>1. /\ hpc = "wait" /\ toSE' = NoBlock /\ seIn' = NoBlock /\ faults' = faults
          /\ SEQ_NUM_SLAVE' = 0
      BY <1>7, ReadEmptiesLine DEF HostRecvReset, ReadBlock, ResetSequenceNumbers
    <2>2. \/ hpc' = "failed"
          \/ hpc' = "send" /\ gNextCmd' = "S_Resync_RES"
          \/ hpc' = "send" /\ gNextCmd' = "I_block" /\ toHost.kind = "S_RESYNC_RES"
      BY <1>7 DEF HostRecvReset, ResendWithNsZero, SoftResetEnds, Continue
    <2>3. toHost.kind = "S_RESYNC_RES" => seVS = 0
      BY <2>1 DEF RepairInv, SlaveInv
    <2>4. NumberInv'
      BY <2>1, <2>2, <2>3 DEF NumberInv, Live, HasNoCase
    <2> QED BY <2>1, <2>2, <2>4, ResumeResyncInv
  <1> QED
    BY <1>1, <1>2, <1>3, <1>4, <1>5, <1>6, <1>7 DEF HostStep

(* The SE answers; what the host may make of it has a fault to blame. *)
LEMMA AnswerResyncInv ==
    ASSUME TypeOK, TypeOK', SeqInv, hpc = "wait", seIn # NoBlock, UNCHANGED hostVars,
           resyncs' <= faults, NEW b, Answer(b), b.kind \notin {"GARBLED", "none"},
           b.kind = "I" => b.seq = SEQ_NUM_SLAVE \/ resyncs' < faults,
           b.kind = "R" /\ ~orig.more => ~Taken' \/ resyncs' < faults,
           lastI' = NoBlock => \/ SEQ_NUM_SLAVE = seVS' \/ resyncs' < faults
                               \/ b.kind = "S_RESYNC_RES"
    PROVE  ResyncInv'
  <1> USE HostKept, CountsAreNat
  <1>1. PICK t \in Transfers(b) : toHost' = t.block /\ faults' = t.faults
    BY DEF Answer
  <1>2. toSE' = NoBlock /\ seIn' = NoBlock
    BY AnswerLine DEF SeqInv
  <1>3. resyncs' \in Nat /\ faults' \in Nat
    BY DEF TypeOK, WireTypeOK, CardTypeOK
  <1>4. CASE resyncs' < faults'
    BY <1>3, <1>4, UnspentResyncInv
  <1>5. CASE ~(resyncs' < faults')
    <2>1. toHost' = b /\ faults' = faults /\ ~(resyncs' < faults)
      BY <1>1, <1>3, <1>5, TransferCost
    <2>2. ~NoGoodAnswer'
      BY <2>1, KindsOfBlocks DEF NoGoodAnswer, Consistent, IsSequenceNumberOk
    <2>3. BlamedInv'
      BY <1>2, <2>1, <2>2, KindsOfBlocks DEF BlamedInv, Repairing, ResetRequests
    <2>4. RejectInv' /\ NumberInv'
      BY <2>1 DEF RejectInv, NumberInv
    <2> QED BY <1>2, <2>3, <2>4, KindsOfBlocks DEF ResyncInv, AckInv
  <1> QED BY <1>4, <1>5

LEMMA SendFragmentResyncInv ==
    ASSUME TypeOK, TypeOK', SeqInv, hpc = "wait", seIn # NoBlock, UNCHANGED hostVars,
           resyncs' <= faults, SEQ_NUM_SLAVE = seVS \/ resyncs' < faults,
           NEW run, NEW next, NEW total, SendFragment(run, next, total)
    PROVE  ResyncInv'
  <1>1. PICK b : b = IBlock(seVS, next < total, <<run, next>>)
    OBVIOUS
  <1>2. b.kind = "I" /\ b.seq = seVS
    BY <1>1, KindsOfBlocks
  <1>3. Answer(b) /\ lastI' # NoBlock
    BY <1>1, KindsOfBlocks DEF SendFragment
  <1> QED BY <1>2, <1>3, AnswerResyncInv

LEMMA AskHostResyncInv ==
    ASSUME TypeOK, TypeOK', SeqInv, hpc = "wait", seIn # NoBlock, UNCHANGED hostVars,
           resyncs' <= faults, SEQ_NUM_SLAVE = seVS \/ resyncs' < faults,
           NEW run, NEW total, NEW left, AskHost(run, total, left)
    PROVE  ResyncInv'
  <1>1. PICK b : b.kind \in AskKinds /\ Answer(b)
    BY AskHostBlock
  <1>2. seVS' = seVS
    BY DEF AskHost
  <1> QED BY <1>1, <1>2, AnswerResyncInv DEF AskKinds

(* Unless a fault disturbed them, the two ends agree on the SE's next      *)
(* number as long as the SE has no fragment to send again.                 *)
LEMMA NumberAgrees ==
    ASSUME TypeOK, SeqInv, NumberInv, hpc = "wait", seIn # NoBlock,
           seVR = SEQ_NUM_MASTER \/ seWait \/ lastI = NoBlock
    PROVE  SEQ_NUM_SLAVE = seVS \/ Unspent
  <1>1. toHost = NoBlock
    BY DEF SeqInv, LineInv
  <1>2. CASE lastI = NoBlock
    BY <1>1, <1>2, KindsOfBlocks DEF NumberInv, Live
  <1>3. CASE lastI # NoBlock
    BY <1>3 DEF SeqInv, LastBlockInv, OweInv, Live
  <1> QED BY <1>2, <1>3

LEMMA CardStepResyncInv ==
    ASSUME TypeOK, TypeOK', SeqInv, RepairInv, WantedInv, ResyncInv, CardStep,
           UNCHANGED hostVars, hpc = "wait"
    PROVE  ResyncInv'
  <1> USE HostKept, CountsAreNat
  <1>1. /\ seIn.kind = "I" => /\ seIn.seq = SEQ_NUM_MASTER /\ seIn.more = orig.more
                              /\ seVR = SEQ_NUM_MASTER
        /\ seIn.kind = "R" => seIn.seq = SEQ_NUM_SLAVE /\ (~NothingOwed \/ Unspent)
        /\ seIn.kind = "S_WTX_RES" => seWait
        /\ seIn.kind \in ResetRequests \cup {"GARBLED"} => Unspent
    BY DEF SeqInv, CommandInv, WantedInv, ResyncInv, BlamedInv, AckInv
  <1>2. resyncs <= faults
    BY DEF ResyncInv, BlamedInv
  <1>3. CASE CardTake
    <2>1. /\ seIn' = toSE /\ toSE' = NoBlock /\ toHost' = NoBlock /\ toSE # NoBlock
          /\ UNCHANGED <<faults, cardVars>>
      BY <1>3 DEF CardTake, SeqInv, LineInv
    <2>2. toHost = NoBlock
      BY <2>1 DEF SeqInv, LineInv
    <2>3. ~NoGoodAnswer'
      BY <2>1, KindsOfBlocks DEF NoGoodAnswer, Consistent
    <2>4. BlamedInv'
      BY <2>1, <2>3, CardKept, KindsOfBlocks
         DEF ResyncInv, BlamedInv, Repairing, ResetRequests, Unspent
    <2>5. AckInv' /\ RejectInv'
      BY <2>1, CardKept, KindsOfBlocks
         DEF ResyncInv, AckInv, RejectInv, NothingOwed, Unspent
    <2>6. NumberInv'
      BY <2>1, <2>2, CardKept, KindsOfBlocks DEF ResyncInv, NumberInv, Unspent
    <2> QED BY <2>4, <2>5, <2>6 DEF ResyncInv
  <1>4. CASE CardReject
    <2>1. Answer(RBlock(seVR)) /\ seIn # NoBlock /\ UNCHANGED cardVars
      BY <1>4, KindsOfBlocks DEF CardReject
    <2>2. Unspent \/ ~Taken
      BY <1>1, <1>4 DEF CardReject, NothingOwed, Taken
    <2>3. lastI = NoBlock => SEQ_NUM_SLAVE = seVS \/ Unspent
      BY <2>1, NumberAgrees DEF ResyncInv
    <2>4. Taken' <=> Taken
      BY <2>1, CardKept DEF Taken
    <2>5. PICK b : b = RBlock(seVR)
      OBVIOUS
    <2>6. b.kind = "R" /\ Answer(b)
      BY <2>1, <2>5, KindsOfBlocks
    <2> QED
      BY <1>2, <2>1, <2>2, <2>3, <2>4, <2>6, CardKept, AnswerResyncInv DEF Unspent
  <1>5. CASE CardChain
    <2>1. /\ seIn.kind = "I" /\ seIn.more /\ Answer(RBlock(Flip(seVR)))
          /\ seVS' = seVS /\ resyncs' = resyncs
      BY <1>5 DEF CardChain
    <2>2. seIn # NoBlock /\ orig.more
      BY <1>1, <2>1, KindsOfBlocks
    <2>3. SEQ_NUM_SLAVE = seVS \/ Unspent
      BY <1>1, <2>1, <2>2, NumberAgrees DEF ResyncInv
    <2>4. PICK b : b = RBlock(Flip(seVR))
      OBVIOUS
    <2>5. b.kind = "R" /\ Answer(b)
      BY <2>1, <2>4, KindsOfBlocks
    <2> QED
      BY <1>2, <2>1, <2>2, <2>3, <2>5, AnswerResyncInv DEF Unspent
  <1>6. CASE CardExecute
    <2>1. seIn.kind = "I" /\ resyncs' = resyncs
      BY <1>6 DEF CardExecute
    <2>2. seIn # NoBlock
      BY <2>1, KindsOfBlocks
    <2>3. SEQ_NUM_SLAVE = seVS \/ resyncs' < faults
      BY <1>1, <2>1, <2>2, NumberAgrees DEF ResyncInv, Unspent
    <2>4. PICK total \in 1..MaxFrags, ask \in 0..MaxAsk :
            IF ask = 0 THEN SendFragment(Len(executed) + 1, 1, total)
                       ELSE AskHost(Len(executed) + 1, total, ask - 1)
      BY <1>6 DEF CardExecute
    <2>5. CASE ask = 0
      <3>1. SendFragment(Len(executed) + 1, 1, total)
        BY <2>4, <2>5
      <3> QED BY <1>2, <2>1, <2>2, <2>3, <3>1, SendFragmentResyncInv
    <2>6. CASE ask # 0
      <3>1. AskHost(Len(executed) + 1, total, ask - 1)
        BY <2>4, <2>6
      <3> QED BY <1>2, <2>1, <2>2, <2>3, <3>1, AskHostResyncInv
    <2> QED BY <2>5, <2>6
  <1>7. CASE CardRetransmit
    <2>1. /\ seIn.kind = "R" /\ lastI # NoBlock /\ seIn.seq # seVS /\ Answer(lastI)
          /\ UNCHANGED cardVars
      BY <1>7 DEF CardRetransmit, AsksAgain
    <2>2. seIn # NoBlock
      BY <2>1, KindsOfBlocks
    <2>3. lastI.kind = "I" /\ lastI.seq = Flip(seVS)
      BY <2>1 DEF SeqInv, LastBlockInv
    <2>4. lastI.seq = SEQ_NUM_SLAVE
      <3>1. SEQ_NUM_SLAVE # seVS
        BY <1>1, <2>1
      <3>2. SEQ_NUM_SLAVE \in Bit /\ seVS \in Bit
        BY DEF TypeOK, HostTypeOK, CardTypeOK
      <3>3. SEQ_NUM_SLAVE = Flip(seVS)
        BY <3>1, <3>2 DEF Bit, Flip
      <3> QED BY <2>3, <3>3
    <2>5. PICK b : b = lastI
      OBVIOUS
    <2>6. b.kind = "I" /\ b.seq = SEQ_NUM_SLAVE /\ Answer(b)
      BY <2>1, <2>3, <2>4, <2>5
    <2>7. lastI' # NoBlock /\ resyncs' = resyncs
      BY <2>1, CardKept
    <2> QED BY <1>2, <2>2, <2>6, <2>7, AnswerResyncInv
  <1>8. CASE CardContinue
    <2>1. SendFragment(seRun, seNext, seTotal) /\ seIn # NoBlock /\ resyncs' = resyncs
      BY <1>8, KindsOfBlocks DEF CardContinue
    <2>2. SEQ_NUM_SLAVE = seVS \/ Unspent
      <3>1. CASE seIn.kind = "R" /\ ~AsksAgain /\ ~seWait /\ seNext <= seTotal
        <4>1. lastI # NoBlock
          BY <3>1 DEF RepairInv, SlaveInv, TypeOK, CardTypeOK
        <4> QED BY <1>1, <3>1, <4>1 DEF AsksAgain
      <3>2. CASE seIn.kind = "S_WTX_RES" /\ seWait
        BY <2>1, <3>2, NumberAgrees DEF ResyncInv
      <3> QED BY <1>8, <3>1, <3>2 DEF CardContinue
    <2> QED BY <1>2, <2>1, <2>2, SendFragmentResyncInv DEF Unspent
  <1>9. CASE CardAskAgain
    <2>1. PICK left : AskHost(seRun, seTotal, left)
      BY <1>9 DEF CardAskAgain
    <2>2. seWait /\ seIn # NoBlock /\ resyncs' = resyncs
      BY <1>9, KindsOfBlocks DEF CardAskAgain
    <2>3. SEQ_NUM_SLAVE = seVS \/ resyncs' < faults
      BY <2>2, NumberAgrees DEF ResyncInv, Unspent
    <2> QED BY <1>2, <2>1, <2>2, <2>3, AskHostResyncInv
  <1>10. CASE CardResync \/ CardSoftReset
    <2>1. PICK k \in {"S_RESYNC_RES", "S_SWRESET_RES"} :
            /\ Answer(SBlock(k))
            /\ k = "S_RESYNC_RES" => resyncs' = resyncs + 1
            /\ k # "S_RESYNC_RES" => resyncs' = resyncs
      BY <1>10 DEF CardResync, CardSoftReset
    <2>2. seIn # NoBlock /\ Unspent
      BY <1>1, <1>10, KindsOfBlocks DEF CardResync, CardSoftReset, ResetRequests
    <2>3. PICK b : b = SBlock(k)
      OBVIOUS
    <2>4. b.kind = k /\ Answer(b)
      BY <2>1, <2>3, KindsOfBlocks
    <2>5. resyncs' <= faults /\ (k = "S_RESYNC_RES" \/ resyncs' < faults)
      BY <2>1, <2>2 DEF Unspent
    <2> QED BY <2>2, <2>4, <2>5, AnswerResyncInv
  <1> QED
    BY <1>3, <1>4, <1>5, <1>6, <1>7, <1>8, <1>9, <1>10 DEF CardStep

(* The exchange failed: the SE may still do what the host asked last. *)
LEMMA LateCardResyncInv ==
    ASSUME TypeOK, TypeOK', SeqInv, RerunInv, ResyncInv, CardStep, UNCHANGED hostVars,
           hpc = "failed"
    PROVE  ResyncInv'
  <1> USE HostKept, CountsAreNat
  <1>1. resyncs' <= faults' => ResyncInv' \/ toSE' # NoBlock \/ seIn' # NoBlock
    BY KindsOfBlocks
       DEF ResyncInv, BlamedInv, Repairing, AckInv, RejectInv, NumberInv, Live,
           ResetRequests
  <1>2. CASE CardTake
    <2>1. seIn' = toSE /\ toSE' = NoBlock /\ UNCHANGED <<faults, resyncs>>
      BY <1>2, CardKept DEF CardTake
    <2> QED
      BY <2>1, KindsOfBlocks
         DEF ResyncInv, BlamedInv, Repairing, AckInv, RejectInv, NumberInv, Live,
             ResetRequests, Unspent
  <1>3. CASE ~CardTake
    <2>1. seIn # NoBlock
      BY <1>3, CardSteps DEF SeqInv
    <2>2. PICK b : Answer(b)
      BY <1>3
         DEF CardStep, CardReject, CardChain, CardExecute, CardRetransmit, CardContinue,
             CardAskAgain, CardResync, CardSoftReset, SendFragment, AskHost
    <2>3. toSE' = NoBlock /\ seIn' = NoBlock /\ faults' \in {faults, faults + 1}
      BY <2>1, <2>2, TransferResult DEF Answer, RerunInv, CommandOfApdu
    <2>4. \/ resyncs' = resyncs
          \/ resyncs' = resyncs + 1 /\ seIn.kind = "S_RESYNC_REQ"
      BY <1>3
         DEF CardStep, CardReject, CardChain, CardExecute, CardRetransmit, CardContinue,
             CardAskAgain, CardResync, CardSoftReset, cardVars
    <2>5. resyncs' <= faults'
      BY <2>3, <2>4 DEF ResyncInv, BlamedInv, ResetRequests, Unspent
    <2> QED BY <1>1, <2>3, <2>5
  <1> QED BY <1>2, <1>3

(* ResyncInv is inductive beside the invariants above, whatever the faults. *)
THEOREM ResyncInvHolds ==
    ASSUME Disciplined
    PROVE  Spec => []ResyncInv
  <1> DEFINE Known == SeqInv /\ RerunInv /\ RepairInv /\ WantedInv /\ FragmentInv
  <1>1. Init => ResyncInv
    BY KindsOfBlocks
       DEF Init, WireInit, HostInit, CardInit, ResyncInv, BlamedInv, Repairing, AckInv,
           RejectInv, NumberInv, Live, ResetRequests
  <1>2. TypeOK /\ TypeOK' /\ Known /\ ResyncInv /\ [Next]_vars => ResyncInv'
    <2> SUFFICES ASSUME TypeOK, TypeOK', Known, ResyncInv, [Next]_vars
                 PROVE  ResyncInv'
      OBVIOUS
    <2>1. CASE Submit
      <3>1. /\ hpc = "idle" /\ hpc' = "send" /\ gNextCmd' = "I_block"
            /\ faults' = 0 /\ resyncs' = 0
            /\ UNCHANGED <<toSE, seIn, toHost, SEQ_NUM_SLAVE, seVS>>
        BY <2>1 DEF Submit, Start, BeginPart, Disciplined, seqVars, linkVars
      <3>2. SEQ_NUM_SLAVE = seVS /\ toSE = NoBlock /\ seIn = NoBlock
        BY <3>1 DEF SeqInv, IdleInv, LineInv
      <3> QED
        BY <3>1, <3>2, KindsOfBlocks
           DEF ResyncInv, BlamedInv, Repairing, AckInv, RejectInv, NumberInv,
               ResetRequests
    <2>2. CASE Host
      BY <2>2, HostStepResyncInv DEF Host
    <2>3. CASE Card
      BY <2>3, CardSteps, CardStepResyncInv, LateCardResyncInv DEF Card, SeqInv
    <2>4. CASE Reset
      <3>1. /\ hpc' \in {"idle", "failed"} /\ toSE' = NoBlock /\ seIn' = NoBlock
            /\ UNCHANGED <<faults, resyncs>>
        BY <2>4
           DEF Reset, CardPowerReset, Setup, SetupNoAtp, SetupNoIfs, SetupWrongIfs,
               SetupOk
      <3> QED
        BY <3>1, KindsOfBlocks
           DEF ResyncInv, BlamedInv, Repairing, AckInv, RejectInv, NumberInv, Live,
               ResetRequests
    <2>5. CASE Finished \/ UNCHANGED vars
      <3>1. UNCHANGED <<wireVars, hostVars, cardVars>>
        BY <2>5 DEF Finished, vars
      <3> QED
        BY <3>1, HostKept, CardKept
           DEF wireVars, ResyncInv, BlamedInv, Repairing, AckInv, RejectInv, NumberInv,
               NothingOwed, Unspent, Taken, NoGoodAnswer, Consistent,
               IsSequenceNumberOk
    <2> QED BY <2>1, <2>2, <2>3, <2>4, <2>5 DEF Next
  <1> QED
    BY <1>1, <1>2, TypeCorrect, SeqInvHolds, RerunInvHolds, RepairInvHolds,
       WantedInvHolds, FragmentInvHolds, PTL DEF Spec

(* A command is run again only for a fault of its exchange, however many   *)
(* blocks are lost or damaged and whatever the SE asks for.                *)
THEOREM RerunNeedsFaultHolds ==
    ASSUME Disciplined
    PROVE  Spec => []RerunNeedsFault
  <1>1. TypeOK /\ RerunInv /\ ResyncInv => RerunNeedsFault
    BY RunsFinite, CountsAreNat
       DEF RerunInv, RerunNeedsResync, ResyncInv, BlamedInv, RerunNeedsFault
  <1> QED
    BY <1>1, TypeCorrect, RerunInvHolds, ResyncInvHolds, PTL

-----------------------------------------------------------------------------
(* Commands of one part are whole whatever the faults: there is no chain   *)
(* for a RESYNCH to break.                                                 *)
OnePartInv ==
    /\ InExchange => part = 1 /\ nparts = 1
    /\ \A b \in {toSE, seIn} : b.kind = "I" => ~b.more /\ b.data = <<apdu, 1>>
    /\ seRx = <<>>
    /\ WholeCommands

LEMMA HostOnePart ==
    ASSUME TypeOK, SeqInv, OnePartInv, HostStep, UNCHANGED cardVars
    PROVE  OnePartInv'
  <1> USE CardKept
  <1>1. WholeCommands' /\ seRx' = <<>> /\ InExchange
    BY DEF OnePartInv, WholeCommands, HostStep, HostSend, HostNoCase, HostTimeout,
           HostIoError, HostRecvInconsistent, HostRecvI, HostRecvR, HostRecvRequest,
           HostRecvReset, ReadBlock, InExchange
  <1>2. part = 1 /\ nparts = 1 /\ apdu' = apdu /\ nparts' = nparts
    BY <1>1
       DEF OnePartInv, HostStep, HostSend, HostNoCase, HostTimeout, HostIoError,
           HostRecvInconsistent, DoRecovery, HostRecvI, HostRecvR, HostRecvRequest,
           HostRecvReset, apduVars
  <1>3. CASE HostSend
    <2>1. PICK t \in Transfers(CommandBlock) : toSE' = t.block
      BY <1>3 DEF HostSend
    <2>2. /\ hpc = "send" /\ ~HasNoCase /\ seIn' = seIn /\ part' = part
          /\ toSE' \in {CommandBlock, NoBlock, Garbled}
      BY <1>3, <2>1, TransferResult DEF HostSend, dataVars
    <2>3. ~orig.more
      <3>1. orig.more = (part < nparts)
        BY <2>2 DEF SeqInv, OrigInv, Live
      <3>2. ~(part < nparts) /\ orig.more \in BOOLEAN
        BY <1>2 DEF TypeOK, HostTypeOK
      <3> QED BY <3>1, <3>2
    <2>4. CommandBlock.kind = "I" => /\ ~CommandBlock.more
                                     /\ CommandBlock.data = <<apdu, 1>>
      <3>1. CASE gNextCmd = "I_block"
        BY <1>2, <2>3, <3>1 DEF CommandBlock, IBlock
      <3>2. CASE gNextCmd # "I_block"
        BY <3>2, KindsOfBlocks DEF CommandBlock
      <3> QED BY <3>1, <3>2
    <2> QED BY <1>1, <1>2, <2>2, <2>4, KindsOfBlocks DEF OnePartInv
  <1>4. CASE ~HostSend
    <2>1. UNCHANGED <<toSE, seIn>>
      BY <1>4
         DEF HostStep, HostNoCase, HostTimeout, HostIoError, HostRecvInconsistent,
             HostRecvI, HostRecvR, HostRecvRequest, HostRecvReset, ReadBlock, wireVars
    <2>2. part' = part
      BY <1>2, <1>4
         DEF HostStep, HostNoCase, HostTimeout, HostIoError, HostRecvInconsistent,
             DoRecovery, HostRecvI, HostRecvR, EndPart, HostRecvRequest, HostRecvReset,
             dataVars
    <2> QED BY <1>1, <1>2, <2>1, <2>2 DEF OnePartInv
  <1> QED BY <1>3, <1>4

LEMMA CardOnePart ==
    ASSUME TypeOK, RerunInv, OnePartInv, CardStep, UNCHANGED hostVars
    PROVE  OnePartInv'
  <1> USE HostKept
  <1>1. seRx' = <<>> /\ ~CardChain
    BY DEF OnePartInv, CardStep, CardTake, CardReject, CardChain, CardExecute,
           CardRetransmit, CardContinue, CardAskAgain, CardResync, CardSoftReset,
           ForgetLink, cardVars, linkVars
  <1>2. \/ seIn' = toSE /\ toSE' = NoBlock
        \/ seIn' = NoBlock /\ toSE' = toSE
    BY DEF CardStep, CardTake, CardReject, CardChain, CardExecute, CardRetransmit,
           CardContinue, CardAskAgain, CardResync, CardSoftReset, SendFragment, AskHost,
           Answer
  <1>3. WholeCommands'
    <2>1. CASE ~CardExecute
      BY <2>1, NotExecuted DEF OnePartInv, WholeCommands
    <2>2. CASE CardExecute
      <3>1. PICK total \in 1..MaxFrags :
               executed' = Append(executed, [cmd   |-> Append(seRx, seIn.data),
                                             frags |-> total])
        BY <2>2 DEF CardExecute
      <3>2. PICK cmd : cmd = Append(seRx, seIn.data)
        OBVIOUS
      <3>3. /\ cmd \in Seq(Payload) /\ Len(cmd) = 1 /\ cmd[1] = <<apdu, 1>>
            /\ DOMAIN cmd = {1} /\ cmd[Len(cmd)][1] = apdu /\ total \in Nat
        <4>1. seRx = <<>> /\ seIn.data = <<apdu, 1>>
          BY <2>2 DEF CardExecute, OnePartInv
        <4>2. <<apdu, 1>> \in Payload
          BY DEF TypeOK, HostTypeOK, Payload
        <4> QED BY <3>2, <4>1, <4>2, BoundsAssumption
      <3>4. /\ DOMAIN executed' = 1..(Len(executed) + 1)
            /\ DOMAIN executed = 1..Len(executed) /\ Len(executed) \in Nat
            /\ \A i \in DOMAIN executed : executed'[i] = executed[i]
            /\ executed'[Len(executed) + 1] = [cmd |-> cmd, frags |-> total]
        BY <3>1, <3>2, <3>3, NewRun
      <3>5. \A i \in DOMAIN executed' : i \in DOMAIN executed \/ i = Len(executed) + 1
        BY <3>4
      <3>6. executed'[Len(executed) + 1].cmd = cmd
        BY <3>4
      <3>7. \A p \in DOMAIN cmd : cmd[p] = <<cmd[1][1], p>>
        BY <3>3
      <3> QED BY <3>4, <3>5, <3>6, <3>7 DEF OnePartInv, WholeCommands
    <2> QED BY <2>1, <2>2
  <1> QED BY <1>1, <1>2, <1>3, KindsOfBlocks DEF OnePartInv

(* Every command the SE runs is a whole APDU when an APDU fits in a block, *)
(* whatever the faults (WholeCommands).                                    *)
THEOREM OnePartWholeHolds ==
    ASSUME Disciplined, MaxParts = 1
    PROVE  Spec => []WholeCommands
  <1>1. Init => OnePartInv
    BY KindsOfBlocks
       DEF Init, WireInit, HostInit, CardInit, OnePartInv, WholeCommands, InExchange
  <1>2. TypeOK /\ SeqInv /\ RerunInv /\ OnePartInv /\ [Next]_vars => OnePartInv'
    <2> SUFFICES ASSUME TypeOK, SeqInv, RerunInv, OnePartInv, [Next]_vars
                 PROVE  OnePartInv'
      OBVIOUS
    <2>1. CASE Submit
      <3>1. PICK n \in 1..MaxParts : Start(n)
        BY <2>1 DEF Submit
      <3>2. /\ n = 1 /\ part' = 1 /\ nparts' = 1 /\ hpc = "idle"
            /\ UNCHANGED <<toSE, seIn, seRx, executed>>
        BY <2>1, <3>1 DEF Submit, Start, BeginPart, Disciplined, linkVars
      <3>3. toSE = NoBlock /\ seIn = NoBlock
        BY <3>2 DEF SeqInv, LineInv
      <3> QED BY <3>2, <3>3, KindsOfBlocks DEF OnePartInv, WholeCommands
    <2>2. CASE Host
      BY <2>2, HostOnePart DEF Host
    <2>3. CASE Card
      BY <2>3, CardOnePart DEF Card
    <2>4. CASE Reset
      <3>1. /\ hpc' \in {"idle", "failed"} /\ toSE' = NoBlock /\ seIn' = NoBlock
            /\ seRx' = <<>> /\ executed' = executed
        BY <2>4
           DEF Reset, CardPowerReset, ForgetLink, Setup, SetupNoAtp, SetupNoIfs,
               SetupWrongIfs, SetupOk
      <3> QED BY <3>1, KindsOfBlocks DEF OnePartInv, WholeCommands, InExchange
    <2>5. CASE Finished \/ UNCHANGED vars
      <3>1. UNCHANGED <<wireVars, hostVars, cardVars>>
        BY <2>5 DEF Finished, vars
      <3> QED
        BY <3>1, HostKept, CardKept DEF wireVars, OnePartInv, WholeCommands
    <2> QED BY <2>1, <2>2, <2>3, <2>4, <2>5 DEF Next
  <1>3. OnePartInv => WholeCommands
    BY DEF OnePartInv
  <1> QED
    BY <1>1, <1>2, <1>3, TypeCorrect, SeqInvHolds, RerunInvHolds, PTL DEF Spec

(* The bound of the model on faults. *)
FewFaults == faults <= MaxFaults

LEMMA FaultsBounded == Spec => []FewFaults
  <1>1. Init => FewFaults
    BY BoundsAssumption DEF Init, WireInit, FewFaults
  <1>2. TypeOK /\ FewFaults /\ [Next]_vars => FewFaults'
    <2> SUFFICES ASSUME TypeOK, faults <= MaxFaults, [Next]_vars
                 PROVE  faults' <= MaxFaults
      BY DEF FewFaults
    <2>1. faults \in Nat /\ MaxFaults \in Nat
      BY CountsAreNat, BoundsAssumption
    <2>2. ASSUME NEW b, NEW t \in Transfers(b)
          PROVE  t.faults <= MaxFaults
      BY <2>1 DEF Transfers, CanFault
    <2>3. CASE Submit \/ Reset \/ Finished \/ UNCHANGED vars
      BY <2>1, <2>3
         DEF Submit, Start, Reset, CardPowerReset, Finished, vars, wireVars
    <2>4. CASE Host
      <3>1. \/ faults' = faults \/ (faults' = faults + 1 /\ faults < MaxFaults)
            \/ HostSend
        BY <2>4
           DEF Host, HostStep, HostNoCase, HostTimeout, HostIoError, CanFault,
               HostRecvInconsistent, HostRecvI, HostRecvR, HostRecvRequest,
               HostRecvReset, ReadBlock, wireVars
      <3> QED BY <2>1, <2>2, <3>1 DEF HostSend
    <2>5. CASE Card
      <3>1. faults' = faults \/ \E b : Answer(b)
        BY <2>5
           DEF Card, CardStep, CardTake, CardReject, CardChain, CardExecute,
               CardRetransmit, CardContinue, CardAskAgain, CardResync, CardSoftReset,
               SendFragment, AskHost
      <3> QED BY <2>2, <3>1 DEF Answer
    <2> QED BY <2>3, <2>4, <2>5 DEF Next
  <1> QED
    BY <1>1, <1>2, TypeCorrect, PTL DEF Spec

(* With commands and responses of one block, StEse_Transceive keeps its    *)
(* promise under any number of faults: the SE runs a command at most once  *)
(* more than there were faults, and an exchange that succeeds returns the  *)
(* response to its own command (KeepsPromise).                             *)
THEOREM KeepsPromiseRetryingHolds ==
    ASSUME Disciplined, MaxParts = 1, MaxFrags = 1, MayFail,
           MaxRuns \in Nat, MaxRuns > MaxFaults
    PROVE  Spec => KeepsPromise
  <1> DEFINE Known == /\ TypeOK /\ SeqInv /\ RerunInv /\ FragmentInv /\ ListRead
                      /\ WholeCommands /\ RspInv /\ RerunNeedsFault
                      /\ FewFaults
             Inv == Known /\ FewRuns
  <1>1. Spec => []Known
    BY TypeCorrect, SeqInvHolds, RerunInvHolds, FragmentInvHolds, ListReadHolds,
       OnePartWholeHolds, RspInvHolds, RerunNeedsFaultHolds, FaultsBounded, PTL
  <1>2. Known => FewRuns
    <2> SUFFICES ASSUME Known PROVE FewRuns
      OBVIOUS
    <2> QED
      BY RunsFinite, CountsAreNat, BoundsAssumption DEF RerunNeedsFault, FewRuns,
             FewFaults
  <1>3. Spec => []Inv
    BY <1>1, <1>2, PTL
  <1>4. Inv /\ Inv' /\ [Next]_vars => [Promise!Next]_(Promise!vars)
    BY StepRefines DEF Excused
  <1> QED
    BY <1>3, <1>4, InitRefines, PTL DEF Spec, KeepsPromise, Promise!Spec
=============================================================================
