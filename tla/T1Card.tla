------------------------------- MODULE T1Card -------------------------------
(***************************************************************************)
(* The secure element's end of the T=1 line.  It is not part of the        *)
(* repository: the module is the ISO/IEC 7816-3 behaviour T1protocol.cc    *)
(* relies on.  A response the SE still owes is kept as the run it belongs  *)
(* to, the next fragment to send and the number of fragments.              *)
(***************************************************************************)
EXTENDS T1Wire

VARIABLES
    seVR,      \* N(S) of the next new host I-block
    seVS,      \* N(S) of the next new I-block of the SE
    seRx,      \* payloads of the command chain received so far
    seRun, seNext, seTotal,  \* response owed: run, next fragment, fragments
    seAsk,     \* S-requests still to make before the first fragment
    seWait,    \* an S-request of the SE awaits its answer
    lastI,     \* last I-block sent, kept for retransmission
    executed,  \* ghost: every run, its command as received and its response
    resyncs    \* ghost: RESYNCH requests honoured for the current APDU

linkVars == <<seVR, seVS, seRx>>
oweVars  == <<seRun, seNext, seTotal, seAsk, seWait, lastI>>
cardVars == <<linkVars, oweVars, executed, resyncs>>

CardInit ==
    /\ seVR = 0 /\ seVS = 0 /\ seRx = <<>>
    /\ seRun = 0 /\ seNext = 1 /\ seTotal = 0 /\ seAsk = 0
    /\ seWait = FALSE /\ lastI = NoBlock
    /\ executed = <<>> /\ resyncs = 0

Run == [cmd : Seq(Payload), frags : Nat]

CardTypeOK ==
    /\ seVR \in Bit /\ seVS \in Bit /\ seRx \in Seq(Payload)
    /\ seRun \in Nat /\ seNext \in Nat /\ seTotal \in Nat /\ seAsk \in Nat
    /\ seWait \in BOOLEAN /\ lastI \in Block
    /\ executed \in Seq(Run) /\ resyncs \in Nat

-----------------------------------------------------------------------------
(* The answer leaves only when the host has read the previous one. *)
Answer(b) ==
    /\ toHost = NoBlock
    /\ \E t \in Transfers(b) : toHost' = t.block /\ faults' = t.faults
    /\ seIn' = NoBlock
    /\ UNCHANGED toSE

OweNothing ==
    /\ seNext' = 1 /\ seTotal' = 0 /\ seAsk' = 0
    /\ seWait' = FALSE /\ lastI' = NoBlock
    /\ UNCHANGED seRun

SendFragment(run, next, total) ==
    LET b == IBlock(seVS, next < total, <<run, next>>)
    IN  /\ Answer(b)
        /\ lastI' = b
        /\ seVS' = Flip(seVS)
        /\ seRun' = run /\ seNext' = next + 1 /\ seTotal' = total
        /\ seAsk' = 0 /\ seWait' = FALSE

(* Before its first fragment the SE may ask for time or, under "request",  *)
(* for something else.                                                     *)
AskHost(run, total, left) ==
    /\ \E k \in IF "request" \in FaultKinds THEN AskKinds ELSE {"S_WTX_REQ"} :
          Answer(SBlock(k))
    /\ seRun' = run /\ seNext' = 1 /\ seTotal' = total
    /\ seAsk' = left /\ seWait' = TRUE
    /\ lastI' = NoBlock
    /\ UNCHANGED seVS

-----------------------------------------------------------------------------
CardTake ==
    /\ toSE # NoBlock
    /\ seIn = NoBlock
    /\ seIn' = toSE
    /\ toSE' = NoBlock
    /\ UNCHANGED <<toHost, faults, cardVars>>

(* The last block sent is the one the host asks for again. *)
AsksAgain == seIn.kind = "R" /\ lastI # NoBlock /\ seIn.seq # seVS

(* Nothing can be done with the block: say which I-block is expected. *)
CardReject ==
    /\ \/ seIn.kind = "GARBLED" /\ ~seWait
       \/ seIn.kind = "I" /\ seIn.seq # seVR
       \/ seIn.kind = "R" /\ ~AsksAgain /\ ~seWait /\ seNext > seTotal
       \/ seIn.kind = "S_WTX_RES" /\ ~seWait
    /\ Answer(RBlock(seVR))
    /\ UNCHANGED cardVars

(* A new I-block of a chain that goes on. *)
CardChain ==
    /\ seIn.kind = "I" /\ seIn.seq = seVR /\ seIn.more
    /\ seRx' = Append(seRx, seIn.data)
    /\ seVR' = Flip(seVR)
    /\ OweNothing
    /\ Answer(RBlock(Flip(seVR)))
    /\ UNCHANGED <<seVS, executed, resyncs>>

(* The last I-block of a command: run it and answer. *)
CardExecute ==
    /\ seIn.kind = "I" /\ seIn.seq = seVR /\ ~seIn.more
    /\ \E total \in 1..MaxFrags, ask \in 0..MaxAsk :
        /\ executed' = Append(executed, [cmd   |-> Append(seRx, seIn.data),
                                         frags |-> total])
        /\ IF ask = 0 THEN SendFragment(Len(executed) + 1, 1, total)
                      ELSE AskHost(Len(executed) + 1, total, ask - 1)
    /\ seRx' = <<>>
    /\ seVR' = Flip(seVR)
    /\ UNCHANGED resyncs

(* R(N(R)) with N(R) the last block sent: send it again. *)
CardRetransmit ==
    /\ AsksAgain
    /\ Answer(lastI)
    /\ UNCHANGED cardVars

(* R(N(R)) with N(R) the next block, or the answer to the SE's request. *)
CardContinue ==
    /\ \/ seIn.kind = "R" /\ ~AsksAgain /\ ~seWait /\ seNext <= seTotal
       \/ seIn.kind = "S_WTX_RES" /\ seWait /\ seAsk = 0
    /\ SendFragment(seRun, seNext, seTotal)
    /\ UNCHANGED <<seVR, seRx, executed, resyncs>>

(* The request was not answered yet, or there is another one to make. *)
CardAskAgain ==
    /\ seWait
    /\ \/ seIn.kind \in {"R", "GARBLED"} /\ AskHost(seRun, seTotal, seAsk)
       \/ seIn.kind = "S_WTX_RES" /\ seAsk > 0 /\ AskHost(seRun, seTotal, seAsk - 1)
    /\ UNCHANGED <<seVR, seRx, executed, resyncs>>

ForgetLink == seVR' = 0 /\ seVS' = 0 /\ seRx' = <<>> /\ OweNothing

(* RESYNCH and software reset both put the link back to its first state. *)
CardResync ==
    /\ seIn.kind = "S_RESYNC_REQ"
    /\ ForgetLink
    /\ Answer(SBlock("S_RESYNC_RES"))
    /\ resyncs' = resyncs + 1
    /\ UNCHANGED executed

CardSoftReset ==
    /\ seIn.kind = "S_SWRESET_REQ"
    /\ ForgetLink
    /\ Answer(SBlock("S_SWRESET_RES"))
    /\ UNCHANGED <<executed, resyncs>>

(* The reset line of the SPI driver: also empties the wire. *)
CardPowerReset ==
    /\ ForgetLink
    /\ toSE' = NoBlock /\ seIn' = NoBlock /\ toHost' = NoBlock
    /\ UNCHANGED <<faults, executed, resyncs>>

CardStep ==
    \/ CardTake \/ CardReject \/ CardChain \/ CardExecute
    \/ CardRetransmit \/ CardContinue \/ CardAskAgain
    \/ CardResync \/ CardSoftReset
=============================================================================
