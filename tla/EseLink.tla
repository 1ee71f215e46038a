------------------------------ MODULE EseLink ------------------------------
(***************************************************************************)
(* One transfer over the SPI line, byte by byte and against the clock:     *)
(* SpiLayerInterface_transcieveTpdu and SpiLayerInterface_setup with all   *)
(* they call in SpiLayerComm.cc and SpiLayerDriver.cc.                     *)
(*                                                                         *)
(* Time passes in ticks of half a millisecond, so that the truncation of   *)
(* Utils_getElapsedTimeInMs shows.  gettimeofday reads a wall clock that   *)
(* anybody may set; each timestamp the code keeps is the pair of its true  *)
(* age and of its age by the wall clock.  A usleep is one step that lets   *)
(* its time pass: the host observes nothing in between.                    *)
(***************************************************************************)
EXTENDS T1Codec, FiniteSets

CONSTANTS
    Pwt,         \* DEFAULT_PWT in ms, scaled down
    Second,      \* milliseconds in a second, scaled down
    Bwts,        \* block waiting times (ms) an ATP may announce
    MayBeLrc,    \* may an ATP announce an LRC?
    Ifsc,        \* the ifsc the SE announces
    Jumps,       \* ticks by which the wall clock may be set forth or back
    MaxFaults,   \* bound: reads and writes of which attempts fail, or that are
                 \* cut short, answers damaged and settings of the clock,
                 \* together, during a call
    Horizon      \* waits beyond this many ticks are not told apart

Ticks(ms) == 2 * ms

ASSUME LinkAssumption ==
    /\ Pwt \in Nat \ {0} /\ Second \in Nat \ {0} /\ Horizon \in Nat
    /\ Bwts \subseteq Word /\ MayBeLrc \in BOOLEAN /\ Ifsc \in Byte \ {0}
    /\ Jumps \subseteq Int
    /\ MaxFaults \in Nat

VARIABLES
    (* the host *)
    pc,             \* what runs: see Steps
    setup,          \* is the transfer part of SpiLayerInterface_setup?
    linkReady,      \* ghost: did a setup succeed, so that exchanges follow?
    currentMode,    \* "RX" or "TX"
    tries, rc,      \* retries and the last failing result in a driver call
    header,         \* nad, pcb and len read of a response
    ATP,
    result,         \* of the last transcieveTpdu or setup
    got,            \* the bytes of the block it returned
    (* time *)
    phase,          \* ticks since the wall clock's second began
    lastRxTxTime, startTime,
    (* the SE and the line *)
    se,             \* "quiet", "booting" or "working" on an answer
    out,            \* the bytes the SE shifts out next, zeros follow
    waiting,        \* has it another block to answer after that?
    offered,        \* ghost: the answer the host has not read
    spoilt,         \* ghost: was a byte of it damaged, or read and thrown away?
    faults

kept       == <<setup, linkReady, ATP, got>>
driverVars == <<currentMode, tries, rc>>
timeVars   == <<phase, lastRxTxTime, startTime>>
seVars     == <<se, out, waiting, offered, spoilt>>
vars == <<pc, setup, linkReady, driverVars, header, ATP, result, got, timeVars, seVars, faults>>

Steps == {"idle", "pwt", "atpLength", "atpRest", "write", "poll", "header", "rest"}
Reads == {"atpLength", "atpRest", "poll", "header", "rest"}
Mode(step) == IF step = "write" THEN "TX" ELSE "RX"

-----------------------------------------------------------------------------
(* Time. *)
Now == [age |-> 0, wall |-> 0]

AtMost(n, cap) == IF n > cap THEN cap ELSE n

(* A timestamp after so many ticks and a setting of the clock. *)
Later(t, ticks, set, cap) ==
    [age  |-> AtMost(t.age + ticks, cap),
     wall |-> AtMost(t.wall + ticks + set, cap)]

(* The wall clock now, far enough from 0 for every timestamp kept. *)
WallNow == Ticks(Second) * (1 + Horizon) + phase
SecondsSince(t) ==
    (WallNow \div Ticks(Second)) - ((WallNow - t.wall) \div Ticks(Second))

(* Division of C: toward zero. *)
Truncated(a, b) == IF a < 0 THEN -((-a) \div b) ELSE a \div b

(* Utils_getElapsedTimeInMs, of a timestamp and now. *)
Elapsed(t) ==
    SecondsSince(t) * Second
      + Truncated((WallNow % Ticks(Second)) - ((WallNow - t.wall) % Ticks(Second)),
                  Ticks(1))

(* Its result in an unsigned int: a negative one is beyond every limit. *)
HugeMs == 2^30
Unsigned(ms) == IF ms < 0 THEN HugeMs ELSE ms

BWT_THRESHOLD == 65535
DEFAULT_NBWT == 1
MIN_TIME_BETWEEN_MODE_SWITCH == 1

ExpiredEarly ==   \* mutant: the wait ends with the block waiting time itself
    ATP.bwt < BWT_THRESHOLD /\ Unsigned(Elapsed(startTime)) >= ATP.bwt * DEFAULT_NBWT

ExpiredUnlessShort ==   \* mutant: the threshold is compared the other way round
    ATP.bwt >= BWT_THRESHOLD /\ Unsigned(Elapsed(startTime)) > ATP.bwt * DEFAULT_NBWT

Expired ==
    ATP.bwt < BWT_THRESHOLD /\ Unsigned(Elapsed(startTime)) > ATP.bwt * DEFAULT_NBWT

SwitchDelayNone(ms) == 0   \* mutant: no time is left to the SE

(* An int here: the clock set back makes the wait as long as the jump. *)
SwitchDelay(ms) ==
    IF ms < MIN_TIME_BETWEEN_MODE_SWITCH THEN MIN_TIME_BETWEEN_MODE_SWITCH - ms ELSE 0

CountTwice(n) == n + 2   \* mutant: a read of no byte is counted twice
CountAttempt(n) == n + 1

RetryDelay(r, n) == IF r < 0 THEN <<2, 3, 5>>[n + 1] ELSE 4
PollInterval == 1

Init ==
    /\ pc = "idle" /\ setup = FALSE /\ linkReady = FALSE
    /\ currentMode = "RX" /\ tries = 0 /\ rc = 0
    /\ header = <<>> /\ ATP = DefaultAtp
    /\ result = "failed" /\ got = <<>>
    /\ phase = 0
    /\ lastRxTxTime = Now /\ startTime = Now
    /\ se = "quiet" /\ out = <<>> /\ waiting = FALSE
    /\ offered = <<>> /\ spoilt = FALSE
    /\ faults = 0

(* Time passes, and the clock may be set: the timestamps io and start as   *)
(* they are then.  startTime is a local variable of two functions.         *)
Waits == {"pwt", "poll"}

TimePasses(io, start, ticks, set) ==
    /\ phase' = (phase + ticks + set) % Ticks(Second)
    /\ lastRxTxTime' = Later(io, ticks, set, Ticks(MIN_TIME_BETWEEN_MODE_SWITCH))
    /\ startTime' = IF pc' \in Waits THEN Later(start, ticks, set, Horizon) ELSE Now

Usleep(ms) == TimePasses(lastRxTxTime, startTime, Ticks(ms), 0)

Faulty == faults < MaxFaults /\ faults' = faults + 1

(* Half a millisecond passes. *)
Tick ==
    /\ UNCHANGED <<pc, kept, driverVars, header, result, seVars, faults>>
    /\ TimePasses(lastRxTxTime, startTime, 1, 0)

(* Someone sets the clock. *)
SetClock ==
    /\ Faulty
    /\ UNCHANGED <<pc, kept, driverVars, header, result, seVars>>
    /\ \E jump \in Jumps : TimePasses(lastRxTxTime, startTime, 0, jump)

-----------------------------------------------------------------------------
(* The SE and the line.                                                    *)
AtpOf(bwt, type) ==
    LET fields == <<EXPECTED_ATP_LENGTH, 1, 2, 3, 4, 5, bwt \div 256, bwt % 256,
                    6, 7, 8, 9, type, Ifsc>> \o [i \in 1 .. 22 |-> 0]
    IN  fields \o ChecksumBytes(ComputeCrc(fields))

Atps == {AtpOf(bwt, 1) : bwt \in Bwts} \cup (IF MayBeLrc THEN {AtpOf(0, 0)} ELSE {})

(* The answers to a block: an R-block, and an I-block one byte of which    *)
(* could be taken for the start of a frame.                                *)
ExchangeAnswers ==
    {ToByteArray(FormTpdu(NAD_SLAVE_TO_HOST, RBlockPcb(0, "ErrorFree"), <<>>)),
     ToByteArray(FormTpdu(NAD_SLAVE_TO_HOST, IBlockPcb(1, TRUE), <<NAD_SLAVE_TO_HOST>>))}

IfsAnswers ==
    {ToByteArray(FormTpdu(NAD_SLAVE_TO_HOST, ResponseTo(SBLOCK_IFS_REQUEST), <<Ifsc>>))}

(* One byte of an answer may change on its way: to an idle byte, to what   *)
(* starts a frame, or by one bit.  Of an ATP these are a bit of the bwt or *)
(* of the checksum type, and the length: only to what the code refuses.    *)
Noise(byte) == {0, NAD_SLAVE_TO_HOST, FlipBit(byte, 4)} \ {byte}

Damaged(bytes) ==
    IF bytes \in Atps
    THEN {[bytes EXCEPT ![1] = 0]} \cup
         {[bytes EXCEPT ![i] = FlipBit(bytes[i], 0)] : i \in {8, 13}}
    ELSE UNION {{[bytes EXCEPT ![i] = b] : b \in Noise(bytes[i])} : i \in DOMAIN bytes}

Passages(bytes) ==
    {[bytes |-> bytes, faults |-> faults]} \cup
    {[bytes |-> d, faults |-> faults + 1] :
       d \in IF faults < MaxFaults THEN Damaged(bytes) ELSE {}}

Offers(answers) ==
    /\ se' = "quiet"
    /\ \E bytes \in answers : \E p \in Passages(bytes) :
         /\ out' = p.bytes /\ faults' = p.faults
         /\ offered' = bytes
         /\ spoilt' = (p.bytes # bytes)
    /\ UNCHANGED <<pc, kept, driverVars, header, result, timeVars, waiting>>

SeOffersAtp == se = "booting" /\ Offers(Atps)

(* After a setup that failed, an exchange may be answered what the IFS     *)
(* request was asked.                                                      *)
SeAnswers ==
    /\ se = "working"
    /\ Offers(IF setup THEN IfsAnswers ELSE ExchangeAnswers \cup IfsAnswers)

(* n bytes of what the SE shifts out. *)
Shifted(n) == [i \in 1 .. n |-> IF i <= Len(out) THEN out[i] ELSE 0]
ShiftOut(n) ==
    /\ out' = SubSeq(out, AtMost(n, Len(out)) + 1, Len(out))
    /\ UNCHANGED <<se, waiting>>

(* They are part of an answer, they are thrown away, or they are the end   *)
(* of a whole answer.                                                      *)
ReadOn(n)   == ShiftOut(n) /\ UNCHANGED <<offered, spoilt>>
ReadAway(n) == ShiftOut(n) /\ UNCHANGED offered /\ spoilt' = (offered # <<>>)
ReadOut(n)  == ShiftOut(n) /\ offered' = <<>> /\ spoilt' = FALSE

(* The SE starts on something new and forgets what it had to say. *)
SeTurnsTo(state) ==
    /\ se' = state /\ out' = <<>> /\ waiting' = FALSE
    /\ offered' = <<>> /\ spoilt' = FALSE

(* An SE that is given a block while it is at something, or has an answer  *)
(* the host did not read, turns to the block or answers it afterwards: the *)
(* host then reads the late answer as if it were that to the block.  It    *)
(* has room for one block that waits.                                      *)
SeTakesBlock ==
    \/ SeTurnsTo("working")
    \/ /\ se # "quiet" \/ out # <<>>
       /\ waiting' = TRUE
       /\ UNCHANGED <<se, out, offered, spoilt>>

(* Not between the reads of one block, which follow each other at once. *)
SeGoesOn ==
    /\ waiting /\ se = "quiet" /\ out = <<>>
    /\ pc \notin {"header", "rest"}
    /\ SeTurnsTo("working")
    /\ UNCHANGED <<pc, kept, driverVars, header, result, timeVars, faults>>

-----------------------------------------------------------------------------
(* SpiLayerDriver_read and SpiLayerDriver_write: the wait when the         *)
(* direction changes, then up to three attempts.  The code goes on in the  *)
(* action that handles what the call returns.                              *)
Transfers == Reads \cup {"write"}

Ready(steps) == pc \in steps /\ currentMode = Mode(pc) /\ tries < 3

(* To the next step, with the timestamp io and a delay before it. *)
MoveTo(step, io, delay) ==
    /\ pc' = step
    /\ TimePasses(io, IF pc = step THEN startTime ELSE Now, Ticks(delay), 0)
    /\ tries' = 0 /\ rc' = 0 /\ UNCHANGED currentMode

(* A driver call has just returned. *)
GoTo(step, delay) == MoveTo(step, Now, delay) /\ UNCHANGED <<result, header, faults>>

EndWith(r) ==
    /\ MoveTo("idle", Now, 0) /\ result' = r
    /\ header' = <<>>
    /\ faults' = 0

SwitchMode ==
    /\ pc \in Transfers /\ currentMode # Mode(pc)
    /\ currentMode' = Mode(pc)
    /\ UNCHANGED <<pc, kept, tries, rc, header, result, seVars, faults>>
    /\ Usleep(SwitchDelay(Elapsed(lastRxTxTime)))

AttemptFails ==
    /\ Ready(Transfers)
    /\ IF tries = 0 THEN Faulty ELSE UNCHANGED faults
    /\ rc' \in {-1, 0}
    /\ tries' = CountAttempt(tries)
    /\ UNCHANGED <<pc, kept, currentMode, header, result, seVars>>
    /\ Usleep(RetryDelay(rc', tries))

(* Three attempts failed.  SpiLayerComm_waitForAtpLength tests for -1      *)
(* only: after a read of no byte it goes on with what is in spiLecture,    *)
(* which may be a value it refuses or a length.                            *)
GiveUp ==
    /\ pc \in Transfers /\ tries = 3
    /\ \/ /\ EndWith("failed")
          /\ IF pc \in {"atpRest", "header", "rest"} THEN ReadAway(0) ELSE UNCHANGED seVars
       \/ pc = "atpLength" /\ rc = 0 /\ GoTo("atpRest", 0) /\ UNCHANGED seVars
    /\ UNCHANGED kept

(* A read or write that moves some bytes of those asked for: every caller  *)
(* that asked for more than one returns -1.                                *)
CutShort ==
    /\ Ready({"header", "rest", "atpRest", "write"}) /\ faults < MaxFaults
    /\ EndWith("failed")
    /\ IF pc = "write" THEN SeTakesBlock \/ UNCHANGED seVars ELSE ReadAway(1)
    /\ UNCHANGED kept

-----------------------------------------------------------------------------
(* SpiLayerDriver_open, again after StEse_close.  What the last call did   *)
(* last is forgotten.                                                      *)
Open ==
    /\ pc = "idle"
    /\ currentMode' = "RX"
    /\ UNCHANGED <<pc, kept, tries, rc, header, result, seVars, faults>>
    /\ TimePasses(Now, startTime, 0, 0)

(* SpiLayerInterface_setup. *)
BeginSetup ==
    /\ pc = "idle"
    /\ setup' = TRUE /\ got' = <<>> /\ result' = "pending"
    /\ MoveTo("pwt", lastRxTxTime, 0)
    /\ SeTurnsTo("booting")
    /\ UNCHANGED <<linkReady, header, ATP, faults>>

(* The ioctl of SpiLayerDriver_reset fails. *)
SetupNoReset ==
    /\ pc = "idle" /\ MaxFaults > 0
    /\ result' = "failed"
    /\ UNCHANGED <<pc, kept, driverVars, header, timeVars, seVars, faults>>

PwtOver ==
    /\ pc = "pwt" /\ Unsigned(Elapsed(startTime)) >= Pwt
    /\ MoveTo("atpLength", lastRxTxTime, 0)
    /\ UNCHANGED <<kept, header, result, seVars, faults>>

ReadAtpLength ==
    /\ Ready({"atpLength"})
    /\ IF Shifted(1)[1] \in {0, 255} THEN ReadAway(1) /\ EndWith("failed")
                                    ELSE ReadOn(1) /\ GoTo("atpRest", 0)
    /\ UNCHANGED kept

AtpAfterUnchecked(atp, ok) == AtpFields(atp)   \* mutant: ATP is filled in at once

(* The end of Atp_setAtp: ATP is assigned when every check has passed.     *)
AtpAfter(atp, ok) == IF ok THEN AtpFields(atp) ELSE ATP

(* Atp_setAtp, T1protocol_resetSequenceNumbers (see T1Host) and the IFS    *)
(* request, which cannot be formed with an LRC.                            *)
ReadAtpRest ==
    /\ Ready({"atpRest"})
    /\ \E atp \in {<<EXPECTED_ATP_LENGTH>> \o Shifted(EXPECTED_ATP_LENGTH)} :
       \E ok \in {AtpOk(atp)} :
         /\ ATP' = AtpAfter(atp, ok)
         /\ IF ok THEN ReadOut(EXPECTED_ATP_LENGTH) ELSE ReadAway(EXPECTED_ATP_LENGTH)
         /\ IF ok /\ ATP'.crc THEN GoTo("write", 0) ELSE EndWith("failed")
    /\ UNCHANGED <<setup, linkReady, got>>

-----------------------------------------------------------------------------
(* SpiLayerInterface_transcieveTpdu.  With an LRC no block is formed.      *)
BeginExchange ==
    /\ pc = "idle" /\ linkReady /\ ATP.crc
    /\ setup' = FALSE /\ got' = <<>> /\ result' = "pending"
    /\ MoveTo("write", lastRxTxTime, 0)
    /\ UNCHANGED <<linkReady, header, ATP, seVars, faults>>

WriteTpdu ==
    /\ Ready({"write"})
    /\ SeTakesBlock
    /\ GoTo("poll", PollInterval)
    /\ UNCHANGED kept

StartOfFrameAny(byte) == byte # 0   \* mutant: whatever is not idle starts a frame
StartOfFrame(byte) == byte = NAD_SLAVE_TO_HOST

(* One turn of the loop of SpiLayerComm_waitForResponse; the time is       *)
(* looked at after the byte.                                               *)
Poll ==
    /\ Ready({"poll"})
    /\ IF StartOfFrame(Shifted(1)[1]) THEN ReadOn(1) /\ GoTo("header", 0)
       ELSE /\ ReadAway(1)
            /\ IF Expired THEN EndWith("timeout") ELSE GoTo("poll", PollInterval)
    /\ UNCHANGED kept

ReadHeader ==
    /\ Ready({"header"})
    /\ ReadOn(2)
    /\ header' = <<NAD_SLAVE_TO_HOST>> \o Shifted(2)
    /\ MoveTo("rest", Now, 0)
    /\ UNCHANGED <<kept, result, faults>>

(* SpiLayerComm_readTpdu, and what handleTpduResponse makes of the block:  *)
(* it is refused or it is the answer.  The ifsc of the SE's answer to the  *)
(* IFS request becomes that of the ATP; a setup that refuses the answer    *)
(* succeeds all the same (see T1Host, SetupWrongIfs).                      *)
ReadRest ==
    /\ Ready({"rest"})
    /\ LET n == header[3] + 2
           tpdu == FromBytes(header, Shifted(n))
           ok == BlockOk(tpdu, ATP.ifsc)
                   /\ (setup => tpdu.pcb = ResponseTo(SBLOCK_IFS_REQUEST))
       IN  /\ IF ok THEN ReadOut(n) ELSE ReadAway(n)
           /\ EndWith(IF ok THEN "delivered" ELSE "refused")
           /\ got' = IF ok THEN header \o Shifted(n) ELSE <<>>
           /\ ATP' = IF ok /\ setup THEN [ATP EXCEPT !.ifsc = tpdu.data[1]] ELSE ATP
    /\ linkReady' = (linkReady \/ setup)
    /\ UNCHANGED setup

-----------------------------------------------------------------------------
Host == \/ SwitchMode \/ AttemptFails \/ GiveUp \/ CutShort
        \/ PwtOver \/ ReadAtpLength \/ ReadAtpRest
        \/ WriteTpdu \/ Poll \/ ReadHeader \/ ReadRest

Call == Open \/ BeginSetup \/ SetupNoReset \/ BeginExchange

Next == Host \/ Call \/ Tick \/ SetClock \/ SeOffersAtp \/ SeAnswers \/ SeGoesOn

Spec == Init /\ [][Next]_vars

(* The processor runs the host and time passes; nobody has to call, and    *)
(* the SE may stay silent for ever.                                        *)
FairSpec == Spec /\ WF_vars(Host) /\ WF_vars(Tick)

-----------------------------------------------------------------------------
Time == [age : Nat, wall : Int]

TypeOK ==
    /\ pc \in Steps /\ setup \in BOOLEAN /\ linkReady \in BOOLEAN
    /\ currentMode \in {"RX", "TX"} /\ tries \in 0 .. 3 /\ rc \in {-1, 0}
    /\ header \in {<<>>} \cup [1 .. 3 -> Byte]
    /\ ATP \in [bwt : Nat, crc : BOOLEAN, ifsc : Byte]
    /\ result \in {"pending", "delivered", "refused", "timeout", "failed"}
    /\ got \in Seq(Byte)
    /\ phase \in 0 .. Ticks(Second) - 1
    /\ lastRxTxTime \in Time /\ startTime \in Time
    /\ se \in {"quiet", "booting", "working"}
    /\ out \in Seq(Byte) /\ waiting \in BOOLEAN
    /\ offered \in Seq(Byte) /\ spoilt \in BOOLEAN
    /\ faults \in 0 .. MaxFaults

(* The wall clock was left alone since the timestamp was taken. *)
Untouched(t) == t.wall = t.age

(* SpiLayerComm_waitForResponse: a call times out only when more than the  *)
(* block waiting time has passed since the block was written, whatever the *)
(* rounding of Utils_getElapsedTimeInMs and however often the driver had   *)
(* to try -- unless someone set the clock in between -- and never when the *)
(* SE announced that it needs no limit.                                    *)
TimesOutLate ==
    [][(result' = "timeout" /\ result # "timeout") =>
         /\ ATP.bwt < BWT_THRESHOLD
         /\ Untouched(startTime) /\ startTime.age < Horizon => startTime.age > Ticks(ATP.bwt)]_vars

(* SpiLayerDriver_read and SpiLayerDriver_write: the first transfer in the *)
(* other direction leaves the SE its turnaround time, unless someone set   *)
(* the clock or, by the rounding, a second of the clock has begun since.   *)
TurnaroundKept ==
    [][(pc \in Transfers /\ currentMode' # currentMode
          /\ Untouched(lastRxTxTime) /\ SecondsSince(lastRxTxTime) = 0) =>
         lastRxTxTime'.age >= Ticks(MIN_TIME_BETWEEN_MODE_SWITCH)]_vars

(* Atp_setAtp: whatever is damaged, cut short or read without a byte, the  *)
(* ATP in use is the one of the build or one the SE really sent.           *)
AtpIntact ==
    ATP \in {DefaultAtp} \cup {AtpFields(a) : a \in Atps}

(* A call ends, whatever fails and whoever sets the clock, even if the SE  *)
(* never answers -- if its block waiting time is below the threshold.      *)
TransferEnds ==
    pc # "idle" ~> (pc = "idle" \/ (pc = "poll" /\ ATP.bwt >= BWT_THRESHOLD))
=============================================================================
