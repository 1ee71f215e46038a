# Formal verification of the ST secure element HAL

TLA+ models of the Android HIDL service for the ST54 secure element (`src/1.0`,
`src/1.1`) and of its SPI driver (`src/ese-spi-driver`), checked with TLC and, for the
properties that matter most, proved with TLAPS. `PROJECT.json` lists the components, the
runs, the source lines behind each definition, the hazards, the findings and the theorems.

## The system

| Component | State | Operations | Talks to |
|---|---|---|---|
| HIDL service (`1.x/SecureElement.cpp`) | `mOpenedChannels`, `mOpenedchannelCount`, the callback, two flags "an open is in progress" | `init`, `init_1_1`, `transmit`, `openLogicalChannel`, `openBasicChannel`, `closeChannel`, `serviceDied` | client (binder calls, callbacks), StEseApi |
| Service process (`1.x/StEseService.cpp`) | none | `main`: one binder thread; init restarts it when it dies | |
| StEseApi | `ese_ctxt` (open or closed, device), a mutex | `StEse_init`, `StEse_Transceive`, `StEse_Reset`, `StEse_close` | T1protocol, SpiLayerInterface |
| T1protocol | `SEQ_NUM_MASTER`, `SEQ_NUM_SLAVE`, `recoveryStatus`, `gNextCmd` | one exchange of an APDU part: the send loop, the handlers of I-, R- and S-blocks, recovery, IFS request | SpiLayerInterface, DataMgmt |
| SpiLayerInterface, SpiLayerComm, SpiLayerDriver | `mFirstActivation`, `spiDeviceId`, `currentMode`, last transfer time, `ATP` | write a TPDU, wait for the answer, read it, reset pulse and ATP, open, close | kernel driver, secure element (SE) |
| DataMgmt | a static list of received fragments, its total length | store, get and empty | |
| TPDU codec, ATP, CRC, CommandApdu, configuration, logging | `ATP`; configuration values | pure functions, parsing, output | |

One binder thread runs every method and `serviceDied` from start to end, so methods never
interleave. What does happen between any two steps: the SE works on its own, the client
dies, the service is killed and restarted, a transfer is lost or damaged. The hard parts
are therefore not thread races but

* a transfer over SPI: polling against a wall clock, retries, partial reads, frames found by
  one byte in a stream that may be damaged;
* the T=1 conversation: two pairs of one-bit sequence numbers, retransmission, RESYNCH and
  software reset, each of which may itself be lost, damaged or answered late;
* state that outlives an exchange and is not reset with it: the list of fragments, the
  sequence numbers, `recoveryStatus`, the table of channels, `mFirstActivation`;
* the channel table against the SE's own channels when a step of several fails;
* processes that die between the steps.

What makes each part correct: for T=1, agreement of the sequence numbers between
exchanges, whole commands, responses that belong to their command, no needless second run,
recovery that ends and is given up only after its three steps; for the service, a count
that equals the table, a table that equals the SE's, sessions that stay usable until the
client is told otherwise, an SE that is closed with its last channel and not before; for
the process, that it goes on. For a transfer: an answer read once and only intact, the answer
to an earlier block only after a call that ended without it, a timeout only after the waiting time, the turnaround time of the SE, an end. For the data: parts that
make up the command, a list whose length is what it holds.

## Modules

| Module | Models | Uses |
|---|---|---|
| `T1Wire` | blocks, what a transfer may do to one, the three places of a block | |
| `T1Host` | `T1protocol.cc`, `StEse_Transceive`, `StEse_Reset`, the list of `DataMgmt.cc` | `T1Wire` |
| `T1Card` | the SE's end of the line (external, ISO/IEC 7816-3) | `T1Wire` |
| `T1Protocol` | the three together, and the properties of exchanges | `T1Host`, `T1Card` |
| `ApduExchange` | abstract: what `StEse_Transceive` promises (`StEseApi.h:67-80`) | |
| `T1Refinement` | `T1Protocol` implements `ApduExchange` | `T1Protocol` |
| `T1Codec` | the bytes: CRC, PCB, TPDU, the checks of a received block, the ATP | |
| `EseLink` | one transfer and one setup over SPI, in bytes and time: `SpiLayerInterface.cc`, `SpiLayerComm.cc`, `SpiLayerDriver.cc`, `Utils_getElapsedTimeInMs` | `T1Codec` |
| `BlockTransfer` | abstract: what a transfer promises the T=1 protocol | |
| `LinkRefinement` | `EseLink` implements `BlockTransfer` | `EseLink` |
| `ApduData` | lengths: `StEse_Transceive` cutting a command, `DataMgmt.cc` joining a response | |
| `SecureElementHal` | both `SecureElement.cpp`, `StEse_init/close`, `SpiLayerInterface_init`, death and restart | |
| `ChannelService` | abstract: what the service promises a client of its channels | |
| `HalRefinement` | `SecureElementHal` implements `ChannelService`, fairness and liveness | `SecureElementHal` |
| `T1ProtocolProofs`, `T1RecoveryProofs`, `T1PromiseProofs` | theorems about `T1Protocol` and `T1Refinement`, each module building on the one before | |
| `EseLinkProofs`, `LinkRefinementProofs`, `ApduDataProofs` | theorems about `EseLink` (with the codec), `LinkRefinement`, `ApduData` | `Loops` |
| `SecureElementHalProofs` | theorems about `SecureElementHal` and `HalRefinement` | |
| `Loops` | lemmas: induction over the turns of a loop, for the recursive functions | |

The layers meet in their abstract specifications. `HalRefinement` takes an exchange to be its
outcome and its effect on the SE, which is what `ApduExchange` allows; `T1Host` takes a transfer to
deliver a block as it was sent, `GARBLED`, late (as if it were the answer to the next block) or not at
all, which is what `BlockTransfer` allows and `EseLink` is shown to do; `ApduData` refines the parts and fragments that `T1Host` counts
to lengths.

A definition marked "mutant" is a plausible mistake kept beside the definition it would
replace; nothing uses it. It documents what each property would catch.

### T=1: how state and actions correspond to the code

`hpc` is where the one thread is: `send` at the `switch` of `T1protocol_transcieveApduPart`,
`wait` in `SpiLayerComm_waitForResponse`, `idle` outside after a success, `failed` after
-1. A turn of the loop is `HostSend` (or `HostNoCase`) and one of the reading actions:
`HostRecvI`, `HostRecvR`, `HostRecvRequest`, `HostRecvReset` are `processIBlock`,
`processRBlock` and the cases of `processSBlock`; `HostRecvInconsistent` is a block that
`checkTpduConsistency` refuses; `HostTimeout` is `bytesRead == 0`; `HostIoError` is a driver
call that fails after its retries. The handler of the block that completes a part also does
what follows in the same call: the sequence numbers, `DataMgmt_GetData`, and the next part
(`EndPart`). `gNextCmd`, `recoveryStatus`, `SEQ_NUM_MASTER` and `SEQ_NUM_SLAVE` keep their
names; `orig` is the PCB of `originalCmdTpdu`, whose N(S) bit a RESYNCH clears; `rxList` is
the list of `DataMgmt.cc`, `rsp` is `pRsp`.

`Setup*` are the outcomes of `StEse_Reset`: no ATP (sequence numbers kept), no answer to the
IFS request or a driver call that fails (`SetupNoIfs`), a damaged answer (reported as success unless recovery is at its end), success.
A reset whose `ioctl` fails changes nothing and is left out here (`SetupNoReset` of `EseLink`).

A block is its kind, one sequence bit, the chaining bit and a payload: `<<APDU, part>>` from
the host, `<<run, fragment>>` from the SE. Payloads let the properties tell runs, parts and
fragments apart; their bytes do not matter to the control flow. A block with a bad checksum,
PCB or length is `GARBLED`, since the code treats the three alike (`BlockOk` of `T1Codec`).

Faults are budgeted per exchange (`MaxFaults`, `FaultKinds`): `lose`, `garble`, `io`
(a driver call fails), `late` (the SE still works when the waiting time ends), `request` (the
SE asks for IFS, ABORT or RESYNCH). Waiting time extensions are part of normal operation.
`Unreset = FALSE` says that after a failed exchange comes a successful reset before the next
command. That is what the service does except in `closeChannel`, which does not reset, and when the
reset itself fails. The runs and theorems promise nothing to a command that follows either: what
the failed exchange left in the list (see `mixed_response`) or on its way then meets the next
command.

### The SPI line: how state and actions correspond to the code

`pc` is the loop or read the thread is in: `pwt`, `atpLength`, `atpRest` are the two functions of the
ATP, `write`, `poll`, `header`, `rest` a transfer; a setup goes on to the IFS request and its answer.
An action is one turn of a loop or one driver call together with what its caller does with the
result: `PwtOver`, `ReadAtpLength`, `ReadAtpRest`, `WriteTpdu`, `Poll`, `ReadHeader`, `ReadRest`. What
happens inside `SpiLayerDriver_read` and `_write` is the same for all: `SwitchMode` is the wait
when the direction changes, `AttemptFails` a read or write that fails (`rc` -1 or 0) with the delay that
follows, `GiveUp` the third of them, `CutShort` a partial one. After three reads of no byte,
`SpiLayerComm_waitForAtpLength` uses a byte nobody wrote: `GiveUp` lets it be a length or a value
that is refused. `Open` is `SpiLayerDriver_open` after a close, `SetupNoReset` a failing `ioctl`.

Blocks are sequences of bytes; `T1Codec` has the CRC, the conversions and the checks as functions of
them. The SE's answers (R-block, I-block, the answer to the IFS request, an ATP) are formed with these
functions, one byte of an answer may be damaged on its way (`Damaged`), and what the SE shifts out is
read byte by byte, with zeros after the end.

Nothing in `SpiLayerComm_waitForResponse` tells the answer to this block from one to an earlier block, so an
SE that is given a block while it works, or while an answer of it has not been read, either turns to the
new block or answers the earlier one first (`SeTakesBlock`, `SeGoesOn`; `waiting` is the block it has in hand).
The host then reads the late answer as the answer to the new block, which is what the fault `late` of
`T1Host` is. Two ghosts serve the refinement only: `offered` is the answer the host has not read, `spoilt`
whether a byte of it was damaged or thrown away.

Time passes in half milliseconds, finer than `Utils_getElapsedTimeInMs`, which truncates seconds and
microseconds apart. A timestamp is kept as its true age and its age by the wall clock, since
`gettimeofday` is a clock that can be set (`SetClock`). A negative difference becomes a huge `unsigned int` in
the two wait loops and stays an `int` in the turnaround wait, as in the code.

### The data: how state and actions correspond to the code

`length`, `pCmdlen`, `CmdPart` and `pTxBlock_len` (as `ifsc`) are those of `StEse_Transceive`; `SendPart` and
`SendLastPart` are its loop and the call after it. `head` is the list of `DataMgmt.cc` by the lengths of its
nodes, beside it `total_len` with its wrap at 16 bits (`Width`). `CallFails` and `GetDataFails` leave the
list as it is, as the code does, and `NewAtp` may change `ATP.ifsc` under it.

### The service: how state and actions correspond to the code

A method is cut at each APDU exchange. `op` is the method in progress (and hence which of the
`...Processing` flags is set), `hpc` the exchange or internal call it does next: `manage`,
`select`, `undo` (closing the channel after a refused SELECT), `close`, `reopen` and `reset`
(the two halves of `seHalResetSe`). Between them `OpenCall`, `ManageChannel`, `Select`,
`CloseInSe`, `Transmit`, `Reopen`, `ResetSe` do what the code does up to the next exchange,
error paths included: an answer with an unexpected status word is treated by the code as an
exchange that failed, and so it is here. `isOpen`, `device`, `mFirstActivation` are the open
state of StEseApi, SpiLayerDriver and SpiLayerInterface. `mOpenedchannelCount` wraps at 256.
In `HalRefinement` a channel works while the link is open, the table has it and so has the SE. The
history variable `given` of `SecureElementHal` counts how often the client was given each channel it holds (`held`
alone, a set, would not show a channel given twice): `ChannelService` has no step in which a count goes beyond 1.

`Service` selects the version: the 1.0 service uses `mCallbackV1_0`, the 1.1 service calls
`mCallbackV1_1`, which is null for a client that came with `init`. `Troubles` says what
may go wrong besides exchanges without effect. External parts are the SE's channels
(`seOpen`), the client and the channels it holds (`client`, `held`). Assumed of the client:
it asks for the basic channel only while it does not hold it, and, without `strayClose`,
closes only what it holds. Assumed of the SE: it gives out free channel numbers below
`MAX_LOGICAL_CHANNELS`.

## Runs

| Run | Instance | Shows |
|---|---|---|
| `recovery` | 1 APDU, up to 2 parts and 2 fragments, 4 faults (lose, garble, io, request), failures followed by reset | sequence numbers agree between exchanges; a command runs again only after a RESYNCH, and only once more per fault; failure only after three faults; exchanges end; the inductive invariants `SeqInv`, `ResyncInv` |
| `single_loss` | 3 APDUs, 2 parts, 2 fragments, 2 extensions, 1 loss per exchange | the exchange implements `ApduExchange` with one run and no failure; the invariant `PromiseInv` |
| `at_least_once` | 3 APDUs of one block, 3 faults (lose, garble, late) | implements `ApduExchange` with up to 4 runs and failures; no stale response |
| `link` | `DEFAULT_PWT` of 2 ms, block waiting times of 1 ms and of 0xFFFF, an ATP with LRC, one fault per call (damage, a read or write whose attempts fail or that is cut short, the clock set back or forth), answers to earlier blocks | implements `BlockTransfer`; the ATP is intact; timeouts come late enough; the turnaround time is kept; calls end |
| `data_path` | commands of up to 7 bytes, `ATP.ifsc` 1, 2, 3 and 5 with blocks of up to 4 bytes, 4 fragments, `total_len` modulo 8 | the parts make up the command; list and length agree |
| `truncated_command` | 1 APDU of 2 parts, 2 losses | finding: after RESYNCH the SE runs a part as a command |
| `mixed_response` | response of 2 fragments, 1 damaged block | finding: fragments of two runs joined |
| `hal_channels` | 1.0 service, 4 channels, 3 failures, kills | count, table, SE and closing agree; only a failing first reset loses a descriptor; the inductive invariant `HalInv` |
| `hal_troubled` | 1.1 service, 4 channels, 2 failures, every trouble but stray closes | implements `ChannelService`: no channel is given twice or stops working unannounced; sessions stay usable; methods return; a dead client is cleaned up after; the inductive invariant `TroubledInv` |
| `hal_lost_close` | lost answer to a close | finding: count too high, SE not closed with its last channel |
| `hal_stray_close` | `closeChannel(0)` without a basic channel | finding: count too low |
| `hal_null_callback` | client of version 1.0 at the 1.1 service | finding: null callback in `seHalResetSe` |

Why the bounds are enough. Sequence numbers are one bit, so two parts and two fragments
already bring each value back; recovery has three steps and then gives up, so four faults
reach every recovery state and go beyond the last; faults are counted per exchange, and
what an exchange leaves behind (numbers, list, response) is visible to the next, hence two or
three APDUs where the property relates exchanges. `recovery` has one APDU because a reset
may precede and follow it in every state. In the service, four channels is the value of
the code; two or three failures allow one inside the handling of another.

In `link` the waiting time, `DEFAULT_PWT` and the second are scaled down to 1, 2 and 2 ms (a second of two
milliseconds makes every phase of the clock, and the step from one second to the next, part of a wait of
any length), and waits of more than two milliseconds are not told apart (`Horizon`): they are beyond
both the waiting time and the turnaround time. One fault per call is charged per driver call, so up to three of its attempts fail
for it, or it is an answer damaged anywhere; what it leaves of an answer on the line is met by the next call, with a fault of its
own, so that remains are misread too. Two faults in a call multiply the states sixfold and add nothing the
theorems about `EseLink` do not cover: they hold for every `MaxFaults`, waiting time and setting of the clock. The clock is set
back by 1.5 ms or forth by 1 ms; set forth it ends a wait at once, which `TimesOutLate` exempts. In `data_path` the widths are
scaled down so that a part longer than a block, every multiple of the ifsc and a list longer
than `total_len` can count occur.

Deadlock is checked
in every run; `Finished` lets the T=1 model stop when its APDUs are used up.

Each bound is a constant: `MaxApdus`, `MaxParts`, `MaxFrags`, `MaxAsk`, `MaxFaults`,
`MaxFailures`, `Horizon`, `MaxLength`, `MaxNodes`, and `MaxRuns` of the abstract specification.

`RerunNeedsResync`, `RerunNeedsFault` and `FailsOnlyAfterThree` say how good recovery is; `ResponseIntact` and
`WholeCommands` are what the caller relies on, and hold only where the runs say: with
`single_loss` for any APDU, with `at_least_once` for APDUs of one block. The two T=1 findings
are exactly what breaks them outside.

Two more disagreements came up that no run of their own shows. The comment at `T1protocol.cc:1066` says that
`T1protocol_doRequestIFS` returns -1 "if something failed", but for a damaged answer line 1092 returns the 0 of
`T1protocol_doRecovery` (`SetupWrongIfs`): `StEse_Reset` reports success although no IFS was negotiated, with a
recovery planned that nobody carries out. And the list of `DataMgmt.cc` outlives a failed exchange and even the reset
after it: with `FaultKinds = {"io"}`, two APDUs and two fragments, `ResponseIntact` fails.

## Fairness

Safety needs none. `ExchangeEnds` (run `recovery`) assumes `WF(Host)`: the thread in
`T1protocol_transcieveApduPart` goes on (its waits are bounded by the block waiting time), and
`WF(Card)`: an SE that has a block answers it. Neither assumes that a transfer succeeds; the
faults are bounded per exchange, and without that bound the exchange could indeed go on for
ever, since every valid block sets `recoveryStatus` back to OK. Extensions and requests of
the SE are bounded by `MaxAsk` for the same reason.

`TransferEnds` (run `link`) assumes `WF(Host)`, the processor runs the thread, and `WF(Tick)`, time passes. It
assumes nothing of the SE, which may stay silent, nor of the clock but that it is set finitely often
during a call (`MaxFaults`). The exception it states is the code's own: at a waiting time of 0xFFFF the timeout is off.

`MethodsReturn` and `DeadClientReleased` (run `hal_troubled`) assume `WF(ThreadSteps)`: the one thread of the
binder pool goes on with a method it has begun and then takes the pending `serviceDied`, each exchange
ends (`ExchangeEnds`), and init restarts a service that died. New calls of clients are not fair, but as there
is one thread a call may come before `serviceDied` only while the client lives.

## Proofs

`tlapm` checks every leaf; the backends are Z3, Zenon and LS4.

* `TypeCorrect` (`T1ProtocolProofs`): types of host, SE and line, for all constants that
  satisfy `BoundsAssumption` and `FaultAssumption`. One lemma per action, from the
  types of `Transfers` and of the block constructors.
* `SeqInvHolds`, `SeqAgreementHolds` (`T1ProtocolProofs`), under `Disciplined` (no late answers,
  failures followed by a reset). `SeqAgreement` speaks of idle states only and is not
  inductive. `SeqInv` adds where the numbers may differ inside an exchange: at most one block
  is on the line and only while the host waits (`LineInv`); the command carries the host's
  numbers (`CommandInv`), the answer the SE's (`AnswerInv`); the block kept for
  retransmission is the last numbered (`LastBlockInv`); and a command the SE has not
  taken leaves it owing nothing, one it has taken can only be owed for as the last part
  (`OweInv`). The last is what makes it safe that the host flips its number on the
  last fragment of a response and on the R-block of a chained part.
* `RerunNeedsResyncHolds`, `FailsOnlyAfterThreeHolds` (`T1RecoveryProofs`), under `Disciplined`, beside `SeqInv`.
  The first from `RerunInv`: a command that the SE would run on arrival, or a host that would send such a
  one, is there only while the SE has run the APDU no more often than it was resynchronised (`MayRun`); what excuses the
  host is an answer on its way or a software reset, which is the last step of recovery (`SoftResetting`). The second from
  `RepairInv`: the number of the recovery step taken is at most the number of faults, and whatever can only
  lead to another step - silence, a damaged block, an answer that does not fit - has already cost a
  fault of its own (`Spare`); an SE that keeps no block to repeat has numbered its next as the host expects (`SlaveInv`).
* `RerunNeedsFaultHolds` (`T1PromiseProofs`), under `Disciplined`, for any number of losses, damages, driver errors and requests
  of the SE: an APDU is run at most once more than its exchange had faults. `ResyncInv` charges every RESYNCH to
  a fault that led to none before (`Unspent`): an R-block of the host asks for a block the SE owes it
  (`AckInv`), the SE rejects only a part it has not taken (`RejectInv`), and an SE with nothing to repeat numbers its
  next fragment as the host expects (`NumberInv`) - each unless a fault is unspent.
* `WholeCommandsHolds`, `ResponseIntactHolds`, `PromiseInvHolds`, `KeepsPromiseHolds` (`T1PromiseProofs`), for any number of
  APDUs, parts, fragments, extensions and requests, under `OneFault`: `Disciplined`, no damaged block, at most one fault per
  exchange (and where the list matters, no driver error: it leaves the list of a failed exchange behind).
  These are the conditions the two T=1 findings show to be needed. Recovery then never gets to a RESYNCH
  (`OneFaultInv`), which is what cuts commands short and mixes runs. The rest follows what each side holds: the host sends a
  part only until it is taken, and grants time only to an SE that waits (`WantedInv`); what the SE sends is the next fragment of
  a run of the current APDU (`FragmentInv`); its chain is the parts before the current one (`ChainInv`); the list holds the
  fragments sent but perhaps the last (`ListInv`); `pRsp` answers nothing run later (`RspInv`). The refinement is shown action
  by action: `CardExecute` is the abstract run, `EndPart` of the last part the abstract return, the rest stutters. Where
  blocks are only lost, no exchange fails (`NeverFails`).
* `OnePartWholeHolds`, `KeepsPromiseRetryingHolds` (`T1PromiseProofs`), under `Disciplined` and any number of faults of any other
  kind, for commands and responses of one block: `ApduExchange` with `MaxRuns > MaxFaults`. The bound on the
  runs is `RerunNeedsFault`; a response is the answer to its command because a fragment is accepted only with the number of a
  run of the current APDU (`FragmentInv`, `ListRead`). `ResponseIntactHolds` includes this case too.
* `LinkTypeCorrect`, `TimesOutLateHolds`, `TurnaroundKeptHolds` (`EseLinkProofs`), for every waiting time, length of
  a second, ifsc and setting of the clock, from `LinkAssumption` alone. `LinkInv` is the types in
  named parts, and that a header is read before its rest; the theorems about time then rest on the
  arithmetic of `Elapsed`: inside a second the truncation only makes a wait longer, and across its end by
  less than the comparison (`>` for the timeout) allows. The types of what the SE sends come from lemmas about the codec:
  the CRC of any bytes is a 16-bit word (`CrcInWord`, by induction over the bytes and the bits of each), a checksum is
  read back as it was written (`ChecksumTravels`), a TPDU formed is the block read from its bytes (`FormedIsRead`).
* `CrcFindsOneByte` (`EseLinkProofs`): no change of one byte, anywhere in data of any length, keeps the CRC. A shift of
  the CRC keeps different words different (`ShiftKeepsApart`), the exclusive or with a byte does so in either argument
  (`XorKeepsApart`, from the bits of a word), hence so does a whole byte (`CrcByteKeepsApart`): two runs that differ in
  one byte never meet again. From it `DamageRefused` and `AtpDamageRefused` (`LinkRefinementProofs`): a frame, or an ATP of the expected length, with one
  byte changed other than its length byte is refused.
* `AtpIntactHolds`, `ImplementsTransferHolds` (`LinkRefinementProofs`), for any number of faults, waiting time and setting of the
  clock. That an intact answer is accepted (`FormedAccepted`) and a damaged one is not are proved from the
  codec. Two things about the bytes of the SE are left to assumptions that TLC evaluates in `link`: where the damage
  moves the frame (to another start, or through its length byte to another end) so that the checksum is of other bytes than
  the SE's, the frame is refused (`FrameAssumption`: a CRC of 16 bits has collisions, so this does not hold of
  all bytes); and the zeros read of an SE that says nothing are no ATP (`SilenceAssumption`).
  The answer may be one to an earlier block, so the invariant speaks of the answer the host has not read (`offered`),
  whichever block it answers. `TransferInv` says that what is on the line is that answer, whole as it arrived (`Arrived`) or
  what reads that threw bytes away have left of it (`Heard`, `Remains`; `LineInv`); that bytes read of a frame and bytes
  left make up such a rest (`AnswerInv`), so that only a whole undamaged answer passes the checks; that what is read during a
  setup is the rest of an ATP (`AtpInv`); and that a call has no result while it runs, and no block waits at the SE during a
  setup, since the reset line made it forget (`CallInv`).
* `DataTypeCorrect`, `PartsMakeCommandHolds`, `ResponseWholeHolds` (`ApduDataProofs`), for commands, ifsc, fragments
  and lists of any size and any width of `total_len`. For the parts the invariant
  adds where the next part begins: at the end of the last, with `pCmdlen` bytes still to come. For the response it adds that
  `total_len` is the sum of the lengths in the list, modulo the width (`ListInv`); the sum is a recursive function, and
  its laws (of a list with one more node, of the empty one) are proved by induction (`Loops`).
* `SecureElementHalProofs`, for any `MAX_LOGICAL_CHANNELS` from 2 to 255 and both versions. The argument is in two
  parts. First, what any step does (`StepKeeps`): it changes table, count and SE in one of four ways (`TableStep`:
  kept, cleared, one channel opened or one closed), and it keeps `SessionInv`: what the client holds is open in table
  and SE, the link is open while a channel is (`OpenWhileOpened`), and the channel a method works on is open and not the
  client's (`MethodInv`, `ChannelInv`). This needs only that the count is not below the table, so that the SE is
  never closed with a channel open, and that a client closes only what it holds. Second, why the count is not below:
  * `HalInvHolds`, `CountMatchesHolds`, `ClosesWhenLastHolds`: under `Steady` (no `lostReply`, `halfReset` or `strayClose`; any
    number of failures) the table's channels are open in the SE (`TableInSe`), a number the SE gives out is free
    in the table, and the count is exact. Outside `Steady` these are false, as the findings show.
  * `TroubledInvHolds`: with lost answers and half-done resets a channel of the table may be one the SE has closed
    (`Stale`) and is counted again when it is opened. `CountCovers` bounds count plus stale channels: each failure
    adds at most one table. As long as the failures are too few to make the `uint8_t` wrap (`NoWrap`:
    `MaxFailures + 1` tables fit in 255, so 62 failures of the 4 channels of the code in the life of the
    service) the count covers the table.
  * Both give `SessionsUsableHolds`, `HalTypeCorrect` and the refinement `ImplementsServiceHolds` (`Dependable`: `Steady`,
    or no stray close and `NoWrap`). The client is given a channel only when `MethodInv` or `ChannelInv` says it does
    not hold it (`HeldSteps`), so the history variable counts 1 for what the client holds and never 2 (`GivenOnce`,
    `GivenSteps`), and `SessionsUsable` after the step is what the abstract step asks.
  * `LeaksHolds` needs no assumption. `TableMatchesSeHolds` needs `Steady` and that no client dies (after which the SE
    keeps channels that the table has dropped).

The induction theorems of the TLAPS library take an operator as a parameter, which the installed provers cannot be given.
`Loops` states the induction as the least counterexample of a set of naturals (`NatMin`), from the library's
`WFMin`, and with it what a loop computes (`LoopRuns`) and keeps (`LoopKeeps`).

Only model-checked: the liveness properties (out of the prover's reach); `KeepsPromise` and `ResponseIntact` with
late answers (`at_least_once`: an answer of the exchange before may then be on the line, and `SeqInv` does not hold as it
stands); that damage which moves the start or the end of a frame is found (`FrameAssumption`). Neither checked nor proved:
`SessionsUsable` once lost answers have made the count wrap, or after a stray close.

## Not modelled

* Damage of more than one byte in an answer; an ATP whose length was damaged to another plausible
  one (the checksum is then looked for where nothing was read); an ATP shorter or longer than the expected
  one; an SWRESET answer with an invalid ATP; an ifsc of 0.
* The channel number in an SE's answer above the table's size; the values of status
  codes returned to the client; the contents of payloads.
* Allocation failures, except where `ApduData` lets storing and fetching fail.
* Whether a failing `write` had moved bytes before the driver tries again.
* The mutex of StEseApi (one thread).
* An SE that keeps more than one further block waiting while it has an answer to give.
* The narrowing of a command's length from `size_t` to `uint16_t` in `transmit` (`1.1/SecureElement.cpp:130`):
  `ApduData` begins with the length `StEse_Transceive` is given.
* `Tpdu_copy`, whose copy is never sent; `getAtr`, `isCardPresent`, `CommandApdu`, `readAtpFromFile`,
  `doResendRequest`, `setRespApduData`: no state, or never called.
* Configuration, logging, build files.

## Where it could go on

The plan of the first version is done: the T=1 core, the transfer under it, the open state with its descriptors, the
codec and the ATP, the data path, and the service with what it promises. What would add most next:

1. `SecureElementHal` with the steps of `ApduExchange` in place of its own exchanges, in one module.
2. The promise of `ApduExchange` proved with late answers, for which `SeqInv` needs a variant that allows an answer
   of the exchange before on the line.
