-------------------------- MODULE SecureElementHal --------------------------
(***************************************************************************)
(* The HIDL service of 1.0/SecureElement.cpp and 1.1/SecureElement.cpp,    *)
(* which differ in the callback they use: the table of opened channels,    *)
(* what it costs to open, close and reset them, and the open state that    *)
(* StEseApi and SpiLayerInterface keep.                                    *)
(*                                                                         *)
(* A method is cut at each APDU exchange: what the service does between    *)
(* two exchanges is one step.  The binder pool has one thread, so methods  *)
(* and serviceDied never interleave, but the client may die, and the       *)
(* service may be killed, between any two steps.  An exchange is its       *)
(* outcome and its effect on the SE; T1Protocol refines it.                *)
(***************************************************************************)
EXTENDS Naturals, FiniteSets

CONSTANTS
    Service,       \* the version of the service
    MAX_LOGICAL_CHANNELS,
    Troubles,      \* what may go wrong beside an exchange without an answer
    MaxFailures    \* bound: exchanges, openings and resets that fail

AllTroubles ==
    {"lostReply",   \* the SE does the command, its answer is lost
     "halfReset",   \* a reset fails after the SE was pulsed
     "shortApdu",   \* transmit of fewer than MIN_APDU_LENGTH bytes, or unopened
     "strayClose",  \* closeChannel of a channel the client does not hold
     "death",       \* the client dies
     "kill",        \* the service dies, init restarts it
     "v1_0"}        \* a client of 1.1/ may register with init

ASSUME HalAssumption ==
    /\ Service \in {"1.0", "1.1"}
    /\ MAX_LOGICAL_CHANNELS \in 2..255
    /\ Troubles \subseteq AllTroubles
    /\ MaxFailures \in Nat

Channels == 0..(MAX_LOGICAL_CHANNELS - 1)
Logical  == Channels \ {0}    \* 0 is DEFAULT_BASIC_CHANNEL

VARIABLES
    hpc,       \* what the service does next, "idle" between methods
    op,        \* the method in progress; says which ...Processing flag is set
    ch,        \* resApduBuff.channelNumber, channelNumber
    isOpen,    \* ese_ctxt.EseLibStatus is not ESE_STATUS_CLOSE
    device,    \* spiDeviceId is an open descriptor
    mFirstActivation,
    mOpenedChannels, mOpenedchannelCount,
    callback,  \* which of mCallbackV1_0 and mCallbackV1_1 is set
    seOpen,    \* external: the logical channels open in the SE
    client,    \* external: "none", "alive", or "dead" and serviceDied is due
    held,      \* external: channels the client was given and did not lose
    given,     \* history: how often it was given each of them
    failures

methodVars == <<hpc, op, ch>>
openVars   == <<isOpen, device, mFirstActivation>>
tableVars  == <<mOpenedChannels, mOpenedchannelCount>>
clientVars == <<client, held, given>>
vars == <<methodVars, openVars, tableVars, callback, seOpen, clientVars, failures>>

OpenChannels == {c \in Channels : mOpenedChannels[c]}
NoneOpened == [c \in Channels |-> FALSE]
NoneGiven  == [c \in Channels |-> 0]

ServiceTypeOK ==
    /\ hpc \in {"idle", "manage", "select", "undo", "close", "reopen", "reset", "dead"}
    /\ op \in {"none", "logical", "basic", "close", "transmit"}
    /\ ch \in Channels
    /\ isOpen \in BOOLEAN /\ device \in BOOLEAN /\ mFirstActivation \in BOOLEAN
    /\ mOpenedChannels \in [Channels -> BOOLEAN]
    /\ mOpenedchannelCount \in 0..255
    /\ callback \in {"none", "1.0", "1.1"}
    /\ seOpen \subseteq Logical
    /\ client \in {"none", "alive", "dead"}
    /\ held \subseteq Channels
    /\ failures \in Nat

TypeOK == ServiceTypeOK /\ given \in [Channels -> Nat]

Init == /\ hpc = "idle" /\ op = "none" /\ ch = 0
        /\ isOpen = FALSE /\ device = FALSE /\ mFirstActivation = FALSE
        /\ mOpenedChannels = NoneOpened /\ mOpenedchannelCount = 0
        /\ callback = "none"
        /\ seOpen = {}
        /\ client = "none" /\ held = {} /\ given = NoneGiven
        /\ failures = 0

-----------------------------------------------------------------------------
Fails == failures < MaxFailures /\ failures' = failures + 1

(* An exchange that fails: the SE never saw the command, or it did. *)
ExchangeFails(effects) ==
    /\ Fails
    /\ seOpen' \in {seOpen} \cup (IF "lostReply" \in Troubles THEN effects ELSE {})

(* SpiLayerInterface_setup fails before, or after, the SE was pulsed. *)
SetupFails ==
    /\ Fails
    /\ seOpen' \in {seOpen} \cup (IF "halfReset" \in Troubles THEN {{}} ELSE {})

HalInitNoReset ==   \* mutant: the SE keeps the channels of the last process
    /\ isOpen' = TRUE /\ device' = TRUE /\ mFirstActivation' = TRUE
    /\ UNCHANGED <<seOpen, failures>>

(* seHalInit, StEse_init: the SE is reset the first time only. *)
HalInitOk ==
    /\ isOpen' = TRUE /\ device' = TRUE /\ mFirstActivation' = TRUE
    /\ seOpen' = IF mFirstActivation THEN seOpen ELSE {}
    /\ UNCHANGED failures

HalInitFailsResetting ==   \* mutant: every opening resets the SE
    /\ isOpen' = FALSE
    /\ \/ device' = FALSE /\ Fails /\ UNCHANGED seOpen
       \/ device' = TRUE /\ SetupFails
    /\ UNCHANGED mFirstActivation

(* A failing setup keeps the descriptor: StEse_init does not know it yet.  *)
HalInitFails ==
    /\ isOpen' = FALSE
    /\ \/ device' = FALSE /\ Fails /\ UNCHANGED seOpen
       \/ device' = TRUE /\ ~mFirstActivation /\ SetupFails
    /\ UNCHANGED mFirstActivation

ClearTableKeepCount ==   \* mutant: the count is not reset
    mOpenedChannels' = NoneOpened /\ UNCHANGED mOpenedchannelCount

ClearTable == mOpenedChannels' = NoneOpened /\ mOpenedchannelCount' = 0

HalDeInitKeepTable ==   \* mutant: the table outlives the open SE
    IF isOpen THEN /\ isOpen' = FALSE /\ device' = FALSE
                   /\ UNCHANGED <<mFirstActivation, tableVars>>
              ELSE UNCHANGED <<openVars, tableVars>>

(* seHalDeInit, StEse_close: no channel is closed in the SE. *)
HalDeInit ==
    IF isOpen THEN /\ isOpen' = FALSE /\ device' = FALSE
                   /\ ClearTable
                   /\ UNCHANGED mFirstActivation
              ELSE UNCHANGED <<openVars, tableVars>>

(* mOpenedchannelCount is a uint8_t. *)
MarkOpen(c) ==
    /\ mOpenedChannels' = [mOpenedChannels EXCEPT ![c] = TRUE]
    /\ mOpenedchannelCount' = (mOpenedchannelCount + 1) % 256

CountDownUnwrapped == mOpenedchannelCount + 255   \* mutant: not a uint8_t
CountDown == (mOpenedchannelCount + 255) % 256
OpenProcessing == op \in {"logical", "basic"}

MarkClosedOnly(c) ==   \* mutant: the SE stays open
    /\ mOpenedChannels' = [mOpenedChannels EXCEPT ![c] = FALSE]
    /\ mOpenedchannelCount' = CountDown
    /\ UNCHANGED openVars

(* The end of closeChannel: with the last channel, the SE is closed. *)
MarkClosed(c) ==
    IF CountDown = 0 /\ ~OpenProcessing /\ isOpen
    THEN HalDeInit
    ELSE /\ mOpenedChannels' = [mOpenedChannels EXCEPT ![c] = FALSE]
         /\ mOpenedchannelCount' = CountDown
         /\ UNCHANGED openVars

Return == hpc' = "idle" /\ op' = "none" /\ UNCHANGED ch
GoOn(to) == hpc' = to /\ UNCHANGED <<op, ch>>

(* A method of a client's call begins. *)
Called == hpc = "idle" /\ client = "alive"
Enter(to, method, c) == hpc' = to /\ op' = method /\ ch' = c

-----------------------------------------------------------------------------
(* init ("1.0") and, in 1.1/ only, init_1_1 ("1.1"). *)
InitCall(version) ==
    /\ hpc = "idle" /\ client # "dead"
    /\ version = Service \/ (version = "1.0" /\ "v1_0" \in Troubles)
    /\ callback' = version /\ client' = "alive"
    /\ \/ isOpen /\ UNCHANGED <<openVars, seOpen, failures>>
       \/ ~isOpen /\ (HalInitOk \/ HalInitFails)
    /\ UNCHANGED <<methodVars, tableVars, held, given>>

OpenCallStale(first, method) ==   \* mutant: channelNumber is the last method's
    /\ Called
    /\ \/ /\ isOpen /\ UNCHANGED <<openVars, seOpen, failures>>
          /\ Enter(first, method, ch)
       \/ /\ ~isOpen /\ HalInitOk
          /\ Enter(first, method, ch)
       \/ /\ ~isOpen /\ HalInitFails
          /\ UNCHANGED methodVars
    /\ UNCHANGED <<tableVars, callback, clientVars>>

(* openLogicalChannel and openBasicChannel up to their first exchange. *)
OpenCall(first, method) ==
    /\ Called
    /\ \/ /\ isOpen /\ UNCHANGED <<openVars, seOpen, failures>>
          /\ Enter(first, method, 0)
       \/ /\ ~isOpen /\ HalInitOk
          /\ Enter(first, method, 0)
       \/ /\ ~isOpen /\ HalInitFails
          /\ UNCHANGED methodVars
    /\ UNCHANGED <<tableVars, callback, clientVars>>

(* A client asks for the basic channel once. *)
OpenLogicalChannel == OpenCall("manage", "logical")
OpenBasicChannel   == 0 \notin held /\ OpenCall("select", "basic")

(* MANAGE CHANNEL (open). *)
ManageChannel ==
    /\ hpc = "manage"
    /\ \/ \E c \in Logical \ seOpen :
            /\ seOpen' = seOpen \cup {c}
            /\ MarkOpen(c)
            /\ hpc' = "select" /\ ch' = c /\ UNCHANGED <<op, failures>>
       \/ \* 6A81, 6E00 or 6D00
          Return /\ UNCHANGED <<tableVars, seOpen, failures>>
       \/ /\ ExchangeFails({seOpen \cup {c} : c \in Logical})
          /\ GoOn("reset") /\ UNCHANGED tableVars
    /\ UNCHANGED <<openVars, callback, clientVars>>

GiveClient ==
    IF client = "alive" THEN held' = held \cup {ch} /\ given' = [given EXCEPT ![ch] = @ + 1]
                        ELSE UNCHANGED <<held, given>>

(* openBasicChannel gives up a basic channel it did not get. *)
DropBasicChannel ==
    IF op = "basic" /\ mOpenedChannels[0] THEN MarkClosed(0)
                                          ELSE UNCHANGED <<openVars, tableVars>>

(* 9000: the client gets the channel. *)
Selected ==
    /\ GiveClient /\ Return
    /\ IF op = "basic" /\ ~mOpenedChannels[0] THEN MarkOpen(0)
                                              ELSE UNCHANGED tableVars
    /\ UNCHANGED <<openVars, seOpen, failures>>

(* SELECT on the channel. *)
Select ==
    /\ hpc = "select"
    /\ \/ Selected
       \/ \* 6A82 or 6A86
          /\ IF op = "basic" THEN DropBasicChannel /\ Return
                             ELSE GoOn("undo") /\ UNCHANGED <<openVars, tableVars>>
          /\ UNCHANGED <<seOpen, held, given, failures>>
       \/ /\ ExchangeFails({}) /\ GoOn("reset")
          /\ UNCHANGED <<openVars, tableVars, held, given>>
    /\ UNCHANGED <<callback, client>>

-----------------------------------------------------------------------------
(* closeChannel(0): no exchange, and the test for an opened channel does   *)
(* not stop it.                                                            *)
CloseBasicChannel ==
    /\ Called
    /\ 0 \in held \/ "strayClose" \in Troubles
    /\ MarkClosed(0)
    /\ held' = held \ {0} /\ given' = [given EXCEPT ![0] = 0]
    /\ UNCHANGED <<methodVars, callback, seOpen, client, failures>>

CloseLogicalChannel(c) ==
    /\ Called
    /\ c \in held \/ "strayClose" \in Troubles
    /\ mOpenedChannels[c]
    /\ Enter("close", "close", c)
    /\ held' = held \ {c} /\ given' = [given EXCEPT ![c] = 0]
    /\ UNCHANGED <<openVars, tableVars, callback, seOpen, client, failures>>

(* MANAGE CHANNEL (close), for the client or after a refused SELECT. *)
CloseInSe ==
    /\ hpc \in {"undo", "close"}
    /\ \/ /\ ch \in seOpen /\ seOpen' = seOpen \ {ch}
          /\ MarkClosed(ch)
          /\ UNCHANGED failures
       \/ /\ ch \notin seOpen
          /\ UNCHANGED <<openVars, tableVars, seOpen, failures>>
       \/ /\ ExchangeFails({seOpen \ {ch}})
          /\ UNCHANGED <<openVars, tableVars>>
    /\ Return
    /\ UNCHANGED <<callback, clientVars>>

(* transmit, when it fails: the service resets the SE. *)
Transmit ==
    /\ Called
    /\ \/ "shortApdu" \in Troubles /\ UNCHANGED failures
       \/ held # {} /\ isOpen /\ Fails
    /\ Enter(IF isOpen THEN "reset" ELSE "reopen", "transmit", ch)
    /\ UNCHANGED <<openVars, tableVars, callback, seOpen, clientVars>>

-----------------------------------------------------------------------------
(* seHalResetSe.  A failing seHalInit does not stop it: the status that is *)
(* tested is not the one it sets.                                          *)
Reopen ==
    /\ hpc = "reopen"
    /\ HalInitOk \/ HalInitFails
    /\ GoOn("reset")
    /\ UNCHANGED <<tableVars, callback, clientVars>>

SilentReset == UNCHANGED <<held, given>>   \* mutant: onStateChange(false) is not sent
TellClientReset == held' = {} /\ given' = NoneGiven

ResetSeRetrying ==   \* mutant: a failing reset is tried again
    /\ hpc = "reset" /\ callback = Service
    /\ TellClientReset
    /\ \/ /\ device /\ seOpen' = {}
          /\ ClearTable /\ Return
          /\ UNCHANGED <<openVars, failures>>
       \/ /\ device /\ SetupFails /\ GoOn("reset")
          /\ UNCHANGED <<openVars, tableVars>>
       \/ /\ ~device /\ GoOn("reset")
          /\ UNCHANGED <<openVars, tableVars, seOpen, failures>>
    /\ UNCHANGED <<callback, client>>

ResetSe ==
    /\ hpc = "reset" /\ callback = Service
    /\ TellClientReset
    /\ Return
    /\ \/ /\ device /\ seOpen' = {}
          /\ ClearTable
          /\ UNCHANGED <<openVars, failures>>
       \/ /\ device /\ SetupFails
          /\ DropBasicChannel
       \/ /\ ~device
          /\ DropBasicChannel
          /\ UNCHANGED <<seOpen, failures>>
    /\ UNCHANGED <<callback, client>>

(* mCallbackV1_1 of 1.1/ is a null pointer if the client came with init. *)
ResetCrashes ==
    /\ hpc = "reset" /\ callback # Service
    /\ hpc' = "dead"
    /\ UNCHANGED <<op, ch, openVars, tableVars, callback, seOpen, clientVars, failures>>

(* serviceDied: the client is gone. *)
ServiceDied ==
    /\ hpc = "idle" /\ client = "dead"
    /\ HalDeInit
    /\ callback' = IF callback = "1.1" THEN "none" ELSE callback
    /\ client' = "none"
    /\ UNCHANGED <<methodVars, seOpen, held, given, failures>>

-----------------------------------------------------------------------------
(* The world around the service. *)
ClientDies ==
    /\ "death" \in Troubles /\ client = "alive"
    /\ client' = "dead" /\ held' = {} /\ given' = NoneGiven
    /\ UNCHANGED <<methodVars, openVars, tableVars, callback, seOpen, failures>>

Killed ==
    /\ "kill" \in Troubles /\ hpc # "dead"
    /\ hpc' = "dead"
    /\ UNCHANGED <<op, ch, openVars, tableVars, callback, seOpen, clientVars, failures>>

(* init starts the service again; its clients have lost their channels. *)
Restart ==
    /\ hpc = "dead"
    /\ hpc' = "idle" /\ op' = "none" /\ ch' = 0
    /\ isOpen' = FALSE /\ device' = FALSE /\ mFirstActivation' = FALSE
    /\ ClearTable
    /\ callback' = "none"
    /\ client' = "none" /\ held' = {} /\ given' = NoneGiven
    /\ UNCHANGED <<seOpen, failures>>

Next ==
    \/ \E version \in {"1.0", "1.1"} : InitCall(version)
    \/ OpenLogicalChannel \/ OpenBasicChannel
    \/ ManageChannel \/ Select
    \/ CloseBasicChannel \/ (\E c \in Logical : CloseLogicalChannel(c))
    \/ CloseInSe \/ Transmit
    \/ Reopen \/ ResetSe \/ ResetCrashes \/ ServiceDied
    \/ ClientDies \/ Killed \/ Restart

Spec == Init /\ [][Next]_vars

-----------------------------------------------------------------------------
(* The count that decides when the SE is closed is the number of channels  *)
(* in the table (mOpenedchannelCount against mOpenedChannels).             *)
CountMatches == mOpenedchannelCount = Cardinality(OpenChannels)

(* Once this process has reset the SE, its table is the SE's: no channel   *)
(* of the SE is forgotten, none is believed open that is not, across every *)
(* close, reopening, failed exchange, failed reset and restart.            *)
TableMatchesSe == mFirstActivation => OpenChannels \ {0} = seOpen

(* A channel the client was given stays in the table and in the SE until   *)
(* the client closes it, is told of a reset, or either process dies.       *)
SessionsUsable == held \subseteq OpenChannels /\ held \ {0} \subseteq seOpen

(* closeChannel closes the SE with the last channel, and only then         *)
(* (SecureElement.cpp:431-433).                                            *)
ClientCloses(c) ==
    \/ c = 0 /\ CloseBasicChannel
    \/ hpc = "close" /\ ch = c /\ c \in OpenChannels /\ c \notin OpenChannels'

ClosesWhenLast ==
    [][\A c \in Channels :
          ClientCloses(c) => isOpen' = (OpenChannels \ {c} # {})]_vars

(* A descriptor that StEse_init opens and forgets is one that a failing    *)
(* reset of the SE left (StEseApi.cc:105-110): once the SE was reset no    *)
(* failure loses a descriptor any more, and a process loses at most one    *)
(* per failing first reset.                                                *)
LeaksOnlyBeforeFirstReset == device /\ ~isOpen => ~mFirstActivation

(* Whatever fails, the service itself goes on (SecureElement.cpp:211-214). *)
StaysUp == hpc # "dead"

-----------------------------------------------------------------------------
(* Why sessions stay usable and closeChannel closes the SE in time, as     *)
(* long as the client closes what it holds.  The parts hold together.      *)
Steady == Troubles \cap {"lostReply", "halfReset", "strayClose"} = {}

OpenWhileOpened == /\ OpenChannels # {} => isOpen
                   /\ isOpen => mFirstActivation

MethodInv ==
    /\ hpc = "idle" => op = "none"
    /\ hpc \in {"manage", "undo"} => op = "logical"
    /\ hpc = "close" => op = "close"
    /\ hpc = "select" => op = "logical" \/ (op = "basic" /\ ch = 0)
    /\ hpc \in {"manage", "select"} => isOpen
    /\ hpc = "reopen" => ~isOpen
    /\ op = "basic" => 0 \notin held
    /\ client = "dead" => held = {}

(* The channel a method works on is open and not the client's.             *)
ChannelInv ==
    /\ hpc \in {"undo", "close"} \/ (hpc = "select" /\ op = "logical") =>
          ch # 0 /\ mOpenedChannels[ch] /\ ch \notin held
    /\ hpc = "select" /\ op = "logical" => ch \in seOpen

SessionInv == ServiceTypeOK /\ SessionsUsable /\ OpenWhileOpened /\ MethodInv /\ ChannelInv

(* When no answer to a command that changes the SE is lost and no reset    *)
(* stops half way, a free channel of the SE is free in the table and is    *)
(* counted once.                                                           *)
TableInSe == OpenChannels \ {0} \subseteq seOpen

HalInv == SessionInv /\ CountMatches /\ TableInSe

(* Otherwise a channel the SE closed may stay in the table (Stale) and be  *)
(* counted again when it is opened: the count is too high, never too low,  *)
(* and by less than one table per failure.                                 *)
Stale == OpenChannels \ (seOpen \cup {0})

CountCovers ==
    /\ failures <= MaxFailures
    /\ Cardinality(OpenChannels) <= mOpenedchannelCount
    /\ mOpenedchannelCount + Cardinality(Stale)
          <= Cardinality(OpenChannels) + failures * MAX_LOGICAL_CHANNELS

(* Too few failures to make the uint8_t wrap. *)
NoWrap == (MaxFailures + 1) * MAX_LOGICAL_CHANNELS <= 255

TroubledInv == SessionInv /\ CountCovers
=============================================================================
