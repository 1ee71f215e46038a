----------------------- MODULE SecureElementHalProofs -----------------------
(***************************************************************************)
(* Theorems of SecureElementHal and HalRefinement, for every number of     *)
(* channels.  First what every step does to the table, its count and the   *)
(* SE (TableStep) and that it keeps sessions usable (SessionInv) as long   *)
(* as the count is not too low; then why the count is not: it is exact     *)
(* when the SE follows the service (Steady), and covers the table whatever *)
(* exchanges and resets do.                                                *)
(***************************************************************************)
EXTENDS HalRefinement, FiniteSetTheorems, TLAPS

(* The channels are a finite set, and fewer than the count can hold. *)
LEMMA ChannelsFinite ==
    /\ \A S \in SUBSET Channels :
          /\ IsFiniteSet(S) /\ Cardinality(S) \in 0..255
          /\ Cardinality(S) <= MAX_LOGICAL_CHANNELS
    /\ 0 \in Channels
  <1>1. IsFiniteSet(Channels) /\ Cardinality(Channels) = MAX_LOGICAL_CHANNELS
    <2>1. /\ MAX_LOGICAL_CHANNELS \in 2..255
          /\ MAX_LOGICAL_CHANNELS - 1 \in Int /\ 0 \in Int
      BY HalAssumption
    <2> QED BY <2>1, FS_Interval DEF Channels
  <1>2. ASSUME NEW S \in SUBSET Channels
        PROVE  /\ IsFiniteSet(S) /\ Cardinality(S) \in 0..255
               /\ Cardinality(S) <= MAX_LOGICAL_CHANNELS
    <2>1. IsFiniteSet(S) /\ Cardinality(S) <= Cardinality(Channels)
      BY <1>1, FS_Subset
    <2>2. Cardinality(S) \in Nat
      BY <2>1, FS_CardinalityType
    <2> QED BY <1>1, <2>1, <2>2, HalAssumption
  <1>3. 0 \in Channels
    BY HalAssumption DEF Channels
  <1> QED BY <1>2, <1>3

(* One channel more or less is one more or less to count. *)
LEMMA OneMore ==
    ASSUME NEW S \in SUBSET Channels, NEW c \in Channels
    PROVE  /\ c \notin S => Cardinality(S \cup {c}) = Cardinality(S) + 1
           /\ c \in S => Cardinality(S \ {c}) = Cardinality(S) - 1
           /\ Cardinality(S) = 0 <=> S = {}
  <1>1. IsFiniteSet(S)
    BY ChannelsFinite
  <1> QED BY <1>1, FS_AddElement, FS_RemoveElement, FS_EmptySet

(* The table as a set of open channels. *)
LEMMA TableAsSet ==
    ASSUME ServiceTypeOK, NEW c \in Channels
    PROVE  /\ OpenChannels \in SUBSET Channels
           /\ [mOpenedChannels EXCEPT ![c] = TRUE] \in [Channels -> BOOLEAN]
           /\ [mOpenedChannels EXCEPT ![c] = FALSE] \in [Channels -> BOOLEAN]
           /\ {d \in Channels : [mOpenedChannels EXCEPT ![c] = TRUE][d]}
                 = OpenChannels \cup {c}
           /\ {d \in Channels : [mOpenedChannels EXCEPT ![c] = FALSE][d]}
                 = OpenChannels \ {c}
           /\ mOpenedChannels[c] <=> c \in OpenChannels
           /\ {d \in Channels : NoneOpened[d]} = {}
           /\ NoneOpened \in [Channels -> BOOLEAN]
  BY DEF ServiceTypeOK, OpenChannels, NoneOpened

-----------------------------------------------------------------------------
(* What a step does to the table, its count and the SE's channels.  Only   *)
(* where answers are lost or resets stop half way (not Steady) does the SE *)
(* do anything else than the table says.                                   *)
Diverges == Fails /\ ~Steady

Kept == /\ OpenChannels' = OpenChannels /\ UNCHANGED mOpenedchannelCount
        /\ UNCHANGED seOpen \/ OpenChannels = {} \/ Diverges

Opened(c) ==
    /\ c \notin seOpen /\ (c = 0 => c \notin OpenChannels)
    /\ OpenChannels' = OpenChannels \cup {c}
    /\ mOpenedchannelCount' = (mOpenedchannelCount + 1) % 256
    /\ seOpen' = seOpen \cup ({c} \ {0})

Closed(c) ==
    /\ c \in OpenChannels /\ c \in seOpen \cup {0}
    /\ OpenChannels' = OpenChannels \ {c}
    /\ mOpenedchannelCount' = mOpenedchannelCount - 1
    /\ seOpen' = seOpen \ {c} \/ Diverges

Cleared == OpenChannels' = {} /\ mOpenedchannelCount' = 0

TableStep ==
    /\ UNCHANGED failures \/ Fails
    /\ Kept \/ Cleared \/ (\E c \in Channels : Opened(c) \/ Closed(c))

(* What the steps rely on: the count is not below the table, and no client *)
(* closes a channel it does not hold.                                      *)
Covered == Cardinality(OpenChannels) <= mOpenedchannelCount
NoStray == "strayClose" \notin Troubles

(* The table and the count keep their types. *)
TableTypeOK ==
    mOpenedChannels \in [Channels -> BOOLEAN] /\ mOpenedchannelCount \in 0..255

(* A step that leaves the table alone. *)
LEMMA TableKept ==
    ASSUME ServiceTypeOK, UNCHANGED tableVars
    PROVE  /\ OpenChannels' = OpenChannels /\ UNCHANGED mOpenedchannelCount
           /\ TableTypeOK'
  BY DEF tableVars, OpenChannels, TableTypeOK, ServiceTypeOK

LEMMA MarkOpenResult ==
    ASSUME ServiceTypeOK, NEW c \in Channels, MarkOpen(c)
    PROVE  /\ OpenChannels' = OpenChannels \cup {c}
           /\ mOpenedchannelCount' = (mOpenedchannelCount + 1) % 256
           /\ TableTypeOK'
  <1>1. OpenChannels' = OpenChannels \cup {c}
    BY TableAsSet DEF MarkOpen, OpenChannels
  <1>2. mOpenedChannels' \in [Channels -> BOOLEAN]
    BY TableAsSet DEF MarkOpen
  <1>3. /\ mOpenedchannelCount' = (mOpenedchannelCount + 1) % 256
        /\ mOpenedchannelCount' \in 0..255
    BY DEF MarkOpen, ServiceTypeOK
  <1> QED BY <1>1, <1>2, <1>3 DEF TableTypeOK

LEMMA ClearTableResult ==
    ASSUME ServiceTypeOK, ClearTable
    PROVE  Cleared /\ TableTypeOK'
  <1>1. OpenChannels' = {}
    BY TableAsSet, ChannelsFinite DEF ClearTable, OpenChannels
  <1>2. mOpenedChannels' \in [Channels -> BOOLEAN]
    BY TableAsSet, ChannelsFinite DEF ClearTable
  <1> QED BY <1>1, <1>2 DEF ClearTable, Cleared, TableTypeOK

(* Closing an open channel uncounts it and, outside an opening method,     *)
(* closes the SE when the count comes to 0.                                *)
LEMMA MarkClosedResult ==
    ASSUME ServiceTypeOK, Covered, OpenWhileOpened,
           NEW c \in Channels, c \in OpenChannels, MarkClosed(c)
    PROVE  /\ OpenChannels' = OpenChannels \ {c}
           /\ mOpenedchannelCount' = mOpenedchannelCount - 1
           /\ TableTypeOK'
           /\ isOpen' = (OpenProcessing \/ mOpenedchannelCount' # 0)
           /\ isOpen' \in BOOLEAN /\ device' \in BOOLEAN /\ UNCHANGED mFirstActivation
           /\ OpenChannels' # {} => isOpen'
  <1>1. isOpen = TRUE
    BY DEF OpenWhileOpened, ServiceTypeOK
  <1>2. /\ OpenChannels \in SUBSET Channels
        /\ Cardinality(OpenChannels) \in 0..255
        /\ Cardinality(OpenChannels \ {c}) \in 0..255
        /\ Cardinality(OpenChannels \ {c}) = Cardinality(OpenChannels) - 1
    BY TableAsSet, ChannelsFinite, OneMore
  <1>3. /\ mOpenedchannelCount \in 1..255
        /\ Cardinality(OpenChannels \ {c}) <= mOpenedchannelCount - 1
    BY <1>2 DEF Covered, ServiceTypeOK
  <1>4. CountDown = mOpenedchannelCount - 1
    <2>1. \A n \in 1..255 : (n + 255) % 256 = n - 1
      OBVIOUS
    <2> QED BY <1>3, <2>1 DEF CountDown
  <1>5. CASE CountDown = 0 /\ ~OpenProcessing
    <2>1. HalDeInit
      BY <1>1, <1>5 DEF MarkClosed
    <2>2. ClearTable /\ isOpen' = FALSE /\ device' = FALSE /\ UNCHANGED mFirstActivation
      BY <1>1, <2>1 DEF HalDeInit
    <2>3. Cardinality(OpenChannels \ {c}) = 0
      BY <1>2, <1>3, <1>4, <1>5
    <2>4. OpenChannels \ {c} = {}
      BY <1>2, <2>3, OneMore
    <2>5. Cleared /\ TableTypeOK'
      BY <2>2, ClearTableResult
    <2>6. isOpen' \in BOOLEAN /\ device' \in BOOLEAN
      BY <2>2, Zenon
    <2>7. /\ OpenChannels' = OpenChannels \ {c}
          /\ mOpenedchannelCount' = 0 /\ mOpenedchannelCount - 1 = 0
      BY <1>4, <1>5, <2>4, <2>5 DEF Cleared
    <2> QED BY <1>5, <2>2, <2>4, <2>5, <2>6, <2>7
  <1>6. CASE ~(CountDown = 0 /\ ~OpenProcessing)
    <2>1. /\ mOpenedChannels' = [mOpenedChannels EXCEPT ![c] = FALSE]
          /\ mOpenedchannelCount' = CountDown
          /\ UNCHANGED openVars
      BY <1>6 DEF MarkClosed
    <2>2. OpenChannels' = OpenChannels \ {c} /\ mOpenedChannels' \in [Channels -> BOOLEAN]
      BY <2>1, TableAsSet DEF OpenChannels
    <2>3. /\ isOpen' = TRUE /\ isOpen' \in BOOLEAN /\ device' \in BOOLEAN
          /\ UNCHANGED mFirstActivation
      BY <1>1, <2>1 DEF openVars, ServiceTypeOK
    <2>4. TableTypeOK' /\ mOpenedchannelCount' = mOpenedchannelCount - 1
      BY <1>3, <1>4, <2>1, <2>2 DEF TableTypeOK
    <2>5. OpenProcessing \/ mOpenedchannelCount' # 0
      BY <1>6, <2>1
    <2> QED BY <2>2, <2>3, <2>4, <2>5
  <1> QED BY <1>5, <1>6

-----------------------------------------------------------------------------
(* The steps that may fail, and what they leave of the link and the SE.    *)
LEMMA ExchangeFailsResult ==
    ASSUME ServiceTypeOK, NEW effects, ExchangeFails(effects)
    PROVE  /\ Fails /\ failures' \in Nat
           /\ UNCHANGED seOpen \/ (seOpen' \in effects /\ Diverges)
  BY DEF Steady, Diverges, ExchangeFails, Fails, ServiceTypeOK

LEMMA SetupFailsResult ==
    ASSUME ServiceTypeOK, SetupFails
    PROVE  /\ Fails /\ failures' \in Nat
           /\ UNCHANGED seOpen \/ (seOpen' = {} /\ Diverges)
  BY DEF Steady, Diverges, SetupFails, Fails, ServiceTypeOK

LEMMA HalInitResult ==
    ASSUME ServiceTypeOK, HalInitOk \/ HalInitFails
    PROVE  /\ isOpen' \in BOOLEAN /\ device' \in BOOLEAN
           /\ mFirstActivation' \in BOOLEAN
           /\ seOpen' \subseteq Logical
           /\ failures' \in Nat /\ (UNCHANGED failures \/ Fails)
           /\ isOpen' => mFirstActivation'
  <1>1. CASE HalInitOk
    BY <1>1 DEF HalInitOk, ServiceTypeOK
  <1>2. CASE HalInitFails
    <2>1. Fails \/ SetupFails
      BY <1>2 DEF HalInitFails
    <2>2. Fails /\ failures' \in Nat
      BY <2>1, SetupFailsResult DEF Fails, ServiceTypeOK
    <2>3. seOpen' \subseteq Logical
      BY <1>2, SetupFailsResult DEF HalInitFails, ServiceTypeOK
    <2>4. isOpen' = FALSE /\ device' \in BOOLEAN /\ UNCHANGED mFirstActivation
      BY <1>2, Zenon DEF HalInitFails
    <2>5. isOpen' \in BOOLEAN /\ mFirstActivation' \in BOOLEAN
      BY <2>4, Zenon DEF ServiceTypeOK
    <2>6. isOpen' => mFirstActivation'
      BY <2>4, Zenon
    <2> QED BY <2>2, <2>3, <2>4, <2>5, <2>6
  <1> QED BY <1>1, <1>2

(* Opening starts from an empty table: nothing a client holds is lost.     *)
LEMMA OpeningKeeps ==
    ASSUME SessionInv, ~isOpen, UNCHANGED tableVars, UNCHANGED held,
           HalInitOk \/ HalInitFails
    PROVE  /\ OpenChannels = {} /\ held = {}
           /\ SessionsUsable' /\ OpenWhileOpened' /\ TableStep
  <1>1. OpenChannels = {} /\ held = {}
    BY DEF SessionInv, OpenWhileOpened, SessionsUsable
  <1>2. OpenChannels' = OpenChannels /\ UNCHANGED mOpenedchannelCount
    BY TableKept DEF SessionInv
  <1>3. (isOpen' => mFirstActivation') /\ (UNCHANGED failures \/ Fails)
    BY HalInitResult DEF SessionInv
  <1> QED
    BY <1>1, <1>2, <1>3 DEF SessionsUsable, OpenWhileOpened, TableStep, Kept

(* A step that touches neither the table nor the link nor the SE.          *)
LEMMA NothingTouched ==
    ASSUME SessionInv, UNCHANGED tableVars, UNCHANGED openVars, UNCHANGED seOpen,
           UNCHANGED failures \/ Fails, held' \subseteq held
    PROVE  SessionsUsable' /\ OpenWhileOpened' /\ TableStep
  <1>1. OpenChannels' = OpenChannels /\ UNCHANGED mOpenedchannelCount
    BY TableKept DEF SessionInv
  <1> QED
    BY <1>1 DEF SessionInv, SessionsUsable, OpenWhileOpened, TableStep, Kept, openVars

(* The first state. *)
LEMMA HalInitInv == Init => SessionInv /\ OpenChannels = {} /\ seOpen = {}
  <1> SUFFICES ASSUME Init PROVE SessionInv /\ OpenChannels = {} /\ seOpen = {}
    OBVIOUS
  <1>1. mOpenedChannels = NoneOpened /\ NoneOpened \in [Channels -> BOOLEAN]
    BY DEF Init, NoneOpened
  <1>2. OpenChannels = {}
    BY <1>1 DEF OpenChannels, NoneOpened
  <1>3. ServiceTypeOK
    <2>1. isOpen \in BOOLEAN /\ device \in BOOLEAN /\ mFirstActivation \in BOOLEAN
      BY Zenon DEF Init
    <2>2. /\ ch \in Channels /\ mOpenedchannelCount \in 0..255 /\ failures \in Nat
          /\ seOpen \subseteq Logical /\ held \subseteq Channels
      BY ChannelsFinite DEF Init
    <2> QED BY <1>1, <2>1, <2>2 DEF Init, ServiceTypeOK
  <1>4. SessionsUsable /\ seOpen = {}
    BY <1>2 DEF Init, SessionsUsable
  <1>5. OpenWhileOpened
    BY <1>2, Zenon DEF Init, OpenWhileOpened
  <1>6. MethodInv /\ ChannelInv
    BY DEF Init, MethodInv, ChannelInv
  <1> QED BY <1>2, <1>3, <1>4, <1>5, <1>6 DEF SessionInv

-----------------------------------------------------------------------------
(* init and init_1_1. *)
LEMMA InitCallKeeps ==
    ASSUME SessionInv, NEW v \in {"1.0", "1.1"}, InitCall(v)
    PROVE  SessionInv' /\ TableStep
  <1>1. /\ UNCHANGED <<hpc, op, ch, held>> /\ UNCHANGED tableVars
        /\ hpc = "idle" /\ callback' = v /\ client' = "alive"
        /\ ch \in Channels /\ held \subseteq Channels
    BY DEF InitCall, methodVars, SessionInv, ServiceTypeOK
  <1>2. MethodInv' /\ ChannelInv'
    BY <1>1 DEF SessionInv, MethodInv, ChannelInv
  <1>3. CASE isOpen /\ UNCHANGED <<openVars, seOpen, failures>>
    <2>1. ServiceTypeOK'
      BY <1>1, <1>3, TableKept DEF SessionInv, ServiceTypeOK, TableTypeOK, openVars
    <2> QED BY <1>1, <1>2, <1>3, <2>1, NothingTouched DEF SessionInv
  <1>4. CASE ~isOpen /\ (HalInitOk \/ HalInitFails)
    <2>1. ServiceTypeOK'
      BY <1>1, <1>4, HalInitResult, TableKept DEF SessionInv, ServiceTypeOK, TableTypeOK
    <2> QED BY <1>1, <1>2, <1>4, <2>1, OpeningKeeps DEF SessionInv
  <1> QED BY <1>3, <1>4 DEF InitCall

(* openLogicalChannel and openBasicChannel up to their first exchange. *)
LEMMA OpenCallKeeps ==
    ASSUME SessionInv, OpenLogicalChannel \/ OpenBasicChannel
    PROVE  SessionInv' /\ TableStep
  <1>1. PICK first \in {"manage", "select"}, method \in {"logical", "basic"} :
           /\ OpenCall(first, method)
           /\ method = "basic" => first = "select" /\ 0 \notin held
           /\ method = "logical" => first = "manage"
    BY DEF OpenLogicalChannel, OpenBasicChannel
  <1>2. /\ hpc = "idle" /\ UNCHANGED tableVars /\ UNCHANGED <<callback, client, held>>
        /\ client = "alive"
    BY <1>1 DEF OpenCall, Called, clientVars
  <1>3. ASSUME Enter(first, method, 0), isOpen'
        PROVE  /\ MethodInv' /\ ChannelInv'
               /\ hpc' \in {"manage", "select"} /\ op' \in {"logical", "basic"}
               /\ ch' \in Channels
    BY <1>1, <1>2, <1>3, ChannelsFinite DEF Enter, SessionInv, MethodInv, ChannelInv
  <1>4. CASE Enter(first, method, 0) /\ isOpen /\ UNCHANGED <<openVars, seOpen, failures>>
    <2>1. isOpen'
      BY <1>4 DEF openVars
    <2>2. ServiceTypeOK'
      BY <1>2, <1>3, <1>4, <2>1, TableKept DEF SessionInv, ServiceTypeOK, TableTypeOK, openVars
    <2> QED BY <1>2, <1>3, <1>4, <2>1, <2>2, NothingTouched DEF SessionInv
  <1>5. CASE ~isOpen /\ HalInitOk /\ Enter(first, method, 0)
    <2>1. isOpen'
      BY <1>5, Zenon DEF HalInitOk
    <2>2. ServiceTypeOK'
      BY <1>2, <1>3, <1>5, <2>1, HalInitResult, TableKept
         DEF SessionInv, ServiceTypeOK, TableTypeOK
    <2> QED BY <1>2, <1>3, <1>5, <2>1, <2>2, OpeningKeeps DEF SessionInv
  <1>6. CASE ~isOpen /\ HalInitFails /\ UNCHANGED methodVars
    <2>1. UNCHANGED <<hpc, op, ch>>
      BY <1>6 DEF methodVars
    <2>2. ServiceTypeOK'
      BY <1>2, <1>6, <2>1, HalInitResult, TableKept DEF SessionInv, ServiceTypeOK, TableTypeOK
    <2>3. MethodInv' /\ ChannelInv'
      BY <1>2, <2>1 DEF SessionInv, MethodInv, ChannelInv
    <2> QED BY <1>2, <1>6, <2>2, <2>3, OpeningKeeps DEF SessionInv
  <1> QED BY <1>1, <1>4, <1>5, <1>6 DEF OpenCall

(* MANAGE CHANNEL (open): a channel the SE had free is no client's.        *)
LEMMA ManageChannelKeeps ==
    ASSUME SessionInv, ManageChannel
    PROVE  SessionInv' /\ TableStep
  <1> USE DEF SessionInv
  <1>1. /\ hpc = "manage" /\ isOpen /\ op = "logical"
        /\ UNCHANGED openVars /\ UNCHANGED <<isOpen, device, mFirstActivation>>
        /\ UNCHANGED <<callback, client, held>>
    BY DEF ManageChannel, MethodInv, openVars, clientVars
  <1>2. ASSUME NEW c \in Logical \ seOpen,
               seOpen' = seOpen \cup {c}, MarkOpen(c),
               hpc' = "select", ch' = c, UNCHANGED <<op, failures>>
        PROVE  SessionInv' /\ TableStep
    <2>1. c \in Channels /\ c # 0 /\ c \notin held
      BY <1>2 DEF Logical, SessionsUsable
    <2>2. /\ OpenChannels' = OpenChannels \cup {c}
          /\ mOpenedchannelCount' = (mOpenedchannelCount + 1) % 256
          /\ TableTypeOK'
      BY <1>2, <2>1, MarkOpenResult
    <2>3. ServiceTypeOK'
      BY <1>1, <1>2, <2>1, <2>2 DEF ServiceTypeOK, TableTypeOK
    <2>4. SessionsUsable' /\ OpenWhileOpened'
      BY <1>1, <1>2, <2>2 DEF SessionsUsable, OpenWhileOpened
    <2>5. MethodInv'
      BY <1>1, <1>2 DEF MethodInv
    <2>6. mOpenedChannels'[c]
      BY <1>2, <2>1 DEF MarkOpen, ServiceTypeOK
    <2>7. ChannelInv'
      BY <1>1, <1>2, <2>1, <2>6 DEF ChannelInv
    <2>8. Opened(c)
      BY <1>2, <2>1, <2>2 DEF Opened
    <2> QED BY <1>2, <2>1, <2>3, <2>4, <2>5, <2>7, <2>8 DEF TableStep
  <1>3. CASE Return /\ UNCHANGED <<tableVars, seOpen, failures>>
    <2>1. ServiceTypeOK'
      BY <1>1, <1>3, TableKept DEF ServiceTypeOK, TableTypeOK, Return
    <2>2. MethodInv' /\ ChannelInv'
      BY <1>1, <1>3 DEF MethodInv, ChannelInv, Return
    <2> QED BY <1>1, <1>3, <2>1, <2>2, NothingTouched
  <1>4. CASE /\ ExchangeFails({seOpen \cup {c} : c \in Logical})
             /\ GoOn("reset") /\ UNCHANGED tableVars
    <2> DEFINE effects == {seOpen \cup {c} : c \in Logical}
    <2>1. ExchangeFails(effects) /\ hpc' = "reset" /\ op' = op /\ ch' = ch
      BY <1>4 DEF GoOn
    <2>2. Fails /\ failures' \in Nat /\ (UNCHANGED seOpen \/ (seOpen' \in effects /\ Diverges))
      <3> HIDE DEF effects
      <3> QED BY <2>1, ExchangeFailsResult
    <2>3. seOpen \subseteq seOpen' /\ seOpen' \subseteq Logical
      BY <2>2 DEF ServiceTypeOK
    <2>4. ServiceTypeOK'
      BY <1>1, <1>4, <2>1, <2>2, <2>3, TableKept DEF ServiceTypeOK, TableTypeOK
    <2>5. OpenChannels' = OpenChannels /\ UNCHANGED mOpenedchannelCount
      BY <1>4, TableKept
    <2>6. SessionsUsable' /\ OpenWhileOpened'
      BY <1>1, <2>3, <2>5 DEF SessionsUsable, OpenWhileOpened
    <2>7. MethodInv' /\ ChannelInv'
      BY <1>1, <2>1 DEF MethodInv, ChannelInv
    <2>8. TableStep
      BY <2>2, <2>5 DEF TableStep, Kept
    <2> QED BY <2>4, <2>6, <2>7, <2>8
  <1> QED BY <1>2, <1>3, <1>4 DEF ManageChannel

(* What openBasicChannel leaves when it gives up.                          *)
LEMMA DropBasicResult ==
    ASSUME SessionInv, Covered, DropBasicChannel
    PROVE  /\ OpenChannels' \subseteq OpenChannels
           /\ OpenChannels \subseteq OpenChannels' \cup {0}
           /\ isOpen' = isOpen /\ device' \in BOOLEAN /\ UNCHANGED mFirstActivation
           /\ TableTypeOK'
           /\ (UNCHANGED failures \/ Fails) /\ (UNCHANGED seOpen \/ Diverges) => TableStep
  <1> USE DEF SessionInv
  <1>1. CASE op = "basic" /\ mOpenedChannels[0]
    <2>1. MarkClosed(0) /\ OpenProcessing /\ 0 \in OpenChannels /\ 0 \in Channels
      BY <1>1, TableAsSet, ChannelsFinite DEF DropBasicChannel, OpenProcessing
    <2>2. isOpen = TRUE
      BY <2>1 DEF OpenWhileOpened, ServiceTypeOK
    <2>3. /\ OpenChannels' = OpenChannels \ {0}
          /\ mOpenedchannelCount' = mOpenedchannelCount - 1
          /\ TableTypeOK'
          /\ isOpen' = (OpenProcessing \/ mOpenedchannelCount' # 0)
          /\ isOpen' \in BOOLEAN /\ device' \in BOOLEAN /\ UNCHANGED mFirstActivation
      BY <2>1, MarkClosedResult
    <2>4. isOpen' = isOpen
      BY <2>1, <2>2, <2>3
    <2>5. ASSUME UNCHANGED failures \/ Fails, UNCHANGED seOpen \/ Diverges
          PROVE  TableStep
      <3>1. 0 \notin seOpen
        BY DEF ServiceTypeOK, Logical
      <3>2. Closed(0)
        BY <2>1, <2>3, <2>5, <3>1 DEF Closed
      <3> QED BY <2>1, <2>5, <3>2 DEF TableStep
    <2> QED BY <2>3, <2>4, <2>5
  <1>2. CASE ~(op = "basic" /\ mOpenedChannels[0])
    <2>1. UNCHANGED <<isOpen, device, mFirstActivation>> /\ UNCHANGED tableVars
      BY <1>2 DEF DropBasicChannel, openVars
    <2>2. /\ OpenChannels' = OpenChannels /\ UNCHANGED mOpenedchannelCount
          /\ TableTypeOK' /\ device' \in BOOLEAN
      BY <2>1, TableKept DEF ServiceTypeOK
    <2> QED BY <2>1, <2>2 DEF TableStep, Kept
  <1> QED BY <1>1, <1>2

(* SELECT.                                                                 *)
LEMMA SelectKeeps ==
    ASSUME SessionInv, Covered, Select
    PROVE  SessionInv' /\ TableStep
  <1> USE DEF SessionInv
  <1>1. /\ hpc = "select" /\ isOpen
        /\ op = "logical" \/ (op = "basic" /\ ch = 0 /\ 0 \notin held)
        /\ UNCHANGED <<callback, client>>
        /\ ch \in Channels
    BY DEF Select, MethodInv, ServiceTypeOK
  <1>2. op = "logical" => /\ ch # 0 /\ ch \in OpenChannels /\ ch \notin held
                          /\ mOpenedChannels[ch] /\ ch \in seOpen
    BY <1>1, TableAsSet DEF ChannelInv
  <1>3. CASE /\ GiveClient /\ Return
             /\ IF op = "basic" /\ ~mOpenedChannels[0] THEN MarkOpen(0)
                                                       ELSE UNCHANGED tableVars
             /\ UNCHANGED <<openVars, seOpen, failures>>
    <2>1. /\ hpc' = "idle" /\ op' = "none" /\ ch' = ch
          /\ held' = held \/ held' = held \cup {ch}
          /\ client = "dead" => held' = held
          /\ UNCHANGED <<isOpen, device, mFirstActivation, seOpen, failures>>
      BY <1>3 DEF Return, GiveClient, openVars
    <2>2. OpenChannels' = OpenChannels \cup {ch} /\ TableTypeOK' /\ TableStep
      <3>1. CASE op = "basic" /\ ~mOpenedChannels[0]
        <4>1. ch = 0 /\ MarkOpen(0) /\ 0 \notin OpenChannels /\ 0 \notin seOpen
          BY <1>1, <1>3, <3>1, TableAsSet DEF ServiceTypeOK, Logical
        <4>2. /\ OpenChannels' = OpenChannels \cup {0} /\ TableTypeOK'
              /\ mOpenedchannelCount' = (mOpenedchannelCount + 1) % 256
          BY <1>1, <4>1, MarkOpenResult
        <4>3. Opened(0)
          BY <2>1, <4>1, <4>2 DEF Opened
        <4> QED BY <1>1, <2>1, <4>1, <4>2, <4>3 DEF TableStep
      <3>2. CASE ~(op = "basic" /\ ~mOpenedChannels[0])
        <4>1. UNCHANGED tableVars
          BY <1>3, <3>2
        <4>2. ch \in OpenChannels
          BY <1>1, <1>2, <3>2, TableAsSet
        <4>3. /\ OpenChannels' = OpenChannels /\ UNCHANGED mOpenedchannelCount
              /\ TableTypeOK'
          BY <4>1, TableKept
        <4> QED BY <2>1, <4>2, <4>3 DEF TableStep, Kept
      <3> QED BY <3>1, <3>2
    <2>3. ServiceTypeOK'
      BY <1>1, <2>1, <2>2 DEF ServiceTypeOK, TableTypeOK
    <2>4. ch # 0 => ch \in seOpen
      BY <1>1, <1>2
    <2>5. SessionsUsable' /\ OpenWhileOpened'
      BY <1>1, <1>2, <2>1, <2>2, <2>4 DEF SessionsUsable, OpenWhileOpened
    <2>6. MethodInv' /\ ChannelInv'
      BY <1>1, <2>1 DEF MethodInv, ChannelInv
    <2> QED BY <2>2, <2>3, <2>5, <2>6
  <1>4. CASE /\ op = "basic" /\ DropBasicChannel /\ Return
             /\ UNCHANGED <<seOpen, held, failures>>
    <2>1. hpc' = "idle" /\ op' = "none" /\ ch' = ch
      BY <1>4 DEF Return
    <2>2. /\ OpenChannels' \subseteq OpenChannels
          /\ OpenChannels \subseteq OpenChannels' \cup {0}
          /\ isOpen' = isOpen /\ device' \in BOOLEAN /\ UNCHANGED mFirstActivation
          /\ TableTypeOK' /\ TableStep
      BY <1>4, DropBasicResult
    <2>3. ServiceTypeOK'
      BY <1>1, <1>4, <2>1, <2>2 DEF ServiceTypeOK, TableTypeOK
    <2>4. SessionsUsable' /\ OpenWhileOpened'
      BY <1>1, <1>4, <2>2 DEF SessionsUsable, OpenWhileOpened
    <2>5. MethodInv' /\ ChannelInv'
      BY <1>1, <1>4, <2>1 DEF MethodInv, ChannelInv
    <2> QED BY <2>2, <2>3, <2>4, <2>5
  <1>5. ASSUME hpc' \in {"undo", "reset"}, hpc' = "undo" => op = "logical",
               UNCHANGED <<op, ch, seOpen, held>>,
               UNCHANGED openVars, UNCHANGED tableVars,
               failures' \in Nat, UNCHANGED failures \/ Fails
        PROVE  SessionInv' /\ TableStep
    <2>1. UNCHANGED mOpenedChannels
      BY <1>5 DEF tableVars
    <2>2. ServiceTypeOK'
      BY <1>1, <1>5, TableKept DEF ServiceTypeOK, TableTypeOK, openVars
    <2>3. MethodInv' /\ ChannelInv'
      BY <1>1, <1>5, <2>1 DEF MethodInv, ChannelInv
    <2> QED BY <1>5, <2>2, <2>3, NothingTouched
  <1>6. CASE /\ op # "basic" /\ GoOn("undo")
             /\ UNCHANGED <<openVars, tableVars, seOpen, held, failures>>
    <2>1. /\ hpc' = "undo" /\ op = "logical" /\ failures' \in Nat
          /\ UNCHANGED <<op, ch, seOpen, held, failures>>
          /\ UNCHANGED openVars /\ UNCHANGED tableVars
      BY <1>1, <1>6 DEF GoOn, ServiceTypeOK
    <2> QED BY <1>5, <2>1
  <1>7. CASE /\ ExchangeFails({}) /\ GoOn("reset")
             /\ UNCHANGED <<openVars, tableVars, held>>
    <2>1. UNCHANGED seOpen /\ Fails /\ failures' \in Nat
      BY <1>7, ExchangeFailsResult
    <2>2. /\ hpc' = "reset"
          /\ UNCHANGED <<op, ch, seOpen, held>>
          /\ UNCHANGED openVars /\ UNCHANGED tableVars
      BY <1>7, <2>1 DEF GoOn
    <2> QED BY <1>5, <2>1, <2>2
  <1> QED BY <1>3, <1>4, <1>6, <1>7 DEF Select, Selected

(* closeChannel of the basic channel.                                      *)
LEMMA CloseBasicKeeps ==
    ASSUME SessionInv, Covered, NoStray, CloseBasicChannel
    PROVE  /\ SessionInv' /\ TableStep
           /\ 0 \in OpenChannels /\ OpenChannels' = OpenChannels \ {0}
           /\ isOpen' = (mOpenedchannelCount' # 0) /\ UNCHANGED mFirstActivation
  <1> USE DEF SessionInv
  <1>1. /\ hpc = "idle" /\ op = "none" /\ 0 \in held /\ MarkClosed(0)
        /\ held' = held \ {0}
        /\ UNCHANGED <<hpc, op, ch, callback, seOpen, client, failures>>
    BY DEF CloseBasicChannel, Called, MethodInv, NoStray, methodVars
  <1>2. 0 \in OpenChannels /\ 0 \in Channels /\ 0 \notin seOpen
    BY <1>1, ChannelsFinite DEF SessionsUsable, ServiceTypeOK, Logical
  <1>3. /\ OpenChannels' = OpenChannels \ {0}
        /\ mOpenedchannelCount' = mOpenedchannelCount - 1
        /\ TableTypeOK'
        /\ isOpen' = (OpenProcessing \/ mOpenedchannelCount' # 0)
        /\ isOpen' \in BOOLEAN /\ device' \in BOOLEAN /\ UNCHANGED mFirstActivation
        /\ OpenChannels' # {} => isOpen'
    BY <1>1, <1>2, MarkClosedResult
  <1>4. isOpen' = (mOpenedchannelCount' # 0)
    BY <1>1, <1>3 DEF OpenProcessing
  <1>5. ServiceTypeOK'
    BY <1>1, <1>3 DEF ServiceTypeOK, TableTypeOK
  <1>6. SessionsUsable' /\ OpenWhileOpened'
    BY <1>1, <1>2, <1>3 DEF SessionsUsable, OpenWhileOpened
  <1>7. MethodInv' /\ ChannelInv'
    BY <1>1 DEF MethodInv, ChannelInv
  <1>8. Closed(0)
    BY <1>1, <1>2, <1>3 DEF Closed
  <1> QED BY <1>1, <1>2, <1>3, <1>4, <1>5, <1>6, <1>7, <1>8 DEF TableStep

(* closeChannel of a logical channel, up to its exchange.                  *)
LEMMA CloseLogicalKeeps ==
    ASSUME SessionInv, NEW c \in Logical, CloseLogicalChannel(c)
    PROVE  SessionInv' /\ TableStep
  <1> USE DEF SessionInv
  <1>1. /\ hpc' = "close" /\ op' = "close" /\ ch' = c
        /\ held' = held \ {c} /\ mOpenedChannels[c]
        /\ UNCHANGED openVars /\ UNCHANGED tableVars /\ UNCHANGED mOpenedChannels
        /\ UNCHANGED <<callback, seOpen, client, failures>>
        /\ c \in Channels /\ c # 0
    BY DEF CloseLogicalChannel, Enter, Logical, tableVars
  <1>2. ServiceTypeOK'
    BY <1>1, TableKept DEF ServiceTypeOK, TableTypeOK, openVars
  <1>3. MethodInv' /\ ChannelInv'
    BY <1>1 DEF MethodInv, ChannelInv
  <1> QED BY <1>1, <1>2, <1>3, NothingTouched

(* MANAGE CHANNEL (close).                                                 *)
LEMMA CloseInSeKeeps ==
    ASSUME SessionInv, Covered, CloseInSe
    PROVE  /\ SessionInv' /\ TableStep
           /\ OpenChannels' = OpenChannels
              \/ /\ OpenChannels' = OpenChannels \ {ch}
                 /\ isOpen' = (OpenProcessing \/ mOpenedchannelCount' # 0)
  <1> USE DEF SessionInv
  <1>1. /\ hpc \in {"undo", "close"}
        /\ hpc' = "idle" /\ op' = "none" /\ ch' = ch
        /\ UNCHANGED <<callback, client, held>>
    BY DEF CloseInSe, Return, clientVars
  <1>2. ch \in Channels /\ ch # 0 /\ ch \in OpenChannels /\ ch \notin held
    BY <1>1, TableAsSet DEF ChannelInv, ServiceTypeOK
  <1>3. MethodInv' /\ ChannelInv'
    BY <1>1 DEF MethodInv, ChannelInv
  <1>4. CASE ch \in seOpen /\ seOpen' = seOpen \ {ch} /\ MarkClosed(ch)
             /\ UNCHANGED failures
    <2>1. /\ OpenChannels' = OpenChannels \ {ch}
          /\ mOpenedchannelCount' = mOpenedchannelCount - 1
          /\ TableTypeOK'
          /\ isOpen' = (OpenProcessing \/ mOpenedchannelCount' # 0)
          /\ isOpen' \in BOOLEAN /\ device' \in BOOLEAN /\ UNCHANGED mFirstActivation
          /\ OpenChannels' # {} => isOpen'
      BY <1>2, <1>4, MarkClosedResult
    <2>2. ServiceTypeOK'
      BY <1>1, <1>4, <2>1 DEF ServiceTypeOK, TableTypeOK
    <2>3. SessionsUsable'
      BY <1>1, <1>2, <1>4, <2>1 DEF SessionsUsable
    <2>4. OpenWhileOpened'
      BY <1>2, <2>1 DEF OpenWhileOpened
    <2>5. Closed(ch)
      BY <1>2, <1>4, <2>1 DEF Closed
    <2> QED BY <1>2, <1>3, <1>4, <2>1, <2>2, <2>3, <2>4, <2>5 DEF TableStep
  <1>5. ASSUME UNCHANGED openVars, UNCHANGED tableVars,
               UNCHANGED failures \/ Fails, failures' \in Nat,
               UNCHANGED seOpen \/ (seOpen' = seOpen \ {ch} /\ Diverges)
        PROVE  SessionInv' /\ TableStep /\ OpenChannels' = OpenChannels
    <2>1. OpenChannels' = OpenChannels /\ UNCHANGED mOpenedchannelCount
      BY <1>5, TableKept
    <2>2. UNCHANGED <<isOpen, device, mFirstActivation>>
      BY <1>5 DEF openVars
    <2>3. ServiceTypeOK'
      BY <1>1, <1>5, <2>2, TableKept DEF ServiceTypeOK, TableTypeOK
    <2>4. SessionsUsable' /\ OpenWhileOpened'
      BY <1>1, <1>2, <1>5, <2>1, <2>2 DEF SessionsUsable, OpenWhileOpened
    <2>5. TableStep
      BY <1>5, <2>1 DEF TableStep, Kept
    <2> QED BY <1>3, <2>1, <2>3, <2>4, <2>5
  <1>6. CASE ch \notin seOpen /\ UNCHANGED <<openVars, tableVars, seOpen, failures>>
    <2>1. /\ UNCHANGED openVars /\ UNCHANGED tableVars /\ failures' \in Nat
          /\ UNCHANGED seOpen /\ UNCHANGED failures
      BY <1>6 DEF ServiceTypeOK
    <2> QED BY <1>5, <2>1
  <1>7. CASE ExchangeFails({seOpen \ {ch}}) /\ UNCHANGED <<openVars, tableVars>>
    <2> DEFINE effects == {seOpen \ {ch}}
    <2>1. ExchangeFails(effects)
      BY <1>7
    <2>2. Fails /\ failures' \in Nat /\ (UNCHANGED seOpen \/ (seOpen' \in effects /\ Diverges))
      <3> HIDE DEF effects
      <3> QED BY <2>1, ExchangeFailsResult
    <2>3. UNCHANGED seOpen \/ (seOpen' = seOpen \ {ch} /\ Diverges)
      BY <2>2
    <2> QED BY <1>5, <1>7, <2>2, <2>3
  <1> QED BY <1>4, <1>5, <1>6, <1>7 DEF CloseInSe

-----------------------------------------------------------------------------
(* transmit that fails, and what seHalResetSe does next.                   *)
LEMMA TransmitKeeps ==
    ASSUME SessionInv, Transmit
    PROVE  SessionInv' /\ TableStep
  <1> USE DEF SessionInv
  <1>1. /\ hpc' \in {"reset", "reopen"} /\ op' = "transmit" /\ ch' = ch
        /\ UNCHANGED openVars /\ UNCHANGED tableVars
        /\ UNCHANGED <<isOpen, device, mFirstActivation, callback, seOpen, client, held>>
        /\ failures' \in Nat /\ (UNCHANGED failures \/ Fails)
        /\ hpc' = "reopen" => ~isOpen
    BY DEF Transmit, Enter, Fails, ServiceTypeOK, openVars, clientVars
  <1>2. ServiceTypeOK'
    BY <1>1, TableKept DEF ServiceTypeOK, TableTypeOK
  <1>3. MethodInv' /\ ChannelInv'
    BY <1>1 DEF MethodInv, ChannelInv
  <1> QED BY <1>1, <1>2, <1>3, NothingTouched

(* Reopening starts from a closed SE only. *)
LEMMA ReopenKeeps ==
    ASSUME SessionInv, Reopen
    PROVE  SessionInv' /\ TableStep
  <1> USE DEF SessionInv
  <1>1. /\ hpc' = "reset" /\ UNCHANGED <<op, ch, callback, client, held>>
        /\ UNCHANGED tableVars /\ ~isOpen
        /\ HalInitOk \/ HalInitFails
    BY DEF Reopen, GoOn, clientVars, MethodInv
  <1>2. ServiceTypeOK'
    BY <1>1, TableKept, HalInitResult DEF ServiceTypeOK, TableTypeOK
  <1>3. MethodInv' /\ ChannelInv'
    BY <1>1 DEF MethodInv, ChannelInv
  <1> QED BY <1>1, <1>2, <1>3, OpeningKeeps

(* seHalResetSe: the client is told, then the table is emptied or kept.    *)
LEMMA ResetSeKeeps ==
    ASSUME SessionInv, Covered, ResetSe
    PROVE  SessionInv' /\ TableStep
  <1> USE DEF SessionInv
  <1>1. /\ held' = {} /\ hpc' = "idle" /\ op' = "none" /\ ch' = ch
        /\ UNCHANGED <<callback, client>>
    BY DEF ResetSe, TellClientReset, Return
  <1>2. SessionsUsable' /\ MethodInv' /\ ChannelInv'
    BY <1>1 DEF SessionsUsable, MethodInv, ChannelInv
  <1>3. CASE seOpen' = {} /\ ClearTable /\ UNCHANGED <<openVars, failures>>
    <2>1. Cleared /\ TableTypeOK'
      BY <1>3, ClearTableResult
    <2>2. UNCHANGED <<isOpen, device, mFirstActivation, failures>> /\ seOpen' = {}
      BY <1>3 DEF openVars
    <2>3. ServiceTypeOK'
      BY <1>1, <2>1, <2>2 DEF ServiceTypeOK, TableTypeOK
    <2>4. OpenWhileOpened' /\ TableStep
      BY <2>1, <2>2 DEF OpenWhileOpened, TableStep, Cleared
    <2> QED BY <1>2, <2>3, <2>4
  <1>4. ASSUME DropBasicChannel, UNCHANGED seOpen \/ (seOpen' = {} /\ Diverges),
               UNCHANGED failures \/ Fails, failures' \in Nat
        PROVE  SessionInv' /\ TableStep
    <2>1. /\ OpenChannels' \subseteq OpenChannels
          /\ isOpen' = isOpen /\ device' \in BOOLEAN /\ UNCHANGED mFirstActivation
          /\ TableTypeOK' /\ TableStep
      BY <1>4, DropBasicResult
    <2>2. ServiceTypeOK'
      BY <1>1, <1>4, <2>1 DEF ServiceTypeOK, TableTypeOK
    <2>3. OpenWhileOpened'
      BY <2>1 DEF OpenWhileOpened
    <2> QED BY <1>2, <2>1, <2>2, <2>3
  <1>5. ASSUME SetupFails
        PROVE  /\ UNCHANGED seOpen \/ (seOpen' = {} /\ Diverges)
               /\ Fails /\ failures' \in Nat
    BY <1>5, SetupFailsResult
  <1>6. ASSUME UNCHANGED failures
        PROVE  failures' \in Nat
    BY <1>6 DEF ServiceTypeOK
  <1> QED BY <1>3, <1>4, <1>5, <1>6 DEF ResetSe

(* seHalDeInit in serviceDied. *)
LEMMA ServiceDiedKeeps ==
    ASSUME SessionInv, ServiceDied
    PROVE  SessionInv' /\ TableStep
  <1> USE DEF SessionInv
  <1>1. /\ hpc = "idle" /\ UNCHANGED <<hpc, op, ch, seOpen, held, failures>>
        /\ callback' \in {"none", "1.0", "1.1"} /\ client' = "none"
        /\ HalDeInit /\ held = {}
    BY DEF ServiceDied, MethodInv, methodVars, ServiceTypeOK
  <1>2. MethodInv' /\ ChannelInv' /\ SessionsUsable'
    BY <1>1 DEF MethodInv, ChannelInv, SessionsUsable
  <1>3. CASE isOpen
    <2>1. isOpen' = FALSE /\ device' = FALSE /\ ClearTable /\ UNCHANGED mFirstActivation
      BY <1>1, <1>3 DEF HalDeInit
    <2>2. Cleared /\ TableTypeOK'
      BY <2>1, ClearTableResult
    <2>3. isOpen' \in BOOLEAN /\ device' \in BOOLEAN /\ (~isOpen')
      BY <2>1, Zenon
    <2>4. ServiceTypeOK'
      BY <1>1, <2>1, <2>2, <2>3 DEF ServiceTypeOK, TableTypeOK
    <2>5. OpenWhileOpened' /\ TableStep
      BY <1>1, <2>2, <2>3 DEF OpenWhileOpened, TableStep, Cleared
    <2> QED BY <1>2, <2>4, <2>5
  <1>4. CASE ~isOpen
    <2>1. UNCHANGED openVars /\ UNCHANGED tableVars
      BY <1>1, <1>4 DEF HalDeInit
    <2>2. ServiceTypeOK'
      BY <1>1, <2>1, TableKept DEF ServiceTypeOK, TableTypeOK, openVars
    <2> QED BY <1>1, <1>2, <2>1, <2>2, NothingTouched
  <1> QED BY <1>3, <1>4

(* Deaths of the client and of the service, and the restart. *)
LEMMA WorldKeeps ==
    ASSUME SessionInv, ClientDies \/ Killed \/ ResetCrashes \/ Restart
    PROVE  SessionInv' /\ TableStep
  <1> USE DEF SessionInv
  <1>1. CASE ClientDies \/ Killed \/ ResetCrashes
    <2>1. /\ UNCHANGED <<op, ch>> /\ UNCHANGED tableVars /\ UNCHANGED openVars
          /\ UNCHANGED <<isOpen, device, mFirstActivation, callback, seOpen, failures>>
          /\ held' \subseteq held
          /\ hpc' = hpc \/ hpc' = "dead"
          /\ client' = client \/ (client' = "dead" /\ held' = {})
          /\ UNCHANGED mOpenedChannels
      BY <1>1 DEF ClientDies, Killed, ResetCrashes, methodVars, openVars, tableVars, clientVars
    <2>2. ServiceTypeOK'
      BY <2>1, TableKept DEF ServiceTypeOK, TableTypeOK
    <2>3. MethodInv'
      BY <2>1 DEF MethodInv
    <2>4. ChannelInv'
      BY <2>1 DEF ChannelInv
    <2> QED BY <2>1, <2>2, <2>3, <2>4, NothingTouched
  <1>2. CASE Restart
    <2>1. /\ hpc' = "idle" /\ op' = "none" /\ ch' = 0 /\ held' = {}
          /\ callback' = "none" /\ client' = "none"
          /\ UNCHANGED <<seOpen, failures>> /\ ClearTable
      BY <1>2 DEF Restart
    <2>2. /\ isOpen' \in BOOLEAN /\ device' \in BOOLEAN /\ mFirstActivation' \in BOOLEAN
          /\ ~isOpen'
      BY <1>2, Zenon DEF Restart
    <2>3. Cleared /\ TableTypeOK'
      BY <2>1, ClearTableResult
    <2>4. ServiceTypeOK'
      BY <2>1, <2>2, <2>3, ChannelsFinite DEF ServiceTypeOK, TableTypeOK
    <2>5. SessionsUsable' /\ OpenWhileOpened' /\ MethodInv' /\ ChannelInv' /\ TableStep
      BY <2>1, <2>2, <2>3
      DEF SessionsUsable, OpenWhileOpened, MethodInv, ChannelInv, TableStep, Cleared
    <2> QED BY <2>4, <2>5
  <1> QED BY <1>1, <1>2

(* Every step. *)
LEMMA StepKeeps ==
    ASSUME SessionInv, Covered, NoStray, [Next]_vars
    PROVE  SessionInv' /\ TableStep
  <1>1. CASE UNCHANGED vars
    <2>1. UNCHANGED <<hpc, op, ch, isOpen, device, mFirstActivation, mOpenedChannels,
                      mOpenedchannelCount, callback, seOpen, client, held, failures>>
      BY <1>1 DEF vars, methodVars, openVars, tableVars, clientVars
    <2>2. OpenChannels' = OpenChannels
      BY <2>1 DEF OpenChannels
    <2>3. ServiceTypeOK'
      BY <2>1 DEF SessionInv, ServiceTypeOK
    <2>4. SessionsUsable' /\ OpenWhileOpened' /\ TableStep
      BY <2>1, <2>2 DEF SessionInv, SessionsUsable, OpenWhileOpened, TableStep, Kept
    <2>5. MethodInv' /\ ChannelInv'
      BY <2>1 DEF SessionInv, MethodInv, ChannelInv
    <2> QED BY <2>3, <2>4, <2>5 DEF SessionInv
  <1>2. CASE \E version \in {"1.0", "1.1"} : InitCall(version)
    BY <1>2, InitCallKeeps
  <1>3. CASE OpenLogicalChannel \/ OpenBasicChannel
    BY <1>3, OpenCallKeeps
  <1>4. CASE ManageChannel
    BY <1>4, ManageChannelKeeps
  <1>5. CASE Select
    BY <1>5, SelectKeeps
  <1>6. CASE CloseBasicChannel
    BY <1>6, CloseBasicKeeps
  <1>7. CASE \E c \in Logical : CloseLogicalChannel(c)
    BY <1>7, CloseLogicalKeeps
  <1>8. CASE CloseInSe
    BY <1>8, CloseInSeKeeps
  <1>9. CASE Transmit
    BY <1>9, TransmitKeeps
  <1>10. CASE Reopen
    BY <1>10, ReopenKeeps
  <1>11. CASE ResetSe
    BY <1>11, ResetSeKeeps
  <1>12. CASE ServiceDied
    BY <1>12, ServiceDiedKeeps
  <1>13. CASE ClientDies \/ Killed \/ ResetCrashes \/ Restart
    BY <1>13, WorldKeeps
  <1> QED
    BY <1>1, <1>2, <1>3, <1>4, <1>5, <1>6, <1>7, <1>8, <1>9, <1>10, <1>11, <1>12, <1>13
    DEF Next

-----------------------------------------------------------------------------
(* While the SE follows the service a channel of the table is one of the   *)
(* SE, so that none is opened, and counted, a second time.                 *)
LEMMA TableStepCounts ==
    ASSUME Steady, HalInv, TableStep
    PROVE  CountMatches' /\ TableInSe'
  <1> USE DEF HalInv, SessionInv
  <1>1. /\ OpenChannels \in SUBSET Channels
        /\ mOpenedchannelCount = Cardinality(OpenChannels)
        /\ OpenChannels \ {0} \subseteq seOpen /\ ~Diverges
    BY DEF CountMatches, TableInSe, OpenChannels, Diverges
  <1>2. CASE Kept
    BY <1>1, <1>2 DEF Kept, CountMatches, TableInSe
  <1>3. CASE Cleared
    BY <1>3, FS_EmptySet DEF Cleared, CountMatches, TableInSe
  <1>4. ASSUME NEW c \in Channels, Opened(c)
        PROVE  CountMatches' /\ TableInSe'
    <2>1. c \notin OpenChannels
      BY <1>1, <1>4 DEF Opened
    <2>2. /\ Cardinality(OpenChannels \cup {c}) = Cardinality(OpenChannels) + 1
          /\ Cardinality(OpenChannels) \in 0..255
          /\ Cardinality(OpenChannels \cup {c}) \in 0..255
      BY <1>1, <2>1, OneMore, ChannelsFinite
    <2>3. (mOpenedchannelCount + 1) % 256 = mOpenedchannelCount + 1
      <3>1. \A n \in 0..254 : (n + 1) % 256 = n + 1
        OBVIOUS
      <3> QED BY <1>1, <2>2, <3>1
    <2>4. /\ OpenChannels' = OpenChannels \cup {c}
          /\ mOpenedchannelCount' = mOpenedchannelCount + 1
          /\ seOpen' = seOpen \cup ({c} \ {0})
      BY <1>4, <2>3 DEF Opened
    <2> QED BY <1>1, <2>2, <2>4 DEF CountMatches, TableInSe
  <1>5. ASSUME NEW c \in Channels, Closed(c)
        PROVE  CountMatches' /\ TableInSe'
    <2>1. /\ c \in OpenChannels /\ OpenChannels' = OpenChannels \ {c}
          /\ mOpenedchannelCount' = mOpenedchannelCount - 1
          /\ seOpen' = seOpen \ {c}
      BY <1>1, <1>5 DEF Closed
    <2>2. Cardinality(OpenChannels \ {c}) = Cardinality(OpenChannels) - 1
      BY <1>1, <2>1, OneMore
    <2> QED BY <1>1, <2>1, <2>2 DEF CountMatches, TableInSe
  <1> QED BY <1>2, <1>3, <1>4, <1>5 DEF TableStep

(* What the invariant gives to the steps. *)
LEMMA HalInvCovers ==
    ASSUME Steady, HalInv
    PROVE  SessionInv /\ Covered /\ NoStray
  <1>1. Cardinality(OpenChannels) \in 0..255
    BY ChannelsFinite DEF OpenChannels
  <1> QED BY <1>1 DEF HalInv, CountMatches, Covered, NoStray, Steady

LEMMA HalStepInv ==
    ASSUME Steady, HalInv, [Next]_vars
    PROVE  HalInv'
  <1>1. SessionInv' /\ TableStep
    BY HalInvCovers, StepKeeps
  <1> QED BY <1>1, TableStepCounts DEF HalInv

LEMMA HalInitHolds == Init => HalInv
  <1> SUFFICES ASSUME Init PROVE HalInv
    OBVIOUS
  <1>1. SessionInv /\ OpenChannels = {}
    BY HalInitInv
  <1>2. mOpenedchannelCount = 0
    BY DEF Init
  <1> QED BY <1>1, <1>2, FS_EmptySet DEF HalInv, CountMatches, TableInSe

(* A client's closeChannel that closes a channel closes the SE with it     *)
(* exactly when no other channel is open.                                  *)
LEMMA ClosingStep ==
    ASSUME Steady, HalInv, [Next]_vars, NEW c \in Channels, ClientCloses(c)
    PROVE  isOpen' = (OpenChannels \ {c} # {})
  <1>1. SessionInv /\ Covered /\ NoStray
    BY HalInvCovers
  <1>2. ASSUME OpenChannels' = OpenChannels \ {c},
               isOpen' = (mOpenedchannelCount' # 0)
        PROVE  isOpen' = (OpenChannels \ {c} # {})
    <2>1. mOpenedchannelCount' = Cardinality(OpenChannels \ {c})
      BY <1>2, HalStepInv DEF HalInv, CountMatches
    <2>2. OpenChannels \ {c} \in SUBSET Channels
      BY DEF OpenChannels
    <2>3. Cardinality(OpenChannels \ {c}) = 0 <=> OpenChannels \ {c} = {}
      BY <2>2, OneMore
    <2> QED BY <1>2, <2>1, <2>3
  <1>3. CASE c = 0 /\ CloseBasicChannel
    BY <1>1, <1>2, <1>3, CloseBasicKeeps
  <1>4. CASE hpc = "close" /\ ch = c /\ c \in OpenChannels /\ c \notin OpenChannels'
    <2>1. op = "close"
      BY <1>1, <1>4 DEF SessionInv, MethodInv
    <2>2. CASE CloseInSe
      <3>1. /\ OpenChannels' = OpenChannels \ {c}
            /\ isOpen' = (OpenProcessing \/ mOpenedchannelCount' # 0)
        BY <1>1, <1>4, <2>2, CloseInSeKeeps
      <3>2. ~OpenProcessing
        BY <2>1 DEF OpenProcessing
      <3> QED BY <1>2, <3>1, <3>2
    <2>3. ASSUME UNCHANGED tableVars PROVE FALSE
      BY <1>4, <2>3 DEF tableVars, OpenChannels
    <2>4. CASE UNCHANGED vars
      BY <2>3, <2>4 DEF vars
    <2>5. CASE ClientDies \/ Killed
      BY <2>3, <2>5 DEF ClientDies, Killed
    <2>6. CloseInSe \/ UNCHANGED vars \/ ClientDies \/ Killed
      BY <1>4
      DEF Next, InitCall, OpenLogicalChannel, OpenBasicChannel, OpenCall, Called,
          ManageChannel, Select, CloseBasicChannel, CloseLogicalChannel, Transmit,
          Reopen, ResetSe, ResetCrashes, ServiceDied, Restart
    <2> QED BY <2>2, <2>4, <2>5, <2>6
  <1> QED BY <1>3, <1>4 DEF ClientCloses

(* The invariant of the channel table, whatever fails with no effect on    *)
(* the SE and whoever dies.                                                *)
THEOREM HalInvHolds == ASSUME Steady PROVE Spec => []HalInv
  <1>1. Init => HalInv
    BY HalInitHolds
  <1>2. HalInv /\ [Next]_vars => HalInv'
    BY HalStepInv
  <1> QED BY <1>1, <1>2, PTL DEF Spec

(* The count is the number of channels in the table: a uint8_t that never  *)
(* wraps, counts no channel twice and forgets none.                        *)
THEOREM CountMatchesHolds == ASSUME Steady PROVE Spec => []CountMatches
  <1>1. HalInv => CountMatches
    BY DEF HalInv
  <1> QED BY <1>1, HalInvHolds, PTL

(* closeChannel closes the SE with the last channel and never earlier. *)
THEOREM ClosesWhenLastHolds == ASSUME Steady PROVE Spec => ClosesWhenLast
  <1>1. HalInv /\ [Next]_vars =>
          [\A c \in Channels :
              ClientCloses(c) => isOpen' = (OpenChannels \ {c} # {})]_vars
    BY ClosingStep
  <1> QED BY <1>1, HalInvHolds, PTL DEF Spec, ClosesWhenLast

-----------------------------------------------------------------------------
(* How far the count may run ahead of the table, failure by failure.       *)
Slack == failures * MAX_LOGICAL_CHANNELS

LEMMA SlackGrows ==
    ASSUME SessionInv, CountCovers, NoWrap, UNCHANGED failures \/ Fails
    PROVE  /\ Slack \in Nat /\ Slack' \in Nat /\ Slack <= Slack'
           /\ Diverges => Slack' = Slack + MAX_LOGICAL_CHANNELS
           /\ Slack + MAX_LOGICAL_CHANNELS <= 255
           /\ failures' <= MaxFailures
  <1>1. /\ failures \in Nat /\ MaxFailures \in Nat /\ failures <= MaxFailures
        /\ MAX_LOGICAL_CHANNELS \in Nat
        /\ (MaxFailures + 1) * MAX_LOGICAL_CHANNELS <= 255
    BY HalAssumption DEF SessionInv, ServiceTypeOK, CountCovers, NoWrap
  <1>2. \A a, m \in Nat : a * m \in Nat /\ (a + 1) * m = a * m + m
    OBVIOUS
  <1>3. \A a, d, m \in Nat : (a + d) * m = a * m + d * m
    OBVIOUS
  <1>4. Slack \in Nat /\ (failures + 1) * MAX_LOGICAL_CHANNELS = Slack + MAX_LOGICAL_CHANNELS
    BY <1>1, <1>2 DEF Slack
  <1>5. Slack + MAX_LOGICAL_CHANNELS <= 255
    <2>1. PICK d \in Nat : MaxFailures + 1 = (failures + 1) + d
      <3>1. MaxFailures - failures \in Nat
        BY <1>1
      <3> QED BY <1>1, <3>1
    <2>2. (MaxFailures + 1) * MAX_LOGICAL_CHANNELS
             = (failures + 1) * MAX_LOGICAL_CHANNELS + d * MAX_LOGICAL_CHANNELS
      <3>1. failures + 1 \in Nat
        BY <1>1
      <3> QED BY <1>1, <1>3, <2>1, <3>1
    <2>3. d * MAX_LOGICAL_CHANNELS \in Nat
      BY <1>1, <1>2
    <2>4. (Slack + MAX_LOGICAL_CHANNELS) + d * MAX_LOGICAL_CHANNELS <= 255
      BY <1>1, <1>4, <2>2
    <2> QED BY <1>1, <1>4, <2>3, <2>4
  <1>6. CASE UNCHANGED failures
    <2>1. Slack' = Slack /\ ~Diverges
      BY <1>1, <1>6 DEF Slack, Diverges, Fails
    <2> QED BY <1>1, <1>4, <1>5, <1>6, <2>1
  <1>7. CASE Fails
    <2>1. failures' = failures + 1 /\ failures < MaxFailures
      BY <1>7 DEF Fails
    <2>2. Slack' = Slack + MAX_LOGICAL_CHANNELS
      BY <1>4, <2>1 DEF Slack
    <2> QED BY <1>1, <1>4, <1>5, <2>1, <2>2
  <1> QED BY <1>6, <1>7

(* A channel that is opened again was stale: the SE had forgotten it, the  *)
(* table had not.  Only a step that diverges makes channels stale.         *)
LEMMA TableStepCovers ==
    ASSUME SessionInv, CountCovers, NoWrap, TableStep
    PROVE  CountCovers'
  <1> USE DEF SessionInv
  <1>1. /\ Slack \in Nat /\ Slack' \in Nat /\ Slack <= Slack'
        /\ Diverges => Slack' = Slack + MAX_LOGICAL_CHANNELS
        /\ Slack + MAX_LOGICAL_CHANNELS <= 255
        /\ failures' <= MaxFailures
        /\ MAX_LOGICAL_CHANNELS \in Nat
    BY SlackGrows, HalAssumption DEF TableStep
  <1>2. /\ OpenChannels \in SUBSET Channels /\ Stale \in SUBSET Channels
        /\ Cardinality(OpenChannels) \in Nat /\ Cardinality(Stale) \in Nat
        /\ Cardinality(OpenChannels) <= MAX_LOGICAL_CHANNELS
        /\ mOpenedchannelCount \in Nat
        /\ Cardinality(OpenChannels) <= mOpenedchannelCount
        /\ mOpenedchannelCount + Cardinality(Stale) <= Cardinality(OpenChannels) + Slack
    BY ChannelsFinite DEF OpenChannels, Stale, CountCovers, Slack, ServiceTypeOK
  <1>3. /\ Cardinality(Stale') \in Nat
        /\ Cardinality(Stale') <= MAX_LOGICAL_CHANNELS
    <2>1. Stale' \in SUBSET Channels
      BY DEF Stale, OpenChannels
    <2> QED BY <2>1, ChannelsFinite
  <1> SUFFICES /\ Cardinality(OpenChannels') <= mOpenedchannelCount'
               /\ mOpenedchannelCount' + Cardinality(Stale')
                     <= Cardinality(OpenChannels') + Slack'
    BY <1>1 DEF CountCovers, Slack
  <1>4. CASE Kept
    <2>1. OpenChannels' = OpenChannels /\ mOpenedchannelCount' = mOpenedchannelCount
      BY <1>4 DEF Kept
    <2>2. CASE UNCHANGED seOpen
      <3>1. Stale' = Stale
        BY <2>1, <2>2 DEF Stale
      <3> QED BY <1>1, <1>2, <2>1, <3>1
    <2>3. CASE OpenChannels = {}
      <3>1. Stale' = {} /\ Cardinality({}) = 0
        BY <2>1, <2>3, FS_EmptySet DEF Stale
      <3> QED BY <1>1, <1>2, <2>1, <3>1
    <2>4. CASE Diverges
      BY <1>1, <1>2, <1>3, <2>1, <2>4
    <2> QED BY <1>4, <2>2, <2>3, <2>4 DEF Kept
  <1>5. CASE Cleared
    <2>1. OpenChannels' = {} /\ mOpenedchannelCount' = 0
      BY <1>5 DEF Cleared
    <2>2. Stale' = {} /\ Cardinality({}) = 0
      BY <2>1, FS_EmptySet DEF Stale
    <2> QED BY <1>1, <2>1, <2>2
  <1>6. ASSUME NEW c \in Channels, Opened(c)
        PROVE  /\ Cardinality(OpenChannels') <= mOpenedchannelCount'
               /\ mOpenedchannelCount' + Cardinality(Stale')
                     <= Cardinality(OpenChannels') + Slack'
    <2>1. /\ OpenChannels' = OpenChannels \cup {c} /\ Stale' = Stale \ {c}
          /\ mOpenedchannelCount' = (mOpenedchannelCount + 1) % 256
          /\ c \in OpenChannels <=> c \in Stale
      BY <1>6 DEF Opened, Stale
    <2>2. \A n \in 0..254 : (n + 1) % 256 = n + 1
      OBVIOUS
    <2>3. CASE c \notin OpenChannels
      <3>1. Cardinality(OpenChannels \cup {c}) = Cardinality(OpenChannels) + 1
        BY <1>2, <2>3, OneMore
      <3>2. Cardinality(OpenChannels \cup {c}) <= MAX_LOGICAL_CHANNELS
        BY <1>2, ChannelsFinite
      <3>3. Stale' = Stale
        BY <2>1, <2>3
      <3>4. mOpenedchannelCount \in 0..254
        BY <1>1, <1>2, <3>1, <3>2
      <3>5. mOpenedchannelCount' = mOpenedchannelCount + 1
        BY <2>1, <2>2, <3>4
      <3>6. /\ Cardinality(OpenChannels') = Cardinality(OpenChannels) + 1
            /\ Cardinality(Stale') = Cardinality(Stale)
        BY <2>1, <3>1, <3>3
      <3> QED BY <1>1, <1>2, <3>5, <3>6
    <2>4. CASE c \in OpenChannels
      <3>1. Cardinality(Stale \ {c}) = Cardinality(Stale) - 1
        BY <1>2, <2>1, <2>4, OneMore
      <3>2. Cardinality(Stale \ {c}) \in Nat
        BY <1>2, ChannelsFinite
      <3>3. OpenChannels' = OpenChannels
        BY <2>1, <2>4
      <3>4. mOpenedchannelCount \in 0..254
        BY <1>1, <1>2, <3>1, <3>2
      <3>5. mOpenedchannelCount' = mOpenedchannelCount + 1
        BY <2>1, <2>2, <3>4
      <3>6. /\ Cardinality(OpenChannels') = Cardinality(OpenChannels)
            /\ Cardinality(Stale') = Cardinality(Stale) - 1
        BY <2>1, <3>1, <3>3
      <3>7. Cardinality(OpenChannels) + 1 <= mOpenedchannelCount + 1
        BY <1>2
      <3> QED BY <1>1, <1>2, <3>5, <3>6, <3>7
    <2> QED BY <2>3, <2>4
  <1>7. ASSUME NEW c \in Channels, Closed(c)
        PROVE  /\ Cardinality(OpenChannels') <= mOpenedchannelCount'
               /\ mOpenedchannelCount' + Cardinality(Stale')
                     <= Cardinality(OpenChannels') + Slack'
    <2>1. /\ c \in OpenChannels /\ c \in seOpen \cup {0}
          /\ OpenChannels' = OpenChannels \ {c}
          /\ mOpenedchannelCount' = mOpenedchannelCount - 1
          /\ seOpen' = seOpen \ {c} \/ Diverges
      BY <1>7 DEF Closed
    <2>2. Cardinality(OpenChannels \ {c}) = Cardinality(OpenChannels) - 1
      BY <1>2, <2>1, OneMore
    <2>3. CASE seOpen' = seOpen \ {c}
      <3>1. Stale' = Stale
        BY <2>1, <2>3 DEF Stale
      <3> QED BY <1>1, <1>2, <2>1, <2>2, <3>1
    <2>4. CASE Diverges
      BY <1>1, <1>2, <1>3, <2>1, <2>2, <2>4
    <2> QED BY <2>1, <2>3, <2>4
  <1> QED BY <1>4, <1>5, <1>6, <1>7 DEF TableStep

(* The count covers the table whatever is lost, reset half way or killed,  *)
(* as long as the failures are too few to make it wrap: the SE is never    *)
(* closed under a client, and no channel is given twice.                   *)
THEOREM TroubledInvHolds == ASSUME NoStray, NoWrap PROVE Spec => []TroubledInv
  <1>1. Init => TroubledInv
    <2> SUFFICES ASSUME Init PROVE TroubledInv
      OBVIOUS
    <2>1. SessionInv /\ OpenChannels = {} /\ failures = 0 /\ mOpenedchannelCount = 0
      BY HalInitInv DEF Init
    <2>2. Stale = {} /\ Cardinality({}) = 0
      BY <2>1, FS_EmptySet DEF Stale
    <2>3. 0 * MAX_LOGICAL_CHANNELS = 0 /\ MaxFailures \in Nat
      BY HalAssumption
    <2> QED BY <2>1, <2>2, <2>3 DEF TroubledInv, CountCovers
  <1>2. TroubledInv /\ [Next]_vars => TroubledInv'
    <2> SUFFICES ASSUME TroubledInv, [Next]_vars PROVE TroubledInv'
      OBVIOUS
    <2>1. Covered
      BY DEF TroubledInv, CountCovers, Covered
    <2>2. SessionInv' /\ TableStep
      BY <2>1, StepKeeps DEF TroubledInv
    <2> QED BY <2>2, TableStepCovers DEF TroubledInv
  <1> QED BY <1>1, <1>2, PTL DEF Spec

-----------------------------------------------------------------------------
(* The circumstances under which sessions are safe: the SE follows the     *)
(* service, however much fails; or it does not, and the failures are too   *)
(* few to make the count wrap.                                             *)
Dependable == Steady \/ (NoStray /\ NoWrap)

(* Sessions, the open link and the method in progress agree. *)
THEOREM SessionInvHolds == ASSUME Dependable PROVE Spec => []SessionInv
  <1>1. CASE Steady
    <2>1. HalInv => SessionInv
      BY DEF HalInv
    <2>2. Spec => []HalInv
      BY <1>1, HalInvHolds
    <2> QED BY <2>1, <2>2, PTL
  <1>2. CASE NoStray /\ NoWrap
    <2>1. TroubledInv => SessionInv
      BY DEF TroubledInv
    <2>2. Spec => []TroubledInv
      BY <1>2, TroubledInvHolds
    <2> QED BY <2>1, <2>2, PTL
  <1> QED BY <1>1, <1>2 DEF Dependable

(* What a client holds is open in the table and in the SE. *)
THEOREM SessionsUsableHolds == ASSUME Dependable PROVE Spec => []SessionsUsable
  <1>1. SessionInv => SessionsUsable
    BY DEF SessionInv
  <1> QED BY <1>1, SessionInvHolds, PTL

-----------------------------------------------------------------------------
(* The service keeps the promise of ChannelService, its table is that of   *)
(* the SE, and it loses no descriptor once the SE was reset.               *)

(* What a step may do to the open state of the link. *)
LEMMA OpenStateSteps ==
    ASSUME [Next]_vars
    PROVE  UNCHANGED openVars \/ HalInitOk \/ HalInitFails \/ HalDeInit \/ Restart
  <1>1. ASSUME NEW c, MarkClosed(c)
        PROVE  UNCHANGED openVars \/ HalDeInit
    BY <1>1, Zenon DEF MarkClosed
  <1>2. DropBasicChannel => UNCHANGED openVars \/ HalDeInit
    BY <1>1, Zenon DEF DropBasicChannel
  <1>3. CASE UNCHANGED vars
    BY <1>3 DEF vars
  <1>4. CASE (\E version \in {"1.0", "1.1"} : InitCall(version)) \/ Reopen
    BY <1>4, Zenon DEF InitCall, Reopen
  <1>5. CASE OpenLogicalChannel \/ OpenBasicChannel
    BY <1>5, Zenon DEF OpenLogicalChannel, OpenBasicChannel, OpenCall
  <1>6. CASE ManageChannel \/ ClientDies \/ Killed \/ Transmit \/ ResetCrashes
    BY <1>6 DEF ManageChannel, ClientDies, Killed, Transmit, ResetCrashes
  <1>7. CASE Select \/ ResetSe
    BY <1>2, <1>7 DEF Select, Selected, ResetSe
  <1>8. CASE CloseBasicChannel \/ CloseInSe
    BY <1>1, <1>8 DEF CloseBasicChannel, CloseInSe
  <1>9. CASE (\E c \in Logical : CloseLogicalChannel(c))
    BY <1>9 DEF CloseLogicalChannel
  <1>10. CASE ServiceDied \/ Restart
    BY <1>10, Zenon DEF ServiceDied
  <1> QED
    BY <1>3, <1>4, <1>5, <1>6, <1>7, <1>8, <1>9, <1>10 DEF Next

(* Opening, closing and restarting lose no descriptor of an SE that was    *)
(* reset, whatever else goes wrong.                                        *)
THEOREM LeaksHolds == Spec => []LeaksOnlyBeforeFirstReset
  <1>1. Init => LeaksOnlyBeforeFirstReset
    BY Zenon DEF Init, LeaksOnlyBeforeFirstReset
  <1>2. LeaksOnlyBeforeFirstReset /\ [Next]_vars => LeaksOnlyBeforeFirstReset'
    <2> SUFFICES ASSUME LeaksOnlyBeforeFirstReset, [Next]_vars
                 PROVE  LeaksOnlyBeforeFirstReset'
      OBVIOUS
    <2>1. CASE UNCHANGED openVars
      BY <2>1 DEF openVars, LeaksOnlyBeforeFirstReset
    <2>2. CASE HalInitOk
      BY <2>2, Zenon DEF HalInitOk, LeaksOnlyBeforeFirstReset
    <2>3. CASE HalInitFails
      BY <2>3, Zenon DEF HalInitFails, LeaksOnlyBeforeFirstReset
    <2>4. CASE HalDeInit
      <3>1. CASE isOpen
        BY <2>4, <3>1, Zenon DEF HalDeInit, LeaksOnlyBeforeFirstReset
      <3>2. CASE ~isOpen
        BY <2>4, <3>2 DEF HalDeInit, openVars, LeaksOnlyBeforeFirstReset
      <3> QED BY <3>1, <3>2
    <2>5. CASE Restart
      BY <2>5, Zenon DEF Restart, LeaksOnlyBeforeFirstReset
    <2> QED BY <2>1, <2>2, <2>3, <2>4, <2>5, OpenStateSteps
  <1> QED BY <1>1, <1>2, PTL DEF Spec

-----------------------------------------------------------------------------
(* The count is right: 1 for what the client holds. *)
GivenOnce == given = [c \in Channels |-> IF c \in held THEN 1 ELSE 0]

(* What a step may do to the channels the client holds: one that an answer *)
(* brings was not held.                                                    *)
LEMMA HeldSteps ==
    ASSUME NoStray, SessionInv, Next
    PROVE  \/ \E c \in Channels : /\ c \notin held /\ held' = held \cup {c}
                                  /\ given' = [given EXCEPT ![c] = @ + 1]
           \/ \E c \in Channels : /\ c \in held /\ held' = held \ {c}
                                  /\ given' = [given EXCEPT ![c] = 0]
           \/ held' = {} /\ given' = NoneGiven
           \/ UNCHANGED <<held, given>>
  <1>1. CASE Select
    <2>1. ch \in Channels /\ ch \notin held
      BY <1>1 DEF Select, SessionInv, ServiceTypeOK, MethodInv, ChannelInv
    <2>2. GiveClient \/ UNCHANGED <<held, given>>
      BY <1>1 DEF Select, Selected
    <2> QED BY <2>1, <2>2 DEF GiveClient
  <1>2. CASE CloseBasicChannel
    <2>1. 0 \in held /\ 0 \in Channels
      BY <1>2, ChannelsFinite DEF CloseBasicChannel, NoStray
    <2> QED BY <1>2, <2>1 DEF CloseBasicChannel
  <1>3. CASE \E c \in Logical : CloseLogicalChannel(c)
    BY <1>3 DEF CloseLogicalChannel, NoStray, Logical
  <1>4. CASE ResetSe \/ ClientDies \/ Restart
    BY <1>4 DEF ResetSe, TellClientReset, ClientDies, Restart
  <1>5. CASE (\E version \in {"1.0", "1.1"} : InitCall(version))
             \/ OpenLogicalChannel \/ OpenBasicChannel \/ Transmit
    BY <1>5 DEF InitCall, OpenLogicalChannel, OpenBasicChannel, OpenCall, Transmit, clientVars
  <1>6. CASE ManageChannel \/ CloseInSe \/ Reopen
    BY <1>6 DEF ManageChannel, CloseInSe, Reopen, clientVars
  <1>7. CASE ResetCrashes \/ ServiceDied \/ Killed
    BY <1>7 DEF ResetCrashes, ServiceDied, Killed, clientVars
  <1> QED
    BY <1>1, <1>2, <1>3, <1>4, <1>5, <1>6, <1>7 DEF Next

(* What the client was given follows ChannelService.                       *)
LEMMA GivenSteps ==
    ASSUME NoStray, SessionInv, GivenOnce, Next
    PROVE  /\ GivenOnce'
           /\ \/ \E c \in Channels : Promise!Give(c) \/ Promise!TakeBack(c)
              \/ Promise!TakeAll
              \/ UNCHANGED given
  <1> USE DEF Promise!Give, Promise!TakeBack, Promise!TakeAll, Promise!NoneGiven
  <1>1. given = [c \in Channels |-> IF c \in held THEN 1 ELSE 0]
    BY DEF GivenOnce
  <1>2. ASSUME NEW c \in Channels, c \notin held, held' = held \cup {c},
               given' = [given EXCEPT ![c] = @ + 1]
        PROVE  GivenOnce' /\ Promise!Give(c)
    <2>1. given[c] = 0 /\ given' = [given EXCEPT ![c] = 1]
      BY <1>1, <1>2
    <2>2. given' = [d \in Channels |-> IF d \in held' THEN 1 ELSE 0]
      BY <1>1, <1>2, <2>1
    <2> QED BY <2>1, <2>2 DEF GivenOnce
  <1>3. ASSUME NEW c \in Channels, c \in held, held' = held \ {c},
               given' = [given EXCEPT ![c] = 0]
        PROVE  GivenOnce' /\ Promise!TakeBack(c)
    <2>1. given[c] = 1
      BY <1>1, <1>3
    <2>2. given' = [d \in Channels |-> IF d \in held' THEN 1 ELSE 0]
      BY <1>1, <1>3
    <2> QED BY <1>3, <2>1, <2>2 DEF GivenOnce
  <1>4. ASSUME held' = {}, given' = NoneGiven PROVE GivenOnce' /\ Promise!TakeAll
    BY <1>4 DEF GivenOnce, NoneGiven
  <1>5. ASSUME UNCHANGED <<held, given>> PROVE GivenOnce' /\ UNCHANGED given
    BY <1>5 DEF GivenOnce
  <1> QED BY <1>2, <1>3, <1>4, <1>5, HeldSteps

(* The client is given what it does not have, and never twice.             *)
THEOREM GivenOnceHolds == ASSUME Dependable PROVE Spec => []GivenOnce
  <1>1. NoStray
    BY DEF Dependable, Steady, NoStray
  <1>2. Init => GivenOnce
    BY DEF Init, NoneGiven, GivenOnce
  <1>3. GivenOnce /\ SessionInv /\ [Next]_vars => GivenOnce'
    BY <1>1, GivenSteps DEF GivenOnce, vars, clientVars
  <1>4. Spec => []SessionInv
    BY SessionInvHolds
  <1> QED BY <1>2, <1>3, <1>4, PTL DEF Spec

(* Every variable keeps its type, the count the range of a uint8_t.        *)
THEOREM HalTypeCorrect == ASSUME Dependable PROVE Spec => []TypeOK
  <1>1. SessionInv /\ GivenOnce => TypeOK
    BY DEF SessionInv, GivenOnce, TypeOK
  <1> QED BY <1>1, SessionInvHolds, GivenOnceHolds, PTL

(* The service gives no channel to a client that has it, and none that a   *)
(* client has stops working before the client closes it or learns of it.   *)
THEOREM ImplementsServiceHolds == ASSUME Dependable PROVE Spec => ImplementsService
  <1>1. NoStray
    BY DEF Dependable, Steady, NoStray
  <1>2. Init => Promise!ServiceInit
    <2>1. Working \subseteq Channels
      BY DEF Working, OpenChannels
    <2> QED BY <2>1 DEF Init, NoneGiven, Promise!ServiceInit, Promise!NoneGiven
  <1>3. GivenOnce /\ GivenOnce' /\ SessionInv /\ SessionInv' /\ [Next]_vars
           => [Promise!ServiceNext]_<<given, Working>>
    <2> SUFFICES ASSUME GivenOnce, GivenOnce', SessionInv, SessionInv', [Next]_vars
                 PROVE  [Promise!ServiceNext]_<<given, Working>>
      OBVIOUS
    <2>1. CASE Next
      <3>1. \/ \E c \in Channels : Promise!Give(c) \/ Promise!TakeBack(c)
            \/ Promise!TakeAll
            \/ UNCHANGED given
        BY <1>1, <2>1, GivenSteps
      <3>2. held' \subseteq Working'
        BY DEF SessionInv, ServiceTypeOK, SessionsUsable, OpenWhileOpened, OpenChannels, Working
      <3>3. \A c \in Channels : given'[c] = 1 => c \in Working'
        BY <3>2 DEF GivenOnce
      <3> QED BY <3>1, <3>3 DEF Promise!ServiceNext
    <2>2. CASE UNCHANGED vars
      BY <2>2 DEF vars, clientVars, openVars, tableVars, Working, OpenChannels
    <2> QED BY <2>1, <2>2
  <1>4. Spec => []SessionInv
    BY SessionInvHolds
  <1> QED
    BY <1>2, <1>3, <1>4, GivenOnceHolds, PTL DEF Spec, ImplementsService, Promise!ServiceSpec

-----------------------------------------------------------------------------
(* Why the table matches the SE: what a step does to both.                 *)
LEMMA BothKept ==
    ASSUME TableMatchesSe, UNCHANGED tableVars, UNCHANGED seOpen,
           mFirstActivation' => mFirstActivation
    PROVE  TableMatchesSe'
  BY DEF TableMatchesSe, tableVars, OpenChannels

(* Opening the SE: the table is empty, and so is the SE after the reset of *)
(* the first opening.                                                      *)
LEMMA OpeningMatches ==
    ASSUME Steady, HalInv, TableMatchesSe, ~isOpen, UNCHANGED tableVars,
           HalInitOk \/ HalInitFails
    PROVE  TableMatchesSe'
  <1>1. OpenChannels = {} /\ OpenChannels' = {}
    BY TableKept DEF HalInv, SessionInv, OpenWhileOpened
  <1>2. CASE HalInitOk /\ mFirstActivation
    BY <1>1, <1>2 DEF HalInitOk, TableMatchesSe
  <1>3. CASE HalInitOk /\ ~mFirstActivation
    BY <1>1, <1>3 DEF HalInitOk, TableMatchesSe
  <1>4. CASE HalInitFails
    <2>1. seOpen' = seOpen
      BY <1>4, SetupFailsResult DEF HalInitFails, Diverges, HalInv, SessionInv
    <2>2. UNCHANGED mFirstActivation
      BY <1>4, Zenon DEF HalInitFails
    <2> QED BY <1>1, <2>1, <2>2 DEF TableMatchesSe
  <1> QED BY <1>2, <1>3, <1>4

(* Exchanges: the SE and the table open and close the same channel.        *)
LEMMA ExchangeMatches ==
    ASSUME Steady, HalInv, TableMatchesSe, ManageChannel \/ Select \/ CloseInSe
    PROVE  TableMatchesSe'
  <1> USE DEF HalInv, SessionInv
  <1>1. ASSUME NEW effects, ExchangeFails(effects), UNCHANGED openVars, UNCHANGED tableVars
        PROVE  TableMatchesSe'
    <2>1. seOpen' = seOpen
      BY <1>1, ExchangeFailsResult DEF Diverges
    <2> QED BY <1>1, <2>1, BothKept DEF openVars
  <1>2. ASSUME UNCHANGED openVars, UNCHANGED tableVars, UNCHANGED seOpen
        PROVE  TableMatchesSe'
    BY <1>2, BothKept DEF openVars
  <1>3. CASE ManageChannel
    <2>1. ASSUME NEW c \in Logical \ seOpen, seOpen' = seOpen \cup {c}, MarkOpen(c),
                 UNCHANGED openVars
          PROVE  TableMatchesSe'
      <3>1. c \in Channels /\ c # 0 /\ c \notin OpenChannels
        BY <2>1 DEF Logical, TableInSe
      <3>2. OpenChannels' = OpenChannels \cup {c}
        BY <2>1, <3>1, MarkOpenResult
      <3> QED BY <2>1, <3>1, <3>2 DEF TableMatchesSe, openVars
    <2>2. UNCHANGED openVars
      BY <1>3 DEF ManageChannel
    <2>3. \/ \E c \in Logical \ seOpen : seOpen' = seOpen \cup {c} /\ MarkOpen(c)
          \/ UNCHANGED tableVars /\ UNCHANGED seOpen
          \/ /\ ExchangeFails({seOpen \cup {c} : c \in Logical})
             /\ UNCHANGED tableVars
      BY <1>3 DEF ManageChannel
    <2> QED BY <1>1, <1>2, <2>1, <2>2, <2>3
  <1>4. CASE Select
    <2>1. CASE ExchangeFails({}) /\ UNCHANGED <<openVars, tableVars>>
      BY <1>1, <2>1
    <2>2. CASE UNCHANGED openVars /\ UNCHANGED tableVars /\ UNCHANGED seOpen
      BY <1>2, <2>2
    <2>3. CASE /\ op = "basic" /\ ~mOpenedChannels[0] /\ MarkOpen(0)
               /\ UNCHANGED openVars /\ UNCHANGED seOpen
      <3>1. OpenChannels' = OpenChannels \cup {0}
        BY <2>3, MarkOpenResult, ChannelsFinite
      <3> QED BY <2>3, <3>1 DEF TableMatchesSe, openVars
    <2>4. CASE DropBasicChannel /\ UNCHANGED seOpen
      <3>1. /\ OpenChannels' \ {0} = OpenChannels \ {0}
            /\ UNCHANGED mFirstActivation
        BY <2>4, DropBasicResult, HalInvCovers
      <3> QED BY <2>4, <3>1 DEF TableMatchesSe
    <2> QED BY <1>4, <2>1, <2>2, <2>3, <2>4 DEF Select, Selected
  <1>5. CASE CloseInSe
    <2>1. CASE seOpen' = seOpen \ {ch} /\ MarkClosed(ch)
      <3>1. ch \in Channels /\ ch \in OpenChannels /\ Covered
        BY <1>5, HalInvCovers, TableAsSet DEF CloseInSe, ChannelInv, ServiceTypeOK
      <3>2. OpenChannels' = OpenChannels \ {ch} /\ UNCHANGED mFirstActivation
        BY <2>1, <3>1, MarkClosedResult
      <3> QED BY <2>1, <3>2 DEF TableMatchesSe
    <2>2. CASE UNCHANGED openVars /\ UNCHANGED tableVars /\ UNCHANGED seOpen
      BY <1>2, <2>2
    <2>3. CASE ExchangeFails({seOpen \ {ch}}) /\ UNCHANGED <<openVars, tableVars>>
      BY <1>1, <2>3
    <2> QED BY <1>5, <2>1, <2>2, <2>3 DEF CloseInSe
  <1> QED BY <1>3, <1>4, <1>5

(* Every step, as long as no client dies. *)
LEMMA StepMatches ==
    ASSUME Steady, "death" \notin Troubles, HalInv, client # "dead", TableMatchesSe,
           [Next]_vars
    PROVE  TableMatchesSe' /\ client' # "dead"
  <1> USE DEF HalInv, SessionInv
  <1>1. client' # "dead"
    BY DEF Next, InitCall, OpenLogicalChannel, OpenBasicChannel, OpenCall, ManageChannel,
           Select, CloseBasicChannel, CloseLogicalChannel, CloseInSe, Transmit, Reopen,
           ResetSe, ResetCrashes, ServiceDied, ClientDies, Killed, Restart, vars, clientVars
  <1> SUFFICES TableMatchesSe'
    BY <1>1
  <1>2. CASE ManageChannel \/ Select \/ CloseInSe
    BY <1>2, ExchangeMatches
  <1>3. CASE (\E version \in {"1.0", "1.1"} : InitCall(version))
             \/ OpenLogicalChannel \/ OpenBasicChannel \/ Reopen
    <2>1. UNCHANGED tableVars
      BY <1>3 DEF InitCall, OpenLogicalChannel, OpenBasicChannel, OpenCall, Reopen
    <2>2. \/ ~isOpen /\ (HalInitOk \/ HalInitFails)
          \/ UNCHANGED openVars /\ UNCHANGED seOpen
      BY <1>3, Zenon
      DEF InitCall, OpenLogicalChannel, OpenBasicChannel, OpenCall, Reopen, MethodInv
    <2> QED BY <2>1, <2>2, OpeningMatches, BothKept DEF openVars
  <1>4. CASE CloseBasicChannel
    <2>1. /\ OpenChannels' = OpenChannels \ {0} /\ UNCHANGED mFirstActivation
          /\ UNCHANGED seOpen
      BY <1>4, CloseBasicKeeps, HalInvCovers DEF CloseBasicChannel
    <2> QED BY <2>1 DEF TableMatchesSe
  <1>5. CASE (\E c \in Logical : CloseLogicalChannel(c)) \/ Transmit \/ ResetCrashes
             \/ Killed \/ UNCHANGED vars
    <2>1. UNCHANGED openVars /\ UNCHANGED tableVars /\ UNCHANGED seOpen
      BY <1>5 DEF CloseLogicalChannel, Transmit, ResetCrashes, Killed, vars
    <2> QED BY <2>1, BothKept DEF openVars
  <1>6. CASE ResetSe
    <2>1. CASE seOpen' = {} /\ ClearTable
      BY <2>1, ClearTableResult DEF TableMatchesSe, Cleared
    <2>2. CASE DropBasicChannel /\ (SetupFails \/ UNCHANGED seOpen)
      <3>1. /\ OpenChannels' \ {0} = OpenChannels \ {0}
            /\ UNCHANGED mFirstActivation
        BY <2>2, DropBasicResult, HalInvCovers
      <3>2. seOpen' = seOpen
        BY <2>2, SetupFailsResult DEF Diverges
      <3> QED BY <3>1, <3>2 DEF TableMatchesSe
    <2> QED BY <1>6, <2>1, <2>2 DEF ResetSe
  <1>7. CASE ServiceDied \/ ClientDies
    BY <1>7 DEF ServiceDied, ClientDies
  <1>8. CASE Restart
    BY <1>8, Zenon DEF Restart, TableMatchesSe
  <1> QED
    BY <1>1, <1>2, <1>3, <1>4, <1>5, <1>6, <1>7, <1>8 DEF Next

(* Once the process has reset the SE, table and SE agree on the logical    *)
(* channels, through every failure without effect on the SE, every closing *)
(* and reopening and every restart.                                        *)
THEOREM TableMatchesSeHolds ==
    ASSUME Steady, "death" \notin Troubles PROVE Spec => []TableMatchesSe
  <1> DEFINE Inv == HalInv /\ client # "dead" /\ TableMatchesSe
  <1>1. Init => Inv
    BY HalInitHolds, Zenon DEF Init, TableMatchesSe
  <1>2. Inv /\ [Next]_vars => Inv'
    BY HalStepInv, StepMatches
  <1>3. Inv => TableMatchesSe
    OBVIOUS
  <1> QED
    <2> HIDE DEF Inv
    <2> QED BY <1>1, <1>2, <1>3, PTL DEF Spec
=============================================================================
