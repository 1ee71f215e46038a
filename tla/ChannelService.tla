--------------------------- MODULE ChannelService ---------------------------
(***************************************************************************)
(* What the HIDL service promises a client of its channels, whichever      *)
(* exchanges, resets and processes fail: a channel it gives out is one the *)
(* client does not have yet, and it works until the client closes it or    *)
(* learns that all its channels are gone.                                  *)
(***************************************************************************)
CONSTANT Channels

VARIABLES
    given,    \* whether the client has a channel, 0 or 1
    working   \* the channels that service and SE serve

NoneGiven == [c \in Channels |-> 0]

ServiceInit == given = NoneGiven /\ working \in SUBSET Channels

Give(c)     == given[c] = 0 /\ given' = [given EXCEPT ![c] = 1]
TakeBack(c) == given[c] = 1 /\ given' = [given EXCEPT ![c] = 0]

(* A reset the client is told of, or the death of either process. *)
TakeAll == given' = NoneGiven

ServiceNext ==
    /\ \/ \E c \in Channels : Give(c) \/ TakeBack(c)
       \/ TakeAll
       \/ UNCHANGED given
    /\ \A c \in Channels : given'[c] = 1 => c \in working'

ServiceSpec == ServiceInit /\ [][ServiceNext]_<<given, working>>
=============================================================================
