---------------------------- MODULE HalRefinement ----------------------------
(***************************************************************************)
(* SecureElementHal implements the promise of ChannelService, and keeps it *)
(* going: under the scheduling of the binder thread and of init, methods   *)
(* return and a dead client's SE is closed.                                *)
(***************************************************************************)
EXTENDS SecureElementHal

(* A channel works when the SE has it open, the table knows it and the     *)
(* link is open.  The basic channel is always open in the SE.              *)
Working == IF isOpen THEN OpenChannels \cap (seOpen \cup {0}) ELSE {}

Promise == INSTANCE ChannelService WITH working <- Working

(* No channel is given to a client that has it, and none a client has      *)
(* stops working behind its back: openLogicalChannel, openBasicChannel,    *)
(* closeChannel, seHalResetSe and serviceDied against ChannelService.      *)
(* Giving a channel twice counts to 2, a step ChannelService does not have.*)
ImplementsService == Promise!ServiceSpec

(* The thread of the binder pool runs a method to its end, each exchange   *)
(* ends (ExchangeEnds of T1Protocol), and init restarts a dead service.    *)
ThreadSteps ==
    \/ ManageChannel \/ Select \/ CloseInSe \/ Reopen \/ ResetSe \/ ResetCrashes
    \/ ServiceDied \/ Restart

FairSpec == Spec /\ WF_vars(ThreadSteps)

(* Every method comes to its end, through however many failing exchanges,  *)
(* reopenings and resets, or the service is started again.                 *)
MethodsReturn == hpc # "idle" ~> hpc = "idle"

(* After the death of its client the SE is closed and no channel of the    *)
(* table is left to the next client (serviceDied, SecureElement.cpp:444).  *)
DeadClientReleased ==
    client = "dead" ~> client = "none" /\ ~isOpen /\ OpenChannels = {}
=============================================================================
