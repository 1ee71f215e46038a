---------------------------- MODULE T1Refinement ----------------------------
(***************************************************************************)
(* The exchanges of T1Protocol as the abstract exchanges of ApduExchange.  *)
(***************************************************************************)
EXTENDS T1Protocol

CONSTANTS MaxRuns, MayFail

(* The command a response answers, when it is the whole response of a run. *)
Answers(r) ==
    {executed[i].cmd[1][1] :
        i \in {j \in DOMAIN executed :
                  /\ r = [f \in 1..executed[j].frags |-> <<j, f>>]
                  /\ \A p \in DOMAIN executed[j].cmd :
                        executed[j].cmd[p] = <<executed[j].cmd[1][1], p>>}}

Promise == INSTANCE ApduExchange WITH
    phase   <- IF InExchange THEN "busy" ELSE hpc,
    command <- apdu,
    runs    <- Cardinality(Runs),
    answer  <- IF InExchange \/ Answers(rsp) = {} THEN 0
               ELSE CHOOSE a \in Answers(rsp) : TRUE

(* StEse_Transceive keeps its promise: the SE runs the command, at most    *)
(* MaxRuns times, and a successful exchange returns the response to it.    *)
KeepsPromise == Promise!Spec
=============================================================================
