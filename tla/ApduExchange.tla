---------------------------- MODULE ApduExchange ----------------------------
(***************************************************************************)
(* What StEse_Transceive promises its callers (StEseApi.h:68-82): the      *)
(* command is run by the SE, and what comes back on success is the         *)
(* response to this command.  How often a command may run and whether an   *)
(* exchange may fail are parameters: they depend on how bad the line is.   *)
(***************************************************************************)
EXTENDS Naturals

CONSTANTS MaxRuns,   \* how often one command may be run
          MayFail    \* may an exchange fail?

VARIABLES phase,     \* "idle", "busy" or "failed"
          command,   \* number of the command submitted last
          runs,      \* how often the SE ran it
          answer     \* the command the caller's response answers, 0: none

vars == <<phase, command, runs, answer>>

Init == phase = "idle" /\ command = 0 /\ runs = 0 /\ answer = 0

Submit == /\ phase = "idle"
          /\ phase' = "busy"
          /\ command' = command + 1
          /\ runs' = 0
          /\ answer' = 0

(* A command whose exchange failed may still be run. *)
RunOnce == /\ runs < MaxRuns
           /\ phase = "busy" \/ (phase = "failed" /\ MayFail)
           /\ runs' = runs + 1
           /\ UNCHANGED <<phase, command, answer>>

Return == /\ phase = "busy" /\ runs > 0
          /\ phase' = "idle"
          /\ answer' = command
          /\ UNCHANGED <<command, runs>>

(* Nothing is promised of the caller's buffer. *)
Fail == /\ phase = "busy" /\ MayFail
        /\ phase' = "failed"
        /\ answer' \in 0..command
        /\ UNCHANGED <<command, runs>>

(* A reset between exchanges, which may itself fail. *)
Reset == /\ phase \in {"idle", "failed"}
         /\ phase' \in {"idle", "failed"}
         /\ UNCHANGED <<command, runs, answer>>

Next == Submit \/ RunOnce \/ Return \/ Fail \/ Reset

Spec == Init /\ [][Next]_vars
=============================================================================
