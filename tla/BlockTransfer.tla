--------------------------- MODULE BlockTransfer ---------------------------
(***************************************************************************)
(* What SpiLayerInterface_transcieveTpdu (SpiLayerInterface.h) promises to *)
(* the T=1 protocol above it: a block is given to the SE, and the call     *)
(* ends with an answer of the SE, with a block to refuse, with a timeout   *)
(* or with an error.  No answer is delivered twice, and in part or damaged *)
(* only to be refused.  The answer is the one to this very block unless an *)
(* earlier call ended without its own: then it may be the earlier one, for *)
(* nothing tells the two apart below the T=1 protocol.  T1Wire and T1Host  *)
(* take a transfer to be no more than this: an answer arrives as it was    *)
(* sent, "GARBLED", late or not at all.                                    *)
(***************************************************************************)
EXTENDS Naturals

CONSTANTS
    Answers,    \* the blocks the SE may answer
    Greetings,  \* what it says first after a reset
    NoAnswer    \* neither

VARIABLES
    outcome,    \* of the last call; "pending" while it runs
    sent,       \* was the block of the running call given to the SE?
    unread,     \* what the SE was given, or reset for, with no answer read yet
    answer,     \* the SE's answer to the first of these
    spoilt,     \* was that answer damaged on its way or is it lost in part?
    got         \* the block the last call returned

seVars == <<unread, answer, spoilt>>
transferVars == <<outcome, sent, seVars, got>>

Outcomes == {"delivered", "refused", "timeout", "failed"}

TransferInit ==
    /\ outcome = "failed" /\ sent = FALSE
    /\ unread = 0 /\ answer = NoAnswer /\ spoilt = FALSE
    /\ got = NoAnswer

-----------------------------------------------------------------------------
(* The SE. *)
NothingSaid == answer' = NoAnswer /\ spoilt' = FALSE

(* The reset line: it owes its greeting and nothing else. *)
Reset == unread' = 1 /\ NothingSaid

(* It turns to the block it is given, or answers what came first. *)
Given ==
    \/ unread' = 1 /\ NothingSaid
    \/ unread > 0 /\ unread' = 2 /\ UNCHANGED <<answer, spoilt>>

(* An answer is read whole, or what was read of it is thrown away. *)
Read  == answer # NoAnswer /\ ~spoilt /\ unread' = unread - 1 /\ NothingSaid
Spoil == answer # NoAnswer /\ spoilt' = TRUE /\ UNCHANGED <<unread, answer>>

SeAnswers ==
    /\ unread > 0 /\ answer = NoAnswer
    /\ answer' \in Answers \cup Greetings
    /\ spoilt' \in BOOLEAN
    /\ UNCHANGED <<outcome, sent, unread, got>>

(* What is left of a spoilt answer is over. *)
SeGoesOn ==
    /\ unread = 2 /\ spoilt
    /\ unread' = 1 /\ NothingSaid
    /\ UNCHANGED <<outcome, sent, got>>

-----------------------------------------------------------------------------
Begin ==
    /\ outcome \in Outcomes
    /\ outcome' = "pending" /\ got' = NoAnswer /\ sent' = FALSE
    /\ UNCHANGED seVars \/ Reset

Greet ==
    /\ outcome = "pending" /\ ~sent
    /\ answer \in Greetings /\ Read
    /\ UNCHANGED <<outcome, sent, got>>

Give ==
    /\ outcome = "pending" /\ ~sent
    /\ sent' = TRUE /\ Given
    /\ UNCHANGED <<outcome, got>>

(* While a block is looked for, a greeting is skipped. *)
Skip ==
    /\ answer \in Greetings /\ Spoil
    /\ UNCHANGED <<outcome, sent, got>>

EndTransfer(o) == outcome = "pending" /\ sent /\ outcome' = o /\ sent' = FALSE

(* Only a block, only intact, and only once. *)
Deliver ==
    /\ EndTransfer("delivered")
    /\ answer \in Answers /\ Read
    /\ got' = answer

(* Only a spoilt block is refused. *)
Refuse == EndTransfer("refused") /\ spoilt /\ UNCHANGED <<seVars, got>>

TimeOut ==
    /\ EndTransfer("timeout")
    /\ UNCHANGED seVars \/ (answer \in Greetings /\ Spoil)
    /\ UNCHANGED got

(* A driver call failed, perhaps at once: the SE may have been given a     *)
(* block, the call may have read an answer or a part of it.                *)
Fail ==
    /\ outcome' = "failed" /\ sent' = FALSE
    /\ UNCHANGED seVars \/ Given \/ Read \/ Spoil
    /\ UNCHANGED got

TransferNext ==
    \/ SeAnswers \/ SeGoesOn
    \/ Begin \/ Greet \/ Give \/ Skip \/ Deliver \/ Refuse \/ TimeOut \/ Fail

TransferSpec == TransferInit /\ [][TransferNext]_transferVars
=============================================================================
