---------------------------- MODULE Conversation ----------------------------
(***************************************************************************)
(* What a person in a chat is promised, without events, versions, times    *)
(* and deliveries: three questions in this order, a review, and an inquiry *)
(* only after it.  A draft may be given up at every stage, by a reset or   *)
(* for a new one; which of the answers an inquiry takes is left open, as   *)
(* the program does not keep it (BotMixedDraft), but never one too few.    *)
(***************************************************************************)
CONSTANT Complete  \* the inquiries with an answer to every question

VARIABLES
  stage,  \* the question that is open, or NONE
  filed   \* the inquiries of this person

dialog == <<stage, filed>>

Begin ==
  /\ stage' = "REQUESTER"
  /\ UNCHANGED filed

Answer ==
  /\ \/ stage = "REQUESTER" /\ stage' = "DETAILS"
     \/ stage = "DETAILS" /\ stage' = "REVIEW"
  /\ UNCHANGED filed

GiveUp ==
  /\ stage # "NONE"
  /\ stage' = "NONE"
  /\ UNCHANGED filed

File ==
  /\ stage = "REVIEW"
  /\ stage' = "NONE"
  /\ \E q \in filed' \ filed : q \in Complete /\ filed' = filed \cup {q}

Init == stage = "NONE" /\ filed = {}

Next == Begin \/ Answer \/ GiveUp \/ File

Spec == Init /\ [][Next]_dialog
=============================================================================
