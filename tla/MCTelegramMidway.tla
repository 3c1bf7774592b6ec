-------------------------- MODULE MCTelegramMidway --------------------------
(* TelegramDialog from the middle of a dialog, so that few more updates     *)
(* meet every transition: the person opened the list of services, chose one *)
(* and answered, three updates in all; the last answer may come again.      *)
EXTENDS MCTelegramDialog

CONSTANTS a1, a2, a3, e1, o1, t1

Answer ==
  <<[event |-> a1, kind |-> "SELECT", body |-> o1, version |-> 0],
    [event |-> a2, kind |-> "TEXT", body |-> t1],
    [event |-> a3, kind |-> "TEXT", body |-> t1]>>

\* The first n updates are answers, the other ones only opened the list.
PastUpdate(n) ==
  [i \in 1..3 |-> IF i <= n THEN Answer[i]
                  ELSE [event |-> Answer[i].event, kind |-> "OPEN"]]

PastAnswers(n) == [option |-> o1, name |-> IF n > 1 THEN t1 ELSE None,
                   details |-> IF n > 2 THEN t1 ELSE None]

StepAfter == <<"REQUESTER", "DETAILS", "REVIEW">>

PastRecord(n) ==
  [operation |-> SaveOf(n - 1, StepAfter[n], PastAnswers(n)),
   marker |-> Answer[n], kept |-> TRUE, accepted_at |-> 0,
   row |-> 1, version |-> n]

\* What this adapter asks for on the way.
MCOperations == {PastRecord(n).operation : n \in 1..3}

Midway(n) ==
  LET of(e) == {i \in 1..n : Answer[i].event = e} IN
  /\ clock = 0
  /\ catalog = [version |-> 0, active |-> Options]
  /\ drafts = IF n = 0 THEN <<>>
              ELSE <<[open |-> TRUE, version |-> n, step |-> StepAfter[n],
                      answers |-> PastAnswers(n), expires_at |-> Lifetime]>>
  /\ events = [e \in Events |->
       IF of(e) = {} THEN None ELSE PastRecord(CHOOSE i \in of(e) : TRUE)]
  /\ inquiries = {}
  /\ sent = {PastUpdate(n)[i] : i \in 1..3}
  /\ pending = {Answer[i] : i \in {n} \ {0}}
  /\ workers = [w \in Workers |-> Idle]
  /\ asked = [e \in Events |-> CASE n > 1 /\ e = a2 -> "REQUESTER"
                                 [] n > 2 /\ e = a3 -> "DETAILS"
                                 [] OTHER -> None]

\* From any step of the dialog, or from the review of the answers.
MidwaySpec == (\E n \in 0..3 : Midway(n)) /\ [][Next]_vars

ReviewSpec == Midway(3) /\ [][Next]_vars /\ Fairness

\* Not with MCWatched, which names e1.
MidwaySymmetry == Permutations(Events \ {a1, a2, a3}) \cup Permutations(Workers)

MCWatched == {[event |-> e1, kind |-> "SUBMIT"]}
=============================================================================
