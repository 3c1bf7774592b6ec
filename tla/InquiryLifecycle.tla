-------------------------- MODULE InquiryLifecycle --------------------------
(***************************************************************************)
(* What the owner is promised about an inquiry, without versions, keys,    *)
(* tables or retries: the lifecycle of booking-flow.md, as far as the code *)
(* implements its transitions.  An inquiry is received, may be negotiated, *)
(* is confirmed on one visit, and ends served or cancelled; each step      *)
(* concerns one inquiry.                                                   *)
(***************************************************************************)
CONSTANTS Inquiries, Visits

VARIABLES
  status,  \* the status of each inquiry
  plan,    \* the visits each inquiry is currently planned on
  served   \* the visits at which each inquiry was served

book == <<status, plan, served>>

Open == {"NEW", "NEGOTIATING"}

Receive(i) ==
  /\ status[i] = "ABSENT"
  /\ status' = [status EXCEPT ![i] = "NEW"]
  /\ UNCHANGED <<plan, served>>

Negotiate(i) ==
  /\ status[i] = "NEW"
  /\ status' = [status EXCEPT ![i] = "NEGOTIATING"]
  /\ UNCHANGED <<plan, served>>

Confirm(i, v) ==
  /\ status[i] \in Open
  /\ status' = [status EXCEPT ![i] = "CONFIRMED"]
  /\ plan' = [plan EXCEPT ![i] = {v}]
  /\ UNCHANGED served

Serve(i) ==
  /\ status[i] = "CONFIRMED"
  /\ status' = [status EXCEPT ![i] = "COMPLETED"]
  /\ served' = [served EXCEPT ![i] = plan[i]]
  /\ plan' = [plan EXCEPT ![i] = {}]

Cancel(i) ==
  /\ status[i] \in Open \cup {"CONFIRMED"}
  /\ status' = [status EXCEPT ![i] = "CANCELLED"]
  /\ plan' = [plan EXCEPT ![i] = {}]
  /\ UNCHANGED served

Init ==
  /\ status = [i \in Inquiries |-> "ABSENT"]
  /\ plan = [i \in Inquiries |-> {}]
  /\ served = [i \in Inquiries |-> {}]

Next == \E i \in Inquiries :
  \/ Receive(i) \/ Negotiate(i) \/ Serve(i) \/ Cancel(i)
  \/ \E v \in Visits : Confirm(i, v)

Spec == Init /\ [][Next]_book
=============================================================================
