------------------------ MODULE OwnerLifecycleProofs ------------------------
(***************************************************************************)
(* Safety of OwnerCommands, for every set of inquiries, visits, keys and   *)
(* client slots: versions and keys, statuses and links, cash facts, the    *)
(* history, and the refinement of InquiryLifecycle.                        *)
(***************************************************************************)
EXTENDS OwnerCommandsProofs, FiniteSetTheorems

-----------------------------------------------------------------------------
(* What an accepted command has in common with the others.                  *)

Command(s) ==
  \/ StartNegotiation(s) \/ ConfirmInquiry(s) \/ CompleteInquiry(s)
  \/ CancelInquiry(s) \/ RecordCashNote(s) \/ CorrectCashNote(s)

(* The request r of slot s gets a receipt with this result.                 *)
Gets(s, r, result, links) ==
  /\ receipts' = receipts \cup
       {[request |-> r, result |-> result, links |-> links]}
  /\ requests' = requests
  /\ Answer(s, [code |-> "OK", result |-> result])

(* The versions that r names are those of now, and they move.               *)
Consumes(r, S) ==
  /\ Named(r.expected_visit_versions) \subseteq S
  /\ ~StaleVisits(r)
  /\ BumpVisits(S)

(* What is not there has no version, and links name visits that are there.  *)
AbsentOK ==
  /\ \A i \in Inquiries : inquiries[i].status = "ABSENT" =>
                             inquiries[i].version = 0
  /\ \A v \in Visits : visits[v].status = "ABSENT" => visits[v].version = 0
  /\ \A p \in participations : p.visit \in Planned

LEMMA CommandShape ==
  ASSUME TInv, AbsentOK, NEW s \in Slots, Command(s)
  PROVE  \E r \in Request :
           /\ r = requests[s] /\ Shaped(r) /\ r.inquiry \in Inquiries
           /\ PriorReceipts(r) = {} /\ ~Malformed(r)
           /\ inquiries[r.inquiry].version = r.expected_version
           /\ \E status \in Statuses \ {"ABSENT"} : MoveTo(r.inquiry, status)
           /\ \E S \in SUBSET Planned : Consumes(r, S)
           /\ \E result, links : Gets(s, r, result, links)
<1>1. PICK op \in AllOps : Accepts(s, op) /\ op # "PLAN_VISIT"
  BY DEF Command, StartNegotiation, ConfirmInquiry, CompleteInquiry,
         CancelInquiry, RecordCashNote, CorrectCashNote, AllOps
<1>2. PICK r \in Request : r = requests[s]
  BY <1>1, AcceptedType
<1>3. /\ Shaped(r) /\ r.inquiry \in Inquiries
      /\ PriorReceipts(r) = {} /\ ~Malformed(r) /\ Verdict(r) = "OK"
  BY <1>1, <1>2, AcceptedType DEF Accepts
<1> DEFINE i == r.inquiry
<1>4. /\ inquiries[i].status \in Statuses /\ TypeOK
      /\ LinkedVisits(i) \subseteq Planned
  BY <1>3 DEF TInv, TypeOK, Inquiry, LinkedVisits, OpenParts, AbsentOK
<1>5. \E result, links : Gets(s, r, result, links)
  <2>1. PICK changed, links : Store(s, changed, links)
    BY DEF Command, StartNegotiation, ConfirmInquiry, CompleteInquiry,
           CancelInquiry, RecordCashNote, CorrectCashNote
  <2> QED
    BY <1>2, <2>1 DEF Store, Gets
<1>6. \E status \in Statuses \ {"ABSENT"} : MoveTo(i, status)
  <2>1. CASE RecordCashNote(s) \/ CorrectCashNote(s)
    <3>1. inquiries[i].status # "ABSENT"
      BY <1>2, <1>3, <2>1 DEF RecordCashNote, CorrectCashNote, Accepts, Verdict,
                              CashNoteVerdict, CorrectionVerdict
    <3> QED
      BY <1>2, <1>4, <2>1, <3>1 DEF RecordCashNote, CorrectCashNote
  <2> QED
    BY <1>2, <2>1 DEF Command, StartNegotiation, ConfirmInquiry,
                      CompleteInquiry, CancelInquiry, Statuses
<1>7. /\ VersionsVerdict(r) = "OK" =>
           /\ inquiries[i].version = r.expected_version
           /\ Named(r.expected_visit_versions) = LinkedVisits(i)
           /\ ~StaleVisits(r)
  BY DEF VersionsVerdict
<1>8. /\ inquiries[i].version = r.expected_version
      /\ \E S \in SUBSET Planned : Consumes(r, S)
  <2>1. CASE StartNegotiation(s)
    <3>1. r.op = "START_NEGOTIATION"
      BY <1>2, <2>1 DEF StartNegotiation, Accepts
    <3>2. Named(r.expected_visit_versions) = {} /\ StartVerdict(r) = "OK"
      BY <1>3, <3>1 DEF Malformed, Verdict
    <3>3. visits' = visits /\ visits \in [Visits -> Visit]
      BY <1>4, <2>1 DEF StartNegotiation, TypeOK
    <3>4. BumpVisits({})
      BY <3>3 DEF BumpVisits
    <3>5. inquiries[i].version = r.expected_version
      BY <3>2 DEF StartVerdict
    <3>6. ~StaleVisits(r)
      BY <3>2 DEF StaleVisits
    <3>7. Consumes(r, {})
      BY <3>2, <3>4, <3>6 DEF Consumes
    <3> QED
      BY <3>5, <3>7
  <2>2. CASE ConfirmInquiry(s)
    <3>1. r.op = "CONFIRM"
      BY <1>2, <2>2 DEF ConfirmInquiry, Accepts
    <3>2. /\ Named(r.expected_visit_versions) = {r.visit}
          /\ ConfirmVerdict(r) = "OK"
      BY <1>3, <3>1 DEF Malformed, Verdict
    <3>3. /\ inquiries[i].version = r.expected_version /\ ~StaleVisits(r)
      BY <3>2 DEF ConfirmVerdict
    <3>4. Consumes(r, {r.visit}) /\ r.visit \in Planned
      BY <1>2, <1>3, <2>2, <3>1, <3>2, <3>3
      DEF Consumes, ConfirmInquiry, Shaped, ConfirmVerdict, Planned
    <3> QED
      BY <3>3, <3>4
  <2>3. CASE CompleteInquiry(s)
    <3>1. r.op = "COMPLETE"
      BY <1>2, <2>3 DEF CompleteInquiry, Accepts
    <3>2. CompleteVerdict(r) = "OK"
      BY <1>3, <3>1 DEF Verdict
    <3>3. /\ inquiries[i].version = r.expected_version /\ ~StaleVisits(r)
          /\ Named(r.expected_visit_versions) = LinkedVisits(i)
      BY <3>2 DEF CompleteVerdict
    <3>4. Consumes(r, LinkedVisits(i))
      BY <1>2, <2>3, <3>3 DEF Consumes, CompleteInquiry
    <3> QED
      BY <1>4, <3>3, <3>4
  <2>4. CASE CancelInquiry(s)
    <3>1. r.op = "CANCEL"
      BY <1>2, <2>4 DEF CancelInquiry, Accepts
    <3>2. VersionsVerdict(r) = "OK"
      BY <1>3, <3>1 DEF Verdict, CancelVerdict
    <3>3. Consumes(r, LinkedVisits(i))
      BY <1>2, <1>7, <2>4, <3>2 DEF Consumes, CancelInquiry
    <3> QED
      BY <1>4, <1>7, <3>2, <3>3
  <2>5. CASE RecordCashNote(s)
    <3>1. r.op = "CASH_NOTE"
      BY <1>2, <2>5 DEF RecordCashNote, Accepts
    <3>2. VersionsVerdict(r) = "OK"
      BY <1>3, <3>1 DEF Verdict, CashNoteVerdict
    <3>3. Consumes(r, LinkedVisits(i))
      BY <1>2, <1>7, <2>5, <3>2 DEF Consumes, RecordCashNote
    <3> QED
      BY <1>4, <1>7, <3>2, <3>3
  <2>6. CASE CorrectCashNote(s)
    <3>1. r.op = "CORRECTION"
      BY <1>2, <2>6 DEF CorrectCashNote, Accepts
    <3>2. VersionsVerdict(r) = "OK"
      BY <1>3, <3>1 DEF Verdict, CorrectionVerdict
    <3>3. Consumes(r, LinkedVisits(i))
      BY <1>2, <1>7, <2>6, <3>2 DEF Consumes, CorrectCashNote
    <3> QED
      BY <1>4, <1>7, <3>2, <3>3
  <2> QED
    BY <2>1, <2>2, <2>3, <2>4, <2>5, <2>6 DEF Command
<1> QED
  BY <1>2, <1>3, <1>5, <1>6, <1>8

(* The one command without an inquiry.                                      *)
LEMMA PlanShape ==
  ASSUME TInv, NEW s \in Slots, CreatePlannedVisit(s)
  PROVE  \E r \in Request, v \in Visits :
           /\ r = requests[s] /\ Shaped(r) /\ r.inquiry = None
           /\ PriorReceipts(r) = {} /\ ~Malformed(r)
           /\ Named(r.expected_visit_versions) = {}
           /\ visits[v].status = "ABSENT"
           /\ visits' = [visits EXCEPT ![v] =
                [status |-> "PLANNED", version |-> 1, plan |-> r.plan]]
           /\ UNCHANGED <<inquiries, participations, cashNotes, corrections>>
           /\ \E result, links : Gets(s, r, result, links)
<1>1. PICK r \in Request : r = requests[s] /\ Shaped(r) /\ r.op = "PLAN_VISIT"
  BY AcceptedType DEF CreatePlannedVisit
<1>2. PriorReceipts(r) = {} /\ ~Malformed(r)
  BY <1>1 DEF CreatePlannedVisit, Accepts
<1>3. r.inquiry = None /\ Named(r.expected_visit_versions) = {}
  BY <1>1 DEF Shaped, Named, NoVersions
<1> QED
  BY <1>1, <1>2, <1>3 DEF CreatePlannedVisit, Gets

(* Every step is one of these.                                              *)
LEMMA StepCases ==
  ASSUME [Next]_vars
  PROVE  \/ \E s \in Slots : CreatePlannedVisit(s)
         \/ \E s \in Slots : Command(s)
         \/ \E s \in Slots : Replay(s) \/ Reject(s)
         \/ \E i \in Inquiries : ReceiveInquiry(i)
         \/ \E s \in Slots : SendRequest(s)
         \/ \E rec \in receipts : ExpireResult(rec)
         \/ UNCHANGED vars
BY DEF Next, Deliver, Command

-----------------------------------------------------------------------------
(* Versions only grow.                                                      *)

Ages ==
  /\ \A i \in Inquiries : inquiries[i].version <= inquiries'[i].version
  /\ \A v \in Visits : visits[v].version <= visits'[v].version

LEMMA MoveMeans ==
  ASSUME TypeOK, NEW i \in Inquiries, NEW status, MoveTo(i, status)
  PROVE  /\ inquiries'[i].version = inquiries[i].version + 1
         /\ inquiries'[i].status = status
         /\ \A j \in Inquiries : j # i => inquiries'[j] = inquiries[j]
<1>1. inquiries \in [Inquiries -> Inquiry] /\ inquiries[i] \in Inquiry
  BY DEF TypeOK
<1> QED
  BY <1>1 DEF MoveTo, Inquiry

LEMMA BumpMeans ==
  ASSUME TypeOK, NEW S, BumpVisits(S)
  PROVE  \A v \in Visits :
           /\ visits'[v].status = visits[v].status
           /\ visits'[v].version =
                IF v \in S THEN visits[v].version + 1 ELSE visits[v].version
<1> SUFFICES ASSUME NEW v \in Visits
             PROVE  /\ visits'[v].status = visits[v].status
                    /\ visits'[v].version = IF v \in S
                         THEN visits[v].version + 1 ELSE visits[v].version
  OBVIOUS
<1>1. visits[v] \in Visit
  BY DEF TypeOK
<1>2. visits'[v] = IF v \in S THEN [visits[v] EXCEPT !.version = @ + 1]
                   ELSE visits[v]
  BY DEF BumpVisits
<1> QED
  BY <1>1, <1>2 DEF Visit

LEMMA VersionTypes ==
  ASSUME TypeOK
  PROVE  /\ \A i \in Inquiries : inquiries[i].version \in Nat
         /\ \A v \in Visits : visits[v].version \in Nat
BY DEF TypeOK, Inquiry, Visit

LEMMA AgeStep ==
  ASSUME TInv, AbsentOK, [Next]_vars PROVE Ages
<1>1. /\ TypeOK /\ \A i \in Inquiries : inquiries[i].version \in Nat
      /\ \A v \in Visits : visits[v].version \in Nat
  BY VersionTypes DEF TInv
<1>2. ASSUME UNCHANGED <<inquiries, visits>> PROVE Ages
  BY <1>1, <1>2 DEF Ages
<1>3. ASSUME NEW s \in Slots, CreatePlannedVisit(s) PROVE Ages
  <2>1. PICK r \in Request, v \in Visits :
          /\ visits[v].status = "ABSENT" /\ inquiries' = inquiries
          /\ visits' = [visits EXCEPT ![v] =
               [status |-> "PLANNED", version |-> 1, plan |-> r.plan]]
    BY <1>3, PlanShape
  <2>2. visits[v].version = 0 /\ visits \in [Visits -> Visit]
    BY <1>1, <2>1 DEF AbsentOK, TypeOK
  <2> QED
    BY <1>1, <2>1, <2>2 DEF Ages
<1>4. ASSUME NEW s \in Slots, Command(s) PROVE Ages
  <2>1. PICK r \in Request, status \in Statuses \ {"ABSENT"},
             S \in SUBSET Planned :
          /\ r.inquiry \in Inquiries /\ MoveTo(r.inquiry, status)
          /\ BumpVisits(S)
    BY <1>4, CommandShape DEF Consumes
  <2> QED
    BY <1>1, <2>1, MoveMeans, BumpMeans DEF Ages
<1>5. ASSUME NEW i \in Inquiries, ReceiveInquiry(i) PROVE Ages
  <2>1. inquiries[i].version = 0 /\ inquiries \in [Inquiries -> Inquiry]
    BY <1>1, <1>5 DEF ReceiveInquiry, AbsentOK, TypeOK
  <2> QED
    BY <1>1, <1>5, <2>1 DEF ReceiveInquiry, Ages
<1>6. ASSUME NEW s \in Slots, Replay(s) \/ Reject(s) \/ SendRequest(s)
      PROVE  Ages
  BY <1>2, <1>6 DEF Replay, Reject, SendRequest, tables
<1>7. ASSUME NEW rec \in receipts, ExpireResult(rec) PROVE Ages
  BY <1>2, <1>7 DEF ExpireResult, tables
<1>8. CASE UNCHANGED vars
  BY <1>2, <1>8 DEF vars
<1> QED
  BY <1>3, <1>4, <1>5, <1>6, <1>7, <1>8, StepCases

(* What is absent stays without a version, and what is planned stays.       *)
LEMMA AbsentStep ==
  ASSUME TInv, AbsentOK, [Next]_vars PROVE AbsentOK'
<1>1. /\ TypeOK /\ \A i \in Inquiries : inquiries[i].version \in Nat
      /\ \A v \in Visits : visits[v].version \in Nat
      /\ inquiries \in [Inquiries -> Inquiry] /\ visits \in [Visits -> Visit]
  BY VersionTypes DEF TInv, TypeOK
<1>2. ASSUME UNCHANGED <<inquiries, visits, participations>> PROVE AbsentOK'
  BY <1>2 DEF AbsentOK, Planned
<1>3. ASSUME NEW s \in Slots, CreatePlannedVisit(s) PROVE AbsentOK'
  <2>1. PICK r \in Request, v \in Visits :
          /\ UNCHANGED <<inquiries, participations>>
          /\ visits' = [visits EXCEPT ![v] =
               [status |-> "PLANNED", version |-> 1, plan |-> r.plan]]
    BY <1>3, PlanShape
  <2> QED
    BY <1>1, <2>1 DEF AbsentOK, Planned
<1>4. ASSUME NEW s \in Slots, Command(s) PROVE AbsentOK'
  <2>1. PICK r \in Request, status \in Statuses \ {"ABSENT"},
             S \in SUBSET Planned :
          /\ r = requests[s] /\ Shaped(r)
          /\ r.inquiry \in Inquiries /\ MoveTo(r.inquiry, status)
          /\ BumpVisits(S)
    BY <1>4, CommandShape DEF Consumes
  <2>2. \A p \in participations' : p.visit \in Planned
    <3>1. CASE ConfirmInquiry(s)
      <4>1. r.op = "CONFIRM" /\ ConfirmVerdict(r) = "OK"
        BY <2>1, <3>1 DEF ConfirmInquiry, Accepts, Verdict
      <4>2. r.visit \in Planned
        BY <2>1, <4>1 DEF Shaped, ConfirmVerdict, Planned
      <4> QED
        BY <2>1, <3>1, <4>2 DEF ConfirmInquiry, AbsentOK
    <3>2. ASSUME NEW i \in Inquiries, NEW kind, CloseParts(i, kind)
          PROVE  \A p \in participations' : p.visit \in Planned
      <4>1. participations \subseteq Participation
        BY <1>1 DEF TypeOK
      <4>2. \A p \in participations : [p EXCEPT !.close_kind = kind].visit = p.visit
        BY <4>1 DEF Participation
      <4> QED
        BY <3>2, <4>2 DEF CloseParts, AbsentOK
    <3>3. CASE participations' = participations
      BY <3>3 DEF AbsentOK
    <3> QED
      BY <1>4, <2>1, <3>1, <3>2, <3>3
      DEF Command, StartNegotiation, CompleteInquiry, CancelInquiry,
          RecordCashNote, CorrectCashNote
  <2>3. Planned' = Planned
    BY <1>1, <2>1, BumpMeans DEF Planned
  <2>4. \A i \in Inquiries : inquiries'[i].status = "ABSENT" =>
                              inquiries'[i].version = 0
    BY <1>1, <2>1, MoveMeans DEF AbsentOK
  <2>5. \A v \in Visits : visits'[v].status = "ABSENT" => visits'[v].version = 0
    BY <1>1, <2>1, BumpMeans DEF AbsentOK, Planned
  <2> QED
    BY <2>2, <2>3, <2>4, <2>5 DEF AbsentOK
<1>5. ASSUME NEW i \in Inquiries, ReceiveInquiry(i) PROVE AbsentOK'
  BY <1>1, <1>5 DEF ReceiveInquiry, AbsentOK, Planned
<1>6. ASSUME NEW s \in Slots, Replay(s) \/ Reject(s) \/ SendRequest(s)
      PROVE  AbsentOK'
  BY <1>2, <1>6 DEF Replay, Reject, SendRequest, tables
<1>7. ASSUME NEW rec \in receipts, ExpireResult(rec) PROVE AbsentOK'
  BY <1>2, <1>7 DEF ExpireResult, tables
<1>8. CASE UNCHANGED vars
  BY <1>2, <1>8 DEF vars
<1> QED
  BY <1>3, <1>4, <1>5, <1>6, <1>7, <1>8, StepCases
-----------------------------------------------------------------------------
(* Versions, keys and answers.                                              *)

(* An accepted request names versions that are no longer current.           *)
Past(r) ==
  /\ ~Malformed(r)
  /\ r.inquiry \in Inquiries =>
       r.expected_version < inquiries[r.inquiry].version
  /\ \A v \in Named(r.expected_visit_versions) :
       r.expected_visit_versions[v] < visits[v].version

AllPast == \A rec \in receipts : Past(rec.request)

(* A request that names the versions of now.                                *)
Current(r) ==
  /\ r.inquiry \in Inquiries =>
       r.expected_version = inquiries[r.inquiry].version
  /\ \A v \in Named(r.expected_visit_versions) :
       r.expected_visit_versions[v] = visits[v].version

(* What is common to all the steps that store a receipt.                    *)
Accepted(s, r, result, links) ==
  /\ r \in Request /\ r = requests[s]
  /\ PriorReceipts(r) = {} /\ Current(r) /\ Past(r)'
  /\ Gets(s, r, result, links)

LEMMA AcceptShape ==
  ASSUME TInv, AbsentOK, NEW s \in Slots, CreatePlannedVisit(s) \/ Command(s)
  PROVE  \E r, result, links : Accepted(s, r, result, links)
<1>1. TypeOK
  BY DEF TInv
<1>2. CASE CreatePlannedVisit(s)
  <2>1. PICK r \in Request :
          /\ r = requests[s] /\ r.inquiry = None
          /\ PriorReceipts(r) = {} /\ ~Malformed(r)
          /\ Named(r.expected_visit_versions) = {}
          /\ \E result, links : Gets(s, r, result, links)
    BY <1>2, PlanShape
  <2>2. Current(r)
    BY <2>1, ConstantsAssumption DEF Current
  <2>3. Past(r)'
    BY <2>1, ConstantsAssumption DEF Past, Malformed
  <2> QED
    BY <2>1, <2>2, <2>3 DEF Accepted
<1>3. CASE Command(s)
  <2>1. PICK r \in Request, status \in Statuses \ {"ABSENT"},
             S \in SUBSET Planned :
          /\ r = requests[s] /\ r.inquiry \in Inquiries
          /\ PriorReceipts(r) = {} /\ ~Malformed(r)
          /\ inquiries[r.inquiry].version = r.expected_version
          /\ MoveTo(r.inquiry, status) /\ Consumes(r, S)
          /\ \E result, links : Gets(s, r, result, links)
    BY <1>3, CommandShape
  <2>2. Current(r)
    BY <2>1 DEF Current, Consumes, StaleVisits
  <2>3. Past(r)'
    <3>1. r.expected_version < inquiries'[r.inquiry].version
      BY <1>1, <2>1, MoveMeans, VersionTypes
    <3>2. ASSUME NEW v \in Named(r.expected_visit_versions)
          PROVE  r.expected_visit_versions[v] < visits'[v].version
      <4>1. v \in Visits /\ v \in S
        BY <2>1, <3>2 DEF Named, Consumes
      <4>2. visits'[v].version = visits[v].version + 1
        BY <1>1, <2>1, <4>1, BumpMeans DEF Consumes
      <4> QED
        BY <1>1, <2>2, <4>1, <4>2, VersionTypes DEF Current
    <3>3. ~Malformed(r)'
      BY <2>1 DEF Malformed
    <3> QED
      BY <3>1, <3>2, <3>3 DEF Past
  <2> QED
    BY <2>1, <2>2, <2>3 DEF Accepted
<1> QED
  BY <1>2, <1>3

LEMMA StaysPast ==
  ASSUME TypeOK, Ages, TypeOK', NEW r \in Request, Past(r) PROVE Past(r)'
<1>1. ~Malformed(r)'
  BY DEF Past, Malformed
<1>2. r.inquiry \in Inquiries =>
        r.expected_version < inquiries'[r.inquiry].version
  <2>1. r.expected_version \in Nat
    BY DEF Request
  <2> QED
    BY <2>1 DEF Past, Ages, TypeOK, Inquiry
<1>3. ASSUME NEW v \in Named(r.expected_visit_versions)
      PROVE  r.expected_visit_versions[v] < visits'[v].version
  <2>1. v \in Visits /\ r.expected_visit_versions[v] \in Nat
    BY DEF Named, Request, VersionMaps
  <2> QED
    BY <2>1, VersionTypes DEF Past, Ages, TypeOK, Visit
<1> QED
  BY <1>1, <1>2, <1>3 DEF Past

(* The receipts after a step: one more, or one that lost its result, or the *)
(* same.                                                                    *)
LEMMA ReceiptCases ==
  ASSUME TInv, AbsentOK, [Next]_vars
  PROVE  \/ \E s \in Slots :
              \E r, result, links : Accepted(s, r, result, links)
         \/ \E rec \in receipts : ExpireResult(rec)
         \/ receipts' = receipts /\ Ages
<1>1. ASSUME NEW s \in Slots, Replay(s) \/ Reject(s) \/ SendRequest(s)
      PROVE  receipts' = receipts
  BY <1>1 DEF Replay, Reject, SendRequest
<1>2. ASSUME NEW i \in Inquiries, ReceiveInquiry(i) PROVE receipts' = receipts
  BY <1>2 DEF ReceiveInquiry
<1>3. CASE UNCHANGED vars
  BY <1>3, AgeStep DEF vars
<1> QED
  BY <1>1, <1>2, <1>3, AcceptShape, AgeStep, StepCases

KeysInv ==
  /\ TInv /\ AbsentOK /\ AllPast
  /\ OneWinnerPerVersion /\ OneEffectPerKey

(* Expiry of a result leaves the requests of the receipts as they were.     *)
LEMMA ExpireShape ==
  ASSUME TInv, NEW rec \in receipts, ExpireResult(rec)
  PROVE  /\ requests' = requests /\ replies' = replies
         /\ inquiries' = inquiries /\ visits' = visits
         /\ \A x \in receipts' : \E y \in receipts :
              /\ x.request = y.request
              /\ x = y \/ (y = rec /\ x.result = None)
         /\ \A y \in receipts : \E x \in receipts' :
              x.request = y.request /\ x.result \in {None, y.result}
<1> DEFINE spent == [rec EXCEPT !.result = None]
<1>1. spent.request = rec.request /\ spent.result = None
  BY DEF TInv, TypeOK, Receipt
<1>2. /\ receipts' = (receipts \ {rec}) \cup {spent}
      /\ requests' = requests /\ replies' = replies
      /\ inquiries' = inquiries /\ visits' = visits
  BY DEF ExpireResult, tables
<1> HIDE DEF spent
<1> QED
  BY <1>1, <1>2

LEMMA PastStep ==
  ASSUME TInv, TInv', AbsentOK, AllPast, [Next]_vars PROVE AllPast'
<1> SUFFICES ASSUME NEW x \in receipts' PROVE Past(x.request)'
  BY DEF AllPast
<1>1. /\ TypeOK /\ TypeOK' /\ Ages
      /\ \A y \in receipts : y.request \in Request /\ Past(y.request)
  BY AgeStep DEF TInv, TypeOK, Receipt, AllPast
<1>2. ASSUME NEW y \in receipts, x.request = y.request
      PROVE  Past(x.request)'
  <2>1. y.request \in Request /\ Past(y.request)
    BY <1>1
  <2>2. \A r \in Request : Past(r) => Past(r)'
    BY <1>1, StaysPast
  <2> QED
    BY <1>2, <2>1, <2>2 DEF Past, Malformed
<1>3. ASSUME NEW s \in Slots, NEW r \in Request, NEW result, NEW links,
             Gets(s, r, result, links), Past(r)'
      PROVE  Past(x.request)'
  <2>1. x \in receipts \/ x.request = r
    BY <1>3 DEF Gets
  <2>2. CASE x.request = r
    BY <1>3, <2>2 DEF Past, Malformed
  <2> QED
    BY <1>2, <2>1, <2>2
<1>4. ASSUME NEW rec \in receipts, ExpireResult(rec) PROVE Past(x.request)'
  BY <1>2, <1>4, ExpireShape
<1> QED
  BY <1>2, <1>3, <1>4, ReceiptCases DEF Accepted

(* One winner, of two requests.                                             *)
Apart(a, b) ==
  /\ \/ a.inquiry # b.inquiry
     \/ a.inquiry = None
     \/ a.expected_version # b.expected_version
  /\ \A v \in Named(a.expected_visit_versions) :
       a.expected_visit_versions[v] # b.expected_visit_versions[v]

LEMMA CurrentApart ==
  ASSUME TypeOK, NEW a \in Request, NEW r \in Request, Past(a), Current(r)
  PROVE  Apart(a, r) /\ Apart(r, a)
<1>1. a.expected_version \in Nat /\ r.expected_version \in Nat
  BY DEF Request
<1>2. \/ a.inquiry # r.inquiry \/ a.inquiry = None
      \/ a.expected_version # r.expected_version
  BY <1>1, VersionTypes DEF Past, Current, Request
<1>3. ASSUME NEW v \in Visits, a.expected_visit_versions[v] # 0,
             r.expected_visit_versions[v] # 0
      PROVE  a.expected_visit_versions[v] # r.expected_visit_versions[v]
  <2>1. /\ a.expected_visit_versions[v] \in Nat
        /\ r.expected_visit_versions[v] \in Nat
        /\ visits[v].version \in Nat
    BY VersionTypes DEF Request, VersionMaps
  <2>2. v \in Named(a.expected_visit_versions)
    BY <1>3 DEF Named
  <2>3. v \in Named(r.expected_visit_versions)
    BY <1>3 DEF Named
  <2> QED
    BY <2>1, <2>2, <2>3 DEF Past, Current
<1>4. /\ \A v \in Named(a.expected_visit_versions) :
           a.expected_visit_versions[v] # r.expected_visit_versions[v]
      /\ \A v \in Named(r.expected_visit_versions) :
           r.expected_visit_versions[v] # a.expected_visit_versions[v]
  BY <1>3 DEF Named
<1> QED
  BY <1>2, <1>4 DEF Apart

LEMMA WinnerStep ==
  ASSUME TInv, AbsentOK, AllPast, OneWinnerPerVersion, [Next]_vars
  PROVE  OneWinnerPerVersion'
<1>1. /\ TypeOK /\ RequestsShaped
      /\ \A y \in receipts : y.request \in Request /\ Past(y.request)
  BY DEF TInv, TypeOK, Receipt, AllPast
<1>2. \A x, y \in receipts : x.request = y.request \/ Apart(x.request, y.request)
  BY DEF OneWinnerPerVersion, Apart
<1>3. \A x, y \in receipts' : x.request = y.request \/ Apart(x.request, y.request)
  <2>1. ASSUME NEW s \in Slots, NEW r \in Request, NEW result, NEW links,
               Gets(s, r, result, links), Current(r)
        PROVE  \A x, y \in receipts' :
                 x.request = y.request \/ Apart(x.request, y.request)
    <3>1. \A x \in receipts' : x \in receipts \/ x.request = r
      BY <2>1 DEF Gets
    <3>2. \A x \in receipts : Apart(x.request, r) /\ Apart(r, x.request)
      BY <1>1, <2>1, CurrentApart
    <3> QED
      BY <1>2, <3>1, <3>2
  <2>2. ASSUME NEW rec \in receipts, ExpireResult(rec)
        PROVE  \A x, y \in receipts' :
                 x.request = y.request \/ Apart(x.request, y.request)
    BY <1>2, <2>2, ExpireShape
  <2>3. CASE receipts' = receipts
    BY <1>2, <2>3
  <2> QED
    BY <2>1, <2>2, <2>3, ReceiptCases DEF Accepted
<1> QED
  BY <1>3 DEF OneWinnerPerVersion, Apart, Named

(* What a slot that was told of a success can rely on.                      *)
Backed(s) ==
  (replies[s] # None /\ replies[s].code = "OK") =>
    \E rec \in receipts : /\ rec.request = requests[s]
                          /\ rec.result \in {None, replies[s].result}

LEMMA KeyStep ==
  ASSUME TInv, TInv', AbsentOK, OneEffectPerKey, [Next]_vars
  PROVE  OneEffectPerKey'
<1>1. /\ TypeOK /\ TypeOK'
      /\ \A a, b \in receipts : SameIdentity(a.request, b.request) => a = b
      /\ \A t \in Slots : Backed(t)
  BY DEF TInv, OneEffectPerKey, Backed
<1>2. \A a, b \in receipts' : SameIdentity(a.request, b.request) => a = b
  <2>1. ASSUME NEW s \in Slots, NEW r \in Request, NEW result, NEW links,
               Gets(s, r, result, links), PriorReceipts(r) = {}
        PROVE  \A a, b \in receipts' :
                 SameIdentity(a.request, b.request) => a = b
    <3>1. \A a \in receipts : ~SameIdentity(a.request, r)
      BY <2>1 DEF PriorReceipts
    <3>2. \A a \in receipts : ~SameIdentity(r, a.request)
      BY <3>1 DEF SameIdentity
    <3> DEFINE new == [request |-> r, result |-> result, links |-> links]
    <3>3. new.request = r /\ receipts' = receipts \cup {new}
      BY <2>1 DEF Gets
    <3> HIDE DEF new
    <3> QED
      BY <1>1, <3>1, <3>2, <3>3
  <2>2. ASSUME NEW rec \in receipts, ExpireResult(rec)
        PROVE  \A a, b \in receipts' :
                 SameIdentity(a.request, b.request) => a = b
    <3> DEFINE spent == [rec EXCEPT !.result = None]
    <3>1. spent.request = rec.request
      BY <1>1 DEF TypeOK, Receipt
    <3>2. receipts' = (receipts \ {rec}) \cup {spent}
      BY <2>2 DEF ExpireResult
    <3> HIDE DEF spent
    <3> QED
      BY <1>1, <3>1, <3>2
  <2>3. CASE receipts' = receipts
    BY <1>1, <2>3
  <2> QED
    BY <2>1, <2>2, <2>3, ReceiptCases DEF Accepted
<1>3. ASSUME NEW t \in Slots PROVE Backed(t)'
  <2>1. ASSUME replies'[t] = replies[t], requests'[t] = requests[t],
               \A y \in receipts : \E x \in receipts' :
                 x.request = y.request /\ x.result \in {None, y.result}
        PROVE  Backed(t)'
    BY <1>1, <2>1 DEF Backed
  <2>2. ASSUME receipts \subseteq receipts'
        PROVE  \A y \in receipts : \E x \in receipts' :
                 x.request = y.request /\ x.result \in {None, y.result}
    BY <2>2
  <2>3. ASSUME NEW s \in Slots, CreatePlannedVisit(s) \/ Command(s)
        PROVE  Backed(t)'
    <3>1. PICK r, result, links :
            r = requests[s] /\ Gets(s, r, result, links)
      BY <2>3, AcceptShape DEF Accepted
    <3>2. /\ receipts \subseteq receipts' /\ requests' = requests
          /\ replies' = replies \/
               replies' = [replies EXCEPT ![s] =
                             [code |-> "OK", result |-> result]]
      BY <3>1 DEF Gets, Answer
    <3>3. CASE replies'[t] = replies[t]
      BY <2>1, <2>2, <3>2, <3>3
    <3>4. CASE replies'[t] # replies[t]
      <4>1. t = s /\ replies'[t] = [code |-> "OK", result |-> result]
        BY <1>1, <3>2, <3>4 DEF TypeOK
      <4> DEFINE new == [request |-> r, result |-> result, links |-> links]
      <4>2. new \in receipts' /\ new.request = requests'[t]
            /\ new.result = replies'[t].result
        BY <3>1, <3>2, <4>1 DEF Gets
      <4> QED
        BY <4>2 DEF Backed
    <3> QED
      BY <3>3, <3>4
  <2>4. ASSUME NEW s \in Slots, Replay(s) PROVE Backed(t)'
    <3>1. PICK rec \in receipts : Answer(s, ReplayAnswer(rec, requests[s]))
      BY <2>4 DEF Replay, PriorReceipts
    <3>2. receipts' = receipts /\ requests' = requests
      BY <2>4 DEF Replay
    <3>3. CASE replies'[t] = replies[t]
      BY <2>1, <2>2, <3>2, <3>3
    <3>4. CASE replies'[t] # replies[t]
      <4>1. t = s /\ replies'[t] = ReplayAnswer(rec, requests[s])
        BY <1>1, <3>1, <3>4 DEF TypeOK, Answer
      <4>2. CASE rec.request = requests[s] /\ rec.result # None
        <5>1. replies'[t].result = rec.result
          BY <4>1, <4>2 DEF ReplayAnswer
        <5> QED
          BY <3>2, <4>1, <4>2, <5>1 DEF Backed
      <4>3. CASE rec.request # requests[s] \/ rec.result = None
        <5>1. replies'[t].code # "OK"
          BY <4>1, <4>3 DEF ReplayAnswer, Refused
        <5> QED
          BY <5>1 DEF Backed
      <4> QED
        BY <4>2, <4>3
    <3> QED
      BY <3>3, <3>4
  <2>5. ASSUME NEW s \in Slots, Reject(s) PROVE Backed(t)'
    <3>1. PICK code : code # "OK" /\ Answer(s, Refused(code))
      BY <2>5 DEF Reject
    <3>2. receipts' = receipts /\ requests' = requests
      BY <2>5 DEF Reject
    <3>3. CASE replies'[t] = replies[t]
      BY <2>1, <2>2, <3>2, <3>3
    <3>4. CASE replies'[t] # replies[t]
      <4>1. replies'[t] = Refused(code)
        BY <1>1, <3>1, <3>4 DEF TypeOK, Answer
      <4> QED
        BY <3>1, <4>1 DEF Backed, Refused
    <3> QED
      BY <3>3, <3>4
  <2>6. ASSUME NEW s \in Slots, SendRequest(s) PROVE Backed(t)'
    <3>1. PICK r : /\ requests' = [requests EXCEPT ![s] = r]
                   /\ replies' = [replies EXCEPT ![s] = None]
                   /\ receipts' = receipts
      BY <2>6 DEF SendRequest
    <3>2. CASE t = s
      BY <1>1, <3>1, <3>2 DEF Backed, TypeOK
    <3>3. CASE t # s
      BY <1>1, <2>1, <2>2, <3>1, <3>3 DEF TypeOK
    <3> QED
      BY <3>2, <3>3
  <2>7. ASSUME NEW rec \in receipts, ExpireResult(rec) PROVE Backed(t)'
    BY <2>1, <2>7, ExpireShape
  <2>8. ASSUME NEW i \in Inquiries, ReceiveInquiry(i) PROVE Backed(t)'
    BY <2>1, <2>2, <2>8 DEF ReceiveInquiry
  <2>9. CASE UNCHANGED vars
    BY <2>1, <2>2, <2>9 DEF vars
  <2> QED
    BY <2>3, <2>4, <2>5, <2>6, <2>7, <2>8, <2>9, StepCases
<1> QED
  BY <1>2, <1>3 DEF OneEffectPerKey, Backed, SameIdentity

LEMMA KeysInit == Init => KeysInv
<1> SUFFICES ASSUME Init PROVE KeysInv
  OBVIOUS
<1>1. TInv
  BY TypeInit
<1>2. AbsentOK
  BY DEF Init, AbsentOK, Planned
<1>3. AllPast /\ OneWinnerPerVersion /\ OneEffectPerKey
  BY DEF Init, AllPast, OneWinnerPerVersion, OneEffectPerKey
<1> QED
  BY <1>1, <1>2, <1>3 DEF KeysInv

LEMMA KeysStep == KeysInv /\ [Next]_vars => KeysInv'
<1> SUFFICES ASSUME KeysInv, [Next]_vars PROVE KeysInv'
  OBVIOUS
<1>1. TInv /\ TInv' /\ AbsentOK /\ AllPast
      /\ OneWinnerPerVersion /\ OneEffectPerKey
  BY TypeStep DEF KeysInv
<1> QED
  BY <1>1, AbsentStep, PastStep, WinnerStep, KeyStep DEF KeysInv

LEMMA KeysAlways == Spec => []KeysInv
BY KeysInit, KeysStep, PTL DEF Spec

(* No lost update: of all the commands composed from the same version of an *)
(* inquiry or of a visit, at most one is ever accepted, however many tabs,  *)
(* inquiries and visits there are and however the deliveries interleave.    *)
THEOREM NoLostUpdate == Spec => []OneWinnerPerVersion
<1>1. KeysInv => OneWinnerPerVersion
  BY DEF KeysInv
<1> QED
  BY <1>1, KeysAlways, PTL

(* One key, one effect: the key of a path has one receipt for ever, and a   *)
(* client that was told of a success has the stored result of its request,  *)
(* whatever was lost, repeated or removed in between.                       *)
THEOREM OneKeyOneEffect == Spec => []OneEffectPerKey
<1>1. KeysInv => OneEffectPerKey
  BY DEF KeysInv
<1> QED
  BY <1>1, KeysAlways, PTL

(* A success is never taken back from the slot that was told of it.         *)
Stable(s) ==
  (/\ replies[s] # None /\ replies[s].code = "OK"
   /\ requests'[s] = requests[s] /\ replies'[s] # None)
  => \/ replies'[s] = replies[s]
     \/ replies'[s] = Refused("RESULT_EXPIRED")

LEMMA StableStep ==
  ASSUME KeysInv, [Next]_vars, NEW s \in Slots PROVE Stable(s)
<1> SUFFICES ASSUME replies[s] # None, replies[s].code = "OK",
                    requests'[s] = requests[s], replies'[s] # None,
                    replies'[s] # replies[s]
             PROVE  replies'[s] = Refused("RESULT_EXPIRED")
  BY DEF Stable
<1>1. TInv /\ TypeOK /\ AbsentOK /\ AllPast /\ OneEffectPerKey
  BY DEF KeysInv, TInv
<1>2. PICK own \in receipts :
        own.request = requests[s] /\ own.result \in {None, replies[s].result}
  BY <1>1 DEF OneEffectPerKey
<1>3. ~Malformed(requests[s]) /\ own \in PriorReceipts(requests[s])
  BY <1>1, <1>2 DEF AllPast, Past, PriorReceipts, SameIdentity
<1>4. \A reply : \A t \in Slots : Answer(t, reply) => t = s /\ replies'[s] = reply
  BY <1>1 DEF Answer, TypeOK
<1>5. ASSUME NEW t \in Slots, CreatePlannedVisit(t) \/ Command(t) PROVE FALSE
  <2>1. PICK r, result, links :
          r = requests[t] /\ PriorReceipts(r) = {} /\ Gets(t, r, result, links)
    BY <1>1, <1>5, AcceptShape DEF Accepted
  <2>2. t = s
    BY <1>4, <2>1 DEF Gets
  <2> QED
    BY <1>3, <2>1, <2>2
<1>6. ASSUME NEW t \in Slots, Reject(t) PROVE FALSE
  <2>1. t = s
    BY <1>4, <1>6 DEF Reject
  <2> QED
    BY <1>3, <1>6, <2>1 DEF Reject
<1>7. ASSUME NEW t \in Slots, Replay(t)
      PROVE  replies'[s] = Refused("RESULT_EXPIRED")
  <2>1. PICK rec \in PriorReceipts(requests[t]) :
          Answer(t, ReplayAnswer(rec, requests[t]))
    BY <1>7 DEF Replay
  <2>2. t = s /\ replies'[s] = ReplayAnswer(rec, requests[s])
    BY <1>4, <2>1
  <2>3. rec = own
    BY <1>1, <1>2, <2>1, <2>2 DEF OneEffectPerKey, PriorReceipts
  <2>4. replies[s] = [code |-> "OK", result |-> replies[s].result]
    BY <1>1 DEF TypeOK, Reply
  <2> QED
    BY <1>2, <2>2, <2>3, <2>4 DEF ReplayAnswer
<1>8. ASSUME NEW t \in Slots, SendRequest(t) PROVE FALSE
  BY <1>1, <1>8 DEF SendRequest, TypeOK
<1>9. ASSUME NEW i \in Inquiries, ReceiveInquiry(i) PROVE FALSE
  BY <1>9 DEF ReceiveInquiry
<1>10. ASSUME NEW rec \in receipts, ExpireResult(rec) PROVE FALSE
  BY <1>10 DEF ExpireResult
<1>11. CASE UNCHANGED vars
  BY <1>11 DEF vars
<1> QED
  BY <1>5, <1>6, <1>7, <1>8, <1>9, <1>10, <1>11, StepCases

(* A client that was told of a success hears the same of every redelivery,  *)
(* or that the result was removed; never of a conflict with itself.         *)
THEOREM AnswersStay == Spec => AnswersAreStable
<1>1. KeysInv /\ [Next]_vars =>
        [\A s \in Slots :
           (/\ replies[s] # None /\ replies[s].code = "OK"
            /\ requests'[s] = requests[s] /\ replies'[s] # None)
           => \/ replies'[s] = replies[s]
              \/ replies'[s] = Refused("RESULT_EXPIRED")]_vars
  BY StableStep DEF Stable
<1> QED
  BY <1>1, KeysAlways, PTL DEF Spec, AnswersAreStable

-----------------------------------------------------------------------------
(* Statuses and links.                                                      *)

LinksOf(i) == {p \in participations : p.inquiry = i}

Closed(P, kind) == {IF p.close_kind = "OPEN"
                    THEN [p EXCEPT !.close_kind = kind] ELSE p : p \in P}

OpenLink(i, v) == [inquiry |-> i, visit |-> v,
                   joined |-> inquiries[i].version + 1, close_kind |-> "OPEN"]

Moves(i, from, to) ==
  inquiries[i].status \in from /\ inquiries'[i].status = to

OthersKept(i) ==
  \A j \in Inquiries :
    j # i => inquiries'[j] = inquiries[j] /\ LinksOf(j)' = LinksOf(j)

(* All that a step can do to the status and the links of an inquiry.        *)
Received(i) == Moves(i, {"ABSENT"}, "NEW") /\ LinksOf(i)' = LinksOf(i)
Negotiated(i) == Moves(i, {"NEW"}, "NEGOTIATING") /\ LinksOf(i)' = LinksOf(i)
Booked(i) ==
  /\ Moves(i, {"NEW", "NEGOTIATING"}, "CONFIRMED")
  /\ OpenParts(i) = {}
  /\ \E v \in Visits : LinksOf(i)' = LinksOf(i) \cup {OpenLink(i, v)}
Served(i) ==
  /\ Moves(i, {"CONFIRMED"}, "COMPLETED")
  /\ LinksOf(i)' = Closed(LinksOf(i), "PROVIDED")
CalledOff(i) ==
  /\ Moves(i, {"NEW", "NEGOTIATING", "CONFIRMED"}, "CANCELLED")
  /\ LinksOf(i)' = Closed(LinksOf(i), "CANCELLED")
Same(i) == Moves(i, {inquiries[i].status}, inquiries[i].status)
           /\ LinksOf(i)' = LinksOf(i)

InquiryMoves(i) == Received(i) \/ Negotiated(i) \/ Booked(i) \/ Served(i)
                   \/ CalledOff(i) \/ Same(i)

LEMMA CloseMeans ==
  ASSUME TypeOK, NEW i \in Inquiries, NEW kind, CloseParts(i, kind)
  PROVE  /\ LinksOf(i)' = Closed(LinksOf(i), kind)
         /\ \A j \in Inquiries : j # i => LinksOf(j)' = LinksOf(j)
<1> DEFINE f(p) == IF p \in OpenParts(i) THEN [p EXCEPT !.close_kind = kind]
                   ELSE p
<1>1. participations' = {f(p) : p \in participations}
  BY DEF CloseParts
<1>2. \A p \in participations : f(p).inquiry = p.inquiry
  BY DEF TypeOK, Participation
<1>3. \A p \in participations : p \in OpenParts(i) <=>
                                  p.inquiry = i /\ p.close_kind = "OPEN"
  BY DEF OpenParts
<1>4. \A p \in LinksOf(i) :
        f(p) = IF p.close_kind = "OPEN"
               THEN [p EXCEPT !.close_kind = kind] ELSE p
  BY <1>3 DEF LinksOf
<1>5. \A p \in participations : p.inquiry # i => f(p) = p
  BY <1>3
<1> HIDE DEF f
<1>6. LinksOf(i)' = {f(p) : p \in LinksOf(i)}
  BY <1>1, <1>2 DEF LinksOf
<1>7. {f(p) : p \in LinksOf(i)} = Closed(LinksOf(i), kind)
  BY <1>4 DEF Closed
<1>8. \A j \in Inquiries : j # i => LinksOf(j)' = LinksOf(j)
  BY <1>1, <1>2, <1>5 DEF LinksOf
<1> QED
  BY <1>6, <1>7, <1>8

LEMMA CommandMoves ==
  ASSUME TInv, AbsentOK, NEW s \in Slots, Command(s)
  PROVE  \E i \in Inquiries : OthersKept(i) /\ InquiryMoves(i)
<1>1. PICK r \in Request :
        r = requests[s] /\ Shaped(r) /\ r.inquiry \in Inquiries
  BY CommandShape
<1> DEFINE i == r.inquiry
<1>2. TypeOK /\ i \in Inquiries /\ inquiries[i].status \in Statuses
  BY <1>1 DEF TInv, TypeOK, Inquiry
<1>3. \A status : MoveTo(i, status) =>
        /\ inquiries'[i].status = status
        /\ \A j \in Inquiries : j # i => inquiries'[j] = inquiries[j]
  BY <1>2, MoveMeans
<1>4. participations' = participations =>
        \A j \in Inquiries : LinksOf(j)' = LinksOf(j)
  BY DEF LinksOf
<1> HIDE DEF i
<1>5. CASE StartNegotiation(s)
  <2>1. StartVerdict(r) = "OK" /\ MoveTo(i, "NEGOTIATING")
        /\ participations' = participations
    BY <1>1, <1>5 DEF StartNegotiation, Accepts, Verdict, i
  <2>2. Negotiated(i)
    BY <1>2, <1>3, <1>4, <2>1 DEF Negotiated, Moves, StartVerdict, i
  <2> QED
    BY <1>2, <1>3, <1>4, <2>1, <2>2 DEF OthersKept, InquiryMoves
<1>6. CASE ConfirmInquiry(s)
  <2>1. /\ ConfirmVerdict(r) = "OK" /\ MoveTo(i, "CONFIRMED")
        /\ r.visit \in Visits
        /\ participations' = participations \cup {OpenLink(i, r.visit)}
    BY <1>1, <1>6
    DEF ConfirmInquiry, Accepts, Verdict, Shaped, OpenLink, i
  <2>2. OpenLink(i, r.visit).inquiry = i
    BY DEF OpenLink
  <2>3. /\ LinksOf(i)' = LinksOf(i) \cup {OpenLink(i, r.visit)}
        /\ \A j \in Inquiries : j # i => LinksOf(j)' = LinksOf(j)
    BY <2>1, <2>2 DEF LinksOf
  <2>4. OpenParts(i) = {} /\ inquiries[i].status \in {"NEW", "NEGOTIATING"}
    BY <2>1 DEF ConfirmVerdict, i
  <2>5. Booked(i)
    BY <1>3, <2>1, <2>3, <2>4 DEF Booked, Moves
  <2> QED
    BY <1>2, <1>3, <2>1, <2>3, <2>5 DEF OthersKept, InquiryMoves
<1>7. CASE CompleteInquiry(s)
  <2>1. /\ CompleteVerdict(r) = "OK" /\ MoveTo(i, "COMPLETED")
        /\ CloseParts(i, "PROVIDED")
    BY <1>1, <1>7 DEF CompleteInquiry, Accepts, Verdict, i
  <2>2. inquiries[i].status = "CONFIRMED"
    BY <2>1 DEF CompleteVerdict, i
  <2> QED
    BY <1>2, <1>3, <2>1, <2>2, CloseMeans
    DEF OthersKept, InquiryMoves, Served, Moves
<1>8. CASE CancelInquiry(s)
  <2>1. /\ CancelVerdict(r) = "OK" /\ MoveTo(i, "CANCELLED")
        /\ CloseParts(i, "CANCELLED")
    BY <1>1, <1>8 DEF CancelInquiry, Accepts, Verdict, i
  <2>2. inquiries[i].status \in {"NEW", "NEGOTIATING", "CONFIRMED"}
    BY <2>1 DEF CancelVerdict, i
  <2> QED
    BY <1>2, <1>3, <2>1, <2>2, CloseMeans
    DEF OthersKept, InquiryMoves, CalledOff, Moves
<1>9. CASE RecordCashNote(s) \/ CorrectCashNote(s)
  <2>1. MoveTo(i, inquiries[i].status) /\ participations' = participations
    BY <1>1, <1>9 DEF RecordCashNote, CorrectCashNote, i
  <2>2. Same(i)
    BY <1>2, <1>3, <1>4, <2>1 DEF Same, Moves
  <2> QED
    BY <1>2, <1>3, <1>4, <2>1, <2>2 DEF OthersKept, InquiryMoves
<1> QED
  BY <1>5, <1>6, <1>7, <1>8, <1>9 DEF Command

(* Every step moves at most one inquiry, in one of these ways.              *)
LEMMA StepMoves ==
  ASSUME TInv, AbsentOK, [Next]_vars
  PROVE  \/ \E i \in Inquiries : OthersKept(i) /\ InquiryMoves(i)
         \/ inquiries' = inquiries /\ participations' = participations
<1>1. ASSUME NEW s \in Slots,
             CreatePlannedVisit(s) \/ Replay(s) \/ Reject(s) \/ SendRequest(s)
      PROVE  inquiries' = inquiries /\ participations' = participations
  BY <1>1 DEF CreatePlannedVisit, Replay, Reject, SendRequest, tables
<1>2. ASSUME NEW rec \in receipts, ExpireResult(rec)
      PROVE  inquiries' = inquiries /\ participations' = participations
  BY <1>2 DEF ExpireResult, tables
<1>3. ASSUME NEW i \in Inquiries, ReceiveInquiry(i)
      PROVE  OthersKept(i) /\ InquiryMoves(i)
  <2>1. inquiries \in [Inquiries -> Inquiry]
    BY DEF TInv, TypeOK
  <2>2. /\ inquiries[i].status = "ABSENT" /\ inquiries'[i].status = "NEW"
        /\ \A j \in Inquiries : j # i => inquiries'[j] = inquiries[j]
        /\ \A j \in Inquiries : LinksOf(j)' = LinksOf(j)
    BY <1>3, <2>1 DEF ReceiveInquiry, LinksOf
  <2> QED
    BY <2>2 DEF OthersKept, InquiryMoves, Received, Moves
<1>4. CASE UNCHANGED vars
  BY <1>4 DEF vars
<1> QED
  BY <1>1, <1>2, <1>3, <1>4, CommandMoves, StepCases

(* PlanMatchesStatus, of one status and the links P of its inquiry.         *)
Live == {"OPEN", "PROVIDED"}
Fits(status, P) ==
  /\ status = "CONFIRMED" <=> \E p \in P : p.close_kind = "OPEN"
  /\ status = "COMPLETED" <=> \E p \in P : p.close_kind = "PROVIDED"
  /\ \A p, q \in P : p.close_kind \in Live /\ q.close_kind \in Live => p = q

LEMMA PlanIsFit ==
  PlanMatchesStatus <=>
    \A i \in Inquiries : Fits(inquiries[i].status, LinksOf(i))
BY DEF PlanMatchesStatus, Fits, LinksOf, OpenParts, Live

LEMMA FitMove ==
  ASSUME TypeOK, NEW i \in Inquiries, InquiryMoves(i),
         Fits(inquiries[i].status, LinksOf(i))
  PROVE  Fits(inquiries'[i].status, LinksOf(i)')
<1> DEFINE P == LinksOf(i)
<1>1. P \subseteq Participation /\ OpenParts(i) = {p \in P : p.close_kind = "OPEN"}
  BY DEF TypeOK, LinksOf, OpenParts
<1>3. Fits(inquiries[i].status, P) /\ LinksOf(i) = P
  OBVIOUS
<1> HIDE DEF P
<1>4. CASE Received(i) \/ Negotiated(i) \/ Same(i)
  BY <1>3, <1>4 DEF Received, Negotiated, Same, Moves, Fits
<1>5. CASE Booked(i)
  <2>1. PICK v \in Visits : LinksOf(i)' = P \cup {OpenLink(i, v)}
    BY <1>3, <1>5 DEF Booked
  <2>2. OpenLink(i, v).close_kind = "OPEN"
    BY DEF OpenLink
  <2>3. \A p \in P : p.close_kind \notin Live
    BY <1>1, <1>3, <1>5 DEF Booked, Moves, Fits, Live
  <2>4. inquiries'[i].status = "CONFIRMED"
    BY <1>5 DEF Booked, Moves
  <2> QED
    BY <2>1, <2>2, <2>3, <2>4 DEF Fits, Live
<1>6. CASE Served(i)
  <2>1. PICK o \in P : o.close_kind = "OPEN"
    BY <1>3, <1>6 DEF Served, Moves, Fits
  <2>2. \A p \in P : p.close_kind \in Live => p = o
    BY <1>3, <2>1 DEF Fits, Live
  <2> DEFINE done == [o EXCEPT !.close_kind = "PROVIDED"]
             Q == Closed(P, "PROVIDED")
  <2>3. done \in Q /\ done.close_kind = "PROVIDED"
    BY <1>1, <2>1 DEF Closed, Participation
  <2>4. \A q \in Q : q = done \/ (q \in P /\ q.close_kind \notin Live)
    BY <2>1, <2>2 DEF Closed, Live
  <2>5. inquiries'[i].status = "COMPLETED" /\ LinksOf(i)' = Q
    BY <1>3, <1>6 DEF Served, Moves
  <2> HIDE DEF done, Q
  <2> QED
    BY <2>3, <2>4, <2>5 DEF Fits, Live
<1>7. CASE CalledOff(i)
  <2>1. \A p \in P : p.close_kind # "PROVIDED"
    BY <1>3, <1>7 DEF CalledOff, Moves, Fits
  <2>2. \A q \in Closed(P, "CANCELLED") : q.close_kind \notin Live
    BY <1>1, <2>1 DEF Closed, Live, Participation
  <2>3. /\ inquiries'[i].status = "CANCELLED"
        /\ LinksOf(i)' = Closed(P, "CANCELLED")
    BY <1>3, <1>7 DEF CalledOff, Moves
  <2> QED
    BY <2>2, <2>3 DEF Fits, Live
<1> QED
  BY <1>4, <1>5, <1>6, <1>7 DEF InquiryMoves

PlanInv == TInv /\ AbsentOK /\ PlanMatchesStatus

LEMMA PlanInit == Init => PlanInv
<1> SUFFICES ASSUME Init PROVE PlanInv
  OBVIOUS
<1>1. TInv
  BY TypeInit
<1>2. AbsentOK
  BY DEF Init, AbsentOK, Planned
<1>3. PlanMatchesStatus
  BY DEF Init, PlanMatchesStatus, OpenParts
<1> QED
  BY <1>1, <1>2, <1>3 DEF PlanInv

LEMMA PlanStep == PlanInv /\ [Next]_vars => PlanInv'
<1> SUFFICES ASSUME PlanInv, [Next]_vars PROVE PlanInv'
  OBVIOUS
<1>1. TInv /\ TypeOK /\ TInv' /\ AbsentOK /\ AbsentOK'
  BY TypeStep, AbsentStep DEF PlanInv, TInv
<1>2. \A j \in Inquiries : Fits(inquiries[j].status, LinksOf(j))
  BY PlanIsFit DEF PlanInv
<1>3. \A j \in Inquiries : Fits(inquiries'[j].status, LinksOf(j)')
  <2>1. ASSUME NEW i \in Inquiries, OthersKept(i), InquiryMoves(i),
               NEW j \in Inquiries
        PROVE  Fits(inquiries'[j].status, LinksOf(j)')
    <3>1. CASE j = i
      BY <1>1, <1>2, <2>1, <3>1, FitMove
    <3>2. CASE j # i
      BY <1>2, <2>1, <3>2 DEF OthersKept
    <3> QED
      BY <3>1, <3>2
  <2>2. CASE inquiries' = inquiries /\ participations' = participations
    <3>1. \A j \in Inquiries : LinksOf(j)' = LinksOf(j)
      BY <2>2 DEF LinksOf
    <3> QED
      BY <1>2, <2>2, <3>1
  <2> QED
    BY <1>1, <2>1, <2>2, StepMoves
<1>4. PlanMatchesStatus'
  BY <1>3 DEF PlanMatchesStatus, Fits, LinksOf, OpenParts, Live
<1> QED
  BY <1>1, <1>4 DEF PlanInv

LEMMA PlanAlways == Spec => []PlanInv
BY PlanInit, PlanStep, PTL DEF Spec

(* The status of every inquiry and its links to visits tell the same story, *)
(* however many visits and inquiries a group has.                           *)
THEOREM StatusAndPlanAgree == Spec => []PlanMatchesStatus
<1>1. PlanInv => PlanMatchesStatus
  BY DEF PlanInv
<1> QED
  BY <1>1, PlanAlways, PTL

(* A cash fact of i is written: nothing else of i but its version moves,    *)
(* and nothing of another inquiry.                                          *)
PaidOnly(i) ==
  /\ participations' = participations
  /\ inquiries'[i].status = inquiries[i].status
  /\ inquiries'[i].version = inquiries[i].version + 1
  /\ \A j \in Inquiries : j # i => inquiries'[j] = inquiries[j]
  /\ \A v \in LinkedVisits(i) : visits'[v].version = visits[v].version + 1

Money(i) ==
  \E N \in SUBSET {NoteNow(i)}, C \in SUBSET Correction :
    /\ cashNotes' = cashNotes \cup N
    /\ corrections' = corrections \cup C
    /\ \A c \in C : c.original.inquiry = i

LEMMA CashMeans ==
  ASSUME TInv, TInv', AbsentOK, NEW s \in Slots,
         RecordCashNote(s) \/ CorrectCashNote(s)
  PROVE  \E i \in Inquiries : PaidOnly(i) /\ Money(i)
<1>1. PICK r \in Request :
        r = requests[s] /\ Shaped(r) /\ r.inquiry \in Inquiries
  BY CommandShape DEF Command
<1> DEFINE i == r.inquiry
<1>2. TypeOK /\ i \in Inquiries /\ LinkedVisits(i) \subseteq Visits
  BY <1>1 DEF TInv, TypeOK, LinkedVisits, OpenParts, Participation
<1>3. /\ MoveTo(i, inquiries[i].status) /\ BumpVisits(LinkedVisits(i))
      /\ participations' = participations
  BY <1>1 DEF RecordCashNote, CorrectCashNote
<1>4. PaidOnly(i)
  BY <1>2, <1>3, MoveMeans, BumpMeans DEF PaidOnly
<1>5. CASE RecordCashNote(s)
  <2>1. cashNotes' = cashNotes \cup {NoteNow(i)} /\ corrections' = corrections
    BY <1>1, <1>5 DEF RecordCashNote
  <2> HIDE DEF i
  <2>2. Money(i)
    <3>1. /\ {NoteNow(i)} \in SUBSET {NoteNow(i)} /\ {} \in SUBSET Correction
          /\ corrections' = corrections \cup {}
      BY <2>1
    <3> QED
      BY <2>1, <3>1 DEF Money
  <2> QED
    BY <1>2, <1>4, <2>2
<1>6. CASE CorrectCashNote(s)
  <2> DEFINE new == IF r.replace THEN NoteNow(i) ELSE None
             c == [original |-> r.note, replacement |-> new]
  <2>1. /\ cashNotes' = cashNotes \cup ({new} \ {None})
        /\ corrections' = corrections \cup {c}
    BY <1>1, <1>6 DEF CorrectCashNote
  <2>2. r.op = "CORRECTION" /\ CorrectionVerdict(r) = "OK"
    BY <1>1, <1>6 DEF CorrectCashNote, Accepts, Verdict
  <2>3. c.original.inquiry = i
    BY <2>2 DEF CorrectionVerdict
  <2>4. c \in Correction
    BY <2>1 DEF TInv, TypeOK
  <2>5. {new} \ {None} \subseteq {NoteNow(i)}
    OBVIOUS
  <2> HIDE DEF new, c, i
  <2>6. Money(i)
    <3>1. /\ {new} \ {None} \in SUBSET {NoteNow(i)}
          /\ {c} \in SUBSET Correction /\ \A d \in {c} : d.original.inquiry = i
      BY <2>3, <2>4, <2>5
    <3> QED
      BY <2>1, <3>1 DEF Money
  <2> QED
    BY <1>2, <1>4, <2>6
<1> QED
  BY <1>5, <1>6

LEMMA MoneySteps ==
  ASSUME TInv, TInv', AbsentOK, [Next]_vars
  PROVE  \/ cashNotes' = cashNotes /\ corrections' = corrections
         \/ \E i \in Inquiries : PaidOnly(i) /\ Money(i)
<1>1. ASSUME NEW s \in Slots, Command(s),
             ~RecordCashNote(s), ~CorrectCashNote(s)
      PROVE  cashNotes' = cashNotes /\ corrections' = corrections
  BY <1>1 DEF Command, StartNegotiation, ConfirmInquiry, CompleteInquiry,
              CancelInquiry
<1>2. ASSUME NEW s \in Slots,
             CreatePlannedVisit(s) \/ Replay(s) \/ Reject(s) \/ SendRequest(s)
      PROVE  cashNotes' = cashNotes /\ corrections' = corrections
  BY <1>2 DEF CreatePlannedVisit, Replay, Reject, SendRequest, tables
<1>3. ASSUME NEW i \in Inquiries, ReceiveInquiry(i)
      PROVE  cashNotes' = cashNotes /\ corrections' = corrections
  BY <1>3 DEF ReceiveInquiry
<1>4. ASSUME NEW rec \in receipts, ExpireResult(rec)
      PROVE  cashNotes' = cashNotes /\ corrections' = corrections
  BY <1>4 DEF ExpireResult, tables
<1>5. CASE UNCHANGED vars
  BY <1>5 DEF vars
<1> QED
  BY <1>1, <1>2, <1>3, <1>4, <1>5, CashMeans, StepCases

(* The notes and corrections of the other inquiries stay.                   *)
LEMMA MoneyOfOthers ==
  ASSUME TInv, NEW i \in Inquiries, Money(i), NEW j \in Inquiries, j # i
  PROVE  /\ {n \in cashNotes : n.inquiry = j}' = {n \in cashNotes : n.inquiry = j}
         /\ {c \in corrections : c.original.inquiry = j}' =
              {c \in corrections : c.original.inquiry = j}
         /\ EffectiveNotes(j)' = EffectiveNotes(j)
<1>1. PICK N \in SUBSET {NoteNow(i)}, C \in SUBSET Correction :
        /\ cashNotes' = cashNotes \cup N
        /\ corrections' = corrections \cup C
        /\ \A c \in C : c.original.inquiry = i
  BY DEF Money
<1>2. \A n \in N : n.inquiry = i
  BY DEF NoteNow
<1>3. \A n : n.inquiry = j => (Superseded(n)' <=> Superseded(n))
  BY <1>1 DEF Superseded
<1> QED
  BY <1>1, <1>2, <1>3 DEF EffectiveNotes

(* Cancelling, serving or paying for one inquiry of a group leaves the rows *)
(* of all the others alone, in a group of any size.                         *)
THEOREM GroupsAreIsolated == Spec => GroupIsolation
<1>1. ASSUME PlanInv, PlanInv', [Next]_vars, NEW i \in Inquiries,
             NEW j \in Inquiries
      PROVE  i = j \/ RowsOf(i)' = RowsOf(i) \/ RowsOf(j)' = RowsOf(j)
  <2>1. TInv /\ TInv' /\ AbsentOK
    BY <1>1 DEF PlanInv
  <2>2. ASSUME NEW k \in Inquiries, PaidOnly(k), Money(k), NEW m \in Inquiries,
               m # k
        PROVE  RowsOf(m)' = RowsOf(m)
    BY <2>1, <2>2, MoneyOfOthers DEF RowsOf, PaidOnly
  <2>3. ASSUME cashNotes' = cashNotes, corrections' = corrections,
               NEW k \in Inquiries, OthersKept(k), NEW m \in Inquiries, m # k
        PROVE  RowsOf(m)' = RowsOf(m)
    BY <2>3 DEF RowsOf, OthersKept, LinksOf
  <2>4. CASE \E k \in Inquiries : PaidOnly(k) /\ Money(k)
    BY <2>2, <2>4
  <2>5. CASE cashNotes' = cashNotes /\ corrections' = corrections
    <3>1. CASE \E k \in Inquiries : OthersKept(k) /\ InquiryMoves(k)
      BY <2>3, <2>5, <3>1
    <3>2. CASE inquiries' = inquiries /\ participations' = participations
      BY <2>5, <3>2 DEF RowsOf
    <3> QED
      BY <1>1, <2>1, <3>1, <3>2, StepMoves
  <2> QED
    BY <1>1, <2>1, <2>4, <2>5, MoneySteps
<1>2. PlanInv /\ PlanInv' /\ [Next]_vars =>
        [\A i, j \in Inquiries : \/ i = j
                                 \/ RowsOf(i)' = RowsOf(i)
                                 \/ RowsOf(j)' = RowsOf(j)]_vars
  BY <1>1
<1> QED
  BY <1>2, PlanAlways, PTL DEF Spec, GroupIsolation

(* No step writes a cash fact and changes a status or a link together, and  *)
(* the cash summary changes only with the versions a stale tab is held to.  *)
THEOREM CashIsIndependent == Spec => MoneyIsIndependent
<1>1. ASSUME PlanInv, PlanInv', [Next]_vars, NEW i \in Inquiries,
             EffectiveNotes(i)' # EffectiveNotes(i)
      PROVE  PaidOnly(i)
  <2>1. TInv /\ TInv' /\ AbsentOK
    BY <1>1 DEF PlanInv
  <2>2. ~(cashNotes' = cashNotes /\ corrections' = corrections)
    BY <1>1 DEF EffectiveNotes, Superseded
  <2>3. PICK k \in Inquiries : PaidOnly(k) /\ Money(k)
    BY <1>1, <2>1, <2>2, MoneySteps
  <2>4. k = i
    BY <1>1, <2>1, <2>3, MoneyOfOthers
  <2> QED
    BY <2>3, <2>4
<1>2. PlanInv /\ PlanInv' /\ [Next]_vars =>
        [\A i \in Inquiries : EffectiveNotes(i)' # EffectiveNotes(i) =>
           /\ inquiries'[i].status = inquiries[i].status
           /\ inquiries'[i].version = inquiries[i].version + 1
           /\ \A v \in LinkedVisits(i) :
                visits'[v].version = visits[v].version + 1
           /\ participations' = participations]_vars
  BY <1>1 DEF PaidOnly
<1> QED
  BY <1>2, PlanAlways, PTL DEF Spec, MoneyIsIndependent

(* What a link may become.                                                  *)
Ends(p, q) ==
  /\ q = [p EXCEPT !.close_kind = q.close_kind]
  /\ p.close_kind \in {"OPEN", q.close_kind}

LEMMA LinksEnd ==
  ASSUME TypeOK, NEW i \in Inquiries, InquiryMoves(i),
         NEW p \in participations, p.inquiry = i
  PROVE  \E q \in participations' : Ends(p, q)
<1>1. p \in LinksOf(i) /\ p \in Participation /\ Ends(p, p)
  BY DEF LinksOf, TypeOK, Participation, Ends
<1>2. LinksOf(i)' \subseteq participations'
  BY DEF LinksOf
<1>3. CASE LinksOf(i) \subseteq LinksOf(i)'
  BY <1>1, <1>2, <1>3
<1>4. ASSUME NEW kind, LinksOf(i)' = Closed(LinksOf(i), kind)
      PROVE  \E q \in participations' : Ends(p, q)
  <2>1. CASE p.close_kind = "OPEN"
    <3> DEFINE q == [p EXCEPT !.close_kind = kind]
    <3>1. q \in LinksOf(i)'
      BY <1>1, <1>4, <2>1 DEF Closed
    <3>2. Ends(p, q)
      BY <1>1, <2>1 DEF Ends, Participation
    <3> QED
      BY <1>2, <3>1, <3>2
  <2>2. CASE p.close_kind # "OPEN"
    <3>1. p \in LinksOf(i)'
      BY <1>1, <1>4, <2>2 DEF Closed
    <3> QED
      BY <1>1, <1>2, <3>1
  <2> QED
    BY <2>1, <2>2
<1> QED
  BY <1>3, <1>4
  DEF InquiryMoves, Received, Negotiated, Booked, Served, CalledOff, Same

(* A completed or cancelled inquiry stays what it is, a closed link keeps   *)
(* its outcome, and no link or cash fact is ever removed.                   *)
THEOREM OutcomesStay == Spec => OutcomesAreFinal
<1>1. ASSUME PlanInv, PlanInv', [Next]_vars
      PROVE  /\ \A i \in Inquiries : inquiries[i].status \in Terminal =>
                  inquiries'[i].status = inquiries[i].status
             /\ \A p \in participations : \E q \in participations' : Ends(p, q)
             /\ cashNotes \subseteq cashNotes'
             /\ corrections \subseteq corrections'
  <2>1. TInv /\ TInv' /\ TypeOK /\ AbsentOK
    BY <1>1 DEF PlanInv, TInv
  <2>2. cashNotes \subseteq cashNotes' /\ corrections \subseteq corrections'
    BY <1>1, <2>1, MoneySteps DEF Money
  <2>3. \A p \in participations :
          /\ p \in Participation /\ p.inquiry \in Inquiries /\ Ends(p, p)
    BY <2>1 DEF TypeOK, Participation, Ends
  <2>4. ASSUME NEW i \in Inquiries, OthersKept(i), InquiryMoves(i)
        PROVE  /\ \A j \in Inquiries : inquiries[j].status \in Terminal =>
                    inquiries'[j].status = inquiries[j].status
               /\ \A p \in participations : \E q \in participations' : Ends(p, q)
    <3>1. inquiries[i].status \in Terminal =>
            inquiries'[i].status = inquiries[i].status
      BY <2>4 DEF InquiryMoves, Received, Negotiated, Booked, Served,
                  CalledOff, Same, Moves, Terminal
    <3>2. \A j \in Inquiries : j # i => LinksOf(j) \subseteq participations'
      BY <2>4 DEF OthersKept, LinksOf
    <3>3. ASSUME NEW p \in participations, p.inquiry # i
          PROVE  p \in participations' /\ Ends(p, p)
      BY <2>3, <3>2, <3>3 DEF LinksOf
    <3>4. \A p \in participations : \E q \in participations' : Ends(p, q)
      BY <2>1, <2>4, <3>3, LinksEnd
    <3> QED
      BY <2>4, <3>1, <3>4 DEF OthersKept
  <2>5. CASE inquiries' = inquiries /\ participations' = participations
    BY <2>2, <2>3, <2>5
  <2> QED
    BY <1>1, <2>1, <2>2, <2>4, <2>5, StepMoves
<1>2. PlanInv /\ PlanInv' /\ [Next]_vars =>
        [/\ \A i \in Inquiries : inquiries[i].status \in Terminal =>
              inquiries'[i].status = inquiries[i].status
         /\ \A p \in participations : \E q \in participations' :
              /\ q = [p EXCEPT !.close_kind = q.close_kind]
              /\ p.close_kind \in {"OPEN", q.close_kind}
         /\ cashNotes \subseteq cashNotes'
         /\ corrections \subseteq corrections']_vars
  BY <1>1 DEF Ends
<1> QED
  BY <1>2, PlanAlways, PTL DEF Spec, OutcomesAreFinal

-----------------------------------------------------------------------------
(* The refinement.                                                          *)

(* The move of one inquiry is a step of the lifecycle, or changes nothing   *)
(* of it.                                                                   *)
Follows(i) ==
  \/ /\ inquiries[i].status = "ABSENT" /\ inquiries'[i].status = "NEW"
     /\ LinkedVisits(i)' = LinkedVisits(i) /\ ServedVisits(i)' = ServedVisits(i)
  \/ /\ inquiries[i].status = "NEW" /\ inquiries'[i].status = "NEGOTIATING"
     /\ LinkedVisits(i)' = LinkedVisits(i) /\ ServedVisits(i)' = ServedVisits(i)
  \/ /\ inquiries[i].status \in {"NEW", "NEGOTIATING"}
     /\ inquiries'[i].status = "CONFIRMED"
     /\ \E v \in Visits : LinkedVisits(i)' = {v}
     /\ ServedVisits(i)' = ServedVisits(i)
  \/ /\ inquiries[i].status = "CONFIRMED" /\ inquiries'[i].status = "COMPLETED"
     /\ LinkedVisits(i)' = {} /\ ServedVisits(i)' = LinkedVisits(i)
  \/ /\ inquiries[i].status \in {"NEW", "NEGOTIATING", "CONFIRMED"}
     /\ inquiries'[i].status = "CANCELLED"
     /\ LinkedVisits(i)' = {} /\ ServedVisits(i)' = ServedVisits(i)
  \/ /\ inquiries'[i].status = inquiries[i].status
     /\ LinkedVisits(i)' = LinkedVisits(i) /\ ServedVisits(i)' = ServedVisits(i)

VisitsIn(P, kind) == {p.visit : p \in {q \in P : q.close_kind = kind}}

LEMMA ClosedVisits ==
  ASSUME NEW P \in SUBSET Participation, NEW kind \in {"PROVIDED", "CANCELLED"}
  PROVE  /\ VisitsIn(Closed(P, kind), "OPEN") = {}
         /\ VisitsIn(Closed(P, kind), "PROVIDED") =
              VisitsIn(P, "PROVIDED") \cup
                (IF kind = "PROVIDED" THEN VisitsIn(P, "OPEN") ELSE {})
<1> DEFINE f(p) == IF p.close_kind = "OPEN"
                   THEN [p EXCEPT !.close_kind = kind] ELSE p
<1>1. Closed(P, kind) = {f(p) : p \in P}
  BY DEF Closed
<1>2. \A p \in P :
        /\ f(p).visit = p.visit
        /\ f(p).close_kind = IF p.close_kind = "OPEN" THEN kind
                             ELSE p.close_kind
  BY DEF Participation
<1> HIDE DEF f
<1> QED
  BY <1>1, <1>2 DEF VisitsIn

LEMMA MoveFollows ==
  ASSUME TypeOK, PlanMatchesStatus, NEW i \in Inquiries, InquiryMoves(i)
  PROVE  Follows(i)
<1> DEFINE P == LinksOf(i)
<1>1. /\ LinkedVisits(i) = VisitsIn(P, "OPEN")
      /\ ServedVisits(i) = VisitsIn(P, "PROVIDED")
      /\ LinkedVisits(i)' = VisitsIn(P', "OPEN")
      /\ ServedVisits(i)' = VisitsIn(P', "PROVIDED")
  BY DEF VisitsIn, LinkedVisits, OpenParts, ServedVisits, LinksOf
<1>2. P \in SUBSET Participation /\ Fits(inquiries[i].status, P)
  BY PlanIsFit DEF TypeOK, LinksOf
<1>3. P' = LinksOf(i)' /\ P = LinksOf(i)
  OBVIOUS
<1> HIDE DEF P
<1>4. CASE Received(i) \/ Negotiated(i) \/ Same(i)
  BY <1>1, <1>3, <1>4 DEF Received, Negotiated, Same, Moves, Follows
<1>5. CASE Booked(i)
  <2>1. PICK v \in Visits : P' = P \cup {OpenLink(i, v)}
    BY <1>3, <1>5 DEF Booked
  <2>2. OpenLink(i, v).close_kind = "OPEN" /\ OpenLink(i, v).visit = v
    BY DEF OpenLink
  <2>3. \A p \in P : p.close_kind # "OPEN"
    BY <1>3, <1>5 DEF Booked, OpenParts, LinksOf
  <2>4. VisitsIn(P', "OPEN") = {v}
    BY <2>1, <2>2, <2>3 DEF VisitsIn
  <2>5. VisitsIn(P', "PROVIDED") = VisitsIn(P, "PROVIDED")
    BY <2>1, <2>2 DEF VisitsIn
  <2> QED
    BY <1>1, <1>5, <2>4, <2>5 DEF Booked, Moves, Follows
<1>6. CASE Served(i)
  <2>1. VisitsIn(P, "PROVIDED") = {}
    BY <1>2, <1>6 DEF Served, Moves, Fits, VisitsIn
  <2> QED
    BY <1>1, <1>2, <1>3, <1>6, <2>1, ClosedVisits DEF Served, Moves, Follows
<1>7. CASE CalledOff(i)
  BY <1>1, <1>2, <1>3, <1>7, ClosedVisits DEF CalledOff, Moves, Follows
<1> QED
  BY <1>4, <1>5, <1>6, <1>7 DEF InquiryMoves

LEMMA LifecycleInit == Init => Lifecycle!Init
<1> SUFFICES ASSUME Init PROVE Lifecycle!Init
  OBVIOUS
<1>1. \A i \in Inquiries : /\ inquiries[i].status = "ABSENT"
                           /\ LinkedVisits(i) = {} /\ ServedVisits(i) = {}
  BY DEF Init, LinkedVisits, OpenParts, ServedVisits
<1> QED
  BY <1>1 DEF Lifecycle!Init

LEMMA LifecycleStep ==
  ASSUME PlanInv, [Next]_vars
  PROVE  [Lifecycle!Next]_(Lifecycle!book)
<1>1. TInv /\ TypeOK /\ AbsentOK /\ PlanMatchesStatus
  BY DEF PlanInv, TInv
<1>2. ASSUME NEW i \in Inquiries, OthersKept(i), Follows(i)
      PROVE  [Lifecycle!Next]_(Lifecycle!book)
  <2>1. \A j \in Inquiries : j # i =>
          /\ inquiries'[j].status = inquiries[j].status
          /\ LinkedVisits(j)' = LinkedVisits(j)
          /\ ServedVisits(j)' = ServedVisits(j)
    <3>1. ASSUME NEW j \in Inquiries, j # i
          PROVE  LinkedVisits(j)' = LinkedVisits(j)
                 /\ ServedVisits(j)' = ServedVisits(j)
      BY <1>2, <3>1
      DEF OthersKept, LinksOf, LinkedVisits, OpenParts, ServedVisits
    <3> QED
      BY <1>2, <3>1 DEF OthersKept
  <2> QED
    BY <1>2, <2>1
    DEF Follows, Lifecycle!Next, Lifecycle!book, Lifecycle!Receive,
        Lifecycle!Negotiate, Lifecycle!Confirm, Lifecycle!Serve,
        Lifecycle!Cancel, Lifecycle!Open
<1>3. CASE inquiries' = inquiries /\ participations' = participations
  BY <1>3 DEF Lifecycle!book, LinkedVisits, OpenParts, ServedVisits
<1> QED
  BY <1>1, <1>2, <1>3, StepMoves, MoveFollows

(* The tables implement the lifecycle the owner is promised, for every      *)
(* number of inquiries, visits and clients: whatever the commands do to     *)
(* them, the status, the plan and the served visit of an inquiry move only  *)
(* as InquiryLifecycle allows.                                              *)
THEOREM LifecycleImplemented == Spec => ImplementsLifecycle
<1>1. Spec => [][Lifecycle!Next]_(Lifecycle!book)
  <2>1. PlanInv /\ [Next]_vars => [Lifecycle!Next]_(Lifecycle!book)
    BY LifecycleStep
  <2> QED
    BY <2>1, PlanAlways, PTL DEF Spec
<1>2. Spec => Lifecycle!Init
  BY LifecycleInit DEF Spec
<1> QED
  BY <1>1, <1>2 DEF ImplementsLifecycle, Lifecycle!Spec

-----------------------------------------------------------------------------
(* The history.                                                             *)

(* The event e explains what a step does to the versions: the inquiry it    *)
(* names, if any, and the visits it names moved by one, nothing else moved. *)
ExplainsInquiry(e) ==
  \/ e.inquiry = None /\ inquiries' = inquiries
  \/ /\ e.inquiry \in Inquiries
     /\ e.version = inquiries[e.inquiry].version + 1
     /\ inquiries'[e.inquiry].version = e.version
     /\ e.before = inquiries[e.inquiry].status
     /\ e.after = inquiries'[e.inquiry].status
     /\ \A j \in Inquiries : j # e.inquiry => inquiries'[j] = inquiries[j]

ExplainsVisits(e) ==
  \A v \in Visits :
    \/ e.visits[v] = 0 /\ visits'[v].version = visits[v].version
    \/ /\ e.visits[v] = visits[v].version + 1
       /\ visits'[v].version = e.visits[v]

Explained(e) ==
  events' = events \cup {e} /\ ExplainsInquiry(e) /\ ExplainsVisits(e)

LEMMA StoreExplains ==
  ASSUME TInv, NEW s \in Slots, NEW r \in Request, r = requests[s],
         r.inquiry \in Inquiries, NEW status, MoveTo(r.inquiry, status),
         NEW changed, BumpVisits(changed), NEW links, Store(s, changed, links)
  PROVE  \E e : Explained(e)
<1> DEFINE i == r.inquiry
           map == [v \in Visits |->
                     IF v \in changed THEN visits'[v].version ELSE 0]
           e == [inquiry |-> i, version |-> inquiries'[i].version,
                 before |-> inquiries[i].status,
                 after |-> inquiries'[i].status, visits |-> map]
<1>1. events' = events \cup {e}
  BY DEF Store
<1>2. TypeOK /\ inquiries[i].version \in Nat
  BY VersionTypes DEF TInv
<1>3. /\ inquiries'[i].version = inquiries[i].version + 1
      /\ \A j \in Inquiries : j # i => inquiries'[j] = inquiries[j]
  BY <1>2, MoveMeans
<1>4. \A v \in Visits : visits'[v].version = IF v \in changed
        THEN visits[v].version + 1 ELSE visits[v].version
  BY <1>2, BumpMeans
<1>5. ExplainsVisits(e)
  BY <1>4 DEF ExplainsVisits
<1>6. ExplainsInquiry(e)
  BY <1>3 DEF ExplainsInquiry
<1> HIDE DEF e
<1> QED
  BY <1>1, <1>5, <1>6 DEF Explained

LEMMA StepsExplained ==
  ASSUME TInv, AbsentOK, [Next]_vars
  PROVE  \/ \E e : Explained(e)
         \/ events' = events /\ inquiries' = inquiries /\ visits' = visits
<1>1. ASSUME NEW s \in Slots, CreatePlannedVisit(s) PROVE \E e : Explained(e)
  <2>1. PICK v \in Visits :
          /\ visits[v].status = "ABSENT" /\ inquiries' = inquiries
          /\ visits' = [visits EXCEPT ![v] =
               [status |-> "PLANNED", version |-> 1,
                plan |-> requests[s].plan]]
          /\ events' = events \cup
               {[inquiry |-> None, version |-> 0, before |-> "ABSENT",
                 after |-> "ABSENT",
                 visits |-> [NoVersions EXCEPT ![v] = 1]]}
    BY <1>1 DEF CreatePlannedVisit
  <2> DEFINE e == [inquiry |-> None, version |-> 0, before |-> "ABSENT",
                   after |-> "ABSENT",
                   visits |-> [NoVersions EXCEPT ![v] = 1]]
  <2>2. visits[v].version = 0 /\ visits \in [Visits -> Visit]
    BY <2>1 DEF AbsentOK, TInv, TypeOK
  <2>3. ExplainsVisits(e)
    BY <2>1, <2>2 DEF ExplainsVisits, NoVersions
  <2>4. ExplainsInquiry(e)
    BY <2>1 DEF ExplainsInquiry
  <2> HIDE DEF e
  <2> QED
    BY <2>1, <2>3, <2>4 DEF Explained, e
<1>2. ASSUME NEW s \in Slots, Command(s) PROVE \E e : Explained(e)
  <2>1. PICK r \in Request : r = requests[s] /\ r.inquiry \in Inquiries
    BY <1>2, CommandShape
  <2>2. \E status, changed, links :
          /\ MoveTo(r.inquiry, status) /\ BumpVisits(changed)
          /\ Store(s, changed, links)
    <3>1. CASE StartNegotiation(s)
      <4>1. BumpVisits({})
        BY <3>1 DEF StartNegotiation, BumpVisits, TInv, TypeOK
      <4> QED
        BY <2>1, <3>1, <4>1 DEF StartNegotiation
    <3> QED
      BY <1>2, <2>1, <3>1
      DEF Command, ConfirmInquiry, CompleteInquiry, CancelInquiry,
          RecordCashNote, CorrectCashNote
  <2> QED
    BY <2>1, <2>2, StoreExplains
<1>3. ASSUME NEW i \in Inquiries, ReceiveInquiry(i) PROVE \E e : Explained(e)
  <2> DEFINE e == [inquiry |-> i, version |-> 1, before |-> "ABSENT",
                   after |-> "NEW", visits |-> NoVersions]
  <2>1. /\ inquiries[i].status = "ABSENT" /\ inquiries[i].version = 0
        /\ inquiries \in [Inquiries -> Inquiry]
        /\ inquiries' =
             [inquiries EXCEPT ![i] = [status |-> "NEW", version |-> 1]]
        /\ visits' = visits /\ events' = events \cup {e}
    BY <1>3 DEF ReceiveInquiry, AbsentOK, TInv, TypeOK
  <2>2. ExplainsVisits(e)
    BY <2>1 DEF ExplainsVisits, NoVersions
  <2>3. ExplainsInquiry(e)
    BY <2>1 DEF ExplainsInquiry
  <2> HIDE DEF e
  <2> QED
    BY <2>1, <2>2, <2>3 DEF Explained
<1>4. ASSUME NEW s \in Slots, Replay(s) \/ Reject(s) \/ SendRequest(s)
      PROVE  events' = events /\ inquiries' = inquiries /\ visits' = visits
  BY <1>4 DEF Replay, Reject, SendRequest, tables
<1>5. ASSUME NEW rec \in receipts, ExpireResult(rec)
      PROVE  events' = events /\ inquiries' = inquiries /\ visits' = visits
  BY <1>5 DEF ExpireResult, tables
<1>6. CASE UNCHANGED vars
  BY <1>6 DEF vars
<1> QED
  BY <1>1, <1>2, <1>3, <1>4, <1>5, <1>6, StepCases

HistoryInv == TInv /\ AbsentOK /\ HistoryIsGapless

LEMMA HistoryInit == Init => HistoryInv
<1> SUFFICES ASSUME Init PROVE HistoryInv
  OBVIOUS
<1>1. TInv
  BY TypeInit
<1>2. AbsentOK
  BY DEF Init, AbsentOK, Planned
<1>3. HistoryIsGapless
  BY DEF Init, HistoryIsGapless, EventsOf
<1> QED
  BY <1>1, <1>2, <1>3 DEF HistoryInv

LEMMA HistoryStep == HistoryInv /\ [Next]_vars => HistoryInv'
<1> SUFFICES ASSUME HistoryInv, [Next]_vars PROVE HistoryInv'
  OBVIOUS
<1>1. TInv /\ TInv' /\ TypeOK /\ TypeOK' /\ AbsentOK /\ AbsentOK'
  BY TypeStep, AbsentStep DEF HistoryInv, TInv
<1>2. /\ \A i \in Inquiries : inquiries[i].version \in Nat
      /\ \A v \in Visits : visits[v].version \in Nat
      /\ \A e \in events : e \in Event
  BY <1>1, VersionTypes DEF TypeOK
<1>3. /\ \A i \in Inquiries : \A n \in 1..inquiries[i].version :
           ExactlyOne(EventsOf(i, n))
      /\ \A i \in Inquiries : \A e, f \in events :
           e.inquiry = i /\ f.inquiry = i /\ f.version = e.version + 1
             => f.before = e.after
      /\ \A i \in Inquiries : \A e \in EventsOf(i, inquiries[i].version) :
           e.after = inquiries[i].status
      /\ \A v \in Visits : \A n \in 1..visits[v].version :
           ExactlyOne(EventsOfVisit(v, n))
      /\ \A e \in events :
           /\ e.inquiry # None => e.version <= inquiries[e.inquiry].version
           /\ \A v \in Visits : e.visits[v] <= visits[v].version
  BY DEF HistoryInv, HistoryIsGapless
<1>4. CASE events' = events /\ inquiries' = inquiries /\ visits' = visits
  <2>1. HistoryIsGapless'
    BY <1>3, <1>4 DEF HistoryIsGapless, EventsOf, EventsOfVisit, ExactlyOne
  <2> QED
    BY <1>1, <2>1 DEF HistoryInv
<1>5. ASSUME NEW x, Explained(x) PROVE HistoryIsGapless'
  <2>1. /\ events' = events \cup {x} /\ x \in Event
        /\ ExplainsInquiry(x) /\ ExplainsVisits(x)
    BY <1>1, <1>5 DEF Explained, TypeOK
  <2>2. \A e \in Event : /\ e.version \in Nat
                         /\ e.inquiry \in Inquiries \cup {None}
                         /\ \A v \in Visits : e.visits[v] \in Nat
    BY DEF Event, VersionMaps
  <2>3. ASSUME NEW i \in Inquiries
        PROVE  \/ /\ x.inquiry # i /\ inquiries'[i] = inquiries[i]
               \/ /\ x.inquiry = i
                  /\ x.version = inquiries[i].version + 1
                  /\ inquiries'[i].version = x.version
                  /\ x.before = inquiries[i].status
                  /\ x.after = inquiries'[i].status
    BY <2>1, <2>3, ConstantsAssumption DEF ExplainsInquiry
  <2>4. ASSUME NEW i \in Inquiries
        PROVE  /\ \A n \in 1..inquiries'[i].version :
                    ExactlyOne(EventsOf(i, n)')
               /\ \A e, f \in events' :
                    e.inquiry = i /\ f.inquiry = i /\ f.version = e.version + 1
                      => f.before = e.after
               /\ \A e \in EventsOf(i, inquiries[i].version)' :
                    e.after = inquiries'[i].status
    <3>1. CASE x.inquiry # i /\ inquiries'[i] = inquiries[i]
      <4>1. \A n : EventsOf(i, n)' = EventsOf(i, n)
        BY <2>1, <3>1 DEF EventsOf
      <4>2. EventsOf(i, inquiries[i].version)' =
              EventsOf(i, inquiries[i].version)
        BY <2>1, <3>1 DEF EventsOf
      <4> QED
        BY <1>3, <2>1, <3>1, <4>1, <4>2 DEF ExactlyOne
    <3>2. CASE /\ x.inquiry = i
               /\ x.version = inquiries[i].version + 1
               /\ inquiries'[i].version = x.version
               /\ x.before = inquiries[i].status
               /\ x.after = inquiries'[i].status
      <4>1. \A e \in events : e.inquiry = i => e.version <= inquiries[i].version
        BY <1>3, ConstantsAssumption
      <4> PICK m \in Nat : m = inquiries'[i].version
        BY <1>2, <3>2
      <4>2. EventsOf(i, m)' = {x}
        BY <1>2, <2>1, <2>2, <3>2, <4>1 DEF EventsOf
      <4>3. \A n \in 1..inquiries[i].version : EventsOf(i, n)' = EventsOf(i, n)
        BY <1>2, <2>1, <2>2, <3>2 DEF EventsOf
      <4>4. \A n \in 1..inquiries'[i].version :
              n \in 1..inquiries[i].version \/ n = inquiries'[i].version
        BY <1>2, <3>2
      <4>5. \A n \in 1..inquiries'[i].version : ExactlyOne(EventsOf(i, n)')
        BY <1>3, <4>2, <4>3, <4>4 DEF ExactlyOne
      <4>6. \A e, f \in events' :
              e.inquiry = i /\ f.inquiry = i /\ f.version = e.version + 1
                => f.before = e.after
        <5>1. ASSUME NEW e \in events, e.inquiry = i,
                     x.version = e.version + 1
              PROVE  x.before = e.after
          BY <1>2, <1>3, <2>2, <3>2, <5>1 DEF EventsOf
        <5>2. ASSUME NEW f \in events, f.inquiry = i
              PROVE  f.version # x.version + 1
          BY <1>2, <2>2, <3>2, <4>1, <5>2
        <5>3. x.version # x.version + 1
          BY <2>1, <2>2
        <5> QED
          BY <1>3, <2>1, <5>1, <5>2, <5>3
      <4>7. \A e \in EventsOf(i, inquiries[i].version)' :
              e.after = inquiries'[i].status
        BY <3>2, <4>2 DEF EventsOf
      <4> QED
        BY <4>5, <4>6, <4>7
    <3> QED
      BY <2>3, <3>1, <3>2
  <2>5. ASSUME NEW v \in Visits
        PROVE  \A n \in 1..visits'[v].version : ExactlyOne(EventsOfVisit(v, n)')
    <3>1. CASE x.visits[v] = 0 /\ visits'[v].version = visits[v].version
      <4>1. \A n \in 1..visits[v].version :
              EventsOfVisit(v, n)' = EventsOfVisit(v, n)
        BY <1>2, <2>1, <3>1 DEF EventsOfVisit
      <4> QED
        BY <1>3, <3>1, <4>1
    <3>2. CASE /\ x.visits[v] = visits[v].version + 1
               /\ visits'[v].version = x.visits[v]
      <4> PICK m \in Nat : m = visits'[v].version
        BY <1>2, <3>2
      <4>1. EventsOfVisit(v, m)' = {x}
        BY <1>2, <1>3, <2>1, <2>2, <3>2 DEF EventsOfVisit
      <4>2. \A n \in 1..visits[v].version :
              EventsOfVisit(v, n)' = EventsOfVisit(v, n)
        BY <1>2, <2>1, <3>2 DEF EventsOfVisit
      <4>3. \A n \in 1..visits'[v].version :
              n \in 1..visits[v].version \/ n = visits'[v].version
        BY <1>2, <3>2
      <4> QED
        BY <1>3, <4>1, <4>2, <4>3 DEF ExactlyOne
    <3> QED
      BY <2>1, <3>1, <3>2 DEF ExplainsVisits
  <2>6. ASSUME NEW e \in events'
        PROVE  /\ e.inquiry # None => e.version <= inquiries'[e.inquiry].version
               /\ \A v \in Visits : e.visits[v] <= visits'[v].version
    <3>1. /\ \A i \in Inquiries : inquiries'[i].version \in Nat
          /\ \A v \in Visits : visits'[v].version \in Nat
      BY <1>1 DEF TypeOK, Inquiry, Visit
    <3>2. CASE e = x
      BY <2>1, <2>2, <2>3, <3>1, <3>2 DEF ExplainsVisits
    <3>3. CASE e \in events
      BY <1>2, <1>3, <2>1, <2>2, <2>3, <3>1, <3>3 DEF ExplainsVisits
    <3> QED
      BY <2>1, <3>2, <3>3
  <2> QED
    BY <2>4, <2>5, <2>6 DEF HistoryIsGapless
<1> QED
  BY <1>1, <1>4, <1>5, StepsExplained DEF HistoryInv

(* Every version of every inquiry and of every visit was made by exactly    *)
(* one change event, and the events of an inquiry chain to its status.      *)
THEOREM NoVersionUnexplained == Spec => []HistoryIsGapless
<1>1. HistoryInv => HistoryIsGapless
  BY DEF HistoryInv
<1> QED
  BY <1>1, HistoryInit, HistoryStep, PTL DEF Spec

-----------------------------------------------------------------------------
(* The cash facts.                                                          *)

Chained ==
  /\ \A c, d \in corrections :
       \/ c = d
       \/ /\ c.original # d.original
          /\ c.replacement = d.replacement => c.replacement = None
  /\ \A c \in corrections : c.replacement # None =>
       /\ c.replacement.inquiry = c.original.inquiry
       /\ c.replacement.recorded > c.original.recorded

Counted(i) ==
  Cardinality(EffectiveNotes(i)) + Cardinality(FactsVoided(i)) =
    Cardinality(FactsRecorded(i))

(* Notes carry versions of the past, and corrections name notes that exist. *)
NotesOK ==
  /\ IsFiniteSet(cashNotes) /\ IsFiniteSet(corrections) /\ IsFiniteSet(receipts)
  /\ \A n \in cashNotes : n.recorded <= inquiries[n.inquiry].version
  /\ \A c \in corrections : c.original \in cashNotes
                            /\ c.replacement \in cashNotes \cup {None}

CashInv == KeysInv /\ NotesOK /\ CashFactsConserved

LEMMA CashParts ==
  CashFactsConserved <=> Chained /\ \A i \in Inquiries : Counted(i)
BY DEF CashFactsConserved, Chained, Counted

LEMMA AllFinite ==
  ASSUME NotesOK, NEW i
  PROVE  /\ IsFiniteSet(EffectiveNotes(i)) /\ Cardinality(EffectiveNotes(i)) \in Nat
         /\ IsFiniteSet(FactsVoided(i)) /\ Cardinality(FactsVoided(i)) \in Nat
         /\ IsFiniteSet(FactsRecorded(i)) /\ Cardinality(FactsRecorded(i)) \in Nat
<1>1. /\ EffectiveNotes(i) \in SUBSET cashNotes
      /\ FactsVoided(i) \in SUBSET corrections
      /\ FactsRecorded(i) \in SUBSET receipts
  BY DEF EffectiveNotes, FactsVoided, FactsRecorded
<1>2. /\ IsFiniteSet(EffectiveNotes(i)) /\ IsFiniteSet(FactsVoided(i))
      /\ IsFiniteSet(FactsRecorded(i))
  BY <1>1, FS_Subset DEF NotesOK
<1> QED
  BY <1>2, FS_CardinalityType

(* The note of now is a new one, and no correction names it.                *)
LEMMA NoteIsNew ==
  ASSUME TypeOK, NotesOK, NEW i \in Inquiries
  PROVE  /\ NoteNow(i) \notin cashNotes /\ NoteNow(i) # None
         /\ ~Superseded(NoteNow(i)) /\ NoteNow(i).inquiry = i
         /\ \A c \in corrections : c.replacement # NoteNow(i)
<1>1. NoteNow(i).inquiry = i /\ NoteNow(i).recorded = inquiries[i].version + 1
  BY DEF NoteNow
<1>2. inquiries[i].version \in Nat
  BY VersionTypes
<1>3. NoteNow(i) \notin cashNotes
  BY <1>1, <1>2 DEF NotesOK
<1>4. NoteNow(i) # None
  BY NoteNowType, NoteAssumption
<1> QED
  BY <1>1, <1>3, <1>4 DEF NotesOK, Superseded

LEMMA AddOne ==
  ASSUME NEW S, NEW x, IsFiniteSet(S), x \notin S
  PROVE  Cardinality(S \cup {x}) = Cardinality(S) + 1
BY FS_AddElement

LEMMA TakeOne ==
  ASSUME NEW S, NEW x, IsFiniteSet(S), x \in S
  PROVE  Cardinality(S \ {x}) = Cardinality(S) - 1
BY FS_RemoveElement

LEMMA SwapOne ==
  ASSUME NEW S, NEW x, NEW y, IsFiniteSet(S), x \in S, y \notin S
  PROVE  Cardinality((S \ {x}) \cup {y}) = Cardinality(S)
<1>1. IsFiniteSet(S \ {x}) /\ Cardinality(S \ {x}) = Cardinality(S) - 1
  BY FS_RemoveElement
<1>2. Cardinality((S \ {x}) \cup {y}) = Cardinality(S \ {x}) + 1
  BY <1>1, AddOne
<1>3. Cardinality(S) \in Nat
  BY FS_CardinalityType
<1> QED
  BY <1>1, <1>2, <1>3

(* A step that writes no cash fact, and no receipt of one.                  *)
LEMMA QuietCounts ==
  ASSUME CashInv, TypeOK', Ages, cashNotes' = cashNotes,
         corrections' = corrections, IsFiniteSet(receipts'),
         \A j \in Inquiries :
           Cardinality(FactsRecorded(j)') = Cardinality(FactsRecorded(j))
  PROVE  NotesOK' /\ CashFactsConserved'
<1>1. TypeOK /\ NotesOK /\ Chained /\ \A j \in Inquiries : Counted(j)
  BY CashParts DEF CashInv, KeysInv, TInv
<1>2. NotesOK'
  <2>1. ASSUME NEW n \in cashNotes
        PROVE  n.recorded <= inquiries'[n.inquiry].version
    <3>1. n.inquiry \in Inquiries /\ n.recorded \in Nat
      BY <1>1 DEF TypeOK, CashNote
    <3>2. /\ inquiries[n.inquiry].version \in Nat
          /\ inquiries'[n.inquiry].version \in Nat
      BY <1>1, <3>1 DEF TypeOK, Inquiry
    <3> QED
      BY <1>1, <3>1, <3>2 DEF NotesOK, Ages
  <2> QED
    BY <1>1, <2>1 DEF NotesOK
<1>3. Chained'
  BY <1>1 DEF Chained
<1>4. \A j \in Inquiries : /\ EffectiveNotes(j)' = EffectiveNotes(j)
                           /\ FactsVoided(j)' = FactsVoided(j)
  BY DEF EffectiveNotes, FactsVoided, Superseded
<1>5. \A j \in Inquiries : Counted(j)'
  BY <1>1, <1>4 DEF Counted
<1> QED
  BY <1>2, <1>3, <1>5 DEF CashFactsConserved, Chained, Counted

(* The receipt of a command that records no fact counts for no inquiry.     *)
LEMMA OtherReceipt ==
  ASSUME NotesOK, NEW s, NEW r, NEW result, NEW links,
         Gets(s, r, result, links), r.op # "CASH_NOTE"
  PROVE  /\ IsFiniteSet(receipts')
         /\ \A j \in Inquiries : FactsRecorded(j)' = FactsRecorded(j)
<1> DEFINE new == [request |-> r, result |-> result, links |-> links]
<1>1. receipts' = receipts \cup {new} /\ new.request = r
  BY DEF Gets
<1> HIDE DEF new
<1>2. IsFiniteSet(receipts')
  BY <1>1, FS_AddElement DEF NotesOK
<1> QED
  BY <1>1, <1>2 DEF FactsRecorded

LEMMA RecordCounts ==
  ASSUME CashInv, TInv', [Next]_vars, NEW s \in Slots, RecordCashNote(s)
  PROVE  NotesOK' /\ CashFactsConserved'
<1>1. /\ TInv /\ TypeOK /\ AbsentOK /\ NotesOK /\ Chained
      /\ \A j \in Inquiries : Counted(j)
  BY CashParts DEF CashInv, KeysInv, TInv
<1>2. PICK r \in Request :
        /\ r = requests[s] /\ r.inquiry \in Inquiries /\ PriorReceipts(r) = {}
        /\ \E result, links : Gets(s, r, result, links)
  BY <1>1, CommandShape DEF Command
<1>3. PICK result, links : Gets(s, r, result, links)
  BY <1>2
<1> DEFINE i == r.inquiry
           n == NoteNow(i)
           new == [request |-> r, result |-> result, links |-> links]
<1>4. r.op = "CASH_NOTE" /\ cashNotes' = cashNotes \cup {n}
      /\ corrections' = corrections
  BY <1>2 DEF RecordCashNote, Accepts
<1>5. /\ i \in Inquiries /\ n \notin cashNotes /\ n # None
      /\ ~Superseded(n) /\ n.inquiry = i
  BY <1>1, <1>2, NoteIsNew
<1>6. /\ receipts' = receipts \cup {new} /\ new \notin receipts
      /\ new.request = r
  BY <1>2, <1>3 DEF Gets, PriorReceipts, SameIdentity
<1>7. Ages /\ n.recorded <= inquiries'[i].version
  <2>1. n.recorded = inquiries[i].version + 1
    BY DEF NoteNow
  <2>2. MoveTo(i, inquiries[i].status)
    BY <1>2 DEF RecordCashNote
  <2>3. inquiries'[i].version = inquiries[i].version + 1
    BY <1>1, <1>5, <2>2, MoveMeans
  <2> QED
    BY <1>1, <1>5, <2>1, <2>3, AgeStep, VersionTypes
<1> HIDE DEF i, n, new
<1>8. NotesOK'
  <2>1. ASSUME NEW m \in cashNotes
        PROVE  m.recorded <= inquiries'[m.inquiry].version
    <3>1. m.inquiry \in Inquiries /\ m.recorded \in Nat
      BY <1>1 DEF TypeOK, CashNote
    <3>2. /\ inquiries[m.inquiry].version \in Nat
          /\ inquiries'[m.inquiry].version \in Nat
      BY <1>1, <3>1 DEF TypeOK, Inquiry, TInv
    <3> QED
      BY <1>1, <1>7, <3>1, <3>2 DEF NotesOK, Ages
  <2>2. IsFiniteSet(cashNotes') /\ IsFiniteSet(receipts')
    BY <1>1, <1>4, <1>6, FS_AddElement DEF NotesOK
  <2> QED
    BY <1>1, <1>4, <1>5, <1>7, <2>1, <2>2 DEF NotesOK
<1>9. ASSUME NEW j \in Inquiries PROVE Counted(j)'
  <2>1. FactsVoided(j)' = FactsVoided(j)
    BY <1>4 DEF FactsVoided
  <2>2. \A m : Superseded(m)' <=> Superseded(m)
    BY <1>4 DEF Superseded
  <2>3. CASE j = i
    <3>1. /\ EffectiveNotes(j)' = EffectiveNotes(j) \cup {n}
          /\ n \notin EffectiveNotes(j)
      BY <1>4, <1>5, <2>2, <2>3 DEF EffectiveNotes
    <3>2. /\ FactsRecorded(j)' = FactsRecorded(j) \cup {new}
          /\ new \notin FactsRecorded(j)
      BY <1>4, <1>6, <2>3 DEF FactsRecorded, i
    <3>3. /\ Cardinality(EffectiveNotes(j)') = Cardinality(EffectiveNotes(j)) + 1
          /\ Cardinality(FactsRecorded(j)') = Cardinality(FactsRecorded(j)) + 1
      BY <1>1, <3>1, <3>2, AllFinite, AddOne
    <3> QED
      BY <1>1, <2>1, <3>3, AllFinite DEF Counted
  <2>4. CASE j # i
    <3>1. EffectiveNotes(j)' = EffectiveNotes(j)
      BY <1>4, <1>5, <2>2, <2>4 DEF EffectiveNotes
    <3>2. FactsRecorded(j)' = FactsRecorded(j)
      BY <1>6, <2>4 DEF FactsRecorded, i
    <3> QED
      BY <1>1, <2>1, <3>1, <3>2 DEF Counted
  <2> QED
    BY <2>3, <2>4
<1>10. Chained'
  BY <1>1, <1>4 DEF Chained
<1> QED
  BY <1>8, <1>9, <1>10 DEF CashFactsConserved, Chained, Counted

LEMMA CorrectCounts ==
  ASSUME CashInv, TInv', [Next]_vars, NEW s \in Slots, CorrectCashNote(s)
  PROVE  NotesOK' /\ CashFactsConserved'
<1>1. /\ TInv /\ TypeOK /\ AbsentOK /\ NotesOK /\ Chained
      /\ \A j \in Inquiries : Counted(j)
  BY CashParts DEF CashInv, KeysInv, TInv
<1>2. PICK r \in Request :
        /\ r = requests[s] /\ r.inquiry \in Inquiries
        /\ \E result, links : Gets(s, r, result, links)
  BY <1>1, CommandShape DEF Command
<1> DEFINE i == r.inquiry
           note == r.note
           n == NoteNow(i)
           put == IF r.replace THEN n ELSE None
           c == [original |-> note, replacement |-> put]
<1>3. /\ r.op = "CORRECTION" /\ CorrectionVerdict(r) = "OK"
      /\ cashNotes' = cashNotes \cup ({put} \ {None})
      /\ corrections' = corrections \cup {c}
  BY <1>2 DEF CorrectCashNote, Accepts, Verdict
<1>4. note \in cashNotes /\ note.inquiry = i /\ ~Superseded(note)
  BY <1>3 DEF CorrectionVerdict
<1>5. /\ i \in Inquiries /\ n \notin cashNotes /\ n # None
      /\ ~Superseded(n) /\ n.inquiry = i
      /\ \A d \in corrections : d.replacement # n
  BY <1>1, <1>2, NoteIsNew
<1>6. c.original = note /\ c.replacement = put /\ put \in {n, None}
  OBVIOUS
<1>7. IsFiniteSet(receipts')
      /\ \A j \in Inquiries : FactsRecorded(j)' = FactsRecorded(j)
  BY <1>1, <1>2, <1>3, OtherReceipt
<1>8. /\ Ages /\ n.recorded = inquiries[i].version + 1
      /\ inquiries'[i].version = inquiries[i].version + 1
  <2>1. MoveTo(i, inquiries[i].status)
    BY <1>2 DEF CorrectCashNote
  <2> QED
    BY <1>1, <1>5, <2>1, MoveMeans, AgeStep DEF NoteNow
<1> HIDE DEF i, note, n, put, c
<1>9. NotesOK'
  <2>1. ASSUME NEW m \in cashNotes
        PROVE  m.recorded <= inquiries'[m.inquiry].version
    <3>1. m.inquiry \in Inquiries /\ m.recorded \in Nat
      BY <1>1 DEF TypeOK, CashNote
    <3>2. /\ inquiries[m.inquiry].version \in Nat
          /\ inquiries'[m.inquiry].version \in Nat
      BY <1>1, <3>1 DEF TypeOK, Inquiry, TInv
    <3> QED
      BY <1>1, <1>8, <3>1, <3>2 DEF NotesOK, Ages
  <2>2. n.recorded <= inquiries'[i].version
    BY <1>1, <1>5, <1>8, VersionTypes
  <2>3. \A m \in cashNotes' : m \in cashNotes \/ m = n
    BY <1>3, <1>6
  <2>4. IsFiniteSet(cashNotes') /\ IsFiniteSet(corrections')
    <3>1. \/ cashNotes' = cashNotes \cup {n}
          \/ cashNotes' = cashNotes
      BY <1>3, <1>5, <1>6
    <3> QED
      BY <1>1, <1>3, <3>1, FS_AddElement DEF NotesOK
  <2>5. ASSUME NEW d \in corrections'
        PROVE  d.original \in cashNotes' /\ d.replacement \in cashNotes' \cup {None}
    BY <1>1, <1>3, <1>4, <1>6, <2>5 DEF NotesOK
  <2> QED
    BY <1>5, <1>7, <2>1, <2>2, <2>3, <2>4, <2>5 DEF NotesOK
<1>10. Chained'
  <2>1. \A d \in corrections : /\ d.original # c.original
                               /\ d.replacement = c.replacement =>
                                    d.replacement = None
    BY <1>4, <1>5, <1>6 DEF Superseded
  <2>2. c.replacement # None =>
          /\ c.replacement.inquiry = c.original.inquiry
          /\ c.replacement.recorded > c.original.recorded
    <3>1. note.recorded <= inquiries[i].version /\ note.recorded \in Nat
      BY <1>1, <1>4 DEF NotesOK, TypeOK, CashNote
    <3>2. inquiries[i].version \in Nat
      BY <1>1, <1>5, VersionTypes
    <3> QED
      BY <1>4, <1>5, <1>6, <1>8, <3>1, <3>2
  <2> QED
    BY <1>1, <1>3, <2>1, <2>2 DEF Chained
<1>11. ASSUME NEW j \in Inquiries PROVE Counted(j)'
  <2>1. \A m : Superseded(m)' <=> Superseded(m) \/ m = note
    BY <1>3, <1>6 DEF Superseded
  <2>2. CASE j # i
    <3>1. EffectiveNotes(j)' = EffectiveNotes(j)
      BY <1>3, <1>4, <1>5, <1>6, <2>1, <2>2 DEF EffectiveNotes
    <3>2. FactsVoided(j)' = FactsVoided(j)
      BY <1>3, <1>4, <1>6, <2>2 DEF FactsVoided
    <3> QED
      BY <1>1, <1>7, <3>1, <3>2 DEF Counted
  <2>3. CASE j = i /\ put = n
    <3>1. FactsVoided(j)' = FactsVoided(j)
      BY <1>3, <1>5, <1>6, <2>3 DEF FactsVoided
    <3>2. /\ EffectiveNotes(j)' = (EffectiveNotes(j) \ {note}) \cup {n}
          /\ note \in EffectiveNotes(j) /\ n \notin EffectiveNotes(j)
      BY <1>3, <1>4, <1>5, <2>1, <2>3 DEF EffectiveNotes
    <3>3. Cardinality(EffectiveNotes(j)') = Cardinality(EffectiveNotes(j))
      BY <1>1, <3>2, AllFinite, SwapOne
    <3> QED
      BY <1>1, <1>7, <3>1, <3>3 DEF Counted
  <2>4. CASE j = i /\ put = None
    <3>1. /\ FactsVoided(j)' = FactsVoided(j) \cup {c}
          /\ c \notin FactsVoided(j)
      BY <1>3, <1>4, <1>6, <2>4 DEF FactsVoided, Superseded
    <3>2. /\ EffectiveNotes(j)' = EffectiveNotes(j) \ {note}
          /\ note \in EffectiveNotes(j)
      BY <1>3, <1>4, <2>1, <2>4 DEF EffectiveNotes
    <3>3. /\ Cardinality(EffectiveNotes(j)') = Cardinality(EffectiveNotes(j)) - 1
          /\ Cardinality(FactsVoided(j)') = Cardinality(FactsVoided(j)) + 1
      BY <1>1, <3>1, <3>2, AllFinite, AddOne, TakeOne
    <3> QED
      BY <1>1, <1>7, <3>3, AllFinite DEF Counted
  <2> QED
    BY <1>6, <2>2, <2>3, <2>4
<1> QED
  BY <1>9, <1>10, <1>11 DEF CashFactsConserved, Chained, Counted

LEMMA ExpireCounts ==
  ASSUME CashInv, TInv', [Next]_vars, NEW rec \in receipts, ExpireResult(rec)
  PROVE  NotesOK' /\ CashFactsConserved'
<1>1. TInv /\ TypeOK /\ AbsentOK /\ NotesOK /\ OneEffectPerKey
  BY DEF CashInv, KeysInv, TInv
<1> DEFINE spent == [rec EXCEPT !.result = None]
<1>2. /\ spent.request = rec.request /\ spent.result = None
      /\ receipts' = (receipts \ {rec}) \cup {spent}
      /\ cashNotes' = cashNotes /\ corrections' = corrections
  BY <1>1 DEF ExpireResult, tables, TypeOK, Receipt
<1>3. rec.result # None
  BY DEF ExpireResult
<1> HIDE DEF spent
<1>4. spent \notin receipts
  BY <1>1, <1>2, <1>3 DEF OneEffectPerKey, SameIdentity
<1>5. ASSUME NEW j \in Inquiries
      PROVE  Cardinality(FactsRecorded(j)') = Cardinality(FactsRecorded(j))
  <2>1. CASE rec \in FactsRecorded(j)
    <3>1. /\ FactsRecorded(j)' = (FactsRecorded(j) \ {rec}) \cup {spent}
          /\ spent \notin FactsRecorded(j)
      BY <1>2, <1>4, <2>1 DEF FactsRecorded
    <3> QED
      BY <1>1, <2>1, <3>1, AllFinite, SwapOne
  <2>2. CASE rec \notin FactsRecorded(j)
    <3>1. FactsRecorded(j)' = FactsRecorded(j)
      BY <1>2, <2>2 DEF FactsRecorded
    <3> QED
      BY <3>1
  <2> QED
    BY <2>1, <2>2
<1>6. IsFiniteSet(receipts')
  BY <1>1, <1>2, FS_AddElement, FS_RemoveElement DEF NotesOK
<1> QED
  BY <1>1, <1>2, <1>5, <1>6, AgeStep, QuietCounts DEF TInv

LEMMA CashStep == CashInv /\ [Next]_vars => CashInv'
<1> SUFFICES ASSUME CashInv, [Next]_vars PROVE CashInv'
  OBVIOUS
<1>1. KeysInv' /\ TInv' /\ TypeOK'
  BY KeysStep DEF CashInv, KeysInv, TInv
<1>2. TInv /\ AbsentOK /\ NotesOK
  BY DEF CashInv, KeysInv
<1>3. ASSUME receipts' = receipts, cashNotes' = cashNotes,
             corrections' = corrections
      PROVE  NotesOK' /\ CashFactsConserved'
  <2>1. /\ IsFiniteSet(receipts')
        /\ \A j \in Inquiries : FactsRecorded(j)' = FactsRecorded(j)
    BY <1>2, <1>3 DEF NotesOK, FactsRecorded
  <2> QED
    BY <1>1, <1>2, <1>3, <2>1, AgeStep, QuietCounts
<1>4. ASSUME NEW s \in Slots, CreatePlannedVisit(s) \/ Command(s),
             ~RecordCashNote(s), ~CorrectCashNote(s)
      PROVE  NotesOK' /\ CashFactsConserved'
  <2>1. cashNotes' = cashNotes /\ corrections' = corrections
    BY <1>4 DEF CreatePlannedVisit, Command, StartNegotiation, ConfirmInquiry,
                CompleteInquiry, CancelInquiry
  <2>2. requests[s].op # "CASH_NOTE"
    BY <1>4 DEF CreatePlannedVisit, Command, StartNegotiation, ConfirmInquiry,
                CompleteInquiry, CancelInquiry, Accepts
  <2>3. PICK r, result, links : r = requests[s] /\ Gets(s, r, result, links)
    BY <1>2, <1>4, AcceptShape DEF Accepted
  <2>4. /\ IsFiniteSet(receipts')
        /\ \A j \in Inquiries : FactsRecorded(j)' = FactsRecorded(j)
    BY <1>2, <2>2, <2>3, OtherReceipt
  <2> QED
    BY <1>1, <1>2, <2>1, <2>4, AgeStep, QuietCounts
<1>5. ASSUME NEW s \in Slots, Replay(s) \/ Reject(s) \/ SendRequest(s)
      PROVE  NotesOK' /\ CashFactsConserved'
  BY <1>3, <1>5 DEF Replay, Reject, SendRequest, tables
<1>6. ASSUME NEW i \in Inquiries, ReceiveInquiry(i)
      PROVE  NotesOK' /\ CashFactsConserved'
  BY <1>3, <1>6 DEF ReceiveInquiry
<1>7. ASSUME UNCHANGED vars PROVE NotesOK' /\ CashFactsConserved'
  BY <1>3, <1>7 DEF vars
<1>8. NotesOK' /\ CashFactsConserved'
  <2>1. ASSUME NEW s \in Slots, CreatePlannedVisit(s) \/ Command(s)
        PROVE  NotesOK' /\ CashFactsConserved'
    BY <1>1, <1>4, <2>1, RecordCounts, CorrectCounts
  <2>2. ASSUME NEW rec \in receipts, ExpireResult(rec)
        PROVE  NotesOK' /\ CashFactsConserved'
    BY <1>1, <2>2, ExpireCounts
  <2> QED
    BY <1>5, <1>6, <1>7, <2>1, <2>2, StepCases
<1> QED
  BY <1>1, <1>8 DEF CashInv

LEMMA CashInit == Init => CashInv
<1> SUFFICES ASSUME Init PROVE CashInv
  OBVIOUS
<1>1. NotesOK
  BY FS_EmptySet DEF Init, NotesOK
<1>2. \A i \in Inquiries : /\ EffectiveNotes(i) = {} /\ FactsVoided(i) = {}
                           /\ FactsRecorded(i) = {}
  BY DEF Init, EffectiveNotes, FactsVoided, FactsRecorded
<1>3. \A i \in Inquiries : Counted(i)
  BY <1>2, FS_EmptySet DEF Counted
<1>4. Chained
  BY DEF Init, Chained
<1> QED
  BY <1>1, <1>3, <1>4, KeysInit, CashParts DEF CashInv

(* Every recorded cash fact stands for at most one effective note, and is   *)
(* lost from the summary only by a correction without a replacement,        *)
(* whatever chains of corrections, retries and removals there are.          *)
THEOREM CashIsConserved == Spec => []CashFactsConserved
<1>1. CashInv => CashFactsConserved
  BY DEF CashInv
<1> QED
  BY <1>1, CashInit, CashStep, PTL DEF Spec
=============================================================================
