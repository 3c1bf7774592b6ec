------------------------- MODULE OwnerCommandsProofs -------------------------
(***************************************************************************)
(* Theorems about OwnerCommands, for every set of inquiries, visits, keys  *)
(* and client slots.                                                       *)
(***************************************************************************)
EXTENDS OwnerCommands, TLAPS

(* What a composed request looks like, beyond its type. *)
Shaped(r) ==
  /\ r.op = "PLAN_VISIT" => /\ r.inquiry = None
                            /\ r.plan \in Plans
                            /\ r.expected_visit_versions = NoVersions
  /\ r.op # "PLAN_VISIT" => r.inquiry \in Inquiries
  /\ r.op = "CONFIRM" => r.visit \in Visits
  /\ r.op = "CORRECTION" => r.note \in CashNote

RequestsShaped ==
  /\ \A s \in Slots : requests[s] # None => Shaped(requests[s])
  /\ \A rec \in receipts : Shaped(rec.request)

TablesOK ==
  /\ inquiries \in [Inquiries -> Inquiry]
  /\ visits \in [Visits -> Visit]
  /\ participations \subseteq Participation
  /\ cashNotes \subseteq CashNote
  /\ corrections \subseteq Correction

TInv == TypeOK /\ RequestsShaped

USE ConstantsAssumption

(* The projection returned with a result has its type; it is read after the *)
(* writes of the command, hence the primes.                                 *)
LEMMA DetailType ==
  ASSUME TablesOK', NEW i \in Inquiries
  PROVE  DetailOf(i)' \in Detail
<1>1. OpenParts(i)' \subseteq Participation
  BY DEF TablesOK, OpenParts
<1>2. LinkedVisits(i)' \subseteq Visits
  BY <1>1 DEF LinkedVisits, Participation
<1>3. EffectiveNotes(i)' \subseteq CashNote
  BY DEF EffectiveNotes, TablesOK
<1> QED
  BY <1>2, <1>3 DEF DetailOf, Detail, TablesOK, Inquiry

(* Every request a client composes is a well-shaped request. *)
LEMMA NewRequestType ==
  ASSUME NEW op \in AllOps, NEW k \in Keys, NEW i \in Inquiries \cup {None},
         NEW v \in Visits \cup {None}, NEW p \in Plans \cup {None},
         NEW n \in CashNote \cup {None}, NEW b \in BOOLEAN, NEW e \in Nat,
         NEW m \in VersionMaps
  PROVE  NewRequest(op, k, i, v, p, n, b, e, m) \in Request
BY DEF NewRequest, Request

LEMMA ComposedType ==
  ASSUME TypeOK, NEW op \in Ops, NEW k \in Keys, NEW r \in Composable(op, k)
  PROVE  r \in Request /\ Shaped(r)
<1> op \in AllOps
  OBVIOUS
<1>1. NoVersions \in VersionMaps
  BY DEF NoVersions, VersionMaps
<1>2. ASSUME NEW S PROVE ReadVersions(S) \subseteq VersionMaps
  BY DEF ReadVersions, VersionsOf, VersionMaps, TypeOK, Visit
<1>3. CASE op = "PLAN_VISIT"
  <2>1. PICK p \in Plans :
          r = NewRequest(op, k, None, None, p, None, FALSE, 0, NoVersions)
    BY <1>3 DEF Composable
  <2>2. r \in Request
    BY <1>1, <2>1, NewRequestType
  <2> QED
    BY <1>3, <2>1, <2>2 DEF NewRequest, Shaped
<1>4. CASE op # "PLAN_VISIT"
  <2>1. PICK i \in Inquiries : r \in CommandsOn(op, k, i)
    BY <1>4 DEF Composable
  <2> DEFINE V == IF op = "CONFIRM" THEN Planned ELSE {None}
             N == IF op = "CORRECTION" THEN cashNotes ELSE {None}
             B == IF op = "CORRECTION" THEN BOOLEAN ELSE {FALSE}
             C(v, n, b) ==
               {NewRequest(op, k, i, v, None, n, b, inquiries[i].version, m) :
                  m \in ReadVersions(Concerned(op, i, v))}
  <2> HIDE DEF C, V, N, B
  <2>2. PICK v \in V, n \in N, b \in B : r \in C(v, n, b)
    <3>1. CommandsOn(op, k, i) = UNION {C(v, n, b) : v \in V, n \in N, b \in B}
      BY DEF CommandsOn, C, V, N, B
    <3> QED
      BY <2>1, <3>1
  <2>3. PICK m \in VersionMaps :
          r = NewRequest(op, k, i, v, None, n, b, inquiries[i].version, m)
    BY <1>2, <2>2 DEF C
  <2>4. v \in Visits \cup {None} /\ (op = "CONFIRM" => v \in Visits)
    BY DEF Planned, V
  <2>5. n \in CashNote \cup {None} /\ (op = "CORRECTION" => n \in CashNote)
    BY DEF TypeOK, N
  <2>6. inquiries[i].version \in Nat
    BY DEF TypeOK, Inquiry
  <2>7. b \in BOOLEAN
    BY DEF B
  <2>8. r \in Request
    BY <2>3, <2>4, <2>5, <2>6, <2>7, NewRequestType
  <2> QED
    BY <1>4, <2>3, <2>4, <2>5, <2>8 DEF NewRequest, Shaped
<1> QED
  BY <1>3, <1>4

(* An answer given to a slot is a reply. *)
LEMMA AnswerType ==
  ASSUME TypeOK, NEW s \in Slots, NEW reply \in Reply, Answer(s, reply)
  PROVE  replies' \in [Slots -> Reply \cup {None}]
BY DEF Answer, TypeOK

(* What an accepted command stores has its type if its writes have theirs. *)
LEMMA StoreType ==
  ASSUME TInv, TablesOK', NEW s \in Slots, requests[s] # None,
         requests[s].inquiry \in Inquiries,
         NEW changed, NEW links \in SUBSET Inquiries,
         Store(s, changed, links)
  PROVE  TInv'
<1> DEFINE r == requests[s]
           versions == [v \in Visits |->
                          IF v \in changed THEN visits'[v].version ELSE 0]
           result == [detail |-> DetailOf(r.inquiry)',
                      changed_visits |-> versions]
           receipt == [request |-> r, result |-> result, links |-> links]
           event ==
             [inquiry |-> r.inquiry, version |-> inquiries'[r.inquiry].version,
              before |-> inquiries[r.inquiry].status,
              after |-> inquiries'[r.inquiry].status, visits |-> versions]
<1>1. r \in Request /\ Shaped(r)
  BY DEF TInv, TypeOK, RequestsShaped
<1>2. versions \in VersionMaps
  BY DEF VersionMaps, TablesOK, Visit
<1>3. result \in Result
  <2>1. r' = r /\ r' \in Request /\ r'.inquiry \in Inquiries
    BY <1>1 DEF Store
  <2>2. \A i \in Inquiries : DetailOf(i)' \in Detail
    BY DetailType
  <2>3. DetailOf(r.inquiry)' \in Detail
    BY <2>1, <2>2 DEF DetailOf, OpenParts, LinkedVisits, EffectiveNotes
  <2> QED
    BY <1>2, <2>3 DEF Result
<1>4. receipt \in Receipt
  BY <1>1, <1>3 DEF Receipt
<1>5. event \in Event
  BY <1>2 DEF Event, TInv, TypeOK, TablesOK, Inquiry
<1>6. [code |-> "OK", result |-> result] \in Reply
  BY <1>3 DEF Reply, Codes
<1>7. /\ receipts' = receipts \cup {receipt}
      /\ events' = events \cup {event}
      /\ requests' = requests
      /\ Answer(s, [code |-> "OK", result |-> result])
  BY DEF Store
<1>8. replies' \in [Slots -> Reply \cup {None}]
  BY <1>6, <1>7, AnswerType DEF TInv
<1>9. receipt.request = r
  OBVIOUS
<1> HIDE DEF r, versions, result, receipt, event
<1>10. TypeOK'
  BY <1>4, <1>5, <1>7, <1>8 DEF TInv, TypeOK, TablesOK
<1>11. RequestsShaped'
  BY <1>1, <1>7, <1>9 DEF TInv, RequestsShaped
<1> QED
  BY <1>10, <1>11 DEF TInv

(* A command that was accepted by a slot concerns a known kind of thing. *)
LEMMA AcceptedType ==
  ASSUME TInv, NEW s \in Slots, NEW op, Accepts(s, op)
  PROVE  /\ requests[s] # None /\ requests[s] \in Request
         /\ requests[s].op = op /\ Shaped(requests[s])
         /\ op # "PLAN_VISIT" => requests[s].inquiry \in Inquiries
BY DEF TInv, TypeOK, RequestsShaped, Shaped, Accepts

(* The writes of the commands keep their tables typed. *)
LEMMA MoveType ==
  ASSUME TypeOK, NEW i \in Inquiries, NEW status \in Statuses,
         MoveTo(i, status)
  PROVE  inquiries' \in [Inquiries -> Inquiry]
BY DEF TypeOK, MoveTo, Inquiry

LEMMA BumpType ==
  ASSUME TypeOK, NEW S, BumpVisits(S)
  PROVE  visits' \in [Visits -> Visit]
BY DEF TypeOK, BumpVisits, Visit

LEMMA CloseType ==
  ASSUME TypeOK, NEW i \in Inquiries, NEW kind \in {"PROVIDED", "CANCELLED"},
         CloseParts(i, kind)
  PROVE  participations' \subseteq Participation
BY DEF TypeOK, CloseParts, Participation

LEMMA NoteNowType ==
  ASSUME TypeOK, NEW i \in Inquiries
  PROVE  NoteNow(i) \in CashNote
BY DEF TypeOK, NoteNow, CashNote, Inquiry

(* Each step preserves the types. *)
LEMMA TypeInit == Init => TInv
BY DEF Init, TInv, TypeOK, RequestsShaped, Inquiry, Visit, Statuses

LEMMA TypePlanVisit ==
  ASSUME TInv, NEW s \in Slots, CreatePlannedVisit(s)
  PROVE  TInv'
<1> DEFINE result(v) == [detail |-> None,
                         changed_visits |-> [NoVersions EXCEPT ![v] = 1]]
           receipt(v) ==
             [request |-> requests[s], result |-> result(v), links |-> {}]
           event(v) == [inquiry |-> None, version |-> 0, before |-> "ABSENT",
                        after |-> "ABSENT", visits |-> result(v).changed_visits]
<1>1. /\ requests[s] \in Request /\ Shaped(requests[s])
      /\ requests[s].plan \in Plans
  BY AcceptedType DEF CreatePlannedVisit, Shaped
<1>2. PICK v \in Visits :
        /\ visits' = [visits EXCEPT ![v] =
             [status |-> "PLANNED", version |-> 1, plan |-> requests[s].plan]]
        /\ receipts' = receipts \cup {receipt(v)}
        /\ events' = events \cup {event(v)}
        /\ Answer(s, [code |-> "OK", result |-> result(v)])
  BY DEF CreatePlannedVisit
<1>3. result(v) \in Result
  BY DEF Result, VersionMaps, NoVersions
<1>4. event(v) \in Event
  BY <1>3 DEF Event, Result, Statuses
<1>5. receipt(v) \in Receipt /\ receipt(v).request = requests[s]
  BY <1>1, <1>3 DEF Receipt
<1>6. [code |-> "OK", result |-> result(v)] \in Reply
  BY <1>3 DEF Reply, Codes
<1>7. replies' \in [Slots -> Reply \cup {None}]
  BY <1>2, <1>6, AnswerType DEF TInv
<1>8. visits' \in [Visits -> Visit]
  BY <1>1, <1>2 DEF TInv, TypeOK, Visit
<1> HIDE DEF result, receipt, event
<1>9. TypeOK'
  BY <1>2, <1>4, <1>5, <1>7, <1>8 DEF TInv, TypeOK, CreatePlannedVisit
<1>10. RequestsShaped'
  BY <1>1, <1>2, <1>5 DEF TInv, RequestsShaped, CreatePlannedVisit
<1> QED
  BY <1>9, <1>10 DEF TInv

LEMMA TypeCommand ==
  ASSUME TInv, NEW s \in Slots,
         \/ StartNegotiation(s) \/ ConfirmInquiry(s) \/ CompleteInquiry(s)
         \/ CancelInquiry(s) \/ RecordCashNote(s) \/ CorrectCashNote(s)
  PROVE  TInv'
<1> DEFINE i == requests[s].inquiry
<1>1. PICK op \in AllOps : Accepts(s, op) /\ op # "PLAN_VISIT"
  BY DEF StartNegotiation, ConfirmInquiry, CompleteInquiry, CancelInquiry,
         RecordCashNote, CorrectCashNote, AllOps
<1>2. /\ requests[s] # None /\ requests[s] \in Request
      /\ requests[s].op = op /\ Shaped(requests[s]) /\ i \in Inquiries
  BY <1>1, AcceptedType
<1>3. inquiries[i].status \in Statuses /\ TypeOK
  BY <1>2 DEF TInv, TypeOK, Inquiry
<1> HIDE DEF i
<1>4. CASE StartNegotiation(s)
  <2>1. TablesOK'
    BY <1>2, <1>3, <1>4, MoveType
    DEF StartNegotiation, TypeOK, TablesOK, Statuses, i
  <2> QED
    BY <1>2, <1>4, <2>1, StoreType DEF StartNegotiation, i
<1>5. CASE ConfirmInquiry(s)
  <2> DEFINE part == [inquiry |-> i, visit |-> requests[s].visit,
                      joined |-> inquiries[i].version + 1,
                      close_kind |-> "OPEN"]
  <2>1. requests[s].visit \in Visits
    BY <1>2, <1>5 DEF Accepts, ConfirmInquiry, Shaped
  <2>2. part \in Participation
    BY <1>2, <2>1 DEF Participation, TInv, TypeOK, Inquiry
  <2>3. inquiries' \in [Inquiries -> Inquiry] /\ visits' \in [Visits -> Visit]
    BY <1>2, <1>3, <1>5, MoveType, BumpType DEF ConfirmInquiry, Statuses, i
  <2>4. TablesOK'
    BY <1>3, <1>5, <2>2, <2>3 DEF ConfirmInquiry, TypeOK, TablesOK, i
  <2> QED
    BY <1>2, <1>5, <2>4, StoreType DEF ConfirmInquiry, i
<1>6. CASE CompleteInquiry(s)
  <2>1. /\ inquiries' \in [Inquiries -> Inquiry]
        /\ visits' \in [Visits -> Visit]
        /\ participations' \subseteq Participation
    BY <1>2, <1>3, <1>6, MoveType, BumpType, CloseType
    DEF CompleteInquiry, Statuses, i
  <2>2. TablesOK'
    BY <1>3, <1>6, <2>1 DEF CompleteInquiry, TypeOK, TablesOK
  <2> QED
    BY <1>2, <1>6, <2>2, StoreType DEF CompleteInquiry, i
<1>7. CASE CancelInquiry(s)
  <2>1. /\ inquiries' \in [Inquiries -> Inquiry]
        /\ visits' \in [Visits -> Visit]
        /\ participations' \subseteq Participation
    BY <1>2, <1>3, <1>7, MoveType, BumpType, CloseType
    DEF CancelInquiry, Statuses, i
  <2>2. TablesOK'
    BY <1>3, <1>7, <2>1 DEF CancelInquiry, TypeOK, TablesOK
  <2> QED
    BY <1>2, <1>7, <2>2, StoreType DEF CancelInquiry, i
<1>8. CASE RecordCashNote(s)
  <2>1. /\ inquiries' \in [Inquiries -> Inquiry]
        /\ visits' \in [Visits -> Visit]
        /\ NoteNow(i) \in CashNote
    BY <1>2, <1>3, <1>8, MoveType, BumpType, NoteNowType
    DEF RecordCashNote, i
  <2>2. TablesOK'
    BY <1>3, <1>8, <2>1 DEF RecordCashNote, TypeOK, TablesOK, i
  <2> QED
    BY <1>2, <1>8, <2>2, StoreType DEF RecordCashNote, i
<1>9. CASE CorrectCashNote(s)
  <2> DEFINE replacement == IF requests[s].replace THEN NoteNow(i) ELSE None
             correction == [original |-> requests[s].note,
                            replacement |-> replacement]
  <2>1. /\ inquiries' \in [Inquiries -> Inquiry]
        /\ visits' \in [Visits -> Visit]
        /\ NoteNow(i) \in CashNote
    BY <1>2, <1>3, <1>9, MoveType, BumpType, NoteNowType
    DEF CorrectCashNote, i
  <2>2. requests[s].note \in CashNote
    BY <1>2, <1>9 DEF Accepts, CorrectCashNote, Shaped
  <2>3. replacement \in CashNote \cup {None}
    BY <2>1
  <2>4. correction \in Correction
    BY <2>2, <2>3 DEF Correction
  <2>5. /\ cashNotes' = cashNotes \cup ({replacement} \ {None})
        /\ corrections' = corrections \cup {correction}
        /\ participations' = participations
    BY <1>9 DEF CorrectCashNote, i
  <2> HIDE DEF replacement, correction
  <2>6. TablesOK'
    BY <1>3, <2>1, <2>3, <2>4, <2>5 DEF TypeOK, TablesOK
  <2> QED
    BY <1>2, <1>9, <2>6, StoreType DEF CorrectCashNote, i
<1> QED
  BY <1>4, <1>5, <1>6, <1>7, <1>8, <1>9

LEMMA TypeAnswerOnly ==
  ASSUME TInv, NEW s \in Slots, Replay(s) \/ Reject(s)
  PROVE  TInv'
<1>1. requests[s] \in Request /\ Shaped(requests[s])
  BY DEF Replay, Reject, TInv, TypeOK, RequestsShaped
<1>2. PICK reply \in Reply : Answer(s, reply)
  <2>1. CASE Replay(s)
    <3>1. PICK rec \in receipts : Answer(s, ReplayAnswer(rec, requests[s]))
      BY <2>1 DEF Replay, PriorReceipts
    <3>2. ReplayAnswer(rec, requests[s]) \in Reply
      BY DEF ReplayAnswer, Refused, Reply, Codes, TInv, TypeOK, Receipt
    <3> QED
      BY <3>1, <3>2
  <2>2. CASE Reject(s)
    <3>1. Verdict(requests[s]) \in Codes
      BY <1>1 DEF Request, AllOps, Codes, Verdict, PlanVisitVerdict,
                  StartVerdict, ConfirmVerdict, CompleteVerdict,
                  CancelVerdict, VersionsVerdict, CashNoteVerdict,
                  CorrectionVerdict
    <3> QED
      BY <2>2, <3>1 DEF Reject, Refused, Reply, Codes
  <2> QED
    BY <2>1, <2>2
<1>3. replies' \in [Slots -> Reply \cup {None}]
  BY <1>2, AnswerType DEF TInv
<1> QED
  BY <1>3 DEF Replay, Reject, tables, TInv, TypeOK, RequestsShaped

LEMMA TypeReceive ==
  ASSUME TInv, NEW i \in Inquiries, ReceiveInquiry(i)
  PROVE  TInv'
<1>1. [inquiry |-> i, version |-> 1, before |-> "ABSENT", after |-> "NEW",
       visits |-> NoVersions] \in Event
  BY DEF Event, Statuses, VersionMaps, NoVersions
<1>2. inquiries' \in [Inquiries -> Inquiry]
  BY DEF ReceiveInquiry, TInv, TypeOK, Inquiry, Statuses
<1> QED
  BY <1>1, <1>2 DEF ReceiveInquiry, TInv, TypeOK, RequestsShaped

LEMMA TypeSend ==
  ASSUME TInv, NEW s \in Slots, SendRequest(s)
  PROVE  TInv'
<1>1. PICK op \in Ops, k \in Keys : \E r \in Composable(op, k) :
        requests' = [requests EXCEPT ![s] = r]
  BY DEF SendRequest
<1>2. PICK r \in Composable(op, k) : requests' = [requests EXCEPT ![s] = r]
  BY <1>1
<1>3. r \in Request /\ Shaped(r)
  BY <1>1, <1>2, ComposedType DEF TInv
<1> QED
  BY <1>2, <1>3 DEF SendRequest, tables, TInv, TypeOK, RequestsShaped

LEMMA TypeExpire ==
  ASSUME TInv, NEW rec \in receipts, ExpireResult(rec)
  PROVE  TInv'
<1> DEFINE spent == [rec EXCEPT !.result = None]
<1>1. spent \in Receipt /\ spent.request = rec.request
  BY DEF TInv, TypeOK, Receipt
<1>2. receipts' = (receipts \ {rec}) \cup {spent}
  BY DEF ExpireResult
<1> HIDE DEF spent
<1> QED
  BY <1>1, <1>2 DEF ExpireResult, tables, TInv, TypeOK, RequestsShaped

LEMMA TypeStep == TInv /\ [Next]_vars => TInv'
<1> SUFFICES ASSUME TInv, [Next]_vars PROVE TInv'
  OBVIOUS
<1>1. CASE Next
  BY <1>1, TypePlanVisit, TypeCommand, TypeAnswerOnly, TypeReceive, TypeSend,
     TypeExpire DEF Next, Deliver
<1>2. CASE UNCHANGED vars
  BY <1>2 DEF vars, TInv, TypeOK, RequestsShaped
<1> QED
  BY <1>1, <1>2

(* Type correctness: no sequence of commands, lost answers, redeliveries   *)
(* and removals takes a row, a receipt or an answer out of its shape.      *)
THEOREM TypeCorrect == Spec => []TypeOK
<1>1. Spec => []TInv
  BY TypeInit, TypeStep, PTL DEF Spec
<1>2. TInv => TypeOK
  BY DEF TInv
<1> QED
  BY <1>1, <1>2, PTL
=============================================================================
