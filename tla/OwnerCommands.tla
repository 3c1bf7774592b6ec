---------------------------- MODULE OwnerCommands ----------------------------
(***************************************************************************)
(* The owner's commands over inquiries, visits and cash notes              *)
(* (apps/api/sivka_burka_api/owner_commands.py).                           *)
(*                                                                         *)
(* Every command is one database transaction that first locks the single   *)
(* row of business_write_guard, so commands are serialised and a command   *)
(* is one atomic step.  What is left to interleave is everything around    *)
(* the transaction: what a client read before it sent a command, when the  *)
(* command reaches the database, whether the answer comes back, and how    *)
(* often the same request is delivered.                                    *)
(*                                                                         *)
(* A client is a slot that holds one request until the client decides to   *)
(* send another one.  A request carries the versions that were current     *)
(* when it was composed; it is delivered any number of times, and an       *)
(* answer may be lost.  A transaction that fails, or a process that dies   *)
(* before the commit, changes nothing and needs no step of its own; a      *)
(* process that dies after the commit is a lost answer.                    *)
(***************************************************************************)
EXTENDS Naturals, FiniteSets

CONSTANTS
  Inquiries,    \* identifiers of the inquiries that may be received
  Visits,       \* identifiers that a planned visit may be given
  Keys,         \* Idempotency-Key values the clients use
  Slots,        \* concurrent client requests (tabs, retries, duplicates)
  Plans,        \* [service, duration] pairs; duration is None or a number
  Agreed,       \* the service and duration in the terms of each inquiry
  ActiveServices,
  Ops,          \* the operations the clients of an instance ask for
  MaxCommands,  \* bound: no new request once this many were accepted
  MaxExpired,   \* bound: results removed by retention
  Careless,     \* whether clients may name versions of unrelated visits
  None

AllOps == {"PLAN_VISIT", "START_NEGOTIATION", "CONFIRM", "COMPLETE", "CANCEL",
           "CASH_NOTE", "CORRECTION"}

ASSUME ConstantsAssumption ==
  /\ Ops \subseteq AllOps
  /\ Agreed \in [Inquiries -> Plans]
  /\ MaxCommands \in Nat /\ MaxExpired \in Nat /\ Careless \in BOOLEAN
  /\ None \notin Inquiries \cup Visits \cup Plans

VARIABLES
  inquiries,      \* table inquiries: status and version
  visits,         \* table visits: status, version and plan
  participations, \* table visit_participations
  cashNotes,      \* table cash_notes
  corrections,    \* table cash_note_corrections
  receipts,       \* operation_receipts with their receipt_inquiries links
  events,         \* change_events with event_inquiries and event_visits
  requests,       \* the request each client slot has in flight
  replies         \* the last answer each client slot received

tables == <<inquiries, visits, participations, cashNotes, corrections>>
vars == <<inquiries, visits, participations, cashNotes, corrections,
          receipts, events, requests, replies>>

-----------------------------------------------------------------------------
(* Rows.  A participation and a cash note are identified by the inquiry and *)
(* the version the inquiry got in the transaction that inserted the row     *)
(* (the code draws a UUID); a transaction inserts at most one of each.      *)

Statuses == {"ABSENT", "NEW", "NEGOTIATING", "CONFIRMED", "COMPLETED",
             "CANCELLED"}
Terminal == {"COMPLETED", "CANCELLED"}

Inquiry == [status : Statuses, version : Nat]
Visit == [status : {"ABSENT", "PLANNED"}, version : Nat,
          plan : Plans \cup {None}]
Participation == [inquiry : Inquiries, visit : Visits, joined : Nat,
                  close_kind : {"OPEN", "PROVIDED", "CANCELLED"}]
CashNote == [inquiry : Inquiries, recorded : Nat]
ASSUME NoteAssumption == None \notin CashNote

Correction == [original : CashNote, replacement : CashNote \cup {None}]

\* A map from some visits to their versions; 0 where it names no version.
VersionMaps == [Visits -> Nat]
NoVersions == [v \in Visits |-> 0]
Named(map) == {v \in Visits : map[v] # 0}

Request == [op : AllOps, key : Keys, inquiry : Inquiries \cup {None},
            visit : Visits \cup {None}, plan : Plans \cup {None},
            note : CashNote \cup {None}, replace : BOOLEAN,
            expected_version : Nat, expected_visit_versions : VersionMaps]

Detail == [status : Statuses, version : Nat, plan : SUBSET Visits,
           effective : SUBSET CashNote]
Result == [detail : Detail \cup {None}, changed_visits : VersionMaps]
Receipt == [request : Request, result : Result \cup {None},
            links : SUBSET Inquiries]
Event == [inquiry : Inquiries \cup {None}, version : Nat, before : Statuses,
          after : Statuses, visits : VersionMaps]
Codes == {"OK", "NOT_FOUND", "OPTION_UNAVAILABLE", "VERSION_CONFLICT",
          "EXPECTED_VERSION_REQUIRED", "PLAN_CONFLICT",
          "PARTICIPATION_CONFLICT", "INVALID_TRANSITION",
          "CASH_NOTE_SUPERSEDED", "IDEMPOTENCY_MISMATCH", "RESULT_EXPIRED"}
Reply == [code : Codes, result : Result \cup {None}]

-----------------------------------------------------------------------------
(* Queries of the transactions.                                             *)

OpenParts(i) ==
  {p \in participations : p.inquiry = i /\ p.close_kind = "OPEN"}

LinkedVisits(i) == {p.visit : p \in OpenParts(i)}

Superseded(n) == \E c \in corrections : c.original = n

EffectiveNotes(i) == {n \in cashNotes : n.inquiry = i /\ ~Superseded(n)}

\* What the projection inquiry_detail_in_transaction tells of an inquiry.
DetailOf(i) ==
  [status |-> inquiries[i].status, version |-> inquiries[i].version,
   plan |-> LinkedVisits(i), effective |-> EffectiveNotes(i)]

\* One path serves the four lifecycle commands of an inquiry.
Endpoint(op) == IF op \in {"PLAN_VISIT", "CASH_NOTE", "CORRECTION"}
                THEN op ELSE "COMMANDS"

\* operation_receipts is unique on (owner, POST, canonical path, key).
SameIdentity(q, r) ==
  /\ q.key = r.key
  /\ Endpoint(q.op) = Endpoint(r.op)
  /\ q.inquiry = r.inquiry
  /\ q.note = r.note

\* Mutant: receipts found by their payload, whatever their key.
PriorByPayload(r) == {rec \in receipts : rec.request = r}

PriorReceipts(r) == {rec \in receipts : SameIdentity(rec.request, r)}

StaleVisits(r) == \E v \in Named(r.expected_visit_versions) :
                     r.expected_visit_versions[v] # visits[v].version

-----------------------------------------------------------------------------
(* The checks of each command, in the order the code makes them.  "OK"      *)
(* means the command is accepted; any other verdict rolls the transaction   *)
(* back.                                                                    *)

\* Payload checks made before the transaction begins.
Malformed(r) ==
  \/ r.op = "START_NEGOTIATION" /\ Named(r.expected_visit_versions) # {}
  \/ r.op = "CONFIRM" /\ Named(r.expected_visit_versions) # {r.visit}

PlanVisitVerdict(r) ==
  IF r.plan.service \notin ActiveServices THEN "OPTION_UNAVAILABLE" ELSE "OK"

StartVerdict(r) ==
  IF inquiries[r.inquiry].status = "ABSENT" THEN "NOT_FOUND"
  ELSE IF inquiries[r.inquiry].status # "NEW" THEN "INVALID_TRANSITION"
  ELSE IF inquiries[r.inquiry].version # r.expected_version
    THEN "VERSION_CONFLICT"
  ELSE "OK"

\* Two plans conflict on the service, or on durations that are both known.
PlanConflict(agreed, plan) ==
  \/ agreed.service # plan.service
  \/ /\ agreed.duration # None
     /\ plan.duration # None
     /\ agreed.duration # plan.duration

ConfirmVerdict(r) ==
  IF inquiries[r.inquiry].status = "ABSENT" THEN "NOT_FOUND"
  ELSE IF visits[r.visit].status = "ABSENT" THEN "NOT_FOUND"
  ELSE IF \/ inquiries[r.inquiry].version # r.expected_version
          \/ StaleVisits(r) THEN "VERSION_CONFLICT"
  ELSE IF PlanConflict(Agreed[r.inquiry], visits[r.visit].plan)
    THEN "PLAN_CONFLICT"
  ELSE IF OpenParts(r.inquiry) # {} THEN "PARTICIPATION_CONFLICT"
  ELSE IF \/ inquiries[r.inquiry].status \notin {"NEW", "NEGOTIATING"}
          \/ visits[r.visit].status # "PLANNED" THEN "INVALID_TRANSITION"
  ELSE "OK"

OnlyPlanned(S) == \A v \in S : visits[v].status = "PLANNED"

\* Mutant: the version of the inquiry is checked, that of the visit is not.
CompleteStaleVisit(r) ==
  IF inquiries[r.inquiry].status # "CONFIRMED" THEN "INVALID_TRANSITION"
  ELSE IF Named(r.expected_visit_versions) # LinkedVisits(r.inquiry)
    THEN "EXPECTED_VERSION_REQUIRED"
  ELSE IF inquiries[r.inquiry].version # r.expected_version
    THEN "VERSION_CONFLICT"
  ELSE "OK"

CompleteVerdict(r) ==
  IF inquiries[r.inquiry].status = "ABSENT" THEN "NOT_FOUND"
  ELSE IF inquiries[r.inquiry].status # "CONFIRMED" THEN "INVALID_TRANSITION"
  ELSE IF \A p \in participations : OpenParts(r.inquiry) # {p}
    THEN "PARTICIPATION_CONFLICT"
  ELSE IF Named(r.expected_visit_versions) # LinkedVisits(r.inquiry)
    THEN "EXPECTED_VERSION_REQUIRED"
  ELSE IF \/ inquiries[r.inquiry].version # r.expected_version
          \/ StaleVisits(r) THEN "VERSION_CONFLICT"
  ELSE IF ~OnlyPlanned(LinkedVisits(r.inquiry)) THEN "INVALID_TRANSITION"
  ELSE "OK"

\* Shared by the cancellation and the two cash commands: the map of visit
\* versions names exactly the visit of the open participation, if any.
VersionsVerdict(r) ==
  IF inquiries[r.inquiry].version # r.expected_version
    THEN "VERSION_CONFLICT"
  ELSE IF Named(r.expected_visit_versions) # LinkedVisits(r.inquiry)
    THEN "EXPECTED_VERSION_REQUIRED"
  ELSE IF StaleVisits(r) THEN "VERSION_CONFLICT"
  ELSE "OK"

\* Mutant: the status is looked at only where there is an open link.
CancelClosed(r) ==
  IF inquiries[r.inquiry].status = "ABSENT" THEN "NOT_FOUND"
  ELSE VersionsVerdict(r)

CancelVerdict(r) ==
  IF inquiries[r.inquiry].status = "ABSENT" THEN "NOT_FOUND"
  ELSE IF \E p, q \in OpenParts(r.inquiry) : p # q THEN "INVALID_TRANSITION"
  ELSE IF VersionsVerdict(r) # "OK" THEN VersionsVerdict(r)
  ELSE IF \/ /\ inquiries[r.inquiry].status \in {"NEW", "NEGOTIATING"}
             /\ OpenParts(r.inquiry) # {}
          \/ /\ inquiries[r.inquiry].status = "CONFIRMED"
             /\ \/ OpenParts(r.inquiry) = {}
                \/ ~OnlyPlanned(LinkedVisits(r.inquiry))
          \/ inquiries[r.inquiry].status
               \notin {"NEW", "NEGOTIATING", "CONFIRMED"}
    THEN "INVALID_TRANSITION"
  ELSE "OK"

CashNoteVerdict(r) ==
  IF inquiries[r.inquiry].status = "ABSENT" THEN "NOT_FOUND"
  ELSE VersionsVerdict(r)

\* Mutant: an original may be corrected again.
CorrectAgain(r) ==
  IF inquiries[r.inquiry].status = "ABSENT" THEN "NOT_FOUND"
  ELSE IF VersionsVerdict(r) # "OK" THEN VersionsVerdict(r)
  ELSE IF r.note \notin cashNotes \/ r.note.inquiry # r.inquiry
    THEN "NOT_FOUND"
  ELSE "OK"

CorrectionVerdict(r) ==
  IF inquiries[r.inquiry].status = "ABSENT" THEN "NOT_FOUND"
  ELSE IF VersionsVerdict(r) # "OK" THEN VersionsVerdict(r)
  ELSE IF r.note \notin cashNotes \/ r.note.inquiry # r.inquiry
    THEN "NOT_FOUND"
  ELSE IF Superseded(r.note) THEN "CASH_NOTE_SUPERSEDED"
  ELSE "OK"

Verdict(r) == CASE r.op = "PLAN_VISIT" -> PlanVisitVerdict(r)
                [] r.op = "START_NEGOTIATION" -> StartVerdict(r)
                [] r.op = "CONFIRM" -> ConfirmVerdict(r)
                [] r.op = "COMPLETE" -> CompleteVerdict(r)
                [] r.op = "CANCEL" -> CancelVerdict(r)
                [] r.op = "CASH_NOTE" -> CashNoteVerdict(r)
                [] r.op = "CORRECTION" -> CorrectionVerdict(r)

-----------------------------------------------------------------------------
(* Answers.  The transport may lose one: the slot then keeps what it knew.  *)

Answer(s, reply) ==
  \/ replies' = [replies EXCEPT ![s] = reply]
  \/ UNCHANGED replies

Refused(code) == [code |-> code, result |-> None]

\* Mutant: the replay reads the projection again instead of the stored one.
RereadAnswer(rec, r) ==
  IF rec.request # r THEN Refused("IDEMPOTENCY_MISMATCH")
  ELSE IF rec.result = None \/ r.inquiry = None
    THEN Refused("RESULT_EXPIRED")
  ELSE [code |-> "OK",
        result |-> [rec.result EXCEPT !.detail = DetailOf(r.inquiry)]]

\* _replay: what a stored receipt answers to a request with its identity.
ReplayAnswer(rec, r) ==
  IF rec.request # r THEN Refused("IDEMPOTENCY_MISMATCH")
  ELSE IF rec.result = None THEN Refused("RESULT_EXPIRED")
  ELSE [code |-> "OK", result |-> rec.result]

-----------------------------------------------------------------------------
(* Writes shared by the accepted commands.                                  *)

MoveTo(i, status) ==
  inquiries' = [inquiries EXCEPT ![i].status = status, ![i].version = @ + 1]

\* Mutant: the version of the visit is not moved.
KeepVisits(S) == S \subseteq Visits /\ UNCHANGED visits

BumpVisits(S) ==
  visits' = [v \in Visits |->
    IF v \in S THEN [visits[v] EXCEPT !.version = @ + 1] ELSE visits[v]]

\* Mutant: a cancellation closes with a kind of another command.
CloseUnscheduled(i, kind) ==
  participations' = {IF p \in OpenParts(i) /\ kind = "CANCELLED"
                     THEN [p EXCEPT !.close_kind = "UNSCHEDULED"]
                     ELSE p : p \in participations}

\* Mutant: every open link of the visit is closed, not that of the inquiry.
CloseWholeVisit(i, kind) ==
  participations' = {IF /\ p.visit \in LinkedVisits(i)
                        /\ p.close_kind = "OPEN"
                     THEN [p EXCEPT !.close_kind = kind]
                     ELSE p : p \in participations}

CloseParts(i, kind) ==
  participations' = {IF p \in OpenParts(i)
                     THEN [p EXCEPT !.close_kind = kind]
                     ELSE p : p \in participations}

\* The receipt with the projection read after the writes, the links to the
\* inquiries in receipt_inquiries, one change event, and the answer.
Store(s, changed, links) ==
  LET r == requests[s]
      versions == [v \in Visits |->
                     IF v \in changed THEN visits'[v].version ELSE 0]
      result == [detail |-> DetailOf(r.inquiry)',
                 changed_visits |-> versions]
  IN /\ UNCHANGED requests
     /\ receipts' = receipts \cup
          {[request |-> r, result |-> result, links |-> links]}
     /\ events' = events \cup
          {[inquiry |-> r.inquiry, version |-> inquiries'[r.inquiry].version,
            before |-> inquiries[r.inquiry].status,
            after |-> inquiries'[r.inquiry].status, visits |-> versions]}
     /\ Answer(s, [code |-> "OK", result |-> result])

\* A request in flight for op that meets no receipt and passes every check.
Accepts(s, op) ==
  /\ requests[s] # None
  /\ requests[s].op = op
  /\ ~Malformed(requests[s])
  /\ PriorReceipts(requests[s]) = {}
  /\ Verdict(requests[s]) = "OK"

-----------------------------------------------------------------------------
(* The transactions that accept a command.                                  *)

\* create_planned_visit: the only command without an inquiry.
CreatePlannedVisit(s) ==
  /\ Accepts(s, "PLAN_VISIT")
  /\ UNCHANGED <<inquiries, participations, cashNotes, corrections, requests>>
  /\ \E v \in Visits :
       LET result == [detail |-> None,
                      changed_visits |-> [NoVersions EXCEPT ![v] = 1]]
       IN /\ visits[v].status = "ABSENT"
          /\ visits' = [visits EXCEPT ![v] =
               [status |-> "PLANNED", version |-> 1,
                plan |-> requests[s].plan]]
          /\ receipts' = receipts \cup
               {[request |-> requests[s], result |-> result, links |-> {}]}
          /\ events' = events \cup
               {[inquiry |-> None, version |-> 0, before |-> "ABSENT",
                 after |-> "ABSENT", visits |-> result.changed_visits]}
          /\ Answer(s, [code |-> "OK", result |-> result])

StartNegotiation(s) ==
  LET i == requests[s].inquiry IN
  /\ Accepts(s, "START_NEGOTIATION")
  /\ MoveTo(i, "NEGOTIATING")
  /\ UNCHANGED <<visits, participations, cashNotes, corrections>>
  /\ Store(s, {}, {i})

\* The only command that stores no receipt_inquiries link.
ConfirmInquiry(s) ==
  LET i == requests[s].inquiry
      v == requests[s].visit IN
  /\ Accepts(s, "CONFIRM")
  /\ MoveTo(i, "CONFIRMED")
  /\ BumpVisits({v})
  /\ participations' = participations \cup
       {[inquiry |-> i, visit |-> v, joined |-> inquiries[i].version + 1,
         close_kind |-> "OPEN"]}
  /\ UNCHANGED <<cashNotes, corrections>>
  /\ Store(s, {v}, {})

\* Mutant: the link is closed the way a cancellation closes it.
CompleteAsCancelled(s) ==
  LET i == requests[s].inquiry IN
  /\ Accepts(s, "COMPLETE")
  /\ MoveTo(i, "COMPLETED")
  /\ BumpVisits(LinkedVisits(i))
  /\ CloseParts(i, "CANCELLED")
  /\ UNCHANGED <<cashNotes, corrections>>
  /\ Store(s, LinkedVisits(i), {i})

CompleteInquiry(s) ==
  LET i == requests[s].inquiry IN
  /\ Accepts(s, "COMPLETE")
  /\ MoveTo(i, "COMPLETED")
  /\ BumpVisits(LinkedVisits(i))
  /\ CloseParts(i, "PROVIDED")
  /\ UNCHANGED <<cashNotes, corrections>>
  /\ Store(s, LinkedVisits(i), {i})

\* Mutant: the cancellation forgets the link of the inquiry.
CancelStatusOnly(s) ==
  LET i == requests[s].inquiry IN
  /\ Accepts(s, "CANCEL")
  /\ MoveTo(i, "CANCELLED")
  /\ UNCHANGED <<visits, participations, cashNotes, corrections>>
  /\ Store(s, {}, {i})

CancelInquiry(s) ==
  LET i == requests[s].inquiry IN
  /\ Accepts(s, "CANCEL")
  /\ MoveTo(i, "CANCELLED")
  /\ BumpVisits(LinkedVisits(i))
  /\ CloseParts(i, "CANCELLED")
  /\ UNCHANGED <<cashNotes, corrections>>
  /\ Store(s, LinkedVisits(i), {i})

NoteNow(i) == [inquiry |-> i, recorded |-> inquiries[i].version + 1]

\* A cash fact is accepted whatever the status of the inquiry.
RecordCashNote(s) ==
  LET i == requests[s].inquiry IN
  /\ Accepts(s, "CASH_NOTE")
  /\ MoveTo(i, inquiries[i].status)
  /\ BumpVisits(LinkedVisits(i))
  /\ cashNotes' = cashNotes \cup {NoteNow(i)}
  /\ UNCHANGED <<participations, corrections>>
  /\ Store(s, LinkedVisits(i), {i})

CorrectCashNote(s) ==
  LET i == requests[s].inquiry
      replacement == IF requests[s].replace THEN NoteNow(i) ELSE None IN
  /\ Accepts(s, "CORRECTION")
  /\ MoveTo(i, inquiries[i].status)
  /\ BumpVisits(LinkedVisits(i))
  /\ cashNotes' = cashNotes \cup ({replacement} \ {None})
  /\ corrections' = corrections \cup
       {[original |-> requests[s].note, replacement |-> replacement]}
  /\ UNCHANGED participations
  /\ Store(s, LinkedVisits(i), {i})

-----------------------------------------------------------------------------
(* Deliveries that change no table.                                         *)

Replay(s) ==
  /\ requests[s] # None
  /\ ~Malformed(requests[s])
  /\ \E rec \in PriorReceipts(requests[s]) :
       Answer(s, ReplayAnswer(rec, requests[s]))
  /\ UNCHANGED <<tables, receipts, events, requests>>

Reject(s) ==
  /\ requests[s] # None
  /\ \/ /\ Malformed(requests[s])
        /\ Answer(s, Refused("EXPECTED_VERSION_REQUIRED"))
     \/ /\ ~Malformed(requests[s])
        /\ PriorReceipts(requests[s]) = {}
        /\ Verdict(requests[s]) # "OK"
        /\ Answer(s, Refused(Verdict(requests[s])))
  /\ UNCHANGED <<tables, receipts, events, requests>>

-----------------------------------------------------------------------------
(* The environment.                                                         *)

\* An accepted submission (inquiries.py, channel_draft_persistence.py) as
\* the owner's side sees it: a NEW inquiry of version 1 and its event.
ReceiveInquiry(i) ==
  /\ inquiries[i].status = "ABSENT"
  /\ inquiries' = [inquiries EXCEPT ![i] = [status |-> "NEW", version |-> 1]]
  /\ events' = events \cup
       {[inquiry |-> i, version |-> 1, before |-> "ABSENT", after |-> "NEW",
         visits |-> NoVersions]}
  /\ UNCHANGED <<visits, participations, cashNotes, corrections, receipts,
                 requests, replies>>

Known(i) == inquiries[i].status # "ABSENT"
Planned == {v \in Visits : visits[v].status # "ABSENT"}

\* The versions a client names: those of the visits its command concerns or,
\* if it is careless, of no visit or of any one visit it has read.
VersionsOf(S) == [v \in Visits |-> IF v \in S THEN visits[v].version ELSE 0]
ReadVersions(S) ==
  {VersionsOf(S)} \cup
  IF Careless THEN {VersionsOf(T) : T \in {{}} \cup {{v} : v \in Planned}}
              ELSE {}

\* The requests a client can compose from what the database holds now.
NewRequest(op, k, i, v, plan, n, replace, expected, versions) ==
  [op |-> op, key |-> k, inquiry |-> i, visit |-> v, plan |-> plan,
   note |-> n, replace |-> replace, expected_version |-> expected,
   expected_visit_versions |-> versions]

\* The visits, or the one visit v, whose versions a command has to name.
Concerned(op, i, v) == CASE op = "START_NEGOTIATION" -> {}
                         [] op = "CONFIRM" -> {v}
                         [] OTHER -> LinkedVisits(i)

CommandsOn(op, k, i) ==
  UNION {{NewRequest(op, k, i, v, None, n, replace, inquiries[i].version, m) :
            m \in ReadVersions(Concerned(op, i, v))} :
         v \in IF op = "CONFIRM" THEN Planned ELSE {None},
         n \in IF op = "CORRECTION" THEN cashNotes ELSE {None},
         replace \in IF op = "CORRECTION" THEN BOOLEAN ELSE {FALSE}}

Composable(op, k) ==
  IF op = "PLAN_VISIT"
  THEN {NewRequest(op, k, None, None, plan, None, FALSE, 0, NoVersions) :
          plan \in Plans}
  ELSE UNION {CommandsOn(op, k, i) : i \in {j \in Inquiries : Known(j)}}

\* The client composes a request: the first one of the slot, or the next one
\* once the previous one was answered.
SendRequest(s) ==
  /\ requests[s] = None \/ replies[s] # None
  /\ Cardinality(receipts) < MaxCommands
  /\ \E op \in Ops, k \in Keys : \E r \in Composable(op, k) :
       requests' = [requests EXCEPT ![s] = r]
  /\ replies' = [replies EXCEPT ![s] = None]
  /\ UNCHANGED <<tables, receipts, events>>

\* Retention (external): the stored result goes, the spent key stays.
ExpireResult(rec) ==
  /\ rec.result # None
  /\ Cardinality({x \in receipts : x.result = None}) < MaxExpired
  /\ receipts' = (receipts \ {rec}) \cup {[rec EXCEPT !.result = None]}
  /\ UNCHANGED <<tables, events, requests, replies>>

-----------------------------------------------------------------------------
Init ==
  /\ inquiries = [i \in Inquiries |-> [status |-> "ABSENT", version |-> 0]]
  /\ visits = [v \in Visits |->
       [status |-> "ABSENT", version |-> 0, plan |-> None]]
  /\ participations = {} /\ cashNotes = {} /\ corrections = {}
  /\ receipts = {} /\ events = {}
  /\ requests = [s \in Slots |-> None]
  /\ replies = [s \in Slots |-> None]

Deliver(s) ==
  \/ CreatePlannedVisit(s) \/ StartNegotiation(s) \/ ConfirmInquiry(s)
  \/ CompleteInquiry(s) \/ CancelInquiry(s)
  \/ RecordCashNote(s) \/ CorrectCashNote(s)
  \/ Replay(s) \/ Reject(s)

Next ==
  \/ \E i \in Inquiries : ReceiveInquiry(i)
  \/ \E s \in Slots : SendRequest(s) \/ Deliver(s)
  \/ \E rec \in receipts : ExpireResult(rec)

Spec == Init /\ [][Next]_vars

-----------------------------------------------------------------------------
(* Properties.                                                              *)

\* Every table row, receipt, event, request and answer has its shape.
TypeOK ==
  /\ inquiries \in [Inquiries -> Inquiry]
  /\ visits \in [Visits -> Visit]
  /\ participations \subseteq Participation
  /\ cashNotes \subseteq CashNote
  /\ corrections \subseteq Correction
  /\ receipts \subseteq Receipt
  /\ events \subseteq Event
  /\ requests \in [Slots -> Request \cup {None}]
  /\ replies \in [Slots -> Reply \cup {None}]

\* The status of an inquiry and its links to visits tell the same story: a
\* confirmed inquiry has exactly one open link and no other inquiry has any,
\* so the unique index one_active_participation_per_inquiry is never hit; a
\* completed inquiry has exactly one provided link, every other one has none.
\* The status is set in one statement and the link in another, by three
\* commands that never look at each other's rows.
PlanMatchesStatus ==
  \A i \in Inquiries :
    /\ inquiries[i].status = "CONFIRMED" <=> OpenParts(i) # {}
    /\ inquiries[i].status = "COMPLETED" <=>
         \E p \in participations : p.inquiry = i /\ p.close_kind = "PROVIDED"
    /\ \A p, q \in participations :
         /\ p.inquiry = i /\ q.inquiry = i
         /\ p.close_kind \in {"OPEN", "PROVIDED"}
         /\ q.close_kind \in {"OPEN", "PROVIDED"}
         => p = q

\* The history explains every version: each version of an inquiry was made by
\* exactly one change event, which starts from the status the previous event
\* left, and the last event left the current status; each version of a visit
\* was made by exactly one event linked to that visit.
ExactlyOne(S) == \E x \in S : S = {x}
EventsOf(i, n) == {e \in events : e.inquiry = i /\ e.version = n}
EventsOfVisit(v, n) ==
  {e \in events : e.visits[v] = n}

HistoryIsGapless ==
  /\ \A i \in Inquiries :
       /\ \A n \in 1..inquiries[i].version : ExactlyOne(EventsOf(i, n))
       /\ \A e, f \in events :
            /\ e.inquiry = i /\ f.inquiry = i /\ f.version = e.version + 1
            => f.before = e.after
       /\ \A e \in EventsOf(i, inquiries[i].version) :
            e.after = inquiries[i].status
  /\ \A v \in Visits : \A n \in 1..visits[v].version :
       ExactlyOne(EventsOfVisit(v, n))
  /\ \A e \in events :
       /\ e.inquiry # None => e.version <= inquiries[e.inquiry].version
       /\ \A v \in Visits : e.visits[v] <= visits[v].version

\* No lost update (booking-flow.md, section 6: a stale tab never overwrites a
\* fresh result): of all the commands that were composed from the same version
\* of an inquiry, or from the same version of a visit, at most one was ever
\* accepted, whichever commands they are.
OneWinnerPerVersion ==
  \A a, b \in {rec.request : rec \in receipts} :
    \/ a = b
    \/ /\ \/ a.inquiry # b.inquiry
          \/ a.inquiry = None
          \/ a.expected_version # b.expected_version
       /\ \A v \in Named(a.expected_visit_versions) :
            a.expected_visit_versions[v] # b.expected_visit_versions[v]

\* One key, one effect (api.md, section 7): a key of a path has one receipt
\* for ever, and whoever was told a command succeeded was told the stored
\* result of that very request.
OneEffectPerKey ==
  /\ \A a, b \in receipts : SameIdentity(a.request, b.request) => a = b
  /\ \A s \in Slots :
       (replies[s] # None /\ replies[s].code = "OK") =>
         \E rec \in receipts : /\ rec.request = requests[s]
                               /\ rec.result \in {None, replies[s].result}

\* Corrections form chains: a note is replaced at most once, a replacement
\* replaces one note of the same inquiry and is younger than it.  So every
\* recorded cash fact stands for at most one effective note, and a fact is
\* lost from the cash summary only by a correction without a replacement.
FactsRecorded(i) ==
  {rec \in receipts : rec.request.op = "CASH_NOTE" /\ rec.request.inquiry = i}
FactsVoided(i) ==
  {c \in corrections : c.original.inquiry = i /\ c.replacement = None}

CashFactsConserved ==
  /\ \A c, d \in corrections :
       \/ c = d
       \/ /\ c.original # d.original
          /\ c.replacement = d.replacement => c.replacement = None
  /\ \A c \in corrections : c.replacement # None =>
       /\ c.replacement.inquiry = c.original.inquiry
       /\ c.replacement.recorded > c.original.recorded
  /\ \A i \in Inquiries :
       Cardinality(EffectiveNotes(i)) + Cardinality(FactsVoided(i)) =
         Cardinality(FactsRecorded(i))

\* Cancelling or serving one inquiry of a group leaves the others alone
\* (booking-flow.md, section 3): a step changes the row, the links and the
\* notes of at most one inquiry.
RowsOf(i) == <<inquiries[i], {p \in participations : p.inquiry = i},
               {n \in cashNotes : n.inquiry = i},
               {c \in corrections : c.original.inquiry = i}>>

GroupIsolation ==
  [][\A i, j \in Inquiries : \/ i = j
                             \/ RowsOf(i)' = RowsOf(i)
                             \/ RowsOf(j)' = RowsOf(j)]_vars

\* Outcomes are final: a completed or cancelled inquiry keeps its status, a
\* link that was closed keeps its outcome, and no link or note ever vanishes.
OutcomesAreFinal ==
  [][/\ \A i \in Inquiries : inquiries[i].status \in Terminal =>
          inquiries'[i].status = inquiries[i].status
     /\ \A p \in participations : \E q \in participations' :
          /\ q = [p EXCEPT !.close_kind = q.close_kind]
          /\ p.close_kind \in {"OPEN", q.close_kind}
     /\ cashNotes \subseteq cashNotes'
     /\ corrections \subseteq corrections']_vars

\* Money and workflow are independent (booking-flow.md, section 4): no step
\* writes a cash fact and changes a status or a link together, and the cash
\* summary of an inquiry changes only with its version.
MoneyIsIndependent ==
  [][\A i \in Inquiries : EffectiveNotes(i)' # EffectiveNotes(i) =>
       /\ inquiries'[i].status = inquiries[i].status
       /\ inquiries'[i].version = inquiries[i].version + 1
       /\ \A v \in LinkedVisits(i) :
            visits'[v].version = visits[v].version + 1
       /\ participations' = participations]_vars

\* A client that was told of a success is told the same of every redelivery
\* of that request, until the result is removed; it is never told of a
\* conflict with its own command.
AnswersAreStable ==
  [][\A s \in Slots :
       (/\ replies[s] # None /\ replies[s].code = "OK"
        /\ requests'[s] = requests[s] /\ replies'[s] # None)
       => \/ replies'[s] = replies[s]
          \/ replies'[s] = Refused("RESULT_EXPIRED")]_vars

\* The tables implement the lifecycle the owner is promised: the plan of an
\* inquiry is its open link, and it was served where a link was provided.
ServedVisits(i) == {p.visit : p \in {q \in participations :
                      q.inquiry = i /\ q.close_kind = "PROVIDED"}}

Lifecycle == INSTANCE InquiryLifecycle WITH
  status <- [i \in Inquiries |-> inquiries[i].status],
  plan <- [i \in Inquiries |-> LinkedVisits(i)],
  served <- [i \in Inquiries |-> ServedVisits(i)]

ImplementsLifecycle == Lifecycle!Spec
=============================================================================
