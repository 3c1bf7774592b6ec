------------------------ MODULE TelegramDialogProofs ------------------------
(***************************************************************************)
(* Theorems about TelegramDialog, for every set of events, texts, options  *)
(* and workers: what the person is told is true, what is acknowledged is   *)
(* stored, and the port keeps its promises under this adapter.             *)
(***************************************************************************)
EXTENDS TelegramDialog, ChannelDraftsProofs

USE DraftsAssumption, DialogAssumption, MarkersAssumption

-----------------------------------------------------------------------------
(* Types.                                                                   *)

LEMMA UpdateKinds ==
  ASSUME NEW u \in Update
  PROVE  /\ u.event \in Events
         /\ u.kind \in {"OPEN", "RESET", "SUBMIT", "SELECT", "TEXT"}
         /\ u.kind = "SELECT" => u.body \in Options
         /\ u.kind = "TEXT" => u.body \in Texts
BY DEF Update, Direct, Choice, Text

LEMMA ShownRows ==
  ASSUME PortTypeOK, NEW d \in Shown
  PROVE  d \in Row /\ d.version \in Nat /\ d.answers \in Answers
BY RowsType DEF Shown, LiveDrafts, OpenDrafts, Row

LEMMA SaveOfType ==
  ASSUME NEW n \in Nat, NEW s \in Steps, NEW a \in Answers
  PROVE  SaveOf(n, s, a) \in Operation /\ SaveOf(n, s, a).kind = "SAVE"
BY DEF SaveOf, Operation, Save

\* The kinds of what a delivery does are those of its update.
ActFits(a, u) ==
  \/ a.kind \in {"OPEN", "RESET", "SUBMIT"} /\ a.kind = u.kind
  \/ /\ a.kind \in {"SELECT_SERVICE", "SET_REQUESTER", "SET_DETAILS"}
     /\ u.kind \in {"SELECT", "TEXT"}

OpFits(op, u) ==
  \/ op.kind = "SAVE" /\ u.kind \in {"SELECT", "TEXT"}
  \/ op.kind = "RESET" /\ u.kind = "RESET"
  \/ op.kind = "SUBMIT" /\ u.kind = "SUBMIT"

WorkerOK(w) ==
  /\ ~In(w, "IDLE") => workers[w].update \in Update
  /\ In(w, "READ") => /\ workers[w].action \in Action
                      /\ ActFits(workers[w].action, workers[w].update)
  /\ In(w, "WRITE") => /\ workers[w].operation \in Operation
                       /\ OpFits(workers[w].operation, workers[w].update)

\* The fingerprint of an accepted event is its update.
EventsOK ==
  \A e \in Events : Recorded(e) =>
    /\ events[e].marker \in Update /\ events[e].marker.event = e
    /\ OpFits(events[e].operation, events[e].marker)

\* A stored draft has a version, which no first draft expects.
RowsMoved == \A i \in DOMAIN drafts : drafts[i].version # 0

Port == PortTypeOK /\ History /\ InquiriesAreSubmitted /\ RowsMoved

\* What a screen says to the sender of an update.
Done(u, kind) == Recorded(u.event) /\ events[u.event].operation.kind = kind
Told(u, reply) ==
  /\ reply = "ACCEPTED" => /\ u.kind = "SUBMIT" /\ Done(u, "SUBMIT")
                           /\ \E q \in inquiries : q.event = u.event
  /\ reply = "CLEARED" => \/ u.kind = "RESET" /\ Done(u, "RESET")
                          \/ u.kind \in {"SELECT", "TEXT"} /\ Done(u, "SAVE")
  /\ reply \in Steps => u.kind \in {"SELECT", "TEXT"} /\ Done(u, "SAVE")
  /\ reply \notin {"ACCEPTED", "CLEARED"} \cup Steps => u.kind = "OPEN"

AllTold == \A w \in Workers : In(w, "SEND") =>
             Told(workers[w].update, workers[w].reply)

LEMMA RepliesAreTold == AllTold => RepliesAreTrue
BY DEF AllTold, Told, Done, RepliesAreTrue, Steps

DialogInv ==
  /\ TypeOK /\ Port /\ EventsOK
  /\ \A w \in Workers : WorkerOK(w)
  /\ AllTold
  /\ AcknowledgedIsDone

-----------------------------------------------------------------------------
(* The port under the dialog.                                               *)

\* What is stored stays stored, whatever is asked of the port.
PortGrows ==
  /\ \A e \in Events : Recorded(e) =>
       Recorded(e)' /\ events'[e].operation = events[e].operation
  /\ inquiries \subseteq inquiries'

LEMMA AcceptStores ==
  ASSUME PortTypeOK, OneOpenDraft, NEW e \in Events, NEW op \in Operation,
         NEW k \in Markers, NEW now \in Nat, Accept(e, op, k, now)
  PROVE  /\ ~Recorded(e) /\ Recorded(e)'
         /\ events'[e].operation = op /\ events'[e].marker = k
         /\ \A f \in Events \ {e} : events'[f] = events[f]
         /\ inquiries \subseteq inquiries'
<1>1. PICK i \in Nat : Moved(e, op, now, i)
  BY AcceptMoves
<1>2. PICK j, v : Stored(e, op, k, now, j, v)
  BY DEF Accept, StartDraft, SaveDraft, ResetDraft, SubmitInquiry
<1>3. events'[e].marker = k
  BY <1>2 DEF Stored, PortTypeOK
<1>4. inquiries \subseteq inquiries'
  BY DEF Accept, StartDraft, SaveDraft, ResetDraft, SubmitInquiry
<1> QED
  BY <1>1, <1>3, <1>4, RecordsAssumption DEF Moved, Recorded

LEMMA AcceptPort ==
  ASSUME Port, NEW e \in Events, NEW op \in Operation, NEW k \in Markers,
         NEW now \in 0..clock, Accept(e, op, k, now)
  PROVE  Port' /\ PortGrows
<1>1. PortTypeOK /\ History /\ OneOpenDraft /\ now \in Nat
  BY DEF Port, History, PortTypeOK
<1>2. PortTypeOK' /\ History' /\ InquiriesAreSubmitted'
  BY <1>1, AcceptType, AcceptHistory, AcceptInquiries DEF Port
<1>3. PortGrows
  BY <1>1, AcceptStores DEF PortGrows, Recorded
<1>4. RowsMoved'
  <2>1. PICK i \in Nat : Moved(e, op, now, i)
    BY <1>1, AcceptMoves
  <2>2. \A j \in DOMAIN drafts : drafts[j].version \in Nat
    BY <1>1, RowsType DEF Row
  <2> QED
    BY <2>1, <2>2 DEF Moved, RowsMoved, Port
<1> QED
  BY <1>2, <1>3, <1>4 DEF Port

LEMMA WorldPort ==
  ASSUME Port, World
  PROVE  /\ Port' /\ PortGrows
         /\ \A e \in Events : Recorded(e)' => events'[e].marker = events[e].marker
<1>1. PortTypeOK /\ History
  BY DEF Port
<1>2. /\ drafts' = drafts /\ inquiries' = inquiries
      /\ \A f \in Events :
           /\ Recorded(f)' <=> Recorded(f)
           /\ Recorded(f) => events'[f].operation = events[f].operation
  BY <1>1, WorldKeeps
<1>3. InquiriesAreSubmitted'
  <2>1. \A q \in inquiries : q.event \in Events
    BY <1>1 DEF PortTypeOK, Inquiry
  <2> QED
    BY <1>2, <2>1 DEF InquiriesAreSubmitted, Port
<1>4. ASSUME NEW e \in Events, Recorded(e)'
      PROVE  events'[e].marker = events[e].marker
  <2>1. ASSUME NEW f \in Events, RemoveResult(f)
        PROVE  events'[e].marker = events[e].marker
    BY <1>1, <2>1, RecordType DEF RemoveResult, PortTypeOK, Record
  <2> QED
    BY <2>1 DEF World, Tick, EditCatalog
<1>5. RowsMoved'
  BY <1>2 DEF RowsMoved, Port
<1> QED
  BY <1>1, <1>2, <1>3, <1>4, <1>5, WorldType, WorldHistory DEF Port, PortGrows

LEMMA TellStays ==
  ASSUME PortGrows, NEW u \in Update, NEW reply, Told(u, reply)
  PROVE  Told(u, reply)'
<1>1. u.event \in Events
  BY UpdateKinds
<1> QED
  BY <1>1 DEF Told, Done, PortGrows

-----------------------------------------------------------------------------
(* The steps of a delivery that leave the port alone.                       *)

PortKept == UNCHANGED <<clock, catalog, drafts, events, inquiries>>

LEMMA KeptPort ==
  ASSUME PortKept
  PROVE  /\ Port => Port' /\ PortGrows
         /\ EventsOK => EventsOK'
         /\ \A u, r : Told(u, r)' <=> Told(u, r)
BY DEF PortKept, Port, PortTypeOK, PortGrows, History, OneOpenDraft, OpenDrafts,
       VersionsAreHistory, MovedTo, DraftsEndOnce, AnswersExpire,
       ExpiryFollowsTheLastEvent, Recorded, InquiriesAreSubmitted, RowsMoved,
       EventsOK, Told, Done

\* What one worker does concerns the others not at all.
OneWorker(w) == \A x \in Workers \ {w} : workers'[x] = workers[x]

LEMMA OthersStay ==
  ASSUME PortGrows, NEW w \in Workers, OneWorker(w),
         \A x \in Workers : WorkerOK(x), AllTold,
         WorkerOK(w)',
         In(w, "SEND")' => Told(workers[w].update, workers[w].reply)'
  PROVE  (\A x \in Workers : WorkerOK(x)') /\ AllTold'
<1>1. \A x \in Workers \ {w} : WorkerOK(x)'
  BY DEF OneWorker, WorkerOK, In
<1>2. ASSUME NEW x \in Workers \ {w}, In(x, "SEND")'
      PROVE  Told(workers[x].update, workers[x].reply)'
  <2>1. /\ workers'[x] = workers[x] /\ workers[x].update \in Update
        /\ Told(workers[x].update, workers[x].reply)
    BY <1>2 DEF OneWorker, WorkerOK, AllTold, In
  <2>2. \A r : \A u \in Update : Told(u, r) => Told(u, r)'
    BY TellStays
  <2> QED
    BY <2>1, <2>2 DEF Told, Done
<1> QED
  BY <1>1, <1>2 DEF AllTold

\* A step of one worker, whatever it does to the port and to the updates.
LEMMA WorkerStep ==
  ASSUME DialogInv, NEW w \in Workers, OneWorker(w),
         Port', PortGrows, EventsOK',
         workers' \in [Workers -> Worker],
         asked' \in [Events -> Screens \cup {None}],
         sent' = sent, pending' \subseteq pending,
         \A u \in pending \ pending' : u.kind = "OPEN" \/ Recorded(u.event),
         WorkerOK(w)',
         In(w, "SEND")' => Told(workers[w].update, workers[w].reply)'
  PROVE  DialogInv'
<1>1. /\ \A x \in Workers : WorkerOK(x)
      /\ AllTold /\ AcknowledgedIsDone
      /\ sent \subseteq Update /\ pending \subseteq sent
  BY DEF DialogInv, TypeOK
<1>2. (\A x \in Workers : WorkerOK(x)') /\ AllTold'
  BY <1>1, OthersStay
<1>3. AcknowledgedIsDone'
  <2>1. ASSUME NEW u \in sent' \ pending'
        PROVE  u.kind = "OPEN" \/ Recorded(u.event)'
    <3>1. u.event \in Events
      BY <1>1, UpdateKinds
    <3>2. u.kind = "OPEN" \/ Recorded(u.event)
      BY <1>1 DEF AcknowledgedIsDone
    <3> QED
      BY <3>1, <3>2 DEF PortGrows
  <2> QED
    BY <2>1 DEF AcknowledgedIsDone
<1>4. TypeOK'
  BY <1>1 DEF TypeOK, Port
<1> QED
  BY <1>2, <1>3, <1>4 DEF DialogInv

\* The same for a step that leaves the port and the updates alone.
LEMMA QuietStep ==
  ASSUME DialogInv, NEW w \in Workers, OneWorker(w), PortKept,
         workers' \in [Workers -> Worker],
         asked' \in [Events -> Screens \cup {None}],
         sent' = sent, pending' = pending,
         WorkerOK(w)',
         In(w, "SEND")' => Told(workers'[w].update, workers'[w].reply)
  PROVE  DialogInv'
<1>1. Port' /\ PortGrows /\ EventsOK'
  BY KeptPort DEF DialogInv
<1>2. \A r : \A u \in Update : Told(u, r) => Told(u, r)'
  BY <1>1, TellStays
<1>3. In(w, "SEND")' => workers'[w].update \in Update
  BY DEF WorkerOK, In
<1>4. In(w, "SEND")' => Told(workers[w].update, workers[w].reply)'
  BY <1>2, <1>3 DEF Told, Done
<1> QED
  BY <1>1, <1>4, WorkerStep

LEMMA GoesMeans ==
  ASSUME TypeOK, NEW w \in Workers, NEW phase \in Phases,
         NEW action \in Action \cup {None}, Goes(w, phase, action)
  PROVE  /\ workers' \in [Workers -> Worker] /\ OneWorker(w)
         /\ workers'[w].phase = phase /\ workers'[w].action = action
         /\ workers'[w].update = workers[w].update
<1>1. workers \in [Workers -> Worker] /\ workers[w] \in Worker
      /\ catalog \in Catalog
  BY DEF TypeOK, PortTypeOK
<1> QED
  BY <1>1 DEF Goes, Worker, OneWorker

LEMMA WritesMeans ==
  ASSUME TypeOK, NEW w \in Workers, NEW op \in Operation, Writes(w, op)
  PROVE  /\ workers' \in [Workers -> Worker] /\ OneWorker(w)
         /\ workers'[w].phase = "WRITE" /\ workers'[w].operation = op
         /\ workers'[w].update = workers[w].update
<1>1. workers \in [Workers -> Worker] /\ workers[w] \in Worker /\ clock \in Nat
  BY DEF TypeOK, PortTypeOK
<1> QED
  BY <1>1 DEF Writes, Worker, OneWorker, Phases

LEMMA RepliesMeans ==
  ASSUME TypeOK, NEW w \in Workers, NEW screen \in Screens, Replies(w, screen)
  PROVE  /\ workers' \in [Workers -> Worker] /\ OneWorker(w)
         /\ workers'[w].phase = "SEND" /\ workers'[w].reply = screen
         /\ workers'[w].update = workers[w].update
<1>1. workers \in [Workers -> Worker] /\ workers[w] \in Worker
  BY DEF TypeOK
<1> QED
  BY <1>1 DEF Replies, Worker, OneWorker, Phases

LEMMA IdleMeans ==
  ASSUME TypeOK, NEW w \in Workers, workers' = [workers EXCEPT ![w] = Idle]
  PROVE  /\ workers' \in [Workers -> Worker] /\ OneWorker(w)
         /\ WorkerOK(w)' /\ ~In(w, "SEND")'
<1>1. workers \in [Workers -> Worker] /\ Idle \in Worker
  BY DEF TypeOK, Idle, Worker, Phases
<1>2. workers'[w] = Idle
  BY <1>1
<1>3. Idle.phase = "IDLE"
  BY DEF Idle
<1> QED
  BY <1>1, <1>2, <1>3 DEF OneWorker, WorkerOK, In

LEMMA ScreenFits ==
  ASSUME NEW op \in Operation
  PROVE  /\ ScreenOf(op) \in Screens
         /\ op.kind = "SAVE" => ScreenOf(op) = op.step /\ op.step \in Steps
         /\ op.kind = "RESET" => ScreenOf(op) = "CLEARED"
         /\ op.kind = "SUBMIT" => ScreenOf(op) = "ACCEPTED"
<1>1. op.kind \in {"SAVE", "RESET", "SUBMIT"}
  BY DEF Operation, Save, Reset, Submit
<1> QED
  BY <1>1, OperationKinds DEF ScreenOf, Screens

\* The screen of an operation that is recorded for an update of its kind.
LEMMA ScreenIsTold ==
  ASSUME Port, NEW u \in Update, NEW op \in Operation, OpFits(op, u),
         Done(u, op.kind)
  PROVE  Told(u, ScreenOf(op))
<1>1. u.event \in Events
  BY UpdateKinds
<1>2. op.kind = "SUBMIT" => \E q \in inquiries : q.event = u.event
  BY <1>1 DEF Done, Port, InquiriesAreSubmitted
<1> QED
  BY <1>2, ScreenFits DEF Told, OpFits, Steps

-----------------------------------------------------------------------------
(* The steps of a delivery.                                                 *)

Handled == UNCHANGED <<clock, catalog, drafts, events, inquiries,
                       sent, pending, asked>>

LEMMA HandledKeeps ==
  ASSUME DialogInv, Handled
  PROVE  /\ PortKept /\ sent' = sent /\ pending' = pending
         /\ asked' \in [Events -> Screens \cup {None}]
BY DEF DialogInv, TypeOK, Handled, PortKept

LEMMA DeliverStep ==
  ASSUME DialogInv, NEW w \in Workers, Deliver(w) PROVE DialogInv'
<1>1. PICK u \in pending : workers' = [workers EXCEPT ![w] =
        [Idle EXCEPT !.phase = "REPLAY", !.update = u, !.offered = catalog]]
  BY DEF Deliver
<1> DEFINE W == [Idle EXCEPT !.phase = "REPLAY", !.update = u,
                             !.offered = catalog]
<1>2. /\ u \in Update /\ catalog \in Catalog
      /\ workers \in [Workers -> Worker]
  BY DEF DialogInv, TypeOK, PortTypeOK
<1>3. W \in Worker /\ W.phase = "REPLAY" /\ W.update = u
  BY <1>2 DEF Idle, Worker, Phases
<1>4. workers' = [workers EXCEPT ![w] = W]
  BY <1>1
<1> HIDE DEF W
<1>5. /\ workers' \in [Workers -> Worker] /\ OneWorker(w)
      /\ workers'[w] = W
  BY <1>2, <1>3, <1>4 DEF OneWorker
<1>6. WorkerOK(w)' /\ ~In(w, "SEND")'
  BY <1>2, <1>3, <1>5 DEF WorkerOK, In
<1> QED
  BY <1>5, <1>6, HandledKeeps, QuietStep DEF Deliver, Handled

\* A reply that is true completes a delivery.
LEMMA ReplyStep ==
  ASSUME DialogInv, NEW w \in Workers, ~In(w, "IDLE"), Handled,
         NEW screen \in Screens, Replies(w, screen),
         Told(workers[w].update, screen)
  PROVE  DialogInv'
<1>1. TypeOK /\ workers[w].update \in Update
  BY DEF DialogInv, WorkerOK
<1>2. /\ workers' \in [Workers -> Worker] /\ OneWorker(w)
      /\ workers'[w].phase = "SEND" /\ workers'[w].reply = screen
      /\ workers'[w].update = workers[w].update
  BY <1>1, RepliesMeans
<1>3. WorkerOK(w)'
  BY <1>1, <1>2 DEF WorkerOK, In
<1>4. Told(workers'[w].update, workers'[w].reply)
  BY <1>2
<1> QED
  BY <1>2, <1>3, <1>4, HandledKeeps, QuietStep

LEMMA GoesStep ==
  ASSUME DialogInv, NEW w \in Workers, ~In(w, "IDLE"), PortKept,
         sent' = sent, pending' = pending,
         asked' \in [Events -> Screens \cup {None}],
         NEW phase \in {"PREFLIGHT", "READ"}, NEW action \in Action \cup {None},
         phase = "READ" => action \in Action /\ ActFits(action, workers[w].update),
         Goes(w, phase, action)
  PROVE  DialogInv'
<1>1. TypeOK /\ workers[w].update \in Update /\ phase \in Phases
  BY DEF DialogInv, WorkerOK, Phases
<1>2. /\ workers' \in [Workers -> Worker] /\ OneWorker(w)
      /\ workers'[w].phase = phase /\ workers'[w].action = action
      /\ workers'[w].update = workers[w].update
  BY <1>1, GoesMeans
<1>3. WorkerOK(w)' /\ ~In(w, "SEND")'
  BY <1>1, <1>2 DEF WorkerOK, In
<1> QED
  BY <1>2, <1>3, QuietStep

LEMMA WritesStep ==
  ASSUME DialogInv, NEW w \in Workers, ~In(w, "IDLE"), Handled,
         NEW op \in Operation, OpFits(op, workers[w].update), Writes(w, op)
  PROVE  DialogInv'
<1>1. TypeOK /\ workers[w].update \in Update
  BY DEF DialogInv, WorkerOK
<1>2. /\ workers' \in [Workers -> Worker] /\ OneWorker(w)
      /\ workers'[w].phase = "WRITE" /\ workers'[w].operation = op
      /\ workers'[w].update = workers[w].update
  BY <1>1, WritesMeans
<1>3. WorkerOK(w)' /\ ~In(w, "SEND")'
  BY <1>1, <1>2 DEF WorkerOK, In
<1> QED
  BY <1>2, <1>3, HandledKeeps, QuietStep

LEMMA AnswerAgainStep ==
  ASSUME DialogInv, NEW w \in Workers, AnswerAgain(w) PROVE DialogInv'
<1> DEFINE u == workers[w].update
<1>1. /\ ~In(w, "IDLE") /\ Handled /\ Recorded(u.event)
      /\ SameInteraction(u.event, u)
  BY DEF AnswerAgain, In, Handled
<1>2. u \in Update /\ Port /\ PortTypeOK /\ u.event \in Events
  BY <1>1, UpdateKinds DEF DialogInv, WorkerOK, Port
<1> DEFINE op == events[u.event].operation
<1>3. op \in Operation /\ OpFits(op, u) /\ Done(u, op.kind)
  <2>1. events[u.event] \in Record
    BY <1>1, <1>2, RecordType
  <2> QED
    BY <1>1, <1>2, <2>1 DEF DialogInv, EventsOK, SameInteraction, Record, Done
<1>4. CASE op.kind # "SAVE"
  <2>1. Replies(w, ScreenOf(op))
    BY <1>4 DEF AnswerAgain
  <2>2. ScreenOf(op) \in Screens /\ Told(u, ScreenOf(op))
    BY <1>2, <1>3, ScreenFits, ScreenIsTold
  <2> QED
    BY <1>1, <2>1, <2>2, ReplyStep
<1>5. CASE op.kind = "SAVE"
  <2>1. PICK screen \in {"CLEARED"} \cup Steps : Replies(w, screen)
    BY <1>2, <1>5, ShownRows DEF AnswerAgain, Readable, Row
  <2>2. screen \in Screens /\ Told(u, screen)
    BY <1>3, <1>5 DEF Screens, Told, OpFits, Steps
  <2> QED
    BY <1>1, <2>1, <2>2, ReplyStep
<1> QED
  BY <1>4, <1>5

LEMMA GoOnStep ==
  ASSUME DialogInv, NEW w \in Workers, GoOn(w) PROVE DialogInv'
<1> DEFINE u == workers[w].update
           a == [kind |-> u.kind]
<1>1. ~In(w, "IDLE") /\ Handled
  BY DEF GoOn, In, Handled
<1>2. u \in Update
  BY <1>1 DEF DialogInv, WorkerOK
<1>3. CASE u.kind \in {"SELECT", "TEXT"}
  <2>1. Goes(w, "PREFLIGHT", None)
    BY <1>3 DEF GoOn
  <2> QED
    BY <1>1, <2>1, HandledKeeps, GoesStep
<1>4. CASE u.kind \notin {"SELECT", "TEXT"}
  <2>1. Goes(w, "READ", a)
    BY <1>4 DEF GoOn
  <2>2. u.kind \in {"OPEN", "RESET", "SUBMIT"}
    BY <1>2, <1>4, UpdateKinds
  <2>3. a \in Action /\ ActFits(a, u)
    BY <2>2 DEF Action, ActFits
  <2> QED
    BY <1>1, <2>1, <2>3, HandledKeeps, GoesStep
<1> QED
  BY <1>3, <1>4

LEMMA ChooseStep ==
  ASSUME DialogInv, NEW w \in Workers, ChooseService(w) PROVE DialogInv'
<1> DEFINE u == workers[w].update
           a == [kind |-> "SELECT_SERVICE", body |-> u.body]
<1>1. ~In(w, "IDLE") /\ Handled /\ u.kind = "SELECT" /\ Goes(w, "READ", a)
  BY DEF ChooseService, In, Handled
<1>2. u \in Update /\ u.body \in Options
  BY <1>1, UpdateKinds DEF DialogInv, WorkerOK
<1>3. a \in Action /\ ActFits(a, u)
  BY <1>1, <1>2 DEF Action, ActFits
<1> QED
  BY <1>1, <1>3, HandledKeeps, GoesStep

LEMMA ReadTextStep ==
  ASSUME DialogInv, NEW w \in Workers, ReadText(w) PROVE DialogInv'
<1> DEFINE u == workers[w].update
<1>1. /\ ~In(w, "IDLE") /\ PortKept /\ u.kind = "TEXT"
      /\ sent' = sent /\ pending' = pending
  BY DEF ReadText, In, PortKept
<1>2. u \in Update /\ u.body \in Texts /\ TypeOK
  BY <1>1, UpdateKinds DEF DialogInv, WorkerOK
<1>3. PICK screen \in Steps \cup {"SELECT_SERVICE"} :
        /\ asked' = [asked EXCEPT ![u.event] = IF @ = None THEN screen ELSE @]
        /\ IF Meaning(u.body, screen) = {}
           THEN workers' = [workers EXCEPT ![w] = Idle]
           ELSE \E a \in Meaning(u.body, screen) : Goes(w, "READ", a)
  BY DEF ReadText
<1>4. asked' \in [Events -> Screens \cup {None}]
  BY <1>2, <1>3 DEF TypeOK, Screens
<1>5. CASE workers' = [workers EXCEPT ![w] = Idle]
  BY <1>1, <1>2, <1>4, <1>5, IdleMeans, QuietStep
<1>6. CASE \E a \in Meaning(u.body, screen) : Goes(w, "READ", a)
  <2>1. PICK a \in Meaning(u.body, screen) : Goes(w, "READ", a)
    BY <1>6
  <2>2. a \in Action /\ a.kind \in {"SET_REQUESTER", "SET_DETAILS"}
    BY <1>2 DEF Meaning, Action
  <2>3. ActFits(a, u)
    BY <1>1, <2>2 DEF ActFits
  <2> QED
    BY <1>1, <1>4, <2>1, <2>2, <2>3, GoesStep
<1> QED
  BY <1>3, <1>5, <1>6

LEMMA ReadStep ==
  ASSUME DialogInv, NEW w \in Workers, Read(w) PROVE DialogInv'
<1> DEFINE u == workers[w].update
           a == workers[w].action
<1>1. ~In(w, "IDLE") /\ Handled /\ In(w, "READ")
  BY DEF Read, In, Handled
<1>2. u \in Update /\ a \in Action /\ ActFits(a, u) /\ PortTypeOK
  BY <1>1 DEF DialogInv, WorkerOK, Port
<1>3. PICK c : Transition(w, a, c)
  BY DEF Read
<1>5. ASSUME a.kind = "OPEN", Replies(w, "SELECT_SERVICE")
      PROVE  DialogInv'
  <2>1. "SELECT_SERVICE" \in Screens /\ Told(u, "SELECT_SERVICE")
    BY <1>2, <1>5 DEF Screens, Told, ActFits, Steps
  <2> QED
    BY <1>1, <1>5, <2>1, ReplyStep
<1>6. ASSUME NEW n \in Nat, NEW s \in Steps, NEW x \in Answers,
             a.kind \in {"SELECT_SERVICE", "SET_REQUESTER", "SET_DETAILS"},
             Writes(w, SaveOf(n, s, x))
      PROVE  DialogInv'
  <2>1. SaveOf(n, s, x) \in Operation /\ SaveOf(n, s, x).kind = "SAVE"
    BY SaveOfType
  <2>2. OpFits(SaveOf(n, s, x), u)
    BY <1>2, <1>6, <2>1 DEF ActFits, OpFits
  <2> QED
    BY <1>1, <1>6, <2>1, <2>2, WritesStep
<1>7. ASSUME a.kind = "SELECT_SERVICE", a.body \in c.active,
             Writes(w, SaveOf(0, "REQUESTER", [option |-> a.body,
                                    name |-> None, details |-> None]))
      PROVE  DialogInv'
  <2>1. a.body \in Options
    BY <1>2, <1>7 DEF Action
  <2>2. [option |-> a.body, name |-> None, details |-> None] \in Answers
    BY <2>1 DEF Answers
  <2> QED
    BY <1>6, <1>7, <2>2 DEF Steps
<1>8. ASSUME NEW d \in Readable(c), a.kind = "SET_REQUESTER",
             Writes(w, SaveOf(d.version, "DETAILS",
                              [d.answers EXCEPT !.name = a.body]))
      PROVE  DialogInv'
  <2>1. d.version \in Nat /\ d.answers \in Answers
    BY <1>2, <1>8, ShownRows DEF Readable
  <2>2. a.body \in Texts
    BY <1>2, <1>8 DEF Action
  <2>3. [d.answers EXCEPT !.name = a.body] \in Answers
    BY <2>1, <2>2 DEF Answers
  <2> QED
    BY <1>6, <1>8, <2>1, <2>3 DEF Steps
<1>9. ASSUME NEW d \in Readable(c), a.kind = "SET_DETAILS",
             Writes(w, SaveOf(d.version, "REVIEW",
                              [d.answers EXCEPT !.details = a.body]))
      PROVE  DialogInv'
  <2>1. d.version \in Nat /\ d.answers \in Answers
    BY <1>2, <1>9, ShownRows DEF Readable
  <2>2. a.body \in Texts
    BY <1>2, <1>9 DEF Action
  <2>3. [d.answers EXCEPT !.details = a.body] \in Answers
    BY <2>1, <2>2 DEF Answers
  <2> QED
    BY <1>6, <1>9, <2>1, <2>3 DEF Steps
<1>10. \A d \in Readable(c) : d.version \in Nat \ {0} /\ d.answers \in Answers
  <2>1. ASSUME NEW d \in Readable(c) PROVE d.version # 0
    <3>1. PICK i \in DOMAIN drafts : d = drafts[i]
      BY <2>1 DEF Readable, Shown, LiveDrafts, OpenDrafts
    <3> QED
      BY <3>1 DEF DialogInv, Port, RowsMoved
  <2> QED
    BY <1>2, <2>1, ShownRows DEF Readable
<1>11. ASSUME NEW d \in Readable(c), a.kind = "RESET",
              Writes(w, [kind |-> "RESET", expected |-> d.version])
       PROVE  DialogInv'
  <2> DEFINE op == [kind |-> "RESET", expected |-> d.version]
  <2>1. op \in Operation /\ OpFits(op, u)
    BY <1>2, <1>10, <1>11 DEF Operation, Reset, OpFits, ActFits
  <2> QED
    BY <1>1, <1>11, <2>1, WritesStep
<1>12. ASSUME NEW d \in Readable(c), a.kind = "SUBMIT",
              Writes(w, [kind |-> "SUBMIT", expected |-> d.version,
                         answers |-> d.answers])
       PROVE  DialogInv'
  <2> DEFINE op == [kind |-> "SUBMIT", expected |-> d.version,
                    answers |-> d.answers]
  <2>1. op \in Operation /\ OpFits(op, u)
    BY <1>2, <1>10, <1>12 DEF Operation, Submit, OpFits, ActFits
  <2> QED
    BY <1>1, <1>12, <2>1, WritesStep
<1> QED
  BY <1>3, <1>5, <1>7, <1>8, <1>9, <1>11, <1>12 DEF Transition

\* What the transaction of the port leaves behind: the operation is recorded
\* for this update, now or since an earlier delivery.
LEMMA WriteStores ==
  ASSUME DialogInv, NEW w \in Workers, Write(w),
         NEW u, u = workers[w].update, NEW op, op = workers[w].operation
  PROVE  /\ u \in Update /\ op \in Operation /\ OpFits(op, u)
         /\ Port' /\ PortGrows /\ EventsOK' /\ Done(u, op.kind)'
<1>1. /\ u \in Update /\ u.event \in Events /\ u \in Markers
      /\ op \in Operation /\ OpFits(op, u)
      /\ workers[w].since \in Nat
  <2>1. workers[w] \in Worker /\ WorkerOK(w) /\ In(w, "WRITE")
    BY DEF DialogInv, TypeOK, Write
  <2>2. u \in Update /\ op \in Operation /\ OpFits(op, u)
    BY <2>1 DEF WorkerOK, In
  <2> QED
    BY <2>1, <2>2, UpdateKinds DEF Worker
<1>2. Port /\ PortTypeOK /\ OneOpenDraft /\ EventsOK /\ clock \in Nat
  BY DEF DialogInv, Port, History, PortTypeOK
<1>3. ASSUME NEW now \in workers[w].since..clock, Accept(u.event, op, u, now)
      PROVE  Port' /\ PortGrows /\ EventsOK' /\ Done(u, op.kind)'
  <2>1. now \in 0..clock /\ now \in Nat
    BY <1>1, <1>2
  <2>2. Port' /\ PortGrows
    BY <1>1, <1>2, <1>3, <2>1, AcceptPort
  <2>3. /\ Recorded(u.event)'
        /\ events'[u.event].operation = op /\ events'[u.event].marker = u
        /\ \A f \in Events \ {u.event} : events'[f] = events[f]
    BY <1>1, <1>2, <1>3, <2>1, AcceptStores
  <2>4. EventsOK'
    BY <1>1, <1>2, <2>3 DEF EventsOK, Recorded
  <2> QED
    BY <2>2, <2>3, <2>4 DEF Done
<1>4. ASSUME Recorded(u.event), ReplayVerdict(u.event, op) = "REPLAYED",
             UNCHANGED portVars
      PROVE  Port' /\ PortGrows /\ EventsOK' /\ Done(u, op.kind)'
  <2>1. Port' /\ PortGrows /\ EventsOK'
    BY <1>2, <1>4, KeptPort DEF PortKept, portVars
  <2>2. events[u.event].operation = op
    BY <1>4 DEF ReplayVerdict
  <2> QED
    BY <1>1, <1>4, <2>1, <2>2 DEF Done, PortGrows
<1> QED
  BY <1>1, <1>3, <1>4 DEF Write

LEMMA WriteStep ==
  ASSUME DialogInv, NEW w \in Workers, Write(w) PROVE DialogInv'
<1> PICK u : u = workers[w].update
  OBVIOUS
<1> PICK op : op = workers[w].operation
  OBVIOUS
<1>1. /\ TypeOK /\ Replies(w, ScreenOf(op))
      /\ sent' = sent /\ pending' = pending
      /\ asked' \in [Events -> Screens \cup {None}]
  BY DEF Write, DialogInv, TypeOK
<1>2. /\ u \in Update /\ op \in Operation /\ OpFits(op, u)
      /\ Port' /\ PortGrows /\ EventsOK' /\ Done(u, op.kind)'
  BY WriteStores
<1>3. ScreenOf(op) \in Screens
  BY <1>2, ScreenFits
<1>4. /\ workers' \in [Workers -> Worker] /\ OneWorker(w)
      /\ workers'[w].phase = "SEND" /\ workers'[w].reply = ScreenOf(op)
      /\ workers'[w].update = u
  BY <1>1, <1>3, RepliesMeans
<1>5. WorkerOK(w)'
  BY <1>2, <1>4 DEF WorkerOK, In
<1>6. Told(workers[w].update, workers[w].reply)'
  <2>1. u.event \in Events
    BY <1>2, UpdateKinds
  <2>2. op.kind = "SUBMIT" => \E q \in inquiries' : q.event = u.event
    BY <1>2, <2>1 DEF Done, Port, InquiriesAreSubmitted
  <2>3. Told(u, ScreenOf(op))'
    BY <1>2, <2>2, ScreenFits DEF Told, Done, OpFits, Steps
  <2>4. workers'[w].reply = ScreenOf(op) /\ workers'[w].update = u
    BY <1>4
  <2> QED
    BY <2>3, <2>4 DEF Told, Done
<1> QED
  BY <1>1, <1>2, <1>4, <1>5, <1>6, WorkerStep

LEMMA AcknowledgeStep ==
  ASSUME DialogInv, NEW w \in Workers, Acknowledge(w) PROVE DialogInv'
<1> DEFINE u == workers[w].update
<1>1. /\ PortKept /\ sent' = sent /\ pending' = pending \ {u}
      /\ asked' \in [Events -> Screens \cup {None}]
      /\ workers' = [workers EXCEPT ![w] = Idle] /\ TypeOK
  BY DEF Acknowledge, DialogInv, TypeOK, PortKept
<1>2. u.kind = "OPEN" \/ Recorded(u.event)
  BY DEF Acknowledge, DialogInv, AllTold, Told, Done
<1>3. Port' /\ PortGrows /\ EventsOK'
  BY <1>1, KeptPort DEF DialogInv
<1>4. /\ workers' \in [Workers -> Worker] /\ OneWorker(w)
      /\ WorkerOK(w)' /\ ~In(w, "SEND")'
  BY <1>1, IdleMeans
<1> QED
  BY <1>1, <1>2, <1>3, <1>4, WorkerStep

LEMMA FailStep ==
  ASSUME DialogInv, NEW w \in Workers, Fail(w) PROVE DialogInv'
<1>1. Handled /\ workers' = [workers EXCEPT ![w] = Idle] /\ TypeOK
  BY DEF Fail, Handled, DialogInv
<1>2. /\ workers' \in [Workers -> Worker] /\ OneWorker(w)
      /\ WorkerOK(w)' /\ ~In(w, "SEND")'
  BY <1>1, IdleMeans
<1> QED
  BY <1>1, <1>2, HandledKeeps, QuietStep

-----------------------------------------------------------------------------
(* The person and the world.                                                *)

\* Nothing of a delivery moves.
LEMMA StillWorkers ==
  ASSUME DialogInv, PortGrows, workers' = workers
  PROVE  (\A w \in Workers : WorkerOK(w)') /\ AllTold'
<1>1. \A w \in Workers : WorkerOK(w)'
  BY DEF DialogInv, WorkerOK, In
<1>2. ASSUME NEW w \in Workers, In(w, "SEND")'
      PROVE  Told(workers[w].update, workers[w].reply)'
  <2>1. /\ workers[w].update \in Update
        /\ Told(workers[w].update, workers[w].reply)
    BY <1>2 DEF DialogInv, WorkerOK, AllTold, In
  <2>2. \A r : \A u \in Update : Told(u, r) => Told(u, r)'
    BY TellStays
  <2> QED
    BY <2>1, <2>2 DEF Told, Done
<1> QED
  BY <1>1, <1>2 DEF AllTold

LEMMA SendStep ==
  ASSUME DialogInv, SendUpdate PROVE DialogInv'
<1>1. PICK u \in Update : sent' = sent \cup {u} /\ pending' = pending \cup {u}
  BY DEF SendUpdate
<1>2. PortKept /\ workers' = workers /\ asked' = asked
  BY DEF SendUpdate, PortKept
<1>3. Port' /\ PortGrows /\ EventsOK'
  BY <1>2, KeptPort DEF DialogInv
<1>4. (\A w \in Workers : WorkerOK(w)') /\ AllTold'
  BY <1>2, <1>3, StillWorkers
<1>5. TypeOK'
  BY <1>1, <1>2, <1>3 DEF DialogInv, TypeOK, Port
<1>6. AcknowledgedIsDone'
  BY <1>1, <1>2 DEF DialogInv, AcknowledgedIsDone, Recorded, PortKept
<1> QED
  BY <1>3, <1>4, <1>5, <1>6 DEF DialogInv

LEMMA WorldStep ==
  ASSUME DialogInv, World, UNCHANGED <<sent, pending, workers, asked>>
  PROVE  DialogInv'
<1>1. /\ Port' /\ PortGrows
      /\ \A e \in Events : Recorded(e)' => events'[e].marker = events[e].marker
  BY WorldPort DEF DialogInv
<1>2. EventsOK'
  <2>1. \A e \in Events : Recorded(e)' <=> Recorded(e)
    BY WorldKeeps DEF DialogInv, Port
  <2> QED
    BY <1>1, <2>1 DEF DialogInv, EventsOK, PortGrows
<1>3. (\A w \in Workers : WorkerOK(w)') /\ AllTold'
  BY <1>1, StillWorkers
<1>4. TypeOK'
  BY <1>1 DEF DialogInv, TypeOK, Port
<1>5. AcknowledgedIsDone'
  <2>1. ASSUME NEW u \in sent \ pending
        PROVE  u.kind = "OPEN" \/ Recorded(u.event)'
    <3>1. u.event \in Events
      BY UpdateKinds DEF DialogInv, TypeOK
    <3>2. u.kind = "OPEN" \/ Recorded(u.event)
      BY DEF DialogInv, AcknowledgedIsDone
    <3> QED
      BY <1>1, <3>1, <3>2 DEF PortGrows
  <2> QED
    BY <2>1 DEF AcknowledgedIsDone
<1> QED
  BY <1>1, <1>2, <1>3, <1>4, <1>5 DEF DialogInv

LEMMA StillStep ==
  ASSUME DialogInv, UNCHANGED vars PROVE DialogInv'
<1>1. PortKept /\ UNCHANGED <<sent, pending, workers, asked>>
  BY DEF vars, PortKept
<1>2. Port' /\ PortGrows /\ EventsOK'
  BY <1>1, KeptPort DEF DialogInv
<1>3. (\A w \in Workers : WorkerOK(w)') /\ AllTold'
  BY <1>1, <1>2, StillWorkers
<1>4. TypeOK'
  BY <1>1, <1>2 DEF DialogInv, TypeOK, Port
<1>5. AcknowledgedIsDone'
  BY <1>1 DEF DialogInv, AcknowledgedIsDone, Recorded, PortKept
<1> QED
  BY <1>2, <1>3, <1>4, <1>5 DEF DialogInv

-----------------------------------------------------------------------------
(* The theorems.                                                            *)

LEMMA DialogBegins == Init => DialogInv
<1> SUFFICES ASSUME Init PROVE DialogInv
  OBVIOUS
<1>1. PortTypeOK
  BY EmptySeq DEF Init, PortInit, PortTypeOK, Catalog
<1>2. DOMAIN drafts = {} /\ inquiries = {} /\ \A e \in Events : ~Recorded(e)
  BY EmptySeq DEF Init, PortInit, Recorded
<1>3. Port
  BY <1>1, <1>2 DEF Port, History, OneOpenDraft, OpenDrafts,
       VersionsAreHistory, DraftsEndOnce, AnswersExpire,
       ExpiryFollowsTheLastEvent, InquiriesAreSubmitted, RowsMoved
<1>4. Idle \in Worker /\ Idle.phase = "IDLE"
  BY DEF Idle, Worker, Phases
<1>5. \A w \in Workers : workers[w] = Idle
  BY DEF Init
<1>6. TypeOK
  BY <1>1, <1>4 DEF Init, TypeOK
<1>7. (\A w \in Workers : WorkerOK(w)) /\ AllTold
  BY <1>4, <1>5 DEF WorkerOK, AllTold, In
<1>8. EventsOK /\ AcknowledgedIsDone
  BY <1>2 DEF Init, EventsOK, AcknowledgedIsDone
<1> QED
  BY <1>3, <1>6, <1>7, <1>8 DEF DialogInv

LEMMA DialogKeeps == DialogInv /\ [Next]_vars => DialogInv'
<1> SUFFICES ASSUME DialogInv, [Next]_vars PROVE DialogInv'
  OBVIOUS
<1>1. ASSUME NEW w \in Workers, Handle(w) PROVE DialogInv'
  BY <1>1, DeliverStep, AnswerAgainStep, GoOnStep, ChooseStep, ReadTextStep,
     ReadStep, WriteStep, AcknowledgeStep, FailStep DEF Handle
<1> QED
  BY <1>1, SendStep, WorldStep, StillStep DEF Next

LEMMA DialogAlways == Spec => []DialogInv
  BY DialogBegins, DialogKeeps, PTL DEF Spec

\* Every reachable state of the dialog has its type (TypeOK).
THEOREM DialogTypes == Spec => []TypeOK
<1>1. DialogInv => TypeOK
  BY DEF DialogInv
<1> QED
  BY <1>1, DialogAlways, PTL

\* Whatever is delivered twice, late, at once or under a used identifier,
\* and wherever handling stops: a screen that is sent says what is stored
\* for the sender (RepliesAreTrue).
THEOREM RepliesCorrect == Spec => []RepliesAreTrue
<1>1. DialogInv => RepliesAreTrue
  BY RepliesAreTold DEF DialogInv
<1> QED
  BY <1>1, DialogAlways, PTL

\* Telegram never forgets an update whose effect is not stored
\* (AcknowledgedIsDone).
THEOREM AcknowledgedCorrect == Spec => []AcknowledgedIsDone
<1>1. DialogInv => AcknowledgedIsDone
  BY DEF DialogInv
<1> QED
  BY <1>1, DialogAlways, PTL

\* The port keeps its promises under this adapter: a dialog has one open
\* draft at most, its versions are its history, nothing follows its end, old
\* answers are not continued, and inquiries are what was submitted.
THEOREM PortUnderDialog ==
  Spec => /\ []OneOpenDraft /\ []VersionsAreHistory /\ []DraftsEndOnce
          /\ []AnswersExpire /\ []InquiriesAreSubmitted
<1>1. DialogInv => /\ OneOpenDraft /\ VersionsAreHistory /\ DraftsEndOnce
                   /\ AnswersExpire /\ InquiriesAreSubmitted
  BY DEF DialogInv, Port, History
<1> QED
  BY <1>1, DialogAlways, PTL

-----------------------------------------------------------------------------
(* The conversation.                                                        *)

\* The answers that a step has, the version at which it comes.
Fits(step, version, a) ==
  \/ step = "REQUESTER" /\ version = 1 /\ a.name = None /\ a.details = None
  \/ step = "DETAILS" /\ version = 2 /\ a.name \in Texts /\ a.details = None
  \/ step = "REVIEW" /\ version = 3 /\ Completed(a)

DraftsFitTheirStep ==
  \A i \in OpenDrafts :
    Fits(drafts[i].step, drafts[i].version, drafts[i].answers)

\* An operation fits the version that it expects, whatever draft has it by
\* the time it is accepted.
OpContinues(op) ==
  /\ op.kind = "SAVE" => Fits(op.step, op.expected + 1, op.answers)
  /\ op.kind = "SUBMIT" => op.expected = 3 /\ Completed(op.answers)

Continues(w) ==
  /\ In(w, "READ") /\ workers[w].action.kind = "SET_DETAILS"
       => workers[w].action.body \in DetailTexts
  /\ In(w, "WRITE") => OpContinues(workers[w].operation)

ConversationInv ==
  DialogInv /\ DraftsFitTheirStep /\ \A w \in Workers : Continues(w)

\* The one open row is the last, and gives way to another row.
LEMMA OpenRowMoves ==
  ASSUME PortTypeOK, OneOpenDraft, NEW i \in OpenDrafts, NEW row \in Row,
         drafts' = [drafts EXCEPT ![i] = row]
  PROVE  /\ OpenDrafts = {i} /\ Stage = drafts[i].step
         /\ drafts'[i] = row
         /\ row.open => OpenDrafts' = {i} /\ Stage' = row.step
         /\ ~row.open => OpenDrafts' = {} /\ Stage' = "NONE"
<1>1. i \in DOMAIN drafts /\ i = Len(drafts) /\ OpenDrafts = {i}
  BY DEF OneOpenDraft, OpenDrafts
<1>2. /\ DOMAIN drafts' = DOMAIN drafts /\ Len(drafts') = Len(drafts)
      /\ drafts'[i] = row
      /\ \A j \in DOMAIN drafts \ {i} : drafts'[j] = drafts[j]
  <2>1. i \in 1..Len(drafts) /\ drafts \in Seq(Row)
    BY <1>1, RowsType DEF PortTypeOK
  <2>2. Len(drafts') = Len(drafts)
    BY <2>1, ExceptSeq
  <2> QED
    BY <1>1, <2>2
<1>3. \A j \in DOMAIN drafts \ {i} : ~drafts'[j].open
  BY <1>1, <1>2 DEF OpenDrafts
<1>4. row.open => OpenDrafts' = {i}
  BY <1>1, <1>2, <1>3 DEF OpenDrafts
<1>5. ~row.open => OpenDrafts' = {}
  BY <1>1, <1>2, <1>3 DEF OpenDrafts
<1> QED
  BY <1>1, <1>2, <1>4, <1>5 DEF Stage

LEMMA StartConverses ==
  ASSUME Port, NEW e \in Events, NEW op \in Operation, OpContinues(op),
         NEW k \in Markers, NEW now \in Nat, StartDraft(e, op, k, now)
  PROVE  DraftsFitTheirStep' /\ Conv!Begin
<1> DEFINE row == Saved(op, 1, now)
           n == Len(drafts) + 1
<1>1. /\ op.kind = "SAVE" /\ op.expected = 0 /\ inquiries' = inquiries
      /\ drafts' = Append(ExpiredClosed, row)
  BY DEF StartDraft
<1>2. row \in Row /\ row.open /\ row.version = 1
      /\ row.step = op.step /\ row.answers = op.answers
  BY <1>1, OperationKinds DEF Saved, Row
<1> HIDE DEF row
<1>3. PortTypeOK /\ ExpiredClosed \in Seq(Row)
      /\ Len(ExpiredClosed) = Len(drafts) /\ Len(drafts) \in Nat
      /\ DOMAIN drafts = 1..Len(drafts)
      /\ \A i \in DOMAIN drafts : ~ExpiredClosed[i].open
  BY ExpiredClosedType, RowsType DEF Port
<1>4. /\ Len(drafts') = n /\ DOMAIN drafts' = 1..n /\ drafts'[n] = row
      /\ \A i \in 1..Len(drafts) : drafts'[i] = ExpiredClosed[i]
  BY <1>1, <1>2, <1>3, AppendProperties, LenProperties
<1>5. OpenDrafts' = {n}
  BY <1>2, <1>3, <1>4 DEF OpenDrafts
<1>6. Fits(op.step, 1, op.answers)
  BY <1>1 DEF OpContinues
<1>7. DraftsFitTheirStep'
  BY <1>2, <1>4, <1>5, <1>6 DEF DraftsFitTheirStep
<1>8. op.step = "REQUESTER"
  BY <1>6 DEF Fits
<1> QED
  BY <1>1, <1>2, <1>4, <1>5, <1>7, <1>8 DEF Conv!Begin, Stage

LEMMA SaveConverses ==
  ASSUME Port, DraftsFitTheirStep, NEW e \in Events, NEW op \in Operation,
         OpContinues(op), NEW k \in Markers, NEW now \in Nat,
         SaveDraft(e, op, k, now)
  PROVE  DraftsFitTheirStep' /\ Conv!Answer
<1>1. op.kind = "SAVE" /\ inquiries' = inquiries
      /\ op.expected \in Nat /\ PortTypeOK /\ OneOpenDraft
  BY OperationKinds DEF SaveDraft, Port, History
<1>2. PICK i \in Expected(op, now) :
        drafts' = [drafts EXCEPT ![i] = Saved(op, op.expected + 1, now)]
  BY DEF SaveDraft
<1> DEFINE row == Saved(op, op.expected + 1, now)
<1>3. row \in Row /\ row.open /\ row.version = op.expected + 1
      /\ row.step = op.step /\ row.answers = op.answers
  BY <1>1, OperationKinds DEF Saved, Row
<1>4. i \in OpenDrafts /\ drafts[i].version = op.expected
  BY DEF Expected, LiveDrafts
<1>5. drafts' = [drafts EXCEPT ![i] = row]
  BY <1>2
<1> HIDE DEF row
<1>6. /\ OpenDrafts' = {i} /\ drafts'[i] = row
      /\ Stage = drafts[i].step /\ Stage' = row.step
  BY <1>1, <1>3, <1>4, <1>5, OpenRowMoves
<1>7. Fits(op.step, op.expected + 1, op.answers)
  BY <1>1 DEF OpContinues
<1>8. DraftsFitTheirStep'
  BY <1>3, <1>6, <1>7 DEF DraftsFitTheirStep
<1>9. Fits(drafts[i].step, op.expected, drafts[i].answers)
  BY <1>4 DEF DraftsFitTheirStep
<1>10. \/ Stage = "REQUESTER" /\ Stage' = "DETAILS"
       \/ Stage = "DETAILS" /\ Stage' = "REVIEW"
  BY <1>1, <1>3, <1>6, <1>7, <1>9 DEF Fits
<1> QED
  BY <1>1, <1>8, <1>10 DEF Conv!Answer

\* A draft that is closed leaves no open draft.
LEMMA ClosedConverses ==
  ASSUME Port, DraftsFitTheirStep, NEW op \in Operation, NEW now \in Nat,
         NEW i \in Expected(op, now), Closed(i)
  PROVE  /\ DraftsFitTheirStep' /\ Stage' = "NONE"
         /\ Fits(Stage, op.expected, drafts[i].answers)
<1> DEFINE row == [drafts[i] EXCEPT !.open = FALSE,
                                    !.version = drafts[i].version + 1]
<1>1. /\ PortTypeOK /\ OneOpenDraft
      /\ i \in OpenDrafts /\ drafts[i].version = op.expected
  BY DEF Port, History, Expected, LiveDrafts
<1>2. /\ i \in DOMAIN drafts /\ drafts[i] \in Row
      /\ drafts[i].version + 1 \in Nat
  BY <1>1, RowsType DEF OpenDrafts, Row
<1>3. row \in Row /\ ~row.open
  BY <1>2 DEF Row
<1>4. drafts' = [drafts EXCEPT ![i] = row]
  BY <1>2 DEF Closed, Row
<1> HIDE DEF row
<1>5. OpenDrafts' = {} /\ Stage' = "NONE" /\ Stage = drafts[i].step
  BY <1>1, <1>3, <1>4, OpenRowMoves
<1> QED
  BY <1>1, <1>5 DEF DraftsFitTheirStep

LEMMA AcceptConverses ==
  ASSUME Port, DraftsFitTheirStep, NEW e \in Events, NEW op \in Operation,
         OpContinues(op), NEW k \in Markers, NEW now \in 0..clock,
         Accept(e, op, k, now)
  PROVE  DraftsFitTheirStep' /\ Conv!Next
<1>1. now \in Nat /\ PortTypeOK
  BY DEF Port, PortTypeOK
<1>2. CASE StartDraft(e, op, k, now)
  BY <1>1, <1>2, StartConverses DEF Conv!Next
<1>3. CASE SaveDraft(e, op, k, now)
  BY <1>1, <1>3, SaveConverses DEF Conv!Next
<1>4. CASE ResetDraft(e, op, k, now)
  <2>1. PICK i \in Expected(op, now) : Closed(i)
    BY <1>4 DEF ResetDraft
  <2>2. /\ DraftsFitTheirStep' /\ Stage' = "NONE"
        /\ Fits(Stage, op.expected, drafts[i].answers)
    BY <1>1, <2>1, ClosedConverses
  <2>3. Stage # "NONE" /\ inquiries' = inquiries
    BY <1>4, <2>2 DEF Fits, ResetDraft
  <2> QED
    BY <2>2, <2>3 DEF Conv!GiveUp, Conv!Next
<1>5. CASE SubmitInquiry(e, op, k, now)
  <2> DEFINE q == [event |-> e, answers |-> op.answers, received_at |-> now]
  <2>1. PICK i \in Expected(op, now) : Closed(i)
    BY <1>5 DEF SubmitInquiry
  <2>2. /\ DraftsFitTheirStep' /\ Stage' = "NONE"
        /\ Fits(Stage, op.expected, drafts[i].answers)
    BY <1>1, <2>1, ClosedConverses
  <2>3. op.kind = "SUBMIT" /\ op.expected = 3 /\ Completed(op.answers)
        /\ op.answers \in Answers
    BY <1>5, OperationKinds DEF SubmitInquiry, OpContinues
  <2>4. Stage = "REVIEW"
    BY <2>2, <2>3 DEF Fits
  <2>5. inquiries' = inquiries \cup {q} /\ q.event = e
        /\ q \in Inquiry /\ Completed(q.answers)
    BY <1>1, <1>5, <2>3 DEF SubmitInquiry, Inquiry
  <2> HIDE DEF q
  <2>6. q \notin inquiries
    <3>1. ~Recorded(e)
      BY DEF Accept
    <3> QED
      BY <2>5, <3>1 DEF Port, InquiriesAreSubmitted
  <2> QED
    BY <2>2, <2>4, <2>5, <2>6 DEF Conv!File, Conv!Next
<1> QED
  BY <1>2, <1>3, <1>4, <1>5 DEF Accept

LEMMA RepliesEnd ==
  ASSUME TypeOK, NEW w \in Workers, NEW screen, Replies(w, screen)
  PROVE  OneWorker(w) /\ Continues(w)'
BY DEF TypeOK, Worker, Replies, OneWorker, Continues, In

LEMMA IdleEnds ==
  ASSUME TypeOK, NEW w \in Workers, workers' = [workers EXCEPT ![w] = Idle]
  PROVE  OneWorker(w) /\ Continues(w)'
BY DEF TypeOK, Idle, OneWorker, Continues, In

LEMMA GoesContinues ==
  ASSUME TypeOK, NEW w \in Workers, NEW phase \in {"PREFLIGHT", "READ"},
         NEW action \in Action \cup {None}, Goes(w, phase, action),
         phase = "READ" /\ action.kind = "SET_DETAILS"
           => action.body \in DetailTexts
  PROVE  OneWorker(w) /\ Continues(w)'
<1>1. /\ OneWorker(w)
      /\ workers'[w].phase = phase /\ workers'[w].action = action
  BY GoesMeans DEF Phases
<1> QED
  BY <1>1 DEF Continues, In

LEMMA WritesContinues ==
  ASSUME TypeOK, NEW w \in Workers, NEW op \in Operation, OpContinues(op),
         Writes(w, op)
  PROVE  OneWorker(w) /\ Continues(w)'
<1>1. /\ OneWorker(w)
      /\ workers'[w].phase = "WRITE" /\ workers'[w].operation = op
  BY WritesMeans
<1> QED
  BY <1>1 DEF Continues, In

\* What the transition asks for fits the draft that it has read.
LEMMA ReadContinues ==
  ASSUME ConversationInv, NEW w \in Workers, Read(w)
  PROVE  OneWorker(w) /\ Continues(w)'
<1> DEFINE a == workers[w].action
<1>1. /\ In(w, "READ") /\ a \in Action /\ TypeOK /\ PortTypeOK
      /\ a.kind = "SET_DETAILS" => a.body \in DetailTexts
  BY DEF Read, ConversationInv, DialogInv, WorkerOK, Continues, Port
<1>2. PICK c : Transition(w, a, c)
  BY DEF Read
<1>3. ASSUME NEW d \in Readable(c)
      PROVE  /\ d.version \in Nat \ {0} /\ d.answers \in Answers
             /\ Fits(d.step, d.version, d.answers)
  <2>1. d.version \in Nat /\ d.answers \in Answers
    BY <1>1, <1>3, ShownRows DEF Readable
  <2>2. PICK i \in OpenDrafts : d = drafts[i]
    BY <1>3 DEF Readable, Shown, LiveDrafts
  <2>3. Fits(d.step, d.version, d.answers)
    BY <2>2 DEF ConversationInv, DraftsFitTheirStep
  <2> QED
    BY <2>1, <2>3 DEF Fits
<1>4. ASSUME NEW n \in Nat, NEW s \in Steps, NEW x \in Answers,
             Fits(s, n + 1, x), Writes(w, SaveOf(n, s, x))
      PROVE  OneWorker(w) /\ Continues(w)'
  <2>1. SaveOf(n, s, x) \in Operation /\ OpContinues(SaveOf(n, s, x))
    BY <1>4, SaveOfType DEF OpContinues, SaveOf
  <2> QED
    BY <1>1, <1>4, <2>1, WritesContinues
<1>5. ASSUME a.kind = "SELECT_SERVICE",
             Writes(w, SaveOf(0, "REQUESTER", [option |-> a.body,
                                    name |-> None, details |-> None]))
      PROVE  OneWorker(w) /\ Continues(w)'
  <2> DEFINE x == [option |-> a.body, name |-> None, details |-> None]
  <2>1. a.body \in Options
    BY <1>1, <1>5 DEF Action
  <2>2. x \in Answers /\ Fits("REQUESTER", 0 + 1, x)
    BY <2>1 DEF Answers, Fits
  <2> QED
    BY <1>4, <1>5, <2>2 DEF Steps
<1>6. ASSUME NEW d \in Readable(c),
             a.kind = "SET_REQUESTER", d.step = "REQUESTER",
             Writes(w, SaveOf(d.version, "DETAILS",
                              [d.answers EXCEPT !.name = a.body]))
      PROVE  OneWorker(w) /\ Continues(w)'
  <2> DEFINE x == [d.answers EXCEPT !.name = a.body]
  <2>1. a.body \in Texts
    BY <1>1, <1>6 DEF Action
  <2>2. d.version = 1 /\ d.answers.details = None
    BY <1>3, <1>6 DEF Fits
  <2>3. x \in Answers /\ x.name = a.body /\ x.details = None
    BY <1>3, <2>1, <2>2 DEF Answers
  <2>4. Fits("DETAILS", d.version + 1, x)
    BY <2>1, <2>2, <2>3 DEF Fits
  <2> QED
    BY <1>3, <1>4, <1>6, <2>3, <2>4 DEF Steps
<1>7. ASSUME NEW d \in Readable(c),
             a.kind = "SET_DETAILS", d.step = "DETAILS",
             Writes(w, SaveOf(d.version, "REVIEW",
                              [d.answers EXCEPT !.details = a.body]))
      PROVE  OneWorker(w) /\ Continues(w)'
  <2> DEFINE x == [d.answers EXCEPT !.details = a.body]
  <2>1. a.body \in Texts /\ a.body \in DetailTexts
    BY <1>1, <1>7
  <2>2. d.version = 2 /\ d.answers.name \in Texts
    BY <1>3, <1>7 DEF Fits
  <2>3. x \in Answers /\ x.details = a.body /\ x.name = d.answers.name
    BY <1>3, <2>1 DEF Answers
  <2>4. Fits("REVIEW", d.version + 1, x)
    BY <2>1, <2>2, <2>3 DEF Fits, Completed
  <2> QED
    BY <1>3, <1>4, <1>7, <2>3, <2>4 DEF Steps
<1>8. ASSUME NEW d \in Readable(c),
             Writes(w, [kind |-> "RESET", expected |-> d.version])
      PROVE  OneWorker(w) /\ Continues(w)'
  <2> DEFINE op == [kind |-> "RESET", expected |-> d.version]
  <2>1. op \in Operation /\ OpContinues(op)
    BY <1>3, <1>8 DEF Operation, Reset, OpContinues
  <2> QED
    BY <1>1, <1>8, <2>1, WritesContinues
<1>9. ASSUME NEW d \in Readable(c), d \in Submittable(c),
             Writes(w, [kind |-> "SUBMIT", expected |-> d.version,
                        answers |-> d.answers])
      PROVE  OneWorker(w) /\ Continues(w)'
  <2> DEFINE op == [kind |-> "SUBMIT", expected |-> d.version,
                    answers |-> d.answers]
  <2>1. d.version = 3 /\ Completed(d.answers)
    BY <1>3, <1>9 DEF Fits, Submittable
  <2>2. op \in Operation /\ OpContinues(op)
    BY <1>3, <2>1 DEF Operation, Submit, OpContinues
  <2> QED
    BY <1>1, <1>9, <2>2, WritesContinues
<1> QED
  BY <1>1, <1>2, <1>5, <1>6, <1>7, <1>8, <1>9, RepliesEnd DEF Transition

LEMMA HandleContinues ==
  ASSUME ConversationInv, NEW w \in Workers, Handle(w)
  PROVE  \A x \in Workers : Continues(x)'
<1> DEFINE u == workers[w].update
<1>1. /\ TypeOK /\ workers \in [Workers -> Worker]
      /\ ~In(w, "IDLE") => u \in Update
      /\ \A x \in Workers : Continues(x)
  BY DEF ConversationInv, DialogInv, TypeOK, WorkerOK
<1>2. ASSUME Deliver(w) PROVE OneWorker(w) /\ Continues(w)'
  BY <1>1, <1>2 DEF Deliver, OneWorker, Continues, In, Idle
<1>3. ASSUME AnswerAgain(w) PROVE OneWorker(w) /\ Continues(w)'
  <2>1. \E screen : Replies(w, screen)
    BY <1>3 DEF AnswerAgain
  <2> QED
    BY <1>1, <2>1, RepliesEnd
<1>4. ASSUME GoOn(w) PROVE OneWorker(w) /\ Continues(w)'
  <2>1. u \in Update
    BY <1>1, <1>4 DEF GoOn, In
  <2>2. CASE u.kind \in {"SELECT", "TEXT"}
    BY <1>1, <1>4, <2>2, GoesContinues DEF GoOn
  <2>3. CASE u.kind \notin {"SELECT", "TEXT"}
    <3> DEFINE a == [kind |-> u.kind]
    <3>1. u.kind \in {"OPEN", "RESET", "SUBMIT"}
      BY <2>1, <2>3, UpdateKinds
    <3>2. a \in Action /\ a.kind # "SET_DETAILS" /\ Goes(w, "READ", a)
      BY <1>4, <2>3, <3>1 DEF Action, GoOn
    <3> QED
      BY <1>1, <3>2, GoesContinues
  <2> QED
    BY <2>2, <2>3
<1>5. ASSUME ChooseService(w) PROVE OneWorker(w) /\ Continues(w)'
  <2> DEFINE a == [kind |-> "SELECT_SERVICE", body |-> u.body]
  <2>1. u \in Update /\ u.kind = "SELECT" /\ Goes(w, "READ", a)
    BY <1>1, <1>5 DEF ChooseService, In
  <2>2. a \in Action /\ a.kind # "SET_DETAILS"
    BY <2>1, UpdateKinds DEF Action
  <2> QED
    BY <1>1, <2>1, <2>2, GoesContinues
<1>6. ASSUME ReadText(w) PROVE OneWorker(w) /\ Continues(w)'
  <2>1. u \in Update /\ u.kind = "TEXT" /\ u.body \in Texts
    BY <1>1, <1>6, UpdateKinds DEF ReadText, In
  <2>2. PICK screen :
          IF Meaning(u.body, screen) = {}
          THEN workers' = [workers EXCEPT ![w] = Idle]
          ELSE \E a \in Meaning(u.body, screen) : Goes(w, "READ", a)
    BY <1>6 DEF ReadText
  <2>3. ASSUME NEW a \in Meaning(u.body, screen), Goes(w, "READ", a)
        PROVE  OneWorker(w) /\ Continues(w)'
    <3>1. a \in Action /\ (a.kind = "SET_DETAILS" => a.body \in DetailTexts)
      BY <2>1, <2>3 DEF Meaning, Action
    <3> QED
      BY <1>1, <2>3, <3>1, GoesContinues
  <2> QED
    BY <1>1, <2>2, <2>3, IdleEnds
<1>7. ASSUME Write(w) PROVE OneWorker(w) /\ Continues(w)'
  BY <1>1, <1>7, RepliesEnd DEF Write
<1>8. ASSUME Acknowledge(w) \/ Fail(w) PROVE OneWorker(w) /\ Continues(w)'
  BY <1>1, <1>8, IdleEnds DEF Acknowledge, Fail
<1>9. OneWorker(w) /\ Continues(w)'
  BY <1>2, <1>3, <1>4, <1>5, <1>6, <1>7, <1>8, ReadContinues DEF Handle
<1> QED
  BY <1>1, <1>9 DEF OneWorker, Continues, In

LEMMA StillConverses ==
  ASSUME DraftsFitTheirStep, UNCHANGED <<drafts, inquiries>>
  PROVE  DraftsFitTheirStep' /\ UNCHANGED Conv!dialog
BY DEF DraftsFitTheirStep, OpenDrafts, Stage, Conv!dialog

LEMMA HandleConverses ==
  ASSUME ConversationInv, NEW w \in Workers, Handle(w)
  PROVE  DraftsFitTheirStep' /\ [Conv!Next]_(Conv!dialog)
<1>1. DraftsFitTheirStep
  BY DEF ConversationInv
<1>2. ASSUME Write(w)
      PROVE  DraftsFitTheirStep' /\ [Conv!Next]_(Conv!dialog)
  <2> DEFINE u == workers[w].update
             op == workers[w].operation
  <2>1. /\ u \in Update /\ u.event \in Events /\ u \in Markers
        /\ op \in Operation /\ OpContinues(op) /\ Port /\ clock \in Nat
        /\ workers[w].since \in Nat
    <3>1. workers[w] \in Worker /\ WorkerOK(w) /\ Continues(w)
          /\ In(w, "WRITE") /\ Port /\ clock \in Nat
      BY <1>2 DEF ConversationInv, DialogInv, TypeOK, PortTypeOK, Write
    <3>2. u \in Update /\ op \in Operation /\ OpContinues(op)
      BY <3>1 DEF WorkerOK, Continues, In
    <3> QED
      BY <3>1, <3>2, UpdateKinds DEF Worker
  <2>2. ASSUME NEW now \in workers[w].since..clock, Accept(u.event, op, u, now)
        PROVE  DraftsFitTheirStep' /\ [Conv!Next]_(Conv!dialog)
    <3>1. now \in 0..clock
      BY <2>1
    <3> QED
      BY <1>1, <2>1, <2>2, <3>1, AcceptConverses
  <2>3. CASE UNCHANGED portVars
    BY <1>1, <2>3, StillConverses DEF portVars
  <2> QED
    BY <1>2, <2>2, <2>3 DEF Write
<1>3. ASSUME UNCHANGED <<drafts, inquiries>>
      PROVE  DraftsFitTheirStep' /\ [Conv!Next]_(Conv!dialog)
  BY <1>1, <1>3, StillConverses
<1> QED
  BY <1>2, <1>3 DEF Handle, Deliver, AnswerAgain, GoOn, ChooseService, ReadText,
     Read, Acknowledge, Fail

LEMMA NextConverses ==
  ASSUME ConversationInv, [Next]_vars
  PROVE  ConversationInv' /\ [Conv!Next]_(Conv!dialog)
<1>1. DialogInv'
  BY DialogKeeps DEF ConversationInv
<1>2. ASSUME NEW w \in Workers, Handle(w)
      PROVE  ConversationInv' /\ [Conv!Next]_(Conv!dialog)
  BY <1>1, <1>2, HandleContinues, HandleConverses DEF ConversationInv
<1>3. ASSUME UNCHANGED <<drafts, inquiries, workers>>
      PROVE  ConversationInv' /\ [Conv!Next]_(Conv!dialog)
  <2>1. \A w \in Workers : Continues(w)'
    BY <1>3 DEF ConversationInv, Continues, In
  <2> QED
    BY <1>1, <1>3, <2>1, StillConverses DEF ConversationInv
<1>4. CASE World /\ UNCHANGED <<sent, pending, workers, asked>>
  <2>1. drafts' = drafts /\ inquiries' = inquiries
    BY <1>4, WorldKeeps DEF ConversationInv, DialogInv, Port
  <2> QED
    BY <1>3, <1>4, <2>1
<1> QED
  BY <1>2, <1>3, <1>4 DEF Next, SendUpdate, vars

LEMMA ConversationBegins ==
  Init => ConversationInv /\ Conv!Init
<1> SUFFICES ASSUME Init PROVE ConversationInv /\ Conv!Init
  OBVIOUS
<1>1. OpenDrafts = {} /\ inquiries = {}
  BY EmptySeq DEF Init, PortInit, OpenDrafts
<1>2. \A w \in Workers : Continues(w)
  BY DEF Init, Continues, In, Idle
<1>3. DraftsFitTheirStep
  BY <1>1 DEF DraftsFitTheirStep
<1> QED
  BY <1>1, <1>2, <1>3, DialogBegins
  DEF ConversationInv, Conv!Init, Stage

LEMMA ConversationAlways == Spec => []ConversationInv
<1>1. ConversationInv /\ [Next]_vars => ConversationInv'
  BY NextConverses
<1> QED
  BY <1>1, ConversationBegins, PTL DEF Spec

\* Whatever crosses, is repeated, expires or comes too late, the person is led
\* through the questions in their order, and an inquiry follows a review and
\* has all its answers (FollowsConversation).
THEOREM ConversationFollowed == Spec => FollowsConversation
<1>1. ConversationInv /\ [Next]_vars => [Conv!Next]_(Conv!dialog)
  BY NextConverses
<1> QED
  BY <1>1, ConversationAlways, PTL DEF Spec, FollowsConversation

\* From the first state on: the rows and the inquiries of a dialog implement
\* the abstract conversation.
THEOREM ConversationImplemented == Spec => Conv!Spec
<1>1. Spec => Conv!Init
  BY ConversationBegins DEF Spec
<1> QED
  BY <1>1, ConversationFollowed DEF Conv!Spec, FollowsConversation

\* A stored draft has exactly the answers its step asks for: the program never
\* calls a draft of its own corrupt (_validate_answers, CORRUPT_DRAFT), which
\* is why the readings of the module refuse a draft for its option only.
THEOREM DraftsAreNeverCorrupt == Spec => []DraftsFitTheirStep
<1>1. ConversationInv => DraftsFitTheirStep
  BY DEF ConversationInv
<1> QED
  BY <1>1, ConversationAlways, PTL

-----------------------------------------------------------------------------
(* The dialog as one of the adapters of the port.                           *)

\* Everything that deliveries, their crashes and their repetitions do to the
\* drafts is something the port allows to an adapter that may ask for every
\* operation: what is shown of PortSpec holds for this adapter.
THEOREM DialogIsAnAdapter ==
  ASSUME Operation \subseteq Operations
  PROVE  Spec => PortSpec
<1>1. Init => PortInit
  BY DEF Init
<1>2. DialogInv /\ [Next]_vars => [PortNext]_portVars
  <2> SUFFICES ASSUME DialogInv, [Next]_vars PROVE [PortNext]_portVars
    OBVIOUS
  <2>1. ASSUME NEW w \in Workers, Handle(w) PROVE [PortNext]_portVars
    <3>1. ASSUME Write(w) PROVE [PortNext]_portVars
      <4> DEFINE u == workers[w].update
                 op == workers[w].operation
      <4>1. /\ u.event \in Events /\ u \in Markers /\ op \in Operations
            /\ workers[w].since \in Nat /\ clock \in Nat
        <5>1. workers[w] \in Worker /\ clock \in Nat
              /\ u \in Update /\ op \in Operation
          BY <3>1 DEF DialogInv, TypeOK, PortTypeOK, WorkerOK, Write, In
        <5> QED
          BY <5>1, UpdateKinds DEF Worker
      <4>2. ASSUME NEW now \in workers[w].since..clock,
                   Accept(u.event, op, u, now)
            PROVE  PortNext
        <5>1. now \in 0..clock
          BY <4>1
        <5> QED
          BY <4>1, <4>2, <5>1 DEF PortNext
      <4> QED
        BY <3>1, <4>2 DEF Write
    <3>2. ASSUME ~Write(w) PROVE UNCHANGED portVars
      BY <2>1, <3>2 DEF Handle, Deliver, AnswerAgain, GoOn, ChooseService,
         ReadText, Read, Acknowledge, Fail, portVars
    <3> QED
      BY <3>1, <3>2
  <2> QED
    BY <2>1 DEF Next, SendUpdate, PortNext, vars, portVars
<1> QED
  BY <1>1, <1>2, DialogAlways, PTL DEF Spec, PortSpec
=============================================================================
