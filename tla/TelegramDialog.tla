--------------------------- MODULE TelegramDialog ---------------------------
(***************************************************************************)
(* The Telegram webhook over the port of ChannelDrafts: telegram_runtime,  *)
(* telegram_conversation and its resolvers, channel_conversation and       *)
(* channel_gateway, for one dialog of one person.                          *)
(*                                                                         *)
(* Telegram delivers an update until it is acknowledged, in any order and  *)
(* also while an earlier delivery is still being handled, perhaps by       *)
(* another process.  Handling one delivery takes several transactions:     *)
(*   REPLAY     is the event recorded already?                             *)
(*   PREFLIGHT  which screen is open (chosen services and texts only)      *)
(*   READ       the catalogue and the draft, and the transition            *)
(*   WRITE      the transaction of the port                                *)
(*   SEND       the message to the person, and the acknowledgement         *)
(* A refusal, a failure of the transport (HTTP 503) and a crash look the   *)
(* same to Telegram: the update is not acknowledged.                       *)
(***************************************************************************)
EXTENDS ChannelDrafts

CONSTANTS
  Workers,     \* deliveries handled at the same time
  DetailTexts, \* the texts that are a filled form of five lines
  Watched,     \* the submissions whose answers are followed
  MaxUpdates,  \* bound of the updates sent
  ReusedIds    \* whether Telegram may give an identifier to a second update

ASSUME DialogAssumption ==
  DetailTexts \subseteq Texts /\ ReusedIds \in BOOLEAN /\ MaxUpdates \in Nat

VARIABLES
  sent,     \* the updates of this dialog
  pending,  \* those that are not acknowledged
  workers,  \* the deliveries being handled
  asked     \* history: the screen on which a text was first tried

vars == <<clock, catalog, drafts, events, inquiries,
          sent, pending, workers, asked>>

Screens == Steps \cup {"SELECT_SERVICE", "CLEARED", "ACCEPTED"}
Phases == {"IDLE", "REPLAY", "PREFLIGHT", "READ", "WRITE", "SEND"}

\* An update: a command, a button or a text.  The button of a service names
\* a place in the catalogue of some version, hence an option.
Direct == [event : Events, kind : {"OPEN", "RESET", "SUBMIT"}]
Choice == [event : Events, kind : {"SELECT"}, body : Options,
           version : 0..MaxEdits]
Text == [event : Events, kind : {"TEXT"}, body : Texts]
Update == Direct \cup Choice \cup Text

\* The fingerprint is a digest of the whole interaction.
ASSUME MarkersAssumption == Update \subseteq Markers

ASSUME WatchedAssumption ==
  Watched \subseteq Direct /\ \A u \in Watched : u.kind = "SUBMIT"

Action == [kind : {"OPEN", "RESET", "SUBMIT"}]
          \cup [kind : {"SELECT_SERVICE"}, body : Options]
          \cup [kind : {"SET_REQUESTER", "SET_DETAILS"}, body : Texts]

\* offered: the catalogue at the last step; since: the time of the last read;
\* reply: the screen to be shown.
Worker == [phase : Phases, update : Update \cup {None},
           action : Action \cup {None}, operation : Operation \cup {None},
           offered : Catalog \cup {None}, since : Nat,
           reply : Screens \cup {None}]

Idle == [phase |-> "IDLE", update |-> None, action |-> None,
         operation |-> None, offered |-> None, since |-> 0, reply |-> None]

-----------------------------------------------------------------------------
(* What is read and what is made of it.                                     *)

In(w, phase) == workers[w].phase = phase

\* The draft of the dialog: none, or one row.
Shown == {drafts[i] : i \in LiveDrafts(clock)}

\* The catalogue is read before the draft, in a transaction of its own: it is
\* the present one or, if it was edited since the last step, the earlier one.
Offered(w) == {workers[w].offered, catalog}

\* The draft, if its option is offered (_validate_answers).
Readable(c) == {d \in Shown : d.answers.option \in c.active}

\* Mutant: the answers may be submitted at any step.
AtAnyStep(c) == Readable(c)

\* The draft, if all questions are answered.
Submittable(c) == {d \in Readable(c) : d.step = "REVIEW"}

\* The screen of the dialog; a catalogue that offers nothing is unavailable.
Opens(c, screen) ==
  /\ c.active # {}
  /\ \/ Shown = {} /\ screen = "SELECT_SERVICE"
     \/ \E d \in Readable(c) : screen = d.step

SaveOf(n, s, a) ==
  [kind |-> "SAVE", expected |-> n, step |-> s, answers |-> a]

Goes(w, phase, action) ==
  workers' = [workers EXCEPT ![w].phase = phase, ![w].action = action,
                             ![w].offered = catalog]

Writes(w, op) ==
  workers' = [workers EXCEPT ![w].phase = "WRITE", ![w].operation = op,
                             ![w].since = clock]

Replies(w, screen) ==
  workers' = [workers EXCEPT ![w].phase = "SEND", ![w].reply = screen]

\* Mutant: the kind of the operation is taken for a screen.
KindAsScreen(op) == op.kind

ScreenOf(op) ==
  CASE op.kind = "SAVE" -> op.step
    [] op.kind = "RESET" -> "CLEARED"
    [] op.kind = "SUBMIT" -> "ACCEPTED"

-----------------------------------------------------------------------------
(* One delivery.                                                            *)

Deliver(w) ==
  /\ In(w, "IDLE")
  /\ \E u \in pending :
       workers' = [workers EXCEPT ![w] =
         [Idle EXCEPT !.phase = "REPLAY", !.update = u, !.offered = catalog]]
  /\ UNCHANGED <<clock, catalog, drafts, events, inquiries,
                 sent, pending, asked>>

\* Mutant: the identifier of the event is trusted alone.
SameId(e, u) == TRUE

\* The record has the fingerprint of this very interaction, and its result.
SameInteraction(e, u) == events[e].marker = u /\ events[e].kept

\* Mutant: every repeated event is answered from the draft of now.
AnswerFromDraft(w) ==
  LET u == workers[w].update IN
  /\ In(w, "REPLAY")
  /\ Recorded(u.event)
  /\ SameInteraction(u.event, u)
  /\ \E d \in Readable(catalog) : Replies(w, d.step)
  /\ UNCHANGED <<clock, catalog, drafts, events, inquiries,
                 sent, pending, asked>>

\* A recorded event is answered again, a saved answer with the draft of now.
AnswerAgain(w) ==
  LET u == workers[w].update
      e == u.event IN
  /\ In(w, "REPLAY")
  /\ Recorded(e)
  /\ SameInteraction(e, u)
  /\ IF events[e].operation.kind # "SAVE"
     THEN Replies(w, ScreenOf(events[e].operation))
     ELSE \/ Shown = {} /\ Replies(w, "CLEARED")
          \/ \E d \in Readable(catalog) : Replies(w, d.step)
  /\ UNCHANGED <<clock, catalog, drafts, events, inquiries,
                 sent, pending, asked>>

GoOn(w) ==
  LET u == workers[w].update IN
  /\ In(w, "REPLAY")
  /\ ~Recorded(u.event)
  /\ IF u.kind \in {"SELECT", "TEXT"} THEN Goes(w, "PREFLIGHT", None)
     ELSE Goes(w, "READ", [kind |-> u.kind])
  /\ UNCHANGED <<clock, catalog, drafts, events, inquiries,
                 sent, pending, asked>>

\* A button of a catalogue that is still current; the draft must be readable.
ChooseService(w) ==
  LET u == workers[w].update IN
  /\ In(w, "PREFLIGHT") /\ u.kind = "SELECT"
  /\ \E c \in Offered(w) :
       /\ Shown = Readable(c)
       /\ u.version = c.version /\ u.body \in c.active
  /\ Goes(w, "READ", [kind |-> "SELECT_SERVICE", body |-> u.body])
  /\ UNCHANGED <<clock, catalog, drafts, events, inquiries,
                 sent, pending, asked>>

\* A text is taken for the answer to the screen that is open now.
Meaning(text, screen) ==
  IF screen = "REQUESTER" THEN {[kind |-> "SET_REQUESTER", body |-> text]}
  ELSE IF screen = "DETAILS" /\ text \in DetailTexts
  THEN {[kind |-> "SET_DETAILS", body |-> text]}
  ELSE {}

ReadText(w) ==
  LET u == workers[w].update IN
  /\ In(w, "PREFLIGHT") /\ u.kind = "TEXT"
  /\ \E c \in Offered(w), screen \in Steps \cup {"SELECT_SERVICE"} :
       /\ Opens(c, screen)
       /\ asked' = [asked EXCEPT ![u.event] = IF @ = None THEN screen ELSE @]
       /\ IF Meaning(u.body, screen) = {}
          THEN workers' = [workers EXCEPT ![w] = Idle]
          ELSE \E a \in Meaning(u.body, screen) : Goes(w, "READ", a)
  /\ UNCHANGED <<clock, catalog, drafts, events, inquiries, sent, pending>>

\* The transition of the conversation; whatever it does not allow is refused.
Transition(w, a, c) ==
  \/ /\ a.kind = "OPEN" /\ Opens(c, "SELECT_SERVICE")
     /\ Replies(w, "SELECT_SERVICE")
  \/ /\ a.kind = "SELECT_SERVICE" /\ Shown = {} /\ a.body \in c.active
     /\ Writes(w, SaveOf(0, "REQUESTER",
          [option |-> a.body, name |-> None, details |-> None]))
  \/ \E d \in Readable(c) :
       \/ /\ a.kind = "SET_REQUESTER" /\ d.step = "REQUESTER"
          /\ Writes(w, SaveOf(d.version, "DETAILS",
                              [d.answers EXCEPT !.name = a.body]))
       \/ /\ a.kind = "SET_DETAILS" /\ d.step = "DETAILS"
          /\ Writes(w, SaveOf(d.version, "REVIEW",
                              [d.answers EXCEPT !.details = a.body]))
       \/ /\ a.kind = "RESET"
          /\ Writes(w, [kind |-> "RESET", expected |-> d.version])
       \/ /\ a.kind = "SUBMIT" /\ d \in Submittable(c)
          /\ Writes(w, [kind |-> "SUBMIT", expected |-> d.version,
                        answers |-> d.answers])

Read(w) ==
  /\ In(w, "READ")
  /\ \E c \in Offered(w) : Transition(w, workers[w].action, c)
  /\ UNCHANGED <<clock, catalog, drafts, events, inquiries,
                 sent, pending, asked>>

\* The transaction of the port: accepted now, or accepted already.
Write(w) ==
  LET e == workers[w].update.event
      op == workers[w].operation IN
  /\ In(w, "WRITE")
  /\ \/ \E now \in workers[w].since..clock :
          Accept(e, op, workers[w].update, now)
     \/ /\ Recorded(e) /\ ReplayVerdict(e, op) = "REPLAYED"
        /\ UNCHANGED portVars
  /\ Replies(w, ScreenOf(op))
  /\ UNCHANGED <<sent, pending, asked>>

\* The message reached the person; the acknowledgement reaches Telegram, or
\* is lost.
Acknowledge(w) ==
  /\ In(w, "SEND")
  /\ pending' = pending \ {workers[w].update}
  /\ workers' = [workers EXCEPT ![w] = Idle]
  /\ UNCHANGED <<clock, catalog, drafts, events, inquiries, sent, asked>>

\* Mutant: a failure is acknowledged, so that Telegram stops asking.
Swallow(w) ==
  /\ ~In(w, "IDLE")
  /\ pending' = pending \ {workers[w].update}
  /\ workers' = [workers EXCEPT ![w] = Idle]
  /\ UNCHANGED <<clock, catalog, drafts, events, inquiries, sent, asked>>

\* A refusal, a failure of the transport, a crash, a lost acknowledgement.
Fail(w) ==
  /\ ~In(w, "IDLE")
  /\ workers' = [workers EXCEPT ![w] = Idle]
  /\ UNCHANGED <<clock, catalog, drafts, events, inquiries,
                 sent, pending, asked>>

-----------------------------------------------------------------------------
\* The person: any command, button or text at any time (external).
SendUpdate ==
  /\ Cardinality(sent) < MaxUpdates
  /\ \E u \in Update \ sent :
       /\ ReusedIds \/ \A v \in sent : v.event # u.event
       /\ u.kind = "SELECT" => u.version <= catalog.version
       /\ sent' = sent \cup {u}
       /\ pending' = pending \cup {u}
  /\ UNCHANGED <<clock, catalog, drafts, events, inquiries, workers, asked>>

Init ==
  /\ PortInit
  /\ sent = {} /\ pending = {}
  /\ workers = [w \in Workers |-> Idle]
  /\ asked = [e \in Events |-> None]

Handle(w) ==
  \/ Deliver(w) \/ AnswerAgain(w) \/ GoOn(w) \/ ChooseService(w)
  \/ ReadText(w) \/ Read(w) \/ Write(w) \/ Acknowledge(w) \/ Fail(w)

Next ==
  \/ \E w \in Workers : Handle(w)
  \/ SendUpdate
  \/ World /\ UNCHANGED <<sent, pending, workers, asked>>

Spec == Init /\ [][Next]_vars

\* Handling a delivery ends, somehow.  Telegram repeats what is not
\* acknowledged, and neither the transport nor the processes fail on one and
\* the same update for ever.
Fairness ==
  /\ \A w \in Workers : WF_vars(Handle(w))
  /\ \A u \in Watched :
       /\ SF_vars(\E w \in Workers : Deliver(w) /\ workers'[w].update = u)
       /\ SF_vars(\E w \in Workers : workers[w].update = u /\ AnswerAgain(w))
       /\ SF_vars(\E w \in Workers : workers[w].update = u /\ Acknowledge(w))

FairSpec == Spec /\ Fairness

-----------------------------------------------------------------------------
(* Properties.                                                              *)

\* Every update, delivery and history has its shape.
TypeOK ==
  /\ PortTypeOK
  /\ sent \subseteq Update /\ pending \subseteq sent
  /\ workers \in [Workers -> Worker]
  /\ asked \in [Events -> Screens \cup {None}]

\* What the person is told has happened, durably, and for what the person
\* did: also when the event was handled before, twice at once, or when its
\* identifier was used for something else (database.md, section 6).
RepliesAreTrue ==
  \A w \in Workers : In(w, "SEND") =>
    LET u == workers[w].update
        Done(kind) == Recorded(u.event)
                      /\ events[u.event].operation.kind = kind
    IN CASE workers[w].reply = "ACCEPTED" ->
              /\ u.kind = "SUBMIT" /\ Done("SUBMIT")
              /\ \E q \in inquiries : q.event = u.event
         [] workers[w].reply = "CLEARED" ->
              \/ u.kind = "RESET" /\ Done("RESET")
              \/ u.kind \in {"SELECT", "TEXT"} /\ Done("SAVE")
         [] workers[w].reply \in Steps ->
              u.kind \in {"SELECT", "TEXT"} /\ Done("SAVE")
         [] OTHER -> u.kind = "OPEN"

\* An update is acknowledged only after its effect is stored: Telegram never
\* forgets an answer that the draft does not have (database.md, section 6).
AcknowledgedIsDone ==
  \A u \in sent \ pending : u.kind = "OPEN" \/ Recorded(u.event)

\* The rows and the inquiries implement the conversation that the person is
\* led through: whatever crosses, is repeated, expires or comes too late, the
\* questions keep their order and an inquiry has all answers (_save,
\* _validate_answers).
Stage == IF OpenDrafts = {} THEN "NONE" ELSE drafts[Len(drafts)].step

Completed(a) == a.name \in Texts /\ a.details \in DetailTexts

Conv == INSTANCE Conversation WITH
  Complete <- {q \in Inquiry : Completed(q.answers)},
  stage <- Stage,
  filed <- inquiries

FollowsConversation == [][Conv!Next]_(Conv!dialog)

\* A repeated event is not taken for the answer to a later step (api.md,
\* section 5).
AnswersTheirQuestion ==
  \A u \in sent :
    u.kind = "TEXT" /\ Recorded(u.event) =>
      LET step == events[u.event].operation.step IN
        asked[u.event] = IF step = "DETAILS" THEN "REQUESTER" ELSE "DETAILS"

\* The check of the version keeps the transitions of a dialog in order
\* (api.md, section 5): what is saved to a draft continues that draft.
DraftsKeepTheirChoice ==
  \A e, f \in {x \in Events : Recorded(x)} :
    /\ events[e].row = events[f].row
    /\ events[e].operation.kind = "SAVE"
    /\ events[f].operation.kind = "SAVE"
    => events[e].operation.answers.option = events[f].operation.answers.option

\* A person whose inquiry was stored is told so in the end, although messages
\* fail, processes crash and the event is delivered again and again.
SubmissionsAreAnswered ==
  \A u \in Watched :
    (u \in pending /\ Recorded(u.event)) ~> u \notin pending
=============================================================================
