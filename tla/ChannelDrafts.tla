--------------------------- MODULE ChannelDrafts ---------------------------
(***************************************************************************)
(* The port behind the chat channels (channel_draft_persistence.py): the   *)
(* drafts of one dialog, the inquiries made of them, and the record of the *)
(* events that were accepted.  Its callers are trusted adapters, each in a *)
(* process of its own, and they read a draft in one transaction and write  *)
(* it in another; here they may send any operation at any time.            *)
(*                                                                         *)
(* Dialogs of different senders share only the catalogue and the set of    *)
(* event identifiers, so one dialog shows what the port does; the identity *)
(* of its sender exists before any operation (channel_identity.py).        *)
(***************************************************************************)
EXTENDS Naturals, Sequences, FiniteSets

CONSTANTS
  Events,      \* identifiers of external events
  Options,     \* service options
  Texts,       \* what a person can write
  Markers,     \* fingerprints of interactions
  Operations,  \* what adapters may ask for
  Lifetime,    \* how long an untouched draft lives (draft_ttl)
  MaxTime,     \* bound of the clock
  MaxEdits,    \* bound of the edits of the catalogue
  MaxRemoved,  \* bound of the results removed by retention
  None

ASSUME DraftsAssumption ==
  /\ Lifetime \in Nat \ {0} /\ MaxTime \in Nat
  /\ MaxEdits \in Nat /\ MaxRemoved \in Nat
  /\ None \notin Events \cup Options \cup Texts \cup Markers

VARIABLES
  clock,     \* the time of the servers
  catalog,   \* the version of the catalogue and its active options
  drafts,    \* the rows of conversation_drafts of this dialog, by age
  events,    \* channel_events with their receipts
  inquiries  \* the inquiries of this dialog

portVars == <<clock, catalog, drafts, events, inquiries>>

Catalog == [version : Nat, active : SUBSET Options]
Steps == {"REQUESTER", "DETAILS", "REVIEW"}
Answers == [option : Options, name : Texts \cup {None},
            details : Texts \cup {None}]
Row == [open : BOOLEAN, version : Nat, step : Steps, answers : Answers,
        expires_at : Nat]

\* What an adapter asks for: to save answers (version 0: a first draft), to
\* reset the draft, or to submit the answers as an inquiry.
Save == [kind : {"SAVE"}, expected : Nat, step : Steps, answers : Answers]
Reset == [kind : {"RESET"}, expected : Nat \ {0}]
Submit == [kind : {"SUBMIT"}, expected : Nat \ {0}, answers : Answers]
Operation == Save \cup Reset \cup Submit

ASSUME OperationsAssumption == Operations \subseteq Operation

\* An accepted event: its operation, the digest of its interaction, whether
\* its result is kept, and (history: no code reads them) when which draft
\* was moved to which version.
Record == [operation : Operation, marker : Markers, kept : BOOLEAN,
           accepted_at : Nat, row : Nat, version : Nat]

\* No record of an event looks like its absence.
ASSUME RecordsAssumption == None \notin Record

Inquiry == [event : Events, answers : Answers, received_at : Nat]

-----------------------------------------------------------------------------
(* Queries.                                                                 *)

\* Mutant: an event is forgotten with its result.
ForgottenEvent(e) == events[e] # None /\ events[e].kept

Recorded(e) == events[e] # None

OpenDrafts == {i \in DOMAIN drafts : drafts[i].open}

\* Mutant: a draft does not expire.
AnyAge(now) == OpenDrafts

\* The open draft that has not expired at a time; at most one.
LiveDrafts(now) == {i \in OpenDrafts : drafts[i].expires_at > now}

ReplayVerdict(e, op) ==
  IF events[e].operation # op THEN "IDEMPOTENCY_MISMATCH"
  ELSE IF ~events[e].kept THEN "RESULT_EXPIRED"
  ELSE "REPLAYED"

\* Mutant: the version is not compared.
AnyVersion(op, now) == LiveDrafts(now)

\* The live draft at the version that the caller has seen.
Expected(op, now) ==
  {i \in LiveDrafts(now) : drafts[i].version = op.expected}

-----------------------------------------------------------------------------
(* Operations.  Each is one transaction under the guard, and stores its     *)
(* event with its effect.  The time `now` was taken before the guard.       *)

Stored(e, op, k, now, i, v) ==
  events' = [events EXCEPT ![e] =
    [operation |-> op, marker |-> k, kept |-> TRUE, accepted_at |-> now,
     row |-> i, version |-> v]]

\* Mutant: the expired draft stays open beside the new one.
KeepExpired == drafts

ExpiredClosed == [i \in DOMAIN drafts |-> [drafts[i] EXCEPT !.open = FALSE]]

\* The open row that keeps the answers of a save.
Saved(op, v, now) ==
  [open |-> TRUE, version |-> v, step |-> op.step, answers |-> op.answers,
   expires_at |-> now + Lifetime]

StartDraft(e, op, k, now) ==
  /\ op.kind = "SAVE"
  /\ LiveDrafts(now) = {}
  /\ op.expected = 0
  /\ drafts' = Append(ExpiredClosed, Saved(op, 1, now))
  /\ Stored(e, op, k, now, Len(drafts) + 1, 1)
  /\ UNCHANGED inquiries

SaveDraft(e, op, k, now) ==
  /\ op.kind = "SAVE"
  /\ \E i \in Expected(op, now) :
       /\ drafts' = [drafts EXCEPT ![i] = Saved(op, op.expected + 1, now)]
       /\ Stored(e, op, k, now, i, op.expected + 1)
  /\ UNCHANGED inquiries

\* Mutant: the draft is closed without a new version.
CloseSameVersion(i) == drafts' = [drafts EXCEPT ![i].open = FALSE]

Closed(i) == drafts' = [drafts EXCEPT ![i].open = FALSE,
                                      ![i].version = @ + 1]

ResetDraft(e, op, k, now) ==
  /\ op.kind = "RESET"
  /\ \E i \in Expected(op, now) :
       Closed(i) /\ Stored(e, op, k, now, i, op.expected + 1)
  /\ UNCHANGED inquiries

SubmitInquiry(e, op, k, now) ==
  /\ op.kind = "SUBMIT"
  /\ op.answers.option \in catalog.active
  /\ \E i \in Expected(op, now) :
       Closed(i) /\ Stored(e, op, k, now, i, op.expected + 1)
  /\ inquiries' = inquiries \cup
       {[event |-> e, answers |-> op.answers, received_at |-> now]}

\* An event whose operation is accepted.  Every other outcome, a replay or an
\* error, rolls the transaction back and changes nothing.
Accept(e, op, k, now) ==
  /\ ~Recorded(e)
  /\ \/ StartDraft(e, op, k, now) \/ SaveDraft(e, op, k, now)
     \/ ResetDraft(e, op, k, now) \/ SubmitInquiry(e, op, k, now)
  /\ UNCHANGED <<clock, catalog>>

-----------------------------------------------------------------------------
(* The world around: time, the catalogue's editor, retention.               *)

Tick ==
  /\ clock < MaxTime
  /\ clock' = clock + 1
  /\ UNCHANGED <<catalog, drafts, events, inquiries>>

EditCatalog ==
  /\ catalog.version < MaxEdits
  /\ \E active \in SUBSET Options :
       catalog' = [version |-> catalog.version + 1, active |-> active]
  /\ UNCHANGED <<clock, drafts, events, inquiries>>

RemoveResult(e) ==
  /\ Recorded(e) /\ events[e].kept
  /\ Cardinality({f \in Events : Recorded(f) /\ ~events[f].kept})
       < MaxRemoved
  /\ events' = [events EXCEPT ![e].kept = FALSE]
  /\ UNCHANGED <<clock, catalog, drafts, inquiries>>

World == Tick \/ EditCatalog \/ \E e \in Events : RemoveResult(e)

PortInit ==
  /\ clock = 0
  /\ catalog = [version |-> 0, active |-> Options]
  /\ drafts = <<>>
  /\ events = [e \in Events |-> None]
  /\ inquiries = {}

PortNext ==
  \/ \E e \in Events, op \in Operations, k \in Markers, now \in 0..clock :
       Accept(e, op, k, now)
  \/ World

PortSpec == PortInit /\ [][PortNext]_portVars

-----------------------------------------------------------------------------
(* Properties.                                                              *)

\* Every row, event and inquiry has its shape.
PortTypeOK ==
  /\ clock \in Nat
  /\ catalog \in Catalog
  /\ drafts \in Seq(Row)
  /\ events \in [Events -> Record \cup {None}]
  /\ inquiries \subseteq Inquiry

\* A dialog has one open draft at most, the newest.
OneOpenDraft == \A i \in OpenDrafts : i = Len(drafts)

MovedTo(i, v) ==
  {e \in Events : Recorded(e) /\ events[e].row = i /\ events[e].version = v}

\* The versions of a draft are its history: each was made by one accepted
\* event, however often and in whatever order events were delivered, and no
\* event has an effect without being remembered (database.md, section 6).
VersionsAreHistory ==
  /\ \A i \in DOMAIN drafts : \A v \in 1..drafts[i].version :
       \E e \in Events : MovedTo(i, v) = {e}
  /\ \A e \in Events : Recorded(e) =>
       /\ events[e].row \in DOMAIN drafts
       /\ events[e].version \in 1..drafts[events[e].row].version

\* The event that reset or submitted a draft is the last in its history: a
\* draft becomes one inquiry at most, and none after it was reset.
DraftsEndOnce ==
  \A e \in Events :
    Recorded(e) /\ events[e].operation.kind \in {"RESET", "SUBMIT"} =>
      /\ ~drafts[events[e].row].open
      /\ events[e].version = drafts[events[e].row].version

\* Answers expire (database.md, section 9): whatever continues a draft was
\* accepted within its life, however late and in whatever order the calls
\* came; old answers are never revived, nor submitted.
AnswersExpire ==
  \A e, f \in Events :
    /\ Recorded(e) /\ Recorded(f)
    /\ events[e].row = events[f].row
    /\ events[f].version = events[e].version + 1
    => events[f].accepted_at < events[e].accepted_at + Lifetime

\* Inquiries and the events that submitted them correspond one to one.
InquiriesAreSubmitted ==
  /\ \A q \in inquiries :
       /\ Recorded(q.event)
       /\ events[q.event].operation.kind = "SUBMIT"
       /\ events[q.event].operation.answers = q.answers
  /\ \A e \in Events :
       Recorded(e) /\ events[e].operation.kind = "SUBMIT" =>
         \E q \in inquiries : q.event = e
  /\ \A p, q \in inquiries : p.event = q.event => p = q
=============================================================================
