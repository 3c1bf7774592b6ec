# A verification of the CRM "Sivka-Burka"

TLA+ models of the programs in this repository, the TLC configurations that
check them on small instances, and theorems that the TLA+ proof system (TLAPS)
checks for every value of the constants. File and line references are to the
repository. `PROJECT.json` maps every definition to its lines.

Contents: [inventory](#1-the-system) · [what is hard](#2-what-is-hard) ·
[modules](#3-the-modules) · [runs](#4-the-runs) ·
[bounds](#5-bounds-and-why-they-are-enough) ·
[fairness](#6-fairness-and-deadlock) · [proofs](#7-what-is-proved) ·
[disagreements](#8-where-code-and-documents-disagree) ·
[not modelled](#9-what-is-not-modelled) · [plan](#10-plan).

## 1. The system

A small CRM for a riding club: visitors send inquiries through a public form or
through a dialog in Telegram; the owner works on them in a web page; everything
is stored in PostgreSQL, where each operation is one transaction. Beside it the
repository holds the controller of its own development pipeline.

| Component | State | Operations | Talks to |
|---|---|---|---|
| Owner commands `owner_commands.py` | inquiries, visits, participations, cash notes, receipts of commands, change events | create a visit, start negotiation, confirm, complete, cancel, cash note, correction; each is idempotent under (path, key) and compares expected versions | called by the HTTP adapter; starts from rows that the two submissions insert |
| Public form `inquiries.py`, `public_submission.py` | submission tokens, receipts, inquiries | issue a token; submit | HTTP adapter; reads the catalogue |
| Channel drafts `channel_draft_persistence.py`, `channel_gateway.py` | drafts, channel events, inquiries | save, reset, submit, each idempotent under (dialog, event) and compared with the version of the draft; replay | called by the conversation; reads the catalogue |
| Channel identities | one row per person and channel | ensure | first step of every operation on drafts |
| Telegram dialog `telegram_runtime.py`, `telegram_conversation.py`, `channel_conversation.py`, resolvers | none of its own between deliveries; Telegram keeps what is not acknowledged | handle one update: replay, preflight, transition, write, message, acknowledge | Telegram Bot API; port of the drafts |
| Owner sessions `admin_sessions.py`, `provision_owner.py` | the owner account, sessions | provision, sign in (two transactions), check, read, sign out (three) | HTTP adapter, before every closed request |
| Read models `admin_inquiries.py`, `admin_visits.py`; public catalogue | none | one page of a list or of a month, after a cursor; projections | owner page, forms, dialog |
| Owner page `apps/web/owner/app.js` | per tab: CSRF token, hash, filters, cursors, month, `viewVersion`, `inquiryRequest`; shared: the cookie | load, sign in, sign out, open and close views, filter, page, take an answer | HTTP adapter |
| HTTP adapter `main.py` | none | parsing, origin checks, mapping of errors | all of the above |
| Notification outbox | tables only | none: no program reads or writes the jobs yet | – |
| Task pipeline `scripts/task.py`, `policy.py`, `executors.py` | `.pipeline/state.json`, lock file, Git worktrees and branches | create, ready, start, reconcile, run, handoff, validate, review, finish, cleanup, resume, drive | Git, a local model, the lead and implementers |

How the data components interact: a submission (form or channel) inserts a NEW
inquiry of version 1 with its change event, and from then on only owner commands
change it. A command moves the version of the inquiry and of every visit it
concerns, writes one change event linked to the inquiry and these visits, and
stores a receipt with the projection it returns. No two components share a
writable row apart from that handover, so each is modelled by a specification of
its own; the handover is the action `ReceiveInquiry` of `OwnerCommands`.

What makes each component correct:

* *Owner commands*: no lost update among commands composed from the same
  versions; status and links tell one story; every version is explained by one
  event; a key has one effect and one answer; outcomes are final; a member of a
  group does not disturb the others; each recorded cash fact counts once.
* *Public form*: one token, one inquiry, however often, under whatever keys and
  with whatever clock readings it is sent; a receipt always belongs to the
  contents its reader sent; a lost answer is recovered.
* *Channel drafts*: one open draft; each version made by one event; nothing
  after the end; expired answers are never revived; one inquiry per submission.
* *Telegram dialog*: what the person is told is true; what is acknowledged is
  stored; a stored submission is answered in the end; the questions are asked in
  their order, and an inquiry has all its answers.
* *Owner sessions*: an accepted session was opened with the password of now;
  each sign-out ends one session, once; what is asked after the end is refused.
* *Owner page*: what is shown is what was asked for last; nothing loads for
  ever; a month holds every visit, each once, though it is read in pages while
  visits are planned; a page of the list belongs to the filters that are set.
* *Task pipeline*: only what was reviewed is merged, onto the base it was reviewed
  against (which the code ensures up to a window in `finish`, section 8), after its
  dependencies, alone in its scope; "done" means merged; the local model is called
  a bounded number of times.

## 2. What is hard

`PROJECT.json` lists the hazards at their lines. The main groups:

* **Decisions on stale data.** Every operation decides from a version, a time or
  a catalogue read before its transaction. `inquiries.py` and
  `channel_draft_persistence.py` take the time *before* they wait for the guard,
  so transactions commit in an order in which their times go backwards.
* **Repeated, lost and concurrent requests.** Clients repeat a command whose
  answer was lost; Telegram repeats an update until it is acknowledged, also
  while an earlier delivery is running.
* **Several rows, one meaning.** A command writes up to seven rows in six tables
  and must keep status, links, versions, events and receipts in agreement.
* **Several transactions, one update.** The dialog reads the screen, the
  catalogue, and the draft separately, and writes later.
* **Late answers.** A view of the owner page is drawn when its answer comes; by
  then the owner may be in another view, or signed out. The page compares one of
  two counters, or nothing.
* **A cookie shared by tabs**, and a session that is checked in one transaction
  and used in another.
* **A process that stops** between a Git command and the save of the record, or
  between the commit and the message.
* **A lock that people do not take.** Files and branches change between the checks
  of a pipeline command and the Git commands that rely on them.

## 3. The modules

| Module | Models | Composed from |
|---|---|---|
| `InquiryLifecycle` | abstract: the lifecycle the owner is promised (`booking-flow.md` §2, as implemented) | – |
| `OwnerCommands` | owner commands, tables and clients | refines `InquiryLifecycle` |
| `PublicSubmission` | tokens, form submission, clients, network, clock | – |
| `ChannelDrafts` | the port of the drafts; also a specification of its own (`PortSpec`): *any* operation of any adapter | – |
| `Conversation` | abstract: the questions a person in a chat is led through (`_save` of `channel_conversation.py`) | – |
| `TelegramDialog` | webhook and conversation, step by step | extends `ChannelDrafts`, refines `Conversation` |
| `OwnerSessions` | account, sessions, and the browser's tabs that sign in and out | – |
| `OwnerPage` | the views of a tab, their requests, the reads behind them | extends `OwnerSessions` |
| `TaskPipeline` | the controller, worktrees, people | – |
| `MC...` | instances for TLC | the module each names |
| `OwnerCommandsProofs`, `ChannelDraftsProofs`, `OwnerSessionsProofs`, `PublicSubmissionProofs`, `TaskPipelineProofs` | theorems | extend the module each names |
| `OwnerLifecycleProofs` | theorems about `OwnerCommands` beyond its types | extends `OwnerCommandsProofs` |
| `OwnerPageProofs`, `TelegramDialogProofs` | theorems about the composed modules | extend the module and the proofs of the one below it |

**OwnerCommands.** Variables are the tables (`inquiries`, `visits`,
`participations`, `cashNotes`, `corrections`, `receipts`, `events`) and the
clients: slots with the request in flight (`requests`) and the last answer
(`replies`). A client composes a request from
the versions it can read *when it composes it*; the request is delivered later,
perhaps more than once. The transaction is one action per command; its guard is
the receipt lookup (`_replay`), then the checks of the command in the order of
the code (`...Verdict` operators return the first refusal), and its effects are
the writes, the projection stored in the receipt, and the change event. `Replay`
and `Reject` are the outcomes that write nothing. Every answer may be lost. A
transaction is one step because every transaction that writes first locks the
single row of `business_write_guard` (`owner_commands.py:177`, and likewise in the
other services) and holds it until it commits. `Careless` lets clients name no
version, or that of a wrong visit.

**PublicSubmission.** `Begin` takes the time; the transaction (`ReplayByKey`,
`ReplayByToken`, `Refuse`, `Accept`) runs later with that time. The token
`Forged` was never issued. `RemoveResult` is the retention of stored results.

**ChannelDrafts.** A dialog is the sequence `drafts` of all rows it ever had (the
code keeps them too: a draft that ends gets its `closed_at`, and at most one row is
open) and `events`, the record of each accepted event.
`Accept(e, op, k, now)` is one transaction of `save`/`reset`/`submit` with an
event, an expected version and a time `now` that may be any earlier one.

**TelegramDialog.** A worker handles one delivery in the phases REPLAY,
PREFLIGHT, READ, WRITE, SEND, one per transaction or external call of
`telegram_runtime.py`. Between them any other worker, the clock, and the
catalogue may move; a step that reads the catalogue sees the one at this step
or that at the one before. `Fail` is a refusal (HTTP 503), a failure of the Bot
API or a crash: to Telegram these are the same. To `Conversation` a dialog shows the
step of its open draft (`Stage`, or none) and its inquiries; an expired draft stays
on its stage until another one takes its place, as its row does.

**OwnerSessions.** A session is known by its number, for which the cookie, the
token and the CSRF secret are three unguessable names; a password by the version
of the credentials it fits. The row `account`, the table `sessions`, the
browser's `cookie`, and for each tab its `csrf` and `screen` are the state; a
request in flight records where it is between its transactions (`SENT`,
`CHECKED`, `RECHECKED`, `ANSWERED`). `ReadAccount` and `StoreSession` are the two
transactions of a sign-in, `Authorize`, `Recheck` and `Revoke` the three of a
sign-out, `Authorize` and `Execute` those of a command. `Lose` drops a request or
its answer; the server may go on. Expiry, a disabled account and changed
credentials come from outside.

**OwnerPage.** `pages` holds what a followed tab keeps (`s`, the hash and
`#content`), `fetches` the reads in flight, each under a number that no other has
(`Number`; the numbers are names and carry no order). The code compares a counter kept from
the time a read was sent with the counter of now; here a fetch is marked stale at
the moment its counter moves on (`NextVersion` for `viewVersion`, `Stale` with
`LIST` for `inquiryRequest`), and detached when its element leaves the page
(`isConnected`). A change of the hash and the event that tells the page of it
(`FollowLink`, `HashChanged`) are two steps, as in a browser. `InquiryRows` and
`VisitRows` are one page of the two queries with their cursors (`FirstOf` is
`ORDER BY ... LIMIT`); the calendar asks page after page (`AskMore`). Every handler of the sessions has its
counterpart here that also moves the views (`PageLoad`, `PageDeliver`,
`PageLose`). For tabs whose views are not followed, `ReadRefused` stands for a
read that was answered 401. Which tabs are used, and how often each act may
happen, is a scenario in the variable `left`: one bound per kind of act.

**TaskPipeline.** Each command is the sequence of its effects on Git and on the
saved records (`ctl` says which comes next); `Crash` may end it at any of them.
The content of a task is its difference from the base: a passing or a failing
one. `drive` only calls the other commands, so it adds no behaviour. `Edit`,
`CommitWork`, `CommitLead`, `RemoveOrphan` are people, and since the lock excludes
controllers only, they act at any moment. What a command found is therefore not
always what it uses: `validate` takes a snapshot, runs the gates and takes a second
one (`task.py:253-273`), `finish` compares snapshots and HEAD (`task.py:314-317`),
then commits whatever the worktree holds (`:322`) and merges whatever the branch
holds (`:329`). The history variable `disturbed` has the tasks whose content
somebody changed in such a window since their validation last began: an edit after
the first snapshot (the gates may judge it, and it may be undone again), an edit
after the checks of `finish`, a commit before its merge. `OnlyApprovedIsMerged`,
`DoneIsMerged` and `DependenciesFirst` say what the code ensures all the same
(the review passed; no other task was merged since its base; nothing fails
silently) and promise the content itself for tasks that are not disturbed;
`MergesWhatWasReviewed` makes no exception and is refuted (section 8). A branch that
an edit has emptied has nothing of its own (`ahead`): Git finds it up to date, and
`finish` records DONE without a new commit.
Abstractions: files that a rebase brings in lie outside the scope of the task,
and a rebase has no conflicts; therefore a branch that was rebased without the
new base being saved has no acceptable snapshot until it is reconciled again. In
the one case where the code would accept it (everything brought in is the
task's own merge) `finish` refuses it all the same, because HEAD is not the
recorded base. The index of a worktree, and the integration checkout being dirty
or on another branch, are left out: they only add refusals.

## 4. The runs

| Run | Question | Result |
|---|---|---|
| `OwnerGroup` | Two inquiries on one visit, two clients, four commands: is an update ever lost, is history gapless, is a member of a group disturbed, is an outcome final? | holds |
| `OwnerInquiry` | One inquiry, two visits, all commands, careless clients, reused keys, expired results: do status and links agree, has a key one effect and stable answers, is each cash fact counted once, does money leave the workflow alone? Do the tables implement `InquiryLifecycle`? | holds |
| `PublicForm` | Tabs and retries that race over tokens and keys at the boundary of the token's life: one inquiry, true receipts, consumed in time? Does a lost answer come back? | holds |
| `PublicSecondKey` | Does a used token give its receipt whenever the contents are the same? | **violated** |
| `BotDialog` | From each step of a dialog, two more updates, each handled twice at once: is the history of a draft one story, is what is told true, is what is acknowledged done? Is every step of the drafts and inquiries one of `Conversation`? | holds |
| `BotAnswers` | Is a stored submission answered in the end? | holds |
| `BotStaleText` | Is a repeated text kept out of a later step? | **violated** |
| `BotMixedDraft` | Does the version keep an answer out of another draft? | **violated** |
| `OwnerConsole` | Two tabs over one cookie; an account that changes under a sign-in; one tab whose views race with their answers, with visits being planned and with the end of the session: is who acts the owner of now, is what is shown what was asked for, is a month complete? | holds |
| `OwnerLateDetail` | Is the list on its way whenever it says that it loads? | **violated** |
| `Pipeline` | Three tasks, people who edit and commit at any moment, a controller that may stop between any two effects: is what is merged approved, after its dependencies, alone in its scope? | holds |
| `PipelineLateEdit` | Is what is merged always what was reviewed, on the head it was reviewed against? | **violated** |

Each property of a passing run has a mutant in `PROJECT.json`: a change of a
definition that a plausible bug would make, under which TLC refutes the property
in the very same run. The mutated forms stand beside the definitions, marked
`Mutant:`.

## 5. Bounds, and why they are enough

* `OwnerGroup`: 2 inquiries, 1 visit, 3 keys, 2 clients, 4 commands. The races the
  properties speak of are between two commands; the second inquiry on the visit
  makes them meet through the visit only, and the third key leaves one for a
  command that comes after plan – confirm – complete or cancel. `OwnerInquiry`: 1
  inquiry, 2 visits, 2 keys, any plan, all commands, none sent after 3 were accepted, 1
  expired result: a key used for two different commands and repeated after a third, a
  note corrected and corrected again. Keys, slots and visits (and inquiries where
  no constant tells them apart) are interchangeable, so symmetry is sound for
  invariants and the action properties, which quantify over all of them.
* `PublicForm`: 1 token with life 1, a clock up to 1 (before, and at, the moment of
  expiry), a forged token, 2 keys, 2 forms, 2 calls, 1 removed result. No symmetry,
  because it has a liveness property.
* `BotDialog`, `BotAnswers`: from a dialog in the list of services or after 1, 2 or
  3 answers (`MCTelegramMidway`: states the program reaches; the updates not
  needed only opened the list), two more updates and two workers. Without the
  start in the middle a whole dialog needs five updates and does not fit.
  `BotAnswers` starts at the review, with one edit of the catalogue. As the first
  state of these runs is not that of `Conversation`, `FollowsConversation` speaks
  of the steps; `ConversationImplemented` adds the first state. With a life of 1 and a
  clock up to 1 drafts expire at every step, under workers that took their time
  before, and a second draft starts after one that expired, was reset or submitted.
  The promises of the port are checked here with the adapter that exists; for any
  other one they are proved (`PortSpec`, section 7).
* `OwnerConsole`: six scenarios, each with the acts its question needs. `SignOuts`:
  two tabs, two sign-outs and a sign-in over one session. `Accounts`: from
  provisioning on, two sign-ins with changed credentials, a disabled account, an
  expiry and a failure. `Wander`: three moves between views, a failure and a
  planned visit. `Far`: five moves without failures, enough for a detail that is
  opened, left for the calendar, answered late and closed. `Planning`: a month of
  three visits (two start together, one belongs to two months) read one by one
  while they are planned. `Return`: the session ends under the views and the owner
  comes back. At most 3 fetches and 2 requests in flight: the page in question, a
  late one, and one more. `OwnerLateDetail` is the scenario `Far`.
* `Pipeline`: 3 tasks (one depends on a second, a third shares its scope), 2
  commits on the trunk (a merge and one of the lead, or the merges of two tasks that
  follow each other), no retries beyond the first attempt, 2 edits: one that makes
  the implementation, and one in the window behind a check. People act at any
  moment; 2.0 million states. `PipelineLateEdit`: one task and one commit on the
  trunk, so that the shortest counterexample is the edit. With two commits TLC
  finds one of the lead in the same window, between the comparison of HEAD and the
  merge.

Bounds of counters (`MaxCommands`, `MaxTime`, `MaxUpdates`, `MaxEdits`,
`MaxTrunk`, `MaxExpired`, `MaxRemoved`, `MaxVersion`, `MaxFetches`, and the acts of
a scenario) stand in guards and are constants of the modules; the theorems hold for all their values.

## 6. Fairness and deadlock

* `PublicSubmission!FairSpec`: a transaction releases its guard, so each call gets
  its turn (weak fairness of the transaction); a client whose answer was lost
  repeats (weak fairness of `Retry`: this is the client `api.md` §4 addresses);
  the network does not lose *every* answer to a request repeated for ever (strong
  fairness of an answered transaction).
* `TelegramDialog!Fairness`: handling a delivery ends; Telegram repeats what is
  not acknowledged; the transport and the processes do not fail on one update for
  ever. The last assumes that a callback may be answered however late it is; how
  long Telegram accepts that is not in the repository.
* Other runs state no fairness and check safety only.

`CHECK_DEADLOCK FALSE` is in every configuration, because all of these systems may
stop: a client need not send another request, a person another update, a lead
another command, and the bounds are reached. No component waits for another one
inside an action, so a deadlock of the model would mean no more than that.

## 7. What is proved

Proved with TLAPS for every number of inquiries, visits, keys, clients, events,
options, tasks, and every bound:

* `OwnerCommandsProofs!TypeCorrect`: `Spec => []TypeOK`. `TypeOK` is inductive as it
  stands; one lemma per accepted command, on the shape of the shared writes
  (`BumpVisits`, `CloseParts`, `Store`).
* `OwnerLifecycleProofs`: every other property of `OwnerCommands`, the refinement
  included. Four invariants carry them, each `TypeOK` (with `Shaped` requests) and
  `AbsentOK` (what is not there has version 0, links name visits that are there)
  with:
  - `KeysInv`: `AllPast`, accepted requests name versions of the past. As an
    accepted command names the versions of now and moves them, no later one can
    name them again (`NoLostUpdate`, `OneKeyOneEffect`; `AnswersStay` follows from
    it, because the key of an answered request has its receipt);
  - `PlanInv`: `PlanMatchesStatus`, inductive with the types; from it
    `GroupsAreIsolated`, `CashIsIndependent`, `OutcomesStay`, and
    `LifecycleImplemented`: `StepMoves` gives for each command how the plan and the
    served visit of its inquiry move, `MoveFollows` that this is a step of
    `InquiryLifecycle`;
  - `HistoryInv`: each step that moves versions is explained by exactly one new
    event with these versions (`StepsExplained`), so gaplessness is kept;
  - `CashInv`: `KeysInv`, and `NotesOK`, which ties each note to the receipt or the
    correction that made it. A note adds one to recorded and effective facts, a
    replacement keeps both numbers, a correction without one moves a fact from
    effective to ended; the library's theorems on cardinality count them.
  The only assumption beyond the types is that a note is not `None`.
* `PublicSubmissionProofs`: `TypeCorrect`, `OneInquiry`, `ReceiptsCorrect` and
  `TokensUsedInTime`. The invariant adds that a call takes its time after the
  token it carries was issued, that the time of a row is not after now, and that
  tokens, receipts and inquiries name each other. Times of calls are in no order:
  the proof never compares two calls, only each with its token.
* `ChannelDraftsProofs!TypeCorrect`: `PortSpec => []PortTypeOK`.
* `ChannelDraftsProofs!DraftHistory` (and its parts `OneDraftOpen`, `DraftsEnd`,
  `OldAnswersEnd`): `OneOpenDraft`, `VersionsAreHistory`,
  `DraftsEndOnce` and `AnswersExpire` hold in every behaviour of the port. The
  inductive invariant is their conjunction with `ExpiryFollowsTheLastEvent`: the
  expiry of a row is the time of the event that made its last version plus
  `Lifetime`. Without it `AnswersExpire` is not inductive: the guard compares with
  the row, the property with the events. The argument: `AcceptMoves` says that
  every accepted event, whichever branch it takes, gives exactly one row exactly
  one version more (or starts a row at 1), and records itself there; the four
  conjuncts follow for it, and all other steps leave rows, versions and records
  alone.
* `ChannelDraftsProofs!InquiriesCorrect`: inquiries and submissions correspond one
  to one.
* `TelegramDialogProofs`: `DialogTypes`, `RepliesCorrect`, `AcknowledgedCorrect`,
  and `PortUnderDialog`: the promises of the port hold with this adapter around
  it, any number of deliveries at once included. The invariant follows an update
  through its phases: what a worker holds fits the kind of its update (`ActFits`,
  `OpFits`), the fingerprint of a recorded event is an update of that event to
  which its operation fits (`EventsOK`), and a screen that is being sent says what
  is stored (`AllTold`). `PortGrows` is the reason why this survives the other
  workers: no step of the port forgets an event or an inquiry. A worker never
  writes a version 0 by accident, as stored drafts have one (`RowsMoved`).
* `TelegramDialogProofs!ConversationFollowed` (and `ConversationImplemented`, from
  the first state on): the drafts and the inquiries implement `Conversation`. The
  check of the version is not enough for that as such, because versions start again
  at 1 and a late write may meet another draft than it has read (`BotMixedDraft`).
  What saves the order of the questions is that a version says which question is
  open, in every draft: `Fits` ties step, version and answers together for the open
  rows (`DraftsFitTheirStep`) and for what a worker is about to write
  (`OpContinues`), which therefore continues whatever draft has that version by
  then. `DraftsAreNeverCorrupt` is a part of it: `_validate_answers` never finds a
  draft of this program corrupt, which is why `Readable` only asks for the option.
* `TelegramDialogProofs!DialogIsAnAdapter`: `Spec => PortSpec` if `Operations` are
  all operations. Crashes, repetitions and lost acknowledgements of the dialog are
  nothing the port does not meet with any adapter.
* `OwnerSessionsProofs`: `SessionTypes`, `ActiveSessionsAreCurrent`,
  `SignOutsEndOne`, `LateRequestsFail`. `SessionInv` adds that a session carries the
  version of the password that was verified for it (`SessionsOK`), and that a
  request which was late when it was sent is still late, for `Over` is never
  undone, hence passes no check (`RequestsOK`).
* `OwnerPageProofs!SessionsUnderThePage`: the same with all views around them;
  every step of `PageSpec` is a step of the sessions with a few fields replaced,
  or leaves them alone.
* `OwnerPageProofs`, the views: `PageTypesStay`, `ShownIsWhatWasAsked`,
  `LoadingIsEnded`, `CalendarsAreComplete` and `ListsFitFilters`. None of them is
  inductive: an answer that is in flight may spoil any of them later. The invariant
  `PageInv` therefore relates each fetch to what its tab shows by now:
  - `VersionOK`, what `viewVersion` is for: at most one fetch of a calendar or a
    visit is fresh, it is for the view that was asked for, and none is while the
    tab shows no shell; `ListOK`, what `inquiryRequest` is for: the fresh fetch of
    the list asks for what the list shows, with its cursor; `HashOK`: a calendar or
    a visit is asked for under its hash, or the page is about to hear of another
    one, so that an answer that is dropped for the hash leaves nothing waiting;
  - `AwaitOK`: what loads has a fetch that will replace it. It survives a handler
    that drops an answer because a fetch that is not heeded is not that one
    (`Misses`);
  - `SoFarOK` and `GoesOn` for a month read page by page: the items so far are in
    order and before all that follows the cursor, and a visit that was planned when
    the first page was asked for is among them or follows the cursor. The next page
    keeps that (`VisitRowsOK` at the server, `JoinOK` at the page), and without a
    cursor nothing is left to follow. Visits that are planned meanwhile only add to
    what follows. That pages exist at all, and what the query takes from the visits
    it finds (`FirstOfMeans`), rests on the order of the visits (`LaterIsOrder`).

  What a step does to one tab is a lemma per handler (`ViewOK`, `LeavesOK`); that it
  leaves the fetches of the other tabs alone is part of each (`KeepsOthers`), so
  `BecomesOK` carries the rest of the invariant. `FirstExist` and `NumberIsFree`
  need induction over the numbers; they get it from the least element of a set
  (`Least`), which follows from the library's order of finite sets.
* `TaskPipelineProofs`: `TypeCorrect`, `ScopesCorrect`, `CallsCorrect`,
  `DependenciesCorrect`, `DoneCorrect` and `MergesCorrect` hold with crashes between
  any two effects, and with edits and commits of people at any moment; nothing is
  assumed about them. In the last three, what is said of the *content* of a task is
  said of tasks that are not `disturbed` (section 3); that the review passed, and
  that no other task was merged since its base, is said of all. None of the
  properties is inductive, so each has an invariant of its own:
  - `TypeInv` adds that a command in work has its worktree;
  - `ScopeInv` adds `StatesAreCurrent`, what each command still knows about the
    state it read when it took the lock: in particular the task that `start` is
    adding is still READY and no task in work overlaps it, although the record is
    saved only after the worktree was made;
  - `CallInv`: every call made is a counted attempt, for the attempt is saved
    before the call;
  - `SealInv`: validations of undisturbed tasks are of passing contents (`SealsPass`); a
    branch without commits of its own has no content (`HeadsAreCommits`); the
    merge of each undisturbed task that is done is on the trunk; and what each step
    of `finish` still knows (`SightIsCurrent`): since the recorded base only the
    lead committed (`OnlyLeadSince`), and while the task is not
    disturbed, the files after the checks, the head after the commit, and the trunk after the merge have
    the content of the review. The lemmas behind it say what people can do while a
    command runs (`OnlyPeopleWait`), that changing its content then is noticed
    (`PeopleDisturb`), and that only a new validation forgets it
    (`DisturbedStays`);
  - `MergeInv`: `SealInv`, and no branch leaves the trunk behind its tip; so a
    branch that starts from the tip, or is rebased to it, after its dependencies
    were done has their merges behind it (`DeliveredIsMerged`), and they stay done
    (`DoneIsFinal`).
  The frame lemmas (`RecordMoves`, `ControlMoves`, `ForksMove`, `TrunkMoves`) say
  once which actions change a variable and how, and the step proofs split on those
  few cases instead of on all actions.

Assumptions are the named `ASSUME`s of the modules (constants have their types,
`None` is no member of the other sets, the operations of the port are well
formed). TLC evaluates them in each run.

Only model-checked: liveness (`LostAnswersAreRecovered`,
`SubmissionsAreAnswered`), which is beyond the prover. All other properties of the
passing runs are proved. The properties of the five runs that expect a violation
are false, and have counterexamples instead.

## 8. Where code and documents disagree

* `PublicSecondKey`: `api.md:148` promises the prior receipt for the same contents
  under a second key; if the call began before the one that used the token, it is
  told that the token was used (`inquiries.py:178`).
* `BotStaleText`: `api.md:171` says that a repeated event is not taken for the
  answer to a later step; a text that was refused on one screen, and is therefore
  delivered again, answers the next screen (`telegram_conversation.py:77`).
* `BotMixedDraft`: `api.md:172` relies on the version; as versions start again at
  1, a write meant for a draft that was reset is saved to its successor
  (`channel_draft_persistence.py:351`).
* `OwnerLateDetail`: `tasks/specs/WEB-003.json:9` lets the owner open and close the
  detail of an inquiry. Its answer is drawn whatever is shown by then
  (`app.js:206`); drawn over the calendar, it leads back to a list whose answers
  are dropped under the hash of the calendar (`app.js:169`), and which therefore
  loads until the owner navigates (an answer that is lost does show its error there:
  `app.js:189` compares no hash).
* `PipelineLateEdit`: `git-workflow.md:15-17` says that the review seals the changed
  content and that finish requires the same snapshot and an unchanged HEAD. Both
  are compared (`task.py:314-317`) before everything in the worktree is staged
  (`task.py:322`) and merged, and the lock does not keep the implementer or the lead
  away: an edit in between is committed, merged and recorded as done.

Met while modelling, without a run: `database.md:346` promises that stored
results are linked to the inquiries whose data they hold, and a confirmation
stores the projection of the inquiry and no link (`owner_commands.py:379`); the
answer to a sign-out deletes the cookie of the browser although it may be that of
a newer session by then (`main.py:605`); after a change of the filters the button
of the next page sends a cursor of the former list until the new one is drawn, is
refused (400), and the list stays in error until the filters change again
(`app.js:184`); a refused detail of an inquiry leaves its
loading text beside the error (`app.js:214`), which the model counts as an error; drafts live 24 hours in the code and 7 days
in `database.md:340`; the mark of a catalogue mismatch promised by `api.md:143` is
not set by any code.

## 9. What is not modelled

* Contents of forms, names, sums, dates, the wording of messages, shapes of HTTP
  requests, rate limits, HELP and ignored updates: no state that the properties
  see depends on them.
* The columns of the read models, the contents of the detail of a visit, the
  arithmetic of the bounds and weeks of a month: `OwnerPage` knows which rows are
  on a page and which are not.
* Settings, migrations, health: no transitions. A catalogue whose
  version and rows come from two statements of one transaction is taken as one
  value.
* The static public page, bootstrap scripts, experiments.
* The outbox worker and a second channel do not exist in the code.
* One scope: the system has one owner and one club.
* The first creation of a channel identity: idempotent, under the same guard,
  before everything `ChannelDrafts` starts with.
* The page sends no commands yet (`SendCommand` stands for a client that has the
  cookie and a token), so what `OwnerCommands` says of its clients is said of any
  client, not of `app.js`.

## 10. Plan

Done, in this order: `InquiryLifecycle`, `OwnerCommands`, `PublicSubmission`,
`ChannelDrafts`, `TelegramDialog`, `Conversation`, `TaskPipeline`, `OwnerSessions`, `OwnerPage`;
proofs as in section 7.

Next, when the code gives reason to:

1. The page sends commands: a repeated command and its key as part of `OwnerPage`,
   composed with `OwnerCommands`.
2. The worker of the outbox and a second channel over `ChannelDrafts`, whose
   `PortSpec` already allows any adapter.
