---------------------------- MODULE TaskPipeline ----------------------------
(***************************************************************************)
(* The developers' task controller (scripts/task.py, scripts/policy.py):   *)
(* the life of a task from its specification to the merge of its branch.   *)
(*                                                                         *)
(* A command of the controller holds a lock file, reads the saved records, *)
(* runs Git commands and saves the record, sometimes more than once.  It   *)
(* may stop between any two of these effects; the lead then removes the    *)
(* lock and the next command finds what was saved and what Git has done.   *)
(* The lock keeps out other controllers, not people: the implementers edit *)
(* the worktrees, and the lead commits to the integration branch, at any   *)
(* moment.  `drive` only calls the other commands.                         *)
(*                                                                         *)
(* The content of a task is its difference from the base: None, or one of  *)
(* a few values.  Everything a rebase brings in lies outside the scope of  *)
(* a task, and the index of a worktree is that of its last commit.         *)
(***************************************************************************)
EXTENDS Naturals, Sequences, FiniteSets

CONSTANTS
  Tasks,
  DependsOn,   \* depends_on of each task
  Overlaps,    \* the other tasks whose allowed_paths overlap (scopes_overlap)
  Local,       \* the tasks whose preferred executor is the local model
  RetryLimit,  \* retry_limit of each task
  Contents,    \* what an implementation can be
  Passing,     \* the contents that pass the gates
  MaxTrunk,    \* bound of the commits on the integration branch
  MaxEdits,    \* bound of the changes of files, by people and by gates
  None

ASSUME PipelineAssumption ==
  /\ DependsOn \in [Tasks -> SUBSET Tasks]
  /\ Overlaps \in [Tasks -> SUBSET Tasks]
  /\ \A t, u \in Tasks : u \in Overlaps[t] => t \in Overlaps[u]
  /\ Local \subseteq Tasks
  /\ RetryLimit \in [Tasks -> Nat]
  /\ Passing \subseteq Contents
  /\ MaxTrunk \in Nat /\ MaxEdits \in Nat
  /\ None \notin Tasks \cup Contents

VARIABLES
  records,  \* the saved records (.pipeline/state.json)
  trunk,    \* the commits of the integration branch: merges, or the lead's
  trees,    \* the worktree and the branch of each task
  ctl,      \* the command that is running
  calls,    \* history: how often the local model was called
  edits,    \* how often files were changed, for the bound
  disturbed \* history: the tasks whose content somebody changed between a
            \* check and its use, since their validation last began

vars == <<records, trunk, trees, ctl, calls, edits, disturbed>>

States == {"ABSENT", "BACKLOG", "READY", "ACTIVE", "REVIEW", "BLOCKED", "DONE"}

\* ESCALATE has the effect of BLOCKED.
Verdicts == {"PASS", "CHANGES_REQUESTED", "BLOCKED"}
Content == Contents \cup {None}

\* The head of a branch: where it leaves the trunk, and its committed content;
\* it is ahead of the trunk if it has commits of its own.
Snapshot == [files : Content, head : Content, fork : Nat, base : Nat]
Review == [status : Verdicts, snapshot : Snapshot]
Record == [state : States, executor : {"local", "cloud"}, worktree : BOOLEAN,
           base : Nat, attempts : Nat, validation : Snapshot \cup {None},
           review : Review \cup {None}]
Tree == [files : Content, head : Content, fork : Nat, ahead : BOOLEAN]
Commit == [task : Tasks \cup {None}, content : Content]

ASSUME NoneAssumption == None \notin Tree \cup Snapshot \cup Review

Steps == {"IDLE", "STARTED", "REBASED", "CALLING", "VALIDATING", "GATED",
          "CHECKED", "COMMITTED", "MERGED", "REMOVED"}
Control == [step : Steps, task : Tasks \cup {None},
            before : Snapshot \cup {None}, passed : BOOLEAN]

Idle == [step |-> "IDLE", task |-> None, before |-> None, passed |-> FALSE]

-----------------------------------------------------------------------------
(* What the controller reads.                                               *)

Tip == Len(trunk)
Free == ctl.step = "IDLE"
State(t) == records[t].state

\* Mutant: a dependency that passed its validation is good enough.
DepsReviewed(t) == \A d \in DependsOn[t] : State(d) \in {"REVIEW", "DONE"}

DepsDone(t) == \A d \in DependsOn[t] : State(d) = "DONE"

\* Mutant: a blocked task, or one under review, does not lock its scope.
LockedByActive(t) == \E u \in Overlaps[t] : u # t /\ State(u) = "ACTIVE"

\* An overlapping task that has a worktree and is not done locks the scope.
ScopeLocked(t) ==
  \E u \in Overlaps[t] : u # t /\ records[u].worktree /\ State(u) # "DONE"

\* The recorded worktree exists.
HasTree(t) == records[t].worktree /\ trees[t] # None

Clean(t) == trees[t].files = trees[t].head

\* A snapshot is refused if anything outside the scope differs from the base:
\* so it is when the branch was rebased and the new base was not recorded.
InScope(t) == trees[t].fork = records[t].base

SnapshotOf(t) ==
  [files |-> trees[t].files, head |-> trees[t].head,
   fork |-> trees[t].fork, base |-> records[t].base]

Changed(t) == trees[t].files # None \/ trees[t].head # None

\* The commit of a branch is merged into the trunk behind its base.
HeadIsMerged(t) ==
  \E i \in trees[t].fork + 1..Tip :
    trunk[i] = [task |-> t, content |-> trees[t].head]

-----------------------------------------------------------------------------
(* The commands, each a sequence of effects.                                *)

Saves(t, r) == records' = [records EXCEPT ![t] = r]

\* The command goes on after this effect, or ends with it.
Continues(t, step) == ctl' = [Idle EXCEPT !.step = step, !.task = t]
Ends == ctl' = Idle

\* Somebody changes the files of a worktree.
Changes(t, c) ==
  /\ edits < MaxEdits
  /\ edits' = edits + 1
  /\ trees[t].files # c
  /\ trees' = [trees EXCEPT ![t].files = c]

\* A commit of everything in a worktree, if there is anything to commit.
Committed(tree) ==
  [tree EXCEPT !.head = tree.files, !.ahead = @ \/ tree.files # tree.head]

At(t, step) == ctl.step = step /\ ctl.task = t

\* create: initial state BACKLOG, or READY if the dependencies are done.
Create(t) ==
  /\ Free /\ State(t) = "ABSENT"
  /\ \E state \in {"BACKLOG", "READY"} :
       /\ state = "READY" => DepsDone(t)
       /\ Saves(t, [records[t] EXCEPT !.state = state])
  /\ UNCHANGED <<trunk, trees, ctl, calls, edits, disturbed>>

Ready(t) ==
  /\ Free /\ State(t) = "BACKLOG" /\ DepsDone(t)
  /\ Saves(t, [records[t] EXCEPT !.state = "READY"])
  /\ UNCHANGED <<trunk, trees, ctl, calls, edits, disturbed>>

\* start: the worktree is added, then the record is saved.
AddWorktree(t) ==
  /\ Free /\ State(t) = "READY"
  /\ DepsDone(t) /\ ~ScopeLocked(t)
  /\ trees[t] = None
  /\ trees' = [trees EXCEPT ![t] =
                 [files |-> None, head |-> None, fork |-> Tip, ahead |-> FALSE]]
  /\ Continues(t, "STARTED")
  /\ UNCHANGED <<records, trunk, calls, edits, disturbed>>

RecordStart(t) ==
  /\ At(t, "STARTED") /\ Ends
  /\ Saves(t, [records[t] EXCEPT !.state = "ACTIVE", !.worktree = TRUE,
                                 !.base = trees[t].fork])
  /\ UNCHANGED <<trunk, trees, calls, edits, disturbed>>

\* reconcile: a clean branch is rebased (commits that are merged already
\* vanish from it), then the record is saved.
Rebase(t) ==
  /\ Free /\ State(t) \in {"ACTIVE", "REVIEW"} /\ HasTree(t) /\ Clean(t)
  /\ LET gone == HeadIsMerged(t)
         kept == IF gone THEN None ELSE trees[t].head IN
     trees' = [trees EXCEPT ![t] =
                 [files |-> kept, head |-> kept, fork |-> Tip,
                  ahead |-> @.ahead /\ ~gone]]
  /\ Continues(t, "REBASED")
  /\ UNCHANGED <<records, trunk, calls, edits, disturbed>>

RecordRebase(t) ==
  /\ At(t, "REBASED") /\ Ends
  /\ Saves(t, [records[t] EXCEPT !.state = "ACTIVE", !.base = Tip,
                                 !.review = None, !.validation = None])
  /\ UNCHANGED <<trunk, trees, calls, edits, disturbed>>

\* run of a local task: the attempt is counted, then the model is called.
LastAttempt(t) == records[t].attempts >= 1 + RetryLimit[t]

BeginAttempt(t) ==
  /\ Free /\ State(t) = "ACTIVE" /\ records[t].executor = "local"
  /\ ~LastAttempt(t) /\ HasTree(t) /\ InScope(t)
  /\ Saves(t, [records[t] EXCEPT !.attempts = @ + 1, !.review = None,
                                 !.validation = None])
  /\ calls' = [calls EXCEPT ![t] = @ + 1]
  /\ Continues(t, "CALLING")
  /\ UNCHANGED <<trunk, trees, edits, disturbed>>

\* The proposal is written to the worktree.
ApplyProposal(t) ==
  /\ At(t, "CALLING") /\ Ends
  /\ trees[t] # None
  /\ \E c \in Contents : trees' = [trees EXCEPT ![t].files = c]
  /\ UNCHANGED <<records, trunk, calls, edits, disturbed>>

\* A failure, perhaps after files were written.
FailAttempt(t) ==
  /\ At(t, "CALLING") /\ Ends
  /\ Saves(t, [records[t] EXCEPT
       !.state = IF LastAttempt(t) THEN "BLOCKED" ELSE @])
  /\ \/ UNCHANGED trees
     \/ /\ trees[t] # None
        /\ \E c \in Contents : trees' = [trees EXCEPT ![t].files = c]
  /\ UNCHANGED <<trunk, calls, edits, disturbed>>

Escalate(t) ==
  /\ Free /\ State(t) = "ACTIVE" /\ records[t].executor = "local"
  /\ LastAttempt(t)
  /\ Saves(t, [records[t] EXCEPT !.state = "BLOCKED"])
  /\ UNCHANGED <<trunk, trees, ctl, calls, edits, disturbed>>

\* handoff, and run of a cloud task.
Handoff(t) ==
  /\ Free /\ State(t) \in {"ACTIVE", "BLOCKED"} /\ HasTree(t)
  /\ Saves(t, [records[t] EXCEPT !.state = "ACTIVE", !.executor = "cloud"])
  /\ UNCHANGED <<trunk, trees, ctl, calls, edits, disturbed>>

\* Mutant: a resumed task gets all its attempts again.
ResumedAfresh(r) == [r EXCEPT !.state = "ACTIVE", !.attempts = 0,
                              !.review = None, !.validation = None]

Resumed(r) == [r EXCEPT !.state = "ACTIVE", !.review = None,
                        !.validation = None]

Resume(t) ==
  /\ Free /\ State(t) = "BLOCKED" /\ HasTree(t)
  /\ Saves(t, Resumed(records[t]))
  /\ UNCHANGED <<trunk, trees, ctl, calls, edits, disturbed>>

\* validate: a snapshot, the gates, and a second snapshot.
StartValidation(t) ==
  /\ Free /\ State(t) \in {"ACTIVE", "REVIEW"} /\ HasTree(t)
  /\ Saves(t, [records[t] EXCEPT !.state = "ACTIVE", !.review = None,
                                 !.validation = None])
  /\ ctl' = [Idle EXCEPT !.step = "VALIDATING", !.task = t,
       !.before = IF InScope(t) /\ Changed(t) THEN SnapshotOf(t) ELSE None]
  /\ disturbed' = disturbed \ {t}
  /\ UNCHANGED <<trunk, trees, calls, edits>>

\* A gate is a program of the task: it judges the files, and may change them.
RunGates(t) ==
  /\ At(t, "VALIDATING")
  /\ ctl' = [ctl EXCEPT !.step = "GATED",
                        !.passed = trees[t].files \in Passing]
  /\ \/ UNCHANGED <<trees, edits>>
     \/ \E c \in Contents : Changes(t, c)
  /\ UNCHANGED <<records, trunk, calls, disturbed>>

\* Mutant: the files are not looked at after the gates.
SealsBefore(t) == ctl.before # None /\ ctl.passed

Seals(t) == /\ ctl.before # None /\ ctl.passed
            /\ SnapshotOf(t) = ctl.before

RecordValidation(t) ==
  /\ At(t, "GATED") /\ Ends
  /\ Saves(t, IF Seals(t)
              THEN [records[t] EXCEPT !.state = "REVIEW",
                                      !.validation = SnapshotOf(t)]
              ELSE records[t])
  /\ UNCHANGED <<trunk, trees, calls, edits, disturbed>>

\* Mutant: the status of the review becomes the state of the task.
StatusAsState(status) == status

AfterReview(status) ==
  CASE status = "PASS" -> "REVIEW"
    [] status = "CHANGES_REQUESTED" -> "ACTIVE"
    [] status = "BLOCKED" -> "BLOCKED"

SubmitReview(t) ==
  /\ Free /\ State(t) = "REVIEW" /\ HasTree(t) /\ InScope(t)
  /\ SnapshotOf(t) = records[t].validation
  /\ \E status \in Verdicts :
       Saves(t, [records[t] EXCEPT
         !.state = AfterReview(status),
         !.review = [status |-> status, snapshot |-> SnapshotOf(t)]])
  /\ UNCHANGED <<trunk, trees, ctl, calls, edits, disturbed>>

Passed(t) == records[t].review # None /\ records[t].review.status = "PASS"

\* Mutant: the review is not compared with the files of now.
ApprovedOnce(t) == Passed(t) /\ Changed(t)

\* What is there now is what was validated and reviewed.
Approved(t) ==
  /\ Passed(t) /\ InScope(t) /\ Changed(t)
  /\ SnapshotOf(t) = records[t].review.snapshot
  /\ SnapshotOf(t) = records[t].validation

\* finish: checks, a commit of whatever is in the worktree, the merge, and
\* the record.
CheckFinish(t) ==
  /\ Free /\ State(t) = "REVIEW" /\ HasTree(t)
  /\ Tip = records[t].base
  /\ Approved(t)
  /\ Continues(t, "CHECKED")
  /\ UNCHANGED <<records, trunk, trees, calls, edits, disturbed>>

CommitFinish(t) ==
  /\ At(t, "CHECKED")
  /\ trees' = [trees EXCEPT ![t] = Committed(@)]
  /\ Continues(t, "COMMITTED")
  /\ UNCHANGED <<records, trunk, calls, edits, disturbed>>

\* Of a branch without commits of its own Git says that it is up to date.
MergeFinish(t) ==
  /\ At(t, "COMMITTED")
  /\ Tip < MaxTrunk
  /\ trunk' = IF trees[t].ahead
              THEN Append(trunk, [task |-> t, content |-> trees[t].head])
              ELSE trunk
  /\ Continues(t, "MERGED")
  /\ UNCHANGED <<records, trees, calls, edits, disturbed>>

\* Mutant: a merge that failed is recorded like one that did not.
SwallowedFailure(t) ==
  /\ At(t, "COMMITTED") /\ Ends
  /\ Saves(t, [records[t] EXCEPT !.state = "DONE"])
  /\ UNCHANGED <<trunk, trees, calls, edits, disturbed>>

MergeFails(t) ==
  /\ At(t, "COMMITTED") /\ Ends
  /\ Saves(t, [records[t] EXCEPT !.state = "BLOCKED"])
  /\ UNCHANGED <<trunk, trees, calls, edits, disturbed>>

RecordMerge(t) ==
  /\ At(t, "MERGED") /\ Ends
  /\ Saves(t, [records[t] EXCEPT !.state = "DONE"])
  /\ UNCHANGED <<trunk, trees, calls, edits, disturbed>>

\* cleanup: a clean worktree is removed, then the record is saved.  The merged
\* commit is on the trunk if the task is done (see DoneIsMerged).
RemoveWorktree(t) ==
  /\ Free /\ State(t) = "DONE" /\ HasTree(t) /\ Clean(t)
  /\ trees' = [trees EXCEPT ![t] = None]
  /\ Continues(t, "REMOVED")
  /\ UNCHANGED <<records, trunk, calls, edits, disturbed>>

RecordCleanup(t) ==
  /\ At(t, "REMOVED") /\ Ends
  /\ Saves(t, [records[t] EXCEPT !.worktree = FALSE])
  /\ UNCHANGED <<trunk, trees, calls, edits, disturbed>>

\* The controller stops; the lead removes its lock (git-workflow.md).
Crash ==
  /\ ~Free /\ Ends
  /\ UNCHANGED <<records, trunk, trees, calls, edits, disturbed>>

-----------------------------------------------------------------------------
(* The people (external).                                                   *)

\* The content of t changes behind the back of the command that works on it.
Disturbs(t, steps) ==
  disturbed' = IF ctl.task = t /\ ctl.step \in steps
               THEN disturbed \cup {t} ELSE disturbed

\* The gates judge the files after the first snapshot of validate; finish
\* commits them after it compared them.
Edit(t) ==
  /\ HasTree(t)
  /\ \E c \in Content : Changes(t, c)
  /\ Disturbs(t, {"VALIDATING", "CHECKED"})
  /\ UNCHANGED <<records, trunk, ctl, calls>>

\* finish merges the branch after it committed to it.
CommitWork(t) ==
  /\ HasTree(t) /\ ~Clean(t)
  /\ trees' = [trees EXCEPT ![t] = Committed(@)]
  /\ Disturbs(t, {"COMMITTED"})
  /\ UNCHANGED <<records, trunk, ctl, calls, edits>>

CommitLead ==
  /\ Tip < MaxTrunk
  /\ trunk' = Append(trunk, [task |-> None, content |-> None])
  /\ UNCHANGED <<records, trees, ctl, calls, edits, disturbed>>

\* The lead removes a worktree that no record knows, after a crash of start.
RemoveOrphan(t) ==
  /\ State(t) = "READY" /\ trees[t] # None /\ ctl.task # t
  /\ trees' = [trees EXCEPT ![t] = None]
  /\ UNCHANGED <<records, trunk, ctl, calls, edits, disturbed>>

-----------------------------------------------------------------------------
Init ==
  /\ records = [t \in Tasks |->
       [state |-> "ABSENT", worktree |-> FALSE, base |-> 0, attempts |-> 0,
        executor |-> IF t \in Local THEN "local" ELSE "cloud",
        validation |-> None, review |-> None]]
  /\ trunk = <<>>
  /\ trees = [t \in Tasks |-> None]
  /\ ctl = Idle
  /\ calls = [t \in Tasks |-> 0]
  /\ edits = 0
  /\ disturbed = {}

Command(t) ==
  \/ Create(t) \/ Ready(t) \/ AddWorktree(t) \/ RecordStart(t)
  \/ Rebase(t) \/ RecordRebase(t)
  \/ BeginAttempt(t) \/ ApplyProposal(t) \/ FailAttempt(t) \/ Escalate(t)
  \/ Handoff(t) \/ Resume(t)
  \/ StartValidation(t) \/ RunGates(t) \/ RecordValidation(t)
  \/ SubmitReview(t)
  \/ CheckFinish(t) \/ CommitFinish(t) \/ MergeFinish(t) \/ MergeFails(t)
  \/ RecordMerge(t) \/ RemoveWorktree(t) \/ RecordCleanup(t)

Next ==
  \/ \E t \in Tasks : Command(t) \/ Edit(t) \/ CommitWork(t) \/ RemoveOrphan(t)
  \/ Crash \/ CommitLead

Spec == Init /\ [][Next]_vars

-----------------------------------------------------------------------------
(* Properties.                                                              *)

\* Records, worktrees and the running command have their shape.
TypeOK ==
  /\ records \in [Tasks -> Record]
  /\ trunk \in Seq(Commit)
  /\ trees \in [Tasks -> Tree \cup {None}]
  /\ ctl \in Control
  /\ calls \in [Tasks -> Nat]
  /\ edits \in Nat
  /\ disturbed \subseteq Tasks

\* What is merged passed its review, and since the base of that review the
\* trunk got no merge of another task (git-workflow.md: Finish requires the
\* same snapshot and an unchanged integration HEAD), whatever the controller
\* was stopped at and whoever edits.  It is the content that passed the gates
\* and was reviewed unless somebody changed it between a check and its use
\* (MergesWhatWasReviewed has no such exception, and does not hold).
OnlyApprovedIsMerged ==
  [][\A t \in Tasks :
       (trunk' # trunk /\ trunk'[Len(trunk')].task = t) =>
         /\ Passed(t)
         /\ \A i \in records[t].review.snapshot.base + 1..Tip :
              trunk[i].task = None
         /\ t \notin disturbed =>
              /\ trunk'[Len(trunk')].content \in Passing
              /\ records[t].review.snapshot.files = trunk'[Len(trunk')].content
    ]_vars

\* What git-workflow.md says without an exception: a merge has the snapshot
\* that was reviewed, on the very head it was reviewed against.
MergesWhatWasReviewed ==
  [][\A t \in Tasks :
       (trunk' # trunk /\ trunk'[Len(trunk')].task = t) =>
         /\ records[t].review.snapshot.files = trunk'[Len(trunk')].content
         /\ records[t].review.snapshot.base = Len(trunk)]_vars

\* A task is built on its dependencies (task-lifecycle.md): when it has a
\* branch, the merge of each dependency lies before the place where the
\* branch leaves the trunk; of one that was disturbed, nothing may be left to
\* merge.
DependenciesFirst ==
  \A t \in Tasks : trees[t] # None =>
    \A d \in DependsOn[t] \ disturbed :
      \E i \in 1..trees[t].fork : trunk[i].task = d

\* Tasks whose scopes overlap are never in work together (git-workflow.md),
\* also while one of them is blocked or under review.
ScopesAreExclusive ==
  \A t \in Tasks : \A u \in Overlaps[t] \ {t} :
    ~(/\ records[t].worktree /\ State(t) # "DONE"
      /\ records[u].worktree /\ State(u) # "DONE")

\* No DONE on a failed merge (task-lifecycle.md): a task that is done, and was
\* not disturbed, has the content that was reviewed on the trunk, behind its
\* base.
DoneIsMerged ==
  \A t \in Tasks \ disturbed : State(t) = "DONE" =>
    \E i \in records[t].base + 1..Len(trunk) :
      trunk[i] = [task |-> t, content |-> records[t].review.snapshot.files]

\* The local model is called once and retry_limit times more, however often
\* the controller stops or the task is resumed; counters are never reset
\* (task-lifecycle.md).
CallsAreBounded == \A t \in Tasks : calls[t] <= 1 + RetryLimit[t]
=============================================================================
