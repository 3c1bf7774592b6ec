-------------------------- MODULE TaskPipelineProofs --------------------------
(***************************************************************************)
(* Theorems about TaskPipeline, for every set of tasks with any            *)
(* dependencies and scopes, every limit of retries and every bound.        *)
(***************************************************************************)
EXTENDS TaskPipeline, SequenceTheorems, TLAPS

USE PipelineAssumption, NoneAssumption

-----------------------------------------------------------------------------
(* Types.                                                                   *)

\* While a command is at one of these steps it works on a worktree, which
\* nobody takes away from it.
Holding == {"STARTED", "REBASED", "CALLING", "VALIDATING", "GATED",
            "CHECKED", "COMMITTED"}

TreesAreHeld ==
  /\ ctl.step # "IDLE" => ctl.task \in Tasks
  /\ ctl.step \in Holding => trees[ctl.task] # None

TypeInv == TypeOK /\ TreesAreHeld

LEMMA SavedRecord ==
  ASSUME records \in [Tasks -> Record], NEW t \in Tasks, NEW r \in Record,
         Saves(t, r)
  PROVE  /\ records' \in [Tasks -> Record]
         /\ records'[t] = r
         /\ \A u \in Tasks : u # t => records'[u] = records[u]
BY DEF Saves

LEMMA TreeSet ==
  ASSUME trees \in [Tasks -> Tree \cup {None}], NEW t \in Tasks, NEW x \in Tree,
         trees' = [trees EXCEPT ![t] = x]
  PROVE  /\ trees' \in [Tasks -> Tree \cup {None}]
         /\ trees'[t] = x /\ x # None
         /\ \A u \in Tasks : u # t => trees'[u] = trees[u]
OBVIOUS

\* A change of the files of a worktree, by people, a gate or a proposal.
LEMMA FilesSet ==
  ASSUME trees \in [Tasks -> Tree \cup {None}], NEW t \in Tasks,
         trees[t] # None, NEW c \in Content,
         trees' = [trees EXCEPT ![t].files = c]
  PROVE  /\ trees' \in [Tasks -> Tree \cup {None}]
         /\ trees'[t] # None
         /\ trees'[t].head = trees[t].head /\ trees'[t].fork = trees[t].fork
         /\ trees'[t].files = c /\ trees'[t].ahead = trees[t].ahead
         /\ \A u \in Tasks : u # t => trees'[u] = trees[u]
<1> DEFINE x == [trees[t] EXCEPT !.files = c]
<1>1. x \in Tree
  BY DEF Tree
<1>2. trees' = [trees EXCEPT ![t] = x]
  OBVIOUS
<1>3. /\ x.head = trees[t].head /\ x.fork = trees[t].fork /\ x.files = c
      /\ x.ahead = trees[t].ahead
  BY DEF Tree
<1> HIDE DEF x
<1> QED
  BY <1>1, <1>2, <1>3, TreeSet

LEMMA HeadSet ==
  ASSUME trees \in [Tasks -> Tree \cup {None}], NEW t \in Tasks,
         trees[t] # None,
         trees' = [trees EXCEPT ![t] = Committed(@)]
  PROVE  /\ trees' \in [Tasks -> Tree \cup {None}]
         /\ trees'[t] # None
         /\ trees'[t].fork = trees[t].fork
         /\ trees'[t].files = trees[t].files
         /\ trees'[t].head = trees[t].files
         /\ trees'[t].ahead =
              (trees[t].ahead \/ trees[t].files # trees[t].head)
         /\ \A u \in Tasks : u # t => trees'[u] = trees[u]
<1> DEFINE x == Committed(trees[t])
           more == trees[t].ahead \/ trees[t].files # trees[t].head
<1>1. more \in BOOLEAN
  BY DEF Tree
<1>2. x = [trees[t] EXCEPT !.head = trees[t].files, !.ahead = more]
  BY DEF Committed
<1> HIDE DEF more
<1>3. /\ x \in Tree
      /\ x.fork = trees[t].fork /\ x.files = trees[t].files
      /\ x.head = trees[t].files /\ x.ahead = more
  BY <1>1, <1>2 DEF Tree
<1>4. trees' = [trees EXCEPT ![t] = x]
  OBVIOUS
<1> HIDE DEF x
<1> QED
  BY <1>3, <1>4, TreeSet DEF more

LEMMA SnapshotType ==
  ASSUME records \in [Tasks -> Record],
         trees \in [Tasks -> Tree \cup {None}], NEW t \in Tasks, trees[t] # None
  PROVE  SnapshotOf(t) \in Snapshot /\ SnapshotOf(t) # None
BY DEF SnapshotOf, Snapshot, Tree, Record

\* Every record that a command saves.
LEMMA RecordEdits ==
  ASSUME NEW r \in Record
  PROVE  /\ \A state \in States : [r EXCEPT !.state = state] \in Record
         /\ \A b \in Nat :
              /\ [r EXCEPT !.state = "ACTIVE", !.worktree = TRUE, !.base = b]
                   \in Record
              /\ [r EXCEPT !.state = "ACTIVE", !.base = b, !.review = None,
                           !.validation = None] \in Record
         /\ [r EXCEPT !.attempts = @ + 1, !.review = None,
                      !.validation = None] \in Record
         /\ [r EXCEPT !.state = "ACTIVE", !.executor = "cloud"] \in Record
         /\ [r EXCEPT !.state = "ACTIVE", !.review = None, !.validation = None]
              \in Record
         /\ \A s \in Snapshot :
              [r EXCEPT !.state = "REVIEW", !.validation = s] \in Record
         /\ \A state \in States, w \in Review :
              [r EXCEPT !.state = state, !.review = w] \in Record
         /\ [r EXCEPT !.worktree = FALSE] \in Record
<1>1. "ACTIVE" \in States /\ "REVIEW" \in States /\ r.attempts + 1 \in Nat
  BY DEF Record, States
<1> QED
  BY <1>1, Zenon DEF Record

\* The effects that write no record.
TreeStep(t) ==
  \/ AddWorktree(t) \/ Rebase(t) \/ ApplyProposal(t) \/ RunGates(t)
  \/ CommitFinish(t) \/ MergeFinish(t) \/ RemoveWorktree(t)

\* Those that save a record and leave the worktrees alone.
RecordStep(t) ==
  \/ Create(t) \/ Ready(t) \/ RecordStart(t) \/ RecordRebase(t)
  \/ BeginAttempt(t) \/ Escalate(t) \/ Handoff(t) \/ Resume(t)
  \/ StartValidation(t) \/ RecordValidation(t) \/ SubmitReview(t)
  \/ MergeFails(t) \/ RecordMerge(t) \/ RecordCleanup(t)
  \/ CheckFinish(t)

LEMMA RecordsType ==
  ASSUME TypeInv, NEW t \in Tasks, RecordStep(t) \/ FailAttempt(t)
  PROVE  records' \in [Tasks -> Record]
<1> USE DEF TypeInv, TypeOK
<1>1. /\ records[t] \in Record
      /\ {"READY", "BACKLOG", "BLOCKED", "DONE"} \subseteq States
  BY DEF States
<1>2. Tip \in Nat
  BY LenProperties DEF Tip
<1>3. CASE Create(t)
  <2>1. PICK state \in {"BACKLOG", "READY"} :
          Saves(t, [records[t] EXCEPT !.state = state])
    BY <1>3 DEF Create
  <2> DEFINE new == [records[t] EXCEPT !.state = state]
  <2>2. new \in Record
    BY <1>1, RecordEdits
  <2>3. Saves(t, new)
    BY <2>1
  <2> HIDE DEF new
  <2> QED
    BY <2>2, <2>3, SavedRecord
<1>4. CASE Ready(t)
  <2> DEFINE new == [records[t] EXCEPT !.state = "READY"]
  <2>1. new \in Record
    BY <1>1, RecordEdits
  <2>2. Saves(t, new)
    BY <1>4 DEF Ready
  <2> HIDE DEF new
  <2> QED
    BY <2>1, <2>2, SavedRecord
<1>5. CASE RecordStart(t)
  <2> DEFINE new == [records[t] EXCEPT !.state = "ACTIVE", !.worktree = TRUE,
                                       !.base = trees[t].fork]
  <2>1. trees[t].fork \in Nat
    BY <1>5 DEF RecordStart, At, TreesAreHeld, Holding, Tree
  <2>2. new \in Record
    BY <1>1, <2>1, RecordEdits
  <2>3. Saves(t, new)
    BY <1>5 DEF RecordStart
  <2> HIDE DEF new
  <2> QED
    BY <2>2, <2>3, SavedRecord
<1>6. CASE RecordRebase(t)
  <2> DEFINE new == [records[t] EXCEPT !.state = "ACTIVE", !.base = Tip,
                                       !.review = None, !.validation = None]
  <2>1. new \in Record
    BY <1>1, <1>2, RecordEdits
  <2>2. Saves(t, new)
    BY <1>6 DEF RecordRebase
  <2> HIDE DEF new
  <2> QED
    BY <2>1, <2>2, SavedRecord
<1>7. CASE BeginAttempt(t)
  <2> DEFINE new == [records[t] EXCEPT !.attempts = @ + 1, !.review = None,
                                       !.validation = None]
  <2>1. new \in Record
    BY <1>1, RecordEdits
  <2>2. Saves(t, new)
    BY <1>7 DEF BeginAttempt
  <2> HIDE DEF new
  <2> QED
    BY <2>1, <2>2, SavedRecord
<1>8. CASE FailAttempt(t)
  <2> DEFINE state == IF LastAttempt(t) THEN "BLOCKED" ELSE records[t].state
             new == [records[t] EXCEPT !.state = state]
  <2>1. state \in States
    BY <1>1 DEF Record
  <2>2. Saves(t, new)
    BY <1>8 DEF FailAttempt
  <2> HIDE DEF state
  <2>3. new \in Record
    BY <1>1, <2>1, RecordEdits
  <2> HIDE DEF new
  <2> QED
    BY <2>2, <2>3, SavedRecord
<1>9. CASE Escalate(t)
  <2> DEFINE new == [records[t] EXCEPT !.state = "BLOCKED"]
  <2>1. new \in Record
    BY <1>1, RecordEdits
  <2>2. Saves(t, new)
    BY <1>9 DEF Escalate
  <2> HIDE DEF new
  <2> QED
    BY <2>1, <2>2, SavedRecord
<1>10. CASE Handoff(t)
  <2> DEFINE new == [records[t] EXCEPT !.state = "ACTIVE", !.executor = "cloud"]
  <2>1. new \in Record
    BY <1>1, RecordEdits
  <2>2. Saves(t, new)
    BY <1>10 DEF Handoff
  <2> HIDE DEF new
  <2> QED
    BY <2>1, <2>2, SavedRecord
<1>11. CASE Resume(t)
  <2> DEFINE new == [records[t] EXCEPT !.state = "ACTIVE", !.review = None,
                                       !.validation = None]
  <2>1. new \in Record
    BY <1>1, RecordEdits
  <2>2. Saves(t, new)
    BY <1>11 DEF Resume, Resumed
  <2> HIDE DEF new
  <2> QED
    BY <2>1, <2>2, SavedRecord
<1>12. CASE StartValidation(t)
  <2> DEFINE new == [records[t] EXCEPT !.state = "ACTIVE", !.review = None,
                                       !.validation = None]
  <2>1. new \in Record
    BY <1>1, RecordEdits
  <2>2. Saves(t, new)
    BY <1>12 DEF StartValidation
  <2> HIDE DEF new
  <2> QED
    BY <2>1, <2>2, SavedRecord
<1>13. CASE RecordValidation(t)
  <2> DEFINE sealed == [records[t] EXCEPT !.state = "REVIEW",
                                          !.validation = SnapshotOf(t)]
             new == IF Seals(t) THEN sealed ELSE records[t]
  <2>1. SnapshotOf(t) \in Snapshot
    BY <1>13, SnapshotType DEF RecordValidation, At, TreesAreHeld, Holding
  <2>2. sealed \in Record
    BY <1>1, <2>1, RecordEdits
  <2>3. Saves(t, new)
    BY <1>13 DEF RecordValidation
  <2> HIDE DEF sealed
  <2>4. new \in Record
    BY <1>1, <2>2
  <2> HIDE DEF new
  <2> QED
    BY <2>3, <2>4, SavedRecord
<1>14. CASE SubmitReview(t)
  <2>1. PICK status \in Verdicts :
          Saves(t, [records[t] EXCEPT
            !.state = AfterReview(status),
            !.review = [status |-> status, snapshot |-> SnapshotOf(t)]])
    BY <1>14 DEF SubmitReview
  <2> DEFINE review == [status |-> status, snapshot |-> SnapshotOf(t)]
             new == [records[t] EXCEPT !.state = AfterReview(status),
                                       !.review = review]
  <2>2. AfterReview(status) \in States
    BY DEF AfterReview, Verdicts, States
  <2>3. review \in Review
    BY <1>14, SnapshotType DEF SubmitReview, HasTree, Review
  <2>4. Saves(t, new)
    BY <2>1
  <2> HIDE DEF review
  <2>5. new \in Record
    BY <1>1, <2>2, <2>3, RecordEdits
  <2> HIDE DEF new
  <2> QED
    BY <2>4, <2>5, SavedRecord
<1>15. CASE MergeFails(t)
  <2> DEFINE new == [records[t] EXCEPT !.state = "BLOCKED"]
  <2>1. new \in Record
    BY <1>1, RecordEdits
  <2>2. Saves(t, new)
    BY <1>15 DEF MergeFails
  <2> HIDE DEF new
  <2> QED
    BY <2>1, <2>2, SavedRecord
<1>16. CASE RecordMerge(t)
  <2> DEFINE new == [records[t] EXCEPT !.state = "DONE"]
  <2>1. new \in Record
    BY <1>1, RecordEdits
  <2>2. Saves(t, new)
    BY <1>16 DEF RecordMerge
  <2> HIDE DEF new
  <2> QED
    BY <2>1, <2>2, SavedRecord
<1>17. CASE RecordCleanup(t)
  <2> DEFINE new == [records[t] EXCEPT !.worktree = FALSE]
  <2>1. new \in Record
    BY <1>1, RecordEdits
  <2>2. Saves(t, new)
    BY <1>17 DEF RecordCleanup
  <2> HIDE DEF new
  <2> QED
    BY <2>1, <2>2, SavedRecord
<1>18. CASE CheckFinish(t)
  BY <1>18 DEF CheckFinish
<1> QED
  BY <1>3, <1>4, <1>5, <1>6, <1>7, <1>8, <1>9, <1>10, <1>11, <1>12, <1>13,
     <1>14, <1>15, <1>16, <1>17, <1>18 DEF RecordStep
\* The rest of the state after an effect that saves a record.
LEMMA RecordStepType ==
  ASSUME TypeInv, NEW t \in Tasks, RecordStep(t)
  PROVE  TypeInv'
<1> USE DEF TypeInv, TypeOK
<1>1. records' \in [Tasks -> Record]
  BY RecordsType
<1>2. UNCHANGED <<trunk, trees, edits>> /\ disturbed' \subseteq disturbed
  BY DEF RecordStep, Create, Ready, RecordStart, RecordRebase, BeginAttempt,
         Escalate, Handoff, Resume, StartValidation, RecordValidation,
         SubmitReview, MergeFails, RecordMerge, RecordCleanup, CheckFinish
<1>3. calls' \in [Tasks -> Nat]
  <2>1. calls' = calls \/ calls' = [calls EXCEPT ![t] = @ + 1]
    BY DEF RecordStep, Create, Ready, RecordStart, RecordRebase, BeginAttempt,
           Escalate, Handoff, Resume, StartValidation, RecordValidation,
           SubmitReview, MergeFails, RecordMerge, RecordCleanup, CheckFinish
  <2>2. calls \in [Tasks -> Nat] /\ calls[t] + 1 \in Nat
    OBVIOUS
  <2> HIDE DEF TypeInv, TypeOK
  <2> QED
    BY <2>1, <2>2
<1>4. ctl' \in Control /\ TreesAreHeld'
  <2>1. CASE ctl' = ctl
    BY <1>2, <2>1 DEF TreesAreHeld
  <2>2. CASE Ends
    BY <1>2, <2>2 DEF TreesAreHeld, Ends, Idle, Control, Steps, Holding
  <2>3. CASE BeginAttempt(t) \/ CheckFinish(t)
    BY <1>2, <2>3 DEF BeginAttempt, CheckFinish, Continues, Idle, Control,
                      Steps, TreesAreHeld, HasTree
  <2>4. CASE StartValidation(t)
    <3>1. SnapshotOf(t) \in Snapshot
      BY <2>4, SnapshotType DEF StartValidation, HasTree
    <3> DEFINE before == IF InScope(t) /\ Changed(t) THEN SnapshotOf(t) ELSE None
    <3>2. before \in Snapshot \cup {None}
      BY <3>1
    <3>3. ctl' = [Idle EXCEPT !.step = "VALIDATING", !.task = t,
                              !.before = before]
      BY <2>4 DEF StartValidation
    <3> HIDE DEF before
    <3> QED
      BY <1>2, <2>4, <3>2, <3>3 DEF StartValidation, Idle, Control, Steps,
         TreesAreHeld, HasTree
  <2> QED
    BY <2>1, <2>2, <2>3, <2>4
       DEF RecordStep, Create, Ready, RecordStart, RecordRebase, Escalate,
           Handoff, Resume, RecordValidation, SubmitReview, MergeFails,
           RecordMerge, RecordCleanup
<1> QED
  BY <1>1, <1>2, <1>3, <1>4

\* The steps of the people and the end of the controller.
PeopleStep ==
  \/ \E t \in Tasks : Edit(t) \/ CommitWork(t) \/ RemoveOrphan(t)
  \/ Crash \/ CommitLead

LEMMA TreeStepType ==
  ASSUME TypeInv, NEW t \in Tasks, TreeStep(t) \/ FailAttempt(t)
  PROVE  TypeInv'
<1> USE DEF TypeInv, TypeOK
<1>1. Tip \in Nat
  BY LenProperties DEF Tip
<1>2. CASE AddWorktree(t)
  <2> DEFINE x == [files |-> None, head |-> None, fork |-> Tip, ahead |-> FALSE]
  <2>1. x \in Tree
    BY <1>1 DEF Tree, Content
  <2>2. trees' = [trees EXCEPT ![t] = x]
    BY <1>2 DEF AddWorktree
  <2> HIDE DEF x
  <2>3. trees' \in [Tasks -> Tree \cup {None}] /\ trees'[t] # None
    BY <2>1, <2>2, TreeSet
  <2>4. ctl' \in Control /\ ctl'.task = t
    BY <1>2 DEF AddWorktree, Continues, Idle, Control, Steps
  <2> QED
    BY <1>2, <2>3, <2>4 DEF AddWorktree, TreesAreHeld
<1>3. CASE Rebase(t)
  <2> DEFINE kept == IF HeadIsMerged(t) THEN None ELSE trees[t].head
             more == trees[t].ahead /\ ~HeadIsMerged(t)
             x == [files |-> kept, head |-> kept, fork |-> Tip, ahead |-> more]
  <2>1. kept \in Content /\ more \in BOOLEAN
    BY <1>3 DEF Rebase, HasTree, Tree, Content
  <2>2. trees' = [trees EXCEPT ![t] = x]
    BY <1>3 DEF Rebase
  <2> HIDE DEF kept, more
  <2>3. x \in Tree
    BY <1>1, <2>1 DEF Tree
  <2> HIDE DEF x
  <2>4. trees' \in [Tasks -> Tree \cup {None}] /\ trees'[t] # None
    BY <2>2, <2>3, TreeSet
  <2>5. ctl' \in Control /\ ctl'.task = t
    BY <1>3 DEF Rebase, Continues, Idle, Control, Steps
  <2> QED
    BY <1>3, <2>4, <2>5 DEF Rebase, TreesAreHeld
<1>4. CASE ApplyProposal(t)
  <2>1. PICK c \in Content : trees' = [trees EXCEPT ![t].files = c]
    BY <1>4 DEF ApplyProposal, Content
  <2> QED
    BY <1>4, <2>1, FilesSet DEF ApplyProposal, Ends, Idle, Control, Steps,
       TreesAreHeld, Holding
<1>5. CASE FailAttempt(t)
  <2>1. records' \in [Tasks -> Record]
    BY <1>5, RecordsType
  <2>2. trees' \in [Tasks -> Tree \cup {None}]
    BY <1>5, FilesSet DEF FailAttempt, Content
  <2> QED
    BY <1>5, <2>1, <2>2 DEF FailAttempt, Ends, Idle, Control, Steps,
       TreesAreHeld, Holding
<1>6. CASE RunGates(t)
  <2>1. ctl.task = t /\ trees[t] # None
    BY <1>6 DEF RunGates, At, TreesAreHeld, Holding
  <2>2. ctl' \in Control /\ ctl'.task = t
    <3> DEFINE passed == trees[t].files \in Passing
    <3>1. ctl' = [ctl EXCEPT !.step = "GATED", !.passed = passed]
      BY <1>6 DEF RunGates
    <3>2. passed \in BOOLEAN
      OBVIOUS
    <3> HIDE DEF passed
    <3> QED
      BY <2>1, <3>1, <3>2 DEF Control, Steps
  <2>3. /\ trees' \in [Tasks -> Tree \cup {None}]
        /\ trees'[t] # None
        /\ edits' \in Nat
    <3>1. CASE UNCHANGED <<trees, edits>>
      BY <2>1, <3>1
    <3>2. ASSUME NEW c \in Contents, Changes(t, c)
          PROVE  /\ trees' \in [Tasks -> Tree \cup {None}]
                 /\ trees'[t] # None
                 /\ edits' \in Nat
      <4>1. edits' \in Nat /\ trees' = [trees EXCEPT ![t].files = c]
        BY <3>2 DEF Changes
      <4>2. c \in Content
        BY DEF Content
      <4> QED
        BY <2>1, <4>1, <4>2, FilesSet
    <3> QED
      BY <1>6, <3>1, <3>2 DEF RunGates
  <2> QED
    BY <1>6, <2>2, <2>3 DEF RunGates, TreesAreHeld
<1>7. CASE CommitFinish(t)
  <2>1. ctl.task = t /\ trees[t] # None
    BY <1>7 DEF CommitFinish, At, TreesAreHeld, Holding
  <2> QED
    BY <1>7, <2>1, HeadSet DEF CommitFinish, Continues, Idle, Control, Steps,
       TreesAreHeld
<1>8. CASE MergeFinish(t)
  <2>1. trees[t].head \in Content
    BY <1>8 DEF MergeFinish, At, TreesAreHeld, Holding, Tree
  <2>2. trunk' \in Seq(Commit)
    BY <1>8, <2>1, AppendProperties DEF MergeFinish, Commit
  <2> QED
    BY <1>8, <2>2 DEF MergeFinish, Continues, Idle, Control, Steps,
       TreesAreHeld, Holding
<1>9. CASE RemoveWorktree(t)
  BY <1>9 DEF RemoveWorktree, Continues, Idle, Control, Steps, TreesAreHeld,
     Holding
<1> QED
  BY <1>2, <1>3, <1>4, <1>5, <1>6, <1>7, <1>8, <1>9 DEF TreeStep

LEMMA PeopleStepType ==
  ASSUME TypeInv, PeopleStep
  PROVE  TypeInv'
<1> USE DEF TypeInv, TypeOK
<1>1. ASSUME NEW t \in Tasks, Edit(t)
      PROVE  TypeInv'
  <2>1. PICK c \in Content : Changes(t, c)
    BY <1>1 DEF Edit
  <2>2. edits' \in Nat /\ trees' = [trees EXCEPT ![t].files = c]
    BY <2>1 DEF Changes
  <2>3. /\ trees' \in [Tasks -> Tree \cup {None}]
        /\ \A u \in Tasks : trees[u] # None => trees'[u] # None
    BY <1>1, <2>2, FilesSet DEF Edit, HasTree
  <2> QED
    BY <1>1, <2>2, <2>3 DEF Edit, Disturbs, TreesAreHeld, Holding
<1>2. ASSUME NEW t \in Tasks, CommitWork(t)
      PROVE  TypeInv'
  <2>1. /\ trees' \in [Tasks -> Tree \cup {None}]
        /\ \A u \in Tasks : trees[u] # None => trees'[u] # None
    BY <1>2, HeadSet DEF CommitWork, HasTree
  <2> QED
    BY <1>2, <2>1 DEF CommitWork, Disturbs, TreesAreHeld, Holding
<1>3. ASSUME NEW t \in Tasks, RemoveOrphan(t)
      PROVE  TypeInv'
  <2>1. \A u \in Tasks : u # t => trees'[u] = trees[u]
    BY <1>3 DEF RemoveOrphan
  <2> QED
    BY <1>3, <2>1 DEF RemoveOrphan, TreesAreHeld, Holding
<1>4. CASE Crash
  BY <1>4 DEF Crash, Ends, Idle, Control, Steps, TreesAreHeld, Holding
<1>5. CASE CommitLead
  <2>1. trunk' \in Seq(Commit)
    BY <1>5, AppendProperties DEF CommitLead, Commit, Content
  <2> QED
    BY <1>5, <2>1 DEF CommitLead, TreesAreHeld
<1> QED
  BY <1>1, <1>2, <1>3, <1>4, <1>5 DEF PeopleStep

LEMMA NextSteps ==
  ASSUME Next
  PROVE  \/ \E t \in Tasks : TreeStep(t) \/ RecordStep(t) \/ FailAttempt(t)
         \/ PeopleStep
BY DEF Next, Command, TreeStep, RecordStep, PeopleStep

LEMMA RecordsStay ==
  ASSUME [Next]_vars, ~\E t \in Tasks : RecordStep(t) \/ FailAttempt(t)
  PROVE  records' = records
BY NextSteps DEF TreeStep, PeopleStep, AddWorktree, Rebase, ApplyProposal,
   RunGates, CommitFinish, MergeFinish, RemoveWorktree, Edit, CommitWork,
   RemoveOrphan, Crash, CommitLead, vars

LEMMA TypeStep ==
  ASSUME TypeInv, [Next]_vars
  PROVE  TypeInv'
<1>1. CASE Next
  BY <1>1, NextSteps, TreeStepType, RecordStepType, PeopleStepType
<1>2. CASE UNCHANGED vars
  BY <1>2 DEF vars, TypeInv, TypeOK, TreesAreHeld
<1> QED
  BY <1>1, <1>2

LEMMA TypeInit == Init => TypeInv
<1>1. ASSUME Init
      PROVE  TypeInv
  <2>1. records \in [Tasks -> Record]
    BY <1>1 DEF Init, Record, States
  <2>2. trunk \in Seq(Commit)
    BY <1>1, EmptySeq DEF Init
  <2> QED
    BY <1>1, <2>1, <2>2 DEF Init, TypeInv, TypeOK, TreesAreHeld, Holding,
       Idle, Control, Steps
<1> QED
  BY <1>1

LEMMA TypeInvariant == Spec => []TypeInv
BY TypeInit, TypeStep, PTL DEF Spec

\* Every reachable state of the pipeline has its shape (TypeOK), whatever
\* stopped in between.
THEOREM TypeCorrect == Spec => []TypeOK
<1>1. TypeInv => TypeOK
  BY DEF TypeInv
<1> QED
  BY <1>1, TypeInvariant, PTL
-----------------------------------------------------------------------------
(* What the effects do to the record r of their task: it becomes s.         *)

SameWork(r, s) == s.worktree = r.worktree /\ s.base = r.base
SameCount(r, s) == s.attempts = r.attempts
SameSeals(r, s) == s.validation = r.validation /\ s.review = r.review
NoSeals(s) == s.validation = None /\ s.review = None

\* The facts that the invariants need, action by action.
LEMMA RecordMoves ==
  ASSUME TypeInv, NEW t \in Tasks, RecordStep(t) \/ FailAttempt(t)
  PROVE  LET r == records[t]
             s == records'[t] IN
         /\ \A u \in Tasks : u # t => records'[u] = records[u]
         /\ Create(t) =>
              /\ s.state \in {"BACKLOG", "READY"} /\ SameWork(r, s)
              /\ SameCount(r, s) /\ SameSeals(r, s)
         /\ Ready(t) =>
              /\ s.state = "READY" /\ SameWork(r, s) /\ SameCount(r, s)
              /\ SameSeals(r, s)
         /\ RecordStart(t) =>
              /\ s.state = "ACTIVE" /\ s.worktree
              /\ s.base = trees[t].fork /\ SameCount(r, s)
              /\ SameSeals(r, s)
         /\ RecordRebase(t) =>
              /\ s.state = "ACTIVE" /\ s.worktree = r.worktree
              /\ s.base = Tip /\ SameCount(r, s) /\ NoSeals(s)
         /\ BeginAttempt(t) =>
              /\ s.state = r.state /\ SameWork(r, s)
              /\ s.attempts = r.attempts + 1 /\ NoSeals(s)
         /\ FailAttempt(t) =>
              /\ s.state \in {r.state, "BLOCKED"} /\ SameWork(r, s)
              /\ SameCount(r, s) /\ SameSeals(r, s)
         /\ Escalate(t) =>
              /\ s.state = "BLOCKED" /\ SameWork(r, s)
              /\ SameCount(r, s) /\ SameSeals(r, s)
         /\ Handoff(t) =>
              /\ s.state = "ACTIVE" /\ SameWork(r, s)
              /\ SameCount(r, s) /\ SameSeals(r, s)
         /\ Resume(t) =>
              /\ s.state = "ACTIVE" /\ SameWork(r, s)
              /\ SameCount(r, s) /\ NoSeals(s)
         /\ StartValidation(t) =>
              /\ s.state = "ACTIVE" /\ SameWork(r, s)
              /\ SameCount(r, s) /\ NoSeals(s)
         /\ RecordValidation(t) =>
              /\ \/ Seals(t) /\ s.state = "REVIEW" /\ s.validation = SnapshotOf(t)
                 \/ s.state = r.state /\ s.validation = r.validation
              /\ s.review = r.review /\ SameWork(r, s) /\ SameCount(r, s)
         /\ SubmitReview(t) =>
              /\ s.state \in {"REVIEW", "ACTIVE", "BLOCKED"}
              /\ s.validation = r.validation /\ SameWork(r, s) /\ SameCount(r, s)
              /\ s.review # None /\ s.review.snapshot = r.validation
         /\ CheckFinish(t) => s = r
         /\ MergeFails(t) =>
              /\ s.state = "BLOCKED" /\ SameWork(r, s)
              /\ SameCount(r, s) /\ SameSeals(r, s)
         /\ RecordMerge(t) =>
              /\ s.state = "DONE" /\ SameWork(r, s) /\ SameCount(r, s)
              /\ SameSeals(r, s)
         /\ RecordCleanup(t) =>
              /\ s.state = r.state /\ ~s.worktree /\ s.base = r.base
              /\ SameCount(r, s) /\ SameSeals(r, s)
<1> DEFINE r == records[t]
           s == records'[t]
<1> USE DEF SameWork, SameCount, SameSeals, NoSeals
<1>1. r \in Record /\ records \in [Tasks -> Record]
  BY DEF TypeInv, TypeOK
<1>2. \A u \in Tasks : u # t => records'[u] = records[u]
  BY <1>1 DEF RecordStep, Create, Ready, RecordStart, RecordRebase,
     BeginAttempt, FailAttempt, Escalate, Handoff, Resume, StartValidation,
     RecordValidation, SubmitReview, CheckFinish, MergeFails, RecordMerge,
     RecordCleanup, Saves
<1>3. ASSUME Create(t)
      PROVE  /\ s.state \in {"BACKLOG", "READY"} /\ SameWork(r, s)
             /\ SameCount(r, s) /\ SameSeals(r, s)
  BY <1>1, <1>3 DEF Create, Saves, Record
<1>4. ASSUME Ready(t)
      PROVE  /\ s.state = "READY" /\ SameWork(r, s) /\ SameCount(r, s)
             /\ SameSeals(r, s)
  BY <1>1, <1>4 DEF Ready, Saves, Record
<1>5. ASSUME RecordStart(t)
      PROVE  /\ s.state = "ACTIVE" /\ s.worktree
             /\ s.base = trees[t].fork /\ SameCount(r, s)
             /\ SameSeals(r, s)
  BY <1>1, <1>5 DEF RecordStart, Saves, Record
<1>6. ASSUME RecordRebase(t)
      PROVE  /\ s.state = "ACTIVE" /\ s.worktree = r.worktree
             /\ s.base = Tip /\ SameCount(r, s) /\ NoSeals(s)
  BY <1>1, <1>6 DEF RecordRebase, Saves, Record
<1>7. ASSUME BeginAttempt(t)
      PROVE  /\ s.state = r.state /\ SameWork(r, s)
             /\ s.attempts = r.attempts + 1 /\ NoSeals(s)
  BY <1>1, <1>7 DEF BeginAttempt, Saves, Record
<1>8. ASSUME FailAttempt(t)
      PROVE  /\ s.state \in {r.state, "BLOCKED"} /\ SameWork(r, s)
             /\ SameCount(r, s) /\ SameSeals(r, s)
  BY <1>1, <1>8 DEF FailAttempt, Saves, Record
<1>9. ASSUME Escalate(t)
      PROVE  /\ s.state = "BLOCKED" /\ SameWork(r, s)
             /\ SameCount(r, s) /\ SameSeals(r, s)
  BY <1>1, <1>9 DEF Escalate, Saves, Record
<1>10. ASSUME Handoff(t)
      PROVE  /\ s.state = "ACTIVE" /\ SameWork(r, s)
             /\ SameCount(r, s) /\ SameSeals(r, s)
  BY <1>1, <1>10 DEF Handoff, Saves, Record
<1>11. ASSUME Resume(t)
      PROVE  /\ s.state = "ACTIVE" /\ SameWork(r, s)
             /\ SameCount(r, s) /\ NoSeals(s)
  BY <1>1, <1>11 DEF Resume, Saves, Record, Resumed
<1>12. ASSUME StartValidation(t)
      PROVE  /\ s.state = "ACTIVE" /\ SameWork(r, s)
             /\ SameCount(r, s) /\ NoSeals(s)
  BY <1>1, <1>12 DEF StartValidation, Saves, Record
<1>13. ASSUME RecordValidation(t)
      PROVE  /\ \/ Seals(t) /\ s.state = "REVIEW" /\ s.validation = SnapshotOf(t)
                \/ s.state = r.state /\ s.validation = r.validation
             /\ s.review = r.review /\ SameWork(r, s) /\ SameCount(r, s)
  <2>1. CASE Seals(t)
    <3>1. records' = [records EXCEPT ![t] = [r EXCEPT !.state = "REVIEW",
                                              !.validation = SnapshotOf(t)]]
      BY <1>13, <2>1 DEF RecordValidation, Saves
    <3> QED
      BY <1>1, <2>1, <3>1 DEF Record
  <2>2. CASE ~Seals(t)
    BY <1>1, <1>13, <2>2 DEF RecordValidation, Saves
  <2> QED
    BY <2>1, <2>2
<1>14. ASSUME SubmitReview(t)
      PROVE  /\ s.state \in {"REVIEW", "ACTIVE", "BLOCKED"}
             /\ s.validation = r.validation /\ SameWork(r, s) /\ SameCount(r, s)
             /\ s.review # None /\ s.review.snapshot = r.validation
  <2>1. PICK status \in Verdicts :
          Saves(t, [r EXCEPT
            !.state = AfterReview(status),
            !.review = [status |-> status, snapshot |-> SnapshotOf(t)]])
    BY <1>14 DEF SubmitReview
  <2> DEFINE state == AfterReview(status)
             review == [status |-> status, snapshot |-> SnapshotOf(t)]
  <2>2. state \in {"REVIEW", "ACTIVE", "BLOCKED"}
    BY DEF Verdicts, AfterReview
  <2>3. review # None /\ review.snapshot = r.validation
    BY <1>14, SnapshotType DEF SubmitReview, HasTree, Review, TypeInv, TypeOK
  <2>4. records' = [records EXCEPT ![t] = [r EXCEPT !.state = state,
                                                    !.review = review]]
    BY <2>1 DEF Saves
  <2> HIDE DEF state, review
  <2> QED
    BY <1>1, <2>2, <2>3, <2>4 DEF Record
<1>15. ASSUME CheckFinish(t)
      PROVE  s = r
  BY <1>1, <1>15 DEF CheckFinish, Saves, Record
<1>16. ASSUME MergeFails(t)
      PROVE  /\ s.state = "BLOCKED" /\ SameWork(r, s)
             /\ SameCount(r, s) /\ SameSeals(r, s)
  BY <1>1, <1>16 DEF MergeFails, Saves, Record
<1>17. ASSUME RecordMerge(t)
      PROVE  /\ s.state = "DONE" /\ SameWork(r, s) /\ SameCount(r, s)
             /\ SameSeals(r, s)
  BY <1>1, <1>17 DEF RecordMerge, Saves, Record
<1>18. ASSUME RecordCleanup(t)
      PROVE  /\ s.state = r.state /\ ~s.worktree /\ s.base = r.base
             /\ SameCount(r, s) /\ SameSeals(r, s)
  BY <1>1, <1>18 DEF RecordCleanup, Saves, Record
<1> QED
  BY <1>2, <1>3, <1>4, <1>5, <1>6, <1>7, <1>8, <1>9, <1>10, <1>11, <1>12,
     <1>13, <1>14, <1>15, <1>16, <1>17, <1>18
-----------------------------------------------------------------------------
(* Scopes.                                                                  *)

InWork(t) == records[t].worktree /\ State(t) # "DONE"

Working == {"REBASED", "CALLING", "VALIDATING", "GATED", "CHECKED",
            "COMMITTED", "MERGED"}

\* A task has no worktree before it is started, and the command that is
\* running found its task in a state that it has still.
StatesAreCurrent ==
  /\ \A t \in Tasks :
       State(t) \in {"ABSENT", "BACKLOG", "READY"} => ~records[t].worktree
  /\ ctl.step = "STARTED" =>
       State(ctl.task) = "READY" /\ ~ScopeLocked(ctl.task)
  /\ ctl.step \in Working =>
       State(ctl.task) \in {"ACTIVE", "REVIEW"} /\ records[ctl.task].worktree
  /\ ctl.step = "REMOVED" => State(ctl.task) = "DONE"

ScopeInv == TypeInv /\ StatesAreCurrent /\ ScopesAreExclusive

\* Only the end of start brings a task into work.
LEMMA WorkOnlyStarts ==
  ASSUME ScopeInv, NEW t \in Tasks, RecordStep(t) \/ FailAttempt(t),
         ~RecordStart(t)
  PROVE  \A u \in Tasks : InWork(u)' => InWork(u)
<1>1. \A u \in Tasks : u # t => (InWork(u)' <=> InWork(u))
  BY RecordMoves DEF ScopeInv, InWork, State
<1>2. InWork(t)' => InWork(t)
  <2> USE DEF ScopeInv, StatesAreCurrent, Working, InWork, State, SameWork, At,
              HasTree
  <2>1. CASE Create(t) \/ Ready(t)
    BY <2>1, RecordMoves DEF Create, Ready
  <2>2. CASE RecordRebase(t) \/ FailAttempt(t) \/ RecordValidation(t)
    BY <2>2, RecordMoves DEF RecordRebase, FailAttempt, RecordValidation
  <2>3. CASE BeginAttempt(t) \/ Escalate(t) \/ Handoff(t) \/ Resume(t)
    BY <2>3, RecordMoves DEF BeginAttempt, Escalate, Handoff, Resume
  <2>4. CASE StartValidation(t) \/ SubmitReview(t) \/ CheckFinish(t)
    BY <2>4, RecordMoves DEF StartValidation, SubmitReview, CheckFinish
  <2>5. CASE MergeFails(t) \/ RecordMerge(t) \/ RecordCleanup(t)
    BY <2>5, RecordMoves DEF MergeFails, RecordMerge, RecordCleanup
  <2> QED
    BY <2>1, <2>2, <2>3, <2>4, <2>5 DEF RecordStep
<1> QED
  BY <1>1, <1>2

LEMMA ScopesStayExclusive ==
  ASSUME ScopeInv, \A u \in Tasks : InWork(u)' => InWork(u)
  PROVE  /\ ScopesAreExclusive'
         /\ \A t \in Tasks : ScopeLocked(t)' => ScopeLocked(t)
BY DEF ScopeInv, ScopesAreExclusive, ScopeLocked, InWork, State

LEMMA StartKeepsScopes ==
  ASSUME ScopeInv, NEW t \in Tasks, RecordStart(t)
  PROVE  ScopesAreExclusive'
<1>1. \A u \in Overlaps[t] : u # t => u \in Tasks /\ ~InWork(u)
  BY DEF ScopeInv, StatesAreCurrent, RecordStart, At, ScopeLocked, InWork
<1>2. \A u \in Tasks : u # t => (InWork(u)' <=> InWork(u))
  BY RecordMoves DEF ScopeInv, RecordStep, InWork, State
<1>3. ASSUME NEW u \in Tasks, NEW w \in Overlaps[u], w # u,
             InWork(u)', InWork(w)'
      PROVE  FALSE
  <2>1. w \in Tasks /\ u \in Overlaps[w]
    OBVIOUS
  <2>2. u # t /\ w # t
    BY <1>1, <1>2, <1>3, <2>1
  <2> QED
    BY <1>2, <1>3, <2>1, <2>2 DEF ScopeInv, ScopesAreExclusive, InWork
<1> QED
  BY <1>3 DEF ScopesAreExclusive, InWork

LEMMA RecordStepStates ==
  ASSUME ScopeInv, NEW t \in Tasks, RecordStep(t) \/ FailAttempt(t)
  PROVE  StatesAreCurrent'
<1> USE DEF ScopeInv, StatesAreCurrent, Working, State, SameWork, At, HasTree
<1>1. \A u \in Tasks : u # t => records'[u] = records[u]
  BY RecordMoves
<1>2. ASSUME State(t)' \in {"ABSENT", "BACKLOG", "READY"}
      PROVE  ~records'[t].worktree
  BY <1>2, RecordMoves DEF RecordStep, Create, Ready, RecordStart, RecordRebase,
     BeginAttempt, FailAttempt, Escalate, Handoff, Resume, StartValidation,
     RecordValidation, SubmitReview, CheckFinish, MergeFails, RecordMerge,
     RecordCleanup
<1>3. CASE Ends \/ (Free /\ ctl' = ctl)
  <2>1. ctl'.step = "IDLE"
    BY <1>3 DEF Ends, Idle, Free
  <2> QED
    BY <1>1, <1>2, <2>1
<1>4. CASE BeginAttempt(t) \/ StartValidation(t) \/ CheckFinish(t)
  <2>1. ctl'.task = t /\ ctl'.step \in {"CALLING", "VALIDATING", "CHECKED"}
    BY <1>4 DEF BeginAttempt, StartValidation, CheckFinish, Continues, Idle
  <2>2. records[t].worktree /\ State(t) \in {"ACTIVE", "REVIEW"}
    BY <1>4 DEF BeginAttempt, StartValidation, CheckFinish
  <2>3. records'[t].worktree /\ State(t)' \in {"ACTIVE", "REVIEW"}
    BY <1>4, <2>2, RecordMoves DEF RecordStep
  <2> QED
    BY <1>1, <1>2, <2>1, <2>3
<1>5. \/ Ends \/ (Free /\ ctl' = ctl)
      \/ BeginAttempt(t) \/ StartValidation(t) \/ CheckFinish(t)
  <2>1. CASE Create(t) \/ Ready(t) \/ Escalate(t)
    BY <2>1 DEF Create, Ready, Escalate
  <2>2. CASE Handoff(t) \/ Resume(t) \/ SubmitReview(t)
    BY <2>2 DEF Handoff, Resume, SubmitReview
  <2>3. CASE RecordStart(t) \/ RecordRebase(t) \/ FailAttempt(t)
    BY <2>3 DEF RecordStart, RecordRebase, FailAttempt
  <2>4. CASE RecordValidation(t) \/ MergeFails(t)
    BY <2>4 DEF RecordValidation, MergeFails
  <2>5. CASE RecordMerge(t) \/ RecordCleanup(t)
    BY <2>5 DEF RecordMerge, RecordCleanup
  <2> QED
    BY <2>1, <2>2, <2>3, <2>4, <2>5 DEF RecordStep
<1> QED
  BY <1>3, <1>4, <1>5

LEMMA OtherStepStates ==
  ASSUME ScopeInv, (\E t \in Tasks : TreeStep(t)) \/ PeopleStep
  PROVE  StatesAreCurrent' /\ ScopesAreExclusive'
<1>1. records' = records
  BY DEF TreeStep, PeopleStep, AddWorktree, Rebase, ApplyProposal, RunGates,
     CommitFinish, MergeFinish, RemoveWorktree, Edit, CommitWork, RemoveOrphan,
     Crash, CommitLead
<1>2. \A u \in Tasks : /\ State(u)' = State(u)
                       /\ ScopeLocked(u)' <=> ScopeLocked(u)
  BY <1>1 DEF State, ScopeLocked
<1>3. ScopesAreExclusive'
  BY <1>1 DEF ScopeInv, ScopesAreExclusive, State
<1>4. StatesAreCurrent'
  <2> USE DEF ScopeInv, StatesAreCurrent, Working
  <2>1. CASE PeopleStep
    <3>1. ctl' = ctl \/ Ends
      BY <2>1 DEF PeopleStep, Edit, CommitWork, RemoveOrphan, Crash, CommitLead
    <3> QED
      BY <1>1, <1>2, <3>1 DEF Ends, Idle, TypeInv, TreesAreHeld
  <2>2. ASSUME NEW t \in Tasks, TreeStep(t)
        PROVE  StatesAreCurrent'
    <3>1. CASE AddWorktree(t)
      BY <1>1, <1>2, <3>1 DEF AddWorktree, Continues, Idle
    <3>2. CASE Rebase(t)
      BY <1>1, <1>2, <3>2 DEF Rebase, Continues, Idle, HasTree
    <3>3. CASE ApplyProposal(t)
      BY <1>1, <1>2, <3>3 DEF ApplyProposal, Ends, Idle
    <3>4. CASE RunGates(t)
      BY <1>1, <1>2, <3>4 DEF RunGates, At, TypeInv, TypeOK, Control
    <3>5. CASE CommitFinish(t)
      BY <1>1, <1>2, <3>5 DEF CommitFinish, At, Continues, Idle
    <3>6. CASE MergeFinish(t)
      BY <1>1, <1>2, <3>6 DEF MergeFinish, At, Continues, Idle
    <3>7. CASE RemoveWorktree(t)
      BY <1>1, <1>2, <3>7 DEF RemoveWorktree, Continues, Idle
    <3> QED
      BY <2>2, <3>1, <3>2, <3>3, <3>4, <3>5, <3>6, <3>7 DEF TreeStep
  <2> QED
    BY <2>1, <2>2
<1> QED
  BY <1>3, <1>4

LEMMA ScopeStep ==
  ASSUME ScopeInv, [Next]_vars
  PROVE  ScopeInv'
<1>1. TypeInv'
  BY TypeStep DEF ScopeInv
<1>2. ASSUME NEW t \in Tasks, RecordStep(t) \/ FailAttempt(t)
      PROVE  StatesAreCurrent' /\ ScopesAreExclusive'
  <2>1. ~RecordStart(t) => ScopesAreExclusive'
    BY <1>2, WorkOnlyStarts, ScopesStayExclusive
  <2> QED
    BY <1>2, <2>1, StartKeepsScopes, RecordStepStates
<1>3. CASE UNCHANGED vars
  BY <1>1, <1>3 DEF vars, ScopeInv, StatesAreCurrent, ScopesAreExclusive, State,
     ScopeLocked
<1>4. CASE Next
  <2>1. CASE \E t \in Tasks : RecordStep(t) \/ FailAttempt(t)
    BY <1>1, <1>2, <2>1 DEF ScopeInv
  <2>2. CASE (\E t \in Tasks : TreeStep(t)) \/ PeopleStep
    BY <1>1, <2>2, OtherStepStates DEF ScopeInv
  <2> QED
    BY <1>4, <2>1, <2>2, NextSteps
<1> QED
  BY <1>3, <1>4

LEMMA ScopeInit == Init => ScopeInv
BY TypeInit DEF Init, ScopeInv, StatesAreCurrent, ScopesAreExclusive, State,
   Idle, Working

LEMMA ScopeInvariant == Spec => []ScopeInv
BY ScopeInit, ScopeStep, PTL DEF Spec

\* Tasks with overlapping scopes are never in work together, for any number
\* of tasks and any overlaps, whatever is blocked, handed off or resumed.
THEOREM ScopesCorrect == Spec => []ScopesAreExclusive
<1>1. ScopeInv => ScopesAreExclusive
  BY DEF ScopeInv
<1> QED
  BY <1>1, ScopeInvariant, PTL
-----------------------------------------------------------------------------
(* Calls of the local model.                                                *)

\* Every call is a counted attempt.
CallInv ==
  /\ TypeInv
  /\ \A t \in Tasks : /\ calls[t] = records[t].attempts
                      /\ records[t].attempts <= 1 + RetryLimit[t]

LEMMA CallStep ==
  ASSUME CallInv, [Next]_vars
  PROVE  CallInv'
<1> USE DEF CallInv
<1>1. TypeInv'
  BY TypeStep
<1>2. ASSUME NEW t \in Tasks, RecordStep(t) \/ FailAttempt(t)
      PROVE  CallInv'
  <2>1. \A u \in Tasks : u # t => records'[u] = records[u]
    BY <1>2, RecordMoves
  <2>2. CASE BeginAttempt(t)
    <3>1. records'[t].attempts = records[t].attempts + 1
      BY <2>2, RecordMoves DEF RecordStep
    <3>2. calls' = [calls EXCEPT ![t] = calls[t] + 1]
      BY <2>2 DEF BeginAttempt
    <3>3. records[t].attempts < 1 + RetryLimit[t]
      BY <2>2 DEF BeginAttempt, LastAttempt, TypeInv, TypeOK, Record
    <3>4. records[t].attempts \in Nat /\ calls \in [Tasks -> Nat]
      BY DEF TypeInv, TypeOK, Record
    <3>5. \A u \in Tasks : calls'[u] = IF u = t THEN calls[t] + 1 ELSE calls[u]
      BY <3>2, <3>4
    <3>6. records'[t].attempts <= 1 + RetryLimit[t]
      BY <3>1, <3>3, <3>4
    <3> QED
      BY <1>1, <2>1, <3>1, <3>5, <3>6
  <2>3. CASE ~BeginAttempt(t)
    <3>1. records'[t].attempts = records[t].attempts
      BY <1>2, <2>3, RecordMoves DEF RecordStep, SameCount
    <3>2. calls' = calls
      BY <1>2, <2>3 DEF RecordStep, Create, Ready, RecordStart, RecordRebase,
         FailAttempt, Escalate, Handoff, Resume, StartValidation,
         RecordValidation, SubmitReview, CheckFinish, MergeFails, RecordMerge,
         RecordCleanup
    <3> QED
      BY <1>1, <2>1, <3>1, <3>2
  <2> QED
    BY <2>2, <2>3
<1>3. CASE (\E t \in Tasks : TreeStep(t)) \/ PeopleStep \/ UNCHANGED vars
  <2>1. records' = records /\ calls' = calls
    BY <1>3 DEF TreeStep, PeopleStep, AddWorktree, Rebase, ApplyProposal,
       RunGates, CommitFinish, MergeFinish, RemoveWorktree, Edit, CommitWork,
       RemoveOrphan, Crash, CommitLead, vars
  <2> QED
    BY <1>1, <2>1
<1> QED
  BY <1>2, <1>3, NextSteps

LEMMA CallInit == Init => CallInv
<1>1. ASSUME Init
      PROVE  CallInv
  <2>1. \A t \in Tasks : calls[t] = 0 /\ records[t].attempts = 0
    BY <1>1 DEF Init
  <2> QED
    BY <1>1, <2>1, TypeInit DEF CallInv
<1> QED
  BY <1>1

\* The local model is called once and retry_limit times more at most, for any
\* task and limit, through all crashes and resumptions.
THEOREM CallsCorrect == Spec => []CallsAreBounded
<1>1. CallInv => CallsAreBounded
  BY DEF CallInv, CallsAreBounded
<1> QED
  BY <1>1, CallInit, CallStep, PTL DEF Spec

-----------------------------------------------------------------------------
(* The trunk, the branches, and the steps of a command.                     *)

LEMMA Appended ==
  ASSUME TypeInv, NEW c \in Commit, trunk' = Append(trunk, c)
  PROVE  /\ Tip \in Nat /\ Tip' = Tip + 1
         /\ trunk'[Tip'] = c
         /\ \A i \in 1..Tip : trunk'[i] = trunk[i]
BY AppendProperties, LenProperties DEF TypeInv, TypeOK, Tip

LEMMA TrunkMoves ==
  ASSUME [Next]_vars
  PROVE  trunk' = trunk \/ CommitLead \/ \E t \in Tasks : MergeFinish(t)
BY DEF Next, Command, vars, Create, Ready, RecordStart, RecordRebase,
   BeginAttempt, FailAttempt, Escalate, Handoff, Resume, StartValidation,
   RecordValidation, SubmitReview, CheckFinish, MergeFails, RecordMerge,
   RecordCleanup, AddWorktree, Rebase, ApplyProposal, RunGates, CommitFinish,
   RemoveWorktree, Edit, CommitWork, RemoveOrphan, Crash

LEMMA TrunkGrows ==
  ASSUME TypeInv, [Next]_vars
  PROVE  /\ Tip \in Nat /\ Tip' \in Nat /\ Tip <= Tip'
         /\ \A i \in 1..Tip : trunk'[i] = trunk[i]
<1>1. Tip \in Nat
  BY LenProperties DEF TypeInv, TypeOK, Tip
<1>2. CASE trunk' = trunk
  BY <1>1, <1>2 DEF Tip
<1>3. ASSUME NEW t \in Tasks, MergeFinish(t)
      PROVE  trunk' = trunk \/ \E c \in Commit : trunk' = Append(trunk, c)
  <2>1. trees[t].head \in Content
    BY <1>3 DEF MergeFinish, At, TypeInv, TypeOK, TreesAreHeld, Holding, Tree
  <2>2. [task |-> t, content |-> trees[t].head] \in Commit
    BY <2>1 DEF Commit
  <2> QED
    BY <1>3, <2>2 DEF MergeFinish
<1>4. ASSUME CommitLead
      PROVE  \E c \in Commit : trunk' = Append(trunk, c)
  <2>1. [task |-> None, content |-> None] \in Commit
    BY DEF Commit, Content
  <2> QED
    BY <1>4, <2>1 DEF CommitLead
<1>5. trunk' = trunk \/ CommitLead \/ \E t \in Tasks : MergeFinish(t)
  BY TrunkMoves
<1> QED
  BY <1>1, <1>2, <1>3, <1>4, <1>5, Appended

\* What a step may do to the branches: a new or a rebased one leaves the trunk
\* at its tip, all the others stay where they are.
LEMMA ForksMove ==
  ASSUME TypeInv, [Next]_vars
  PROVE  \A t \in Tasks : trees'[t] # None =>
           \/ trees[t] # None /\ trees'[t].fork = trees[t].fork
           \/ /\ trees[t] # None \/ AddWorktree(t)
              /\ trees'[t].fork = Tip
<1> SUFFICES ASSUME NEW u \in Tasks, trees'[u] # None
             PROVE  \/ trees[u] # None /\ trees'[u].fork = trees[u].fork
                    \/ /\ trees[u] # None \/ AddWorktree(u)
                       /\ trees'[u].fork = Tip
  OBVIOUS
<1> USE DEF TypeInv, TypeOK
<1>1. CASE trees' = trees
  BY <1>1
<1>2. ASSUME NEW t \in Tasks, AddWorktree(t) \/ Rebase(t)
      PROVE  \/ u # t /\ trees'[u] = trees[u]
             \/ u = t /\ trees'[t].fork = Tip /\ (trees[t] # None \/ AddWorktree(t))
  BY <1>2 DEF AddWorktree, Rebase, HasTree
<1>3. ASSUME NEW t \in Tasks, NEW c \in Content, trees[t] # None,
             trees' = [trees EXCEPT ![t].files = c]
      PROVE  trees[u] # None /\ trees'[u].fork = trees[u].fork
  BY <1>3, FilesSet
<1>4. ASSUME NEW t \in Tasks, CommitFinish(t) \/ CommitWork(t)
      PROVE  trees[u] # None /\ trees'[u].fork = trees[u].fork
  <2>1. trees[t] # None
    BY <1>4 DEF CommitFinish, CommitWork, HasTree, At, TreesAreHeld, Holding
  <2> QED
    BY <1>4, <2>1, HeadSet DEF CommitFinish, CommitWork
<1>5. ASSUME NEW t \in Tasks, RemoveWorktree(t) \/ RemoveOrphan(t)
      PROVE  trees[u] # None /\ trees'[u].fork = trees[u].fork
  BY <1>5 DEF RemoveWorktree, RemoveOrphan
<1>6. ASSUME NEW t \in Tasks, ApplyProposal(t) \/ FailAttempt(t) \/ RunGates(t)
                              \/ Edit(t)
      PROVE  trees[u] # None /\ trees'[u].fork = trees[u].fork
  <2>1. trees[t] # None
    BY <1>6 DEF ApplyProposal, FailAttempt, RunGates, Edit, HasTree, At,
       TreesAreHeld, Holding
  <2>2. trees' = trees \/ \E c \in Content : trees' = [trees EXCEPT ![t].files = c]
    BY <1>6 DEF ApplyProposal, FailAttempt, RunGates, Edit, Changes, Content
  <2> QED
    BY <1>1, <1>3, <2>1, <2>2
<1>7. ASSUME NEW t \in Tasks, RecordStep(t) \/ MergeFinish(t)
      PROVE  trees' = trees
  BY <1>7 DEF RecordStep, Create, Ready, RecordStart, RecordRebase, BeginAttempt,
     Escalate, Handoff, Resume, StartValidation, RecordValidation, SubmitReview,
     CheckFinish, MergeFails, RecordMerge, RecordCleanup, MergeFinish
<1>8. CASE Crash \/ CommitLead \/ UNCHANGED vars
  BY <1>1, <1>8 DEF Crash, CommitLead, vars
<1>9. CASE Next
  BY <1>1, <1>2, <1>4, <1>5, <1>6, <1>7, <1>8, <1>9, NextSteps
     DEF TreeStep, PeopleStep
<1> QED
  BY <1>8, <1>9

\* Which effect brings a command to which step.
Reaches(t) ==
  /\ ctl'.task = t
  /\ \/ AddWorktree(t) /\ ctl'.step = "STARTED"
     \/ Rebase(t) /\ ctl'.step = "REBASED"
     \/ BeginAttempt(t) /\ ctl'.step = "CALLING"
     \/ StartValidation(t) /\ ctl'.step = "VALIDATING"
     \/ RunGates(t) /\ ctl'.step = "GATED"
     \/ CheckFinish(t) /\ ctl'.step = "CHECKED"
     \/ CommitFinish(t) /\ ctl'.step = "COMMITTED"
     \/ MergeFinish(t) /\ ctl'.step = "MERGED"
     \/ RemoveWorktree(t) /\ ctl'.step = "REMOVED"

LEMMA ControlMoves ==
  ASSUME TypeInv, [Next]_vars
  PROVE  ctl' = ctl \/ ctl'.step = "IDLE" \/ \E t \in Tasks : Reaches(t)
<1>1. ASSUME NEW t \in Tasks, AddWorktree(t)
      PROVE  Reaches(t)
  BY <1>1 DEF AddWorktree, Continues, Idle, Reaches
<1>2. ASSUME NEW t \in Tasks, Rebase(t)
      PROVE  Reaches(t)
  BY <1>2 DEF Rebase, Continues, Idle, Reaches
<1>3. ASSUME NEW t \in Tasks, BeginAttempt(t)
      PROVE  Reaches(t)
  BY <1>3 DEF BeginAttempt, Continues, Idle, Reaches
<1>4. ASSUME NEW t \in Tasks, StartValidation(t)
      PROVE  Reaches(t)
  BY <1>4 DEF StartValidation, Idle, Reaches
<1>5. ASSUME NEW t \in Tasks, RunGates(t)
      PROVE  Reaches(t)
  BY <1>5 DEF RunGates, At, TypeInv, TypeOK, Control, Reaches
<1>6. ASSUME NEW t \in Tasks, CheckFinish(t)
      PROVE  Reaches(t)
  BY <1>6 DEF CheckFinish, Continues, Idle, Reaches
<1>7. ASSUME NEW t \in Tasks, CommitFinish(t)
      PROVE  Reaches(t)
  BY <1>7 DEF CommitFinish, Continues, Idle, Reaches
<1>8. ASSUME NEW t \in Tasks, MergeFinish(t)
      PROVE  Reaches(t)
  BY <1>8 DEF MergeFinish, Continues, Idle, Reaches
<1>9. ASSUME NEW t \in Tasks, RemoveWorktree(t)
      PROVE  Reaches(t)
  BY <1>9 DEF RemoveWorktree, Continues, Idle, Reaches
<1>10. ASSUME NEW t \in Tasks, RecordStep(t) \/ FailAttempt(t) \/ ApplyProposal(t),
              ~BeginAttempt(t), ~StartValidation(t), ~CheckFinish(t)
       PROVE  ctl' = ctl \/ Ends
  BY <1>10 DEF RecordStep, Create, Ready, RecordStart, RecordRebase, FailAttempt,
     Escalate, Handoff, Resume, RecordValidation, SubmitReview, MergeFails,
     RecordMerge, RecordCleanup, ApplyProposal
<1>11. CASE PeopleStep \/ UNCHANGED vars
  BY <1>11 DEF PeopleStep, Edit, CommitWork, RemoveOrphan, Crash, CommitLead,
     Ends, Idle, vars
<1>12. Ends => ctl'.step = "IDLE"
  BY DEF Ends, Idle
<1>13. ASSUME NEW t \in Tasks, TreeStep(t) \/ RecordStep(t) \/ FailAttempt(t)
       PROVE  ctl' = ctl \/ ctl'.step = "IDLE" \/ Reaches(t)
  BY <1>1, <1>2, <1>3, <1>4, <1>5, <1>6, <1>7, <1>8, <1>9, <1>10, <1>12, <1>13
     DEF TreeStep
<1> QED
  BY <1>11, <1>13, NextSteps
-----------------------------------------------------------------------------
(* What is merged.                                                          *)

\* Since the commit n of the trunk only the lead committed to it.
OnlyLeadSince(n) == n <= Tip /\ \A i \in n + 1..Tip : trunk[i].task = None

Delivered(t) ==
  \E i \in records[t].base + 1..Tip :
    trunk[i] = [task |-> t, content |-> records[t].review.snapshot.files]

\* What the command that is running has seen of its task is still so, as far
\* as nobody changed it since.
SightIsCurrent ==
  LET t == ctl.task
      r == records[t]
      x == trees[t]
      calm == t \notin disturbed IN
  /\ ctl.step = "VALIDATING" /\ calm /\ ctl.before # None =>
       ctl.before.files = x.files
  /\ ctl.step = "GATED" /\ calm /\ ctl.before # None /\ ctl.passed =>
       ctl.before.files \in Passing
  /\ ctl.step \in {"CHECKED", "COMMITTED"} =>
       /\ Passed(t) /\ r.review.snapshot.base = r.base
       /\ OnlyLeadSince(r.base)
       /\ calm => r.review.snapshot.files \in Passing
  /\ ctl.step = "CHECKED" /\ calm => r.review.snapshot.files = x.files
  /\ ctl.step = "COMMITTED" /\ calm => r.review.snapshot.files = x.head
  /\ ctl.step = "MERGED" /\ calm => Delivered(t)

SealsPass ==
  \A t \in Tasks \ disturbed :
    records[t].validation # None => records[t].validation.files \in Passing

\* A branch that says anything has a commit to say it with.
HeadsAreCommits ==
  \A t \in Tasks : trees[t] # None /\ trees[t].head # None => trees[t].ahead

SealInv ==
  /\ ScopeInv
  /\ SealsPass
  /\ HeadsAreCommits
  /\ SightIsCurrent
  /\ \A t \in Tasks \ disturbed : State(t) = "DONE" => Delivered(t)

\* A disturbance is forgotten only when the validation begins again.
LEMMA DisturbedStays ==
  ASSUME [Next]_vars, NEW t \in Tasks, t \notin disturbed'
  PROVE  t \notin disturbed \/ StartValidation(t)
<1>1. ASSUME NEW u \in Tasks, RecordStep(u) \/ FailAttempt(u) \/ TreeStep(u)
      PROVE  disturbed' = disturbed \/ StartValidation(u)
  BY <1>1 DEF RecordStep, TreeStep, Create, Ready, RecordStart, RecordRebase,
     BeginAttempt, FailAttempt, Escalate, Handoff, Resume, RecordValidation,
     SubmitReview, CheckFinish, MergeFails, RecordMerge, RecordCleanup,
     AddWorktree, Rebase, ApplyProposal, RunGates, CommitFinish, MergeFinish,
     RemoveWorktree
<1>2. ASSUME NEW u \in Tasks, StartValidation(u)
      PROVE  disturbed' = disturbed \ {u}
  BY <1>2 DEF StartValidation
<1>3. CASE PeopleStep \/ UNCHANGED vars
  BY <1>3 DEF PeopleStep, Edit, CommitWork, Disturbs, RemoveOrphan, Crash,
     CommitLead, vars
<1> QED
  BY <1>1, <1>2, <1>3, NextSteps

\* While a command runs and does not go on, only people act.
LEMMA OnlyPeopleWait ==
  ASSUME TypeInv, [Next]_vars, ~Free, ctl' = ctl
  PROVE  \/ \E t \in Tasks : Edit(t) \/ CommitWork(t) \/ RemoveOrphan(t)
         \/ CommitLead \/ UNCHANGED vars
<1> USE DEF TypeInv, TypeOK, Control, Free
<1>1. Ends => FALSE
  BY DEF Ends, Idle
<1>2. ASSUME NEW t \in Tasks, RecordStep(t) \/ FailAttempt(t) \/ TreeStep(t)
      PROVE  FALSE
  <2>1. CASE Create(t) \/ Ready(t) \/ Escalate(t) \/ Handoff(t) \/ Resume(t)
             \/ SubmitReview(t) \/ BeginAttempt(t) \/ StartValidation(t)
             \/ CheckFinish(t) \/ AddWorktree(t) \/ Rebase(t)
             \/ RemoveWorktree(t)
    BY <2>1 DEF Create, Ready, Escalate, Handoff, Resume, SubmitReview,
       BeginAttempt, StartValidation, CheckFinish, AddWorktree, Rebase,
       RemoveWorktree
  <2>2. CASE RecordStart(t) \/ RecordRebase(t) \/ FailAttempt(t)
             \/ RecordValidation(t) \/ MergeFails(t) \/ RecordMerge(t)
             \/ RecordCleanup(t) \/ ApplyProposal(t)
    BY <1>1, <2>2 DEF RecordStart, RecordRebase, FailAttempt, RecordValidation,
       MergeFails, RecordMerge, RecordCleanup, ApplyProposal
  <2>3. CASE RunGates(t) \/ CommitFinish(t) \/ MergeFinish(t)
    <3>1. ctl.step \in {"VALIDATING", "CHECKED", "COMMITTED"} /\ ctl' # ctl
      BY <2>3 DEF RunGates, CommitFinish, MergeFinish, At, Continues, Idle
    <3> QED
      BY <3>1
  <2> QED
    BY <1>2, <2>1, <2>2, <2>3 DEF RecordStep, TreeStep
<1>3. ~Crash
  BY <1>1 DEF Crash
<1> QED
  BY <1>2, <1>3, NextSteps DEF PeopleStep

\* What people do meanwhile changes nothing that the command has seen of its
\* task, or disturbs the task.
LEMMA PeopleDisturb ==
  ASSUME TypeInv, [Next]_vars, ~Free, ctl' = ctl
  PROVE  LET t == ctl.task IN
         /\ records' = records /\ (trunk' = trunk \/ CommitLead)
         /\ t \notin disturbed' => t \notin disturbed
         /\ /\ t \notin disturbed'
            /\ ctl.step \in {"VALIDATING", "CHECKED"}
            => trees'[t].files = trees[t].files
         /\ t \notin disturbed' /\ ctl.step = "COMMITTED" =>
              trees'[t].head = trees[t].head
<1> USE DEF TypeInv, TypeOK, Free
<1> DEFINE t == ctl.task
<1>1. t \in Tasks
  BY DEF TreesAreHeld
<1>2. ctl.step \in {"VALIDATING", "CHECKED", "COMMITTED"} => trees[t] # None
  BY DEF TreesAreHeld, Holding
<1>3. ASSUME NEW u \in Tasks, Edit(u)
      PROVE  /\ disturbed \subseteq disturbed'
             /\ u = t /\ ctl.step \in {"VALIDATING", "CHECKED"} =>
                  t \in disturbed'
             /\ trees'[u].head = trees[u].head
             /\ \A v \in Tasks : v # u => trees'[v] = trees[v]
  <2>1. PICK c \in Content : trees' = [trees EXCEPT ![u].files = c]
    BY <1>3 DEF Edit, Changes
  <2>2. trees[u] # None
    BY <1>3 DEF Edit, HasTree
  <2>3. /\ trees'[u].head = trees[u].head
        /\ \A v \in Tasks : v # u => trees'[v] = trees[v]
    BY <2>1, <2>2, FilesSet
  <2> QED
    BY <1>3, <2>3 DEF Edit, Disturbs
<1>4. ASSUME NEW u \in Tasks, CommitWork(u)
      PROVE  /\ disturbed \subseteq disturbed'
             /\ u = t /\ ctl.step = "COMMITTED" => t \in disturbed'
             /\ trees'[u].files = trees[u].files
             /\ \A v \in Tasks : v # u => trees'[v] = trees[v]
  <2>1. /\ trees'[u].files = trees[u].files
        /\ \A v \in Tasks : v # u => trees'[v] = trees[v]
    BY <1>4, HeadSet DEF CommitWork, HasTree
  <2> QED
    BY <1>4, <2>1 DEF CommitWork, Disturbs
<1>5. ASSUME NEW u \in Tasks, RemoveOrphan(u)
      PROVE  disturbed' = disturbed /\ trees'[t] = trees[t]
  BY <1>1, <1>5 DEF RemoveOrphan
<1>6. CASE CommitLead \/ UNCHANGED vars
  BY <1>6 DEF CommitLead, vars
<1>7. ASSUME NEW u \in Tasks, Edit(u) \/ CommitWork(u) \/ RemoveOrphan(u)
      PROVE  records' = records /\ trunk' = trunk
  BY <1>7 DEF Edit, CommitWork, RemoveOrphan
<1>8. CASE \E u \in Tasks : Edit(u)
  BY <1>1, <1>3, <1>7, <1>8
<1>9. CASE \E u \in Tasks : CommitWork(u)
  BY <1>1, <1>4, <1>7, <1>9
<1>10. CASE \E u \in Tasks : RemoveOrphan(u)
  BY <1>1, <1>5, <1>7, <1>10
<1> QED
  BY <1>6, <1>8, <1>9, <1>10, OnlyPeopleWait

\* A commit of the lead is one of the lead.
LEMMA OnlyLeadStays ==
  ASSUME TypeInv, NEW n \in Nat, OnlyLeadSince(n), trunk' = trunk \/ CommitLead
  PROVE  OnlyLeadSince(n)'
<1>1. CASE trunk' = trunk
  BY <1>1 DEF OnlyLeadSince, Tip
<1>2. CASE CommitLead
  <2> DEFINE c == [task |-> None, content |-> None]
  <2>1. c \in Commit /\ c.task = None /\ trunk' = Append(trunk, c)
    BY <1>2 DEF Commit, Content, CommitLead
  <2> HIDE DEF c
  <2>2. /\ Tip \in Nat /\ Tip' = Tip + 1 /\ trunk'[Tip'].task = None
        /\ \A i \in 1..Tip : trunk'[i] = trunk[i]
    BY <2>1, Appended
  <2>3. n <= Tip /\ \A i \in n + 1..Tip : trunk[i].task = None
    BY DEF OnlyLeadSince
  <2> HIDE DEF Tip
  <2>4. n <= Tip' /\ \A i \in n + 1..Tip' : trunk'[i].task = None
    <3>1. ASSUME NEW i \in n + 1..Tip'
          PROVE  trunk'[i].task = None
      <4>1. i = Tip' \/ i \in n + 1..Tip
        BY <2>2
      <4>2. i \in n + 1..Tip => i \in 1..Tip
        BY <2>2
      <4> QED
        BY <2>2, <2>3, <4>1, <4>2
    <3> QED
      BY <2>2, <2>3, <3>1
  <2> QED
    BY <2>4 DEF OnlyLeadSince
<1> QED
  BY <1>1, <1>2

LEMMA SealsKeepPassing ==
  ASSUME SealInv, [Next]_vars
  PROVE  SealsPass'
<1> SUFFICES ASSUME NEW t \in Tasks, t \notin disturbed',
                    records'[t].validation # None
             PROVE  records'[t].validation.files \in Passing
  BY DEF SealsPass
<1> USE DEF SealInv, ScopeInv
<1>1. ~StartValidation(t)
  BY RecordMoves DEF RecordStep, NoSeals
<1>2. t \notin disturbed
  BY <1>1, DisturbedStays
<1>3. CASE records'[t].validation = records[t].validation
  BY <1>2, <1>3 DEF SealsPass
<1>4. ASSUME NEW u \in Tasks, RecordStep(u) \/ FailAttempt(u)
      PROVE  records'[t].validation.files \in Passing
  <2>1. CASE u # t
    BY <1>3, <1>4, <2>1, RecordMoves
  <2>2. CASE u = t /\ ~RecordValidation(t)
    <3>1. records'[t].validation \in {records[t].validation, None}
      BY <1>4, <2>2, RecordMoves DEF RecordStep, SameSeals, NoSeals
    <3> QED
      BY <1>3, <3>1
  <2>3. CASE u = t /\ RecordValidation(t)
    <3>1. CASE Seals(t) /\ records'[t].validation = SnapshotOf(t)
      <4>1. /\ ctl.before # None /\ ctl.passed /\ ctl.step = "GATED"
            /\ ctl.task = t /\ SnapshotOf(t) = ctl.before
        BY <2>3, <3>1 DEF Seals, RecordValidation, At
      <4> QED
        BY <1>2, <3>1, <4>1 DEF SightIsCurrent
    <3> QED
      BY <1>3, <1>4, <2>3, <3>1, RecordMoves
  <2> QED
    BY <2>1, <2>2, <2>3
<1>5. CASE ~\E u \in Tasks : RecordStep(u) \/ FailAttempt(u)
  <2>1. records' = records
    BY <1>5, RecordsStay
  <2> QED
    BY <1>3, <2>1
<1> QED
  BY <1>4, <1>5

LEMMA HeadsStayCommits ==
  ASSUME TypeInv, HeadsAreCommits, [Next]_vars
  PROVE  HeadsAreCommits'
<1> SUFFICES ASSUME NEW u \in Tasks, trees'[u] # None, trees'[u].head # None
             PROVE  trees'[u].ahead
  BY DEF HeadsAreCommits
<1> USE DEF TypeInv, TypeOK
<1>1. CASE trees'[u] = trees[u]
  BY <1>1 DEF HeadsAreCommits
<1>2. ASSUME NEW t \in Tasks, AddWorktree(t)
      PROVE  trees'[u].ahead
  <2>1. u # t
    BY <1>2 DEF AddWorktree
  <2> QED
    BY <1>1, <1>2, <2>1 DEF AddWorktree
<1>3. ASSUME NEW t \in Tasks, Rebase(t)
      PROVE  trees'[u].ahead
  <2>1. CASE u = t
    <3>1. /\ trees'[t].head = IF HeadIsMerged(t) THEN None ELSE trees[t].head
          /\ trees'[t].ahead = (trees[t].ahead /\ ~HeadIsMerged(t))
      BY <1>3 DEF Rebase
    <3>2. trees[t] # None
      BY <1>3 DEF Rebase, HasTree
    <3> QED
      BY <2>1, <3>1, <3>2 DEF HeadsAreCommits
  <2>2. CASE u # t
    BY <1>1, <1>3, <2>2 DEF Rebase
  <2> QED
    BY <2>1, <2>2
<1>4. ASSUME NEW t \in Tasks, NEW c \in Content, trees[t] # None,
             trees' = [trees EXCEPT ![t].files = c]
      PROVE  trees'[u].ahead
  BY <1>1, <1>4, FilesSet DEF HeadsAreCommits
<1>5. ASSUME NEW t \in Tasks, CommitFinish(t) \/ CommitWork(t)
      PROVE  trees'[u].ahead
  <2>1. trees[t] # None
    BY <1>5 DEF CommitFinish, CommitWork, HasTree, At, TreesAreHeld, Holding
  <2>2. /\ trees'[t].head = trees[t].files
        /\ trees'[t].ahead = (trees[t].ahead \/ trees[t].files # trees[t].head)
        /\ \A v \in Tasks : v # t => trees'[v] = trees[v]
    BY <1>5, <2>1, HeadSet DEF CommitFinish, CommitWork
  <2> QED
    BY <1>1, <2>1, <2>2 DEF HeadsAreCommits
<1>6. ASSUME NEW t \in Tasks, RemoveWorktree(t) \/ RemoveOrphan(t)
      PROVE  trees'[u].ahead
  BY <1>1, <1>6 DEF RemoveWorktree, RemoveOrphan
<1>7. ASSUME NEW t \in Tasks, ApplyProposal(t) \/ FailAttempt(t) \/ RunGates(t)
                              \/ Edit(t)
      PROVE  trees'[u].ahead
  <2>1. trees[t] # None
    BY <1>7 DEF ApplyProposal, FailAttempt, RunGates, Edit, HasTree, At,
       TreesAreHeld, Holding
  <2>2. trees' = trees \/ \E c \in Content : trees' = [trees EXCEPT ![t].files = c]
    BY <1>7 DEF ApplyProposal, FailAttempt, RunGates, Edit, Changes, Content
  <2> QED
    BY <1>1, <1>4, <2>1, <2>2
<1>8. ASSUME NEW t \in Tasks, RecordStep(t) \/ MergeFinish(t)
      PROVE  trees' = trees
  BY <1>8 DEF RecordStep, Create, Ready, RecordStart, RecordRebase, BeginAttempt,
     Escalate, Handoff, Resume, StartValidation, RecordValidation, SubmitReview,
     CheckFinish, MergeFails, RecordMerge, RecordCleanup, MergeFinish
<1>9. CASE Crash \/ CommitLead \/ UNCHANGED vars
  BY <1>1, <1>9 DEF Crash, CommitLead, vars
<1>10. CASE Next
  BY <1>1, <1>2, <1>3, <1>5, <1>6, <1>7, <1>8, <1>9, <1>10, NextSteps
     DEF TreeStep, PeopleStep
<1> QED
  BY <1>9, <1>10

\* What was delivered stays delivered, as long as the record says the same.
LEMMA DeliveredStays ==
  ASSUME TypeInv, [Next]_vars, NEW t \in Tasks, Delivered(t),
         records'[t].base = records[t].base,
         records'[t].review = records[t].review
  PROVE  Delivered(t)'
<1>1. PICK i \in records[t].base + 1..Tip :
        trunk[i] = [task |-> t, content |-> records[t].review.snapshot.files]
  BY DEF Delivered
<1>2. records[t].base \in Nat
  BY DEF TypeInv, TypeOK, Record
<1>3. i \in 1..Tip /\ i \in records[t].base + 1..Tip'
  BY <1>1, <1>2, TrunkGrows
<1>4. trunk'[i] = trunk[i]
  BY <1>3, TrunkGrows
<1> QED
  BY <1>1, <1>3, <1>4 DEF Delivered

LEMMA DoneStaysDelivered ==
  ASSUME SealInv, [Next]_vars, NEW t \in Tasks, State(t)' = "DONE",
         t \notin disturbed'
  PROVE  Delivered(t)'
<1> USE DEF SealInv, ScopeInv
<1>1. ~StartValidation(t)
  BY RecordMoves DEF RecordStep, State
<1>2. t \notin disturbed
  BY <1>1, DisturbedStays
<1>3. CASE records'[t] = records[t]
  BY <1>2, <1>3, DeliveredStays DEF State
<1>4. ASSUME NEW u \in Tasks, RecordStep(u) \/ FailAttempt(u)
      PROVE  Delivered(t)'
  <2>1. CASE u # t
    BY <1>3, <1>4, <2>1, RecordMoves
  <2>2. CASE u = t /\ RecordMerge(t)
    <3>1. Delivered(t)
      BY <1>2, <2>2 DEF RecordMerge, At, SightIsCurrent
    <3>2. SameWork(records[t], records'[t]) /\ SameSeals(records[t], records'[t])
      BY <2>2, RecordMoves DEF RecordStep
    <3> QED
      BY <3>1, <3>2, DeliveredStays DEF SameWork, SameSeals
  <2>3. CASE u = t /\ RecordCleanup(t)
    <3>1. State(t) = "DONE"
      BY <2>3 DEF RecordCleanup, At, StatesAreCurrent
    <3>2. /\ records'[t].base = records[t].base
          /\ SameSeals(records[t], records'[t])
      BY <2>3, RecordMoves DEF RecordStep
    <3> QED
      BY <1>2, <3>1, <3>2, DeliveredStays DEF SameSeals
  <2>4. CASE u = t /\ CheckFinish(t)
    BY <1>3, <2>4, RecordMoves DEF RecordStep
  <2>5. CASE u = t /\ (FailAttempt(t) \/ RecordValidation(t))
    <3>1. State(t) # "DONE"
      BY <2>5 DEF FailAttempt, RecordValidation, At, StatesAreCurrent, Working
    <3> QED
      BY <2>5, <3>1, RecordMoves DEF State, RecordStep
  <2>6. CASE u = t /\ BeginAttempt(t)
    BY <2>6, RecordMoves DEF BeginAttempt, State, RecordStep
  <2> QED
    BY <1>4, <2>1, <2>2, <2>3, <2>4, <2>5, <2>6, RecordMoves
       DEF RecordStep, State
<1>5. CASE ~\E u \in Tasks : RecordStep(u) \/ FailAttempt(u)
  <2>1. records' = records
    BY <1>5, RecordsStay
  <2> QED
    BY <1>3, <2>1
<1> QED
  BY <1>4, <1>5

\* The command goes on from what it saw, task by task and step by step.
LEMMA SightStaysCurrent ==
  ASSUME SealInv, [Next]_vars
  PROVE  SightIsCurrent'
<1> USE DEF SealInv, ScopeInv
<1>1. CASE ctl'.step = "IDLE"
  BY <1>1 DEF SightIsCurrent
<1>2. CASE ctl' = ctl /\ ctl.step # "IDLE"
  <2> DEFINE t == ctl.task
             r == records[t]
  <2>1. t \in Tasks /\ r.base \in Nat
    BY <1>2 DEF TypeInv, TypeOK, TreesAreHeld, Record
  <2>2. /\ records' = records /\ (trunk' = trunk \/ CommitLead)
        /\ t \notin disturbed' => t \notin disturbed
        /\ /\ t \notin disturbed'
           /\ ctl.step \in {"VALIDATING", "CHECKED"}
           => trees'[t].files = trees[t].files
        /\ t \notin disturbed' /\ ctl.step = "COMMITTED" =>
             trees'[t].head = trees[t].head
    BY <1>2, PeopleDisturb DEF Free
  <2>3. Passed(t)' <=> Passed(t)
    BY <1>2, <2>2 DEF Passed
  <2>4. OnlyLeadSince(r.base) => OnlyLeadSince(r.base)'
    <3>1. ASSUME NEW n \in Nat, OnlyLeadSince(n), n = r.base, r.base' = r.base
          PROVE  OnlyLeadSince(r.base)'
      <4>1. OnlyLeadSince(n)'
        BY <2>2, <3>1, OnlyLeadStays
      <4> QED
        BY <3>1, <4>1 DEF OnlyLeadSince
    <3> QED
      BY <1>2, <2>1, <2>2, <3>1
  <2>5. Delivered(t) => Delivered(t)'
    <3>1. ASSUME NEW u \in Tasks, Delivered(u), u = t
          PROVE  Delivered(u)'
      BY <2>2, <3>1, DeliveredStays
    <3> QED
      BY <1>2, <2>1, <3>1 DEF Delivered
  <2> QED
    BY <1>2, <2>2, <2>3, <2>4, <2>5 DEF SightIsCurrent
<1>3. ASSUME NEW t \in Tasks, Reaches(t)
      PROVE  SightIsCurrent'
  <2>1. ctl'.task = t
    BY <1>3 DEF Reaches
  <2>2. CASE AddWorktree(t) \/ Rebase(t) \/ BeginAttempt(t) \/ RemoveWorktree(t)
    <3>1. ctl'.step \in {"STARTED", "REBASED", "CALLING", "REMOVED"}
      BY <2>2 DEF AddWorktree, Rebase, BeginAttempt, RemoveWorktree, Continues,
         Idle
    <3> QED
      BY <3>1 DEF SightIsCurrent
  <2>3. CASE StartValidation(t)
    <3>1. /\ ctl'.step = "VALIDATING" /\ trees' = trees
          /\ ctl'.before \in {None, SnapshotOf(t)}
      BY <2>3 DEF StartValidation, Idle
    <3>2. SnapshotOf(t).files = trees[t].files
      BY DEF SnapshotOf
    <3> QED
      BY <2>1, <3>1, <3>2 DEF SightIsCurrent
  <2>4. CASE RunGates(t)
    <3>1. /\ ctl'.step = "GATED" /\ ctl'.before = ctl.before
          /\ ctl'.passed = (trees[t].files \in Passing)
          /\ disturbed' = disturbed
      BY <2>4 DEF RunGates, TypeInv, TypeOK, Control
    <3>2. ctl.step = "VALIDATING" /\ ctl.task = t
      BY <2>4 DEF RunGates, At
    <3> QED
      BY <2>1, <3>1, <3>2 DEF SightIsCurrent
  <2>5. CASE CheckFinish(t)
    <3>1. /\ ctl'.step = "CHECKED" /\ records' = records /\ trees' = trees
          /\ Tip' = Tip /\ Tip = records[t].base /\ disturbed' = disturbed
      BY <2>5 DEF CheckFinish, Continues, Idle, Tip
    <3>2. /\ Passed(t)
          /\ SnapshotOf(t) = records[t].review.snapshot
          /\ SnapshotOf(t) = records[t].validation
      BY <2>5 DEF CheckFinish, Approved
    <3>3. SnapshotOf(t) # None
      BY <2>5, SnapshotType DEF CheckFinish, HasTree, TypeInv, TypeOK
    <3>4. /\ SnapshotOf(t).files = trees[t].files
          /\ SnapshotOf(t).base = records[t].base
      BY DEF SnapshotOf
    <3>5. t \notin disturbed => SnapshotOf(t).files \in Passing
      BY <3>2, <3>3 DEF SealsPass
    <3>6. Passed(t)'
      BY <3>1, <3>2 DEF Passed
    <3>7. OnlyLeadSince(records[t].base)'
      <4>1. Tip \in Nat
        BY TrunkGrows
      <4> HIDE DEF Tip
      <4> QED
        BY <3>1, <4>1 DEF OnlyLeadSince
    <3> QED
      BY <2>1, <3>1, <3>2, <3>4, <3>5, <3>6, <3>7 DEF SightIsCurrent
  <2>6. CASE CommitFinish(t)
    <3>1. /\ ctl'.step = "COMMITTED" /\ records' = records /\ trunk' = trunk
          /\ disturbed' = disturbed
      BY <2>6 DEF CommitFinish, Continues, Idle
    <3>2. ctl.step = "CHECKED" /\ ctl.task = t /\ trees[t] # None
      BY <2>6 DEF CommitFinish, At, TypeInv, TreesAreHeld, Holding
    <3>3. trees'[t].files = trees[t].files /\ trees'[t].head = trees[t].files
      BY <2>6, <3>2, HeadSet DEF CommitFinish, TypeInv, TypeOK
    <3> QED
      BY <2>1, <3>1, <3>2, <3>3
         DEF SightIsCurrent, Passed, OnlyLeadSince, Tip
  <2>7. CASE MergeFinish(t)
    <3>1. /\ ctl'.step = "MERGED" /\ records' = records
          /\ disturbed' = disturbed
      BY <2>7 DEF MergeFinish, Continues, Idle
    <3>2. ctl.step = "COMMITTED" /\ ctl.task = t /\ trees[t] # None
      BY <2>7 DEF MergeFinish, At, TypeInv, TreesAreHeld, Holding
    <3>3. ASSUME t \notin disturbed
          PROVE  Delivered(t)'
      <4>1. /\ records[t].review.snapshot.files = trees[t].head
            /\ trees[t].head \in Passing
            /\ records[t].base <= Tip /\ records[t].base \in Nat
        BY <3>2, <3>3
           DEF SightIsCurrent, OnlyLeadSince, TypeInv, TypeOK, Record
      <4>2. trees[t].head # None
        BY <4>1
      <4> DEFINE c == [task |-> t, content |-> trees[t].head]
      <4>3. trunk' = Append(trunk, c)
        BY <2>7, <3>2, <4>2 DEF HeadsAreCommits, MergeFinish
      <4>4. c \in Commit
        BY <3>2 DEF Commit, TypeInv, TypeOK, Tree
      <4>5. Tip \in Nat /\ Tip' = Tip + 1 /\ trunk'[Tip'] = c
        BY <4>3, <4>4, Appended
      <4>6. Tip' \in records[t].base + 1 .. Tip'
        <5> HIDE DEF Tip
        <5> QED
          BY <4>1, <4>5
      <4> QED
        BY <3>1, <4>1, <4>5, <4>6 DEF Delivered
    <3> QED
      BY <2>1, <3>1, <3>3 DEF SightIsCurrent, Delivered
  <2> QED
    BY <1>3, <2>2, <2>3, <2>4, <2>5, <2>6, <2>7 DEF Reaches
<1> QED
  BY <1>1, <1>2, <1>3, ControlMoves

LEMMA SealStep ==
  ASSUME SealInv, [Next]_vars
  PROVE  SealInv'
<1>1. ScopeInv'
  BY ScopeStep DEF SealInv
<1>2. \A t \in Tasks : State(t)' = "DONE" /\ t \notin disturbed' => Delivered(t)'
  BY DoneStaysDelivered
<1>3. HeadsAreCommits'
  BY HeadsStayCommits DEF SealInv, ScopeInv
<1> QED
  BY <1>1, <1>2, <1>3, SealsKeepPassing, SightStaysCurrent DEF SealInv

LEMMA SealInit == Init => SealInv
<1>1. ASSUME Init
      PROVE  SealInv
  <2>1. \A t \in Tasks : /\ State(t) = "ABSENT" /\ records[t].validation = None
                         /\ trees[t] = None
    BY <1>1 DEF Init, State
  <2>2. ctl.step = "IDLE"
    BY <1>1 DEF Init, Idle
  <2> QED
    BY <1>1, <2>1, <2>2, ScopeInit
       DEF SealInv, SealsPass, HeadsAreCommits, SightIsCurrent
<1> QED
  BY <1>1

\* A task is done only when the reviewed content is on the trunk behind its
\* base, whatever merge fails and wherever the controller stops, unless
\* somebody changed the content between a check and its use (finish).
THEOREM DoneCorrect == Spec => []DoneIsMerged
<1>1. Init => SealInv
  BY SealInit
<1>2. SealInv /\ [Next]_vars => SealInv'
  BY SealStep
<1>3. SealInv => DoneIsMerged
  BY DEF SealInv, DoneIsMerged, Delivered, Tip
<1> QED
  BY <1>1, <1>2, <1>3, PTL DEF Spec

\* Whoever edits at whatever moment, nothing is merged but a task whose review
\* passed, and over no merge of another task since the base of that review;
\* its content passed the gates and was reviewed, unless somebody changed it
\* between a check and its use (finish, validate).
THEOREM MergesCorrect == Spec => OnlyApprovedIsMerged
<1> DEFINE Approves ==
      \A t \in Tasks :
        (trunk' # trunk /\ trunk'[Len(trunk')].task = t) =>
          /\ Passed(t)
          /\ \A i \in records[t].review.snapshot.base + 1..Tip :
               trunk[i].task = None
          /\ t \notin disturbed =>
               /\ trunk'[Len(trunk')].content \in Passing
               /\ records[t].review.snapshot.files = trunk'[Len(trunk')].content
<1>1. Init => SealInv
  BY SealInit
<1>2. SealInv /\ [Next]_vars => SealInv'
  BY SealStep
<1>3. ASSUME SealInv, [Next]_vars
      PROVE  [Approves]_vars
  <2> SUFFICES ASSUME NEW t \in Tasks, trunk' # trunk,
                      trunk'[Tip'].task = t
               PROVE  /\ Passed(t)
                      /\ \A i \in records[t].review.snapshot.base + 1..Tip :
                           trunk[i].task = None
                      /\ t \notin disturbed =>
                           /\ trunk'[Tip'].content \in Passing
                           /\ records[t].review.snapshot.files
                                = trunk'[Tip'].content
    BY DEF Tip
  <2>1. TypeInv
    BY <1>3 DEF SealInv, ScopeInv
  <2>2. PICK u \in Tasks : MergeFinish(u)
    <3>1. trunk' = trunk \/ CommitLead \/ \E u \in Tasks : MergeFinish(u)
      BY <1>3, TrunkMoves
    <3>2. ~CommitLead
      <4>1. ASSUME CommitLead
            PROVE  trunk'[Tip'].task = None
        <5> DEFINE c == [task |-> None, content |-> None]
        <5>1. c \in Commit /\ c.task = None
          BY DEF Commit, Content
        <5>2. trunk' = Append(trunk, c)
          BY <4>1 DEF CommitLead
        <5> HIDE DEF c
        <5> QED
          BY <2>1, <5>1, <5>2, Appended
      <4> QED
        BY <4>1
    <3> QED
      BY <3>1, <3>2
  <2> DEFINE c == [task |-> u, content |-> trees[u].head]
  <2>3. ctl.step = "COMMITTED" /\ ctl.task = u /\ trees[u] # None
    BY <2>1, <2>2 DEF MergeFinish, At, TypeInv, TreesAreHeld, Holding
  <2>4. c \in Commit /\ c.task = u /\ c.content = trees[u].head
    BY <2>1, <2>3 DEF Commit, TypeInv, TypeOK, Tree
  <2>5. trunk' = Append(trunk, c)
    BY <2>2 DEF MergeFinish
  <2> HIDE DEF c
  <2>6. trunk'[Tip'] = c
    BY <2>1, <2>4, <2>5, Appended
  <2>7. u = t /\ trunk'[Tip'].content = trees[u].head
    BY <2>4, <2>6
  <2> QED
    BY <1>3, <2>3, <2>7 DEF SealInv, SightIsCurrent, OnlyLeadSince
<1> QED
  BY <1>1, <1>2, <1>3, PTL DEF Spec, OnlyApprovedIsMerged
-----------------------------------------------------------------------------
(* Dependencies.                                                            *)

Merged(line, t, n) == \E i \in 1..n : line[i].task = t

\* A branch begins when the dependencies are done, and leaves the trunk no
\* later than at its tip.
MergeInv ==
  /\ SealInv
  /\ \A t \in Tasks : trees[t] # None => trees[t].fork <= Tip /\ DepsDone(t)
  /\ DependenciesFirst

LEMMA DeliveredIsMerged ==
  ASSUME TypeInv, NEW t \in Tasks, Delivered(t)
  PROVE  Merged(trunk, t, Tip)
<1>1. PICK i \in records[t].base + 1..Tip :
        trunk[i] = [task |-> t, content |-> records[t].review.snapshot.files]
  BY DEF Delivered
<1>2. records[t].base \in Nat /\ Tip \in Nat
  BY LenProperties DEF TypeInv, TypeOK, Record, Tip
<1>3. i \in 1..Tip
  <2> HIDE DEF Tip
  <2> QED
    BY <1>2
<1> QED
  BY <1>1, <1>3 DEF Merged

\* No command finds anything to do for a task that is done, but cleanup.
LEMMA DoneIsFinal ==
  ASSUME ScopeInv, [Next]_vars, NEW t \in Tasks, State(t) = "DONE"
  PROVE  State(t)' = "DONE" /\ ~StartValidation(t)
<1> USE DEF ScopeInv, State
<1>1. ASSUME NEW u \in Tasks, RecordStep(u) \/ FailAttempt(u)
      PROVE  State(t)' = "DONE"
  <2>1. CASE u # t
    BY <1>1, <2>1, RecordMoves
  <2>2. CASE u = t /\ (RecordMerge(t) \/ RecordCleanup(t))
    BY <2>2, RecordMoves DEF RecordStep
  <2>3. CASE u = t /\ ~RecordMerge(t) /\ ~RecordCleanup(t)
    <3>1. FALSE
      BY <1>1, <2>3 DEF RecordStep, Create, Ready, RecordStart, RecordRebase,
         BeginAttempt, FailAttempt, Escalate, Handoff, Resume, StartValidation,
         RecordValidation, SubmitReview, CheckFinish, MergeFails, At,
         StatesAreCurrent, Working
    <3> QED
      BY <3>1
  <2> QED
    BY <2>1, <2>2, <2>3
<1>2. ASSUME ~\E u \in Tasks : RecordStep(u) \/ FailAttempt(u)
      PROVE  State(t)' = "DONE"
  <2>1. records' = records
    BY <1>2, RecordsStay
  <2> QED
    BY <2>1
<1>3. ~StartValidation(t)
  BY DEF StartValidation
<1> QED
  BY <1>1, <1>2, <1>3

LEMMA MergeStep ==
  ASSUME MergeInv, [Next]_vars
  PROVE  MergeInv'
<1> USE DEF MergeInv
<1>1. TypeInv /\ ScopeInv /\ SealInv'
  BY SealStep DEF SealInv, ScopeInv
<1>2. /\ Tip \in Nat /\ Tip' \in Nat /\ Tip <= Tip'
      /\ \A i \in 1..Tip : trunk'[i] = trunk[i]
  BY <1>1, TrunkGrows
<1>3. ASSUME NEW t \in Tasks, trees'[t] # None
      PROVE  trees'[t].fork <= Tip'
  <2>1. trees'[t].fork = Tip \/ (trees[t] # None /\ trees'[t].fork = trees[t].fork)
    BY <1>1, <1>3, ForksMove
  <2>2. trees[t] # None => trees[t].fork \in Nat /\ trees[t].fork <= Tip
    BY <1>1 DEF TypeInv, TypeOK, Tree
  <2> HIDE DEF MergeInv, Tip
  <2> QED
    BY <1>2, <2>1, <2>2
<1>4. ASSUME NEW t \in Tasks, trees'[t] # None
      PROVE  DepsDone(t) /\ DepsDone(t)'
  <2>1. DepsDone(t)
    BY <1>1, <1>4, ForksMove DEF AddWorktree
  <2>2. \A d \in DependsOn[t] : State(d)' = "DONE"
    BY <1>1, <2>1, DoneIsFinal DEF DepsDone
  <2> QED
    BY <2>1, <2>2 DEF DepsDone
<1>5. DependenciesFirst'
  <2> SUFFICES ASSUME NEW t \in Tasks, trees'[t] # None,
                      NEW d \in DependsOn[t], d \notin disturbed'
               PROVE  Merged(trunk', d, trees'[t].fork)
    BY DEF DependenciesFirst, Merged
  <2>1. d \in Tasks /\ State(d) = "DONE"
    BY <1>4 DEF DepsDone
  <2>2. d \notin disturbed
    BY <1>1, <2>1, DoneIsFinal, DisturbedStays
  <2>3. Merged(trunk, d, Tip)
    BY <1>1, <2>1, <2>2, DeliveredIsMerged DEF SealInv
  <2>4. CASE trees[t] # None
    <3>1. trees[t].fork \in Nat /\ trees[t].fork <= Tip
      BY <1>1, <2>4 DEF TypeInv, TypeOK, Tree
    <3>2. Merged(trunk, d, trees[t].fork)
      BY <2>2, <2>4 DEF DependenciesFirst, Merged
    <3>3. trees'[t].fork = trees[t].fork \/ trees'[t].fork = Tip
      BY <1>1, ForksMove
    <3>4. Merged(trunk, d, trees'[t].fork) /\ trees'[t].fork \in 0..Tip
      BY <1>2, <2>3, <3>1, <3>2, <3>3
    <3> QED
      BY <1>2, <3>4 DEF Merged
  <2>5. CASE trees[t] = None
    <3>1. trees'[t].fork = Tip
      BY <1>1, <2>5, ForksMove
    <3> QED
      BY <1>2, <2>3, <3>1 DEF Merged
  <2> QED
    BY <2>4, <2>5
<1> QED
  BY <1>1, <1>3, <1>4, <1>5

LEMMA MergeInit == Init => MergeInv
<1>1. ASSUME Init
      PROVE  MergeInv
  <2>1. \A t \in Tasks : trees[t] = None
    BY <1>1 DEF Init
  <2> QED
    BY <1>1, <2>1, SealInit DEF MergeInv, DependenciesFirst
<1> QED
  BY <1>1

\* A branch of a task always leaves the trunk behind the merge of each of its
\* dependencies that was not disturbed, however the controller stops and the
\* branches are rebased (start, reconcile, finish).
THEOREM DependenciesCorrect == Spec => []DependenciesFirst
<1>1. MergeInv => DependenciesFirst
  BY DEF MergeInv
<1> QED
  BY <1>1, MergeInit, MergeStep, PTL DEF Spec
=============================================================================
