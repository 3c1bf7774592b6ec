-------------------------- MODULE ChannelDraftsProofs ------------------------
(***************************************************************************)
(* Theorems about ChannelDrafts, for every set of events, options, texts,  *)
(* fingerprints and operations, every lifetime and every bound.            *)
(***************************************************************************)
EXTENDS ChannelDrafts, SequenceTheorems, TLAPS

USE DraftsAssumption, OperationsAssumption

-----------------------------------------------------------------------------
(* Types.                                                                   *)

LEMMA OperationKinds ==
  ASSUME NEW op \in Operation
  PROVE  /\ op.kind = "SAVE" =>
              op.expected \in Nat /\ op.step \in Steps /\ op.answers \in Answers
         /\ op.kind = "RESET" => op.expected \in Nat \ {0}
         /\ op.kind = "SUBMIT" =>
              op.expected \in Nat \ {0} /\ op.answers \in Answers
BY DEF Operation, Save, Reset, Submit

\* The rows of a dialog are numbered from 1.
LEMMA RowsType ==
  ASSUME PortTypeOK
  PROVE  /\ Len(drafts) \in Nat
         /\ DOMAIN drafts = 1..Len(drafts)
         /\ \A i \in DOMAIN drafts : drafts[i] \in Row
BY LenProperties, ElementOfSeq DEF PortTypeOK

LEMMA StoredType ==
  ASSUME PortTypeOK, NEW e \in Events, NEW op \in Operation, NEW k \in Markers,
         NEW now \in Nat, NEW i \in Nat, NEW v \in Nat,
         Stored(e, op, k, now, i, v)
  PROVE  events' \in [Events -> Record \cup {None}]
BY DEF PortTypeOK, Stored, Record

LEMMA ClosedType ==
  ASSUME PortTypeOK, NEW i \in DOMAIN drafts, Closed(i)
  PROVE  drafts' \in Seq(Row)
<1> DEFINE row == [drafts[i] EXCEPT !.open = FALSE,
                                    !.version = drafts[i].version + 1]
<1>1. i \in 1..Len(drafts) /\ drafts[i] \in Row
  BY RowsType
<1>2. drafts[i].version + 1 \in Nat
  BY <1>1 DEF Row
<1>3. row \in Row
  BY <1>1, <1>2 DEF Row
<1>4. drafts' = [drafts EXCEPT ![i] = row]
  BY <1>1 DEF Closed, Row
<1> HIDE DEF row
<1> QED
  BY <1>1, <1>3, <1>4, ExceptSeq DEF PortTypeOK

LEMMA ExpiredClosedType ==
  ASSUME PortTypeOK
  PROVE  /\ ExpiredClosed \in Seq(Row)
         /\ Len(ExpiredClosed) = Len(drafts)
         /\ \A i \in DOMAIN drafts :
              /\ ~ExpiredClosed[i].open
              /\ ExpiredClosed[i].version = drafts[i].version
<1>1. ExpiredClosed \in [1..Len(drafts) -> Row]
  BY RowsType DEF ExpiredClosed, Row
<1>2. ExpiredClosed \in Seq(Row)
  BY <1>1, RowsType, SeqDef
<1>3. Len(ExpiredClosed) = Len(drafts)
  BY <1>1, <1>2, RowsType, LenProperties
<1> QED
  BY <1>2, <1>3, RowsType DEF ExpiredClosed, Row

LEMMA StartType ==
  ASSUME PortTypeOK, NEW e \in Events, NEW op \in Operation, NEW k \in Markers,
         NEW now \in Nat, StartDraft(e, op, k, now)
  PROVE  /\ drafts' \in Seq(Row)
         /\ events' \in [Events -> Record \cup {None}]
<1>1. Saved(op, 1, now) \in Row
  BY OperationKinds DEF StartDraft, Saved, Row
<1>2. drafts' = Append(ExpiredClosed, Saved(op, 1, now))
  BY DEF StartDraft
<1>3. drafts' \in Seq(Row)
  BY <1>1, <1>2, ExpiredClosedType, AppendProperties
<1>4. Stored(e, op, k, now, Len(drafts) + 1, 1)
  BY DEF StartDraft
<1> QED
  BY <1>3, <1>4, StoredType, RowsType

LEMMA SaveType ==
  ASSUME PortTypeOK, NEW e \in Events, NEW op \in Operation, NEW k \in Markers,
         NEW now \in Nat, SaveDraft(e, op, k, now)
  PROVE  /\ drafts' \in Seq(Row)
         /\ events' \in [Events -> Record \cup {None}]
<1>1. PICK i \in Expected(op, now) :
        /\ drafts' = [drafts EXCEPT ![i] = Saved(op, op.expected + 1, now)]
        /\ Stored(e, op, k, now, i, op.expected + 1)
  BY DEF SaveDraft
<1>2. i \in 1..Len(drafts)
  BY RowsType DEF Expected, LiveDrafts, OpenDrafts
<1>3. op.expected + 1 \in Nat /\ Saved(op, op.expected + 1, now) \in Row
  BY OperationKinds DEF SaveDraft, Saved, Row
<1>4. drafts' \in Seq(Row)
  BY <1>1, <1>2, <1>3, ExceptSeq DEF PortTypeOK
<1> QED
  BY <1>1, <1>2, <1>3, <1>4, StoredType

LEMMA CloseType ==
  ASSUME PortTypeOK, NEW e \in Events, NEW op \in Operation, NEW k \in Markers,
         NEW now \in Nat, op.expected \in Nat,
         NEW i \in Expected(op, now), Closed(i),
         Stored(e, op, k, now, i, op.expected + 1)
  PROVE  /\ drafts' \in Seq(Row)
         /\ events' \in [Events -> Record \cup {None}]
<1>1. i \in DOMAIN drafts /\ i \in Nat
  BY RowsType DEF Expected, LiveDrafts, OpenDrafts
<1> QED
  BY <1>1, ClosedType, StoredType

LEMMA AcceptType ==
  ASSUME PortTypeOK, NEW e \in Events, NEW op \in Operation, NEW k \in Markers,
         NEW now \in 0..clock, Accept(e, op, k, now)
  PROVE  PortTypeOK'
<1>1. now \in Nat
  BY DEF PortTypeOK
<1>2. clock' = clock /\ catalog' = catalog
  BY DEF Accept
<1>3. CASE StartDraft(e, op, k, now)
  BY <1>1, <1>2, <1>3, StartType DEF PortTypeOK, StartDraft
<1>4. CASE SaveDraft(e, op, k, now)
  BY <1>1, <1>2, <1>4, SaveType DEF PortTypeOK, SaveDraft
<1>5. CASE ResetDraft(e, op, k, now)
  <2>1. op.expected \in Nat
    BY <1>5, OperationKinds DEF ResetDraft
  <2> QED
    BY <1>1, <1>2, <1>5, <2>1, CloseType DEF PortTypeOK, ResetDraft
<1>6. CASE SubmitInquiry(e, op, k, now)
  <2>1. op.expected \in Nat /\ op.answers \in Answers
    BY <1>6, OperationKinds DEF SubmitInquiry
  <2>2. /\ drafts' \in Seq(Row)
        /\ events' \in [Events -> Record \cup {None}]
    BY <1>1, <1>6, <2>1, CloseType DEF SubmitInquiry
  <2>3. inquiries' \subseteq Inquiry
    BY <1>1, <1>6, <2>1 DEF PortTypeOK, SubmitInquiry, Inquiry
  <2> QED
    BY <1>2, <2>2, <2>3 DEF PortTypeOK
<1> QED
  BY <1>3, <1>4, <1>5, <1>6 DEF Accept

LEMMA WorldType ==
  ASSUME PortTypeOK, World
  PROVE  PortTypeOK'
<1>1. CASE Tick
  BY <1>1 DEF PortTypeOK, Tick
<1>2. CASE EditCatalog
  BY <1>2 DEF PortTypeOK, EditCatalog, Catalog
<1>3. ASSUME NEW e \in Events, RemoveResult(e)
      PROVE  PortTypeOK'
  BY <1>3 DEF PortTypeOK, RemoveResult, Recorded, Record
<1> QED
  BY <1>1, <1>2, <1>3 DEF World

\* Every reachable state of the port has its type (PortTypeOK).
THEOREM TypeCorrect == PortSpec => []PortTypeOK
<1>1. PortInit => PortTypeOK
  BY EmptySeq DEF PortInit, PortTypeOK, Catalog
<1>2. PortTypeOK /\ [PortNext]_portVars => PortTypeOK'
  <2> SUFFICES ASSUME PortTypeOK, [PortNext]_portVars
               PROVE  PortTypeOK'
    OBVIOUS
  <2>1. ASSUME NEW e \in Events, NEW op \in Operations, NEW k \in Markers,
               NEW now \in 0..clock, Accept(e, op, k, now)
        PROVE  PortTypeOK'
    BY <2>1, AcceptType
  <2>2. CASE UNCHANGED portVars
    BY <2>2 DEF PortTypeOK, portVars
  <2> QED
    BY <2>1, <2>2, WorldType DEF PortNext
<1> QED
  BY <1>1, <1>2, PTL DEF PortSpec

-----------------------------------------------------------------------------
(* The history of drafts.  What an accepted event does to the rows is the   *)
(* same for the four operations, as far as the history is concerned: it     *)
(* moves one row, the last one, to its next version, and remembers that.    *)

Moved(e, op, now, i) ==
  /\ ~Recorded(e)
  /\ \A f \in Events \ {e} : events'[f] = events[f]
  /\ events'[e] \in Record
  /\ events'[e].operation = op
  /\ events'[e].accepted_at = now
  /\ events'[e].row = i
  /\ events'[e].version = drafts'[i].version
  /\ i = Len(drafts') /\ i \in DOMAIN drafts'
  /\ DOMAIN drafts' = DOMAIN drafts \cup {i}
  /\ IF i \in DOMAIN drafts
       THEN /\ drafts[i].open /\ drafts[i].expires_at > now
            /\ drafts'[i].version = drafts[i].version + 1
       ELSE drafts'[i].version = 1
  /\ \A j \in DOMAIN drafts \ {i} :
       ~drafts'[j].open /\ drafts'[j].version = drafts[j].version
  /\ drafts'[i].open => drafts'[i].expires_at = now + Lifetime
  /\ op.kind \in {"RESET", "SUBMIT"} => ~drafts'[i].open

LEMMA StoredMoves ==
  ASSUME PortTypeOK, NEW e \in Events, NEW op \in Operation, NEW k \in Markers,
         NEW now \in Nat, NEW i \in Nat, NEW v \in Nat,
         Stored(e, op, k, now, i, v)
  PROVE  /\ \A f \in Events \ {e} : events'[f] = events[f]
         /\ events'[e] \in Record
         /\ events'[e].operation = op
         /\ events'[e].accepted_at = now
         /\ events'[e].row = i
         /\ events'[e].version = v
BY DEF PortTypeOK, Stored, Record

\* The live row at the expected version is the last, the only open one.
LEMMA ExpectedIsLast ==
  ASSUME PortTypeOK, OneOpenDraft, NEW op, NEW now, NEW i \in Expected(op, now)
  PROVE  /\ i \in DOMAIN drafts /\ i = Len(drafts)
         /\ drafts[i].open /\ drafts[i].expires_at > now
         /\ drafts[i].version = op.expected
         /\ \A j \in DOMAIN drafts \ {i} : ~drafts[j].open
BY DEF OneOpenDraft, Expected, LiveDrafts, OpenDrafts

LEMMA StartMoves ==
  ASSUME PortTypeOK, NEW e \in Events, NEW op \in Operation, NEW k \in Markers,
         NEW now \in Nat, ~Recorded(e), StartDraft(e, op, k, now)
  PROVE  Moved(e, op, now, Len(drafts) + 1)
<1>1. Saved(op, 1, now) \in Row
  BY OperationKinds DEF StartDraft, Saved, Row
<1>2. drafts' = Append(ExpiredClosed, Saved(op, 1, now))
  BY DEF StartDraft
<1>3. /\ Len(drafts') = Len(drafts) + 1
      /\ DOMAIN drafts' = 1..(Len(drafts) + 1)
      /\ drafts'[Len(drafts) + 1] = Saved(op, 1, now)
      /\ \A j \in 1..Len(drafts) : drafts'[j] = ExpiredClosed[j]
  <2>1. drafts' \in Seq(Row)
    BY <1>1, <1>2, ExpiredClosedType, AppendProperties
  <2> QED
    BY <1>1, <1>2, <2>1, ExpiredClosedType, AppendProperties, LenProperties
<1>4. Stored(e, op, k, now, Len(drafts) + 1, 1)
  BY DEF StartDraft
<1>5. /\ \A f \in Events \ {e} : events'[f] = events[f]
      /\ events'[e] \in Record
      /\ events'[e].operation = op
      /\ events'[e].accepted_at = now
      /\ events'[e].row = Len(drafts) + 1
      /\ events'[e].version = 1
  BY <1>4, StoredMoves, RowsType
<1>6. /\ Len(drafts) + 1 \notin DOMAIN drafts
      /\ DOMAIN drafts' = DOMAIN drafts \cup {Len(drafts) + 1}
  BY <1>3, RowsType
<1>7. \A j \in DOMAIN drafts :
        ~drafts'[j].open /\ drafts'[j].version = drafts[j].version
  BY <1>3, RowsType, ExpiredClosedType
<1>8. op.kind = "SAVE"
  BY DEF StartDraft
<1> QED
  BY <1>3, <1>5, <1>6, <1>7, <1>8 DEF Moved, Saved

LEMMA SaveMoves ==
  ASSUME PortTypeOK, OneOpenDraft, NEW e \in Events, NEW op \in Operation,
         NEW k \in Markers, NEW now \in Nat,
         ~Recorded(e), SaveDraft(e, op, k, now)
  PROVE  \E i \in DOMAIN drafts : Moved(e, op, now, i)
<1>1. PICK i \in Expected(op, now) :
        /\ drafts' = [drafts EXCEPT ![i] = Saved(op, op.expected + 1, now)]
        /\ Stored(e, op, k, now, i, op.expected + 1)
  BY DEF SaveDraft
<1>2. op.kind = "SAVE" /\ op.expected + 1 \in Nat
  BY OperationKinds DEF SaveDraft
<1>3. /\ i \in 1..Len(drafts) /\ i \in DOMAIN drafts /\ i = Len(drafts)
      /\ drafts[i].open /\ drafts[i].expires_at > now
      /\ drafts[i].version = op.expected
      /\ \A j \in DOMAIN drafts \ {i} : ~drafts[j].open
  BY RowsType, ExpectedIsLast
<1>4. /\ drafts' \in Seq(Row)
      /\ Len(drafts') = Len(drafts) /\ DOMAIN drafts' = DOMAIN drafts
  <2>1. Saved(op, op.expected + 1, now) \in Row
    BY <1>2, OperationKinds DEF SaveDraft, Saved, Row
  <2> QED
    BY <1>1, <1>3, <2>1, ExceptSeq, RowsType DEF PortTypeOK
<1>5. /\ drafts'[i] = Saved(op, op.expected + 1, now)
      /\ \A j \in DOMAIN drafts \ {i} : drafts'[j] = drafts[j]
  BY <1>1, <1>3
<1>6. /\ \A f \in Events \ {e} : events'[f] = events[f]
      /\ events'[e] \in Record
      /\ events'[e].operation = op
      /\ events'[e].accepted_at = now
      /\ events'[e].row = i
      /\ events'[e].version = op.expected + 1
  BY <1>1, <1>2, <1>3, StoredMoves
<1> QED
  BY <1>2, <1>3, <1>4, <1>5, <1>6 DEF Moved, Saved

LEMMA CloseMoves ==
  ASSUME PortTypeOK, OneOpenDraft, NEW e \in Events, NEW op \in Operation,
         NEW k \in Markers, NEW now \in Nat, op.expected \in Nat,
         ~Recorded(e), NEW i \in Expected(op, now), Closed(i),
         Stored(e, op, k, now, i, op.expected + 1)
  PROVE  i \in DOMAIN drafts /\ Moved(e, op, now, i)
<1>1. /\ i \in 1..Len(drafts) /\ i \in DOMAIN drafts /\ i = Len(drafts)
      /\ drafts[i] \in Row
      /\ drafts[i].open /\ drafts[i].expires_at > now
      /\ drafts[i].version = op.expected
      /\ \A j \in DOMAIN drafts \ {i} : ~drafts[j].open
  BY RowsType, ExpectedIsLast
<1>2. /\ Len(drafts') = Len(drafts) /\ DOMAIN drafts' = DOMAIN drafts
  <2>1. DOMAIN drafts' = DOMAIN drafts
    BY DEF Closed
  <2>2. drafts' \in Seq(Row)
    BY <1>1, ClosedType
  <2>3. Len(drafts') \in Nat /\ DOMAIN drafts' = 1..Len(drafts')
    BY <2>2, LenProperties
  <2> QED
    BY <2>1, <2>3, RowsType
<1>3. /\ ~drafts'[i].open
      /\ drafts'[i].version = op.expected + 1
      /\ \A j \in DOMAIN drafts \ {i} : drafts'[j] = drafts[j]
  BY <1>1 DEF Closed, Row
<1>4. /\ \A f \in Events \ {e} : events'[f] = events[f]
      /\ events'[e] \in Record
      /\ events'[e].operation = op
      /\ events'[e].accepted_at = now
      /\ events'[e].row = i
      /\ events'[e].version = op.expected + 1
  BY <1>1, StoredMoves
<1> QED
  BY <1>1, <1>2, <1>3, <1>4 DEF Moved

LEMMA AcceptMoves ==
  ASSUME PortTypeOK, OneOpenDraft, NEW e \in Events, NEW op \in Operation,
         NEW k \in Markers, NEW now \in Nat, Accept(e, op, k, now)
  PROVE  \E i \in Nat : Moved(e, op, now, i)
<1>1. ~Recorded(e)
  BY DEF Accept
<1>2. CASE StartDraft(e, op, k, now)
  BY <1>1, <1>2, StartMoves, RowsType
<1>3. CASE SaveDraft(e, op, k, now)
  BY <1>1, <1>3, SaveMoves, RowsType
<1>4. CASE ResetDraft(e, op, k, now)
  BY <1>1, <1>4, CloseMoves, OperationKinds, RowsType DEF ResetDraft
<1>5. CASE SubmitInquiry(e, op, k, now)
  BY <1>1, <1>5, CloseMoves, OperationKinds, RowsType DEF SubmitInquiry
<1> QED
  BY <1>2, <1>3, <1>4, <1>5 DEF Accept

-----------------------------------------------------------------------------
(* The inductive invariant.  To continue answers within their life, the     *)
(* expiry of an open row has to be that of the last event that moved it.    *)

ExpiryFollowsTheLastEvent ==
  \A e \in Events :
    /\ Recorded(e)
    /\ drafts[events[e].row].open
    /\ events[e].version = drafts[events[e].row].version
    => drafts[events[e].row].expires_at = events[e].accepted_at + Lifetime

History ==
  /\ OneOpenDraft
  /\ VersionsAreHistory
  /\ DraftsEndOnce
  /\ AnswersExpire
  /\ ExpiryFollowsTheLastEvent

LEMMA RecordType ==
  ASSUME PortTypeOK, NEW f \in Events, Recorded(f)
  PROVE  /\ events[f] \in Record
         /\ events[f].row \in Nat /\ events[f].version \in Nat
         /\ events[f].accepted_at \in Nat
BY DEF PortTypeOK, Recorded, Record

\* What `Moved` says of records: the others stay, and those of the moved row
\* are at its earlier versions.
LEMMA MovedRecords ==
  ASSUME PortTypeOK, VersionsAreHistory, NEW e \in Events, NEW op \in Operation,
         NEW now \in Nat, NEW i \in Nat, Moved(e, op, now, i)
  PROVE  /\ Recorded(e)'
         /\ \A f \in Events \ {e} : Recorded(f)' <=> Recorded(f)
         /\ \A f \in Events \ {e} : Recorded(f) =>
              /\ events[f].row \in DOMAIN drafts
              /\ events[f].version \in Nat
              /\ events[f].version <= drafts[events[f].row].version
              /\ events[f].row = i => events[f].version < drafts'[i].version
<1>1. \A j \in DOMAIN drafts : drafts[j].version \in Nat
  BY RowsType DEF Row
<1> QED
  BY <1>1, RecordType, RecordsAssumption DEF Moved, Recorded, VersionsAreHistory

LEMMA MovedOneOpen ==
  ASSUME NEW e \in Events, NEW op \in Operation, NEW now \in Nat, NEW i \in Nat,
         Moved(e, op, now, i)
  PROVE  OneOpenDraft'
BY DEF Moved, OneOpenDraft, OpenDrafts

LEMMA MovedVersions ==
  ASSUME PortTypeOK, VersionsAreHistory, NEW e \in Events, NEW op \in Operation,
         NEW now \in Nat, NEW i \in Nat, Moved(e, op, now, i)
  PROVE  VersionsAreHistory'
<1>1. \A j \in DOMAIN drafts : drafts[j].version \in Nat
  BY RowsType DEF Row
<1>2. ASSUME NEW j \in DOMAIN drafts', NEW v \in 1..drafts'[j].version
      PROVE  \E f \in Events : MovedTo(j, v)' = {f}
  <2>1. CASE j = i /\ v = drafts'[i].version
    <3>1. MovedTo(j, v)' = {e}
      BY <2>1, MovedRecords DEF MovedTo, Moved
    <3> QED
      BY <3>1
  <2>2. CASE ~(j = i /\ v = drafts'[i].version)
    <3>1. j \in DOMAIN drafts /\ v \in 1..drafts[j].version
      BY <1>1, <1>2, <2>2 DEF Moved
    <3>2. PICK f \in Events : MovedTo(j, v) = {f}
      BY <3>1 DEF VersionsAreHistory
    <3>3. MovedTo(j, v)' = MovedTo(j, v)
      BY <2>2, MovedRecords DEF MovedTo, Moved, Recorded
    <3> QED
      BY <3>2, <3>3
  <2> QED
    BY <2>1, <2>2
<1>3. ASSUME NEW f \in Events, Recorded(f)'
      PROVE  /\ events'[f].row \in DOMAIN drafts'
             /\ events'[f].version \in 1..drafts'[events'[f].row].version
  <2>1. CASE f = e
    BY <1>1, <2>1 DEF Moved
  <2>2. CASE f # e
    <3>1. Recorded(f) /\ events'[f] = events[f]
      BY <1>3, <2>2, MovedRecords DEF Moved
    <3>2. /\ events[f].row \in DOMAIN drafts
          /\ events[f].version \in 1..drafts[events[f].row].version
      BY <3>1 DEF VersionsAreHistory
    <3>3. CASE events[f].row = i
      BY <1>1, <3>1, <3>2, <3>3 DEF Moved
    <3>4. CASE events[f].row # i
      BY <3>1, <3>2, <3>4 DEF Moved
    <3> QED
      BY <3>3, <3>4
  <2> QED
    BY <2>1, <2>2
<1> QED
  BY <1>2, <1>3 DEF VersionsAreHistory

LEMMA MovedEnds ==
  ASSUME PortTypeOK, VersionsAreHistory, DraftsEndOnce,
         NEW e \in Events, NEW op \in Operation,
         NEW now \in Nat, NEW i \in Nat, Moved(e, op, now, i)
  PROVE  DraftsEndOnce'
<1> SUFFICES ASSUME NEW f \in Events, Recorded(f)',
                    events'[f].operation.kind \in {"RESET", "SUBMIT"}
             PROVE  /\ ~drafts'[events'[f].row].open
                    /\ events'[f].version = drafts'[events'[f].row].version
  BY DEF DraftsEndOnce
<1>1. CASE f = e
  BY <1>1 DEF Moved
<1>2. CASE f # e
  <2>1. Recorded(f) /\ events'[f] = events[f] /\ events[f].row \in DOMAIN drafts
    BY <1>2, MovedRecords DEF Moved
  <2>2. /\ ~drafts[events[f].row].open
        /\ events[f].version = drafts[events[f].row].version
    BY <2>1 DEF DraftsEndOnce
  <2>3. events[f].row # i
    BY <2>1, <2>2 DEF Moved
  <2> QED
    BY <2>1, <2>2, <2>3 DEF Moved
<1> QED
  BY <1>1, <1>2

LEMMA MovedExpiry ==
  ASSUME PortTypeOK, History, NEW e \in Events, NEW op \in Operation,
         NEW now \in Nat, NEW i \in Nat, Moved(e, op, now, i)
  PROVE  AnswersExpire' /\ ExpiryFollowsTheLastEvent'
<1> USE DEF History
<1>1. ASSUME NEW f \in Events, Recorded(f)', drafts'[events'[f].row].open,
             events'[f].version = drafts'[events'[f].row].version
      PROVE  drafts'[events'[f].row].expires_at
               = events'[f].accepted_at + Lifetime
  <2>1. CASE f = e
    BY <1>1, <2>1 DEF Moved
  <2>2. CASE f # e
    <3>1. Recorded(f) /\ events'[f] = events[f] /\ events[f].row \in DOMAIN drafts
      BY <1>1, <2>2, MovedRecords DEF Moved
    <3>2. events[f].row = i
      BY <1>1, <3>1 DEF Moved
    <3> QED
      BY <1>1, <2>2, <3>1, <3>2, MovedRecords DEF Moved
  <2> QED
    BY <2>1, <2>2
<1>2. ASSUME NEW f \in Events, NEW g \in Events, Recorded(f)', Recorded(g)',
             events'[f].row = events'[g].row,
             events'[g].version = events'[f].version + 1
      PROVE  events'[g].accepted_at < events'[f].accepted_at + Lifetime
  <2>1. CASE g = e /\ f # e
    <3>1. Recorded(f) /\ events'[f] = events[f] /\ events[f].row = i
      BY <1>2, <2>1, MovedRecords DEF Moved
    <3>2. /\ i \in DOMAIN drafts /\ drafts[i].open /\ drafts[i].expires_at > now
          /\ events[f].version + 1 = drafts[i].version + 1
      BY <1>2, <2>1, <3>1, MovedRecords DEF Moved
    <3>3. drafts[i].version \in Nat /\ events[f].version \in Nat
      BY <3>1, <3>2, RowsType, RecordType DEF Row
    <3>4. drafts[i].expires_at = events[f].accepted_at + Lifetime
      BY <3>1, <3>2, <3>3 DEF ExpiryFollowsTheLastEvent
    <3> QED
      BY <2>1, <3>1, <3>2, <3>4 DEF Moved
  <2>2. CASE f = e
    <3>1. g # e
      BY <1>2, <2>2, RowsType DEF Moved, Record
    <3>2. events'[g] = events[g] /\ events[g].row = i
      BY <1>2, <2>2, <3>1 DEF Moved
    <3>3. events[g].version < drafts'[i].version /\ events[g].version \in Nat
      BY <1>2, <3>1, <3>2, MovedRecords
    <3> QED
      BY <1>2, <2>2, <3>2, <3>3 DEF Moved, Record
  <2>3. CASE f # e /\ g # e
    BY <1>2, <2>3, MovedRecords DEF Moved, AnswersExpire
  <2> QED
    BY <2>1, <2>2, <2>3
<1> QED
  BY <1>1, <1>2 DEF AnswersExpire, ExpiryFollowsTheLastEvent

LEMMA RemovedResult ==
  ASSUME NEW r \in Record
  PROVE  LET removed == [r EXCEPT !.kept = FALSE]
         IN  /\ removed \in Record
             /\ removed.operation = r.operation
             /\ removed.accepted_at = r.accepted_at
             /\ removed.row = r.row
             /\ removed.version = r.version
<1>1. [r EXCEPT !.kept = FALSE] \in Record
  BY Zenon DEF Record
<1>2. /\ [r EXCEPT !.kept = FALSE].operation = r.operation
      /\ [r EXCEPT !.kept = FALSE].accepted_at = r.accepted_at
      /\ [r EXCEPT !.kept = FALSE].row = r.row
      /\ [r EXCEPT !.kept = FALSE].version = r.version
  BY DEF Record
<1> QED
  BY <1>1, <1>2

LEMMA WorldKeeps ==
  ASSUME PortTypeOK, World
  PROVE  /\ drafts' = drafts /\ inquiries' = inquiries
         /\ \A f \in Events :
              /\ Recorded(f)' <=> Recorded(f)
              /\ Recorded(f) =>
                   /\ events'[f].operation = events[f].operation
                   /\ events'[f].accepted_at = events[f].accepted_at
                   /\ events'[f].row = events[f].row
                   /\ events'[f].version = events[f].version
<1>1. CASE Tick
  BY <1>1 DEF Tick, Recorded
<1>2. CASE EditCatalog
  BY <1>2 DEF EditCatalog, Recorded
<1>3. ASSUME NEW e \in Events, RemoveResult(e)
      PROVE  /\ drafts' = drafts /\ inquiries' = inquiries
             /\ events' = [events EXCEPT ![e].kept = FALSE]
             /\ events[e] \in Record
  BY <1>3, RecordType DEF RemoveResult
<1>4. ASSUME NEW e \in Events, RemoveResult(e), NEW f \in Events
      PROVE  /\ Recorded(f)' <=> Recorded(f)
             /\ Recorded(f) =>
                  /\ events'[f].operation = events[f].operation
                  /\ events'[f].accepted_at = events[f].accepted_at
                  /\ events'[f].row = events[f].row
                  /\ events'[f].version = events[f].version
  <2>1. events' = [events EXCEPT ![e].kept = FALSE] /\ events[e] \in Record
    BY <1>3, <1>4
  <2>2. CASE f # e
    BY <2>1, <2>2 DEF Recorded
  <2>3. CASE f = e
    <3>1. events'[e] = [events[e] EXCEPT !.kept = FALSE]
      BY <2>1 DEF PortTypeOK
    <3> QED
      BY <2>1, <2>3, <3>1, RemovedResult, RecordsAssumption DEF Recorded
  <2> QED
    BY <2>2, <2>3
<1>5. CASE \E e \in Events : RemoveResult(e)
  <2> PICK e \in Events : RemoveResult(e)
    BY <1>5
  <2>1. drafts' = drafts /\ inquiries' = inquiries
    BY <1>3
  <2> QED
    BY <1>4, <2>1
<1> QED
  BY <1>1, <1>2, <1>5 DEF World

LEMMA WorldHistory ==
  ASSUME PortTypeOK, History, World
  PROVE  History'
<1> USE WorldKeeps DEF History
<1>1. OneOpenDraft'
  BY DEF OneOpenDraft, OpenDrafts
<1>2. VersionsAreHistory'
  <2>1. \A i, v : MovedTo(i, v)' = MovedTo(i, v)
    BY DEF MovedTo
  <2> QED
    BY <2>1 DEF VersionsAreHistory
<1>3. DraftsEndOnce'
  BY DEF DraftsEndOnce
<1>4. AnswersExpire'
  BY DEF AnswersExpire
<1>5. ExpiryFollowsTheLastEvent'
  BY DEF ExpiryFollowsTheLastEvent
<1> QED
  BY <1>1, <1>2, <1>3, <1>4, <1>5

LEMMA AcceptHistory ==
  ASSUME PortTypeOK, History, NEW e \in Events, NEW op \in Operation,
         NEW k \in Markers, NEW now \in Nat, Accept(e, op, k, now)
  PROVE  History'
<1> PICK i \in Nat : Moved(e, op, now, i)
  BY AcceptMoves DEF History
<1>1. OneOpenDraft'
  BY MovedOneOpen
<1>2. VersionsAreHistory'
  BY MovedVersions DEF History
<1>3. DraftsEndOnce'
  BY MovedEnds DEF History
<1>4. AnswersExpire' /\ ExpiryFollowsTheLastEvent'
  BY MovedExpiry
<1> QED
  BY <1>1, <1>2, <1>3, <1>4 DEF History

\* Whatever adapters send, twice, late or out of order: a dialog has one open
\* draft at most, every version of a draft was made by one accepted event,
\* and nothing follows the event that reset or submitted it.
THEOREM DraftHistory ==
  PortSpec => []OneOpenDraft /\ []VersionsAreHistory /\ []DraftsEndOnce
                /\ []AnswersExpire
<1>1. PortInit => History
  <2>1. PortInit => DOMAIN drafts = {} /\ \A e \in Events : ~Recorded(e)
    BY EmptySeq DEF PortInit, Recorded
  <2> QED
    BY <2>1 DEF History, OneOpenDraft, OpenDrafts, VersionsAreHistory,
         DraftsEndOnce, AnswersExpire, ExpiryFollowsTheLastEvent
<1>2. PortTypeOK /\ History /\ [PortNext]_portVars => History'
  <2> SUFFICES ASSUME PortTypeOK, History, [PortNext]_portVars
               PROVE  History'
    OBVIOUS
  <2>1. ASSUME NEW e \in Events, NEW op \in Operations, NEW k \in Markers,
               NEW now \in 0..clock, Accept(e, op, k, now)
        PROVE  History'
    <3>1. now \in Nat /\ op \in Operation
      BY DEF PortTypeOK
    <3> QED
      BY <2>1, <3>1, AcceptHistory
  <2>2. CASE UNCHANGED portVars
    BY <2>2 DEF portVars, History, OneOpenDraft, OpenDrafts, VersionsAreHistory,
         MovedTo, DraftsEndOnce, AnswersExpire, ExpiryFollowsTheLastEvent, Recorded
  <2> QED
    BY <2>1, <2>2, WorldHistory DEF PortNext
<1>3. History => OneOpenDraft /\ VersionsAreHistory /\ DraftsEndOnce /\ AnswersExpire
  BY DEF History
<1> QED
  BY <1>1, <1>2, <1>3, TypeCorrect, PTL DEF PortSpec

\* The parts of it, one by one.  Two adapters that start a draft at once
\* leave one open row, the newest (OneOpenDraft).
THEOREM OneDraftOpen == PortSpec => []OneOpenDraft
  BY DraftHistory, PTL

\* Nothing moves a draft after the event that reset or submitted it: one
\* draft becomes one inquiry at most (DraftsEndOnce).
THEOREM DraftsEnd == PortSpec => []DraftsEndOnce
  BY DraftHistory, PTL

\* Answers are continued and submitted within their life only, though a call
\* takes its time before it waits for the guard (AnswersExpire).
THEOREM OldAnswersEnd == PortSpec => []AnswersExpire
  BY DraftHistory, PTL

-----------------------------------------------------------------------------
(* Inquiries.                                                               *)

LEMMA AcceptInquiries ==
  ASSUME PortTypeOK, OneOpenDraft, InquiriesAreSubmitted,
         NEW e \in Events, NEW op \in Operation,
         NEW k \in Markers, NEW now \in Nat, Accept(e, op, k, now)
  PROVE  InquiriesAreSubmitted'
<1> PICK i \in Nat : Moved(e, op, now, i)
  BY AcceptMoves
<1>1. /\ ~Recorded(e) /\ Recorded(e)' /\ events'[e].operation = op
      /\ \A f \in Events \ {e} : events'[f] = events[f]
  BY RecordsAssumption DEF Moved, Recorded
<1>2. CASE op.kind = "SUBMIT"
  <2>1. inquiries' = inquiries \cup
          {[event |-> e, answers |-> op.answers, received_at |-> now]}
    BY <1>2 DEF Accept, StartDraft, SaveDraft, ResetDraft, SubmitInquiry
  <2>2. \A q \in inquiries : q.event \in Events /\ q.event # e
    BY <1>1 DEF PortTypeOK, Inquiry, InquiriesAreSubmitted
  <2> DEFINE new == [event |-> e, answers |-> op.answers, received_at |-> now]
  <2>3. new.event = e /\ new.answers = op.answers
    OBVIOUS
  <2>4. inquiries' = inquiries \cup {new}
    BY <2>1
  <2> HIDE DEF new
  <2>5. \A q \in inquiries' :
          /\ Recorded(q.event)'
          /\ events'[q.event].operation.kind = "SUBMIT"
          /\ events'[q.event].operation.answers = q.answers
    BY <1>1, <1>2, <2>2, <2>3, <2>4 DEF InquiriesAreSubmitted, Recorded
  <2>6. ASSUME NEW f \in Events, Recorded(f)',
               events'[f].operation.kind = "SUBMIT"
        PROVE  \E q \in inquiries' : q.event = f
    BY <1>1, <2>3, <2>4, <2>6 DEF InquiriesAreSubmitted, Recorded
  <2>7. \A p, q \in inquiries' : p.event = q.event => p = q
    BY <2>2, <2>3, <2>4 DEF InquiriesAreSubmitted
  <2> QED
    BY <2>5, <2>6, <2>7 DEF InquiriesAreSubmitted
<1>3. CASE op.kind # "SUBMIT"
  <2>1. inquiries' = inquiries
    BY <1>3 DEF Accept, StartDraft, SaveDraft, ResetDraft, SubmitInquiry
  <2>2. \A q \in inquiries : q.event \in Events /\ q.event # e
    BY <1>1 DEF PortTypeOK, Inquiry, InquiriesAreSubmitted
  <2> QED
    BY <1>1, <1>3, <2>1, <2>2 DEF InquiriesAreSubmitted, Recorded
<1> QED
  BY <1>2, <1>3

\* A submission makes one inquiry, with the answers it submitted, and there
\* is no other way to one.
THEOREM InquiriesCorrect == PortSpec => []InquiriesAreSubmitted
<1>1. PortInit => InquiriesAreSubmitted
  BY DEF PortInit, InquiriesAreSubmitted, Recorded
<1>2. PortTypeOK /\ OneOpenDraft /\ InquiriesAreSubmitted /\ [PortNext]_portVars
        => InquiriesAreSubmitted'
  <2> SUFFICES ASSUME PortTypeOK, OneOpenDraft, InquiriesAreSubmitted,
                      [PortNext]_portVars
               PROVE  InquiriesAreSubmitted'
    OBVIOUS
  <2>1. ASSUME NEW e \in Events, NEW op \in Operations, NEW k \in Markers,
               NEW now \in 0..clock, Accept(e, op, k, now)
        PROVE  InquiriesAreSubmitted'
    <3>1. now \in Nat /\ op \in Operation
      BY DEF PortTypeOK
    <3> QED
      BY <2>1, <3>1, AcceptInquiries
  <2>2. CASE World
    <3>1. /\ inquiries' = inquiries
          /\ \A f \in Events :
               /\ Recorded(f)' <=> Recorded(f)
               /\ Recorded(f) => events'[f].operation = events[f].operation
      BY <2>2, WorldKeeps
    <3>2. \A q \in inquiries : q.event \in Events
      BY DEF PortTypeOK, Inquiry
    <3> QED
      BY <3>1, <3>2 DEF InquiriesAreSubmitted
  <2>3. CASE UNCHANGED portVars
    BY <2>3 DEF portVars, InquiriesAreSubmitted, Recorded
  <2> QED
    BY <2>1, <2>2, <2>3 DEF PortNext
<1> QED
  BY <1>1, <1>2, TypeCorrect, DraftHistory, PTL DEF PortSpec
=============================================================================
