\* From every step of a dialog, two more updates, each handled twice at once,
\* in a world that moves: drafts expire, results are removed, identifiers are
\* used again.
CONSTANTS
  None = None
  a1 = a1
  a2 = a2
  a3 = a3
  e1 = e1
  o1 = o1
  t1 = t1
  Events = {a1, a2, a3, e1, e2}
  Options = {o1}
  Texts = {t1}
  DetailTexts = {t1}
  Markers <- MCMarkers
  Operations <- MCOperations
  Workers = {w1, w2}
  Lifetime = 1
  MaxTime = 1
  MaxEdits = 0
  MaxRemoved = 1
  Watched = {}
  MaxUpdates = 5
  ReusedIds = TRUE
SYMMETRY MidwaySymmetry
SPECIFICATION MidwaySpec
INVARIANTS TypeOK RepliesAreTrue AcknowledgedIsDone
  OneOpenDraft VersionsAreHistory DraftsEndOnce InquiriesAreSubmitted AnswersExpire
PROPERTIES FollowsConversation
CHECK_DEADLOCK FALSE
