\* A submission whose answer is lost, or whose process crashes, among other
\* updates of the same dialog that are handled at the same time.
CONSTANTS
  None = None
  a1 = a1
  a2 = a2
  a3 = a3
  e1 = e1
  o1 = o1
  t1 = t1
  Events = {a1, a2, a3, e1, e2}
  Options = {o1}
  Texts = {t1}
  DetailTexts = {t1}
  Markers <- MCMarkers
  Operations <- MCOperations
  Workers = {w1, w2}
  Lifetime = 1
  MaxTime = 0
  MaxEdits = 1
  MaxRemoved = 0
  Watched <- MCWatched
  MaxUpdates = 5
  ReusedIds = FALSE
SPECIFICATION ReviewSpec
PROPERTIES SubmissionsAreAnswered
CHECK_DEADLOCK FALSE
