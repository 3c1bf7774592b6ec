\* Does the version keep an answer out of a draft that it was not meant for?
CONSTANTS
  None = None
  Events = {e1, e2, e3, e4}
  Options = {o1, o2}
  Texts = {t1}
  DetailTexts = {t1}
  Markers <- MCMarkers
  Operations = {}
  Workers = {w1, w2}
  Lifetime = 1
  MaxTime = 0
  MaxEdits = 0
  MaxRemoved = 0
  Watched = {}
  MaxUpdates = 4
  ReusedIds = FALSE
SYMMETRY Symmetry
SPECIFICATION Spec
INVARIANTS DraftsKeepTheirChoice
CHECK_DEADLOCK FALSE
