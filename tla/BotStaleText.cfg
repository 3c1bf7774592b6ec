\* Is a text repeated after the step moved taken for an answer to the new step?
CONSTANTS
  None = None
  Events = {e1, e2, e3}
  Options = {o1}
  Texts = {t1}
  DetailTexts = {t1}
  Markers <- MCMarkers
  Operations = {}
  Workers = {w1, w2}
  Lifetime = 1
  MaxTime = 0
  MaxEdits = 0
  MaxRemoved = 0
  Watched = {}
  MaxUpdates = 3
  ReusedIds = FALSE
SYMMETRY Symmetry
SPECIFICATION Spec
INVARIANTS AnswersTheirQuestion
CHECK_DEADLOCK FALSE
