\* Two inquiries on one visit: the lifecycle commands, concurrent clients, and
\* keys enough for a late command to meet an inquiry served or cancelled.
CONSTANTS
  i1 = i1
  i2 = i2
  v1 = v1
  v2 = v2
  ride = ride
  walk = walk
  None = None
  Inquiries = {i1, i2}
  Visits = {v1}
  Keys = {k1, k2, k3}
  Slots = {s1, s2}
  Plans <- OnePlan
  Agreed <- SameTerms
  ActiveServices = {ride}
  Ops = {"PLAN_VISIT", "START_NEGOTIATION", "CONFIRM", "COMPLETE", "CANCEL"}
  MaxCommands = 4
  MaxExpired = 0
  Careless = FALSE
SYMMETRY GroupSymmetry
SPECIFICATION Spec
INVARIANTS TypeOK HistoryIsGapless OneWinnerPerVersion
PROPERTIES OutcomesAreFinal GroupIsolation
CHECK_DEADLOCK FALSE
