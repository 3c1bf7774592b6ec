\* One inquiry through its whole life: careless clients, reused keys, two
\* visits with any plan, an inactive service, and results that expire.
CONSTANTS
  i1 = i1
  i2 = i2
  v1 = v1
  v2 = v2
  ride = ride
  walk = walk
  None = None
  Inquiries = {i1}
  Visits = {v1, v2}
  Keys = {k1, k2}
  Slots = {s1, s2}
  Plans <- ManyPlans
  Agreed <- MCAgreed
  ActiveServices = {ride}
  Ops = {"PLAN_VISIT", "START_NEGOTIATION", "CONFIRM", "COMPLETE", "CANCEL",
         "CASH_NOTE", "CORRECTION"}
  MaxCommands = 3
  MaxExpired = 1
  Careless = TRUE
SYMMETRY Symmetry
SPECIFICATION Spec
INVARIANTS CashFactsConserved PlanMatchesStatus OneEffectPerKey
PROPERTIES ImplementsLifecycle AnswersAreStable MoneyIsIndependent
CHECK_DEADLOCK FALSE
