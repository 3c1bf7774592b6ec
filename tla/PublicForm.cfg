\* Two clients with two keys and two forms: retries, lost answers, late
\* transactions, an expired token, a closed option and a removed result.
CONSTANTS
  None = None
  Tokens = {t1, forged}
  Forged = forged
  Keys = {k1, k2}
  Payloads = {p1, p2}
  Ids = {n1, n2}
  Calls = {c1, c2}
  Lifetime = 1
  MaxTime = 1
  MaxRemoved = 1
SPECIFICATION FairSpec
INVARIANTS TypeOK AtMostOneInquiry ReceiptsAreTruthful ConsumedInTime
PROPERTIES LostAnswersAreRecovered
CHECK_DEADLOCK FALSE
