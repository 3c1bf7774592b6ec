\* Does another key with the same token and form always get the receipt?
CONSTANTS
  None = None
  Tokens = {t1, forged}
  Forged = forged
  Keys = {k1, k2}
  Payloads = {p1}
  Ids = {n1, n2}
  Calls = {c1, c2}
  Lifetime = 2
  MaxTime = 2
  MaxRemoved = 0
SYMMETRY Symmetry
SPECIFICATION Spec
INVARIANTS SamePayloadGetsReceipt
CHECK_DEADLOCK FALSE
