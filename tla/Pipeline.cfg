\* Three tasks, one after another and side by side; the controller may stop
\* at any moment.
CONSTANTS
  None = None
  base = base
  build = build
  trial = trial
  Tasks = {base, build, trial}
  DependsOn <- MCDependsOn
  Overlaps <- MCOverlaps
  Local = {trial}
  RetryLimit <- MCRetryLimit
  Contents = {good, bad}
  Passing = {good}
  MaxTrunk = 2
  MaxEdits = 2
SPECIFICATION Spec
INVARIANTS TypeOK DependenciesFirst ScopesAreExclusive DoneIsMerged CallsAreBounded
PROPERTIES OnlyApprovedIsMerged
CHECK_DEADLOCK FALSE
