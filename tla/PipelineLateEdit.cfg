\* One task, and one commit on the trunk: enough for a change of the files
\* between the checks of finish and its commit.
CONSTANTS
  None = None
  base = base
  build = build
  trial = trial
  Tasks = {base}
  DependsOn <- MCDependsOn
  Overlaps <- MCOverlaps
  Local = {}
  RetryLimit <- MCRetryLimit
  Contents = {good, bad}
  Passing = {good}
  MaxTrunk = 1
  MaxEdits = 2
SPECIFICATION Spec
PROPERTIES MergesWhatWasReviewed
CHECK_DEADLOCK FALSE
