SPECIFICATION FairSpec
CONSTANTS
  t1 = t1
  t2 = t2
  Null = Null
  Thread = {t1, t2}
  Object = {}
  Trigger = {}
  MaxTimeout = 0
  Diff = {0}
  Priority = {5, 10}
  DefaultPriority = 10
  StepModes = {}
  Load = {"file"}
  WaitArgs = {}
  NotifyTargets = {}
  ForeignWait = FALSE
  Nested = {FALSE}
  ExecSelf = FALSE
PROPERTIES ReadyRuns
CHECK_DEADLOCK FALSE
