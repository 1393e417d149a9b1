SPECIFICATION Spec
CONSTANTS
  None = None
  Envs <- MCEnvs
  Instances = {1, 2}
  MaxBackoff = 9
INVARIANTS RetryPaced OneStream
PROPERTIES Reconnects ExitsOnSignal
CHECK_DEADLOCK FALSE
