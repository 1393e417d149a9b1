SPECIFICATION Spec
CONSTANTS
  None = None
  Envs <- EmbeddedEnvs
  Instances = {1, 2}
  MaxBackoff = 9
PROPERTIES EmbeddedAgentConnects
CHECK_DEADLOCK FALSE
