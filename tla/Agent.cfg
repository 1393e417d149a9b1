SPECIFICATION FairSpec
CONSTANTS
  s1 = s1  c1 = c1  c2 = c2
  None = None
  AgentStreams = {s1}
  ClientStreams = {c1, c2}
  ConnIds = {"1", "10"}
  Bodies <- AgentBodies
  Window = 1
  ConnType <- Types
  GoodEnv = {c1}
  PrefixOf <- Prefixes
  Mentions <- Occurrences
  MaxRuns = 3
  MaxPackets = 3
INVARIANTS TypeOK ParamsBeforeOpenOK ProxiesHaveParams
PROPERTIES SessionsAreIsolated EveryOpenIsAnswered
CHECK_DEADLOCK FALSE
