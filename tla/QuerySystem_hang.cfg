SPECIFICATION FairSpec
CONSTANTS
  s1 = s1  s2 = s2  c1 = c1  c2 = c2  c3 = c3  a1 = a1
  None = None
  AgentStreams = {s1, s2}
  ClientStreams = {c1}
  ConnIds = {"web-conn-1"}
  AgentIds = {a1}
  IdOf <- Reconnecting
  WantId <- AskForA1
  Authorized <- AllStreams
  Bodies <- AgentBodies
  Window = 1
  DbRow <- OneMySQL
  ConnType <- TypeOfRow
  GoodEnv = {c1}
  PrefixOf <- OnlyItself
  Mentions <- Nobody
  MaxRuns = 3
  AgentFaults = 1
  ClientFaults = 0
PROPERTIES EveryQueryAnswered
CHECK_DEADLOCK FALSE
