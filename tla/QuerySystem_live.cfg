SPECIFICATION FairSpec
CONSTANTS
  s1 = s1  s2 = s2  c1 = c1  c2 = c2  c3 = c3  a1 = a1
  None = None
  AgentStreams = {s1}
  ClientStreams = {c1, c2}
  ConnIds = {"web-conn-1"}
  AgentIds = {a1}
  IdOf <- Reconnecting
  WantId <- AskForA1
  Authorized <- AllStreams
  Bodies <- AgentBodies
  Window = 2
  DbRow <- MySQLAndPostgres
  ConnType <- TypeOfRow
  GoodEnv = {c1, c2}
  PrefixOf <- OnlyItself
  Mentions <- Nobody
  MaxRuns = 3
  AgentFaults = 0
  ClientFaults = 1
PROPERTIES EveryQueryAnswered
CHECK_DEADLOCK FALSE
