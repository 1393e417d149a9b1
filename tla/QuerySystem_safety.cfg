SPECIFICATION Spec
CONSTANTS
  s1 = s1  s2 = s2  c1 = c1  c2 = c2  c3 = c3  a1 = a1
  None = None
  AgentStreams = {s1, s2}
  ClientStreams = {c1, c2, c3}
  ConnIds = {"web-conn-1"}
  AgentIds = {a1}
  IdOf <- Reconnecting
  WantId <- AskForA1
  Authorized <- AllStreams
  Bodies <- AgentBodies
  Window = 1
  DbRow <- MongoAndBad
  ConnType <- TypeOfRow
  GoodEnv = {c1, c2}
  PrefixOf <- OnlyItself
  Mentions <- Nobody
  MaxRuns = 3
  AgentFaults = 1
  ClientFaults = 1
INVARIANTS ParamsBeforeQuery NoResultsLeftBehind ExecutedAtMostOnce
PROPERTIES ImplementsService
CHECK_DEADLOCK FALSE
