SPECIFICATION FairSpec
CONSTANTS
  s1 = s1  s2 = s2  c1 = c1  c2 = c2  a1 = a1  a2 = a2
  None = None
  AgentStreams = {s1}
  ClientStreams = {c1, c2}
  ConnIds = {}
  AgentIds = {a1, a2}
  IdOf <- OneAgent
  WantId <- Wants
  Authorized <- NotC2
  Bodies <- PeerBody
  Window = 1
  MaxSend = 2
INVARIANTS TypeOK LockedSessionIsOpen AnswersInOrder RequestsInOrder
PROPERTIES ClosedSessionIsSilent SessionOfGoneClientRemoved
CHECK_DEADLOCK FALSE
