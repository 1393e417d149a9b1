SPECIFICATION Spec
CONSTANTS
  s1 = s1  s2 = s2  c1 = c1  c2 = c2  a1 = a1  a2 = a2
  None = None
  AgentStreams = {s1, s2}
  ClientStreams = {c1, c2}
  ConnIds = {}
  AgentIds = {a1}
  IdOf <- OneId
  WantId <- BothWantA1
  Authorized <- AllStreams
  Bodies <- PeerBody
  Window = 1
  MaxSend = 1
SYMMETRY StreamSymmetry
INVARIANTS DeliveredOnlyByBoundAgent ForwardedOnlyToBoundAgent RegisteredIsServed
CHECK_DEADLOCK FALSE
