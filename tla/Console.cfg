SPECIFICATION Spec
CONSTANTS
  c1 = c1
  s1 = s1
  s2 = s2
  api = api
  Consoles = {c1}
  Api = api
  Slots = {s1, s2}
  Callers <- CallersOf
  AgentIds <- Ids
  FirstRows <- Rows
  Values <- Typed
  Tabs = {"agents", "databases"}
  ApiIds = {1}
  ApiBodies <- Bodies
  AddPrefix <- Added
  WithPrefix <- Prefix
  MaxId = 3
  MaxTyped = 1
  MaxClicks = 3
SYMMETRY Symmetry
INVARIANTS TypeOK TablesConsistent OwnChangesShown
PROPERTY UneditedColumnsKept
CHECK_DEADLOCK FALSE
