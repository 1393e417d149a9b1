SPECIFICATION FairSpec
CONSTANTS
  None = None
  Keys = {"1", "10"}
  PrefixOf <- Prefixes
  NoopFirst = {"10"}
  MaxDials = 2
  MaxWrites = 3
INVARIANTS TypeOK WrittenOnce OrderedAfterFirst LostOnlyToLateDel
PROPERTIES ClosedSessionEnds
CHECK_DEADLOCK FALSE
