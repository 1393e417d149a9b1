SPECIFICATION Spec
CONSTANTS
  None = None
  Requests = {"r1", "r2", "r3"}
  Resources = {"x", "y"}
  HostOf <- MCHost
  RoleNames <- MCRoles
  MaxCrashes = 1
  Sessions = {"s1"}
  SecretIds <- MCIds
  Slashed <- MCSlashed
  KeysOf <- MCKeys
  MountOf <- MCMount
  Written <- MCWritten
  Loads <- MCLoads
INVARIANTS TypeOK CredentialsWork DecodedTogether SessionPasswordWorks LockHasHolder
CHECK_DEADLOCK FALSE
