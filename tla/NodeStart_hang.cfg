CONSTANTS
  core = core
  provider = provider
  unset = unset
  Nodes = {core, provider, unset}
  Seeds = {core}
  FirstSeed = core
  NullRoles = {unset}
  RolesOf <- MCRolesOf
SPECIFICATION Spec
CHECK_DEADLOCK FALSE
PROPERTIES
  UpNodeStarts
