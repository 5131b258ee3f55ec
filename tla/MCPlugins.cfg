SPECIFICATION PluginSpec
CONSTANTS
  p1 = p1
  p2 = p2
  Grants = {g1, g2}
  Principals = {p1, p2}
  Actions <- MCActions
  Resources <- MCResources
  MaxTime = 2
  Plugins = {"app", "lib"}
  PluginOrder <- MCOrder
  Digests = {"a1", "a2", "a3", "a4", "l1", "l2"}
  Manifest <- MCManifest
  Capabilities = {"read", "send"}
  Runs = {r1}
  Products = {q1}
  Offers <- MCOffers
  Stoppable = {"app"}
  MaxVersion = 5
  MaxLoad = 2
SYMMETRY GrantSymmetry
CONSTRAINT Focus
CHECK_DEADLOCK FALSE
INVARIANTS
  AuthorityFlowsDown
  InstallationsFollowTheirBuild
  DisabledPluginsAreIdle
  OnlyRevocationBreaksResolution
  
  InvocationsRunTheGrantedBuild

  
