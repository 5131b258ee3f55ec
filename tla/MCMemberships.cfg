SPECIFICATION IdentitySpec
CONSTANTS
  p1 = p1
  p2 = p2
  p3 = p3
  a1 = a1
  Principals = {p1, p2, p3}
  Founder = p1
  Roles <- MCRoles
  Emails = {a1}
  EmailOf <- MCEmailOf
  Invites = {i1, i2}
  Keys = {k1}
  RetriedOps <- MCRetriedOps
  Slots = {s1, s2}
  MaxVersion = 2
  MaxPolicies = 2
SYMMETRY Symmetry
CHECK_DEADLOCK FALSE
INVARIANTS
  AlwaysAnOwner
  InvitationAdmitsOne
  OwnersAreVouchedFor
  OneInvitePerLiveKey
PROPERTIES
  CommitsUnderAdmittedAuthority
  RevocationIsFinal
