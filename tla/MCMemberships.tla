--------------------------- MODULE MCMemberships ----------------------------
(* A small tenant for TLC: an owner and two more identities, all with the  *)
(* same verified address.                                                  *)
EXTENDS Memberships, TLC

CONSTANTS p1, p2, p3, a1

MCEmailOf == [p \in Principals |-> a1]
MCRoles == {"OWNER", "EDITOR"}
MCRetriedOps == {"membership.invite"}

Symmetry ==
  Permutations({p2, p3}) \cup Permutations(Invites) \cup Permutations(Slots)

=============================================================================
