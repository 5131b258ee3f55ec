----------------------------- MODULE MCSessions -----------------------------
(* Instances of Sessions for TLC.                                          *)
EXTENDS Sessions, TLC

CONSTANT MaxEffort

SessionSymmetry ==
  Permutations(Ids) \cup Permutations(Transactions) \cup Permutations(Requests)
    \cup Permutations(Logins) \cup Permutations(PrincipalIds)
    \cup Permutations(Accounts)

(* Long lifetimes with few logins, many logins in a short time, and what   *)
(* lies between.                                                           *)
Effort ==
  now + 2 * Cardinality({t \in Transactions : transactions[t] # "NONE"})
    <= MaxEffort

=============================================================================
