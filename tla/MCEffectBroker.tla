--------------------------- MODULE MCEffectBroker ---------------------------
(* Small instances of the effect broker for TLC.                           *)
EXTENDS EffectBroker, TLC

MCAccounts == {"RUN:USD:default", "DAY:USD:default"}
MCPeriods == {"RUN", "DAY"}
MCPeriodOf == ("RUN:USD:default" :> "RUN") @@ ("DAY:USD:default" :> "DAY")

BrokerSymmetry ==
  Permutations(Reservations) \cup Permutations(Reconcilers)
    \cup Permutations(ApprovalIds) \cup Permutations(Principals)

CONSTANT MaxWithdrawals

(* The bound on how many authorities are withdrawn at a time, the plugin's *)
(* apart.                                                                  *)
FewWithdrawals ==
  Cardinality(kill_switches) + Cardinality(revoked_grants)
    + Cardinality({c \in Connections : connections[c] = "REVOKED"})
    <= MaxWithdrawals

=============================================================================
