----------------------------- MODULE MCArtifacts ----------------------------
(* A small instance for TLC: one upload may be open at a time, and what is *)
(* derived from a file can itself be derived from.                         *)
EXTENDS Artifacts, TLC

Symmetry == Permutations(Uploads)
            \cup Permutations(Attempts)

=============================================================================
