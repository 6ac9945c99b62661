------------------------------ MODULE MCRadar -------------------------------
(* Two tenants' predictions of one PCA item and two executions, each of    *)
(* either worker.                                                          *)
EXTENDS Radar, TLC

Symmetry == Permutations(Workers) \cup Permutations(Tenants)
=============================================================================
