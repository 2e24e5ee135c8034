----------------------------- MODULE MCFirewall -----------------------------
(***************************************************************************)
(* Firewall for TLC: the callers are interchangeable.            *)
(***************************************************************************)
EXTENDS Firewall, TLC

Symmetry == Permutations(Callers)

=============================================================================
