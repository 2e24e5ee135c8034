---------------------------- MODULE MCIncidents ----------------------------
(***************************************************************************)
(* Incidents on small sets, for TLC.                                        *)
(***************************************************************************)
EXTENDS Incidents, TLC

\* The two tasks run the same code.  Keys are interchangeable as well.
Symmetry == Permutations(Keys) \cup Permutations(Tasks)
=============================================================================
