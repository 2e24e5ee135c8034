----------------------------- MODULE MCCentral -----------------------------
(***************************************************************************)
(* Central on small sets, for TLC.                                         *)
(***************************************************************************)
EXTENDS Central, TLC

\* The machines are alike, and so are the serious events.  Ids are drawn with
\* CHOOSE and are no symmetry.
Symmetry == Permutations(Machines) \cup Permutations(Serious)
=============================================================================
