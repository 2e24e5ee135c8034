--------------------------- MODULE MCQuarantine ---------------------------
(***************************************************************************)
(* Quarantine on small sets, for TLC.                                      *)
(***************************************************************************)
EXTENDS Quarantine, TLC

\* The names of paths, contents and workers do not matter; ids and inodes are
\* drawn with CHOOSE and are no symmetry.
Symmetry == Permutations(Paths) \cup Permutations(Contents) \cup Permutations(Workers)
=============================================================================
