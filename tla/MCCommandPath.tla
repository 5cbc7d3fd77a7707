-------------------------- MODULE MCCommandPath --------------------------
(* Small instances of CommandPath for TLC. *)
EXTENDS CommandPath, TLC

\* The kinds a daemon with an intact command line gets.
WellFormed == AllKinds \ {"malformed"}

Symmetry == Permutations(Clients)
=============================================================================
