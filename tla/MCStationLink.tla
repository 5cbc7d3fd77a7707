-------------------------- MODULE MCStationLink --------------------------
(* Instances of StationLink for TLC; the constants are in the .cfg files. *)
EXTENDS StationLink
=============================================================================
