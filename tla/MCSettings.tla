----------------------------- MODULE MCSettings -----------------------------
(* A setting of one byte, one that no settings packet has, and the password. *)
EXTENDS Settings

MCTable == <<"current", "year", "password">>

\* The operator may change them before there is a daemon.
MCAtFirst == {[id \in Ids |-> 1]}
=============================================================================
