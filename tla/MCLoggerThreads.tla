------------------------- MODULE MCLoggerThreads -------------------------
(* Small instances of LoggerThreads for TLC. *)
EXTENDS LoggerThreads
=============================================================================
