---------------------------- MODULE MCEchoCancel ----------------------------
(* A request without data and an answer with two bytes of it. The last byte *)
(* of the request has the value of the address.                             *)
EXTENDS EchoCancel

MCRequest == <<9, 0, 1, 2, 3, 9>>
MCAnswer == <<9, 0, 3, 4, 5, 6, 7, 8>>
=============================================================================
