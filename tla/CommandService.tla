--------------------------- MODULE CommandService ---------------------------
(***************************************************************************)
(* What the daemon promises its clients, whatever its threads do: commands *)
(* are served one after the other, each is executed at most once, an       *)
(* answer comes after the execution it reports and goes to the client that *)
(* asked, and nobody is answered twice. A command may be dropped without   *)
(* an answer.                                                              *)
(***************************************************************************)
CONSTANT Clients

VARIABLE phase   \* how far each client's command has got

Waiting == {"idle", "submitted"}
InService == {"serving", "executed"}
Over == {"answered", "dropped"}

TypeOK == phase \in [Clients -> Waiting \cup InService \cup Over]

Init == phase = [c \in Clients |-> "idle"]

Move(c, from, to) ==
  /\ phase[c] \in from
  /\ phase' = [phase EXCEPT ![c] = to]

Submit(c) == Move(c, {"idle"}, "submitted")

\* One command in service at a time.
Begin(c) ==
  /\ \A d \in Clients : phase[d] \notin InService
  /\ Move(c, {"submitted"}, "serving")

Execute(c) == Move(c, {"serving"}, "executed")

\* An answer without execution is a refusal, or says that measuring started.
Answer(c) == Move(c, InService, "answered")

Drop(c) == Move(c, {"submitted"} \cup InService, "dropped")

\* The daemon ends: everything that is not answered is dropped.
DropAll ==
  phase' = [c \in Clients |->
              IF phase[c] \in {"submitted"} \cup InService THEN "dropped" ELSE phase[c]]

Next ==
  \/ \E c \in Clients : Submit(c) \/ Begin(c) \/ Execute(c) \/ Answer(c) \/ Drop(c)
  \/ DropAll

Spec == Init /\ [][Next]_phase
=============================================================================
