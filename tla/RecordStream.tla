---------------------------- MODULE RecordStream ----------------------------
(***************************************************************************)
(* What the logger threads promise together: the records of each of them   *)
(* reach the store in the order in which they were made, none of them      *)
(* twice, and none is lost unless its logger may lose records.             *)
(***************************************************************************)
EXTENDS Naturals, Sequences

CONSTANT Loggers

VARIABLES
  made,      \* how many records were made for each logger: records 1 .. made
  chan,      \* the records on their way
  stored,    \* the records in the store
  mayLose    \* the loggers that may lose records

vars == <<made, chan, stored, mayLose>>

Init ==
  /\ made = [l \in Loggers |-> 0]
  /\ chan = [l \in Loggers |-> <<>>]
  /\ stored = [l \in Loggers |-> <<>>]
  /\ mayLose \in SUBSET Loggers

Make(l) ==
  /\ made' = [made EXCEPT ![l] = @ + 1]
  /\ chan' = [chan EXCEPT ![l] = Append(@, made[l] + 1)]
  /\ UNCHANGED <<stored, mayLose>>

Store(l) ==
  /\ chan[l] # <<>>
  /\ stored' = [stored EXCEPT ![l] = Append(@, Head(chan[l]))]
  /\ chan' = [chan EXCEPT ![l] = Tail(@)]
  /\ UNCHANGED <<made, mayLose>>

\* Loggers that may lose records lose the next one, or start to.
Lose ==
  /\ mayLose \subseteq mayLose' /\ mayLose' \subseteq Loggers
  /\ \E S \in SUBSET mayLose' :
       /\ \A l \in S : chan[l] # <<>>
       /\ chan' = [l \in Loggers |-> IF l \in S THEN Tail(chan[l]) ELSE chan[l]]
  /\ UNCHANGED <<made, stored>>

Next == Lose \/ \E l \in Loggers : Make(l) \/ Store(l)

Spec == Init /\ [][Next]_vars
=============================================================================
