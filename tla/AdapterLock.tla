----------------------------- MODULE AdapterLock -----------------------------
(***************************************************************************)
(* What the lock of the adapter promises: a device belongs to one run of   *)
(* the program at a time, only the run that owns it has a daemon working   *)
(* for it, and it stays the owner as long as that daemon works.            *)
(***************************************************************************)
CONSTANTS Runs, Devices, None, DeviceOf

VARIABLES
  owner,    \* the run each device belongs to
  working   \* the runs whose daemon works

Init == owner = [d \in Devices |-> None] /\ working = {}

Acquire(r) ==
  /\ owner[DeviceOf[r]] = None
  /\ owner' = [owner EXCEPT ![DeviceOf[r]] = r]
  /\ UNCHANGED working

Work(r) ==
  /\ owner[DeviceOf[r]] = r
  /\ working' = working \cup {r}
  /\ UNCHANGED owner

Rest(r) ==
  /\ working' = working \ {r}
  /\ UNCHANGED owner

\* A crash ends the work and gives up the device in one step.
Release(r) ==
  /\ owner[DeviceOf[r]] = r
  /\ owner' = [owner EXCEPT ![DeviceOf[r]] = None]
  /\ working' = working \ {r}

Next == \E r \in Runs : Acquire(r) \/ Work(r) \/ Rest(r) \/ Release(r)

Spec == Init /\ [][Next]_<<owner, working>>
=============================================================================
