------------------------- MODULE DaemonStart_proofs -------------------------
(***************************************************************************)
(* One daemon per device, whatever the number of runs and devices. The     *)
(* argument: only a run that finds the lock free opens it, it hands it to  *)
(* its own processes only, and each of these has it from its first step to *)
(* the last in which it matters (Handed). So two runs with the lock of the *)
(* same device are the same run (OneOwner).                                *)
(***************************************************************************)
EXTENDS DaemonStart, TLAPS

\* Whoever forks, is forked or works has the lock.
Handed ==
  \A r \in Runs :
    /\ client[r] = "fork" => "client" \in holders[r]
    /\ child[r] = "session" => "child" \in holders[r]
    /\ daemon[r] \in Working => "daemon" \in holders[r]

OneOwner ==
  \A r, s \in Runs : Dev(r) = Dev(s) /\ holders[r] # {} /\ holders[s] # {} => r = s

IInv == TypeOK /\ Handed /\ OneOwner

-----------------------------------------------------------------------------
(* Who the owner is, as a function of the holders.                         *)

Single(h) == \A d \in Devices : \A r, s \in Locking(h, d) : r = s

\* Where a device has at most one run with its lock, that run is its owner.
LEMMA OwnerIsHolder ==
  ASSUME NEW h, Single(h), NEW r \in Runs, h[r] # {}
  PROVE  OwnerOf(h)[Dev(r)] = r
<1>1. Dev(r) \in Devices
  BY DEF Dev, Devices
<1>2. r \in Locking(h, Dev(r))
  BY DEF Locking
<1>3. AnyOf(Locking(h, Dev(r))) = r
  BY <1>1, <1>2 DEF Single, AnyOf
<1> QED
  BY <1>1, <1>2, <1>3 DEF OwnerOf

\* A device whose lock is free has no owner.
LEMMA FreeHasNoOwner ==
  ASSUME NEW h, NEW d \in Devices, Locking(h, d) = {}
  PROVE  OwnerOf(h)[d] = None
BY DEF OwnerOf

\* A change of one run's descriptors that leaves it with some, or leaves it
\* without any, does not change any owner.
LEMMA SameOwner ==
  ASSUME NEW h \in [Runs -> SUBSET Processes], NEW r \in Runs, NEW X \in SUBSET Processes,
         (h[r] = {}) <=> (X = {})
  PROVE  OwnerOf([h EXCEPT ![r] = X]) = OwnerOf(h)
<1> DEFINE g == [h EXCEPT ![r] = X]
<1>1. ASSUME NEW d \in Devices PROVE Locking(g, d) = Locking(h, d)
  BY DEF Locking
<1> QED
  BY <1>1 DEF OwnerOf

\* The run that takes a free lock becomes the owner of its device.
LEMMA NewOwner ==
  ASSUME NEW h \in [Runs -> SUBSET Processes], NEW r \in Runs, NEW X \in SUBSET Processes,
         Locking(h, Dev(r)) = {}, X # {}
  PROVE  OwnerOf([h EXCEPT ![r] = X]) = [OwnerOf(h) EXCEPT ![Dev(r)] = r]
<1> DEFINE g == [h EXCEPT ![r] = X]
<1>1. ASSUME NEW d \in Devices, d # Dev(r) PROVE Locking(g, d) = Locking(h, d)
  BY <1>1 DEF Locking
<1>2. Locking(g, Dev(r)) = {r}
  BY DEF Locking
<1>3. AnyOf({r}) = r
  BY DEF AnyOf
<1> QED
  BY <1>1, <1>2, <1>3 DEF OwnerOf

\* When a run closes the last descriptor of the lock, its device has no owner.
LEMMA NoOwner ==
  ASSUME NEW h \in [Runs -> SUBSET Processes], Single(h), NEW r \in Runs, h[r] # {}
  PROVE  OwnerOf([h EXCEPT ![r] = {}]) = [OwnerOf(h) EXCEPT ![Dev(r)] = None]
<1> DEFINE g == [h EXCEPT ![r] = {}]
<1>1. ASSUME NEW d \in Devices, d # Dev(r) PROVE Locking(g, d) = Locking(h, d)
  BY <1>1 DEF Locking
<1>2. Locking(g, Dev(r)) = {}
  <2>1. Dev(r) \in Devices
    BY DEF Dev, Devices
  <2> QED
    BY <2>1 DEF Locking, Single
<1> QED
  BY <1>1, <1>2 DEF OwnerOf

-----------------------------------------------------------------------------
(* The invariant.                                                          *)

\* The invariant holds at first.
LEMMA InvInit == Init => IInv
BY TriesAssumption DEF Init, IInv, TypeOK, Handed, OneOwner, Devices, Working, Starting

\* Every step keeps the types.
LEMMA TypeStep == TypeOK /\ [Next]_vars => TypeOK'
<1> SUFFICES ASSUME TypeOK, [Next]_vars PROVE TypeOK'
  OBVIOUS
<1> USE TriesAssumption DEF TypeOK, Client, Child, Daemon, Opens, Closes, Passes, Processes
<1>1. ASSUME NEW r \in Runs, createLock(r) PROVE TypeOK'
  BY <1>1 DEF createLock
<1>2. ASSUME NEW r \in Runs, Fork(r) PROVE TypeOK'
  BY <1>2 DEF Fork
<1>3. ASSUME NEW r \in Runs, Connect(r) PROVE TypeOK'
  BY <1>3 DEF Connect, Reachable, Dev, Devices
<1>4. ASSUME NEW r \in Runs, Leave(r) \/ Kill(r) PROVE TypeOK'
  BY <1>4 DEF Leave, Kill
<1>5. ASSUME NEW r \in Runs, Session(r) PROVE TypeOK'
  BY <1>5 DEF Session, Working, Starting
<1>6. ASSUME NEW r \in Runs, Vanish(r) PROVE TypeOK'
  BY <1>6 DEF Vanish
<1>7. ASSUME NEW r \in Runs, NEW from \in Working, NEW to \in Working \cup {"exiting"},
             Step(r, from, to)
      PROVE  TypeOK'
  BY <1>7 DEF Step
<1>8. ASSUME NEW r \in Runs, CreateServer(r) PROVE TypeOK'
  BY <1>8 DEF CreateServer, Binds, Working, Starting
<1>9. ASSUME NEW r \in Runs, Exit(r) PROVE TypeOK'
  BY <1>9 DEF Exit, Dev, Devices
<1>10. CASE UNCHANGED vars
  BY <1>10 DEF vars
<1>11. ASSUME NEW r \in Runs,
              \/ Reopen(r) \/ UpdateParameterFilter(r) \/ UpdateSettingsValues(r)
              \/ CreateLoggerFacility(r) \/ DaemonCleanup(r) \/ ServerEnds(r) \/ Crash(r)
       PROVE  TypeOK'
  <2> USE DEF Working, Starting
  <2>1. CASE Vanish(r)
    BY <2>1, <1>6
  <2>2. CASE \E from \in Working, to \in Working \cup {"exiting"} : Step(r, from, to)
    BY <2>2, <1>7
  <2> QED
    BY <1>11, <2>1, <2>2 DEF Reopen, UpdateParameterFilter, UpdateSettingsValues,
         CreateLoggerFacility, DaemonCleanup, ServerEnds, Crash
<1> QED
  BY <1>1, <1>2, <1>3, <1>4, <1>5, <1>8, <1>9, <1>10, <1>11
     DEF Next, ClientStep, DaemonStep

\* Whoever has the lock open has it from the process it was forked by.
LEMMA HandedStep == TypeOK /\ Handed /\ [Next]_vars => Handed'
<1> SUFFICES ASSUME TypeOK, Handed, [Next]_vars PROVE Handed'
  OBVIOUS
<1> USE DEF TypeOK, Handed, Client, Child, Daemon, Opens, Closes, Passes
<1>1. ASSUME NEW r \in Runs, createLock(r) PROVE Handed'
  BY <1>1 DEF createLock
<1>2. ASSUME NEW r \in Runs, Fork(r) PROVE Handed'
  BY <1>2 DEF Fork
<1>3. ASSUME NEW r \in Runs, Connect(r) PROVE Handed'
  BY <1>3 DEF Connect
<1>4. ASSUME NEW r \in Runs, Leave(r) \/ Kill(r) PROVE Handed'
  BY <1>4 DEF Leave, Kill
<1>5. ASSUME NEW r \in Runs, Session(r) PROVE Handed'
  BY <1>5 DEF Session, Working, Starting
<1>6. ASSUME NEW r \in Runs, Vanish(r) PROVE Handed'
  BY <1>6 DEF Vanish, Working, Starting
<1>7. ASSUME NEW r \in Runs, NEW from \in Working, NEW to \in Working \cup {"exiting"},
             Step(r, from, to)
      PROVE  Handed'
  BY <1>7 DEF Step
<1>8. ASSUME NEW r \in Runs, CreateServer(r) PROVE Handed'
  BY <1>8 DEF CreateServer, Working, Starting
<1>9. ASSUME NEW r \in Runs, Exit(r) PROVE Handed'
  BY <1>9 DEF Exit, Working, Starting
<1>10. CASE UNCHANGED vars
  BY <1>10 DEF vars
<1>11. ASSUME NEW r \in Runs,
              \/ Reopen(r) \/ UpdateParameterFilter(r) \/ UpdateSettingsValues(r)
              \/ CreateLoggerFacility(r) \/ DaemonCleanup(r) \/ ServerEnds(r) \/ Crash(r)
       PROVE  Handed'
  <2>1. CASE Vanish(r)
    BY <2>1, <1>6
  <2>2. CASE \E from \in Working, to \in Working \cup {"exiting"} : Step(r, from, to)
    BY <2>2, <1>7
  <2> QED
    BY <1>11, <2>1, <2>2 DEF Reopen, UpdateParameterFilter, UpdateSettingsValues,
         CreateLoggerFacility, DaemonCleanup, ServerEnds, Crash, Working, Starting
<1> QED
  BY <1>1, <1>2, <1>3, <1>4, <1>5, <1>8, <1>9, <1>10, <1>11
     DEF Next, ClientStep, DaemonStep

\* What a step may do to the descriptors of the lock: leave them alone, take a
\* lock that is free, or change those of a run that has some.
Change(r) ==
  \E X \in SUBSET Processes :
    /\ holders' = [holders EXCEPT ![r] = X]
    /\ \/ holders[r] # {}
       \/ holders[r] = {} /\ X = {}
       \/ ~Taken(Dev(r)) /\ X # {}

\* The steps of a run change its processes with the lock as Change says.
LEMMA StepChanges ==
  ASSUME TypeOK, Handed, NEW r \in Runs,
         ClientStep(r) \/ Leave(r) \/ Kill(r) \/ Session(r) \/ DaemonStep(r)
         \/ ServerEnds(r) \/ Crash(r)
  PROVE  Change(r)
<1> USE DEF TypeOK, Processes
<1>1. ASSUME NEW p \in Processes, Closes(r, p) PROVE Change(r)
  BY <1>1 DEF Closes, Change
<1>2. ASSUME UNCHANGED holders PROVE Change(r)
  BY <1>2 DEF Change
<1>3. CASE createLock(r)
  <2>1. CASE ~Taken(Dev(r)) /\ Opens(r, "client")
    BY <2>1 DEF Opens, Change
  <2> QED
    BY <1>2, <1>3, <2>1 DEF createLock
<1>4. CASE Fork(r)
  <2>1. CASE Opens(r, "child")
    <3>1. "client" \in holders[r]
      BY <1>4 DEF Fork, Client, Handed
    <3> QED
      BY <2>1, <3>1 DEF Opens, Change
  <2> QED
    BY <1>1, <1>4, <2>1 DEF Fork
<1>5. CASE Session(r)
  <2>1. CASE Passes(r, "child", "daemon")
    <3>1. "child" \in holders[r]
      BY <1>5 DEF Session, Child, Handed
    <3> QED
      BY <2>1, <3>1 DEF Passes, Change
  <2> QED
    BY <1>1, <1>5, <2>1 DEF Session
<1>6. CASE Connect(r) \/ Leave(r) \/ Kill(r)
  BY <1>1, <1>2, <1>6 DEF Connect, Leave, Kill
<1>7. CASE Vanish(r)
  BY <1>1, <1>7 DEF Vanish
<1>8. CASE DaemonStep(r) \/ ServerEnds(r) \/ Crash(r)
  BY <1>1, <1>2, <1>7, <1>8 DEF DaemonStep, Reopen, UpdateParameterFilter, UpdateSettingsValues,
     CreateLoggerFacility, CreateServer, DaemonCleanup, Exit, ServerEnds, Crash, Step
<1> QED
  BY <1>3, <1>4, <1>5, <1>6, <1>8 DEF ClientStep

\* A change of the descriptors leaves at most one run with the lock of a device.
LEMMA OneOwnerKept ==
  ASSUME TypeOK, OneOwner, NEW r \in Runs, Change(r)
  PROVE  OneOwner'
<1>1. PICK X \in SUBSET Processes :
        /\ holders' = [holders EXCEPT ![r] = X]
        /\ \/ holders[r] # {}
           \/ holders[r] = {} /\ X = {}
           \/ ~Taken(Dev(r)) /\ X # {}
  BY DEF Change
<1>2. ASSUME NEW s \in Runs, NEW t \in Runs,
             Dev(s) = Dev(t), holders'[s] # {}, holders'[t] # {}, s # t
      PROVE  FALSE
  <2>1. CASE holders[r] # {} \/ X = {}
    BY <1>1, <1>2, <2>1 DEF OneOwner, TypeOK
  <2>2. CASE ~Taken(Dev(r))
    BY <1>1, <1>2, <2>2 DEF OneOwner, TypeOK, Taken, Locking
  <2> QED
    BY <1>1, <2>1, <2>2
<1> QED
  BY <1>2 DEF OneOwner, Dev

\* Every step keeps the invariant.
LEMMA InvNext == IInv /\ [Next]_vars => IInv'
<1> SUFFICES ASSUME IInv, [Next]_vars PROVE IInv'
  OBVIOUS
<1>1. TypeOK' /\ Handed'
  BY TypeStep, HandedStep DEF IInv
<1>2. CASE UNCHANGED vars
  BY <1>1, <1>2 DEF IInv, OneOwner, vars
<1>3. CASE Next
  BY <1>1, <1>3, StepChanges, OneOwnerKept DEF IInv, Next
<1> QED
  BY <1>2, <1>3

\* The invariant holds always: the lock is with processes of one run that may have it (createLock, BecomeDaemon).
THEOREM Invariance == Spec => []IInv
<1>1. Init => IInv
  BY InvInit
<1>2. IInv /\ [Next]_vars => IInv'
  BY InvNext
<1> QED
  BY <1>1, <1>2, PTL DEF Spec

\* Types (module DaemonStart).
THEOREM TypeCorrect == Spec => []TypeOK
<1>1. IInv => TypeOK
  BY DEF IInv
<1> QED
  BY <1>1, Invariance, PTL

-----------------------------------------------------------------------------
(* The theorems.                                                           *)

\* Of two runs for the same device at most one has a daemon that works, and
\* while it does the other has not even the lock.
OneDaemon ==
  \A r, s \in Runs :
    daemon[r] \in Working /\ Dev(s) = Dev(r) /\ s # r =>
      daemon[s] \notin Working /\ holders[s] = {}

\* A device never has two daemons (createLock, BecomeDaemon).
THEOREM NeverTwoDaemons == Spec => []OneDaemon
<1>1. IInv => OneDaemon
  BY DEF IInv, Handed, OneOwner, OneDaemon, TypeOK
<1> QED
  BY <1>1, Invariance, PTL

\* A step of the run r, seen as a step of the lock.
LEMMA StepImplements ==
  ASSUME IInv, NEW r \in Runs, Change(r), Handed',
         \A s \in Runs : s # r => daemon'[s] = daemon[s],
         holders' = holders \/ daemon' = daemon \/ daemon'[r] \notin Working
           \/ (holders[r] # {} /\ holders'[r] # {})
  PROVE  Lock!Next \/ UNCHANGED <<OwnerOf(holders), AtWork(daemon)>>
<1> USE DEF IInv, TypeOK
<1> DEFINE d == Dev(r)
           o == OwnerOf(holders)
           w == AtWork(daemon)
<1>1. PICK X \in SUBSET Processes :
        /\ holders' = [holders EXCEPT ![r] = X]
        /\ \/ holders[r] # {}
           \/ holders[r] = {} /\ X = {}
           \/ ~Taken(Dev(r)) /\ X # {}
  BY DEF Change
<1>2. d \in Devices /\ holders \in [Runs -> SUBSET Processes] /\ Single(holders)
  BY DEF Dev, Devices, Single, OneOwner, Locking
<1>3. AtWork(daemon') = w \/ AtWork(daemon') = w \ {r} \/ AtWork(daemon') = w \cup {r}
  BY DEF AtWork
<1>4. CASE holders[r] # {} /\ X # {}
  <2>1. OwnerOf(holders') = o
    BY <1>1, <1>2, <1>4, SameOwner
  <2>2. o[d] = r
    BY <1>2, <1>4, OwnerIsHolder
  <2> QED
    BY <1>3, <2>1, <2>2 DEF Lock!Next, Lock!Work, Lock!Rest, Dev
<1>5. CASE holders[r] # {} /\ X = {}
  <2>1. OwnerOf(holders') = [o EXCEPT ![d] = None]
    BY <1>1, <1>2, <1>5, NoOwner
  <2>2. o[d] = r
    BY <1>2, <1>5, OwnerIsHolder
  <2>3. daemon'[r] \notin Working
    BY <1>1, <1>5 DEF Handed
  <2>4. AtWork(daemon') = w \ {r}
    BY <2>3 DEF AtWork
  <2> QED
    BY <2>1, <2>2, <2>4 DEF Lock!Next, Lock!Release, Dev
<1>6. CASE holders[r] = {} /\ X = {}
  <2>1. OwnerOf(holders') = o
    BY <1>1, <1>2, <1>6, SameOwner
  <2>2. daemon'[r] \notin Working
    BY <1>1, <1>6 DEF Handed
  <2>3. AtWork(daemon') = w \ {r}
    BY <2>2 DEF AtWork
  <2> QED
    BY <2>1, <2>3 DEF Lock!Next, Lock!Rest
<1>7. CASE ~Taken(d) /\ X # {}
  <2>1. OwnerOf(holders') = [o EXCEPT ![d] = r]
    BY <1>1, <1>2, <1>7, NewOwner DEF Taken
  <2>2. o[d] = None
    BY <1>2, <1>7, FreeHasNoOwner DEF Taken
  <2>3. holders[r] = {} /\ holders' # holders
    BY <1>1, <1>2, <1>7 DEF Taken, Locking
  <2>4. AtWork(daemon') = w
    BY <2>3 DEF AtWork, Handed
  <2> QED
    BY <2>1, <2>2, <2>4 DEF Lock!Next, Lock!Acquire, Dev
<1> QED
  BY <1>1, <1>4, <1>5, <1>6, <1>7

\* A step changes one daemon at most, and both the descriptors and the daemon
\* only when the run keeps the lock or its daemon does not work any more.
LEMMA StepIsLocal ==
  ASSUME TypeOK, Handed, NEW r \in Runs,
         ClientStep(r) \/ Leave(r) \/ Kill(r) \/ Session(r) \/ DaemonStep(r)
         \/ ServerEnds(r) \/ Crash(r)
  PROVE  /\ \A s \in Runs : s # r => daemon'[s] = daemon[s]
         /\ holders' = holders \/ daemon' = daemon \/ daemon'[r] \notin Working
              \/ (holders[r] # {} /\ holders'[r] # {})
<1> USE DEF TypeOK
<1>1. CASE ClientStep(r) \/ Leave(r) \/ Kill(r)
  BY <1>1 DEF ClientStep, createLock, Fork, Connect, Leave, Kill
<1>2. CASE Session(r)
  BY <1>2 DEF Session, Handed, Child, Daemon, Passes
<1>3. CASE Vanish(r)
  BY <1>3 DEF Vanish, Working, Starting
<1>4. CASE DaemonStep(r) \/ ServerEnds(r) \/ Crash(r)
  <2>1. CASE Exit(r)
    BY <2>1 DEF Exit, Working, Starting
  <2>2. CASE CreateServer(r)
    BY <2>2 DEF CreateServer, Daemon
  <2>3. CASE \E from \in Working, to \in Working \cup {"exiting"} : Step(r, from, to)
    BY <2>3 DEF Step, Daemon
  <2> QED
    BY <1>3, <1>4, <2>1, <2>2, <2>3 DEF DaemonStep, Reopen, UpdateParameterFilter,
       UpdateSettingsValues, CreateLoggerFacility, DaemonCleanup, ServerEnds, Crash,
       Working, Starting
<1> QED
  BY <1>1, <1>2, <1>4

\* The start-up implements the lock: OneDaemonPerDevice (module DaemonStart).
THEOREM ImplementsLock == Spec => OneDaemonPerDevice
<1>1. Init => Lock!Init
  <2> SUFFICES ASSUME Init PROVE Lock!Init
    OBVIOUS
  <2>1. \A d \in Devices : OwnerOf(holders)[d] = None
    BY FreeHasNoOwner DEF Init, Locking
  <2>2. OwnerOf(holders) = [d \in Devices |-> None]
    BY <2>1 DEF OwnerOf
  <2>3. AtWork(daemon) = {}
    BY DEF Init, AtWork, Working, Starting
  <2> QED
    BY <2>2, <2>3 DEF Lock!Init
<1>2. IInv /\ IInv' /\ [Next]_vars => [Lock!Next]_<<OwnerOf(holders), AtWork(daemon)>>
  <2> SUFFICES ASSUME IInv, IInv', [Next]_vars
               PROVE  [Lock!Next]_<<OwnerOf(holders), AtWork(daemon)>>
    OBVIOUS
  <2>1. CASE UNCHANGED vars
    BY <2>1 DEF vars, OwnerOf, AtWork
  <2>2. CASE Next
    BY <2>2, StepChanges, StepIsLocal, StepImplements DEF Next, IInv
  <2> QED
    BY <2>1, <2>2
<1> QED
  BY <1>1, <1>2, Invariance, PTL DEF Spec, OneDaemonPerDevice, Lock!Spec

=============================================================================
