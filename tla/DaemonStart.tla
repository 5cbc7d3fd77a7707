----------------------------- MODULE DaemonStart -----------------------------
(***************************************************************************)
(* How runs of the adapter become clients and daemons (Adapter::Run,       *)
(* BecomeDaemon, DaemonCommChannel::open): each run tries to bind the lock *)
(* of its device; the one that can forks a daemon, every one of them goes  *)
(* on as a client and retries to connect until a daemon listens.           *)
(*                                                                         *)
(* Lock and listening socket are names in the abstract namespace: a name   *)
(* is taken as long as any process has the descriptor open, and fork()     *)
(* hands the lock on. What the daemon does with its clients is module      *)
(* CommandPath, how its loggers end LoggerThreads.                         *)
(***************************************************************************)
EXTENDS Naturals

CONSTANTS
  Runs,       \* runs of the program with a command for the hardware
  DeviceOf,   \* the number each was given, not negative
  Canonical,  \* runs whose argument is that number as %d prints it
  MaxTries,   \* attempts to connect (100 in the code)
  None

Devices == {DeviceOf[r] : r \in Runs}

ASSUME DeviceAssumption == DeviceOf \in [Runs -> Nat]
ASSUME CanonicalAssumption == Canonical \subseteq Runs
ASSUME TriesAssumption == MaxTries \in Nat \ {0}
ASSUME NoneAssumption == None \notin Runs

VARIABLES
  client,    \* the process the user started
  tries,     \* connect() that failed
  peer,      \* the run whose daemon it is connected to
  child,     \* the process between the two forks
  daemon,    \* the daemon
  holders,   \* which processes of a run have its lock open
  listener   \* the run whose daemon has the device's socket

vars == <<client, tries, peer, child, daemon, holders, listener>>

Processes == {"client", "child", "daemon"}

\* Between the second fork and the server.
Starting == {"std", "filter", "filterAll", "settings", "loggers", "server"}

\* It may use the device; the port is closed at the end of DaemonCleanup.
Working == Starting \cup {"join", "cleanup"}

TypeOK ==
  /\ client \in [Runs -> {"new", "fork", "open", "connected", "over"}]
  /\ tries \in [Runs -> 0 .. MaxTries - 1]
  /\ peer \in [Runs -> Runs \cup {None}]
  /\ child \in [Runs -> {"none", "session", "gone"}]
  /\ daemon \in [Runs -> {"none", "exiting", "gone"} \cup Working]
  /\ holders \in [Runs -> SUBSET Processes]
  /\ listener \in [Devices -> Runs \cup {None}]

Init ==
  /\ client = [r \in Runs |-> "new"]
  /\ tries = [r \in Runs |-> 0]
  /\ peer = [r \in Runs |-> None]
  /\ child = [r \in Runs |-> "none"]
  /\ daemon = [r \in Runs |-> "none"]
  /\ holders = [r \in Runs |-> {}]
  /\ listener = [d \in Devices |-> None]

Dev(r) == DeviceOf[r]

\* The runs that have the lock of d open, where h are the holders.
Locking(h, d) == {r \in Runs : Dev(r) = d /\ h[r] # {}}
Taken(d) == Locking(holders, d) # {}

Opens(r, p) == holders' = [holders EXCEPT ![r] = @ \cup {p}]
Closes(r, p) == holders' = [holders EXCEPT ![r] = @ \ {p}]
Passes(r, p, q) == holders' = [holders EXCEPT ![r] = (@ \ {p}) \cup {q}]

Client(r, from, to) == client[r] = from /\ client' = [client EXCEPT ![r] = to]
Child(r, from, to) == child[r] = from /\ child' = [child EXCEPT ![r] = to]
Daemon(r, from, to) == daemon[r] = from /\ daemon' = [daemon EXCEPT ![r] = to]

-----------------------------------------------------------------------------
(* The process the user started.                                           *)

\* Mutant of createLock: the lock file is looked at, but not held.
createLockUnheld(r) ==
  /\ \/ Taken(Dev(r)) /\ Client(r, "new", "open") /\ UNCHANGED holders
     \/ ~Taken(Dev(r)) /\ Client(r, "new", "fork") /\ UNCHANGED holders
  /\ UNCHANGED <<tries, peer, child, daemon, listener>>

\* bind() to the name of the lock. If it is taken: already running as daemon,
\* continue as client.
createLock(r) ==
  /\ \/ Taken(Dev(r)) /\ Client(r, "new", "open") /\ UNCHANGED holders
     \/ ~Taken(Dev(r)) /\ Client(r, "new", "fork") /\ Opens(r, "client")
  /\ UNCHANGED <<tries, peer, child, daemon, listener>>

\* The first fork of BecomeDaemon. The parent keeps the lock open.
Fork(r) ==
  /\ \/ /\ Client(r, "fork", "open")
        /\ Child(r, "none", "session")
        /\ Opens(r, "child")
     \/ Client(r, "fork", "over") /\ Closes(r, "client") /\ UNCHANGED child
  /\ UNCHANGED <<tries, peer, daemon, listener>>

\* The client asks for the name made of its argument as it was typed, the
\* daemon's server binds the one made of the number.
Reachable(r) == r \in Canonical /\ listener[Dev(r)] # None

\* Mutant of Connect: connect() is repeated for ever.
ConnectForEver(r) ==
  /\ \/ /\ Reachable(r)
        /\ Client(r, "open", "connected")
        /\ peer' = [peer EXCEPT ![r] = listener[Dev(r)]]
     \/ ~Reachable(r) /\ client[r] = "open" /\ UNCHANGED <<client, peer>>
  /\ UNCHANGED <<tries, holders, child, daemon, listener>>

\* One turn of the loop of DaemonCommChannel::open, and, after the last, the
\* end: the adapter does not answer.
Connect(r) ==
  /\ \/ /\ Reachable(r)
        /\ Client(r, "open", "connected")
        /\ peer' = [peer EXCEPT ![r] = listener[Dev(r)]]
        /\ UNCHANGED <<tries, holders>>
     \/ /\ ~Reachable(r)
        /\ tries[r] + 1 < MaxTries
        /\ client[r] = "open"
        /\ tries' = [tries EXCEPT ![r] = @ + 1]
        /\ UNCHANGED <<client, holders, peer>>
     \/ /\ ~Reachable(r)
        /\ tries[r] + 1 = MaxTries
        /\ Client(r, "open", "over")
        /\ Closes(r, "client")
        /\ UNCHANGED <<tries, peer>>
  /\ UNCHANGED <<child, daemon, listener>>

\* It has its answer, or reads the end of the file.
Leave(r) ==
  /\ Client(r, "connected", "over")
  /\ Closes(r, "client")
  /\ UNCHANGED <<tries, peer, child, daemon, listener>>

\* The user interrupts it.
Kill(r) ==
  /\ client[r] \in {"fork", "open"}
  /\ Client(r, client[r], "over")
  /\ Closes(r, "client")
  /\ UNCHANGED <<tries, peer, child, daemon, listener>>

-----------------------------------------------------------------------------
(* The process between the forks: setsid and the second fork may fail, and *)
(* it ends right after it.                                                 *)

Session(r) ==
  /\ Child(r, "session", "gone")
  /\ \/ Daemon(r, "none", "std") /\ Passes(r, "child", "daemon")
     \/ Closes(r, "child") /\ UNCHANGED daemon
  /\ UNCHANGED <<client, tries, peer, listener>>

-----------------------------------------------------------------------------
(* The daemon.                                                             *)

\* The end of the process, however it comes: every descriptor is closed.
Vanish(r) ==
  /\ daemon' = [daemon EXCEPT ![r] = "gone"]
  /\ Closes(r, "daemon")
  /\ listener' = [d \in Devices |-> IF listener[d] = r THEN None ELSE listener[d]]
  /\ UNCHANGED <<client, tries, peer, child>>

Step(r, from, to) ==
  /\ Daemon(r, from, to)
  /\ UNCHANGED <<client, tries, peer, child, holders, listener>>

\* Every descriptor but the log's and the lock's is closed, 0 to 2 are opened
\* again; without a log file dup2 fails, and the process ends at once. So it
\* does at assert(m_pDevice->getDeviceId() > 0): Run has let 0 through.
Reopen(r) ==
  \/ Dev(r) > 0 /\ Step(r, "std", "filter")
  \/ daemon[r] = "std" /\ Vanish(r)

\* A database that does not open ends the daemon; one that opens and has no
\* such table does not.
UpdateParameterFilter(r) ==
  \/ Step(r, "filter", "filterAll") \/ Step(r, "filter", "cleanup")
  \/ Step(r, "filterAll", "settings") \/ Step(r, "filterAll", "cleanup")

UpdateSettingsValues(r) == Step(r, "settings", "loggers") \/ Step(r, "settings", "cleanup")

\* A thread that cannot be created ends the daemon without DaemonCleanup.
CreateLoggerFacility(r) == Step(r, "loggers", "server") \/ Step(r, "loggers", "exiting")

-----------------------------------------------------------------------------
(* The server. Its Create may fail, at bind() because another daemon still *)
(* has the name, and Run does not look at the result; but then Join, which *)
(* asks m_isCreated, returns at once.                                      *)

Binds(r) == listener' = [listener EXCEPT ![Dev(r)] = r]

\* Mutant of CreateServer: Join waits for a thread that was not created.
CreateServerJoined(r) ==
  /\ \/ listener[Dev(r)] = None /\ Binds(r)
     \/ UNCHANGED listener
  /\ Daemon(r, "server", "join")
  /\ UNCHANGED <<client, tries, peer, child, holders>>

CreateServer(r) ==
  /\ \/ Daemon(r, "server", "join") /\ listener[Dev(r)] = None /\ Binds(r)
     \/ Daemon(r, "server", "cleanup") /\ listener[Dev(r)] = None /\ Binds(r)   \* no thread
     \/ Daemon(r, "server", "cleanup") /\ UNCHANGED listener                     \* no name
  /\ UNCHANGED <<client, tries, peer, child, holders>>

\* The server thread is cancelled when the processor has ended, which takes a
\* client that had something done.
ServerEnds(r) ==
  /\ \E c \in Runs : peer[c] = r
  /\ Step(r, "join", "cleanup")

DaemonCleanup(r) == Step(r, "cleanup", "exiting")

\* The end of the process closes the lock and the socket, either first: it
\* depends on which descriptors were free.
Exit(r) ==
  /\ daemon[r] = "exiting"
  /\ \/ /\ "daemon" \in holders[r]
        /\ Closes(r, "daemon")
        /\ UNCHANGED <<listener, daemon>>
     \/ /\ listener[Dev(r)] = r
        /\ listener' = [listener EXCEPT ![Dev(r)] = None]
        /\ UNCHANGED <<holders, daemon>>
     \/ /\ "daemon" \notin holders[r] /\ listener[Dev(r)] # r
        /\ daemon' = [daemon EXCEPT ![r] = "gone"]
        /\ UNCHANGED <<holders, listener>>
  /\ UNCHANGED <<client, tries, peer, child>>

Crash(r) == daemon[r] \in Working /\ Vanish(r)

-----------------------------------------------------------------------------
ClientStep(r) == createLock(r) \/ Fork(r) \/ Connect(r)
DaemonStep(r) ==
  \/ Reopen(r) \/ UpdateParameterFilter(r) \/ UpdateSettingsValues(r)
  \/ CreateLoggerFacility(r) \/ CreateServer(r) \/ DaemonCleanup(r) \/ Exit(r)

Next ==
  \E r \in Runs : \/ ClientStep(r) \/ Leave(r) \/ Kill(r)
                  \/ Session(r)
                  \/ DaemonStep(r) \/ ServerEnds(r) \/ Crash(r)

Spec == Init /\ [][Next]_vars

\* Processes that were started run. A connected client reads the end of the
\* file once the daemon is gone; nothing says when it is answered.
Eof(r) == peer[r] # None /\ daemon[peer[r]] = "gone" /\ Leave(r)

Fairness ==
  \A r \in Runs :
    /\ WF_vars(Fork(r) \/ Connect(r))
    /\ WF_vars(Session(r))
    /\ WF_vars(DaemonStep(r))
    /\ WF_vars(Eof(r))

FairSpec == Spec /\ Fairness

-----------------------------------------------------------------------------
(* Properties.                                                             *)

\* The run that has each device's lock.
AnyOf(S) == CHOOSE r \in S : TRUE
OwnerOf(h) == [d \in Devices |->
                 IF Locking(h, d) = {} THEN None ELSE AnyOf(Locking(h, d))]
AtWork(dm) == {r \in Runs : dm[r] \in Working}

Lock == INSTANCE AdapterLock WITH owner <- OwnerOf(holders), working <- AtWork(daemon)

\* A device has one daemon at a time, whatever clients, forks, failures and
\* crashes come between, and a run that takes the lock does so when the daemon
\* before it has stopped working (createLock, BecomeDaemon).
OneDaemonPerDevice == Lock!Spec

Listens(r) == daemon[r] = "join" /\ listener[Dev(r)] = r

\* There are finitely many runs, so that in the end every one that looked for a
\* daemon is connected or has ended, and every daemon that was started listens
\* on its socket or has ended: none is left waiting for a server that does not
\* run (DaemonCommChannel::open, Adapter::Run).
StartupSettles ==
  <>[](\A r \in Runs : /\ client[r] \in {"new", "connected", "over"}
                       /\ daemon[r] \in {"none", "gone"} \/ Listens(r))

\* A daemon that is gone, in whatever way, does not leave its device locked:
\* the client that started it has the lock too, and ends (BecomeDaemon).
LocksAreReleased ==
  <>[](\A r \in Runs : daemon[r] = "gone" => holders[r] = {})
=============================================================================
