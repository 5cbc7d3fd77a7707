--------------------------- MODULE LoggerThreads ---------------------------
(***************************************************************************)
(* The two logger threads of the daemon (LoggerThread.hpp): the processor  *)
(* thread makes records and queues them, each logger sends those of its    *)
(* queue to the database gateway, one connection for each transaction, and *)
(* the main thread creates the loggers (CreateLoggerFacility) and destroys *)
(* them when the server has ended (DaemonCleanup).                         *)
(*                                                                         *)
(* Records are numbered per logger in the order in which they are made.    *)
(* What a thread does with m_queueMutex locked is one step. The log level  *)
(* is 0, the default: Log() is no cancellation point then.                 *)
(***************************************************************************)
EXTENDS Naturals, Sequences

CONSTANTS
  MaxRecords,       \* records made for each logger (a bound)
  GatewayMayFail,   \* TRUE: the gateway stops, starts again, refuses records
  DbMayFail         \* TRUE: a logger's database may not open

ASSUME MaxRecordsAssumption == MaxRecords \in Nat
ASSUME FailAssumption == {GatewayMayFail, DbMayFail} \subseteq BOOLEAN

Loggers == {"event", "data"}

VARIABLES
  main,      \* the main thread
  doomed,    \* the loggers it has yet to destroy, in order
  made,      \* records made so far
  queue,     \* m_queue
  mutex,     \* who holds m_queueMutex when no step is under way
  pc,        \* where the thread of a logger is
  left,      \* transactionSize
  hand,      \* pData, until the gateway has stored it
  conn,      \* the state of sock
  cancelled, \* the loggers whose threads were asked to cancel
  gateway,   \* "up" or "down"
  stored,    \* what the gateway has stored
  outage     \* the gateway has failed at some time

vars == <<main, doomed, made, queue, mutex, pc, left, hand, conn, cancelled,
          gateway, stored, outage>>

threads == <<queue, mutex, pc, left, hand, conn>>
store == <<gateway, stored, outage>>

\* The process is there.
Running == main \notin {"ended", "assertFails", "pureCall", "killed"}

-----------------------------------------------------------------------------
(* The main thread.                                                        *)

MainOnly == UNCHANGED <<made, queue, mutex, left, hand, conn, store>>

\* CreateLoggerFacility: LoggerThread::Create opens the database and starts the
\* thread.
CreateLogger(l, at, next) ==
  /\ main = at
  /\ pc' = [pc EXCEPT ![l] = "check"]
  /\ main' = next
  /\ UNCHANGED <<doomed, cancelled>> /\ MainOnly

\* A database that does not open: both loggers are deleted and the daemon ends.
CreateFails ==
  /\ DbMayFail /\ main \in {"createEvent", "createData"}
  /\ main' = "destroy"
  /\ doomed' = <<"event", "data">>
  /\ UNCHANGED <<pc, cancelled>> /\ MainOnly

\* The server has ended. Deleting the device joins the processor thread, so no
\* record is made any more (DaemonCleanup).
ServerEnds ==
  /\ main = "serve"
  /\ main' = "destroy"
  /\ doomed' = <<"data", "event">>
  /\ UNCHANGED <<pc, cancelled>> /\ MainOnly

\* Mutant of Destroy: the destructor joins a thread it has not cancelled.
DestroyNoCancel ==
  /\ main = "destroy" /\ doomed # <<>>
  /\ main' = "join"
  /\ UNCHANGED <<doomed, pc, cancelled>> /\ MainOnly

\* ~LoggerThread: from here on BindParams is pure; Cancel() is called.
Destroy ==
  /\ main = "destroy" /\ doomed # <<>>
  /\ cancelled' = cancelled \cup {Head(doomed)}
  /\ main' = "join"
  /\ UNCHANGED <<doomed, pc>> /\ MainOnly

\* Join() returns, and the queue is asserted to be empty.
Joined ==
  /\ main = "join"
  /\ pc[Head(doomed)] \in {"none", "dead"}
  /\ IF queue[Head(doomed)] = <<>>
     THEN main' = "destroy" /\ doomed' = Tail(doomed)
     ELSE main' = "assertFails" /\ UNCHANGED doomed
  /\ UNCHANGED <<pc, cancelled>> /\ MainOnly

End ==
  /\ main = "destroy" /\ doomed = <<>>
  /\ main' = "ended"
  /\ UNCHANGED <<doomed, pc, cancelled>> /\ MainOnly

-----------------------------------------------------------------------------
(* The processor thread.                                                   *)

\* EnqueData. The signal that follows the unlock, and is left out for the data
\* logger, only shortens a wait that ends by itself: see Wake.
EnqueData(l) ==
  /\ main = "serve" /\ made[l] < MaxRecords
  /\ mutex[l] = "free"
  /\ made' = [made EXCEPT ![l] = @ + 1]
  /\ queue' = [queue EXCEPT ![l] = Append(@, made[l] + 1)]
  /\ UNCHANGED <<main, doomed, mutex, pc, left, hand, conn, cancelled, store>>

-----------------------------------------------------------------------------
(* The thread of a logger: LoggerThread::Run.                              *)

Logger(l) == Running /\ UNCHANGED <<doomed, made, cancelled, gateway>>

Goto(l, at) == pc' = [pc EXCEPT ![l] = at]

\* Mutant of TransactionSize: one record more than there are.
TransactionSizePlus(l) == Len(queue[l]) + 1

TransactionSize(l) == Len(queue[l])

\* Lines 94-109: the queue is looked at with m_queueMutex locked.
Check(l) ==
  /\ Logger(l)
  /\ pc[l] = "check" /\ mutex[l] = "free"
  /\ IF queue[l] = <<>>
     THEN Goto(l, "sleep") /\ UNCHANGED left
     ELSE Goto(l, "connect") /\ left' = [left EXCEPT ![l] = TransactionSize(l)]
  /\ UNCHANGED <<main, queue, mutex, hand, conn, stored, outage>>

\* Mutant of Wake: pthread_cond_wait, with no deadline. Only events are signalled.
WakeOnSignal(l) ==
  /\ Logger(l)
  /\ pc[l] = "sleep" /\ l \notin cancelled
  /\ l = "event"
  /\ Goto(l, "check")
  /\ UNCHANGED <<main, queue, mutex, left, hand, conn, stored, outage>>

\* pthread_cond_timedwait returns: a signal, a spurious wakeup, or a deadline
\* that is never renewed while the queue stays empty, so that it has passed.
Wake(l) ==
  /\ Logger(l)
  /\ pc[l] = "sleep" /\ l \notin cancelled
  /\ Goto(l, "check")
  /\ UNCHANGED <<main, queue, mutex, left, hand, conn, stored, outage>>

\* The result of connect() is not looked at.
Connect(l) ==
  /\ Logger(l)
  /\ pc[l] = "connect" /\ l \notin cancelled
  /\ conn' = [conn EXCEPT ![l] = IF gateway = "up" THEN "open" ELSE "absent"]
  /\ Goto(l, "take")
  /\ UNCHANGED <<main, queue, mutex, left, hand, stored, outage>>

MoreToSend(l) == left[l] > 0

\* Lines 134-150, up to the virtual call of BindParams. Line 140 leaves the loop
\* with the mutex locked.
Take(l) ==
  /\ Logger(l)
  /\ pc[l] = "take" /\ MoreToSend(l) /\ mutex[l] = "free"
  /\ left' = [left EXCEPT ![l] = @ - 1]
  /\ IF queue[l] = <<>>
     THEN /\ Goto(l, "close")
          /\ mutex' = [mutex EXCEPT ![l] = l]
          /\ UNCHANGED <<main, queue, hand>>
     ELSE /\ Goto(l, "write")
          /\ hand' = [hand EXCEPT ![l] = <<Head(queue[l])>>]
          /\ queue' = [queue EXCEPT ![l] = Tail(@)]
          /\ main' = IF main = "join" /\ Head(doomed) = l THEN "pureCall" ELSE main
          /\ UNCHANGED mutex
  /\ UNCHANGED <<conn, stored, outage>>

TransactionDone(l) ==
  /\ Logger(l)
  /\ pc[l] = "take" /\ ~MoreToSend(l)
  /\ Goto(l, "close")
  /\ UNCHANGED <<main, queue, mutex, left, hand, conn, stored, outage>>

\* Mutant of Write: a record that could not be written is put back in the queue,
\* behind the records made since.
WritePutsBack(l) ==
  /\ Logger(l)
  /\ pc[l] = "write" /\ l \notin cancelled
  /\ \/ conn[l] = "open" /\ Goto(l, "answer") /\ UNCHANGED <<main, hand, queue>>
     \/ /\ conn[l] = "absent"
        /\ Goto(l, "take") /\ hand' = [hand EXCEPT ![l] = <<>>]
        /\ queue' = [queue EXCEPT ![l] = @ \o hand[l]] /\ UNCHANGED main
     \/ conn[l] = "broken" /\ main' = "killed" /\ UNCHANGED <<pc, hand, queue>>
  /\ UNCHANGED <<mutex, left, conn, stored, outage>>

\* BindParams writes the record. To a socket that is not connected that is an
\* error nobody looks at, and the record is deleted; to one whose other end is
\* closed it is a SIGPIPE, which ends the process.
Write(l) ==
  /\ Logger(l)
  /\ pc[l] = "write" /\ l \notin cancelled
  /\ \/ conn[l] = "open" /\ Goto(l, "answer") /\ UNCHANGED <<main, hand>>
     \/ /\ conn[l] = "absent"
        /\ Goto(l, "take") /\ hand' = [hand EXCEPT ![l] = <<>>] /\ UNCHANGED main
     \/ conn[l] = "broken" /\ main' = "killed" /\ UNCHANGED <<pc, hand>>
  /\ UNCHANGED <<queue, mutex, left, conn, stored, outage>>

\* BindParams reads the answer of the gateway, or the end of the connection.
ReadAnswer(l) ==
  /\ Logger(l)
  /\ pc[l] = "answer" /\ l \notin cancelled
  /\ hand[l] = <<>>
  /\ Goto(l, "take")
  /\ UNCHANGED <<main, queue, mutex, left, hand, conn, stored, outage>>

\* EOT is written, and the socket closed.
Close(l) ==
  /\ Logger(l)
  /\ pc[l] = "close" /\ l \notin cancelled
  /\ IF conn[l] = "broken"
     THEN main' = "killed" /\ UNCHANGED <<pc, conn>>
     ELSE /\ Goto(l, "check")
          /\ conn' = [conn EXCEPT ![l] = "none"]
          /\ UNCHANGED main
  /\ UNCHANGED <<queue, mutex, left, hand, stored, outage>>

\* The cancellation takes effect where the thread sleeps, connects, writes, reads
\* or closes. A sleeper dies with the mutex locked, a writer with its record.
Cancel(l) ==
  /\ Logger(l)
  /\ l \in cancelled
  /\ pc[l] \in {"sleep", "connect", "write", "answer", "close"}
  /\ Goto(l, "dead")
  /\ mutex' = [mutex EXCEPT ![l] = IF pc[l] = "sleep" THEN l ELSE @]
  /\ hand' = [hand EXCEPT ![l] = IF pc[l] = "write" THEN <<>> ELSE @]
  /\ UNCHANGED <<main, queue, left, conn, stored, outage>>

-----------------------------------------------------------------------------
(* The gateway, a process of its own.                                      *)

GatewayOnly == UNCHANGED <<main, doomed, made, queue, mutex, pc, left, cancelled>>

Sent(l) == pc[l] \in {"answer", "dead"} /\ hand[l] # <<>> /\ conn[l] = "open"

StoreRecord(l) ==
  /\ Sent(l)
  /\ stored' = [stored EXCEPT ![l] = @ \o hand[l]]
  /\ hand' = [hand EXCEPT ![l] = <<>>]
  /\ UNCHANGED <<conn, gateway, outage>> /\ GatewayOnly

\* An answer that reports an error looks like any other to BindParams.
RefuseRecord(l) ==
  /\ GatewayMayFail
  /\ Sent(l)
  /\ hand' = [hand EXCEPT ![l] = <<>>]
  /\ outage' = TRUE
  /\ UNCHANGED <<conn, gateway, stored>> /\ GatewayOnly

\* What was sent and not yet stored is lost with the connections.
GatewayStops ==
  /\ GatewayMayFail /\ gateway = "up"
  /\ gateway' = "down" /\ outage' = TRUE
  /\ hand' = [l \in Loggers |-> IF Sent(l) THEN <<>> ELSE hand[l]]
  /\ conn' = [l \in Loggers |-> IF conn[l] = "open" THEN "broken" ELSE conn[l]]
  /\ UNCHANGED stored /\ GatewayOnly

GatewayStarts ==
  /\ gateway = "down"
  /\ gateway' = "up"
  /\ UNCHANGED <<hand, conn, stored, outage>> /\ GatewayOnly

-----------------------------------------------------------------------------
Init ==
  /\ main = "createEvent"
  /\ doomed = <<>>
  /\ made = [l \in Loggers |-> 0]
  /\ queue = [l \in Loggers |-> <<>>]
  /\ mutex = [l \in Loggers |-> "free"]
  /\ pc = [l \in Loggers |-> "none"]
  /\ left = [l \in Loggers |-> 0]
  /\ hand = [l \in Loggers |-> <<>>]
  /\ conn = [l \in Loggers |-> "none"]
  /\ cancelled = {}
  /\ gateway \in {"up"} \cup (IF GatewayMayFail THEN {"down"} ELSE {})
  /\ stored = [l \in Loggers |-> <<>>]
  /\ outage = (gateway = "down")

CleanUp == Destroy \/ Joined \/ End

MainNext ==
  \/ CreateLogger("event", "createEvent", "createData")
  \/ CreateLogger("data", "createData", "serve")
  \/ CreateFails \/ ServerEnds \/ CleanUp

LoggerNext(l) ==
  \/ Check(l) \/ Wake(l) \/ Connect(l)
  \/ Take(l) \/ TransactionDone(l)
  \/ Write(l) \/ ReadAnswer(l) \/ Close(l)
  \/ Cancel(l)

GatewayNext ==
  \/ \E l \in Loggers : StoreRecord(l) \/ RefuseRecord(l)
  \/ GatewayStops \/ GatewayStarts

Next ==
  \/ MainNext \/ GatewayNext
  \/ \E l \in Loggers : EnqueData(l) \/ LoggerNext(l)

Spec == Init /\ [][Next]_vars

(***************************************************************************)
(* The threads run on, and a gateway that is up answers what it is sent.   *)
(***************************************************************************)
Fairness ==
  /\ WF_vars(CleanUp)
  /\ \A l \in Loggers :
       WF_vars(LoggerNext(l)) /\ WF_vars(StoreRecord(l) \/ RefuseRecord(l))

FairSpec == Spec /\ Fairness

-----------------------------------------------------------------------------
MainPcs == {"createEvent", "createData", "serve", "destroy", "join", "ended",
            "assertFails", "pureCall", "killed"}
LoggerPcs == {"none", "check", "sleep", "connect", "take", "write", "answer",
              "close", "dead"}

\* Every variable has its type.
TypeOK ==
  /\ main \in MainPcs
  /\ doomed \in Seq(Loggers)
  /\ made \in [Loggers -> Nat]
  /\ queue \in [Loggers -> Seq(Nat)]
  /\ mutex \in [Loggers -> Loggers \cup {"free"}]
  /\ pc \in [Loggers -> LoggerPcs]
  /\ left \in [Loggers -> Nat]
  /\ hand \in [Loggers -> Seq(Nat)]
  /\ conn \in [Loggers -> {"none", "open", "absent", "broken"}]
  /\ cancelled \subseteq Loggers
  /\ gateway \in {"up", "down"}
  /\ stored \in [Loggers -> Seq(Nat)]
  /\ outage \in BOOLEAN

(***************************************************************************)
(* The inductive invariant: a transaction is never larger than the queue,  *)
(* a thread holds at most one record, and only between taking it and the   *)
(* answer to it, and a connection fails only if the gateway did.           *)
(***************************************************************************)
LoggerOK(l) ==
  /\ left[l] <= Len(queue[l])
  /\ Len(hand[l]) <= 1
  /\ hand[l] # <<>> => pc[l] \in {"write", "answer", "dead"}
  /\ conn[l] = "absent" => outage
  /\ pc[l] # "dead" => mutex[l] = "free"

LoggerInv == \A l \in Loggers : LoggerOK(l)

MainInv ==
  /\ main = "join" => doomed # <<>>
  /\ main = "createEvent" => pc["event"] = "none"
  /\ main \in {"createEvent", "createData"} => pc["data"] = "none"

IInv == TypeOK /\ LoggerInv /\ MainInv /\ (gateway = "down" => outage)

\* m_queueMutex is never left locked by a thread that goes on: the `break` of
\* line 140 is never reached, for the queue holds what the transaction promises.
MutexReleased == \A l \in Loggers : pc[l] # "dead" => mutex[l] = "free"

\* Events and data are stored in the order they were made in, none twice, and
\* none is lost as long as the gateway has not failed and the logger lives.
Chan == [l \in Loggers |-> hand[l] \o queue[l]]
MayLose == IF outage THEN Loggers ELSE cancelled

Stream == INSTANCE RecordStream WITH chan <- Chan, mayLose <- MayLose

StoredInOrder == Stream!Spec

\* A daemon that cleans up ends, with or without its gateway: no thread is joined
\* that cannot be cancelled.
CleanupEnds == main = "destroy" ~> ~Running

\* While the gateway stays up and the daemon serves, every logger empties its
\* queue again and again, also the data logger, which nobody signals.
QueuesAreEmptied ==
  <>[](gateway = "up" /\ main = "serve") =>
    \A l \in Loggers : []<>(queue[l] = <<>> /\ hand[l] = <<>>)
=============================================================================
