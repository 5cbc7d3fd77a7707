---------------------------- MODULE CommandPath ----------------------------
(***************************************************************************)
(* The path of a command through the daemon of the Ritex adapter: client   *)
(* processes on the socket, the server thread (DaemonCommServer), the      *)
(* thread that talks to the station (ComTrafficProcessor) and the main     *)
(* thread, which waits for the server to end and then ends the process.    *)
(*                                                                         *)
(* The serial protocol is abstracted to its outcomes here: a window opens  *)
(* or not, a capture succeeds or not, an exchange succeeds or not.         *)
(* Module StationLink has the protocol itself.                             *)
(***************************************************************************)
EXTENDS Naturals, Sequences

CONSTANTS
  Clients,            \* client processes; each sends one command (Adapter::Run)
  None,               \* no client (a socket of -1), no command (NULL)
  Backlog,            \* connections the listening socket queues (5 in the code)
  CommandKinds,       \* the kinds of command line the clients send
  StationMayGoSilent  \* TRUE: the station may stop answering in a mode cycle

(***************************************************************************)
(* "test"       -t, CmdTestDevice                                          *)
(* "custom"     -c, CmdExternal                                            *)
(* "measure"    -g, CmdStartMeasurement                                    *)
(* "malformed"  a line the daemon cannot parse or compile: the client joins *)
(*              its arguments with blanks, so quoting is lost on the way    *)
(***************************************************************************)
AllKinds == {"test", "custom", "measure", "malformed"}

ASSUME NoneAssumption == None \notin Clients \cup AllKinds
ASSUME BacklogAssumption == Backlog \in Nat \ {0}
ASSUME KindsAssumption == CommandKinds \subseteq AllKinds
ASSUME SilentAssumption == StationMayGoSilent \in BOOLEAN

VARIABLES
  \* the clients and their connections
  client,       \* what each client process is doing
  kind,         \* the command line it sent, None before that
  unread,       \* connections whose command the server has not read
  backlog,      \* connections waiting for accept()
  replies,      \* replies sent on a connection that was still open
  \* the server thread
  server,       \* its program counter
  clientSock,   \* m_clientSock
  canProcess,   \* m_canProcessCommands
  \* the thread of ComTrafficProcessor
  proc,         \* its program counter
  isRunning,    \* m_fd # -1, with or without a thread
  isDataCapture,
  doRun,        \* m_doRun
  startMutex,   \* who holds m_startMutex
  nextState,    \* m_nextState
  queue,        \* m_pendingCmdQueue
  cur,          \* the command taken from the queue
  outcome,      \* of the exchange made for cur
  keepRunning,  \* the right-hand side of the assignment to m_doRun
  executed,     \* how often each client's command was put on the line
  \* the process
  cancelled,    \* the server thread was asked to cancel
  up            \* the daemon process exists

clientVars == <<client, kind, unread, backlog>>
serverVars == <<server, clientSock>>
startVars  == <<isRunning, isDataCapture, startMutex>>
procVars   == <<nextState, cur, outcome, keepRunning, executed>>
vars == <<clientVars, replies, serverVars, canProcess, proc, startVars, doRun,
          queue, procVars, cancelled, up>>

Open(c) == client[c] \in {"connected", "waiting"}

\* send() on m_clientSock: an error (EPIPE, or a socket of -1) is only logged.
SendResponseToClient(r) ==
  replies' = [c \in Clients |-> IF c = clientSock /\ Open(c)
                                THEN Append(replies[c], r) ELSE replies[c]]

Init ==
  /\ client = [c \in Clients |-> "new"]
  /\ kind = [c \in Clients |-> None]
  /\ unread = {}
  /\ backlog = <<>>
  /\ replies = [c \in Clients |-> <<>>]
  /\ server = "accept"
  /\ clientSock = None
  /\ canProcess = TRUE
  /\ proc = "none"
  /\ isRunning = FALSE
  /\ isDataCapture = FALSE
  /\ doRun = TRUE
  /\ startMutex = "free"
  /\ nextState = "traffic"
  /\ queue = <<>>
  /\ cur = None
  /\ outcome = None
  /\ keepRunning = FALSE
  /\ executed = [c \in Clients |-> 0]
  /\ cancelled = FALSE
  /\ up = TRUE

-----------------------------------------------------------------------------
(* Clients: Adapter::Run in the parent process, DaemonCommChannel.         *)

Others == <<replies, serverVars, canProcess, proc, startVars, doRun, queue,
            procVars, cancelled, up>>

\* The listening socket is never closed before the process ends (OnCancel
\* forgets the descriptor first), so connect() succeeds as long as up.
Connect(c) ==
  /\ up
  /\ client[c] = "new"
  /\ Len(backlog) < Backlog
  /\ client' = [client EXCEPT ![c] = "connected"]
  /\ backlog' = Append(backlog, c)
  /\ UNCHANGED <<kind, unread, Others>>

\* All the attempts to connect failed: the adapter does not answer.
GiveUp(c) ==
  /\ ~up
  /\ client[c] = "new"
  /\ client' = [client EXCEPT ![c] = "refused"]
  /\ UNCHANGED <<kind, unread, backlog, Others>>

SendCommand(c) ==
  /\ up
  /\ client[c] = "connected"
  /\ client' = [client EXCEPT ![c] = "waiting"]
  /\ \E k \in CommandKinds : kind' = [kind EXCEPT ![c] = k]
  /\ unread' = unread \cup {c}
  /\ UNCHANGED <<backlog, Others>>

\* recv() of the reply; the client prints it and ends.
ReadReply(c) ==
  /\ client[c] = "waiting"
  /\ replies[c] # <<>>
  /\ client' = [client EXCEPT ![c] = "answered"]
  /\ UNCHANGED <<kind, unread, backlog, Others>>

\* recv() or send() fails because the daemon is gone.
ReadEof(c) ==
  /\ ~up
  /\ Open(c)
  /\ replies[c] = <<>>
  /\ client' = [client EXCEPT ![c] = "eof"]
  /\ UNCHANGED <<kind, unread, backlog, Others>>

\* The user interrupts a client. What it sent stays readable.
Kill(c) ==
  /\ Open(c)
  /\ client' = [client EXCEPT ![c] = "killed"]
  /\ UNCHANGED <<kind, unread, backlog, Others>>

-----------------------------------------------------------------------------
(* The server thread: DaemonCommServer::Run.                               *)

Accept ==
  /\ server = "accept"
  /\ backlog # <<>>
  /\ clientSock' = Head(backlog)
  /\ backlog' = Tail(backlog)
  /\ server' = "recv"
  /\ UNCHANGED <<client, kind, unread, replies, canProcess, proc, startVars,
                 doRun, queue, procVars, cancelled, up>>

\* Mutant of ReceiveCommand: m_canProcessCommands is not reset.
ReceiveCommandNoReset ==
  /\ server = "recv"
  /\ clientSock \in unread
  /\ kind[clientSock] # "malformed"
  /\ unread' = unread \ {clientSock}
  /\ server' = "execute"
  /\ UNCHANGED <<client, kind, backlog, replies, clientSock, canProcess, proc,
                 startVars, doRun, queue, procVars, cancelled, up>>

\* A command that compiles: further results are awaited from here on.
ReceiveCommand ==
  /\ server = "recv"
  /\ clientSock \in unread
  /\ kind[clientSock] # "malformed"
  /\ unread' = unread \ {clientSock}
  /\ canProcess' = FALSE
  /\ server' = "execute"
  /\ UNCHANGED <<client, kind, backlog, replies, clientSock, proc, startVars,
                 doRun, queue, procVars, cancelled, up>>

\* Parse, Compile or CreateCommand fails: the loop continues, with no reply.
ReceiveMalformed ==
  /\ server = "recv"
  /\ clientSock \in unread
  /\ kind[clientSock] = "malformed"
  /\ unread' = unread \ {clientSock}
  /\ UNCHANGED <<client, kind, backlog, replies, serverVars, canProcess, proc,
                 startVars, doRun, queue, procVars, cancelled, up>>

\* recv() returns 0: an error reply to nobody, and the connection is closed.
ReceiveEof ==
  /\ server = "recv"
  /\ clientSock \notin unread
  /\ ~Open(clientSock)
  /\ SendResponseToClient("failed")
  /\ clientSock' = None
  /\ server' = "accept"
  /\ UNCHANGED <<clientVars, canProcess, proc, startVars, doRun, queue,
                 procVars, cancelled, up>>

\* Mutant of NextStep: every command reports success as soon as it is started.
NextStepNotifies(c) == "started"

\* Where Execute() goes on once the port is known to be open.
NextStep(c) == IF kind[c] = "measure" THEN "started" ELSE "push"

\* Execute() while a processor exists. Only a custom command is handed to it;
\* CmdTestDevice::Execute returns TRUE although TestDevice refused.
ExecuteRunning ==
  /\ server = "execute"
  /\ isRunning
  /\ \/ kind[clientSock] = "custom"  /\ server' = "push"
     \/ kind[clientSock] = "test"    /\ server' = "wait"
     \/ kind[clientSock] = "measure" /\ server' = "refuse"
  /\ UNCHANGED <<clientVars, replies, clientSock, canProcess, proc, startVars,
                 doRun, queue, procVars, cancelled, up>>

\* ComTrafficProcessor::Create once the port is open: m_fd and the flags are set
\* before the thread is created, and stay set if that fails.
OpenPort ==
  /\ server = "execute"
  /\ ~isRunning
  /\ isRunning' = TRUE
  /\ isDataCapture' = (kind[clientSock] = "measure")
  /\ doRun' = (kind[clientSock] = "measure")
  /\ UNCHANGED <<clientVars, replies, clientSock, canProcess, startMutex,
                 queue, procVars, cancelled, up>>

ExecuteCreate ==
  /\ OpenPort
  /\ proc' = "begin"
  /\ server' = NextStep(clientSock)

\* Where Execute() goes on after Create has failed.
AfterFailure(c) == IF kind[c] = "test" THEN "wait" ELSE "refuse"

\* Thread::Create fails: from now on isRunning() is true and there is no thread.
ExecuteNoThread ==
  /\ OpenPort
  /\ server' = AfterFailure(clientSock)
  /\ UNCHANGED proc

\* The port cannot be opened.
ExecuteNoPort ==
  /\ server = "execute"
  /\ ~isRunning
  /\ server' = AfterFailure(clientSock)
  /\ UNCHANGED <<clientVars, replies, clientSock, canProcess, proc, startVars,
                 doRun, queue, procVars, cancelled, up>>

\* Execute() returned FALSE.
Refuse ==
  /\ server = "refuse"
  /\ SendResponseToClient("failed")
  /\ server' = "recv"
  /\ UNCHANGED <<clientVars, clientSock, canProcess, proc, startVars, doRun,
                 queue, procVars, cancelled, up>>

\* CmdStartMeasurement::Execute notifies its result itself.
NotifyStarted ==
  /\ server = "started"
  /\ SendResponseToClient("ok")
  /\ canProcess' = TRUE
  /\ server' = "wait"
  /\ UNCHANGED <<clientVars, clientSock, proc, startVars, doRun, queue,
                 procVars, cancelled, up>>

\* SendCustomCmd, under m_cmdMutex.
SendCustomCmd ==
  /\ server = "push"
  /\ queue' = Append(queue, clientSock)
  /\ server' = "start"
  /\ UNCHANGED <<clientVars, replies, clientSock, canProcess, proc, startVars,
                 doRun, procVars, cancelled, up>>

\* Mutant of Start: m_startCond is not signalled.
StartNoSignal ==
  /\ server = "start"
  /\ startMutex = "free"
  /\ doRun' = TRUE
  /\ server' = "wait"
  /\ UNCHANGED <<clientVars, replies, clientSock, canProcess, proc, startVars,
                 queue, procVars, cancelled, up>>

\* Start(): m_doRun is set under m_startMutex ...
Start ==
  /\ server = "start"
  /\ startMutex = "free"
  /\ doRun' = TRUE
  /\ server' = "signal"
  /\ UNCHANGED <<clientVars, replies, clientSock, canProcess, proc, startVars,
                 queue, procVars, cancelled, up>>

\* ... and m_startCond is signalled after the unlock.
SignalStart ==
  /\ server = "signal"
  /\ server' = "wait"
  /\ proc' = IF proc = "condwait" THEN "woken" ELSE proc
  /\ UNCHANGED <<clientVars, replies, clientSock, canProcess, startVars, doRun,
                 queue, procVars, cancelled, up>>

\* Mutant of WaitDone: one wait and no loop, so any wakeup ends it.
WaitDoneUnchecked ==
  /\ server = "wait"
  /\ server' = "recv"
  /\ UNCHANGED <<clientVars, replies, clientSock, canProcess, proc, startVars,
                 doRun, queue, procVars, cancelled, up>>

\* The loop around pthread_cond_wait(&m_canProcessCommandsCond) ends.
WaitDone ==
  /\ server = "wait"
  /\ canProcess
  /\ server' = "recv"
  /\ UNCHANGED <<clientVars, replies, clientSock, canProcess, proc, startVars,
                 doRun, queue, procVars, cancelled, up>>

\* The cancellation requested by the processor takes effect at a cancellation
\* point: accept, recv, send and pthread_cond_wait, not pthread_mutex_lock.
\* OnCancel forgets both sockets without closing them.
CancelServer ==
  /\ cancelled
  /\ server \in {"accept", "recv", "refuse", "started", "wait"}
  /\ server' = "dead"
  /\ clientSock' = None
  /\ UNCHANGED <<clientVars, replies, canProcess, proc, startVars, doRun,
                 queue, procVars, cancelled, up>>

-----------------------------------------------------------------------------
(* The processor thread: ComTrafficProcessor::Run.                         *)

ProcOthers == <<clientVars, serverVars, isRunning, isDataCapture, cancelled, up>>

\* Lines 563-570. A thread that finds m_doRun set leaves the loop holding
\* m_startMutex: the unlock is inside the loop.
RunBegin ==
  /\ proc = "begin"
  /\ \/ /\ isDataCapture
        /\ proc' = "loop"
        /\ UNCHANGED startMutex
     \/ /\ ~isDataCapture
        /\ startMutex = "free"
        /\ \/ doRun  /\ proc' = "loop" /\ startMutex' = "processor"
           \/ ~doRun /\ proc' = "condwait" /\ UNCHANGED startMutex
  /\ UNCHANGED <<ProcOthers, replies, canProcess, doRun, queue, procVars>>

\* pthread_cond_wait returns with the mutex, which is unlocked at once.
RunWoken ==
  /\ proc = "woken"
  /\ startMutex = "free"
  /\ proc' = IF doRun THEN "loop" ELSE "condwait"
  /\ UNCHANGED <<ProcOthers, replies, canProcess, startMutex, doRun, queue,
                 procVars>>

\* STATE_PROCESS_KSU_TRAFFIC with anything but an ACK_INFO that NeedCapture
\* answers: the state stays.
TrafficOnly ==
  /\ proc = "loop" /\ doRun
  /\ nextState = "traffic"
  /\ proc' = "evaluate"
  /\ UNCHANGED <<ProcOthers, startMutex, replies, canProcess, doRun, queue,
                 procVars>>

\* An ACK_INFO opens the window and NeedCapture holds: a command is pending,
\* or the mode cycle is due, which it may be at any time.
OpenWindow ==
  /\ proc = "loop" /\ doRun
  /\ nextState = "traffic"
  /\ nextState' = "capture"
  /\ proc' = "evaluate"
  /\ UNCHANGED <<ProcOthers, startMutex, replies, canProcess, doRun, queue,
                 cur, outcome, keepRunning, executed>>

\* CaptureDevice, GetPasswords or SetPassword fails: tried again next time.
CaptureFails ==
  /\ proc = "loop" /\ doRun
  /\ nextState = "capture"
  /\ proc' = "evaluate"
  /\ UNCHANGED <<ProcOthers, startMutex, replies, canProcess, doRun, queue,
                 procVars>>

CaptureSucceeds ==
  /\ proc = "loop" /\ doRun
  /\ nextState = "capture"
  /\ proc' = "take"
  /\ UNCHANGED <<ProcOthers, startMutex, replies, canProcess, doRun, queue,
                 procVars>>

\* Mutant of TakeCommand: front() without pop().
TakeCommandNoPop ==
  /\ proc = "take"
  /\ \/ /\ queue # <<>>
        /\ cur' = Head(queue)
        /\ proc' = "exchange"
     \/ /\ queue = <<>>
        /\ proc' = "cycle"
        /\ UNCHANGED cur
  /\ UNCHANGED <<ProcOthers, startMutex, replies, canProcess, doRun, queue,
                 nextState, outcome, keepRunning, executed>>

\* The do-while of lines 674-688, under m_cmdMutex.
TakeCommand ==
  /\ proc = "take"
  /\ \/ /\ queue # <<>>
        /\ cur' = Head(queue)
        /\ queue' = Tail(queue)
        /\ proc' = "exchange"
     \/ /\ queue = <<>>
        /\ proc' = "cycle"
        /\ UNCHANGED <<cur, queue>>
  /\ UNCHANGED <<ProcOthers, startMutex, replies, canProcess, doRun, nextState,
                 outcome, keepRunning, executed>>

\* ProcessCommand up to SetReply.
Exchange ==
  /\ proc = "exchange"
  /\ executed' = [executed EXCEPT ![cur] = @ + 1]
  /\ outcome' \in {"ok", "failed"}
  /\ proc' = "reply"
  /\ UNCHANGED <<ProcOthers, startMutex, replies, canProcess, doRun, queue,
                 nextState, cur, keepRunning>>

\* Mutant of SendReply: only a success is reported.
SendReplyIfOk ==
  /\ proc = "reply"
  /\ IF outcome = "ok" THEN SendResponseToClient(outcome) ELSE UNCHANGED replies
  /\ proc' = "notify"
  /\ UNCHANGED <<ProcOthers, startMutex, canProcess, doRun, queue, procVars>>

\* SetReply, NotifyResultReady, OnResultReady up to the send.
SendReply ==
  /\ proc = "reply"
  /\ SendResponseToClient(outcome)
  /\ proc' = "notify"
  /\ UNCHANGED <<ProcOthers, startMutex, canProcess, doRun, queue, procVars>>

\* Mutant of NotifyServer: the condition is signalled, the flag is not set.
NotifyServerFlagless ==
  /\ proc = "notify"
  /\ cur' = None
  /\ outcome' = None
  /\ proc' = "take"
  /\ UNCHANGED <<ProcOthers, startMutex, replies, canProcess, doRun, queue,
                 nextState, keepRunning, executed>>

\* The rest of OnResultReady; the command objects are deleted.
NotifyServer ==
  /\ proc = "notify"
  /\ canProcess' = TRUE
  /\ cur' = None
  /\ outcome' = None
  /\ proc' = "take"
  /\ UNCHANGED <<ProcOthers, startMutex, replies, doRun, queue, nextState,
                 keepRunning, executed>>

\* The mode cycle is not due, or is made with an answering station.
ModeCycle ==
  /\ proc = "cycle"
  /\ nextState' = "traffic"
  /\ proc' = "evaluate"
  /\ UNCHANGED <<ProcOthers, startMutex, replies, canProcess, doRun, queue,
                 cur, outcome, keepRunning, executed>>

\* The station falls silent in the mode cycle: SetCmdMode on a NULL packet.
Crash ==
  /\ StationMayGoSilent
  /\ proc = "cycle"
  /\ up' = FALSE
  /\ proc' = "done"
  /\ server' = "dead"
  /\ clientSock' = None
  /\ UNCHANGED <<clientVars, replies, canProcess, startVars, doRun, queue,
                 procVars, cancelled>>

\* Mutant of EvaluateDoRun: m_isDataCapture is forgotten.
EvaluateDoRunQueueOnly ==
  /\ proc = "evaluate"
  /\ keepRunning' = (queue # <<>>)
  /\ proc' = "assign"
  /\ UNCHANGED <<ProcOthers, startMutex, replies, canProcess, doRun, queue,
                 nextState, cur, outcome, executed>>

\* Line 735 reads the queue ...
EvaluateDoRun ==
  /\ proc = "evaluate"
  /\ keepRunning' = (isDataCapture \/ queue # <<>>)
  /\ proc' = "assign"
  /\ UNCHANGED <<ProcOthers, startMutex, replies, canProcess, doRun, queue,
                 nextState, cur, outcome, executed>>

\* ... and then writes m_doRun, which Start() writes too.
AssignDoRun ==
  /\ proc = "assign"
  /\ doRun' = keepRunning
  /\ proc' = "loop"
  /\ UNCHANGED <<ProcOthers, startMutex, replies, canProcess, queue, procVars>>

\* The loop ends: the commands still queued are deleted, unanswered.
Drain ==
  /\ proc = "loop" /\ ~doRun
  /\ queue' = <<>>
  /\ proc' = "exit"
  /\ UNCHANGED <<ProcOthers, startMutex, replies, canProcess, doRun, procVars>>

\* Mutant of NotifyExit: nobody is told.
NotifyExitSilent ==
  /\ proc = "exit"
  /\ proc' = "done"
  /\ UNCHANGED <<clientVars, serverVars, isRunning, isDataCapture, cancelled, up,
                 startMutex, replies, canProcess, doRun, queue, procVars>>

\* NotifyStatusChanged(DEVICE_STATUS_EXIT) cancels the server thread.
NotifyExit ==
  /\ proc = "exit"
  /\ cancelled' = TRUE
  /\ proc' = "done"
  /\ UNCHANGED <<clientVars, serverVars, isRunning, isDataCapture, up,
                 startMutex, replies, canProcess, doRun, queue, procVars>>

\* The main thread joins the server thread and ends the process.
ExitProcess ==
  /\ up
  /\ server = "dead"
  /\ proc = "done"
  /\ up' = FALSE
  /\ UNCHANGED <<clientVars, replies, serverVars, canProcess, proc, startVars,
                 doRun, queue, procVars, cancelled>>

-----------------------------------------------------------------------------
ClientNext == \E c \in Clients :
  Connect(c) \/ GiveUp(c) \/ SendCommand(c) \/ ReadReply(c) \/ ReadEof(c) \/ Kill(c)

ServerNext ==
  \/ Accept \/ ReceiveCommand \/ ReceiveMalformed \/ ReceiveEof
  \/ ExecuteRunning \/ ExecuteCreate \/ ExecuteNoThread \/ ExecuteNoPort
  \/ Refuse \/ NotifyStarted
  \/ SendCustomCmd \/ Start \/ SignalStart \/ WaitDone
  \/ CancelServer

ProcessorNext ==
  \/ RunBegin \/ RunWoken
  \/ TrafficOnly \/ OpenWindow
  \/ CaptureFails \/ CaptureSucceeds
  \/ TakeCommand \/ Exchange \/ SendReply \/ NotifyServer
  \/ ModeCycle \/ Crash
  \/ EvaluateDoRun \/ AssignDoRun
  \/ Drain \/ NotifyExit

Next == ClientNext \/ ServerNext \/ ProcessorNext \/ ExitProcess

Spec == Init /\ [][Next]_vars

(***************************************************************************)
(* Every thread that can take a step eventually does, and a living client  *)
(* sends its command and reads its reply. Nobody has to kill a client or   *)
(* start one.                                                              *)
(***************************************************************************)
ThreadFairness ==
  /\ WF_vars(ServerNext)
  /\ WF_vars(ProcessorNext)
  /\ WF_vars(ExitProcess)
  /\ \A c \in Clients :
       WF_vars(SendCommand(c)) /\ WF_vars(ReadReply(c)) /\ WF_vars(ReadEof(c))

(***************************************************************************)
(* A station that keeps reporting opens a window again and again, and lets *)
(* itself be captured in one of them.                                      *)
(***************************************************************************)
StationFairness == SF_vars(OpenWindow) /\ SF_vars(CaptureSucceeds)

FairSpec == Spec /\ ThreadFairness /\ StationFairness

-----------------------------------------------------------------------------
(* The type invariant.                                                     *)

ServerPcs == {"accept", "recv", "execute", "refuse", "started", "push",
              "start", "signal", "wait", "dead"}
ProcPcs == {"none", "begin", "condwait", "woken", "loop", "take", "exchange",
            "reply", "notify", "cycle", "evaluate", "assign", "exit", "done"}
ClientStates == {"new", "connected", "waiting", "answered", "eof", "refused",
                 "killed"}

\* Every variable has its type.
TypeOK ==
  /\ client \in [Clients -> ClientStates]
  /\ kind \in [Clients -> AllKinds \cup {None}]
  /\ unread \subseteq Clients
  /\ backlog \in Seq(Clients)
  /\ replies \in [Clients -> Seq({"ok", "failed"})]
  /\ server \in ServerPcs
  /\ clientSock \in Clients \cup {None}
  /\ canProcess \in BOOLEAN
  /\ proc \in ProcPcs
  /\ isRunning \in BOOLEAN
  /\ isDataCapture \in BOOLEAN
  /\ doRun \in BOOLEAN
  /\ startMutex \in {"free", "processor"}
  /\ nextState \in {"traffic", "capture"}
  /\ queue \in Seq(Clients)
  /\ cur \in Clients \cup {None}
  /\ outcome \in {"ok", "failed", None}
  /\ keepRunning \in BOOLEAN
  /\ executed \in [Clients -> Nat]
  /\ cancelled \in BOOLEAN
  /\ up \in BOOLEAN

-----------------------------------------------------------------------------
(* Safety.                                                                 *)

\* The processor thread answers through m_clientSock, a field of the server
\* thread: when it does (OnResultReady), that socket is still the one the
\* command it has just executed came from.
ReplyGoesToRequester == proc = "reply" => clientSock = cur

\* The server waits for a result before it reads the next command, so the
\* pending queue and the processor together never hold two commands.
OneCommandAtATime ==
  Len(queue) + (IF cur = None THEN 0 ELSE 1) <= 1

\* A client gets at most one reply, whichever of the two threads sends it
\* and however Execute() and SetReply() end.
AtMostOneReply == \A c \in Clients : Len(replies[c]) <= 1

\* A command is put on the line at most once, and a client that is told its
\* command or test succeeded had it executed.
OkMeansExecutedOnce == \A c \in Clients :
  /\ executed[c] <= 1
  /\ "ok" \in {replies[c][i] : i \in DOMAIN replies[c]} /\ kind[c] # "measure"
       => executed[c] = 1

\* The start handshake loses no signal: a one-shot thread asleep on
\* m_startCond although m_doRun is set is about to be signalled.
NoLostStart == proc = "condwait" /\ doRun => server = "signal"

\* A server that waits for a result waits for a command that is queued or with the
\* processor, except after a test that was not started and while a one-shot daemon is
\* ending. (A processor whose thread could not be created leaves the queue unread.)
WaitIsJustified ==
  server = "wait" /\ ~canProcess =>
    \/ cur # None \/ queue # <<>>
    \/ kind[clientSock] = "test"
    \/ proc \in {"exit", "done"}

\* A daemon that measures drops no queued command and never ends by itself:
\* a command leaves the queue only to be executed.
MeasuringStep ==
  isDataCapture /\ up /\ up' =>
    /\ queue # <<>> => queue' = queue \/ cur' = Head(queue)
    /\ ~cancelled'
MeasuringDropsNothing == [][MeasuringStep]_vars

-----------------------------------------------------------------------------
(* Liveness, under FairSpec.                                               *)

\* A measuring daemon with an answering station answers every custom command
\* it has read, unless the client is killed first, or the thread of the processor
\* could not be created: then the command is queued for nobody.
CustomCommandsAnswered == \A c \in Clients :
  (isDataCapture /\ clientSock = c /\ kind[c] = "custom" /\ c \notin unread)
    ~> (replies[c] # <<>> \/ client[c] = "killed" \/ proc = "none")

\* A processor that reported its exit takes the daemon process with it, unless
\* the server is stuck in Start(), at a mutex the processor never unlocked.
ExitEndsOrBlocks ==
  proc = "done" ~> ~up \/ (server = "start" /\ startMutex = "processor")

\* What the main thread counts on when it joins the server, "stuck here till the
\* end of daemon live": the exit of the processor ends the process.
ExitEndsProcess == proc = "done" ~> ~up

-----------------------------------------------------------------------------
(* The inductive invariant behind the safety properties.                   *)

Fresh(c) == replies[c] = <<>> /\ executed[c] = 0

\* A command on its way to the processor: read, of a kind it is handed, and
\* the one the server serves and waits for.
InHand(c) ==
  /\ c \notin unread
  /\ kind[c] \in {"test", "custom"}
  /\ c = clientSock
  /\ server \in {"start", "signal", "wait"}
  /\ ~canProcess

ClientInv == \A c \in Clients :
  /\ client[c] \in {"new", "connected"} => Fresh(c) /\ c \notin unread /\ kind[c] = None
  /\ c \in unread => Fresh(c) /\ kind[c] # None
  /\ replies[c] \in {<<>>, <<"ok">>, <<"failed">>}
  /\ executed[c] \in {0, 1}
  /\ replies[c] = <<"ok">> => kind[c] = "measure" \/ executed[c] = 1

ServerInv ==
  /\ clientSock = None <=> server \in {"accept", "dead"}
  /\ server \in {"execute", "refuse", "started", "push"} =>
       /\ Fresh(clientSock) /\ clientSock \notin unread
       /\ kind[clientSock] \in {"test", "custom", "measure"}
       /\ ~canProcess /\ cur = None /\ queue = <<>>
  /\ server = "push" => kind[clientSock] \in {"test", "custom"}
  /\ server = "started" => kind[clientSock] = "measure"
  /\ server = "dead" => proc = "done"

QueueInv ==
  \/ queue = <<>>
  \/ \E c \in Clients : /\ queue = <<c>>
                        /\ cur = None
                        /\ Fresh(c)
                        /\ InHand(c) \/ server = "dead"

CurInv ==
  /\ cur # None <=> proc \in {"exchange", "reply", "notify"}
  /\ cur # None => InHand(cur)
  /\ proc = "exchange" => Fresh(cur)
  /\ proc = "reply" => replies[cur] = <<>> /\ executed[cur] = 1
                       /\ outcome \in {"ok", "failed"}
  /\ proc = "notify" => executed[cur] = 1

WaitInv ==
  server \in {"start", "signal", "wait"} /\ ~canProcess =>
    \/ cur # None \/ queue # <<>>
    \/ server = "wait" /\ kind[clientSock] = "test"
    \/ proc \in {"exit", "done"}

LifeInv ==
  /\ ~isRunning => proc = "none"
  /\ cancelled => proc = "done"
  /\ ~up => server = "dead"
  /\ proc = "condwait" /\ doRun => server = "signal"
  /\ isDataCapture =>
       /\ doRun /\ ~cancelled /\ proc \notin {"exit", "condwait", "woken"}
       /\ proc = "assign" => keepRunning
       /\ proc = "done" => ~up

\* The conjunction that Next preserves and that implies the safety properties:
\* who holds the command being served, and what that says about both threads.
IInv ==
  /\ TypeOK
  /\ ClientInv /\ ServerInv /\ QueueInv /\ CurInv /\ WaitInv /\ LifeInv

-----------------------------------------------------------------------------
(* Refinement.                                                             *)

Serving == {"execute", "refuse", "started", "push", "start", "signal", "wait"}

\* How far the command of client c has got, in the terms of CommandService.
Phase(c) ==
  IF kind[c] = None THEN "idle"
  ELSE IF replies[c] # <<>> THEN "answered"
  ELSE IF up /\ c \in unread THEN "submitted"
  ELSE IF ~(up /\ clientSock = c /\ server \in Serving) THEN "dropped"
  ELSE IF executed[c] = 0 THEN "serving" ELSE "executed"

Service == INSTANCE CommandService WITH phase <- [c \in Clients |-> Phase(c)]

\* The three threads together behave as one server that serves commands one
\* at a time.
ServesOneByOne == Service!Spec
=============================================================================
