------------------------ MODULE CommandService_proofs ------------------------
(* The refinement of CommandService by CommandPath, for any set of clients.  *)
EXTENDS CommandPath_proofs

\* The phases of the refinement mapping, as a function.
Phases == [c \in Clients |-> Phase(c)]

\* A step that leaves alone what the phases depend on is a stutter.
LEMMA SamePhases ==
  ASSUME \A c \in Clients : Phase(c)' = Phase(c)
  PROVE  UNCHANGED Phases
  BY DEF Phases

\* A step that moves one client from one phase to another.
LEMMA OnePhase ==
  ASSUME NEW d \in Clients, NEW from, NEW to, Phase(d) \in from, Phase(d)' = to,
         \A c \in Clients \ {d} : Phase(c)' = Phase(c)
  PROVE  Service!Move(d, from, to)
  BY DEF Service!Move

\* The whole daemon ends: what was not answered is dropped.
LEMMA AllDropped ==
  ASSUME ~up', UNCHANGED <<kind, replies>>
  PROVE  Service!DropAll
<1>1. ASSUME NEW c \in Clients
      PROVE  Phase(c)' = IF Phase(c) \in {"submitted"} \cup {"serving", "executed"}
                         THEN "dropped" ELSE Phase(c)
  BY <1>1 DEF Phase
<1>2. QED
  BY <1>1 DEF Service!DropAll, Service!InService

\* The steps of the clients: only a new command changes a phase.
LEMMA ClientImplements ==
  ASSUME IInv, ClientNext
  PROVE  [Service!Next]_Phases
<1> USE NoneAssumption, KindsAssumption DEF IInv
<1>1. ASSUME NEW c \in Clients, SendCommand(c) PROVE [Service!Next]_Phases
  <2>1. PICK k \in CommandKinds : kind' = [kind EXCEPT ![c] = k]
    BY <1>1 DEF SendCommand
  <2>2. /\ up /\ UNCHANGED <<up, replies, clientSock, server, executed>>
        /\ client[c] = "connected" /\ unread' = unread \cup {c}
        /\ kind \in [Clients -> AllKinds \cup {None}]
    BY <1>1 DEF SendCommand, Others, serverVars, procVars, TypeOK
  <2>3. kind[c] = None /\ replies[c] = <<>> /\ k # None
    BY <2>1, <2>2 DEF ClientInv, Fresh, AllKinds
  <2>4. Phase(c) = "idle" /\ Phase(c)' = "submitted"
    BY <2>1, <2>2, <2>3 DEF Phase
  <2>5. \A d \in Clients \ {c} : Phase(d)' = Phase(d)
    BY <2>1, <2>2 DEF Phase
  <2>6. QED
    BY <2>4, <2>5, OnePhase DEF Service!Next, Service!Submit
<1>2. ASSUME NEW c \in Clients,
             Connect(c) \/ GiveUp(c) \/ ReadReply(c) \/ ReadEof(c) \/ Kill(c)
      PROVE  [Service!Next]_Phases
  BY <1>2, SamePhases DEF Phase, Connect, GiveUp, ReadReply, ReadEof, Kill, Others,
     serverVars, procVars
<1>3. QED
  BY <1>1, <1>2 DEF ClientNext

\* The server starts to serve the command it has read.
LEMMA BeginImplements ==
  ASSUME IInv, ReceiveCommand
  PROVE  [Service!Next]_Phases
<1>0. PICK c \in Clients : c = clientSock
  BY NoneAssumption DEF ReceiveCommand, IInv, TypeOK, ServerInv
<1>1. /\ server = "recv" /\ server' = "execute" /\ c \in unread /\ unread' = unread \ {c}
      /\ UNCHANGED <<clientSock, kind, replies, executed, up>>
  BY <1>0 DEF ReceiveCommand, procVars
<1>2. Fresh(c) /\ kind[c] # None /\ up
  BY <1>1 DEF IInv, TypeOK, ClientInv, LifeInv
<1>3. Phase(c) = "submitted" /\ Phase(c)' = "serving"
  BY <1>0, <1>1, <1>2 DEF Phase, Fresh, Serving
<1>4. \A d \in Clients : Phase(d) \notin {"serving", "executed"}
  BY <1>1 DEF Phase, Serving
<1>5. \A d \in Clients \ {c} : Phase(d)' = Phase(d)
  BY <1>0, <1>1 DEF Phase
<1>6. Service!Begin(c)
  BY <1>3, <1>4, <1>5, OnePhase DEF Service!Begin, Service!InService
<1>7. QED
  BY <1>6 DEF Service!Next

\* A reply on the server's connection answers the command that is in service, or
\* nobody, if the client has gone.
LEMMA ReplyImplements ==
  ASSUME IInv, NEW r, SendResponseToClient(r), clientSock \in Clients,
         Phase(clientSock) \in {"serving", "executed"},
         server' \in Serving \/ server' = "recv",
         UNCHANGED <<clientSock, kind, unread, executed, up>>
  PROVE  [Service!Next]_Phases
<1>0. PICK c \in Clients : c = clientSock
  OBVIOUS
<1>1. kind[c] # None /\ replies[c] = <<>> /\ server \in Serving /\ up /\ c \notin unread
  BY <1>0 DEF Phase
<1>2. \A d \in Clients \ {c} : Phase(d)' = Phase(d)
  BY FirstReply, <1>0, <1>1 DEF Phase
<1>3. CASE replies'[c] = <<r>>
  <2>1. Phase(c)' = "answered"
    BY <1>1, <1>3, Singleton DEF Phase
  <2>2. QED
    BY <1>0, <1>2, <2>1, OnePhase DEF Service!Next, Service!Answer, Service!InService
<1>4. CASE replies'[c] = replies[c]
  <2>1. CASE server' \in Serving
    BY <1>0, <1>1, <1>2, <1>4, <2>1, SamePhases DEF Phase
  <2>2. CASE server' = "recv"
    <3>1. Phase(c)' = "dropped"
      BY <1>0, <1>1, <1>4, <2>2 DEF Phase, Serving
    <3>2. QED
      BY <1>0, <1>2, <3>1, OnePhase DEF Service!Next, Service!Drop, Service!InService
  <2>3. QED
    BY <2>1, <2>2
<1>5. QED
  BY <1>0, <1>1, <1>3, <1>4, FirstReply

\* The server leaves a command, or its connection, without an answer.
LEMMA LeaveImplements ==
  ASSUME IInv, UNCHANGED <<kind, replies, executed, up>>,
         server' \notin Serving, unread' = unread,
         clientSock' = clientSock \/ server \notin Serving \/ clientSock' = None
  PROVE  [Service!Next]_Phases
<1>1. CASE \E c \in Clients : Phase(c) \in {"serving", "executed"}
  <2>1. PICK c \in Clients : Phase(c) \in {"serving", "executed"}
    BY <1>1
  <2>2. c = clientSock /\ c \notin unread /\ Phase(c)' = "dropped"
    BY <2>1 DEF Phase
  <2>3. \A d \in Clients \ {c} : Phase(d)' = Phase(d)
    BY <2>2 DEF Phase
  <2>4. QED
    BY <2>1, <2>2, <2>3, OnePhase DEF Service!Next, Service!Drop, Service!InService
<1>2. CASE \A c \in Clients : Phase(c) \notin {"serving", "executed"}
  <2>1. \A c \in Clients : Phase(c)' = Phase(c)
    BY <1>2 DEF Phase
  <2>2. QED
    BY <2>1, SamePhases
<1>3. QED
  BY <1>1, <1>2

\* The steps of the server.
LEMMA ServerImplements ==
  ASSUME IInv, ServerNext
  PROVE  [Service!Next]_Phases
<1>1. CASE ReceiveCommand
  BY <1>1, BeginImplements
<1>2. CASE Accept \/ WaitDone \/ CancelServer
  <2>1. /\ UNCHANGED <<kind, replies, executed, up, unread>>
        /\ server' \notin Serving
        /\ clientSock' = clientSock \/ server \notin Serving \/ clientSock' = None
    BY <1>2 DEF Accept, WaitDone, CancelServer, procVars, clientVars, Serving
  <2>2. QED
    BY <2>1, LeaveImplements
<1>3. CASE ReceiveMalformed
  <2>0. PICK c \in Clients : c = clientSock
    BY <1>3, NoneAssumption DEF ReceiveMalformed, IInv, TypeOK, ServerInv
  <2>1. /\ server = "recv" /\ c \in unread /\ unread' = unread \ {c}
        /\ UNCHANGED <<server, clientSock, kind, replies, executed, up>>
    BY <1>3, <2>0 DEF ReceiveMalformed, procVars, serverVars
  <2>2. Fresh(c) /\ kind[c] # None /\ up
    BY <2>1 DEF IInv, TypeOK, ClientInv, LifeInv
  <2>3. Phase(c) = "submitted" /\ Phase(c)' = "dropped"
    BY <2>1, <2>2 DEF Phase, Fresh, Serving
  <2>4. \A d \in Clients \ {c} : Phase(d)' = Phase(d)
    BY <2>1 DEF Phase
  <2>5. QED
    BY <2>3, <2>4, OnePhase DEF Service!Next, Service!Drop, Service!InService
<1>4. CASE ReceiveEof
  <2>1. /\ server = "recv" /\ server' = "accept" /\ ~Open(clientSock)
        /\ UNCHANGED <<kind, unread, executed, up>> /\ clientSock' = None
    BY <1>4 DEF ReceiveEof, procVars, clientVars
  <2>2. UNCHANGED replies
    BY <1>4, <2>1 DEF ReceiveEof, SendResponseToClient, IInv, TypeOK
  <2>3. QED
    BY <2>1, <2>2, LeaveImplements DEF Serving
<1>5. CASE Refuse \/ NotifyStarted
  <2>1. PICK r \in {"ok", "failed"} : SendResponseToClient(r)
    BY <1>5 DEF Refuse, NotifyStarted
  <2>2. /\ server \in {"refuse", "started"} /\ server' \in {"recv", "wait"}
        /\ UNCHANGED <<clientSock, kind, unread, executed, up>>
    BY <1>5 DEF Refuse, NotifyStarted, procVars, clientVars
  <2>3. /\ clientSock \in Clients /\ Fresh(clientSock) /\ clientSock \notin unread
        /\ kind[clientSock] # None /\ up
    BY <2>2, NoneAssumption DEF IInv, TypeOK, ServerInv, LifeInv, AllKinds
  <2>4. Phase(clientSock) = "serving"
    BY <2>2, <2>3 DEF Phase, Fresh, Serving
  <2>5. QED
    BY <2>1, <2>2, <2>3, <2>4, ReplyImplements DEF Serving
<1>6. CASE ExecuteRunning \/ ExecuteCreate \/ ExecuteNoThread \/ ExecuteNoPort
           \/ SendCustomCmd \/ Start \/ SignalStart
  <2>1. /\ server \in Serving /\ server' \in Serving
        /\ UNCHANGED <<clientSock, kind, unread, replies, executed, up>>
    BY <1>6 DEF ExecuteRunning, ExecuteCreate, ExecuteNoThread, ExecuteNoPort, OpenPort,
       SendCustomCmd, Start, SignalStart, NextStep, AfterFailure, procVars, clientVars, Serving
  <2>2. QED
    BY <2>1, SamePhases DEF Phase
<1>7. QED
  BY <1>1, <1>2, <1>3, <1>4, <1>5, <1>6 DEF ServerNext

\* The steps of the processor: it executes and answers the command in service.
LEMMA ProcessorImplements ==
  ASSUME IInv, ProcessorNext
  PROVE  [Service!Next]_Phases
<1>1. CASE Exchange
  <2>1. /\ proc = "exchange" /\ executed' = [executed EXCEPT ![cur] = @ + 1]
        /\ UNCHANGED <<server, clientSock, kind, unread, replies, up>>
    BY <1>1 DEF Exchange, ProcOthers, serverVars, clientVars
  <2>2. PICK c \in Clients : c = cur
    BY <2>1, NoneAssumption DEF IInv, TypeOK, CurInv
  <2>3. /\ c = clientSock /\ Fresh(c) /\ c \notin unread
        /\ kind[c] # None /\ server \in Serving /\ up
        /\ executed'[c] = 1
        /\ \A d \in Clients \ {c} : executed'[d] = executed[d]
    BY <2>1, <2>2, NoneAssumption
    DEF IInv, TypeOK, CurInv, InHand, LifeInv, AllKinds, Serving, Fresh
  <2>4. Phase(c) = "serving" /\ Phase(c)' = "executed"
    BY <2>1, <2>3 DEF Phase, Fresh
  <2>5. \A d \in Clients \ {c} : Phase(d)' = Phase(d)
    BY <2>1, <2>3 DEF Phase
  <2>6. QED
    BY <2>4, <2>5, OnePhase DEF Service!Next, Service!Execute
<1>2. CASE SendReply
  <2>1. /\ proc = "reply" /\ SendResponseToClient(outcome)
        /\ UNCHANGED <<server, clientSock, kind, unread, executed, up>>
    BY <1>2 DEF SendReply, ProcOthers, serverVars, clientVars, procVars
  <2>2. /\ cur = clientSock /\ cur \in Clients /\ cur \notin unread
        /\ replies[cur] = <<>> /\ kind[cur] # None /\ server \in Serving /\ up
    BY <2>1, NoneAssumption
    DEF IInv, TypeOK, CurInv, InHand, LifeInv, AllKinds, Serving
  <2>3. Phase(clientSock) \in {"serving", "executed"}
    BY <2>2 DEF Phase
  <2>4. QED
    BY <2>1, <2>2, <2>3, ReplyImplements
<1>3. CASE Crash
  <2>1. ~up' /\ UNCHANGED <<kind, replies>>
    BY <1>3 DEF Crash, clientVars
  <2>2. QED
    BY <2>1, AllDropped DEF Service!Next
<1>4. CASE RunBegin \/ RunWoken \/ TrafficOnly \/ OpenWindow \/ CaptureFails
           \/ CaptureSucceeds \/ TakeCommand \/ NotifyServer \/ ModeCycle \/ EvaluateDoRun \/ AssignDoRun
           \/ Drain \/ NotifyExit
  <2>1. UNCHANGED <<server, clientSock, kind, unread, replies, executed, up>>
    BY <1>4 DEF RunBegin, RunWoken, TrafficOnly, OpenWindow, CaptureFails, CaptureSucceeds,
       TakeCommand, NotifyServer, ModeCycle, EvaluateDoRun, AssignDoRun, Drain, NotifyExit,
       ProcOthers, serverVars, clientVars, procVars
  <2>2. QED
    BY <2>1, SamePhases DEF Phase
<1>5. QED
  BY <1>1, <1>2, <1>3, <1>4 DEF ProcessorNext

\* The three threads behave as one server that serves commands one at a time, executes
\* each at most once and answers the client that asked: ServesOneByOne (CommandPath).
THEOREM ImplementsService == Spec => ServesOneByOne
<1>1. Init => Service!Init
  BY DEF Init, Service!Init, Phase
<1>2. IInv /\ [Next]_vars => [Service!Next]_Phases
  <2> SUFFICES ASSUME IInv, [Next]_vars PROVE [Service!Next]_Phases
    OBVIOUS
  <2>1. CASE ExitProcess
    <3>1. ~up' /\ UNCHANGED <<kind, replies>>
      BY <2>1 DEF ExitProcess, clientVars
    <3>2. QED
      BY <3>1, AllDropped DEF Service!Next
  <2>2. CASE UNCHANGED vars
    BY <2>2, SamePhases DEF Phase, vars, serverVars, clientVars, procVars
  <2>3. QED
    BY <2>1, <2>2, ClientImplements, ServerImplements, ProcessorImplements DEF Next
<1>3. QED
  BY <1>1, <1>2, Invariance, PTL DEF Spec, ServesOneByOne, Service!Spec, Phases
==============================================================================
