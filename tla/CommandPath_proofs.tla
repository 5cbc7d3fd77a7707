-------------------------- MODULE CommandPath_proofs --------------------------
(* Proofs of the safety of CommandPath for any set of clients. *)
EXTENDS CommandPath, TLAPS

\* Replies and queued commands are sequences of at most one element.
LEMMA Singleton ==
  ASSUME NEW x
  PROVE  Append(<<>>, x) = <<x>> /\ Head(<<x>>) = x /\ Tail(<<x>>) = <<>>
         /\ <<x>> # <<>>
  OBVIOUS

\* A reply sent on a connection that has had none is the only one there.
LEMMA FirstReply ==
  ASSUME NEW r, SendResponseToClient(r),
         clientSock \in Clients => replies[clientSock] = <<>>,
         NEW c \in Clients
  PROVE  \/ replies'[c] = replies[c] /\ (c # clientSock \/ ~Open(c))
         \/ replies'[c] = <<r>> /\ c = clientSock /\ Open(c)
  BY Singleton DEF SendResponseToClient

\* The inductive invariant holds at the start.
LEMMA InitIInv == Init => IInv
<1> SUFFICES ASSUME Init PROVE IInv
  OBVIOUS
<1> USE NoneAssumption, BacklogAssumption, KindsAssumption DEF Init, AllKinds
<1>1. TypeOK
  <2>1. /\ backlog \in Seq(Clients) /\ queue \in Seq(Clients)
        /\ <<>> \in Seq({"ok", "failed"})
    OBVIOUS
  <2>2. replies \in [Clients -> Seq({"ok", "failed"})]
    BY <2>1
  <2>3. kind \in [Clients -> AllKinds \cup {None}] /\ executed \in [Clients -> Nat]
    OBVIOUS
  <2>4. QED
    BY <2>1, <2>2, <2>3 DEF TypeOK, ServerPcs, ProcPcs, ClientStates
<1>2. ClientInv /\ ServerInv /\ QueueInv /\ CurInv /\ WaitInv /\ LifeInv
  BY DEF ClientInv, ServerInv, QueueInv, CurInv, WaitInv, LifeInv, Fresh
<1>3. QED
  BY <1>1, <1>2 DEF IInv

\* Every step of every process keeps the inductive invariant.
LEMMA NextIInv == IInv /\ [Next]_vars => IInv'
<1> SUFFICES ASSUME IInv, [Next]_vars PROVE IInv'
  OBVIOUS
<1> USE NoneAssumption, BacklogAssumption, KindsAssumption
    DEF IInv, TypeOK, ClientInv, ServerInv, QueueInv, CurInv, WaitInv, LifeInv,
        Fresh, InHand, Open, AllKinds, ServerPcs, ProcPcs, ClientStates,
        vars, clientVars, serverVars, startVars, procVars
<1>1. ASSUME NEW c \in Clients, Connect(c) PROVE IInv'
  BY <1>1 DEF Connect, Others
<1>2. ASSUME NEW c \in Clients, GiveUp(c) PROVE IInv'
  BY <1>2 DEF GiveUp, Others
<1>3. ASSUME NEW c \in Clients, SendCommand(c) PROVE IInv'
  BY <1>3 DEF SendCommand, Others
<1>4. ASSUME NEW c \in Clients, ReadReply(c) PROVE IInv'
  BY <1>4 DEF ReadReply, Others
<1>5. ASSUME NEW c \in Clients, ReadEof(c) PROVE IInv'
  BY <1>5 DEF ReadEof, Others
<1>6. ASSUME NEW c \in Clients, Kill(c) PROVE IInv'
  BY <1>6 DEF Kill, Others
<1>7. CASE Accept
  BY <1>7 DEF Accept
<1>8. CASE ReceiveCommand
  <2>1. TypeOK'
    BY <1>8 DEF ReceiveCommand
  <2>2. ClientInv'
    BY <1>8 DEF ReceiveCommand
  <2>3. ServerInv'
    BY <1>8 DEF ReceiveCommand
  <2>4. QueueInv'
    BY <1>8 DEF ReceiveCommand
  <2>5. CurInv'
    BY <1>8 DEF ReceiveCommand
  <2>6. WaitInv'
    BY <1>8 DEF ReceiveCommand
  <2>7. LifeInv'
    BY <1>8 DEF ReceiveCommand
  <2>8. QED
    BY <2>1, <2>2, <2>3, <2>4, <2>5, <2>6, <2>7
<1>9. CASE ReceiveMalformed
  BY <1>9 DEF ReceiveMalformed
<1>10. CASE ReceiveEof
  BY <1>10 DEF ReceiveEof, SendResponseToClient
<1>11. CASE ExecuteRunning
  BY <1>11 DEF ExecuteRunning
<1>12. CASE ExecuteCreate
  BY <1>12 DEF ExecuteCreate, OpenPort, NextStep
<1>12a. CASE ExecuteNoThread
  BY <1>12a DEF ExecuteNoThread, OpenPort, AfterFailure
<1>13. CASE ExecuteNoPort
  BY <1>13 DEF ExecuteNoPort, AfterFailure
<1>14. CASE Refuse
  <2>1. TypeOK'
    BY <1>14 DEF Refuse, SendResponseToClient
  <2>2. ClientInv'
    <3> SUFFICES ASSUME NEW c \in Clients PROVE ClientInv!(c)'
      BY DEF ClientInv
    <3>1. \/ replies'[c] = replies[c]
          \/ replies'[c] = <<"failed">> /\ c = clientSock /\ Open(c)
      BY <1>14, FirstReply DEF Refuse
    <3>2. QED
      BY <1>14, <3>1, Singleton DEF Refuse
  <2>3. ServerInv'
    BY <1>14 DEF Refuse, SendResponseToClient
  <2>4. QueueInv'
    BY <1>14 DEF Refuse, SendResponseToClient
  <2>5. CurInv'
    BY <1>14 DEF Refuse, SendResponseToClient
  <2>6. WaitInv'
    BY <1>14 DEF Refuse, SendResponseToClient
  <2>7. LifeInv'
    BY <1>14 DEF Refuse, SendResponseToClient
  <2>8. QED
    BY <2>1, <2>2, <2>3, <2>4, <2>5, <2>6, <2>7
<1>15. CASE NotifyStarted
  <2>1. TypeOK'
    BY <1>15 DEF NotifyStarted, SendResponseToClient
  <2>2. ClientInv'
    <3> SUFFICES ASSUME NEW c \in Clients PROVE ClientInv!(c)'
      BY DEF ClientInv
    <3>1. \/ replies'[c] = replies[c]
          \/ replies'[c] = <<"ok">> /\ c = clientSock /\ Open(c)
      BY <1>15, FirstReply DEF NotifyStarted
    <3>2. QED
      BY <1>15, <3>1, Singleton DEF NotifyStarted
  <2>3. ServerInv'
    BY <1>15 DEF NotifyStarted, SendResponseToClient
  <2>4. QueueInv'
    BY <1>15 DEF NotifyStarted, SendResponseToClient
  <2>5. CurInv'
    BY <1>15 DEF NotifyStarted, SendResponseToClient
  <2>6. WaitInv'
    BY <1>15 DEF NotifyStarted, SendResponseToClient
  <2>7. LifeInv'
    BY <1>15 DEF NotifyStarted, SendResponseToClient
  <2>8. QED
    BY <2>1, <2>2, <2>3, <2>4, <2>5, <2>6, <2>7
<1>16. CASE SendCustomCmd
  <2>1. TypeOK'
    BY <1>16 DEF SendCustomCmd
  <2>2. ClientInv'
    BY <1>16 DEF SendCustomCmd
  <2>3. ServerInv'
    BY <1>16 DEF SendCustomCmd
  <2>4. QueueInv'
    BY <1>16 DEF SendCustomCmd
  <2>5. CurInv'
    BY <1>16 DEF SendCustomCmd
  <2>6. WaitInv'
    <3>1. queue' = <<clientSock>>
      BY <1>16, Singleton DEF SendCustomCmd
    <3>2. queue' # <<>>
      BY <3>1, Singleton
    <3>3. QED
      BY <3>2 DEF WaitInv
  <2>7. LifeInv'
    BY <1>16 DEF SendCustomCmd
  <2>8. QED
    BY <2>1, <2>2, <2>3, <2>4, <2>5, <2>6, <2>7
<1>17. CASE Start
  BY <1>17 DEF Start
<1>18. CASE SignalStart
  BY <1>18 DEF SignalStart
<1>19. CASE WaitDone
  BY <1>19 DEF WaitDone
<1>20. CASE CancelServer
  BY <1>20 DEF CancelServer
<1>21. CASE RunBegin
  BY <1>21 DEF RunBegin, ProcOthers
<1>22. CASE RunWoken
  BY <1>22 DEF RunWoken, ProcOthers
<1>23. CASE TrafficOnly
  BY <1>23 DEF TrafficOnly, ProcOthers
<1>24. CASE OpenWindow
  BY <1>24 DEF OpenWindow, ProcOthers
<1>25. CASE CaptureFails
  BY <1>25 DEF CaptureFails, ProcOthers
<1>26. CASE CaptureSucceeds
  BY <1>26 DEF CaptureSucceeds, ProcOthers
<1>27. CASE TakeCommand
  <2>0. ASSUME queue # <<>>
        PROVE  Head(queue) \in Clients /\ Tail(queue) = <<>>
    <3>1. PICK c \in Clients : queue = <<c>>
      BY <2>0
    <3>2. QED
      BY <3>1, Singleton
  <2>a. queue # <<>> => cur' = Head(queue) /\ queue' = Tail(queue)
    BY <1>27 DEF TakeCommand
  <2>d. <<>> \in Seq(Clients)
    OBVIOUS
  <2>b. queue = <<>> => queue' = queue
    BY <1>27 DEF TakeCommand
  <2>1. TypeOK'
    <3>1. CASE queue # <<>>
      <4>1. cur' \in Clients /\ queue' \in Seq(Clients)
        BY <2>0, <2>a, <2>d, <3>1, Zenon
      <4>2. QED
        BY <1>27, <3>1, <4>1 DEF TakeCommand, ProcOthers
    <3>2. CASE queue = <<>>
      BY <1>27, <3>2 DEF TakeCommand, ProcOthers
    <3>3. QED
      BY <3>1, <3>2
  <2>2. ClientInv'
    BY <1>27 DEF TakeCommand, ProcOthers
  <2>3. ServerInv'
    BY <1>27 DEF TakeCommand, ProcOthers
  <2>4. QueueInv'
    <3>1. CASE queue = <<>>
      BY <2>b, <3>1, Zenon DEF QueueInv
    <3>2. CASE queue # <<>>
      BY <2>0, <2>a, <3>2, Zenon DEF QueueInv
    <3>3. QED
      BY <3>1, <3>2
  <2>5. CurInv'
    BY <1>27 DEF TakeCommand, ProcOthers
  <2>6. WaitInv'
    BY <1>27 DEF TakeCommand, ProcOthers
  <2>7. LifeInv'
    BY <1>27 DEF TakeCommand, ProcOthers
  <2>8. QED
    BY <2>1, <2>2, <2>3, <2>4, <2>5, <2>6, <2>7
<1>28. CASE Exchange
  BY <1>28 DEF Exchange, ProcOthers
<1>29. CASE SendReply
  <2>1. TypeOK'
    BY <1>29 DEF SendReply, ProcOthers, SendResponseToClient
  <2>2. ClientInv'
    <3> SUFFICES ASSUME NEW c \in Clients PROVE ClientInv!(c)'
      BY DEF ClientInv
    <3>1. \/ replies'[c] = replies[c]
          \/ replies'[c] = <<outcome>> /\ c = clientSock /\ Open(c)
      BY <1>29, FirstReply DEF SendReply
    <3>2. QED
      BY <1>29, <3>1, Singleton DEF SendReply, ProcOthers
  <2>3. ServerInv'
    BY <1>29 DEF SendReply, ProcOthers, SendResponseToClient
  <2>4. QueueInv'
    BY <1>29 DEF SendReply, ProcOthers, SendResponseToClient
  <2>5. CurInv'
    BY <1>29 DEF SendReply, ProcOthers, SendResponseToClient
  <2>6. WaitInv'
    BY <1>29 DEF SendReply, ProcOthers, SendResponseToClient
  <2>7. LifeInv'
    BY <1>29 DEF SendReply, ProcOthers, SendResponseToClient
  <2>8. QED
    BY <2>1, <2>2, <2>3, <2>4, <2>5, <2>6, <2>7
<1>30. CASE NotifyServer
  BY <1>30 DEF NotifyServer, ProcOthers
<1>31. CASE ModeCycle
  BY <1>31 DEF ModeCycle, ProcOthers
<1>32. CASE Crash
  BY <1>32 DEF Crash, ProcOthers
<1>33. CASE EvaluateDoRun
  BY <1>33 DEF EvaluateDoRun, ProcOthers
<1>34. CASE AssignDoRun
  BY <1>34 DEF AssignDoRun, ProcOthers
<1>35. CASE Drain
  BY <1>35 DEF Drain, ProcOthers
<1>36. CASE NotifyExit
  BY <1>36 DEF NotifyExit, ProcOthers
<1>37. CASE ExitProcess
  <2>1. TypeOK'
    BY <1>37 DEF ExitProcess
  <2>2. ClientInv'
    BY <1>37 DEF ExitProcess
  <2>3. ServerInv'
    BY <1>37 DEF ExitProcess
  <2>4. QueueInv'
    BY <1>37 DEF ExitProcess
  <2>5. CurInv'
    BY <1>37 DEF ExitProcess
  <2>6. WaitInv'
    BY <1>37 DEF ExitProcess
  <2>7. LifeInv'
    BY <1>37 DEF ExitProcess
  <2>8. QED
    BY <2>1, <2>2, <2>3, <2>4, <2>5, <2>6, <2>7
<1>38. CASE UNCHANGED vars
  BY <1>38
<1>39. QED
  BY <1>1, <1>2, <1>3, <1>4, <1>5, <1>6, <1>7, <1>8, <1>9, <1>10, <1>11, <1>12, <1>12a, <1>13, <1>14, <1>15, <1>16, <1>17, <1>18, <1>19, <1>20, <1>21, <1>22, <1>23, <1>24, <1>25, <1>26, <1>27, <1>28, <1>29, <1>30, <1>31, <1>32, <1>33, <1>34, <1>35, <1>36, <1>37, <1>38
     DEF Next, ClientNext, ServerNext, ProcessorNext

\* The inductive invariant holds in every reachable state.
LEMMA Invariance == Spec => []IInv
<1>1. QED
  BY InitIInv, NextIInv, PTL DEF Spec

\* Type correctness, for any clients and any backlog.
THEOREM TypeCorrect == Spec => []TypeOK
<1>1. IInv => TypeOK
  BY DEF IInv
<1>2. QED
  BY <1>1, Invariance, PTL

\* The processor thread always answers through the socket of the client whose
\* command it executed, although that socket belongs to the server thread.
THEOREM RightRequester == Spec => []ReplyGoesToRequester
<1>1. IInv => ReplyGoesToRequester
  BY NoneAssumption DEF IInv, CurInv, InHand, ReplyGoesToRequester
<1>2. QED
  BY <1>1, Invariance, PTL

\* The queue and the processor never hold two commands together.
THEOREM OneAtATime == Spec => []OneCommandAtATime
<1>1. IInv => OneCommandAtATime
  <2> SUFFICES ASSUME IInv PROVE OneCommandAtATime
    OBVIOUS
  <2>1. CASE queue = <<>>
    BY <2>1 DEF OneCommandAtATime
  <2>2. CASE queue # <<>>
    <3>1. PICK c \in Clients : queue = <<c>> /\ cur = None
      BY <2>2 DEF IInv, QueueInv
    <3>2. Len(<<c>>) = 1
      OBVIOUS
    <3>3. QED
      BY <3>1, <3>2 DEF OneCommandAtATime
  <2>3. QED
    BY <2>1, <2>2
<1>2. QED
  BY <1>1, Invariance, PTL

\* No connection carries two replies.
THEOREM RepliesOnce == Spec => []AtMostOneReply
<1>1. IInv => AtMostOneReply
  <2> SUFFICES ASSUME IInv, NEW c \in Clients PROVE Len(replies[c]) <= 1
    BY DEF AtMostOneReply
  <2>1. replies[c] \in {<<>>, <<"ok">>, <<"failed">>}
    BY DEF IInv, ClientInv
  <2>2. Len(<<>>) = 0 /\ Len(<<"ok">>) = 1 /\ Len(<<"failed">>) = 1
    OBVIOUS
  <2>3. Len(replies[c]) \in {0, 1}
    BY <2>1, <2>2, Zenon
  <2>4. \A n \in {0, 1} : n <= 1
    OBVIOUS
  <2>5. QED
    BY <2>3, <2>4, Zenon
<1>2. QED
  BY <1>1, Invariance, PTL

\* No command is executed twice, and success is reported only after execution.
THEOREM OkIsExecuted == Spec => []OkMeansExecutedOnce
<1>1. IInv => OkMeansExecutedOnce
  <2> SUFFICES ASSUME IInv, NEW c \in Clients
               PROVE  /\ executed[c] <= 1
                      /\ "ok" \in {replies[c][i] : i \in DOMAIN replies[c]} /\ kind[c] # "measure"
                           => executed[c] = 1
    BY DEF OkMeansExecutedOnce
  <2>1. /\ executed[c] \in {0, 1}
        /\ replies[c] \in {<<>>, <<"ok">>, <<"failed">>}
        /\ replies[c] = <<"ok">> => kind[c] = "measure" \/ executed[c] = 1
    BY DEF IInv, ClientInv
  <2>2. replies[c] # <<"ok">> => "ok" \notin {replies[c][i] : i \in DOMAIN replies[c]}
    BY <2>1
  <2>3. QED
    BY <2>1, <2>2
<1>2. QED
  BY <1>1, Invariance, PTL

\* The start handshake loses no wakeup.
THEOREM StartNotLost == Spec => []NoLostStart
<1>1. IInv => NoLostStart
  BY DEF IInv, LifeInv, NoLostStart
<1>2. QED
  BY <1>1, Invariance, PTL

\* The server waits for a command in the queue or with the processor, or else for a
\* refused test or a daemon that ends.
THEOREM JustifiedWait == Spec => []WaitIsJustified
<1>1. IInv => WaitIsJustified
  BY DEF IInv, WaitInv, WaitIsJustified
<1>2. QED
  BY <1>1, Invariance, PTL

\* A daemon that measures neither drops a command nor asks its server to end.
THEOREM NothingDropped == Spec => MeasuringDropsNothing
<1>1. IInv /\ [Next]_vars => [MeasuringStep]_vars
  <2> SUFFICES ASSUME IInv, Next PROVE MeasuringStep
    OBVIOUS
  <2>1. SUFFICES ASSUME isDataCapture, up, up'
                 PROVE  /\ queue # <<>> => queue' = queue \/ cur' = Head(queue)
                        /\ ~cancelled'
    BY DEF MeasuringStep
  <2> USE DEF clientVars, serverVars, startVars, procVars
  <2>2. server = "push" => queue = <<>>
    BY <2>1 DEF IInv, LifeInv, ServerInv
  <2>3. doRun = TRUE /\ cancelled = FALSE /\ proc # "exit"
    BY <2>1 DEF IInv, TypeOK, LifeInv
  <2>4. CASE \E c \in Clients : Connect(c) \/ GiveUp(c) \/ SendCommand(c)
                                \/ ReadReply(c) \/ ReadEof(c) \/ Kill(c)
    BY <2>4, <2>3 DEF Connect, GiveUp, SendCommand, ReadReply, ReadEof, Kill, Others
  <2>5. CASE ServerNext
    BY <2>5, <2>2, <2>3 DEF ServerNext, Accept, ReceiveCommand, ReceiveMalformed,
       ReceiveEof, ExecuteRunning, ExecuteCreate, ExecuteNoThread, ExecuteNoPort, OpenPort, Refuse,
       NotifyStarted, SendCustomCmd, Start, SignalStart, WaitDone, CancelServer
  <2>6. CASE ProcessorNext
    BY <2>6, <2>3 DEF ProcessorNext, ProcOthers, RunBegin, RunWoken, TrafficOnly,
       OpenWindow, CaptureFails, CaptureSucceeds, TakeCommand, Exchange, SendReply,
       NotifyServer, ModeCycle, Crash, EvaluateDoRun, AssignDoRun, Drain, NotifyExit
  <2>7. CASE ExitProcess
    BY <2>7, <2>1 DEF ExitProcess
  <2>8. QED
    BY <2>4, <2>5, <2>6, <2>7 DEF Next, ClientNext
<1>2. QED
  BY <1>1, Invariance, PTL DEF Spec, MeasuringDropsNothing
===============================================================================
