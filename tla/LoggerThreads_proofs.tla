------------------------ MODULE LoggerThreads_proofs ------------------------
(* Proofs about LoggerThreads, for any number of records. *)
EXTENDS LoggerThreads, SequenceTheorems, TLAPS

\* The tail of a queue that is not empty is one shorter.
LEMMA TailIsShorter ==
  ASSUME NEW S, NEW q \in Seq(S), q # <<>>
  PROVE  Tail(q) \in Seq(S) /\ Len(Tail(q)) = Len(q) - 1 /\ Len(q) > 0 /\ Head(q) \in S
  OBVIOUS

\* A queue grows by one when a record is queued.
LEMMA AppendIsLonger ==
  ASSUME NEW S, NEW q \in Seq(S), NEW x \in S
  PROVE  Append(q, x) \in Seq(S) /\ Len(Append(q, x)) = Len(q) + 1
  OBVIOUS

\* A record in hand is a sequence of one element.
LEMMA OneInHand ==
  ASSUME NEW S, NEW x \in S
  PROVE  /\ <<x>> \in Seq(S) /\ Len(<<x>>) = 1 /\ <<x>> # <<>>
         /\ <<>> \in Seq(S) /\ Len(<<>>) = 0
  OBVIOUS

\* The inductive invariant holds at the start.
LEMMA InitIInv == Init => IInv
<1> SUFFICES ASSUME Init PROVE IInv
  OBVIOUS
<1>1. <<>> \in Seq(Nat) /\ <<>> \in Seq(Loggers) /\ Len(<<>>) = 0
  OBVIOUS
<1>2. TypeOK
  BY <1>1 DEF Init, TypeOK, MainPcs, LoggerPcs, Loggers
<1>3. LoggerInv
  <2> SUFFICES ASSUME NEW l \in Loggers PROVE LoggerOK(l)
    BY DEF LoggerInv
  <2>1. left[l] = 0 /\ queue[l] = <<>> /\ hand[l] = <<>> /\ conn[l] = "none"
        /\ mutex[l] = "free"
    BY DEF Init
  <2>2. QED
    BY <1>1, <2>1 DEF LoggerOK
<1>4. MainInv /\ (gateway = "down" => outage)
  BY DEF Init, MainInv, Loggers
<1>5. QED
  BY <1>2, <1>3, <1>4 DEF IInv

\* Every step of every process keeps the inductive invariant.
LEMMA NextIInv == IInv /\ [Next]_vars => IInv'
<1> SUFFICES ASSUME IInv, [Next]_vars PROVE IInv'
  OBVIOUS
<1> USE DEF IInv, MainPcs, LoggerPcs, Running, MainOnly, GatewayOnly, Logger,
            Goto, store, threads
<1>1. CASE CreateLogger("event", "createEvent", "createData")
  <2>a. TypeOK'
    BY <1>1 DEF CreateLogger, TypeOK, Loggers
  <2>b. LoggerInv'
    BY <1>1 DEF CreateLogger, TypeOK, LoggerInv, LoggerOK, MainInv, Loggers
  <2>c. MainInv' /\ (gateway' = "down" => outage')
    BY <1>1 DEF CreateLogger, TypeOK, MainInv, Loggers
  <2>d. QED
    BY <2>a, <2>b, <2>c
<1>2. CASE CreateLogger("data", "createData", "serve")
  <2>a. TypeOK'
    BY <1>2 DEF CreateLogger, TypeOK, Loggers
  <2>b. LoggerInv'
    BY <1>2 DEF CreateLogger, TypeOK, LoggerInv, LoggerOK, MainInv, Loggers
  <2>c. MainInv' /\ (gateway' = "down" => outage')
    BY <1>2 DEF CreateLogger, TypeOK, MainInv, Loggers
  <2>d. QED
    BY <2>a, <2>b, <2>c
<1>3. CASE CreateFails
  <2>1. <<"event", "data">> \in Seq(Loggers)
    BY DEF Loggers
  <2>a. TypeOK'
    BY <1>3, <2>1 DEF CreateFails, TypeOK
  <2>b. LoggerInv'
    BY <1>3, <2>1 DEF CreateFails, TypeOK, LoggerInv, LoggerOK
  <2>c. MainInv' /\ (gateway' = "down" => outage')
    BY <1>3, <2>1 DEF CreateFails, TypeOK, MainInv, Loggers
  <2>d. QED
    BY <2>a, <2>b, <2>c
<1>4. CASE ServerEnds
  <2>1. <<"data", "event">> \in Seq(Loggers)
    BY DEF Loggers
  <2>a. TypeOK'
    BY <1>4, <2>1 DEF ServerEnds, TypeOK
  <2>b. LoggerInv'
    BY <1>4, <2>1 DEF ServerEnds, TypeOK, LoggerInv, LoggerOK
  <2>c. MainInv' /\ (gateway' = "down" => outage')
    BY <1>4, <2>1 DEF ServerEnds, TypeOK, MainInv, Loggers
  <2>d. QED
    BY <2>a, <2>b, <2>c
<1>5. CASE Destroy
  <2>1. Head(doomed) \in Loggers
    BY <1>5, TailIsShorter DEF Destroy, TypeOK
  <2>a. TypeOK'
    BY <1>5, <2>1 DEF Destroy, TypeOK
  <2>b. LoggerInv'
    BY <1>5, <2>1 DEF Destroy, TypeOK, LoggerInv, LoggerOK
  <2>c. MainInv' /\ (gateway' = "down" => outage')
    BY <1>5, <2>1 DEF Destroy, TypeOK, MainInv, Loggers
  <2>d. QED
    BY <2>a, <2>b, <2>c
<1>6. CASE Joined
  <2>1. Tail(doomed) \in Seq(Loggers)
    BY <1>6, TailIsShorter DEF Joined, TypeOK, MainInv
  <2>a. TypeOK'
    BY <1>6, <2>1 DEF Joined, TypeOK
  <2>b. LoggerInv'
    BY <1>6, <2>1 DEF Joined, TypeOK, LoggerInv, LoggerOK
  <2>c. MainInv' /\ (gateway' = "down" => outage')
    BY <1>6, <2>1 DEF Joined, TypeOK, MainInv, Loggers
  <2>d. QED
    BY <2>a, <2>b, <2>c
<1>7. CASE End
  <2>a. TypeOK'
    BY <1>7 DEF End, TypeOK
  <2>b. LoggerInv'
    BY <1>7 DEF End, TypeOK, LoggerInv, LoggerOK
  <2>c. MainInv' /\ (gateway' = "down" => outage')
    BY <1>7 DEF End, TypeOK, MainInv, Loggers
  <2>d. QED
    BY <2>a, <2>b, <2>c
<1>8. ASSUME NEW l \in Loggers, EnqueData(l) PROVE IInv'
  <2>1. /\ made[l] + 1 \in Nat /\ Append(queue[l], made[l] + 1) \in Seq(Nat)
        /\ Len(Append(queue[l], made[l] + 1)) = Len(queue[l]) + 1
        /\ Len(queue[l]) \in Nat
    BY AppendIsLonger DEF TypeOK
  <2>a. TypeOK'
    BY <1>8, <2>1 DEF EnqueData, TypeOK
  <2>b. LoggerInv'
    BY <1>8, <2>1 DEF EnqueData, TypeOK, LoggerInv, LoggerOK
  <2>c. MainInv' /\ (gateway' = "down" => outage')
    BY <1>8, <2>1 DEF EnqueData, TypeOK, MainInv, Loggers
  <2>d. QED
    BY <2>a, <2>b, <2>c
<1>9. ASSUME NEW l \in Loggers, Check(l) PROVE IInv'
  <2>1. Len(queue[l]) \in Nat
    BY DEF TypeOK
  <2>a. TypeOK'
    BY <1>9, <2>1 DEF Check, TransactionSize, TypeOK
  <2>b. LoggerInv'
    <3> SUFFICES ASSUME NEW k \in Loggers PROVE LoggerOK(k)'
      BY DEF LoggerInv
    <3>1. LoggerOK(k) /\ k \in Loggers
      BY DEF LoggerInv
    <3>2. CASE k = l
      BY <1>9, <2>1, <3>1, <3>2 DEF Check, TransactionSize, TypeOK, LoggerOK
    <3>3. CASE k # l
      BY <1>9, <3>1, <3>3 DEF Check, TransactionSize, TypeOK, LoggerOK
    <3>4. QED
      BY <3>2, <3>3
  <2>c. MainInv' /\ (gateway' = "down" => outage')
    BY <1>9, <2>1 DEF Check, TransactionSize, TypeOK, MainInv, Loggers
  <2>d. QED
    BY <2>a, <2>b, <2>c
<1>10. ASSUME NEW l \in Loggers, Wake(l) PROVE IInv'
  <2>a. TypeOK'
    BY <1>10 DEF Wake, TypeOK
  <2>b. LoggerInv'
    BY <1>10 DEF Wake, TypeOK, LoggerInv, LoggerOK
  <2>c. MainInv' /\ (gateway' = "down" => outage')
    BY <1>10 DEF Wake, TypeOK, MainInv, Loggers
  <2>d. QED
    BY <2>a, <2>b, <2>c
<1>11. ASSUME NEW l \in Loggers, Connect(l) PROVE IInv'
  <2>a. TypeOK'
    BY <1>11 DEF Connect, TypeOK
  <2>b. LoggerInv'
    BY <1>11 DEF Connect, TypeOK, LoggerInv, LoggerOK
  <2>c. MainInv' /\ (gateway' = "down" => outage')
    BY <1>11 DEF Connect, TypeOK, MainInv, Loggers
  <2>d. QED
    BY <2>a, <2>b, <2>c
<1>12. ASSUME NEW l \in Loggers, Take(l) PROVE IInv'
  <2>1. queue[l] # <<>> /\ left[l] - 1 \in Nat
    BY <1>12 DEF Take, MoreToSend, TypeOK, LoggerInv, LoggerOK
  <2>2. /\ Tail(queue[l]) \in Seq(Nat) /\ Head(queue[l]) \in Nat
        /\ Len(Tail(queue[l])) = Len(queue[l]) - 1
    BY <2>1, TailIsShorter DEF TypeOK
  <2>3. /\ <<Head(queue[l])>> \in Seq(Nat) /\ Len(<<Head(queue[l])>>) = 1
    BY <2>2, OneInHand
  <2>a. TypeOK'
    BY <1>12, <2>1, <2>2, <2>3 DEF Take, TypeOK
  <2>b. LoggerInv'
    <3> SUFFICES ASSUME NEW k \in Loggers PROVE LoggerOK(k)'
      BY DEF LoggerInv
    <3>1. LoggerOK(k) /\ k \in Loggers
      BY DEF LoggerInv
    <3>2. CASE k = l
      <4>1. /\ left'[l] = left[l] - 1 /\ queue'[l] = Tail(queue[l])
            /\ hand'[l] = <<Head(queue[l])>> /\ pc'[l] = "write"
            /\ UNCHANGED <<mutex, conn, outage>>
        BY <1>12, <2>1 DEF Take, TypeOK
      <4>2. left[l] \in Nat /\ Len(queue[l]) \in Nat /\ pc[l] = "take"
        BY <1>12 DEF Take, TypeOK
      <4>3. left'[l] <= Len(queue'[l]) /\ Len(hand'[l]) <= 1
        BY <2>2, <2>3, <3>1, <3>2, <4>1, <4>2 DEF LoggerOK
      <4>4. QED
        BY <3>1, <3>2, <4>1, <4>2, <4>3 DEF LoggerOK
    <3>3. CASE k # l
      BY <1>12, <3>1, <3>3 DEF Take, TypeOK, LoggerOK
    <3>4. QED
      BY <3>2, <3>3
  <2>c. MainInv' /\ (gateway' = "down" => outage')
    BY <1>12, <2>1, <2>2, <2>3 DEF Take, TypeOK, MainInv, Loggers
  <2>d. QED
    BY <2>a, <2>b, <2>c
<1>13. ASSUME NEW l \in Loggers, TransactionDone(l) PROVE IInv'
  <2>a. TypeOK'
    BY <1>13 DEF TransactionDone, TypeOK
  <2>b. LoggerInv'
    BY <1>13 DEF TransactionDone, TypeOK, LoggerInv, LoggerOK
  <2>c. MainInv' /\ (gateway' = "down" => outage')
    BY <1>13 DEF TransactionDone, TypeOK, MainInv, Loggers
  <2>d. QED
    BY <2>a, <2>b, <2>c
<1>14. ASSUME NEW l \in Loggers, Write(l) PROVE IInv'
  <2>1. <<>> \in Seq(Nat) /\ Len(<<>>) = 0
    OBVIOUS
  <2>2. pc' \in [Loggers -> LoggerPcs] /\ main' \in MainPcs
    BY <1>14 DEF Write, TypeOK
  <2>3. hand' \in [Loggers -> Seq(Nat)]
    BY <1>14, <2>1 DEF Write, TypeOK
  <2>a. TypeOK'
    BY <1>14, <2>2, <2>3 DEF Write, TypeOK
  <2>b. LoggerInv'
    BY <1>14, <2>1 DEF Write, TypeOK, LoggerInv, LoggerOK
  <2>c. MainInv' /\ (gateway' = "down" => outage')
    BY <1>14, <2>1 DEF Write, TypeOK, MainInv, Loggers
  <2>d. QED
    BY <2>a, <2>b, <2>c
<1>15. ASSUME NEW l \in Loggers, ReadAnswer(l) PROVE IInv'
  <2>a. TypeOK'
    BY <1>15 DEF ReadAnswer, TypeOK
  <2>b. LoggerInv'
    BY <1>15 DEF ReadAnswer, TypeOK, LoggerInv, LoggerOK
  <2>c. MainInv' /\ (gateway' = "down" => outage')
    BY <1>15 DEF ReadAnswer, TypeOK, MainInv, Loggers
  <2>d. QED
    BY <2>a, <2>b, <2>c
<1>16. ASSUME NEW l \in Loggers, Close(l) PROVE IInv'
  <2>a. TypeOK'
    BY <1>16 DEF Close, TypeOK
  <2>b. LoggerInv'
    BY <1>16 DEF Close, TypeOK, LoggerInv, LoggerOK
  <2>c. MainInv' /\ (gateway' = "down" => outage')
    BY <1>16 DEF Close, TypeOK, MainInv, Loggers
  <2>d. QED
    BY <2>a, <2>b, <2>c
<1>17. ASSUME NEW l \in Loggers, Cancel(l) PROVE IInv'
  <2>1. <<>> \in Seq(Nat) /\ Len(<<>>) = 0
    OBVIOUS
  <2>a. TypeOK'
    BY <1>17, <2>1 DEF Cancel, TypeOK
  <2>b. LoggerInv'
    BY <1>17, <2>1 DEF Cancel, TypeOK, LoggerInv, LoggerOK
  <2>c. MainInv' /\ (gateway' = "down" => outage')
    BY <1>17, <2>1 DEF Cancel, TypeOK, MainInv, Loggers
  <2>d. QED
    BY <2>a, <2>b, <2>c
<1>18. ASSUME NEW l \in Loggers, StoreRecord(l) PROVE IInv'
  <2>1. <<>> \in Seq(Nat) /\ Len(<<>>) = 0
    OBVIOUS
  <2>2. stored[l] \o hand[l] \in Seq(Nat)
    BY DEF TypeOK
  <2>a. TypeOK'
    BY <1>18, <2>1, <2>2 DEF StoreRecord, TypeOK
  <2>b. LoggerInv'
    BY <1>18, <2>1, <2>2 DEF StoreRecord, TypeOK, LoggerInv, LoggerOK
  <2>c. MainInv' /\ (gateway' = "down" => outage')
    BY <1>18, <2>1, <2>2 DEF StoreRecord, TypeOK, MainInv, Loggers
  <2>d. QED
    BY <2>a, <2>b, <2>c
<1>19. ASSUME NEW l \in Loggers, RefuseRecord(l) PROVE IInv'
  <2>1. <<>> \in Seq(Nat) /\ Len(<<>>) = 0
    OBVIOUS
  <2>a. TypeOK'
    BY <1>19, <2>1 DEF RefuseRecord, TypeOK
  <2>b. LoggerInv'
    BY <1>19, <2>1 DEF RefuseRecord, TypeOK, LoggerInv, LoggerOK
  <2>c. MainInv' /\ (gateway' = "down" => outage')
    BY <1>19, <2>1 DEF RefuseRecord, TypeOK, MainInv, Loggers
  <2>d. QED
    BY <2>a, <2>b, <2>c
<1>20. CASE GatewayStops
  <2>1. <<>> \in Seq(Nat) /\ Len(<<>>) = 0
    OBVIOUS
  <2>a. TypeOK'
    BY <1>20, <2>1 DEF GatewayStops, TypeOK
  <2>b. LoggerInv'
    BY <1>20, <2>1 DEF GatewayStops, TypeOK, LoggerInv, LoggerOK
  <2>c. MainInv' /\ (gateway' = "down" => outage')
    BY <1>20, <2>1 DEF GatewayStops, TypeOK, MainInv, Loggers
  <2>d. QED
    BY <2>a, <2>b, <2>c
<1>21. CASE GatewayStarts
  <2>a. TypeOK'
    BY <1>21 DEF GatewayStarts, TypeOK
  <2>b. LoggerInv'
    BY <1>21 DEF GatewayStarts, TypeOK, LoggerInv, LoggerOK
  <2>c. MainInv' /\ (gateway' = "down" => outage')
    BY <1>21 DEF GatewayStarts, TypeOK, MainInv, Loggers
  <2>d. QED
    BY <2>a, <2>b, <2>c
<1>22. CASE UNCHANGED vars
  BY <1>22 DEF vars, TypeOK, LoggerInv, LoggerOK, MainInv
<1>23. QED
  BY <1>1, <1>2, <1>3, <1>4, <1>5, <1>6, <1>7, <1>8, <1>9, <1>10, <1>11, <1>12, <1>13, <1>14, <1>15, <1>16, <1>17, <1>18, <1>19, <1>20, <1>21, <1>22
     DEF Next, MainNext, CleanUp, GatewayNext, LoggerNext

\* The conjunction the other theorems rest on holds in every reachable state.
THEOREM Invariance == Spec => []IInv
<1>1. QED
  BY InitIInv, NextIInv, PTL DEF Spec

\* Every variable keeps its type, however many records are made.
THEOREM TypeCorrect == Spec => []TypeOK
<1>1. IInv => TypeOK
  BY DEF IInv
<1>2. QED
  BY <1>1, Invariance, PTL

\* No thread that goes on keeps m_queueMutex: the processor never blocks on it.
THEOREM MutexIsReleased == Spec => []MutexReleased
<1>1. IInv => MutexReleased
  BY DEF IInv, LoggerInv, LoggerOK, MutexReleased
<1>2. QED
  BY <1>1, Invariance, PTL

-----------------------------------------------------------------------------
(* The loggers implement RecordStream.                                     *)

\* The first element and the rest of a sequence are the sequence.
LEMMA HeadAndTail ==
  ASSUME NEW q \in Seq(Nat), q # <<>>
  PROVE  <<Head(q)>> \o Tail(q) = q
<1> DEFINE t == <<Head(q)>> \o Tail(q)
<1>1. Head(q) \in Nat /\ Tail(q) \in Seq(Nat) /\ Len(Tail(q)) = Len(q) - 1 /\ Len(q) \in Nat \ {0}
      /\ \A i \in 1 .. Len(Tail(q)) : Tail(q)[i] = q[i + 1]
  BY HeadTailProperties
<1>2. <<Head(q)>> \in Seq(Nat) /\ Len(<<Head(q)>>) = 1 /\ <<Head(q)>>[1] = q[1]
  BY <1>1
<1>3. /\ t \in Seq(Nat) /\ Len(t) = Len(q)
      /\ \A i \in 1 .. Len(q) : t[i] = IF i <= 1 THEN <<Head(q)>>[i] ELSE Tail(q)[i - 1]
  BY <1>1, <1>2, ConcatProperties
<1>4. \A i \in 1 .. Len(q) : t[i] = q[i]
  BY <1>1, <1>2, <1>3
<1>5. QED
  BY <1>3, <1>4, SeqEqual

\* What is on its way when a record is queued.
LEMMA MakeStep ==
  ASSUME NEW h \in Seq(Nat), NEW q \in Seq(Nat), NEW x \in Nat
  PROVE  h \o Append(q, x) = Append(h \o q, x)
<1>1. <<x>> \in Seq(Nat) /\ h \o q \in Seq(Nat)
  BY ConcatProperties
<1>2. QED
  BY <1>1, AppendIsConcat, ConcatAssociative

\* What is on its way when the record in hand is stored or lost.
LEMMA StoreStep ==
  ASSUME NEW h \in Seq(Nat), NEW q \in Seq(Nat), NEW s \in Seq(Nat), Len(h) = 1
  PROVE  /\ h \o q # <<>> /\ Tail(h \o q) = q
         /\ s \o h = Append(s, Head(h \o q))
<1>1. h[1] \in Nat /\ h = <<h[1]>>
  <2>1. h[1] \in Nat
    <3>1. 1 \in 1 .. Len(h)
      OBVIOUS
    <3>2. QED
      BY <3>1, ElementOfSeq
  <2>2. <<h[1]>> \in Seq(Nat) /\ Len(<<h[1]>>) = 1 /\ <<h[1]>>[1] = h[1]
    BY <2>1
  <2>3. \A i \in 1 .. Len(h) : h[i] = <<h[1]>>[i]
    BY <2>2
  <2>4. QED
    BY <2>1, <2>2, <2>3, SeqEqual
<1>2. /\ h \o q \in Seq(Nat) /\ Len(h \o q) = 1 + Len(q) /\ Len(q) \in Nat
      /\ \A i \in 1 .. 1 + Len(q) : (h \o q)[i] = IF i <= 1 THEN h[i] ELSE q[i - 1]
  <2>1. /\ h \o q \in Seq(Nat) /\ Len(h \o q) = Len(h) + Len(q)
        /\ \A i \in 1 .. Len(h) + Len(q) :
             (h \o q)[i] = IF i <= Len(h) THEN h[i] ELSE q[i - Len(h)]
    BY ConcatProperties
  <2>2. QED
    BY <2>1, LenProperties
<1>3. h \o q # <<>> /\ Head(h \o q) = h[1]
  BY <1>2
<1>4. /\ Tail(h \o q) \in Seq(Nat) /\ Len(Tail(h \o q)) = Len(q)
      /\ \A i \in 1 .. Len(q) : Tail(h \o q)[i] = (h \o q)[i + 1]
  BY <1>2, <1>3, HeadTailProperties
<1>5. \A i \in 1 .. Len(q) : Tail(h \o q)[i] = q[i]
  BY <1>2, <1>4
<1>6. Tail(h \o q) = q
  BY <1>4, <1>5, SeqEqual
<1>7. s \o h = Append(s, h[1])
  BY <1>1, AppendIsConcat
<1>8. QED
  BY <1>3, <1>6, <1>7

\* A step that neither makes nor stores a record, and after which loggers that
\* may lose records have lost at most one, is a step of the stream.
LEMMA LoseStep ==
  ASSUME IInv, IInv', UNCHANGED <<made, stored>>, MayLose \subseteq MayLose',
         NEW S \in SUBSET MayLose',
         \A l \in Loggers :
           IF l \in S THEN Len(hand[l]) = 1 /\ hand'[l] = <<>> /\ queue'[l] = queue[l]
                      ELSE Chan'[l] = Chan[l]
  PROVE  Stream!Lose
<1> USE DEF IInv, TypeOK
<1>1. MayLose' \subseteq Loggers
  BY DEF MayLose
<1>2. \A l \in Loggers : l \in S => Chan[l] # <<>> /\ Chan'[l] = Tail(Chan[l])
  <2> SUFFICES ASSUME NEW l \in Loggers, l \in S
               PROVE  Chan[l] # <<>> /\ Chan'[l] = Tail(Chan[l])
    OBVIOUS
  <2>1. /\ hand[l] \in Seq(Nat) /\ queue[l] \in Seq(Nat) /\ stored[l] \in Seq(Nat)
        /\ Len(hand[l]) = 1 /\ hand'[l] = <<>> /\ queue'[l] = queue[l]
    OBVIOUS
  <2>2. Chan[l] = hand[l] \o queue[l] /\ Chan'[l] = hand'[l] \o queue'[l]
    BY DEF Chan
  <2>3. <<>> \o queue[l] = queue[l]
    BY <2>1, ConcatEmptySeq
  <2>4. hand[l] \o queue[l] # <<>> /\ Tail(hand[l] \o queue[l]) = queue[l]
    <3> HIDE DEF IInv, TypeOK
    <3>1. QED
      BY <2>1, StoreStep
  <2>5. QED
    BY <2>1, <2>2, <2>3, <2>4
<1>3. Chan' = [l \in Loggers |-> IF l \in S THEN Tail(Chan[l]) ELSE Chan[l]]
  <2>1. Chan' = [l \in Loggers |-> Chan'[l]]
    BY DEF Chan
  <2>2. \A l \in Loggers : Chan'[l] = IF l \in S THEN Tail(Chan[l]) ELSE Chan[l]
    BY <1>2
  <2>3. QED
    BY <2>1, <2>2
<1>4. S \in SUBSET MayLose' /\ \A l \in S : Chan[l] # <<>>
  BY <1>1, <1>2
<1>5. QED
  BY <1>1, <1>3, <1>4 DEF Stream!Lose

\* At the start nothing has been made, and no record is on its way.
LEMMA StreamInit == Init => Stream!Init
<1> SUFFICES ASSUME Init PROVE Stream!Init
  OBVIOUS
<1>1. <<>> \in Seq(Nat) /\ <<>> \o <<>> = <<>>
  BY ConcatEmptySeq
<1>2. Chan = [l \in Loggers |-> <<>>]
  BY <1>1 DEF Init, Chan
<1>3. MayLose \in SUBSET Loggers
  BY DEF Init, MayLose
<1>4. QED
  BY <1>2, <1>3 DEF Init, Stream!Init

\* Every step of the loggers is a step of the stream, or none.
LEMMA StreamNext == IInv /\ IInv' /\ [Next]_vars => [Stream!Next]_(Stream!vars)
<1> SUFFICES ASSUME IInv, IInv', [Next]_vars PROVE [Stream!Next]_(Stream!vars)
  OBVIOUS
<1> DEFINE Quiet == UNCHANGED <<made, queue, hand, stored, outage>>
<1>1. ASSUME Quiet, cancelled \subseteq cancelled' PROVE Stream!Next
  <2>1. MayLose \subseteq MayLose' /\ {} \in SUBSET MayLose'
    BY <1>1 DEF MayLose, IInv, TypeOK
  <2>2. \A l \in Loggers : Chan'[l] = Chan[l]
    BY <1>1 DEF Chan
  <2>3. Stream!Lose
    <3> DEFINE S == {}
    <3>1. S \in SUBSET MayLose' /\ \A l \in Loggers : l \notin S
      OBVIOUS
    <3> HIDE DEF S
    <3>2. QED
      BY <1>1, <2>1, <2>2, <3>1, LoseStep
  <2>4. QED
    BY <2>3 DEF Stream!Next
<1>2. ASSUME NEW l \in Loggers, EnqueData(l) PROVE Stream!Next
  <2>1. /\ made' = [made EXCEPT ![l] = @ + 1]
        /\ UNCHANGED <<stored, hand, outage, cancelled>>
        /\ queue' = [queue EXCEPT ![l] = Append(@, made[l] + 1)]
    BY <1>2 DEF EnqueData, store
  <2>2. hand[l] \o Append(queue[l], made[l] + 1) = Append(hand[l] \o queue[l], made[l] + 1)
    <3>1. hand[l] \in Seq(Nat) /\ queue[l] \in Seq(Nat) /\ made[l] + 1 \in Nat
      BY DEF IInv, TypeOK
    <3>2. QED
      BY <3>1, MakeStep
  <2>3. Chan' = [Chan EXCEPT ![l] = Append(@, made[l] + 1)]
    BY <2>1, <2>2 DEF Chan, IInv, TypeOK
  <2>4. MayLose' = MayLose
    BY <2>1 DEF MayLose
  <2>5. Stream!Make(l)
    BY <2>1, <2>3, <2>4 DEF Stream!Make
  <2>6. QED
    BY <2>5 DEF Stream!Next
<1>3. ASSUME NEW l \in Loggers, Take(l) PROVE UNCHANGED Stream!vars
  <2>0. queue[l] \in Seq(Nat) /\ left[l] \in Nat
    BY DEF IInv, TypeOK
  <2>a. pc[l] = "take" /\ left[l] > 0
    BY <1>3 DEF Take, MoreToSend
  <2>b. left[l] <= Len(queue[l]) /\ hand[l] = <<>>
    BY <2>a DEF IInv, LoggerInv, LoggerOK
  <2>c. Len(queue[l]) # 0
    BY <2>0, <2>a, <2>b
  <2>1. queue[l] # <<>> /\ hand[l] = <<>> /\ queue[l] \in Seq(Nat)
    BY <2>0, <2>b, <2>c
  <2>2. <<Head(queue[l])>> \o Tail(queue[l]) = queue[l] /\ <<>> \o queue[l] = queue[l]
    BY <2>1, HeadAndTail, ConcatEmptySeq
  <2>3. /\ hand' = [hand EXCEPT ![l] = <<Head(queue[l])>>]
        /\ queue' = [queue EXCEPT ![l] = Tail(@)]
        /\ UNCHANGED <<made, stored, outage, cancelled>>
    BY <1>3, <2>1 DEF Take, Logger
  <2>4. \A k \in Loggers : hand'[k] \o queue'[k] = hand[k] \o queue[k]
    BY <2>1, <2>2, <2>3 DEF IInv, TypeOK
  <2>5. Chan' = Chan
    BY <2>4 DEF Chan
  <2>6. QED
    BY <2>3, <2>5 DEF Stream!vars, MayLose
<1>4. ASSUME NEW l \in Loggers, Write(l) PROVE Stream!Next
  <2>1. CASE hand' = hand
    BY <1>1, <1>4, <2>1 DEF Write, Logger
  <2>2. CASE hand' # hand
    <3>1. /\ hand' = [hand EXCEPT ![l] = <<>>] /\ conn[l] = "absent"
          /\ UNCHANGED <<made, stored, outage, cancelled, queue>>
      BY <1>4, <2>2 DEF Write, Logger
    <3>2. outage /\ MayLose' = Loggers /\ MayLose = Loggers
      BY <3>1 DEF IInv, LoggerInv, LoggerOK, MayLose, TypeOK
    <3>3. Len(hand[l]) = 1 /\ hand'[l] = <<>>
      <4>1. hand[l] \in Seq(Nat) /\ hand'[l] = <<>> /\ hand[l] # <<>>
        BY <2>2, <3>1 DEF IInv, TypeOK
      <4>2. Len(hand[l]) \in Nat \ {0} /\ Len(hand[l]) <= 1
        BY <4>1, EmptySeq DEF IInv, LoggerInv, LoggerOK
      <4>3. QED
        BY <4>1, <4>2
    <3>4. \A k \in Loggers : IF k \in {l}
            THEN Len(hand[k]) = 1 /\ hand'[k] = <<>> /\ queue'[k] = queue[k]
            ELSE Chan'[k] = Chan[k]
      BY <3>1, <3>3 DEF Chan, IInv, TypeOK
    <3>5. Stream!Lose
      BY <3>1, <3>2, <3>4, LoseStep
    <3>6. QED
      BY <3>5 DEF Stream!Next
  <2>3. QED
    BY <2>1, <2>2
<1>5. ASSUME NEW l \in Loggers, hand[l] # <<>> PROVE Len(hand[l]) = 1
  <2>1. hand[l] \in Seq(Nat)
    BY DEF IInv, TypeOK
  <2>2. Len(hand[l]) \in Nat \ {0} /\ Len(hand[l]) <= 1
    BY <1>5, <2>1, EmptySeq DEF IInv, LoggerInv, LoggerOK
  <2>3. \A n \in Nat \ {0} : n <= 1 => n = 1
    OBVIOUS
  <2>4. QED
    BY <2>2, <2>3, Zenon
<1>6. ASSUME NEW l \in Loggers, Cancel(l) PROVE Stream!Next
  <2>1. /\ UNCHANGED <<made, queue, stored, outage, cancelled>> /\ l \in cancelled
        /\ hand' = [hand EXCEPT ![l] = IF pc[l] = "write" THEN <<>> ELSE @]
    BY <1>6 DEF Cancel, Logger
  <2>2. CASE hand' = hand
    BY <1>1, <2>1, <2>2
  <2>3. CASE hand' # hand
    <3>1. hand' = [hand EXCEPT ![l] = <<>>] /\ hand[l] # <<>> /\ hand'[l] = <<>>
      BY <2>1, <2>3 DEF IInv, TypeOK
    <3>2. {l} \in SUBSET MayLose' /\ MayLose' = MayLose
      BY <2>1 DEF MayLose
    <3>3. \A k \in Loggers : IF k \in {l}
            THEN Len(hand[k]) = 1 /\ hand'[k] = <<>> /\ queue'[k] = queue[k]
            ELSE Chan'[k] = Chan[k]
      BY <1>5, <2>1, <3>1 DEF Chan, IInv, TypeOK
    <3>4. Stream!Lose
      BY <2>1, <3>2, <3>3, LoseStep
    <3>5. QED
      BY <3>4 DEF Stream!Next
  <2>4. QED
    BY <2>2, <2>3
<1>7. ASSUME NEW l \in Loggers, StoreRecord(l) PROVE Stream!Next
  <2>1. /\ UNCHANGED <<made, queue, outage, cancelled>>
        /\ stored' = [stored EXCEPT ![l] = @ \o hand[l]]
        /\ hand' = [hand EXCEPT ![l] = <<>>] /\ hand[l] # <<>>
    BY <1>7 DEF StoreRecord, GatewayOnly, Sent
  <2>2. /\ hand[l] \in Seq(Nat) /\ queue[l] \in Seq(Nat) /\ stored[l] \in Seq(Nat)
        /\ Len(hand[l]) = 1
    BY <1>5, <2>1 DEF IInv, TypeOK
  <2>3. /\ hand[l] \o queue[l] # <<>> /\ Tail(hand[l] \o queue[l]) = queue[l]
        /\ stored[l] \o hand[l] = Append(stored[l], Head(hand[l] \o queue[l]))
    BY <2>2, StoreStep
  <2>4. <<>> \o queue[l] = queue[l]
    BY <2>2, ConcatEmptySeq
  <2>5. Chan' = [Chan EXCEPT ![l] = Tail(@)]
    BY <2>1, <2>3, <2>4 DEF Chan, IInv, TypeOK
  <2>6. stored' = [stored EXCEPT ![l] = Append(@, Head(Chan[l]))] /\ Chan[l] # <<>>
    BY <2>1, <2>3 DEF Chan, IInv, TypeOK
  <2>7. MayLose' = MayLose
    BY <2>1 DEF MayLose
  <2>8. Stream!Store(l)
    BY <2>1, <2>5, <2>6, <2>7 DEF Stream!Store
  <2>9. QED
    BY <2>8 DEF Stream!Next
<1>8. ASSUME NEW l \in Loggers, RefuseRecord(l) PROVE Stream!Next
  <2>1. /\ UNCHANGED <<made, queue, stored, cancelled>> /\ outage'
        /\ hand' = [hand EXCEPT ![l] = <<>>] /\ hand[l] # <<>> /\ hand'[l] = <<>>
    BY <1>8 DEF RefuseRecord, GatewayOnly, Sent, IInv, TypeOK
  <2>2. MayLose' = Loggers /\ MayLose \subseteq Loggers
    BY <2>1 DEF MayLose, IInv, TypeOK
  <2>3. \A k \in Loggers : IF k \in {l}
          THEN Len(hand[k]) = 1 /\ hand'[k] = <<>> /\ queue'[k] = queue[k]
          ELSE Chan'[k] = Chan[k]
    BY <1>5, <2>1 DEF Chan, IInv, TypeOK
  <2>4. {l} \in SUBSET MayLose' /\ MayLose \subseteq MayLose'
    BY <2>2
  <2>5. Stream!Lose
    BY <2>1, <2>3, <2>4, LoseStep
  <2>6. QED
    BY <2>5 DEF Stream!Next
<1>9. ASSUME GatewayStops PROVE Stream!Next
  <2> DEFINE S == {l \in Loggers : Sent(l)}
  <2>1. /\ UNCHANGED <<made, queue, stored, cancelled>> /\ outage'
        /\ hand' = [l \in Loggers |-> IF Sent(l) THEN <<>> ELSE hand[l]]
    BY <1>9 DEF GatewayStops, GatewayOnly
  <2>2. MayLose' = Loggers /\ MayLose \subseteq Loggers
    BY <2>1 DEF MayLose, IInv, TypeOK
  <2>3. \A k \in Loggers : IF k \in S
          THEN Len(hand[k]) = 1 /\ hand'[k] = <<>> /\ queue'[k] = queue[k]
          ELSE Chan'[k] = Chan[k]
    <3> SUFFICES ASSUME NEW k \in Loggers
                 PROVE  IF k \in S
                        THEN Len(hand[k]) = 1 /\ hand'[k] = <<>> /\ queue'[k] = queue[k]
                        ELSE Chan'[k] = Chan[k]
      OBVIOUS
    <3>1. CASE Sent(k)
      <4>1. hand[k] # <<>>
        BY <3>1 DEF Sent
      <4>2. QED
        BY <1>5, <2>1, <3>1, <4>1
    <3>2. CASE ~Sent(k)
      BY <2>1, <3>2 DEF Chan
    <3>3. QED
      BY <3>1, <3>2
  <2>4. S \in SUBSET MayLose' /\ MayLose \subseteq MayLose'
    BY <2>2
  <2> HIDE DEF S
  <2>5. Stream!Lose
    BY <2>1, <2>3, <2>4, LoseStep
  <2>6. QED
    BY <2>5 DEF Stream!Next
<1>10. ASSUME MainNext PROVE Stream!Next
  <2>1. Quiet /\ cancelled \subseteq cancelled'
    BY <1>10 DEF MainNext, CreateLogger, CreateFails, ServerEnds, CleanUp, Destroy,
                 Joined, End, MainOnly, store
  <2>2. QED
    BY <1>1, <2>1
<1>11. ASSUME NEW l \in Loggers,
              \/ Check(l) \/ Wake(l) \/ Connect(l)
              \/ TransactionDone(l) \/ ReadAnswer(l) \/ Close(l)
       PROVE  Stream!Next
  <2>1. Quiet /\ cancelled' = cancelled
    BY <1>11 DEF Check, Wake, Connect, TransactionDone, ReadAnswer, Close, Logger
  <2>2. QED
    BY <1>1, <2>1
<1>12. ASSUME GatewayStarts PROVE Stream!Next
  <2>1. Quiet /\ cancelled' = cancelled
    BY <1>12 DEF GatewayStarts, GatewayOnly
  <2>2. QED
    BY <1>1, <2>1
<1>13. ASSUME UNCHANGED vars PROVE UNCHANGED Stream!vars
  BY <1>13 DEF vars, Stream!vars, Chan, MayLose
<1>14. QED
  BY <1>2, <1>3, <1>4, <1>6, <1>7, <1>8, <1>9, <1>10, <1>11, <1>12, <1>13
     DEF Next, GatewayNext, LoggerNext

\* The two logger threads implement the stream: what is stored for each of them
\* are its records in their order, with none left out that need not be.
THEOREM LoggersImplementStream == Spec => StoredInOrder
<1>1. QED
  BY StreamInit, StreamNext, Invariance, PTL DEF Spec, StoredInOrder, Stream!Spec
=============================================================================
