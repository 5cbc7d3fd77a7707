------------------------- MODULE StationLink_proofs -------------------------
(* Proofs about StationLink, for any modes, faults, commands and period.     *)
EXTENDS StationLink, TLAPS

(***************************************************************************)
(* What the properties about the mode and about success need: no answer    *)
(* comes after its timeout, a packet of the traffic is read before the     *)
(* next one, and the panel does not send its longest exchange, a motor     *)
(* command, into an attempt to capture the controller.                     *)
(***************************************************************************)
Disciplined == ~Late /\ MaxLine <= 1 /\ (Orderly \/ ~MotorMoves)

\* The daemon listens; the daemon talks to a station that it has captured.
Listens == pc \in {"listen", "motorAck", "motorReq", "motorInfo"}
Talks == pc \in {"password", "take", "command", "info", "change", "data"}

\* Every packet of a line that shows a mode shows mode m.
Shows(packets, m) ==
  \A i \in DOMAIN packets : packets[i].cmd \in {"INFO", "ALL"} => packets[i].mode = m

\* Packets show the mode that the station has, and a data packet is the last one of
\* an exchange. What is left over from one attempt to capture the controller is never
\* enough for the next one: with the controller captured, the line holds at most the
\* answer to the last request.
LineInv ==
  /\ Shows(line, mode)
  /\ Listens => \A i \in DOMAIN line : line[i].cmd = "INFO" => i = Len(line)
  /\ pc = "capture" => Len(line) <= 1
  /\ pc = "capturing" => Len(line) <= 1 \/ (Len(line) = 2 /\ line[2].cmd = "ACK")
  /\ pc = "passwords" =>
       /\ Len(line) <= 2
       /\ \A i \in DOMAIN line : line[i].cmd = "PASSWORDS" => captured /\ i = Len(line)
  /\ Talks => captured /\ Len(line) <= 1
  /\ pc = "take" => line = <<>>

\* The answer to a command that the station has not accepted is a refusal.
AcceptInv ==
  /\ pc = "command" /\ ~accepted => line \in {<<>>, <<Ack(1)>>}
  /\ pc = "info" => accepted

\* How far the cycle is, and what the daemon knows outside of it.
ModeInv ==
  /\ pc \in {"change", "data"} => step \in 1 .. LastStep /\ ~Skipped(step)
  /\ pc = "data" => mode = Target(step)
  /\ known /\ pc \notin {"change", "data", "crashed"} =>
       mode = writeMode \/ (writeMode = 1 /\ mode = 0)

LinkInv == LineInv /\ AcceptInv /\ ModeInv

\* What the last event about the motor says, as long as clients only set values.
MotorInv ==
  Commands \subseteq {"set"} =>
    /\ pc # "info"
    /\ pc = "command" => cur = "set"
    /\ lastMotor \in {Unknown, motorStatus}

-----------------------------------------------------------------------------
(* Types.                                                                    *)

\* The packets that the station and the panel send are packets.
LEMMA PacketTypes ==
  ASSUME TypeOK
  PROVE  /\ Info \in Packets /\ [Info EXCEPT !.motor = ~motor] \in Packets
         /\ \A m \in Modes : AllSettings(m) \in Packets
         /\ \A c \in {0, 1, Captured} : Ack(c) \in Packets
         /\ Passwords \in Packets /\ MotorRequest \in Packets /\ InfoRequest \in Packets
  BY DEF TypeOK, Packets, Info, AllSettings, Ack, Passwords, MotorRequest, InfoRequest, Modes

\* A packet that is a data packet has the fields of one.
LEMMA InfoFields ==
  ASSUME TypeOK, Is("INFO")
  PROVE  LET p == Head(line)
         IN  /\ p \in Packets /\ p.mode \in Modes /\ p.motor \in BOOLEAN /\ p.auto \in BOOLEAN
             /\ p.fault \in Faults \cup {0} /\ ErrorByte(p) \in Faults \cup {0}
  BY DEF TypeOK, Packets, Is, ErrorByte, Captured

\* Appending to the line, and taking off its head.
LEMMA LineTypes ==
  ASSUME TypeOK
  PROVE  /\ \A p \in Packets, rest \in Seq(Packets) : Append(rest, p) \in Seq(Packets)
         /\ line # <<>> => Head(line) \in Packets /\ Tail(line) \in Seq(Packets)
         /\ line \in Seq(Packets) /\ <<>> \in Seq(Packets)
  BY DEF TypeOK

\* The mode of a step of the cycle, and the tag a packet gets, fit their types.
LEMMA ModeTypes ==
  ASSUME TypeOK
  PROVE  /\ \A i \in Nat : Target(i) \in Modes
         /\ \A t, m \in Modes : SetCmdMode(t, m) \in 0 .. 7
<1>1. \A i \in Nat : Target(i) \in Modes
  BY DEF TypeOK, Target, Modes
<1>2. \A t, m \in Modes : SetCmdMode(t, m) \in 0 .. 7
  BY DEF SetCmdMode
<1>3. QED
  BY <1>1, <1>2

\* The counter of data packets is reset before it gets past its bound.
LEMMA PeriodTypes ==
  ASSUME TypeOK, ~PeriodOver
  PROVE  period + 1 \in 0 .. 2 * Period - 1
  BY BoundsAssumption DEF TypeOK, PeriodOver

\* Events about the motor and about faults.
LEMMA EventTypes ==
  ASSUME TypeOK, Is("INFO")
  PROVE  LET p == Head(line)
         IN  /\ MotorChange(p) \subseteq Reports /\ MotorChangeByHand(p) \subseteq Reports
             /\ FaultEvent(p) \subseteq Reports
             /\ \A t \in 0 .. 7 : DataEvent(p, t) \in Reports
<1> DEFINE p == Head(line)
<1>1. /\ p.mode \in Modes /\ p.motor \in BOOLEAN
      /\ p.fault \in Faults \cup {0} /\ ErrorByte(p) \in Faults \cup {0}
  BY InfoFields
<1> HIDE DEF p
<1>2. MotorEvent(p.motor) \in Reports
  BY <1>1 DEF MotorEvent, Reports
<1>3. [report |-> "fault", code |-> ErrorByte(p), real |-> p.fault] \in Reports
  BY <1>1 DEF Reports
<1>4. \A t \in 0 .. 7 : DataEvent(p, t) \in Reports
  BY <1>1 DEF DataEvent, Reports
<1>5. QED
  BY <1>2, <1>3, <1>4 DEF MotorChange, MotorChangeByHand, FaultEvent, p

\* The events a step has about the motor are none or one.
LEMMA Remembered ==
  ASSUME NEW events, RememberMotor(events)
  PROVE  /\ events = {} => lastMotor' = lastMotor
         /\ \A on : events = {MotorEvent(on)} => lastMotor' = on
<1>1. ASSUME NEW on, events = {MotorEvent(on)} PROVE lastMotor' = on
  <2>1. (CHOOSE e \in events : e.report = "motor") = MotorEvent(on)
    BY <1>1 DEF MotorEvent
  <2>2. QED
    BY <1>1, <2>1 DEF RememberMotor, MotorEvent
<1>2. QED
  BY <1>1 DEF RememberMotor

\* Initially every variable has its type.
LEMMA InitTypes == Init => TypeOK
<1> SUFFICES ASSUME Init PROVE TypeOK
  OBVIOUS
<1>1. mode \in Modes /\ writeMode \in Modes /\ period \in 0 .. 2 * Period - 1
  BY ModesAssumption, BoundsAssumption DEF Init, Modes
<1>2. line \in Seq(Packets) /\ event \subseteq Reports
  BY DEF Init
<1>3. /\ {mode, writeMode} \subseteq Modes /\ pc \in Pcs /\ step \in 0 .. 7
      /\ fault \in Faults \cup {0} /\ faultCode \in Faults \cup {0, -1}
      /\ {motorStatus, lastMotor} \subseteq BOOLEAN \cup {Unknown}
      /\ {pending, cur} \subseteq Commands \cup {Unknown}
  BY <1>1 DEF Init, Pcs
<1>4. {auto, motor, captured, isAutoMode, inFault, cycleDue, accepted, known, window}
        \subseteq BOOLEAN
  BY DEF Init
<1>5. QED
  BY <1>1, <1>2, <1>3, <1>4 DEF TypeOK

\* The environment keeps the types.
LEMMA EnvironmentTypes ==
  ASSUME TypeOK, Environment
  PROVE  TypeOK'
<1> USE DEF EnvQuiet, Env, station, view
<1>1. CASE Report
  BY <1>1, PacketTypes, LineTypes DEF Report, TypeOK
<1>2. CASE OperatorMode
  BY <1>2, PacketTypes, LineTypes, ModesAssumption DEF OperatorMode, TypeOK
<1>3. CASE OperatorAuto
  BY <1>3 DEF OperatorAuto, TypeOK
<1>4. CASE OperatorMotor
  <2>1. line' \in Seq(Packets)
    <3>1. line = <<>>
      BY <1>4 DEF OperatorMotor
    <3>2. \A a, b, c, d \in Packets :
            /\ <<>> \o <<a, b, c, d>> \in Seq(Packets)
            /\ <<>> \o <<a, b>> \in Seq(Packets)
      OBVIOUS
    <3>3. \/ line' = <<>> \o <<MotorRequest, Ack(0), InfoRequest, [Info EXCEPT !.motor = ~motor]>>
          \/ line' = <<>> \o <<MotorRequest, Ack(1)>>
      BY <1>4, <3>1 DEF OperatorMotor
    <3>4. /\ MotorRequest \in Packets /\ Ack(0) \in Packets /\ Ack(1) \in Packets
          /\ InfoRequest \in Packets /\ [Info EXCEPT !.motor = ~motor] \in Packets
      BY PacketTypes
    <3>5. CASE line' = <<>> \o <<MotorRequest, Ack(0), InfoRequest, [Info EXCEPT !.motor = ~motor]>>
      BY <3>2, <3>4, <3>5
    <3>6. CASE line' = <<>> \o <<MotorRequest, Ack(1)>>
      BY <3>2, <3>4, <3>6
    <3>7. QED
      BY <3>3, <3>5, <3>6
  <2>2. motor' \in BOOLEAN
    BY <1>4 DEF OperatorMotor, TypeOK
  <2>3. QED
    BY <1>4, <2>1, <2>2 DEF OperatorMotor, TypeOK
<1>5. CASE StationMotor \/ StationFault \/ Release
  BY <1>5 DEF StationMotor, StationFault, Release, TypeOK
<1>6. CASE Lose
  BY <1>6 DEF Lose, TypeOK
<1>7. CASE Submit \/ Tick
  BY <1>7 DEF Submit, Tick, TypeOK
<1>8. QED
  BY <1>1, <1>2, <1>3, <1>4, <1>5, <1>6, <1>7 DEF Environment

\* So does listening.
LEMMA ListeningTypes ==
  ASSUME TypeOK, Listening
  PROVE  TypeOK'
<1> USE DEF Same, station, work, view
<1>1. CASE HearInfo
  <2> DEFINE p == Head(line)
  <2>1. /\ p.motor \in BOOLEAN /\ p.auto \in BOOLEAN /\ ErrorByte(p) \in Faults \cup {0}
    BY <1>1, InfoFields DEF HearInfo
  <2>2. lastMotor' \in {lastMotor, p.motor}
    BY <1>1, Remembered DEF HearInfo, MotorChange
  <2>3. event' \subseteq Reports
    BY <1>1, EventTypes DEF HearInfo, TypeOK, Modes
  <2>4. inFault' \in BOOLEAN /\ faultCode' \in Faults \cup {0, -1}
    <3> HIDE DEF p
    <3>1. \/ UNCHANGED <<inFault, faultCode>>
          \/ inFault' = (ErrorByte(p) > 0) /\ faultCode' = ErrorByte(p)
      BY <1>1 DEF HearInfo, CheckAndReportFault, p
    <3>2. (ErrorByte(p) > 0) \in BOOLEAN
      OBVIOUS
    <3>3. inFault' \in BOOLEAN
      BY <3>1, <3>2 DEF TypeOK
    <3>4. QED
      BY <2>1, <3>1, <3>3 DEF TypeOK
  <2>5. period' \in 0 .. 2 * Period - 1
    BY <1>1, PeriodTypes, BoundsAssumption DEF HearInfo, TypeOK
  <2>6. line' \in Seq(Packets)
    BY <1>1, LineTypes DEF HearInfo, Is
  <2>7. pc' \in Pcs /\ window' \in BOOLEAN
    BY <1>1 DEF HearInfo, TypeOK, Pcs
  <2>8. QED
    <3> HIDE DEF p
    <3>1. QED
      BY <1>1, <2>1, <2>2, <2>3, <2>4, <2>5, <2>6, <2>7 DEF HearInfo, TypeOK, p
<1>2. CASE HearOther
  BY <1>2, LineTypes DEF HearOther, TypeOK
<1>3. CASE FollowMotorCmd
  BY <1>3, LineTypes DEF FollowMotorCmd, MotorSteps, MotorNext, Is, TypeOK, Pcs
<1>4. CASE MotorInfo
  <2>1. Head(line).motor \in BOOLEAN /\ event' \subseteq Reports
    BY <1>4, InfoFields, EventTypes DEF MotorInfo
  <2>2. lastMotor' \in {lastMotor, Head(line).motor}
    BY <1>4, Remembered DEF MotorInfo, MotorChangeByHand
  <2>3. QED
    BY <1>4, <2>1, <2>2, LineTypes DEF MotorInfo, Is, TypeOK, Pcs
<1>5. CASE MotorCmdEnds
  BY <1>5, LineTypes DEF MotorCmdEnds, TypeOK, Pcs
<1>6. QED
  BY <1>1, <1>2, <1>3, <1>4, <1>5 DEF Listening

\* So does the capture.
LEMMA CapturingTypes ==
  ASSUME TypeOK, Capturing
  PROVE  TypeOK'
<1> USE PacketTypes, LineTypes DEF Same, station, work, view, Ask, Pcs
<1>1. CASE CaptureDevice
  BY <1>1 DEF CaptureDevice, TypeOK
<1>2. CASE GetPasswords
  BY <1>2 DEF GetPasswords, TypeOK
<1>3. CASE SetPassword
  BY <1>3 DEF SetPassword, Is, TypeOK
<1>4. CASE PasswordIsSet
  <2>1. Head(line).mode \in Modes
    BY <1>4 DEF PasswordIsSet, Is, Packets, Captured
  <2>2. QED
    BY <1>4, <2>1 DEF PasswordIsSet, Is, TypeOK
<1>5. CASE CaptureFails
  BY <1>5 DEF CaptureFails, NoAnswer, TypeOK
<1>6. QED
  BY <1>1, <1>2, <1>3, <1>4, <1>5 DEF Capturing

\* So do the commands.
LEMMA CommandingTypes ==
  ASSUME TypeOK, Commanding
  PROVE  TypeOK'
<1> USE PacketTypes, LineTypes DEF Same, station, work, view, Ask, Pcs
<1>1. CASE TakeCommand
  BY <1>1, UnknownAssumption DEF TakeCommand, Accept, NotAccepted, TypeOK
<1>2. ASSUME NEW ok \in BOOLEAN, NEW events \in SUBSET Reports, Answer(ok, events)
      PROVE  event' \subseteq Reports
  BY <1>2 DEF Answer, TypeOK, Reports
<1>3. CASE SettingReply
  BY <1>2, <1>3, Remembered DEF SettingReply, Answer, TypeOK
<1>4. CASE MotorReply
  BY <1>2, <1>4, Remembered DEF MotorReply, Answer, TypeOK
<1>5. CASE InfoReply
  <2> DEFINE ok == Head(line).cmd = "INFO" /\ writeMode = 0
             events == IF ok /\ cur # "rotate" THEN {MotorEvent(cur = "on")} ELSE {}
  <2>1. Answer(ok, events)
    BY <1>5 DEF InfoReply
  <2>2. motorStatus' \in BOOLEAN \cup {Unknown}
    BY <1>5, InfoFields DEF InfoReply, Is, TypeOK
  <2>3. events \subseteq Reports
    <3>1. \A b \in BOOLEAN : MotorEvent(b) \in Reports
      BY DEF MotorEvent, Reports
    <3>2. (cur = "on") \in BOOLEAN
      OBVIOUS
    <3>3. QED
      BY <3>1, <3>2
  <2>4. lastMotor' \in BOOLEAN \cup {Unknown}
    BY <2>1, Remembered DEF Answer, TypeOK
  <2>5. QED
    BY <1>2, <1>5, <2>1, <2>2, <2>3, <2>4 DEF InfoReply, Answer, TypeOK
<1>6. CASE CommandUnanswered
  BY <1>2, <1>6, Remembered DEF CommandUnanswered, NoAnswer, Answer, TypeOK
<1>7. QED
  BY <1>1, <1>3, <1>4, <1>5, <1>6 DEF Commanding

\* The next mode of the cycle, or its end.
LEMMA NextModeTypes ==
  ASSUME TypeOK, NEW i \in 1 .. 8, NEW rest \in Seq(Packets), NextMode(i, rest)
  PROVE  /\ mode' \in Modes /\ step' \in 0 .. 7 /\ cycleDue' \in BOOLEAN
         /\ line' \in Seq(Packets) /\ pc' \in Pcs
<1>1. CASE EndCycle /\ line' = rest /\ UNCHANGED mode
  <2>1. mode' \in Modes /\ line' \in Seq(Packets)
    BY <1>1 DEF TypeOK
  <2>2. cycleDue' = FALSE /\ step' = 0 /\ pc' = "listen"
    BY <1>1 DEF EndCycle
  <2>3. cycleDue' \in BOOLEAN
    BY <2>2
  <2>4. step' \in 0 .. 7 /\ pc' \in Pcs
    BY <2>2 DEF Pcs
  <2>5. QED
    BY <2>1, <2>3, <2>4
<1>2. ASSUME NEW j \in 1 .. 7, ChangeMode(j, rest)
      PROVE  /\ mode' \in Modes /\ step' \in 0 .. 7 /\ cycleDue' \in BOOLEAN
             /\ line' \in Seq(Packets) /\ pc' \in Pcs
  <2>1. Target(j) \in Modes
    BY ModeTypes
  <2>2. AllSettings(Target(j)) \in Packets /\ Ack(1) \in Packets
    BY <2>1, PacketTypes
  <2>3. line' \in Seq(Packets)
    BY <1>2, <2>2 DEF ChangeMode
  <2>4. mode' \in Modes
    BY <1>2, <2>1 DEF ChangeMode, TypeOK
  <2>5. cycleDue' \in BOOLEAN /\ step' \in 0 .. 7 /\ pc' \in Pcs
    BY <1>2 DEF ChangeMode, TypeOK, Pcs
  <2>6. QED
    BY <2>3, <2>4, <2>5
<1>3. \A j \in i .. 7 : j \in 1 .. 7
  OBVIOUS
<1>4. QED
  BY <1>1, <1>2, <1>3 DEF NextMode, LastStep

\* So does the cycle.
LEMMA CyclingTypes ==
  ASSUME TypeOK, Cycling
  PROVE  TypeOK'
<1> USE LineTypes DEF Same, station, work, view, Pcs
<1>1. CASE StartCycle
  <2>1. /\ mode' \in Modes /\ step' \in 0 .. 7 /\ cycleDue' \in BOOLEAN
        /\ line' \in Seq(Packets) /\ pc' \in Pcs
    BY <1>1, NextModeTypes DEF StartCycle
  <2>2. QED
    BY <1>1, <2>1 DEF StartCycle, TypeOK
<1>2. CASE NoCycle \/ Crash
  BY <1>2 DEF NoCycle, Crash, NoAnswer, TypeOK
<1>3. CASE RequestCurrentData
  BY <1>3, PacketTypes DEF RequestCurrentData, ModeChanged, Is, Ask, TypeOK
<1>4. CASE ChangeFails
  <2>1. cycleDue' = FALSE /\ step' = 0 /\ pc' = "listen" /\ known' = FALSE /\ event' = {}
    BY <1>4 DEF ChangeFails, EndCycle
  <2>2. line' \in Seq(Packets)
    BY <1>4 DEF ChangeFails, NoAnswer
  <2>3. cycleDue' \in BOOLEAN /\ known' \in BOOLEAN
    BY <2>1
  <2>4. step' \in 0 .. 7 /\ event' \subseteq Reports
    BY <2>1
  <2>5. QED
    BY <1>4, <2>1, <2>2, <2>3, <2>4 DEF ChangeFails, TypeOK
<1>5. CASE ReportDataPacket
  <2>1. step + 1 \in 1 .. 8 /\ step \in Nat /\ line # <<>>
    BY <1>5 DEF ReportDataPacket, TypeOK
  <2>2. /\ mode' \in Modes /\ step' \in 0 .. 7 /\ cycleDue' \in BOOLEAN
        /\ line' \in Seq(Packets) /\ pc' \in Pcs
    BY <1>5, <2>1, NextModeTypes DEF ReportDataPacket
  <2>3. event' \subseteq Reports
    <3>1. SetCmdMode(writeMode, Target(step)) \in 0 .. 7
      BY <2>1, ModeTypes DEF TypeOK
    <3>2. QED
      BY <1>5, <3>1, EventTypes DEF ReportDataPacket
  <2>4. QED
    BY <1>5, <2>2, <2>3 DEF ReportDataPacket, TypeOK
<1>6. QED
  BY <1>1, <1>2, <1>3, <1>4, <1>5 DEF Cycling

\* The types are kept by every step.
LEMMA NextTypes == TypeOK /\ [Next]_vars => TypeOK'
<1>1. TypeOK /\ UNCHANGED vars => TypeOK'
  BY DEF TypeOK, vars, station, view, work
<1>2. QED
  BY <1>1, EnvironmentTypes, ListeningTypes, CapturingTypes, CommandingTypes, CyclingTypes
  DEF Next, Processor

\* Every variable of the protocol keeps its type, whatever the station, its operator
\* and the line do; the mode tags fit the three bits of SetCmdMode.
THEOREM TypeCorrect == Spec => []TypeOK
  BY InitTypes, NextTypes, PTL DEF Spec

-----------------------------------------------------------------------------
(* The motor. No assumption about the line: whatever is lost, late or refused, *)
(* what the daemon remembers of the motor and what it reports change together. *)

\* Listening changes both or neither.
LEMMA ListeningMotor ==
  ASSUME TypeOK, MotorInv, Listening
  PROVE  MotorInv'
<1> SUFFICES ASSUME Commands \subseteq {"set"} PROVE MotorInv'
  BY DEF MotorInv
<1>1. pc # "info" /\ (pc = "command" => cur = "set") /\ lastMotor \in {Unknown, motorStatus}
  BY DEF MotorInv
<1>2. pc' \notin {"info", "command"}
  BY DEF Listening, HearInfo, HearOther, FollowMotorCmd, MotorInfo, MotorCmdEnds, MotorNext,
         MotorSteps
<1>3. lastMotor' \in {Unknown, motorStatus'}
  <2>1. CASE HearInfo
    <3>1. RememberMotor(MotorChange(Head(line))) /\ motorStatus' = Head(line).motor
      BY <2>1 DEF HearInfo
    <3>2. CASE motorStatus \in {Unknown, Head(line).motor}
      BY <1>1, <3>1, <3>2, Remembered DEF MotorChange
    <3>3. CASE motorStatus \notin {Unknown, Head(line).motor}
      BY <3>1, <3>3, Remembered DEF MotorChange
    <3>4. QED
      BY <3>2, <3>3
  <2>2. CASE MotorInfo
    <3>1. /\ RememberMotor(MotorChangeByHand(Head(line))) /\ motorStatus' = Head(line).motor
          /\ Head(line).motor \in BOOLEAN
      BY <2>2, InfoFields DEF MotorInfo
    <3>2. CASE (motorStatus \in {Unknown, TRUE}) # Head(line).motor
      BY <3>1, <3>2, Remembered DEF MotorChangeByHand
    <3>3. CASE (motorStatus \in {Unknown, TRUE}) = Head(line).motor
      <4>1. lastMotor' = lastMotor
        BY <3>1, <3>3, Remembered DEF MotorChangeByHand
      <4>2. motorStatus = Unknown \/ motorStatus = Head(line).motor
        BY <3>1, <3>3, UnknownAssumption DEF TypeOK
      <4>3. QED
        BY <1>1, <3>1, <4>1, <4>2
    <3>4. QED
      BY <3>2, <3>3
  <2>3. CASE HearOther \/ FollowMotorCmd \/ MotorCmdEnds
    BY <1>1, <2>3 DEF HearOther, FollowMotorCmd, MotorCmdEnds, view
  <2>4. QED
    BY <2>1, <2>2, <2>3 DEF Listening
<1>4. QED
  BY <1>2, <1>3 DEF MotorInv

\* Commands that only set values report nothing about the motor.
LEMMA CommandingMotor ==
  ASSUME TypeOK, MotorInv, Commanding
  PROVE  MotorInv'
<1> SUFFICES ASSUME Commands \subseteq {"set"} PROVE MotorInv'
  BY DEF MotorInv
<1>1. pc # "info" /\ (pc = "command" => cur = "set") /\ lastMotor \in {Unknown, motorStatus}
  BY DEF MotorInv
<1>2. CASE TakeCommand
  BY <1>1, <1>2 DEF TakeCommand, TypeOK, MotorInv, view
<1>3. CASE SettingReply \/ CommandUnanswered
  <2>1. pc' = "take" /\ lastMotor' = lastMotor /\ motorStatus' = motorStatus
    BY <1>3, Remembered DEF SettingReply, CommandUnanswered, Answer, view
  <2>2. QED
    BY <1>1, <2>1 DEF MotorInv
<1>4. ~MotorReply /\ ~InfoReply
  BY <1>1 DEF MotorReply, InfoReply
<1>5. QED
  BY <1>2, <1>3, <1>4 DEF Commanding

\* The other steps do not touch what is known or reported of the motor.
LEMMA NextMotor == TypeOK /\ MotorInv /\ [Next]_vars => MotorInv'
<1> SUFFICES ASSUME TypeOK, MotorInv, [Next]_vars PROVE MotorInv'
  OBVIOUS
<1> USE DEF MotorInv, view, work
<1>1. CASE Environment
  BY <1>1 DEF Environment, Report, OperatorMode, OperatorAuto, OperatorMotor, StationMotor,
              StationFault, Release, Lose, Submit, Tick, EnvQuiet, Env
<1>2. CASE Listening \/ Commanding
  BY <1>2, ListeningMotor, CommandingMotor
<1>3. CASE Capturing
  BY <1>3 DEF Capturing, CaptureDevice, GetPasswords, SetPassword, PasswordIsSet, CaptureFails
<1>4. CASE Cycling
  BY <1>4 DEF Cycling, StartCycle, NoCycle, RequestCurrentData, ChangeFails, ReportDataPacket,
              Crash, NextMode, ChangeMode, EndCycle
<1>5. CASE UNCHANGED vars
  BY <1>5 DEF vars
<1>6. QED
  BY <1>1, <1>2, <1>3, <1>4, <1>5 DEF Next, Processor

\* As long as clients only set values, a motor status that the daemon knows is the one
\* it reported last, for every behaviour of the station, the operator and the line.
THEOREM MotorReported == Spec => []MotorIsReported
<1>1. Init => MotorInv
  BY DEF Init, MotorInv
<1>2. MotorInv => MotorIsReported
  BY DEF MotorInv, MotorIsReported
<1>3. QED
  BY <1>1, <1>2, NextMotor, TypeCorrect, PTL DEF Spec
-----------------------------------------------------------------------------
(* The line, the mode and the success of commands.                           *)

\* What a line shows, after a packet is appended, taken off or lost.
LEMMA ShowsLess ==
  ASSUME NEW packets \in Seq(Packets), NEW m, Shows(packets, m)
  PROVE  /\ packets # <<>> => Shows(Tail(packets), m)
         /\ \A p \in Packets : (p.cmd \in {"INFO", "ALL"} => p.mode = m) =>
              Shows(Append(packets, p), m)
<1>1. ASSUME packets # <<>> PROVE Shows(Tail(packets), m)
  BY <1>1 DEF Shows
<1>2. ASSUME NEW p \in Packets, p.cmd \in {"INFO", "ALL"} => p.mode = m
      PROVE  Shows(Append(packets, p), m)
  BY <1>2 DEF Shows
<1>3. QED
  BY <1>1, <1>2

\* An empty line shows every mode.
LEMMA ShowsNothing == Len(<<>>) = 0 /\ \A m : Shows(<<>>, m)
  BY DEF Shows

\* A line of one packet shows what the packet shows.
LEMMA ShowsOne ==
  \A p \in Packets : \A m :
    /\ Append(<<>>, p) = <<p>> /\ Len(Append(<<>>, p)) = 1
    /\ (p.cmd \in {"INFO", "ALL"} => p.mode = m) => Shows(Append(<<>>, p), m)
  BY DEF Shows

\* The packets of the station and the panel show its mode, if they show one.
LEMMA PacketsShow ==
  /\ Info.cmd = "INFO" /\ Info.mode = mode
  /\ [Info EXCEPT !.motor = ~motor].cmd = "INFO" /\ [Info EXCEPT !.motor = ~motor].mode = mode
  /\ \A m : AllSettings(m).cmd = "ALL" /\ AllSettings(m).mode = m
  /\ \A c : Ack(c).cmd = "ACK"
  /\ Passwords.cmd = "PASSWORDS" /\ MotorRequest.cmd = "VD" /\ InfoRequest.cmd = "REQ"
  BY DEF Info, AllSettings, Ack, Passwords, MotorRequest, InfoRequest

\* There is traffic only on an empty line, and never to a daemon that talks.
LEMMA TrafficIsAlone ==
  ASSUME TypeOK, Disciplined, LineInv, Traffic
  PROVE  line = <<>> /\ ~Talks /\ ~captured /\ (MotorMoves => Listens)
  BY BoundsAssumption DEF TypeOK, Disciplined, LineInv, Traffic, Listens

\* The first packet of the line and the rest.
LEMMA LineParts ==
  ASSUME TypeOK, line # <<>>
  PROVE  /\ Head(line) = line[1] /\ Head(line) \in Packets /\ 1 \in DOMAIN line
         /\ Len(line) \in Nat \ {0} /\ DOMAIN line = 1 .. Len(line)
         /\ Tail(line) \in Seq(Packets) /\ Len(Tail(line)) = Len(line) - 1
         /\ \A i \in DOMAIN Tail(line) : i + 1 \in DOMAIN line /\ Tail(line)[i] = line[i + 1]
         /\ Len(line) = 1 => Tail(line) = <<>>
  BY DEF TypeOK

\* Losing a packet moves the ones after it.
LEMMA LossMoves ==
  ASSUME TypeOK, Lose
  PROVE  /\ Len(line') = Len(line) - 1 /\ DOMAIN line' = 1 .. Len(line) - 1
         /\ \A k \in DOMAIN line' : \E j \in DOMAIN line :
              line'[k] = line[j] /\ (j = k \/ j = k + 1) /\ (j = Len(line) => k = Len(line'))
<1>1. PICK i \in DOMAIN line :
        line' = [j \in 1 .. Len(line) - 1 |-> IF j < i THEN line[j] ELSE line[j + 1]]
  BY DEF Lose
<1>2. Len(line') = Len(line) - 1 /\ DOMAIN line' = 1 .. Len(line) - 1
  BY <1>1 DEF TypeOK
<1>3. QED
  BY <1>1, <1>2 DEF TypeOK

\* The environment does not disturb the exchanges of the daemon.
LEMMA EnvironmentLink ==
  ASSUME TypeOK, Disciplined, LinkInv, Environment
  PROVE  LinkInv'
<1>1. CASE Report
  <2>1. line' = <<Info>> /\ line = <<>> /\ ~Talks
    BY <1>1, TrafficIsAlone DEF Report, LinkInv
  <2>2. LineInv'
    BY <1>1, <2>1, PacketsShow
    DEF LinkInv, LineInv, Shows, Report, EnvQuiet, Env, station, Listens, Talks
  <2>3. AcceptInv' /\ ModeInv'
    BY <1>1, <2>1 DEF LinkInv, AcceptInv, ModeInv, Report, EnvQuiet, Env, station, view, Talks,
                      Skipped, Target
  <2>4. QED
    BY <2>2, <2>3 DEF LinkInv
<1>2. CASE OperatorMode
  <2>1. line' = <<AllSettings(mode')>> /\ line = <<>> /\ ~Talks
    BY <1>2, TrafficIsAlone DEF OperatorMode, LinkInv
  <2>2. LineInv'
    BY <1>2, <2>1, PacketsShow
    DEF LinkInv, LineInv, Shows, OperatorMode, EnvQuiet, Env, Listens, Talks
  <2>3. AcceptInv' /\ ModeInv'
    BY <1>2, <2>1 DEF LinkInv, AcceptInv, ModeInv, OperatorMode, EnvQuiet, Env, view, Talks,
                      Skipped, Target
  <2>4. QED
    BY <2>2, <2>3 DEF LinkInv
<1>3. CASE OperatorMotor
  <2>1. line = <<>> /\ Listens
    BY <1>3, TrafficIsAlone DEF OperatorMotor, LinkInv
  <2>2. \/ line' = <<>> \o <<MotorRequest, Ack(0), InfoRequest, [Info EXCEPT !.motor = ~motor]>>
        \/ line' = <<>> \o <<MotorRequest, Ack(1)>>
    BY <1>3, <2>1 DEF OperatorMotor
  <2>3. Shows(line', mode) /\ \A i \in DOMAIN line' : line'[i].cmd = "INFO" => i = Len(line')
    <3>1. \A a, b, c, d \in Packets :
            <<>> \o <<a, b, c, d>> = <<a, b, c, d>> /\ <<>> \o <<a, b>> = <<a, b>>
      OBVIOUS
    <3>2. /\ MotorRequest \in Packets /\ Ack(0) \in Packets /\ Ack(1) \in Packets
          /\ InfoRequest \in Packets /\ [Info EXCEPT !.motor = ~motor] \in Packets
      BY PacketTypes
    <3>3. CASE line' = <<>> \o <<MotorRequest, Ack(0), InfoRequest, [Info EXCEPT !.motor = ~motor]>>
      <4>1. PICK q \in Packets : /\ q.cmd = "INFO" /\ q.mode = mode
                               /\ line' = <<>> \o <<MotorRequest, Ack(0), InfoRequest, q>>
        BY <3>2, <3>3, PacketsShow
      <4>2. line' = <<MotorRequest, Ack(0), InfoRequest, q>>
        BY <3>1, <3>2, <4>1
      <4>3. QED
        BY <4>1, <4>2, PacketsShow DEF Shows
    <3>4. CASE line' = <<>> \o <<MotorRequest, Ack(1)>>
      <4>1. line' = <<MotorRequest, Ack(1)>>
        BY <3>1, <3>2, <3>4
      <4>2. QED
        BY <4>1, PacketsShow DEF Shows
    <3>5. QED
      BY <2>2, <3>3, <3>4
  <2>4. LineInv'
    BY <1>3, <2>1, <2>3 DEF LineInv, OperatorMotor, EnvQuiet, Env, Listens, Talks
  <2>5. AcceptInv' /\ ModeInv'
    BY <1>3, <2>1 DEF LinkInv, AcceptInv, ModeInv, OperatorMotor, EnvQuiet, Env, view, Listens,
                      Skipped, Target
  <2>6. QED
    BY <2>4, <2>5 DEF LinkInv
<1>4. CASE Lose
  <2>1. Shows(line', mode)
    BY <1>4, LossMoves DEF LinkInv, LineInv, Shows
  <2>2. LineInv'
    BY <1>4, <2>1, LossMoves
    DEF TypeOK, LinkInv, LineInv, Lose, EnvQuiet, Env, station, Listens, Talks
  <2>3. AcceptInv'
    <3>1. ASSUME pc = "command", ~accepted PROVE line' = <<>>
      BY <1>4, <3>1, LossMoves DEF TypeOK, LinkInv, AcceptInv, Lose
    <3>2. QED
      BY <1>4, <3>1 DEF LinkInv, AcceptInv, Lose, EnvQuiet, Env
  <2>4. ModeInv'
    BY <1>4 DEF LinkInv, ModeInv, Lose, EnvQuiet, Env, station, view, Skipped, Target
  <2>5. QED
    BY <2>2, <2>3, <2>4 DEF LinkInv
<1>5. CASE Release
  BY <1>5 DEF LinkInv, LineInv, AcceptInv, ModeInv, Release, EnvQuiet, Env, view, Listens,
              Talks, Skipped, Target
<1>6. CASE OperatorAuto \/ StationMotor \/ StationFault \/ Submit \/ Tick
  BY <1>6 DEF LinkInv, LineInv, AcceptInv, ModeInv, OperatorAuto, StationMotor, StationFault,
              Submit, Tick, EnvQuiet, Env, station, view, Listens, Talks, Skipped, Target
<1>7. QED
  BY <1>1, <1>2, <1>3, <1>4, <1>5, <1>6 DEF Environment

\* Nor does listening, which ends with an empty line when the capture begins.
LEMMA ListeningLink ==
  ASSUME TypeOK, Disciplined, LinkInv, Listening
  PROVE  LinkInv'
<1> USE DEF Same, station, Listens, Talks
<1>1. ASSUME line # <<>>, line' = Tail(line), mode' = mode
      PROVE  /\ Shows(line', mode') /\ Len(line') = Len(line) - 1
             /\ Listens => \A i \in DOMAIN line' : line'[i].cmd = "INFO" => i = Len(line')
  <2>1. Shows(line', mode')
    BY <1>1, ShowsLess DEF TypeOK, LinkInv, LineInv
  <2>2. Len(line') = Len(line) - 1 /\ \A i \in DOMAIN line' : i + 1 \in DOMAIN line
    BY <1>1 DEF TypeOK
  <2>3. Listens => \A i \in DOMAIN line' : line'[i].cmd = "INFO" => i = Len(line')
    BY <1>1, <2>2 DEF TypeOK, LinkInv, LineInv
  <2>4. QED
    BY <2>1, <2>2, <2>3
<1>2. CASE HearInfo
  <2>1. line # <<>> /\ line' = Tail(line) /\ mode' = mode /\ Listens
    BY <1>2 DEF HearInfo, Is
  <2>2. Len(line') = 0
    BY <1>1, <1>2, <2>1, LineParts DEF HearInfo, Is, LinkInv, LineInv
  <2>3. LineInv'
    BY <1>1, <1>2, <2>1, <2>2 DEF HearInfo, LineInv
  <2>4. AcceptInv' /\ ModeInv'
    BY <1>2 DEF HearInfo, LinkInv, AcceptInv, ModeInv, work
  <2>5. QED
    BY <2>3, <2>4 DEF LinkInv
<1>3. CASE HearOther \/ FollowMotorCmd \/ MotorInfo
  <2>1. line # <<>> /\ line' = Tail(line) /\ mode' = mode /\ Listens
    BY <1>3 DEF HearOther, FollowMotorCmd, MotorInfo, MotorSteps, Is
  <2>2. pc' \in {"listen", "motorAck", "motorReq", "motorInfo"}
    BY <1>3 DEF HearOther, FollowMotorCmd, MotorInfo, MotorSteps, MotorNext
  <2>3. LineInv'
    BY <1>1, <1>3, <2>1, <2>2 DEF LineInv
  <2>4. AcceptInv' /\ ModeInv'
    BY <1>3, <2>1, <2>2 DEF HearOther, FollowMotorCmd, MotorInfo, LinkInv, AcceptInv, ModeInv, view
  <2>5. QED
    BY <2>3, <2>4 DEF LinkInv
<1>4. CASE MotorCmdEnds
  <2>1. LineInv'
    <3>1. CASE line # <<>> /\ line' = Tail(line)
      BY <1>1, <1>4, <3>1 DEF MotorCmdEnds, LineInv
    <3>2. CASE UNCHANGED line
      BY <1>4, <3>2 DEF MotorCmdEnds, LinkInv, LineInv
    <3>3. QED
      BY <1>4, <3>1, <3>2 DEF MotorCmdEnds
  <2>2. AcceptInv' /\ ModeInv'
    BY <1>4 DEF MotorCmdEnds, LinkInv, AcceptInv, ModeInv, view
  <2>3. QED
    BY <2>1, <2>2 DEF LinkInv
<1>5. QED
  BY <1>2, <1>3, <1>4 DEF Listening

\* An exchange with the station leaves its answer, or nothing, behind the rest.
LEMMA Asked ==
  ASSUME TypeOK, NEW rest \in Seq(Packets), NEW reply \in Packets, Ask(reply, rest),
         Shows(rest, mode), reply.cmd \in {"INFO", "ALL"} => reply.mode = mode
  PROVE  /\ Shows(line', mode) /\ Len(line') <= Len(rest) + 1
         /\ \/ line' = rest
            \/ captured /\ Len(line') = Len(rest) + 1 /\ line'[Len(line')] = reply
               /\ \A i \in DOMAIN rest : line'[i] = rest[i]
<1>1. CASE line' = rest
  BY <1>1
<1>2. CASE captured /\ line' = Append(rest, reply)
  BY <1>2, ShowsLess
<1>3. QED
  BY <1>1, <1>2 DEF Ask

\* Attempts to capture the controller leave at most one packet for the next attempt, and
\* one that succeeds leaves none.
LEMMA CapturingLink ==
  ASSUME TypeOK, Disciplined, LinkInv, Capturing
  PROVE  LinkInv'
<1> USE DEF Same, station, Listens, Talks
<1>1. line # <<>> => Shows(Tail(line), mode)
  BY ShowsLess DEF TypeOK, LinkInv, LineInv
<1>2. CASE CaptureDevice
  <2>1. /\ line \in Seq(Packets) /\ Len(line) <= 1 /\ Shows(line, mode)
        /\ Ack(1) \in Packets /\ Ack(Captured) \in Packets
    BY <1>2, PacketTypes DEF CaptureDevice, TypeOK, LinkInv, LineInv
  <2>2. UNCHANGED line \/ \E c \in {1, Captured} : line' = Append(line, Ack(c))
    BY <1>2 DEF CaptureDevice
  <2>3. ASSUME NEW p \in Packets, p.cmd = "ACK", line' = Append(line, p)
        PROVE  Shows(line', mode) /\ (Len(line') <= 1 \/ (Len(line') = 2 /\ line'[2].cmd = "ACK"))
    BY <2>1, <2>3, ShowsLess
  <2>4. Shows(line', mode) /\ (Len(line') <= 1 \/ (Len(line') = 2 /\ line'[2].cmd = "ACK"))
    BY <2>1, <2>2, <2>3, PacketsShow
  <2>5. QED
    BY <1>2, <2>4 DEF CaptureDevice, LinkInv, LineInv, AcceptInv, ModeInv, view
<1>3. CASE GetPasswords
  <2>1. Ask(Passwords, Tail(line)) /\ line # <<>> /\ pc = "capturing"
    BY <1>3 DEF GetPasswords
  <2>2. Len(Tail(line)) <= 1 /\ \A i \in DOMAIN Tail(line) : Tail(line)[i].cmd = "ACK"
    <3>1. Len(line) = 1 \/ (Len(line) = 2 /\ line[2].cmd = "ACK")
      BY <2>1, LineParts DEF LinkInv, LineInv
    <3>2. QED
      BY <2>1, <3>1, LineParts
  <2>3. Passwords \in Packets /\ Passwords.cmd = "PASSWORDS" /\ Tail(line) \in Seq(Packets)
    BY <2>1, PacketTypes, PacketsShow, LineParts
  <2>4. Shows(line', mode) /\ Len(line') <= 2
    <3>1. PICK rest \in Seq(Packets), reply \in Packets : rest = Tail(line) /\ reply = Passwords
      BY <2>3
    <3>2. Ask(reply, rest) /\ Shows(rest, mode) /\ reply.cmd = "PASSWORDS" /\ Len(rest) <= 1
      BY <1>1, <2>1, <2>2, <2>3, <3>1
    <3>3. QED
      BY <3>2, Asked
  <2>5. \A i \in DOMAIN line' : line'[i].cmd = "PASSWORDS" => captured /\ i = Len(line')
    BY <2>1, <2>2, <2>3 DEF Ask
  <2>6. QED
    BY <1>3, <2>4, <2>5 DEF GetPasswords, LinkInv, LineInv, AcceptInv, ModeInv, view
<1>4. CASE SetPassword
  <2>1. line # <<>> /\ pc = "passwords" /\ Head(line).cmd = "PASSWORDS"
    BY <1>4 DEF SetPassword, Is
  <2>2. captured /\ Len(line) = 1
    BY <2>1, LineParts DEF LinkInv, LineInv
  <2>3. Ask(AllSettings(mode), <<>>) \/ Ask(Ack(1), <<>>)
    BY <1>4, <2>1, <2>2, LineParts DEF SetPassword
  <2>4. /\ AllSettings(mode) \in Packets /\ AllSettings(mode).mode = mode
        /\ Ack(1) \in Packets /\ Ack(1).cmd = "ACK" /\ Shows(<<>>, mode)
    BY PacketTypes, PacketsShow, ShowsNothing DEF TypeOK
  <2>5. Shows(line', mode) /\ Len(line') <= 1
    <3>1. \/ line' = <<>>
          \/ line' = Append(<<>>, AllSettings(mode))
          \/ line' = Append(<<>>, Ack(1))
      BY <2>3 DEF Ask
    <3>2. Shows(Append(<<>>, AllSettings(mode)), mode) /\ Len(Append(<<>>, AllSettings(mode))) = 1
      BY <2>4, ShowsOne
    <3>3. Shows(Append(<<>>, Ack(1)), mode) /\ Len(Append(<<>>, Ack(1))) = 1
      BY <2>4, ShowsOne
    <3>4. CASE line' = <<>>
      BY <2>4, <3>4
    <3>5. CASE line' = Append(<<>>, AllSettings(mode))
      BY <3>2, <3>5
    <3>6. CASE line' = Append(<<>>, Ack(1))
      BY <3>3, <3>6
    <3>7. QED
      BY <3>1, <3>4, <3>5, <3>6
  <2>6. QED
    BY <1>4, <2>2, <2>5 DEF SetPassword, LinkInv, LineInv, AcceptInv, ModeInv, view
<1>5. CASE PasswordIsSet
  <2>1. line # <<>> /\ pc = "password" /\ Head(line).cmd = "ALL"
    BY <1>5 DEF PasswordIsSet, Is
  <2>2. captured /\ Len(line) = 1 /\ Head(line).mode = mode
    BY <2>1, LineParts DEF LinkInv, LineInv, Shows
  <2>3. line' = <<>> /\ writeMode' = mode
    BY <1>5, <2>1, <2>2, LineParts DEF PasswordIsSet
  <2>4. LineInv'
    <3>1. Shows(line', mode') /\ Len(line') = 0 /\ captured' /\ pc' = "take"
      BY <1>5, <2>2, <2>3, ShowsNothing DEF PasswordIsSet
    <3>2. QED
      BY <2>3, <3>1 DEF LineInv
  <2>5. AcceptInv' /\ ModeInv'
    BY <1>5, <2>3 DEF PasswordIsSet, AcceptInv, ModeInv
  <2>6. QED
    BY <2>4, <2>5 DEF LinkInv
<1>6. CASE CaptureFails
  <2>1. \/ line # <<>> /\ line' = Tail(line)
        \/ line = <<>> /\ line' = <<>>
    BY <1>6 DEF CaptureFails, NoAnswer, Disciplined
  <2>2. Shows(line', mode) /\ Len(line') <= 1
    BY <1>1, <1>6, <2>1, LineParts DEF CaptureFails, LinkInv, LineInv, Shows
  <2>3. QED
    BY <1>6, <2>2 DEF CaptureFails, LinkInv, LineInv, AcceptInv, ModeInv, view
<1>7. QED
  BY <1>2, <1>3, <1>4, <1>5, <1>6 DEF Capturing

\* A line with one answer of the station shows its mode.
LEMMA AnswersShow ==
  ASSUME TypeOK, NEW m \in Modes,
         NEW packets \in {Append(<<>>, AllSettings(m)), Append(<<>>, Ack(0)), Append(<<>>, Ack(1))}
  PROVE  Shows(packets, m) /\ Len(packets) = 1
<1>1. /\ AllSettings(m) \in Packets /\ Ack(0) \in Packets /\ Ack(1) \in Packets
      /\ AllSettings(m).mode = m /\ Ack(0).cmd = "ACK" /\ Ack(1).cmd = "ACK"
  BY PacketTypes, PacketsShow
<1>2. CASE packets = Append(<<>>, AllSettings(m))
  BY <1>1, <1>2, ShowsOne
<1>3. CASE packets = Append(<<>>, Ack(0))
  BY <1>1, <1>3, ShowsOne
<1>4. CASE packets = Append(<<>>, Ack(1))
  BY <1>1, <1>4, ShowsOne
<1>5. QED
  BY <1>2, <1>3, <1>4

\* A request for data is answered by a data packet or not at all.
LEMMA InfoAsked ==
  ASSUME TypeOK, Ask(Info, <<>>)
  PROVE  Shows(line', mode) /\ Len(line') <= 1
<1>1. Info \in Packets /\ Info.mode = mode
  BY PacketTypes, PacketsShow
<1>2. CASE line' = <<>>
  BY <1>2, ShowsNothing
<1>3. CASE line' = Append(<<>>, Info)
  BY <1>1, <1>3, ShowsOne
<1>4. QED
  BY <1>2, <1>3 DEF Ask

\* While the daemon talks, a packet that it takes leaves the line empty.
LEMMA OneAnswer ==
  ASSUME TypeOK, LineInv, Talks, line # <<>>
  PROVE  Tail(line) = <<>>
  BY LineParts DEF LineInv

\* A command is sent on an empty line, and nothing is left of its answers.
LEMMA CommandingLink ==
  ASSUME TypeOK, Disciplined, LinkInv, Commanding
  PROVE  LinkInv'
<1> USE DEF Same, station, Listens, Talks
<1>1. LineInv /\ AcceptInv /\ ModeInv
  BY DEF LinkInv
<1>2. CASE TakeCommand
  <2>1. line = <<>> /\ captured /\ pc = "take" /\ mode \in Modes
    BY <1>1, <1>2 DEF TakeCommand, LineInv, TypeOK
  <2>2. /\ pc' = "command" /\ UNCHANGED <<mode, captured, known, writeMode, isAutoMode, step>>
        /\ Accept(pending, <<>>) \/ NotAccepted(<<>>)
    BY <1>2, <2>1 DEF TakeCommand, view
  <2>3. \/ line' = Append(<<>>, AllSettings(mode)) /\ accepted'
        \/ line' = Append(<<>>, Ack(0)) /\ accepted'
        \/ line' = Append(<<>>, Ack(1))
        \/ line' = <<>>
    BY <2>2 DEF Accept, NotAccepted
  <2>4. Shows(line', mode) /\ Len(line') <= 1
    <3>1. PICK all, done, refused, m :
            /\ all = Append(<<>>, AllSettings(mode)) /\ done = Append(<<>>, Ack(0))
            /\ refused = Append(<<>>, Ack(1)) /\ m = mode
      OBVIOUS
    <3>2. /\ Shows(all, m) /\ Len(all) = 1 /\ Shows(done, m) /\ Len(done) = 1
          /\ Shows(refused, m) /\ Len(refused) = 1
      BY <2>1, <3>1, AnswersShow
    <3>3. CASE line' = <<>>
      BY <3>3, ShowsNothing
    <3>4. CASE line' = all
      BY <3>1, <3>2, <3>4
    <3>5. CASE line' = done
      BY <3>1, <3>2, <3>5
    <3>6. CASE line' = refused
      BY <3>1, <3>2, <3>6
    <3>7. QED
      BY <2>3, <3>1, <3>3, <3>4, <3>5, <3>6
  <2>5. LineInv'
    BY <2>1, <2>2, <2>4 DEF LineInv
  <2>6. AcceptInv'
    <3>1. Append(<<>>, Ack(1)) = <<Ack(1)>>
      BY ShowsOne, PacketTypes
    <3>2. QED
      BY <2>2, <2>3, <3>1 DEF AcceptInv
  <2>7. ModeInv'
    BY <1>1, <2>1, <2>2 DEF ModeInv
  <2>8. QED
    BY <2>5, <2>6, <2>7 DEF LinkInv
<1>3. ASSUME pc \in {"command", "info"}, pc' = "take", line' = <<>>,
             UNCHANGED <<station, known, writeMode, isAutoMode, step>>
      PROVE  LinkInv'
  <2>1. LineInv'
    BY <1>1, <1>3, ShowsNothing DEF LineInv
  <2>2. AcceptInv' /\ ModeInv'
    BY <1>1, <1>3 DEF AcceptInv, ModeInv
  <2>3. QED
    BY <2>1, <2>2 DEF LinkInv
<1>4. CASE SettingReply \/ InfoReply
  BY <1>1, <1>3, <1>4, OneAnswer DEF SettingReply, InfoReply, Answer, view
<1>5. CASE CommandUnanswered
  BY <1>3, <1>5 DEF CommandUnanswered, NoAnswer, Disciplined, Answer, view
<1>6. CASE MotorReply
  <2>1. line # <<>> /\ pc = "command" /\ Tail(line) = <<>>
    BY <1>1, <1>6, OneAnswer DEF MotorReply
  <2>2. CASE MotorRefused(Head(line))
    BY <1>3, <1>6, <2>1, <2>2 DEF MotorReply, Answer, view
  <2>3. CASE ~MotorRefused(Head(line))
    <3>1. /\ Ask(Info, <<>>) /\ pc' = "info" /\ Head(line) = Ack(0)
          /\ UNCHANGED <<station, known, writeMode, isAutoMode, step, accepted>>
      BY <1>6, <2>1, <2>3 DEF MotorReply, MotorRefused, work, view
    <3>2. accepted
      BY <1>1, <2>1, <3>1 DEF AcceptInv, Ack
    <3>3. LineInv'
      BY <1>1, <2>1, <3>1, InfoAsked DEF LineInv
    <3>4. AcceptInv' /\ ModeInv'
      BY <1>1, <2>1, <3>1, <3>2 DEF AcceptInv, ModeInv
    <3>5. QED
      BY <3>3, <3>4 DEF LinkInv
  <2>4. QED
    BY <2>2, <2>3
<1>7. QED
  BY <1>2, <1>4, <1>5, <1>6 DEF Commanding

\* A cycle that is over has come round to the mode it started from, or to the one
\* before it when the last one is skipped; only mode 1 ever is.
LEMMA CycleComesRound ==
  ASSUME TypeOK, NEW i \in 1 .. LastStep, ~Skipped(i), mode = Target(i),
         \A j \in i + 1 .. LastStep : Skipped(j)
  PROVE  mode = writeMode \/ (writeMode = 1 /\ mode = 0)
<1>1. Target(6) # 1 \/ Target(7) # 1
  BY DEF Target, TypeOK, Modes
<1>2. i \in {6, 7}
  BY <1>1 DEF LastStep, Skipped
<1>3. CASE i = 7
  BY <1>3 DEF Target, TypeOK, Modes
<1>4. CASE i = 6
  <2>1. Target(7) = 1
    BY <1>4 DEF LastStep, Skipped
  <2>2. QED
    BY <1>4, <2>1 DEF Target, TypeOK, Modes
<1>5. QED
  BY <1>2, <1>3, <1>4

\* The cycle never ends before its first mode.
LEMMA CycleHasModes == TypeOK => ~\A j \in 1 .. LastStep : Skipped(j)
<1>1. TypeOK => Target(6) # 1 \/ Target(7) # 1
  BY DEF Target, TypeOK, Modes
<1>2. QED
  BY <1>1 DEF LastStep, Skipped

\* The next mode of the cycle, asked for on an empty line.
LEMMA NextModeLink ==
  ASSUME TypeOK, LinkInv, Talks, NEW i \in 1 .. LastStep + 1, NextMode(i, <<>>),
         UNCHANGED <<captured, known, writeMode, isAutoMode>>,
         \/ i = 1 /\ line = <<>>
         \/ i > 1 /\ ~Skipped(i - 1) /\ mode = Target(i - 1)
  PROVE  LinkInv'
<1> USE DEF Listens, Talks
<1>1. LineInv /\ captured
  BY DEF LinkInv, LineInv
<1>2. CASE (\A j \in i .. LastStep : Skipped(j)) /\ EndCycle /\ line' = <<>> /\ UNCHANGED mode
  <2>1. i > 1 /\ ~Skipped(i - 1) /\ mode = Target(i - 1)
    BY <1>2, CycleHasModes
  <2>2. mode = writeMode \/ (writeMode = 1 /\ mode = 0)
    <3>1. PICK k \in 1 .. LastStep : i = k + 1
      BY <2>1 DEF LastStep
    <3>2. QED
      BY <1>2, <2>1, <3>1, CycleComesRound
  <2>3. Shows(line', mode') /\ pc' = "listen" /\ line' = <<>>
    BY <1>2, ShowsNothing DEF EndCycle
  <2>4. LineInv'
    BY <2>3 DEF LineInv
  <2>5. AcceptInv' /\ ModeInv'
    BY <1>2, <2>2, <2>3 DEF AcceptInv, ModeInv
  <2>6. QED
    BY <2>4, <2>5 DEF LinkInv
<1>3. ASSUME NEW j \in i .. LastStep, ~Skipped(j), ChangeMode(j, <<>>)
      PROVE  LinkInv'
  <2>1. j \in 1 .. LastStep /\ Target(j) \in Modes /\ mode \in Modes
    BY ModeTypes DEF LastStep, TypeOK
  <2>2. /\ pc' = "change" /\ step' = j
        /\ \/ mode' = Target(j) /\ line' = Append(<<>>, AllSettings(Target(j)))
           \/ mode' = mode /\ line' = Append(<<>>, Ack(1))
           \/ mode' = mode /\ line' = <<>>
    BY <1>3 DEF ChangeMode
  <2>3. Shows(line', mode') /\ Len(line') <= 1
    <3>1. CASE mode' = Target(j) /\ line' = Append(<<>>, AllSettings(Target(j)))
      <4>1. PICK m \in Modes : m = Target(j)
        BY <2>1
      <4>2. PICK all : all = Append(<<>>, AllSettings(m))
        OBVIOUS
      <4>3. QED
        BY <3>1, <4>1, <4>2, AnswersShow
    <3>2. CASE mode' = mode /\ line' = Append(<<>>, Ack(1))
      <4>1. PICK m \in Modes : m = mode
        BY <2>1
      <4>2. PICK refused : refused = Append(<<>>, Ack(1))
        OBVIOUS
      <4>3. Shows(refused, m) /\ Len(refused) = 1
        BY <4>2, AnswersShow
      <4>4. QED
        BY <3>2, <4>1, <4>2, <4>3
    <3>3. CASE line' = <<>>
      BY <3>3, ShowsNothing
    <3>4. QED
      BY <2>2, <3>1, <3>2, <3>3
  <2>4. LineInv'
    BY <1>1, <2>2, <2>3 DEF LineInv
  <2>5. ~Skipped(j)'
    BY <1>3 DEF Skipped, Target
  <2>6. AcceptInv' /\ ModeInv'
    BY <2>1, <2>2, <2>5 DEF AcceptInv, ModeInv, LastStep, Skipped, Target
  <2>7. QED
    BY <2>4, <2>6 DEF LinkInv
<1>4. QED
  BY <1>2, <1>3 DEF NextMode

\* The cycle takes the station through its modes and knows where it ends.
LEMMA CyclingLink ==
  ASSUME TypeOK, Disciplined, LinkInv, Cycling
  PROVE  LinkInv'
<1> USE DEF Same, station, Listens, Talks
<1>1. LineInv /\ AcceptInv /\ ModeInv
  BY DEF LinkInv
<1>2. CASE StartCycle
  <2>1. line = <<>> /\ NextMode(1, <<>>) /\ UNCHANGED <<captured, known, writeMode, isAutoMode>>
    BY <1>1, <1>2 DEF StartCycle, LineInv, view
  <2>2. pc = "take" /\ 1 \in 1 .. LastStep + 1
    BY <1>2 DEF StartCycle, LastStep
  <2>3. QED
    BY <2>1, <2>2, NextModeLink
<1>3. CASE NoCycle
  BY <1>1, <1>3, ShowsNothing DEF NoCycle, LinkInv, LineInv, AcceptInv, ModeInv, view
<1>4. CASE RequestCurrentData
  <2>1. /\ line # <<>> /\ pc = "change" /\ Head(line).cmd = "ALL"
        /\ Head(line).mode = Target(step) /\ Tail(line) = <<>>
    BY <1>1, <1>4, OneAnswer DEF RequestCurrentData, ModeChanged, Is
  <2>2. mode = Target(step)
    BY <1>1, <2>1, LineParts DEF LineInv, Shows
  <2>3. /\ Ask(Info, <<>>) /\ pc' = "data"
        /\ UNCHANGED <<station, known, writeMode, isAutoMode, step>>
    BY <1>4, <2>1 DEF RequestCurrentData, view, work
  <2>4. LineInv'
    BY <1>1, <2>1, <2>3, InfoAsked DEF LineInv
  <2>5. AcceptInv' /\ ModeInv'
    BY <1>1, <2>1, <2>2, <2>3 DEF AcceptInv, ModeInv, Skipped, Target
  <2>6. QED
    BY <2>4, <2>5 DEF LinkInv
<1>5. CASE ChangeFails
  <2>1. line' = <<>>
    BY <1>1, <1>5, OneAnswer DEF ChangeFails, NoAnswer, Disciplined
  <2>2. pc' = "listen" /\ known' = FALSE /\ mode' = mode
    BY <1>5 DEF ChangeFails, EndCycle
  <2>3. LineInv'
    BY <2>1, <2>2, ShowsNothing DEF LineInv
  <2>4. AcceptInv' /\ ModeInv'
    BY <2>2 DEF AcceptInv, ModeInv
  <2>5. QED
    BY <2>3, <2>4 DEF LinkInv
<1>6. CASE ReportDataPacket
  <2>1. pc = "data" /\ line # <<>> /\ Tail(line) = <<>>
    BY <1>1, <1>6, OneAnswer DEF ReportDataPacket
  <2>2. step \in 1 .. LastStep /\ ~Skipped(step) /\ mode = Target(step)
    BY <1>1, <2>1 DEF ModeInv
  <2>3. NextMode(step + 1, <<>>) /\ UNCHANGED <<captured, known, writeMode, isAutoMode>>
    BY <1>6, <2>1 DEF ReportDataPacket, view
  <2>4. PICK i \in 2 .. LastStep + 1 : i = step + 1 /\ i - 1 = step
    BY <2>2 DEF LastStep
  <2>5. i \in 1 .. LastStep + 1 /\ i > 1
    BY <2>4 DEF LastStep
  <2>6. NextMode(i, <<>>) /\ ~Skipped(i - 1) /\ mode = Target(i - 1)
    BY <2>2, <2>3, <2>4
  <2>7. QED
    BY <2>1, <2>3, <2>5, <2>6, NextModeLink
<1>7. CASE Crash
  BY <1>1, <1>7 DEF Crash, NoAnswer, LinkInv, LineInv, AcceptInv, ModeInv, view
<1>8. QED
  BY <1>2, <1>3, <1>4, <1>5, <1>6, <1>7 DEF Cycling

\* The invariant holds initially, and every step keeps it.
LEMMA LinkInvariant ==
  ASSUME Disciplined
  PROVE  /\ Init => LinkInv
         /\ TypeOK /\ LinkInv /\ [Next]_vars => LinkInv'
<1>1. Init => LinkInv
  BY ShowsNothing DEF Init, LinkInv, LineInv, AcceptInv, ModeInv, Listens, Talks
<1>2. ASSUME LinkInv, UNCHANGED vars PROVE LinkInv'
  BY <1>2 DEF LinkInv, LineInv, AcceptInv, ModeInv, Listens, Talks, Skipped, Target, Shows,
              vars, station, view, work
<1>3. QED
  BY <1>1, <1>2, EnvironmentLink, ListeningLink, CapturingLink, CommandingLink, CyclingLink
  DEF Next, Processor

\* The mode that the daemon takes for the station's is the station's whenever it listens,
\* for any modes of the operator and whatever is lost or refused.
THEOREM ModeKnown == ASSUME Disciplined PROVE Spec => []ModeIsKnown
<1>1. LinkInv => ModeIsKnown
  BY DEF LinkInv, ModeInv, ModeIsKnown
<1>2. QED
  BY <1>1, LinkInvariant, TypeCorrect, PTL DEF Spec

\* The first packet of the line shows the mode of the station, if it shows one.
LEMMA HeadShows ==
  ASSUME TypeOK, LinkInv, Is("INFO")
  PROVE  Head(line).mode = mode
  BY LineParts DEF LinkInv, LineInv, Shows, Is

\* Steps that report data, faults or answers; the others report the motor or nothing.
Telling == HearInfo \/ ReportDataPacket \/ SettingReply \/ MotorReply \/ InfoReply \/ CommandUnanswered

\* A step of another kind reports nothing but the motor.
LEMMA Untold ==
  ASSUME Next, ~Telling
  PROVE  \A e \in event' : e.report = "motor"
<1>1. CASE MotorInfo
  <2>1. \A e \in event' : e = MotorEvent(Head(line).motor)
    BY <1>1 DEF MotorInfo, MotorChangeByHand
  <2>2. QED
    BY <2>1 DEF MotorEvent
<1>2. CASE Environment
  BY <1>2 DEF Environment, Report, OperatorMode, OperatorAuto, OperatorMotor, StationMotor,
              StationFault, Release, Lose, Submit, Tick, EnvQuiet
<1>3. CASE HearOther \/ FollowMotorCmd \/ MotorCmdEnds \/ Capturing
  BY <1>3 DEF HearOther, FollowMotorCmd, MotorCmdEnds, Capturing, CaptureDevice, GetPasswords,
              SetPassword, PasswordIsSet, CaptureFails
<1>4. CASE TakeCommand \/ StartCycle \/ NoCycle \/ RequestCurrentData \/ ChangeFails \/ Crash
  BY <1>4 DEF TakeCommand, StartCycle, NoCycle, RequestCurrentData, ChangeFails, Crash
<1>5. QED
  BY <1>1, <1>2, <1>3, <1>4 DEF Next, Processor, Listening, Commanding, Cycling, Telling

\* What the steps that tell report: answers, and data with faults.
LEMMA Told ==
  /\ \A p : \A e \in MotorChange(p) : e.report = "motor"
  /\ \A p : \A e \in FaultEvent(p) : e.report = "fault"
  /\ \A p, tag : DataEvent(p, tag).report = "data"
  BY DEF MotorChange, MotorEvent, FaultEvent, DataEvent

\* What is heard of the traffic: the motor, a fault, and data under the operator's mode.
LEMMA Heard ==
  ASSUME HearInfo, NEW e \in event'
  PROVE  \/ e.report = "motor"
         \/ e.report = "fault" /\ e \in FaultEvent(Head(line))
         \/ e.report = "data" /\ e = DataEvent(Head(line), writeMode)
<1>1. \/ e \in MotorChange(Head(line))
      \/ e \in FaultEvent(Head(line))
      \/ e = DataEvent(Head(line), writeMode)
  BY DEF HearInfo
<1>2. QED
  BY <1>1, Told

\* The answer to a command, with what is reported of the motor.
LEMMA Answered ==
  ASSUME SettingReply \/ MotorReply \/ InfoReply \/ CommandUnanswered, NEW e \in event'
  PROVE  \/ e.report = "motor"
         \/ /\ e.report = "answer" /\ e.accepted = accepted
            /\ e.ok => \/ SettingReply /\ Head(line).cmd = "ALL"
                       \/ InfoReply
<1> DEFINE reply(ok) == [report |-> "answer", ok |-> ok, accepted |-> accepted]
<1>1. \A ok : /\ reply(ok).report = "answer" /\ reply(ok).accepted = accepted
              /\ reply(ok).ok = ok
  OBVIOUS
<1>2. \A on : MotorEvent(on).report = "motor"
  BY DEF MotorEvent
<1> HIDE DEF reply
<1>3. CASE SettingReply
  <2>1. e = reply(Head(line).cmd = "ALL")
    BY <1>3 DEF SettingReply, Answer, reply
  <2>2. QED
    BY <1>1, <1>3, <2>1
<1>4. CASE InfoReply
  <2>1. (\E on : e = MotorEvent(on)) \/ \E ok : e = reply(ok)
    BY <1>4 DEF InfoReply, Answer, reply
  <2>2. QED
    BY <1>1, <1>2, <1>4, <2>1
<1>5. CASE MotorReply \/ CommandUnanswered
  <2>1. e = reply(FALSE)
    BY <1>5 DEF MotorReply, CommandUnanswered, Answer, reply
  <2>2. QED
    BY <1>1, <2>1
<1>6. QED
  BY <1>3, <1>4, <1>5

\* A success that is answered was accepted.
LEMMA NextOk == TypeOK /\ LinkInv /\ [Next]_vars /\ OkMeansAccepted => OkMeansAccepted'
<1> SUFFICES ASSUME TypeOK, LinkInv, [Next]_vars, OkMeansAccepted PROVE OkMeansAccepted'
  OBVIOUS
<1>1. ASSUME SettingReply \/ MotorReply \/ InfoReply \/ CommandUnanswered,
             NEW e \in event', e.report = "answer", e.ok
      PROVE  e.accepted
  <2>1. CASE SettingReply /\ Head(line).cmd = "ALL"
    <3>1. pc = "command" /\ line # <<>> /\ Head(line).cmd = "ALL"
      BY <2>1 DEF SettingReply
    <3>2. accepted
      BY <3>1, LineParts DEF LinkInv, AcceptInv, Ack
    <3>3. e.accepted = accepted
      BY <1>1, Answered
    <3>4. QED
      BY <3>2, <3>3
  <2>2. CASE InfoReply
    <3>1. accepted
      BY <2>2 DEF InfoReply, LinkInv, AcceptInv
    <3>2. e.accepted = accepted
      BY <1>1, Answered
    <3>3. QED
      BY <3>1, <3>2
  <2>3. QED
    BY <1>1, <2>1, <2>2, Answered
<1>2. CASE HearInfo
  BY <1>2, Heard DEF OkMeansAccepted
<1>3. CASE ReportDataPacket
  <2>1. \A e \in event' : e.report = "data"
    BY <1>3, Told DEF ReportDataPacket
  <2>2. QED
    BY <2>1 DEF OkMeansAccepted
<1>4. CASE Next /\ ~Telling
  BY <1>4, Untold DEF OkMeansAccepted
<1>5. CASE UNCHANGED vars
  BY <1>5 DEF vars, OkMeansAccepted
<1>6. QED
  BY <1>1, <1>2, <1>3, <1>4, <1>5 DEF Telling, OkMeansAccepted

\* A success answer to a command means that the station accepted that command, although
\* the daemon never compares the reply with the command it sent.
THEOREM OkIsAccepted == ASSUME Disciplined PROVE Spec => []OkMeansAccepted
<1>1. Init => OkMeansAccepted
  BY DEF Init, OkMeansAccepted
<1>2. QED
  BY <1>1, NextOk, LinkInvariant, TypeCorrect, PTL DEF Spec

\* Mode bits ORed into no mode are the mode.
LEMMA TagOfMode == \A m \in Modes : SetCmdMode(0, m) = m
<1>1. \A m \in Modes : m \in {0, 1, 2, 3, 4, 5, 6}
  BY DEF Modes
<1>2. QED
  BY <1>1 DEF SetCmdMode

\* While the mode is known, data is tagged with the mode that it shows.
LEMMA NextTagged == TypeOK /\ LinkInv /\ [Next]_vars /\ DataIsTagged => DataIsTagged'
<1> SUFFICES ASSUME TypeOK, LinkInv, [Next]_vars, DataIsTagged PROVE DataIsTagged'
  OBVIOUS
<1>1. CASE HearInfo
  <2>1. SUFFICES ASSUME known, writeMode = 0, NEW e \in event', e.report = "data"
                 PROVE  e.tag = e.mode
    BY <1>1 DEF HearInfo, Same, DataIsTagged
  <2>2. e = DataEvent(Head(line), writeMode)
    BY <1>1, <2>1, Heard
  <2>3. Head(line).mode = mode
    BY <1>1, HeadShows DEF HearInfo
  <2>4. mode = 0
    BY <1>1, <2>1 DEF HearInfo, LinkInv, ModeInv
  <2>5. QED
    BY <2>1, <2>2, <2>3, <2>4 DEF DataEvent
<1>2. CASE ReportDataPacket
  <2>1. SUFFICES ASSUME writeMode = 0, NEW e \in event' PROVE e.tag = e.mode
    BY <1>2 DEF ReportDataPacket, view, DataIsTagged
  <2>2. Is("INFO") /\ e = DataEvent(Head(line), SetCmdMode(writeMode, Target(step)))
    BY <1>2, <2>1 DEF ReportDataPacket
  <2>3. mode = Target(step) /\ mode \in Modes
    BY <1>2 DEF ReportDataPacket, LinkInv, ModeInv, TypeOK
  <2>4. QED
    BY <2>1, <2>2, <2>3, HeadShows, TagOfMode DEF DataEvent
<1>3. CASE SettingReply \/ MotorReply \/ InfoReply \/ CommandUnanswered
  BY <1>3, Answered DEF DataIsTagged
<1>4. CASE Next /\ ~Telling
  BY <1>4, Untold DEF DataIsTagged
<1>5. CASE UNCHANGED vars
  BY <1>5 DEF vars, view, DataIsTagged
<1>6. QED
  BY <1>1, <1>2, <1>3, <1>4, <1>5 DEF Telling

\* Data measured while the operator's mode is 0 is stored under the mode it was measured
\* in, in the traffic and through the whole cycle.
THEOREM DataTagged == ASSUME Disciplined PROVE Spec => []DataIsTagged
<1>1. Init => DataIsTagged
  BY DEF Init, DataIsTagged
<1>2. QED
  BY <1>1, NextTagged, LinkInvariant, TypeCorrect, PTL DEF Spec

\* While the mode is known, a fault that is reported as gone is gone.
LEMMA NextCleared == TypeOK /\ LinkInv /\ [Next]_vars /\ ClearedMeansClear => ClearedMeansClear'
<1> SUFFICES ASSUME TypeOK, LinkInv, [Next]_vars, ClearedMeansClear PROVE ClearedMeansClear'
  OBVIOUS
<1>1. CASE HearInfo
  <2>1. SUFFICES ASSUME known, NEW e \in event', e.report = "fault", e.code = 0 PROVE e.real = 0
    BY <1>1 DEF HearInfo, Same, ClearedMeansClear
  <2>2. e \in FaultEvent(Head(line))
    BY <1>1, <2>1, Heard
  <2>3. /\ writeMode # 1
        /\ e = [report |-> "fault", code |-> ErrorByte(Head(line)), real |-> Head(line).fault]
    BY <2>2 DEF FaultEvent, FaultChanged
  <2>4. Head(line).mode = mode
    BY <1>1, HeadShows DEF HearInfo
  <2>5. mode # 1
    BY <1>1, <2>1, <2>3 DEF HearInfo, LinkInv, ModeInv
  <2>6. QED
    BY <2>1, <2>3, <2>4, <2>5 DEF ErrorByte
<1>2. CASE ReportDataPacket
  <2>1. \A e \in event' : e.report = "data"
    BY <1>2, Told DEF ReportDataPacket
  <2>2. QED
    BY <2>1 DEF ClearedMeansClear
<1>3. CASE SettingReply \/ MotorReply \/ InfoReply \/ CommandUnanswered
  BY <1>3, Answered DEF ClearedMeansClear
<1>4. CASE Next /\ ~Telling
  BY <1>4, Untold DEF ClearedMeansClear
<1>5. CASE UNCHANGED vars
  BY <1>5 DEF vars, ClearedMeansClear
<1>6. QED
  BY <1>1, <1>2, <1>3, <1>4, <1>5 DEF Telling

\* A fault that is reported as gone is gone, although mode 1 shows no fault at all: the
\* workaround in CheckAndReportFault is enough, as long as the mode is known.
THEOREM ClearedIsClear == ASSUME Disciplined PROVE Spec => []ClearedMeansClear
<1>1. Init => ClearedMeansClear
  BY DEF Init, ClearedMeansClear
<1>2. QED
  BY <1>1, NextCleared, LinkInvariant, TypeCorrect, PTL DEF Spec
=============================================================================
