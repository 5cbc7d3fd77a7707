---------------------------- MODULE StationLink ----------------------------
(***************************************************************************)
(* The protocol that ComTrafficProcessor speaks with the controller of the *)
(* station (KSU) while the daemon measures: it listens to the traffic      *)
(* between the controller and its panel, captures the controller in a      *)
(* window of that traffic, executes commands, takes it through its seven   *)
(* modes to read what each of them shows, and gives it back.               *)
(*                                                                         *)
(* The controller, its operator and the serial line are the environment.   *)
(* A packet is read whole or not at all; module EchoCancel has the bytes.  *)
(***************************************************************************)
EXTENDS Integers, Sequences

CONSTANTS
  HandModes,     \* the modes the operator chooses at the panel
  Faults,        \* the fault codes of the station, 0 (no fault) not among them
  Commands,      \* the commands clients send, out of "on", "off", "rotate", "set"
  MotorMoves,    \* TRUE: the operator and the station switch the motor
  AutoMoves,     \* TRUE: the operator switches between auto and manual
  Loses,         \* TRUE: packets are lost or damaged on the line
  Late,          \* TRUE: an answer may come after its timeout
  Refuses,       \* TRUE: the station may refuse what it is asked
  Orderly,       \* TRUE: the panel is silent while the daemon tries to capture
  Period,        \* DATA_CAPTURE_PERIOD
  MaxLine,       \* packets of the traffic that may wait to be read (a bound)
  Unknown        \* no motor status (0xFF), no command (NULL)

Modes == 0 .. 6

ASSUME ModesAssumption == HandModes \subseteq Modes /\ HandModes # {}
ASSUME FaultsAssumption == Faults \subseteq Nat \ {0}
ASSUME CommandsAssumption == Commands \subseteq {"on", "off", "rotate", "set"}
ASSUME SwitchAssumption == {MotorMoves, AutoMoves, Loses, Late, Refuses, Orderly} \subseteq BOOLEAN
ASSUME BoundsAssumption == Period \in Nat \ {0} /\ MaxLine \in Nat
ASSUME UnknownAssumption == Unknown \notin BOOLEAN /\ Unknown \notin Commands

VARIABLES
  \* the station
  mode,         \* the service mode its data packets show (setting 45)
  auto, motor, fault,
  captured,     \* the panel is locked and the daemon may send commands
  line,         \* packets on their way to the daemon
  \* ComTrafficProcessor
  pc,           \* where its thread is
  writeMode,    \* m_writeMode
  isAutoMode, motorStatus, inFault, faultCode,
  period,       \* m_dataCapturePeriod
  cycleDue,     \* m_nextModeLoopCycle < time(NULL)
  step,         \* the index i of the mode cycle
  pending,      \* m_pendingCmdQueue, which holds at most one command
  cur,          \* the command being executed
  \* what an observer remembers
  known,        \* m_writeMode was read from the station and nothing failed since
  accepted,     \* the station accepted cur
  window,       \* the pause after a data packet of the traffic is not over
  lastMotor,    \* the motor state of the last event about it
  event         \* what the last step reported: events, data, answers

station == <<mode, auto, motor, fault, captured>>
view    == <<writeMode, isAutoMode, motorStatus, inFault, faultCode, period>>
work    == <<cycleDue, step, pending, cur, accepted>>
vars == <<station, line, pc, view, work, known, window, lastMotor, event>>

-----------------------------------------------------------------------------
(* Packets. A data packet (ACK_INFO) shows the state of the station; in     *)
(* mode 1 its error byte is 0 whatever the fault is.                       *)

Info == [cmd |-> "INFO", mode |-> mode, motor |-> motor, auto |-> auto, fault |-> fault]
Ack(code) == [cmd |-> "ACK", code |-> code]
AllSettings(m) == [cmd |-> "ALL", mode |-> m]
Passwords == [cmd |-> "PASSWORDS"]
MotorRequest == [cmd |-> "VD"]
InfoRequest == [cmd |-> "REQ"]

Captured == 150   \* the code of the ACK to REQ_DEVICE_REQ
ErrorByte(p) == IF p.mode = 1 THEN 0 ELSE p.fault

Is(cmd) == line # <<>> /\ Head(line).cmd = cmd

\* Mutant of SetCmdMode: the mode is not set.
SetCmdModeNone(tag, m) == tag

\* The mode bits of the command word: SetCmdMode ORs them (DataPacket.h:39).
SetCmdMode(tag, m) ==
  LET Bit(x, k) == (x \div k) % 2
      Or(k) == IF Bit(tag, k) + Bit(m, k) > 0 THEN k ELSE 0
  IN  Or(1) + Or(2) + Or(4)

-----------------------------------------------------------------------------
(* The station, its operator and the line.                                 *)

Env == UNCHANGED <<pc, view, step, cur, accepted, window, lastMotor>>
EnvQuiet == Env /\ UNCHANGED <<cycleDue, pending>> /\ event' = {}

\* The panel and the controller talk while the daemon has not captured the
\* controller, and leave a pause after each data packet: the window.
Traffic ==
  /\ ~captured /\ ~window
  /\ Orderly => pc \in {"listen", "motorAck", "motorReq", "motorInfo"}
  /\ Len(line) < MaxLine

Report ==
  /\ Traffic
  /\ line' = Append(line, Info)
  /\ UNCHANGED <<station, known>> /\ EnvQuiet

\* The operator changes the mode; the traffic shows the new settings.
OperatorMode == \E m \in HandModes \ {mode} :
  /\ Traffic
  /\ mode' = m
  /\ known' = FALSE
  /\ line' = Append(line, AllSettings(m))
  /\ UNCHANGED <<auto, motor, fault, captured>> /\ EnvQuiet

OperatorAuto ==
  /\ AutoMoves /\ ~captured
  /\ auto' = ~auto
  /\ UNCHANGED <<mode, motor, fault, captured, line, known>> /\ EnvQuiet

\* The operator switches the motor: the panel's command, the answer, and, if it
\* was accepted, a data request with its answer.
OperatorMotor ==
  /\ MotorMoves /\ Traffic /\ line = <<>>
  /\ \/ /\ motor' = ~motor
        /\ line' = line \o <<MotorRequest, Ack(0), InfoRequest, [Info EXCEPT !.motor = ~motor]>>
     \/ /\ UNCHANGED motor
        /\ line' = line \o <<MotorRequest, Ack(1)>>
  /\ UNCHANGED <<mode, auto, fault, captured, known>> /\ EnvQuiet

\* The station switches its motor in auto mode, or trips and recovers.
StationMotor ==
  /\ MotorMoves /\ auto
  /\ motor' = ~motor
  /\ UNCHANGED <<mode, auto, fault, captured, line, known>> /\ EnvQuiet

StationFault == \E f \in (Faults \cup {0}) \ {fault} :
  /\ fault' = f
  /\ motor' = (motor /\ f = 0)
  /\ UNCHANGED <<mode, auto, captured, line, known>> /\ EnvQuiet

\* A station nobody sends commands to leaves the capture after some seconds.
Release ==
  /\ captured /\ pc \in {"listen", "capture"}
  /\ captured' = FALSE
  /\ UNCHANGED <<mode, auto, motor, fault, line, known>> /\ EnvQuiet

Lose == \E i \in DOMAIN line :
  /\ Loses
  /\ line' = [j \in 1 .. Len(line) - 1 |-> IF j < i THEN line[j] ELSE line[j + 1]]
  /\ UNCHANGED <<station, known>> /\ EnvQuiet

\* The server thread queues a command when the one before is answered.
Submit == \E c \in Commands :
  /\ pending = Unknown /\ cur = Unknown
  /\ pending' = c
  /\ UNCHANGED <<station, line, known, cycleDue>> /\ Env /\ event' = {}

Tick ==
  /\ ~cycleDue
  /\ cycleDue' = TRUE
  /\ UNCHANGED <<station, line, known, pending>> /\ Env /\ event' = {}

Environment ==
  \/ Report \/ OperatorMode \/ OperatorAuto \/ OperatorMotor
  \/ StationMotor \/ StationFault \/ Release \/ Lose \/ Submit \/ Tick

-----------------------------------------------------------------------------
(* Listening to the traffic: STATE_PROCESS_KSU_TRAFFIC.                    *)

Same == UNCHANGED <<station, known>>

\* Mutant of NeedCapture: a command waits for the next mode cycle.
NeedCaptureInCycle == cycleDue

NeedCapture == pending # Unknown \/ cycleDue

MotorEvent(on) == [report |-> "motor", on |-> on]

\* Line 603: without a motor status there is nothing to compare with.
MotorChange(p) == IF motorStatus \notin {Unknown, p.motor} THEN {MotorEvent(p.motor)} ELSE {}

\* Mutant of MotorChangeByHand: the switching of the motor by hand is not reported.
MotorChangeByHandNone(p) == {}

\* Line 519: the unknown status 0xFF has the bit of a running motor.
MotorChangeByHand(p) ==
  IF (motorStatus \in {Unknown, TRUE}) # p.motor THEN {MotorEvent(p.motor)} ELSE {}

RememberMotor(events) ==
  lastMotor' = IF \E e \in events : e.report = "motor"
               THEN (CHOOSE e \in events : e.report = "motor").on ELSE lastMotor

\* Mutant of FaultChanged: the workaround for mode 1 is missing.
FaultChangedAnyMode(p) == IF inFault THEN ErrorByte(p) # faultCode ELSE ErrorByte(p) > 0

FaultChanged(p) ==
  /\ writeMode # 1
  /\ IF inFault THEN ErrorByte(p) # faultCode ELSE ErrorByte(p) > 0

CheckAndReportFault(p) ==
  IF FaultChanged(p)
  THEN inFault' = (ErrorByte(p) > 0) /\ faultCode' = ErrorByte(p)
  ELSE UNCHANGED <<inFault, faultCode>>

FaultEvent(p) ==
  IF FaultChanged(p)
  THEN {[report |-> "fault", code |-> ErrorByte(p), real |-> p.fault]} ELSE {}

\* ReportDataPacket stores the values under the mode of the packet's tag.
DataEvent(p, tag) == [report |-> "data", tag |-> tag, mode |-> p.mode]

PeriodOver == (period + 1) % Period = 0

HearInfo ==
  /\ pc = "listen" /\ Is("INFO")
  /\ LET p == Head(line)
         data == IF PeriodOver THEN {DataEvent(p, writeMode)} ELSE {}
     IN  /\ isAutoMode' = p.auto
         /\ motorStatus' = p.motor
         /\ RememberMotor(MotorChange(p))
         /\ IF NeedCapture
            THEN /\ pc' = "capture" /\ window' = TRUE
                 /\ event' = MotorChange(p)
                 /\ UNCHANGED <<inFault, faultCode, period>>
            ELSE /\ CheckAndReportFault(p)
                 /\ period' = IF PeriodOver THEN 0 ELSE period + 1
                 /\ event' = MotorChange(p) \cup FaultEvent(p) \cup data
                 /\ UNCHANGED <<pc, window>>
  /\ line' = Tail(line)
  /\ UNCHANGED writeMode
  /\ Same /\ UNCHANGED work

\* Settings changed by hand (CheckSettigsChanged, module Settings), or a packet
\* nobody waits for. m_writeMode stays what it was.
HearOther ==
  /\ pc = "listen" /\ line # <<>> /\ Head(line).cmd \notin {"INFO", "VD"}
  /\ line' = Tail(line)
  /\ event' = {}
  /\ Same /\ UNCHANGED <<pc, view, work, window, lastMotor>>

\* ProcessMotorCmd follows the panel's command to the data packet after it, as
\* long as the controller acknowledges it with 0.
MotorSteps == [listen |-> "VD", motorAck |-> "ACK", motorReq |-> "REQ"]
MotorNext == [listen |-> "motorAck", motorAck |-> "motorReq", motorReq |-> "motorInfo"]

FollowMotorCmd ==
  /\ pc \in DOMAIN MotorSteps
  /\ Is(MotorSteps[pc])
  /\ pc' = IF pc = "motorAck" /\ Head(line) # Ack(0) THEN "listen" ELSE MotorNext[pc]
  /\ line' = Tail(line)
  /\ event' = {}
  /\ Same /\ UNCHANGED <<view, work, window, lastMotor>>

MotorInfo ==
  /\ pc = "motorInfo" /\ Is("INFO")
  /\ LET p == Head(line)
     IN  /\ motorStatus' = p.motor
         /\ event' = MotorChangeByHand(p)
         /\ RememberMotor(MotorChangeByHand(p))
  /\ pc' = "listen"
  /\ line' = Tail(line)
  /\ UNCHANGED <<writeMode, isAutoMode, inFault, faultCode, period>>
  /\ Same /\ UNCHANGED <<work, window>>

\* A packet of another kind, or silence, ends ProcessMotorCmd.
MotorCmdEnds ==
  /\ pc \in {"motorAck", "motorReq", "motorInfo"}
  /\ \/ line # <<>> /\ line' = Tail(line)
        /\ ~Is(IF pc = "motorInfo" THEN "INFO" ELSE MotorSteps[pc])
     \/ line = <<>> /\ UNCHANGED line
  /\ pc' = "listen"
  /\ event' = {}
  /\ Same /\ UNCHANGED <<view, work, window, lastMotor>>

-----------------------------------------------------------------------------
(* Capturing: STATE_CAPTURE_DEVICE. An exchange that fails leaves the state *)
(* as it is, so the whole sequence is tried again from the start.          *)

\* A request and what the station answers; only a captured station does.
Ask(reply, rest) ==
  \/ captured /\ line' = Append(rest, reply)
  \/ (Loses \/ ~captured) /\ line' = rest

\* No answer within KSU_INACTIVITY_TIMEOUT.
NoAnswer ==
  /\ line = <<>> \/ (Late /\ Len(line) <= MaxLine)
  /\ UNCHANGED line

CaptureDevice ==
  /\ pc = "capture"
  /\ pc' = "capturing"
  /\ \/ line' = Append(line, Ack(Captured)) /\ captured' = TRUE
     \/ Refuses /\ line' = Append(line, Ack(1)) /\ UNCHANGED captured
     \/ Loses /\ UNCHANGED <<line, captured>>
  /\ event' = {}
  /\ window' = FALSE
  /\ UNCHANGED <<mode, auto, motor, fault, known, view, work, lastMotor>>

GetPasswords ==
  /\ pc = "capturing" /\ line # <<>> /\ Head(line) = Ack(Captured)
  /\ pc' = "passwords"
  /\ Ask(Passwords, Tail(line))
  /\ event' = {}
  /\ Same /\ UNCHANGED <<view, work, window, lastMotor>>

SetPassword ==
  /\ pc = "passwords" /\ Is("PASSWORDS")
  /\ pc' = "password"
  /\ \/ Ask(AllSettings(mode), Tail(line))
     \/ Refuses /\ Ask(Ack(1), Tail(line))
  /\ event' = {}
  /\ Same /\ UNCHANGED <<view, work, window, lastMotor>>

\* The settings tell the mode (and CheckSettigsChanged reports changes).
PasswordIsSet ==
  /\ pc = "password" /\ Is("ALL")
  /\ writeMode' = Head(line).mode
  /\ known' = TRUE
  /\ pc' = "take"
  /\ line' = Tail(line)
  /\ event' = {}
  /\ UNCHANGED <<station, isAutoMode, motorStatus, inFault, faultCode, period,
                 work, window, lastMotor>>

CaptureExpects(p) ==
  CASE pc = "capturing" -> p = Ack(Captured)
    [] pc = "passwords" -> p.cmd = "PASSWORDS"
    [] pc = "password"  -> p.cmd = "ALL"

CaptureFails ==
  /\ pc \in {"capturing", "passwords", "password"}
  /\ \/ line # <<>> /\ ~CaptureExpects(Head(line)) /\ line' = Tail(line)
     \/ NoAnswer
  /\ pc' = "capture"
  /\ event' = {}
  /\ Same /\ UNCHANGED <<view, work, window, lastMotor>>

-----------------------------------------------------------------------------
(* Commands: the do-while loop around ProcessCommand.                      *)

\* What an accepted command does to the station, and its answer.
Accept(c, rest) ==
  /\ captured
  /\ motor' = CASE c = "on"  -> fault = 0
                [] c = "off" -> FALSE
                [] OTHER     -> motor
  /\ line' = Append(rest, IF c = "set" THEN AllSettings(mode) ELSE Ack(0))
  /\ accepted' = TRUE

NotAccepted(rest) ==
  /\ \/ Refuses /\ captured /\ line' = Append(rest, Ack(1))
     \/ (Loses \/ ~captured) /\ line' = rest
  /\ UNCHANGED motor
  /\ accepted' = FALSE

TakeCommand ==
  /\ pc = "take" /\ pending # Unknown
  /\ cur' = pending /\ pending' = Unknown
  /\ pc' = "command"
  /\ Accept(pending, line) \/ NotAccepted(line)
  /\ event' = {}
  /\ UNCHANGED <<mode, auto, fault, captured, known, view, cycleDue,
                 step, window, lastMotor>>

\* SetReply: the answer goes to the server, the command is over.
Answer(ok, events) ==
  /\ event' = events \cup {[report |-> "answer", ok |-> ok, accepted |-> accepted]}
  /\ RememberMotor(events)
  /\ cur' = Unknown
  /\ pc' = "take"
  /\ UNCHANGED <<cycleDue, step, pending, accepted>>

\* Mutant of SettingReply: an ACK, too, is taken for success.
SettingReplyAny ==
  /\ pc = "command" /\ cur = "set" /\ line # <<>>
  /\ Answer(Head(line).cmd \in {"ALL", "ACK"}, {})
  /\ line' = Tail(line)
  /\ Same /\ UNCHANGED <<view, window>>

\* The check that the reply matches the command (line 475) never fails: a
\* reply of any kind gets as far as CmdExternal::SetReply.
SettingReply ==
  /\ pc = "command" /\ cur = "set" /\ line # <<>>
  /\ Answer(Head(line).cmd = "ALL", {})
  /\ line' = Tail(line)
  /\ Same /\ UNCHANGED <<view, window>>

MotorRefused(p) == p # Ack(0)

\* REQ_VD_ON, REQ_VD_OFF and REQ_VD_ROTATION: the ACK is followed by a request
\* for data.
MotorReply ==
  /\ pc = "command" /\ cur # "set" /\ line # <<>>
  /\ IF MotorRefused(Head(line))
     THEN Answer(FALSE, {}) /\ line' = Tail(line)
     ELSE /\ Ask(Info, Tail(line))
          /\ pc' = "info"
          /\ event' = {}
          /\ UNCHANGED <<work, lastMotor>>
  /\ Same /\ UNCHANGED <<view, window>>

\* A data packet is taken for one only under mode 0 (CmdExternal.cpp:80); what
\* is reported then is what was asked for, not what the packet shows.
InfoReply ==
  /\ pc = "info" /\ line # <<>>
  /\ LET p == Head(line)
         ok == p.cmd = "INFO" /\ writeMode = 0
     IN  /\ motorStatus' = IF p.cmd = "INFO" THEN p.motor ELSE motorStatus
         /\ Answer(ok, IF ok /\ cur # "rotate" THEN {MotorEvent(cur = "on")} ELSE {})
  /\ line' = Tail(line)
  /\ UNCHANGED <<writeMode, isAutoMode, inFault, faultCode, period>>
  /\ Same /\ UNCHANGED window

CommandUnanswered ==
  /\ pc \in {"command", "info"}
  /\ NoAnswer
  /\ Answer(FALSE, {})
  /\ Same /\ UNCHANGED <<view, window>>

-----------------------------------------------------------------------------
(* The mode cycle: from m_writeMode + 1 round to m_writeMode.              *)

\* Mutants of LastStep: the loop ends one mode too early or too late.
LastStepShort == 6
LastStepLong == 8

LastStep == 7

Target(i) == (writeMode + i) % 7

\* The station does not show mode 1 in auto mode.
Skipped(i) == isAutoMode /\ Target(i) = 1

\* Mutant of EndCycle: the time of the next cycle is not set.
EndCycleStillDue ==
  /\ UNCHANGED cycleDue /\ step' = 0
  /\ pc' = "listen"

EndCycle ==
  /\ cycleDue' = FALSE /\ step' = 0
  /\ pc' = "listen"

ChangeMode(i, rest) ==
  /\ step' = i
  /\ pc' = "change"
  /\ \/ captured /\ mode' = Target(i) /\ line' = Append(rest, AllSettings(Target(i)))
     \/ Refuses /\ captured /\ line' = Append(rest, Ack(1)) /\ UNCHANGED mode
     \/ (Loses \/ ~captured) /\ line' = rest /\ UNCHANGED mode
  /\ UNCHANGED cycleDue

\* The next mode that is not skipped, or the end of the cycle.
NextMode(i, rest) ==
  \/ /\ \A j \in i .. LastStep : Skipped(j)
     /\ EndCycle /\ line' = rest /\ UNCHANGED mode
  \/ \E j \in i .. LastStep :
       /\ ~Skipped(j) /\ \A k \in i .. j - 1 : Skipped(k)
       /\ ChangeMode(j, rest)

StartCycle ==
  /\ pc = "take" /\ pending = Unknown /\ cycleDue
  /\ NextMode(1, line)
  /\ event' = {}
  /\ UNCHANGED <<auto, motor, fault, captured, known, view, pending,
                 cur, accepted, window, lastMotor>>

NoCycle ==
  /\ pc = "take" /\ pending = Unknown /\ ~cycleDue
  /\ pc' = "listen"
  /\ event' = {}
  /\ Same /\ UNCHANGED <<line, view, work, window, lastMotor>>

ModeChanged == Is("ALL") /\ Head(line).mode = Target(step)

RequestCurrentData ==
  /\ pc = "change" /\ ModeChanged
  /\ pc' = "data"
  /\ Ask(Info, Tail(line))
  /\ event' = {}
  /\ Same /\ UNCHANGED <<view, work, window, lastMotor>>

\* The cycle breaks off and the station stays in the mode it has reached.
ChangeFails ==
  /\ pc = "change"
  /\ \/ line # <<>> /\ ~ModeChanged /\ line' = Tail(line)
     \/ NoAnswer
  /\ EndCycle
  /\ known' = FALSE
  /\ event' = {}
  /\ UNCHANGED <<station, view, pending, cur, accepted, window, lastMotor>>

ReportDataPacket ==
  /\ pc = "data" /\ line # <<>>
  /\ event' = IF Is("INFO")
              THEN {DataEvent(Head(line), SetCmdMode(writeMode, Target(step)))} ELSE {}
  /\ NextMode(step + 1, Tail(line))
  /\ UNCHANGED <<auto, motor, fault, captured, known, view, pending,
                 cur, accepted, window, lastMotor>>

\* No packet: SetCmdMode is called on NULL.
Crash ==
  /\ pc = "data"
  /\ NoAnswer
  /\ pc' = "crashed"
  /\ event' = {}
  /\ Same /\ UNCHANGED <<view, work, window, lastMotor>>

-----------------------------------------------------------------------------
Init ==
  /\ mode \in HandModes
  /\ auto \in BOOLEAN /\ motor \in BOOLEAN
  /\ fault = 0
  /\ captured = FALSE
  /\ line = <<>>
  /\ pc = "listen"
  /\ writeMode = 0
  /\ isAutoMode = FALSE   \* not initialised, but set before the cycle reads it
  /\ motorStatus = Unknown
  /\ inFault = FALSE /\ faultCode = -1
  /\ period = Period
  /\ cycleDue = FALSE
  /\ step = 0
  /\ pending = Unknown /\ cur = Unknown
  /\ accepted = FALSE
  /\ known = FALSE
  /\ window = FALSE
  /\ lastMotor = Unknown
  /\ event = {}

Listening == HearInfo \/ HearOther \/ FollowMotorCmd \/ MotorInfo \/ MotorCmdEnds

Capturing == CaptureDevice \/ GetPasswords \/ SetPassword \/ PasswordIsSet \/ CaptureFails

Commanding ==
  TakeCommand \/ SettingReply \/ MotorReply \/ InfoReply \/ CommandUnanswered

Cycling ==
  \/ StartCycle \/ NoCycle
  \/ RequestCurrentData \/ ChangeFails \/ ReportDataPacket \/ Crash

Processor == Listening \/ Capturing \/ Commanding \/ Cycling

Next == Environment \/ Processor

Spec == Init /\ [][Next]_vars

(***************************************************************************)
(* The thread runs on, the panel keeps asking for data and a station that  *)
(* nobody talks to leaves the capture. A station that is asked again and   *)
(* again to be captured, or to take the password, agrees again and again.  *)
(* Clients leave a pause between commands again and again.                 *)
(***************************************************************************)
Fairness ==
  /\ WF_vars(Processor) /\ SF_vars(Report) /\ WF_vars(Release)
  /\ SF_vars(StartCycle)
  /\ SF_vars(CaptureDevice /\ line' = Append(line, Ack(Captured)))
  /\ SF_vars(SetPassword /\ Len(line') = Len(line) /\ line'[Len(line)].cmd = "ALL")

FairSpec == Spec /\ Fairness

-----------------------------------------------------------------------------
Packets ==
  [cmd : {"INFO"}, mode : Modes, motor : BOOLEAN, auto : BOOLEAN, fault : Faults \cup {0}]
  \cup [cmd : {"ACK"}, code : {0, 1, Captured}]
  \cup [cmd : {"ALL"}, mode : Modes]
  \cup [cmd : {"PASSWORDS", "VD", "REQ"}]

Reports ==
  [report : {"motor"}, on : BOOLEAN]
  \cup [report : {"fault"}, code : Faults \cup {0}, real : Faults \cup {0}]
  \cup [report : {"data"}, tag : 0 .. 7, mode : Modes]
  \cup [report : {"answer"}, ok : BOOLEAN, accepted : BOOLEAN]

Pcs == {"listen", "motorAck", "motorReq", "motorInfo", "capture", "capturing",
        "passwords", "password", "take", "command", "info", "change", "data",
        "crashed"}

\* Every variable has its type, and each mode tag fits the three bits of the
\* values that are stored.
TypeOK ==
  /\ {mode, writeMode} \subseteq Modes
  /\ {auto, motor, captured, isAutoMode, inFault, cycleDue, accepted, known, window}
       \subseteq BOOLEAN
  /\ fault \in Faults \cup {0} /\ faultCode \in Faults \cup {0, -1}
  /\ line \in Seq(Packets)
  /\ pc \in Pcs
  /\ {motorStatus, lastMotor} \subseteq BOOLEAN \cup {Unknown}
  /\ period \in 0 .. 2 * Period - 1
  /\ step \in 0 .. 7
  /\ {pending, cur} \subseteq Commands \cup {Unknown}
  /\ event \subseteq Reports

\* What the daemon takes for the mode of the station is its mode, whenever it
\* listens and nothing failed since it read it; except that the cycle does not
\* come back to mode 1 in auto mode, and ends in the mode before.
ModeIsKnown ==
  pc = "listen" /\ known =>
    mode = writeMode \/ (writeMode = 1 /\ mode = 0)

\* Data measured while the operator's mode is 0 is stored under the mode it was
\* measured in, in the regular traffic and all through the cycle.
DataIsTagged ==
  known /\ writeMode = 0 =>
    \A e \in event : e.report = "data" => e.tag = e.mode

\* A success answer to a command means the station accepted that command.
OkMeansAccepted ==
  \A e \in event : e.report = "answer" /\ e.ok => e.accepted

\* A fault that is reported as gone is gone, as long as the mode is known.
ClearedMeansClear ==
  known => \A e \in event : e.report = "fault" /\ e.code = 0 => e.real = 0

\* A motor status that is known is the one reported last, whichever way the
\* change was noticed, as long as no client switches the motor: after a client's
\* command it is the command that is reported.
MotorIsReported ==
  Commands \subseteq {"set"} /\ Unknown \notin {motorStatus, lastMotor} =>
    lastMotor = motorStatus

-----------------------------------------------------------------------------
\* A queued command is answered, and a mode cycle that is due is made.
CommandIsAnswered == pending # Unknown ~> pending = Unknown /\ cur = Unknown
CycleIsMade == cycleDue ~> ~cycleDue
=============================================================================
