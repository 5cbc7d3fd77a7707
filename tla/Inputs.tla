------------------------------- MODULE Inputs -------------------------------
(***************************************************************************)
(* Lines and gateway commands on their way from one process to another,    *)
(* and the frames and packets that arrive, with their clock: one step      *)
(* chooses an input, and the invariants say what CmdLine, GatewayWire,     *)
(* Frames, DeviceTables and StationClock must make of it. MCInputs gives   *)
(* the inputs.                                                             *)
(***************************************************************************)
EXTENDS CmdLine, GatewayWire, Frames, StationClock, FiniteSets

CONSTANTS
  Lines,    \* the lines a user may type, the program first
  Commands, \* the commands the loggers may send
  Filters,  \* what the database may have for the parameter filter
  Contents, \* what packets may have for their data
  Outgoing, \* the packets that may be sent, a command and data
  Noises,   \* what else may be on the line, before and after a packet
  Arrivals, \* the sequences of packets that may arrive
  SyncTimes \* the limits that may be given, -1 being none

VARIABLE input

-----------------------------------------------------------------------------
(* What can be chosen.                                                     *)

\* Sequences of arguments, which are sequences of at least one word; exec always gives
\* the program.
ASSUME LinesAssumption == Lines \subseteq Seq(Seq(STRING) \ {<<>>}) \ {<<>>}

Byte == 0 .. 255

\* What an int of the gateway holds, from -2^31 to 2^31 - 1 (TLC's numbers are no wider).
Int32 == -(2 ^ 30) - 2 ^ 30 .. 2 ^ 30 - 1 + 2 ^ 30

\* A text has no zero in it, so it ends where its padding begins.
Text == Seq(1 .. 255)

\* What the fields of a kind hold: an int, a date of the fixed length, a text whose
\* padded length an int holds.
Sendable(kind) ==
  CASE kind = "int"  -> Int32
    [] kind = "date" -> {date \in Seq(Byte) : Len(date) = date_t}
    [] kind = "text" -> {text \in Text : Len(text) + Pad(text) \in Int32}

\* A sequence of values, one for each field.
IsItem(fields, item) ==
  /\ item = [i \in 1 .. Len(fields) |-> item[i]]
  /\ \A i \in 1 .. Len(fields) : item[i] \in Sendable(fields[i])

\* A type and a sequence of items of its records, no larger than an int holds. An
\* RDE, which bin_read takes for an RDP, is never sent.
ASSUME CommandsAssumption ==
  \A cmd \in Commands :
    /\ cmd = [type |-> cmd.type, items |-> cmd.items]
    /\ cmd.type \in DOMAIN Mark /\ Made[cmd.type] = cmd.type
    /\ Len(cmd.items) \in Nat /\ cmd.items = [i \in 1 .. Len(cmd.items) |-> cmd.items[i]]
    /\ \A i \in 1 .. Len(cmd.items) : IsItem(Fields[cmd.type], cmd.items[i])
    /\ Len(bin_write(cmd)) \in Int32

\* Any rows of any numbers, in any order, also one twice; and any bytes.
ASSUME ContentsAssumption ==
  /\ Filters \subseteq Seq([channel : Int, param : Int])
  /\ Contents \subseteq Seq(Byte)

\* Bytes, and a checksum of sixteen bits.
ASSUME FramesAssumption ==
  /\ Noises \subseteq Seq(Byte)
  /\ \A packet \in Outgoing :
       /\ packet = [cmd |-> packet.cmd, data |-> packet.data]
       /\ packet.cmd \in Byte /\ packet.data \in Seq(Byte)
       /\ Checksum(Body(packet.cmd, packet.data)) \in Nat

\* The station's time in minutes, the computer's in seconds.
ASSUME ArrivalsAssumption ==
  /\ Arrivals \subseteq Seq([mode : 0 .. 6, minute : Int, local : Int])
  /\ SyncTimes \subseteq Int

-----------------------------------------------------------------------------
Init == input = [kind |-> "none"]

ChooseLine ==
  /\ input.kind = "none"
  /\ \E argv \in Lines : input' = [kind |-> "line", argv |-> argv]

\* Two commands, one after the other.
ChooseCommands ==
  /\ input.kind = "none"
  /\ \E first, second \in Commands :
       input' = [kind |-> "commands", first |-> first, second |-> second]

\* A command that ends somewhere after its size.
ChooseCut ==
  /\ input.kind = "none"
  /\ \E first \in Commands : \E length \in 8 .. Len(bin_write(first)) - 1 :
       input' = [kind |-> "cut", first |-> first, length |-> length]

\* A packet of a mode, as long as the station makes them in it.
ChoosePacket ==
  /\ input.kind = "none"
  /\ \E filter \in Filters, mode \in 0 .. 6, data \in Contents :
       /\ Len(data) = ModeSize(mode)
       /\ input' = [kind |-> "packet", filter |-> filter, mode |-> mode, data |-> data]

\* A packet of a length that its command has, sent after bytes that are no address.
ChooseFrame ==
  /\ input.kind = "none"
  /\ \E packet \in Outgoing, before, after \in Noises :
       /\ isLengthMatches(packet.cmd, Len(packet.data) + 1) # "none"
       /\ KSU_ADDRESS \notin ToSet(before)
       /\ input' = [kind |-> "frame", packet |-> packet, before |-> before, after |-> after]

ChooseClock ==
  /\ input.kind = "none"
  /\ \E packets \in Arrivals, sync_time \in SyncTimes :
       input' = [kind |-> "clock", packets |-> packets, limit |-> TimeLimit(sync_time)]

Next == ChooseLine \/ ChooseCommands \/ ChooseCut \/ ChoosePacket \/ ChooseFrame \/ ChooseClock

Spec == Init /\ [][Next]_input

-----------------------------------------------------------------------------
(* Lines.                                                                  *)

\* A line that has arguments without blanks, the last of them not empty, means
\* the same to the daemon that gets it as one string as to the client that got
\* it as arguments (CmdLineParser::GetCmdLine and SetCmdLine).
ForwardedIsSame ==
  input.kind = "line" =>
    LET argv == input.argv
    IN  (\A i \in DOMAIN argv : Len(argv[i]) = 1) /\ Last(argv) # <<"">>
          => Understand(SetCmdLine(GetCmdLine(argv))) = Understand(argv)

\* An argument whose blanks make an option of a part of it, when it is split.
HidesOption(arg) == Len(arg) > 1 /\ \E i \in DOMAIN arg : arg[i] \in Options

\* Blanks and empty arguments included: if the client made a command of a line
\* (and so got to the point of sending it), the daemon does not fail an
\* assertion of CreateExternalCommand or use a missing template; that would end
\* the daemon and everybody's measurements. Only an option within the program's
\* name or within an argument before a -sp could make another command of it.
LineNeverAbortsDaemon ==
  input.kind = "line" =>
    LET argv == input.argv
    IN  /\ Understand(argv)[1] \notin {"refused", "assert", "crash"}
        /\ \A i \in DOMAIN argv : HidesOption(argv[i]) =>
             i # 1 /\ \A j \in DOMAIN argv : argv[j] = <<"-sp">> => j < i
        => Understand(SetCmdLine(GetCmdLine(argv)))[1] \notin {"assert", "crash"}

-----------------------------------------------------------------------------
(* Commands to the gateway.                                                *)

\* What comes after the first command that is read.
Rest(first) == [first |-> first.cmd, second |-> bin_read(first.stream)]

\* Commands written one after the other are read back one after the other as
\* they were, with nothing left over, so that neither their sizes nor the
\* padding of their texts shifts what follows; and one that is cut off anywhere
\* after its size is refused (gateway/data and gateway/command).
GatewayReadsWhatWasSent ==
  /\ input.kind = "commands" =>
       Rest(bin_read(Stream(bin_write(input.first) \o bin_write(input.second)))) =
         [first |-> input.first, second |-> [stream |-> Stream(<<>>), cmd |-> input.second]]
  /\ input.kind = "cut" =>
       ~bin_read(Stream(SubSeq(bin_write(input.first), 1, input.length))).stream.good

-----------------------------------------------------------------------------
(* Frames.                                                                 *)

\* A packet is read as it was sent, whatever is on the line before its address or
\* after its end, and however long it is (DataPacket::CreateRawPacket against
\* ComTrafficProcessor::ReadPacket).
FrameIsReadBack ==
  input.kind = "frame" =>
    LET packet == input.packet
        frame  == CreateRawPacket(packet.cmd, packet.data)
    IN  ReadPacket(input.before \o frame \o input.after) =
          [type |-> isLengthMatches(packet.cmd, Len(packet.data) + 1),
           cmd |-> packet.cmd, data |-> packet.data]

-----------------------------------------------------------------------------
(* Packets.                                                                *)

\* The channels that row k of the filter wants of a packet of the mode.
Channels(filter, mode, k) ==
  {i \in DOMAIN Sensor : Sensor[i][2] = filter[k].param /\ Sensor[i][3] = mode}

\* One record for every row of the filter that wants a parameter of the mode and for
\* nothing else, in the filter's order, with the row's channel and the value at the
\* parameter's place.
EveryRowRecorded(filter, mode, data) ==
  LET records == ReportDataPacket(CreateOffsetTable(<<>>, filter), mode, data)
      wanted == {k \in DOMAIN filter : Channels(filter, mode, k) # {}}
  IN  /\ Len(records) = Cardinality(wanted)
      /\ \A k \in wanted : \E i \in Channels(filter, mode, k) :
           records[Cardinality({j \in wanted : j <= k})] =
             DBDataPacket(filter[k].channel, filter[k].param,
                          Value(data, Sensor[i][4], Sensor[i][5]))

\* The places lie inside the packet, and no other parameter and not the clock has any
\* of their bytes.
PlacesApart(filter, mode) ==
  LET table == CreateOffsetTable(<<>>, filter)
      bytes(x) == table[x].offset .. table[x].offset + table[x].size - 1
      clock == IF mode = 0 THEN ClockBytes ELSE {}
  IN  \A x, y \in DOMAIN table : table[x].mode = mode /\ table[y].mode = mode =>
        /\ bytes(x) \subseteq (0 .. ModeSize(mode) - 1) \ clock
        /\ table[x].param # table[y].param => bytes(x) \cap bytes(y) = {}

\* The bytes of the settings packet have one setting each, the one that the mode cycle
\* writes being the hidden one.
SettingsApart ==
  LET bytes(i) == all_Settings[i][2] .. all_Settings[i][2] + all_Settings[i][3] - 1
      placed == {i \in DOMAIN all_Settings : all_Settings[i][2] # -1}
  IN  /\ \A i \in placed : bytes(i) \subseteq 0 .. m_ackParams[3][3] - 2
      /\ \A i, j \in placed : i # j => bytes(i) \cap bytes(j) = {}
      /\ \A i \in placed : WRITE_MODE_OFFSET \in bytes(i) <=> all_Settings[i][1] \in Hidden

\* Of every packet each parameter that the database asks for is recorded once, from bytes
\* of its own (RitexDevice's tables, CreateOffsetTable and ReportDataPacket, after the
\* first start of the measurements).
RecordedOnce ==
  input.kind = "packet" =>
    /\ EveryRowRecorded(input.filter, input.mode, input.data)
    /\ PlacesApart(input.filter, input.mode)
    /\ SettingsApart

-----------------------------------------------------------------------------
(* The station's clock.                                                    *)

\* A clock that goes wrong is reported when it does, once, and again only after
\* it was seen right; packets without the time change nothing
\* (RitexDevice::CheckAndReportTimeDiviation).
DeviationReportedOnce ==
  input.kind = "clock" =>
    LET packets == input.packets
        timed == {i \in DOMAIN packets : packets[i].mode = 0}
        far(i) == Distance(packets[i].local, 60 * packets[i].minute) > input.limit
        begins(i) == far(i) /\ \A j \in timed : j < i =>
                       \/ ~far(j)
                       \/ \E k \in timed : j < k /\ k < i /\ ~far(k)
    IN  Len(ClockReports(input.limit, packets).events) = Cardinality({i \in timed : begins(i)})
=============================================================================
