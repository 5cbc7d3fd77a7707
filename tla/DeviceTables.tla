---------------------------- MODULE DeviceTables ----------------------------
(***************************************************************************)
(* What RitexDevice and ComTrafficProcessor look up: where each setting    *)
(* and each measured parameter lies in the station's packets, what a       *)
(* packet of a given command and length is, and the records made of a      *)
(* packet (measurements, events).                                          *)
(*                                                                         *)
(* Packets are sequences of bytes; positions count from 0 as in the code.  *)
(* StationLink and EchoCancel say when packets come, Frames how they are   *)
(* sent, Settings what becomes of the values of settings.                  *)
(***************************************************************************)
EXTENDS Integers, Sequences, FiniteSets, SequencesExt

Get(bytes, position) == bytes[position + 1]

\* memcpy and swap16: the high byte comes first.
Value(bytes, offset, size) ==
  IF size = 1 THEN Get(bytes, offset) ELSE 256 * Get(bytes, offset) + Get(bytes, offset + 1)

-----------------------------------------------------------------------------
(* The tables.                                                             *)

\* all_Settings: id, offset in the packet of all settings (-1: not there), size.
all_Settings == <<
  <<31,0,2>>, <<32,2,1>>, <<33,3,1>>, <<34,4,2>>, <<35,6,1>>, <<36,7,1>>,
  <<37,8,2>>, <<38,10,1>>, <<39,11,1>>, <<40,12,2>>, <<41,14,2>>, <<42,16,2>>,
  <<43,18,2>>, <<44,20,2>>, <<45,22,1>>, <<46,23,2>>, <<47,25,2>>,
  <<48,27,2>>, <<49,-1,2>>, <<50,-1,2>>, <<51,-1,2>>, <<52,29,2>>,
  <<53,31,1>>, <<54,32,1>>, <<55,33,1>>, <<56,34,1>>, <<57,35,1>>,
  <<58,36,1>>, <<59,37,1>>, <<60,38,1>>, <<61,39,2>>, <<62,41,1>>,
  <<63,42,1>>, <<64,43,1>>, <<65,44,1>>, <<66,45,2>>, <<152,-1,2>>,
  <<155,-1,2>>, <<156,-1,2>>, <<157,-1,2>>, <<158,-1,2>>, <<159,-1,2>>,
  <<160,-1,2>>, <<161,-1,2>>>>

\* "Service mode" is the only row that is not visible.
Hidden == {45}

\* The byte of the settings packet that the mode cycle writes.
WRITE_MODE_OFFSET == 22

\* The channels of the only sensor: channel, parameter, mode, offset, size.
Sensor == <<
  <<2,1050100150,5,2,2>>, <<3,1050000020,5,4,2>>, <<4,1050000030,5,6,1>>,
  <<5,1050109020,5,7,2>>, <<6,1050109030,5,9,2>>, <<7,1050110080,5,11,1>>,
  <<8,1050101010,5,12,1>>, <<9,1050110090,5,13,1>>, <<10,1050101020,5,14,1>>,
  <<11,1050110100,5,15,1>>, <<12,1050101030,5,16,1>>, <<13,1050110030,2,7,1>>,
  <<14,1050110040,2,8,1>>, <<15,1050111080,2,9,2>>, <<16,1050111090,2,11,2>>,
  <<17,1050111100,2,13,2>>, <<18,1050111110,2,15,2>>,
  <<19,1050111120,2,17,2>>, <<20,1050104000,2,25,1>>,
  <<21,1050104010,2,26,1>>, <<22,1050100110,2,27,1>>,
  <<23,1050100120,2,28,1>>, <<24,1050100130,2,29,1>>,
  <<25,1050100140,2,30,1>>, <<26,1050100090,0,0,1>>, <<27,1050100100,0,1,1>>,
  <<29,1050101000,0,13,2>>, <<30,1050110050,2,4,1>>, <<31,1050110060,2,5,1>>,
  <<32,1050110070,2,6,1>>, <<34,1050111000,2,19,2>>, <<35,1050111010,2,21,2>>,
  <<36,1050111020,2,23,2>>, <<37,1050111070,0,5,2>>, <<38,1050110020,0,15,1>>,
  <<39,1050100060,0,8,1>>, <<40,1050100070,0,9,1>>, <<41,1050100080,0,10,1>>,
  <<43,1050110010,0,4,1>>, <<44,1050100050,0,7,1>>, <<45,1050112010,0,35,2>>,
  <<46,1050112020,0,18,1>>, <<47,1050117000,0,11,2>>, <<48,1050109010,0,2,2>>,
  <<50,1050201000,0,29,2>>, <<51,1050102010,0,25,2>>,
  <<52,1050601010,0,33,2>>, <<53,1080105030,0,17,1>>,
  <<54,1080104010,0,16,1>>, <<55,1080104020,3,2,1>>, <<56,1080100009,3,4,2>>,
  <<57,1080100010,3,6,2>>, <<58,1080105040,3,10,2>>>>

\* The channel of the device itself has no place in a packet.
DEVICE_STATE_CHANNEL_PARAM == 1050100010

\* What -d prints, and the parameter filter is made of: the device's channel
\* and those of the sensor.
ShownChannels ==
  <<[channel |-> 0, param |-> DEVICE_STATE_CHANNEL_PARAM]>>
    \o [i \in DOMAIN Sensor |-> [channel |-> Sensor[i][1], param |-> Sensor[i][2]]]

\* The station's date and time, in the packet of mode 0.
ClockBytes == 19 .. 24

\* The codes with a text.
fault_codes == {
  0, 1, 2, 3, 4, 20, 21, 22, 30, 31, 32, 33, 10, 40, 41, 42, 43, 44, 50, 51,
  52, 53, 54, 55, 56, 57, 58, 59, 60, 61, 62, 63, 64, 65}

\* Requests and answers: command byte, length (with the command), the answers
\* expected; the answers to an information request are as long as the mode says.
m_cmdParams == <<
  <<"REQ_VD_OFF", 132, 1>>, <<"REQ_INFO", 148, 1>>, <<"REQ_DEVICE_REQ", 136, 1>>,
  <<"REQ_SETTING_ALL_GET", 156, 1>>, <<"REQ_PASSWORD_GET", 164, 1>>,
  <<"REQ_VD_ROTATION", 140, 2>>, <<"REQ_VD_ON", 128, 2>>, <<"REQ_SET_SPEED", 160, 2>>,
  <<"REQ_SETTING_SET", 144, 4>>, <<"REQ_STORED_INFO_REQUEST", 152, 7>>>>

m_ackParams == <<
  <<"ACK_ACK", 11, 2>>, <<"ACK_PASSWORDS", 112, 5>>, <<"ACK_ALL_SETTINGS", 108, 48>>,
  <<"ACK_INFO_MODE_0", 100, 40>>, <<"ACK_INFO_MODE_1", 100, 5>>, <<"ACK_INFO_MODE_2", 100, 32>>,
  <<"ACK_INFO_MODE_3", 100, 18>>, <<"ACK_INFO_MODE_4", 100, 13>>, <<"ACK_INFO_MODE_5", 100, 18>>,
  <<"ACK_INFO_MODE_6", 100, 19>>, <<"ACK_STORED_INFO", 104, 531>>>>

\* Computed from the other table, which is one row shorter.
MAX_ACK_INDEX == Len(m_cmdParams)

\* The bytes of the packet of a mode, without the command.
ModeSize(mode) == m_ackParams[4 + mode][3] - 1

\* Commands are tried first; "none" is skipped byte by byte.
isLengthMatches(cmd, length) ==
  IF \E i \in DOMAIN m_cmdParams : m_cmdParams[i][2] = cmd /\ m_cmdParams[i][3] = length THEN "command"
  ELSE IF \E i \in 1 .. MAX_ACK_INDEX : m_ackParams[i][2] = cmd /\ m_ackParams[i][3] = length THEN "answer"
  ELSE "none"

-----------------------------------------------------------------------------
(* Measurements.                                                           *)

\* Where a parameter lies: the first channel that has it; nothing for one that
\* no channel has, or that has no place in a packet.
FindGarameter(param) ==
  LET rows == {i \in DOMAIN Sensor : Sensor[i][2] = param}
  IN  IF rows = {} THEN <<>> ELSE <<Sensor[CHOOSE i \in rows : \A j \in rows : i <= j]>>

\* Mutant of CreateOffsetTable: one start fills the table twice.
CreateOffsetTableTwice(table, filter) ==
  LET entry(wanted) ==
        LET found == FindGarameter(wanted.param)
        IN  [k \in DOMAIN found |-> [channel |-> wanted.channel, param |-> wanted.param,
                                     mode |-> found[k][3], offset |-> found[k][4], size |-> found[k][5]]]
      once == FlattenSeq([i \in DOMAIN filter |-> entry(filter[i])])
  IN  table \o once \o once

\* CreateOffsetTable: the wanted channels (pairs of the filter) with their
\* places. The table grows with every start, also with one that fails.
CreateOffsetTable(table, filter) ==
  table \o FlattenSeq([i \in DOMAIN filter |->
    LET found == FindGarameter(filter[i].param)
    IN  [k \in DOMAIN found |-> [channel |-> filter[i].channel, param |-> filter[i].param,
                                 mode |-> found[k][3], offset |-> found[k][4], size |-> found[k][5]]]])

DBDataPacket(channel, param, value) == [channel |-> channel, param |-> param, value |-> value]

\* One record for each row of the packet's mode.
ReportDataPacket(table, mode, data) ==
  LET records[n \in 0 .. Len(table)] ==
        IF n = 0 THEN <<>>
        ELSE IF table[n].mode # mode THEN records[n - 1]
        ELSE Append(records[n - 1],
                    DBDataPacket(table[n].channel, table[n].param,
                                 Value(data, table[n].offset, table[n].size)))
  IN  records[Len(table)]

-----------------------------------------------------------------------------
(* Events.                                                                 *)

\* The channel of events: the one the filter has for the device's state, or -1.
GetDeviceStateChannelId(filter) ==
  LET rows == SelectSeq(filter, LAMBDA wanted : wanted.param = DEVICE_STATE_CHANNEL_PARAM)
  IN  IF rows = <<>> THEN -1 ELSE Head(rows).channel

\* A new DBEventCommon has "X" for every argument.
DBEventCommon == [typeId |-> 0, channelId |-> -1, arguments |-> [n \in 1 .. 4 |-> <<88>>]]

\* The setters: a text is a sequence of character codes.
Event(typeId, filter, texts) ==
  [DBEventCommon EXCEPT !.typeId = typeId,
                        !.channelId = GetDeviceStateChannelId(filter),
                        !.arguments = texts @@ @]

\* A number below 100 in digits.
itoa(n) == IF n < 10 THEN <<48 + n>> ELSE <<48 + (n \div 10), 48 + (n % 10)>>

\* A code without a text has the empty text; one character stands for a text.
getFaultText(code) == IF code \in fault_codes THEN <<192 + (code % 64)>> ELSE <<>>

ReportFault(filter, code) ==
  IF code = 0 THEN Event(25, filter, <<>>)
  ELSE Event(8, filter, <<getFaultText(code), <<69, 45>> \o itoa(code)>>)

\* The third argument says it in words (here "0" and "1").
ReportStationState(filter, new, old, source) ==
  Event(10, filter, <<itoa(new), itoa(old), IF new = 0 THEN <<48>> ELSE <<49>>, source>>)

ReportDeviation(filter, minutes) == Event(6, filter, <<itoa(minutes)>>)
=============================================================================
