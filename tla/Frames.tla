------------------------------- MODULE Frames -------------------------------
(***************************************************************************)
(* The raw frame of a packet on the serial line: address, length, command, *)
(* data, CRC-16; how DataPacket writes it and how ComTrafficProcessor      *)
(* accepts it. EchoCancel says how the bytes get there. The checksum is a  *)
(* parameter; Checksums has the real one.                                  *)
(***************************************************************************)
EXTENDS DeviceTables

CONSTANT Checksum(_)  \* Crc16 of a sequence of bytes

KSU_ADDRESS == 54

\* ExecuteCustomCommand: the bytes of a request.
Payload(request, param1, param2) ==
  CASE request = 144        -> <<param1, param2 \div 256, param2 % 256>>
    [] request \in {128, 140} -> <<param1>>
    [] OTHER                -> <<>>

\* What the checksum is about.
Body(cmd, data) ==
  LET size == Len(data) + 1
  IN  <<KSU_ADDRESS, size \div 256, size % 256, cmd>> \o data

\* Mutant of CreateRawPacket: the checksum as the machine has it, the low byte first.
CreateRawPacketSwapped(cmd, data) ==
  LET crc == Checksum(Body(cmd, data))
  IN  Body(cmd, data) \o <<crc % 256, crc \div 256>>

CreateRawPacket(cmd, data) ==
  LET crc == Checksum(Body(cmd, data))
  IN  Body(cmd, data) \o <<crc \div 256, crc % 256>>

\* ReadPacket from the address on: a frame that is cut, has no known command and
\* length, or a wrong checksum is an error.
ReadFrame(frame) ==
  LET length == 256 * frame[2] + frame[3]
      type   == isLengthMatches(frame[4], length)
      sum    == Checksum(SubSeq(frame, 1, length + 3))
  IN  IF Len(frame) < 4 \/ type = "none" \/ Len(frame) < length + 5 THEN [type |-> "error"]
      ELSE IF 256 * frame[length + 4] + frame[length + 5] # sum THEN [type |-> "error"]
      ELSE [type |-> type, cmd |-> frame[4], data |-> SubSeq(frame, 5, length + 3)]

\* Bytes before the address are skipped.
ReadPacket(bytes) ==
  LET found == {i \in DOMAIN bytes : bytes[i] = KSU_ADDRESS}
      start == CHOOSE i \in found : \A j \in found : i <= j
  IN  IF found = {} THEN [type |-> "error"] ELSE ReadFrame(SubSeq(bytes, start, Len(bytes)))
=============================================================================
