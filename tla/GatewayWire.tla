---------------------------- MODULE GatewayWire ----------------------------
(***************************************************************************)
(* The bytes between a logger thread and the gateway that owns the         *)
(* databases: items, records, packets and commands as gateway/data and     *)
(* gateway/command write and read them, and the commands that the loggers  *)
(* make of the daemon's records (BindParams). When they are sent is the    *)
(* subject of LoggerThreads.                                               *)
(*                                                                         *)
(* A text is a sequence of character codes 1 .. 255, a stream a sequence   *)
(* of bytes; an input stream knows whether a read failed.                  *)
(***************************************************************************)
EXTENDS Integers, Sequences, SequencesExt

alignment == 4

Zeros(n) == [i \in 1 .. n |-> 0]

\* fstring_t: strncpy, cut or filled with zeros to the fixed size.
FixedText(text, n) == SubSeq(text \o Zeros(n), 1, n)

\* The length of a date: 19 characters and a zero.
date_t == 20

\* "WRP", "WRE", "RDP", "RDE", "RDS", and the ends of a command and of a record.
Mark == [wrp |-> <<87, 82, 80, 0>>, wre |-> <<87, 82, 69, 0>>,
         rdp |-> <<82, 68, 80, 0>>, rde |-> <<82, 68, 69, 0>>, rds |-> <<82, 68, 83, 0>>]

eoc == <<36, 47, 128, 128>>
eor == <<36, 128, 128, 128>>

\* The fields of each record; a channel is an id, a value is sent as its bits.
channel_t == <<"int">>
sample_t  == <<"int", "int", "date", "int">>
event_t   == <<"int", "int", "date", "text", "text", "text", "text">>
vstring_t == <<"text">>

\* The records of each command.
Fields == [wrp |-> sample_t, wre |-> event_t,
           rdp |-> channel_t, rde |-> channel_t, rds |-> vstring_t]

\* _read_command_t has no end-of-record marks.
UseEors == [wrp |-> TRUE, wre |-> TRUE, rdp |-> FALSE, rde |-> FALSE, rds |-> TRUE]

\* What bin_read makes of each mark: an RDE is read as an RDP.
Made == [wrp |-> "wrp", wre |-> "wre", rdp |-> "rdp", rde |-> "rdp", rds |-> "rds"]

-----------------------------------------------------------------------------
(* Writing.                                                                *)

\* Four bytes, the highest first, negative numbers in two's complement.
WriteInt(i) == [k \in 1 .. 4 |-> (i \div (256 ^ (4 - k))) % 256]

Pad(text) == (alignment - (Len(text) % alignment)) % alignment

\* A text is sent with its padded length in front.
WriteField(kind, value) ==
  CASE kind = "int"  -> WriteInt(value)
    [] kind = "date" -> FixedText(value, date_t)
    [] kind = "text" -> WriteInt(Len(value) + Pad(value)) \o value \o Zeros(Pad(value))

\* Mutant of SizeOfField: the padding is left out.
SizeUnpadded(kind, value) ==
  CASE kind = "int"  -> 4
    [] kind = "date" -> date_t
    [] kind = "text" -> 4 + Len(value)

SizeOfField(kind, value) ==
  CASE kind = "int"  -> 4
    [] kind = "date" -> date_t
    [] kind = "text" -> 4 + Len(value) + Pad(value)

Total(sizes) ==
  LET total[i \in 0 .. Len(sizes)] == IF i = 0 THEN 0 ELSE total[i - 1] + sizes[i]
  IN  total[Len(sizes)]

\* size() of a record adds up the fields before any of them is written.
SizeOf(fields, item) == Total([i \in DOMAIN fields |-> SizeOfField(fields[i], item[i])])

WriteItem(fields, item) == FlattenSeq([i \in DOMAIN fields |-> WriteField(fields[i], item[i])])

write_packet(fields, items, eors) ==
  LET end == IF eors THEN eor ELSE <<>>
  IN  WriteInt(Total([i \in DOMAIN items |-> SizeOf(fields, items[i]) + Len(end)]))
        \o FlattenSeq([i \in DOMAIN items |-> WriteItem(fields, items[i]) \o end])

bin_write(cmd) ==
  Mark[cmd.type] \o write_packet(Fields[cmd.type], cmd.items, UseEors[cmd.type]) \o eoc

-----------------------------------------------------------------------------
(* Reading. A short read fails the stream, and so does every ERR. (What a  *)
(* stream does that ends before the size of a packet depends on an integer *)
(* that is not initialised; no input here ends there.)                     *)

Stream(bytes) == [good |-> TRUE, left |-> bytes]

Failed == [good |-> FALSE, left |-> <<>>]

Skip(stream, n) ==
  IF stream.good /\ n >= 0 /\ Len(stream.left) >= n
  THEN [stream EXCEPT !.left = SubSeq(@, n + 1, Len(@))] ELSE Failed

\* A read gives a value and the stream after it.
ReadBytes(stream, n) ==
  LET after == Skip(stream, n)
  IN  [stream |-> after, value |-> IF after.good THEN SubSeq(stream.left, 1, n) ELSE <<>>]

IntAt(bytes) ==
  (IF bytes[1] >= 128 THEN bytes[1] - 256 ELSE bytes[1]) * (256 ^ 3)
    + bytes[2] * (256 ^ 2) + bytes[3] * 256 + bytes[4]

AsInt(read) == [read EXCEPT !.value = IF read.stream.good THEN IntAt(@) ELSE -1]

ReadInt(stream) == AsInt(ReadBytes(stream, 4))

\* The padding, and any zero before it, is dropped from a text.
Unpadded(text) == SubSeq(text, 1, Max({0} \cup {i \in DOMAIN text : text[i] # 0}))

\* The characters of a text whose length was read; a negative one is an ERR.
ReadText(length) == [ReadBytes(length.stream, length.value) EXCEPT !.value = Unpadded(@)]

ReadField(kind, stream) ==
  CASE kind = "int"  -> ReadInt(stream)
    [] kind = "date" -> ReadBytes(stream, date_t)
    [] kind = "text" -> ReadText(ReadInt(stream))

AddTo(read, next) == [stream |-> next.stream, value |-> Append(read.value, next.value)]

ReadNext(kind, read) == AddTo(read, ReadField(kind, read.stream))

ReadItem(fields, stream) ==
  LET read[i \in 0 .. Len(fields)] ==
        IF i = 0 THEN [stream |-> stream, value |-> <<>>] ELSE ReadNext(fields[i], read[i - 1])
  IN  read[Len(fields)]

\* The mark that must come next.
Expect(mark, stream) ==
  IF Skip(stream, 4).good /\ SubSeq(stream.left, 1, 4) = mark THEN Skip(stream, 4) ELSE Failed

\* A packet must end where its size says.
Whole(read, left) ==
  IF read.stream.good /\ Len(read.stream.left) = left THEN read ELSE [stream |-> Failed, value |-> <<>>]

ReadRecord(fields, eors, read) ==
  LET next == AddTo(read, ReadItem(fields, read.stream))
  IN  IF eors THEN [next EXCEPT !.stream = Expect(eor, @)] ELSE next

\* Records are read until the size is used up, and each may take more than is
\* left of it.
ReadUpTo(left, fields, eors, read) ==
  IF ~read.stream.good \/ Len(read.stream.left) <= left THEN read ELSE ReadRecord(fields, eors, read)

\* No record is shorter than a word, so size \div 4 turns are enough.
ReadRecords(fields, eors, size) ==
  LET left == Len(size.stream.left) - size.value
      read[i \in 0 .. size.value \div 4] ==
        IF i = 0 THEN [size EXCEPT !.value = <<>>] ELSE ReadUpTo(left, fields, eors, read[i - 1])
  IN  IF size.stream.good /\ size.value >= 0 /\ size.value % alignment = 0
      THEN Whole(read[size.value \div 4], left)
      ELSE [stream |-> Failed, value |-> <<>>]

read_packet(fields, eors, stream) == ReadRecords(fields, eors, ReadInt(stream))

\* The end of a command must come after its packet.
Ended(type, read) ==
  [stream |-> Expect(eoc, read.stream), cmd |-> [type |-> type, items |-> read.value]]

ReadCommand(type, stream) ==
  Ended(type, read_packet(Fields[type], UseEors[type], stream))

\* One command off the stream: an unknown mark is an error.
bin_read(stream) ==
  LET known == {t \in DOMAIN Mark : Expect(Mark[t], stream).good}
  IN  IF known = {} THEN [stream |-> Failed, cmd |-> [type |-> "none", items |-> <<>>]]
      ELSE ReadCommand(Made[CHOOSE t \in known : TRUE], Skip(stream, 4))

-----------------------------------------------------------------------------
(* What the loggers send: one record per command.                          *)

\* The bits of the float nearest to a number of 16 bits, which is exact.
FloatBits(n) ==
  LET e == CHOOSE k \in 0 .. 15 : 2 ^ k <= n /\ n < 2 ^ (k + 1)
  IN  IF n = 0 THEN 0 ELSE (127 + e) * 2 ^ 23 + (n - 2 ^ e) * 2 ^ (23 - e)

\* A DBDataPacket.
SampleCommand(packet, date) ==
  [type |-> "wrp", items |-> <<<<packet.param, packet.channel, date, FloatBits(packet.value)>>>>]

\* A DBEventCommon.
EventCommand(event, date) ==
  [type |-> "wre", items |-> <<<<event.typeId, event.channelId, date>> \o event.arguments>>]
=============================================================================
