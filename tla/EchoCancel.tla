----------------------------- MODULE EchoCancel -----------------------------
(***************************************************************************)
(* The bytes under StationLink: WritePacket, ReadPacket and Read of        *)
(* ComTrafficProcessor on a half-duplex line, where every byte sent comes  *)
(* back as an echo. WritePacket remembers what it sends in m_echoCancelFifo*)
(* and Read takes it off again from what arrives.                          *)
(*                                                                         *)
(* The daemon repeats one exchange: a request, and the answer of the       *)
(* station. Between two of them it does not drain the line, as a failed    *)
(* capture does (Run, line 731).                                           *)
(***************************************************************************)
EXTENDS Naturals, Sequences, FiniteSetsExt

CONSTANTS
  Request, Answer,   \* packets: address, length (2 bytes), command, data, CRC (2 bytes)
  Address,           \* KSU_ADDRESS
  StrayBytes,        \* bytes that the panel or a disturbance may put on the line
  MaxFaults          \* how many bytes are lost, damaged or put on the line (a bound)

Packets == {Request, Answer}

ASSUME PacketsAssumption ==
  \A p \in Packets : p \in Seq(Nat) /\ Len(p) >= 6 /\ p[1] = Address
\* The length field is part of the header: it tells how long a packet is.
ASSUME HeaderAssumption ==
  \A p, q \in Packets : SubSeq(p, 1, 4) = SubSeq(q, 1, 4) => Len(p) = Len(q)
ASSUME BytesAssumption == Address \in Nat /\ StrayBytes \subseteq Nat
ASSUME MaxFaultsAssumption == MaxFaults \in Nat

VARIABLES
  pc,       \* the field ReadPacket reads, or what WritePacket does
  fifo,     \* m_echoCancelFifo
  out,      \* written, and not yet transmitted
  port,     \* received, and not yet read: bytes with their origin
  coming,   \* the bytes of the answer that are still to come
  heard,    \* what the station has heard of the request
  got,      \* the fields ReadPacket has read
  buffer,   \* what Read has put in its buffer
  result,   \* the packet of the last exchange, <<>> if there was an error
  clean,    \* the exchange began on a silent line and nothing went wrong in it
  faults    \* how many faults there were

line == <<out, port, coming, heard>>
reader == <<fifo, got, buffer, result>>
vars == <<pc, line, reader, clean, faults>>

Received(v, isOwn) == [value |-> v, own |-> isOwn]
Values(s) == [i \in DOMAIN s |-> s[i].value]

Fields == {"address", "length", "command", "data", "crc"}
Reading == pc \in Fields

-----------------------------------------------------------------------------
(* WritePacket.                                                            *)

\* Mutant of Remembered: the loop ends one byte early.
RememberedShort == SubSeq(Request, 1, Len(Request) - 1)

Remembered == Request

\* The FIFO gets the packet before it is sent.
WritePacket ==
  /\ pc = "idle"
  /\ pc' = "sleep"
  /\ fifo' = fifo \o Remembered
  /\ clean' = (fifo = <<>> /\ port = <<>> /\ out = <<>> /\ coming = <<>>)
  /\ UNCHANGED <<line, got, buffer, result, faults>>

\* The 100 ms are over: what was on the line has arrived. ReadPacket begins.
Write ==
  /\ pc = "sleep"
  /\ out = <<>> /\ coming = <<>>
  /\ \/ out' = Request /\ UNCHANGED <<clean, faults>>
     \/ /\ faults < MaxFaults    \* write() takes less, which is only logged
        /\ \E n \in 0 .. Len(Request) - 1 : out' = SubSeq(Request, 1, n)
        /\ clean' = FALSE /\ faults' = faults + 1
  /\ heard' = <<>>
  /\ pc' = "address" /\ got' = <<>> /\ buffer' = <<>>
  /\ UNCHANGED <<fifo, port, coming, result>>

-----------------------------------------------------------------------------
(* The line and the station.                                               *)

\* A byte arrives, or a fault happens to it.
Delivered(v, isOwn) ==
  \/ port' = Append(port, Received(v, isOwn)) /\ UNCHANGED <<clean, faults>>
  \/ /\ faults < MaxFaults
     /\ \/ UNCHANGED port
        \/ \E s \in StrayBytes \ {v} : port' = Append(port, Received(s, FALSE))
     /\ clean' = FALSE /\ faults' = faults + 1

\* A byte is transmitted and comes back. The station answers a whole request.
Transmit ==
  /\ out # <<>>
  /\ out' = Tail(out)
  /\ heard' = Append(heard, Head(out))
  /\ coming' = IF heard' = Request THEN Answer ELSE coming
  /\ Delivered(Head(out), TRUE)
  /\ UNCHANGED <<pc, reader>>

Arrive ==
  /\ coming # <<>>
  /\ coming' = Tail(coming)
  /\ Delivered(Head(coming), FALSE)
  /\ UNCHANGED <<pc, out, heard, reader>>

Stray ==
  /\ faults < MaxFaults
  /\ \E s \in StrayBytes : port' = Append(port, Received(s, FALSE))
  /\ clean' = FALSE /\ faults' = faults + 1
  /\ UNCHANGED <<pc, out, coming, heard, reader>>

-----------------------------------------------------------------------------
(* ReadPacket and Read.                                                    *)

\* isLengthMatches
Matches(p, fields) == SubSeq(p, 1, 4) = fields
Known(fields) == \E p \in Packets : Matches(p, fields)
DataLength(fields) == Len(CHOOSE p \in Packets : Matches(p, fields)) - 6

\* The `length` of the call of Read for a field.
Wanted ==
  CASE pc \in {"address", "command"} -> 1
    [] pc \in {"length", "crc"} -> 2
    [] pc = "data" -> DataLength(Values(got))

Finish(packet) ==
  /\ pc' = "idle"
  /\ result' = packet
  /\ got' = <<>> /\ buffer' = <<>>

Goto(field, bytes) ==
  /\ pc' = field /\ got' = bytes /\ buffer' = <<>>
  /\ UNCHANGED result

\* A field is complete. Bytes before the address are skipped.
FieldRead(bytes) ==
  LET all == got \o bytes
      values == Values(all)
  IN  \/ /\ pc = "address"
         /\ IF values = <<Address>> THEN Goto("length", all) ELSE Goto("address", <<>>)
      \/ pc = "length" /\ Goto("command", all)
      \/ /\ pc = "command"
         /\ IF ~Known(values) THEN Finish(<<>>)
            ELSE Goto(IF DataLength(values) > 0 THEN "data" ELSE "crc", all)
      \/ pc = "data" /\ Goto("crc", all)
      \/ pc = "crc" /\ Finish(IF values \in Packets THEN all ELSE <<>>)

\* What one read() returns, and how many bytes of it the roll back takes off.
Chunk == SubSeq(port, 1, Min({Wanted - Len(buffer), Len(port)}))

EchoBytes == Min({Len(Chunk), Len(fifo)})

\* The roll back goes backwards through the buffer (lines 802 and 807).
EchoMatches ==
  \A i \in 1 .. EchoBytes : fifo[i] = Chunk[Len(Chunk) - i + 1].value

\* Mutant of ReadBytes: bytes that are not the echo expected are kept, and the FIFO
\* too.
ReadBytesKept ==
  /\ Reading /\ port # <<>>
  /\ port' = SubSeq(port, Len(Chunk) + 1, Len(port))
  /\ LET echo == IF EchoMatches THEN EchoBytes ELSE 0
         bytes == buffer \o SubSeq(Chunk, 1, Len(Chunk) - echo)
     IN  /\ fifo' = SubSeq(fifo, echo + 1, Len(fifo))
         /\ IF Len(bytes) = Wanted THEN FieldRead(bytes)
            ELSE buffer' = bytes /\ UNCHANGED <<pc, got, result>>
  /\ UNCHANGED <<out, coming, heard, clean, faults>>

ReadBytes ==
  /\ Reading /\ port # <<>>
  /\ EchoMatches
  /\ port' = SubSeq(port, Len(Chunk) + 1, Len(port))
  /\ fifo' = SubSeq(fifo, EchoBytes + 1, Len(fifo))
  /\ LET bytes == buffer \o SubSeq(Chunk, 1, Len(Chunk) - EchoBytes)
     IN  IF Len(bytes) = Wanted THEN FieldRead(bytes)
         ELSE buffer' = bytes /\ UNCHANGED <<pc, got, result>>
  /\ UNCHANGED <<out, coming, heard, clean, faults>>

\* Mutant of Flush: TCIFLUSH, which leaves what is not yet transmitted.
FlushInput == port' = <<>> /\ fifo' = <<>> /\ UNCHANGED out

\* Mutant of Flush: the loop that empties the FIFO leaves one byte.
FlushButOne ==
  port' = <<>> /\ out' = <<>> /\ fifo' = SubSeq(fifo, Len(fifo), Len(fifo))

\* TCIOFLUSH and the loop that empties the FIFO.
Flush == port' = <<>> /\ fifo' = <<>> /\ out' = <<>>

EchoMismatch ==
  /\ Reading /\ port # <<>>
  /\ ~EchoMatches
  /\ Flush
  /\ Finish(<<>>)
  /\ UNCHANGED <<coming, heard, clean, faults>>

\* Nothing comes any more. What is left in the FIFO stays there.
ReadTimeout ==
  /\ Reading /\ port = <<>> /\ out = <<>> /\ coming = <<>>
  /\ Finish(<<>>)
  /\ UNCHANGED <<line, fifo, clean, faults>>

-----------------------------------------------------------------------------
Init ==
  /\ pc = "idle"
  /\ fifo = <<>> /\ out = <<>> /\ port = <<>> /\ coming = <<>>
  /\ heard = <<>> /\ got = <<>> /\ buffer = <<>> /\ result = <<>>
  /\ clean = FALSE
  /\ faults = 0

Daemon == WritePacket \/ Write \/ ReadBytes \/ EchoMismatch \/ ReadTimeout
Line == Transmit \/ Arrive
Next == Daemon \/ Line \/ Stray

Spec == Init /\ [][Next]_vars

\* The thread runs on, and so does the transmission.
FairSpec == Spec /\ WF_vars(Daemon) /\ WF_vars(Line)

-----------------------------------------------------------------------------
Bytes == [value : Nat, own : BOOLEAN]

\* Every variable has its type, and Read never fills more than its buffer.
TypeOK ==
  /\ pc \in Fields \cup {"idle", "sleep"}
  /\ {fifo, out, coming, heard} \subseteq Seq(Nat)
  /\ {port, got, buffer, result} \subseteq Seq(Bytes)
  /\ Reading => Len(buffer) < Wanted
  /\ clean \in BOOLEAN /\ faults \in 0 .. MaxFaults

\* An echo is awaited only where ReadPacket reads one byte at a time, at the
\* address. That is what makes the roll back right: it compares the bytes of one
\* read() with the FIFO in the wrong order.
EchoOnlyAtAddress == pc \in Fields \ {"address"} => fifo = <<>>

\* An exchange that begins on a silent line, and to which nothing happens, gives
\* the answer, every byte of it the station's.
CleanExchange ==
  pc = "idle" /\ clean =>
    result = [i \in DOMAIN Answer |-> Received(Answer[i], FALSE)]

\* Whatever happens to the line, the daemon never takes the echo of its own
\* request for a packet of the station.
OwnEchoIsNoPacket == Values(result) \in {<<>>, Answer}

\* Every byte that arrives is read before the next one arrives.
PromptStep == Reading /\ port # <<>> => Len(port') <= Len(port)

\* Once nothing disturbs the line any more, and the thread is as fast as the line,
\* exchanges succeed again, whatever the disturbances left in the FIFO.
Recovers == <>[][PromptStep]_vars => []<>(pc = "idle" /\ Values(result) = Answer)
=============================================================================
