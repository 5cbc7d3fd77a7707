------------------------- MODULE EchoCancel_proofs -------------------------
(* Proofs about EchoCancel, for any packets, disturbances and their number. *)
EXTENDS EchoCancel, SequenceTheorems, TLAPS

\* What Read needs at its start, and what makes the echo end at the address.
IInv ==
  /\ TypeOK
  /\ EchoOnlyAtAddress
  /\ pc = "address" => buffer = <<>>
  /\ pc = "data" => Known(Values(got))

\* The smaller of two numbers.
LEMMA MinOfTwo ==
  ASSUME NEW a \in Int, NEW b \in Int
  PROVE  Min({a, b}) = IF a <= b THEN a ELSE b
<1>1. \A x \in {a, b} : x \in Int
  OBVIOUS
<1>2. LET m == IF a <= b THEN a ELSE b IN m \in {a, b} /\ \A y \in {a, b} : m <= y
  OBVIOUS
<1>3. QED
  BY <1>1, <1>2 DEF Min

\* The first bytes of a sequence.
LEMMA FirstBytes ==
  ASSUME NEW S, NEW s \in Seq(S), NEW n \in 0 .. Len(s)
  PROVE  SubSeq(s, 1, n) \in Seq(S) /\ Len(SubSeq(s, 1, n)) = n
  BY SubSeqProperties

\* The bytes of a sequence that follow the first n.
LEMMA OtherBytes ==
  ASSUME NEW S, NEW s \in Seq(S), NEW n \in 0 .. Len(s)
  PROVE  /\ SubSeq(s, n + 1, Len(s)) \in Seq(S)
         /\ Len(SubSeq(s, n + 1, Len(s))) = Len(s) - n
  BY SubSeqProperties

\* The assumptions give the types of the two packets.
LEMMA PacketTypes ==
  /\ Request \in Seq(Nat) /\ Len(Request) >= 6
  /\ Answer \in Seq(Nat) /\ Len(Answer) >= 6
  BY PacketsAssumption DEF Packets

\* The length of the data of a packet that is known.
LEMMA KnownLength ==
  ASSUME NEW f, Known(f)
  PROVE  DataLength(f) \in Nat
<1>1. PICK p \in Packets : Matches(p, f)
  BY DEF Known
<1> DEFINE q == CHOOSE r \in Packets : Matches(r, f)
<1>2. q \in Packets
  BY <1>1
<1>3. q \in Seq(Nat) /\ Len(q) >= 6
  BY <1>2, PacketsAssumption
<1>4. Len(q) - 6 \in Nat
  <2> HIDE DEF q
  <2>1. Len(q) \in Nat
    BY <1>3, LenProperties
  <2>2. QED
    BY <1>3, <2>1
<1>5. QED
  BY <1>4 DEF DataLength

\* In each field Read is called for at least one byte.
LEMMA WantedIsPositive ==
  ASSUME IInv, Reading
  PROVE  Wanted \in Nat /\ Wanted > Len(buffer) /\ Len(buffer) \in Nat /\ buffer \in Seq(Bytes)
<1>1. buffer \in Seq(Bytes) /\ Len(buffer) < Wanted
  BY DEF IInv, TypeOK
<1>2. Len(buffer) \in Nat
  BY <1>1, LenProperties
<1>3. Wanted \in Nat
  <2>1. CASE pc = "data"
    BY <2>1, KnownLength DEF IInv, Wanted
  <2>2. CASE pc # "data"
    BY <2>2 DEF Reading, Fields, Wanted
  <2>3. QED
    BY <2>1, <2>2
<1>4. QED
  BY <1>1, <1>2, <1>3

\* What read() returns fits into the buffer, and the roll back does not take off
\* more than it returned.
LEMMA ChunkFits ==
  ASSUME IInv, Reading, port # <<>>
  PROVE  /\ Chunk \in Seq(Bytes) /\ Len(Chunk) \in 1 .. Wanted - Len(buffer)
         /\ Len(Chunk) \in 0 .. Len(port)
         /\ EchoBytes \in 0 .. Len(Chunk) /\ EchoBytes \in 0 .. Len(fifo)
         /\ EchoBytes = 0 => fifo = <<>>
<1>1. port \in Seq(Bytes) /\ fifo \in Seq(Nat)
  BY DEF IInv, TypeOK
<1>2. Len(port) \in Nat /\ Len(port) > 0 /\ Len(fifo) \in Nat /\ (fifo # <<>> => Len(fifo) > 0)
  BY <1>1, LenProperties, EmptySeq
<1> DEFINE w == Wanted - Len(buffer)
           n == Min({w, Len(port)})
<1>3. w \in Nat /\ w > 0
  BY WantedIsPositive
<1>4. n \in 1 .. w /\ n \in 1 .. Len(port)
  <2> HIDE DEF w
  <2>1. n = IF w <= Len(port) THEN w ELSE Len(port)
    BY <1>2, <1>3, MinOfTwo
  <2>2. QED
    BY <1>2, <1>3, <2>1
<1>5. Chunk = SubSeq(port, 1, n)
  BY DEF Chunk
<1>6. Chunk \in Seq(Bytes) /\ Len(Chunk) = n
  <2> HIDE DEF n
  <2>1. QED
    BY <1>1, <1>2, <1>4, <1>5, FirstBytes
<1>7. EchoBytes = IF n <= Len(fifo) THEN n ELSE Len(fifo)
  <2> HIDE DEF n
  <2>1. QED
    BY <1>2, <1>4, <1>6, MinOfTwo DEF EchoBytes
<1>8. QED
  <2> HIDE DEF n
  <2>1. QED
    BY <1>2, <1>3, <1>4, <1>6, <1>7

\* A field is complete: ReadPacket goes on to the next one, whose length it knows,
\* or ends.
LEMMA NextField ==
  ASSUME IInv, Reading, NEW bytes \in Seq(Bytes), FieldRead(bytes)
  PROVE  /\ pc' \in Fields \cup {"idle"} /\ buffer' = <<>>
         /\ got' \in Seq(Bytes) /\ result' \in Seq(Bytes)
         /\ pc' = "data" => Known(Values(got')) /\ DataLength(Values(got')) > 0
<1> DEFINE all == got \o bytes
<1>1. got \in Seq(Bytes) /\ result \in Seq(Bytes) /\ <<>> \in Seq(Bytes)
  BY DEF IInv, TypeOK
<1>2. all \in Seq(Bytes)
  BY <1>1, ConcatProperties
<1> HIDE DEF all
<1>3. CASE pc = "address"
  BY <1>1, <1>2, <1>3 DEF FieldRead, Goto, Fields, all
<1>4. CASE pc = "length"
  BY <1>1, <1>2, <1>4 DEF FieldRead, Goto, Fields, all
<1>5. CASE pc = "command"
  BY <1>1, <1>2, <1>5 DEF FieldRead, Goto, Finish, Fields, all
<1>6. CASE pc = "data"
  BY <1>1, <1>2, <1>6 DEF FieldRead, Goto, Fields, all
<1>7. CASE pc = "crc"
  BY <1>1, <1>2, <1>7 DEF FieldRead, Finish, Fields, all
<1>8. QED
  BY <1>3, <1>4, <1>5, <1>6, <1>7 DEF Reading, Fields

\* The invariant holds at the start.
LEMMA InitIInv == Init => IInv
<1> SUFFICES ASSUME Init PROVE IInv
  OBVIOUS
<1>1. <<>> \in Seq(Nat) /\ <<>> \in Seq(Bytes)
  OBVIOUS
<1>2. 0 \in 0 .. MaxFaults
  BY MaxFaultsAssumption
<1>3. QED
  BY <1>1, <1>2 DEF Init, IInv, TypeOK, EchoOnlyAtAddress, Reading, Fields

\* What the reader knows is not touched by a step of the line.
LEMMA ReaderKept ==
  ASSUME IInv, UNCHANGED <<pc, reader>>, {out, coming, heard}' \subseteq Seq(Nat),
         port' \in Seq(Bytes), clean' \in BOOLEAN, faults' \in 0 .. MaxFaults
  PROVE  IInv'
<1>1. UNCHANGED Wanted
  BY DEF reader, Wanted
<1>2. QED
  BY <1>1 DEF IInv, TypeOK, EchoOnlyAtAddress, Reading, reader

\* The reader gives up and the exchange ends.
LEMMA GivesUp ==
  ASSUME IInv, Finish(<<>>), {fifo, out, coming, heard}' \subseteq Seq(Nat),
         port' \in Seq(Bytes), UNCHANGED <<clean, faults>>
  PROVE  IInv'
<1>1. <<>> \in Seq(Bytes)
  OBVIOUS
<1>2. QED
  BY <1>1 DEF IInv, TypeOK, EchoOnlyAtAddress, Finish, Reading, Fields

\* A byte that is delivered, lost or replaced is a byte.
LEMMA DeliveredTypes ==
  ASSUME IInv, NEW v \in Nat, NEW isOwn \in BOOLEAN, Delivered(v, isOwn)
  PROVE  port' \in Seq(Bytes) /\ clean' \in BOOLEAN /\ faults' \in 0 .. MaxFaults
<1>1. \A x \in Nat, o \in BOOLEAN : Received(x, o) \in Bytes
  BY DEF Received, Bytes
<1>2. port \in Seq(Bytes) /\ clean \in BOOLEAN /\ faults \in 0 .. MaxFaults
  BY DEF IInv, TypeOK
<1>3. \A b \in Bytes : Append(port, b) \in Seq(Bytes)
  BY <1>2
<1>4. port' \in Seq(Bytes)
  BY <1>1, <1>2, <1>3, BytesAssumption DEF Delivered
<1>5. clean' \in BOOLEAN
  BY <1>2, Zenon DEF Delivered
<1>6. faults' \in 0 .. MaxFaults
  <2>1. faults' = faults \/ (faults < MaxFaults /\ faults' = faults + 1)
    BY DEF Delivered
  <2>2. QED
    BY <1>2, <2>1, MaxFaultsAssumption
<1>7. QED
  BY <1>4, <1>5, <1>6

\* The daemon's own echo is awaited only at the address, and no read() overruns the
\* buffer: both are kept by every step.
LEMMA NextIInv == IInv /\ [Next]_vars => IInv'
<1> SUFFICES ASSUME IInv, [Next]_vars PROVE IInv'
  OBVIOUS
<1>0. /\ {fifo, out, coming, heard} \subseteq Seq(Nat)
      /\ {port, got, buffer, result} \subseteq Seq(Bytes)
      /\ clean \in BOOLEAN /\ faults \in 0 .. MaxFaults /\ MaxFaults \in Nat
      /\ <<>> \in Seq(Nat) /\ <<>> \in Seq(Bytes)
  BY MaxFaultsAssumption DEF IInv, TypeOK
<1>1. CASE WritePacket
  <2>1. Remembered \in Seq(Nat)
    BY PacketTypes DEF Remembered
  <2>2. fifo' \in Seq(Nat)
    BY <1>0, <1>1, <2>1, ConcatProperties DEF WritePacket
  <2>3. clean' \in BOOLEAN
    BY <1>1 DEF WritePacket
  <2>4. QED
    BY <1>0, <1>1, <2>2, <2>3 DEF WritePacket, IInv, TypeOK, EchoOnlyAtAddress, Reading,
                                  Fields, line
<1>2. CASE Write
  <2>1. out' \in Seq(Nat) /\ clean' \in BOOLEAN /\ faults' \in 0 .. MaxFaults
    <3>1. \A n \in 0 .. Len(Request) - 1 : SubSeq(Request, 1, n) \in Seq(Nat)
      BY PacketTypes, FirstBytes
    <3>2. out' \in Seq(Nat)
      BY <1>2, <3>1, PacketTypes DEF Write
    <3>3. clean' \in BOOLEAN
      BY <1>0, <1>2, Zenon DEF Write
    <3>4. faults' = faults \/ (faults < MaxFaults /\ faults' = faults + 1)
      BY <1>2 DEF Write
    <3>5. QED
      BY <1>0, <3>2, <3>3, <3>4
  <2>2. Len(buffer') < Wanted'
    <3>1. Len(buffer') = 0 /\ pc' = "address"
      BY <1>2 DEF Write
    <3>2. Wanted' = 1
      BY <3>1 DEF Wanted
    <3>3. QED
      BY <3>1, <3>2
  <2>3. QED
    BY <1>0, <1>2, <2>1, <2>2 DEF Write, IInv, TypeOK, EchoOnlyAtAddress, Fields
<1>3. CASE ReadBytes
  <2>0. IInv /\ Reading /\ port # <<>> /\ UNCHANGED <<out, coming, heard, clean, faults>>
    BY <1>3 DEF ReadBytes
  <2> DEFINE n == Len(Chunk) - EchoBytes
             bytes == buffer \o SubSeq(Chunk, 1, n)
  <2>1. /\ Chunk \in Seq(Bytes) /\ n \in 0 .. Len(Chunk) /\ Len(Chunk) \in 0 .. Len(port)
        /\ Len(buffer) \in Nat /\ Wanted \in Nat
        /\ Len(buffer) + n <= Wanted
        /\ EchoBytes \in 0 .. Len(fifo)
    BY <2>0, ChunkFits, WantedIsPositive
  <2>2. bytes \in Seq(Bytes) /\ Len(bytes) = Len(buffer) + n
    <3> HIDE DEF n
    <3>1. SubSeq(Chunk, 1, n) \in Seq(Bytes) /\ Len(SubSeq(Chunk, 1, n)) = n
      BY <2>1, FirstBytes
    <3>2. QED
      BY <1>0, <3>1, ConcatProperties
  <2>3. port' \in Seq(Bytes) /\ fifo' \in Seq(Nat)
    <3>1. port' = SubSeq(port, Len(Chunk) + 1, Len(port))
          /\ fifo' = SubSeq(fifo, EchoBytes + 1, Len(fifo))
      BY <1>3 DEF ReadBytes
    <3>2. QED
      BY <1>0, <2>1, <3>1, OtherBytes
  <2>4. fifo = <<>> => fifo' = <<>> /\ EchoBytes = 0
    <3>1. ASSUME fifo = <<>> PROVE fifo' = <<>> /\ EchoBytes = 0
      <4>1. EchoBytes = 0 /\ Len(fifo) = 0
        BY <2>1, <3>1
      <4>2. fifo' = SubSeq(fifo, 1, 0)
        BY <1>3, <4>1 DEF ReadBytes
      <4>3. QED
        BY <1>0, <4>1, <4>2, SubSeqEmpty
    <3>2. QED
      BY <3>1
  <2>5. CASE Len(bytes) = Wanted
    <3>1. FieldRead(bytes)
      BY <1>3, <2>5 DEF ReadBytes
    <3>2. /\ pc' \in Fields \cup {"idle"} /\ buffer' = <<>>
          /\ got' \in Seq(Bytes) /\ result' \in Seq(Bytes)
          /\ pc' = "data" => Known(Values(got')) /\ DataLength(Values(got')) > 0
      <4> HIDE DEF bytes
      <4>1. QED
        BY <2>0, <2>2, <3>1, NextField
    <3>3. pc' \in Fields => Len(buffer') < Wanted'
      <4>1. Len(buffer') = 0
        BY <3>2
      <4>2. pc' \in Fields => Wanted' > 0
        BY <3>2 DEF Wanted, Fields
      <4>3. QED
        BY <4>1, <4>2
    <3>4. fifo' = <<>>
      <4>1. CASE pc # "address"
        BY <2>0, <2>4, <4>1 DEF IInv, EchoOnlyAtAddress, Reading
      <4>2. CASE pc = "address"
        <5>1. buffer = <<>> /\ Wanted = 1 /\ Len(buffer) = 0
          BY <4>2 DEF IInv, Wanted
        <5>2. Len(Chunk) = 1 /\ n = 1
          <6> HIDE DEF bytes, n
          <6>1. Len(Chunk) \in 1 .. 1 - 0
            BY <2>0, <5>1, ChunkFits
          <6>2. n = 1
            <7>1. n \in Nat
              BY <2>1, <6>1
            <7>2. 1 = 0 + n
              BY <2>2, <2>5, <5>1
            <7>3. QED
              BY <7>1, <7>2
          <6>3. QED
            BY <6>1, <6>2
        <5>3. EchoBytes = 0
          BY <2>0, <2>1, <5>2
        <5>4. QED
          BY <2>0, <2>4, <5>3, ChunkFits
      <4>3. QED
        BY <4>1, <4>2
    <3>5. QED
      BY <1>0, <2>0, <2>3, <3>2, <3>3, <3>4 DEF IInv, TypeOK, EchoOnlyAtAddress, Reading
  <2>6. CASE Len(bytes) # Wanted
    <3>1. buffer' = bytes /\ UNCHANGED <<pc, got, result>>
      BY <1>3, <2>6 DEF ReadBytes
    <3>2. Len(buffer') < Wanted'
      <4>1. Wanted' = Wanted
        BY <3>1 DEF Wanted
      <4>2. QED
        <5> HIDE DEF bytes, n
        <5>1. QED
          BY <2>1, <2>2, <2>6, <3>1, <4>1
    <3>3. pc = "address" => buffer' = <<>>
      <4>1. ASSUME pc = "address" PROVE buffer' = <<>>
        <5>1. buffer = <<>> /\ Wanted = 1 /\ Len(buffer) = 0
          BY <4>1 DEF IInv, Wanted
        <5>2. Len(bytes) = 0
          <6> HIDE DEF bytes, n
          <6>1. QED
            BY <2>1, <2>2, <2>6, <5>1
        <5>3. QED
          BY <2>2, <3>1, <5>2, EmptySeq
      <4>2. QED
        BY <4>1
    <3>4. pc # "address" => fifo' = <<>>
      BY <2>0, <2>4 DEF IInv, EchoOnlyAtAddress, Reading
    <3>5. buffer' \in Seq(Bytes)
      BY <2>2, <3>1
    <3>6. QED
      BY <1>0, <2>0, <2>3, <3>1, <3>2, <3>3, <3>4, <3>5
      DEF IInv, TypeOK, EchoOnlyAtAddress, Reading
  <2>7. QED
    BY <2>5, <2>6
<1>4. CASE EchoMismatch
  BY <1>0, <1>4, GivesUp DEF EchoMismatch, Flush
<1>5. CASE ReadTimeout
  BY <1>0, <1>5, GivesUp DEF ReadTimeout, line
<1>6. CASE Transmit
  <2>1. Head(out) \in Nat /\ Tail(out) \in Seq(Nat) /\ Append(heard, Head(out)) \in Seq(Nat)
    BY <1>0, <1>6 DEF Transmit
  <2>2. port' \in Seq(Bytes) /\ clean' \in BOOLEAN /\ faults' \in 0 .. MaxFaults
    BY <1>6, <2>1, DeliveredTypes DEF Transmit
  <2>3. QED
    BY <1>0, <1>6, <2>1, <2>2, ReaderKept, PacketTypes DEF Transmit
<1>7. CASE Arrive
  <2>1. Head(coming) \in Nat /\ Tail(coming) \in Seq(Nat)
    BY <1>0, <1>7 DEF Arrive
  <2>2. port' \in Seq(Bytes) /\ clean' \in BOOLEAN /\ faults' \in 0 .. MaxFaults
    BY <1>7, <2>1, DeliveredTypes DEF Arrive
  <2>3. QED
    BY <1>0, <1>7, <2>1, <2>2, ReaderKept DEF Arrive
<1>8. CASE Stray
  <2>1. \A x \in StrayBytes : Received(x, FALSE) \in Bytes
    BY BytesAssumption DEF Received, Bytes
  <2>2. port' \in Seq(Bytes)
    <3>1. \A b \in Bytes : Append(port, b) \in Seq(Bytes)
      BY <1>0
    <3>2. QED
      BY <1>8, <2>1, <3>1 DEF Stray
  <2>3. clean' \in BOOLEAN /\ faults' \in 0 .. MaxFaults
    <3>1. clean' = FALSE
      BY <1>8 DEF Stray
    <3>2. faults < MaxFaults /\ faults' = faults + 1
      BY <1>8 DEF Stray
    <3>3. faults' \in 0 .. MaxFaults
      BY <1>0, <3>2
    <3>4. QED
      BY <3>1, <3>3
  <2>4. QED
    BY <1>0, <1>8, <2>2, <2>3, ReaderKept DEF Stray
<1>9. CASE UNCHANGED vars
  BY <1>0, <1>9, ReaderKept DEF vars, line, reader
<1>10. QED
  BY <1>1, <1>2, <1>3, <1>4, <1>5, <1>6, <1>7, <1>8, <1>9 DEF Next, Daemon, Line

\* The inductive invariant holds in every reachable state.
LEMMA Invariance == Spec => []IInv
<1>1. Init => IInv
  BY InitIInv
<1>2. IInv /\ [Next]_vars => IInv'
  BY NextIInv
<1>3. QED
  BY <1>1, <1>2, PTL DEF Spec

\* Read never has more bytes in its buffer than the field it reads, whatever arrives
\* on the line and however it mixes with the echo; and every variable has its type.
THEOREM TypeCorrect == Spec => []TypeOK
<1>1. IInv => TypeOK
  BY DEF IInv
<1>2. QED
  BY <1>1, Invariance, PTL

\* From the length field on, no echo is expected any more: a packet is read only
\* after every byte of the request has come back.
THEOREM EchoEndsAtAddress == Spec => []EchoOnlyAtAddress
<1>1. IInv => EchoOnlyAtAddress
  BY DEF IInv
<1>2. QED
  BY <1>1, Invariance, PTL

-----------------------------------------------------------------------------
(* An exchange that nothing disturbs: all the bytes that the daemon receives are *)
(* one stream, the echo of the request and then the answer, and every variable   *)
(* stands for a part of it.                                                      *)

\* The bytes of a clean exchange, in the order in which they arrive.
Stream(k) ==
  IF k <= Len(Request) THEN Received(Request[k], TRUE)
  ELSE Received(Answer[k - Len(Request)], FALSE)

\* How many of them Read has taken from the port.
Consumed == Len(Request) - Len(fifo) + Len(got) + Len(buffer)

\* A part of the stream, after its first n bytes.
After(s, n) == \A i \in 1 .. Len(s) : s[i] = Stream(n + i)

\* The bytes of a packet that are left when the others are gone.
Rest(s, packet) ==
  /\ Len(s) <= Len(packet)
  /\ \A i \in 1 .. Len(s) : s[i] = packet[Len(packet) - Len(s) + i]

\* How many bytes of the answer come before the field that ReadPacket reads.
Before ==
  CASE pc = "address" -> 0
    [] pc = "length" -> 1
    [] pc = "command" -> 3
    [] pc = "data" -> 4
    [] pc = "crc" -> Len(Answer) - 2

\* What ReadPacket has of the answer.
Parsed ==
  /\ Len(got) = Before
  /\ After(got, Len(Request))
  /\ After(buffer, Len(Request) + Len(got))

\* What is on the line and still to come.
Sent ==
  /\ Rest(out, Request)
  /\ Rest(coming, Answer)
  /\ After(port, Consumed)
  /\ IF out = <<>> THEN Consumed + Len(port) = Len(Request) + Len(Answer) - Len(coming)
     ELSE /\ coming = <<>>
          /\ Consumed + Len(port) = Len(Request) - Len(out)
          /\ Len(heard) = Len(Request) - Len(out)
          /\ \A i \in 1 .. Len(heard) : heard[i] = Request[i]

Exchange == Rest(fifo, Request) /\ Parsed /\ Sent

Silent == fifo = Request /\ port = <<>> /\ out = <<>> /\ coming = <<>>

CleanInv ==
  /\ clean /\ pc = "sleep" => Silent
  /\ clean /\ Reading => Exchange
  /\ CleanExchange

\* The next byte of a part makes it longer by one.
LEMMA AfterAppend ==
  ASSUME NEW s \in Seq(Bytes), NEW n \in Nat, NEW b \in Bytes, After(s, n), b = Stream(n + Len(s) + 1)
  PROVE  After(Append(s, b), n) /\ Len(Append(s, b)) = Len(s) + 1
<1> DEFINE t == Append(s, b)
<1>1. /\ Len(t) = Len(s) + 1 /\ Len(s) \in Nat
      /\ \A i \in 1 .. Len(s) : t[i] = s[i]
      /\ t[Len(s) + 1] = b
  BY AppendProperties, LenProperties
<1> HIDE DEF t
<1>2. ASSUME NEW i \in 1 .. Len(t) PROVE t[i] = Stream(n + i)
  <2>1. CASE i \in 1 .. Len(s)
    BY <1>1, <2>1 DEF After
  <2>2. CASE i = Len(s) + 1
    <3>1. n + i = n + Len(s) + 1
      BY <1>1, <2>2
    <3>2. QED
      BY <1>1, <2>2, <3>1
  <2>3. QED
    BY <1>1, <2>1, <2>2
<1>3. QED
  BY <1>1, <1>2 DEF After, t

\* The first bytes of a part, and the others.
LEMMA AfterSplit ==
  ASSUME NEW s \in Seq(Bytes), NEW n \in Nat, NEW k \in 0 .. Len(s), After(s, n)
  PROVE  /\ After(SubSeq(s, 1, k), n)
         /\ After(SubSeq(s, k + 1, Len(s)), n + k)
<1>0. Len(s) \in Nat /\ k \in Nat /\ k <= Len(s) /\ \A i \in 1 .. Len(s) : s[i] \in Bytes
  BY LenProperties, ElementOfSeq
<1>1. /\ Len(SubSeq(s, 1, k)) = k
      /\ \A i \in 1 .. k : SubSeq(s, 1, k)[i] = s[i]
  <2>1. \A i \in 1 .. k : s[i] \in Bytes
    BY <1>0
  <2>2. /\ Len(SubSeq(s, 1, k)) = IF 1 <= k THEN k - 1 + 1 ELSE 0
        /\ \A i \in 1 .. k - 1 + 1 : SubSeq(s, 1, k)[i] = s[1 + i - 1]
    BY <1>0, <2>1, SubSeqProperties
  <2>3. \A i \in 1 .. k : i \in 1 .. k - 1 + 1 /\ 1 + i - 1 = i
    BY <1>0
  <2>4. Len(SubSeq(s, 1, k)) = k
    BY <1>0, <2>2
  <2>5. QED
    BY <2>2, <2>3, <2>4
<1>2. /\ Len(SubSeq(s, k + 1, Len(s))) = Len(s) - k
      /\ \A i \in 1 .. Len(s) - k : SubSeq(s, k + 1, Len(s))[i] = s[k + i]
  <2>1. \A i \in k + 1 .. Len(s) : s[i] \in Bytes
    BY <1>0
  <2>2. \A i \in 1 .. Len(s) - (k + 1) + 1 : SubSeq(s, k + 1, Len(s))[i] = s[k + 1 + i - 1]
    BY <1>0, <2>1, SubSeqProperties
  <2>3. \A i \in 1 .. Len(s) - k : i \in 1 .. Len(s) - (k + 1) + 1 /\ k + 1 + i - 1 = k + i
    BY <1>0
  <2>4. Len(SubSeq(s, k + 1, Len(s))) = Len(s) - k
    BY OtherBytes
  <2>5. QED
    BY <2>2, <2>3, <2>4
<1>3. \A i \in 1 .. k : i \in 1 .. Len(s)
  BY <1>0
<1>4. \A i \in 1 .. Len(s) - k : k + i \in 1 .. Len(s) /\ n + (k + i) = n + k + i
  BY <1>0
<1>5. After(SubSeq(s, 1, k), n)
  BY <1>1, <1>3 DEF After
<1>6. \A i \in 1 .. Len(s) - k : SubSeq(s, k + 1, Len(s))[i] = Stream(n + k + i)
  BY <1>2, <1>4 DEF After
<1>7. QED
  BY <1>2, <1>5, <1>6 DEF After

\* Two parts, one after the other, are one part.
LEMMA AfterConcat ==
  ASSUME NEW s \in Seq(Bytes), NEW t \in Seq(Bytes), NEW n \in Nat,
         After(s, n), After(t, n + Len(s))
  PROVE  /\ After(s \o t, n)
         /\ s \o t \in Seq(Bytes) /\ Len(s \o t) = Len(s) + Len(t)
<1> DEFINE u == s \o t
<1>1. /\ u \in Seq(Bytes) /\ Len(u) = Len(s) + Len(t)
      /\ \A i \in 1 .. Len(s) + Len(t) : u[i] = IF i <= Len(s) THEN s[i] ELSE t[i - Len(s)]
      /\ Len(s) \in Nat /\ Len(t) \in Nat
  BY ConcatProperties, LenProperties
<1> HIDE DEF u
<1>2. ASSUME NEW i \in 1 .. Len(u) PROVE u[i] = Stream(n + i)
  <2>1. CASE i <= Len(s)
    BY <1>1, <2>1 DEF After
  <2>2. CASE ~(i <= Len(s))
    <3>1. i - Len(s) \in 1 .. Len(t) /\ n + Len(s) + (i - Len(s)) = n + i
      BY <1>1, <2>2
    <3>2. t[i - Len(s)] = Stream(n + i)
      BY <3>1 DEF After
    <3>3. QED
      BY <1>1, <2>2, <3>2
  <2>3. QED
    BY <2>1, <2>2
<1>3. QED
  BY <1>1, <1>2 DEF After, u

\* The first byte of what is left of a packet, and what is left without it.
LEMMA RestTail ==
  ASSUME NEW s \in Seq(Nat), NEW p \in Seq(Nat), Rest(s, p), s # <<>>
  PROVE  /\ Rest(Tail(s), p)
         /\ Len(Tail(s)) = Len(s) - 1 /\ Len(s) \in Nat \ {0}
         /\ Head(s) = p[Len(p) - Len(s) + 1] /\ Head(s) = s[1]
<1>1. /\ Tail(s) \in Seq(Nat) /\ Len(Tail(s)) = Len(s) - 1
      /\ \A i \in 1 .. Len(Tail(s)) : Tail(s)[i] = s[i + 1]
      /\ Len(s) \in Nat \ {0} /\ Len(p) \in Nat /\ Len(s) <= Len(p)
  BY HeadTailProperties, LenProperties, EmptySeq DEF Rest
<1>2. Head(s) = s[1]
  OBVIOUS
<1>3. 1 \in 1 .. Len(s)
  BY <1>1
<1>4. Head(s) = p[Len(p) - Len(s) + 1]
  BY <1>2, <1>3 DEF Rest
<1>5. ASSUME NEW i \in 1 .. Len(Tail(s)) PROVE Tail(s)[i] = p[Len(p) - Len(Tail(s)) + i]
  <2>1. i + 1 \in 1 .. Len(s) /\ Len(p) - Len(s) + (i + 1) = Len(p) - Len(Tail(s)) + i
    BY <1>1
  <2>2. s[i + 1] = p[Len(p) - Len(Tail(s)) + i]
    BY <2>1 DEF Rest
  <2>3. QED
    BY <1>1, <2>2
<1>6. Len(Tail(s)) <= Len(p)
  BY <1>1
<1>7. QED
  BY <1>1, <1>2, <1>4, <1>5, <1>6 DEF Rest

\* The whole packet is left, or nothing.
LEMMA RestTrivial ==
  ASSUME NEW p \in Seq(Nat)
  PROVE  Rest(p, p) /\ Rest(<<>>, p) /\ Len(<<>>) = 0
<1>1. Len(p) \in Nat /\ \A i \in 1 .. Len(p) : Len(p) - Len(p) + i = i
  BY LenProperties
<1>2. Len(<<>>) = 0 /\ \A i \in 1 .. 0 : FALSE
  OBVIOUS
<1>3. QED
  BY <1>1, <1>2 DEF Rest

\* No bytes are a part of the stream, anywhere.
LEMMA AfterNothing == \A n : After(<<>>, n)
  BY DEF After

\* The values of the first bytes of the answer.
LEMMA AnswerValues ==
  ASSUME NEW s \in Seq(Bytes), After(s, Len(Request)), Len(s) <= Len(Answer)
  PROVE  /\ Values(s) = SubSeq(Answer, 1, Len(s))
         /\ \A i \in 1 .. Len(s) : s[i] = Received(Answer[i], FALSE)
<1>0. /\ Len(s) \in Nat /\ DOMAIN s = 1 .. Len(s) /\ Len(Request) \in Nat /\ Len(Answer) \in Nat
      /\ \A i \in 1 .. Len(Answer) : Answer[i] \in Nat
  BY LenProperties, ElementOfSeq, PacketTypes
<1>1. \A i \in 1 .. Len(s) :
        ~(Len(Request) + i <= Len(Request)) /\ Len(Request) + i - Len(Request) = i
  BY <1>0
<1>2. ASSUME NEW i \in 1 .. Len(s) PROVE s[i] = Received(Answer[i], FALSE)
  <2>1. s[i] = Stream(Len(Request) + i)
    BY DEF After
  <2>2. Stream(Len(Request) + i) = Received(Answer[i], FALSE)
    <3>1. \A k \in Nat : k > Len(Request) => Stream(k) = Received(Answer[k - Len(Request)], FALSE)
      BY <1>0 DEF Stream, Received
    <3>2. PICK k \in Nat : k = Len(Request) + i
      BY <1>0
    <3>3. k > Len(Request) /\ k - Len(Request) = i
      BY <1>0, <3>2
    <3>4. Stream(k) = Received(Answer[k - Len(Request)], FALSE)
      BY <3>1, <3>3
    <3>5. QED
      BY <3>2, <3>3, <3>4
  <2>3. QED
    BY <1>1, <2>1, <2>2
<1>3. Values(s) = [i \in 1 .. Len(s) |-> Answer[i]]
  BY <1>0, <1>2 DEF Values, Received
<1>4. SubSeq(Answer, 1, Len(s)) = [i \in 1 .. Len(s) |-> Answer[i]]
  <2>1. \A i \in 1 .. Len(s) : i \in 1 .. Len(Answer)
    BY <1>0
  <2>2. /\ SubSeq(Answer, 1, Len(s)) \in Seq(Nat) /\ Len(SubSeq(Answer, 1, Len(s))) = Len(s)
    BY <1>0, PacketTypes, FirstBytes
  <2>3. \A i \in 1 .. Len(s) : SubSeq(Answer, 1, Len(s))[i] = Answer[i]
    <3>1. \A i \in 1 .. Len(s) - 1 + 1 : SubSeq(Answer, 1, Len(s))[i] = Answer[1 + i - 1]
      BY <1>0, <2>1, SubSeqProperties
    <3>2. \A i \in 1 .. Len(s) : i \in 1 .. Len(s) - 1 + 1 /\ 1 + i - 1 = i
      BY <1>0
    <3>3. QED
      BY <3>1, <3>2
  <2>4. SubSeq(Answer, 1, Len(s)) \in [1 .. Len(s) -> Nat]
    BY <2>2, LenProperties
  <2>5. QED
    BY <2>3, <2>4
<1>5. QED
  BY <1>2, <1>3, <1>4

\* The header of the answer tells how long its data is.
LEMMA AnswerLength ==
  /\ Known(SubSeq(Answer, 1, 4))
  /\ DataLength(SubSeq(Answer, 1, 4)) = Len(Answer) - 6
<1> DEFINE f == SubSeq(Answer, 1, 4)
           q == CHOOSE r \in Packets : Matches(r, f)
<1>1. Answer \in Packets /\ Matches(Answer, f)
  BY DEF Packets, Matches
<1>2. q \in Packets /\ Matches(q, f)
  BY <1>1
<1>3. Len(q) = Len(Answer)
  <2> HIDE DEF q
  <2>1. QED
    BY <1>1, <1>2, HeaderAssumption DEF Matches
<1>4. QED
  BY <1>1, <1>3 DEF Known, DataLength

\* The whole field that ReadPacket reads is a part of the answer.
LEMMA FieldFits ==
  ASSUME IInv, Reading, Exchange
  PROVE  /\ Len(got) \in Nat /\ Len(buffer) \in Nat /\ Wanted \in Nat /\ Before \in Nat
         /\ Len(got) + Wanted <= Len(Answer)
         /\ pc = "data" => Len(got) + Wanted = Len(Answer) - 2
         /\ pc = "crc" => Len(got) + Wanted = Len(Answer)
<1>0. /\ got \in Seq(Bytes) /\ Len(got) \in Nat /\ Len(buffer) \in Nat /\ Wanted \in Nat
      /\ Len(Answer) \in Nat /\ Len(Answer) >= 6
  <2>1. got \in Seq(Bytes)
    BY DEF IInv, TypeOK
  <2>2. QED
    BY <2>1, WantedIsPositive, LenProperties, PacketTypes
<1>1. Len(got) = Before /\ After(got, Len(Request))
  BY DEF Exchange, Parsed
<1>2. Before \in Nat /\ Before <= Len(Answer)
  BY <1>0 DEF Before, Reading, Fields
<1>3. CASE pc = "data"
  <2>1. Len(got) = 4
    BY <1>1, <1>3 DEF Before
  <2>2. Values(got) = SubSeq(Answer, 1, 4)
    <3>1. Len(got) <= Len(Answer)
      BY <1>0, <2>1
    <3>2. Values(got) = SubSeq(Answer, 1, Len(got))
      BY <1>0, <1>1, <3>1, AnswerValues
    <3>3. QED
      BY <2>1, <3>2
  <2>3. Wanted = Len(Answer) - 6
    BY <1>3, <2>2, AnswerLength DEF Wanted
  <2>4. QED
    BY <1>0, <1>2, <1>3, <2>1, <2>3
<1>4. CASE pc = "crc"
  <2>1. Len(got) = Len(Answer) - 2 /\ Wanted = 2
    BY <1>1, <1>4 DEF Before, Wanted
  <2>2. QED
    BY <1>0, <1>2, <1>4, <2>1
<1>5. CASE pc \in {"address", "length", "command"}
  <2>1. Len(got) + Wanted <= 4
    <3>1. CASE pc = "address"
      BY <1>1, <3>1 DEF Before, Wanted
    <3>2. CASE pc = "length"
      BY <1>1, <3>2 DEF Before, Wanted
    <3>3. CASE pc = "command"
      BY <1>1, <3>3 DEF Before, Wanted
    <3>4. QED
      BY <1>5, <3>1, <3>2, <3>3
  <2>2. QED
    BY <1>0, <1>2, <1>5, <2>1
<1>6. QED
  BY <1>3, <1>4, <1>5 DEF Reading, Fields

\* Where an exchange is, in numbers; only at the address is an echo awaited.
LEMMA Numbers ==
  ASSUME IInv, Reading, Exchange
  PROVE  /\ Consumed \in Nat /\ Len(port) \in Nat /\ Len(fifo) \in Nat
         /\ Len(out) \in Nat /\ Len(coming) \in Nat
         /\ Len(Request) \in Nat /\ Len(Answer) \in Nat
         /\ Consumed + Len(port) <= Len(Request) + Len(Answer)
         /\ fifo = <<>> => Consumed = Len(Request) + Len(got) + Len(buffer)
         /\ fifo # <<>> =>
              /\ pc = "address" /\ got = <<>> /\ buffer = <<>>
              /\ Consumed = Len(Request) - Len(fifo) /\ Len(fifo) > 0
<1>0. /\ fifo \in Seq(Nat) /\ out \in Seq(Nat) /\ coming \in Seq(Nat)
      /\ port \in Seq(Bytes) /\ got \in Seq(Bytes) /\ buffer \in Seq(Bytes)
  BY DEF IInv, TypeOK
<1>1. /\ Len(port) \in Nat /\ Len(fifo) \in Nat /\ Len(out) \in Nat /\ Len(coming) \in Nat
      /\ Len(Request) \in Nat /\ Len(Answer) \in Nat /\ Len(<<>>) = 0
      /\ Len(got) \in Nat /\ Len(buffer) \in Nat
  BY <1>0, LenProperties, PacketTypes
<1>2. Len(fifo) <= Len(Request) /\ Len(out) <= Len(Request) /\ Len(coming) <= Len(Answer)
  BY DEF Exchange, Sent, Rest
<1>3. Consumed \in Nat
  BY <1>1, <1>2 DEF Consumed
<1>4. Consumed + Len(port) <= Len(Request) + Len(Answer)
  <2>1. CASE out = <<>>
    <3>1. Consumed + Len(port) = Len(Request) + Len(Answer) - Len(coming)
      BY <2>1 DEF Exchange, Sent
    <3>2. QED
      BY <1>1, <3>1
  <2>2. CASE out # <<>>
    <3>1. Consumed + Len(port) = Len(Request) - Len(out)
      BY <2>2 DEF Exchange, Sent
    <3>2. QED
      BY <1>1, <3>1
  <2>3. QED
    BY <2>1, <2>2
<1>5. fifo = <<>> => Consumed = Len(Request) + Len(got) + Len(buffer)
  BY <1>1 DEF Consumed
<1>6. ASSUME fifo # <<>>
      PROVE  /\ pc = "address" /\ got = <<>> /\ buffer = <<>>
             /\ Consumed = Len(Request) - Len(fifo) /\ Len(fifo) > 0
  <2>1. pc = "address" /\ buffer = <<>>
    BY <1>6 DEF IInv, EchoOnlyAtAddress, Reading, Fields
  <2>2. Len(got) = 0
    BY <2>1 DEF Exchange, Parsed, Before
  <2>3. got = <<>>
    BY <1>0, <2>2, EmptySeq
  <2>4. Len(fifo) > 0
    BY <1>0, <1>6, EmptySeq
  <2>5. QED
    BY <1>1, <2>1, <2>3, <2>4 DEF Consumed
<1>7. QED
  BY <1>1, <1>3, <1>4, <1>5, <1>6

\* What read() returns is the next part of the stream, the roll back finds the echo
\* it expects, and takes off either the one byte or nothing.
LEMMA NextChunk ==
  ASSUME IInv, Reading, Exchange, port # <<>>
  PROVE  /\ After(Chunk, Consumed)
         /\ EchoMatches
         /\ fifo # <<>> => Len(Chunk) = 1 /\ EchoBytes = 1
         /\ fifo = <<>> => EchoBytes = 0
<1>0. /\ port \in Seq(Bytes) /\ fifo \in Seq(Nat)
      /\ Chunk \in Seq(Bytes) /\ Len(Chunk) \in 1 .. Wanted - Len(buffer)
      /\ Len(Chunk) \in 0 .. Len(port)
      /\ EchoBytes \in 0 .. Len(Chunk) /\ EchoBytes \in 0 .. Len(fifo)
      /\ EchoBytes = 0 => fifo = <<>>
  BY ChunkFits DEF IInv, TypeOK
<1>1. After(Chunk, Consumed)
  <2>1. Chunk = SubSeq(port, 1, Len(Chunk))
    <3> DEFINE n == Min({Wanted - Len(buffer), Len(port)})
    <3>1. Chunk = SubSeq(port, 1, n) /\ n \in 0 .. Len(port)
      <4>1. Wanted - Len(buffer) \in Nat
        BY WantedIsPositive
      <4>2. Len(port) \in Nat
        BY <1>0, LenProperties
      <4>3. n \in 0 .. Len(port)
        <5> DEFINE w == Wanted - Len(buffer)
        <5> HIDE DEF w
        <5>1. Min({w, Len(port)}) = IF w <= Len(port) THEN w ELSE Len(port)
          BY <4>1, <4>2, MinOfTwo DEF w
        <5>2. Min({w, Len(port)}) \in 0 .. Len(port)
          BY <4>1, <4>2, <5>1 DEF w
        <5>3. QED
          BY <5>2 DEF w
      <4>4. QED
        BY <4>3 DEF Chunk
    <3> HIDE DEF n
    <3>2. Len(Chunk) = n
      BY <1>0, <3>1, FirstBytes
    <3>3. QED
      BY <3>1, <3>2
  <2>2. After(port, Consumed) /\ Consumed \in Nat
    BY Numbers DEF Exchange, Sent
  <2>3. After(SubSeq(port, 1, Len(Chunk)), Consumed)
    BY <1>0, <2>2, AfterSplit
  <2>4. QED
    BY <2>1, <2>3
<1>2. CASE fifo = <<>>
  <2>1. Len(fifo) = 0
    BY <1>2
  <2>2. EchoBytes = 0
    BY <1>0, <2>1
  <2>3. EchoMatches
    BY <2>2 DEF EchoMatches
  <2>4. QED
    BY <1>1, <1>2, <2>2, <2>3
<1>3. CASE fifo # <<>>
  <2>1. /\ pc = "address" /\ Len(buffer) = 0 /\ Consumed = Len(Request) - Len(fifo)
        /\ Len(fifo) \in Nat /\ Len(fifo) > 0 /\ Len(Request) \in Nat
    BY <1>3, Numbers
  <2>2. Wanted = 1
    BY <2>1 DEF Wanted
  <2>3. Len(Chunk) = 1 /\ EchoBytes = 1
    <3>1. Len(Chunk) \in 1 .. 1
      BY <1>0, <2>1, <2>2
    <3>2. Len(Chunk) = 1
      BY <3>1
    <3>3. EchoBytes \in 0 .. 1 /\ EchoBytes # 0
      BY <1>0, <1>3, <3>2
    <3>4. QED
      BY <3>2, <3>3
  <2>4. Rest(fifo, Request)
    BY DEF Exchange
  <2>5. fifo[1] = Request[Len(Request) - Len(fifo) + 1] /\ Len(fifo) <= Len(Request)
    BY <2>1, <2>4 DEF Rest
  <2>6. Chunk[1] = Stream(Consumed + 1)
    BY <1>1, <2>3 DEF After
  <2>7. Chunk[1].value = Request[Len(Request) - Len(fifo) + 1]
    <3>1. Consumed + 1 <= Len(Request)
      BY <2>1, <2>5
    <3>2. QED
      BY <2>1, <2>6, <3>1 DEF Stream, Received
  <2>8. EchoMatches
    <3>1. \A i \in 1 .. 1 : i = 1 /\ 1 - i + 1 = 1
      OBVIOUS
    <3>2. QED
      BY <2>3, <2>5, <2>7, <3>1 DEF EchoMatches
  <2>9. QED
    BY <1>1, <1>3, <2>3, <2>8
<1>4. QED
  BY <1>2, <1>3

\* At the start no exchange was clean.
LEMMA InitClean == Init => CleanInv
  BY DEF Init, CleanInv, CleanExchange, Reading, Fields

\* What is not clean has nothing to keep.
LEMMA NotClean == ASSUME ~clean' PROVE CleanInv'
  BY DEF CleanInv, CleanExchange

\* An exchange begins clean when nothing of the last one is left.
LEMMA WritePacketClean ==
  ASSUME IInv, WritePacket
  PROVE  CleanInv'
<1>1. CASE ~clean'
  BY <1>1, NotClean
<1>2. CASE clean'
  <2>1. fifo = <<>> /\ port = <<>> /\ out = <<>> /\ coming = <<>>
    BY <1>2, Zenon DEF WritePacket
  <2>2. fifo' = Request
    <3>1. fifo' = <<>> \o Request
      BY <2>1 DEF WritePacket, Remembered
    <3>2. QED
      BY <3>1, PacketTypes, ConcatEmptySeq
  <2>3. pc' = "sleep" /\ port' = <<>> /\ out' = <<>> /\ coming' = <<>>
    BY <2>1 DEF WritePacket, line
  <2>4. QED
    BY <2>2, <2>3 DEF CleanInv, CleanExchange, Silent, Reading, Fields
<1>3. QED
  BY <1>1, <1>2

\* The whole request is written: the stream begins.
LEMMA WriteClean ==
  ASSUME IInv, CleanInv, Write
  PROVE  CleanInv'
<1>1. CASE ~clean'
  BY <1>1, NotClean
<1>2. CASE clean'
  <2>1. out' = Request /\ UNCHANGED clean
    BY <1>2 DEF Write
  <2>2. Silent
    BY <1>2, <2>1 DEF Write, CleanInv
  <2>3. /\ pc' = "address" /\ got' = <<>> /\ buffer' = <<>> /\ heard' = <<>>
        /\ fifo' = Request /\ port' = <<>> /\ coming' = <<>> /\ UNCHANGED result
    BY <2>2 DEF Write, Silent
  <2>4. /\ Len(Request) \in Nat /\ Len(Request) >= 6 /\ Len(<<>>) = 0
        /\ Request \in Seq(Nat) /\ Answer \in Seq(Nat)
    BY PacketTypes, LenProperties
  <2>5. Rest(fifo', Request) /\ Rest(out', Request) /\ Rest(coming', Answer)
    BY <2>1, <2>3, <2>4, RestTrivial
  <2>6. Parsed'
    <3>1. Before' = 0
      BY <2>3 DEF Before
    <3>2. Len(got') = Before'
      BY <2>3, <2>4, <3>1
    <3>3. After(got', Len(Request)) /\ After(buffer', Len(Request) + Len(got'))
      BY <2>3, AfterNothing
    <3>4. QED
      BY <3>2, <3>3 DEF Parsed
  <2>7. Sent'
    <3>1. out' # <<>>
      BY <2>1, <2>4
    <3>2. Consumed' = 0
      BY <2>3, <2>4 DEF Consumed
    <3>3. Consumed' + Len(port') = Len(Request) - Len(out')
      BY <2>1, <2>3, <2>4, <3>2
    <3>4. Len(heard') = Len(Request) - Len(out') /\ \A i \in 1 .. Len(heard') : heard'[i] = Request[i]
      BY <2>1, <2>3, <2>4
    <3>5. After(port', Consumed')
      BY <2>3, AfterNothing
    <3>6. QED
      BY <2>3, <2>5, <3>1, <3>3, <3>4, <3>5 DEF Sent
  <2>8. QED
    BY <2>3, <2>5, <2>6, <2>7 DEF CleanInv, CleanExchange, Exchange
<1>3. QED
  BY <1>1, <1>2

\* What is read and what is to be read is the same when only the line moves.
LEMMA LineMoves ==
  ASSUME CleanInv, UNCHANGED <<pc, reader, clean>>,
         pc # "sleep",
         clean /\ Reading => Sent'
  PROVE  CleanInv'
<1>1. UNCHANGED <<pc, fifo, got, buffer, result, clean>>
  BY DEF reader
<1>2. Reading' = Reading /\ Before' = Before
  BY <1>1 DEF Reading, Before
<1>3. CASE clean /\ Reading
  <2>1. Rest(fifo, Request) /\ Parsed
    BY <1>3 DEF CleanInv, Exchange
  <2>2. Rest(fifo', Request) /\ Parsed'
    BY <1>1, <1>2, <2>1 DEF Parsed
  <2>3. QED
    BY <1>1, <1>3, <2>2 DEF CleanInv, Exchange, CleanExchange, Reading, Fields
<1>4. CASE ~clean
  BY <1>1, <1>4, NotClean
<1>5. CASE ~Reading
  <2>1. CleanExchange'
    <3>1. CleanExchange /\ pc' = pc /\ result' = result
      BY <1>1 DEF CleanInv
    <3>2. CASE clean
      BY <3>1, <3>2 DEF CleanExchange
    <3>3. QED
      BY <1>4, <3>2 DEF CleanInv
  <2>2. ~Reading' /\ pc' # "sleep"
    BY <1>1, <1>2, <1>5
  <2>3. QED
    BY <2>1, <2>2 DEF CleanInv
<1>6. QED
  BY <1>3, <1>4, <1>5

\* A byte of the request comes back: it is the next one of the stream. The last one
\* makes the station answer.
LEMMA TransmitClean ==
  ASSUME IInv, CleanInv, Transmit
  PROVE  CleanInv'
<1>1. CASE ~clean'
  BY <1>1, NotClean
<1>2. CASE clean'
  <2>0. /\ out # <<>> /\ out \in Seq(Nat) /\ heard \in Seq(Nat) /\ port \in Seq(Bytes)
        /\ out' = Tail(out) /\ heard' = Append(heard, Head(out))
        /\ coming' = IF heard' = Request THEN Answer ELSE coming
        /\ UNCHANGED <<pc, reader>>
    BY DEF Transmit, IInv, TypeOK
  <2>1. port' = Append(port, Received(Head(out), TRUE)) /\ UNCHANGED clean
    BY <1>2 DEF Transmit, Delivered
  <2>2. pc # "sleep"
    BY <1>2, <2>0, <2>1 DEF CleanInv, Silent
  <2>3. ASSUME clean, Reading PROVE Sent'
    <3>1. Exchange
      BY <2>3 DEF CleanInv
    <3>2. Rest(out, Request) /\ Rest(coming, Answer) /\ After(port, Consumed)
      BY <3>1 DEF Exchange, Sent
    <3>3. /\ coming = <<>> /\ Consumed + Len(port) = Len(Request) - Len(out)
          /\ Len(heard) = Len(Request) - Len(out)
          /\ \A i \in 1 .. Len(heard) : heard[i] = Request[i]
      BY <2>0, <3>1 DEF Exchange, Sent
    <3>4. /\ Rest(out', Request) /\ out' \in Seq(Nat)
          /\ Len(out') = Len(out) - 1 /\ Len(out) \in Nat \ {0}
          /\ Head(out) = Request[Len(Request) - Len(out) + 1] /\ Head(out) \in Nat
      BY <2>0, <3>2, RestTail, PacketTypes, HeadTailProperties
    <3>5. /\ Consumed \in Nat /\ Len(port) \in Nat /\ Len(Request) \in Nat /\ Len(Answer) \in Nat
          /\ Len(heard) \in Nat
      BY <2>0, <2>3, <3>1, Numbers, LenProperties
    <3>6. UNCHANGED Consumed
      BY <2>0 DEF Consumed, reader
    <3>7. After(port', Consumed') /\ Len(port') = Len(port) + 1
      <4>1. PICK k \in Nat : k = Consumed + Len(port) + 1
        BY <3>5
      <4>2. k <= Len(Request) /\ k = Len(Request) - Len(out) + 1
        <5>1. Len(out) \in Nat /\ Len(out) > 0
          BY <3>4
        <5>2. Consumed + Len(port) = Len(Request) - Len(out)
          BY <3>3
        <5>3. QED
          BY <3>5, <4>1, <5>1, <5>2
      <4>3. Stream(k) = Received(Head(out), TRUE)
        BY <3>4, <4>2 DEF Stream
      <4>4. Received(Head(out), TRUE) \in Bytes
        BY <3>4 DEF Received, Bytes
      <4>5. After(port', Consumed) /\ Len(port') = Len(port) + 1
        BY <2>0, <2>1, <3>2, <3>5, <4>1, <4>3, <4>4, AfterAppend
      <4>6. QED
        BY <3>6, <4>5
    <3>8. /\ heard' \in Seq(Nat) /\ Len(heard') = Len(heard) + 1
          /\ \A i \in 1 .. Len(heard') : heard'[i] = Request[i]
      <4>1. /\ heard' \in Seq(Nat) /\ Len(heard') = Len(heard) + 1
            /\ \A i \in 1 .. Len(heard) : heard'[i] = heard[i]
            /\ heard'[Len(heard) + 1] = Head(out)
        BY <2>0, <3>4, AppendProperties
      <4>2. ASSUME NEW i \in 1 .. Len(heard') PROVE heard'[i] = Request[i]
        <5>1. CASE i \in 1 .. Len(heard)
          BY <3>3, <4>1, <5>1
        <5>2. CASE i = Len(heard) + 1
          BY <3>3, <3>4, <4>1, <5>2
        <5>3. QED
          BY <3>5, <4>1, <5>1, <5>2
      <4>3. QED
        BY <4>1, <4>2
    <3>9. CASE out' = <<>>
      <4>1. Len(out) = 1
        BY <3>4, <3>9
      <4>2. heard' = Request
        <5>1. Len(heard') = Len(Request)
          BY <3>3, <3>5, <3>8, <4>1
        <5>2. QED
          BY <3>8, <5>1, SeqEqual, PacketTypes
      <4>3. coming' = Answer
        BY <2>0, <4>2
      <4>4. Rest(coming', Answer)
        BY <4>3, RestTrivial, PacketTypes
      <4>5. Consumed' + Len(port') = Len(Request) + Len(Answer) - Len(coming')
        BY <3>3, <3>5, <3>6, <3>7, <4>1, <4>3
      <4>6. QED
        BY <3>4, <3>7, <3>9, <4>4, <4>5 DEF Sent
    <3>10. CASE out' # <<>>
      <4>1. Len(out') > 0
        BY <3>4, <3>10, EmptySeq
      <4>2. heard' # Request
        <5>1. Len(heard') # Len(Request)
          BY <3>3, <3>4, <3>5, <3>8, <4>1
        <5>2. QED
          BY <5>1
      <4>3. coming' = <<>>
        BY <2>0, <3>3, <4>2
      <4>4. Rest(coming', Answer)
        BY <4>3, RestTrivial, PacketTypes
      <4>5. /\ Consumed' + Len(port') = Len(Request) - Len(out')
            /\ Len(heard') = Len(Request) - Len(out')
        <5>1. Len(out) \in Nat /\ Len(out') = Len(out) - 1
          BY <3>4
        <5>2. Consumed + Len(port) = Len(Request) - Len(out) /\ Len(heard) = Len(Request) - Len(out)
          BY <3>3
        <5>3. Consumed' = Consumed /\ Len(port') = Len(port) + 1 /\ Len(heard') = Len(heard) + 1
          BY <3>6, <3>7, <3>8
        <5>4. QED
          BY <3>5, <5>1, <5>2, <5>3
      <4>6. QED
        BY <3>4, <3>7, <3>8, <3>10, <4>3, <4>4, <4>5 DEF Sent
    <3>11. QED
      BY <3>9, <3>10
  <2>4. QED
    BY <2>0, <2>1, <2>2, <2>3, LineMoves
<1>3. QED
  BY <1>1, <1>2

\* A byte of the answer arrives: it is the next one of the stream.
LEMMA ArriveClean ==
  ASSUME IInv, CleanInv, Arrive
  PROVE  CleanInv'
<1>1. CASE ~clean'
  BY <1>1, NotClean
<1>2. CASE clean'
  <2>0. /\ coming # <<>> /\ coming \in Seq(Nat) /\ port \in Seq(Bytes)
        /\ coming' = Tail(coming)
        /\ UNCHANGED <<pc, out, heard, reader>>
    BY DEF Arrive, IInv, TypeOK
  <2>1. port' = Append(port, Received(Head(coming), FALSE)) /\ UNCHANGED clean
    BY <1>2 DEF Arrive, Delivered
  <2>2. pc # "sleep"
    BY <1>2, <2>0, <2>1 DEF CleanInv, Silent
  <2>3. ASSUME clean, Reading PROVE Sent'
    <3>1. Exchange
      BY <2>3 DEF CleanInv
    <3>2. Rest(out, Request) /\ Rest(coming, Answer) /\ After(port, Consumed)
      BY <3>1 DEF Exchange, Sent
    <3>3. out = <<>> /\ Consumed + Len(port) = Len(Request) + Len(Answer) - Len(coming)
      BY <2>0, <3>1 DEF Exchange, Sent
    <3>4. /\ Rest(coming', Answer)
          /\ Len(coming') = Len(coming) - 1 /\ Len(coming) \in Nat \ {0} /\ Len(coming) <= Len(Answer)
          /\ Head(coming) = Answer[Len(Answer) - Len(coming) + 1] /\ Head(coming) \in Nat
      BY <2>0, <3>2, RestTail, PacketTypes, HeadTailProperties DEF Rest
    <3>5. Consumed \in Nat /\ Len(port) \in Nat /\ Len(Request) \in Nat /\ Len(Answer) \in Nat
      BY <2>3, <3>1, Numbers
    <3>6. UNCHANGED Consumed
      BY <2>0 DEF Consumed, reader
    <3>7. After(port', Consumed') /\ Len(port') = Len(port) + 1
      <4>1. PICK k \in Nat : k = Consumed + Len(port) + 1
        BY <3>5
      <4>2. /\ ~(k <= Len(Request))
            /\ k - Len(Request) = Len(Answer) - Len(coming) + 1
        BY <3>3, <3>4, <3>5, <4>1
      <4>3. Stream(k) = Received(Head(coming), FALSE)
        BY <3>4, <4>2 DEF Stream
      <4>4. Received(Head(coming), FALSE) \in Bytes
        BY <3>4 DEF Received, Bytes
      <4>5. After(port', Consumed) /\ Len(port') = Len(port) + 1
        BY <2>0, <2>1, <3>2, <3>5, <4>1, <4>3, <4>4, AfterAppend
      <4>6. QED
        BY <3>6, <4>5
    <3>8. Consumed' + Len(port') = Len(Request) + Len(Answer) - Len(coming')
      BY <3>3, <3>4, <3>5, <3>6, <3>7
    <3>9. out' = <<>> /\ Rest(out', Request)
      BY <2>0, <3>2, <3>3
    <3>10. QED
      BY <3>4, <3>7, <3>8, <3>9 DEF Sent
  <2>4. QED
    BY <2>0, <2>1, <2>2, <2>3, LineMoves
<1>3. QED
  BY <1>1, <1>2

\* The echo is always the one that is awaited: nothing of a clean exchange is thrown
\* away.
LEMMA NoMismatch ==
  ASSUME IInv, CleanInv, EchoMismatch
  PROVE  ~clean'
<1>1. Reading /\ port # <<>> /\ ~EchoMatches /\ UNCHANGED clean
  BY DEF EchoMismatch
<1>2. CASE clean
  <2>1. Exchange
    BY <1>1, <1>2 DEF CleanInv
  <2>2. EchoMatches
    BY <1>1, <2>1, NextChunk
  <2>3. QED
    BY <1>1, <2>2
<1>3. CASE ~clean
  BY <1>1, <1>3
<1>4. QED
  BY <1>2, <1>3

\* A clean exchange does not time out: as long as a field is to be read, something
\* is on the line.
LEMMA NoTimeout ==
  ASSUME IInv, CleanInv, ReadTimeout
  PROVE  ~clean'
<1>1. Reading /\ port = <<>> /\ out = <<>> /\ coming = <<>> /\ UNCHANGED clean
  BY DEF ReadTimeout
<1>2. CASE clean
  <2>1. Exchange
    BY <1>1, <1>2 DEF CleanInv
  <2>2. Consumed = Len(Request) + Len(Answer) /\ Len(Answer) \in Nat /\ Len(Answer) >= 6
    <3>1. Consumed + Len(port) = Len(Request) + Len(Answer) - Len(coming)
      BY <1>1, <2>1 DEF Exchange, Sent
    <3>2. Len(port) = 0 /\ Len(coming) = 0
      BY <1>1
    <3>3. Consumed \in Nat /\ Len(Request) \in Nat /\ Len(Answer) \in Nat
      BY <1>1, <2>1, Numbers
    <3>4. QED
      BY <3>1, <3>2, <3>3, PacketTypes
  <2>3. /\ Len(Request) \in Nat /\ Len(fifo) \in Nat
        /\ fifo = <<>> => Consumed = Len(Request) + Len(got) + Len(buffer)
        /\ fifo # <<>> => Consumed = Len(Request) - Len(fifo)
    BY <1>1, <2>1, Numbers
  <2>4. /\ Len(got) \in Nat /\ Len(buffer) \in Nat /\ Wanted \in Nat
        /\ Len(got) + Wanted <= Len(Answer) /\ Len(buffer) < Wanted
    BY <1>1, <2>1, FieldFits, WantedIsPositive
  <2>5. CASE fifo = <<>>
    BY <2>2, <2>3, <2>4, <2>5
  <2>6. CASE fifo # <<>>
    BY <2>2, <2>3, <2>6
  <2>7. QED
    BY <2>5, <2>6
<1>3. CASE ~clean
  BY <1>1, <1>3
<1>4. QED
  BY <1>2, <1>3

\* A field of the answer is complete. The next one is read, with the bytes so far
\* before it, or the packet is the answer.
LEMMA AnswerField ==
  ASSUME IInv, Reading, Exchange, NEW bytes \in Seq(Bytes), FieldRead(bytes),
         Len(bytes) = Wanted, After(bytes, Len(Request) + Len(got))
  PROVE  \/ /\ pc' \in Fields /\ pc' # "address"
            /\ got' = got \o bytes /\ buffer' = <<>> /\ UNCHANGED result
            /\ Len(got') = Before' /\ After(got', Len(Request))
            /\ Len(got') = Len(got) + Wanted
         \/ pc' = "idle" /\ result' = [i \in DOMAIN Answer |-> Received(Answer[i], FALSE)]
<1> DEFINE all == got \o bytes
<1>0. /\ got \in Seq(Bytes) /\ After(got, Len(Request)) /\ Len(got) = Before
      /\ Len(Request) \in Nat
  BY PacketTypes, LenProperties DEF IInv, TypeOK, Exchange, Parsed
<1>1. all \in Seq(Bytes) /\ Len(all) = Len(got) + Wanted /\ After(all, Len(Request))
  BY <1>0, AfterConcat
<1>2. /\ Len(got) \in Nat /\ Wanted \in Nat /\ Len(got) + Wanted <= Len(Answer)
      /\ pc = "data" => Len(got) + Wanted = Len(Answer) - 2
      /\ pc = "crc" => Len(got) + Wanted = Len(Answer)
  BY FieldFits
<1>3. /\ Values(all) = SubSeq(Answer, 1, Len(all))
      /\ \A i \in 1 .. Len(all) : all[i] = Received(Answer[i], FALSE)
  <2> HIDE DEF all
  <2>1. QED
    BY <1>1, <1>2, AnswerValues
<1>4. FieldRead(bytes) <=>
        \/ /\ pc = "address"
           /\ IF Values(all) = <<Address>> THEN Goto("length", all) ELSE Goto("address", <<>>)
        \/ pc = "length" /\ Goto("command", all)
        \/ /\ pc = "command"
           /\ IF ~Known(Values(all)) THEN Finish(<<>>)
              ELSE Goto(IF DataLength(Values(all)) > 0 THEN "data" ELSE "crc", all)
        \/ pc = "data" /\ Goto("crc", all)
        \/ pc = "crc" /\ Finish(IF Values(all) \in Packets THEN all ELSE <<>>)
  BY DEF FieldRead
<1> HIDE DEF all
<1>5. ASSUME NEW field \in Fields, field # "address", Goto(field, all),
             field = "length" => Len(all) = 1,
             field = "command" => Len(all) = 3,
             field = "data" => Len(all) = 4,
             field = "crc" => Len(all) = Len(Answer) - 2
      PROVE  /\ pc' \in Fields /\ pc' # "address"
             /\ got' = all /\ buffer' = <<>> /\ UNCHANGED result
             /\ Len(got') = Before' /\ After(got', Len(Request))
             /\ Len(got') = Len(got) + Wanted
  <2>1. pc' = field /\ got' = all /\ buffer' = <<>> /\ UNCHANGED result
    BY <1>5 DEF Goto
  <2>2. Len(got') = Before'
    BY <1>5, <2>1 DEF Before, Fields
  <2>3. QED
    BY <1>1, <1>5, <2>1, <2>2
<1>6. CASE pc = "address"
  <2>1. Len(all) = 1
    BY <1>0, <1>1, <1>6 DEF Before, Wanted
  <2>2. Values(all) = <<Address>>
    <3>1. Answer[1] = Address /\ Answer \in Seq(Nat) /\ Len(Answer) >= 6
      BY PacketsAssumption DEF Packets
    <3>2. SubSeq(Answer, 1, 1) = <<Answer[1]>>
      <4>1. \A i \in 1 .. 1 : Answer[i] \in Nat
        BY <3>1, BytesAssumption
      <4>2. /\ SubSeq(Answer, 1, 1) \in Seq(Nat) /\ Len(SubSeq(Answer, 1, 1)) = 1
            /\ \A i \in 1 .. 1 - 1 + 1 : SubSeq(Answer, 1, 1)[i] = Answer[1 + i - 1]
        BY <4>1, SubSeqProperties
      <4>3. SubSeq(Answer, 1, 1)[1] = Answer[1]
        BY <4>2
      <4>4. <<Answer[1]>> \in Seq(Nat) /\ Len(<<Answer[1]>>) = 1 /\ <<Answer[1]>>[1] = Answer[1]
        BY <4>1
      <4>5. \A i \in 1 .. 1 : i = 1
        OBVIOUS
      <4>6. QED
        BY <4>2, <4>3, <4>4, <4>5, SeqEqual
    <3>3. QED
      BY <1>3, <2>1, <3>1, <3>2
  <2>3. Goto("length", all)
    BY <1>4, <1>6, <2>2
  <2>4. QED
    BY <1>5, <2>1, <2>3 DEF Fields, all
<1>7. CASE pc = "length"
  <2>1. Len(all) = 3
    BY <1>0, <1>1, <1>7 DEF Before, Wanted
  <2>2. Goto("command", all)
    BY <1>4, <1>7
  <2>3. QED
    BY <1>5, <2>1, <2>2 DEF Fields, all
<1>8. CASE pc = "command"
  <2>1. Len(all) = 4
    BY <1>0, <1>1, <1>8 DEF Before, Wanted
  <2>2. Known(Values(all)) /\ DataLength(Values(all)) = Len(Answer) - 6
    BY <1>3, <2>1, AnswerLength
  <2>3. Goto(IF Len(Answer) - 6 > 0 THEN "data" ELSE "crc", all)
    BY <1>4, <1>8, <2>2
  <2>4. Len(Answer) \in Nat /\ Len(Answer) >= 6
    BY PacketTypes, LenProperties
  <2>5. CASE Len(Answer) - 6 > 0
    <3>1. Goto("data", all)
      BY <2>3, <2>5
    <3>2. QED
      BY <1>5, <2>1, <3>1 DEF Fields, all
  <2>6. CASE ~(Len(Answer) - 6 > 0)
    <3>1. Goto("crc", all)
      BY <2>3, <2>6
    <3>2. Len(Answer) = 6
      <4>1. \A n \in Nat : n >= 6 => n - 6 > 0 \/ n = 6
        OBVIOUS
      <4>2. QED
        BY <2>4, <2>6, <4>1
    <3>3. Len(all) = Len(Answer) - 2
      BY <2>1, <3>2
    <3>4. QED
      BY <1>5, <3>1, <3>3 DEF Fields, all
  <2>7. QED
    BY <2>5, <2>6
<1>9. CASE pc = "data"
  <2>1. Goto("crc", all) /\ Len(all) = Len(Answer) - 2
    BY <1>1, <1>2, <1>4, <1>9
  <2>2. QED
    BY <1>5, <2>1 DEF Fields, all
<1>10. CASE pc = "crc"
  <2>1. Len(all) = Len(Answer)
    BY <1>1, <1>2, <1>10
  <2>2. Values(all) = Answer
    <3>1. Values(all) = SubSeq(Answer, 1, Len(Answer))
      BY <1>3, <2>1
    <3>2. QED
      BY <3>1, PacketTypes, SubSeqFull
  <2>3. Finish(all)
    BY <1>4, <1>10, <2>2 DEF Packets
  <2>4. all = [i \in DOMAIN Answer |-> Received(Answer[i], FALSE)]
    <3>1. DOMAIN Answer = 1 .. Len(Answer) /\ DOMAIN all = 1 .. Len(Answer)
      BY <1>1, <2>1, PacketTypes, LenProperties
    <3>2. all = [i \in 1 .. Len(Answer) |-> all[i]]
      BY <1>1, <2>1, LenProperties
    <3>3. QED
      BY <1>3, <2>1, <3>1, <3>2
  <2>5. QED
    BY <2>3, <2>4 DEF Finish
<1>11. QED
  BY <1>6, <1>7, <1>8, <1>9, <1>10 DEF Reading, Fields

\* Bytes are read: they are the next ones of the stream, and go to the FIFO's echo or
\* to the field.
LEMMA ReadClean ==
  ASSUME IInv, CleanInv, ReadBytes
  PROVE  CleanInv'
<1>0. /\ Reading /\ port # <<>> /\ UNCHANGED <<out, coming, heard, clean>>
      /\ port' = SubSeq(port, Len(Chunk) + 1, Len(port))
      /\ fifo' = SubSeq(fifo, EchoBytes + 1, Len(fifo))
  BY DEF ReadBytes
<1> DEFINE bytes == buffer \o SubSeq(Chunk, 1, Len(Chunk) - EchoBytes)
<1>1. IF Len(bytes) = Wanted THEN FieldRead(bytes)
      ELSE buffer' = bytes /\ UNCHANGED <<pc, got, result>>
  BY DEF ReadBytes
<1>2. CASE ~clean
  BY <1>0, <1>2, NotClean
<1>3. CASE clean
  <2>1. Exchange
    BY <1>0, <1>3 DEF CleanInv
  <2>2. /\ port \in Seq(Bytes) /\ fifo \in Seq(Nat) /\ Chunk \in Seq(Bytes)
        /\ got \in Seq(Bytes) /\ buffer \in Seq(Bytes)
        /\ Len(Chunk) \in 1 .. Wanted - Len(buffer) /\ Len(Chunk) \in 0 .. Len(port)
        /\ After(port, Consumed) /\ After(Chunk, Consumed)
        /\ Rest(fifo, Request) /\ Rest(out, Request) /\ Rest(coming, Answer)
        /\ After(got, Len(Request)) /\ After(buffer, Len(Request) + Len(got))
        /\ Len(got) = Before
    BY <1>0, <2>1, ChunkFits, NextChunk DEF IInv, TypeOK, Exchange, Parsed, Sent
  <2>3. /\ Len(got) \in Nat /\ Len(buffer) \in Nat /\ Wanted \in Nat /\ Len(Chunk) \in Nat
        /\ Consumed \in Nat /\ Len(port) \in Nat /\ Len(Request) \in Nat /\ Len(Answer) \in Nat
        /\ Len(out) \in Nat /\ Len(coming) \in Nat
        /\ Len(fifo) \in Nat
    BY <1>0, <2>1, <2>2, FieldFits, Numbers, LenProperties
  <2>4. After(port', Consumed + Len(Chunk)) /\ Len(port') = Len(port) - Len(Chunk)
    BY <1>0, <2>2, <2>3, AfterSplit, OtherBytes
  <2>5. ASSUME Consumed' = Consumed + Len(Chunk) PROVE Sent'
    <3>1. After(port', Consumed') /\ Consumed' + Len(port') = Consumed + Len(port)
      BY <2>3, <2>4, <2>5
    <3>2. Rest(out', Request) /\ Rest(coming', Answer)
      BY <1>0, <2>2
    <3>3. CASE out = <<>>
      <4>1. Consumed + Len(port) = Len(Request) + Len(Answer) - Len(coming)
        BY <2>1, <3>3 DEF Exchange, Sent
      <4>2. QED
        BY <1>0, <3>1, <3>2, <3>3, <4>1 DEF Sent
    <3>4. CASE out # <<>>
      <4>1. /\ coming = <<>>
            /\ Consumed + Len(port) = Len(Request) - Len(out)
            /\ Len(heard) = Len(Request) - Len(out)
            /\ \A i \in 1 .. Len(heard) : heard[i] = Request[i]
        BY <2>1, <3>4 DEF Exchange, Sent
      <4>2. QED
        BY <1>0, <3>1, <3>2, <3>4, <4>1 DEF Sent
    <3>5. QED
      BY <3>3, <3>4
  <2>6. CASE fifo # <<>>
    <3>1. /\ pc = "address" /\ got = <<>> /\ buffer = <<>>
          /\ Consumed = Len(Request) - Len(fifo) /\ Len(fifo) > 0
          /\ Len(Chunk) = 1 /\ EchoBytes = 1
      BY <1>0, <2>1, <2>6, Numbers, NextChunk
    <3>2. bytes = <<>> /\ Wanted = 1
      <4>1. SubSeq(Chunk, 1, 0) = <<>>
        BY SubSeqEmpty
      <4>2. SubSeq(Chunk, 1, Len(Chunk) - EchoBytes) = <<>>
        BY <3>1, <4>1
      <4>3. QED
        BY <3>1, <4>2 DEF Wanted
    <3>3. buffer' = <<>> /\ UNCHANGED <<pc, got, result>>
      <4> HIDE DEF bytes
      <4>1. Len(bytes) # Wanted
        BY <3>2, EmptySeq
      <4>2. QED
        BY <1>1, <3>2, <4>1
    <3>4. Rest(fifo', Request) /\ Len(fifo') = Len(fifo) - 1
      <4>1. fifo' = Tail(fifo)
        <5>1. fifo' = SubSeq(fifo, 2, Len(fifo))
          BY <1>0, <3>1
        <5>2. QED
          BY <2>2, <2>6, <5>1, TailIsSubSeq
      <4>2. QED
        BY <2>2, <2>6, <4>1, RestTail, PacketTypes
    <3>5. Consumed' = Consumed + Len(Chunk)
      <4>1. Len(got') = 0 /\ Len(buffer') = 0
        BY <3>1, <3>3
      <4>2. QED
        BY <2>3, <3>1, <3>4, <4>1 DEF Consumed
    <3>6. Parsed'
      <4>1. Before' = Before /\ got' = got /\ buffer' = buffer
        BY <3>1, <3>3 DEF Before
      <4>2. QED
        BY <2>2, <4>1 DEF Parsed
    <3>7. QED
      BY <2>5, <3>1, <3>3, <3>4, <3>5, <3>6 DEF CleanInv, Exchange, CleanExchange
  <2>7. CASE fifo = <<>>
    <3>1. /\ EchoBytes = 0 /\ Consumed = Len(Request) + Len(got) + Len(buffer)
      BY <1>0, <2>1, <2>7, Numbers, NextChunk
    <3>2. fifo' = <<>>
      <4>1. fifo' = SubSeq(fifo, 1, 0)
        BY <1>0, <2>7, <3>1
      <4>2. QED
        BY <4>1, SubSeqEmpty
    <3>3. bytes = buffer \o Chunk
      <4>1. Len(Chunk) - EchoBytes = Len(Chunk)
        BY <2>3, <3>1
      <4>2. SubSeq(Chunk, 1, Len(Chunk) - EchoBytes) = Chunk
        BY <2>2, <4>1, SubSeqFull
      <4>3. QED
        BY <4>2
    <3>4. /\ bytes \in Seq(Bytes) /\ Len(bytes) = Len(buffer) + Len(Chunk)
          /\ After(bytes, Len(Request) + Len(got))
      <4>1. PICK n \in Nat : n = Len(Request) + Len(got)
        BY <2>3
      <4>2. After(buffer, n) /\ After(Chunk, n + Len(buffer))
        BY <2>2, <3>1, <4>1
      <4>3. QED
        BY <2>2, <3>3, <4>1, <4>2, AfterConcat
    <3>5. Rest(fifo', Request)
      BY <3>2, RestTrivial, PacketTypes
    <3> HIDE DEF bytes
    <3>6. CASE Len(bytes) # Wanted
      <4>1. buffer' = bytes /\ UNCHANGED <<pc, got, result>>
        BY <1>1, <3>6
      <4>2. Consumed' = Consumed + Len(Chunk)
        BY <2>3, <2>7, <3>1, <3>2, <3>4, <4>1 DEF Consumed
      <4>3. Parsed'
        <5>1. Before' = Before
          BY <4>1 DEF Before
        <5>2. QED
          BY <2>2, <3>4, <4>1, <5>1 DEF Parsed
      <4>4. pc' # "idle" /\ pc' # "sleep"
        BY <1>0, <4>1 DEF Reading, Fields
      <4>5. QED
        BY <2>5, <3>5, <4>2, <4>3, <4>4 DEF CleanInv, Exchange, CleanExchange
    <3>7. CASE Len(bytes) = Wanted
      <4>1. FieldRead(bytes)
        BY <1>1, <3>7
      <4>2. \/ /\ pc' \in Fields /\ pc' # "address"
               /\ got' = got \o bytes /\ buffer' = <<>> /\ UNCHANGED result
               /\ Len(got') = Before' /\ After(got', Len(Request))
               /\ Len(got') = Len(got) + Wanted
            \/ pc' = "idle" /\ result' = [i \in DOMAIN Answer |-> Received(Answer[i], FALSE)]
        BY <1>0, <2>1, <3>4, <3>7, <4>1, AnswerField
      <4>3. CASE pc' = "idle" /\ result' = [i \in DOMAIN Answer |-> Received(Answer[i], FALSE)]
        BY <4>3 DEF CleanInv, CleanExchange, Reading, Fields
      <4>4. CASE /\ pc' \in Fields /\ pc' # "address"
                 /\ got' = got \o bytes /\ buffer' = <<>> /\ UNCHANGED result
                 /\ Len(got') = Before' /\ After(got', Len(Request))
                 /\ Len(got') = Len(got) + Wanted
        <5>1. Len(buffer') = 0 /\ pc' # "idle" /\ pc' # "sleep"
          BY <4>4 DEF Fields
        <5>2. Consumed' = Consumed + Len(Chunk)
          <6>1. Len(got') = Len(got) + Len(buffer) + Len(Chunk)
            BY <2>3, <3>4, <3>7, <4>4
          <6>2. Consumed' = Len(Request) - 0 + Len(got') + 0
            BY <3>2, <5>1 DEF Consumed
          <6>3. QED
            BY <2>3, <3>1, <2>7, <6>1, <6>2
        <5>3. Parsed'
          BY <4>4, AfterNothing DEF Parsed
        <5>4. QED
          BY <2>5, <3>5, <5>1, <5>2, <5>3 DEF CleanInv, Exchange, CleanExchange
      <4>5. QED
        BY <4>2, <4>3, <4>4
    <3>8. QED
      BY <3>6, <3>7
  <2>8. QED
    BY <2>6, <2>7
<1>4. QED
  BY <1>2, <1>3

\* Every step of the daemon and of the line keeps a clean exchange clean or ends its
\* being clean.
LEMMA NextClean == IInv /\ CleanInv /\ [Next]_vars => CleanInv'
<1> SUFFICES ASSUME IInv, CleanInv, [Next]_vars PROVE CleanInv'
  OBVIOUS
<1>1. CASE WritePacket
  BY <1>1, WritePacketClean
<1>2. CASE Write
  BY <1>2, WriteClean
<1>3. CASE ReadBytes
  BY <1>3, ReadClean
<1>4. CASE EchoMismatch
  BY <1>4, NoMismatch, NotClean
<1>5. CASE ReadTimeout
  BY <1>5, NoTimeout, NotClean
<1>6. CASE Transmit
  BY <1>6, TransmitClean
<1>7. CASE Arrive
  BY <1>7, ArriveClean
<1>8. CASE Stray
  <2>1. ~clean'
    BY <1>8 DEF Stray
  <2>2. QED
    BY <2>1, NotClean
<1>9. CASE UNCHANGED vars
  <2>1. UNCHANGED <<pc, fifo, got, buffer, result, clean, out, port, coming, heard>>
    BY <1>9 DEF vars, line, reader
  <2>2. UNCHANGED <<Silent, Reading, Exchange, CleanExchange>>
    BY <2>1 DEF Silent, Reading, Exchange, Parsed, Sent, Before, Consumed, CleanExchange
  <2>3. QED
    BY <2>1, <2>2 DEF CleanInv
<1>10. QED
  BY <1>1, <1>2, <1>3, <1>4, <1>5, <1>6, <1>7, <1>8, <1>9 DEF Next, Daemon, Line

\* An exchange that begins on a silent line and that nothing disturbs gives the
\* answer of the station, whatever the packets, however read() cuts the stream into
\* pieces, and whatever went wrong before: the echo cancellation takes off exactly the
\* request and not one byte of the answer.
THEOREM CleanGivesAnswer == Spec => []CleanExchange
<1>1. Init => CleanInv
  BY InitClean
<1>2. IInv /\ CleanInv /\ [Next]_vars => CleanInv'
  BY NextClean
<1>3. CleanInv => CleanExchange
  BY DEF CleanInv
<1>4. QED
  BY <1>1, <1>2, <1>3, Invariance, PTL DEF Spec
=============================================================================
