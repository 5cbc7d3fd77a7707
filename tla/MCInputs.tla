------------------------------ MODULE MCInputs ------------------------------
(***************************************************************************)
(* The pure parts of the adapter over bounded inputs: the lines and the    *)
(* commands of Inputs, the commands being those that the loggers make of   *)
(* what the device reports; and damaged frames, with what must be made of  *)
(* them.                                                                   *)
(***************************************************************************)
EXTENDS Inputs, Checksums

-----------------------------------------------------------------------------
(* Texts.                                                                  *)

MCNumber == "5" :> 5 @@ "2" :> 2 @@ "24" :> 24 @@ "31~5" :> 31 @@ "31" :> 31 @@ "9600" :> 9600 @@ "75" :> 75
MCZeroFirst == {"0"}
MCParts == <<"31~5">> :> <<"31", "5">> @@ <<"31", "~5">> :> <<"31", "5">> @@ <<"~5">> :> <<"", "5">>
MCDevices == {"tty0"}
MCRates == {"9600", "75"}

PortList == <<<<"-a">>, <<"comdevice">>, <<"tty0">>, <<"-a">>, <<"baudrate">>, <<"9600">>>>

\* Lists of parameters: complete, without a rate, with a value that ends or
\* goes on after a blank, with an option that is not read.
Lists == {PortList, SubSeq(PortList, 1, 3), PortList \o <<<<"-a">>, <<"address">>, <<"">>>>,
          PortList \o <<<<"-a">>, <<"address">>, <<"x", "-p">>>>,
          PortList \o <<<<"-a">>, <<"debug">>, <<"0">>, <<"-a">>, <<"debug">>, <<"x">>>>,
          PortList \o <<<<"-exit">>, <<"x">>>>,
          PortList \o <<<<"-a">>, <<"baudrate">>, <<"75">>>>}

Programs == {<<"retex">>, <<"a", "retex">>}
Ids      == {<<"5">>, <<"5", "2">>, <<"">>}
Types    == {<<"2">>, <<"24">>, <<"5">>}
Messages == {<<"5">>, <<"31~5">>, <<"31", "~5">>, <<"31">>, <<"">>}
Sources  == {<<"x">>, <<"5">>, <<"5", "5">>}
Paths    == {<<"x">>, <<"">>, <<"x", "x">>}

CommandLines ==
  {<<p, <<"-cmd">>, d, t, m, s, c, <<"-sp">>, q>> \o list :
     p \in Programs, d \in Ids, t \in Types, m \in Messages, s \in Sources, c \in {<<"5">>, <<"x">>},
     q \in Paths, list \in Lists}

OtherLines ==
  {<<p, <<"-r">>, d, <<"-sp">>, q>> \o list : p \in Programs, d \in Ids, q \in Paths, list \in Lists}
    \cup {<<p, <<o>>>> \o list : p \in Programs, o \in {"-t", "-d", "-p"}, list \in Lists}

\* Every line of at most three arguments.
ShortLines ==
  UNION {[1 .. n -> {<<o>> : o \in Options} \cup {<<"5">>, <<"x">>, <<"">>, <<"x", "x">>}] : n \in 1 .. 3}

MCLines == CommandLines \cup OtherLines \cup {<<<<"retex">>>> \o line : line \in ShortLines}

-----------------------------------------------------------------------------
(* Commands to the gateway.                                                *)

Date == FixedText([i \in 1 .. 19 |-> 48 + i], date_t)

TextsOf(lengths) == {[i \in 1 .. n |-> 64 + i] : n \in lengths}

\* One of one byte, one of two, and none.
Samples ==
  LET filter == <<[channel |-> 30, param |-> 1050110050], [channel |-> -1, param |-> 1050111080]>>
      packet(byte) == [i \in 1 .. ModeSize(2) |-> byte]
  IN  {SampleCommand(r, Date) :
         r \in UNION {ToSet(ReportDataPacket(CreateOffsetTable(<<>>, filter), 2, packet(byte))) : byte \in {0, 128}}}

\* Faults with a text and without one, the motor's state and a deviation, with
\* a channel of the device and without one; texts of any length.
Events ==
  LET filters == {<<>>, <<[channel |-> 1, param |-> DEVICE_STATE_CHANNEL_PARAM]>>}
      made(f) == {ReportFault(f, code) : code \in {0, 5, 20}} \cup {ReportDeviation(f, 15)}
                   \cup {ReportStationState(f, new, 1, text) : new \in {0, 1}, text \in TextsOf({0, 3, 4, 5})}
  IN  {EventCommand(event, Date) : event \in UNION {made(f) : f \in filters}}

Requests == {[type |-> "rdp", items |-> items] : items \in {<<>>, <<<<7>>>>, <<<<7>>, <<-1>>>>}}
  \cup {[type |-> "rds", items |-> items] : items \in {<<>>, <<<<<<65, 66>>>>, <<<<>>>>>>}}

MCCommands == Samples \cup Events \cup Requests
  \cup {[type |-> "wrp", items |-> one.items \o two.items] : one, two \in Samples}

-----------------------------------------------------------------------------
(* Packets.                                                                *)

Wanted == {[channel |-> 30, param |-> 1050110050], [channel |-> 3, param |-> 1050110010],
           [channel |-> 7, param |-> 1050100050], [channel |-> 4, param |-> 1080105030],
           [channel |-> 1, param |-> DEVICE_STATE_CHANNEL_PARAM], [channel |-> 9, param |-> 1]}

\* Every channel that the adapter shows, choices of a few, and rows that want
\* the same parameter.
MCFilters == {SetToSeq(chosen) : chosen \in SUBSET Wanted}
  \cup {ShownChannels, SetToSeq(Wanted) \o <<[channel |-> 5, param |-> 1050110010]>>}

\* Each byte says where it is.
MCContents == {[i \in 1 .. ModeSize(mode) |-> i] : mode \in 0 .. 6}

-----------------------------------------------------------------------------
(* Frames.                                                                 *)

MCOutgoing == {[cmd |-> c, data |-> Payload(c, 31, v)] : c \in {128, 132, 140, 144, 148, 156}, v \in {0, 300}}
  \cup {[cmd |-> 11, data |-> <<21>>], [cmd |-> 112, data |-> <<0, 1, 0, 2>>],
        [cmd |-> 100, data |-> <<255, 0, 1, 128>>]}

\* Among them the beginning of another packet.
MCNoises == {<<>>, <<0>>, <<1, 53>>, <<KSU_ADDRESS, 0, 1>>}

Masks == {0, 1, 16, 128, 255}

\* The pair of bytes at a position is changed: a burst of at most 16 bits.
ChooseDamage ==
  /\ input.kind = "none"
  /\ \E packet \in MCOutgoing, first, second \in Masks :
       /\ first # 0 \/ second # 0
       /\ \E position \in 1 .. Len(packet.data) + 5 :
            input' = [kind |-> "damage", packet |-> packet, position |-> position,
                      first |-> first, second |-> second]

Damaged(bytes, position, first, second) ==
  [bytes EXCEPT ![position] = @ ^^ first, ![position + 1] = @ ^^ second]

\* A frame is refused when a burst of up to sixteen bits of it is wrong, wherever
\* that is (ComTrafficProcessor::ReadPacket).
DamageIsDetected ==
  input.kind = "damage" =>
    LET frame == CreateRawPacket(input.packet.cmd, input.packet.data)
    IN  ReadPacket(Damaged(frame, input.position, input.first, input.second)).type = "error"

-----------------------------------------------------------------------------
(* The station's clock: exact, at the limit, and beyond it on either side.  *)

Moments == [mode : {0, 2}, minute : {10}, local : {600, 900, 901, 299}]

MCArrivals == UNION {[1 .. n -> Moments] : n \in 1 .. 4}
MCSyncTimes == {-1, 5}

-----------------------------------------------------------------------------
MCNext == Next \/ ChooseDamage

MCSpec == Init /\ [][MCNext]_input
=============================================================================
