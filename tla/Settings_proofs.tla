-------------------------- MODULE Settings_proofs --------------------------
(* Proofs about Settings, for any table of settings, any values and any     *)
(* number of changes, restarts and losses.                                  *)
EXTENDS Settings, TLAPS

\* Once the first packet is compared, the daemon knows what the station has, except
\* of the settings somebody changed since, in a way it has not seen. The daemon itself
\* changes one, in one way.
Known(id) == id \in byHand \/ id \in doubt \/ id \in byDaemon \/ value[id] = station[id]

IInv ==
  /\ station \in [Ids -> Nat] /\ value \in [Ids -> Nat]
  /\ (capture # "no" => up) /\ (capture = "yes" => ~first)
  /\ ~first => \A id \in InPacket : Known(id)
  /\ byDaemon \subseteq {Password} /\ (byDaemon # {} => station[Password] = PasswordValue)
  /\ HandMeansHand

\* What a station stores of a number is a number.
LEMMA StoredIsNat ==
  ASSUME NEW id, NEW v \in Nat
  PROVE  Stored(id, v) \in Nat
  BY BoundsAssumption DEF Stored

\* The values are numbers, and the settings of a packet are settings.
LEMMA Kinds == /\ Values \subseteq Nat /\ InPacket \subseteq Ids
               /\ Password \in InPacket /\ Password \in Ids /\ PasswordValue \in Values
  BY TableAssumption, PasswordAssumption, BoundsAssumption DEF Values

\* The inductive invariant holds at the start.
LEMMA InitIInv == Init => IInv
<1> SUFFICES ASSUME Init PROVE IInv
  OBVIOUS
<1>1. station \in [Ids -> Nat]
  BY Kinds, AtFirstAssumption DEF Init
<1>2. value \in [Ids -> Nat]
  BY DEF Init
<1>3. QED
  BY <1>1, <1>2 DEF Init, IInv, HandMeansHand

\* A packet: only what is not explained is new, and after it nothing is unknown.
LEMMA PacketIInv ==
  ASSUME IInv, CheckSettingsChanged, UNCHANGED <<station, up>>, up
  PROVE  IInv'
<1> DEFINE changed == {id \in InPacket : Changed(id)}
<1>1. /\ station' = station /\ first' = FALSE
      /\ value' = [id \in Ids |-> IF id \in changed THEN station[id] ELSE value[id]]
      /\ byDaemon' \subseteq byDaemon
  BY DEF CheckSettingsChanged
<1>2. value' \in [Ids -> Nat]
  BY <1>1 DEF IInv
<1>3. \A id \in InPacket : value'[id] = station[id]
  BY <1>1, Kinds DEF Changed
<1>4. HandMeansHand'
  <2> SUFFICES ASSUME NEW e \in event', e.source = "HND"
               PROVE  \/ e.why \in {"hand", "doubt"}
                      \/ e.why = "password" /\ e.id = Password /\ e.new = PasswordValue
    BY DEF HandMeansHand
  <2>1. PICK id \in changed : e = Event(id, station[id], IF first THEN "INIT" ELSE "HND")
    BY DEF CheckSettingsChanged, Report
  <2>2. ~first
    BY <2>1 DEF Event
  <2>3. id \in InPacket /\ station[id] # value[id]
    BY <2>1, <2>2 DEF Changed
  <2>4. \/ id \in byHand \/ id \in doubt
        \/ id \in byDaemon /\ id = Password /\ station[id] = PasswordValue
    BY <2>2, <2>3 DEF IInv, Known
  <2>5. e.id = id /\ e.new = station[id] /\ e.why = Why(id)
    BY <2>1 DEF Event
  <2>6. QED
    BY <2>4, <2>5 DEF Why
<1>5. QED
  BY <1>1, <1>2, <1>3, <1>4 DEF IInv, Known

\* A step that reports nothing, and leaves the settings and their doubts alone.
LEMMA QuietIInv ==
  ASSUME IInv, event' = {}, UNCHANGED <<station, value, first, byHand, doubt, byDaemon>>,
         capture' # "no" => up', capture' = "yes" => ~first
  PROVE  IInv'
  BY DEF IInv, Known, HandMeansHand

\* The daemon writes the password, and is the one who changed it if it was another one.
LEMMA PasswordIInv ==
  ASSUME IInv, WritePassword
  PROVE  IInv'
<1>1. /\ station' = [station EXCEPT ![Password] = PasswordValue] /\ event' = {}
      /\ up /\ capture' = "asked" /\ UNCHANGED <<up, value, first>>
  BY DEF WritePassword, Quiet, settings
<1>2. station' \in [Ids -> Nat] /\ station'[Password] = PasswordValue
  BY <1>1, Kinds DEF IInv
<1>3. \A id \in Ids \ {Password} : station'[id] = station[id]
  BY <1>1 DEF IInv
<1>4. byDaemon' \subseteq {Password}
  BY DEF WritePassword, changes, IInv
<1>5. ASSUME ~first, NEW id \in InPacket PROVE Known(id)'
  <2>1. Known(id)
    BY <1>5 DEF IInv
  <2>2. CASE station[Password] = PasswordValue
    <3>1. UNCHANGED <<byHand, doubt, byDaemon>>
      BY <2>2 DEF WritePassword, changes
    <3>2. station'[id] = station[id]
      BY <1>2, <1>3, <2>2, Kinds
    <3>3. QED
      BY <1>1, <2>1, <3>1, <3>2 DEF Known
  <2>3. CASE station[Password] # PasswordValue
    <3>1. /\ byHand' = byHand \ {Password} /\ doubt' = doubt \ {Password}
          /\ byDaemon' = byDaemon \cup {Password}
      BY <2>3 DEF WritePassword
    <3>2. id = Password \/ station'[id] = station[id]
      BY <1>3, Kinds
    <3>3. QED
      BY <1>1, <2>1, <3>1, <3>2 DEF Known
  <2>4. QED
    BY <2>2, <2>3
<1>6. QED
  BY <1>1, <1>2, <1>4, <1>5 DEF IInv, HandMeansHand

\* Every step keeps the inductive invariant.
LEMMA NextIInv == IInv /\ [Next]_vars => IInv'
<1> SUFFICES ASSUME IInv, [Next]_vars PROVE IInv'
  OBVIOUS
<1>1. CASE HearSettings
  BY <1>1, PacketIInv DEF HearSettings
<1>2. CASE Capture
  BY <1>2, PacketIInv DEF Capture, IInv
<1>2a. CASE WritePassword
  BY <1>2a, PasswordIInv
<1>3. CASE CaptureFails \/ Release
  BY <1>3, QuietIInv DEF CaptureFails, Release, Quiet, settings, changes, IInv
<1>4. ASSUME NEW id \in Ids, NEW v \in Values, ClientSet(id, v) PROVE IInv'
  <2>1. /\ capture = "yes" /\ UNCHANGED <<capture, up, first>>
        /\ station' = [station EXCEPT ![id] = Stored(id, v)]
        /\ byHand' = byHand \ {id} /\ byDaemon' = byDaemon \ {id}
    BY <1>4 DEF ClientSet
  <2>2. station' \in [Ids -> Nat]
    BY <2>1, StoredIsNat, Kinds DEF IInv
  <2>2a. byDaemon' \subseteq {Password} /\ (byDaemon' # {} => station'[Password] = PasswordValue)
    BY <2>1, Kinds DEF IInv
  <2>3. CASE SettingIsSet(id, v)
    <3>1. value' = [value EXCEPT ![id] = v]
      BY <2>3 DEF SettingIsSet, SetCurrentSettingValue, IInv
    <3>2. doubt' = IF Stored(id, v) = v THEN doubt \ {id} ELSE doubt \cup {id}
      BY <2>3 DEF SettingIsSet
    <3>3. HandMeansHand'
      <4>1. \A e \in event' : e = Event(id, v, "SRV")
        <5>1. event' = {} \/ Report({id}, [i \in {id} |-> v], "SRV")
          BY <2>3 DEF SettingIsSet, Quiet
        <5>2. QED
          BY <5>1 DEF Report
      <4>2. Event(id, v, "SRV").source = "SRV"
        BY DEF Event
      <4>3. QED
        BY <4>1, <4>2 DEF HandMeansHand
    <3>4. value' \in [Ids -> Nat]
      BY <3>1, Kinds DEF IInv
    <3>5. ASSUME NEW i \in InPacket
          PROVE  Known(i)'
      <4>1. CASE i = id
        BY <2>1, <3>1, <3>2, <4>1, Kinds DEF IInv, Known
      <4>2. CASE i # id
        <5>1. value'[i] = value[i] /\ station'[i] = station[i]
          BY <2>1, <3>1, <4>2, Kinds DEF IInv
        <5>2. Known(i)
          BY <2>1 DEF IInv
        <5>3. QED
          BY <2>1, <3>2, <4>2, <5>1, <5>2 DEF Known
      <4>3. QED
        BY <4>1, <4>2
    <3>6. QED
      BY <2>1, <2>2, <2>2a, <3>3, <3>4, <3>5 DEF IInv
  <2>4. CASE AnswerIsLost(id)
    <3>1. doubt' = doubt \cup {id} /\ value' = value /\ event' = {}
      BY <2>4 DEF AnswerIsLost, Quiet
    <3>2. ASSUME NEW i \in InPacket
          PROVE  Known(i)'
      <4>1. CASE i = id
        BY <3>1, <4>1 DEF Known
      <4>2. CASE i # id
        <5>1. station'[i] = station[i]
          BY <2>1, <4>2, Kinds DEF IInv
        <5>2. Known(i)
          BY <2>1 DEF IInv
        <5>3. QED
          BY <2>1, <3>1, <4>2, <5>1, <5>2 DEF Known
      <4>3. QED
        BY <4>1, <4>2
    <3>3. QED
      BY <2>1, <2>2, <2>2a, <3>1, <3>2 DEF IInv, HandMeansHand
  <2>5. QED
    BY <1>4, <2>3, <2>4 DEF ClientSet
<1>5. ASSUME NEW id \in Ids, NEW v \in Values, OperatorSets(id, v) PROVE IInv'
  <2>1. /\ station' = [station EXCEPT ![id] = v] /\ byHand' = byHand \cup {id}
        /\ byDaemon' = byDaemon \ {id}
        /\ event' = {} /\ UNCHANGED <<capture, up, value, first, doubt>>
    BY <1>5 DEF OperatorSets, Quiet, settings
  <2>2. \A i \in InPacket : i = id \/ station'[i] = station[i]
    BY <2>1, Kinds DEF IInv
  <2>3. station' \in [Ids -> Nat]
    BY <2>1, Kinds DEF IInv
  <2>4. byDaemon' \subseteq {Password} /\ (byDaemon' # {} => station'[Password] = PasswordValue)
    BY <2>1, Kinds DEF IInv
  <2>5. QED
    BY <2>1, <2>2, <2>3, <2>4 DEF IInv, Known, HandMeansHand
<1>6. CASE Tick
  BY <1>6, QuietIInv DEF Tick, Quiet, settings, changes, IInv
<1>7. CASE StoreEvent
  BY <1>7, QuietIInv DEF StoreEvent, settings, changes, IInv
<1>8. CASE LoseEvent
  BY <1>8, QuietIInv DEF LoseEvent, settings, changes, IInv
<1>9. CASE DaemonEnds
  BY <1>9, QuietIInv DEF DaemonEnds, settings, changes
<1>10. CASE DaemonStarts
  <2>1. first' = TRUE /\ event' = {} /\ UNCHANGED <<station, capture, byDaemon>>
        /\ up'
    BY <1>10 DEF DaemonStarts, Quiet, changes
  <2>2. value' \in [Ids -> Nat]
    BY <1>10, Kinds DEF DaemonStarts, ReadBack
  <2>3. capture = "no"
    BY <1>10 DEF DaemonStarts, IInv
  <2>4. QED
    BY <2>1, <2>2, <2>3 DEF IInv, HandMeansHand
<1>11. CASE UNCHANGED vars
  BY <1>11 DEF vars, settings, changes, IInv, Known, HandMeansHand
<1>12. QED
  BY <1>1, <1>2, <1>2a, <1>3, <1>4, <1>5, <1>6, <1>7, <1>8, <1>9, <1>10, <1>11 DEF Next

\* No event blames the operator for what a client did and the daemon could know, or for
\* nothing at all, or for what the daemon did, but for the password a capture writes.
THEOREM HandIsHand == Spec => []HandMeansHand
<1>1. IInv => HandMeansHand
  BY DEF IInv
<1>2. QED
  BY <1>1, InitIInv, NextIInv, PTL DEF Spec

-----------------------------------------------------------------------------
(* Types.                                                                    *)

\* What a station stores of a value is a value.
LEMMA StoredIsValue ==
  ASSUME NEW id, NEW v \in Values
  PROVE  Stored(id, v) \in Values
<1>1. v % ByteValues \in Nat /\ v % ByteValues <= v
  <2>1. v \in Nat /\ ByteValues \in Nat \ {0}
    BY BoundsAssumption DEF Values
  <2>2. CASE v < ByteValues
    BY <2>1, <2>2
  <2>3. CASE ByteValues <= v
    BY <2>1, <2>3
  <2>4. QED
    BY <2>1, <2>2, <2>3
<1>2. QED
  BY <1>1, BoundsAssumption DEF Stored, Values

\* The order in which settings are reported is a sequence of them.
LEMMA InOrder ==
  ASSUME NEW ids, NEW s \in Ordered(ids)
  PROVE  s \in Seq(ids) /\ \A id \in ids : \E i \in DOMAIN s : s[i] = id
  BY TableAssumption DEF Ordered

\* An event has the type of events.
LEMMA EventIsEvent ==
  ASSUME TypeOK, NEW id \in Ids, NEW v \in Values, NEW source \in {"INIT", "HND", "SRV"}
  PROVE  Event(id, v, source) \in EventType
<1>1. /\ value[id] \in Values /\ reported[id] \in Values \cup {None}
      /\ Why(id) \in {"hand", "doubt", "password", "none"}
  BY DEF TypeOK, Why
<1>2. (id \notin broken) \in BOOLEAN
  OBVIOUS
<1>3. QED
  BY <1>1, <1>2 DEF Event, EventType

\* A queue has the rows of the present one and those of a report.
Adds(later, ids, new) ==
  \A e : (\E i \in DOMAIN later : e = later[i]) <=>
        \/ \E i \in DOMAIN queue : e = queue[i]
        \/ \E id \in ids : e = Row(id, new[id])

\* What is reported goes to the end of the queue and nowhere else.
LEMMA ReportTypes ==
  ASSUME TypeOK, NEW ids \in SUBSET Ids, NEW new, \A id \in ids : new[id] \in Values,
         NEW source \in {"INIT", "HND", "SRV"}, Report(ids, new, source)
  PROVE  /\ queue' \in Seq(RowType) /\ event' \subseteq EventType
         /\ reported' \in [Ids -> Values \cup {None}] /\ broken' \in SUBSET Ids
         /\ Adds(queue', ids, new)
<1>1. PICK inOrder \in Ordered(ids) :
        queue' = queue \o [i \in DOMAIN inOrder |-> Row(inOrder[i], new[inOrder[i]])]
  BY DEF Report
<1> DEFINE rows == [i \in DOMAIN inOrder |-> Row(inOrder[i], new[inOrder[i]])]
<1>2. inOrder \in Seq(ids) /\ \A id \in ids : \E i \in DOMAIN inOrder : inOrder[i] = id
  BY InOrder
<1>3. \A id \in ids : /\ Event(id, new[id], source) \in EventType
                      /\ Row(id, new[id]) \in RowType
  BY EventIsEvent DEF Row, RowType, TypeOK
<1>4. rows \in Seq(RowType) /\ DOMAIN rows = DOMAIN inOrder
  BY <1>2, <1>3
<1>5. /\ \A i \in DOMAIN rows : \E id \in ids : rows[i] = Row(id, new[id])
      /\ \A id \in ids : \E i \in DOMAIN rows : rows[i] = Row(id, new[id])
  BY <1>2, <1>4
<1>6. queue \in Seq(RowType) /\ queue' = queue \o rows
  BY <1>1 DEF TypeOK
<1> HIDE DEF rows
<1>7. /\ queue' \in Seq(RowType) /\ DOMAIN queue' = 1 .. Len(queue) + Len(rows)
      /\ \A i \in DOMAIN queue : i \in DOMAIN queue' /\ queue'[i] = queue[i]
      /\ \A i \in DOMAIN rows :
           i + Len(queue) \in DOMAIN queue' /\ queue'[i + Len(queue)] = rows[i]
      /\ \A i \in DOMAIN queue' :
           \/ i \in DOMAIN queue
           \/ i - Len(queue) \in DOMAIN rows /\ queue'[i] = rows[i - Len(queue)]
  BY <1>4, <1>6
<1>8. Adds(queue', ids, new)
  BY <1>5, <1>7 DEF Adds
<1>9. event' \subseteq EventType
  BY <1>3 DEF Report
<1>10. reported' \in [Ids -> Values \cup {None}] /\ broken' \in SUBSET Ids
  BY DEF Report, TypeOK
<1>11. QED
  BY <1>7, <1>8, <1>9, <1>10

\* Initially every variable has its type.
LEMMA InitTypes == Init => TypeOK
<1> SUFFICES ASSUME Init PROVE TypeOK
  OBVIOUS
<1>1. /\ station \in [Ids -> Values] /\ value \in [Ids -> Values] /\ isSet \in [Ids -> BOOLEAN]
      /\ reported \in [Ids -> Values \cup {None}]
  BY BoundsAssumption, AtFirstAssumption DEF Init, Values
<1>2. clock \in 0 .. MaxClock /\ moves \in 0 .. MaxMoves /\ crashes \in 0 .. MaxCrashes
  BY BoundsAssumption DEF Init
<1>3. capture = "no" /\ up \in BOOLEAN /\ first \in BOOLEAN
  BY DEF Init
<1>4. /\ queue \in Seq(RowType) /\ db \in Seq(RowType) /\ event \subseteq EventType
      /\ byHand \subseteq Ids /\ doubt \subseteq Ids /\ byDaemon \subseteq Ids
      /\ broken \subseteq Ids
  BY DEF Init
<1>5. QED
  BY <1>1, <1>2, <1>3, <1>4 DEF TypeOK

\* A packet keeps the types.
LEMMA PacketTypes ==
  ASSUME TypeOK, CheckSettingsChanged, UNCHANGED <<station, up, db, clock, moves, crashes>>,
         capture' \in {"no", "asked", "retry", "yes"}, capture' # "no" => up
  PROVE  TypeOK'
<1> DEFINE changed == {id \in InPacket : Changed(id)}
<1>1. PICK ids \in SUBSET Ids, source \in {"INIT", "HND", "SRV"} :
        ids = changed /\ source = IF first THEN "INIT" ELSE "HND"
  BY Kinds
<1>2. PICK new : new = station
  OBVIOUS
<1>3. /\ queue' \in Seq(RowType) /\ event' \subseteq EventType
      /\ reported' \in [Ids -> Values \cup {None}] /\ broken' \in SUBSET Ids
  <2>1. Report(ids, new, source) /\ \A id \in ids : new[id] \in Values
    BY <1>1, <1>2, Kinds DEF CheckSettingsChanged, TypeOK
  <2>2. QED
    BY <1>1, <2>1, ReportTypes
<1>4. value' \in [Ids -> Values] /\ first' = FALSE /\ isSet' = isSet
  BY DEF CheckSettingsChanged, TypeOK
<1>5. byHand' \in SUBSET Ids /\ doubt' \in SUBSET Ids /\ byDaemon' \in SUBSET Ids
  BY DEF CheckSettingsChanged, TypeOK
<1>6. QED
  BY <1>3, <1>4, <1>5 DEF TypeOK

\* So does a client.
LEMMA ClientTypes ==
  ASSUME TypeOK, NEW id \in Ids, NEW v \in Values, ClientSet(id, v)
  PROVE  TypeOK'
<1>1. /\ station' \in [Ids -> Values] /\ moves' \in 0 .. MaxMoves
      /\ byHand' \in SUBSET Ids /\ byDaemon' \in SUBSET Ids
      /\ UNCHANGED <<capture, up, isSet, first, db, clock, crashes>>
  BY StoredIsValue, BoundsAssumption DEF ClientSet, TypeOK
<1>2. /\ queue' \in Seq(RowType) /\ event' \subseteq EventType /\ value' \in [Ids -> Values]
      /\ reported' \in [Ids -> Values \cup {None}]
      /\ broken' \in SUBSET Ids /\ doubt' \in SUBSET Ids
  <2>1. CASE SettingIsSet(id, v) /\ value[id] # v
    <3>1. PICK new : new = [i \in {id} |-> v]
      OBVIOUS
    <3>2. /\ Report({id}, new, "SRV") /\ \A i \in {id} : new[i] \in Values
          /\ value' = [value EXCEPT ![id] = v]
      BY <2>1, <3>1 DEF SettingIsSet, SetCurrentSettingValue
    <3>3. /\ queue' \in Seq(RowType) /\ event' \subseteq EventType
          /\ reported' \in [Ids -> Values \cup {None}] /\ broken' \in SUBSET Ids
      BY <3>2, ReportTypes
    <3>4. value' \in [Ids -> Values] /\ doubt' \in SUBSET Ids
      BY <2>1, <3>2 DEF SettingIsSet, TypeOK
    <3>5. QED
      BY <3>3, <3>4
  <2>2. CASE SettingIsSet(id, v) /\ value[id] = v
    BY <2>2 DEF SettingIsSet, Quiet, TypeOK
  <2>3. CASE AnswerIsLost(id)
    BY <2>3 DEF AnswerIsLost, Quiet, TypeOK
  <2>4. QED
    BY <2>1, <2>2, <2>3 DEF ClientSet
<1>3. QED
  BY <1>1, <1>2 DEF TypeOK

\* So does every step: nothing but packets and clients touches the values.
LEMMA NextTypes == TypeOK /\ [Next]_vars => TypeOK'
<1> SUFFICES ASSUME TypeOK, [Next]_vars PROVE TypeOK'
  OBVIOUS
<1> USE DEF Quiet, settings, changes
<1>1. CASE HearSettings
  BY <1>1, PacketTypes DEF HearSettings, TypeOK
<1>2. CASE Capture
  BY <1>2, PacketTypes DEF Capture, TypeOK
<1>2a. CASE WritePassword
  BY <1>2a, Kinds DEF WritePassword, TypeOK
<1>3. CASE CaptureFails \/ Release
  BY <1>3 DEF CaptureFails, Release, TypeOK
<1>4. CASE \E id \in Ids, v \in Values : ClientSet(id, v)
  BY <1>4, ClientTypes
<1>5. ASSUME NEW id \in Ids, NEW v \in Values, OperatorSets(id, v) PROVE TypeOK'
  BY <1>5, BoundsAssumption DEF OperatorSets, TypeOK
<1>6. CASE Tick
  BY <1>6, BoundsAssumption DEF Tick, TypeOK
<1>7. CASE StoreEvent \/ LoseEvent
  <2>1. Head(queue) \in RowType /\ queue' \in Seq(RowType)
    <3>1. queue \in Seq(RowType) /\ queue # <<>> /\ queue' = Tail(queue)
      BY <1>7 DEF StoreEvent, LoseEvent, TypeOK
    <3>2. QED
      BY <3>1
  <2>2. db' \in Seq(RowType) /\ event' \subseteq EventType
    <3>1. db \in Seq(RowType) /\ (db' = db \/ db' = Append(db, Head(queue))) /\ event' = {}
      BY <1>7 DEF StoreEvent, LoseEvent, TypeOK
    <3>2. QED
      BY <2>1, <3>1
  <2>3. crashes' \in 0 .. MaxCrashes /\ broken' \in SUBSET Ids
    BY <1>7, <2>1, BoundsAssumption DEF StoreEvent, LoseEvent, TypeOK, RowType
  <2>4. QED
    BY <1>7, <2>1, <2>2, <2>3 DEF StoreEvent, LoseEvent, TypeOK
<1>8. CASE DaemonEnds
  <2>1. \A i \in DOMAIN queue : queue[i].id \in Ids
    <3>1. queue \in Seq(RowType) /\ \A e \in RowType : e.id \in Ids
      BY DEF TypeOK, RowType
    <3>2. QED
      BY <3>1
  <2>2. broken' \in SUBSET Ids /\ queue' \in Seq(RowType) /\ crashes' \in 0 .. MaxCrashes
    BY <1>8, <2>1, BoundsAssumption DEF DaemonEnds, TypeOK
  <2>3. QED
    BY <1>8, <2>2 DEF DaemonEnds, TypeOK
<1>9. CASE DaemonStarts
  <2>1. isSet' \in [Ids -> BOOLEAN]
    <3>1. \A id \in Ids : (Rows(id) # {}) \in BOOLEAN
      OBVIOUS
    <3>2. QED
      BY <1>9, <3>1 DEF DaemonStarts, ReadBack
  <2>2. value' \in [Ids -> Values] /\ broken' \in SUBSET Ids
    BY <1>9 DEF DaemonStarts, ReadBack, TypeOK
  <2>3. QED
    BY <1>9, <2>1, <2>2 DEF DaemonStarts, TypeOK
<1>10. CASE UNCHANGED vars
  BY <1>10 DEF vars, TypeOK
<1>11. QED
  BY <1>1, <1>2, <1>2a, <1>3, <1>4, <1>5, <1>6, <1>7, <1>8, <1>9, <1>10 DEF Next

\* Every variable keeps its type, and a station is captured only by a daemon that knows
\* its settings.
THEOREM TypeCorrect == Spec => []TypeOK
  BY InitTypes, NextTypes, PTL DEF Spec

-----------------------------------------------------------------------------
(* The chain of events.                                                      *)

\* The events of a setting that are stored or will be, unless they are lost.
History == {db[i] : i \in DOMAIN db} \cup {queue[i] : i \in DOMAIN queue}
Told(id) == {e \in History : e.id = id}

\* No event of a setting is newer than the last one, which has the value that was
\* reported.
LastTold(id) ==
  \E e \in Told(id) : e.new = reported[id] /\ \A f \in Told(id) : f.date <= e.date

\* What the chain rests on: a daemon has the value that was reported last, or finds it
\* in the database when it starts, as long as no event of the setting is lost.
ChainInv ==
  /\ ~up => queue = <<>>
  /\ \A e \in History : e.date <= clock
  /\ \A id \in Ids \ broken : reported[id] # None => LastTold(id)
  /\ up => \A id \in Ids \ broken : reported[id] # None => value[id] = reported[id]
  /\ up /\ first => \A id \in Ids \ broken : isSet[id] \/ reported[id] = None

\* Every row of the history has the type of rows.
LEMMA HistoryTypes == TypeOK => History \subseteq RowType
  BY DEF TypeOK, History

\* A report is the last thing told about its settings, and what the daemon knows.
LEMMA ReportChain ==
  ASSUME TypeOK, ChainInv, NEW ids \in SUBSET Ids, NEW new, \A id \in ids : new[id] \in Values,
         NEW source \in {"INIT", "HND", "SRV"}, Report(ids, new, source),
         \A id \in Ids : value'[id] = IF id \in ids THEN new[id] ELSE value[id],
         UNCHANGED <<up, db, clock>>, up, ~first'
  PROVE  ChainInv'
<1> DEFINE News == {Row(id, new[id]) : id \in ids}
<1>1. History' = History \cup News
  <2>1. Adds(queue', ids, new)
    BY ReportTypes
  <2>2. {db'[i] : i \in DOMAIN db'} = {db[i] : i \in DOMAIN db}
    OBVIOUS
  <2>3. QED
    BY <2>1, <2>2 DEF History, Adds
<1>2. \A id \in ids : /\ Row(id, new[id]).id = id
                      /\ Row(id, new[id]).new = new[id]
                      /\ Row(id, new[id]).date = clock
  BY DEF Row
<1>3. \A id \in Ids : reported'[id] = IF id \in ids THEN new[id] ELSE reported[id]
  BY DEF Report
<1>4. clock' = clock /\ clock \in Nat /\ broken' = broken \ ids
  BY BoundsAssumption DEF Report, TypeOK
<1>5. \A e \in History' : e.date <= clock'
  BY <1>1, <1>2, <1>4 DEF ChainInv
<1>6. ASSUME NEW id \in Ids \ broken', reported'[id] # None PROVE LastTold(id)'
  <2>1. CASE id \in ids
    <3>1. Row(id, new[id]) \in Told(id)'
      BY <1>1, <1>2, <2>1 DEF Told
    <3>2. \A f \in Told(id)' : f.date <= Row(id, new[id]).date
      BY <1>2, <1>4, <1>5, <2>1 DEF Told
    <3>3. QED
      BY <1>2, <1>3, <2>1, <3>1, <3>2 DEF LastTold
  <2>2. CASE id \notin ids
    <3>1. Told(id)' = Told(id)
      BY <1>1, <1>2, <2>2 DEF Told
    <3>2. LastTold(id) /\ reported'[id] = reported[id]
      BY <1>3, <1>4, <1>6, <2>2 DEF ChainInv
    <3>3. QED
      BY <3>1, <3>2 DEF LastTold
  <2>3. QED
    BY <2>1, <2>2
<1>7. \A id \in Ids \ broken' : reported'[id] # None => value'[id] = reported'[id]
  BY <1>3, <1>4 DEF ChainInv
<1>8. QED
  BY <1>5, <1>6, <1>7 DEF ChainInv

\* Without a report, the chain stays as it is while its events do.
LEMMA QuietChain ==
  ASSUME TypeOK, ChainInv, UNCHANGED <<up, value, isSet, reported>>, History' = History,
         clock' \in Nat, clock <= clock', broken' = broken,
         ~up => queue' = <<>>, first' => first
  PROVE  ChainInv'
<1>1. \A e \in History' : e.date <= clock'
  <2>1. \A e \in History : e.date \in Nat /\ e.date <= clock /\ clock \in Nat
    BY HistoryTypes, BoundsAssumption DEF ChainInv, RowType, TypeOK
  <2>2. QED
    BY <2>1
<1>2. \A id : Told(id)' = Told(id)
  BY DEF Told
<1>3. \A id \in Ids \ broken' : reported'[id] # None => LastTold(id)'
  BY <1>2 DEF ChainInv, LastTold
<1>4. QED
  BY <1>1, <1>3 DEF ChainInv

\* An event that is lost breaks the chain of its own setting only.
LEMMA LossChain ==
  ASSUME TypeOK, ChainInv, UNCHANGED <<value, isSet, first, reported, clock>>,
         NEW lost \in SUBSET History, History \ lost \subseteq History', History' \subseteq History,
         broken' = broken \cup {e.id : e \in lost},
         up' => up, ~up' => queue' = <<>>
  PROVE  ChainInv'
<1>1. ASSUME NEW id \in Ids \ broken', reported'[id] # None PROVE LastTold(id)'
  <2>1. Told(id)' = Told(id)
    BY DEF Told
  <2>2. LastTold(id)
    BY <1>1 DEF ChainInv
  <2>3. QED
    BY <2>1, <2>2 DEF LastTold
<1>2. QED
  BY <1>1 DEF ChainInv

\* A daemon that starts finds what was reported last in the database.
LEMMA StartChain ==
  ASSUME TypeOK, ChainInv, DaemonStarts
  PROVE  ChainInv'
<1>1. /\ ~up /\ up' /\ UNCHANGED <<queue, db, reported, clock>> /\ queue = <<>>
      /\ broken' = broken \cup {id \in Ids : \E e, f \in Latest(id) : e.new # f.new}
  BY DEF DaemonStarts, Quiet, ChainInv
<1>2. History' = History /\ \A id : Told(id) = Rows(id) /\ Told(id)' = Told(id)
  BY <1>1 DEF History, Told, Rows
<1>3. ASSUME NEW id \in Ids \ broken', reported[id] # None
      PROVE  value'[id] = reported[id] /\ isSet'[id] /\ LastTold(id)
  <2>1. LastTold(id)
    BY <1>1, <1>3 DEF ChainInv
  <2>2. PICK e \in Latest(id) : e.new = reported[id]
    BY <1>2, <2>1 DEF LastTold, Latest
  <2>3. \A f \in Latest(id) : f.new = e.new
    BY <1>1
  <2>4. Rows(id) # {}
    BY <2>2 DEF Latest
  <2>5. value'[id] \in {f.new : f \in Latest(id)} /\ isSet'[id]
    BY <2>4 DEF DaemonStarts, ReadBack, Readable
  <2>6. QED
    BY <2>1, <2>2, <2>3, <2>5
<1>4. \A id \in Ids \ broken' : reported'[id] # None => LastTold(id)'
  BY <1>1, <1>2, <1>3 DEF LastTold
<1>5. QED
  BY <1>1, <1>2, <1>3, <1>4 DEF ChainInv

\* The chain is there at the start.
LEMMA InitChain == Init => ChainInv
  BY DEF Init, ChainInv, History

\* Storing an event moves it from the queue to the database.
LEMMA StoreKeepsHistory ==
  ASSUME TypeOK, StoreEvent
  PROVE  History' = History
<1>1. /\ db \in Seq(RowType) /\ queue \in Seq(RowType) /\ queue # <<>>
      /\ db' = Append(db, Head(queue)) /\ queue' = Tail(queue)
  BY DEF StoreEvent, TypeOK
<1>2. \A i \in DOMAIN db : i \in DOMAIN db' /\ db'[i] = db[i]
  BY <1>1
<1>3. Len(db) + 1 \in DOMAIN db' /\ db'[Len(db) + 1] = queue[1] /\ 1 \in DOMAIN queue
  BY <1>1
<1>4. \A i \in DOMAIN queue : i = 1 \/ (i - 1 \in DOMAIN queue' /\ queue'[i - 1] = queue[i])
  BY <1>1
<1>5. \A i \in DOMAIN queue' : i + 1 \in DOMAIN queue /\ queue'[i] = queue[i + 1]
  BY <1>1
<1>6. \A i \in DOMAIN db' : i \in DOMAIN db \/ i = Len(db) + 1
  BY <1>1
<1>7. History \subseteq History'
  BY <1>2, <1>3, <1>4 DEF History
<1>8. History' \subseteq History
  BY <1>2, <1>3, <1>5, <1>6 DEF History
<1>9. QED
  BY <1>7, <1>8

\* A lost event leaves the others in the history.
LEMMA LossKeepsOthers ==
  ASSUME TypeOK, LoseEvent
  PROVE  History \ {Head(queue)} \subseteq History' /\ History' \subseteq History
         /\ Head(queue) \in History
<1>1. queue \in Seq(RowType) /\ queue # <<>> /\ db' = db /\ queue' = Tail(queue)
  BY DEF LoseEvent, TypeOK
<1>2. \A i \in DOMAIN queue : i = 1 \/ (i - 1 \in DOMAIN queue' /\ queue'[i - 1] = queue[i])
  BY <1>1
<1>3. \A i \in DOMAIN queue' : i + 1 \in DOMAIN queue /\ queue'[i] = queue[i + 1]
  BY <1>1
<1>4. Head(queue) = queue[1] /\ 1 \in DOMAIN queue
  BY <1>1
<1>5. History \ {Head(queue)} \subseteq History'
  <2>1. ASSUME NEW i \in DOMAIN db PROVE db[i] \in History'
    BY <1>1 DEF History
  <2>2. ASSUME NEW i \in DOMAIN queue, queue[i] # Head(queue) PROVE queue[i] \in History'
    BY <1>2, <1>4, <2>2 DEF History
  <2>3. QED
    BY <2>1, <2>2 DEF History
<1>6. History' \subseteq History
  BY <1>1, <1>3 DEF History
<1>7. Head(queue) \in History
  BY <1>4 DEF History
<1>8. QED
  BY <1>5, <1>6, <1>7

\* What a client does is reported or not known.
LEMMA ClientChain ==
  ASSUME TypeOK, ChainInv, NEW id \in Ids, NEW v \in Values, ClientSet(id, v)
  PROVE  ChainInv'
<1>1. up /\ ~first /\ UNCHANGED <<up, isSet, first, db, clock>>
  BY DEF ClientSet, TypeOK
<1>2. CASE SettingIsSet(id, v) /\ value[id] # v
  <2>1. PICK new : new = [i \in {id} |-> v]
    OBVIOUS
  <2>2. Report({id}, new, "SRV") /\ value' = [value EXCEPT ![id] = v]
    BY <1>2, <2>1 DEF SettingIsSet, SetCurrentSettingValue
  <2>3. \A i \in {id} : new[i] \in Values
    BY <2>1
  <2>4. \A i \in Ids : value'[i] = IF i \in {id} THEN new[i] ELSE value[i]
    BY <2>1, <2>2 DEF TypeOK
  <2>5. QED
    BY <1>1, <2>2, <2>3, <2>4, ReportChain
<1>3. CASE (SettingIsSet(id, v) /\ value[id] = v) \/ AnswerIsLost(id)
  <2>1. UNCHANGED <<value, broken, queue, reported>>
    BY <1>3 DEF SettingIsSet, AnswerIsLost, Quiet
  <2>2. History' = History
    BY <1>1, <2>1 DEF History
  <2>3. clock \in Nat
    BY BoundsAssumption DEF TypeOK
  <2>4. QED
    BY <1>1, <2>1, <2>2, <2>3, QuietChain
<1>4. QED
  BY <1>2, <1>3 DEF ClientSet

\* Every step keeps the chain.
LEMMA NextChain == TypeOK /\ ChainInv /\ [Next]_vars => ChainInv'
<1> SUFFICES ASSUME TypeOK, ChainInv, [Next]_vars PROVE ChainInv'
  OBVIOUS
<1> USE DEF Quiet, settings
<1>1. clock \in Nat /\ MaxClock \in Nat
  BY BoundsAssumption DEF TypeOK
<1>2. CASE HearSettings \/ Capture
  <2>1. CheckSettingsChanged /\ up /\ UNCHANGED <<station, up, db, clock>>
    BY <1>2 DEF HearSettings, Capture, TypeOK
  <2>2. PICK ids \in SUBSET Ids, source \in {"INIT", "HND", "SRV"} :
          /\ ids = {id \in InPacket : Changed(id)}
          /\ source = IF first THEN "INIT" ELSE "HND"
    BY Kinds
  <2>3. PICK new : new = station
    OBVIOUS
  <2>4. Report(ids, new, source) /\ ~first' /\ \A id \in ids : new[id] \in Values
    BY <2>1, <2>2, <2>3, Kinds DEF CheckSettingsChanged, TypeOK
  <2>5. \A id \in Ids : value'[id] = IF id \in ids THEN new[id] ELSE value[id]
    BY <2>1, <2>2, <2>3 DEF CheckSettingsChanged
  <2>6. QED
    BY <2>1, <2>4, <2>5, ReportChain
<1>3. CASE \/ WritePassword \/ CaptureFails \/ Release \/ Tick
           \/ \E id \in Ids, v \in Values : OperatorSets(id, v)
  <2>1. /\ UNCHANGED <<up, value, isSet, first, reported, broken, queue, db>>
        /\ clock' \in Nat /\ clock <= clock'
    BY <1>1, <1>3 DEF WritePassword, CaptureFails, Release, Tick, OperatorSets
  <2>2. History' = History
    BY <2>1 DEF History
  <2>3. ~up => queue' = <<>>
    BY <2>1 DEF ChainInv
  <2>4. QED
    BY <2>1, <2>2, <2>3, QuietChain
<1>4. CASE \E id \in Ids, v \in Values : ClientSet(id, v)
  BY <1>4, ClientChain
<1>5. CASE StoreEvent
  <2>1. /\ UNCHANGED <<up, value, isSet, first, reported, broken, clock>>
        /\ queue # <<>>
    BY <1>5 DEF StoreEvent
  <2>2. up
    BY <2>1 DEF ChainInv
  <2>3. QED
    BY <1>1, <1>5, <2>1, <2>2, StoreKeepsHistory, QuietChain
<1>6. CASE LoseEvent
  <2>1. PICK lost \in SUBSET History : lost = {Head(queue)}
    BY <1>6, LossKeepsOthers
  <2>2. /\ UNCHANGED <<up, value, isSet, first, reported, clock>> /\ up
        /\ broken' = broken \cup {e.id : e \in lost}
    BY <1>6, <2>1 DEF LoseEvent, ChainInv
  <2>3. History \ lost \subseteq History' /\ History' \subseteq History
    BY <1>6, <2>1, LossKeepsOthers
  <2>4. QED
    BY <2>2, <2>3, LossChain
<1>7. CASE DaemonEnds
  <2>1. PICK lost \in SUBSET History : lost = {queue[i] : i \in DOMAIN queue}
    BY DEF History
  <2>2. /\ UNCHANGED <<value, isSet, first, reported, clock, db>> /\ ~up' /\ queue' = <<>>
        /\ broken' = broken \cup {e.id : e \in lost}
    BY <1>7, <2>1 DEF DaemonEnds
  <2>3. History \ lost \subseteq History' /\ History' \subseteq History
    BY <2>1, <2>2 DEF History
  <2>4. QED
    BY <2>2, <2>3, LossChain
<1>8. CASE DaemonStarts
  BY <1>8, StartChain
<1>9. CASE UNCHANGED vars
  BY <1>9 DEF vars, ChainInv, History, LastTold, Told
<1>10. QED
  BY <1>2, <1>3, <1>4, <1>5, <1>6, <1>7, <1>8, <1>9 DEF Next

\* Why there is an event: the value is another one, or a new daemon has never seen it.
LEMMA WhyReported ==
  ASSUME TypeOK, Next, NEW e \in event'
  PROVE  /\ up
         /\ \E id \in Ids, v \in Values, source \in {"INIT", "HND", "SRV"} :
              /\ e = Event(id, v, source)
              /\ v # value[id] \/ (first /\ ~isSet[id])
<1>1. CASE CheckSettingsChanged /\ up
  <2>1. PICK id \in {i \in InPacket : Changed(i)} :
          e = Event(id, station[id], IF first THEN "INIT" ELSE "HND")
    BY <1>1 DEF CheckSettingsChanged, Report
  <2>2. id \in Ids /\ station[id] \in Values /\ Changed(id)
    BY <2>1, Kinds DEF TypeOK
  <2>3. QED
    BY <1>1, <2>1, <2>2 DEF Changed
<1>2. CASE \E id \in Ids, v \in Values : ClientSet(id, v)
  <2>1. PICK id \in Ids, v \in Values : ClientSet(id, v)
    BY <1>2
  <2>2. up /\ (SettingIsSet(id, v) \/ AnswerIsLost(id))
    BY <2>1 DEF ClientSet, TypeOK
  <2>3. value[id] # v /\ Report({id}, [i \in {id} |-> v], "SRV")
    BY <2>2 DEF SettingIsSet, AnswerIsLost, Quiet
  <2>4. e = Event(id, v, "SRV")
    BY <2>3 DEF Report
  <2>5. QED
    BY <2>2, <2>3, <2>4
<1>3. CASE event' = {}
  BY <1>3
<1>4. QED
  BY <1>1, <1>2, <1>3
  DEF Next, HearSettings, Capture, WritePassword, CaptureFails, Release, OperatorSets,
      Tick, StoreEvent, LoseEvent, DaemonEnds, DaemonStarts, Quiet, TypeOK

\* The old value of an event is the one reported before.
LEMMA NextChained ==
  TypeOK /\ ChainInv /\ [Next]_vars /\ EventsAreChained => EventsAreChained'
<1>1. ASSUME TypeOK, ChainInv, Next, NEW e \in event', e.sure, e.previous # None
      PROVE  e.old = e.previous
  <2>1. PICK id \in Ids, v \in Values, source \in {"INIT", "HND", "SRV"} : e = Event(id, v, source)
    BY <1>1, WhyReported
  <2>2. id \notin broken /\ e.old = value[id] /\ e.previous = reported[id]
    BY <1>1, <2>1 DEF Event
  <2>3. QED
    BY <1>1, <2>2, WhyReported DEF ChainInv
<1>2. ASSUME EventsAreChained, UNCHANGED vars PROVE EventsAreChained'
  BY <1>2 DEF vars, EventsAreChained
<1>3. QED
  BY <1>1, <1>2 DEF EventsAreChained

\* The events of a setting are a chain, from one daemon to the next as well: whatever
\* number of restarts, the database gives back what was reported last.
THEOREM Chained == Spec => []EventsAreChained
<1>1. Init => EventsAreChained
  BY DEF Init, EventsAreChained
<1>2. QED
  BY <1>1, InitTypes, NextTypes, InitChain, NextChain, NextChained, PTL DEF Spec

\* A value that was reported last is not reported again.
LEMMA NextNotRepeated ==
  TypeOK /\ ChainInv /\ [Next]_vars /\ NothingIsRepeated => NothingIsRepeated'
<1>1. ASSUME TypeOK, ChainInv, Next, NEW e \in event', e.sure PROVE e.new # e.previous
  <2>1. PICK id \in Ids, v \in Values, source \in {"INIT", "HND", "SRV"} :
          e = Event(id, v, source) /\ (v # value[id] \/ (first /\ ~isSet[id]))
    BY <1>1, WhyReported
  <2>2. up /\ id \notin broken /\ e.new = v /\ e.previous = reported[id]
    BY <1>1, <2>1, WhyReported DEF Event
  <2>3. reported[id] = None \/ (reported[id] = value[id] /\ v # value[id])
    BY <1>1, <2>1, <2>2 DEF ChainInv
  <2>4. v # None
    BY BoundsAssumption DEF Values, None
  <2>5. QED
    BY <2>2, <2>3, <2>4
<1>2. ASSUME NothingIsRepeated, UNCHANGED vars PROVE NothingIsRepeated'
  BY <1>2 DEF vars, NothingIsRepeated
<1>3. QED
  BY <1>1, <1>2 DEF NothingIsRepeated

\* Nothing is reported twice in a row, not even by the first packet of a new daemon.
THEOREM NotRepeated == Spec => []NothingIsRepeated
<1>1. Init => NothingIsRepeated
  BY DEF Init, NothingIsRepeated
<1>2. QED
  BY <1>1, InitTypes, NextTypes, InitChain, NextChain, NextNotRepeated, PTL DEF Spec
=============================================================================
