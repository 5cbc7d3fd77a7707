------------------------------ MODULE Settings ------------------------------
(***************************************************************************)
(* The settings of the station as RitexDevice keeps them: all_Settings,    *)
(* compared with every settings packet (CheckSettigsChanged), changed by   *)
(* clients (CmdExternal::SetReply), reported as events, and read back from *)
(* the event database when a daemon starts (UpdateSettingsValues).         *)
(*                                                                         *)
(* Events go to the database through the event logger (LoggerThreads).     *)
(***************************************************************************)
EXTENDS Naturals, Sequences

CONSTANTS
  Table,        \* the ids of all_Settings, in order
  InPacket,     \* the visible ones that have an offset in the settings packet
  OneByte,      \* those whose m_size is 1
  Password,     \* setting 44, which the daemon itself writes in every capture ...
  PasswordValue, \* ... with the password it reads from the station before
  AtFirst,      \* settings that the station may have at first
  MaxValue,     \* the largest value (a bound; 2^16 - 1)
  ByteValues,   \* how many values a byte has (a bound; 2^8)
  MaxMoves,     \* changes by the operator and by clients (a bound)
  MaxCrashes,   \* ends of the daemon, and of the gateway (a bound)
  MaxClock      \* seconds (a bound)

Ids == {Table[i] : i \in DOMAIN Table}
Values == 0 .. MaxValue

ASSUME TableAssumption == Table \in Seq(Ids) /\ InPacket \subseteq Ids /\ OneByte \subseteq Ids
ASSUME PasswordAssumption == Password \in InPacket \ OneByte /\ PasswordValue \in Values
ASSUME BoundsAssumption ==
  {MaxValue, MaxMoves, MaxCrashes, MaxClock} \subseteq Nat /\ ByteValues \in Nat \ {0}

VARIABLES
  station,   \* the settings of the station
  capture,   \* how far the daemon has got with capturing the station
  up,        \* there is a daemon
  value,     \* m_value
  isSet,     \* m_isValueSet
  first,     \* m_isFirstSettingsPacket
  queue,     \* the events that the logger has not stored
  db,        \* the event database
  clock, moves, crashes,
  \* what an observer remembers
  event,     \* the events of the last step
  reported,  \* per setting, the value of the last event, or None
  byHand,    \* settings the operator changed since the daemon looked
  doubt,     \* settings a client changed in a way the daemon cannot know
  byDaemon,  \* the setting the daemon changed and has not compared since
  broken     \* settings with lost events, or events the database confuses

settings == <<value, isSet, first>>
changes  == <<byHand, doubt, byDaemon>>
vars == <<station, capture, up, settings, queue, db, clock, moves, crashes,
          event, reported, changes, broken>>

None == MaxValue + 1

\* What a station stores of a value.
Stored(id, v) == IF id \in OneByte THEN v % ByteValues ELSE v

ASSUME AtFirstAssumption ==
  /\ AtFirst \subseteq [Ids -> Values]
  /\ \A s \in AtFirst, id \in Ids : s[id] = Stored(id, s[id])

-----------------------------------------------------------------------------
(* Events: type 11, with the new and the old value and the source.         *)

Why(id) ==
  IF id \in byHand THEN "hand" ELSE IF id \in doubt THEN "doubt"
  ELSE IF id \in byDaemon THEN "password" ELSE "none"

Event(id, new, source) ==
  [id |-> id, new |-> new, old |-> value[id], source |-> source,
   previous |-> reported[id], why |-> Why(id), sure |-> id \notin broken]

\* What is read back of an event that is stored: its date, its setting and the new value.
Row(id, new) == [id |-> id, new |-> new, date |-> clock]

\* The sequences of all of ids in the order of the table: there is one.
Before(a, b) == \E i, j \in DOMAIN Table : i < j /\ Table[i] = a /\ Table[j] = b

Ordered(ids) ==
  {s \in UNION {[1 .. n -> ids] : n \in 0 .. Len(Table)} :
     /\ \A id \in ids : \E i \in DOMAIN s : s[i] = id
     /\ \A i, j \in DOMAIN s : i < j => Before(s[i], s[j])}

\* One event for each of ids, in the order of the table.
Report(ids, new, source) ==
  /\ \E inOrder \in Ordered(ids) :
       queue' = queue \o [i \in DOMAIN inOrder |-> Row(inOrder[i], new[inOrder[i]])]
  /\ event' = {Event(id, new[id], source) : id \in ids}
  /\ reported' = [id \in Ids |-> IF id \in ids THEN new[id] ELSE reported[id]]
  /\ broken' = broken \ ids

Quiet == event' = {} /\ UNCHANGED <<queue, reported>>

-----------------------------------------------------------------------------
(* CheckSettigsChanged.                                                    *)

\* Mutant of Changed: after the first packet nothing is compared any more.
ChangedFirst(id) == first /\ (~isSet[id] \/ station[id] # value[id])

Changed(id) == (first /\ ~isSet[id]) \/ station[id] # value[id]

CheckSettingsChanged ==
  LET changed == {id \in InPacket : Changed(id)}
  IN  /\ Report(changed, station, IF first THEN "INIT" ELSE "HND")
      /\ value' = [id \in Ids |-> IF id \in changed THEN station[id] ELSE value[id]]
      /\ first' = FALSE
      /\ byHand' = byHand \ InPacket /\ doubt' = doubt \ InPacket
      /\ byDaemon' = byDaemon \ InPacket
      /\ UNCHANGED isSet

\* A settings packet of the traffic, read before the next change. None is read while
\* the daemon tries to capture the station.
HearSettings ==
  /\ up /\ capture = "no"
  /\ CheckSettingsChanged
  /\ UNCHANGED <<station, capture, up, db, clock, moves, crashes>>

\* SetPassword. The panel is locked; a station that gets no further request unlocks it.
WritePassword ==
  /\ up /\ capture \in {"no", "retry"}
  /\ capture' = "asked"
  /\ station' = [station EXCEPT ![Password] = PasswordValue]
  /\ IF station[Password] = PasswordValue
     THEN UNCHANGED changes
     ELSE /\ byHand' = byHand \ {Password} /\ doubt' = doubt \ {Password}
          /\ byDaemon' = byDaemon \cup {Password}
  /\ Quiet
  /\ UNCHANGED <<up, settings, db, clock, moves, crashes, broken>>

\* A request of the capture, or its answer, is lost, before the password is written or
\* after. Run stays in STATE_CAPTURE_DEVICE and tries again.
CaptureFails ==
  /\ up /\ capture # "yes"
  /\ capture' = "retry"
  /\ Quiet
  /\ UNCHANGED <<station, up, settings, db, clock, moves, crashes, changes, broken>>

\* The answer to SetPassword has all settings, the password among them, and ends the
\* capture. Commands follow.
Capture ==
  /\ capture = "asked"
  /\ capture' = "yes"
  /\ CheckSettingsChanged
  /\ UNCHANGED <<station, up, db, clock, moves, crashes>>

Release ==
  /\ capture = "yes"
  /\ capture' = "no"
  /\ Quiet
  /\ UNCHANGED <<station, up, settings, db, clock, moves, crashes, changes, broken>>

-----------------------------------------------------------------------------
(* A client sets a value: CmdExternal::SetReply.                           *)

\* Mutant of SetCurrentSettingValue: the value is reported, and not remembered.
SetCurrentSettingValueNot(id, v) == UNCHANGED value

SetCurrentSettingValue(id, v) == value' = [value EXCEPT ![id] = v]

\* The station answers with its settings.
SettingIsSet(id, v) ==
  /\ IF value[id] # v
     THEN SetCurrentSettingValue(id, v) /\ Report({id}, [i \in {id} |-> v], "SRV")
     ELSE Quiet /\ UNCHANGED <<value, broken>>
  /\ doubt' = IF Stored(id, v) = v THEN doubt \ {id} ELSE doubt \cup {id}

\* The answer does not come: SetReply has an error status.
AnswerIsLost(id) ==
  /\ doubt' = doubt \cup {id}
  /\ Quiet /\ UNCHANGED <<value, broken>>

ClientSet(id, v) ==
  /\ capture = "yes" /\ moves < MaxMoves
  /\ station' = [station EXCEPT ![id] = Stored(id, v)]
  /\ moves' = moves + 1
  /\ byHand' = byHand \ {id} /\ byDaemon' = byDaemon \ {id}
  /\ SettingIsSet(id, v) \/ AnswerIsLost(id)
  /\ UNCHANGED <<capture, up, isSet, first, db, clock, crashes>>

-----------------------------------------------------------------------------
(* The operator, the clock, the event logger and the gateway.              *)

OperatorSets(id, v) ==
  /\ capture \in {"no", "retry"} /\ moves < MaxMoves /\ v # station[id] /\ v = Stored(id, v)
  /\ station' = [station EXCEPT ![id] = v]
  /\ moves' = moves + 1
  /\ byHand' = byHand \cup {id} /\ byDaemon' = byDaemon \ {id}
  /\ Quiet
  /\ UNCHANGED <<capture, up, settings, db, clock, crashes, doubt, broken>>

Tick ==
  /\ clock < MaxClock
  /\ clock' = clock + 1
  /\ Quiet
  /\ UNCHANGED <<station, capture, up, settings, db, moves, crashes, changes, broken>>

StoreEvent ==
  /\ queue # <<>>
  /\ db' = Append(db, Head(queue)) /\ queue' = Tail(queue)
  /\ event' = {}
  /\ UNCHANGED <<station, capture, up, settings, clock, moves, crashes, reported, changes,
                 broken>>

LoseEvent ==
  /\ queue # <<>> /\ crashes < MaxCrashes
  /\ crashes' = crashes + 1
  /\ queue' = Tail(queue)
  /\ broken' = broken \cup {Head(queue).id}
  /\ event' = {}
  /\ UNCHANGED <<station, capture, up, settings, db, clock, moves, reported, changes>>

-----------------------------------------------------------------------------
(* A daemon ends, and another one starts.                                  *)

\* The events of a setting that have the latest date. If there are several, the
\* query returns them in any order, and the last one is taken.
Rows(id) == {db[i] : i \in {j \in DOMAIN db : db[j].id = id}}
Latest(id) == {e \in Rows(id) : \A f \in Rows(id) : f.date <= e.date}

Readable(id) == IF Rows(id) = {} THEN {0} ELSE {e.new : e \in Latest(id)}

\* Mutant of ReadBack: m_isValueSet is not set.
ReadBackUnset ==
  /\ value' \in [Ids -> Values] /\ \A id \in Ids : value'[id] \in Readable(id)
  /\ isSet' = [id \in Ids |-> FALSE]

\* Mutant of ReadBack: the query does without max(registerdate).
ReadBackAnyRow ==
  /\ value' \in [Ids -> Values]
  /\ \A id \in Ids :
       value'[id] \in IF Rows(id) = {} THEN {0} ELSE {e.new : e \in Rows(id)}
  /\ isSet' = [id \in Ids |-> Rows(id) # {}]

\* UpdateSettingsValues; if it fails, the daemon does not start.
ReadBack ==
  /\ value' \in [Ids -> Values] /\ \A id \in Ids : value'[id] \in Readable(id)
  /\ isSet' = [id \in Ids |-> Rows(id) # {}]

DaemonEnds ==
  /\ up /\ crashes < MaxCrashes
  /\ up' = FALSE /\ capture' = "no"
  /\ crashes' = crashes + 1
  /\ queue' = <<>>
  /\ broken' = broken \cup {queue[i].id : i \in DOMAIN queue}
  /\ event' = {}
  /\ UNCHANGED <<station, settings, db, clock, moves, reported, changes>>

DaemonStarts ==
  /\ ~up
  /\ up' = TRUE
  /\ first' = TRUE
  /\ ReadBack
  /\ broken' = broken \cup {id \in Ids : \E e, f \in Latest(id) : e.new # f.new}
  /\ Quiet
  /\ UNCHANGED <<station, capture, db, clock, moves, crashes, changes>>

-----------------------------------------------------------------------------
Init ==
  /\ station \in AtFirst
  /\ capture = "no" /\ up = FALSE
  /\ value = [id \in Ids |-> 0]
  /\ isSet = [id \in Ids |-> FALSE]
  /\ first = TRUE
  /\ queue = <<>> /\ db = <<>>
  /\ clock = 0 /\ moves = 0 /\ crashes = 0
  /\ event = {}
  /\ reported = [id \in Ids |-> None]
  /\ byHand = {} /\ doubt = {} /\ byDaemon = {} /\ broken = {}

Next ==
  \/ HearSettings \/ WritePassword \/ CaptureFails \/ Capture \/ Release
  \/ \E id \in Ids, v \in Values : ClientSet(id, v) \/ OperatorSets(id, v)
  \/ Tick \/ StoreEvent \/ LoseEvent
  \/ DaemonEnds \/ DaemonStarts

Spec == Init /\ [][Next]_vars

\* A daemon that has ended is started again, it tries to capture the station, which
\* answers in time when it is asked again and again, and gives it back, and the logger
\* stores what it has.
FairSpec ==
  /\ Spec
  /\ WF_vars(DaemonStarts) /\ WF_vars(StoreEvent)
  /\ WF_vars(WritePassword) /\ SF_vars(Capture) /\ WF_vars(Release)

-----------------------------------------------------------------------------
EventType == [id : Ids, new : Values, old : Values, source : {"INIT", "HND", "SRV"},
              previous : Values \cup {None},
              why : {"hand", "doubt", "password", "none"}, sure : BOOLEAN]
RowType == [id : Ids, new : Values, date : 0 .. MaxClock]

\* Every variable has its type; a setting the station shows has a value it can show.
TypeOK ==
  /\ {station, value} \subseteq [Ids -> Values]
  /\ isSet \in [Ids -> BOOLEAN]
  /\ capture \in {"no", "asked", "retry", "yes"} /\ {up, first} \subseteq BOOLEAN
  /\ {queue, db} \subseteq Seq(RowType)
  /\ event \subseteq EventType
  /\ reported \in [Ids -> Values \cup {None}]
  /\ clock \in 0 .. MaxClock /\ moves \in 0 .. MaxMoves /\ crashes \in 0 .. MaxCrashes
  /\ {byHand, doubt, byDaemon, broken} \subseteq SUBSET Ids
  /\ (capture # "no" => up) /\ (capture = "yes" => ~first)

\* The events of a setting are a chain, also from one daemon to the next: the old
\* value of each is the new value of the one before.
EventsAreChained ==
  \A e \in event : e.sure /\ e.previous # None => e.old = e.previous

\* A change is said to have been made by hand only if the operator made it, or the
\* daemon could not know what a client did, or it is the daemon's own: the password
\* that a capture writes over another one is taken for the operator's, and nothing else is.
HandMeansHand ==
  \A e \in event : e.source = "HND" =>
    \/ e.why \in {"hand", "doubt"}
    \/ e.why = "password" /\ e.id = Password /\ e.new = PasswordValue

\* What was reported once and has not changed is not reported again, also by the
\* first packet of a new daemon.
NothingIsRepeated ==
  \A e \in event : e.sure => e.new # e.previous

LastStored(id) ==
  LET rows == {i \in DOMAIN db : db[i].id = id}
  IN  IF rows = {} THEN None ELSE db[CHOOSE i \in rows : \A j \in rows : j <= i].new

\* When nobody changes anything any more, the last event of every setting the
\* station shows has the value it shows.
DatabaseIsRight ==
  <>[](\A id \in InPacket \ broken : LastStored(id) = station[id])
=============================================================================
