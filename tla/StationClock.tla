---------------------------- MODULE StationClock ----------------------------
(***************************************************************************)
(* The station's clock in the packets of mode 0 against that of the        *)
(* computer: when RitexDevice reports a deviation. ReportDeviation of      *)
(* DeviceTables is the event it makes of it.                               *)
(***************************************************************************)
EXTENDS Integers, Sequences

\* The limit in seconds: five minutes, or the minutes of sync_time, which
\* GetParameter stores but does not report, so that nobody multiplies them (-1:
\* not given).
TimeLimit(sync_time) == IF sync_time = -1 THEN 300 ELSE sync_time

Distance(a, b) == IF a > b THEN a - b ELSE b - a

\* Mutant of CheckAndReportTimeDiviation: the flag is never taken back.
CheckOnceForAll(limit, state, packet) ==
  LET distance == Distance(packet.local, 60 * packet.minute)
      far == distance > limit
  IN  IF packet.mode # 0 \/ state.reported \/ ~far THEN state
      ELSE [reported |-> TRUE, events |-> Append(state.events, distance \div 60)]

\* CheckAndReportTimeDiviation, for a packet that came at a local time: the
\* station's clock has no seconds. Only mode 0 has it.
CheckAndReportTimeDiviation(limit, state, packet) ==
  LET distance == Distance(packet.local, 60 * packet.minute)
      far == distance > limit
  IN  IF packet.mode # 0 THEN state
      ELSE [reported |-> far,
            events   |-> IF far /\ ~state.reported THEN Append(state.events, distance \div 60)
                         ELSE state.events]

ClockReports(limit, packets) ==
  LET after[n \in 0 .. Len(packets)] ==
        IF n = 0 THEN [reported |-> FALSE, events |-> <<>>]
        ELSE CheckAndReportTimeDiviation(limit, after[n - 1], packets[n])
  IN  after[Len(packets)]
=============================================================================
