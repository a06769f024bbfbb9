-------------------------------- MODULE Time --------------------------------
(***************************************************************************)
(* base: time (artik_time.c, linux_time.c).  The unit of time is the hour, *)
(* the only field the time zones touch; a day has HoursPerDay of them.     *)
(* The clock can be set at any time, by the application or by a time       *)
(* server; the timeouts of the main loop follow a clock of their own that  *)
(* nobody sets.  mktime is given a zone without offset.                    *)
(***************************************************************************)
EXTENDS Integers, Sequences, FiniteSets

CONSTANTS
  HoursPerDay,  \* 24 in the code
  MaxZone,      \* ARTIK_TIME_GMT12
  MaxDay,       \* days the application and the servers know
  MaxNow,       \* bound on the time that passes: it stays in those days
  MaxSets,      \* calls of set_time in a behaviour
  MaxAlarms,    \* alarms created in a behaviour
  MaxSyncs,     \* calls of sync_ntp in a behaviour
  NtpTimeout,   \* NTP_TIMEOUT_SEC, in the unit of time
  Second,       \* 1000: milliseconds of the delay's unit
  UInt          \* 2^32: the delay of a timeout is an unsigned int

ASSUME TimeAssumption ==
  /\ HoursPerDay \in Nat \ {0} /\ MaxZone \in 0..(HoursPerDay - 1)
  /\ MaxDay \in Nat /\ MaxNow \in 0..((MaxDay + 1) * HoursPerDay - 1) /\ MaxSets \in Nat /\ MaxAlarms \in Nat /\ MaxSyncs \in Nat
  /\ NtpTimeout \in Nat /\ Second \in Nat \ {0} /\ UInt \in Nat \ {0}

Zones == 0..MaxZone
Clocks == 0..((MaxDay + 1) * HoursPerDay - 1)

VARIABLES
  tmNow,     \* the time of the main loop's clock, which is the true time
  tmClock,   \* the system's clock, UTC
  tmSet,     \* the date last set and its zone, until the clock moves on
  tmSets,    \* how often the date was set
  tmAlarms,  \* the alarms: how created, when due, deleted or fired
  tmSync,    \* sync_ntp waits on a socket since a time, or not
  tmSocks,   \* sockets opened so far; none is ever closed
  tmNet,     \* replies of servers on their way: socket and time
  tmSynced   \* how far the clock was off when it was last set by a server

tmVars == <<tmNow, tmClock, tmSet, tmSets, tmAlarms, tmSync, tmSocks, tmNet, tmSynced>>

NoDate == [day |-> -1, hour |-> 0, zone |-> 0]
NoSync == [sock |-> 0, since |-> 0]

TmInit ==
  /\ tmNow = 0 /\ tmClock = 0 /\ tmSet = NoDate /\ tmSets = 0 /\ tmAlarms = <<>>
  /\ tmSync = NoSync /\ tmSocks = 0 /\ tmNet = {} /\ tmSynced = 0

\* One thread of the application, which waits in sync_ntp.
TmFree == tmSync = NoSync

-----------------------------------------------------------------------------
(* The clock.                                                              *)

DayOf(t) == t \div HoursPerDay
HourOf(t) == t % HoursPerDay

\* A negative hour becomes 23, whatever it was, and the day stays.
UtcHour(hour, zone) == IF hour - zone < 0 THEN HoursPerDay - 1 ELSE hour - zone

os_time_set_time(day, hour, zone) ==
  /\ TmFree /\ tmSets < MaxSets
  /\ tmSets' = tmSets + 1
  /\ tmClock' = day * HoursPerDay + UtcHour(hour, zone)
  /\ tmSet' = [day |-> day, hour |-> hour, zone |-> zone]
  /\ tmAlarms' = [i \in DOMAIN tmAlarms |-> [tmAlarms[i] EXCEPT !.moved = TRUE]]
  /\ UNCHANGED <<tmNow, tmSync, tmSocks, tmNet, tmSynced>>

\* os_time_get_sys: the hour is taken around at 24, and the day stays.
os_time_get_sys(zone) == (DayOf(tmClock) * HoursPerDay) + ((HourOf(tmClock) + zone) % HoursPerDay)

\* The queries that read it: the date, its text and the tick.
os_time_get_time(zone) == [day |-> DayOf(os_time_get_sys(zone)), hour |-> HourOf(os_time_get_sys(zone)), zone |-> zone]

os_time_get_time_str == TmFree /\ UNCHANGED tmVars

os_time_get_tick == TmFree /\ UNCHANGED tmVars

Pass ==
  /\ tmNow < MaxNow /\ tmClock + 1 \in Clocks
  /\ tmSync # NoSync => tmNow - tmSync.since < NtpTimeout
  /\ \A i \in DOMAIN tmAlarms : tmAlarms[i].fired \/ tmAlarms[i].due > tmNow
  /\ tmNow' = tmNow + 1
  /\ tmClock' = tmClock + 1
  /\ tmSet' = NoDate
  /\ UNCHANGED <<tmSets, tmAlarms, tmSync, tmSocks, tmNet, tmSynced>>

-----------------------------------------------------------------------------
(* Alarms.                                                                 *)

\* The delay of the timeout in milliseconds is an unsigned int.
Delay(sec) == ((sec * Second) % UInt) \div Second

\* The alarm keeps the date it is due at, in its zone; the timeout calls the
\* application's function.  Where the loop module or the timeout is refused,
\* the handle stays allocated and no timeout is there: no alarm.
os_time_create_alarm_second(zone, sec, date) ==
  /\ TmFree /\ Len(tmAlarms) < MaxAlarms /\ sec >= 0
  /\ tmAlarms' = Append(tmAlarms,
       [zone |-> zone, asked |-> sec, date |-> date, dateAlarm |-> os_time_get_sys(zone) + sec,
        due |-> tmNow + Delay(sec), utc |-> tmClock + sec,
        off |-> HourOf(tmClock) + zone >= HoursPerDay, moved |-> FALSE, deleted |-> FALSE, fired |-> FALSE])
  /\ UNCHANGED <<tmNow, tmClock, tmSet, tmSets, tmSync, tmSocks, tmNet, tmSynced>>

\* The difference of the date to the zone's time; a date that has passed is
\* refused by create_alarm_second.
os_time_create_alarm_date(day, hour, zone) ==
  os_time_create_alarm_second(zone, (day * HoursPerDay + hour) - os_time_get_sys(zone), day * HoursPerDay + hour)

\* The handle is freed; its timeout stays on the loop.
os_time_delete_alarm(i) ==
  /\ TmFree /\ ~tmAlarms[i].deleted
  /\ tmAlarms' = [tmAlarms EXCEPT ![i].deleted = TRUE]
  /\ UNCHANGED <<tmNow, tmClock, tmSet, tmSets, tmSync, tmSocks, tmNet, tmSynced>>

\* What get_delay_alarm answers.
os_time_get_delay_alarm(i) ==
  LET left == tmAlarms[i].dateAlarm - os_time_get_sys(tmAlarms[i].zone)
  IN  IF left <= 0 THEN 0 ELSE left

\* The main loop calls the function, at its time.
Fires(i) ==
  /\ TmFree /\ ~tmAlarms[i].fired /\ tmAlarms[i].due <= tmNow
  /\ tmAlarms' = [tmAlarms EXCEPT ![i].fired = TRUE]
  /\ UNCHANGED <<tmNow, tmClock, tmSet, tmSets, tmSync, tmSocks, tmNet, tmSynced>>

-----------------------------------------------------------------------------
(* Time servers.                                                           *)

\* Mutant: one socket is kept for all calls.
SyncOneSocket ==
  /\ TmFree /\ tmSocks < MaxSyncs
  /\ tmSocks' = tmSocks + 1
  /\ tmSync' = [sock |-> 1, since |-> tmNow]
  /\ tmNet' = {r \in tmNet : FALSE} \cup {[sock |-> 1, time |-> t] : t \in {r.time : r \in tmNet} \cup {tmNow}}
  /\ UNCHANGED <<tmNow, tmClock, tmSet, tmSets, tmAlarms, tmSynced>>

\* A socket is opened and one request sent from it.  A name that cannot be
\* resolved and a request that cannot be sent end the call with the socket
\* left open; a server that answers takes its time now.
os_time_sync_ntp ==
  /\ TmFree /\ tmSocks < MaxSyncs
  /\ tmSocks' = tmSocks + 1
  /\ \/ UNCHANGED <<tmSync, tmNet>>
     \/ /\ tmSync' = [sock |-> tmSocks + 1, since |-> tmNow]
        /\ \/ UNCHANGED tmNet
           \/ tmNet' = tmNet \cup {[sock |-> tmSocks + 1, time |-> tmNow]}
  /\ UNCHANGED <<tmNow, tmClock, tmSet, tmSets, tmAlarms, tmSynced>>

\* A reply on the socket sets the clock.
SyncReceives ==
  /\ ~TmFree
  /\ \E r \in tmNet :
       /\ r.sock = tmSync.sock
       /\ tmNet' = tmNet \ {r}
       /\ tmClock' = r.time
       /\ tmSynced' = tmNow - r.time
  /\ tmSync' = NoSync /\ tmSet' = NoDate
  /\ tmAlarms' = [i \in DOMAIN tmAlarms |-> [tmAlarms[i] EXCEPT !.moved = TRUE]]
  /\ UNCHANGED <<tmNow, tmSets, tmSocks>>

\* recvfrom times out; the reply may come later, to a socket nobody reads.
SyncTimesOut ==
  /\ ~TmFree /\ tmNow - tmSync.since = NtpTimeout
  /\ tmSync' = NoSync
  /\ UNCHANGED <<tmNow, tmClock, tmSet, tmSets, tmAlarms, tmSocks, tmNet, tmSynced>>

TmNext ==
  \/ \E d \in 0..MaxDay, h \in 0..(HoursPerDay - 1), z \in Zones :
       os_time_set_time(d, h, z) \/ os_time_create_alarm_date(d, h, z)
  \/ \E z \in Zones, s \in 1..(UInt \div Second + 1) : os_time_create_alarm_second(z, s, -1)
  \/ \E i \in DOMAIN tmAlarms : os_time_delete_alarm(i) \/ Fires(i)
  \/ os_time_get_time_str \/ os_time_get_tick
  \/ os_time_sync_ntp \/ SyncReceives \/ SyncTimesOut
  \/ Pass

TmSpec == TmInit /\ [][TmNext]_tmVars

-----------------------------------------------------------------------------
(* Dates are compared by their fields, the most significant first.         *)

VARIABLE tmPair  \* two dates that are compared, and the result

Date == [1..7 -> {0, 1}]

NoPair == [a |-> [f \in 1..7 |-> 0], b |-> [f \in 1..7 |-> 0], result |-> 0]

TmDateInit == tmPair = NoPair

\* The first field in which the dates differ decides.
artik_time_compare_dates(a, b) ==
  LET differ == {f \in 1..7 : a[f] # b[f]}
      first == CHOOSE f \in differ : \A g \in differ : f <= g
  IN  IF differ = {} THEN 0 ELSE IF a[first] > b[first] THEN 1 ELSE -1

TmDateNext ==
  tmPair = NoPair /\ \E a, b \in Date : tmPair' = [a |-> a, b |-> b, result |-> artik_time_compare_dates(a, b)]

TmDateSpec == TmDateInit /\ [][TmDateNext]_tmPair

-----------------------------------------------------------------------------
(* Properties.                                                             *)

\* The clock and the alarms stay in their ranges, and a call of sync_ntp waits
\* no longer than the timeout of its socket.
TmTypeOK ==
  /\ tmClock \in Clocks /\ tmNow \in 0..MaxNow /\ tmSocks \in 0..MaxSyncs
  /\ \A i \in DOMAIN tmAlarms : tmAlarms[i].zone \in Zones /\ tmAlarms[i].due \in Nat
  /\ tmSync.sock \in 0..tmSocks /\ tmNow - tmSync.since <= IF TmFree THEN MaxNow ELSE NtpTimeout

\* A date that was set is read back in the same zone, unless the day in the
\* zone is not the UTC day: then neither the day nor, for all hours but the
\* last, the hour is right.
SetIsReadBack ==
  tmSet # NoDate => \/ os_time_get_time(tmSet.zone) = tmSet
                    \/ tmSet.hour < tmSet.zone

\* In every zone the hour is the true one for the clock, and the day is too
\* until the zone is in the next day.
ZoneIsRight ==
  \A z \in Zones :
    LET got == os_time_get_time(z)
    IN  /\ got.hour = HourOf(tmClock + z)
        /\ got.day = DayOf(tmClock + z) \/ HourOf(tmClock) + z >= HoursPerDay

\* An alarm is due when the time it was asked for has passed, for every delay
\* whose milliseconds fit the timeout's unsigned int; one by date at that
\* date, unless its zone was in the next day when it was made.
DueAsAsked ==
  \A i \in DOMAIN tmAlarms : LET m == tmAlarms[i] IN
    /\ m.asked * Second < UInt /\ ~m.moved /\ ~m.fired => m.due - tmNow = m.utc - tmClock
    /\ m.date # -1 => m.utc = m.date - m.zone \/ m.off

\* The delay an alarm still has is the one get_delay_alarm answers while the
\* clock is not set and the zone's day has not come apart from the UTC day,
\* or come together with it, since it was made.
DelayIsRight ==
  \A i \in DOMAIN tmAlarms : LET m == tmAlarms[i] IN
    ~m.moved /\ ~m.fired /\ m.asked * Second < UInt
      /\ m.off = (HourOf(tmClock) + m.zone >= HoursPerDay)
    => os_time_get_delay_alarm(i) = m.due - tmNow

\* A server sets the clock to a time no older than the timeout of one call: a
\* reply that was late for its call is never taken for another's.
SyncIsFresh == tmSynced <= NtpTimeout

\* compare_dates orders dates as points in time.
ComparesAsTime ==
  LET weight(d) == d[1] * 64 + d[2] * 32 + d[3] * 16 + d[4] * 8 + d[5] * 4 + d[6] * 2 + d[7]
      diff == weight(tmPair.a) - weight(tmPair.b)
  IN  tmPair.result = IF diff > 0 THEN 1 ELSE IF diff < 0 THEN -1 ELSE 0

\* What is set is read back, alarms are due when they were asked for and say
\* so, a synchronisation takes only the reply to its own request, and dates
\* compare as times, but for the cases the parts name (linux_time.c).
TimeSound ==
  /\ TmTypeOK /\ SetIsReadBack /\ ZoneIsRight /\ DueAsAsked /\ DelayIsRight
  /\ SyncIsFresh /\ ComparesAsTime

=============================================================================
