-------------------------------- MODULE Clock --------------------------------
(***************************************************************************)
(* Dates and the time: the conversions of time/date.rs against the         *)
(* calendar, the reading of the real-time clock, and the readers of the    *)
(* tick count against the timer that moves it (time/system.rs).  Days are  *)
(* checked one by one in a few stretches; a stretch of time is a number of *)
(* steps of the timer's counter, which runs through its range twice in a   *)
(* tick (mode 3), so that what is read of it tells nothing finer than the  *)
(* tick.                                                                   *)
(***************************************************************************)
EXTENDS Integers, Sequences, FiniteSets

CONSTANTS
    DayRanges,    \* stretches of days to look at, as pairs
    Divider,      \* PIT_DIVIDER
    MaxTicks2,    \* bound on the ticks
    ClockFlaws    \* what may go wrong: "2100", "update"

ASSUME ClockAssumption ==
    /\ \E n \in 1..Divider : Divider = 2 * n
    /\ MaxTicks2 \in Nat
    /\ ClockFlaws \subseteq {"2100", "update"}

VARIABLES
    moment,     \* the conversion in question
    system_ticks, time_offset,
    phase,      \* steps of the counter since the timer's last interrupt was raised
    pending,    \* the timer's interrupt is raised
    reader,     \* a call of get_monotonic_ms or get_system_time under way
    latest      \* what get_monotonic_ms returned last, in steps

clockVars == <<moment, system_ticks, time_offset, phase, pending, reader, latest>>

-----------------------------------------------------------------------------
(* Dates. *)

SecondsInDay == 86400
MonthStart == <<0, 31, 59, 90, 120, 151, 181, 212, 243, 273, 304, 334>>

IsLeapYear(year) == year % 4 = 0 /\ (year % 100 # 0 \/ year % 400 = 0)

YearOffsetFromDays(days) == (days * 100) \div 36525

Time(seconds) ==
    [hours |-> seconds \div 3600, minutes |-> (seconds \div 60) % 60, seconds |-> seconds % 60]

\* from_unix_epoch: the date of a number of days since 1970; years begin in March.
FromUnixEpoch(daysSince) ==
    LET days == daysSince + 719468
        era == days \div 146097
        doe == days % 146097
        yoe == (doe - doe \div 1460 + doe \div 36524 - doe \div 146096) \div 365
        doy == doe - (yoe * 365 + yoe \div 4 - yoe \div 100)
        mp == (doy * 5 + 2) \div 153
        month == IF mp < 10 THEN mp + 3 ELSE mp - 9
    IN  [day |-> doy - (153 * mp + 2) \div 5 + 1, month |-> month,
         year |-> yoe + era * 400 + (IF month <= 2 THEN 1 ELSE 0)]

\* The loop of from_timestamp over the months.
RECURSIVE MonthOf(_, _, _, _)
MonthOf(month, leap, yearDays, leapYear) ==
    IF month < 12 /\ MonthStart[month + 1] + leap <= yearDays
    THEN MonthOf(month + 1, IF month + 1 = 2 /\ leapYear THEN 1 ELSE leap, yearDays, leapYear)
    ELSE [month |-> month, leap |-> leap]

\* from_timestamp: the date of a number of days since 1980.
FromTimestamp(days) ==
    LET year == YearOffsetFromDays(days)
        quadrennial == days % 1461
        yearDays == IF quadrennial > 365 THEN (quadrennial - 366) % 365 ELSE quadrennial
        m == MonthOf(0, 0, yearDays, year % 4 = 0)
    IN  [day |-> yearDays + 1 - MonthStart[m.month] - (IF m.month > 2 THEN m.leap ELSE 0),
         month |-> m.month, year |-> year + 1980]

\* to_timestamp, in days; one that makes no sense is the first of 1980.
ToTimestamp_Julian(date) ==
    LET year == date.year - 1980 IN
    IF date.year < 1980 \/ date.month \notin 1..12 THEN 0
    ELSE (year \div 4) * 1461 + (year % 4) * 365 + MonthStart[date.month]
         + (IF date.month > 2 /\ IsLeapYear(date.year) THEN 1 ELSE 0) + date.day - 1

ToTimestamp(date) ==
    LET year == date.year - 1980 IN
    IF date.year < 1980 \/ date.month \notin 1..12 THEN 0
    ELSE (year \div 4) * 1461 + (year % 4) * 365 + (IF year % 4 > 0 THEN 1 ELSE 0)
         + MonthStart[date.month]
         + (IF date.month > 2 /\ IsLeapYear(date.year) THEN 1 ELSE 0) + date.day - 1

-----------------------------------------------------------------------------
(* The real-time clock. *)

\* The hour as the clock holds it: in binary or in two decimal digits, of 24 or of 12
\* with the highest bit set after noon.
Register(v, bcd) == IF bcd THEN ((v \div 10) * 16) + (v % 10) ELSE v
HourRegister(h, bcd, use24) ==
    IF use24 THEN Register(h, bcd)
    ELSE Register(IF h % 12 = 0 THEN 12 ELSE h % 12, bcd) + (IF h >= 12 THEN 128 ELSE 0)

ConvertBcd(v) == ((v \div 16) * 10) + (v % 16)

\* read_rtc_time: the hours from their register.
HoursRead(r, bcd, use24) ==
    LET plain(v) == IF bcd THEN ConvertBcd(v) ELSE v
    IN  IF use24 THEN plain(r) ELSE (plain(r % 128) % 12) + (IF r >= 128 THEN 12 ELSE 0)

\* The registers are read one by one: the first k before the second changes.
SecondsRead(now, k) ==
    LET before == Time(now)  after == Time(now + 1)
        at(n, field) == IF n <= k THEN before[field] ELSE after[field]
    IN  at(1, "seconds") + 60 * at(2, "minutes") + 3600 * at(3, "hours")

-----------------------------------------------------------------------------
(* Ticks and their readers. *)

NoMoment == [kind |-> "none"]
NoReader == [pc |-> "idle", ticks |-> 0, known |-> 0, from |-> 0, since |-> 0]

Elapsed == system_ticks * Divider + phase + (IF pending THEN Divider ELSE 0)

ClockInit ==
    /\ moment = NoMoment
    /\ system_ticks = 0 /\ time_offset = 0 /\ phase = 0 /\ pending = FALSE
    /\ reader = NoReader /\ latest = 0

\* The counter goes on; the interrupt is raised every Divider steps.
CounterSteps ==
    /\ system_ticks < MaxTicks2 /\ ~(pending /\ phase = Divider - 1)
    /\ phase' = (phase + 1) % Divider
    /\ pending' = (pending \/ phase = Divider - 1)
    /\ UNCHANGED <<moment, system_ticks, time_offset, reader, latest>>

\* read_counter: mode 3 counts down by two and loads the divider again half-way.
ReadCounter == Divider - ((2 * phase) % Divider)

\* The handler: tick.  Interrupts off on the reader's CPU do not keep it from another.
Tick ==
    /\ pending
    /\ pending' = FALSE
    /\ system_ticks' = system_ticks + 1
    /\ time_offset' = time_offset + 1
    /\ UNCHANGED <<moment, phase, reader, latest>>

\* get_monotonic_ms: the tick count, then the counter.
MonotonicTicks ==
    /\ reader.pc = "idle"
    /\ reader' = [NoReader EXCEPT !.pc = "counter", !.ticks = system_ticks, !.from = latest, !.since = Elapsed]
    /\ UNCHANGED <<moment, system_ticks, time_offset, phase, pending, latest>>

MonotonicCounter ==
    /\ reader.pc = "counter"
    /\ latest' = reader.ticks * Divider + (Divider - ReadCounter)
    /\ reader' = [reader EXCEPT !.pc = "done"]
    /\ UNCHANGED <<moment, system_ticks, time_offset, phase, pending>>

\* get_system_time: the reference point, which was set at the start, then the offset.
SystemTimeKnown ==
    /\ reader.pc = "idle"
    /\ reader' = [NoReader EXCEPT !.pc = "known", !.from = system_ticks]
    /\ UNCHANGED <<moment, system_ticks, time_offset, phase, pending, latest>>

SystemTimeOffset ==
    /\ reader.pc = "known"
    /\ reader' = [reader EXCEPT !.pc = "told", !.known = time_offset]
    /\ UNCHANGED <<moment, system_ticks, time_offset, phase, pending, latest>>

ReaderReturns ==
    /\ reader.pc \in {"done", "told"}
    /\ reader' = NoReader
    /\ UNCHANGED <<moment, system_ticks, time_offset, phase, pending, latest>>

\* A conversion is looked at by itself.
LookAt ==
    /\ moment = NoMoment /\ Elapsed = 0 /\ reader = NoReader
    /\ \/ \E r \in DayRanges : \E d \in r[1]..r[2] : moment' = [kind |-> "day", day |-> d]
       \/ \E h \in 0..23, bcd, use24 \in BOOLEAN :
             moment' = [kind |-> "hour", h |-> h, bcd |-> bcd, use24 |-> use24]
       \/ \E s \in {0, 58, 59, 3599, 43199, 86398}, k \in IF "update" \in ClockFlaws THEN 0..3 ELSE {0, 3} :
             moment' = [kind |-> "second", s |-> s, k |-> k]
    /\ UNCHANGED <<system_ticks, time_offset, phase, pending, reader, latest>>

ClockNext ==
    \/ LookAt
    \/ /\ moment = NoMoment
       /\ \/ CounterSteps \/ Tick \/ MonotonicTicks \/ MonotonicCounter
          \/ SystemTimeKnown \/ SystemTimeOffset \/ ReaderReturns

ClockSpec == ClockInit /\ [][ClockNext]_clockVars

-----------------------------------------------------------------------------
MonthDays(date) ==
    CASE date.month = 2 -> IF IsLeapYear(date.year) THEN 29 ELSE 28
      [] date.month \in {4, 6, 9, 11} -> 30
      [] OTHER -> 31

NextDay(date) ==
    IF date.day < MonthDays(date) THEN [date EXCEPT !.day = @ + 1]
    ELSE IF date.month < 12 THEN [date EXCEPT !.day = 1, !.month = @ + 1]
    ELSE [day |-> 1, month |-> 1, year |-> date.year + 1]

\* Days from the first of 1970 to that of 1980, and from there to 1 March 2100.
Decade == 3652
Before2100 == 43889

\* Each day's date is the one after that of the day before, in both counts, which agree;
\* a date becomes the timestamp it came from.  from_timestamp has a leap day in 2100.
DatesFollow ==
    moment.kind = "day" =>
        LET d == moment.day
        IN  /\ FromUnixEpoch(0) = [day |-> 1, month |-> 1, year |-> 1970]
            /\ FromUnixEpoch(d + 1) = NextDay(FromUnixEpoch(d))
            /\ (d >= Decade /\ (d - Decade < Before2100 \/ "2100" \in ClockFlaws)) =>
                  LET t == d - Decade
                  IN  FromTimestamp(t) = FromUnixEpoch(d) /\ ToTimestamp(FromTimestamp(t)) = t

\* The hour that was set is read, whatever the clock's format; a reading is the time
\* before or after the second it began in.
RtcIsRead ==
    /\ moment.kind = "hour" =>
          HoursRead(HourRegister(moment.h, moment.bcd, moment.use24), moment.bcd, moment.use24) = moment.h
    /\ moment.kind = "second" => SecondsRead(moment.s, moment.k) \in {moment.s, moment.s + 1}

\* get_monotonic_ms is less than two ticks behind the moment it was called and less than one
\* ahead of the moment it returns, and no call is in an earlier tick than the call before it;
\* get_system_time counts the ticks up to some point of the call.
TimeGoesOn ==
    /\ reader.pc = "done" =>
          /\ reader.since - 2 * Divider < latest /\ latest < Elapsed + Divider
          /\ latest \div Divider >= reader.from \div Divider
    /\ reader.pc = "told" => reader.from <= reader.known /\ reader.known <= system_ticks
    /\ time_offset = system_ticks

\* Dates and time are those of the calendar and the timer.
ClockIsRight == DatesFollow /\ RtcIsRead /\ TimeGoesOn
=============================================================================
