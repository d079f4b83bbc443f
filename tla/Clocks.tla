--------------------------------- MODULE Clocks -------------------------------
(***************************************************************************)
(* The reference the temporal reader is held against: a clock in UTC, one  *)
(* in another zone and a stopwatch, started together and ticking the same  *)
(* step by calendar rules alone.  What they show is written in every form  *)
(* the engine reads.                                                       *)
(***************************************************************************)
EXTENDS Temporal, SequencesExt

CONSTANTS
  Starts,     \* when the clocks start, where the second one is, and their step
  MaxTicks

(* Of a cycle of 400 years, every fourth is a leap year but for three.     *)
MonthLength(y, m) ==
  IF m = 2
    THEN IF y % 400 \in {4 * k : k \in 0..99} \ {100, 200, 300} THEN 29 ELSE 28
    ELSE 30 + ((m + m \div 8) % 2)

(* What a clock shows: a real day, the minute of it, the millisecond of    *)
(* that minute.                                                            *)
Faces == [year : Nat, month : 1..12, day : Nat, minute : Nat, milli : Nat]

Clock ==
  {c \in Faces : c.day \in 1..MonthLength(c.year, c.month) /\ c.minute < 1440 /\ c.milli < 60000}

(* The clocks start with a second of their own, on one day in both zones,  *)
(* and a step is at most a day.                                            *)
ASSUME StartsAssumption ==
  \A s \in Starts :
    /\ s \in [utc : Clock, offset : Int, step : [minute : Nat, milli : Nat]]
    /\ s.utc.milli = 0
    /\ s.offset >= -840 /\ s.offset <= 840
    /\ s.utc.minute + s.offset >= 0 /\ s.utc.minute + s.offset < 1440
    /\ s.step.minute * 60000 + s.step.milli <= 1440 * 60000

VARIABLES
  utc,
  local,
  stopwatch,   \* the time since the start: days, minute of a day, millisecond of a minute
  start,
  ticks

clockVars == <<utc, local, stopwatch, start, ticks>>

Shows(y, m, d, minute, milli) ==
  [year |-> y, month |-> m, day |-> d, minute |-> minute, milli |-> milli]

Tomorrow(c) ==
  IF c.day < MonthLength(c.year, c.month)
    THEN Shows(c.year, c.month, c.day + 1, c.minute, c.milli)
    ELSE IF c.month < 12
      THEN Shows(c.year, c.month + 1, 1, c.minute, c.milli)
      ELSE Shows(c.year + 1, 1, 1, c.minute, c.milli)

(* The clock a step later: steps are at most a day.                        *)
Advance(c, step) ==
  LET milli  == c.milli + step.milli
      minute == c.minute + step.minute + milli \div 60000
      on     == Shows(c.year, c.month, c.day, minute % 1440, milli % 60000)
  IN  IF minute >= 1440 THEN Tomorrow(on) ELSE on

Run(w, step) ==
  LET milli  == w.milli + step.milli
      minute == w.minute + step.minute + milli \div 60000
  IN  [days |-> w.days + minute \div 1440, minute |-> minute % 1440, milli |-> milli % 60000]

ClocksInit ==
  /\ start \in Starts
  /\ utc = start.utc
  /\ local = [start.utc EXCEPT !.minute = @ + start.offset]
  /\ stopwatch = [days |-> 0, minute |-> 0, milli |-> 0]
  /\ ticks = 0

Tick ==
  /\ ticks < MaxTicks
  /\ ticks' = ticks + 1
  /\ utc' = Advance(utc, start.step)
  /\ local' = Advance(local, start.step)
  /\ stopwatch' = Run(stopwatch, start.step)
  /\ UNCHANGED start

ClocksSpec == ClocksInit /\ [][Tick]_clockVars

-------------------------------------------------------------------------------
(* The digits of a fraction of a second, without the zeros at its end.     *)
Digits(milli) ==
  LET all  == <<milli \div 100, (milli \div 10) % 10, milli % 10>>
      kept == {n \in 0..3 : \A i \in n + 1..3 : all[i] = 0}
  IN  SubSeq(all, 1, CHOOSE n \in kept : \A k \in kept : n <= k)

Offset(minutes) ==
  [sign |-> IF minutes < 0 THEN -1 ELSE 1,
   hour |-> (IF minutes < 0 THEN -minutes ELSE minutes) \div 60,
   minute |-> (IF minutes < 0 THEN -minutes ELSE minutes) % 60]

Written(c, form, offset) ==
  [form |-> form, year |-> c.year, month |-> c.month, day |-> c.day,
   hour |-> c.minute \div 60, minute |-> c.minute % 60, second |-> c.milli \div 1000,
   fraction |-> Digits(c.milli % 1000), offset |-> Offset(offset)]

Component(count, unit) ==
  IF count = 0 THEN <<>> ELSE <<[unit |-> unit, count |-> count, fraction |-> <<>>]>>

(* What the stopwatch shows, written with the components that are not zero *)
(* but for the seconds.                                                    *)
Elapsed(w) ==
  [form |-> "duration", sign |-> 1, marked |-> TRUE,
   dateParts |-> Component(w.days, "D"),
   timeParts |-> Component(w.minute \div 60, "H") \o Component(w.minute % 60, "Mi")
                 \o <<[unit |-> "S", count |-> w.milli \div 1000,
                       fraction |-> Digits(w.milli % 1000)]>>]

Now == parse_xsd_temporal(Written(utc, "utc", 0))
There == parse_xsd_temporal(Written(local, "offset", start.offset))

-------------------------------------------------------------------------------
(* The instant read does not depend on the zone it is written in, on       *)
(* either side of a day, month or year that the offset crosses.            *)
ZonesAgree == Now # Unreadable /\ There = Now

(* 24:00:00 is a time of the day that ends and 00:00:00 of the day that    *)
(* follows, one instant, and the one a bare date stands for: whatever day, *)
(* month or year it is the end of, and in a zone as in UTC.                *)
MidnightsAgree ==
  LET Ends(c)   == [Written([c EXCEPT !.minute = 0, !.milli = 0], "offset", start.offset)
                      EXCEPT !.hour = 24]
      Begins(c) == Tomorrow([c EXCEPT !.minute = 0, !.milli = 0])
  IN  /\ parse_xsd_temporal(Ends(local)) # Unreadable
      /\ parse_xsd_temporal(Ends(local))
           = parse_xsd_temporal(Written(Begins(local), "offset", start.offset))
      /\ parse_xsd_temporal([Ends(utc) EXCEPT !.form = "utc"])
           = parse_xsd_temporal(Written(Begins(utc), "date", 0))

(* The difference of two instants is the duration that passed: dates,      *)
(* times, leap days and durations are counted alike.                       *)
StopwatchAgrees ==
  LET began   == parse_xsd_temporal(Written(start.utc, "utc", 0))
      elapsed == parse_xsd_duration(Elapsed(stopwatch))
  IN  Now = <<began[1] + elapsed[1], elapsed[2], elapsed[3]>>

===============================================================================
