-------------------------------- MODULE Temporal ------------------------------
(***************************************************************************)
(* The temporal values of the ordering operators: how a dateTime, a date   *)
(* and a duration are read, and which pairs of values compare at all.      *)
(*                                                                         *)
(* A lexical value is the record of its fields.  Nanoseconds since 1970    *)
(* are read as <<minutes, seconds, fraction>>, the last two never          *)
(* negative: offsets and months are whole minutes.                         *)
(***************************************************************************)
EXTENDS Integers, Sequences

CONSTANT Precision      \* the digits of a fraction that are read: nine in the code

ASSUME PrecisionAssumption == Precision \in Nat

Unreadable == <<>>

days_in_month(y, m) ==
  CASE m \in {1, 3, 5, 7, 8, 10, 12} -> 31
    [] m \in {4, 6, 9, 11} -> 30
    [] OTHER -> IF (y % 4 = 0 /\ y % 100 # 0) \/ y % 400 = 0 THEN 29 ELSE 28

(* A slip: no century is a leap year in the count. *)
days_from_civil_NoEra(y0, m, d) ==
  LET y   == IF m <= 2 THEN y0 - 1 ELSE y0
      doy == (153 * ((m + 9) % 12) + 2) \div 5 + d - 1
  IN  y * 365 + y \div 4 - y \div 100 + doy - 719468

(* Days since 1970-01-01: the year starts in March, an era has 400 years.  *)
days_from_civil(y0, m, d) ==
  LET y   == IF m <= 2 THEN y0 - 1 ELSE y0
      era == y \div 400
      yoe == y - era * 400
      doy == (153 * ((m + 9) % 12) + 2) \div 5 + d - 1
      doe == yoe * 365 + yoe \div 4 - yoe \div 100 + doy
  IN  era * 146097 + doe - 719468

(* Digits past the precision are dropped, missing ones are zero.           *)
Fraction(digits) ==
  LET digit(i) == IF i <= Len(digits) THEN digits[i] ELSE 0
      value[n \in 0..Precision] == IF n = 0 THEN 0 ELSE value[n - 1] * 10 + digit(n)
  IN  value[Precision]

RealDay(v) == v.month \in 1..12 /\ v.day \in 1..days_in_month(v.year, v.month)

(* 24:00:00 is the midnight the day ends with.                             *)
RealTime(v) ==
  \/ v.hour \in 0..23 /\ v.minute \in 0..59 /\ v.second \in 0..59
  \/ v.hour = 24 /\ v.minute = 0 /\ v.second = 0 /\ Fraction(v.fraction) = 0

(* A slip: 24 is read as an hour of the day it is written with.            *)
parse_utc_datetime_Wrapped(v) ==
  IF RealDay(v) /\ RealTime(v)
    THEN <<days_from_civil(v.year, v.month, v.day) * 1440 + (v.hour % 24) * 60 + v.minute,
           v.second, Fraction(v.fraction)>>
    ELSE Unreadable

parse_utc_datetime(v) ==
  IF RealDay(v) /\ RealTime(v)
    THEN <<days_from_civil(v.year, v.month, v.day) * 1440 + v.hour * 60 + v.minute,
           v.second, Fraction(v.fraction)>>
    ELSE Unreadable

RealOffset(v) ==
  v.offset.hour \in 0..14 /\ v.offset.minute \in 0..59
    /\ (v.offset.hour = 14 => v.offset.minute = 0)

(* A slip: the offset is added to the local time. *)
parse_offset_datetime_Added(v) ==
  LET local == parse_utc_datetime(v)
  IN  IF RealOffset(v) /\ local # Unreadable
        THEN [local EXCEPT ![1] = @ + v.offset.sign * (v.offset.hour * 60 + v.offset.minute)]
        ELSE Unreadable

parse_offset_datetime(v) ==
  LET local == parse_utc_datetime(v)
  IN  IF RealOffset(v) /\ local # Unreadable
        THEN [local EXCEPT ![1] = @ - v.offset.sign * (v.offset.hour * 60 + v.offset.minute)]
        ELSE Unreadable

(* A date is the midnight it starts with. *)
parse_date_only(v) ==
  IF RealDay(v)
    THEN <<days_from_civil(v.year, v.month, v.day) * 1440, 0, 0>>
    ELSE Unreadable

parse_xsd_temporal(v) ==
  CASE v.form = "utc" -> parse_utc_datetime(v)
    [] v.form = "offset" -> parse_offset_datetime(v)
    [] v.form = "date" -> parse_date_only(v)
    [] OTHER -> Unreadable

-------------------------------------------------------------------------------
(* A duration is the list of its components.  Minutes per unit; the        *)
(* seconds, with their fraction, stay apart.                               *)
DateUnits == <<"Y", "Mo", "D">>
TimeUnits == <<"H", "Mi", "S">>
MinutesPer == [Y |-> 365 * 1440, Mo |-> 30 * 1440, D |-> 1440, H |-> 60, Mi |-> 1, S |-> 0]

(* Every unit of a part has one turn, in the fixed order: what is left     *)
(* over after the last was out of order or a repeat.                       *)
InOrder(part, units) ==
  \A i, j \in DOMAIN part :
    /\ \E u \in DOMAIN units : units[u] = part[i].unit
    /\ i < j => \E u, w \in DOMAIN units : u < w /\ units[u] = part[i].unit /\ units[w] = part[j].unit
    /\ part[i].unit # "S" => part[i].fraction = <<>>

Minutes(components) ==
  LET sum[n \in 0..Len(components)] ==
        IF n = 0 THEN 0
        ELSE sum[n - 1] + components[n].count * MinutesPer[components[n].unit]
  IN  sum[Len(components)]

(* The signed magnitude, in the three parts of an instant.                 *)
parse_xsd_duration(v) ==
  LET components == v.dateParts \o v.timeParts
      seconds    == {i \in DOMAIN components : components[i].unit = "S"}
      count      == IF seconds = {} THEN 0 ELSE components[CHOOSE i \in seconds : TRUE].count
      fraction   == IF seconds = {} THEN <<>> ELSE components[CHOOSE i \in seconds : TRUE].fraction
  IN  IF /\ v.form = "duration"
         /\ InOrder(v.dateParts, DateUnits)
         /\ InOrder(v.timeParts, TimeUnits)
         /\ v.marked <=> v.timeParts # <<>>
         /\ components # <<>>
        THEN <<v.sign * (Minutes(components) + count \div 60), v.sign * (count % 60),
               v.sign * Fraction(fraction)>>
        ELSE Unreadable

-------------------------------------------------------------------------------
(* Lexicographic comparison of two readings: -1, 0 or 1.                   *)
Compare(r, s) ==
  LET differ == {i \in DOMAIN r : r[i] # s[i]}
      first  == CHOOSE i \in differ : \A j \in differ : i <= j
  IN  IF differ = {} THEN 0 ELSE IF r[first] < s[first] THEN -1 ELSE 1

Satisfies(operator, order) ==
  \/ operator = "lt" /\ order = -1
  \/ operator = "lteq" /\ order # 1
  \/ operator = "gt" /\ order = 1
  \/ operator = "gteq" /\ order # -1

(* Two values compare as instants, else as durations, else as numbers; a   *)
(* value of another kind compares with nothing.                            *)
ordering_matches(operator, left, right) ==
  \/ /\ parse_xsd_temporal(left) # Unreadable /\ parse_xsd_temporal(right) # Unreadable
     /\ Satisfies(operator, Compare(parse_xsd_temporal(left), parse_xsd_temporal(right)))
  \/ /\ left.form = "duration" /\ right.form = "duration"
     /\ parse_xsd_duration(left) # Unreadable /\ parse_xsd_duration(right) # Unreadable
     /\ Satisfies(operator, Compare(parse_xsd_duration(left), parse_xsd_duration(right)))
  \/ /\ left.form = "number" /\ right.form = "number"
     /\ left.finite /\ right.finite
     /\ Satisfies(operator, Compare(<<left.value>>, <<right.value>>))
===============================================================================
