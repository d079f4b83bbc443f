-------------------------------- MODULE MCClocks ------------------------------
(* Steps of a day over the turns of centuries, steps of half an hour over  *)
(* leap days and turns of a year in five zones, and steps of a third of a  *)
(* second over a midnight, with more digits than are read.                 *)
EXTENDS Clocks

At(y, m, d, minute) == [year |-> y, month |-> m, day |-> d, minute |-> minute, milli |-> 0]

Daily == {[utc |-> At(y, 12, 28, 0), offset |-> 0, step |-> [minute |-> 1440, milli |-> 0]] :
            y \in {0, 99, 1599, 1699, 1899, 1968, 1999, 2099, 2399}}

Zones == {-840, -330, 0, 120, 840}
HalfHourly ==
  {[utc |-> At(day[1], day[2], day[3], IF z < 0 THEN -z ELSE 0), offset |-> z,
    step |-> [minute |-> 30, milli |-> 0]] :
     z \in Zones,
     day \in {<<1969, 12, 29>>, <<1999, 12, 29>>, <<2000, 2, 26>>, <<2023, 2, 26>>,
              <<2024, 2, 26>>, <<2024, 4, 28>>, <<1900, 2, 26>>, <<0, 2, 26>>}}

Fractional ==
  {[utc |-> At(2024, 2, 29, 1439), offset |-> z, step |-> [minute |-> 0, milli |-> s]] :
     z \in {-330, 0}, s \in {335, 1, 700}}

MCStarts == Daily \cup HalfHourly \cup Fractional
===============================================================================
