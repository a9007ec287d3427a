--------------------------------- MODULE Times ----------------------------------
(***************************************************************************)
(* The calendar of Date.cc and the zones of TimeZone.cc side by side, with *)
(* what the times that they turn into each other must satisfy.             *)
(***************************************************************************)
EXTENDS Integers, Sequences

CONSTANTS FirstYear, LastYear, FirstJulianDay, FirstWeekday, TimeTYears, TimesOfDay,
          Zones, Step, End
VARIABLES civil, weekday, julian,
          zone, clock, hand, dst

Dates == INSTANCE Calendar
Zone == INSTANCE TimeZone WITH now <- clock

(* The first day that Date.h:32 gives, a Monday, and the moments of a day. *)
Moments == 0..(Dates!kSecondsPerDay - 1)
ASSUME DatesAssumption ==
    /\ FirstYear = 1900 /\ FirstJulianDay = 2415021 /\ FirstWeekday = 1
    /\ TimesOfDay \subseteq Moments

(* A zone as its file gives it: the local time after i transitions, and when
   the clock is set to it.  A way back is promised only where clocks are
   turned days apart, and back by the hour of the summer time that ends. *)
Widest == 16 * Zone!Hour
Local(z, i) == z.localtimes[IF i = 0 THEN 1 ELSE z.transitions[i][2]]
At(z, i) == z.transitions[i][1]
ComesBack(was, is) ==
    was.gmtOffset > is.gmtOffset =>
        was.gmtOffset - is.gmtOffset = Zone!Hour /\ was.isDst /\ ~is.isDst
Regular(z) ==
    /\ z.localtimes \in Seq([gmtOffset : Int, isDst : BOOLEAN]) /\ z.localtimes # <<>>
    /\ z.transitions \in Seq(Int \X DOMAIN z.localtimes)
    /\ \A i \in DOMAIN z.localtimes :
          LET offset == z.localtimes[i].gmtOffset IN offset <= Widest /\ -offset <= Widest
    /\ \A i \in DOMAIN z.transitions :
          /\ At(z, i) > 0 /\ At(z, i) % Step = 0
          /\ \A j \in 1..(i - 1) : At(z, i) - At(z, j) > 2 * Widest
          /\ ComesBack(Local(z, i - 1), Local(z, i))
ASSUME ZonesAssumption ==
    /\ Step \in Nat \ {0}
    /\ \A z \in Zones : Regular(z)

(* Date.cc, TimeZone.cc: a day and its number, a time in UTC and a time of a zone
   and back agree, in the hours that a clock skips or repeats too. *)
TimesAgree ==
    /\ Dates!DatesAgree /\ Dates!UtcRoundTrip
    /\ Zone!LocalTimeIsTheClock /\ Zone!ZoneRoundTrip
===============================================================================
