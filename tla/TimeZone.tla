------------------------------- MODULE TimeZone --------------------------------
(***************************************************************************)
(* muduo::TimeZone: local time by a table of transitions, and back.        *)
(* The reference is a clock on the wall: now is the time_t, and the hand   *)
(* of the clock is set at each transition.                                 *)
(***************************************************************************)
EXTENDS Integers, Sequences, SequencesExt, FiniteSetsExt

CONSTANTS
    Zones,       \* data_: transitions, <<gmttime, localtimeIdx>> and rising, and
                 \* localtimes, [gmtOffset, isDst]
    Step, End    \* bounds of the walk

VARIABLES zone, now, hand, dst
zoneVars == <<zone, now, hand, dst>>
Transitions == zone.transitions
Localtimes == zone.localtimes

(* readTimeZoneFile: the local time of a transition is in the new offset. *)
Table == [i \in DOMAIN Transitions |->
    [gmttime |-> Transitions[i][1], idx |-> Transitions[i][2],
     localtime |-> Transitions[i][1] + Localtimes[Transitions[i][2]].gmtOffset]]

(* findLocaltime: the last transition that is not later, before the first one
   the first of Localtimes. *)
KeyOf(tr, compareGmt) == IF compareGmt THEN tr.gmttime ELSE tr.localtime
Past_Strict(t, compareGmt) == {i \in DOMAIN Table : KeyOf(Table[i], compareGmt) < t}
Past(t, compareGmt) == {i \in DOMAIN Table : KeyOf(Table[i], compareGmt) <= t}
findLocaltime(t, compareGmt) ==
    LET past == Past(t, compareGmt)
    IN IF past = {} THEN Localtimes[1] ELSE Localtimes[Table[Max(past)].idx]

toLocalTime(t) ==
    LET local == findLocaltime(t, TRUE)
    IN [at |-> t + local.gmtOffset, isDst |-> local.isDst]

SameMinute(a, b) == (a % 86400) \div 60 = (b % 86400) \div 60
IsAmbiguous(tm, try) == tm.isDst /\ ~try.isDst /\ SameMinute(try.at, tm.at)
Hour == 60 * 60
fromLocalTime(tm) ==
    LET offset == findLocaltime(tm.at, FALSE).gmtOffset
        try == toLocalTime(tm.at - offset)
    IN tm.at - offset - (IF IsAmbiguous(tm, try) THEN Hour ELSE 0)

ZoneInit ==
    /\ zone \in Zones /\ now = 0
    /\ hand = Localtimes[1].gmtOffset /\ dst = Localtimes[1].isDst
Walk ==
    /\ now < End /\ now' = now + Step /\ zone' = zone
    /\ LET set == {i \in DOMAIN Transitions : Transitions[i][1] = now'}
           to == Localtimes[Transitions[CHOOSE i \in set : TRUE][2]]
       IN IF set = {} THEN hand' = hand + Step /\ UNCHANGED dst
          ELSE hand' = now' + to.gmtOffset /\ dst' = to.isDst
ZoneSpec == ZoneInit /\ [][Walk]_zoneVars

(* The local time is that of the clock on the wall. *)
LocalTimeIsTheClock == toLocalTime(now) = [at |-> hand, isDst |-> dst]
(* And the way back finds the moment again, in the hour too that the clock
   shows twice. *)
ZoneRoundTrip == fromLocalTime([at |-> hand, isDst |-> dst]) = now
===============================================================================
