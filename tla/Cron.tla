--------------------------------- MODULE Cron ---------------------------------
(***************************************************************************)
(* The schedule of the renewal scheduler: ParseCronExpression and Next of  *)
(* internal/usecase/scheduler.go, over a calendar given by constants, so   *)
(* that a week or a year can be short.                                     *)
(*                                                                         *)
(* Time is counted in minutes from the first minute of the calendar.  An   *)
(* expression is, for each of its five fields, the set of the segments     *)
(* between the commas.                                                     *)
(***************************************************************************)
EXTENDS Integers, Sequences

CONSTANTS
    MinutesPerHour, HoursPerDay, WeekLength,
    Days,           \* the days of the calendar, [month, day]; it then starts over
    SearchMinutes   \* how far Next looks ahead (366*24*60*5)

ASSUME CalendarAssumption ==
    /\ MinutesPerHour \in Nat \ {0} /\ HoursPerDay \in Nat \ {0} /\ WeekLength \in Nat \ {0}
    /\ Days \in Seq([month : 1 .. 12, day : 1 .. 31]) /\ Days # << >>
    /\ SearchMinutes \in Nat

OneDay == MinutesPerHour * HoursPerDay

(* What package time says of a minute. *)
Date(t) ==
    LET d == t \div OneDay IN
    [minute  |-> t % MinutesPerHour,
     hour    |-> (t \div MinutesPerHour) % HoursPerDay,
     day     |-> Days[(d % Len(Days)) + 1].day,
     month   |-> Days[(d % Len(Days)) + 1].month,
     weekday |-> d % WeekLength]

-----------------------------------------------------------------------------
Highest(S) == CHOOSE i \in S : \A j \in S : j <= i
Lowest(S)  == CHOOSE i \in S : \A j \in S : i <= j

(* The least and the greatest value of each field. *)
From == [minute |-> 0, hour |-> 0, day |-> 1, month |-> 1, weekday |-> 0]

Upto == [minute  |-> MinutesPerHour - 1,
         hour    |-> HoursPerDay - 1,
         day     |-> Highest({Days[d].day : d \in DOMAIN Days}),
         month   |-> Highest({Days[d].month : d \in DOMAIN Days}),
         weekday |-> WeekLength - 1]

Fields == DOMAIN From

(* A segment: *, */n, a number, or anything else. *)
Every       == [kind |-> "every", n |-> 1]
Step(n)     == [kind |-> "step", n |-> n]
At(n)       == [kind |-> "at", n |-> n]
Unreadable  == [kind |-> "other", n |-> 0]

SegmentAccepted(p, f) ==
    \/ p.kind = "every"
    \/ p.kind = "step" /\ p.n \in Nat \ {0}
    \/ p.kind = "at" /\ p.n \in From[f] .. Upto[f]

\* variant: steps are counted from zero in every field
AllowedFromZero(p, f) ==
    {i \in From[f] .. Upto[f] : \/ p.kind = "every"
                                \/ p.kind = "step" /\ i % p.n = 0
                                \/ p.kind = "at" /\ i = p.n}

Allowed(p, f) ==
    {i \in From[f] .. Upto[f] : \/ p.kind = "every"
                                \/ p.kind = "step" /\ (i - From[f]) % p.n = 0
                                \/ p.kind = "at" /\ i = p.n}

(* ParseCronExpression: without an error, the values allowed in each field. *)
Accepted(expression) ==
    \A f \in Fields : expression[f] # {} /\ \A p \in expression[f] : SegmentAccepted(p, f)

Parsed(expression) ==
    [f \in Fields |-> UNION {Allowed(p, f) : p \in expression[f]}]

-----------------------------------------------------------------------------
Matches(schedule, t) == \A f \in Fields : Date(t)[f] \in schedule[f]

(* The minutes that match, of the first SearchMinutes from this one on. *)
Found(schedule, first) ==
    {t \in first .. first + SearchMinutes - 1 : Matches(schedule, t)}

\* variant: looks at the minute it is called in, too
NextFromNow(schedule, after) ==
    IF Found(schedule, after) = {} THEN after + SearchMinutes
    ELSE Lowest(Found(schedule, after))

(* The first minute after the one it is called in that matches; if there is
   none as far as it looks, the minute where it stopped looking. *)
NextMinute(schedule, after) ==
    IF Found(schedule, after + 1) = {} THEN after + 1 + SearchMinutes
    ELSE Lowest(Found(schedule, after + 1))

=============================================================================
