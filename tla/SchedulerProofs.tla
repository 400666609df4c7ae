---------------------------- MODULE SchedulerProofs ----------------------------
(***************************************************************************)
(* Proofs about Scheduler and its Cron expressions, for any calendar,      *)
(* expression, rows, callers of Stop and bounds.                           *)
(***************************************************************************)
EXTENDS Scheduler, WellFoundedInduction, TLAPS

-----------------------------------------------------------------------------
(* Least and greatest values *)

LEMMA LeastOfNaturals ==
    ASSUME NEW S, S \subseteq Nat, S # {}
    PROVE  \E i \in S : \A j \in S : i <= j
  <1> DEFINE R == {ss \in Nat \X Nat : ss[1] < ss[2]}
  <1>1. IsWellFoundedOn(R, Nat)
    BY NatLessThanWellFounded DEF OpToRel
  <1>2. PICK i \in S : \A j \in S : <<j, i>> \notin R
    <2> HIDE DEF R
    <2> QED
      BY <1>1, WFMin
  <1>3. ASSUME NEW j \in S
        PROVE  i <= j
    <2>1. i \in Nat /\ j \in Nat
      OBVIOUS
    <2>2. ~ (j < i)
      BY <1>2, <2>1
    <2> QED
      BY <2>1, <2>2
  <1> QED
    BY <1>3

LEMMA LowestIsLeast ==
    ASSUME NEW S, S \subseteq Nat, S # {}
    PROVE  Lowest(S) \in S /\ \A j \in S : Lowest(S) <= j
  BY LeastOfNaturals DEF Lowest

LEMMA HighestIsGreatest ==
    ASSUME NEW n \in Nat, NEW S, S \subseteq 0 .. n, S # {}
    PROVE  Highest(S) \in S /\ \A j \in S : j <= Highest(S)
  <1> DEFINE T == {n - i : i \in S}
  <1>1. T \subseteq Nat /\ T # {}
    <2>1. \A i \in S : n - i \in Nat
      OBVIOUS
    <2>2. T \subseteq Nat
      BY <2>1
    <2>3. PICK i \in S : TRUE
      OBVIOUS
    <2>4. n - i \in T
      OBVIOUS
    <2> QED
      BY <2>2, <2>4
  <1>2. PICK k \in T : \A j \in T : k <= j
    <2> HIDE DEF T
    <2> QED
      BY <1>1, LeastOfNaturals
  <1>3. PICK i \in S : k = n - i
    BY <1>2
  <1>4. \A j \in S : j <= i
    <2> SUFFICES ASSUME NEW j \in S
                 PROVE  j <= i
      OBVIOUS
    <2>1. n - j \in T
      OBVIOUS
    <2>2. n - i <= n - j
      BY <1>2, <1>3, <2>1
    <2> QED
      BY <2>2
  <1>5. \E m \in S : \A j \in S : j <= m
    BY <1>4
  <1> QED
    BY <1>5 DEF Highest

(* Next gives the first minute that matches, of those it looks at. *)
LEMMA NextIsFirst ==
    ASSUME NEW schedule, NEW now \in Nat, NEW wake, wake = NextMinute(schedule, now)
    PROVE  /\ wake \in Nat /\ wake > now
           /\ \A t \in now + 1 .. wake - 1 : ~ Matches(schedule, t)
           /\ Matches(schedule, wake) \/ wake = now + 1 + SearchMinutes
  <1> DEFINE F == Found(schedule, now + 1)
             last == now + 1 + SearchMinutes
  <1>1. SearchMinutes \in Nat
    BY CalendarAssumption
  <1>2. last \in Nat /\ last > now
    BY <1>1
  <1>3. F = {t \in now + 1 .. last - 1 : Matches(schedule, t)}
    <2>1. now + 1 + SearchMinutes - 1 = last - 1
      BY <1>1
    <2>2. F = {t \in now + 1 .. now + 1 + SearchMinutes - 1 : Matches(schedule, t)}
      BY Zenon DEF Found
    <2> HIDE DEF F, last
    <2> QED
      BY <2>1, <2>2, Zenon
  <1>4. /\ F \subseteq now + 1 .. last - 1
        /\ \A t \in now + 1 .. last - 1 : t \in F <=> Matches(schedule, t)
    <2> HIDE DEF F, last
    <2> QED
      BY <1>3
  <1>5. wake = IF F = {} THEN last ELSE Lowest(F)
    BY DEF NextMinute
  <1> HIDE DEF F, last
  <1>6. CASE F = {}
    BY <1>2, <1>4, <1>5, <1>6 DEF last
  <1>7. CASE F # {}
    <2>1. F \subseteq Nat
      BY <1>2, <1>4
    <2>2. wake \in F /\ \A t \in F : wake <= t
      BY <1>5, <1>7, <2>1, LowestIsLeast
    <2>3. wake \in Nat /\ wake > now /\ wake <= last - 1 /\ Matches(schedule, wake)
      BY <1>2, <1>4, <2>2
    <2>4. ASSUME NEW t \in now + 1 .. wake - 1
          PROVE  ~ Matches(schedule, t)
      <3>1. t \in now + 1 .. last - 1 /\ t < wake /\ t \in Int
        BY <1>2, <2>3
      <3>2. t \notin F
        BY <2>2, <2>3, <3>1
      <3> QED
        BY <1>4, <3>1, <3>2
    <2> QED
      BY <2>3, <2>4
  <1> QED
    BY <1>6, <1>7

-----------------------------------------------------------------------------
(* The minutes that match are those the expression asks for *)

LEMMA Division ==
    ASSUME NEW x \in Nat, NEW n \in Nat \ {0}
    PROVE  /\ x % n \in 0 .. n - 1
           /\ x \div n \in 0 .. x
           /\ x = n * (x \div n) + (x % n)
  <1>1. x % n \in 0 .. n - 1
    OBVIOUS
  <1>2. x \div n \in Int
    OBVIOUS
  <1>3. x = n * (x \div n) + (x % n)
    OBVIOUS
  <1>4. x \div n >= 0
    BY <1>1, <1>2, <1>3
  <1>5. n * (x \div n) >= x \div n
    BY <1>2, <1>4
  <1> QED
    BY <1>1, <1>2, <1>3, <1>4, <1>5

LEMMA Multiples ==
    ASSUME NEW k \in Nat, NEW n \in Nat \ {0}
    PROVE  (k * n) % n = 0
  OBVIOUS

(* A value on the steps of n from a, and one that a number of them reaches. *)
OnStep(i, a, n)     == (i - a) % n = 0
Reached(i, a, n, u) == \E k \in 0 .. u : i = a + k * n

LEMMA StepsReached ==
    ASSUME NEW a \in Nat, NEW u \in Nat, NEW n \in Nat \ {0}, NEW i \in a .. u
    PROVE  OnStep(i, a, n) <=> Reached(i, a, n, u)
  <1>1. i - a \in Nat /\ i - a <= u
    OBVIOUS
  <1>2. ASSUME (i - a) % n = 0
        PROVE  \E k \in 0 .. u : i = a + k * n
    <2> DEFINE k == (i - a) \div n
    <2>1. k \in 0 .. (i - a) /\ i - a = n * k + ((i - a) % n)
      BY <1>1, Division
    <2> HIDE DEF k
    <2>2. k \in 0 .. u /\ n * k = k * n
      BY <1>1, <2>1
    <2>3. i - a = k * n
      BY <1>2, <2>1, <2>2
    <2>4. i = a + k * n
      BY <2>1, <2>3
    <2> QED
      BY <2>2, <2>4
  <1>3. ASSUME NEW k \in 0 .. u, i = a + k * n
        PROVE  (i - a) % n = 0
    <2>1. i - a = k * n
      BY <1>3
    <2> QED
      BY <2>1, Multiples
  <1> QED
    BY <1>2, <1>3 DEF OnStep, Reached

LEMMA EntriesOf ==
    ASSUME NEW R, NEW s \in Seq(R), s # << >>
    PROVE  /\ Len(s) \in Nat \ {0} /\ DOMAIN s = 1 .. Len(s)
           /\ \A i \in DOMAIN s : s[i] \in R
  OBVIOUS

LEMMA FieldNames == Fields = {"minute", "hour", "day", "month", "weekday"}
  BY DEF Fields, From

LEMMA DateInRange ==
    ASSUME NEW t \in Nat, NEW f \in Fields
    PROVE  /\ From[f] \in Nat /\ Upto[f] \in Nat
           /\ Date(t)[f] \in From[f] .. Upto[f]
  <1> DEFINE d == t \div OneDay
             day == Days[(d % Len(Days)) + 1]
             days == {Days[i].day : i \in DOMAIN Days}
             months == {Days[i].month : i \in DOMAIN Days}
  <1>1. /\ MinutesPerHour \in Nat \ {0} /\ HoursPerDay \in Nat \ {0}
        /\ WeekLength \in Nat \ {0} /\ OneDay \in Nat \ {0}
    <2>1. /\ MinutesPerHour \in Nat \ {0} /\ HoursPerDay \in Nat \ {0}
          /\ WeekLength \in Nat \ {0}
      BY CalendarAssumption
    <2> QED
      BY <2>1 DEF OneDay
  <1>2. d \in Nat /\ t \div MinutesPerHour \in Nat
    BY <1>1, Division
  <1>3. /\ Len(Days) \in Nat \ {0} /\ DOMAIN Days = 1 .. Len(Days)
        /\ \A i \in DOMAIN Days : Days[i] \in [month : 1 .. 12, day : 1 .. 31]
    <2>1. Days \in Seq([month : 1 .. 12, day : 1 .. 31]) /\ Days # << >>
      BY CalendarAssumption
    <2> QED
      BY <2>1, EntriesOf
  <1> HIDE DEF d
  <1>4. (d % Len(Days)) + 1 \in DOMAIN Days
    <2>1. d % Len(Days) \in 0 .. Len(Days) - 1
      BY <1>2, <1>3, Division
    <2> QED
      BY <1>3, <2>1
  <1>5. \A i \in DOMAIN Days : Days[i].day \in 1 .. 31 /\ Days[i].month \in 1 .. 12
    BY <1>3
  <1>6. /\ days \subseteq 0 .. 31 /\ day.day \in days
        /\ months \subseteq 0 .. 31 /\ day.month \in months
    <2>1. days \subseteq 0 .. 31 /\ months \subseteq 0 .. 31
      BY <1>5
    <2>2. day.day \in days /\ day.month \in months
      BY <1>4
    <2> QED
      BY <2>1, <2>2
  <1>7. days # {} /\ months # {}
    BY <1>6
  <1> HIDE DEF day, days, months
  <1>8. /\ Highest(days) \in 0 .. 31 /\ day.day <= Highest(days)
        /\ Highest(months) \in 0 .. 31 /\ day.month <= Highest(months)
    BY <1>6, <1>7, HighestIsGreatest
  <1>9. day.day \in 1 .. 31 /\ day.month \in 1 .. 12
    BY <1>4, <1>5 DEF day
  <1>10. CASE f = "minute"
    BY <1>1, <1>10, Division DEF Date, From, Upto
  <1>11. CASE f = "hour"
    BY <1>1, <1>2, <1>11, Division DEF Date, From, Upto
  <1>12. CASE f = "day"
    <2>1. /\ Date(t).day = day.day /\ From.day = 1 /\ Upto.day = Highest(days)
      BY DEF Date, From, Upto, d, day, days
    <2> QED
      BY <1>8, <1>9, <1>12, <2>1
  <1>13. CASE f = "month"
    <2>1. /\ Date(t).month = day.month /\ From.month = 1 /\ Upto.month = Highest(months)
      BY DEF Date, From, Upto, d, day, months
    <2> QED
      BY <1>8, <1>9, <1>13, <2>1
  <1>14. CASE f = "weekday"
    BY <1>1, <1>2, <1>14, Division DEF Date, From, Upto, d
  <1> QED
    BY <1>10, <1>11, <1>12, <1>13, <1>14, FieldNames

(* A value that a segment allows is one that it asks for. *)
LEMMA SegmentAsAsked ==
    ASSUME NEW f \in Fields, NEW t \in Nat, NEW p, SegmentAccepted(p, f)
    PROVE  Date(t)[f] \in Allowed(p, f) <=> Asks(p, f, Date(t)[f])
  <1> DEFINE i == Date(t)[f]
             a == From[f]
             u == Upto[f]
  <1>1. a \in Nat /\ u \in Nat /\ i \in a .. u
    BY DateInRange
  <1>2. i \in Allowed(p, f) <=> \/ p.kind = "every"
                                \/ p.kind = "step" /\ OnStep(i, a, p.n)
                                \/ p.kind = "at" /\ i = p.n
    BY <1>1 DEF Allowed, OnStep
  <1>3. Asks(p, f, i) <=> \/ p.kind = "every"
                          \/ p.kind = "step" /\ Reached(i, a, p.n, u)
                          \/ p.kind = "at" /\ i = p.n
    BY DEF Asks, Reached
  <1> HIDE DEF i, a, u
  <1>4. CASE p.kind = "step"
    <2>1. p.n \in Nat \ {0}
      BY <1>4 DEF SegmentAccepted
    <2>2. OnStep(i, a, p.n) <=> Reached(i, a, p.n, u)
      BY <1>1, <2>1, StepsReached
    <2> QED
      BY <1>2, <1>3, <1>4, <2>2 DEF i
  <1>5. CASE p.kind # "step"
    BY <1>2, <1>3, <1>5 DEF i
  <1> QED
    BY <1>4, <1>5

LEMMA MatchesAsAsked ==
    ASSUME NEW e, Accepted(e), NEW t \in Nat
    PROVE  Matches(Parsed(e), t) <=> AskedFor(e, t)
  <1>1. ASSUME NEW f \in Fields
        PROVE  Date(t)[f] \in Parsed(e)[f] <=> \E p \in e[f] : Asks(p, f, Date(t)[f])
    <2>1. Date(t)[f] \in Parsed(e)[f] <=> \E p \in e[f] : Date(t)[f] \in Allowed(p, f)
      BY DEF Parsed
    <2>2. \A p \in e[f] : SegmentAccepted(p, f)
      BY DEF Accepted
    <2>3. \A p \in e[f] : Date(t)[f] \in Allowed(p, f) <=> Asks(p, f, Date(t)[f])
      BY <2>2, SegmentAsAsked
    <2> QED
      BY <2>1, <2>3
  <1> QED
    BY <1>1 DEF Matches, AskedFor

-----------------------------------------------------------------------------
(* The loop, its channels and its callers *)

(* stopCh is closed by the first Stop; doneCh by the loop as it ends, or by that
   Stop if the loop was never started. *)
Channels ==
    /\ closed["stop"] = IF stopped THEN 1 ELSE 0
    /\ closed["done"] = IF loop.pc = "gone" \/ (stopped /\ ~ started) THEN 1 ELSE 0
    /\ loop.pc = "off" <=> ~ started
    /\ \A s \in Stoppers :
        /\ stopper[s] # "out" => stopped
        /\ stopper[s] = "stopped" => loop.pc \in {"off", "gone"}

Slept == loop.pc = "select" => loop.wake = NextMinute(Parsed(expression), loop.now)

IInv == TypeOK /\ Channels /\ Slept

Parts == {"off", "top", "select", "gone"} \cup Running

LEMMA LoopParts ==
    ASSUME TypeOK
    PROVE  /\ loop.pc \in Parts /\ loop.now \in Nat /\ loop.wake \in Nat
           /\ loop.todo \in SUBSET Certs /\ loop.news \in SUBSET News
           /\ loop = [pc |-> loop.pc, now |-> loop.now, wake |-> loop.wake,
                      todo |-> loop.todo, news |-> loop.news]
  BY DEF TypeOK, Loop, Parts

LoopIs(pc, now, wake, todo, news) ==
    loop' = [pc |-> pc, now |-> now, wake |-> wake, todo |-> todo, news |-> news]

LEMMA LoopTyped ==
    ASSUME NEW pc \in Parts, NEW now \in Nat, NEW wake \in Nat, NEW todo \in SUBSET Certs,
           NEW news \in SUBSET News, LoopIs(pc, now, wake, todo, news)
    PROVE  /\ loop' \in Loop
           /\ loop'.pc = pc /\ loop'.now = now /\ loop'.wake = wake
  BY DEF LoopIs, Loop, Parts

(* What each step of the loop makes of it. *)
LEMMA LoopMoves ==
    ASSUME TypeOK
    PROVE  /\ Start => LoopIs("top", clock, loop.wake, loop.todo, loop.news)
           /\ Sleep => LoopIs("select", clock, NextMinute(Parsed(expression), clock), loop.todo,
                              loop.news)
           /\ Fire => LoopIs("list", clock, loop.wake, loop.todo, loop.news)
           /\ Leave => LoopIs("gone", loop.now, loop.wake, loop.todo, loop.news)
           /\ ListDue => \E todo \in SUBSET Certs :
                           LoopIs("renew", loop.now, loop.wake, todo, loop.news)
           /\ QueryFails => LoopIs("top", loop.now, loop.wake, loop.todo, loop.news)
           /\ \A c \in Certs, well \in BOOLEAN :
                Renews(c, well) => \E todo \in SUBSET Certs :
                                     LoopIs("renew", loop.now, loop.wake, todo, loop.news)
           /\ RenewalsDone => LoopIs("again", loop.now, loop.wake, loop.todo, loop.news)
           /\ ListNews => \E news \in SUBSET News :
                            LoopIs("notify", loop.now, loop.wake, loop.todo, news)
           /\ \A n \in News :
                Notify(n) => \E news \in SUBSET News :
                               LoopIs("notify", loop.now, loop.wake, loop.todo, news)
           /\ RunEnds => LoopIs("top", loop.now, loop.wake, loop.todo, loop.news)
  <1>1. Start => LoopIs("top", clock, loop.wake, loop.todo, loop.news)
    BY LoopParts DEF Start, LoopIs
  <1>2. Sleep => LoopIs("select", clock, NextMinute(Parsed(expression), clock), loop.todo,
                        loop.news)
    BY LoopParts DEF Sleep, LoopIs
  <1>3. Fire => LoopIs("list", clock, loop.wake, loop.todo, loop.news)
    BY LoopParts DEF Fire, LoopIs
  <1>4. Leave => LoopIs("gone", loop.now, loop.wake, loop.todo, loop.news)
    BY LoopParts DEF Leave, LoopIs
  <1>5. ASSUME ListDue
        PROVE  \E todo \in SUBSET Certs : LoopIs("renew", loop.now, loop.wake, todo, loop.news)
    <2> DEFINE todo == {c \in Certs : ShouldAutoRenew(rows[c], loop.now)}
    <2>1. loop' = [loop EXCEPT !.pc = "renew", !.todo = todo] /\ todo \in SUBSET Certs
      BY <1>5 DEF ListDue
    <2> HIDE DEF todo
    <2> QED
      BY <2>1, LoopParts DEF LoopIs
  <1>6. QueryFails => LoopIs("top", loop.now, loop.wake, loop.todo, loop.news)
    BY LoopParts DEF QueryFails, LoopIs
  <1>7. ASSUME NEW c \in Certs, NEW well \in BOOLEAN, Renews(c, well)
        PROVE  \E todo \in SUBSET Certs : LoopIs("renew", loop.now, loop.wake, todo, loop.news)
    <2> DEFINE todo == loop.todo \ {c}
    <2>1. /\ loop.pc = "renew" /\ loop' = [loop EXCEPT !.todo = todo]
          /\ todo \in SUBSET Certs
      BY <1>7, LoopParts DEF Renews, TodoAfter
    <2> HIDE DEF todo
    <2> QED
      BY <2>1, LoopParts DEF LoopIs
  <1>8. RenewalsDone => LoopIs("again", loop.now, loop.wake, loop.todo, loop.news)
    BY LoopParts DEF RenewalsDone, LoopIs
  <1>9. ASSUME ListNews
        PROVE  \E news \in SUBSET News : LoopIs("notify", loop.now, loop.wake, loop.todo, news)
    <2> DEFINE news == DueNews(loop.now)
    <2>1. loop' = [loop EXCEPT !.pc = "notify", !.news = news] /\ news \in SUBSET News
      BY <1>9 DEF ListNews, DueNews
    <2> HIDE DEF news
    <2> QED
      BY <2>1, LoopParts DEF LoopIs
  <1>10. ASSUME NEW n \in News, Notify(n)
         PROVE  \E news \in SUBSET News : LoopIs("notify", loop.now, loop.wake, loop.todo, news)
    <2> DEFINE news == loop.news \ {n}
    <2>1. /\ loop.pc = "notify" /\ loop' = [loop EXCEPT !.news = news]
          /\ news \in SUBSET News
      BY <1>10, LoopParts DEF Notify
    <2> HIDE DEF news
    <2> QED
      BY <2>1, LoopParts DEF LoopIs
  <1>11. RunEnds => LoopIs("top", loop.now, loop.wake, loop.todo, loop.news)
    BY LoopParts DEF RunEnds, LoopIs
  <1> QED
    BY <1>1, <1>2, <1>3, <1>4, <1>5, <1>6, <1>7, <1>8, <1>9, <1>10, <1>11

-----------------------------------------------------------------------------
(* Types *)

LEMMA RowChanges ==
    ASSUME TypeOK, NEW r \in Row
    PROVE  Renewed(r) \in Row /\ Failed(r) \in Row /\ \A q \in Edited(r) : q \in Row
  <1>1. clock + Lifetime \in Nat
    BY RowsAssumption DEF TypeOK
  <1>2. Renewed(r) \in Row
    BY <1>1 DEF Renewed, Row
  <1>3. Failed(r) \in Row
    BY DEF Failed, Row
  <1>4. [r EXCEPT !.auto = ~ @] \in Row /\ [r EXCEPT !.status = "deleted"] \in Row
    BY DEF Row
  <1> QED
    BY <1>2, <1>3, <1>4 DEF Edited

LEMMA RowsTyped ==
    ASSUME TypeOK, Next
    PROVE  rows' \in [Certs -> Row]
  <1>1. ASSUME NEW c \in Certs, RenewSucceeds(c) \/ RenewFails(c) \/ Edit(c)
        PROVE  rows' \in [Certs -> Row]
    <2>1. rows[c] \in Row
      BY DEF TypeOK
    <2>2. \E r \in Row : rows' = [rows EXCEPT ![c] = r]
      BY <1>1, <2>1, RowChanges DEF RenewSucceeds, RenewFails, Edit
    <2> QED
      BY <2>2 DEF TypeOK
  <1>2. CASE UNCHANGED rows
    BY <1>2 DEF TypeOK
  <1> QED
    BY <1>1, <1>2 DEF Next, LoopStep, Start, Cancel, Tick, Stop, StopAgain, StopEnds, Sleep, Fire,
       Leave, ListDue, QueryFails, RenewalsDone, ListNews, RunEnds, RenewRefused, Notify

LEMMA LoopStays ==
    ASSUME Next
    PROVE  UNCHANGED loop \/ Start \/ LoopStep
  BY DEF Next, Stop, StopAgain, StopEnds, Cancel, Tick, Edit

LEMMA LoopStaysTyped ==
    ASSUME TypeOK, Next
    PROVE  loop' \in Loop
  <1>1. /\ {"top", "select", "list", "gone", "renew", "again", "notify"} \subseteq Parts
        /\ clock \in Nat
    BY DEF Parts, Running, TypeOK
  <1>2. NextMinute(Parsed(expression), clock) \in Nat
    BY <1>1, NextIsFirst
  <1>3. CASE UNCHANGED loop
    BY <1>3 DEF TypeOK
  <1>4. CASE Start
    BY <1>1, <1>4, LoopMoves, LoopParts, LoopTyped
  <1>5. CASE Sleep \/ Fire \/ Leave
    BY <1>1, <1>2, <1>5, LoopMoves, LoopParts, LoopTyped
  <1>6. CASE ListDue \/ QueryFails \/ RenewalsDone \/ ListNews \/ RunEnds
    BY <1>1, <1>6, LoopMoves, LoopParts, LoopTyped
  <1>7. ASSUME NEW c \in Certs, RenewSucceeds(c) \/ RenewFails(c) \/ RenewRefused(c)
        PROVE  loop' \in Loop
    <2>1. \E todo \in SUBSET Certs : LoopIs("renew", loop.now, loop.wake, todo, loop.news)
      BY <1>7, LoopMoves DEF RenewSucceeds, RenewFails, RenewRefused
    <2> QED
      BY <1>1, <2>1, LoopParts, LoopTyped
  <1>8. ASSUME NEW n \in News, Notify(n)
        PROVE  loop' \in Loop
    BY <1>1, <1>8, LoopMoves, LoopParts, LoopTyped
  <1> QED
    BY <1>3, <1>4, <1>5, <1>6, <1>7, <1>8, LoopStays DEF LoopStep

LEMMA HistoryTyped ==
    ASSUME TypeOK, Next
    PROVE  /\ notified' \in SUBSET (News \X Nat)
           /\ tried' \in [Certs -> Nat] /\ steady' \in [Certs -> Nat]
  <1>1. clock \in Nat /\ loop.now \in Nat
    BY LoopParts DEF TypeOK
  <1>2. notified' \in SUBSET (News \X Nat)
    <2>1. ASSUME NEW n \in News, Notify(n)
          PROVE  notified' \in SUBSET (News \X Nat)
      <3>1. OneDay \in Nat \ {0}
        BY CalendarAssumption DEF OneDay
      <3>2. Today(loop.now) \in Nat
        BY <1>1, <3>1, Division DEF Today
      <3>3. Key(n, loop.now) \in News \X Nat
        BY <3>2 DEF Key
      <3> QED
        BY <2>1, <3>3 DEF Notify, TypeOK
    <2>2. CASE UNCHANGED notified
      BY <2>2 DEF TypeOK
    <2> QED
      BY <2>1, <2>2 DEF Next, LoopStep, Start, Cancel, Tick, Stop, StopAgain, StopEnds, Sleep,
         Fire, Leave, ListDue, QueryFails, RenewalsDone, ListNews, RunEnds, RenewSucceeds,
         RenewFails, RenewRefused, Renews, Edit
  <1>3. tried' \in [Certs -> Nat]
    <2>1. ASSUME NEW c \in Certs, NEW well \in BOOLEAN, Renews(c, well)
          PROVE  tried' \in [Certs -> Nat]
      BY <1>1, <2>1 DEF Renews, TypeOK
    <2>2. CASE UNCHANGED tried
      BY <2>2 DEF TypeOK
    <2> QED
      BY <2>1, <2>2 DEF Next, LoopStep, Start, Cancel, Tick, Stop, StopAgain, StopEnds, Sleep,
         Fire, Leave, ListDue, QueryFails, RenewalsDone, ListNews, RunEnds, RenewSucceeds,
         RenewFails, RenewRefused, Notify, Edit
  <1>4. steady' \in [Certs -> Nat]
    <2>1. CASE UNCHANGED steady
      BY <2>1 DEF TypeOK
    <2>2. CASE steady' = [c \in Certs |-> clock]
      BY <1>1, <2>2
    <2>3. ASSUME NEW c \in Certs, steady' = [steady EXCEPT ![c] = clock]
          PROVE  steady' \in [Certs -> Nat]
      BY <1>1, <2>3 DEF TypeOK
    <2> QED
      BY <2>1, <2>2, <2>3 DEF Next, LoopStep, Start, Cancel, Tick, Stop, StopAgain, StopEnds,
         Sleep, Fire, Leave, ListDue, QueryFails, RenewalsDone, ListNews, RunEnds, RenewSucceeds,
         RenewFails, RenewRefused, Notify, Edit
  <1> QED
    BY <1>2, <1>3, <1>4

LEMMA ControlTyped ==
    ASSUME TypeOK, Next
    PROVE  /\ clock' \in Nat /\ expression' = expression /\ upsets' \in Nat
           /\ started' \in BOOLEAN /\ stopped' \in BOOLEAN /\ cancelled' \in BOOLEAN
           /\ closed' \in [{"stop", "done"} -> Nat]
           /\ stopper' \in [Stoppers -> {"out", "waiting", "stopped", "returned"}]
  <1>1. /\ clock' \in {clock, clock + 1} /\ upsets' \in {upsets, upsets + 1}
        /\ expression' = expression
    BY Zenon DEF Next, LoopStep, Start, Cancel, Tick, Stop, StopAgain, StopEnds, Sleep, Fire,
       Leave, ListDue, QueryFails, RenewalsDone, ListNews, RunEnds, RenewSucceeds, RenewFails,
       RenewRefused, Renews, Notify, Edit
  <1>2. clock' \in Nat /\ upsets' \in Nat
    BY <1>1 DEF TypeOK
  <1>3. CASE UNCHANGED control
    BY <1>1, <1>2, <1>3 DEF TypeOK, control
  <1>4. CASE Start \/ Cancel
    BY <1>1, <1>2, <1>4 DEF TypeOK, Start, Cancel
  <1>5. CASE Leave
    BY <1>1, <1>2, <1>5 DEF TypeOK, Leave
  <1>6. ASSUME NEW s \in Stoppers, Stop(s) \/ StopAgain(s) \/ StopEnds(s)
        PROVE  /\ started' \in BOOLEAN /\ stopped' \in BOOLEAN /\ cancelled' \in BOOLEAN
               /\ closed' \in [{"stop", "done"} -> Nat]
               /\ stopper' \in [Stoppers -> {"out", "waiting", "stopped", "returned"}]
    <2>1. CASE Stop(s)
      <3>1. ClosesDone \in Nat
        BY DEF ClosesDone
      <3>2. closed' = [closed EXCEPT !["stop"] = @ + 1, !["done"] = @ + ClosesDone]
        BY <2>1 DEF Stop
      <3>3. closed' \in [{"stop", "done"} -> Nat]
        BY <3>1, <3>2 DEF TypeOK
      <3>4. stopper' \in [Stoppers -> {"out", "waiting", "stopped", "returned"}]
        BY <2>1 DEF Stop, TypeOK
      <3> QED
        BY <2>1, <3>3, <3>4 DEF Stop, TypeOK
    <2>2. CASE StopAgain(s)
      BY <2>2 DEF StopAgain, TypeOK
    <2>3. CASE StopEnds(s)
      BY <2>3 DEF StopEnds, TypeOK
    <2> QED
      BY <1>6, <2>1, <2>2, <2>3
  <1> QED
    BY <1>1, <1>2, <1>3, <1>4, <1>5, <1>6 DEF Next, LoopStep, Tick, Sleep, Fire, ListDue,
       QueryFails, RenewalsDone, ListNews, RunEnds, RenewSucceeds, RenewFails, RenewRefused,
       Renews, Notify, Edit

LEMMA TypesKept ==
    ASSUME TypeOK, Next
    PROVE  TypeOK'
  <1>1. Accepted(expression)'
    BY ControlTyped DEF TypeOK
  <1> QED
    BY <1>1, RowsTyped, LoopStaysTyped, HistoryTyped, ControlTyped DEF TypeOK

-----------------------------------------------------------------------------
(* The channels, and the time to wake *)

(* A step of the loop other than Leave goes from one place of it to another. *)
LEMMA LoopInside ==
    ASSUME TypeOK, Next
    PROVE  \/ UNCHANGED loop /\ UNCHANGED <<started, stopped, closed, stopper>>
           \/ Start \/ Leave
           \/ \E s \in Stoppers : Stop(s) \/ StopAgain(s) \/ StopEnds(s)
           \/ /\ UNCHANGED <<started, stopped, closed, stopper>>
              /\ loop.pc \notin {"off", "gone"} /\ loop'.pc \notin {"off", "gone"}
  <1> DEFINE Inside == /\ UNCHANGED <<started, stopped, closed, stopper>>
                       /\ loop.pc \notin {"off", "gone"} /\ loop'.pc \notin {"off", "gone"}
  <1>1. /\ {"top", "select", "list", "renew", "again", "notify"} \subseteq Parts
        /\ clock \in Nat
    BY DEF Parts, Running, TypeOK
  <1>2. NextMinute(Parsed(expression), clock) \in Nat
    BY <1>1, NextIsFirst
  <1>3. CASE Sleep \/ Fire
    <2>1. loop'.pc \in {"select", "list"}
      BY <1>1, <1>2, <1>3, LoopMoves, LoopParts, LoopTyped
    <2> QED
      BY <1>3, <2>1 DEF Sleep, Fire, control
  <1>4. CASE ListDue \/ QueryFails \/ RenewalsDone \/ ListNews \/ RunEnds
    <2>1. loop'.pc \in {"renew", "top", "again", "notify"}
      BY <1>1, <1>4, LoopMoves, LoopParts, LoopTyped
    <2> QED
      BY <1>4, <2>1 DEF ListDue, QueryFails, RenewalsDone, ListNews, RunEnds, control
  <1>5. ASSUME NEW c \in Certs, RenewSucceeds(c) \/ RenewFails(c) \/ RenewRefused(c)
        PROVE  Inside
    <2>1. \E todo \in SUBSET Certs : LoopIs("renew", loop.now, loop.wake, todo, loop.news)
      BY <1>5, LoopMoves DEF RenewSucceeds, RenewFails, RenewRefused
    <2>2. loop'.pc = "renew"
      BY <1>1, <2>1, LoopParts, LoopTyped
    <2> QED
      BY <1>5, <2>2 DEF RenewSucceeds, RenewFails, RenewRefused, Renews, control
  <1>6. ASSUME NEW n \in News, Notify(n)
        PROVE  Inside
    <2>1. loop'.pc = "notify"
      BY <1>1, <1>6, LoopMoves, LoopParts, LoopTyped
    <2> QED
      BY <1>6, <2>1 DEF Notify, control
  <1>7. CASE Cancel \/ Tick \/ \E c \in Certs : Edit(c)
    BY <1>7 DEF Cancel, Tick, Edit, control
  <1> QED
    BY <1>3, <1>4, <1>5, <1>6, <1>7 DEF Next, LoopStep

LEMMA ChannelsKept ==
    ASSUME IInv, Next
    PROVE  Channels'
  <1> USE DEF IInv
  <1>1. CASE UNCHANGED loop /\ UNCHANGED <<started, stopped, closed, stopper>>
    BY <1>1 DEF Channels
  <1>2. CASE Start
    <2>1. loop'.pc = "top"
      BY <1>2, LoopParts DEF Start, LoopIs
    <2> QED
      BY <1>2, <2>1 DEF Start, MayStart, Channels
  <1>3. CASE Leave
    <2>1. loop'.pc = "gone" /\ loop.pc = "select"
      BY <1>3, LoopParts DEF Leave, LoopIs
    <2>2. started /\ closed["done"] = 0 /\ closed'["done"] = 1 /\ closed'["stop"] = closed["stop"]
      BY <1>3, <2>1 DEF Leave, Channels, TypeOK
    <2> QED
      BY <1>3, <2>1, <2>2 DEF Leave, Channels
  <1>4. ASSUME NEW s \in Stoppers, Stop(s)
        PROVE  Channels'
    <2>1. /\ ~ stopped /\ stopped' /\ UNCHANGED <<started, loop>>
          /\ \A r \in Stoppers : stopper[r] # "stopped"
      BY <1>4 DEF Stop, Channels, TypeOK
    <2>2. /\ closed'["stop"] = closed["stop"] + 1
          /\ closed'["done"] = closed["done"] + IF started THEN 0 ELSE 1
      BY <1>4 DEF Stop, ClosesDone, TypeOK
    <2>3. \A r \in Stoppers : stopper'[r] = "stopped" => ~ started
      BY <1>4, <2>1 DEF Stop, TypeOK
    <2> QED
      BY <2>1, <2>2, <2>3 DEF Channels
  <1>5. ASSUME NEW s \in Stoppers, StopAgain(s) \/ StopEnds(s)
        PROVE  Channels'
    <2>1. UNCHANGED <<started, stopped, closed, loop>>
      BY <1>5 DEF StopAgain, StopEnds
    <2>2. CASE StopAgain(s)
      <3>1. stopped /\ \A r \in Stoppers : stopper'[r] = "stopped" => stopper[r] = "stopped"
        BY <2>2 DEF StopAgain, TypeOK
      <3> QED
        BY <2>1, <3>1 DEF Channels
    <2>3. CASE StopEnds(s)
      <3>1. stopped /\ loop.pc \in {"off", "gone"}
        BY <2>3 DEF StopEnds, Channels
      <3> QED
        BY <2>1, <3>1 DEF Channels
    <2> QED
      BY <1>5, <2>2, <2>3
  <1>6. CASE /\ UNCHANGED <<started, stopped, closed, stopper>>
             /\ loop.pc \notin {"off", "gone"} /\ loop'.pc \notin {"off", "gone"}
    BY <1>6 DEF Channels
  <1> QED
    BY <1>1, <1>2, <1>3, <1>4, <1>5, <1>6, LoopInside

LEMMA SleptKept ==
    ASSUME IInv, Next
    PROVE  Slept'
  <1> USE DEF IInv
  <1>1. UNCHANGED expression
    BY ControlTyped
  <1>2. /\ {"top", "list", "gone", "renew", "again", "notify", "select"} \subseteq Parts
        /\ clock \in Nat
    BY DEF Parts, Running, TypeOK
  <1>3. NextMinute(Parsed(expression), clock) \in Nat
    BY <1>2, NextIsFirst
  <1>4. CASE UNCHANGED loop
    BY <1>1, <1>4 DEF Slept
  <1>5. CASE Start
    BY <1>2, <1>5, LoopMoves, LoopParts, LoopTyped DEF Slept
  <1>6. CASE Sleep
    BY <1>1, <1>2, <1>3, <1>6, LoopMoves, LoopParts, LoopTyped DEF Slept
  <1>7. CASE Fire \/ Leave
    BY <1>2, <1>7, LoopMoves, LoopParts, LoopTyped DEF Slept
  <1>8. CASE ListDue \/ QueryFails \/ RenewalsDone \/ ListNews \/ RunEnds
    BY <1>2, <1>8, LoopMoves, LoopParts, LoopTyped DEF Slept
  <1>9. ASSUME NEW c \in Certs, RenewSucceeds(c) \/ RenewFails(c) \/ RenewRefused(c)
        PROVE  Slept'
    <2>1. \E todo \in SUBSET Certs : LoopIs("renew", loop.now, loop.wake, todo, loop.news)
      BY <1>9, LoopMoves DEF RenewSucceeds, RenewFails, RenewRefused
    <2> QED
      BY <1>2, <2>1, LoopParts, LoopTyped DEF Slept
  <1>10. ASSUME NEW n \in News, Notify(n)
         PROVE  Slept'
    BY <1>2, <1>10, LoopMoves, LoopParts, LoopTyped DEF Slept
  <1> QED
    BY <1>4, <1>5, <1>6, <1>7, <1>8, <1>9, <1>10, LoopStays DEF LoopStep

-----------------------------------------------------------------------------
(* Days and windows *)

LEMMA DivisionOfInt ==
    ASSUME NEW x \in Int, NEW n \in Nat \ {0}
    PROVE  /\ x % n \in 0 .. n - 1 /\ x \div n \in Int
           /\ x = n * (x \div n) + (x % n)
  OBVIOUS

LEMMA LessByOne ==
    ASSUME NEW x \in Int, NEW y \in Int, x < y, NEW n \in Nat \ {0}
    PROVE  n * x + n <= n * y
  <1>1. n * (x + 1) = n * x + n
    OBVIOUS
  <1>2. PICK k \in Nat : y = (x + 1) + k
    <2>1. y - (x + 1) \in Nat /\ y = (x + 1) + (y - (x + 1))
      OBVIOUS
    <2> QED
      BY <2>1
  <1>3. n * y = n * (x + 1) + n * k
    BY <1>2
  <1>4. n * k \in Nat
    BY <1>2
  <1>5. n * x \in Int /\ n * y \in Int
    OBVIOUS
  <1> QED
    BY <1>1, <1>3, <1>4, <1>5

LEMMA DayIsPositive == OneDay \in Nat \ {0}
  BY CalendarAssumption DEF OneDay

(* The days are numbered as the minutes go. *)
LEMMA TodayGrows ==
    ASSUME NEW s \in Nat, NEW t \in Nat, s <= t
    PROVE  Today(s) \in Nat /\ Today(t) \in Nat /\ Today(s) <= Today(t)
  <1> DEFINE q == s \div OneDay
             r == s % OneDay
             u == t \div OneDay
             v == t % OneDay
             n == OneDay
  <1>1. n \in Nat \ {0}
    BY DayIsPositive
  <1>2. q \in 0 .. s /\ r \in 0 .. n - 1 /\ s = n * q + r
    BY <1>1, Division
  <1>3. u \in 0 .. t /\ v \in 0 .. n - 1 /\ t = n * u + v
    BY <1>1, Division
  <1>4. Today(s) = q /\ Today(t) = u
    BY DEF Today
  <1> HIDE DEF q, r, u, v, n
  <1>5. ASSUME u < q
        PROVE  FALSE
    <2>1. n * u + n <= n * q
      BY <1>1, <1>2, <1>3, <1>5, LessByOne
    <2>2. n * u \in Int /\ n * q \in Int
      BY <1>1, <1>2, <1>3
    <2> QED
      BY <1>1, <1>2, <1>3, <2>1, <2>2
  <1> QED
    BY <1>2, <1>3, <1>4, <1>5

(* The days left are those of a window while it is open. *)
LEMMA InWindow ==
    ASSUME NEW expires \in Nat, NEW now \in Nat, NEW a \in Int,
           expires - (a + 1) * OneDay <= now, now < expires - (a - 1) * OneDay
    PROVE  RemainingDays(expires, now) \in a .. a + 1
  <1> DEFINE n == OneDay
             x == now - expires
             q == x \div n
             r == x % n
  <1>1. n \in Nat \ {0} /\ x \in Int
    BY DayIsPositive
  <1>2. q \in Int /\ r \in 0 .. n - 1 /\ x = n * q + r
    <2> HIDE DEF n, x
    <2> QED
      BY <1>1, DivisionOfInt
  <1>3. RemainingDays(expires, now) = - q
    BY DEF RemainingDays
  <1>4. x >= n * (- (a + 1)) /\ x < n * (1 - a)
    <2>1. x >= - ((a + 1) * n) /\ x < - ((a - 1) * n)
      <3>1. (a + 1) * n \in Int /\ (a - 1) * n \in Int
        BY <1>1
      <3>2. expires - (a + 1) * n <= now /\ now < expires - (a - 1) * n
        OBVIOUS
      <3> HIDE DEF n
      <3> QED
        BY <3>1, <3>2
    <2>2. - ((a + 1) * n) = n * (- (a + 1)) /\ - ((a - 1) * n) = n * (1 - a)
      <3> HIDE DEF n
      <3> QED
        BY <1>1
    <2> QED
      BY <2>1, <2>2, Zenon
  <1> HIDE DEF n, x, q, r
  <1>5. n * q \in Int /\ n * (- (a + 1)) \in Int /\ n * (1 - a) \in Int
    BY <1>1, <1>2
  <1>6. ASSUME q < - (a + 1)
        PROVE  FALSE
    <2>1. n * q + n <= n * (- (a + 1))
      <3>1. - (a + 1) \in Int
        OBVIOUS
      <3> QED
        BY <1>1, <1>2, <1>6, <3>1, LessByOne
    <2> QED
      BY <1>1, <1>2, <1>4, <1>5, <2>1
  <1>7. ASSUME 1 - a <= q
        PROVE  FALSE
    <2>1. CASE 1 - a = q
      BY <1>1, <1>2, <1>4, <1>5, <2>1
    <2>2. CASE 1 - a < q
      <3>1. n * (1 - a) + n <= n * q
        <4>1. 1 - a \in Int
          OBVIOUS
        <4> QED
          BY <1>1, <1>2, <2>2, <4>1, LessByOne
      <3> QED
        BY <1>1, <1>2, <1>4, <1>5, <3>1
    <2> QED
      BY <1>2, <1>7, <2>1, <2>2
  <1> QED
    BY <1>2, <1>3, <1>6, <1>7

LEMMA TwoDays ==
    ASSUME NEW a \in Int
    PROVE  Lowest(a .. a + 1) = a /\ Highest(a .. a + 1) = a + 1
  <1>1. a \in a .. a + 1 /\ \A j \in a .. a + 1 : a <= j
    OBVIOUS
  <1>2. a + 1 \in a .. a + 1 /\ \A j \in a .. a + 1 : j <= a + 1
    OBVIOUS
  <1>3. Lowest(a .. a + 1) \in a .. a + 1 /\ \A j \in a .. a + 1 : Lowest(a .. a + 1) <= j
    BY <1>1 DEF Lowest
  <1>4. Highest(a .. a + 1) \in a .. a + 1 /\ \A j \in a .. a + 1 : j <= Highest(a .. a + 1)
    BY <1>2 DEF Highest
  <1> QED
    BY <1>1, <1>2, <1>3, <1>4

LEMMA WindowBounds ==
    ASSUME NEW e \in Events
    PROVE  \E a \in Int : /\ Windows[e] = a .. a + 1
                          /\ Lowest(Windows[e]) = a /\ Highest(Windows[e]) = a + 1
  <1>1. \E a \in Int : Windows[e] = a .. a + 1
    <2>1. /\ Windows["in14Days"] = 13 .. 13 + 1 /\ Windows["in7Days"] = 6 .. 6 + 1
          /\ Windows["in3Days"] = 2 .. 2 + 1 /\ Windows["expired"] = (-1) .. (-1) + 1
      BY DEF Windows
    <2>2. e \in {"in14Days", "in7Days", "in3Days", "expired"}
      BY DEF Events, Windows
    <2>3. 13 \in Int /\ 6 \in Int /\ 2 \in Int /\ -1 \in Int
      OBVIOUS
    <2> QED
      BY <2>1, <2>2, <2>3, Zenon
  <1> QED
    BY <1>1, TwoDays

-----------------------------------------------------------------------------
(* The clock, and what a run leaves behind *)

(* Nothing that is recorded lies ahead of the clock, and neither the timer nor a
   run is later than it may be. *)
Timed ==
    /\ loop.now <= clock /\ clock <= MaxTime
    /\ \A c \in Certs : steady[c] <= clock /\ tried[c] <= loop.now
    /\ loop.pc \in Running \cup {"top"} => clock <= loop.now + Late
    /\ loop.pc = "select" => clock <= loop.wake + Late

Dated == \A c \in Certs : rows[c].status = "active" => rows[c].expires # 0

(* After a run of that time, or a start or a failed query of that time. *)
Attempted(c, time) ==
    steady[c] >= time \/ tried[c] >= time \/ ~ ShouldAutoRenew(rows[c], time)

Alive(c) == rows[c].status # "deleted" /\ rows[c].expires # 0

Noticed(n, time) ==
    Alive(n[1]) /\ steady[n[1]] <= Opens(n[1], n[2]) /\ Opens(n[1], n[2]) < time
        => Told(n[1], n[2])

(* The loop leaves a run with every due certificate attempted, and sleeps with
   that run, or its own start, no longer behind it than it may take. *)
Attempts ==
    /\ loop.pc = "renew" => \A c \in Certs : c \in loop.todo \/ Attempted(c, loop.now)
    /\ loop.pc \in {"again", "notify", "top"} => \A c \in Certs : Attempted(c, loop.now)
    /\ loop.pc = "select" =>
        \E time \in 0 .. loop.now :
            loop.now <= time + Late /\ \A c \in Certs : Attempted(c, time)

(* While a run goes on the windows that had opened by the run before are still
   those that have been told. *)
Notices ==
    /\ loop.pc = "select" =>
        \E time \in 0 .. loop.now :
            loop.now <= time + Late /\ \A n \in News : Noticed(n, time)
    /\ loop.pc \in {"list", "renew", "again"} =>
        \E time \in 0 .. loop.now :
            loop.now <= time + Between /\ \A n \in News : Noticed(n, time)
    /\ loop.pc = "notify" =>
        \A n \in News :
            Noticed(n, loop.now) \/ (n \in loop.news /\ loop.now < Shuts(n[1], n[2]))
    /\ loop.pc = "top" => \A n \in News : Noticed(n, loop.now)

(* What each step of the loop makes of its local variables. *)
LEMMA LoopFields ==
    ASSUME TypeOK
    PROVE  /\ Start => loop'.pc = "top" /\ loop'.now = clock
           /\ Sleep => /\ loop'.pc = "select" /\ loop'.now = clock
                       /\ loop'.wake = NextMinute(Parsed(expression), clock)
           /\ Fire => loop'.pc = "list" /\ loop'.now = clock
           /\ Leave => loop'.pc = "gone" /\ loop'.now = loop.now
           /\ QueryFails \/ RunEnds => loop'.pc = "top" /\ loop'.now = loop.now
           /\ ListDue =>
                /\ loop'.pc = "renew" /\ loop'.now = loop.now
                /\ loop'.todo = {c \in Certs : ShouldAutoRenew(rows[c], loop.now)}
           /\ \A c \in Certs, well \in BOOLEAN :
                Renews(c, well) => /\ loop'.pc = "renew" /\ loop'.now = loop.now
                                   /\ loop'.todo = loop.todo \ {c}
           /\ RenewalsDone => loop'.pc = "again" /\ loop'.now = loop.now
           /\ ListNews => /\ loop'.pc = "notify" /\ loop'.now = loop.now
                          /\ loop'.news = DueNews(loop.now)
           /\ \A n \in News :
                Notify(n) => /\ loop'.pc = "notify" /\ loop'.now = loop.now
                             /\ loop'.news = loop.news \ {n}
  <1> DEFINE due == {c \in Certs : ShouldAutoRenew(rows[c], loop.now)}
             news == DueNews(loop.now)
             wake == NextMinute(Parsed(expression), clock)
  <1>1. loop = [pc |-> loop.pc, now |-> loop.now, wake |-> loop.wake, todo |-> loop.todo,
                news |-> loop.news]
    BY LoopParts
  <1>2. Sleep => loop' = [loop EXCEPT !.pc = "select", !.now = clock, !.wake = wake]
    BY DEF Sleep
  <1>3. ListDue => loop' = [loop EXCEPT !.pc = "renew", !.todo = due]
    BY DEF ListDue
  <1>4. ListNews => loop' = [loop EXCEPT !.pc = "notify", !.news = news]
    BY DEF ListNews
  <1> HIDE DEF due, news, wake
  <1>5. Sleep => loop'.pc = "select" /\ loop'.now = clock /\ loop'.wake = wake
    BY <1>1, <1>2
  <1>6. ListDue => loop'.pc = "renew" /\ loop'.now = loop.now /\ loop'.todo = due
    BY <1>1, <1>3
  <1>7. ListNews => loop'.pc = "notify" /\ loop'.now = loop.now /\ loop'.news = news
    BY <1>1, <1>4
  <1>8. /\ Start => loop'.pc = "top" /\ loop'.now = clock
        /\ Fire => loop'.pc = "list" /\ loop'.now = clock
        /\ Leave => loop'.pc = "gone" /\ loop'.now = loop.now
        /\ QueryFails \/ RunEnds => loop'.pc = "top" /\ loop'.now = loop.now
        /\ RenewalsDone => loop'.pc = "again" /\ loop'.now = loop.now
    BY <1>1 DEF Start, Fire, Leave, QueryFails, RunEnds, RenewalsDone
  <1>9. ASSUME NEW c \in Certs, NEW well \in BOOLEAN, Renews(c, well)
        PROVE  loop'.pc = "renew" /\ loop'.now = loop.now /\ loop'.todo = loop.todo \ {c}
    BY <1>1, <1>9 DEF Renews, TodoAfter
  <1>10. ASSUME NEW n \in News, Notify(n)
         PROVE  loop'.pc = "notify" /\ loop'.now = loop.now /\ loop'.news = loop.news \ {n}
    BY <1>1, <1>10 DEF Notify
  <1> QED
    BY <1>5, <1>6, <1>7, <1>8, <1>9, <1>10 DEF due, news, wake

(* What changes for a certificate is dated by the clock. *)
LEMMA RowsMove ==
    ASSUME TypeOK, Next, NEW c \in Certs
    PROVE  steady'[c] = clock \/ (rows'[c] = rows[c] /\ steady'[c] = steady[c])
  <1>1. CASE Start \/ QueryFails
    BY <1>1 DEF Start, QueryFails
  <1>2. ASSUME NEW d \in Certs, RenewSucceeds(d) \/ RenewFails(d) \/ Edit(d)
        PROVE  steady'[c] = clock \/ (rows'[c] = rows[c] /\ steady'[c] = steady[c])
    <2>1. \E r : rows' = [rows EXCEPT ![d] = r] /\ steady' = [steady EXCEPT ![d] = clock]
      BY <1>2 DEF RenewSucceeds, RenewFails, Edit
    <2> QED
      BY <2>1 DEF TypeOK
  <1>3. CASE UNCHANGED <<rows, steady>>
    BY <1>3
  <1> QED
    BY <1>1, <1>2, <1>3 DEF Next, LoopStep, Cancel, Tick, Stop, StopAgain, StopEnds, Sleep, Fire,
       Leave, ListDue, RenewalsDone, ListNews, RunEnds, RenewRefused, Notify

(* Only the clock ticks; notifications stay; a certificate is attempted by a
   renewal. *)
LEMMA HistoryGrows ==
    ASSUME Next
    PROVE  /\ UNCHANGED clock \/ Tick
           /\ notified \subseteq notified'
           /\ UNCHANGED tried \/ \E c \in Certs, well \in BOOLEAN : Renews(c, well)
  <1>1. UNCHANGED clock \/ Tick
    BY DEF Next, LoopStep, Start, Cancel, Stop, StopAgain, StopEnds, Sleep, Fire, Leave, ListDue,
       QueryFails, RenewalsDone, ListNews, RunEnds, RenewSucceeds, RenewFails, RenewRefused,
       Renews, Notify, Edit
  <1>2. notified \subseteq notified'
    BY DEF Next, LoopStep, Start, Cancel, Tick, Stop, StopAgain, StopEnds, Sleep, Fire, Leave,
       ListDue, QueryFails, RenewalsDone, ListNews, RunEnds, RenewSucceeds, RenewFails,
       RenewRefused, Renews, Notify, Edit
  <1>3. UNCHANGED tried \/ \E c \in Certs, well \in BOOLEAN : Renews(c, well)
    BY DEF Next, LoopStep, Start, Cancel, Tick, Stop, StopAgain, StopEnds, Sleep, Fire, Leave,
       ListDue, QueryFails, RenewalsDone, ListNews, RunEnds, RenewSucceeds, RenewFails,
       RenewRefused, Notify, Edit
  <1> QED
    BY <1>1, <1>2, <1>3

LEMMA LoopOrNot ==
    ASSUME Next
    PROVE  \/ UNCHANGED loop /\ UNCHANGED <<tried, notified>>
           \/ Start \/ Sleep \/ Fire \/ Leave \/ ListDue \/ QueryFails \/ RenewalsDone
           \/ ListNews \/ RunEnds
           \/ \E c \in Certs, well \in BOOLEAN : Renews(c, well)
           \/ \E n \in News : Notify(n)
  BY DEF Next, LoopStep, Cancel, Tick, Stop, StopAgain, StopEnds, RenewSucceeds, RenewFails,
     RenewRefused, Edit

LEMMA DatedKept ==
    ASSUME TypeOK, Dated, Next
    PROVE  Dated'
  <1>1. ASSUME NEW c \in Certs, NEW r, r.status = "active" => r.expires # 0,
               rows' = [rows EXCEPT ![c] = r]
        PROVE  Dated'
    BY <1>1 DEF Dated, TypeOK
  <1>2. ASSUME NEW c \in Certs, NEW r \in Row, r.status = "active" => r.expires # 0
        PROVE  /\ Renewed(r).status = "active" => Renewed(r).expires # 0
               /\ Failed(r).status = "active" => Failed(r).expires # 0
               /\ \A q \in Edited(r) : q.status = "active" => q.expires # 0
    <2>1. clock + Lifetime \in Nat \ {0}
      BY RowsAssumption DEF TypeOK
    <2> QED
      BY <1>2, <2>1 DEF Edited, Renewed, Failed, Row
  <1>3. ASSUME NEW c \in Certs, RenewSucceeds(c) \/ RenewFails(c) \/ Edit(c)
        PROVE  Dated'
    <2>1. rows[c] \in Row /\ (rows[c].status = "active" => rows[c].expires # 0)
      BY DEF TypeOK, Dated
    <2>2. \E r : rows' = [rows EXCEPT ![c] = r] /\ (r.status = "active" => r.expires # 0)
      BY <1>2, <1>3, <2>1 DEF RenewSucceeds, RenewFails, Edit
    <2> QED
      BY <1>1, <2>2
  <1>4. CASE UNCHANGED rows
    BY <1>4 DEF Dated
  <1> QED
    BY <1>3, <1>4 DEF Next, LoopStep, Start, Cancel, Tick, Stop, StopAgain, StopEnds, Sleep, Fire,
       Leave, ListDue, QueryFails, RenewalsDone, ListNews, RunEnds, RenewRefused, Notify

LEMMA TimedKept ==
    ASSUME TypeOK, Timed, Next
    PROVE  Timed'
  <1>1. /\ clock \in Nat /\ loop.now \in Nat /\ loop.wake \in Nat /\ Late \in Nat /\ MaxTime \in Nat
        /\ steady \in [Certs -> Nat] /\ steady' \in [Certs -> Nat]
    BY LoopParts, HistoryTyped, LimitsAssumption DEF TypeOK
  <1>0. ASSUME NEW c \in Certs
        PROVE  loop'.now >= loop.now /\ tried'[c] <= loop'.now
    <2>1. loop'.now >= loop.now
      <3>1. loop'.now = loop.now \/ loop'.now = clock
        BY LoopOrNot, LoopFields
      <3> QED
        BY <1>1, <3>1 DEF Timed
    <2>2. tried'[c] = tried[c] \/ tried'[c] = loop.now
      <3>1. ASSUME NEW d \in Certs, NEW well \in BOOLEAN, Renews(d, well)
            PROVE  tried'[c] = tried[c] \/ tried'[c] = loop.now
        BY <3>1 DEF Renews, TypeOK
      <3> QED
        BY <3>1, HistoryGrows
    <2>3. tried[c] \in Nat /\ loop'.now \in Nat
      BY LoopStaysTyped DEF TypeOK, Loop
    <2> QED
      BY <1>1, <2>1, <2>2, <2>3 DEF Timed
  <1>2. CASE Tick
    <2>1. UNCHANGED <<loop, steady, tried>> /\ clock' = clock + 1 /\ clock < MaxTime
      BY <1>2 DEF Tick
    <2>2. /\ loop.pc \in Running \cup {"top"} => clock < loop.now + Late
          /\ loop.pc = "select" => clock < loop.wake + Late
      BY <1>2 DEF Tick, Running
    <2> QED
      BY <1>1, <2>1, <2>2 DEF Timed
  <1>3. CASE UNCHANGED clock
    <2>1. \A c \in Certs : steady'[c] <= clock
      <3> SUFFICES ASSUME NEW c \in Certs
                   PROVE  steady'[c] <= clock
        OBVIOUS
      <3>1. steady'[c] = clock \/ steady'[c] = steady[c]
        BY RowsMove
      <3> QED
        BY <1>1, <3>1 DEF Timed
    <2>2. SUFFICES /\ loop'.now <= clock
                   /\ loop'.pc \in Running \cup {"top"} => clock <= loop'.now + Late
                   /\ loop'.pc = "select" => clock <= loop'.wake + Late
      BY <1>0, <1>3, <2>1 DEF Timed
    <2>3. CASE UNCHANGED loop
      BY <2>3 DEF Timed
    <2>4. CASE Start \/ Fire
      BY <1>1, <2>4, LoopFields DEF Running
    <2>5. CASE Sleep
      <3>1. NextMinute(Parsed(expression), clock) \in Nat
            /\ NextMinute(Parsed(expression), clock) > clock
        BY <1>1, NextIsFirst
      <3> QED
        BY <1>1, <2>5, <3>1, LoopFields DEF Running
    <2>6. CASE Leave
      BY <1>1, <2>6, LoopFields DEF Running, Timed
    <2>7. CASE ListDue \/ QueryFails \/ RenewalsDone \/ ListNews \/ RunEnds
      <3>1. loop.pc \in Running /\ loop'.now = loop.now /\ loop'.pc # "select"
        BY <2>7, LoopFields DEF ListDue, QueryFails, RenewalsDone, ListNews, RunEnds, Running
      <3> QED
        BY <1>1, <3>1 DEF Timed
    <2>8. ASSUME NEW c \in Certs, NEW well \in BOOLEAN, Renews(c, well)
          PROVE  loop.pc \in Running /\ loop'.now = loop.now /\ loop'.pc # "select"
      BY <2>8, LoopFields DEF Renews, Running
    <2>9. ASSUME NEW n \in News, Notify(n)
          PROVE  loop.pc \in Running /\ loop'.now = loop.now /\ loop'.pc # "select"
      BY <2>9, LoopFields DEF Notify, Running
    <2>10. CASE loop.pc \in Running /\ loop'.now = loop.now /\ loop'.pc # "select"
      BY <1>1, <2>10 DEF Timed
    <2> QED
      BY <2>3, <2>4, <2>5, <2>6, <2>7, <2>8, <2>9, <2>10, LoopOrNot
  <1> QED
    BY <1>2, <1>3, HistoryGrows

(* An attempt is forgotten only with a change, which is a later date. *)
LEMMA AttemptedStays ==
    ASSUME TypeOK, Next, NEW c \in Certs, NEW time \in Nat, time <= clock,
           tried'[c] >= time \/ tried'[c] = tried[c], Attempted(c, time)
    PROVE  Attempted(c, time)'
  <1>1. CASE steady'[c] = clock
    BY <1>1 DEF Attempted
  <1>2. CASE rows'[c] = rows[c] /\ steady'[c] = steady[c]
    BY <1>2 DEF Attempted, ShouldAutoRenew
  <1> QED
    BY <1>1, <1>2, RowsMove

LEMMA AttemptsKept ==
    ASSUME TypeOK, Timed, Attempts, Next
    PROVE  Attempts'
  <1>1. /\ clock \in Nat /\ loop.now \in Nat /\ Late \in Nat /\ loop.now <= clock
        /\ tried \in [Certs -> Nat]
    BY LoopParts, LimitsAssumption DEF TypeOK, Timed
  <1>2. CASE UNCHANGED <<loop, tried>>
    <2>1. ASSUME NEW c \in Certs, NEW time \in Nat, time <= loop.now, Attempted(c, time)
          PROVE  Attempted(c, time)'
      BY <1>1, <1>2, <2>1, AttemptedStays
    <2>2. \A c \in Certs : Attempted(c, loop.now) => Attempted(c, loop.now)'
      <3> SUFFICES ASSUME NEW c \in Certs, Attempted(c, loop.now)
                   PROVE  Attempted(c, loop.now)'
        OBVIOUS
      <3>1. steady'[c] = clock \/ (rows'[c] = rows[c] /\ steady'[c] = steady[c])
        BY RowsMove
      <3> QED
        BY <1>1, <1>2, <3>1 DEF Attempted, ShouldAutoRenew
    <2>3. loop'.pc = "renew" => \A c \in Certs : c \in loop'.todo \/ Attempted(c, loop.now)'
      BY <1>2, <2>2 DEF Attempts
    <2>4. loop'.pc \in {"again", "notify", "top"} => \A c \in Certs : Attempted(c, loop.now)'
      BY <1>2, <2>2 DEF Attempts
    <2>5. loop'.pc = "select" =>
            \E time \in 0 .. loop'.now :
                loop'.now <= time + Late /\ \A c \in Certs : Attempted(c, time)'
      BY <1>1, <1>2, <2>1 DEF Attempts
    <2> QED
      BY <2>3, <2>4, <2>5 DEF Attempts
  <1>3. CASE Start \/ QueryFails
    <2>1. loop'.pc = "top" /\ loop'.now <= clock
      BY <1>1, <1>3, LoopFields
    <2>2. \A c \in Certs : steady'[c] = clock
      BY <1>3 DEF Start, QueryFails
    <2>3. \A c \in Certs : steady'[c] >= loop'.now
      BY <1>1, <2>1, <2>2
    <2> QED
      BY <2>1, <2>3 DEF Attempts, Attempted
  <1>4. CASE Sleep
    <2>1. /\ loop.pc = "top" /\ loop'.pc = "select" /\ loop'.now = clock
          /\ UNCHANGED <<rows, steady, tried>>
      BY <1>4, LoopFields DEF Sleep
    <2>2. clock <= loop.now + Late
      BY <2>1 DEF Timed
    <2>3. \A c \in Certs : Attempted(c, loop.now)
      BY <2>1 DEF Attempts
    <2>4. \E time \in 0 .. clock :
            clock <= time + Late /\ \A c \in Certs : Attempted(c, time)'
      <3>1. loop.now \in 0 .. clock
        BY <1>1
      <3> DEFINE now == loop.now
      <3>2. \A c \in Certs : steady'[c] >= now \/ tried'[c] >= now \/ ~ ShouldAutoRenew(rows'[c], now)
        BY <2>1, <2>3 DEF Attempted
      <3> HIDE DEF now
      <3>3. now \in 0 .. clock /\ clock <= now + Late
        BY <2>2, <3>1 DEF now
      <3> QED
        BY <3>2, <3>3 DEF Attempted
    <2> QED
      BY <2>1, <2>4 DEF Attempts
  <1>5. CASE Fire \/ Leave
    <2>1. loop'.pc \in {"list", "gone"}
      BY <1>5, LoopFields
    <2> QED
      BY <2>1 DEF Attempts
  <1>6. CASE ListDue
    <2>1. /\ loop'.pc = "renew" /\ loop'.now = loop.now /\ UNCHANGED rows
          /\ loop'.todo = {c \in Certs : ShouldAutoRenew(rows[c], loop.now)}
      BY <1>6, LoopFields DEF ListDue
    <2>2. \A c \in Certs : c \in loop'.todo \/ ~ ShouldAutoRenew(rows[c], loop.now)
      BY <2>1
    <2> QED
      BY <2>1, <2>2 DEF Attempts, Attempted
  <1>7. ASSUME NEW c \in Certs, NEW well \in BOOLEAN, Renews(c, well)
        PROVE  Attempts'
    <2>1. /\ loop.pc = "renew" /\ loop'.pc = "renew" /\ loop'.now = loop.now
          /\ loop'.todo = loop.todo \ {c} /\ tried' = [tried EXCEPT ![c] = loop.now]
      BY <1>7, LoopFields DEF Renews
    <2>2. ASSUME NEW d \in Certs, d \notin loop'.todo
          PROVE  Attempted(d, loop.now)'
      <3>1. CASE d = c
        BY <1>1, <2>1, <3>1 DEF Attempted
      <3>2. CASE d # c
        <4>1. Attempted(d, loop.now) /\ tried'[d] = tried[d]
          BY <1>1, <2>1, <2>2, <3>2 DEF Attempts
        <4>2. steady'[d] = clock \/ (rows'[d] = rows[d] /\ steady'[d] = steady[d])
          BY RowsMove
        <4> QED
          BY <1>1, <2>1, <4>1, <4>2 DEF Attempted, ShouldAutoRenew
      <3> QED
        BY <3>1, <3>2
    <2> QED
      BY <2>1, <2>2 DEF Attempts
  <1>8. ASSUME RenewalsDone \/ ListNews \/ RunEnds \/ \E n \in News : Notify(n)
        PROVE  Attempts'
    <2>1. /\ loop'.now = loop.now /\ UNCHANGED <<rows, steady, tried>>
          /\ loop'.pc \in {"again", "notify", "top"}
      BY <1>8, LoopFields DEF RenewalsDone, ListNews, RunEnds, Notify
    <2>2. loop.pc \in {"again", "notify"} \/ (loop.pc = "renew" /\ loop.todo = {})
      BY <1>8 DEF RenewalsDone, ListNews, RunEnds, Notify
    <2>3. \A c \in Certs : Attempted(c, loop.now)
      BY <2>2 DEF Attempts
    <2> QED
      BY <2>1, <2>3 DEF Attempts, Attempted
  <1> QED
    BY <1>2, <1>3, <1>4, <1>5, <1>6, <1>7, <1>8, LoopOrNot

-----------------------------------------------------------------------------
(* No window falls between two runs *)

LEMMA WindowSpan ==
    ASSUME NEW expires \in Nat, NEW e \in Events
    PROVE  /\ expires - Highest(Windows[e]) * OneDay \in Int
           /\ expires - (Lowest(Windows[e]) - 1) * OneDay
                = expires - Highest(Windows[e]) * OneDay + 2 * OneDay
  <1> DEFINE n == OneDay
  <1>1. PICK a \in Int : Lowest(Windows[e]) = a /\ Highest(Windows[e]) = a + 1
    BY WindowBounds
  <1>2. n \in Nat
    BY DayIsPositive
  <1> HIDE DEF n
  <1>3. (a + 1) * n \in Int /\ (a - 1) * n \in Int /\ (a - 1) * n + 2 * n = (a + 1) * n
    BY <1>2
  <1>4. /\ expires - (a + 1) * n \in Int
        /\ expires - (a - 1) * n = expires - (a + 1) * n + 2 * n
    BY <1>2, <1>3
  <1> QED
    BY <1>1, <1>4 DEF n

LEMMA NewsParts ==
    ASSUME NEW n \in News
    PROVE  n[1] \in Certs /\ n[2] \in Events /\ n = <<n[1], n[2]>>
  BY DEF News

LEMMA WindowTyped ==
    ASSUME TypeOK, NEW n \in News
    PROVE  /\ rows[n[1]].expires \in Nat /\ steady[n[1]] \in Nat
           /\ Opens(n[1], n[2]) \in Int
           /\ Shuts(n[1], n[2]) = Opens(n[1], n[2]) + 2 * OneDay
  <1>1. rows[n[1]].expires \in Nat /\ steady[n[1]] \in Nat
    BY NewsParts DEF TypeOK, Row
  <1> QED
    BY <1>1, NewsParts, WindowSpan DEF Opens, Shuts

(* A run while the window is open has the notification to send, on a day of it. *)
LEMMA WindowsAreDue ==
    ASSUME TypeOK, NEW n \in News, NEW now \in Nat, Alive(n[1]),
           Opens(n[1], n[2]) <= now, now < Shuts(n[1], n[2])
    PROVE  n \in DueNews(now)
  <1>1. rows[n[1]].expires \in Nat
    BY WindowTyped
  <1>2. PICK a \in Int : /\ Windows[n[2]] = a .. a + 1
                         /\ Lowest(Windows[n[2]]) = a /\ Highest(Windows[n[2]]) = a + 1
    BY NewsParts, WindowBounds
  <1>3. /\ rows[n[1]].expires - (a + 1) * OneDay <= now
        /\ now < rows[n[1]].expires - (a - 1) * OneDay
    BY <1>2 DEF Opens, Shuts
  <1>4. RemainingDays(rows[n[1]].expires, now) \in Windows[n[2]]
    BY <1>1, <1>2, <1>3, InWindow
  <1> QED
    BY <1>4 DEF DueNews, Alive

LEMMA WindowDays ==
    ASSUME TypeOK, NEW n \in News, NEW now \in Nat, 0 <= Opens(n[1], n[2]),
           Opens(n[1], n[2]) <= now, now < Shuts(n[1], n[2])
    PROVE  Today(now) \in Today(Opens(n[1], n[2])) .. Today(Shuts(n[1], n[2]) - 1)
  <1>1. Opens(n[1], n[2]) \in Nat /\ Shuts(n[1], n[2]) - 1 \in Nat
        /\ now <= Shuts(n[1], n[2]) - 1
    BY WindowTyped, DayIsPositive
  <1> QED
    BY <1>1, TodayGrows

LEMMA NoticedStays ==
    ASSUME TypeOK, Next, NEW n \in News, NEW time \in Nat, time <= clock, Noticed(n, time)
    PROVE  Noticed(n, time)'
  <1>1. n[1] \in Certs /\ n[2] \in Events /\ clock \in Nat
    BY NewsParts DEF TypeOK
  <1>2. CASE steady'[n[1]] = clock
    <2>1. rows'[n[1]].expires \in Nat
      BY <1>1, RowsTyped DEF Row
    <2>2. Opens(n[1], n[2])' \in Int
      BY <1>1, <2>1, WindowSpan DEF Opens
    <2> QED
      BY <1>1, <1>2, <2>2 DEF Noticed
  <1>3. CASE rows'[n[1]] = rows[n[1]] /\ steady'[n[1]] = steady[n[1]]
    <2>1. /\ Opens(n[1], n[2])' = Opens(n[1], n[2]) /\ Shuts(n[1], n[2])' = Shuts(n[1], n[2])
          /\ Alive(n[1])' <=> Alive(n[1])
      BY <1>3 DEF Opens, Shuts, Alive
    <2>2. Told(n[1], n[2]) => Told(n[1], n[2])'
      BY <2>1, HistoryGrows DEF Told
    <2> QED
      BY <1>3, <2>1, <2>2 DEF Noticed
  <1> QED
    BY <1>1, <1>2, <1>3, RowsMove

(* The timer of a daily schedule is set to within a day. *)
LEMMA WakesWithinADay ==
    ASSUME TypeOK, Slept, Timed, EveryDay, loop.pc = "select"
    PROVE  loop.wake <= loop.now + OneDay
  <1> DEFINE now == loop.now
             wake == loop.wake
             schedule == Parsed(expression)
  <1>1. /\ now \in Nat /\ now \in 0 .. MaxTime /\ SearchMinutes \in Nat /\ OneDay \in Nat
        /\ Accepted(expression) /\ wake = NextMinute(schedule, now)
    <2>1. now \in Nat /\ Accepted(expression) /\ wake = NextMinute(schedule, now)
      BY LoopParts DEF TypeOK, Slept
    <2>2. now <= MaxTime
      <3>1. clock \in Nat /\ MaxTime \in Nat /\ now <= clock /\ clock <= MaxTime
        BY LimitsAssumption DEF TypeOK, Timed
      <3> QED
        BY <2>1, <3>1
    <2>3. MaxTime \in Nat /\ SearchMinutes \in Nat /\ OneDay \in Nat
      BY LimitsAssumption, CalendarAssumption, DayIsPositive
    <2> HIDE DEF now, wake, schedule
    <2> QED
      BY <2>1, <2>2, <2>3
  <1>2. PICK u \in now + 1 .. now + OneDay : AskedFor(expression, u)
    BY <1>1 DEF EveryDay
  <1> HIDE DEF now, wake
  <1>3. u \in Nat
    BY <1>1
  <1>4. Matches(schedule, u)
    BY <1>1, <1>2, <1>3, MatchesAsAsked
  <1> HIDE DEF schedule
  <1>5. wake \in Nat /\ \A t \in now + 1 .. wake - 1 : ~ Matches(schedule, t)
    BY <1>1, NextIsFirst
  <1>6. wake <= u
    BY <1>1, <1>2, <1>3, <1>4, <1>5
  <1> QED
    BY <1>1, <1>2, <1>5, <1>6 DEF now, wake

LEMMA NoticesKept ==
    ASSUME TypeOK, Slept, Timed, Notices, Next, EveryDay, 2 * Late < OneDay
    PROVE  Notices'
  <1>1. /\ clock \in Nat /\ loop.now \in Nat /\ loop.now <= clock
        /\ Late \in Nat /\ OneDay \in Nat /\ Between = OneDay + 2 * Late
    BY LoopParts, LimitsAssumption, DayIsPositive DEF TypeOK, Timed, Between
  <1>2. ASSUME NEW n \in News, Noticed(n, loop.now)
        PROVE  loop'.now = loop.now => Noticed(n, loop.now)'
    <2>1. SUFFICES ASSUME NEW time \in Nat, time = loop.now, loop'.now = time
                   PROVE  Noticed(n, time)'
      BY <1>1 DEF Noticed
    <2>2. Noticed(n, time)
      BY <1>2, <2>1
    <2> QED
      BY <1>1, <2>1, <2>2, NoticedStays
  <1>3. ASSUME NEW span \in Nat, loop'.now = loop.now,
               \E time \in 0 .. loop.now :
                   loop.now <= time + span /\ \A n \in News : Noticed(n, time)
        PROVE  \E time \in 0 .. loop'.now :
                   loop'.now <= time + span /\ \A n \in News : Noticed(n, time)'
    <2>1. PICK time \in 0 .. loop.now :
            loop.now <= time + span /\ \A n \in News : Noticed(n, time)
      BY <1>3
    <2>2. \A n \in News : Noticed(n, time)'
      BY <1>1, <2>1, NoticedStays
    <2> QED
      BY <1>3, <2>1, <2>2
  <1>4. Between \in Nat
    BY <1>1
  <1>5. CASE UNCHANGED loop
    <2>1. ASSUME loop.pc = "notify", NEW n \in News
          PROVE  Noticed(n, loop.now)' \/ (n \in loop'.news /\ loop'.now < Shuts(n[1], n[2])')
      <3>1. CASE Noticed(n, loop.now)
        BY <1>2, <1>5, <3>1
      <3>2. CASE n \in loop.news /\ loop.now < Shuts(n[1], n[2])
        <4>1. CASE rows'[n[1]] = rows[n[1]]
          BY <1>5, <3>2, <4>1 DEF Shuts
        <4>2. CASE steady'[n[1]] = clock
          <5>1. Opens(n[1], n[2])' \in Int
            <6>1. rows'[n[1]].expires \in Nat
              BY NewsParts, RowsTyped DEF Row
            <6> QED
              BY <6>1, NewsParts, WindowSpan DEF Opens
          <5> QED
            BY <1>1, <1>5, <4>2, <5>1 DEF Noticed
        <4> QED
          BY <4>1, <4>2, RowsMove, NewsParts
      <3> QED
        BY <2>1, <3>1, <3>2 DEF Notices
    <2>2. loop'.pc = "top" => \A n \in News : Noticed(n, loop.now)'
      BY <1>2, <1>5 DEF Notices
    <2>3. loop'.pc = "select" =>
            \E time \in 0 .. loop'.now :
                loop'.now <= time + Late /\ \A n \in News : Noticed(n, time)'
      BY <1>1, <1>3, <1>5 DEF Notices
    <2>4. loop'.pc \in {"list", "renew", "again"} =>
            \E time \in 0 .. loop'.now :
                loop'.now <= time + Between /\ \A n \in News : Noticed(n, time)'
      BY <1>4, <1>3, <1>5 DEF Notices
    <2> QED
      BY <1>5, <2>1, <2>2, <2>3, <2>4 DEF Notices
  <1>6. CASE Start \/ QueryFails
    <2>1. loop'.pc = "top" /\ loop'.now \in Nat /\ loop'.now <= clock
      BY <1>1, <1>6, LoopFields
    <2>2. ASSUME NEW n \in News
          PROVE  Noticed(n, loop.now)'
      <3>1. rows'[n[1]].expires \in Nat /\ steady'[n[1]] = clock
        BY <1>6, NewsParts, RowsTyped DEF Row, Start, QueryFails
      <3>2. Opens(n[1], n[2])' \in Int
        BY <3>1, NewsParts, WindowSpan DEF Opens
      <3> QED
        BY <1>1, <2>1, <3>1, <3>2 DEF Noticed
    <2> QED
      BY <2>1, <2>2 DEF Notices
  <1>7. CASE Sleep
    <2>1. loop.pc = "top" /\ loop'.pc = "select" /\ loop'.now = clock
      BY <1>7, LoopFields DEF Sleep
    <2>2. clock <= loop.now + Late
      BY <2>1 DEF Timed
    <2>3. PICK time \in 0 .. clock : time = loop.now
      BY <1>1
    <2>4. \A n \in News : Noticed(n, time)
      BY <2>1, <2>3 DEF Notices
    <2>5. \A n \in News : Noticed(n, time)'
      BY <1>1, <2>3, <2>4, NoticedStays
    <2>6. \E r \in 0 .. loop'.now :
            loop'.now <= r + Late /\ \A n \in News : Noticed(n, r)'
      BY <2>1, <2>2, <2>3, <2>5
    <2> QED
      BY <2>1, <2>6 DEF Notices
  <1>8. CASE Fire
    <2>1. loop.pc = "select" /\ loop'.pc = "list" /\ loop'.now = clock
      BY <1>8, LoopFields DEF Fire
    <2>2. PICK time \in 0 .. loop.now :
            loop.now <= time + Late /\ \A n \in News : Noticed(n, time)
      BY <2>1 DEF Notices
    <2>3. loop.wake \in Nat /\ clock <= loop.wake + Late /\ loop.wake <= loop.now + OneDay
      BY <2>1, LoopParts, WakesWithinADay DEF Timed
    <2>4. time \in 0 .. clock /\ clock <= time + Between
      BY <1>1, <2>2, <2>3
    <2>5. \A n \in News : Noticed(n, time)'
      BY <1>1, <2>2, <2>4, NoticedStays
    <2>6. \E r \in 0 .. loop'.now :
            loop'.now <= r + Between /\ \A n \in News : Noticed(n, r)'
      BY <2>1, <2>4, <2>5
    <2> QED
      BY <2>1, <2>6 DEF Notices
  <1>9. CASE Leave
    <2>1. loop'.pc = "gone"
      BY <1>9, LoopFields
    <2> QED
      BY <2>1 DEF Notices
  <1>10. ASSUME ListDue \/ RenewalsDone \/ \E c \in Certs, well \in BOOLEAN : Renews(c, well)
         PROVE  Notices'
    <2>1. /\ loop.pc \in {"list", "renew"} /\ loop'.pc \in {"renew", "again"}
          /\ loop'.now = loop.now
      BY <1>10, LoopFields DEF ListDue, RenewalsDone, Renews
    <2>2. \E time \in 0 .. loop.now :
            loop.now <= time + Between /\ \A n \in News : Noticed(n, time)
      BY <2>1 DEF Notices
    <2>3. \E time \in 0 .. loop'.now :
            loop'.now <= time + Between /\ \A n \in News : Noticed(n, time)'
      BY <1>3, <1>4, <2>1, <2>2
    <2> QED
      BY <2>1, <2>3 DEF Notices
  <1>11. CASE ListNews
    <2>1. /\ loop.pc = "again" /\ loop'.pc = "notify" /\ loop'.now = loop.now
          /\ loop'.news = DueNews(loop.now) /\ UNCHANGED <<rows, steady, notified>>
      BY <1>11, LoopFields DEF ListNews
    <2>2. PICK time \in 0 .. loop.now :
            loop.now <= time + Between /\ \A n \in News : Noticed(n, time)
      BY <2>1 DEF Notices
    <2>3. ASSUME NEW n \in News, ~ Noticed(n, loop.now)
          PROVE  n \in DueNews(loop.now) /\ loop.now < Shuts(n[1], n[2])
      <3>1. /\ Alive(n[1]) /\ steady[n[1]] <= Opens(n[1], n[2])
            /\ Opens(n[1], n[2]) < loop.now /\ ~ Told(n[1], n[2])
        BY <2>3 DEF Noticed
      <3>2. ~ (Opens(n[1], n[2]) < time)
        BY <2>2, <3>1 DEF Noticed
      <3>3. Opens(n[1], n[2]) \in Int /\ Shuts(n[1], n[2]) = Opens(n[1], n[2]) + 2 * OneDay
        BY WindowTyped
      <3>4. loop.now < Shuts(n[1], n[2]) /\ Opens(n[1], n[2]) <= loop.now
        BY <1>1, <2>2, <3>1, <3>2, <3>3
      <3> QED
        BY <1>1, <3>1, <3>4, WindowsAreDue
    <2>4. \A n \in News : Noticed(n, loop.now)
                            \/ (n \in loop'.news /\ loop'.now < Shuts(n[1], n[2]))
      BY <2>1, <2>3
    <2> QED
      BY <2>1, <2>4 DEF Notices, Noticed, Told, Alive, Opens, Shuts
  <1>12. ASSUME NEW m \in News, Notify(m)
         PROVE  Notices'
    <2>1. /\ loop.pc = "notify" /\ loop'.pc = "notify" /\ loop'.now = loop.now
          /\ loop'.news = loop.news \ {m} /\ UNCHANGED <<rows, steady>>
          /\ notified' = notified \cup {Key(m, loop.now)}
      BY <1>12, LoopFields DEF Notify
    <2>2. ASSUME NEW n \in News
          PROVE  Noticed(n, loop.now)' \/ (n \in loop'.news /\ loop'.now < Shuts(n[1], n[2])')
      <3>1. CASE Noticed(n, loop.now)
        BY <1>2, <2>1, <3>1
      <3>2. CASE n \in loop.news /\ loop.now < Shuts(n[1], n[2]) /\ n # m
        BY <2>1, <3>2 DEF Shuts
      <3>3. ASSUME n = m, loop.now < Shuts(n[1], n[2])
            PROVE  Noticed(n, loop.now)'
        <4>1. SUFFICES ASSUME steady[n[1]] <= Opens(n[1], n[2]), Opens(n[1], n[2]) < loop.now
                       PROVE  Told(n[1], n[2])'
          BY <2>1 DEF Noticed, Alive, Opens, Told
        <4>2. 0 <= Opens(n[1], n[2]) /\ Opens(n[1], n[2]) <= loop.now
          BY <1>1, <4>1, WindowTyped
        <4>3. Today(loop.now) \in Today(Opens(n[1], n[2])) .. Today(Shuts(n[1], n[2]) - 1)
          BY <1>1, <3>3, <4>2, WindowDays
        <4>4. <<<<n[1], n[2]>>, Today(loop.now)>> \in notified'
          BY <2>1, <3>3, NewsParts DEF Key
        <4>5. /\ Opens(n[1], n[2])' = Opens(n[1], n[2]) /\ Shuts(n[1], n[2])' = Shuts(n[1], n[2])
          BY <2>1 DEF Opens, Shuts
        <4> QED
          BY <4>3, <4>4, <4>5 DEF Told
      <3> QED
        BY <2>1, <3>1, <3>2, <3>3 DEF Notices
    <2> QED
      BY <2>1, <2>2 DEF Notices
  <1>13. CASE RunEnds
    <2>1. /\ loop.pc = "notify" /\ loop.news = {} /\ loop'.pc = "top" /\ loop'.now = loop.now
      BY <1>13, LoopFields DEF RunEnds
    <2>2. \A n \in News : Noticed(n, loop.now)
      BY <2>1 DEF Notices
    <2>3. \A n \in News : Noticed(n, loop.now)'
      BY <1>2, <2>1, <2>2
    <2> QED
      BY <2>1, <2>3 DEF Notices
  <1> QED
    BY <1>5, <1>6, <1>7, <1>8, <1>9, <1>10, <1>11, <1>12, <1>13, LoopOrNot

-----------------------------------------------------------------------------
(* Nothing is done before it is due *)

LEMMA OnlyInWindow ==
    ASSUME NEW expires \in Nat, NEW now \in Nat, NEW a \in Int,
           RemainingDays(expires, now) \in a .. a + 1
    PROVE  expires - (a + 1) * OneDay <= now /\ now < expires - (a - 1) * OneDay
  <1> DEFINE n == OneDay
             x == now - expires
             q == x \div n
             r == x % n
  <1>1. n \in Nat \ {0} /\ x \in Int
    BY DayIsPositive
  <1>2. q \in Int /\ r \in 0 .. n - 1 /\ x = n * q + r
    <2> HIDE DEF n, x
    <2> QED
      BY <1>1, DivisionOfInt
  <1>3. - q \in a .. a + 1
    BY DEF RemainingDays
  <1> HIDE DEF n, q, r
  <1>4. q = - a \/ q = - (a + 1)
    BY <1>2, <1>3
  <1>5. /\ (a + 1) * n \in Int /\ (a - 1) * n \in Int /\ n * q \in Int
        /\ q = - a => n * q = - ((a + 1) * n) + n /\ n * q + n = - ((a - 1) * n)
        /\ q = - (a + 1) => n * q = - ((a + 1) * n) /\ n * q + n + n = - ((a - 1) * n)
    BY <1>1, <1>2
  <1>6. x >= - ((a + 1) * n) /\ x < - ((a - 1) * n)
    <2> HIDE DEF x
    <2> QED
      BY <1>1, <1>2, <1>4, <1>5
  <1>7. expires - (a + 1) * n <= now /\ now < expires - (a - 1) * n
    BY <1>5, <1>6
  <1> QED
    BY <1>7 DEF n

LEMMA DueByDays ==
    ASSUME NEW expires \in Nat, NEW now \in Nat, NEW days \in Nat,
           now >= expires - days * OneDay
    PROVE  RemainingDays(expires, now) <= days
  <1> DEFINE n == OneDay
             x == now - expires
             q == x \div n
             r == x % n
  <1>1. n \in Nat \ {0} /\ x \in Int
    BY DayIsPositive
  <1>2. q \in Int /\ r \in 0 .. n - 1 /\ x = n * q + r
    <2> HIDE DEF n, x
    <2> QED
      BY <1>1, DivisionOfInt
  <1>3. RemainingDays(expires, now) = - q
    BY DEF RemainingDays
  <1>4. x >= n * (- days)
    <2>1. days * n \in Int /\ now >= expires - days * n /\ n * (- days) = - (days * n)
      BY <1>1
    <2> HIDE DEF n
    <2> QED
      BY <2>1
  <1> HIDE DEF n, x, q, r
  <1>5. ASSUME q < - days
        PROVE  FALSE
    <2>1. n * q + n <= n * (- days)
      <3>1. - days \in Int
        OBVIOUS
      <3> QED
        BY <1>1, <1>2, <1>5, <3>1, LessByOne
    <2>2. n * q \in Int /\ n * (- days) \in Int
      BY <1>1, <1>2
    <2> QED
      BY <1>1, <1>2, <1>4, <2>1, <2>2
  <1> QED
    BY <1>2, <1>3, <1>5

IsOpen(n, time) ==
    Alive(n[1]) /\ Opens(n[1], n[2]) <= time /\ time < Shuts(n[1], n[2])

(* What is still to do was due when it was chosen, and is unless it has changed. *)
Chosen ==
    /\ loop.pc = "renew" =>
        \A c \in loop.todo : steady[c] >= loop.now \/ ShouldAutoRenew(rows[c], loop.now)
    /\ loop.pc = "notify" =>
        \A n \in loop.news : steady[n[1]] >= loop.now \/ IsOpen(n, loop.now)

LEMMA DueIsOpen ==
    ASSUME TypeOK, NEW now \in Nat, NEW n \in DueNews(now)
    PROVE  n \in News /\ IsOpen(n, now)
  <1>1. /\ n \in News /\ Alive(n[1])
        /\ RemainingDays(rows[n[1]].expires, now) \in Windows[n[2]]
    BY DEF DueNews, Alive
  <1>2. rows[n[1]].expires \in Nat
    BY <1>1, WindowTyped
  <1>3. PICK a \in Int : /\ Windows[n[2]] = a .. a + 1
                         /\ Lowest(Windows[n[2]]) = a /\ Highest(Windows[n[2]]) = a + 1
    BY <1>1, NewsParts, WindowBounds
  <1>4. /\ rows[n[1]].expires - (a + 1) * OneDay <= now
        /\ now < rows[n[1]].expires - (a - 1) * OneDay
    BY <1>1, <1>2, <1>3, OnlyInWindow
  <1> QED
    BY <1>1, <1>3, <1>4 DEF IsOpen, Opens, Shuts

LEMMA ChosenKept ==
    ASSUME TypeOK, Timed, Chosen, Next
    PROVE  Chosen'
  <1>1. /\ clock \in Nat /\ loop.now \in Nat /\ loop.now <= clock
        /\ loop.todo \subseteq Certs /\ loop.news \subseteq News
    BY LoopParts DEF TypeOK, Timed
  <1>2. ASSUME NEW c \in Certs, loop'.now = loop.now,
               steady[c] >= loop.now \/ ShouldAutoRenew(rows[c], loop.now)
        PROVE  steady'[c] >= loop'.now \/ ShouldAutoRenew(rows'[c], loop'.now)
    <2>1. steady'[c] = clock \/ (rows'[c] = rows[c] /\ steady'[c] = steady[c])
      BY RowsMove
    <2> QED
      BY <1>1, <1>2, <2>1
  <1>3. ASSUME NEW n \in News, loop'.now = loop.now,
               steady[n[1]] >= loop.now \/ IsOpen(n, loop.now)
        PROVE  steady'[n[1]] >= loop'.now \/ IsOpen(n, loop.now)'
    <2>1. \/ steady'[n[1]] = clock
          \/ rows'[n[1]] = rows[n[1]] /\ steady'[n[1]] = steady[n[1]]
      BY RowsMove, NewsParts
    <2>2. CASE steady'[n[1]] = clock
      BY <1>1, <1>3, <2>2
    <2>3. CASE rows'[n[1]] = rows[n[1]] /\ steady'[n[1]] = steady[n[1]]
      BY <1>3, <2>3 DEF IsOpen, Alive, Opens, Shuts
    <2> QED
      BY <2>1, <2>2, <2>3
  <1>4. CASE UNCHANGED loop
    <2>1. loop'.pc = "renew" =>
            \A c \in loop'.todo : steady'[c] >= loop'.now \/ ShouldAutoRenew(rows'[c], loop'.now)
      BY <1>1, <1>2, <1>4 DEF Chosen
    <2>2. loop'.pc = "notify" =>
            \A n \in loop'.news : steady'[n[1]] >= loop'.now \/ IsOpen(n, loop.now)'
      BY <1>1, <1>3, <1>4 DEF Chosen
    <2> QED
      BY <2>1, <2>2 DEF Chosen
  <1>5. CASE Start \/ Sleep \/ Fire \/ Leave \/ QueryFails \/ RenewalsDone \/ RunEnds
    <2>1. loop'.pc \notin {"renew", "notify"}
      BY <1>5, LoopFields
    <2> QED
      BY <2>1 DEF Chosen
  <1>6. CASE ListDue
    <2>1. /\ loop'.pc = "renew" /\ loop'.now = loop.now /\ UNCHANGED rows
          /\ loop'.todo = {c \in Certs : ShouldAutoRenew(rows[c], loop.now)}
      BY <1>6, LoopFields DEF ListDue
    <2>2. \A c \in loop'.todo : ShouldAutoRenew(rows'[c], loop'.now)
      BY <2>1
    <2> QED
      BY <2>1, <2>2 DEF Chosen
  <1>7. ASSUME NEW c \in Certs, NEW well \in BOOLEAN, Renews(c, well)
        PROVE  Chosen'
    <2>1. /\ loop.pc = "renew" /\ loop'.pc = "renew" /\ loop'.now = loop.now
          /\ loop'.todo \subseteq loop.todo
      BY <1>7, LoopFields DEF Renews
    <2>2. \A d \in loop'.todo : steady'[d] >= loop'.now \/ ShouldAutoRenew(rows'[d], loop'.now)
      BY <1>1, <1>2, <2>1 DEF Chosen
    <2> QED
      BY <2>1, <2>2 DEF Chosen
  <1>8. CASE ListNews
    <2>1. /\ loop'.pc = "notify" /\ loop'.now = loop.now /\ UNCHANGED rows
          /\ loop'.news = DueNews(loop.now)
      BY <1>8, LoopFields DEF ListNews
    <2>2. \A n \in loop'.news : IsOpen(n, loop.now)
      BY <1>1, <2>1, DueIsOpen
    <2>3. \A n \in loop'.news : IsOpen(n, loop.now)'
      BY <2>1, <2>2 DEF IsOpen, Alive, Opens, Shuts
    <2> QED
      BY <2>1, <2>3 DEF Chosen
  <1>9. ASSUME NEW m \in News, Notify(m)
        PROVE  Chosen'
    <2>1. /\ loop.pc = "notify" /\ loop'.pc = "notify" /\ loop'.now = loop.now
          /\ loop'.news \subseteq loop.news
      BY <1>9, LoopFields DEF Notify
    <2>2. \A n \in loop'.news : steady'[n[1]] >= loop'.now \/ IsOpen(n, loop.now)'
      BY <1>1, <1>3, <2>1 DEF Chosen
    <2> QED
      BY <2>1, <2>2 DEF Chosen
  <1> QED
    BY <1>4, <1>5, <1>6, <1>7, <1>8, <1>9, LoopOrNot

LEMMA EveryDayStays ==
    ASSUME TypeOK, Next
    PROVE  EveryDay' <=> EveryDay
  BY ControlTyped DEF EveryDay

-----------------------------------------------------------------------------
(* The invariant and what follows from it *)

(* For the windows to be noticed the timer and the run before may together be
   late by less than a day. *)
TimeInv ==
    /\ Timed /\ Dated /\ Attempts /\ Chosen
    /\ EveryDay /\ 2 * Late < OneDay => Notices

LEMMA Initially ==
    ASSUME Init
    PROVE  IInv
  <1>1. /\ rows \in [Certs -> Row] /\ Accepted(expression)
    BY StartsAssumption DEF Init
  <1>2. loop \in Loop /\ loop.pc = "off"
    BY DEF Init, Loop
  <1>3. TypeOK
    BY <1>1, <1>2 DEF Init, TypeOK
  <1> QED
    BY <1>2, <1>3 DEF Init, IInv, Channels, Slept

LEMMA Invariance == Spec => []IInv
  <1>1. ASSUME IInv, [Next]_vars
        PROVE  IInv'
    <2>1. CASE Next
      BY <1>1, <2>1, TypesKept, ChannelsKept, SleptKept DEF IInv
    <2>2. CASE UNCHANGED vars
      BY <1>1, <2>2 DEF vars, control, IInv, TypeOK, Channels, Slept
    <2> QED
      BY <1>1, <2>1, <2>2
  <1> QED
    BY <1>1, Initially, PTL DEF Spec

LEMMA TimeInvariance == Spec => []TimeInv
  <1>1. ASSUME Init
        PROVE  TimeInv
    <2>1. loop.pc = "off" /\ loop.now = 0 /\ clock = 0 /\ \A c \in Certs : steady[c] = 0 /\ tried[c] = 0
      BY <1>1 DEF Init
    <2>2. Timed
      BY <2>1, LimitsAssumption DEF Timed, Running
    <2>3. Dated
      BY <1>1, StartsAssumption DEF Init, Dated
    <2>4. Attempts /\ Notices /\ Chosen
      BY <2>1 DEF Attempts, Notices, Chosen
    <2> QED
      BY <2>2, <2>3, <2>4 DEF TimeInv
  <1>2. ASSUME IInv, TimeInv, [Next]_vars
        PROVE  TimeInv'
    <2>1. CASE Next
      <3>1. TypeOK /\ Slept
        BY <1>2 DEF IInv
      <3>2. Timed' /\ Dated' /\ Attempts' /\ Chosen'
        BY <1>2, <2>1, <3>1, TimedKept, DatedKept, AttemptsKept, ChosenKept DEF TimeInv
      <3>3. ASSUME EveryDay, 2 * Late < OneDay
            PROVE  Notices'
        BY <1>2, <2>1, <3>1, <3>3, NoticesKept DEF TimeInv
      <3>4. EveryDay' <=> EveryDay
        BY <2>1, <3>1, EveryDayStays
      <3> QED
        BY <3>2, <3>3, <3>4 DEF TimeInv
    <2>2. CASE UNCHANGED vars
      BY <1>2, <2>2 DEF vars, control, TimeInv, Timed, Dated, Attempts, Attempted, Notices,
         Noticed, Alive, Told, Opens, Shuts, ShouldAutoRenew, EveryDay, Chosen, IsOpen
    <2> QED
      BY <1>2, <2>1, <2>2
  <1> QED
    BY <1>1, <1>2, Invariance, PTL DEF Spec

(* Every variable keeps its type: among the rest, Next always returns a minute
   that is a time, and the channels count their closings. *)
THEOREM TypeCorrect == Spec => []TypeOK
  <1>1. IInv => TypeOK
    BY DEF IInv
  <1> QED
    BY <1>1, Invariance, PTL

(* Stop closes stopCh once, and doneCh is closed once, by the loop or by a Stop
   that comes before Start: whoever calls, in whichever order. *)
THEOREM ChannelsClosedOnce == Spec => []ClosedOnce
  <1>1. IInv => ClosedOnce
    BY DEF IInv, Channels, ClosedOnce
  <1> QED
    BY <1>1, Invariance, PTL

(* After the first Stop has returned the loop is not running, and Start does not
   bring it back. *)
THEOREM StopIsFinal == Spec => []StoppedMeansGone
  <1>1. IInv => StoppedMeansGone
    BY DEF IInv, Channels, StoppedMeansGone
  <1> QED
    BY <1>1, Invariance, PTL

(* The timer of the loop is set to the first minute that the expression asks for,
   in any calendar, for any expression the parser accepts. *)
THEOREM WakesAreAsked == Spec => []WakesAsAsked
  <1>1. ASSUME IInv
        PROVE  WakesAsAsked
    <2> SUFFICES ASSUME loop.pc = "select"
                 PROVE  /\ loop.wake > loop.now
                        /\ \A t \in loop.now + 1 .. loop.wake - 1 : ~ AskedFor(expression, t)
                        /\ \/ AskedFor(expression, loop.wake)
                           \/ loop.wake = loop.now + 1 + SearchMinutes
      BY DEF WakesAsAsked
    <2> DEFINE now == loop.now
               wake == loop.wake
               schedule == Parsed(expression)
    <2>1. Accepted(expression) /\ now \in Nat /\ wake = NextMinute(schedule, now)
      BY <1>1, LoopParts DEF IInv, TypeOK, Slept
    <2> HIDE DEF now, wake, schedule
    <2>2. /\ wake \in Nat /\ wake > now
          /\ \A t \in now + 1 .. wake - 1 : ~ Matches(schedule, t)
          /\ Matches(schedule, wake) \/ wake = now + 1 + SearchMinutes
      BY <2>1, NextIsFirst
    <2>3. \A t \in Nat : Matches(schedule, t) <=> AskedFor(expression, t)
      BY <2>1, MatchesAsAsked DEF schedule
    <2>4. now + 1 .. wake - 1 \subseteq Nat
      BY <2>1, <2>2
    <2>5. /\ wake > now
          /\ \A t \in now + 1 .. wake - 1 : ~ AskedFor(expression, t)
          /\ AskedFor(expression, wake) \/ wake = now + 1 + SearchMinutes
      BY <2>2, <2>3, <2>4
    <2> QED
      BY <2>5 DEF now, wake
  <1> QED
    BY <1>1, Invariance, PTL

(* With a run every day, a run that starts no later than it may finds each active
   certificate in its renewal period and tries it: a change of the row, a failed
   query and a start of the loop are the only excuses, and the next run follows
   within Between. *)
THEOREM DueIsTriedInTime == Spec => []TriedInTime
  <1>1. ASSUME IInv, TimeInv
        PROVE  TriedInTime
    <2> SUFFICES ASSUME loop.pc = "select", EveryDay, NEW c \in Certs,
                        rows[c].auto, rows[c].status = "active",
                        clock > steady[c] + Between,
                        clock > rows[c].expires - RenewBefore * OneDay + Between
                 PROVE  tried[c] >= clock - Between
      BY DEF TriedInTime
    <2>1. TypeOK /\ Slept /\ Timed /\ Dated /\ Attempts
      BY <1>1 DEF IInv, TimeInv
    <2>2. /\ clock \in Nat /\ loop.now \in Nat /\ loop.wake \in Nat /\ Late \in Nat
          /\ OneDay \in Nat /\ Between = OneDay + 2 * Late /\ RenewBefore \in Nat \ {0}
          /\ tried[c] \in Nat /\ steady[c] \in Nat /\ rows[c].expires \in Nat
      BY <2>1, LoopParts, LimitsAssumption, RowsAssumption, DayIsPositive DEF TypeOK, Row, Between
    <2>3. PICK time \in 0 .. loop.now :
            loop.now <= time + Late /\ \A d \in Certs : Attempted(d, time)
      BY <2>1 DEF Attempts
    <2>4. loop.wake <= loop.now + OneDay /\ clock <= loop.wake + Late
      BY <2>1, WakesWithinADay DEF Timed
    <2>5. clock <= time + Between /\ time \in Nat
      BY <2>2, <2>3, <2>4
    <2>6. RenewBefore * OneDay \in Nat
      BY <2>2
    <2>7. ~ (steady[c] >= time)
      BY <2>2, <2>5
    <2>8. time >= rows[c].expires - RenewBefore * OneDay
      <3> DEFINE ahead == RenewBefore * OneDay
      <3>1. ahead \in Nat /\ clock > rows[c].expires - ahead + Between
        BY <2>6
      <3> HIDE DEF ahead
      <3>2. time >= rows[c].expires - ahead
        BY <2>2, <2>5, <3>1
      <3> QED
        BY <3>2 DEF ahead
    <2>9. rows[c].expires # 0 /\ RenewBefore > 0
      BY <2>1, <2>2 DEF Dated
    <2>10. ShouldAutoRenew(rows[c], time)
      BY <2>8, <2>9 DEF ShouldAutoRenew
    <2>11. tried[c] >= time
      BY <2>3, <2>7, <2>10 DEF Attempted
    <2> QED
      BY <2>2, <2>5, <2>11
  <1> QED
    BY <1>1, Invariance, TimeInvariance, PTL

(* With a run every day, and a timer and a run that are late by less than half a
   day each, none of the windows of two days falls between two runs: a certificate
   that goes through one unchanged is notified of, on a day of the window. *)
THEOREM WindowsAreNoticed ==
    ASSUME 2 * Late < OneDay
    PROVE  Spec => []WindowNoticed
  <1>1. ASSUME IInv, TimeInv
        PROVE  WindowNoticed
    <2> SUFFICES ASSUME loop.pc = "select", EveryDay, NEW c \in Certs, NEW e \in Events,
                        rows[c].status # "deleted", rows[c].expires # 0,
                        steady[c] <= Opens(c, e), Shuts(c, e) <= clock
                 PROVE  Told(c, e)
      BY DEF WindowNoticed
    <2> DEFINE n == <<c, e>>
    <2>1. n \in News /\ n[1] = c /\ n[2] = e
      BY DEF News
    <2> HIDE DEF n
    <2>2. TypeOK /\ Slept /\ Timed /\ Notices
      BY <1>1 DEF IInv, TimeInv
    <2>3. /\ clock \in Nat /\ loop.now \in Nat /\ loop.wake \in Nat /\ Late \in Nat
          /\ OneDay \in Nat /\ Between = OneDay + 2 * Late
      BY <2>2, LoopParts, LimitsAssumption, DayIsPositive DEF TypeOK, Between
    <2>4. PICK time \in 0 .. loop.now :
            loop.now <= time + Late /\ \A m \in News : Noticed(m, time)
      BY <2>2 DEF Notices
    <2>5. loop.wake <= loop.now + OneDay /\ clock <= loop.wake + Late
      BY <2>2, WakesWithinADay DEF Timed
    <2>6. Opens(c, e) \in Int /\ Shuts(c, e) = Opens(c, e) + 2 * OneDay
      BY <2>1, <2>2, WindowTyped
    <2>7. Opens(c, e) < time
      BY <2>3, <2>4, <2>5, <2>6
    <2>8. Noticed(n, time)
      BY <2>1, <2>4
    <2> QED
      BY <2>1, <2>7, <2>8 DEF Noticed, Alive
  <1> QED
    BY <1>1, Invariance, TimeInvariance, PTL

(* What the documents say of every certificate holds of those that are active: at
   the end of the renewals of a run each one that had no more than renew_before_days
   left, unchanged since the run began, has been tried by this run, whatever became
   of the others. *)
ActiveIsTried ==
    loop.pc = "again" =>
        \A c \in Certs :
            /\ rows[c].status = "active" /\ rows[c].auto
            /\ rows[c].expires - RenewBefore * OneDay <= loop.now
            /\ steady[c] < loop.now
            => tried[c] = loop.now

THEOREM EveryRunTriesTheActive == Spec => []ActiveIsTried
  <1>1. ASSUME IInv, TimeInv
        PROVE  ActiveIsTried
    <2> SUFFICES ASSUME loop.pc = "again", NEW c \in Certs, rows[c].status = "active", rows[c].auto,
                        rows[c].expires - RenewBefore * OneDay <= loop.now, steady[c] < loop.now
                 PROVE  tried[c] = loop.now
      BY DEF ActiveIsTried
    <2>1. Attempted(c, loop.now) /\ rows[c].expires # 0 /\ RenewBefore > 0
      BY <1>1, RowsAssumption DEF TimeInv, Attempts, Dated
    <2>2. loop.now \in Nat /\ steady[c] \in Nat /\ rows[c].expires \in Nat /\ RenewBefore * OneDay \in Nat
      BY <1>1, LoopParts, RowsAssumption, DayIsPositive DEF IInv, TypeOK, Row
    <2>3. ShouldAutoRenew(rows[c], loop.now)
      <3> DEFINE ahead == RenewBefore * OneDay
      <3>1. ahead \in Nat /\ rows[c].expires - ahead <= loop.now
        BY <2>2
      <3> HIDE DEF ahead
      <3>2. loop.now >= rows[c].expires - ahead
        BY <2>2, <3>1
      <3> QED
        BY <2>1, <3>2 DEF ahead, ShouldAutoRenew
    <2>4. ~ (steady[c] >= loop.now)
      BY <2>2
    <2>5. tried[c] \in Nat /\ tried[c] <= loop.now
      BY <1>1 DEF IInv, TypeOK, TimeInv, Timed
    <2> QED
      BY <2>1, <2>2, <2>3, <2>4, <2>5 DEF Attempted
  <1> QED
    BY <1>1, Invariance, TimeInvariance, PTL

(* The loop renews what was due when it listed it, unless it has changed since: the
   days that notifications count, rounded up, are never more than renew_before_days. *)
THEOREM RenewalsAreDue == Spec => RenewsOnlyDue
  <1>1. ASSUME IInv, TimeInv, Next, NEW c \in Certs, tried'[c] # tried[c], steady[c] < loop.now
        PROVE  /\ rows[c].auto /\ rows[c].status = "active" /\ rows[c].expires # 0
               /\ RemainingDays(rows[c].expires, clock) <= RenewBefore
    <2>1. /\ clock \in Nat /\ loop.now \in Nat /\ loop.now <= clock /\ steady[c] \in Nat
          /\ rows[c].expires \in Nat /\ RenewBefore \in Nat
      BY <1>1, LoopParts, RowsAssumption DEF IInv, TypeOK, Row, TimeInv, Timed
    <2>2. PICK d \in Certs, well \in BOOLEAN : Renews(d, well)
      BY <1>1, HistoryGrows
    <2>3. c \in loop.todo /\ loop.pc = "renew"
      BY <1>1, <2>2 DEF Renews, IInv, TypeOK
    <2>4. ShouldAutoRenew(rows[c], loop.now)
      <3>1. steady[c] >= loop.now \/ ShouldAutoRenew(rows[c], loop.now)
        BY <1>1, <2>3 DEF TimeInv, Chosen
      <3> QED
        BY <1>1, <2>1, <3>1
    <2>5. clock >= rows[c].expires - RenewBefore * OneDay
      <3> DEFINE ahead == RenewBefore * OneDay
      <3>1. ahead \in Nat /\ loop.now >= rows[c].expires - ahead
        BY <2>1, <2>4, DayIsPositive DEF ShouldAutoRenew
      <3> HIDE DEF ahead
      <3>2. clock >= rows[c].expires - ahead
        BY <2>1, <3>1
      <3> QED
        BY <3>2 DEF ahead
    <2> QED
      BY <2>1, <2>4, <2>5, DueByDays DEF ShouldAutoRenew
  <1>2. ASSUME IInv, TimeInv, [Next]_vars
        PROVE  [\A c \in Certs :
                  tried'[c] # tried[c] /\ steady[c] < loop.now =>
                    /\ rows[c].auto /\ rows[c].status = "active" /\ rows[c].expires # 0
                    /\ RemainingDays(rows[c].expires, clock) <= RenewBefore]_vars
    BY <1>1, <1>2
  <1> QED
    BY <1>2, Invariance, TimeInvariance, PTL DEF Spec, RenewsOnlyDue

(* A notification goes out no earlier than its window opens and, as the rows are
   listed again but the time is not read again, at most as long after it as a run
   may take. *)
THEOREM NewsAreDue == Spec => NotifiesOnlyDue
  <1>1. ASSUME IInv, TimeInv, Next, NEW n \in News, \E k \in notified' \ notified : k[1] = n,
               steady[n[1]] < loop.now
        PROVE  /\ rows[n[1]].status # "deleted" /\ rows[n[1]].expires # 0
               /\ Opens(n[1], n[2]) <= clock /\ clock < Shuts(n[1], n[2]) + Late
    <2>1. /\ clock \in Nat /\ loop.now \in Nat /\ loop.now <= clock /\ steady[n[1]] \in Nat
          /\ Late \in Nat /\ OneDay \in Nat /\ Opens(n[1], n[2]) \in Int
          /\ Shuts(n[1], n[2]) = Opens(n[1], n[2]) + 2 * OneDay
      BY <1>1, LoopParts, LimitsAssumption, DayIsPositive, WindowTyped DEF IInv, TypeOK, TimeInv,
         Timed
    <2>2. PICK m \in News : Notify(m)
      BY <1>1 DEF Next, LoopStep, Start, Cancel, Tick, Stop, StopAgain, StopEnds, Sleep, Fire,
         Leave, ListDue, QueryFails, RenewalsDone, ListNews, RunEnds, RenewSucceeds, RenewFails,
         RenewRefused, Renews, Edit
    <2>3. n = m /\ n \in loop.news /\ loop.pc = "notify"
      BY <1>1, <2>2 DEF Notify, Key
    <2>4. IsOpen(n, loop.now)
      <3>1. steady[n[1]] >= loop.now \/ IsOpen(n, loop.now)
        BY <1>1, <2>3 DEF TimeInv, Chosen
      <3> QED
        BY <1>1, <2>1, <3>1
    <2>5. clock <= loop.now + Late
      BY <1>1, <2>3 DEF TimeInv, Timed, Running
    <2> QED
      BY <2>1, <2>4, <2>5 DEF IsOpen, Alive
  <1>2. ASSUME IInv, TimeInv, [Next]_vars
        PROVE  [\A n \in News :
                  /\ \E k \in notified' \ notified : k[1] = n
                  /\ steady[n[1]] < loop.now
                  => /\ rows[n[1]].status # "deleted" /\ rows[n[1]].expires # 0
                     /\ Opens(n[1], n[2]) <= clock /\ clock < Shuts(n[1], n[2]) + Late]_vars
    BY <1>1, <1>2
  <1> QED
    BY <1>2, Invariance, TimeInvariance, PTL DEF Spec, NotifiesOnlyDue

=============================================================================
