------------------------------- MODULE Scheduler -------------------------------
(***************************************************************************)
(* The renewal scheduler: internal/usecase/scheduler.go over the rows of   *)
(* the certificates, with the expiry notifications of notification.go.     *)
(*                                                                         *)
(* Start, Stop and the cancellation of the context come from other         *)
(* goroutines; the loop sleeps until the next minute of the schedule and   *)
(* then runs RunOnce.  One action is one critical section, one channel     *)
(* operation, one query, one renewal or one notification.  A renewal is    *)
(* one step here, by what it does to the row; module ACME has its calls.   *)
(***************************************************************************)
EXTENDS Cron, FiniteSets

CONSTANTS
    Certs,        \* certificate ids, numbers: List gives the latest first
    Stoppers,     \* goroutines that call Stop, once each
    Starts,       \* what a process may start with: rows and AUTO_RENEW_CRON
    RenewBefore,  \* renew_before_days
    Lifetime,     \* of a new certificate
    Late,         \* minutes by which a timer or a run may be late
    MaxUpsets,    \* bound: queries that fail, and commands of the user
    StopBy,       \* bound: Stop and Cancel come no later
    MaxTime       \* bound: the clock stops there

ASSUME CertsAssumption  == Certs \subseteq Nat
ASSUME RowsAssumption   == {RenewBefore, Lifetime} \subseteq Nat \ {0}
ASSUME LimitsAssumption == {Late, MaxUpsets, StopBy, MaxTime} \subseteq Nat

VARIABLES
    clock,
    rows,        \* certificates table, as far as the scheduler reads it
    expression,  \* AUTO_RENEW_CRON
    started, stopped,
    closed,      \* how often stopCh and doneCh have been closed
    cancelled,   \* the context of Start
    stopper,     \* where each caller of Stop is
    loop,        \* the goroutine of the loop, with its local variables
    notified,    \* certificate, event and day of the notifications sent
    upsets,      \* queries that have failed, commands of the user
    tried,       \* history: the run that last renewed, or tried to
    steady       \* history: since when nothing has changed for a certificate

control == <<started, stopped, closed, cancelled, stopper>>
vars == <<clock, rows, expression, control, loop, notified, upsets, tried, steady>>

-----------------------------------------------------------------------------
Row == [status  : {"pending", "active", "failed", "deleted"},
        auto    : BOOLEAN,     \* auto_renew
        expires : Nat]         \* expires_at, set with the paths; 0 for NULL

(* MarkIssued sets the status active together with expires_at. *)
ASSUME StartsAssumption ==
    \A s \in Starts : /\ s.rows \in [Certs -> Row]
                      /\ \A c \in Certs : s.rows[c].status = "active" => s.rows[c].expires # 0

(* Days left, rounded up, and the windows of two days. *)
Windows == [in14Days |-> 13 .. 14, in7Days |-> 6 .. 7, in3Days |-> 2 .. 3,
            expired |-> (-1) .. 0]
Events  == DOMAIN Windows

RemainingDays(expires, now) == - ((now - expires) \div OneDay)

News == Certs \X Events

\* variant: a window is one day
DueNewsOneDay(now) ==
    {n \in News : /\ rows[n[1]].status # "deleted" /\ rows[n[1]].expires # 0
                  /\ RemainingDays(rows[n[1]].expires, now) = Highest(Windows[n[2]])}

\* variant: takes a date that is not set for one that has passed
DueNewsOfAll(now) ==
    {n \in News : /\ rows[n[1]].status # "deleted"
                  /\ RemainingDays(rows[n[1]].expires, now) \in Windows[n[2]]}

(* certificateExpiryNotification, for every row there is. *)
DueNews(now) ==
    {n \in News : /\ rows[n[1]].status # "deleted" /\ rows[n[1]].expires # 0
                  /\ RemainingDays(rows[n[1]].expires, now) \in Windows[n[2]]}

\* variant: a day before the deadline
RenewsADayEarly(r, now) ==
    /\ r.auto /\ r.expires # 0 /\ RenewBefore > 0
    /\ r.status = "active"
    /\ now >= r.expires - (RenewBefore + 1) * OneDay

(* Nothing sets the status to warning or expired. *)
ShouldAutoRenew(r, now) ==
    /\ r.auto /\ r.expires # 0 /\ RenewBefore > 0
    /\ r.status = "active"
    /\ now >= r.expires - RenewBefore * OneDay

Today(now) == now \div OneDay

Running == {"list", "renew", "again", "notify"}

Loop == [pc   : {"off", "top", "select", "gone"} \cup Running,
         now  : Nat,             \* the time it read last
         wake : Nat,             \* when its timer fires
         todo : SUBSET Certs,    \* certificates still to renew
         news : SUBSET News]     \* notifications still to send

TypeOK ==
    /\ clock \in Nat
    /\ rows \in [Certs -> Row]
    /\ Accepted(expression)
    /\ started \in BOOLEAN /\ stopped \in BOOLEAN /\ cancelled \in BOOLEAN
    /\ closed \in [{"stop", "done"} -> Nat]
    /\ stopper \in [Stoppers -> {"out", "waiting", "stopped", "returned"}]
    /\ loop \in Loop
    /\ notified \in SUBSET (News \X Nat)
    /\ upsets \in Nat
    /\ tried \in [Certs -> Nat]
    /\ steady \in [Certs -> Nat]

(* NewRenewalScheduler refuses an expression it cannot parse. *)
Init ==
    /\ clock = 0
    /\ \E s \in Starts :
        /\ Accepted(s.expression)
        /\ rows = s.rows
        /\ expression = s.expression
    /\ started = FALSE /\ stopped = FALSE /\ cancelled = FALSE
    /\ closed = [c \in {"stop", "done"} |-> 0]
    /\ stopper = [s \in Stoppers |-> "out"]
    /\ loop = [pc |-> "off", now |-> 0, wake |-> 0, todo |-> {}, news |-> {}]
    /\ notified = {}
    /\ upsets = 0
    /\ tried = [c \in Certs |-> 0]
    /\ steady = [c \in Certs |-> 0]

-----------------------------------------------------------------------------
(* Start, Stop and the end of the context *)

\* variant: does not look whether it was stopped
MayStartStopped == ~ started

MayStart == ~ started /\ ~ stopped

Start ==
    /\ MayStart
    /\ started' = TRUE
    /\ loop' = [loop EXCEPT !.pc = "top", !.now = clock]
    /\ steady' = [c \in Certs |-> clock]
    /\ UNCHANGED <<clock, rows, expression, stopped, closed, cancelled, stopper, notified,
                   upsets, tried>>

\* variant: does not leave doneCh to the loop
ClosesAlways == 1

ClosesDone == IF started THEN 0 ELSE 1

Stop(s) ==
    /\ clock <= StopBy
    /\ stopper[s] = "out"
    /\ ~ stopped
    /\ stopped' = TRUE
    /\ closed' = [closed EXCEPT !["stop"] = @ + 1, !["done"] = @ + ClosesDone]
    /\ stopper' = [stopper EXCEPT ![s] = IF started THEN "waiting" ELSE "stopped"]
    /\ UNCHANGED <<clock, rows, expression, started, cancelled, loop, notified, upsets, tried, steady>>

(* A second call returns at once, without waiting for the loop. *)
StopAgain(s) ==
    /\ stopper[s] = "out"
    /\ stopped
    /\ stopper' = [stopper EXCEPT ![s] = "returned"]
    /\ UNCHANGED <<clock, rows, expression, started, stopped, closed, cancelled, loop,
                   notified, upsets, tried, steady>>

StopEnds(s) ==
    /\ stopper[s] = "waiting"
    /\ closed["done"] > 0
    /\ stopper' = [stopper EXCEPT ![s] = "stopped"]
    /\ UNCHANGED <<clock, rows, expression, started, stopped, closed, cancelled, loop,
                   notified, upsets, tried, steady>>

Cancel ==
    /\ clock <= StopBy
    /\ ~ cancelled
    /\ cancelled' = TRUE
    /\ UNCHANGED <<clock, rows, expression, started, stopped, closed, stopper, loop,
                   notified, upsets, tried, steady>>

-----------------------------------------------------------------------------
(* The loop *)

Sleep ==
    /\ loop.pc = "top"
    /\ loop' = [loop EXCEPT !.pc = "select", !.now = clock,
                            !.wake = NextMinute(Parsed(expression), clock)]
    /\ UNCHANGED <<clock, rows, expression, control, notified, upsets, tried,
                   steady>>

(* select: a timer that has fired may win over a stop. *)
Fire ==
    /\ loop.pc = "select"
    /\ clock >= loop.wake
    /\ loop' = [loop EXCEPT !.pc = "list", !.now = clock]
    /\ UNCHANGED <<clock, rows, expression, control, notified, upsets, tried,
                   steady>>

\* variant: listens to its context only
LeavesByContext == cancelled

MayLeave == cancelled \/ closed["stop"] > 0

Leave ==
    /\ loop.pc = "select"
    /\ MayLeave
    /\ loop' = [loop EXCEPT !.pc = "gone"]
    /\ closed' = [closed EXCEPT !["done"] = @ + 1]
    /\ UNCHANGED <<clock, rows, expression, started, stopped, cancelled, stopper, notified,
                   upsets, tried, steady>>

(* RunOnce: the certificates to renew are chosen from one list. *)
ListDue ==
    /\ loop.pc = "list"
    /\ ~ cancelled
    /\ loop' = [loop EXCEPT !.pc = "renew",
                            !.todo = {c \in Certs : ShouldAutoRenew(rows[c], loop.now)}]
    /\ UNCHANGED <<clock, rows, expression, control, notified, upsets, tried,
                   steady>>

(* A query fails by itself, or always once the context has ended. *)
QueryFails ==
    /\ loop.pc \in {"list", "again"}
    /\ \/ cancelled /\ UNCHANGED upsets
       \/ ~ cancelled /\ upsets < MaxUpsets /\ upsets' = upsets + 1
    /\ loop' = [loop EXCEPT !.pc = "top"]
    /\ steady' = [c \in Certs |-> clock]
    /\ UNCHANGED <<clock, rows, expression, control, notified, tried>>

\* variant: gives up at the first renewal that fails
TodoIfWell(c, well) == IF well THEN loop.todo \ {c} ELSE {}

TodoAfter(c, well) == loop.todo \ {c}

(* RenewCertificate, for the first of those left: a new certificate, a failed
   attempt, or a refusal (the row is gone, a job runs, the cooldown, a call
   that fails) that leaves the row alone. *)
Renews(c, well) ==
    /\ loop.pc = "renew"
    /\ c \in loop.todo /\ \A d \in loop.todo : d <= c
    /\ loop' = [loop EXCEPT !.todo = TodoAfter(c, well)]
    /\ tried' = [tried EXCEPT ![c] = loop.now]
    /\ UNCHANGED <<clock, expression, control, notified, upsets>>

Renewed(r) == [r EXCEPT !.status = "active", !.expires = clock + Lifetime]

\* variant: leaves a certificate that ran out as expired
FailedAsExpired(r) == [r EXCEPT !.status = IF r.expires <= clock THEN "expired" ELSE "failed"]

Failed(r) == [r EXCEPT !.status = "failed"]

RenewSucceeds(c) ==
    /\ Renews(c, TRUE)
    /\ ~ cancelled /\ rows[c].status # "deleted"
    /\ rows' = [rows EXCEPT ![c] = Renewed(@)]
    /\ steady' = [steady EXCEPT ![c] = clock]

RenewFails(c) ==
    /\ Renews(c, FALSE)
    /\ ~ cancelled /\ rows[c].status # "deleted"
    /\ rows' = [rows EXCEPT ![c] = Failed(@)]
    /\ steady' = [steady EXCEPT ![c] = clock]

RenewRefused(c) ==
    /\ Renews(c, FALSE)
    /\ UNCHANGED <<rows, steady>>

RenewalsDone ==
    /\ loop.pc = "renew"
    /\ loop.todo = {}
    /\ loop' = [loop EXCEPT !.pc = "again"]
    /\ UNCHANGED <<clock, rows, expression, control, notified, upsets, tried,
                   steady>>

(* The rows are read again, the time is still that of the start of the run. *)
ListNews ==
    /\ loop.pc = "again"
    /\ ~ cancelled
    /\ loop' = [loop EXCEPT !.pc = "notify", !.news = DueNews(loop.now)]
    /\ UNCHANGED <<clock, rows, expression, control, notified, upsets, tried,
                   steady>>

Key(n, now) == <<n, Today(now)>>

(* Marked before it is sent; whether it arrives is not looked at. *)
Notify(n) ==
    /\ loop.pc = "notify"
    /\ n \in loop.news /\ \A m \in loop.news : m[1] <= n[1]
    /\ loop' = [loop EXCEPT !.news = @ \ {n}]
    /\ notified' = notified \cup {Key(n, loop.now)}
    /\ UNCHANGED <<clock, rows, expression, control, upsets, tried, steady>>

RunEnds ==
    /\ loop.pc = "notify"
    /\ loop.news = {}
    /\ loop' = [loop EXCEPT !.pc = "top"]
    /\ UNCHANGED <<clock, rows, expression, control, notified, upsets, tried,
                   steady>>

LoopStep ==
    \/ Sleep \/ Fire \/ Leave \/ ListDue \/ QueryFails \/ RenewalsDone \/ ListNews \/ RunEnds
    \/ \E c \in Certs : RenewSucceeds(c) \/ RenewFails(c) \/ RenewRefused(c)
    \/ \E n \in News : Notify(n)

-----------------------------------------------------------------------------
(* The user, by what the commands do to a row, and the time *)

Edited(r) ==
    {[r EXCEPT !.auto = ~ @],              \* an edit of the certificate
     [r EXCEPT !.status = "deleted"],
     Renewed(r), Failed(r)}                \* an issue or a renewal by hand

Edit(c) ==
    /\ loop.pc # "gone"       \* nothing reads the rows any more
    /\ upsets < MaxUpsets
    /\ rows[c].status # "deleted"
    /\ \E r \in Edited(rows[c]) : rows' = [rows EXCEPT ![c] = r]
    /\ upsets' = upsets + 1
    /\ steady' = [steady EXCEPT ![c] = clock]
    /\ UNCHANGED <<clock, expression, control, loop, notified, tried>>

(* A timer that is due, and a run, take no more than Late minutes. Bounds:
   the clock waits for Start, and ends with a stop. *)
Tick ==
    /\ clock < MaxTime
    /\ ~ stopped /\ ~ cancelled
    /\ \/ loop.pc = "select" /\ clock < loop.wake + Late
       \/ loop.pc \in Running \cup {"top"} /\ clock < loop.now + Late
    /\ clock' = clock + 1
    /\ UNCHANGED <<rows, expression, control, loop, notified, upsets, tried, steady>>

Next ==
    \/ Start \/ Cancel \/ Tick \/ LoopStep
    \/ \E s \in Stoppers : Stop(s) \/ StopAgain(s) \/ StopEnds(s)
    \/ \E c \in Certs : Edit(c)

(* The goroutine of the loop is scheduled, a renewal returns (module ACME), and
   select does not pass over a ready stop for ever: it chooses at random. *)
Fairness ==
    /\ WF_vars(LoopStep)
    /\ SF_vars(Leave)
    /\ \A s \in Stoppers : WF_vars(StopEnds(s))

Spec == Init /\ [][Next]_vars /\ Fairness

-----------------------------------------------------------------------------
(* Properties *)

(* No channel is closed twice, which would end the process: Stop before Start,
   Start after Stop, two calls of Stop and the loop's own close. *)
ClosedOnce == \A c \in {"stop", "done"} : closed[c] <= 1

(* When the first Stop has returned the loop has ended and never comes back:
   App.Close closes the database after it. *)
StoppedMeansGone ==
    (\E s \in Stoppers : stopper[s] = "stopped") => loop.pc \in {"off", "gone"}

(* The call of Stop that waits for the loop returns. *)
StopReturns == \A s \in Stoppers : stopper[s] = "waiting" ~> stopper[s] = "stopped"

(* What an expression asks for, segment by segment. *)
Asks(p, f, value) ==
    \/ p.kind = "every"
    \/ p.kind = "step" /\ \E k \in 0 .. Upto[f] : value = From[f] + k * p.n
    \/ p.kind = "at" /\ value = p.n

AskedFor(e, t) == \A f \in Fields : \E p \in e[f] : Asks(p, f, Date(t)[f])

(* The loop sleeps to the first minute that the expression asks for; only if
   none comes for as long as Next looks does it wake when nothing asked. *)
WakesAsAsked ==
    loop.pc = "select" =>
        /\ loop.wake > loop.now
        /\ \A t \in loop.now + 1 .. loop.wake - 1 : ~ AskedFor(expression, t)
        /\ AskedFor(expression, loop.wake) \/ loop.wake = loop.now + 1 + SearchMinutes

(* The expression asks for a run every day, and the longest that a loop goes
   between the starts of two such runs. *)
EveryDay == \A t \in 0 .. MaxTime : \E u \in t + 1 .. t + OneDay : AskedFor(expression, u)
Between  == OneDay + 2 * Late

(* The two days of a window, from its first minute to the first after it. *)
Opens(c, e) == rows[c].expires - Highest(Windows[e]) * OneDay
Shuts(c, e) == rows[c].expires - (Lowest(Windows[e]) - 1) * OneDay

Told(c, e) == \E day \in Today(Opens(c, e)) .. Today(Shuts(c, e) - 1) : <<<<c, e>>, day>> \in notified

(* With a run every day, a certificate that goes through a window unchanged is
   notified of in that window: no window falls between two runs. *)
WindowNoticed ==
    loop.pc = "select" /\ EveryDay =>
        \A c \in Certs, e \in Events :
            /\ rows[c].status # "deleted" /\ rows[c].expires # 0
            /\ steady[c] <= Opens(c, e) /\ Shuts(c, e) <= clock
            => Told(c, e)

(* With a run every day, an active certificate in its renewal period is tried
   by each run, whatever becomes of the others. *)
TriedInTime ==
    loop.pc = "select" /\ EveryDay =>
        \A c \in Certs :
            /\ rows[c].auto /\ rows[c].status = "active"
            /\ clock > steady[c] + Between
            /\ clock > rows[c].expires - RenewBefore * OneDay + Between
            => tried[c] >= clock - Between

(* The list of the start of a run is worked through while renewals take their time.
   Still, what is renewed is active, wants it and has no more than renew_before_days
   left on the clock, unless it has changed since the run began. *)
RenewsOnlyDue ==
    [][\A c \in Certs :
         tried'[c] # tried[c] /\ steady[c] < loop.now =>
            /\ rows[c].auto /\ rows[c].status = "active" /\ rows[c].expires # 0
            /\ RemainingDays(rows[c].expires, clock) <= RenewBefore]_vars

(* A notification is sent for a certificate that has an expiry, in its window, or
   after it by no more than the run is late. *)
NotifiesOnlyDue ==
    [][\A n \in News :
         /\ \E k \in notified' \ notified : k[1] = n
         /\ steady[n[1]] < loop.now
         => /\ rows[n[1]].status # "deleted" /\ rows[n[1]].expires # 0
            /\ Opens(n[1], n[2]) <= clock /\ clock < Shuts(n[1], n[2]) + Late]_vars

(* docs/ARCHITECTURE.md 213-215: the scheduler finds certificates with auto_renew
   and renews those with no more than renew_before_days left.  Not so for one
   whose last attempt has failed. *)
DueIsTried ==
    loop.pc = "again" =>
        \A c \in Certs :
            /\ rows[c].status # "deleted" /\ rows[c].auto /\ rows[c].expires # 0
            /\ RemainingDays(rows[c].expires, loop.now) <= RenewBefore
            /\ steady[c] < loop.now
            => tried[c] = loop.now

=============================================================================
