------------------------------ MODULE MCScheduler ------------------------------
(* Instances of Scheduler for TLC: days of four minutes, years of five days. *)
EXTENDS Scheduler

MCDays == << [month |-> 1, day |-> 1], [month |-> 1, day |-> 2], [month |-> 1, day |-> 3],
             [month |-> 2, day |-> 1], [month |-> 2, day |-> 2] >>

Anything == [f \in Fields |-> {Every}]

Daily    == [Anything EXCEPT !.minute = {At(0)}, !.hour = {At(1)}]
Twice    == [Anything EXCEPT !.minute = {At(1)}, !.hour = {Step(1)}]
SomeDays == [Anything EXCEPT !.minute = {Step(2)}, !.day = {Step(2)}, !.weekday = {At(0), At(2)}]
Never    == [Anything EXCEPT !.day = {At(3)}, !.month = {At(2)}]
Sunday7  == [Anything EXCEPT !.weekday = {At(WeekLength)}]
Empty    == [Anything EXCEPT !.hour = {At(0), Unreadable}]

Issued(days, minutes) ==
    [status |-> "active", auto |-> TRUE, expires |-> days * OneDay + minutes]

Kept(days, minutes) == [Issued(days, minutes) EXCEPT !.auto = FALSE]
Pending == [status |-> "pending", auto |-> TRUE, expires |-> 0]

With(e, r) == [expression |-> e, rows |-> r]

(* A window is about to open: of 14, of 7, of 3 days, of the expired. *)
MCStarts ==
    {With(Daily, <<Kept(14, 2), Pending>>), With(Daily, <<Kept(0, 2), Kept(7, 1)>>),
     With(Daily, <<Issued(3, 2), Issued(3, 2)>>), With(Twice, <<Pending, Kept(3, 1)>>),
     With(SomeDays, <<Pending, Pending>>)}
        \cup {With(e, <<Pending, Pending>>) : e \in {Never, Sunday7, Empty}}

MCDue == {With(Daily, <<Issued(2, 0)>>)}

=============================================================================
