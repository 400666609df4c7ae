------------------------------ MODULE KongTargets ------------------------------
(***************************************************************************)
(* The Kong targets: internal/usecase/kong_target.go over its repository,  *)
(* with the jobs of the connection tests.                                  *)
(*                                                                         *)
(* An edit reads the row, takes from it what the form does not have, and   *)
(* writes it; a test reads the row, asks Kong, and writes all of it back.  *)
(* Nothing keeps the two apart.  One action is one call to SQLite, or the  *)
(* request to Kong.                                                        *)
(*                                                                         *)
(* What a form holds besides the name and the header is the number of the  *)
(* edit; a header value is the number of the edit that brought it, 0 if it *)
(* is blank.                                                               *)
(***************************************************************************)
EXTENDS Integers, Sequences, FiniteSets

CONSTANTS
    Targets,   \* target ids
    Names,     \* of the targets: unique in the table
    Users,     \* goroutines that edit and test
    NoTarget,  \* kong_target_id is NULL
    MayBreak,  \* may a call to SQLite fail, or its caller's context end?
    MaxEdits,  \* bound: forms that are sent
    MaxTests   \* bound: tests that are begun

ASSUME NoTargetAssumption == NoTarget \notin Targets
ASSUME NamesAssumption    == Names # {}
ASSUME BreakAssumption    == MayBreak \in BOOLEAN
ASSUME EditsAssumption    == MaxEdits \in Nat /\ MaxTests \in Nat

VARIABLES
    targets,  \* kong_targets table
    tests,    \* jobs table, the rows of type test_kong
    user,     \* what each goroutine is doing, with its local variables
    edits,    \* forms that have been sent
    asked,    \* history: the row as it is if edits and tests take no time
    \* history: targets whose form fields, or whose status, were last written
    \* by someone who had read a row that was no longer there
    formInDoubt, statusInDoubt,
    refused   \* history: tests whose row could not be written

vars == <<targets, tests, user, edits, asked, formInDoubt, statusInDoubt, refused>>

-----------------------------------------------------------------------------
Auths  == {"none", "custom-header"}
Form   == [name : Names, auth : Auths, secret : Nat, edit : Nat]
Row    == [there : BOOLEAN, name : Names, auth : Auths, secret : Nat, edit : Nat,
           status : {"unknown", "online", "offline"}]
Test   == [target : Targets \cup {NoTarget}, status : {"running", "success", "failed"}]
User   == [pc     : {"idle", "edit", "test", "ask", "store", "complete"},
           target : Targets \cup {NoTarget},
           row    : Row,        \* the row to be written
           form   : Form,       \* what the user sent
           job    : Nat,
           ok     : BOOLEAN,    \* testErr = nil
           stale  : BOOLEAN]    \* history: the row has been written since

SomeName == CHOOSE n \in Names : TRUE
Absent   == [there |-> FALSE, name |-> SomeName, auth |-> "none", secret |-> 0, edit |-> 0,
             status |-> "unknown"]
NoForm   == [name |-> SomeName, auth |-> "none", secret |-> 0, edit |-> 0]
Idle     == [pc |-> "idle", target |-> NoTarget, row |-> Absent, form |-> NoForm, job |-> 0,
             ok |-> FALSE, stale |-> FALSE]

TypeOK ==
    /\ targets \in [Targets -> Row]
    /\ tests \in Seq(Test)
    /\ user \in [Users -> User]
    /\ edits \in Nat
    /\ asked \in [Targets -> Row]
    /\ formInDoubt \in SUBSET Targets /\ statusInDoubt \in SUBSET Targets
    /\ refused \in SUBSET Nat

Init ==
    /\ targets = [t \in Targets |-> Absent]
    /\ tests = << >>
    /\ user = [u \in Users |-> Idle]
    /\ edits = 0
    /\ asked = [t \in Targets |-> Absent]
    /\ formInDoubt = {} /\ statusInDoubt = {} /\ refused = {}

-----------------------------------------------------------------------------
(* validateKongTargetInput: the fields that the form may set.  Only a new target
   must bring a header value. *)
Forms(new) ==
    {f \in [name : Names, auth : Auths, secret : {0, edits + 1}, edit : {edits + 1}] :
        /\ f.auth = "none" => f.secret = 0
        /\ new /\ f.auth = "custom-header" => f.secret # 0}

\* variant: a form without a value takes the stored one away
FilledBlank(row, form) ==
    [row EXCEPT !.name = form.name, !.auth = form.auth, !.edit = form.edit,
                !.secret = form.secret]

\* variant: the status starts again, as for a new target
FilledAnew(row, form) ==
    [row EXCEPT !.name = form.name, !.auth = form.auth, !.edit = form.edit,
                !.secret = IF form.auth = "custom-header" /\ form.secret = 0 THEN row.secret
                           ELSE form.secret,
                !.status = "unknown"]

(* The status is kept, and the header value if the form has none. *)
Filled(row, form) ==
    [row EXCEPT !.name = form.name, !.auth = form.auth, !.edit = form.edit,
                !.secret = IF form.auth = "custom-header" /\ form.secret = 0 THEN row.secret
                           ELSE form.secret]

(* history: what a form means to the user. *)
Meant(row, form) ==
    [row EXCEPT !.name = form.name, !.auth = form.auth, !.edit = form.edit,
                !.secret = IF form.auth = "none" \/ form.secret # 0 THEN form.secret ELSE @]

\* variant: writes the status of the job
TestedAsJob(row, ok) == [row EXCEPT !.status = IF ok THEN "online" ELSE "failed"]

Tested(row, ok) == [row EXCEPT !.status = IF ok THEN "online" ELSE "offline"]

(* The unique index on the name. *)
NameTaken(t, name) == \E s \in Targets \ {t} : targets[s].there /\ targets[s].name = name

(* Whoever else has read the row of t holds an old one now. *)
Outdated(t, u) ==
    [v \in Users |-> IF v = u THEN Idle
                     ELSE IF user[v].target = t THEN [user[v] EXCEPT !.stale = TRUE] ELSE user[v]]

Return(u) == user' = [user EXCEPT ![u] = Idle]

(* Ids are not used twice: only a row that never was is created. *)
Create(t) ==
    /\ edits < MaxEdits
    /\ targets[t].edit = 0
    /\ \E f \in Forms(TRUE) :
        /\ ~ NameTaken(t, f.name)
        /\ targets' = [targets EXCEPT ![t] = Filled([Absent EXCEPT !.there = TRUE], f)]
        /\ asked' = [asked EXCEPT ![t] = Meant([Absent EXCEPT !.there = TRUE], f)]
    /\ edits' = edits + 1
    /\ UNCHANGED <<tests, user, formInDoubt, statusInDoubt, refused>>

(* ON DELETE SET NULL leaves the jobs without a target. *)
Delete(t) ==
    /\ targets[t].there
    /\ targets' = [targets EXCEPT ![t].there = FALSE]
    /\ tests' = [j \in DOMAIN tests |->
                   IF tests[j].target = t THEN [tests[j] EXCEPT !.target = NoTarget] ELSE tests[j]]
    /\ UNCHANGED <<user, edits, asked, formInDoubt, statusInDoubt, refused>>

BeginEdit(u, t) ==
    /\ user[u].pc = "idle"
    /\ edits < MaxEdits
    /\ targets[t].there
    /\ \E f \in Forms(FALSE) :
        user' = [user EXCEPT ![u] = [Idle EXCEPT !.pc = "edit", !.target = t, !.form = f,
                                                 !.row = Filled(targets[t], f)]]
    /\ edits' = edits + 1
    /\ UNCHANGED <<targets, tests, asked, formInDoubt, statusInDoubt, refused>>

Writable(u) ==
    targets[user[u].target].there /\ ~ NameTaken(user[u].target, user[u].row.name)

StoreEdit(u) ==
    LET t == user[u].target
        f == user[u].form IN
    /\ user[u].pc = "edit"
    /\ Writable(u)
    /\ targets' = [targets EXCEPT ![t] = user[u].row]
    /\ user' = Outdated(t, u)
    /\ asked' = [asked EXCEPT ![t] = Meant(@, f)]
    /\ formInDoubt' = IF f.auth = "none" \/ f.secret # 0 THEN formInDoubt \ {t}
                      ELSE IF user[u].stale THEN formInDoubt \cup {t} ELSE formInDoubt
    /\ statusInDoubt' = IF user[u].stale THEN statusInDoubt \cup {t} ELSE statusInDoubt
    /\ UNCHANGED <<tests, edits, refused>>

EditRefused(u) ==
    /\ user[u].pc = "edit"
    /\ ~ Writable(u)
    /\ Return(u)
    /\ UNCHANGED <<targets, tests, edits, asked, formInDoubt, statusInDoubt, refused>>

-----------------------------------------------------------------------------
(* TestConnection *)

Testing == {u \in Users : user[u].pc = "test"}

BeginTest(u, t) ==
    /\ user[u].pc = "idle"
    /\ Len(tests) + Cardinality(Testing) < MaxTests
    /\ targets[t].there
    /\ user' = [user EXCEPT ![u] = [Idle EXCEPT !.pc = "test", !.target = t, !.row = targets[t]]]
    /\ UNCHANGED <<targets, tests, edits, asked, formInDoubt, statusInDoubt, refused>>

(* The foreign key: no job for a target that is gone. *)
CreateJob(u) ==
    /\ user[u].pc = "test"
    /\ IF targets[user[u].target].there
       THEN /\ tests' = Append(tests, [target |-> user[u].target, status |-> "running"])
            /\ user' = [user EXCEPT ![u] = [@ EXCEPT !.pc = "ask", !.job = Len(tests) + 1]]
       ELSE Return(u) /\ UNCHANGED tests
    /\ UNCHANGED <<targets, edits, asked, formInDoubt, statusInDoubt, refused>>

CheckConnection(u, ok) ==
    /\ user[u].pc = "ask"
    /\ user' = [user EXCEPT ![u] = [@ EXCEPT !.pc = "store", !.ok = ok,
                                             !.row = Tested(user[u].row, ok)]]
    /\ UNCHANGED <<targets, tests, edits, asked, formInDoubt, statusInDoubt, refused>>

(* The whole row, as it was read before the request. *)
StoreTest(u) ==
    LET t == user[u].target IN
    /\ user[u].pc = "store"
    /\ Writable(u)
    /\ targets' = [targets EXCEPT ![t] = user[u].row]
    /\ user' = [Outdated(t, u) EXCEPT ![u] = [user[u] EXCEPT !.pc = "complete"]]
    /\ asked' = [asked EXCEPT ![t] = Tested(@, user[u].ok)]
    /\ formInDoubt' = IF user[u].stale THEN formInDoubt \cup {t} ELSE formInDoubt
    /\ statusInDoubt' = statusInDoubt \ {t}
    /\ UNCHANGED <<tests, edits, refused>>

(* An error, and the job is left as it is. *)
TestRefused(u) ==
    /\ user[u].pc = "store"
    /\ ~ Writable(u)
    /\ refused' = IF targets[user[u].target].there THEN refused \cup {user[u].job} ELSE refused
    /\ Return(u)
    /\ UNCHANGED <<targets, tests, edits, asked, formInDoubt, statusInDoubt>>

\* variant: a test that failed keeps its job open
OutcomeIfOk(ok) == IF ok THEN "success" ELSE "running"

Outcome(ok) == IF ok THEN "success" ELSE "failed"

Complete(u) ==
    /\ user[u].pc = "complete"
    /\ tests' = [tests EXCEPT ![user[u].job].status = Outcome(user[u].ok)]
    /\ Return(u)
    /\ UNCHANGED <<targets, edits, asked, formInDoubt, statusInDoubt, refused>>

(* A call to SQLite fails, or the request has been given up. *)
Break(u) ==
    /\ MayBreak
    /\ user[u].pc \in {"edit", "test", "store", "complete"}
    /\ refused' = IF user[u].pc \in {"store", "complete"} THEN refused \cup {user[u].job}
                  ELSE refused
    /\ Return(u)
    /\ UNCHANGED <<targets, tests, edits, asked, formInDoubt, statusInDoubt>>

Next ==
    \/ \E t \in Targets : Create(t) \/ Delete(t)
    \/ \E u \in Users, t \in Targets : BeginEdit(u, t) \/ BeginTest(u, t)
    \/ \E u \in Users : \/ StoreEdit(u) \/ EditRefused(u) \/ CreateJob(u) \/ StoreTest(u)
                        \/ TestRefused(u) \/ Complete(u) \/ Break(u)
                        \/ \E ok \in BOOLEAN : CheckConnection(u, ok)

Spec == Init /\ [][Next]_vars

-----------------------------------------------------------------------------
(* Properties *)

FormOf(r) == <<r.name, r.auth, r.secret, r.edit>>

(* The row holds what the last accepted form asked for, and the header value of
   an earlier one when it asked for none: unless a test that had read the row
   before wrote all of it back, or a form without a value took an old one. *)
EditKept ==
    \A t \in Targets :
        targets[t].there /\ t \notin formInDoubt => FormOf(targets[t]) = FormOf(asked[t])

(* The status is the outcome of the test that was stored last, unknown if there
   was none: unless an edit that had read the row before wrote its status back. *)
StatusIsLastTest ==
    \A t \in Targets :
        targets[t].there /\ t \notin statusInDoubt => targets[t].status = asked[t].status

(* A test job that runs and that nobody will complete: the target was deleted
   while Kong was asked, or SQLite refused the row (its old name may belong to
   another target by now, or the request was given up). *)
TestOrphanCause ==
    \A j \in DOMAIN tests :
        tests[j].status = "running" =>
            \/ \E u \in Users : user[u].pc \in {"ask", "store", "complete"} /\ user[u].job = j
            \/ tests[j].target = NoTarget
            \/ j \in refused

=============================================================================
