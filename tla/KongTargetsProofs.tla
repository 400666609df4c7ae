--------------------------- MODULE KongTargetsProofs ---------------------------
(***************************************************************************)
(* Proofs about KongTargets, for any targets, names and users.             *)
(*                                                                         *)
(* The invariant says what a goroutine holds between its reading of a row  *)
(* and its writing of it: as long as nobody else has written the row, what *)
(* it holds differs from the row in what it is about to change, and in     *)
(* nothing else.                                                           *)
(***************************************************************************)
EXTENDS KongTargets, TLAPS

LEMMA Constants ==
    /\ SomeName \in Names /\ Absent \in Row /\ NoForm \in Form /\ Idle \in User
  <1>1. SomeName \in Names
    BY NamesAssumption DEF SomeName
  <1>2. Absent \in Row /\ NoForm \in Form
    BY <1>1 DEF Absent, Row, NoForm, Form, Auths
  <1> QED
    BY <1>1, <1>2 DEF Idle, User

LEMMA FilledRow ==
    ASSUME NEW r \in Row, NEW f \in Form
    PROVE  Filled(r, f) \in Row /\ Meant(r, f) \in Row
  BY DEF Filled, Meant, Row, Form, Auths

LEMMA TestedRow ==
    ASSUME NEW r \in Row, NEW ok \in BOOLEAN
    PROVE  Tested(r, ok) \in Row
  BY DEF Tested, Row

(* What one goroutine does to its own record. *)
LEMMA Moves ==
    ASSUME TypeOK, NEW u \in Users, NEW h \in User, user' = [user EXCEPT ![u] = h]
    PROVE  user' \in [Users -> User]
  BY DEF TypeOK

LEMMA OutdatedTypes ==
    ASSUME TypeOK, NEW t, NEW u \in Users
    PROVE  Outdated(t, u) \in [Users -> User]
  <1>1. \A v \in Users : [user[v] EXCEPT !.stale = TRUE] \in User
    BY DEF TypeOK, User
  <1> QED
    BY <1>1, Constants DEF Outdated, TypeOK

(* Rows of sequences: appending one, rewriting them. *)
LEMMA Appended ==
    ASSUME NEW R, NEW s \in Seq(R), NEW r \in R
    PROVE  /\ Append(s, r) \in Seq(R)
           /\ DOMAIN Append(s, r) = DOMAIN s \cup {Len(s) + 1}
           /\ Append(s, r)[Len(s) + 1] = r
           /\ Len(s) + 1 \notin DOMAIN s
           /\ \A j \in DOMAIN s : Append(s, r)[j] = s[j]
  OBVIOUS

LEMMA Rewritten ==
    ASSUME NEW R, NEW s \in Seq(R), NEW t,
           t = [j \in DOMAIN s |-> t[j]], \A j \in DOMAIN s : t[j] \in R
    PROVE  t \in Seq(R) /\ DOMAIN t = DOMAIN s
  OBVIOUS

LEMMA RowsOf ==
    ASSUME NEW R, NEW s \in Seq(R)
    PROVE  /\ DOMAIN s = 1 .. Len(s) /\ Len(s) \in Nat
           /\ \A j \in DOMAIN s : s[j] \in R
  OBVIOUS

(* The parts of a goroutine's record. *)
LEMMA UserParts ==
    ASSUME TypeOK, NEW u \in Users
    PROVE  /\ user[u] \in User
           /\ user[u].row \in Row /\ user[u].form \in Form
           /\ user[u].target \in Targets \cup {NoTarget}
           /\ user[u].job \in Nat /\ user[u].ok \in BOOLEAN /\ user[u].stale \in BOOLEAN
  <1>1. user[u] \in User
    BY DEF TypeOK
  <1> QED
    BY <1>1 DEF User

LEMMA RowParts ==
    ASSUME TypeOK, NEW t \in Targets
    PROVE  targets[t] \in Row /\ asked[t] \in Row
  BY DEF TypeOK

LEMMA TestParts ==
    ASSUME TypeOK, NEW j \in DOMAIN tests
    PROVE  tests[j] \in Test
  BY RowsOf DEF TypeOK

-----------------------------------------------------------------------------
(* Types *)

LEMMA FormTypes ==
    ASSUME TypeOK, NEW new, NEW f \in Forms(new)
    PROVE  f \in Form
  BY DEF Forms, Form, TypeOK

LEMMA TypesOfRows ==
    ASSUME TypeOK,
           NEW t \in Targets,
           Create(t) \/ Delete(t)
    PROVE  TypeOK'
  <1>1. CASE Create(t)
    <2>1. PICK f \in Forms(TRUE) :
            /\ targets' = [targets EXCEPT ![t] = Filled([Absent EXCEPT !.there = TRUE], f)]
            /\ asked' = [asked EXCEPT ![t] = Meant([Absent EXCEPT !.there = TRUE], f)]
      BY <1>1 DEF Create
    <2>2. [Absent EXCEPT !.there = TRUE] \in Row
      BY Constants DEF Row
    <2>3. f \in Form
      BY FormTypes
    <2> QED
      BY <1>1, <2>1, <2>2, <2>3, FilledRow DEF TypeOK, Create
  <1>2. CASE Delete(t)
    <2>1. [targets[t] EXCEPT !.there = FALSE] \in Row
      BY RowParts DEF Row
    <2>2. targets' \in [Targets -> Row]
      BY <1>2, <2>1 DEF TypeOK, Delete
    <2>3. \A j \in DOMAIN tests : [tests[j] EXCEPT !.target = NoTarget] \in Test
      BY TestParts DEF Test
    <2>4. /\ tests' = [j \in DOMAIN tests |-> tests'[j]]
          /\ \A j \in DOMAIN tests : tests'[j] \in Test
      BY <1>2, <2>3, TestParts DEF Delete
    <2>5. tests' \in Seq(Test)
      BY <2>4, Rewritten DEF TypeOK
    <2> QED
      BY <1>2, <2>2, <2>5 DEF TypeOK, Delete
  <1> QED
    BY <1>1, <1>2

LEMMA TypesOfStores ==
    ASSUME TypeOK,
           NEW u \in Users,
           StoreEdit(u) \/ StoreTest(u),
           user[u].pc # "idle" => user[u].target \in Targets
    PROVE  TypeOK'
  <1>1. CASE StoreEdit(u)
    <2>1. user[u].form \in Form /\ user[u].row \in Row /\ user[u].target \in Targets
      BY <1>1, UserParts DEF StoreEdit
    <2>2. asked[user[u].target] \in Row
      BY <2>1 DEF TypeOK
    <2> QED
      BY <1>1, <2>1, <2>2, FilledRow, OutdatedTypes DEF TypeOK, StoreEdit
  <1>2. CASE StoreTest(u)
    <2>1. user[u].ok \in BOOLEAN /\ user[u].row \in Row /\ user[u].target \in Targets
      BY <1>2, UserParts DEF StoreTest
    <2>2. Tested(asked[user[u].target], user[u].ok) \in Row
      BY <2>1, TestedRow, RowParts
    <2>3. [user[u] EXCEPT !.pc = "complete"] \in User
      BY UserParts DEF User
    <2>4. user' \in [Users -> User]
      BY <1>2, <2>3, OutdatedTypes DEF StoreTest
    <2> QED
      BY <1>2, <2>1, <2>2, <2>4 DEF TypeOK, StoreTest
  <1> QED
    BY <1>1, <1>2

LEMMA TypesOfUsers ==
    ASSUME TypeOK,
           NEW u \in Users, NEW t \in Targets,
           \/ BeginEdit(u, t) \/ EditRefused(u) \/ BeginTest(u, t)
           \/ TestRefused(u) \/ Break(u) \/ \E ok \in BOOLEAN : CheckConnection(u, ok)
    PROVE  TypeOK'
  <1>1. CASE BeginEdit(u, t)
    <2>1. PICK f \in Forms(FALSE) :
            user' = [user EXCEPT ![u] = [Idle EXCEPT !.pc = "edit", !.target = t, !.form = f,
                                                     !.row = Filled(targets[t], f)]]
      BY <1>1 DEF BeginEdit
    <2>2. f \in Form /\ Filled(targets[t], f) \in Row
      BY FormTypes, FilledRow DEF TypeOK
    <2>3. [Idle EXCEPT !.pc = "edit", !.target = t, !.form = f,
                       !.row = Filled(targets[t], f)] \in User
      BY <2>2, Constants DEF User
    <2>4. user' \in [Users -> User]
      BY <2>1, <2>3, Moves
    <2>5. /\ edits' = edits + 1
          /\ UNCHANGED <<targets, tests, asked, formInDoubt, statusInDoubt, refused>>
      BY <1>1, Zenon DEF BeginEdit
    <2> QED
      BY <2>4, <2>5 DEF TypeOK
  <1>2. CASE EditRefused(u)
    BY <1>2, Constants, Moves DEF TypeOK, EditRefused, Return
  <1>3. CASE BeginTest(u, t)
    <2>1. [Idle EXCEPT !.pc = "test", !.target = t, !.row = targets[t]] \in User
      BY Constants DEF User, TypeOK
    <2> QED
      BY <1>3, <2>1, Moves DEF TypeOK, BeginTest
  <1>4. CASE TestRefused(u)
    <2>1. user[u].job \in Nat
      BY UserParts
    <2> QED
      BY <1>4, <2>1, Constants, Moves DEF TypeOK, TestRefused, Return
  <1>5. CASE Break(u)
    <2>1. user[u].job \in Nat
      BY UserParts
    <2> QED
      BY <1>5, <2>1, Constants, Moves DEF TypeOK, Break, Return
  <1>6. ASSUME NEW ok \in BOOLEAN, CheckConnection(u, ok) PROVE TypeOK'
    <2>1. Tested(user[u].row, ok) \in Row
      BY TestedRow, UserParts
    <2>2. [user[u] EXCEPT !.pc = "store", !.ok = ok, !.row = Tested(user[u].row, ok)] \in User
      BY <2>1, UserParts DEF User
    <2>3. user' \in [Users -> User]
      BY <1>6, <2>2, Moves DEF CheckConnection
    <2> QED
      BY <1>6, <2>3 DEF TypeOK, CheckConnection
  <1> QED
    BY <1>1, <1>2, <1>3, <1>4, <1>5, <1>6

LEMMA TypesOfTests ==
    ASSUME TypeOK,
           NEW u \in Users,
           CreateJob(u) \/ Complete(u),
           user[u].pc # "idle" => user[u].target \in Targets
    PROVE  TypeOK'
  <1>1. CASE CreateJob(u)
    <2>1. [target |-> user[u].target, status |-> "running"] \in Test
      BY <1>1 DEF CreateJob, Test
    <2>2. tests' \in Seq(Test)
      <3>1. tests \in Seq(Test)
        BY DEF TypeOK
      <3>2. Append(tests, [target |-> user[u].target, status |-> "running"]) \in Seq(Test)
        BY <2>1, <3>1, Appended
      <3> QED
        BY <1>1, <3>1, <3>2 DEF CreateJob
    <2>3. [user[u] EXCEPT !.pc = "ask", !.job = Len(tests) + 1] \in User
      <3>1. tests \in Seq(Test)
        BY DEF TypeOK
      <3>2. Len(tests) \in Nat
        BY <3>1, RowsOf
      <3>3. Len(tests) + 1 \in Nat
        BY <3>2
      <3> QED
        BY <3>3, UserParts DEF User
    <2>4. user' \in [Users -> User]
      BY <1>1, <2>3, Constants DEF CreateJob, TypeOK, Return
    <2> QED
      BY <1>1, <2>2, <2>4 DEF TypeOK, CreateJob
  <1>2. CASE Complete(u)
    <2>1. ASSUME NEW j \in DOMAIN tests
          PROVE  [tests[j] EXCEPT !.status = Outcome(user[u].ok)] \in Test
      BY TestParts DEF Test, Outcome
    <2>2. /\ tests' = [j \in DOMAIN tests |-> tests'[j]]
          /\ \A j \in DOMAIN tests : tests'[j] \in Test
      BY <1>2, <2>1, TestParts DEF Complete
    <2>3. tests' \in Seq(Test)
      BY <2>2, Rewritten DEF TypeOK
    <2> QED
      BY <1>2, <2>3, Constants, Moves DEF TypeOK, Complete, Return
  <1> QED
    BY <1>1, <1>2

-----------------------------------------------------------------------------
(* The invariant *)

(* The record h of a goroutine that has read a row, beside the row r there is
   now. *)
Holds(h, r) ==
    /\ r.edit # 0 /\ h.row.there /\ h.row.edit # 0
    /\ h.pc = "edit" =>
        /\ h.form \in Form /\ h.form.edit # 0
        /\ h.form.auth = "none" => h.form.secret = 0
        /\ h.row.name = h.form.name /\ h.row.auth = h.form.auth /\ h.row.edit = h.form.edit
        /\ h.form.auth = "none" \/ h.form.secret # 0 => h.row.secret = h.form.secret
        /\ ~ h.stale /\ r.there => h.row = Filled(r, h.form)
    /\ h.pc \in {"test", "ask"} => (~ h.stale /\ r.there => h.row = r)
    /\ h.pc = "store" =>
        /\ h.row.status = IF h.ok THEN "online" ELSE "offline"
        /\ ~ h.stale /\ r.there => h.row = Tested(r, h.ok)

(* The job of a test belongs to the target, as long as there is the target. *)
HoldsJob(h) ==
    h.pc \in {"ask", "store", "complete"} =>
        h.job \in DOMAIN tests /\ tests[h.job].target \in {h.target, NoTarget}

HeldRows ==
    \A u \in Users : user[u].pc # "idle" =>
        user[u].target \in Targets /\ Holds(user[u], targets[user[u].target])

HeldJobs == \A u \in Users : HoldsJob(user[u])

RowsEdited == \A t \in Targets : targets[t].there => targets[t].edit # 0

LinkedJobs ==
    \A j \in DOMAIN tests : tests[j].target # NoTarget => targets[tests[j].target].there

IInv ==
    /\ TypeOK
    /\ HeldRows /\ HeldJobs /\ RowsEdited /\ LinkedJobs
    /\ EditKept /\ StatusIsLastTest /\ TestOrphanCause

LEMMA InitInv == Init => IInv
  <1> SUFFICES ASSUME Init PROVE IInv
    OBVIOUS
  <1>1. TypeOK
    <2>1. << >> \in Seq(Test)
      OBVIOUS
    <2> QED
      BY <2>1, Constants DEF Init, TypeOK
  <1>2. HeldRows /\ HeldJobs
    BY DEF Init, HeldRows, HeldJobs, HoldsJob, Idle
  <1>3. RowsEdited /\ EditKept /\ StatusIsLastTest
    BY DEF Init, RowsEdited, EditKept, StatusIsLastTest, Absent
  <1>4. LinkedJobs /\ TestOrphanCause
    BY DEF Init, LinkedJobs, TestOrphanCause
  <1> QED
    BY <1>1, <1>2, <1>3, <1>4 DEF IInv

LEMMA TypesNext == IInv /\ [Next]_vars => TypeOK'
  <1> SUFFICES ASSUME IInv, [Next]_vars PROVE TypeOK'
    OBVIOUS
  <1>1. TypeOK /\ \A u \in Users : user[u].pc # "idle" => user[u].target \in Targets
    BY DEF IInv, HeldRows
  <1>2. CASE UNCHANGED vars
    BY <1>1, <1>2 DEF vars, TypeOK
  <1>3. ASSUME NEW t \in Targets, Create(t) \/ Delete(t) PROVE TypeOK'
    BY <1>1, <1>3, TypesOfRows
  <1>4. ASSUME NEW u \in Users, NEW t \in Targets, BeginEdit(u, t) \/ BeginTest(u, t)
        PROVE  TypeOK'
    BY <1>1, <1>4, TypesOfUsers
  <1>5. ASSUME NEW u \in Users, CreateJob(u) \/ Complete(u) PROVE TypeOK'
    BY <1>1, <1>5, TypesOfTests
  <1>6. ASSUME NEW u \in Users, StoreEdit(u) \/ StoreTest(u) PROVE TypeOK'
    <2>1. user[u].target \in Targets
      BY <1>1, <1>6 DEF StoreEdit, StoreTest
    <2> QED
      BY <1>1, <1>6, <2>1, TypesOfStores
  <1>7. ASSUME NEW u \in Users, 
               \/ EditRefused(u) \/ TestRefused(u) \/ Break(u)
               \/ \E ok \in BOOLEAN : CheckConnection(u, ok)
        PROVE  TypeOK'
    <2>1. user[u].target \in Targets
      BY <1>1, <1>7 DEF EditRefused, TestRefused, Break, CheckConnection
    <2> QED
      BY <1>1, <1>7, <2>1, TypesOfUsers
  <1> QED
    BY <1>2, <1>3, <1>4, <1>5, <1>6, <1>7 DEF Next

-----------------------------------------------------------------------------
(* What is held *)

LEMMA HoldsDeleted ==
    ASSUME NEW h \in User, NEW r \in Row, Holds(h, r)
    PROVE  Holds(h, [r EXCEPT !.there = FALSE])
  BY DEF Holds, Row

LEMMA HoldsStale ==
    ASSUME NEW h \in User, NEW r, Holds(h, r), NEW q, q.edit # 0
    PROVE  Holds([h EXCEPT !.stale = TRUE], q)
  BY DEF Holds, User

LEMMA HoldsCompleting ==
    ASSUME NEW h \in User, NEW r, Holds(h, r)
    PROVE  Holds([h EXCEPT !.pc = "complete"], h.row)
  BY DEF Holds, User

LEMMA HoldsForm ==
    ASSUME TypeOK, NEW t \in Targets, NEW f \in Forms(FALSE), targets[t].there, targets[t].edit # 0
    PROVE  Holds([Idle EXCEPT !.pc = "edit", !.target = t, !.form = f,
                              !.row = Filled(targets[t], f)], targets[t])
  <1> DEFINE h == [Idle EXCEPT !.pc = "edit", !.target = t, !.form = f,
                               !.row = Filled(targets[t], f)]
  <1>1. f \in Form /\ f.edit # 0 /\ (f.auth = "none" => f.secret = 0)
    BY DEF TypeOK, Forms, Form
  <1>2. /\ Filled(targets[t], f).there /\ Filled(targets[t], f).edit = f.edit
        /\ Filled(targets[t], f).name = f.name /\ Filled(targets[t], f).auth = f.auth
        /\ f.auth = "none" \/ f.secret # 0 => Filled(targets[t], f).secret = f.secret
    BY <1>1, RowParts DEF Filled, Row, Form, Auths
  <1>3. h.pc = "edit" /\ h.form = f /\ h.row = Filled(targets[t], f)
    BY DEF Idle
  <1> HIDE DEF h
  <1>4. Holds(h, targets[t])
    BY <1>1, <1>2, <1>3 DEF Holds
  <1> QED
    BY <1>4 DEF h

LEMMA HoldsTested ==
    ASSUME NEW h \in User, NEW r \in Row, Holds(h, r), h.pc = "ask", NEW ok \in BOOLEAN
    PROVE  Holds([h EXCEPT !.pc = "store", !.ok = ok, !.row = Tested(h.row, ok)], r)
  BY DEF Holds, User, Row, Tested

(* Actions of one goroutine on its own record, by what becomes of that. *)
LEMMA OwnRecord ==
    ASSUME IInv, NEW u \in Users, targets' = targets,
           NEW h, user' = [user EXCEPT ![u] = h],
           h.pc # "idle" => h.target \in Targets /\ Holds(h, targets[h.target])
    PROVE  HeldRows'
  <1> SUFFICES ASSUME NEW v \in Users, user'[v].pc # "idle"
               PROVE  user'[v].target \in Targets /\ Holds(user'[v], targets[user'[v].target])
    BY DEF HeldRows
  <1>1. CASE v = u
    BY <1>1 DEF IInv, TypeOK
  <1>2. CASE v # u
    BY <1>2 DEF IInv, TypeOK, HeldRows
  <1> QED
    BY <1>1, <1>2

LEMMA HeldRowsNext == IInv /\ [Next]_vars => HeldRows'
  <1> SUFFICES ASSUME IInv, [Next]_vars PROVE HeldRows'
    OBVIOUS
  <1>0. TypeOK /\ HeldRows /\ RowsEdited
    BY DEF IInv
  <1>1. CASE UNCHANGED vars
    BY <1>0, <1>1 DEF vars, HeldRows
  <1>2. ASSUME NEW t \in Targets, Create(t) PROVE HeldRows'
    <2>1. user' = user /\ targets[t].edit = 0 /\ \A s \in Targets \ {t} : targets'[s] = targets[s]
      BY <1>0, <1>2 DEF Create, TypeOK
    <2>2. \A v \in Users : user[v].pc # "idle" => user[v].target # t
      BY <1>0, <2>1 DEF HeldRows, Holds
    <2> QED
      BY <1>0, <2>1, <2>2 DEF HeldRows
  <1>3. ASSUME NEW t \in Targets, Delete(t) PROVE HeldRows'
    <2>1. user' = user /\ targets' = [targets EXCEPT ![t].there = FALSE]
      BY <1>3 DEF Delete
    <2>2. \A s \in Targets : targets'[s] = IF s = t THEN [targets[s] EXCEPT !.there = FALSE]
                                           ELSE targets[s]
      BY <1>0, <2>1 DEF TypeOK
    <2>3. ASSUME NEW v \in Users, user[v].pc # "idle"
          PROVE  Holds(user[v], targets'[user[v].target])
      <3>1. /\ user[v].target \in Targets /\ Holds(user[v], targets[user[v].target])
            /\ user[v] \in User /\ targets[user[v].target] \in Row
        BY <1>0, <2>3, UserParts, RowParts DEF HeldRows
      <3>2. Holds(user[v], [targets[user[v].target] EXCEPT !.there = FALSE])
        BY <3>1, HoldsDeleted
      <3> QED
        BY <2>2, <3>1, <3>2
    <2> QED
      BY <1>0, <2>1, <2>3 DEF HeldRows
  <1>4. ASSUME NEW u \in Users, NEW t \in Targets, BeginEdit(u, t) PROVE HeldRows'
    <2>1. PICK f \in Forms(FALSE) :
            user' = [user EXCEPT ![u] = [Idle EXCEPT !.pc = "edit", !.target = t, !.form = f,
                                                     !.row = Filled(targets[t], f)]]
      BY <1>4 DEF BeginEdit
    <2> DEFINE h == [Idle EXCEPT !.pc = "edit", !.target = t, !.form = f,
                                 !.row = Filled(targets[t], f)]
    <2>2. targets' = targets /\ targets[t].there /\ targets[t].edit # 0
      BY <1>0, <1>4, Zenon DEF BeginEdit, RowsEdited
    <2>3. h.target = t
      BY DEF Idle
    <2>4. Holds(h, targets[t])
      BY <1>0, <2>2, HoldsForm
    <2>5. user' = [user EXCEPT ![u] = h]
      BY <2>1
    <2> HIDE DEF h
    <2> QED
      BY <2>2, <2>3, <2>4, <2>5, OwnRecord
  <1>5. ASSUME NEW u \in Users, NEW t \in Targets, BeginTest(u, t) PROVE HeldRows'
    <2> DEFINE h == [Idle EXCEPT !.pc = "test", !.target = t, !.row = targets[t]]
    <2>1. /\ targets' = targets /\ targets[t].there /\ targets[t].edit # 0
          /\ user' = [user EXCEPT ![u] = h]
      BY <1>0, <1>5 DEF BeginTest, RowsEdited
    <2>2. h.target = t /\ h.pc = "test" /\ h.row = targets[t]
      BY DEF Idle
    <2> HIDE DEF h
    <2>3. Holds(h, targets[t])
      BY <2>1, <2>2 DEF Holds
    <2> QED
      BY <2>1, <2>2, <2>3, OwnRecord
  <1>6. ASSUME NEW u \in Users, EditRefused(u) \/ TestRefused(u) \/ Break(u) \/ Complete(u)
        PROVE  HeldRows'
    <2>1. targets' = targets /\ user' = [user EXCEPT ![u] = Idle]
      BY <1>6 DEF EditRefused, TestRefused, Break, Complete, Return
    <2>2. Idle.pc = "idle"
      BY DEF Idle
    <2> QED
      BY <2>1, <2>2, OwnRecord
  <1>7. ASSUME NEW u \in Users, CreateJob(u) PROVE HeldRows'
    <2> DEFINE h == [user[u] EXCEPT !.pc = "ask", !.job = Len(tests) + 1]
    <2>1. user[u].target \in Targets /\ Holds(user[u], targets[user[u].target])
      BY <1>0, <1>7 DEF CreateJob, HeldRows
    <2>2. user[u].pc = "test" /\ targets' = targets
          /\ (user' = [user EXCEPT ![u] = Idle] \/ user' = [user EXCEPT ![u] = h])
      BY <1>7 DEF CreateJob, Return
    <2>3. h.target = user[u].target /\ Holds(h, targets[user[u].target])
      BY <1>0, <2>1, <2>2, UserParts DEF Holds, User
    <2>4. Idle.pc = "idle"
      BY DEF Idle
    <2> HIDE DEF h
    <2>5. CASE user' = [user EXCEPT ![u] = Idle]
      BY <2>2, <2>4, <2>5, OwnRecord
    <2>6. CASE user' = [user EXCEPT ![u] = h]
      BY <2>1, <2>2, <2>3, <2>6, OwnRecord
    <2> QED
      BY <2>2, <2>5, <2>6
  <1>8. ASSUME NEW u \in Users, NEW ok \in BOOLEAN, CheckConnection(u, ok) PROVE HeldRows'
    <2> DEFINE h == [user[u] EXCEPT !.pc = "store", !.ok = ok, !.row = Tested(user[u].row, ok)]
    <2>1. user[u].target \in Targets /\ Holds(user[u], targets[user[u].target])
      BY <1>0, <1>8 DEF CheckConnection, HeldRows
    <2>2. user[u].pc = "ask" /\ targets' = targets /\ user' = [user EXCEPT ![u] = h]
      BY <1>8 DEF CheckConnection
    <2>3. h.target = user[u].target
      BY <1>0, UserParts DEF User
    <2>4. Holds(h, targets[user[u].target])
      BY <1>0, <2>1, <2>2, HoldsTested, UserParts, RowParts
    <2> HIDE DEF h
    <2> QED
      BY <2>1, <2>2, <2>3, <2>4, OwnRecord
  <1>9. ASSUME NEW u \in Users, StoreEdit(u) \/ StoreTest(u) PROVE HeldRows'
    <2> DEFINE t == user[u].target
    <2>1. t \in Targets /\ Holds(user[u], targets[t]) /\ user[u].row.edit # 0
      BY <1>0, <1>9 DEF StoreEdit, StoreTest, HeldRows, Holds
    <2>2. targets' = [targets EXCEPT ![t] = user[u].row]
      BY <1>9 DEF StoreEdit, StoreTest
    <2>3. \A s \in Targets : targets'[s] = IF s = t THEN user[u].row ELSE targets[s]
      BY <1>0, <2>2 DEF TypeOK
    <2>4. \A v \in Users : Outdated(t, u)[v] =
             IF v = u THEN Idle
             ELSE IF user[v].target = t THEN [user[v] EXCEPT !.stale = TRUE] ELSE user[v]
      BY DEF Outdated
    <2>5. /\ \A v \in Users \ {u} : user'[v] = Outdated(t, u)[v]
          /\ user'[u] = Idle \/ user'[u] = [user[u] EXCEPT !.pc = "complete"]
      BY <1>9, <2>4 DEF StoreEdit, StoreTest, Outdated
    <2> HIDE DEF t
    <2>6. ASSUME NEW v \in Users \ {u}, user'[v].pc # "idle"
          PROVE  user'[v].target \in Targets /\ Holds(user'[v], targets'[user'[v].target])
      <3>1. CASE user[v].target = t
        <4>1. user'[v] = [user[v] EXCEPT !.stale = TRUE] /\ user[v] \in User
          BY <1>0, <2>4, <2>5, <3>1, UserParts
        <4>2. user'[v].pc = user[v].pc /\ user'[v].target = t
          BY <3>1, <4>1 DEF User
        <4>3. Holds(user[v], targets[t])
          BY <1>0, <2>6, <3>1, <4>2 DEF HeldRows
        <4> QED
          BY <2>1, <2>3, <4>1, <4>2, <4>3, HoldsStale
      <3>2. CASE user[v].target # t
        <4>1. user'[v] = user[v]
          BY <2>4, <2>5, <3>2
        <4> QED
          BY <1>0, <2>3, <2>6, <3>2, <4>1 DEF HeldRows
      <3> QED
        BY <3>1, <3>2
    <2>7. user'[u].pc # "idle" =>
            user'[u].target \in Targets /\ Holds(user'[u], targets'[user'[u].target])
      <3>1. CASE user'[u] = Idle
        BY <3>1 DEF Idle
      <3>2. CASE user'[u] = [user[u] EXCEPT !.pc = "complete"]
        <4>1. user[u] \in User /\ user[u].target = t
          BY <1>0, UserParts DEF t
        <4>2. user'[u].target = t
          BY <3>2, <4>1 DEF User
        <4>3. Holds(user'[u], user[u].row)
          BY <2>1, <3>2, <4>1, HoldsCompleting
        <4> QED
          BY <2>1, <2>3, <4>2, <4>3
      <3> QED
        BY <2>5, <3>1, <3>2
    <2> QED
      BY <2>6, <2>7 DEF HeldRows
  <1> QED
    BY <1>1, <1>2, <1>3, <1>4, <1>5, <1>6, <1>7, <1>8, <1>9 DEF Next

-----------------------------------------------------------------------------
(* Rows and jobs *)

(* Where rows and tests come from. *)
LEMMA RowsEditedNext == IInv /\ [Next]_vars => RowsEdited'
  <1> SUFFICES ASSUME IInv, [Next]_vars PROVE RowsEdited'
    OBVIOUS
  <1>0. TypeOK /\ HeldRows /\ RowsEdited
    BY DEF IInv
  <1>1. CASE targets' = targets
    BY <1>0, <1>1 DEF RowsEdited
  <1>2. ASSUME NEW t \in Targets, Create(t) PROVE RowsEdited'
    <2>1. PICK f \in Forms(TRUE) :
            targets' = [targets EXCEPT ![t] = Filled([Absent EXCEPT !.there = TRUE], f)]
      BY <1>2 DEF Create
    <2>2. f.edit # 0
      BY <1>0 DEF Forms, TypeOK
    <2>3. Filled([Absent EXCEPT !.there = TRUE], f).edit = f.edit
      BY DEF Filled, Absent
    <2> QED
      BY <1>0, <2>1, <2>2, <2>3 DEF RowsEdited, TypeOK
  <1>3. ASSUME NEW t \in Targets, Delete(t) PROVE RowsEdited'
    <2>1. targets' = [targets EXCEPT ![t].there = FALSE]
      BY <1>3 DEF Delete
    <2>2. \A s \in Targets : targets'[s].edit = targets[s].edit
                             /\ (targets'[s].there => targets[s].there)
      BY <1>0, <2>1, RowParts DEF TypeOK, Row
    <2> QED
      BY <1>0, <2>2 DEF RowsEdited
  <1>4. ASSUME NEW u \in Users, StoreEdit(u) \/ StoreTest(u) PROVE RowsEdited'
    <2>1. targets' = [targets EXCEPT ![user[u].target] = user[u].row]
      BY <1>4 DEF StoreEdit, StoreTest
    <2>2. user[u].row.edit # 0
      BY <1>0, <1>4 DEF StoreEdit, StoreTest, HeldRows, Holds
    <2> QED
      BY <1>0, <2>1, <2>2 DEF RowsEdited, TypeOK
  <1>5. ASSUME NEW u \in Users, NEW t \in Targets, BeginEdit(u, t) \/ BeginTest(u, t)
        PROVE  targets' = targets
    BY <1>5, Zenon DEF BeginEdit, BeginTest
  <1>6. ASSUME NEW u \in Users,
               \/ EditRefused(u) \/ CreateJob(u) \/ TestRefused(u) \/ Complete(u) \/ Break(u)
               \/ \E ok \in BOOLEAN : CheckConnection(u, ok)
        PROVE  targets' = targets
    BY <1>6 DEF EditRefused, CreateJob, TestRefused, Complete, Break, CheckConnection
  <1>7. CASE UNCHANGED vars
    BY <1>1, <1>7 DEF vars
  <1> QED
    BY <1>1, <1>2, <1>3, <1>4, <1>5, <1>6, <1>7 DEF Next

(* Every step that does not touch the jobs, and keeps the rows that are there. *)
LEMMA JobsKept ==
    ASSUME IInv, tests' = tests, \A t \in Targets : targets[t].there => targets'[t].there
    PROVE  LinkedJobs'
  <1> SUFFICES ASSUME NEW j \in DOMAIN tests, tests[j].target # NoTarget
               PROVE  targets'[tests[j].target].there
    BY DEF LinkedJobs
  <1>1. tests[j].target \in Targets
    BY TestParts DEF IInv, Test
  <1> QED
    BY <1>1 DEF IInv, LinkedJobs

LEMMA LinkedJobsNext == IInv /\ [Next]_vars => LinkedJobs'
  <1> SUFFICES ASSUME IInv, [Next]_vars PROVE LinkedJobs'
    OBVIOUS
  <1>0. TypeOK /\ HeldRows /\ RowsEdited /\ LinkedJobs
    BY DEF IInv
  <1>s. tests \in Seq(Test)
    BY <1>0 DEF TypeOK
  <1>1. CASE UNCHANGED vars
    BY <1>1, JobsKept DEF vars
  <1>2. ASSUME NEW t \in Targets, Create(t) PROVE LinkedJobs'
    <2>1. PICK f \in Forms(TRUE) :
            targets' = [targets EXCEPT ![t] = Filled([Absent EXCEPT !.there = TRUE], f)]
      BY <1>2 DEF Create
    <2>2. Filled([Absent EXCEPT !.there = TRUE], f).there
      BY DEF Filled, Absent
    <2>3. tests' = tests
      BY <1>2, Zenon DEF Create
    <2> QED
      BY <1>0, <2>1, <2>2, <2>3, JobsKept DEF TypeOK
  <1>3. ASSUME NEW t \in Targets, Delete(t) PROVE LinkedJobs'
    <2>1. /\ targets' = [targets EXCEPT ![t].there = FALSE]
          /\ tests' = [j \in DOMAIN tests |->
                IF tests[j].target = t THEN [tests[j] EXCEPT !.target = NoTarget] ELSE tests[j]]
      BY <1>3 DEF Delete
    <2>2. \A s \in Targets \ {t} : targets'[s] = targets[s]
      BY <1>0, <2>1 DEF TypeOK
    <2>3. ASSUME NEW j \in DOMAIN tests', tests'[j].target # NoTarget
          PROVE  targets'[tests'[j].target].there
      <3>1. j \in DOMAIN tests
        BY <2>1, <2>3
      <3>2. tests[j] \in Test
        BY <1>0, <3>1, TestParts
      <3>3. tests'[j] = tests[j] /\ tests[j].target # t
        BY <2>1, <2>3, <3>1, <3>2 DEF Test
      <3> QED
        BY <1>0, <2>2, <2>3, <3>1, <3>2, <3>3 DEF Test, LinkedJobs
    <2> QED
      BY <2>3 DEF LinkedJobs
  <1>4. ASSUME NEW u \in Users, StoreEdit(u) \/ StoreTest(u) PROVE LinkedJobs'
    <2>1. tests' = tests /\ targets' = [targets EXCEPT ![user[u].target] = user[u].row]
      BY <1>4 DEF StoreEdit, StoreTest
    <2>2. user[u].row.there
      BY <1>0, <1>4 DEF StoreEdit, StoreTest, HeldRows, Holds
    <2> QED
      BY <1>0, <2>1, <2>2, JobsKept DEF TypeOK
  <1>5. ASSUME NEW u \in Users, NEW t \in Targets, BeginEdit(u, t) \/ BeginTest(u, t)
        PROVE  LinkedJobs'
    <2>1. targets' = targets /\ tests' = tests
      BY <1>5, Zenon DEF BeginEdit, BeginTest
    <2> QED
      BY <2>1, JobsKept
  <1>6. ASSUME NEW u \in Users,
               \/ EditRefused(u) \/ TestRefused(u) \/ Break(u)
               \/ \E ok \in BOOLEAN : CheckConnection(u, ok)
        PROVE  LinkedJobs'
    <2>1. targets' = targets /\ tests' = tests
      BY <1>6 DEF EditRefused, TestRefused, Break, CheckConnection
    <2> QED
      BY <2>1, JobsKept
  <1>7. ASSUME NEW u \in Users, CreateJob(u) PROVE LinkedJobs'
    <2>1. CASE targets[user[u].target].there
      <3> DEFINE job == [target |-> user[u].target, status |-> "running"]
      <3>1. tests' = Append(tests, job) /\ targets' = targets
        BY <1>7, <2>1 DEF CreateJob
      <3>2. user[u].target \in Targets
        BY <1>0, <1>7 DEF CreateJob, HeldRows
      <3>3. job \in Test
        BY <3>2 DEF Test
      <3>4. /\ DOMAIN tests' = DOMAIN tests \cup {Len(tests) + 1}
            /\ tests'[Len(tests) + 1] = job
            /\ \A j \in DOMAIN tests : tests'[j] = tests[j]
        BY <1>s, <3>1, <3>3, Appended
      <3>5. job.target = user[u].target
        OBVIOUS
      <3> HIDE DEF job
      <3> QED
        BY <1>0, <2>1, <3>1, <3>4, <3>5 DEF LinkedJobs
    <2>2. CASE ~ targets[user[u].target].there
      BY <1>7, <2>2, JobsKept DEF CreateJob
    <2> QED
      BY <2>1, <2>2
  <1>8. ASSUME NEW u \in Users, Complete(u) PROVE LinkedJobs'
    <2>1. targets' = targets /\ tests' = [tests EXCEPT ![user[u].job].status = Outcome(user[u].ok)]
      BY <1>8 DEF Complete
    <2>2. DOMAIN tests' = DOMAIN tests /\ \A j \in DOMAIN tests : tests'[j].target = tests[j].target
      BY <1>0, <2>1, TestParts DEF Test
    <2> QED
      BY <1>0, <2>1, <2>2 DEF LinkedJobs
  <1> QED
    BY <1>1, <1>2, <1>3, <1>4, <1>5, <1>6, <1>7, <1>8 DEF Next

-----------------------------------------------------------------------------
(* The jobs of the tests *)

Has(h) == h.pc \in {"ask", "store", "complete"}

(* Jobs are never removed here, and lose their target at most; a new one is had. *)
JobsOnly ==
    /\ \A j \in DOMAIN tests :
        /\ j \in DOMAIN tests'
        /\ tests'[j].target \in {tests[j].target, NoTarget}
        /\ tests'[j].status = "running" => tests[j].status = "running"
    /\ \A j \in DOMAIN tests' \ DOMAIN tests :
        \E u \in Users : Has(user'[u]) /\ user'[u].job = j

(* A job that one has was had before, or has just been created. *)
Keeps ==
    \A v \in Users : Has(user'[v]) =>
        \/ /\ Has(user[v])
           /\ user'[v].job = user[v].job /\ user'[v].target = user[v].target
        \/ /\ tests' = Append(tests, [target |-> user[v].target, status |-> "running"])
           /\ user'[v].job = Len(tests) + 1 /\ user'[v].target = user[v].target

(* Those that had a job and have it no longer have completed it, or have left it
   with no target or among the refused. *)
Leaves ==
    \A v \in Users : Has(user[v]) =>
        \/ Has(user'[v]) /\ user'[v].job = user[v].job
        \/ tests[user[v].job].target = NoTarget
        \/ user[v].job \in refused'
        \/ tests'[user[v].job].status # "running"

LEMMA JobsSame ==
    ASSUME tests' = tests
    PROVE  JobsOnly
  BY DEF JobsOnly

LEMMA OwnJob ==
    ASSUME TypeOK, NEW u \in Users, NEW h, user' = [user EXCEPT ![u] = h], ~ Has(h), ~ Has(user[u])
    PROVE  Keeps /\ Leaves
  <1>1. \A v \in Users : user'[v] = IF v = u THEN h ELSE user[v]
    BY DEF TypeOK
  <1> QED
    BY <1>1 DEF Keeps, Leaves

LEMMA OthersStale ==
    ASSUME TypeOK, NEW u \in Users, NEW t, NEW v \in Users \ {u}
    PROVE  /\ Outdated(t, u)[v].pc = user[v].pc /\ Outdated(t, u)[v].job = user[v].job
           /\ Outdated(t, u)[v].target = user[v].target
  <1>1. user[v] \in User
    BY UserParts
  <1> QED
    BY <1>1 DEF Outdated, User

LEMMA JobSteps == IInv /\ [Next]_vars => JobsOnly /\ Keeps /\ Leaves
  <1> SUFFICES ASSUME IInv, [Next]_vars PROVE JobsOnly /\ Keeps /\ Leaves
    OBVIOUS
  <1>0. TypeOK /\ HeldRows /\ HeldJobs /\ LinkedJobs
    BY DEF IInv
  <1>s. tests \in Seq(Test)
    BY <1>0 DEF TypeOK
  <1>i. ~ Has(Idle)
    BY DEF Has, Idle
  <1>1. CASE UNCHANGED vars
    BY <1>1, JobsSame DEF vars, Keeps, Leaves
  <1>2. ASSUME NEW t \in Targets, Create(t) PROVE JobsOnly /\ Keeps /\ Leaves
    <2>1. tests' = tests /\ user' = user
      BY <1>2, Zenon DEF Create
    <2> QED
      BY <2>1, JobsSame DEF Keeps, Leaves
  <1>3. ASSUME NEW t \in Targets, Delete(t) PROVE JobsOnly /\ Keeps /\ Leaves
    <2>1. /\ user' = user
          /\ tests' = [j \in DOMAIN tests |->
                IF tests[j].target = t THEN [tests[j] EXCEPT !.target = NoTarget] ELSE tests[j]]
      BY <1>3 DEF Delete
    <2>d. DOMAIN tests' = DOMAIN tests
      BY <2>1
    <2>2. ASSUME NEW j \in DOMAIN tests
          PROVE  /\ j \in DOMAIN tests' /\ tests'[j].target \in {tests[j].target, NoTarget}
                 /\ tests'[j].status = tests[j].status
      <3>1. tests[j] \in Test
        BY <1>0, TestParts
      <3> QED
        BY <2>1, <3>1 DEF Test
    <2> QED
      BY <2>1, <2>d, <2>2 DEF JobsOnly, Keeps, Leaves
  <1>4. ASSUME NEW u \in Users, NEW t \in Targets, BeginEdit(u, t)
        PROVE  JobsOnly /\ Keeps /\ Leaves
    <2>1. PICK f \in Forms(FALSE) :
            user' = [user EXCEPT ![u] = [Idle EXCEPT !.pc = "edit", !.target = t, !.form = f,
                                                     !.row = Filled(targets[t], f)]]
      BY <1>4 DEF BeginEdit
    <2> DEFINE h == [Idle EXCEPT !.pc = "edit", !.target = t, !.form = f,
                                 !.row = Filled(targets[t], f)]
    <2>2. tests' = tests /\ ~ Has(user[u])
      BY <1>4, Zenon DEF BeginEdit, Has
    <2>3. ~ Has(h)
      BY DEF Has, Idle
    <2>4. user' = [user EXCEPT ![u] = h]
      BY <2>1
    <2> HIDE DEF h
    <2> QED
      BY <1>0, <2>2, <2>3, <2>4, JobsSame, OwnJob
  <1>5. ASSUME NEW u \in Users, NEW t \in Targets, BeginTest(u, t)
        PROVE  JobsOnly /\ Keeps /\ Leaves
    <2> DEFINE h == [Idle EXCEPT !.pc = "test", !.target = t, !.row = targets[t]]
    <2>1. tests' = tests /\ user' = [user EXCEPT ![u] = h] /\ ~ Has(user[u])
      BY <1>5 DEF BeginTest, Has
    <2>2. ~ Has(h)
      BY DEF Has, Idle
    <2> HIDE DEF h
    <2> QED
      BY <1>0, <2>1, <2>2, JobsSame, OwnJob
  <1>6. ASSUME NEW u \in Users, EditRefused(u) PROVE JobsOnly /\ Keeps /\ Leaves
    BY <1>0, <1>6, <1>i, JobsSame, OwnJob DEF EditRefused, Return, Has
  <1>7. ASSUME NEW u \in Users, TestRefused(u) \/ Break(u) PROVE JobsOnly /\ Keeps /\ Leaves
    <2>1. tests' = tests /\ user' = [user EXCEPT ![u] = Idle] /\ user[u].pc # "idle"
      BY <1>7 DEF TestRefused, Break, Return
    <2>2. \A v \in Users : user'[v] = IF v = u THEN Idle ELSE user[v]
      BY <1>0, <2>1 DEF TypeOK
    <2>3. Keeps
      BY <1>i, <2>2 DEF Keeps
    <2>4. ASSUME Has(user[u])
          PROVE  tests[user[u].job].target = NoTarget \/ user[u].job \in refused'
      <3>1. CASE TestRefused(u) /\ ~ targets[user[u].target].there
        <4>1. /\ user[u].job \in DOMAIN tests
              /\ tests[user[u].job].target \in {user[u].target, NoTarget}
          BY <1>0, <2>4 DEF HeldJobs, HoldsJob, Has
        <4> QED
          BY <1>0, <3>1, <4>1 DEF LinkedJobs
      <3>2. CASE TestRefused(u) /\ targets[user[u].target].there
        BY <3>2 DEF TestRefused
      <3>3. CASE Break(u)
        BY <2>4, <3>3 DEF Break, Has
      <3> QED
        BY <1>7, <3>1, <3>2, <3>3
    <2>5. Leaves
      BY <2>2, <2>4 DEF Leaves
    <2> QED
      BY <2>1, <2>3, <2>5, JobsSame
  <1>8. ASSUME NEW u \in Users, NEW ok \in BOOLEAN, CheckConnection(u, ok)
        PROVE  JobsOnly /\ Keeps /\ Leaves
    <2> DEFINE h == [user[u] EXCEPT !.pc = "store", !.ok = ok, !.row = Tested(user[u].row, ok)]
    <2>1. tests' = tests /\ user' = [user EXCEPT ![u] = h] /\ user[u].pc = "ask"
      BY <1>8 DEF CheckConnection
    <2>2. \A v \in Users : user'[v] = IF v = u THEN h ELSE user[v]
      BY <1>0, <2>1 DEF TypeOK
    <2>3. h.pc = "store" /\ h.job = user[u].job /\ h.target = user[u].target
      BY <1>0, UserParts DEF User
    <2> HIDE DEF h
    <2> QED
      BY <2>1, <2>2, <2>3, JobsSame DEF Keeps, Leaves, Has
  <1>9. ASSUME NEW u \in Users, StoreEdit(u) \/ StoreTest(u) PROVE JobsOnly /\ Keeps /\ Leaves
    <2> DEFINE t == user[u].target
    <2>1. /\ tests' = tests
          /\ \A v \in Users \ {u} : user'[v] = Outdated(t, u)[v]
          /\ \/ user[u].pc = "edit" /\ user'[u] = Idle
             \/ user[u].pc = "store" /\ user'[u] = [user[u] EXCEPT !.pc = "complete"]
      BY <1>9 DEF StoreEdit, StoreTest, Outdated
    <2>2. \A v \in Users \ {u} :
            /\ user'[v].pc = user[v].pc /\ user'[v].job = user[v].job
            /\ user'[v].target = user[v].target
      BY <1>0, <2>1, OthersStale
    <2>3. CASE user[u].pc = "edit" /\ user'[u] = Idle
      BY <1>i, <2>1, <2>2, <2>3, JobsSame DEF Keeps, Leaves, Has
    <2>4. CASE user[u].pc = "store" /\ user'[u] = [user[u] EXCEPT !.pc = "complete"]
      <3>1. /\ user'[u].pc = "complete" /\ user'[u].job = user[u].job
            /\ user'[u].target = user[u].target
        BY <1>0, <2>4, UserParts DEF User
      <3> QED
        BY <2>1, <2>2, <2>4, <3>1, JobsSame DEF Keeps, Leaves, Has
    <2> QED
      BY <2>1, <2>3, <2>4
  <1>10. ASSUME NEW u \in Users, CreateJob(u) PROVE JobsOnly /\ Keeps /\ Leaves
    <2>1. CASE targets[user[u].target].there
      <3> DEFINE job == [target |-> user[u].target, status |-> "running"]
                 h == [user[u] EXCEPT !.pc = "ask", !.job = Len(tests) + 1]
      <3>1. tests' = Append(tests, job) /\ user' = [user EXCEPT ![u] = h] /\ user[u].pc = "test"
        BY <1>10, <2>1 DEF CreateJob
      <3>2. job \in Test
        BY <1>0, <3>1 DEF Test, HeldRows
      <3>3. /\ DOMAIN tests' = DOMAIN tests \cup {Len(tests) + 1}
            /\ \A j \in DOMAIN tests : tests'[j] = tests[j]
        BY <1>s, <3>1, <3>2, Appended
      <3>4. h.pc = "ask" /\ h.job = Len(tests) + 1 /\ h.target = user[u].target
        BY <1>0, UserParts DEF User
      <3>5. \A v \in Users : user'[v] = IF v = u THEN h ELSE user[v]
        BY <1>0, <3>1 DEF TypeOK
      <3> HIDE DEF h
      <3>6. JobsOnly
        BY <3>3, <3>4, <3>5 DEF JobsOnly, Has
      <3> QED
        BY <3>1, <3>4, <3>5, <3>6 DEF Keeps, Leaves, Has
    <2>2. CASE ~ targets[user[u].target].there
      <3>1. tests' = tests /\ user' = [user EXCEPT ![u] = Idle] /\ user[u].pc = "test"
        BY <1>10, <2>2 DEF CreateJob, Return
      <3> QED
        BY <1>0, <1>i, <3>1, JobsSame, OwnJob DEF Has
    <2> QED
      BY <2>1, <2>2
  <1>11. ASSUME NEW u \in Users, Complete(u) PROVE JobsOnly /\ Keeps /\ Leaves
    <2>1. /\ tests' = [tests EXCEPT ![user[u].job].status = Outcome(user[u].ok)]
          /\ user' = [user EXCEPT ![u] = Idle] /\ user[u].pc = "complete"
      BY <1>11 DEF Complete, Return
    <2>2. /\ DOMAIN tests' = DOMAIN tests
          /\ \A j \in DOMAIN tests :
               /\ tests'[j].target = tests[j].target
               /\ tests'[j].status = IF j = user[u].job THEN Outcome(user[u].ok)
                                     ELSE tests[j].status
      BY <1>0, <2>1, TestParts DEF Test
    <2>3. Outcome(user[u].ok) # "running"
      BY DEF Outcome
    <2>4. \A v \in Users : user'[v] = IF v = u THEN Idle ELSE user[v]
      BY <1>0, <2>1 DEF TypeOK
    <2>5. user[u].job \in DOMAIN tests
      BY <1>0, <2>1 DEF HeldJobs, HoldsJob
    <2> QED
      BY <1>i, <2>2, <2>3, <2>4, <2>5 DEF JobsOnly, Keeps, Leaves
  <1> QED
    BY <1>1, <1>2, <1>3, <1>4, <1>5, <1>6, <1>7, <1>8, <1>9, <1>10, <1>11 DEF Next

LEMMA HeldJobsNext == IInv /\ [Next]_vars => HeldJobs'
  <1> SUFFICES ASSUME IInv, [Next]_vars, NEW v \in Users, Has(user'[v])
               PROVE  /\ user'[v].job \in DOMAIN tests'
                      /\ tests'[user'[v].job].target \in {user'[v].target, NoTarget}
    BY DEF HeldJobs, HoldsJob, Has
  <1>0. TypeOK /\ HeldJobs /\ HeldRows
    BY DEF IInv
  <1>1. JobsOnly /\ Keeps
    BY JobSteps
  <1>2. CASE Has(user[v]) /\ user'[v].job = user[v].job /\ user'[v].target = user[v].target
    <2>1. user[v].job \in DOMAIN tests /\ tests[user[v].job].target \in {user[v].target, NoTarget}
      BY <1>0, <1>2 DEF HeldJobs, HoldsJob, Has
    <2> QED
      BY <1>1, <1>2, <2>1 DEF JobsOnly
  <1>3. ASSUME tests' = Append(tests, [target |-> user[v].target, status |-> "running"]),
               user'[v].job = Len(tests) + 1, user'[v].target = user[v].target
        PROVE  /\ user'[v].job \in DOMAIN tests'
               /\ tests'[user'[v].job].target \in {user'[v].target, NoTarget}
    <2>1. tests \in Seq(Test)
      BY <1>0 DEF TypeOK
    <2>2. [target |-> user[v].target, status |-> "running"] \in Test
      BY <1>0, UserParts DEF Test
    <2> QED
      BY <1>3, <2>1, <2>2, Appended
  <1> QED
    BY <1>1, <1>2, <1>3 DEF Keeps

LEMMA Refused == [Next]_vars => refused \subseteq refused'
  <1> SUFFICES ASSUME [Next]_vars PROVE refused \subseteq refused'
    OBVIOUS
  <1>1. ASSUME NEW t \in Targets, Create(t) \/ Delete(t) PROVE refused' = refused
    BY <1>1, Zenon DEF Create, Delete
  <1>2. ASSUME NEW u \in Users, NEW t \in Targets, BeginEdit(u, t) \/ BeginTest(u, t)
        PROVE  refused' = refused
    BY <1>2, Zenon DEF BeginEdit, BeginTest
  <1>3. ASSUME NEW u \in Users,
               \/ StoreEdit(u) \/ EditRefused(u) \/ CreateJob(u) \/ StoreTest(u) \/ TestRefused(u)
               \/ Complete(u) \/ Break(u) \/ \E ok \in BOOLEAN : CheckConnection(u, ok)
        PROVE  refused \subseteq refused'
    BY <1>3 DEF StoreEdit, EditRefused, CreateJob, StoreTest, TestRefused, Complete, Break,
                CheckConnection
  <1>4. CASE UNCHANGED vars
    BY <1>4 DEF vars
  <1> QED
    BY <1>1, <1>2, <1>3, <1>4 DEF Next

LEMMA OrphansNext == IInv /\ [Next]_vars => TestOrphanCause'
  <1> SUFFICES ASSUME IInv, [Next]_vars, NEW j \in DOMAIN tests', tests'[j].status = "running"
               PROVE  \/ \E u \in Users : Has(user'[u]) /\ user'[u].job = j
                      \/ tests'[j].target = NoTarget
                      \/ j \in refused'
    BY DEF TestOrphanCause, Has
  <1>0. TestOrphanCause
    BY DEF IInv
  <1>1. JobsOnly /\ Leaves
    BY JobSteps
  <1>2. CASE j \notin DOMAIN tests
    BY <1>1, <1>2 DEF JobsOnly
  <1>3. CASE j \in DOMAIN tests
    <2>1. tests[j].status = "running" /\ tests'[j].target \in {tests[j].target, NoTarget}
      BY <1>1, <1>3 DEF JobsOnly
    <2>2. CASE tests[j].target = NoTarget
      BY <2>1, <2>2
    <2>3. CASE j \in refused
      <3>1. refused \subseteq refused'
        BY Refused
      <3> QED
        BY <2>3, <3>1
    <2>4. ASSUME NEW u \in Users, Has(user[u]), user[u].job = j
          PROVE  \/ Has(user'[u]) /\ user'[u].job = j
                 \/ tests'[j].target = NoTarget
                 \/ j \in refused'
      BY <1>1, <2>1, <2>4 DEF Leaves
    <2> QED
      BY <1>0, <1>3, <2>1, <2>2, <2>3, <2>4 DEF TestOrphanCause, Has
  <1> QED
    BY <1>2, <1>3

-----------------------------------------------------------------------------
(* Forms and statuses *)

LEMMA Verdicts ==
    ASSUME NEW r \in Row, NEW ok
    PROVE  /\ FormOf(Tested(r, ok)) = FormOf(r) /\ Tested(r, ok).there = r.there
           /\ Tested(r, ok).status = IF ok THEN "online" ELSE "offline"
  BY DEF Tested, FormOf, Row

(* What a form makes of a row depends on the row's form alone. *)
LEMMA Fillings ==
    ASSUME NEW r \in Row, NEW s \in Row, NEW f \in Form, f.auth = "none" => f.secret = 0
    PROVE  /\ Filled(r, f).status = r.status /\ Meant(s, f).status = s.status
           /\ f.auth = "none" \/ f.secret # 0 => FormOf(Meant(s, f)) = FormOf(f)
           /\ FormOf(r) = FormOf(s) => FormOf(Filled(r, f)) = FormOf(Meant(s, f))
  BY DEF Filled, Meant, FormOf, Row, Form, Auths

LEMMA EditKeptNext == IInv /\ [Next]_vars => EditKept' /\ StatusIsLastTest'
  <1> SUFFICES ASSUME IInv, [Next]_vars PROVE EditKept' /\ StatusIsLastTest'
    OBVIOUS
  <1>0. TypeOK /\ HeldRows /\ EditKept /\ StatusIsLastTest
    BY DEF IInv
  <1>1. CASE UNCHANGED <<targets, asked, formInDoubt, statusInDoubt>>
    BY <1>0, <1>1 DEF EditKept, StatusIsLastTest
  <1>2. ASSUME NEW t \in Targets, Create(t) PROVE EditKept' /\ StatusIsLastTest'
    <2> DEFINE new == [Absent EXCEPT !.there = TRUE]
    <2>1. PICK f \in Forms(TRUE) :
            /\ targets' = [targets EXCEPT ![t] = Filled(new, f)]
            /\ asked' = [asked EXCEPT ![t] = Meant(new, f)]
      BY <1>2 DEF Create
    <2>2. formInDoubt' = formInDoubt /\ statusInDoubt' = statusInDoubt
      BY <1>2, Zenon DEF Create
    <2>3. f \in Form /\ (f.auth = "none" => f.secret = 0)
      BY <1>0, FormTypes DEF Forms
    <2>4. new \in Row
      BY Constants DEF Row
    <2> HIDE DEF new
    <2>5. /\ FormOf(Filled(new, f)) = FormOf(Meant(new, f))
          /\ Filled(new, f).status = Meant(new, f).status
      BY <2>3, <2>4, Fillings
    <2>6. \A s \in Targets :
            IF s = t THEN targets'[s] = Filled(new, f) /\ asked'[s] = Meant(new, f)
                     ELSE targets'[s] = targets[s] /\ asked'[s] = asked[s]
      BY <1>0, <2>1 DEF TypeOK
    <2> QED
      BY <1>0, <2>2, <2>5, <2>6 DEF EditKept, StatusIsLastTest
  <1>3. ASSUME NEW t \in Targets, Delete(t) PROVE EditKept' /\ StatusIsLastTest'
    <2>1. /\ targets' = [targets EXCEPT ![t].there = FALSE]
          /\ UNCHANGED <<asked, formInDoubt, statusInDoubt>>
      BY <1>3 DEF Delete
    <2>2. \A s \in Targets : targets'[s].there => targets'[s] = targets[s]
      BY <1>0, <2>1, RowParts DEF TypeOK, Row
    <2>3. \A s \in Targets : targets'[s].there => targets[s].there
      BY <2>2
    <2> QED
      BY <1>0, <2>1, <2>2, <2>3 DEF EditKept, StatusIsLastTest
  <1>4. ASSUME NEW u \in Users, StoreEdit(u) PROVE EditKept' /\ StatusIsLastTest'
    <2> DEFINE t == user[u].target
               f == user[u].form
               row == user[u].row
    <2>1. /\ user[u].pc = "edit" /\ targets[t].there
          /\ targets' = [targets EXCEPT ![t] = row]
          /\ asked' = [asked EXCEPT ![t] = Meant(asked[t], f)]
          /\ formInDoubt' = IF f.auth = "none" \/ f.secret # 0 THEN formInDoubt \ {t}
                            ELSE IF user[u].stale THEN formInDoubt \cup {t} ELSE formInDoubt
          /\ statusInDoubt' = IF user[u].stale THEN statusInDoubt \cup {t} ELSE statusInDoubt
      BY <1>4 DEF StoreEdit, Writable
    <2>2. t \in Targets /\ Holds(user[u], targets[t])
      BY <1>0, <2>1 DEF HeldRows
    <2>3. /\ f \in Form /\ (f.auth = "none" => f.secret = 0)
          /\ f.auth = "none" \/ f.secret # 0 => FormOf(row) = FormOf(f)
          /\ ~ user[u].stale => row = Filled(targets[t], f)
      BY <2>1, <2>2 DEF Holds, FormOf
    <2>4. /\ targets[t] \in Row /\ asked[t] \in Row
      BY <1>0, <2>2, RowParts
    <2> HIDE DEF t, f, row
    <2>5. \A s \in Targets :
            IF s = t THEN targets'[s] = row /\ asked'[s] = Meant(asked[t], f)
                     ELSE targets'[s] = targets[s] /\ asked'[s] = asked[s]
      BY <1>0, <2>1 DEF TypeOK
    <2>6. t \notin formInDoubt' => FormOf(row) = FormOf(Meant(asked[t], f))
      BY <1>0, <2>1, <2>2, <2>3, <2>4, Fillings DEF EditKept
    <2>7. t \notin statusInDoubt' => row.status = Meant(asked[t], f).status
      BY <1>0, <2>1, <2>2, <2>3, <2>4, Fillings DEF StatusIsLastTest
    <2> QED
      BY <1>0, <2>1, <2>5, <2>6, <2>7 DEF EditKept, StatusIsLastTest
  <1>5. ASSUME NEW u \in Users, StoreTest(u) PROVE EditKept' /\ StatusIsLastTest'
    <2> DEFINE t == user[u].target
               row == user[u].row
               ok == user[u].ok
    <2>1. /\ user[u].pc = "store" /\ targets[t].there
          /\ targets' = [targets EXCEPT ![t] = row]
          /\ asked' = [asked EXCEPT ![t] = Tested(asked[t], ok)]
          /\ formInDoubt' = IF user[u].stale THEN formInDoubt \cup {t} ELSE formInDoubt
          /\ statusInDoubt' = statusInDoubt \ {t}
      BY <1>5 DEF StoreTest, Writable
    <2>2. t \in Targets /\ Holds(user[u], targets[t])
      BY <1>0, <2>1 DEF HeldRows
    <2>3. /\ row.status = IF ok THEN "online" ELSE "offline"
          /\ ~ user[u].stale => row = Tested(targets[t], ok)
      BY <2>1, <2>2 DEF Holds
    <2>4. targets[t] \in Row /\ asked[t] \in Row
      BY <1>0, <2>2, RowParts
    <2> HIDE DEF t, row, ok
    <2>5. \A s \in Targets :
            IF s = t THEN targets'[s] = row /\ asked'[s] = Tested(asked[t], ok)
                     ELSE targets'[s] = targets[s] /\ asked'[s] = asked[s]
      BY <1>0, <2>1 DEF TypeOK
    <2>6. t \notin formInDoubt' => FormOf(row) = FormOf(Tested(asked[t], ok))
      BY <1>0, <2>1, <2>2, <2>3, <2>4, Verdicts DEF EditKept
    <2>7. row.status = Tested(asked[t], ok).status
      BY <2>3, <2>4, Verdicts
    <2> QED
      BY <1>0, <2>1, <2>5, <2>6, <2>7 DEF EditKept, StatusIsLastTest
  <1>6. ASSUME NEW u \in Users, NEW t \in Targets, BeginEdit(u, t) \/ BeginTest(u, t)
        PROVE  UNCHANGED <<targets, asked, formInDoubt, statusInDoubt>>
    BY <1>6, Zenon DEF BeginEdit, BeginTest
  <1>7. ASSUME NEW u \in Users,
               \/ EditRefused(u) \/ CreateJob(u) \/ TestRefused(u) \/ Complete(u) \/ Break(u)
               \/ \E ok \in BOOLEAN : CheckConnection(u, ok)
        PROVE  UNCHANGED <<targets, asked, formInDoubt, statusInDoubt>>
    BY <1>7 DEF EditRefused, CreateJob, TestRefused, Complete, Break, CheckConnection
  <1>8. CASE UNCHANGED vars
    BY <1>1, <1>8 DEF vars
  <1> QED
    BY <1>1, <1>2, <1>3, <1>4, <1>5, <1>6, <1>7, <1>8 DEF Next

-----------------------------------------------------------------------------
(* Results *)

LEMMA Invariance == Spec => []IInv
  <1>1. IInv /\ [Next]_vars => IInv'
    BY TypesNext, HeldRowsNext, HeldJobsNext, RowsEditedNext, LinkedJobsNext, EditKeptNext,
       OrphansNext DEF IInv
  <1> QED
    BY InitInv, <1>1, PTL DEF Spec

(* Type correctness. *)
THEOREM TypeCorrect == Spec => []TypeOK
  BY Invariance, PTL DEF IInv

(* The row of a target holds what the last accepted form asked for, unless a test
   or an edit that had read the row before has written over it
   (KongTargetUseCase.Update and TestConnection). *)
THEOREM EditIsKept == Spec => []EditKept
  BY Invariance, PTL DEF IInv

(* Its status is the outcome of the last test, unless an edit that had read the
   row before has written its status back. *)
THEOREM StatusIsOfLastTest == Spec => []StatusIsLastTest
  BY Invariance, PTL DEF IInv

(* A test job stays running only if its target is deleted, its row is refused by
   SQLite, or its request is given up. *)
THEOREM TestOrphans == Spec => []TestOrphanCause
  BY Invariance, PTL DEF IInv

=============================================================================
