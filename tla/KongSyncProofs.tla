--------------------------- MODULE KongSyncProofs ---------------------------
(***************************************************************************)
(* Theorems about KongSync, for any certificates, targets, callers and     *)
(* bounds.                                                                 *)
(***************************************************************************)
EXTENDS KongSync, TLAPS

-----------------------------------------------------------------------------
(* The inductive invariant *)

AtLink == {"create", "send", "wait", "upsert", "complete"}

(* A caller works on one of the links it has read. *)
OnLink(o) ==
    /\ o.pc # "idle" => o.cert \in Certs
    /\ o.pc \in AtLink \/ (o.pc = "files" /\ o.one) => o.target \in o.todo

OnItsLink == \A w \in Callers : OnLink(op[w])

(* The job of a caller is running, and nobody else's. *)
OwnJobs ==
    \A w \in Callers : InFlight(w) =>
        /\ op[w].job \in DOMAIN jobs
        /\ jobs[op[w].job].status = "running"
        /\ \A v \in Callers \ {w} : InFlight(v) => op[v].job # op[w].job

(* A request belongs to the link its sender is on, as long as the job it was
   sent for is in hand: so an answer goes to the link it is for. *)
OwnRequests ==
    \A r \in net :
        /\ r.job \in DOMAIN jobs
        /\ \A w \in Callers : InFlight(w) /\ op[w].job = r.job =>
              op[w].pc # "send" /\ r.for = Current(w)

IInv == TypeOK /\ OnItsLink /\ OwnJobs /\ OwnRequests /\ KongOwnership

(* Nobody is engaged on a link that was not asked for, or lost to a race. *)
EngagedByChoice == \A w \in Callers : Engaged(w) \subseteq chosen \cup stray

-----------------------------------------------------------------------------
(* Types *)

LEMMA IdleType == Idle \in Op
  BY DEF Idle, Op, Pcs

(* What Goto and Return make of the operations. *)
LEMMA Gone ==
    ASSUME op \in [Callers -> Op], NEW w \in Callers, NEW pc \in Pcs, Goto(w, pc)
    PROVE  /\ op' \in [Callers -> Op]
           /\ op'[w] = [op[w] EXCEPT !.pc = pc]
           /\ \A v \in Callers \ {w} : op'[v] = op[v]
<1>1. op[w] \in Op
  OBVIOUS
<1>2. [op[w] EXCEPT !.pc = pc] \in Op
  BY <1>1 DEF Op
<1> QED
  BY <1>2 DEF Goto

LEMMA Returned ==
    ASSUME op \in [Callers -> Op], NEW w \in Callers, Return(w)
    PROVE  /\ op' \in [Callers -> Op]
           /\ op'[w] = Idle
           /\ \A v \in Callers \ {w} : op'[v] = op[v]
  BY IdleType DEF Return

(* Rows of sequences: appending one, rewriting them. *)
LEMMA Appended ==
    ASSUME NEW R, NEW s \in Seq(R), NEW r \in R
    PROVE  /\ Append(s, r) \in Seq(R)
           /\ DOMAIN Append(s, r) = DOMAIN s \cup {Len(s) + 1}
           /\ Append(s, r)[Len(s) + 1] = r
           /\ Len(s) + 1 \notin DOMAIN s
           /\ \A j \in DOMAIN s : Append(s, r)[j] = s[j]
  OBVIOUS

LEMMA Rewritten ==
    ASSUME NEW R, NEW s \in Seq(R), NEW t,
           t = [j \in DOMAIN s |-> t[j]], \A j \in DOMAIN s : t[j] \in R
    PROVE  t \in Seq(R) /\ DOMAIN t = DOMAIN s
  OBVIOUS

LEMMA RowsOf ==
    ASSUME NEW R, NEW s \in Seq(R)
    PROVE  /\ DOMAIN s = 1 .. Len(s) /\ Len(s) \in Nat
           /\ \A j \in DOMAIN s : s[j] \in R
  OBVIOUS

(* The link of a caller that is at one. *)
LEMMA LinkOf ==
    ASSUME TypeOK, OnItsLink, NEW w \in Callers, op[w].pc \in AtLink
    PROVE  /\ op[w].cert \in Certs /\ op[w].target \in Targets
           /\ op[w].target \in op[w].todo
           /\ Current(w) \in Links /\ Current(w) \in Engaged(w)
           /\ op[w].held[op[w].target] \in Nat
<1>1. op[w] \in Op
  BY DEF TypeOK
<1>2. op[w].cert \in Certs /\ op[w].target \in op[w].todo
  BY DEF OnItsLink, OnLink, AtLink
<1> QED
  BY <1>1, <1>2 DEF Op, Current, Links, Engaged, AtLink

LEMMA InitType == Init => TypeOK
  BY IdleType DEF Init, TypeOK, Link, NotLinked

(* Where a step leaves the operations. *)
OpsGood == op \in [Callers -> Op] /\ OnItsLink

LEMMA Moved ==
    ASSUME OpsGood, NEW w \in Callers, op'[w] \in Op, OnLink(op'[w]),
           op' = [op EXCEPT ![w] = op'[w]]
    PROVE  OpsGood'
  BY DEF OpsGood, OnItsLink

LEMMA MovedOn ==
    ASSUME OpsGood, NEW w \in Callers, NEW pc \in Pcs, Goto(w, pc),
           op[w].pc # "idle", pc \in AtLink => op[w].pc \in AtLink, pc # "files"
    PROVE  OpsGood'
<1>1. op[w] \in Op /\ OnLink(op[w])
  BY DEF OpsGood, OnItsLink
<1>2. /\ op' \in [Callers -> Op]
      /\ op'[w] = [op[w] EXCEPT !.pc = pc]
      /\ \A v \in Callers \ {w} : op'[v] = op[v]
  BY Gone DEF OpsGood
<1>3. OnLink(op'[w])
  BY <1>1, <1>2 DEF OnLink, Op, AtLink
<1> QED
  BY <1>2, <1>3 DEF OpsGood, OnItsLink

LEMMA MovedOut ==
    ASSUME OpsGood, NEW w \in Callers, Return(w)
    PROVE  OpsGood'
  BY Returned, IdleType DEF OpsGood, OnItsLink, OnLink, Idle, AtLink

LEMMA StepOps ==
    ASSUME TypeOK, OpsGood, NEW w \in Callers, Step(w)
    PROVE  OpsGood'
<1> USE DEF At
<1>0. op[w] \in Op /\ OnLink(op[w])
  BY DEF OpsGood, OnItsLink
<1>1. CASE ReadInputs(w)
  <2>1. CASE Wanted(w) = {}
    BY <1>1, <2>1, MovedOut DEF ReadInputs
  <2>2. CASE Wanted(w) # {}
    <3>1. \A t \in Targets : links[<<op[w].cert, t>>].id \in Nat
      BY <1>0, <1>1 DEF ReadInputs, OnLink, TypeOK, Links, Link
    <3>2. version[op[w].cert] \in Nat
      BY <1>0, <1>1 DEF ReadInputs, OnLink, TypeOK
    <3>3. [t \in Targets |-> links[<<op[w].cert, t>>].id] \in [Targets -> Nat]
      BY <3>1
    <3>4. Wanted(w) \in SUBSET Targets
      BY DEF Wanted
    <3> DEFINE h == [t \in Targets |-> links[<<op[w].cert, t>>].id]
    <3>5. op' = [op EXCEPT ![w].pc = IF op[w].one THEN "target" ELSE "files",
                           ![w].todo = Wanted(w), ![w].held = h,
                           ![w].version = version[op[w].cert]]
      BY <1>1, <2>2 DEF ReadInputs
    <3>6. h \in [Targets -> Nat]
      BY <3>3
    <3> HIDE DEF h
    <3>7. op'[w] \in Op
      BY <1>0, <3>2, <3>4, <3>5, <3>6 DEF Op, Pcs, OpsGood
    <3>8. op' = [op EXCEPT ![w] = op'[w]]
      BY <3>5 DEF OpsGood
    <3>9. /\ op'[w].pc = (IF op[w].one THEN "target" ELSE "files")
          /\ op'[w].one = op[w].one /\ op'[w].cert = op[w].cert
      BY <1>0, <3>5 DEF OpsGood, Op
    <3>10. OnLink(op'[w])
      BY <1>0, <1>1, <3>9 DEF OnLink, AtLink, ReadInputs
    <3> QED
      BY <3>7, <3>8, <3>10, Moved
  <2> QED
    BY <2>1, <2>2
<1>2. CASE ReadFiles(w)
  <2>1. version[op[w].cert] \in Nat
    BY <1>0, <1>2 DEF ReadFiles, OnLink, TypeOK
  <2>2. op'[w] \in Op /\ OnLink(op'[w]) /\ op' = [op EXCEPT ![w] = op'[w]]
    BY <1>0, <1>2, <2>1 DEF ReadFiles, OpsGood, OnLink, Op, Pcs, AtLink
  <2> QED
    BY <2>2, Moved
<1>3. CASE NextTarget(w)
  <2>1. CASE Return(w)
    BY <2>1, MovedOut
  <2>2. CASE ~ Return(w)
    <3>1. PICK t \in op[w].todo :
             \/ op' = [op EXCEPT ![w].pc = IF op[w].one THEN "files" ELSE "create",
                                 ![w].target = t]
             \/ op' = [op EXCEPT ![w].todo = @ \ {t}]
      BY <1>3, <2>2 DEF NextTarget
    <3>2. t \in Targets /\ op[w].pc = "target" /\ op[w].cert \in Certs
      BY <1>0, <1>3 DEF Op, NextTarget, OnLink
    <3>3. CASE op' = [op EXCEPT ![w].todo = @ \ {t}]
      <4>1. op'[w] = [op[w] EXCEPT !.todo = @ \ {t}] /\ op' = [op EXCEPT ![w] = op'[w]]
        BY <3>3 DEF OpsGood
      <4>2. op'[w] \in Op /\ OnLink(op'[w])
        BY <1>0, <3>2, <4>1 DEF Op, OnLink, AtLink
      <4> QED
        BY <4>1, <4>2, Moved
    <3>4. CASE op' = [op EXCEPT ![w].pc = IF op[w].one THEN "files" ELSE "create",
                                ![w].target = t]
      <4> DEFINE pc == IF op[w].one THEN "files" ELSE "create"
      <4>1. /\ op'[w] = [op[w] EXCEPT !.pc = pc, !.target = t]
            /\ op' = [op EXCEPT ![w] = op'[w]]
        BY <3>4 DEF OpsGood
      <4>2. pc \in Pcs /\ pc \in {"files", "create"}
        BY DEF Pcs
      <4> HIDE DEF pc
      <4>3. op'[w] \in Op
        BY <1>0, <3>2, <4>1, <4>2 DEF Op
      <4>4. OnLink(op'[w])
        BY <1>0, <3>2, <4>1, <4>2 DEF Op, OnLink, AtLink
      <4> QED
        BY <4>1, <4>3, <4>4, Moved
    <3> QED
      BY <3>1, <3>3, <3>4
  <2> QED
    BY <2>1, <2>2
<1>4. CASE CreateJob(w)
  <2>1. CASE Referenced(w)
    <3>1. Len(jobs) + 1 \in Nat
      BY DEF TypeOK
    <3>2. op'[w] \in Op /\ OnLink(op'[w]) /\ op' = [op EXCEPT ![w] = op'[w]]
      BY <1>0, <1>4, <2>1, <3>1 DEF CreateJob, OpsGood, OnLink, Op, Pcs, AtLink
    <3> QED
      BY <3>2, Moved
  <2> QED
    BY <1>4, <2>1, MovedOut DEF CreateJob, EndsEarly
<1>5. CASE Send(w)
  BY <1>5, MovedOn DEF Send, Pcs, AtLink
<1>6. CASE Timeout(w)
  <2>1. op'[w] \in Op /\ OnLink(op'[w]) /\ op' = [op EXCEPT ![w] = op'[w]]
    BY <1>0, <1>6 DEF Timeout, TimedOut, OpsGood, OnLink, Op, Pcs, AtLink
  <2> QED
    BY <2>1, Moved
<1>7. CASE Upsert(w)
  <2>1. CASE Referenced(w)
    BY <1>7, <2>1, MovedOn DEF Upsert, Pcs, AtLink
  <2> QED
    BY <1>7, <2>1, MovedOut DEF Upsert, EndsEarly
<1>8. CASE Complete(w)
  <2>1. CASE op[w].todo = {op[w].target}
    BY <1>8, <2>1, MovedOut DEF Complete
  <2>2. CASE op[w].todo # {op[w].target}
    <3>1. op'[w] \in Op /\ OnLink(op'[w]) /\ op' = [op EXCEPT ![w] = op'[w]]
      BY <1>0, <1>8, <2>2 DEF Complete, OpsGood, OnLink, Op, Pcs, AtLink
    <3> QED
      BY <3>1, Moved
  <2> QED
    BY <2>1, <2>2
<1> QED
  BY <1>1, <1>2, <1>3, <1>4, <1>5, <1>6, <1>7, <1>8 DEF Step

(* An answer moves the caller that waits for it, on the same link. *)
LEMMA AnsweredOps ==
    ASSUME OpsGood, NEW r, NEW id \in Nat, NEW ok \in BOOLEAN, Answered(r, id, ok)
    PROVE  /\ OpsGood'
           /\ \A w \in Callers :
                \/ op'[w] = op[w]
                \/ /\ op[w].pc = "wait" /\ op[w].job = r.job
                   /\ op'[w] = [op[w] EXCEPT !.pc = "upsert", !.id = id, !.ok = ok]
<1> DEFINE told(w) == [op[w] EXCEPT !.pc = "upsert", !.id = id, !.ok = ok]
<1>1. ASSUME NEW w \in Callers
      PROVE  told(w) \in Op /\ (OnLink(op[w]) /\ op[w].pc = "wait" => OnLink(told(w)))
  <2>1. op[w] \in Op
    BY DEF OpsGood
  <2>2. told(w) \in Op
    BY <2>1 DEF Op, Pcs
  <2>3. /\ told(w).pc = "upsert" /\ told(w).cert = op[w].cert
        /\ told(w).target = op[w].target /\ told(w).todo = op[w].todo
    BY <2>1 DEF Op
  <2> QED
    BY <2>2, <2>3 DEF OnLink, AtLink
<1>2. op' \in [Callers -> Op]
  BY <1>1 DEF Answered, OpsGood
<1>3. \A w \in Callers :
        \/ op'[w] = op[w]
        \/ /\ op[w].pc = "wait" /\ op[w].job = r.job
           /\ op'[w] = [op[w] EXCEPT !.pc = "upsert", !.id = id, !.ok = ok]
  BY DEF Answered
<1>4. \A w \in Callers : OnLink(op[w])
  BY DEF OpsGood, OnItsLink
<1> QED
  BY <1>1, <1>2, <1>3, <1>4 DEF OpsGood, OnItsLink

LEMMA IdAnsweredType ==
    ASSUME TypeOK, NEW r \in net
    PROVE  IdAnswered(r) \in Nat
<1>1. r.id \in Nat /\ Len(kong) \in Nat
  BY DEF TypeOK, Request
<1> QED
  BY <1>1 DEF IdAnswered

(* Beginning, ending or leaving alone. *)
LEMMA OtherOps ==
    ASSUME TypeOK, OpsGood, [Next]_vars, ~ \E w \in Callers : Step(w)
    PROVE  OpsGood'
<1> USE DEF At
<1>0. \A w \in Callers : op[w] \in Op /\ OnLink(op[w])
  BY DEF OpsGood, OnItsLink
<1>1. ASSUME NEW w \in Callers, NEW c \in Certs, NEW o, o \in Op, OnLink(o),
             op' = [op EXCEPT ![w] = o]
      PROVE  OpsGood'
  BY <1>1, Moved DEF OpsGood
<1>2. ASSUME NEW w \in Callers, NEW c \in Certs, Renew(w, c) \/ Sync(w, c) PROVE OpsGood'
  <2> DEFINE o == [Idle EXCEPT !.pc = "inputs", !.cert = c]
  <2>1. o \in Op /\ OnLink(o)
    BY IdleType DEF Op, Idle, OnLink, Pcs, AtLink
  <2>2. op' = [op EXCEPT ![w] = o]
    BY <1>2 DEF Renew, Sync
  <2> HIDE DEF o
  <2> QED
    BY <1>1, <2>1, <2>2
<1>3. ASSUME NEW w \in Callers, NEW c \in Certs, NEW t \in Targets, SyncTarget(w, c, t)
      PROVE  OpsGood'
  <2> DEFINE o == [Idle EXCEPT !.pc = "inputs", !.cert = c, !.one = TRUE, !.target = t]
  <2>1. o \in Op /\ OnLink(o)
    BY IdleType DEF Op, Idle, OnLink, Pcs, AtLink
  <2>2. op' = [op EXCEPT ![w] = o]
    BY <1>3 DEF SyncTarget
  <2> HIDE DEF o
  <2> QED
    BY <1>1, <2>1, <2>2
<1>4. ASSUME NEW w \in Callers, Abandon(w) PROVE OpsGood'
  BY <1>4, MovedOut DEF Abandon
<1>5. ASSUME NEW r \in net, Accept(r) PROVE OpsGood'
  BY <1>5, IdAnsweredType, AnsweredOps DEF Accept
<1>6. ASSUME NEW r \in net, Refuse(r) PROVE OpsGood'
  <2>1. r.id \in Nat
    BY DEF TypeOK, Request
  <2> QED
    BY <1>6, <2>1, AnsweredOps DEF Refuse
<1>7. CASE UNCHANGED op
  BY <1>7 DEF OpsGood, OnItsLink
<1> QED
  BY <1>2, <1>3, <1>4, <1>5, <1>6, <1>7
     DEF Next, vars, DeleteCertificate, DeleteTarget, SetLinkedTargets, Issue

LEMMA OpsStep == TypeOK /\ OpsGood /\ [Next]_vars => OpsGood'
  BY StepOps, OtherOps

-----------------------------------------------------------------------------
(* The tables and what Kong holds *)

LEMMA NewJobType ==
    ASSUME TypeOK, NEW w \in Callers
    PROVE  NewJob(w) \in Job /\ NewJob(w).status = "running"
<1>1. op[w] \in Op
  BY DEF TypeOK
<1> QED
  BY <1>1 DEF NewJob, Job, Op

(* An outcome changes the status of one row. *)
LEMMA CompletedType ==
    ASSUME jobs \in Seq(Job), NEW j \in DOMAIN jobs, NEW o \in {"success", "failed"},
           jobs' = [jobs EXCEPT ![j].status = o]
    PROVE  /\ jobs' \in Seq(Job)
           /\ DOMAIN jobs' = DOMAIN jobs
           /\ \A i \in DOMAIN jobs \ {j} : jobs'[i] = jobs[i]
           /\ jobs'[j] = [jobs[j] EXCEPT !.status = o]
<1> DEFINE q == [jobs[j] EXCEPT !.status = o]
<1>1. jobs[j] \in Job
  BY RowsOf
<1>2. q \in Job
  BY <1>1 DEF Job
<1>3. jobs' = [jobs EXCEPT ![j] = q]
  OBVIOUS
<1> HIDE DEF q
<1>4. jobs' \in Seq(Job)
  BY <1>2, <1>3
<1> QED
  BY <1>3, <1>4 DEF q

(* A deletion leaves the rows of jobs in place, without their reference. *)
LEMMA DetachedType ==
    ASSUME jobs \in Seq(Job),
           \/ \E c \in Certs : DeleteCertificate(c)
           \/ \E t \in Targets : DeleteTarget(t)
    PROVE  /\ jobs' \in Seq(Job)
           /\ DOMAIN jobs' = DOMAIN jobs
           /\ \A j \in DOMAIN jobs : jobs'[j].status = jobs[j].status
<1>1. \A j \in DOMAIN jobs : jobs[j] \in Job
  BY RowsOf
<1>2. \A q \in Job : /\ [q EXCEPT !.cert = NoCert] \in Job
                     /\ [q EXCEPT !.cert = NoCert].status = q.status
                     /\ [q EXCEPT !.target = NoTarget] \in Job
                     /\ [q EXCEPT !.target = NoTarget].status = q.status
  BY DEF Job
<1>3. /\ jobs' = [j \in DOMAIN jobs |-> jobs'[j]]
      /\ \A j \in DOMAIN jobs : jobs'[j] \in Job /\ jobs'[j].status = jobs[j].status
  BY <1>1, <1>2 DEF DeleteCertificate, DeleteTarget
<1> QED
  BY <1>3, Rewritten

(* The job log only grows, and what is in it stays typed. *)
LEMMA JobsStep ==
    ASSUME TypeOK, OwnJobs, [Next]_vars
    PROVE  jobs' \in Seq(Job) /\ DOMAIN jobs \subseteq DOMAIN jobs'
<1>0. jobs \in Seq(Job)
  BY DEF TypeOK
<1>1. ASSUME NEW w \in Callers, CreateJob(w), Referenced(w)
      PROVE  jobs' \in Seq(Job) /\ DOMAIN jobs \subseteq DOMAIN jobs'
  <2>1. jobs' = Append(jobs, NewJob(w))
    BY <1>1 DEF CreateJob
  <2> QED
    BY <1>0, <2>1, NewJobType, Appended
<1>2. ASSUME NEW w \in Callers, Complete(w)
      PROVE  jobs' \in Seq(Job) /\ DOMAIN jobs \subseteq DOMAIN jobs'
  <2>1. op[w].job \in DOMAIN jobs
    BY <1>2 DEF OwnJobs, Complete, At, InFlight
  <2>2. jobs' = [jobs EXCEPT ![op[w].job].status = Outcome(w)]
    BY <1>2 DEF Complete
  <2> QED
    BY <1>0, <2>1, <2>2, CompletedType DEF Outcome
<1>3. ASSUME \/ \E c \in Certs : DeleteCertificate(c)
             \/ \E t \in Targets : DeleteTarget(t)
      PROVE  jobs' \in Seq(Job) /\ DOMAIN jobs \subseteq DOMAIN jobs'
  BY <1>0, <1>3, DetachedType
<1>4. CASE UNCHANGED jobs
  BY <1>0, <1>4
<1> QED
  BY <1>1, <1>2, <1>3, <1>4
     DEF Next, vars, Step, SetLinkedTargets, Issue, Renew, Sync, SyncTarget, ReadInputs,
         ReadFiles, NextTarget, CreateJob, Send, Timeout, Upsert, Abandon, Accept, Refuse

(* Kong never forgets a certificate, nor for whom it was made. *)
LEMMA KongStep ==
    ASSUME TypeOK, KongOwnership, [Next]_vars
    PROVE  /\ kong' \in Seq(Stored)
           /\ \A id, p : MadeFor(id, p) => MadeFor(id, p)'
<1>0. kong \in Seq(Stored)
  BY DEF TypeOK
<1>1. ASSUME NEW r \in net, Accept(r), r.id = 0
      PROVE  /\ kong' \in Seq(Stored)
             /\ \A id, p : MadeFor(id, p) => MadeFor(id, p)'
  <2> DEFINE k == [for |-> r.for, version |-> r.version]
  <2>1. k \in Stored
    BY DEF TypeOK, Request, Stored
  <2>2. kong' = Append(kong, k)
    BY <1>1 DEF Accept
  <2> HIDE DEF k
  <2> QED
    BY <1>0, <2>1, <2>2, Appended DEF MadeFor
<1>2. ASSUME NEW r \in net, Accept(r), r.id # 0
      PROVE  /\ kong' \in Seq(Stored)
             /\ \A id, p : MadeFor(id, p) => MadeFor(id, p)'
  <2>1. r.id \in DOMAIN kong
    BY <1>2 DEF KongOwnership, MadeFor
  <2> DEFINE k == [kong[r.id] EXCEPT !.version = r.version]
  <2>2. kong[r.id] \in Stored /\ r.version \in Nat
    BY <1>0, <2>1, RowsOf DEF TypeOK, Request
  <2>3. k \in Stored /\ k.for = kong[r.id].for
    BY <2>2 DEF Stored
  <2>4. kong' = [kong EXCEPT ![r.id] = k]
    BY <1>2 DEF Accept
  <2> HIDE DEF k
  <2>5. kong' \in Seq(Stored)
    BY <1>0, <2>1, <2>3, <2>4
  <2> QED
    BY <1>0, <2>1, <2>3, <2>4, <2>5 DEF MadeFor
<1>3. CASE UNCHANGED kong
  BY <1>0, <1>3 DEF MadeFor
<1> QED
  BY <1>1, <1>2, <1>3
     DEF Next, vars, Step, DeleteCertificate, DeleteTarget, SetLinkedTargets, Issue, Renew,
         Sync, SyncTarget, ReadInputs, ReadFiles, NextTarget, CreateJob, Send, Timeout,
         Upsert, Complete, Abandon, Refuse

LEMMA LinksStep ==
    ASSUME TypeOK, OnItsLink, [Next]_vars
    PROVE  links' \in [Links -> Link]
<1> USE DEF At
<1>0. NotLinked \in Link /\ NewLink \in Link /\ links \in [Links -> Link]
  BY DEF NotLinked, NewLink, Link, TypeOK
<1>1. ASSUME NEW w \in Callers, Upsert(w), Referenced(w) PROVE links' \in [Links -> Link]
  <2>1. op[w] \in Op /\ op[w].held[op[w].target] \in Nat
    BY <1>1, LinkOf DEF Upsert, AtLink, TypeOK
  <2>2. LinkAfter(w) \in Link
    BY <2>1 DEF LinkAfter, Link, Op
  <2> QED
    BY <1>0, <1>1, <2>2 DEF Upsert
<1>2. ASSUME NEW c \in Certs, NEW selected \in SUBSET Targets, SetLinkedTargets(c, selected)
      PROVE  links' \in [Links -> Link]
  BY <1>0, <1>2 DEF SetLinkedTargets, Relinked
<1>3. ASSUME \/ \E c \in Certs : DeleteCertificate(c)
             \/ \E t \in Targets : DeleteTarget(t)
      PROVE  links' \in [Links -> Link]
  BY <1>0, <1>3 DEF DeleteCertificate, DeleteTarget
<1>4. CASE UNCHANGED links
  BY <1>0, <1>4
<1> QED
  BY <1>1, <1>2, <1>3, <1>4
     DEF Next, vars, Step, Issue, Renew, Sync, SyncTarget, ReadInputs, ReadFiles, NextTarget,
         CreateJob, Send, Timeout, Upsert, Complete, Abandon, Accept, Refuse

(* The requests there are after a step: those there were, and the one sent. *)
LEMMA NetStep ==
    ASSUME TypeOK, OnItsLink, [Next]_vars
    PROVE  /\ net' \in SUBSET Request
           /\ \A r \in net' : r \in net \/ \E w \in Callers : Send(w) /\ r = RequestOf(w)
<1>1. ASSUME NEW w \in Callers, Send(w) PROVE RequestOf(w) \in Request
  <2>1. op[w] \in Op /\ op[w].held[op[w].target] \in Nat /\ Current(w) \in Links
    BY <1>1, LinkOf DEF Send, At, AtLink, TypeOK
  <2> QED
    BY <2>1 DEF RequestOf, Request, Op
<1>2. ASSUME NEW w \in Callers, Send(w)
      PROVE  /\ net' \in SUBSET Request
             /\ \A r \in net' : r \in net \/ \E v \in Callers : Send(v) /\ r = RequestOf(v)
  BY <1>1, <1>2 DEF Send, TypeOK
<1>3. ASSUME NEW r \in net, Accept(r) \/ Refuse(r) PROVE net' \subseteq net
  BY <1>3 DEF Accept, Refuse
<1>4. CASE UNCHANGED net
  BY <1>4 DEF TypeOK
<1>5. net' \subseteq net =>
        /\ net' \in SUBSET Request
        /\ \A r \in net' : r \in net \/ \E w \in Callers : Send(w) /\ r = RequestOf(w)
  BY DEF TypeOK
<1> QED
  BY <1>2, <1>3, <1>4, <1>5
     DEF Next, vars, Step, DeleteCertificate, DeleteTarget, SetLinkedTargets, Issue, Renew,
         Sync, SyncTarget, ReadInputs, ReadFiles, NextTarget, CreateJob, Timeout, Upsert,
         Complete, Abandon

LEMMA EngagedLinks ==
    ASSUME TypeOK, OnItsLink, NEW w \in Callers
    PROVE  Engaged(w) \subseteq Links
<1>1. op[w] \in Op /\ OnLink(op[w])
  BY DEF TypeOK, OnItsLink
<1> QED
  BY <1>1 DEF Engaged, Links, Op, OnLink

(* What is left of the types: the sets of rows, the versions, the histories. *)
LEMMA SetsStep ==
    ASSUME TypeOK, OnItsLink, [Next]_vars
    PROVE  /\ certs' \in SUBSET Certs /\ targets' \in SUBSET Targets
           /\ version' \in [Certs -> Nat]
           /\ chosen' \in SUBSET Links /\ stray' \in SUBSET Links /\ stale' \in SUBSET Links
<1> DEFINE Sets ==
        /\ certs' \in SUBSET Certs /\ targets' \in SUBSET Targets
        /\ version' \in [Certs -> Nat]
        /\ chosen' \in SUBSET Links /\ stray' \in SUBSET Links /\ stale' \in SUBSET Links
<1>0. \A w \in Callers : op[w] \in Op /\ OnLink(op[w]) /\ Engaged(w) \subseteq Links
  BY EngagedLinks DEF TypeOK, OnItsLink
<1>1. ASSUME NEW c \in Certs, DeleteCertificate(c) PROVE Sets
  BY <1>1 DEF DeleteCertificate, TypeOK
<1>2. ASSUME NEW t \in Targets, DeleteTarget(t) PROVE Sets
  BY <1>2 DEF DeleteTarget, TypeOK
<1>3. ASSUME NEW c \in Certs, NEW selected \in SUBSET Targets, SetLinkedTargets(c, selected)
      PROVE  Sets
  <2>1. chosen' \in SUBSET Links /\ stray' \in SUBSET Links
    BY <1>3 DEF SetLinkedTargets, TypeOK, Links
  <2> QED
    BY <1>3, <2>1 DEF SetLinkedTargets, TypeOK
<1>4. ASSUME NEW c \in Certs, Issue(c) PROVE Sets
  BY <1>4 DEF Issue, TypeOK, Links
<1>5. ASSUME NEW w \in Callers, NEW c \in Certs, Renew(w, c) PROVE Sets
  BY <1>5 DEF Renew, TypeOK
<1>6. ASSUME NEW w \in Callers, ReadInputs(w) PROVE Sets
  <2>1. stray' \in SUBSET Links
    BY <1>0, <1>6 DEF ReadInputs, At, OnLink, Wanted, TypeOK, Links
  <2> QED
    BY <1>6, <2>1 DEF ReadInputs, TypeOK
<1>7. ASSUME NEW w \in Callers, CreateJob(w) \/ Upsert(w) PROVE Sets
  <2>1. stale' \in SUBSET Links
    BY <1>0, <1>7 DEF CreateJob, Upsert, EndsEarly, TypeOK
  <2> QED
    BY <1>7, <2>1 DEF CreateJob, Upsert, TypeOK
<1>8. ASSUME NEW w \in Callers, Timeout(w) PROVE Sets
  <2>1. Current(w) \in Links
    BY <1>8, LinkOf DEF Timeout, TimedOut, At, AtLink
  <2> QED
    BY <1>8, <2>1 DEF Timeout, TypeOK
<1>9. ASSUME NEW w \in Callers, Abandon(w) PROVE Sets
  BY <1>0, <1>9 DEF Abandon, At, OnLink, TypeOK, Links
<1>10. ASSUME UNCHANGED <<certs, targets, version, chosen, stray, stale>> PROVE Sets
  BY <1>10 DEF TypeOK
<1> HIDE DEF Sets
<1>11. Sets
  BY <1>1, <1>2, <1>3, <1>4, <1>5, <1>6, <1>7, <1>8, <1>9, <1>10
     DEF Next, vars, Step, Sync, SyncTarget, ReadFiles, NextTarget, Send, Complete, Accept,
         Refuse
<1> QED
  BY <1>11 DEF Sets

LEMMA TypeStep == IInv /\ [Next]_vars => TypeOK' /\ OnItsLink'
<1> SUFFICES ASSUME IInv, [Next]_vars PROVE TypeOK' /\ OnItsLink'
  OBVIOUS
<1>1. TypeOK /\ OpsGood
  BY DEF IInv, TypeOK, OpsGood
<1>2. OpsGood'
  BY <1>1, OpsStep
<1>3. jobs' \in Seq(Job) /\ kong' \in Seq(Stored)
  BY JobsStep, KongStep DEF IInv
<1> QED
  BY <1>2, <1>3, LinksStep, NetStep, SetsStep DEF IInv, TypeOK, OpsGood

-----------------------------------------------------------------------------
(* What a step does to the operation of one caller *)

(* A caller with a job has just made it, or had it, on the same link. *)
Carried(v) ==
    /\ InFlight(v)
    /\ op'[v].job = op[v].job
    /\ Current(v)' = Current(v)
    /\ op'[v].pc = "send" => op[v].pc = "send"

Created(v) ==
    /\ CreateJob(v) /\ Referenced(v)
    /\ op'[v].job = Len(jobs) + 1

(* A step of one caller leaves the others where they are. *)
LEMMA OthersKept ==
    ASSUME TypeOK, NEW w \in Callers, Step(w) \/ Abandon(w), NEW v \in Callers \ {w}
    PROVE  op'[v] = op[v]
<1>0. op \in [Callers -> Op]
  BY DEF TypeOK
<1>1. CASE Return(w)
  BY <1>0, <1>1, Returned
<1>2. CASE ~ Return(w)
  <2>1. CASE \E pc : Goto(w, pc)
    BY <1>0, <2>1 DEF Goto
  <2>2. CASE ~ \E pc : Goto(w, pc)
    BY <1>0, <1>2, <2>2 DEF Step, Abandon, ReadInputs, ReadFiles, NextTarget, CreateJob,
       EndsEarly, Send, Timeout, Upsert, Complete
  <2> QED
    BY <2>1, <2>2
<1> QED
  BY <1>1, <1>2

LEMMA FlightStep ==
    ASSUME TypeOK, [Next]_vars, NEW v \in Callers, InFlight(v)'
    PROVE  Carried(v) \/ Created(v)
<1> USE DEF At
<1>0. op \in [Callers -> Op] /\ op[v] \in Op
  BY DEF TypeOK
<1>1. CASE op'[v] = op[v]
  BY <1>1 DEF InFlight, Carried, Current
<1>2. ~ Return(v)
  BY <1>0, Returned DEF Idle, InFlight
<1>3. CASE ReadInputs(v) \/ ReadFiles(v) \/ NextTarget(v)
  <2>1. op'[v].pc \in {"inputs", "files", "target", "create"}
    <3>1. CASE ReadInputs(v)
      <4> DEFINE h == [t \in Targets |-> links[<<op[v].cert, t>>].id]
      <4>1. op' = [op EXCEPT ![v].pc = IF op[v].one THEN "target" ELSE "files",
                             ![v].todo = Wanted(v), ![v].held = h,
                             ![v].version = version[op[v].cert]]
        BY <1>2, <3>1 DEF ReadInputs
      <4> HIDE DEF h
      <4> QED
        BY <1>0, <4>1 DEF Op
    <3>2. CASE ReadFiles(v)
      BY <1>0, <3>2 DEF ReadFiles, Op
    <3>3. CASE NextTarget(v)
      BY <1>0, <1>2, <3>3 DEF NextTarget, Op
    <3> QED
      BY <1>3, <3>1, <3>2, <3>3
  <2> QED
    BY <2>1 DEF InFlight
<1>4. CASE CreateJob(v)
  <2>1. op'[v].job = Len(jobs) + 1
    BY <1>0, <1>2, <1>4 DEF CreateJob, EndsEarly, Op
  <2> QED
    BY <1>2, <1>4, <2>1 DEF CreateJob, EndsEarly, Created
<1>5. CASE Send(v)
  <2>1. op'[v] = [op[v] EXCEPT !.pc = "wait"]
    BY <1>0, <1>5 DEF Send, Goto
  <2> QED
    BY <1>0, <1>5, <2>1 DEF Send, InFlight, Carried, Current, Op
<1>6. CASE Timeout(v)
  <2>1. op'[v] = [op[v] EXCEPT !.pc = "upsert", !.ok = FALSE]
    BY <1>0, <1>6 DEF Timeout
  <2> QED
    BY <1>0, <1>6, <2>1 DEF Timeout, TimedOut, InFlight, Carried, Current, Op
<1>7. CASE Upsert(v)
  <2>1. op'[v] = [op[v] EXCEPT !.pc = "complete"]
    BY <1>0, <1>2, <1>7 DEF Upsert, EndsEarly, Goto
  <2> QED
    BY <1>0, <1>7, <2>1 DEF Upsert, InFlight, Carried, Current, Op
<1>8. CASE Complete(v)
  <2>1. op'[v].pc = "target"
    BY <1>0, <1>2, <1>8 DEF Complete, Op
  <2> QED
    BY <2>1 DEF InFlight
<1>9. ASSUME NEW r, NEW id, NEW ok, Answered(r, id, ok) PROVE Carried(v) \/ Created(v)
  <2>1. CASE op'[v] = [op[v] EXCEPT !.pc = "upsert", !.id = id, !.ok = ok]
               /\ op[v].pc = "wait"
    BY <1>0, <2>1 DEF InFlight, Carried, Current, Op
  <2>2. \/ op'[v] = op[v]
        \/ /\ op'[v] = [op[v] EXCEPT !.pc = "upsert", !.id = id, !.ok = ok]
           /\ op[v].pc = "wait"
    BY <1>9 DEF Answered
  <2> QED
    BY <1>1, <2>1, <2>2
<1>10. ASSUME NEW w \in Callers, NEW c \in Certs,
              \/ Renew(w, c) \/ Sync(w, c) \/ \E t \in Targets : SyncTarget(w, c, t)
       PROVE  Carried(v) \/ Created(v)
  <2>1. CASE w = v
    <3>1. op'[v].pc = "inputs"
      BY <1>0, <1>10, <2>1 DEF Renew, Sync, SyncTarget, Idle
    <3> QED
      BY <3>1 DEF InFlight
  <2>2. CASE w # v
    <3>1. op'[v] = op[v]
      BY <1>0, <1>10, <2>2 DEF Renew, Sync, SyncTarget
    <3> QED
      BY <1>1, <3>1
  <2> QED
    BY <2>1, <2>2
<1>11. ASSUME NEW w \in Callers, Step(w) \/ Abandon(w) PROVE Carried(v) \/ Created(v)
  <2>1. CASE w # v
    BY <1>1, <1>11, <2>1, OthersKept
  <2> QED
    BY <1>2, <1>3, <1>4, <1>5, <1>6, <1>7, <1>8, <1>11, <2>1 DEF Step, Abandon
<1>12. CASE UNCHANGED op
  BY <1>1, <1>12
<1> QED
  BY <1>9, <1>10, <1>11, <1>12
     DEF Next, vars, DeleteCertificate, DeleteTarget, SetLinkedTargets, Issue, Accept, Refuse

-----------------------------------------------------------------------------
(* Jobs and requests belong to their callers *)

(* A job keeps its status, but for the outcome its caller gives it. *)
LEMMA StatusStep ==
    ASSUME TypeOK, OwnJobs, [Next]_vars, NEW j \in DOMAIN jobs
    PROVE  \/ jobs'[j].status = jobs[j].status
           \/ \E w \in Callers : Complete(w) /\ op[w].job = j
<1>0. jobs \in Seq(Job)
  BY DEF TypeOK
<1>1. ASSUME NEW w \in Callers, CreateJob(w), Referenced(w)
      PROVE  jobs'[j].status = jobs[j].status
  <2>1. jobs' = Append(jobs, NewJob(w))
    BY <1>1 DEF CreateJob
  <2> QED
    BY <1>0, <2>1, NewJobType, Appended
<1>2. ASSUME NEW w \in Callers, Complete(w), op[w].job # j
      PROVE  jobs'[j].status = jobs[j].status
  BY <1>0, <1>2 DEF Complete
<1>3. ASSUME \/ \E c \in Certs : DeleteCertificate(c)
             \/ \E t \in Targets : DeleteTarget(t)
      PROVE  jobs'[j].status = jobs[j].status
  BY <1>0, <1>3, DetachedType
<1>4. ASSUME UNCHANGED jobs PROVE jobs'[j].status = jobs[j].status
  BY <1>4
<1> QED
  BY <1>1, <1>2, <1>3, <1>4
     DEF Next, vars, Step, SetLinkedTargets, Issue, Renew, Sync, SyncTarget, ReadInputs,
         ReadFiles, NextTarget, CreateJob, Send, Timeout, Upsert, Abandon, Accept, Refuse

(* A caller that gives its outcome has no job any more. *)
LEMMA CompleteEnds ==
    ASSUME TypeOK, NEW w \in Callers, Complete(w)
    PROVE  ~ InFlight(w)'
<1>0. op \in [Callers -> Op] /\ op[w] \in Op
  BY DEF TypeOK
<1>1. CASE Return(w)
  BY <1>0, <1>1, Returned DEF Idle, InFlight
<1>2. CASE ~ Return(w)
  <2>1. op'[w].pc = "target"
    BY <1>0, <1>2 DEF Complete, Op
  <2> QED
    BY <2>1 DEF InFlight
<1> QED
  BY <1>1, <1>2

(* The new job is one nobody had. *)
LEMMA CreatedJob ==
    ASSUME TypeOK, NEW w \in Callers, Created(w)
    PROVE  /\ op'[w].job \in DOMAIN jobs' \ DOMAIN jobs
           /\ jobs'[op'[w].job].status = "running"
           /\ \A v \in Callers \ {w} : op'[v] = op[v] /\ ~ Created(v)
<1>1. jobs' = Append(jobs, NewJob(w)) /\ jobs \in Seq(Job)
  BY DEF Created, CreateJob, TypeOK
<1>2. /\ op'[w].job \in DOMAIN jobs' \ DOMAIN jobs
      /\ jobs'[op'[w].job].status = "running"
  BY <1>1, NewJobType, Appended DEF Created
<1>3. op \in [Callers -> Op]
  BY DEF TypeOK
<1>4. \A v \in Callers \ {w} : op'[v] = op[v]
  BY OthersKept DEF Created, Step
<1>5. \A v \in Callers : Created(v) => op[v].pc = "create" /\ op'[v] # op[v]
  <2> SUFFICES ASSUME NEW v \in Callers, Created(v)
               PROVE  op[v].pc = "create" /\ op'[v] # op[v]
    OBVIOUS
  <2>1. op'[v].pc \in {"upsert", "send"} /\ op[v].pc = "create"
    <3>1. op[v] \in Op
      BY <1>3
    <3> QED
      BY <1>3, <3>1 DEF Created, CreateJob, At, Op
  <2> QED
    BY <2>1
<1> QED
  BY <1>2, <1>4, <1>5

LEMMA OwnJobsStep ==
    ASSUME TypeOK, OwnJobs, [Next]_vars
    PROVE  OwnJobs'
<1>1. ASSUME NEW w \in Callers, InFlight(w)'
      PROVE  op'[w].job \in DOMAIN jobs' /\ jobs'[op'[w].job].status = "running"
  <2>1. CASE Carried(w)
    <3>1. /\ op[w].job \in DOMAIN jobs /\ jobs[op[w].job].status = "running"
          /\ \A v \in Callers \ {w} : InFlight(v) => op[v].job # op[w].job
      BY <2>1 DEF Carried, OwnJobs
    <3>2. \A v \in Callers : Complete(v) => InFlight(v) /\ v # w
      BY <1>1, CompleteEnds DEF Complete, At, InFlight
    <3>3. jobs'[op[w].job].status = "running"
      BY <3>1, <3>2, StatusStep
    <3> QED
      BY <2>1, <3>1, <3>3, JobsStep DEF Carried
  <2>2. CASE Created(w)
    BY <2>2, CreatedJob
  <2> QED
    BY <1>1, <2>1, <2>2, FlightStep
<1>2. ASSUME NEW w \in Callers, InFlight(w)', NEW v \in Callers \ {w}, InFlight(v)'
      PROVE  op'[v].job # op'[w].job
  <2>1. \A u \in Callers : Carried(u) => op'[u].job \in DOMAIN jobs
    BY DEF Carried, OwnJobs
  <2>2. CASE Carried(w) /\ Carried(v)
    BY <2>2 DEF Carried, OwnJobs
  <2>3. CASE Created(w)
    BY <1>2, <2>1, <2>3, CreatedJob, FlightStep
  <2>4. CASE Created(v)
    BY <1>2, <2>1, <2>4, CreatedJob, FlightStep
  <2> QED
    BY <1>2, <2>2, <2>3, <2>4, FlightStep
<1> QED
  BY <1>1, <1>2 DEF OwnJobs, InFlight

LEMMA OwnRequestsStep ==
    ASSUME TypeOK, OnItsLink, OwnJobs, OwnRequests, [Next]_vars
    PROVE  OwnRequests'
<1>1. ASSUME NEW r \in net
      PROVE  /\ r.job \in DOMAIN jobs'
             /\ \A w \in Callers : InFlight(w)' /\ op'[w].job = r.job =>
                   op'[w].pc # "send" /\ r.for = Current(w)'
  <2>1. r.job \in DOMAIN jobs
    BY DEF OwnRequests
  <2>2. ASSUME NEW w \in Callers, InFlight(w)', op'[w].job = r.job
        PROVE  op'[w].pc # "send" /\ r.for = Current(w)'
    <3>1. Carried(w)
      BY <2>1, <2>2, CreatedJob, FlightStep
    <3> QED
      BY <2>2, <3>1 DEF Carried, OwnRequests
  <2> QED
    BY <2>1, <2>2, JobsStep
<1>2. ASSUME NEW v \in Callers, Send(v), NEW r, r = RequestOf(v)
      PROVE  /\ r.job \in DOMAIN jobs'
             /\ \A w \in Callers : InFlight(w)' /\ op'[w].job = r.job =>
                   op'[w].pc # "send" /\ r.for = Current(w)'
  <2>1. r.job = op[v].job /\ r.for = Current(v)
    BY <1>2 DEF RequestOf
  <2>2. InFlight(v) /\ op[v].job \in DOMAIN jobs
    BY <1>2 DEF Send, At, InFlight, OwnJobs
  <2>3. op'[v].pc = "wait"
    <3>1. op[v] \in Op /\ op'[v] = [op[v] EXCEPT !.pc = "wait"]
      BY <1>2 DEF Send, TypeOK, Goto
    <3> QED
      BY <3>1 DEF Op
  <2>4. ASSUME NEW w \in Callers, InFlight(w)', op'[w].job = r.job
        PROVE  op'[w].pc # "send" /\ r.for = Current(w)'
    <3>1. Carried(w)
      BY <2>1, <2>2, <2>4, CreatedJob, FlightStep
    <3>2. w = v
      BY <2>1, <2>2, <2>4, <3>1 DEF Carried, OwnJobs
    <3> QED
      BY <2>1, <2>3, <3>1, <3>2 DEF Carried
  <2> QED
    BY <2>1, <2>2, <2>4, JobsStep
<1> QED
  BY <1>1, <1>2, NetStep DEF OwnRequests, InFlight, Current

-----------------------------------------------------------------------------
(* Kong ids *)

(* A link a caller is engaged on was so before, with the id it had then, or
   has just been read from the table. *)
LEMMA EngagedStep ==
    ASSUME TypeOK, OnItsLink, [Next]_vars, NEW v \in Callers, NEW p \in Engaged(v)'
    PROVE  \/ p \in Engaged(v) /\ op'[v].held = op[v].held
           \/ /\ ReadInputs(v) /\ ~ Return(v)
              /\ op'[v].held[p[2]] = links[p].id
              /\ links[p].linked
<1> DEFINE Same == p \in Engaged(v) /\ op'[v].held = op[v].held
<1> USE DEF At
<1>0. op \in [Callers -> Op] /\ op[v] \in Op /\ OnLink(op[v])
  BY DEF TypeOK, OnItsLink
<1>a. p \in {op'[v].cert} \X op'[v].todo /\ op'[v].pc \notin {"idle", "inputs"}
  BY DEF Engaged
<1>b. ASSUME op'[v].cert = op[v].cert, op'[v].todo \subseteq op[v].todo,
             op'[v].held = op[v].held, op[v].pc \notin {"idle", "inputs"}
      PROVE  Same
  BY <1>a, <1>b DEF Engaged
<1>1. ASSUME op'[v] = op[v] PROVE Same
  BY <1>1 DEF Engaged
<1>2. ~ Return(v)
  BY <1>0, Returned DEF Idle, Engaged
<1>3. ASSUME ReadFiles(v) PROVE Same
  <2>1. /\ op'[v].cert = op[v].cert /\ op'[v].todo = op[v].todo
        /\ op'[v].held = op[v].held /\ op[v].pc = "files"
    BY <1>0, <1>3 DEF ReadFiles, Op
  <2> QED
    BY <1>b, <2>1
<1>4. ASSUME NextTarget(v) PROVE Same
  <2>1. /\ op'[v].cert = op[v].cert /\ op'[v].todo \subseteq op[v].todo
        /\ op'[v].held = op[v].held /\ op[v].pc = "target"
    BY <1>0, <1>2, <1>4 DEF NextTarget, Op
  <2> QED
    BY <1>b, <2>1
<1>5. ASSUME CreateJob(v) PROVE Same
  <2>1. /\ op'[v].cert = op[v].cert /\ op'[v].todo = op[v].todo
        /\ op'[v].held = op[v].held /\ op[v].pc = "create"
    BY <1>0, <1>2, <1>5 DEF CreateJob, EndsEarly, Op
  <2> QED
    BY <1>b, <2>1
<1>6. ASSUME NEW pc, Goto(v, pc), op[v].pc \notin {"idle", "inputs"} PROVE Same
  <2>1. op'[v] = [op[v] EXCEPT !.pc = pc]
    BY <1>0, <1>6 DEF Goto
  <2>2. /\ op'[v].cert = op[v].cert /\ op'[v].todo = op[v].todo
        /\ op'[v].held = op[v].held
    BY <1>0, <2>1 DEF Op
  <2> QED
    BY <1>b, <1>6, <2>2
<1>7. ASSUME Timeout(v) PROVE Same
  <2>1. /\ op'[v].cert = op[v].cert /\ op'[v].todo = op[v].todo
        /\ op'[v].held = op[v].held /\ op[v].pc = "wait"
    BY <1>0, <1>7 DEF Timeout, TimedOut, Op
  <2> QED
    BY <1>b, <2>1
<1>8. ASSUME Complete(v) PROVE Same
  <2>1. /\ op'[v].cert = op[v].cert /\ op'[v].todo \subseteq op[v].todo
        /\ op'[v].held = op[v].held /\ op[v].pc = "complete"
    BY <1>0, <1>2, <1>8 DEF Complete, Op
  <2> QED
    BY <1>b, <2>1
<1>9. ASSUME NEW r, NEW id, NEW ok, Answered(r, id, ok) PROVE Same
  <2>1. \/ op'[v] = op[v]
        \/ /\ op'[v] = [op[v] EXCEPT !.pc = "upsert", !.id = id, !.ok = ok]
           /\ op[v].pc = "wait"
    BY <1>9 DEF Answered
  <2>2. ASSUME op'[v] # op[v] PROVE Same
    <3>1. /\ op'[v].cert = op[v].cert /\ op'[v].todo = op[v].todo
          /\ op'[v].held = op[v].held /\ op[v].pc = "wait"
      BY <1>0, <2>1, <2>2 DEF Op
    <3> QED
      BY <1>b, <3>1
  <2> QED
    BY <1>1, <2>2
<1>10. ASSUME NEW w \in Callers, NEW c \in Certs,
              \/ Renew(w, c) \/ Sync(w, c) \/ \E t \in Targets : SyncTarget(w, c, t)
       PROVE  Same
  <2>1. w = v => op'[v].pc = "inputs"
    BY <1>0, <1>10 DEF Renew, Sync, SyncTarget, Idle
  <2>2. w # v => op'[v] = op[v]
    BY <1>0, <1>10 DEF Renew, Sync, SyncTarget
  <2> QED
    BY <1>a, <1>1, <2>1, <2>2
<1>11. ASSUME ReadInputs(v)
       PROVE  op'[v].held[p[2]] = links[p].id /\ links[p].linked
  <2> DEFINE h == [t \in Targets |-> links[<<op[v].cert, t>>].id]
  <2>1. op' = [op EXCEPT ![v].pc = IF op[v].one THEN "target" ELSE "files",
                         ![v].todo = Wanted(v), ![v].held = h,
                         ![v].version = version[op[v].cert]]
    BY <1>2, <1>11 DEF ReadInputs
  <2> HIDE DEF h
  <2>2. op'[v].cert = op[v].cert /\ op'[v].todo = Wanted(v) /\ op'[v].held = h
    BY <1>0, <2>1 DEF Op
  <2>3. p = <<op[v].cert, p[2]>> /\ p[2] \in Wanted(v)
    BY <1>a, <2>2
  <2> QED
    BY <2>2, <2>3 DEF Wanted, h
<1>12. ASSUME NEW w \in Callers, Step(w) \/ Abandon(w) PROVE Same \/ ReadInputs(v)
  <2>1. CASE w # v
    BY <1>1, <1>12, <2>1, OthersKept
  <2>2. CASE w = v
    BY <1>2, <1>3, <1>4, <1>5, <1>6, <1>7, <1>8, <1>12, <2>2
       DEF Step, Abandon, Send, Upsert, EndsEarly
  <2> QED
    BY <2>1, <2>2
<1> HIDE DEF Same
<1>13. Same \/ ReadInputs(v)
  BY <1>1, <1>9, <1>10, <1>12
     DEF Next, vars, DeleteCertificate, DeleteTarget, SetLinkedTargets, Issue, Accept, Refuse
<1> QED
  BY <1>2, <1>11, <1>13 DEF Same

(* A caller that has an id to store had it before, or Kong has just given
   it for the link the caller is on. *)
LEMMA UpsertStep ==
    ASSUME TypeOK, OwnRequests, [Next]_vars, NEW v \in Callers,
           op'[v].pc = "upsert", op'[v].ok
    PROVE  \/ /\ op[v].pc = "upsert" /\ op[v].ok
              /\ op'[v].id = op[v].id /\ Current(v)' = Current(v)
           \/ \E r \in net : /\ Accept(r) /\ r.for = Current(v)'
                             /\ op'[v].id = IdAnswered(r)
<1> USE DEF At
<1>0. op \in [Callers -> Op] /\ op[v] \in Op
  BY DEF TypeOK
<1>1. ASSUME op'[v] = op[v]
      PROVE  /\ op[v].pc = "upsert" /\ op[v].ok
             /\ op'[v].id = op[v].id /\ Current(v)' = Current(v)
  BY <1>1 DEF Current
<1>2. ASSUME NEW r \in net, Accept(r), op'[v] # op[v]
      PROVE  r.for = Current(v)' /\ op'[v].id = IdAnswered(r)
  <2>1. /\ op'[v] = [op[v] EXCEPT !.pc = "upsert", !.id = IdAnswered(r), !.ok = TRUE]
        /\ op[v].pc = "wait" /\ op[v].job = r.job
    BY <1>2 DEF Accept, Answered
  <2>2. op'[v].id = IdAnswered(r) /\ Current(v)' = Current(v)
    BY <1>0, <2>1 DEF Op, Current
  <2>3. r.for = Current(v)
    BY <2>1 DEF OwnRequests, InFlight
  <2> QED
    BY <2>2, <2>3
<1>3. ASSUME NEW r \in net, Refuse(r) PROVE op'[v] = op[v]
  <2>1. \/ op'[v] = op[v]
        \/ op'[v] = [op[v] EXCEPT !.pc = "upsert", !.id = r.id, !.ok = FALSE]
    BY <1>3 DEF Refuse, Answered
  <2> QED
    BY <1>0, <2>1 DEF Op
<1>4. ~ Return(v)
  BY <1>0, Returned DEF Idle
<1>5. ASSUME NEW pc, Goto(v, pc) PROVE pc = "upsert"
  BY <1>0, <1>5 DEF Goto, Op
<1>6. ~ Timeout(v)
  BY <1>0 DEF Timeout, TimedOut, Op
<1>7. ~ ReadFiles(v) /\ ~ NextTarget(v)
  BY <1>0, <1>4 DEF ReadFiles, NextTarget, Op
<1>8. ~ CreateJob(v)
  BY <1>0, <1>4 DEF CreateJob, EndsEarly, Op
<1>9. ~ ReadInputs(v)
  <2> DEFINE h == [t \in Targets |-> links[<<op[v].cert, t>>].id]
  <2>1. ReadInputs(v) =>
          op' = [op EXCEPT ![v].pc = IF op[v].one THEN "target" ELSE "files",
                           ![v].todo = Wanted(v), ![v].held = h,
                           ![v].version = version[op[v].cert]]
    BY <1>4 DEF ReadInputs
  <2> HIDE DEF h
  <2> QED
    BY <1>0, <2>1 DEF Op
<1>10. ~ Complete(v)
  BY <1>0, <1>4 DEF Complete, Op
<1>11. ASSUME NEW w \in Callers, NEW c \in Certs,
              \/ Renew(w, c) \/ Sync(w, c) \/ \E t \in Targets : SyncTarget(w, c, t)
       PROVE  op'[v] = op[v]
  <2>1. w = v => op'[v].pc = "inputs"
    BY <1>0, <1>11 DEF Renew, Sync, SyncTarget, Idle
  <2>2. w # v => op'[v] = op[v]
    BY <1>0, <1>11 DEF Renew, Sync, SyncTarget
  <2> QED
    BY <2>1, <2>2
<1>12. ASSUME NEW w \in Callers, Step(w) \/ Abandon(w) PROVE op'[v] = op[v]
  <2>1. CASE w # v
    BY <1>12, <2>1, OthersKept
  <2>2. CASE w = v
    BY <1>4, <1>5, <1>6, <1>7, <1>8, <1>9, <1>10, <1>12, <2>2
       DEF Step, Abandon, Send, Upsert, EndsEarly
  <2> QED
    BY <2>1, <2>2
<1>13. op'[v] = op[v] \/ \E r \in net : Accept(r)
  BY <1>3, <1>11, <1>12
     DEF Next, vars, DeleteCertificate, DeleteTarget, SetLinkedTargets, Issue
<1> QED
  BY <1>1, <1>2, <1>13

(* The id Kong answers with is one it has given to the link asked for. *)
LEMMA AnswerMade ==
    ASSUME TypeOK, KongOwnership, [Next]_vars, NEW r \in net, Accept(r),
           NEW id, id = IdAnswered(r)
    PROVE  MadeFor(id, r.for)'
<1>0. kong \in Seq(Stored) /\ r \in Request
  BY DEF TypeOK
<1>1. CASE r.id = 0
  <2> DEFINE k == [for |-> r.for, version |-> r.version]
  <2>1. k \in Stored /\ k.for = r.for
    BY <1>0 DEF Request, Stored
  <2>2. kong' = Append(kong, k) /\ id = Len(kong) + 1
    BY <1>1 DEF Accept, IdAnswered
  <2> HIDE DEF k
  <2>3. id \in DOMAIN kong' /\ kong'[id] = k
    BY <1>0, <2>1, <2>2, Appended
  <2> QED
    BY <2>1, <2>3 DEF MadeFor
<1>2. CASE r.id # 0
  <2>1. id = r.id /\ MadeFor(r.id, r.for)
    BY <1>2 DEF KongOwnership, IdAnswered
  <2>2. \A i, p : MadeFor(i, p) => MadeFor(i, p)'
    BY KongStep
  <2> QED
    BY <2>1, <2>2
<1> QED
  BY <1>1, <1>2

LEMMA KongOwnershipStep ==
    ASSUME IInv, [Next]_vars
    PROVE  KongOwnership'
<1> USE DEF IInv
<1>k. \A i, p : MadeFor(i, p) => MadeFor(i, p)'
  BY KongStep
<1>1. ASSUME NEW p \in Links, links'[p].id # 0 PROVE MadeFor(links[p].id, p)'
  <2>l. links \in [Links -> Link]
    BY DEF TypeOK
  <2>1. CASE links'[p].id = links[p].id
    <3>1. MadeFor(links[p].id, p)
      BY <1>1, <2>1 DEF KongOwnership
    <3> QED
      BY <1>k, <2>1, <3>1 DEF MadeFor
  <2>2. ASSUME NEW w \in Callers, Upsert(w), Referenced(w), p = Current(w)
        PROVE  MadeFor(links[p].id, p)'
    <3>1. /\ op[w].pc = "upsert" /\ p \in Engaged(w) /\ p[2] = op[w].target
      BY <2>2, LinkOf DEF Upsert, At, AtLink, Current
    <3>2. links'[p] = LinkAfter(w)
      BY <2>2, <2>l DEF Upsert
    <3>3. links'[p].id = IF op[w].ok THEN op[w].id ELSE op[w].held[p[2]]
      BY <3>1, <3>2 DEF LinkAfter
    <3>4. \A i : i = links'[p].id => MadeFor(i, p)
      BY <1>1, <2>2, <3>1, <3>3 DEF KongOwnership
    <3> QED
      BY <1>k, <3>4 DEF MadeFor
  <2>3. ASSUME NEW w \in Callers, Upsert(w), ~ (Referenced(w) /\ p = Current(w))
        PROVE  links'[p].id = links[p].id
    BY <2>l, <2>3 DEF Upsert
  <2>4. ASSUME NEW c \in Certs, NEW selected \in SUBSET Targets,
               SetLinkedTargets(c, selected)
        PROVE  links'[p].id = links[p].id
    BY <1>1, <2>4 DEF SetLinkedTargets, Relinked, NotLinked, NewLink
  <2>5. ASSUME \/ \E c \in Certs : DeleteCertificate(c)
               \/ \E t \in Targets : DeleteTarget(t)
        PROVE  links'[p].id = links[p].id
    BY <1>1, <2>5 DEF DeleteCertificate, DeleteTarget, NotLinked
  <2>6. ASSUME UNCHANGED links PROVE links'[p].id = links[p].id
    BY <2>6
  <2> QED
    BY <2>1, <2>2, <2>3, <2>4, <2>5, <2>6
       DEF Next, vars, Step, Issue, Renew, Sync, SyncTarget, ReadInputs, ReadFiles,
           NextTarget, CreateJob, Send, Timeout, Complete, Abandon, Accept, Refuse
<1>2. ASSUME NEW r \in net', r.id # 0 PROVE MadeFor(r.id, r.for)'
  <2>1. CASE r \in net
    BY <1>2, <1>k, <2>1 DEF KongOwnership
  <2>2. ASSUME NEW w \in Callers, Send(w), r = RequestOf(w) PROVE MadeFor(r.id, r.for)'
    <3>1. Current(w) \in Engaged(w)
      BY <2>2, LinkOf DEF Send, At, AtLink
    <3>2. r.for = Current(w) /\ r.id = op[w].held[Current(w)[2]]
      BY <2>2 DEF RequestOf, Current
    <3> QED
      BY <1>2, <1>k, <3>1, <3>2 DEF KongOwnership
  <2> QED
    BY <2>1, <2>2, NetStep
<1>3. ASSUME NEW w \in Callers, NEW p \in Engaged(w)', op'[w].held[p[2]] # 0
      PROVE  MadeFor(op[w].held[p[2]], p)'
  <2>1. \A i : i = op'[w].held[p[2]] => MadeFor(i, p)
    <3>1. CASE p \in Engaged(w) /\ op'[w].held = op[w].held
      BY <1>3, <3>1 DEF KongOwnership
    <3>2. CASE op'[w].held[p[2]] = links[p].id /\ p \in Links
      BY <1>3, <3>2 DEF KongOwnership
    <3>3. p \in Links
      <4>1. TypeOK' /\ OnItsLink'
        BY TypeStep
      <4>2. op'[w] \in Op /\ OnLink(op'[w])
        BY <4>1 DEF TypeOK, OnItsLink
      <4> QED
        BY <1>3, <4>2 DEF Engaged, Links, Op, OnLink
    <3> QED
      BY <3>1, <3>2, <3>3, EngagedStep
  <2> QED
    BY <1>k, <2>1 DEF MadeFor
<1>4. ASSUME NEW w \in Callers, op'[w].pc = "upsert", op'[w].ok
      PROVE  MadeFor(op[w].id, Current(w))'
  <2>1. CASE /\ op[w].pc = "upsert" /\ op[w].ok
             /\ op'[w].id = op[w].id /\ Current(w)' = Current(w)
    <3>1. MadeFor(op[w].id, Current(w))
      BY <2>1 DEF KongOwnership
    <3> QED
      BY <1>k, <2>1, <3>1 DEF MadeFor
  <2>2. ASSUME NEW r \in net, Accept(r), r.for = Current(w)', op'[w].id = IdAnswered(r)
        PROVE  MadeFor(op[w].id, Current(w))'
    <3>1. \A id : id = IdAnswered(r) => MadeFor(id, r.for)'
      BY <2>2, AnswerMade
    <3> QED
      BY <2>2, <3>1 DEF MadeFor
  <2> QED
    BY <1>4, <2>1, <2>2, UpsertStep
<1> QED
  BY <1>1, <1>2, <1>3, <1>4 DEF KongOwnership

-----------------------------------------------------------------------------
LEMMA InitInv == Init => IInv
<1> SUFFICES ASSUME Init PROVE IInv
  OBVIOUS
<1>1. \A w \in Callers : op[w] = Idle
  BY DEF Init
<1>2. OnItsLink
  BY <1>1 DEF OnItsLink, OnLink, Idle, AtLink
<1>3. OwnJobs
  BY <1>1 DEF OwnJobs, InFlight, Idle
<1>4. OwnRequests
  BY DEF Init, OwnRequests
<1>5. KongOwnership
  <2>1. \A p \in Links : links[p].id = 0
    BY DEF Init, NotLinked
  <2> QED
    BY <1>1, <2>1 DEF Init, KongOwnership, Engaged, Idle
<1> QED
  BY <1>2, <1>3, <1>4, <1>5, InitType DEF IInv

LEMMA StepInv == IInv /\ [Next]_vars => IInv'
<1> SUFFICES ASSUME IInv, [Next]_vars PROVE IInv'
  OBVIOUS
<1>1. TypeOK /\ OnItsLink /\ OwnJobs /\ OwnRequests
  BY DEF IInv
<1> QED
  BY <1>1, TypeStep, OwnJobsStep, OwnRequestsStep, KongOwnershipStep DEF IInv

LEMMA Invariance == Spec => []IInv
  BY InitInv, StepInv, PTL DEF Spec

(* Rows, requests, what the Kongs hold and the syncs have their types. *)
THEOREM TypeCorrect == Spec => []TypeOK
<1>1. IInv => TypeOK
  BY DEF IInv
<1> QED
  BY <1>1, Invariance, PTL

(* No sync ever PATCHes a certificate that Kong holds for another link, and
   no link names one, however requests are repeated, lost or served late
   (kong_sync.go:157-172, admin_client.go:73-125). *)
THEOREM KongIdsAreOwned == Spec => []KongOwnership
<1>1. IInv => KongOwnership
  BY DEF IInv
<1> QED
  BY <1>1, Invariance, PTL

-----------------------------------------------------------------------------
(* Links that come back *)

(* A link that was asked for stays so, unless it is taken away with nobody
   engaged on it. *)
LEMMA ChoiceKept ==
    ASSUME TypeOK, [Next]_vars, NEW p \in Links, p \in chosen \cup stray
    PROVE  \/ p \in chosen' \cup stray'
           \/ \E c \in Certs, selected \in SUBSET Targets :
                 /\ SetLinkedTargets(c, selected)
                 /\ p \in {c} \X (Targets \ selected)
                 /\ \A w \in Callers : p \notin Engaged(w)
<1>1. ASSUME NEW c \in Certs, NEW selected \in SUBSET Targets,
             SetLinkedTargets(c, selected), p \notin chosen' \cup stray'
      PROVE  /\ p \in {c} \X (Targets \ selected)
             /\ \A w \in Callers : p \notin Engaged(w)
  BY <1>1 DEF SetLinkedTargets, Links
<1>2. ASSUME NEW w \in Callers, Step(w) \/ Abandon(w)
      PROVE  chosen' = chosen /\ stray \subseteq stray'
  BY <1>2 DEF Step, Abandon, ReadInputs, ReadFiles, NextTarget, CreateJob, Send, Timeout,
     Upsert, Complete
<1> QED
  BY <1>1, <1>2
     DEF Next, vars, DeleteCertificate, DeleteTarget, Issue, Renew, Sync, SyncTarget, Accept,
         Refuse

(* A link is there because it was there, was just asked for, or was written
   by a sync that was engaged on it. *)
LEMMA LinkedStep ==
    ASSUME IInv, [Next]_vars, NEW p \in Links, links'[p].linked
    PROVE  \/ links[p].linked /\ ~ \E c \in Certs, selected \in SUBSET Targets :
                 /\ SetLinkedTargets(c, selected)
                 /\ p \in {c} \X (Targets \ selected)
           \/ p \in chosen'
           \/ \E w \in Callers : Upsert(w) /\ p \in Engaged(w)
<1>l. links \in [Links -> Link]
  BY DEF IInv, TypeOK
<1>1. ASSUME NEW c \in Certs, NEW selected \in SUBSET Targets,
             SetLinkedTargets(c, selected)
      PROVE  p \notin {c} \X (Targets \ selected)
  BY <1>1 DEF SetLinkedTargets, Relinked, NotLinked
<1>2. ASSUME NEW c \in Certs, NEW selected \in SUBSET Targets,
             SetLinkedTargets(c, selected)
      PROVE  links[p].linked \/ p \in chosen'
  BY <1>2 DEF SetLinkedTargets, Relinked, NotLinked, Links
<1>3. ASSUME NEW w \in Callers, Upsert(w)
      PROVE  links[p].linked \/ p \in Engaged(w)
  <2>1. Current(w) \in Engaged(w)
    BY <1>3, LinkOf DEF Upsert, At, AtLink, IInv
  <2> QED
    BY <1>3, <1>l, <2>1 DEF Upsert
<1>4. ASSUME \/ \E c \in Certs : DeleteCertificate(c)
             \/ \E t \in Targets : DeleteTarget(t)
      PROVE  links[p].linked
  BY <1>4 DEF DeleteCertificate, DeleteTarget, NotLinked
<1>5. ASSUME UNCHANGED links PROVE links[p].linked
  BY <1>5
<1> QED
  BY <1>1, <1>2, <1>3, <1>4, <1>5
     DEF Next, vars, Step, Issue, Renew, Sync, SyncTarget, ReadInputs, ReadFiles, NextTarget,
         CreateJob, Send, Timeout, Complete, Abandon, Accept, Refuse

LEMMA ChoiceStep ==
    ASSUME IInv, LinkedByChoice, EngagedByChoice, [Next]_vars
    PROVE  LinkedByChoice' /\ EngagedByChoice'
<1>t. TypeOK /\ OnItsLink
  BY DEF IInv
<1>1. ASSUME NEW p \in Links, links'[p].linked PROVE p \in chosen' \cup stray'
  <2>1. CASE /\ links[p].linked
             /\ ~ \E c \in Certs, selected \in SUBSET Targets :
                     /\ SetLinkedTargets(c, selected)
                     /\ p \in {c} \X (Targets \ selected)
    BY <1>t, <2>1, ChoiceKept DEF LinkedByChoice
  <2>2. ASSUME NEW w \in Callers, Upsert(w), p \in Engaged(w)
        PROVE  p \in chosen' \cup stray'
    <3>1. p \in chosen \cup stray
      BY <2>2 DEF EngagedByChoice
    <3> QED
      BY <1>t, <2>2, <3>1, ChoiceKept
  <2> QED
    BY <1>1, <2>1, <2>2, LinkedStep
<1>2. ASSUME NEW w \in Callers, NEW p \in Engaged(w)' PROVE p \in chosen' \cup stray'
  <2>0. p \in Links
    <3>1. TypeOK' /\ OnItsLink'
      BY TypeStep
    <3>2. op'[w] \in Op /\ OnLink(op'[w])
      BY <3>1 DEF TypeOK, OnItsLink
    <3> QED
      BY <3>2 DEF Engaged, Links, Op, OnLink
  <2>1. CASE p \in Engaged(w)
    BY <1>t, <2>0, <2>1, ChoiceKept DEF EngagedByChoice
  <2>2. CASE ReadInputs(w) /\ links[p].linked
    BY <2>0, <2>2 DEF ReadInputs, LinkedByChoice
  <2> QED
    BY <1>t, <2>1, <2>2, EngagedStep
<1> QED
  BY <1>1, <1>2 DEF LinkedByChoice, EngagedByChoice

(* A sync brings a link back (the upsert, certificate_repository.go:363) only
   when it was engaged on it, or a request for it was on its way, at the time
   the user took it away. *)
THEOREM LinksAreChosen == Spec => []LinkedByChoice
<1>1. Init => LinkedByChoice /\ EngagedByChoice
  BY DEF Init, LinkedByChoice, EngagedByChoice, NotLinked, Engaged, Idle
<1>2. IInv /\ LinkedByChoice /\ EngagedByChoice /\ [Next]_vars
        => LinkedByChoice' /\ EngagedByChoice'
  BY ChoiceStep
<1> QED
  BY <1>1, <1>2, Invariance, PTL DEF Spec

-----------------------------------------------------------------------------
(* The job log *)

LEMMA LogAppended ==
    ASSUME jobs \in Seq(Job), NEW r \in Job, jobs' = Append(jobs, r)
    PROVE  LogView' = Append(LogView, [status |-> r.status, cert |-> r.cert])
<1> DEFINE V == [status |-> r.status, cert |-> r.cert]
           E == [status : {"running", "success", "failed"}, cert : Certs \cup {NoCert}]
<1>1. /\ Len(jobs) \in Nat /\ DOMAIN jobs = 1 .. Len(jobs)
      /\ \A j \in DOMAIN jobs : jobs[j] \in Job
  BY RowsOf
<1>2. V \in E
  BY DEF Job
<1>3. LogView \in Seq(E) /\ Len(LogView) = Len(jobs) /\ DOMAIN LogView = DOMAIN jobs
  <2>1. \A j \in DOMAIN jobs : [status |-> jobs[j].status, cert |-> jobs[j].cert] \in E
    BY <1>1 DEF Job
  <2> HIDE DEF E
  <2> QED
    BY <1>1, <2>1 DEF LogView
<1> HIDE DEF V, E
<1>4. /\ DOMAIN Append(LogView, V) = 1 .. Len(jobs) + 1
      /\ Append(LogView, V)[Len(jobs) + 1] = V
      /\ \A j \in DOMAIN jobs : Append(LogView, V)[j] = LogView[j]
      /\ Append(LogView, V) \in Seq(E)
  BY <1>1, <1>2, <1>3
<1>5. /\ DOMAIN jobs' = 1 .. Len(jobs) + 1
      /\ jobs'[Len(jobs) + 1] = r
      /\ \A j \in DOMAIN jobs : jobs'[j] = jobs[j]
  BY <1>1
<1>6. \A j \in 1 .. Len(jobs) + 1 : LogView'[j] = Append(LogView, V)[j]
  BY <1>1, <1>4, <1>5 DEF LogView, V
<1>7. Append(LogView, V) = [j \in 1 .. Len(jobs) + 1 |-> Append(LogView, V)[j]]
  <2>1. \A t \in Seq(E) : t = [j \in DOMAIN t |-> t[j]]
    OBVIOUS
  <2> QED
    BY <1>4, <2>1
<1>8. LogView' = [j \in 1 .. Len(jobs) + 1 |-> LogView'[j]]
  BY <1>5 DEF LogView
<1> QED
  BY <1>6, <1>7, <1>8 DEF V

LEMMA LogStep == IInv /\ [Next]_vars => [Log!Next]_LogView
<1> SUFFICES ASSUME IInv, [Next]_vars PROVE Log!Next \/ UNCHANGED LogView
  OBVIOUS
<1>0. jobs \in Seq(Job) /\ \A j \in DOMAIN jobs : jobs[j] \in Job
  BY RowsOf DEF IInv, TypeOK
<1>1. ASSUME NEW w \in Callers, CreateJob(w), Referenced(w) PROVE Log!Next
  <2>1. op[w].cert \in Certs
    BY <1>1 DEF IInv, OnItsLink, OnLink, CreateJob, At
  <2>2. NewJob(w) \in Job /\ jobs' = Append(jobs, NewJob(w))
    BY <1>1, NewJobType DEF CreateJob, IInv
  <2>3. LogView' = Append(LogView, [status |-> "running", cert |-> op[w].cert])
    BY <1>0, <2>2, LogAppended DEF NewJob
  <2> QED
    BY <2>1, <2>3 DEF Log!Next, Log!Record
<1>2. ASSUME NEW w \in Callers, Complete(w) PROVE Log!Next
  <2> DEFINE j == op[w].job
             o == Outcome(w)
  <2>1. j \in DOMAIN jobs /\ jobs[j].status = "running" /\ o \in {"success", "failed"}
    BY <1>2 DEF IInv, OwnJobs, Complete, At, InFlight, Outcome
  <2>2. jobs' = [jobs EXCEPT ![j].status = o]
    BY <1>2 DEF Complete
  <2> HIDE DEF j, o
  <2>3. /\ DOMAIN jobs' = DOMAIN jobs
        /\ \A i \in DOMAIN jobs \ {j} : jobs'[i] = jobs[i]
        /\ jobs'[j] = [jobs[j] EXCEPT !.status = o]
    BY <1>0, <2>1, <2>2, CompletedType
  <2>4. jobs'[j].status = o /\ jobs'[j].cert = jobs[j].cert
    BY <1>0, <2>1, <2>3 DEF Job
  <2>5. LogView' = [LogView EXCEPT ![j].status = o]
    BY <2>1, <2>3, <2>4 DEF LogView
  <2> QED
    BY <2>1, <2>5 DEF Log!Next, Log!Finish, Log!Outcomes, LogView
<1>3. ASSUME NEW c \in Certs, DeleteCertificate(c) PROVE Log!Next
  <2>1. \A r \in Job : LET q == [r EXCEPT !.cert = NoCert] IN
          q.status = r.status /\ q.cert = NoCert
    BY DEF Job
  <2>2. Log!Detach(c)
    BY <1>0, <1>3, <2>1 DEF DeleteCertificate, Log!Detach, LogView
  <2> QED
    BY <2>2 DEF Log!Next
<1>4. ASSUME NEW t \in Targets, DeleteTarget(t) PROVE UNCHANGED LogView
  <2>1. \A r \in Job : LET q == [r EXCEPT !.target = NoTarget] IN
          q.status = r.status /\ q.cert = r.cert
    BY DEF Job
  <2> QED
    BY <1>0, <1>4, <2>1 DEF DeleteTarget, LogView
<1>5. ASSUME UNCHANGED jobs PROVE UNCHANGED LogView
  BY <1>5 DEF LogView
<1> QED
  BY <1>1, <1>2, <1>3, <1>4, <1>5
     DEF Next, vars, Step, SetLinkedTargets, Issue, Renew, Sync, SyncTarget, ReadInputs,
         ReadFiles, NextTarget, CreateJob, Send, Timeout, Upsert, Abandon, Accept, Refuse

(* Syncs keep the promise of the job log: ids in order and one outcome for
   each job, given by the sync it belongs to. *)
THEOREM SyncLogIsKept == Spec => SyncKeepsJobLog
<1>1. Init => Log!Init
  BY DEF Init, Log!Init, LogView
<1>2. IInv /\ [Next]_vars => [Log!Next]_LogView
  BY LogStep
<1> QED
  BY <1>1, <1>2, Invariance, PTL DEF Spec, SyncKeepsJobLog, Log!Spec

-----------------------------------------------------------------------------
(* Jobs left running *)

(* Rows of jobs refer to rows that are there, a caller's to its link. *)
References ==
    /\ \A j \in DOMAIN jobs : /\ jobs[j].cert \in certs \cup {NoCert}
                              /\ jobs[j].target \in targets \cup {NoTarget}
    /\ \A w \in Callers : InFlight(w) =>
          /\ jobs[op[w].job].cert \in {op[w].cert, NoCert}
          /\ jobs[op[w].job].target \in {op[w].target, NoTarget}

CauseInv == References /\ SyncOrphanCause

(* A job loses its references, and never changes them otherwise. *)
LEMMA ReferencesOf ==
    ASSUME IInv, [Next]_vars, NEW j \in DOMAIN jobs
    PROVE  /\ jobs'[j].cert \in {jobs[j].cert, NoCert}
           /\ jobs'[j].target \in {jobs[j].target, NoTarget}
<1> DEFINE Kept == /\ jobs'[j].cert \in {jobs[j].cert, NoCert}
                   /\ jobs'[j].target \in {jobs[j].target, NoTarget}
<1>0. jobs \in Seq(Job) /\ jobs[j] \in Job
  BY RowsOf DEF IInv, TypeOK
<1>1. ASSUME NEW w \in Callers, CreateJob(w), Referenced(w) PROVE Kept
  <2>1. jobs' = Append(jobs, NewJob(w)) /\ NewJob(w) \in Job
    BY <1>1, NewJobType DEF CreateJob, IInv
  <2> QED
    BY <1>0, <2>1, Appended
<1>2. ASSUME NEW w \in Callers, Complete(w) PROVE Kept
  <2>1. CASE op[w].job = j
    <3>1. jobs'[j] = [jobs[j] EXCEPT !.status = Outcome(w)]
      BY <1>0, <1>2, <2>1 DEF Complete
    <3> QED
      BY <1>0, <3>1 DEF Job
  <2>2. CASE op[w].job # j
    BY <1>0, <1>2, <2>2 DEF Complete
  <2> QED
    BY <2>1, <2>2
<1>3. ASSUME NEW c \in Certs, DeleteCertificate(c) PROVE Kept
  BY <1>0, <1>3 DEF DeleteCertificate, Job
<1>4. ASSUME NEW t \in Targets, DeleteTarget(t) PROVE Kept
  BY <1>0, <1>4 DEF DeleteTarget, Job
<1>5. ASSUME UNCHANGED jobs PROVE Kept
  BY <1>5
<1> HIDE DEF Kept
<1>6. Kept
  BY <1>1, <1>2, <1>3, <1>4, <1>5
     DEF Next, vars, Step, SetLinkedTargets, Issue, Renew, Sync, SyncTarget, ReadInputs,
         ReadFiles, NextTarget, CreateJob, Send, Timeout, Upsert, Abandon, Accept, Refuse
<1> QED
  BY <1>6 DEF Kept

(* The rows that go take the references to them along. *)
LEMMA RowsGo ==
    ASSUME IInv, References, [Next]_vars, NEW j \in DOMAIN jobs
    PROVE  /\ jobs'[j].cert \in certs' \cup {NoCert}
           /\ jobs'[j].target \in targets' \cup {NoTarget}
<1>0. jobs \in Seq(Job) /\ jobs[j] \in Job
  BY RowsOf DEF IInv, TypeOK
<1>1. ASSUME NEW c \in Certs, DeleteCertificate(c)
      PROVE  jobs'[j].cert \in certs' \cup {NoCert} /\ targets' = targets
  BY <1>0, <1>1 DEF DeleteCertificate, Job, References
<1>2. ASSUME NEW t \in Targets, DeleteTarget(t)
      PROVE  jobs'[j].target \in targets' \cup {NoTarget} /\ certs' = certs
  BY <1>0, <1>2 DEF DeleteTarget, Job, References
<1>3. \/ UNCHANGED <<certs, targets>>
      \/ \E c \in Certs : DeleteCertificate(c)
      \/ \E t \in Targets : DeleteTarget(t)
  BY DEF Next, vars, Step, SetLinkedTargets, Issue, Renew, Sync, SyncTarget, ReadInputs,
     ReadFiles, NextTarget, CreateJob, Send, Timeout, Upsert, Complete, Abandon, Accept,
     Refuse
<1> QED
  BY <1>1, <1>2, <1>3, ReferencesOf DEF References

(* A caller parts from its job with an outcome, for want of a row, or when
   it is abandoned. *)
LEMMA FlightEnds ==
    ASSUME TypeOK, [Next]_vars, NEW w \in Callers, InFlight(w)
    PROVE  \/ InFlight(w)' /\ op'[w].job = op[w].job
           \/ Complete(w)
           \/ Upsert(w) /\ ~ Referenced(w)
           \/ Abandon(w)
<1> DEFINE On == InFlight(w)' /\ op'[w].job = op[w].job
<1> USE DEF At
<1>0. op \in [Callers -> Op] /\ op[w] \in Op
  BY DEF TypeOK
<1>1. ASSUME op'[w] = op[w] PROVE On
  BY <1>1 DEF InFlight
<1>2. ASSUME NEW pc \in {"wait", "complete"}, Goto(w, pc) PROVE On
  <2>1. op'[w] = [op[w] EXCEPT !.pc = pc]
    BY <1>0, <1>2 DEF Goto
  <2> QED
    BY <1>0, <2>1 DEF InFlight, Op
<1>3. ASSUME Timeout(w) PROVE On
  <2>1. op'[w] = [op[w] EXCEPT !.pc = "upsert", !.ok = FALSE]
    BY <1>0, <1>3 DEF Timeout
  <2> QED
    BY <1>0, <2>1 DEF InFlight, Op
<1>4. ASSUME NEW r, NEW id, NEW ok, Answered(r, id, ok) PROVE On
  <2>1. \/ op'[w] = op[w]
        \/ op'[w] = [op[w] EXCEPT !.pc = "upsert", !.id = id, !.ok = ok]
    BY <1>4 DEF Answered
  <2>2. ASSUME op'[w] = [op[w] EXCEPT !.pc = "upsert", !.id = id, !.ok = ok] PROVE On
    BY <1>0, <2>2 DEF InFlight, Op
  <2> QED
    BY <1>1, <2>1, <2>2
<1>5. ASSUME NEW v \in Callers, NEW c \in Certs,
             \/ Renew(v, c) \/ Sync(v, c) \/ \E t \in Targets : SyncTarget(v, c, t)
      PROVE  On
  <2>1. v # w
    BY <1>5 DEF Renew, Sync, SyncTarget, Begin, InFlight
  <2>2. op'[w] = op[w]
    BY <1>0, <1>5, <2>1 DEF Renew, Sync, SyncTarget
  <2> QED
    BY <1>1, <2>2
<1>6. ASSUME NEW v \in Callers, Step(v) \/ Abandon(v)
      PROVE  On \/ Complete(w) \/ (Upsert(w) /\ ~ Referenced(w)) \/ Abandon(w)
  <2>1. CASE v # w
    BY <1>1, <1>6, <2>1, OthersKept
  <2>2. CASE v = w
    BY <1>2, <1>3, <1>6, <2>2 DEF Step, ReadInputs, ReadFiles, NextTarget, CreateJob, Send,
       Upsert, InFlight
  <2> QED
    BY <2>1, <2>2
<1> HIDE DEF On
<1>7. On \/ Complete(w) \/ (Upsert(w) /\ ~ Referenced(w)) \/ Abandon(w)
  BY <1>1, <1>4, <1>5, <1>6
     DEF Next, vars, DeleteCertificate, DeleteTarget, SetLinkedTargets, Issue, Accept, Refuse
<1> QED
  BY <1>7 DEF On

LEMMA StrayGrows == [Next]_vars => stray \subseteq stray'
  BY DEF Next, vars, Step, DeleteCertificate, DeleteTarget, SetLinkedTargets, Issue, Renew,
     Sync, SyncTarget, ReadInputs, ReadFiles, NextTarget, CreateJob, Send, Timeout, Upsert,
     Complete, Abandon, Accept, Refuse

LEMMA ReferencesStep ==
    ASSUME IInv, References, [Next]_vars
    PROVE  References'
<1>t. TypeOK /\ OwnJobs /\ jobs \in Seq(Job)
  BY DEF IInv, TypeOK
<1>1. ASSUME NEW w \in Callers, Created(w)
      PROVE  /\ jobs'[op'[w].job].cert = op'[w].cert /\ op[w].cert \in certs'
             /\ jobs'[op'[w].job].target = op'[w].target /\ op[w].target \in targets'
             /\ op'[w].cert = op[w].cert /\ op'[w].target = op[w].target
             /\ DOMAIN jobs' = DOMAIN jobs \cup {op'[w].job}
  <2>1. /\ jobs' = Append(jobs, NewJob(w)) /\ op'[w].job = Len(jobs) + 1
        /\ certs' = certs /\ targets' = targets
        /\ op[w].cert \in certs /\ op[w].target \in targets
    BY <1>1 DEF Created, CreateJob, Referenced
  <2>2. /\ jobs'[op'[w].job] = NewJob(w)
        /\ DOMAIN jobs' = DOMAIN jobs \cup {op'[w].job}
    BY <1>t, <2>1, NewJobType, Appended
  <2>3. op'[w].cert = op[w].cert /\ op'[w].target = op[w].target
    <3>1. op[w] \in Op /\ op \in [Callers -> Op]
      BY <1>t DEF TypeOK
    <3> QED
      BY <1>1, <3>1 DEF Created, CreateJob, Op
  <2>4. NewJob(w).cert = op[w].cert /\ NewJob(w).target = op[w].target
    BY DEF NewJob
  <2> QED
    BY <2>1, <2>2, <2>3, <2>4
<1>2. ASSUME NEW j \in DOMAIN jobs'
      PROVE  /\ jobs'[j].cert \in certs' \cup {NoCert}
             /\ jobs'[j].target \in targets' \cup {NoTarget}
  <2>1. CASE j \in DOMAIN jobs
    BY <2>1, RowsGo
  <2>2. ASSUME j \notin DOMAIN jobs
        PROVE  \E w \in Callers : Created(w) /\ j = op'[w].job
    <3>1. ASSUME NEW w \in Callers, CreateJob(w), Referenced(w)
          PROVE  Created(w) /\ j = op'[w].job
      <4>1. op[w] \in Op /\ op \in [Callers -> Op]
        BY <1>t DEF TypeOK
      <4>2. op'[w].job = Len(jobs) + 1
        BY <3>1, <4>1 DEF CreateJob, Op
      <4>3. Created(w)
        BY <3>1, <4>2 DEF Created
      <4> QED
        BY <1>1, <1>2, <2>2, <4>3
    <3>2. ASSUME NEW w \in Callers, Complete(w) PROVE DOMAIN jobs' = DOMAIN jobs
      BY <1>t, <3>2 DEF Complete
    <3>3. ASSUME \/ \E c \in Certs : DeleteCertificate(c)
                 \/ \E t \in Targets : DeleteTarget(t)
          PROVE  DOMAIN jobs' = DOMAIN jobs
      BY <1>t, <3>3, DetachedType
    <3> QED
      BY <1>2, <2>2, <3>1, <3>2, <3>3
         DEF Next, vars, Step, SetLinkedTargets, Issue, Renew, Sync, SyncTarget, ReadInputs,
             ReadFiles, NextTarget, CreateJob, Send, Timeout, Upsert, Abandon, Accept, Refuse
  <2>3. CASE j \notin DOMAIN jobs
    BY <1>1, <2>2, <2>3
  <2> QED
    BY <2>1, <2>3
<1>3. ASSUME NEW w \in Callers, InFlight(w)'
      PROVE  /\ jobs'[op'[w].job].cert \in {op'[w].cert, NoCert}
             /\ jobs'[op'[w].job].target \in {op'[w].target, NoTarget}
  <2>1. CASE Carried(w)
    <3>1. /\ op'[w].job = op[w].job /\ op[w].job \in DOMAIN jobs
          /\ op'[w].cert = op[w].cert /\ op'[w].target = op[w].target
      BY <1>t, <2>1 DEF Carried, OwnJobs, Current
    <3>2. /\ jobs[op[w].job].cert \in {op[w].cert, NoCert}
          /\ jobs[op[w].job].target \in {op[w].target, NoTarget}
      BY <2>1 DEF Carried, References
    <3> QED
      BY <3>1, <3>2, ReferencesOf
  <2>2. CASE Created(w)
    BY <1>1, <2>2
  <2> QED
    BY <1>t, <1>3, <2>1, <2>2, FlightStep
<1> QED
  BY <1>2, <1>3 DEF References, InFlight

LEMMA CauseStep ==
    ASSUME IInv, CauseInv, [Next]_vars
    PROVE  SyncOrphanCause'
<1> DEFINE Caused(j) ==
        \/ jobs'[j].cert = NoCert \/ jobs'[j].target = NoTarget
        \/ MayAbandon /\ <<jobs'[j].cert, jobs'[j].target>> \in stray'
<1>t. TypeOK /\ OnItsLink /\ OwnJobs /\ jobs \in Seq(Job)
  BY DEF IInv, TypeOK
<1>s. stray \subseteq stray'
  BY StrayGrows
<1>1. ASSUME NEW j \in DOMAIN jobs', jobs'[j].status = "running",
             ~ \E w \in Callers : InFlight(w)' /\ op'[w].job = j
      PROVE  Caused(j)
  <2>1. j \in DOMAIN jobs
    <3>1. ASSUME NEW w \in Callers, CreateJob(w), Referenced(w)
          PROVE  InFlight(w)' /\ DOMAIN jobs' = DOMAIN jobs \cup {op'[w].job}
      <4>1. op[w] \in Op /\ op \in [Callers -> Op]
        BY <1>t DEF TypeOK
      <4>2. op'[w].job = Len(jobs) + 1 /\ op'[w].pc \in {"upsert", "send"}
        BY <3>1, <4>1 DEF CreateJob, Op
      <4>3. jobs' = Append(jobs, NewJob(w)) /\ NewJob(w) \in Job
        BY <1>t, <3>1, NewJobType DEF CreateJob
      <4>4. DOMAIN jobs' = DOMAIN jobs \cup {Len(jobs) + 1}
        BY <1>t, <4>3, Appended
      <4> QED
        BY <4>2, <4>4 DEF InFlight
    <3>2. ASSUME NEW w \in Callers, Complete(w) PROVE DOMAIN jobs' = DOMAIN jobs
      BY <1>t, <3>2 DEF Complete
    <3>3. ASSUME \/ \E c \in Certs : DeleteCertificate(c)
                 \/ \E t \in Targets : DeleteTarget(t)
          PROVE  DOMAIN jobs' = DOMAIN jobs
      BY <1>t, <3>3, DetachedType
    <3> QED
      BY <1>1, <3>1, <3>2, <3>3
         DEF Next, vars, Step, SetLinkedTargets, Issue, Renew, Sync, SyncTarget, ReadInputs,
             ReadFiles, NextTarget, CreateJob, Send, Timeout, Upsert, Abandon, Accept, Refuse
  <2>2. ASSUME NEW w \in Callers, Complete(w), op[w].job = j PROVE FALSE
    <3>1. jobs'[j] = [jobs[j] EXCEPT !.status = Outcome(w)] /\ jobs[j] \in Job
      BY <1>t, <2>1, <2>2, RowsOf DEF Complete
    <3>2. jobs'[j].status = Outcome(w)
      BY <3>1 DEF Job
    <3> QED
      BY <1>1, <3>2 DEF Outcome
  <2>3. jobs[j].status = "running"
    BY <1>t, <1>1, <2>1, <2>2, StatusStep
  <2>4. /\ jobs'[j].cert \in {jobs[j].cert, NoCert}
        /\ jobs'[j].target \in {jobs[j].target, NoTarget}
    BY <2>1, ReferencesOf
  <2>5. CASE ~ \E w \in Callers : InFlight(w) /\ op[w].job = j
    BY <1>s, <2>1, <2>3, <2>4, <2>5 DEF CauseInv, SyncOrphanCause
  <2>6. ASSUME NEW w \in Callers, InFlight(w), op[w].job = j PROVE Caused(j)
    <3>1. /\ jobs[j].cert \in {op[w].cert, NoCert} \cap (certs \cup {NoCert})
          /\ jobs[j].target \in {op[w].target, NoTarget} \cap (targets \cup {NoTarget})
      BY <2>1, <2>6 DEF CauseInv, References
    <3>2. ASSUME Upsert(w), ~ Referenced(w) PROVE Caused(j)
      BY <2>4, <3>1, <3>2 DEF Referenced
    <3>3. ASSUME Abandon(w) PROVE Caused(j)
      <4>1. MayAbandon /\ Engaged(w) \subseteq stray'
        BY <3>3 DEF Abandon
      <4>2. Current(w) \in Engaged(w)
        BY <1>t, <2>6, LinkOf DEF InFlight, AtLink
      <4> QED
        BY <2>4, <3>1, <4>1, <4>2 DEF Current
    <3> QED
      BY <1>t, <1>1, <2>2, <2>6, <3>2, <3>3, FlightEnds
  <2> QED
    BY <2>5, <2>6
<1> QED
  BY <1>1 DEF SyncOrphanCause, InFlight

(* A sync job stays running without a sync only if its certificate or its
   target was deleted (UpsertSyncTarget fails and syncTarget returns before
   Complete, kong_sync.go:176-178), or its sync was cut off. *)
THEOREM SyncOrphansHaveACause == Spec => []SyncOrphanCause
<1>1. Init => CauseInv
  BY DEF Init, CauseInv, References, SyncOrphanCause, InFlight, Idle
<1>2. IInv /\ CauseInv /\ [Next]_vars => CauseInv'
  BY ReferencesStep, CauseStep DEF CauseInv
<1>3. CauseInv => SyncOrphanCause
  BY DEF CauseInv
<1> QED
  BY <1>1, <1>2, <1>3, Invariance, PTL DEF Spec

-----------------------------------------------------------------------------
(* A link nothing has gone astray for: one sync at a time has to do with it,  *)
(* and what that sync has done by now is what Kong, the link and the job say. *)

(* A pair of a certificate and a target that are both there. *)
Alive(p) == p[1] \in certs /\ p[2] \in targets

OnlyAlive ==
    \A p \in Links : /\ ~ links[p].linked => links[p] = NotLinked
                     /\ links[p].linked => Alive(p)

InKong(p) == {k \in DOMAIN kong : kong[k].for = p}
Just(id)  == IF id = 0 THEN {} ELSE {id}

(* The caller w is at the link p. *)
Works(w, p) == op[w].pc \in AtLink /\ Current(w) = p
AtWork(w, p) == InFlight(w) /\ Current(w) = p

(* An answer that is not stored yet. *)
HasAnswer(w, p) == Works(w, p) /\ op[w].pc = "upsert" /\ op[w].ok

Single(p) == \A v, w \in Callers : p \in Engaged(v) /\ p \in Engaged(w) => v = w

Awaited(p) ==
    \A r \in net : r.for = p =>
        \E w \in Callers : Works(w, p) /\ op[w].pc = "wait" /\ r = RequestOf(w)

HeldStill(p) ==
    \A w \in Callers : p \in Engaged(w) =>
        /\ links[p].linked
        /\ op[w].held[p[2]] = links[p].id \/ (Works(w, p) /\ op[w].pc = "complete")

Tracked(p) ==
    /\ \A w \in Callers : HasAnswer(w, p) => InKong(p) = Just(op[w].id)
    /\ (\A w \in Callers : ~ HasAnswer(w, p)) => InKong(p) = Just(links[p].id)

LastJob(k, p) == k \in JobsOf(p) /\ \A j \in JobsOf(p) : j <= k

(* What the caller at the link has done by now. *)
DoneSoFar(w, p) ==
    /\ LastJob(op[w].job, p)
    /\ jobs[op[w].job].version = op[w].version
    /\ op[w].pc = "upsert" /\ op[w].ok => kong[op[w].id].version = op[w].version
    /\ op[w].pc = "complete" =>
          /\ op[w].ok => /\ links[p].status = "synced" /\ links[p].id # 0
                         /\ kong[links[p].id].version = op[w].version
          /\ ~ op[w].ok => links[p].status = "failed"

Progress(p) == \A w \in Callers : AtWork(w, p) => DoneSoFar(w, p)

Agrees(p) ==
    \A k \in DOMAIN jobs : LastJob(k, p) =>
        /\ jobs[k].status = "success" =>
              /\ links[p].status = "synced" /\ links[p].id # 0
              /\ kong[links[p].id].version = jobs[k].version
        /\ jobs[k].status = "failed" => links[p].status = "failed"

Good(p) == /\ Single(p) /\ Awaited(p) /\ HeldStill(p) /\ Tracked(p)
           /\ Progress(p) /\ Agrees(p)

LinksInv == OnlyAlive /\ \A p \in Links \ stray : Alive(p) => Good(p)

(* What can happen to the operation of a caller. *)
LEMMA OpChanges ==
    ASSUME TypeOK, OwnRequests, [Next]_vars, NEW v \in Callers, op'[v] # op[v]
    PROVE  \/ Step(v) \/ Abandon(v)
           \/ op[v].pc = "idle" /\ op'[v].pc = "inputs"
           \/ \E r \in net : /\ Accept(r) \/ Refuse(r)
                             /\ op[v].pc = "wait" /\ op[v].job = r.job
                             /\ r.for = Current(v) /\ Current(v)' = Current(v)
<1>0. op \in [Callers -> Op] /\ op[v] \in Op
  BY DEF TypeOK
<1>1. ASSUME NEW w \in Callers, Step(w) \/ Abandon(w) PROVE Step(v) \/ Abandon(v)
  BY <1>1, OthersKept
<1>2. ASSUME NEW w \in Callers, NEW c \in Certs,
             \/ Renew(w, c) \/ Sync(w, c) \/ \E t \in Targets : SyncTarget(w, c, t)
      PROVE  op[v].pc = "idle" /\ op'[v].pc = "inputs"
  <2>1. w = v
    BY <1>0, <1>2 DEF Renew, Sync, SyncTarget
  <2> QED
    BY <1>0, <1>2, <2>1 DEF Renew, Sync, SyncTarget, Begin, At, Idle
<1>3. ASSUME NEW r \in net, NEW id, NEW ok, Answered(r, id, ok)
      PROVE  /\ op[v].pc = "wait" /\ op[v].job = r.job
             /\ r.for = Current(v) /\ Current(v)' = Current(v)
  <2>1. /\ op[v].pc = "wait" /\ op[v].job = r.job
        /\ op'[v] = [op[v] EXCEPT !.pc = "upsert", !.id = id, !.ok = ok]
    BY <1>3 DEF Answered
  <2>2. r.for = Current(v)
    BY <2>1 DEF OwnRequests, InFlight
  <2>3. op'[v].cert = op[v].cert /\ op'[v].target = op[v].target
    BY <1>0, <2>1 DEF Op
  <2> QED
    BY <2>1, <2>2, <2>3 DEF Current
<1> QED
  BY <1>1, <1>2, <1>3 DEF Next, vars, DeleteCertificate, DeleteTarget, SetLinkedTargets,
     Issue, Accept, Refuse

(* Nothing that is in progress, kept or logged for the link is touched. *)
Aside(p) ==
    /\ links'[p] = links[p]
    /\ \A v \in Callers :
          /\ p \in Engaged(v)' => p \in Engaged(v) /\ op'[v].held = op[v].held
          /\ Works(v, p)' => op'[v] = op[v] \/ op'[v].pc = "create"
          /\ Works(v, p) => op'[v] = op[v]
    /\ \A r \in net' : r.for = p => r \in net
    /\ \A k : k \in InKong(p)' <=> k \in InKong(p)
    /\ \A k \in InKong(p) : kong'[k] = kong[k]
    /\ \A k : k \in JobsOf(p)' <=> k \in JobsOf(p)
    /\ \A k \in JobsOf(p) : jobs'[k].status = jobs[k].status /\ jobs'[k].version = jobs[k].version

LEMMA AsideKeeps ==
    ASSUME IInv, NEW p \in Links, Good(p), Aside(p)
    PROVE  Good(p)'
<1>1. Single(p)'
  BY DEF Good, Single, Aside
<1>w. \A v \in Callers : Works(v, p) => op'[v] = op[v] /\ Works(v, p)'
  BY DEF Aside, Works, Current
<1>v. \A v \in Callers : Works(v, p)' /\ op'[v].pc # "create" => op'[v] = op[v] /\ Works(v, p)
  BY DEF Aside, Works, Current
<1>2. Awaited(p)'
  <2> SUFFICES ASSUME NEW r \in net', r.for = p
               PROVE  \E w \in Callers : (Works(w, p) /\ op[w].pc = "wait" /\ r = RequestOf(w))'
    BY DEF Awaited
  <2>1. PICK w \in Callers : Works(w, p) /\ op[w].pc = "wait" /\ r = RequestOf(w)
    BY DEF Aside, Good, Awaited
  <2>2. op'[w] = op[w] /\ Works(w, p)'
    BY <1>w, <2>1
  <2> QED
    BY <2>1, <2>2 DEF RequestOf, Current
<1>3. HeldStill(p)'
  <2> SUFFICES ASSUME NEW w \in Callers, p \in Engaged(w)'
               PROVE  /\ links'[p].linked
                      /\ \/ op'[w].held[p[2]] = links'[p].id
                         \/ Works(w, p)' /\ op'[w].pc = "complete"
    BY DEF HeldStill
  <2>1. /\ p \in Engaged(w) /\ op'[w].held = op[w].held /\ links'[p] = links[p]
        /\ Works(w, p) => op'[w] = op[w] /\ Works(w, p)'
    BY <1>w DEF Aside
  <2> QED
    BY <2>1 DEF Good, HeldStill
<1>4. Tracked(p)'
  <2>1. \A w \in Callers : HasAnswer(w, p)' <=> HasAnswer(w, p)
    BY <1>v, <1>w DEF HasAnswer
  <2>2. \A w \in Callers : HasAnswer(w, p) => op'[w] = op[w]
    BY <1>w DEF HasAnswer
  <2>3. InKong(p)' = InKong(p)
    BY DEF Aside
  <2> QED
    BY <2>1, <2>2, <2>3 DEF Aside, Good, Tracked
<1>5. \A k : LastJob(k, p)' <=> LastJob(k, p)
  BY DEF Aside, LastJob
<1>6. links[p].id # 0 => links[p].id \in InKong(p)
  BY DEF IInv, KongOwnership, MadeFor, InKong
<1>7. Progress(p)'
  <2> SUFFICES ASSUME NEW w \in Callers, AtWork(w, p)' PROVE DoneSoFar(w, p)'
    BY DEF Progress
  <2>1. op'[w] = op[w] /\ Works(w, p)
    BY <1>v DEF AtWork, Works, InFlight, AtLink
  <2>2. AtWork(w, p) /\ DoneSoFar(w, p)
    BY <2>1 DEF AtWork, InFlight, Works, Good, Progress
  <2>3. op[w].pc = "upsert" /\ op[w].ok => op[w].id \in InKong(p)
    BY <2>1 DEF IInv, KongOwnership, MadeFor, InKong, Works
  <2>4. op[w].job \in JobsOf(p)
    BY <2>2 DEF DoneSoFar, LastJob
  <2>5. /\ links'[p] = links[p]
        /\ jobs'[op[w].job].version = jobs[op[w].job].version
        /\ op[w].pc = "upsert" /\ op[w].ok => kong'[op[w].id] = kong[op[w].id]
        /\ links[p].id # 0 => kong'[links[p].id] = kong[links[p].id]
    BY <1>6, <2>3, <2>4 DEF Aside
  <2>6. LastJob(op[w].job, p)'
    BY <1>5, <2>1, <2>2 DEF DoneSoFar, LastJob
  <2> QED
    BY <2>1, <2>2, <2>5, <2>6 DEF DoneSoFar
<1>8. Agrees(p)'
  <2> SUFFICES ASSUME NEW k \in DOMAIN jobs', LastJob(k, p)'
               PROVE  /\ jobs'[k].status = "success" =>
                            /\ links'[p].status = "synced" /\ links'[p].id # 0
                            /\ kong'[links'[p].id].version = jobs'[k].version
                      /\ jobs'[k].status = "failed" => links'[p].status = "failed"
    BY DEF Agrees
  <2>1. LastJob(k, p) /\ k \in DOMAIN jobs
    BY <1>5 DEF LastJob, JobsOf
  <2>2. /\ links'[p] = links[p]
        /\ jobs'[k].status = jobs[k].status /\ jobs'[k].version = jobs[k].version
        /\ links[p].id # 0 => kong'[links[p].id] = kong[links[p].id]
    BY <1>6, <2>1 DEF Aside, LastJob
  <2> QED
    BY <2>1, <2>2 DEF Good, Agrees
<1> QED
  BY <1>1, <1>2, <1>3, <1>4, <1>7, <1>8 DEF Good

-----------------------------------------------------------------------------
(* What has to do with a link. *)
Touches(p) ==
    \/ \E v \in Callers : ReadInputs(v) /\ p \in Engaged(v)'
    \/ \E v \in Callers : Works(v, p) /\ (Step(v) \/ Abandon(v))
    \/ \E r \in net : r.for = p /\ (Accept(r) \/ Refuse(r))
    \/ \E selected \in SUBSET Targets : SetLinkedTargets(p[1], selected)
    \/ DeleteCertificate(p[1]) \/ DeleteTarget(p[2])

(* A caller comes to a link as the next to do, and works on it from then on. *)
LEMMA ComesToLink ==
    ASSUME TypeOK, NEW v \in Callers, Step(v) \/ Abandon(v), op'[v].pc \in AtLink
    PROVE  \/ op'[v].pc = "create"
           \/ op[v].pc \in AtLink /\ Current(v)' = Current(v)
<1> USE DEF At
<1>0. op \in [Callers -> Op] /\ op[v] \in Op
  BY DEF TypeOK
<1>1. ~ Return(v)
  BY <1>0, Returned DEF Idle, AtLink
<1>2. ASSUME NEW pc, Goto(v, pc) PROVE Current(v)' = Current(v)
  BY <1>0, <1>2 DEF Goto, Op, Current
<1>3. CASE ReadFiles(v) \/ NextTarget(v)
  BY <1>0, <1>1, <1>3 DEF ReadFiles, NextTarget, Op, AtLink
<1>4. ~ ReadInputs(v)
  <2> DEFINE h == [t \in Targets |-> links[<<op[v].cert, t>>].id]
  <2>1. ReadInputs(v) =>
          op' = [op EXCEPT ![v].pc = IF op[v].one THEN "target" ELSE "files",
                           ![v].todo = Wanted(v), ![v].held = h,
                           ![v].version = version[op[v].cert]]
    BY <1>1 DEF ReadInputs
  <2> HIDE DEF h
  <2> QED
    BY <1>0, <2>1 DEF Op, AtLink
<1>5. CASE CreateJob(v) \/ Timeout(v)
  <2>1. op'[v].cert = op[v].cert /\ op'[v].target = op[v].target /\ op[v].pc \in AtLink
    BY <1>0, <1>1, <1>5 DEF CreateJob, EndsEarly, Timeout, TimedOut, Op, AtLink
  <2> QED
    BY <2>1 DEF Current
<1>6. CASE Send(v) \/ Upsert(v)
  BY <1>1, <1>2, <1>6 DEF Send, Upsert, EndsEarly, AtLink
<1>7. ~ Complete(v)
  BY <1>0, <1>1 DEF Complete, Op, AtLink
<1> QED
  BY <1>1, <1>3, <1>4, <1>5, <1>6, <1>7 DEF Step, Abandon

LEMMA AsideOps ==
    ASSUME IInv, [Next]_vars, NEW p \in Links, ~ Touches(p), NEW v \in Callers
    PROVE  /\ p \in Engaged(v)' => p \in Engaged(v) /\ op'[v].held = op[v].held
           /\ Works(v, p)' => op'[v] = op[v] \/ op'[v].pc = "create"
           /\ Works(v, p) => op'[v] = op[v]
<1>1. p \in Engaged(v)' => p \in Engaged(v) /\ op'[v].held = op[v].held
  BY EngagedStep DEF Touches, IInv
<1>2. ASSUME op'[v] # op[v]
      PROVE  /\ Works(v, p)' => op'[v].pc = "create"
             /\ ~ Works(v, p)
  <2>1. CASE Step(v) \/ Abandon(v)
    <3>1. ~ Works(v, p)
      BY <2>1 DEF Touches
    <3>2. ASSUME Works(v, p)' PROVE op'[v].pc = "create"
      BY <2>1, <3>1, <3>2, ComesToLink DEF Works, IInv
    <3> QED
      BY <3>1, <3>2
  <2>2. CASE op[v].pc = "idle" /\ op'[v].pc = "inputs"
    BY <2>2 DEF Works, AtLink
  <2>3. CASE \E r \in net : /\ Accept(r) \/ Refuse(r)
                            /\ r.for = Current(v) /\ Current(v)' = Current(v)
    BY <2>3 DEF Touches, Works
  <2> QED
    BY <1>2, <2>1, <2>2, <2>3, OpChanges DEF IInv
<1> QED
  BY <1>1, <1>2

LEMMA AsideLinks ==
    ASSUME IInv, [Next]_vars, NEW p \in Links, ~ Touches(p)
    PROVE  links'[p] = links[p]
<1>t. links \in [Links -> Link] /\ p[1] \in Certs /\ p[2] \in Targets /\ p = <<p[1], p[2]>>
  BY DEF IInv, TypeOK, Links
<1>1. ASSUME NEW w \in Callers, Upsert(w) PROVE links'[p] = links[p]
  <2>1. p # Current(w)
    BY <1>1 DEF Touches, Works, Upsert, At, AtLink, Step
  <2> QED
    BY <1>1, <1>t, <2>1 DEF Upsert
<1>2. ASSUME NEW c \in Certs, NEW selected \in SUBSET Targets, SetLinkedTargets(c, selected)
      PROVE  links'[p] = links[p]
  <2>1. c # p[1]
    BY <1>2 DEF Touches
  <2> QED
    BY <1>2, <1>t, <2>1 DEF SetLinkedTargets, Relinked
<1>3. ASSUME NEW c \in Certs, DeleteCertificate(c) PROVE links'[p] = links[p]
  <2>1. c # p[1]
    BY <1>3 DEF Touches
  <2> QED
    BY <1>3, <1>t, <2>1 DEF DeleteCertificate
<1>4. ASSUME NEW t \in Targets, DeleteTarget(t) PROVE links'[p] = links[p]
  <2>1. t # p[2]
    BY <1>4 DEF Touches
  <2> QED
    BY <1>4, <1>t, <2>1 DEF DeleteTarget
<1>5. ASSUME UNCHANGED links PROVE links'[p] = links[p]
  BY <1>5
<1> QED
  BY <1>1, <1>2, <1>3, <1>4, <1>5
     DEF Next, vars, Step, Issue, Renew, Sync, SyncTarget, ReadInputs, ReadFiles,
         NextTarget, CreateJob, Send, Timeout, Complete, Abandon, Accept, Refuse

LEMMA AsideNet ==
    ASSUME IInv, [Next]_vars, NEW p \in Links, ~ Touches(p), NEW r \in net', r.for = p
    PROVE  r \in net
<1>1. ASSUME NEW w \in Callers, Send(w), r = RequestOf(w) PROVE FALSE
  <2>1. r.for = Current(w)
    BY <1>1 DEF RequestOf
  <2> QED
    BY <1>1, <2>1 DEF Touches, Works, Send, At, AtLink, Step
<1> QED
  BY <1>1, NetStep DEF IInv

(* Kong serves a request for another link. *)
LEMMA AcceptOther ==
    ASSUME IInv, NEW r \in net, Accept(r), NEW p \in Links, r.for # p
    PROVE  /\ \A k : k \in InKong(p)' <=> k \in InKong(p)
           /\ \A k \in InKong(p) : kong'[k] = kong[k]
<1>0. kong \in Seq(Stored) /\ r \in Request
  BY DEF IInv, TypeOK
<1>1. CASE r.id = 0
  <2> DEFINE s == [for |-> r.for, version |-> r.version]
  <2>1. s \in Stored /\ s.for # p
    BY <1>0 DEF Request, Stored
  <2>2. kong' = Append(kong, s)
    BY <1>1 DEF Accept
  <2> HIDE DEF s
  <2>3. /\ DOMAIN kong' = DOMAIN kong \cup {Len(kong) + 1}
        /\ kong'[Len(kong) + 1] = s /\ \A j \in DOMAIN kong : kong'[j] = kong[j]
    BY <1>0, <2>1, <2>2, Appended
  <2> QED
    BY <2>1, <2>3 DEF InKong
<1>2. CASE r.id # 0
  <2>1. r.id \in DOMAIN kong /\ kong[r.id].for # p
    BY <1>2 DEF IInv, KongOwnership, MadeFor
  <2>2. kong' = [kong EXCEPT ![r.id].version = r.version]
    BY <1>2 DEF Accept
  <2>3. DOMAIN kong' = DOMAIN kong /\ \A j \in DOMAIN kong \ {r.id} : kong'[j] = kong[j]
    BY <1>0, <2>2
  <2>4. kong'[r.id].for = kong[r.id].for
    <3>1. kong[r.id] \in Stored
      BY <1>0, <2>1, RowsOf
    <3>2. kong'[r.id] = [kong[r.id] EXCEPT !.version = r.version]
      BY <1>0, <2>1, <2>2
    <3> QED
      BY <3>1, <3>2 DEF Stored
  <2> QED
    BY <2>1, <2>3, <2>4 DEF InKong
<1> QED
  BY <1>1, <1>2

LEMMA AsideKong ==
    ASSUME IInv, [Next]_vars, NEW p \in Links, ~ Touches(p)
    PROVE  /\ \A k : k \in InKong(p)' <=> k \in InKong(p)
           /\ \A k \in InKong(p) : kong'[k] = kong[k]
<1>1. CASE UNCHANGED kong
  BY <1>1 DEF InKong
<1>2. ASSUME NEW r \in net, Accept(r) PROVE r.for # p
  BY <1>2 DEF Touches
<1> QED
  BY <1>1, <1>2, AcceptOther
     DEF Next, vars, Step, DeleteCertificate, DeleteTarget, SetLinkedTargets, Issue, Renew,
         Sync, SyncTarget, ReadInputs, ReadFiles, NextTarget, CreateJob, Send, Timeout,
         Upsert, Complete, Abandon, Refuse

(* A row is added to the jobs. *)
LEMMA JobAdded ==
    ASSUME IInv, NEW w \in Callers, CreateJob(w), Referenced(w)
    PROVE  /\ DOMAIN jobs' = DOMAIN jobs \cup {Len(jobs) + 1}
           /\ Len(jobs) + 1 \notin DOMAIN jobs /\ Len(jobs) \in Nat
           /\ DOMAIN jobs = 1 .. Len(jobs)
           /\ jobs'[Len(jobs) + 1] = NewJob(w)
           /\ \A j \in DOMAIN jobs : jobs'[j] = jobs[j]
<1>1. jobs \in Seq(Job) /\ NewJob(w) \in Job /\ jobs' = Append(jobs, NewJob(w))
  BY NewJobType DEF IInv, TypeOK, CreateJob
<1>2. PICK n \in Job : n = NewJob(w) /\ jobs' = Append(jobs, n)
  BY <1>1
<1>3. /\ DOMAIN jobs' = DOMAIN jobs \cup {Len(jobs) + 1}
      /\ Len(jobs) + 1 \notin DOMAIN jobs
      /\ jobs'[Len(jobs) + 1] = n
      /\ \A j \in DOMAIN jobs : jobs'[j] = jobs[j]
  BY <1>1, <1>2, Appended
<1> QED
  BY <1>1, <1>2, <1>3, RowsOf

(* A job gets its outcome. *)
LEMMA JobConcluded ==
    ASSUME IInv, NEW w \in Callers, Complete(w)
    PROVE  /\ DOMAIN jobs' = DOMAIN jobs /\ op[w].job \in DOMAIN jobs
           /\ \A j \in DOMAIN jobs \ {op[w].job} : jobs'[j] = jobs[j]
           /\ jobs'[op[w].job].status = Outcome(w)
           /\ jobs'[op[w].job].cert = jobs[op[w].job].cert
           /\ jobs'[op[w].job].target = jobs[op[w].job].target
           /\ jobs'[op[w].job].version = jobs[op[w].job].version
<1>1. op[w].job \in DOMAIN jobs /\ jobs \in Seq(Job)
  BY DEF IInv, OwnJobs, InFlight, Complete, At, TypeOK
<1>2. jobs[op[w].job] \in Job
  BY <1>1, RowsOf
<1>3. jobs' = [jobs EXCEPT ![op[w].job].status = Outcome(w)]
      /\ Outcome(w) \in {"success", "failed"}
  BY DEF Complete, Outcome
<1>4. /\ DOMAIN jobs' = DOMAIN jobs
      /\ \A j \in DOMAIN jobs \ {op[w].job} : jobs'[j] = jobs[j]
      /\ jobs'[op[w].job] = [jobs[op[w].job] EXCEPT !.status = Outcome(w)]
  BY <1>1, <1>3, CompletedType
<1> QED
  BY <1>1, <1>2, <1>4 DEF Job

LEMMA AsideJobs ==
    ASSUME IInv, References, [Next]_vars, NEW p \in Links, ~ Touches(p)
    PROVE  /\ \A k : k \in JobsOf(p)' <=> k \in JobsOf(p)
           /\ \A k \in JobsOf(p) :
                 jobs'[k].status = jobs[k].status /\ jobs'[k].version = jobs[k].version
<1> DEFINE Claim == /\ \A k : k \in JobsOf(p)' <=> k \in JobsOf(p)
                    /\ \A k \in JobsOf(p) : /\ jobs'[k].status = jobs[k].status
                                            /\ jobs'[k].version = jobs[k].version
<1>t. /\ jobs \in Seq(Job) /\ p[1] \in Certs /\ p[2] \in Targets /\ p = <<p[1], p[2]>>
      /\ \A j \in DOMAIN jobs : jobs[j] \in Job
  BY RowsOf DEF IInv, TypeOK, Links
<1>1. ASSUME NEW w \in Callers, CreateJob(w), Referenced(w) PROVE Claim
  <2>1. Current(w) # p
    BY <1>1 DEF Touches, Works, CreateJob, At, AtLink, Step
  <2>2. ~ (jobs'[Len(jobs) + 1].cert = p[1] /\ jobs'[Len(jobs) + 1].target = p[2])
    <3>1. jobs'[Len(jobs) + 1] = NewJob(w)
      BY <1>1, JobAdded
    <3>2. NewJob(w).cert = op[w].cert /\ NewJob(w).target = op[w].target
      BY DEF NewJob
    <3> QED
      BY <1>t, <2>1, <3>1, <3>2 DEF Current
  <2> QED
    BY <1>1, <2>2, JobAdded DEF JobsOf
<1>2. ASSUME NEW w \in Callers, Complete(w) PROVE Claim
  <2>1. Current(w) # p /\ InFlight(w)
    BY <1>2 DEF Touches, Works, Complete, At, AtLink, Step, InFlight
  <2>2. ~ (jobs[op[w].job].cert = p[1] /\ jobs[op[w].job].target = p[2])
    BY <1>t, <2>1, NullAssumption DEF References, Current
  <2> QED
    BY <1>2, <2>2, JobConcluded DEF JobsOf
<1>3. ASSUME NEW c \in Certs, DeleteCertificate(c) PROVE Claim
  <2>1. c # p[1]
    BY <1>3 DEF Touches
  <2>2. DOMAIN jobs' = DOMAIN jobs
    BY <1>3 DEF DeleteCertificate
  <2>3. ASSUME NEW j \in DOMAIN jobs
        PROVE  /\ jobs'[j].cert = p[1] <=> jobs[j].cert = p[1]
               /\ jobs'[j].target = jobs[j].target
               /\ jobs'[j].status = jobs[j].status /\ jobs'[j].version = jobs[j].version
    BY <1>3, <1>t, <2>1, NullAssumption DEF DeleteCertificate, Job
  <2> QED
    BY <2>2, <2>3 DEF JobsOf
<1>4. ASSUME NEW t \in Targets, DeleteTarget(t) PROVE Claim
  <2>1. t # p[2]
    BY <1>4 DEF Touches
  <2>2. DOMAIN jobs' = DOMAIN jobs
    BY <1>4 DEF DeleteTarget
  <2>3. ASSUME NEW j \in DOMAIN jobs
        PROVE  /\ jobs'[j].target = p[2] <=> jobs[j].target = p[2]
               /\ jobs'[j].cert = jobs[j].cert
               /\ jobs'[j].status = jobs[j].status /\ jobs'[j].version = jobs[j].version
    BY <1>4, <1>t, <2>1, NullAssumption DEF DeleteTarget, Job
  <2> QED
    BY <2>2, <2>3 DEF JobsOf
<1>5. ASSUME UNCHANGED jobs PROVE Claim
  BY <1>5 DEF JobsOf
<1> HIDE DEF Claim
<1>6. Claim
  BY <1>1, <1>2, <1>3, <1>4, <1>5
     DEF Next, vars, Step, SetLinkedTargets, Issue, Renew, Sync, SyncTarget, ReadInputs,
         ReadFiles, NextTarget, CreateJob, Send, Timeout, Upsert, Abandon, Accept, Refuse
<1> QED
  BY <1>6 DEF Claim

LEMMA AsideStep ==
    ASSUME IInv, References, [Next]_vars, NEW p \in Links, ~ Touches(p)
    PROVE  Aside(p)
  BY AsideOps, AsideLinks, AsideNet, AsideKong, AsideJobs DEF Aside

-----------------------------------------------------------------------------
(* The steps that have to do with a link *)

(* A sync reads its links: it finds nothing in progress for this one. *)
LEMMA JoinsLink ==
    ASSUME IInv, [Next]_vars, NEW p \in Links, p \notin stray', Good(p),
           NEW w \in Callers, ReadInputs(w), p \in Engaged(w)'
    PROVE  Good(p)'
<1>0. op \in [Callers -> Op] /\ op[w] \in Op
  BY DEF IInv, TypeOK
<1>1. ~ Return(w)
  BY <1>0, Returned DEF Idle, Engaged
<1>2. /\ op'[w].cert = op[w].cert /\ op'[w].todo = Wanted(w) /\ op'[w].pc \in {"target", "files"}
      /\ op'[w].held[p[2]] = links[p].id /\ links[p].linked
      /\ op[w].pc = "inputs"
  <2> DEFINE h == [t \in Targets |-> links[<<op[w].cert, t>>].id]
  <2>1. op' = [op EXCEPT ![w].pc = IF op[w].one THEN "target" ELSE "files",
                         ![w].todo = Wanted(w), ![w].held = h,
                         ![w].version = version[op[w].cert]]
    BY <1>1 DEF ReadInputs
  <2> HIDE DEF h
  <2>2. op'[w].cert = op[w].cert /\ op'[w].todo = Wanted(w) /\ op'[w].pc \in {"target", "files"}
    BY <1>0, <2>1 DEF Op
  <2>3. p \notin Engaged(w)
    BY DEF ReadInputs, At, Engaged
  <2> QED
    BY <2>2, <2>3, EngagedStep DEF IInv, ReadInputs, At
<1>3. p \in {op[w].cert} \X Wanted(w)
  BY <1>2 DEF Engaged
<1>4. ~ Pending(p) /\ \A v \in Callers : p \notin Engaged(v)
  BY <1>1, <1>3 DEF ReadInputs
<1>5. \A v \in Callers \ {w} : op'[v] = op[v]
  BY OthersKept DEF IInv, Step
<1>6. \A v \in Callers : p \in Engaged(v)' => v = w
  BY <1>4, <1>5 DEF Engaged
<1>7. \A v \in Callers : ~ Works(v, p) /\ ~ Works(v, p)'
  <2>1. \A v \in Callers : ~ Works(v, p)
    BY <1>4, LinkOf DEF Works, IInv
  <2> QED
    BY <1>2, <1>5, <2>1 DEF Works, AtLink, Current
<1>8. UNCHANGED <<links, net, kong, jobs>>
  BY DEF ReadInputs
<1>9. Single(p)'
  BY <1>6 DEF Single
<1>10. Awaited(p)'
  BY <1>4, <1>8 DEF Awaited, Pending
<1>11. HeldStill(p)'
  BY <1>2, <1>6, <1>8 DEF HeldStill
<1>12. Tracked(p)'
  BY <1>7, <1>8 DEF Good, Tracked, HasAnswer, InKong
<1>13. Progress(p)'
  BY <1>7 DEF Progress, AtWork, Works, InFlight, AtLink
<1>14. Agrees(p)'
  BY <1>8 DEF Good, Agrees, LastJob, JobsOf
<1> QED
  BY <1>9, <1>10, <1>11, <1>12, <1>13, <1>14 DEF Good

(* A step of the one caller at the link: what it has to show. *)
LEMMA WorksOn ==
    ASSUME IInv, [Next]_vars, NEW p \in Links, Good(p), NEW w \in Callers, Works(w, p),
           ~ ReadInputs(w), UNCHANGED net \/ Send(w),
           \A v \in Callers \ {w} : op'[v] = op[v],
           p \in Engaged(w)' => op'[w].held = op[w].held /\ links'[p].linked
                                /\ (links'[p].id = links[p].id \/ (Works(w, p)' /\ op'[w].pc = "complete")),
           op[w].pc = "complete" => p \notin Engaged(w)',
           op[w].pc # "wait" \/ p \in stray',
           op'[w].pc = "wait" => Works(w, p)',
           HasAnswer(w, p)' => InKong(p)' = Just(op[w].id)',
           ~ HasAnswer(w, p)' => InKong(p)' = Just(links[p].id)',
           AtWork(w, p)' => DoneSoFar(w, p)',
           Agrees(p)', p \notin stray'
    PROVE  Good(p)'
<1>1. p \in Engaged(w)
  BY LinkOf DEF Works, IInv
<1>2. \A v \in Callers \ {w} : p \notin Engaged(v) /\ p \notin Engaged(v)'
  <2>1. \A v \in Callers \ {w} : p \notin Engaged(v)
    BY <1>1 DEF Good, Single
  <2> QED
    BY <2>1 DEF Engaged
<1>3. \A v \in Callers \ {w} : ~ Works(v, p) /\ ~ Works(v, p)'
  <2>1. \A v \in Callers \ {w} : ~ Works(v, p)
    BY <1>2, LinkOf DEF Works, IInv
  <2> QED
    BY <2>1 DEF Works, Current
<1>4. Single(p)'
  BY <1>2 DEF Single
<1>5. Awaited(p)'
  <2>1. ASSUME NEW r \in net, r.for = p PROVE FALSE
    BY <1>3, <2>1 DEF Good, Awaited
  <2>2. ASSUME Send(w)
        PROVE  /\ net' = net \cup {RequestOf(w)}
               /\ op'[w].pc = "wait" /\ RequestOf(w)' = RequestOf(w) /\ Works(w, p)'
    <3>1. op[w] \in Op /\ op \in [Callers -> Op]
      BY DEF IInv, TypeOK
    <3>2. net' = net \cup {RequestOf(w)} /\ op'[w] = [op[w] EXCEPT !.pc = "wait"]
      BY <2>2, <3>1 DEF Send, Goto
    <3>3. /\ op'[w].cert = op[w].cert /\ op'[w].target = op[w].target /\ op'[w].pc = "wait"
          /\ op'[w].held = op[w].held /\ op'[w].version = op[w].version
          /\ op'[w].job = op[w].job
      BY <3>1, <3>2 DEF Op
    <3> QED
      BY <3>2, <3>3 DEF RequestOf, Current, Works, AtLink
  <2> QED
    BY <2>1, <2>2 DEF Awaited
<1>6. HeldStill(p)'
  <2> SUFFICES ASSUME p \in Engaged(w)'
               PROVE  /\ links'[p].linked
                      /\ \/ op'[w].held[p[2]] = links'[p].id
                         \/ Works(w, p)' /\ op'[w].pc = "complete"
    BY <1>2 DEF HeldStill
  <2>1. op[w].held[p[2]] = links[p].id
    BY <1>1 DEF Good, HeldStill
  <2> QED
    BY <2>1
<1>7. Tracked(p)'
  BY <1>3 DEF Tracked, HasAnswer
<1>8. Progress(p)'
  <2>1. \A v \in Callers \ {w} : ~ AtWork(v, p)'
    BY <1>3 DEF AtWork, Works, InFlight, AtLink
  <2> QED
    BY <2>1 DEF Progress
<1> QED
  BY <1>4, <1>5, <1>6, <1>7, <1>8 DEF Good

(* Ids of jobs are in order: there is one last job. *)
LEMMA OneLast ==
    ASSUME IInv, NEW p, NEW j, NEW k, LastJob(j, p), LastJob(k, p)
    PROVE  j = k
<1>1. jobs \in Seq(Job) /\ j \in DOMAIN jobs /\ k \in DOMAIN jobs
  BY DEF IInv, TypeOK, LastJob, JobsOf
<1>2. j \in Nat /\ k \in Nat /\ j <= k /\ k <= j
  BY <1>1, RowsOf DEF LastJob
<1> QED
  BY <1>2

(* What holds for the caller that is at a good link. *)
LEMMA AtGoodLink ==
    ASSUME IInv, NEW p \in Links, Good(p), NEW w \in Callers, Works(w, p)
    PROVE  /\ op[w].cert = p[1] /\ op[w].target = p[2] /\ p[1] \in Certs
           /\ links[p].linked
           /\ op[w].pc # "complete" => op[w].held[op[w].target] = links[p].id
           /\ \A v \in Callers \ {w} : ~ Works(v, p)
           /\ ~ HasAnswer(w, p) => InKong(p) = Just(links[p].id)
           /\ op[w].pc # "create" => AtWork(w, p) /\ DoneSoFar(w, p)
           /\ op[w].pc # "create" => jobs[op[w].job].status = "running"
<1>1. /\ p \in Engaged(w) /\ op[w].cert \in Certs
      /\ op[w].cert = p[1] /\ op[w].target = p[2]
  BY LinkOf DEF Works, IInv, Current
<1>2. \A v \in Callers \ {w} : ~ Works(v, p)
  BY <1>1, LinkOf DEF Works, IInv, Good, Single
<1>3. ~ HasAnswer(w, p) => InKong(p) = Just(links[p].id)
  BY <1>2 DEF Good, Tracked, HasAnswer
<1>4. op[w].pc # "create" => AtWork(w, p) /\ DoneSoFar(w, p)
  BY DEF Works, AtLink, AtWork, InFlight, Good, Progress
<1>5. op[w].pc # "create" => jobs[op[w].job].status = "running"
  BY <1>4 DEF AtWork, IInv, OwnJobs
<1>6. /\ links[p].linked
      /\ op[w].pc # "complete" => op[w].held[op[w].target] = links[p].id
  BY <1>1 DEF Good, HeldStill
<1> QED
  BY <1>1, <1>2, <1>3, <1>4, <1>5, <1>6

LEMMA WorkerCreates ==
    ASSUME IInv, [Next]_vars, NEW p \in Links, Good(p), NEW w \in Callers, Works(w, p),
           CreateJob(w), Referenced(w), p \notin stray'
    PROVE  Good(p)'
<1>0. op \in [Callers -> Op] /\ op[w] \in Op
  BY DEF IInv, TypeOK
<1> DEFINE pc == IF op[w].version = 0 THEN "upsert" ELSE "send"
<1>1. op' = [op EXCEPT ![w].job = Len(jobs) + 1, ![w].pc = pc, ![w].ok = FALSE]
  BY DEF CreateJob
<1>2. pc \in {"upsert", "send"}
  OBVIOUS
<1> HIDE DEF pc
<1>3. /\ op'[w].job = Len(jobs) + 1 /\ op'[w].pc = pc /\ ~ op'[w].ok
      /\ op'[w].held = op[w].held /\ op'[w].version = op[w].version
      /\ op'[w].cert = op[w].cert /\ op'[w].target = op[w].target
  BY <1>0, <1>1 DEF Op
<1>4. op[w].pc = "create" /\ UNCHANGED <<links, net, kong>>
  BY DEF CreateJob, At
<1>5. \A v \in Callers \ {w} : op'[v] = op[v]
  BY OthersKept DEF Step, IInv
<1>6. /\ links[p].linked /\ InKong(p) = Just(links[p].id)
      /\ op[w].cert = p[1] /\ op[w].target = p[2]
  BY <1>4, AtGoodLink DEF HasAnswer
<1>7. PICK n \in Nat : n = Len(jobs) + 1
  BY DEF IInv, TypeOK
<1>7a. /\ jobs'[n].status = "running"
       /\ jobs'[n].version = op[w].version
       /\ LastJob(n, p)'
       /\ \A k \in DOMAIN jobs' : LastJob(k, p)' => k = n
  <2>1. /\ DOMAIN jobs' = DOMAIN jobs \cup {n}
        /\ n \notin DOMAIN jobs /\ n = Len(jobs) + 1
        /\ DOMAIN jobs = 1 .. Len(jobs) /\ Len(jobs) \in Nat
        /\ jobs'[n] = NewJob(w)
    BY <1>7, JobAdded
  <2>2. /\ NewJob(w).status = "running" /\ NewJob(w).version = op[w].version
        /\ NewJob(w).cert = p[1] /\ NewJob(w).target = p[2]
    BY <1>6 DEF NewJob
  <2>3. n \in JobsOf(p)'
    BY <2>1, <2>2 DEF JobsOf
  <2>4. \A j \in JobsOf(p)' : j <= n /\ j \in Nat
    BY <2>1 DEF JobsOf
  <2>5. \A k \in DOMAIN jobs' : LastJob(k, p)' => k = n
    BY <2>1, <2>3, <2>4 DEF LastJob
  <2>6. LastJob(n, p)'
    BY <2>3, <2>4 DEF LastJob
  <2> QED
    BY <2>1, <2>2, <2>5, <2>6
<1>8. Agrees(p)'
  BY <1>7a DEF Agrees
<1>9. AtWork(w, p)' => DoneSoFar(w, p)'
  BY <1>2, <1>3, <1>7, <1>7a DEF DoneSoFar
<1>10. InKong(p)' = Just(links[p].id)'
  BY <1>4, <1>6 DEF InKong
<1>11. ~ HasAnswer(w, p)'
  BY <1>3 DEF HasAnswer
<1>12. ~ ReadInputs(w)
  BY <1>4 DEF ReadInputs, At
<1> QED
  BY <1>2, <1>3, <1>4, <1>5, <1>6, <1>8, <1>9, <1>10, <1>11, <1>12, WorksOn

LEMMA WorkerSends ==
    ASSUME IInv, [Next]_vars, NEW p \in Links, Good(p), NEW w \in Callers, Works(w, p),
           Send(w), p \notin stray'
    PROVE  Good(p)'
<1>0. op \in [Callers -> Op] /\ op[w] \in Op
  BY DEF IInv, TypeOK
<1>1. op'[w] = [op[w] EXCEPT !.pc = "wait"]
  BY <1>0, Gone DEF Send, Pcs
<1>2. /\ op'[w].pc = "wait" /\ op'[w].job = op[w].job /\ op'[w].version = op[w].version
      /\ op'[w].held = op[w].held /\ op'[w].ok = op[w].ok /\ op'[w].id = op[w].id
      /\ op'[w].cert = op[w].cert /\ op'[w].target = op[w].target
  BY <1>0, <1>1 DEF Op
<1>3. op[w].pc = "send" /\ UNCHANGED <<links, jobs, kong>>
  BY DEF Send, At
<1>4. \A v \in Callers \ {w} : op'[v] = op[v]
  BY OthersKept DEF Step, IInv
<1>5. links[p].linked /\ InKong(p) = Just(links[p].id) /\ DoneSoFar(w, p)
  BY <1>3, AtGoodLink DEF HasAnswer
<1>6. Works(w, p)'
  BY <1>2 DEF Works, AtLink, Current
<1>7. InKong(p)' = Just(links[p].id)' /\ ~ HasAnswer(w, p)'
  BY <1>2, <1>3, <1>5 DEF InKong, HasAnswer
<1>8. DoneSoFar(w, p)'
  BY <1>2, <1>3, <1>5 DEF DoneSoFar, LastJob, JobsOf
<1>9. Agrees(p)'
  BY <1>3 DEF Good, Agrees, LastJob, JobsOf
<1>10. ~ ReadInputs(w)
  BY <1>3 DEF ReadInputs, At
<1> QED
  BY <1>2, <1>3, <1>4, <1>5, <1>6, <1>7, <1>8, <1>9, <1>10, WorksOn

LEMMA WorkerStores ==
    ASSUME IInv, [Next]_vars, NEW p \in Links, Good(p), NEW w \in Callers, Works(w, p),
           Upsert(w), Referenced(w), p \notin stray'
    PROVE  Good(p)'
<1>0. op \in [Callers -> Op] /\ op[w] \in Op /\ links \in [Links -> Link]
  BY DEF IInv, TypeOK
<1>1. op'[w] = [op[w] EXCEPT !.pc = "complete"]
  BY <1>0, Gone DEF Upsert, Pcs
<1>2. /\ op'[w].pc = "complete" /\ op'[w].job = op[w].job /\ op'[w].version = op[w].version
      /\ op'[w].held = op[w].held /\ op'[w].ok = op[w].ok
      /\ op'[w].cert = op[w].cert /\ op'[w].target = op[w].target
  BY <1>0, <1>1 DEF Op
<1>3. op[w].pc = "upsert" /\ UNCHANGED <<net, jobs, kong>> /\ p = Current(w)
  BY DEF Upsert, At, Works
<1>4. \A v \in Callers \ {w} : op'[v] = op[v]
  BY OthersKept DEF Step, IInv
<1>5. /\ DoneSoFar(w, p) /\ op[w].held[op[w].target] = links[p].id
      /\ ~ op[w].ok => InKong(p) = Just(links[p].id)
      /\ jobs[op[w].job].status = "running"
  BY <1>3, AtGoodLink DEF HasAnswer
<1>6. links'[p] = LinkAfter(w)
  BY <1>0, <1>3 DEF Upsert
<1>7. /\ links'[p].linked
      /\ op[w].ok => links'[p].id = op[w].id /\ links'[p].status = "synced"
      /\ ~ op[w].ok => links'[p].id = links[p].id /\ links'[p].status = "failed"
  BY <1>5, <1>6 DEF LinkAfter
<1>8. op[w].ok => InKong(p) = Just(op[w].id) /\ op[w].id # 0
  <2>1. op[w].ok => op[w].id \in DOMAIN kong
    BY <1>3 DEF IInv, KongOwnership, MadeFor
  <2>2. kong \in Seq(Stored)
    BY DEF IInv, TypeOK
  <2>3. op[w].ok => op[w].id # 0
    BY <2>1, <2>2, RowsOf
  <2> QED
    BY <1>3, <2>3 DEF Good, Tracked, HasAnswer
<1>9. InKong(p)' = Just(links[p].id)' /\ ~ HasAnswer(w, p)'
  BY <1>2, <1>3, <1>5, <1>7, <1>8 DEF InKong, HasAnswer
<1>10. DoneSoFar(w, p)'
  <2>1. LastJob(op[w].job, p)' /\ jobs'[op[w].job].version = op[w].version
    BY <1>2, <1>3, <1>5 DEF DoneSoFar, LastJob, JobsOf
  <2>2. op[w].ok => kong[op[w].id].version = op[w].version
    BY <1>3, <1>5 DEF DoneSoFar
  <2> QED
    BY <1>2, <1>3, <1>7, <1>8, <2>1, <2>2 DEF DoneSoFar
<1>11. Agrees(p)'
  <2>1. ASSUME NEW k \in DOMAIN jobs', LastJob(k, p)' PROVE jobs'[k].status = "running"
    <3>1. LastJob(k, p) /\ LastJob(op[w].job, p)
      BY <1>3, <1>5, <2>1 DEF DoneSoFar, LastJob, JobsOf
    <3> QED
      BY <1>3, <1>5, <3>1, OneLast
  <2> QED
    BY <2>1 DEF Agrees
<1>12. Works(w, p)' /\ ~ ReadInputs(w)
  BY <1>2, <1>3 DEF Works, AtLink, Current, ReadInputs, At
<1> QED
  BY <1>2, <1>3, <1>4, <1>7, <1>9, <1>10, <1>11, <1>12, WorksOn

LEMMA WorkerConcludes ==
    ASSUME IInv, [Next]_vars, NEW p \in Links, Good(p), NEW w \in Callers, Works(w, p),
           Complete(w), p \notin stray'
    PROVE  Good(p)'
<1>0. op \in [Callers -> Op] /\ op[w] \in Op
  BY DEF IInv, TypeOK
<1>1. op[w].pc = "complete" /\ UNCHANGED <<links, net, kong>>
  BY DEF Complete, At
<1>2. /\ op[w].cert = p[1] /\ op[w].target = p[2] /\ DoneSoFar(w, p)
      /\ InKong(p) = Just(links[p].id)
  BY <1>1, AtGoodLink DEF HasAnswer
<1>3. p \notin Engaged(w)' /\ op'[w].pc \in {"idle", "target"}
  <2>1. CASE Return(w)
    <3>1. op'[w].pc = "idle"
      BY <1>0, <2>1, Returned DEF Idle
    <3> QED
      BY <3>1 DEF Engaged
  <2>2. CASE ~ Return(w)
    <3>1. op' = [op EXCEPT ![w].pc = "target", ![w].todo = @ \ {op[w].target}]
      BY <2>2 DEF Complete
    <3>2. op'[w].pc = "target" /\ op'[w].todo = op[w].todo \ {p[2]}
      BY <1>0, <1>2, <3>1 DEF Op
    <3> QED
      BY <3>2 DEF Engaged
  <2> QED
    BY <2>1, <2>2
<1>4. \A v \in Callers \ {w} : op'[v] = op[v]
  BY OthersKept DEF Step, IInv
<1>5. InKong(p)' = Just(links[p].id)' /\ ~ HasAnswer(w, p)' /\ ~ AtWork(w, p)'
  BY <1>1, <1>2, <1>3 DEF InKong, HasAnswer, AtWork, InFlight
<1>6. Agrees(p)'
  <2> SUFFICES ASSUME NEW k \in DOMAIN jobs', LastJob(k, p)'
               PROVE  /\ jobs'[k].status = "success" =>
                            /\ links'[p].status = "synced" /\ links'[p].id # 0
                            /\ kong'[links'[p].id].version = jobs'[k].version
                      /\ jobs'[k].status = "failed" => links'[p].status = "failed"
    BY DEF Agrees
  <2>1. JobsOf(p)' = JobsOf(p)
    BY JobConcluded DEF JobsOf
  <2>2. k = op[w].job
    BY <1>2, <2>1, OneLast DEF DoneSoFar, LastJob
  <2>3. jobs'[k].status = Outcome(w) /\ jobs'[k].version = op[w].version
    BY <1>2, <2>2, JobConcluded DEF DoneSoFar
  <2> QED
    BY <1>1, <1>2, <2>3 DEF DoneSoFar, Outcome
<1>7. ~ ReadInputs(w)
  BY <1>1 DEF ReadInputs, At
<1> QED
  BY <1>1, <1>3, <1>4, <1>5, <1>6, <1>7, WorksOn

LEMMA WorkerStep ==
    ASSUME IInv, [Next]_vars, NEW p \in Links, Good(p), NEW w \in Callers, Works(w, p),
           Step(w) \/ Abandon(w), p \notin stray', Alive(p)'
    PROVE  Good(p)'
<1>1. op[w].pc \in AtLink /\ Current(w) = p /\ p \in Engaged(w)
  BY LinkOf DEF Works, IInv
<1>2. UNCHANGED <<certs, targets>>
  BY DEF Step, ReadInputs, ReadFiles, NextTarget, CreateJob, Send, Timeout, Upsert,
     Complete, Abandon
<1>3. Referenced(w)
  BY <1>1, <1>2 DEF Alive, Referenced, Current
<1>4. ~ Abandon(w) /\ ~ Timeout(w)
  BY <1>1 DEF Abandon, Timeout
<1>5. CreateJob(w) \/ Send(w) \/ Upsert(w) \/ Complete(w)
  BY <1>1, <1>4 DEF Step, ReadInputs, ReadFiles, NextTarget, At, AtLink
<1> QED
  BY <1>3, <1>5, WorkerCreates, WorkerSends, WorkerStores, WorkerConcludes

(* The answer for the link: it reaches the one caller there. *)
LEMMA AnswerComes ==
    ASSUME IInv, NEW p \in Links, Good(p), NEW r \in net, r.for = p,
           NEW id \in Nat, NEW ok \in BOOLEAN, Answered(r, id, ok),
           net' = net \ {r}, UNCHANGED <<links, jobs>>,
           ok => InKong(p)' = Just(id) /\ kong'[id].version = r.version,
           ~ ok => InKong(p)' = InKong(p)
    PROVE  Good(p)'
<1>0. op \in [Callers -> Op] /\ OpsGood
  BY DEF IInv, TypeOK, OpsGood
<1>1. PICK w \in Callers : Works(w, p) /\ op[w].pc = "wait" /\ r = RequestOf(w)
  BY DEF Good, Awaited
<1>2. /\ \A v \in Callers \ {w} : ~ Works(v, p) /\ op'[v] = op[v]
      /\ op'[w] = [op[w] EXCEPT !.pc = "upsert", !.id = id, !.ok = ok]
      /\ r.version = op[w].version
  <2>1. r.job = op[w].job /\ r.version = op[w].version
    BY <1>1 DEF RequestOf
  <2>2. \A v \in Callers \ {w} : op[v].pc = "wait" => op[v].job # op[w].job
    BY <1>1 DEF IInv, OwnJobs, InFlight
  <2>3. \A v \in Callers \ {w} : ~ Works(v, p)
    BY <1>1, AtGoodLink
  <2>4. /\ \A v \in Callers \ {w} : op'[v] = op[v]
        /\ op'[w] = [op[w] EXCEPT !.pc = "upsert", !.id = id, !.ok = ok]
    BY <1>1, <2>1, <2>2 DEF Answered
  <2> QED
    BY <2>1, <2>3, <2>4
<1>3. op[w] \in Op
  BY <1>0
<1>4. /\ op'[w].pc = "upsert" /\ op'[w].id = id /\ op'[w].ok = ok
      /\ op'[w].held = op[w].held /\ op'[w].todo = op[w].todo
      /\ op'[w].cert = op[w].cert /\ op'[w].target = op[w].target
      /\ op'[w].version = op[w].version /\ op'[w].job = op[w].job
  BY <1>2, <1>3 DEF Op
<1>5. \A v \in Callers : /\ p \in Engaged(v)' <=> p \in Engaged(v)
                         /\ op'[v].held = op[v].held
                         /\ Works(v, p)' <=> v = w
  <2>1. Works(w, p)' /\ (p \in Engaged(w)' <=> p \in Engaged(w))
    BY <1>1, <1>4 DEF Works, Current, AtLink, Engaged
  <2>2. \A v \in Callers \ {w} : /\ p \in Engaged(v)' <=> p \in Engaged(v)
                                 /\ ~ Works(v, p)'
    BY <1>2 DEF Works, Current, Engaged
  <2> QED
    BY <1>2, <1>4, <2>1, <2>2
<1>6. /\ InKong(p) = Just(links[p].id) /\ DoneSoFar(w, p)
      /\ jobs[op[w].job].status = "running"
  BY <1>1, AtGoodLink DEF HasAnswer
<1>7. Single(p)'
  BY <1>5 DEF Good, Single
<1>8. Awaited(p)'
  <2>1. ASSUME NEW q \in net', q.for = p PROVE FALSE
    <3>1. PICK v \in Callers : Works(v, p) /\ q = RequestOf(v)
      BY <2>1 DEF Good, Awaited
    <3>2. v = w
      BY <1>2, <3>1
    <3> QED
      BY <1>1, <3>1, <3>2
  <2> QED
    BY <2>1 DEF Awaited
<1>9. HeldStill(p)'
  <2> SUFFICES ASSUME NEW v \in Callers, p \in Engaged(v)'
               PROVE  links'[p].linked /\ op'[v].held[p[2]] = links'[p].id
    BY DEF HeldStill
  <2>1. p \in Engaged(v) /\ op'[v].held = op[v].held /\ (Works(v, p) => op[v].pc = "wait")
    BY <1>1, <1>2, <1>5
  <2> QED
    BY <2>1 DEF Good, HeldStill
<1>10. Tracked(p)'
  <2>1. \A v \in Callers : HasAnswer(v, p)' <=> v = w /\ ok
    BY <1>4, <1>5 DEF HasAnswer
  <2>2. ok => InKong(p)' = Just(op'[w].id)
    BY <1>4
  <2>3. ~ ok => InKong(p)' = Just(links'[p].id)
    BY <1>6
  <2> QED
    BY <1>4, <2>1, <2>2, <2>3 DEF Tracked
<1>11. Progress(p)'
  <2>1. ASSUME NEW v \in Callers, AtWork(v, p)' PROVE v = w
    BY <1>5, <2>1 DEF AtWork, Works, InFlight, AtLink
  <2>2. LastJob(op[w].job, p)' /\ jobs'[op'[w].job].version = op'[w].version
    BY <1>4, <1>6 DEF DoneSoFar, LastJob, JobsOf
  <2>3. ok => kong'[op'[w].id].version = op'[w].version
    BY <1>2, <1>4
  <2>4. DoneSoFar(w, p)'
    BY <1>4, <2>2, <2>3 DEF DoneSoFar
  <2> QED
    BY <2>1, <2>4 DEF Progress
<1>12. Agrees(p)'
  <2>1. ASSUME NEW k \in DOMAIN jobs', LastJob(k, p)' PROVE jobs'[k].status = "running"
    <3>1. LastJob(k, p) /\ LastJob(op[w].job, p)
      BY <1>6, <2>1 DEF DoneSoFar, LastJob, JobsOf
    <3> QED
      BY <1>6, <3>1, OneLast
  <2> QED
    BY <2>1 DEF Agrees
<1> QED
  BY <1>7, <1>8, <1>9, <1>10, <1>11, <1>12 DEF Good

LEMMA AcceptKeeps ==
    ASSUME IInv, NEW p \in Links, Good(p), NEW r \in net, r.for = p, Accept(r)
    PROVE  Good(p)'
<1>0. kong \in Seq(Stored) /\ r \in Request /\ Len(kong) \in Nat
  BY DEF IInv, TypeOK
<1>1. InKong(p) = Just(r.id)
  <2>1. PICK w \in Callers : Works(w, p) /\ op[w].pc = "wait" /\ r = RequestOf(w)
    BY DEF Good, Awaited
  <2>2. r.id = op[w].held[op[w].target]
    BY <2>1 DEF RequestOf
  <2> QED
    BY <2>1, <2>2, AtGoodLink DEF HasAnswer
<1>2. PICK id \in Nat : id = IdAnswered(r)
  BY IdAnsweredType DEF IInv
<1>3. InKong(p)' = Just(id) /\ kong'[id].version = r.version
  <2>1. CASE r.id = 0
    <3> DEFINE s == [for |-> r.for, version |-> r.version]
    <3>1. s \in Stored /\ s.for = p /\ s.version = r.version
      BY <1>0 DEF Request, Stored
    <3>2. kong' = Append(kong, s) /\ id = Len(kong) + 1 /\ id # 0
      BY <1>0, <1>2, <2>1 DEF Accept, IdAnswered
    <3> HIDE DEF s
    <3>3. /\ DOMAIN kong' = DOMAIN kong \cup {id}
          /\ kong'[id] = s /\ \A j \in DOMAIN kong : kong'[j] = kong[j]
      BY <1>0, <3>1, <3>2, Appended
    <3>4. InKong(p) = {}
      BY <1>1, <2>1 DEF Just
    <3> QED
      BY <3>1, <3>2, <3>3, <3>4 DEF InKong, Just
  <2>2. CASE r.id # 0
    <3>1. r.id \in DOMAIN kong /\ kong[r.id] \in Stored /\ id = r.id
      BY <1>0, <1>2, <2>2, RowsOf DEF IInv, KongOwnership, MadeFor, IdAnswered
    <3>2. kong' = [kong EXCEPT ![r.id].version = r.version]
      BY <2>2 DEF Accept
    <3>3. /\ DOMAIN kong' = DOMAIN kong
          /\ \A j \in DOMAIN kong \ {r.id} : kong'[j] = kong[j]
          /\ kong'[r.id] = [kong[r.id] EXCEPT !.version = r.version]
      BY <1>0, <3>1, <3>2
    <3>4. kong'[r.id].for = kong[r.id].for /\ kong'[r.id].version = r.version
      BY <3>1, <3>3 DEF Stored
    <3>5. InKong(p)' = InKong(p)
      BY <3>3, <3>4 DEF InKong
    <3> QED
      BY <1>1, <3>1, <3>4, <3>5
  <2> QED
    BY <2>1, <2>2
<1>4. Answered(r, id, TRUE) /\ net' = net \ {r} /\ UNCHANGED <<links, jobs>>
  BY <1>2 DEF Accept
<1> QED
  BY <1>3, <1>4, AnswerComes

LEMMA RefuseKeeps ==
    ASSUME IInv, NEW p \in Links, Good(p), NEW r \in net, r.for = p, Refuse(r)
    PROVE  Good(p)'
<1>1. r.id \in Nat
  BY DEF IInv, TypeOK, Request
<1>2. /\ Answered(r, r.id, FALSE) /\ net' = net \ {r} /\ UNCHANGED <<links, jobs>>
      /\ InKong(p)' = InKong(p)
  BY DEF Refuse, InKong
<1> QED
  BY <1>1, <1>2, AnswerComes

(* A link comes or goes when it has nothing to lose. *)
LEMMA RelinkKeeps ==
    ASSUME IInv, OnlyAlive, NEW p \in Links, Good(p), p \notin stray',
           NEW selected \in SUBSET Targets, SetLinkedTargets(p[1], selected)
    PROVE  Good(p)'
<1>0. /\ links \in [Links -> Link] /\ p[1] \in Certs /\ p[2] \in Targets
      /\ p = <<p[1], p[2]>>
  BY DEF IInv, TypeOK, Links
<1>1. UNCHANGED <<op, net, kong, jobs>>
  BY DEF SetLinkedTargets
<1>2. \/ links'[p] = links[p]
      \/ /\ \A w \in Callers : p \notin Engaged(w)
         /\ links'[p].id = links[p].id /\ links'[p].status = links[p].status
  <2>1. CASE p[2] \notin selected
    <3>1. links'[p] = NotLinked
      BY <1>0, <2>1 DEF SetLinkedTargets, Relinked
    <3>2. p \in {p[1]} \X (Targets \ selected)
      BY <1>0, <2>1
    <3>3. links[p] \in {NotLinked, NewLink} /\ \A w \in Callers : p \notin Engaged(w)
      BY <3>2 DEF SetLinkedTargets
    <3> QED
      BY <3>1, <3>3 DEF NotLinked, NewLink
  <2>2. CASE p[2] \in selected /\ links[p].linked
    BY <1>0, <2>2 DEF SetLinkedTargets, Relinked
  <2>3. CASE p[2] \in selected /\ ~ links[p].linked
    <3>1. links'[p] = NewLink /\ links[p] = NotLinked
      BY <1>0, <2>3 DEF SetLinkedTargets, Relinked, OnlyAlive
    <3>2. \A w \in Callers : p \notin Engaged(w)
      BY <2>3 DEF Good, HeldStill
    <3> QED
      BY <3>1, <3>2 DEF NotLinked, NewLink
  <2> QED
    BY <2>1, <2>2, <2>3
<1>3. Single(p)' /\ Awaited(p)'
  BY <1>1 DEF Good, Single, Engaged, Awaited, Works, Current, RequestOf
<1>4. HeldStill(p)'
  BY <1>1, <1>2 DEF Good, HeldStill, Engaged, Works, Current
<1>5. Tracked(p)'
  <2>1. links'[p].id = links[p].id
    BY <1>2
  <2>2. InKong(p)' = InKong(p) /\ \A w \in Callers : HasAnswer(w, p)' <=> HasAnswer(w, p)
    BY <1>1 DEF InKong, HasAnswer, Works, Current
  <2> QED
    BY <1>1, <2>1, <2>2 DEF Good, Tracked
<1>6. Progress(p)' /\ Agrees(p)'
  <2>1. links'[p].id = links[p].id /\ links'[p].status = links[p].status
    BY <1>2
  <2>2. \A w \in Callers : AtWork(w, p)' <=> AtWork(w, p)
    BY <1>1 DEF AtWork, InFlight, Current
  <2>3. \A k : LastJob(k, p)' <=> LastJob(k, p)
    BY <1>1 DEF LastJob, JobsOf
  <2>4. \A w \in Callers : DoneSoFar(w, p) => DoneSoFar(w, p)'
    BY <1>1, <2>1 DEF DoneSoFar, LastJob, JobsOf
  <2>5. Progress(p)'
    BY <2>2, <2>4 DEF Good, Progress
  <2>6. Agrees(p)'
    BY <1>1, <2>1, <2>3 DEF Good, Agrees
  <2> QED
    BY <2>5, <2>6
<1> QED
  BY <1>3, <1>4, <1>5, <1>6 DEF Good

(* A link is linked between a certificate and a target that are there. *)
LEMMA OnlyAliveStep ==
    ASSUME IInv, OnlyAlive, [Next]_vars
    PROVE  OnlyAlive'
<1> DEFINE Shaped(p) == /\ ~ links'[p].linked => links'[p] = NotLinked
                        /\ links'[p].linked => Alive(p)'
<1>0. links \in [Links -> Link]
  BY DEF IInv, TypeOK
<1>1. ASSUME NEW w \in Callers, Upsert(w), Referenced(w), NEW p \in Links PROVE Shaped(p)
  <2>1. UNCHANGED <<certs, targets>> /\ links' = [links EXCEPT ![Current(w)] = LinkAfter(w)]
    BY <1>1 DEF Upsert
  <2>2. CASE p = Current(w)
    <3>1. links'[p].linked
      BY <1>0, <2>1, <2>2 DEF LinkAfter
    <3>2. Alive(p)'
      BY <1>1, <2>1, <2>2 DEF Alive, Referenced, Current
    <3> QED
      BY <3>1, <3>2
  <2>3. CASE p # Current(w)
    BY <1>0, <2>1, <2>3 DEF OnlyAlive, Alive
  <2> QED
    BY <2>2, <2>3
<1>2. ASSUME NEW c \in Certs, NEW selected \in SUBSET Targets, SetLinkedTargets(c, selected),
             NEW p \in Links
      PROVE  Shaped(p)
  <2>1. UNCHANGED <<certs, targets>> /\ c \in certs /\ selected \subseteq targets
    BY <1>2 DEF SetLinkedTargets
  <2>2. \/ links'[p] = links[p]
        \/ links'[p] = NotLinked
        \/ links'[p] = NewLink /\ p[1] = c /\ p[2] \in selected
    BY <1>2 DEF SetLinkedTargets, Relinked
  <2>3. CASE links'[p] = links[p]
    BY <2>1, <2>3 DEF OnlyAlive, Alive
  <2>4. CASE links'[p] = NotLinked
    BY <2>4 DEF NotLinked
  <2>5. CASE links'[p] = NewLink /\ p[1] = c /\ p[2] \in selected
    BY <2>1, <2>5 DEF NewLink, Alive
  <2> QED
    BY <2>2, <2>3, <2>4, <2>5
<1>3. ASSUME NEW c \in Certs, DeleteCertificate(c), NEW p \in Links PROVE Shaped(p)
  <2>1. links'[p] = (IF p[1] = c THEN NotLinked ELSE links[p])
        /\ certs' = certs \ {c} /\ targets' = targets
    BY <1>3 DEF DeleteCertificate
  <2> QED
    BY <2>1 DEF OnlyAlive, Alive, NotLinked
<1>4. ASSUME NEW t \in Targets, DeleteTarget(t), NEW p \in Links PROVE Shaped(p)
  <2>1. links'[p] = (IF p[2] = t THEN NotLinked ELSE links[p])
        /\ targets' = targets \ {t} /\ certs' = certs
    BY <1>4 DEF DeleteTarget
  <2> QED
    BY <2>1 DEF OnlyAlive, Alive, NotLinked
<1>5. ASSUME UNCHANGED <<links, certs, targets>>, NEW p \in Links PROVE Shaped(p)
  BY <1>5 DEF OnlyAlive, Alive
<1> HIDE DEF Shaped
<1>6. \A p \in Links : Shaped(p)
  BY <1>1, <1>2, <1>3, <1>4, <1>5
     DEF Next, vars, Step, Issue, Renew, Sync, SyncTarget, ReadInputs, ReadFiles,
         NextTarget, CreateJob, Send, Timeout, Upsert, Complete, Abandon, Accept, Refuse
<1> QED
  BY <1>6 DEF Shaped, OnlyAlive, Links

LEMMA AliveBefore ==
    ASSUME [Next]_vars, NEW p, Alive(p)'
    PROVE  Alive(p)
<1>1. certs' \subseteq certs /\ targets' \subseteq targets
  BY DEF Next, vars, Step, DeleteCertificate, DeleteTarget, SetLinkedTargets, Issue, Renew,
     Sync, SyncTarget, ReadInputs, ReadFiles, NextTarget, CreateJob, Send, Timeout, Upsert,
     Complete, Abandon, Accept, Refuse
<1> QED
  BY <1>1 DEF Alive

LEMMA GoodStep ==
    ASSUME IInv, References, LinksInv, [Next]_vars,
           NEW p \in Links \ stray', Alive(p)'
    PROVE  Good(p)'
<1>1. Good(p) /\ OnlyAlive /\ p \in Links /\ p \notin stray'
  BY StrayGrows, AliveBefore DEF LinksInv
<1>2. CASE ~ Touches(p)
  BY <1>1, <1>2, AsideStep, AsideKeeps
<1>3. ASSUME NEW v \in Callers, ReadInputs(v), p \in Engaged(v)' PROVE Good(p)'
  BY <1>1, <1>3, JoinsLink
<1>4. ASSUME NEW v \in Callers, Works(v, p), Step(v) \/ Abandon(v) PROVE Good(p)'
  BY <1>1, <1>4, WorkerStep
<1>5. ASSUME NEW r \in net, r.for = p, Accept(r) \/ Refuse(r) PROVE Good(p)'
  BY <1>1, <1>5, AcceptKeeps, RefuseKeeps
<1>6. ASSUME NEW selected \in SUBSET Targets, SetLinkedTargets(p[1], selected) PROVE Good(p)'
  BY <1>1, <1>6, RelinkKeeps
<1>7. ~ DeleteCertificate(p[1]) /\ ~ DeleteTarget(p[2])
  BY DEF DeleteCertificate, DeleteTarget, Alive
<1> QED
  BY <1>2, <1>3, <1>4, <1>5, <1>6, <1>7 DEF Touches

LEMMA LinksInitially == Init => LinksInv
<1> SUFFICES ASSUME Init PROVE LinksInv
  OBVIOUS
<1>1. /\ \A w \in Callers : op[w].pc = "idle"
      /\ \A p \in Links : links[p] = NotLinked
      /\ jobs = << >> /\ kong = << >> /\ net = {}
  BY DEF Init, Idle
<1>2. OnlyAlive
  BY <1>1 DEF OnlyAlive, NotLinked
<1>3. ASSUME NEW p \in Links PROVE Good(p)
  <2>1. \A w \in Callers : ~ Works(w, p) /\ ~ AtWork(w, p) /\ p \notin Engaged(w)
    BY <1>1 DEF Works, AtLink, AtWork, InFlight, Engaged
  <2>2. InKong(p) = {} /\ links[p].id = 0 /\ ~ \E k \in DOMAIN jobs : TRUE
    BY <1>1, <1>3 DEF InKong, NotLinked
  <2> QED
    BY <1>1, <2>1, <2>2 DEF Good, Single, Awaited, HeldStill, Tracked, HasAnswer, Just,
       Progress, Agrees
<1> QED
  BY <1>2, <1>3 DEF LinksInv

LEMMA LinksHold == Spec => [](IInv /\ LinksInv)
<1>1. Init => CauseInv /\ LinksInv
  BY LinksInitially DEF Init, CauseInv, References, SyncOrphanCause, InFlight, Idle
<1>2. IInv /\ CauseInv /\ LinksInv /\ [Next]_vars => CauseInv' /\ LinksInv'
  BY ReferencesStep, CauseStep, GoodStep, OnlyAliveStep DEF CauseInv, LinksInv
<1> QED
  BY <1>1, <1>2, Invariance, PTL DEF Spec

(* Kong holds for a link the one certificate the link names, or none when it
   names none: POST is sent only while the link has no id, and the id that is
   stored is the one it was answered with (kong_sync.go:157-178,
   admin_client.go:73-125). *)
THEOREM KongHasOne == Spec => []OneKongCertificate
<1>1. ASSUME IInv, LinksInv PROVE OneKongCertificate
  <2> SUFFICES ASSUME NEW p \in Links \ stray, links[p].linked, Quiet(p)
               PROVE  {k \in DOMAIN kong : kong[k].for = p} =
                         IF links[p].id = 0 THEN {} ELSE {links[p].id}
    BY DEF OneKongCertificate
  <2>1. Good(p)
    BY <1>1 DEF LinksInv, OnlyAlive
  <2>2. \A w \in Callers : ~ HasAnswer(w, p)
    BY <1>1, LinkOf DEF IInv, Quiet, HasAnswer, Works
  <2> QED
    BY <2>1, <2>2 DEF Good, Tracked, InKong, Just
<1> QED
  BY <1>1, LinksHold, PTL

(* The link tells what its last job did: the row is written before the job is
   concluded, by the one sync the link is with (kong_sync.go:176-187). *)
THEOREM StatusFollowsSync == Spec => []StatusAgreesWithSync
<1>1. ASSUME LinksInv PROVE StatusAgreesWithSync
  <2> SUFFICES ASSUME NEW p \in Links \ stray, NEW k \in DOMAIN jobs,
                      links[p].linked, k \in JobsOf(p), \A j \in JobsOf(p) : j <= k
               PROVE  /\ jobs[k].status = "success" =>
                            /\ links[p].status = "synced"
                            /\ kong[links[p].id].version = jobs[k].version
                      /\ jobs[k].status = "failed" => links[p].status = "failed"
    BY DEF StatusAgreesWithSync
  <2>1. Good(p)
    BY <1>1 DEF LinksInv, OnlyAlive
  <2>2. LastJob(k, p)
    BY DEF LastJob
  <2> QED
    BY <2>1, <2>2 DEF Good, Agrees
<1> QED
  BY <1>1, LinksHold, PTL

-----------------------------------------------------------------------------
(* A new version reaches every link. *)

(* A sync of one link has that link to do. *)
OneLink == \A w \in Callers : op[w].one => op[w].todo \subseteq {op[w].target}

(* A sync of all links of c is about to read what is in the files. *)
Comes(w, c) == op[w].pc = "inputs" /\ ~ op[w].one /\ op[w].cert = c
Coming(c)   == \E w \in Callers : Comes(w, c)

(* The files are read before the first link, or the one link, is done. *)
HasRead(w) == op[w].pc \in AtLink \/ (op[w].pc = "target" /\ ~ op[w].one)

(* The caller has the link still to do, or to store. *)
WillDo(w, p) == p \in Engaged(w) /\ ~ (Works(w, p) /\ op[w].pc = "complete")

Fresh(p) ==
    /\ \A w \in Callers : p \in Engaged(w) =>
          /\ HasRead(w) => op[w].version = version[p[1]] \/ Coming(p[1])
          /\ ~ HasRead(w) /\ op[w].version = 0 => version[p[1]] = 0
    /\ links[p].status = "synced" =>
          /\ links[p].id # 0
          /\ \/ kong[links[p].id].version = version[p[1]]
             \/ Coming(p[1])
             \/ \E w \in Callers : WillDo(w, p)

FreshInv == \A p \in Links \ (stray \cup stale) : Alive(p) => Fresh(p)

(* What a sync holds once it has read its links. *)
LEMMA InputsRead ==
    ASSUME TypeOK, NEW w \in Callers, ReadInputs(w), ~ Return(w)
    PROVE  /\ op[w].pc = "inputs" /\ op'[w].pc = (IF op[w].one THEN "target" ELSE "files")
           /\ op'[w].todo = Wanted(w) /\ op'[w].version = version[op[w].cert]
           /\ op'[w].cert = op[w].cert /\ op'[w].one = op[w].one
           /\ op'[w].target = op[w].target
           /\ \A p \in {op[w].cert} \X Wanted(w) :
                 p \in stray' \/ \A v \in Callers : p \notin Engaged(v)
<1>0. op \in [Callers -> Op] /\ op[w] \in Op
  BY DEF TypeOK
<1> DEFINE h == [t \in Targets |-> links[<<op[w].cert, t>>].id]
           pc == IF op[w].one THEN "target" ELSE "files"
<1>1. op' = [op EXCEPT ![w].pc = pc, ![w].todo = Wanted(w), ![w].held = h,
                       ![w].version = version[op[w].cert]]
  BY DEF ReadInputs
<1> HIDE DEF h
<1>2. /\ op'[w].pc = pc /\ op'[w].todo = Wanted(w) /\ op'[w].version = version[op[w].cert]
      /\ op'[w].cert = op[w].cert /\ op'[w].one = op[w].one /\ op'[w].target = op[w].target
  BY <1>0, <1>1 DEF Op
<1>3. \A p \in {op[w].cert} \X Wanted(w) :
         p \in stray' \/ \A v \in Callers : p \notin Engaged(v)
  BY DEF ReadInputs
<1> QED
  BY <1>2, <1>3 DEF ReadInputs, At

(* What an answer leaves as it is. *)
LEMMA AnsweredKeeps ==
    ASSUME TypeOK, OnItsLink, NEW r \in net, Accept(r) \/ Refuse(r), NEW v \in Callers
    PROVE  /\ op'[v].cert = op[v].cert /\ op'[v].target = op[v].target
           /\ op'[v].todo = op[v].todo /\ op'[v].one = op[v].one
           /\ op'[v].version = op[v].version
           /\ \/ op'[v].pc = op[v].pc
              \/ op[v].pc = "wait" /\ op'[v].pc = "upsert"
<1>0. op[v] \in Op
  BY DEF TypeOK
<1>1. ASSUME NEW id, NEW ok, Answered(r, id, ok)
      PROVE  \/ op'[v] = op[v]
             \/ op[v].pc = "wait" /\ op'[v] = [op[v] EXCEPT !.pc = "upsert", !.id = id, !.ok = ok]
  BY <1>1 DEF Answered
<1>2. ASSUME NEW id, NEW ok, op'[v] = [op[v] EXCEPT !.pc = "upsert", !.id = id, !.ok = ok]
      PROVE  /\ op'[v].cert = op[v].cert /\ op'[v].target = op[v].target
             /\ op'[v].todo = op[v].todo /\ op'[v].one = op[v].one
             /\ op'[v].version = op[v].version /\ op'[v].pc = "upsert"
  BY <1>0, <1>2 DEF Op
<1>3. \/ op'[v] = op[v]
      \/ /\ op[v].pc = "wait"
         /\ \E id, ok : op'[v] = [op[v] EXCEPT !.pc = "upsert", !.id = id, !.ok = ok]
  BY <1>1 DEF Accept, Refuse
<1> QED
  BY <1>2, <1>3

(* Callers that begin have nothing to do yet. *)
LEMMA Begins ==
    ASSUME TypeOK, NEW w \in Callers, NEW c \in Certs,
           \/ Renew(w, c) \/ Sync(w, c) \/ \E t \in Targets : SyncTarget(w, c, t)
    PROVE  /\ op[w].pc = "idle" /\ op'[w].pc = "inputs" /\ op'[w].todo = {}
           /\ \A v \in Callers \ {w} : op'[v] = op[v]
<1>0. op \in [Callers -> Op] /\ Idle \in Op /\ Idle.todo = {} /\ op[w].pc = "idle"
  BY IdleType DEF TypeOK, Renew, Sync, SyncTarget, Begin, At, Idle
<1>1. PICK o : /\ op' = [op EXCEPT ![w] = o]
               /\ \/ o = [Idle EXCEPT !.pc = "inputs", !.cert = c]
                  \/ \E t \in Targets : o = [Idle EXCEPT !.pc = "inputs", !.cert = c,
                                                          !.one = TRUE, !.target = t]
  BY DEF Renew, Sync, SyncTarget
<1>2. o.pc = "inputs" /\ o.todo = {}
  BY <1>0, <1>1 DEF Op
<1> QED
  BY <1>0, <1>1, <1>2

(* The ways an operation changes, once more, with what they change. *)
LEMMA OpMoves ==
    ASSUME TypeOK, [Next]_vars, NEW v \in Callers
    PROVE  \/ op'[v] = op[v]
           \/ Step(v) /\ ~ Return(v)
           \/ Return(v) /\ (Step(v) \/ Abandon(v))
           \/ op[v].pc = "idle" /\ op'[v].pc = "inputs" /\ op'[v].todo = {}
           \/ \E r \in net : Accept(r) \/ Refuse(r)
<1>1. ASSUME NEW w \in Callers, Step(w) \/ Abandon(w), w # v PROVE op'[v] = op[v]
  BY <1>1, OthersKept
<1>2. ASSUME NEW w \in Callers, NEW c \in Certs,
             \/ Renew(w, c) \/ Sync(w, c) \/ \E t \in Targets : SyncTarget(w, c, t)
      PROVE  \/ op'[v] = op[v]
             \/ op[v].pc = "idle" /\ op'[v].pc = "inputs" /\ op'[v].todo = {}
  BY <1>2, Begins
<1>3. Abandon(v) => Return(v)
  BY DEF Abandon
<1> QED
  BY <1>1, <1>2, <1>3 DEF Next, vars, DeleteCertificate, DeleteTarget, SetLinkedTargets, Issue

(* What a step between the inputs and the end does to what there is to do. *)
LEMMA TodoStep ==
    ASSUME TypeOK, OnItsLink, NEW v \in Callers, Step(v), ~ Return(v), ~ ReadInputs(v)
    PROVE  /\ op'[v].cert = op[v].cert /\ op'[v].one = op[v].one
           /\ \/ op'[v].todo = op[v].todo
              \/ \E t : NextTarget(v) /\ t \notin targets /\ op'[v].todo = op[v].todo \ {t}
              \/ Complete(v) /\ op'[v].todo = op[v].todo \ {op[v].target}
                 /\ op[v].todo # {op[v].target}
           /\ \/ op'[v].target = op[v].target
              \/ NextTarget(v) /\ op'[v].target \in op[v].todo
           /\ \/ op'[v].version = op[v].version
              \/ ReadFiles(v)
           /\ \/ NextTarget(v) /\ op[v].pc = "target"
                 /\ op'[v].pc \in {"target", IF op[v].one THEN "files" ELSE "create"}
              \/ ReadFiles(v) /\ op[v].pc = "files"
                 /\ op'[v].pc = (IF op[v].one THEN "create" ELSE "target")
                 /\ op'[v].version = (IF op[v].version = 0 THEN 0 ELSE version[op[v].cert])
              \/ Complete(v) /\ op[v].pc = "complete" /\ op'[v].pc = "target"
              \/ Upsert(v) /\ Referenced(v) /\ op[v].pc = "upsert" /\ op'[v].pc = "complete"
              \/ op[v].pc \in {"create", "send", "wait"}
                 /\ op'[v].pc \in {"upsert", "send", "wait"}
<1> USE DEF At
<1>0. op \in [Callers -> Op] /\ op[v] \in Op
  BY DEF TypeOK
<1>1. CASE ReadFiles(v)
  <2> DEFINE pc == IF op[v].one THEN "create" ELSE "target"
             n  == IF op[v].version = 0 THEN 0 ELSE version[op[v].cert]
  <2>1. op' = [op EXCEPT ![v].pc = pc, ![v].version = n]
    BY <1>1 DEF ReadFiles
  <2> HIDE DEF pc, n
  <2>2. /\ op'[v].pc = pc /\ op'[v].version = n /\ op'[v].cert = op[v].cert
        /\ op'[v].one = op[v].one /\ op'[v].todo = op[v].todo /\ op'[v].target = op[v].target
    BY <1>0, <2>1 DEF Op
  <2> QED
    BY <1>1, <2>2 DEF ReadFiles, pc, n
<1>2. CASE NextTarget(v)
  <2> DEFINE pc == IF op[v].one THEN "files" ELSE "create"
  <2>1. PICK t \in op[v].todo :
           \/ t \in targets /\ op' = [op EXCEPT ![v].pc = pc, ![v].target = t]
           \/ t \notin targets /\ op' = [op EXCEPT ![v].todo = @ \ {t}]
    BY <1>2 DEF NextTarget
  <2> HIDE DEF pc
  <2>2. ASSUME op' = [op EXCEPT ![v].pc = pc, ![v].target = t]
        PROVE  /\ op'[v].pc = pc /\ op'[v].target = t /\ op'[v].cert = op[v].cert
               /\ op'[v].one = op[v].one /\ op'[v].todo = op[v].todo
               /\ op'[v].version = op[v].version
    BY <1>0, <2>2 DEF Op
  <2>3. ASSUME op' = [op EXCEPT ![v].todo = @ \ {t}]
        PROVE  /\ op'[v].pc = op[v].pc /\ op'[v].target = op[v].target
               /\ op'[v].cert = op[v].cert /\ op'[v].one = op[v].one
               /\ op'[v].todo = op[v].todo \ {t} /\ op'[v].version = op[v].version
    BY <1>0, <2>3 DEF Op
  <2>4. op[v].pc = "target"
    BY <1>2 DEF NextTarget
  <2> QED
    BY <1>2, <2>1, <2>2, <2>3, <2>4 DEF pc
<1>3. CASE CreateJob(v)
  <2> DEFINE pc == IF op[v].version = 0 THEN "upsert" ELSE "send"
  <2>1. op' = [op EXCEPT ![v].job = Len(jobs) + 1, ![v].pc = pc, ![v].ok = FALSE]
        /\ op[v].pc = "create"
    BY <1>3 DEF CreateJob, EndsEarly
  <2>2. pc \in {"upsert", "send"}
    OBVIOUS
  <2> HIDE DEF pc
  <2>3. /\ op'[v].pc = pc /\ op'[v].version = op[v].version /\ op'[v].cert = op[v].cert
        /\ op'[v].one = op[v].one /\ op'[v].todo = op[v].todo /\ op'[v].target = op[v].target
    BY <1>0, <2>1 DEF Op
  <2> QED
    BY <2>1, <2>2, <2>3
<1>4. ASSUME NEW pc, Goto(v, pc)
      PROVE  /\ op'[v].pc = pc /\ op'[v].version = op[v].version /\ op'[v].cert = op[v].cert
             /\ op'[v].one = op[v].one /\ op'[v].todo = op[v].todo
             /\ op'[v].target = op[v].target
  <2>1. op'[v] = [op[v] EXCEPT !.pc = pc]
    BY <1>0, <1>4 DEF Goto
  <2> QED
    BY <1>0, <2>1 DEF Op
<1>5. CASE Send(v) \/ Upsert(v)
  BY <1>4, <1>5 DEF Send, Upsert, EndsEarly
<1>6. CASE Timeout(v)
  <2>1. op'[v] = [op[v] EXCEPT !.pc = "upsert", !.ok = FALSE] /\ op[v].pc = "wait"
    BY <1>0, <1>6 DEF Timeout, TimedOut
  <2>2. /\ op'[v].pc = "upsert" /\ op'[v].version = op[v].version /\ op'[v].cert = op[v].cert
        /\ op'[v].one = op[v].one /\ op'[v].todo = op[v].todo /\ op'[v].target = op[v].target
    BY <1>0, <2>1 DEF Op
  <2> QED
    BY <2>1, <2>2
<1>7. CASE Complete(v)
  <2>1. /\ op'[v] = [op[v] EXCEPT !.pc = "target", !.todo = @ \ {op[v].target}]
        /\ op[v].todo # {op[v].target} /\ op[v].pc = "complete"
    BY <1>0, <1>7 DEF Complete
  <2>2. /\ op'[v].pc = "target" /\ op'[v].version = op[v].version /\ op'[v].cert = op[v].cert
        /\ op'[v].one = op[v].one /\ op'[v].todo = op[v].todo \ {op[v].target}
        /\ op'[v].target = op[v].target
    BY <1>0, <2>1 DEF Op
  <2> QED
    BY <1>7, <2>1, <2>2
<1> QED
  BY <1>1, <1>2, <1>3, <1>5, <1>6, <1>7 DEF Step

LEMMA OneLinkStep ==
    ASSUME IInv, OneLink, [Next]_vars
    PROVE  OneLink'
<1> SUFFICES ASSUME NEW v \in Callers, op'[v].one
             PROVE  op'[v].todo \subseteq {op'[v].target}
  BY DEF OneLink
<1>t. TypeOK /\ OnItsLink
  BY DEF IInv
<1>1. CASE op'[v] = op[v]
  BY <1>1 DEF OneLink
<1>2. ASSUME Step(v), ~ Return(v) PROVE op'[v].todo \subseteq {op'[v].target}
  <2>1. ASSUME ReadInputs(v) PROVE op'[v].todo \subseteq {op'[v].target}
    <3>1. /\ op'[v].todo = Wanted(v) /\ op'[v].one = op[v].one
          /\ op'[v].target = op[v].target
      BY <1>t, <1>2, <2>1, InputsRead
    <3>2. op[v].one
      BY <3>1
    <3>3. Wanted(v) \subseteq {op[v].target}
      BY <3>2 DEF Wanted
    <3> QED
      BY <3>1, <3>3
  <2>2. CASE ~ ReadInputs(v)
    BY <1>t, <1>2, <2>2, TodoStep DEF OneLink
  <2> QED
    BY <2>1, <2>2
<1>3. CASE Return(v)
  BY <1>3, Returned DEF IInv, TypeOK, Idle
<1>4. CASE op'[v].todo = {}
  BY <1>4
<1>5. CASE \E r \in net : Accept(r) \/ Refuse(r)
  BY <1>t, <1>5, AnsweredKeeps DEF OneLink
<1> QED
  BY <1>t, <1>1, <1>2, <1>3, <1>4, <1>5, OpMoves

(* Where the version comes from that a sync holds for a link. *)
LEMMA HeldVersion ==
    ASSUME IInv, OneLink, [Next]_vars, NEW p \in Links, NEW v \in Callers, p \in Engaged(v)'
    PROVE  \/ /\ p \in Engaged(v) /\ (HasRead(v)' <=> HasRead(v))
              /\ op'[v].version = op[v].version
           \/ /\ p \in Engaged(v) /\ ~ HasRead(v) /\ HasRead(v)' /\ ReadFiles(v)
              /\ op'[v].version = IF op[v].version = 0 THEN 0 ELSE version[p[1]]
           \/ /\ ReadInputs(v) /\ ~ HasRead(v)'
              /\ op'[v].version = version[p[1]]
<1>t. TypeOK /\ OnItsLink /\ op[v] \in Op /\ op[v].one \in BOOLEAN
  BY DEF IInv, TypeOK, Op
<1>a. p[1] = op'[v].cert /\ p[2] \in op'[v].todo /\ op'[v].pc \notin {"idle", "inputs"}
      /\ p = <<p[1], p[2]>>
  BY DEF Engaged, Links
<1>b. op'[v].cert = op[v].cert /\ p[2] \in op[v].todo /\ op[v].pc \notin {"idle", "inputs"}
      => p \in Engaged(v)
  BY <1>a DEF Engaged
<1>1. CASE op'[v] = op[v]
  BY <1>1 DEF Engaged, HasRead
<1>2. CASE Step(v) /\ ~ Return(v)
  <2>1. CASE ReadInputs(v)
    <3>1. /\ op'[v].pc = (IF op[v].one THEN "target" ELSE "files")
          /\ op'[v].version = version[op[v].cert]
          /\ op'[v].cert = op[v].cert /\ op'[v].one = op[v].one
      BY <1>t, <1>2, <2>1, InputsRead
    <3>2. ~ HasRead(v)'
      BY <1>t, <3>1 DEF HasRead, AtLink
    <3> QED
      BY <1>a, <2>1, <3>1, <3>2
  <2>2. CASE ~ ReadInputs(v)
    <3>1. /\ op'[v].cert = op[v].cert /\ op'[v].one = op[v].one
          /\ \/ op'[v].version = op[v].version
             \/ ReadFiles(v)
          /\ \/ NextTarget(v) /\ op[v].pc = "target"
                /\ op'[v].pc \in {"target", IF op[v].one THEN "files" ELSE "create"}
             \/ ReadFiles(v) /\ op[v].pc = "files"
                /\ op'[v].pc = (IF op[v].one THEN "create" ELSE "target")
                /\ op'[v].version = (IF op[v].version = 0 THEN 0 ELSE version[op[v].cert])
             \/ Complete(v) /\ op[v].pc = "complete" /\ op'[v].pc = "target"
             \/ op[v].pc \in AtLink /\ op'[v].pc \in AtLink
      BY <1>t, <1>2, <2>2, TodoStep DEF AtLink
    <3>2. p[2] \in op[v].todo /\ op[v].pc \notin {"idle", "inputs"}
      BY <1>t, <1>a, <1>2, <2>2, TodoStep
    <3>3. p \in Engaged(v)
      BY <1>b, <3>1, <3>2
    <3>4. CASE NextTarget(v) /\ op[v].pc = "target"
               /\ op'[v].pc \in {"target", IF op[v].one THEN "files" ELSE "create"}
      <4>1. op'[v].version = op[v].version
        BY <3>1, <3>4 DEF ReadFiles, At
      <4>2. HasRead(v)' <=> HasRead(v)
        BY <1>t, <3>1, <3>4 DEF HasRead, AtLink
      <4> QED
        BY <3>3, <4>1, <4>2
    <3>5. CASE ReadFiles(v) /\ op[v].pc = "files"
               /\ op'[v].pc = (IF op[v].one THEN "create" ELSE "target")
               /\ op'[v].version = (IF op[v].version = 0 THEN 0 ELSE version[op[v].cert])
      <4>1. ~ HasRead(v) /\ HasRead(v)'
        BY <1>t, <3>1, <3>5 DEF HasRead, AtLink
      <4> QED
        BY <1>a, <3>1, <3>3, <3>5, <4>1
    <3>6. CASE Complete(v) /\ op[v].pc = "complete" /\ op'[v].pc = "target"
      <4>1. op'[v].version = op[v].version
        BY <3>1, <3>6 DEF ReadFiles, At
      <4>2. ~ op[v].one
        <5>1. op[v].target \in op[v].todo /\ op[v].todo # {op[v].target}
          BY <1>t, <1>2, <3>6, LinkOf DEF AtLink, Complete
        <5> QED
          BY <5>1 DEF OneLink
      <4>3. HasRead(v)' /\ HasRead(v)
        BY <3>1, <3>6, <4>2 DEF HasRead, AtLink
      <4> QED
        BY <3>3, <4>1, <4>3
    <3>7. CASE op[v].pc \in AtLink /\ op'[v].pc \in AtLink
      <4>1. op'[v].version = op[v].version
        BY <3>1, <3>7 DEF ReadFiles, At, AtLink
      <4> QED
        BY <3>3, <3>7, <4>1 DEF HasRead
    <3> QED
      BY <3>1, <3>4, <3>5, <3>6, <3>7
  <2> QED
    BY <2>1, <2>2
<1>3. ~ Return(v)
  BY <1>t, <1>a, Returned DEF Idle, TypeOK
<1>4. CASE \E r \in net : Accept(r) \/ Refuse(r)
  <2>1. /\ op'[v].cert = op[v].cert /\ op'[v].todo = op[v].todo /\ op'[v].one = op[v].one
        /\ op'[v].version = op[v].version
        /\ op'[v].pc = op[v].pc \/ (op[v].pc = "wait" /\ op'[v].pc = "upsert")
    BY <1>t, <1>4, AnsweredKeeps
  <2> QED
    BY <1>a, <1>b, <2>1 DEF HasRead, AtLink
<1> QED
  BY <1>t, <1>a, <1>1, <1>2, <1>3, <1>4, OpMoves

(* A link that is to be done is done, unless it is passed by. *)
LEMMA WillDoKept ==
    ASSUME IInv, [Next]_vars, NEW p \in Links, Alive(p)', p \notin stale',
           NEW v \in Callers, WillDo(v, p)
    PROVE  WillDo(v, p)' \/ (Upsert(v) /\ Referenced(v) /\ Current(v) = p)
<1>t. TypeOK /\ OnItsLink /\ op[v] \in Op
  BY DEF IInv, TypeOK
<1>a. p[1] = op[v].cert /\ p[2] \in op[v].todo /\ op[v].pc \notin {"idle", "inputs"}
      /\ p = <<p[1], p[2]>> /\ p \in Engaged(v) /\ p[1] \in Certs /\ p[2] \in Targets
  BY DEF WillDo, Engaged, Links
<1>b. ~ (op[v].pc = "complete" /\ op[v].target = p[2])
  BY <1>a DEF WillDo, Works, AtLink, Current
<1>c. ASSUME op'[v].cert = op[v].cert, p[2] \in op'[v].todo,
             op'[v].pc \notin {"idle", "inputs", "complete"}
      PROVE  WillDo(v, p)'
  BY <1>a, <1>c DEF WillDo, Engaged
<1>1. CASE op'[v] = op[v]
  BY <1>1 DEF WillDo, Engaged, Works, Current
<1>2. CASE Step(v) /\ ~ Return(v)
  <2>1. ~ ReadInputs(v) /\ UNCHANGED <<certs, targets>>
    BY <1>a, <1>2 DEF Step, ReadInputs, At, ReadFiles, NextTarget, CreateJob, Send, Timeout,
       Upsert, Complete
  <2>2. /\ op'[v].cert = op[v].cert
        /\ \/ op'[v].todo = op[v].todo
           \/ \E t : NextTarget(v) /\ t \notin targets /\ op'[v].todo = op[v].todo \ {t}
           \/ Complete(v) /\ op'[v].todo = op[v].todo \ {op[v].target}
        /\ op'[v].target = op[v].target \/ NextTarget(v)
        /\ \/ op'[v].pc \notin {"idle", "inputs", "complete"}
           \/ Upsert(v) /\ Referenced(v) /\ op'[v].pc = "complete"
    BY <1>t, <1>2, <2>1, TodoStep
  <2>3. p[2] \in op'[v].todo
    <3>1. p[2] \in targets
      BY <2>1 DEF Alive
    <3>2. Complete(v) => op[v].target # p[2]
      BY <1>b DEF Complete, At
    <3> QED
      BY <1>a, <2>2, <3>1, <3>2
  <2>4. CASE Upsert(v) /\ Referenced(v) /\ op'[v].pc = "complete"
    <3>1. op'[v].target = op[v].target
      BY <2>2, <2>4 DEF Upsert, NextTarget, At
    <3>2. p \in Engaged(v)'
      BY <1>a, <2>2, <2>3, <2>4 DEF Engaged
    <3>3. Current(v)' = Current(v)
      BY <2>2, <3>1 DEF Current
    <3> QED
      BY <2>4, <3>2, <3>3 DEF WillDo, Works
  <2> QED
    BY <1>c, <2>2, <2>3, <2>4
<1>3. ASSUME Return(v), Step(v) \/ Abandon(v) PROVE FALSE
  <2>1. ~ Abandon(v)
    BY <1>a DEF Abandon, Links
  <2>2. ~ ReadInputs(v)
    BY <1>a DEF ReadInputs, At
  <2>3. ~ EndsEarly(v)
    BY <1>a DEF EndsEarly
  <2>4. op'[v].pc = "idle" /\ op' = [op EXCEPT ![v] = Idle]
    BY <1>t, <1>3, Returned DEF TypeOK, Idle, Return
  <2>5. ~ (Step(v) /\ ~ NextTarget(v) /\ ~ Complete(v))
    <3>1. ASSUME ReadFiles(v) PROVE FALSE
      <4> DEFINE pc == IF op[v].one THEN "create" ELSE "target"
                 n  == IF op[v].version = 0 THEN 0 ELSE version[op[v].cert]
      <4>1. op' = [op EXCEPT ![v].pc = pc, ![v].version = n] /\ pc # "idle"
        BY <3>1 DEF ReadFiles
      <4> HIDE DEF pc, n
      <4>2. op'[v].pc = pc
        BY <1>t, <4>1 DEF TypeOK, Op
      <4> QED
        BY <2>4, <4>1, <4>2
    <3>2. ASSUME NEW pc \in {"wait", "complete"}, Goto(v, pc) PROVE FALSE
      <4>1. op'[v] = [op[v] EXCEPT !.pc = pc]
        BY <1>t, <3>2 DEF TypeOK, Goto
      <4>2. op'[v].pc = pc
        BY <1>t, <4>1 DEF Op
      <4> QED
        BY <2>4, <4>2
    <3>3. ASSUME CreateJob(v) PROVE FALSE
      <4> DEFINE pc == IF op[v].version = 0 THEN "upsert" ELSE "send"
      <4>1. op' = [op EXCEPT ![v].job = Len(jobs) + 1, ![v].pc = pc, ![v].ok = FALSE]
            /\ pc # "idle"
        BY <2>3, <3>3 DEF CreateJob
      <4> HIDE DEF pc
      <4>2. op'[v].pc = pc
        BY <1>t, <4>1 DEF TypeOK, Op
      <4> QED
        BY <2>4, <4>1, <4>2
    <3>4. ASSUME Timeout(v) PROVE FALSE
      <4>1. op'[v] = [op[v] EXCEPT !.pc = "upsert", !.ok = FALSE]
        BY <1>t, <3>4 DEF Timeout, TypeOK
      <4>2. op'[v].pc = "upsert"
        BY <1>t, <4>1 DEF Op
      <4> QED
        BY <2>4, <4>2
    <3> QED
      BY <2>2, <2>3, <3>1, <3>2, <3>3, <3>4 DEF Step, Send, Upsert
  <2>6. ~ NextTarget(v)
    <3>1. ASSUME NextTarget(v) PROVE FALSE
      <4>1. PICK t \in op[v].todo :
               IF t \in targets
               THEN op' = [op EXCEPT ![v].pc = IF op[v].one THEN "files" ELSE "create",
                                     ![v].target = t]
               ELSE IF op[v].todo = {t} THEN Return(v)
               ELSE op' = [op EXCEPT ![v].todo = @ \ {t}]
        BY <3>1 DEF NextTarget
      <4>2. op[v].pc = "target" /\ UNCHANGED targets
        BY <3>1 DEF NextTarget, At
      <4>3. CASE t \in targets
        <5> DEFINE pc == IF op[v].one THEN "files" ELSE "create"
        <5>1. op' = [op EXCEPT ![v].pc = pc, ![v].target = t] /\ pc # "idle"
          BY <4>1, <4>3
        <5> HIDE DEF pc
        <5>2. op'[v].pc = pc
          BY <1>t, <5>1 DEF TypeOK, Op
        <5> QED
          BY <2>4, <5>1, <5>2
      <4>4. CASE t \notin targets /\ op[v].todo = {t}
        BY <1>a, <4>2, <4>4 DEF Alive
      <4>5. CASE t \notin targets /\ op[v].todo # {t}
        <5>1. op'[v].pc = op[v].pc
          BY <1>t, <4>1, <4>5 DEF TypeOK, Op
        <5> QED
          BY <2>4, <4>2, <5>1
      <4> QED
        BY <4>3, <4>4, <4>5
    <3> QED
      BY <3>1
  <2>7. ~ Complete(v)
    <3>1. ASSUME Complete(v) PROVE FALSE
      <4>1. op[v].pc = "complete" /\ op[v].target # p[2]
        BY <1>b, <3>1 DEF Complete, At
      <4>2. op' = [op EXCEPT ![v].pc = "target", ![v].todo = @ \ {op[v].target}]
        BY <1>a, <3>1, <4>1 DEF Complete
      <4>3. op'[v].pc = "target"
        BY <1>t, <4>2 DEF TypeOK, Op
      <4> QED
        BY <2>4, <4>3
    <3> QED
      BY <3>1
  <2> QED
    BY <1>3, <2>1, <2>5, <2>6, <2>7
<1>4. CASE \E r \in net : Accept(r) \/ Refuse(r)
  <2>1. /\ op'[v].cert = op[v].cert /\ op'[v].todo = op[v].todo
        /\ op'[v].target = op[v].target
        /\ op'[v].pc = op[v].pc \/ (op[v].pc = "wait" /\ op'[v].pc = "upsert")
    BY <1>t, <1>4, AnsweredKeeps
  <2>2. p \in Engaged(v)'
    BY <1>a, <2>1 DEF Engaged
  <2>3. op'[v].pc # "complete" \/ op'[v].target # p[2]
    BY <1>b, <2>1
  <2> QED
    BY <1>a, <2>2, <2>3 DEF WillDo, Works, Current
<1> QED
  BY <1>t, <1>a, <1>1, <1>2, <1>3, <1>4, OpMoves

(* Somebody still comes for all links of the certificate, or has just read
   them, this one among them. *)
LEMMA ComingKept ==
    ASSUME IInv, OnlyAlive, [Next]_vars, NEW p \in Links, Good(p),
           p \notin stray', p \notin stale', Coming(p[1])
    PROVE  \/ Coming(p[1])'
           \/ /\ \A v \in Callers : p \notin Engaged(v)
              /\ links[p].linked => \E w \in Callers : WillDo(w, p)'
<1>t. /\ TypeOK /\ OnItsLink /\ p[1] \in Certs /\ p[2] \in Targets /\ p = <<p[1], p[2]>>
  BY DEF IInv, Links
<1>1. PICK w \in Callers : Comes(w, p[1])
  BY DEF Coming
<1>2. op[w].pc = "inputs" /\ ~ op[w].one /\ op[w].cert = p[1]
  BY <1>1 DEF Comes
<1>3. ~ Abandon(w)
  BY <1>t, <1>2 DEF Abandon
<1>4. CASE ReadInputs(w)
  <2>1. CASE links[p].linked
    <3>1. p \in {op[w].cert} \X Wanted(w)
      BY <1>t, <1>2, <2>1 DEF Wanted
    <3>2. ~ Return(w)
      <4>1. Wanted(w) # {}
        BY <3>1
      <4> DEFINE h == [t \in Targets |-> links[<<op[w].cert, t>>].id]
      <4>2. op' = [op EXCEPT ![w].pc = IF op[w].one THEN "target" ELSE "files",
                             ![w].todo = Wanted(w), ![w].held = h,
                             ![w].version = version[op[w].cert]]
        BY <1>4, <4>1 DEF ReadInputs
      <4> HIDE DEF h
      <4>3. op'[w].pc \in {"target", "files"}
        BY <1>t, <4>2 DEF TypeOK, Op
      <4>4. Return(w) => op'[w].pc = "idle"
        BY <1>t, Returned DEF TypeOK, Idle
      <4> QED
        BY <4>3, <4>4
    <3>3. /\ op'[w].pc = (IF op[w].one THEN "target" ELSE "files")
          /\ op'[w].todo = Wanted(w) /\ op'[w].cert = op[w].cert
          /\ \A q \in {op[w].cert} \X Wanted(w) :
                q \in stray' \/ \A v \in Callers : q \notin Engaged(v)
      BY <1>t, <1>4, <3>2, InputsRead
    <3>4. \A v \in Callers : p \notin Engaged(v)
      BY <3>1, <3>3
    <3>5. WillDo(w, p)'
      BY <1>2, <3>1, <3>3 DEF WillDo, Engaged
    <3> QED
      BY <3>4, <3>5
  <2>2. CASE ~ links[p].linked
    BY <2>2 DEF Good, HeldStill
  <2> QED
    BY <2>1, <2>2
<1>5. CASE ~ ReadInputs(w)
  <2>1. ~ Step(w)
    BY <1>2, <1>5 DEF Step, ReadFiles, NextTarget, CreateJob, Send, Timeout, TimedOut,
       Upsert, Complete, At
  <2>2. op'[w] = op[w] \/ \E r \in net : Accept(r) \/ Refuse(r)
    BY <1>t, <1>2, <1>3, <2>1, OpMoves
  <2>3. Comes(w, p[1])'
    <3>1. CASE op'[w] = op[w]
      BY <1>2, <3>1 DEF Comes
    <3>2. CASE \E r \in net : Accept(r) \/ Refuse(r)
      <4>1. /\ op'[w].cert = op[w].cert /\ op'[w].one = op[w].one
            /\ op'[w].pc = op[w].pc
        BY <1>t, <1>2, <3>2, AnsweredKeeps
      <4> QED
        BY <1>2, <4>1 DEF Comes
    <3> QED
      BY <2>2, <3>1, <3>2
  <2> QED
    BY <2>3 DEF Coming
<1> QED
  BY <1>4, <1>5

(* A new version is an issue's, which passes the links by, or a renewal's,
   whose sync comes for them. *)
LEMMA VersionKept ==
    ASSUME TypeOK, [Next]_vars, NEW p \in Links, p \notin stale'
    PROVE  \/ version'[p[1]] = version[p[1]]
           \/ Coming(p[1])' /\ version[p[1]] # 0
<1>t. /\ p[1] \in Certs /\ p[2] \in Targets /\ p = <<p[1], p[2]>>
      /\ version \in [Certs -> Nat] /\ op \in [Callers -> Op]
  BY DEF TypeOK, Links
<1>1. ASSUME NEW c \in Certs, Issue(c) PROVE version'[p[1]] = version[p[1]]
  <2>1. c # p[1]
    BY <1>1, <1>t DEF Issue
  <2> QED
    BY <1>1, <1>t, <2>1 DEF Issue
<1>2. ASSUME NEW w \in Callers, NEW c \in Certs, Renew(w, c), c = p[1]
      PROVE  Coming(p[1])' /\ version[p[1]] # 0
  <2>1. op' = [op EXCEPT ![w] = [Idle EXCEPT !.pc = "inputs", !.cert = c]]
        /\ version[c] \in 1 .. MaxVersion - 1
    BY <1>2 DEF Renew
  <2>2. op'[w] = [Idle EXCEPT !.pc = "inputs", !.cert = c]
    BY <1>t, <2>1
  <2>3. op'[w].pc = "inputs" /\ ~ op'[w].one /\ op'[w].cert = c
    BY <2>2 DEF Idle
  <2>4. Comes(w, p[1])'
    BY <1>2, <2>3 DEF Comes
  <2>5. version[c] # 0
    BY <2>1, BoundsAssumption
  <2> QED
    BY <1>2, <2>4, <2>5 DEF Coming
<1>3. ASSUME NEW w \in Callers, NEW c \in Certs, Renew(w, c), c # p[1]
      PROVE  version'[p[1]] = version[p[1]]
  BY <1>3, <1>t DEF Renew
<1>4. ASSUME UNCHANGED version PROVE version'[p[1]] = version[p[1]]
  BY <1>4
<1> QED
  BY <1>1, <1>2, <1>3, <1>4
     DEF Next, vars, Step, DeleteCertificate, DeleteTarget, SetLinkedTargets, Sync,
         SyncTarget, ReadInputs, ReadFiles, NextTarget, CreateJob, Send, Timeout, Upsert,
         Complete, Abandon, Accept, Refuse

(* Only a sync that pushed what is in the files makes up for it. *)
LEMMA StaleLeft ==
    ASSUME [Next]_vars, NEW p, p \in stale, p \notin stale'
    PROVE  \E w \in Callers : /\ Upsert(w) /\ Referenced(w)
                              /\ BroughtUpToDate(w) /\ Current(w) = p
<1>1. ASSUME NEW w \in Callers, Upsert(w) PROVE Referenced(w) /\ BroughtUpToDate(w) /\ Current(w) = p
  BY <1>1 DEF Upsert, EndsEarly
<1> QED
  BY <1>1 DEF Next, vars, Step, DeleteCertificate, DeleteTarget, SetLinkedTargets, Issue,
     Renew, Sync, SyncTarget, ReadInputs, ReadFiles, NextTarget, CreateJob, EndsEarly, Send,
     Timeout, Complete, Abandon, Accept, Refuse

(* The link is stored as synced: with the version the sync read. *)
LEMMA StoredVersion ==
    ASSUME IInv, NEW p \in Links, Good(p), NEW w \in Callers,
           Upsert(w), Referenced(w), Current(w) = p
    PROVE  /\ op[w].pc = "upsert" /\ Works(w, p) /\ p \in Engaged(w)
           /\ UNCHANGED <<version, kong>>
           /\ \A v \in Callers \ {w} : op'[v] = op[v]
           /\ op'[w].pc = "complete" /\ op'[w].version = op[w].version
           /\ links'[p].status = "synced" =>
                 /\ op[w].ok /\ links'[p].id # 0
                 /\ kong'[links'[p].id].version = op[w].version
<1>0. op \in [Callers -> Op] /\ op[w] \in Op /\ links \in [Links -> Link]
      /\ kong \in Seq(Stored) /\ TypeOK /\ OnItsLink
  BY DEF IInv, TypeOK
<1>1. op[w].pc = "upsert" /\ Works(w, p) /\ UNCHANGED <<version, kong>>
  BY DEF Upsert, At, Works, AtLink
<1>2. p \in Engaged(w)
  BY <1>0, <1>1, LinkOf DEF Works
<1>3. op'[w] = [op[w] EXCEPT !.pc = "complete"]
  BY <1>0, Gone DEF Upsert, Pcs
<1>4. op'[w].pc = "complete" /\ op'[w].version = op[w].version
  BY <1>0, <1>3 DEF Op
<1>5. \A v \in Callers \ {w} : op'[v] = op[v]
  BY <1>0, OthersKept DEF Step
<1>6. links'[p] = LinkAfter(w)
  BY <1>0 DEF Upsert
<1>7. ASSUME links'[p].status = "synced"
      PROVE  /\ op[w].ok /\ links'[p].id # 0
             /\ kong'[links'[p].id].version = op[w].version
  <2>1. op[w].ok /\ links'[p].id = op[w].id
    BY <1>6, <1>7 DEF LinkAfter
  <2>2. op[w].id \in DOMAIN kong
    BY <1>1, <2>1 DEF IInv, KongOwnership, MadeFor
  <2>3. op[w].id # 0
    BY <1>0, <2>2, RowsOf
  <2>4. DoneSoFar(w, p)
    BY <1>1, AtGoodLink
  <2> QED
    BY <1>1, <2>1, <2>3, <2>4 DEF DoneSoFar
<1> QED
  BY <1>1, <1>2, <1>4, <1>5, <1>7

LEMMA PushedIsFresh ==
    ASSUME IInv, NEW p \in Links, Good(p), NEW w \in Callers,
           Upsert(w), Referenced(w), Current(w) = p, BroughtUpToDate(w)
    PROVE  Fresh(p)'
<1>1. /\ p \in Engaged(w) /\ UNCHANGED version
      /\ \A v \in Callers \ {w} : op'[v] = op[v]
      /\ op'[w].pc = "complete" /\ op'[w].version = op[w].version
      /\ links'[p].status = "synced" =>
            /\ links'[p].id # 0 /\ kong'[links'[p].id].version = op[w].version
  BY StoredVersion
<1>2. op[w].version = version[p[1]]
  BY DEF BroughtUpToDate, Current
<1>3. \A v \in Callers : p \in Engaged(v)' => v = w
  BY <1>1 DEF Good, Single, Engaged
<1>4. HasRead(w)'
  BY <1>1 DEF HasRead, AtLink
<1> QED
  BY <1>1, <1>2, <1>3, <1>4 DEF Fresh

(* What Kong holds for a link changes when a request for it is served. *)
LEMMA KongKept ==
    ASSUME IInv, [Next]_vars, NEW p \in Links, NEW k \in InKong(p)
    PROVE  kong'[k] = kong[k] \/ \E r \in net : Accept(r) /\ r.for = p
  BY AcceptOther
     DEF Next, vars, Step, DeleteCertificate, DeleteTarget, SetLinkedTargets, Issue, Renew,
         Sync, SyncTarget, ReadInputs, ReadFiles, NextTarget, CreateJob, Send, Timeout,
         Upsert, Complete, Abandon, Refuse

(* Nothing else makes a link synced. *)
LEMMA SyncedStep ==
    ASSUME IInv, [Next]_vars, NEW p \in Links, links'[p].status = "synced"
    PROVE  \/ links'[p] = links[p]
           \/ \E w \in Callers : Upsert(w) /\ Referenced(w) /\ Current(w) = p
<1>t. links \in [Links -> Link]
  BY DEF IInv, TypeOK
<1>1. ASSUME NEW w \in Callers, Upsert(w), Referenced(w), Current(w) # p
      PROVE  links'[p] = links[p]
  BY <1>1, <1>t DEF Upsert
<1>2. ASSUME NEW c \in Certs, NEW selected \in SUBSET Targets, SetLinkedTargets(c, selected)
      PROVE  links'[p] = links[p]
  BY <1>2, <1>t DEF SetLinkedTargets, Relinked, NotLinked, NewLink
<1>3. ASSUME NEW c \in Certs, DeleteCertificate(c) PROVE links'[p] = links[p]
  BY <1>3, <1>t DEF DeleteCertificate, NotLinked
<1>4. ASSUME NEW t \in Targets, DeleteTarget(t) PROVE links'[p] = links[p]
  BY <1>4, <1>t DEF DeleteTarget, NotLinked
<1>5. ASSUME UNCHANGED links PROVE links'[p] = links[p]
  BY <1>5
<1> QED
  BY <1>1, <1>2, <1>3, <1>4, <1>5
     DEF Next, vars, Step, Issue, Renew, Sync, SyncTarget, ReadInputs, ReadFiles,
         NextTarget, CreateJob, Send, Timeout, Upsert, Complete, Abandon, Accept, Refuse

LEMMA FreshKept ==
    ASSUME IInv, OnlyAlive, OneLink, [Next]_vars, NEW p \in Links, Good(p), Fresh(p),
           p \notin stray', p \notin stale', Alive(p)'
    PROVE  Fresh(p)'
<1>t. TypeOK
  BY DEF IInv
<1>1. ASSUME NEW v \in Callers, p \in Engaged(v)', HasRead(v)'
      PROVE  op'[v].version = version'[p[1]] \/ Coming(p[1])'
  <2>1. CASE p \in Engaged(v) /\ HasRead(v) /\ op'[v].version = op[v].version
    <3>1. op[v].version = version[p[1]] \/ Coming(p[1])
      BY <2>1 DEF Fresh
    <3> QED
      BY <1>t, <2>1, <3>1, ComingKept, VersionKept
  <2>2. CASE /\ p \in Engaged(v) /\ ~ HasRead(v) /\ ReadFiles(v)
             /\ op'[v].version = IF op[v].version = 0 THEN 0 ELSE version[p[1]]
    <3>1. op[v].version = 0 => version[p[1]] = 0
      BY <2>2 DEF Fresh
    <3>2. UNCHANGED version
      BY <2>2 DEF ReadFiles
    <3> QED
      BY <2>2, <3>1, <3>2
  <2> QED
    BY <1>1, <2>1, <2>2, HeldVersion
<1>2. ASSUME NEW v \in Callers, p \in Engaged(v)', ~ HasRead(v)', op'[v].version = 0
      PROVE  version'[p[1]] = 0
  <2>1. version[p[1]] = 0
    BY <1>2, HeldVersion DEF Fresh
  <2> QED
    BY <1>t, <2>1, VersionKept
<1>3. ASSUME links'[p].status = "synced"
      PROVE  /\ links'[p].id # 0
             /\ \/ kong'[links'[p].id].version = version'[p[1]]
                \/ Coming(p[1])'
                \/ \E w \in Callers : WillDo(w, p)'
  <2>1. ASSUME NEW w \in Callers, Upsert(w), Referenced(w), Current(w) = p
        PROVE  /\ links'[p].id # 0
               /\ kong'[links'[p].id].version = version'[p[1]] \/ Coming(p[1])'
    <3>1. /\ op[w].pc = "upsert" /\ p \in Engaged(w) /\ UNCHANGED version
          /\ links'[p].id # 0 /\ kong'[links'[p].id].version = op[w].version
      BY <1>3, <2>1, StoredVersion
    <3>2. op[w].version = version[p[1]] \/ Coming(p[1])
      BY <3>1 DEF Fresh, HasRead, AtLink
    <3> QED
      BY <3>1, <3>2, ComingKept
  <2>2. ASSUME links'[p] = links[p],
               ~ \E w \in Callers : Upsert(w) /\ Referenced(w) /\ Current(w) = p
        PROVE  /\ links'[p].id # 0
               /\ \/ kong'[links'[p].id].version = version'[p[1]]
                  \/ Coming(p[1])'
                  \/ \E w \in Callers : WillDo(w, p)'
    <3>1. links[p].status = "synced" /\ links[p].linked
      BY <1>3, <2>2 DEF OnlyAlive, NotLinked
    <3>2. links[p].id # 0 /\ links[p].id \in InKong(p)
      BY <3>1 DEF Fresh, IInv, KongOwnership, MadeFor, InKong
    <3>3. ASSUME NEW w \in Callers, WillDo(w, p) PROVE WillDo(w, p)'
      BY <2>2, <3>3, WillDoKept
    <3>4. ASSUME Coming(p[1]) PROVE Coming(p[1])' \/ \E w \in Callers : WillDo(w, p)'
      BY <3>1, <3>4, ComingKept
    <3>5. ASSUME NEW r \in net, Accept(r), r.for = p PROVE \E w \in Callers : WillDo(w, p)'
      <4>1. PICK w \in Callers : Works(w, p) /\ op[w].pc = "wait"
        BY <3>5 DEF Good, Awaited
      <4>2. WillDo(w, p)
        BY <4>1, LinkOf DEF WillDo, Works, IInv
      <4> QED
        BY <3>3, <4>2
    <3>6. ASSUME kong[links[p].id].version = version[p[1]]
          PROVE  \/ kong'[links[p].id].version = version'[p[1]]
                 \/ Coming(p[1])'
                 \/ \E w \in Callers : WillDo(w, p)'
      BY <1>t, <3>2, <3>5, <3>6, KongKept, VersionKept
    <3>7. \/ kong[links[p].id].version = version[p[1]]
          \/ Coming(p[1])
          \/ \E w \in Callers : WillDo(w, p)
      BY <3>1 DEF Fresh
    <3> QED
      BY <2>2, <3>2, <3>3, <3>4, <3>6, <3>7
  <2> QED
    BY <1>3, <2>1, <2>2, SyncedStep
<1> QED
  BY <1>1, <1>2, <1>3 DEF Fresh

LEMMA FreshStep ==
    ASSUME IInv, LinksInv, OneLink, FreshInv, [Next]_vars,
           NEW p \in Links \ (stray' \cup stale'), Alive(p)'
    PROVE  Fresh(p)'
<1>1. /\ p \in Links /\ p \notin stray' /\ p \notin stale' /\ p \notin stray
      /\ Alive(p) /\ OnlyAlive /\ Good(p)
  BY StrayGrows, AliveBefore DEF LinksInv
<1>2. CASE p \in stale
  BY <1>1, <1>2, StaleLeft, PushedIsFresh
<1>3. CASE p \notin stale
  BY <1>1, <1>3, FreshKept DEF FreshInv
<1> QED
  BY <1>2, <1>3

LEMMA FreshInitially == Init => OneLink /\ FreshInv
<1> SUFFICES ASSUME Init PROVE OneLink /\ FreshInv
  OBVIOUS
<1>1. /\ \A w \in Callers : op[w].pc = "idle" /\ op[w].todo = {}
      /\ \A p \in Links : links[p].status = "not_synced"
  BY DEF Init, Idle, NotLinked
<1>2. \A w \in Callers, p \in Links : p \notin Engaged(w)
  BY <1>1 DEF Engaged
<1> QED
  BY <1>1, <1>2 DEF OneLink, FreshInv, Fresh

(* A link that says synced has in Kong what is in the files, once nothing is
   in progress for the certificate: RenewCertificate syncs all links after
   the pair is in place (acme.go:253), and each sync reads the files before it
   sends (kong_sync.go:64, 112). *)
THEOREM SyncedHasTheFiles == Spec => []SyncedIsCurrent
<1>1. ASSUME LinksInv, FreshInv PROVE SyncedIsCurrent
  <2> SUFFICES ASSUME NEW p \in Links \ (stray \cup stale), links[p].status = "synced",
                      \A w \in Callers : op[w].cert # p[1]
               PROVE  kong[links[p].id].version = version[p[1]]
    BY DEF SyncedIsCurrent
  <2>1. Fresh(p)
    BY <1>1 DEF LinksInv, OnlyAlive, NotLinked, FreshInv
  <2>2. ~ Coming(p[1]) /\ \A w \in Callers : ~ WillDo(w, p)
    BY DEF Coming, Comes, WillDo, Engaged
  <2> QED
    BY <2>1, <2>2 DEF Fresh
<1>2. IInv /\ LinksInv /\ OneLink /\ FreshInv /\ [Next]_vars => OneLink' /\ FreshInv'
  BY OneLinkStep, FreshStep DEF FreshInv
<1> QED
  BY <1>1, <1>2, FreshInitially, LinksHold, PTL DEF Spec

=============================================================================
