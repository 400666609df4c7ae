----------------------------- MODULE ACMEProofs -----------------------------
(***************************************************************************)
(* Theorems about ACME, for any certificates, callers and bounds.          *)
(***************************************************************************)
EXTENDS ACME, TLAPS

-----------------------------------------------------------------------------
(* The three ways the jobs table changes keep it a sequence of jobs. *)

(* An inserted row takes the next id and leaves the others alone. *)
LEMMA AppendedJobs ==
    ASSUME NEW s \in Seq(Job), NEW r \in Job
    PROVE  /\ Append(s, r) \in Seq(Job)
           /\ DOMAIN Append(s, r) = DOMAIN s \cup {Len(s) + 1}
           /\ Append(s, r)[Len(s) + 1] = r
           /\ \A j \in DOMAIN s : j # Len(s) + 1 /\ Append(s, r)[j] = s[j]
  OBVIOUS

(* A rewritten table has the rows it had. *)
LEMMA RewrittenJobs ==
    ASSUME NEW s \in Seq(Job), NEW t,
           t = [j \in DOMAIN s |-> t[j]],
           \A j \in DOMAIN s : t[j] \in Job
    PROVE  t \in Seq(Job) /\ DOMAIN t = DOMAIN s
  OBVIOUS

LEMMA JobsAreJobs ==
    ASSUME NEW s \in Seq(Job)
    PROVE  DOMAIN s = 1 .. Len(s) /\ Len(s) \in Nat /\ \A j \in DOMAIN s : s[j] \in Job
  OBVIOUS

-----------------------------------------------------------------------------
(* Type correctness *)

LEMMA InitType == Init => TypeOK
  BY BoundsAssumption DEF Init, TypeOK, Row, Job, Chain, Op, Statuses, Idle, NoPEM, NoFile,
     Callers, Kinds

(* Complete changes one row, or none. *)
LEMMA JobCompletedType ==
    ASSUME jobs \in Seq(Job), clock \in Nat, NEW j \in DOMAIN jobs, NEW o \in Outcomes
    PROVE  /\ JobCompleted(j, o) \in Seq(Job)
           /\ DOMAIN JobCompleted(j, o) = DOMAIN jobs
           /\ \A i \in DOMAIN jobs \ {j} : JobCompleted(j, o)[i] = jobs[i]
           /\ jobs[j].status # "deleted" => 
                JobCompleted(j, o)[j] = [jobs[j] EXCEPT !.status = o, !.finished = clock]
<1> DEFINE r == [jobs[j] EXCEPT !.status = o, !.finished = clock]
<1>1. CASE jobs[j].status = "deleted"
  BY <1>1 DEF JobCompleted
<1>2. CASE jobs[j].status # "deleted"
  <2>1. jobs[j] \in Job
    BY JobsAreJobs
  <2>2. r \in Job
    BY <2>1 DEF Job
  <2>3. JobCompleted(j, o) = [jobs EXCEPT ![j] = r]
    BY <1>2, <2>1 DEF JobCompleted
  <2> HIDE DEF r
  <2>4. [jobs EXCEPT ![j] = r] \in Seq(Job)
    BY <2>2
  <2> QED
    BY <2>2, <2>3, <2>4 DEF r
<1> QED
  BY <1>1, <1>2

(* A caller that moves on in its operation, and one that returns. *)
LEMMA GotoType ==
    ASSUME TypeOK, NEW w \in Callers, op[w].pc # "idle",
           NEW pc \in BeforeJob \cup WithJob, Goto(w, pc)
    PROVE  /\ op' \in [Callers -> Op]
           /\ \A v \in Callers : op'[v].pc # "idle" => op'[v].cert \in Certs
  BY DEF TypeOK, Goto, Op

LEMMA ReturnType ==
    ASSUME TypeOK, NEW w \in Callers, Return(w)
    PROVE  /\ op' \in [Callers -> Op]
           /\ \A v \in Callers : op'[v].pc # "idle" => op'[v].cert \in Certs
<1>1. Idle \in Op
  BY DEF Idle, Op, Kinds, NoFile
<1> QED
  BY <1>1 DEF TypeOK, Return, Idle

(* One step of an operation. *)
LEMMA StepType ==
    ASSUME TypeOK, JobOwnership, NEW w \in Callers, Step(w)
    PROVE  TypeOK'
<1> USE DEF At
<1>0. op[w] \in Op /\ (op[w].pc # "idle" => op[w].cert \in Certs)
  BY DEF TypeOK
<1>j. InFlight(w) => op[w].job \in DOMAIN jobs
  BY DEF JobOwnership
<1>1. CASE CheckRunning(w)
  <2>1. Return(w) \/ Goto(w, "checkCooldown")
    BY <1>1 DEF CheckRunning
  <2> QED
    BY <1>1, <2>1, GotoType, ReturnType DEF CheckRunning, TypeOK, BeforeJob
<1>2. CASE CheckCooldown(w)
  <2>1. Return(w) \/ Goto(w, "create")
    BY <1>2 DEF CheckCooldown
  <2> QED
    BY <1>2, <2>1, GotoType, ReturnType DEF CheckCooldown, TypeOK, BeforeJob
<1>3. CASE CreateJob(w)
  <2>1. CASE Live(op[w].cert)
    <3>1. NewJob(w) \in Job
      BY <1>0, <1>3 DEF NewJob, CreateJob, Job, Op, TypeOK
    <3>2. jobs' \in Seq(Job)
      BY <2>1, <1>3, <3>1, AppendedJobs DEF CreateJob, TypeOK
    <3>3. /\ op' \in [Callers -> Op]
          /\ \A v \in Callers : op'[v].pc # "idle" => op'[v].cert \in Certs
      BY <2>1, <1>3, <1>0, JobsAreJobs DEF CreateJob, TypeOK, Op, WithJob
    <3>4. raced' \in SUBSET Certs
      BY <2>1, <1>3, <1>0 DEF CreateJob, TypeOK
    <3> QED
      BY <1>3, <3>2, <3>3, <3>4 DEF CreateJob, TypeOK
  <2>2. CASE ~ Live(op[w].cert)
    BY <1>3, <2>2, ReturnType DEF CreateJob, TypeOK
  <2> QED
    BY <2>1, <2>2
<1>4. CASE EarlyDbError(w)
  BY <1>4, ReturnType DEF EarlyDbError, TypeOK
<1>5. CASE ReadExisting(w)
  <2>1. /\ op' \in [Callers -> Op]
        /\ \A v \in Callers : op'[v].pc # "idle" => op'[v].cert \in Certs
    BY <1>5, <1>0 DEF ReadExisting, TypeOK, Op, WithJob
  <2> QED
    BY <1>5, <2>1 DEF ReadExisting, TypeOK
<1>6. CASE CallCA(w)
  <2>1. KeyObtained(w) \in Nat
    BY <1>0 DEF KeyObtained, Op
  <2>2. /\ op' \in [Callers -> Op]
        /\ \A v \in Callers : op'[v].pc # "idle" => op'[v].cert \in Certs
    BY <1>6, <1>0, <2>1 DEF CallCA, TypeOK, Op, WithJob
  <2> QED
    BY <1>6, <2>2 DEF CallCA, TypeOK
<1>7. CASE OpenChain(w)
  <2>1. NoPEM \in Chain
    BY DEF NoPEM, NoFile, Chain
  <2> QED
    BY <1>7, <2>1, GotoType DEF OpenChain, TypeOK, WithJob
<1>8. CASE WriteChain(w)
  <2>1. [serial |-> op[w].job, key |-> op[w].key] \in Chain
    BY <1>0 DEF Op, Chain
  <2> QED
    BY <1>8, <2>1, GotoType DEF WriteChain, TypeOK, WithJob
<1>9. CASE OpenKey(w)
  BY <1>9, GotoType DEF OpenKey, TypeOK, WithJob, NoFile
<1>10. CASE WriteKey(w)
  <2>1. op[w].key \in Nat
    BY <1>0 DEF Op
  <2>2. PICK next \in {"mark", "failStatus"} : Goto(w, next)
    BY <1>10 DEF WriteKey
  <2> QED
    BY <1>10, <2>1, <2>2, GotoType DEF WriteKey, TypeOK, WithJob
<1>11. CASE OperationFails(w)
  BY <1>11, GotoType DEF OperationFails, TypeOK, WithJob
<1>12. CASE MarkIssued(w)
  <2>1. IssuedRow(w) \in Row
    BY <1>0 DEF IssuedRow, Row, Op, Statuses
  <2>2. Return(w) \/ Goto(w, "complete")
    BY <1>12 DEF MarkIssued
  <2>3. rows' \in [Certs -> Row]
    BY <1>12, <2>1 DEF MarkIssued, TypeOK
  <2> QED
    BY <1>12, <2>2, <2>3, GotoType, ReturnType DEF MarkIssued, TypeOK, WithJob
<1>13. CASE CompleteSuccess(w)
  <2>1. op[w].job \in DOMAIN jobs
    BY <1>13, <1>j DEF CompleteSuccess, InFlight, WithJob
  <2>2. jobs' \in Seq(Job)
    BY <1>13, <2>1, JobCompletedType DEF CompleteSuccess, Outcomes, TypeOK
  <2> QED
    BY <1>13, <2>2, ReturnType DEF CompleteSuccess, TypeOK
<1>14. CASE LateDbError(w)
  BY <1>14, ReturnType DEF LateDbError, TypeOK
<1>15. CASE FailStatus(w)
  <2>1. FailedRow(op[w].cert) \in Row
    BY <1>15, <1>0 DEF FailStatus, FailedRow, Row, Statuses, TypeOK
  <2>2. rows' \in [Certs -> Row]
    BY <1>15, <2>1 DEF FailStatus, TypeOK
  <2> QED
    BY <1>15, <2>2, GotoType DEF FailStatus, TypeOK, WithJob
<1>16. CASE FailJob(w)
  <2>1. op[w].job \in DOMAIN jobs
    BY <1>16, <1>j DEF FailJob, InFlight, WithJob
  <2>2. jobs' \in Seq(Job)
    BY <1>16, <2>1, JobCompletedType DEF FailJob, Outcomes, TypeOK
  <2> QED
    BY <1>16, <2>2, ReturnType DEF FailJob, TypeOK
<1> QED
  BY <1>1, <1>2, <1>3, <1>4, <1>5, <1>6, <1>7, <1>8, <1>9, <1>10, <1>11, <1>12,
     <1>13, <1>14, <1>15, <1>16 DEF Step

(* A step of anything else. *)
LEMMA OtherType ==
    ASSUME TypeOK, JobOwnership, [Next]_vars, ~ \E w \in Callers : Step(w)
    PROVE  TypeOK'
<1>i. Idle \in Op
  BY DEF Idle, Op, Kinds, NoFile
<1>1. ASSUME NEW c \in Certs, CreateCertificate(c) PROVE TypeOK'
  BY <1>1 DEF CreateCertificate, TypeOK, Row, Statuses
<1>2. ASSUME NEW c \in Certs, DeleteCertificate(c) PROVE TypeOK'
  <2>1. \A j \in DOMAIN jobs : jobs'[j] \in Job
    BY <1>2, JobsAreJobs DEF DeleteCertificate, TypeOK, Job
  <2>2. jobs' = [j \in DOMAIN jobs |-> jobs'[j]]
    BY <1>2 DEF DeleteCertificate
  <2>3. jobs' \in Seq(Job)
    BY <2>1, <2>2, RewrittenJobs DEF TypeOK
  <2>4. [status |-> "deleted", expires |-> 0] \in Row
    BY DEF Row, Statuses
  <2>5. rows' \in [Certs -> Row]
    BY <1>2, <2>4 DEF DeleteCertificate, TypeOK
  <2> QED
    BY <1>2, <2>3, <2>5 DEF DeleteCertificate, TypeOK
<1>3. CASE ClearCompleted
  <2>1. \A j \in DOMAIN jobs : jobs'[j] \in Job
    <3>1. \A row \in Job : Gone(row) \in Job
      BY DEF Gone, Job
    <3> QED
      BY <1>3, <3>1, JobsAreJobs DEF ClearCompleted, TypeOK
  <2>2. jobs' = [j \in DOMAIN jobs |-> jobs'[j]]
    BY <1>3 DEF ClearCompleted
  <2>3. jobs' \in Seq(Job)
    BY <2>1, <2>2, RewrittenJobs DEF TypeOK
  <2> QED
    BY <1>3, <2>3 DEF ClearCompleted, TypeOK
<1>4. CASE Tick
  BY <1>4 DEF Tick, TypeOK
<1>5. ASSUME NEW w \in Callers, NEW c \in Certs, NEW kind \in Kinds, Begin(w, c, kind)
      PROVE TypeOK'
  <2>1. /\ op' \in [Callers -> Op]
        /\ \A v \in Callers : op'[v].pc # "idle" => op'[v].cert \in Certs
    BY <1>5 DEF Begin, TypeOK, Op, BeforeJob, NoFile, Issued
  <2> QED
    BY <1>5, <2>1 DEF Begin, TypeOK
<1>6. CASE Close
  BY <1>6 DEF Close, TypeOK
<1>7. CASE Closed
  BY <1>7 DEF Closed, TypeOK
<1>8. CASE Crash
  BY <1>8, <1>i DEF Crash, TypeOK, Idle
<1>9. CASE Restart
  BY <1>9 DEF Restart, TypeOK
<1>10. CASE UNCHANGED vars
  BY <1>10 DEF vars, TypeOK
<1> QED
  BY <1>1, <1>2, <1>3, <1>4, <1>5, <1>6, <1>7, <1>8, <1>9, <1>10
     DEF Next, BeginWeb, BeginScheduled, Callers, Kinds

-----------------------------------------------------------------------------
(* Ownership of jobs *)

(* A caller that has moved on, returned or not begun a job yet, while the
   jobs, the process and the other callers stay as they are. *)
LEMMA OwnershipKept ==
    ASSUME TypeOK, JobOwnership, NEW w \in Callers, op[w].pc # "idle",
           op' \in [Callers -> Op],
           \A v \in Callers \ {w} : op'[v] = op[v],
           InFlight(w)' => InFlight(w) /\ op'[w].job = op[w].job /\ op'[w].cert = op[w].cert,
           UNCHANGED <<jobs, life, proc>>
    PROVE  JobOwnership'
<1>1. \A v \in Callers : InFlight(v)' =>
        InFlight(v) /\ op'[v].job = op[v].job /\ op'[v].cert = op[v].cert
  BY DEF InFlight
<1>2. proc # "down" /\ (proc = "closing" => w \notin Web)
  BY DEF JobOwnership
<1> QED
  BY <1>1, <1>2 DEF JobOwnership, Callers

(* A caller that has given its job an outcome and returned. *)
LEMMA OwnershipCompleted ==
    ASSUME TypeOK, JobOwnership, NEW w \in Callers, InFlight(w), Return(w),
           NEW o \in Outcomes, jobs' = JobCompleted(op[w].job, o),
           UNCHANGED <<life, proc>>
    PROVE  JobOwnership'
<1>1. op[w].job \in DOMAIN jobs
  BY DEF JobOwnership
<1>2. DOMAIN jobs' = DOMAIN jobs /\ \A i \in DOMAIN jobs \ {op[w].job} : jobs'[i] = jobs[i]
  <2>1. jobs \in Seq(Job) /\ clock \in Nat
    BY DEF TypeOK
  <2>2. /\ DOMAIN JobCompleted(op[w].job, o) = DOMAIN jobs
        /\ \A i \in DOMAIN jobs \ {op[w].job} : JobCompleted(op[w].job, o)[i] = jobs[i]
    BY <1>1, <2>1, JobCompletedType
  <2> QED
    BY <2>2
<1>a. op'[w] = Idle /\ \A v \in Callers \ {w} : op'[v] = op[v]
  BY DEF Return, TypeOK
<1>b. Idle.pc \notin WithJob
  BY DEF Idle, WithJob
<1>3. \A v \in Callers : InFlight(v)' => v # w /\ InFlight(v) /\ op'[v] = op[v]
  BY <1>a, <1>b DEF InFlight
<1>4. \A v \in Callers : InFlight(v)' => op[v].job # op[w].job
  BY <1>3 DEF JobOwnership
<1>5. proc # "down" /\ (proc = "closing" => w \notin Web)
  BY DEF JobOwnership, InFlight, WithJob
<1>6. \A v \in Callers : v # w => op'[v] = op[v]
  BY DEF Return, TypeOK
<1>7. \A v \in Callers : InFlight(v)' =>
        /\ op'[v].job \in DOMAIN jobs'
        /\ jobs'[op'[v].job] = jobs[op[v].job]
        /\ op'[v].job = op[v].job /\ op'[v].cert = op[v].cert
  BY <1>2, <1>3, <1>4 DEF JobOwnership
<1>8. \A v \in Callers : InFlight(v)' => InFlight(v)
  BY <1>3
<1>9. proc' = "closing" => \A v \in Web : op'[v].pc = "idle"
  BY <1>5, <1>6 DEF JobOwnership, Callers
<1> QED
  BY <1>5, <1>7, <1>8, <1>9 DEF JobOwnership

LEMMA StepOwnership ==
    ASSUME TypeOK, JobOwnership, NEW w \in Callers, Step(w), TypeOK'
    PROVE  JobOwnership'
<1> USE DEF At
<1>t. op \in [Callers -> Op] /\ op' \in [Callers -> Op]
  BY DEF TypeOK
<1>m. ASSUME NEW pc \in BeforeJob \cup WithJob, Goto(w, pc), op[w].pc # "idle",
             pc \in WithJob => InFlight(w), UNCHANGED <<jobs, life, proc>>
      PROVE  JobOwnership'
  <2>1. op'[w].pc = pc /\ op'[w].job = op[w].job /\ op'[w].cert = op[w].cert
    BY <1>m, <1>t DEF Goto, Op
  <2>2. \A v \in Callers \ {w} : op'[v] = op[v]
    BY <1>m, <1>t DEF Goto
  <2>3. InFlight(w)' => InFlight(w)
    BY <1>m, <2>1 DEF InFlight
  <2> QED
    BY <1>m, <1>t, <2>1, <2>2, <2>3, OwnershipKept
<1>r. ASSUME Return(w), op[w].pc # "idle", UNCHANGED <<jobs, life, proc>>
      PROVE  JobOwnership'
  <2>1. op'[w].pc = "idle" /\ \A v \in Callers \ {w} : op'[v] = op[v]
    BY <1>r, <1>t DEF Return, Idle
  <2>2. ~ InFlight(w)'
    BY <2>1 DEF InFlight, WithJob
  <2> QED
    BY <1>r, <1>t, <2>1, <2>2, OwnershipKept
<1>1. CASE CheckRunning(w)
  BY <1>1, <1>m, <1>r DEF CheckRunning, BeforeJob, WithJob
<1>2. CASE CheckCooldown(w)
  BY <1>2, <1>m, <1>r DEF CheckCooldown, BeforeJob, WithJob
<1>3. CASE CreateJob(w)
  <2>1. CASE ~ Live(op[w].cert)
    BY <2>1, <1>3, <1>r DEF CreateJob
  <2>2. CASE Live(op[w].cert)
    <3>1. jobs \in Seq(Job) /\ Len(jobs) \in Nat
      BY DEF TypeOK
    <3>2. NewJob(w) \in Job
      BY <1>3 DEF NewJob, CreateJob, Job, Op, TypeOK
    <3>3. /\ DOMAIN jobs' = DOMAIN jobs \cup {Len(jobs) + 1}
          /\ jobs'[Len(jobs) + 1] = NewJob(w)
          /\ \A j \in DOMAIN jobs : j # Len(jobs) + 1 /\ jobs'[j] = jobs[j]
      BY <1>3, <2>2, <3>1, <3>2, AppendedJobs DEF CreateJob
    <3>4. op'[w].job = Len(jobs) + 1 /\ op'[w].cert = op[w].cert
      BY <1>3, <2>2, <1>t DEF CreateJob, Op
    <3>5. \A v \in Callers \ {w} : op'[v] = op[v]
      BY <1>3, <2>2, <1>t DEF CreateJob
    <3>6. \A v \in Callers \ {w} : InFlight(v)' =>
            InFlight(v) /\ op[v].job \in DOMAIN jobs /\ op[v].job # Len(jobs) + 1
      BY <3>3, <3>5 DEF InFlight, JobOwnership
    <3>7. UNCHANGED <<life, proc>> /\ op[w].pc # "idle" /\ proc # "down"
      BY <1>3 DEF CreateJob
    <3>8. /\ NewJob(w).status = "running" /\ NewJob(w).life = life
          /\ NewJob(w).cert = op[w].cert
      BY DEF NewJob
    <3>9. proc = "closing" => w \notin Web
      BY <3>7 DEF JobOwnership
    <3>10. \A v \in Callers : InFlight(v)' =>
             /\ op'[v].job \in DOMAIN jobs'
             /\ jobs'[op'[v].job].status = "running"
             /\ jobs'[op'[v].job].cert \in {op'[v].cert, NoCert}
             /\ jobs'[op'[v].job].life = life'
      BY <3>3, <3>4, <3>5, <3>6, <3>7, <3>8 DEF JobOwnership
    <3>11. \A u, v \in Callers :
             InFlight(u)' /\ InFlight(v)' /\ op'[u].job = op'[v].job => u = v
      BY <3>4, <3>5, <3>6 DEF JobOwnership
    <3> QED
      BY <3>5, <3>7, <3>9, <3>10, <3>11 DEF JobOwnership, Callers
  <2> QED
    BY <2>1, <2>2
<1>4. CASE EarlyDbError(w)
  BY <1>4, <1>r DEF EarlyDbError, BeforeJob
<1>5. CASE ReadExisting(w)
  <2>1. /\ op'[w].job = op[w].job /\ op'[w].cert = op[w].cert
        /\ \A v \in Callers \ {w} : op'[v] = op[v]
    BY <1>5, <1>t DEF ReadExisting, Op
  <2>2. InFlight(w)
    BY <1>5 DEF ReadExisting, InFlight, WithJob
  <2> QED
    BY <1>5, <1>t, <2>1, <2>2, OwnershipKept DEF ReadExisting
<1>6. CASE CallCA(w)
  <2>1. /\ op'[w].job = op[w].job /\ op'[w].cert = op[w].cert
        /\ \A v \in Callers \ {w} : op'[v] = op[v]
    BY <1>6, <1>t DEF CallCA, Op
  <2>2. InFlight(w)
    BY <1>6 DEF CallCA, InFlight, WithJob
  <2> QED
    BY <1>6, <1>t, <2>1, <2>2, OwnershipKept DEF CallCA
<1>7. CASE OpenChain(w)
  BY <1>7, <1>m DEF OpenChain, InFlight, WithJob
<1>8. CASE WriteChain(w)
  BY <1>8, <1>m DEF WriteChain, InFlight, WithJob
<1>9. CASE OpenKey(w)
  BY <1>9, <1>m DEF OpenKey, InFlight, WithJob
<1>10. CASE WriteKey(w)
  BY <1>10, <1>m DEF WriteKey, InFlight, WithJob
<1>11. CASE OperationFails(w)
  BY <1>11, <1>m DEF OperationFails, InFlight, WithJob
<1>12. CASE MarkIssued(w)
  BY <1>12, <1>m, <1>r DEF MarkIssued, InFlight, WithJob
<1>13. CASE CompleteSuccess(w)
  <2>1. InFlight(w) /\ "success" \in Outcomes
    BY <1>13 DEF CompleteSuccess, InFlight, WithJob, Outcomes
  <2> QED
    BY <1>13, <2>1, OwnershipCompleted DEF CompleteSuccess
<1>14. CASE LateDbError(w)
  BY <1>14, <1>r DEF LateDbError
<1>15. CASE FailStatus(w)
  BY <1>15, <1>m DEF FailStatus, InFlight, WithJob
<1>16. CASE FailJob(w)
  <2>1. InFlight(w) /\ "failed" \in Outcomes
    BY <1>16 DEF FailJob, InFlight, WithJob, Outcomes
  <2>2. CASE UNCHANGED jobs
    BY <1>16, <2>2, <1>r DEF FailJob
  <2>3. CASE jobs' = JobCompleted(op[w].job, "failed")
    BY <1>16, <2>1, <2>3, OwnershipCompleted DEF FailJob
  <2> QED
    BY <1>16, <2>2, <2>3 DEF FailJob
<1> QED
  BY <1>1, <1>2, <1>3, <1>4, <1>5, <1>6, <1>7, <1>8, <1>9, <1>10, <1>11, <1>12,
     <1>13, <1>14, <1>15, <1>16 DEF Step

(* A rewrite of the table by a deletion or by ClearCompleted. *)
LEMMA OwnershipRewritten ==
    ASSUME TypeOK, JobOwnership, UNCHANGED <<op, life, proc>>,
           DOMAIN jobs' = DOMAIN jobs,
           \A j \in DOMAIN jobs :
              /\ jobs[j].status = "running" => jobs'[j].status = "running"
              /\ jobs'[j].cert \in {jobs[j].cert, NoCert}
              /\ jobs'[j].life = jobs[j].life
    PROVE  JobOwnership'
<1>1. \A v \in Callers : InFlight(v)' <=> InFlight(v)
  BY DEF InFlight
<1> QED
  BY <1>1 DEF JobOwnership

LEMMA OtherOwnership ==
    ASSUME TypeOK, JobOwnership, [Next]_vars, ~ \E w \in Callers : Step(w)
    PROVE  JobOwnership'
<1>s. jobs \in Seq(Job) /\ \A j \in DOMAIN jobs : jobs[j] \in Job
  BY JobsAreJobs DEF TypeOK
<1>i. Idle.pc = "idle" /\ "idle" \notin WithJob
  BY DEF Idle, WithJob
<1>k. ASSUME UNCHANGED <<jobs, op, life>>,
             proc' = "closing" => \A w \in Web : op[w].pc = "idle",
             proc' = "down" => \A w \in Callers : op[w].pc = "idle"
      PROVE  JobOwnership'
  <2>1. \A v \in Callers : InFlight(v)' <=> InFlight(v)
    BY <1>k DEF InFlight
  <2> QED
    BY <1>k, <2>1 DEF JobOwnership
<1>u. ASSUME UNCHANGED <<jobs, op, life, proc>> PROVE JobOwnership'
  BY <1>k, <1>u DEF JobOwnership
<1>1. ASSUME NEW c \in Certs, CreateCertificate(c) PROVE JobOwnership'
  BY <1>1, <1>u DEF CreateCertificate
<1>2. ASSUME NEW c \in Certs, DeleteCertificate(c) PROVE JobOwnership'
  <2>1. DOMAIN jobs' = DOMAIN jobs
    BY <1>2 DEF DeleteCertificate
  <2>2. \A j \in DOMAIN jobs : jobs'[j] \in {jobs[j], [jobs[j] EXCEPT !.cert = NoCert]}
    BY <1>2 DEF DeleteCertificate
  <2>3. \A r \in Job : LET q == [r EXCEPT !.cert = NoCert] IN
          q.status = r.status /\ q.cert = NoCert /\ q.life = r.life
    BY DEF Job
  <2> QED
    BY <1>2, <1>s, <2>1, <2>2, <2>3, OwnershipRewritten DEF DeleteCertificate
<1>3. CASE ClearCompleted
  <2>1. DOMAIN jobs' = DOMAIN jobs
    BY <1>3 DEF ClearCompleted
  <2>2. \A j \in DOMAIN jobs :
          \/ jobs'[j] = jobs[j]
          \/ jobs[j].status # "running" /\ jobs'[j] = Gone(jobs[j])
    BY <1>3 DEF ClearCompleted, Clearable, Outcomes
  <2>3. \A r \in Job : Gone(r).cert = r.cert /\ Gone(r).life = r.life
    BY DEF Job, Gone
  <2> QED
    BY <1>3, <1>s, <2>1, <2>2, <2>3, OwnershipRewritten DEF ClearCompleted
<1>4. CASE Tick
  BY <1>4, <1>u DEF Tick
<1>5. ASSUME NEW w \in Callers, NEW c \in Certs, NEW kind \in Kinds, Begin(w, c, kind)
      PROVE JobOwnership'
  <2>1. /\ op'[w].pc = "checkRunning" /\ \A v \in Callers \ {w} : op'[v] = op[v]
        /\ UNCHANGED <<jobs, life, proc>> /\ proc = "up"
    BY <1>5 DEF Begin, TypeOK
  <2>2. \A v \in Callers : InFlight(v)' => v # w /\ InFlight(v)
    BY <2>1 DEF InFlight, WithJob
  <2> QED
    BY <2>1, <2>2 DEF JobOwnership
<1>6. CASE Close
  BY <1>6, <1>k DEF Close
<1>7. CASE Closed
  <2>1. \A w \in Callers : op[w].pc = "idle"
    BY <1>7 DEF Closed, JobOwnership, Callers
  <2> QED
    BY <1>7, <2>1, <1>k DEF Closed
<1>8. CASE Crash
  <2>1. \A w \in Callers : op'[w].pc = "idle" /\ ~ InFlight(w)'
    BY <1>8, <1>i DEF Crash, InFlight
  <2> QED
    BY <1>8, <2>1 DEF Crash, JobOwnership, Callers
<1>9. CASE Restart
  <2>1. \A w \in Callers : op'[w].pc = "idle" /\ ~ InFlight(w)'
    BY <1>9, <1>i DEF Restart, InFlight, JobOwnership
  <2> QED
    BY <1>9, <2>1 DEF Restart, JobOwnership, Callers
<1>10. CASE UNCHANGED vars
  BY <1>10, <1>u DEF vars
<1> QED
  BY <1>1, <1>2, <1>3, <1>4, <1>5, <1>6, <1>7, <1>8, <1>9, <1>10
     DEF Next, BeginWeb, BeginScheduled, Callers, Kinds

-----------------------------------------------------------------------------
(* The inductive invariant both theorems rest on: ownership needs the types,
   and the types of a completed job need to know that the job is there. *)
IInv == TypeOK /\ JobOwnership

LEMMA InitIInv == Init => IInv
<1> SUFFICES ASSUME Init PROVE IInv
  OBVIOUS
<1>1. TypeOK
  BY InitType
<1>2. \A w \in Callers : op[w].pc = "idle" /\ ~ InFlight(w)
  BY DEF Init, Idle, InFlight, WithJob
<1> QED
  BY <1>1, <1>2 DEF IInv, JobOwnership, Init

LEMMA NextIInv == IInv /\ [Next]_vars => IInv'
<1> SUFFICES ASSUME IInv, [Next]_vars PROVE IInv'
  OBVIOUS
<1>1. CASE \E w \in Callers : Step(w)
  BY <1>1, StepType, StepOwnership DEF IInv
<1>2. CASE ~ \E w \in Callers : Step(w)
  BY <1>2, OtherType, OtherOwnership DEF IInv
<1> QED
  BY <1>1, <1>2

LEMMA Invariance == Spec => []IInv
  BY InitIInv, NextIInv, PTL DEF Spec

(* The variables of the model always have their types: what the code stores
   in the tables, the files and an operation is what its types say. *)
THEOREM TypeCorrect == Spec => []TypeOK
  BY Invariance, PTL DEF IInv

(* Whatever the callers, deletions, clearings, failures and restarts, the job
   of an operation in flight is running, its own, and of this process:
   jobs.Complete (job.go:93) never misses its row and never overwrites an
   outcome. *)
THEOREM JobsAreOwned == Spec => []JobOwnership
  BY Invariance, PTL DEF IInv

-----------------------------------------------------------------------------
(* The job log *)

LEMMA ViewAppended ==
    ASSUME TypeOK, NEW r \in Job, jobs' = Append(jobs, r)
    PROVE  LogView' = Append(LogView, [status |-> r.status, cert |-> r.cert])
<1> DEFINE V == [status |-> r.status, cert |-> r.cert]
           E == [status : {"running", "deleted"} \cup Outcomes, cert : Certs \cup {NoCert}]
<1>1. jobs \in Seq(Job) /\ Len(jobs) \in Nat /\ DOMAIN jobs = 1 .. Len(jobs)
  BY JobsAreJobs DEF TypeOK
<1>2. V \in E
  BY DEF Job, Outcomes
<1>3. LogView \in Seq(E) /\ Len(LogView) = Len(jobs) /\ DOMAIN LogView = DOMAIN jobs
  <2>1. \A j \in DOMAIN jobs : [status |-> jobs[j].status, cert |-> jobs[j].cert] \in E
    BY <1>1, JobsAreJobs DEF Job, Outcomes
  <2> HIDE DEF E
  <2> QED
    BY <1>1, <2>1 DEF LogView
<1> HIDE DEF V, E
<1>4. /\ DOMAIN Append(LogView, V) = 1 .. Len(jobs) + 1
      /\ Append(LogView, V)[Len(jobs) + 1] = V
      /\ \A j \in DOMAIN jobs : Append(LogView, V)[j] = LogView[j]
      /\ Append(LogView, V) \in Seq(E)
  BY <1>1, <1>2, <1>3
<1>5. /\ DOMAIN jobs' = 1 .. Len(jobs) + 1
      /\ jobs'[Len(jobs) + 1] = r
      /\ \A j \in DOMAIN jobs : jobs'[j] = jobs[j]
  BY <1>1
<1>6. DOMAIN LogView' = DOMAIN Append(LogView, V)
  BY <1>4, <1>5 DEF LogView
<1>7. \A j \in DOMAIN LogView' : LogView'[j] = Append(LogView, V)[j]
  BY <1>1, <1>4, <1>5 DEF LogView, V
<1>8. Append(LogView, V) = [j \in 1 .. Len(jobs) + 1 |-> Append(LogView, V)[j]]
  <2>1. \A t \in Seq(E) : t = [j \in DOMAIN t |-> t[j]]
    OBVIOUS
  <2> QED
    BY <1>4, <2>1
<1>9. LogView' = [j \in 1 .. Len(jobs) + 1 |-> LogView'[j]]
  BY <1>5 DEF LogView
<1> QED
  BY <1>4, <1>6, <1>7, <1>8, <1>9 DEF V

LEMMA ViewFinished ==
    ASSUME IInv, NEW w \in Callers, InFlight(w), NEW o \in Outcomes,
           jobs' = JobCompleted(op[w].job, o)
    PROVE  Log!Next
<1> DEFINE j == op[w].job
<1>1. j \in DOMAIN jobs /\ jobs[j].status = "running" /\ jobs[j] \in Job
  BY JobsAreJobs DEF IInv, JobOwnership, TypeOK
<1>2. jobs \in Seq(Job) /\ clock \in Nat
  BY DEF IInv, TypeOK
<1>3. /\ DOMAIN jobs' = DOMAIN jobs
      /\ \A i \in DOMAIN jobs \ {j} : jobs'[i] = jobs[i]
      /\ jobs'[j] = [jobs[j] EXCEPT !.status = o, !.finished = clock]
  BY <1>1, <1>2, JobCompletedType
<1>4. jobs'[j].status = o /\ jobs'[j].cert = jobs[j].cert
  BY <1>1, <1>3 DEF Job
<1>5. LogView' = [LogView EXCEPT ![j].status = o]
  BY <1>1, <1>3, <1>4 DEF LogView
<1> QED
  BY <1>1, <1>5 DEF Log!Next, Log!Finish, Log!Outcomes, Outcomes, LogView

LEMMA LogStep == IInv /\ [Next]_vars => [Log!Next]_LogView
<1> SUFFICES ASSUME IInv, [Next]_vars PROVE Log!Next \/ UNCHANGED LogView
  OBVIOUS
<1>u. UNCHANGED jobs => UNCHANGED LogView
  BY DEF LogView
<1>1. ASSUME NEW w \in Callers, Step(w) PROVE Log!Next \/ UNCHANGED LogView
  <2>1. CASE CreateJob(w) /\ ~ UNCHANGED jobs
    <3>1. NewJob(w) \in Job /\ op[w].cert \in Certs /\ op[w].cert # NoCert
      BY <2>1, NoCertAssumption DEF NewJob, CreateJob, At, Job, Op, TypeOK, IInv
    <3>2. jobs' = Append(jobs, NewJob(w))
      BY <2>1 DEF CreateJob
    <3>3. LogView' = Append(LogView, [status |-> "running", cert |-> op[w].cert])
      BY <3>1, <3>2, ViewAppended DEF NewJob, IInv
    <3> QED
      BY <3>1, <3>3 DEF Log!Next, Log!Record
  <2>2. CASE CompleteSuccess(w)
    BY <2>2, ViewFinished DEF CompleteSuccess, At, InFlight, WithJob, Outcomes
  <2>3. CASE FailJob(w)
    BY <2>3, <1>u, ViewFinished DEF FailJob, At, InFlight, WithJob, Outcomes
  <2> QED
    BY <1>1, <1>u, <2>1, <2>2, <2>3 DEF Step, CheckRunning, CheckCooldown, CreateJob,
       EarlyDbError, ReadExisting, CallCA, OpenChain, WriteChain, OpenKey, WriteKey,
       OperationFails, MarkIssued, LateDbError, FailStatus
<1>2. ASSUME NEW c \in Certs, DeleteCertificate(c) PROVE Log!Next
  <2>1. \A j \in DOMAIN jobs : jobs[j] \in Job
    BY JobsAreJobs DEF IInv, TypeOK
  <2>2. \A r \in Job : LET q == [r EXCEPT !.cert = NoCert] IN
          q.status = r.status /\ q.cert = NoCert
    BY DEF Job
  <2>3. Log!Detach(c)
    BY <1>2, <2>1, <2>2 DEF DeleteCertificate, Log!Detach, LogView
  <2> QED
    BY <2>3 DEF Log!Next
<1>3. CASE ClearCompleted
  <2>1. \A j \in DOMAIN jobs : jobs[j] \in Job
    BY JobsAreJobs DEF IInv, TypeOK
  <2>2. \A r \in Job : Gone(r).status = "deleted" /\ Gone(r).cert = r.cert
    BY DEF Job, Gone
  <2>3. Log!Clear
    BY <1>3, <2>1, <2>2
       DEF ClearCompleted, Clearable, Outcomes, Log!Clear, Log!Outcomes, LogView
  <2> QED
    BY <2>3 DEF Log!Next
<1> QED
  BY <1>1, <1>2, <1>3, <1>u DEF Next, CreateCertificate, Tick, BeginWeb, BeginScheduled,
     Begin, Close, Closed, Crash, Restart, vars

(* The use case keeps the promise of the job log: ids in order, one outcome
   for each job and never another, nothing running ever cleared, although
   Complete (job.go:93) and DeleteCompleted by themselves ensure none of it. *)
THEOREM JobLogIsKept == Spec => ImplementsJobLog
<1>1. Init => Log!Init
  BY DEF Init, Log!Init, LogView
<1>2. IInv /\ [Next]_vars => [Log!Next]_LogView
  BY LogStep
<1> QED
  BY <1>1, <1>2, Invariance, PTL DEF Spec, ImplementsJobLog, Log!Spec
=============================================================================
