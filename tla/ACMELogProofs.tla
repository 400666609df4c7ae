---------------------------- MODULE ACMELogProofs ----------------------------
(***************************************************************************)
(* What the job log and the files of ACME say, for any certificates,       *)
(* callers and bounds: why a job may be left running, when two may be      *)
(* running for one certificate, that the cooldown is kept, where the keys  *)
(* come from, and that the row, the log and the two files agree.           *)
(***************************************************************************)
EXTENDS ACMEProofs

-----------------------------------------------------------------------------
(* How a step changes the jobs table. *)

Inserted(w) ==
    /\ CreateJob(w)
    /\ Live(op[w].cert)
    /\ op[w].pc = "create" /\ op'[w].job = Len(jobs) + 1 /\ InFlight(w)'
    /\ DOMAIN jobs' = DOMAIN jobs \cup {Len(jobs) + 1}
    /\ jobs'[Len(jobs) + 1] = NewJob(w)
    /\ \A j \in DOMAIN jobs : j < Len(jobs) + 1 /\ jobs'[j] = jobs[j]
    /\ \A v \in Callers \ {w} : op'[v] = op[v]

Concluded(w, o) ==
    /\ InFlight(w) /\ Step(w) /\ Return(w)
    /\ DOMAIN jobs' = DOMAIN jobs
    /\ \A i \in DOMAIN jobs \ {op[w].job} : jobs'[i] = jobs[i]
    /\ jobs'[op[w].job] = [jobs[op[w].job] EXCEPT !.status = o, !.finished = clock]
    /\ UNCHANGED <<rows, proc, life, clock>>

Detached(c) ==
    /\ DeleteCertificate(c)
    /\ DOMAIN jobs' = DOMAIN jobs
    /\ \A j \in DOMAIN jobs : jobs'[j] =
         IF jobs[j].cert = c THEN [jobs[j] EXCEPT !.cert = NoCert] ELSE jobs[j]

Cleared ==
    /\ ClearCompleted
    /\ DOMAIN jobs' = DOMAIN jobs
    /\ \A j \in DOMAIN jobs : jobs'[j] =
         IF jobs[j].status \in Outcomes THEN Gone(jobs[j]) ELSE jobs[j]

LEMMA ConcludedBy ==
    ASSUME IInv, NEW w \in Callers, InFlight(w), Step(w), Return(w), NEW o \in Outcomes,
           jobs' = JobCompleted(op[w].job, o), UNCHANGED <<rows, proc, life, clock>>
    PROVE  Concluded(w, o)
<1>1. op[w].job \in DOMAIN jobs /\ jobs[op[w].job].status = "running"
  BY DEF IInv, JobOwnership
<1>2. jobs \in Seq(Job) /\ clock \in Nat
  BY DEF IInv, TypeOK
<1> QED
  BY <1>1, <1>2, JobCompletedType DEF Concluded

LEMMA CreateInserts ==
    ASSUME IInv, [Next]_vars, NEW w \in Callers, CreateJob(w), Live(op[w].cert)
    PROVE  Inserted(w)
<1>1. jobs \in Seq(Job) /\ Len(jobs) \in Nat /\ DOMAIN jobs = 1 .. Len(jobs)
  BY JobsAreJobs DEF IInv, TypeOK
<1>2. NewJob(w) \in Job
  BY DEF NewJob, CreateJob, At, Job, Op, TypeOK, IInv
<1>3. jobs' = Append(jobs, NewJob(w)) /\ Live(op[w].cert) /\ op[w].pc = "create"
  BY DEF CreateJob, At
<1>4. op'[w].job = Len(jobs) + 1 /\ InFlight(w)'
  BY <1>3 DEF CreateJob, InFlight, WithJob, IInv, TypeOK, Op
<1>5. \A v \in Callers \ {w} : op'[v] = op[v]
  BY <1>3 DEF CreateJob, IInv, TypeOK
<1>6. \A j \in DOMAIN jobs : j < Len(jobs) + 1
  BY <1>1
<1>7. PICK r \in Job : r = NewJob(w) /\ jobs' = Append(jobs, r)
  BY <1>2, <1>3
<1>8. /\ DOMAIN jobs' = DOMAIN jobs \cup {Len(jobs) + 1}
      /\ jobs'[Len(jobs) + 1] = r
      /\ \A j \in DOMAIN jobs : jobs'[j] = jobs[j]
  <2>1. \A s \in Seq(Job) :
           /\ DOMAIN Append(s, r) = DOMAIN s \cup {Len(s) + 1}
           /\ Append(s, r)[Len(s) + 1] = r
           /\ \A j \in DOMAIN s : Append(s, r)[j] = s[j]
    BY <1>7, AppendedJobs
  <2> QED
    BY <1>1, <1>7, <2>1, Zenon
<1>9. jobs'[Len(jobs) + 1] = NewJob(w)
  BY <1>7, <1>8
<1> QED
  BY <1>3, <1>4, <1>5, <1>6, <1>8, <1>9 DEF Inserted

LEMMA JobsStep ==
    ASSUME IInv, [Next]_vars
    PROVE  \/ UNCHANGED jobs
           \/ \E w \in Callers : Inserted(w)
           \/ \E w \in Callers, o \in Outcomes : Concluded(w, o)
           \/ \E c \in Certs : Detached(c)
           \/ Cleared
<1>1. ASSUME NEW w \in Callers, CreateJob(w), ~ UNCHANGED jobs PROVE Inserted(w)
  BY <1>1, CreateInserts DEF CreateJob
<1>2. ASSUME NEW w \in Callers, CompleteSuccess(w)
      PROVE  \E o \in Outcomes : Concluded(w, o)
  BY <1>2, ConcludedBy DEF CompleteSuccess, At, InFlight, WithJob, Outcomes, Step
<1>3. ASSUME NEW w \in Callers, FailJob(w), ~ UNCHANGED jobs
      PROVE  \E o \in Outcomes : Concluded(w, o)
  BY <1>3, ConcludedBy DEF FailJob, At, InFlight, WithJob, Outcomes, Step
<1>4. ASSUME NEW c \in Certs, DeleteCertificate(c) PROVE Detached(c)
  BY <1>4 DEF DeleteCertificate, Detached
<1>5. ASSUME ClearCompleted PROVE Cleared
  BY <1>5 DEF ClearCompleted, Cleared, Clearable
<1>6. ASSUME NEW w \in Callers, Step(w), ~ UNCHANGED jobs
      PROVE  CreateJob(w) \/ CompleteSuccess(w) \/ FailJob(w)
  BY <1>6 DEF Step, CheckRunning, CheckCooldown, EarlyDbError, ReadExisting, CallCA,
     OpenChain, WriteChain, OpenKey, WriteKey, OperationFails, MarkIssued, LateDbError,
     FailStatus
<1> QED
  BY <1>1, <1>2, <1>3, <1>4, <1>5, <1>6 DEF Next, CreateCertificate, Tick, BeginWeb,
     BeginScheduled, Begin, Close, Closed, Crash, Restart, vars

-----------------------------------------------------------------------------
(* How a step brings a caller between its checks and its insert. *)

KnowsNoneRunning(v) ==
    /\ ~ HasRunningCertificateJob(op[v].cert)
    /\ op'[v].cert = op[v].cert /\ op'[v].begun = op[v].begun
    /\ UNCHANGED jobs

KnowsNoneFailed(v) ==
    /\ op[v].pc = "checkCooldown"
    /\ ~ FailedCertificateJobSince(op[v].cert, op[v].begun - Cooldown)
    /\ op'[v].cert = op[v].cert /\ op'[v].begun = op[v].begun
    /\ UNCHANGED jobs

LEMMA OpsStep ==
    ASSUME IInv, [Next]_vars, NEW v \in Callers
    PROVE  /\ op'[v].begun \in {op[v].begun, clock, 0}
           /\ op'[v].pc = "checkCooldown" => op'[v] = op[v] \/ KnowsNoneRunning(v)
           /\ op'[v].pc = "create" => op'[v] = op[v] \/ KnowsNoneFailed(v)
<1> DEFINE Claim == /\ op'[v].begun \in {op[v].begun, clock, 0}
                    /\ op'[v].pc = "checkCooldown" => op'[v] = op[v] \/ KnowsNoneRunning(v)
                    /\ op'[v].pc = "create" => op'[v] = op[v] \/ KnowsNoneFailed(v)
<1>t. op \in [Callers -> Op]
  BY DEF IInv, TypeOK
<1>i. Idle.begun = 0 /\ Idle.pc \notin {"checkCooldown", "create"}
  BY DEF Idle
<1>k. op'[v] = op[v] => Claim
  OBVIOUS
<1>m. ASSUME NEW w \in Callers, NEW pc, pc \notin {"checkCooldown", "create"}, Goto(w, pc)
      PROVE  Claim
  <2>1. op'[w].begun = op[w].begun /\ op'[w].pc = pc
    BY <1>m, <1>t DEF Goto, Op
  <2>2. v # w => op'[v] = op[v]
    BY <1>m, <1>t DEF Goto
  <2> QED
    BY <1>m, <2>1, <2>2
<1>r. ASSUME NEW w \in Callers, Return(w) PROVE Claim
  BY <1>r, <1>t, <1>i DEF Return
<1>1. ASSUME NEW w \in Callers, Step(w) PROVE Claim
  <2>1. CASE CheckRunning(w)
    <3>1. CASE Goto(w, "checkCooldown") /\ ~ HasRunningCertificateJob(op[w].cert)
      <4>1. /\ op'[w].begun = op[w].begun /\ op'[w].cert = op[w].cert
            /\ op'[w].pc = "checkCooldown"
        BY <3>1, <1>t DEF Goto, Op
      <4>2. v # w => op'[v] = op[v]
        BY <3>1, <1>t DEF Goto
      <4> QED
        BY <2>1, <3>1, <4>1, <4>2 DEF CheckRunning, KnowsNoneRunning
    <3> QED
      BY <2>1, <3>1, <1>r DEF CheckRunning
  <2>2. CASE CheckCooldown(w)
    <3>1. CASE /\ Goto(w, "create")
               /\ ~ FailedCertificateJobSince(op[w].cert, op[w].begun - Cooldown)
      <4>1. /\ op'[w].begun = op[w].begun /\ op'[w].cert = op[w].cert
            /\ op'[w].pc = "create" /\ op[w].pc = "checkCooldown"
        BY <2>2, <3>1, <1>t DEF Goto, Op, CheckCooldown, At
      <4>2. v # w => op'[v] = op[v]
        BY <3>1, <1>t DEF Goto
      <4> QED
        BY <2>2, <3>1, <4>1, <4>2 DEF CheckCooldown, KnowsNoneFailed
    <3> QED
      BY <2>2, <3>1, <1>r DEF CheckCooldown
  <2>3. CASE CreateJob(w)
    <3>1. CASE Return(w)
      BY <3>1, <1>r
    <3>2. CASE ~ Return(w)
      <4>1. op'[w].begun = op[w].begun /\ op'[w].pc \in {"read", "ca"}
        BY <2>3, <3>2, <1>t DEF CreateJob, Op
      <4>2. v # w => op'[v] = op[v]
        BY <2>3, <3>2, <1>t DEF CreateJob
      <4> QED
        BY <4>1, <4>2
    <3> QED
      BY <3>1, <3>2
  <2>4. CASE EarlyDbError(w)
    BY <2>4, <1>r DEF EarlyDbError
  <2>5. CASE ReadExisting(w)
    <3>1. op'[w].begun = op[w].begun /\ op'[w].pc \in {"ca", "failStatus"}
      BY <2>5, <1>t DEF ReadExisting, Op
    <3>2. v # w => op'[v] = op[v]
      BY <2>5, <1>t DEF ReadExisting
    <3> QED
      BY <3>1, <3>2
  <2>6. CASE CallCA(w)
    <3>1. op'[w].begun = op[w].begun /\ op'[w].pc = "openChain"
      BY <2>6, <1>t DEF CallCA, Op
    <3>2. v # w => op'[v] = op[v]
      BY <2>6, <1>t DEF CallCA
    <3> QED
      BY <3>1, <3>2
  <2>7. CASE \/ OpenChain(w) \/ WriteChain(w) \/ OpenKey(w) \/ WriteKey(w)
             \/ OperationFails(w) \/ FailStatus(w)
    BY <2>7, <1>m DEF OpenChain, WriteChain, OpenKey, WriteKey, OperationFails, FailStatus
  <2>8. CASE MarkIssued(w)
    BY <2>8, <1>m, <1>r DEF MarkIssued
  <2>9. CASE CompleteSuccess(w) \/ LateDbError(w) \/ FailJob(w)
    BY <2>9, <1>r DEF CompleteSuccess, LateDbError, FailJob
  <2> QED
    BY <1>1, <2>1, <2>2, <2>3, <2>4, <2>5, <2>6, <2>7, <2>8, <2>9 DEF Step
<1>2. ASSUME NEW w \in Callers, NEW c \in Certs, NEW kind \in Kinds, Begin(w, c, kind)
      PROVE  Claim
  <2>1. op'[w].begun = clock /\ op'[w].pc = "checkRunning"
    BY <1>2, <1>t DEF Begin
  <2>2. v # w => op'[v] = op[v]
    BY <1>2, <1>t DEF Begin
  <2> QED
    BY <2>1, <2>2
<1>3. ASSUME Crash PROVE Claim
  <2>1. op'[v] = Idle
    BY <1>3 DEF Crash
  <2> QED
    BY <2>1, <1>i
<1>4. ASSUME op' = op PROVE Claim
  BY <1>4, <1>k
<1> HIDE DEF Claim
<1>5. Claim
  <2>1. CASE \E w \in Web, c \in Certs, kind \in Kinds : BeginWeb(w, c, kind)
    BY <2>1, <1>2 DEF BeginWeb, Callers
  <2>2. CASE \E w \in Scheduler, c \in Certs : BeginScheduled(w, c)
    BY <2>2, <1>2 DEF BeginScheduled, Callers, Kinds
  <2>3. CASE \E c \in Certs : CreateCertificate(c) \/ DeleteCertificate(c)
    BY <2>3, <1>4 DEF CreateCertificate, DeleteCertificate
  <2>4. CASE ClearCompleted \/ Tick \/ Close \/ Closed \/ Restart
    BY <2>4, <1>4 DEF ClearCompleted, Tick, Close, Closed, Restart
  <2>5. CASE vars' = vars
    BY <2>5, <1>4 DEF vars
  <2> QED
    BY <1>1, <1>3, <2>1, <2>2, <2>3, <2>4, <2>5 DEF Next
<1> QED
  BY <1>5 DEF Claim

LEMMA ClockStep == IInv /\ [Next]_vars => clock' \in Nat /\ clock \in Nat /\ clock <= clock'
<1> SUFFICES ASSUME IInv, [Next]_vars PROVE clock' \in Nat /\ clock <= clock'
  BY DEF IInv, TypeOK
<1>1. clock \in Nat
  BY DEF IInv, TypeOK
<1>2. clock' \in {clock, clock + 1}
  <2>1. ASSUME NEW w \in Callers, Step(w) PROVE UNCHANGED clock
    BY <2>1 DEF Step, CheckRunning, CheckCooldown, CreateJob, EarlyDbError, ReadExisting,
       CallCA, OpenChain, WriteChain, OpenKey, WriteKey, OperationFails, MarkIssued,
       CompleteSuccess, LateDbError, FailStatus, FailJob
  <2> QED
    BY <2>1 DEF Next, CreateCertificate, DeleteCertificate, ClearCompleted, Tick, BeginWeb,
       BeginScheduled, Begin, Close, Closed, Crash, Restart, vars
<1> QED
  BY <1>1, <1>2

-----------------------------------------------------------------------------
(* The strengthening: what a caller between its checks and its insert knows
   of the log stays true until it inserts. A job that runs for its
   certificate was inserted after its clock reading, and a failure it was not
   stopped by either lies a cooldown back or came after that reading. *)

ClocksPast ==
    /\ \A w \in Callers : op[w].begun <= clock
    /\ \A j \in DOMAIN jobs : jobs[j].begun <= clock

CheckedRunning ==
    \A w \in Callers, j \in DOMAIN jobs :
        /\ op[w].pc \in {"checkCooldown", "create"}
        /\ jobs[j].status = "running" /\ jobs[j].cert = op[w].cert
        => jobs[j].started >= op[w].begun

CheckedCooldown ==
    \A w \in Callers, j \in DOMAIN jobs :
        /\ op[w].pc = "create"
        /\ jobs[j].status = "failed" /\ jobs[j].cert = op[w].cert
        /\ jobs[j].finished < op[w].begun
        => op[w].begun > jobs[j].started + Cooldown

TimeInv ==
    /\ ClocksPast /\ CheckedRunning /\ CheckedCooldown
    /\ OverlapOnlyInWindow /\ CooldownSpacing

(* The rows of the table, before and after a step, as numbers and names. *)
LEMMA RowTypes ==
    ASSUME IInv
    PROVE  /\ \A j \in DOMAIN jobs : jobs[j] \in Job /\ j \in Nat
           /\ \A j \in DOMAIN jobs :
                jobs[j].begun \in Nat /\ jobs[j].started \in Nat /\ jobs[j].finished \in Nat
           /\ \A w \in Callers : op[w].begun \in Nat /\ op[w] \in Op
           /\ clock \in Nat /\ Cooldown \in Nat /\ Len(jobs) \in Nat
           /\ \A w \in Callers : op[w].pc # "idle" => op[w].cert \in Certs /\ op[w].cert # NoCert
<1>1. \A j \in DOMAIN jobs : jobs[j] \in Job /\ j \in Nat
  BY JobsAreJobs DEF IInv, TypeOK
<1>2. \A w \in Callers : op[w] \in Op
  BY DEF IInv, TypeOK
<1>3. \A r \in Job : r.begun \in Nat /\ r.started \in Nat /\ r.finished \in Nat
  BY DEF Job
<1>4. \A o \in Op : o.begun \in Nat
  BY DEF Op
<1> QED
  BY <1>1, <1>2, <1>3, <1>4, JobsAreJobs, TimeAssumption, NoCertAssumption DEF IInv, TypeOK

(* What each way of changing the table does to the columns of a row. *)
LEMMA ConcludedRow ==
    ASSUME NEW r \in Job, NEW o, NEW t
    PROVE  LET q == [r EXCEPT !.status = o, !.finished = t] IN
           /\ q.status = o /\ q.finished = t /\ q.cert = r.cert
           /\ q.begun = r.begun /\ q.started = r.started /\ q.life = r.life
  BY DEF Job

LEMMA DetachedRow ==
    ASSUME NEW r \in Job
    PROVE  LET q == [r EXCEPT !.cert = NoCert] IN
           /\ q.status = r.status /\ q.finished = r.finished /\ q.cert = NoCert
           /\ q.begun = r.begun /\ q.started = r.started /\ q.life = r.life
  BY DEF Job

LEMMA ClearedRow ==
    ASSUME NEW r \in Job
    PROVE  /\ Gone(r).status = "deleted" /\ Gone(r).begun = 0
           /\ Gone(r).cert = r.cert /\ Gone(r).life = r.life
  BY DEF Job, Gone

LEMMA InitTime == Init => TimeInv
<1> SUFFICES ASSUME Init PROVE TimeInv
  OBVIOUS
<1>1. DOMAIN jobs = {}
  BY DEF Init
<1>2. \A w \in Callers : op[w].begun = 0 /\ op[w].pc = "idle" /\ clock = 0
  BY DEF Init, Idle
<1> QED
  BY <1>1, <1>2 DEF TimeInv, ClocksPast, CheckedRunning, CheckedCooldown,
     OverlapOnlyInWindow, CooldownSpacing

SaysLess ==
    /\ DOMAIN jobs' = DOMAIN jobs
    /\ \A j \in DOMAIN jobs :
          \/ jobs'[j] = jobs[j]
          \/ jobs'[j].cert = NoCert /\ jobs'[j].begun = jobs[j].begun
          \/ jobs'[j].status = "deleted" /\ jobs'[j].begun = 0

(* What the callers know, seen from the state before a step that leaves the
   table as it is or makes it say less. *)
LEMMA KnowledgeKept ==
    ASSUME IInv, TimeInv, [Next]_vars, SaysLess
    PROVE  TimeInv'
<1> USE DEF SaysLess
<1>0. clock' \in Nat /\ clock \in Nat /\ clock <= clock'
  BY ClockStep
<1>1. ClocksPast'
  <2>1. \A j \in DOMAIN jobs : jobs'[j].begun \in {jobs[j].begun, 0}
    OBVIOUS
  <2>2. \A v \in Callers : op'[v].begun \in {op[v].begun, clock, 0}
    BY OpsStep
  <2> HIDE DEF SaysLess
  <2>3. DOMAIN jobs' = DOMAIN jobs
    BY DEF SaysLess
  <2> QED
    BY <1>0, <2>1, <2>2, <2>3, RowTypes DEF TimeInv, ClocksPast
<1>n. \A v \in Callers : op'[v].pc # "idle" => op'[v].cert # NoCert
  <2>1. TypeOK'
    BY NextIInv DEF IInv
  <2>2. \A v \in Callers : op'[v].pc # "idle" => op'[v].cert \in Certs
    BY <2>1 DEF TypeOK
  <2> QED
    BY <2>2, NoCertAssumption
<1>2. CheckedRunning'
  <2> SUFFICES ASSUME NEW v \in Callers, NEW j \in DOMAIN jobs,
                      op'[v].pc \in {"checkCooldown", "create"},
                      jobs'[j].status = "running", jobs'[j].cert = op'[v].cert
               PROVE  jobs'[j].started >= op'[v].begun
    BY DEF CheckedRunning
  <2>1. jobs'[j] = jobs[j]
    BY <1>n
  <2>2. CASE op'[v] = op[v]
    BY <2>1, <2>2 DEF TimeInv, CheckedRunning
  <2>3. CASE KnowsNoneRunning(v)
    BY <2>1, <2>3 DEF KnowsNoneRunning, HasRunningCertificateJob
  <2>4. CASE KnowsNoneFailed(v)
    BY <2>1, <2>4 DEF KnowsNoneFailed, TimeInv, CheckedRunning
  <2> QED
    BY <2>2, <2>3, <2>4, OpsStep
<1>3. CheckedCooldown'
  <2> SUFFICES ASSUME NEW v \in Callers, NEW j \in DOMAIN jobs, op'[v].pc = "create",
                      jobs'[j].status = "failed", jobs'[j].cert = op'[v].cert,
                      jobs'[j].finished < op'[v].begun
               PROVE  op'[v].begun > jobs'[j].started + Cooldown
    BY DEF CheckedCooldown
  <2>1. jobs'[j] = jobs[j]
    BY <1>n
  <2>2. CASE op'[v] = op[v]
    BY <2>1, <2>2 DEF TimeInv, CheckedCooldown
  <2>3. CASE KnowsNoneFailed(v)
    BY <2>1, <2>3, RowTypes DEF KnowsNoneFailed, FailedCertificateJobSince
  <2> QED
    BY <2>2, <2>3, OpsStep
<1>4. OverlapOnlyInWindow'
  <2> SUFFICES ASSUME NEW j \in DOMAIN jobs, NEW k \in DOMAIN jobs, j < k,
                      jobs'[j].status = "running", jobs'[k].status = "running",
                      jobs'[j].cert = jobs'[k].cert, jobs'[k].cert # NoCert
               PROVE  jobs'[j].started >= jobs'[k].begun
    BY DEF OverlapOnlyInWindow
  <2>1. jobs'[j] = jobs[j] /\ jobs'[k] = jobs[k]
    OBVIOUS
  <2> QED
    BY <2>1 DEF TimeInv, OverlapOnlyInWindow
<1>5. CooldownSpacing'
  <2> SUFFICES ASSUME NEW j \in DOMAIN jobs, NEW k \in DOMAIN jobs,
                      jobs'[j].status = "failed", jobs'[j].finished < jobs'[k].begun,
                      jobs'[k].status # "deleted",
                      jobs'[j].cert = jobs'[k].cert, jobs'[k].cert # NoCert
               PROVE  jobs'[k].started > jobs'[j].started + Cooldown
    BY DEF CooldownSpacing
  <2>1. jobs'[j] = jobs[j] /\ jobs'[k] = jobs[k]
    OBVIOUS
  <2> QED
    BY <2>1 DEF TimeInv, CooldownSpacing
<1> QED
  BY <1>1, <1>2, <1>3, <1>4, <1>5 DEF TimeInv

(* A new job: its own certificate's running jobs and failures are those its
   caller knew of, and it starts now. *)
LEMMA TimeInserted ==
    ASSUME IInv, TimeInv, [Next]_vars, NEW w \in Callers, Inserted(w)
    PROVE  TimeInv'
<1> DEFINE n == Len(jobs) + 1
<1>0. /\ clock \in Nat /\ clock' = clock /\ op[w].cert # NoCert
      /\ op[w].pc = "create" /\ ~ UNCHANGED jobs
  BY RowTypes DEF Inserted, CreateJob
<1>r. /\ jobs'[n].status = "running" /\ jobs'[n].cert = op[w].cert
      /\ jobs'[n].begun = op[w].begun /\ jobs'[n].started = clock
  BY DEF Inserted, NewJob
<1>d. DOMAIN jobs' = DOMAIN jobs \cup {n} /\ \A j \in DOMAIN jobs : j < n /\ jobs'[j] = jobs[j]
  BY DEF Inserted
<1>b. op[w].begun \in Nat /\ op[w].begun <= clock
  BY RowTypes DEF TimeInv, ClocksPast
<1>o. \A v \in Callers : /\ op'[v].begun <= clock /\ op'[v].begun \in Nat
                         /\ op'[v].pc \in {"checkCooldown", "create"} => op'[v] = op[v]
  BY <1>0, RowTypes, OpsStep DEF TimeInv, ClocksPast, KnowsNoneRunning, KnowsNoneFailed
<1> HIDE DEF n
<1>1. ClocksPast'
  BY <1>0, <1>r, <1>d, <1>b, <1>o DEF TimeInv, ClocksPast
<1>2. CheckedRunning'
  BY <1>0, <1>r, <1>d, <1>o DEF TimeInv, CheckedRunning
<1>3. CheckedCooldown'
  BY <1>r, <1>d, <1>o DEF TimeInv, CheckedCooldown
<1>4. OverlapOnlyInWindow'
  <2> SUFFICES ASSUME NEW j \in DOMAIN jobs', NEW k \in DOMAIN jobs', j < k,
                      jobs'[j].status = "running", jobs'[k].status = "running",
                      jobs'[j].cert = jobs'[k].cert, jobs'[k].cert # NoCert
               PROVE  jobs'[j].started >= jobs'[k].begun
    BY DEF OverlapOnlyInWindow
  <2>1. j \in DOMAIN jobs
    BY <1>d, RowTypes DEF n
  <2>2. CASE k \in DOMAIN jobs
    BY <1>d, <2>1, <2>2 DEF TimeInv, OverlapOnlyInWindow
  <2>3. CASE k = n
    BY <1>0, <1>r, <1>d, <2>1, <2>3 DEF TimeInv, CheckedRunning
  <2> QED
    BY <1>d, <2>2, <2>3
<1>5. CooldownSpacing'
  <2> SUFFICES ASSUME NEW j \in DOMAIN jobs', NEW k \in DOMAIN jobs',
                      jobs'[j].status = "failed", jobs'[j].finished < jobs'[k].begun,
                      jobs'[k].status # "deleted",
                      jobs'[j].cert = jobs'[k].cert, jobs'[k].cert # NoCert
               PROVE  jobs'[k].started > jobs'[j].started + Cooldown
    BY DEF CooldownSpacing
  <2>1. j \in DOMAIN jobs
    BY <1>d, <1>r
  <2>2. CASE k \in DOMAIN jobs
    BY <1>d, <2>1, <2>2 DEF TimeInv, CooldownSpacing
  <2>3. CASE k = n
    <3>1. op[w].begun > jobs[j].started + Cooldown
      BY <1>0, <1>r, <1>d, <2>1, <2>3 DEF TimeInv, CheckedCooldown
    <3> QED
      BY <1>0, <1>r, <1>d, <1>b, <2>1, <2>3, <3>1, RowTypes
  <2> QED
    BY <1>d, <2>2, <2>3
<1> QED
  BY <1>1, <1>2, <1>3, <1>4, <1>5 DEF TimeInv

(* An outcome: a failure recorded now is later than every clock reading. *)
LEMMA TimeConcluded ==
    ASSUME IInv, TimeInv, [Next]_vars, NEW w \in Callers, NEW o \in Outcomes, Concluded(w, o)
    PROVE  TimeInv'
<1> DEFINE m == op[w].job
<1>0. /\ clock \in Nat /\ clock' = clock
      /\ m \in DOMAIN jobs /\ jobs[m].status = "running" /\ jobs[m] \in Job
  BY RowTypes DEF Concluded, IInv, JobOwnership
<1>r. /\ jobs'[m].status = o /\ jobs'[m].finished = clock /\ jobs'[m].cert = jobs[m].cert
      /\ jobs'[m].begun = jobs[m].begun /\ jobs'[m].started = jobs[m].started
  BY <1>0, ConcludedRow DEF Concluded
<1>d. DOMAIN jobs' = DOMAIN jobs /\ \A j \in DOMAIN jobs \ {m} : jobs'[j] = jobs[j]
  BY DEF Concluded
<1>u. ~ UNCHANGED jobs
  BY <1>0, <1>r DEF Outcomes
<1>o. \A v \in Callers : /\ op'[v].begun <= clock /\ op'[v].begun \in Nat
                         /\ op'[v].pc \in {"checkCooldown", "create"} => op'[v] = op[v]
  BY <1>0, <1>u, RowTypes, OpsStep DEF TimeInv, ClocksPast, KnowsNoneRunning, KnowsNoneFailed
<1> HIDE DEF m
<1>1. ClocksPast'
  BY <1>0, <1>r, <1>d, <1>o DEF TimeInv, ClocksPast
<1>2. CheckedRunning'
  BY <1>0, <1>r, <1>d, <1>o DEF TimeInv, CheckedRunning, Outcomes
<1>3. CheckedCooldown'
  BY <1>0, <1>r, <1>d, <1>o DEF TimeInv, CheckedCooldown
<1>4. OverlapOnlyInWindow'
  BY <1>0, <1>r, <1>d DEF TimeInv, OverlapOnlyInWindow, Outcomes
<1>5. CooldownSpacing'
  <2> SUFFICES ASSUME NEW j \in DOMAIN jobs, NEW k \in DOMAIN jobs,
                      jobs'[j].status = "failed", jobs'[j].finished < jobs'[k].begun,
                      jobs'[k].status # "deleted",
                      jobs'[j].cert = jobs'[k].cert, jobs'[k].cert # NoCert
               PROVE  jobs'[k].started > jobs'[j].started + Cooldown
    BY <1>d DEF CooldownSpacing
  <2>1. jobs'[k].begun <= clock /\ jobs'[k].begun \in Nat
    BY <1>0, <1>r, <1>d, RowTypes DEF TimeInv, ClocksPast
  <2>2. j # m
    BY <1>0, <1>r, <2>1
  <2>3. jobs[k].status # "deleted" /\ jobs'[k].cert = jobs[k].cert
        /\ jobs'[k].begun = jobs[k].begun /\ jobs'[k].started = jobs[k].started
    BY <1>0, <1>r, <1>d
  <2> QED
    BY <1>d, <2>2, <2>3 DEF TimeInv, CooldownSpacing
<1> QED
  BY <1>1, <1>2, <1>3, <1>4, <1>5 DEF TimeInv

LEMMA TimeStep == IInv /\ TimeInv /\ [Next]_vars => TimeInv'
<1> SUFFICES ASSUME IInv, TimeInv, [Next]_vars PROVE TimeInv'
  OBVIOUS
<1>1. CASE UNCHANGED jobs
  <2>1. SaysLess
    BY <1>1 DEF SaysLess
  <2> QED
    BY <2>1, KnowledgeKept
<1>2. ASSUME NEW c \in Certs, Detached(c) PROVE TimeInv'
  <2>1. \A j \in DOMAIN jobs :
           jobs'[j] = jobs[j] \/ (jobs'[j].cert = NoCert /\ jobs'[j].begun = jobs[j].begun)
    <3>1. \A j \in DOMAIN jobs : jobs'[j] = IF jobs[j].cert = c
                                          THEN [jobs[j] EXCEPT !.cert = NoCert] ELSE jobs[j]
      BY <1>2 DEF Detached
    <3>2. ASSUME NEW r \in Job
          PROVE  LET q == [r EXCEPT !.cert = NoCert] IN q.cert = NoCert /\ q.begun = r.begun
      BY DetachedRow
    <3>3. \A j \in DOMAIN jobs : jobs[j] \in Job
      BY RowTypes
    <3> QED
      BY <3>1, <3>2, <3>3
  <2> QED
    <3>1. SaysLess
      BY <1>2, <2>1 DEF Detached, SaysLess
    <3> QED
      BY <3>1, KnowledgeKept
<1>3. CASE Cleared
  <2>1. \A j \in DOMAIN jobs :
           jobs'[j] = jobs[j] \/ (jobs'[j].status = "deleted" /\ jobs'[j].begun = 0)
    <3>1. \A j \in DOMAIN jobs : jobs'[j] = IF jobs[j].status \in Outcomes
                                          THEN Gone(jobs[j]) ELSE jobs[j]
      BY <1>3 DEF Cleared
    <3>2. \A j \in DOMAIN jobs : jobs[j] \in Job
      BY RowTypes
    <3> QED
      BY <3>1, <3>2, ClearedRow
  <2> QED
    <3>1. SaysLess
      BY <1>3, <2>1 DEF Cleared, SaysLess
    <3> QED
      BY <3>1, KnowledgeKept
<1> QED
  BY <1>1, <1>2, <1>3, JobsStep, TimeInserted, TimeConcluded

LEMMA TimeInvariance == Spec => []TimeInv
  BY InitTime, TimeStep, Invariance, PTL DEF Spec

(* Two running jobs of one certificate: the older was inserted after the
   younger's operation had read the clock (acme.go:260), between its check
   and its insert. Nothing else lets a second one in: no failure, no
   clearing, no crash. *)
THEOREM OverlapsAreRaces == Spec => []OverlapOnlyInWindow
  BY TimeInvariance, PTL DEF TimeInv

(* acmeRetryCooldown (acme.go:18) is kept between a failure in the log and
   every operation that began after it. *)
THEOREM CooldownIsKept == Spec => []CooldownSpacing
  BY TimeInvariance, PTL DEF TimeInv

-----------------------------------------------------------------------------
(* Jobs left running *)

(* A step keeps the status of a running row, or concludes it, and its life;
   a row loses its certificate or keeps it. *)
LEMMA RunningRowStep ==
    ASSUME IInv, [Next]_vars, NEW j \in DOMAIN jobs'
    PROVE  \/ \E w \in Callers : Inserted(w) /\ j = Len(jobs) + 1
           \/ /\ j \in DOMAIN jobs
              /\ jobs'[j].status = "running" => jobs[j].status = "running"
              /\ jobs'[j].cert \in {jobs[j].cert, NoCert}
              /\ jobs'[j].life = jobs[j].life
<1>1. ASSUME NEW w \in Callers, Inserted(w), j # Len(jobs) + 1
      PROVE  j \in DOMAIN jobs /\ jobs'[j] = jobs[j]
  BY <1>1 DEF Inserted
<1>2. ASSUME NEW w \in Callers, NEW o \in Outcomes, Concluded(w, o)
      PROVE  /\ j \in DOMAIN jobs
             /\ jobs'[j].status = "running" => jobs[j].status = "running"
             /\ jobs'[j].cert = jobs[j].cert /\ jobs'[j].life = jobs[j].life
  <2>1. j \in DOMAIN jobs /\ jobs[j] \in Job
    BY <1>2, RowTypes DEF Concluded
  <2>2. CASE j = op[w].job
    <3>1. /\ jobs[j].status = "running"
          /\ jobs'[j] = [jobs[j] EXCEPT !.status = o, !.finished = clock]
      BY <1>2, <2>2 DEF Concluded, IInv, JobOwnership
    <3> QED
      BY <2>1, <3>1, ConcludedRow
  <2>3. CASE j # op[w].job
    BY <1>2, <2>1, <2>3 DEF Concluded
  <2> QED
    BY <2>1, <2>2, <2>3
<1>3. ASSUME NEW c \in Certs, Detached(c)
      PROVE  /\ j \in DOMAIN jobs
             /\ jobs'[j].status = jobs[j].status
             /\ jobs'[j].cert \in {jobs[j].cert, NoCert} /\ jobs'[j].life = jobs[j].life
  <2>1. j \in DOMAIN jobs /\ jobs[j] \in Job
    BY <1>3, RowTypes DEF Detached
  <2>2. jobs'[j] \in {jobs[j], [jobs[j] EXCEPT !.cert = NoCert]}
    BY <1>3, <2>1 DEF Detached
  <2> QED
    BY <2>1, <2>2, DetachedRow
<1>4. ASSUME Cleared
      PROVE  /\ j \in DOMAIN jobs
             /\ jobs'[j].status = "running" => jobs[j].status = "running"
             /\ jobs'[j].cert = jobs[j].cert /\ jobs'[j].life = jobs[j].life
  BY <1>4, RowTypes, ClearedRow DEF Cleared
<1> QED
  BY <1>1, <1>2, <1>3, <1>4, JobsStep

(* How an operation lets go of its job. *)
LetsGo(v) ==
    \/ Crash
    \/ MarkIssued(v) /\ ~ Live(op[v].cert)
    \/ CompleteSuccess(v) \/ LateDbError(v) \/ FailJob(v)

LEMMA OwnerStep ==
    ASSUME IInv, [Next]_vars, NEW v \in Callers, InFlight(v)
    PROVE  LetsGo(v) \/ (InFlight(v)' /\ op'[v].job = op[v].job)
<1> DEFINE Claim == LetsGo(v) \/ (InFlight(v)' /\ op'[v].job = op[v].job)
<1>t. op \in [Callers -> Op]
  BY DEF IInv, TypeOK
<1>k. op'[v] = op[v] => Claim
  BY DEF InFlight
<1>m. ASSUME NEW w \in Callers, NEW pc \in WithJob, Goto(w, pc) PROVE Claim
  <2>1. op'[w].job = op[w].job /\ op'[w].pc = pc
    BY <1>m, <1>t DEF Goto, Op
  <2>2. v # w => op'[v] = op[v]
    BY <1>m, <1>t DEF Goto
  <2> QED
    BY <1>k, <2>1, <2>2 DEF InFlight
<1>r. ASSUME NEW w \in Callers, Return(w), v # w PROVE Claim
  BY <1>r, <1>t, <1>k DEF Return
<1>1. ASSUME NEW w \in Callers, Step(w) PROVE Claim
  <2>1. CASE CheckRunning(w) \/ CheckCooldown(w) \/ CreateJob(w) \/ EarlyDbError(w)
    <3>1. v # w
      BY <2>1 DEF CheckRunning, CheckCooldown, CreateJob, EarlyDbError, At, InFlight,
         BeforeJob, WithJob
    <3>2. op'[v] = op[v]
      BY <2>1, <3>1, <1>t DEF CheckRunning, CheckCooldown, CreateJob, EarlyDbError,
         Goto, Return
    <3> QED
      BY <1>k, <3>2
  <2>2. CASE ReadExisting(w)
    <3>1. op'[w].job = op[w].job /\ op'[w].pc \in WithJob
      BY <2>2, <1>t DEF ReadExisting, Op, WithJob
    <3>2. v # w => op'[v] = op[v]
      BY <2>2, <1>t DEF ReadExisting
    <3> QED
      BY <1>k, <3>1, <3>2 DEF InFlight
  <2>3. CASE CallCA(w)
    <3>1. op'[w].job = op[w].job /\ op'[w].pc \in WithJob
      BY <2>3, <1>t DEF CallCA, Op, WithJob
    <3>2. v # w => op'[v] = op[v]
      BY <2>3, <1>t DEF CallCA
    <3> QED
      BY <1>k, <3>1, <3>2 DEF InFlight
  <2>4. CASE \/ OpenChain(w) \/ WriteChain(w) \/ OpenKey(w) \/ WriteKey(w)
             \/ OperationFails(w) \/ FailStatus(w)
    BY <2>4, <1>m DEF OpenChain, WriteChain, OpenKey, WriteKey, OperationFails,
       FailStatus, WithJob
  <2>5. CASE MarkIssued(w) \/ CompleteSuccess(w) \/ LateDbError(w) \/ FailJob(w)
    BY <2>5, <1>m, <1>r DEF MarkIssued, CompleteSuccess, LateDbError, FailJob, LetsGo,
       WithJob
  <2> QED
    BY <1>1, <2>1, <2>2, <2>3, <2>4, <2>5 DEF Step
<1>2. ASSUME NEW w \in Callers, NEW c \in Certs, NEW kind \in Kinds, Begin(w, c, kind)
      PROVE  Claim
  <2>1. v # w
    BY <1>2 DEF Begin, InFlight, WithJob
  <2>2. op'[v] = op[v]
    BY <1>2, <2>1, <1>t DEF Begin
  <2> QED
    BY <1>k, <2>2
<1>3. CASE Crash
  BY <1>3 DEF LetsGo
<1>4. ASSUME op' = op PROVE Claim
  BY <1>4, <1>k
<1> HIDE DEF Claim
<1>5. Claim
  <2>1. CASE \E w \in Web, c \in Certs, kind \in Kinds : BeginWeb(w, c, kind)
    BY <2>1, <1>2 DEF BeginWeb, Callers
  <2>2. CASE \E w \in Scheduler, c \in Certs : BeginScheduled(w, c)
    BY <2>2, <1>2 DEF BeginScheduled, Callers, Kinds
  <2>3. CASE \E c \in Certs : CreateCertificate(c) \/ DeleteCertificate(c)
    BY <2>3, <1>4 DEF CreateCertificate, DeleteCertificate
  <2>4. CASE ClearCompleted \/ Tick \/ Close \/ Closed \/ Restart
    BY <2>4, <1>4 DEF ClearCompleted, Tick, Close, Closed, Restart
  <2>5. CASE vars' = vars
    BY <2>5, <1>4 DEF vars
  <2>6. CASE Crash
    BY <2>6, <1>3 DEF Claim
  <2> QED
    BY <1>1, <2>1, <2>2, <2>3, <2>4, <2>5, <2>6 DEF Next
<1> QED
  BY <1>5 DEF Claim

(* A certificate stays until it is deleted. *)
LEMMA LiveStep ==
    ASSUME IInv, [Next]_vars, NEW c \in Certs, Live(c)
    PROVE  Live(c)' \/ DeleteCertificate(c)
<1>t. rows \in [Certs -> Row]
  BY DEF IInv, TypeOK
<1>k. UNCHANGED rows => Live(c)'
  BY DEF Live
<1>1. ASSUME NEW w \in Callers, Step(w) PROVE Live(c)'
  <2>1. CASE MarkIssued(w)
    BY <2>1, <1>t, <1>k DEF MarkIssued, IssuedRow, Live
  <2>2. CASE FailStatus(w)
    BY <2>2, <1>t, <1>k DEF FailStatus, FailedRow, Live, Row
  <2> QED
    BY <1>1, <1>k, <2>1, <2>2 DEF Step, CheckRunning, CheckCooldown, CreateJob,
       EarlyDbError, ReadExisting, CallCA, OpenChain, WriteChain, OpenKey, WriteKey,
       OperationFails, CompleteSuccess, LateDbError, FailJob
<1>2. ASSUME NEW d \in Certs, CreateCertificate(d) PROVE Live(c)'
  BY <1>2, <1>t DEF CreateCertificate, Live, Row
<1>3. ASSUME NEW d \in Certs, DeleteCertificate(d), d # c PROVE Live(c)'
  BY <1>3, <1>t DEF DeleteCertificate, Live
<1> QED
  BY <1>1, <1>2, <1>3, <1>k DEF Next, ClearCompleted, Tick, BeginWeb, BeginScheduled,
     Begin, Close, Closed, Crash, Restart, vars

(* The process goes down before it comes up again, as another life. *)
LEMMA ProcessStep ==
    ASSUME IInv, [Next]_vars
    PROVE  /\ life \in Nat
           /\ \/ Restart /\ life' = life + 1
              \/ life' = life /\ (proc \in {"closing", "down"} => proc' \in {"closing", "down"})
<1>1. ASSUME NEW w \in Callers, Step(w) PROVE UNCHANGED <<life, proc>>
  BY <1>1 DEF Step, CheckRunning, CheckCooldown, CreateJob, EarlyDbError, ReadExisting,
     CallCA, OpenChain, WriteChain, OpenKey, WriteKey, OperationFails, MarkIssued,
     CompleteSuccess, LateDbError, FailStatus, FailJob
<1>2. life \in Nat
  BY DEF IInv, TypeOK
<1> QED
  BY <1>1, <1>2 DEF Next, CreateCertificate, DeleteCertificate, ClearCompleted, Tick,
     BeginWeb, BeginScheduled, Begin, Close, Closed, Crash, Restart, vars

(* The strengthening: a job that still has a certificate has one that is
   there, so that MarkIssued finds no row only when its job has lost it. *)
LiveReferences ==
    \A j \in DOMAIN jobs :
        jobs[j].cert # NoCert => jobs[j].cert \in Certs /\ Live(jobs[j].cert)

LivesPast == \A j \in DOMAIN jobs : jobs[j].life \in Nat /\ jobs[j].life <= life

CauseInv == LiveReferences /\ LivesPast /\ OrphanCause

LEMMA InitCause == Init => CauseInv
<1> SUFFICES ASSUME Init PROVE CauseInv
  OBVIOUS
<1>1. DOMAIN jobs = {}
  BY DEF Init
<1> QED
  BY <1>1 DEF CauseInv, LiveReferences, LivesPast, OrphanCause

LEMMA CauseStep == IInv /\ CauseInv /\ [Next]_vars => CauseInv'
<1> SUFFICES ASSUME IInv, CauseInv, [Next]_vars PROVE CauseInv'
  OBVIOUS
<1>n. ASSUME NEW w \in Callers, Inserted(w)
      PROVE  /\ jobs'[Len(jobs) + 1].cert = op[w].cert /\ op[w].cert \in Certs
             /\ jobs'[Len(jobs) + 1].life = life
             /\ Live(op[w].cert) /\ rows' = rows /\ life' = life /\ life \in Nat
             /\ InFlight(w)' /\ op'[w].job = Len(jobs) + 1
  BY <1>n, RowTypes DEF Inserted, NewJob, CreateJob, IInv, TypeOK
<1>1. LiveReferences'
  <2> SUFFICES ASSUME NEW j \in DOMAIN jobs', jobs'[j].cert # NoCert
               PROVE  jobs'[j].cert \in Certs /\ Live(jobs[j].cert)'
    BY DEF LiveReferences, Live
  <2>1. CASE \E w \in Callers : Inserted(w) /\ j = Len(jobs) + 1
    BY <2>1, <1>n DEF Live
  <2>2. CASE j \in DOMAIN jobs /\ jobs'[j].cert = jobs[j].cert
    <3>1. jobs[j].cert \in Certs /\ Live(jobs[j].cert)
      BY <2>2 DEF CauseInv, LiveReferences
    <3>2. ASSUME DeleteCertificate(jobs[j].cert) PROVE FALSE
      <4>1. jobs'[j] = [jobs[j] EXCEPT !.cert = NoCert] /\ jobs[j] \in Job
        BY <2>2, <3>2, RowTypes DEF DeleteCertificate
      <4>2. jobs'[j].cert = NoCert
        BY <4>1, DetachedRow
      <4> QED
        BY <2>2, <3>1, <4>2, NoCertAssumption
    <3> QED
      BY <2>2, <3>1, <3>2, LiveStep DEF Live
  <2> QED
    BY <2>1, <2>2, RunningRowStep
<1>2. LivesPast'
  BY <1>n, RunningRowStep, ProcessStep DEF CauseInv, LivesPast
<1>3. OrphanCause'
  <2> SUFFICES ASSUME NEW j \in DOMAIN jobs', jobs'[j].status = "running", ~ Owned(j)',
                      jobs'[j].cert # NoCert, ~ DbFaults
               PROVE  jobs'[j].life < life' \/ proc' \in {"closing", "down"}
    BY DEF OrphanCause
  <2>1. CASE \E w \in Callers : Inserted(w) /\ j = Len(jobs) + 1
    BY <2>1, <1>n DEF Owned
  <2>2. CASE /\ j \in DOMAIN jobs /\ jobs[j].status = "running"
             /\ jobs'[j].cert = jobs[j].cert /\ jobs'[j].life = jobs[j].life
    <3>1. CASE ~ Owned(j)
      <4>1. jobs[j].life < life \/ proc \in {"closing", "down"}
        BY <2>2, <3>1 DEF CauseInv, OrphanCause
      <4> QED
        BY <2>2, <4>1, ProcessStep DEF CauseInv, LivesPast
    <3>2. CASE Owned(j)
      <4>1. PICK v \in Callers : InFlight(v) /\ op[v].job = j
        BY <3>2 DEF Owned
      <4>2. LetsGo(v)
        BY <4>1, OwnerStep DEF Owned
      <4>3. CASE Crash
        BY <4>3 DEF Crash
      <4>4. CASE MarkIssued(v) /\ ~ Live(op[v].cert)
        <5>1. jobs[j].cert \in {op[v].cert, NoCert}
          BY <4>1 DEF IInv, JobOwnership
        <5> QED
          BY <2>2, <4>4, <5>1 DEF CauseInv, LiveReferences
      <4>5. ASSUME NEW o \in Outcomes, jobs' = JobCompleted(j, o) PROVE FALSE
        <5>1. jobs \in Seq(Job) /\ clock \in Nat /\ jobs[j] \in Job
          BY <2>2, RowTypes DEF IInv, TypeOK
        <5>2. jobs'[j] = [jobs[j] EXCEPT !.status = o, !.finished = clock]
          BY <2>2, <4>5, <5>1, JobCompletedType
        <5>3. jobs'[j].status = o
          BY <5>1, <5>2, ConcludedRow
        <5> QED
          BY <5>3 DEF Outcomes
      <4>6. CASE CompleteSuccess(v)
        BY <4>1, <4>5, <4>6 DEF CompleteSuccess, Outcomes
      <4>7. CASE LateDbError(v) \/ FailJob(v)
        BY <4>1, <4>5, <4>7 DEF LateDbError, FailJob, Outcomes, MayFail, Cancelled
      <4> QED
        BY <4>2, <4>3, <4>4, <4>6, <4>7 DEF LetsGo
    <3> QED
      BY <3>1, <3>2
  <2> QED
    BY <2>1, <2>2, RunningRowStep
<1> QED
  BY <1>1, <1>2, <1>3 DEF CauseInv

(* What leaves a job running with nobody working on it, when SQLite does not
   fail by itself: a deletion under the operation (acme.go:140 and 223), an
   earlier run of the process, or the cancelled scheduler. Nothing else. *)
THEOREM OrphansHaveACause == Spec => []OrphanCause
<1>1. Spec => []CauseInv
  BY InitCause, CauseStep, Invariance, PTL DEF Spec
<1> QED
  BY <1>1, PTL DEF CauseInv

-----------------------------------------------------------------------------
(* Keys and files *)

(* The operation of w goes on; those of the others stay. *)
Moves(w, pc, j, k) ==
    /\ op'[w].pc = pc /\ op'[w].job = j /\ op'[w].key = k
    /\ op'[w].cert = op[w].cert /\ op'[w].kind = op[w].kind
    /\ \A v \in Callers \ {w} : op'[v] = op[v]

Returns(w) == op'[w] = Idle /\ \A v \in Callers \ {w} : op'[v] = op[v]

LEMMA GotoMoves ==
    ASSUME IInv, NEW w \in Callers, NEW pc, Goto(w, pc)
    PROVE  Moves(w, pc, op[w].job, op[w].key)
<1>1. op \in [Callers -> Op]
  BY DEF IInv, TypeOK
<1> QED
  BY <1>1 DEF Goto, Moves, Op

LEMMA ReturnMoves ==
    ASSUME IInv, NEW w \in Callers, Return(w)
    PROVE  Returns(w)
  BY DEF IInv, TypeOK, Return, Returns

LEMMA CreateMoves ==
    ASSUME IInv, NEW w \in Callers, Inserted(w)
    PROVE  Moves(w, IF op[w].kind = "renew" THEN "read" ELSE "ca", Len(jobs) + 1, op[w].key)
<1>1. op \in [Callers -> Op]
  BY DEF IInv, TypeOK
<1>2. op' = [op EXCEPT ![w].job = Len(jobs) + 1,
                       ![w].pc = IF op[w].kind = "renew" THEN "read" ELSE "ca"]
  BY DEF Inserted, CreateJob
<1> QED
  BY <1>1, <1>2 DEF Moves, Op

LEMMA ReadMoves ==
    ASSUME IInv, NEW w \in Callers, ReadExisting(w)
    PROVE  \/ Moves(w, "failStatus", op[w].job, op[w].key)
           \/ Moves(w, "ca", op[w].job, key[op[w].cert]) /\ key[op[w].cert] # NoFile
<1>1. op \in [Callers -> Op]
  BY DEF IInv, TypeOK
<1>2. CASE op' = [op EXCEPT ![w].pc = "failStatus"]
  BY <1>1, <1>2 DEF Moves, Op
<1>3. CASE /\ op' = [op EXCEPT ![w].pc = "ca", ![w].key = key[op[w].cert]]
           /\ key[op[w].cert] # NoFile
  BY <1>1, <1>3 DEF Moves, Op
<1> QED
  BY <1>2, <1>3 DEF ReadExisting

LEMMA CAMoves ==
    ASSUME IInv, NEW w \in Callers, CallCA(w)
    PROVE  Moves(w, "openChain", op[w].job, KeyObtained(w))
<1>1. op \in [Callers -> Op]
  BY DEF IInv, TypeOK
<1> QED
  BY <1>1 DEF CallCA, Moves, Op

(* A step that is not of an operation with a job: the operations that have one
   stay, or all come to an end. *)
LEMMA OthersStay ==
    ASSUME IInv, [Next]_vars, ~ \E w \in Callers : Step(w)
    PROVE  /\ \A v \in Callers : \/ op'[v] = op[v]
                                 \/ op'[v] = Idle
                                 \/ \E c \in Certs, kind \in Kinds : Begin(v, c, kind)
           /\ UNCHANGED <<chain, key, raced>>
<1>1. op \in [Callers -> Op]
  BY DEF IInv, TypeOK
<1>2. ASSUME NEW w \in Callers, NEW c \in Certs, NEW kind \in Kinds, Begin(w, c, kind)
      PROVE  \A v \in Callers : op'[v] = op[v] \/ Begin(v, c, kind)
  BY <1>1, <1>2 DEF Begin
<1>3. ASSUME Crash PROVE \A v \in Callers : op'[v] = Idle
  BY <1>3 DEF Crash
<1>4. UNCHANGED <<chain, key, raced>>
  BY DEF Next, CreateCertificate, DeleteCertificate, ClearCompleted, Tick, BeginWeb,
     BeginScheduled, Begin, Close, Closed, Crash, Restart, vars
<1>5. CASE \E w \in Callers, c \in Certs, kind \in Kinds : Begin(w, c, kind)
  BY <1>2, <1>4, <1>5
<1>6. CASE op' = op
  BY <1>4, <1>6
<1>7. CASE Crash
  BY <1>3, <1>4, <1>7
<1> QED
  BY <1>5, <1>6, <1>7 DEF Next, CreateCertificate, DeleteCertificate, ClearCompleted, Tick,
     BeginWeb, BeginScheduled, Close, Closed, Restart, vars, Callers, Kinds

-----------------------------------------------------------------------------
(* Every key comes from an issue. *)

OfIssue(k) == k # NoFile => k \in DOMAIN jobs /\ jobs[k].type = "issue"

KeysMade ==
    /\ \A c \in Certs : OfIssue(key[c]) /\ OfIssue(chain[c].key)
    /\ \A w \in Callers : OfIssue(op[w].key)
    /\ \A w \in Callers : InFlight(w) => jobs[op[w].job].type = op[w].kind

LEMMA JobTypesStay ==
    ASSUME IInv, [Next]_vars, NEW j \in DOMAIN jobs
    PROVE  j \in DOMAIN jobs' /\ jobs'[j].type = jobs[j].type
<1>1. jobs[j] \in Job
  BY RowTypes
<1>2. ASSUME NEW w \in Callers, Inserted(w)
      PROVE  j \in DOMAIN jobs' /\ jobs'[j].type = jobs[j].type
  BY <1>2 DEF Inserted
<1>3. ASSUME NEW w \in Callers, NEW o \in Outcomes, Concluded(w, o)
      PROVE  j \in DOMAIN jobs' /\ jobs'[j].type = jobs[j].type
  <2>1. [jobs[j] EXCEPT !.status = o, !.finished = clock].type = jobs[j].type
    BY <1>1 DEF Job
  <2> QED
    BY <1>3, <2>1 DEF Concluded
<1>4. ASSUME NEW c \in Certs, Detached(c)
      PROVE  j \in DOMAIN jobs' /\ jobs'[j].type = jobs[j].type
  BY <1>1, <1>4 DEF Detached, Job
<1>5. ASSUME Cleared
      PROVE  j \in DOMAIN jobs' /\ jobs'[j].type = jobs[j].type
  BY <1>1, <1>5 DEF Cleared, Gone, Job
<1> QED
  BY <1>2, <1>3, <1>4, <1>5, JobsStep

LEMMA OfIssueStays ==
    ASSUME IInv, [Next]_vars, NEW k, OfIssue(k)
    PROVE  k # NoFile => k \in DOMAIN jobs' /\ jobs'[k].type = "issue"
  BY JobTypesStay DEF OfIssue

LEMMA KeysMadeStep ==
    ASSUME IInv, KeysMade, [Next]_vars
    PROVE  KeysMade'
<1> DEFINE Made(k) == k # NoFile => k \in DOMAIN jobs' /\ jobs'[k].type = "issue"
<1> DEFINE Claim == /\ \A c \in Certs : Made(key'[c]) /\ Made(chain'[c].key)
                    /\ \A w \in Callers : Made(op'[w].key)
                    /\ \A w \in Callers : InFlight(w)' => jobs'[op'[w].job].type = op'[w].kind
<1>a. \A k : OfIssue(k) => Made(k)
  BY OfIssueStays
<1>b. Made(NoFile)
  OBVIOUS
<1>c. \A v \in Callers : Made(op[v].key) /\ (InFlight(v) => jobs'[op[v].job].type = op[v].kind)
  BY <1>a, JobTypesStay DEF KeysMade, IInv, JobOwnership
<1>d. \A c \in Certs : Made(key[c]) /\ Made(chain[c].key)
  BY <1>a DEF KeysMade
<1>i. Idle.pc = "idle" /\ Idle.key = NoFile /\ "idle" \notin WithJob
  BY DEF Idle, WithJob
<1>t. chain \in [Certs -> Chain] /\ key \in [Certs -> Nat]
  BY DEF IInv, TypeOK
<1>e. \A v \in Callers : InFlight(v) => op[v].cert \in Certs
  BY RowTypes DEF InFlight, WithJob
<1> HIDE DEF Made
(* what is left to say of an operation that returns, or goes on *)
<1>r. ASSUME NEW w \in Callers, Returns(w), UNCHANGED <<chain, key>> PROVE Claim
  BY <1>b, <1>c, <1>d, <1>i, <1>r DEF Returns, InFlight
<1>m. ASSUME NEW w \in Callers, NEW pc, NEW k, Moves(w, pc, op[w].job, k), Made(k),
             InFlight(w) \/ pc \notin WithJob,
             \A c \in Certs : Made(key'[c]) /\ Made(chain'[c].key)
      PROVE  Claim
  BY <1>c, <1>m DEF Moves, InFlight
<1>1. ASSUME NEW w \in Callers, Step(w) PROVE Claim
  <2>1. CASE CheckRunning(w) \/ CheckCooldown(w)
    <3>1. "checkCooldown" \notin WithJob /\ "create" \notin WithJob
      BY DEF WithJob
    <3>2. \/ Returns(w) \/ Moves(w, "checkCooldown", op[w].job, op[w].key)
          \/ Moves(w, "create", op[w].job, op[w].key)
      BY <2>1, GotoMoves, ReturnMoves DEF CheckRunning, CheckCooldown
    <3>3. UNCHANGED <<chain, key>>
      BY <2>1 DEF CheckRunning, CheckCooldown
    <3> QED
      BY <1>c, <1>d, <1>m, <1>r, <3>1, <3>2, <3>3
  <2>2. CASE CreateJob(w)
    <3>1. UNCHANGED <<chain, key>>
      BY <2>2 DEF CreateJob
    <3>2. CASE ~ Live(op[w].cert)
      BY <2>2, <3>1, <3>2, <1>r, ReturnMoves DEF CreateJob
    <3>3. CASE Inserted(w)
      <4>1. jobs'[Len(jobs) + 1].type = op[w].kind
        BY <3>3 DEF Inserted, NewJob
      <4>2. /\ op'[w].job = Len(jobs) + 1 /\ op'[w].key = op[w].key /\ op'[w].kind = op[w].kind
            /\ \A v \in Callers \ {w} : op'[v] = op[v]
        BY <3>3, CreateMoves DEF Moves
      <4> QED
        BY <1>c, <1>d, <3>1, <4>1, <4>2 DEF InFlight
    <3> QED
      BY <2>2, <3>2, <3>3, CreateInserts
  <2>3. CASE EarlyDbError(w) \/ CompleteSuccess(w) \/ LateDbError(w) \/ FailJob(w)
    BY <2>3, <1>r, ReturnMoves DEF EarlyDbError, CompleteSuccess, LateDbError, FailJob
  <2>4. CASE ReadExisting(w)
    <3>1. InFlight(w) /\ UNCHANGED <<chain, key>>
      BY <2>4 DEF ReadExisting, At, InFlight, WithJob
    <3> QED
      BY <1>c, <1>d, <1>e, <1>m, <2>4, <3>1, ReadMoves
  <2>5. CASE CallCA(w)
    <3>1. InFlight(w) /\ UNCHANGED <<chain, key>>
      BY <2>5 DEF CallCA, At, InFlight, WithJob
    <3>2. Made(KeyObtained(w))
      <4>1. op[w].kind = "issue" => OfIssue(op[w].job)
        BY <3>1 DEF KeysMade, OfIssue, IInv, JobOwnership
      <4> QED
        BY <1>a, <1>c, <4>1 DEF KeyObtained
    <3> QED
      BY <1>d, <1>m, <2>5, <3>1, <3>2, CAMoves
  <2>6. CASE OpenChain(w) \/ WriteChain(w) \/ OpenKey(w) \/ WriteKey(w)
    <3>1. InFlight(w)
      BY <2>6 DEF OpenChain, WriteChain, OpenKey, WriteKey, At, InFlight, WithJob
    <3>2. \E pc : Moves(w, pc, op[w].job, op[w].key)
      BY <2>6, GotoMoves DEF OpenChain, WriteChain, OpenKey, WriteKey
    <3>3. \A c \in Certs : /\ key'[c] \in {key[c], NoFile, op[w].key}
                           /\ chain'[c].key \in {chain[c].key, NoFile, op[w].key}
      BY <1>t, <2>6 DEF OpenChain, WriteChain, OpenKey, WriteKey, NoPEM
    <3>4. \A c \in Certs : Made(key'[c]) /\ Made(chain'[c].key)
      BY <1>b, <1>c, <1>d, <3>3
    <3> QED
      BY <1>c, <1>m, <3>1, <3>2, <3>4
  <2>7. CASE OperationFails(w) \/ FailStatus(w) \/ MarkIssued(w)
    <3>1. InFlight(w) /\ UNCHANGED <<chain, key>>
      BY <2>7 DEF OperationFails, FailStatus, MarkIssued, At, InFlight, WithJob
    <3>2. Returns(w) \/ \E pc : Moves(w, pc, op[w].job, op[w].key)
      BY <2>7, GotoMoves, ReturnMoves DEF OperationFails, FailStatus, MarkIssued
    <3> QED
      BY <1>c, <1>d, <1>m, <1>r, <3>1, <3>2
  <2> QED
    BY <1>1, <2>1, <2>2, <2>3, <2>4, <2>5, <2>6, <2>7 DEF Step
<1>2. ASSUME ~ \E w \in Callers : Step(w) PROVE Claim
  <2>1. UNCHANGED <<chain, key>>
    BY <1>2, OthersStay
  <2>2. ASSUME NEW v \in Callers
        PROVE  Made(op'[v].key) /\ (InFlight(v)' => jobs'[op'[v].job].type = op'[v].kind)
    <3>1. CASE op'[v] = op[v]
      BY <1>c, <3>1 DEF InFlight
    <3>2. CASE op'[v] = Idle
      BY <1>b, <1>i, <3>2 DEF InFlight
    <3>3. ASSUME NEW c \in Certs, NEW kind \in Kinds, Begin(v, c, kind)
          PROVE  op'[v].pc = "checkRunning" /\ op'[v].key = NoFile
      BY <3>3 DEF Begin, IInv, TypeOK
    <3> QED
      BY <1>2, <1>b, <3>1, <3>2, <3>3, OthersStay DEF InFlight, WithJob
  <2> QED
    BY <1>d, <2>1, <2>2
<1> HIDE DEF Claim
<1>3. Claim
  BY <1>1, <1>2
<1> QED
  BY <1>3 DEF Claim, Made, KeysMade, OfIssue

LEMMA InitKeys == Init => KeysMade
<1> SUFFICES ASSUME Init PROVE KeysMade
  OBVIOUS
<1> QED
  BY DEF Init, KeysMade, OfIssue, NoPEM, Idle, InFlight, WithJob

(* A renewal puts back a key that an issue has made, whatever it races with: the
   client is given the key that was read (acme.go 198-211, lego_client.go 175). *)
THEOREM KeysAreOfIssues == Spec => []RenewKeepsKey
<1>1. Spec => []KeysMade
  BY InitKeys, KeysMadeStep, Invariance, PTL DEF Spec
<1>2. KeysMade => RenewKeepsKey
  BY DEF KeysMade, OfIssue, RenewKeepsKey
<1> QED
  BY <1>1, <1>2, PTL

-----------------------------------------------------------------------------
(* The files and the row of a certificate no two operations have worked on   *)
(* at once, as long as SQLite does not fail by itself.                        *)

OnFile == {"openChain", "writeChain", "openKey", "writeKey", "mark", "complete"}

HoldsKey ==
    \A w \in Callers :
        /\ op[w].pc \in OnFile => op[w].key # NoFile
        /\ op[w].pc = "ca" /\ op[w].kind = "renew" => op[w].key # NoFile

Known == \A w \in Callers : op[w].pc # "idle" => rows[op[w].cert].status # "none"

On(w, c) == InFlight(w) /\ op[w].cert = c

Last(k, c) == \A j \in DOMAIN jobs : jobs[j].cert = c => j <= k

Alone(c) == \A v, w \in Callers : On(v, c) /\ On(w, c) => v = w

OwnsLast(c) ==
    \A w \in Callers : On(w, c) => jobs[op[w].job].cert = c /\ Last(op[w].job, c)

(* What the operation w on c has done by now. *)
DoneSoFar(w, c) ==
    /\ op[w].pc \in {"openKey", "writeKey", "mark", "complete"} =>
          chain[c] = [serial |-> op[w].job, key |-> op[w].key]
    /\ op[w].pc \in {"mark", "complete"} => key[c] = op[w].key
    /\ op[w].pc = "complete" => rows[c] = [status |-> "active", expires |-> op[w].job]
    /\ op[w].pc = "failJob" => rows[c].status = "failed" \/ Cancelled(w)

Phase(c) == \A w \in Callers : On(w, c) => DoneSoFar(w, c)

Whole(c) ==
    rows[c].status = "active" =>
        /\ chain[c].serial = rows[c].expires
        /\ chain[c].key = key[c]
        /\ chain[c] # NoPEM /\ key[c] # NoFile

Agrees(c) ==
    \A k \in DOMAIN jobs : jobs[k].cert = c /\ Last(k, c) =>
        /\ jobs[k].status = "success" => rows[c] = [status |-> "active", expires |-> k]
        /\ jobs[k].status = "failed" => rows[c].status = "failed"

Settled(c) == ~ HasRunningCertificateJob(c) => Whole(c) /\ Agrees(c)

Good(c) == Alone(c) /\ OwnsLast(c) /\ Phase(c) /\ Settled(c)

FilesInv == HoldsKey /\ Known /\ \A c \in Certs \ raced : Live(c) => Good(c)

LEMMA HoldsKeyStep ==
    ASSUME IInv, HoldsKey, [Next]_vars
    PROVE  HoldsKey'
<1> DEFINE Holds(o) == /\ o.pc \in OnFile => o.key # NoFile
                       /\ o.pc = "ca" /\ o.kind = "renew" => o.key # NoFile
<1>h. \A w \in Callers : Holds(op[w])
  BY DEF HoldsKey
<1>i. Holds(Idle)
  BY DEF Idle, OnFile
<1>r. ASSUME NEW w \in Callers, Returns(w) PROVE \A v \in Callers : Holds(op'[v])
  BY <1>h, <1>i, <1>r DEF Returns
<1>m. ASSUME NEW w \in Callers, NEW pc, NEW j, NEW k, Moves(w, pc, j, k),
             pc \in OnFile => k # NoFile,
             pc = "ca" /\ op[w].kind = "renew" => k # NoFile
      PROVE  \A v \in Callers : Holds(op'[v])
  BY <1>h, <1>m DEF Moves
<1>1. ASSUME NEW w \in Callers, Step(w) PROVE \A v \in Callers : Holds(op'[v])
  <2>1. CASE CheckRunning(w) \/ CheckCooldown(w) \/ FailStatus(w) \/ OperationFails(w)
    <3>1. \/ Returns(w)
          \/ \E pc \in {"checkCooldown", "create", "failJob", "failStatus"} :
                Moves(w, pc, op[w].job, op[w].key)
      BY <2>1, GotoMoves, ReturnMoves DEF CheckRunning, CheckCooldown, FailStatus,
         OperationFails
    <3> QED
      BY <1>m, <1>r, <3>1 DEF OnFile
  <2>2. CASE CreateJob(w)
    <3>1. CASE Live(op[w].cert)
      <4>1. Moves(w, IF op[w].kind = "renew" THEN "read" ELSE "ca", Len(jobs) + 1, op[w].key)
        BY <2>2, <3>1, CreateInserts, CreateMoves
      <4>2. CASE op[w].kind = "renew"
        BY <1>m, <4>1, <4>2 DEF OnFile
      <4>3. CASE op[w].kind # "renew"
        BY <1>m, <4>1, <4>3 DEF OnFile
      <4> QED
        BY <4>2, <4>3
    <3> QED
      BY <1>r, <2>2, <3>1, ReturnMoves DEF CreateJob
  <2>3. CASE EarlyDbError(w) \/ CompleteSuccess(w) \/ LateDbError(w) \/ FailJob(w)
    BY <2>3, <1>r, ReturnMoves DEF EarlyDbError, CompleteSuccess, LateDbError, FailJob
  <2>4. CASE ReadExisting(w)
    BY <1>m, <2>4, ReadMoves DEF OnFile
  <2>5. CASE CallCA(w)
    <3>1. op[w].job # NoFile
      BY <2>5, RowTypes, JobsAreJobs DEF CallCA, At, InFlight, WithJob, IInv, JobOwnership, NoFile, TypeOK
    <3>2. op[w].kind # "issue" => op[w].kind = "renew"
      BY RowTypes DEF Op, Kinds
    <3>3. KeyObtained(w) # NoFile
      BY <1>h, <2>5, <3>1, <3>2 DEF KeyObtained, CallCA, At
    <3> QED
      BY <1>m, <2>5, <3>3, CAMoves
  <2>6. CASE OpenChain(w) \/ WriteChain(w) \/ OpenKey(w) \/ WriteKey(w) \/ MarkIssued(w)
    <3>1. op[w].pc \in OnFile
      BY <2>6 DEF OpenChain, WriteChain, OpenKey, WriteKey, MarkIssued, At, OnFile
    <3>2. Returns(w) \/ \E pc : Moves(w, pc, op[w].job, op[w].key)
      BY <2>6, GotoMoves, ReturnMoves DEF OpenChain, WriteChain, OpenKey, WriteKey, MarkIssued
    <3> QED
      BY <1>h, <1>m, <1>r, <3>1, <3>2
  <2> QED
    BY <1>1, <2>1, <2>2, <2>3, <2>4, <2>5, <2>6 DEF Step
<1>2. ASSUME ~ \E w \in Callers : Step(w) PROVE \A v \in Callers : Holds(op'[v])
  <2>1. ASSUME NEW v \in Callers, NEW c \in Certs, NEW kind \in Kinds, Begin(v, c, kind)
        PROVE  op'[v].pc = "checkRunning"
    BY <2>1 DEF Begin, IInv, TypeOK
  <2> QED
    BY <1>2, <1>h, <1>i, <2>1, OthersStay DEF OnFile
<1> QED
  BY <1>1, <1>2 DEF HoldsKey

MovesOn(w) == op'[w].cert = op[w].cert /\ \A v \in Callers \ {w} : op'[v] = op[v]

LEMMA StepMoves ==
    ASSUME IInv, [Next]_vars, NEW w \in Callers, Step(w)
    PROVE  op[w].pc # "idle" /\ (Returns(w) \/ MovesOn(w))
<1>1. op[w].pc # "idle"
  BY DEF Step, CheckRunning, CheckCooldown, CreateJob, EarlyDbError, ReadExisting, CallCA,
     OpenChain, WriteChain, OpenKey, WriteKey, OperationFails, MarkIssued, CompleteSuccess,
     LateDbError, FailStatus, FailJob, At, BeforeJob
<1>2. ASSUME NEW pc, NEW j, NEW k, Moves(w, pc, j, k) PROVE MovesOn(w)
  BY <1>2 DEF Moves, MovesOn
<1>3. CASE CreateJob(w)
  BY <1>1, <1>2, <1>3, CreateInserts, CreateMoves, ReturnMoves DEF CreateJob
<1> QED
  BY <1>1, <1>2, <1>3, GotoMoves, ReadMoves, CAMoves, ReturnMoves DEF Step, CheckRunning,
     CheckCooldown, EarlyDbError, OpenChain, WriteChain, OpenKey, WriteKey, OperationFails,
     MarkIssued, CompleteSuccess, LateDbError, FailStatus, FailJob

LEMMA DeletedStays ==
    ASSUME IInv, [Next]_vars, NEW c \in Certs, rows[c].status = "deleted"
    PROVE  rows'[c].status = "deleted"
<1>t. rows \in [Certs -> Row]
  BY DEF IInv, TypeOK
<1>1. ASSUME NEW w \in Callers, Step(w) PROVE rows'[c].status = "deleted"
  <2>1. CASE MarkIssued(w)
    BY <2>1, <1>t DEF MarkIssued, Live
  <2>2. CASE FailStatus(w)
    BY <2>2, <1>t DEF FailStatus, Live
  <2> QED
    BY <1>1, <2>1, <2>2 DEF Step, CheckRunning, CheckCooldown, CreateJob, EarlyDbError,
       ReadExisting, CallCA, OpenChain, WriteChain, OpenKey, WriteKey, OperationFails,
       CompleteSuccess, LateDbError, FailJob
<1>2. ASSUME NEW d \in Certs, CreateCertificate(d) \/ DeleteCertificate(d)
      PROVE  rows'[c].status = "deleted"
  BY <1>2, <1>t DEF CreateCertificate, DeleteCertificate, Live
<1> QED
  BY <1>1, <1>2 DEF Next, ClearCompleted, Tick, BeginWeb, BeginScheduled, Begin, Close,
     Closed, Crash, Restart, vars

LEMMA KnownStep ==
    ASSUME IInv, Known, [Next]_vars
    PROVE  Known'
<1>t. rows \in [Certs -> Row] /\ op \in [Callers -> Op]
  BY DEF IInv, TypeOK
<1>i. Idle.pc = "idle"
  BY DEF Idle
<1>1. ASSUME NEW c \in Certs, rows[c].status # "none" PROVE rows'[c].status # "none"
  <2>1. CASE Live(c)
    <3>1. DeleteCertificate(c) => rows'[c].status = "deleted"
      BY <1>t DEF DeleteCertificate
    <3> QED
      BY <2>1, <3>1, LiveStep DEF Live
  <2>2. CASE ~ Live(c)
    BY <1>1, <2>2, DeletedStays DEF Live
  <2> QED
    BY <2>1, <2>2
<1>2. ASSUME NEW v \in Callers, op'[v].pc # "idle" PROVE rows'[op'[v].cert].status # "none"
  <2>1. CASE op[v].pc # "idle" /\ op'[v].cert = op[v].cert
    BY <1>1, <2>1, RowTypes DEF Known
  <2>2. ASSUME NEW c \in Certs, NEW kind \in Kinds, Begin(v, c, kind)
        PROVE  rows'[op'[v].cert].status # "none"
    BY <1>t, <2>2 DEF Begin, Live
  <2>3. ASSUME NEW w \in Callers, Step(w)
        PROVE  op[v].pc # "idle" /\ op'[v].cert = op[v].cert
    BY <1>2, <2>3, <1>i, StepMoves DEF Returns, MovesOn
  <2> QED
    BY <1>2, <1>i, <2>1, <2>2, <2>3, OthersStay
<1> QED
  BY <1>2 DEF Known

-----------------------------------------------------------------------------
(* A step that has nothing to do with a certificate leaves it well. *)

Aside(c) ==
    /\ rows'[c] = rows[c] /\ chain'[c] = chain[c] /\ key'[c] = key[c]
    /\ \A v \in Callers : On(v, c)' => op'[v] = op[v] /\ (Cancelled(v) => Cancelled(v)')
    /\ \A j : (j \in DOMAIN jobs /\ jobs[j].cert = c) <=> (j \in DOMAIN jobs' /\ jobs'[j].cert = c)
    /\ \A j \in DOMAIN jobs : jobs[j].cert = c =>
          \/ jobs'[j].status = jobs[j].status
          \/ jobs[j].status \in Outcomes /\ jobs'[j].status = "deleted"

LEMMA AsideKeeps ==
    ASSUME IInv, NEW c \in Certs, Good(c), Aside(c)
    PROVE  Good(c)'
<1>1. \A v \in Callers : On(v, c)' => On(v, c) /\ op'[v] = op[v]
  BY DEF Aside, On, InFlight
<1>2. Alone(c)'
  BY <1>1 DEF Good, Alone
<1>3. \A k : Last(k, c) <=> Last(k, c)'
  BY DEF Last, Aside
<1>4. OwnsLast(c)'
  <2> SUFFICES ASSUME NEW w \in Callers, On(w, c)'
               PROVE  jobs'[op'[w].job].cert = c /\ (Last(op[w].job, c))'
    BY DEF OwnsLast
  <2>1. jobs[op[w].job].cert = c /\ Last(op[w].job, c) /\ op'[w] = op[w]
    BY <1>1 DEF Good, OwnsLast
  <2>2. op[w].job \in DOMAIN jobs
    BY <1>1 DEF On, IInv, JobOwnership
  <2> QED
    BY <1>3, <2>1, <2>2 DEF Aside, Last
<1>5. Phase(c)'
  BY <1>1 DEF Good, Phase, DoneSoFar, Aside
<1>6. Settled(c)'
  <2> SUFFICES ASSUME (~ HasRunningCertificateJob(c))' PROVE Whole(c)' /\ Agrees(c)'
    BY DEF Settled
  <2>1. ~ HasRunningCertificateJob(c)
    BY DEF HasRunningCertificateJob, Aside, Outcomes
  <2>2. Whole(c) /\ Agrees(c)
    BY <2>1 DEF Good, Settled
  <2>3. Whole(c)'
    BY <2>2 DEF Whole, Aside
  <2>4. Agrees(c)'
    BY <1>3, <2>2 DEF Agrees, Aside, Last, Outcomes
  <2> QED
    BY <2>3, <2>4
<1> QED
  BY <1>2, <1>4, <1>5, <1>6 DEF Good

(* The jobs of c are those they were, unless a job of c is inserted or
   concluded or c is deleted. *)
LEMMA JobsAside ==
    ASSUME IInv, [Next]_vars, NEW c \in Certs, ~ DeleteCertificate(c),
           \A w \in Callers : op[w].cert = c => ~ Inserted(w),
           \A w \in Callers : On(w, c) => ~ Step(w)
    PROVE  /\ \A j : (j \in DOMAIN jobs /\ jobs[j].cert = c)
                     <=> (j \in DOMAIN jobs' /\ jobs'[j].cert = c)
           /\ \A j \in DOMAIN jobs : jobs[j].cert = c =>
                 \/ jobs'[j].status = jobs[j].status
                 \/ jobs[j].status \in Outcomes /\ jobs'[j].status = "deleted"
<1> DEFINE Claim ==
      /\ \A j : (j \in DOMAIN jobs /\ jobs[j].cert = c)
                <=> (j \in DOMAIN jobs' /\ jobs'[j].cert = c)
      /\ \A j \in DOMAIN jobs : jobs[j].cert = c =>
            \/ jobs'[j].status = jobs[j].status
            \/ jobs[j].status \in Outcomes /\ jobs'[j].status = "deleted"
<1>t. \A j \in DOMAIN jobs : jobs[j] \in Job
  BY RowTypes
<1>1. ASSUME NEW w \in Callers, Inserted(w) PROVE Claim
  <2>1. op[w].cert # c /\ jobs'[Len(jobs) + 1].cert = op[w].cert
    BY <1>1 DEF Inserted, NewJob
  <2> QED
    BY <1>1, <2>1 DEF Inserted
<1>2. ASSUME NEW w \in Callers, NEW o \in Outcomes, Concluded(w, o) PROVE Claim
  <2>1. InFlight(w) /\ Step(w)
    BY <1>2 DEF Concluded
  <2>2. op[w].cert # c /\ op[w].cert \in Certs
    BY <2>1, RowTypes DEF On, InFlight, WithJob
  <2>3. op[w].job \in DOMAIN jobs /\ jobs[op[w].job].cert \in {op[w].cert, NoCert}
    BY <2>1 DEF IInv, JobOwnership
  <2>4. jobs'[op[w].job].cert = jobs[op[w].job].cert
    BY <1>t, <1>2, <2>3, ConcludedRow DEF Concluded
  <2>5. jobs[op[w].job].cert # c
    BY <2>2, <2>3, NoCertAssumption
  <2> QED
    BY <1>2, <2>4, <2>5 DEF Concluded
<1>3. ASSUME NEW d \in Certs, Detached(d) PROVE Claim
  <2>1. ASSUME NEW j \in DOMAIN jobs, jobs[j].cert = d PROVE jobs'[j].cert = NoCert
    <3>1. jobs'[j] = [jobs[j] EXCEPT !.cert = NoCert]
      BY <1>3, <2>1 DEF Detached
    <3> QED
      BY <1>t, <3>1, DetachedRow
  <2>2. d # c /\ NoCert # c
    BY <1>3, NoCertAssumption DEF Detached
  <2> QED
    BY <1>3, <2>1, <2>2 DEF Detached
<1>4. ASSUME Cleared PROVE Claim
  BY <1>t, <1>4, ClearedRow DEF Cleared
<1>5. ASSUME UNCHANGED jobs PROVE Claim
  BY <1>5
<1> QED
  BY <1>1, <1>2, <1>3, <1>4, <1>5, JobsStep

LEMMA ClosingEnds ==
    ASSUME IInv, [Next]_vars, proc = "closing", proc' # "closing"
    PROVE  Closed \/ Crash
<1>1. ASSUME NEW w \in Callers, Step(w) PROVE UNCHANGED proc
  BY <1>1 DEF Step, CheckRunning, CheckCooldown, CreateJob, EarlyDbError, ReadExisting,
     CallCA, OpenChain, WriteChain, OpenKey, WriteKey, OperationFails, MarkIssued,
     CompleteSuccess, LateDbError, FailStatus, FailJob
<1> QED
  BY <1>1 DEF Next, CreateCertificate, DeleteCertificate, ClearCompleted, Tick, BeginWeb,
     BeginScheduled, Begin, Close, Restart, vars

LEMMA AsideStep ==
    ASSUME IInv, [Next]_vars, NEW c \in Certs,
           ~ CreateCertificate(c), ~ DeleteCertificate(c),
           \A w \in Callers : op[w].cert = c => ~ Inserted(w),
           \A w \in Callers : On(w, c) => ~ Step(w)
    PROVE  Aside(c)
<1>t. /\ rows \in [Certs -> Row] /\ chain \in [Certs -> Chain] /\ key \in [Certs -> Nat]
      /\ op \in [Callers -> Op]
  BY DEF IInv, TypeOK
<1>i. Idle.pc = "idle" /\ "idle" \notin WithJob
  BY DEF Idle, WithJob
<1>1. rows'[c] = rows[c] /\ chain'[c] = chain[c] /\ key'[c] = key[c]
  <2>1. ASSUME NEW w \in Callers, Step(w)
        PROVE  rows'[c] = rows[c] /\ chain'[c] = chain[c] /\ key'[c] = key[c]
    <3>1. CASE ~ InFlight(w)
      <4>1. UNCHANGED <<rows, chain, key>>
        BY <2>1, <3>1 DEF Step, CheckRunning, CheckCooldown, CreateJob, EarlyDbError,
           ReadExisting, CallCA, OpenChain, WriteChain, OpenKey, WriteKey, OperationFails,
           MarkIssued, CompleteSuccess, LateDbError, FailStatus, FailJob, At, InFlight, WithJob
      <4> QED
        BY <4>1
    <3>2. CASE InFlight(w)
      <4>1. op[w].cert # c
        BY <2>1, <3>2 DEF On
      <4>2. /\ rows' = rows \/ \E r : rows' = [rows EXCEPT ![op[w].cert] = r]
            /\ chain' = chain \/ \E r : chain' = [chain EXCEPT ![op[w].cert] = r]
            /\ key' = key \/ \E r : key' = [key EXCEPT ![op[w].cert] = r]
        BY <2>1, Zenon DEF Step, CheckRunning, CheckCooldown, CreateJob, EarlyDbError,
           ReadExisting, CallCA, OpenChain, WriteChain, OpenKey, WriteKey, OperationFails,
           MarkIssued, CompleteSuccess, LateDbError, FailStatus, FailJob
      <4> QED
        BY <1>t, <4>1, <4>2
    <3> QED
      BY <3>1, <3>2
  <2>2. ASSUME ~ \E w \in Callers : Step(w)
        PROVE  rows'[c] = rows[c] /\ chain'[c] = chain[c] /\ key'[c] = key[c]
    <3>1. UNCHANGED <<chain, key>>
      BY <2>2, OthersStay
    <3>2. ASSUME NEW d \in Certs, CreateCertificate(d) \/ DeleteCertificate(d)
          PROVE  rows'[c] = rows[c]
      BY <1>t, <3>2 DEF CreateCertificate, DeleteCertificate
    <3>3. UNCHANGED rows \/ \E d \in Certs : CreateCertificate(d) \/ DeleteCertificate(d)
      BY <2>2 DEF Next, ClearCompleted, Tick, BeginWeb, BeginScheduled, Begin, Close,
         Closed, Crash, Restart, vars
    <3> QED
      BY <3>1, <3>2, <3>3
  <2> QED
    BY <2>1, <2>2
<1>2. ASSUME NEW v \in Callers, On(v, c)' PROVE op'[v] = op[v] /\ (Cancelled(v) => Cancelled(v)')
  <2>1. op'[v] = op[v]
    <3>1. ASSUME NEW w \in Callers, Step(w), op'[v] # op[v] PROVE FALSE
      <4>1. v = w /\ MovesOn(v)
        BY <1>i, <1>2, <3>1, StepMoves DEF Returns, MovesOn, On, InFlight
      <4>2. op[v].cert = c /\ ~ On(v, c)
        BY <1>2, <3>1, <4>1 DEF MovesOn, On
      <4>3. ~ InFlight(v) /\ ~ Inserted(v)
        BY <4>2 DEF On
      <4>4. CASE CreateJob(v)
        BY <1>2, <1>i, <4>3, <4>4, CreateInserts, ReturnMoves DEF CreateJob, On, InFlight, Returns
      <4>5. CASE CheckRunning(v) \/ CheckCooldown(v)
        BY <1>2, <1>i, <4>5, GotoMoves, ReturnMoves DEF CheckRunning, CheckCooldown, On,
           InFlight, Returns, Moves, WithJob
      <4>6. CASE EarlyDbError(v)
        BY <1>2, <1>i, <4>6, ReturnMoves DEF EarlyDbError, On, InFlight, Returns
      <4> QED
        BY <3>1, <4>1, <4>3, <4>4, <4>5, <4>6 DEF Step, ReadExisting, CallCA, OpenChain,
           WriteChain, OpenKey, WriteKey, OperationFails, MarkIssued, CompleteSuccess,
           LateDbError, FailStatus, FailJob, At, InFlight, WithJob
    <3>2. ASSUME NEW d \in Certs, NEW kind \in Kinds, Begin(v, d, kind)
          PROVE  op'[v].pc = "checkRunning"
      BY <1>t, <3>2 DEF Begin
    <3> QED
      BY <1>2, <1>i, <3>1, <3>2, OthersStay DEF On, InFlight, WithJob
  <2>2. Cancelled(v) => Cancelled(v)'
    <3>1. ASSUME Cancelled(v), proc' # "closing" PROVE op'[v].pc = "idle"
      <4>1. Closed \/ Crash
        BY <3>1, ClosingEnds DEF Cancelled
      <4> QED
        BY <1>i, <3>1, <4>1 DEF Closed, Crash, Cancelled, Callers
    <3> QED
      BY <1>2, <1>i, <3>1 DEF Cancelled, On, InFlight
  <2> QED
    BY <2>1, <2>2
<1> QED
  BY <1>1, <1>2, JobsAside DEF Aside

-----------------------------------------------------------------------------
(* A step of the operation on the certificate: it goes on or it returns. *)

LEMMA GoesOn ==
    ASSUME IInv, NEW c \in Certs, Good(c), NEW w \in Callers, On(w, c),
           NEW pc \in WithJob, NEW k, Moves(w, pc, op[w].job, k), UNCHANGED jobs,
           DoneSoFar(w, c)'
    PROVE  Good(c)'
<1>1. \A v \in Callers : On(v, c)' <=> v = w
  BY DEF Good, Alone, Moves, On, InFlight
<1>2. Alone(c)'
  BY <1>1 DEF Alone
<1>3. jobs[op[w].job].cert = c /\ Last(op[w].job, c) /\ op'[w].job = op[w].job
  BY DEF Good, OwnsLast, Moves
<1>4. OwnsLast(c)'
  BY <1>1, <1>3 DEF OwnsLast, Last
<1>5. Phase(c)'
  BY <1>1 DEF Phase
<1>6. HasRunningCertificateJob(c)'
  BY <1>3 DEF On, IInv, JobOwnership, HasRunningCertificateJob
<1> QED
  BY <1>2, <1>4, <1>5, <1>6 DEF Good, Settled

LEMMA GoesAway ==
    ASSUME IInv, NEW c \in Certs, Good(c), NEW w \in Callers, On(w, c), Returns(w),
           Settled(c)'
    PROVE  Good(c)'
<1>1. \A v \in Callers : ~ On(v, c)'
  BY DEF Good, Alone, Returns, On, InFlight, Idle, WithJob
<1> QED
  BY <1>1 DEF Good, Alone, OwnsLast, Phase

LEMMA LeftRunning ==
    ASSUME IInv, NEW c \in Certs, Good(c), NEW w \in Callers, On(w, c), UNCHANGED jobs
    PROVE  Settled(c)'
<1>1. op[w].job \in DOMAIN jobs /\ jobs[op[w].job].cert = c /\ jobs[op[w].job].status = "running"
  BY DEF Good, OwnsLast, On, IInv, JobOwnership
<1> QED
  BY <1>1 DEF Settled, HasRunningCertificateJob

(* The job it concludes is the last of the certificate. *)
LEMMA ConcludesLast ==
    ASSUME IInv, NEW c \in Certs, Good(c), NEW w \in Callers, On(w, c),
           NEW o \in Outcomes, Concluded(w, o), Whole(c)',
           o = "success" => rows'[c] = [status |-> "active", expires |-> op[w].job],
           o = "failed" => rows'[c].status = "failed"
    PROVE  Settled(c)'
<1>1. op[w].job \in DOMAIN jobs /\ jobs[op[w].job].cert = c /\ Last(op[w].job, c)
  BY DEF Good, OwnsLast, On, IInv, JobOwnership
<1>2. jobs'[op[w].job].cert = c /\ jobs'[op[w].job].status = o
  BY <1>1, RowTypes, ConcludedRow DEF Concluded
<1>3. ASSUME NEW k \in DOMAIN jobs', jobs'[k].cert = c, Last(k, c)' PROVE k = op[w].job
  <2>1. op[w].job <= k
    BY <1>1, <1>2, <1>3 DEF Concluded, Last
  <2>2. k <= op[w].job
    BY <1>1, <1>3 DEF Concluded, Last
  <2>3. k \in Nat /\ op[w].job \in Nat
    BY <1>1, <1>3, RowTypes DEF Concluded
  <2> QED
    BY <2>1, <2>2, <2>3
<1>4. Agrees(c)'
  BY <1>2, <1>3 DEF Agrees, Outcomes, Last
<1> QED
  BY <1>4 DEF Settled

LEMMA OwnStep ==
    ASSUME IInv, HoldsKey, ~ DbFaults, NEW c \in Certs, Good(c), Live(c), Live(c)',
           NEW w \in Callers, On(w, c), Step(w)
    PROVE  Good(c)'
<1>t. /\ rows \in [Certs -> Row] /\ chain \in [Certs -> Chain] /\ key \in [Certs -> Nat]
      /\ op \in [Callers -> Op]
  BY DEF IInv, TypeOK
<1>c. op[w].cert = c /\ InFlight(w) /\ DoneSoFar(w, c)
  BY DEF On, Good, Phase
<1>d. \A pc, j, k : Moves(w, pc, j, k) => op'[w].pc = pc /\ op'[w].job = j /\ op'[w].key = k
  BY DEF Moves
<1>e. op[w].pc \notin BeforeJob
  BY <1>c DEF InFlight, WithJob, BeforeJob
<1>1. CASE ReadExisting(w)
  <2>1. UNCHANGED jobs
    BY <1>1 DEF ReadExisting
  <2>2. \E pc \in {"failStatus", "ca"} : \E k : Moves(w, pc, op[w].job, k)
    BY <1>1, ReadMoves
  <2>3. op'[w].pc \in {"failStatus", "ca"}
    BY <2>2, <1>d
  <2>4. DoneSoFar(w, c)'
    BY <2>3 DEF DoneSoFar
  <2> QED
    BY <2>1, <2>2, <2>4, GoesOn DEF WithJob
<1>2. CASE CallCA(w)
  <2>1. UNCHANGED jobs /\ Moves(w, "openChain", op[w].job, KeyObtained(w))
    BY <1>2, CAMoves DEF CallCA
  <2>2. DoneSoFar(w, c)'
    BY <2>1, <1>d DEF DoneSoFar
  <2> QED
    BY <2>1, <2>2, GoesOn DEF WithJob
<1>3. ASSUME NEW pc \in WithJob, Goto(w, pc), UNCHANGED jobs,
             op'[w].pc = pc /\ op'[w].job = op[w].job /\ op'[w].key = op[w].key
                => DoneSoFar(w, c)'
      PROVE  Good(c)'
  BY <1>3, <1>d, GotoMoves, GoesOn
<1>4. CASE OpenChain(w)
  BY <1>3, <1>4 DEF OpenChain, DoneSoFar, WithJob
<1>5. CASE WriteChain(w)
  <2>1. chain'[c] = [serial |-> op[w].job, key |-> op[w].key]
    BY <1>c, <1>t, <1>5 DEF WriteChain
  <2> QED
    BY <1>3, <1>5, <2>1 DEF WriteChain, DoneSoFar, WithJob
<1>6. CASE OpenKey(w)
  BY <1>3, <1>c, <1>6 DEF OpenKey, DoneSoFar, WithJob, At
<1>7. CASE WriteKey(w)
  <2>1. key'[c] = op[w].key
    BY <1>c, <1>t, <1>7 DEF WriteKey
  <2> QED
    BY <1>3, <1>c, <1>7, <2>1 DEF WriteKey, DoneSoFar, WithJob, At
<1>8. CASE OperationFails(w)
  BY <1>3, <1>8 DEF OperationFails, DoneSoFar, WithJob
<1>9. CASE MarkIssued(w)
  <2>1. rows'[c] = [status |-> "active", expires |-> op[w].job]
    BY <1>c, <1>t, <1>9 DEF MarkIssued, IssuedRow
  <2>2. Goto(w, "complete")
    BY <1>c, <1>9 DEF MarkIssued
  <2> QED
    BY <1>3, <1>c, <1>9, <2>1, <2>2 DEF MarkIssued, DoneSoFar, WithJob, At
<1>10. CASE FailStatus(w)
  <2>1. rows'[c].status = "failed" \/ Cancelled(w)'
    BY <1>c, <1>t, <1>10 DEF FailStatus, FailedRow, Row, MayFail, Cancelled
  <2> QED
    BY <1>3, <1>10, <2>1 DEF FailStatus, DoneSoFar, WithJob
<1>11. CASE CompleteSuccess(w)
  <2>1. Concluded(w, "success")
    BY <1>11, <1>c, ConcludedBy DEF CompleteSuccess, Outcomes
  <2>2. Whole(c)'
    <3>1. op[w].job # NoFile
      BY <1>c, RowTypes, JobsAreJobs DEF IInv, JobOwnership, NoFile, TypeOK
    <3>2. op[w].key # NoFile
      BY <1>11 DEF HoldsKey, CompleteSuccess, At, OnFile
    <3> QED
      BY <1>c, <1>11, <3>1, <3>2 DEF CompleteSuccess, DoneSoFar, Whole, At, NoPEM
  <2>3. rows'[c] = [status |-> "active", expires |-> op[w].job]
    BY <1>c, <1>11 DEF CompleteSuccess, DoneSoFar, At
  <2> QED
    BY <1>11, <2>1, <2>2, <2>3, ReturnMoves, GoesAway, ConcludesLast DEF CompleteSuccess, Outcomes
<1>12. CASE LateDbError(w)
  BY <1>12, ReturnMoves, GoesAway, LeftRunning DEF LateDbError
<1>13. CASE FailJob(w)
  <2>1. CASE UNCHANGED jobs
    BY <1>13, <2>1, ReturnMoves, GoesAway, LeftRunning DEF FailJob
  <2>2. CASE ~ Cancelled(w) /\ jobs' = JobCompleted(op[w].job, "failed")
    <3>1. Concluded(w, "failed")
      BY <1>13, <1>c, <2>2, ConcludedBy DEF FailJob, Outcomes
    <3>2. rows'[c].status = "failed"
      BY <1>c, <1>13, <2>2 DEF FailJob, DoneSoFar, At
    <3> QED
      BY <1>13, <3>1, <3>2, ReturnMoves, GoesAway, ConcludesLast DEF FailJob, Outcomes, Whole
  <2> QED
    BY <1>13, <2>1, <2>2 DEF FailJob
<1> QED
  BY <1>e, <1>1, <1>2, <1>4, <1>5, <1>6, <1>7, <1>8, <1>9, <1>10, <1>11, <1>12, <1>13
     DEF Step, CheckRunning, CheckCooldown, CreateJob, EarlyDbError, At, BeforeJob

LEMMA RacedGrows ==
    ASSUME IInv, [Next]_vars
    PROVE  raced \subseteq raced'
<1>1. ASSUME NEW w \in Callers, Step(w) PROVE raced \subseteq raced'
  BY <1>1 DEF Step, CheckRunning, CheckCooldown, CreateJob, EarlyDbError, ReadExisting,
     CallCA, OpenChain, WriteChain, OpenKey, WriteKey, OperationFails, MarkIssued,
     CompleteSuccess, LateDbError, FailStatus, FailJob
<1> QED
  BY <1>1, OthersStay

(* A certificate that is not live becomes so only by being created. *)
LEMMA DeadStays ==
    ASSUME IInv, [Next]_vars, NEW c \in Certs, ~ Live(c), ~ CreateCertificate(c)
    PROVE  ~ Live(c)'
<1>t. rows \in [Certs -> Row]
  BY DEF IInv, TypeOK
<1>1. ASSUME NEW w \in Callers, Step(w) PROVE ~ Live(c)'
  <2>1. CASE MarkIssued(w)
    BY <2>1, <1>t DEF MarkIssued, Live
  <2>2. CASE FailStatus(w)
    BY <2>2, <1>t DEF FailStatus, Live
  <2> QED
    BY <1>1, <2>1, <2>2 DEF Step, CheckRunning, CheckCooldown, CreateJob, EarlyDbError,
       ReadExisting, CallCA, OpenChain, WriteChain, OpenKey, WriteKey, OperationFails,
       CompleteSuccess, LateDbError, FailJob, Live
<1>2. ASSUME NEW d \in Certs, CreateCertificate(d) \/ DeleteCertificate(d)
      PROVE  ~ Live(c)'
  BY <1>2, <1>t DEF CreateCertificate, DeleteCertificate, Live
<1>3. UNCHANGED rows => ~ Live(c)'
  BY DEF Live
<1> QED
  BY <1>1, <1>2, <1>3 DEF Next, ClearCompleted, Tick, BeginWeb, BeginScheduled, Begin, Close,
     Closed, Crash, Restart, vars

(* A new job that races with nothing is the last of its certificate and the
   only one with an operation in flight. *)
LEMMA InsertedAlone ==
    ASSUME IInv, NEW c \in Certs, c \notin raced', NEW w \in Callers, op[w].cert = c,
           Inserted(w)
    PROVE  Good(c)'
<1>t. op \in [Callers -> Op]
  BY DEF IInv, TypeOK
<1>1. \A v \in Callers : ~ On(v, c)
  BY DEF Inserted, CreateJob, On
<1>2. /\ op'[w].pc \in {"read", "ca"} /\ op'[w].job = Len(jobs) + 1 /\ op'[w].cert = c
      /\ \A v \in Callers \ {w} : op'[v] = op[v]
  BY CreateMoves DEF Moves
<1>3. \A v \in Callers : On(v, c)' => v = w
  BY <1>1, <1>2 DEF On, InFlight
<1>4. /\ Len(jobs) + 1 \in DOMAIN jobs'
      /\ jobs'[Len(jobs) + 1].cert = c /\ jobs'[Len(jobs) + 1].status = "running"
  BY DEF Inserted, NewJob
<1>5. \A j \in DOMAIN jobs' : j <= Len(jobs) + 1
  BY RowTypes DEF Inserted
<1>6. OwnsLast(c)'
  BY <1>2, <1>3, <1>4, <1>5 DEF OwnsLast, Last
<1>7. Phase(c)'
  BY <1>2, <1>3 DEF Phase, DoneSoFar
<1>8. Alone(c)'
  BY <1>3 DEF Alone
<1>9. Settled(c)'
  BY <1>4 DEF Settled, HasRunningCertificateJob
<1> QED
  BY <1>6, <1>7, <1>8, <1>9 DEF Good

-----------------------------------------------------------------------------
LEMMA FilesStep ==
    ASSUME IInv, CauseInv, FilesInv, ~ DbFaults, [Next]_vars
    PROVE  FilesInv'
<1>1. HoldsKey' /\ Known'
  BY HoldsKeyStep, KnownStep DEF FilesInv
<1>2. ASSUME NEW c \in Certs \ raced', Live(c)' PROVE Good(c)'
  <2>1. c \notin raced
    BY <1>2, RacedGrows
  <2>2. CASE CreateCertificate(c)
    <3>1. UNCHANGED <<op, jobs>> /\ rows[c].status = "none" /\ rows'[c].status = "pending"
      BY <2>2 DEF CreateCertificate, IInv, TypeOK
    <3>2. \A w \in Callers : ~ On(w, c)'
      BY <3>1 DEF FilesInv, Known, On, InFlight, WithJob
    <3>3. \A j \in DOMAIN jobs' : jobs'[j].cert # c
      BY <3>1, NoCertAssumption DEF CauseInv, LiveReferences, Live
    <3> QED
      BY <3>1, <3>2, <3>3 DEF Good, Alone, OwnsLast, Phase, Settled, Whole, Agrees
  <2>3. CASE Live(c)
    <3>g. Good(c)
      BY <2>1, <2>3 DEF FilesInv
    <3>1. ASSUME NEW w \in Callers, op[w].cert = c, Inserted(w) PROVE Good(c)'
      BY <1>2, <3>1, InsertedAlone
    <3>2. ASSUME NEW w \in Callers, On(w, c), Step(w) PROVE Good(c)'
      BY <1>2, <2>3, <3>g, <3>2, OwnStep DEF FilesInv
    <3>3. ~ CreateCertificate(c) /\ ~ DeleteCertificate(c)
      BY <1>2, <2>3 DEF CreateCertificate, DeleteCertificate, Live, IInv, TypeOK
    <3> QED
      BY <3>g, <3>1, <3>2, <3>3, AsideStep, AsideKeeps
  <2>4. CASE ~ Live(c) /\ ~ CreateCertificate(c)
    BY <1>2, <2>4, DeadStays
  <2> QED
    BY <2>2, <2>3, <2>4
<1> QED
  BY <1>1, <1>2 DEF FilesInv

LEMMA InitFiles == Init => FilesInv
<1> SUFFICES ASSUME Init PROVE FilesInv
  OBVIOUS
<1> QED
  BY DEF Init, FilesInv, HoldsKey, Known, Live, Idle, OnFile

LEMMA FilesInvariance ==
    ASSUME ~ DbFaults
    PROVE  Spec => []FilesInv
<1>1. Spec => []CauseInv
  BY InitCause, CauseStep, Invariance, PTL DEF Spec
<1> QED
  BY <1>1, InitFiles, FilesStep, Invariance, PTL DEF Spec

(* As long as SQLite does not fail by itself, a certificate that is active with
   no job of it running, and that no two operations have worked on at once, has
   its two files whole, belonging together and as the row says: both files are
   truncated and rewritten in place (acme.go 399-404), and what stops in between
   leaves the job running or the status failed. *)
THEOREM PairsAreWhole == ~ DbFaults => (Spec => []ActivePairWhole)
<1> SUFFICES ASSUME ~ DbFaults PROVE Spec => []ActivePairWhole
  OBVIOUS
<1>1. FilesInv => ActivePairWhole
  BY DEF FilesInv, ActivePairWhole, Good, Settled, Whole, Live
<1> QED
  BY <1>1, FilesInvariance, PTL

(* Under the same conditions the outcome of a certificate's last job is what its
   row says: the status is written before the job is completed, by the one
   operation there is (acme.go 140-151, 223-234 and 302-313). *)
THEOREM StatusFollowsLog == ~ DbFaults => (Spec => []StatusAgreesWithLog)
<1> SUFFICES ASSUME ~ DbFaults PROVE Spec => []StatusAgreesWithLog
  OBVIOUS
<1>1. FilesInv /\ CauseInv => StatusAgreesWithLog
  <2> SUFFICES ASSUME FilesInv, CauseInv, NEW c \in Certs \ raced, NEW k \in DOMAIN jobs,
                      jobs[k].cert = c,
                      \A j \in DOMAIN jobs : jobs[j].cert = c => j <= k /\ jobs[j].status # "running"
               PROVE  /\ jobs[k].status = "success" => rows[c] = [status |-> "active", expires |-> k]
                      /\ jobs[k].status = "failed" => rows[c].status = "failed"
    BY DEF StatusAgreesWithLog
  <2>1. Live(c)
    BY NoCertAssumption DEF CauseInv, LiveReferences
  <2>2. Good(c)
    BY <2>1 DEF FilesInv
  <2>3. Agrees(c)
    BY <2>2 DEF Good, Settled, HasRunningCertificateJob
  <2> QED
    BY <2>3 DEF Agrees, Last
<1>2. Spec => []CauseInv
  BY InitCause, CauseStep, Invariance, PTL DEF Spec
<1> QED
  BY <1>1, <1>2, FilesInvariance, PTL

=============================================================================
