-------------------------------- MODULE ACME --------------------------------
(***************************************************************************)
(* Issuing and renewing certificates: internal/usecase/acme.go over the    *)
(* certificate rows, the job log and the two PEM files of a certificate.   *)
(*                                                                         *)
(* Every request of the web interface and the renewal scheduler runs       *)
(* IssueCertificate or RenewCertificate in a goroutine of its own, with no *)
(* lock between them: one action stands for one call to SQLite, to the     *)
(* file system or to the CA, and any other caller may move in between.     *)
(*                                                                         *)
(* A certificate obtained from the CA is named by the job that obtained    *)
(* it, and so is a private key made for it: a fullchain.pem is the pair of *)
(* the two names, and expires_at is the name of the certificate whose      *)
(* expiry it holds.  0 is an absent (or truncated) file and a NULL column. *)
(***************************************************************************)
EXTENDS Integers, Sequences, FiniteSets

CONSTANTS
    Certs,       \* certificate ids that may be given out
    Web,         \* goroutines of the web interface (a context never cancelled)
    Scheduler,   \* the goroutine of the renewal scheduler (cancelled by Close)
    NoCert,      \* certificate_id is NULL
    Deletable,   \* certificates the user may delete
    DbFaults,    \* may a call to SQLite fail by itself?
    Cooldown,    \* acmeRetryCooldown, in ticks of the clock
    MaxTime,     \* bound: the clock stops there
    MaxJobs,     \* bound: operations begun
    MaxLives     \* bound: runs of the process

ASSUME NoCertAssumption    == NoCert \notin Certs
ASSUME CallersAssumption   == Web \cap Scheduler = {}
ASSUME DeletableAssumption == Deletable \subseteq Certs
ASSUME FaultsAssumption    == DbFaults \in BOOLEAN
ASSUME TimeAssumption      == Cooldown \in Nat /\ MaxTime \in Nat
ASSUME BoundsAssumption    == MaxJobs \in Nat /\ MaxLives \in Nat \ {0}

VARIABLES
    rows,    \* certificates table: status, and expires_at with the file paths
    jobs,    \* jobs table: jobs[j] is the row with id j
    chain,   \* fullchain.pem of each certificate
    key,     \* privkey.pem of each certificate
    op,      \* the call each caller is in, with its local variables
    proc,    \* the process: up, closing (App.Close has begun) or down
    life,    \* which run of the process this is
    clock,
    raced    \* history: certificates two operations were in flight on at once

vars == <<rows, jobs, chain, key, op, proc, life, clock, raced>>

-----------------------------------------------------------------------------
Callers  == Web \cup Scheduler
Kinds    == {"issue", "renew"}
Outcomes == {"success", "failed"}

Statuses == {"none", "pending", "active", "failed", "deleted"}

BeforeJob == {"checkRunning", "checkCooldown", "create"}
WithJob   == {"read", "ca", "openChain", "writeChain", "openKey", "writeKey",
              "mark", "complete", "failStatus", "failJob"}

Row == [status : Statuses, expires : Nat]

Job == [type    : Kinds,
        status  : {"running", "deleted"} \cup Outcomes,
        cert    : Certs \cup {NoCert},
        begun   : Nat,      \* history: when its operation read the clock
        started : Nat,      \* started_at
        finished: Nat,      \* finished_at
        life    : Nat]      \* history: the run of the process it started in

Chain  == [serial : Nat, key : Nat]
NoFile == 0
NoPEM  == [serial |-> NoFile, key |-> NoFile]

Op == [pc     : {"idle"} \cup BeforeJob \cup WithJob,
       kind   : Kinds,
       cert   : Certs \cup {NoCert},
       issued : BOOLEAN,    \* the snapshot has CertPath and KeyPath
       begun  : Nat,        \* time.Now() of ensureACMEOperationAllowed
       job    : Nat,        \* jobID, 0 before there is one
       key    : Nat]        \* the private key it read or obtained

Idle == [pc |-> "idle", kind |-> "issue", cert |-> NoCert, issued |-> FALSE,
         begun |-> 0, job |-> 0, key |-> NoFile]

Live(c)   == rows[c].status \notin {"none", "deleted"}
Issued(c) == rows[c].expires # 0
InFlight(w) == op[w].pc \in WithJob

(* A context that App.Close cancelled fails every later call made with it. *)
Cancelled(w) == w \in Scheduler /\ proc = "closing"
MayFailHanging(w) == DbFaults      \* variant: the call hangs instead
MayFail(w)   == DbFaults \/ Cancelled(w)

-----------------------------------------------------------------------------
(* What the use case reads from the job log and writes to it. Definitions   *)
(* commented as variants change the one that follows them the way a bug    *)
(* could; they are not part of the specification.                          *)

\* variant: remembers only what this process has started
HasRunningSinceStart(c) ==
    \E j \in DOMAIN jobs :
        jobs[j].cert = c /\ jobs[j].status = "running" /\ jobs[j].life = life

HasRunningCertificateJob(c) ==
    \E j \in DOMAIN jobs : jobs[j].cert = c /\ jobs[j].status = "running"

\* variant: started_at > since
FailedJobAfter(c, since) ==
    \E j \in DOMAIN jobs :
        jobs[j].cert = c /\ jobs[j].status = "failed" /\ jobs[j].started > since

FailedCertificateJobSince(c, since) ==
    \E j \in DOMAIN jobs :
        jobs[j].cert = c /\ jobs[j].status = "failed" /\ jobs[j].started >= since

\* variant: takes the status as it is given, a stray space with it
JobCompletedUntrimmed(j, outcome) ==
    [jobs EXCEPT ![j].status = IF outcome = "failed" THEN "failed " ELSE outcome]

\* variant: gives a failed attempt no outcome
OnlySuccessCompleted(j, outcome) ==
    IF outcome = "success" THEN [jobs EXCEPT ![j].status = outcome] ELSE jobs

(* JobUseCase.Complete: whatever the status was; ErrNotFound without a row. *)
JobCompleted(j, outcome) ==
    IF jobs[j].status = "deleted" THEN jobs
    ELSE [jobs EXCEPT ![j].status = outcome, ![j].finished = clock]

ClearableAll(status) == status # "deleted"     \* variant: clears every job

(* What the specification remembers of a row that is gone. *)
Gone(row) == [row EXCEPT !.status = "deleted", !.begun = 0, !.started = 0, !.finished = 0]

(* DeleteCompleted: WHERE status IN ('success', 'failed') *)
Clearable(status) == status \in Outcomes

\* variant: a new expiry, the old status
IssuedRowStatusKept(w) == [rows[op[w].cert] EXCEPT !.expires = op[w].job]

(* repository.MarkIssued and UpdateStatus *)
IssuedRow(w) == [status |-> "active", expires |-> op[w].job]

\* variant: what has been issued once stays active
FailedRowUnlessIssued(c) == [rows[c] EXCEPT !.status = IF Issued(c) THEN @ ELSE "failed"]

FailedRow(c) == [rows[c] EXCEPT !.status = "failed"]

-----------------------------------------------------------------------------
TypeOK ==
    /\ rows \in [Certs -> Row]
    /\ jobs \in Seq(Job)
    /\ chain \in [Certs -> Chain]
    /\ key \in [Certs -> Nat]
    /\ op \in [Callers -> Op]
    /\ \A w \in Callers : op[w].pc # "idle" => op[w].cert \in Certs
    /\ proc \in {"up", "closing", "down"}
    /\ life \in Nat
    /\ clock \in Nat
    /\ raced \in SUBSET Certs

Init ==
    /\ rows = [c \in Certs |-> [status |-> "none", expires |-> 0]]
    /\ jobs = << >>
    /\ chain = [c \in Certs |-> NoPEM]
    /\ key = [c \in Certs |-> NoFile]
    /\ op = [w \in Callers |-> Idle]
    /\ proc = "up"
    /\ life = 1
    /\ clock = 0
    /\ raced = {}

-----------------------------------------------------------------------------
(* The rest of the application, as far as it touches the same state. *)

CreateCertificate(c) ==
    /\ proc = "up"
    /\ rows[c].status = "none"
    /\ rows' = [rows EXCEPT ![c].status = "pending"]
    /\ UNCHANGED <<jobs, chain, key, op, proc, life, clock, raced>>

(* The row goes, its jobs stay with certificate_id NULL, the files stay. *)
DeleteCertificate(c) ==
    /\ proc = "up"
    /\ c \in Deletable
    /\ Live(c)
    /\ rows' = [rows EXCEPT ![c] = [status |-> "deleted", expires |-> 0]]
    /\ jobs' = [j \in DOMAIN jobs |->
                  IF jobs[j].cert = c THEN [jobs[j] EXCEPT !.cert = NoCert]
                  ELSE jobs[j]]
    /\ UNCHANGED <<chain, key, op, proc, life, clock, raced>>

ClearCompleted ==
    /\ proc = "up"
    /\ jobs' = [j \in DOMAIN jobs |->
                  IF Clearable(jobs[j].status)
                  THEN Gone(jobs[j]) ELSE jobs[j]]
    /\ UNCHANGED <<rows, chain, key, op, proc, life, clock, raced>>

Tick ==
    /\ clock < MaxTime
    /\ clock' = clock + 1
    /\ UNCHANGED <<rows, jobs, chain, key, op, proc, life, raced>>

-----------------------------------------------------------------------------
(* IssueCertificate and RenewCertificate, call by call. *)

Goto(w, pc)  == op' = [op EXCEPT ![w].pc = pc]
Return(w)    == op' = [op EXCEPT ![w] = Idle]
At(w, pc)    == proc # "down" /\ op[w].pc = pc

(* certificates.Get, and the clock ensureACMEOperationAllowed reads.
   Bound: as many operations as there are job ids. *)
Begin(w, c, kind) ==
    /\ proc = "up"
    /\ op[w].pc = "idle"
    /\ Live(c)
    /\ Len(jobs) + Cardinality({v \in Callers : op[v].pc \in BeforeJob}) < MaxJobs
    /\ op' = [op EXCEPT ![w] =
                [pc |-> "checkRunning", kind |-> kind, cert |-> c,
                 issued |-> Issued(c), begun |-> clock, job |-> 0, key |-> NoFile]]
    /\ UNCHANGED <<rows, jobs, chain, key, proc, life, clock, raced>>

BeginWeb(w, c, kind) == w \in Web /\ Begin(w, c, kind)

(* shouldAutoRenew chose c from a list that may be stale by now: all that is
   sure is that the certificate had been issued. *)
BeginScheduled(w, c) == w \in Scheduler /\ Issued(c) /\ Begin(w, c, "renew")

CheckRunning(w) ==
    /\ At(w, "checkRunning")
    /\ ~ Cancelled(w)
    /\ IF HasRunningCertificateJob(op[w].cert) THEN Return(w)
       ELSE Goto(w, "checkCooldown")
    /\ UNCHANGED <<rows, jobs, chain, key, proc, life, clock, raced>>

CheckCooldown(w) ==
    /\ At(w, "checkCooldown")
    /\ ~ Cancelled(w)
    /\ IF FailedCertificateJobSince(op[w].cert, op[w].begun - Cooldown) THEN Return(w)
       ELSE Goto(w, "create")
    /\ UNCHANGED <<rows, jobs, chain, key, proc, life, clock, raced>>

NewJob(w) == [type |-> op[w].kind, status |-> "running", cert |-> op[w].cert,
              begun |-> op[w].begun, started |-> clock, finished |-> 0, life |-> life]

(* jobs.Create: the foreign key fails when the certificate is gone. *)
CreateJob(w) ==
    /\ At(w, "create")
    /\ ~ Cancelled(w)
    /\ IF Live(op[w].cert)
       THEN /\ jobs' = Append(jobs, NewJob(w))
            /\ op' = [op EXCEPT ![w].job = Len(jobs) + 1,
                                ![w].pc = IF op[w].kind = "renew" THEN "read" ELSE "ca"]
            /\ raced' = IF \E v \in Callers : InFlight(v) /\ op[v].cert = op[w].cert
                        THEN raced \cup {op[w].cert} ELSE raced
       ELSE Return(w) /\ UNCHANGED <<jobs, raced>>
    /\ UNCHANGED <<rows, chain, key, proc, life, clock>>

(* A failing query or insert before there is a job: the error is returned. *)
EarlyDbError(w) ==
    /\ \E pc \in BeforeJob : At(w, pc)
    /\ MayFail(w)
    /\ Return(w)
    /\ UNCHANGED <<rows, jobs, chain, key, proc, life, clock, raced>>

(* readExistingCertificateFiles *)
ReadExisting(w) ==
    /\ At(w, "read")
    /\ LET c == op[w].cert IN
       op' = IF op[w].issued /\ chain[c] # NoPEM /\ key[c] # NoFile
             THEN [op EXCEPT ![w].pc = "ca", ![w].key = key[c]]
             ELSE [op EXCEPT ![w].pc = "failStatus"]
    /\ UNCHANGED <<rows, jobs, chain, key, proc, life, clock, raced>>

KeyObtainedFresh(w) == op[w].job      \* variant: a renewal makes a key too

(* client.Issue makes a private key; client.Renew keeps the one it is given. *)
KeyObtained(w) == IF op[w].kind = "issue" THEN op[w].job ELSE op[w].key

CallCA(w) ==
    /\ At(w, "ca")
    /\ op' = [op EXCEPT ![w].pc = "openChain", ![w].key = KeyObtained(w)]
    /\ UNCHANGED <<rows, jobs, chain, key, proc, life, clock, raced>>

(* writeIssuedFiles: os.WriteFile truncates, then writes; first the chain. *)
OpenChain(w) ==
    /\ At(w, "openChain")
    /\ chain' = [chain EXCEPT ![op[w].cert] = NoPEM]
    /\ Goto(w, "writeChain")
    /\ UNCHANGED <<rows, jobs, key, proc, life, clock, raced>>

WriteChain(w) ==
    /\ At(w, "writeChain")
    /\ chain' = [chain EXCEPT ![op[w].cert] = [serial |-> op[w].job, key |-> op[w].key]]
    /\ Goto(w, "openKey")
    /\ UNCHANGED <<rows, jobs, key, proc, life, clock, raced>>

OpenKey(w) ==
    /\ At(w, "openKey")
    /\ key' = [key EXCEPT ![op[w].cert] = NoFile]
    /\ Goto(w, "writeKey")
    /\ UNCHANGED <<rows, jobs, chain, proc, life, clock, raced>>

(* parseCertificateExpiry may still fail once both files are written. *)
WriteKey(w) ==
    /\ At(w, "writeKey")
    /\ key' = [key EXCEPT ![op[w].cert] = op[w].key]
    /\ \E next \in {"mark", "failStatus"} : Goto(w, next)
    /\ UNCHANGED <<rows, jobs, chain, proc, life, clock, raced>>

(* The CA refuses, or the file system does, at any of these steps. *)
OperationFails(w) ==
    /\ \E pc \in {"ca", "openChain", "writeChain", "openKey", "writeKey"} : At(w, pc)
    /\ Goto(w, "failStatus")
    /\ UNCHANGED <<rows, jobs, chain, key, proc, life, clock, raced>>

(* certificates.MarkIssued; without a row it returns and the job stays. *)
MarkIssued(w) ==
    /\ At(w, "mark")
    /\ ~ Cancelled(w)
    /\ IF Live(op[w].cert)
       THEN /\ rows' = [rows EXCEPT ![op[w].cert] = IssuedRow(w)]
            /\ Goto(w, "complete")
       ELSE Return(w) /\ UNCHANGED rows
    /\ UNCHANGED <<jobs, chain, key, proc, life, clock, raced>>

CompleteSuccess(w) ==
    /\ At(w, "complete")
    /\ ~ Cancelled(w)
    /\ jobs' = JobCompleted(op[w].job, "success")
    /\ Return(w)
    /\ UNCHANGED <<rows, chain, key, proc, life, clock, raced>>

(* A failing MarkIssued or Complete is returned as it is. *)
LateDbError(w) ==
    /\ At(w, "mark") \/ At(w, "complete")
    /\ MayFail(w)
    /\ Return(w)
    /\ UNCHANGED <<rows, jobs, chain, key, proc, life, clock, raced>>

(* failIssue and failRenew: the status, then the job, whatever became of it. *)
FailStatus(w) ==
    /\ At(w, "failStatus")
    /\ \/ /\ ~ Cancelled(w)
          /\ rows' = IF Live(op[w].cert)
                     THEN [rows EXCEPT ![op[w].cert] = FailedRow(op[w].cert)] ELSE rows
       \/ MayFail(w) /\ UNCHANGED rows
    /\ Goto(w, "failJob")
    /\ UNCHANGED <<jobs, chain, key, proc, life, clock, raced>>

FailJob(w) ==
    /\ At(w, "failJob")
    /\ \/ ~ Cancelled(w) /\ jobs' = JobCompleted(op[w].job, "failed")
       \/ MayFail(w) /\ UNCHANGED jobs
    /\ Return(w)
    /\ UNCHANGED <<rows, chain, key, proc, life, clock, raced>>

Step(w) ==
    \/ CheckRunning(w) \/ CheckCooldown(w) \/ CreateJob(w) \/ EarlyDbError(w)
    \/ ReadExisting(w) \/ CallCA(w)
    \/ OpenChain(w) \/ WriteChain(w) \/ OpenKey(w) \/ WriteKey(w) \/ OperationFails(w)
    \/ MarkIssued(w) \/ CompleteSuccess(w) \/ LateDbError(w)
    \/ FailStatus(w) \/ FailJob(w)

-----------------------------------------------------------------------------
(* The process. Bound: MaxLives runs of it. *)

(* main: the web server has drained, App.Close cancels the scheduler. *)
Close ==
    /\ proc = "up"
    /\ life < MaxLives
    /\ \A w \in Web : op[w].pc = "idle"
    /\ proc' = "closing"
    /\ UNCHANGED <<rows, jobs, chain, key, op, life, clock, raced>>

(* Stop has waited for the scheduler's loop to return. *)
Closed ==
    /\ proc = "closing"
    /\ \A w \in Scheduler : op[w].pc = "idle"
    /\ proc' = "down"
    /\ UNCHANGED <<rows, jobs, chain, key, op, life, clock, raced>>

(* A kill, or main's os.Exit when the server fails or does not drain. *)
Crash ==
    /\ proc # "down"
    /\ life < MaxLives
    /\ proc' = "down"
    /\ op' = [w \in Callers |-> Idle]
    /\ UNCHANGED <<rows, jobs, chain, key, life, clock, raced>>

(* app.New opens the database again; nothing looks at jobs or files. *)
Restart ==
    /\ proc = "down"
    /\ proc' = "up"
    /\ life' = life + 1
    /\ UNCHANGED <<rows, jobs, chain, key, op, clock, raced>>

Next ==
    \/ \E c \in Certs : CreateCertificate(c) \/ DeleteCertificate(c)
    \/ ClearCompleted
    \/ Tick
    \/ \E w \in Web, c \in Certs, kind \in Kinds : BeginWeb(w, c, kind)
    \/ \E w \in Scheduler, c \in Certs : BeginScheduled(w, c)
    \/ \E w \in Callers : Step(w)
    \/ Close \/ Closed \/ Crash \/ Restart

Spec == Init /\ [][Next]_vars

(* A call in progress is a running goroutine: SQLite, the file system and
   the ACME client all answer in the end, with an error if need be. *)
Fairness == WF_vars(Closed) /\ \A w \in Callers : WF_vars(Step(w))

FairSpec == Spec /\ Fairness

-----------------------------------------------------------------------------
(* Safety *)

(* The job of an operation in flight is there and running, was started by
   this process for this certificate (or for one deleted since), and no two
   operations share one: so Complete finds its row and gives it its first
   outcome, although it looks at neither. No request outlives the drain of
   the web server, and no operation its process. *)
JobOwnership ==
    /\ \A w \in Callers : InFlight(w) =>
          /\ op[w].job \in DOMAIN jobs
          /\ jobs[op[w].job].status = "running"
          /\ jobs[op[w].job].cert \in {op[w].cert, NoCert}
          /\ jobs[op[w].job].life = life
    /\ \A v, w \in Callers : InFlight(v) /\ InFlight(w) /\ op[v].job = op[w].job => v = w
    /\ proc = "closing" => \A w \in Web : op[w].pc = "idle"
    /\ proc = "down" => \A w \in Callers : op[w].pc = "idle"

Owned(j) == \E w \in Callers : InFlight(w) /\ op[w].job = j

(* Why a job may stay running with nobody working on it: the certificate was
   deleted, an earlier run of the process ended, or Close cancelled the
   scheduler. The early return after MarkIssued is the first of the three. *)
OrphanCause ==
    \A j \in DOMAIN jobs :
        jobs[j].status = "running" /\ ~ Owned(j) =>
            \/ jobs[j].cert = NoCert
            \/ jobs[j].life < life
            \/ proc \in {"closing", "down"}
            \/ DbFaults

(* Two running jobs of a certificate come only of the gap between the check
   and the insert: the first was inserted after the second had begun. In
   particular a job left behind by a crash admits no second one. *)
OverlapOnlyInWindow ==
    \A j, k \in DOMAIN jobs :
        /\ j < k
        /\ jobs[j].status = "running" /\ jobs[k].status = "running"
        /\ jobs[j].cert = jobs[k].cert /\ jobs[k].cert # NoCert
        => jobs[j].started >= jobs[k].begun

(* No attempt starts within the cooldown of one that had failed before the
   attempt began, while the log still has the failure. *)
CooldownSpacing ==
    \A j, k \in DOMAIN jobs :
        /\ jobs[j].status = "failed" /\ jobs[j].finished < jobs[k].begun
        /\ jobs[k].status # "deleted"
        /\ jobs[j].cert = jobs[k].cert /\ jobs[k].cert # NoCert
        => jobs[k].started > jobs[j].started + Cooldown

(* With no job of an active certificate running, its files are whole, its
   key is the key of its chain, and its row has the expiry of that chain:
   whatever can tear them leaves the job running or the status failed.
   Excepted are certificates two operations have worked on at once. *)
ActivePairWhole ==
    \A c \in Certs :
        rows[c].status = "active" /\ ~ HasRunningCertificateJob(c) /\ c \notin raced =>
            /\ chain[c].serial = rows[c].expires
            /\ chain[c].key = key[c]
            /\ chain[c] # NoPEM /\ key[c] # NoFile

(* The last job of a certificate, once it has an outcome, is what the row
   says: failed, or active with the expiry of what that job obtained. *)
StatusAgreesWithLog ==
    \A c \in Certs \ raced, k \in DOMAIN jobs :
        /\ jobs[k].cert = c
        /\ \A j \in DOMAIN jobs : jobs[j].cert = c => j <= k /\ jobs[j].status # "running"
        => /\ jobs[k].status = "success" => rows[c] = [status |-> "active", expires |-> k]
           /\ jobs[k].status = "failed" => rows[c].status = "failed"

(* Every private key in a file, and every key a chain is for, was made by an
   issue: a renewal, which truncates and rewrites the file too, and whatever
   races with it, puts back a key that had been there. *)
RenewKeepsKey ==
    \A c \in Certs : \A k \in {key[c], chain[c].key} :
        k # NoFile => k \in DOMAIN jobs /\ jobs[k].type = "issue"

(* The log keeps the promise of the JobLog module. *)
LogView == [j \in DOMAIN jobs |-> [status |-> jobs[j].status, cert |-> jobs[j].cert]]

Log == INSTANCE JobLog WITH log <- LogView

ImplementsJobLog == Log!Spec

-----------------------------------------------------------------------------
(* Liveness *)

(* IssueCertificate and RenewCertificate return. *)
OperationsReturn == \A w \in Callers : op[w].pc # "idle" ~> op[w].pc = "idle"

(* Every job gets an outcome, unless its certificate is deleted or the
   process that runs it comes to an end first. *)
Running(j)   == j \in DOMAIN jobs /\ jobs[j].status = "running"
GivenUp(j)   == jobs[j].cert = NoCert \/ jobs[j].life < life \/ proc # "up"
JobsFinish == \A j \in 1 .. MaxJobs : Running(j) ~> (~ Running(j) \/ GivenUp(j))

(* App.Close returns: Stop's wait for the scheduler's loop ends. *)
ShutdownEnds == proc = "closing" ~> proc = "down"

-----------------------------------------------------------------------------
(* What the code says of itself and does not keep. *)

(* acme.go:278: an issue or renew job that is running for a certificate
   blocks the next, so there is never a second one. *)
AtMostOneRunningJob ==
    \A j, k \in DOMAIN jobs :
        /\ jobs[j].status = "running" /\ jobs[k].status = "running"
        /\ jobs[j].cert = jobs[k].cert /\ jobs[k].cert # NoCert
        => j = k

(* acme.go:299: "the job is never left in a running state" by an operation
   that returns. *)
NeverLeftRunning ==
    [][\A w \in Callers :
         InFlight(w) /\ op'[w].pc = "idle" /\ proc' = "up"
            => jobs'[op[w].job].status # "running"]_vars

(* acme.go:278: who is told that a job "is already running" is told so
   because one is. *)
BlockReasonIsTrue ==
    \A c \in Certs :
        proc = "up" /\ HasRunningCertificateJob(c)
            => \E w \in Callers : InFlight(w) /\ op[w].cert = c
=============================================================================
