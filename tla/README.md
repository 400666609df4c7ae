# kong-cert-lite in TLA+

kong-cert-lite obtains TLS certificates from Let's Encrypt, keeps them in files
and a SQLite database, renews them on a schedule and pushes them to Kong Gateway
instances. It is one Go process: a web server whose handlers run concurrently, a
scheduler goroutine, and a database with one connection. This directory holds
TLA+ models of its parts, TLC runs that check them, and proofs checked by TLAPS.

Line numbers refer to the files under `src/`; paths without a directory are in
`src/internal/usecase/`.

## 1. Inventory

| Component | State | Operations | What makes it correct |
|---|---|---|---|
| ACME use case (`acme.go`) | locals of each call; PEM files of a certificate | `IssueCertificate`, `RenewCertificate` | one operation at a time per certificate, a pause after a failure, every job gets an outcome, row, files and log agree |
| Job log (`job.go`, `adapter/sqlite/job_repository.go`) | `jobs` table | `Create`, `Complete`, `ClearCompleted`, queries for running and failed jobs | a job has one outcome, given once; running jobs are never cleared |
| Certificates (`certificate.go`, `adapter/sqlite/certificate_repository.go`) | `certificates` table and its links to targets | create, update, delete, link; `MarkIssued`, `UpdateStatus`, `UpsertSyncTarget` | domains are locked after an issue; status and expiry describe the files |
| Kong sync (`kong_sync.go`, `adapter/kong/admin_client.go`) | a mapping per certificate and target, the certificates held by Kong | `SyncCertificate`, `SyncCertificateTarget` | Kong ends with the newest pair, one certificate per mapping, and the mapping says what was pushed |
| Kong targets (`kong_target.go`, `adapter/sqlite/kong_target_repository.go`) | `kong_targets` table | create, update, delete, `TestConnection` | an edit is not undone by a connection test |
| Scheduler (`scheduler.go`) | started, stopped, two channels, the map of sent notifications | `Start`, `Stop`, `RunOnce`, the loop | every due certificate is renewed, one notification a day, shutdown ends |
| Cron (`scheduler.go` 186-274) | none | `parseCronSchedule`, `Next` | `Next` is the first matching minute after its argument |
| ACME client (`adapter/acme/lego_client.go`) | account key and account file per e-mail | `Issue`, `Renew` | an account is used with the key it was registered for; a renewal keeps the private key |
| Notifications (`notification.go`, `adapter/discord/notifier.go`) | none | `Notify` | failures never change an outcome |
| Database (`db/db.go`, `db/migrations/`) | the file, the list of applied migrations | `Open`, `RunMigrations` | each migration once, foreign keys enforced |
| Application (`app/app.go`, `cmd/kong-cert-lite/main.go`) | the process | start, drain, `Close`, exit | work in progress is finished or accounted for |
| Web (`web/handler.go`, `web/auth.go`, `web/routes.go`) | none (a signed cookie) | one handler per command | concurrent commands keep the rest correct |

How they interact: a web handler or the scheduler calls a use case in its own
goroutine; use cases share nothing in memory, only the tables and the files. The
single connection (`db.go`) makes one SQL statement atomic and nothing more: no
use case holds a transaction over two calls. Web handlers use a context that is
never cancelled, the scheduler one that `App.Close` cancels. A renewal ends in a
call of `SyncCertificate`.

What is hard: every decision is made from a row read some calls earlier; the
external calls (CA, Kong) take from seconds to minutes; files are written in
place; the process may end at any point and nothing is repaired when it starts
again; users delete, unlink and clear while operations are in progress. The
hazards are listed one by one, with their lines, in `PROJECT.json`.

## 2. Modules

* `JobLog` - the abstract promise of the job log.
* `ACME` - the ACME use case over the rows, the log and the files; with its
  properties. `MCACME` and `MCACME_*.cfg` instantiate it for TLC.
* `KongSync` - syncs over the links, the targets, the requests on their way and
  what the Kongs hold; `MCKongSync` and `MCKongSync_*.cfg` instantiate it.
* `ACMEProofs` - types, ownership of jobs and the refinement of `JobLog`.
* `ACMELogProofs` - what the job log says: overlaps, the cooldown, jobs left
  running, and that rows, keys and files agree with it.
* `KongSyncProofs` - types, ownership of Kong ids, links that come back, the
  refinement of `JobLog`, sync jobs left running, what Kong holds and what the links
  say of it.
* `Cron` - a schedule and its next minute, over a calendar given by constants.
* `Scheduler` - `Start`, `Stop`, the loop and its runs, over the rows of the
  certificates; extends `Cron`. `MCScheduler` and its two `.cfg` instantiate it.
* `SchedulerProofs` - types, the channels, the first `Stop`, that the loop
  wakes when the expression asks for it, that a daily run misses no window and no
  due certificate, and that nothing is done before it is due.
* `KongTargets`, `CertificateEdits`, `Accounts` - three records that are read,
  thought about, and written back: a Kong target, the domains of a certificate,
  the account directory. `Records` puts them side by side, `MCRecords` and
  `MCRecords_edits.cfg` instantiate it. `KongTargetsProofs`,
  `CertificateEditsProofs`, `AccountsProofs` and `RecordsProofs` have the proofs.

`ACME` and `KongSync` share the promise of the job log, and meet where a renewal
ends: `CompleteSuccess` of `ACME` is followed by `Renew` of `KongSync`. A renewal
is one step in `Scheduler`, by what it does to the row, and an issue is its steps
at the row and at the chain in `CertificateEdits`: what happens in between, and
what keeps two operations apart, is `ACME`.

### ACME and the code

A *caller* is a goroutine: a request of the web interface (`Web`) or the
scheduler (`Scheduler`). `op[w]` is the call it is in: a program counter and the
local variables of the Go function. One action is one call to SQLite, to a file
or to the CA, with the branches that follow it in the code.

| Model | Code |
|---|---|
| `rows[c]` | row of `certificates`: `status`, and `expires_at` together with the two paths, which are only ever set together (`MarkIssued`) |
| `jobs[j]` | row of `jobs` with id `j`; ids are AUTOINCREMENT, so a sequence; a cleared row keeps its place as `deleted` |
| `chain[c]`, `key[c]` | `fullchain.pem` and `privkey.pem`; `os.WriteFile` is a truncation and a write, two steps |
| `proc`, `life` | the process: up, closing (`App.Close` has cancelled the scheduler), down; which run of it |
| `Begin` | `certificates.Get`, then `time.Now` |
| `CheckRunning`, `CheckCooldown`, `CreateJob` | `acmeOperationState` 270-296 and `jobs.Create`: three statements, between which anyone may move |
| `ReadExisting` ... `WriteKey`, `OperationFails` | 198-221 and 354-428 |
| `MarkIssued`, `CompleteSuccess`, `LateDbError` | 223-241: an error is returned and the job is left as it is |
| `FailStatus`, `FailJob` | `failIssue`, `failRenew` 298-352: both always attempted |
| `DeleteCertificate` | the row goes and the foreign key sets `jobs.certificate_id` to NULL |
| `Close`, `Closed`, `Crash`, `Restart` | `main.go` 41-61, `app.go` 32-100 |

A certificate is named by the job that obtained it and a private key by the job
it was made for, so "the expiry in the row is the expiry of the chain in the
file" is an equality of names. An issue makes a new key; a renewal passes the key
it has read to the client (`lego_client.go` 175-179), which keeps it. `raced`,
`begun` and `life` in a job are history variables: no action reads them.

What the model leaves out: messages, logs, notifications (their errors are
dropped), the `List` calls of pages, edits of a certificate (they touch neither
status nor paths), jobs of type `sync` and `test_kong` (both queries of the use
case filter on `issue` and `renew`). The scheduler chooses from a list it read
before: the model lets it begin a renewal of any certificate that has been
issued, which includes every choice `shouldAutoRenew` makes from a list that is
out of date. `Begin` reads the row and the clock in one step; `ReadExisting`
reads both files in one step: only the key matters to what follows.

### KongSync and the code

| Model | Code |
|---|---|
| `certs`, `targets` | the rows there are in `certificates` and `kong_targets` |
| `links[p]` | the row of `certificate_kong_targets` for certificate `p[1]` and target `p[2]`: is it there, its Kong id, its status |
| `version[c]` | which pair of PEM files the certificate has; 0 before it was issued |
| `kong[k]` | the certificate with id `k` in its target's Kong: the link it was created for, the pair it has |
| `net` | requests sent and not yet served; one stays there when its client has given up |
| `op[w]` | the sync of a goroutine: where it is, and what it has read and not read again (links, Kong ids, files) |
| `ReadInputs` | `syncInputs` 116-131, and 91-102 for a single target |
| `ReadFiles`, `NextTarget` | 64-72 and 104-112: the whole list reads the files first, a single target last |
| `CreateJob` | 135-144; a foreign key that fails ends the whole sync |
| `Send`, `Accept`, `Refuse`, `Timeout` | `admin_client.go` 73-125, one end at a time; POST when the link it read has no id, else PATCH |
| `Upsert`, `Complete` | 176-187; the upsert makes a link anew that is gone |
| `SetLinkedTargets`, `DeleteCertificate`, `DeleteTarget` | `certificate_repository.go` 299-342 and 153-168, `kong_target_repository.go` 132-147 |
| `Issue`, `Renew` | a new pair is in place; only a renewal that comes to its end is followed by a sync (`acme.go` 252-254), so `Issue` also stands for one that fails after 213 |
| `Abandon` | the process ends, or `App.Close` has cancelled the context of the scheduler: no call of the sync succeeds any more |

`stray`, `stale`, `chosen` and a job's `version` are history variables that
no action reads: `stray` are the links on which two syncs were engaged at once, a
client timed out, a caller was cut off, or that were unlinked with something to
lose; `stale` those that a new pair has passed by.

What the model leaves out: SNIs and tags (part of the payload); edits of a
target's address; certificates deleted in Kong by others; clearing of finished
sync jobs (`ACME` shows what clearing does to the log). The pair is read in one
step: a sync that reads a pair while another operation rewrites it belongs to the
composition in the plan. The certificate and its links are read in one step too;
a deletion between the two leaves no link to sync, as one before them does.

### Scheduler, Cron and the code

| Model | Code |
|---|---|
| `loop` | the goroutine of `loop` 141-159: its place, the time it read last, its timer, what the run still has to renew and to notify of |
| `started`, `stopped`, `closed`, `cancelled`, `stopper` | the fields of `renewalScheduler`, `stopCh` and `doneCh` by how often they were closed, the context, the callers of `Stop` |
| `rows[c]` | the status, `auto_renew` and `expires_at` of a certificate |
| `notified` | the map of 126-139, its key with the day |
| `Start`, `Stop`, `StopAgain`, `StopEnds`, `Cancel` | 60-89 and `App.Close` |
| `Sleep`, `Fire`, `Leave` | the top of the loop and its `select` |
| `ListDue`, `Renews`, `RenewalsDone` | `RunOnce` 91-105; the latest certificate first, as `List` gives them |
| `ListNews`, `Notify`, `RunEnds` | 107-139 and `notification.go` 52-88; the windows are two days wide |
| `QueryFails` | a `List` that fails, by itself or because the context has ended |
| `Edit` | commands of the user, by what they do to a row |
| `Date`, `SegmentAccepted`, `Allowed`, `Accepted`, `Parsed`, `Matches`, `NextMinute` | package time and `scheduler.go` 186-274 |

Time is counted in minutes from the first minute of the calendar, days and months
are given by `Days`: a short calendar has the same edges (the end of an hour, a
day, a month, a year, a date that never comes) as the real one. Text is left out
of a segment: it is `*`, `*/n`, a number, or something that is not accepted. A
timer and a run may each be late by up to `Late` minutes.

### Records and the code

| Model | Code |
|---|---|
| `targets[t]`, `tests[j]` | rows of `kong_targets` and of `jobs` (type `test_kong`); what a form holds besides the name and the header value is the number of the edit |
| `Create`, `Delete`, `BeginEdit`, `StoreEdit`, `EditRefused` | `kong_target.go` 98-139, `validateKongTargetInput`; the unique name and the cascade of the migration |
| `BeginTest`, `CreateJob`, `CheckConnection`, `StoreTest`, `TestRefused`, `Complete` | `TestConnection` 141-211: the row is read, Kong is asked, the whole row is written |
| `certs[c]`, `chain[c]` | the domains and the paths of a row, the domains of the chain in the file |
| `BeginEdit`, `StoreEdit` of `CertificateEdits` | `certificate.go` 144-185: the lock is decided from the row that was read |
| `BeginIssue`, `BeginRenew`, `ReadExisting`, `WriteFiles`, `MarkIssued`, `Fail` | `acme.go` at the row and at the chain; lego renews the domains of the old chain |
| `keyFile`, `accountFile` | `account.key` and `account.json` of one address; 0 for one that is truncated |
| `LoadKey`, `GenerateKey`, `OpenKey`, `WriteKey`, `LoadAccount`, `Register`, `OpenAccount`, `WriteAccount`, `Order` | `lego_client.go`, `loadOrCreateUser` and what follows |
| `Break`, `Abandon`, `Fail`, `Crash` | a call that fails, a request that is given up, the end of the process |

`asked`, `formInDoubt`, `statusInDoubt`, `refused`, `doubtful` and `spoiled` are
history variables: `asked` is the row as it would be if edits and tests took no
time, the others name the overlaps in which something is lost. In `Accounts` a
later write replaces an earlier one whole: the registrations of one address are
taken to be of one length.

## 3. Runs

| Run | Instance | Shows |
|---|---|---|
| `races` | two requests, one certificate, three jobs, clock 0..2, cooldown 1, deletion and clearing, one run of the process | types, ownership of jobs, why a job may be left behind, the cooldown, that an active certificate has a whole pair and the log, the row and the files agree, that a renewal keeps the private key, and that `ACME` implements `JobLog` |
| `restart` | a request and the scheduler, three jobs, two runs of the process, crash or close at any step | what a crash leaves behind: no second job next to the one left running, no active certificate with a torn pair unless a running job says so |
| `progress` | a request and the scheduler, two jobs, crash, close, deletion; fair | every operation returns, every job gets an outcome unless it is given up, closing ends |
| `twojobs` | two requests | violation: two running jobs on one certificate |
| `leftrunning` | one request, deletion | violation: an operation returns and its job stays running |
| `blockreason` | one request, two runs of the process | violation: blocked by a job that nobody runs |
| `overlap` | two callers, one link, both rows may be deleted, callers may be abandoned, versions up to 2, three syncs | with every interleaving of two syncs, their requests and the user: one certificate in Kong for a link outside the races named in `stray`, the current pair when it says synced, the outcome of the last job in the link, unlinked stays unlinked, why a sync job may be left behind |
| `list` | one caller, two targets, one of which may be deleted; syncs begin while there are fewer than two jobs, so up to three jobs | ids never cross from one link to another, a renewal reaches every link, the sync returns although Kong need not answer, the sync jobs implement `JobLog` |
| `tracked` | two callers, one link | violation: Kong holds a certificate whose id no link knows |
| `schedule` | eight starts (a daily schedule before each window, one that runs twice a day, steps with month and weekday, a date that never comes, two expressions that are refused), two certificates, two callers of `Stop`, one failure or command, 13 minutes; fair | channels are closed once; after the first `Stop` the loop is gone, and it does return; the loop wakes when the expression asks; with a run a day no window passes unnoticed and no due certificate untried; nothing is renewed or notified of before it is due |
| `retried` | two certificates in their renewal period | violation: a renewal that has failed is not tried again |
| `edits` | two targets, two names, two users, three forms, two tests; one certificate, three goroutines, two lists of domains; three ACME operations of one address, begun while there are fewer than three keys; any statement may fail, crashes | an edit is kept, a status is that of the last test, the locked domains are those of the chain, key and account are whole and belong together: each outside the overlaps that the history variables name; why a test job may be left running |

Why the bounds are enough. Two callers are what a race needs: the guards of a
caller read only its own operation and the tables. Three jobs of one certificate
are a failure, a retry and a concurrent one. The actions of one certificate
never read the state of another, so one certificate is enough. The clock reaches
`Cooldown + 1`, the first tick at which a retry is admitted. Two runs of the
process are one restart; a third would find the same kind of remains. `MaxJobs`
bounds the operations begun (in `Begin`), `MaxTime` the clock, `MaxLives` the
runs of the process.

For `KongSync` two callers on one link are again what a race needs, and two
targets what a list needs (one to be gone or to fail, one behind it). Version 2
is a second pair, the first that can be missed. `MaxJobs` bounds the beginning of
syncs (in `Begin`, counting those in progress), never a sync that has begun.
Callers are interchangeable, and `overlap`, which checks no liveness, uses their
symmetry.

`schedule` has days of four minutes, weeks of three days, months of three and two
days, years of five days, and a search of ten minutes (two and a half days), so
that 13 minutes hold three daily runs, the change of a month and of a week, and a
search that finds nothing. `Late` is 1, a quarter of a day. The clock waits for
`Start`, and ends with a stop, which comes no later than `StopBy`; `MaxUpsets`
counts failed queries and commands of the user. Each start lies just before a
window, so a window opens and shuts within the time.

In `edits` a lost write takes two users and one target, a name that was taken
meanwhile a second target. A lock that comes too late takes an editor, an issue, and
a third to overlap with both. Two keys take two operations; the third meets what
they left. `MaxEdits`, `MaxTests`, `MaxLists` and `MaxKeys` bound what begins, never
what has begun. The three records share no variable, so `MCRecords` moves one of
them in a behaviour (`part`); `RecordsProofs` proves that together they keep what
each keeps alone. Users and targets are interchangeable, and the run uses their
symmetry.

Deadlock is checked in every run of `ACME` and `KongSync`: `ClearCompleted` is always possible while the
process is up, and it comes up again whenever it went down; in `KongSync` the
user can always choose links, or ask for the sync of a certificate that is gone.
It is not checked in `schedule`, where a scheduler that has stopped does nothing
more, nor in `edits`, where the forms, the tests, the certificate that may be
deleted, or the keys run out.

Fairness. `Fairness` is weak fairness of each caller's next step and of the end
of `Close`: a call in progress is a goroutine the Go scheduler keeps running, and
SQLite, the file system, the HTTP clients and lego's polling all end with an
answer or an error. Nothing is assumed about requests coming, time passing, the
CA saying yes, or the process ending. No symmetry is used in that run. In
`KongSync` it is weak fairness of each sync's next step, `Timeout` among them: the
`http.Client` has a limit of 5 seconds (`admin_client.go` 35). Nothing is assumed
about Kong, which may serve a request late or never. In `Scheduler` it is weak
fairness of the loop and of the return of a `Stop` that waits, and strong fairness
of `Leave`: Go's `select` picks at random among the channels that are ready, so a
stop that is ready again and again is not passed over for ever, although any
number of timers may win against it.

`DbFaults` adds failures of any SQLite call. It is FALSE in the runs: with it, a
failed `UpdateStatus` followed by a successful `Complete` leaves an active row
over a torn pair, which `ActivePairWhole` would report. The theorems are
proved for both values.

## 4. Findings

1. *Two operations at once* (`twojobs`). The check and the insert are separate
   statements (`acme.go` 184, 188). `OverlapOnlyInWindow` says that this window
   is the only way, and `raced` excepts such certificates from the agreement of
   row, log and files: the two operations do mix their files.
2. *Job left running by a deletion* (`leftrunning`). `MarkIssued` returns
   not-found and the job is never completed (`acme.go` 140-142, 223-225).
   `OrphanCause` lists the only causes of such jobs.
3. *Blocked after a restart* (`blockreason`). Jobs left running by an earlier run
   of the process block their certificate for good.
4. *A Kong id that is lost* (`tracked`). A POST that Kong serves although the
   client has given up, or whose answer cannot be read, leaves a certificate in
   Kong that no link names; the next sync POSTs again. `OneKongCertificate` says
   that a link free of such races has exactly its one certificate.

5. *A failed renewal is not retried* (`retried`). A failure sets the status to
   `failed`, and `shouldAutoRenew` (`scheduler.go` 161-178) selects active,
   warning and expired certificates only; nothing sets the last two.
   `TriedInTime` says what does hold: a certificate that stays active is tried by
   every run, whatever becomes of the others.

Three more overlaps lose something without contradicting any document; the
properties of `edits` name them as the only ones. A connection test undoes an edit
made while Kong was asked (`formInDoubt`), an issue that overlaps an edit
locks domains the chain does not have (`doubtful`), and two first operations of an
address, or a write that is cut off, leave an account that does not work
(`spoiled`).

## 5. Proofs

`ACMEProofs` proves, for any sets of certificates and callers and any bounds,
with database failures or without:

* `TypeCorrect`: `Spec => []TypeOK`;
* `JobsAreOwned`: `Spec => []JobOwnership`;
* `JobLogIsKept`: `Spec => ImplementsJobLog`.

The argument: `IInv == TypeOK /\ JobOwnership` is inductive. Ownership is what
makes `Complete` harmless: the code writes the outcome whatever the status was,
and only because no two operations share a job, running jobs are not cleared and
an operation does not outlive its process does every job get its first outcome
from its own operation. The table changes in three ways (a row appended, one row
completed, every row rewritten by a deletion or a clearing) and there is a lemma
for each; the steps that leave the jobs alone share `OwnershipKept`. The
refinement then maps `CreateJob` to `Record`, `CompleteSuccess` and `FailJob` to
`Finish`, `ClearCompleted` to `Clear`, `DeleteCertificate` to `Detach`, and every
other step to a stutter.

`ACMELogProofs` adds:

* `OverlapsAreRaces`: `Spec => []OverlapOnlyInWindow`;
* `CooldownIsKept`: `Spec => []CooldownSpacing`;
* `OrphansHaveACause`: `Spec => []OrphanCause`;
* `KeysAreOfIssues`: `Spec => []RenewKeepsKey`;
* `PairsAreWhole`: `~ DbFaults => (Spec => []ActivePairWhole)`;
* `StatusFollowsLog`: `~ DbFaults => (Spec => []StatusAgreesWithLog)`.

The first two rest on `TimeInv`: what a caller between its checks and its insert
knows of the log stays true until it inserts. `CheckedRunning` says that a job
now running for its certificate was inserted after its clock reading,
`CheckedCooldown` that a failure it was not stopped by either lies a cooldown
back or was recorded after that reading. A step of another caller can only add a
row that starts now, give an outcome now, or take rows away, and all three leave
what is known true because no clock reading lies in the future (`ClocksPast`).
`OrphansHaveACause` rests on `CauseInv`: a job that still has a certificate has
one that is there (`LiveReferences`, the foreign key), so `MarkIssued` misses its
row only when the job has already lost its certificate; and jobs of earlier lives
stay of earlier lives. `KeysAreOfIssues` rests on `KeysMade`, which says the same of
the key an operation holds. The last two rest on `FilesInv`: for a live certificate
that is not `raced` one operation at most is in flight (`Alone`), its job is the last
of the certificate (`OwnsLast`), the files and the row are what it has made of them
by now (`DoneSoFar`), and while no job runs the row, the log and the files agree
(`Settled`). A step is then one of three kinds: it inserts a job (`InsertedAlone`), it
is the operation's own, which goes on with its job running or returns (`OwnStep`), or
it has nothing to do with the certificate (`AsideStep`, `AsideKeeps`). They assume
`~ DbFaults`, as the runs do: with a database that refuses the status and then takes
the job's outcome (`failIssue` tries both) neither property holds.

`KongSyncProofs` proves, for any certificates, targets, callers and bounds:

* `TypeCorrect`: `Spec => []TypeOK`;
* `KongIdsAreOwned`: `Spec => []KongOwnership`;
* `LinksAreChosen`: `Spec => []LinkedByChoice`;
* `SyncLogIsKept`: `Spec => SyncKeepsJobLog`;
* `SyncOrphansHaveACause`: `Spec => []SyncOrphanCause`;
* `KongHasOne`: `Spec => []OneKongCertificate`;
* `StatusFollowsSync`: `Spec => []StatusAgreesWithSync`;
* `SyncedHasTheFiles`: `Spec => []SyncedIsCurrent`.

The argument: an id is copied from a link into the memory of a sync, into a
request, from an answer back into the sync and into the link. `KongOwnership`
covers all these places, and needs to know that an answer reaches the caller that
asked for it: `OwnRequests` says that the request of a job is for the link its
caller is on, `OwnJobs` that no two callers have a job in common and that it is
running, `OnItsLink` that a caller works on a link it has read. `IInv` is their
conjunction with `TypeOK`. What a step can do to the operation of one caller is
stated once (`OthersKept`, `FlightStep`, `EngagedStep`, `UpsertStep`,
`FlightEnds`) and cited by every proof about the step. `LinksAreChosen` adds
`EngagedByChoice` (whatever a sync has read was asked for, or is `stray`), and
`SyncOrphansHaveACause` adds `References` (the foreign keys of jobs).

`KongHasOne` and `StatusFollowsSync` rest on `LinksInv`: for a link that is not
`stray`, between a certificate and a target that are there, one sync at a time is
engaged (`Single`), a request on its way is the one that sync waits for (`Awaited`),
the id it has read is still the link's (`HeldStill`), Kong has what the link names or,
for as long as an answer is not stored, what the answer names (`Tracked`), and the
last job and the link say what that sync has done by now (`Progress`, `Agrees`). A
step either has nothing to do with the link (`AsideStep`, `AsideKeeps`), is the step
of the one sync at it (`WorksOn`), a sync that joins it (`JoinsLink`), an answer for it
(`AnswerComes`) or the user linking or unlinking it while it has nothing to lose
(`RelinkKeeps`). `SyncedHasTheFiles` adds `FreshInv`: a link that is not `stale` and
says synced has the version of the files in Kong, or a sync has it still to do, or a
renewal's sync is about to read it; what a sync has read is the version of the files
or again a renewal's sync is about to come. It is what makes the order in
`RenewCertificate` (first the files, then the sync) enough.

`SchedulerProofs` proves, for any calendar, expression, rows, callers and bounds:

* `TypeCorrect`: `Spec => []TypeOK`;
* `ChannelsClosedOnce`: `Spec => []ClosedOnce`;
* `StopIsFinal`: `Spec => []StoppedMeansGone`;
* `WakesAreAsked`: `Spec => []WakesAsAsked`.

The invariant is `TypeOK /\ Channels /\ Slept`. `Channels` says exactly when each
channel has been closed: `stopCh` with `stopped`, `doneCh` when the loop is gone or
the scheduler was stopped before it was started, and that a `Stop` has returned
only then; neither `ClosedOnce` nor `StoppedMeansGone` is inductive without it.
`Slept` says that the timer is what `Next` gave for the time the loop read.
What `Next` gives is then a matter of `Cron` alone: `NextIsFirst` (the least of
the minutes found, or the end of the search), `DateInRange` (every field of a
date is in the range of the parser, in any calendar), `SegmentAsAsked` and
`MatchesAsAsked` (the minutes that match a parsed expression are those each of
whose fields is one the expression asks for; a step `*/n` reaches the values
`from + k * n`).

Its theorems about time are

* `DueIsTriedInTime`: `Spec => []TriedInTime`;
* `WindowsAreNoticed`: `2 * Late < OneDay` gives `Spec => []WindowNoticed`;
* `EveryRunTriesTheActive`: `Spec => []ActiveIsTried`, what remains of the claim that
  `retried` refutes: `DueIsTried`, for certificates whose status is active;
* `RenewalsAreDue`: `Spec => RenewsOnlyDue`;
* `NewsAreDue`: `Spec => NotifiesOnlyDue`.

They rest on `TimeInv`, which replaces an account of all past runs by the time of the
last one. `Timed` puts every recorded time before the clock, and the clock no more
than `Late` after the time a run began or a timer was due. `Attempts` says that a
run leaves each certificate that was due when it began tried, or changed since; the
loop then sleeps with such a time (of the last run, of a query that failed, or of the
start) no more than `Late` before it fell asleep. `Notices` says the same of windows:
those that had opened before that time have been told. The step that matters is
`ListNews`: a window that had not opened by the run before opened no more than
`Between` ago, which is less than two days, so it is still open
(`NoticesKept`). `WakesWithinADay` brings in the schedule: from what an expression
asks for, through `MatchesAsAsked`, to the timer. The arithmetic of days rounded up is
`InWindow`, `OnlyInWindow` and `DueByDays`, for a day of any length. `Chosen` says that
what a run has still to do was due when it was listed, and is unless it has changed.

The hypothesis `2 * Late < OneDay` says that the timer and a run are each late by less
than half a day. It is not in the code: nothing bounds a run, which renews one certificate
after the other. It is needed: with `Late` at three quarters of a day TLC finds a window
that passes between two runs. Two assumptions on constants are checks of the code:
`RenewBefore` is not zero (`validateCertificateInput`, and a `CHECK` of the table), and a row
that is active has an expiry (`MarkIssued` sets both).

`KongTargetsProofs` proves `TypeCorrect`, `EditIsKept` (`Spec => []EditKept`),
`StatusIsOfLastTest` (`Spec => []StatusIsLastTest`) and `TestOrphans`
(`Spec => []TestOrphanCause`), for any targets, names and users: the row that a
goroutine will write is the row asked for plus its own change for as long as
nobody else has written (`stale`), which is what makes the writing back harmless.
`CertificateEditsProofs` proves `TypeCorrect` and `DomainsAreKept`
(`Spec => []DomainsAreIssued`) from the same kind of invariant: what a goroutine
holds agrees with the row and the chain until it is stale. `AccountsProofs` proves
`TypeCorrect` and `AccountIsWhole` (`Spec => []AccountWhole`): while nothing was
spoiled one client at most is writing a key, everybody else's key is the one in the
file, and an account file has the key of that file. `RecordsProofs` proves
`RecordsTyped`, `RecordsKeepDomains` and `RecordsKeepAccount`
(`RecordsSpec => []RecordsTypeOK`, `[]DomainsAreIssued`, `[]AccountWhole`): a step of
`Records` is a step of one record and a stutter of the others, so its behaviours are
behaviours of each, and their theorems apply.

The proofs use the assumptions on the constants that the modules name, and the two
hypotheses that are part of a theorem: `~ DbFaults` and `2 * Late < OneDay`. Every
invariant and every action property of the runs, and both refinements, are proved.
Liveness (`OperationsReturn`, `JobsFinish`, `ShutdownEnds`, `SyncsReturn`,
`StopReturns`) is out of the prover's reach and is checked by TLC only.

## 6. Not modelled

* A pair of files that is read by a sync while a renewal rewrites it
  (`kong_sync.go` 221): a renewal keeps the key, and Kong refuses a key that is
  not the certificate's, so the sync fails and is repeated.
* Migrations (`db.go` 53-110): each is applied and recorded in one transaction at
  start, before anything else runs; there is one process and nothing to interleave.
* The dialogue of lego with the CA and its DNS or HTTP challenge: external; it
  ends with a certificate or an error.
* Rendering, forms, filters and flash messages of the web interface, the text of
  notifications, Discord's message format: formatting only.
* The login cookie: signed, with an expiry, nothing kept. Configuration and health
  check: read once.

## 7. Plan

The composition of `ACME` and `KongSync`: a renewal followed by its sync.
