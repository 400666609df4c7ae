------------------------------- MODULE KongSync -------------------------------
(***************************************************************************)
(* Pushing certificates to Kong: internal/usecase/kong_sync.go over the    *)
(* links between certificates and targets, the sync jobs, and the Kong     *)
(* Admin APIs behind adapter/kong/admin_client.go.                         *)
(*                                                                         *)
(* A sync runs in the goroutine of a web request or of the scheduler, with *)
(* no lock: it reads the links once, then works through them target by     *)
(* target.  One action is one call to SQLite or the files, or one end of a *)
(* request to Kong.  A request that the client no longer waits for is      *)
(* still on its way, and Kong may serve it later.                          *)
(*                                                                         *)
(* The pair of PEM files is its version: each issue or renewal makes a new *)
(* one.  Version 0 is a certificate that has not been issued, Kong id 0 a  *)
(* link without one.                                                       *)
(***************************************************************************)
EXTENDS Integers, Sequences, FiniteSets

CONSTANTS
    Certs,       \* certificate ids
    Targets,     \* Kong target ids, numbers: links are worked through in order
    Callers,     \* goroutines that sync
    NoCert,      \* certificate_id is NULL
    NoTarget,    \* kong_target_id is NULL
    Deletable,   \* certificates and targets the user may delete
    MayAbandon,  \* may a caller's process end, or its context be cancelled?
    MaxVersion,  \* bound: versions of a pair
    MaxJobs      \* bound: a sync begins while there are fewer jobs

ASSUME NullAssumption    == NoCert \notin Certs /\ NoTarget \notin Targets
ASSUME TargetsAssumption == Targets \subseteq Nat
ASSUME AbandonAssumption == MayAbandon \in BOOLEAN
ASSUME BoundsAssumption  == MaxVersion \in Nat /\ MaxJobs \in Nat

VARIABLES
    certs,    \* certificates table: the rows there are
    targets,  \* kong_targets table
    links,    \* certificate_kong_targets table
    version,  \* version of the pair in the certificate's files
    jobs,     \* jobs table, the rows of type sync
    kong,     \* what the Kongs hold, by id, ids in order of creation
    net,      \* requests on their way to a Kong
    op,       \* the sync each caller is in, with its local variables
    chosen,   \* history: the links the user last asked for
    stray,    \* history: links that more than one request may have been for
    stale     \* history: links that a new version has passed by

vars == <<certs, targets, links, version, jobs, kong, net, op, chosen, stray, stale>>

-----------------------------------------------------------------------------
Links == Certs \X Targets

Link == [linked : BOOLEAN, id : Nat, status : {"not_synced", "synced", "failed"}]

NotLinked == [linked |-> FALSE, id |-> 0, status |-> "not_synced"]
NewLink   == [linked |-> TRUE, id |-> 0, status |-> "not_synced"]

Job == [cert    : Certs \cup {NoCert},
        target  : Targets \cup {NoTarget},
        status  : {"running", "success", "failed"},
        version : Nat]       \* history: the pair it read, 0 if it read none

Stored  == [for : Links, version : Nat]
Request == [for : Links, id : Nat, version : Nat, job : Nat]

Pcs == {"idle", "inputs", "files", "target", "create", "send", "wait", "upsert", "complete"}

Op == [pc      : Pcs,
       one     : BOOLEAN,             \* SyncCertificateTarget
       cert    : Certs \cup {NoCert},
       target  : Targets \cup {NoTarget},
       todo    : SUBSET Targets,      \* the links still to do
       held    : [Targets -> Nat],    \* their Kong ids when they were read
       version : Nat,                 \* what was read from the files
       job     : Nat,
       id      : Nat,                 \* the Kong id to be stored
       ok      : BOOLEAN]             \* syncErr = nil

Idle == [pc |-> "idle", one |-> FALSE, cert |-> NoCert, target |-> NoTarget,
         todo |-> {}, held |-> [t \in Targets |-> 0], version |-> 0, job |-> 0,
         id |-> 0, ok |-> FALSE]

Current(w) == <<op[w].cert, op[w].target>>

(* The links a caller has read and not yet finished with. *)
Engaged(w) == IF op[w].pc \in {"idle", "inputs"} THEN {} ELSE {op[w].cert} \X op[w].todo

Pending(p) == \E r \in net : r.for = p

TypeOK ==
    /\ certs \in SUBSET Certs
    /\ targets \in SUBSET Targets
    /\ links \in [Links -> Link]
    /\ version \in [Certs -> Nat]
    /\ jobs \in Seq(Job)
    /\ kong \in Seq(Stored)
    /\ net \in SUBSET Request
    /\ op \in [Callers -> Op]
    /\ chosen \in SUBSET Links /\ stray \in SUBSET Links /\ stale \in SUBSET Links

Init ==
    /\ certs = Certs
    /\ targets = Targets
    /\ links = [p \in Links |-> NotLinked]
    /\ version = [c \in Certs |-> 0]
    /\ jobs = << >>
    /\ kong = << >>
    /\ net = {}
    /\ op = [w \in Callers |-> Idle]
    /\ chosen = {} /\ stray = {} /\ stale = {}

-----------------------------------------------------------------------------
(* The other commands of the user. *)

(* Deletions take the links along and leave the jobs with a NULL. *)
DeleteCertificate(c) ==
    /\ c \in Deletable \cap certs
    /\ certs' = certs \ {c}
    /\ links' = [p \in Links |-> IF p[1] = c THEN NotLinked ELSE links[p]]
    /\ jobs' = [j \in DOMAIN jobs |->
                  IF jobs[j].cert = c THEN [jobs[j] EXCEPT !.cert = NoCert] ELSE jobs[j]]
    /\ UNCHANGED <<targets, version, kong, net, op, chosen, stray, stale>>

DeleteTarget(t) ==
    /\ t \in Deletable \cap targets
    /\ targets' = targets \ {t}
    /\ links' = [p \in Links |-> IF p[2] = t THEN NotLinked ELSE links[p]]
    /\ jobs' = [j \in DOMAIN jobs |->
                  IF jobs[j].target = t THEN [jobs[j] EXCEPT !.target = NoTarget] ELSE jobs[j]]
    /\ UNCHANGED <<certs, version, kong, net, op, chosen, stray, stale>>

\* variant: adds what is selected and takes nothing away
RelinkedAdding(c, selected) ==
    [p \in Links |-> IF p[1] = c /\ p[2] \in selected /\ ~ links[p].linked THEN NewLink
                     ELSE links[p]]

(* SetLinkedTargets: one transaction; INSERT OR IGNORE keeps a link as it is. *)
Relinked(c, selected) ==
    [p \in Links |-> IF p[1] # c THEN links[p]
                     ELSE IF p[2] \notin selected THEN NotLinked
                     ELSE IF links[p].linked THEN links[p] ELSE NewLink]

(* UpdateLinkedTargets. Unlinking deletes nothing in Kong. *)
SetLinkedTargets(c, selected) ==
    /\ c \in certs
    /\ selected \subseteq targets
    /\ links' = Relinked(c, selected)
    /\ chosen' = (chosen \ ({c} \X Targets)) \cup ({c} \X selected)
    /\ stray' = stray \cup {p \in {c} \X (Targets \ selected) :
                              \/ links[p] \notin {NotLinked, NewLink} \/ Pending(p)
                              \/ \E w \in Callers : p \in Engaged(w)}
    /\ UNCHANGED <<certs, targets, version, jobs, kong, net, op, stale>>

(* IssueCertificate pushes nothing to Kong, not even when it is repeated; nor
   does a renewal that fails once its files are written. *)
Issue(c) ==
    /\ c \in certs
    /\ version[c] < MaxVersion
    /\ version' = [version EXCEPT ![c] = @ + 1]
    /\ stale' = stale \cup ({c} \X Targets)
    /\ UNCHANGED <<certs, targets, links, jobs, kong, net, op, chosen, stray>>

-----------------------------------------------------------------------------
(* SyncCertificate and SyncCertificateTarget *)

Goto(w, pc) == op' = [op EXCEPT ![w].pc = pc]
Return(w)   == op' = [op EXCEPT ![w] = Idle]
At(w, pc)   == op[w].pc = pc

Begin(w, c) ==
    /\ At(w, "idle")
    /\ c \in certs => Len(jobs) + Cardinality({v \in Callers : op[v].pc # "idle"}) < MaxJobs

(* The end of RenewCertificate: a new pair is in place and is to be synced. *)
Renew(w, c) ==
    /\ Begin(w, c)
    /\ c \in certs
    /\ version[c] \in 1 .. MaxVersion - 1
    /\ version' = [version EXCEPT ![c] = @ + 1]
    /\ op' = [op EXCEPT ![w] = [Idle EXCEPT !.pc = "inputs", !.cert = c]]
    /\ UNCHANGED <<certs, targets, links, jobs, kong, net, chosen, stray, stale>>

Sync(w, c) ==
    /\ Begin(w, c)
    /\ op' = [op EXCEPT ![w] = [Idle EXCEPT !.pc = "inputs", !.cert = c]]
    /\ UNCHANGED <<certs, targets, links, version, jobs, kong, net, chosen, stray, stale>>

SyncTarget(w, c, t) ==
    /\ Begin(w, c)
    /\ op' = [op EXCEPT ![w] = [Idle EXCEPT !.pc = "inputs", !.cert = c, !.one = TRUE,
                                            !.target = t]]
    /\ UNCHANGED <<certs, targets, links, version, jobs, kong, net, chosen, stray, stale>>

(* syncInputs: the certificate's paths, and the links with their Kong ids. *)
Wanted(w) ==
    {t \in Targets : /\ links[<<op[w].cert, t>>].linked
                     /\ op[w].one => t = op[w].target}

ReadInputs(w) ==
    /\ At(w, "inputs")
    /\ IF Wanted(w) = {} THEN Return(w) /\ UNCHANGED stray
       ELSE LET c == op[w].cert
                shared == {p \in {c} \X Wanted(w) :
                             Pending(p) \/ \E v \in Callers : p \in Engaged(v)} IN
            /\ op' = [op EXCEPT ![w].pc = IF op[w].one THEN "target" ELSE "files",
                                ![w].todo = Wanted(w),
                                ![w].held = [t \in Targets |-> links[<<c, t>>].id],
                                ![w].version = version[c]]
            /\ stray' = stray \cup shared
    /\ UNCHANGED <<certs, targets, links, version, jobs, kong, net, chosen, stale>>

(* readCertificateFiles, by the paths of the row that was read. *)
ReadFiles(w) ==
    /\ At(w, "files")
    /\ op' = [op EXCEPT ![w].pc = IF op[w].one THEN "create" ELSE "target",
                        ![w].version = IF @ = 0 THEN 0 ELSE version[op[w].cert]]
    /\ UNCHANGED <<certs, targets, links, version, jobs, kong, net, chosen, stray, stale>>

(* targets.Get of the next link; a target that is gone is passed over. *)
NextTarget(w) ==
    /\ At(w, "target")
    /\ \E t \in op[w].todo :
         /\ \A u \in op[w].todo : t <= u
         /\ IF t \in targets
            THEN op' = [op EXCEPT ![w].pc = IF op[w].one THEN "files" ELSE "create",
                                  ![w].target = t]
            ELSE IF op[w].todo = {t} THEN Return(w)
            ELSE op' = [op EXCEPT ![w].todo = @ \ {t}]
    /\ UNCHANGED <<certs, targets, links, version, jobs, kong, net, chosen, stray, stale>>

(* The foreign keys of jobs and of links fail when a row is gone, and the
   whole sync ends there: the links still to do are left as they are. *)
Referenced(w) == op[w].cert \in certs /\ op[w].target \in targets

EndsEarly(w) == Return(w) /\ stale' = stale \cup Engaged(w)

\* variant: a job counts as failed until its end
NewJobFailed(w) == [cert |-> op[w].cert, target |-> op[w].target,
                    status |-> "failed", version |-> op[w].version]

NewJob(w) == [cert |-> op[w].cert, target |-> op[w].target,
              status |-> "running", version |-> op[w].version]

CreateJob(w) ==
    /\ At(w, "create")
    /\ IF Referenced(w)
       THEN /\ jobs' = Append(jobs, NewJob(w))
            /\ op' = [op EXCEPT ![w].job = Len(jobs) + 1,
                                ![w].pc = IF op[w].version = 0 THEN "upsert" ELSE "send",
                                ![w].ok = FALSE]
            /\ UNCHANGED stale
       ELSE EndsEarly(w) /\ UNCHANGED jobs
    /\ UNCHANGED <<certs, targets, links, version, kong, net, chosen, stray>>

(* AdminClient.SyncCertificate: POST without a Kong id, else PATCH of it. *)
RequestOf(w) == [for |-> Current(w), id |-> op[w].held[op[w].target],
                 version |-> op[w].version, job |-> op[w].job]

Send(w) ==
    /\ At(w, "send")
    /\ net' = net \cup {RequestOf(w)}
    /\ Goto(w, "wait")
    /\ UNCHANGED <<certs, targets, links, version, jobs, kong, chosen, stray, stale>>

(* The answer to a request, if its caller is still there to take it. *)
Answered(r, id, ok) ==
    op' = [w \in Callers |->
             IF op[w].pc = "wait" /\ op[w].job = r.job
             THEN [op[w] EXCEPT !.pc = "upsert", !.id = id, !.ok = ok] ELSE op[w]]

\* variant: takes the id of what was created last for its own
IdLast(r) == IF r.id = 0 THEN Len(kong) + 1 ELSE Len(kong)

IdAnswered(r) == IF r.id = 0 THEN Len(kong) + 1 ELSE r.id

Accept(r) ==
    /\ r \in net
    /\ net' = net \ {r}
    /\ kong' = IF r.id = 0 THEN Append(kong, [for |-> r.for, version |-> r.version])
               ELSE [kong EXCEPT ![r.id].version = r.version]
    /\ Answered(r, IdAnswered(r), TRUE)
    /\ UNCHANGED <<certs, targets, links, version, jobs, chosen, stray, stale>>

Refuse(r) ==
    /\ r \in net
    /\ net' = net \ {r}
    /\ Answered(r, r.id, FALSE)
    /\ UNCHANGED <<certs, targets, links, version, jobs, kong, chosen, stray, stale>>

NoTimeout(w) == FALSE        \* variant: an http.Client without a timeout
TimedOut(w) == At(w, "wait")

(* The http.Client gives up after its 5 seconds, or cannot read the answer
   it got: the request may have been served, or may still be. *)
Timeout(w) ==
    /\ TimedOut(w)
    /\ op' = [op EXCEPT ![w].pc = "upsert", ![w].ok = FALSE]
    /\ stray' = stray \cup {Current(w)}
    /\ UNCHANGED <<certs, targets, links, version, jobs, kong, net, chosen, stale>>

\* variant: a failure forgets the Kong id
LinkForgotten(w) ==
    [linked |-> TRUE, id |-> IF op[w].ok THEN op[w].id ELSE 0,
     status |-> IF op[w].ok THEN "synced" ELSE "failed"]

\* variant: a failure leaves the link as it was read
LinkUntouched(w) ==
    IF op[w].ok THEN [linked |-> TRUE, id |-> op[w].id, status |-> "synced"]
    ELSE links[Current(w)]

\* variant: the link gets the status of the job
LinkWithJobStatus(w) ==
    [linked |-> TRUE, id |-> IF op[w].ok THEN op[w].id ELSE op[w].held[op[w].target],
     status |-> IF op[w].ok THEN "success" ELSE "failed"]

(* The link as it was read, with what became of it. *)
LinkAfter(w) ==
    [linked |-> TRUE,
     id     |-> IF op[w].ok THEN op[w].id ELSE op[w].held[op[w].target],
     status |-> IF op[w].ok THEN "synced" ELSE "failed"]

(* History: the version that was pushed is still the one in the files. *)
BroughtUpToDate(w) == op[w].ok /\ op[w].version = version[op[w].cert]

(* UpsertSyncTarget: writes the whole row, and makes it anew if it is gone. *)
Upsert(w) ==
    /\ At(w, "upsert")
    /\ IF Referenced(w)
       THEN /\ links' = [links EXCEPT ![Current(w)] = LinkAfter(w)]
            /\ stale' = IF BroughtUpToDate(w) THEN stale \ {Current(w)} ELSE stale
            /\ Goto(w, "complete")
       ELSE EndsEarly(w) /\ UNCHANGED links
    /\ UNCHANGED <<certs, targets, version, jobs, kong, net, chosen, stray>>

\* variant: the outcome is only written when it is a success
OnlySuccessOutcome(w) == IF op[w].ok THEN "success" ELSE "running"

Outcome(w) == IF op[w].ok THEN "success" ELSE "failed"

(* jobs.Complete, and on to the next link. *)
Complete(w) ==
    /\ At(w, "complete")
    /\ jobs' = [jobs EXCEPT ![op[w].job].status = Outcome(w)]
    /\ IF op[w].todo = {op[w].target} THEN Return(w)
       ELSE op' = [op EXCEPT ![w].pc = "target", ![w].todo = @ \ {op[w].target}]
    /\ UNCHANGED <<certs, targets, links, version, kong, net, chosen, stray, stale>>

(* The process is killed, or App.Close has cancelled the scheduler's context
   and every call of it fails: the caller stops where it is. *)
Abandon(w) ==
    /\ MayAbandon
    /\ ~ At(w, "idle")
    /\ Return(w)
    /\ stray' = stray \cup Engaged(w)
    /\ stale' = stale \cup ({op[w].cert} \X Targets)
    /\ UNCHANGED <<certs, targets, links, version, jobs, kong, net, chosen>>

Step(w) ==
    \/ ReadInputs(w) \/ ReadFiles(w) \/ NextTarget(w) \/ CreateJob(w) \/ Send(w)
    \/ Timeout(w) \/ Upsert(w) \/ Complete(w)

Next ==
    \/ \E c \in Certs : DeleteCertificate(c) \/ Issue(c)
    \/ \E t \in Targets : DeleteTarget(t)
    \/ \E c \in Certs, selected \in SUBSET Targets : SetLinkedTargets(c, selected)
    \/ \E w \in Callers, c \in Certs : Renew(w, c) \/ Sync(w, c)
    \/ \E w \in Callers, c \in Certs, t \in Targets : SyncTarget(w, c, t)
    \/ \E w \in Callers : Step(w) \/ Abandon(w)
    \/ \E r \in net : Accept(r) \/ Refuse(r)

Spec == Init /\ [][Next]_vars

(* The goroutine of a sync keeps running, and its http.Client times out;
   Kong need not answer. *)
Fairness == \A w \in Callers : WF_vars(Step(w))

FairSpec == Spec /\ Fairness

-----------------------------------------------------------------------------
(* Safety *)

MadeFor(id, p) == id \in DOMAIN kong /\ kong[id].for = p

(* A Kong id, wherever it is kept (in a link, in the links a sync has read,
   in a request, in an answer not yet stored), is the one Kong gave to that
   certificate at that target, whatever has been unlinked, retried or served
   late: no sync ever writes over a certificate of another link. *)
KongOwnership ==
    /\ \A p \in Links : links[p].id # 0 => MadeFor(links[p].id, p)
    /\ \A r \in net : r.id # 0 => MadeFor(r.id, r.for)
    /\ \A w \in Callers :
          /\ \A p \in Engaged(w) :
                op[w].held[p[2]] # 0 => MadeFor(op[w].held[p[2]], p)
          /\ op[w].pc = "upsert" /\ op[w].ok => MadeFor(op[w].id, Current(w))

Quiet(p) == ~ Pending(p) /\ \A w \in Callers : p \notin Engaged(w)

(* What Kong holds for a link is the one certificate the link names, or none
   when it names none.  Excepted are links that two syncs were engaged on at
   once, that a client timed out on, that a caller abandoned, or that were
   taken away when they had something to lose. *)
OneKongCertificate ==
    \A p \in Links \ stray :
        links[p].linked /\ Quiet(p) =>
            {k \in DOMAIN kong : kong[k].for = p} =
                IF links[p].id = 0 THEN {} ELSE {links[p].id}

(* When nothing is in progress for a certificate, a link that says synced
   means that Kong has the pair that is in the files: every renewal reaches
   every link.  Excepted are the same links, and those that an issue, a
   renewal that failed before its sync or a sync that ended early has passed
   by, until the next sync succeeds. *)
SyncedIsCurrent ==
    \A p \in Links \ (stray \cup stale) :
        /\ links[p].status = "synced" /\ \A w \in Callers : op[w].cert # p[1]
        => kong[links[p].id].version = version[p[1]]

JobsOf(p) == {j \in DOMAIN jobs : jobs[j].cert = p[1] /\ jobs[j].target = p[2]}

(* The link tells what its last job did: that Kong has the version the job
   read, or that the job failed. *)
StatusAgreesWithSync ==
    \A p \in Links \ stray, k \in DOMAIN jobs :
        /\ links[p].linked /\ Quiet(p)
        /\ k \in JobsOf(p) /\ \A j \in JobsOf(p) : j <= k /\ jobs[j].status # "running"
        => /\ jobs[k].status = "success" =>
                /\ links[p].status = "synced"
                /\ kong[links[p].id].version = jobs[k].version
           /\ jobs[k].status = "failed" => links[p].status = "failed"

(* A link the user has taken away comes back only by a sync that was engaged
   on it then, never later. *)
LinkedByChoice ==
    \A p \in Links : links[p].linked => p \in chosen \/ p \in stray

InFlight(w) == op[w].pc \in {"send", "wait", "upsert", "complete"}

(* A sync job stays running with nobody working on it only when its
   certificate or its target was deleted, or its caller was abandoned. *)
SyncOrphanCause ==
    \A j \in DOMAIN jobs :
        /\ jobs[j].status = "running"
        /\ ~ \E w \in Callers : InFlight(w) /\ op[w].job = j
        => \/ jobs[j].cert = NoCert \/ jobs[j].target = NoTarget
           \/ MayAbandon /\ <<jobs[j].cert, jobs[j].target>> \in stray

(* The sync jobs keep the promise of the job log, as issue and renew do. *)
LogView == [j \in DOMAIN jobs |-> [status |-> jobs[j].status, cert |-> jobs[j].cert]]

Log == INSTANCE JobLog WITH log <- LogView

SyncKeepsJobLog == Log!Spec

(* A sync returns, whether or not Kong answers: the client's timeout. *)
SyncsReturn == \A w \in Callers : op[w].pc # "idle" ~> op[w].pc = "idle"

-----------------------------------------------------------------------------
(* What the documentation says and the code does not keep. *)

(* docs/ARCHITECTURE.md:206, "Track kong_certificate_id per Kong target": of
   a link, there is no certificate in Kong that its link does not name. *)
KongIdIsTracked ==
    \A k \in DOMAIN kong :
        LET p == kong[k].for IN links[p].linked /\ Quiet(p) => links[p].id = k
=============================================================================
