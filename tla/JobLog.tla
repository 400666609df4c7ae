------------------------------- MODULE JobLog -------------------------------
(***************************************************************************)
(* What the job log promises to the people who read it and to the code     *)
(* that decides from it: a job is recorded running, for a certificate or   *)
(* for none; it is given one outcome, once; only a job that has an outcome *)
(* is ever removed; ids are handed out in order and never reused.          *)
(*                                                                         *)
(* internal/usecase/job.go does not enforce this by itself (Complete       *)
(* writes the outcome without looking at the status it replaces): that the *)
(* callers keep the promise is the refinement the ACME module shows.       *)
(***************************************************************************)
EXTENDS Naturals, Sequences

CONSTANTS Certs,   \* certificate ids
          NoCert   \* certificate_id is NULL

VARIABLE log       \* log[j] is the job with id j

Outcomes == {"success", "failed"}

Entries == [status : {"running", "deleted"} \cup Outcomes,
            cert   : Certs \cup {NoCert}]

(* INSERT INTO jobs: the next id, running *)
Record(c) == log' = Append(log, [status |-> "running", cert |-> c])

(* the outcome of a running job *)
Finish(j, outcome) ==
    /\ log[j].status = "running"
    /\ log' = [log EXCEPT ![j].status = outcome]

(* ClearCompleted: every job with an outcome goes, no running one does *)
Clear ==
    log' = [j \in DOMAIN log |->
              IF log[j].status \in Outcomes
              THEN [log[j] EXCEPT !.status = "deleted"] ELSE log[j]]

(* ON DELETE SET NULL: the certificate's jobs outlive it *)
Detach(c) ==
    log' = [j \in DOMAIN log |->
              IF log[j].cert = c THEN [log[j] EXCEPT !.cert = NoCert] ELSE log[j]]

Init == log = << >>

Next ==
    \/ \E c \in Certs : Record(c)
    \/ \E j \in DOMAIN log, o \in Outcomes : Finish(j, o)
    \/ Clear
    \/ \E c \in Certs : Detach(c)

Spec == Init /\ [][Next]_log
=============================================================================
