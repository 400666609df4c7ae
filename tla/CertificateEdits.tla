--------------------------- MODULE CertificateEdits ---------------------------
(***************************************************************************)
(* The domains of a certificate: the edits of internal/usecase/            *)
(* certificate.go beside the issues and renewals of acme.go.               *)
(*                                                                         *)
(* Once a certificate is issued its domains are locked, and that is        *)
(* decided from a row read before the write; an issue reads the domains,   *)
(* asks the CA, and marks the row issued later.  Of an issue only the      *)
(* steps at the row and at the chain are kept here; its jobs, its failures *)
(* and what keeps two of them apart are module ACME: here any two may      *)
(* overlap.  A list of domains is a number, 0 for none; the SNIs go the    *)
(* same way.                                                               *)
(***************************************************************************)
EXTENDS Naturals

CONSTANTS
    Certs,     \* certificate ids
    Editors,   \* goroutines that edit, issue and renew
    NoCert,    \* no certificate
    MaxLists   \* bound: lists of domains

VARIABLES
    certs,     \* certificates table
    chain,     \* the domains of the chain in the certificate's file
    editor,    \* what each goroutine is doing, with its local variables
    doubtful   \* history: certificates for which an edit and an issue overlapped

vars == <<certs, chain, editor, doubtful>>

-----------------------------------------------------------------------------
Lists  == 1 .. MaxLists

Cert   == [there : BOOLEAN, domains : {0} \cup Lists,
           issued : BOOLEAN,                         \* the paths and expires_at are set
           status : {"pending", "active", "failed"}]
Editor == [pc      : {"idle", "edit", "issue", "renew", "mark"},
           cert    : Certs \cup {NoCert},
           domains : {0} \cup Lists,
           stale   : BOOLEAN]    \* history: row or chain have changed since it read the row

NoRow == [there |-> FALSE, domains |-> 0, issued |-> FALSE, status |-> "pending"]
Idle  == [pc |-> "idle", cert |-> NoCert, domains |-> 0, stale |-> FALSE]

TypeOK ==
    /\ certs \in [Certs -> Cert]
    /\ chain \in [Certs -> {0} \cup Lists]
    /\ editor \in [Editors -> Editor]
    /\ doubtful \in SUBSET Certs

Init ==
    /\ certs = [c \in Certs |-> NoRow]
    /\ chain = [c \in Certs |-> 0]
    /\ editor = [e \in Editors |-> Idle]
    /\ doubtful = {}

-----------------------------------------------------------------------------
(* All the others that have read the row, when it or the chain changes. *)
Touched(e, c, changed, after) ==
    [f \in Editors |-> IF f = e THEN after
                       ELSE IF editor[f].cert = c /\ changed
                            THEN [editor[f] EXCEPT !.stale = TRUE]
                       ELSE editor[f]]

Return(e) == editor' = [editor EXCEPT ![e] = Idle]

Doubt(e, c) == doubtful' = IF editor[e].stale THEN doubtful \cup {c} ELSE doubtful

(* Ids are not used twice. *)
Create(c) ==
    /\ certs[c].domains = 0
    /\ \E d \in Lists : certs' = [certs EXCEPT ![c] = [NoRow EXCEPT !.there = TRUE, !.domains = d]]
    /\ UNCHANGED <<chain, editor, doubtful>>

(* The files stay. *)
Delete(c) ==
    /\ certs[c].there
    /\ certs' = [certs EXCEPT ![c].there = FALSE]
    /\ UNCHANGED <<chain, editor, doubtful>>

\* variant: goes by the status
IsActiveCertificate(r) == r.status = "active"

IsIssuedCertificate(r) == r.issued

(* Update: the row is read, and its domains take the place of those in the form
   if it is issued; a list that is empty is refused. *)
BeginEdit(e, c) ==
    /\ editor[e].pc = "idle"
    /\ certs[c].there
    /\ \E d \in Lists :
        editor' = [editor EXCEPT ![e] =
                     [Idle EXCEPT !.pc = "edit", !.cert = c,
                                  !.domains = IF IsIssuedCertificate(certs[c])
                                              THEN certs[c].domains ELSE d]]
    /\ UNCHANGED <<certs, chain, doubtful>>

(* Paths, expiry and status are not in the statement. *)
Edited(r, d) == [r EXCEPT !.domains = d]

StoreEdit(e) ==
    LET c == editor[e].cert
        d == editor[e].domains IN
    /\ editor[e].pc = "edit"
    /\ certs[c].there
    /\ certs' = [certs EXCEPT ![c] = Edited(@, d)]
    /\ editor' = Touched(e, c, d # certs[c].domains, Idle)
    /\ Doubt(e, c)
    /\ UNCHANGED chain

-----------------------------------------------------------------------------
(* IssueCertificate and RenewCertificate, at the row and at the chain *)

BeginIssue(e, c) ==
    /\ editor[e].pc = "idle"
    /\ certs[c].there
    /\ editor' = [editor EXCEPT ![e] = [Idle EXCEPT !.pc = "issue", !.cert = c,
                                                    !.domains = certs[c].domains]]
    /\ UNCHANGED <<certs, chain, doubtful>>

(* lego's Renew takes the domains from the old chain, whatever the row says. *)
DomainsRenewed(c) == chain[c]

(* A certificate without paths has no chain to renew. *)
BeginRenew(e, c) ==
    /\ editor[e].pc = "idle"
    /\ certs[c].there /\ certs[c].issued
    /\ editor' = [editor EXCEPT ![e] = [Idle EXCEPT !.pc = "renew", !.cert = c]]
    /\ UNCHANGED <<certs, chain, doubtful>>

ReadExisting(e) ==
    /\ editor[e].pc = "renew"
    /\ editor' = [editor EXCEPT ![e].pc = "issue",
                                ![e].domains = DomainsRenewed(editor[e].cert)]
    /\ UNCHANGED <<certs, chain, doubtful>>

WriteFiles(e) ==
    LET c == editor[e].cert IN
    /\ editor[e].pc = "issue"
    /\ chain' = [chain EXCEPT ![c] = editor[e].domains]
    /\ editor' = Touched(e, c, editor[e].domains # chain[c], [editor[e] EXCEPT !.pc = "mark"])
    /\ Doubt(e, c)
    /\ UNCHANGED certs

MarkIssued(e) ==
    LET c == editor[e].cert IN
    /\ editor[e].pc = "mark"
    /\ certs[c].there
    /\ certs' = [certs EXCEPT ![c].issued = TRUE, ![c].status = "active"]
    /\ editor' = Touched(e, c, ~ certs[c].issued, Idle)
    /\ Doubt(e, c)
    /\ UNCHANGED chain

(* failIssue, failRenew: the CA refuses, or a file cannot be read or written; the
   key comes after the chain.  (A chain that is cut off half-way: module ACME.) *)
Fail(e) ==
    LET c == editor[e].cert IN
    /\ editor[e].pc \in {"issue", "renew", "mark"}
    /\ certs' = IF certs[c].there THEN [certs EXCEPT ![c].status = "failed"] ELSE certs
    /\ Return(e)
    /\ UNCHANGED <<chain, doubtful>>

(* The row is gone, a call to SQLite fails, or the process ends. *)
Abandon(e) ==
    /\ editor[e].pc # "idle"
    /\ Return(e)
    /\ UNCHANGED <<certs, chain, doubtful>>

Next ==
    \/ \E c \in Certs : Create(c) \/ Delete(c)
    \/ \E e \in Editors, c \in Certs : BeginEdit(e, c) \/ BeginIssue(e, c) \/ BeginRenew(e, c)
    \/ \E e \in Editors : \/ StoreEdit(e) \/ ReadExisting(e) \/ WriteFiles(e) \/ MarkIssued(e)
                          \/ Fail(e) \/ Abandon(e)

Spec == Init /\ [][Next]_vars

-----------------------------------------------------------------------------
(* Properties *)

(* The domains that the row of an issued certificate shows, and that an edit
   cannot change any more, are those of the chain in its file: unless an edit
   and an issue, or two issues, have overlapped between their reading of the row
   and their writing. *)
DomainsAreIssued ==
    \A c \in Certs :
        certs[c].there /\ certs[c].issued /\ c \notin doubtful => chain[c] = certs[c].domains

=============================================================================
