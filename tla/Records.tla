-------------------------------- MODULE Records --------------------------------
(***************************************************************************)
(* The three records that are read, kept while something else is asked,    *)
(* and written back: Kong targets, the domains of certificates, and the    *)
(* account directory of the ACME client.  They are in other tables and     *)
(* files, and no operation waits for one of another record.                *)
(***************************************************************************)
EXTENDS KongTargets

CONSTANTS Certs, Editors, NoCert, MaxLists, Clients, MaxKeys

VARIABLES
    certs, chain, editor, doubtful,
    keyThere, keyFile, accountThere, accountFile, registered, made, client, spoiled

C == INSTANCE CertificateEdits
A == INSTANCE Accounts

certificateVars == <<certs, chain, editor, doubtful>>
accountVars     == <<keyThere, keyFile, accountThere, accountFile, registered, made, client,
                     spoiled>>
recordVars      == <<vars, certificateVars, accountVars>>

TargetsMove      == Next /\ UNCHANGED <<certificateVars, accountVars>>
CertificatesMove == C!Next /\ UNCHANGED <<vars, accountVars>>
AccountsMove     == A!Next /\ UNCHANGED <<vars, certificateVars>>

RecordsInit == Init /\ C!Init /\ A!Init
RecordsNext == TargetsMove \/ CertificatesMove \/ AccountsMove
RecordsSpec == RecordsInit /\ [][RecordsNext]_recordVars

-----------------------------------------------------------------------------
(* Properties *)

(* The variables of each record keep their types. *)
RecordsTypeOK == TypeOK /\ C!TypeOK /\ A!TypeOK

(* The row of an issued certificate shows the domains of its chain. *)
DomainsAreIssued == C!DomainsAreIssued

(* The account's two files are whole and belong together. *)
AccountWhole == A!AccountWhole

=============================================================================
