----------------------------- MODULE RecordsProofs -----------------------------
(***************************************************************************)
(* The records keep, side by side, what each of them keeps alone: a move   *)
(* of one is a stutter of the others.  The theorems about each are those   *)
(* of its own module of proofs; the lemmas Same... say that the instance   *)
(* there is the one of Records.                                            *)
(***************************************************************************)
EXTENDS Records, KongTargetsProofs

CP == INSTANCE CertificateEditsProofs
AP == INSTANCE AccountsProofs

LEMMA SameCertificates ==
    /\ C!Init <=> CP!Init
    /\ C!Next <=> CP!Next
    /\ C!TypeOK <=> CP!TypeOK
    /\ C!DomainsAreIssued <=> CP!DomainsAreIssued
  <1>1. C!Init <=> CP!Init
    BY Zenon DEF C!Init, CP!Init, C!NoRow, CP!NoRow, C!Idle, CP!Idle
  <1>2. C!Next <=> CP!Next
    BY Zenon DEF C!Next, CP!Next, C!Create, CP!Create, C!Delete, CP!Delete,
       C!BeginEdit, CP!BeginEdit, C!BeginIssue, CP!BeginIssue, C!BeginRenew, CP!BeginRenew,
       C!StoreEdit, CP!StoreEdit, C!ReadExisting, CP!ReadExisting, C!WriteFiles, CP!WriteFiles,
       C!MarkIssued, CP!MarkIssued, C!Fail, CP!Fail, C!Abandon, CP!Abandon,
       C!IsIssuedCertificate, CP!IsIssuedCertificate, C!Edited, CP!Edited,
       C!DomainsRenewed, CP!DomainsRenewed, C!Touched, CP!Touched, C!Doubt, CP!Doubt,
       C!Return, CP!Return, C!Lists, CP!Lists, C!NoRow, CP!NoRow, C!Idle, CP!Idle
  <1>3. C!TypeOK <=> CP!TypeOK
    BY Zenon DEF C!TypeOK, CP!TypeOK, C!Cert, CP!Cert, C!Editor, CP!Editor, C!Lists, CP!Lists
  <1>4. C!DomainsAreIssued <=> CP!DomainsAreIssued
    BY Zenon DEF C!DomainsAreIssued, CP!DomainsAreIssued
  <1> QED
    BY <1>1, <1>2, <1>3, <1>4

LEMMA SameAccounts ==
    /\ A!Init <=> AP!Init
    /\ A!Next <=> AP!Next
    /\ A!TypeOK <=> AP!TypeOK
    /\ A!AccountWhole <=> AP!AccountWhole
  <1>1. A!Init <=> AP!Init
    BY Zenon DEF A!Init, AP!Init, A!Idle, AP!Idle
  <1>2. A!Next <=> AP!Next
    <2>1. A!Crash <=> AP!Crash
      BY Zenon DEF A!Crash, AP!Crash, A!Cut, AP!Cut, A!Idle, AP!Idle, A!files, AP!files
    <2>2. \A c \in Clients :
            /\ A!Begin(c) <=> AP!Begin(c)
            /\ A!LoadKey(c) <=> AP!LoadKey(c)
            /\ A!GenerateKey(c) <=> AP!GenerateKey(c)
            /\ A!OpenKey(c) <=> AP!OpenKey(c)
            /\ A!WriteKey(c) <=> AP!WriteKey(c)
      BY Zenon DEF A!Begin, AP!Begin, A!LoadKey, AP!LoadKey, A!GenerateKey, AP!GenerateKey,
         A!OpenKey, AP!OpenKey, A!WriteKey, AP!WriteKey, A!Goto, AP!Goto, A!WithNewKey,
         AP!WithNewKey, A!KeyFound, AP!KeyFound, A!Idle, AP!Idle, A!files, AP!files
    <2>3. \A c \in Clients :
            /\ A!LoadAccount(c) <=> AP!LoadAccount(c)
            /\ A!Register(c) <=> AP!Register(c)
            /\ A!OpenAccount(c) <=> AP!OpenAccount(c)
            /\ A!WriteAccount(c) <=> AP!WriteAccount(c)
            /\ A!Order(c) <=> AP!Order(c)
            /\ A!Fail(c) <=> AP!Fail(c)
      BY Zenon DEF A!LoadAccount, AP!LoadAccount, A!Register, AP!Register, A!OpenAccount,
         AP!OpenAccount, A!WriteAccount, AP!WriteAccount, A!Order, AP!Order, A!Fail, AP!Fail,
         A!Goto, AP!Goto, A!Return, AP!Return, A!Cut, AP!Cut, A!Idle, AP!Idle, A!files, AP!files
    <2> QED
      BY <2>1, <2>2, <2>3, Zenon DEF A!Next, AP!Next
  <1>3. A!TypeOK <=> AP!TypeOK
    BY Zenon DEF A!TypeOK, AP!TypeOK, A!Client, AP!Client
  <1>4. A!AccountWhole <=> AP!AccountWhole
    BY Zenon DEF A!AccountWhole, AP!AccountWhole, A!Settled, AP!Settled
  <1> QED
    BY <1>1, <1>2, <1>3, <1>4

-----------------------------------------------------------------------------
(* A behaviour of the records is one of each of them. *)

LEMMA OfTargets == RecordsSpec => Spec
  <1>1. RecordsInit => Init
    BY DEF RecordsInit
  <1>2. [RecordsNext]_recordVars => [Next]_vars
    BY DEF RecordsNext, TargetsMove, CertificatesMove, AccountsMove, recordVars, vars
  <1> QED
    BY <1>1, <1>2, PTL DEF RecordsSpec, Spec

LEMMA OfCertificates == RecordsSpec => CP!Spec
  <1>1. RecordsInit => CP!Init
    BY SameCertificates DEF RecordsInit
  <1>2. [RecordsNext]_recordVars => [CP!Next]_CP!vars
    BY SameCertificates DEF RecordsNext, TargetsMove, CertificatesMove, AccountsMove, recordVars,
       certificateVars, CP!vars
  <1> QED
    BY <1>1, <1>2, PTL DEF RecordsSpec, CP!Spec

LEMMA OfAccounts == RecordsSpec => AP!Spec
  <1>1. RecordsInit => AP!Init
    BY SameAccounts DEF RecordsInit
  <1>2. [RecordsNext]_recordVars => [AP!Next]_AP!vars
    BY SameAccounts DEF RecordsNext, TargetsMove, CertificatesMove, AccountsMove, recordVars,
       accountVars, AP!vars, AP!files
  <1> QED
    BY <1>1, <1>2, PTL DEF RecordsSpec, AP!Spec

-----------------------------------------------------------------------------

(* The three records keep their types side by side. *)
THEOREM RecordsTyped == RecordsSpec => []RecordsTypeOK
  <1>1. TypeOK /\ CP!TypeOK /\ AP!TypeOK => RecordsTypeOK
    BY SameCertificates, SameAccounts DEF RecordsTypeOK
  <1> QED
    BY <1>1, OfTargets, TypeCorrect, OfCertificates, CP!TypeCorrect, OfAccounts, AP!TypeCorrect, PTL

(* certificate.go 153-174 beside acme.go: the locked domains are those of the chain,
   whatever happens to targets and accounts meanwhile. *)
THEOREM RecordsKeepDomains == RecordsSpec => []DomainsAreIssued
  <1>1. CP!DomainsAreIssued => DomainsAreIssued
    BY SameCertificates DEF DomainsAreIssued
  <1> QED
    BY <1>1, OfCertificates, CP!DomainsAreKept, PTL

(* lego_client.go 197-267: the account's files are whole and belong together,
   whatever happens to targets and certificates meanwhile. *)
THEOREM RecordsKeepAccount == RecordsSpec => []AccountWhole
  <1>1. AP!AccountWhole => AccountWhole
    BY SameAccounts DEF AccountWhole
  <1> QED
    BY <1>1, OfAccounts, AP!AccountIsWhole, PTL

=============================================================================
