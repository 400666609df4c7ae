------------------------ MODULE CertificateEditsProofs ------------------------
(***************************************************************************)
(* Proofs about CertificateEdits, for any certificates and editors.        *)
(*                                                                         *)
(* The invariant says what a goroutine that is not stale knows of the row  *)
(* and of the chain: an edit brings the domains the row has, once it is    *)
(* issued; an issue asks for those of the row, and what it has written is  *)
(* the chain.                                                              *)
(***************************************************************************)
EXTENDS CertificateEdits, TLAPS

(* Rows have domains, and so has whatever is taken from them. *)
Named ==
    /\ \A c \in Certs : certs[c].there => certs[c].domains # 0
    /\ \A e \in Editors :
        editor[e].pc # "idle" =>
            /\ editor[e].cert \in Certs
            /\ certs[editor[e].cert].domains # 0
            /\ editor[e].pc = "edit" => editor[e].domains # 0
            /\ editor[e].pc = "renew" => certs[editor[e].cert].issued

Knows(e) ==
    LET c == editor[e].cert IN
    /\ editor[e].pc = "edit" /\ certs[c].issued => editor[e].domains = certs[c].domains
    /\ editor[e].pc = "issue" => editor[e].domains = certs[c].domains
    /\ editor[e].pc = "mark" => chain[c] = certs[c].domains

Agreed ==
    /\ \A c \in Certs \ doubtful : certs[c].issued => chain[c] = certs[c].domains
    /\ \A e \in Editors :
        editor[e].pc # "idle" /\ ~ editor[e].stale /\ editor[e].cert \notin doubtful => Knows(e)

IInv == TypeOK /\ Named /\ Agreed

-----------------------------------------------------------------------------
(* What a step does to the goroutines and to the rows. *)

LEMMA EditorParts ==
    ASSUME TypeOK, NEW e \in Editors
    PROVE  /\ editor[e] \in Editor /\ editor[e].cert \in Certs \cup {NoCert}
           /\ editor[e].domains \in {0} \cup Lists /\ editor[e].stale \in BOOLEAN
  <1>1. editor[e] \in Editor
    BY DEF TypeOK
  <1> QED
    BY <1>1 DEF Editor

LEMMA RowParts ==
    ASSUME TypeOK, NEW c \in Certs
    PROVE  /\ certs[c] \in Cert /\ certs[c].there \in BOOLEAN
           /\ certs[c].domains \in {0} \cup Lists /\ certs[c].issued \in BOOLEAN
           /\ certs[c].status \in {"pending", "active", "failed"}
  <1>1. certs[c] \in Cert
    BY DEF TypeOK
  <1> QED
    BY <1>1 DEF Cert

LEMMA Constants ==
    /\ Idle \in Editor /\ Idle.pc = "idle" /\ NoRow \in Cert
    /\ \A d \in Lists : d # 0
  BY DEF Idle, Editor, NoRow, Cert, Lists

Put(e, h) ==
    /\ editor' \in [Editors -> Editor]
    /\ editor'[e] = h
    /\ \A f \in Editors \ {e} : editor'[f] = editor[f]

PutTouching(e, c, changed, h) ==
    /\ editor' \in [Editors -> Editor]
    /\ editor'[e] = h
    /\ \A f \in Editors \ {e} :
        /\ editor'[f].pc = editor[f].pc /\ editor'[f].cert = editor[f].cert
        /\ editor'[f].domains = editor[f].domains
        /\ ~ editor'[f].stale => ~ editor[f].stale /\ ~ (editor[f].cert = c /\ changed)

LEMMA Moved ==
    ASSUME TypeOK, NEW e \in Editors, NEW h \in Editor, editor' = [editor EXCEPT ![e] = h]
    PROVE  Put(e, h)
  BY DEF TypeOK, Put

LEMMA Returned ==
    ASSUME TypeOK, NEW e \in Editors, Return(e)
    PROVE  Put(e, Idle)
  BY Moved, Constants DEF Return

LEMMA TouchedOthers ==
    ASSUME TypeOK, NEW e \in Editors, NEW c \in Certs, NEW changed \in BOOLEAN,
           NEW h \in Editor, editor' = Touched(e, c, changed, h)
    PROVE  PutTouching(e, c, changed, h)
  <1> DEFINE s(f) == [editor[f] EXCEPT !.stale = TRUE]
  <1>1. \A f \in Editors :
          /\ s(f) \in Editor /\ s(f).pc = editor[f].pc /\ s(f).cert = editor[f].cert
          /\ s(f).domains = editor[f].domains /\ s(f).stale
    BY EditorParts DEF Editor
  <1>2. editor' = [f \in Editors |-> IF f = e THEN h
                                     ELSE IF editor[f].cert = c /\ changed THEN s(f)
                                     ELSE editor[f]]
    BY DEF Touched
  <1> HIDE DEF s
  <1>3. editor' \in [Editors -> Editor]
    BY <1>1, <1>2, EditorParts
  <1>4. editor'[e] = h
    BY <1>2
  <1>5. ASSUME NEW f \in Editors \ {e}
        PROVE  /\ editor'[f].pc = editor[f].pc /\ editor'[f].cert = editor[f].cert
               /\ editor'[f].domains = editor[f].domains
               /\ ~ editor'[f].stale => ~ editor[f].stale /\ ~ (editor[f].cert = c /\ changed)
    <2>1. CASE editor[f].cert = c /\ changed
      BY <1>1, <1>2, <2>1
    <2>2. CASE ~ (editor[f].cert = c /\ changed)
      BY <1>2, <2>2
    <2> QED
      BY <2>1, <2>2
  <1> QED
    BY <1>3, <1>4, <1>5 DEF PutTouching

SetRow(c, r) ==
    /\ certs' \in [Certs -> Cert]
    /\ certs'[c] = r
    /\ \A d \in Certs \ {c} : certs'[d] = certs[d]

LEMMA RowSet ==
    ASSUME TypeOK, NEW c \in Certs, NEW r \in Cert, certs' = [certs EXCEPT ![c] = r]
    PROVE  SetRow(c, r)
  BY DEF TypeOK, SetRow

LEMMA Doubted ==
    ASSUME TypeOK, NEW e \in Editors, NEW c \in Certs, Doubt(e, c)
    PROVE  /\ doubtful' \in SUBSET Certs /\ doubtful \subseteq doubtful'
           /\ editor[e].stale => c \in doubtful'
  BY DEF TypeOK, Doubt

-----------------------------------------------------------------------------
(* Each step keeps the invariant. *)

LEMMA CreateKeeps ==
    ASSUME IInv, NEW c \in Certs, Create(c)
    PROVE  IInv'
  <1>1. PICK d \in Lists :
          certs' = [certs EXCEPT ![c] = [NoRow EXCEPT !.there = TRUE, !.domains = d]]
    BY DEF Create
  <1> DEFINE r == [NoRow EXCEPT !.there = TRUE, !.domains = d]
  <1>2. r \in Cert /\ r.domains # 0 /\ r.issued = FALSE
    BY Constants DEF NoRow, Cert
  <1> HIDE DEF r
  <1>3. SetRow(c, r)
    BY <1>1, <1>2, RowSet DEF IInv, r
  <1>4. certs[c].domains = 0 /\ UNCHANGED <<chain, editor, doubtful>>
    BY DEF Create
  <1>5. TypeOK'
    BY <1>3, <1>4 DEF IInv, TypeOK, SetRow
  <1>6. \A e \in Editors : editor[e].pc # "idle" => editor[e].cert \in Certs \ {c}
    BY <1>4 DEF IInv, Named
  <1>7. Named'
    BY <1>2, <1>3, <1>4, <1>6 DEF IInv, Named, SetRow
  <1>8. Agreed'
    BY <1>2, <1>3, <1>4, <1>6 DEF IInv, Agreed, Knows, SetRow
  <1> QED
    BY <1>5, <1>7, <1>8 DEF IInv

LEMMA DeleteKeeps ==
    ASSUME IInv, NEW c \in Certs, Delete(c)
    PROVE  IInv'
  <1> DEFINE r == [certs[c] EXCEPT !.there = FALSE]
  <1>1. r \in Cert /\ r.domains = certs[c].domains /\ r.issued = certs[c].issued /\ ~ r.there
    BY RowParts DEF Cert, IInv
  <1>2. certs' = [certs EXCEPT ![c] = r] /\ UNCHANGED <<chain, editor, doubtful>>
    BY DEF Delete
  <1> HIDE DEF r
  <1>3. SetRow(c, r)
    BY <1>1, <1>2, RowSet DEF IInv
  <1>4. TypeOK'
    BY <1>2, <1>3 DEF IInv, TypeOK, SetRow
  <1>5. Named'
    BY <1>1, <1>2, <1>3 DEF IInv, Named, SetRow
  <1>6. Agreed'
    BY <1>1, <1>2, <1>3, <1>5 DEF IInv, Agreed, Named, Knows, SetRow
  <1> QED
    BY <1>4, <1>5, <1>6 DEF IInv

(* Beginning: what is read agrees with the row. *)
LEMMA BeginKeeps ==
    ASSUME IInv, NEW e \in Editors, NEW c \in Certs,
           BeginEdit(e, c) \/ BeginIssue(e, c) \/ BeginRenew(e, c)
    PROVE  IInv'
  <1>1. /\ certs[c].there /\ UNCHANGED <<certs, chain, doubtful>>
        /\ certs[c].domains # 0
    BY DEF BeginEdit, BeginIssue, BeginRenew, IInv, Named
  <1>2. PICK h \in Editor :
          /\ editor' = [editor EXCEPT ![e] = h]
          /\ h.cert = c /\ ~ h.stale /\ h.pc \in {"edit", "issue", "renew"}
          /\ h.pc = "edit" => /\ h.domains # 0
                              /\ certs[c].issued => h.domains = certs[c].domains
          /\ h.pc = "issue" => h.domains = certs[c].domains
          /\ h.pc = "renew" => certs[c].issued
    <2>1. CASE BeginEdit(e, c)
      <3>1. PICK d \in Lists :
              editor' = [editor EXCEPT ![e] =
                           [Idle EXCEPT !.pc = "edit", !.cert = c,
                                        !.domains = IF IsIssuedCertificate(certs[c])
                                                    THEN certs[c].domains ELSE d]]
        BY <2>1 DEF BeginEdit
      <3> DEFINE n == IF IsIssuedCertificate(certs[c]) THEN certs[c].domains ELSE d
                 h == [Idle EXCEPT !.pc = "edit", !.cert = c, !.domains = n]
      <3>2. n \in {0} \cup Lists /\ n # 0 /\ (certs[c].issued => n = certs[c].domains)
        BY <1>1, Constants, RowParts DEF IsIssuedCertificate, IInv
      <3>3. editor' = [editor EXCEPT ![e] = h]
        BY <3>1
      <3> HIDE DEF n
      <3>4. h \in Editor /\ h.pc = "edit" /\ h.cert = c /\ h.domains = n /\ ~ h.stale
        BY <3>2 DEF Idle, Editor
      <3> HIDE DEF h
      <3> QED
        BY <3>2, <3>3, <3>4
    <2>2. CASE BeginIssue(e, c)
      <3> DEFINE h == [Idle EXCEPT !.pc = "issue", !.cert = c, !.domains = certs[c].domains]
      <3>1. /\ h \in Editor /\ h.pc = "issue" /\ h.cert = c /\ ~ h.stale
            /\ h.domains = certs[c].domains
        BY RowParts DEF Idle, Editor, IInv
      <3>2. editor' = [editor EXCEPT ![e] = h]
        BY <2>2 DEF BeginIssue
      <3> HIDE DEF h
      <3> QED
        BY <3>1, <3>2
    <2>3. CASE BeginRenew(e, c)
      <3> DEFINE h == [Idle EXCEPT !.pc = "renew", !.cert = c]
      <3>1. h \in Editor /\ h.pc = "renew" /\ h.cert = c /\ ~ h.stale
        BY DEF Idle, Editor
      <3>2. editor' = [editor EXCEPT ![e] = h] /\ certs[c].issued
        BY <2>3 DEF BeginRenew
      <3> HIDE DEF h
      <3> QED
        BY <3>1, <3>2
    <2> QED
      BY <2>1, <2>2, <2>3
  <1>3. Put(e, h)
    BY <1>2, Moved DEF IInv
  <1>4. TypeOK'
    BY <1>1, <1>3 DEF IInv, TypeOK, Put
  <1>5. Named'
    BY <1>1, <1>2, <1>3 DEF IInv, Named, Put
  <1>6. Agreed'
    BY <1>1, <1>2, <1>3 DEF IInv, Agreed, Knows, Put
  <1> QED
    BY <1>4, <1>5, <1>6 DEF IInv

(* Ending: nothing is written but the status. *)
LEMMA LeavesKeep ==
    ASSUME IInv, NEW e \in Editors, Fail(e) \/ Abandon(e)
    PROVE  IInv'
  <1>1. Return(e) /\ UNCHANGED <<chain, doubtful>>
    BY DEF Fail, Abandon
  <1>2. Put(e, Idle)
    BY <1>1, Returned DEF IInv
  <1>3. /\ certs' \in [Certs -> Cert]
        /\ \A c \in Certs : /\ certs'[c].there = certs[c].there
                            /\ certs'[c].domains = certs[c].domains
                            /\ certs'[c].issued = certs[c].issued
    <2>1. CASE certs' = certs
      BY <2>1 DEF IInv, TypeOK
    <2>2. CASE Fail(e) /\ certs' # certs
      <3> DEFINE c == editor[e].cert
                 r == [certs[c] EXCEPT !.status = "failed"]
      <3>1. c \in Certs
        BY <2>2 DEF Fail, IInv, Named
      <3>2. /\ r \in Cert /\ r.there = certs[c].there /\ r.domains = certs[c].domains
            /\ r.issued = certs[c].issued
        BY <3>1, RowParts DEF Cert, IInv
      <3>3. certs' = [certs EXCEPT ![c] = r]
        BY <2>2 DEF Fail
      <3> HIDE DEF c, r
      <3>4. SetRow(c, r)
        BY <3>1, <3>2, <3>3, RowSet DEF IInv
      <3> QED
        BY <3>2, <3>4 DEF SetRow
    <2> QED
      BY <2>1, <2>2 DEF Fail, Abandon
  <1>4. TypeOK'
    BY <1>1, <1>2, <1>3 DEF IInv, TypeOK, Put
  <1>5. Named'
    BY <1>2, <1>3, Constants DEF IInv, Named, Put
  <1>6. Agreed'
    BY <1>1, <1>2, <1>3, Constants DEF IInv, Named, Agreed, Knows, Put
  <1> QED
    BY <1>4, <1>5, <1>6 DEF IInv

LEMMA ReadExistingKeeps ==
    ASSUME IInv, NEW e \in Editors, ReadExisting(e)
    PROVE  IInv'
  <1> DEFINE c == editor[e].cert
             h == [editor[e] EXCEPT !.pc = "issue", !.domains = chain[c]]
  <1>1. c \in Certs /\ certs[c].issued /\ certs[c].domains # 0
    BY DEF ReadExisting, IInv, Named
  <1>2. /\ h \in Editor /\ h.pc = "issue" /\ h.cert = c /\ h.domains = chain[c]
        /\ h.stale = editor[e].stale
    BY <1>1, EditorParts DEF Editor, IInv, TypeOK
  <1>3. editor' = [editor EXCEPT ![e] = h] /\ UNCHANGED <<certs, chain, doubtful>>
    BY DEF ReadExisting, DomainsRenewed
  <1> HIDE DEF c, h
  <1>4. Put(e, h)
    BY <1>2, <1>3, Moved DEF IInv
  <1>5. TypeOK'
    BY <1>3, <1>4 DEF IInv, TypeOK, Put
  <1>6. Named'
    BY <1>1, <1>2, <1>3, <1>4 DEF IInv, Named, Put
  <1>7. Agreed'
    BY <1>1, <1>2, <1>3, <1>4 DEF IInv, Agreed, Knows, Put
  <1> QED
    BY <1>5, <1>6, <1>7 DEF IInv

LEMMA StoreEditKeeps ==
    ASSUME IInv, NEW e \in Editors, StoreEdit(e)
    PROVE  IInv'
  <1> DEFINE c == editor[e].cert
             d == editor[e].domains
             r == [certs[c] EXCEPT !.domains = d]
  <1>1. editor[e].pc = "edit" /\ c \in Certs /\ d # 0 /\ d \in {0} \cup Lists
    BY EditorParts DEF StoreEdit, IInv, Named
  <1>2. /\ r \in Cert /\ r.there = certs[c].there /\ r.domains = d
        /\ r.issued = certs[c].issued
    BY <1>1, RowParts DEF Cert, IInv
  <1>3. /\ certs' = [certs EXCEPT ![c] = r] /\ UNCHANGED chain
        /\ editor' = Touched(e, c, d # certs[c].domains, Idle) /\ Doubt(e, c)
    BY DEF StoreEdit, Edited
  <1> HIDE DEF c, d, r
  <1>4. SetRow(c, r)
    BY <1>1, <1>2, <1>3, RowSet DEF IInv
  <1>5. PutTouching(e, c, d # certs[c].domains, Idle)
    BY <1>1, <1>3, Constants, TouchedOthers DEF IInv
  <1>6. /\ doubtful' \in SUBSET Certs /\ doubtful \subseteq doubtful'
        /\ editor[e].stale => c \in doubtful'
    BY <1>1, <1>3, Doubted DEF IInv
  <1>7. c \notin doubtful' /\ certs[c].issued => d = certs[c].domains
    BY <1>1, <1>6 DEF IInv, Agreed, Knows, c, d
  <1>8. TypeOK'
    BY <1>3, <1>4, <1>5, <1>6 DEF IInv, TypeOK, SetRow, PutTouching
  <1>9. Named'
    BY <1>1, <1>2, <1>4, <1>5, Constants DEF IInv, Named, SetRow, PutTouching
  <1>10. \A b \in Certs \ doubtful' : certs'[b].issued => chain'[b] = certs'[b].domains
    BY <1>2, <1>3, <1>4, <1>6, <1>7 DEF IInv, Agreed, SetRow
  <1>11. ASSUME NEW f \in Editors, editor'[f].pc # "idle", ~ editor'[f].stale,
                editor'[f].cert \notin doubtful'
         PROVE  Knows(f)'
    <2>1. f # e /\ Knows(f) /\ editor[f].cert \in Certs
      BY <1>5, <1>6, <1>11, Constants DEF IInv, Named, Agreed, PutTouching
    <2>2. CASE editor[f].cert = c
      BY <1>2, <1>3, <1>4, <1>5, <1>11, <2>1, <2>2 DEF Knows, SetRow, PutTouching
    <2>3. CASE editor[f].cert # c
      BY <1>3, <1>4, <1>5, <2>1, <2>3 DEF Knows, SetRow, PutTouching
    <2> QED
      BY <2>2, <2>3
  <1> QED
    BY <1>8, <1>9, <1>10, <1>11 DEF IInv, Agreed

LEMMA WriteFilesKeeps ==
    ASSUME IInv, NEW e \in Editors, WriteFiles(e)
    PROVE  IInv'
  <1> DEFINE c == editor[e].cert
             d == editor[e].domains
             h == [editor[e] EXCEPT !.pc = "mark"]
  <1>1. editor[e].pc = "issue" /\ c \in Certs /\ d \in {0} \cup Lists
    BY EditorParts DEF WriteFiles, IInv, Named
  <1>2. h \in Editor /\ h.pc = "mark" /\ h.cert = c /\ h.stale = editor[e].stale
    BY EditorParts DEF Editor, IInv
  <1>3. /\ chain' = [chain EXCEPT ![c] = d] /\ UNCHANGED certs
        /\ editor' = Touched(e, c, d # chain[c], h) /\ Doubt(e, c)
    BY DEF WriteFiles
  <1> HIDE DEF c, d, h
  <1>4. /\ chain' \in [Certs -> {0} \cup Lists]
        /\ chain'[c] = d /\ \A b \in Certs \ {c} : chain'[b] = chain[b]
    BY <1>1, <1>3 DEF IInv, TypeOK
  <1>5. PutTouching(e, c, d # chain[c], h)
    BY <1>1, <1>2, <1>3, TouchedOthers DEF IInv
  <1>6. /\ doubtful' \in SUBSET Certs /\ doubtful \subseteq doubtful'
        /\ editor[e].stale => c \in doubtful'
    BY <1>1, <1>3, Doubted DEF IInv
  <1>7. c \notin doubtful' => d = certs[c].domains
    BY <1>1, <1>6 DEF IInv, Agreed, Knows, c, d
  <1>8. TypeOK'
    BY <1>3, <1>4, <1>5, <1>6 DEF IInv, TypeOK, PutTouching
  <1>9. Named'
    <2>1. certs[c].domains # 0
      BY <1>1 DEF IInv, Named, c
    <2> QED
      BY <1>1, <1>2, <1>3, <1>5, <2>1 DEF IInv, Named, PutTouching
  <1>10. \A b \in Certs \ doubtful' : certs'[b].issued => chain'[b] = certs'[b].domains
    BY <1>3, <1>4, <1>6, <1>7 DEF IInv, Agreed
  <1>11. ASSUME NEW f \in Editors, editor'[f].pc # "idle", ~ editor'[f].stale,
                editor'[f].cert \notin doubtful'
         PROVE  Knows(f)'
    <2>1. CASE f = e
      BY <1>2, <1>3, <1>4, <1>5, <1>7, <1>11, <2>1 DEF Knows, PutTouching
    <2>2. CASE f # e
      <3>1. Knows(f) /\ editor[f].cert \in Certs
        BY <1>5, <1>6, <1>11, <2>2 DEF IInv, Named, Agreed, PutTouching
      <3>2. editor[f].cert = c => chain'[c] = chain[c]
        BY <1>4, <1>5, <1>11, <2>2 DEF PutTouching
      <3> QED
        BY <1>3, <1>4, <1>5, <2>2, <3>1, <3>2 DEF Knows, PutTouching
    <2> QED
      BY <2>1, <2>2
  <1> QED
    BY <1>8, <1>9, <1>10, <1>11 DEF IInv, Agreed

LEMMA MarkIssuedKeeps ==
    ASSUME IInv, NEW e \in Editors, MarkIssued(e)
    PROVE  IInv'
  <1> DEFINE c == editor[e].cert
             r == [certs[c] EXCEPT !.issued = TRUE, !.status = "active"]
  <1>1. editor[e].pc = "mark" /\ c \in Certs /\ certs[c].domains # 0
    BY DEF MarkIssued, IInv, Named
  <1>2. r \in Cert /\ r.there = certs[c].there /\ r.domains = certs[c].domains /\ r.issued
    BY <1>1, RowParts DEF Cert, IInv
  <1>3. /\ certs' = [certs EXCEPT ![c] = r] /\ UNCHANGED chain
        /\ editor' = Touched(e, c, ~ certs[c].issued, Idle) /\ Doubt(e, c)
    BY DEF MarkIssued
  <1> HIDE DEF c, r
  <1>4. SetRow(c, r)
    BY <1>1, <1>2, <1>3, RowSet DEF IInv
  <1>5. PutTouching(e, c, ~ certs[c].issued, Idle)
    BY <1>1, <1>3, Constants, TouchedOthers DEF IInv
  <1>6. /\ doubtful' \in SUBSET Certs /\ doubtful \subseteq doubtful'
        /\ editor[e].stale => c \in doubtful'
    BY <1>1, <1>3, Doubted DEF IInv
  <1>7. c \notin doubtful' => chain[c] = certs[c].domains
    BY <1>1, <1>6 DEF IInv, Agreed, Knows, c
  <1>8. TypeOK'
    BY <1>3, <1>4, <1>5, <1>6 DEF IInv, TypeOK, SetRow, PutTouching
  <1>9. Named'
    BY <1>1, <1>2, <1>4, <1>5, Constants DEF IInv, Named, SetRow, PutTouching
  <1>10. \A b \in Certs \ doubtful' : certs'[b].issued => chain'[b] = certs'[b].domains
    BY <1>2, <1>3, <1>4, <1>6, <1>7 DEF IInv, Agreed, SetRow
  <1>11. ASSUME NEW f \in Editors, editor'[f].pc # "idle", ~ editor'[f].stale,
                editor'[f].cert \notin doubtful'
         PROVE  Knows(f)'
    <2>1. f # e /\ Knows(f) /\ editor[f].cert \in Certs
      BY <1>5, <1>6, <1>11, Constants DEF IInv, Named, Agreed, PutTouching
    <2>2. CASE editor[f].cert = c
      <3>1. certs[c].issued
        BY <1>5, <1>11, <2>1, <2>2 DEF PutTouching
      <3> QED
        BY <1>2, <1>3, <1>4, <1>5, <2>1, <2>2, <3>1 DEF Knows, SetRow, PutTouching
    <2>3. CASE editor[f].cert # c
      BY <1>3, <1>4, <1>5, <2>1, <2>3 DEF Knows, SetRow, PutTouching
    <2> QED
      BY <2>2, <2>3
  <1> QED
    BY <1>8, <1>9, <1>10, <1>11 DEF IInv, Agreed

LEMMA Invariance == Spec => []IInv
  <1>1. Init => IInv
    <2> SUFFICES ASSUME Init
                 PROVE  IInv
      OBVIOUS
    <2>1. \A e \in Editors : editor[e].pc = "idle"
      BY Constants DEF Init
    <2>2. \A c \in Certs : ~ certs[c].there /\ ~ certs[c].issued
      BY DEF Init, NoRow
    <2>3. TypeOK
      BY Constants DEF Init, TypeOK
    <2> QED
      BY <2>1, <2>2, <2>3 DEF IInv, Named, Agreed
  <1>2. IInv /\ [Next]_vars => IInv'
    <2> SUFFICES ASSUME IInv, [Next]_vars
                 PROVE  IInv'
      OBVIOUS
    <2>1. CASE UNCHANGED vars
      BY <2>1 DEF vars, IInv, TypeOK, Named, Agreed, Knows
    <2>2. CASE Next
      BY <2>2, CreateKeeps, DeleteKeeps, BeginKeeps, LeavesKeep, ReadExistingKeeps,
         StoreEditKeeps, WriteFilesKeeps, MarkIssuedKeeps DEF Next
    <2> QED
      BY <2>1, <2>2
  <1> QED
    BY <1>1, <1>2, PTL DEF Spec

-----------------------------------------------------------------------------
(* Rows, chains and the locals of edits and issues always have their types. *)
THEOREM TypeCorrect == Spec => []TypeOK
  <1>1. IInv => TypeOK
    BY DEF IInv
  <1> QED
    BY <1>1, Invariance, PTL

(* The lock of CertificateUseCase.Update: outside the overlaps that doubtful
   names, an issued certificate shows the domains of its chain, for any number
   of edits, issues and renewals. *)
THEOREM DomainsAreKept == Spec => []DomainsAreIssued
  <1>1. IInv => DomainsAreIssued
    BY DEF IInv, Agreed, DomainsAreIssued
  <1> QED
    BY <1>1, Invariance, PTL

=============================================================================
