------------------------------- MODULE MCRecords -------------------------------
(* An instance of Records for TLC.  The three share nothing, so a behaviour moves
   one of them and leaves the others alone. *)
EXTENDS Records, TLC

VARIABLE part  \* the one that moves

MCInit == part \in {"targets", "certificates", "accounts"} /\ RecordsInit

MCNext ==
    /\ UNCHANGED part
    /\ \/ part = "targets" /\ TargetsMove
       \/ part = "certificates" /\ CertificatesMove
       \/ part = "accounts" /\ AccountsMove

MCSpec == MCInit /\ [][MCNext]_<<part, recordVars>>

MCSymmetry == Permutations(Users) \cup Permutations(Targets)

=============================================================================
