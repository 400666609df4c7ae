---------------------------- MODULE AccountsProofs ----------------------------
(***************************************************************************)
(* Proofs about Accounts, for any number of clients and keys.              *)
(*                                                                         *)
(* As long as nothing has spoiled the directory one client at most makes a *)
(* key, before the key file holds one; from then on everybody has the key  *)
(* of the file in hand, and whoever finds a file empty can point to the    *)
(* client that is about to write it.                                       *)
(***************************************************************************)
EXTENDS Accounts, TLAPS

(* What a client knows of the files, by where it is. *)
Knows(c) ==
    /\ client[c].pc = "newkey" => ~ keyThere
    /\ client[c].pc = "writekey" => keyThere /\ keyFile = 0
    /\ client[c].pc \in {"newkey", "writekey"} => client[c].key # 0
    /\ client[c].pc \in {"account", "register", "save", "writeaccount", "order"} =>
         client[c].key = keyFile /\ keyFile # 0
    /\ client[c].pc \in {"save", "writeaccount", "order"} => client[c].account = client[c].key
    /\ client[c].pc \in {"save", "writeaccount"} => client[c].key \in registered
    /\ client[c].pc = "writeaccount" => accountThere

OneMaker ==
    \A c, d \in Clients :
        client[c].pc \in {"newkey", "writekey"} /\ client[d].pc \in {"newkey", "writekey"} => c = d

KeyFirst ==
    /\ ~ keyThere => keyFile = 0 /\ ~ accountThere
    /\ ~ accountThere => accountFile = 0
    /\ accountFile \in {0, keyFile}
    /\ accountFile # 0 => accountFile \in registered

WriterKnown ==
    /\ keyThere /\ keyFile = 0 => \E c \in Clients : client[c].pc = "writekey"
    /\ accountThere /\ accountFile = 0 => \E c \in Clients : client[c].pc = "writeaccount"

Whole == OneMaker /\ KeyFirst /\ WriterKnown /\ \A c \in Clients : Knows(c)

IInv == TypeOK /\ (spoiled = {} => Whole)

-----------------------------------------------------------------------------
(* What the steps do to the client that takes them. *)

Places == {"idle", "key", "newkey", "writekey", "account", "register", "save", "writeaccount",
           "order"}

LEMMA ClientParts ==
    ASSUME TypeOK, NEW c \in Clients
    PROVE  /\ client[c] \in Client /\ client[c].pc \in Places
           /\ client[c].key \in Nat /\ client[c].account \in Nat
  <1>1. client[c] \in Client
    BY DEF TypeOK
  <1> QED
    BY <1>1 DEF Client, Places

Put(c, pc, key, account) ==
    /\ client' \in [Clients -> Client]
    /\ client'[c].pc = pc /\ client'[c].key = key /\ client'[c].account = account
    /\ \A d \in Clients \ {c} : client'[d] = client[d]

LEMMA Moved ==
    ASSUME TypeOK, NEW c \in Clients, NEW h \in Client, client' = [client EXCEPT ![c] = h]
    PROVE  Put(c, h.pc, h.key, h.account)
  <1>1. client' \in [Clients -> Client]
    BY DEF TypeOK
  <1>2. client'[c] = h /\ \A d \in Clients \ {c} : client'[d] = client[d]
    BY DEF TypeOK
  <1> QED
    BY <1>1, <1>2 DEF Put

LEMMA Gone ==
    ASSUME TypeOK, NEW c \in Clients, NEW pc \in Places, Goto(c, pc)
    PROVE  Put(c, pc, client[c].key, client[c].account)
  <1> DEFINE h == [client[c] EXCEPT !.pc = pc]
  <1>1. h \in Client /\ h.pc = pc /\ h.key = client[c].key /\ h.account = client[c].account
    BY ClientParts DEF Client, Places
  <1>2. client' = [client EXCEPT ![c] = h]
    BY DEF Goto
  <1> HIDE DEF h
  <1> QED
    BY <1>1, <1>2, Moved

LEMMA Returned ==
    ASSUME TypeOK, NEW c \in Clients, Return(c)
    PROVE  Put(c, "idle", 0, 0)
  <1>1. Idle \in Client /\ Idle.pc = "idle" /\ Idle.key = 0 /\ Idle.account = 0
    BY DEF Idle, Client
  <1> QED
    BY <1>1, Moved DEF Return

LEMMA KeyLoaded ==
    ASSUME TypeOK, NEW c \in Clients, LoadKey(c)
    PROVE  \/ keyFile = 0 /\ Put(c, "idle", 0, 0)
           \/ keyFile # 0 /\ Put(c, "account", keyFile, client[c].account)
  <1> DEFINE h == [client[c] EXCEPT !.pc = "account", !.key = keyFile]
  <1>1. /\ h \in Client /\ h.pc = "account" /\ h.key = keyFile
        /\ h.account = client[c].account
    BY ClientParts DEF Client, Places, TypeOK
  <1>2. keyFile = 0 => Return(c)
    BY DEF LoadKey, Return
  <1>3. keyFile # 0 => client' = [client EXCEPT ![c] = h]
    BY DEF LoadKey
  <1> HIDE DEF h
  <1> QED
    BY <1>1, <1>2, <1>3, Moved, Returned

LEMMA KeyGenerated ==
    ASSUME TypeOK, NEW c \in Clients, GenerateKey(c)
    PROVE  Put(c, "newkey", made + 1, client[c].account)
  <1> DEFINE h == [client[c] EXCEPT !.pc = "newkey", !.key = made + 1]
  <1>1. made + 1 \in Nat
    <2>1. made \in Nat
      BY DEF TypeOK
    <2> HIDE DEF h
    <2> QED
      BY <2>1
  <1>2. /\ h \in Client /\ h.pc = "newkey" /\ h.key = made + 1
        /\ h.account = client[c].account
    BY <1>1, ClientParts DEF Client, Places
  <1>3. client' = [client EXCEPT ![c] = h]
    BY DEF GenerateKey
  <1> HIDE DEF h
  <1> QED
    BY <1>2, <1>3, Moved

LEMMA AccountLoaded ==
    ASSUME TypeOK, NEW c \in Clients, LoadAccount(c)
    PROVE  \/ ~ accountThere /\ Put(c, "register", client[c].key, client[c].account)
           \/ accountThere /\ accountFile = 0 /\ Put(c, "idle", 0, 0)
           \/ accountThere /\ accountFile # 0 /\ Put(c, "order", client[c].key, accountFile)
  <1> DEFINE h == [client[c] EXCEPT !.pc = "register"]
             o == [client[c] EXCEPT !.pc = "order", !.account = accountFile]
  <1>1. /\ h \in Client /\ h.pc = "register" /\ h.key = client[c].key
        /\ h.account = client[c].account
    BY ClientParts DEF Client, Places
  <1>2. o \in Client /\ o.pc = "order" /\ o.key = client[c].key /\ o.account = accountFile
    BY ClientParts DEF Client, Places, TypeOK
  <1>3. accountThere \in BOOLEAN
    BY DEF TypeOK
  <1>4. ~ accountThere => client' = [client EXCEPT ![c] = h]
    BY DEF LoadAccount
  <1>5. accountThere /\ accountFile = 0 => Return(c)
    BY DEF LoadAccount, Return
  <1>6. accountThere /\ accountFile # 0 => client' = [client EXCEPT ![c] = o]
    BY DEF LoadAccount
  <1> HIDE DEF h, o
  <1> QED
    BY <1>1, <1>2, <1>3, <1>4, <1>5, <1>6, Moved, Returned

LEMMA Registered ==
    ASSUME TypeOK, NEW c \in Clients, Register(c)
    PROVE  Put(c, "save", client[c].key, client[c].key)
  <1> DEFINE h == [client[c] EXCEPT !.pc = "save", !.account = client[c].key]
  <1>1. /\ h \in Client /\ h.pc = "save" /\ h.key = client[c].key
        /\ h.account = client[c].key
    BY ClientParts DEF Client, Places
  <1>2. client' = [client EXCEPT ![c] = h]
    BY DEF Register
  <1> HIDE DEF h
  <1> QED
    BY <1>1, <1>2, Moved

-----------------------------------------------------------------------------
(* Each step keeps the types and, while nothing is spoiled, the rest. *)

LEMMA Grows ==
    ASSUME TypeOK, Next
    PROVE  spoiled \subseteq spoiled'
  BY DEF Next, Begin, LoadKey, GenerateKey, OpenKey, WriteKey, LoadAccount, Register,
         OpenAccount, WriteAccount, Order, Fail, Crash, Cut

LEMMA BeginKeeps ==
    ASSUME TypeOK, NEW c \in Clients, Begin(c)
    PROVE  TypeOK' /\ (spoiled = {} /\ spoiled' = {} /\ Whole => Whole')
  <1>1. Put(c, "key", client[c].key, client[c].account)
    BY Gone DEF Begin, Places
  <1>2. TypeOK'
    BY <1>1 DEF Put, TypeOK, Begin, files
  <1>3. ASSUME spoiled = {}, spoiled' = {}, Whole
        PROVE  Whole'
    BY <1>1, <1>3 DEF Put, Whole, OneMaker, KeyFirst, WriterKnown, Knows, TypeOK, Begin, files
  <1> QED
    BY <1>2, <1>3

LEMMA LoadKeyKeeps ==
    ASSUME TypeOK, NEW c \in Clients, LoadKey(c)
    PROVE  TypeOK' /\ (spoiled = {} /\ spoiled' = {} /\ Whole => Whole')
  <1>1. \/ keyFile = 0 /\ Put(c, "idle", 0, 0)
        \/ keyFile # 0 /\ Put(c, "account", keyFile, client[c].account)
    BY KeyLoaded
  <1>2. TypeOK'
    BY <1>1 DEF Put, TypeOK, LoadKey, files
  <1>3. ASSUME spoiled = {}, spoiled' = {}, Whole
        PROVE  Whole'
    BY <1>1, <1>3 DEF Put, Whole, OneMaker, KeyFirst, WriterKnown, Knows, TypeOK, LoadKey, files
  <1> QED
    BY <1>2, <1>3

LEMMA GenerateKeyKeeps ==
    ASSUME TypeOK, NEW c \in Clients, GenerateKey(c)
    PROVE  TypeOK' /\ (spoiled = {} /\ spoiled' = {} /\ Whole => Whole')
  <1>1. Put(c, "newkey", made + 1, client[c].account)
    BY KeyGenerated
  <1>2. made \in Nat
    BY DEF TypeOK
  <1>3. made + 1 \in Nat /\ made + 1 # 0
    BY <1>2
  <1>4. UNCHANGED files /\ UNCHANGED registered /\ ~ keyThere /\ made' = made + 1
    BY DEF GenerateKey, KeyFound
  <1>5. spoiled' \in SUBSET {"two keys", "cut"}
    BY DEF GenerateKey, TypeOK
  <1>6. TypeOK'
    BY <1>1, <1>3, <1>4, <1>5 DEF Put, TypeOK, files
  <1>7. ASSUME spoiled = {}, spoiled' = {}, Whole
        PROVE  Whole'
    <2>1. \A d \in Clients : client[d].pc \notin {"newkey", "writekey"}
      BY <1>7 DEF GenerateKey, WithNewKey
    <2>2. OneMaker'
      BY <1>1, <2>1 DEF Put, OneMaker
    <2>3. KeyFirst'
      BY <1>4, <1>7 DEF Whole, KeyFirst, files
    <2>4. WriterKnown'
      BY <1>1, <1>4, <1>7, <2>1 DEF Put, Whole, KeyFirst, WriterKnown, files, TypeOK
    <2>5. \A d \in Clients : Knows(d)'
      BY <1>1, <1>3, <1>4, <1>7 DEF Put, Whole, Knows, files
    <2> QED
      BY <2>2, <2>3, <2>4, <2>5 DEF Whole
  <1> QED
    BY <1>6, <1>7

LEMMA OpenKeyKeeps ==
    ASSUME TypeOK, NEW c \in Clients, OpenKey(c)
    PROVE  TypeOK' /\ (spoiled = {} /\ spoiled' = {} /\ Whole => Whole')
  <1>1. Put(c, "writekey", client[c].key, client[c].account)
    BY Gone DEF OpenKey, Places
  <1>2. TypeOK'
    BY <1>1 DEF Put, TypeOK, OpenKey
  <1>3. ASSUME spoiled = {}, spoiled' = {}, Whole
        PROVE  Whole'
    BY <1>1, <1>3 DEF Put, Whole, OneMaker, KeyFirst, WriterKnown, Knows, TypeOK, OpenKey
  <1> QED
    BY <1>2, <1>3

LEMMA WriteKeyKeeps ==
    ASSUME TypeOK, NEW c \in Clients, WriteKey(c)
    PROVE  TypeOK' /\ (spoiled = {} /\ spoiled' = {} /\ Whole => Whole')
  <1>1. Put(c, "account", client[c].key, client[c].account)
    BY Gone DEF WriteKey, Places
  <1>2. TypeOK'
    BY <1>1, ClientParts DEF Put, TypeOK, WriteKey
  <1>3. ASSUME spoiled = {}, spoiled' = {}, Whole
        PROVE  Whole'
    BY <1>1, <1>3 DEF Put, Whole, OneMaker, KeyFirst, WriterKnown, Knows, TypeOK, WriteKey
  <1> QED
    BY <1>2, <1>3

LEMMA LoadAccountKeeps ==
    ASSUME TypeOK, NEW c \in Clients, LoadAccount(c)
    PROVE  TypeOK' /\ (spoiled = {} /\ spoiled' = {} /\ Whole => Whole')
  <1>1. \/ ~ accountThere /\ Put(c, "register", client[c].key, client[c].account)
        \/ accountThere /\ accountFile = 0 /\ Put(c, "idle", 0, 0)
        \/ accountThere /\ accountFile # 0 /\ Put(c, "order", client[c].key, accountFile)
    BY AccountLoaded
  <1>2. TypeOK'
    BY <1>1 DEF Put, TypeOK, LoadAccount, files
  <1>3. ASSUME spoiled = {}, spoiled' = {}, Whole
        PROVE  Whole'
    BY <1>1, <1>3 DEF Put, Whole, OneMaker, KeyFirst, WriterKnown, Knows, TypeOK, LoadAccount, files
  <1> QED
    BY <1>2, <1>3

LEMMA RegisterKeeps ==
    ASSUME TypeOK, NEW c \in Clients, Register(c)
    PROVE  TypeOK' /\ (spoiled = {} /\ spoiled' = {} /\ Whole => Whole')
  <1>1. Put(c, "save", client[c].key, client[c].key)
    BY Registered
  <1>2. TypeOK'
    <2>1. registered' \in SUBSET Nat
      BY ClientParts DEF TypeOK, Register
    <2> QED
      BY <1>1, <2>1 DEF Put, TypeOK, Register, files
  <1>3. ASSUME spoiled = {}, spoiled' = {}, Whole
        PROVE  Whole'
    BY <1>1, <1>3 DEF Put, Whole, OneMaker, KeyFirst, WriterKnown, Knows, TypeOK, Register, files
  <1> QED
    BY <1>2, <1>3

LEMMA OpenAccountKeeps ==
    ASSUME TypeOK, NEW c \in Clients, OpenAccount(c)
    PROVE  TypeOK' /\ (spoiled = {} /\ spoiled' = {} /\ Whole => Whole')
  <1>1. Put(c, "writeaccount", client[c].key, client[c].account)
    BY Gone DEF OpenAccount, Places
  <1>2. TypeOK'
    BY <1>1 DEF Put, TypeOK, OpenAccount
  <1>3. ASSUME spoiled = {}, spoiled' = {}, Whole
        PROVE  Whole'
    BY <1>1, <1>3 DEF Put, Whole, OneMaker, KeyFirst, WriterKnown, Knows, TypeOK, OpenAccount
  <1> QED
    BY <1>2, <1>3

LEMMA WriteAccountKeeps ==
    ASSUME TypeOK, NEW c \in Clients, WriteAccount(c)
    PROVE  TypeOK' /\ (spoiled = {} /\ spoiled' = {} /\ Whole => Whole')
  <1>1. Put(c, "order", client[c].key, client[c].account)
    BY Gone DEF WriteAccount, Places
  <1>2. TypeOK'
    BY <1>1, ClientParts DEF Put, TypeOK, WriteAccount
  <1>3. ASSUME spoiled = {}, spoiled' = {}, Whole
        PROVE  Whole'
    BY <1>1, <1>3 DEF Put, Whole, OneMaker, KeyFirst, WriterKnown, Knows, TypeOK, WriteAccount
  <1> QED
    BY <1>2, <1>3

LEMMA OrderKeeps ==
    ASSUME TypeOK, NEW c \in Clients, Order(c)
    PROVE  TypeOK' /\ (spoiled = {} /\ spoiled' = {} /\ Whole => Whole')
  <1>1. Put(c, "idle", 0, 0)
    BY Returned DEF Order
  <1>2. TypeOK'
    BY <1>1 DEF Put, TypeOK, Order, files
  <1>3. ASSUME spoiled = {}, spoiled' = {}, Whole
        PROVE  Whole'
    BY <1>1, <1>3 DEF Put, Whole, OneMaker, KeyFirst, WriterKnown, Knows, TypeOK, Order, files
  <1> QED
    BY <1>2, <1>3

LEMMA FailKeeps ==
    ASSUME TypeOK, NEW c \in Clients, Fail(c)
    PROVE  TypeOK' /\ (spoiled = {} /\ spoiled' = {} /\ Whole => Whole')
  <1>1. Put(c, "idle", 0, 0)
    BY Returned DEF Fail
  <1>2. TypeOK'
    BY <1>1 DEF Put, TypeOK, Fail, files, Cut
  <1>3. ASSUME spoiled = {}, spoiled' = {}, Whole
        PROVE  Whole'
    BY <1>1, <1>3 DEF Put, Whole, OneMaker, KeyFirst, WriterKnown, Knows, TypeOK, Fail, files, Cut
  <1> QED
    BY <1>2, <1>3

LEMMA CrashKeeps ==
    ASSUME TypeOK, Crash
    PROVE  TypeOK' /\ (spoiled = {} /\ spoiled' = {} /\ Whole => Whole')
  <1>1. Idle \in Client /\ Idle.pc = "idle"
    BY DEF Idle, Client
  <1>2. /\ client' = [c \in Clients |-> Idle]
        /\ UNCHANGED <<files, registered, made>>
        /\ spoiled' \in SUBSET {"two keys", "cut"}
    BY DEF Crash, Cut, TypeOK
  <1>3. TypeOK'
    BY <1>1, <1>2 DEF TypeOK, files
  <1>4. ASSUME spoiled = {}, spoiled' = {}, Whole
        PROVE  Whole'
    <2>1. \A c \in Clients : client[c].pc \notin {"writekey", "writeaccount"}
      BY <1>4 DEF Crash, Cut
    <2> QED
      BY <1>1, <1>2, <1>4, <2>1 DEF Whole, OneMaker, KeyFirst, WriterKnown, Knows, files
  <1> QED
    BY <1>3, <1>4

LEMMA Invariance == Spec => []IInv
  <1>1. Init => IInv
    <2> SUFFICES ASSUME Init
                 PROVE  IInv
      OBVIOUS
    <2>1. Idle \in Client /\ Idle.pc = "idle"
      BY DEF Idle, Client
    <2>2. TypeOK
      BY <2>1 DEF Init, TypeOK
    <2>3. \A c \in Clients : client[c].pc = "idle"
      BY <2>1 DEF Init
    <2>4. Whole
      BY <2>3 DEF Init, Whole, OneMaker, KeyFirst, WriterKnown, Knows
    <2> QED
      BY <2>2, <2>4 DEF IInv
  <1>2. IInv /\ [Next]_vars => IInv'
    <2> SUFFICES ASSUME IInv, [Next]_vars
                 PROVE  IInv'
      OBVIOUS
    <2>1. CASE UNCHANGED vars
      BY <2>1 DEF vars, files, IInv, TypeOK, Whole, OneMaker, KeyFirst, WriterKnown, Knows
    <2>2. CASE Next
      <3>1. TypeOK /\ (spoiled' = {} => spoiled = {} /\ Whole)
        BY <2>2, Grows DEF IInv
      <3>2. TypeOK' /\ (spoiled = {} /\ spoiled' = {} /\ Whole => Whole')
        BY <2>2, <3>1, BeginKeeps, LoadKeyKeeps, GenerateKeyKeeps, OpenKeyKeeps, WriteKeyKeeps,
           LoadAccountKeeps, RegisterKeeps, OpenAccountKeeps, WriteAccountKeeps, OrderKeeps,
           FailKeeps, CrashKeeps DEF Next
      <3> QED
        BY <3>1, <3>2 DEF IInv
    <2> QED
      BY <2>1, <2>2
  <1> QED
    BY <1>1, <1>2, PTL DEF Spec

-----------------------------------------------------------------------------
(* The files and the clients of an address always have their types. *)
THEOREM TypeCorrect == Spec => []TypeOK
  <1>1. IInv => TypeOK
    BY DEF IInv
  <1> QED
    BY <1>1, Invariance, PTL

(* Unless two operations for a new address have each made a key, or a write was
   cut off, key and account belong together and nobody orders for another
   account than that of the key in hand: loadOrCreateUser and saveAccount, for
   any number of operations at once. *)
THEOREM AccountIsWhole == Spec => []AccountWhole
  <1>1. IInv => AccountWhole
    BY DEF IInv, Whole, KeyFirst, WriterKnown, Knows, AccountWhole, Settled
  <1> QED
    BY <1>1, Invariance, PTL

=============================================================================
