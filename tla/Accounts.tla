------------------------------- MODULE Accounts -------------------------------
(***************************************************************************)
(* The account directory of internal/adapter/acme/lego_client.go: the      *)
(* account key and the account file that all issues and renewals for one   *)
(* e-mail address and one environment share, with nothing to keep two of   *)
(* them apart.                                                             *)
(*                                                                         *)
(* A key is its number, an account at the CA is that of its key; a file    *)
(* that has been truncated and not yet written holds 0.  A write after     *)
(* another one leaves the later content: both are of one length.           *)
(***************************************************************************)
EXTENDS Naturals

CONSTANTS
    Clients,  \* goroutines that issue or renew
    MaxKeys   \* bound: an operation begins while fewer keys have been made

VARIABLES
    keyThere, keyFile,          \* account.key
    accountThere, accountFile,  \* account.json, by the key of its registration
    registered,                 \* keys with an account at the CA
    made,                       \* keys that have been generated
    client,                     \* what each goroutine is doing, with its local variables
    spoiled                     \* history: how the directory may have been spoiled

files == <<keyThere, keyFile, accountThere, accountFile>>
vars  == <<files, registered, made, client, spoiled>>

-----------------------------------------------------------------------------
Client == [pc      : {"idle", "key", "newkey", "writekey", "account", "register", "save",
                      "writeaccount", "order"},
           key     : Nat,    \* user.key
           account : Nat]    \* user.Registration, 0 for nil

Idle == [pc |-> "idle", key |-> 0, account |-> 0]

TypeOK ==
    /\ keyThere \in BOOLEAN /\ keyFile \in Nat
    /\ accountThere \in BOOLEAN /\ accountFile \in Nat
    /\ registered \in SUBSET Nat
    /\ made \in Nat
    /\ client \in [Clients -> Client]
    /\ spoiled \in SUBSET {"two keys", "cut"}

Init ==
    /\ keyThere = FALSE /\ keyFile = 0
    /\ accountThere = FALSE /\ accountFile = 0
    /\ registered = {}
    /\ made = 0
    /\ client = [c \in Clients |-> Idle]
    /\ spoiled = {}

-----------------------------------------------------------------------------
Goto(c, pc) == client' = [client EXCEPT ![c].pc = pc]
Return(c)   == client' = [client EXCEPT ![c] = Idle]

(* Those that have found no key and not yet written theirs. *)
WithNewKey == {c \in Clients : client[c].pc \in {"newkey", "writekey"}}

(* Issue or Renew, past the checks of the request. *)
Begin(c) ==
    /\ client[c].pc = "idle"
    /\ made < MaxKeys
    /\ Goto(c, "key")
    /\ UNCHANGED <<files, registered, made, spoiled>>

\* variant: counts only with the account that belongs to it
KeyWithAccount == keyThere /\ accountThere

KeyFound == keyThere

(* loadOrCreatePrivateKey: a file that does not parse is an error. *)
LoadKey(c) ==
    /\ client[c].pc = "key"
    /\ KeyFound
    /\ client' = [client EXCEPT ![c] = IF keyFile = 0 THEN Idle
                                       ELSE [@ EXCEPT !.pc = "account", !.key = keyFile]]
    /\ UNCHANGED <<files, registered, made, spoiled>>

GenerateKey(c) ==
    /\ client[c].pc = "key"
    /\ ~ KeyFound
    /\ made' = made + 1
    /\ client' = [client EXCEPT ![c].pc = "newkey", ![c].key = made + 1]
    /\ spoiled' = IF WithNewKey = {} THEN spoiled ELSE spoiled \cup {"two keys"}
    /\ UNCHANGED <<files, registered>>

OpenKey(c) ==
    /\ client[c].pc = "newkey"
    /\ keyThere' = TRUE /\ keyFile' = 0
    /\ Goto(c, "writekey")
    /\ UNCHANGED <<accountThere, accountFile, registered, made, spoiled>>

WriteKey(c) ==
    /\ client[c].pc = "writekey"
    /\ keyFile' = client[c].key
    /\ Goto(c, "account")
    /\ UNCHANGED <<keyThere, accountThere, accountFile, registered, made, spoiled>>

(* The rest of loadOrCreateUser. *)
LoadAccount(c) ==
    /\ client[c].pc = "account"
    /\ client' = [client EXCEPT ![c] =
                    IF ~ accountThere THEN [@ EXCEPT !.pc = "register"]
                    ELSE IF accountFile = 0 THEN Idle
                    ELSE [@ EXCEPT !.pc = "order", !.account = accountFile]]
    /\ UNCHANGED <<files, registered, made, spoiled>>

(* ResolveAccountByKey, and Register if there is none: both are for the key in
   hand, and a key has one account. *)
Register(c) ==
    /\ client[c].pc = "register"
    /\ registered' = registered \cup {client[c].key}
    /\ client' = [client EXCEPT ![c].pc = "save", ![c].account = client[c].key]
    /\ UNCHANGED <<files, made, spoiled>>

OpenAccount(c) ==
    /\ client[c].pc = "save"
    /\ accountThere' = TRUE /\ accountFile' = 0
    /\ Goto(c, "writeaccount")
    /\ UNCHANGED <<keyThere, keyFile, registered, made, spoiled>>

WriteAccount(c) ==
    /\ client[c].pc = "writeaccount"
    /\ accountFile' = client[c].account
    /\ Goto(c, "order")
    /\ UNCHANGED <<keyThere, keyFile, accountThere, registered, made, spoiled>>

(* Obtain or Renew: the CA takes a request for an account with its key only. *)
Order(c) ==
    /\ client[c].pc = "order"
    /\ Return(c)
    /\ UNCHANGED <<files, registered, made, spoiled>>

(* A call fails; an open file stays as it is. *)
Cut(cs) == IF \E c \in cs : client[c].pc \in {"writekey", "writeaccount"}
           THEN spoiled \cup {"cut"} ELSE spoiled

Fail(c) ==
    /\ client[c].pc # "idle"
    /\ spoiled' = Cut({c})
    /\ Return(c)
    /\ UNCHANGED <<files, registered, made>>

(* The process ends, at any point. *)
Crash ==
    /\ \E c \in Clients : client[c].pc # "idle"
    /\ spoiled' = Cut(Clients)
    /\ client' = [c \in Clients |-> Idle]
    /\ UNCHANGED <<files, registered, made>>

Next ==
    \/ Crash
    \/ \E c \in Clients :
        \/ Begin(c) \/ LoadKey(c) \/ GenerateKey(c) \/ OpenKey(c) \/ WriteKey(c)
        \/ LoadAccount(c) \/ Register(c) \/ OpenAccount(c) \/ WriteAccount(c)
        \/ Order(c) \/ Fail(c)

Spec == Init /\ [][Next]_vars

-----------------------------------------------------------------------------
(* Properties *)

(* No write is on its way. *)
Settled == \A c \in Clients : client[c].pc \notin {"writekey", "writeaccount"}

(* The two files are whole and belong together, and whoever orders a certificate
   does it for the account of the key in hand, unless two operations for a new
   address have each made a key, or a write was cut off: then the address stays
   unusable until someone removes the files. *)
AccountWhole ==
    spoiled = {} =>
        /\ \A c \in Clients : client[c].pc = "order" => client[c].account = client[c].key
        /\ Settled /\ keyThere => keyFile # 0
        /\ Settled /\ accountThere => keyThere /\ accountFile = keyFile
        /\ accountFile # 0 => accountFile \in registered

=============================================================================
