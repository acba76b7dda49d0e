------------------------------- MODULE Wallet -------------------------------
(***************************************************************************)
(* The command line wallet: its state, the password that WalletDb holds,   *)
(* and the database of encrypted accounts.                                 *)
(*                                                                         *)
(* The prompt does not wait for a command to end before it reads the next  *)
(* line, so commands overlap at their awaits.  A pending access to the     *)
(* database is a task; tasks end in any order.  An encrypted value is what *)
(* it holds and the password it was encrypted with.                        *)
(*                                                                         *)
(* `calm' is a history variable: FALSE after a command was entered while   *)
(* one that excludes it was pending (unlock or new with anything, two      *)
(* commands on the same account), after an account was removed again while *)
(* its deletion was pending, and after an access to the database failed.   *)
(***************************************************************************)
EXTENDS Integers, FiniteSets

CONSTANTS
  Names,            \* account names
  Passwords,
  None,
  MaxKeys,          \* bound: key pairs made or imported
  MaxTasks          \* bound: commands that overlap

ASSUME NoneAssumption == None \notin Passwords \union Names
ASSUME BoundsAssumption == MaxKeys \in Nat /\ MaxTasks \in Nat

VARIABLES
  state,            \* Wallet.state
  password,         \* WalletDb.password
  initialized,      \* the password of the value at INITIALIZED, or None
  accounts,         \* the stored accounts: key and password, or None
  tasks,            \* the pending accesses to the database
  keys,             \* history: key pairs so far
  owned,            \* history: the key of each account as the user was told
  calm              \* history: see above

vars == << state, password, initialized, accounts, tasks, keys, owned, calm >>

NoAccount == [key |-> 0, pw |-> None]

Init ==
  /\ state = "NEW" /\ password = None /\ initialized = None
  /\ accounts = [n \in Names |-> NoAccount]
  /\ tasks = {} /\ keys = 0 /\ owned = [n \in Names |-> 0]
  /\ calm = TRUE

\* Tasks of the commands on the wallet, and on an account.
WalletTask(op) == [op |-> op, name |-> None, key |-> 0, pw |-> None]
Task(op, name, key) == [op |-> op, name |-> name, key |-> key, pw |-> None]
Deletion(name) == Task("delete", name, 0)
Encrypted(op, name, key) == [Task(op, name, key) EXCEPT !.pw = password]

IsWalletTask(t) == t.op \in {"new", "newCheck", "unlock"}

\* A line of the prompt that starts a command with this first task.
Enter(task) ==
  /\ Cardinality(tasks) < MaxTasks /\ task \notin tasks
  /\ tasks' = tasks \union {task}
  /\ calm' = (calm /\ \A t \in tasks :
                 t.op # "delete" => ~IsWalletTask(t) /\ ~IsWalletTask(task) /\ t.name # task.name)

\* A task ends, or the command goes on with another one.
Ends(task) == task \in tasks /\ tasks' = tasks \ {task}
GoesOn(task, next) == task \in tasks /\ tasks' = (tasks \ {task}) \union {next}

-----------------------------------------------------------------------------
(* new and unlock                                                          *)

\* execNew: setPassword, and setProp encrypts with it at once.
New(pw) ==
  /\ state = "NEW" /\ password = None
  /\ password' = pw
  /\ Enter([WalletTask("new") EXCEPT !.pw = pw])
  /\ UNCHANGED << state, initialized, accounts, keys, owned >>

NewStored ==
  \E t \in tasks :
    /\ t.op = "new"
    /\ initialized' = t.pw
    /\ GoesOn(t, WalletTask("newCheck"))
    /\ UNCHANGED << state, password, accounts, keys, owned, calm >>

\* The test of the encryption has passed.
NewEnds ==
  /\ Ends(WalletTask("newCheck"))
  /\ state' = "LOCKED"
  /\ password' = None
  /\ UNCHANGED << initialized, accounts, keys, owned, calm >>

\* execUnlock sets the password before it is verified.
Unlock(pw) ==
  /\ state = "LOCKED" /\ password = None
  /\ password' = pw
  /\ Enter(WalletTask("unlock"))
  /\ UNCHANGED << state, initialized, accounts, keys, owned >>

UnlockRight ==
  /\ Ends(WalletTask("unlock"))
  /\ password = initialized
  /\ state' = "UNLOCKED"
  /\ UNCHANGED << password, initialized, accounts, keys, owned, calm >>

\* Mutant: a wrong password is not taken back.
UnlockWrongKept ==
  /\ Ends(WalletTask("unlock"))
  /\ password # initialized
  /\ UNCHANGED << state, password, initialized, accounts, keys, owned, calm >>

\* Mutant: the wallet counts as unlocked before the password is verified.
UnlockWrongOpens ==
  /\ Ends(WalletTask("unlock"))
  /\ password # initialized
  /\ state' = "UNLOCKED"
  /\ UNCHANGED << password, initialized, accounts, keys, owned, calm >>

UnlockWrong ==
  /\ Ends(WalletTask("unlock"))
  /\ password # initialized
  /\ password' = None
  /\ UNCHANGED << state, initialized, accounts, keys, owned, calm >>

-----------------------------------------------------------------------------
(* Accounts                                                                *)

\* create_account and import_account: hasAccount reads the database first.
AddAccount(n) ==
  /\ keys < MaxKeys
  /\ keys' = keys + 1
  /\ Enter(Task("add", n, keys'))
  /\ UNCHANGED << state, password, initialized, accounts, owned >>

\* Mutant: an account that is there already is written again.
AddReadBlindly ==
  \E t \in tasks :
    /\ t.op = "add"
    /\ IF password # None THEN GoesOn(t, Encrypted("put", t.name, t.key)) ELSE Ends(t)
    /\ UNCHANGED << state, password, initialized, accounts, keys, owned, calm >>

\* If it is not there, setAccount encrypts with the password of the moment; without
\* one it throws.  If it is, the command ends, with a message or an error.
AddRead ==
  \E t \in tasks :
    /\ t.op = "add"
    /\ IF accounts[t.name] = NoAccount /\ password # None
         THEN GoesOn(t, Encrypted("put", t.name, t.key))
         ELSE Ends(t)
    /\ UNCHANGED << state, password, initialized, accounts, keys, owned, calm >>

AddStored ==
  \E t \in tasks :
    /\ t.op = "put"
    /\ accounts' = [accounts EXCEPT ![t.name] = [key |-> t.key, pw |-> t.pw]]
    /\ owned' = [owned EXCEPT ![t.name] = t.key]
    /\ Ends(t)
    /\ UNCHANGED << state, password, initialized, keys, calm >>

RemoveAccount(n) ==
  /\ Enter(Task("remove", n, 0))
  /\ UNCHANGED << state, password, initialized, accounts, keys, owned >>

\* The account must be there and decrypt.  Its deletion is not awaited.
RemoveRead ==
  \E t \in tasks :
    /\ t.op = "remove"
    /\ IF accounts[t.name] # NoAccount /\ accounts[t.name].pw = password
         THEN /\ GoesOn(t, Deletion(t.name))
              /\ owned' = [owned EXCEPT ![t.name] = 0]
              /\ calm' = (calm /\ Deletion(t.name) \notin tasks)
         ELSE Ends(t) /\ UNCHANGED << owned, calm >>
    /\ UNCHANGED << state, password, initialized, accounts, keys >>

Deleted ==
  \E t \in tasks :
    /\ t.op = "delete"
    /\ accounts' = [accounts EXCEPT ![t.name] = NoAccount]
    /\ Ends(t)
    /\ UNCHANGED << state, password, initialized, keys, owned, calm >>

-----------------------------------------------------------------------------
(* Failures                                                                *)

\* An access fails and its command with it: nothing else is undone.
DbError ==
  \E t \in tasks :
    /\ Ends(t)
    /\ calm' = FALSE
    /\ UNCHANGED << state, password, initialized, accounts, keys, owned >>

\* The wallet ends, and is started again.  Each pending write may have been done.
Restart ==
  \E done \in SUBSET {t \in tasks : t.op \in {"new", "put", "delete"}} :
    /\ \A t, u \in done : t.name = u.name => t = u
    /\ initialized' = IF \E t \in done : t.op = "new" THEN password ELSE initialized
    /\ accounts' = [n \in Names |->
         IF \E t \in done : t.name = n
           THEN LET t == CHOOSE t \in done : t.name = n
                IN  IF t.op = "put" THEN [key |-> t.key, pw |-> t.pw] ELSE NoAccount
           ELSE accounts[n]]
    /\ owned' = [n \in Names |-> IF \E t \in tasks : t.name = n THEN accounts'[n].key
                                                               ELSE owned[n]]
    /\ state' = IF initialized' = None THEN "NEW" ELSE "LOCKED"
    /\ password' = None
    /\ tasks' = {}
    /\ UNCHANGED << keys, calm >>

Next ==
  \/ \E pw \in Passwords : New(pw) \/ Unlock(pw)
  \/ \E n \in Names : AddAccount(n) \/ RemoveAccount(n)
  \/ NewStored \/ NewEnds \/ UnlockRight \/ UnlockWrong
  \/ AddRead \/ AddStored \/ RemoveRead \/ Deleted
  \/ DbError \/ Restart

Spec == Init /\ [][Next]_vars

-----------------------------------------------------------------------------
Keys == 0..MaxKeys
MaybePassword == Passwords \union {None}
WalletTasks ==
  [op : {"new", "newCheck", "unlock"}, name : {None}, key : {0}, pw : MaybePassword]
AccountTasks ==
  [op : {"add", "put", "remove", "delete"}, name : Names, key : Keys, pw : MaybePassword]

TypeOK ==
  /\ state \in {"NEW", "LOCKED", "UNLOCKED"}
  /\ password \in MaybePassword /\ initialized \in MaybePassword
  /\ accounts \in [Names -> [key : Keys, pw : MaybePassword]]
  /\ tasks \subseteq WalletTasks \union AccountTasks
  /\ keys \in Keys /\ owned \in [Names -> Keys] /\ calm \in BOOLEAN

\* An unlocked wallet holds the password it was created with, whatever was entered
\* and failed before; so what it stores from then on can be read again.
UnlockedIsRight == state = "UNLOCKED" => password = initialized /\ password # None

\* At most one new or unlock is pending, and it holds the password.
PasswordInv ==
  /\ \A t, u \in tasks : IsWalletTask(t) /\ IsWalletTask(u) => t = u
  /\ \A t \in tasks : IsWalletTask(t) => password # None
  /\ \A t \in tasks : t.op = "new" => state = "NEW" /\ t.pw = password
  /\ \A t \in tasks : t.op = "newCheck" => state = "NEW" /\ initialized = password
  /\ \A t \in tasks : t.op = "unlock" => state = "LOCKED"
  /\ state \in {"LOCKED", "UNLOCKED"} => initialized # None
  /\ UnlockedIsRight

\* In the calm: one command is pending on each account, or one on the wallet,
OneEach ==
  \A t, u \in tasks :
    t.op # "delete" /\ u.op # "delete" /\ (t.name = u.name \/ IsWalletTask(t)) => t = u

\* which holds the password of a wallet that is not unlocked;
PasswordHeld ==
  /\ state # "UNLOCKED" /\ password # None => \E t \in tasks : IsWalletTask(t)
  /\ state = "NEW" => initialized = None \/ \E t \in tasks : t.op = "newCheck"

\* what is about to be written can be read again, and replaces nothing;
PutsFit ==
  \A t \in tasks : t.op = "put" =>
    t.pw = initialized /\ t.pw # None /\ accounts[t.name] = NoAccount

\* and nobody uses the accounts any more that are about to be deleted.
DeletionsFit ==
  \A t \in tasks : t.op = "delete" =>
    t = Deletion(t.name) /\ owned[t.name] = 0 /\ accounts[t.name] # NoAccount

TasksInv == OneEach /\ PasswordHeld /\ PutsFit /\ DeletionsFit

\* Every stored account decrypts with the password of the wallet.
AccountsReadable ==
  calm => \A n \in Names :
    accounts[n] # NoAccount => accounts[n].pw = initialized /\ accounts[n].pw # None

\* The key an account was created with stays in the wallet until it is removed.
NoKeyLost == calm => \A n \in Names : owned[n] # 0 => accounts[n].key = owned[n]

\* The password and the pending tasks fit the state, and what the calm promises.
WalletInv ==
  /\ TypeOK
  /\ PasswordInv
  /\ calm => TasksInv
  /\ AccountsReadable
  /\ NoKeyLost

\* A wallet that is locked and at rest can be unlocked: no password is left over.
CanUnlock == calm /\ state = "LOCKED" /\ tasks = {} => password = None
=============================================================================
