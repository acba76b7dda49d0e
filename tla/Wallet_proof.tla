---------------------------- MODULE Wallet_proof ----------------------------
(***************************************************************************)
(* WalletInv is inductive: proofs for Wallet.                              *)
(*                                                                         *)
(* One lemma for each action, with one step for each part of WalletInv.    *)
(***************************************************************************)
EXTENDS Wallet, TLAPS

LEMMA NewStep ==
  ASSUME NEW pw \in Passwords, WalletInv, New(pw)
  PROVE  WalletInv'
<1> USE NoneAssumption, BoundsAssumption
<1> USE DEF New, Enter, WalletTask, WalletInv, IsWalletTask, NoAccount
<1>1. TypeOK'
  BY DEF TypeOK, WalletTasks, AccountTasks, MaybePassword, Keys
<1>2. PasswordInv'
  BY DEF PasswordInv, UnlockedIsRight, TypeOK, WalletTasks, AccountTasks, MaybePassword
<1>3. ASSUME calm' PROVE TasksInv'
  <2>1. OneEach'
    BY <1>3 DEF OneEach, TasksInv, PasswordInv, UnlockedIsRight, TypeOK, WalletTasks,
           AccountTasks, MaybePassword, Keys
  <2>2. PasswordHeld'
    BY <1>3 DEF PasswordHeld, TasksInv, PasswordInv, UnlockedIsRight, TypeOK, WalletTasks,
           AccountTasks, MaybePassword, Keys
  <2>3. PutsFit'
    BY <1>3 DEF OneEach, PasswordHeld, PutsFit, DeletionsFit, AccountsReadable, TasksInv,
           PasswordInv, UnlockedIsRight, TypeOK, WalletTasks, AccountTasks, MaybePassword,
           Keys
  <2>4. DeletionsFit'
    BY <1>3 DEF OneEach, PutsFit, DeletionsFit, NoKeyLost, Deletion, Task, TasksInv,
           PasswordInv, UnlockedIsRight, TypeOK, WalletTasks, AccountTasks, MaybePassword,
           Keys
  <2> QED  BY <2>1, <2>2, <2>3, <2>4 DEF TasksInv
<1>4. AccountsReadable'
  BY DEF AccountsReadable, TasksInv, PutsFit, DeletionsFit, OneEach, PasswordHeld,
         PasswordInv, UnlockedIsRight, TypeOK, WalletTasks, AccountTasks, MaybePassword,
         Keys
<1>5. NoKeyLost'
  BY DEF NoKeyLost, TasksInv, PutsFit, DeletionsFit, OneEach, PasswordInv, UnlockedIsRight,
         Deletion, Task, TypeOK, WalletTasks, AccountTasks, MaybePassword, Keys
<1> QED  BY <1>1, <1>2, <1>3, <1>4, <1>5

LEMMA UnlockStep ==
  ASSUME NEW pw \in Passwords, WalletInv, Unlock(pw)
  PROVE  WalletInv'
<1> USE NoneAssumption, BoundsAssumption
<1> USE DEF Unlock, Enter, WalletTask, WalletInv, IsWalletTask, NoAccount
<1>1. TypeOK'
  BY DEF TypeOK, WalletTasks, AccountTasks, MaybePassword, Keys
<1>2. PasswordInv'
  BY DEF PasswordInv, UnlockedIsRight, TypeOK, WalletTasks, AccountTasks, MaybePassword
<1>3. ASSUME calm' PROVE TasksInv'
  <2>1. OneEach'
    BY <1>3 DEF OneEach, TasksInv, PasswordInv, UnlockedIsRight, TypeOK, WalletTasks,
           AccountTasks, MaybePassword, Keys
  <2>2. PasswordHeld'
    BY <1>3 DEF PasswordHeld, TasksInv, PasswordInv, UnlockedIsRight, TypeOK, WalletTasks,
           AccountTasks, MaybePassword, Keys
  <2>3. PutsFit'
    BY <1>3 DEF OneEach, PasswordHeld, PutsFit, DeletionsFit, AccountsReadable, TasksInv,
           PasswordInv, UnlockedIsRight, TypeOK, WalletTasks, AccountTasks, MaybePassword,
           Keys
  <2>4. DeletionsFit'
    BY <1>3 DEF OneEach, PutsFit, DeletionsFit, NoKeyLost, Deletion, Task, TasksInv,
           PasswordInv, UnlockedIsRight, TypeOK, WalletTasks, AccountTasks, MaybePassword,
           Keys
  <2> QED  BY <2>1, <2>2, <2>3, <2>4 DEF TasksInv
<1>4. AccountsReadable'
  BY DEF AccountsReadable, TasksInv, PutsFit, DeletionsFit, OneEach, PasswordHeld,
         PasswordInv, UnlockedIsRight, TypeOK, WalletTasks, AccountTasks, MaybePassword,
         Keys
<1>5. NoKeyLost'
  BY DEF NoKeyLost, TasksInv, PutsFit, DeletionsFit, OneEach, PasswordInv, UnlockedIsRight,
         Deletion, Task, TypeOK, WalletTasks, AccountTasks, MaybePassword, Keys
<1> QED  BY <1>1, <1>2, <1>3, <1>4, <1>5

LEMMA AddAccountStep ==
  ASSUME NEW n \in Names, WalletInv, AddAccount(n)
  PROVE  WalletInv'
<1> USE NoneAssumption, BoundsAssumption
<1> USE DEF AddAccount, Enter, Task, WalletInv, IsWalletTask, NoAccount
<1>1. TypeOK'
  BY DEF TypeOK, WalletTasks, AccountTasks, MaybePassword, Keys
<1>2. PasswordInv'
  BY DEF PasswordInv, UnlockedIsRight, TypeOK, WalletTasks, AccountTasks, MaybePassword
<1>3. ASSUME calm' PROVE TasksInv'
  <2>1. OneEach'
    BY <1>3 DEF OneEach, TasksInv, PasswordInv, UnlockedIsRight, TypeOK, WalletTasks,
           AccountTasks, MaybePassword, Keys
  <2>2. PasswordHeld'
    BY <1>3 DEF PasswordHeld, TasksInv, PasswordInv, UnlockedIsRight, TypeOK, WalletTasks,
           AccountTasks, MaybePassword, Keys
  <2>3. PutsFit'
    BY <1>3 DEF OneEach, PasswordHeld, PutsFit, DeletionsFit, AccountsReadable, TasksInv,
           PasswordInv, UnlockedIsRight, TypeOK, WalletTasks, AccountTasks, MaybePassword,
           Keys
  <2>4. DeletionsFit'
    BY <1>3 DEF OneEach, PutsFit, DeletionsFit, NoKeyLost, Deletion, Task, TasksInv,
           PasswordInv, UnlockedIsRight, TypeOK, WalletTasks, AccountTasks, MaybePassword,
           Keys
  <2> QED  BY <2>1, <2>2, <2>3, <2>4 DEF TasksInv
<1>4. AccountsReadable'
  BY DEF AccountsReadable, TasksInv, PutsFit, DeletionsFit, OneEach, PasswordHeld,
         PasswordInv, UnlockedIsRight, TypeOK, WalletTasks, AccountTasks, MaybePassword,
         Keys
<1>5. NoKeyLost'
  BY DEF NoKeyLost, TasksInv, PutsFit, DeletionsFit, OneEach, PasswordInv, UnlockedIsRight,
         Deletion, Task, TypeOK, WalletTasks, AccountTasks, MaybePassword, Keys
<1> QED  BY <1>1, <1>2, <1>3, <1>4, <1>5

LEMMA RemoveAccountStep ==
  ASSUME NEW n \in Names, WalletInv, RemoveAccount(n)
  PROVE  WalletInv'
<1> USE NoneAssumption, BoundsAssumption
<1> USE DEF RemoveAccount, Enter, Task, WalletInv, IsWalletTask, NoAccount
<1>1. TypeOK'
  BY DEF TypeOK, WalletTasks, AccountTasks, MaybePassword, Keys
<1>2. PasswordInv'
  BY DEF PasswordInv, UnlockedIsRight, TypeOK, WalletTasks, AccountTasks, MaybePassword
<1>3. ASSUME calm' PROVE TasksInv'
  <2>1. OneEach'
    BY <1>3 DEF OneEach, TasksInv, PasswordInv, UnlockedIsRight, TypeOK, WalletTasks,
           AccountTasks, MaybePassword, Keys
  <2>2. PasswordHeld'
    BY <1>3 DEF PasswordHeld, TasksInv, PasswordInv, UnlockedIsRight, TypeOK, WalletTasks,
           AccountTasks, MaybePassword, Keys
  <2>3. PutsFit'
    BY <1>3 DEF OneEach, PasswordHeld, PutsFit, DeletionsFit, AccountsReadable, TasksInv,
           PasswordInv, UnlockedIsRight, TypeOK, WalletTasks, AccountTasks, MaybePassword,
           Keys
  <2>4. DeletionsFit'
    BY <1>3 DEF OneEach, PutsFit, DeletionsFit, NoKeyLost, Deletion, Task, TasksInv,
           PasswordInv, UnlockedIsRight, TypeOK, WalletTasks, AccountTasks, MaybePassword,
           Keys
  <2> QED  BY <2>1, <2>2, <2>3, <2>4 DEF TasksInv
<1>4. AccountsReadable'
  BY DEF AccountsReadable, TasksInv, PutsFit, DeletionsFit, OneEach, PasswordHeld,
         PasswordInv, UnlockedIsRight, TypeOK, WalletTasks, AccountTasks, MaybePassword,
         Keys
<1>5. NoKeyLost'
  BY DEF NoKeyLost, TasksInv, PutsFit, DeletionsFit, OneEach, PasswordInv, UnlockedIsRight,
         Deletion, Task, TypeOK, WalletTasks, AccountTasks, MaybePassword, Keys
<1> QED  BY <1>1, <1>2, <1>3, <1>4, <1>5

LEMMA NewStoredStep ==
  ASSUME WalletInv, NewStored
  PROVE  WalletInv'
<1> USE NoneAssumption, BoundsAssumption
<1> USE DEF NewStored, GoesOn, WalletTask, WalletInv, IsWalletTask, NoAccount
<1>1. TypeOK'
  BY DEF TypeOK, WalletTasks, AccountTasks, MaybePassword, Keys
<1>2. PasswordInv'
  BY DEF PasswordInv, UnlockedIsRight, TypeOK, WalletTasks, AccountTasks, MaybePassword
<1>3. ASSUME calm' PROVE TasksInv'
  <2>1. OneEach'
    BY <1>3 DEF OneEach, TasksInv, PasswordInv, UnlockedIsRight, TypeOK, WalletTasks,
           AccountTasks, MaybePassword, Keys
  <2>2. PasswordHeld'
    <3>1. WalletTask("newCheck") \in tasks' /\ WalletTask("newCheck").op = "newCheck"
      OBVIOUS
    <3> QED  BY <3>1 DEF PasswordHeld
  <2>3. PutsFit'
    BY <1>3 DEF OneEach, PasswordHeld, PutsFit, DeletionsFit, AccountsReadable, TasksInv,
           PasswordInv, UnlockedIsRight, TypeOK, WalletTasks, AccountTasks, MaybePassword,
           Keys
  <2>4. DeletionsFit'
    BY <1>3 DEF OneEach, PutsFit, DeletionsFit, NoKeyLost, Deletion, Task, TasksInv,
           PasswordInv, UnlockedIsRight, TypeOK, WalletTasks, AccountTasks, MaybePassword,
           Keys
  <2> QED  BY <2>1, <2>2, <2>3, <2>4 DEF TasksInv
<1>4. AccountsReadable'
  BY DEF AccountsReadable, TasksInv, PutsFit, DeletionsFit, OneEach, PasswordHeld,
         PasswordInv, UnlockedIsRight, TypeOK, WalletTasks, AccountTasks, MaybePassword,
         Keys
<1>5. NoKeyLost'
  BY DEF NoKeyLost, TasksInv, PutsFit, DeletionsFit, OneEach, PasswordInv, UnlockedIsRight,
         Deletion, Task, TypeOK, WalletTasks, AccountTasks, MaybePassword, Keys
<1> QED  BY <1>1, <1>2, <1>3, <1>4, <1>5

LEMMA NewEndsStep ==
  ASSUME WalletInv, NewEnds
  PROVE  WalletInv'
<1> USE NoneAssumption, BoundsAssumption
<1> USE DEF NewEnds, Ends, WalletTask, WalletInv, IsWalletTask, NoAccount
<1>1. TypeOK'
  BY DEF TypeOK, WalletTasks, AccountTasks, MaybePassword, Keys
<1>2. PasswordInv'
  BY DEF PasswordInv, UnlockedIsRight, TypeOK, WalletTasks, AccountTasks, MaybePassword
<1>3. ASSUME calm' PROVE TasksInv'
  <2>1. OneEach'
    BY <1>3 DEF OneEach, TasksInv, PasswordInv, UnlockedIsRight, TypeOK, WalletTasks,
           AccountTasks, MaybePassword, Keys
  <2>2. PasswordHeld'
    BY <1>3 DEF PasswordHeld, TasksInv, PasswordInv, UnlockedIsRight, TypeOK, WalletTasks,
           AccountTasks, MaybePassword, Keys
  <2>3. PutsFit'
    BY <1>3 DEF OneEach, PasswordHeld, PutsFit, DeletionsFit, AccountsReadable, TasksInv,
           PasswordInv, UnlockedIsRight, TypeOK, WalletTasks, AccountTasks, MaybePassword,
           Keys
  <2>4. DeletionsFit'
    BY <1>3 DEF OneEach, PutsFit, DeletionsFit, NoKeyLost, Deletion, Task, TasksInv,
           PasswordInv, UnlockedIsRight, TypeOK, WalletTasks, AccountTasks, MaybePassword,
           Keys
  <2> QED  BY <2>1, <2>2, <2>3, <2>4 DEF TasksInv
<1>4. AccountsReadable'
  BY DEF AccountsReadable, TasksInv, PutsFit, DeletionsFit, OneEach, PasswordHeld,
         PasswordInv, UnlockedIsRight, TypeOK, WalletTasks, AccountTasks, MaybePassword,
         Keys
<1>5. NoKeyLost'
  BY DEF NoKeyLost, TasksInv, PutsFit, DeletionsFit, OneEach, PasswordInv, UnlockedIsRight,
         Deletion, Task, TypeOK, WalletTasks, AccountTasks, MaybePassword, Keys
<1> QED  BY <1>1, <1>2, <1>3, <1>4, <1>5

LEMMA UnlockRightStep ==
  ASSUME WalletInv, UnlockRight
  PROVE  WalletInv'
<1> USE NoneAssumption, BoundsAssumption
<1> USE DEF UnlockRight, Ends, WalletTask, WalletInv, IsWalletTask, NoAccount
<1>1. TypeOK'
  BY DEF TypeOK, WalletTasks, AccountTasks, MaybePassword, Keys
<1>2. PasswordInv'
  BY DEF PasswordInv, UnlockedIsRight, TypeOK, WalletTasks, AccountTasks, MaybePassword
<1>3. ASSUME calm' PROVE TasksInv'
  <2>1. OneEach'
    BY <1>3 DEF OneEach, TasksInv, PasswordInv, UnlockedIsRight, TypeOK, WalletTasks,
           AccountTasks, MaybePassword, Keys
  <2>2. PasswordHeld'
    BY <1>3 DEF PasswordHeld, TasksInv, PasswordInv, UnlockedIsRight, TypeOK, WalletTasks,
           AccountTasks, MaybePassword, Keys
  <2>3. PutsFit'
    BY <1>3 DEF OneEach, PasswordHeld, PutsFit, DeletionsFit, AccountsReadable, TasksInv,
           PasswordInv, UnlockedIsRight, TypeOK, WalletTasks, AccountTasks, MaybePassword,
           Keys
  <2>4. DeletionsFit'
    BY <1>3 DEF OneEach, PutsFit, DeletionsFit, NoKeyLost, Deletion, Task, TasksInv,
           PasswordInv, UnlockedIsRight, TypeOK, WalletTasks, AccountTasks, MaybePassword,
           Keys
  <2> QED  BY <2>1, <2>2, <2>3, <2>4 DEF TasksInv
<1>4. AccountsReadable'
  BY DEF AccountsReadable, TasksInv, PutsFit, DeletionsFit, OneEach, PasswordHeld,
         PasswordInv, UnlockedIsRight, TypeOK, WalletTasks, AccountTasks, MaybePassword,
         Keys
<1>5. NoKeyLost'
  BY DEF NoKeyLost, TasksInv, PutsFit, DeletionsFit, OneEach, PasswordInv, UnlockedIsRight,
         Deletion, Task, TypeOK, WalletTasks, AccountTasks, MaybePassword, Keys
<1> QED  BY <1>1, <1>2, <1>3, <1>4, <1>5

LEMMA UnlockWrongStep ==
  ASSUME WalletInv, UnlockWrong
  PROVE  WalletInv'
<1> USE NoneAssumption, BoundsAssumption
<1> USE DEF UnlockWrong, Ends, WalletTask, WalletInv, IsWalletTask, NoAccount
<1>1. TypeOK'
  BY DEF TypeOK, WalletTasks, AccountTasks, MaybePassword, Keys
<1>2. PasswordInv'
  BY DEF PasswordInv, UnlockedIsRight, TypeOK, WalletTasks, AccountTasks, MaybePassword
<1>3. ASSUME calm' PROVE TasksInv'
  <2>1. OneEach'
    BY <1>3 DEF OneEach, TasksInv, PasswordInv, UnlockedIsRight, TypeOK, WalletTasks,
           AccountTasks, MaybePassword, Keys
  <2>2. PasswordHeld'
    BY <1>3 DEF PasswordHeld, TasksInv, PasswordInv, UnlockedIsRight, TypeOK, WalletTasks,
           AccountTasks, MaybePassword, Keys
  <2>3. PutsFit'
    BY <1>3 DEF OneEach, PasswordHeld, PutsFit, DeletionsFit, AccountsReadable, TasksInv,
           PasswordInv, UnlockedIsRight, TypeOK, WalletTasks, AccountTasks, MaybePassword,
           Keys
  <2>4. DeletionsFit'
    BY <1>3 DEF OneEach, PutsFit, DeletionsFit, NoKeyLost, Deletion, Task, TasksInv,
           PasswordInv, UnlockedIsRight, TypeOK, WalletTasks, AccountTasks, MaybePassword,
           Keys
  <2> QED  BY <2>1, <2>2, <2>3, <2>4 DEF TasksInv
<1>4. AccountsReadable'
  BY DEF AccountsReadable, TasksInv, PutsFit, DeletionsFit, OneEach, PasswordHeld,
         PasswordInv, UnlockedIsRight, TypeOK, WalletTasks, AccountTasks, MaybePassword,
         Keys
<1>5. NoKeyLost'
  BY DEF NoKeyLost, TasksInv, PutsFit, DeletionsFit, OneEach, PasswordInv, UnlockedIsRight,
         Deletion, Task, TypeOK, WalletTasks, AccountTasks, MaybePassword, Keys
<1> QED  BY <1>1, <1>2, <1>3, <1>4, <1>5

LEMMA AddReadStep ==
  ASSUME WalletInv, AddRead
  PROVE  WalletInv'
<1> USE NoneAssumption, BoundsAssumption
<1> USE DEF AddRead, GoesOn, Ends, Encrypted, Task, WalletInv, IsWalletTask, NoAccount
<1>1. TypeOK'
  BY DEF TypeOK, WalletTasks, AccountTasks, MaybePassword, Keys
<1>2. PasswordInv'
  BY DEF PasswordInv, UnlockedIsRight, TypeOK, WalletTasks, AccountTasks, MaybePassword
<1>3. ASSUME calm' PROVE TasksInv'
  <2>1. OneEach'
    BY <1>3 DEF OneEach, TasksInv, PasswordInv, UnlockedIsRight, TypeOK, WalletTasks,
           AccountTasks, MaybePassword, Keys
  <2>2. PasswordHeld'
    BY <1>3 DEF PasswordHeld, TasksInv, PasswordInv, UnlockedIsRight, TypeOK, WalletTasks,
           AccountTasks, MaybePassword, Keys
  <2>3. PutsFit'
    BY <1>3 DEF OneEach, PasswordHeld, PutsFit, DeletionsFit, AccountsReadable, TasksInv,
           PasswordInv, UnlockedIsRight, TypeOK, WalletTasks, AccountTasks, MaybePassword,
           Keys
  <2>4. DeletionsFit'
    BY <1>3 DEF OneEach, PutsFit, DeletionsFit, NoKeyLost, Deletion, Task, TasksInv,
           PasswordInv, UnlockedIsRight, TypeOK, WalletTasks, AccountTasks, MaybePassword,
           Keys
  <2> QED  BY <2>1, <2>2, <2>3, <2>4 DEF TasksInv
<1>4. AccountsReadable'
  BY DEF AccountsReadable, TasksInv, PutsFit, DeletionsFit, OneEach, PasswordHeld,
         PasswordInv, UnlockedIsRight, TypeOK, WalletTasks, AccountTasks, MaybePassword,
         Keys
<1>5. NoKeyLost'
  BY DEF NoKeyLost, TasksInv, PutsFit, DeletionsFit, OneEach, PasswordInv, UnlockedIsRight,
         Deletion, Task, TypeOK, WalletTasks, AccountTasks, MaybePassword, Keys
<1> QED  BY <1>1, <1>2, <1>3, <1>4, <1>5

LEMMA AddStoredStep ==
  ASSUME WalletInv, AddStored
  PROVE  WalletInv'
<1> USE NoneAssumption, BoundsAssumption
<1> USE DEF AddStored, Ends, WalletInv, IsWalletTask, NoAccount
<1>1. TypeOK'
  BY DEF TypeOK, WalletTasks, AccountTasks, MaybePassword, Keys
<1>2. PasswordInv'
  BY DEF PasswordInv, UnlockedIsRight, TypeOK, WalletTasks, AccountTasks, MaybePassword
<1>3. ASSUME calm' PROVE TasksInv'
  <2>1. OneEach'
    BY <1>3 DEF OneEach, TasksInv, PasswordInv, UnlockedIsRight, TypeOK, WalletTasks,
           AccountTasks, MaybePassword, Keys
  <2>2. PasswordHeld'
    BY <1>3 DEF PasswordHeld, TasksInv, PasswordInv, UnlockedIsRight, TypeOK, WalletTasks,
           AccountTasks, MaybePassword, Keys
  <2>3. PutsFit'
    BY <1>3 DEF OneEach, PasswordHeld, PutsFit, DeletionsFit, AccountsReadable, TasksInv,
           PasswordInv, UnlockedIsRight, TypeOK, WalletTasks, AccountTasks, MaybePassword,
           Keys
  <2>4. DeletionsFit'
    BY <1>3 DEF OneEach, PutsFit, DeletionsFit, NoKeyLost, Deletion, Task, TasksInv,
           PasswordInv, UnlockedIsRight, TypeOK, WalletTasks, AccountTasks, MaybePassword,
           Keys
  <2> QED  BY <2>1, <2>2, <2>3, <2>4 DEF TasksInv
<1>4. AccountsReadable'
  BY DEF AccountsReadable, TasksInv, PutsFit, DeletionsFit, OneEach, PasswordHeld,
         PasswordInv, UnlockedIsRight, TypeOK, WalletTasks, AccountTasks, MaybePassword,
         Keys
<1>5. NoKeyLost'
  BY DEF NoKeyLost, TasksInv, PutsFit, DeletionsFit, OneEach, PasswordInv, UnlockedIsRight,
         Deletion, Task, TypeOK, WalletTasks, AccountTasks, MaybePassword, Keys
<1> QED  BY <1>1, <1>2, <1>3, <1>4, <1>5

LEMMA RemoveReadStep ==
  ASSUME WalletInv, RemoveRead
  PROVE  WalletInv'
<1> USE NoneAssumption, BoundsAssumption DEF WalletInv
<1> DEFINE Found(t) == accounts[t.name] # NoAccount /\ accounts[t.name].pw = password
<1>1. PICK t \in tasks :
        /\ t.op = "remove"
        /\ \/ /\ Found(t)
              /\ tasks' = (tasks \ {t}) \union {Deletion(t.name)}
              /\ owned' = [owned EXCEPT ![t.name] = 0]
              /\ calm' = (calm /\ Deletion(t.name) \notin tasks)
           \/ tasks' = tasks \ {t} /\ UNCHANGED << owned, calm >>
        /\ UNCHANGED << state, password, initialized, accounts, keys >>
  BY DEF RemoveRead, GoesOn, Ends
<1>2. t.name \in Names
  BY <1>1 DEF TypeOK, WalletTasks, AccountTasks
<1>3. /\ Deletion(t.name) \in AccountTasks
      /\ Deletion(t.name).op = "delete" /\ Deletion(t.name).name = t.name
  BY <1>2 DEF Deletion, Task, AccountTasks, MaybePassword, Keys
<1>4. TypeOK'
  <2>1. tasks' \subseteq WalletTasks \union AccountTasks
    BY <1>1, <1>3 DEF TypeOK
  <2>2. owned' \in [Names -> Keys]
    BY <1>1, <1>2 DEF TypeOK, Keys
  <2>3. calm' \in BOOLEAN
    BY <1>1 DEF TypeOK
  <2> QED  BY <1>1, <2>1, <2>2, <2>3 DEF TypeOK
<1>5. PasswordInv'
  BY <1>1, <1>3 DEF PasswordInv, UnlockedIsRight, IsWalletTask
<1>6. ASSUME calm' PROVE TasksInv'
  <2>1. calm /\ TasksInv
    BY <1>1, <1>6 DEF TypeOK
  <2>2. OneEach'
    BY <1>1, <1>3, <2>1 DEF TasksInv, OneEach, IsWalletTask
  <2>3. PasswordHeld'
    BY <1>1, <2>1 DEF TasksInv, PasswordHeld, IsWalletTask
  <2>4. PutsFit'
    BY <1>1, <1>3, <2>1 DEF TasksInv, PutsFit
  <2>5. DeletionsFit'
    <3> SUFFICES ASSUME NEW u \in tasks', u.op = "delete"
                 PROVE  u = Deletion(u.name) /\ owned'[u.name] = 0 /\ accounts[u.name] # NoAccount
      BY <1>1 DEF DeletionsFit, Deletion, Task, NoAccount
    <3>1. CASE u \in tasks
      <4>1. u = Deletion(u.name) /\ owned[u.name] = 0 /\ accounts[u.name] # NoAccount
        BY <2>1, <3>1 DEF TasksInv, DeletionsFit
      <4>2. owned'[u.name] = 0
        <5>1. u.name \in Names
          BY <3>1 DEF TypeOK, WalletTasks, AccountTasks
        <5> QED  BY <1>1, <4>1, <5>1 DEF TypeOK
      <4> QED  BY <4>1, <4>2
    <3>2. CASE u \notin tasks
      BY <1>1, <1>2, <1>3, <3>2 DEF TypeOK
    <3> QED  BY <3>1, <3>2
  <2> QED  BY <2>2, <2>3, <2>4, <2>5 DEF TasksInv
<1>7. AccountsReadable'
  BY <1>1 DEF AccountsReadable, NoAccount, TypeOK
<1>8. NoKeyLost'
  BY <1>1, <1>2 DEF NoKeyLost, TypeOK
<1> QED  BY <1>4, <1>5, <1>6, <1>7, <1>8

LEMMA DeletedStep ==
  ASSUME WalletInv, Deleted
  PROVE  WalletInv'
<1> USE NoneAssumption, BoundsAssumption
<1> USE DEF Deleted, Ends, WalletInv, IsWalletTask, NoAccount
<1>1. TypeOK'
  BY DEF TypeOK, WalletTasks, AccountTasks, MaybePassword, Keys
<1>2. PasswordInv'
  BY DEF PasswordInv, UnlockedIsRight, TypeOK, WalletTasks, AccountTasks, MaybePassword
<1>3. ASSUME calm' PROVE TasksInv'
  <2>1. OneEach'
    BY <1>3 DEF OneEach, TasksInv, PasswordInv, UnlockedIsRight, TypeOK, WalletTasks,
           AccountTasks, MaybePassword, Keys
  <2>2. PasswordHeld'
    BY <1>3 DEF PasswordHeld, TasksInv, PasswordInv, UnlockedIsRight, TypeOK, WalletTasks,
           AccountTasks, MaybePassword, Keys
  <2>3. PutsFit'
    BY <1>3 DEF OneEach, PasswordHeld, PutsFit, DeletionsFit, AccountsReadable, TasksInv,
           PasswordInv, UnlockedIsRight, TypeOK, WalletTasks, AccountTasks, MaybePassword,
           Keys
  <2>4. DeletionsFit'
    BY <1>3 DEF OneEach, PutsFit, DeletionsFit, NoKeyLost, Deletion, Task, TasksInv,
           PasswordInv, UnlockedIsRight, TypeOK, WalletTasks, AccountTasks, MaybePassword,
           Keys
  <2> QED  BY <2>1, <2>2, <2>3, <2>4 DEF TasksInv
<1>4. AccountsReadable'
  BY DEF AccountsReadable, TasksInv, PutsFit, DeletionsFit, OneEach, PasswordHeld,
         PasswordInv, UnlockedIsRight, TypeOK, WalletTasks, AccountTasks, MaybePassword,
         Keys
<1>5. NoKeyLost'
  BY DEF NoKeyLost, TasksInv, PutsFit, DeletionsFit, OneEach, PasswordInv, UnlockedIsRight,
         Deletion, Task, TypeOK, WalletTasks, AccountTasks, MaybePassword, Keys
<1> QED  BY <1>1, <1>2, <1>3, <1>4, <1>5

LEMMA DbErrorStep ==
  ASSUME WalletInv, DbError
  PROVE  WalletInv'
<1> USE NoneAssumption, BoundsAssumption
<1> USE DEF DbError, Ends, WalletInv, IsWalletTask, NoAccount
<1>1. TypeOK'
  BY DEF TypeOK, WalletTasks, AccountTasks, MaybePassword, Keys
<1>2. PasswordInv'
  BY DEF PasswordInv, UnlockedIsRight, TypeOK, WalletTasks, AccountTasks, MaybePassword
<1>3. ASSUME calm' PROVE TasksInv'
  <2>1. OneEach'
    BY <1>3 DEF OneEach, TasksInv, PasswordInv, UnlockedIsRight, TypeOK, WalletTasks,
           AccountTasks, MaybePassword, Keys
  <2>2. PasswordHeld'
    BY <1>3 DEF PasswordHeld, TasksInv, PasswordInv, UnlockedIsRight, TypeOK, WalletTasks,
           AccountTasks, MaybePassword, Keys
  <2>3. PutsFit'
    BY <1>3 DEF OneEach, PasswordHeld, PutsFit, DeletionsFit, AccountsReadable, TasksInv,
           PasswordInv, UnlockedIsRight, TypeOK, WalletTasks, AccountTasks, MaybePassword,
           Keys
  <2>4. DeletionsFit'
    BY <1>3 DEF OneEach, PutsFit, DeletionsFit, NoKeyLost, Deletion, Task, TasksInv,
           PasswordInv, UnlockedIsRight, TypeOK, WalletTasks, AccountTasks, MaybePassword,
           Keys
  <2> QED  BY <2>1, <2>2, <2>3, <2>4 DEF TasksInv
<1>4. AccountsReadable'
  BY DEF AccountsReadable, TasksInv, PutsFit, DeletionsFit, OneEach, PasswordHeld,
         PasswordInv, UnlockedIsRight, TypeOK, WalletTasks, AccountTasks, MaybePassword,
         Keys
<1>5. NoKeyLost'
  BY DEF NoKeyLost, TasksInv, PutsFit, DeletionsFit, OneEach, PasswordInv, UnlockedIsRight,
         Deletion, Task, TypeOK, WalletTasks, AccountTasks, MaybePassword, Keys
<1> QED  BY <1>1, <1>2, <1>3, <1>4, <1>5

LEMMA RestartStep ==
  ASSUME WalletInv, Restart
  PROVE  WalletInv'
<1> USE NoneAssumption, BoundsAssumption
<1> USE DEF Restart, WalletInv, IsWalletTask, NoAccount
<1>1. TypeOK'
  BY DEF TypeOK, WalletTasks, AccountTasks, MaybePassword, Keys
<1>2. PasswordInv'
  BY DEF PasswordInv, UnlockedIsRight, TypeOK, WalletTasks, AccountTasks, MaybePassword
<1>3. ASSUME calm' PROVE TasksInv'
  <2>1. OneEach'
    BY <1>3 DEF OneEach, TasksInv, PasswordInv, UnlockedIsRight, TypeOK, WalletTasks,
           AccountTasks, MaybePassword, Keys
  <2>2. PasswordHeld'
    BY <1>3 DEF PasswordHeld, TasksInv, PasswordInv, UnlockedIsRight, TypeOK, WalletTasks,
           AccountTasks, MaybePassword, Keys
  <2>3. PutsFit'
    BY <1>3 DEF OneEach, PasswordHeld, PutsFit, DeletionsFit, AccountsReadable, TasksInv,
           PasswordInv, UnlockedIsRight, TypeOK, WalletTasks, AccountTasks, MaybePassword,
           Keys
  <2>4. DeletionsFit'
    BY <1>3 DEF OneEach, PutsFit, DeletionsFit, NoKeyLost, Deletion, Task, TasksInv,
           PasswordInv, UnlockedIsRight, TypeOK, WalletTasks, AccountTasks, MaybePassword,
           Keys
  <2> QED  BY <2>1, <2>2, <2>3, <2>4 DEF TasksInv
<1>4. AccountsReadable'
  BY DEF AccountsReadable, TasksInv, PutsFit, DeletionsFit, OneEach, PasswordHeld,
         PasswordInv, UnlockedIsRight, TypeOK, WalletTasks, AccountTasks, MaybePassword,
         Keys
<1>5. NoKeyLost'
  BY DEF NoKeyLost, TasksInv, PutsFit, DeletionsFit, OneEach, PasswordInv, UnlockedIsRight,
         Deletion, Task, TypeOK, WalletTasks, AccountTasks, MaybePassword, Keys
<1> QED  BY <1>1, <1>2, <1>3, <1>4, <1>5

-----------------------------------------------------------------------------
\* Init establishes WalletInv and each action preserves it.
LEMMA Inductive == Spec => []WalletInv
<1>1. Init => WalletInv
  BY NoneAssumption, BoundsAssumption
     DEF Init, WalletInv, TypeOK, PasswordInv, UnlockedIsRight, TasksInv, OneEach,
            PasswordHeld,
         PutsFit, DeletionsFit, AccountsReadable, NoKeyLost, NoAccount, MaybePassword, Keys,
         IsWalletTask
<1>2. WalletInv /\ [Next]_vars => WalletInv'
  <2> SUFFICES ASSUME WalletInv, [Next]_vars PROVE WalletInv'
    OBVIOUS
  <2>1. CASE UNCHANGED vars
    BY <2>1 DEF vars, WalletInv, TypeOK, PasswordInv, UnlockedIsRight, TasksInv, OneEach,
         PasswordHeld, PutsFit, DeletionsFit, AccountsReadable, NoKeyLost, IsWalletTask
  <2>2. CASE \E pw \in Passwords : New(pw) \/ Unlock(pw)
    BY <2>2, NewStep, UnlockStep
  <2>3. CASE \E n \in Names : AddAccount(n) \/ RemoveAccount(n)
    BY <2>3, AddAccountStep, RemoveAccountStep
  <2>4. CASE NewStored \/ NewEnds \/ UnlockRight \/ UnlockWrong
    BY <2>4, NewStoredStep, NewEndsStep, UnlockRightStep, UnlockWrongStep
  <2>5. CASE AddRead \/ AddStored \/ RemoveRead \/ Deleted
    BY <2>5, AddReadStep, AddStoredStep, RemoveReadStep, DeletedStep
  <2>6. CASE DbError \/ Restart
    BY <2>6, DbErrorStep, RestartStep
  <2> QED  BY <2>1, <2>2, <2>3, <2>4, <2>5, <2>6 DEF Next
<1> QED  BY <1>1, <1>2, PTL DEF Spec

\* Whatever commands overlap, fail or are cut off, the password, the pending accesses
\* and the database fit each other.
THEOREM SpecWalletInv == Spec => []WalletInv
BY Inductive, PTL

\* Every account the wallet stores can be decrypted with its password.
THEOREM SpecAccountsReadable == Spec => []AccountsReadable
<1>1. WalletInv => AccountsReadable
  BY DEF WalletInv
<1> QED  BY Inductive, <1>1, PTL

\* No command, and no restart in the middle of one, loses the key of an account.
THEOREM SpecNoKeyLost == Spec => []NoKeyLost
<1>1. WalletInv => NoKeyLost
  BY DEF WalletInv
<1> QED  BY Inductive, <1>1, PTL

\* The password of a failed unlock is never left over to keep the wallet from being
\* unlocked.
THEOREM SpecCanUnlock == Spec => []CanUnlock
<1>1. WalletInv => CanUnlock
  BY DEF WalletInv, TypeOK, TasksInv, PasswordHeld, CanUnlock
<1> QED  BY Inductive, <1>1, PTL
=============================================================================
