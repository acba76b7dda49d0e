------------------------------ MODULE AsyncLock ------------------------------
(***************************************************************************)
(* Lock (src/src/lib/lock.ts), the promise lock behind every critical      *)
(* section of the node: Blockchain.addBlock, BlockIndexer.index/flush,     *)
(* TxPool, Producer, Synchronizer and ClientNet.open.                      *)
(*                                                                         *)
(* `locked' is _locked and `handles' the array of resolvers of the callers *)
(* that wait.  unlock() does not run the next caller: it takes its         *)
(* resolver off the array and passes it to setImmediate, and the caller    *)
(* runs in a later turn of the event loop.  In between it is "resuming",   *)
(* the lock has no running owner and only _locked keeps newcomers out.     *)
(*                                                                         *)
(* A task calls unlock() only while it owns the lock, as the try/finally   *)
(* blocks of the callers do.                                               *)
(***************************************************************************)
EXTENDS FiniteSets, Sequences, SequencesExt

CONSTANT Procs        \* the asynchronous tasks that share one lock

VARIABLES
  locked,             \* Lock._locked
  handles,            \* Lock.handles: tasks whose resolver is queued
  pc                  \* where each task is

vars == << locked, handles, pc >>

States == {"outside", "waiting", "resuming", "inside"}

TypeOK ==
  /\ locked \in BOOLEAN
  /\ handles \in Seq(Procs)
  /\ pc \in [Procs -> States]

Init ==
  /\ locked = FALSE
  /\ handles = << >>
  /\ pc = [p \in Procs |-> "outside"]

-----------------------------------------------------------------------------
\* await lock.lock() on a taken lock: the resolver goes to the end of handles.
LockWait(p) ==
  /\ pc[p] = "outside"
  /\ locked
  /\ handles' = Append(handles, p)
  /\ pc' = [pc EXCEPT ![p] = "waiting"]
  /\ UNCHANGED locked

\* Mutant: lock() resolves but does not set _locked.
LockTakeUnmarked(p) ==
  /\ pc[p] = "outside"
  /\ ~locked
  /\ pc' = [pc EXCEPT ![p] = "inside"]
  /\ UNCHANGED << locked, handles >>

\* await lock.lock() on a free lock: the promise is resolved at once.
LockTake(p) ==
  /\ pc[p] = "outside"
  /\ ~locked
  /\ locked' = TRUE
  /\ pc' = [pc EXCEPT ![p] = "inside"]
  /\ UNCHANGED handles

\* Mutant: unlock() clears _locked although it hands the lock to a waiter.
UnlockHandOffClears(p) ==
  /\ pc[p] = "inside"
  /\ handles # << >>
  /\ handles' = Tail(handles)
  /\ pc' = [pc EXCEPT ![p] = "outside", ![Head(handles)] = "resuming"]
  /\ locked' = FALSE

\* Mutant: unlock() pops the newest resolver instead of shifting the oldest.
UnlockHandOffPop(p) ==
  /\ pc[p] = "inside"
  /\ handles # << >>
  /\ handles' = Front(handles)
  /\ pc' = [pc EXCEPT ![p] = "outside", ![Last(handles)] = "resuming"]
  /\ UNCHANGED locked

\* unlock() with a resolver queued: it is shifted off and handed to setImmediate.
UnlockHandOff(p) ==
  /\ pc[p] = "inside"
  /\ handles # << >>
  /\ handles' = Tail(handles)
  /\ pc' = [pc EXCEPT ![p] = "outside", ![Head(handles)] = "resuming"]
  /\ UNCHANGED locked

\* Mutant: unlock() leaves _locked set when nobody waits.
UnlockFreeKeeps(p) ==
  /\ pc[p] = "inside"
  /\ handles = << >>
  /\ pc' = [pc EXCEPT ![p] = "outside"]
  /\ UNCHANGED << locked, handles >>

\* unlock() with nobody waiting.
UnlockFree(p) ==
  /\ pc[p] = "inside"
  /\ handles = << >>
  /\ locked' = FALSE
  /\ pc' = [pc EXCEPT ![p] = "outside"]
  /\ UNCHANGED handles

Unlock(p) == UnlockHandOff(p) \/ UnlockFree(p)

\* The setImmediate callback: the waiter's await returns.
Immediate(p) ==
  /\ pc[p] = "resuming"
  /\ pc' = [pc EXCEPT ![p] = "inside"]
  /\ UNCHANGED << locked, handles >>

Next ==
  \E p \in Procs : LockWait(p) \/ LockTake(p) \/ Unlock(p) \/ Immediate(p)

\* Callers unlock in finally, and the event loop runs every immediate.
Fairness ==
  \A p \in Procs : WF_vars(Unlock(p)) /\ WF_vars(Immediate(p))

Spec == Init /\ [][Next]_vars
FairSpec == Spec /\ Fairness

-----------------------------------------------------------------------------
Owners == {p \in Procs : pc[p] \in {"resuming", "inside"}}

\* At most one task runs between its lock() and its unlock(), also counting
\* the task to which the lock has been handed but which has not run yet.
MutualExclusion == \A p, q \in Owners : p = q

\* The lock is never taken by a newcomer while an earlier caller waits or has
\* been handed the lock without having run: _locked stays set across the
\* hand-off of unlock().
NoBarging ==
  [][\A p \in Procs :
       pc[p] = "outside" /\ pc'[p] = "inside"
         => \A q \in Procs : pc[q] \notin {"waiting", "resuming"}]_vars

\* Every caller of lock() eventually runs, however many are in front of it.
EveryCallerRuns == \A p \in Procs : pc[p] = "waiting" ~> pc[p] = "inside"

\* The inductive invariant: _locked is set exactly while somebody owns the
\* lock, there is one owner, handles lists each waiting task once, and nobody
\* waits for a free lock.
LockInv ==
  /\ TypeOK
  /\ MutualExclusion
  /\ locked <=> Owners # {}
  /\ locked \/ handles = << >>
  /\ \A p \in Procs : pc[p] = "waiting" <=> p \in ToSet(handles)
  /\ \A i, j \in 1..Len(handles) : handles[i] = handles[j] => i = j

-----------------------------------------------------------------------------
\* Lock implements the line of FifoMutex: the owner, then handles in order.
OwnerSeq ==
  IF Owners = {} THEN << >> ELSE << CHOOSE p \in Procs : p \in Owners >>

Fifo == INSTANCE FifoMutex WITH queue <- OwnerSeq \o handles

\* Callers enter in the order of their calls to lock(), and none is skipped
\* or served twice.
ImplementsFifoMutex == Fifo!Spec
=============================================================================
