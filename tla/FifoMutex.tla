------------------------------ MODULE FifoMutex ------------------------------
(***************************************************************************)
(* What Lock (src/src/lib/lock.ts) promises to the code that awaits it:    *)
(* the callers of lock() form one line, the caller at the front is the     *)
(* owner, and the line only moves when the owner leaves.                   *)
(***************************************************************************)
EXTENDS Sequences, Naturals

CONSTANT Procs        \* the asynchronous tasks that share one lock

VARIABLE queue        \* the line, owner first

Init == queue = << >>

Arrive(p) ==
  /\ \A i \in 1..Len(queue) : queue[i] # p
  /\ queue' = Append(queue, p)

Depart ==
  /\ queue # << >>
  /\ queue' = Tail(queue)

Next == Depart \/ \E p \in Procs : Arrive(p)

\* An owner always leaves: every caller unlocks in a finally block.
Spec == Init /\ [][Next]_queue /\ WF_queue(Depart)
=============================================================================
