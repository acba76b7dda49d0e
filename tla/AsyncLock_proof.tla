--------------------------- MODULE AsyncLock_proof ---------------------------
(***************************************************************************)
(* Proofs about AsyncLock for any set of tasks: the inductive invariant    *)
(* LockInv, mutual exclusion, no barging, and that every step of the lock  *)
(* is a step of FifoMutex or leaves its line unchanged.                    *)
(***************************************************************************)
EXTENDS AsyncLock, SequenceTheorems, TLAPS

\* Taking the first resolver off handles leaves the others, in order.
LEMMA TailOfHandles ==
  ASSUME NEW s \in Seq(Procs), s # << >>,
         \A i, j \in 1..Len(s) : s[i] = s[j] => i = j
  PROVE  /\ Head(s) \in Procs
         /\ Head(s) \in ToSet(s)
         /\ Tail(s) \in Seq(Procs)
         /\ \A p : p \in ToSet(Tail(s)) <=> p \in ToSet(s) /\ p # Head(s)
         /\ \A i, j \in 1..Len(Tail(s)) : Tail(s)[i] = Tail(s)[j] => i = j
<1>1. /\ Len(s) \in Nat \ {0} /\ Len(Tail(s)) = Len(s) - 1
      /\ Tail(s) \in Seq(Procs)
      /\ \A i \in 1..Len(Tail(s)) : Tail(s)[i] = s[i+1]
  BY HeadTailProperties, EmptySeq
<1>2. Head(s) = s[1] /\ Head(s) \in Procs
  BY <1>1
<1>3. DOMAIN s = 1..Len(s) /\ DOMAIN Tail(s) = 1..Len(Tail(s))
  BY <1>1, LenProperties
<1>4. ASSUME NEW p
      PROVE  p \in ToSet(Tail(s)) <=> p \in ToSet(s) /\ p # Head(s)
  <2>1. ASSUME NEW i \in 1..Len(Tail(s)), p = Tail(s)[i]
        PROVE  p \in ToSet(s) /\ p # Head(s)
    <3>1. i + 1 \in 1..Len(s) /\ p = s[i+1] /\ 1 \in 1..Len(s) /\ i + 1 # 1
      BY <1>1, <2>1
    <3>2. QED
      BY <3>1, <1>2, <1>3 DEF ToSet
  <2>2. ASSUME NEW i \in 1..Len(s), p = s[i], p # Head(s)
        PROVE  p \in ToSet(Tail(s))
    <3>1. i - 1 \in 1..Len(Tail(s)) /\ (i - 1) + 1 = i
      BY <1>1, <1>2, <2>2
    <3>2. Tail(s)[i-1] = p
      BY <3>1, <1>1, <2>2
    <3>3. QED
      BY <3>1, <3>2, <1>3 DEF ToSet
  <2>3. QED
    BY <2>1, <2>2, <1>3 DEF ToSet
<1>5. ASSUME NEW i \in 1..Len(Tail(s)), NEW j \in 1..Len(Tail(s)),
             Tail(s)[i] = Tail(s)[j]
      PROVE  i = j
  <2>1. i+1 \in 1..Len(s) /\ j+1 \in 1..Len(s) /\ s[i+1] = s[j+1]
    BY <1>1, <1>5
  <2>2. i + 1 = j + 1
    BY <2>1
  <2>3. QED
    BY <2>2
<1>6. Head(s) \in ToSet(s)
  BY <1>1, <1>2, <1>3 DEF ToSet
<1>7. QED
  BY <1>1, <1>2, <1>4, <1>5, <1>6

\* Appending a new resolver adds it to handles once.
LEMMA AppendToHandles ==
  ASSUME NEW s \in Seq(Procs), NEW q \in Procs, q \notin ToSet(s),
         \A i, j \in 1..Len(s) : s[i] = s[j] => i = j
  PROVE  /\ Append(s, q) \in Seq(Procs)
         /\ \A p : p \in ToSet(Append(s, q)) <=> p \in ToSet(s) \/ p = q
         /\ \A i, j \in 1..Len(Append(s, q)) :
              Append(s, q)[i] = Append(s, q)[j] => i = j
<1> DEFINE t == Append(s, q)
<1>1. /\ Len(s) \in Nat /\ DOMAIN s = 1..Len(s)
      /\ t \in Seq(Procs) /\ Len(t) = Len(s) + 1 /\ DOMAIN t = 1..Len(t)
      /\ \A i \in 1..Len(s) : t[i] = s[i]
      /\ t[Len(s) + 1] = q
  BY AppendProperties, LenProperties
<1> HIDE DEF t
<1>2. \A i \in 1..Len(s) : s[i] # q
  BY <1>1 DEF ToSet
<1>3. \A i \in 1..Len(t) : i \in 1..Len(s) \/ i = Len(s) + 1
  BY <1>1
<1>4. \A p : p \in ToSet(t) <=> p \in ToSet(s) \/ p = q
  <2>1. \A p \in ToSet(t) : p \in ToSet(s) \/ p = q
    BY <1>1, <1>3 DEF ToSet
  <2>2. q \in ToSet(t)
    <3>1. Len(s) + 1 \in 1..Len(t)
      BY <1>1
    <3>2. QED
      BY <3>1, <1>1 DEF ToSet
  <2>3. \A p \in ToSet(s) : p \in ToSet(t)
    <3>1. \A i \in 1..Len(s) : i \in 1..Len(t)
      BY <1>1
    <3>2. QED
      BY <3>1, <1>1 DEF ToSet
  <2>4. QED
    BY <2>1, <2>2, <2>3
<1>5. \A i, j \in 1..Len(t) : t[i] = t[j] => i = j
  BY <1>1, <1>2, <1>3
<1>6. QED
  BY <1>1, <1>4, <1>5 DEF t

-----------------------------------------------------------------------------
LEMMA InitLockInv == Init => LockInv
<1> SUFFICES ASSUME Init PROVE LockInv
  OBVIOUS
<1>1. handles \in Seq(Procs) /\ Len(handles) = 0 /\ DOMAIN handles = {}
  BY DEF Init
<1>2. TypeOK
  BY <1>1 DEF Init, TypeOK, States
<1>3. Owners = {} /\ ToSet(handles) = {}
  BY <1>1 DEF Init, Owners, ToSet
<1>4. QED
  BY <1>1, <1>2, <1>3 DEF Init, LockInv, MutualExclusion

\* One step per action of Next.
LEMMA NextLockInv == LockInv /\ [Next]_vars => LockInv'
<1> SUFFICES ASSUME LockInv, [Next]_vars PROVE LockInv'
  OBVIOUS
<1> USE DEF TypeOK, States
<1>1. ASSUME NEW p \in Procs, LockWait(p) PROVE LockInv'
  <2>1. p \notin ToSet(handles)
    BY <1>1 DEF LockInv, LockWait
  <2>2. /\ handles' \in Seq(Procs)
        /\ \A q : q \in ToSet(handles') <=> q \in ToSet(handles) \/ q = p
        /\ \A i, j \in 1..Len(handles') : handles'[i] = handles'[j] => i = j
    BY <1>1, <2>1, AppendToHandles DEF LockInv, LockWait
  <2>3. Owners' = Owners
    BY <1>1 DEF LockInv, LockWait, Owners
  <2>4. TypeOK'
    BY <1>1, <2>2 DEF LockInv, LockWait
  <2>5. \A q \in Procs : pc'[q] = "waiting" <=> q \in ToSet(handles')
    BY <1>1, <2>2 DEF LockInv, LockWait
  <2>6. MutualExclusion' /\ (locked' <=> Owners' # {})
    BY <1>1, <2>3 DEF LockInv, LockWait, MutualExclusion
  <2>7. QED
    BY <1>1, <2>2, <2>4, <2>5, <2>6 DEF LockInv, LockWait
<1>2. ASSUME NEW p \in Procs, LockTake(p) PROVE LockInv'
  <2>1. Owners = {}
    BY <1>2 DEF LockInv, LockTake
  <2>2. Owners' = {p}
    BY <1>2, <2>1 DEF LockInv, LockTake, Owners
  <2>3. TypeOK'
    BY <1>2 DEF LockInv, LockTake
  <2>4. MutualExclusion' /\ (locked' <=> Owners' # {})
    BY <1>2, <2>2 DEF LockTake, MutualExclusion
  <2>5. locked'
    BY <1>2 DEF LockTake
  <2>6. QED
    BY <1>2, <2>3, <2>4, <2>5 DEF LockInv, LockTake
<1>3. ASSUME NEW p \in Procs, UnlockHandOff(p) PROVE LockInv'
  <2> DEFINE h == Head(handles)
  <2>1. /\ h \in Procs /\ h \in ToSet(handles)
        /\ handles' \in Seq(Procs)
        /\ \A q : q \in ToSet(handles') <=> q \in ToSet(handles) /\ q # h
        /\ \A i, j \in 1..Len(handles') : handles'[i] = handles'[j] => i = j
    BY <1>3, TailOfHandles DEF LockInv, UnlockHandOff
  <2>2. pc[h] = "waiting" /\ pc[p] = "inside" /\ h # p
    BY <1>3, <2>1 DEF LockInv, UnlockHandOff
  <2>3. /\ pc' = [pc EXCEPT ![p] = "outside", ![h] = "resuming"]
        /\ locked' = locked
    BY <1>3 DEF UnlockHandOff
  <2> HIDE DEF h
  <2>4. \A q \in Procs : pc'[q] = IF q = h THEN "resuming"
                                  ELSE IF q = p THEN "outside" ELSE pc[q]
    BY <2>1, <2>2, <2>3 DEF LockInv
  <2>5. Owners = {p}
    BY <2>2 DEF LockInv, MutualExclusion, Owners
  <2>6. Owners' = {h}
    BY <2>1, <2>4, <2>5 DEF Owners
  <2>7. TypeOK'
    BY <2>1, <2>2, <2>3 DEF LockInv
  <2>8. MutualExclusion' /\ (locked' <=> Owners' # {})
    BY <2>3, <2>5, <2>6 DEF LockInv, MutualExclusion
  <2>9. \A q \in Procs : pc'[q] = "waiting" <=> q \in ToSet(handles')
    BY <2>1, <2>2, <2>4 DEF LockInv
  <2>10. locked'
    BY <2>6, <2>8
  <2>11. QED
    BY <2>1, <2>7, <2>8, <2>9, <2>10 DEF LockInv
<1>4. ASSUME NEW p \in Procs, UnlockFree(p) PROVE LockInv'
  <2>1. Owners = {p}
    BY <1>4 DEF LockInv, UnlockFree, MutualExclusion, Owners
  <2>2. Owners' = {}
    BY <1>4, <2>1 DEF LockInv, UnlockFree, Owners
  <2>3. TypeOK'
    BY <1>4 DEF LockInv, UnlockFree
  <2>4. QED
    BY <1>4, <2>2, <2>3 DEF LockInv, UnlockFree, MutualExclusion
<1>5. ASSUME NEW p \in Procs, Immediate(p) PROVE LockInv'
  <2>1. Owners' = Owners
    BY <1>5 DEF LockInv, Immediate, Owners
  <2>2. TypeOK'
    BY <1>5 DEF LockInv, Immediate
  <2>3. QED
    BY <1>5, <2>1, <2>2 DEF LockInv, Immediate, MutualExclusion
<1>6. CASE UNCHANGED vars
  BY <1>6 DEF LockInv, MutualExclusion, Owners, vars
<1>7. QED
  BY <1>1, <1>2, <1>3, <1>4, <1>5, <1>6 DEF Next, Unlock

\* lock.ts keeps its bookkeeping: _locked says whether the lock is owned, and
\* handles holds every waiting caller once.
THEOREM LockInvariant == Spec => []LockInv
<1>1. QED
  BY InitLockInv, NextLockInv, PTL DEF Spec

\* At most one caller of lock.ts is between its lock() and its unlock(), for
\* any number of callers.
THEOREM MutualExclusionHolds == Spec => []MutualExclusion
<1>1. LockInv => MutualExclusion
  BY DEF LockInv
<1>2. QED
  BY <1>1, LockInvariant, PTL

\* A newcomer never takes the lock past a caller that waits or resumes.
THEOREM NoBargingHolds == Spec => NoBarging
<1> DEFINE A == \A p \in Procs :
                  pc[p] = "outside" /\ pc'[p] = "inside"
                    => \A q \in Procs : pc[q] \notin {"waiting", "resuming"}
<1>1. LockInv /\ [Next]_vars => [A]_vars
  <2> SUFFICES ASSUME LockInv, Next, NEW p \in Procs,
                      pc[p] = "outside", pc'[p] = "inside",
                      NEW q \in Procs
               PROVE  pc[q] \notin {"waiting", "resuming"}
    BY DEF A
  <2>1. PICK r \in Procs : LockWait(r) \/ LockTake(r) \/ Unlock(r) \/ Immediate(r)
    BY DEF Next
  <2>2. LockTake(p)
    <3>1. CASE LockWait(r)
      BY <3>1 DEF LockWait, LockInv, TypeOK
    <3>2. CASE LockTake(r)
      BY <3>2 DEF LockTake, LockInv, TypeOK
    <3>3. CASE UnlockHandOff(r)
      BY <3>3 DEF UnlockHandOff, LockInv, TypeOK
    <3>4. CASE UnlockFree(r)
      BY <3>4 DEF UnlockFree, LockInv, TypeOK
    <3>5. CASE Immediate(r)
      BY <3>5 DEF Immediate, LockInv, TypeOK
    <3>6. QED
      BY <2>1, <3>1, <3>2, <3>3, <3>4, <3>5 DEF Unlock
  <2>3. handles = << >> /\ DOMAIN handles = {} /\ Owners = {}
    BY <2>2 DEF LockTake, LockInv
  <2>4. q \notin Owners /\ q \notin ToSet(handles)
    BY <2>3 DEF ToSet
  <2>5. QED
    BY <2>4 DEF Owners, LockInv
<1>2. QED
  BY <1>1, LockInvariant, PTL DEF Spec, NoBarging

-----------------------------------------------------------------------------
\* The front of the line is the owner when there is one.
LEMMA OwnerSeqIs ==
  ASSUME MutualExclusion
  PROVE  /\ Owners = {} => OwnerSeq = << >>
         /\ \A p \in Owners : OwnerSeq = << p >>
  BY DEF OwnerSeq, MutualExclusion, Owners

\* A step of the lock moves the line as FifoMutex allows, or not at all.
LEMMA StepRefines ==
  LockInv /\ LockInv' /\ [Next]_vars => [Fifo!Next]_(OwnerSeq \o handles)
<1> SUFFICES ASSUME LockInv, LockInv', [Next]_vars
             PROVE  [Fifo!Next]_(OwnerSeq \o handles)
  OBVIOUS
<1> USE DEF TypeOK, States
<1>0. /\ MutualExclusion /\ MutualExclusion'
      /\ handles \in Seq(Procs) /\ handles' \in Seq(Procs)
  BY DEF LockInv
<1>a. /\ Owners = {} => OwnerSeq = << >>
      /\ \A p \in Owners : OwnerSeq = << p >>
  BY <1>0, OwnerSeqIs
<1>b. /\ Owners' = {} => OwnerSeq' = << >>
      /\ \A p \in Owners' : OwnerSeq' = << p >>
  BY <1>0 DEF OwnerSeq, MutualExclusion, Owners
<1>1. ASSUME NEW p \in Procs, LockWait(p) PROVE Fifo!Arrive(p)
  <2>1. PICK o \in Owners : TRUE
    BY <1>1 DEF LockWait, LockInv
  <2>2. Owners' = Owners
    BY <1>1 DEF LockInv, LockWait, Owners
  <2>3. OwnerSeq = << o >> /\ OwnerSeq' = << o >> /\ o \in Procs /\ o # p
    BY <1>a, <1>b, <1>1, <2>1, <2>2 DEF Owners, LockWait
  <2>4. p \notin ToSet(handles)
    BY <1>1 DEF LockInv, LockWait
  <2>5. \A i \in 1..Len(<< o >> \o handles) : (<< o >> \o handles)[i] # p
    <3> DEFINE s == << o >> \o handles
    <3>1. /\ << o >> \in Seq(Procs) /\ Len(<< o >>) = 1
          /\ Len(handles) \in Nat /\ DOMAIN handles = 1..Len(handles)
      BY <1>0, <2>3, LenProperties
    <3>2. /\ Len(s) = 1 + Len(handles) /\ DOMAIN s = 1..Len(s)
          /\ \A i \in 1..Len(s) : s[i] = IF i <= 1 THEN << o >>[i] ELSE handles[i - 1]
      BY <1>0, <3>1, ConcatProperties, LenProperties
    <3> HIDE DEF s
    <3>3. ASSUME NEW i \in 1..Len(s), s[i] = p PROVE FALSE
      <4>1. CASE i = 1
        BY <4>1, <3>2, <3>3, <2>3
      <4>2. CASE i > 1
        <5>1. i - 1 \in 1..Len(handles) /\ handles[i-1] = p
          BY <4>2, <3>1, <3>2, <3>3
        <5>2. QED
          BY <5>1, <3>1, <2>4 DEF ToSet
      <4>3. QED
        BY <4>1, <4>2, <3>1, <3>2
    <3>4. QED
      BY <3>3 DEF s
  <2>6. << o >> \o Append(handles, p) = Append(<< o >> \o handles, p)
    BY <1>0, <2>3
  <2>7. QED
    BY <1>1, <2>3, <2>5, <2>6 DEF Fifo!Arrive, LockWait
<1>2. ASSUME NEW p \in Procs, LockTake(p) PROVE Fifo!Arrive(p)
  <2>1. Owners = {} /\ handles = << >>
    BY <1>2 DEF LockTake, LockInv
  <2>2. p \in Owners'
    BY <1>2 DEF LockTake, LockInv, Owners
  <2>3. OwnerSeq \o handles = << >> /\ OwnerSeq' \o handles' = << p >>
    BY <1>a, <1>b, <1>2, <2>1, <2>2 DEF LockTake
  <2>4. QED
    BY <2>3 DEF Fifo!Arrive
<1>3. ASSUME NEW p \in Procs, UnlockHandOff(p) PROVE Fifo!Depart
  <2> DEFINE h == Head(handles)
  <2>1. /\ h \in Procs /\ h \in ToSet(handles)
    BY <1>3, TailOfHandles DEF LockInv, UnlockHandOff
  <2>2. p # h /\ pc'[h] = "resuming"
    BY <1>3, <2>1 DEF LockInv, UnlockHandOff
  <2>3. p \in Owners /\ h \in Owners'
    BY <1>3, <2>1, <2>2 DEF UnlockHandOff, Owners
  <2>4. OwnerSeq = << p >> /\ OwnerSeq' = << h >> /\ handles' = Tail(handles)
    BY <1>3, <1>a, <1>b, <2>3 DEF UnlockHandOff
  <2>5. /\ handles = << h >> \o Tail(handles)
        /\ << p >> \o handles # << >>
        /\ Tail(<< p >> \o handles) = handles
    BY <1>0, <1>3, <2>1 DEF UnlockHandOff
  <2>6. QED
    BY <2>4, <2>5 DEF Fifo!Depart
<1>4. ASSUME NEW p \in Procs, UnlockFree(p) PROVE Fifo!Depart
  <2>1. p \in Owners
    BY <1>4 DEF UnlockFree, Owners
  <2>2. Owners' = {}
    BY <1>4 DEF LockInv, UnlockFree
  <2>3. OwnerSeq \o handles = << p >> /\ OwnerSeq' \o handles' = << >>
    BY <1>4, <1>a, <1>b, <2>1, <2>2 DEF UnlockFree
  <2>4. QED
    BY <2>3 DEF Fifo!Depart
<1>5. ASSUME NEW p \in Procs, Immediate(p)
      PROVE  UNCHANGED (OwnerSeq \o handles)
  <2>1. p \in Owners /\ p \in Owners'
    BY <1>5 DEF Immediate, LockInv, Owners
  <2>2. QED
    BY <1>5, <1>a, <1>b, <2>1 DEF Immediate
<1>6. CASE UNCHANGED vars
  BY <1>6 DEF vars, OwnerSeq, Owners
<1>7. QED
  BY <1>1, <1>2, <1>3, <1>4, <1>5, <1>6 DEF Next, Unlock, Fifo!Next

\* The safety half of ImplementsFifoMutex, for any set of callers: the lock is
\* a first-come first-served line.
THEOREM LockRefinesFifo == Spec => Fifo!Init /\ [][Fifo!Next]_(OwnerSeq \o handles)
<1>1. Init => Fifo!Init
  BY DEF Init, Owners, OwnerSeq, Fifo!Init
<1>2. QED
  BY <1>1, LockInvariant, StepRefines, PTL DEF Spec
=============================================================================
