---------------------------- MODULE TurnGateProofs ----------------------------
(***************************************************************************)
(* The two gates that a turn passes before it runs: the quota ledger of    *)
(* the database (AdmissionLedger) and the lock of its user in the backend  *)
(* (UserLocks).                                                            *)
(*                                                                         *)
(* The lock: mutual exclusion of the turns of one user, for any number of  *)
(* turns and lock objects.  The invariant ties the dictionary entry to the *)
(* tasks that count on it (EntryServesAll), and says of the queue of each  *)
(* lock which tasks are in it and that a woken task is at its head.        *)
(*                                                                         *)
(* The ledger: the quota windows hold for any limits, any number of        *)
(* sessions, users and networks, and any purges.  The argument: a call     *)
(* that decides has read the clock at most MaxWait ago, a purged row is    *)
(* older than a day, so every reservation that shares a short window with  *)
(* the new one is still a row, and it was counted.                         *)
(***************************************************************************)
EXTENDS UserLocks, AdmissionLedger, FiniteSetTheorems, TLAPS

\* Each leaf is tried with the defaults first and then given more time.
USE SMT, Zenon, Z3T(60), ZenonT(30), SMTT(60), Z3T(90)

-----------------------------------------------------------------------------
(* The lock of a user's turns.                                             *)

\* A queue lists, once each, exactly the tasks that wait for its lock.
QueueInv ==
  /\ \A o \in Objects : \A i \in DOMAIN waiters[o] :
       pc[waiters[o][i]] \in Queued /\ userLock[waiters[o][i]] = o
  /\ \A o \in Objects : \A i, j \in DOMAIN waiters[o] : waiters[o][i] = waiters[o][j] => i = j
  /\ \A t \in Tasks : pc[t] \in Queued =>
       \E i \in DOMAIN waiters[userLock[t]] : waiters[userLock[t]][i] = t

\* The lock is held while a turn is inside; it is free, and handed to the head
\* of its queue, while a woken task has yet to run.
LockInv ==
  /\ \A t \in Tasks : pc[t] = "inside" => locked[userLock[t]]
  /\ \A t \in Tasks : pc[t] \in {"woken", "interrupted"} =>
       /\ ~locked[userLock[t]]
       /\ waiters[userLock[t]] # <<>>
       /\ waiters[userLock[t]][1] = t

Inv == TypeOK /\ EntryServesAll /\ QueueInv /\ LockInv /\ MutualExclusion

-----------------------------------------------------------------------------
\* The set of tasks that hold a reference is finite, so it can be counted.
LEMMA ActiveFinite == IsFiniteSet(Active) /\ Cardinality(Active) \in Nat
<1> QED BY FS_Subset, TasksAssumption, FS_CardinalityType DEF Active

\* A task that holds a reference uses the lock of the entry.
LEMMA ActiveUses ==
  ASSUME TypeOK, EntryServesAll, NEW t \in Tasks, pc[t] \in Queued \cup {"inside"}
  PROVE  /\ entry # None
         /\ entry \in Entries
         /\ userLock[t] = entry.lock
         /\ userLock[t] \in Objects
<1>1. t \in Active
  BY DEF Active
<1> QED
  BY <1>1 DEF TypeOK, EntryServesAll, Entries

\* Removing a queued task from a queue without repetitions removes only it.
LEMMA WithoutType ==
  ASSUME NEW q \in Seq(Tasks), NEW t \in Tasks, NEW k \in DOMAIN q, q[k] = t,
         \A i, j \in DOMAIN q : q[i] = q[j] => i = j
  PROVE  /\ Without(q, t) \in Seq(Tasks)
         /\ Len(Without(q, t)) = Len(q) - 1
         /\ \A i \in 1..(Len(q) - 1) :
              Without(q, t)[i] = IF i < k THEN q[i] ELSE q[i + 1]
<1> QED BY DEF Without, Position

\* What stays in the queue: the other tasks, each once, and none else.
LEMMA WithoutKeeps ==
  ASSUME NEW q \in Seq(Tasks), NEW t \in Tasks, NEW k \in DOMAIN q, q[k] = t,
         \A i, j \in DOMAIN q : q[i] = q[j] => i = j
  PROVE  LET p == Without(q, t) IN
         /\ \A i \in DOMAIN p : p[i] # t /\ \E j \in DOMAIN q : p[i] = q[j]
         /\ \A i, j \in DOMAIN p : p[i] = p[j] => i = j
         /\ \A j \in DOMAIN q : q[j] # t => \E i \in DOMAIN p : p[i] = q[j]
         /\ k # 1 => p # <<>> /\ p[1] = q[1]
<1> DEFINE p == Without(q, t)
<1>1. /\ p \in Seq(Tasks)
      /\ DOMAIN p = 1..(Len(q) - 1)
      /\ \A i \in 1..(Len(q) - 1) : p[i] = IF i < k THEN q[i] ELSE q[i + 1]
  BY WithoutType
<1>2. Len(q) \in Nat /\ DOMAIN q = 1..Len(q) /\ k \in 1..Len(q)
  OBVIOUS
<1> HIDE DEF p
<1>3. \A i \in DOMAIN p : p[i] # t /\ \E j \in DOMAIN q : p[i] = q[j]
  <2> SUFFICES ASSUME NEW i \in DOMAIN p
               PROVE  p[i] # t /\ \E j \in DOMAIN q : p[i] = q[j]
    OBVIOUS
  <2>1. CASE i < k
    BY <1>1, <1>2, <2>1
  <2>2. CASE ~(i < k)
    <3>1. i + 1 \in DOMAIN q /\ i + 1 # k /\ p[i] = q[i + 1]
      BY <1>1, <1>2, <2>2
    <3> QED BY <3>1
  <2> QED BY <2>1, <2>2
<1>4. \A i, j \in DOMAIN p : p[i] = p[j] => i = j
  <2> DEFINE from(i) == IF i < k THEN i ELSE i + 1
  <2> SUFFICES ASSUME NEW i \in DOMAIN p, NEW j \in DOMAIN p, p[i] = p[j]
               PROVE  i = j
    OBVIOUS
  <2>1. /\ from(i) \in DOMAIN q /\ p[i] = q[from(i)]
        /\ from(j) \in DOMAIN q /\ p[j] = q[from(j)]
    BY <1>1, <1>2
  <2>2. from(i) = from(j)
    <3> HIDE DEF from
    <3> QED BY Zenon, <2>1
  <2> QED BY <1>1, <1>2, <2>2
<1>5. \A j \in DOMAIN q : q[j] # t => \E i \in DOMAIN p : p[i] = q[j]
  <2> SUFFICES ASSUME NEW j \in DOMAIN q, q[j] # t
               PROVE  \E i \in DOMAIN p : p[i] = q[j]
    OBVIOUS
  <2>1. CASE j < k
    <3> QED BY <1>1, <1>2, <2>1
  <2>2. CASE j > k
    <3>1. j - 1 \in DOMAIN p /\ p[j - 1] = q[j]
      BY <1>1, <1>2, <2>2
    <3> QED BY <3>1
  <2> QED BY <1>2, <2>1, <2>2
<1> QED BY <1>1, <1>2, <1>3, <1>4, <1>5 DEF p

\* Wake gives a result to the head of the queue, if it still waits.
LEMMA WakeType ==
  ASSUME NEW q \in Seq(Tasks), NEW pcs \in [Tasks -> Queued \cup {"idle", "inside", "done"}]
  PROVE  /\ Wake(q, pcs) \in [Tasks -> Queued \cup {"idle", "inside", "done"}]
         /\ \A u \in Tasks :
              \/ Wake(q, pcs)[u] = pcs[u]
              \/ /\ q # <<>> /\ u = q[1]
                 /\ pcs[u] = "waiting" /\ Wake(q, pcs)[u] = "woken"
<1>1. CASE q # <<>> /\ pcs[Head(q)] = "waiting"
  BY <1>1 DEF Queued, Wake
<1>2. CASE ~(q # <<>> /\ pcs[Head(q)] = "waiting")
  BY <1>2 DEF Wake
<1> QED BY <1>1, <1>2

-----------------------------------------------------------------------------
(* EntryServesAll, by how a step changes the set of active tasks.          *)

\* A step that keeps the active tasks, their locks and the entry.
LEMMA EntryKept ==
  ASSUME EntryServesAll, entry' = entry, Active' = Active,
         \A t \in Active : userLock'[t] = userLock[t]
  PROVE  EntryServesAll'
BY DEF EntryServesAll

\* One task more: the entry is created with one reference, or gains one.
LEMMA EntryGains ==
  ASSUME TypeOK, EntryServesAll, NEW t \in Tasks, NEW o \in Objects, Enter(t, o)
  PROVE  EntryServesAll'
<1>1. Active' = Active \cup {t} /\ t \notin Active
  BY DEF Enter, Active, TypeOK, Queued
<1>2. Cardinality(Active') = Cardinality(Active) + 1
  BY Zenon, <1>1, ActiveFinite, FS_AddElement
<1>3. entry' # None /\ entry'.lock = o /\ entry'.refs = Cardinality(Active) + 1
  <2>1. CASE entry = None
    BY <2>1, ActiveFinite, FS_EmptySet, TasksAssumption DEF EntryServesAll, Enter, Entries
  <2>2. CASE entry # None
    BY <2>2, TasksAssumption DEF EntryServesAll, TypeOK, Enter, Entries
  <2> QED BY <2>1, <2>2
<1> QED BY <1>1, <1>2, <1>3 DEF EntryServesAll, TypeOK, Active, Enter

\* One task less: the entry loses a reference, and goes with the last one.
LEMMA EntryLoses ==
  ASSUME TypeOK, EntryServesAll, NEW t \in Active, Active' = Active \ {t},
         entry' = Dropped(entry), userLock' = userLock
  PROVE  EntryServesAll' /\ entry' \in Entries \cup {None}
<1>1. entry # None /\ entry \in Entries /\ entry.refs = Cardinality(Active)
  BY DEF EntryServesAll, TypeOK
<1>2. Cardinality(Active') = Cardinality(Active) - 1 /\ Cardinality(Active) \in Nat
  BY ActiveFinite, FS_RemoveElement
<1>3. CASE entry.refs <= 1
  BY ActiveFinite, FS_RemoveElement, <1>1, <1>2, <1>3, FS_CardinalityType, FS_EmptySet DEF
     EntryServesAll, Dropped
<1>4. CASE ~(entry.refs <= 1)
  <2>1. Active' # {}
    <3>1. Cardinality(Active') # 0
      BY <1>1, <1>2, <1>4
    <3> QED BY <3>1, FS_EmptySet
  <2> QED BY <1>4, <1>1, <1>2, TasksAssumption, <2>1 DEF EntryServesAll, Entries, Dropped
<1> QED BY <1>1, <1>3, <1>4

-----------------------------------------------------------------------------
(* One lemma per action.                                                   *)

\* _user_turn_guard finds or makes the entry and takes or queues for the lock.
LEMMA EnterInv ==
  ASSUME Inv, NEW t \in Tasks, NEW o \in Objects, Enter(t, o)
  PROVE  Inv'
<1> USE DEF Inv
<1>1. /\ userLock' = [userLock EXCEPT ![t] = o]
      /\ pc[t] = "idle"
      /\ userLock'[t] = o /\ \A u \in Tasks \ {t} : userLock'[u] = userLock[u]
  BY DEF Enter, TypeOK
<1>2. entry' \in Entries
  BY DEF Enter, TypeOK, Entries
<1>3. \A i \in DOMAIN waiters[o] : waiters[o][i] \in Tasks /\ waiters[o][i] # t
  BY <1>1 DEF TypeOK, QueueInv, Queued
<1>4. \A u \in Tasks : pc[u] \in Queued \cup {"inside"} => userLock[u] = o /\ u # t
  BY <1>1, ActiveUses DEF Enter, Queued
<1>5. CASE Free(o)
  <2>1. /\ pc' = [pc EXCEPT ![t] = "inside"]
        /\ locked' = [locked EXCEPT ![o] = TRUE]
        /\ waiters' = waiters
    BY <1>5 DEF Enter
  <2>2. TypeOK'
    BY <1>1, <1>2, <2>1 DEF TypeOK, Queued
  <2>3. QueueInv'
    BY <1>1, <2>1 DEF QueueInv, TypeOK, Queued
  <2>4. \A u \in Tasks : pc[u] \notin {"inside", "woken", "interrupted"}
    BY <1>4, <1>5 DEF LockInv, QueueInv, Free, Queued, TypeOK
  <2>5. LockInv' /\ MutualExclusion'
    BY <1>1, <2>1, <2>4 DEF LockInv, MutualExclusion, TypeOK
  <2> QED BY EntryGains, <2>2, <2>3, <2>5
<1>6. CASE ~Free(o)
  <2>1. /\ pc' = [pc EXCEPT ![t] = "waiting"]
        /\ waiters' = [waiters EXCEPT ![o] = Append(@, t)]
        /\ locked' = locked
    BY <1>6 DEF Enter
  <2>2. TypeOK'
    BY <1>1, <1>2, <2>1 DEF TypeOK, Queued
  <2>3. /\ waiters[o] \in Seq(Tasks)
        /\ waiters'[o] = Append(waiters[o], t)
        /\ DOMAIN waiters'[o] = 1..(Len(waiters[o]) + 1)
        /\ \A i \in 1..Len(waiters[o]) : waiters'[o][i] = waiters[o][i]
        /\ waiters'[o][Len(waiters[o]) + 1] = t
        /\ \A p \in Objects \ {o} : waiters'[p] = waiters[p]
    BY <2>1 DEF TypeOK
  <2>4. QueueInv'
    <3>1. \A p \in Objects : \A i \in DOMAIN waiters'[p] :
            pc'[waiters'[p][i]] \in Queued /\ userLock'[waiters'[p][i]] = p
      <4> SUFFICES ASSUME NEW p \in Objects, NEW i \in DOMAIN waiters'[p]
                   PROVE  pc'[waiters'[p][i]] \in Queued /\ userLock'[waiters'[p][i]] = p
        OBVIOUS
      <4>1. CASE p = o /\ i = Len(waiters[o]) + 1
        BY <1>1, <2>1, <2>3, <4>1 DEF TypeOK, Queued
      <4>2. CASE ~(p = o /\ i = Len(waiters[o]) + 1)
        <5>1. i \in DOMAIN waiters[p] /\ waiters'[p][i] = waiters[p][i]
          BY <2>3, <4>2
        <5>2. waiters[p][i] \in Tasks \ {t}
          BY SMTT(30), <1>1, <5>1 DEF QueueInv, TypeOK, Queued
        <5> QED BY <1>1, <2>1, <5>1, <5>2 DEF QueueInv, TypeOK
      <4> QED BY <4>1, <4>2
    <3>2. \A p \in Objects : \A i, j \in DOMAIN waiters'[p] :
            waiters'[p][i] = waiters'[p][j] => i = j
      <4>1. \A p \in Objects \ {o} : \A i, j \in DOMAIN waiters'[p] :
              waiters'[p][i] = waiters'[p][j] => i = j
        BY <2>3 DEF QueueInv
      <4>2. \A i, j \in 1..(Len(waiters[o]) + 1) : waiters'[o][i] = waiters'[o][j] => i = j
        <5>1. \A i, j \in 1..Len(waiters[o]) : waiters'[o][i] = waiters'[o][j] => i = j
          BY <2>3 DEF QueueInv
        <5>2. \A i \in 1..Len(waiters[o]) : waiters'[o][i] # t
          BY <1>3, <2>3
        <5> QED BY <2>3, <5>1, <5>2
      <4> QED BY ZenonT(60), <2>3, <4>1, <4>2
    <3>3. \A u \in Tasks : pc'[u] \in Queued =>
            \E i \in DOMAIN waiters'[userLock'[u]] : waiters'[userLock'[u]][i] = u
      <4> SUFFICES ASSUME NEW u \in Tasks, pc'[u] \in Queued
                   PROVE  \E i \in DOMAIN waiters'[userLock'[u]] : waiters'[userLock'[u]][i] = u
        OBVIOUS
      <4>1. CASE u = t
        <5>1. Len(waiters[o]) + 1 \in DOMAIN waiters'[o]
          BY <2>3
        <5> QED BY <1>1, <2>3, <4>1, <5>1
      <4>2. CASE u # t
        <5>1. pc[u] \in Queued /\ userLock[u] = o /\ userLock'[u] = o
          BY <1>1, <1>4, <2>1, <4>2 DEF TypeOK
        <5>2. PICK i \in DOMAIN waiters[o] : waiters[o][i] = u
          BY <5>1 DEF QueueInv
        <5>3. i \in DOMAIN waiters'[o] /\ waiters'[o][i] = u
          BY <2>3, <5>2
        <5> QED BY <5>1, <5>3
      <4> QED BY <4>1, <4>2
    <3> QED BY <3>1, <3>2, <3>3 DEF QueueInv
  <2>5. LockInv'
    <3>1. \A u \in Tasks : pc'[u] = "inside" => locked'[userLock'[u]]
      BY <1>1, <2>1 DEF LockInv, TypeOK
    <3>2. ASSUME NEW u \in Tasks, pc'[u] \in {"woken", "interrupted"}
          PROVE  /\ ~locked'[userLock'[u]]
                 /\ waiters'[userLock'[u]] # <<>> /\ waiters'[userLock'[u]][1] = u
      <4>1. /\ pc[u] \in {"woken", "interrupted"} /\ pc[u] \in Queued
            /\ userLock[u] = o /\ userLock'[u] = o
        BY <1>1, <1>4, <2>1, <3>2 DEF TypeOK, Queued
      <4>2. 1 \in 1..Len(waiters[o])
        BY <4>1, <2>3 DEF LockInv
      <4> QED BY <4>1, <2>1, <2>3, <4>2 DEF LockInv
    <3> QED BY <3>1, <3>2 DEF LockInv
  <2>6. MutualExclusion'
    BY <2>1 DEF MutualExclusion, TypeOK
  <2> QED BY EntryGains, <2>2, <2>4, <2>5, <2>6
<1> QED BY <1>5, <1>6

\* Cancelling a waiting task only marks it.
LEMMA CancelInv ==
  ASSUME Inv, NEW t \in Tasks, Cancel(t)
  PROVE  Inv'
<1> USE DEF Inv
<1>1. /\ UNCHANGED <<entry, locked, waiters, userLock>>
      /\ pc[t] \in {"waiting", "woken"}
      /\ pc' = [pc EXCEPT ![t] = IF @ = "waiting" THEN "cancelled" ELSE "interrupted"]
  BY DEF Cancel
<1>2. \A u \in Tasks : /\ pc'[u] \in Queued <=> pc[u] \in Queued
                       /\ pc'[u] = "inside" <=> pc[u] = "inside"
                       /\ pc'[u] \in {"woken", "interrupted"} =>
                            pc[u] \in {"woken", "interrupted"}
  BY <1>1 DEF TypeOK, Queued
<1>3. QueueInv'
  BY <1>1, <1>2 DEF QueueInv, TypeOK
<1>4. LockInv' /\ MutualExclusion'
  BY <1>1, <1>2 DEF LockInv, MutualExclusion
<1> QED BY <1>2, <1>1, EntryKept, <1>3, <1>4 DEF TypeOK, Queued, Active

\* Task t leaves the queue of o, whatever else the step does to pc.
Dequeued(t, o) ==
  /\ pc[t] \in Queued /\ userLock[t] = o /\ userLock' = userLock
  /\ waiters' = [waiters EXCEPT ![o] = Without(@, t)]
  /\ pc'[t] \notin Queued
  /\ \A u \in Tasks \ {t} : pc'[u] \in Queued <=> pc[u] \in Queued

\* A task that leaves the queue leaves the order of the others.
LEMMA QueueLeft ==
  ASSUME TypeOK, QueueInv, NEW t \in Tasks, NEW o \in Objects, Dequeued(t, o)
  PROVE  /\ QueueInv'
         /\ waiters' \in [Objects -> Seq(Tasks)]
         /\ waiters[o] # <<>>
         /\ waiters[o][1] # t => waiters'[o] # <<>> /\ waiters'[o][1] = waiters[o][1]
         /\ waiters'[o] # <<>> => userLock[waiters'[o][1]] = o /\ waiters'[o][1] \in Tasks \ {t}
<1> USE DEF Dequeued
<1>1. \A p \in Objects \ {o} : waiters'[p] = waiters[p]
  BY DEF TypeOK
<1>2. PICK k \in DOMAIN waiters[o] : waiters[o][k] = t
  BY DEF QueueInv
<1>3. /\ waiters'[o] \in Seq(Tasks)
      /\ \A i \in DOMAIN waiters'[o] : waiters'[o][i] # t /\ \E j \in DOMAIN waiters[o] : waiters'[o][i] = waiters[o][j]
      /\ \A i, j \in DOMAIN waiters'[o] : waiters'[o][i] = waiters'[o][j] => i = j
      /\ \A j \in DOMAIN waiters[o] : waiters[o][j] # t => \E i \in DOMAIN waiters'[o] : waiters'[o][i] = waiters[o][j]
      /\ k # 1 => waiters'[o] # <<>> /\ waiters'[o][1] = waiters[o][1]
  <2> DEFINE q == waiters[o]
             p == waiters'[o]
  <2>1. q \in Seq(Tasks) /\ k \in DOMAIN q /\ q[k] = t /\ p = Without(q, t)
    BY <1>2 DEF TypeOK
  <2>2. \A i, j \in DOMAIN q : q[i] = q[j] => i = j
    BY DEF QueueInv
  <2> HIDE DEF p, q
  <2>3. p \in Seq(Tasks)
    BY <2>1, <2>2, WithoutType
  <2>4. /\ \A i \in DOMAIN p : p[i] # t /\ \E j \in DOMAIN q : p[i] = q[j]
        /\ \A i, j \in DOMAIN p : p[i] = p[j] => i = j
        /\ \A j \in DOMAIN q : q[j] # t => \E i \in DOMAIN p : p[i] = q[j]
        /\ k # 1 => p # <<>> /\ p[1] = q[1]
    BY <2>1, <2>2, WithoutKeeps
  <2> QED BY <2>3, <2>4 DEF p, q
<1>4. waiters' \in [Objects -> Seq(Tasks)]
  BY <1>3 DEF TypeOK
<1>5. QueueInv'
  <2>1. \A p \in Objects : \A i \in DOMAIN waiters'[p] :
          pc'[waiters'[p][i]] \in Queued /\ userLock'[waiters'[p][i]] = p
    <3> SUFFICES ASSUME NEW p \in Objects, NEW i \in DOMAIN waiters'[p]
                 PROVE  pc'[waiters'[p][i]] \in Queued /\ userLock'[waiters'[p][i]] = p
      OBVIOUS
    <3>1. PICK j \in DOMAIN waiters[p] : waiters'[p][i] = waiters[p][j]
      BY <1>1, <1>3
    <3>2. waiters'[p][i] # t
      BY <1>1, <1>3, <3>1 DEF QueueInv
    <3>3. pc[waiters[p][j]] \in Queued /\ userLock[waiters[p][j]] = p
      BY DEF QueueInv
    <3> QED BY <3>1, <3>2, <3>3 DEF TypeOK
  <2>2. \A p \in Objects : \A i, j \in DOMAIN waiters'[p] :
          waiters'[p][i] = waiters'[p][j] => i = j
    BY <1>1, <1>3 DEF QueueInv
  <2>3. \A u \in Tasks : pc'[u] \in Queued =>
          \E i \in DOMAIN waiters'[userLock'[u]] : waiters'[userLock'[u]][i] = u
    <3> SUFFICES ASSUME NEW u \in Tasks, pc'[u] \in Queued
                 PROVE  \E i \in DOMAIN waiters'[userLock[u]] : waiters'[userLock[u]][i] = u
      OBVIOUS
    <3>1. PICK j \in DOMAIN waiters[userLock[u]] : waiters[userLock[u]][j] = u
      BY DEF QueueInv
    <3>2. CASE userLock[u] = o
      BY <1>3, <3>1, <3>2
    <3>3. CASE userLock[u] # o
      BY <3>1, <3>3 DEF TypeOK
    <3> QED BY <3>2, <3>3
  <2> QED BY <2>1, <2>2, <2>3 DEF QueueInv
<1>6. waiters[o] # <<>>
  BY <1>2 DEF TypeOK
<1>7. waiters[o][1] # t => waiters'[o] # <<>> /\ waiters'[o][1] = waiters[o][1]
  BY <1>2, <1>3
<1>8. waiters'[o] # <<>> => userLock[waiters'[o][1]] = o /\ waiters'[o][1] \in Tasks \ {t}
  <2> SUFFICES ASSUME waiters'[o] # <<>>
               PROVE  userLock[waiters'[o][1]] = o /\ waiters'[o][1] \in Tasks \ {t}
    OBVIOUS
  <2>1. 1 \in DOMAIN waiters'[o]
    BY <1>3
  <2>2. userLock'[waiters'[o][1]] = o
    BY <1>5, <2>1 DEF QueueInv
  <2> QED BY <1>3, <2>1, <2>2
<1> QED BY <1>4, <1>5, <1>6, <1>7, <1>8

\* A woken task takes the lock and leaves the queue.
LEMMA ResumeInv ==
  ASSUME Inv, NEW t \in Tasks, Resume(t)
  PROVE  Inv'
<1> DEFINE o == userLock[t]
<1> USE DEF Inv
<1>1. /\ pc[t] = "woken" /\ pc[t] \in Queued
      /\ pc' = [pc EXCEPT ![t] = "inside"]
      /\ locked' = [locked EXCEPT ![o] = TRUE]
      /\ waiters' = [waiters EXCEPT ![o] = Without(@, t)]
      /\ entry' = entry /\ userLock' = userLock
  BY DEF Resume, Queued
<1>2. o \in Objects /\ \A u \in Tasks : pc[u] \in Queued \cup {"inside"} => userLock[u] = o
  BY <1>1, ActiveUses
<1>3. QueueInv' /\ waiters' \in [Objects -> Seq(Tasks)]
  <2> HIDE DEF o
  <2>1. Dequeued(t, o)
    BY <1>1 DEF Dequeued, TypeOK, Queued, o
  <2> QED BY <1>2, <2>1, QueueLeft
<1>4. TypeOK'
  BY <1>1, <1>2, <1>3 DEF TypeOK
<1>5. EntryServesAll'
  BY <1>1, EntryKept DEF Active, TypeOK
<1>6. LockInv' /\ MutualExclusion'
  BY <1>1, <1>2 DEF LockInv, MutualExclusion, TypeOK, Queued
<1> QED BY <1>3, <1>4, <1>5, <1>6

\* Task t leaves lock o, and whoever is woken after it is the head of the queue.
Leaving(t, o) ==
  /\ pc[t] \in Queued \cup {"inside"} /\ userLock[t] = o /\ userLock' = userLock
  /\ \/ pc' = [pc EXCEPT ![t] = "done"]
     \/ /\ pc' = Wake(waiters'[o], [pc EXCEPT ![t] = "done"])
        /\ ~locked'[o]
        /\ \A u \in Tasks \ {t} : pc[u] # "inside"
  /\ waiters'[o] \in Seq(Tasks)
  /\ waiters'[o] # <<>> => userLock[waiters'[o][1]] = o /\ waiters'[o][1] \in Tasks \ {t}
  /\ \A u \in Tasks \ {t} : pc[u] \in {"woken", "interrupted"} =>
       ~locked'[o] /\ waiters'[o] # <<>> /\ waiters'[o][1] = u
  /\ \A u \in Tasks \ {t} : pc[u] = "inside" => locked'[o]
  /\ entry' = Dropped(entry)

\* Leaving counts the entry down and drops it with its last user.
LEMMA Leaves ==
  ASSUME Inv, NEW t \in Tasks, NEW o \in Objects, Leaving(t, o)
  PROVE  /\ pc' \in [Tasks -> Queued \cup {"idle", "inside", "done"}]
         /\ pc'[t] = "done"
         /\ \A u \in Tasks \ {t} : pc'[u] \in Queued <=> pc[u] \in Queued
         /\ EntryServesAll' /\ LockInv' /\ MutualExclusion'
         /\ entry' \in Entries \cup {None}
<1> USE DEF Leaving
<1> DEFINE out == [pc EXCEPT ![t] = "done"]
<1>0. TypeOK /\ EntryServesAll /\ MutualExclusion
  BY DEF Inv
<1>1. /\ out \in [Tasks -> Queued \cup {"idle", "inside", "done"}]
      /\ out[t] = "done" /\ \A u \in Tasks \ {t} : out[u] = pc[u]
  BY <1>0 DEF TypeOK
<1>2. /\ pc' \in [Tasks -> Queued \cup {"idle", "inside", "done"}]
      /\ \A u \in Tasks : \/ pc'[u] = out[u]
                          \/ /\ waiters'[o] # <<>> /\ u = waiters'[o][1]
                             /\ out[u] = "waiting" /\ pc'[u] = "woken"
                             /\ ~locked'[o]
  <2>1. CASE pc' = out
    BY <1>1, <2>1
  <2>2. CASE pc' = Wake(waiters'[o], out) /\ ~locked'[o]
    <3> HIDE DEF out
    <3> QED BY <1>1, <2>2, WakeType
  <2> QED BY <2>1, <2>2
<1> HIDE DEF out
<1>3. pc'[t] = "done"
  BY <1>1, <1>2
<1>4. \A u \in Tasks \ {t} : /\ pc'[u] \in Queued <=> pc[u] \in Queued
                             /\ pc'[u] = "inside" <=> pc[u] = "inside"
  <2> TAKE u \in Tasks \ {t}
  <2> QED BY <1>1, <1>2 DEF Queued
<1>5. t \in Active /\ Active' = Active \ {t}
  BY <1>3, <1>4 DEF Active, Queued
<1>6. EntryServesAll' /\ entry' \in Entries \cup {None}
  BY <1>0, <1>5, EntryLoses
<1>7. LockInv'
  <2>1. \A u \in Tasks : pc'[u] = "inside" => locked'[userLock'[u]]
    <3> TAKE u \in Tasks
    <3> HAVE pc'[u] = "inside"
    <3>1. u # t /\ pc[u] = "inside"
      BY <1>3, <1>4
    <3> QED BY <1>0, ActiveUses, <3>1
  <2>2. ASSUME NEW u \in Tasks, pc'[u] \in {"woken", "interrupted"}
        PROVE  /\ ~locked'[userLock'[u]] /\ waiters'[userLock'[u]] # <<>>
               /\ waiters'[userLock'[u]][1] = u
    <3>1. u # t
      BY <1>3, <2>2
    <3>2. CASE pc'[u] = out[u]
      <4>1. pc[u] \in {"woken", "interrupted"}
        BY <1>1, <2>2, <3>1, <3>2
      <4>2. userLock[u] = o
        BY <1>0, ActiveUses, <4>1 DEF Queued
      <4> QED BY <3>1, <4>1, <4>2
    <3>3. CASE pc'[u] # out[u]
      BY <1>2, <3>1, <3>3
    <3> QED BY <3>2, <3>3
  <2> QED BY <2>1, <2>2 DEF LockInv
<1>8. MutualExclusion'
  BY <1>3, <1>4, <1>0 DEF MutualExclusion
<1> QED BY <1>2, <1>3, <1>4, <1>6, <1>7, <1>8

\* A cancelled waiter leaves the queue, wakes the next one if the lock is free, and leaves.
LEMMA WithdrawInv ==
  ASSUME Inv, NEW t \in Tasks, Withdraw(t)
  PROVE  Inv'
<1> PICK o \in Objects : o = userLock[t]
  BY ActiveUses DEF Withdraw, Inv, Queued
<1>0. TypeOK /\ EntryServesAll /\ MutualExclusion /\ QueueInv /\ LockInv
  BY DEF Inv
<1>1. /\ pc[t] \in {"cancelled", "interrupted"} /\ pc[t] \in Queued
      /\ waiters' = [waiters EXCEPT ![o] = Without(@, t)]
      /\ waiters'[o] = Without(waiters[o], t)
      /\ entry' = Dropped(entry) /\ locked' = locked /\ userLock' = userLock
  BY <1>0 DEF Withdraw, Queued, TypeOK
<1>2. \/ pc' = [pc EXCEPT ![t] = "done"]
      \/ ~locked[o] /\ pc' = Wake(waiters'[o], [pc EXCEPT ![t] = "done"])
  BY <1>1 DEF Withdraw
<1>3. /\ pc' \in [Tasks -> Queued \cup {"idle", "inside", "done"}] /\ pc'[t] = "done"
      /\ \A u \in Tasks \ {t} : pc'[u] \in Queued <=> pc[u] \in Queued
  <2>1. waiters'[o] \in Seq(Tasks)
    BY <1>0, <1>1, WithoutType DEF QueueInv, TypeOK
  <2> DEFINE out == [pc EXCEPT ![t] = "done"]
  <2>2. /\ out \in [Tasks -> Queued \cup {"idle", "inside", "done"}]
        /\ out[t] = "done" /\ \A u \in Tasks \ {t} : out[u] = pc[u]
    BY <1>0 DEF TypeOK
  <2> HIDE DEF out
  <2>3. /\ pc' \in [Tasks -> Queued \cup {"idle", "inside", "done"}]
        /\ \A u \in Tasks : pc'[u] = out[u] \/ (out[u] = "waiting" /\ pc'[u] = "woken")
    <3>1. CASE pc' = out
      BY <2>2, <3>1
    <3>2. CASE pc' = Wake(waiters'[o], out)
      BY <2>1, <2>2, <3>2, WakeType
    <3> QED BY <1>2, <3>1, <3>2 DEF out
  <2> QED BY <2>2, <2>3 DEF Queued
<1>4. /\ QueueInv'
      /\ waiters' \in [Objects -> Seq(Tasks)]
      /\ waiters[o][1] # t => waiters'[o] # <<>> /\ waiters'[o][1] = waiters[o][1]
      /\ waiters'[o] # <<>> => userLock[waiters'[o][1]] = o /\ waiters'[o][1] \in Tasks \ {t}
  <2>1. Dequeued(t, o)
    BY <1>3, <1>1 DEF Dequeued, Queued
  <2> QED BY <1>0, <2>1, QueueLeft
<1>5. \A u \in Tasks : pc[u] \in Queued \cup {"inside"} => userLock[u] = o
  BY <1>0, <1>1, ActiveUses
<1>6. \A u \in Tasks \ {t} : pc[u] \in {"woken", "interrupted"} =>
        ~locked'[o] /\ waiters'[o] # <<>> /\ waiters'[o][1] = u
  BY <1>0, <1>1, <1>4, <1>5 DEF LockInv, Queued
<1>7. \A u \in Tasks : pc[u] = "inside" => locked'[o]
  BY <1>0, <1>1, <1>5 DEF LockInv
<1>8. EntryServesAll' /\ LockInv' /\ MutualExclusion' /\ entry' \in Entries \cup {None}
  <2>1. waiters'[o] \in Seq(Tasks)
    BY <1>4
  <2>2. \/ pc' = [pc EXCEPT ![t] = "done"]
        \/ /\ pc' = Wake(waiters'[o], [pc EXCEPT ![t] = "done"])
           /\ ~locked'[o]
           /\ \A u \in Tasks \ {t} : pc[u] # "inside"
    BY <1>1, <1>2, <1>7
  <2>3. /\ pc[t] \in Queued \cup {"inside"} /\ userLock[t] = o
        /\ \A u \in Tasks \ {t} : pc[u] = "inside" => locked'[o]
    BY <1>1, <1>7
  <2>4. Leaving(t, o)
    BY <1>1, <1>4, <1>6, <2>1, <2>2, <2>3 DEF Leaving
  <2> QED BY <2>4, Leaves
<1> QED BY <1>0, <1>1, <1>3, <1>4, <1>8 DEF Inv, TypeOK

\* The holder releases the lock, wakes the first waiter and leaves.
LEMMA ExitInv ==
  ASSUME Inv, NEW t \in Tasks, Exit(t)
  PROVE  Inv'
<1> PICK o \in Objects : o = userLock[t]
  BY ActiveUses DEF Exit, Inv
<1>0. TypeOK /\ EntryServesAll /\ MutualExclusion /\ QueueInv /\ LockInv
  BY DEF Inv
<1>1. /\ pc[t] = "inside"
      /\ locked' = [locked EXCEPT ![o] = FALSE] /\ locked' \in [Objects -> BOOLEAN] /\ ~locked'[o]
      /\ waiters' = waiters /\ waiters[o] \in Seq(Tasks)
      /\ pc' = Wake(waiters'[o], [pc EXCEPT ![t] = "done"])
      /\ entry' = Dropped(entry) /\ userLock' = userLock
  BY <1>0 DEF Exit, TypeOK
<1>2. \A u \in Tasks : pc[u] \in Queued \cup {"inside"} => userLock[u] = o
  BY <1>0, <1>1, ActiveUses
<1>3. \A u \in Tasks \ {t} : pc[u] \notin {"inside", "woken", "interrupted"}
  BY <1>0, <1>1, <1>2 DEF MutualExclusion, LockInv, Queued
<1>4. waiters[o] # <<>> => userLock[waiters[o][1]] = o /\ waiters[o][1] \in Tasks \ {t}
  <2> SUFFICES ASSUME waiters[o] # <<>>
               PROVE  userLock[waiters[o][1]] = o /\ waiters[o][1] \in Tasks \ {t}
    OBVIOUS
  <2>1. 1 \in DOMAIN waiters[o] /\ waiters[o][1] \in Tasks
    BY <1>1
  <2>2. pc[waiters[o][1]] \in Queued /\ userLock[waiters[o][1]] = o
    BY <1>0, <2>1 DEF QueueInv
  <2> QED
    BY <1>1, <2>1, <2>2 DEF Queued
<1>5. /\ pc' \in [Tasks -> Queued \cup {"idle", "inside", "done"}]
      /\ pc'[t] = "done"
      /\ \A u \in Tasks \ {t} : pc'[u] \in Queued <=> pc[u] \in Queued
      /\ EntryServesAll' /\ LockInv' /\ MutualExclusion'
      /\ entry' \in Entries \cup {None}
  <2>1. Leaving(t, o)
    BY <1>1, <1>3, <1>4 DEF Leaving
  <2> QED
    BY <2>1, Leaves
<1>6. QueueInv'
  <2>1. \A u \in Tasks : pc'[u] \in Queued <=> pc[u] \in Queued
    BY Zenon, <1>1, <1>5 DEF Queued
  <2>2. \A p \in Objects : \A i \in DOMAIN waiters[p] : waiters[p][i] \in Tasks
    BY <1>0 DEF TypeOK
  <2> QED
    BY Zenon, <1>0, <1>1, <2>1, <2>2 DEF QueueInv
<1> QED
  BY Zenon, <1>0, <1>1, <1>5, <1>6 DEF Inv, TypeOK

-----------------------------------------------------------------------------
\* The invariant that all the results below rest on.
THEOREM InvHolds == Spec => []Inv
<1>1. Init => Inv
  <2> SUFFICES ASSUME Init PROVE Inv
    OBVIOUS
  <2> QED
    BY DEF Inv, Init, TypeOK, QueueInv, LockInv, MutualExclusion, Queued, EntryServesAll, Active
<1>2. Inv /\ [Next]_vars => Inv'
  <2> SUFFICES ASSUME Inv, [Next]_vars PROVE Inv'
    OBVIOUS
  <2>1. CASE UNCHANGED vars
    <3>1. UNCHANGED <<entry, pc, userLock, locked, waiters>>
      BY <2>1 DEF vars
    <3>2. QueueInv'
      BY <3>1 DEF Inv, QueueInv
    <3>3. LockInv'
      BY <3>1 DEF Inv, LockInv
    <3> QED BY <3>1, <3>2, <3>3 DEF Inv, TypeOK, MutualExclusion, EntryServesAll, Active
  <2>2. CASE Next
    BY <2>2, EnterInv, CancelInv, ResumeInv, WithdrawInv, ExitInv DEF Next, Runs
  <2> QED BY <2>1, <2>2
<1> QED BY <1>1, <1>2, PTL DEF Spec

\* Two turns of one user never run at the same time on one instance.
THEOREM MutualExclusionHolds == Spec => []MutualExclusion
<1>1. Inv => MutualExclusion
  BY DEF Inv
<1> QED
  BY <1>1, InvHolds, PTL

\* The entry lives exactly as long as a turn uses it, with one lock for all.
THEOREM EntryServesAllHolds == Spec => []EntryServesAll
<1>1. Inv => EntryServesAll
  BY DEF Inv
<1> QED
  BY <1>1, InvHolds, PTL

\* A newcomer passes nobody who waits.
THEOREM NoOvertakingHolds == Spec => NoOvertaking
<1> DEFINE Fair == \A t, u \in Tasks :
      (pc[t] = "idle" /\ pc'[t] = "inside") => pc[u] \notin Queued \ {"cancelled"}
<1>1. Inv /\ [Next]_vars => [Fair]_vars
  <2> SUFFICES ASSUME Inv, Next, NEW t \in Tasks, NEW u \in Tasks,
                      pc[t] = "idle", pc'[t] = "inside", pc[u] \in Queued
               PROVE  pc[u] = "cancelled"
    OBVIOUS
  <2>0. TypeOK /\ EntryServesAll /\ QueueInv
    BY DEF Inv
  <2>1. PICK o \in Objects : Enter(t, o)
    <3>1. ASSUME NEW v \in Tasks, Cancel(v) \/ Runs(v) PROVE pc'[t] # "inside"
      <4>1. CASE Cancel(v)
        BY <2>0, <4>1 DEF Cancel, TypeOK
      <4>2. CASE Resume(v)
        BY <2>0, <4>2 DEF Resume, TypeOK
      <4>3. CASE Withdraw(v) \/ Exit(v)
        <5>1. PICK q \in Seq(Tasks) : \/ pc' = Wake(q, [pc EXCEPT ![v] = "done"])
                                      \/ pc' = [pc EXCEPT ![v] = "done"]
          <6>1. userLock[v] \in Objects /\ pc[v] \in Queued \cup {"inside"}
            <7>1. pc[v] \in Queued \cup {"inside"}
              BY <4>3 DEF Withdraw, Exit, Queued
            <7> QED BY <2>0, <7>1, ActiveUses
          <6>2. CASE Exit(v)
            BY <2>0, <6>1, <6>2 DEF Exit, TypeOK
          <6>3. CASE Withdraw(v)
            <7>1. pc[v] \in Queued
              BY <6>3 DEF Withdraw, Queued
            <7>2. Without(waiters[userLock[v]], v) \in Seq(Tasks)
              BY <2>0, <6>1, <7>1, WithoutType DEF QueueInv, TypeOK
            <7> QED BY <6>3, <7>2 DEF Withdraw
          <6> QED BY Zenon, <4>3, <6>2, <6>3
        <5>2. PICK out \in [Tasks -> Queued \cup {"idle", "inside", "done"}] :
                out = [pc EXCEPT ![v] = "done"]
          BY Zenon, <2>0 DEF TypeOK
        <5>3. pc'[t] = out[t] \/ pc'[t] = "woken"
          <6>1. CASE pc' = Wake(q, out)
            BY <6>1, WakeType
          <6> QED BY <5>1, <5>2, <6>1
        <5> QED BY <2>0, <5>2, <5>3 DEF TypeOK
      <4> QED BY <3>1, <4>1, <4>2, <4>3 DEF Runs
    <3>2. PICK v \in Tasks, o \in Objects : Enter(v, o)
      BY <3>1 DEF Next
    <3>3. v = t
      BY <2>0, <3>2 DEF Enter, TypeOK
    <3> QED BY <3>2, <3>3
  <2>2. userLock[u] = o
    BY <2>0, <2>1, ActiveUses DEF Enter
  <2>3. PICK i \in DOMAIN waiters[o] : waiters[o][i] = u
    BY <2>0, <2>2 DEF QueueInv
  <2> QED BY <2>0, <2>1, <2>3 DEF Free, Enter, TypeOK
<1> QED BY <1>1, InvHolds, PTL DEF Spec, NoOvertaking

-----------------------------------------------------------------------------
(* The quota ledger.                                                       *)

\* What purges and stale readings of the clock leave true.
Ages ==
  /\ IsFiniteSet(history)
  /\ rows \subseteq history
  /\ \A r \in history : r.at <= clock
  /\ \A r \in history \ rows : r.at < clock - Day
  /\ \A c \in Sessions : waiting[c] # NoCall =>
       waiting[c].at <= clock /\ clock <= waiting[c].at + MaxWait

LedgerInv == LedgerTypeOK /\ Ages /\ MinuteLimits /\ DailyLimit /\ AdmittedOnceADay

-----------------------------------------------------------------------------
\* A reservation that was counted against a window at least as long, over the
\* rows that are left, keeps every window within the limit.
LEMMA WindowStep ==
  ASSUME NEW H \in SUBSET Requests, NEW R \in SUBSET H, NEW q \in Requests,
         NEW w \in Nat, NEW counted \in Nat, NEW limit \in Nat, NEW now \in Nat,
         IsFiniteSet(H), now <= q.at + MaxWait, w + MaxWait <= Day, w <= counted,
         \A r \in H \ R : r.at < now - Day,
         Cardinality(Recent(R, q.at, counted)) < limit,
         Bounded(H, w, limit)
  PROVE  Bounded(H \cup {q}, w, limit)
<1> SUFFICES ASSUME NEW e \in H \cup {q}
             PROVE  Cardinality(Window(H \cup {q}, e.at, w)) <= limit
  BY ZenonT(60) DEF Bounded
<1>1. CASE q \in Window(H \cup {q}, e.at, w)
  <2>1. Window(H \cup {q}, e.at, w) \subseteq Recent(R, q.at, counted) \cup {q}
    BY LedgerAssumption, <1>1 DEF Window, Recent, Requests
  <2>2. IsFiniteSet(Recent(R, q.at, counted))
    BY FS_Subset DEF Recent
  <2>3. /\ IsFiniteSet(Recent(R, q.at, counted) \cup {q})
        /\ Cardinality(Recent(R, q.at, counted) \cup {q})
             <= Cardinality(Recent(R, q.at, counted)) + 1
    <3>1. CASE q \in Recent(R, q.at, counted)
      <4>1. Recent(R, q.at, counted) \cup {q} = Recent(R, q.at, counted)
        BY <3>1
      <4>2. Cardinality(Recent(R, q.at, counted) \cup {q}) = Cardinality(Recent(R, q.at, counted))
        BY <4>1, Zenon
      <4>3. IsFiniteSet(Recent(R, q.at, counted) \cup {q})
        BY <2>2, <4>1, Zenon
      <4> QED BY <2>2, FS_CardinalityType, <4>2, <4>3
    <3>2. CASE q \notin Recent(R, q.at, counted)
      <4>1. /\ IsFiniteSet(Recent(R, q.at, counted) \cup {q})
            /\ Cardinality(Recent(R, q.at, counted) \cup {q})
                 = Cardinality(Recent(R, q.at, counted)) + 1
        BY <2>2, <3>2, FS_AddElement
      <4> QED BY <2>2, FS_CardinalityType, <4>1
    <3> QED BY <3>1, <3>2
  <2>4. /\ Cardinality(Window(H \cup {q}, e.at, w))
             <= Cardinality(Recent(R, q.at, counted) \cup {q})
        /\ IsFiniteSet(Window(H \cup {q}, e.at, w))
    BY ZenonT(60), <2>1, <2>3, FS_Subset
  <2> QED BY <2>2, <2>3, <2>4, FS_CardinalityType
<1>2. CASE q \notin Window(H \cup {q}, e.at, w)
  <2>1. CASE e \in H
    BY <1>2, <2>1 DEF Bounded, Window
  <2>2. CASE e = q
    <3>1. Window(H \cup {q}, e.at, w) = {}
      BY LedgerAssumption, <1>2, <2>2 DEF Window, Requests
    <3>2. Cardinality(Window(H \cup {q}, e.at, w)) = 0
      BY <3>1, FS_EmptySet, Zenon
    <3> QED BY <3>2
  <2> QED BY <2>1, <2>2
<1> QED BY <1>1, <1>2

\* One admission keeps the ledger's promises.
LEMMA AdmissionStep ==
  ASSUME LedgerInv, NEW c \in Sessions, reserve_admission(c)
  PROVE  LedgerInv'
<1> DEFINE q == waiting[c]
<1>0. /\ Day \in Nat /\ MaxWait \in Nat /\ Minute \in Nat /\ Minute + MaxWait <= Day
      /\ {UserPerMinute, NetworkPerMinute, ApplicationPerMinute, UserPerDay} \subseteq Nat
      /\ clock \in Nat /\ history \subseteq Requests /\ rows \subseteq history
      /\ IsFiniteSet(history)
      /\ q \in Requests /\ q.at \in Nat /\ q.at <= clock /\ clock <= q.at + MaxWait
      /\ \A r \in history \ rows : r.at < clock - Day
  BY LedgerAssumption DEF LedgerInv, LedgerTypeOK, Ages, reserve_admission, Requests
<1>b. Minute <= Minute
  BY <1>0
<1>1. CASE Decision(q) # "admitted"
  <2> QED
    BY <1>1 DEF LedgerInv, LedgerTypeOK, Ages, reserve_admission, MinuteLimits, DailyLimit,
       AdmittedOnceADay
<1>2. CASE Decision(q) = "admitted"
  <2>1. rows' = rows \cup {q} /\ history' = history \cup {q} /\ clock' = clock
    BY <1>2 DEF reserve_admission
  <2>2. /\ Taken(q) = {}
        /\ ~MinuteFull(OfUser(rows, q.user), q, UserPerMinute)
        /\ ~MinuteFull(OfNetwork(rows, q.network), q, NetworkPerMinute)
        /\ ~MinuteFull(rows, q, ApplicationPerMinute)
        /\ ~DayFull(q)
    BY <1>2 DEF Decision
  <2>3. LedgerTypeOK' /\ Ages'
    <3>1. IsFiniteSet(history')
      BY <1>0, <2>1, FS_AddElement
    <3> QED BY <1>0, <2>1, <3>1 DEF LedgerInv, LedgerTypeOK, Ages, reserve_admission
  <2>4. \A S \in SUBSET history : IsFiniteSet(S)
    BY <1>0, FS_Subset
  <2>5. ASSUME NEW S \in SUBSET rows
        PROVE  /\ Cardinality(Recent(S, q.at, Minute)) \in Nat
               /\ Cardinality(Recent(S, q.at, Day)) \in Nat
    <3>1. /\ Recent(S, q.at, Minute) \in SUBSET history
          /\ Recent(S, q.at, Day) \in SUBSET history
      BY <1>0 DEF Recent
    <3> QED BY <3>1, <2>4, FS_CardinalityType
  <2>6. ASSUME NEW u \in Users
        PROVE  /\ Bounded(OfUser(history', u), Minute, UserPerMinute)
               /\ Bounded(OfUser(history', u), Day - MaxWait, UserPerDay)
    <3> DEFINE H == OfUser(history, u)
               R == OfUser(rows, u)
    <3>1. Bounded(H, Minute, UserPerMinute) /\ Bounded(H, Day - MaxWait, UserPerDay)
      BY DEF LedgerInv, MinuteLimits, DailyLimit
    <3>2. CASE q.user # u
      BY <2>1, <3>2, <3>1 DEF OfUser
    <3>3. CASE q.user = u
      <4>1. /\ H \in SUBSET Requests /\ R \in SUBSET H /\ IsFiniteSet(H)
            /\ R \in SUBSET rows
            /\ \A r \in H \ R : r.at < clock - Day
        BY <1>0, <2>4 DEF OfUser
      <4>2. /\ Cardinality(Recent(R, q.at, Minute)) < UserPerMinute
            /\ Cardinality(Recent(R, q.at, Day)) < UserPerDay
        BY <1>0, <2>2, <2>5, <3>3, <4>1 DEF MinuteFull, DayFull
      <4>3. Bounded(H \cup {q}, Minute, UserPerMinute)
        <5> HIDE DEF H, R, q
        <5> QED BY <1>0, <1>b, <3>1, <4>1, <4>2, WindowStep
      <4>4. Bounded(H \cup {q}, Day - MaxWait, UserPerDay)
        <5>1. Day - MaxWait \in Nat /\ (Day - MaxWait) + MaxWait <= Day /\ Day - MaxWait <= Day
          BY <1>0
        <5> HIDE DEF H, R, q
        <5> QED BY <1>0, <3>1, <4>1, <4>2, <5>1, WindowStep
      <4> QED BY <2>1, <3>3, <4>3, <4>4 DEF OfUser
    <3> QED BY <3>2, <3>3
  <2>7. ASSUME NEW n \in Networks
        PROVE  Bounded(OfNetwork(history', n), Minute, NetworkPerMinute)
    <3> DEFINE H == OfNetwork(history, n)
               R == OfNetwork(rows, n)
    <3>1. Bounded(H, Minute, NetworkPerMinute)
      BY DEF LedgerInv, MinuteLimits
    <3>2. CASE q.network # n
      <4>1. OfNetwork(history', n) = H
        BY <2>1, <3>2 DEF OfNetwork
      <4> QED BY <3>1, <4>1
    <3>3. CASE q.network = n
      <4>1. OfNetwork(history', n) = H \cup {q}
        BY <2>1, <3>3 DEF OfNetwork
      <4>2. /\ H \in SUBSET Requests /\ R \in SUBSET H /\ IsFiniteSet(H)
            /\ R \in SUBSET rows
            /\ \A r \in H \ R : r.at < clock - Day
        BY <1>0, <2>4 DEF OfNetwork
      <4>3. Cardinality(Recent(R, q.at, Minute)) < NetworkPerMinute
        BY <1>0, <2>2, <2>5, <3>3, <4>2 DEF MinuteFull
      <4>4. Bounded(H \cup {q}, Minute, NetworkPerMinute)
        <5> HIDE DEF H, R, q
        <5> QED BY ZenonT(60), <1>0, <1>b, <3>1, <4>2, <4>3, WindowStep
      <4> QED BY <4>1, <4>4
    <3> QED BY <3>2, <3>3
  <2>8. Bounded(history', Minute, ApplicationPerMinute)
    <3>1. Bounded(history, Minute, ApplicationPerMinute)
      BY DEF LedgerInv, MinuteLimits
    <3>2. Cardinality(Recent(rows, q.at, Minute)) < ApplicationPerMinute
      BY <1>0, <2>2, <2>5 DEF MinuteFull
    <3>3. Bounded(history \cup {q}, Minute, ApplicationPerMinute)
      <4> HIDE DEF q
      <4> QED BY ZenonT(60), <1>0, <1>b, <3>1, <3>2, WindowStep
    <3> QED BY <2>1, <3>3
  <2>9. AdmittedOnceADay'
    <3>1. \A r \in history : (r.user = q.user /\ r.request = q.request) =>
            r.at \in Nat /\ q.at - r.at > Day - MaxWait
      BY <1>0, <2>2 DEF Taken, Requests
    <3> QED BY <2>1, <3>1 DEF LedgerInv, AdmittedOnceADay
  <2> QED BY <2>3, <2>6, <2>7, <2>8, <2>9 DEF LedgerInv, MinuteLimits, DailyLimit
<1> QED BY <1>1, <1>2

\* Purges take only rows that are older than a day.
LEMMA PurgeStep ==
  ASSUME LedgerInv, NEW S \in SUBSET rows, purge_admission_reservations(S)
  PROVE  LedgerInv' /\ \A r \in (rows \ rows') \cap history' : r.at < clock - Day
<1>0. /\ rows' = rows \ S /\ UNCHANGED <<clock, history, waiting>>
      /\ round \in [cutoff : Int, total : 0..MaxRowsPerCategory - 1]
      /\ MaxRowsPerCategory \in Nat /\ BatchSize \in Nat
      /\ S \subseteq Expired(round.cutoff)
  BY LedgerAssumption DEF LedgerInv, LedgerTypeOK, purge_admission_reservations, Batch
<1>1. round' \in [cutoff : Int, total : 0..MaxRowsPerCategory - 1] \cup {NoCall}
  BY FS_Subset, FS_CardinalityType, <1>0 DEF purge_admission_reservations, RoundOver, LedgerInv,
     Ages
<1>2. MinuteLimits' /\ DailyLimit' /\ AdmittedOnceADay'
  BY <1>0 DEF LedgerInv, MinuteLimits, DailyLimit, AdmittedOnceADay
<1> QED BY <1>0, <1>1, <1>2 DEF LedgerInv, Expired, LedgerTypeOK, Ages

\* Fewer reservations keep the windows within the limit.
LEMMA FewerBounded ==
  ASSUME NEW H, NEW G \in SUBSET H, NEW w, NEW limit \in Nat,
         IsFiniteSet(H), Bounded(H, w, limit)
  PROVE  Bounded(G, w, limit)
<1> SUFFICES ASSUME NEW e \in G PROVE Cardinality(Window(G, e.at, w)) <= limit
  BY DEF Bounded
<1>1. Cardinality(Window(H, e.at, w)) <= limit
  BY DEF Bounded
<1> QED BY FS_Subset, FS_CardinalityType, <1>1 DEF Window

\* The purge of an account removes its reservations from the windows.
LEMMA AccountStep ==
  ASSUME LedgerInv, NEW v \in Users, account_deletion_purge(v)
  PROVE  LedgerInv'
<1>0. /\ history' \subseteq history /\ rows' \subseteq rows
      /\ history' \ rows' \subseteq history \ rows /\ rows' \subseteq history'
      /\ UNCHANGED <<clock, waiting, round>>
      /\ IsFiniteSet(history) /\ IsFiniteSet(history')
  BY FS_Subset DEF LedgerInv, Ages, account_deletion_purge, OfUser
<1>1. {UserPerMinute, NetworkPerMinute, ApplicationPerMinute, UserPerDay} \subseteq Nat
  BY LedgerAssumption
<1>2. LedgerTypeOK'
  BY <1>0 DEF LedgerInv, LedgerTypeOK
<1>3. Ages'
  BY <1>0 DEF LedgerInv, Ages
<1>4. ASSUME NEW u \in Users
      PROVE  /\ Bounded(OfUser(history', u), Minute, UserPerMinute)
             /\ Bounded(OfUser(history', u), Day - MaxWait, UserPerDay)
  <2>1. /\ Bounded(OfUser(history, u), Minute, UserPerMinute)
        /\ Bounded(OfUser(history, u), Day - MaxWait, UserPerDay)
    BY DEF LedgerInv, MinuteLimits, DailyLimit
  <2> QED BY <1>0, FS_Subset, <1>1, <2>1, FewerBounded DEF OfUser
<1>5. ASSUME NEW n \in Networks
      PROVE  Bounded(OfNetwork(history', n), Minute, NetworkPerMinute)
  <2>1. Bounded(OfNetwork(history, n), Minute, NetworkPerMinute)
    BY DEF LedgerInv, MinuteLimits
  <2> QED BY <1>0, FS_Subset, <1>1, <2>1, FewerBounded DEF OfNetwork
<1>6. Bounded(history', Minute, ApplicationPerMinute)
  BY <1>0, <1>1, FewerBounded DEF LedgerInv, MinuteLimits
<1>7. AdmittedOnceADay'
  BY <1>0 DEF LedgerInv, AdmittedOnceADay
<1> QED BY <1>2, <1>3, <1>4, <1>5, <1>6, <1>7 DEF LedgerInv, MinuteLimits, DailyLimit

\* Every step preserves the invariant.
LEMMA Step == LedgerInv /\ [LedgerNext]_ledgerVars => LedgerInv'
<1> SUFFICES ASSUME LedgerInv, [LedgerNext]_ledgerVars PROVE LedgerInv'
  OBVIOUS
<1>0. Minute \in Nat /\ Day \in Nat /\ MaxWait \in Nat /\ clock \in Nat /\ Skews \subseteq Int
      /\ MaxRowsPerCategory \in Nat /\ MaxRowsPerCategory >= 1
  BY LedgerAssumption DEF LedgerInv, LedgerTypeOK
<1>a. ASSUME history' = history PROVE MinuteLimits' /\ DailyLimit' /\ AdmittedOnceADay'
  BY <1>a DEF LedgerInv, MinuteLimits, DailyLimit, AdmittedOnceADay
<1>1. ASSUME NEW c \in Sessions, NEW u \in Users, NEW i \in RequestIds, NEW m \in Messages,
             NEW n \in Networks, NEW x \in Units,
             Begin(c, [user |-> u, request |-> i, message |-> m, network |-> n,
                       units |-> x, at |-> clock])
      PROVE  LedgerInv'
  <2>1. PICK q : q = [user |-> u, request |-> i, message |-> m, network |-> n,
                      units |-> x, at |-> clock]
    BY ZenonT(60)
  <2>2. q \in Requests /\ q.at = clock
    BY <2>1, <1>0 DEF Requests
  <2>3. /\ waiting' = [waiting EXCEPT ![c] = q]
        /\ UNCHANGED <<clock, rows, history, round>>
    BY <1>1, <2>1 DEF Begin
  <2>4. Ages'
    BY <1>0, <2>2, <2>3 DEF LedgerInv, Ages, LedgerTypeOK
  <2> QED BY <2>2, <2>3, <1>a, <2>4 DEF LedgerInv, LedgerTypeOK
<1>2. ASSUME NEW c \in Sessions, reserve_admission(c) PROVE LedgerInv'
  BY <1>2, AdmissionStep
<1>3. ASSUME NEW c \in Sessions, Abort(c) PROVE LedgerInv'
  BY <1>3, <1>a DEF LedgerInv, Abort, LedgerTypeOK, Ages
<1>4. ASSUME NEW s \in Skews, StartRound(s) PROVE LedgerInv'
  BY <1>0, <1>4, <1>a DEF LedgerInv, StartRound, LedgerTypeOK, Ages
<1>5. ASSUME NEW S \in SUBSET rows, purge_admission_reservations(S) PROVE LedgerInv'
  BY <1>5, PurgeStep
<1>6. CASE StopRound
  BY <1>6, <1>a DEF LedgerInv, StopRound, LedgerTypeOK, Ages
<1>7. CASE Tick
  <2>1. Ages'
    BY <1>7, <1>0 DEF Tick, LedgerInv, LedgerTypeOK, Ages, Requests
  <2> QED BY <1>7, <1>0, <1>a, <2>1 DEF LedgerInv, Tick, LedgerTypeOK
<1>8. ASSUME NEW u \in Users, account_deletion_purge(u) PROVE LedgerInv'
  BY <1>8, AccountStep
<1>9. CASE UNCHANGED ledgerVars
  BY <1>9, <1>a DEF LedgerInv, ledgerVars, LedgerTypeOK, Ages
<1> QED BY ZenonT(60), <1>1, <1>2, <1>3, <1>4, <1>5, <1>6, <1>7, <1>9, <1>8 DEF LedgerNext

-----------------------------------------------------------------------------
\* The inductive invariant: ages, types and windows together.
THEOREM LedgerInvHolds == LedgerSpec => []LedgerInv
<1>1. LedgerInit => LedgerInv
  BY LedgerAssumption, FS_EmptySet
  DEF LedgerInit, LedgerInv, LedgerTypeOK, Ages, MinuteLimits, DailyLimit, AdmittedOnceADay, Bounded,
      OfUser, OfNetwork
<1> QED
  BY <1>1, Step, PTL DEF LedgerSpec

\* The ledger, the waiting calls and the retention round stay well typed; a
\* round that goes on has purged less than its limit.
THEOREM TypeCorrect == LedgerSpec => []LedgerTypeOK
<1>1. LedgerInv => LedgerTypeOK
  BY DEF LedgerInv
<1> QED
  BY <1>1, LedgerInvHolds, PTL

\* reserve_admission admits no more turns in any rolling minute than the limits
\* of a user, a network and the application, no more turns of a user than the
\* daily quota in a day less MaxWait, and one request id once in such a day.
THEOREM WithinQuotasHolds == LedgerSpec => []WithinQuotas
<1>1. LedgerInv => WithinQuotas
  BY DEF LedgerInv, WithinQuotas
<1> QED
  BY <1>1, LedgerInvHolds, PTL

\* The purge never removes a row that a quota of the current day needs,
\* whatever cutoff the retention job computes from its clock.
THEOREM OnlyExpiredPurgedHolds == LedgerSpec => OnlyExpiredPurged
<1>1. LedgerInv /\ [LedgerNext]_ledgerVars =>
        [\A r \in (rows \ rows') \cap history' : r.at < clock - Day]_ledgerVars
  <2> SUFFICES ASSUME LedgerInv, LedgerNext
               PROVE  \A r \in (rows \ rows') \cap history' : r.at < clock - Day
    OBVIOUS
  <2>1. ASSUME NEW S \in SUBSET rows, purge_admission_reservations(S)
        PROVE  \A r \in (rows \ rows') \cap history' : r.at < clock - Day
    BY <2>1, PurgeStep
  <2>2. \/ rows \subseteq rows'
        \/ \E S \in SUBSET rows : purge_admission_reservations(S)
        \/ \E u \in Users : account_deletion_purge(u)
    BY Zenon DEF LedgerNext, Begin, reserve_admission, Abort, StartRound, StopRound, Tick
  <2>3. ASSUME NEW u \in Users, account_deletion_purge(u) PROVE (rows \ rows') \cap history' = {}
    BY <2>3 DEF account_deletion_purge, OfUser
  <2> QED
    BY <2>1, <2>2, <2>3
<1> QED
  BY <1>1, LedgerInvHolds, PTL DEF LedgerSpec, OnlyExpiredPurged
=============================================================================
