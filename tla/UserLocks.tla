------------------------------ MODULE UserLocks ------------------------------
(***************************************************************************)
(* UserLockManager.lock for one user of one backend instance: a dictionary *)
(* entry with an asyncio.Lock and a reference count, deleted when the      *)
(* count falls to zero and created again, with a new lock, by the next     *)
(* turn.  Tasks share one event loop, so a step is what a task does        *)
(* between two suspensions; _dict_lock is never held across one.  A turn   *)
(* that waits may be cancelled, by its deadline or by a disconnect.        *)
(***************************************************************************)
EXTENDS Naturals, Sequences, FiniteSets

CONSTANTS
  Tasks,    \* turns of the user on this instance
  Objects,  \* asyncio.Lock objects that may be created
  None

Entries == [lock : Objects, refs : Nat \ {0}]

ASSUME TasksAssumption == IsFiniteSet(Tasks) /\ None \notin Objects \cup Entries

VARIABLES
  entry,     \* _locks[user_id]: the lock and its reference count, or None
  locked,    \* Lock._locked of each lock object
  waiters,   \* Lock._waiters: tasks queued for each lock object
  pc,        \* where each task stands
  userLock   \* the lock object a task works with

vars == <<entry, locked, waiters, pc, userLock>>

\* waiting: its future is pending; woken: its future has a result; cancelled:
\* its future is cancelled; interrupted: woken, then cancelled before it ran.
Queued == {"waiting", "woken", "cancelled", "interrupted"}

\* Type invariant.
TypeOK ==
  /\ entry \in Entries \cup {None}
  /\ locked \in [Objects -> BOOLEAN]
  /\ waiters \in [Objects -> Seq(Tasks)]
  /\ pc \in [Tasks -> Queued \cup {"idle", "inside", "done"}]
  /\ userLock \in [Tasks -> Objects \cup {None}]

Init ==
  /\ entry = None
  /\ locked = [o \in Objects |-> FALSE]
  /\ waiters = [o \in Objects |-> <<>>]
  /\ pc = [t \in Tasks |-> "idle"]
  /\ userLock = [t \in Tasks |-> None]

-----------------------------------------------------------------------------
(* asyncio.Lock.                                                           *)

\* acquire() takes the lock at once only past waiters that are all cancelled.
Free(o) ==
  /\ ~locked[o]
  /\ \A i \in DOMAIN waiters[o] : pc[waiters[o][i]] = "cancelled"

Position(q, t) == CHOOSE i \in DOMAIN q : q[i] = t

\* _waiters.remove(fut).
Without(q, t) ==
  [i \in 1..Len(q) - 1 |-> IF i < Position(q, t) THEN q[i] ELSE q[i + 1]]

\* _wake_up_first, of the queue q: only a pending future gets a result.
Wake(q, pcs) ==
  IF q # <<>> /\ pcs[Head(q)] = "waiting" THEN [pcs EXCEPT ![Head(q)] = "woken"] ELSE pcs

-----------------------------------------------------------------------------
(* UserLockManager.                                                        *)

\* Mutant: the first turn to leave deletes the entry, whoever else uses it.
MutDropped(e) == None

\* The entry once one reference is dropped.
Dropped(e) == IF e.refs <= 1 THEN None ELSE [e EXCEPT !.refs = @ - 1]

\* Creates the entry if there is none, counts the turn and tries the lock.
Enter(t, o) ==
  /\ pc[t] = "idle"
  /\ IF entry = None
     THEN /\ o \notin {userLock[u] : u \in Tasks}
          /\ entry' = [lock |-> o, refs |-> 1]
     ELSE /\ o = entry.lock
          /\ entry' = [entry EXCEPT !.refs = @ + 1]
  /\ userLock' = [userLock EXCEPT ![t] = o]
  /\ IF Free(o)
     THEN /\ pc' = [pc EXCEPT ![t] = "inside"]
          /\ locked' = [locked EXCEPT ![o] = TRUE]
          /\ UNCHANGED waiters
     ELSE /\ pc' = [pc EXCEPT ![t] = "waiting"]
          /\ waiters' = [waiters EXCEPT ![o] = Append(@, t)]
          /\ UNCHANGED locked

\* The awaited future has its result: the task runs and owns the lock.
Resume(t) ==
  LET o == userLock[t] IN
  /\ pc[t] = "woken"
  /\ pc' = [pc EXCEPT ![t] = "inside"]
  /\ locked' = [locked EXCEPT ![o] = TRUE]
  /\ waiters' = [waiters EXCEPT ![o] = Without(@, t)]
  /\ UNCHANGED <<entry, userLock>>

\* The deadline of wait_for, or the cancellation of the request, while waiting.
Cancel(t) ==
  /\ pc[t] \in {"waiting", "woken"}
  /\ pc' = [pc EXCEPT ![t] = IF @ = "waiting" THEN "cancelled" ELSE "interrupted"]
  /\ UNCHANGED <<entry, locked, waiters, userLock>>

\* CancelledError in acquire(): leave the queue, pass the wake-up on, drop the
\* reference.
Withdraw(t) ==
  LET o == userLock[t]
      q == Without(waiters[o], t)
      out == [pc EXCEPT ![t] = "done"]
  IN /\ pc[t] \in {"cancelled", "interrupted"}
     /\ waiters' = [waiters EXCEPT ![o] = q]
     /\ pc' = IF locked[o] THEN out ELSE Wake(q, out)
     /\ entry' = Dropped(entry)
     /\ UNCHANGED <<locked, userLock>>

\* The turn is over, by a result, an error or a cancellation.
Exit(t) ==
  LET o == userLock[t] IN
  /\ pc[t] = "inside"
  /\ locked' = [locked EXCEPT ![o] = FALSE]
  /\ pc' = Wake(waiters[o], [pc EXCEPT ![t] = "done"])
  /\ entry' = Dropped(entry)
  /\ UNCHANGED <<waiters, userLock>>

Runs(t) == Resume(t) \/ Withdraw(t) \/ Exit(t)

Next ==
  \E t \in Tasks : (\E o \in Objects : Enter(t, o)) \/ Cancel(t) \/ Runs(t)

Spec == Init /\ [][Next]_vars

\* The event loop runs every ready task, and every turn ends.
FairSpec == Spec /\ \A t \in Tasks : WF_vars(Runs(t))

-----------------------------------------------------------------------------
(* Properties.                                                             *)

\* Two turns of one user never run at the same time on one instance, although
\* the lock object is deleted and created anew while turns come and go.
MutualExclusion ==
  \A t, u \in Tasks : pc[t] = "inside" /\ pc[u] = "inside" => t = u

\* Tasks that hold a reference.
Active == {t \in Tasks : pc[t] \in Queued \cup {"inside"}}

\* The entry lives exactly as long as a turn uses it and all of them use the
\* same lock, so idle users leave nothing behind in the dictionary.
EntryServesAll ==
  /\ entry = None <=> Active = {}
  /\ \A t \in Active : userLock[t] = entry.lock
  /\ entry # None => entry.refs = Cardinality(Active)

\* A turn that gets in passes nobody who was already queued and still waits:
\* deleting and recreating the lock never lets a newcomer jump the queue.
NoOvertaking ==
  [][ \A t, u \in Tasks :
        (pc[t] = "idle" /\ pc'[t] = "inside") => pc[u] \notin Queued \ {"cancelled"} ]_vars

\* Every turn that waits gets in or gives up, even when the turn the lock was
\* handed to is cancelled before it runs.
EveryWaiterServed == \A t \in Tasks : pc[t] = "waiting" ~> pc[t] \in {"inside", "done"}
=============================================================================
