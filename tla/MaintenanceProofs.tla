-------------------------- MODULE MaintenanceProofs --------------------------
(***************************************************************************)
(* The safety of account deletion for any number of users, requests and    *)
(* workers.  What each stage of a worker, and each call left in flight,    *)
(* relies on is stated about the two facts that are never undone: a        *)
(* committed purge and a deleted Auth user.  At the end, the retention     *)
(* job: what a round that ended well has purged.                           *)
(***************************************************************************)
EXTENDS AccountDeletion, RetentionRound, FiniteSetTheorems, TLAPS

\* Each leaf is tried with the defaults first and then given more time.
USE SMT, Zenon, Z3T(60), ZenonT(30), SMTT(60), Z3T(90)

\* A call in flight has its job, and the facts its sender had established.
Earned(rpc, j) ==
  /\ rpc \in {"purge", "auth", "retry", "failure", "finalize"} => j \in Jobs
  /\ rpc \in {"auth", "retry", "failure", "finalize"} => UserOf[j] \in purged
  /\ rpc = "finalize" => UserOf[j] \notin authUsers

\* What a row of the ledger says of its user is true.
RowTrue(j, row) ==
  /\ row.purged => UserOf[j] \in purged
  /\ row.status = "completed" => UserOf[j] \in purged /\ UserOf[j] \notin authUsers

JobsInv ==
  /\ jobs \in [Jobs -> Rows \cup {None}]
  /\ \A j \in Jobs : jobs[j] # None => RowTrue(j, jobs[j])

\* Every stage of a worker has been earned, and so has every call in flight.
WorkersInv ==
  /\ workers \in [Workers -> WorkerStates]
  /\ \A w \in Workers : Earned(workers[w].stage, workers[w].job)

LateInv ==
  /\ late \in SUBSET LateCalls
  /\ \A call \in late : Earned(call.rpc, call.job)

UsersInv == authUsers \in SUBSET Users /\ purged \in SUBSET Users /\ PurgedBeforeAuth

Inv == JobsInv /\ WorkersInv /\ LateInv /\ UsersInv

-----------------------------------------------------------------------------
\* The rows the ledger writes are rows.
LEMMA ReleasedType ==
  ASSUME NEW row \in Rows, NEW due \in (0..BackoffCap) \cup {None}, NEW status \in Statuses
  PROVE  /\ Released(row, status, due) \in Rows
         /\ [Released(row, status, due) EXCEPT !.age = 0] \in Rows
<1>1. -1 \in -1..LeaseSeconds /\ 0 \in 0..Horizon + 1
  BY DeletionAssumption
<1>2. Released(row, status, due) \in Rows
  BY <1>1, Zenon DEF Rows, Released
<1> QED BY <1>1, <1>2, Zenon DEF Rows

\* A row that account_deletion_acquire_lease may still claim stays a row.
LEMMA ClaimedType ==
  ASSUME NEW row \in Rows, NEW w \in Workers, row.attempts < MaxAttempts
  PROVE  Claimed(row, w) \in Rows
<1>1. LeaseSeconds \in -1..LeaseSeconds /\ row.attempts + 1 \in 0..MaxAttempts
  BY DeletionAssumption DEF Rows
<1> QED BY <1>1, Zenon DEF Rows, Claimed, Statuses

\* The passing of time leaves a row well typed.
LEMMA OlderType ==
  ASSUME NEW row \in Rows
  PROVE  Older(row) \in Rows
<1>1. (IF row.lease >= 0 THEN row.lease - 1 ELSE row.lease) \in -1..LeaseSeconds
  BY DeletionAssumption DEF Rows
<1>2. (IF row.due = None \/ row.due = 0 THEN row.due ELSE row.due - 1)
        \in (0..BackoffCap) \cup {None}
  BY DeletionAssumption DEF Rows
<1>3. (IF row.status = "completed" /\ row.age <= Horizon THEN row.age + 1 ELSE row.age)
        \in 0..Horizon + 1
  BY DeletionAssumption DEF Rows
<1> QED BY <1>1, <1>2, <1>3, Zenon DEF Rows, Older

\* What a worker and a call in flight have established stays established.
LEMMA EarnedKept ==
  ASSUME purged \subseteq purged', authUsers' \subseteq authUsers, NEW rpc, NEW j,
         Earned(rpc, j)
  PROVE  Earned(rpc, j)'
BY Zenon DEF Earned

\* The backoff is a time the ledger can hold.
LEMMA BackoffType == \A n \in Nat : Backoff(n) \in 0..BackoffCap
<1> TAKE n \in Nat
<1>1. BackoffStep \in Nat /\ BackoffCap \in Nat
  BY DeletionAssumption
<1>2. BackoffStep * n \in Nat
  BY <1>1
<1> QED BY <1>1, <1>2 DEF Backoff

-----------------------------------------------------------------------------
(* Each call of the ledger keeps the rows true.                            *)

\* Nothing a row relies on is ever undone.
LEMMA RowTrueKept ==
  ASSUME purged \subseteq purged', authUsers' \subseteq authUsers, NEW j, NEW row,
         RowTrue(j, row)
  PROVE  RowTrue(j, row)'
BY Zenon DEF RowTrue

\* Releasing, claiming or ageing a row claims nothing new about its user.
LEMMA RewrittenTrue ==
  ASSUME NEW j, NEW row \in Rows, RowTrue(j, row)
  PROVE  /\ \A due : RowTrue(j, Released(row, "failed", due))
         /\ \A w : RowTrue(j, Claimed(row, w))
         /\ RowTrue(j, Older(row))
BY DEF RowTrue, Released, Claimed, Older, Rows

\* account_deletion_acquire_lease takes a due row or marks exhausted ones failed,
\* and every row still tells the truth.
LEMMA AcquireKeeps ==
  ASSUME JobsInv, NEW w \in Workers, NEW j, account_deletion_acquire_lease(w, j),
         UNCHANGED <<authUsers, purged>>
  PROVE  JobsInv'
<1> DEFINE Kept(k) == jobs'[k] = jobs[k]
           Failed(k) == k \in Exhausted /\ jobs'[k] = Released(jobs[k], "failed", None)
           Taken(k) == k \in Claimable /\ jobs'[k] = Claimed(jobs[k], w)
<1>1. jobs' = [k \in Jobs |-> jobs'[k]]
      /\ \A k \in Jobs : Kept(k) \/ Failed(k) \/ Taken(k)
  BY Zenon DEF account_deletion_acquire_lease
<1>2. \A k \in Jobs : jobs'[k] \in Rows \cup {None} /\ (jobs'[k] # None => RowTrue(k, jobs'[k]))
  <2> TAKE k \in Jobs
  <2>1. CASE Kept(k)
    BY <2>1 DEF JobsInv
  <2>2. CASE Failed(k)
    <3>1. jobs[k] \in Rows /\ RowTrue(k, jobs[k])
      BY <2>2 DEF JobsInv, Exhausted
    <3>2. Released(jobs[k], "failed", None) \in Rows
      BY ZenonT(60), <3>1, ReleasedType DEF Statuses
    <3> QED BY ZenonT(60), <2>2, <3>1, <3>2, RewrittenTrue
  <2>3. CASE Taken(k)
    <3>1. jobs[k] \in Rows /\ RowTrue(k, jobs[k]) /\ jobs[k].attempts < MaxAttempts
      BY <2>3 DEF JobsInv, Claimable
    <3>2. Claimed(jobs[k], w) \in Rows
      BY <3>1, ClaimedType
    <3>3. RowTrue(k, Claimed(jobs[k], w))
      BY <3>1, RewrittenTrue
    <3> QED BY <2>3, <3>2, <3>3
  <2> QED BY <1>1, <2>1, <2>2, <2>3
<1> QED BY <1>1, <1>2 DEF JobsInv, RowTrue

\* The calls below write one row, and only for a worker whose lease is live.
LEMMA OneRow ==
  ASSUME JobsInv, purged \subseteq purged', authUsers' \subseteq authUsers,
         NEW j \in Jobs, NEW row \in Rows, jobs' = [jobs EXCEPT ![j] = row],
         row.purged => UserOf[j] \in purged',
         row.status = "completed" => UserOf[j] \in purged' /\ UserOf[j] \notin authUsers'

  PROVE  JobsInv'
<1>1. jobs' \in [Jobs -> Rows \cup {None}]
  BY DEF JobsInv
<1>2. ASSUME NEW k \in Jobs, jobs'[k] # None PROVE RowTrue(k, jobs[k])'
  <2>1. CASE k = j
    BY <2>1 DEF JobsInv, RowTrue
  <2>2. CASE k # j
    BY <1>2, <2>2, RowTrueKept DEF JobsInv
  <2> QED BY <2>1, <2>2
<1> QED BY <1>1, <1>2 DEF JobsInv

\* What leaves the ledger alone, purges more and deletes accounts keeps rows true.
LEMMA NoRow ==
  ASSUME JobsInv, purged \subseteq purged', authUsers' \subseteq authUsers, jobs' = jobs
  PROVE  JobsInv'
BY RowTrueKept DEF JobsInv

\* The row a worker owns is there and tells the truth.
LEMMA OwnedRow ==
  ASSUME JobsInv, NEW w, NEW j \in Jobs, Owns(w, j)
  PROVE  jobs[j] \in Rows /\ RowTrue(j, jobs[j]) /\ jobs[j].attempts \in 0..MaxAttempts
BY DEF JobsInv, Owns, Rows

\* account_deletion_purge purges the user of the owned job and nobody else.
LEMMA PurgeKeeps ==
  ASSUME JobsInv, NEW w, NEW j \in Jobs, account_deletion_purge(w, j), UNCHANGED authUsers
  PROVE  /\ JobsInv'
         /\ purged \subseteq purged'
         /\ purged' \subseteq purged \cup {UserOf[j]}
         /\ Owns(w, j) => UserOf[j] \in purged'
<1>1. CASE Owns(w, j)
  <2>1. /\ jobs' = [jobs EXCEPT ![j] = [jobs[j] EXCEPT !.purged = TRUE]]
        /\ purged' = purged \cup {UserOf[j]}
    BY <1>1, Zenon DEF account_deletion_purge
  <2>2. jobs[j] \in Rows /\ RowTrue(j, jobs[j])
    BY <1>1, OwnedRow
  <2>3. [jobs[j] EXCEPT !.purged = TRUE] \in Rows
    BY <2>2, Zenon DEF Rows
  <2>4. [jobs[j] EXCEPT !.purged = TRUE].status = "processing"
    BY <1>1, <2>2 DEF Owns, Rows
  <2> QED BY ZenonT(60), <2>1, <2>3, <2>4, OneRow
<1>2. CASE ~Owns(w, j)
  BY <1>2, NoRow, Zenon DEF account_deletion_purge
<1> QED BY <1>1, <1>2

\* record_failure and record_retry release the row and keep what it says.
LEMMA ReleaseKeeps ==
  ASSUME JobsInv, NEW w, NEW j \in Jobs, UNCHANGED <<authUsers, purged>>,
         account_deletion_record_failure(w, j) \/ account_deletion_record_retry(w, j)
  PROVE  JobsInv'
<1>1. CASE Owns(w, j)
  <2>1. /\ jobs[j] \in Rows /\ RowTrue(j, jobs[j])
        /\ Backoff(jobs[j].attempts) \in (0..BackoffCap) \cup {None}
    BY <1>1, OwnedRow, BackoffType
  <2>2. PICK due \in (0..BackoffCap) \cup {None}, status \in {"failed", "pending"} :
          jobs' = [jobs EXCEPT ![j] = Released(jobs[j], status, due)]
    BY <1>1, <2>1, Zenon DEF account_deletion_record_failure, account_deletion_record_retry
  <2>3. Released(jobs[j], status, due) \in Rows
    BY ZenonT(60), <2>1, ReleasedType DEF Statuses
  <2>4. /\ Released(jobs[j], status, due).purged = jobs[j].purged
        /\ Released(jobs[j], status, due).status = status
    BY <2>1 DEF Released, Rows
  <2> QED BY ZenonT(60), <2>1, <2>2, <2>3, <2>4, OneRow DEF RowTrue
<1>2. CASE ~Owns(w, j)
  BY <1>2, NoRow, Zenon DEF account_deletion_record_failure, account_deletion_record_retry
<1> QED BY <1>1, <1>2

\* finalize completes a job whose Auth user is known to be gone.
LEMMA FinalizeKeeps ==
  ASSUME JobsInv, NEW w, NEW j \in Jobs, UNCHANGED <<authUsers, purged>>,
         UserOf[j] \in purged, UserOf[j] \notin authUsers, account_deletion_finalize(w, j)
  PROVE  JobsInv'
<1> DEFINE row == [Released(jobs[j], "completed", jobs[j].due) EXCEPT !.age = 0]
<1>1. CASE Owns(w, j) /\ jobs[j].purged
  <2>1. jobs[j] \in Rows /\ RowTrue(j, jobs[j])
    BY <1>1, OwnedRow
  <2>2. row \in Rows
    <3>1. jobs[j].due \in (0..BackoffCap) \cup {None} /\ "completed" \in Statuses
      BY <2>1 DEF Rows, Statuses
    <3> QED BY <2>1, <3>1, ReleasedType
  <2>3. jobs' = [jobs EXCEPT ![j] = row]
    BY <1>1, Zenon DEF account_deletion_finalize
  <2> HIDE DEF row
  <2> QED BY ZenonT(60), <2>2, <2>3, OneRow
<1>2. CASE ~(Owns(w, j) /\ jobs[j].purged)
  BY <1>2, NoRow, Zenon DEF account_deletion_finalize
<1> QED BY <1>1, <1>2

\* The clock ages all rows and makes none of them false.
LEMMA TickKeeps ==
  ASSUME JobsInv, Tick
  PROVE  JobsInv'
<1>1. /\ jobs' = [j \in Jobs |-> IF jobs[j] = None THEN None ELSE Older(jobs[j])]
      /\ UNCHANGED <<authUsers, purged>>
  BY Zenon DEF Tick
<1>2. \A j \in Jobs : jobs[j] # None => Older(jobs[j]) \in Rows /\ RowTrue(j, Older(jobs[j]))
  <2> TAKE j \in Jobs
  <2> HAVE jobs[j] # None
  <2>1. jobs[j] \in Rows /\ RowTrue(j, jobs[j])
    BY DEF JobsInv
  <2> QED BY <2>1, OlderType, RewrittenTrue
<1> QED BY <1>1, <1>2 DEF JobsInv, RowTrue

-----------------------------------------------------------------------------
(* Facts about the workers and the calls in flight.                        *)

\* Nothing is undone in a step; calls and stages that stay are still earned.
Monotone == purged \subseteq purged' /\ authUsers' \subseteq authUsers

\* Calls that are still on the wire keep the grounds they were sent on.
LEMMA LateKept ==
  ASSUME LateInv, Monotone, late' \subseteq late
  PROVE  LateInv'
<1>1. ASSUME NEW call \in late' PROVE Earned(call.rpc, call.job)'
  BY <1>1, EarnedKept DEF LateInv, Monotone
<1> QED BY <1>1 DEF LateInv

\* Workers that do not move keep the grounds of their next call.
LEMMA WorkersKept ==
  ASSUME WorkersInv, Monotone, UNCHANGED workers
  PROVE  WorkersInv'
<1>1. ASSUME NEW w \in Workers PROVE Earned(workers[w].stage, workers[w].job)'
  BY <1>1, EarnedKept DEF WorkersInv, Monotone
<1> QED BY <1>1 DEF WorkersInv

\* A worker may move on to a stage whose grounds hold.
LEMMA WorkerMoved ==
  ASSUME WorkersInv, Monotone, NEW w \in Workers, NEW ws \in WorkerStates,
         workers' = [workers EXCEPT ![w] = ws],
         ws.stage \in {"purge", "auth", "retry", "failure", "finalize"} => ws.job \in Jobs,
         ws.stage \in {"auth", "retry", "failure", "finalize"} => UserOf[ws.job] \in purged',
         ws.stage = "finalize" => UserOf[ws.job] \notin authUsers'
  PROVE  WorkersInv'
<1>1. ASSUME NEW v \in Workers PROVE Earned(workers[v].stage, workers[v].job)'
  <2>1. CASE v = w
    BY <2>1 DEF WorkersInv, Earned
  <2>2. CASE v # w
    BY <2>2, EarnedKept DEF WorkersInv, Monotone
  <2> QED BY <2>1, <2>2
<1> QED BY <1>1 DEF WorkersInv

\* Moves and Idle in the form WorkerMoved takes.
LEMMA IdleType == Idle \in WorkerStates /\ Idle.stage = "idle"
BY DeletionAssumption DEF Idle, WorkerStates, Rpcs

\* The same for the shape in which the actions move a worker.
LEMMA MovesKeeps ==
  ASSUME WorkersInv, Monotone, NEW w \in Workers, NEW stage \in Rpcs, NEW j \in Jobs \cup {None},
         Moves(w, stage, j),
         stage # "acquire" => j \in Jobs,
         stage \notin {"acquire", "purge"} => UserOf[j] \in purged',
         stage = "finalize" => UserOf[j] \notin authUsers'
  PROVE  WorkersInv'
<1>1. workers[w] \in WorkerStates
  BY DEF WorkersInv
<1>2. PICK ws : ws = [workers[w] EXCEPT !.stage = stage, !.job = j]
  OBVIOUS
<1>4. ws \in WorkerStates /\ ws.stage = stage /\ ws.job = j
  <2>1. workers[w] = [stage |-> workers[w].stage, job |-> workers[w].job,
                      claimed |-> workers[w].claimed]
        /\ workers[w].claimed \in 0..MaxBatch
    BY <1>1 DEF WorkerStates
  <2>2. ws = [stage |-> stage, job |-> j, claimed |-> workers[w].claimed]
    BY ZenonT(60), <1>2, <2>1
  <2> QED BY <2>1, <2>2 DEF WorkerStates
<1>3. workers' = [workers EXCEPT ![w] = ws]
  BY <1>2, Zenon DEF Moves
<1> QED BY ZenonT(60), <1>3, <1>4, WorkerMoved DEF Rpcs

\* A worker may stop at any time, by its last step or by a crash.
LEMMA IdleKeeps ==
  ASSUME WorkersInv, Monotone, NEW w \in Workers, workers' = [workers EXCEPT ![w] = Idle]
  PROVE  WorkersInv'
BY ZenonT(60), IdleType, WorkerMoved

\* The call a worker leaves behind carries what the worker had earned.
LEMMA LeaveKeeps ==
  ASSUME WorkersInv, LateInv, NEW w \in Workers, Leave(w), UNCHANGED <<authUsers, purged>>
  PROVE  LateInv'
<1>1. /\ workers[w] \in WorkerStates /\ workers[w].stage \in Rpcs
      /\ Earned(workers[w].stage, workers[w].job)
      /\ late' = late \cup {InFlight(w)}
  BY DEF WorkersInv, Leave
<1>2. /\ InFlight(w) \in LateCalls
      /\ InFlight(w).rpc = workers[w].stage /\ InFlight(w).job = workers[w].job
  BY <1>1 DEF InFlight, LateCalls, WorkerStates
<1>3. late' \in SUBSET LateCalls
  BY <1>1, <1>2 DEF LateInv
<1>4. ASSUME NEW call \in late' PROVE Earned(call.rpc, call.job)'
  <2>1. Earned(call.rpc, call.job)
    BY <1>1, <1>2 DEF LateInv
  <2> QED BY <2>1, EarnedKept
<1> QED BY <1>3, <1>4 DEF LateInv

-----------------------------------------------------------------------------
\* The empty ledger satisfies the invariant.
LEMMA InitInv == Init => Inv
<1> SUFFICES ASSUME Init PROVE Inv
  OBVIOUS
<1>1. JobsInv
  BY DEF Init, JobsInv
<1>2. WorkersInv
  BY IdleType DEF Init, WorkersInv, Earned
<1>3. LateInv /\ UsersInv
  BY DEF Init, LateInv, UsersInv, PurgedBeforeAuth
<1> QED BY <1>1, <1>2, <1>3 DEF Inv

\* A step of a worker that is not a claim.
LEMMA WorkerStep ==
  ASSUME Inv, NEW w \in Workers,
         StartRound(w) \/ Answered(w) \/ GiveUp(w) \/ Crash(w)
  PROVE  Inv'
<1> DEFINE j == workers[w].job
<1>0. JobsInv /\ WorkersInv /\ LateInv /\ UsersInv
  BY DEF Inv
<1>1. workers[w] \in WorkerStates /\ Earned(workers[w].stage, j) /\ None \notin Jobs
  BY <1>0, DeletionAssumption DEF WorkersInv
<1>2. CASE StartRound(w)
  <2>1. Monotone /\ Moves(w, "acquire", None) /\ UNCHANGED <<jobs, authUsers, late, purged>>
    BY <1>2 DEF StartRound, Monotone
  <2>2. WorkersInv'
    BY <1>0, <2>1, MovesKeeps DEF Rpcs
  <2>3. JobsInv' /\ LateInv' /\ UsersInv'
    BY <1>0, <2>1, NoRow, LateKept DEF UsersInv, PurgedBeforeAuth, Monotone
  <2> QED BY <2>2, <2>3 DEF Inv
<1>3. CASE RoundFull(w)
  <2>1. /\ Monotone /\ workers' = [workers EXCEPT ![w] = Idle]
        /\ UNCHANGED <<jobs, authUsers, late, purged>>
    BY <1>3 DEF RoundFull, Monotone
  <2>2. WorkersInv'
    BY ZenonT(60), <1>0, <2>1, IdleKeeps
  <2>3. JobsInv' /\ LateInv' /\ UsersInv'
    BY <1>0, <2>1, NoRow, LateKept DEF UsersInv, PurgedBeforeAuth, Monotone
  <2> QED BY <2>2, <2>3 DEF Inv
<1>4. CASE Purge(w)
  <2>1. /\ j \in Jobs /\ account_deletion_purge(w, j) /\ UNCHANGED <<authUsers, late>>
        /\ IF Owns(w, j) THEN Moves(w, "auth", j) ELSE Moves(w, "acquire", None)
    BY <1>1, <1>4 DEF Purge, Earned
  <2>2. /\ JobsInv' /\ Monotone /\ purged' \subseteq purged \cup {UserOf[j]}
        /\ Owns(w, j) => UserOf[j] \in purged'
    BY <1>0, <2>1, PurgeKeeps DEF Monotone
  <2>3. WorkersInv'
    BY <1>0, <2>1, <2>2, MovesKeeps DEF Rpcs
  <2>4. LateInv' /\ UsersInv'
    <3>1. UserOf[j] \in Users
      BY <2>1, DeletionAssumption
    <3>2. UsersInv'
      BY <1>0, <2>1, <2>2, <3>1 DEF UsersInv, PurgedBeforeAuth, Monotone
    <3> QED BY <1>0, <2>1, <2>2, <3>2, LateKept
  <2> QED BY <2>2, <2>3, <2>4 DEF Inv
<1>5. CASE AuthDeleted(w)
  <2>1. /\ j \in Jobs /\ UserOf[j] \in purged /\ Moves(w, "finalize", j)
        /\ authUsers' = authUsers \ {UserOf[j]} /\ UNCHANGED <<jobs, late, purged>>
    BY <1>1, <1>5 DEF AuthDeleted, hard_delete, Earned
  <2>2. Monotone
    BY <2>1 DEF Monotone
  <2>3. WorkersInv'
    BY <1>0, <2>1, <2>2, MovesKeeps DEF Rpcs
  <2>4. JobsInv' /\ LateInv' /\ UsersInv'
    BY <1>0, <2>1, <2>2, NoRow, LateKept DEF UsersInv, PurgedBeforeAuth, Monotone
  <2> QED BY <2>3, <2>4 DEF Inv
<1>6. CASE AuthRefused(w)
  <2>1. /\ j \in Jobs /\ UserOf[j] \in purged /\ Moves(w, "failure", j)
        /\ UNCHANGED <<jobs, authUsers, late, purged>> /\ Monotone
    BY <1>1, <1>6 DEF AuthRefused, Earned, Monotone
  <2>2. WorkersInv'
    BY <1>0, <2>1, MovesKeeps DEF Rpcs
  <2>3. JobsInv' /\ LateInv' /\ UsersInv'
    BY <1>0, <2>1, NoRow, LateKept DEF UsersInv, PurgedBeforeAuth, Monotone
  <2> QED BY <2>2, <2>3 DEF Inv
<1>7. CASE RecordFailure(w) \/ RecordRetry(w) \/ Finalize(w)
  <2>1. /\ j \in Jobs /\ UserOf[j] \in purged /\ Moves(w, "acquire", None)
        /\ UNCHANGED <<authUsers, late, purged>> /\ Monotone
    BY <1>1, <1>7 DEF RecordFailure, RecordRetry, Finalize, Earned, Monotone
  <2>2. \/ account_deletion_record_failure(w, j) \/ account_deletion_record_retry(w, j)
        \/ account_deletion_finalize(w, j) /\ UserOf[j] \notin authUsers
    BY <1>1, <1>7 DEF RecordFailure, RecordRetry, Finalize, Earned
  <2>3. JobsInv'
    BY <1>0, <2>1, <2>2, ReleaseKeeps, FinalizeKeeps
  <2>4. WorkersInv'
    BY <1>0, <2>1, MovesKeeps DEF Rpcs
  <2>5. LateInv' /\ UsersInv'
    BY <1>0, <2>1, LateKept DEF UsersInv, PurgedBeforeAuth
  <2> QED BY <2>3, <2>4, <2>5 DEF Inv
<1>8. CASE GiveUp(w) \/ Crash(w)
  <2>1. Leave(w) /\ UNCHANGED <<jobs, authUsers, purged>> /\ Monotone
    BY <1>8 DEF GiveUp, Crash, Monotone
  <2>2. \/ workers' = [workers EXCEPT ![w] = Idle]
        \/ workers[w].stage = "auth" /\ Moves(w, "retry", j)
        \/ Moves(w, "acquire", None)
    BY <1>8 DEF GiveUp, Crash
  <2>3. WorkersInv'
    <3>1. workers[w].stage = "auth" => j \in Jobs /\ UserOf[j] \in purged'
      BY <1>1, <2>1 DEF Earned
    <3> QED BY <1>0, <2>1, <2>2, <3>1, MovesKeeps, IdleKeeps DEF Rpcs
  <2>4. JobsInv' /\ LateInv' /\ UsersInv'
    BY <1>0, <2>1, NoRow, LeaveKeeps DEF UsersInv, PurgedBeforeAuth, Monotone
  <2> QED BY <2>3, <2>4 DEF Inv
<1> QED BY <1>2, <1>3, <1>4, <1>5, <1>6, <1>7, <1>8 DEF Answered

\* A claim gives the worker a job, and its purge marker tells the truth.
LEMMA AcquireStep ==
  ASSUME Inv, NEW w \in Workers, NEW j \in Jobs \cup {None}, Acquire(w, j)
  PROVE  Inv'
<1>1. /\ JobsInv /\ WorkersInv /\ LateInv /\ UsersInv /\ None \notin Jobs
      /\ account_deletion_acquire_lease(w, j) /\ UNCHANGED <<authUsers, late, purged>>
  BY DeletionAssumption DEF Inv, Acquire
<1>2. JobsInv' /\ Monotone
  BY <1>1, AcquireKeeps DEF Monotone
<1>3. LateInv' /\ UsersInv'
  BY <1>1, <1>2, LateKept DEF UsersInv, PurgedBeforeAuth
<1>4. WorkersInv'
  <2>1. CASE j = None
    <3>1. workers' = [workers EXCEPT ![w] = Idle]
      BY <2>1, Zenon DEF Acquire
    <3> QED BY ZenonT(60), <1>1, <1>2, <3>1, IdleKeeps
  <2>2. CASE j # None
    <3>1. PICK ws : ws = [stage |-> IF jobs[j].purged THEN "auth" ELSE "purge",
                          job |-> j, claimed |-> workers[w].claimed + 1]
      BY ZenonT(60)
    <3>2. workers' = [workers EXCEPT ![w] = ws]
      BY <2>2, <3>1, Zenon DEF Acquire
    <3>3. j \in Jobs /\ jobs[j] # None
      BY <1>1, <2>2 DEF account_deletion_acquire_lease, Claimable
    <3>4. jobs[j].purged => UserOf[j] \in purged'
      BY <1>1, <3>3 DEF JobsInv, RowTrue
    <3>5. workers[w].claimed + 1 \in 0..MaxBatch
      BY <1>1, DeletionAssumption DEF Acquire, WorkersInv, WorkerStates
    <3>6. ws \in WorkerStates
      BY <3>1, <3>3, <3>5 DEF WorkerStates, Rpcs
    <3>7. ws.job = j /\ ws.stage = IF jobs[j].purged THEN "auth" ELSE "purge"
      BY <3>1
    <3> QED BY ZenonT(60), <1>1, <1>2, <3>2, <3>3, <3>4, <3>6, <3>7, WorkerMoved
  <2> QED BY <2>1, <2>2
<1> QED BY <1>2, <1>3, <1>4 DEF Inv

\* A call nobody waits for has the effect its sender had earned, or none.
LEMMA LateStep ==
  ASSUME Inv, NEW call \in late, LateEffect(call) \/ LateLost(call)
  PROVE  Inv'
<1> DEFINE j == call.job
           w == call.worker
<1>1. /\ JobsInv /\ WorkersInv /\ LateInv /\ UsersInv
      /\ late' \subseteq late /\ UNCHANGED workers /\ w \in Workers /\ Earned(call.rpc, j)
  BY DEF Inv, LateInv, LateEffect, LateLost, LateCalls
<1>2. JobsInv' /\ UsersInv' /\ Monotone
  <2>1. CASE LateLost(call)
    BY <1>1, <2>1, NoRow DEF LateLost, UsersInv, PurgedBeforeAuth, Monotone
  <2>2. CASE LateEffect(call) /\ call.rpc = "acquire"
    <3>1. /\ UNCHANGED <<authUsers, purged>>
          /\ \E k \in Jobs \cup {None} : account_deletion_acquire_lease(w, k)
      BY <2>2 DEF LateEffect
    <3> QED BY <1>1, <3>1, AcquireKeeps DEF UsersInv, PurgedBeforeAuth, Monotone
  <2>3. CASE LateEffect(call) /\ call.rpc = "purge"
    <3>1. j \in Jobs /\ account_deletion_purge(w, j) /\ UNCHANGED authUsers
      BY <1>1, <2>3 DEF LateEffect, Earned
    <3>2. JobsInv' /\ purged \subseteq purged' /\ purged' \subseteq purged \cup {UserOf[j]}
      BY <1>1, <3>1, PurgeKeeps
    <3>3. UserOf[j] \in Users
      BY <3>1, DeletionAssumption
    <3> QED BY <1>1, <3>1, <3>2, <3>3 DEF UsersInv, PurgedBeforeAuth, Monotone
  <2>4. CASE LateEffect(call) /\ call.rpc = "auth"
    <3>1. /\ j \in Jobs /\ UserOf[j] \in purged /\ UNCHANGED <<jobs, purged>>
          /\ authUsers' = authUsers \ {UserOf[j]}
      BY <1>1, <2>4 DEF LateEffect, Earned, hard_delete
    <3>2. Monotone /\ UsersInv'
      BY <1>1, <3>1 DEF UsersInv, PurgedBeforeAuth, Monotone
    <3> QED BY <1>1, <3>1, <3>2, NoRow DEF Monotone
  <2>5. CASE LateEffect(call) /\ call.rpc \in {"failure", "retry", "finalize"}
    <3>1. /\ j \in Jobs /\ UserOf[j] \in purged /\ UNCHANGED <<authUsers, purged>>
          /\ \/ account_deletion_record_failure(w, j) \/ account_deletion_record_retry(w, j)
             \/ account_deletion_finalize(w, j) /\ UserOf[j] \notin authUsers
      BY <1>1, <2>5 DEF LateEffect, Earned
    <3>2. JobsInv'
      BY <1>1, <3>1, ReleaseKeeps, FinalizeKeeps
    <3> QED BY <1>1, <3>1, <3>2 DEF UsersInv, PurgedBeforeAuth, Monotone
  <2> QED BY <2>1, <2>2, <2>3, <2>4, <2>5 DEF LateEffect
<1>3. LateInv' /\ WorkersInv'
  BY <1>1, <1>2, LateKept, WorkersKept
<1> QED BY <1>2, <1>3 DEF Inv

\* A request, the purge of completed jobs and the clock keep the invariant.
LEMMA LedgerStep ==
  ASSUME Inv, \/ \E j \in Jobs : Request(j) \/ account_deletion_purge_completed(j)
              \/ Tick \/ UNCHANGED vars
  PROVE  Inv'
<1>1. /\ JobsInv /\ WorkersInv /\ LateInv /\ UsersInv /\ Monotone
      /\ UNCHANGED <<authUsers, workers, late, purged>>
  BY DEF Inv, Request, account_deletion_purge_completed, Tick, vars, Monotone
<1>2. JobsInv'
  <2>1. CASE \E j \in Jobs : Request(j)
    <3>1. PICK j \in Jobs : jobs' = [jobs EXCEPT ![j] = IF jobs[j] = None THEN NewJob ELSE @]
      BY ZenonT(60), <2>1 DEF Request, account_deletion_request
    <3>2. /\ NewJob \in Rows
          /\ NewJob.purged = FALSE /\ NewJob.status = "pending"
      BY DeletionAssumption DEF NewJob, Rows, Statuses
    <3>3. CASE jobs[j] = None
      BY ZenonT(60), <1>1, <3>1, <3>2, <3>3, OneRow
    <3>4. CASE jobs[j] # None
      BY <1>1, <3>1, <3>4, NoRow DEF JobsInv
    <3> QED BY <3>3, <3>4
  <2>2. CASE \E j \in Jobs : account_deletion_purge_completed(j)
    BY <1>1, <2>2 DEF account_deletion_purge_completed, JobsInv, RowTrue
  <2>3. CASE Tick
    BY <1>1, <2>3, TickKeeps
  <2>4. CASE UNCHANGED vars
    BY <1>1, <2>4, NoRow DEF vars
  <2> QED BY <2>1, <2>2, <2>3, <2>4
<1>3. LateInv' /\ WorkersInv' /\ UsersInv'
  BY <1>1, LateKept, WorkersKept DEF UsersInv, PurgedBeforeAuth
<1> QED BY <1>2, <1>3 DEF Inv

\* The invariant holds of every behaviour of the ledger and its workers.
THEOREM InvHolds == Spec => []Inv
<1>1. Inv /\ [Next]_vars => Inv'
  BY WorkerStep, AcquireStep, LateStep, LedgerStep DEF Next, Acquires
<1> QED BY <1>1, InitInv, PTL DEF Spec

\* The ledger and the workers stay well typed; in particular no job is
\* claimed more often than the attempts ceiling allows.
THEOREM TypeCorrect == Spec => []TypeOK
<1>1. Inv => TypeOK
  BY DEF Inv, JobsInv, WorkersInv, LateInv, UsersInv, TypeOK
<1> QED BY <1>1, InvHolds, PTL

\* No worker, crash or late call makes a job completed while its user still
\* has rows that were not purged or an Auth account.
THEOREM CompletedMeansDeletedHolds == Spec => []CompletedMeansDeleted
<1>1. Inv => CompletedMeansDeleted
  BY DEF Inv, JobsInv, RowTrue, CompletedMeansDeleted
<1> QED BY <1>1, InvHolds, PTL

\* The Auth account goes only after the purge of the rows has committed.
THEOREM PurgedBeforeAuthHolds == Spec => []PurgedBeforeAuth
<1>1. Inv => PurgedBeforeAuth
  BY DEF Inv, UsersInv
<1> QED BY <1>1, InvHolds, PTL

-----------------------------------------------------------------------------
(* Who may change a row while its lease is live.                           *)

Leased(j) == jobs[j] # None /\ jobs[j].status = "processing" /\ jobs[j].lease > 0

\* account_deletion_acquire_lease passes over a row whose lease is live.
LEMMA AcquireSkips ==
  ASSUME JobsInv, NEW w, NEW k, account_deletion_acquire_lease(w, k),
         NEW j \in Jobs, Leased(j)
  PROVE  jobs'[j] = jobs[j]
<1>1. jobs[j] \in Rows
  BY DEF JobsInv, Leased
<1>2. jobs[j].lease > 0 /\ ~(jobs[j].lease < 0)
  BY <1>1 DEF Leased, Rows
<1>3. j \notin Claimable /\ j \notin Exhausted
  BY <1>2, Zenon DEF Leased, Claimable, Exhausted, Waiting, Expired
<1> QED BY <1>3, Zenon DEF account_deletion_acquire_lease

\* The calls about a claimed job change no row but that of their sender.
LEMMA OwnerWrites ==
  ASSUME JobsInv, NEW w, NEW k \in Jobs,
         \/ account_deletion_purge(w, k)
         \/ account_deletion_record_failure(w, k)
         \/ account_deletion_record_retry(w, k)
         \/ account_deletion_finalize(w, k),
         NEW j \in Jobs, jobs'[j] # jobs[j]
  PROVE  jobs[j].owner = w
<1>1. Owns(w, k)
  BY Zenon DEF account_deletion_purge, account_deletion_record_failure,
     account_deletion_record_retry, account_deletion_finalize
<1>2. PICK row : jobs' = [jobs EXCEPT ![k] = row]
  BY <1>1, Zenon DEF account_deletion_purge, account_deletion_record_failure,
     account_deletion_record_retry, account_deletion_finalize
<1>3. j = k
  BY <1>2 DEF JobsInv
<1> QED BY <1>1, <1>3 DEF Owns

\* A worker that moves to another stage is seen to move.
LEMMA MovesAway ==
  ASSUME WorkersInv, NEW w \in Workers, NEW stage, NEW k, Moves(w, stage, k),
         workers[w].stage # stage
  PROVE  workers'[w] # workers[w]
<1>1. workers[w] \in WorkerStates /\ workers'[w] = [workers[w] EXCEPT !.stage = stage, !.job = k]
  BY Zenon DEF WorkersInv, Moves
<1>2. workers'[w].stage = stage
  BY <1>1 DEF WorkerStates
<1> QED BY <1>2

\* While the lease of a job is live, no worker that lost the job, no late call of
\* such a worker, no claim and no passing of time changes its row: the RPCs check
\* owner and lease in the transaction that writes (account_deletion_assert_owner).
THEOREM OnlyTheOwnerActsHolds == Spec => OnlyTheOwnerActs
<1> DEFINE Acts(j) == \/ workers'[jobs[j].owner] # workers[jobs[j].owner]
                      \/ \E call \in late \ late' : call.worker = jobs[j].owner
<1>1. ASSUME Inv, [Next]_vars, NEW j \in Jobs, Leased(j), ~SameRow(jobs'[j], jobs[j])
      PROVE  Acts(j)
  <2>1. JobsInv /\ WorkersInv /\ LateInv /\ jobs[j] \in Rows
    BY <1>1 DEF Inv, JobsInv, Leased
  <2>2. jobs'[j] # jobs[j]
    BY <1>1, Zenon DEF SameRow, Leased
  <2>3. ASSUME NEW w \in Workers,
               StartRound(w) \/ Acquires(w) \/ Answered(w) \/ GiveUp(w) \/ Crash(w)
        PROVE  Acts(j)
    <3>1. ~(UNCHANGED jobs)
      BY <2>2
    <3>2. ~Acquires(w)
      BY <1>1, <2>1, <2>2, AcquireSkips, Zenon DEF Acquires, Acquire
    <3>3. Purge(w) \/ RecordFailure(w) \/ RecordRetry(w) \/ Finalize(w)
      BY <2>3, <3>1, <3>2, Zenon
      DEF StartRound, Answered, GiveUp, Crash, RoundFull, AuthDeleted, AuthRefused
    <3>4. workers[w].job \in Jobs
      BY <2>1, <3>3 DEF WorkersInv, Earned, Purge, RecordFailure, RecordRetry, Finalize
    <3>5. jobs[j].owner = w
      BY <2>1, <2>2, <3>3, <3>4, OwnerWrites, Zenon DEF Purge, RecordFailure, RecordRetry, Finalize
    <3>6. PICK stage, k : Moves(w, stage, k) /\ workers[w].stage # stage
      BY <3>3 DEF Purge, RecordFailure, RecordRetry, Finalize
    <3> QED BY <2>1, <3>5, <3>6, MovesAway
  <2>4. ASSUME NEW call \in late, LateEffect(call) \/ LateLost(call)
        PROVE  Acts(j)
    <3>1. LateEffect(call) /\ ~(UNCHANGED jobs)
      BY <2>2, <2>4, Zenon DEF LateLost
    <3>2. call.rpc # "acquire" /\ call.rpc # "auth"
      BY <1>1, <2>1, <2>2, <3>1, AcquireSkips, Zenon DEF LateEffect
    <3>3. call.job \in Jobs
      BY <2>1, <3>1, <3>2 DEF LateInv, Earned, LateEffect
    <3>4. jobs[j].owner = call.worker
      BY <2>1, <2>2, <3>1, <3>2, <3>3, OwnerWrites, Zenon DEF LateEffect
    <3>5. call \in late \ late'
      BY <3>1, Zenon DEF LateEffect
    <3> QED BY <3>4, <3>5
  <2>5. ~(\E k \in Jobs : Request(k))
    BY <1>1, <2>1, <2>2 DEF Request, account_deletion_request, JobsInv, Leased
  <2>6. ~(\E k \in Jobs : account_deletion_purge_completed(k))
    BY <1>1, <2>1, <2>2 DEF account_deletion_purge_completed, JobsInv, Leased
  <2>7. ~Tick
    <3>1. SUFFICES ASSUME Tick PROVE SameRow(jobs'[j], jobs[j])
      BY <1>1
    <3>2. jobs'[j] = Older(jobs[j])
      BY <1>1, <3>1, Zenon DEF Tick, Leased
    <3>3. Older(jobs[j]) \in Rows /\ None \notin Rows
      BY <2>1, OlderType, NoRowAssumption
    <3> QED BY <2>1, <3>2, <3>3, Zenon DEF SameRow, Older, Rows
  <2>8. ~(UNCHANGED vars)
    BY <2>2 DEF vars
  <2> QED BY <1>1, <2>3, <2>4, <2>5, <2>6, <2>7, <2>8, Zenon DEF Next
<1>2. Inv /\ [Next]_vars =>
      [\A j \in Jobs : (/\ jobs[j] # None
                        /\ jobs[j].status = "processing"
                        /\ jobs[j].lease > 0
                        /\ ~SameRow(jobs'[j], jobs[j])) => Acts(j)]_vars
  BY <1>1, Zenon DEF Leased
<1> QED BY <1>2, InvHolds, PTL DEF Spec, OnlyTheOwnerActs

-----------------------------------------------------------------------------
(* The retention job, for any number of overlapping rounds, any clocks and *)
(* any rows to begin with.  A round's batch has all the rows it still owes *)
(* in its category, unless it is as large as a batch may be.               *)

Names == {"admission_reservations", "privacy_operations", "outbox_events"}

StoredRows == [id : Nat, at : Nat, final : BOOLEAN]

\* What the tables may hold: finitely many rows of each category.
Tables == {t \in [Names -> SUBSET StoredRows] : \A c \in Names : IsFiniteSet(t[c])}

Rounds == [pc : {"idle", "asking", "purging", "done", "failed"}, at : 0..3, clock : Int, began : Nat,
           total : Nat, picked : SUBSET StoredRows,
           full : SUBSET Names, raced : BOOLEAN]

RoundTypeOK ==
  /\ now \in Nat
  /\ stored \in Tables
  /\ runner \in [Runners -> Rounds]

\* The rows that round r must have purged from c when it is through with it.
Owed(r, c) ==
  {x \in stored[c] : x.final /\ x.at < r.clock - HorizonOf(c) /\ x.at < r.began - HorizonOf(c)}

\* The categories a round is through with.
Passed(r) == {Categories[i] : i \in {n \in 1..3 : n < r.at \/ r.pc = "done"}}

RoundInv(r) ==
  /\ r.pc \in {"asking", "purging", "done"} => r.at \in 1..3 /\ r.began <= now
  /\ (r.pc \in {"asking", "purging", "done"} /\ ~r.raced) =>
       \A c \in Passed(r) : c \in r.full \/ Owed(r, c) = {}
  /\ r.pc = "purging" =>
       /\ IsFiniteSet(r.picked) /\ Cardinality(r.picked) <= PurgeBatch
       /\ Owed(r, Categories[r.at]) \subseteq r.picked \/ Cardinality(r.picked) = PurgeBatch

RetentionInv == RoundTypeOK /\ \A w \in Runners : RoundInv(runner[w])

\* The categories in the order of run_once, and their horizons.
LEMMA CategoryTypes ==
  /\ DOMAIN Categories = 1..3 /\ Len(Categories) = 3
  /\ \A i \in 1..3 : Categories[i] \in Names
  /\ \A c \in Names : HorizonOf(c) \in Nat /\ \E i \in 1..3 : Categories[i] = c
BY RetentionAssumption DEF Categories, Names, HorizonOf

\* Where stored rows go and none is added but rows of today, a round owes no more
\* than before.
Shrinks == \A c \in Names : \A x \in stored'[c] : x \in stored[c] \/ (x.at \in Nat /\ x.at >= now)

\* A round that stands still keeps what it has achieved.
LEMMA RoundStays ==
  ASSUME RoundTypeOK, NEW r \in Rounds, RoundInv(r), Shrinks, now' \in Nat, now <= now'
  PROVE  RoundInv(r)'
<1>1. SUFFICES ASSUME r.pc \in {"asking", "purging", "done"} PROVE RoundInv(r)'
  BY Zenon DEF RoundInv
<1>2. r.at \in 1..3 /\ r.began <= now /\ r.began \in Nat /\ now \in Nat
  BY <1>1 DEF RoundInv, Rounds, RoundTypeOK
<1>3. ASSUME NEW c \in Names PROVE Owed(r, c)' \subseteq Owed(r, c)
  <2>1. ASSUME NEW x \in stored'[c], x.at < r.began - HorizonOf(c) PROVE x \in stored[c]
    BY <1>2, <2>1, CategoryTypes DEF Shrinks
  <2> QED BY <2>1, Zenon DEF Owed
<1>4. Categories[r.at] \in Names /\ \A c \in Passed(r) : c \in Names
  BY <1>2, CategoryTypes DEF Passed
<1>5. r.began <= now'
  BY <1>2
<1>6. \A c \in Names : Owed(r, c) = {} => Owed(r, c)' = {}
  BY <1>3
<1>7. Owed(r, Categories[r.at]) \subseteq r.picked => Owed(r, Categories[r.at])' \subseteq r.picked
  BY <1>3, <1>4
<1> QED BY <1>1, <1>2, <1>4, <1>5, <1>6, <1>7, Zenon DEF RoundInv

\* Where every other round stands still, only the round that moves is in question.
LEMMA OneRoundMoves ==
  ASSUME RetentionInv, Shrinks, stored' \in Tables, now' \in Nat, now <= now', NEW w \in Runners, NEW s \in Rounds,
         runner' = [runner EXCEPT ![w] = s], RoundInv(s)'
  PROVE  RetentionInv'
<1>1. \A v \in Runners : runner[v] \in Rounds /\ RoundInv(runner[v])
  BY DEF RetentionInv, RoundTypeOK
<1>2. runner' \in [Runners -> Rounds]
  BY DEF RetentionInv, RoundTypeOK
<1>3. ASSUME NEW v \in Runners PROVE RoundInv(runner[v])'
  <2>1. CASE v = w
    <3>1. runner'[v] = s
      BY <2>1 DEF RetentionInv, RoundTypeOK
    <3> QED BY <3>1, Zenon DEF RoundInv, Passed, Owed
  <2>2. CASE v # w
    <3>1. runner'[v] = runner[v]
      BY <2>2 DEF RetentionInv, RoundTypeOK
    <3>2. RoundInv(runner[v]) /\ runner[v] \in Rounds
      BY <1>1
    <3>3. PICK r \in Rounds : r = runner[v] /\ RoundInv(r)
      BY <3>2
    <3>4. RoundInv(r)'
      BY <3>3, RoundStays DEF RetentionInv
    <3> QED BY <3>1, <3>3, <3>4, Zenon DEF RoundInv, Passed, Owed
  <2> QED BY <2>1, <2>2
<1> QED BY <1>2, <1>3, Zenon DEF RetentionInv, RoundTypeOK

\* A round that begins is through with nothing.
LEMMA RoundBegins ==
  ASSUME RetentionInv, NEW w \in Runners, NEW offset \in Offsets, run_once(w, offset)
  PROVE  RetentionInv'
<1>1. now \in Nat /\ stored \in Tables /\ now' = now /\ stored' = stored /\ Shrinks /\ offset \in Int
  BY RetentionAssumption DEF RetentionInv, RoundTypeOK, run_once, Shrinks
<1>2. now' \in Nat /\ now <= now' /\ stored' \in Tables /\ now + offset \in Int
  BY <1>1
<1>3. PICK s : s = [NoRound EXCEPT !.pc = "asking", !.at = 1, !.clock = now + offset, !.began = now]
  BY Zenon
<1>4. s = [pc |-> "asking", at |-> 1, clock |-> now + offset, began |-> now, total |-> 0,
           picked |-> {}, full |-> {}, raced |-> FALSE]
  BY <1>3 DEF NoRound
<1>5. s.pc = "asking" /\ s.at = 1 /\ s.began = now
  BY <1>4
<1>6. s \in Rounds
  BY <1>1, <1>2, <1>4 DEF Rounds
<1>7. Passed(s) = {}
  BY <1>5 DEF Passed
<1>8. RoundInv(s)'
  BY <1>1, <1>5, <1>7 DEF RoundInv, Passed
<1>9. runner' = [runner EXCEPT ![w] = s]
  BY <1>3, Zenon DEF run_once
<1> QED BY <1>1, <1>2, <1>6, <1>8, <1>9, OneRoundMoves, Zenon

\* A round that failed promises nothing.
LEMMA RoundFails ==
  ASSUME RetentionInv, NEW w \in Runners, runner' = [runner EXCEPT ![w] = [NoRound EXCEPT !.pc = "failed"]],
         now' = now, stored' \in Tables, Shrinks
  PROVE  RetentionInv'
<1>1. PICK s : s = [NoRound EXCEPT !.pc = "failed"]
  BY Zenon
<1>2. s = [pc |-> "failed", at |-> 0, clock |-> 0, began |-> 0, total |-> 0, picked |-> {},
           full |-> {}, raced |-> FALSE]
  BY <1>1 DEF NoRound
<1>3. s \in Rounds /\ s.pc = "failed"
  BY <1>2 DEF Rounds
<1>4. RoundInv(s)'
  BY <1>3 DEF RoundInv
<1>5. runner' = [runner EXCEPT ![w] = s] /\ now' \in Nat /\ now <= now'
  BY <1>1 DEF RetentionInv, RoundTypeOK
<1> QED BY <1>3, <1>4, <1>5, OneRoundMoves, Zenon

\* What a round owes is eligible by both clocks, so a batch that leaves some of
\* it is full.
LEMMA PickStep ==
  ASSUME RetentionInv, NEW w \in Runners, NEW B, Pick(w, B)
  PROVE  RetentionInv'
<1> DEFINE r == runner[w]
<1> DEFINE c == InCategory(w)
<1>0. now \in Nat /\ stored \in Tables /\ now' = now /\ stored' = stored /\ Shrinks
  BY DEF RetentionInv, RoundTypeOK, Pick, Shrinks
<1>1. r \in Rounds /\ RoundInv(r) /\ r.pc = "asking"
  BY DEF RetentionInv, RoundTypeOK, Pick
<1>2. r.at \in 1..3 /\ r.began <= now /\ r.began \in Nat /\ r.clock \in Int
  BY <1>1 DEF RoundInv, Rounds
<1>3. c \in Names /\ HorizonOf(c) \in Nat /\ c = Categories[r.at]
  BY <1>2, CategoryTypes DEF InCategory
<1>4. stored[c] \subseteq StoredRows /\ IsFiniteSet(stored[c])
  BY <1>0, <1>3 DEF Tables
<1>5. Owed(r, c) \subseteq Eligible(w, c)
  <2>1. ASSUME NEW x \in StoredRows, x.at < r.began - HorizonOf(c) PROVE x.at < now - HorizonOf(c)
    BY <1>0, <1>2, <1>3, <2>1 DEF StoredRows
  <2> QED BY <1>4, <2>1, Zenon DEF Owed, Eligible, Cutoff
<1>6. /\ B \subseteq Eligible(w, c)
      /\ B = Eligible(w, c) \/ Cardinality(B) = PurgeBatch
      /\ Cardinality(B) <= PurgeBatch
  BY Zenon DEF Pick, Picks, Oldest
<1>7. B \subseteq stored[c]
  BY <1>6 DEF Eligible
<1>8. IsFiniteSet(B)
  BY <1>4, <1>7, FS_Subset
<1>9. PICK s : s = [r EXCEPT !.pc = "purging", !.picked = B]
  BY Zenon
<1>10. /\ s \in Rounds /\ s.pc = "purging" /\ s.picked = B /\ s.at = r.at /\ s.raced = r.raced
       /\ s.full = r.full /\ s.began = r.began /\ s.clock = r.clock
  BY <1>1, <1>4, <1>7, <1>9 DEF Rounds
<1>11. Passed(s) = Passed(r)
  BY <1>1, <1>10 DEF Passed
<1>12. \A d : Owed(s, d)' = Owed(r, d)
  BY <1>0, <1>10, Zenon DEF Owed
<1>13. runner' = [runner EXCEPT ![w] = s]
  BY <1>1, <1>9 DEF Pick, RetentionInv, RoundTypeOK
<1>14. Owed(s, Categories[s.at])' \subseteq s.picked \/ Cardinality(s.picked) = PurgeBatch
  BY <1>3, <1>5, <1>6, <1>10, <1>12
<1>15. RoundInv(s)'
  BY <1>0, <1>1, <1>2, <1>6, <1>8, <1>10, <1>11, <1>12, <1>14 DEF RoundInv, Passed
<1> HIDE DEF r, c
<1>16. now' \in Nat /\ now <= now' /\ stored' \in Tables
  BY <1>0
<1> QED BY <1>0, <1>10, <1>13, <1>15, <1>16, OneRoundMoves, Zenon

\* The count of a batch: the round asks again, or it is through with the category
\* and has marked it full unless the batch was short.
Counted(r, s, n) ==
  /\ s \in Rounds /\ s.clock = r.clock /\ s.began = r.began
  /\ ~s.raced => ~r.raced /\ ~(n < Cardinality(r.picked))
  /\ \/ s.pc = "asking" /\ s.at = r.at /\ s.full = r.full
     \/ /\ \/ s.pc = "asking" /\ r.at # 3 /\ s.at = r.at + 1
           \/ s.pc = "done" /\ r.at = 3 /\ s.at = 3
        /\ r.full \subseteq s.full /\ (n < PurgeBatch \/ Categories[r.at] \in s.full)

\* AfterBatch counts a batch.
LEMMA BatchCounted ==
  ASSUME RoundTypeOK, NEW w \in Runners, runner[w].pc = "purging", runner[w].at \in 1..3, NEW n \in Nat
  PROVE  Counted(runner[w], AfterBatch(w, n), n)
<1>1. PICK r : r = runner[w]
  BY Zenon
<1>2. r \in Rounds /\ r.total \in Nat /\ r.total + n \in Nat /\ r.at \in 1..3 /\ r.full \in SUBSET Names
  BY <1>1 DEF RoundTypeOK, Rounds
<1>3. InCategory(w) = Categories[r.at] /\ Categories[r.at] \in Names /\ Len(Categories) = 3
  BY <1>1, <1>2, CategoryTypes DEF InCategory
<1>4. PICK t : t = r.total + n
  BY Zenon
<1>5. PICK raced \in BOOLEAN : raced = (r.raced \/ n < Cardinality(r.picked))
  BY Zenon
<1>6. PICK rest : rest = [r EXCEPT !.picked = {}, !.raced = raced]
  BY Zenon
<1>7. /\ rest \in Rounds /\ rest.at = r.at /\ rest.full = r.full /\ rest.clock = r.clock
      /\ rest.began = r.began /\ rest.raced = raced
  BY <1>2, <1>5, <1>6 DEF Rounds
<1>8. CASE ~CategoryOver(n, t)
  <2>1. PICK s : s = [rest EXCEPT !.pc = "asking", !.total = t]
    BY Zenon
  <2>2. AfterBatch(w, n) = s
    BY <1>1, <1>4, <1>5, <1>6, <1>8, <2>1, Zenon DEF AfterBatch
  <2>3. /\ s \in Rounds /\ s.pc = "asking" /\ s.at = r.at /\ s.full = r.full /\ s.clock = r.clock
        /\ s.began = r.began /\ s.raced = rest.raced
    BY <1>2, <1>4, <1>7, <2>1 DEF Rounds
  <2> QED BY <1>1, <1>5, <1>7, <2>2, <2>3, Zenon DEF Counted
<1>9. CASE CategoryOver(n, t)
  <2>1. PICK full : full = IF n < PurgeBatch \/ t < PurgeLimit THEN r.full ELSE r.full \cup {InCategory(w)}
    BY Zenon
  <2>2. PICK pc : pc = IF r.at = 3 THEN "done" ELSE "asking"
    BY Zenon
  <2>3. PICK at : at = IF r.at = 3 THEN r.at ELSE r.at + 1
    BY Zenon
  <2>4. full \in SUBSET Names /\ r.full \subseteq full /\ at \in 1..3 /\ pc \in {"done", "asking"}
    BY <1>2, <1>3, <2>1, <2>2, <2>3
  <2>5. n < PurgeBatch \/ Categories[r.at] \in full
    <3>1. t \in Nat /\ PurgeLimit \in Nat /\ (n < PurgeBatch \/ t >= PurgeLimit)
      BY <1>2, <1>4, <1>9, RetentionAssumption DEF CategoryOver
    <3>2. n < PurgeBatch \/ ~(t < PurgeLimit)
      BY <3>1
    <3> QED BY <1>3, <2>1, <3>2
  <2>6. PICK s : s = [rest EXCEPT !.total = 0, !.full = full, !.pc = pc, !.at = at]
    BY Zenon
  <2>7. s.pc = pc /\ s.at = at /\ s.full = full
    BY <1>7, <2>6 DEF Rounds
  <2>10. s.clock = r.clock /\ s.began = r.began /\ s.raced = rest.raced
    BY <1>7, <2>6 DEF Rounds
  <2>11. at \in 0..3
    BY <2>4
  <2>12. s \in Rounds
    BY <1>7, <2>4, <2>6, <2>11 DEF Rounds
  <2>8. AfterBatch(w, n) = s
    BY <1>1, <1>3, <1>4, <1>5, <1>6, <1>7, <1>9, <2>1, <2>2, <2>3, <2>6 DEF AfterBatch
  <2>9. \/ pc = "asking" /\ r.at # 3 /\ at = r.at + 1
        \/ pc = "done" /\ r.at = 3 /\ at = 3
    BY <1>2, <2>2, <2>3
  <2> QED BY <1>1, <1>5, <1>7, <2>4, <2>5, <2>7, <2>8, <2>9, <2>10, <2>12, Zenon DEF Counted
<1> QED BY <1>8, <1>9

\* A purge takes rows away and adds none.
LEMMA PurgeShrinks ==
  ASSUME RetentionInv, NEW w \in Runners, runner[w].pc = "purging",
         stored' = [stored EXCEPT ![InCategory(w)] = @ \ Deleted(w)]
  PROVE  /\ stored' \in Tables /\ Shrinks
         /\ InCategory(w) \in Names /\ InCategory(w) = Categories[runner[w].at]
         /\ stored'[InCategory(w)] = stored[InCategory(w)] \ runner[w].picked
<1>1. runner[w].at \in 1..3
  BY DEF RetentionInv, RoundInv
<1>2. InCategory(w) \in Names /\ InCategory(w) = Categories[runner[w].at]
  BY <1>1, CategoryTypes DEF InCategory
<1>3. PICK c \in Names : c = InCategory(w)
  BY <1>2
<1>4. stored \in [Names -> SUBSET StoredRows] /\ \A d \in Names : IsFiniteSet(stored[d])
  BY DEF RetentionInv, RoundTypeOK, Tables
<1>5. stored' = [stored EXCEPT ![c] = stored[c] \ runner[w].picked]
  BY <1>3, <1>4 DEF Deleted
<1>6. stored' \in [Names -> SUBSET StoredRows]
  BY <1>4, <1>5
<1>7. \A d \in Names : stored'[d] \subseteq stored[d]
  BY <1>4, <1>5
<1>8. \A d \in Names : IsFiniteSet(stored'[d])
  BY <1>4, <1>7, FS_Subset
<1>9. stored' \in Tables
  BY <1>6, <1>8 DEF Tables
<1>10. Shrinks
  BY <1>7 DEF Shrinks
<1>11. stored'[c] = stored[c] \ runner[w].picked
  BY <1>4, <1>5
<1> QED BY <1>2, <1>3, <1>9, <1>10, <1>11, Zenon

\* A short batch that no other round raced had all the round owed there.
LEMMA PurgeStep ==
  ASSUME RetentionInv, NEW w \in Runners, purge(w)
  PROVE  RetentionInv'
<1>1. PICK r \in Rounds : r = runner[w] /\ RoundInv(r) /\ r.pc = "purging"
  BY DEF RetentionInv, RoundTypeOK, purge
<1>2. PICK c : c = InCategory(w)
  BY Zenon
<1>3. stored' \in Tables /\ Shrinks /\ c \in Names /\ c = Categories[r.at] /\ stored'[c] = stored[c] \ r.picked
  BY <1>1, <1>2, PurgeShrinks DEF purge
<1>4. r.at \in 1..3 /\ r.began <= now /\ now \in Nat /\ now' = now /\ r.began \in Nat
  BY <1>1 DEF RetentionInv, RoundTypeOK, RoundInv, Rounds, purge
<1>5. PICK n : n = Cardinality(Deleted(w))
  BY Zenon
<1>6. IsFiniteSet(r.picked) /\ Cardinality(r.picked) \in Nat /\ Cardinality(r.picked) <= PurgeBatch /\ n \in Nat
  <2>1. IsFiniteSet(r.picked) /\ Cardinality(r.picked) <= PurgeBatch
    BY <1>1 DEF RoundInv
  <2>2. Deleted(w) \subseteq r.picked
    BY <1>1 DEF Deleted
  <2> QED BY <1>5, <2>1, <2>2, FS_Subset, FS_CardinalityType
<1>7. PICK s : s = AfterBatch(w, n)
  BY Zenon
<1>8. Counted(r, s, n)
  BY <1>1, <1>4, <1>6, <1>7, BatchCounted DEF RetentionInv
<1>9. s \in Rounds /\ s.clock = r.clock /\ s.began = r.began /\ s.at \in 1..3 /\ s.pc \in {"asking", "done"}
  BY <1>4, <1>8 DEF Counted
<1>10. \A d : Owed(s, d)' = Owed(r, d)'
  BY <1>9, Zenon DEF Owed
<1>11. RoundInv(r)'
  BY <1>1, <1>3, <1>4, RoundStays DEF RetentionInv
<1>12. ASSUME ~s.raced, n < PurgeBatch PROVE Owed(r, c)' = {}
  <2>1. Cardinality(r.picked) # PurgeBatch
    BY <1>6, <1>8, <1>12, RetentionAssumption DEF Counted
  <2>2. Owed(r, c)' \subseteq r.picked
    BY <1>1, <1>3, <1>11, <2>1 DEF RoundInv
  <2> QED BY <1>3, <2>2 DEF Owed
<1>13. ASSUME ~s.raced, NEW d \in Passed(s) PROVE d \in s.full \/ Owed(s, d)' = {}
  <2>1. d \in Passed(r) \/ d = c
    BY <1>1, <1>3, <1>4, <1>8 DEF Counted, Passed
  <2>2. ~r.raced /\ r.full \subseteq s.full
    BY <1>8, <1>13 DEF Counted
  <2>3. CASE d \in Passed(r)
    <3>1. d \in r.full \/ Owed(r, d)' = {}
      BY <1>1, <1>11, <2>2, <2>3 DEF RoundInv, Passed
    <3> QED BY <1>10, <2>2, <3>1
  <2>4. CASE d = c /\ d \notin Passed(r)
    <3>1. n < PurgeBatch \/ c \in s.full
      BY <1>1, <1>3, <1>8, <1>13, <2>4 DEF Counted, Passed
    <3> QED BY <1>10, <1>12, <1>13, <2>4, <3>1
  <2> QED BY <2>1, <2>3, <2>4
<1>14. RoundInv(s)'
  BY <1>4, <1>9, <1>13 DEF RoundInv, Passed
<1>15. runner' = [runner EXCEPT ![w] = s]
  BY <1>5, <1>7, Zenon DEF purge
<1>16. now' \in Nat /\ now <= now'
  BY <1>4
<1> QED BY <1>3, <1>9, <1>14, <1>15, <1>16, OneRoundMoves, Zenon

\* A call that fails ends the round, which then promises nothing.
LEMMA PurgeFailsStep ==
  ASSUME RetentionInv, NEW w \in Runners, NEW applied \in BOOLEAN, PurgeFails(w, applied)
  PROVE  RetentionInv'
<1>1. now \in Nat /\ stored \in Tables /\ now' = now
  BY DEF RetentionInv, RoundTypeOK, PurgeFails
<1>2. stored' \in Tables /\ Shrinks
  <2>1. CASE applied
    <3>1. runner[w].pc = "purging" /\ stored' = [stored EXCEPT ![InCategory(w)] = @ \ Deleted(w)]
      BY <2>1, Zenon DEF PurgeFails
    <3> QED BY <3>1, PurgeShrinks
  <2>2. CASE ~applied
    BY <1>1, <2>2 DEF PurgeFails, Shrinks
  <2> QED BY <2>1, <2>2
<1> QED BY <1>1, <1>2, RoundFails, Zenon DEF PurgeFails

\* New rows are of today, and time only passes: no round owes more for it.
LEMMA WorldStep ==
  ASSUME RetentionInv, runner' = runner, stored' \in Tables, Shrinks, now' \in Nat, now <= now'
  PROVE  RetentionInv'
<1>1. ASSUME NEW w \in Runners PROVE RoundInv(runner[w])'
  <2>1. PICK r \in Rounds : r = runner[w] /\ RoundInv(r)
    BY DEF RetentionInv, RoundTypeOK
  <2>2. RoundInv(r)'
    BY <2>1, RoundStays DEF RetentionInv
  <2> QED BY <2>1, <2>2, Zenon DEF RoundInv, Passed, Owed
<1> QED BY <1>1, Zenon DEF RetentionInv, RoundTypeOK

\* A row that is inserted is one of the table's rows, of today.
LEMMA InsertStep ==
  ASSUME RetentionInv, NEW c, NEW x, Insert(c, x)
  PROVE  RetentionInv'
<1>1. stored \in [Names -> SUBSET StoredRows] /\ (\A d \in Names : IsFiniteSet(stored[d])) /\ now \in Nat
  BY DEF RetentionInv, RoundTypeOK, Tables
<1>2. x \in StoredRows /\ x.at = now
  BY RetentionAssumption DEF Insert, RowsOf, StoredRows
<1>3. stored' = [stored EXCEPT ![c] = stored[c] \cup {x}] /\ now' = now /\ runner' = runner
  BY DEF Insert
<1>4. stored' \in [Names -> SUBSET StoredRows]
  BY <1>1, <1>2, <1>3
<1>5. \A d \in Names : stored'[d] = stored[d] \/ stored'[d] = stored[d] \cup {x}
  BY <1>1, <1>3
<1>6. \A d \in Names : IsFiniteSet(stored'[d])
  BY <1>1, <1>5, FS_AddElement
<1>7. stored' \in Tables
  BY <1>4, <1>6 DEF Tables
<1>8. Shrinks
  BY <1>1, <1>2, <1>5 DEF Shrinks
<1>9. now' \in Nat /\ now <= now'
  BY <1>1, <1>3
<1> QED BY <1>3, <1>7, <1>8, <1>9, WorldStep, Zenon

\* Every step of the retention job keeps the invariant.
LEMMA RetentionStep ==
  ASSUME RetentionInv, [RetentionNext]_retentionVars
  PROVE  RetentionInv'
<1>0. now \in Nat /\ stored \in Tables
  BY DEF RetentionInv, RoundTypeOK
<1>1. ASSUME NEW w \in Runners, NEW d \in Offsets, run_once(w, d) PROVE RetentionInv'
  BY <1>1, RoundBegins
<1>2. ASSUME NEW w \in Runners, Misconfigured(w) PROVE RetentionInv'
  BY <1>0, <1>2, RoundFails DEF Misconfigured, Shrinks
<1>3. ASSUME NEW w \in Runners, Runs(w) PROVE RetentionInv'
  BY <1>3, PickStep, PurgeStep DEF Runs
<1>4. ASSUME NEW w \in Runners, NEW applied \in BOOLEAN, PurgeFails(w, applied) PROVE RetentionInv'
  BY <1>4, PurgeFailsStep
<1>5. ASSUME NEW c, NEW x, Insert(c, x) PROVE RetentionInv'
  BY <1>5, InsertStep
<1>6. CASE PassTime
  BY <1>0, <1>6, WorldStep DEF PassTime, Shrinks
<1>7. CASE UNCHANGED retentionVars
  BY <1>0, <1>7, WorldStep DEF retentionVars, Shrinks
<1> QED BY <1>1, <1>2, <1>3, <1>4, <1>5, <1>6, <1>7, Zenon DEF RetentionNext

\* The invariant holds of every behaviour of the retention job, whatever the
\* tables hold at first.
THEOREM RetentionInvHolds ==
  ASSUME NEW start \in Nat, NEW population \in Tables
  PROVE  RetentionInit(start, population) /\ [][RetentionNext]_retentionVars => []RetentionInv
<1>1. RetentionInit(start, population) => RetentionInv
  <2>1. SUFFICES ASSUME RetentionInit(start, population) PROVE RetentionInv
    OBVIOUS
  <2>2. NoRound \in Rounds /\ NoRound.pc = "idle"
    BY DEF NoRound, Rounds
  <2>3. \A w \in Runners : runner[w] = NoRound
    BY <2>1 DEF RetentionInit
  <2>4. RoundTypeOK
    BY <2>1, <2>2 DEF RetentionInit, RoundTypeOK
  <2>5. RoundInv(NoRound)
    BY <2>2 DEF RoundInv
  <2> QED BY <2>3, <2>4, <2>5, Zenon DEF RetentionInv
<1> QED BY <1>1, RetentionStep, PTL

\* A round of the retention job that exits with code 0 and was not raced left no
\* row that both clocks had expired when it began, in any category that did not
\* reach its row limit: whatever the clocks, the batch size, the limit, the number
\* of overlapping rounds and the failures among them.
THEOREM SuccessMeansPurgedHolds ==
  ASSUME NEW start \in Nat, NEW population \in Tables
  PROVE  RetentionInit(start, population) /\ [][RetentionNext]_retentionVars => []SuccessMeansPurged
<1>1. ASSUME RetentionInv PROVE SuccessMeansPurged
  <2>1. SUFFICES ASSUME NEW w \in Runners, runner[w].pc = "done", ~runner[w].raced,
                        NEW c \in DOMAIN stored, c \notin runner[w].full
                 PROVE  Owed(runner[w], c) = {}
    BY Zenon DEF SuccessMeansPurged, Owed, Cutoff
  <2>2. c \in Names
    BY <1>1 DEF RetentionInv, RoundTypeOK, Tables
  <2>3. c \in Passed(runner[w])
    BY <2>1, <2>2, CategoryTypes DEF Passed
  <2> QED BY <1>1, <2>1, <2>3, Zenon DEF RetentionInv, RoundInv
<1> QED BY <1>1, RetentionInvHolds, PTL
=============================================================================
