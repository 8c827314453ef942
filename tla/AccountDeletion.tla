--------------------------- MODULE AccountDeletion ---------------------------
(***************************************************************************)
(* The account deletion ledger and its workers.  Each worker runs bounded  *)
(* rounds: claim a job under a lease, purge PostgreSQL, delete the Auth    *)
(* user, finalize.  A worker may die anywhere, and a call whose transport  *)
(* gave up may still take effect later.  The ledger compares timestamps    *)
(* with the database clock only, so a timestamp is kept as the time left   *)
(* until it and Tick moves the clock.                                      *)
(***************************************************************************)
EXTENDS Integers, FiniteSets

CONSTANTS
  Users,         \* Auth users with an account to delete
  Jobs,          \* requests: pairs of a user reference and an operation id
  UserOf,        \* the user a request is about
  Workers,       \* worker ids
  LeaseSeconds,  \* p_lease_seconds
  MaxBatch,      \* max_batch of a round
  MaxAttempts,   \* v_max_attempts, 100 in the code
  BackoffStep,   \* backoff per attempt, 30 s in the code
  BackoffCap,    \* longest backoff, 1 h in the code
  Horizon,       \* age at which a completed job may go, 30 days in the code
  MaxLate,       \* bound: calls given up on and still on their way
  None

ASSUME DeletionAssumption ==
  /\ UserOf \in [Jobs -> Users]
  /\ None \notin Workers \cup Jobs
  /\ {LeaseSeconds, MaxBatch, MaxAttempts, BackoffStep, BackoffCap, Horizon} \subseteq Nat \ {0}
  /\ MaxLate \in Nat

VARIABLES
  jobs,       \* account_deletion_jobs: the row of a request, or None
  authUsers,  \* users known to Supabase Auth
  workers,    \* where each worker stands in its round
  late,       \* calls given up on that may still take effect
  purged      \* history variable: users whose rows a purge has deleted

vars == <<jobs, authUsers, workers, late, purged>>

Statuses == {"pending", "processing", "completed", "failed"}

\* due: time left until next_attempt_at, None if it is NULL; age: since completed_at.
Rows == [status : Statuses, owner : Workers \cup {None}, lease : -1..LeaseSeconds,
         due : (0..BackoffCap) \cup {None}, attempts : 0..MaxAttempts,
         purged : BOOLEAN, age : 0..Horizon + 1]

ASSUME NoRowAssumption == None \notin Rows

Rpcs == {"acquire", "purge", "auth", "retry", "failure", "finalize"}

WorkerStates == [stage : Rpcs \cup {"idle"}, job : Jobs \cup {None}, claimed : 0..MaxBatch]

LateCalls == [rpc : Rpcs, worker : Workers, job : Jobs \cup {None}]

\* Type invariant.
TypeOK ==
  /\ jobs \in [Jobs -> Rows \cup {None}]
  /\ authUsers \in SUBSET Users
  /\ workers \in [Workers -> WorkerStates]
  /\ late \in SUBSET LateCalls
  /\ purged \in SUBSET Users

Idle == [stage |-> "idle", job |-> None, claimed |-> 0]

Init ==
  /\ jobs = [j \in Jobs |-> None]
  /\ authUsers = Users
  /\ workers = [w \in Workers |-> Idle]
  /\ late = {}
  /\ purged = {}

-----------------------------------------------------------------------------
(* The RPCs of the ledger.                                                 *)

NewJob == [status |-> "pending", owner |-> None, lease |-> -1, due |-> 0,
           attempts |-> 0, purged |-> FALSE, age |-> 0]

\* A repeated request is answered from the row and changes nothing.
account_deletion_request(j) ==
  jobs' = [jobs EXCEPT ![j] = IF jobs[j] = None THEN NewJob ELSE @]

\* Mutant: the lease of a dead worker is never recovered.
MutExpired(row) == FALSE

Expired(row) == row.status = "processing" /\ row.lease < 0

Waiting(row) == row.status \in {"pending", "failed"} /\ row.due = 0

Claimable == {j \in Jobs : /\ jobs[j] # None
                           /\ Waiting(jobs[j]) \/ Expired(jobs[j])
                           /\ jobs[j].attempts < MaxAttempts}

Exhausted == {j \in Jobs : /\ jobs[j] # None
                           /\ Expired(jobs[j])
                           /\ jobs[j].attempts >= MaxAttempts}

Released(row, status, due) ==
  [row EXCEPT !.status = status, !.owner = None, !.lease = -1, !.due = due]

Claimed(row, w) ==
  [row EXCEPT !.status = "processing", !.owner = w, !.lease = LeaseSeconds,
              !.attempts = row.attempts + 1]

\* One call claims at most one job.  The scan fails the exhausted jobs it meets
\* before it, those with an earlier next_attempt_at.  Which claimable job comes
\* first is left open: next_attempt_at is not kept once it has passed.
account_deletion_acquire_lease(w, j) ==
  \/ /\ j \in Claimable
     /\ \E met \in SUBSET Exhausted :
          jobs' = [k \in Jobs |-> IF k = j THEN Claimed(jobs[k], w)
                                  ELSE IF k \in met THEN Released(jobs[k], "failed", None)
                                  ELSE jobs[k]]
  \/ /\ j = None
     /\ Claimable = {}
     /\ jobs' = [k \in Jobs |-> IF k \in Exhausted THEN Released(jobs[k], "failed", None)
                                ELSE jobs[k]]

\* Mutant: any worker is taken for the owner.
MutOwns(w, j) ==
  /\ jobs[j] # None
  /\ jobs[j].status = "processing"
  /\ jobs[j].lease > 0

\* account_deletion_assert_owner: the caller's lease is still live.
Owns(w, j) ==
  /\ jobs[j] # None
  /\ jobs[j].status = "processing"
  /\ jobs[j].owner = w
  /\ jobs[j].lease > 0

\* A purge that committed before is answered "already_purged" and deletes nothing.
account_deletion_purge(w, j) ==
  IF Owns(w, j)
  THEN /\ jobs' = [jobs EXCEPT ![j].purged = TRUE]
       /\ purged' = purged \cup {UserOf[j]}
  ELSE UNCHANGED <<jobs, purged>>

Backoff(attempts) ==
  IF BackoffStep * attempts < BackoffCap THEN BackoffStep * attempts ELSE BackoffCap

account_deletion_record_failure(w, j) ==
  LET row == jobs[j]
      due == IF row.attempts >= MaxAttempts THEN None ELSE Backoff(row.attempts)
  IN jobs' = IF Owns(w, j) THEN [jobs EXCEPT ![j] = Released(row, "failed", due)] ELSE jobs

account_deletion_record_retry(w, j) ==
  LET row == jobs[j]
      deferred == IF row.attempts >= MaxAttempts
                  THEN Released(row, "failed", None)
                  ELSE Released(row, "pending", Backoff(row.attempts))
  IN jobs' = IF Owns(w, j) THEN [jobs EXCEPT ![j] = deferred] ELSE jobs

account_deletion_finalize(w, j) ==
  jobs' = IF Owns(w, j) /\ jobs[j].purged
          THEN [jobs EXCEPT ![j] = [Released(@, "completed", @.due) EXCEPT !.age = 0]]
          ELSE jobs

\* delete_user of the Auth admin API; deleting an absent user is a success.
hard_delete(j) == authUsers' = authUsers \ {UserOf[j]}

-----------------------------------------------------------------------------
(* The worker.  An answered call moves it on; a call it gives up on, or    *)
(* that was running when it died, stays in flight.                         *)

Moves(w, stage, j) ==
  workers' = [workers EXCEPT ![w] = [@ EXCEPT !.stage = stage, !.job = j]]

StartRound(w) ==
  /\ workers[w].stage = "idle"
  /\ Moves(w, "acquire", None)
  /\ UNCHANGED <<jobs, authUsers, late, purged>>

\* run_once claims the next job, unless the queue is empty or the round is full.
Acquire(w, j) ==
  /\ workers[w].stage = "acquire"
  /\ workers[w].claimed < MaxBatch
  /\ account_deletion_acquire_lease(w, j)
  /\ workers' = [workers EXCEPT ![w] =
       IF j = None THEN Idle
       ELSE [stage |-> IF jobs[j].purged THEN "auth" ELSE "purge",
             job |-> j, claimed |-> @.claimed + 1]]
  /\ UNCHANGED <<authUsers, late, purged>>

RoundFull(w) ==
  /\ workers[w].stage = "acquire"
  /\ workers[w].claimed = MaxBatch
  /\ workers' = [workers EXCEPT ![w] = Idle]
  /\ UNCHANGED <<jobs, authUsers, late, purged>>

\* A failed purge is not recorded: the lease expires and the job is claimed again.
Purge(w) ==
  LET j == workers[w].job IN
  /\ workers[w].stage = "purge"
  /\ account_deletion_purge(w, j)
  /\ IF Owns(w, j) THEN Moves(w, "auth", j) ELSE Moves(w, "acquire", None)
  /\ UNCHANGED <<authUsers, late>>

AuthDeleted(w) ==
  /\ workers[w].stage = "auth"
  /\ hard_delete(workers[w].job)
  /\ Moves(w, "finalize", workers[w].job)
  /\ UNCHANGED <<jobs, late, purged>>

\* 401, 403 or another structured error: the user is still there.
AuthRefused(w) ==
  /\ workers[w].stage = "auth"
  /\ Moves(w, "failure", workers[w].job)
  /\ UNCHANGED <<jobs, authUsers, late, purged>>

RecordFailure(w) ==
  /\ workers[w].stage = "failure"
  /\ account_deletion_record_failure(w, workers[w].job)
  /\ Moves(w, "acquire", None)
  /\ UNCHANGED <<authUsers, late, purged>>

RecordRetry(w) ==
  /\ workers[w].stage = "retry"
  /\ account_deletion_record_retry(w, workers[w].job)
  /\ Moves(w, "acquire", None)
  /\ UNCHANGED <<authUsers, late, purged>>

Finalize(w) ==
  /\ workers[w].stage = "finalize"
  /\ account_deletion_finalize(w, workers[w].job)
  /\ Moves(w, "acquire", None)
  /\ UNCHANGED <<authUsers, late, purged>>

InFlight(w) == [rpc |-> workers[w].stage, worker |-> w, job |-> workers[w].job]

Leave(w) ==
  /\ workers[w].stage \in Rpcs
  /\ late' = late \cup {InFlight(w)}
  /\ Cardinality(late') <= MaxLate

\* Mutant: an Auth call without an answer counts as a deletion.
MutGiveUp(w) ==
  /\ Leave(w)
  /\ CASE workers[w].stage = "acquire" -> workers' = [workers EXCEPT ![w] = Idle]
       [] workers[w].stage = "auth" -> Moves(w, "finalize", workers[w].job)
       [] OTHER -> Moves(w, "acquire", None)
  /\ UNCHANGED <<jobs, authUsers, purged>>

\* No answer: the round ends at a claim, an Auth delete is deferred, and any
\* other call is given up on and the round goes on with the next job.
GiveUp(w) ==
  /\ Leave(w)
  /\ CASE workers[w].stage = "acquire" -> workers' = [workers EXCEPT ![w] = Idle]
       [] workers[w].stage = "auth" -> Moves(w, "retry", workers[w].job)
       [] OTHER -> Moves(w, "acquire", None)
  /\ UNCHANGED <<jobs, authUsers, purged>>

Crash(w) ==
  /\ Leave(w)
  /\ workers' = [workers EXCEPT ![w] = Idle]
  /\ UNCHANGED <<jobs, authUsers, purged>>

-----------------------------------------------------------------------------
\* A call nobody waits for any more takes effect.
LateEffect(call) ==
  /\ late' = late \ {call}
  /\ \/ /\ call.rpc = "acquire"
        /\ \E j \in Jobs \cup {None} : account_deletion_acquire_lease(call.worker, j)
        /\ UNCHANGED <<authUsers, purged>>
     \/ /\ call.rpc = "purge"
        /\ account_deletion_purge(call.worker, call.job)
        /\ UNCHANGED authUsers
     \/ /\ call.rpc = "auth"
        /\ hard_delete(call.job)
        /\ UNCHANGED <<jobs, purged>>
     \/ /\ call.rpc = "failure"
        /\ account_deletion_record_failure(call.worker, call.job)
        /\ UNCHANGED <<authUsers, purged>>
     \/ /\ call.rpc = "retry"
        /\ account_deletion_record_retry(call.worker, call.job)
        /\ UNCHANGED <<authUsers, purged>>
     \/ /\ call.rpc = "finalize"
        /\ account_deletion_finalize(call.worker, call.job)
        /\ UNCHANGED <<authUsers, purged>>
  /\ UNCHANGED workers

LateLost(call) ==
  /\ late' = late \ {call}
  /\ UNCHANGED <<jobs, authUsers, workers, purged>>

Request(j) ==
  /\ account_deletion_request(j)
  /\ UNCHANGED <<authUsers, workers, late, purged>>

\* Nobody works on a job for as long as the horizon.
InUse(j) == (\E w \in Workers : workers[w].job = j) \/ (\E call \in late : call.job = j)

\* Retention removes a completed job once it is older than the horizon.
account_deletion_purge_completed(j) ==
  /\ jobs[j] # None
  /\ jobs[j].status = "completed"
  /\ jobs[j].age > Horizon
  /\ ~InUse(j)
  /\ jobs' = [jobs EXCEPT ![j] = None]
  /\ UNCHANGED <<authUsers, workers, late, purged>>

Older(row) ==
  [row EXCEPT !.lease = IF @ >= 0 THEN @ - 1 ELSE @,
              !.due = IF @ = None \/ @ = 0 THEN @ ELSE @ - 1,
              !.age = IF row.status = "completed" /\ @ <= Horizon THEN @ + 1 ELSE @]

Tick ==
  /\ jobs' = [j \in Jobs |-> IF jobs[j] = None THEN None ELSE Older(jobs[j])]
  /\ UNCHANGED <<authUsers, workers, late, purged>>

-----------------------------------------------------------------------------
Answered(w) ==
  \/ RoundFull(w) \/ Purge(w) \/ AuthDeleted(w) \/ AuthRefused(w)
  \/ RecordFailure(w) \/ RecordRetry(w) \/ Finalize(w)

Acquires(w) == \E j \in Jobs \cup {None} : Acquire(w, j)

Next ==
  \/ \E w \in Workers :
       StartRound(w) \/ Acquires(w) \/ Answered(w) \/ GiveUp(w) \/ Crash(w)
  \/ \E call \in late : LateEffect(call) \/ LateLost(call)
  \/ \E j \in Jobs : Request(j) \/ account_deletion_purge_completed(j)
  \/ Tick

Spec == Init /\ [][Next]_vars

\* The clock moves, rounds keep being started, each call returns or times
\* out, and rounds that keep being started keep reaching the database.
Fairness ==
  /\ WF_vars(Tick)
  /\ \A w \in Workers :
       /\ WF_vars(StartRound(w))
       /\ WF_vars(Answered(w) \/ GiveUp(w) \/ Crash(w))
       /\ SF_vars(Acquires(w))

FairSpec == Spec /\ Fairness

-----------------------------------------------------------------------------
(* Properties.                                                             *)

\* A job is reported completed only when its user's rows have been purged
\* and the Auth user is gone, whichever workers and late calls took part.
CompletedMeansDeleted ==
  \A j \in Jobs : (jobs[j] # None /\ jobs[j].status = "completed") =>
    UserOf[j] \in purged /\ UserOf[j] \notin authUsers

\* PostgreSQL first: the Auth user is never deleted before the purge of the
\* user's rows has committed, so no row is left without an account.
PurgedBeforeAuth == Users \ authUsers \subseteq purged

\* While a lease is live, the row changes only through a call of its owner,
\* made now or earlier; a worker that lost the lease changes nothing.
SameRow(new, old) ==
  /\ new # None
  /\ new.status = old.status /\ new.owner = old.owner
  /\ new.attempts = old.attempts /\ new.purged = old.purged

OnlyTheOwnerActs ==
  [][ \A j \in Jobs : (/\ jobs[j] # None
                       /\ jobs[j].status = "processing"
                       /\ jobs[j].lease > 0
                       /\ ~SameRow(jobs'[j], jobs[j])) =>
        \/ workers'[jobs[j].owner] # workers[jobs[j].owner]
        \/ \E call \in late \ late' : call.worker = jobs[j].owner ]_vars

\* Every requested deletion is settled: completed, or failed for good at the
\* attempts ceiling; it never stays pending, failed with a retry or claimed.
Settled(j) ==
  \/ jobs[j] = None
  \/ jobs[j].status = "completed"
  \/ jobs[j].status = "failed" /\ jobs[j].due = None

EveryJobSettles == \A j \in Jobs : (jobs[j] # None) ~> Settled(j)
=============================================================================
