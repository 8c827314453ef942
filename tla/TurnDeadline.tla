---------------------------- MODULE TurnDeadline -----------------------------
(***************************************************************************)
(* The time budget of the turns of one user, and what cancellation does to *)
(* a turn at each of its stages.  Waits (the lock, the reads, the provider *)
(* attempts) are bounded by what is left before the commit reserve; writes *)
(* (the admission and the commit) are never abandoned: a cancellation is   *)
(* noted, the worker thread is drained, and only then does the turn end.   *)
(* Time is discrete.  A timer fires, and a finished worker's coroutine     *)
(* resumes, before the clock moves on.  A write has no time limit of its   *)
(* own: it is meant to take at most the timeout of its transport, and may  *)
(* overrun it.  A read that times out leaves a thread behind that changes  *)
(* nothing, and is not followed any further.                               *)
(***************************************************************************)
EXTENDS Integers

CONSTANTS
  Turns,            \* calls of POST /chat for one user in one process
  TotalDeadline,    \* total_deadline
  Reserve,          \* commit_reserve
  SupabaseTimeout,  \* supabase_timeout
  ProviderTimeout,  \* provider_attempt_timeout
  MaxBackoff,       \* max_backoff
  MaxAttempts,      \* max_attempts
  LastArrival,      \* bound on the time of the last arrival
  MaxOverrun,       \* bound on the time a write takes beyond supabase_timeout
  None

\* What TurnExecutionConfig enforces on construction.
ASSUME ConfigAssumption ==
  /\ TotalDeadline \in Nat \ {0}
  /\ Reserve \in Nat \ {0}
  /\ SupabaseTimeout \in Nat \ {0}
  /\ ProviderTimeout \in Nat \ {0}
  /\ MaxBackoff \in Nat \ {0}
  /\ MaxAttempts \in Nat \ {0}
  /\ LastArrival \in Nat
  /\ MaxOverrun \in Nat
  /\ ProviderTimeout < TotalDeadline
  /\ Reserve >= 2 * SupabaseTimeout
  /\ Reserve < TotalDeadline
  /\ None \notin Turns

MAX_COMMIT_ATTEMPTS == 2

VARIABLES
  clock,
  overran,    \* history variable: a write of the turn took longer than its timeout
  step,       \* the stage of each turn
  deadline,   \* TurnBudget.deadline
  due,        \* when the timeout of the current wait or write is over
  replaying,  \* TurnMode.replay_attempt
  attempt,    \* commit attempts made
  tries,      \* provider attempts made by the current completion
  worker,     \* the thread of a write: none, running, or how it ended
  cancelled,  \* a CancelledError was noted while a write was drained
  outcome,    \* how the turn ended
  lock        \* the turn that holds the user's lock

vars == <<clock, overran, step, deadline, due, replaying, attempt, tries, worker,
          cancelled, outcome, lock>>

Reads == {"load_state", "load_context", "replay"}
Completions == {"appraisal", "generation"}
Writes == {"admission", "commit"}
Steps == Reads \cup Completions \cup Writes \cup {"idle", "lock", "done"}

AdmissionEnds == {"admitted", "replay", "rejected", "failed"}
CommitEnds == {"committed", "revision_mismatch", "conflict", "failed"}
Outcomes == {"completed", "rejected", "turn_timeout", "unavailable", "conflict",
             "cancelled"}

Init ==
  /\ clock = 0
  /\ overran = [t \in Turns |-> FALSE]
  /\ step = [t \in Turns |-> "idle"]
  /\ deadline = [t \in Turns |-> 0]
  /\ due = [t \in Turns |-> 0]
  /\ replaying = [t \in Turns |-> FALSE]
  /\ attempt = [t \in Turns |-> 1]
  /\ tries = [t \in Turns |-> 0]
  /\ worker = [t \in Turns |-> "none"]
  /\ cancelled = [t \in Turns |-> FALSE]
  /\ outcome = [t \in Turns |-> None]
  /\ lock = None

Least(a, b) == IF a <= b THEN a ELSE b

\* remaining_before_reserve, not capped at zero.
BeforeReserve(t) == deadline[t] - Reserve - clock

\* Mutant: every turn may wait for the lock for the same time.
MutLockLimit(t) == TotalDeadline

\* The timeout of the wait for the lock.
LockLimit(t) == IF BeforeReserve(t) > 0 THEN BeforeReserve(t) ELSE 0

\* The timeout of run_blocking_read.
ReadLimit(t) == Least(BeforeReserve(t), SupabaseTimeout)

\* compute_effective_attempt_timeout, with the backoff slept before a retry.
AttemptLimit(t, pause) == Least(BeforeReserve(t), ProviderTimeout + pause)

-----------------------------------------------------------------------------

\* The turn ends; the finally block releases the lock if it was taken.
Leave(t, result) ==
  /\ step' = [step EXCEPT ![t] = "done"]
  /\ outcome' = [outcome EXCEPT ![t] = result]
  /\ worker' = [worker EXCEPT ![t] = "none"]
  /\ lock' = IF lock = t THEN None ELSE lock
  /\ UNCHANGED <<clock, overran, deadline, due, replaying, attempt, tries, cancelled>>

\* The turn starts to wait for limit at stage s.
Await(t, s, limit) ==
  /\ step' = [step EXCEPT ![t] = s]
  /\ due' = [due EXCEPT ![t] = clock + limit]

StartRead(t, s) ==
  IF BeforeReserve(t) <= 0
  THEN Leave(t, "turn_timeout")
  ELSE /\ Await(t, s, ReadLimit(t))
       /\ UNCHANGED <<clock, overran, deadline, replaying, attempt, tries, worker,
                      cancelled, outcome, lock>>

StartCompletion(t, s) ==
  IF BeforeReserve(t) <= 0
  THEN Leave(t, "unavailable")
  ELSE /\ Await(t, s, AttemptLimit(t, 0))
       /\ tries' = [tries EXCEPT ![t] = 1]
       /\ UNCHANGED <<clock, overran, deadline, replaying, attempt, worker, cancelled,
                      outcome, lock>>

\* run_blocking_write of the commit.
StartCommit(t) ==
  IF deadline[t] - clock <= 0
  THEN Leave(t, "turn_timeout")
  ELSE /\ Await(t, "commit", SupabaseTimeout)
       /\ worker' = [worker EXCEPT ![t] = "running"]
       /\ UNCHANGED <<clock, overran, deadline, replaying, attempt, tries, cancelled,
                      outcome, lock>>

\* The budget is created and the admission is written.
Arrive(t) ==
  /\ step[t] = "idle"
  /\ clock <= LastArrival
  /\ deadline' = [deadline EXCEPT ![t] = clock + TotalDeadline]
  /\ Await(t, "admission", SupabaseTimeout)
  /\ worker' = [worker EXCEPT ![t] = "running"]
  /\ UNCHANGED <<clock, overran, replaying, attempt, tries, cancelled, outcome, lock>>

WorkerEnds(t) ==
  /\ worker[t] = "running"
  /\ \E end \in IF step[t] = "admission" THEN AdmissionEnds ELSE CommitEnds :
       worker' = [worker EXCEPT ![t] = end]
  /\ UNCHANGED <<clock, overran, step, deadline, due, replaying, attempt, tries,
                 cancelled, outcome, lock>>

Drained(t, s) == step[t] = s /\ worker[t] \notin {"none", "running"}

\* The decision allows the turn to run or to be replayed, under the lock.
AdmissionReturns(t) ==
  /\ Drained(t, "admission")
  /\ ~cancelled[t]
  /\ worker[t] \in {"admitted", "replay"}
  /\ replaying' = [replaying EXCEPT ![t] = worker[t] = "replay"]
  /\ Await(t, "lock", LockLimit(t))
  /\ worker' = [worker EXCEPT ![t] = "none"]
  /\ UNCHANGED <<clock, overran, deadline, attempt, tries, cancelled, outcome, lock>>

AdmissionRefused(t) ==
  /\ Drained(t, "admission")
  /\ ~cancelled[t]
  /\ worker[t] \in {"rejected", "failed"}
  /\ Leave(t, IF worker[t] = "rejected" THEN "rejected" ELSE "unavailable")

LockGranted(t) ==
  /\ step[t] = "lock"
  /\ lock = None
  /\ clock < due[t]
  /\ lock' = t
  /\ Await(t, IF replaying[t] THEN "replay" ELSE "load_state", ReadLimit(t))
  /\ UNCHANGED <<clock, overran, deadline, replaying, attempt, tries, worker, cancelled, outcome>>

\* wait_for gives up on the lock or on a read.
TimesOut(t) ==
  /\ step[t] \in Reads \cup {"lock"}
  /\ clock >= due[t]
  /\ Leave(t, "turn_timeout")

ReadReturns(t) ==
  \/ step[t] = "load_state" /\ StartRead(t, "load_context")
  \/ step[t] = "load_context" /\ StartCompletion(t, "appraisal")
  \/ /\ step[t] = "replay"
     /\ \E result \in {"completed", "conflict"} : Leave(t, result)

ReadFails(t) ==
  /\ step[t] \in Reads
  /\ Leave(t, "unavailable")

ProviderAnswers(t) ==
  \/ step[t] = "appraisal" /\ StartCompletion(t, "generation")
  \/ step[t] = "generation" /\ StartCommit(t)

\* An attempt fails or times out: another one, within the budget, or the end.
AttemptFails(t) ==
  /\ step[t] \in Completions
  /\ IF tries[t] < MaxAttempts /\ BeforeReserve(t) > 0
     THEN /\ Await(t, step[t], AttemptLimit(t, MaxBackoff))
          /\ tries' = [tries EXCEPT ![t] = @ + 1]
          /\ UNCHANGED <<clock, overran, deadline, replaying, attempt, worker, cancelled,
                         outcome, lock>>
     ELSE Leave(t, "unavailable")

CommitReturns(t) ==
  /\ Drained(t, "commit")
  /\ ~cancelled[t]
  /\ worker[t] \in {"committed", "conflict", "failed"}
  /\ Leave(t, CASE worker[t] = "committed" -> "completed"
                [] worker[t] = "conflict" -> "conflict"
                [] worker[t] = "failed" -> "unavailable")

\* One retry, from the load on, if there is time before the reserve.
RetryTurn(t) ==
  /\ Drained(t, "commit")
  /\ ~cancelled[t]
  /\ worker[t] = "revision_mismatch"
  /\ IF attempt[t] >= MAX_COMMIT_ATTEMPTS
     THEN Leave(t, "conflict")
     ELSE IF BeforeReserve(t) <= 0
     THEN Leave(t, "turn_timeout")
     ELSE /\ attempt' = [attempt EXCEPT ![t] = @ + 1]
          /\ Await(t, "load_state", ReadLimit(t))
          /\ worker' = [worker EXCEPT ![t] = "none"]
          /\ UNCHANGED <<clock, overran, deadline, replaying, tries, cancelled, outcome, lock>>

\* Mutant: a cancellation leaves the write to its thread.
MutCancel(t) ==
  /\ step[t] \notin {"idle", "done"}
  /\ step' = [step EXCEPT ![t] = "done"]
  /\ outcome' = [outcome EXCEPT ![t] = "cancelled"]
  /\ lock' = IF lock = t THEN None ELSE lock
  /\ UNCHANGED <<clock, overran, deadline, due, replaying, attempt, tries, worker, cancelled>>

\* CancelledError ends a wait at once; during a write it is only noted.
Cancel(t) ==
  /\ step[t] \notin {"idle", "done"}
  /\ IF step[t] \in Writes
     THEN /\ cancelled' = [cancelled EXCEPT ![t] = TRUE]
          /\ UNCHANGED <<clock, overran, step, deadline, due, replaying, attempt, tries,
                         worker, outcome, lock>>
     ELSE Leave(t, "cancelled")

\* The drained write propagates the cancellation, whatever the worker did.
CancelPropagates(t) ==
  /\ \E s \in Writes : Drained(t, s)
  /\ cancelled[t]
  /\ Leave(t, "cancelled")

\* What happens before the clock moves on.
Urgent(t) ==
  /\ step[t] \notin {"idle", "done"}
  /\ \/ worker[t] = "none" /\ clock >= due[t]
     \/ worker[t] = "running" /\ clock >= due[t] + MaxOverrun
     \/ worker[t] \notin {"none", "running"}

\* Time matters while a turn runs or may still arrive.
Tick ==
  /\ clock < LastArrival \/ \E t \in Turns : step[t] \notin {"idle", "done"}
  /\ \A t \in Turns : ~Urgent(t)
  /\ clock' = clock + 1
  /\ overran' = [t \in Turns |-> overran[t] \/ (worker[t] = "running" /\ clock >= due[t])]
  /\ UNCHANGED <<step, deadline, due, replaying, attempt, tries, worker,
                 cancelled, outcome, lock>>

\* No turn is left.
Rest ==
  /\ \A t \in Turns : step[t] \in {"idle", "done"}
  /\ UNCHANGED vars

TurnStep(t) ==
  \/ Arrive(t)
  \/ WorkerEnds(t)
  \/ AdmissionReturns(t)
  \/ AdmissionRefused(t)
  \/ LockGranted(t)
  \/ TimesOut(t)
  \/ ReadReturns(t)
  \/ ReadFails(t)
  \/ ProviderAnswers(t)
  \/ AttemptFails(t)
  \/ CommitReturns(t)
  \/ RetryTurn(t)
  \/ Cancel(t)
  \/ CancelPropagates(t)

Next == Tick \/ Rest \/ \E t \in Turns : TurnStep(t)

Spec == Init /\ [][Next]_vars

-----------------------------------------------------------------------------
(* Properties.                                                             *)

Live(t) == step[t] \notin {"idle", "done"}

\* Type invariant.
TypeOK ==
  /\ clock \in Nat
  /\ overran \in [Turns -> BOOLEAN]
  /\ step \in [Turns -> Steps]
  /\ deadline \in [Turns -> Nat]
  /\ due \in [Turns -> Nat]
  /\ replaying \in [Turns -> BOOLEAN]
  /\ attempt \in [Turns -> 1..MAX_COMMIT_ATTEMPTS]
  /\ tries \in [Turns -> 0..MaxAttempts]
  /\ worker \in [Turns -> {"none", "running"} \cup AdmissionEnds \cup CommitEnds]
  /\ cancelled \in [Turns -> BOOLEAN]
  /\ outcome \in [Turns -> Outcomes \cup {None}]
  /\ lock \in Turns \cup {None}

\* A turn is over by its deadline, with its provider attempts, its retry after a
\* revision mismatch and the drain of a cancelled write, unless one of its writes
\* takes longer than the timeout of its transport; and then nothing but a write
\* that is running keeps the turn, and with it the lock, beyond the deadline.
EndsByDeadline ==
  [][\A t \in Turns :
       (Live(t) /\ clock' > clock /\ clock' > deadline[t]) =>
         worker[t] = "running" /\ overran'[t]]_vars

\* A commit begins with the whole reserve left, however slow the lock, the
\* reads and the provider were.
CommitKeepsReserve ==
  [][\A t \in Turns :
       (step[t] # "commit" /\ step'[t] = "commit") => deadline[t] - clock >= Reserve]_vars

\* A turn never ends, by timeout, failure or cancellation, with one of its
\* writes still running.
NoAbandonedWrite == \A t \in Turns : worker[t] = "running" => step[t] \in Writes

\* The commit of a turn runs under the user's lock to its end, so two turns of
\* a user never write at the same time, even when one of them is cancelled.
CommitsHoldTheLock ==
  \A t \in Turns : (worker[t] = "running" /\ step[t] # "admission") => lock = t

\* A cancellation noted while a write is drained is what the turn ends with,
\* whatever the write did.
CancellationWins ==
  \A t \in Turns : (cancelled[t] /\ step[t] = "done") => outcome[t] = "cancelled"

=============================================================================
