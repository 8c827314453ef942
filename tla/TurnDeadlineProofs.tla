------------------------- MODULE TurnDeadlineProofs --------------------------
(***************************************************************************)
(* The time budget holds for any number of turns and every configuration   *)
(* that TurnExecutionConfig accepts.  The inductive invariant says, for    *)
(* each stage, how late its timeout may end: the stages before the commit  *)
(* by the start of the reserve, a commit one transport timeout later.  The *)
(* clock does not overtake a wait, whose timer fires before it moves on,   *)
(* and overtakes a write only where the write has overrun.                 *)
(* At the end, the keys that the completions of a turn share.              *)
(***************************************************************************)
EXTENDS TurnDeadline, GroqManager, FiniteSetTheorems, TLAPS

\* Each leaf is tried with the defaults first and then given more time.
USE SMT, Zenon, Z3T(60), ZenonT(30), SMTT(60), Z3T(90)

\* The stages that run under the lock.
Held == Reads \cup Completions \cup {"commit"}

\* The timing of one turn.
Timing(t) ==
  /\ step[t] = "admission" => due[t] <= deadline[t]
  /\ step[t] = "lock" => due[t] <= deadline[t] - Reserve \/ due[t] <= clock
  /\ step[t] \in Reads \cup Completions => clock <= due[t] /\ due[t] <= deadline[t] - Reserve
  /\ step[t] = "commit" => due[t] <= deadline[t] - Reserve + SupabaseTimeout

\* The write, the lock and the cancellation of one turn.
Writing(t) ==
  /\ step[t] \in Writes <=> worker[t] # "none"
  /\ step[t] = "admission" => worker[t] \in AdmissionEnds \cup {"running"}
  /\ step[t] = "commit" => worker[t] \in CommitEnds \cup {"running"}
  /\ step[t] \in Held => lock = t
  /\ cancelled[t] => step[t] \in Writes \cup {"done"}
  /\ (cancelled[t] /\ step[t] = "done") => outcome[t] = "cancelled"

Inv == TypeOK /\ \A t \in Turns : Timing(t) /\ Writing(t)

\* Ending a turn, which releases its lock, keeps the invariant.
LEMMA Leaves ==
  ASSUME Inv, NEW t \in Turns, Live(t), NEW result \in Outcomes, Leave(t, result),
         cancelled[t] => result = "cancelled"
  PROVE  Inv'
<1>1. ASSUME NEW u \in Turns PROVE Timing(u)'
  BY DEF Inv, TypeOK, Leave, Timing, Live, Steps, Reads, Completions, Writes
<1>2. ASSUME NEW u \in Turns PROVE Writing(u)'
  BY DEF Inv, TypeOK, Leave, Writing, Live, Steps, Held, Reads, Completions, Writes
<1> QED BY <1>1, <1>2 DEF Inv, TypeOK, Leave, Steps

\* A step of one turn that keeps the clock and takes no lock from another turn
\* keeps the invariant of every other turn.
LEMMA Others ==
  ASSUME Inv, NEW u \in Turns, clock' = clock, lock' = lock \/ lock \notin Turns,
         step'[u] = step[u], due'[u] = due[u], deadline'[u] = deadline[u],
         worker'[u] = worker[u], cancelled'[u] = cancelled[u], outcome'[u] = outcome[u]
  PROVE  Timing(u)' /\ Writing(u)'
<1> QED BY DEF Inv, Writing, Timing, Live

\* Starting a wait before the reserve: its stage, its due time and its lock.
LEMMA Waits ==
  ASSUME Inv, NEW t \in Turns, Live(t),
         NEW s \in Reads \cup Completions \cup {"lock"}, NEW limit \in Nat, Await(t, s, limit),
         worker' = [worker EXCEPT ![t] = "none"], ~cancelled[t],
         UNCHANGED <<clock, overran, deadline, cancelled, outcome>>,
         TypeOK', lock' = lock \/ lock \notin Turns, s # "lock" => lock' = t,
         \/ clock + limit <= deadline[t] - Reserve
         \/ s = "lock" /\ limit = 0
  PROVE  Inv'
<1>1. step'[t] = s /\ due'[t] = clock + limit /\ worker'[t] = "none"
  BY DEF Inv, TypeOK, Await
<1>2. clock \in Nat /\ deadline[t] \in Nat /\ Reserve \in Nat
  BY ConfigAssumption DEF Inv, TypeOK
<1>3. Timing(t)'
  BY <1>1, <1>2 DEF Timing, Live, Reads, Completions
<1>4. Writing(t)'
  BY <1>1 DEF Writing, Held, Reads, Completions, Writes
<1>5. ASSUME NEW u \in Turns, u # t PROVE Timing(u)' /\ Writing(u)'
  <2>1. /\ step'[u] = step[u] /\ due'[u] = due[u] /\ deadline'[u] = deadline[u]
        /\ worker'[u] = worker[u] /\ cancelled'[u] = cancelled[u] /\ outcome'[u] = outcome[u]
    BY <1>5 DEF Inv, TypeOK, Await
  <2> QED BY <2>1, Others
<1> QED BY <1>3, <1>4, <1>5 DEF Inv

\* Each action of a turn keeps the invariant.
LEMMA ArriveStep == ASSUME Inv, NEW t \in Turns, Arrive(t) PROVE Inv'
<1> USE ConfigAssumption
<1>1. /\ step'[t] = "admission" /\ due'[t] = clock + SupabaseTimeout
      /\ worker'[t] = "running" /\ deadline'[t] = clock + TotalDeadline
      /\ clock' = clock /\ lock' = lock /\ ~cancelled'[t]
  BY DEF Inv, TypeOK, Arrive, Await, Writing, Writes
<1>2. TypeOK'
  BY DEF Inv, TypeOK, Arrive, Await, Steps, Writes
<1>3. Timing(t)'
  BY <1>1 DEF Inv, TypeOK, Timing, Live, Reads, Completions
<1>4. Writing(t)'
  BY <1>1 DEF Writing, Held, Reads, Completions, Writes
<1>5. ASSUME NEW u \in Turns, u # t PROVE Timing(u)' /\ Writing(u)'
  <2>1. /\ step'[u] = step[u] /\ due'[u] = due[u] /\ deadline'[u] = deadline[u]
        /\ worker'[u] = worker[u] /\ cancelled'[u] = cancelled[u] /\ outcome'[u] = outcome[u]
    BY <1>5 DEF Inv, TypeOK, Arrive, Await
  <2> QED BY <1>1, <2>1, Others
<1> QED BY <1>2, <1>3, <1>4, <1>5 DEF Inv

\* A worker thread that ends frees what waits for it.
LEMMA WorkerStep == ASSUME Inv, NEW t \in Turns, WorkerEnds(t) PROVE Inv'
<1>1. step[t] \in Writes
  BY DEF Inv, Writing, WorkerEnds
<1>2. PICK end \in IF step[t] = "admission" THEN AdmissionEnds ELSE CommitEnds :
        worker' = [worker EXCEPT ![t] = end]
  BY Zenon DEF WorkerEnds
<1>3. worker'[t] = end /\ end # "none"
  BY <1>2 DEF Inv, TypeOK, AdmissionEnds, CommitEnds
<1>4. Timing(t)' /\ Writing(t)'
  BY <1>1, <1>2, <1>3 DEF Inv, WorkerEnds, Timing, Writing, Live, Writes
<1>5. ASSUME NEW u \in Turns, u # t PROVE Timing(u)' /\ Writing(u)'
  <2>1. worker'[u] = worker[u]
    BY <1>2, <1>5 DEF Inv, TypeOK
  <2> QED BY <2>1, Others DEF WorkerEnds
<1> QED BY <1>2, <1>4, <1>5 DEF Inv, TypeOK, WorkerEnds

\* A turn that is admitted, or refused, does not hold the lock yet.
LEMMA AdmissionStep ==
  ASSUME Inv, NEW t \in Turns, AdmissionReturns(t) \/ AdmissionRefused(t)
  PROVE  Inv'
<1> USE ConfigAssumption
<1>1. Live(t) /\ ~cancelled[t] /\ clock \in Nat /\ deadline[t] \in Nat
  BY DEF Inv, TypeOK, AdmissionReturns, AdmissionRefused, Drained, Live
<1>2. CASE AdmissionReturns(t)
  <2> DEFINE limit == LockLimit(t)
  <2>1. /\ limit \in Nat
        /\ \/ clock + limit <= deadline[t] - Reserve
           \/ limit = 0
    BY <1>1 DEF LockLimit, BeforeReserve
  <2>2. Await(t, "lock", limit)
    BY <1>2 DEF AdmissionReturns
  <2>3. TypeOK'
    <3> HIDE DEF limit
    <3>1. step' \in [Turns -> Steps] /\ due' \in [Turns -> Nat]
      BY <1>1, <2>1, <2>2 DEF Inv, TypeOK, Await, Steps
    <3>2. replaying' \in [Turns -> BOOLEAN]
      BY <1>2 DEF Inv, TypeOK, AdmissionReturns
    <3> QED BY <1>2, <3>1, <3>2 DEF Inv, TypeOK, AdmissionReturns
  <2>4. /\ worker' = [worker EXCEPT ![t] = "none"]
        /\ UNCHANGED <<clock, overran, deadline, cancelled, outcome>> /\ lock' = lock
    BY <1>2 DEF AdmissionReturns
  <2> HIDE DEF limit
  <2> QED BY Zenon, <1>1, <2>1, <2>2, <2>3, <2>4, Waits
<1>3. CASE AdmissionRefused(t)
  <2>1. PICK result \in Outcomes : Leave(t, result)
    BY <1>3 DEF AdmissionRefused, Outcomes
  <2> QED BY <1>1, <2>1, Leaves
<1> QED BY <1>2, <1>3

\* Starting a read or an attempt before the reserve keeps the invariant.
LEMMA StageStep ==
  ASSUME Inv, NEW t \in Turns, ~cancelled[t], Live(t),
         NEW s \in Reads \cup Completions, NEW limit \in Nat,
         clock + limit <= deadline[t] - Reserve, Await(t, s, limit),
         worker' = [worker EXCEPT ![t] = "none"],
         tries' \in [Turns -> 0..MaxAttempts],
         attempt' \in [Turns -> 1..MAX_COMMIT_ATTEMPTS],
         UNCHANGED <<clock, overran, deadline, replaying, cancelled, outcome>>,
         lock' = t, lock = t \/ lock \notin Turns
  PROVE  Inv'
<1>1. step' \in [Turns -> Steps] /\ due' \in [Turns -> Nat]
  BY DEF Inv, TypeOK, Await, Steps
<1>2. TypeOK'
  BY Zenon, <1>1 DEF Inv, TypeOK
<1>3. lock' = lock \/ lock \notin Turns
  OBVIOUS
<1> QED BY Zenon, <1>2, <1>3, Waits

\* No read and no attempt is given time out of the commit reserve.
LEMMA LimitBounds ==
  ASSUME Inv, NEW t \in Turns, BeforeReserve(t) > 0, NEW pause \in Nat
  PROVE  /\ ReadLimit(t) \in Nat /\ clock + ReadLimit(t) <= deadline[t] - Reserve
         /\ AttemptLimit(t, pause) \in Nat
         /\ clock + AttemptLimit(t, pause) <= deadline[t] - Reserve
  BY ConfigAssumption DEF Inv, TypeOK, BeforeReserve, ReadLimit, AttemptLimit, Least

\* A turn granted the lock has time left before the reserve.
LEMMA LockStep == ASSUME Inv, NEW t \in Turns, LockGranted(t) PROVE Inv'
<1> USE ConfigAssumption
<1> DEFINE s == IF replaying[t] THEN "replay" ELSE "load_state"
<1>1. Live(t) /\ ~cancelled[t] /\ worker[t] = "none"
  BY DEF Inv, Writing, LockGranted, Live, Writes
<1>2. BeforeReserve(t) > 0
  BY DEF Inv, TypeOK, Timing, LockGranted, BeforeReserve
<1>3. worker' = [worker EXCEPT ![t] = "none"]
  BY <1>1 DEF Inv, TypeOK, LockGranted
<1>4. ReadLimit(t) \in Nat /\ clock + ReadLimit(t) <= deadline[t] - Reserve
  BY <1>2, LimitBounds
<1>5. s \in Reads \cup Completions /\ Await(t, s, ReadLimit(t))
  BY DEF LockGranted, Reads
<1>6. /\ tries' \in [Turns -> 0..MaxAttempts]
      /\ attempt' \in [Turns -> 1..MAX_COMMIT_ATTEMPTS]
      /\ UNCHANGED <<clock, overran, deadline, replaying, cancelled, outcome>>
      /\ lock' = t /\ lock \notin Turns
  BY DEF Inv, TypeOK, LockGranted
<1> HIDE DEF s
<1> QED BY Zenon, <1>1, <1>3, <1>4, <1>5, <1>6, StageStep

\* A turn in a read or a completion holds the lock and is not cancelled.
LEMMA Waiting ==
  ASSUME Inv, NEW t \in Turns, step[t] \in Reads \cup Completions \cup {"lock"}
  PROVE  /\ Live(t) /\ ~cancelled[t]
         /\ [worker EXCEPT ![t] = "none"] = worker
         /\ step[t] # "lock" => lock = t
<1>1. worker[t] = "none" /\ worker \in [Turns -> {"none", "running"} \cup AdmissionEnds \cup CommitEnds]
  BY DEF Inv, TypeOK, Writing, Reads, Completions, Writes
<1> QED BY <1>1 DEF Inv, Writing, Live, Held, Reads, Completions, Writes

\* A turn that times out or fails to read ends at once.
LEMMA TimeoutStep ==
  ASSUME Inv, NEW t \in Turns, TimesOut(t) \/ ReadFails(t)
  PROVE  Inv'
<1>1. PICK result \in Outcomes : Leave(t, result)
  BY DEF TimesOut, ReadFails, Outcomes
<1> QED BY Waiting, <1>1, Leaves DEF TimesOut, ReadFails

\* The next read is started within its limit.
LEMMA StartReadStep ==
  ASSUME Inv, NEW t \in Turns, step[t] \in Reads, NEW s \in Reads, StartRead(t, s)
  PROVE  Inv'
<1>1. /\ Live(t) /\ ~cancelled[t] /\ [worker EXCEPT ![t] = "none"] = worker /\ lock = t
  BY Waiting DEF Reads
<1>2. CASE BeforeReserve(t) <= 0
  BY <1>1, <1>2, Leaves DEF StartRead, Outcomes
<1>3. CASE ~(BeforeReserve(t) <= 0)
  <2>1. BeforeReserve(t) > 0
    BY <1>3, ConfigAssumption DEF Inv, TypeOK, BeforeReserve
  <2>2. ReadLimit(t) \in Nat /\ clock + ReadLimit(t) <= deadline[t] - Reserve
    BY <2>1, LimitBounds
  <2>3. /\ Await(t, s, ReadLimit(t)) /\ worker' = [worker EXCEPT ![t] = "none"]
        /\ UNCHANGED <<clock, overran, deadline, replaying, cancelled, outcome>> /\ lock' = t
    BY <1>1, <1>3 DEF StartRead
  <2>4. /\ tries' \in [Turns -> 0..MaxAttempts]
        /\ attempt' \in [Turns -> 1..MAX_COMMIT_ATTEMPTS]
    BY <1>3 DEF Inv, TypeOK, StartRead
  <2> QED BY Zenon, <1>1, <2>2, <2>3, <2>4, StageStep
<1> QED BY <1>2, <1>3

\* The next completion is started within its limit.
LEMMA StartCompletionStep ==
  ASSUME Inv, NEW t \in Turns, step[t] \in Reads \cup Completions,
         NEW s \in Completions, StartCompletion(t, s)
  PROVE  Inv'
<1>1. /\ Live(t) /\ ~cancelled[t] /\ [worker EXCEPT ![t] = "none"] = worker /\ lock = t
  BY Waiting DEF Reads, Completions
<1>2. CASE BeforeReserve(t) <= 0
  BY <1>1, <1>2, Leaves DEF StartCompletion, Outcomes
<1>3. CASE ~(BeforeReserve(t) <= 0)
  <2>1. BeforeReserve(t) > 0
    BY <1>3, ConfigAssumption DEF Inv, TypeOK, BeforeReserve
  <2>2. AttemptLimit(t, 0) \in Nat /\ clock + AttemptLimit(t, 0) <= deadline[t] - Reserve
    BY <2>1, LimitBounds
  <2>3. /\ Await(t, s, AttemptLimit(t, 0)) /\ worker' = [worker EXCEPT ![t] = "none"]
        /\ UNCHANGED <<clock, overran, deadline, replaying, cancelled, outcome>> /\ lock' = t
    BY <1>1, <1>3 DEF StartCompletion
  <2>4. /\ tries' \in [Turns -> 0..MaxAttempts]
        /\ attempt' \in [Turns -> 1..MAX_COMMIT_ATTEMPTS]
    BY <1>3, ConfigAssumption DEF Inv, TypeOK, StartCompletion
  <2> QED BY Zenon, <1>1, <2>2, <2>3, <2>4, StageStep
<1> QED BY <1>2, <1>3

\* A read that returns leads to the next read or completion.
LEMMA ReadStep == ASSUME Inv, NEW t \in Turns, ReadReturns(t) PROVE Inv'
<1>1. CASE step[t] = "load_state" /\ StartRead(t, "load_context")
  BY <1>1, StartReadStep DEF Reads
<1>2. CASE step[t] = "load_context" /\ StartCompletion(t, "appraisal")
  BY <1>2, StartCompletionStep DEF Reads, Completions
<1>3. CASE /\ step[t] = "replay"
           /\ \E result \in {"completed", "conflict"} : Leave(t, result)
  <2>1. PICK result \in Outcomes : Leave(t, result)
    BY <1>3 DEF Outcomes
  <2> QED BY <1>3, Waiting, <2>1, Leaves DEF Reads
<1> QED BY <1>1, <1>2, <1>3 DEF ReadReturns

\* The commit starts before the reserve is touched.
LEMMA StartCommitStep ==
  ASSUME Inv, NEW t \in Turns, step[t] = "generation", StartCommit(t)
  PROVE  Inv'
<1> USE ConfigAssumption
<1>1. CASE deadline[t] - clock <= 0
  BY Waiting, <1>1, Leaves DEF StartCommit, Outcomes, Completions
<1>2. CASE ~(deadline[t] - clock <= 0)
  <2>1. /\ step'[t] = "commit" /\ due'[t] = clock + SupabaseTimeout
        /\ worker'[t] = "running" /\ clock' = clock /\ lock' = lock
        /\ deadline' = deadline /\ cancelled' = cancelled
    BY <1>2 DEF Inv, TypeOK, StartCommit, Await
  <2>2. step' \in [Turns -> Steps] /\ due' \in [Turns -> Nat]
    BY <1>2 DEF Inv, TypeOK, StartCommit, Await, Steps, Writes
  <2>3. TypeOK'
    BY Zenon, <1>2, <2>2 DEF Inv, TypeOK, StartCommit
  <2>4. clock <= deadline[t] - Reserve
    BY DEF Inv, Timing, Live, Completions, TypeOK
  <2>5. Timing(t)'
    <3>1. clock \in Nat /\ deadline[t] \in Nat /\ Reserve \in Nat /\ SupabaseTimeout \in Nat
      BY DEF Inv, TypeOK
    <3> QED BY <2>1, <2>4, <3>1 DEF Timing, Live, Reads, Completions
  <2>6. Writing(t)'
    BY <2>1, Waiting DEF Writing, Completions, Reads, Writes
  <2>7. ASSUME NEW u \in Turns, u # t PROVE Timing(u)' /\ Writing(u)'
    <3>1. /\ step'[u] = step[u] /\ due'[u] = due[u] /\ deadline'[u] = deadline[u]
          /\ worker'[u] = worker[u] /\ cancelled'[u] = cancelled[u]
          /\ outcome'[u] = outcome[u]
      BY <1>2, <2>7 DEF Inv, TypeOK, StartCommit, Await
    <3> QED BY <2>1, <3>1, Others
  <2> QED BY <2>3, <2>5, <2>6, <2>7 DEF Inv
<1> QED BY <1>1, <1>2

\* An answer of the provider leads to the next stage or to the commit.
LEMMA ProviderStep == ASSUME Inv, NEW t \in Turns, ProviderAnswers(t) PROVE Inv'
<1>1. CASE step[t] = "appraisal" /\ StartCompletion(t, "generation")
  BY <1>1, StartCompletionStep DEF Completions
<1>2. CASE step[t] = "generation" /\ StartCommit(t)
  BY <1>2, StartCommitStep
<1> QED BY <1>1, <1>2 DEF ProviderAnswers

\* A failed attempt is retried only within the limit.
LEMMA AttemptStep == ASSUME Inv, NEW t \in Turns, AttemptFails(t) PROVE Inv'
<1> USE ConfigAssumption
<1>1. /\ Live(t) /\ ~cancelled[t] /\ [worker EXCEPT ![t] = "none"] = worker /\ lock = t
  BY Waiting DEF AttemptFails, Completions
<1>2. CASE tries[t] < MaxAttempts /\ BeforeReserve(t) > 0
  <2>1. /\ AttemptLimit(t, MaxBackoff) \in Nat
        /\ clock + AttemptLimit(t, MaxBackoff) <= deadline[t] - Reserve
    BY <1>2, LimitBounds
  <2>2. /\ Await(t, step[t], AttemptLimit(t, MaxBackoff))
        /\ worker' = [worker EXCEPT ![t] = "none"]
        /\ UNCHANGED <<clock, overran, deadline, replaying, cancelled, outcome>> /\ lock' = t
    BY <1>1, <1>2 DEF AttemptFails
  <2>3. /\ tries' \in [Turns -> 0..MaxAttempts]
        /\ attempt' \in [Turns -> 1..MAX_COMMIT_ATTEMPTS]
    BY <1>2 DEF Inv, TypeOK, AttemptFails
  <2>4. step[t] \in Reads \cup Completions
    BY DEF AttemptFails
  <2> QED BY Zenon, <1>1, <2>1, <2>2, <2>3, <2>4, StageStep
<1>3. CASE ~(tries[t] < MaxAttempts /\ BeforeReserve(t) > 0)
  BY <1>1, <1>3, Leaves DEF AttemptFails, Outcomes
<1> QED BY <1>2, <1>3

\* A write that returns ends the turn or lets it run once more in time.
LEMMA CommitStep ==
  ASSUME Inv, NEW t \in Turns, CommitReturns(t) \/ RetryTurn(t)
  PROVE  Inv'
<1> USE ConfigAssumption
<1>1. Live(t) /\ ~cancelled[t] /\ lock = t
  BY DEF Inv, Writing, CommitReturns, RetryTurn, Drained, Live, Held
<1>2. CASE CommitReturns(t)
  <2>1. PICK result \in Outcomes : Leave(t, result)
    BY <1>2 DEF CommitReturns, Outcomes
  <2> QED BY <1>1, <2>1, Leaves
<1>3. CASE RetryTurn(t) /\ (attempt[t] >= MAX_COMMIT_ATTEMPTS \/ BeforeReserve(t) <= 0)
  <2>1. PICK result \in Outcomes : Leave(t, result)
    BY <1>3 DEF RetryTurn, Outcomes
  <2> QED BY <1>1, <2>1, Leaves
<1>4. CASE RetryTurn(t) /\ ~(attempt[t] >= MAX_COMMIT_ATTEMPTS) /\ ~(BeforeReserve(t) <= 0)
  <2>1. BeforeReserve(t) > 0
    BY <1>4 DEF Inv, TypeOK, BeforeReserve
  <2>2. ReadLimit(t) \in Nat /\ clock + ReadLimit(t) <= deadline[t] - Reserve
    BY <2>1, LimitBounds
  <2>3. /\ Await(t, "load_state", ReadLimit(t))
        /\ worker' = [worker EXCEPT ![t] = "none"]
        /\ UNCHANGED <<clock, overran, deadline, replaying, cancelled, outcome>> /\ lock' = t
    BY <1>1, <1>4 DEF RetryTurn
  <2>4. /\ tries' \in [Turns -> 0..MaxAttempts]
        /\ attempt' \in [Turns -> 1..MAX_COMMIT_ATTEMPTS]
    BY <1>4 DEF Inv, TypeOK, RetryTurn, MAX_COMMIT_ATTEMPTS
  <2>5. "load_state" \in Reads \cup Completions
    BY DEF Reads
  <2> QED BY Zenon, <1>1, <2>2, <2>3, <2>4, <2>5, StageStep
<1> QED BY <1>2, <1>3, <1>4

\* A cancellation is passed on at once, or after the write that it met.
LEMMA CancelStep ==
  ASSUME Inv, NEW t \in Turns, Cancel(t) \/ CancelPropagates(t)
  PROVE  Inv'
<1>1. CASE Leave(t, "cancelled")
  BY <1>1, Leaves DEF Outcomes, Cancel, CancelPropagates, Drained, Live, Writes
<1>2. CASE Cancel(t) /\ step[t] \in Writes
  <2>1. TypeOK'
    BY Zenon, <1>2 DEF Inv, TypeOK, Cancel
  <2>2. ASSUME NEW u \in Turns PROVE Timing(u)'
    <3>1. Timing(u) /\ UNCHANGED <<clock, step, deadline, due>>
      BY <1>2 DEF Inv, Cancel
    <3> QED BY <3>1 DEF Timing, Live
  <2>3. step[t] # "done"
    BY DEF Live, Cancel, CancelPropagates, Drained, Writes
  <2>4. ASSUME NEW u \in Turns PROVE Writing(u)'
    <3>1. u # t => cancelled'[u] = cancelled[u]
      BY <1>2 DEF Inv, TypeOK, Cancel
    <3> QED BY <1>2, <2>3, <3>1 DEF Inv, Cancel, Writing
  <2> QED BY <2>1, <2>2, <2>4 DEF Inv
<1> QED BY <1>1, <1>2 DEF Cancel, CancelPropagates

\* Time passes no timer that is due.
LEMMA TickStep == ASSUME Inv, Tick PROVE Inv'
<1>1. TypeOK'
  <2>1. clock' \in Nat /\ overran' \in [Turns -> BOOLEAN]
    BY DEF Inv, TypeOK, Tick
  <2> QED BY <2>1 DEF Inv, TypeOK, Tick
<1>2. ASSUME NEW u \in Turns PROVE Timing(u)'
  <2>1. clock \in Nat /\ due[u] \in Nat /\ clock' = clock + 1
    BY DEF Inv, TypeOK, Tick
  <2>2. step[u] \in Reads \cup Completions => clock < due[u]
    <3>1. step[u] \in Reads \cup Completions => worker[u] = "none" /\ Live(u)
      BY DEF Inv, Writing, Live, Reads, Completions, Writes
    <3> QED BY <2>1, <3>1 DEF Tick, Urgent, Live
  <2> QED BY <2>1, <2>2 DEF Inv, Tick, Timing
<1>3. ASSUME NEW u \in Turns PROVE Writing(u)'
  BY ZenonT(60) DEF Inv, Tick, Writing
<1> QED BY <1>1, <1>2, <1>3 DEF Inv

\* Before the first turn the invariant holds.
LEMMA InitHolds == Init => Inv
<1> SUFFICES ASSUME Init PROVE Inv
  OBVIOUS
<1>1. ASSUME NEW t \in Turns PROVE Timing(t) /\ Writing(t)
  BY DEF Init, Timing, Writing, Live, Held, Reads, Completions, Writes
<1> QED BY ConfigAssumption, <1>1 DEF Inv, Init, TypeOK, Steps, MAX_COMMIT_ATTEMPTS

\* Every step of the turns and of time keeps the invariant.
LEMMA Step == Inv /\ [Next]_vars => Inv'
<1> SUFFICES ASSUME Inv, [Next]_vars PROVE Inv'
  OBVIOUS
<1>1. CASE Tick
  BY <1>1, TickStep
<1>2. ASSUME NEW t \in Turns, TurnStep(t) PROVE Inv'
  BY <1>2, ArriveStep, WorkerStep, AdmissionStep, LockStep, TimeoutStep, ReadStep, ProviderStep,
     AttemptStep, CommitStep, CancelStep DEF TurnStep
<1>3. CASE UNCHANGED vars
  <2>1. ASSUME NEW u \in Turns PROVE Timing(u)' /\ Writing(u)'
    BY <1>3, Others DEF vars
  <2> QED BY <1>3, <2>1 DEF Inv, TypeOK, vars
<1> QED BY <1>1, <1>2, <1>3 DEF Next, Rest

\* The inductive invariant holds in every reachable state.
THEOREM InvHolds == Spec => []Inv
<1> QED BY InitHolds, Step, PTL DEF Spec

\* The clock moves with time only.
LEMMA OnlyTickMovesTheClock == ASSUME Next, clock' # clock PROVE Tick
<1>1. ASSUME NEW t \in Turns, TurnStep(t) PROVE clock' = clock
  BY <1>1 DEF TurnStep, Arrive, WorkerEnds, AdmissionReturns, AdmissionRefused, LockGranted,
     TimesOut, ReadReturns, ReadFails, ProviderAnswers, AttemptFails, CommitReturns, RetryTurn,
     Cancel, CancelPropagates, Leave, StartRead, StartCompletion, StartCommit
<1> QED BY <1>1 DEF Next, Rest, vars

\* Time does not pass the deadline (total_deadline) of a turn that is not over,
\* for every accepted configuration, as long as timers fire promptly, except
\* while run_blocking_write waits for a write that has outlived its transport
\* timeout.
THEOREM EndsByDeadlineHolds == Spec => EndsByDeadline
<1> DEFINE Ends == \A t \in Turns :
      (Live(t) /\ clock' > clock /\ clock' > deadline[t]) => worker[t] = "running" /\ overran'[t]
<1>1. Inv /\ [Next]_vars => [Ends]_vars
  <2> SUFFICES ASSUME Inv, Next, NEW t \in Turns, Live(t), clock' > clock, clock' > deadline[t]
               PROVE  worker[t] = "running" /\ overran'[t]
    OBVIOUS
  <2>1. clock \in Nat /\ due[t] \in Nat /\ deadline[t] \in Nat
    BY DEF Inv, TypeOK
  <2>2. Tick
    BY <2>1, OnlyTickMovesTheClock
  <2>3. ~Urgent(t) /\ deadline[t] <= clock
    BY <2>1, <2>2 DEF Tick
  <2>4. worker[t] = "running"
    <3>1. CASE step[t] \in Writes
      BY <2>3, <3>1 DEF Urgent, Live, Inv, Writing
    <3>2. CASE step[t] \notin Writes
      <4>1. worker[t] = "none" /\ step[t] \in Reads \cup Completions \cup {"lock"}
        BY <3>2 DEF Inv, TypeOK, Writing, Live, Steps
      <4>2. clock < due[t]
        BY <2>1, <2>3, <4>1 DEF Urgent, Live
      <4> QED BY <2>1, <2>3, <4>1, <4>2, ConfigAssumption DEF Inv, Timing
    <3> QED BY <3>1, <3>2
  <2>5. due[t] <= deadline[t]
    <3>1. step[t] \in Writes
      BY <2>4 DEF Inv, Writing
    <3> QED BY <2>1, <3>1, ConfigAssumption DEF Inv, Timing, Writes
  <2>6. clock >= due[t]
    BY <2>1, <2>3, <2>5
  <2>7. overran'[t] = (overran[t] \/ (worker[t] = "running" /\ clock >= due[t]))
    BY ZenonT(60), <2>2 DEF Tick
  <2> QED BY Zenon, <2>4, <2>6, <2>7
<1> QED BY <1>1, InvHolds, PTL DEF Spec, EndsByDeadline

\* run_blocking_write is never left with its worker thread running.
THEOREM NoAbandonedWriteHolds == Spec => []NoAbandonedWrite
<1>1. Inv => NoAbandonedWrite
  BY DEF Inv, Writing, NoAbandonedWrite
<1> QED BY <1>1, InvHolds, PTL

\* Commits of one user run one at a time, under the lock.
THEOREM CommitsHoldTheLockHolds == Spec => []CommitsHoldTheLock
<1>1. Inv => CommitsHoldTheLock
  BY DEF Inv, Writing, CommitsHoldTheLock, Held, Writes
<1> QED BY <1>1, InvHolds, PTL

\* A cancellation noted while draining is what the turn ends with.
THEOREM CancellationWinsHolds == Spec => []CancellationWins
<1>1. Inv => CancellationWins
  BY DEF Inv, Writing, CancellationWins
<1> QED BY <1>1, InvHolds, PTL

\* Only a turn whose reply is there goes on to its commit.
LEMMA CommitFollowsGeneration ==
  ASSUME step \in [Turns -> Steps], NEW u \in Turns, TurnStep(u)
  PROVE  \A t \in Turns : step'[t] = "commit" => step[t] \in {"commit", "generation"}
<1> DEFINE Goes == \A t \in Turns : step'[t] = "commit" => step[t] \in {"commit", "generation"}
<1> USE DEF Completions
<1>1. ASSUME NEW result, Leave(u, result) PROVE Goes
  BY <1>1 DEF Leave
<1>2. ASSUME NEW s, s # "commit", NEW n, Await(u, s, n) PROVE Goes
  BY <1>2 DEF Await
<1>3. CASE Arrive(u)
  BY <1>2, <1>3 DEF Arrive
<1>4. CASE WorkerEnds(u)
  BY <1>4 DEF WorkerEnds
<1>5. CASE AdmissionReturns(u)
  BY <1>2, <1>5 DEF AdmissionReturns
<1>6. CASE AdmissionRefused(u)
  BY <1>1, <1>6 DEF AdmissionRefused
<1>7. CASE LockGranted(u)
  BY <1>2, <1>7 DEF LockGranted
<1>8. CASE TimesOut(u) \/ ReadFails(u) \/ CommitReturns(u) \/ CancelPropagates(u)
  BY <1>1, <1>8 DEF TimesOut, ReadFails, CommitReturns, CancelPropagates
<1>9. CASE ReadReturns(u)
  BY <1>1, <1>2, <1>9 DEF ReadReturns, StartRead, StartCompletion
<1>10. CASE ProviderAnswers(u)
  BY <1>1, <1>2, <1>10 DEF StartCompletion, StartCommit, Await, ProviderAnswers
<1>11. CASE AttemptFails(u)
  BY <1>1, <1>2, <1>11 DEF AttemptFails
<1>12. CASE RetryTurn(u)
  BY <1>1, <1>2, <1>12 DEF RetryTurn
<1>13. CASE Cancel(u)
  BY <1>1, <1>13 DEF Cancel
<1> QED
  BY <1>3, <1>4, <1>5, <1>6, <1>7, <1>8, <1>9, <1>10, <1>11, <1>12, <1>13 DEF TurnStep

\* A commit begins with the whole commit_reserve left.
THEOREM CommitKeepsReserveHolds == Spec => CommitKeepsReserve
<1> DEFINE Kept == \A t \in Turns :
      (step[t] # "commit" /\ step'[t] = "commit") => deadline[t] - clock >= Reserve
<1>1. Inv /\ [Next]_vars => [Kept]_vars
  <2> SUFFICES ASSUME Inv, Next, NEW t \in Turns, step[t] # "commit", step'[t] = "commit"
               PROVE  deadline[t] - clock >= Reserve
    OBVIOUS
  <2>1. PICK u \in Turns : TurnStep(u)
    BY DEF Next, Tick, Rest, vars
  <2>2. step[t] = "generation"
    BY <2>1, CommitFollowsGeneration DEF Inv, TypeOK
  <2> QED BY ConfigAssumption, <2>2 DEF Timing, Live, Completions, Inv, TypeOK
<1> QED BY <1>1, InvHolds, PTL DEF Spec, CommitKeepsReserve

-----------------------------------------------------------------------------
(* The key pool, for any number of keys and completions.  The invariant    *)
(* names for each call the keys that were active when it began: it has     *)
(* tried each of them once at most, and every other key is deactivated.    *)

Attempts == [key : Keys, failure : ProviderFailures]

CallRecords ==
  [mode : Modes, step : {"loop", "request", "done"}, attempts : Seq(Attempts), max : Nat,
   expires : Nat, key : Keys \cup {Nil},
   outcome : ProviderFailures \cup {"request_error", "no_budget", "completed", "invalid_response",
                                    "cancelled", Nil}]

PoolTypeOK ==
  /\ deactivated \in SUBSET Keys
  /\ cooldowns \in [Keys -> Nat \cup {Nil}]
  /\ limited \in [Keys -> Nat \cup {Nil}]
  /\ now \in Nat /\ index \in Keys
  /\ calls \in [Calls -> CallRecords \cup {Nil}]

\* A key rests because of its last 429.
RestInv ==
  \A k \in Keys : cooldowns[k] # Nil =>
    limited[k] # Nil /\ cooldowns[k] = limited[k] + CooldownDuration

Tried(attempts) == {attempts[i].key : i \in DOMAIN attempts}

\* The attempts that n active keys allow.
Allowed(n) == LET m == IF CallAttempts < n THEN CallAttempts ELSE n IN IF m < 1 THEN 1 ELSE m

\* Call r may use the keys A, has used each at most once, and there are no others.
Serves(A, r) ==
  /\ Keys \ A \subseteq deactivated
  /\ r.max = Allowed(Cardinality(A))
  /\ Tried(r.attempts) \subseteq A
  /\ Cardinality(Tried(r.attempts)) = Len(r.attempts)
  /\ r.step = "request" => r.key \in A \ Tried(r.attempts)

Running(r) == r # Nil /\ r.step # "done"

CallsInv == \A c \in Calls : Running(calls[c]) => \E A \in SUBSET Keys : Serves(A, calls[c])

PoolInv == PoolTypeOK /\ RestInv /\ CallsInv

\* Sets of keys are finite.
LEMMA KeysFinite == \A A \in SUBSET Keys : IsFiniteSet(A) /\ Cardinality(A) \in Nat
<1>1. IsFiniteSet(Keys)
  BY FS_Interval, PoolAssumption DEF Keys
<1> QED BY <1>1, FS_Subset, FS_CardinalityType

\* One more attempt tries one more key.
LEMMA TriedAppend ==
  ASSUME NEW s \in Seq(Attempts), NEW a \in Attempts
  PROVE  /\ Append(s, a) \in Seq(Attempts) /\ Len(Append(s, a)) = Len(s) + 1
         /\ Tried(Append(s, a)) = Tried(s) \cup {a.key}
<1>1. /\ Append(s, a) \in Seq(Attempts) /\ Len(Append(s, a)) = Len(s) + 1
      /\ DOMAIN s = 1..Len(s) /\ DOMAIN Append(s, a) = 1..(Len(s) + 1)
      /\ \A i \in 1..Len(s) : Append(s, a)[i] = s[i]
      /\ Append(s, a)[Len(s) + 1] = a
  OBVIOUS
<1>2. 1..(Len(s) + 1) = 1..Len(s) \cup {Len(s) + 1}
  OBVIOUS
<1>3. Tried(Append(s, a)) = {Append(s, a)[i].key : i \in 1..Len(s)} \cup {a.key}
  BY <1>1, <1>2, Zenon DEF Tried
<1>4. {Append(s, a)[i].key : i \in 1..Len(s)} = {s[i].key : i \in 1..Len(s)}
  BY <1>1, Zenon
<1> QED BY <1>1, <1>3, <1>4, Zenon DEF Tried

\* The number of attempts that a call is given.
LEMMA AttemptsType == EffectiveAttempts = Allowed(Cardinality(Active)) /\ EffectiveAttempts \in Nat
<1>1. Active \in SUBSET Keys
  BY DEF Active
<1>2. Cardinality(Active) \in Nat
  BY <1>1, KeysFinite, Zenon
<1> QED BY <1>2, PoolAssumption DEF EffectiveAttempts, Allowed

\* What a failed attempt makes of a call with keys A.
FailedCall(A, old, r) ==
  /\ r \in CallRecords
  /\ r.max = old.max /\ r.step # "request"
  /\ Tried(r.attempts) = Tried(old.attempts) \cup {old.key}
  /\ Tried(r.attempts) \subseteq A
  /\ Cardinality(Tried(r.attempts)) = Len(r.attempts)
  /\ (r.step = "done" /\ r.outcome \in ProviderFailures) => Len(r.attempts) = r.max

\* A failed attempt is recorded with its key, which was not tried before.
LEMMA FailureRecord ==
  ASSUME PoolInv, NEW c \in Calls, At(c, "request"), NEW failure \in Failures,
         NEW A \in SUBSET Keys, Serves(A, calls[c])
  PROVE  FailedCall(A, calls[c], AfterFailure(c, failure))
<1>1. calls[c] \in CallRecords /\ calls[c].key \in A \ Tried(calls[c].attempts)
  BY DEF PoolInv, PoolTypeOK, At, Serves
<1>2. PICK a : a = [key |-> calls[c].key, failure |-> failure]
  BY Zenon
<1>3. a \in Attempts /\ a.key = calls[c].key
  BY PoolAssumption, <1>1, <1>2 DEF Attempts, LastFailure, ProviderFailures
<1>4. PICK s : s = Append(calls[c].attempts, a)
  BY Zenon
<1>r. PICK r : r = AfterFailure(c, failure)
  BY Zenon
<1>5. /\ s \in Seq(Attempts) /\ Len(s) = Len(calls[c].attempts) + 1
      /\ Tried(s) = Tried(calls[c].attempts) \cup {calls[c].key}
  <2>1. calls[c].attempts \in Seq(Attempts)
    BY <1>1 DEF CallRecords
  <2> QED BY <1>3, <1>4, <2>1, TriedAppend, Zenon
<1>6. /\ r \in CallRecords /\ r.attempts = s /\ r.max = calls[c].max /\ r.step # "request"
      /\ (r.step = "done" /\ r.outcome \in ProviderFailures) => Len(s) = r.max
  <2>1. PICK over : over = [calls[c] EXCEPT !.attempts = s, !.step = "done", !.key = Nil]
    BY Zenon
  <2>2. \/ r = [over EXCEPT !.outcome = "request_error"]
        \/ Len(s) = calls[c].max /\ r = [over EXCEPT !.outcome = LastFailure(c, failure)]
        \/ r = [over EXCEPT !.step = "loop"]
    BY <1>2, <1>4, <1>r, <2>1, Zenon DEF AfterFailure
  <2>3. over \in CallRecords /\ over.attempts = s /\ over.max = calls[c].max /\ over.step = "done"
    BY ZenonT(60), <1>1, <1>5, <2>1 DEF CallRecords
  <2>4. CASE r = [over EXCEPT !.outcome = "request_error"]
    <3>1. r \in CallRecords /\ r.attempts = s /\ r.max = over.max /\ r.step = "done"
          /\ r.outcome = "request_error"
      BY <2>3, <2>4 DEF CallRecords
    <3> QED BY <2>3, <3>1 DEF ProviderFailures
  <2>5. CASE Len(s) = calls[c].max /\ r = [over EXCEPT !.outcome = LastFailure(c, failure)]
    BY PoolAssumption, <2>3, <2>5 DEF CallRecords, LastFailure, ProviderFailures
  <2>6. CASE r = [over EXCEPT !.step = "loop"]
    BY <2>3, <2>6 DEF CallRecords
  <2> QED BY <2>2, <2>4, <2>5, <2>6
<1>7. Cardinality(Tried(s)) = Len(s) /\ Tried(s) \subseteq A
  <2>1. /\ Tried(calls[c].attempts) \in SUBSET Keys /\ Tried(calls[c].attempts) \subseteq A
        /\ Cardinality(Tried(calls[c].attempts)) = Len(calls[c].attempts)
    BY Zenon DEF Serves
  <2>2. Cardinality(Tried(s)) = Cardinality(Tried(calls[c].attempts)) + 1
    BY <1>1, <1>5, <2>1, KeysFinite, FS_AddElement, Zenon
  <2> QED BY <1>1, <1>5, <2>1, <2>2
<1> QED BY <1>5, <1>6, <1>7, <1>r, Zenon DEF FailedCall

\* A call that tried as many keys as were active when it began has tried them all.
LEMMA TriedAll ==
  ASSUME NEW A \in SUBSET Keys, NEW T \in SUBSET A, T # {},
         Cardinality(T) = Allowed(Cardinality(A)), Cardinality(T) < CallAttempts
  PROVE  T = A
<1> QED BY KeysFinite, FS_Subset, FS_EmptySet, PoolAssumption DEF Allowed

\* Other calls keep their keys while more keys may be deactivated.
LEMMA ServedStill ==
  ASSUME CallsInv, deactivated \subseteq deactivated', NEW c \in Calls, calls'[c] = calls[c],
         Running(calls'[c])
  PROVE  \E A \in SUBSET Keys : Serves(A, calls[c])'
BY Zenon DEF CallsInv, Running, Serves

\* A rest starts with a 429, and cleaning up only drops rests.
LEMMA CleanKeeps ==
  ASSUME PoolInv, CleanCooldowns, UNCHANGED limited
  PROVE  cooldowns' \in [Keys -> Nat \cup {Nil}] /\ RestInv'
<1>1. \A k \in Keys : cooldowns'[k] = cooldowns[k] \/ cooldowns'[k] = Nil
  BY Zenon DEF CleanCooldowns
<1>2. cooldowns' = [k \in Keys |-> cooldowns'[k]]
  BY Zenon DEF CleanCooldowns
<1> QED BY <1>1, <1>2 DEF PoolInv, PoolTypeOK, RestInv

\* A call that ends keeps the invariant.
LEMMA EndKeeps ==
  ASSUME PoolInv, NEW c \in Calls, calls[c] # Nil,
         NEW end \in ProviderFailures \cup {"request_error", "no_budget", "completed",
                                           "invalid_response", "cancelled"},
         End(c, end), deactivated' = deactivated
  PROVE  calls' \in [Calls -> CallRecords \cup {Nil}] /\ CallsInv'
<1>1. calls[c] \in CallRecords
  BY DEF PoolInv, PoolTypeOK
<1>2. PICK r : r = [calls[c] EXCEPT !.step = "done", !.key = Nil, !.outcome = end]
  BY Zenon
<1>3. r \in CallRecords /\ r.step = "done"
  BY ZenonT(60), <1>1, <1>2 DEF CallRecords
<1>4. calls' = [calls EXCEPT ![c] = r]
  BY <1>2, Zenon DEF End
<1>5. ASSUME NEW d \in Calls, Running(calls'[d]) PROVE \E A \in SUBSET Keys : Serves(A, calls[d])'
  BY <1>3, <1>4, <1>5, ServedStill DEF Running, PoolInv, PoolTypeOK
<1> QED BY <1>3, <1>4, <1>5 DEF CallsInv, PoolInv, PoolTypeOK

\* A set of numbers has a smallest.
LEMMA LeastOf ==
  ASSUME NEW T \in SUBSET Nat, T # {}
  PROVE  \E m \in T : \A n \in T : m <= n
<1>1. PICK R : IsWellFoundedOn(R, Nat) /\ \A x, y \in Nat : x < y => <<x, y>> \in R
  <2>1. \A x, y \in Nat : x < y => <<x, y>> \in OpToRel(<, Nat)
    BY DEF OpToRel
  <2>2. IsWellFoundedOn(OpToRel(<, Nat), Nat)
    BY ZenonT(60), NatLessThanWellFounded
  <2> QED BY <2>1, <2>2, Zenon
<1>2. IsWellFoundedOn(R, Nat) /\ T \subseteq Nat
  BY <1>1, Zenon
<1>3. \E m \in T : \A n \in T : ~(<<n, m>> \in R)
  BY ZenonT(60), <1>2, WFMin
<1>4. PICK m \in T : \A n \in T : ~(<<n, m>> \in R)
  BY <1>3, Zenon
<1>5. \A n \in T : ~(n < m)
  BY <1>1, <1>4, Zenon
<1> QED BY <1>5

\* The search goes on at a key.
LEMMA IndexType == \A k \in Keys : IndexAfter(k) \in Keys
BY PoolAssumption DEF IndexAfter, Keys

\* A call that begins may use the keys that are active, each once.
LEMMA BeginStep == ASSUME PoolInv, NEW c \in Calls, Begin(c) \/ RefuseInput(c) PROVE PoolInv'
<1>1. PICK r : /\ calls' = [calls EXCEPT ![c] = r]
               /\ r \in CallRecords /\ r.attempts = <<>> /\ r.max = EffectiveAttempts
               /\ r.step # "request"
  <2>1. PICK mode \in Modes, step0 \in {"loop", "done"}, outcome0 \in {"request_error", Nil} :
          calls' = [calls EXCEPT ![c] =
            [mode |-> mode, step |-> step0, attempts |-> <<>>, max |-> EffectiveAttempts,
             expires |-> now + Budget, key |-> Nil, outcome |-> outcome0]]
    BY Zenon DEF Begin, RefuseInput
  <2>2. PICK r : r = [mode |-> mode, step |-> step0, attempts |-> <<>>, max |-> EffectiveAttempts,
                      expires |-> now + Budget, key |-> Nil, outcome |-> outcome0]
    BY Zenon
  <2>3. r \in CallRecords /\ r.attempts = <<>> /\ r.max = EffectiveAttempts /\ r.step # "request"
    BY PoolAssumption, <2>2, AttemptsType DEF CallRecords, PoolInv, PoolTypeOK
  <2> QED BY <2>1, <2>2, <2>3, Zenon
<1>2. UNCHANGED <<pool, now, limited>>
  BY Zenon DEF Begin, RefuseInput
<1>3. calls'[c] = r /\ \A d \in Calls \ {c} : calls'[d] = calls[d]
  BY <1>1 DEF PoolInv, PoolTypeOK
<1>4. Serves(Active, calls[c])'
  <2>1. Tried(<<>>) = {} /\ Cardinality({}) = 0 /\ Len(<<>>) = 0
    BY FS_EmptySet DEF Tried
  <2>2. Keys \ (Keys \ deactivated) \subseteq deactivated
    OBVIOUS
  <2> QED BY ZenonT(60), <1>1, <1>2, <1>3, <2>1, <2>2, AttemptsType DEF Serves, Active, pool
<1>5. Active' \in SUBSET Keys
  BY DEF Active
<1>6. ASSUME NEW d \in Calls, Running(calls'[d]) PROVE \E A \in SUBSET Keys : Serves(A, calls[d])'
  <2>1. CASE d = c
    BY <1>4, <1>5, <2>1, Zenon
  <2>2. CASE d # c
    BY <1>2, <1>3, <1>6, <2>2, ServedStill DEF PoolInv, pool
  <2> QED BY <2>1, <2>2
<1> QED BY <1>1, <1>2, <1>6 DEF PoolInv, CallsInv, PoolTypeOK, RestInv, pool

\* _acquire_next_key gives a call a key that it has not tried.
LEMMA AcquireStep == ASSUME PoolInv, NEW c \in Calls, AcquireKey(c) PROVE PoolInv'
<1>1. NextKey(c) \in Eligible(c)
  <2>1. Eligible(c) # {} /\ Eligible(c) \in SUBSET Keys
    BY DEF AcquireKey, Eligible
  <2>2. \A k \in Keys : Distance(k) \in Nat
    BY PoolAssumption DEF PoolInv, PoolTypeOK, Keys, Distance
  <2>3. PICK m \in {Distance(k) : k \in Eligible(c)} :
          \A n \in {Distance(k) : k \in Eligible(c)} : m <= n
    <3>1. {Distance(k) : k \in Eligible(c)} \in SUBSET Nat /\ {Distance(k) : k \in Eligible(c)} # {}
      BY <2>1, <2>2, Zenon
    <3> QED BY <3>1, LeastOf, Zenon
  <2>4. \E k \in Eligible(c) : \A l \in Eligible(c) : Distance(k) <= Distance(l)
    BY <2>3, Zenon
  <2> QED BY <2>4, Zenon DEF NextKey
<1>2. calls[c] \in CallRecords /\ calls[c].step = "loop"
  BY DEF AcquireKey, MayAttempt, At, PoolInv, PoolTypeOK
<1>3. PICK r : r = [calls[c] EXCEPT !.step = "request", !.key = NextKey(c)]
  BY Zenon
<1>4. calls' = [calls EXCEPT ![c] = r] /\ UNCHANGED <<deactivated, now, limited>> /\ CleanCooldowns
  BY <1>3, Zenon DEF AcquireKey
<1>5. NextKey(c) \in Keys \ deactivated /\ NextKey(c) \notin Tried(calls[c].attempts)
  BY <1>1, Zenon DEF Eligible, TriedKeys, Tried
<1>6. /\ r \in CallRecords /\ r.step = "request" /\ r.key = NextKey(c)
      /\ r.attempts = calls[c].attempts /\ r.max = calls[c].max
  BY ZenonT(60), <1>2, <1>3, <1>5 DEF CallRecords
<1>7. PoolTypeOK' /\ RestInv'
  BY <1>4, <1>5, <1>6, CleanKeeps, IndexType DEF PoolInv, PoolTypeOK, AcquireKey
<1>8. calls'[c] = r /\ \A d \in Calls \ {c} : calls'[d] = calls[d]
  BY <1>4 DEF PoolInv, PoolTypeOK
<1>9. PICK A \in SUBSET Keys : Serves(A, calls[c])
  BY <1>2, Zenon DEF PoolInv, CallsInv, Running, AcquireKey, MayAttempt, At
<1>10. Serves(A, calls[c])'
  BY <1>4, <1>5, <1>6, <1>8, <1>9 DEF Serves
<1>11. ASSUME NEW d \in Calls, Running(calls'[d]) PROVE \E B \in SUBSET Keys : Serves(B, calls[d])'
  <2>1. CASE d = c
    BY <1>10, <2>1, Zenon
  <2>2. CASE d # c
    BY <1>4, <1>8, <1>11, <2>2, ServedStill DEF PoolInv
  <2> QED BY <2>1, <2>2
<1> QED BY <1>7, <1>11 DEF PoolInv, CallsInv

\* A failed attempt tries one more key, and may end the call.
LEMMA FailsStep == ASSUME PoolInv, NEW c \in Calls, RequestFails(c) PROVE PoolInv'
<1>1. PICK failure \in Failures :
        /\ calls' = [calls EXCEPT ![c] = AfterFailure(c, failure)]
        /\ cooldowns' = IF failure = "rate_limited"
                        THEN [cooldowns EXCEPT ![calls[c].key] = now + CooldownDuration]
                        ELSE cooldowns
        /\ deactivated' = IF failure = "auth_failed"
                          THEN deactivated \cup {calls[c].key} ELSE deactivated
        /\ limited' = IF failure = "rate_limited"
                      THEN [limited EXCEPT ![calls[c].key] = now] ELSE limited
  BY Zenon DEF RequestFails
<1>2. At(c, "request") /\ UNCHANGED <<index, now>>
  BY DEF RequestFails
<1>3. PICK A \in SUBSET Keys : Serves(A, calls[c])
  BY <1>2, Zenon DEF PoolInv, CallsInv, Running, At
<1>4. calls[c].key \in Keys
  BY <1>2, <1>3 DEF Serves, At
<1>5. PICK r : r = AfterFailure(c, failure)
  BY Zenon
<1>6. /\ r \in CallRecords /\ r.max = calls[c].max /\ r.step # "request"
      /\ Tried(r.attempts) \subseteq A /\ Cardinality(Tried(r.attempts)) = Len(r.attempts)
  <2>1. FailedCall(A, calls[c], AfterFailure(c, failure))
    BY <1>2, <1>3, FailureRecord
  <2> QED BY <1>5, <2>1 DEF FailedCall
<1>7. /\ calls' \in [Calls -> CallRecords \cup {Nil}] /\ calls'[c] = r
      /\ \A d \in Calls \ {c} : calls'[d] = calls[d]
  BY <1>1, <1>5, <1>6 DEF PoolInv, PoolTypeOK
<1>8. deactivated \subseteq deactivated' /\ deactivated' \in SUBSET Keys
  BY <1>1, <1>4 DEF PoolInv, PoolTypeOK
<1>9. /\ cooldowns' \in [Keys -> Nat \cup {Nil}] /\ limited' \in [Keys -> Nat \cup {Nil}]
      /\ RestInv'
  BY <1>1, <1>4, PoolAssumption DEF PoolInv, PoolTypeOK, RestInv
<1>10. Serves(A, calls[c])'
  BY <1>3, <1>6, <1>7, <1>8 DEF Serves
<1>11. ASSUME NEW d \in Calls, Running(calls'[d]) PROVE \E B \in SUBSET Keys : Serves(B, calls[d])'
  <2>1. CASE d = c
    BY <1>10, <2>1, Zenon
  <2>2. CASE d # c
    BY <1>8, <1>7, <1>11, <2>2, ServedStill DEF PoolInv
  <2> QED BY <2>1, <2>2
<1> QED BY <1>2, <1>7, <1>8, <1>9, <1>11 DEF PoolInv, PoolTypeOK, CallsInv

\* Every other end of a call.
LEMMA EndStep ==
  ASSUME PoolInv, NEW c \in Calls,
         OutOfBudget(c) \/ NoKey(c) \/ ClientFails(c) \/ Answered(c) \/ CancelCall(c)
  PROVE  PoolInv'
<1>1. PICK outcome0 \in ProviderFailures \cup {"request_error", "no_budget", "completed",
                                              "invalid_response", "cancelled"} : End(c, outcome0)
  BY DEF OutOfBudget, NoKey, ClientFails, Answered, CancelCall, PoolFailure, ProviderFailures
<1>2. calls[c] # Nil /\ UNCHANGED <<deactivated, index, now, limited>>
  BY DEF OutOfBudget, NoKey, ClientFails, Answered, CancelCall, At, MayAttempt, pool
<1>3. calls' \in [Calls -> CallRecords \cup {Nil}] /\ CallsInv'
  BY <1>1, <1>2, EndKeeps
<1>4. cooldowns' \in [Keys -> Nat \cup {Nil}] /\ RestInv'
  <2>1. CASE cooldowns' = cooldowns
    BY <1>2, <2>1 DEF PoolInv, PoolTypeOK, RestInv
  <2>2. CASE CleanCooldowns
    BY <1>2, <2>2, CleanKeeps
  <2> QED BY <2>1, <2>2 DEF OutOfBudget, NoKey, ClientFails, Answered, CancelCall, pool
<1> QED BY <1>2, <1>3, <1>4 DEF PoolInv, PoolTypeOK

\* Time ends rests, but the pool only notices when it is asked for a key.
LEMMA PoolTickStep == ASSUME PoolInv, PoolTick \/ UNCHANGED poolVars PROVE PoolInv'
<1>1. UNCHANGED <<pool, calls, limited>> /\ now' \in Nat
  BY DEF PoolTick, poolVars, pool, PoolInv, PoolTypeOK
<1> QED BY ZenonT(60), <1>1 DEF PoolInv, PoolTypeOK, RestInv, CallsInv, Serves, pool

\* The invariant of the pool.
THEOREM PoolInvHolds == PoolSpec => []PoolInv
<1>1. PoolInit => PoolInv
  BY PoolAssumption DEF PoolInit, PoolInv, PoolTypeOK, RestInv, CallsInv, Running, Keys
<1>2. PoolInv /\ [PoolNext]_poolVars => PoolInv'
  BY BeginStep, AcquireStep, FailsStep, EndStep, PoolTickStep, Zenon DEF PoolNext, CallStep
<1> QED BY <1>1, <1>2, PTL DEF PoolSpec

\* A completion that gives up with attempts to spare has tried every key that was
\* active when it began, or finds every key deactivated, resting or tried: the
\* number of attempts, computed outside the lock, hides no usable key.
THEOREM GivesUpOnlyWithoutKeysHolds == PoolSpec => GivesUpOnlyWithoutKeys
<1> DEFINE Left(c, k) ==
             \/ k \in deactivated'
             \/ k \in {calls'[c].attempts[i].key : i \in DOMAIN calls'[c].attempts}
             \/ limited'[k] # Nil /\ now < limited'[k] + CooldownDuration
           GivesUp(c) == /\ calls[c] # Nil /\ ~Finished(c) /\ calls'[c].step = "done"
                         /\ calls'[c].outcome \in ProviderFailures
                         /\ Len(calls'[c].attempts) < CallAttempts
<1>1. ASSUME PoolInv, [PoolNext]_poolVars, NEW c \in Calls, GivesUp(c), NEW k \in Keys
      PROVE  ~Left(c, k) => FALSE
  <2>0. calls[c] \in CallRecords /\ calls'[c] # calls[c] /\ calls \in [Calls -> CallRecords \cup {Nil}]
    BY <1>1 DEF PoolInv, PoolTypeOK, Finished, At
  <2>1. CallStep(c)
    <3>1. ASSUME NEW d \in Calls, CallStep(d) PROVE d = c
      <4>1. PICK r : calls' = [calls EXCEPT ![d] = r]
        BY <3>1, Zenon DEF CallStep, Begin, RefuseInput, OutOfBudget, AcquireKey, NoKey,
           ClientFails, Answered, RequestFails, CancelCall, End
      <4> QED BY <2>0, <4>1
    <3>2. ~(UNCHANGED calls)
      BY <2>0
    <3> QED BY <1>1, <3>1, <3>2, Zenon DEF PoolNext, PoolTick, poolVars
  <2>2. NoKey(c) \/ RequestFails(c)
    <3>1. ASSUME NEW outcome0, End(c, outcome0)
          PROVE  calls'[c].outcome = outcome0
      <4>1. calls'[c] = [calls[c] EXCEPT !.step = "done", !.key = Nil, !.outcome = outcome0]
        BY <2>0, <3>1, Zenon DEF End
      <4> QED BY <2>0, <4>1 DEF CallRecords
    <3>2. ~AcquireKey(c)
      <4>1. SUFFICES ASSUME AcquireKey(c) PROVE calls'[c].step = "request"
        BY <1>1
      <4>2. calls'[c] = [calls[c] EXCEPT !.step = "request", !.key = NextKey(c)]
        BY <2>0, <4>1, Zenon DEF AcquireKey
      <4> QED BY <2>0, <4>2 DEF CallRecords
    <3>3. ~OutOfBudget(c) /\ ~ClientFails(c) /\ ~CancelCall(c)
      BY <1>1, <3>1 DEF OutOfBudget, ClientFails, CancelCall, ProviderFailures
    <3>4. ~Answered(c)
      BY <1>1, <3>1 DEF Answered, ProviderFailures
    <3> QED BY <1>1, <2>1, <3>2, <3>3, <3>4, Zenon DEF CallStep, Begin, RefuseInput
  <2>3. CASE NoKey(c)
    <3>1. k \notin Eligible(c) /\ deactivated' = deactivated /\ limited' = limited
      BY <2>3 DEF NoKey
    <3>2. calls'[c].attempts = calls[c].attempts
      <4>1. calls'[c] = [calls[c] EXCEPT !.step = "done", !.key = Nil, !.outcome = PoolFailure]
        BY <2>0, <2>3, Zenon DEF NoKey, End
      <4> QED BY <2>0, <4>1 DEF CallRecords
    <3>3. k \in deactivated \/ Cooling(k) \/ k \in TriedKeys(c)
      BY <3>1, Zenon DEF Eligible
    <3>4. Cooling(k) => limited[k] # Nil /\ now < limited[k] + CooldownDuration
      BY <1>1 DEF PoolInv, RestInv, Cooling
    <3> QED BY <3>1, <3>2, <3>3, <3>4 DEF TriedKeys
  <2>4. CASE RequestFails(c)
    <3>1. PICK failure \in Failures :
            /\ calls' = [calls EXCEPT ![c] = AfterFailure(c, failure)]
            /\ deactivated' = IF failure = "auth_failed"
                              THEN deactivated \cup {calls[c].key} ELSE deactivated
      BY <2>4, Zenon DEF RequestFails
    <3>2. PICK A \in SUBSET Keys : Serves(A, calls[c])
      BY <1>1, Zenon DEF PoolInv, CallsInv, Running, Finished, At
    <3>3. At(c, "request") /\ calls'[c] = AfterFailure(c, failure)
      BY <2>0, <2>4, <3>1, Zenon DEF RequestFails
    <3>4. PICK r : r = calls'[c]
      BY Zenon
    <3>5. /\ r.max = calls[c].max /\ Tried(r.attempts) \subseteq A
          /\ calls[c].key \in Tried(r.attempts)
          /\ Cardinality(Tried(r.attempts)) = Len(r.attempts)
          /\ (r.step = "done" /\ r.outcome \in ProviderFailures) => Len(r.attempts) = r.max
      <4>1. FailedCall(A, calls[c], AfterFailure(c, failure))
        BY <1>1, <3>2, <3>3, FailureRecord
      <4> QED BY <3>3, <3>4, <4>1 DEF FailedCall
    <3>6. Tried(r.attempts) = A
      <4>1. r.max = Allowed(Cardinality(A)) /\ Len(r.attempts) < CallAttempts /\ Len(r.attempts) = r.max
        BY <1>1, <3>2, <3>4, <3>5 DEF Serves
      <4>2. PICK T \in SUBSET A : T = Tried(r.attempts) /\ T # {}
        BY <3>5, Zenon
      <4> QED BY <3>5, <4>1, <4>2, TriedAll
    <3>7. k \in A \/ k \in deactivated
      BY <3>2 DEF Serves
    <3> QED BY <3>1, <3>4, <3>6, <3>7 DEF Tried
  <2> QED BY <2>2, <2>3, <2>4
<1>2. PoolInv /\ [PoolNext]_poolVars => [\A c \in Calls : GivesUp(c) => \A k \in Keys : Left(c, k)]_poolVars
  BY <1>1, Zenon
<1> QED BY <1>2, PoolInvHolds, PTL DEF PoolSpec, GivesUpOnlyWithoutKeys
=============================================================================
