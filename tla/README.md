# Katherine: TLA+ models, model checking and proofs

This directory specifies the parts of Katherine whose correctness depends on the
order in which things happen, or on arithmetic at its limits: the transactional chat
turn on the server, the ledgers in PostgreSQL around it, the time, keys and prompt
budgets it runs under, the state it moves, the process it runs in, and the desktop
application with its window and its SQLite file. Every definition is translated from
the code; `PROJECT.json` maps each one to its lines.

## The system

Two deployments share the domain code.

- **Server.** The web page calls a FastAPI backend (several processes). `POST /chat`
  reserves an admission, takes the user's lock in its process, reads the profile,
  the history and the memories, asks the provider for an appraisal and a reply and
  commits everything with one RPC, `commit_turn`, that compares the profile's revision.
  A mismatch is retried once. Every later call with the same request id is answered from
  the committed row. Privacy operations, the retention job and the account-deletion
  worker write to the same tables. `ConversationEngine`, which the endpoint's
  `ChatConversationEngine` extends, still has a turn of its own that writes messages and
  state apart; `debug_server.py` and `final_verification.py` run it.
- **Desktop.** The page runs in a pywebview window. Each bridge call runs on a worker
  thread and reaches the `CompanionRuntime`, which keeps its data in a SQLite file, or
  the `WindowController`, which dispatches to the GTK main loop.

| Part of the system | Source | Module | State |
|---|---|---|---|
| Chat endpoint and transactional turn | `main.py`, `process_turn.py`, `chat_engine.py` | `ProcessTurn`, `SerialTurns` | modelled, proved |
| Turn storage in PostgreSQL | migrations `...000004` to `...000006`, `atomic_turn_commit.py` | `TurnStore` | partly, proved through `ProcessTurn` |
| Admission ledger | migration `...000003`, `admission.py` | `AdmissionLedger` | modelled, proved |
| Turn budget and deadline | `turn_execution.py` | `TurnDeadline` | modelled, proved |
| Per-user lock manager | `lock_manager.py` | `UserLocks` | modelled, proved |
| Lifespan, dependencies, health | `main.py`, `dependencies.py`, `health.py`, `runtime_containment.py` | `ServerLifecycle`, `RuntimeContainment` | modelled |
| Privacy operations | `privacy_service.py`, `privacy_operations.py`, migration `20260808...` | `PrivacyService`, `TurnStore` | modelled, proved |
| Account deletion | `account_deletion*.py`, migration `20260810...` | `AccountDeletion`, `AccountErasure` | modelled, `AccountDeletion` proved |
| Operational retention, outbox | `retention*.py`, migration `20260809...` | `RetentionRound` and the modules of the tables | modelled, `RetentionRound` proved; outbox partly |
| Provider key pool | `groq_manager.py`, `groq_language_model.py` | `GroqManager` | modelled, proved |
| Emotional domain, relationship | `emotional_domain/`, `relationship.py` | `EmotionalDomain`, `Relationship`, `TurnState` | partly |
| Trusted context, provider envelope | `memory.py`, `trusted_context.py`, `provider_envelope.py` | `TrustedContext`, `ContextFit` | partly |
| Conversation engine, archival extraction | `engine.py`, `memory.py`, `archival_memory.py` | `ConversationEngine`, `ContextFit` | partly, `ConversationEngine` proved |
| Local storage, legacy import | `local_storage/` | `LocalStorage`, `LegacyImport` | partly, proved with the runtime |
| Companion runtime | `companion_runtime.py` | `CompanionRuntime` | partly, proved |
| Desktop chat page and bridge | `useChat.js`, `desktopBridge.js`, `desktop/api.py` | `DesktopChat` | partly |
| Desktop window | `desktop/app.py`, `AppDesktop.jsx` | `DesktopWindow` | modelled |
| Web chat page, navigation trust, network identity, settings, schema security, presentation, packaging | | | not modelled |

`PROJECT.json` has the complete list, with the reason for every part left out.

## Modules

**TurnStore** holds the tables of one user. Every writing RPC takes the user's
advisory lock first, so an RPC is one step. A snapshot (emotional or relationship
state) is the sequence of turn executions folded into it, which is what tells a lost
update from a kept one; a reply is the call and the attempt that produced it, and
stands for everything that execution writes.

**ProcessTurn** (extends TurnStore) has one action per stretch of a handler between
two awaits: `Arrive`, `Admit`, `AcquireLock`, the three loads, `Generate`, the commit
on the wire (`ExecuteCommit`, `LoseCommit`), its outcome, `RetryTurn`, `Replay`.
The transport may give up on a commit that the database executes later or never gets.
A deadline is a choice wherever the code checks one. Privacy operations and the purges
of old ledger rows run in between. **SerialTurns** is the promise: a turn reads, runs
and writes in one step, an id is recorded at most once, and a privacy operation is one
step between turns. `SerialTurnsImplemented` is the refinement, with the tables
themselves as the mapping.

**UserLocks** is the lock dictionary with reference counts and the queue of
`asyncio.Lock`, including a waiter that is cancelled after the lock was handed to it.

**TurnDeadline** adds the clock: stage limits, the reserve kept for the commit,
writes that are drained instead of abandoned and may outlive the timeout of their
transport, cancellation at every stage.

**AdmissionLedger** is `reserve_admission` with its windows. A call reads the clock
before it waits for the lock, so it decides with an old reading. The retention round
runs on its own, possibly wrong, clock.

**PrivacyService** is the service in front of `privacy_apply_operation`, with
late and lost RPCs and the purge of ledger rows. Turns are single steps here, which `SerialTurnsImplemented` allows.

**AccountDeletion** is the job ledger with leases, attempts and backoff, and workers
that crash or whose calls take effect late. **AccountErasure** composes it with
ProcessTurn.

**GroqManager** is the key pool. Its three critical sections are atomic and everything
between them interleaves.

**RetentionRound** is the retention job over all its categories: batches, limits,
failures before or after a purge took effect, and rounds that overlap.

**ServerLifecycle** is one process: start-up with built or injected dependencies, a
start that fails, readiness polls that share a probe, requests, shutdown, a second
lifespan. A step is what a task does between two suspensions. **RuntimeContainment** is
the check of the worker flags that makes one process have one worker, which the lock of
UserLocks relies on.

**EmotionalDomain** and **Relationship** are the pure state: loaders, the parser of the
model's appraisal, transitions and decay, with numbers in hundredths. **TurnState** lets
two turns and a reset move the snapshots under the revision check, each with the clock
it read at its beginning.

**TrustedContext** is the prompt of a turn, from the rows that are loaded to what is
selected within the budget. **ContextFit** adds the two prompts that the engine cuts
itself: the sections of `fit_optional_context` and the message quoted by the archival
extraction. A text is its length.

**ConversationEngine** (extends TurnDeadline, whose budget, lock and waits it uses) is
the turn with two writes: reads that are abandoned, one of which inserts a profile;
`save_turn` and `sync_state`, each of which may fail and take effect all the same, later;
a cancellation that drains both; the extraction in the background beside a deletion.

**LocalStorage** has one operator per SQLite transaction. **CompanionRuntime** runs
turns, reads and privacy operations on bridge threads, with the unlocked test and
assignment of `_ensure_storage` as separate steps, transactions and releases that fail,
and restarts at any point.
**LegacyImport** adds `import_legacy_fixture` beside the running turns.
**DesktopChat** composes it with the page: what the last rendering offers is kept apart
from the state, so a click may act on an older screen; responses arrive in any order.

**DesktopWindow** is the controller with its lock, the bounded wait of `_dispatch_sync`,
the GUI thread that runs callbacks, native calls that fail half-way, the user's drags,
a monitor that goes away, and what `AppDesktop` shows.

The `MC*` modules add constants and symmetry sets for TLC. Several of them put
components side by side that share no state: a variable `part`, chosen in the initial
state, says which of them the behaviour explores, and the others keep their initial
state. That is the union of the separate checks, not a composition; the compositions are
`AccountErasure`, `DesktopChat`, `LegacyImport` and `ConversationEngine`. Operators named
`Mut...` are deliberate errors, each next to the definition it alters; nothing uses them
unless one is substituted to see that a property notices.

## Runs

| Run | What it shows | Instance |
|---|---|---|
| `turn_answers` | answers fit their message; every call is answered | 2 calls of one process, 2 ids, 2 messages, 1 privacy operation |
| `turn_privacy` | one commit per admission, no stale read committed, the serial specification is implemented | 2 processes, 2 privacy operations, purges, 2 admissions per id |
| `server_process` | one turn of a user at a time, one probe in flight, nothing outlives the lifespan, one worker; every wait ends | 3 turns; 2 lifespans with 2 polls, or 1 and a request; command lines of up to 3 arguments |
| `turn_time` | only a write that outlives its transport timeout keeps a turn beyond its deadline, no write is abandoned; the engine's two writes are split or lost only by a failure or by such a write, extractions have their message; nobody gives up while a key is left | 2 turns, writes up to 2 units too long; 2 turns, a deletion; 2 completions, 3 keys |
| `turn_inputs` | quotas hold despite old clock readings and purges; stored snapshots serve the next turn; appraisals are read as meant; prompts fit and keep what matters most | 1 user, 2 sessions, 3 ids, over a day; 2 turns and a reset; 6 rows of history; every small combination of keys, sections and message sizes |
| `privacy_deletions` | applied once per ledger row, ok means gone | 3 calls of one operation id, 2 turns, the purge of the row |
| `maintenance_jobs` | completed means deleted, only the lease owner acts, the job settles; a successful round has purged what was expired, and no category is starved | 2 workers, 1 request, 2 attempts, 2 late calls; 2 overlapping rounds, 3 categories |
| `runtime_turns` | deleted history stays deleted, one execution per id and no pending row without an owner or a failed release, one turn per request, repeatable results, no lost update | 2 threads, 2 turns, 1 privacy operation, 1 restart; or 2 imports beside one thread |
| `desktop_shell` | the page shows no wrong or deleted answer and calls nothing failed that still runs; the window has the mode the controller and the page report, returns where it was and never blocks for good; clamping is idempotent and lands in a work area | 2 sends, 2 turns and 2 events, one of them a deletion; 3 window calls, or 2 with a drag and a lost monitor; 840 rectangles and layouts |

Three runs end in a counterexample: a statement in the documentation or in a comment
that the code does not keep. `PROJECT.json` quotes each.

- `erasure_resurrection`: a turn in flight during the purge of an account commits
  afterwards and recreates the user's rows.
- `runtime_opening`: two first bridge calls both open the store, and the recovery of
  the second fails the turn the first has admitted.
- `window_tracking`: the wait for the GUI thread ends while the callback is running; the
  controller answers a timeout and keeps its mode, and the callback changes the window.
  `ModeMatchesWindow` therefore excepts a window that a late callback has changed.

Four smaller differences between documents and code show in the models; no run states
them.

- `bounded-turn-execution.md` lets a cancelled turn leave its writes behind. Of
  `run_blocking_write` it says that on cancellation "the underlying thread continues (it's
  not cancellable) but the coroutine stops waiting" (lines 103-105); of the commit section,
  that the wait after a cancellation has a fixed deadline and ends with it (188-196); and
  of the result, that `commit_task` then goes on "in the background without the user lock":
  "This risk is accepted" (446-450). The code abandons nothing: `run_blocking_write` waits
  under a shield until its worker is done, however often it is cancelled
  (`turn_execution.py:245-273`), the commit section of the engine does the same
  (`engine.py:684-715`), and both hold the lock meanwhile, with no time limit.
  `NoAbandonedWrite` and `CommitsHoldTheLock` state what the code does, so they contradict
  the document; the price is the write that keeps a turn beyond its deadline (see
  `EndsByDeadline`).

- A reset repeated under its operation id a moment later is an `operation_conflict`:
  its payload carries the time of the call (`privacy_service.py:208`), and the ledger
  compares payloads. `user-data-lifecycle.md:152` says that identical operations replay.
- A completion that finds no budget left raises `turn_timeout`
  (`groq_manager.py:438`), but the adapter does not know that exception and makes it
  `provider_unavailable` (the outcome `no_budget`). `bounded-turn-execution.md:319`
  gives it 504 `turn_timeout`.
- An async call whose request is rejected with 4xx tries the next key and reports
  `connection_failed` if that key is resting (`PoolFailure`).
  `bounded-turn-execution.md:293` promises `invalid_request`.

### Bounds

The hard cases need few actors: a lost update needs two turns, an overtaken lease two
workers, a window with an old reading two sessions, a raced purge two rounds. The
constants give each run that many and one more event where a retry or a purge matters.
`MaxAdmissions`, `MaxApplied`, `MaxLate`, `MaxSends`, `MaxEvents`, `MaxTurns`,
`MaxPrivacy`, `MaxObjects`, `MaxOverrun`, `MaxStarts`, `MaxImports`, `MaxStartups`, `MaxPolls`,
`MaxCalls`, `MaxRows`, `MaxClock`, `MaxTime`, `LastDay`, `LastTime` and `LastArrival`
bound counters that are unbounded in the code; each appears in a guard under its name.
Periods (a minute, a day, a lease, a backoff, half-lives, the stage timeouts) are a few
time units whose order is that of the code.

- `desktop_shell`: an admitted turn fails with `rate_limited` only and the panel offers
  only `delete_history`.
- `turn_inputs`: a single user makes the user's limit the one that bites; the limits of a
  network and of the application are covered by the proof. The budget of a prompt is 20
  units, so that every section and row can be the one that no longer fits; the archival
  prompt has the real budget.
- `maintenance_jobs`: there is one request: a claim takes any due job, where the SQL
  takes the one that is due longest, so with two jobs the model could starve one of them,
  which the order of the claim is there to prevent. What is safe about the ledger is
  proved for any number of jobs, workers and attempts.
- `runtime_turns`: imports are explored with one thread at a time and a store that stays
  open; they hold the lock of the store throughout. Without imports, a store is closed
  only to be opened again by a restart. The proofs have neither bound.
- `desktop_shell`: of two events on the page one is a deletion of the history, so that
  the other, which is not a restart, may come before it, after it or in the middle of it.
  A release fails before the first of them.
- `turn_time`: a write takes at most `MaxOverrun` = 2 units longer than the timeout of its
  transport, enough for the first of two writes to use up the reserve and for a commit to
  run beyond the deadline. In the engine either writes fail or one turn's take too long
  (`OneTrouble`). The proofs have any `MaxOverrun` and no such rule.
- `privacy_deletions`: a behaviour has a second reading of the clock or a purged ledger
  row, not both. The proof has no such rule.
- `turn_answers`: one instance and one privacy operation. Revision conflicts between
  instances are in `turn_privacy`, which has no fairness, and in `turn_time`, where every
  commit may end in a mismatch.

Symmetry is used in no run of a liveness property.

Deadlock is checked in `maintenance_jobs` and `turn_time`. The other models end when
their calls have been answered or a bound is reached.

### Fairness

- `turn_answers`: weak fairness of each handler. The event loop runs every ready
  task and every await has a timeout. The database need not answer.
- `server_process`: weak fairness of each task: the holder's turn ends, a woken task
  runs, a poll's timeout fires, the shutdown goes on. The service that is probed need
  not answer.
- `maintenance_jobs`, deletion: the clock moves, rounds keep being started, each call
  returns, times out or its worker dies, and rounds that keep coming keep reaching the
  database (strong fairness of the claim: a claim may find the row leased again and
  again). Retention: rounds keep being started and end. That a scheduler starts the jobs
  is an assumption about the operation, not about the code.

## Proofs

TLAPS proves these for all values of the constants that satisfy the `ASSUME` of the
module, that is for sets of any size.

- **Turns** (`TurnFreshnessProofs`, `TurnOutcomeProofs`). `TypeOK`, `NoLostUpdate`,
  `ReadsHoldAtCommit`, `AtMostOncePerAdmission`, `AnswersWereCommitted`,
  `AnswerFitsMessage` and the refinement of `SerialTurns`. The properties are not
  inductive, because comparing revisions says nothing by itself about what was read.
  The invariant says that the revision a load carries still names the state it was
  read from (`Fresh`), for what a call has loaded and for what is on the wire: every
  step either leaves everything a turn reads alone or raises the revision past every
  revision read so far. For outcomes, `ExecutionInv` adds that an id has one execution
  at a time, from its admission until its commit has happened or can no longer happen,
  and that its reservation lasts as long. For answers, `MessageInv` adds that all
  executions of an id have one message. This needs `MaxAdmissions = 1`, a hypothesis of
  that theorem: an id is admitted again only once its reservation was purged, a day
  later, and nothing then ties it to the message it had.
- **Locks and admission** (`TurnGateProofs`). Of `UserLocks`: `MutualExclusion`,
  `EntryServesAll`, `NoOvertaking`. The invariant ties the entry's count to the tasks that
  use it and says that the queue of a lock lists exactly its waiters, a woken one at the
  head. Of `AdmissionLedger`: `WithinQuotas`, that is `MinuteLimits`, `DailyLimit` and
  `AdmittedOnceADay`, and `OnlyExpiredPurged`. A deciding call has read the clock at most
  `MaxWait` ago and a purged row is older than a day, so every reservation in a
  window with the new one is still a row and was counted. This is why the daily
  statements hold for a day less `MaxWait`.
- **Privacy operations** (`PrivacyServiceProofs`). `AppliedOnce` and `DeletedIsGone`. The
  invariant says that the ledger has a row exactly for what was applied and not purged
  since, and, of each report of success and each row of a deletion, that nothing
  remembered was there before some call that asked for it.
- **Account deletion** (`MaintenanceProofs`). `TypeOK`, `CompletedMeansDeleted`,
  `PurgedBeforeAuth`, `OnlyTheOwnerActs`. What each stage of a worker, and each call left
  in flight, has established is stated about the two facts that are never undone: a
  committed purge and a deleted Auth user. So a stale worker or a late call can only
  repeat the truth. That only the owner acts follows from the same invariant: a claim
  passes over a live lease and every other call is checked against owner and lease.
- **Retention** (`MaintenanceProofs`). `SuccessMeansPurged`, of the retention job with any
  tables to begin with. The invariant says that a batch contains all that the round still
  owes in its category unless the batch is full, and that in the categories behind it a
  round that was never raced owes nothing or has reached the limit. Rows only go, or come
  with the date of today, so other rounds and new rows add nothing to what is owed.
- **Deadline** (`TurnDeadlineProofs`). `EndsByDeadline`, `NoAbandonedWrite`,
  `CommitsHoldTheLock`, `CancellationWins`, `CommitKeepsReserve`. The invariant says for
  each stage how late its wait may end: by the start of the reserve before the commit,
  one transport timeout later for the commit; a wait for the lock that
  begins later, because the admission took too long, is over at once.
- **Key pool** (`TurnDeadlineProofs`). `GivesUpOnlyWithoutKeys`, of `PoolSpec`. The invariant
  says of each completion that some set of keys, those active when it began, contains what
  it may try, that it has tried no key twice and that every other key is deactivated; so a
  count of attempts that has reached the number of keys means that all were tried. A key
  that rests does so because of its own last 429.
- **Engine with two writes** (`ConversationEngineProofs`). `OnlyFailuresLose` and
  `ExtractionsHaveSources`, of `EngineSpec`. Neither is inductive. The invariant says of
  a turn in its first write how late that write may end unless it overruns its timeout, so
  that the reserve of two transport timeouts leaves time to begin the second; that a turn which has loaded
  holds the lock and, as long as no write failed, still sees the stored profile; and that
  an extraction exists only behind an answered turn. The abandoned insertion of a first
  profile can do no harm because it changes only a profile that is not there, which no
  turn has loaded.
- **Desktop runtime** (`CompanionRuntimeProofs`). `NothingComesBack`, `AnswersFit`,
  `ReservationsAreOwned`, `OneTurnPerRequest` and `NoLostUpdate`, of `ImportSpec`: turns,
  reads, privacy operations, restarts, closing and imports together. The invariant is
  about the row of a request id, in each generation (the count of deletions): a completed
  row never changes within its generation, every message and every answer has its row, a
  turn in flight keeps its row from being free, no two turns in flight share an id
  and a generation, and a row that stays pending behind a failed release is remembered
  as left over until the next open. What a turn has loaded is the profile as long as the revision has not
  moved. A restart and an import are single steps of this argument, because recovery fails
  every pending row and an import adds rows only under free ids.

The assumptions are the relations between the constants that the configuration classes
enforce (`RetentionAssumption`: horizons are not negative, a batch and a limit are at least
one row), and that the values which stand for "nothing" (`None`, `NoRow`, `NoCall`) are not
values of another kind (`NoneAssumption`, `NoRowAssumption`). `FixturesAssumption` says
that an export is a sequence of entries with or without a valid id and message, and
`BoundsAssumption` that the bounds of the runtime are numbers.

Only proved, with no run of their own: `NoLostUpdate` of the server's turns,
`AnswersWereCommitted`, `EntryServesAll`, `NoOvertaking`, `PurgedBeforeAuth`,
`OnlyExpiredPurged`, `CommitsHoldTheLock`, `CancellationWins`, `CommitKeepsReserve`.

Only model-checked:

- every liveness property (`EveryCallAnswered`, `EveryJobSettles`, `BacklogDrains`,
  `EveryWaitEnds`): fairness is out of the prover's reach;
- `DailyUnits`, a sum over a set of reservations, which needs an induction over data;
- what folds and recursive functions compute: `PromptServesTurn` and `EnginePromptsFit` (the
  selection of rows and sections), `ReadAsMeant` (the parser), `OneWorker` (the scan
  of the command line);
- `SnapshotsServeTurns` and `ClampSettles`, products and quotients of numbers that are
  checked over every combination of a small range;
- `OneProbeInFlight`, `NothingOutlivesLifespan`, `SentIsAnswered`, `ShownIsStored`,
  `FailedMeansOver`, `ModeMatchesWindow`, `NobodyWaitsForever` and `ReturnsWhereItWas`: nothing stands against a
  proof but its length. The process and the window have two dozen kinds of step each, with
  an invariant for every stage of every task, and few actors, so that the runs cover what
  can happen up to the number of calls.

## Where the guarantees end

Conditions that the properties state, and what the code does outside of them.

- **Writes without a time limit.** `run_blocking_write` waits for its worker as long as it
  takes (`turn_execution.py:194`, `:245`); only the transport ends it. A write that outlives
  the transport timeout keeps its turn, and the lock, beyond the deadline, as
  `test_bounded_turn_execution.py:1073-1153` asserts. `EndsByDeadline` excepts exactly
  the turn with such a write running.
- **Failing releases.** `_commit_turn_inner` swallows an error of `release_request`
  (`companion_runtime.py:653-658`), be it a closed store or a transaction that fails
  (`storage.py:924-927`). The row stays pending, and its id in progress, until the next
  open; `ReservationsAreOwned` excepts these rows and no other.
- **Purged privacy operations.** Once the retention job has removed the ledger row of a
  privacy operation, a call with its id, or a late RPC of it, applies it again:
  `AppliedOnce` counts one application per ledger row.
- **Engine with two writes.** `OnlyFailuresLose` holds as long as no write fails, and
  excepts a `save_turn` that outlives its transport timeout: if it uses up the reserve,
  `sync_state` is refused and the turn ends in `turn_timeout`, or as cancelled, with its
  messages stored and its state not, as `test_bounded_turn_execution.py:1684-1726` and
  `:1788-1872` assert. A
  `sync_state` whose transport failed may be applied after the next turn's and overwrite
  it; a `save_turn` may be applied although the turn was answered with an error.
  `load_user_state` is run as a read that a timeout abandons although it inserts a
  profile; the primary key keeps that insertion from harming a profile that exists.
- **Blank messages.** `PromptServesTurn` relies on the page, which trims its input
  (`ChatInput.jsx:33`). The endpoint accepts a message of blanks only, and
  `LoadedContextData` (`trusted_context.py:461`) would refuse the history of every
  later turn that contains it.
- **Clocks.** A turn reads its clock before it loads (`process_turn.py:346`). A reset or a
  turn of another instance in between leaves a snapshot that is newer, and the turn fails
  in the domain (`relationship.py:694`), as `relationship-state-v1.md:112` says.
- **Readiness.** A poll whose probe the shutdown cancels ends with the cancellation, not
  with 503; polls that overlap fail fast.
- **Retention.** A batch that another round raced comes back short and ends the category
  for this round, with exit code 0.
- **Window.** See `window_tracking`; and the rollback of a transition to the mode the
  window is already in sets the other decoration.
- **Legacy import.** It has no caller in `src` besides the tests. Only `sqlite3.Error` and
  `ValidationError` roll it back: a value that cannot be encoded leaves the transaction
  open on that connection (`legacy_import.py:258`). The model imports values that can be.
- **Optional sections.** `_build_generation_messages` has no caller besides the tests.
  Its docstring ranks memories newest first (`engine.py:1027`); the code keeps the
  retrieval order. With `truncate_long_messages`, which no caller sets, the budget of a
  shortened section counts neither the newline that joins it nor the escaping of the
  suffix, so a shortened section fits only if the cut also dropped part of a character.

## What the models leave out

- **Web chat page.** The web branch of `useChat` over HTTP: its retries and late answers
  are those of the client of ProcessTurn, its list of messages that of DesktopChat.
- **Strings.** `resolve_network_identity`, `NavigationPolicy`, settings, the wording of
  policies and presentations: what is difficult about them is the text, which these
  models abstract. Argument validation and parsing of RPC results are error branches.
- **Declarations and tools.** Grants and row level security, logging, rendering,
  packaging, benchmarks.
- The pending rows and leases of `turn_requests`, with the `request_in_progress` and
  reclaim branches of `commit_turn`: nothing in `src` writes such a row. No worker claims
  outbox events.
- `account_deletion_has_tombstone` and the request RPC have no caller outside their
  repository class; requests are a step of the environment.
- TurnDeadline takes timers to be prompt; the backoff before a provider retry is part of that attempt's limit.
  `GroqLanguageModel.generate` does not bound the reply, while `commit_turn` refuses a
  replay payload of more than 8192 bytes: in ProcessTurn such a commit is one that is
  never executed (`LoseCommit`).
- Local memories, hence `delete_memories` on the desktop, which also leaves the local
  revision alone.
- In CompanionRuntime a turn under way when the runtime is closed reopens the store, as
  the code does. DesktopChat leaves closing out: the page is gone by then.
- In DesktopChat the privacy panel may be closed and opened again, so its single-flight
  flag does not limit the calls. Which error an admitted turn fails with is left open
  (`TurnErrors`). A slow attempt may still commit after a retry of it was shown as
  failed: `FailedMeansOver` speaks of the attempt whose failure is shown.
- Emotions and relationship are in fixed point: what the code rounds in binary floating
  point is not claimed to the last bit. Two instances have one clock.
- In ConversationEngine an extraction is stored once: each turn starts one, so the
  duplicate key of `store_archival_extraction` is never met.
