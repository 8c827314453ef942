---------------------------- MODULE RetentionRound -----------------------------
(***************************************************************************)
(* Rounds of the retention job over its three categories, by runners that  *)
(* may overlap: a scheduled job that is slow and the next one.  A purge    *)
(* statement picks its batch and then deletes what is still there, as two  *)
(* statements of one table may in PostgreSQL.  A call may fail before or   *)
(* after it took effect; either way the round is over.                     *)
(***************************************************************************)
EXTENDS Integers, Sequences, FiniteSets

CONSTANTS
  Runners,                                \* processes that run retention_cli
  AdmissionHorizon, PrivacyHorizon,       \* 24 h and 30 days in the code
  PurgeBatch, PurgeLimit,                 \* batch_size and max_rows_per_category
  Offsets,                                \* how far the clock of a runner is off
  RowIds,                                 \* bound: new rows of a category at a time
  Growing,                                \* bound: categories that get new rows
  LastDay                                 \* bound on the database clock

ASSUME RetentionAssumption ==
  /\ AdmissionHorizon \in Nat /\ PrivacyHorizon \in Nat
  /\ PurgeBatch \in Nat \ {0} /\ PurgeLimit \in Nat \ {0}
  /\ Offsets \subseteq Int /\ RowIds \subseteq Nat

VARIABLES
  now,      \* clock_timestamp() of the database
  stored,   \* the rows of each category
  runner    \* where each runner stands in its round

retentionVars == <<now, stored, runner>>

\* In the order of run_once.
Categories == <<"admission_reservations", "privacy_operations", "outbox_events">>

\* An outbox event is eligible by its own retention_until.
HorizonOf(c) ==
  CASE c = "admission_reservations" -> AdmissionHorizon
    [] c = "privacy_operations" -> PrivacyHorizon
    [] OTHER -> 0

\* at is reserved_at, applied_at or retention_until; only an outbox event that
\* is completed or a dead letter is final, every other row counts as final.
RowsOf(c) == [id : RowIds, at : Nat, final : IF c = "outbox_events" THEN BOOLEAN ELSE {TRUE}]

-----------------------------------------------------------------------------
(* The purge functions.                                                    *)

\* retention_cutoffs: one reading of the runner's clock serves the whole round.
Cutoff(w, c) == runner[w].clock - HorizonOf(c)

\* The database takes the lesser of the runner's cutoff and its own.
Eligible(w, c) ==
  {r \in stored[c] : r.final /\ r.at < Cutoff(w, c) /\ r.at < now - HorizonOf(c)}

\* The oldest of S, PurgeBatch at most.
Oldest(S, B) ==
  /\ B \subseteq S
  /\ \A r \in B, e \in S \ B : r.at <= e.at
  /\ B = S \/ Cardinality(B) = PurgeBatch
  /\ Cardinality(B) <= PurgeBatch

\* The subquery of the DELETE: filter, order, limit.
Picks(w, c, B) == Oldest(Eligible(w, c), B)

-----------------------------------------------------------------------------
(* A round.                                                                *)

\* at: the category; picked: the batch of the statement under way; full: the
\* categories that reached the row limit; raced: a batch found rows gone.
\* began: history variable, the database clock at the start.
NoRound == [pc |-> "idle", at |-> 0, clock |-> 0, began |-> 0, total |-> 0, picked |-> {},
            full |-> {}, raced |-> FALSE]

Over(w) == runner[w].pc \in {"idle", "done", "failed"}

InCategory(w) == Categories[runner[w].at]

\* main and run_once, up to the first call.
run_once(w, offset) ==
  /\ Over(w)
  /\ runner' = [runner EXCEPT ![w] = [NoRound EXCEPT
       !.pc = "asking", !.at = 1, !.clock = now + offset, !.began = now]]
  /\ UNCHANGED <<now, stored>>

\* The configuration is incomplete or invalid: exit code 1 without a call.
Misconfigured(w) ==
  /\ Over(w)
  /\ runner' = [runner EXCEPT ![w] = [NoRound EXCEPT !.pc = "failed"]]
  /\ UNCHANGED <<now, stored>>

\* The statement picks its batch.
Pick(w, B) ==
  /\ runner[w].pc = "asking"
  /\ Picks(w, InCategory(w), B)
  /\ runner' = [runner EXCEPT ![w].pc = "purging", ![w].picked = B]
  /\ UNCHANGED <<now, stored>>

\* Mutant: a full batch ends the category too.
MutCategoryOver(count, total) == count <= PurgeBatch

\* Mutant: only the row limit ends the category.
MutNotOver(count, total) == total >= PurgeLimit

\* The loop of _purge_category ends.
CategoryOver(count, total) == count < PurgeBatch \/ total >= PurgeLimit

\* The count of a batch has come: the next batch, category or the end.
AfterBatch(w, count) ==
  LET r == runner[w]
      total == r.total + count
      rest == [r EXCEPT !.picked = {}, !.raced = @ \/ count < Cardinality(r.picked)]
  IN IF ~CategoryOver(count, total) THEN [rest EXCEPT !.pc = "asking", !.total = total]
     ELSE [rest EXCEPT
       !.total = 0,
       !.full = IF count < PurgeBatch \/ total < PurgeLimit THEN @ ELSE @ \cup {InCategory(w)},
       !.pc = IF r.at = Len(Categories) THEN "done" ELSE "asking",
       !.at = IF r.at = Len(Categories) THEN r.at ELSE r.at + 1]

\* ROW_COUNT counts the rows of the batch that were still there.
Deleted(w) == stored[InCategory(w)] \cap runner[w].picked

purge(w) ==
  /\ runner[w].pc = "purging"
  /\ stored' = [stored EXCEPT ![InCategory(w)] = @ \ Deleted(w)]
  /\ runner' = [runner EXCEPT ![w] = AfterBatch(w, Cardinality(Deleted(w)))]
  /\ UNCHANGED now

\* The call fails, its answer is lost or malformed, or the budget of the category
\* is spent: the round ends with exit code 1 and the later categories are left.
PurgeFails(w, applied) ==
  /\ runner[w].pc = "purging" \/ (runner[w].pc = "asking" /\ ~applied)
  /\ stored' = IF applied THEN [stored EXCEPT ![InCategory(w)] = @ \ Deleted(w)] ELSE stored
  /\ runner' = [runner EXCEPT ![w] = [NoRound EXCEPT !.pc = "failed"]]
  /\ UNCHANGED now

-----------------------------------------------------------------------------
(* The rest of the system.                                                 *)

\* A turn is admitted, a privacy operation applied or an event queued.
Insert(c, r) ==
  /\ r \in RowsOf(c) /\ r.at = now /\ \A o \in stored[c] : o.id # r.id
  /\ stored' = [stored EXCEPT ![c] = @ \cup {r}]
  /\ UNCHANGED <<now, runner>>

PassTime ==
  /\ now < LastDay
  /\ now' = now + 1
  /\ UNCHANGED <<stored, runner>>

RetentionInit(start, population) ==
  /\ now = start
  /\ stored = population
  /\ runner = [w \in Runners |-> NoRound]

Runs(w) ==
  \/ \E B \in SUBSET stored[InCategory(w)] : Pick(w, B)
  \/ purge(w)

RetentionNext ==
  \/ \E w \in Runners :
       \/ (\E d \in Offsets : run_once(w, d)) \/ Misconfigured(w)
       \/ ~Over(w) /\ Runs(w)
       \/ \E applied \in BOOLEAN : PurgeFails(w, applied)
  \/ \E c \in Growing, i \in RowIds, final \in BOOLEAN :
       Insert(c, [id |-> i, at |-> now, final |-> final])
  \/ PassTime

\* The scheduler starts rounds for ever, and a round goes on.
RetentionFairness ==
  \A w \in Runners :
    /\ WF_retentionVars(\E d \in Offsets : run_once(w, d))
    /\ WF_retentionVars(~Over(w) /\ Runs(w))

-----------------------------------------------------------------------------
(* Properties.                                                             *)

\* A round that ends with exit code 0 has purged, in every category that did not
\* reach its row limit, all that was expired by both clocks when it began,
\* unless another round took rows of one of its batches.  With an overlapping
\* round it may stop early: the short count of a raced batch ends the category.
SuccessMeansPurged ==
  \A w \in Runners : runner[w].pc = "done" /\ ~runner[w].raced =>
    \A c \in DOMAIN stored : c \notin runner[w].full =>
      ~\E r \in stored[c] : r.final /\ r.at < Cutoff(w, c) /\ r.at < runner[w].began - HorizonOf(c)

\* Rows that are expired by every clock.
Overdue(c) ==
  {r \in stored[c] : r.final /\ \A d \in Offsets \cup {0} : r.at < now + d - HorizonOf(c)}

\* A round that fails, fails at a category after the i-th.
FailsLater(i) ==
  [][\A w \in Runners : runner'[w].pc = "failed" /\ runner[w] # runner'[w] =>
       ~Over(w) /\ runner[w].at > i]_retentionVars

\* If from some time on no round fails at a category or at one before it, the
\* expired rows of that category are purged again and again, although rounds
\* overlap, are limited, and fail at later categories for ever.
BacklogDrains ==
  \A i \in DOMAIN Categories : <>FailsLater(i) => []<>(Overdue(Categories[i]) = {})
=============================================================================
