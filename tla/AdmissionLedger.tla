--------------------------- MODULE AdmissionLedger ---------------------------
(***************************************************************************)
(* reserve_admission and its quota windows, with the retention round that  *)
(* purges old reservations.  The function reads the clock when it starts   *)
(* and then waits for the global advisory lock, so it decides with a       *)
(* reading that may be old, after reservations with later readings.        *)
(***************************************************************************)
EXTENDS Integers, FiniteSets, FiniteSetsExt

CONSTANTS
  Users, RequestIds, Messages, Networks,
  Sessions,             \* database sessions that run reserve_admission
  Units,                \* estimated units a message may cost
  Minute, Day,          \* lengths of the rolling windows
  UserPerMinute, NetworkPerMinute, ApplicationPerMinute, UserPerDay,
  UnitsPerDay,
  MessageMaxUnits,
  BatchSize,            \* batch_size of a retention round
  MaxRowsPerCategory,   \* max_rows_per_category of a retention round
  MaxWait,              \* bound: longest wait for the lock (statement timeout)
  Skews,                \* how far the clock of the retention job may be off
  MaxClock,             \* bound on the database clock, for TLC
  NoCall

Requests == [user : Users, request : RequestIds, message : Messages,
             network : Networks, units : Units, at : Nat]

ASSUME LedgerAssumption ==
  /\ {UserPerMinute, NetworkPerMinute, ApplicationPerMinute, UserPerDay,
      Minute, Day, MaxWait, BatchSize, MaxRowsPerCategory, MaxClock} \subseteq Nat
  /\ Units \subseteq Nat
  /\ Skews \subseteq Int
  /\ Minute + MaxWait <= Day
  /\ BatchSize >= 1
  /\ MaxRowsPerCategory >= BatchSize
  /\ NoCall \notin Requests

VARIABLES
  clock,     \* clock_timestamp()
  rows,      \* admission_reservations
  history,   \* history variable: every reservation made for an account that still exists
  waiting,   \* the call of each session that waits for the lock, or NoCall
  round      \* the retention round: its cutoff and the rows purged so far, or NoCall

ledgerVars == <<clock, rows, history, waiting, round>>

\* Type invariant.
LedgerTypeOK ==
  /\ clock \in Nat
  /\ rows \subseteq Requests
  /\ history \subseteq Requests
  /\ waiting \in [Sessions -> Requests \cup {NoCall}]
  /\ round \in [cutoff : Int, total : 0..MaxRowsPerCategory - 1] \cup {NoCall}

LedgerInit ==
  /\ clock = 0
  /\ rows = {}
  /\ history = {}
  /\ waiting = [c \in Sessions |-> NoCall]
  /\ round = NoCall

-----------------------------------------------------------------------------
OfUser(S, u) == {r \in S : r.user = u}
OfNetwork(S, n) == {r \in S : r.network = n}

\* Mutant: rows of calls that read the clock later are not counted.
MutRecent(S, now, w) == {r \in S : r.at > now - w /\ r.at <= now}

\* Rows newer than now - w, those of calls that read the clock later included.
Recent(S, now, w) == {r \in S : r.at > now - w}

TotalUnits(S) == MapThenSumSet(LAMBDA r : r.units, S)

\* A duplicate is a row of the same user and request id.
Taken(q) == {r \in rows : r.user = q.user /\ r.request = q.request}

MinuteFull(S, q, limit) == Cardinality(Recent(S, q.at, Minute)) >= limit

DayFull(q) == Cardinality(Recent(OfUser(rows, q.user), q.at, Day)) >= UserPerDay

\* Mutant: the units of the new message are not counted.
MutUnitsExceeded(q) == TotalUnits(Recent(OfUser(rows, q.user), q.at, Day)) > UnitsPerDay

UnitsExceeded(q) ==
  TotalUnits(Recent(OfUser(rows, q.user), q.at, Day)) + q.units > UnitsPerDay

\* Validation, then duplicates, then the windows in this order.
Decision(q) ==
  IF q.units \notin 1..MessageMaxUnits THEN "invalid_admission_input"
  ELSE IF Taken(q) # {} THEN IF \E r \in Taken(q) : r.message = q.message
                             THEN "request_replay_unavailable" ELSE "request_id_conflict"
  ELSE IF MinuteFull(OfUser(rows, q.user), q, UserPerMinute) THEN "user_rate_limited"
  ELSE IF MinuteFull(OfNetwork(rows, q.network), q, NetworkPerMinute) THEN "network_rate_limited"
  ELSE IF MinuteFull(rows, q, ApplicationPerMinute) THEN "application_rate_limited"
  ELSE IF DayFull(q) THEN "user_daily_request_quota_exceeded"
  ELSE IF UnitsExceeded(q) THEN "user_daily_unit_quota_exceeded"
  ELSE "admitted"

\* The call starts: the clock is read before the lock is taken.
Begin(c, q) ==
  /\ waiting[c] = NoCall
  /\ waiting' = [waiting EXCEPT ![c] = q]
  /\ UNCHANGED <<clock, rows, history, round>>

\* The call has the lock: decide, and insert the row if it is admitted.  Each
\* query sees the purges committed before it; as a purge only takes rows away
\* that a later query would count, the whole is one step at its last query.
reserve_admission(c) ==
  LET q == waiting[c]
      admitted == IF Decision(q) = "admitted" THEN {q} ELSE {}
  IN /\ waiting[c] # NoCall
     /\ waiting' = [waiting EXCEPT ![c] = NoCall]
     /\ rows' = rows \cup admitted
     /\ history' = history \cup admitted
     /\ UNCHANGED <<clock, round>>

\* The statement is cancelled before it gets the lock.
Abort(c) ==
  /\ waiting[c] # NoCall
  /\ waiting' = [waiting EXCEPT ![c] = NoCall]
  /\ UNCHANGED <<clock, rows, history, round>>

-----------------------------------------------------------------------------
(* The retention round.                                                    *)

\* The cutoff comes from the clock of the job, which may be wrong.
StartRound(skew) ==
  /\ round = NoCall
  /\ round' = [cutoff |-> clock + skew - Day, total |-> 0]
  /\ UNCHANGED <<clock, rows, history, waiting>>

\* The database clamps the cutoff with its own clock.
Expired(cutoff) == {r \in rows : r.at < cutoff /\ r.at < clock - Day}

\* The oldest expired rows, a batch at most.
Batch(cutoff, S) ==
  /\ S \subseteq Expired(cutoff)
  /\ \A r \in S, e \in Expired(cutoff) \ S : r.at <= e.at
  /\ \/ S = Expired(cutoff) /\ Cardinality(S) <= BatchSize
     \/ Cardinality(S) = BatchSize

\* The round ends with an incomplete batch or at its row limit.
RoundOver(count, total) == count < BatchSize \/ total >= MaxRowsPerCategory

\* One batch of the round.
purge_admission_reservations(S) ==
  LET total == round.total + Cardinality(S) IN
  /\ round # NoCall
  /\ Batch(round.cutoff, S)
  /\ rows' = rows \ S
  /\ round' = IF RoundOver(Cardinality(S), total) THEN NoCall
              ELSE [round EXCEPT !.total = total]
  /\ UNCHANGED <<clock, history, waiting>>

\* Timeout, failure or end of the job.
StopRound ==
  /\ round # NoCall
  /\ round' = NoCall
  /\ UNCHANGED <<clock, rows, history, waiting>>

\* The purge of a deleted account takes all its reservations.
account_deletion_purge(u) ==
  /\ rows' = rows \ OfUser(rows, u)
  /\ history' = history \ OfUser(history, u)
  /\ UNCHANGED <<clock, waiting, round>>

\* Time passes; no call waits for the lock longer than MaxWait.
Tick ==
  /\ clock < MaxClock
  /\ \A c \in Sessions : waiting[c] # NoCall => clock - waiting[c].at < MaxWait
  /\ clock' = clock + 1
  /\ UNCHANGED <<rows, history, waiting, round>>

-----------------------------------------------------------------------------
LedgerNext ==
  \/ \E c \in Sessions :
       \/ \E u \in Users, i \in RequestIds, m \in Messages, n \in Networks, x \in Units :
            Begin(c, [user |-> u, request |-> i, message |-> m, network |-> n,
                      units |-> x, at |-> clock])
       \/ reserve_admission(c)
       \/ Abort(c)
  \/ \E s \in Skews : StartRound(s)
  \/ \E S \in SUBSET rows : purge_admission_reservations(S)
  \/ StopRound
  \/ \E u \in Users : account_deletion_purge(u)
  \/ Tick

LedgerSpec == LedgerInit /\ [][LedgerNext]_ledgerVars

-----------------------------------------------------------------------------
(* Properties.                                                             *)

\* The reservations of S in the window of length w that ends at time t.
Window(S, t, w) == {r \in S : t - w < r.at /\ r.at <= t}

\* No window of length w holds more than limit reservations of S; it is enough
\* to look at the windows that end with a reservation.
Bounded(S, w, limit) == \A e \in S : Cardinality(Window(S, e.at, w)) <= limit

\* In no rolling minute are more turns admitted than the limits of a user, of
\* a network and of the application allow, although a call decides with an old
\* reading of the clock and purges run in between.
MinuteLimits ==
  /\ \A u \in Users : Bounded(OfUser(history, u), Minute, UserPerMinute)
  /\ \A n \in Networks : Bounded(OfNetwork(history, n), Minute, NetworkPerMinute)
  /\ Bounded(history, Minute, ApplicationPerMinute)

\* In no rolling day, less the time a call may wait for the lock, are more
\* turns of a user admitted than the daily quota, purged reservations counted.
DailyLimit == \A u \in Users : Bounded(OfUser(history, u), Day - MaxWait, UserPerDay)

\* Nor do the admitted messages of such a day cost more than the unit quota.
DailyUnits ==
  \A u \in Users : \A e \in OfUser(history, u) :
    TotalUnits(Window(OfUser(history, u), e.at, Day - MaxWait)) <= UnitsPerDay

\* A request id is admitted again only when its reservation has expired: two
\* admissions of one id are a day apart, but for the wait for the lock.
AdmittedOnceADay ==
  \A r, e \in history :
    (r.user = e.user /\ r.request = e.request /\ r # e) =>
      r.at - e.at > Day - MaxWait \/ e.at - r.at > Day - MaxWait

\* The quotas on the number of turns: what reserve_admission promises whatever
\* calls wait for its lock and whatever is purged meanwhile.
WithinQuotas == MinuteLimits /\ DailyLimit /\ AdmittedOnceADay

\* However wrong the clock of the retention job is, it never purges a row that
\* is younger than a day by the database's clock.
OnlyExpiredPurged ==
  [][\A r \in (rows \ rows') \cap history' : r.at < clock - Day]_ledgerVars
=============================================================================
