----------------------------- MODULE GroqManager -----------------------------
(***************************************************************************)
(* The pool of provider keys shared by every turn and every background     *)
(* thread (GroqClientManager), up to the outcome the adapter sees          *)
(* (GroqLanguageModel).  A key is its position in the configured list.     *)
(* The three critical sections of the manager (_acquire_next_key,          *)
(* _mark_key_rate_limited, _deactivate_key) are atomic; everything between *)
(* them interleaves.                                                       *)
(***************************************************************************)
EXTENDS Naturals, Sequences, FiniteSets

CONSTANTS
  Calls,             \* completions, each made once
  KeyCount,          \* configured keys
  CallAttempts,       \* GroqCallParams.max_attempts
  CooldownDuration,  \* seconds a key rests after a 429
  Failures,          \* the classes of failure an attempt may meet
  Budget,            \* time a turn leaves to a completion before its reserve
  LastTime,           \* bound on the clock
  Nil

\* The classes a failed attempt is sorted into.
ProviderFailures == {"timeout", "rate_limited", "auth_failed", "connection_failed",
                     "server_error", "invalid_request"}

ASSUME PoolAssumption ==
  /\ KeyCount \in Nat \ {0}
  /\ CallAttempts \in Nat \ {0}
  /\ CooldownDuration \in Nat \ {0}
  /\ Budget \in Nat
  /\ Failures \subseteq ProviderFailures
  /\ Nil \notin Nat

Keys == 0..(KeyCount - 1)

\* sync is chat_completion, async is chat_completion_async.
Modes == {"sync", "async"}

VARIABLES
  deactivated,  \* keys the provider refused with 401
  cooldowns,    \* for a resting key the time it may be used again, else Nil
  index,        \* where the next search starts
  calls,        \* the calls under way or finished, Nil before they start
  now,
  limited       \* history: when each key was last answered with 429

pool == <<deactivated, cooldowns, index>>

poolVars == <<deactivated, cooldowns, index, calls, now, limited>>

PoolInit ==
  /\ deactivated = {}
  /\ cooldowns = [k \in Keys |-> Nil]
  /\ index = 0
  /\ calls = [c \in Calls |-> Nil]
  /\ now = 0
  /\ limited = [k \in Keys |-> Nil]

At(c, step) == calls[c] # Nil /\ calls[c].step = step

TriedKeys(c) == {calls[c].attempts[i].key : i \in DOMAIN calls[c].attempts}

\* Mutant: keys that rest are not counted either.
MutActive == {k \in Keys : k \notin deactivated /\ cooldowns[k] = Nil}

Active == Keys \ deactivated

\* The number of attempts is fixed before the first one, outside the lock.
EffectiveAttempts ==
  LET n == IF CallAttempts < Cardinality(Active) THEN CallAttempts ELSE Cardinality(Active)
  IN  IF n < 1 THEN 1 ELSE n

Begin(c) ==
  /\ calls[c] = Nil
  /\ \E mode \in Modes :
       calls' = [calls EXCEPT ![c] =
         [mode |-> mode, step |-> "loop", attempts |-> <<>>, max |-> EffectiveAttempts,
          expires |-> now + Budget, key |-> Nil, outcome |-> Nil]]
  /\ UNCHANGED <<pool, now, limited>>

\* How a call ends: a failure class is that of a GroqPoolExhaustedError,
\* request_error is GroqRequestError, no_budget the TurnExecutionError raised
\* before an attempt, invalid_response an answer the adapter refuses.
End(c, outcome) ==
  calls' = [calls EXCEPT ![c] = [@ EXCEPT !.step = "done", !.key = Nil,
                                          !.outcome = outcome]]

\* validate_provider_input refuses the messages before anything else happens.
RefuseInput(c) ==
  /\ calls[c] = Nil
  /\ \E mode \in Modes :
       calls' = [calls EXCEPT ![c] =
         [mode |-> mode, step |-> "done", attempts |-> <<>>, max |-> EffectiveAttempts,
          expires |-> now + Budget, key |-> Nil, outcome |-> "request_error"]]
  /\ UNCHANGED <<pool, now, limited>>

\* compute_effective_attempt_timeout is not positive any more.
OutOfBudget(c) ==
  /\ At(c, "loop")
  /\ calls[c].mode = "async"
  /\ now >= calls[c].expires
  /\ End(c, "no_budget")
  /\ UNCHANGED <<pool, now, limited>>

MayAttempt(c) ==
  /\ At(c, "loop")
  /\ calls[c].mode = "async" => now < calls[c].expires

\* A rest that is over is dropped before the search.
Cooling(k) == cooldowns[k] # Nil /\ now < cooldowns[k]

CleanCooldowns ==
  cooldowns' = [k \in Keys |-> IF Cooling(k) THEN cooldowns[k] ELSE Nil]

Eligible(c) == {k \in Keys : /\ k \notin deactivated
                             /\ ~Cooling(k)
                             /\ k \notin TriedKeys(c)}

Distance(k) == (k + KeyCount - index) % KeyCount

\* The first eligible key at or after the index.
NextKey(c) ==
  CHOOSE k \in Eligible(c) : \A l \in Eligible(c) : Distance(k) <= Distance(l)

IndexAfter(k) == (k + 1) % KeyCount

AcquireKey(c) ==
  /\ MayAttempt(c)
  /\ Eligible(c) # {}
  /\ CleanCooldowns
  /\ index' = IndexAfter(NextKey(c))
  /\ calls' = [calls EXCEPT ![c] = [@ EXCEPT !.step = "request", !.key = NextKey(c)]]
  /\ UNCHANGED <<deactivated, now, limited>>

PoolFailure ==
  IF Active = {} THEN "auth_failed"
  ELSE IF \A k \in Active : Cooling(k) THEN "rate_limited"
  ELSE "connection_failed"

NoKey(c) ==
  /\ MayAttempt(c)
  /\ Eligible(c) = {}
  /\ CleanCooldowns
  /\ End(c, PoolFailure)
  /\ UNCHANGED <<deactivated, index, now, limited>>

\* The client factory raises; the key stays acquired and unmarked.
ClientFails(c) ==
  /\ At(c, "request")
  /\ End(c, "request_error")
  /\ UNCHANGED <<pool, now, limited>>

\* The provider answers; the adapter may still refuse the text.
Answered(c) ==
  /\ At(c, "request")
  /\ \E outcome \in {"completed", "invalid_response"} : End(c, outcome)
  /\ UNCHANGED <<pool, now, limited>>

\* The async path reports the last failure, the sync path always the same one.
LastFailure(c, failure) ==
  IF calls[c].mode = "async" THEN failure ELSE "connection_failed"

\* The call after its attempt failed: refused at once, over, or trying again.
AfterFailure(c, failure) ==
  LET tried == Append(calls[c].attempts, [key |-> calls[c].key, failure |-> failure])
      over  == [calls[c] EXCEPT !.attempts = tried, !.step = "done", !.key = Nil]
  IN  IF calls[c].mode = "sync" /\ failure = "invalid_request"
      THEN [over EXCEPT !.outcome = "request_error"]
      ELSE IF Len(tried) = calls[c].max
      THEN [over EXCEPT !.outcome = LastFailure(c, failure)]
      ELSE [over EXCEPT !.step = "loop"]

\* A 429 puts the key to rest, a 401 takes it out of the pool for good.
RequestFails(c) ==
  /\ At(c, "request")
  /\ \E failure \in Failures :
       /\ calls' = [calls EXCEPT ![c] = AfterFailure(c, failure)]
       /\ cooldowns' = IF failure = "rate_limited"
                       THEN [cooldowns EXCEPT ![calls[c].key] = now + CooldownDuration]
                       ELSE cooldowns
       /\ deactivated' = IF failure = "auth_failed"
                         THEN deactivated \cup {calls[c].key} ELSE deactivated
       /\ limited' = IF failure = "rate_limited"
                     THEN [limited EXCEPT ![calls[c].key] = now] ELSE limited
  /\ UNCHANGED <<index, now>>

\* CancelledError, during the request, the close of its client or a backoff.
CancelCall(c) ==
  /\ At(c, "request") \/ At(c, "loop")
  /\ calls[c].mode = "async"
  /\ End(c, "cancelled")
  /\ UNCHANGED <<pool, now, limited>>

PoolTick ==
  /\ now < LastTime
  /\ now' = now + 1
  /\ UNCHANGED <<pool, calls, limited>>

CallStep(c) ==
  \/ Begin(c)
  \/ RefuseInput(c)
  \/ OutOfBudget(c)
  \/ AcquireKey(c)
  \/ NoKey(c)
  \/ ClientFails(c)
  \/ Answered(c)
  \/ RequestFails(c)
  \/ CancelCall(c)

PoolNext == PoolTick \/ \E c \in Calls : CallStep(c)

PoolSpec == PoolInit /\ [][PoolNext]_poolVars

-----------------------------------------------------------------------------
(* Properties.                                                             *)

Finished(c) == At(c, "done")

\* A call gives up early, with attempts to spare, only when no key is left for
\* it: the attempt limit computed before the first attempt, outside the lock,
\* never hides a usable key.
GivesUpOnlyWithoutKeys ==
  [][\A c \in Calls :
       (/\ calls[c] # Nil /\ ~Finished(c) /\ calls'[c].step = "done"
        /\ calls'[c].outcome \in ProviderFailures
        /\ Len(calls'[c].attempts) < CallAttempts) =>
         \A k \in Keys :
           \/ k \in deactivated'
           \/ k \in {calls'[c].attempts[i].key : i \in DOMAIN calls'[c].attempts}
           \/ limited'[k] # Nil /\ now < limited'[k] + CooldownDuration]_poolVars
=============================================================================
