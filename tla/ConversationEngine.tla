-------------------------- MODULE ConversationEngine --------------------------
(***************************************************************************)
(* ConversationEngine.process_turn, the turn that writes its messages and  *)
(* its state separately, for one user: lock, reads, completions and the    *)
(* commit section, which a cancellation drains to its end, then the        *)
(* archival extraction in the background.  Budget, lock and waits are      *)
(* those of TurnDeadline, whose variables it shares; there is no admission *)
(* and no retry.  A write that fails may still take effect, at once or     *)
(* after the engine has given up on it.                                    *)
(***************************************************************************)
EXTENDS TurnDeadline, Sequences

CONSTANT NoRow   \* the user has no profile

ASSUME NoRowAssumption == NoRow \notin Seq(Turns)

VARIABLES
  rows,         \* turns whose two messages are in chat_logs
  profile,      \* turns that made the stored state, or NoRow
  seen,         \* the state a turn has loaded
  inserting,    \* a thread of the turn is about to insert the first profile
  write,        \* the write of the commit section that was begun last
  late,         \* failed writes that the database may still apply
  failed,       \* history variable: a write of the turn failed
  stored,       \* history variable: the writes of the turn that took effect
  archival,     \* the background task of the turn
  extractions   \* turns with a row in archival_extractions

database == <<rows, profile, extractions>>
commitVars == <<write, late, failed, stored>>
engineVars == <<database, seen, inserting, commitVars, archival>>

CommitWrites == {"save_turn", "sync_state"}

EngineInit ==
  /\ rows = {}
  /\ profile \in {NoRow, <<>>}
  /\ seen = [t \in Turns |-> NoRow]
  /\ inserting = [t \in Turns |-> FALSE]
  /\ write = [t \in Turns |-> "none"]
  /\ late = [t \in Turns |-> {}]
  /\ failed = [t \in Turns |-> FALSE]
  /\ stored = [t \in Turns |-> {}]
  /\ archival = [t \in Turns |-> "none"]
  /\ extractions = {}

-----------------------------------------------------------------------------
(* Lock and reads.                                                         *)

\* The budget is created and the turn waits for the user's lock.
EngineArrive(t) ==
  /\ step[t] = "idle"
  /\ clock <= LastArrival
  /\ deadline' = [deadline EXCEPT ![t] = clock + TotalDeadline]
  /\ step' = [step EXCEPT ![t] = "lock"]
  /\ due' = [due EXCEPT ![t] = clock + TotalDeadline - Reserve]
  /\ UNCHANGED <<clock, overran, replaying, attempt, tries, worker, cancelled, outcome, lock, engineVars>>

EngineLockGranted(t) == LockGranted(t) /\ UNCHANGED engineVars

\* A read that is given up leaves its thread behind, and that of
\* load_user_state may be about to find no profile.
AbandonRead(t) ==
  /\ \E found \in {FALSE, step[t] = "load_state" /\ profile = NoRow} :
       inserting' = [inserting EXCEPT ![t] = @ \/ found]
  /\ UNCHANGED <<database, seen, commitVars, archival>>

EngineTimesOut(t) == TimesOut(t) /\ AbandonRead(t)

\* load_user_state finds the profile.
LoadUserState(t) ==
  /\ step[t] = "load_state"
  /\ ~inserting[t]
  /\ profile # NoRow
  /\ seen' = [seen EXCEPT ![t] = profile]
  /\ StartRead(t, "load_context")
  /\ UNCHANGED <<database, inserting, commitVars, archival>>

\* It finds none, and inserts the default state in a second request.
FindNoProfile(t) ==
  /\ step[t] = "load_state"
  /\ profile = NoRow
  /\ inserting' = [inserting EXCEPT ![t] = TRUE]
  /\ UNCHANGED <<vars, database, seen, commitVars, archival>>

\* The primary key refuses a second profile of the user.
InsertProfile == profile' = IF profile = NoRow THEN <<>> ELSE profile

CreateProfile(t) ==
  /\ step[t] = "load_state"
  /\ inserting[t]
  /\ InsertProfile
  /\ inserting' = [inserting EXCEPT ![t] = FALSE]
  /\ IF profile = NoRow
     THEN seen' = [seen EXCEPT ![t] = <<>>] /\ StartRead(t, "load_context")
     ELSE Leave(t, "unavailable") /\ UNCHANGED seen
  /\ UNCHANGED <<rows, extractions, commitVars, archival>>

\* The thread of a turn that no longer waits for it.
StrayInsert(t) ==
  /\ step[t] # "load_state"
  /\ inserting[t]
  /\ InsertProfile
  /\ inserting' = [inserting EXCEPT ![t] = FALSE]
  /\ UNCHANGED <<vars, rows, extractions, seen, commitVars, archival>>

EngineReadFails(t) ==
  /\ ReadFails(t)
  /\ UNCHANGED engineVars

-----------------------------------------------------------------------------
(* Completions.                                                            *)

EngineCompletion(t, s) ==
  IF BeforeReserve(t) <= 0
  THEN Leave(t, "turn_timeout")
  ELSE /\ Await(t, s, AttemptLimit(t, 0))
       /\ tries' = [tries EXCEPT ![t] = 1]
       /\ UNCHANGED <<clock, overran, deadline, replaying, attempt, worker, cancelled, outcome, lock>>

LoadContext(t) ==
  /\ step[t] = "load_context"
  /\ EngineCompletion(t, "appraisal")
  /\ UNCHANGED engineVars

\* The appraisal is parsed and the prompt is built.
Appraised(t) ==
  /\ step[t] = "appraisal"
  /\ EngineCompletion(t, "generation")
  /\ UNCHANGED engineVars

\* Loaded context, appraisal or prompt that is not valid; it is not tried again.
InvalidRequest(t) ==
  /\ step[t] \in {"load_context", "appraisal"}
  /\ Leave(t, "invalid_request")
  /\ UNCHANGED engineVars

EngineAttemptFails(t) == AttemptFails(t) /\ UNCHANGED engineVars

-----------------------------------------------------------------------------
(* The commit section.                                                     *)

\* run_blocking_write: refused when nothing is left of the budget.
BeginWrite(t, w) ==
  IF deadline[t] - clock <= 0
  THEN Leave(t, IF cancelled[t] THEN "cancelled" ELSE "turn_timeout") /\ UNCHANGED write
  ELSE /\ Await(t, "commit", SupabaseTimeout)
       /\ worker' = [worker EXCEPT ![t] = "running"]
       /\ write' = [write EXCEPT ![t] = w]
       /\ UNCHANGED <<clock, overran, deadline, replaying, attempt, tries, cancelled, outcome, lock>>

\* The reply is there; both writes need the whole reserve.
Generated(t) ==
  /\ step[t] = "generation"
  /\ IF deadline[t] - clock < Reserve
     THEN Leave(t, "turn_timeout") /\ UNCHANGED write
     ELSE BeginWrite(t, "save_turn")
  /\ UNCHANGED <<database, seen, inserting, late, failed, stored, archival>>

\* What a write of the commit section does to the database.
Apply(t, w) ==
  /\ rows' = IF w = "save_turn" THEN rows \cup {t} ELSE rows
  /\ profile' = IF w = "sync_state" THEN Append(seen[t], t) ELSE profile
  /\ stored' = [stored EXCEPT ![t] = @ \cup {w}]
  /\ UNCHANGED extractions

WriteSucceeds(t) ==
  /\ worker[t] = "running"
  /\ Apply(t, write[t])
  /\ worker' = [worker EXCEPT ![t] = "committed"]
  /\ UNCHANGED <<clock, overran, step, deadline, due, replaying, attempt, tries, cancelled,
                 outcome, lock, seen, inserting, write, late, failed, archival>>

\* No response, or one that is not understood: it may have taken effect, or
\* may do so later.
WriteFails(t) ==
  /\ worker[t] = "running"
  /\ \/ Apply(t, write[t]) /\ UNCHANGED late
     \/ /\ late' = [late EXCEPT ![t] = @ \cup {write[t]}]
        /\ UNCHANGED <<database, stored>>
     \/ UNCHANGED <<database, stored, late>>
  /\ worker' = [worker EXCEPT ![t] = "failed"]
  /\ failed' = [failed EXCEPT ![t] = TRUE]
  /\ UNCHANGED <<clock, overran, step, deadline, due, replaying, attempt, tries, cancelled,
                 outcome, lock, seen, inserting, write, archival>>

LateWrite(t, w) ==
  /\ w \in late[t]
  /\ Apply(t, w)
  /\ late' = [late EXCEPT ![t] = @ \ {w}]
  /\ UNCHANGED <<vars, seen, inserting, write, failed, archival>>

\* Mutant: a cancelled commit section stops after the write it is in.
MutSavedTurn(t) ==
  /\ Drained(t, "commit")
  /\ write[t] = "save_turn" /\ worker[t] = "committed"
  /\ IF cancelled[t] THEN Leave(t, "cancelled") /\ UNCHANGED write
                     ELSE BeginWrite(t, "sync_state")
  /\ UNCHANGED <<database, seen, inserting, late, failed, stored, archival>>

\* The messages are saved; the state follows, cancelled or not.
SavedTurn(t) ==
  /\ Drained(t, "commit")
  /\ write[t] = "save_turn" /\ worker[t] = "committed"
  /\ BeginWrite(t, "sync_state")
  /\ UNCHANGED <<database, seen, inserting, late, failed, stored, archival>>

\* The commit section is over: the noted cancellation, the failure, or the
\* answer, with the extraction queued behind it.
CommitSectionEnds(t) ==
  /\ Drained(t, "commit")
  /\ write[t] = "sync_state" \/ worker[t] = "failed"
  /\ Leave(t, CASE cancelled[t] -> "cancelled"
                [] ~cancelled[t] /\ worker[t] = "failed" -> "unavailable"
                [] ~cancelled[t] /\ worker[t] = "committed" -> "completed")
  /\ archival' = [archival EXCEPT ![t] = IF worker[t] = "committed" /\ ~cancelled[t]
                                         THEN "queued" ELSE @]
  /\ UNCHANGED <<database, seen, inserting, commitVars>>

\* A cancellation is noted during the commit section and ends any other stage.
EngineCancel(t) == Cancel(t) /\ AbandonRead(t)

-----------------------------------------------------------------------------
(* run_archival_extraction, and delete_history, which does not wait for it. *)

\* Its three stages; each of them may fail, and nothing is tried again.
ArchivalStep(t, from, to) ==
  /\ archival[t] = from
  /\ archival' = [archival EXCEPT ![t] = to]
  /\ UNCHANGED <<vars, rows, profile, seen, inserting, commitVars>>

LoadMessage(t) ==
  /\ ArchivalStep(t, "queued", IF t \in rows THEN "loaded" ELSE "over")
  /\ UNCHANGED extractions

ExtractFacts(t) == ArchivalStep(t, "loaded", "extracted") /\ UNCHANGED extractions

\* Mutant: a fact is kept whether or not its message is.
MutStoreExtraction(t) ==
  /\ ArchivalStep(t, "extracted", "over")
  /\ extractions' = extractions \cup {t}

\* The foreign key wants the message to be there still.
StoreExtraction(t) ==
  /\ ArchivalStep(t, "extracted", "over")
  /\ extractions' = IF t \in rows THEN extractions \cup {t} ELSE extractions

ArchivalFails(t) ==
  /\ \E from \in {"queued", "loaded", "extracted"} : ArchivalStep(t, from, "over")
  /\ UNCHANGED extractions

\* The extractions of a message go with it.
DeleteMessages ==
  /\ rows # {}
  /\ rows' = {}
  /\ extractions' = {}
  /\ UNCHANGED <<vars, profile, seen, inserting, commitVars, archival>>

-----------------------------------------------------------------------------

EngineTick == Tick /\ UNCHANGED engineVars

EngineRest == Rest /\ UNCHANGED engineVars

EngineNext ==
  \/ EngineTick \/ EngineRest \/ DeleteMessages
  \/ \E t \in Turns :
       \/ EngineArrive(t) \/ EngineLockGranted(t) \/ EngineTimesOut(t) \/ EngineReadFails(t)
       \/ LoadUserState(t) \/ FindNoProfile(t) \/ CreateProfile(t) \/ StrayInsert(t)
       \/ LoadContext(t) \/ Appraised(t) \/ InvalidRequest(t) \/ EngineAttemptFails(t)
       \/ Generated(t) \/ WriteSucceeds(t) \/ WriteFails(t) \/ SavedTurn(t)
       \/ CommitSectionEnds(t) \/ EngineCancel(t)
       \/ \E w \in CommitWrites : LateWrite(t, w)
       \/ LoadMessage(t) \/ ExtractFacts(t) \/ StoreExtraction(t) \/ ArchivalFails(t)

EngineSpec ==
  Init /\ EngineInit /\ [][EngineNext]_<<vars, engineVars>>

-----------------------------------------------------------------------------
(* Properties.                                                             *)

\* As long as no write fails, a turn that reached its commit section has stored
\* its messages and its state when it ends, and the state of no turn is lost: no
\* cancellation, abandoned read or other turn of the user splits the two writes
\* or overwrites what an earlier turn wrote.  The deadline splits them only if
\* save_turn took longer than the timeout of its transport and used up the
\* reserve: then sync_state is refused, and the turn is not answered.
OnlyFailuresLose ==
  (\A t \in Turns : ~failed[t]) =>
    \A t \in Turns : (step[t] = "done" /\ write[t] # "none") =>
      \/ stored[t] = CommitWrites /\ \E i \in DOMAIN profile : profile[i] = t
      \/ /\ stored[t] = {"save_turn"} /\ overran[t]
         /\ outcome[t] \in {"turn_timeout", "cancelled"}

\* An extraction belongs to a turn that was answered and to a message that is
\* still there, whenever the history is deleted.
ExtractionsHaveSources ==
  \A t \in extractions : t \in rows /\ outcome[t] = "completed"

===============================================================================
