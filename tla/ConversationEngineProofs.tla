----------------------- MODULE ConversationEngineProofs -----------------------
(***************************************************************************)
(* The turn with two writes, for any number of turns of a user and every   *)
(* configuration that TurnExecutionConfig accepts.  Both writes fit into   *)
(* the reserve because the first begins with the whole of it: unless it    *)
(* takes longer than the transport timeout, a turn that has begun to write *)
(* is not stopped between the two.  No state is lost because a turn that   *)
(* has loaded holds the lock until it has written: what it has seen is     *)
(* still the profile, unless a write that failed is applied late.          *)
(***************************************************************************)
EXTENDS ConversationEngine, TLAPS

\* Each leaf is tried with the defaults first and then given more time.
USE SMT, Zenon, Z3T(60), ZenonT(30), SMTT(60), Z3T(90)

EngineSteps == {"idle", "lock", "load_state", "load_context", "appraisal", "generation",
                "commit", "done"}

\* Stages that run under the lock, and those after the load of the state.
Held == {"load_state", "load_context", "appraisal", "generation", "commit"}
Loaded == {"load_context", "appraisal", "generation", "commit"}

\* Type invariant of the engine and of the variables of TurnDeadline it uses.
EngineTypeOK ==
  /\ clock \in Nat
  /\ overran \in [Turns -> BOOLEAN]
  /\ step \in [Turns -> EngineSteps]
  /\ deadline \in [Turns -> Nat]
  /\ due \in [Turns -> Int]
  /\ replaying = [t \in Turns |-> FALSE]
  /\ worker \in [Turns -> {"none", "running", "committed", "failed"}]
  /\ cancelled \in [Turns -> BOOLEAN]
  /\ outcome \in [Turns -> Outcomes \cup {"invalid_request", None}]
  /\ lock \in Turns \cup {None}
  /\ rows \subseteq Turns
  /\ profile \in Seq(Turns) \cup {NoRow}
  /\ seen \in [Turns -> Seq(Turns) \cup {NoRow}]
  /\ inserting \in [Turns -> BOOLEAN]
  /\ write \in [Turns -> CommitWrites \cup {"none"}]
  /\ late \in [Turns -> SUBSET CommitWrites]
  /\ failed \in [Turns -> BOOLEAN]
  /\ stored \in [Turns -> SUBSET CommitWrites]
  /\ archival \in [Turns -> {"none", "queued", "loaded", "extracted", "over"}]
  /\ extractions \subseteq Turns

\* Lock, write and time of one turn.
Stage(t) ==
  /\ step[t] \in Held => lock = t
  /\ step[t] = "commit" <=> worker[t] # "none"
  /\ step[t] = "commit" => write[t] # "none"
  /\ step[t] \notin {"commit", "done"} => write[t] = "none"
  /\ (step[t] \in Loaded \/ write[t] # "none") => seen[t] \in Seq(Turns)
  /\ worker[t] = "failed" => failed[t]
  /\ late[t] # {} => failed[t] /\ write[t] # "none"
  /\ (step[t] = "commit" /\ write[t] = "save_turn") =>
       /\ clock <= due[t] \/ overran[t]
       /\ due[t] <= deadline[t] - Reserve + SupabaseTimeout

\* The turn was refused its second write, after a first one that took too long.
Split(t, result) ==
  stored[t] = {"save_turn"} /\ overran[t] /\ result \in {"turn_timeout", "cancelled"}

Contains(p, t) == p \in Seq(Turns) /\ \E i \in DOMAIN p : p[i] = t

\* What one turn has read and written, as long as no write failed.
Kept(t) ==
  /\ (step[t] \in Loaded /\ "sync_state" \notin stored[t]) =>
       seen[t] = profile /\ profile \in Seq(Turns)
  /\ "sync_state" \in stored[t] => Contains(profile, t)
  /\ (write[t] = "sync_state" \/ worker[t] = "committed") => "save_turn" \in stored[t]
  /\ (write[t] = "sync_state" /\ worker[t] = "committed") => "sync_state" \in stored[t]
  /\ (write[t] # "sync_state" \/ worker[t] = "running") => "sync_state" \notin stored[t]
  /\ (step[t] = "done" /\ write[t] # "none") => stored[t] = CommitWrites \/ Split(t, outcome[t])

\* The extraction of one turn.
Source(t) ==
  /\ archival[t] # "none" => step[t] = "done" /\ outcome[t] = "completed"
  /\ t \in extractions => t \in rows /\ archival[t] # "none"

NoFailure == \A t \in Turns : ~failed[t]

EngineInv ==
  /\ EngineTypeOK
  /\ \A t \in Turns : Stage(t) /\ Source(t)
  /\ NoFailure => \A t \in Turns : Kept(t)

-----------------------------------------------------------------------------

\* A step changes what belongs to turn t only.
Alone(t) ==
  \A u \in Turns : u # t =>
    /\ step'[u] = step[u] /\ due'[u] = due[u] /\ deadline'[u] = deadline[u]
    /\ worker'[u] = worker[u] /\ outcome'[u] = outcome[u] /\ seen'[u] = seen[u]
    /\ write'[u] = write[u] /\ late'[u] = late[u] /\ failed'[u] = failed[u]
    /\ stored'[u] = stored[u] /\ archival'[u] = archival[u]

\* What the type invariant says of one turn, and of the limits of its waits.
LEMMA Typed ==
  ASSUME EngineInv, NEW t \in Turns
  PROVE  /\ EngineTypeOK /\ Stage(t) /\ Source(t)
         /\ clock \in Nat /\ deadline[t] \in Nat /\ due[t] \in Int
         /\ step[t] \in EngineSteps
<1>1. EngineTypeOK /\ Stage(t) /\ Source(t)
  BY DEF EngineInv
<1> QED BY <1>1 DEF EngineTypeOK

\* The smaller of two times is a time.
LEMMA LeastIsInt == \A a, b \in Int : Least(a, b) \in Int
BY DEF Least

\* The limits that a turn sets its timers to are times.
LEMMA Limits ==
  ASSUME EngineInv, NEW t \in Turns
  PROVE  /\ BeforeReserve(t) \in Int /\ clock + ReadLimit(t) \in Int
         /\ \A pause \in Nat : clock + AttemptLimit(t, pause) \in Int
<1>1. Reserve \in Nat /\ SupabaseTimeout \in Nat /\ ProviderTimeout \in Nat
  BY ConfigAssumption
<1>2. BeforeReserve(t) \in Int
  BY Typed, <1>1 DEF BeforeReserve
<1>3. ReadLimit(t) \in Int
  BY <1>1, <1>2, LeastIsInt DEF ReadLimit
<1>4. ASSUME NEW pause \in Nat PROVE AttemptLimit(t, pause) \in Int
  BY <1>1, <1>2, LeastIsInt DEF AttemptLimit
<1> QED BY Typed, <1>2, <1>3, <1>4

\* Appending to the history of the profile loses nobody.
LEMMA AppendContains ==
  ASSUME NEW p \in Seq(Turns), NEW t \in Turns
  PROVE  /\ Append(p, t) \in Seq(Turns) /\ Contains(Append(p, t), t)
         /\ \A u \in Turns : Contains(p, u) => Contains(Append(p, t), u)
<1>1. ASSUME NEW u \in Turns, Contains(p, u) PROVE Contains(Append(p, t), u)
  <2>1. PICK i \in DOMAIN p : p[i] = u
    BY <1>1 DEF Contains
  <2> QED BY <2>1 DEF Contains
<1> QED BY <1>1 DEF Contains

\* How a step of turn t may change the profile while no write has failed: not at
\* all, from nothing, or by adding itself while it alone has the state loaded.
Profiled(t) ==
  \/ profile' = profile
  \/ profile = NoRow
  \/ ~NoFailure'
  \/ profile \in Seq(Turns) /\ profile' = Append(profile, t) /\ lock = t

\* A step of turn t keeps the invariant of the others, so its own is enough.
LEMMA OneTurn ==
  ASSUME EngineInv, NEW t \in Turns, EngineTypeOK', Alone(t), UNCHANGED <<clock, overran>>,
         lock' = lock \/ lock \notin Turns \/ lock = t, Profiled(t),
         rows \subseteq rows', extractions' \subseteq extractions \cup {t},
         failed[t] => failed'[t],
         Stage(t)', Source(t)', NoFailure /\ NoFailure' => Kept(t)'
  PROVE  EngineInv'
<1>1. ASSUME NEW u \in Turns, u # t PROVE Stage(u)'
  BY <1>1 DEF Alone, EngineInv, Stage
<1>2. ASSUME NEW u \in Turns, u # t PROVE Source(u)'
  BY <1>2 DEF EngineInv, Source, Alone
<1>3. NoFailure' => NoFailure
  BY DEF NoFailure, Alone, EngineInv, EngineTypeOK
<1>4. ASSUME NoFailure', NEW u \in Turns, u # t PROVE Kept(u)'
  <2>1. /\ step'[u] = step[u] /\ worker'[u] = worker[u] /\ seen'[u] = seen[u]
        /\ write'[u] = write[u] /\ stored'[u] = stored[u] /\ outcome'[u] = outcome[u]
    BY <1>4 DEF Alone
  <2>2. Kept(u) /\ Stage(u)
    BY <1>3, <1>4 DEF EngineInv
  <2>3. CASE profile' = profile
    BY <2>1, <2>2, <2>3 DEF Kept, Split
  <2>4. CASE profile = NoRow
    BY <2>4, NoRowAssumption, <2>1, <2>2 DEF Kept, Contains, Split
  <2>5. CASE profile \in Seq(Turns) /\ profile' = Append(profile, t) /\ lock = t
    <3>1. step[u] \notin Loaded
      BY <1>4, <2>2, <2>5 DEF Stage, Held, Loaded
    <3>2. Contains(profile, u) => Contains(profile', u)
      BY <2>5, AppendContains
    <3> QED BY <3>2, <2>1, <2>2, <3>1 DEF Kept, Contains, Split
  <2> QED BY <1>4, <2>3, <2>4, <2>5 DEF Profiled
<1>5. ASSUME NEW u \in Turns PROVE Stage(u)' /\ Source(u)'
  BY <1>1, <1>2
<1>6. ASSUME NoFailure', NEW u \in Turns PROVE Kept(u)'
  BY <1>3, <1>4, <1>6
<1> QED BY <1>5, <1>6 DEF EngineInv

\* Ending a turn before its commit section, after both writes, a failure, or a
\* write that left no time for the second.
LEMMA Quits ==
  ASSUME EngineInv, NEW t \in Turns, step[t] \notin {"idle", "done"},
         NEW result \in Outcomes \cup {"invalid_request"}, Leave(t, result),
         (step[t] = "commit" /\ NoFailure) => stored[t] = CommitWrites \/ Split(t, result),
         profile' \in Seq(Turns) \cup {NoRow}, profile' = profile \/ profile = NoRow,
         inserting' \in [Turns -> BOOLEAN],
         \/ archival' = archival
         \/ result = "completed" /\ archival' = [archival EXCEPT ![t] = "queued"],
         UNCHANGED <<rows, extractions, seen, commitVars>>
  PROVE  EngineInv'
<1> USE DEF commitVars
<1>1. /\ step' = [step EXCEPT ![t] = "done"] /\ outcome' = [outcome EXCEPT ![t] = result]
      /\ worker' = [worker EXCEPT ![t] = "none"]
      /\ UNCHANGED <<clock, overran, deadline, due>>
      /\ replaying' = replaying /\ cancelled' = cancelled
      /\ lock' = IF lock = t THEN None ELSE lock
  BY DEF Leave
<1>2. EngineTypeOK'
  BY ZenonT(60), <1>1 DEF EngineInv, EngineTypeOK, EngineSteps
<1>3. step'[t] = "done" /\ outcome'[t] = result /\ worker'[t] = "none"
  BY <1>1 DEF EngineInv, EngineTypeOK
<1>4. Alone(t)
  BY <1>1 DEF Alone, EngineInv, EngineTypeOK
<1>5. Stage(t) /\ Source(t) /\ (NoFailure => Kept(t))
  BY DEF EngineInv
<1>6. Stage(t)'
  BY <1>3, <1>5 DEF Stage, Held, Loaded
<1>7. Source(t)'
  BY <1>3, <1>5 DEF Source, EngineInv, EngineTypeOK
<1>8. ASSUME NoFailure PROVE Kept(t)'
  BY <1>8, <1>5, NoRowAssumption, <1>1, <1>3 DEF Kept, Split, CommitWrites, Loaded, Contains, Stage
<1> QED BY <1>1, <1>2, <1>4, <1>6, <1>7, <1>8, OneTurn DEF Profiled

\* Going on to another stage before the commit section.
LEMMA Moves ==
  ASSUME EngineInv, NEW t \in Turns, step[t] \notin {"commit", "done"},
         NEW s \in EngineSteps \ {"idle", "commit", "done"}, NEW n \in Int,
         step' = [step EXCEPT ![t] = s], due' = [due EXCEPT ![t] = n],
         deadline' \in [Turns -> Nat],
         \A u \in Turns : u # t => deadline'[u] = deadline[u],
         lock' = lock \/ (lock = None /\ lock' = t), s \in Held => lock' = t,
         inserting' \in [Turns -> BOOLEAN],
         profile' \in Seq(Turns) \cup {NoRow}, profile' = profile \/ profile = NoRow,
         \/ seen' = seen /\ profile' = profile /\ (s \in Loaded => step[t] \in Loaded)
         \/ seen' = [seen EXCEPT ![t] = profile'] /\ profile' \in Seq(Turns),
         UNCHANGED <<clock, overran, replaying, worker, cancelled, outcome, rows, extractions,
                     commitVars, archival>>
  PROVE  EngineInv'
<1> USE DEF commitVars
<1>1. step'[t] = s
  BY DEF EngineInv, EngineTypeOK
<1>2. EngineTypeOK'
  <2>1. step' \in [Turns -> EngineSteps] /\ due' \in [Turns -> Int]
    BY DEF EngineInv, EngineTypeOK
  <2>2. lock' \in Turns \cup {None} /\ seen' \in [Turns -> Seq(Turns) \cup {NoRow}]
    BY ZenonT(60) DEF EngineInv, EngineTypeOK
  <2> QED BY <2>1, <2>2 DEF EngineInv, EngineTypeOK
<1>3. Alone(t)
  BY DEF Alone, EngineInv, EngineTypeOK
<1>4. Stage(t) /\ Source(t) /\ (NoFailure => Kept(t))
  BY DEF EngineInv
<1>5. \/ /\ seen'[t] = seen[t] /\ profile' = profile
         /\ s \in Loaded => step[t] \in Loaded
      \/ seen'[t] = profile' /\ profile' \in Seq(Turns)
  BY DEF EngineInv, EngineTypeOK
<1>6. Stage(t)'
  BY <1>4, <1>5, <1>1 DEF Stage, EngineSteps
<1>7. Source(t)'
  BY <1>1, <1>4 DEF Source
<1>8. ASSUME NoFailure PROVE Kept(t)'
  <2>1. s \in Loaded => seen'[t] = profile' /\ profile' \in Seq(Turns)
    BY <1>4, <1>8, <1>5 DEF Stage, Kept
  <2> QED BY <1>1, <1>4, <1>8, <2>1 DEF Kept, Stage, EngineSteps
<1>9. (lock' = lock \/ lock \notin Turns) /\ Profiled(t)
  BY ConfigAssumption DEF Profiled
<1> QED BY <1>2, <1>3, <1>6, <1>7, <1>8, <1>9, OneTurn

\* What each action of a turn before its commit section does.
LEMMA ArriveStep == ASSUME EngineInv, NEW t \in Turns, EngineArrive(t) PROVE EngineInv'
<1> USE DEF EngineArrive, engineVars, database
<1>1. clock + TotalDeadline \in Nat /\ clock + TotalDeadline - Reserve \in Int
  BY Typed, ConfigAssumption
<1>2. /\ deadline' \in [Turns -> Nat]
      /\ \A u \in Turns : u # t => deadline'[u] = deadline[u]
  BY <1>1 DEF EngineInv, EngineTypeOK
<1>3. inserting' \in [Turns -> BOOLEAN] /\ profile' \in Seq(Turns) \cup {NoRow}
  BY DEF EngineInv, EngineTypeOK
<1> QED BY ZenonT(60), <1>1, <1>2, <1>3, Moves DEF EngineSteps, Held, Loaded

\* The lock goes to one turn, which then loads what is stored.
LEMMA GrantStep == ASSUME EngineInv, NEW t \in Turns, EngineLockGranted(t) PROVE EngineInv'
<1> USE DEF EngineLockGranted, LockGranted, engineVars, database, Await
<1>1. clock + ReadLimit(t) \in Int
  BY Limits
<1>2. step' = [step EXCEPT ![t] = "load_state"]
  BY DEF EngineInv, EngineTypeOK
<1>3. /\ deadline' \in [Turns -> Nat] /\ inserting' \in [Turns -> BOOLEAN]
      /\ profile' \in Seq(Turns) \cup {NoRow}
  BY DEF EngineInv, EngineTypeOK
<1> QED BY ZenonT(60), <1>1, <1>2, <1>3, Moves DEF EngineSteps, Held, Loaded

\* A turn that gives up before its commit section, with the thread of its read.
LEMMA AbandonStep ==
  ASSUME EngineInv, NEW t \in Turns, step[t] \notin {"idle", "commit", "done"},
         NEW result \in Outcomes \cup {"invalid_request"}, Leave(t, result),
         AbandonRead(t) \/ UNCHANGED engineVars
  PROVE  EngineInv'
<1> USE DEF engineVars, database
<1>1. CASE AbandonRead(t)
  <2>1. PICK found \in {FALSE, step[t] = "load_state" /\ profile = NoRow} :
          inserting' = [inserting EXCEPT ![t] = @ \/ found]
    BY <1>1, Zenon DEF AbandonRead
  <2>2. found \in BOOLEAN
    BY ZenonT(60)
  <2>3. inserting' \in [Turns -> BOOLEAN]
    BY <2>1, <2>2, Zenon DEF EngineInv, EngineTypeOK
  <2>4. profile' = profile /\ archival' = archival /\ UNCHANGED <<rows, extractions, seen, commitVars>>
    BY <1>1 DEF AbandonRead
  <2>5. profile' \in Seq(Turns) \cup {NoRow}
    BY <2>4 DEF EngineInv, EngineTypeOK
  <2> QED BY <2>3, <2>4, <2>5, Quits
<1>2. CASE UNCHANGED engineVars
  <2>1. inserting' \in [Turns -> BOOLEAN] /\ profile' \in Seq(Turns) \cup {NoRow}
    BY <1>2 DEF EngineInv, EngineTypeOK
  <2> QED BY <1>2, <2>1, Quits
<1> QED BY <1>1, <1>2

\* A turn that gives up before its commit section has written nothing.
LEMMA GiveUpStep ==
  ASSUME EngineInv, NEW t \in Turns,
         EngineTimesOut(t) \/ EngineReadFails(t) \/ InvalidRequest(t)
  PROVE  EngineInv'
<1>1. PICK result \in Outcomes \cup {"invalid_request"} : Leave(t, result)
  BY DEF EngineTimesOut, TimesOut, EngineReadFails, ReadFails, InvalidRequest, Outcomes
<1> QED
  BY <1>1, AbandonStep DEF EngineTimesOut, TimesOut, EngineReadFails, ReadFails, InvalidRequest,
     Reads

\* A cancellation ends a turn, or is noted while its writes are drained.
LEMMA CancelStep == ASSUME EngineInv, NEW t \in Turns, EngineCancel(t) PROVE EngineInv'
<1>1. CASE step[t] # "commit"
  <2>1. step[t] \notin {"idle", "done"} /\ Leave(t, "cancelled")
    BY ZenonT(60), <1>1 DEF EngineCancel, Cancel, Writes, EngineInv, EngineTypeOK, EngineSteps
  <2> QED BY <1>1, <2>1, AbandonStep DEF EngineCancel, Outcomes
<1>2. CASE step[t] = "commit"
  <2>1. /\ cancelled' = [cancelled EXCEPT ![t] = TRUE]
        /\ UNCHANGED <<clock, overran, step, deadline, due, replaying, worker, outcome, lock>>
        /\ UNCHANGED <<rows, profile, extractions, seen, commitVars, archival>>
    BY <1>2 DEF EngineCancel, Cancel, Writes, AbandonRead, database
  <2>2. PICK found \in {FALSE, step[t] = "load_state" /\ profile = NoRow} :
          inserting' = [inserting EXCEPT ![t] = @ \/ found]
    BY Zenon DEF EngineCancel, AbandonRead
  <2>3. found \in BOOLEAN
    BY ZenonT(60)
  <2>4. inserting' \in [Turns -> BOOLEAN]
    BY <2>2, <2>3, Zenon DEF EngineInv, EngineTypeOK
  <2>5. EngineTypeOK'
    BY ZenonT(60), <2>1, <2>4 DEF EngineInv, EngineTypeOK, commitVars
  <2>6. ASSUME NEW u \in Turns PROVE Stage(u)' /\ Source(u)' /\ (NoFailure => Kept(u)')
    BY <2>1 DEF EngineInv, Stage, Source, Kept, Split, Contains, commitVars
  <2> QED BY <2>1, <2>5, <2>6 DEF EngineInv, NoFailure, commitVars
<1> QED BY <1>1, <1>2

\* The default state is a state.
LEMMA EmptyHistory == <<>> \in Seq(Turns)
OBVIOUS

\* A read that is followed by the next one, or by the end of the turn.
LEMMA LoadStep ==
  ASSUME EngineInv, NEW t \in Turns, step[t] = "load_state",
         seen' = [seen EXCEPT ![t] = profile'], profile' \in Seq(Turns),
         profile' = profile \/ profile = NoRow, BeforeReserve(t) > 0,
         StartRead(t, "load_context"), inserting' \in [Turns -> BOOLEAN],
         UNCHANGED <<rows, extractions, commitVars, archival>>
  PROVE  EngineInv'
<1> DEFINE n == clock + ReadLimit(t)
<1>1. BeforeReserve(t) \in Int /\ n \in Int
  BY Limits
<1>2. /\ step' = [step EXCEPT ![t] = "load_context"] /\ due' = [due EXCEPT ![t] = n]
      /\ UNCHANGED <<clock, overran, deadline, replaying, worker, cancelled, outcome, lock>>
  BY <1>1 DEF StartRead, Await
<1>3. lock = t /\ deadline' \in [Turns -> Nat]
  BY <1>2 DEF EngineInv, EngineTypeOK, Stage, Held
<1> HIDE DEF n
<1> QED BY ZenonT(60), <1>1, <1>2, <1>3, Moves DEF EngineSteps, Held

\* The turn that has loaded its state too late: what it has seen is not used.
LEMMA LateLoadStep ==
  ASSUME EngineInv, NEW t \in Turns, step[t] = "load_state",
         seen' = [seen EXCEPT ![t] = profile'], profile' \in Seq(Turns),
         profile' = profile \/ profile = NoRow, Leave(t, "turn_timeout"),
         inserting' \in [Turns -> BOOLEAN],
         UNCHANGED <<rows, extractions, commitVars, archival>>
  PROVE  EngineInv'
<1> USE DEF commitVars
<1>1. /\ step' = [step EXCEPT ![t] = "done"]
      /\ outcome' = [outcome EXCEPT ![t] = "turn_timeout"]
      /\ worker' = [worker EXCEPT ![t] = "none"]
      /\ UNCHANGED <<clock, overran, deadline, due>>
      /\ replaying' = replaying /\ cancelled' = cancelled
      /\ lock' = IF lock = t THEN None ELSE lock
  BY DEF Leave
<1>2. EngineTypeOK'
  BY <1>1 DEF EngineInv, EngineTypeOK, EngineSteps, Outcomes
<1>3. step'[t] = "done" /\ worker'[t] = "none"
  BY <1>1 DEF EngineInv, EngineTypeOK
<1>4. Alone(t)
  BY <1>1 DEF Alone, EngineInv, EngineTypeOK
<1>5. Stage(t) /\ Source(t) /\ (NoFailure => Kept(t))
  BY DEF EngineInv
<1>6. Stage(t)'
  BY <1>5, <1>3 DEF Stage, Held, Loaded
<1>7. ASSUME NoFailure PROVE Kept(t)'
  BY <1>5, <1>3, <1>7 DEF Kept, Loaded, Stage
<1> QED BY <1>3, <1>5, <1>1, <1>2, <1>4, <1>6, <1>7, OneTurn DEF Profiled, Source

\* Under the lock the state that a turn loads is the stored one.
LEMMA LoadUserStateStep ==
  ASSUME EngineInv, NEW t \in Turns, LoadUserState(t) \/ CreateProfile(t)
  PROVE  EngineInv'
<1>1. step[t] = "load_state" /\ BeforeReserve(t) \in Int
  BY Limits DEF LoadUserState, CreateProfile
<1>2. inserting' \in [Turns -> BOOLEAN]
  BY ZenonT(60) DEF LoadUserState, CreateProfile, EngineInv, EngineTypeOK
<1>3. UNCHANGED <<rows, extractions, commitVars, archival>>
  BY DEF LoadUserState, CreateProfile, database
<1>4. /\ profile' = profile \/ profile = NoRow
      /\ profile' \in Seq(Turns)
  BY ZenonT(60), EmptyHistory DEF LoadUserState, CreateProfile, InsertProfile, database,
     EngineInv, EngineTypeOK
<1>5. CASE Leave(t, "unavailable") /\ UNCHANGED seen
  BY <1>1, <1>2, <1>3, <1>4, <1>5, Quits DEF Outcomes
<1>6. CASE seen' = [seen EXCEPT ![t] = profile'] /\ StartRead(t, "load_context")
  <2>1. CASE BeforeReserve(t) > 0
    BY ZenonT(60), <1>1, <1>2, <1>3, <1>4, <1>6, <2>1, LoadStep
  <2>2. CASE BeforeReserve(t) <= 0
    <3>1. Leave(t, "turn_timeout")
      BY <1>6, <2>2 DEF StartRead
    <3> QED BY ZenonT(60), <1>1, <1>2, <1>3, <1>4, <1>6, <3>1, LateLoadStep
  <2> QED BY <1>1, <2>1, <2>2
<1> QED BY <1>5, <1>6 DEF LoadUserState, CreateProfile, InsertProfile, database

\* The first profile, for the turn that waits or for one that does not.
LEMMA InsertStep ==
  ASSUME EngineInv, NEW t \in Turns, FindNoProfile(t) \/ StrayInsert(t)
  PROVE  EngineInv'
<1>1. /\ UNCHANGED <<vars, rows, extractions, seen, commitVars, archival>>
      /\ profile' = profile \/ (profile = NoRow /\ profile' = <<>>)
  BY DEF FindNoProfile, StrayInsert, InsertProfile, database
<1>2. inserting' \in [Turns -> BOOLEAN]
  BY ZenonT(60) DEF FindNoProfile, StrayInsert, EngineInv, EngineTypeOK
<1>3. profile' \in Seq(Turns) \cup {NoRow}
  BY ZenonT(60), <1>1, EmptyHistory DEF EngineInv, EngineTypeOK
<1>4. EngineTypeOK'
  BY <1>1, <1>2, <1>3 DEF EngineInv, EngineTypeOK, vars, commitVars
<1>5. Stage(t)' /\ Source(t)'
  BY <1>1 DEF EngineInv, Stage, Source, vars, commitVars
<1>6. ASSUME NoFailure PROVE Kept(t)'
  <2>1. /\ UNCHANGED <<step, worker, seen, write, stored>>
        /\ Split(t, outcome[t])' <=> Split(t, outcome[t])
    BY <1>1 DEF Split, vars, commitVars
  <2>2. Kept(t)
    BY <1>6 DEF EngineInv
  <2> QED BY <1>1, <2>1, <2>2, NoRowAssumption DEF Kept, Contains
<1> QED BY <1>1, <1>4, <1>5, <1>6, OneTurn DEF vars, commitVars, Alone, Profiled

\* Loading the context and talking to the provider write nothing.
LEMMA CompletionStep ==
  ASSUME EngineInv, NEW t \in Turns, LoadContext(t) \/ Appraised(t) \/ EngineAttemptFails(t)
  PROVE  EngineInv'
<1>1. step[t] \in {"load_context", "appraisal", "generation"} /\ UNCHANGED engineVars
  BY DEF LoadContext, Appraised, EngineAttemptFails, AttemptFails, Completions
<1>2. clock + AttemptLimit(t, 0) \in Int /\ clock + AttemptLimit(t, MaxBackoff) \in Int
  BY Limits, ConfigAssumption
<1>3. \/ \E result \in Outcomes : Leave(t, result)
      \/ \E s \in {"appraisal", "generation"}, n \in Int :
           /\ step' = [step EXCEPT ![t] = s] /\ due' = [due EXCEPT ![t] = n]
           /\ UNCHANGED <<clock, overran, deadline, replaying, worker, cancelled, outcome, lock>>
  <2> HIDE DEF AttemptLimit
  <2>1. CASE LoadContext(t)
    BY <1>2, <2>1 DEF LoadContext, EngineCompletion, Await, Outcomes
  <2>2. CASE Appraised(t)
    BY <1>2, <2>2 DEF Appraised, EngineCompletion, Await, Outcomes
  <2>3. CASE EngineAttemptFails(t)
    BY <1>2, <2>3 DEF EngineAttemptFails, AttemptFails, Await, Outcomes, Completions
  <2> QED BY <2>1, <2>2, <2>3
<1>4. CASE \E result \in Outcomes : Leave(t, result)
  BY <1>1, <1>4, AbandonStep
<1>5. ASSUME NEW s \in {"appraisal", "generation"}, NEW n \in Int,
             step' = [step EXCEPT ![t] = s], due' = [due EXCEPT ![t] = n],
             UNCHANGED <<clock, overran, deadline, replaying, worker, cancelled, outcome, lock>>
      PROVE  EngineInv'
  <2>1. lock = t /\ step[t] \in Loaded /\ s \in EngineSteps \ {"idle", "commit", "done"}
    BY <1>1 DEF EngineInv, Stage, Held, Loaded, EngineSteps
  <2>2. /\ deadline' \in [Turns -> Nat] /\ inserting' \in [Turns -> BOOLEAN]
        /\ profile' \in Seq(Turns) \cup {NoRow}
    BY <1>1, <1>5 DEF EngineInv, EngineTypeOK, engineVars, database
  <2> QED BY ZenonT(60), <1>1, <1>5, <2>1, <2>2, Moves DEF engineVars, database
<1> QED BY <1>3, <1>4, <1>5

-----------------------------------------------------------------------------
(* The commit section.                                                     *)

\* Beginning a write that the budget allows.
LEMMA BeginStep ==
  ASSUME EngineInv, NEW t \in Turns, NEW w \in CommitWrites, deadline[t] - clock > 0,
         BeginWrite(t, w),
         \/ step[t] = "generation" /\ w = "save_turn" /\ deadline[t] - clock >= Reserve
         \/ /\ step[t] = "commit" /\ worker[t] = "committed" /\ write[t] = "save_turn"
            /\ w = "sync_state",
         UNCHANGED <<database, seen, inserting, late, failed, stored, archival>>
  PROVE  EngineInv'
<1> USE DEF database
<1>1. clock \in Nat /\ deadline[t] \in Nat /\ SupabaseTimeout \in Nat /\ Reserve \in Nat
  BY Typed, ConfigAssumption
<1>2. /\ step' = [step EXCEPT ![t] = "commit"]
      /\ due' = [due EXCEPT ![t] = clock + SupabaseTimeout]
      /\ worker' = [worker EXCEPT ![t] = "running"] /\ write' = [write EXCEPT ![t] = w]
      /\ UNCHANGED <<clock, overran, deadline, replaying, cancelled, outcome, lock>>
  <2>1. ~(deadline[t] - clock <= 0)
    BY <1>1
  <2> QED BY Zenon, <2>1 DEF BeginWrite, Await
<1>3. EngineTypeOK'
  <2>1. step' \in [Turns -> EngineSteps] /\ due' \in [Turns -> Int]
    BY Typed, <1>2, <1>1 DEF EngineTypeOK, EngineSteps
  <2>2. /\ worker' \in [Turns -> {"none", "running", "committed", "failed"}]
        /\ write' \in [Turns -> CommitWrites \cup {"none"}]
    BY <1>2 DEF EngineInv, EngineTypeOK
  <2>3. EngineTypeOK
    BY DEF EngineInv
  <2> QED BY <1>2, <2>1, <2>2, <2>3 DEF EngineTypeOK
<1>4. /\ step'[t] = "commit" /\ due'[t] = clock + SupabaseTimeout
      /\ worker'[t] = "running" /\ write'[t] = w
  BY <1>2 DEF EngineInv, EngineTypeOK
<1>5. Alone(t)
  BY <1>2 DEF Alone, EngineInv, EngineTypeOK
<1>6. Stage(t) /\ Source(t) /\ (NoFailure => Kept(t))
  BY DEF EngineInv
<1>7. Stage(t)'
  BY <1>2, <1>6, <1>1, <1>4 DEF Stage, Held, Loaded, CommitWrites
<1>8. Source(t)'
  BY <1>2, <1>4, <1>6 DEF Source
<1>9. ASSUME NoFailure PROVE Kept(t)'
  BY <1>6, <1>9, <1>4 DEF Kept, Stage, Loaded
<1> QED BY <1>2, <1>3, <1>5, <1>7, <1>8, <1>9, OneTurn DEF Profiled

\* The first write begins with the whole reserve left, or not at all.
LEMMA GeneratedStep == ASSUME EngineInv, NEW t \in Turns, Generated(t) PROVE EngineInv'
<1>1. /\ step[t] = "generation"
      /\ UNCHANGED <<database, seen, inserting, late, failed, stored, archival>>
  BY DEF Generated
<1>2. deadline[t] - clock \in Int /\ Reserve \in Nat \ {0}
  BY Typed, ConfigAssumption
<1>3. CASE deadline[t] - clock < Reserve
  <2>1. inserting' \in [Turns -> BOOLEAN] /\ profile' \in Seq(Turns) \cup {NoRow}
    BY <1>1 DEF EngineInv, EngineTypeOK, database
  <2> QED BY <1>3, <1>1, <2>1, Quits DEF Outcomes, database, commitVars, Generated
<1>4. CASE deadline[t] - clock >= Reserve
  <2>1. ~(deadline[t] - clock < Reserve) /\ deadline[t] - clock > 0
    BY <1>2, <1>4
  <2>2. BeginWrite(t, "save_turn") /\ "save_turn" \in CommitWrites
    BY Zenon, <2>1 DEF Generated, CommitWrites
  <2> QED BY Zenon, <1>1, <1>4, <2>1, <2>2, BeginStep
<1> QED BY <1>2, <1>3, <1>4

\* The second write begins within the reserve, unless the first took too long.
LEMMA SavedStep == ASSUME EngineInv, NEW t \in Turns, SavedTurn(t) PROVE EngineInv'
<1>1. /\ step[t] = "commit" /\ worker[t] = "committed" /\ write[t] = "save_turn"
      /\ BeginWrite(t, "sync_state")
      /\ UNCHANGED <<database, seen, inserting, late, failed, stored, archival>>
  BY DEF SavedTurn, Drained
<1>2. clock \in Nat /\ deadline[t] \in Nat /\ due[t] \in Int /\ Stage(t)
  BY Typed
<1>3. CASE deadline[t] - clock > 0
  BY <1>1, <1>3, BeginStep DEF CommitWrites
<1>4. CASE deadline[t] - clock <= 0
  <2> DEFINE result == IF cancelled[t] THEN "cancelled" ELSE "turn_timeout"
  <2>1. Leave(t, result) /\ write' = write
    BY <1>1, <1>4 DEF BeginWrite
  <2>2. result \in {"turn_timeout", "cancelled"}
    OBVIOUS
  <2> HIDE DEF result
  <2>3. overran[t]
    BY <1>1, <1>2, <1>4, ConfigAssumption DEF Stage
  <2>4. NoFailure => stored[t] = {"save_turn"}
    <3>1. NoFailure => "save_turn" \in stored[t] /\ "sync_state" \notin stored[t]
      BY <1>1 DEF EngineInv, Kept
    <3>2. stored[t] \subseteq {"save_turn", "sync_state"}
      BY DEF EngineInv, EngineTypeOK, CommitWrites
    <3> QED BY <3>1, <3>2
  <2>5. NoFailure => Split(t, result)
    BY <2>2, <2>3, <2>4 DEF Split
  <2>6. inserting' \in [Turns -> BOOLEAN] /\ profile' \in Seq(Turns) \cup {NoRow}
    BY <1>1 DEF EngineInv, EngineTypeOK, database
  <2>7. result \in Outcomes \cup {"invalid_request"}
    BY <2>2 DEF Outcomes
  <2> QED BY ZenonT(60), <1>1, <2>1, <2>5, <2>6, <2>7, Quits DEF database, commitVars
<1> QED BY <1>2, <1>3, <1>4

\* A commit section ends when its messages and its state are stored.
LEMMA EndStep == ASSUME EngineInv, NEW t \in Turns, CommitSectionEnds(t) PROVE EngineInv'
<1>1. /\ step[t] = "commit" /\ worker[t] \in {"committed", "failed"}
      /\ write[t] = "sync_state" \/ worker[t] = "failed"
      /\ UNCHANGED <<database, seen, inserting, commitVars>>
  BY DEF CommitSectionEnds, Drained, EngineInv, EngineTypeOK
<1>2. NoFailure => stored[t] = CommitWrites
  <2>1. SUFFICES ASSUME NoFailure PROVE stored[t] = CommitWrites
    OBVIOUS
  <2> QED BY <2>1, <1>1 DEF EngineInv, EngineTypeOK, CommitWrites, Kept, Stage, NoFailure
<1>3. inserting' \in [Turns -> BOOLEAN] /\ profile' \in Seq(Turns) \cup {NoRow}
  BY <1>1 DEF EngineInv, EngineTypeOK, database
<1>4. cancelled[t] \in BOOLEAN
  BY DEF EngineInv, EngineTypeOK
<1>5. CASE cancelled[t] \/ worker[t] = "failed"
  <2>1. PICK result \in Outcomes : Leave(t, result)
    BY <1>1, <1>4, <1>5 DEF CommitSectionEnds, Outcomes
  <2>2. archival' = archival
    BY <1>1, <1>4, <1>5 DEF CommitSectionEnds, EngineInv, EngineTypeOK
  <2> QED BY <1>1, <1>2, <1>3, <2>1, <2>2, Quits DEF database
<1>6. CASE ~cancelled[t] /\ worker[t] = "committed"
  <2>1. Leave(t, "completed")
    BY <1>1, <1>4, <1>6 DEF CommitSectionEnds
  <2>2. archival' = [archival EXCEPT ![t] = "queued"]
    BY <1>6 DEF CommitSectionEnds
  <2> QED BY ZenonT(60), <1>1, <1>2, <1>3, <2>1, <2>2, Quits DEF database, Outcomes
<1> QED BY <1>1, <1>4, <1>5, <1>6

\* The types of what a write changes.
LEMMA ApplyTypes ==
  ASSUME EngineInv, NEW t \in Turns, NEW w \in CommitWrites, seen[t] \in Seq(Turns), Apply(t, w)
  PROVE  /\ rows' \subseteq Turns /\ rows \subseteq rows'
         /\ profile' \in Seq(Turns) \cup {NoRow}
         /\ stored' \in [Turns -> SUBSET CommitWrites] /\ stored'[t] = stored[t] \cup {w}
         /\ \A u \in Turns : u # t => stored'[u] = stored[u]
         /\ extractions' = extractions
<1>1. Append(seen[t], t) \in Seq(Turns)
  BY AppendContains
<1> QED BY <1>1 DEF Apply, EngineInv, EngineTypeOK

\* A write that succeeds stores what the commit section holds.
LEMMA SuccessStep == ASSUME EngineInv, NEW t \in Turns, WriteSucceeds(t) PROVE EngineInv'
<1>1. /\ worker[t] = "running" /\ worker' = [worker EXCEPT ![t] = "committed"]
      /\ Apply(t, write[t])
      /\ UNCHANGED <<clock, overran, step, deadline, due, replaying, cancelled, outcome, lock, seen,
                     inserting, write, late, failed, archival>>
  BY DEF WriteSucceeds
<1>2. Stage(t) /\ Source(t) /\ (NoFailure => Kept(t))
  BY DEF EngineInv
<1>3. /\ step[t] = "commit" /\ write[t] \in CommitWrites /\ lock = t
      /\ seen[t] \in Seq(Turns)
  BY <1>1, <1>2 DEF Stage, Held, Loaded, EngineInv, EngineTypeOK
<1>4. /\ rows' \subseteq Turns /\ rows \subseteq rows'
      /\ profile' \in Seq(Turns) \cup {NoRow}
      /\ stored' \in [Turns -> SUBSET CommitWrites] /\ stored'[t] = stored[t] \cup {write[t]}
      /\ \A u \in Turns : u # t => stored'[u] = stored[u]
      /\ extractions' = extractions
  BY <1>1, <1>3, ApplyTypes
<1>5. EngineTypeOK'
  BY ZenonT(60), <1>1, <1>4 DEF EngineInv, EngineTypeOK
<1>6. worker'[t] = "committed"
  BY <1>1 DEF EngineInv, EngineTypeOK
<1>7. Alone(t)
  BY <1>1, <1>4 DEF Alone, EngineInv, EngineTypeOK
<1>8. Stage(t)' /\ Source(t)'
  BY <1>1, <1>2, <1>3, <1>4, <1>6 DEF Stage, Source
<1>9. ASSUME NoFailure
      PROVE  /\ Kept(t)'
             /\ \/ profile' = profile
                \/ profile \in Seq(Turns) /\ profile' = Append(profile, t)
  <2>1. /\ "sync_state" \notin stored[t] /\ seen[t] = profile /\ profile \in Seq(Turns)
        /\ write[t] = "sync_state" => "save_turn" \in stored[t]
    BY <1>1, <1>2, <1>3, <1>9 DEF Kept, Loaded
  <2>2. CASE write[t] = "save_turn"
    BY <1>1, <1>4, <2>1, <2>2, <1>3, <1>6 DEF Kept, Apply
  <2>3. CASE write[t] = "sync_state"
    <3>1. Contains(profile, t)'
      BY <1>1, <2>1, <2>3, AppendContains DEF Contains, Apply
    <3> QED BY <1>1, <2>1, <2>3, <1>3, <1>4, <1>6, <3>1 DEF Kept, Apply
  <2> QED BY <1>3, <2>2, <2>3 DEF CommitWrites
<1>10. Profiled(t)
  BY <1>1, <1>3, <1>9 DEF Profiled, NoFailure
<1> QED BY <1>1, <1>4, <1>5, <1>7, <1>8, <1>9, <1>10, OneTurn

\* A write that fails is counted as a failure.
LEMMA FailureStep == ASSUME EngineInv, NEW t \in Turns, WriteFails(t) PROVE EngineInv'
<1>1. /\ worker[t] = "running" /\ worker' = [worker EXCEPT ![t] = "failed"]
      /\ failed' = [failed EXCEPT ![t] = TRUE]
      /\ UNCHANGED <<clock, overran, step, deadline, due, replaying, cancelled, outcome, lock, seen,
                     inserting, write, archival>>
  BY DEF WriteFails
<1>2. /\ step[t] = "commit" /\ write[t] \in CommitWrites /\ lock = t
      /\ seen[t] \in Seq(Turns)
  BY <1>1 DEF Stage, Held, Loaded, EngineInv, EngineTypeOK
<1>3. /\ rows' \subseteq Turns /\ rows \subseteq rows'
      /\ profile' \in Seq(Turns) \cup {NoRow}
      /\ stored' \in [Turns -> SUBSET CommitWrites]
      /\ \A u \in Turns : u # t => stored'[u] = stored[u]
      /\ extractions' = extractions
  <2>1. CASE Apply(t, write[t])
    BY <1>2, <2>1, ApplyTypes
  <2>2. CASE UNCHANGED <<database, stored>>
    BY <2>2 DEF database, EngineInv, EngineTypeOK
  <2> QED BY <2>1, <2>2 DEF WriteFails
<1>4. /\ late' \in [Turns -> SUBSET CommitWrites]
      /\ \A u \in Turns : u # t => late'[u] = late[u]
  <2>1. late \in [Turns -> SUBSET CommitWrites] /\ late[t] \cup {write[t]} \in SUBSET CommitWrites
    BY <1>2 DEF EngineInv, EngineTypeOK
  <2> QED BY <2>1 DEF WriteFails
<1>5. worker'[t] = "failed" /\ failed'[t]
  BY <1>1 DEF EngineInv, EngineTypeOK
<1>6. EngineTypeOK'
  <2>1. failed' \in [Turns -> BOOLEAN]
    BY <1>1 DEF EngineInv, EngineTypeOK
  <2> QED BY <1>1, <1>3, <1>4, <2>1 DEF EngineInv, EngineTypeOK
<1>7. Alone(t)
  BY <1>1, <1>3, <1>4 DEF Alone, EngineInv, EngineTypeOK
<1>8. Stage(t)' /\ Source(t)'
  BY <1>1, <1>2, <1>3, <1>5 DEF Stage, Source, CommitWrites, EngineInv
<1> QED BY <1>5, <1>1, <1>3, <1>6, <1>7, <1>8, OneTurn DEF Profiled, NoFailure

\* Only a write that failed is applied late.
LEMMA LateStep ==
  ASSUME EngineInv, NEW t \in Turns, NEW w \in CommitWrites, LateWrite(t, w)
  PROVE  EngineInv'
<1>1. /\ w \in late[t] /\ Apply(t, w) /\ late' = [late EXCEPT ![t] = @ \ {w}]
      /\ UNCHANGED <<clock, overran, step, deadline, due, replaying, worker, cancelled, outcome, lock>>
      /\ UNCHANGED <<seen, inserting, write, failed, archival>>
  BY DEF LateWrite, vars
<1>2. Stage(t) /\ Source(t)
  BY DEF EngineInv
<1>3. failed[t] /\ write[t] # "none" /\ seen[t] \in Seq(Turns)
  BY <1>1, <1>2 DEF Stage
<1>4. /\ rows' \subseteq Turns /\ rows \subseteq rows'
      /\ profile' \in Seq(Turns) \cup {NoRow}
      /\ stored' \in [Turns -> SUBSET CommitWrites]
      /\ \A u \in Turns : u # t => stored'[u] = stored[u]
      /\ extractions' = extractions
  BY <1>1, <1>3, ApplyTypes
<1>5. EngineTypeOK'
  BY ZenonT(60), <1>1, <1>4 DEF EngineInv, EngineTypeOK
<1>6. Alone(t)
  BY <1>1, <1>4 DEF Alone, EngineInv, EngineTypeOK
<1>7. Stage(t)' /\ Source(t)'
  BY <1>1, <1>2, <1>3, <1>4 DEF Stage, Source
<1> QED BY <1>1, <1>3, <1>4, <1>5, <1>6, <1>7, OneTurn DEF Profiled, NoFailure

-----------------------------------------------------------------------------
(* The extraction, the deletion of the history, and the clock.             *)

\* A background extraction stores facts of messages that are there.
LEMMA ArchivalStage ==
  ASSUME EngineInv, NEW t \in Turns, NEW from \in {"queued", "loaded", "extracted"},
         NEW to \in {"loaded", "extracted", "over"}, ArchivalStep(t, from, to),
         \/ extractions' = extractions
         \/ t \in rows /\ extractions' = extractions \cup {t}
  PROVE  EngineInv'
<1>1. /\ archival[t] = from /\ archival' = [archival EXCEPT ![t] = to]
      /\ UNCHANGED <<clock, overran, step, deadline, due, replaying, worker, cancelled, outcome, lock>>
      /\ UNCHANGED <<rows, profile, seen, inserting, write, late, failed, stored>>
  BY DEF ArchivalStep, vars, commitVars
<1>2. EngineTypeOK'
  BY <1>1 DEF EngineInv, EngineTypeOK
<1>3. Alone(t)
  BY <1>1 DEF Alone, EngineInv, EngineTypeOK
<1>4. Source(t)'
  BY <1>1 DEF Source, EngineInv, EngineTypeOK
<1>5. Stage(t)'
  BY <1>1 DEF Stage, EngineInv
<1>6. NoFailure => Kept(t)'
  BY <1>1 DEF Kept, Split, Contains, EngineInv
<1> QED BY <1>1, <1>2, <1>3, <1>4, <1>5, <1>6, OneTurn DEF Profiled

\* Every step of run_archival_extraction is such a stage.
LEMMA ExtractionStep ==
  ASSUME EngineInv, NEW t \in Turns,
         LoadMessage(t) \/ ExtractFacts(t) \/ StoreExtraction(t) \/ ArchivalFails(t)
  PROVE  EngineInv'
<1>1. CASE LoadMessage(t)
  <2>1. PICK to \in {"loaded", "over"} : ArchivalStep(t, "queued", to)
    BY <1>1 DEF LoadMessage
  <2> QED BY <1>1, <2>1, ArchivalStage DEF LoadMessage
<1>2. CASE ExtractFacts(t)
  BY <1>2, ArchivalStage DEF ExtractFacts
<1>3. CASE StoreExtraction(t)
  BY <1>3, ArchivalStage DEF StoreExtraction
<1>4. CASE ArchivalFails(t)
  BY <1>4, ArchivalStage DEF ArchivalFails
<1> QED BY <1>1, <1>2, <1>3, <1>4

\* delete_history takes the extractions along with their messages.
LEMMA DeleteStep == ASSUME EngineInv, DeleteMessages PROVE EngineInv'
<1>1. ASSUME NEW u \in Turns PROVE Stage(u)' /\ Source(u)' /\ (NoFailure => Kept(u)')
  BY DEF EngineInv, Stage, Source, Kept, Split, Contains, DeleteMessages, vars, commitVars
<1> QED BY <1>1 DEF EngineInv, NoFailure, EngineTypeOK, DeleteMessages, vars, commitVars

\* The clock does not move on while a drained write is waiting, and passes the
\* timeout of a running one only where it has overrun.
LEMMA TickStep == ASSUME EngineInv, EngineTick PROVE EngineInv'
<1>1. /\ clock' = clock + 1 /\ \A u \in Turns : ~Urgent(u)
      /\ UNCHANGED <<step, deadline, due, replaying, worker, cancelled, outcome, lock>>
      /\ UNCHANGED <<rows, profile, extractions, seen, inserting, write, late, failed,
                     stored, archival>>
  BY DEF EngineTick, Tick, engineVars, database, commitVars
<1>2. EngineTypeOK
  BY DEF EngineInv
<1>3. EngineTypeOK'
  <2>1. clock' \in Nat /\ overran' \in [Turns -> BOOLEAN]
    BY <1>1, <1>2 DEF EngineTick, Tick, EngineTypeOK
  <2> QED BY <1>1, <1>2, <2>1 DEF EngineTypeOK
<1>4. ASSUME NEW u \in Turns
      PROVE  /\ overran[u] => overran'[u]
             /\ (worker[u] = "running" /\ clock >= due[u]) => overran'[u]
  <2>1. overran'[u] = (overran[u] \/ (worker[u] = "running" /\ clock >= due[u]))
    BY ZenonT(60) DEF EngineTick, Tick
  <2> QED BY Zenon, <2>1
<1>5. ASSUME NEW u \in Turns PROVE Stage(u)'
  <2>1. clock \in Nat /\ due[u] \in Int /\ Stage(u)
    BY Typed
  <2>2. step[u] = "commit" => worker[u] = "running"
    BY <1>1, <2>1 DEF Stage, Urgent
  <2>3. (step[u] = "commit" /\ write[u] = "save_turn") => clock' <= due[u] \/ overran'[u]
    <3>1. CASE clock >= due[u]
      BY Zenon, <1>4, <2>2, <3>1
    <3>2. CASE ~(clock >= due[u])
      <4>1. clock' <= due[u]
        BY <1>1, <2>1, <3>2
      <4> QED BY Zenon, <4>1
    <3> QED BY Zenon, <3>1, <3>2
  <2> QED BY <1>1, <2>1, <2>3 DEF Stage
<1>6. ASSUME NEW u \in Turns PROVE Source(u)' /\ (NoFailure => Kept(u)')
  BY <1>1, <1>4 DEF EngineInv, Source, Kept, Contains, Split
<1> QED BY <1>1, <1>3, <1>5, <1>6 DEF EngineInv, NoFailure

\* Nothing changes in a stuttering step.
LEMMA IdleStep ==
  ASSUME EngineInv, UNCHANGED <<vars, engineVars>> PROVE EngineInv'
<1> USE DEF vars, engineVars, database, commitVars
<1>1. ASSUME NEW u \in Turns PROVE Stage(u)' /\ Source(u)' /\ (NoFailure => Kept(u)')
  BY DEF EngineInv, Stage, Source, Kept, Split, Contains
<1> QED BY <1>1 DEF EngineInv, NoFailure, EngineTypeOK

-----------------------------------------------------------------------------

\* Before the first turn the invariant holds.
LEMMA EngineStarts == Init /\ EngineInit => EngineInv
<1> SUFFICES ASSUME Init, EngineInit PROVE EngineInv
  OBVIOUS
<1> USE DEF Init, EngineInit
<1>1. EngineTypeOK
  <2>1. profile \in Seq(Turns) \cup {NoRow}
    BY ZenonT(60), EmptyHistory
  <2>2. seen \in [Turns -> Seq(Turns) \cup {NoRow}]
    OBVIOUS
  <2>3. /\ clock \in Nat /\ overran \in [Turns -> BOOLEAN] /\ deadline \in [Turns -> Nat] /\ due \in [Turns -> Int]
        /\ step \in [Turns -> EngineSteps]
    BY DEF EngineSteps
  <2>4. /\ replaying = [t \in Turns |-> FALSE] /\ cancelled \in [Turns -> BOOLEAN]
        /\ worker \in [Turns -> {"none", "running", "committed", "failed"}]
        /\ outcome \in [Turns -> Outcomes \cup {"invalid_request", None}]
        /\ lock \in Turns \cup {None}
    OBVIOUS
  <2>5. /\ rows \subseteq Turns /\ extractions \subseteq Turns
        /\ inserting \in [Turns -> BOOLEAN] /\ failed \in [Turns -> BOOLEAN]
        /\ write \in [Turns -> CommitWrites \cup {"none"}]
    OBVIOUS
  <2>6. /\ late \in [Turns -> SUBSET CommitWrites] /\ stored \in [Turns -> SUBSET CommitWrites]
        /\ archival \in [Turns -> {"none", "queued", "loaded", "extracted", "over"}]
    OBVIOUS
  <2> HIDE DEF Init, EngineInit
  <2> QED BY <2>1, <2>2, <2>3, <2>4, <2>5, <2>6 DEF EngineTypeOK
<1>2. ASSUME NEW t \in Turns PROVE Stage(t) /\ Source(t) /\ Kept(t)
  BY DEF Stage, Source, Kept, Held, Loaded
<1> QED BY <1>1, <1>2 DEF EngineInv

\* Every step of the engine keeps the invariant.
LEMMA EngineStep == EngineInv /\ [EngineNext]_<<vars, engineVars>> => EngineInv'
<1> SUFFICES ASSUME EngineInv, [EngineNext]_<<vars, engineVars>> PROVE EngineInv'
  OBVIOUS
<1>1. CASE EngineTick \/ EngineRest \/ DeleteMessages \/ UNCHANGED <<vars, engineVars>>
  BY <1>1, TickStep, IdleStep, DeleteStep DEF EngineRest, Rest
<1>2. ASSUME NEW t \in Turns,
             \/ EngineArrive(t) \/ EngineLockGranted(t) \/ EngineTimesOut(t) \/ EngineReadFails(t)
             \/ LoadUserState(t) \/ FindNoProfile(t) \/ CreateProfile(t) \/ StrayInsert(t)
             \/ LoadContext(t) \/ Appraised(t) \/ InvalidRequest(t) \/ EngineAttemptFails(t)
      PROVE  EngineInv'
  BY <1>2, ArriveStep, GrantStep, GiveUpStep, LoadUserStateStep, InsertStep, CompletionStep
<1>3. ASSUME NEW t \in Turns,
             \/ Generated(t) \/ WriteSucceeds(t) \/ WriteFails(t) \/ SavedTurn(t)
             \/ CommitSectionEnds(t) \/ EngineCancel(t)
             \/ \E w \in CommitWrites : LateWrite(t, w)
      PROVE  EngineInv'
  BY <1>3, GeneratedStep, SuccessStep, FailureStep, SavedStep, EndStep, CancelStep, LateStep
<1>4. ASSUME NEW t \in Turns,
             LoadMessage(t) \/ ExtractFacts(t) \/ StoreExtraction(t) \/ ArchivalFails(t)
      PROVE  EngineInv'
  BY <1>4, ExtractionStep
<1> QED BY <1>1, <1>2, <1>3, <1>4 DEF EngineNext

\* As long as no write fails, every turn that reached its commit section ends
\* with its messages and its state stored, or with its messages alone after a
\* save_turn that took too long, and no turn of the user overwrites the state of
\* another: process_turn drains its commit section to the end, the reserve is
\* long enough for both writes, and the lock spans load and write.
THEOREM CommitSectionLosesNothing == EngineSpec => []OnlyFailuresLose
<1>1. EngineInv => OnlyFailuresLose
  <2> SUFFICES ASSUME EngineInv, NoFailure, NEW t \in Turns, step[t] = "done", write[t] # "none",
                      ~Split(t, outcome[t])
               PROVE  stored[t] = CommitWrites /\ \E i \in DOMAIN profile : profile[i] = t
    BY DEF OnlyFailuresLose, NoFailure, Split
  <2> QED BY DEF Contains, EngineInv, Kept, CommitWrites
<1> QED BY <1>1, EngineStarts, EngineStep, PTL DEF EngineSpec

\* A stored extraction belongs to a message that is there and to a turn that
\* was answered, wherever delete_history meets run_archival_extraction.
THEOREM ExtractionsKeepTheirSources == EngineSpec => []ExtractionsHaveSources
<1>1. EngineInv => ExtractionsHaveSources
  BY DEF EngineInv, EngineTypeOK, Source, ExtractionsHaveSources
<1> QED BY <1>1, EngineStarts, EngineStep, PTL DEF EngineSpec

=============================================================================
