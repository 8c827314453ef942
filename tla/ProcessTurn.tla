----------------------------- MODULE ProcessTurn -----------------------------
(***************************************************************************)
(* POST /chat for one user, served by several backend instances over one   *)
(* TurnStore: admission, the instance's per-user lock, the ProcessTurn use *)
(* case with its bounded revision retry, and the commit_turn RPC, which is *)
(* on the wire between the instance and the database.  The transport may   *)
(* give up on an RPC that the database still executes later, or never      *)
(* gets.  Deadlines are a choice at every point where the code checks one. *)
(***************************************************************************)
EXTENDS TurnStore

CONSTANTS
  Instances,      \* backend processes
  InstanceOf,     \* the instance that serves a call
  MaxAdmissions,  \* bound: admissions per request id
  MaxApplied      \* bound: applied privacy operations

ASSUME InstanceAssumption == InstanceOf \in [Calls -> Instances]

VARIABLES
  pc,          \* where the handler of a call stands
  asked,       \* the request id and message of a call
  mode,        \* TurnMode chosen at admission
  attempt,     \* commit attempts of _execute_normal
  loaded,      \* LoadedUserState of the current attempt
  context,     \* history and memories the prompt is built from
  wire,        \* the commit_turn RPC of a call: parameters and outcome
  answer,      \* what the client was told
  lockHolder,  \* per instance, the call inside the user's lock
  commits,     \* history variable: replies committed under each request id
  admissions,  \* history variable: admissions of each request id
  applied      \* history variable: privacy operations applied

handler == <<pc, asked, mode, attempt, loaded, context, answer, lockHolder>>
vars == <<store, handler, wire, commits, admissions, applied>>

Stages == {"lock", "load_state", "load_history", "load_memories", "provider",
           "commit", "replay"}

ErrorCodes == {"rejected", "request_id_conflict", "request_replay_unavailable",
               "request_payload_conflict", "revision_mismatch", "failed"}

Contexts == [history : Seq(ChatRows), memories : SUBSET Memories]

Outcomes == {"sent", "completed", "request_payload_conflict",
             "revision_mismatch", "committed"}

WireRpcs == [loaded : Loaded, context : Contexts, reply : Replies, outcome : Outcomes]

Answers == [status : {"ok"}, reply : Replies] \cup [status : ErrorCodes, reply : {None}]

\* Type invariant.
TypeOK ==
  /\ StoreTypeOK
  /\ pc \in [Calls -> Stages \cup {"idle", "admission", "done"}]
  /\ asked \in [Calls -> [request : RequestIds, message : Messages] \cup {None}]
  /\ mode \in [Calls -> {"normal", "replay_attempt"}]
  /\ attempt \in [Calls -> 1..MAX_COMMIT_ATTEMPTS]
  /\ loaded \in [Calls -> Loaded \cup {None}]
  /\ context \in [Calls -> Contexts \cup {None}]
  /\ wire \in [Calls -> WireRpcs \cup {None}]
  /\ answer \in [Calls -> Answers \cup {None}]
  /\ lockHolder \in [Instances -> Calls \cup {None}]
  /\ commits \in [RequestIds -> Seq(Replies)]
  /\ admissions \in [RequestIds -> Nat]
  /\ applied \in Nat

Init ==
  /\ StoreInit
  /\ pc = [c \in Calls |-> "idle"]
  /\ asked = [c \in Calls |-> None]
  /\ mode = [c \in Calls |-> "normal"]
  /\ attempt = [c \in Calls |-> 1]
  /\ loaded = [c \in Calls |-> None]
  /\ context = [c \in Calls |-> None]
  /\ wire = [c \in Calls |-> None]
  /\ answer = [c \in Calls |-> None]
  /\ lockHolder = [i \in Instances |-> None]
  /\ commits = [r \in RequestIds |-> <<>>]
  /\ admissions = [r \in RequestIds |-> 0]
  /\ applied = 0

ghosts == <<commits, admissions, applied>>

Ok(reply) == [status |-> "ok", reply |-> reply]
Error(code) == [status |-> code, reply |-> None]

\* The handler returns: the client gets its answer and the lock is released.
Answer(c, a) ==
  /\ pc' = [pc EXCEPT ![c] = "done"]
  /\ answer' = [answer EXCEPT ![c] = a]
  /\ lockHolder' = [i \in Instances |-> IF lockHolder[i] = c THEN None ELSE lockHolder[i]]

-----------------------------------------------------------------------------
\* A client sends a message, possibly under an id it has used before.
Arrive(c, r, m) ==
  /\ pc[c] = "idle"
  /\ pc' = [pc EXCEPT ![c] = "admission"]
  /\ asked' = [asked EXCEPT ![c] = [request |-> r, message |-> m]]
  /\ UNCHANGED <<store, mode, attempt, loaded, context, answer, lockHolder, wire, ghosts>>

\* The first call under an id is admitted and runs the turn.
Admit(c) ==
  LET r == asked[c].request IN
  /\ pc[c] = "admission"
  /\ AdmissionDecision(r, asked[c].message) = "admitted"
  /\ admissions[r] < MaxAdmissions
  /\ Reserve(r, asked[c].message)
  /\ admissions' = [admissions EXCEPT ![r] = @ + 1]
  /\ pc' = [pc EXCEPT ![c] = "lock"]
  /\ UNCHANGED <<asked, mode, attempt, loaded, context, answer, lockHolder, wire,
                 commits, applied>>

\* Mutant: a repeated id runs the turn again.
MutAdmitReplay(c) ==
  /\ pc[c] = "admission"
  /\ AdmissionDecision(asked[c].request, asked[c].message) = "request_replay_unavailable"
  /\ pc' = [pc EXCEPT ![c] = "lock"]
  /\ UNCHANGED <<store, asked, mode, attempt, loaded, context, answer, lockHolder, wire, ghosts>>

\* A repeated id with the same message only looks for the committed result.
AdmitReplay(c) ==
  /\ pc[c] = "admission"
  /\ AdmissionDecision(asked[c].request, asked[c].message) = "request_replay_unavailable"
  /\ mode' = [mode EXCEPT ![c] = "replay_attempt"]
  /\ pc' = [pc EXCEPT ![c] = "lock"]
  /\ UNCHANGED <<store, asked, attempt, loaded, context, answer, lockHolder, wire, ghosts>>

\* A quota window is full, or the id belongs to another message.
Reject(c) ==
  /\ pc[c] = "admission"
  /\ \/ /\ AdmissionDecision(asked[c].request, asked[c].message) = "admitted"
        /\ Answer(c, Error("rejected"))
     \/ /\ AdmissionDecision(asked[c].request, asked[c].message) = "request_id_conflict"
        /\ Answer(c, Error("request_id_conflict"))
  /\ UNCHANGED <<store, asked, mode, attempt, loaded, context, wire, ghosts>>

\* reserve_admission fails for the backend, before or after it took effect.
AdmissionUnavailable(c) ==
  LET r == asked[c].request IN
  /\ pc[c] = "admission"
  /\ Answer(c, Error("failed"))
  /\ \/ UNCHANGED <<store, admissions>>
     \/ /\ AdmissionDecision(r, asked[c].message) = "admitted"
        /\ admissions[r] < MaxAdmissions
        /\ Reserve(r, asked[c].message)
        /\ admissions' = [admissions EXCEPT ![r] = @ + 1]
  /\ UNCHANGED <<asked, mode, attempt, loaded, context, wire, commits, applied>>

-----------------------------------------------------------------------------
AcquireLock(c) ==
  /\ pc[c] = "lock"
  /\ lockHolder[InstanceOf[c]] = None
  /\ lockHolder' = [lockHolder EXCEPT ![InstanceOf[c]] = c]
  /\ pc' = [pc EXCEPT ![c] = IF mode[c] = "normal" THEN "load_state" ELSE "replay"]
  /\ UNCHANGED <<store, asked, mode, attempt, loaded, context, answer, wire, ghosts>>

LoadState(c) ==
  /\ pc[c] = "load_state"
  /\ loaded' = [loaded EXCEPT ![c] = [revision |-> profile.revision,
                                      emotional |-> profile.emotional,
                                      relationship |-> profile.relationship]]
  /\ pc' = [pc EXCEPT ![c] = "load_history"]
  /\ UNCHANGED <<store, asked, mode, attempt, context, answer, lockHolder, wire, ghosts>>

\* load_context_data makes two reads, with an embedding call in between.
LoadHistory(c) ==
  /\ pc[c] = "load_history"
  /\ context' = [context EXCEPT ![c] = [history |-> chatLogs, memories |-> {}]]
  /\ pc' = [pc EXCEPT ![c] = "load_memories"]
  /\ UNCHANGED <<store, asked, mode, attempt, loaded, answer, lockHolder, wire, ghosts>>

LoadMemories(c) ==
  /\ pc[c] = "load_memories"
  /\ context' = [context EXCEPT ![c] = [@ EXCEPT !.memories = memories]]
  /\ pc' = [pc EXCEPT ![c] = "provider"]
  /\ UNCHANGED <<store, asked, mode, attempt, loaded, answer, lockHolder, wire, ghosts>>

\* Appraisal, transitions and generation succeed; the commit RPC is sent.
Generate(c) ==
  /\ pc[c] = "provider"
  /\ wire' = [wire EXCEPT ![c] = [loaded |-> loaded[c], context |-> context[c],
                                  reply |-> <<c, attempt[c]>>, outcome |-> "sent"]]
  /\ pc' = [pc EXCEPT ![c] = "commit"]
  /\ UNCHANGED <<store, asked, mode, attempt, loaded, context, answer, lockHolder, ghosts>>

\* The database executes the RPC, whether or not anyone still waits for it.
ExecuteCommit(c) ==
  LET r == asked[c].request
      w == wire[c]
      decision == CommitDecision(r, w.reply, w.loaded.revision)
  IN /\ w # None
     /\ w.outcome = "sent"
     /\ commit_turn(r, asked[c].message, w.reply, w.loaded)
     /\ wire' = [wire EXCEPT ![c].outcome = decision]
     /\ commits' = IF decision = "committed"
                   THEN [commits EXCEPT ![r] = Append(@, w.reply)]
                   ELSE commits
     /\ UNCHANGED <<handler, admissions, applied>>

\* The RPC never reaches the database.
LoseCommit(c) ==
  /\ pc[c] = "done"
  /\ wire[c] # None
  /\ wire[c].outcome = "sent"
  /\ wire' = [wire EXCEPT ![c] = None]
  /\ UNCHANGED <<store, handler, ghosts>>

-----------------------------------------------------------------------------
(* What _execute_normal does with the outcome of the write.                *)

Returned(c) == pc[c] = "commit" /\ wire[c] # None /\ wire[c].outcome # "sent"

CommitSucceeded(c) ==
  /\ Returned(c)
  /\ wire[c].outcome \in {"committed", "completed"}
  /\ Answer(c, Ok(wire[c].reply))
  /\ wire' = [wire EXCEPT ![c] = None]
  /\ UNCHANGED <<store, asked, mode, attempt, loaded, context, ghosts>>

\* Mutant: the retry loads the state again but keeps the old context.
MutRetryKeepsContext(c) ==
  /\ Returned(c)
  /\ wire[c].outcome = "revision_mismatch"
  /\ attempt[c] < MAX_COMMIT_ATTEMPTS
  /\ attempt' = [attempt EXCEPT ![c] = @ + 1]
  /\ loaded' = [loaded EXCEPT ![c] = [revision |-> profile.revision,
                                      emotional |-> profile.emotional,
                                      relationship |-> profile.relationship]]
  /\ pc' = [pc EXCEPT ![c] = "provider"]
  /\ wire' = [wire EXCEPT ![c] = None]
  /\ UNCHANGED <<store, asked, mode, context, answer, lockHolder, ghosts>>

\* Only a revision mismatch is retried, once, from a fresh load.
RetryTurn(c) ==
  /\ Returned(c)
  /\ wire[c].outcome = "revision_mismatch"
  /\ attempt[c] < MAX_COMMIT_ATTEMPTS
  /\ attempt' = [attempt EXCEPT ![c] = @ + 1]
  /\ pc' = [pc EXCEPT ![c] = "load_state"]
  /\ wire' = [wire EXCEPT ![c] = None]
  /\ UNCHANGED <<store, asked, mode, loaded, context, answer, lockHolder, ghosts>>

CommitConflict(c) ==
  /\ Returned(c)
  /\ \/ wire[c].outcome = "request_payload_conflict"
     \/ wire[c].outcome = "revision_mismatch" /\ attempt[c] = MAX_COMMIT_ATTEMPTS
  /\ Answer(c, Error(wire[c].outcome))
  /\ wire' = [wire EXCEPT ![c] = None]
  /\ UNCHANGED <<store, asked, mode, attempt, loaded, context, ghosts>>

\* Mutant: no timeout on the write, the handler waits for the response.
MutCommitUnavailable(c) ==
  /\ pc[c] = "commit"
  /\ wire[c].outcome # "sent"
  /\ Answer(c, Error("failed"))
  /\ UNCHANGED <<store, asked, mode, attempt, loaded, context, wire, ghosts>>

\* Transport timeout, cancellation or shutdown; the RPC stays on the wire.
CommitUnavailable(c) ==
  /\ pc[c] = "commit"
  /\ Answer(c, Error("failed"))
  /\ UNCHANGED <<store, asked, mode, attempt, loaded, context, wire, ghosts>>

Replay(c) ==
  LET r == asked[c].request IN
  /\ pc[c] = "replay"
  /\ Answer(c, IF ReplayDecision(r) = "completed"
               THEN Ok(turns[r].reply)
               ELSE Error("request_replay_unavailable"))
  /\ UNCHANGED <<store, asked, mode, attempt, loaded, context, wire, ghosts>>

\* Deadline, failed read, provider failure or cancellation before the commit.
Abandon(c) ==
  /\ pc[c] \in Stages \ {"commit"}
  /\ Answer(c, Error("failed"))
  /\ UNCHANGED <<store, asked, mode, attempt, loaded, context, wire, ghosts>>

-----------------------------------------------------------------------------
\* A call of a privacy endpoint; a retry repeats the operation id.
Privacy(o, kind, stamp) ==
  /\ applied < MaxApplied
  /\ privacy_apply_operation(o, kind, stamp)
  /\ applied' = IF PrivacyDecision(o, kind, stamp) = "applied" THEN applied + 1 ELSE applied
  /\ UNCHANGED <<handler, wire, commits, admissions>>

\* A call that can still commit the turn it was admitted for.
Running(c) ==
  \/ pc[c] \in Stages /\ mode[c] = "normal"
  \/ wire[c] # None /\ wire[c].outcome = "sent"

\* A reservation ages out after 24 hours, and no turn of it runs that long.
ForgetReservation(r) ==
  /\ purge_admission_reservations(r)
  /\ \A c \in Calls : Running(c) => asked[c].request # r
  /\ UNCHANGED <<handler, wire, ghosts>>

ForgetPrivacyOp(o) ==
  /\ purge_privacy_operations(o)
  /\ UNCHANGED <<handler, wire, ghosts>>

-----------------------------------------------------------------------------
CallStep(c) ==
  \/ Admit(c) \/ AdmitReplay(c) \/ Reject(c) \/ AdmissionUnavailable(c)
  \/ AcquireLock(c) \/ LoadState(c) \/ LoadHistory(c) \/ LoadMemories(c) \/ Generate(c)
  \/ CommitSucceeded(c) \/ RetryTurn(c) \/ CommitConflict(c) \/ CommitUnavailable(c)
  \/ Replay(c) \/ Abandon(c)

Next ==
  \/ \E c \in Calls :
       \/ \E r \in RequestIds, m \in Messages : Arrive(c, r, m)
       \/ CallStep(c)
       \/ ExecuteCommit(c)
       \/ LoseCommit(c)
  \/ \E o \in OpIds, k \in PrivacyKinds, s \in Stamps : Privacy(o, k, s)
  \/ \E r \in RequestIds : ForgetReservation(r)
  \/ \E o \in OpIds : ForgetPrivacyOp(o)

Spec == Init /\ [][Next]_vars

\* The event loop runs every handler, and every await in it has a timeout.
FairSpec == Spec /\ \A c \in Calls : WF_vars(CallStep(c))

-----------------------------------------------------------------------------
(* Properties.                                                             *)

Range(s) == {s[i] : i \in DOMAIN s}

\* A client is told "ok" only with a reply that commit_turn persisted under
\* the id it sent, whether the call ran the turn or replayed it.
AnswersWereCommitted ==
  \A c \in Calls : (answer[c] # None /\ answer[c].status = "ok") =>
    answer[c].reply \in Range(commits[asked[c].request])

\* However calls, retries, late RPCs and privacy operations interleave, an
\* admission of a request id leads to at most one committed turn.
AtMostOncePerAdmission ==
  \A r \in RequestIds : Len(commits[r]) <= admissions[r]

\* While a reservation is kept (24 hours), an answer that says "ok" is the
\* answer to the very message of the call: replay never mixes up two turns.
AnswerFitsMessage ==
  \A c \in Calls : (answer[c] # None /\ answer[c].status = "ok") =>
    asked[answer[c].reply[1]] = asked[c]

\* The snapshots of the profile only ever gain one turn, computed from the
\* snapshots they replace, or are reset to neutral: no concurrent turn or
\* reset is overwritten by a turn that did not see it.
Extends(new, old) == \E y \in Replies : new = Append(old, y)

NoLostUpdate ==
  [][ \/ UNCHANGED <<profile.emotional, profile.relationship>>
      \/ /\ Extends(profile'.emotional, profile.emotional)
         /\ Extends(profile'.relationship, profile.relationship)
      \/ profile'.emotional = <<>> /\ UNCHANGED profile.relationship
      \/ profile'.relationship = <<>> /\ UNCHANGED profile.emotional ]_vars

\* State, history and memories are three separate reads, but a turn is
\* committed only if all still hold: in particular nothing is committed that was generated
\* from messages or memories the user has since deleted.
Commits(c) ==
  /\ wire[c] # None /\ wire[c].outcome = "sent"
  /\ wire'[c] # None /\ wire'[c].outcome = "committed"

ReadsHoldAtCommit ==
  [][ \A c \in Calls : Commits(c) =>
        wire[c].context = [history |-> chatLogs, memories |-> memories] ]_vars

\* Every call gets an answer, whatever the database, the provider and the
\* other calls do: attempts are bounded and no handler waits for ever.
EveryCallAnswered ==
  \A c \in Calls : pc[c] = "admission" ~> pc[c] = "done"

\* The store implements turns that run one at a time.
Serial == INSTANCE SerialTurns

SerialTurnsImplemented == Serial!SerialSpec
=============================================================================
