------------------------------ MODULE TurnStore ------------------------------
(***************************************************************************)
(* The PostgreSQL side of a turn, for one user: every table below is keyed *)
(* by user_id and every writing RPC first takes that user's advisory lock, *)
(* so each RPC is one atomic step.  A snapshot (emotional, relationship)   *)
(* is the sequence of turn executions folded into it since it was neutral. *)
(* A reply stands for everything one execution of a turn produces; its     *)
(* message id is a fresh UUID, so comparing payload hashes is comparing    *)
(* replies.                                                                *)
(***************************************************************************)
EXTENDS Naturals, Sequences, FiniteSets

CONSTANTS
  Calls,            \* HTTP calls of POST /chat
  RequestIds,       \* idempotency ids a client may send
  Messages,         \* message texts
  OpIds,            \* operation ids of the privacy endpoints
  Memories,         \* rows of public.memories before the first call
  Stamps,           \* readings of the clock that stamps a neutral snapshot
  ArchivalEnabled,  \* archival_extraction_enabled
  None

ASSUME StoreAssumption ==
  /\ ArchivalEnabled \in BOOLEAN
  /\ None \notin Messages
  /\ None \notin Stamps

\* Initial commit plus exactly one retry after a revision mismatch.
MAX_COMMIT_ATTEMPTS == 2

Replies == Calls \X (1..MAX_COMMIT_ATTEMPTS)

Snapshots == Seq(Replies)

VARIABLES
  profile,       \* the profiles row; a missing row reads as revision 0, neutral
  turns,         \* turn_requests: a completed row, or None
  chatLogs,      \* chat_logs in insertion order
  outbox,        \* requests with a pending outbox event
  memories,      \* rows of public.memories
  reservations,  \* admission_reservations: the admitted message, or None
  privacyOps     \* privacy_operations: the applied operation, or None

store == <<profile, turns, chatLogs, outbox, memories, reservations, privacyOps>>

PrivacyKinds == {"delete_history", "delete_memories",
                 "reset_emotional_state", "reset_relationship_state"}

Loaded == [revision : Nat, emotional : Snapshots, relationship : Snapshots]

Profiles == [exists : BOOLEAN, revision : Nat,
             emotional : Snapshots, relationship : Snapshots]

TurnRows == [message : Messages, reply : Replies, revision : Nat]

ChatRows == [role : {"user", "assistant"}, reply : Replies]

PrivacyRows == [kind : PrivacyKinds, stamp : Stamps \cup {None}, revision : Nat]

\* Type invariant.
StoreTypeOK ==
  /\ profile \in Profiles
  /\ turns \in [RequestIds -> TurnRows \cup {None}]
  /\ chatLogs \in Seq(ChatRows)
  /\ outbox \in SUBSET RequestIds
  /\ memories \in SUBSET Memories
  /\ reservations \in [RequestIds -> Messages \cup {None}]
  /\ privacyOps \in [OpIds -> PrivacyRows \cup {None}]

NoProfile == [exists |-> FALSE, revision |-> 0, emotional |-> <<>>, relationship |-> <<>>]

\* A new user, or one whose legacy profile got revision 0 from the migration.
StoreInit ==
  /\ profile \in {NoProfile, [NoProfile EXCEPT !.exists = TRUE]}
  /\ turns = [r \in RequestIds |-> None]
  /\ chatLogs = <<>>
  /\ outbox = {}
  /\ memories = IF profile.exists THEN Memories ELSE {}
  /\ reservations = [r \in RequestIds |-> None]
  /\ privacyOps = [o \in OpIds |-> None]

-----------------------------------------------------------------------------
(* reserve_admission, up to its quota windows (module AdmissionLedger).    *)

\* Mutant: the reserved message is not compared.
MutAdmissionDecision(r, m) ==
  IF reservations[r] = None THEN "admitted" ELSE "request_replay_unavailable"

\* The duplicate check comes before every quota check.
AdmissionDecision(r, m) ==
  IF reservations[r] = None THEN "admitted"
  ELSE IF reservations[r] = m THEN "request_replay_unavailable"
  ELSE "request_id_conflict"

Reserve(r, m) ==
  /\ reservations' = [reservations EXCEPT ![r] = m]
  /\ UNCHANGED <<profile, turns, chatLogs, outbox, memories, privacyOps>>

\* The retention job removes a reservation once it is older than 24 hours.
purge_admission_reservations(r) ==
  /\ reservations[r] # None
  /\ reservations' = [reservations EXCEPT ![r] = None]
  /\ UNCHANGED <<profile, turns, chatLogs, outbox, memories, privacyOps>>

-----------------------------------------------------------------------------
(* commit_turn and replay_committed_turn.                                  *)

\* Mutant: the compare-and-set on the revision is missing.
MutCommitDecision(r, reply, expected) ==
  IF turns[r] # None
  THEN IF turns[r].reply = reply THEN "completed" ELSE "request_payload_conflict"
  ELSE "committed"

\* The request row is examined before the revision.
CommitDecision(r, reply, expected) ==
  IF turns[r] # None
  THEN IF turns[r].reply = reply THEN "completed" ELSE "request_payload_conflict"
  ELSE IF profile.revision # expected THEN "revision_mismatch"
  ELSE "committed"

TurnMessages(reply) == << [role |-> "user", reply |-> reply],
                          [role |-> "assistant", reply |-> reply] >>

\* The writes of a commit whose snapshots were computed from ld.
ApplyTurn(r, m, reply, ld) ==
  /\ profile' = [exists |-> TRUE,
                 revision |-> profile.revision + 1,
                 emotional |-> Append(ld.emotional, reply),
                 relationship |-> Append(ld.relationship, reply)]
  /\ turns' = [turns EXCEPT ![r] = [message |-> m, reply |-> reply,
                                    revision |-> profile.revision + 1]]
  /\ chatLogs' = chatLogs \o TurnMessages(reply)
  /\ outbox' = IF ArchivalEnabled THEN outbox \cup {r} ELSE outbox
  /\ UNCHANGED <<memories, reservations, privacyOps>>

commit_turn(r, m, reply, ld) ==
  IF CommitDecision(r, reply, ld.revision) = "committed"
  THEN ApplyTurn(r, m, reply, ld)
  ELSE UNCHANGED store

ReplayDecision(r) ==
  IF turns[r] = None THEN "request_replay_unavailable" ELSE "completed"

-----------------------------------------------------------------------------
(* privacy_apply_operation and its four wrappers.                          *)

\* Only a reset carries a payload, a neutral snapshot stamped by the service.
PayloadStamp(kind, stamp) ==
  IF kind \in {"delete_history", "delete_memories"} THEN None ELSE stamp

\* Mutant: the ledger is not consulted before the operation is applied.
MutPrivacyDecision(o, kind, stamp) == "applied"

PrivacyDecision(o, kind, stamp) ==
  IF privacyOps[o] = None THEN "applied"
  ELSE IF /\ privacyOps[o].kind = kind
          /\ privacyOps[o].stamp = PayloadStamp(kind, stamp)
       THEN "replayed"
       ELSE "operation_conflict"

\* Any applied operation bumps the revision once, if there is a profile.
PrivacyRevision == IF profile.exists THEN profile.revision + 1 ELSE profile.revision

ApplyPrivacy(o, kind, stamp) ==
  /\ profile' = [profile EXCEPT
       !.revision = PrivacyRevision,
       !.emotional = IF kind = "reset_emotional_state" THEN <<>> ELSE @,
       !.relationship = IF kind = "reset_relationship_state" THEN <<>> ELSE @]
  /\ turns' = IF kind = "delete_history" THEN [r \in RequestIds |-> None] ELSE turns
  /\ chatLogs' = IF kind = "delete_history" THEN <<>> ELSE chatLogs
  /\ outbox' = IF kind = "delete_history" THEN {} ELSE outbox
  /\ memories' = IF kind = "delete_memories" THEN {} ELSE memories
  /\ privacyOps' = [privacyOps EXCEPT ![o] =
                     [kind |-> kind, stamp |-> PayloadStamp(kind, stamp),
                      revision |-> PrivacyRevision]]
  /\ UNCHANGED reservations

privacy_apply_operation(o, kind, stamp) ==
  IF PrivacyDecision(o, kind, stamp) = "applied"
  THEN ApplyPrivacy(o, kind, stamp)
  ELSE UNCHANGED store

\* The retention job removes a ledger row once it is older than 30 days.
purge_privacy_operations(o) ==
  /\ privacyOps[o] # None
  /\ privacyOps' = [privacyOps EXCEPT ![o] = None]
  /\ UNCHANGED <<profile, turns, chatLogs, outbox, memories, reservations>>

=============================================================================
