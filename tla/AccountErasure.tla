--------------------------- MODULE AccountErasure ----------------------------
(***************************************************************************)
(* Turns of a user (ProcessTurn) while the user's account is being deleted *)
(* (AccountDeletion).  Both take the user's advisory lock, so their        *)
(* database steps do not overlap; a turn never looks at the deletion       *)
(* ledger.                                                                 *)
(***************************************************************************)
EXTENDS ProcessTurn

CONSTANTS Jobs, Workers, LeaseSeconds, MaxBatch, MaxAttempts, BackoffStep, BackoffCap,
          Horizon, MaxLate

VARIABLES jobs, authUsers, workers, late, purged

\* The user all the tables of TurnStore belong to.
User == "user"

Deletion == INSTANCE AccountDeletion
  WITH Users <- {User}, UserOf <- [j \in Jobs |-> User]

deletion == <<jobs, authUsers, workers, late, purged>>

ErasureInit == Init /\ Deletion!Init

\* get_current_user asks Auth for the user of every new call.
Authenticated == (\E c \in Calls : pc[c] # pc'[c] /\ pc[c] = "idle") => User \in authUsers

TurnStep == Next /\ Authenticated /\ UNCHANGED deletion

\* The deletes of account_deletion_purge, in one transaction with its marker.
EraseRows ==
  /\ profile' = NoProfile
  /\ turns' = [r \in RequestIds |-> None]
  /\ chatLogs' = <<>>
  /\ outbox' = {}
  /\ memories' = {}
  /\ reservations' = [r \in RequestIds |-> None]
  /\ privacyOps' = [o \in OpIds |-> None]

Purges == \E j \in Jobs : jobs[j] # None /\ ~jobs[j].purged /\ jobs'[j].purged

DeletionStep ==
  /\ Deletion!Next
  /\ IF Purges THEN EraseRows ELSE UNCHANGED store
  /\ UNCHANGED <<handler, wire, ghosts>>

ErasureSpec == ErasureInit /\ [][TurnStep \/ DeletionStep]_<<vars, deletion>>

\* Once the purge of a deletion has committed, no turn of the user brings rows
\* back: commit_turn takes the same advisory lock as account_deletion_purge.
NothingAfterPurge ==
  User \in purged =>
    ~profile.exists /\ chatLogs = <<>> /\ \A r \in RequestIds : turns[r] = None
=============================================================================
