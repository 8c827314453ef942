----------------------------- MODULE LocalStorage -----------------------------
(***************************************************************************)
(* The SQLite file of the desktop application.  Every operation below is   *)
(* one BEGIN IMMEDIATE transaction, so it is atomic whichever LocalStorage *)
(* object, and whichever lock, it runs under.  A turn execution is a       *)
(* number; a snapshot is the sequence of the executions folded into it     *)
(* since it was neutral; an execution in chat_logs stands for its two      *)
(* messages.  A missing profile reads as revision 0, neutral.              *)
(***************************************************************************)
EXTENDS Naturals, Sequences

CONSTANTS RequestIds, Messages, None

VARIABLES
  profile,    \* the row of profiles
  requests,   \* turn_requests
  chatLogs,   \* chat_logs
  generation  \* number of delete_history rows in privacy_operations

file == <<profile, requests, chatLogs, generation>>

Executions == Nat

Profiles == [revision : Nat, emotional : Seq(Executions), relationship : Seq(Executions)]

Pending == [status : {"pending"}, marker : Nat]
Completed == [status : {"completed"}, message : Messages, reply : Executions]
Failed == [status |-> "failed"]

\* Type invariant.
FileTypeOK ==
  /\ profile \in Profiles
  /\ requests \in [RequestIds -> Pending \cup Completed \cup {Failed, None}]
  /\ chatLogs \in SUBSET Executions
  /\ generation \in Nat

FileInit ==
  /\ profile = [revision |-> 0, emotional |-> <<>>, relationship |-> <<>>]
  /\ requests = [r \in RequestIds |-> None]
  /\ chatLogs = {}
  /\ generation = 0

Reserved(g) == [status |-> "pending", marker |-> g]

\* On open every pending row becomes failed.
Recover ==
  /\ requests' = [r \in RequestIds |->
       IF requests[r] # None /\ requests[r].status = "pending" THEN Failed ELSE requests[r]]
  /\ UNCHANGED <<profile, chatLogs, generation>>

-----------------------------------------------------------------------------
\* Mutant: the message of a completed request is not compared.
MutReserveDecisionReplay(r, m) ==
  IF requests[r] = None THEN "reserved"
  ELSE IF requests[r].status = "completed" THEN "replay"
  ELSE "conflict"

ReserveDecision(r, m) ==
  IF requests[r] = None THEN "reserved"
  ELSE IF requests[r].status = "completed" /\ requests[r].message = m THEN "replay"
  ELSE "conflict"

reserve_request(r, m) ==
  IF ReserveDecision(r, m) = "reserved"
  THEN /\ requests' = [requests EXCEPT ![r] = Reserved(generation)]
       /\ UNCHANGED <<profile, chatLogs, generation>>
  ELSE UNCHANGED file

\* Mutant: the history generation of the reservation is not checked.
MutCommitDecision(r, g, expected) ==
  IF requests[r] # None /\ requests[r].status = "completed" THEN "request_payload_conflict"
  ELSE IF requests[r] = Failed THEN "request_replay_unavailable"
  ELSE IF profile.revision # expected THEN "revision_mismatch"
  ELSE "committed"

\* Mutant: the compare-and-set on the revision is missing.
MutCommitDecisionCas(r, g, expected) ==
  IF requests[r] # None /\ requests[r].status = "completed" THEN "request_payload_conflict"
  ELSE IF requests[r] = Failed THEN "request_replay_unavailable"
  ELSE IF generation # g \/ requests[r] # Reserved(g) THEN "request_reservation_invalidated"
  ELSE "committed"

\* An execution commits once, so a completed row is another execution's.
CommitDecision(r, g, expected) ==
  IF requests[r] # None /\ requests[r].status = "completed" THEN "request_payload_conflict"
  ELSE IF requests[r] = Failed THEN "request_replay_unavailable"
  ELSE IF generation # g \/ requests[r] # Reserved(g) THEN "request_reservation_invalidated"
  ELSE IF profile.revision # expected THEN "revision_mismatch"
  ELSE "committed"

\* Execution x of message m, computed from the profile ld.
commit_turn(r, m, x, g, ld) ==
  IF CommitDecision(r, g, ld.revision) = "committed"
  THEN /\ profile' = [revision |-> profile.revision + 1,
                      emotional |-> Append(ld.emotional, x),
                      relationship |-> Append(ld.relationship, x)]
       /\ requests' = [requests EXCEPT ![r] = [status |-> "completed", message |-> m, reply |-> x]]
       /\ chatLogs' = chatLogs \cup {x}
       /\ UNCHANGED generation
  ELSE UNCHANGED file

\* Mutant: the generation of the reservation is ignored.
MutReleases(r, g) == requests[r] # None /\ requests[r].status = "pending"

Releases(r, g) == requests[r] = Reserved(g)

release_request(r, g) ==
  /\ requests' = IF Releases(r, g) THEN [requests EXCEPT ![r] = None] ELSE requests
  /\ UNCHANGED <<profile, chatLogs, generation>>

-----------------------------------------------------------------------------
delete_history ==
  /\ requests' = [r \in RequestIds |-> None]
  /\ chatLogs' = {}
  /\ generation' = generation + 1
  /\ UNCHANGED profile

reset_emotional_state ==
  /\ profile' = [profile EXCEPT !.emotional = <<>>, !.revision = @ + 1]
  /\ UNCHANGED <<requests, chatLogs, generation>>

reset_relationship_state ==
  /\ profile' = [profile EXCEPT !.relationship = <<>>, !.revision = @ + 1]
  /\ UNCHANGED <<requests, chatLogs, generation>>

PrivacyOps == {"delete_history", "reset_emotional_state", "reset_relationship_state"}

privacy_op(op) ==
  CASE op = "delete_history" -> delete_history
    [] op = "reset_emotional_state" -> reset_emotional_state
    [] op = "reset_relationship_state" -> reset_relationship_state
=============================================================================
