----------------------------- MODULE SerialTurns -----------------------------
(***************************************************************************)
(* What the transactional turn promises for one user: every committed turn *)
(* behaves as if it had read the profile, run and written it in one step,  *)
(* a request id is recorded at most once, and a privacy operation is one   *)
(* step between turns.                                                     *)
(***************************************************************************)
EXTENDS Naturals, Sequences

CONSTANTS RequestIds, Messages, Replies, None

VARIABLES profile, turns, chatLogs

serialVars == <<profile, turns, chatLogs>>

SerialInit ==
  /\ profile.revision = 0 /\ profile.emotional = <<>> /\ profile.relationship = <<>>
  /\ turns = [r \in RequestIds |-> None]
  /\ chatLogs = <<>>

\* Read, run and commit, as one step.
Turn(r, m, y) ==
  /\ turns[r] = None
  /\ profile' = [exists |-> TRUE, revision |-> profile.revision + 1,
                 emotional |-> Append(profile.emotional, y),
                 relationship |-> Append(profile.relationship, y)]
  /\ turns' = [turns EXCEPT ![r] = [message |-> m, reply |-> y,
                                    revision |-> profile.revision + 1]]
  /\ chatLogs' = chatLogs \o << [role |-> "user", reply |-> y],
                                [role |-> "assistant", reply |-> y] >>

\* An applied operation invalidates whatever was computed before it.
Bumped == IF profile.exists THEN profile.revision + 1 ELSE profile.revision

EraseHistory ==
  /\ profile' = [profile EXCEPT !.revision = Bumped]
  /\ turns' = [r \in RequestIds |-> None]
  /\ chatLogs' = <<>>

ResetSnapshots ==
  /\ \E e \in {profile.emotional, <<>>}, s \in {profile.relationship, <<>>} :
       profile' = [profile EXCEPT !.revision = Bumped, !.emotional = e, !.relationship = s]
  /\ UNCHANGED <<turns, chatLogs>>

SerialNext ==
  \/ \E r \in RequestIds, m \in Messages, y \in Replies : Turn(r, m, y)
  \/ EraseHistory
  \/ ResetSnapshots

SerialSpec == SerialInit /\ [][SerialNext]_serialVars
=============================================================================
