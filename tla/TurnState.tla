------------------------------ MODULE TurnState -------------------------------
(***************************************************************************)
(* What the turns of one user do to the emotional and the relationship     *)
(* snapshot of the profile: ProcessTurn._run_once from the reading of the  *)
(* clock to the commit, on several instances, beside the two resets of the *)
(* privacy service.  The protocol around it (admission, leases, answers)   *)
(* is ProcessTurn's; here the data is kept and the protocol reduced to the *)
(* revision check of commit_turn.  The instances share one wall clock.     *)
(***************************************************************************)
EXTENDS Relationship

CONSTANTS
  Turns,       \* turns, each run once
  Resets,      \* privacy resets
  Replies,     \* answers of the model to the appraisal prompt
  StoredRows,  \* profile rows found at the start
  MaxTime      \* bound on the clock

VARIABLES now, row, turns, resets

stateVars == <<now, row, turns, resets>>

NoRow == [exists |-> FALSE, revision |-> 0, emotional |-> Bad, relationship |-> Bad]

EmptyDict == [f \in {} |-> 0]

\* What ProcessTurn accepts as a stored pair of snapshots.
Loads(r) ==
  /\ migrate_legacy_snapshot(r.emotional) # Bad
  /\ \/ r.relationship = EmptyDict
     \/ migrate_legacy_relationship_snapshot(r.relationship) # Bad

\* A snapshot of the current version is in the mode its tension allows.
ModeFits(emotional) ==
  "schema_version" \in DOMAIN emotional =>
    /\ emotional.coping_mode \in {"DEFENSIVE", "DISSOCIATED"} =>
         emotional.tension > RecoveryThreshold
    /\ emotional.coping_mode = "HEALTHY" => emotional.tension < ActivationThreshold

ASSUME StoredAssumption ==
  \A r \in StoredRows : r.exists /\ r.revision \in Nat /\ Loads(r) /\ ModeFits(r.emotional)

Idle == [pc |-> "start", attempt |-> 1, time |-> 0, began |-> 0, revision |-> 0,
         emotional |-> Bad, relationship |-> Bad]

StateInit ==
  /\ now = 1
  /\ row \in StoredRows \cup {NoRow}
  /\ turns = [t \in Turns |-> Idle]
  /\ resets = [o \in Resets |-> Bad]

ClockTick ==
  /\ now < MaxTime
  /\ now' = now + 1
  /\ UNCHANGED <<row, turns, resets>>

\* The clock is read once per attempt, before the load.
ReadClock(t) ==
  /\ turns[t].pc = "start"
  /\ turns' = [turns EXCEPT ![t].pc = "load", ![t].time = now, ![t].began = row.revision]
  /\ UNCHANGED <<now, row, resets>>

\* Mutant: a missing profile is stamped with a later reading of the clock.
MutDefaultTimestamp(t) == now

\* The stamp of the neutral snapshots a missing profile stands for.
DefaultTimestamp(t) == turns[t].time

LoadedEmotional(t) ==
  migrate_legacy_snapshot(
    IF row.exists THEN row.emotional ELSE to_dict(neutral_emotional(DefaultTimestamp(t))))

LoadedRelationship(t) ==
  IF ~row.exists THEN migrate_legacy_relationship_snapshot(
                        to_dict(neutral_relationship(DefaultTimestamp(t))))
  ELSE IF row.relationship = EmptyDict THEN neutral_relationship(turns[t].time)
  ELSE migrate_legacy_relationship_snapshot(row.relationship)

\* load_user_state and the migration of both snapshots.
LoadState(t) ==
  /\ turns[t].pc = "load"
  /\ turns' = [turns EXCEPT
       ![t].pc = IF Bad \in {LoadedEmotional(t), LoadedRelationship(t)}
                 THEN "failed" ELSE "appraise",
       ![t].revision = row.revision,
       ![t].emotional = LoadedEmotional(t),
       ![t].relationship = LoadedRelationship(t)]
  /\ UNCHANGED <<now, row, resets>>

\* The appraisal arrives and both transitions run on the loaded snapshots.
Appraise(t, reply) ==
  LET a == parse_llm_appraisal(reply).appraisal
      emotional == transition(turns[t].emotional, a, turns[t].time)
      relationship == transition_relationship(turns[t].relationship, a, turns[t].time)
  IN /\ turns[t].pc = "appraise"
     /\ turns' = [turns EXCEPT
          ![t].pc = IF Bad \in {emotional, relationship} THEN "failed" ELSE "commit",
          ![t].emotional = emotional,
          ![t].relationship = relationship]
     /\ UNCHANGED <<now, row, resets>>

\* The provider fails in the appraisal or in the generation.
ProviderFails(t) ==
  /\ turns[t].pc \in {"appraise", "commit"}
  /\ turns' = [turns EXCEPT ![t] = [Idle EXCEPT !.pc = "unanswered"]]
  /\ UNCHANGED <<now, row, resets>>

\* commit_turn writes both snapshots if the revision is still the loaded one.
Commit(t) ==
  /\ turns[t].pc = "commit"
  /\ turns[t].revision = row.revision
  /\ row' = [exists |-> TRUE, revision |-> row.revision + 1,
             emotional |-> to_dict(turns[t].emotional),
             relationship |-> to_dict(turns[t].relationship)]
  /\ turns' = [turns EXCEPT ![t] = [Idle EXCEPT !.pc = "committed", !.time = turns[t].time]]
  /\ UNCHANGED <<now, resets>>

\* revision_mismatch: the whole of _run_once is repeated once.
Conflict(t) ==
  /\ turns[t].pc = "commit"
  /\ turns[t].revision # row.revision
  /\ turns' = [turns EXCEPT ![t] = IF @.attempt = 1 THEN [Idle EXCEPT !.attempt = 2]
                                   ELSE [Idle EXCEPT !.pc = "conflict"]]
  /\ UNCHANGED <<now, row, resets>>

\* The service stamps the neutral snapshot before the operation is sent.
StampReset(o, kind) ==
  /\ resets[o] = Bad
  /\ resets' = [resets EXCEPT ![o] = [kind |-> kind, time |-> now, applied |-> FALSE]]
  /\ UNCHANGED <<now, row, turns>>

\* The operation replaces one snapshot and bumps the revision of a profile.
ApplyReset(o) ==
  /\ resets[o] # Bad /\ ~resets[o].applied
  /\ resets' = [resets EXCEPT ![o].applied = TRUE]
  /\ row' = IF ~row.exists THEN row
            ELSE IF resets[o].kind = "reset_emotional_state"
            THEN [row EXCEPT !.revision = @ + 1,
                    !.emotional = to_dict(neutral_emotional(resets[o].time))]
            ELSE [row EXCEPT !.revision = @ + 1,
                    !.relationship = to_dict(neutral_relationship(resets[o].time))]
  /\ UNCHANGED <<now, turns>>

StateNext ==
  \/ ClockTick
  \/ \E t \in Turns :
       \/ ReadClock(t) \/ LoadState(t) \/ ProviderFails(t) \/ Commit(t) \/ Conflict(t)
       \/ \E reply \in Replies : Appraise(t, reply)
  \/ \E o \in Resets :
       \/ ApplyReset(o)
       \/ \E kind \in {"reset_emotional_state", "reset_relationship_state"} :
            StampReset(o, kind)

StateSpec == StateInit /\ [][StateNext]_stateVars

-----------------------------------------------------------------------------

\* Nothing that turns and resets store stands in the way of the next turn: its
\* strict loaders accept the row, whose coping mode is one that its tension
\* allows, and a turn fails in the domain only if another writer moved the
\* profile between its reading of the clock and its load.
SnapshotsServeTurns ==
  /\ row.exists => Loads(row) /\ ModeFits(row.emotional)
  /\ \A t \in Turns : turns[t].pc = "failed" => turns[t].revision # turns[t].began
=============================================================================
