----------------------------- MODULE Relationship -----------------------------
(***************************************************************************)
(* The relationship snapshot, its strict loaders and the transition of one *)
(* turn.  Numbers are integers in hundredths, as in EmotionalDomain.       *)
(***************************************************************************)
EXTENDS EmotionalDomain

\* A trigger is a name; Triggers(raw) is what the validation makes of a list.
MaxTriggers == 32

RELATIONSHIP_FIELDS == {"trust", "affection", "tension", "triggers", "timestamp",
                        "schema_version"}

LEGACY_REQUIRED == {"trust", "affection", "tension", "triggers", "last_interaction"}

LEGACY_ALLOWED_FIELDS == LEGACY_REQUIRED \cup {"user_id", "bond_label"}

\* The first occurrence of every trigger, in order.
Deduplicated(raw) ==
  LET first == {i \in DOMAIN raw : \A j \in 1..(i - 1) : raw[j] # raw[i]}
  IN [k \in 1..Cardinality(first) |->
        raw[CHOOSE i \in first : Cardinality({j \in first : j <= i}) = k]]

\* At most 32 names before duplicates go; Bad stands for a blank, a name that
\* is too long and anything that is not text.
validate_triggers(raw) ==
  IF Len(raw) > MaxTriggers \/ \E i \in DOMAIN raw : raw[i] = Bad
  THEN Bad ELSE Deduplicated(raw)

\* RelationshipStateV1.create
CreateRelationship(trust, affection, tension, triggers, timestamp) ==
  IF /\ {trust, affection, tension} \subseteq 0..One
     /\ validate_triggers(triggers) # Bad
     /\ timestamp \in Nat \ {0}
  THEN [trust |-> trust, affection |-> affection, tension |-> tension,
        triggers |-> validate_triggers(triggers), timestamp |-> timestamp]
  ELSE Bad

neutral_relationship(timestamp) ==
  [trust |-> 50, affection |-> 30, tension |-> 0, triggers |-> <<>>,
   timestamp |-> timestamp]

migrate_legacy_relationship_snapshot(raw) ==
  IF raw = Bad THEN Bad
  ELSE IF "schema_version" \in DOMAIN raw
  THEN IF DOMAIN raw = RELATIONSHIP_FIELDS /\ raw.schema_version = 1
       THEN CreateRelationship(raw.trust, raw.affection, raw.tension, raw.triggers,
                               raw.timestamp)
       ELSE Bad
  ELSE IF LEGACY_REQUIRED \subseteq DOMAIN raw /\ DOMAIN raw \subseteq LEGACY_ALLOWED_FIELDS
  THEN CreateRelationship(raw.trust, raw.affection, raw.tension, raw.triggers,
                          raw.last_interaction)
  ELSE Bad

-----------------------------------------------------------------------------
(* transition_relationship under the default RelationshipTransitionConfig.  *)

ClampUnit(v) == Clamp(v, 0, One)

\* An emotion the appraisal does not name has intensity 0.
Intensity(a, emotion) ==
  IF emotion \in DOMAIN a.discrete_emotions THEN a.discrete_emotions[emotion] ELSE 0

Felt(a, emotion, amount) == IF Intensity(a, emotion) > 30 THEN amount ELSE 0

TrustDelta(a) ==
  IF a.valence_shift > 20 THEN 2 ELSE IF a.valence_shift < -30 THEN -5 ELSE 0

AffectionBoost(a) == Felt(a, "tenderness", 3) + Felt(a, "joy", 1) + Felt(a, "gratitude", 2)

TensionSpike(a) ==
  Felt(a, "anger", 10) + Felt(a, "disgust", 10) + (IF a.valence_shift < -50 THEN 5 ELSE 0)

\* A good turn takes back some of the tension.
Reconciled(a, tension) ==
  IF a.valence_shift > 30 /\ tension > 0 THEN ClampUnit(tension - 10) ELSE tension

\* Refused when the reading is older than the snapshot.
transition_relationship(r, a, time) ==
  IF time < r.timestamp THEN Bad
  ELSE CreateRelationship(ClampUnit(r.trust + TrustDelta(a)),
                          ClampUnit(r.affection + AffectionBoost(a)),
                          Reconciled(a, ClampUnit(r.tension + TensionSpike(a))),
                          r.triggers, time)

=============================================================================
