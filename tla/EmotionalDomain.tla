---------------------------- MODULE EmotionalDomain ---------------------------
(***************************************************************************)
(* The pure emotional domain: the snapshot and its strict loaders, the     *)
(* reading of the model's appraisal, the transition of one turn and the    *)
(* public projection.  Real numbers are integers in hundredths; Bad stands *)
(* for every payload that is not of the expected JSON type or not finite.  *)
(* Operators that raise in the code return Bad here.                       *)
(***************************************************************************)
EXTENDS Integers, Sequences, FiniteSets

CONSTANTS
  \* TransitionConfig: decay, the cap of a shift, the pleasure below and above
  \* which tension moves and by how much, and the two coping thresholds.
  PadHalfLife, TensionHalfLife, MaxShift, NegativePleasure, PositivePleasure,
  TensionIncrease, TensionRelief, ActivationThreshold, RecoveryThreshold,
  Bad

NoError == "none"

One == 100

\* What TransitionConfig accepts; the baselines are 0 and dissociation halves.
TransitionConfig ==
  /\ {PadHalfLife, TensionHalfLife} \subseteq Nat \ {0}
  /\ {MaxShift, TensionIncrease, TensionRelief} \subseteq 0..One
  /\ {NegativePleasure, PositivePleasure} \subseteq (-One)..One
  /\ NegativePleasure < PositivePleasure
  /\ {ActivationThreshold, RecoveryThreshold} \subseteq 0..One
  /\ RecoveryThreshold < ActivationThreshold

ASSUME DomainAssumption == TransitionConfig

VALID_COPING_MODES == {"HEALTHY", "DEFENSIVE", "DISSOCIATED", "MANIC"}

\* The emotions the relationship reads, and one it does not.
DISCRETE_EMOTIONS == {"anger", "disgust", "gratitude", "joy", "sadness", "tenderness"}

-----------------------------------------------------------------------------
(* models.py: the snapshot.  drives are libido, aggression, connection and *)
(* energy, which no transition touches.                                    *)

STATE_FIELDS == {"pleasure", "arousal", "dominance", "drives", "tension",
                 "coping_mode", "timestamp", "schema_version"}

validate_state_fields(s) ==
  /\ \A f \in {"pleasure", "arousal", "dominance"} : s[f] \in (-One)..One
  /\ \A i \in 1..4 : s.drives[i] \in 0..One
  /\ s.tension \in 0..One
  /\ s.coping_mode \in VALID_COPING_MODES
  /\ s.timestamp \in Nat \ {0}

CreateState(s) == IF validate_state_fields(s) THEN s ELSE Bad

neutral_emotional(timestamp) ==
  [pleasure |-> 0, arousal |-> 0, dominance |-> 0, drives |-> <<0, 0, 50, 80>>,
   tension |-> 0, coping_mode |-> "HEALTHY", timestamp |-> timestamp]

\* The stored form names its schema version.
to_dict(s) == [f \in DOMAIN s \cup {"schema_version"} |->
                IF f = "schema_version" THEN 1 ELSE s[f]]

Without(s, field) == [f \in DOMAIN s \ {field} |-> s[f]]

from_dict(d) ==
  IF DOMAIN d = STATE_FIELDS /\ d.schema_version = 1
  THEN CreateState(Without(d, "schema_version")) ELSE Bad

-----------------------------------------------------------------------------
(* migration.py: a stored row is v1, or legacy with last_update.           *)

LEGACY_EXACT_FIELDS == (STATE_FIELDS \ {"timestamp", "schema_version"}) \cup {"last_update"}

\* A legacy row with its clock under the v1 name.
Renamed(d, old, new) ==
  [f \in (DOMAIN d \ {old}) \cup {new} |-> IF f = new THEN d[old] ELSE d[f]]

migrate_legacy_snapshot(raw) ==
  IF raw = Bad THEN Bad
  ELSE IF "schema_version" \in DOMAIN raw THEN from_dict(raw)
  ELSE IF DOMAIN raw = LEGACY_EXACT_FIELDS
  THEN CreateState(Renamed(raw, "last_update", "timestamp"))
  ELSE Bad

-----------------------------------------------------------------------------
(* appraisal_parser.py: the model's answer, a function from keys to values. *)

ALLOWED_TOP_LEVEL_KEYS == {"valence_shift", "arousal_shift", "dominance_shift",
                           "discrete_emotions", "valence", "triggered_emotions"}

REQUIRED_SHIFTS == {"valence_shift", "arousal_shift", "dominance_shift"}

Shifts == (-One)..One

\* Emotions the domain does not know are dropped.
Filtered(e) == [k \in DOMAIN e \cap DISCRETE_EMOTIONS |-> e[k]]

\* _validate_normalize_emotions and _parse_discrete_emotions: why e is refused.
EmotionsError(e) ==
  IF e = Bad THEN "unsupported_emotion"
  ELSE IF \E k \in DOMAIN Filtered(e) : e[k] \notin 0..One THEN "invalid_numeric_value"
  ELSE NoError

\* The error of a name given together with its alias: each side is validated
\* before the two are compared.
ShiftAliasError(raw) ==
  IF ~({"valence", "valence_shift"} \subseteq DOMAIN raw) THEN NoError
  ELSE IF ~({raw["valence"], raw["valence_shift"]} \subseteq Shifts)
  THEN "invalid_numeric_value"
  ELSE IF raw["valence"] # raw["valence_shift"] THEN "conflicting_aliases"
  ELSE NoError

EmotionsAliasError(raw) ==
  IF ~({"triggered_emotions", "discrete_emotions"} \subseteq DOMAIN raw) THEN NoError
  ELSE LET alias == raw["triggered_emotions"]
           canonical == raw["discrete_emotions"]
       IN IF EmotionsError(alias) # NoError THEN EmotionsError(alias)
          ELSE IF EmotionsError(canonical) # NoError THEN EmotionsError(canonical)
          ELSE IF Filtered(alias) # Filtered(canonical) THEN "conflicting_aliases"
          ELSE NoError

Canonical(key) ==
  CASE key = "valence" -> "valence_shift"
    [] key = "triggered_emotions" -> "discrete_emotions"
    [] OTHER -> key

\* Mutant: an alias given beside its canonical name silently wins.
Muttranslate_aliases(raw) ==
  [error |-> NoError,
   keys |-> [k \in {Canonical(key) : key \in DOMAIN raw} |->
              LET aliases == {key \in DOMAIN raw : Canonical(key) = k} \ {k}
              IN IF aliases = {} THEN raw[k] ELSE raw[CHOOSE key \in aliases : TRUE]]]

\* The payload under canonical names, or the first alias error.
translate_aliases(raw) ==
  [error |-> IF ShiftAliasError(raw) # NoError THEN ShiftAliasError(raw)
             ELSE EmotionsAliasError(raw),
   keys |-> [k \in {Canonical(key) : key \in DOMAIN raw} |->
              IF k \in DOMAIN raw THEN raw[k]
              ELSE raw[CHOOSE key \in DOMAIN raw : Canonical(key) = k]]]

neutral_appraisal ==
  [valence_shift |-> 0, arousal_shift |-> 0, dominance_shift |-> 0,
   discrete_emotions |-> [k \in {} |-> 0]]

\* Why _do_parse refuses the payload.
ParseError(raw) ==
  IF raw = Bad THEN "invalid_structure"
  ELSE IF ~(DOMAIN raw \subseteq ALLOWED_TOP_LEVEL_KEYS) THEN "unknown_top_level_key"
  ELSE LET t == translate_aliases(raw)
       IN IF t.error # NoError THEN t.error
          ELSE IF ~(REQUIRED_SHIFTS \subseteq DOMAIN t.keys) THEN "missing_required_field"
          ELSE IF \E k \in REQUIRED_SHIFTS : t.keys[k] \notin Shifts
          THEN "invalid_numeric_value"
          ELSE IF "discrete_emotions" \in DOMAIN t.keys
          THEN EmotionsError(t.keys["discrete_emotions"])
          ELSE NoError

\* A refused payload reads as the neutral appraisal; nothing is raised.
parse_llm_appraisal(raw) ==
  IF ParseError(raw) # NoError
  THEN [appraisal |-> neutral_appraisal, error |-> ParseError(raw)]
  ELSE LET keys == translate_aliases(raw).keys
       IN [appraisal |->
             [valence_shift |-> keys["valence_shift"],
              arousal_shift |-> keys["arousal_shift"],
              dominance_shift |-> keys["dominance_shift"],
              discrete_emotions |-> IF "discrete_emotions" \in DOMAIN keys
                                    THEN Filtered(keys["discrete_emotions"])
                                    ELSE [k \in {} |-> 0]],
           error |-> NoError]

-----------------------------------------------------------------------------
(* transition.py: one turn's effect on the snapshot.                       *)

Clamp(v, lo, hi) == IF v < lo THEN lo ELSE IF v > hi THEN hi ELSE v

\* The whole half-lives in elapsed.  A part of one is not counted, and after
\* seven nothing of a value in hundredths is left.
HalfLives(elapsed, half_life) == Cardinality({n \in 1..7 : n * half_life <= elapsed})

PowersOfTwo == <<1, 2, 4, 8, 16, 32, 64, 128>>

\* Toward the baseline 0.
exponential_decay(v, elapsed, half_life) ==
  LET d == PowersOfTwo[HalfLives(elapsed, half_life) + 1]
  IN IF v >= 0 THEN v \div d ELSE -((-v) \div d)

\* Hysteresis: between the two thresholds the mode stays as it was.
determine_coping_mode(tension, dominance, previous_mode) ==
  IF tension >= ActivationThreshold
  THEN IF dominance > 0 THEN "DEFENSIVE" ELSE "DISSOCIATED"
  ELSE IF tension <= RecoveryThreshold THEN "HEALTHY" ELSE previous_mode

RegulationReason(previous_mode, mode) ==
  IF mode = previous_mode THEN "none"
  ELSE CASE mode = "HEALTHY" -> "recovered"
         [] mode = "DEFENSIVE" -> "high_tension_positive_dominance"
         [] mode = "DISSOCIATED" -> "high_tension_nonpositive_dominance"
         [] OTHER -> "none"

\* What RegulationResult accepts: a reason exactly for a change, and the right one.
ValidRegulation(previous_mode, mode, reason) ==
  /\ {previous_mode, mode} \subseteq VALID_COPING_MODES
  /\ (reason = "none") <=> (mode = previous_mode)
  /\ reason = "recovered" => mode = "HEALTHY"
  /\ reason = "high_tension_positive_dominance" => mode = "DEFENSIVE"
  /\ reason = "high_tension_nonpositive_dominance" => mode = "DISSOCIATED"

\* A reading older than the snapshot counts as no time passed.
TransitionTime(s, time) ==
  IF time < s.timestamp THEN [elapsed |-> 0, output |-> s.timestamp]
  ELSE [elapsed |-> time - s.timestamp, output |-> time]

TensionAfter(tension, pleasure) ==
  Clamp(IF pleasure < NegativePleasure THEN tension + TensionIncrease
        ELSE IF pleasure > PositivePleasure THEN tension - TensionRelief
        ELSE tension, 0, One)

\* An axis decays, then moves by at most MaxShift.
Moved(axis, shift, elapsed) ==
  Clamp(exponential_decay(axis, elapsed, PadHalfLife) + Clamp(shift, -MaxShift, MaxShift),
        -One, One)

transition(s, a, time) ==
  LET t == TransitionTime(s, time)
      pleasure == Moved(s.pleasure, a.valence_shift, t.elapsed)
      arousal == Moved(s.arousal, a.arousal_shift, t.elapsed)
      dominance == Moved(s.dominance, a.dominance_shift, t.elapsed)
      tension == TensionAfter(exponential_decay(s.tension, t.elapsed, TensionHalfLife),
                              pleasure)
      mode == determine_coping_mode(tension, dominance, s.coping_mode)
  IN IF ValidRegulation(s.coping_mode, mode, RegulationReason(s.coping_mode, mode))
     THEN CreateState(
            [pleasure |-> pleasure,
             arousal |-> IF mode # "DISSOCIATED" THEN arousal
                         ELSE IF arousal >= 0 THEN arousal \div 2
                         ELSE -((-arousal) \div 2),
             dominance |-> dominance, drives |-> s.drives, tension |-> tension,
             coping_mode |-> mode, timestamp |-> t.output])
     ELSE Bad

-----------------------------------------------------------------------------

\* The values a reply gives to one axis under any of its names.
Given(reply, name) == {reply[k] : k \in {k \in DOMAIN reply : Canonical(k) = name}}

\* What a reply means: nothing unless every name is known, every shift is given
\* exactly one valid value and the emotions, if given, are valid and agree.
Meaning(reply) ==
  LET maps == Given(reply, "discrete_emotions")
      sound == /\ DOMAIN reply \subseteq ALLOWED_TOP_LEVEL_KEYS
               /\ \A name \in REQUIRED_SHIFTS : \E v \in Shifts : Given(reply, name) = {v}
               /\ \A e \in maps : EmotionsError(e) = NoError
               /\ Cardinality({Filtered(e) : e \in maps}) <= 1
  IN IF reply = Bad THEN neutral_appraisal
     ELSE IF ~sound THEN neutral_appraisal
     ELSE [valence_shift |-> CHOOSE v \in Shifts : v \in Given(reply, "valence_shift"),
           arousal_shift |-> reply["arousal_shift"],
           dominance_shift |-> reply["dominance_shift"],
           discrete_emotions |-> IF maps = {} THEN [k \in {} |-> 0]
                                 ELSE CHOOSE f \in {Filtered(e) : e \in maps} : TRUE]

=============================================================================
