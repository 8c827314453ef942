----------------------------- MODULE MCTurnInputs -----------------------------
(***************************************************************************)
(* What a turn is given: its admission (AdmissionLedger), the snapshots     *)
(* (TurnState), the prompt (TrustedContext), the engine's own prompts      *)
(* (ContextFit) and the appraisal it parses (EmotionalDomain).  They do    *)
(* not share state; a behaviour explores one of them, chosen at the start, *)
(* and leaves the others in their initial state.                           *)
(***************************************************************************)
EXTENDS AdmissionLedger, TurnState, ContextFit, TLC

CONSTANT Absent  \* a key that is not there

VARIABLES
  part,
  payload   \* the input of a pure function

MCNegativePleasure == -30

Keys(valence, arousal, dominance) ==
  [valence_shift |-> valence, arousal_shift |-> arousal, dominance_shift |-> dominance]

\* A hostile answer, a kind one under the old names with an emotion nobody
\* knows, and one that is not understood.
MCReplies ==
  {Bad,
   Keys(-100, 60, -60) @@ [discrete_emotions |-> [anger |-> 60, disgust |-> 40]],
   [valence |-> 50, arousal_shift |-> 10, dominance_shift |-> 60,
    triggered_emotions |-> [joy |-> 50, tenderness |-> 40, boredom |-> 300]]}

\* Every combination of keys present, absent, valid and invalid.
MCPayloads ==
  LET shifts == {Absent, Bad, -40, 40, 101}
      maps == {Absent, Bad, [joy |-> 50], [joy |-> 50, boredom |-> 300], [joy |-> 101]}
      Drop(f) == [k \in {k \in DOMAIN f : f[k] # Absent} |-> f[k]]
  IN {Drop([valence_shift |-> v1, valence |-> v2, arousal_shift |-> a, dominance_shift |-> 0,
            discrete_emotions |-> e1, triggered_emotions |-> e2, mood |-> m]) :
        v1 \in shifts, v2 \in shifts, a \in {Absent, 0}, e1 \in maps, e2 \in maps,
        m \in {Absent, 0}}

Emotional(pleasure, tension, mode) ==
  [neutral_emotional(1) EXCEPT !.pleasure = pleasure, !.tension = tension,
                               !.coping_mode = mode]

\* A row at the edge of every threshold, a row just below activation, one that kind
\* answers bring back after a half-life, and a legacy row that never had a
\* relationship.
MCStoredRows ==
  {[exists |-> TRUE, revision |-> 3,
    emotional |-> to_dict(Emotional(-100, 100, "DISSOCIATED")),
    relationship |-> to_dict([neutral_relationship(1) EXCEPT !.trust = 1, !.tension = 95,
                                                             !.triggers = <<"x">>])],
   [exists |-> TRUE, revision |-> 1,
    emotional |-> to_dict(Emotional(-20, 75, "HEALTHY")),
    relationship |-> to_dict([neutral_relationship(1) EXCEPT !.affection = 98])],
   [exists |-> TRUE, revision |-> 2,
    emotional |-> to_dict(Emotional(-20, 62, "DEFENSIVE")),
    relationship |-> to_dict(neutral_relationship(1))],
   [exists |-> TRUE, revision |-> 0,
    emotional |-> Renamed(Emotional(0, 90, "MANIC"), "timestamp", "last_update"),
    relationship |-> EmptyDict]}

Document(size, version, approved) ==
  [size |-> size, schema_version |-> version, approved |-> approved, confidence |-> 50]

MCDocuments ==
  {<<>>, <<Document(1, 0, TRUE), Document(2, 1, TRUE), Document(6, 1, TRUE),
           Document(1, 1, FALSE)>>}

Sequences2(S) == {<<>>} \cup {<<a>> : a \in S} \cup {<<a, b>> : a \in S, b \in S}

\* What the engine may put into a prompt of MaxUnits, with and without suffix,
\* shortening and characters of several bytes.
MCContexts ==
  [header : {3}, user : {1, 4}, suffix : {0, 1, 9}, persona : {0, 4},
   history_list : Sequences2({1, 6}), memory_entries : Sequences2({0, 2}),
   user_profile : {0, 1}, truncate_long_messages : BOOLEAN, lost : {0, 3}]

\* Messages up to twice the budget of a provider call, plain or escaped, in a
\* prompt that leaves all or little of it.
MCArchived ==
  [bytes : {1, 99, 4000, 12000, 15800, 16000, 16100, 32000}, escaping : {1, 2, 4, 6},
   overhead : {120, 330, 8000, 15000, 15880, 15990}, max_units : {16000}, lost : {0, 3}]

MCInit ==
  /\ part \in {"admission", "snapshots", "prompt", "parser", "sections", "archival"}
  /\ payload \in CASE part = "parser" -> MCPayloads \cup MCReplies
                    [] part = "sections" -> MCContexts
                    [] part = "archival" -> MCArchived
                    [] OTHER -> {Bad}
  /\ LedgerInit
  /\ StateInit
  /\ PromptInit
  /\ part # "snapshots" => row = NoRow

MCNext ==
  \/ part = "admission" /\ LedgerNext /\ UNCHANGED <<part, payload, stateVars, promptVars>>
  \/ part = "snapshots" /\ StateNext /\ UNCHANGED <<part, payload, ledgerVars, promptVars>>
  \/ part = "prompt" /\ PromptNext /\ UNCHANGED <<part, payload, ledgerVars, stateVars>>

MCSpec == MCInit /\ [][MCNext]_<<part, payload, ledgerVars, stateVars, promptVars>>

\* Turns, request ids and sessions differ only in their names.  Turns and sessions
\* are never explored together, so they share their names.
MCSymmetry == Permutations(Turns \cup Sessions) \cup Permutations(RequestIds)

-----------------------------------------------------------------------------

\* parse_llm_appraisal reads a reply as exactly what it means: names that
\* contradict each other are never resolved in favour of one of them, and an
\* answer that is not understood leaves the feelings to time alone.
ReadAsMeant ==
  part = "parser" => parse_llm_appraisal(payload).appraisal = Meaning(payload)

\* The prompts of the conversation engine, for every context and message: see
\* SectionsByImportance and ArchivalAlwaysSent.
EnginePromptsFit ==
  /\ part = "sections" => SectionsByImportance(payload)
  /\ part = "archival" => ArchivalAlwaysSent(payload)

=============================================================================
