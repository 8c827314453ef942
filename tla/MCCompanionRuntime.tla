-------------------------- MODULE MCCompanionRuntime --------------------------
(* The desktop runtime and the legacy import for TLC: threads, request ids *)
(* and messages are interchangeable.                                       *)
EXTENDS LegacyImport, TLC

VARIABLE part

MCTurn(r, m, a) == [request |-> r, message |-> m, answer |-> a]

\* Exports of one turn, with or without its answer, and of two turns with another
\* answer.
MCFixtures ==
  {<<MCTurn(r, m, a)>> : r \in RequestIds, m \in Messages, a \in {"a", None}}
    \cup {<<MCTurn(r, m, "b"), MCTurn(s, m, "b")>> : r, s \in RequestIds, m \in Messages}

\* Two threads without an import, on a store that may be closed before a restart;
\* or one thread at a time beside imports into a store that stays open.
MCNext ==
  \/ /\ part = "threads" /\ Next
     /\ UNCHANGED <<part, hashes, imports>> /\ (starts = MaxStarts => closed' = {})
  \/ /\ part = "import" /\ ImportNext
     /\ UNCHANGED <<part, starts, closed>> /\ Cardinality({t \in Threads : call'[t] # None}) <= 1

MCInit == part \in {"threads", "import"} /\ ImportInit

MCSpec == MCInit /\ [][MCNext]_<<part, importVars>>

MCSymmetry == Permutations(Threads) \cup Permutations(RequestIds) \cup Permutations(Messages)
=============================================================================
