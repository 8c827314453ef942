------------------------------ MODULE MCTurnTime ------------------------------
(***************************************************************************)
(* What bounds a turn: its time (TurnDeadline; ConversationEngine for the  *)
(* turn with two writes) and the keys its completions share (GroqManager). *)
(* A behaviour explores one of the three, chosen at the start.             *)
(***************************************************************************)
EXTENDS ConversationEngine, GroqManager, TLC

VARIABLE part

MCInit ==
  /\ part \in {"deadline", "engine", "pool"}
  /\ Init
  /\ EngineInit
  /\ PoolInit
  /\ part # "engine" => profile = NoRow

\* The writes of the engine's turns fail, or one turn's take too long.
OneTrouble == \A t, u \in Turns : overran[t] => (~failed[u] /\ (overran[u] => t = u))

MCNext ==
  \/ part = "deadline" /\ Next /\ UNCHANGED <<part, engineVars, poolVars>>
  \/ part = "engine" /\ EngineNext /\ OneTrouble' /\ UNCHANGED <<part, poolVars>>
  \/ part = "pool" /\ PoolNext /\ UNCHANGED <<part, vars, engineVars>>
  \/ /\ part = "pool" /\ now = LastTime /\ \A c \in Calls : Finished(c)
     /\ UNCHANGED <<part, vars, engineVars, poolVars>>

MCSpec == MCInit /\ [][MCNext]_<<part, vars, engineVars, poolVars>>

\* Turns and completions differ only in their names, and share them: they are
\* never explored together.
MCSymmetry == Permutations(Turns \cup Calls)
===============================================================================
