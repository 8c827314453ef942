----------------------------- MODULE MCMaintenance -----------------------------
(***************************************************************************)
(* The two scheduled jobs for TLC: the workers of the account deletion     *)
(* ledger (AccountDeletion) and the rounds of the retention job            *)
(* (RetentionRound).  They share no row; a behaviour explores one of them, *)
(* chosen at the start, and leaves the other in its initial state.         *)
(***************************************************************************)
EXTENDS AccountDeletion, RetentionRound, TLC

CONSTANTS u1

VARIABLE part

\* Every request is about the same user, who asked more than once.
MCUserOf == [j \in Jobs |-> u1]

MCRow(i, at, final) == [id |-> i, at |-> at, final |-> final]

\* More expired reservations than the limit; one expired privacy operation; outbox
\* events of which the oldest is active.
MCPopulation ==
  [c \in {"admission_reservations", "privacy_operations", "outbox_events"} |->
     CASE c = "admission_reservations" ->
            {MCRow(1, 0, TRUE), MCRow(2, 0, TRUE), MCRow(3, 1, TRUE)}
       [] c = "privacy_operations" -> {MCRow(2, 0, TRUE)}
       [] OTHER -> {MCRow(2, 0, FALSE), MCRow(3, 1, TRUE)}]

MaintenanceInit ==
  /\ part \in {"deletion", "retention"}
  /\ Init
  /\ RetentionInit(4, IF part = "retention" THEN MCPopulation
                     ELSE [c \in DOMAIN MCPopulation |-> {}])

MaintenanceNext ==
  \/ part = "deletion" /\ Next /\ UNCHANGED <<part, retentionVars>>
  \/ part = "retention" /\ RetentionNext /\ UNCHANGED <<part, vars>>

\* The fairness of each job, of the one that the behaviour explores.
MaintenanceSpec ==
  /\ MaintenanceInit /\ [][MaintenanceNext]_<<part, vars, retentionVars>>
  /\ (part = "deletion") => Fairness
  /\ (part = "retention") => RetentionFairness
=============================================================================
