---------------------------- MODULE PrivacyService ----------------------------
(***************************************************************************)
(* The four privacy endpoints of one user over TurnStore: the service      *)
(* stamps a reset with its own clock, sends one RPC and reports what came  *)
(* back.  The transport may give up on an RPC that the database executes   *)
(* later or never gets, the client may repeat an operation id, and the     *)
(* retention job removes the ledger row of an operation after 30 days.     *)
(* Turns are single steps (ProcessTurn shows that they behave like that).  *)
(***************************************************************************)
EXTENDS TurnStore

CONSTANT PrivacyCalls   \* HTTP calls of the privacy endpoints

VARIABLES
  clock,     \* the clock of the service
  asked,     \* the operation id and kind of a call, or None
  rpc,       \* the RPC of a call: its payload stamp and, once executed, its result
  told,      \* what the client was told, or None
  applied,   \* history variable: how often each operation id was applied
  forgotten, \* history variable: how often its ledger row was removed
  before,    \* history variable: the messages that existed when a call was made
  said       \* history variable: the turns that have been run

Requested == [op : OpIds, kind : PrivacyKinds]
Results == {"applied", "replayed", "operation_conflict"}
Rpcs == [stamp : Stamps, result : Results \cup {None}]
Reports == {"ok", "operation_conflict", "unavailable"}

ASSUME NoneAssumption ==
  None \notin Requested \cup Rpcs \cup PrivacyRows \cup Results \cup Reports

service == <<asked, rpc, told>>
ghosts == <<applied, forgotten, before, said>>
vars == <<store, clock, service, ghosts>>

Init ==
  /\ StoreInit
  /\ clock \in Stamps
  /\ asked = [c \in PrivacyCalls |-> None]
  /\ rpc = [c \in PrivacyCalls |-> None]
  /\ told = [c \in PrivacyCalls |-> None]
  /\ applied = [o \in OpIds |-> 0]
  /\ forgotten = [o \in OpIds |-> 0]
  /\ before = [c \in PrivacyCalls |-> {}]
  /\ said = {}

\* The turns whose messages are in chat_logs.
Remembered == {chatLogs[i].reply : i \in DOMAIN chatLogs}

-----------------------------------------------------------------------------
\* The handler builds the payload from the clock and sends the RPC.
Ask(c, o, k) ==
  /\ asked[c] = None
  /\ asked' = [asked EXCEPT ![c] = [op |-> o, kind |-> k]]
  /\ rpc' = [rpc EXCEPT ![c] = [stamp |-> clock, result |-> None]]
  /\ before' = [before EXCEPT ![c] = Remembered]
  /\ UNCHANGED <<store, clock, told, applied, forgotten, said>>

Pending(c) == rpc[c] # None /\ rpc[c].result = None

\* The database executes the RPC, whether or not anyone still waits for it.
Execute(c) ==
  LET o == asked[c].op
      decision == PrivacyDecision(o, asked[c].kind, rpc[c].stamp)
  IN /\ Pending(c)
     /\ privacy_apply_operation(o, asked[c].kind, rpc[c].stamp)
     /\ rpc' = [rpc EXCEPT ![c].result = decision]
     /\ applied' = [applied EXCEPT ![o] = IF decision = "applied" THEN @ + 1 ELSE @]
     /\ UNCHANGED <<clock, asked, told, forgotten, before, said>>

Lose(c) ==
  /\ Pending(c)
  /\ told[c] # None
  /\ rpc' = [rpc EXCEPT ![c] = None]
  /\ UNCHANGED <<store, clock, asked, told, ghosts>>

\* Mutant: an RPC without a response is reported as a success.
MutUnavailable(c) ==
  /\ asked[c] # None
  /\ told[c] = None
  /\ told' = [told EXCEPT ![c] = "ok"]
  /\ UNCHANGED <<store, clock, asked, rpc, ghosts>>

\* Timeout or database error: 503, and the RPC may still take effect.
Unavailable(c) ==
  /\ asked[c] # None
  /\ told[c] = None
  /\ told' = [told EXCEPT ![c] = "unavailable"]
  /\ UNCHANGED <<store, clock, asked, rpc, ghosts>>

\* A fresh result and a replayed one look the same to the client.
Respond(c) ==
  /\ told[c] = None
  /\ rpc[c] # None
  /\ rpc[c].result # None
  /\ told' = [told EXCEPT ![c] = IF rpc[c].result = "operation_conflict"
                                 THEN "operation_conflict" ELSE "ok"]
  /\ UNCHANGED <<store, clock, asked, rpc, ghosts>>

\* A turn, read, run and committed as one step.
Turn(r, m, y) ==
  /\ turns[r] = None
  /\ y \notin said
  /\ said' = said \cup {y}
  /\ commit_turn(r, m, y, [revision |-> profile.revision,
                           emotional |-> profile.emotional,
                           relationship |-> profile.relationship])
  /\ UNCHANGED <<clock, service, applied, forgotten, before>>

\* The retention job removes the ledger row of an old operation, whether or not
\* its id is still in use.
Forget(o) ==
  /\ purge_privacy_operations(o)
  /\ forgotten' = [forgotten EXCEPT ![o] = @ + 1]
  /\ UNCHANGED <<clock, service, applied, before, said>>

Tick ==
  /\ clock + 1 \in Stamps
  /\ clock' = clock + 1
  /\ UNCHANGED <<store, service, ghosts>>

Next ==
  \/ \E c \in PrivacyCalls :
       \/ \E o \in OpIds, k \in PrivacyKinds : Ask(c, o, k)
       \/ Execute(c) \/ Lose(c) \/ Unavailable(c) \/ Respond(c)
  \/ \E r \in RequestIds, m \in Messages, y \in Replies : Turn(r, m, y)
  \/ \E o \in OpIds : Forget(o)
  \/ Tick

Spec == Init /\ [][Next]_vars

-----------------------------------------------------------------------------
(* Properties.                                                             *)

\* However often a client repeats an operation id, and however late an RPC
\* arrives, the operation is applied once per ledger row: a second time only
\* after the retention job has removed the row of the first.
AppliedOnce == \A o \in OpIds : applied[o] <= forgotten[o] + 1

\* A client told "ok" for delete_history can rely on it: every message that
\* existed when some call of that operation was made is gone for good.
DeletedIsGone ==
  \A c \in PrivacyCalls : (told[c] = "ok" /\ asked[c].kind = "delete_history") =>
    \E d \in PrivacyCalls : /\ asked[d] = asked[c]
                            /\ before[d] \cap Remembered = {}

=============================================================================
