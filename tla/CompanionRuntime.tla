--------------------------- MODULE CompanionRuntime ---------------------------
(***************************************************************************)
(* The desktop runtime over LocalStorage: bridge calls run on worker       *)
(* threads without a lock of their own, and the store is opened by the     *)
(* first call that finds none (_ensure_storage), which any number of       *)
(* threads may do at once.  Opening runs the recovery of interrupted       *)
(* turns.  The process may end, by closing the window or by a crash, at    *)
(* any point, and the application be started again on the same file.       *)
(***************************************************************************)
EXTENDS LocalStorage, FiniteSets

CONSTANTS
  Threads,      \* worker threads of the bridge
  MaxObjects,   \* bound on LocalStorage objects
  MaxTurns,     \* bound on turn executions
  MaxPrivacy,   \* bound on privacy operations
  MaxStarts     \* bound on starts of the application

VARIABLES
  storage,    \* CompanionRuntime._storage: a LocalStorage object, or None
  objects,    \* number of LocalStorage objects created by this process
  closed,     \* objects that were closed
  call,       \* the call a thread is working on, or None
  ensure,     \* where the thread is in _ensure_storage
  starts,     \* starts of the application so far
  privacies,  \* history variable: privacy operations so far
  admitted,   \* history variable: what each turn execution was admitted for
  answered,   \* history variable: successful results returned by the bridge
  unreleased  \* history variable: reservations that a failing release has left
              \* behind since the store was opened last

memory == <<storage, objects, closed, call, ensure>>
ghosts == <<starts, privacies, admitted, answered, unreleased>>
vars == <<file, memory, ghosts>>

Objects == 1..MaxObjects

\* admit: before reserve_request; load: before the state is read; commit: the
\* provider is answering; release: the turn failed and lets its request go.
Turns == [stage : {"admit", "load", "commit", "release"}, request : RequestIds,
          message : Messages, execution : Executions, generation : Nat,
          store : Objects \cup {None}, loaded : Profiles \cup {None}]

Privacy == [stage : PrivacyOps]

\* load_history, runtime_state and get_state.
Reads == [stage : {"read"}]

ASSUME BoundsAssumption == MaxObjects \in Nat /\ MaxPrivacy \in Nat /\ MaxStarts \in Nat \ {0}

ASSUME NoneAssumption ==
  None \notin Pending \cup Completed \cup {Failed} \cup Objects \cup Turns \cup Privacy \cup Reads

\* Type invariant.
TypeOK ==
  /\ FileTypeOK
  /\ storage \in Objects \cup {None}
  /\ objects \in 0..MaxObjects
  /\ closed \in SUBSET Objects
  /\ call \in [Threads -> Turns \cup Privacy \cup Reads \cup {None}]
  /\ ensure \in [Threads -> [at : {"start", "open", "assign", "return"},
                            opened : Objects \cup {None}]]
  /\ starts \in 1..MaxStarts
  /\ privacies \in 0..MaxPrivacy
  /\ admitted \in Seq([request : RequestIds, message : Messages, generation : Nat])
  /\ answered \in SUBSET [request : RequestIds, message : Messages, reply : Executions]
  /\ unreleased \in SUBSET [request : RequestIds, generation : Nat]

Start == [at |-> "start", opened |-> None]

Init ==
  /\ FileInit
  /\ storage = None
  /\ objects = 0
  /\ closed = {}
  /\ call = [t \in Threads |-> None]
  /\ ensure = [t \in Threads |-> Start]
  /\ starts = 1
  /\ privacies = 0
  /\ admitted = <<>>
  /\ answered = {}
  /\ unreleased = {}

-----------------------------------------------------------------------------
SendTurn(t, r, m) ==
  /\ call[t] = None
  /\ call' = [call EXCEPT ![t] = [stage |-> "admit", request |-> r, message |-> m,
       execution |-> 0, generation |-> 0, store |-> None, loaded |-> None]]
  /\ UNCHANGED <<file, storage, objects, closed, ensure, ghosts>>

CallPrivacy(t, op) ==
  /\ call[t] = None
  /\ privacies < MaxPrivacy
  /\ privacies' = privacies + 1
  /\ call' = [call EXCEPT ![t] = [stage |-> op]]
  /\ UNCHANGED <<file, storage, objects, closed, ensure, starts, admitted, answered,
                 unreleased>>

CallRead(t) ==
  /\ call[t] = None
  /\ call' = [call EXCEPT ![t] = [stage |-> "read"]]
  /\ UNCHANGED <<file, storage, objects, closed, ensure, ghosts>>

-----------------------------------------------------------------------------
(* _ensure_storage.                                                        *)

NeedsStorage(t) == call[t] # None /\ call[t].stage \in {"admit", "load", "read"} \cup PrivacyOps

\* "if self._storage is None".
Check(t) ==
  /\ NeedsStorage(t)
  /\ ensure[t].at = "start"
  /\ storage = None
  /\ ensure' = [ensure EXCEPT ![t].at = "open"]
  /\ UNCHANGED <<file, storage, objects, closed, call, ghosts>>

\* open_local_storage: migrations, then the recovery of interrupted turns.
Open(t) ==
  /\ ensure[t].at = "open"
  /\ objects < MaxObjects
  /\ objects' = objects + 1
  /\ ensure' = [ensure EXCEPT ![t] = [at |-> "assign", opened |-> objects + 1]]
  /\ Recover
  /\ unreleased' = {}
  /\ UNCHANGED <<storage, closed, call, starts, privacies, admitted, answered>>

Assign(t) ==
  /\ ensure[t].at = "assign"
  /\ storage' = ensure[t].opened
  /\ ensure' = [ensure EXCEPT ![t] = [at |-> "return", opened |-> None]]
  /\ UNCHANGED <<file, objects, closed, call, ghosts>>

\* The thread has read self._storage, and the object may be used.
Ready(t) ==
  /\ NeedsStorage(t)
  /\ ensure[t].at \in {"start", "return"}
  /\ storage # None

Usable(o) == o \notin closed

Ensured(t) == ensure' = [ensure EXCEPT ![t] = Start]

\* The turn ends: without a reservation at once, else after release_request.
FailTurn(t) ==
  call' = [call EXCEPT ![t] =
    IF call[t].stage \in {"load", "commit"} THEN [call[t] EXCEPT !.stage = "release"] ELSE None]

\* Opening fails, the object was taken away by close(), or the operation on it
\* fails: it is closed, or the transaction is rolled back (database_error).
StorageFails(t) ==
  /\ \/ ensure[t].at = "open"
     \/ ensure[t].at = "return" /\ storage = None
     \/ Ready(t)
  /\ FailTurn(t)
  /\ Ensured(t)
  /\ UNCHANGED <<file, storage, objects, closed, ghosts>>

-----------------------------------------------------------------------------
(* _commit_turn_inner and _execute_reserved_turn.                          *)

Replayed(t) == [request |-> call[t].request, message |-> call[t].message,
                reply |-> requests[call[t].request].reply]

Admit(t) ==
  LET r == call[t].request
      m == call[t].message
      decision == ReserveDecision(r, m)
      x == Len(admitted) + 1
  IN /\ Ready(t)
     /\ Usable(storage)
     /\ call[t].stage = "admit"
     /\ decision = "reserved" => x <= MaxTurns
     /\ reserve_request(r, m)
     /\ Ensured(t)
     /\ IF decision = "reserved"
        THEN /\ call' = [call EXCEPT ![t].stage = "load", ![t].execution = x,
                                     ![t].generation = generation, ![t].store = storage]
             /\ admitted' = Append(admitted, [request |-> r, message |-> m,
                                              generation |-> generation])
        ELSE /\ call' = [call EXCEPT ![t] = None]
             /\ UNCHANGED admitted
     /\ answered' = IF decision = "replay" THEN answered \cup {Replayed(t)} ELSE answered
     /\ UNCHANGED <<storage, objects, closed, starts, privacies, unreleased>>

\* load_user_state, by whatever object is current; then the provider runs.
LoadState(t) ==
  /\ Ready(t)
  /\ Usable(storage)
  /\ call[t].stage = "load"
  /\ call' = [call EXCEPT ![t].stage = "commit", ![t].loaded = profile]
  /\ Ensured(t)
  /\ UNCHANGED <<file, storage, objects, closed, ghosts>>

\* The provider or its deadline fails.
ProviderFails(t) ==
  /\ call[t] # None
  /\ call[t].stage = "commit"
  /\ FailTurn(t)
  /\ UNCHANGED <<file, storage, objects, closed, ensure, ghosts>>

\* commit_turn on the object that admitted the turn.
Commit(t) ==
  LET c == call[t]
      decision == CommitDecision(c.request, c.generation, c.loaded.revision)
  IN /\ c # None
     /\ c.stage = "commit"
     /\ IF Usable(c.store)
        THEN commit_turn(c.request, c.message, c.execution, c.generation, c.loaded)
        ELSE UNCHANGED file
     /\ IF Usable(c.store) /\ decision = "committed"
        THEN /\ call' = [call EXCEPT ![t] = None]
             /\ answered' = answered \cup {[request |-> c.request, message |-> c.message,
                                            reply |-> c.execution]}
        ELSE FailTurn(t) /\ UNCHANGED answered
     /\ UNCHANGED <<storage, objects, closed, ensure, starts, privacies, admitted,
                    unreleased>>

\* release_request after a failure.  Whether the object is closed or the
\* transaction fails, the error is swallowed and the reservation stays.
Release(t) ==
  LET c == call[t] IN
  /\ c # None
  /\ c.stage = "release"
  /\ \/ /\ Usable(c.store)
        /\ release_request(c.request, c.generation)
        /\ UNCHANGED unreleased
     \/ /\ unreleased' = unreleased \cup {[request |-> c.request, generation |-> c.generation]}
        /\ UNCHANGED file
  /\ call' = [call EXCEPT ![t] = None]
  /\ UNCHANGED <<storage, objects, closed, ensure, starts, privacies, admitted, answered>>

ApplyPrivacy(t) ==
  /\ Ready(t)
  /\ Usable(storage)
  /\ call[t].stage \in PrivacyOps
  /\ privacy_op(call[t].stage)
  /\ call' = [call EXCEPT ![t] = None]
  /\ Ensured(t)
  /\ UNCHANGED <<storage, objects, closed, ghosts>>

\* One query; it changes nothing, but it may have opened the store.
ReadStore(t) ==
  /\ Ready(t)
  /\ Usable(storage)
  /\ call[t].stage = "read"
  /\ call' = [call EXCEPT ![t] = None]
  /\ Ensured(t)
  /\ UNCHANGED <<file, storage, objects, closed, ghosts>>

-----------------------------------------------------------------------------
\* CompanionRuntime.close, while calls may still be running.
Close ==
  /\ storage # None
  /\ closed' = closed \cup {storage}
  /\ storage' = None
  /\ UNCHANGED <<file, objects, call, ensure, ghosts>>

\* The process ends with all its threads, and the application starts again.
Restart ==
  /\ starts < MaxStarts
  /\ starts' = starts + 1
  /\ storage' = None
  /\ objects' = 0
  /\ closed' = {}
  /\ call' = [t \in Threads |-> None]
  /\ ensure' = [t \in Threads |-> Start]
  /\ unreleased' = {}
  /\ UNCHANGED <<file, privacies, admitted, answered>>

ThreadStep(t) ==
  \/ Check(t) \/ Open(t) \/ Assign(t) \/ StorageFails(t)
  \/ Admit(t) \/ LoadState(t) \/ ProviderFails(t) \/ Commit(t) \/ Release(t)
  \/ ApplyPrivacy(t) \/ ReadStore(t)

Next ==
  \/ \E t \in Threads :
       \/ \E r \in RequestIds, m \in Messages : SendTurn(t, r, m)
       \/ \E op \in PrivacyOps : CallPrivacy(t, op)
       \/ CallRead(t)
       \/ ThreadStep(t)
  \/ Close
  \/ Restart

Spec == Init /\ [][Next]_vars

-----------------------------------------------------------------------------
(* Properties.                                                             *)

\* A turn that was admitted before a delete_history leaves no message after it,
\* however late its provider answers.
NothingComesBack == \A x \in chatLogs : admitted[x].generation = generation

\* A committed turn is folded into the snapshots it finds, never over a turn or
\* a reset that came after it had loaded its state.
NoLostUpdate ==
  [][ \A t \in Threads :
        LET x == call[t].execution IN
        call[t] # None /\ call[t].stage = "commit" /\ x \in chatLogs' \ chatLogs =>
          /\ profile'.emotional = Append(profile.emotional, x)
          /\ profile'.relationship = Append(profile.relationship, x) ]_vars

\* Turns that hold a reservation and may still call the provider.
Executing(t) == call[t] # None /\ call[t].stage \in {"load", "commit"}

\* What the bridge returned for a request is the execution of that message, and
\* all results of one id between two deletions are the same.
AnswersFit ==
  /\ \A a \in answered : /\ admitted[a.reply].request = a.request
                         /\ admitted[a.reply].message = a.message
  /\ \A a, b \in answered :
       (/\ a.request = b.request
        /\ admitted[a.reply].generation = admitted[b.reply].generation) => a = b

\* A live turn of the current generation.
Live(t) ==
  /\ call[t] # None
  /\ call[t].stage \in {"load", "commit", "release"}
  /\ call[t].generation = generation

\* Once the application has opened its store, the pending rows are those of live
\* turns, but for those whose release has failed since: a failed turn frees its
\* request id, and a late failure never frees the reservation of a newer turn
\* with the same id.  And a request is never executed twice at the same time: the
\* second call of an id learns of the first before it spends a provider call.
ReservationsAreOwned ==
  /\ objects > 0 =>
       \A r \in RequestIds : (requests[r] # None /\ requests[r].status = "pending") =>
         \/ \E t \in Threads : Live(t) /\ call[t].request = r
         \/ [request |-> r, generation |-> generation] \in unreleased
  /\ \A t \in Threads : Live(t) => requests[call[t].request] # None
  /\ \A t, u \in Threads :
       (/\ Executing(t) /\ Executing(u)
        /\ call[t].request = call[u].request
        /\ call[t].generation = call[u].generation) => t = u

\* "a pending turn with no live in-process writer can only exist after a crash.
\* On open, every pending row is moved to failed": recovery is not meant for a
\* turn that is still running on a store that is in use.
RecoveryLeavesLiveTurns ==
  [][ \A t \in Threads :
        (closed = {} /\ Live(t) /\ requests[call[t].request] = Reserved(generation)) =>
          requests'[call[t].request] # Failed ]_vars
=============================================================================
