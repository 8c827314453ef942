----------------------------- MODULE LegacyImport ------------------------------
(***************************************************************************)
(* import_legacy_fixture beside a running desktop runtime: the turns of an *)
(* export of the web installation are written, in one transaction under    *)
(* the lock of the store, as completed turns under their own request ids.  *)
(* A row that is already there is left alone if it holds the same import,  *)
(* and fails the whole import otherwise.  An imported turn is numbered     *)
(* among the executions.                                                   *)
(***************************************************************************)
EXTENDS CompanionRuntime

CONSTANTS
  Fixtures,    \* exports: sequences of turns [request, message, answer]
  MaxImports   \* bound on imports

ASSUME FixturesAssumption ==
  \A f \in Fixtures :
    /\ Len(f) \in Nat /\ DOMAIN f = 1..Len(f)
    /\ \A i \in DOMAIN f : /\ f[i].request \in RequestIds \cup {None}
                           /\ f[i].message \in Messages \cup {None}

VARIABLES
  hashes,    \* payload_hash_sha256 of the imported rows: a set of [reply, turn]
  imports    \* history variable: imports so far

importVars == <<vars, hashes, imports>>

\* validate_legacy_fixture accepts the export: ids and both messages are there.
validate_legacy_fixture(f) ==
  \A i \in DOMAIN f : f[i].request # None /\ f[i].message # None /\ f[i].answer # None

\* The row holds the hash of t: a reservation has its marker there, a failed row
\* too, and a turn of the runtime another hash.
SameImport(t) ==
  /\ requests[t.request] # None /\ requests[t.request].status = "completed"
  /\ [reply |-> requests[t.request].reply, turn |-> t] \in hashes

Existing(t) == requests[t.request] # None

\* legacy_request_id_conflict, with a row of the store or of the same export.
Conflicts(f) ==
  \E i \in DOMAIN f :
    \/ Existing(f[i]) /\ ~SameImport(f[i])
    \/ \E j \in 1..(i - 1) : f[j].request = f[i].request /\ f[j] # f[i]

\* Mutant: a turn that is already there is written again.
MutNewTurns(f) == {i \in DOMAIN f : \A j \in 1..(i - 1) : f[j].request # f[i].request}

\* The turns that are written, in the order of the export.
NewTurns(f) ==
  {i \in DOMAIN f : ~Existing(f[i]) /\ \A j \in 1..(i - 1) : f[j].request # f[i].request}

\* new lists the turns that are written, in the order of the export.
InOrder(f, new) ==
  /\ {new[k] : k \in DOMAIN new} = NewTurns(f)
  /\ \A j, k \in DOMAIN new : j < k => new[j] < new[k]

\* The inserts, and the executions that they are numbered as.
WriteTurns(f, new) ==
  LET Of(r) == {k \in DOMAIN new : f[new[k]].request = r}
      Row(k) == [status |-> "completed", message |-> f[new[k]].message, reply |-> Len(admitted) + k]
  IN /\ requests' = [r \in RequestIds |->
                       IF Of(r) # {} THEN Row(CHOOSE k \in Of(r) : TRUE) ELSE requests[r]]
     /\ chatLogs' = chatLogs \cup {Len(admitted) + k : k \in DOMAIN new}
     /\ hashes' = hashes \cup {[reply |-> Len(admitted) + k, turn |-> f[new[k]]] : k \in DOMAIN new}
     /\ admitted' = admitted \o [k \in DOMAIN new |->
          [request |-> f[new[k]].request, message |-> f[new[k]].message, generation |-> generation]]
     /\ UNCHANGED <<profile, generation, memory, starts, privacies, answered,
                    unreleased>>

import_legacy_fixture(f) ==
  /\ storage # None /\ Usable(storage)
  /\ imports < MaxImports
  /\ imports' = imports + 1
  /\ \/ /\ ~validate_legacy_fixture(f) \/ Conflicts(f)
        /\ UNCHANGED <<vars, hashes>>
     \/ /\ validate_legacy_fixture(f) /\ ~Conflicts(f)
        /\ \E n \in 0..Len(f) : \E new \in [1..n -> DOMAIN f] :
             InOrder(f, new) /\ WriteTurns(f, new)

ImportInit == Init /\ hashes = {} /\ imports = 0

ImportNext ==
  \/ Next /\ UNCHANGED <<hashes, imports>>
  \/ \E f \in Fixtures : import_legacy_fixture(f)

ImportSpec == ImportInit /\ [][ImportNext]_importVars

-----------------------------------------------------------------------------

\* The history holds one turn of a request id at most, whether the runtime
\* executed it or an export brought it, and however often the export is
\* imported: "importing the same fixture twice never duplicates rows".
OneTurnPerRequest ==
  \A x, y \in chatLogs : admitted[x].request = admitted[y].request => x = y
=============================================================================
