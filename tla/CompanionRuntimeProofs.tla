------------------------ MODULE CompanionRuntimeProofs ------------------------
(***************************************************************************)
(* The desktop runtime beside imports, for any number of threads, request  *)
(* ids, turns, privacy operations, restarts and exports.  The argument is  *)
(* that the row of a request id says everything: a row is never taken from *)
(* a completed turn but by delete_history, and while a turn is in flight   *)
(* in the generation that admitted it, its row is not free.                *)
(***************************************************************************)
EXTENDS LegacyImport, TLAPS

\* Each leaf is tried with the defaults first and then given more time.
USE SMT, Zenon, Z3T(60), ZenonT(30), SMTT(60), Z3T(90)

\* A turn that has a reservation to commit or to let go.
InFlight(t) == call[t] # None /\ call[t].stage \in {"load", "commit", "release"}

\* What execution x was admitted for.
AdmittedFor(x, r, m, g) ==
  x \in 1..Len(admitted) /\ admitted[x] = [request |-> r, message |-> m, generation |-> g]

\* No execution was admitted in a generation to come.
AdmittedInv == \A x \in 1..Len(admitted) : admitted[x].generation <= generation

\* A row is of the current generation, and a completed one is an execution of
\* its request and message.
RowInv ==
  \A r \in RequestIds :
    /\ requests[r] \in Pending => requests[r].marker = generation
    /\ requests[r] \in Completed =>
         AdmittedFor(requests[r].reply, r, requests[r].message, generation)

\* Every message of the history has its row.
LogInv == \A x \in chatLogs : \E r \in RequestIds : requests[r] \in Completed /\ requests[r].reply = x

\* The row of a completed turn.
CompletedRow(m, x) == [status |-> "completed", message |-> m, reply |-> x]

\* An answer is an execution of its request, and while its generation lasts it
\* is what the row holds.
AnswerInv ==
  \A a \in answered :
    /\ AdmittedFor(a.reply, a.request, a.message, admitted[a.reply].generation)
    /\ admitted[a.reply].generation = generation =>
         requests[a.request] = CompletedRow(a.message, a.reply)

\* All answers of a request id between two deletions are the same.
PairInv ==
  \A a, b \in answered :
    (/\ a.request = b.request
     /\ admitted[a.reply].generation = admitted[b.reply].generation) => a = b

History == AdmittedInv /\ RowInv /\ LogInv /\ AnswerInv /\ PairInv

\* A turn in flight is the execution it was admitted as, and its row is not
\* free while its generation lasts; the state it has loaded is the profile
\* until the revision moves on.
TurnInv(t) ==
  InFlight(t) =>
    /\ AdmittedFor(call[t].execution, call[t].request, call[t].message, call[t].generation)
    /\ call[t].generation <= generation
    /\ call[t].generation = generation => requests[call[t].request] # None
    /\ call[t].stage = "commit" =>
         /\ call[t].loaded \in Profiles
         /\ call[t].loaded.revision <= profile.revision
         /\ call[t].loaded.revision = profile.revision => call[t].loaded = profile

\* Two turns in flight differ in their request id or in their generation.
SoleInv ==
  \A t, u \in Threads :
    (/\ InFlight(t) /\ InFlight(u)
     /\ call[t].request = call[u].request
     /\ call[t].generation = call[u].generation) => t = u

\* The release of a request's reservation has failed.
LeftOver(r) == [request |-> r, generation |-> generation] \in unreleased

\* A pending row has its live turn, or was left by a release that failed.
OwnedInv ==
  objects > 0 =>
    \A r \in RequestIds : requests[r] \in Pending =>
      (\E t \in Threads : Live(t) /\ call[t].request = r) \/ LeftOver(r)

\* A thread that is opening the store has a call that needs it.
EnsureInv == \A t \in Threads : ensure[t].at # "start" => NeedsStorage(t)

Inv ==
  /\ TypeOK /\ EnsureInv /\ History
  /\ \A t \in Threads : TurnInv(t)
  /\ SoleInv /\ OwnedInv

-----------------------------------------------------------------------------
(* What a step may do.                                                     *)

\* More executions may be admitted, in generations up to the current one.
Grown ==
  /\ Len(admitted') \in Nat /\ Len(admitted) <= Len(admitted')
  /\ \A x \in 1..Len(admitted) : admitted'[x] = admitted[x]
  /\ AdmittedInv'

\* Within a generation, completed rows stay, and what is added to the rows, the
\* history and the answers fits.
HistoryGrows ==
  /\ generation' = generation
  /\ Grown
  /\ \A r \in RequestIds : requests[r] \in Completed => requests'[r] = requests[r]
  /\ \A r \in RequestIds : requests'[r] \in Completed =>
       requests'[r] = requests[r] \/ AdmittedFor(requests[r].reply, r, requests[r].message, generation)'
  /\ \A r \in RequestIds : requests'[r] \in Pending => requests'[r].marker = generation
  /\ \A x \in chatLogs' : \/ x \in chatLogs
                          \/ \E r \in RequestIds : requests'[r] \in Completed /\ requests'[r].reply = x
  /\ \A a \in answered' : a \in answered \/ requests'[a.request] = CompletedRow(a.message, a.reply)

\* A turn in flight after the step is the turn it was before.
Follows(t) ==
  InFlight(t)' =>
    /\ InFlight(t)
    /\ call'[t].execution = call[t].execution /\ call'[t].request = call[t].request
    /\ call'[t].message = call[t].message /\ call'[t].generation = call[t].generation
    /\ call'[t].stage = "commit" =>
         call'[t].loaded = profile \/ (call[t].stage = "commit" /\ call'[t].loaded = call[t].loaded)

\* The revision moves on whenever the profile changes.
ProfileMoves == profile' = profile \/ profile.revision < profile'.revision

\* A turn in flight before the step is in flight after it.
Stays(t) ==
  InFlight(t) => /\ InFlight(t)'
                 /\ call'[t].request = call[t].request /\ call'[t].generation = call[t].generation

-----------------------------------------------------------------------------
\* A sequence has its elements.
LEMMA SeqElement ==
  ASSUME NEW A, NEW s \in Seq(A), NEW x \in 1..Len(s) PROVE s[x] \in A
OBVIOUS

\* A sequence that one element is appended to.
LEMMA SeqAppend ==
  ASSUME NEW A, NEW s \in Seq(A), NEW e \in A
  PROVE  /\ Append(s, e) \in Seq(A) /\ Len(Append(s, e)) = Len(s) + 1
         /\ \A y \in 1..Len(s) : Append(s, e)[y] = s[y]
         /\ Append(s, e)[Len(s) + 1] = e
<1> QED OBVIOUS

\* Numbers at the end of an interval.
LEMMA PlusOne ==
  ASSUME NEW n \in Nat
  PROVE  /\ n + 1 \in Nat /\ n <= n + 1 /\ n + 1 \in 1..(n + 1) /\ n <= n
         /\ \A y \in 1..(n + 1) : y \notin 1..n => y = n + 1
OBVIOUS

\* An interval that is continued by another.
LEMMA PlusMany ==
  ASSUME NEW l \in Nat, NEW n \in Nat
  PROVE  /\ l + n \in Nat /\ l <= l + n
         /\ \A i \in 1..l : i \in 1..(l + n) /\ i <= l
         /\ \A k \in 1..n : l + k \notin 1..l /\ l + k \in Nat
         /\ \A k \in 1..n : l + k \in 1..(l + n) /\ ~(l + k <= l) /\ (l + k) - l = k
         /\ \A i \in 1..(l + n) : i <= l => i \in 1..l
         /\ \A i \in 1..(l + n) : ~(i <= l) => i - l \in 1..n /\ l + (i - l) = i
<1> QED OBVIOUS

\* A number of a longer interval.
LEMMA Within ==
  ASSUME NEW a \in Nat, NEW b \in Nat, a <= b, NEW x \in 1..a
  PROVE  x \in 1..b
OBVIOUS

\* A number below another.
LEMMA Below ==
  ASSUME NEW a \in Nat, NEW b \in Nat, NEW c \in Nat, a <= b, b < c
  PROVE  a < c /\ a <= c /\ a # c
OBVIOUS

\* An admission survives further ones.
LEMMA AdmittedStays ==
  ASSUME NEW x, NEW r, NEW m, NEW g, AdmittedFor(x, r, m, g), Grown, Len(admitted) \in Nat
  PROVE  x \in 1..Len(admitted') /\ admitted'[x] = [request |-> r, message |-> m, generation |-> g]
<1> QED BY DEF Grown, AdmittedFor

\* A step within a generation keeps the history consistent.
LEMMA HistoryKept ==
  ASSUME TypeOK, TypeOK', History, HistoryGrows PROVE History'
<1>0. AdmittedInv /\ RowInv /\ LogInv /\ AnswerInv /\ PairInv
  BY DEF History
<1>1. Len(admitted) \in Nat /\ generation \in Nat
  BY DEF TypeOK, FileTypeOK
<1>2. generation' = generation /\ Grown
  BY DEF HistoryGrows
<1>3. RowInv'
  <2>1. ASSUME NEW r \in RequestIds, requests'[r] \in Completed, requests'[r] = requests[r]
        PROVE  AdmittedFor(requests[r].reply, r, requests[r].message, generation)'
    <3> QED BY <1>0, <2>1, <1>1, <1>2, AdmittedStays DEF AdmittedFor, RowInv
  <2> QED BY <1>2, <2>1 DEF RowInv, HistoryGrows
<1>4. LogInv'
  <2> SUFFICES ASSUME NEW x \in chatLogs'
               PROVE  \E r \in RequestIds : requests'[r] \in Completed /\ requests'[r].reply = x
    BY DEF LogInv
  <2>1. CASE x \in chatLogs
    <3>1. PICK r \in RequestIds : requests[r] \in Completed /\ requests[r].reply = x
      BY <1>0, <2>1 DEF LogInv
    <3> QED BY <3>1 DEF HistoryGrows
  <2> QED BY <2>1 DEF HistoryGrows
<1>5. ASSUME NEW a \in answered'
      PROVE  /\ AdmittedFor(a.reply, a.request, a.message, admitted[a.reply].generation)'
             /\ admitted'[a.reply].generation = generation' =>
                  requests'[a.request] = CompletedRow(a.message, a.reply)
             /\ a \notin answered => admitted'[a.reply].generation = generation'
  <2>0. a.request \in RequestIds /\ a.message \in Messages /\ a.reply \in Nat
    BY DEF TypeOK, Executions
  <2>1. CASE a \in answered
    <3> DEFINE g == admitted[a.reply].generation
    <3>1. /\ AdmittedFor(a.reply, a.request, a.message, g)
          /\ g = generation => requests[a.request] = CompletedRow(a.message, a.reply)
      BY <1>0, <2>1 DEF AnswerInv
    <3> HIDE DEF g
    <3>2. g = generation => requests'[a.request] = CompletedRow(a.message, a.reply)
      BY <2>0, <3>1 DEF HistoryGrows, CompletedRow, Completed, Executions
    <3> QED BY <1>1, <1>2, <3>1, AdmittedStays, <2>1, <3>2 DEF AdmittedFor
  <2>2. CASE a \notin answered
    <3>1. requests'[a.request] = CompletedRow(a.message, a.reply)
      BY <2>2 DEF HistoryGrows
    <3>2. AdmittedFor(a.reply, a.request, a.message, generation)'
      BY <2>0, <3>1, <1>3 DEF RowInv, AdmittedFor, CompletedRow, Completed, Executions
    <3> QED BY <3>2, <3>1 DEF AdmittedFor
  <2> QED BY <2>1, <2>2
<1>6. PairInv'
  <2> SUFFICES ASSUME NEW a \in answered', NEW b \in answered', a.request = b.request,
                      admitted'[a.reply].generation = admitted'[b.reply].generation
               PROVE  a = b
    BY DEF PairInv
  <2>1. CASE a \in answered /\ b \in answered
    <3>1. a.reply \in 1..Len(admitted) /\ b.reply \in 1..Len(admitted)
      BY ZenonT(60), <1>0, <2>1 DEF AnswerInv, AdmittedFor
    <3>2. admitted'[a.reply] = admitted[a.reply] /\ admitted'[b.reply] = admitted[b.reply]
      BY <1>2, <3>1 DEF Grown
    <3> QED BY <1>0, <2>1, <3>2 DEF PairInv
  <2>2. CASE ~(a \in answered /\ b \in answered)
    <3>1. /\ requests'[a.request] = CompletedRow(a.message, a.reply)
          /\ requests'[b.request] = CompletedRow(b.message, b.reply)
      BY <1>5, <2>2
    <3>2. /\ a \in [request : RequestIds, message : Messages, reply : Executions]
          /\ b \in [request : RequestIds, message : Messages, reply : Executions]
      BY DEF TypeOK
    <3> QED BY <3>1, <3>2 DEF CompletedRow
  <2> QED BY <2>1, <2>2
<1> QED BY <1>5, <1>2, <1>3, <1>4, <1>6 DEF History, Grown, AnswerInv

\* Nothing of the history moves.
LEMMA HistorySame ==
  ASSUME TypeOK, TypeOK', History, UNCHANGED <<requests, chatLogs, generation, admitted, answered>>
  PROVE  HistoryGrows
<1> QED BY DEF HistoryGrows, RowInv, History, Grown, TypeOK, AdmittedInv

\* The types of the file.
LEMMA FileTypes ==
  ASSUME TypeOK
  PROVE  /\ profile \in Profiles /\ generation \in Nat /\ Len(admitted) \in Nat
         /\ requests \in [RequestIds -> Pending \cup Completed \cup {Failed, None}]
BY DEF TypeOK, FileTypeOK

\* What an execution was admitted for has its type.
LEMMA AdmittedType ==
  ASSUME TypeOK, NEW x \in 1..Len(admitted)
  PROVE  /\ admitted[x].request \in RequestIds /\ admitted[x].message \in Messages
         /\ admitted[x].generation \in Nat
<1>1. admitted \in Seq([request : RequestIds, message : Messages, generation : Nat])
  BY DEF TypeOK
<1>2. admitted[x] \in [request : RequestIds, message : Messages, generation : Nat]
  BY ZenonT(60), <1>1, SeqElement
<1> QED
  BY <1>2

\* What an execution was admitted for, field by field.
LEMMA AdmittedFields ==
  ASSUME NEW x, NEW r, NEW m, NEW g, AdmittedFor(x, r, m, g)
  PROVE  admitted[x].request = r /\ admitted[x].message = m /\ admitted[x].generation = g
<1>1. admitted[x] = [request |-> r, message |-> m, generation |-> g]
  BY DEF AdmittedFor
<1> QED
  BY <1>1

\* The record of an admission.
LEMMA AdmissionRecord ==
  ASSUME NEW r \in RequestIds, NEW m \in Messages, NEW g \in Nat
  PROVE  /\ [request |-> r, message |-> m, generation |-> g] \in
              [request : RequestIds, message : Messages, generation : Nat]
         /\ [request |-> r, message |-> m, generation |-> g].generation = g
OBVIOUS

\* A turn stays what it was admitted as.
LEMMA TurnKept ==
  ASSUME TypeOK, TypeOK', NEW t \in Threads, TurnInv(t), Follows(t), Grown, ProfileMoves,
         generation' = generation \/ generation < generation',
         (/\ InFlight(t) /\ InFlight(t)' /\ call[t].generation = generation
          /\ generation' = generation) => requests'[call[t].request] # None
  PROVE  TurnInv(t)'
<1>0. SUFFICES ASSUME InFlight(t)'
               PROVE  /\ AdmittedFor(call[t].execution, call[t].request, call[t].message,
                                     call[t].generation)'
                      /\ call'[t].generation <= generation'
                      /\ call'[t].generation = generation' => requests'[call'[t].request] # None
                      /\ call'[t].stage = "commit" =>
                           /\ call'[t].loaded \in Profiles
                           /\ call'[t].loaded.revision <= profile'.revision
                           /\ call'[t].loaded.revision = profile'.revision => call'[t].loaded = profile'
  BY DEF TurnInv
<1>1. /\ InFlight(t)
      /\ call'[t].execution = call[t].execution /\ call'[t].request = call[t].request
      /\ call'[t].message = call[t].message /\ call'[t].generation = call[t].generation
  BY <1>0 DEF Follows
<1>2. /\ AdmittedFor(call[t].execution, call[t].request, call[t].message, call[t].generation)
      /\ call[t].generation <= generation
  BY <1>1 DEF TurnInv
<1>3. Len(admitted) \in Nat /\ generation \in Nat /\ generation' \in Nat
  BY FileTypes DEF TypeOK, FileTypeOK
<1>4. call[t].generation \in Nat
  <2> QED BY <1>2, AdmittedType DEF AdmittedFor
<1>5. AdmittedFor(call[t].execution, call[t].request, call[t].message, call[t].generation)'
  <2> DEFINE x == call[t].execution
             p == [request |-> call[t].request, message |-> call[t].message,
                   generation |-> call[t].generation]
  <2>1. x \in 1..Len(admitted) /\ admitted[x] = p
    BY <1>2 DEF AdmittedFor
  <2>2. call'[t].execution = x /\ p = [request |-> call'[t].request, message |-> call'[t].message,
                                      generation |-> call'[t].generation]
    BY <1>1
  <2> HIDE DEF x, p
  <2> QED BY <2>1, <1>3, Within, <2>2 DEF AdmittedFor, Grown
<1>6. call'[t].generation <= generation'
  <2> QED BY <1>2, <1>3, <1>4, <1>1
<1>7. ASSUME call'[t].generation = generation' PROVE requests'[call'[t].request] # None
  BY <1>1, <1>2, <1>7, <1>3, <1>4, <1>0
<1>8. ASSUME call'[t].stage = "commit"
      PROVE  /\ call'[t].loaded \in Profiles
             /\ call'[t].loaded.revision <= profile'.revision
             /\ call'[t].loaded.revision = profile'.revision => call'[t].loaded = profile'
  <2>1. profile \in Profiles /\ profile' \in Profiles
    BY DEF TypeOK, FileTypeOK
  <2>2. /\ call'[t].loaded \in Profiles
        /\ call'[t].loaded.revision <= profile.revision
        /\ call'[t].loaded.revision = profile.revision => call'[t].loaded = profile
    <3>1. CASE call'[t].loaded = profile
      BY <2>1, <3>1 DEF Profiles
    <3>2. CASE call[t].stage = "commit" /\ call'[t].loaded = call[t].loaded
      BY <1>1, <3>2 DEF TurnInv
    <3> QED BY <1>0, <1>8, <3>1, <3>2 DEF Follows
  <2>3. profile.revision \in Nat /\ profile'.revision \in Nat /\ call'[t].loaded.revision \in Nat
    BY <2>1, <2>2 DEF Profiles
  <2>4. CASE profile' = profile
    BY <2>2, <2>4
  <2>5. CASE profile.revision < profile'.revision
    BY <2>2, <2>3, <2>5
  <2> QED BY <2>4, <2>5 DEF ProfileMoves
<1> QED BY <1>5, <1>6, <1>7, <1>8

\* No turn is admitted, so those in flight still differ.
LEMMA SoleKept ==
  ASSUME SoleInv, \A t \in Threads : Follows(t) PROVE SoleInv'
<1> SUFFICES ASSUME NEW t \in Threads, NEW u \in Threads, InFlight(t)', InFlight(u)',
                    call'[t].request = call'[u].request, call'[t].generation = call'[u].generation
             PROVE  t = u
  BY DEF SoleInv
<1>1. InFlight(t) /\ call'[t].request = call[t].request /\ call'[t].generation = call[t].generation
  BY DEF Follows
<1>2. InFlight(u) /\ call'[u].request = call[u].request /\ call'[u].generation = call[u].generation
  BY DEF Follows
<1> QED
  BY ZenonT(60), <1>1, <1>2 DEF SoleInv

\* The pending rows that are left keep their turns.
LEMMA OwnedKept ==
  ASSUME OwnedInv, generation' = generation,
         objects' > 0 => objects > 0, unreleased \subseteq unreleased',
         \A r \in RequestIds : requests'[r] \in Pending => requests[r] \in Pending,
         \A r \in RequestIds, t \in Threads :
           (requests'[r] \in Pending /\ Live(t) /\ call[t].request = r) => Stays(t)
  PROVE  OwnedInv'
<1> SUFFICES ASSUME objects' > 0, NEW r \in RequestIds, requests'[r] \in Pending
             PROVE  (\E t \in Threads : Live(t)' /\ call'[t].request = r) \/ LeftOver(r)'
  BY DEF OwnedInv
<1>1. CASE LeftOver(r)
  BY <1>1 DEF LeftOver
<1>2. CASE ~LeftOver(r)
  <2>1. PICK t \in Threads : Live(t) /\ call[t].request = r
    BY <1>2 DEF OwnedInv
  <2> QED BY <2>1 DEF Stays, Live, InFlight
<1> QED BY <1>1, <1>2

\* A call that does not change.
LEMMA SameCall ==
  ASSUME NEW t \in Threads, call'[t] = call[t] PROVE Follows(t) /\ Stays(t)
BY DEF Follows, Stays, InFlight

\* Only one thread's call and store have changed.
LEMMA EnsureKept ==
  ASSUME EnsureInv, NEW t \in Threads,
         \A u \in Threads \ {t} : ensure'[u] = ensure[u] /\ call'[u] = call[u],
         ensure'[t].at # "start" => NeedsStorage(t)'
  PROVE  EnsureInv'
BY DEF EnsureInv, NeedsStorage

\* A step that leaves the file alone.
LEMMA QuietStep ==
  ASSUME Inv, TypeOK', EnsureInv', UNCHANGED <<file, admitted, answered>>,
         \A t \in Threads : Follows(t),
         objects' > 0 =>
            objects > 0 /\ unreleased \subseteq unreleased' /\ \A t \in Threads : Stays(t)
  PROVE  Inv'
<1>0. TypeOK /\ History /\ SoleInv /\ OwnedInv /\ \A t \in Threads : TurnInv(t)
  BY DEF Inv
<1>1. UNCHANGED <<profile, requests, chatLogs, generation>>
  BY DEF file
<1>2. Grown /\ ProfileMoves
  BY <1>0, <1>1, HistorySame DEF HistoryGrows, ProfileMoves
<1>3. \A t \in Threads : (InFlight(t) /\ call[t].generation = generation) =>
        requests'[call[t].request] # None
  BY <1>0, <1>1 DEF TurnInv
<1>4. \A t \in Threads : TurnInv(t)'
  BY <1>0, <1>1, <1>2, <1>3, TurnKept
<1>5. OwnedInv'
  <2>1. CASE objects' > 0
    BY <1>0, <1>1, <2>1, OwnedKept
  <2>2. CASE ~(objects' > 0)
    BY <2>2 DEF OwnedInv
  <2> QED BY <2>1, <2>2
<1> QED BY <1>0, SoleKept, <1>1, HistorySame, HistoryKept, <1>4, <1>5 DEF Inv

-----------------------------------------------------------------------------
(* The memory of the process.                                              *)

CallValues == Turns \cup Privacy \cup Reads \cup {None}
EnsureValues == [at : {"start", "open", "assign", "return"}, opened : Objects \cup {None}]
LeftOvers == SUBSET [request : RequestIds, generation : Nat]

\* The types of the process's memory.
LEMMA MemoryTypes ==
  ASSUME TypeOK
  PROVE  /\ storage \in Objects \cup {None} /\ objects \in 0..MaxObjects
         /\ closed \in SUBSET Objects /\ starts \in 1..MaxStarts /\ privacies \in 0..MaxPrivacy
         /\ call \in [Threads -> CallValues] /\ ensure \in [Threads -> EnsureValues]
         /\ unreleased \in LeftOvers
BY DEF TypeOK, CallValues, EnsureValues, LeftOvers

\* A step that leaves the file alone keeps its type.
LEMMA QuietType ==
  ASSUME TypeOK, UNCHANGED <<file, admitted, answered>>,
         storage' \in Objects \cup {None}, objects' \in 0..MaxObjects,
         closed' \in SUBSET Objects, starts' \in 1..MaxStarts, privacies' \in 0..MaxPrivacy,
         call' \in [Threads -> CallValues], ensure' \in [Threads -> EnsureValues],
         unreleased' \in LeftOvers
  PROVE  TypeOK'
<1>1. FileTypeOK'
  BY DEF TypeOK, FileTypeOK, file
<1> QED
  BY <1>1 DEF TypeOK, CallValues, EnsureValues, LeftOvers

\* One thread's call is given a value.
LEMMA CallUpdate ==
  ASSUME TypeOK, NEW t \in Threads, NEW v \in CallValues, call' = [call EXCEPT ![t] = v]
  PROVE  /\ call' \in [Threads -> CallValues] /\ call'[t] = v
         /\ \A u \in Threads \ {t} : call'[u] = call[u]
<1>1. call \in [Threads -> CallValues]
  BY MemoryTypes
<1> QED
  BY <1>1

\* A thread's store is given a value.
LEMMA EnsureUpdate ==
  ASSUME TypeOK, NEW t \in Threads, NEW v \in EnsureValues, ensure' = [ensure EXCEPT ![t] = v]
  PROVE  /\ ensure' \in [Threads -> EnsureValues] /\ ensure'[t] = v
         /\ \A u \in Threads \ {t} : ensure'[u] = ensure[u]
<1>1. ensure \in [Threads -> EnsureValues]
  BY MemoryTypes
<1> QED
  BY <1>1

\* A thread leaves _ensure_storage.
LEMMA EnsuredUpdate ==
  ASSUME TypeOK, NEW t \in Threads, Ensured(t)
  PROVE  /\ ensure' \in [Threads -> EnsureValues] /\ ensure'[t].at = "start"
         /\ \A u \in Threads \ {t} : ensure'[u] = ensure[u]
<1>1. Start \in EnsureValues /\ Start.at = "start"
  BY DEF Start, EnsureValues
<1>2. ensure' = [ensure EXCEPT ![t] = Start]
  BY DEF Ensured
<1> HIDE DEF Start
<1> QED
  BY ZenonT(60), <1>1, <1>2, EnsureUpdate

\* A call with the stage of a turn is a turn.
LEMMA TurnCall ==
  ASSUME TypeOK, NEW t \in Threads, call[t] # None,
         call[t].stage \in {"admit", "load", "commit", "release"}
  PROVE  /\ call[t] \in Turns
         /\ call[t].request \in RequestIds /\ call[t].message \in Messages
         /\ call[t].execution \in Nat /\ call[t].generation \in Nat
<1> QED BY MemoryTypes DEF Turns, Executions, CallValues, Privacy, Reads, PrivacyOps

\* The values that calls are given are not None.
LEMMA CallValuesFacts ==
  /\ None \in CallValues /\ Turns \subseteq CallValues
  /\ \A v \in Turns \cup Privacy \cup Reads : v \in CallValues /\ v # None
BY NoneAssumption DEF CallValues

\* A turn that fails keeps its reservation until it is released.
LEMMA FailTurnUpdate ==
  ASSUME TypeOK, NEW t \in Threads, call[t] # None, call[t].stage # "release", FailTurn(t)
  PROVE  /\ call' \in [Threads -> CallValues]
         /\ \A u \in Threads \ {t} : call'[u] = call[u]
         /\ \A u \in Threads : Follows(u) /\ Stays(u)
<1>1. CASE call[t].stage \in {"load", "commit"}
  <2> DEFINE v == [call[t] EXCEPT !.stage = "release"]
  <2>1. /\ v \in Turns /\ v.stage = "release" /\ v.execution = call[t].execution
        /\ v.request = call[t].request /\ v.message = call[t].message
        /\ v.generation = call[t].generation
    BY <1>1, TurnCall DEF Turns
  <2>2. call' = [call EXCEPT ![t] = v]
    BY <1>1 DEF FailTurn
  <2> HIDE DEF v
  <2>3. v \in CallValues /\ v # None
    BY <2>1, CallValuesFacts
  <2>4. /\ call' \in [Threads -> CallValues] /\ call'[t] = v
        /\ \A u \in Threads \ {t} : call'[u] = call[u]
    BY ZenonT(60), <2>2, <2>3, CallUpdate
  <2>5. Follows(t) /\ Stays(t)
    BY <1>1, <2>1, <2>3, <2>4 DEF Follows, Stays, InFlight
  <2> QED BY <2>4, <2>5, SameCall
<1>2. CASE call[t].stage \notin {"load", "commit"}
  <2>1. call' = [call EXCEPT ![t] = None]
    BY <1>2 DEF FailTurn
  <2>2. /\ call' \in [Threads -> CallValues] /\ call'[t] = None
        /\ \A u \in Threads \ {t} : call'[u] = call[u]
    BY ZenonT(60), <2>1, CallValuesFacts, CallUpdate
  <2>3. Follows(t) /\ Stays(t)
    BY <1>2, <2>2 DEF Follows, Stays, InFlight
  <2> QED BY <2>2, <2>3, SameCall
<1> QED BY <1>1, <1>2

\* A call that is no turn in flight is given another value that is none.
LEMMA CallChange ==
  ASSUME TypeOK, NEW t \in Threads, NEW v \in CallValues, call' = [call EXCEPT ![t] = v],
         ~InFlight(t), v # None => v.stage \notin {"load", "commit", "release"}
  PROVE  /\ call' \in [Threads -> CallValues] /\ call'[t] = v
         /\ \A u \in Threads \ {t} : call'[u] = call[u]
         /\ \A u \in Threads : Follows(u) /\ Stays(u)
<1>1. /\ call' \in [Threads -> CallValues] /\ call'[t] = v
      /\ \A u \in Threads \ {t} : call'[u] = call[u]
  BY ZenonT(60), CallUpdate
<1>2. Follows(t) /\ Stays(t)
  BY <1>1 DEF Follows, Stays, InFlight
<1> QED BY <1>1, <1>2, SameCall

\* The initial state.
LEMMA InitInv == Init => Inv
<1> SUFFICES ASSUME Init PROVE Inv
  OBVIOUS
<1> QED
  BY NoneAssumption, BoundsAssumption DEF Inv, EnsureInv, Start, TurnInv, SoleInv, InFlight,
     TypeOK, EnsureValues, FileInit, FileTypeOK, Profiles, OwnedInv, Init, History, AdmittedInv,
     RowInv, LogInv, AnswerInv, PairInv

\* A thread is given a call.
LEMMA CallGiven ==
  ASSUME Inv, NEW t \in Threads, NEW v \in Turns \cup Privacy \cup Reads,
         call[t] = None, call' = [call EXCEPT ![t] = v],
         v.stage \notin {"load", "commit", "release"}, privacies' \in 0..MaxPrivacy,
         UNCHANGED <<file, storage, objects, closed, ensure, starts, admitted, answered, unreleased>>
  PROVE  Inv'
<1>0. TypeOK /\ EnsureInv
  BY DEF Inv
<1>1. v \in CallValues /\ v # None
  BY CallValuesFacts
<1>2. ~InFlight(t)
  BY DEF InFlight
<1>3. /\ call' \in [Threads -> CallValues] /\ call'[t] = v
      /\ \A u \in Threads \ {t} : call'[u] = call[u]
      /\ \A u \in Threads : Follows(u) /\ Stays(u)
  BY ZenonT(60), <1>0, <1>1, <1>2, CallChange
<1>4. EnsureInv'
  BY <1>0, <1>3, EnsureKept DEF EnsureInv, NeedsStorage
<1> QED BY <1>0, <1>3, MemoryTypes, QuietType, <1>4, QuietStep

\* A turn is sent.
LEMMA SendTurnStep ==
  ASSUME Inv, NEW t \in Threads, NEW r \in RequestIds, NEW m \in Messages, SendTurn(t, r, m)
  PROVE  Inv'
<1> DEFINE v == [stage |-> "admit", request |-> r, message |-> m,
                 execution |-> 0, generation |-> 0, store |-> None, loaded |-> None]
<1>1. v \in Turns /\ v.stage = "admit"
  BY DEF Turns, Executions
<1>2. /\ call[t] = None /\ call' = [call EXCEPT ![t] = v]
      /\ UNCHANGED <<file, storage, objects, closed, ensure, ghosts>>
  BY DEF SendTurn
<1> HIDE DEF v
<1>3. UNCHANGED <<file, storage, objects, closed, ensure, starts, admitted, answered, unreleased, privacies>>
  BY <1>2 DEF ghosts
<1>4. privacies' \in 0..MaxPrivacy
  BY <1>3, MemoryTypes DEF Inv
<1> QED
  BY ZenonT(60), <1>1, <1>2, <1>3, <1>4, CallGiven

\* A privacy operation is called for.
LEMMA CallPrivacyStep ==
  ASSUME Inv, NEW t \in Threads, NEW op \in PrivacyOps, CallPrivacy(t, op) PROVE Inv'
<1> DEFINE v == [stage |-> op]
<1>1. v \in Privacy /\ v.stage \notin {"load", "commit", "release"}
  BY DEF Privacy, PrivacyOps
<1>2. /\ call[t] = None /\ call' = [call EXCEPT ![t] = v]
      /\ privacies < MaxPrivacy /\ privacies' = privacies + 1
      /\ UNCHANGED <<file, storage, objects, closed, ensure, starts, admitted, answered, unreleased>>
  BY DEF CallPrivacy
<1> HIDE DEF v
<1>3. privacies' \in 0..MaxPrivacy
  BY MemoryTypes, <1>2, BoundsAssumption DEF Inv
<1> QED BY ZenonT(60), <1>1, <1>2, <1>3, CallGiven

\* A read is called for.
LEMMA CallReadStep ==
  ASSUME Inv, NEW t \in Threads, CallRead(t) PROVE Inv'
<1> DEFINE v == [stage |-> "read"]
<1>1. v \in Reads /\ v.stage = "read"
  BY DEF Reads
<1>2. /\ call[t] = None /\ call' = [call EXCEPT ![t] = v]
      /\ UNCHANGED <<file, storage, objects, closed, ensure, ghosts>>
  BY DEF CallRead
<1> HIDE DEF v
<1>3. UNCHANGED <<file, storage, objects, closed, ensure, starts, admitted, answered, unreleased, privacies>>
  BY <1>2 DEF ghosts
<1>4. privacies' \in 0..MaxPrivacy
  BY <1>3, MemoryTypes DEF Inv
<1> QED
  BY ZenonT(60), <1>1, <1>2, <1>3, <1>4, CallGiven

\* A call does not change, and a thread moves on in _ensure_storage.
LEMMA EnsureStep ==
  ASSUME Inv, NEW t \in Threads, Check(t) \/ Assign(t) PROVE Inv'
<1>0. TypeOK /\ EnsureInv
  BY DEF Inv
<1>1. ensure \in [Threads -> EnsureValues] /\ storage \in Objects \cup {None}
  BY <1>0, MemoryTypes
<1>2. /\ UNCHANGED <<file, objects, closed, call, starts, privacies, admitted, answered, unreleased>>
      /\ NeedsStorage(t) /\ storage' \in Objects \cup {None}
      /\ ensure' \in [Threads -> EnsureValues]
      /\ \A u \in Threads \ {t} : ensure'[u] = ensure[u]
  <2>1. CASE Check(t)
    <3> DEFINE v == [ensure[t] EXCEPT !.at = "open"]
    <3>1. v \in EnsureValues
      BY <1>1 DEF EnsureValues
    <3>2. ensure' = [ensure EXCEPT ![t] = v]
      BY <2>1 DEF Check
    <3> HIDE DEF v
    <3>3. /\ ensure' \in [Threads -> EnsureValues]
          /\ \A u \in Threads \ {t} : ensure'[u] = ensure[u]
      BY ZenonT(60), <1>0, <3>1, <3>2, EnsureUpdate
    <3> QED BY <1>1, <2>1, <3>3 DEF Check, ghosts
  <2>2. CASE Assign(t)
    <3> DEFINE v == [at |-> "return", opened |-> None]
    <3>1. v \in EnsureValues
      BY DEF EnsureValues
    <3>2. ensure' = [ensure EXCEPT ![t] = v] /\ ensure[t].at = "assign" /\ storage' = ensure[t].opened
      BY <2>2 DEF Assign
    <3> HIDE DEF v
    <3>3. /\ ensure' \in [Threads -> EnsureValues]
          /\ \A u \in Threads \ {t} : ensure'[u] = ensure[u]
      BY ZenonT(60), <1>0, <3>1, <3>2, EnsureUpdate
    <3> QED BY <1>0, <3>2, <1>1, <2>2, <3>3 DEF Assign, ghosts, EnsureValues, EnsureInv
  <2> QED BY <2>1, <2>2
<1>3. EnsureInv'
  BY <1>2, <1>0, EnsureKept DEF NeedsStorage
<1> QED BY <1>2, SameCall, <1>0, MemoryTypes, QuietType, <1>3, QuietStep

\* A turn fails, of its storage or of its provider.
LEMMA FailStep ==
  ASSUME Inv, NEW t \in Threads, StorageFails(t) \/ ProviderFails(t) PROVE Inv'
<1>0. TypeOK /\ EnsureInv
  BY DEF Inv
<1>1. /\ UNCHANGED <<file, storage, objects, closed, starts, privacies, admitted, answered, unreleased>>
      /\ FailTurn(t) /\ call[t] # None /\ call[t].stage # "release"
      /\ ensure' \in [Threads -> EnsureValues] /\ ensure'[t].at = "start"
      /\ \A u \in Threads \ {t} : ensure'[u] = ensure[u]
  BY <1>0, EnsuredUpdate, MemoryTypes DEF NeedsStorage, PrivacyOps, StorageFails, EnsureInv,
     Ready, ghosts, ProviderFails
<1>2. TypeOK'
  BY <1>0, <1>1, FailTurnUpdate, MemoryTypes, QuietType
<1> QED BY <1>0, <1>1, FailTurnUpdate, EnsureKept, <1>2, QuietStep

\* A turn reads the state it will be computed from.
LEMMA LoadStateStep ==
  ASSUME Inv, NEW t \in Threads, LoadState(t) PROVE Inv'
<1> DEFINE v == [[call[t] EXCEPT !.stage = "commit"] EXCEPT !.loaded = profile]
<1>0. TypeOK /\ EnsureInv
  BY DEF Inv
<1>1. /\ NeedsStorage(t) /\ call[t].stage = "load" /\ Ensured(t)
      /\ call' = [call EXCEPT ![t].stage = "commit", ![t].loaded = profile]
      /\ UNCHANGED <<file, storage, objects, closed, starts, privacies, admitted, answered, unreleased>>
  BY DEF LoadState, ghosts, Ready
<1>2. call[t] # None /\ call[t] \in Turns /\ profile \in Profiles
  BY <1>0, <1>1, TurnCall, FileTypes DEF NeedsStorage
<1>3. /\ v \in Turns /\ v.stage = "commit" /\ v.execution = call[t].execution
      /\ v.request = call[t].request /\ v.message = call[t].message
      /\ v.generation = call[t].generation /\ v.loaded = profile
  BY ZenonT(60), <1>2 DEF Turns
<1>4. call' = [call EXCEPT ![t] = v]
  <2>1. call \in [Threads -> CallValues]
    BY <1>0, MemoryTypes
  <2> QED BY ZenonT(60), <1>1, <2>1
<1> HIDE DEF v
<1>5. v \in CallValues /\ v # None
  BY <1>3, CallValuesFacts
<1>6. /\ call' \in [Threads -> CallValues] /\ call'[t] = v
      /\ \A u \in Threads \ {t} : call'[u] = call[u]
  BY ZenonT(60), <1>0, <1>4, <1>5, CallUpdate
<1>7. \A u \in Threads : Follows(u) /\ Stays(u)
  <2>1. Follows(t) /\ Stays(t)
    BY <1>1, <1>2, <1>3, <1>5, <1>6 DEF Follows, Stays, InFlight
  <2> QED BY <1>6, <2>1, SameCall
<1>8. TypeOK'
  BY <1>0, <1>1, EnsuredUpdate, <1>6, MemoryTypes, QuietType
<1>9. EnsureInv'
  BY <1>0, <1>1, EnsuredUpdate, <1>6, EnsureKept
<1> QED BY <1>1, <1>7, <1>8, <1>9, QuietStep

\* A read ends.
LEMMA ReadStoreStep ==
  ASSUME Inv, NEW t \in Threads, ReadStore(t) PROVE Inv'
<1>0. TypeOK /\ EnsureInv
  BY DEF Inv
<1>1. /\ call[t].stage = "read" /\ Ensured(t) /\ call' = [call EXCEPT ![t] = None]
      /\ UNCHANGED <<file, storage, objects, closed, starts, privacies, admitted, answered, unreleased>>
  BY DEF ReadStore, ghosts
<1>2. ~InFlight(t)
  BY <1>1 DEF InFlight
<1>3. /\ call' \in [Threads -> CallValues] /\ call'[t] = None
      /\ \A u \in Threads \ {t} : call'[u] = call[u]
      /\ \A u \in Threads : Follows(u) /\ Stays(u)
  BY ZenonT(60), <1>0, <1>1, <1>2, CallValuesFacts, CallChange
<1>4. TypeOK'
  BY <1>0, <1>1, EnsuredUpdate, <1>3, MemoryTypes, QuietType
<1> QED BY <1>0, <1>1, EnsuredUpdate, <1>3, EnsureKept, <1>4, QuietStep

\* The store is closed under the threads that use it.
LEMMA CloseStep ==
  ASSUME Inv, Close PROVE Inv'
<1>0. TypeOK /\ EnsureInv
  BY DEF Inv
<1> QED
  BY SameCall, <1>0, MemoryTypes, QuietType, QuietStep DEF EnsureInv, NeedsStorage, Close,
     ghosts

\* The process ends and is started again on the same file.
LEMMA RestartStep ==
  ASSUME Inv, Restart PROVE Inv'
<1> HIDE DEF Start
<1>1. TypeOK'
  BY MemoryTypes, BoundsAssumption, CallValuesFacts, QuietType DEF Inv, Start, EnsureValues,
     LeftOvers, Restart
<1> QED
  BY CallValuesFacts, <1>1, QuietStep DEF EnsureInv, Start, EnsureValues, Follows, InFlight,
     Restart

-----------------------------------------------------------------------------
(* Steps on the file.                                                      *)

\* The kinds of rows.
LEMMA RowKinds ==
  ASSUME TypeOK, NEW r \in RequestIds
  PROVE  /\ (requests[r] # None /\ requests[r].status = "pending") <=> requests[r] \in Pending
         /\ (requests[r] # None /\ requests[r].status = "completed") <=> requests[r] \in Completed
<1> QED BY NoneAssumption, FileTypes DEF Pending, Completed, Failed

\* The values of rows.
LEMMA RowValues ==
  /\ \A g \in Nat : Reserved(g) \in Pending /\ Reserved(g) # None /\ Reserved(g).marker = g
  /\ \A p \in Pending : p = Reserved(p.marker) /\ p \notin Completed /\ p # None
  /\ \A m \in Messages, x \in Nat :
       /\ CompletedRow(m, x) \in Completed /\ CompletedRow(m, x) # None
       /\ CompletedRow(m, x).reply = x /\ CompletedRow(m, x).message = m
  /\ \A p \in Completed : p = CompletedRow(p.message, p.reply) /\ p \notin Pending /\ p # None
  /\ Failed \notin Pending /\ Failed \notin Completed /\ Failed # None
  /\ None \notin Pending /\ None \notin Completed
<1> QED
  BY NoneAssumption DEF Reserved, Pending, CompletedRow, Completed, Executions, Failed

\* A pending row is a reservation of the current generation.
LEMMA PendingRow ==
  ASSUME History, NEW r \in RequestIds, requests[r] \in Pending
  PROVE  requests[r] = Reserved(generation)
<1> QED BY RowValues DEF History, RowInv

\* No turn is admitted.
LEMMA GrownSame ==
  ASSUME TypeOK, History, UNCHANGED <<admitted, generation>> PROVE Grown
<1> QED BY FileTypes DEF Grown, History, AdmittedInv

\* A step on the file within a generation that admits no turn.
LEMMA FileStep ==
  ASSUME Inv, TypeOK', EnsureInv', HistoryGrows, ProfileMoves, OwnedInv',
         \A t \in Threads : Follows(t),
         \A t \in Threads : (InFlight(t) /\ InFlight(t)' /\ call[t].generation = generation) =>
           requests'[call[t].request] # None
  PROVE  Inv'
<1>1. \A t \in Threads : TurnInv(t)'
  BY TurnKept DEF HistoryGrows, Inv
<1> QED BY SoleKept, HistoryKept, <1>1 DEF Inv

\* The store is opened, and pending rows become failed.
LEMMA OpenStep ==
  ASSUME Inv, NEW t \in Threads, Open(t) PROVE Inv'
<1> DEFINE v == [at |-> "assign", opened |-> objects + 1]
<1>0. TypeOK /\ EnsureInv /\ History /\ \A u \in Threads : TurnInv(u)
  BY DEF Inv
<1>1. /\ ensure[t].at = "open" /\ objects < MaxObjects /\ objects' = objects + 1
      /\ ensure' = [ensure EXCEPT ![t] = v] /\ Recover
      /\ unreleased' = {}
      /\ UNCHANGED <<storage, closed, call, starts, privacies, admitted, answered>>
  BY DEF Open
<1>2. objects' \in 0..MaxObjects /\ objects + 1 \in Objects
  BY <1>1, BoundsAssumption, <1>0, MemoryTypes DEF Objects
<1>3. v \in EnsureValues
  BY <1>2 DEF EnsureValues
<1> HIDE DEF v
<1>4. /\ ensure' \in [Threads -> EnsureValues]
      /\ \A u \in Threads \ {t} : ensure'[u] = ensure[u]
  BY ZenonT(60), <1>0, <1>1, <1>3, EnsureUpdate
<1>5. \A r \in RequestIds : requests'[r] = IF requests[r] \in Pending THEN Failed ELSE requests[r]
  BY <1>0, <1>1, RowKinds DEF Recover
<1>6. UNCHANGED <<profile, chatLogs, generation>>
  BY <1>1 DEF Recover
<1>7. TypeOK'
  <2>1. requests' \in [RequestIds -> Pending \cup Completed \cup {Failed, None}]
    BY <1>1, <1>0, FileTypes, <1>5 DEF Recover
  <2>2. FileTypeOK'
    BY <1>0, <1>6, <2>1 DEF TypeOK, FileTypeOK
  <2> QED BY <1>0, <1>1, <1>2, <1>4, <2>2 DEF TypeOK, EnsureValues
<1>8. EnsureInv'
  BY <1>0, <1>1, <1>4, EnsureKept DEF EnsureInv, NeedsStorage
<1>9. HistoryGrows
  <2>1. \A r \in RequestIds : /\ requests[r] \in Completed => requests'[r] = requests[r]
                              /\ requests'[r] \in Completed => requests'[r] = requests[r]
                              /\ requests'[r] \notin Pending
    BY <1>5, RowValues
  <2> QED BY <1>0, <1>1, <1>6, GrownSame, <2>1 DEF HistoryGrows
<1>10. OwnedInv'
  BY <1>5, RowValues DEF OwnedInv
<1>11. \A u \in Threads : Follows(u)
  BY <1>1, SameCall
<1>12. \A u \in Threads : (InFlight(u) /\ call[u].generation = generation) =>
         requests'[call[u].request] # None
  <2> SUFFICES ASSUME NEW u \in Threads, InFlight(u), call[u].generation = generation
               PROVE  requests'[call[u].request] # None
    OBVIOUS
  <2>1. requests[call[u].request] # None
    BY <1>0 DEF TurnInv
  <2>2. call[u].request \in RequestIds
    BY <1>0, TurnCall DEF InFlight
  <2> QED BY <1>5, <2>1, <2>2, RowValues
<1> QED BY <1>6, <1>7, <1>8, <1>9, <1>10, <1>11, <1>12, FileStep DEF ProfileMoves

\* A turn in flight is a turn, and its thread does not ask for the store.
LEMMA FlightFacts ==
  ASSUME Inv, NEW t \in Threads, call[t] # None, call[t].stage \in {"commit", "release"}
  PROVE  /\ InFlight(t) /\ call[t] \in Turns /\ ensure[t].at = "start"
         /\ call[t].request \in RequestIds /\ call[t].message \in Messages
         /\ call[t].execution \in Nat /\ call[t].generation \in Nat
<1>1. ~NeedsStorage(t)
  BY DEF NeedsStorage, PrivacyOps
<1> QED
  BY <1>1, TurnCall DEF Inv, EnsureInv, InFlight

\* A turn leaves, and its call with it.
LEMMA CallEnds ==
  ASSUME TypeOK, NEW t \in Threads, call' = [call EXCEPT ![t] = None]
  PROVE  /\ call' \in [Threads -> CallValues] /\ ~InFlight(t)' /\ call'[t] = None
         /\ \A u \in Threads \ {t} : call'[u] = call[u] /\ Follows(u) /\ Stays(u)
         /\ \A u \in Threads : Follows(u)
<1>1. /\ call' \in [Threads -> CallValues] /\ call'[t] = None
      /\ \A u \in Threads \ {t} : call'[u] = call[u]
  BY ZenonT(60), CallValuesFacts, CallUpdate
<1>2. Follows(t)
  BY <1>1 DEF Follows, InFlight
<1> QED BY <1>1, <1>2, SameCall DEF InFlight

\* A failed turn lets its request go, or fails to.
LEMMA ReleaseStep ==
  ASSUME Inv, NEW t \in Threads, Release(t) PROVE Inv'
<1> DEFINE r == call[t].request
           g == call[t].generation
<1>0. TypeOK /\ EnsureInv /\ History /\ SoleInv /\ OwnedInv /\ \A u \in Threads : TurnInv(u)
  BY DEF Inv
<1>1. /\ call[t] # None /\ call[t].stage = "release"
      /\ call' = [call EXCEPT ![t] = None]
      /\ UNCHANGED <<storage, objects, closed, ensure, starts, privacies, admitted, answered>>
  BY DEF Release
<1>2. InFlight(t) /\ ensure[t].at = "start" /\ r \in RequestIds /\ g \in Nat
  BY <1>1, FlightFacts
<1>3. UNCHANGED <<profile, chatLogs, generation>>
  BY DEF Release, release_request, file
<1>4. /\ \/ requests' = requests
         \/ requests[r] = Reserved(g) /\ requests' = [requests EXCEPT ![r] = None]
      /\ \/ unreleased' = unreleased /\ (requests[r] = Reserved(g) => requests' = [requests EXCEPT ![r] = None])
         \/ unreleased' = unreleased \cup {[request |-> r, generation |-> g]}
  BY DEF Release, release_request, Releases, file
<1>5. /\ call' \in [Threads -> CallValues] /\ ~InFlight(t)' /\ call'[t] = None
      /\ \A u \in Threads \ {t} : call'[u] = call[u] /\ Follows(u) /\ Stays(u)
      /\ \A u \in Threads : Follows(u)
  BY ZenonT(60), <1>0, <1>1, CallEnds
<1> HIDE DEF r, g
<1>6. requests \in [RequestIds -> Pending \cup Completed \cup {Failed, None}] /\ generation \in Nat
  BY <1>0, FileTypes
<1>7. \A q \in RequestIds :
        \/ requests'[q] = requests[q]
        \/ q = r /\ requests[q] = Reserved(g) /\ requests'[q] = None
  BY <1>2, <1>4, <1>6
<1>8. TypeOK'
  <2>1. requests' \in [RequestIds -> Pending \cup Completed \cup {Failed, None}]
    BY <1>2, <1>4, <1>6
  <2>2. FileTypeOK'
    BY <1>0, <1>3, <2>1 DEF TypeOK, FileTypeOK
  <2>3. [request |-> r, generation |-> g] \in [request : RequestIds, generation : Nat]
    BY <1>2
  <2>4. unreleased' \in SUBSET [request : RequestIds, generation : Nat]
    BY <1>0, <1>4, <2>3 DEF TypeOK
  <2> QED BY <1>0, <1>1, <1>5, <2>2, <2>4 DEF TypeOK, CallValues
<1>9. EnsureInv'
  BY <1>0, <1>1, <1>2, <1>5, EnsureKept
<1>10. /\ Reserved(g) \in Pending /\ Reserved(g) \notin Completed /\ Reserved(g).marker = g
       /\ None \notin Pending /\ None \notin Completed
  BY <1>2, RowValues
<1>11. HistoryGrows
  <2>1. Grown
    BY <1>0, <1>1, <1>3, GrownSame
  <2>2. \A q \in RequestIds : requests'[q] \in Pending => requests'[q].marker = generation
    BY <1>7, <1>10, <1>0 DEF History, RowInv
  <2> QED BY <1>7, <1>10, <1>1, <1>3, <2>1, <2>2 DEF HistoryGrows
<1>12. requests[r] = Reserved(g) => g = generation
  BY <1>0, <1>2, <1>10 DEF History, RowInv
<1>13. ASSUME NEW u \in Threads, InFlight(u), InFlight(u)', call[u].generation = generation
       PROVE  requests'[call[u].request] # None
  <2>1. requests[call[u].request] # None /\ u # t
    BY <1>0, <1>5, <1>13 DEF TurnInv
  <2>2. call[u].request \in RequestIds
    BY <1>0, <1>13, TurnCall DEF InFlight
  <2>3. ~(call[u].request = r /\ g = generation)
    BY <1>0, <1>2, <1>13, <2>1 DEF SoleInv, r, g
  <2> QED BY <1>7, <1>12, <2>1, <2>2, <2>3
<1>14. OwnedInv'
  <2> SUFFICES ASSUME objects' > 0, NEW q \in RequestIds, requests'[q] \in Pending
               PROVE  (\E u \in Threads : Live(u)' /\ call'[u].request = q) \/ LeftOver(q)'
    BY DEF OwnedInv
  <2>1. unreleased \subseteq unreleased' /\ requests[q] \in Pending
    BY <1>4, <1>7, <1>10
  <2>2. CASE LeftOver(q)
    BY <1>3, <2>1, <2>2 DEF LeftOver
  <2>3. CASE ~LeftOver(q)
    <3>1. PICK u \in Threads : Live(u) /\ call[u].request = q
      BY <1>0, <1>1, <2>1, <2>3 DEF OwnedInv
    <3>2. CASE u # t
      BY <1>3, <1>5, <3>1, <3>2 DEF Live
    <3>3. CASE u = t
      <4>1. q = r /\ g = generation
        BY <3>1, <3>3 DEF Live, r, g
      <4>2. requests[r] = Reserved(g)
        BY <1>0, <1>2, <2>1, <4>1, PendingRow
      <4>3. requests' # [requests EXCEPT ![r] = None]
        BY <1>2, <1>6, <1>10, <4>1
      <4>4. unreleased' = unreleased \cup {[request |-> r, generation |-> g]}
        BY <1>4, <4>2, <4>3
      <4> QED BY <1>3, <4>1, <4>4 DEF LeftOver
    <3> QED BY <3>2, <3>3
  <2> QED BY <2>2, <2>3
<1> QED BY <1>3, <1>5, <1>8, <1>9, <1>11, <1>13, <1>14, FileStep DEF ProfileMoves

\* A commit that is refused, or finds its store closed.
LEMMA CommitFailsStep ==
  ASSUME Inv, NEW t \in Threads, call[t] # None, call[t].stage = "commit", FailTurn(t),
         UNCHANGED <<file, storage, objects, closed, ensure, starts, privacies, admitted, answered, unreleased>>
  PROVE  Inv'
<1>0. TypeOK /\ EnsureInv
  BY DEF Inv
<1>1. EnsureInv'
  BY <1>0, FailTurnUpdate, FlightFacts, EnsureKept
<1> QED BY <1>0, FailTurnUpdate, MemoryTypes, QuietType, <1>1, QuietStep

\* What a commit writes when its reservation and its revision still stand.
LEMMA CommittedWrites ==
  ASSUME NEW r, NEW m, NEW x, NEW g, NEW ld, commit_turn(r, m, x, g, ld),
         CommitDecision(r, g, ld.revision) = "committed"
  PROVE  /\ profile' = [revision |-> profile.revision + 1, emotional |-> Append(ld.emotional, x),
                        relationship |-> Append(ld.relationship, x)]
         /\ requests' = [requests EXCEPT ![r] = CompletedRow(m, x)]
         /\ chatLogs' = chatLogs \cup {x} /\ generation' = generation
  BY ZenonT(60) DEF commit_turn, CompletedRow

\* A commit whose reservation and revision still stand.
LEMMA CommittedStep ==
  ASSUME Inv, NEW t \in Threads, Commit(t), Usable(call[t].store),
         CommitDecision(call[t].request, call[t].generation, call[t].loaded.revision) = "committed"
  PROVE  Inv'
<1> DEFINE r == call[t].request
           m == call[t].message
           x == call[t].execution
           g == call[t].generation
           ld == call[t].loaded
           a == [request |-> r, message |-> m, reply |-> x]
<1>0. TypeOK /\ EnsureInv /\ History /\ OwnedInv /\ \A u \in Threads : TurnInv(u)
  BY DEF Inv
<1>1. /\ call[t] # None /\ call[t].stage = "commit" /\ commit_turn(r, m, x, g, ld)
      /\ call' = [call EXCEPT ![t] = None] /\ answered' = answered \cup {a}
      /\ UNCHANGED <<storage, objects, closed, ensure, starts, privacies, admitted, unreleased>>
  BY DEF Commit
<1>2. /\ InFlight(t) /\ ensure[t].at = "start" /\ r \in RequestIds /\ m \in Messages
      /\ x \in Nat /\ g \in Nat
  BY <1>1, FlightFacts
<1>3. ld \in Profiles /\ AdmittedFor(x, r, m, g)
  BY ZenonT(60), <1>0, <1>1, <1>2 DEF TurnInv
<1>4. /\ profile' = [revision |-> profile.revision + 1, emotional |-> Append(ld.emotional, x),
                     relationship |-> Append(ld.relationship, x)]
      /\ requests' = [requests EXCEPT ![r] = CompletedRow(m, x)]
      /\ chatLogs' = chatLogs \cup {x} /\ generation' = generation
  BY ZenonT(60), <1>1, CommittedWrites
<1>5. g = generation /\ requests[r] = Reserved(g)
  BY DEF CommitDecision
<1>6. a.request = r /\ a.message = m /\ a.reply = x
      /\ a \in [request : RequestIds, message : Messages, reply : Executions]
  BY ZenonT(60), <1>2 DEF Executions
<1> HIDE DEF r, m, x, g, ld, a
<1>7. /\ requests \in [RequestIds -> Pending \cup Completed \cup {Failed, None}]
      /\ profile \in Profiles
  BY <1>0, FileTypes
<1>8. /\ CompletedRow(m, x) \in Completed /\ CompletedRow(m, x) \notin Pending
      /\ CompletedRow(m, x) # None /\ CompletedRow(m, x).reply = x /\ CompletedRow(m, x).message = m
      /\ Reserved(g) \notin Completed
  BY <1>2, RowValues
<1>9. requests'[r] = CompletedRow(m, x) /\ \A q \in RequestIds \ {r} : requests'[q] = requests[q]
  BY <1>2, <1>4, <1>7
<1>10. /\ call' \in [Threads -> CallValues] /\ ~InFlight(t)' /\ call'[t] = None
       /\ \A u \in Threads \ {t} : call'[u] = call[u] /\ Follows(u) /\ Stays(u)
       /\ \A u \in Threads : Follows(u)
  BY ZenonT(60), <1>0, <1>1, CallEnds
<1>11. profile' \in Profiles /\ profile.revision < profile'.revision
  <2>1. profile.revision + 1 \in Nat /\ profile.revision < profile.revision + 1
    BY <1>3, <1>7 DEF Profiles, Executions
  <2>2. Append(ld.emotional, x) \in Seq(Nat) /\ Append(ld.relationship, x) \in Seq(Nat)
    BY <1>3, <1>7, <1>2, SeqAppend DEF Profiles, Executions
  <2> QED BY <1>4, <2>1, <2>2 DEF Profiles, Executions
<1>12. TypeOK'
  <2>1. requests' \in [RequestIds -> Pending \cup Completed \cup {Failed, None}]
    BY ZenonT(60), <1>2, <1>4, <1>7, <1>8
  <2>2. chatLogs' \in SUBSET Executions /\ generation' \in Nat
    BY <1>0, <1>2, <1>4 DEF TypeOK, FileTypeOK, Executions
  <2>3. FileTypeOK'
    BY <1>11, <2>1, <2>2 DEF FileTypeOK
  <2>4. answered' \in SUBSET [request : RequestIds, message : Messages, reply : Executions]
    BY <1>0, <1>1, <1>6 DEF TypeOK
  <2> QED BY <1>0, <1>1, <1>10, <2>3, <2>4 DEF TypeOK, CallValues
<1>13. EnsureInv'
  BY ZenonT(60), <1>0, <1>1, <1>2, <1>10, EnsureKept
<1>14. HistoryGrows
  <2>1. Grown
    BY <1>0, <1>1, <1>4, GrownSame
  <2>2. /\ requests'[r].reply \in 1..Len(admitted')
        /\ admitted'[requests'[r].reply] =
             [request |-> r, message |-> requests'[r].message, generation |-> generation']
    <3>1. requests'[r].reply = x /\ requests'[r].message = m
      BY <1>8, <1>9
    <3>2. x \in 1..Len(admitted) /\ admitted[x] = [request |-> r, message |-> m, generation |-> generation]
      BY <1>3, <1>5 DEF AdmittedFor
    <3> QED BY <1>1, <1>4, <3>1, <3>2
  <2>3. \A q \in RequestIds : requests[q] \in Completed => requests'[q] = requests[q]
    BY <1>5, <1>8, <1>9
  <2>4. \A q \in RequestIds : requests'[q] \in Completed =>
          requests'[q] = requests[q] \/ AdmittedFor(requests[q].reply, q, requests[q].message, generation)'
    <3> SUFFICES ASSUME NEW q \in RequestIds, q = r
                 PROVE  AdmittedFor(requests[q].reply, q, requests[q].message, generation)'
      BY <1>9
    <3> QED BY ZenonT(60), <2>2 DEF AdmittedFor
  <2>5. \A q \in RequestIds : requests'[q] \in Pending => requests'[q].marker = generation
    BY <1>0, <1>8, <1>9 DEF History, RowInv
  <2>6. \A y \in chatLogs' : \/ y \in chatLogs
                             \/ \E q \in RequestIds : requests'[q] \in Completed /\ requests'[q].reply = y
    BY ZenonT(60), <1>2, <1>4, <1>8, <1>9
  <2>7. \A b \in answered' : b \in answered \/ requests'[b.request] = CompletedRow(b.message, b.reply)
    BY ZenonT(60), <1>1, <1>6, <1>9
  <2> QED BY ZenonT(60), <1>4, <2>1, <2>3, <2>4, <2>5, <2>6, <2>7 DEF HistoryGrows
<1>15. OwnedInv'
  <2>1. \A q \in RequestIds : requests'[q] \in Pending => q # r /\ requests[q] \in Pending
    BY ZenonT(60), <1>8, <1>9
  <2>2. \A q \in RequestIds, u \in Threads :
          (requests'[q] \in Pending /\ Live(u) /\ call[u].request = q) => Stays(u)
    BY <1>10, <2>1 DEF r
  <2> QED BY ZenonT(60), <1>0, <1>1, <1>4, <2>1, <2>2, OwnedKept
<1>16. ASSUME NEW u \in Threads, InFlight(u), call[u].generation = generation
       PROVE  requests'[call[u].request] # None
  <2>1. requests[call[u].request] # None
    BY <1>0, <1>16 DEF TurnInv
  <2>2. call[u].request \in RequestIds
    BY <1>0, <1>16, TurnCall DEF InFlight
  <2> QED BY <1>8, <1>9, <2>1, <2>2
<1> QED BY ZenonT(60), <1>10, <1>11, <1>12, <1>13, <1>14, <1>15, <1>16, FileStep DEF ProfileMoves

\* A turn is committed, or fails to be.
LEMMA CommitStep ==
  ASSUME Inv, NEW t \in Threads, Commit(t) PROVE Inv'
<1> DEFINE committed == Usable(call[t].store) /\
             CommitDecision(call[t].request, call[t].generation, call[t].loaded.revision) = "committed"
<1>1. CASE committed
  BY <1>1, CommittedStep
<1>2. CASE ~committed
  <2>1. /\ call[t] # None /\ call[t].stage = "commit" /\ FailTurn(t)
        /\ UNCHANGED <<file, storage, objects, closed, ensure, starts, privacies, admitted, answered, unreleased>>
    BY <1>2 DEF Commit, commit_turn
  <2> QED
    BY <2>1, CommitFailsStep
<1> QED
  BY <1>1, <1>2

\* A request that is refused, or answered from its completed row.
LEMMA NotAdmittedStep ==
  ASSUME Inv, NEW t \in Threads, Admit(t),
         ReserveDecision(call[t].request, call[t].message) # "reserved"
  PROVE  Inv'
<1> DEFINE r == call[t].request
           m == call[t].message
           replay == ReserveDecision(r, m) = "replay"
           a == Replayed(t)
<1>0. TypeOK /\ EnsureInv /\ History /\ OwnedInv /\ \A u \in Threads : TurnInv(u)
  BY DEF Inv
<1>1. /\ NeedsStorage(t) /\ call[t].stage = "admit" /\ Ensured(t)
      /\ call' = [call EXCEPT ![t] = None] /\ UNCHANGED file
      /\ answered' = IF replay THEN answered \cup {a} ELSE answered
      /\ UNCHANGED <<storage, objects, closed, starts, privacies, admitted, unreleased>>
  BY DEF Admit, Ready, reserve_request
<1>2. call[t] # None /\ r \in RequestIds /\ m \in Messages
  BY ZenonT(60), <1>0, <1>1, TurnCall DEF NeedsStorage
<1>3. UNCHANGED <<profile, requests, chatLogs, generation>>
  BY <1>1 DEF file
<1>4. replay => requests[r] \in Completed /\ requests[r].message = m
  BY <1>0, <1>2, RowKinds DEF ReserveDecision
<1>5. replay => /\ a \in [request : RequestIds, message : Messages, reply : Executions]
                /\ requests[a.request] = CompletedRow(a.message, a.reply)
  <2> SUFFICES ASSUME replay
               PROVE  /\ a \in [request : RequestIds, message : Messages, reply : Executions]
                      /\ requests[a.request] = CompletedRow(a.message, a.reply)
    OBVIOUS
  <2>1. a.request = r /\ a.message = m /\ a.reply = requests[r].reply
    BY DEF Replayed
  <2>2. requests[r] = CompletedRow(m, requests[r].reply)
    BY <1>4, RowValues
  <2>3. a \in [request : RequestIds, message : Messages, reply : Executions]
    BY <1>4, <1>2 DEF Replayed, Completed
  <2> QED BY <2>1, <2>2, <2>3
<1> HIDE DEF r, m, replay, a
<1>6. ~InFlight(t)
  BY <1>1 DEF InFlight
<1>7. /\ call' \in [Threads -> CallValues] /\ call'[t] = None
      /\ \A u \in Threads \ {t} : call'[u] = call[u]
      /\ \A u \in Threads : Follows(u) /\ Stays(u)
  BY ZenonT(60), <1>0, <1>1, <1>6, CallValuesFacts, CallChange
<1>8. /\ ensure' \in [Threads -> EnsureValues] /\ ensure'[t].at = "start"
      /\ \A u \in Threads \ {t} : ensure'[u] = ensure[u]
  BY <1>0, <1>1, EnsuredUpdate
<1>9. TypeOK'
  <2>1. FileTypeOK'
    BY <1>0, <1>3 DEF TypeOK, FileTypeOK
  <2>2. answered' \in SUBSET [request : RequestIds, message : Messages, reply : Executions]
    BY <1>0, <1>1, <1>5 DEF TypeOK
  <2> QED BY <1>0, <1>1, <1>7, <1>8, <2>1, <2>2 DEF TypeOK, CallValues, EnsureValues
<1>10. EnsureInv'
  BY ZenonT(60), <1>0, <1>7, <1>8, EnsureKept
<1>11. HistoryGrows
  <2>1. Grown
    BY <1>0, <1>1, <1>3, GrownSame
  <2>2. \A b \in answered' : b \in answered \/ requests'[b.request] = CompletedRow(b.message, b.reply)
    BY <1>1, <1>3, <1>5
  <2> QED BY <1>0, <1>3, <2>1, <2>2 DEF HistoryGrows, History, RowInv
<1>12. OwnedInv'
  BY <1>0, <1>1, <1>3, <1>7, OwnedKept
<1>13. \A u \in Threads : (InFlight(u) /\ call[u].generation = generation) =>
         requests'[call[u].request] # None
  BY <1>0, <1>3 DEF TurnInv
<1> QED BY ZenonT(60), <1>3, <1>7, <1>9, <1>10, <1>11, <1>12, <1>13, FileStep DEF ProfileMoves

\* One more execution is admitted.
LEMMA OneMoreAdmitted ==
  ASSUME TypeOK, History, NEW p \in [request : RequestIds, message : Messages, generation : Nat],
         p.generation = generation, generation' = generation, admitted' = Append(admitted, p)
  PROVE  /\ Grown /\ admitted' \in Seq([request : RequestIds, message : Messages, generation : Nat])
         /\ Len(admitted) + 1 \in 1..Len(admitted') /\ admitted'[Len(admitted) + 1] = p
<1> DEFINE A == [request : RequestIds, message : Messages, generation : Nat]
<1>1. admitted \in Seq(A) /\ p \in A /\ generation \in Nat
  BY FileTypes DEF TypeOK
<1> HIDE DEF A
<1>2. ASSUME NEW y \in 1..Len(admitted') PROVE admitted'[y].generation <= generation'
  BY <1>1, SeqAppend, FileTypes, PlusOne DEF AdmittedInv, History
<1> QED BY <1>1, SeqAppend, <1>2, FileTypes, PlusOne DEF Grown, A, AdmittedInv

\* A request is reserved, and its turn is in flight.
LEMMA AdmittedStep ==
  ASSUME Inv, NEW t \in Threads, Admit(t),
         ReserveDecision(call[t].request, call[t].message) = "reserved"
  PROVE  Inv'
<1> DEFINE r == call[t].request
           m == call[t].message
           x == Len(admitted) + 1
           p == [request |-> r, message |-> m, generation |-> generation]
           v == [[[[call[t] EXCEPT !.stage = "load"] EXCEPT !.execution = x]
                   EXCEPT !.generation = generation] EXCEPT !.store = storage]
<1>0. TypeOK /\ EnsureInv /\ History /\ SoleInv /\ OwnedInv /\ \A u \in Threads : TurnInv(u)
  BY DEF Inv
<1>1. /\ NeedsStorage(t) /\ storage # None /\ call[t].stage = "admit" /\ Ensured(t)
      /\ requests' = [requests EXCEPT ![r] = Reserved(generation)]
      /\ admitted' = Append(admitted, p)
      /\ UNCHANGED <<profile, chatLogs, generation, storage, objects, closed, starts, privacies, answered, unreleased>>
  BY DEF Admit, Ready, reserve_request
<1>2. call' = [call EXCEPT ![t].stage = "load", ![t].execution = x,
                           ![t].generation = generation, ![t].store = storage]
  BY DEF Admit
<1>3. call[t] # None /\ call[t] \in Turns /\ r \in RequestIds /\ m \in Messages
  BY <1>0, <1>1, TurnCall DEF NeedsStorage
<1>4. /\ generation \in Nat /\ x \in Nat /\ storage \in Objects
      /\ requests \in [RequestIds -> Pending \cup Completed \cup {Failed, None}]
  <2>1. storage \in Objects
    BY <1>0, <1>1, MemoryTypes
  <2> QED BY <1>0, FileTypes, <2>1
<1>5. /\ v \in Turns /\ v.stage = "load" /\ v.execution = x /\ v.generation = generation
      /\ v.request = r /\ v.message = m
  BY ZenonT(60), <1>3, <1>4 DEF Turns, Executions
<1>6. call' = [call EXCEPT ![t] = v]
  <2>1. call \in [Threads -> CallValues]
    BY <1>0, MemoryTypes
  <2> QED BY ZenonT(60), <1>2, <2>1
<1>7. requests[r] = None
  BY DEF ReserveDecision
<1>8. p \in [request : RequestIds, message : Messages, generation : Nat] /\ p.generation = generation
  BY <1>3, <1>4
<1>9. p = [request |-> r, message |-> m, generation |-> generation]
  OBVIOUS
<1> HIDE DEF r, m, x, p, v
<1>10. v \in CallValues /\ v # None
  BY <1>5, CallValuesFacts
<1>11. /\ call' \in [Threads -> CallValues] /\ call'[t] = v
       /\ \A u \in Threads \ {t} : call'[u] = call[u]
  BY ZenonT(60), <1>0, <1>6, <1>10, CallUpdate
<1>12. \A u \in Threads \ {t} : Follows(u) /\ Stays(u)
  BY <1>11, SameCall
<1>13. /\ ensure' \in [Threads -> EnsureValues] /\ ensure'[t].at = "start"
       /\ \A u \in Threads \ {t} : ensure'[u] = ensure[u]
  BY <1>0, <1>1, EnsuredUpdate
<1>14. /\ admitted' \in Seq([request : RequestIds, message : Messages, generation : Nat])
       /\ Grown /\ x \in 1..Len(admitted') /\ admitted'[x] = p
  BY ZenonT(60), <1>0, <1>1, <1>8, OneMoreAdmitted DEF x
<1>15. /\ requests'[r] = Reserved(generation) /\ \A q \in RequestIds \ {r} : requests'[q] = requests[q]
       /\ Reserved(generation) \in Pending /\ Reserved(generation) \notin Completed
       /\ Reserved(generation) # None /\ Reserved(generation).marker = generation
       /\ None \notin Completed
  <2>1. requests'[r] = Reserved(generation) /\ \A q \in RequestIds \ {r} : requests'[q] = requests[q]
    BY <1>1, <1>3, <1>4
  <2> QED BY <1>4, <2>1, RowValues
<1>16. TypeOK'
  <2>1. requests' \in [RequestIds -> Pending \cup Completed \cup {Failed, None}]
    BY ZenonT(60), <1>1, <1>3, <1>4, <1>15
  <2>2. FileTypeOK'
    BY <1>0, <1>1, <2>1 DEF TypeOK, FileTypeOK
  <2> QED BY <1>0, <1>1, <1>11, <1>13, <1>14, <2>2 DEF TypeOK, CallValues, EnsureValues
<1>17. EnsureInv'
  BY <1>0, <1>11, <1>13, EnsureKept
<1>18. History'
  <2>1. \A q \in RequestIds : /\ requests[q] \in Completed => requests'[q] = requests[q]
                              /\ requests'[q] \in Completed => requests'[q] = requests[q]
    BY <1>7, <1>15
  <2>2. \A q \in RequestIds : requests'[q] \in Pending => requests'[q].marker = generation
    BY <1>0, <1>15 DEF History, RowInv
  <2>3. HistoryGrows
    BY ZenonT(60), <1>1, <1>14, <2>1, <2>2 DEF HistoryGrows
  <2> QED BY <1>0, <1>16, <2>3, HistoryKept
<1>19. ASSUME NEW u \in Threads PROVE TurnInv(u)'
  <2>1. CASE u = t
    <3>1. generation <= generation
      BY <1>4
    <3>2. AdmittedFor(call[t].execution, call[t].request, call[t].message, call[t].generation)'
      BY ZenonT(60), <1>5, <1>9, <1>11, <1>14 DEF AdmittedFor
    <3>3. /\ call'[t].generation <= generation' /\ call'[t].stage # "commit"
          /\ requests'[call'[t].request] # None
      BY ZenonT(60), <1>1, <1>5, <1>11, <1>15, <3>1
    <3> QED BY <2>1, <3>2, <3>3 DEF TurnInv
  <2>2. CASE u # t
    <3>1. InFlight(u) /\ call[u].generation = generation => requests'[call[u].request] # None
      <4> SUFFICES ASSUME InFlight(u), call[u].generation = generation
                   PROVE  requests'[call[u].request] # None
        OBVIOUS
      <4>1. requests[call[u].request] # None
        BY <1>0 DEF TurnInv
      <4>2. call[u].request \in RequestIds
        BY <1>0, TurnCall DEF InFlight
      <4> QED BY <1>15, <4>1, <4>2
    <3>2. generation' = generation /\ ProfileMoves
      BY <1>1 DEF ProfileMoves
    <3> QED BY ZenonT(60), <1>0, <1>12, <1>14, <1>16, <2>2, <3>1, <3>2, TurnKept
  <2> QED BY <2>1, <2>2
<1>20. SoleInv'
  <2>1. ASSUME NEW u \in Threads \ {t}, InFlight(u), call[u].request = r, call[u].generation = generation
        PROVE  FALSE
    BY <1>0, <1>7, <2>1 DEF TurnInv
  <2>2. \A u \in Threads \ {t} : InFlight(u)' => InFlight(u)
    BY <1>12 DEF Follows
  <2> SUFFICES ASSUME NEW u \in Threads, NEW w \in Threads, InFlight(u)', InFlight(w)', u # w,
                      call'[u].request = call'[w].request, call'[u].generation = call'[w].generation
               PROVE  FALSE
    BY DEF SoleInv
  <2>3. CASE u = t
    BY <1>5, <1>11, <2>1, <2>2, <2>3
  <2>4. CASE w = t
    BY <1>5, <1>11, <2>1, <2>2, <2>4
  <2>5. CASE u # t /\ w # t
    BY <1>0, <1>11, <2>2, <2>5 DEF SoleInv
  <2> QED BY <2>3, <2>4, <2>5
<1>21. OwnedInv'
  <2> SUFFICES ASSUME objects' > 0, NEW q \in RequestIds, requests'[q] \in Pending
               PROVE  (\E u \in Threads : Live(u)' /\ call'[u].request = q) \/ LeftOver(q)'
    BY DEF OwnedInv
  <2>1. CASE q = r
    BY <1>1, <1>5, <1>10, <1>11, <2>1 DEF Live
  <2>2. CASE q # r
    <3>1. requests[q] \in Pending /\ objects > 0
      BY <1>1, <1>15, <2>2
    <3>2. CASE LeftOver(q)
      BY <1>1, <3>2 DEF LeftOver
    <3>3. CASE ~LeftOver(q)
      <4>1. PICK u \in Threads : Live(u) /\ call[u].request = q
        BY <1>0, <3>1, <3>3 DEF OwnedInv
      <4>2. u # t
        BY <2>2, <4>1 DEF r
      <4> QED BY <1>1, <1>11, <4>1, <4>2 DEF Live
    <3> QED BY <3>2, <3>3
  <2> QED BY <2>1, <2>2
<1> QED BY <1>16, <1>17, <1>18, <1>19, <1>20, <1>21 DEF Inv

\* The history is deleted: a new generation, with no row and no message.
LEMMA DeleteHistoryStep ==
  ASSUME Inv, TypeOK', EnsureInv', delete_history, UNCHANGED <<admitted, answered>>,
         \A t \in Threads : Follows(t)
  PROVE  Inv'
<1>0. TypeOK /\ History /\ SoleInv /\ \A u \in Threads : TurnInv(u)
  BY DEF Inv
<1>1. /\ \A r \in RequestIds : requests'[r] = None
      /\ chatLogs' = {} /\ profile' = profile /\ generation' = generation + 1
  BY DEF delete_history
<1>2. /\ generation \in Nat /\ Len(admitted) \in Nat
  BY <1>0, FileTypes
<1>3. \A x \in 1..Len(admitted) : /\ admitted[x].generation < generation'
                                  /\ admitted[x].generation <= generation'
                                  /\ admitted[x].generation # generation'
  BY <1>0, AdmittedType, <1>1, <1>2, Below DEF History, AdmittedInv
<1>4. Grown
  <2> QED BY <1>2, <1>3 DEF Grown, AdmittedInv
<1>5. History'
  <2>1. RowInv' /\ LogInv' /\ PairInv'
    BY <1>1, RowValues, <1>0 DEF History, RowInv, LogInv, PairInv
  <2>2. AnswerInv'
    <3> SUFFICES ASSUME NEW a \in answered
                 PROVE  /\ AdmittedFor(a.reply, a.request, a.message, admitted[a.reply].generation)
                        /\ admitted[a.reply].generation # generation'
      BY DEF AnswerInv, AdmittedFor
    <3> QED BY <1>0, <1>3 DEF AdmittedFor, History, AnswerInv
  <2> QED BY <1>3, <2>1, <2>2 DEF History, AdmittedInv
<1>6. \A u \in Threads : TurnInv(u)'
  BY <1>1, <1>2, <1>0, <1>4, TurnKept DEF ProfileMoves
<1>7. OwnedInv'
  BY <1>1, RowValues DEF OwnedInv
<1> QED BY <1>0, SoleKept, <1>5, <1>6, <1>7 DEF Inv

\* A snapshot is reset under a new revision.
LEMMA ResetStep ==
  ASSUME Inv, TypeOK', EnsureInv', ProfileMoves,
         UNCHANGED <<requests, chatLogs, generation, objects, closed, admitted, answered, unreleased>>,
         \A t \in Threads : Follows(t) /\ Stays(t)
  PROVE  Inv'
<1>0. TypeOK /\ History /\ OwnedInv /\ \A u \in Threads : TurnInv(u)
  BY DEF Inv
<1>1. OwnedInv'
  BY <1>0, OwnedKept
<1>2. \A u \in Threads : (InFlight(u) /\ call[u].generation = generation) =>
        requests'[call[u].request] # None
  BY <1>0 DEF TurnInv
<1> QED BY <1>0, HistorySame, <1>1, <1>2, FileStep

\* The profile after a reset.
LEMMA ResetProfile ==
  ASSUME NEW q \in Profiles, NEW n \in Profiles,
         \/ n = [q EXCEPT !.emotional = <<>>, !.revision = @ + 1]
         \/ n = [q EXCEPT !.relationship = <<>>, !.revision = @ + 1]
  PROVE  q.revision < n.revision
<1>1. n.revision = q.revision + 1
  BY ZenonT(60) DEF Profiles
<1> QED BY <1>1 DEF Profiles

\* A reset profile has its type.
LEMMA ResetType ==
  ASSUME NEW q \in Profiles
  PROVE  /\ [q EXCEPT !.emotional = <<>>, !.revision = @ + 1] \in Profiles
         /\ [q EXCEPT !.relationship = <<>>, !.revision = @ + 1] \in Profiles
<1>1. /\ q.revision + 1 \in Nat /\ q.emotional \in Seq(Executions) /\ q.relationship \in Seq(Executions)
      /\ <<>> \in Seq(Executions)
  BY DEF Profiles
<1>2. /\ q = [revision |-> q.revision, emotional |-> q.emotional, relationship |-> q.relationship]
  BY DEF Profiles
<1> QED
  BY ZenonT(60), <1>1, <1>2 DEF Profiles

\* A privacy operation is applied.
LEMMA ApplyPrivacyStep ==
  ASSUME Inv, NEW t \in Threads, ApplyPrivacy(t) PROVE Inv'
<1> DEFINE op == call[t].stage
<1>0. TypeOK /\ EnsureInv
  BY DEF Inv
<1>1. /\ op \in PrivacyOps /\ privacy_op(op) /\ call' = [call EXCEPT ![t] = None] /\ Ensured(t)
      /\ UNCHANGED <<storage, objects, closed, starts, privacies, admitted, answered, unreleased>>
  BY DEF ApplyPrivacy, ghosts
<1>2. ~InFlight(t)
  BY <1>1 DEF InFlight, PrivacyOps
<1>3. /\ call' \in [Threads -> CallValues] /\ call'[t] = None
      /\ \A u \in Threads \ {t} : call'[u] = call[u]
      /\ \A u \in Threads : Follows(u) /\ Stays(u)
  BY ZenonT(60), <1>0, <1>1, <1>2, CallValuesFacts, CallChange
<1>4. /\ ensure' \in [Threads -> EnsureValues] /\ ensure'[t].at = "start"
      /\ \A u \in Threads \ {t} : ensure'[u] = ensure[u]
  BY <1>0, <1>1, EnsuredUpdate
<1>5. EnsureInv'
  BY <1>0, <1>3, <1>4, EnsureKept
<1>6. FileTypeOK' => TypeOK'
  BY <1>0, <1>1, <1>3, <1>4 DEF TypeOK, CallValues, EnsureValues
<1>7. profile \in Profiles /\ generation \in Nat
  BY <1>0, FileTypes
<1>8. delete_history \/ reset_emotional_state \/ reset_relationship_state
  BY ZenonT(60), <1>1 DEF privacy_op, PrivacyOps
<1> HIDE DEF op
<1>9. CASE delete_history
  <2>1. FileTypeOK'
    BY <1>7, <1>9 DEF FileTypeOK, delete_history
  <2> QED BY <1>1, <1>3, <1>5, <1>6, <1>9, <2>1, DeleteHistoryStep
<1>10. CASE reset_emotional_state \/ reset_relationship_state
  <2>1. /\ UNCHANGED <<requests, chatLogs, generation>>
        /\ \/ profile' = [profile EXCEPT !.emotional = <<>>, !.revision = @ + 1]
           \/ profile' = [profile EXCEPT !.relationship = <<>>, !.revision = @ + 1]
    BY <1>10 DEF reset_emotional_state, reset_relationship_state
  <2>2. profile' \in Profiles
    BY ZenonT(60), <1>7, <2>1, ResetType
  <2>3. ProfileMoves
    BY ZenonT(60), <1>7, <2>1, <2>2, ResetProfile DEF ProfileMoves
  <2>4. FileTypeOK'
    BY <1>0, <2>1, <2>2 DEF TypeOK, FileTypeOK
  <2> QED BY <1>1, <1>3, <1>5, <1>6, <2>1, <2>3, <2>4, ResetStep
<1> QED BY <1>8, <1>9, <1>10

\* Every step of the runtime.
LEMMA NextStep ==
  ASSUME Inv, Next PROVE Inv'
<1>1. ASSUME NEW t \in Threads, ThreadStep(t) PROVE Inv'
  <2>1. CASE Check(t) \/ Open(t) \/ Assign(t) \/ StorageFails(t) \/ ProviderFails(t)
    BY <2>1, EnsureStep, OpenStep, FailStep
  <2>2. CASE Admit(t)
    BY <2>2, NotAdmittedStep, AdmittedStep
  <2>3. CASE LoadState(t) \/ Commit(t) \/ Release(t)
    BY <2>3, LoadStateStep, CommitStep, ReleaseStep
  <2>4. CASE ApplyPrivacy(t) \/ ReadStore(t)
    BY <2>4, ApplyPrivacyStep, ReadStoreStep
  <2> QED
    BY <1>1, <2>1, <2>2, <2>3, <2>4 DEF ThreadStep
<1>2. ASSUME NEW t \in Threads,
             \/ \E r \in RequestIds, m \in Messages : SendTurn(t, r, m)
             \/ \E op \in PrivacyOps : CallPrivacy(t, op)
             \/ CallRead(t)
      PROVE  Inv'
  BY <1>2, SendTurnStep, CallPrivacyStep, CallReadStep
<1>3. CASE Close \/ Restart
  BY <1>3, CloseStep, RestartStep
<1> QED
  BY <1>1, <1>2, <1>3 DEF Next

-----------------------------------------------------------------------------
(* The import.                                                             *)

\* The turns that are listed for an import have their types and ids of their own,
\* which the store does not hold.
LEMMA ImportedTurns ==
  ASSUME TypeOK, NEW f \in Fixtures, validate_legacy_fixture(f),
         NEW n \in Nat, NEW new \in [1..n -> DOMAIN f], InOrder(f, new)
  PROVE  /\ \A k \in 1..n : /\ f[new[k]].request \in RequestIds /\ f[new[k]].message \in Messages
                            /\ requests[f[new[k]].request] = None
         /\ \A j, k \in 1..n : f[new[j]].request = f[new[k]].request => j = k
<1>1. /\ Len(f) \in Nat /\ DOMAIN f = 1..Len(f)
      /\ \A i \in DOMAIN f : /\ f[i].request \in RequestIds \cup {None}
                             /\ f[i].message \in Messages \cup {None}
  BY FixturesAssumption
<1>2. /\ \A k \in 1..n : new[k] \in NewTurns(f)
      /\ \A j, k \in 1..n : j < k => new[j] < new[k]
  BY DEF InOrder
<1>3. ASSUME NEW j \in 1..n, NEW k \in 1..n, j < k PROVE f[new[j]].request # f[new[k]].request
  <2>1. \A i \in 1..(new[k] - 1) : f[i].request # f[new[k]].request
    BY <1>2 DEF NewTurns
  <2> QED BY <1>1, <1>2, <1>3, <2>1
<1>4. ASSUME NEW j \in 1..n, NEW k \in 1..n, f[new[j]].request = f[new[k]].request PROVE j = k
  BY <1>3, <1>4
<1> QED BY <1>1, <1>2, <1>4 DEF NewTurns, validate_legacy_fixture, Existing

\* The executions that an import adds.
LEMMA ImportedExecutions ==
  ASSUME TypeOK, History, NEW n \in Nat,
         NEW q \in [1..n -> [request : RequestIds, message : Messages, generation : Nat]],
         \A k \in 1..n : q[k].generation = generation,
         generation' = generation, admitted' = admitted \o q
  PROVE  /\ Grown /\ admitted' \in Seq([request : RequestIds, message : Messages, generation : Nat])
         /\ \A k \in 1..n : Len(admitted) + k \in 1..Len(admitted') /\ admitted'[Len(admitted) + k] = q[k]
<1> DEFINE A == [request : RequestIds, message : Messages, generation : Nat]
           l == Len(admitted)
<1>1. admitted \in Seq(A) /\ generation \in Nat /\ q \in [1..n -> A]
  BY FileTypes DEF TypeOK
<1> HIDE DEF A
<1>2. /\ admitted' \in Seq(A) /\ Len(admitted') = l + n
      /\ \A y \in 1..l : admitted'[y] = admitted[y]
      /\ \A k \in 1..n : admitted'[l + k] = q[k]
  <2>1. /\ admitted \o q \in Seq(A) /\ Len(admitted \o q) = l + n
        /\ \A y \in 1..l : (admitted \o q)[y] = admitted[y]
        /\ \A k \in 1..n : (admitted \o q)[l + k] = q[k]
    <3>1. q \in Seq(A)
      BY <1>1
    <3>2. Len(q) = n
      OBVIOUS
    <3>3. admitted \o q \in Seq(A) /\ Len(admitted \o q) = l + Len(q)
      BY <1>1, <3>1
    <3>4. \A y \in 1..l : (admitted \o q)[y] = admitted[y]
      BY <1>1, <3>1
    <3>5. \A k \in 1..Len(q) : (admitted \o q)[l + k] = q[k]
      BY <1>1, <3>1
    <3> QED BY ZenonT(60), <3>2, <3>3, <3>4, <3>5
  <2> QED BY ZenonT(60), <2>1
<1>3. l \in Nat
  BY FileTypes
<1> HIDE DEF l
<1>4. ASSUME NEW i \in 1..(l + n) PROVE admitted'[i].generation <= generation
  <2>1. CASE i <= l
    BY <1>3, <2>1, PlusMany, <1>2 DEF AdmittedInv, History
  <2>2. CASE ~(i <= l)
    <3>1. i - l \in 1..n /\ l + (i - l) = i
      BY <1>3, <2>2, PlusMany
    <3>2. admitted'[i] = q[i - l]
      BY ZenonT(60), <1>2, <3>1
    <3> QED BY <1>1, PlusOne, <3>1, <3>2
  <2> QED BY ZenonT(60), <2>1, <2>2
<1> QED BY <1>3, PlusMany, <1>2, <1>4 DEF A, l, Grown, AdmittedInv

\* Nothing happens.
LEMMA StutterStep ==
  ASSUME Inv, UNCHANGED vars PROVE Inv'
<1>1. UNCHANGED <<file, storage, objects, closed, call, ensure, starts, privacies, admitted, answered, unreleased>>
  BY DEF vars, memory, ghosts
<1>2. TypeOK'
  BY <1>1, MemoryTypes, QuietType DEF Inv
<1>3. EnsureInv'
  BY <1>1 DEF EnsureInv, NeedsStorage, Inv
<1> QED BY <1>1, SameCall, <1>2, <1>3, QuietStep

\* The rows, the messages and the executions of an import, by the turns that are
\* listed.
LEMMA ImportWrites ==
  ASSUME TypeOK, History, NEW f \in Fixtures, validate_legacy_fixture(f),
         NEW n \in Nat, NEW new \in [1..n -> DOMAIN f], InOrder(f, new), WriteTurns(f, new)
  PROVE  /\ UNCHANGED <<profile, generation, memory, starts, privacies, answered, unreleased>>
         /\ chatLogs' = chatLogs \cup {Len(admitted) + k : k \in 1..n}
         /\ requests' = [r \in RequestIds |-> requests'[r]]
         /\ \A k \in 1..n :
              requests'[f[new[k]].request] = CompletedRow(f[new[k]].message, Len(admitted) + k)
         /\ \A r \in RequestIds :
              requests'[r] = requests[r] \/ \E k \in 1..n : f[new[k]].request = r
         /\ Grown /\ admitted' \in Seq([request : RequestIds, message : Messages, generation : Nat])
         /\ \A k \in 1..n :
              /\ Len(admitted) + k \in 1..Len(admitted')
              /\ admitted'[Len(admitted) + k] = [request |-> f[new[k]].request,
                                                 message |-> f[new[k]].message,
                                                 generation |-> generation]
<1> DEFINE Of(r) == {k \in 1..n : f[new[k]].request = r}
           Row(k) == [status |-> "completed", message |-> f[new[k]].message, reply |-> Len(admitted) + k]
           q == [k \in 1..n |-> [request |-> f[new[k]].request, message |-> f[new[k]].message,
                                 generation |-> generation]]
<1>1. DOMAIN new = 1..n
  OBVIOUS
<1>2. /\ requests' = [r \in RequestIds |->
                       IF Of(r) # {} THEN Row(CHOOSE k \in Of(r) : TRUE) ELSE requests[r]]
      /\ chatLogs' = chatLogs \cup {Len(admitted) + k : k \in 1..n}
      /\ admitted' = admitted \o q
      /\ UNCHANGED <<profile, generation, memory, starts, privacies, answered, unreleased>>
  BY ZenonT(60), <1>1 DEF WriteTurns
<1>3. /\ \A k \in 1..n : f[new[k]].request \in RequestIds /\ f[new[k]].message \in Messages
      /\ \A j, k \in 1..n : f[new[j]].request = f[new[k]].request => j = k
  BY ZenonT(60), ImportedTurns
<1>4. ASSUME NEW k \in 1..n
      PROVE  requests'[f[new[k]].request] = CompletedRow(f[new[k]].message, Len(admitted) + k)
  <2> DEFINE r == f[new[k]].request
  <2>1. r \in RequestIds
    BY <1>3
  <2>2. Of(r) = {k}
    BY <1>3
  <2>3. (CHOOSE j \in Of(r) : TRUE) = k
    <3> HIDE DEF Of, r
    <3> QED BY <2>2
  <2>4. requests'[r] = Row(k)
    <3> HIDE DEF Of, Row, r
    <3> QED BY ZenonT(60), <1>2, <2>1, <2>2, <2>3
  <2> QED BY <2>4 DEF CompletedRow
<1>5. \A r \in RequestIds : requests'[r] = requests[r] \/ \E k \in 1..n : f[new[k]].request = r
  <2> SUFFICES ASSUME NEW r \in RequestIds
               PROVE  requests'[r] = requests[r] \/ \E k \in 1..n : f[new[k]].request = r
    OBVIOUS
  <2>1. CASE Of(r) = {}
    <3> HIDE DEF Of, Row
    <3> QED BY <1>2, <2>1
  <2>2. CASE Of(r) # {}
    BY <2>2
  <2> QED BY <2>1, <2>2
<1>6. ASSUME NEW k \in 1..n
      PROVE  /\ q[k] = [request |-> f[new[k]].request, message |-> f[new[k]].message,
                        generation |-> generation]
             /\ q[k] \in [request : RequestIds, message : Messages, generation : Nat]
             /\ q[k].generation = generation
  BY FileTypes, <1>3
<1>7. q \in [1..n -> [request : RequestIds, message : Messages, generation : Nat]]
  BY ZenonT(60), <1>6
<1>8. requests' = [r \in RequestIds |-> requests'[r]]
  <2> DEFINE R(r) == IF Of(r) # {} THEN Row(CHOOSE k \in Of(r) : TRUE) ELSE requests[r]
  <2>1. requests' = [r \in RequestIds |-> R(r)]
    BY ZenonT(60), <1>2
  <2> HIDE DEF R
  <2> QED BY <2>1
<1> HIDE DEF Of, Row, q
<1>9. /\ Grown /\ admitted' \in Seq([request : RequestIds, message : Messages, generation : Nat])
      /\ \A k \in 1..n : Len(admitted) + k \in 1..Len(admitted') /\ admitted'[Len(admitted) + k] = q[k]
  BY ZenonT(60), <1>2, <1>6, <1>7, ImportedExecutions
<1> QED BY ZenonT(60), <1>2, <1>4, <1>5, <1>6, <1>8, <1>9

\* An import adds what fits, or changes nothing.
LEMMA ImportStep ==
  ASSUME Inv, NEW f \in Fixtures, import_legacy_fixture(f) PROVE Inv'
<1>0. TypeOK /\ EnsureInv /\ History /\ OwnedInv /\ \A u \in Threads : TurnInv(u)
  BY DEF Inv
<1>1. CASE UNCHANGED vars
  BY <1>1, StutterStep
<1>2. ASSUME NEW n \in 0..Len(f), NEW new \in [1..n -> DOMAIN f],
             validate_legacy_fixture(f), InOrder(f, new), WriteTurns(f, new)
      PROVE  Inv'
  <2> DEFINE S == 1..n
             Turn(k) == f[new[k]]
             Number(k) == Len(admitted) + k
  <2>a. n \in Nat /\ Len(admitted) \in Nat
    BY <1>0, FixturesAssumption, FileTypes
  <2>1. /\ UNCHANGED <<profile, generation, memory, starts, privacies, answered, unreleased>>
        /\ chatLogs' = chatLogs \cup {Number(k) : k \in S}
        /\ requests' = [r \in RequestIds |-> requests'[r]]
    BY <1>0, <1>2, <2>a, ImportWrites
  <2>2. /\ \A k \in S : requests'[Turn(k).request] = CompletedRow(Turn(k).message, Number(k))
        /\ \A r \in RequestIds : requests'[r] = requests[r] \/ \E k \in S : Turn(k).request = r
    BY ZenonT(60), <1>0, <1>2, <2>a, ImportWrites
  <2>3. /\ Grown /\ admitted' \in Seq([request : RequestIds, message : Messages, generation : Nat])
        /\ \A k \in S : /\ Number(k) \in 1..Len(admitted')
                        /\ admitted'[Number(k)] =
                             [request |-> Turn(k).request, message |-> Turn(k).message, generation |-> generation]
    BY ZenonT(60), <1>0, <1>2, <2>a, ImportWrites
  <2>4. \A k \in S : /\ Turn(k).request \in RequestIds /\ Turn(k).message \in Messages
                     /\ requests[Turn(k).request] = None /\ Number(k) \in Nat
    <3>1. \A k \in S : /\ Turn(k).request \in RequestIds /\ Turn(k).message \in Messages
                       /\ requests[Turn(k).request] = None
      BY ZenonT(60), <1>0, <1>2, <2>a, ImportedTurns
    <3>2. \A k \in S : Number(k) \in Nat
      BY <2>a
    <3> QED BY ZenonT(60), <3>1, <3>2
  <2>5. \A k \in S : LET w == requests'[Turn(k).request] IN
          /\ w \in Completed /\ w \notin Pending /\ w # None
          /\ w.reply = Number(k) /\ w.message = Turn(k).message
    <3> SUFFICES ASSUME NEW k \in S
                 PROVE  LET w == requests'[Turn(k).request] IN
                          /\ w \in Completed /\ w \notin Pending /\ w # None
                          /\ w.reply = Number(k) /\ w.message = Turn(k).message
      OBVIOUS
    <3> DEFINE m == Turn(k).message
               x == Number(k)
    <3>1. requests'[Turn(k).request] = CompletedRow(m, x) /\ m \in Messages /\ x \in Nat
      BY <2>2, <2>4
    <3> HIDE DEF m, x
    <3>2. /\ CompletedRow(m, x) \in Completed /\ CompletedRow(m, x) # None
          /\ CompletedRow(m, x) \notin Pending
          /\ CompletedRow(m, x).reply = x /\ CompletedRow(m, x).message = m
      BY <3>1, RowValues
    <3> QED BY <3>1, <3>2 DEF m, x
  <2> HIDE DEF S, Turn, Number
  <2>6. UNCHANGED <<storage, objects, closed, call, ensure>>
    BY <2>1 DEF memory
  <2>7. TypeOK'
    <3>1. \A r \in RequestIds : requests'[r] \in Pending \cup Completed \cup {Failed, None}
      BY <1>0, <2>2, <2>5, FileTypes
    <3>2. requests' \in [RequestIds -> Pending \cup Completed \cup {Failed, None}]
      BY <2>1, <3>1
    <3>3. chatLogs' \in SUBSET Executions
      BY <1>0, <2>1, <2>4 DEF TypeOK, FileTypeOK, Executions
    <3>4. FileTypeOK'
      BY <1>0, <2>1, <3>2, <3>3 DEF TypeOK, FileTypeOK
    <3> QED BY <1>0, <2>1, <2>3, <2>6, <3>4 DEF TypeOK
  <2>8. EnsureInv'
    BY <1>0, <2>6 DEF EnsureInv, NeedsStorage
  <2>9. \A u \in Threads : Follows(u) /\ Stays(u)
    BY <2>6, SameCall
  <2>10. \A r \in RequestIds : /\ requests[r] # None => requests'[r] = requests[r]
                               /\ requests'[r] \in Pending => requests'[r] = requests[r]
    BY <2>2, <2>4, <2>5
  <2>11. HistoryGrows
    <3>1. \A r \in RequestIds : requests[r] \in Completed => requests'[r] = requests[r]
      BY RowValues, <2>10
    <3>2. ASSUME NEW r \in RequestIds, requests'[r] # requests[r]
          PROVE  AdmittedFor(requests[r].reply, r, requests[r].message, generation)'
      <4>1. PICK k \in S : Turn(k).request = r
        BY <2>2, <3>2
      <4>2. /\ Number(k) \in 1..Len(admitted')
            /\ admitted'[Number(k)] =
                 [request |-> r, message |-> Turn(k).message, generation |-> generation']
        BY <2>1, <2>3, <4>1
      <4> QED BY ZenonT(60), <2>5, <4>1, <4>2 DEF AdmittedFor
    <3>3. \A r \in RequestIds : requests'[r] \in Pending => requests'[r].marker = generation
      BY <1>0, <2>10 DEF History, RowInv
    <3>4. \A x \in chatLogs' : \/ x \in chatLogs
                               \/ \E r \in RequestIds : requests'[r] \in Completed /\ requests'[r].reply = x
      <4> SUFFICES ASSUME NEW k \in S
                   PROVE  \E r \in RequestIds : /\ requests'[r] \in Completed
                                                /\ requests'[r].reply = Number(k)
        BY <2>1
      <4> QED BY <2>4, <2>5
    <3> QED BY <2>1, <2>3, <3>1, <3>2, <3>3, <3>4 DEF HistoryGrows
  <2>12. OwnedInv'
    BY <1>0, <2>1, <2>6, <2>9, <2>10, OwnedKept
  <2>13. ASSUME NEW u \in Threads, InFlight(u), call[u].generation = generation
         PROVE  requests'[call[u].request] # None
    <3>1. requests[call[u].request] # None
      BY <1>0, <2>13 DEF TurnInv
    <3>2. call[u].request \in RequestIds
      BY <1>0, <2>13, TurnCall DEF InFlight
    <3> QED BY <2>10, <3>1, <3>2
  <2>14. ProfileMoves
    BY <2>1 DEF ProfileMoves
  <2> QED BY ZenonT(60), <2>7, <2>8, <2>9, <2>11, <2>12, <2>13, <2>14, FileStep
<1> QED BY <1>1, <1>2 DEF import_legacy_fixture

\* The invariant that all results rest on.
THEOREM InvHolds == ImportSpec => []Inv
<1>1. Inv /\ [ImportNext]_importVars => Inv'
  <2>a. SUFFICES ASSUME Inv, [ImportNext]_importVars PROVE Inv'
    OBVIOUS
  <2>1. CASE Next
    BY <2>a, <2>1, NextStep
  <2>2. CASE \E f \in Fixtures : import_legacy_fixture(f)
    BY <2>a, <2>2, ImportStep
  <2>3. CASE UNCHANGED importVars
    BY <2>a, <2>3, StutterStep DEF importVars
  <2> QED
    BY <2>a, <2>1, <2>2, <2>3 DEF ImportNext
<1>2. ImportInit => Inv
  BY InitInv DEF ImportInit
<1> QED
  BY <1>1, <1>2, PTL DEF ImportSpec

-----------------------------------------------------------------------------
\* A turn that was admitted before a delete_history leaves no message after it:
\* LocalStorage.commit_turn compares the generation of its reservation.
THEOREM NothingComesBackHolds == ImportSpec => []NothingComesBack
<1>1. Inv => NothingComesBack
  <2> SUFFICES ASSUME Inv, NEW x \in chatLogs PROVE admitted[x].generation = generation
    BY DEF NothingComesBack
  <2>1. PICK r \in RequestIds : requests[r] \in Completed /\ requests[r].reply = x
    BY DEF Inv, History, LogInv
  <2> QED BY <2>1, AdmittedFields DEF Inv, History, RowInv
<1> QED BY <1>1, InvHolds, PTL

\* The history has one turn of a request id at most, of the runtime or of an
\* export, however often the export is imported.
THEOREM OneTurnPerRequestHolds == ImportSpec => []OneTurnPerRequest
<1>1. Inv => OneTurnPerRequest
  <2> SUFFICES ASSUME Inv, NEW x \in chatLogs, NEW y \in chatLogs,
                      admitted[x].request = admitted[y].request
               PROVE  x = y
    BY DEF OneTurnPerRequest
  <2>1. PICK r \in RequestIds : requests[r] \in Completed /\ requests[r].reply = x
    BY DEF Inv, History, LogInv
  <2>2. PICK q \in RequestIds : requests[q] \in Completed /\ requests[q].reply = y
    BY DEF Inv, History, LogInv
  <2>3. r = q
    <3>1. admitted[x].request = r
      BY <2>1, AdmittedFields DEF Inv, History, RowInv
    <3>2. admitted[y].request = q
      BY <2>2, AdmittedFields DEF Inv, History, RowInv
    <3> QED BY ZenonT(60), <3>1, <3>2
  <2> QED BY <2>1, <2>2, <2>3
<1> QED BY <1>1, InvHolds, PTL

\* What the bridge returned for a request is an execution of its message, and
\* all results of an id between two deletions are the same.
THEOREM AnswersFitHolds == ImportSpec => []AnswersFit
<1>1. Inv => AnswersFit
  <2>0. SUFFICES ASSUME Inv PROVE AnswersFit
    OBVIOUS
  <2>1. ASSUME NEW a \in answered
        PROVE  admitted[a.reply].request = a.request /\ admitted[a.reply].message = a.message
    BY <2>0, AdmittedFields DEF Inv, History, AnswerInv
  <2> QED BY <2>0, <2>1 DEF AnswersFit, PairInv, Inv, History
<1> QED BY <1>1, InvHolds, PTL

\* Pending rows have live turns, but for those whose release has failed; live
\* turns have rows, and no request is executed by two threads at once.
THEOREM ReservationsAreOwnedHolds == ImportSpec => []ReservationsAreOwned
<1>1. Inv => ReservationsAreOwned
  <2>0. SUFFICES ASSUME Inv PROVE ReservationsAreOwned
    OBVIOUS
  <2>1. TypeOK /\ OwnedInv /\ SoleInv /\ \A t \in Threads : TurnInv(t)
    BY <2>0 DEF Inv
  <2>2. ASSUME objects > 0, NEW r \in RequestIds,
               requests[r] # None, requests[r].status = "pending"
        PROVE  \/ \E t \in Threads : Live(t) /\ call[t].request = r
               \/ [request |-> r, generation |-> generation] \in unreleased
    BY ZenonT(60), <2>1, <2>2, RowKinds DEF OwnedInv, LeftOver
  <2>3. ASSUME NEW t \in Threads, Live(t) PROVE requests[call[t].request] # None
    BY <2>1, <2>3 DEF TurnInv, Live, InFlight
  <2>4. ASSUME NEW t \in Threads, NEW u \in Threads, Executing(t), Executing(u),
               call[t].request = call[u].request, call[t].generation = call[u].generation
        PROVE  t = u
    BY <2>4, <2>1 DEF SoleInv, Executing, InFlight
  <2> QED BY <2>2, <2>3, <2>4 DEF ReservationsAreOwned
<1> QED BY <1>1, InvHolds, PTL

\* A commit folds its turn into the snapshots it finds.
LEMMA CommitFolds ==
  ASSUME Inv, NEW u \in Threads, Commit(u), NEW x, x \in chatLogs', x \notin chatLogs
  PROVE  /\ x = call[u].execution
         /\ profile'.emotional = Append(profile.emotional, x)
         /\ profile'.relationship = Append(profile.relationship, x)
<1> DEFINE c == call[u]
<1>1. commit_turn(c.request, c.message, c.execution, c.generation, c.loaded)
  BY DEF Commit, file
<1>2. CommitDecision(c.request, c.generation, c.loaded.revision) = "committed"
  BY <1>1 DEF commit_turn, file
<1>3. /\ profile' = [revision |-> profile.revision + 1, emotional |-> Append(c.loaded.emotional, c.execution),
                     relationship |-> Append(c.loaded.relationship, c.execution)]
      /\ chatLogs' = chatLogs \cup {c.execution}
  BY ZenonT(60), <1>1, <1>2, CommittedWrites
<1>4. c.loaded.revision = profile.revision
  BY ZenonT(60), <1>2 DEF CommitDecision
<1>5. c # None /\ c.stage = "commit"
  BY DEF Commit
<1>6. InFlight(u)
  BY <1>5, FlightFacts
<1>7. c.loaded = profile
  BY <1>4, <1>5, <1>6 DEF Inv, TurnInv
<1> HIDE DEF c
<1> QED BY <1>3, <1>7 DEF c

\* A committed turn is folded into the snapshots it finds, never over a turn or
\* a reset that came after it had loaded its state: commit_turn compares the
\* revision, and every change of the profile moves it on.
THEOREM NoLostUpdateHolds == ImportSpec => NoLostUpdate
<1> DEFINE Folds(t) ==
      LET x == call[t].execution IN
      call[t] # None /\ call[t].stage = "commit" /\ x \in chatLogs' \ chatLogs =>
        /\ profile'.emotional = Append(profile.emotional, x)
        /\ profile'.relationship = Append(profile.relationship, x)
<1>1. Inv /\ [ImportNext]_importVars => [\A t \in Threads : Folds(t)]_vars
  <2>a. SUFFICES ASSUME Inv, [ImportNext]_importVars, NEW t \in Threads, call[t] # None,
                        call[t].stage = "commit", call[t].execution \in chatLogs',
                        call[t].execution \notin chatLogs
                 PROVE  /\ profile'.emotional = Append(profile.emotional, call[t].execution)
                        /\ profile'.relationship = Append(profile.relationship, call[t].execution)
    OBVIOUS
  <2>1. ASSUME NEW u \in Threads, Commit(u)
        PROVE  /\ profile'.emotional = Append(profile.emotional, call[t].execution)
               /\ profile'.relationship = Append(profile.relationship, call[t].execution)
    BY <2>a, <2>1, CommitFolds
  <2>2. ASSUME NEW f \in Fixtures, import_legacy_fixture(f) PROVE FALSE
    <3>1. TypeOK /\ History /\ TurnInv(t) /\ InFlight(t)
      BY <2>a, FlightFacts DEF Inv
    <3>2. call[t].execution \in 1..Len(admitted) /\ Len(admitted) \in Nat
      BY <3>1, FileTypes DEF TurnInv, AdmittedFor
    <3>3. ASSUME NEW n \in 0..Len(f), NEW new \in [1..n -> DOMAIN f],
                 WriteTurns(f, new)
          PROVE  FALSE
      <4>1. chatLogs' = chatLogs \cup {Len(admitted) + k : k \in 1..n}
        BY ZenonT(60), <3>3 DEF WriteTurns
      <4>2. \A k \in 1..n : Len(admitted) + k \notin 1..Len(admitted)
        BY FixturesAssumption, <3>2, PlusMany
      <4> QED BY <2>a, <3>2, <4>1, <4>2
    <3> QED BY <2>a, <2>2, <3>3 DEF import_legacy_fixture, vars, file
  <2>3. CASE UNCHANGED importVars
    BY <2>a, <2>3 DEF importVars, vars, file
  <2>4. ASSUME Next, \A u \in Threads : ~Commit(u) PROVE chatLogs' \subseteq chatLogs
    <3>1. ASSUME NEW u \in Threads, ThreadStep(u) PROVE chatLogs' \subseteq chatLogs
      <4>1. CASE Check(u) \/ Open(u) \/ Assign(u) \/ StorageFails(u) \/ ProviderFails(u)
        BY <4>1 DEF Check, Open, Recover, Assign, StorageFails, ProviderFails, file
      <4>2. CASE Admit(u) \/ LoadState(u) \/ Release(u) \/ ReadStore(u)
        BY <4>2 DEF Admit, reserve_request, LoadState, Release, release_request, ReadStore, file
      <4>3. CASE ApplyPrivacy(u)
        <5>1. call[u].stage \in PrivacyOps /\ privacy_op(call[u].stage)
          BY <4>3 DEF ApplyPrivacy
        <5>2. delete_history \/ reset_emotional_state \/ reset_relationship_state
          BY ZenonT(60), <5>1 DEF privacy_op, PrivacyOps
        <5> QED
          BY <5>2 DEF delete_history, reset_emotional_state, reset_relationship_state
      <4> QED BY <2>4, <3>1, <4>1, <4>2, <4>3 DEF ThreadStep
    <3>2. ASSUME NEW u \in Threads,
                 \/ \E r \in RequestIds, m \in Messages : SendTurn(u, r, m)
                 \/ \E op \in PrivacyOps : CallPrivacy(u, op)
                 \/ CallRead(u)
          PROVE  chatLogs' \subseteq chatLogs
      BY <3>2 DEF SendTurn, CallPrivacy, CallRead, file
    <3>3. CASE Close \/ Restart
      BY <3>3 DEF Close, Restart, file
    <3> QED BY <2>4, <3>1, <3>2, <3>3 DEF Next
  <2> QED BY <2>a, <2>1, <2>2, <2>3, <2>4 DEF ImportNext
<1> QED BY <1>1, InvHolds, PTL DEF ImportSpec, NoLostUpdate

=============================================================================
