------------------------ MODULE PrivacyServiceProofs ------------------------
(***************************************************************************)
(* The privacy endpoints, for any number of calls, operation ids, turns    *)
(* and readings of the clock.  The ledger row of an operation is written   *)
(* in the transaction that applies it, so until the retention job removes  *)
(* it a repeated id finds it however late its RPC is executed; and once    *)
(* the history was deleted for some call of an id, a message that the call *)
(* saw cannot come back, row or no row, because every later turn is new.   *)
(***************************************************************************)
EXTENDS PrivacyService, SequenceTheorems, TLAPS

\* Each leaf is tried with the defaults first and then given more time.
USE SMT, Zenon, Z3T(60), ZenonT(30), SMTT(60), Z3T(90)

-----------------------------------------------------------------------------
(* The writing RPCs keep the tables of TurnStore well typed, whoever calls *)
(* them and with whatever ids, messages and snapshots.                     *)

\* commit_turn keeps the store well typed.
LEMMA ApplyTurnType ==
  ASSUME StoreTypeOK, NEW r \in RequestIds, NEW m \in Messages, NEW y \in Replies,
         NEW ld \in Loaded, ApplyTurn(r, m, y, ld)
  PROVE  StoreTypeOK'
<1>1. profile' \in Profiles
  <2>1. /\ Append(ld.emotional, y) \in Snapshots
        /\ Append(ld.relationship, y) \in Snapshots
    BY DEF Loaded, Snapshots
  <2>2. profile.revision + 1 \in Nat
    BY DEF StoreTypeOK, Profiles
  <2> QED
    BY <2>1, <2>2 DEF ApplyTurn, Profiles
<1>2. turns' \in [RequestIds -> TurnRows \cup {None}]
  <2>1. [message |-> m, reply |-> y, revision |-> profile.revision + 1] \in TurnRows
    BY DEF StoreTypeOK, Profiles, TurnRows
  <2> QED
    BY <2>1 DEF ApplyTurn, StoreTypeOK
<1>3. chatLogs' \in Seq(ChatRows)
  <2>1. TurnMessages(y) \in Seq(ChatRows)
    BY DEF TurnMessages, ChatRows
  <2> QED
    BY <2>1 DEF ApplyTurn, StoreTypeOK
<1>4. outbox' \in SUBSET RequestIds
  BY DEF ApplyTurn, StoreTypeOK
<1> QED
  BY <1>1, <1>2, <1>3, <1>4 DEF ApplyTurn, StoreTypeOK

\* privacy_apply_operation keeps the store well typed.
LEMMA ApplyPrivacyType ==
  ASSUME StoreTypeOK, NEW o \in OpIds, NEW k \in PrivacyKinds, NEW t \in Stamps,
         ApplyPrivacy(o, k, t)
  PROVE  StoreTypeOK'
<1>1. PrivacyRevision \in Nat
  BY DEF PrivacyRevision, StoreTypeOK, Profiles
<1>2. profile' \in Profiles
  <2>1. <<>> \in Snapshots
    BY DEF Snapshots
  <2> QED
    BY Zenon, <1>1, <2>1 DEF ApplyPrivacy, StoreTypeOK, Profiles
<1>3. privacyOps' \in [OpIds -> PrivacyRows \cup {None}]
  <2>1. PayloadStamp(k, t) \in Stamps \cup {None}
    BY DEF PayloadStamp
  <2>2. [kind |-> k, stamp |-> PayloadStamp(k, t), revision |-> PrivacyRevision] \in PrivacyRows
    BY <1>1, <2>1 DEF PrivacyRows
  <2> QED
    BY <2>2 DEF ApplyPrivacy, StoreTypeOK
<1>4. turns' \in [RequestIds -> TurnRows \cup {None}]
  BY DEF ApplyPrivacy, StoreTypeOK
<1>5. chatLogs' \in Seq(ChatRows) /\ outbox' \in SUBSET RequestIds
      /\ memories' \in SUBSET Memories
  BY DEF ApplyPrivacy, StoreTypeOK
<1> QED
  BY <1>2, <1>3, <1>4, <1>5 DEF ApplyPrivacy, StoreTypeOK

\* A step that leaves the tables alone.
LEMMA StoreSame ==
  ASSUME StoreTypeOK, UNCHANGED store
  PROVE  StoreTypeOK'
  BY DEF StoreTypeOK, store

\* reserve_admission keeps the store well typed.
LEMMA ReserveType ==
  ASSUME StoreTypeOK, NEW r \in RequestIds, NEW m \in Messages, Reserve(r, m)
  PROVE  StoreTypeOK'
  BY DEF StoreTypeOK, Reserve

-----------------------------------------------------------------------------

\* Type invariant.
TypeOK ==
  /\ StoreTypeOK
  /\ clock \in Stamps
  /\ asked \in [PrivacyCalls -> Requested \cup {None}]
  /\ rpc \in [PrivacyCalls -> Rpcs \cup {None}]
  /\ told \in [PrivacyCalls -> Reports \cup {None}]
  /\ applied \in [OpIds -> Nat]
  /\ forgotten \in [OpIds -> Nat]
  /\ before \in [PrivacyCalls -> SUBSET Replies]
  /\ said \in SUBSET Replies

\* Every application of an operation has its row, there still or removed.
LedgerInv ==
  \A o \in OpIds : applied[o] = forgotten[o] + (IF privacyOps[o] = None THEN 0 ELSE 1)

\* Some call of the id has seen the end of all messages it was made after.
Erased(o) ==
  \E d \in PrivacyCalls : /\ asked[d] = [op |-> o, kind |-> "delete_history"]
                          /\ before[d] \cap Remembered = {}

\* The operation that call c asks for has taken effect.
Done(c) ==
  /\ asked[c] # None
  /\ asked[c].kind = "delete_history" => Erased(asked[c].op)

\* What a call was told, or will be, has been done.
CallInv(c) ==
  /\ rpc[c] # None \/ told[c] # None => asked[c] # None
  /\ (rpc[c] # None /\ rpc[c].result \in {"applied", "replayed"}) => Done(c)
  /\ told[c] = "ok" => Done(c)

\* Messages are those of turns that were run, and a deleted history stays so.
HistoryInv ==
  /\ Remembered \subseteq said
  /\ \A c \in PrivacyCalls : before[c] \subseteq said
  /\ \A o \in OpIds :
       (privacyOps[o] # None /\ privacyOps[o].kind = "delete_history") => Erased(o)

Inv == TypeOK /\ LedgerInv /\ (\A c \in PrivacyCalls : CallInv(c)) /\ HistoryInv

-----------------------------------------------------------------------------
\* The messages of a turn that is appended are its own.
LEMMA RememberedGrows ==
  ASSUME NEW s \in Seq(ChatRows), NEW y \in Replies,
         NEW i \in DOMAIN (s \o TurnMessages(y))
  PROVE  \/ (s \o TurnMessages(y))[i].reply = y
         \/ \E j \in DOMAIN s : (s \o TurnMessages(y))[i].reply = s[j].reply
<1>1. /\ TurnMessages(y) \in Seq(ChatRows) /\ Len(TurnMessages(y)) = 2
      /\ TurnMessages(y)[1].reply = y /\ TurnMessages(y)[2].reply = y
  BY DEF TurnMessages, ChatRows
<1> HIDE DEF TurnMessages
<1>2. /\ DOMAIN s = 1..Len(s) /\ Len(s) \in Nat
      /\ DOMAIN (s \o TurnMessages(y)) = 1..(Len(s) + 2)
  <2>1. Len(s) \in Nat /\ DOMAIN s = 1..Len(s)
    OBVIOUS
  <2>2. /\ s \o TurnMessages(y) \in Seq(ChatRows)
        /\ Len(s \o TurnMessages(y)) = Len(s) + Len(TurnMessages(y))
    BY ZenonT(60), <1>1, ConcatProperties
  <2>3. Len(s \o TurnMessages(y)) = Len(s) + 2
    BY <1>1, <2>2
  <2> QED
    BY <2>1, <2>2, <2>3
<1>3. CASE i \in 1..Len(s)
  BY <1>1, <1>2, <1>3
<1>4. CASE i \notin 1..Len(s)
  <2>1. i - Len(s) \in {1, 2} /\ (s \o TurnMessages(y))[i] = TurnMessages(y)[i - Len(s)]
    BY <1>1, <1>2, <1>4
  <2> QED
    BY <1>1, <2>1
<1> QED
  BY <1>3, <1>4

\* A history that is gone for some call of an id stays so, unless a message
\* that the call has seen is written again.
LEMMA ErasedStays ==
  ASSUME NEW o \in OpIds, Erased(o),
         \A d \in PrivacyCalls : asked[d] # None =>
           UNCHANGED <<asked[d], before[d]>> /\ before[d] \cap Remembered' \subseteq Remembered
  PROVE  Erased(o)'
<1>1. PICK d \in PrivacyCalls : /\ asked[d] = [op |-> o, kind |-> "delete_history"]
                                /\ before[d] \cap Remembered = {}
  BY DEF Erased
<1>2. [op |-> o, kind |-> "delete_history"] \in Requested
  BY DEF Requested, PrivacyKinds
<1>3. asked[d] # None
  BY <1>1, <1>2, NoneAssumption
<1> QED
  BY <1>1, <1>3 DEF Erased

\* What was done for a call stays done.
LEMMA DoneStays ==
  ASSUME TypeOK, NEW c \in PrivacyCalls, Done(c), asked'[c] = asked[c],
         \A o \in OpIds : Erased(o) => Erased(o)'
  PROVE  Done(c)'
<1>1. asked[c] \in Requested
  BY DEF Done, TypeOK
<1>2. asked[c].op \in OpIds
  BY <1>1 DEF Requested
<1> QED
  BY <1>2 DEF Done

-----------------------------------------------------------------------------
(* One lemma per action.                                                   *)

\* Before the first call the invariant holds.
LEMMA InitInv == Init => Inv
<1> SUFFICES ASSUME Init PROVE Inv
  OBVIOUS
<1> USE DEF Init, StoreInit
<1>1. StoreTypeOK
  <2>1. profile \in Profiles
    <3>1. NoProfile \in Profiles
      BY DEF NoProfile, Profiles, Snapshots
    <3>2. [NoProfile EXCEPT !.exists = TRUE] \in Profiles
      BY ZenonT(60), <3>1 DEF Profiles
    <3> QED
      BY ZenonT(60), <3>1, <3>2
  <2> QED
    BY <2>1 DEF StoreTypeOK
<1>2. TypeOK
  BY <1>1 DEF TypeOK
<1>3. LedgerInv
  BY DEF LedgerInv
<1>4. \A c \in PrivacyCalls : CallInv(c)
  BY NoneAssumption DEF CallInv, Reports
<1>5. HistoryInv
  BY DEF HistoryInv, Remembered
<1> QED
  BY <1>2, <1>3, <1>4, <1>5 DEF Inv

\* A step of call c that leaves the store and the turns alone.
LEMMA CallOnly ==
  ASSUME Inv, TypeOK', NEW c \in PrivacyCalls, UNCHANGED <<store, applied, forgotten, said>>,
         \A d \in PrivacyCalls : asked[d] # None => UNCHANGED <<asked[d], before[d]>>,
         \A d \in PrivacyCalls : before'[d] \subseteq said,
         \A d \in PrivacyCalls \ {c} : UNCHANGED <<asked[d], rpc[d], told[d]>>,
         CallInv(c)'
  PROVE  Inv'
<1>1. LedgerInv'
  BY DEF Inv, LedgerInv, store
<1>2. Remembered' = Remembered
  BY DEF Remembered, store
<1>3. \A o \in OpIds : Erased(o) => Erased(o)'
  BY <1>2, ErasedStays
<1>4. ASSUME NEW d \in PrivacyCalls, d # c PROVE CallInv(d)'
  <2>1. CallInv(d) /\ TypeOK /\ UNCHANGED <<asked[d], rpc[d], told[d]>>
    BY <1>4 DEF Inv
  <2>2. Done(d) => Done(d)'
    BY <1>3, <2>1, DoneStays
  <2> QED
    BY <2>1, <2>2 DEF CallInv
<1>5. HistoryInv'
  BY <1>2, <1>3 DEF Inv, HistoryInv, store
<1> QED
  BY <1>1, <1>4, <1>5 DEF Inv

\* A new call has nothing on the wire and no report yet.
LEMMA AskStep ==
  ASSUME Inv, NEW c \in PrivacyCalls, NEW o \in OpIds, NEW k \in PrivacyKinds, Ask(c, o, k)
  PROVE  Inv'
<1>0. TypeOK /\ CallInv(c) /\ HistoryInv
  BY DEF Inv
<1>1. /\ asked[c] = None /\ UNCHANGED <<store, clock, told, applied, forgotten, said>>
      /\ asked' = [asked EXCEPT ![c] = [op |-> o, kind |-> k]]
      /\ rpc' = [rpc EXCEPT ![c] = [stamp |-> clock, result |-> None]]
      /\ before' = [before EXCEPT ![c] = Remembered]
  BY DEF Ask
<1>2. [op |-> o, kind |-> k] \in Requested /\ [stamp |-> clock, result |-> None] \in Rpcs
  BY <1>0 DEF TypeOK, Requested, Rpcs
<1>3. Remembered \subseteq said /\ said \subseteq Replies
  BY <1>0 DEF TypeOK, HistoryInv
<1>4. TypeOK'
  <2>1. asked' \in [PrivacyCalls -> Requested \cup {None}] /\ rpc' \in [PrivacyCalls -> Rpcs \cup {None}]
    BY <1>0, <1>1, <1>2 DEF TypeOK
  <2>2. before' \in [PrivacyCalls -> SUBSET Replies]
    BY <1>0, <1>1, <1>3 DEF TypeOK
  <2>3. StoreTypeOK'
    BY <1>0, <1>1, StoreSame DEF TypeOK
  <2> QED
    BY <1>0, <1>1, <2>1, <2>2, <2>3 DEF TypeOK
<1>5. /\ asked'[c] = [op |-> o, kind |-> k] /\ rpc'[c].result = None
      /\ \A d \in PrivacyCalls \ {c} : UNCHANGED <<asked[d], rpc[d], told[d], before[d]>>
      /\ before'[c] = Remembered
  BY <1>0, <1>1 DEF TypeOK
<1>6. told'[c] = None /\ asked'[c] # None
  BY <1>0, <1>1, <1>2, <1>5, NoneAssumption DEF CallInv
<1>7. CallInv(c)'
  BY <1>5, <1>6, NoneAssumption DEF CallInv, Results, Reports
<1>8. \A d \in PrivacyCalls : before'[d] \subseteq said
  BY <1>0, <1>3, <1>5 DEF HistoryInv
<1>9. \A d \in PrivacyCalls : asked[d] # None => UNCHANGED <<asked[d], before[d]>>
  BY <1>1, <1>5
<1> QED
  BY <1>1, <1>4, <1>5, <1>7, <1>8, <1>9, CallOnly

\* The RPC of a call is lost, or the call is answered.
LEMMA ReplyStep ==
  ASSUME Inv, NEW c \in PrivacyCalls, Lose(c) \/ Unavailable(c) \/ Respond(c)
  PROVE  Inv'
<1>0. TypeOK /\ CallInv(c) /\ HistoryInv
  BY DEF Inv
<1>1. UNCHANGED <<store, clock, asked, applied, forgotten, before, said>>
  BY DEF Lose, Unavailable, Respond, ghosts
<1>2. /\ told' \in [PrivacyCalls -> Reports \cup {None}] /\ rpc' \in [PrivacyCalls -> Rpcs \cup {None}]
      /\ \A d \in PrivacyCalls \ {c} : UNCHANGED <<rpc[d], told[d]>>
  BY <1>0 DEF TypeOK, Lose, Unavailable, Respond, Reports
<1>3. TypeOK'
  <2>1. StoreTypeOK'
    BY <1>0, <1>1, StoreSame DEF TypeOK
  <2> QED
    BY <1>0, <1>1, <1>2, <2>1 DEF TypeOK
<1>4. asked[c] # None /\ (rpc'[c] = None \/ rpc'[c] = rpc[c])
  BY <1>0 DEF TypeOK, CallInv, Lose, Unavailable, Respond, Pending
<1>5. told'[c] = "ok" => told[c] = "ok" \/ (rpc[c] # None /\ rpc[c].result \in {"applied", "replayed"})
  <2>1. CASE Lose(c)
    BY <2>1 DEF Lose
  <2>2. CASE Unavailable(c)
    BY <1>0, <2>2 DEF Unavailable, TypeOK
  <2>3. CASE Respond(c)
    <3>1. rpc[c] \in Rpcs /\ rpc[c] # None /\ rpc[c].result # None
      BY <1>0, <2>3 DEF Respond, TypeOK
    <3>2. rpc[c].result \in Results
      BY <3>1 DEF Rpcs
    <3>3. rpc[c].result = "operation_conflict" => told'[c] = "operation_conflict"
      BY <1>0, <2>3 DEF Respond, TypeOK
    <3> QED
      BY <3>1, <3>2, <3>3 DEF Results
  <2> QED
    BY <2>1, <2>2, <2>3
<1>6. Done(c) => Done(c)'
  <2>1. Remembered' = Remembered
    BY <1>1 DEF Remembered, store
  <2>2. \A o \in OpIds : Erased(o) => Erased(o)'
    BY <1>1, <2>1, ErasedStays
  <2> QED
    BY <1>0, <1>1, <2>2, DoneStays
<1>7. CallInv(c)'
  BY <1>0, <1>1, <1>4, <1>5, <1>6 DEF CallInv
<1>8. \A d \in PrivacyCalls : before'[d] \subseteq said
  BY <1>0, <1>1 DEF HistoryInv
<1> QED
  BY <1>1, <1>2, <1>3, <1>7, <1>8, CallOnly

\* The database executes an RPC: the ledger decides, and keeps what it has.
LEMMA ExecuteStep ==
  ASSUME Inv, NEW c \in PrivacyCalls, Execute(c) PROVE Inv'
<1> DEFINE o == asked[c].op
           k == asked[c].kind
           t == rpc[c].stamp
           decision == PrivacyDecision(o, k, t)
<1>0. TypeOK /\ LedgerInv /\ HistoryInv /\ \A d \in PrivacyCalls : CallInv(d)
  BY DEF Inv
<1>1. asked[c] \in Requested /\ rpc[c] \in Rpcs
  BY <1>0 DEF Execute, Pending, TypeOK, CallInv
<1>2. o \in OpIds /\ k \in PrivacyKinds /\ t \in Stamps /\ asked[c] = [op |-> o, kind |-> k]
  BY <1>1 DEF Requested, Rpcs
<1>3. /\ privacy_apply_operation(o, k, t)
      /\ rpc' = [rpc EXCEPT ![c].result = decision]
      /\ applied' = [applied EXCEPT ![o] = IF decision = "applied" THEN @ + 1 ELSE @]
      /\ UNCHANGED <<clock, asked, told, forgotten, before, said>>
  BY DEF Execute
<1>4. decision \in Results /\ (decision = "applied" <=> privacyOps[o] = None)
  BY DEF PrivacyDecision, Results
<1> HIDE DEF decision
<1>5. /\ rpc' \in [PrivacyCalls -> Rpcs \cup {None}] /\ rpc'[c].result = decision
      /\ \A d \in PrivacyCalls \ {c} : rpc'[d] = rpc[d]
  <2>1. rpc' = [rpc EXCEPT ![c] = [rpc[c] EXCEPT !.result = decision]]
    BY <1>3
  <2>2. [rpc[c] EXCEPT !.result = decision] \in Rpcs /\ [rpc[c] EXCEPT !.result = decision].result = decision
    BY <1>1, <1>4 DEF Rpcs
  <2>3. rpc \in [PrivacyCalls -> Rpcs \cup {None}]
    BY <1>0 DEF TypeOK
  <2> DEFINE v == [rpc[c] EXCEPT !.result = decision]
  <2>4. rpc' = [rpc EXCEPT ![c] = v] /\ v \in Rpcs \cup {None} /\ v.result = decision
    BY <2>1, <2>2
  <2> HIDE DEF v
  <2>5. rpc' \in [PrivacyCalls -> Rpcs \cup {None}]
    BY <2>3, <2>4
  <2>6. rpc'[c] = v /\ \A d \in PrivacyCalls \ {c} : rpc'[d] = rpc[d]
    BY <2>3, <2>4
  <2> QED
    BY <2>4, <2>5, <2>6
<1> HIDE DEF o, k, t
<1>6. applied' \in [OpIds -> Nat]
  <2>1. applied \in [OpIds -> Nat]
    BY <1>0 DEF TypeOK
  <2>2. applied' = [applied EXCEPT ![o] = IF decision = "applied" THEN @ + 1 ELSE @]
    BY <1>3
  <2> QED
    BY <1>2, <2>1, <2>2
<1>7. CASE decision = "applied"
  <2>1. ApplyPrivacy(o, k, t)
    BY <1>3, <1>7 DEF privacy_apply_operation, decision
  <2>2. StoreTypeOK'
    BY <1>0, <1>2, <2>1, ApplyPrivacyType DEF TypeOK
  <2>3. TypeOK'
    BY <1>0, <1>3, <1>5, <1>6, <2>2 DEF TypeOK
  <2>4. privacyOps[o] = None /\ privacyOps'[o] # None /\ privacyOps'[o].kind = k
    <3>1. privacyOps' = [privacyOps EXCEPT ![o] =
             [kind |-> k, stamp |-> PayloadStamp(k, t), revision |-> PrivacyRevision]]
      BY <2>1 DEF ApplyPrivacy
    <3>2. privacyOps \in [OpIds -> PrivacyRows \cup {None}] /\ privacyOps' \in [OpIds -> PrivacyRows \cup {None}]
      BY <1>0, <2>2 DEF TypeOK, StoreTypeOK
    <3>3. privacyOps'[o] = [kind |-> k, stamp |-> PayloadStamp(k, t), revision |-> PrivacyRevision]
      BY <1>2, <3>1, <3>2
    <3>4. PrivacyRevision \in Nat /\ PayloadStamp(k, t) \in Stamps \cup {None}
      <4>1. profile \in Profiles
        BY <1>0 DEF TypeOK, StoreTypeOK
      <4>2. profile.revision \in Nat
        BY <4>1 DEF Profiles
      <4>3. PrivacyRevision \in Nat
        BY <4>2 DEF PrivacyRevision
      <4> QED
        BY <1>2, <4>3 DEF PayloadStamp
    <3>5. privacyOps'[o] \in PrivacyRows
      BY <1>2, <3>3, <3>4 DEF PrivacyRows
    <3> QED
      BY <1>4, <1>7, <3>3, <3>5, NoneAssumption
  <2>5. \A p \in OpIds \ {o} : privacyOps'[p] = privacyOps[p] /\ applied'[p] = applied[p]
    BY <1>0, <1>3, <2>1 DEF ApplyPrivacy, TypeOK, StoreTypeOK
  <2>6. LedgerInv'
    <3>1. /\ applied[o] = forgotten[o] + 0 /\ applied'[o] = applied[o] + 1
          /\ forgotten[o] \in Nat
      BY <1>0, <1>2, <1>3, <1>7, <2>4 DEF LedgerInv, TypeOK
    <3>2. applied'[o] = forgotten'[o] + 1
      BY <1>3, <3>1
    <3> QED
      BY <1>0, <1>3, <2>4, <2>5, <3>2 DEF LedgerInv
  <2>7. Remembered' = {} \/ (k # "delete_history" /\ Remembered' = Remembered)
    BY <2>1 DEF ApplyPrivacy, Remembered
  <2>8. \A p \in OpIds : Erased(p) => Erased(p)'
    BY <1>3, <2>7, ErasedStays
  <2>9. Done(c)'
    <3>1. asked[c] # None
      BY <1>1, NoneAssumption
    <3>2. k = "delete_history" =>
            /\ asked'[c] = [op |-> asked'[c].op, kind |-> "delete_history"]
            /\ before'[c] \cap Remembered' = {}
      BY <1>2, <1>3, <2>7 DEF o, k
    <3>3. k = "delete_history" => Erased(asked[c].op)'
      BY <3>2 DEF Erased
    <3> QED
      BY <1>3, <3>1, <3>3 DEF Done, k
  <2>10. ASSUME NEW d \in PrivacyCalls PROVE CallInv(d)'
    <3>1. Done(d) => Done(d)'
      BY <1>0, <1>3, <2>8, DoneStays
    <3>2. CallInv(d) /\ told' = told /\ asked' = asked
      BY <1>0, <1>3
    <3>3. CASE d = c
      BY <2>9, <3>3 DEF CallInv, Done
    <3>4. CASE d # c
      <4>1. rpc'[d] = rpc[d]
        BY <1>5, <3>4
      <4> QED
        BY <3>1, <3>2, <4>1 DEF CallInv
    <3> QED
      BY <3>3, <3>4
  <2>11. HistoryInv'
    <3>1. Remembered' \subseteq said' /\ \A d \in PrivacyCalls : before'[d] \subseteq said'
      BY <1>0, <1>3, <2>7 DEF HistoryInv
    <3>2. ASSUME NEW p \in OpIds, privacyOps'[p] # None, privacyOps'[p].kind = "delete_history"
          PROVE  Erased(p)'
      <4>1. CASE p = o
        <5>1. asked'[c] = [op |-> p, kind |-> "delete_history"] /\ Remembered' = {}
          BY <1>2, <1>3, <2>4, <2>7, <3>2, <4>1
        <5> QED
          BY <5>1 DEF Erased
      <4>2. CASE p # o
        <5>1. Erased(p)
          BY <1>0, <2>5, <3>2, <4>2 DEF HistoryInv
        <5> QED
          BY <2>8, <5>1
      <4> QED
        BY <4>1, <4>2
    <3> QED
      BY <3>1, <3>2 DEF HistoryInv
  <2> QED
    BY <2>3, <2>6, <2>10, <2>11 DEF Inv
<1>8. CASE decision # "applied"
  <2>1. UNCHANGED store
    BY <1>3, <1>8 DEF privacy_apply_operation, decision
  <2>2. StoreTypeOK'
    BY <1>0, <2>1, StoreSame DEF TypeOK
  <2>3. TypeOK'
    BY <1>0, <1>3, <1>5, <1>6, <2>2 DEF TypeOK
  <2>4. applied' = applied
    BY <1>0, <1>3, <1>8 DEF TypeOK
  <2>5. decision = "replayed" => Done(c)
    <3> SUFFICES ASSUME decision = "replayed" PROVE Done(c)
      OBVIOUS
    <3>1. privacyOps[o] # None /\ privacyOps[o].kind = k
      BY DEF decision, PrivacyDecision
    <3>2. asked[c] # None
      BY <1>1, NoneAssumption
    <3>3. k = "delete_history" => Erased(o)
      BY <1>0, <1>2, <3>1 DEF HistoryInv
    <3> QED
      BY <3>2, <3>3 DEF Done, o, k
  <2>6. Done(c) => Done(c)'
    <3>1. Remembered' = Remembered
      BY <2>1 DEF Remembered, store
    <3>2. \A p \in OpIds : Erased(p) => Erased(p)'
      BY <1>3, <3>1, ErasedStays
    <3> QED
      BY <1>0, <1>3, <3>2, DoneStays
  <2>7. CallInv(c)'
    <3>1. CallInv(c) /\ told' = told /\ asked' = asked /\ rpc'[c].result = decision
      BY <1>0, <1>3, <1>5
    <3>2. asked[c] # None
      BY <1>1, NoneAssumption
    <3>3. decision \in {"applied", "replayed"} => Done(c)'
      BY <1>8, <2>5, <2>6
    <3>4. told[c] = "ok" => Done(c)'
      BY <2>6, <3>1 DEF CallInv
    <3> QED
      BY <3>1, <3>2, <3>3, <3>4 DEF CallInv
  <2>8. \A d \in PrivacyCalls : before'[d] \subseteq said
    BY <1>0, <1>3 DEF HistoryInv
  <2> QED
    BY <1>3, <1>5, <2>1, <2>3, <2>4, <2>7, <2>8, CallOnly
<1> QED
  BY <1>7, <1>8

\* A turn that is run adds its own messages only, and they are new.
LEMMA TurnStep ==
  ASSUME Inv, NEW r \in RequestIds, NEW m \in Messages, NEW y \in Replies, Turn(r, m, y)
  PROVE  Inv'
<1> DEFINE ld == [revision |-> profile.revision, emotional |-> profile.emotional,
                  relationship |-> profile.relationship]
<1>0. TypeOK /\ LedgerInv /\ HistoryInv /\ \A d \in PrivacyCalls : CallInv(d)
  BY DEF Inv
<1>1. /\ y \notin said /\ said' = said \cup {y} /\ UNCHANGED <<clock, asked, rpc, told, applied, forgotten, before>>
      /\ commit_turn(r, m, y, ld)
  BY DEF Turn, service
<1>2. ld \in Loaded
  BY <1>0 DEF TypeOK, StoreTypeOK, Profiles, Loaded
<1> HIDE DEF ld
<1>3. /\ StoreTypeOK' /\ privacyOps' = privacyOps
      /\ chatLogs' = chatLogs \/ chatLogs' = chatLogs \o TurnMessages(y)
  <2>1. CASE ApplyTurn(r, m, y, ld)
    BY ZenonT(60), <1>0, <1>2, <2>1, ApplyTurnType DEF TypeOK, ApplyTurn
  <2>2. CASE UNCHANGED store
    BY <1>0, <2>2, StoreSame DEF TypeOK, store
  <2> QED
    BY <1>1, <2>1, <2>2 DEF commit_turn
<1>4. TypeOK'
  <2>1. said' \in SUBSET Replies
    BY <1>0, <1>1 DEF TypeOK
  <2> QED
    BY <1>0, <1>1, <1>3, <2>1 DEF TypeOK
<1>5. Remembered' \subseteq Remembered \cup {y}
  <2>1. chatLogs \in Seq(ChatRows)
    BY <1>0 DEF TypeOK, StoreTypeOK
  <2>2. \A i \in DOMAIN (chatLogs \o TurnMessages(y)) :
          \/ (chatLogs \o TurnMessages(y))[i].reply = y
          \/ \E j \in DOMAIN chatLogs : (chatLogs \o TurnMessages(y))[i].reply = chatLogs[j].reply
    BY <2>1, RememberedGrows
  <2>3. CASE chatLogs' = chatLogs
    BY <2>3 DEF Remembered
  <2>4. CASE chatLogs' = chatLogs \o TurnMessages(y)
    BY <2>2, <2>4 DEF Remembered
  <2> QED
    BY <1>3, <2>3, <2>4
<1>6. LedgerInv'
  BY <1>0, <1>1, <1>3 DEF LedgerInv
<1>7. \A o \in OpIds : Erased(o) => Erased(o)'
  <2>1. \A d \in PrivacyCalls : y \notin before[d]
    BY <1>0, <1>1 DEF HistoryInv
  <2>2. \A d \in PrivacyCalls : before[d] \cap Remembered' \subseteq Remembered
    BY <1>5, <2>1
  <2> QED
    BY <1>1, <2>2, ErasedStays
<1>8. ASSUME NEW d \in PrivacyCalls PROVE CallInv(d)'
  <2>1. Done(d) => Done(d)'
    BY <1>0, <1>1, <1>7, DoneStays
  <2> QED
    BY <1>0, <1>1, <2>1 DEF CallInv
<1>9. HistoryInv'
  <2>1. Remembered' \subseteq said' /\ \A d \in PrivacyCalls : before'[d] \subseteq said'
    BY <1>0, <1>1, <1>5 DEF HistoryInv
  <2> QED
    BY <1>0, <1>3, <1>7, <2>1 DEF HistoryInv
<1> QED
  BY <1>4, <1>6, <1>8, <1>9 DEF Inv

\* A ledger row is removed: what it stood for has been done.
LEMMA ForgetStep == ASSUME Inv, NEW o \in OpIds, Forget(o) PROVE Inv'
<1>0. TypeOK /\ LedgerInv /\ HistoryInv /\ \A d \in PrivacyCalls : CallInv(d)
  BY DEF Inv
<1>1. /\ privacyOps[o] # None /\ privacyOps' = [privacyOps EXCEPT ![o] = None]
      /\ forgotten' = [forgotten EXCEPT ![o] = @ + 1]
      /\ UNCHANGED <<profile, turns, chatLogs, outbox, memories, reservations>>
      /\ UNCHANGED <<clock, asked, rpc, told, applied, before, said>>
  BY DEF Forget, purge_privacy_operations, service
<1>2. TypeOK'
  <2>1. StoreTypeOK'
    BY <1>0, <1>1 DEF TypeOK, StoreTypeOK
  <2>2. forgotten' \in [OpIds -> Nat]
    BY <1>0, <1>1 DEF TypeOK
  <2> QED
    BY <1>0, <1>1, <2>1, <2>2 DEF TypeOK
<1>3. \A p \in OpIds \ {o} : UNCHANGED <<privacyOps[p], forgotten[p]>>
  BY <1>0, <1>1 DEF TypeOK, StoreTypeOK
<1>4. LedgerInv'
  <2>1. /\ privacyOps'[o] = None /\ forgotten'[o] = forgotten[o] + 1
        /\ forgotten[o] \in Nat /\ applied[o] = forgotten[o] + 1
    BY <1>0, <1>1 DEF LedgerInv, TypeOK, StoreTypeOK
  <2>2. applied'[o] = forgotten'[o] + 0
    BY <1>1, <2>1
  <2> QED
    BY <1>0, <1>1, <1>3, <2>1, <2>2 DEF LedgerInv
<1>5. Remembered' = Remembered
  BY <1>1 DEF Remembered
<1>6. \A p \in OpIds : Erased(p) => Erased(p)'
  BY <1>1, <1>5, ErasedStays
<1>7. ASSUME NEW d \in PrivacyCalls PROVE CallInv(d)'
  <2>1. Done(d) => Done(d)'
    BY <1>0, <1>1, <1>6, DoneStays
  <2> QED
    BY <1>0, <1>1, <2>1 DEF CallInv
<1>8. HistoryInv'
  <2>1. \A p \in OpIds : privacyOps'[p] # None => privacyOps'[p] = privacyOps[p]
    BY <1>0, <1>1, <1>3 DEF TypeOK, StoreTypeOK
  <2> QED
    BY <1>0, <1>1, <1>5, <1>6, <2>1 DEF HistoryInv
<1> QED
  BY <1>2, <1>4, <1>7, <1>8 DEF Inv

\* The clock moves on, or nothing does.
LEMMA TickStep ==
  ASSUME Inv, clock' \in Stamps, UNCHANGED <<store, service, ghosts>> PROVE Inv'
<1>0. TypeOK /\ LedgerInv /\ HistoryInv /\ \A d \in PrivacyCalls : CallInv(d)
  BY DEF Inv
<1>1. UNCHANGED <<asked, rpc, told, applied, forgotten, before, said, privacyOps, chatLogs>>
  BY DEF store, service, ghosts
<1>2. TypeOK'
  <2>1. StoreTypeOK'
    BY <1>0, StoreSame DEF TypeOK
  <2> QED
    BY <1>0, <1>1, <2>1 DEF TypeOK
<1>3. LedgerInv'
  BY <1>0, <1>1 DEF LedgerInv
<1>4. Remembered' = Remembered
  BY <1>1 DEF Remembered
<1>5. \A d \in PrivacyCalls : CallInv(d)'
  BY <1>0, <1>1, <1>4 DEF CallInv, Done, Erased
<1>6. HistoryInv'
  BY <1>0, <1>1, <1>4 DEF HistoryInv, Erased
<1> QED
  BY <1>2, <1>3, <1>5, <1>6 DEF Inv

\* The invariant that both results rest on.
THEOREM InvHolds == Spec => []Inv
<1>1. Inv /\ [Next]_vars => Inv'
  <2>a. SUFFICES ASSUME Inv, [Next]_vars PROVE Inv'
    OBVIOUS
  <2>1. CASE Tick \/ UNCHANGED vars
    <3>1. clock' \in Stamps /\ UNCHANGED <<store, service, ghosts>>
      BY <2>a, <2>1 DEF Tick, vars, Inv, TypeOK
    <3> QED
      BY <2>a, <3>1, TickStep
  <2>2. ASSUME NEW c \in PrivacyCalls,
               \/ \E o \in OpIds, k \in PrivacyKinds : Ask(c, o, k)
               \/ Execute(c) \/ Lose(c) \/ Unavailable(c) \/ Respond(c)
        PROVE  Inv'
    BY <2>a, <2>2, AskStep, ExecuteStep, ReplyStep
  <2>3. ASSUME NEW r \in RequestIds, NEW m \in Messages, NEW y \in Replies, Turn(r, m, y)
        PROVE  Inv'
    BY <2>a, <2>3, TurnStep
  <2>4. ASSUME NEW o \in OpIds, Forget(o) PROVE Inv'
    BY <2>a, <2>4, ForgetStep
  <2> QED
    BY <2>a, <2>1, <2>2, <2>3, <2>4 DEF Next
<1> QED
  BY <1>1, InitInv, PTL DEF Spec

\* However often an operation id is sent and however late an RPC arrives, its
\* operation takes effect once per ledger row: privacy_apply_operation consults
\* the ledger in the transaction that writes it, so it takes effect again only
\* after purge_privacy_operations has removed the row.
THEOREM AppliedOnceHolds == Spec => []AppliedOnce
<1>1. Inv => AppliedOnce
  <2> SUFFICES ASSUME Inv, NEW o \in OpIds PROVE applied[o] <= forgotten[o] + 1
    BY DEF AppliedOnce
  <2>1. forgotten[o] \in Nat
    BY DEF Inv, TypeOK
  <2> QED
    BY <2>1 DEF Inv, LedgerInv
<1> QED
  BY <1>1, InvHolds, PTL

\* An "ok" to delete_history, given for a result that was applied now or
\* replayed, means that all messages which some call of the operation was made
\* after are gone, and stay so whatever turns are run later and whether or not the
\* ledger still knows of it.
THEOREM DeletedIsGoneHolds == Spec => []DeletedIsGone
<1>1. Inv => DeletedIsGone
  <2> SUFFICES ASSUME Inv, NEW c \in PrivacyCalls, told[c] = "ok", asked[c].kind = "delete_history"
               PROVE  \E d \in PrivacyCalls : asked[d] = asked[c] /\ before[d] \cap Remembered = {}
    BY DEF DeletedIsGone
  <2>1. TypeOK /\ Done(c)
    BY DEF Inv, CallInv
  <2>2. asked[c] \in Requested
    BY <2>1 DEF TypeOK, Done
  <2>3. asked[c].op \in OpIds /\ asked[c] = [op |-> asked[c].op, kind |-> "delete_history"]
    BY <2>2 DEF Requested
  <2>4. Erased(asked[c].op)
    BY <2>1, <2>3 DEF Done
  <2> QED
    BY <2>3, <2>4 DEF Erased
<1> QED
  BY <1>1, InvHolds, PTL

=============================================================================
