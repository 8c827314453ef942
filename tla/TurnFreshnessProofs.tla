------------------------- MODULE TurnFreshnessProofs -------------------------
(* The inductive invariant of ProcessTurn and what follows from it: what a *)
(* call has read stays named by the revision it carries, hence a commit    *)
(* never overwrites or ignores what it did not see.                        *)
EXTENDS ProcessTurn, TLAPS

\* Each leaf is tried with the defaults first and then given more time.
USE SMT, Zenon, Z3T(60), ZenonT(30), SMTT(60), Z3T(90)

-----------------------------------------------------------------------------
(* The inductive invariant.  A load is fresh when the revision it carries  *)
(* still names the state it was read from: that is what makes comparing    *)
(* revisions in commit_turn enough.                                        *)

Fresh(ld) ==
  /\ ld.revision <= profile.revision
  /\ ld.revision = profile.revision =>
       /\ ld.emotional = profile.emotional
       /\ ld.relationship = profile.relationship

FreshHistory(ld, cx) == ld.revision = profile.revision => cx.history = chatLogs

FreshMemories(ld, cx) == ld.revision = profile.revision => cx.memories = memories

Requests == [request : RequestIds, message : Messages]

NothingWithoutProfile ==
  ~profile.exists => /\ profile.emotional = <<>> /\ profile.relationship = <<>>
                     /\ chatLogs = <<>> /\ memories = {}

AskedInv ==
  \A c \in Calls : (pc[c] # "idle" \/ wire[c] # None) => asked[c] \in Requests

LoadedFresh(c) ==
  /\ pc[c] \in {"load_history", "load_memories", "provider"} =>
       loaded[c] \in Loaded /\ Fresh(loaded[c])
  /\ pc[c] \in {"load_memories", "provider"} =>
       context[c] \in Contexts /\ FreshHistory(loaded[c], context[c])
  /\ pc[c] = "provider" => FreshMemories(loaded[c], context[c])

WireFresh(c) ==
  wire[c] # None =>
    /\ Fresh(wire[c].loaded)
    /\ FreshHistory(wire[c].loaded, wire[c].context)
    /\ FreshMemories(wire[c].loaded, wire[c].context)

LoadedInv == \A c \in Calls : LoadedFresh(c)
WireInv == \A c \in Calls : WireFresh(c)

Inv == TypeOK /\ NothingWithoutProfile /\ AskedInv /\ LoadedInv /\ WireInv

-----------------------------------------------------------------------------
(* What each write of the store does to the invariant's ingredients.       *)

\* An empty store without calls satisfies the invariant.
LEMMA InitInv == Init => Inv
<1> SUFFICES ASSUME Init PROVE Inv
  OBVIOUS
<1>1. TypeOK
  <2>1. profile \in Profiles
    <3>1. NoProfile \in Profiles
      BY DEF NoProfile, Profiles, Snapshots
    <3>2. [NoProfile EXCEPT !.exists = TRUE] \in Profiles
      BY Zenon, <3>1 DEF Profiles
    <3> QED BY Zenon, <3>1, <3>2 DEF Init, StoreInit
  <2> QED BY <2>1 DEF Init, TypeOK, MAX_COMMIT_ATTEMPTS, StoreInit, StoreTypeOK
<1> QED
  BY <1>1 DEF Inv, Init, StoreInit, NoProfile, NothingWithoutProfile, AskedInv, LoadedInv,
     WireInv, LoadedFresh, WireFresh

-----------------------------------------------------------------------------
(* Types.                                                                  *)

\* Answering a call leaves the handler's state well typed.
LEMMA AnswerType ==
  ASSUME TypeOK, NEW c \in Calls, NEW a \in Answers, Answer(c, a)
  PROVE  /\ pc' \in [Calls -> Stages \cup {"idle", "admission", "done"}]
         /\ answer' \in [Calls -> Answers \cup {None}]
         /\ lockHolder' \in [Instances -> Calls \cup {None}]
  BY DEF TypeOK, Answer

\* Every error of the handler is an answer.
LEMMA ErrorType == \A e \in ErrorCodes : Error(e) \in Answers
  BY DEF Error, Answers

\* Every reply makes an answer.
LEMMA OkType == \A y \in Replies : Ok(y) \in Answers
  BY DEF Ok, Answers

\* commit_turn keeps the store well typed.
LEMMA ApplyTurnType ==
  ASSUME StoreTypeOK, NEW r \in RequestIds, NEW m \in Messages, NEW y \in Replies,
         NEW ld \in Loaded, ApplyTurn(r, m, y, ld)
  PROVE  StoreTypeOK'
<1>1. profile' \in Profiles
  <2>1. profile.revision + 1 \in Nat
    BY DEF StoreTypeOK, Profiles
  <2> QED BY <2>1 DEF ApplyTurn, Profiles, Loaded, Snapshots
<1>2. turns' \in [RequestIds -> TurnRows \cup {None}]
  BY DEF StoreTypeOK, Profiles, TurnRows, ApplyTurn
<1>3. chatLogs' \in Seq(ChatRows)
  <2> QED BY DEF ApplyTurn, StoreTypeOK, TurnMessages, ChatRows
<1>4. outbox' \in SUBSET RequestIds
  BY DEF ApplyTurn, StoreTypeOK
<1> QED BY <1>1, <1>2, <1>3, <1>4 DEF ApplyTurn, StoreTypeOK

\* privacy_apply_operation keeps the store well typed.
LEMMA ApplyPrivacyType ==
  ASSUME StoreTypeOK, NEW o \in OpIds, NEW k \in PrivacyKinds, NEW t \in Stamps,
         ApplyPrivacy(o, k, t)
  PROVE  StoreTypeOK'
<1>1. PrivacyRevision \in Nat
  BY DEF PrivacyRevision, StoreTypeOK, Profiles
<1>2. profile' \in Profiles
  <2>1. <<>> \in Snapshots
    BY DEF Snapshots
  <2> QED BY Zenon, <1>1, <2>1 DEF ApplyPrivacy, StoreTypeOK, Profiles
<1>3. privacyOps' \in [OpIds -> PrivacyRows \cup {None}]
  <2> QED BY <1>1 DEF ApplyPrivacy, StoreTypeOK, PrivacyRows, PayloadStamp
<1> QED BY <1>2, <1>3 DEF ApplyPrivacy, StoreTypeOK

\* A step that leaves the store alone keeps its type.
LEMMA StoreSame ==
  ASSUME StoreTypeOK, UNCHANGED store
  PROVE  StoreTypeOK'
  BY DEF StoreTypeOK, store

\* reserve_admission leaves the store well typed.
LEMMA ReserveType ==
  ASSUME StoreTypeOK, NEW r \in RequestIds, NEW m \in Messages, Reserve(r, m)
  PROVE  StoreTypeOK'
  BY DEF StoreTypeOK, Reserve

\* Every step leaves handlers and store well typed.
LEMMA TypeStep == Inv /\ [Next]_vars => TypeOK'
<1>a. SUFFICES ASSUME Inv, [Next]_vars PROVE TypeOK'
  OBVIOUS
<1>t. TypeOK /\ StoreTypeOK
  BY <1>a DEF Inv, TypeOK
<1>l. \A c \in Calls : LoadedFresh(c)
  BY <1>a DEF Inv, LoadedInv
<1>s. UNCHANGED store => StoreTypeOK'
  BY <1>t, StoreSame
<1>0. \A c \in Calls : pc[c] # "idle" \/ wire[c] # None => asked[c] \in Requests
  BY <1>a DEF Inv, AskedInv
<1>1. ASSUME NEW c \in Calls, NEW r \in RequestIds, NEW m \in Messages, Arrive(c, r, m)
      PROVE  TypeOK'
  BY <1>t, <1>1, <1>s DEF Arrive, TypeOK, Stages, ghosts
<1>2. ASSUME NEW c \in Calls, Admit(c) PROVE TypeOK'
  <2>1. StoreTypeOK'
    BY <1>0, <1>2, <1>t, ReserveType DEF Admit, TypeOK, Requests
  <2> QED BY <1>0, <1>2, <1>t, <2>1 DEF Admit, TypeOK, Stages, Requests
<1>3. ASSUME NEW c \in Calls, AdmitReplay(c) PROVE TypeOK'
  BY <1>t, <1>3, <1>s DEF AdmitReplay, TypeOK, Stages, ghosts
<1>4. ASSUME NEW c \in Calls, Reject(c) PROVE TypeOK'
  <2>1. StoreTypeOK'
    BY <1>t, <1>4, <1>s DEF Reject, TypeOK
  <2>2. "rejected" \in ErrorCodes /\ "request_id_conflict" \in ErrorCodes
    BY DEF ErrorCodes
  <2>3. PICK a \in Answers : Answer(c, a)
    BY <1>4, <2>2, ErrorType DEF Reject
  <2> QED BY <1>t, <1>4, <2>1, <2>3, AnswerType DEF Reject, TypeOK, ghosts
<1>5. ASSUME NEW c \in Calls, AdmissionUnavailable(c) PROVE TypeOK'
  <2>1. asked[c].request \in RequestIds /\ asked[c].message \in Messages
    BY <1>0, <1>5 DEF AdmissionUnavailable, Requests
  <2>2. PICK a \in Answers : Answer(c, a)
    BY <1>5, ErrorType DEF AdmissionUnavailable, ErrorCodes
  <2>3. StoreTypeOK' /\ admissions' \in [RequestIds -> Nat]
    <3>1. CASE UNCHANGED <<store, admissions>>
      BY <1>t, <3>1, <1>s DEF TypeOK
    <3>2. CASE /\ Reserve(asked[c].request, asked[c].message)
               /\ admissions' = [admissions EXCEPT ![asked[c].request] = @ + 1]
      BY <1>t, <2>1, <3>2, ReserveType DEF TypeOK
    <3> QED BY <1>5, <3>1, <3>2 DEF AdmissionUnavailable
  <2> QED BY <1>t, <1>5, <2>2, <2>3, AnswerType DEF AdmissionUnavailable, TypeOK
<1>6. ASSUME NEW c \in Calls, AcquireLock(c) PROVE TypeOK'
  BY Zenon, <1>t, <1>6, <1>s, InstanceAssumption DEF AcquireLock, TypeOK, Stages, ghosts
<1>7. ASSUME NEW c \in Calls, LoadState(c) PROVE TypeOK'
  <2>1. [revision |-> profile.revision, emotional |-> profile.emotional,
         relationship |-> profile.relationship] \in Loaded
    BY <1>t DEF TypeOK, StoreTypeOK, Profiles, Loaded
  <2> QED BY <1>t, <1>7, <2>1, <1>s DEF LoadState, TypeOK, Stages, ghosts
<1>8. ASSUME NEW c \in Calls, LoadHistory(c) PROVE TypeOK'
  <2>1. [history |-> chatLogs, memories |-> {}] \in Contexts
    BY <1>t DEF TypeOK, StoreTypeOK, Contexts
  <2> QED BY <1>t, <1>8, <2>1, <1>s DEF LoadHistory, TypeOK, Stages, ghosts
<1>9. ASSUME NEW c \in Calls, LoadMemories(c) PROVE TypeOK'
  <2>1. [context[c] EXCEPT !.memories = memories] \in Contexts
    BY Zenon, <1>l, <1>t, <1>9 DEF LoadMemories, LoadedFresh, TypeOK, StoreTypeOK, Contexts
  <2> QED BY <1>t, <1>9, <2>1, <1>s DEF LoadMemories, TypeOK, Stages, ghosts
<1>10. ASSUME NEW c \in Calls, Generate(c) PROVE TypeOK'
  <2>1. <<c, attempt[c]>> \in Replies
    BY <1>t DEF TypeOK, Replies
  <2>2. [loaded |-> loaded[c], context |-> context[c],
         reply |-> <<c, attempt[c]>>, outcome |-> "sent"] \in WireRpcs
    BY <1>l, <1>10, <2>1 DEF Generate, LoadedFresh, WireRpcs, Outcomes
  <2> QED BY <1>t, <1>10, <2>2, <1>s DEF Generate, TypeOK, Stages, ghosts
<1>11. ASSUME NEW c \in Calls, ExecuteCommit(c) PROVE TypeOK'
  <2> DEFINE r == asked[c].request
             w == wire[c]
             decision == CommitDecision(r, w.reply, w.loaded.revision)
  <2>1. r \in RequestIds /\ asked[c].message \in Messages
    BY <1>0, <1>11 DEF ExecuteCommit, Requests
  <2>2. w \in WireRpcs
    BY <1>t, <1>11 DEF ExecuteCommit, TypeOK
  <2>3. decision \in Outcomes
    BY DEF CommitDecision, Outcomes
  <2>4. StoreTypeOK'
    BY <1>t, <1>11, <2>1, <2>2, ApplyTurnType, <1>s DEF ExecuteCommit, commit_turn, TypeOK,
       WireRpcs
  <2>5. wire' \in [Calls -> WireRpcs \cup {None}]
    <3>1. [w EXCEPT !.outcome = decision] \in WireRpcs
      BY <2>2, <2>3 DEF WireRpcs
    <3>2. wire' = [wire EXCEPT ![c] = [w EXCEPT !.outcome = decision]]
      BY <1>11 DEF ExecuteCommit
    <3> QED BY <1>t, <3>1, <3>2 DEF TypeOK
  <2>6. commits' \in [RequestIds -> Seq(Replies)]
    <3>1. Append(commits[r], w.reply) \in Seq(Replies)
      BY <1>t, <2>1, <2>2 DEF TypeOK, WireRpcs
    <3> QED BY Zenon, <1>t, <1>11, <3>1 DEF ExecuteCommit, TypeOK
  <2> QED BY <1>t, <1>11, <2>4, <2>5, <2>6 DEF ExecuteCommit, TypeOK, handler
<1>12. ASSUME NEW c \in Calls, LoseCommit(c) PROVE TypeOK'
  BY <1>t, <1>12, <1>s DEF LoseCommit, TypeOK, handler, ghosts
<1>13. ASSUME NEW c \in Calls, CommitSucceeded(c) PROVE TypeOK'
  <2>1. wire[c].reply \in Replies
    BY <1>t, <1>13 DEF CommitSucceeded, Returned, TypeOK, WireRpcs
  <2> QED
    BY <1>t, <1>13, <2>1, OkType, AnswerType, <1>s DEF CommitSucceeded, TypeOK, ghosts
<1>14. ASSUME NEW c \in Calls, RetryTurn(c) PROVE TypeOK'
  <2>1. attempt[c] + 1 \in 1..MAX_COMMIT_ATTEMPTS
    <3>1. attempt[c] \in 1..MAX_COMMIT_ATTEMPTS
      BY <1>t DEF TypeOK
    <3> QED BY <1>14, <3>1 DEF MAX_COMMIT_ATTEMPTS, RetryTurn
  <2> QED BY <1>t, <1>14, <2>1, <1>s DEF RetryTurn, TypeOK, Stages, ghosts
<1>15. ASSUME NEW c \in Calls, CommitConflict(c) PROVE TypeOK'
  <2>1. wire[c].outcome \in ErrorCodes
    BY <1>15 DEF CommitConflict, ErrorCodes
  <2> QED
    BY <1>t, <1>15, <2>1, ErrorType, AnswerType, <1>s DEF CommitConflict, TypeOK, ghosts
<1>16. ASSUME NEW c \in Calls, CommitUnavailable(c) PROVE TypeOK'
  <2>1. "failed" \in ErrorCodes
    BY DEF ErrorCodes
  <2> QED
    BY <1>t, <1>16, <2>1, ErrorType, AnswerType, <1>s DEF CommitUnavailable, TypeOK, ghosts
<1>17. ASSUME NEW c \in Calls, Replay(c) PROVE TypeOK'
  <2> DEFINE r == asked[c].request
  <2>1. r \in RequestIds
    BY <1>0, <1>17 DEF Replay, Requests
  <2>2. ReplayDecision(r) = "completed" => turns[r].reply \in Replies
    BY <1>t, <2>1 DEF ReplayDecision, TypeOK, StoreTypeOK, TurnRows
  <2>3. "request_replay_unavailable" \in ErrorCodes
    BY DEF ErrorCodes
  <2>4. PICK a \in Answers : Answer(c, a)
    BY <1>17, <2>2, <2>3, OkType, ErrorType DEF Replay
  <2> QED BY <1>t, <1>17, <2>4, AnswerType, <1>s DEF Replay, TypeOK, ghosts
<1>18. ASSUME NEW c \in Calls, Abandon(c) PROVE TypeOK'
  <2>1. "failed" \in ErrorCodes
    BY DEF ErrorCodes
  <2> QED BY <1>t, <1>18, <2>1, ErrorType, AnswerType, <1>s DEF Abandon, TypeOK, ghosts
<1>19. ASSUME NEW o \in OpIds, NEW k \in PrivacyKinds, NEW t \in Stamps, Privacy(o, k, t)
       PROVE  TypeOK'
  BY <1>t, <1>19, ApplyPrivacyType, <1>s DEF Privacy, TypeOK, handler, privacy_apply_operation
<1>20. ASSUME NEW r \in RequestIds, ForgetReservation(r) PROVE TypeOK'
  <2>1. StoreTypeOK'
    BY <1>t, <1>20 DEF ForgetReservation, purge_admission_reservations, TypeOK, StoreTypeOK
  <2> QED BY <1>t, <1>20, <2>1 DEF ForgetReservation, TypeOK, handler, ghosts
<1>21. ASSUME NEW o \in OpIds, ForgetPrivacyOp(o) PROVE TypeOK'
  <2>1. StoreTypeOK'
    BY <1>t, <1>21 DEF ForgetPrivacyOp, purge_privacy_operations, TypeOK, StoreTypeOK
  <2> QED BY <1>t, <1>21, <2>1 DEF ForgetPrivacyOp, TypeOK, handler, ghosts
<1>22. ASSUME UNCHANGED vars PROVE TypeOK'
  BY <1>t, <1>22, <1>s DEF vars, TypeOK, handler
<1> QED
  BY <1>a, <1>1, <1>2, <1>3, <1>4, <1>5, <1>6, <1>7, <1>8, <1>9, <1>10, <1>11, <1>12, <1>13,
     <1>14, <1>15, <1>16, <1>17, <1>18, <1>19, <1>20, <1>21, <1>22 DEF Next, CallStep

-----------------------------------------------------------------------------
(* A step of a call, action by action.                                     *)

\* A call that runs its turn.
Working == {"load_state", "load_history", "load_memories", "provider", "commit"}

\* What a step of call c leaves alone: all that other calls work with, and the
\* tables of the store except the reservations.
CallFrame(c) ==
  /\ UNCHANGED <<asked, commits, profile, turns, chatLogs, memories>>
  /\ pc[c] \notin {"idle", "done"} /\ pc'[c] # "idle"
  /\ \A d \in Calls \ {c} : UNCHANGED <<pc[d], mode[d], loaded[d], context[d], wire[d], answer[d]>>

\* The functions that the handlers of calls work with have an entry for each call.
LEMMA HandlerDomains ==
  ASSUME TypeOK
  PROVE  /\ DOMAIN pc = Calls /\ DOMAIN mode = Calls /\ DOMAIN attempt = Calls
         /\ DOMAIN loaded = Calls /\ DOMAIN context = Calls /\ DOMAIN wire = Calls
         /\ DOMAIN answer = Calls
  BY DEF TypeOK

\* A step of the handler changes the state of its own call only.
LEMMA CallStepFrame ==
  ASSUME TypeOK, NEW c \in Calls, CallStep(c)
  PROVE  CallFrame(c)
<1> USE HandlerDomains DEF CallFrame, ghosts
<1>1. CASE Admit(c)
  BY ZenonT(60), <1>1 DEF Admit, Reserve
<1>2. CASE AdmitReplay(c)
  BY <1>2 DEF AdmitReplay, store
<1>3. CASE Reject(c)
  BY <1>3 DEF Reject, Answer, store
<1>4. CASE AdmissionUnavailable(c)
  BY <1>4 DEF AdmissionUnavailable, Answer, Reserve, store
<1>5. CASE AcquireLock(c)
  BY <1>5 DEF AcquireLock, store
<1>6. CASE LoadState(c)
  BY <1>6 DEF LoadState, store
<1>7. CASE LoadHistory(c)
  BY <1>7 DEF LoadHistory, store
<1>8. CASE LoadMemories(c)
  BY <1>8 DEF LoadMemories, store
<1>9. CASE Generate(c)
  BY <1>9 DEF Generate, store
<1>10. CASE CommitSucceeded(c)
  BY ZenonT(60), <1>10 DEF CommitSucceeded, Returned, Answer, store
<1>11. CASE RetryTurn(c)
  BY <1>11 DEF RetryTurn, Returned, store
<1>12. CASE CommitConflict(c)
  BY <1>12 DEF CommitConflict, Returned, Answer, store
<1>13. CASE CommitUnavailable(c)
  BY <1>13 DEF CommitUnavailable, Answer, store
<1>14. CASE Replay(c)
  BY <1>14 DEF Replay, Answer, store
<1>15. CASE Abandon(c)
  BY <1>15 DEF Abandon, Answer, Stages, store
<1> QED
  BY ZenonT(60), <1>1, <1>2, <1>3, <1>4, <1>5, <1>6, <1>7, <1>8, <1>9, <1>10, <1>11, <1>12, <1>13, <1>14,
     <1>15 DEF CallStep

\* What a step of call c does to its own part of the handlers: it works in the
\* mode it was admitted with, only the reads lead to the provider, and only a
\* generated reply goes to the database.
CallMoves(c) ==
  /\ wire'[c] = wire[c] \/ wire'[c] = None \/ (Generate(c) /\ wire'[c].outcome = "sent")
  /\ \/ LoadState(c) \/ LoadHistory(c) \/ LoadMemories(c)
     \/ pc'[c] \notin {"load_history", "load_memories", "provider"}
  /\ pc'[c] \in Working => mode'[c] = mode[c] /\ (pc[c] \in Working \/ mode[c] = "normal")
  /\ wire'[c] # None /\ pc'[c] \notin {"commit", "done"} =>
       wire[c] # None /\ pc[c] \notin {"commit", "done"}

\* What a step of the handler may do to the snapshots and the wire of its call.
LEMMA CallStepMoves ==
  ASSUME TypeOK, NEW c \in Calls, CallStep(c)
  PROVE  CallMoves(c)
<1> USE HandlerDomains DEF CallMoves, Working
<1>1. CASE Admit(c)
  BY <1>1 DEF Admit
<1>2. CASE AdmitReplay(c)
  BY <1>2 DEF AdmitReplay
<1>3. CASE Reject(c)
  BY <1>3 DEF Reject, Answer
<1>4. CASE AdmissionUnavailable(c)
  BY <1>4 DEF AdmissionUnavailable, Answer
<1>5. CASE AcquireLock(c)
  BY <1>5 DEF AcquireLock
<1>6. CASE LoadState(c)
  BY ZenonT(60), <1>6 DEF LoadState
<1>7. CASE LoadHistory(c)
  BY <1>7 DEF LoadHistory
<1>8. CASE LoadMemories(c)
  BY <1>8 DEF LoadMemories
<1>9. CASE Generate(c)
  BY <1>9 DEF Generate
<1>10. CASE CommitSucceeded(c)
  BY <1>10 DEF CommitSucceeded, Returned, Answer
<1>11. CASE RetryTurn(c)
  BY <1>11 DEF RetryTurn, Returned
<1>12. CASE CommitConflict(c)
  BY <1>12 DEF CommitConflict, Returned, Answer
<1>13. CASE CommitUnavailable(c)
  BY <1>13 DEF CommitUnavailable, Answer
<1>14. CASE Replay(c)
  BY <1>14 DEF Replay, Answer
<1>15. CASE Abandon(c)
  BY ZenonT(60), <1>15 DEF Abandon, Answer, Stages
<1> QED
  BY ZenonT(60), <1>1, <1>2, <1>3, <1>4, <1>5, <1>6, <1>7, <1>8, <1>9, <1>10, <1>11, <1>12, <1>13, <1>14,
     <1>15 DEF CallStep

-----------------------------------------------------------------------------
(* Freshness.  A step either leaves everything a turn reads as it is, or   *)
(* raises the revision past every revision read so far.                    *)

Overtakes == profile'.exists /\ profile'.revision > profile.revision

\* What a load reads is left alone, or the revision moves past it.
LEMMA StoreMoves ==
  Inv /\ [Next]_vars => UNCHANGED <<profile, chatLogs, memories>> \/ Overtakes
<1> SUFFICES ASSUME Inv, [Next]_vars, ~UNCHANGED <<profile, chatLogs, memories>>
             PROVE  Overtakes
  OBVIOUS
<1>0. profile \in Profiles
  BY DEF Inv, TypeOK, StoreTypeOK
<1>1. ASSUME NEW c \in Calls, ExecuteCommit(c) PROVE Overtakes
  <2>1. ApplyTurn(asked[c].request, asked[c].message, wire[c].reply, wire[c].loaded)
    BY <1>1 DEF ExecuteCommit, commit_turn, store
  <2> QED
    <3>1. profile'.exists /\ profile'.revision = profile.revision + 1
      BY ZenonT(60), <2>1 DEF ApplyTurn
    <3> QED BY <1>0, <3>1 DEF Overtakes, Profiles
<1>2. ASSUME NEW o \in OpIds, NEW k \in PrivacyKinds, NEW t \in Stamps, Privacy(o, k, t)
      PROVE  Overtakes
  <2>1. ApplyPrivacy(o, k, t)
    BY <1>2 DEF Privacy, privacy_apply_operation, store
  <2>2. profile.exists
    <3>1. SUFFICES ASSUME ~profile.exists PROVE UNCHANGED <<profile, chatLogs, memories>>
      OBVIOUS
    <3>2. /\ profile.emotional = <<>> /\ profile.relationship = <<>>
          /\ chatLogs = <<>> /\ memories = {}
      BY <3>1 DEF Inv, NothingWithoutProfile
    <3>3. profile' = [profile EXCEPT !.revision = profile.revision,
                                     !.emotional = profile.emotional,
                                     !.relationship = profile.relationship]
      BY <2>1, <3>1, <3>2 DEF ApplyPrivacy, PrivacyRevision
    <3>4. profile' = profile
      BY Zenon, <1>0, <3>3 DEF Profiles
    <3> QED BY <2>1, <3>2, <3>4 DEF ApplyPrivacy
  <2> QED BY <1>0, <2>1, <2>2 DEF ApplyPrivacy, PrivacyRevision, Overtakes, Profiles
<1>3. CASE UNCHANGED vars
  BY <1>3 DEF vars, store
<1>4. ASSUME NEW c \in Calls, CallStep(c) PROVE UNCHANGED <<profile, chatLogs, memories>>
  BY <1>4, CallStepFrame DEF CallFrame, Inv
<1> QED
  BY ZenonT(60), <1>1, <1>2, <1>3, <1>4 DEF Next, Arrive, LoseCommit, ForgetReservation, ForgetPrivacyOp,
     purge_admission_reservations, purge_privacy_operations, store

\* Messages and memories exist only where a profile does.
LEMMA ProfileStep == Inv /\ [Next]_vars => NothingWithoutProfile'
  BY StoreMoves DEF Inv, NothingWithoutProfile, Overtakes

\* A call that has begun has a request.
LEMMA AskedStep == Inv /\ [Next]_vars => AskedInv'
<1>a. SUFFICES ASSUME Inv, [Next]_vars PROVE AskedInv'
  OBVIOUS
<1>0. TypeOK /\ AskedInv
  BY <1>a DEF Inv
<1>1. ASSUME NEW c \in Calls, NEW r \in RequestIds, NEW m \in Messages, Arrive(c, r, m)
      PROVE  AskedInv'
  BY <1>0, <1>1 DEF Arrive, AskedInv, Requests, TypeOK
<1>2. ASSUME NEW c \in Calls, CallStep(c) PROVE AskedInv'
  BY ZenonT(60), <1>0, <1>2, CallStepFrame DEF CallFrame, AskedInv
<1>3. ASSUME NEW c \in Calls, ExecuteCommit(c) PROVE AskedInv'
  <2>1. wire[c] # None /\ UNCHANGED <<pc, asked>>
    BY <1>3 DEF ExecuteCommit, handler
  <2>2. \A d \in Calls \ {c} : wire'[d] = wire[d]
    BY <1>0, <1>3, HandlerDomains DEF ExecuteCommit
  <2> QED BY <1>0, <2>1, <2>2 DEF AskedInv
<1>4. ASSUME NEW c \in Calls, LoseCommit(c) PROVE AskedInv'
  BY <1>0, <1>4, HandlerDomains DEF LoseCommit, AskedInv, handler
<1>5. CASE UNCHANGED <<handler, wire>>
  BY <1>0, <1>5 DEF AskedInv, handler
<1> QED
  BY <1>a, <1>1, <1>2, <1>3, <1>4, <1>5 DEF Next, Privacy, ForgetReservation, ForgetPrivacyOp,
     vars

\* A revision that was passed is never met again.
LEMMA Below ==
  ASSUME NEW a \in Nat, NEW b \in Nat, NEW e \in Nat, a <= b, e > b
  PROVE  a <= e /\ a # e
  OBVIOUS

\* A call that stands still keeps what it loaded fresh.
LEMMA LoadedKept ==
  ASSUME Inv, [Next]_vars, NEW d \in Calls, UNCHANGED <<pc[d], loaded[d], context[d]>>
  PROVE  LoadedFresh(d)'
<1>1. profile.revision \in Nat /\ profile'.revision \in Nat
  BY ZenonT(60), TypeStep DEF Inv, TypeOK, StoreTypeOK, Profiles
<1>2. CASE UNCHANGED <<profile, chatLogs, memories>>
  BY ZenonT(60), <1>2 DEF LoadedFresh, Fresh, FreshHistory, FreshMemories, Inv, LoadedInv
<1>3. CASE Overtakes
  BY <1>3, <1>1, Below DEF Loaded, Fresh, Overtakes, LoadedFresh, FreshHistory, FreshMemories,
     Inv, LoadedInv
<1> QED BY <1>2, <1>3, StoreMoves

\* A commit on the wire keeps the reads it was sent with fresh.
LEMMA WireKept ==
  ASSUME Inv, [Next]_vars, NEW d \in Calls, wire[d] # None => wire[d] \in WireRpcs,
         wire'[d] # None => /\ wire[d] # None
                            /\ wire'[d].loaded = wire[d].loaded
                            /\ wire'[d].context = wire[d].context
  PROVE  WireFresh(d)'
<1>1. profile.revision \in Nat /\ profile'.revision \in Nat
  BY ZenonT(60), TypeStep DEF Inv, TypeOK, StoreTypeOK, Profiles
<1>2. CASE UNCHANGED <<profile, chatLogs, memories>>
  BY ZenonT(60), <1>2 DEF WireFresh, Fresh, FreshHistory, FreshMemories, Inv, WireInv
<1>3. CASE Overtakes
  BY ZenonT(60), <1>3, <1>1, Below DEF WireRpcs, Loaded, WireFresh, Fresh, Overtakes, Inv, WireInv,
     FreshHistory, FreshMemories
<1> QED BY <1>2, <1>3, StoreMoves

\* No step makes a loaded revision name other data than was read.
LEMMA LoadedStep == Inv /\ [Next]_vars => LoadedInv'
<1>a. SUFFICES ASSUME Inv, [Next]_vars, NEW d \in Calls PROVE LoadedFresh(d)'
  BY DEF LoadedInv
<1>0. TypeOK /\ TypeOK' /\ LoadedFresh(d)
  BY <1>a, TypeStep DEF Inv, LoadedInv
<1>1. ASSUME LoadState(d) PROVE LoadedFresh(d)'
  <2>1. profile \in Profiles
    BY <1>0 DEF TypeOK, StoreTypeOK
  <2> QED
    BY <1>0, <1>1, HandlerDomains, <2>1 DEF LoadedFresh, Profiles, Loaded, Fresh, LoadState,
       store
<1>2. ASSUME LoadHistory(d) PROVE LoadedFresh(d)'
  <2>1. pc'[d] = "load_memories" /\ loaded'[d] = loaded[d] /\ UNCHANGED profile
    BY ZenonT(60), <1>0, <1>2 DEF LoadHistory, TypeOK, store
  <2>2. context'[d] = [history |-> chatLogs', memories |-> {}]
    BY <1>0, <1>2 DEF LoadHistory, TypeOK, store
  <2>3. context'[d] \in Contexts
    <3>1. chatLogs' \in Seq(ChatRows)
      BY <1>0 DEF TypeOK, StoreTypeOK
    <3> QED BY <2>2, <3>1 DEF Contexts
  <2>4. loaded[d] \in Loaded /\ Fresh(loaded[d])
    BY <1>0, <1>2 DEF LoadedFresh, LoadHistory
  <2>5. Fresh(loaded[d])' /\ FreshHistory(loaded[d], context[d])'
    BY <2>1, <2>2, <2>4 DEF Fresh, FreshHistory
  <2> QED
    BY <2>1, <2>3, <2>4, <2>5 DEF LoadedFresh
<1>3. ASSUME LoadMemories(d) PROVE LoadedFresh(d)'
  <2>1. pc'[d] = "provider" /\ loaded'[d] = loaded[d] /\ UNCHANGED <<profile, chatLogs>>
    BY <1>0, <1>3 DEF LoadMemories, TypeOK, store
  <2>2. context[d] \in Contexts
    BY <1>0, <1>3 DEF LoadMemories, LoadedFresh
  <2>3. context'[d] = [context[d] EXCEPT !.memories = memories']
    BY <1>0, <1>3 DEF LoadMemories, TypeOK, store
  <2>4. /\ context'[d] \in Contexts
        /\ context'[d].memories = memories'
        /\ context'[d].history = context[d].history
    BY Zenon, <1>0, <2>2, <2>3 DEF TypeOK, StoreTypeOK, Contexts
  <2> QED
    BY <1>0, <1>3, <2>1, <2>4 DEF LoadMemories, LoadedFresh, Fresh, FreshHistory, FreshMemories
<1>4. ASSUME pc'[d] \notin {"load_history", "load_memories", "provider"}
      PROVE  LoadedFresh(d)'
  BY <1>4 DEF LoadedFresh
<1>5. ASSUME UNCHANGED <<pc[d], loaded[d], context[d]>> PROVE LoadedFresh(d)'
  BY <1>a, <1>5, LoadedKept
<1>6. ASSUME NEW c \in Calls, CallStep(c), c # d PROVE UNCHANGED <<pc[d], loaded[d], context[d]>>
  BY <1>0, <1>6, CallStepFrame DEF CallFrame
<1>7. ASSUME CallStep(d), ~LoadState(d), ~LoadHistory(d), ~LoadMemories(d)
      PROVE  pc'[d] \notin {"load_history", "load_memories", "provider"}
  BY <1>0, <1>7, CallStepMoves DEF CallMoves
<1>8. ASSUME NEW c \in Calls, NEW r \in RequestIds, NEW m \in Messages, Arrive(c, r, m)
      PROVE  \/ UNCHANGED <<pc[d], loaded[d], context[d]>>
             \/ pc'[d] \notin {"load_history", "load_memories", "provider"}
  BY Zenon, <1>0, <1>8 DEF Arrive, TypeOK
<1>9. ASSUME NEW c \in Calls, CallStep(c) PROVE LoadedFresh(d)'
  BY <1>1, <1>2, <1>3, <1>4, <1>5, <1>6, <1>7, <1>9
<1> QED
  BY <1>a, <1>4, <1>5, <1>8, <1>9 DEF Next, ExecuteCommit, LoseCommit, Privacy,
     ForgetReservation, ForgetPrivacyOp, handler, vars

\* No step does so for the commits on the wire.
LEMMA WireStep == Inv /\ [Next]_vars => WireInv'
<1> SUFFICES ASSUME Inv, [Next]_vars, NEW d \in Calls PROVE WireFresh(d)'
  BY DEF WireInv
<1>0. TypeOK /\ TypeOK' /\ LoadedFresh(d)
  BY TypeStep DEF Inv, LoadedInv
<1>1. wire[d] # None => wire[d] \in WireRpcs
  BY <1>0 DEF TypeOK
<1>2. ASSUME Generate(d) PROVE WireFresh(d)'
  <2>1. /\ wire'[d].loaded = loaded[d] /\ wire'[d].context = context[d]
        /\ UNCHANGED <<profile, chatLogs, memories>>
    BY ZenonT(60), <1>0, <1>2 DEF Generate, TypeOK, store
  <2> QED
    BY ZenonT(60), <1>0, <1>2, <2>1
    DEF Generate, LoadedFresh, WireFresh, Fresh, FreshHistory, FreshMemories
<1>3. ASSUME wire'[d] = wire[d] \/ wire'[d] = None PROVE WireFresh(d)'
  BY <1>1, <1>3, WireKept
<1>4. ASSUME NEW c \in Calls, CallStep(c), ~Generate(d)
      PROVE  wire'[d] = wire[d] \/ wire'[d] = None
  BY ZenonT(60), <1>0, <1>4, CallStepFrame, CallStepMoves DEF CallFrame, CallMoves
<1>5. ASSUME NEW c \in Calls, ExecuteCommit(c) PROVE WireFresh(d)'
  <2>1. CASE c = d
    <3>1. /\ wire[d] # None
          /\ \E x : wire' = [wire EXCEPT ![d] = [wire[d] EXCEPT !.outcome = x]]
      BY Zenon, <1>5, <2>1 DEF ExecuteCommit
    <3>2. wire'[d].loaded = wire[d].loaded /\ wire'[d].context = wire[d].context
      BY <1>0, <1>1, <3>1 DEF TypeOK, WireRpcs
    <3> QED
      BY <1>1, <3>1, <3>2, WireKept
  <2>2. CASE c # d
    BY <1>0, <1>3, <1>5, <2>2 DEF ExecuteCommit, TypeOK
  <2> QED
    BY <2>1, <2>2
<1>6. ASSUME NEW c \in Calls, LoseCommit(c) PROVE WireFresh(d)'
  BY <1>0, <1>3, <1>6 DEF LoseCommit, TypeOK
<1>7. ASSUME UNCHANGED wire PROVE WireFresh(d)'
  BY <1>3, <1>7
<1> QED
  BY <1>2, <1>3, <1>4, <1>5, <1>6, <1>7
  DEF Next, Arrive, Privacy, ForgetReservation, ForgetPrivacyOp, vars

\* Every behaviour of the turn protocol is well typed, and every revision a
\* call has read still names the state, history and memories it was read from.
THEOREM InvHolds == Spec => []Inv
<1>1. Inv /\ [Next]_vars => Inv'
  BY TypeStep, ProfileStep, AskedStep, LoadedStep, WireStep DEF Inv
<1> QED
  BY InitInv, <1>1, PTL DEF Spec

-----------------------------------------------------------------------------
(* What follows for a committed turn.                                      *)

\* Type correctness, for every instance of the protocol.
THEOREM TypeCorrect == Spec => []TypeOK
  BY InvHolds, PTL DEF Inv

\* The database commits only what was computed from the current state.
LEMMA CommitIsCurrent ==
  ASSUME Inv, NEW c \in Calls, ExecuteCommit(c),
         CommitDecision(asked[c].request, wire[c].reply, wire[c].loaded.revision) = "committed"
  PROVE  /\ wire[c].loaded.emotional = profile.emotional
         /\ wire[c].loaded.relationship = profile.relationship
         /\ wire[c].context.history = chatLogs
         /\ wire[c].context.memories = memories
<1>1. WireFresh(c) /\ wire[c] # None
  BY DEF Inv, WireInv, ExecuteCommit
<1> QED BY <1>1 DEF WireFresh, Fresh, FreshHistory, FreshMemories, CommitDecision

\* No step but a commit or an applied privacy operation touches the profile.
LEMMA ProfileWriters ==
  ASSUME TypeOK, [Next]_vars, ~UNCHANGED profile
  PROVE  \/ \E c \in Calls :
              /\ ExecuteCommit(c)
              /\ CommitDecision(asked[c].request, wire[c].reply, wire[c].loaded.revision)
                   = "committed"
         \/ \E o \in OpIds, k \in PrivacyKinds, t \in Stamps :
              Privacy(o, k, t) /\ ApplyPrivacy(o, k, t)
<1>1. ASSUME NEW c \in Calls, CallStep(c) PROVE UNCHANGED profile
  BY <1>1, CallStepFrame DEF CallFrame
<1>2. ASSUME NEW c \in Calls, ExecuteCommit(c)
      PROVE  CommitDecision(asked[c].request, wire[c].reply, wire[c].loaded.revision) = "committed"
  BY <1>2 DEF ExecuteCommit, commit_turn, store
<1>3. ASSUME NEW o \in OpIds, NEW k \in PrivacyKinds, NEW t \in Stamps, Privacy(o, k, t)
      PROVE  ApplyPrivacy(o, k, t)
  BY <1>3 DEF Privacy, privacy_apply_operation, store
<1> QED
  BY Zenon, <1>1, <1>2, <1>3
  DEF Next, Arrive, LoseCommit, ForgetReservation, ForgetPrivacyOp, vars,
      purge_admission_reservations, purge_privacy_operations, store

\* No turn and no reset is ever overwritten by a turn that did not see it,
\* for any number of calls, instances and privacy operations.
THEOREM NoLostUpdateHolds == Spec => NoLostUpdate
<1> DEFINE A == \/ UNCHANGED <<profile.emotional, profile.relationship>>
                \/ /\ Extends(profile'.emotional, profile.emotional)
                   /\ Extends(profile'.relationship, profile.relationship)
                \/ profile'.emotional = <<>> /\ UNCHANGED profile.relationship
                \/ profile'.relationship = <<>> /\ UNCHANGED profile.emotional
<1>1. Inv /\ [Next]_vars => [A]_vars
  <2> SUFFICES ASSUME Inv, [Next]_vars, ~UNCHANGED profile PROVE A
    OBVIOUS
  <2>1. ASSUME NEW c \in Calls, ExecuteCommit(c),
               CommitDecision(asked[c].request, wire[c].reply, wire[c].loaded.revision)
                 = "committed"
        PROVE  A
    <3>1. wire[c].reply \in Replies
      BY <2>1 DEF ExecuteCommit, Inv, TypeOK, WireRpcs
    <3>2. ApplyTurn(asked[c].request, asked[c].message, wire[c].reply, wire[c].loaded)
      BY <2>1 DEF ExecuteCommit, commit_turn
    <3>3. /\ profile'.emotional = Append(profile.emotional, wire[c].reply)
          /\ profile'.relationship = Append(profile.relationship, wire[c].reply)
      BY Zenon, <2>1, <3>2, CommitIsCurrent DEF ApplyTurn
    <3> QED
      BY <3>1, <3>3 DEF Extends
  <2>2. ASSUME NEW o \in OpIds, NEW k \in PrivacyKinds, NEW t \in Stamps, ApplyPrivacy(o, k, t)
        PROVE  A
    BY <2>2 DEF ApplyPrivacy, Inv, TypeOK, StoreTypeOK, Profiles
  <2> QED
    BY <2>1, <2>2, ProfileWriters DEF Inv
<1> QED
  BY InvHolds, <1>1, PTL DEF Spec, NoLostUpdate

\* Nothing is committed that was generated from history or memories that
\* have changed since: a turn racing a deletion is retried or rejected.
THEOREM ReadsHoldAtCommitHolds == Spec => ReadsHoldAtCommit
<1> DEFINE A == \A c \in Calls : Commits(c) =>
                  wire[c].context = [history |-> chatLogs, memories |-> memories]
<1>1. Inv /\ [Next]_vars => [A]_vars
  <2> SUFFICES ASSUME Inv, [Next]_vars, NEW c \in Calls, Commits(c)
               PROVE  wire[c].context = [history |-> chatLogs, memories |-> memories]
    OBVIOUS
  <2>0. TypeOK /\ wire[c] \in WireRpcs
    BY DEF Inv, TypeOK, Commits
  <2>1. ExecuteCommit(c)
    <3>1. ASSUME NEW d \in Calls, CallStep(d)
          PROVE  wire'[c] = wire[c] \/ wire'[c] = None \/ wire'[c].outcome = "sent"
      BY <2>0, <3>1, CallStepFrame, CallStepMoves DEF CallFrame, CallMoves
    <3>2. ASSUME NEW d \in Calls, ExecuteCommit(d), d # c PROVE wire'[c] = wire[c]
      BY <2>0, <3>2 DEF ExecuteCommit, TypeOK
    <3>3. ASSUME NEW d \in Calls, LoseCommit(d) PROVE wire'[c] = wire[c] \/ wire'[c] = None
      BY <2>0, <3>3 DEF LoseCommit, TypeOK
    <3> QED
      BY <3>1, <3>2, <3>3 DEF Next, Arrive, Privacy, ForgetReservation, ForgetPrivacyOp, vars,
         Commits
  <2>2. CommitDecision(asked[c].request, wire[c].reply, wire[c].loaded.revision) = "committed"
    BY <2>0, <2>1 DEF ExecuteCommit, Commits, TypeOK, WireRpcs
  <2> QED BY <2>1, <2>2, CommitIsCurrent, <2>0 DEF WireRpcs, Contexts
<1> QED BY InvHolds, <1>1, PTL DEF Spec, ReadsHoldAtCommit

=============================================================================
