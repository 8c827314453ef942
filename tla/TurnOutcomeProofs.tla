-------------------------- MODULE TurnOutcomeProofs --------------------------
(* Proofs about what is committed under a request id and what clients are   *)
(* told, for any number of calls, instances and ids.                        *)
EXTENDS TurnFreshnessProofs

\* Each leaf is tried with the defaults first and then given more time.
USE SMT, Zenon, Z3T(60), ZenonT(30), SMTT(60), Z3T(90)

-----------------------------------------------------------------------------
(* A call executes the turn of its id from its admission until its commit  *)
(* has taken effect or can no longer do so.  An id has one execution at a  *)
(* time, and its reservation stays while the execution lasts.              *)

Executing(c) ==
  \/ /\ mode[c] = "normal"
     /\ pc[c] \in {"lock", "load_state", "load_history", "load_memories", "provider"}
  \/ wire[c] # None /\ wire[c].outcome = "sent"
  \/ pc[c] = "commit" /\ wire[c] # None /\ wire[c].outcome = "revision_mismatch"

ModeInv ==
  \A c \in Calls :
    /\ wire[c] # None => pc[c] \in {"commit", "done"}
    /\ pc[c] \in {"load_state", "load_history", "load_memories", "provider", "commit"} =>
         mode[c] = "normal"

ExecutionOwed(c) ==
  LET r == asked[c].request IN
  Executing(c) => reservations[r] # None /\ Len(commits[r]) < admissions[r]

OneExecution(c, d) ==
  Executing(c) /\ Executing(d) /\ asked[c].request = asked[d].request => c = d

ExecutionInv ==
  /\ AtMostOncePerAdmission
  /\ \A c \in Calls : ExecutionOwed(c)
  /\ \A c, d \in Calls : OneExecution(c, d)

-----------------------------------------------------------------------------
(* Every "ok" a call can still give is backed by a commit.                 *)

Committed(r, y) == y \in Range(commits[r])

AnswerBacked(c) ==
  answer[c] # None =>
    /\ pc[c] = "done"
    /\ answer[c].status = "ok" => Committed(asked[c].request, answer[c].reply)

WireBacked(c) ==
  (wire[c] # None /\ wire[c].outcome \in {"committed", "completed"}) =>
    Committed(asked[c].request, wire[c].reply)

BackedInv ==
  /\ \A c \in Calls : AnswerBacked(c) /\ WireBacked(c)
  /\ \A r \in RequestIds : turns[r] # None => Committed(r, turns[r].reply)

-----------------------------------------------------------------------------
\* Only a call in its commit, or one given up there, has a commit on the wire.
LEMMA ModeStep == Inv /\ ModeInv /\ [Next]_vars => ModeInv'
<1>a. SUFFICES ASSUME Inv, ModeInv, [Next]_vars PROVE ModeInv'
  OBVIOUS
<1>0. TypeOK /\ ModeInv
  BY <1>a DEF Inv
<1>1. ASSUME NEW c \in Calls, NEW r \in RequestIds, NEW m \in Messages, Arrive(c, r, m)
      PROVE  ModeInv'
  BY <1>0, <1>1 DEF Arrive, ModeInv, TypeOK
<1>2. ASSUME NEW c \in Calls, CallStep(c) PROVE ModeInv'
  BY <1>0, <1>2, CallStepFrame, CallStepMoves DEF ModeInv, Working, CallFrame, CallMoves
<1>3. ASSUME NEW c \in Calls, ExecuteCommit(c) PROVE ModeInv'
  <2>1. pc[c] # "idle"
    BY <1>0, <1>3 DEF ExecuteCommit, ModeInv
  <2>2. \A d \in Calls \ {c} : wire'[d] = wire[d]
    BY <1>0, <1>3 DEF ExecuteCommit, TypeOK
  <2> QED BY <1>0, <1>3, <2>1, <2>2 DEF ExecuteCommit, ModeInv, handler
<1>4. ASSUME NEW c \in Calls, LoseCommit(c) PROVE ModeInv'
  BY <1>0, <1>4 DEF LoseCommit, ModeInv, TypeOK, handler
<1>5. ASSUME UNCHANGED <<handler, wire>> PROVE ModeInv'
  BY <1>0, <1>5 DEF ModeInv, handler
<1> QED
  BY <1>a, <1>1, <1>2, <1>3, <1>4, <1>5 DEF Next, Privacy, ForgetReservation, ForgetPrivacyOp,
     vars

-----------------------------------------------------------------------------
(* At most one execution per admission.                                    *)

\* A step that starts no execution and commits nothing.
LEMMA NoNewExecution ==
  ASSUME ExecutionInv, UNCHANGED <<commits, admissions>>,
         \A d \in Calls : Executing(d)' =>
           /\ Executing(d) /\ asked'[d] = asked[d]
           /\ reservations'[asked[d].request] = reservations[asked[d].request]
  PROVE  ExecutionInv'
  BY DEF ExecutionInv, AtMostOncePerAdmission, ExecutionOwed, OneExecution

\* A step of call c that reserves its id, which nobody was executing.
LEMMA NewReservation ==
  ASSUME Inv, ExecutionInv, NEW c \in Calls, pc[c] = "admission",
         AdmissionDecision(asked[c].request, asked[c].message) = "admitted",
         Reserve(asked[c].request, asked[c].message),
         admissions' = [admissions EXCEPT ![asked[c].request] = @ + 1],
         UNCHANGED <<asked, commits>>,
         \A d \in Calls \ {c} : Executing(d)' => Executing(d)
  PROVE  ExecutionInv'
<1> DEFINE r == asked[c].request
<1>1. r \in RequestIds /\ asked[c].message \in Messages
  BY DEF Inv, AskedInv, Requests
<1>2. reservations[r] = None /\ reservations'[r] # None
  BY <1>1, StoreAssumption DEF AdmissionDecision, Reserve, Inv, TypeOK, StoreTypeOK
<1>3. \A q \in RequestIds : /\ Len(commits[q]) \in Nat /\ admissions[q] \in Nat
                           /\ admissions'[q] = IF q = r THEN admissions[q] + 1
                                               ELSE admissions[q]
  BY <1>1 DEF Inv, TypeOK
<1>4. \A q \in RequestIds \ {r} : reservations'[q] = reservations[q]
  BY <1>1 DEF Reserve, Inv, TypeOK, StoreTypeOK
<1>5. AtMostOncePerAdmission'
  <2> QED BY <1>3 DEF AtMostOncePerAdmission, ExecutionInv
<1>6. \A d \in Calls : Executing(d)' => asked[d].request \in RequestIds
  BY <1>1 DEF Executing, Inv, AskedInv, Requests
<1>7. ASSUME NEW d \in Calls PROVE ExecutionOwed(d)'
  <2>1. CASE asked[d].request = r
    <3>1. Len(commits[r]) < admissions'[r]
      BY <1>1, <1>3 DEF ExecutionInv, AtMostOncePerAdmission
    <3> QED BY <1>2, <2>1, <3>1 DEF ExecutionOwed
  <2>2. CASE asked[d].request # r
    <3> SUFFICES ASSUME Executing(d)'
                 PROVE  /\ reservations'[asked[d].request] # None
                        /\ Len(commits[asked[d].request]) < admissions'[asked[d].request]
      BY DEF ExecutionOwed
    <3>1. Executing(d) /\ asked[d].request \in RequestIds \ {r}
      BY <1>6, <2>2
    <3>2. /\ reservations[asked[d].request] # None
          /\ Len(commits[asked[d].request]) < admissions[asked[d].request]
      BY <3>1 DEF ExecutionInv, ExecutionOwed
    <3> QED BY <1>3, <1>4, <3>1, <3>2
  <2> QED BY <2>1, <2>2
<1>8. ASSUME NEW d \in Calls, NEW e \in Calls PROVE OneExecution(d, e)'
  BY <1>2 DEF ExecutionInv, OneExecution, ExecutionOwed
<1> QED BY <1>5, <1>7, <1>8 DEF ExecutionInv

\* Only its admission makes a call execute the turn of its id.
LEMMA NoExecutionWithoutAdmission ==
  ASSUME TypeOK, ModeInv, NEW c \in Calls, CallStep(c), ~Admit(c), Executing(c)'
  PROVE  Executing(c)
<1> USE HandlerDomains DEF Executing
<1>1. CASE AdmitReplay(c)
  BY <1>1 DEF AdmitReplay
<1>2. CASE Reject(c)
  BY <1>2 DEF Reject, Answer
<1>3. CASE AdmissionUnavailable(c)
  BY <1>3 DEF AdmissionUnavailable, Answer
<1>4. CASE AcquireLock(c)
  BY <1>4 DEF AcquireLock, ModeInv
<1>5. CASE LoadState(c)
  BY <1>5 DEF LoadState, ModeInv
<1>6. CASE LoadHistory(c)
  BY <1>6 DEF LoadHistory, ModeInv
<1>7. CASE LoadMemories(c)
  BY <1>7 DEF LoadMemories, ModeInv
<1>8. CASE Generate(c)
  BY <1>8 DEF Generate, ModeInv
<1>9. CASE CommitSucceeded(c)
  BY <1>9 DEF CommitSucceeded, Returned, Answer
<1>10. CASE RetryTurn(c)
  BY <1>10 DEF RetryTurn, Returned
<1>11. CASE CommitConflict(c)
  BY <1>11 DEF CommitConflict, Returned, Answer
<1>12. CASE CommitUnavailable(c)
  BY <1>12 DEF CommitUnavailable, Answer
<1>13. CASE Replay(c)
  BY <1>13 DEF Replay, Answer
<1>14. CASE Abandon(c)
  BY <1>14 DEF Abandon, Answer, ModeInv
<1> QED
  BY <1>1, <1>2, <1>3, <1>4, <1>5, <1>6, <1>7, <1>8, <1>9, <1>10, <1>11, <1>12, <1>13, <1>14
  DEF CallStep

\* Only an admission, answered or not, reserves an id.
LEMMA OnlyAdmissionReserves ==
  ASSUME NEW c \in Calls, CallStep(c)
  PROVE  \/ Admit(c)
         \/ /\ AdmissionUnavailable(c) /\ Reserve(asked[c].request, asked[c].message)
            /\ AdmissionDecision(asked[c].request, asked[c].message) = "admitted"
            /\ admissions' = [admissions EXCEPT ![asked[c].request] = @ + 1]
         \/ UNCHANGED <<admissions, reservations>>
<1>1. CASE AdmissionUnavailable(c)
  BY <1>1 DEF AdmissionUnavailable, store
<1>2. CASE ~Admit(c) /\ ~AdmissionUnavailable(c)
  <2>1. UNCHANGED <<store, ghosts>>
    BY <1>2 DEF CallStep, AdmitReplay, Reject, AcquireLock, LoadState, LoadHistory, LoadMemories,
       Generate, CommitSucceeded, RetryTurn, CommitConflict, CommitUnavailable, Replay, Abandon
  <2> QED
    BY <2>1 DEF store, ghosts
<1> QED
  BY <1>1, <1>2

\* Every step keeps a commit tied to the admission that it belongs to.
LEMMA ExecutionStep == Inv /\ ModeInv /\ ExecutionInv /\ [Next]_vars => ExecutionInv'
<1> SUFFICES ASSUME Inv, ModeInv, ExecutionInv, [Next]_vars PROVE ExecutionInv'
  OBVIOUS
<1>0. TypeOK
  BY DEF Inv
<1>1. ASSUME NEW c \in Calls, NEW r \in RequestIds, NEW m \in Messages, Arrive(c, r, m)
      PROVE  ExecutionInv'
  <2>1. ~Executing(c)'
    BY Zenon, <1>0, <1>1 DEF Arrive, ModeInv, Executing, TypeOK
  <2>2. \A d \in Calls \ {c} : Executing(d)' => Executing(d) /\ asked'[d] = asked[d]
    BY <1>0, <1>1 DEF Arrive, Executing, TypeOK
  <2> QED BY <1>1, <2>1, <2>2, NoNewExecution DEF Arrive, store, ghosts
<1>2. ASSUME NEW c \in Calls, CallStep(c) PROVE ExecutionInv'
  <2>f. CallFrame(c)
    BY <1>0, <1>2, CallStepFrame
  <2>0. \A d \in Calls \ {c} : Executing(d)' => Executing(d)
    BY <2>f DEF Executing, CallFrame
  <2>1. CASE Admit(c)
    BY Zenon, <2>f, <2>0, <2>1, NewReservation DEF Admit, CallFrame
  <2>2. CASE AdmissionUnavailable(c) /\ Reserve(asked[c].request, asked[c].message)
             /\ AdmissionDecision(asked[c].request, asked[c].message) = "admitted"
             /\ admissions' = [admissions EXCEPT ![asked[c].request] = @ + 1]
    BY Zenon, <2>f, <2>0, <2>2, NewReservation DEF AdmissionUnavailable, CallFrame
  <2>3. CASE UNCHANGED <<admissions, reservations>>
    <3>1. Executing(c)' => Executing(c)
      <4>1. CASE Admit(c)
        <5>1. asked[c].request \in RequestIds /\ asked[c].message \in Messages
          BY <4>1 DEF Admit, Inv, AskedInv, Requests
        <5>2. /\ reservations[asked[c].request] = None
              /\ reservations' = [reservations EXCEPT ![asked[c].request] = asked[c].message]
          BY <4>1 DEF Admit, Reserve, AdmissionDecision
        <5>3. reservations'[asked[c].request] = asked[c].message
          BY <1>0, <5>1, <5>2 DEF TypeOK, StoreTypeOK
        <5> QED BY <2>3, <5>1, <5>2, <5>3, StoreAssumption
      <4>2. CASE ~Admit(c)
        BY <1>0, <1>2, <4>2, NoExecutionWithoutAdmission
      <4> QED BY <4>1, <4>2
    <3> QED BY <2>f, <2>0, <2>3, <3>1, NoNewExecution DEF CallFrame
  <2> QED BY <1>2, <2>1, <2>2, <2>3, OnlyAdmissionReserves
<1>3. ASSUME NEW c \in Calls, ExecuteCommit(c) PROVE ExecutionInv'
  <2> DEFINE r == asked[c].request
             w == wire[c]
             decision == CommitDecision(r, w.reply, w.loaded.revision)
  <2>1. /\ Executing(c) /\ r \in RequestIds
        /\ UNCHANGED <<pc, mode, asked, admissions, reservations>>
    BY <1>3 DEF ExecuteCommit, Executing, handler, commit_turn, ApplyTurn, store, Inv, AskedInv,
       Requests
  <2>2. /\ \A d \in Calls \ {c} : wire'[d] = wire[d]
        /\ wire'[c].outcome = decision
    BY <1>0, <1>3 DEF ExecuteCommit, TypeOK, WireRpcs
  <2>3. \A d \in Calls : Executing(d)' => Executing(d)
    BY <2>1, <2>2 DEF Executing
  <2>4. CASE decision # "committed"
    BY <1>3, <2>1, <2>3, <2>4, NoNewExecution DEF ExecuteCommit
  <2>5. CASE decision = "committed"
    <3>1. ~Executing(c)'
      <4>1. mode[c] = "normal" =>
              pc[c] \notin {"lock", "load_state", "load_history", "load_memories", "provider"}
        BY <1>3 DEF ExecuteCommit, ModeInv
      <4> QED BY <2>1, <2>2, <2>5, <4>1 DEF Executing
    <3>2. \A d \in Calls : Executing(d)' => Executing(d) /\ asked[d].request # r
      BY <2>1, <2>3, <3>1 DEF ExecutionInv, OneExecution
    <3>3. commits' = [commits EXCEPT ![r] = Append(@, w.reply)]
      BY <1>3, <2>5 DEF ExecuteCommit
    <3>4. /\ \A q \in RequestIds \ {r} : commits'[q] = commits[q]
          /\ Len(commits'[r]) = Len(commits[r]) + 1
      <4>1. commits[r] \in Seq(Replies) /\ w.reply \in Replies /\ DOMAIN commits = RequestIds
        BY <1>0, <1>3, <2>1 DEF ExecuteCommit, TypeOK, WireRpcs
      <4>2. Len(Append(commits[r], w.reply)) = Len(commits[r]) + 1
        BY <4>1
      <4> QED BY <2>1, <3>3, <4>1, <4>2
    <3>5. \A d \in Calls : Executing(d) => asked[d].request \in RequestIds
      BY DEF Executing, Inv, AskedInv, Requests
    <3>6. AtMostOncePerAdmission'
      <4>1. Len(commits'[r]) <= admissions[r]
        BY <2>1, <1>0, <3>4 DEF TypeOK, ExecutionInv, ExecutionOwed
      <4> QED BY <3>4, <2>1, <4>1 DEF AtMostOncePerAdmission, ExecutionInv
    <3> QED BY <2>1, <3>2, <3>4, <3>5, <3>6 DEF ExecutionInv, ExecutionOwed, OneExecution
  <2> QED BY <2>4, <2>5
<1>4. ASSUME NEW c \in Calls, LoseCommit(c) PROVE ExecutionInv'
  <2>1. \A d \in Calls : Executing(d)' => Executing(d)
    BY <1>0, <1>4 DEF LoseCommit, Executing, TypeOK, handler
  <2> QED BY <1>4, <2>1, NoNewExecution DEF LoseCommit, store, handler, ghosts
<1>5. ASSUME NEW o \in OpIds, NEW k \in PrivacyKinds, NEW t \in Stamps, Privacy(o, k, t)
      PROVE  ExecutionInv'
  <2> QED
    BY <1>5, NoNewExecution DEF Privacy, handler, Executing, privacy_apply_operation,
       ApplyPrivacy, store
<1>6. ASSUME NEW r \in RequestIds, ForgetReservation(r) PROVE ExecutionInv'
  <2>1. \A q \in RequestIds \ {r} : reservations'[q] = reservations[q]
    BY <1>0, <1>6 DEF ForgetReservation, purge_admission_reservations, TypeOK, StoreTypeOK
  <2> QED
    BY <1>6, <2>1, NoNewExecution DEF ForgetReservation, handler, ghosts, Executing, Inv,
       AskedInv, Requests, Running, ModeInv, Stages
<1>7. ASSUME UNCHANGED <<handler, wire, commits, admissions, reservations>> PROVE ExecutionInv'
  BY <1>7, NoNewExecution DEF handler, Executing
<1> QED
  BY <1>1, <1>2, <1>3, <1>4, <1>5, <1>6, <1>7 DEF Next, ForgetPrivacyOp,
     purge_privacy_operations, vars, store, ghosts

\* However calls, retries, late commits, privacy operations and the purge of
\* old reservations interleave, one admission commits at most one turn.
THEOREM AtMostOncePerAdmissionHolds == Spec => []AtMostOncePerAdmission
<1>1. Init => ModeInv /\ ExecutionInv
  BY DEF ExecutionInv, ExecutionOwed, OneExecution, Init, Executing, ModeInv,
     AtMostOncePerAdmission
<1>2. Inv /\ ModeInv /\ ExecutionInv /\ [Next]_vars => (ModeInv /\ ExecutionInv)'
  BY ModeStep, ExecutionStep
<1>3. ModeInv /\ ExecutionInv => AtMostOncePerAdmission
  BY DEF ExecutionInv
<1> QED BY <1>1, <1>2, <1>3, InvHolds, PTL DEF Spec

-----------------------------------------------------------------------------
(* Answers are backed by commits.                                          *)

\* What a sequence holds after an append.
LEMMA RangeAppend ==
  ASSUME NEW S, NEW s \in Seq(S), NEW y \in S
  PROVE  Range(Append(s, y)) = Range(s) \cup {y}
<1>1. /\ Append(s, y) \in Seq(S) /\ Len(Append(s, y)) = Len(s) + 1
      /\ Append(s, y)[Len(s) + 1] = y
      /\ \A i \in 1..Len(s) : Append(s, y)[i] = s[i]
  OBVIOUS
<1>2. ASSUME NEW i \in DOMAIN Append(s, y) PROVE Append(s, y)[i] \in Range(s) \cup {y}
  BY <1>1, <1>2 DEF Range
<1> QED BY <1>1, <1>2 DEF Range

\* The same for the committed replies.
LEMMA CommitsAppend ==
  \A s \in Seq(Replies), y \in Replies : Range(Append(s, y)) = Range(s) \cup {y}
  BY RangeAppend

\* A committed reply stays committed.
LEMMA CommittedStays ==
  ASSUME Inv, [Next]_vars, NEW r \in RequestIds, NEW y, Committed(r, y)
  PROVE  y \in Range(commits'[r])
<1>1. CASE \E c \in Calls : ExecuteCommit(c)
  <2>1. PICK c \in Calls : ExecuteCommit(c)
    BY <1>1
  <2>2. wire[c].reply \in Replies
    BY <2>1 DEF ExecuteCommit, Inv, TypeOK, WireRpcs
  <2>3. commits'[r] \in {commits[r], Append(commits[r], wire[c].reply)}
    BY <2>1 DEF ExecuteCommit, Inv, TypeOK
  <2>4. Range(Append(commits[r], wire[c].reply)) = Range(commits[r]) \cup {wire[c].reply}
    BY <2>2, CommitsAppend DEF Inv, TypeOK
  <2> QED BY Zenon, <2>3, <2>4 DEF Committed
<1>2. CASE UNCHANGED commits
  BY <1>2 DEF Committed
<1> QED
  BY <1>1, <1>2, CallStepFrame DEF CallFrame, Inv, Next, Arrive, LoseCommit, Privacy,
     ForgetReservation, ForgetPrivacyOp, ghosts, vars

\* Every answer in flight or given stays backed by a committed reply.
LEMMA BackedStep == Inv /\ ModeInv /\ BackedInv /\ [Next]_vars => BackedInv'
<1> SUFFICES ASSUME Inv, ModeInv, BackedInv, [Next]_vars PROVE BackedInv'
  OBVIOUS
<1>0. TypeOK
  BY DEF Inv
<1>1. \A r \in RequestIds : \A y \in Range(commits[r]) : y \in Range(commits'[r])
  BY CommittedStays DEF Committed
<1>2. \A c \in Calls : pc[c] # "idle" => asked[c].request \in RequestIds
  BY DEF Inv, AskedInv, Requests
<1>3. ASSUME NEW d \in Calls, UNCHANGED <<pc[d], asked[d], answer[d], wire[d]>>
      PROVE  AnswerBacked(d)' /\ WireBacked(d)'
  <2>1. answer[d] # None \/ wire[d] # None => pc[d] # "idle"
    BY DEF BackedInv, AnswerBacked, ModeInv
  <2> QED BY <1>1, <1>2, <1>3, <2>1 DEF BackedInv, AnswerBacked, WireBacked, Committed
<1>4. ASSUME UNCHANGED turns PROVE \A r \in RequestIds : (turns[r] # None => Committed(r, turns[r].reply))'
  BY <1>1, <1>4 DEF BackedInv, Committed
<1>5. ASSUME NEW c \in Calls, NEW r \in RequestIds, NEW m \in Messages, Arrive(c, r, m)
      PROVE  BackedInv'
  <2>1. AnswerBacked(c)' /\ WireBacked(c)'
    BY <1>0, <1>5 DEF Arrive, AnswerBacked, WireBacked, BackedInv, ModeInv, TypeOK
  <2>2. \A d \in Calls \ {c} : UNCHANGED <<pc[d], asked[d], answer[d], wire[d]>>
    BY <1>0, <1>5 DEF Arrive, TypeOK
  <2>3. UNCHANGED turns
    BY <1>5 DEF Arrive, store
  <2> QED BY <1>3, <1>4, <2>1, <2>2, <2>3 DEF BackedInv
<1>6. ASSUME NEW c \in Calls, CallStep(c) PROVE BackedInv'
  <2>f. CallFrame(c) /\ CallMoves(c)
    BY <1>0, <1>6, CallStepFrame, CallStepMoves
  <2>0. UNCHANGED <<asked, commits, turns>> /\ asked[c].request \in RequestIds
    BY ZenonT(60), <1>2, <2>f DEF CallFrame
  <2>1. AnswerBacked(c)'
    <3>1. ASSUME NEW a, Answer(c, a), a.status = "ok" => Committed(asked[c].request, a.reply)
          PROVE  AnswerBacked(c)'
      BY <1>0, <2>0, <3>1 DEF Answer, AnswerBacked, Committed, TypeOK
    <3>2. CASE CommitSucceeded(c)
      BY ZenonT(60), <3>1, <3>2 DEF CommitSucceeded, Returned, Ok, BackedInv, WireBacked
    <3>3. CASE Replay(c)
      BY <2>0, <3>1, <3>3 DEF ReplayDecision, BackedInv, Replay, Ok, ErrorCodes, Error
    <3>4. CASE \E e \in ErrorCodes : Answer(c, Error(e))
      BY <3>1, <3>4 DEF Error, ErrorCodes
    <3>5. CASE answer' = answer
      BY <2>f, <3>5 DEF AnswerBacked, BackedInv, CallFrame
    <3> QED
      BY <1>6, <3>2, <3>3, <3>4, <3>5 DEF CallStep, Admit, AdmitReplay, Reject,
         AdmissionUnavailable, AcquireLock, LoadState, LoadHistory, LoadMemories, Generate,
         RetryTurn, CommitConflict, CommitUnavailable, Abandon, ErrorCodes
  <2>2. WireBacked(c)'
    BY <2>f, <2>0 DEF BackedInv, WireBacked, Committed, CallMoves
  <2>3. \A d \in Calls \ {c} : UNCHANGED <<pc[d], asked[d], answer[d], wire[d]>>
    BY <2>f DEF CallFrame
  <2> QED BY Zenon, <1>3, <1>4, <2>0, <2>1, <2>2, <2>3 DEF BackedInv
<1>7. ASSUME NEW c \in Calls, ExecuteCommit(c) PROVE BackedInv'
  <2> DEFINE r == asked[c].request
             w == wire[c]
             decision == CommitDecision(r, w.reply, w.loaded.revision)
  <2>1. /\ r \in RequestIds /\ w \in WireRpcs /\ w.reply \in Replies
        /\ UNCHANGED <<pc, asked, answer>>
    BY <1>0, <1>7 DEF ExecuteCommit, handler, Inv, AskedInv, Requests, TypeOK, WireRpcs
  <2>2. /\ \A d \in Calls \ {c} : wire'[d] = wire[d]
        /\ wire'[c].outcome = decision /\ wire'[c].reply = w.reply
    BY <1>0, <1>7, <2>1 DEF ExecuteCommit, TypeOK, WireRpcs
  <2>3. decision = "committed" => w.reply \in Range(commits'[r])
    <3>1. Range(Append(commits[r], w.reply)) = Range(commits[r]) \cup {w.reply}
      BY <1>0, <2>1, CommitsAppend DEF TypeOK
    <3> QED
      <4>1. decision = "committed" => commits' = [commits EXCEPT ![r] = Append(@, w.reply)]
        BY <1>7 DEF ExecuteCommit
      <4>2. decision = "committed" => commits'[r] = Append(commits[r], w.reply)
        BY <1>0, <2>1, <4>1 DEF TypeOK
      <4> QED BY ZenonT(60), <3>1, <4>2
  <2>4. decision = "completed" => w.reply \in Range(commits'[r])
    BY <1>1, <2>1 DEF CommitDecision, BackedInv, Committed
  <2>5. WireBacked(c)'
    BY <2>1, <2>2, <2>3, <2>4 DEF WireBacked, Committed
  <2>6. AnswerBacked(c)'
    BY <2>1, <1>1 DEF BackedInv, AnswerBacked, Committed
  <2>7. \A q \in RequestIds : (turns[q] # None => Committed(q, turns[q].reply))'
    <3>1. CASE decision = "committed"
      <4>1. turns' = [turns EXCEPT ![r] = [message |-> asked[c].message, reply |-> w.reply,
                                           revision |-> profile.revision + 1]]
        BY <1>7, <3>1 DEF ExecuteCommit, commit_turn, ApplyTurn
      <4> QED
        BY <1>0, <1>1, <2>1, <2>3, <3>1, <4>1 DEF BackedInv, Committed, TypeOK, StoreTypeOK
    <3>2. CASE decision # "committed"
      BY <1>4, <1>7, <3>2 DEF ExecuteCommit, commit_turn, store
    <3> QED BY <3>1, <3>2
  <2> QED BY <2>1, <2>2, <1>3, <2>5, <2>6, <2>7 DEF BackedInv
<1>8. ASSUME NEW c \in Calls, LoseCommit(c) PROVE BackedInv'
  <2>1. AnswerBacked(c)' /\ WireBacked(c)'
    BY <1>0, <1>8 DEF LoseCommit, AnswerBacked, WireBacked, BackedInv, Committed, TypeOK,
       handler, ghosts
  <2>2. \A d \in Calls \ {c} : UNCHANGED <<pc[d], asked[d], answer[d], wire[d]>>
    BY <1>0, <1>8 DEF LoseCommit, TypeOK, handler
  <2> QED BY Zenon, <1>3, <1>4, <1>8, <2>1, <2>2 DEF LoseCommit, BackedInv, store
<1>9. ASSUME NEW o \in OpIds, NEW k \in PrivacyKinds, NEW t \in Stamps, Privacy(o, k, t)
      PROVE  BackedInv'
  BY <1>9, <1>1, <1>3 DEF Privacy, BackedInv, Committed, handler, privacy_apply_operation,
     ApplyPrivacy, store
<1>10. ASSUME UNCHANGED <<handler, wire, turns>> PROVE BackedInv'
  BY <1>3, <1>4, <1>10 DEF BackedInv, handler
<1> QED
  BY <1>5, <1>6, <1>7, <1>8, <1>9, <1>10 DEF Next, ForgetReservation, ForgetPrivacyOp,
     purge_admission_reservations, purge_privacy_operations, vars, store

\* An "ok" is only ever given for a reply that was committed under the id
\* of the call, whether the call ran the turn itself or replayed it.
THEOREM AnswersWereCommittedHolds == Spec => []AnswersWereCommitted
<1>1. Init => ModeInv /\ BackedInv
  BY DEF Init, StoreInit, ModeInv, BackedInv, AnswerBacked, WireBacked
<1>2. Inv /\ ModeInv /\ BackedInv /\ [Next]_vars => (ModeInv /\ BackedInv)'
  BY ModeStep, BackedStep
<1>3. ModeInv /\ BackedInv => AnswersWereCommitted
  BY DEF BackedInv, AnswerBacked, Committed, AnswersWereCommitted
<1> QED
  BY <1>1, <1>2, <1>3, InvHolds, PTL DEF Spec

-----------------------------------------------------------------------------
(* An id that is admitted once belongs to one message.  A call has passed  *)
(* the admission when it may still act under its id or has left a trace in *)
(* the store or with its client; all such calls of an id ask the same.     *)

Told(c) == answer[c] # None /\ answer[c].status = "ok"
Wrote(c) == \E r \in RequestIds : \E y \in Range(commits[r]) : y[1] = c
Passed(c) == pc[c] \in Stages \/ wire[c] # None \/ Told(c) \/ Wrote(c)

HeldFor(c) ==
  LET r == asked[c].request IN
  admissions[r] # 0 /\ reservations[r] \in {None, asked[c].message}

SameTurn(c, d) ==
  Passed(c) /\ Passed(d) /\ asked[c].request = asked[d].request => asked[c] = asked[d]

CommitNamesCaller(r) == \A y \in Range(commits[r]) : asked[y[1]].request = r

MessageInv ==
  /\ \A c \in Calls : Passed(c) => pc[c] # "idle" /\ HeldFor(c)
  /\ \A c, d \in Calls : SameTurn(c, d)
  /\ \A c \in Calls : wire[c] # None => wire[c].reply[1] = c
  /\ \A r \in RequestIds : CommitNamesCaller(r)
  /\ \A r \in RequestIds : reservations[r] # None => admissions[r] # 0

\* Facts about the data: of replies, of their first component, of requests.
LEMMA CommittedReplies ==
  \A s \in Seq(Replies) : \A y \in Range(s) : y \in Replies /\ y[1] \in Calls
<1>1. ASSUME NEW s \in Seq(Replies), NEW y \in Range(s) PROVE y \in Replies
  <2>1. PICK i \in DOMAIN s : y = s[i]
    BY DEF Range
  <2> QED BY <2>1
<1> QED BY <1>1 DEF Replies

\* A reply names the call it was generated for first.
LEMMA FirstOfPair == \A x, y : <<x, y>>[1] = x
OBVIOUS

\* A request is its id and its message.
LEMMA RequestEquals ==
  \A a, b \in Requests : a.request = b.request /\ a.message = b.message => a = b
BY DEF Requests

\* With one admission at most, an admitted id had none before.
LEMMA BelowOne == \A n \in Nat : n < 1 => n = 0 /\ n + 1 # 0
OBVIOUS

\* The id and the message of a call that has passed are well formed.
LEMMA PassedAsked ==
  ASSUME Inv, MessageInv, NEW c \in Calls, Passed(c) \/ pc[c] # "idle"
  PROVE  /\ asked[c] \in Requests
         /\ asked[c].request \in RequestIds /\ asked[c].message \in Messages
<1>1. asked[c] \in Requests
  BY DEF MessageInv, Inv, AskedInv
<1> QED
  BY <1>1 DEF Requests

\* A step by which no call passes the admission.
LEMMA NobodyPasses ==
  ASSUME Inv, MessageInv, admissions' = admissions,
         \A d \in Calls : Passed(d)' => Passed(d),
         \A d \in Calls : Passed(d) => asked'[d] = asked[d] /\ pc'[d] # "idle",
         \A r \in RequestIds : reservations'[r] \in {reservations[r], None},
         \A d \in Calls : wire'[d] # None => wire'[d].reply[1] = d,
         \A r \in RequestIds : CommitNamesCaller(r)'
  PROVE  MessageInv'
<1>1. ASSUME NEW c \in Calls, Passed(c)' PROVE pc'[c] # "idle" /\ HeldFor(c)'
  <2>1. HeldFor(c)
    BY <1>1 DEF MessageInv
  <2> QED BY <1>1, PassedAsked, <2>1 DEF HeldFor
<1>2. ASSUME NEW c \in Calls, NEW d \in Calls PROVE SameTurn(c, d)'
  BY DEF SameTurn, MessageInv
<1> QED BY <1>1, <1>2 DEF MessageInv

\* A step that leaves the commits, and the questions of those who made them.
LEMMA NamesKept ==
  ASSUME Inv, MessageInv, commits' = commits,
         \A d \in Calls : Passed(d) => asked'[d] = asked[d]
  PROVE  \A r \in RequestIds : CommitNamesCaller(r)'
<1> SUFFICES ASSUME NEW r \in RequestIds, NEW y \in Range(commits[r])
             PROVE  asked'[y[1]].request = r
  BY DEF CommitNamesCaller
<1>1. y[1] \in Calls
  BY CommittedReplies DEF Inv, TypeOK
<1> QED BY <1>1 DEF Passed, Wrote, MessageInv, CommitNamesCaller

\* A step of call c that reserves its id: nobody has passed under it before.
LEMMA Reserving ==
  ASSUME Inv, MessageInv, MaxAdmissions = 1, NEW c \in Calls, pc[c] = "admission",
         admissions[asked[c].request] < MaxAdmissions,
         Reserve(asked[c].request, asked[c].message),
         admissions' = [admissions EXCEPT ![asked[c].request] = @ + 1],
         UNCHANGED <<asked, commits, wire>>,
         pc'[c] # "idle", \A d \in Calls \ {c} : pc'[d] = pc[d],
         \A d \in Calls \ {c} : Passed(d)' => Passed(d)
  PROVE  MessageInv'
<1> DEFINE r == asked[c].request
<1>1. admissions \in [RequestIds -> Nat] /\ reservations \in [RequestIds -> Messages \cup {None}]
  BY DEF Inv, TypeOK, StoreTypeOK
<1>2. admissions[r] = 0 /\ admissions'[r] # 0
  BY PassedAsked, <1>1, BelowOne
<1>3. /\ reservations'[r] = asked[c].message
      /\ \A q \in RequestIds \ {r} : /\ reservations'[q] = reservations[q]
                                     /\ admissions'[q] = admissions[q]
  BY PassedAsked, <1>1 DEF Reserve
<1>4. \A d \in Calls : Passed(d) => asked[d].request # r
  BY <1>2 DEF MessageInv, HeldFor
<1>5. ASSUME NEW d \in Calls, Passed(d)' PROVE pc'[d] # "idle" /\ HeldFor(d)'
  <2>1. CASE d = c
    BY <2>1, <1>2, <1>3 DEF HeldFor
  <2>2. CASE d # c
    <3>1. Passed(d) /\ pc'[d] = pc[d]
      BY <1>5, <2>2
    <3>2. asked[d].request \in RequestIds \ {r}
      BY <1>4, <3>1, PassedAsked
    <3>3. HeldFor(d) /\ pc[d] # "idle"
      BY <3>1 DEF MessageInv
    <3> QED BY <1>3, <3>1, <3>2, <3>3 DEF HeldFor
  <2> QED BY <2>1, <2>2
<1>6. ASSUME NEW d \in Calls, NEW e \in Calls PROVE SameTurn(d, e)'
  BY <1>4 DEF SameTurn, MessageInv
<1>7. \A q \in RequestIds : reservations'[q] # None => admissions'[q] # 0
  BY <1>3, <1>2 DEF MessageInv
<1>8. \A q \in RequestIds : CommitNamesCaller(q)'
  BY NamesKept
<1>9. \A d \in Calls : wire'[d] # None => wire'[d].reply[1] = d
  BY DEF MessageInv
<1> QED BY <1>5, <1>6, <1>7, <1>8, <1>9 DEF MessageInv

\* What leaves a call as it is with respect to the admission.
LEMMA PassedSame ==
  ASSUME NEW d \in Calls, UNCHANGED <<pc[d], wire[d], answer[d], commits>>
  PROVE  Passed(d)' <=> Passed(d)
BY DEF Passed, Told, Wrote

\* A call that is turned away, or not told of its admission, has not passed.
LEMMA RefusedNotPassed ==
  ASSUME TypeOK, NEW c \in Calls, Reject(c) \/ AdmissionUnavailable(c), Passed(c)'
  PROVE  Passed(c)
<1>1. /\ pc'[c] = "done" /\ UNCHANGED <<wire, commits>>
      /\ \E e \in ErrorCodes : answer'[c] = Error(e)
  BY HandlerDomains DEF Reject, AdmissionUnavailable, Answer, ghosts, ErrorCodes
<1> QED BY <1>1 DEF Passed, Wrote, Told, Stages, Error, ErrorCodes

\* A handler step keeps what is on the wire under the name of its call.
LEMMA WireNamesCaller ==
  ASSUME Inv, MessageInv, NEW c \in Calls, CallStep(c)
  PROVE  \A d \in Calls : wire'[d] # None => wire'[d].reply[1] = d
<1>1. TypeOK /\ CallFrame(c) /\ CallMoves(c)
  BY CallStepFrame, CallStepMoves DEF Inv
<1>2. wire'[c] # None => wire'[c].reply[1] = c
  <2>1. CASE Generate(c)
    BY <1>1, <2>1, HandlerDomains, FirstOfPair DEF Generate
  <2>2. CASE wire'[c] = wire[c] \/ wire'[c] = None
    BY <2>2 DEF MessageInv
  <2> QED BY <1>1, <2>1, <2>2 DEF CallMoves
<1> QED BY ZenonT(60), <1>1, <1>2 DEF MessageInv, CallFrame

\* A repeated id with the message it is reserved for.
LEMMA ReplayPasses ==
  ASSUME Inv, MessageInv, NEW c \in Calls, AdmitReplay(c) PROVE MessageInv'
<1> DEFINE r == asked[c].request
<1>0. TypeOK /\ CallStep(c)
  BY DEF Inv, CallStep
<1>1. CallFrame(c) /\ UNCHANGED <<reservations, admissions>>
  BY <1>0, CallStepFrame DEF AdmitReplay, store, ghosts
<1>2. UNCHANGED <<asked, commits>> /\ \A d \in Calls \ {c} : Passed(d)' <=> Passed(d)
  BY <1>1, PassedSame DEF CallFrame
<1>3. /\ pc[c] = "admission" /\ r \in RequestIds /\ asked[c] \in Requests
      /\ asked[c].message \in Messages
  BY PassedAsked DEF AdmitReplay
<1>4. reservations[r] = asked[c].message /\ reservations[r] # None
  BY <1>3, StoreAssumption DEF AdmitReplay, AdmissionDecision
<1>5. HeldFor(c)
  BY <1>3, <1>4 DEF MessageInv, HeldFor
<1>6. ASSUME NEW d \in Calls, Passed(d), asked[d].request = r PROVE asked[d] = asked[c]
  <2>1. HeldFor(d) /\ asked[d] \in Requests
    BY <1>6, PassedAsked DEF MessageInv
  <2> QED BY <1>4, <1>6, <2>1, <1>3, RequestEquals DEF HeldFor
<1>7. ASSUME NEW d \in Calls, Passed(d)' PROVE pc'[d] # "idle" /\ HeldFor(d)'
  <2>1. pc'[d] # "idle"
    BY <1>1, <1>2, <1>7 DEF CallFrame, MessageInv
  <2>2. HeldFor(d)
    BY <1>2, <1>5, <1>7 DEF MessageInv
  <2> QED BY <1>1, <1>2, <2>1, <2>2 DEF HeldFor
<1>8. ASSUME NEW d \in Calls, NEW e \in Calls PROVE SameTurn(d, e)'
  <2> SUFFICES ASSUME Passed(d)', Passed(e)', asked[d].request = asked[e].request
               PROVE  asked[d] = asked[e]
    BY <1>2 DEF SameTurn
  <2>1. CASE d = c \/ e = c
    BY <1>2, <1>6, <2>1
  <2>2. CASE d # c /\ e # c
    BY <1>2, <2>2 DEF MessageInv, SameTurn
  <2> QED BY <2>1, <2>2
<1>9. \A d \in Calls : wire'[d] # None => wire'[d].reply[1] = d
  BY <1>0, WireNamesCaller
<1>10. \A q \in RequestIds : CommitNamesCaller(q)'
  BY <1>2, NamesKept
<1> QED BY ZenonT(60), <1>1, <1>7, <1>8, <1>9, <1>10 DEF MessageInv

\* Every other step of a handler.
LEMMA HandlerKeepsMessage ==
  ASSUME Inv, MessageInv, MaxAdmissions = 1, NEW c \in Calls, CallStep(c) PROVE MessageInv'
<1>0. TypeOK
  BY DEF Inv
<1>1. /\ UNCHANGED <<asked, commits>> /\ pc'[c] # "idle" /\ pc[c] \notin {"idle", "done"}
      /\ \A d \in Calls \ {c} : pc'[d] = pc[d] /\ (Passed(d)' <=> Passed(d))
  BY <1>0, CallStepFrame, PassedSame DEF CallFrame
<1>2. \A q \in RequestIds : CommitNamesCaller(q)'
  BY <1>1, NamesKept
<1>3. \A d \in Calls : Passed(d) => asked'[d] = asked[d] /\ pc'[d] # "idle"
  BY <1>1 DEF MessageInv
<1>4. ASSUME Passed(c)' => Passed(c), UNCHANGED <<admissions, reservations>> PROVE MessageInv'
  BY WireNamesCaller, <1>1, <1>4, <1>2, <1>3, NobodyPasses
<1>5. CASE Admit(c)
  <2>1. /\ pc[c] = "admission" /\ admissions[asked[c].request] < MaxAdmissions
        /\ Reserve(asked[c].request, asked[c].message) /\ wire' = wire
        /\ admissions' = [admissions EXCEPT ![asked[c].request] = @ + 1]
    BY <1>5 DEF Admit
  <2> QED BY ZenonT(60), <1>1, <2>1, Reserving
<1>6. CASE AdmitReplay(c)
  BY <1>6, ReplayPasses
<1>7. CASE AdmissionUnavailable(c) /\ ~UNCHANGED <<store, admissions>>
  <2>1. /\ pc[c] = "admission" /\ admissions[asked[c].request] < MaxAdmissions
        /\ Reserve(asked[c].request, asked[c].message) /\ wire' = wire
        /\ admissions' = [admissions EXCEPT ![asked[c].request] = @ + 1]
    BY <1>7 DEF AdmissionUnavailable
  <2> QED BY ZenonT(60), <1>1, <2>1, Reserving
<1>8. CASE Reject(c) \/ (AdmissionUnavailable(c) /\ UNCHANGED <<store, admissions>>)
  <2>1. UNCHANGED <<admissions, reservations>>
    BY <1>8 DEF Reject, store, ghosts
  <2> QED BY <1>0, <1>8, RefusedNotPassed, <1>4, <2>1
<1>9. CASE pc[c] # "admission"
  <2>1. Passed(c)
    BY <1>0, <1>1, <1>9 DEF Passed, TypeOK
  <2>2. UNCHANGED <<admissions, reservations>>
    BY <1>9, OnlyAdmissionReserves DEF Admit, AdmissionUnavailable
  <2> QED BY <1>4, <2>1, <2>2
<1>10. CASE pc[c] = "admission"
  <2>1. Admit(c) \/ AdmitReplay(c) \/ Reject(c) \/ AdmissionUnavailable(c)
    BY <1>10 DEF CallStep, AcquireLock, LoadState, LoadHistory, LoadMemories, Generate,
       CommitSucceeded, RetryTurn, CommitConflict, CommitUnavailable, Replay, Abandon, Returned,
       Stages
  <2> QED BY <1>5, <1>6, <1>7, <1>8, <2>1
<1> QED BY <1>9, <1>10

\* The reply that the database commits carries the name of its call.
LEMMA ExecuteKeepsMessage ==
  ASSUME Inv, MessageInv, NEW c \in Calls, ExecuteCommit(c) PROVE MessageInv'
<1> DEFINE r == asked[c].request
           y == wire[c].reply
<1>0. TypeOK /\ wire[c] # None /\ UNCHANGED <<pc, asked, answer, admissions>>
  BY DEF Inv, ExecuteCommit, handler
<1>1. Passed(c) /\ y[1] = c
  BY <1>0 DEF Passed, MessageInv
<1>2. wire[c] \in WireRpcs /\ y \in Replies /\ r \in RequestIds
  BY <1>0, <1>1, PassedAsked DEF TypeOK, WireRpcs
<1>3. /\ wire'[c] # None => wire'[c].reply = y
      /\ \A d \in Calls \ {c} : wire'[d] = wire[d]
  BY <1>0, <1>2 DEF ExecuteCommit, TypeOK, WireRpcs
<1>4. \A q \in RequestIds : \A z \in Range(commits'[q]) :
        z \in Range(commits[q]) \/ (q = r /\ z = y)
  <2>1. \A q \in RequestIds : \/ commits'[q] = commits[q]
                              \/ q = r /\ commits'[q] = Append(commits[q], y)
    BY <1>0, <1>2 DEF ExecuteCommit, TypeOK
  <2>2. ASSUME NEW q \in RequestIds, NEW z \in Range(commits'[q])
        PROVE  z \in Range(commits[q]) \/ (q = r /\ z = y)
    <3> HIDE DEF r, y
    <3>1. CASE commits'[q] = commits[q]
      BY <3>1
    <3>2. CASE q = r /\ commits'[q] = Append(commits[q], y)
      BY <1>0, <1>2, CommitsAppend, <3>2 DEF TypeOK
    <3> QED BY <2>1, <3>1, <3>2
  <2> QED BY <2>2
<1>5. ASSUME NEW d \in Calls, Passed(d)' PROVE Passed(d)
  <2>1. CASE d = c
    BY <1>1, <2>1
  <2>2. CASE d # c
    <3>1. Wrote(d)' => Wrote(d)
      BY <1>1, <1>4, <2>2 DEF Wrote
    <3> QED BY <1>0, <1>3, <1>5, <2>2, <3>1 DEF Passed, Told
  <2> QED BY <2>1, <2>2
<1>6. \A d \in Calls : Passed(d) => asked'[d] = asked[d] /\ pc'[d] # "idle"
  BY <1>0 DEF MessageInv
<1>7. \A q \in RequestIds : reservations'[q] \in {reservations[q], None}
  BY DEF ExecuteCommit, commit_turn, ApplyTurn, store
<1>8. \A d \in Calls : wire'[d] # None => wire'[d].reply[1] = d
  BY <1>1, <1>3 DEF MessageInv
<1>9. \A q \in RequestIds : CommitNamesCaller(q)'
  BY ZenonT(60), <1>0, <1>1, <1>4 DEF MessageInv, CommitNamesCaller
<1> QED BY <1>0, <1>5, <1>6, <1>7, <1>8, <1>9, NobodyPasses

\* No step ties an id to a second message while it is admitted once.
LEMMA MessageStep ==
  ASSUME MaxAdmissions = 1
  PROVE  Inv /\ MessageInv /\ [Next]_vars => MessageInv'
<1>a. SUFFICES ASSUME Inv, MessageInv, [Next]_vars PROVE MessageInv'
  OBVIOUS
<1>0. TypeOK /\ MessageInv /\ Inv
  BY <1>a DEF Inv
<1>1. ASSUME UNCHANGED <<commits, admissions>>,
             \A d \in Calls : Passed(d)' => Passed(d),
             \A d \in Calls : Passed(d) => asked'[d] = asked[d] /\ pc'[d] # "idle",
             \A r \in RequestIds : reservations'[r] \in {reservations[r], None},
             \A d \in Calls : wire'[d] # None => wire'[d].reply[1] = d
      PROVE  MessageInv'
  BY <1>0, <1>1, NamesKept, NobodyPasses
<1>2. ASSUME NEW c \in Calls, NEW r \in RequestIds, NEW m \in Messages, Arrive(c, r, m)
      PROVE  MessageInv'
  <2>1. /\ UNCHANGED <<answer, wire, commits, admissions, reservations>>
        /\ pc[c] = "idle" /\ pc'[c] = "admission"
        /\ \A d \in Calls \ {c} : pc'[d] = pc[d] /\ asked'[d] = asked[d]
    BY <1>0, <1>2 DEF Arrive, TypeOK, store, ghosts
  <2>2. ~Passed(c)'
    BY <1>0, <2>1 DEF Passed, Told, Wrote, Stages, MessageInv
  <2>3. \A d \in Calls : Passed(d)' => Passed(d)
    BY <2>1, PassedSame, <2>2
  <2>4. \A d \in Calls : Passed(d) => asked'[d] = asked[d] /\ pc'[d] # "idle"
    BY <1>0, <2>1 DEF MessageInv
  <2>5. \A d \in Calls : wire'[d] # None => wire'[d].reply[1] = d
    BY <1>0, <2>1 DEF MessageInv
  <2> QED BY <1>1, <2>1, <2>3, <2>4, <2>5
<1>3. ASSUME NEW c \in Calls, LoseCommit(c) PROVE MessageInv'
  <2>1. /\ UNCHANGED <<pc, asked, answer, commits, admissions, reservations>>
        /\ wire'[c] = None /\ wire[c] # None /\ \A d \in Calls \ {c} : wire'[d] = wire[d]
    BY ZenonT(60), <1>0, <1>3 DEF LoseCommit, TypeOK, store, handler, ghosts
  <2>2. \A d \in Calls : Passed(d)' => Passed(d)
    BY ZenonT(60), <2>1, PassedSame DEF Passed
  <2>3. \A d \in Calls : Passed(d) => asked'[d] = asked[d] /\ pc'[d] # "idle"
    BY ZenonT(60), <1>0, <2>1 DEF MessageInv
  <2>4. \A d \in Calls : wire'[d] # None => wire'[d].reply[1] = d
    BY <1>0, <2>1 DEF MessageInv
  <2> QED BY <1>1, <2>1, <2>2, <2>3, <2>4
<1>4. ASSUME UNCHANGED <<pc, asked, answer, wire, commits, admissions>>,
             \A r \in RequestIds : reservations'[r] \in {reservations[r], None}
      PROVE  MessageInv'
  <2>1. \A d \in Calls : Passed(d) => asked'[d] = asked[d] /\ pc'[d] # "idle"
    BY <1>0, <1>4 DEF MessageInv
  <2>2. \A d \in Calls : wire'[d] # None => wire'[d].reply[1] = d
    BY <1>0, <1>4 DEF MessageInv
  <2> QED BY <1>4, PassedSame, <1>1, <2>1, <2>2
<1>5. ASSUME NEW o \in OpIds, NEW k \in PrivacyKinds, NEW t \in Stamps, Privacy(o, k, t)
      PROVE  MessageInv'
  BY <1>5, <1>4 DEF Privacy, privacy_apply_operation, ApplyPrivacy, handler, store
<1>6. ASSUME NEW r \in RequestIds, ForgetReservation(r) PROVE MessageInv'
  <2>1. \A q \in RequestIds : reservations'[q] \in {reservations[q], None}
    BY <1>0, <1>6 DEF ForgetReservation, purge_admission_reservations, TypeOK, StoreTypeOK
  <2> QED BY <1>6, <1>4, <2>1 DEF ForgetReservation, handler, ghosts
<1>7. ASSUME NEW o \in OpIds, ForgetPrivacyOp(o) PROVE MessageInv'
  BY ZenonT(60), <1>7, <1>4 DEF ForgetPrivacyOp, purge_privacy_operations, handler, ghosts
<1>8. CASE UNCHANGED vars
  BY <1>8, <1>4 DEF vars, handler, store
<1>9. ASSUME NEW c \in Calls, CallStep(c) \/ ExecuteCommit(c) PROVE MessageInv'
  BY <1>0, <1>9, HandlerKeepsMessage, ExecuteKeepsMessage
<1> QED BY <1>a, <1>2, <1>3, <1>5, <1>6, <1>7, <1>8, <1>9 DEF Next

\* As long as no id is admitted a second time, which the reservation sees to
\* for 24 hours, an "ok" answers the very message of the call: a repeated id
\* is never given the reply to another message, however calls, late commits
\* and forgotten reservations interleave.
THEOREM AnswerFitsMessageHolds ==
  ASSUME MaxAdmissions = 1
  PROVE  Spec => []AnswerFitsMessage
<1>1. Init => ModeInv /\ BackedInv /\ MessageInv
  <2> SUFFICES ASSUME Init PROVE ModeInv /\ BackedInv /\ MessageInv
    OBVIOUS
  <2> QED
    BY DEF Init, StoreInit, ModeInv, BackedInv, AnswerBacked, WireBacked, MessageInv, SameTurn,
       CommitNamesCaller, Range, Passed, Told, Wrote, Stages
<1>2. Inv /\ ModeInv /\ BackedInv /\ MessageInv /\ [Next]_vars =>
        (ModeInv /\ BackedInv /\ MessageInv)'
  BY ModeStep, BackedStep, MessageStep
<1>3. Inv /\ BackedInv /\ MessageInv => AnswerFitsMessage
  <2> SUFFICES ASSUME Inv, BackedInv, MessageInv, NEW c \in Calls, Told(c)
               PROVE  asked[answer[c].reply[1]] = asked[c]
    BY DEF AnswerFitsMessage, Told
  <2> DEFINE r == asked[c].request
             y == answer[c].reply
  <2>1. Passed(c) /\ r \in RequestIds
    BY PassedAsked DEF Passed
  <2>2. y \in Range(commits[r])
    BY DEF Told, BackedInv, AnswerBacked, Committed
  <2>3. y[1] \in Calls
    BY <2>1, <2>2, CommittedReplies DEF Inv, TypeOK
  <2>4. Passed(y[1]) /\ asked[y[1]].request = r
    BY ZenonT(60), <2>1, <2>2, <2>3 DEF Passed, Wrote, MessageInv, CommitNamesCaller
  <2> QED BY <2>1, <2>3, <2>4 DEF MessageInv, SameTurn
<1> QED BY <1>1, <1>2, <1>3, InvHolds, PTL DEF Spec

-----------------------------------------------------------------------------
(* Refinement: the concurrent protocol behaves like turns run one by one.  *)

\* A commit that is applied is a whole turn of the abstract store.
LEMMA CommitIsSerialTurn ==
  ASSUME Inv, NEW c \in Calls, ExecuteCommit(c),
         CommitDecision(asked[c].request, wire[c].reply, wire[c].loaded.revision) = "committed"
  PROVE  Serial!Turn(asked[c].request, asked[c].message, wire[c].reply)
<1>1. turns[asked[c].request] = None
  BY ZenonT(60) DEF CommitDecision
<1>2. ApplyTurn(asked[c].request, asked[c].message, wire[c].reply, wire[c].loaded)
  BY DEF ExecuteCommit, commit_turn
<1> QED
  BY Zenon, <1>1, <1>2, CommitIsCurrent DEF ApplyTurn, TurnMessages, Serial!Turn

\* A privacy operation that is applied is one of the abstract store.
LEMMA PrivacyIsSerialStep ==
  ASSUME Inv, NEW o \in OpIds, NEW k \in PrivacyKinds, NEW t \in Stamps, ApplyPrivacy(o, k, t)
  PROVE  Serial!EraseHistory \/ Serial!ResetSnapshots
<1>0. profile \in Profiles
  BY DEF Inv, TypeOK, StoreTypeOK
<1>1. PrivacyRevision = Serial!Bumped
  BY DEF PrivacyRevision, Serial!Bumped
<1>2. CASE k = "delete_history"
  <2>1. profile' = [profile EXCEPT !.revision = PrivacyRevision, !.emotional = profile.emotional,
                                   !.relationship = profile.relationship]
    BY <1>2 DEF ApplyPrivacy
  <2>2. profile' = [profile EXCEPT !.revision = PrivacyRevision]
    BY Zenon, <1>0, <2>1 DEF Profiles
  <2> QED
    BY Zenon, <1>1, <1>2, <2>2 DEF ApplyPrivacy, Serial!EraseHistory
<1>3. CASE k # "delete_history"
  <2>1. PICK e \in {profile.emotional, <<>>}, x \in {profile.relationship, <<>>} :
          profile' = [profile EXCEPT !.revision = PrivacyRevision, !.emotional = e,
                                     !.relationship = x]
    BY Zenon DEF ApplyPrivacy
  <2> QED
    BY Zenon, <1>1, <1>3, <2>1 DEF ApplyPrivacy, Serial!ResetSnapshots
<1> QED
  BY <1>2, <1>3

\* Whatever the interleaving of calls on all instances, the profile, the
\* recorded requests and the messages evolve as if every committed turn had
\* read, run and written in one step.
THEOREM SerialTurnsHold == Spec => SerialTurnsImplemented
<1>1. Init => Serial!SerialInit
  BY DEF Init, StoreInit, NoProfile, Serial!SerialInit
<1>2. Inv /\ [Next]_vars => [Serial!SerialNext]_(Serial!serialVars)
  <2> SUFFICES ASSUME Inv, [Next]_vars, ~UNCHANGED <<profile, turns, chatLogs>>
               PROVE  Serial!SerialNext
    BY DEF Serial!serialVars
  <2>1. ASSUME NEW c \in Calls, ExecuteCommit(c) PROVE Serial!SerialNext
    <3>1. CommitDecision(asked[c].request, wire[c].reply, wire[c].loaded.revision) = "committed"
      BY <2>1 DEF ExecuteCommit, commit_turn, store
    <3>2. /\ asked[c].request \in RequestIds /\ asked[c].message \in Messages
          /\ wire[c].reply \in Replies
      BY <2>1 DEF ExecuteCommit, Inv, AskedInv, Requests, TypeOK, WireRpcs
    <3> QED BY <2>1, <3>1, <3>2, CommitIsSerialTurn DEF Serial!SerialNext
  <2>2. ASSUME NEW o \in OpIds, NEW k \in PrivacyKinds, NEW t \in Stamps, Privacy(o, k, t)
        PROVE  Serial!SerialNext
    BY <2>2, PrivacyIsSerialStep DEF Serial!SerialNext, Privacy, privacy_apply_operation, store
  <2> QED
    BY ZenonT(60), <2>1, <2>2, CallStepFrame DEF CallFrame, Inv, Next, Arrive, LoseCommit,
       ForgetReservation, ForgetPrivacyOp, vars, purge_admission_reservations,
       purge_privacy_operations, store
<1> QED BY <1>1, <1>2, InvHolds, PTL DEF Spec, SerialTurnsImplemented, Serial!SerialSpec

=============================================================================
