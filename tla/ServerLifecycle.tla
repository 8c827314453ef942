--------------------------- MODULE ServerLifecycle ----------------------------
(***************************************************************************)
(* One backend process: the lifespan that builds, serves and closes a      *)
(* composition of dependencies, the readiness registry it owns, polls of   *)
(* /ready, and requests that ask for the dependencies twice, once to       *)
(* authenticate and once in the handler.  Everything shares an event loop, *)
(* so a step is what a task does between two suspensions.  A poll's probe  *)
(* is a task of its own, named after the poll.  The server around the      *)
(* application may start its lifespan again, as the tests do, and does not *)
(* wait for polls or requests before it stops.                             *)
(***************************************************************************)
EXTENDS Naturals, Sequences, FiniteSets

CONSTANTS
  MaxStartups,  \* bound on the lifespan cycles
  MaxPolls,     \* bound on GET /ready
  Requests,     \* GET /history or a privacy action, each made once
  Absent        \* no composition, no probe

VARIABLES
  app,      \* app.state: deps, owned, resources, started
  phase,    \* of _lifespan: down, up, or stopping at a check of the registry
  comps,    \* every composition built so far, and the injected one
  poll,     \* where each poll stands, and its probe
  request   \* where each request stands

lifeVars == <<app, phase, comps, poll, request>>

Injected == 0

Compositions == 0..MaxStartups

\* Polls are numbered in the order they arrive.
Polls == 1..MaxPolls

-----------------------------------------------------------------------------
(* The registry.                                                           *)

\* The order of build_health_registry, without embeddings.
Checks == <<"configuration", "auth", "database", "persistence", "provider">>

\* The checks with a probe, a close and an aclose, in that order.
Probing == <<"auth", "database">>

\* A composition: whether the Supabase client exists and the probes were built,
\* the checks closed, and _inflight of each check with a probe.
NewComposition(client, probed) ==
  [built |-> TRUE, client |-> client, probed |-> probed, closed |-> {},
   inflight |-> [k \in {"auth", "database"} |-> Absent]]

NotBuilt == [NewComposition(FALSE, FALSE) EXCEPT !.built = FALSE]

\* The factory yields no client without a configuration, or when it fails.
Buildable == {NewComposition(FALSE, FALSE), NewComposition(FALSE, TRUE),
              NewComposition(TRUE, TRUE)}

\* A probe task that is not done.
Live(p) == poll[p].probe \in {"running", "cancelled"}

InFlight(c, k) == comps[c].inflight[k] # Absent /\ Live(comps[c].inflight[k])

\* Mutant: a poll does not look whether a probe is in flight.
MutMayProbe(c, k) == comps[c].probed /\ k \notin comps[c].closed

\* The guards of DatabaseCheck.run and AuthClientCheck.run before the probe.
MayProbe(c, k) ==
  /\ k = "auth" => comps[c].client
  /\ comps[c].probed /\ k \notin comps[c].closed
  /\ ~InFlight(c, k)

\* A check that suspends the poll: a probe, or the provider's status in a thread.
Suspends(c, k) == k = "provider" \/ (k \in {"auth", "database"} /\ MayProbe(c, k))

\* A check that fails at once.
FailsAtOnce(c, k) ==
  \/ k \in {"auth", "database"} /\ ~MayProbe(c, k)
  \/ k = "persistence" /\ ~comps[c].client

-----------------------------------------------------------------------------
(* GET /ready.                                                             *)

IdlePoll == [pc |-> "idle", comp |-> Absent, at |-> 0, failed |-> FALSE, probe |-> "none",
             stopped |-> "no", code |-> 0]

Least(S) == CHOOSE i \in S : \A j \in S : i <= j

\* build_ready_response, with the flag as it is once every check has run.
build_ready_response(failed) == IF failed \/ ~app.started THEN 503 ELSE 200

\* run_all from check i on, up to the next suspension or the answer.
RunChecks(p, c, i, failed) ==
  LET rest == i..Len(Checks)
      next == Least({j \in rest : Suspends(c, Checks[j])} \cup {Len(Checks) + 1})
      bad == failed \/ \E j \in rest : j < next /\ FailsAtOnce(c, Checks[j])
      on == [IdlePoll EXCEPT !.comp = c, !.at = next, !.failed = bad]
  IN IF next > Len(Checks)
     THEN [IdlePoll EXCEPT !.pc = "answered", !.code = build_ready_response(bad)]
     ELSE IF Checks[next] = "provider" THEN [on EXCEPT !.pc = "asking"]
     ELSE [on EXCEPT !.pc = "probing", !.probe = "running"]

\* The poll as it stands after the step, and _inflight of the check it came to.
Proceed(p, after, c, inflight) ==
  /\ poll' = [poll EXCEPT ![p] = after]
  /\ comps' = [comps EXCEPT ![c].inflight =
       IF after.pc = "probing" THEN [inflight EXCEPT ![Checks[after.at]] = p] ELSE inflight]
  /\ UNCHANGED <<app, phase, request>>

ready_endpoint(p) ==
  /\ poll[p].pc = "idle" /\ \A q \in 1..(p - 1) : poll[q].pc # "idle"
  /\ IF app.deps = Absent
     THEN /\ poll' = [poll EXCEPT ![p].pc = "answered", ![p].code = 503]
          /\ UNCHANGED <<app, phase, comps, request>>
     ELSE Proceed(p, RunChecks(p, app.deps, 1, FALSE), app.deps, comps[app.deps].inflight)

\* The HTTP request of a probe answers, well or not.
ProbeEnds(p, ok) ==
  /\ poll[p].probe = "running"
  /\ poll' = [poll EXCEPT ![p].probe = IF ok THEN "ok" ELSE "failed"]
  /\ UNCHANGED <<app, phase, comps, request>>

\* A cancelled one stops at its next turn.
ProbeStops(p) ==
  /\ poll[p].probe = "cancelled"
  /\ poll' = [poll EXCEPT ![p].probe = "gone"]
  /\ UNCHANGED <<app, phase, comps, request>>

\* Mutant: the probe is awaited without a timeout.
MutInterrupt(p, why) ==
  /\ poll[p].pc = "asking" /\ poll[p].stopped = "no"
  /\ poll' = [poll EXCEPT ![p].stopped = why]
  /\ UNCHANGED <<app, phase, comps, request>>

\* The timeout of wait_for, or the end of the request: the probe is cancelled
\* and awaited; the thread of the provider's status is abandoned.
Interrupt(p, why) ==
  /\ poll[p].pc \in {"probing", "asking"} /\ poll[p].stopped = "no"
  /\ poll' = [poll EXCEPT ![p].stopped = why,
                          ![p].probe = IF @ = "running" THEN "cancelled" ELSE @]
  /\ UNCHANGED <<app, phase, comps, request>>

\* The finally of run: only its own task is cleared.
Cleared(c, k, p) ==
  [comps[c].inflight EXCEPT ![k] = IF @ = p THEN Absent ELSE @]

\* The probe is over: a cancellation that is not the check's own timeout ends
\* the poll, anything else is the result of the check.
AfterProbe(p) ==
  LET c == poll[p].comp
      k == Checks[poll[p].at]
      over == poll[p].stopped = "gone" \/ (poll[p].probe = "gone" /\ poll[p].stopped = "no")
      failed == poll[p].failed \/ poll[p].probe # "ok" \/ poll[p].stopped = "late"
  IN /\ poll[p].pc = "probing" /\ ~Live(p)
     /\ Proceed(p, IF over THEN [IdlePoll EXCEPT !.pc = "cancelled"]
                   ELSE RunChecks(p, c, poll[p].at + 1, failed),
                c, Cleared(c, k, p))

AfterStatus(p, configured) ==
  LET c == poll[p].comp
      failed == poll[p].failed \/ ~configured \/ poll[p].stopped = "late"
  IN /\ poll[p].pc = "asking"
     /\ Proceed(p, IF poll[p].stopped = "gone"
                   THEN [IdlePoll EXCEPT !.pc = "cancelled"]
                   ELSE RunChecks(p, c, poll[p].at + 1, failed),
                c, comps[c].inflight)

-----------------------------------------------------------------------------
(* The lifespan.                                                           *)

\* create_app, with the dependencies of the caller or none; polls and requests
\* are those still to come.
LifeInit(injected, polls, requests) ==
  /\ app = [deps |-> IF injected THEN Injected ELSE Absent, owned |-> FALSE,
            resources |-> {}, started |-> injected]
  /\ phase = [name |-> "down", at |-> 0, cycles |-> 0]
  /\ comps = [c \in Compositions |-> IF c = Injected /\ injected
                                     THEN NewComposition(TRUE, TRUE) ELSE NotBuilt]
  /\ poll = [p \in Polls |-> IF p \in polls THEN IdlePoll ELSE [IdlePoll EXCEPT !.pc = "cancelled"]]
  /\ request = [r \in Requests |-> IF r \in requests THEN "idle" ELSE "refused"]

Startup(new) ==
  LET c == phase.cycles + 1
  IN /\ phase.name = "down" /\ c <= MaxStartups
     /\ phase' = [phase EXCEPT !.name = "up", !.cycles = c]
     /\ IF app.deps = Absent
        THEN /\ app' = [deps |-> c, owned |-> TRUE, resources |-> {c}, started |-> TRUE]
             /\ comps' = [comps EXCEPT ![c] = new]
        ELSE /\ app' = [app EXCEPT !.started = TRUE]
             /\ UNCHANGED comps
     /\ UNCHANGED <<poll, request>>

\* _close_sync of the registry: no check accepts a probe any more.
ClosedOnFailure == {"auth", "database"}

\* build_default_dependencies raises, after the registry was made or before.
StartupFails(made) ==
  LET c == phase.cycles + 1
  IN /\ phase.name = "down" /\ c <= MaxStartups /\ app.deps = Absent
     /\ phase' = [phase EXCEPT !.cycles = c]
     /\ comps' = [comps EXCEPT ![c].built = made,
                               ![c].closed = IF made THEN ClosedOnFailure ELSE {}]
     /\ app' = [app EXCEPT !.resources = {}]
     /\ UNCHANGED <<poll, request>>

\* The registry of c is closed from its i-th probing check on, up to the first
\* whose probe is in flight: it is cancelled and awaited.
LiveFrom(c, i) ==
  Least({j \in i..Len(Probing) : InFlight(c, Probing[j])} \cup {Len(Probing) + 1})

CloseFrom(c, i) ==
  LET stop == LiveFrom(c, i)
      closed == {Probing[j] : j \in {n \in i..Len(Probing) : n <= stop}}
  IN /\ comps' = [comps EXCEPT ![c].closed = @ \cup closed,
                     ![c].inflight = [k \in DOMAIN @ |-> IF k \in closed THEN Absent ELSE @[k]]]
     /\ poll' = IF stop > Len(Probing) THEN poll
                ELSE [poll EXCEPT ![comps[c].inflight[Probing[stop]]].probe = "cancelled"]
     /\ phase' = IF stop > Len(Probing) THEN [phase EXCEPT !.name = "down", !.at = 0]
                 ELSE [phase EXCEPT !.name = "stopping", !.at = stop]
     /\ app' = IF stop > Len(Probing)
               THEN [deps |-> Absent, owned |-> FALSE, resources |-> {}, started |-> FALSE]
               ELSE [app EXCEPT !.started = FALSE]
     /\ UNCHANGED request

\* Injected dependencies stay in app.state and are not closed.
Shutdown ==
  /\ phase.name = "up"
  /\ IF app.owned THEN CloseFrom(app.deps, 1)
     ELSE /\ app' = [app EXCEPT !.started = FALSE]
          /\ phase' = [phase EXCEPT !.name = "down"]
          /\ UNCHANGED <<comps, poll, request>>

\* Mutant: the cancelled probe is not awaited.
MutProbeOver(c, k) == TRUE

\* aclose awaits the probe it cancelled.
ProbeOver(c, k) ==
  \A p \in Polls : poll[p].comp = c /\ poll[p].pc = "probing" /\ Checks[poll[p].at] = k => ~Live(p)

ShutdownGoesOn ==
  /\ phase.name = "stopping"
  /\ ProbeOver(app.deps, Probing[phase.at])
  /\ CloseFrom(app.deps, phase.at + 1)

-----------------------------------------------------------------------------
(* Requests.                                                               *)

\* get_dependencies does not answer 503.
Available == app.deps # Absent /\ app.started

\* get_current_user, in a thread: no credentials, no service, a refused token or
\* an error end the request.
get_current_user(r, known) ==
  /\ request[r] = "idle"
  /\ request' = [request EXCEPT ![r] =
       IF Available /\ comps[app.deps].client /\ known THEN "known" ELSE "refused"]
  /\ UNCHANGED <<app, phase, comps, poll>>

\* The handler asks again: the lifespan may have ended meanwhile.
Handle(r) ==
  /\ request[r] = "known"
  /\ request' = [request EXCEPT ![r] = IF Available THEN "served" ELSE "refused"]
  /\ UNCHANGED <<app, phase, comps, poll>>

-----------------------------------------------------------------------------

\* What the event loop does for a poll whatever the services it asks do.
PollStep(p) ==
  \/ ProbeStops(p) \/ Interrupt(p, "late") \/ AfterProbe(p)
  \/ poll[p].stopped # "no" /\ AfterStatus(p, FALSE)

LifeNext ==
  \/ (\E new \in Buildable : Startup(new)) \/ (\E made \in BOOLEAN : StartupFails(made))
  \/ Shutdown \/ ShutdownGoesOn
  \/ \E p \in Polls :
       \/ ready_endpoint(p) \/ PollStep(p) \/ Interrupt(p, "gone")
       \/ \E ok \in BOOLEAN : ProbeEnds(p, ok) \/ AfterStatus(p, ok)
  \/ \E r \in Requests : (\E known \in BOOLEAN : get_current_user(r, known)) \/ Handle(r)

\* The event loop runs ready tasks and fires timeouts; nothing obliges a probe
\* to answer, or the environment to start, to stop or to poll.
LifeFairness ==
  /\ \A p \in Polls : WF_lifeVars(PollStep(p))
  /\ WF_lifeVars(ShutdownGoesOn)

-----------------------------------------------------------------------------
(* Properties.                                                             *)

\* However polls overlap, time out and are cancelled, and whatever the shutdown
\* does meanwhile, a check of a composition has one probe in flight at most, as
\* the single-probe guard of DatabaseCheck and AuthClientCheck promises.
OneProbeInFlight ==
  \A p, q \in Polls :
    Live(p) /\ Live(q) /\ poll[p].comp = poll[q].comp /\ poll[p].at = poll[q].at => p = q

\* When the lifespan is over, or could not start, every registry it built is
\* closed and none of its probes is alive, so no owned work outlives it; the
\* injected composition is never closed.
NothingOutlivesLifespan ==
  /\ comps[Injected].closed = {}
  /\ phase.name = "down" =>
       \A c \in Compositions \ {Injected} : comps[c].built =>
         /\ comps[c].closed = {"auth", "database"}
         /\ \A p \in Polls : poll[p].comp = c => ~Live(p)

\* A poll that begins is answered or cancelled, whatever hangs: every check is
\* bounded by its timeout.  And a shutdown that begins ends.
PollsAndShutdownsEnd ==
  /\ \A p \in Polls : poll[p].pc = "probing" ~> poll[p].pc \in {"answered", "cancelled"}
  /\ phase.name = "stopping" ~> phase.name = "down"
=============================================================================
