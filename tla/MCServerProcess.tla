---------------------------- MODULE MCServerProcess ----------------------------
(***************************************************************************)
(* A backend process for TLC: the lock of one user's turns (UserLocks) and *)
(* the lifespan with its readiness polls (ServerLifecycle), and the check  *)
(* of the worker configuration before both.  They share no state; a        *)
(* behaviour explores one of them, chosen at the start, and leaves the     *)
(* others in their initial state.                                          *)
(***************************************************************************)
EXTENDS UserLocks, ServerLifecycle, RuntimeContainment

VARIABLES part, config

Unconfigured ==
  [argv |-> <<>>, gunicorn |-> Missing, web_concurrency |-> Missing, uvicorn_workers |-> Missing]

MCArgs ==
  UNION {[1..n -> {Long(1), Long(2), Long(Missing), Spaced("--workers"), Spaced("-w"), Short(1),
                   Short(2), Short(Bad), Value(1), Value(2), Value(Bad)}] : n \in 0..3}

\* The arguments of the process, or the environment with those of gunicorn.
MCConfigs ==
  {[Unconfigured EXCEPT !.argv = args] : args \in MCArgs}
    \cup {[Unconfigured EXCEPT !.gunicorn = args, !.web_concurrency = n, !.uvicorn_workers = u] :
            args \in {<<>>, <<Long(1)>>, <<Value(Bad), Short(2)>>}, n \in {Missing, 0, 1, 2, Bad},
            u \in {Missing, 1, 2}}

\* A lifespan with all the polls, or with one and the requests.
ProcessInit ==
  /\ part \in {"locks", "lifespan", "workers"}
  /\ Init
  /\ config \in IF part = "workers" THEN MCConfigs ELSE {Unconfigured}
  /\ \/ part \in {"locks", "workers"} /\ LifeInit(FALSE, {}, {})
     \/ /\ part = "lifespan"
        /\ \E injected \in BOOLEAN :
             LifeInit(injected, Polls, {}) \/ LifeInit(injected, {1}, Requests)

ProcessNext ==
  \/ part = "locks" /\ Next /\ UNCHANGED <<part, config, lifeVars>>
  \/ part = "lifespan" /\ LifeNext /\ UNCHANGED <<part, config, vars>>

ProcessSpec ==
  /\ ProcessInit /\ [][ProcessNext]_<<part, config, vars, lifeVars>>
  /\ \A t \in Tasks : WF_vars(Runs(t))
  /\ LifeFairness

\* A process that starts has one worker: wherever its configuration names a
\* number of workers, and however often, the number is one.  The lock of
\* UserLocks serialises a user's turns only under this condition.
OneWorker == validate_worker_configuration(config) => \A n \in Named(config) : n = 1

\* Nobody waits for ever: a turn that waits for its user's lock gets it unless it
\* is cancelled, a readiness poll is answered or cancelled whatever the service
\* it asks does, and a shutdown that waits for a probe ends.
EveryWaitEnds == EveryWaiterServed /\ PollsAndShutdownsEnd
=============================================================================
