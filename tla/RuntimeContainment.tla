-------------------------- MODULE RuntimeContainment ---------------------------
(***************************************************************************)
(* validate_worker_configuration: the process starts only if no source of  *)
(* its configuration asks for more than one worker.  An argument is a      *)
(* record: what flag it spells and the number it carries, Missing when it  *)
(* carries none and Bad when it is not a number.                           *)
(***************************************************************************)
EXTENDS Integers, Sequences

CONSTANTS Missing, Bad

\* "--workers=n", "--workers", "-w" and "-wn", "2", "--reload".
Long(n) == [flag |-> "--workers=", n |-> n]
Spaced(flag) == [flag |-> flag, n |-> Missing]
Short(n) == [flag |-> "-w", n |-> n]
Value(n) == [flag |-> "none", n |-> n]

\* int() of a text, and the comparison with one worker.
IsOne(n) == n = 1

\* An environment variable, Missing when it is not set.
check_env_var(n) == n = Missing \/ IsOne(n)

\* Flags whose number is the next argument.
TakesNext(arg) == arg.flag = "--workers" \/ (arg.flag = "-w" /\ arg.n = Missing)

\* Mutant: the scan ends at the first flag.
Mutcheck_gunicorn_args(args) ==
  \A i \in DOMAIN args :
    (\A j \in 1..(i - 1) : args[j].flag = "none") =>
      CASE TakesNext(args[i]) -> i < Len(args) /\ IsOne(args[i + 1].n)
        [] args[i].flag \in {"--workers=", "-w"} /\ ~TakesNext(args[i]) -> IsOne(args[i].n)
        [] OTHER -> TRUE

\* The scan from argument i on: every flag must carry the number one.  A number
\* that a flag takes is not looked at again.
check_gunicorn_args(args) ==
  LET scan[i \in 1..(Len(args) + 2)] ==
        IF i > Len(args) THEN TRUE
        ELSE IF TakesNext(args[i])
             THEN i < Len(args) /\ IsOne(args[i + 1].n)
                    /\ args[i + 1].flag = "none" /\ scan[i + 2]
        ELSE IF args[i].flag \in {"--workers=", "-w"}
             THEN IsOne(args[i].n) /\ scan[i + 1]
        ELSE scan[i + 1]
  IN scan[1]

\* GUNICORN_CMD_ARGS may be unset, but not empty.
validate_worker_configuration(config) ==
  /\ check_env_var(config.web_concurrency)
  /\ check_env_var(config.uvicorn_workers)
  /\ config.gunicorn # Missing =>
       config.gunicorn # <<>> /\ check_gunicorn_args(config.gunicorn)
  /\ check_gunicorn_args(config.argv)

-----------------------------------------------------------------------------

\* What a server makes of a list of arguments: the numbers its worker flags
\* carry, a flag taking the next argument whatever it is.
Declared(args) ==
  {args[i].n : i \in {j \in DOMAIN args : args[j].flag \in {"--workers=", "-w"} /\ ~TakesNext(args[j])}}
    \cup {args[i + 1].n : i \in {j \in 1..(Len(args) - 1) : TakesNext(args[j])}}

\* The numbers of workers a configuration names, wherever it does.
Named(config) ==
  Declared(config.argv)
    \cup (IF config.gunicorn = Missing THEN {} ELSE Declared(config.gunicorn))
    \cup ({config.web_concurrency, config.uvicorn_workers} \ {Missing})
=============================================================================
