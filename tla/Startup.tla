------------------------------ MODULE Startup ------------------------------
(***************************************************************************)
(* How a service comes to its logger: config.LoadInto reads a file over    *)
(* the defaults in the code, OverrideFromEnv puts the environment over     *)
(* both (zenserver/config), and logx.Init makes of the result the handlers *)
(* that every line goes through (zenserver/logx/logx.go).  Of the settings *)
(* there are the three that decide where a line goes.                      *)
(***************************************************************************)
EXTENDS Naturals, Sequences, SequencesExt, FiniteSets

CONSTANTS
    InFile, InEnv,  \* the values the file and the environment give to a setting
    MaxBroken       \* bound: destinations that break

VARIABLES
    stage,      \* "file", "env", "init", "running", "refused" (an error was returned)
    file, env,  \* what is set where; forgotten once it has been read
    cfg,        \* the struct that is filled
    wanted,     \* history: what file and environment ask for
    broken      \* destinations that fail to write

startVars == <<stage, file, env, cfg, wanted, broken>>

Settings == {"level", "mode", "console"}
Destinations == {"stdout", "app.log", "error.log"}

\* A setting that is not set; the zero value of a string.
Unset == ""
Nothing == [s \in Settings |-> Unset]

\* Go's zero values: the service gives no defaults of its own.
Zero == [level |-> "", mode |-> "", console |-> "false"]

\* withDefaults
WithDefaults(c) ==
    [c EXCEPT !.level = IF @ = "" THEN "info" ELSE @, !.mode = IF @ = "" THEN "prod" ELSE @]

\* The environment comes first, then the file, then the default.
Precedence(e, f) ==
    WithDefaults([s \in Settings |-> IF e[s] # Unset THEN e[s]
                                     ELSE IF f[s] # Unset THEN f[s] ELSE Zero[s]])

StartInit ==
    /\ stage = "file" /\ broken = {} /\ cfg = Zero
    /\ file \in [level : InFile.level, mode : InFile.mode, console : InFile.console]
    /\ env \in [level : InEnv.level, mode : InEnv.mode, console : InEnv.console]
    /\ wanted = Precedence(env, file)
-----------------------------------------------------------------------------
\* LoadInto reads the file over what cfg holds; it may be missing, or no YAML.
LoadFile ==
    /\ stage = "file"
    /\ \/ /\ cfg' = [s \in Settings |-> IF file[s] = Unset THEN cfg[s] ELSE file[s]]
          /\ stage' = "env"
       \/ stage' = "refused" /\ UNCHANGED cfg
    /\ file' = Nothing
    /\ UNCHANGED <<env, wanted, broken>>

\* setValue: what is no Boolean cannot be stored in one, a string can be anything.
Parses(s, raw) == s # "console" \/ raw \in {"true", "false"}

\* Altered: a variable without a value sets the field to its zero value.
GivenAlways(s) == TRUE

\* An empty variable is one that is not set.
Given(s) == env[s] # Unset

\* walk: every field that can be set is set, also when another one fails.
OverrideFromEnv ==
    /\ stage = "env"
    /\ cfg' = [s \in Settings |->
                 IF Given(s) /\ Parses(s, env[s]) THEN env[s] ELSE cfg[s]]
    /\ stage' = IF \E s \in Settings : Given(s) /\ ~Parses(s, env[s]) THEN "refused" ELSE "init"
    /\ env' = Nothing
    /\ UNCHANGED <<file, wanted, broken>>

Levels == {"info", "error"}
Modes == {"dev", "prod"}

\* Init: level and mode have to be known, and in prod the directory to be there.
InitLogx ==
    /\ stage = "init"
    /\ cfg' = WithDefaults(cfg)
    /\ IF cfg'.level \in Levels /\ cfg'.mode \in Modes
         THEN stage' = "running" \/ (cfg'.mode = "prod" /\ stage' = "refused")
         ELSE stage' = "refused"
    /\ UNCHANGED <<file, env, wanted, broken>>

Start == LoadFile \/ OverrideFromEnv \/ InitLogx

\* A disk is full, or nobody reads the pipe any more.
Break(d) ==
    /\ stage = "running" /\ Cardinality(broken) < MaxBroken
    /\ broken' = broken \cup {d}
    /\ UNCHANGED <<stage, file, env, cfg, wanted>>
-----------------------------------------------------------------------------
(* The handlers: what becomes of a line.                                   *)

\* A handler with threshold t takes a line of level l.
Takes(t, l) == t = "info" \/ l = "error"

\* One Write on an io.MultiWriter: in turn, up to the first that fails.
Write(ws) ==
    LET good == {k \in 0..Len(ws) : \A j \in 1..k : ws[j] \notin broken}
    IN  SubSeq(ws, 1, CHOOSE k \in good : \A j \in good : j <= k)

\* newRotateHandler: where app and errs write to.
AppWriters == IF cfg.console = "true" THEN <<"stdout", "app.log">> ELSE <<"app.log">>
ErrWriters == IF cfg.console = "true" THEN <<"error.log">> ELSE <<"stdout", "error.log">>

\* Altered: a handler that fails ends the round.
HandleUntilError(l) ==
    LET app == Write(AppWriters)
    IN  IF Takes(cfg.level, l) /\ app # AppWriters THEN app
        ELSE (IF Takes(cfg.level, l) THEN app ELSE <<>>)
             \o (IF l = "error" THEN Write(ErrWriters) ELSE <<>>)

\* multiHandler.Handle: each handler that takes the line, whatever the others return.
Handle(l) ==
    (IF Takes(cfg.level, l) THEN Write(AppWriters) ELSE <<>>)
    \o (IF l = "error" THEN Write(ErrWriters) ELSE <<>>)

\* The destinations a line reaches, in turn.
Reached(l) ==
    IF cfg.mode = "dev" THEN (IF Takes(cfg.level, l) THEN Write(<<"stdout">>) ELSE <<>>)
    ELSE Handle(l)

\* Enabled of the handlers.
Enabled(l) == Takes(cfg.level, l) \/ (cfg.mode = "prod" /\ l = "error")
=============================================================================
