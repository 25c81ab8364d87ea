---------------------------- MODULE MC_RequestLog ----------------------------
(***************************************************************************)
(* RequestLog for TLC: settings that are missing, good and bad in the file *)
(* and in the environment, and a shared logger that was not derived, or    *)
(* three times, after which an append would find room.                     *)
(***************************************************************************)
EXTENDS RequestLog, TLC

Symmetry == Permutations(Requests)

MCInFile == [level |-> {"", "error"}, mode |-> {"", "dev"}, console |-> {"", "true"}]
MCInEnv == [level |-> {"", "info", "loud"}, mode |-> {"", "prod", "staging"},
            console |-> {"", "false", "maybe"}]

Own(kind) == [kind |-> kind, by |-> "service"]
MCShapes == {<<>>, <<Own("attr"), Own("attr"), Own("attr")>>}
=============================================================================
