---------------------------- MODULE MCStudioJob -----------------------------
(***************************************************************************)
(* A studio job of either kind for TLC: solvers that write more lines than *)
(* the pipe holds, two cancel requests, one streaming client.              *)
(***************************************************************************)
EXTENDS StudioJobProps

\* A solver that streams events, and CBS, which writes its metrics at the end.
Scripts == [ndjson |-> <<"meta", "cycle", "log", "done">>,
            cbs    |-> <<"log", "log", "log">>]
=============================================================================
