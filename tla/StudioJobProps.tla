--------------------------- MODULE StudioJobProps ---------------------------
(***************************************************************************)
(* What a studio job owes its clients.                                     *)
(***************************************************************************)
EXTENDS StudioJob, SequencesExt

\* The status and the result agree: a job that is done has a result and one in
\* error has none, however pushes, finishes and cancels interleave
\* (serve.py:175-189, 238-243).
OutcomeAgrees ==
    /\ status = "done" => result
    /\ status = "error" => ~result
    /\ result => Last(events) = "done"

\* A cancelled job stays cancelled: neither a late terminal event nor the end of
\* the reader thread makes it done or failed (serve.py:180, 186).
CancelSticks == [][status = "cancelled" => status' = "cancelled"]_vars

\* A client has received each event once, in order, from the first one on, and
\* what it has not received yet is still to come (serve.py:159-161, 484-499).
ClientsFollow ==
    \A c \in Clients : client[c] # "gone" => received[c] \o batch[c] = SubSeq(events, 1, idx[c])

\* The end of a stream leaves nothing out, now or later, unless the job was
\* cancelled: no event is pushed behind the back of a client that was told the
\* stream is over (serve.py:500-503).
EndIsTheEnd ==
    \A c \in Clients :
        client[c] = "ended" /\ status # "cancelled" => received[c] = events

\* Every streaming request is told the end, unless its client leaves or the
\* thread that would tell it raised over half a plan: a job that ends without a
\* new event wakes its streams too (serve.py:188, 484-503).
StreamsEnd ==
    \A c \in Clients :
        (client[c] = "wait") ~> (client[c] \in {"ended", "gone"} \/ reader = "raised")

\* A job that nobody cancels comes to an end, and leaves no solver and no thread
\* behind: neither waits for the other over a full pipe, and the end is told,
\* except by a thread that raised over half a plan (serve.py:201-243, 252-280).
JobsFinish ==
    ([](status # "cancelled")) =>
        <>(/\ child # "running"
           /\ reader = "raised" \/ (reader = "ended" /\ status # "running"))

-----------------------------------------------------------------------------
(* What serve.py says, and the code does not do.                            *)

\* serve.py:21 "cancel an in-flight job": the solver of a cancelled job stops.  It
\* does not when the cancel is handled before job.proc is assigned (serve.py:189-199).
CancelStopsTheSolver == (status = "cancelled") ~> (child = "exited" \/ reader = "ended")
=============================================================================
