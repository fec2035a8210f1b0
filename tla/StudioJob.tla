----------------------------- MODULE StudioJob ------------------------------
(***************************************************************************)
(* One background job of the studio server (mapf/viz/serve.py): the solver *)
(* child process that writes lines into a pipe, the thread that reads them *)
(* and appends events to the job, the HTTP handlers that cancel the job,   *)
(* and the HTTP handlers that stream its events to clients.                *)
(*                                                                         *)
(* Every "with self.cv" block is one step.  The fields job.status,         *)
(* job.proc, job.result and job.events are also read outside the lock;     *)
(* each such read is a step of its own.  A wait on the condition variable  *)
(* has a timeout, so a waiter re-reads its condition sooner or later       *)
(* whether it is notified or not: waiting is the absence of a step.        *)
(***************************************************************************)
EXTENDS Naturals, Sequences, FiniteSets

CONSTANTS
    Script,     \* the lines the solver of each kind of job writes when nothing
                \* stops it: "ndjson" (hybrid and annealer jobs) or "cbs"
    PipeSize,   \* how many of them the pipe holds
    Handlers,   \* the cancel requests that may arrive
    Clients     \* the clients of /api/stream

Lines == {"meta", "cycle", "log", "done"}

ASSUME JobAssumption ==
    /\ DOMAIN Script \subseteq {"ndjson", "cbs"}
    /\ \A k \in DOMAIN Script : Script[k] \in Seq(Lines)
    /\ PipeSize \in Nat \ {0}

\* solve_stream and anneal_stream write their terminal event last.
ASSUME DoneIsLast ==
    \A k \in DOMAIN Script : \A i \in 1 .. Len(Script[k]) :
        Script[k][i] = "done" => i = Len(Script[k])

\* Lines that are not JSON are skipped, "done" is the terminal event.
IsEvent(line) == line \in {"meta", "cycle", "done"}

VARIABLES
    kind,       \* job.kind, an input
    status,     \* job.status
    events,     \* job.events
    result,     \* is job.result set
    proc,       \* is job.proc set
    reader,     \* where the reader thread is
    line,       \* the line it has just read
    child,      \* "none", "running" or "exited"
    written,    \* how many lines of the script the child has written
    signalled,  \* has SIGTERM been sent
    torn,       \* has the child died while it wrote its plan file
    pipe,       \* lines written and not read
    handler,    \* where each cancel request is
    client,     \* where each streaming request is
    idx,        \* its idx
    snapshot,   \* its status, as read under the lock
    batch,      \* its batch
    received    \* what its client has been sent

jobVars    == <<kind, status, events, result>>
childVars  == <<child, written, signalled, torn, pipe>>
readerVars == <<reader, line>>
clientVars == <<client, idx, snapshot, batch, received>>
vars       == <<jobVars, proc, readerVars, childVars, handler, clientVars>>

Statuses == {"running", "done", "error", "cancelled"}

-----------------------------------------------------------------------------
(* Job *)

\* Job.push
Push(ev) ==
    /\ events' = Append(events, ev) /\ UNCHANGED kind
    /\ IF ev = "done"
       THEN /\ result' = TRUE
            /\ status' = IF status = "running" THEN "done" ELSE status
       ELSE UNCHANGED <<result, status>>

\* Mutant of FinishAs: a finished job is finished again.
FinishAsAlways(s) == status' = s /\ UNCHANGED <<kind, events, result>>

\* Job.finish
FinishAs(s) ==
    /\ status' = IF status = "running" THEN s ELSE status
    /\ UNCHANGED <<kind, events, result>>

-----------------------------------------------------------------------------
(* The solver child process: external, as Popen, terminate, poll and wait   *)
(* in serve.py use it.                                                      *)

ChildWrites ==
    /\ child = "running" /\ written < Len(Script[kind]) /\ Len(pipe) < PipeSize
    /\ written' = written + 1
    /\ pipe' = Append(pipe, Script[kind][written + 1])
    /\ UNCHANGED <<child, signalled, torn, jobVars, proc, readerVars, handler, clientVars>>

ChildReturns ==
    /\ child = "running" /\ written = Len(Script[kind])
    /\ child' = "exited"
    /\ UNCHANGED <<written, signalled, torn, pipe, jobVars, proc, readerVars, handler, clientVars>>

\* The child dies, killed or on its own.  A line torn by its death does not
\* parse; a plan file torn by it (CBS, before the last line) does not either.
ChildDies ==
    /\ child = "running"
    /\ child' = "exited"
    /\ pipe' \in {pipe} \cup (IF Len(pipe) < PipeSize THEN {Append(pipe, "log")} ELSE {})
    /\ torn' \in {FALSE, kind = "cbs" /\ written < Len(Script[kind])}
    /\ UNCHANGED <<written, signalled, jobVars, proc, readerVars, handler, clientVars>>

ChildKilled == signalled /\ ChildDies

-----------------------------------------------------------------------------
(* The reader thread *)

\* run_cbs_job pushes a meta event before it starts the solver.
PushMeta ==
    /\ reader = "start" /\ kind = "cbs"
    /\ Push("meta")
    /\ reader' = "spawn"
    /\ UNCHANGED <<proc, line, childVars, handler, clientVars>>

\* Popen: the child runs from here on, job.proc is not set yet.
Spawn ==
    /\ reader = IF kind = "cbs" THEN "spawn" ELSE "start"
    /\ child' = "running"
    /\ reader' = "spawned"
    /\ UNCHANGED <<written, signalled, torn, pipe, jobVars, proc, line, handler, clientVars>>

\* Popen raises OSError.
SpawnFails ==
    /\ reader = IF kind = "cbs" THEN "spawn" ELSE "start"
    /\ FinishAs("error")
    /\ reader' = "ended"
    /\ UNCHANGED <<proc, line, childVars, handler, clientVars>>

Assign ==
    /\ reader = "spawned"
    /\ proc' = TRUE
    /\ reader' = IF kind = "cbs" THEN "communicate" ELSE "read"
    /\ UNCHANGED <<line, jobVars, childVars, handler, clientVars>>

ReadLine ==
    /\ reader = "read" /\ pipe # <<>>
    /\ line' = Head(pipe) /\ pipe' = Tail(pipe)
    /\ reader' = "check"
    /\ UNCHANGED <<child, written, signalled, torn, jobVars, proc, handler, clientVars>>

EndOfFile ==
    /\ reader = "read" /\ pipe = <<>> /\ child = "exited"
    /\ reader' = "wait"
    /\ UNCHANGED <<line, jobVars, proc, childVars, handler, clientVars>>

\* job.status is read without the lock: a cancelled job is not read further, a
\* line that does not parse is skipped.
CheckStatus ==
    /\ reader = "check"
    /\ reader' = IF status = "cancelled" THEN "wait"
                 ELSE IF IsEvent(line) THEN "push" ELSE "read"
    /\ UNCHANGED <<line, jobVars, proc, childVars, handler, clientVars>>

PushLine ==
    /\ reader = "push"
    /\ Push(line)
    /\ reader' = "read"
    /\ UNCHANGED <<line, proc, childVars, handler, clientVars>>

\* proc.wait() returns.
Waited ==
    /\ reader = "wait" /\ child = "exited"
    /\ reader' = "settle"
    /\ UNCHANGED <<line, jobVars, proc, childVars, handler, clientVars>>

\* Mutant of Settle: the end of the solver is taken for a success.
SettleTrusting ==
    /\ reader = "settle"
    /\ FinishAs("done")
    /\ reader' = "ended"
    /\ UNCHANGED <<line, proc, childVars, handler, clientVars>>

Settle ==
    /\ reader = "settle"
    /\ FinishAs(IF result THEN "done" ELSE "error")
    /\ reader' = "ended"
    /\ UNCHANGED <<line, proc, childVars, handler, clientVars>>

\* Mutant of Communicate: wait() in its place, which drains nothing.
CommunicateWaits ==
    /\ reader = "communicate"
    /\ child = "exited" /\ reader' = "collect" /\ pipe' = <<>>
    /\ UNCHANGED <<line, child, written, signalled, torn, jobVars, proc, handler, clientVars>>

\* communicate() drains the pipe while the child runs and returns at its end.
Communicate ==
    /\ reader = "communicate"
    /\ IF pipe # <<>>
       THEN pipe' = Tail(pipe) /\ UNCHANGED reader
       ELSE child = "exited" /\ reader' = "collect" /\ UNCHANGED pipe
    /\ UNCHANGED <<line, child, written, signalled, torn, jobVars, proc, handler, clientVars>>

\* Cancelled jobs return.  Every other one ends with a done event made of
\* whatever the solver has left, even when it crashed, except when that is half
\* a plan: parse_plan_text raises, and so the thread ends, and nobody says so.
Collect ==
    /\ reader = "collect"
    /\ reader' = IF status = "cancelled" THEN "ended" ELSE IF torn THEN "raised" ELSE "done"
    /\ UNCHANGED <<line, jobVars, proc, childVars, handler, clientVars>>

PushDone ==
    /\ reader = "done"
    /\ Push("done")
    /\ reader' = "ended"
    /\ UNCHANGED <<line, proc, childVars, handler, clientVars>>

Reader ==
    \/ PushMeta \/ Spawn \/ Assign \/ ReadLine \/ EndOfFile
    \/ CheckStatus \/ PushLine \/ Waited \/ Settle
    \/ Communicate \/ Collect \/ PushDone

-----------------------------------------------------------------------------
(* Cancel requests: Job.cancel *)

Mark(h) ==
    /\ handler[h] = "idle"
    /\ status' = "cancelled"
    /\ handler' = [handler EXCEPT ![h] = IF proc THEN "kill" ELSE "answered"]
    /\ UNCHANGED <<kind, events, result, proc, readerVars, childVars, clientVars>>

\* Outside the lock: poll() and, when the child still runs, terminate().
Kill(h) ==
    /\ handler[h] = "kill"
    /\ signalled' = (signalled \/ child = "running")
    /\ handler' = [handler EXCEPT ![h] = "answered"]
    /\ UNCHANGED <<child, written, torn, pipe, jobVars, proc, readerVars, clientVars>>

-----------------------------------------------------------------------------
(* Streaming requests: _stream_job *)

Connect(c) ==
    /\ client[c] = "away"
    /\ client' = [client EXCEPT ![c] = "wait"]
    /\ UNCHANGED <<idx, snapshot, batch, received, jobVars, proc, readerVars, childVars, handler>>

\* Mutant of Snapshot: it waits for events only.
SnapshotEventsOnly(c) ==
    /\ client[c] = "wait"
    /\ idx[c] < Len(events)
    /\ batch' = [batch EXCEPT ![c] = SubSeq(events, idx[c] + 1, Len(events))]
    /\ idx' = [idx EXCEPT ![c] = Len(events)]
    /\ snapshot' = [snapshot EXCEPT ![c] = status]
    /\ client' = [client EXCEPT ![c] = "send"]
    /\ UNCHANGED <<received, jobVars, proc, readerVars, childVars, handler>>

\* Under the lock: wait for news, then take the new events and the status.
Snapshot(c) ==
    /\ client[c] = "wait"
    /\ idx[c] < Len(events) \/ status # "running"
    /\ batch' = [batch EXCEPT ![c] = SubSeq(events, idx[c] + 1, Len(events))]
    /\ idx' = [idx EXCEPT ![c] = Len(events)]
    /\ snapshot' = [snapshot EXCEPT ![c] = status]
    /\ client' = [client EXCEPT ![c] = "send"]
    /\ UNCHANGED <<received, jobVars, proc, readerVars, childVars, handler>>

\* Mutant of Send: the events are counted after they are sent, without the lock.
SendThenCount(c) ==
    /\ client[c] = "send"
    /\ received' = [received EXCEPT ![c] = @ \o batch[c]]
    /\ batch' = [batch EXCEPT ![c] = <<>>]
    /\ idx' = [idx EXCEPT ![c] = Len(events)]
    /\ client' = [client EXCEPT ![c] = "more"]
    /\ UNCHANGED <<snapshot, jobVars, proc, readerVars, childVars, handler>>

Send(c) ==
    /\ client[c] = "send"
    /\ received' = [received EXCEPT ![c] = @ \o batch[c]]
    /\ batch' = [batch EXCEPT ![c] = <<>>]
    /\ client' = [client EXCEPT ![c] = "more"]
    /\ UNCHANGED <<idx, snapshot, jobVars, proc, readerVars, childVars, handler>>

\* Mutant of EndOrLoop: the fresh status is tested instead of the snapshot.
EndOrLoopFresh(c) ==
    /\ client[c] = "more"
    /\ client' = [client EXCEPT ![c] = IF status # "running" THEN "ended" ELSE "wait"]
    /\ UNCHANGED <<idx, snapshot, batch, received, jobVars, proc, readerVars, childVars, handler>>

\* Outside the lock again: the end event, or another round.
EndOrLoop(c) ==
    /\ client[c] = "more"
    /\ client' = [client EXCEPT ![c] =
                    IF snapshot[c] # "running" /\ idx[c] >= Len(events) THEN "ended" ELSE "wait"]
    /\ UNCHANGED <<idx, snapshot, batch, received, jobVars, proc, readerVars, childVars, handler>>

\* The client goes away; the next write fails and the handler returns.
Disconnect(c) ==
    /\ client[c] \in {"wait", "send", "more"}
    /\ client' = [client EXCEPT ![c] = "gone"]
    /\ batch' = [batch EXCEPT ![c] = <<>>]
    /\ UNCHANGED <<idx, snapshot, received, jobVars, proc, readerVars, childVars, handler>>

Streaming(c) == Snapshot(c) \/ Send(c) \/ EndOrLoop(c)

-----------------------------------------------------------------------------
\* new_job, and a thread that has not run yet
Init ==
    /\ kind \in DOMAIN Script
    /\ status = "running" /\ events = <<>> /\ result = FALSE /\ proc = FALSE
    /\ reader = "start" /\ line = "none"
    /\ child = "none" /\ written = 0 /\ signalled = FALSE /\ torn = FALSE /\ pipe = <<>>
    /\ handler = [h \in Handlers |-> "idle"]
    /\ client = [c \in Clients |-> "away"]
    /\ idx = [c \in Clients |-> 0]
    /\ snapshot = [c \in Clients |-> "running"]
    /\ batch = [c \in Clients |-> <<>>]
    /\ received = [c \in Clients |-> <<>>]

Next ==
    \/ ChildWrites \/ ChildReturns \/ ChildDies
    \/ Reader \/ SpawnFails
    \/ \E h \in Handlers : Mark(h) \/ Kill(h)
    \/ \E c \in Clients : Connect(c) \/ Streaming(c) \/ Disconnect(c)

\* Threads that can run do, the solver neither hangs nor ignores SIGTERM, and
\* nobody has to cancel, connect, disconnect or crash.
Fairness ==
    /\ WF_vars(Reader)
    /\ WF_vars(ChildWrites) /\ WF_vars(ChildReturns) /\ WF_vars(ChildKilled)
    /\ \A h \in Handlers : WF_vars(Kill(h))
    /\ \A c \in Clients : WF_vars(Streaming(c))

Spec == Init /\ [][Next]_vars /\ Fairness
=============================================================================
