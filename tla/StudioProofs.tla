---------------------------- MODULE StudioProofs ----------------------------
(***************************************************************************)
(* Proofs about the studio.  A job of its server, for every script of the  *)
(* solver, every size of the pipe and any number of cancel requests and    *)
(* streaming clients.  And its streaming annealer, for every partition and *)
(* Max-Cut problem: what it shows is true and never gets worse.            *)
(***************************************************************************)
EXTENDS StudioJobProps, AnnealStream, BqmTheorems, SequenceTheorems

ReaderPlaces ==
    {"start", "spawn", "spawned", "read", "check", "push", "wait", "settle",
     "communicate", "collect", "done", "raised", "ended"}

(* The variables hold what the server's variables can hold.                 *)
TypeOK ==
    /\ kind \in DOMAIN Script /\ status \in Statuses /\ events \in Seq(Lines)
    /\ result \in BOOLEAN
    /\ reader \in ReaderPlaces
    /\ line \in Lines \cup {"none"}
    /\ reader \in {"check", "push"} => line \in Lines
    /\ written \in 0 .. Len(Script[kind]) /\ pipe \in Seq(Lines)
    /\ client \in [Clients -> {"away", "wait", "send", "more", "ended", "gone"}]
    /\ idx \in [Clients -> Nat] /\ snapshot \in [Clients -> Statuses]
    /\ batch \in [Clients -> Seq(Lines)] /\ received \in [Clients -> Seq(Lines)]

(* Each kind of job has its own way through the reader thread.              *)
ReaderShape ==
    IF kind = "cbs" THEN reader \notin {"read", "check", "push", "wait", "settle"}
    ELSE reader \notin {"spawn", "communicate", "collect", "done", "raised"}

(* Behind the solver's terminal line there is nothing but torn output.      *)
OnlyLogs == \A j \in 1 .. Len(pipe) : pipe[j] = "log"

TerminalLine ==
    /\ \A i \in 1 .. Len(pipe) : pipe[i] = "done" =>
         /\ written = Len(Script[kind])
         /\ \A j \in 1 .. Len(pipe) : j > i => pipe[j] = "log"
    /\ reader \in {"check", "push"} /\ line = "done" => written = Len(Script[kind]) /\ OnlyLogs

(* Once there is a result nothing is pushed any more.                       *)
ResultIsLast ==
    /\ reader \in {"start", "spawn", "spawned"} => ~result
    /\ kind = "cbs" /\ result => reader = "ended"
    /\ kind # "cbs" /\ result =>
         /\ written = Len(Script[kind]) /\ OnlyLogs
         /\ reader # "push" /\ (reader = "check" => line = "log")
    /\ status = "error" => reader = "ended"
    /\ result => events # <<>>

JobInv == TypeOK /\ ReaderShape /\ TerminalLine /\ ResultIsLast /\ OutcomeAgrees

(* A stream that has ended has seen everything, and nothing follows.        *)
StreamShape ==
    \A c \in Clients :
        /\ idx[c] <= Len(events)
        /\ client[c] # "send" => batch[c] = <<>>
        /\ snapshot[c] # "running" => status # "running"
        /\ client[c] = "ended" => status # "running"
        /\ client[c] = "ended" /\ status # "cancelled" => idx[c] = Len(events)

IInv == JobInv /\ StreamShape /\ ClientsFollow

-----------------------------------------------------------------------------
LEMMA InitIInv == Init => IInv
<1> SUFFICES ASSUME Init PROVE IInv
  OBVIOUS
<1>1. TypeOK
  <2>1. kind \in DOMAIN Script /\ Len(Script[kind]) \in Nat
    BY JobAssumption DEF Init
  <2>2. <<>> \in Seq(Lines) /\ "running" \in Statuses
    BY DEF Statuses
  <2>3. /\ status \in Statuses /\ events \in Seq(Lines) /\ reader \in ReaderPlaces
        /\ line \in Lines \cup {"none"} /\ reader \notin {"check", "push"}
        /\ written \in 0 .. Len(Script[kind]) /\ pipe \in Seq(Lines)
    BY <2>1, <2>2 DEF Init, ReaderPlaces
  <2>4. /\ client \in [Clients -> {"away", "wait", "send", "more", "ended", "gone"}]
        /\ idx \in [Clients -> Nat] /\ snapshot \in [Clients -> Statuses]
        /\ batch \in [Clients -> Seq(Lines)] /\ received \in [Clients -> Seq(Lines)]
    BY <2>2 DEF Init
  <2>5. result \in BOOLEAN
    BY DEF Init
  <2> QED  BY <2>1, <2>3, <2>4, <2>5 DEF TypeOK
<1>2. ReaderShape /\ TerminalLine /\ ResultIsLast /\ OutcomeAgrees
  BY DEF Init, ReaderShape, TerminalLine, OnlyLogs, ResultIsLast, OutcomeAgrees
<1>3. StreamShape
  BY DEF Init, StreamShape
<1>4. ClientsFollow
  <2>1. <<>> \o <<>> = <<>> /\ SubSeq(<<>>, 1, 0) = <<>>
    BY ConcatEmptySeq, EmptySeq, SubSeqEmpty
  <2> QED  BY <2>1 DEF Init, ClientsFollow
<1> QED  BY <1>1, <1>2, <1>3, <1>4 DEF IInv, JobInv

-----------------------------------------------------------------------------
(* What an appended event leaves as it was.                                 *)
LEMMA PushType ==
    ASSUME TypeOK, NEW ev \in Lines, Push(ev)
    PROVE  /\ events' \in Seq(Lines) /\ events' # <<>> /\ Last(events)' = ev
           /\ Len(events') = Len(events) + 1 /\ Len(events) \in Nat
           /\ \A n \in 0 .. Len(events) : SubSeq(events', 1, n) = SubSeq(events, 1, n)
           /\ kind' = kind /\ status' \in Statuses /\ result' \in BOOLEAN
           /\ IF ev = "done" THEN result' /\ status' = (IF status = "running" THEN "done" ELSE status)
              ELSE result' = result /\ status' = status
<1>1. events \in Seq(Lines) /\ events' = Append(events, ev)
  BY DEF Push, TypeOK
<1>2. /\ events' \in Seq(Lines) /\ events' # <<>> /\ Len(events') = Len(events) + 1
      /\ events'[Len(events) + 1] = ev /\ \A i \in 1 .. Len(events) : events'[i] = events[i]
      /\ Len(events) \in Nat
  BY <1>1, AppendProperties
<1>3. Last(events)' = ev
  BY <1>2 DEF Last
<1>4. ASSUME NEW n \in 0 .. Len(events)
      PROVE  SubSeq(events', 1, n) = SubSeq(events, 1, n)
  <2>1. /\ \A i \in 1 .. n : events[i] \in Lines /\ events'[i] \in Lines
        /\ n \in Int
    BY <1>1, <1>2
  <2>2. /\ SubSeq(events, 1, n) \in Seq(Lines) /\ SubSeq(events', 1, n) \in Seq(Lines)
        /\ Len(SubSeq(events, 1, n)) = n /\ Len(SubSeq(events', 1, n)) = n
        /\ \A i \in 1 .. n : SubSeq(events, 1, n)[i] = events[i]
        /\ \A i \in 1 .. n : SubSeq(events', 1, n)[i] = events'[i]
    BY <2>1, SubSeqProperties
  <2>3. \A i \in 1 .. n : SubSeq(events', 1, n)[i] = SubSeq(events, 1, n)[i]
    BY <1>2, <2>2
  <2> QED  BY <2>2, <2>3, SeqEqual
<1>5. kind' = kind /\ status' \in Statuses /\ result' \in BOOLEAN
  BY DEF Push, TypeOK, Statuses
<1>6. IF ev = "done" THEN result' /\ status' = (IF status = "running" THEN "done" ELSE status)
      ELSE result' = result /\ status' = status
  BY DEF Push
<1> QED  BY <1>2, <1>3, <1>4, <1>5, <1>6

-----------------------------------------------------------------------------
(* The job: what its solver, its reader thread and cancel requests do to it. *)
LEMMA ChildJobInv ==
    JobInv /\ (ChildWrites \/ ChildReturns \/ ChildDies) => JobInv'
<1> SUFFICES ASSUME JobInv, ChildWrites \/ ChildReturns \/ ChildDies PROVE JobInv'
  OBVIOUS
<1> USE DEF jobVars, readerVars, clientVars
<1>1. /\ UNCHANGED <<jobVars, readerVars, clientVars>>
      /\ pipe \in Seq(Lines) /\ Len(pipe) \in Nat
      /\ Script[kind] \in Seq(Lines) /\ Len(Script[kind]) \in Nat /\ kind \in DOMAIN Script
  <2>1. UNCHANGED <<jobVars, readerVars, clientVars>>
    BY DEF ChildWrites, ChildReturns, ChildDies
  <2>2. pipe \in Seq(Lines) /\ kind \in DOMAIN Script
    BY DEF JobInv, TypeOK
  <2> QED  BY <2>1, <2>2, JobAssumption
<1>2. ASSUME NEW l \in Lines, pipe' = Append(pipe, l), written' \in written .. Len(Script[kind]),
             l = "done" => written' = Len(Script[kind]),
             written = Len(Script[kind]) => l = "log"
      PROVE  JobInv'
  <2>1. /\ pipe' \in Seq(Lines) /\ Len(pipe') = Len(pipe) + 1
        /\ pipe'[Len(pipe) + 1] = l /\ \A i \in 1 .. Len(pipe) : pipe'[i] = pipe[i]
    BY <1>1, <1>2, AppendProperties
  <2>2. written \in Nat /\ written <= Len(Script[kind])
    BY <1>1 DEF JobInv, TypeOK
  <2>3. TypeOK'
    BY <1>1, <1>2, <2>1, <2>2 DEF JobInv, TypeOK
  <2>4. written = Len(Script[kind]) /\ OnlyLogs => written' = Len(Script[kind]) /\ OnlyLogs'
    BY <1>1, <1>2, <2>1, <2>2 DEF OnlyLogs
  <2>5. ASSUME NEW i \in 1 .. Len(pipe'), pipe'[i] = "done"
        PROVE  /\ written' = Len(Script[kind])
               /\ \A j \in 1 .. Len(pipe') : j > i => pipe'[j] = "log"
    <3>1. CASE i = Len(pipe) + 1
      BY <1>1, <1>2, <2>1, <2>5, <3>1
    <3>2. CASE i \in 1 .. Len(pipe)
      <4>1. written = Len(Script[kind]) /\ \A j \in 1 .. Len(pipe) : j > i => pipe[j] = "log"
        BY <2>1, <2>5, <3>2 DEF JobInv, TerminalLine
      <4> QED  BY <1>1, <1>2, <2>1, <2>2, <4>1
    <3> QED  BY <1>1, <2>1, <3>1, <3>2
  <2>6. TerminalLine'
    BY <1>1, <2>4, <2>5 DEF JobInv, TerminalLine
  <2>7. ReaderShape' /\ ResultIsLast' /\ OutcomeAgrees'
    BY <1>1, <2>4 DEF JobInv, ReaderShape, ResultIsLast, OutcomeAgrees
  <2> QED  BY <2>3, <2>6, <2>7 DEF JobInv
<1>3. ASSUME UNCHANGED <<pipe, written>>
      PROVE  JobInv'
  BY <1>1, <1>3 DEF JobInv, TypeOK, ReaderShape, TerminalLine, OnlyLogs, ResultIsLast, OutcomeAgrees
<1>4. CASE ChildWrites
  <2>1. /\ written \in Nat /\ written < Len(Script[kind]) /\ written' = written + 1
        /\ pipe' = Append(pipe, Script[kind][written + 1])
    BY <1>4 DEF ChildWrites, JobInv, TypeOK
  <2>2. written + 1 \in 1 .. Len(Script[kind])
    BY <1>1, <2>1
  <2>3. /\ Script[kind][written + 1] \in Lines
        /\ Script[kind][written + 1] = "done" => written + 1 = Len(Script[kind])
    BY <1>1, <2>2, DoneIsLast
  <2> QED  BY <1>1, <1>2, <2>1, <2>3
<1>5. CASE ChildReturns
  BY <1>3, <1>5 DEF ChildReturns
<1>6. CASE ChildDies
  <2>1. pipe' = pipe \/ pipe' = Append(pipe, "log")
    BY <1>6 DEF ChildDies
  <2>2. written' = written /\ written \in 0 .. Len(Script[kind])
    BY <1>6 DEF ChildDies, JobInv, TypeOK
  <2> QED  BY <1>1, <1>2, <1>3, <2>1, <2>2 DEF Lines
<1> QED  BY <1>4, <1>5, <1>6

(* The reader goes on, and touches nothing but its own place.               *)
LEMMA ReaderMovesJobInv ==
    JobInv /\ (Spawn \/ Assign \/ EndOfFile \/ CheckStatus \/ Waited \/ Collect) => JobInv'
<1> SUFFICES ASSUME JobInv, Spawn \/ Assign \/ EndOfFile \/ CheckStatus \/ Waited \/ Collect
             PROVE  JobInv'
  OBVIOUS
<1> USE DEF jobVars, clientVars
<1>1. UNCHANGED <<jobVars, line, written, pipe, clientVars>>
  BY DEF Spawn, Assign, EndOfFile, CheckStatus, Waited, Collect, childVars
<1>2. /\ reader' \in ReaderPlaces
      /\ reader' \in {"check", "push"} => reader \in {"check", "push"}
  BY DEF Spawn, Assign, EndOfFile, CheckStatus, Waited, Collect, ReaderPlaces
<1>3. TypeOK'
  BY <1>1, <1>2 DEF JobInv, TypeOK
<1>4. ReaderShape'
  BY <1>1 DEF Spawn, Assign, EndOfFile, CheckStatus, Waited, Collect, JobInv, ReaderShape
<1>5. TerminalLine'
  BY <1>1, <1>2 DEF JobInv, TerminalLine, OnlyLogs
<1>6. ResultIsLast'
  <2>1. reader' \in {"start", "spawn", "spawned"} => reader \in {"start", "spawn", "spawned"}
    BY DEF Spawn, Assign, EndOfFile, CheckStatus, Waited, Collect
  <2>2. reader # "ended"
    BY DEF Spawn, Assign, EndOfFile, CheckStatus, Waited, Collect
  <2>3. reader' = "check" => FALSE
    BY DEF Spawn, Assign, EndOfFile, CheckStatus, Waited, Collect
  <2>4. reader' = "push" => reader = "check" /\ IsEvent(line)
    BY DEF Spawn, Assign, EndOfFile, CheckStatus, Waited, Collect
  <2>5. OnlyLogs' <=> OnlyLogs
    BY <1>1 DEF OnlyLogs
  <2> QED  BY <1>1, <2>1, <2>2, <2>3, <2>4, <2>5 DEF JobInv, ResultIsLast, IsEvent
<1>7. OutcomeAgrees'
  BY <1>1 DEF JobInv, OutcomeAgrees
<1> QED  BY <1>3, <1>4, <1>5, <1>6, <1>7 DEF JobInv

(* Output is taken from the pipe, line by line.                             *)
LEMMA ReaderTakesJobInv ==
    JobInv /\ (ReadLine \/ Communicate) => JobInv'
<1> SUFFICES ASSUME JobInv, ReadLine \/ Communicate PROVE JobInv'
  OBVIOUS
<1> USE DEF jobVars, clientVars
<1>1. UNCHANGED <<jobVars, written, clientVars>>
  BY DEF ReadLine, Communicate
<1>2. pipe \in Seq(Lines) /\ Len(pipe) \in Nat
  BY DEF JobInv, TypeOK
<1>3. ASSUME pipe # <<>>, pipe' = Tail(pipe)
      PROVE  /\ pipe' \in Seq(Lines) /\ Len(pipe') = Len(pipe) - 1 /\ Len(pipe) >= 1
             /\ \A i \in 1 .. Len(pipe') : i + 1 \in 1 .. Len(pipe) /\ pipe'[i] = pipe[i + 1]
             /\ Head(pipe) = pipe[1] /\ Head(pipe) \in Lines
  BY <1>2, <1>3, HeadTailProperties
<1>4. CASE ReadLine
  <2>1. /\ pipe # <<>> /\ pipe' = Tail(pipe) /\ line' = Head(pipe)
        /\ reader = "read" /\ reader' = "check"
    BY <1>4 DEF ReadLine
  <2>2. TypeOK'
    BY <1>1, <1>3, <2>1 DEF JobInv, TypeOK, ReaderPlaces
  <2>3. OnlyLogs => OnlyLogs' /\ line' = "log"
    BY <1>2, <1>3, <2>1 DEF OnlyLogs
  <2>4. ASSUME NEW i \in 1 .. Len(pipe'), pipe'[i] = "done"
        PROVE  /\ written = Len(Script[kind])
               /\ \A j \in 1 .. Len(pipe') : j > i => pipe'[j] = "log"
    <3>1. i + 1 \in 1 .. Len(pipe) /\ pipe[i + 1] = "done"
      BY <1>3, <2>1, <2>4
    <3>2. /\ written = Len(Script[kind])
          /\ \A j \in 1 .. Len(pipe) : j > i + 1 => pipe[j] = "log"
      BY <3>1 DEF JobInv, TerminalLine
    <3> QED  BY <1>2, <1>3, <2>1, <3>1, <3>2
  <2>5. ASSUME line' = "done"
        PROVE  written = Len(Script[kind]) /\ OnlyLogs'
    <3>1. 1 \in 1 .. Len(pipe) /\ pipe[1] = "done"
      BY <1>2, <1>3, <2>1, <2>5
    <3>2. written = Len(Script[kind]) /\ \A j \in 1 .. Len(pipe) : j > 1 => pipe[j] = "log"
      BY <3>1 DEF JobInv, TerminalLine
    <3> QED  BY <1>2, <1>3, <2>1, <3>2 DEF OnlyLogs
  <2>6. TerminalLine'
    BY <1>1, <2>4, <2>5 DEF TerminalLine
  <2>7. ReaderShape' /\ ResultIsLast'
    BY <1>1, <2>1, <2>3 DEF JobInv, ReaderShape, ResultIsLast
  <2>8. OutcomeAgrees'
    BY <1>1 DEF JobInv, OutcomeAgrees
  <2> QED  BY <2>2, <2>6, <2>7, <2>8 DEF JobInv
<1>5. CASE Communicate
  <2>1. /\ line' = line /\ reader = "communicate" /\ reader' \in {"communicate", "collect"}
        /\ pipe' = pipe \/ (pipe # <<>> /\ pipe' = Tail(pipe))
    BY <1>5 DEF Communicate
  <2>2. kind = "cbs"
    BY <2>1 DEF JobInv, ReaderShape
  <2>3. pipe' \in Seq(Lines)
    BY <1>2, <1>3, <2>1
  <2>4. TypeOK'
    BY <1>1, <2>1, <2>3 DEF JobInv, TypeOK, ReaderPlaces
  <2>5. ASSUME NEW i \in 1 .. Len(pipe'), pipe'[i] = "done"
        PROVE  /\ written = Len(Script[kind])
               /\ \A j \in 1 .. Len(pipe') : j > i => pipe'[j] = "log"
    <3>1. CASE pipe' = pipe
      BY <2>5, <3>1 DEF JobInv, TerminalLine
    <3>2. CASE pipe # <<>> /\ pipe' = Tail(pipe)
      <4>1. i + 1 \in 1 .. Len(pipe) /\ pipe[i + 1] = "done"
        BY <1>3, <2>5, <3>2
      <4>2. /\ written = Len(Script[kind])
            /\ \A j \in 1 .. Len(pipe) : j > i + 1 => pipe[j] = "log"
        BY <4>1 DEF JobInv, TerminalLine
      <4> QED  BY <1>2, <1>3, <3>2, <4>1, <4>2
    <3> QED  BY <2>1, <3>1, <3>2
  <2>6. TerminalLine'
    BY <1>1, <2>1, <2>5 DEF TerminalLine
  <2>7. ReaderShape' /\ ResultIsLast'
    BY <1>1, <2>1, <2>2 DEF JobInv, ReaderShape, ResultIsLast
  <2>8. OutcomeAgrees'
    BY <1>1 DEF JobInv, OutcomeAgrees
  <2> QED  BY <2>4, <2>6, <2>7, <2>8 DEF JobInv
<1> QED  BY <1>4, <1>5

(* What the reader appends is a line of the solver, or one of its own.       *)
LEMMA ReaderPushes ==
    ASSUME TypeOK, PushMeta \/ PushLine \/ PushDone
    PROVE  \E ev \in Lines : /\ Push(ev)
                             /\ \/ PushMeta /\ ev = "meta"
                                \/ PushLine /\ ev = line
                                \/ PushDone /\ ev = "done"
<1>1. CASE PushMeta
  <2>1. Push("meta") /\ "meta" \in Lines
    BY <1>1 DEF PushMeta, Lines
  <2> QED  BY <1>1, <2>1
<1>2. CASE PushLine
  <2>1. reader = "push" /\ Push(line)
    BY <1>2 DEF PushLine
  <2>2. line \in Lines
    BY <2>1 DEF TypeOK
  <2> QED  BY <1>2, <2>1, <2>2
<1>3. CASE PushDone
  <2>1. Push("done") /\ "done" \in Lines
    BY <1>3 DEF PushDone, Lines
  <2> QED  BY <1>3, <2>1
<1> QED  BY <1>1, <1>2, <1>3

(* Events are appended while there is no result, and the terminal one sets  *)
(* it, from the last line the solver wrote or after its end.                *)
LEMMA ReaderPushesJobInv ==
    JobInv /\ (PushMeta \/ PushLine \/ PushDone) => JobInv'
<1> SUFFICES ASSUME JobInv, PushMeta \/ PushLine \/ PushDone PROVE JobInv'
  OBVIOUS
<1> USE DEF clientVars, childVars
<1>1. /\ UNCHANGED <<line, written, pipe, clientVars>> /\ kind' = kind
      /\ TypeOK /\ reader # "ended"
  BY DEF PushMeta, PushLine, PushDone, JobInv, Push
<1>2. ~result /\ status # "error" /\ status # "done"
  BY <1>1 DEF PushMeta, PushLine, PushDone, JobInv, ReaderShape, ResultIsLast, OutcomeAgrees
<1>3. PICK ev \in Lines : /\ Push(ev)
                          /\ \/ PushMeta /\ ev = "meta"
                             \/ PushLine /\ ev = line
                             \/ PushDone /\ ev = "done"
  BY <1>1, ReaderPushes
<1>4. /\ events' \in Seq(Lines) /\ events' # <<>> /\ Last(events)' = ev
      /\ status' \in Statuses /\ result' \in BOOLEAN
      /\ IF ev = "done" THEN result' /\ status' = (IF status = "running" THEN "done" ELSE status)
         ELSE result' = result /\ status' = status
  BY <1>1, <1>3, PushType
<1>5. TypeOK'
  <2>1. reader' \in ReaderPlaces \ {"check", "push"}
    BY <1>3 DEF PushMeta, PushLine, PushDone, ReaderPlaces
  <2> QED  BY <1>1, <1>4, <2>1 DEF TypeOK
<1>6. ReaderShape'
  BY <1>1, <1>3 DEF PushMeta, PushLine, PushDone, JobInv, ReaderShape
<1>7. TerminalLine'
  <2>1. reader' \notin {"check", "push"}
    BY <1>3 DEF PushMeta, PushLine, PushDone
  <2> QED  BY <1>1, <2>1 DEF JobInv, TerminalLine
<1>8. ResultIsLast'
  <2>1. OnlyLogs' <=> OnlyLogs
    BY <1>1 DEF OnlyLogs
  <2>2. status' # "error"
    BY <1>2, <1>4
  <2>3. CASE ev # "done"
    <3>1. ~result'
      BY <1>2, <1>4, <2>3
    <3> QED  BY <1>4, <2>2, <3>1 DEF ResultIsLast
  <2>4. CASE ev = "done" /\ PushLine
    <3>1. reader = "push" /\ line = "done" /\ reader' = "read" /\ kind # "cbs"
      BY <1>3, <2>4 DEF PushLine, PushMeta, PushDone, JobInv, ReaderShape
    <3>2. written = Len(Script[kind]) /\ OnlyLogs
      BY <3>1 DEF JobInv, TerminalLine
    <3> QED  BY <1>1, <1>4, <2>1, <2>2, <3>1, <3>2 DEF ResultIsLast
  <2>5. CASE ev = "done" /\ PushDone
    <3>1. reader' = "ended" /\ kind = "cbs"
      BY <2>5 DEF PushDone, JobInv, ReaderShape
    <3> QED  BY <1>1, <1>4, <2>2, <3>1 DEF ResultIsLast
  <2> QED  BY <1>3, <2>3, <2>4, <2>5
<1>9. OutcomeAgrees'
  BY <1>2, <1>4 DEF OutcomeAgrees
<1> QED  BY <1>5, <1>6, <1>7, <1>8, <1>9 DEF JobInv

(* The reader thread ends, with or without a result.                        *)
LEMMA ReaderEndsJobInv ==
    JobInv /\ (SpawnFails \/ Settle) => JobInv'
<1> SUFFICES ASSUME JobInv, SpawnFails \/ Settle PROVE JobInv'
  OBVIOUS
<1> USE DEF clientVars, childVars
<1>1. /\ UNCHANGED <<kind, events, result, line, written, pipe, clientVars>>
      /\ TypeOK /\ reader' = "ended"
  BY DEF SpawnFails, Settle, FinishAs, JobInv
<1>2. (~result /\ status' \in {status, "error"}) \/ (result /\ status' \in {status, "done"})
  <2>1. CASE SpawnFails
    <3>1. ~result
      BY <2>1 DEF SpawnFails, JobInv, ResultIsLast
    <3>2. status' \in {status, "error"}
      BY <2>1 DEF SpawnFails, FinishAs
    <3> QED  BY <3>1, <3>2
  <2>2. CASE Settle /\ result
    <3>1. status' \in {status, "done"}
      BY <2>2 DEF Settle, FinishAs
    <3> QED  BY <2>2, <3>1
  <2>3. CASE Settle /\ ~result
    <3>1. status' \in {status, "error"}
      BY <2>3 DEF Settle, FinishAs
    <3> QED  BY <2>3, <3>1
  <2> QED  BY <2>1, <2>2, <2>3
<1>3. TypeOK'
  BY <1>1, <1>2 DEF TypeOK, Statuses, ReaderPlaces
<1>4. ReaderShape' /\ TerminalLine'
  BY <1>1 DEF JobInv, ReaderShape, TerminalLine
<1>5. ResultIsLast'
  <2>1. OnlyLogs' <=> OnlyLogs
    BY <1>1 DEF OnlyLogs
  <2> QED  BY <1>1, <2>1 DEF JobInv, ResultIsLast
<1>6. OutcomeAgrees'
  BY <1>1, <1>2 DEF JobInv, OutcomeAgrees
<1> QED  BY <1>3, <1>4, <1>5, <1>6 DEF JobInv

(* Requests of clients touch the job's status, if anything.                 *)
LEMMA RequestJobInv ==
    ASSUME JobInv,
           UNCHANGED <<kind, events, result, readerVars, written, pipe>>,
           status' \in {status, "cancelled"},
           client' \in [Clients -> {"away", "wait", "send", "more", "ended", "gone"}],
           idx' \in [Clients -> Nat], snapshot' \in [Clients -> Statuses],
           batch' \in [Clients -> Seq(Lines)], received' \in [Clients -> Seq(Lines)]
    PROVE  JobInv'
<1> USE DEF readerVars
<1>1. TypeOK'
  BY DEF JobInv, TypeOK, Statuses
<1>2. ReaderShape' /\ TerminalLine' /\ ResultIsLast'
  BY DEF JobInv, ReaderShape, TerminalLine, ResultIsLast, OnlyLogs
<1>3. OutcomeAgrees'
  BY DEF JobInv, OutcomeAgrees
<1> QED  BY <1>1, <1>2, <1>3 DEF JobInv

-----------------------------------------------------------------------------
(* The streams, while the job moves.  A job that has ended stays as it is,   *)
(* and only one that runs or was cancelled is given another event.           *)
LEMMA JobMovesStreams ==
    ASSUME IInv, UNCHANGED <<events, clientVars>>,
           status # "running" => status' # "running",
           status = "cancelled" => status' = "cancelled"
    PROVE  StreamShape' /\ ClientsFollow'
<1> USE DEF clientVars
<1>1. StreamShape'
  BY DEF IInv, StreamShape
<1>2. ClientsFollow'
  BY DEF IInv, ClientsFollow
<1> QED  BY <1>1, <1>2

LEMMA PushesStreams ==
    ASSUME IInv, UNCHANGED clientVars, NEW ev \in Lines, Push(ev),
           status \in {"running", "cancelled"}
    PROVE  StreamShape' /\ ClientsFollow'
<1> USE DEF clientVars
<1>1. TypeOK
  BY DEF IInv, JobInv
<1>2. /\ Len(events') = Len(events) + 1 /\ Len(events) \in Nat
      /\ \A n \in 0 .. Len(events) : SubSeq(events', 1, n) = SubSeq(events, 1, n)
      /\ status' # "running" \/ status = "running"
      /\ status = "cancelled" => status' = "cancelled"
  BY <1>1, PushType
<1>3. \A c \in Clients : idx[c] \in 0 .. Len(events)
  BY <1>1, <1>2 DEF IInv, StreamShape, TypeOK
<1>4. StreamShape'
  BY <1>2, <1>3 DEF IInv, StreamShape
<1>5. ClientsFollow'
  BY <1>2, <1>3 DEF IInv, ClientsFollow
<1> QED  BY <1>4, <1>5

(* The streams, while their own handlers move: the snapshot takes what the   *)
(* client does not have yet, and sending it hands it over.                   *)
LEMMA SnapshotIInv ==
    ASSUME IInv, NEW c \in Clients, Snapshot(c)
    PROVE  IInv'
<1> USE DEF jobVars, readerVars, childVars
<1>1. TypeOK /\ events \in Seq(Lines) /\ Len(events) \in Nat /\ status \in Statuses
  BY DEF IInv, JobInv, TypeOK
<1>2. /\ idx[c] \in 0 .. Len(events) /\ batch[c] = <<>> /\ received[c] \in Seq(Lines)
      /\ client[c] = "wait" /\ received[c] \o batch[c] = SubSeq(events, 1, idx[c])
  BY <1>1 DEF Snapshot, IInv, StreamShape, ClientsFollow, TypeOK
<1> DEFINE fresh == SubSeq(events, idx[c] + 1, Len(events))
<1>3. fresh \in Seq(Lines)
  <2>1. \A i \in idx[c] + 1 .. Len(events) : events[i] \in Lines
    BY <1>1, <1>2
  <2> QED  BY <1>2, <1>1, <2>1, SubSeqProperties
<1>4. received[c] \o fresh = SubSeq(events, 1, Len(events))
  <2>1. received[c] = SubSeq(events, 1, idx[c])
    BY <1>2, ConcatEmptySeq
  <2>2. 1 \in 1 .. Len(events) + 1 /\ idx[c] \in 1 - 1 .. Len(events) /\ Len(events) \in idx[c] .. Len(events)
    BY <1>1, <1>2
  <2> QED  BY <1>1, <2>1, <2>2, ConcatAdjacentSubSeq
<1> HIDE DEF fresh
<1>5. /\ UNCHANGED <<received, kind, status, events, result, readerVars, written, pipe>>
      /\ batch' = [batch EXCEPT ![c] = fresh] /\ idx' = [idx EXCEPT ![c] = Len(events)]
      /\ snapshot' = [snapshot EXCEPT ![c] = status] /\ client' = [client EXCEPT ![c] = "send"]
  BY DEF Snapshot, fresh
<1>6. /\ client' \in [Clients -> {"away", "wait", "send", "more", "ended", "gone"}]
      /\ idx' \in [Clients -> Nat] /\ snapshot' \in [Clients -> Statuses]
      /\ batch' \in [Clients -> Seq(Lines)] /\ received' \in [Clients -> Seq(Lines)]
  BY <1>1, <1>3, <1>5 DEF TypeOK
<1>7. JobInv'
  BY <1>5, <1>6, RequestJobInv DEF IInv
<1>8. StreamShape'
  BY <1>1, <1>5 DEF IInv, StreamShape, TypeOK
<1>9. ClientsFollow'
  <2> SUFFICES ASSUME NEW d \in Clients, client'[d] # "gone"
               PROVE  received'[d] \o batch'[d] = SubSeq(events', 1, idx'[d])
    BY DEF ClientsFollow
  <2>1. CASE d = c
    BY <1>1, <1>4, <1>5, <2>1 DEF TypeOK
  <2>2. CASE d # c
    <3>1. /\ client'[d] = client[d] /\ received'[d] = received[d] /\ batch'[d] = batch[d]
          /\ idx'[d] = idx[d] /\ events' = events
      BY <1>1, <1>5, <2>2 DEF TypeOK
    <3> QED  BY <3>1 DEF IInv, ClientsFollow
  <2> QED  BY <2>1, <2>2
<1> QED  BY <1>7, <1>8, <1>9 DEF IInv

LEMMA SendIInv ==
    ASSUME IInv, NEW c \in Clients, Send(c)
    PROVE  IInv'
<1> USE DEF jobVars, readerVars, childVars
<1>1. TypeOK /\ received[c] \in Seq(Lines) /\ batch[c] \in Seq(Lines) /\ <<>> \in Seq(Lines)
  BY DEF IInv, JobInv, TypeOK
<1> DEFINE all == received[c] \o batch[c]
<1>2. all \in Seq(Lines) /\ all \o <<>> = all
  <2>1. all \in Seq(Lines)
    BY <1>1, ConcatProperties
  <2> QED  BY <2>1, ConcatEmptySeq
<1>3. all = SubSeq(events, 1, idx[c])
  BY DEF Send, IInv, ClientsFollow
<1>4. /\ UNCHANGED <<idx, snapshot, kind, status, events, result, readerVars, written, pipe>>
      /\ received' = [received EXCEPT ![c] = all] /\ batch' = [batch EXCEPT ![c] = <<>>]
      /\ client' = [client EXCEPT ![c] = "more"]
  BY DEF Send
<1> HIDE DEF all
<1>5. /\ client' \in [Clients -> {"away", "wait", "send", "more", "ended", "gone"}]
      /\ idx' \in [Clients -> Nat] /\ snapshot' \in [Clients -> Statuses]
      /\ batch' \in [Clients -> Seq(Lines)] /\ received' \in [Clients -> Seq(Lines)]
  BY <1>1, <1>2, <1>4 DEF TypeOK
<1>6. JobInv'
  BY <1>4, <1>5, RequestJobInv DEF IInv
<1>7. StreamShape'
  BY <1>1, <1>4 DEF IInv, StreamShape, TypeOK
<1>8. ClientsFollow'
  <2> SUFFICES ASSUME NEW d \in Clients, client'[d] # "gone"
               PROVE  received'[d] \o batch'[d] = SubSeq(events', 1, idx'[d])
    BY DEF ClientsFollow
  <2>1. CASE d = c
    BY <1>1, <1>2, <1>3, <1>4, <2>1 DEF TypeOK
  <2>2. CASE d # c
    <3>1. /\ client'[d] = client[d] /\ received'[d] = received[d] /\ batch'[d] = batch[d]
          /\ idx'[d] = idx[d] /\ events' = events
      BY <1>1, <1>4, <2>2 DEF TypeOK
    <3> QED  BY <3>1 DEF IInv, ClientsFollow
  <2> QED  BY <2>1, <2>2
<1> QED  BY <1>6, <1>7, <1>8 DEF IInv

(* A stream ends only when nothing is left and the job had stopped before;   *)
(* connecting and leaving change no promise.                                 *)
LEMMA ConnectionIInv ==
    ASSUME IInv, NEW c \in Clients, Connect(c) \/ EndOrLoop(c) \/ Disconnect(c)
    PROVE  IInv'
<1> USE DEF jobVars, readerVars, childVars
<1>1. TypeOK /\ <<>> \in Seq(Lines) /\ Len(events) \in Nat
  BY DEF IInv, JobInv, TypeOK
<1>2. PICK to \in {"wait", "ended", "gone"} :
        /\ client' = [client EXCEPT ![c] = to]
        /\ batch' = batch \/ (to = "gone" /\ batch' = [batch EXCEPT ![c] = <<>>])
        /\ to = "ended" => snapshot[c] # "running" /\ idx[c] >= Len(events)
        /\ to # "gone" => client[c] \in {"away", "more"}
        /\ to = "gone" => batch' = [batch EXCEPT ![c] = <<>>]
  <2>1. CASE Connect(c)
    BY <2>1 DEF Connect
  <2>2. CASE EndOrLoop(c)
    BY <2>2 DEF EndOrLoop
  <2>3. CASE Disconnect(c)
    BY <2>3 DEF Disconnect
  <2> QED  BY <2>1, <2>2, <2>3
<1>3. UNCHANGED <<idx, snapshot, received, kind, status, events, result, readerVars, written, pipe>>
  BY DEF Connect, EndOrLoop, Disconnect
<1>4. /\ client' \in [Clients -> {"away", "wait", "send", "more", "ended", "gone"}]
      /\ idx' \in [Clients -> Nat] /\ snapshot' \in [Clients -> Statuses]
      /\ batch' \in [Clients -> Seq(Lines)] /\ received' \in [Clients -> Seq(Lines)]
  BY <1>1, <1>2, <1>3 DEF TypeOK
<1>5. JobInv'
  BY <1>3, <1>4, RequestJobInv DEF IInv
<1>6. ASSUME NEW d \in Clients, d # c
      PROVE  /\ client'[d] = client[d] /\ batch'[d] = batch[d]
             /\ idx'[d] = idx[d] /\ received'[d] = received[d] /\ snapshot'[d] = snapshot[d]
  BY <1>1, <1>2, <1>3, <1>6 DEF TypeOK
<1>7. client'[c] = to /\ (to = "gone" => batch'[c] = <<>>) /\ (to # "gone" => batch'[c] = batch[c])
  BY <1>1, <1>2 DEF TypeOK
<1>8. StreamShape'
  <2> SUFFICES ASSUME NEW d \in Clients
               PROVE  /\ idx'[d] <= Len(events')
                      /\ client'[d] # "send" => batch'[d] = <<>>
                      /\ snapshot'[d] # "running" => status' # "running"
                      /\ client'[d] = "ended" => status' # "running"
                      /\ client'[d] = "ended" /\ status' # "cancelled" => idx'[d] = Len(events')
    BY DEF StreamShape
  <2>1. CASE d = c
    <3>1. idx[c] \in Nat /\ idx[c] <= Len(events) /\ (snapshot[c] # "running" => status # "running")
      BY <1>1 DEF IInv, StreamShape, TypeOK
    <3>2. to # "gone" => batch[c] = <<>>
      BY <1>2 DEF IInv, StreamShape
    <3> QED  BY <1>1, <1>2, <1>3, <1>7, <2>1, <3>1, <3>2
  <2>2. CASE d # c
    BY <1>3, <1>6, <2>2 DEF IInv, StreamShape
  <2> QED  BY <2>1, <2>2
<1>9. ClientsFollow'
  <2> SUFFICES ASSUME NEW d \in Clients, client'[d] # "gone"
               PROVE  received'[d] \o batch'[d] = SubSeq(events', 1, idx'[d])
    BY DEF ClientsFollow
  <2>1. CASE d = c
    <3>1. received[c] \o batch[c] = SubSeq(events, 1, idx[c])
      BY <1>2, <1>7, <2>1 DEF IInv, ClientsFollow
    <3> QED  BY <1>3, <1>7, <2>1, <3>1
  <2>2. CASE d # c
    BY <1>3, <1>6, <2>2 DEF IInv, ClientsFollow
  <2> QED  BY <2>1, <2>2
<1> QED  BY <1>5, <1>8, <1>9 DEF IInv

-----------------------------------------------------------------------------
LEMMA NextIInv == IInv /\ [Next]_vars => IInv'
<1> SUFFICES ASSUME IInv, [Next]_vars PROVE IInv'
  OBVIOUS
<1>1. JobInv /\ TypeOK
  BY DEF IInv, JobInv
<1>2. CASE ChildWrites \/ ChildReturns \/ ChildDies
  <2>1. UNCHANGED <<jobVars, clientVars>>
    BY <1>2 DEF ChildWrites, ChildReturns, ChildDies
  <2>2. StreamShape' /\ ClientsFollow'
    BY <2>1, JobMovesStreams DEF jobVars
  <2> QED  BY <1>1, <1>2, <2>2, ChildJobInv DEF IInv
<1>3. CASE Spawn \/ Assign \/ EndOfFile \/ CheckStatus \/ Waited \/ Collect
  <2>1. UNCHANGED <<jobVars, clientVars>>
    BY <1>3 DEF Spawn, Assign, EndOfFile, CheckStatus, Waited, Collect
  <2>2. StreamShape' /\ ClientsFollow'
    BY <2>1, JobMovesStreams DEF jobVars
  <2> QED  BY <1>1, <1>3, <2>2, ReaderMovesJobInv DEF IInv
<1>4. CASE ReadLine \/ Communicate
  <2>1. UNCHANGED <<jobVars, clientVars>>
    BY <1>4 DEF ReadLine, Communicate
  <2>2. StreamShape' /\ ClientsFollow'
    BY <2>1, JobMovesStreams DEF jobVars
  <2> QED  BY <1>1, <1>4, <2>2, ReaderTakesJobInv DEF IInv
<1>5. CASE PushMeta \/ PushLine \/ PushDone
  <2>1. status \in {"running", "cancelled"} /\ UNCHANGED clientVars
    <3>1. reader \in {"start", "push", "done"} /\ (reader = "done" => kind = "cbs")
      BY <1>1, <1>5 DEF PushMeta, PushLine, PushDone, JobInv, ReaderShape
    <3>2. ~result /\ status # "error"
      BY <1>1, <3>1 DEF JobInv, ResultIsLast
    <3>3. status # "done"
      BY <1>1, <3>2 DEF JobInv, OutcomeAgrees
    <3> QED  BY <1>1, <1>5, <3>2, <3>3 DEF TypeOK, Statuses, PushMeta, PushLine, PushDone
  <2>2. PICK ev \in Lines : Push(ev)
    BY <1>1, <1>5, ReaderPushes
  <2>3. StreamShape' /\ ClientsFollow'
    BY <2>1, <2>2, PushesStreams
  <2> QED  BY <1>1, <1>5, <2>3, ReaderPushesJobInv DEF IInv
<1>6. CASE SpawnFails \/ Settle
  <2>1. /\ UNCHANGED <<events, clientVars>>
        /\ status # "running" => status' = status
        /\ status = "running" => status' \in {"running", "error", "done"}
    BY <1>6 DEF SpawnFails, Settle, FinishAs
  <2>2. StreamShape' /\ ClientsFollow'
    BY <2>1, JobMovesStreams
  <2> QED  BY <1>1, <1>6, <2>2, ReaderEndsJobInv DEF IInv
<1>7. ASSUME NEW h \in Handlers, Mark(h) \/ Kill(h)
      PROVE  IInv'
  <2>1. /\ UNCHANGED <<kind, events, result, readerVars, written, pipe, clientVars>>
        /\ status' \in {status, "cancelled"}
    BY <1>7 DEF Mark, Kill, childVars, jobVars
  <2>2. JobInv'
    BY <1>1, <2>1, RequestJobInv DEF TypeOK, clientVars
  <2>3. StreamShape' /\ ClientsFollow'
    BY <2>1, JobMovesStreams
  <2> QED  BY <2>2, <2>3 DEF IInv
<1>8. CASE UNCHANGED vars
  BY <1>1, <1>8, JobMovesStreams DEF vars, IInv, jobVars, childVars, readerVars, clientVars,
     JobInv, TypeOK, ReaderShape, TerminalLine, OnlyLogs, ResultIsLast, OutcomeAgrees
<1> QED
  BY <1>2, <1>3, <1>4, <1>5, <1>6, <1>7, <1>8, SnapshotIInv, SendIInv, ConnectionIInv
  DEF Next, Reader, Streaming

(* Status and result, the solver's output and the streams fit together in    *)
(* every state of a job.                                                     *)
THEOREM Invariance == Spec => []IInv
BY InitIInv, NextIInv, PTL DEF Spec

(* A job that is done has a result and one in error has none, and the result *)
(* is the last event, however pushes, finishes and cancels interleave        *)
(* (serve.py:175-189, 238-243).                                              *)
THEOREM Outcome == Spec => []OutcomeAgrees
<1>1. IInv => OutcomeAgrees
  BY DEF IInv, JobInv
<1> QED  BY <1>1, Invariance, PTL

(* However many clients stream, each has received a prefix of the events, in *)
(* order and without repetition (serve.py:159-161, 484-499).                 *)
THEOREM Following == Spec => []ClientsFollow
<1>1. IInv => ClientsFollow
  BY DEF IInv
<1> QED  BY <1>1, Invariance, PTL

(* A client that was told the end of a job nobody cancelled has every event  *)
(* of it, and none follows (serve.py:500-503).                               *)
THEOREM EndIsFinal == Spec => []EndIsTheEnd
<1>1. IInv => EndIsTheEnd
  <2> SUFFICES ASSUME IInv, NEW c \in Clients, client[c] = "ended", status # "cancelled"
               PROVE  received[c] = events
    BY DEF EndIsTheEnd
  <2>1. events \in Seq(Lines) /\ received[c] \in Seq(Lines)
    BY DEF IInv, JobInv, TypeOK
  <2>2. batch[c] = <<>> /\ idx[c] = Len(events)
    BY DEF IInv, StreamShape
  <2>3. received[c] \o <<>> = SubSeq(events, 1, Len(events))
    BY <2>2 DEF IInv, ClientsFollow
  <2> QED  BY <2>1, <2>3, ConcatEmptySeq, SubSeqFull
<1> QED  BY <1>1, Invariance, PTL

(* Nothing brings a cancelled job back: neither a late terminal event nor    *)
(* the end of the reader thread (serve.py:180, 186).                         *)
THEOREM CancelIsFinal == Spec => CancelSticks
<1>1. [Next]_vars => [status = "cancelled" => status' = "cancelled"]_vars
  <2> SUFFICES ASSUME Next, status = "cancelled" PROVE status' = "cancelled"
    OBVIOUS
  <2> USE DEF jobVars
  <2>1. CASE ChildWrites \/ ChildReturns \/ ChildDies
    BY <2>1 DEF ChildWrites, ChildReturns, ChildDies
  <2>2. CASE Reader
    BY <2>2 DEF Reader, PushMeta, Spawn, Assign, ReadLine, EndOfFile, CheckStatus, PushLine,
       Waited, Settle, Communicate, Collect, PushDone, Push, FinishAs
  <2>3. CASE SpawnFails
    BY <2>3 DEF SpawnFails, FinishAs
  <2>4. CASE \E h \in Handlers : Mark(h) \/ Kill(h)
    BY <2>4 DEF Mark, Kill
  <2>5. CASE \E c \in Clients : Connect(c) \/ Streaming(c) \/ Disconnect(c)
    BY <2>5 DEF Connect, Streaming, Snapshot, Send, EndOrLoop, Disconnect
  <2> QED  BY <2>1, <2>2, <2>3, <2>4, <2>5 DEF Next
<1> QED  BY <1>1, PTL DEF Spec, CancelSticks

-----------------------------------------------------------------------------
(* The streaming annealer: the plain annealer on a partition or a Max-Cut   *)
(* problem (anneal_stream.cpp).                                             *)
Spins == [Vars(model) -> {-1, 1}]

LEMMA SpinsStay == ASSUME NEW m, m.spin PROVE ToSpin(m) = m
  BY DEF ToSpin

(* A list of numbers as a model.                                            *)
LEMMA PartitionIsSquare ==
    ASSUME NEW a \in Seq(Int)
    PROVE  LET m == PartitionModel(a)
           IN  /\ IsModel(m) /\ m.spin /\ Vars(m) = DOMAIN a /\ IsSquare(m, a)
<1> DEFINE m == PartitionModel(a)
           V == DOMAIN a
           q == [i \in V |-> a[i] * a[i]]
<1>1. V = 1 .. Len(a) /\ Len(a) \in Nat /\ a \in [V -> Int] /\ \A i \in V : a[i] \in Int
  OBVIOUS
<1>2. IsFiniteSet(V)
  <2> DEFINE n == Len(a)
  <2>1. n \in Int
    BY <1>1
  <2> HIDE DEF n
  <2>2. IsFiniteSet(1 .. n)
    BY <2>1, FS_Interval
  <2> QED  BY <1>1, <2>2 DEF n
<1>3. /\ m.spin = TRUE /\ m.linear = [i \in V |-> 0]
      /\ m.quad = [i \in V |-> [j \in V |-> IF i = j THEN 0 ELSE Unit * 2 * a[i] * a[j]]]
      /\ m.offset = Unit * SumFunction(q)
  BY DEF PartitionModel, EmptyModel
<1>4. Vars(m) = V /\ SumFunction(q) = SumFunctionOnSet(q, V)
  BY <1>3, SumWhole DEF Vars
<1> HIDE DEF m
<1>5. ASSUME NEW i \in V, NEW j \in V
      PROVE  /\ m.linear[i] = 0 /\ m.quad[i][j] = IF i = j THEN 0 ELSE 8 * (a[i] * a[j])
             /\ m.quad[i][j] \in Int /\ m.quad[i][j] = m.quad[j][i]
  <2>1. a[i] \in Int /\ a[j] \in Int
    BY <1>1
  <2>2. m.quad[i][j] = (IF i = j THEN 0 ELSE 4 * 2 * a[i] * a[j])
    BY <1>3 DEF Unit
  <2>3. m.quad[j][i] = (IF i = j THEN 0 ELSE 4 * 2 * a[j] * a[i])
    BY <1>3 DEF Unit
  <2>4. a[i] * a[j] \in Int /\ a[i] * a[j] = a[j] * a[i]
    BY <2>1
  <2>5. 4 * 2 * a[i] * a[j] = 8 * (a[i] * a[j]) /\ 4 * 2 * a[j] * a[i] = 8 * (a[j] * a[i])
    BY <2>1
  <2>6. m.linear[i] = 0
    BY <1>3
  <2> QED  BY <2>2, <2>3, <2>4, <2>5, <2>6
<1>6. \A i \in V : q[i] = a[i] * a[i] /\ q[i] \in Int
  BY <1>1
<1>7. SumFunctionOnSet(q, V) \in Int
  <2> HIDE DEF q
  <2> QED  BY <1>2, <1>6, SumType
<1>8. m.offset = 4 * SumFunctionOnSet(q, V) /\ m.offset \in Int
  BY <1>3, <1>4, <1>7 DEF Unit
<1>9. IsSquare(m, a)
  BY <1>1, <1>2, <1>4, <1>5, <1>8 DEF IsSquare
<1>10. m.linear \in [V -> Int] /\ m.quad \in [V -> [V -> Int]]
  <2>1. m.linear \in [V -> Int]
    BY <1>3
  <2>2. ASSUME NEW i \in V PROVE m.quad[i] \in [V -> Int]
    <3>1. m.quad[i] = [j \in V |-> IF i = j THEN 0 ELSE Unit * 2 * a[i] * a[j]]
      BY <1>3
    <3>2. \A j \in V : m.quad[i][j] \in Int
      BY <1>5
    <3> QED  BY <3>1, <3>2
  <2>3. m.quad = [i \in V |-> m.quad[i]]
    BY <1>3
  <2> QED  BY <2>1, <2>2, <2>3
<1>11. \A i \in V : m.quad[i][i] = 0
  BY <1>5
<1>12. IsModel(m)
  BY <1>2, <1>3, <1>4, <1>5, <1>8, <1>10, <1>11 DEF IsModel
<1> QED  BY <1>3, <1>4, <1>9, <1>12 DEF m

LEMMA PartitionAgrees ==
    ASSUME NEW a \in Seq(Int), NEW s \in [DOMAIN a -> {-1, 1}]
    PROVE  LET d == PartitionDifference(a, s)
           IN  d \in Int /\ Energy(PartitionModel(a), s) = Unit * (d * d)
<1> DEFINE m == PartitionModel(a)
           y == [i \in DOMAIN a |-> a[i] * s[i]]
           e == SumFunctionOnSet(y, DOMAIN a)
<1>1. Vars(m) = DOMAIN a /\ IsSquare(m, a)
  BY PartitionIsSquare
<1>2. Signed(a, s, Vars(m)) = y
  BY <1>1 DEF Signed
<1> HIDE DEF m
<1>3. e \in Int /\ Energy(m, s) = 4 * (e * e)
  BY <1>1, <1>2, SquareEnergy
<1>4. PartitionDifference(a, s) = IF e < 0 THEN -e ELSE e
  BY SumWhole DEF PartitionDifference, Magnitude
<1> HIDE DEF e
<1>5. (-e) * (-e) = e * e
  BY <1>3
<1> QED  BY <1>3, <1>4, <1>5 DEF Unit, m

(* A graph as a model.                                                      *)
IsGraph(g) ==
    /\ g.n \in Nat /\ g.edges \in Seq((1 .. g.n) \X (1 .. g.n) \X Int)
    /\ \A k \in DOMAIN g.edges : g.edges[k][1] # g.edges[k][2]

End1(g) == [k \in DOMAIN g.edges |-> g.edges[k][1]]
End2(g) == [k \in DOMAIN g.edges |-> g.edges[k][2]]
Weights(g) == [k \in DOMAIN g.edges |-> g.edges[k][3]]

LEMMA EdgesType ==
    ASSUME NEW g, IsGraph(g)
    PROVE  LET E == DOMAIN g.edges
           IN  /\ IsFiniteSet(E) /\ IsFiniteSet(1 .. g.n)
               /\ \A k \in E : /\ g.edges[k][1] \in 1 .. g.n /\ g.edges[k][2] \in 1 .. g.n
                               /\ g.edges[k][3] \in Int /\ g.edges[k][1] # g.edges[k][2]
               /\ End1(g) \in [E -> 1 .. g.n] /\ End2(g) \in [E -> 1 .. g.n]
               /\ Weights(g) \in [E -> Int]
<1> DEFINE E == DOMAIN g.edges
<1>1. E = 1 .. Len(g.edges) /\ Len(g.edges) \in Nat /\ g.n \in Nat
  BY DEF IsGraph
<1>2. IsFiniteSet(1 .. Len(g.edges)) /\ IsFiniteSet(1 .. g.n)
  BY <1>1, FS_Interval
<1>3. \A k \in E : g.edges[k] \in (1 .. g.n) \X (1 .. g.n) \X Int
  BY DEF IsGraph
<1>4. \A k \in E : /\ g.edges[k][1] \in 1 .. g.n /\ g.edges[k][2] \in 1 .. g.n
                   /\ g.edges[k][3] \in Int /\ g.edges[k][1] # g.edges[k][2]
  BY <1>3 DEF IsGraph
<1> QED  BY <1>1, <1>2, <1>4 DEF End1, End2, Weights

LEMMA WeightIsSum ==
    ASSUME NEW g, IsGraph(g), NEW S \in SUBSET DOMAIN g.edges
    PROVE  /\ WeightOf(g, S) = SumFunctionOnSet(Weights(g), S)
           /\ WeightOf(g, S) \in Int
<1> DEFINE f == [k \in S |-> g.edges[k][3]]
           w == Weights(g)
<1>1. IsFiniteSet(S)
  BY EdgesType, FS_Subset
<1>2. \A k \in S : f[k] = w[k] /\ w[k] \in Int
  BY EdgesType DEF Weights
<1>3. WeightOf(g, S) = SumFunctionOnSet(f, S)
  BY SumWhole DEF WeightOf
<1> HIDE DEF f, w
<1>4. SumFunctionOnSet(f, S) = SumFunctionOnSet(w, S)
  BY <1>1, <1>2, SumEqual
<1>5. SumFunctionOnSet(w, S) \in Int
  BY <1>1, <1>2, SumType
<1> QED  BY <1>3, <1>4, <1>5 DEF w

LEMMA MaxcutIsCut ==
    ASSUME NEW g, IsGraph(g)
    PROVE  LET m == MaxcutModel(g)
           IN  /\ IsModel(m) /\ m.spin /\ Vars(m) = 1 .. g.n
               /\ IsCut(m, DOMAIN g.edges, End1(g), End2(g), Weights(g))
<1> DEFINE m == MaxcutModel(g)
           V == 1 .. g.n
           E == DOMAIN g.edges
           u == End1(g)
           v == End2(g)
           w == Weights(g)
           J(i, j) == {k \in E : i # j /\ {g.edges[k][1], g.edges[k][2]} = {i, j}}
<1>1. /\ m.spin = TRUE /\ m.linear = [i \in V |-> 0] /\ m.offset = 0
      /\ m.quad = [i \in V |-> [j \in V |-> Unit * WeightOf(g, J(i, j))]]
  BY DEF MaxcutModel, EmptyModel
<1>2. Vars(m) = V
  BY <1>1 DEF Vars
<1> HIDE DEF m
<1>3. ASSUME NEW i \in V, NEW j \in V
      PROVE  /\ m.linear[i] = 0 /\ m.quad[i][j] = 4 * SumFunctionOnSet(w, Joins(u, v, E, i, j))
             /\ m.quad[i][j] \in Int /\ m.quad[i][j] = m.quad[j][i] /\ (i = j => m.quad[i][j] = 0)
  <2>1. m.linear[i] = 0 /\ m.quad[i][j] = 4 * WeightOf(g, J(i, j))
        /\ m.quad[j][i] = 4 * WeightOf(g, J(j, i))
    BY <1>1 DEF Unit
  <2>2. J(i, j) \in SUBSET E /\ J(i, j) = J(j, i)
    OBVIOUS
  <2>3. J(i, j) = Joins(u, v, E, i, j)
    BY DEF Joins, End1, End2
  <2>4. i = j => J(i, j) = {}
    OBVIOUS
  <2> HIDE DEF J, w, u, v
  <2>5. WeightOf(g, J(i, j)) = SumFunctionOnSet(w, J(i, j)) /\ WeightOf(g, J(i, j)) \in Int
    BY <2>2, WeightIsSum DEF w
  <2>6. i = j => SumFunctionOnSet(w, J(i, j)) = 0
    BY <2>4, SumEmpty
  <2> QED  BY <2>1, <2>2, <2>3, <2>5, <2>6
<1>4. /\ IsFiniteSet(V) /\ IsFiniteSet(E) /\ u \in [E -> V] /\ v \in [E -> V] /\ w \in [E -> Int]
      /\ \A k \in E : u[k] # v[k]
  BY EdgesType DEF End1, End2
<1> HIDE DEF J, u, v, w, E, V
<1>5. IsCut(m, E, u, v, w)
  BY <1>1, <1>2, <1>3, <1>4 DEF IsCut
<1>6. m.linear \in [V -> Int] /\ m.quad \in [V -> [V -> Int]]
  <2>1. m.linear \in [V -> Int]
    BY <1>1
  <2>2. ASSUME NEW i \in V PROVE m.quad[i] \in [V -> Int]
    <3>1. m.quad[i] = [j \in V |-> Unit * WeightOf(g, J(i, j))]
      BY <1>1
    <3>2. \A j \in V : m.quad[i][j] \in Int
      BY <1>3
    <3> QED  BY <3>1, <3>2
  <2>3. m.quad = [i \in V |-> m.quad[i]]
    BY <1>1
  <2> QED  BY <2>1, <2>2, <2>3
<1>7. IsModel(m)
  <2>1. \A i \in V : m.quad[i][i] = 0
    BY <1>3
  <2>2. \A i, j \in V : m.quad[i][j] = m.quad[j][i]
    BY <1>3
  <2>3. m.offset \in Int /\ IsFiniteSet(Vars(m))
    BY <1>1, <1>2, <1>4
  <2>4. m.spin /\ m.spin \in BOOLEAN
    BY <1>1
  <2> QED  BY <1>2, <1>6, <2>1, <2>2, <2>3, <2>4 DEF IsModel
<1> QED  BY <1>1, <1>2, <1>5, <1>7 DEF m, E, V, u, v, w

LEMMA CutAgrees ==
    ASSUME NEW g, IsGraph(g), NEW s \in [1 .. g.n -> {-1, 1}]
    PROVE  LET c == CutValue(g, s)
           IN  /\ c \in Int
               /\ Energy(MaxcutModel(g), s) = Unit * (TotalWeight(g) - 2 * c)
<1> DEFINE m == MaxcutModel(g)
           E == DOMAIN g.edges
           u == End1(g)
           v == End2(g)
           w == Weights(g)
           P == Parted(u, v, E, s)
<1>1. Vars(m) = 1 .. g.n /\ IsCut(m, E, u, v, w)
  BY MaxcutIsCut
<1>2. P = {k \in E : s[g.edges[k][1]] # s[g.edges[k][2]]}
  BY DEF Parted, End1, End2
<1>3. P \in SUBSET E /\ CutValue(g, s) = WeightOf(g, P)
  BY <1>2 DEF CutValue
<1>4. TotalWeight(g) = WeightOf(g, E)
  BY DEF TotalWeight
<1> HIDE DEF m, P, u, v
<1>5. /\ WeightOf(g, P) = SumFunctionOnSet(w, P) /\ WeightOf(g, P) \in Int
      /\ WeightOf(g, E) = SumFunctionOnSet(w, E)
  <2>1. E \in SUBSET E
    OBVIOUS
  <2> HIDE DEF E
  <2> QED  BY <1>3, <2>1, WeightIsSum DEF w, E
<1> HIDE DEF w, E
<1>6. s \in [Vars(m) -> {-1, 1}]
  BY <1>1
<1>7. Energy(m, s) = 4 * (SumFunctionOnSet(w, E) - 2 * SumFunctionOnSet(w, P))
  <2>1. IsCut(m, E, u, v, w)
    BY <1>1
  <2>2. Energy(m, s) = 4 * (SumFunctionOnSet(w, E) - 2 * SumFunctionOnSet(w, Parted(u, v, E, s)))
    BY ONLY <2>1, <1>6, CutEnergy
  <2> QED  BY <2>2 DEF P
<1> QED  BY <1>3, <1>4, <1>5, <1>7 DEF Unit, m

(* The problems the stream can be given, and what they are about.           *)
LEMMA StreamProblem ==
    ASSUME NEW p \in Problems
    PROVE  \/ p.kind = "partition" /\ p.numbers \in Seq(Int) /\ p.numbers # <<>>
              /\ ModelOf(p) = PartitionModel(p.numbers)
           \/ p.kind = "maxcut" /\ IsGraph(p.graph) /\ p.graph.n > 0
              /\ ModelOf(p) = MaxcutModel(p.graph)
<1>1. IsProblem(p) /\ Sites(p) # {}
  BY StreamAssumption DEF StreamInputs
<1>2. CASE p.kind = "partition" /\ p.numbers \in Seq(Int)
  <2>1. DOMAIN p.numbers # {}
    BY <1>1, <1>2 DEF Sites
  <2>2. p.numbers # <<>>
    BY <2>1
  <2> QED  BY <1>2, <2>2 DEF ModelOf
<1>3. CASE p.kind = "maxcut" /\ IsGraph(p.graph)
  <2>1. p.graph.n \in Nat
    BY <1>3 DEF IsGraph
  <2>2. 1 .. p.graph.n # {}
    BY <1>1, <1>3 DEF Sites
  <2>3. p.graph.n > 0
    BY <2>1, <2>2
  <2> QED  BY <1>3, <2>3 DEF ModelOf
<1> QED  BY <1>1, <1>2, <1>3 DEF IsProblem, IsGraph

LEMMA StreamModel ==
    ASSUME NEW p \in Problems
    PROVE  LET m == ModelOf(p)
           IN  /\ IsModel(m) /\ m.spin /\ Cardinality(Vars(m)) \in Nat \ {0}
               /\ Vars(m) = 1 .. Cardinality(Vars(m))
<1> DEFINE m == ModelOf(p)
<1>1. IsModel(m) /\ m.spin /\ \E n \in Nat \ {0} : Vars(m) = 1 .. n
  <2>1. CASE p.kind = "partition" /\ p.numbers \in Seq(Int) /\ p.numbers # <<>>
             /\ m = PartitionModel(p.numbers)
    <3>1. Len(p.numbers) \in Nat \ {0} /\ DOMAIN p.numbers = 1 .. Len(p.numbers)
      BY <2>1
    <3>2. IsModel(m) /\ m.spin /\ Vars(m) = DOMAIN p.numbers
      BY <2>1, PartitionIsSquare
    <3> QED  BY <3>1, <3>2
  <2>2. CASE p.kind = "maxcut" /\ IsGraph(p.graph) /\ p.graph.n > 0
             /\ m = MaxcutModel(p.graph)
    <3>1. p.graph.n \in Nat \ {0}
      BY <2>2 DEF IsGraph
    <3>2. IsModel(m) /\ m.spin /\ Vars(m) = 1 .. p.graph.n
      BY <2>2, MaxcutIsCut
    <3> QED  BY <3>1, <3>2
  <2> QED  BY <2>1, <2>2, StreamProblem
<1>2. PICK n \in Nat \ {0} : Vars(m) = 1 .. n
  BY <1>1
<1>3. Cardinality(1 .. n) = n
  <2>1. 1 \in Int /\ n \in Int /\ ~(1 > n) /\ n - 1 + 1 = n
    BY <1>2
  <2> QED  BY <2>1, FS_Interval
<1> QED  BY <1>1, <1>2, <1>3

LEMMA StreamAgrees ==
    ASSUME problem \in Problems,
           NEW s \in [Vars(ModelOf(problem)) -> {-1, 1}]
    PROVE  /\ Objective(s) \in Int
           /\ Agree(Energy(ModelOf(problem), s), Objective(s))
<1>1. CASE problem.kind = "partition" /\ problem.numbers \in Seq(Int) /\ problem.numbers # <<>>
           /\ ModelOf(problem) = PartitionModel(problem.numbers)
  <2>1. Objective(s) = PartitionDifference(problem.numbers, s)
    BY <1>1 DEF Objective
  <2>2. s \in [DOMAIN problem.numbers -> {-1, 1}]
    BY <1>1, PartitionIsSquare
  <2> QED  BY <1>1, <2>1, <2>2, PartitionAgrees DEF Agree
<1>2. CASE problem.kind = "maxcut" /\ IsGraph(problem.graph) /\ problem.graph.n > 0
           /\ ModelOf(problem) = MaxcutModel(problem.graph)
  <2>1. problem.kind # "partition"
    BY <1>2
  <2>2. Objective(s) = CutValue(problem.graph, s)
    BY <2>1 DEF Objective
  <2>3. s \in [1 .. problem.graph.n -> {-1, 1}]
    BY <1>2, MaxcutIsCut
  <2>4. /\ CutValue(problem.graph, s) \in Int
        /\ Energy(ModelOf(problem), s) =
             Unit * (TotalWeight(problem.graph) - 2 * CutValue(problem.graph, s))
    BY <1>2, <2>3, CutAgrees
  <2> QED  BY <2>1, <2>2, <2>4 DEF Agree
<1> QED  BY <1>1, <1>2, StreamProblem

(* Checkpoints: how many the first n sweeps have, and that they are not too  *)
(* many.                                                                     *)
Passed(n) == IF n = 0 THEN 0 ELSE (n - 1) \div Interval + 1

LEMMA IntervalType ==
    /\ Asked \in Nat \ {0} /\ Interval \in Nat \ {0}
           /\ NumSweeps \in Nat /\ NumSweeps <= Asked * Interval + (Asked - 1)
<1> DEFINE p == Asked
           q == NumSweeps \div p
           r == NumSweeps % p
           i == Interval
<1>1. p \in Nat \ {0} /\ NumSweeps \in Nat
  BY StreamAssumption DEF StreamInputs, Asked
<1>2. i = IF q = 0 THEN 1 ELSE q
  BY DEF Interval
<1> HIDE DEF p, i
<1>3. q \in Int /\ r \in 0 .. p - 1 /\ NumSweeps = p * q + r
  BY <1>1
<1> HIDE DEF q, r
<1>4. q >= 0
  <2>1. CASE q <= -1
    <3>1. p * q <= -p
      BY <2>1, <1>1, <1>3
    <3> QED  BY <1>1, <1>3, <3>1
  <2> QED  BY <1>3, <2>1
<1>5. i \in Nat \ {0}
  BY <1>2, <1>3, <1>4
<1>6. p * q <= p * i
  <2>1. CASE q = 0
    BY <1>1, <1>2, <2>1
  <2>2. CASE q # 0
    BY <1>2, <2>2, <1>1, <1>3
  <2> QED  BY <2>1, <2>2
<1>7. p * q \in Int /\ p * i \in Int
  BY <1>1, <1>3, <1>5
<1>8. NumSweeps <= p * i + (p - 1)
  <2> DEFINE x == p * q
             y == p * i
  <2>1. x \in Int /\ y \in Int /\ x <= y /\ NumSweeps = x + r
    BY <1>3, <1>6, <1>7
  <2> HIDE DEF x, y
  <2>2. NumSweeps <= y + (p - 1)
    BY <2>1, <1>1, <1>3
  <2> QED  BY <2>2 DEF y
<1> QED  BY <1>1, <1>5, <1>8 DEF p, i

LEMMA PassedBound ==
    ASSUME NEW n \in 0 .. NumSweeps
    PROVE  Passed(n) \in Nat /\ Passed(n) + 1 <= 2 * Asked
<1> DEFINE p == Asked
           i == Interval
           q == (n - 1) \div i
           r == (n - 1) % i
<1>1. p \in Nat \ {0} /\ i \in Nat \ {0} /\ n \in Nat /\ n <= p * i + (p - 1)
  <2> DEFINE y == p * i
  <2>1. NumSweeps <= y + (p - 1) /\ p \in Nat \ {0} /\ i \in Nat \ {0} /\ NumSweeps \in Nat
    BY IntervalType
  <2>2. y \in Int
    BY <2>1
  <2> HIDE DEF y, p, i
  <2>3. n \in Nat /\ n <= y + (p - 1)
    BY <2>1, <2>2
  <2> QED  BY <2>1, <2>3 DEF y
<1>2. CASE n = 0
  <2>1. Passed(n) = 0
    BY <1>2 DEF Passed
  <2> HIDE DEF p, i
  <2> QED  BY <1>1, <2>1 DEF p
<1>3. CASE n # 0
  <2>1. Passed(n) = q + 1
    BY <1>3 DEF Passed
  <2> HIDE DEF p, i
  <2>2. n - 1 \in Nat /\ q \in Nat /\ r \in 0 .. i - 1 /\ n - 1 = i * q + r
    <3>1. n - 1 \in Nat
      BY <1>1, <1>3
    <3>2. q \in Nat
      BY <1>1, <3>1, NextQuotient
    <3> QED  BY <1>1, <3>1, <3>2
  <2> HIDE DEF q, r
  <2>3. CASE q >= 2 * p - 1
    <3> DEFINE x == i * q
               y == i * p
               z == i * (p - 1)
    <3>1. x \in Int /\ y \in Int /\ z \in Int
      BY <1>1, <2>2
    <3>2. x >= y + z
      <4>1. i * (2 * p - 1) = y + z
        BY <1>1
      <4>2. i * q >= i * (2 * p - 1)
        <5> DEFINE d == q - (2 * p - 1)
        <5>1. d \in Nat /\ q = (2 * p - 1) + d
          BY <1>1, <2>2, <2>3
        <5> HIDE DEF d
        <5>2. i * q = i * (2 * p - 1) + i * d
          BY <5>1, <1>1
        <5>3. i * d \in Nat /\ i * (2 * p - 1) \in Int
          BY <5>1, <1>1
        <5> QED  BY <5>2, <5>3
      <4> QED  BY <4>1, <4>2
    <3>3. z >= p - 1
      <4>1. z = (p - 1) + (i - 1) * (p - 1)
        BY <1>1
      <4>2. (i - 1) * (p - 1) \in Nat
        BY <1>1
      <4> QED  BY <4>1, <4>2, <1>1
    <3>4. n - 1 <= y + (p - 1) - 1
      <4>1. p * i = y
        BY <1>1
      <4> HIDE DEF y
      <4> QED  BY <1>1, <3>1, <4>1
    <3>5. n - 1 >= x
      <4> HIDE DEF x
      <4>1. n - 1 = x + r
        BY <2>2 DEF x
      <4> QED  BY <2>2, <3>1, <4>1
    <3> HIDE DEF x, y, z
    <3> QED  BY <1>1, <3>1, <3>2, <3>3, <3>4, <3>5
  <2>4. CASE q < 2 * p - 1
    BY <1>1, <2>1, <2>2, <2>4 DEF p
  <2> QED  BY <1>1, <2>2, <2>3, <2>4
<1> QED  BY <1>2, <1>3

LEMMA PassedNext ==
    ASSUME NEW n \in Nat
    PROVE  Passed(n + 1) = Passed(n) + IF n % Interval = 0 THEN 1 ELSE 0
<1> DEFINE i == Interval
<1>1. i \in Nat \ {0}
  BY IntervalType
<1>2. Passed(n + 1) = n \div i + 1
  BY DEF Passed
<1>3. CASE n = 0
  <2>1. Passed(n) = 0
    BY <1>3 DEF Passed
  <2> HIDE DEF i
  <2>2. 0 \div i = 0 /\ 0 % i = 0
    BY <1>1
  <2> QED  BY <1>2, <1>3, <2>1, <2>2 DEF i
<1>4. CASE n # 0
  <2>1. Passed(n) = (n - 1) \div i + 1
    BY <1>4 DEF Passed
  <2> HIDE DEF i
  <2> DEFINE k == n - 1
  <2>2. k \in Nat /\ k + 1 = n
    BY <1>4
  <2> HIDE DEF k
  <2>3. /\ k \div i \in Nat
        /\ (k + 1) \div i = k \div i + (IF (k + 1) % i = 0 THEN 1 ELSE 0)
    BY <1>1, <2>2, NextQuotient
  <2>4. n \div i = k \div i + (IF n % i = 0 THEN 1 ELSE 0) /\ Passed(n) = k \div i + 1
    BY <2>1, <2>2, <2>3 DEF k
  <2> QED  BY <1>2, <2>3, <2>4 DEF i
<1> QED  BY <1>3, <1>4

(* The annealer in the stream: its energies are those of its states, and    *)
(* the best one only falls.                                                 *)
StreamSpins ==
    /\ problem \in Problems /\ model = ModelOf(problem)
    /\ state \in Spins /\ best \in Spins
    /\ energy = Energy(model, state) /\ bestEnergy = Energy(model, best)
    /\ next \in Vars(model) /\ sweep \in 0 .. NumSweeps

LEMMA StreamType ==
    ASSUME StreamSpins
    PROVE  /\ IsModel(model) /\ model.spin /\ Cardinality(Vars(model)) \in Nat \ {0}
           /\ Vars(model) = 1 .. Cardinality(Vars(model)) /\ NumSweeps \in Nat
           /\ IsState(model, state) /\ IsState(model, best) /\ energy \in Int /\ bestEnergy \in Int
<1>1. /\ IsModel(model) /\ model.spin /\ Cardinality(Vars(model)) \in Nat \ {0}
      /\ Vars(model) = 1 .. Cardinality(Vars(model))
  BY StreamModel DEF StreamSpins
<1>2. IsState(model, state) /\ IsState(model, best)
  BY DEF StreamSpins, Spins, IsState
<1>3. Energy(model, state) \in Int /\ Energy(model, best) \in Int
  BY <1>1, <1>2, EnergyIsTwice
<1> QED  BY <1>1, <1>2, <1>3, StreamAssumption DEF StreamSpins, StreamInputs

LEMMA StreamAdvance ==
    ASSUME StreamSpins, Proposing, Advance
    PROVE  /\ next' \in Vars(model) /\ sweep' \in 0 .. NumSweeps
           /\ sweep' = IF next = Cardinality(Vars(model)) THEN sweep + 1 ELSE sweep
<1> DEFINE n == Cardinality(Vars(model))
<1>1. n \in Nat \ {0} /\ Vars(model) = 1 .. n /\ NumSweeps \in Nat /\ model.spin
  BY StreamType
<1>2. Cardinality(Vars(model)) = n
  BY <1>1
<1>3. next \in 1 .. n /\ sweep \in 0 .. NumSweeps /\ sweep < NumSweeps
  BY <1>1 DEF StreamSpins, Proposing
<1>4. /\ next' = IF next < n THEN next + 1 ELSE 1
      /\ sweep' = IF next < n THEN sweep ELSE sweep + 1
  BY <1>2 DEF Advance
<1> HIDE DEF n
<1> QED  BY <1>1, <1>2, <1>3, <1>4

LEMMA StreamAnneal ==
    ASSUME StreamSpins, Anneal, problem' = problem
    PROVE  /\ StreamSpins' /\ model' = model /\ bestEnergy' <= bestEnergy
           /\ sweep < NumSweeps
           /\ sweep' = IF next = Cardinality(Vars(model)) THEN sweep + 1 ELSE sweep
<1>1. /\ IsModel(model) /\ model.spin /\ IsState(model, state) /\ energy \in Int /\ bestEnergy \in Int
      /\ next \in Vars(model)
  BY StreamType DEF StreamSpins
<1>2. /\ Proposing /\ Advance /\ model' = model
  BY DEF Anneal, Accept, Reject
<1>3. /\ next' \in Vars(model) /\ sweep' \in 0 .. NumSweeps
      /\ sweep' = IF next = Cardinality(Vars(model)) THEN sweep + 1 ELSE sweep
  BY <1>2, StreamAdvance
<1>4. CASE Accept
  <2>1. Rises(state, next) = -2 * state[next] * Field(model, state, next)
    BY <1>1, SpinsStay DEF Rises
  <2>2. /\ state' = [state EXCEPT ![next] = -@] /\ energy' = energy + Rises(state, next)
        /\ best' = (IF energy' < bestEnergy THEN state' ELSE best)
        /\ bestEnergy' = (IF energy' < bestEnergy THEN energy' ELSE bestEnergy)
    BY <1>4 DEF Accept, Flipped
  <2>3. energy' = Energy(model, state')
    <3>1. Energy(model, state') = Energy(model, state) + -2 * state[next] * Field(model, state, next)
      BY <1>1, <2>2, EnergyAfterFlip
    <3> QED  BY <2>1, <2>2, <3>1 DEF StreamSpins
  <2>4. state' \in Spins
    BY <1>1, <2>2 DEF StreamSpins, Spins
  <2>5. best' \in Spins /\ bestEnergy' = Energy(model, best')
    BY <2>2, <2>3, <2>4 DEF StreamSpins
  <2>6. energy' \in Int
    <3>1. IsState(model, state')
      BY <2>4 DEF Spins, IsState
    <3> QED  BY <1>1, <2>3, <3>1, EnergyIsTwice
  <2>7. bestEnergy' <= bestEnergy
    BY <1>1, <2>2, <2>6
  <2>8. StreamSpins'
    BY <1>2, <1>3, <2>3, <2>4, <2>5 DEF StreamSpins, Spins
  <2> QED  BY <1>2, <1>3, <2>7, <2>8 DEF Proposing
<1>5. CASE Reject
  <2>1. state' = state /\ best' = best /\ energy' = energy /\ bestEnergy' = bestEnergy
    BY <1>5 DEF Reject
  <2>2. StreamSpins'
    BY <1>2, <1>3, <2>1 DEF StreamSpins, Spins
  <2> QED  BY <1>1, <1>2, <1>3, <2>1, <2>2 DEF Proposing
<1> QED  BY <1>4, <1>5 DEF Anneal

(* An event that is about to be printed.                                    *)
Shown == [sweep : Nat, best_energy : Int, objective : Int, assign : Spins \cup {<<>>}]

LEMMA PointIsTrue ==
    ASSUME StreamSpins', problem' = problem, NEW s \in Nat
    PROVE  LET e == Point(s)
           IN  /\ e \in Shown' /\ e.sweep = s /\ e.best_energy = bestEnergy'
               /\ e.objective = Objective(best') /\ Agree(e.best_energy, e.objective)
               /\ problem.kind = "partition" =>
                    PartitionDifference(problem.numbers, e.assign) = e.objective
<1> DEFINE e == Point(s)
<1>1. /\ problem \in Problems /\ model' = ModelOf(problem)
      /\ best' \in [Vars(ModelOf(problem)) -> {-1, 1}] /\ best' \in Spins'
      /\ bestEnergy' = Energy(ModelOf(problem), best')
  BY DEF StreamSpins, Spins
<1>2. /\ Objective(best') \in Int
      /\ Agree(bestEnergy', Objective(best'))
  BY <1>1, StreamAgrees
<1>3. bestEnergy' \in Int
  <2>1. IsModel(ModelOf(problem)) /\ IsState(ModelOf(problem), best')
    BY <1>1, StreamModel DEF IsState
  <2> QED  BY <1>1, <2>1, EnergyIsTwice
<1>4. e = [sweep |-> s, best_energy |-> bestEnergy', objective |-> Objective(best'),
           assign |-> IF problem.kind = "partition" THEN best' ELSE <<>>]
  BY DEF Point
<1> HIDE DEF e
<1>5. /\ e.sweep = s /\ e.best_energy = bestEnergy' /\ e.objective = Objective(best')
      /\ e.assign = (IF problem.kind = "partition" THEN best' ELSE <<>>)
  BY <1>4
<1>6. e \in Shown'
  BY <1>1, <1>2, <1>3, <1>4 DEF Shown
<1>7. problem.kind = "partition" => PartitionDifference(problem.numbers, e.assign) = e.objective
  BY <1>5 DEF Objective
<1> QED  BY <1>2, <1>5, <1>6, <1>7 DEF e

StreamTrue ==
    /\ printed \in Seq(Shown)
    /\ \A k \in 1 .. Len(printed) :
         /\ Agree(printed[k].best_energy, printed[k].objective)
         /\ problem.kind = "partition" =>
              PartitionDifference(problem.numbers, printed[k].assign) = printed[k].objective
    /\ phase \in {"anneal", "last", "done"}
    /\ phase = "done" =>
         final = [best_energy |-> bestEnergy, objective |-> Objective(best), sweeps |-> NumSweeps]

(* The curve so far: no point is below the best energy, which its end        *)
(* repeats.                                                                  *)
Descends(k) ==
    /\ printed[k + 1].best_energy <= printed[k].best_energy
    /\ printed[k + 1].sweep > printed[k].sweep
         \/ (printed[k + 1].sweep = printed[k].sweep /\ printed[k].sweep = NumSweeps - 1)

StreamCurve ==
    /\ \A k \in 1 .. Len(printed) : printed[k].best_energy >= bestEnergy
    /\ \A k \in 1 .. Len(printed) - 1 : Descends(k)
    /\ phase = "anneal" => /\ Len(printed) = Passed(sweep)
                           /\ \A k \in 1 .. Len(printed) : printed[k].sweep < sweep
    /\ phase # "anneal" => /\ Len(printed) # 0 /\ Len(printed) <= 2 * Asked
                           /\ printed[Len(printed)].best_energy = bestEnergy
                           /\ printed[Len(printed)].objective = Objective(best)

StreamInv == StreamSpins /\ StreamTrue /\ StreamCurve

LEMMA StreamStarts == StreamInit => StreamInv
<1> SUFFICES ASSUME StreamInit PROVE StreamInv
  OBVIOUS
<1> DEFINE m == ModelOf(problem)
           n == Cardinality(Vars(m))
<1>1. problem \in Problems /\ model = m
  BY DEF StreamInit
<1>2. m.spin /\ n \in Nat \ {0} /\ Vars(m) = 1 .. n
  BY <1>1, StreamModel
<1>3. NumSweeps \in Nat
  BY StreamAssumption DEF StreamInputs
<1>4. StreamSpins
  <2>1. state \in Spins
    BY <1>1, <1>2, SpinsStay DEF StreamInit, Start, Spins
  <2>2. energy = Energy(model, state) /\ best = state /\ bestEnergy = energy
    BY <1>1, <1>2, SpinsStay DEF StreamInit, Start
  <2>3. next = 1 /\ sweep = 0
    BY DEF StreamInit, Start
  <2>4. next \in Vars(model)
    <3> HIDE DEF n, m
    <3> QED  BY <1>1, <1>2, <2>3
  <2> QED  BY <1>1, <1>3, <2>1, <2>2, <2>3, <2>4 DEF StreamSpins
<1>5. printed = <<>> /\ phase = "anneal" /\ sweep = 0
  BY DEF StreamInit, Start
<1>6. StreamTrue
  BY <1>5 DEF StreamTrue
<1>7. StreamCurve
  BY <1>5 DEF StreamCurve, Passed
<1> QED  BY <1>4, <1>6, <1>7 DEF StreamInv

(* A point is added to the curve.                                           *)
LEMMA PointAdded ==
    ASSUME StreamInv, StreamSpins', problem' = problem, model' = model,
           bestEnergy' <= bestEnergy, NEW s \in Nat, printed' = Append(printed, Point(s)),
           \A k \in 1 .. Len(printed) :
             printed[k].sweep < s \/ (printed[k].sweep = s /\ s = NumSweeps - 1)
    PROVE  LET c == Len(printed)
           IN  /\ printed' \in Seq(Shown') /\ Len(printed') = c + 1 /\ c \in Nat
               /\ \A k \in 1 .. c + 1 :
                    /\ Agree(printed'[k].best_energy, printed'[k].objective)
                    /\ problem.kind = "partition" =>
                         PartitionDifference(problem.numbers, printed'[k].assign) = printed'[k].objective
                    /\ printed'[k].best_energy >= bestEnergy'
               /\ \A k \in 1 .. c : Descends(k)'
               /\ \A k \in 1 .. c : printed'[k].sweep = printed[k].sweep
               /\ printed'[c + 1].sweep = s
               /\ printed'[c + 1].best_energy = bestEnergy'
               /\ printed'[c + 1].objective = Objective(best')
<1> DEFINE e == Point(s)
           c == Len(printed)
<1>1. /\ e \in Shown' /\ e.sweep = s /\ e.best_energy = bestEnergy'
      /\ e.objective = Objective(best') /\ Agree(e.best_energy, e.objective)
      /\ problem.kind = "partition" =>
           PartitionDifference(problem.numbers, e.assign) = e.objective
  BY PointIsTrue
<1>2. printed \in Seq(Shown) /\ Shown' = Shown
  BY DEF StreamInv, StreamTrue, Shown, Spins
<1> HIDE DEF e
<1>3. /\ printed' \in Seq(Shown') /\ c \in Nat /\ Len(printed') = c + 1 /\ printed'[c + 1] = e
      /\ \A k \in 1 .. c : printed'[k] = printed[k]
  <2>1. e \in Shown
    BY <1>1, <1>2
  <2>2. printed' = Append(printed, e)
    BY DEF e
  <2> HIDE DEF Shown
  <2> QED  BY <1>2, <2>1, <2>2
<1>4. bestEnergy \in Int /\ bestEnergy' \in Int
  <2>1. e.best_energy \in Int
    BY <1>1 DEF Shown
  <2> QED  BY <1>1, <2>1, StreamType DEF StreamInv
<1>5. \A k \in 1 .. c : printed[k].best_energy \in Int /\ printed[k].sweep \in Nat
  <2> SUFFICES ASSUME NEW k \in 1 .. c
               PROVE  printed[k].best_energy \in Int /\ printed[k].sweep \in Nat
    OBVIOUS
  <2>1. printed[k] \in Shown
    BY <1>2
  <2> QED  BY <2>1 DEF Shown
<1>6. ASSUME NEW k \in 1 .. c + 1
      PROVE  /\ Agree(printed'[k].best_energy, printed'[k].objective)
             /\ problem.kind = "partition" =>
                  PartitionDifference(problem.numbers, printed'[k].assign) = printed'[k].objective
             /\ printed'[k].best_energy >= bestEnergy'
  <2>1. CASE k = c + 1
    BY <1>1, <1>3, <1>4, <2>1
  <2>2. CASE k \in 1 .. c
    <3>1. printed'[k] = printed[k] /\ printed[k].best_energy \in Int /\ printed[k].best_energy >= bestEnergy
      BY <1>3, <1>5, <2>2 DEF StreamInv, StreamCurve
    <3>2. printed'[k].best_energy >= bestEnergy'
      BY <1>4, <3>1
    <3> QED  BY <2>2, <3>1, <3>2 DEF StreamInv, StreamTrue
  <2> QED  BY <1>3, <2>1, <2>2
<1>7. ASSUME NEW k \in 1 .. c
      PROVE  Descends(k)'
  <2>1. CASE k = c
    <3>1. printed'[k + 1] = e /\ printed'[k] = printed[k] /\ printed[k].best_energy >= bestEnergy
      BY <1>3, <2>1 DEF StreamInv, StreamCurve
    <3>2. e.best_energy <= printed[k].best_energy
      BY <1>1, <1>4, <1>5, <3>1
    <3>3. e.sweep > printed[k].sweep \/ (e.sweep = printed[k].sweep /\ printed[k].sweep = NumSweeps - 1)
      BY <1>1, <1>5
    <3> QED  BY <3>1, <3>2, <3>3 DEF Descends
  <2>2. CASE k \in 1 .. c - 1
    <3>1. k + 1 \in 1 .. c /\ Descends(k)
      BY <1>3, <2>2 DEF StreamInv, StreamCurve
    <3>2. printed'[k + 1] = printed[k + 1] /\ printed'[k] = printed[k]
      BY <1>3, <3>1
    <3> QED  BY <3>1, <3>2 DEF Descends
  <2> QED  BY <1>3, <2>1, <2>2
<1>8. \A k \in 1 .. c : printed'[k].sweep = printed[k].sweep
  BY <1>3
<1> QED  BY <1>1, <1>3, <1>6, <1>7, <1>8

LEMMA StreamStep == StreamInv /\ Step => StreamInv'
<1> SUFFICES ASSUME StreamInv, Step PROVE StreamInv'
  OBVIOUS
<1> DEFINE last == next = Cardinality(Vars(model))
           due == sweep % Interval = 0
           c == Len(printed)
<1>1. /\ phase = "anneal" /\ phase' = "anneal" /\ problem' = problem /\ final' = final /\ Anneal
      /\ printed' = IF last /\ due THEN Append(printed, Point(sweep)) ELSE printed
  BY DEF Step
<1>2. /\ StreamSpins' /\ model' = model /\ bestEnergy' <= bestEnergy /\ sweep < NumSweeps
      /\ sweep' = IF last THEN sweep + 1 ELSE sweep
  BY <1>1, StreamAnneal DEF StreamInv
<1>3. sweep \in Nat /\ sweep' \in Nat
  BY <1>2, StreamType DEF StreamInv, StreamSpins
<1>4. c = Passed(sweep) /\ \A k \in 1 .. c : printed[k].sweep < sweep
  BY <1>1 DEF StreamInv, StreamCurve
<1>5. Passed(sweep + 1) = Passed(sweep) + IF due THEN 1 ELSE 0
  BY <1>3, PassedNext
<1>6. c \in Nat /\ Passed(sweep) \in Nat /\ \A k \in 1 .. c : printed[k] \in Shown
  BY <1>4 DEF StreamInv, StreamTrue
<1>7. \A k \in 1 .. c : printed[k].sweep \in Nat /\ printed[k].best_energy \in Int
  <2> SUFFICES ASSUME NEW k \in 1 .. c PROVE printed[k].sweep \in Nat /\ printed[k].best_energy \in Int
    OBVIOUS
  <2>1. printed[k] \in Shown
    BY <1>6
  <2> QED  BY <2>1 DEF Shown
<1>8. phase' # "done" /\ phase' \in {"anneal", "last", "done"}
  BY <1>1
<1>9. CASE last /\ due
  <2>1. /\ printed' \in Seq(Shown') /\ Len(printed') = c + 1
        /\ \A k \in 1 .. c + 1 :
             /\ Agree(printed'[k].best_energy, printed'[k].objective)
             /\ problem.kind = "partition" =>
                  PartitionDifference(problem.numbers, printed'[k].assign) = printed'[k].objective
             /\ printed'[k].best_energy >= bestEnergy'
        /\ \A k \in 1 .. c : Descends(k)'
        /\ \A k \in 1 .. c : printed'[k].sweep = printed[k].sweep
        /\ printed'[c + 1].sweep = sweep
    <3>1. printed' = Append(printed, Point(sweep))
      BY <1>1, <1>9
    <3> QED  BY <1>1, <1>2, <1>3, <1>4, <3>1, PointAdded
  <2>2. sweep' = sweep + 1
    BY <1>2, <1>9
  <2>3. Len(printed') = Passed(sweep')
    BY <1>4, <1>5, <1>9, <2>1, <2>2
  <2>4. \A k \in 1 .. c + 1 : printed'[k].sweep < sweep'
    <3> SUFFICES ASSUME NEW k \in 1 .. c + 1 PROVE printed'[k].sweep < sweep'
      OBVIOUS
    <3>1. CASE k = c + 1
      BY <1>3, <2>1, <2>2, <3>1
    <3>2. CASE k \in 1 .. c
      <4>1. printed'[k].sweep = printed[k].sweep /\ printed[k].sweep < sweep /\ printed[k].sweep \in Nat
        BY <1>4, <1>7, <2>1, <3>2
      <4> QED  BY <1>3, <2>2, <4>1
    <3> QED  BY <1>6, <3>1, <3>2
  <2>5. StreamTrue'
    BY <1>1, <1>8, <2>1 DEF StreamTrue, Agree
  <2>6. StreamCurve'
    <3>1. Len(printed') - 1 = c
      BY <1>6, <2>1
    <3> QED  BY <1>1, <2>1, <2>3, <2>4, <3>1 DEF StreamCurve
  <2> QED  BY <1>2, <2>5, <2>6 DEF StreamInv
<1>10. CASE ~(last /\ due)
  <2>1. printed' = printed
    BY <1>1, <1>10
  <2>2. Passed(sweep') = Passed(sweep) /\ sweep <= sweep'
    <3>1. CASE last
      BY <1>2, <1>3, <1>5, <1>6, <1>10, <3>1
    <3>2. CASE ~last
      BY <1>2, <1>3, <3>2
    <3> QED  BY <3>1, <3>2
  <2>3. Shown' = Shown
    BY <1>2 DEF Shown, Spins
  <2>4. StreamTrue'
    BY <1>1, <1>8, <2>1, <2>3 DEF StreamInv, StreamTrue, Agree
  <2>5. \A k \in 1 .. c : printed[k].sweep < sweep' /\ printed[k].best_energy >= bestEnergy'
    <3> SUFFICES ASSUME NEW k \in 1 .. c
                 PROVE  printed[k].sweep < sweep' /\ printed[k].best_energy >= bestEnergy'
      OBVIOUS
    <3>1. printed[k].sweep \in Nat /\ printed[k].sweep < sweep
      BY <1>4, <1>7
    <3>2. printed[k].best_energy \in Int /\ printed[k].best_energy >= bestEnergy
      BY <1>7 DEF StreamInv, StreamCurve
    <3>3. bestEnergy \in Int /\ bestEnergy' \in Int
      <4>1. bestEnergy \in Int
        BY StreamType DEF StreamInv
      <4>2. IsModel(model) /\ IsState(model, best') /\ bestEnergy' = Energy(model, best')
        BY <1>2, StreamType DEF StreamInv, StreamSpins, Spins, IsState
      <4>3. bestEnergy' \in Int
        BY <4>2, EnergyIsTwice
      <4> QED  BY <4>1, <4>3
    <3> QED  BY <1>2, <1>3, <2>2, <3>1, <3>2, <3>3
  <2>6. StreamCurve'
    <3>1. \A k \in 1 .. c - 1 : Descends(k)'
      BY <2>1 DEF StreamInv, StreamCurve, Descends
    <3> QED  BY <1>1, <1>4, <2>1, <2>2, <2>5, <3>1 DEF StreamCurve
  <2> QED  BY <1>2, <2>4, <2>6 DEF StreamInv
<1> QED  BY <1>9, <1>10

LEMMA StreamLastPoint == StreamInv /\ LastPoint => StreamInv'
<1> SUFFICES ASSUME StreamInv, LastPoint PROVE StreamInv'
  OBVIOUS
<1> DEFINE c == Len(printed)
           s == IF NumSweeps > 0 THEN NumSweeps - 1 ELSE 0
<1>1. /\ phase = "anneal" /\ phase' = "last" /\ problem' = problem /\ final' = final
      /\ ~Proposing /\ UNCHANGED annealing
      /\ printed' = Append(printed, Point(s))
  BY DEF LastPoint
<1>2. /\ model' = model /\ state' = state /\ energy' = energy /\ best' = best /\ bestEnergy' = bestEnergy
      /\ sweep' = sweep /\ next' = next
  BY <1>1 DEF annealing
<1>3. StreamSpins'
  BY <1>1, <1>2 DEF StreamInv, StreamSpins, Spins
<1>4. sweep = NumSweeps /\ NumSweeps \in Nat /\ bestEnergy \in Int
  <2>1. model.spin /\ next \in Vars(model) /\ NumSweeps \in Nat /\ sweep \in 0 .. NumSweeps /\ bestEnergy \in Int
    BY StreamType DEF StreamInv, StreamSpins
  <2>2. ~(sweep < NumSweeps)
    BY <1>1, <2>1 DEF Proposing
  <2> QED  BY <2>1, <2>2
<1>5. c = Passed(NumSweeps) /\ c \in Nat /\ \A k \in 1 .. c : printed[k].sweep < NumSweeps
  BY <1>1, <1>4 DEF StreamInv, StreamCurve, StreamTrue
<1>6. c + 1 <= 2 * Asked
  BY <1>4, <1>5, PassedBound
<1>7. s \in Nat /\ \A k \in 1 .. c :
        printed[k].sweep < s \/ (printed[k].sweep = s /\ s = NumSweeps - 1)
  <2>1. s \in Nat
    BY <1>4
  <2> SUFFICES ASSUME NEW k \in 1 .. c
               PROVE  printed[k].sweep < s \/ (printed[k].sweep = s /\ s = NumSweeps - 1)
    BY <2>1
  <2>2. printed[k] \in Shown
    BY DEF StreamInv, StreamTrue
  <2>3. printed[k].sweep \in Nat /\ printed[k].sweep < NumSweeps
    BY <1>5, <2>2 DEF Shown
  <2> QED  BY <1>4, <2>3
<1>8. bestEnergy' <= bestEnergy
  BY <1>2, <1>4
<1> HIDE DEF s
<1>9. /\ printed' \in Seq(Shown') /\ Len(printed') = c + 1
      /\ \A k \in 1 .. c + 1 :
           /\ Agree(printed'[k].best_energy, printed'[k].objective)
           /\ problem.kind = "partition" =>
                PartitionDifference(problem.numbers, printed'[k].assign) = printed'[k].objective
           /\ printed'[k].best_energy >= bestEnergy'
      /\ \A k \in 1 .. c : Descends(k)'
      /\ printed'[c + 1].best_energy = bestEnergy'
      /\ printed'[c + 1].objective = Objective(best')
  BY <1>1, <1>2, <1>3, <1>7, <1>8, PointAdded
<1>10. StreamTrue'
  BY <1>1, <1>9 DEF StreamTrue, Agree
<1>11. StreamCurve'
  <2>1. Len(printed') - 1 = c /\ Len(printed') # 0
    BY <1>5, <1>9
  <2>2. Objective(best)' = Objective(best')
    BY <1>1 DEF Objective
  <2> QED  BY <1>1, <1>6, <1>9, <2>1, <2>2 DEF StreamCurve
<1> QED  BY <1>3, <1>10, <1>11 DEF StreamInv

LEMMA StreamDone == StreamInv /\ Done => StreamInv'
<1> SUFFICES ASSUME StreamInv, Done PROVE StreamInv'
  OBVIOUS
<1>1. /\ phase = "last" /\ phase' = "done" /\ problem' = problem /\ printed' = printed
      /\ UNCHANGED annealing
      /\ final' = [best_energy |-> bestEnergy, objective |-> Objective(best), sweeps |-> NumSweeps]
  BY DEF Done
<1>2. /\ model' = model /\ state' = state /\ energy' = energy /\ best' = best /\ bestEnergy' = bestEnergy
      /\ sweep' = sweep /\ next' = next
  BY <1>1 DEF annealing
<1>3. Objective(best)' = Objective(best)
  BY <1>1, <1>2 DEF Objective
<1>4. StreamSpins'
  BY <1>1, <1>2 DEF StreamInv, StreamSpins, Spins
<1>5. StreamTrue'
  <2>1. Shown' = Shown
    BY <1>2 DEF Shown, Spins
  <2> QED  BY <1>1, <1>2, <1>3, <2>1 DEF StreamInv, StreamTrue, Agree
<1>6. StreamCurve'
  BY <1>1, <1>2, <1>3 DEF StreamInv, StreamCurve, Descends
<1> QED  BY <1>4, <1>5, <1>6 DEF StreamInv

LEMMA StreamStutters == StreamInv /\ UNCHANGED streaming => StreamInv'
<1> SUFFICES ASSUME StreamInv, UNCHANGED streaming PROVE StreamInv'
  OBVIOUS
<1>1. /\ model' = model /\ state' = state /\ energy' = energy /\ best' = best /\ bestEnergy' = bestEnergy
      /\ sweep' = sweep /\ next' = next
      /\ phase' = phase /\ problem' = problem /\ printed' = printed /\ final' = final
  BY DEF streaming, annealing
<1>2. Objective(best)' = Objective(best)
  BY <1>1 DEF Objective
<1>3. StreamSpins'
  BY <1>1 DEF StreamInv, StreamSpins, Spins
<1>4. StreamTrue'
  <2>1. Shown' = Shown
    BY <1>1 DEF Shown, Spins
  <2> QED  BY <1>1, <1>2, <2>1 DEF StreamInv, StreamTrue, Agree
<1>5. StreamCurve'
  BY <1>1, <1>2 DEF StreamInv, StreamCurve, Descends
<1> QED  BY <1>3, <1>4, <1>5 DEF StreamInv

LEMMA StreamInvariant == StreamSpec => []StreamInv
<1>1. StreamInit => StreamInv
  BY StreamStarts
<1>2. StreamInv /\ [StreamNext]_streaming => StreamInv'
  BY StreamStep, StreamLastPoint, StreamDone, StreamStutters DEF StreamNext
<1> QED  BY <1>1, <1>2, PTL DEF StreamSpec

(* Every event's energy and objective belong together, whatever the numbers *)
(* or the graph (anneal_stream.cpp:21-24, 136-138, 158-169; partition.hpp:  *)
(* 8-15; maxcut.hpp:12-19).                                                 *)
THEOREM EventsBelongTogether == StreamSpec => []EventsAreTrue
<1>1. StreamInv => EventsAreTrue
  <2> SUFFICES ASSUME StreamInv PROVE EventsAreTrue
    OBVIOUS
  <2>1. DOMAIN printed = 1 .. Len(printed)
    BY DEF StreamInv, StreamTrue
  <2>2. phase = "done" => Agree(final.best_energy, final.objective)
    <3> SUFFICES ASSUME phase = "done" PROVE Agree(final.best_energy, final.objective)
      OBVIOUS
    <3>1. final.best_energy = bestEnergy /\ final.objective = Objective(best)
      BY DEF StreamInv, StreamTrue
    <3>2. /\ problem \in Problems /\ best \in [Vars(ModelOf(problem)) -> {-1, 1}]
          /\ bestEnergy = Energy(ModelOf(problem), best)
      BY DEF StreamInv, StreamSpins, Spins
    <3>3. Agree(bestEnergy, Objective(best))
      BY <3>2, StreamAgrees
    <3> QED  BY <3>1, <3>3
  <2> QED  BY <2>1, <2>2 DEF EventsAreTrue, StreamInv, StreamTrue
<1> QED  BY <1>1, StreamInvariant, PTL

(* The curve is in order, never rises, has at most twice the points asked   *)
(* for and ends with what the last event says, for any number of sweeps and *)
(* of points (anneal_stream.cpp:155, 171-189, 212-214).                     *)
THEOREM CurveKeepsDescending == StreamSpec => []CurveDescends
<1>1. StreamInv => CurveDescends
  <2> SUFFICES ASSUME StreamInv PROVE CurveDescends
    OBVIOUS
  <2>1. Len(printed) <= 2 * Asked
    <3>1. CASE phase = "anneal"
      <4>1. Len(printed) = Passed(sweep) /\ Len(printed) \in Nat /\ sweep \in 0 .. NumSweeps
        BY <3>1 DEF StreamInv, StreamTrue, StreamCurve, StreamSpins
      <4>2. Passed(sweep) + 1 <= 2 * Asked /\ Asked \in Nat
        BY <4>1, PassedBound, IntervalType
      <4> QED  BY <4>1, <4>2
    <3>2. CASE phase # "anneal"
      BY <3>2 DEF StreamInv, StreamCurve
    <3> QED  BY <3>1, <3>2
  <2>2. phase = "done" => /\ printed # <<>>
                          /\ printed[Len(printed)].best_energy = final.best_energy
                          /\ printed[Len(printed)].objective = final.objective
    BY DEF StreamInv, StreamTrue, StreamCurve
  <2> QED  BY <2>1, <2>2 DEF CurveDescends, StreamInv, StreamCurve, Descends
<1> QED  BY <1>1, StreamInvariant, PTL
=============================================================================
