--------------------------- MODULE EngineSession ---------------------------
(***************************************************************************)
(* The C++ sidecar process: the frame loop of engine/src/cli/main.cpp      *)
(* driving one EngineSession (engine/src/protocol/session.cpp), whose      *)
(* worker threads answer through write_frame (protocol/frame.cpp).         *)
(*                                                                         *)
(* Threads: Main (the only reader) and one worker per accepted request.    *)
(* A critical section on jobs_mutex takes no other lock and calls nothing  *)
(* that blocks, so it is one step.  The section on sink_mutex performs     *)
(* two writes, so it is several.                                           *)
(***************************************************************************)
EXTENDS Naturals, Sequences

CONSTANTS
    Ids,          \* valid request_id texts
    Jobs,         \* Job objects a session can create (a bound)
    Main,         \* the thread that runs main()
    None,         \* null: no id, no job, no envelope, no exit code
    MaxFrames,    \* bound: frames the peer sends
    MaxProgress   \* bound: progress events one executor reports

ASSUME SessionAssumption ==
    /\ Main \notin Jobs
    /\ None \notin Jobs \cup Ids \cup {Main} \cup Nat
    /\ MaxFrames \in Nat /\ MaxProgress \in Nat

VARIABLES
    frames,     \* frames the peer may still send
    mpc,        \* where main() is
    msg,        \* the message accept() is working on
    exit,       \* the value main() returns
    accepting,  \* Impl::accepting
    jobs,       \* Impl::jobs, the map from request id to Job
    joining,    \* `active`: the jobs stop_and_join took out of the map
    idOf,       \* the request_id a worker's closure captured
    wpc,        \* where a worker is; Job::complete is "done" or "joined"
    stop,       \* Job::stop
    reported,   \* progress events a worker has produced
    emit,       \* where a thread is in emit()
    out,        \* the envelope a thread holds
    healthy,    \* Impl::output_healthy
    sinkOwner,  \* the holder of Impl::sink_mutex
    streamOk,   \* std::cout.good()
    wire        \* what reached stdout: headers and payloads, in order

mainVars == <<frames, mpc, msg, exit, accepting>>
mapVars  == <<jobs, joining, stop>>
workVars == <<idOf, wpc, reported>>
sinkVars == <<healthy, sinkOwner, streamOk, wire>>
emitVars == <<emit, out>>
vars     == <<mainVars, mapVars, workVars, sinkVars, emitVars>>

Threads == Jobs \cup {Main}

-----------------------------------------------------------------------------
(* Messages and envelopes                                                   *)

\* What the peer sends, as accept() tells messages apart.  A "request" is any
\* JSON object with a valid id that is not a cancellation: its remaining
\* fields are the executor's business.
Messages ==
    [kind : {"unparsable", "anonymous"}, id : {None}]
        \cup [kind : {"bad_cancel"}, id : Ids \cup {None}]
        \cup [kind : {"cancel", "request"}, id : Ids]

RejectCodes   == {"invalid_json", "invalid_request",
                  "duplicate_request", "engine_busy"}
\* "result" is whatever text the executor returned, a response or an error: the
\* session passes it on unread.
TerminalCodes == {"result", "internal_error", "request_cancelled"}

\* `from` is history: the envelope does not carry the thread that wrote it.
Envelopes == [from : Threads, id : Ids \cup {None},
              code : RejectCodes \cup TerminalCodes \cup {"progress"}]

Envelope(t, i, c) == [from |-> t, id |-> i, code |-> c]

Chunks == [part : {"header", "payload"}, env : Envelopes]

\* What an executor makes of its request: a result, the session's
\* internal_error if it throws, or handle_message's catch-all, which has
\* forgotten the id.
ExecutorReplies(j) ==
    {Envelope(j, idOf[j], c) : c \in {"result", "internal_error"}}
        \cup {Envelope(j, None, "internal_error")}

-----------------------------------------------------------------------------
Completed == {j \in Jobs : wpc[j] \in {"done", "joined"}}
Mapped    == {jobs[i] : i \in Ids} \ {None}

Init ==
    /\ frames = MaxFrames
    /\ mpc = "read"
    /\ msg = None
    /\ exit = None
    /\ accepting = TRUE
    /\ jobs = [i \in Ids |-> None]
    /\ joining = {}
    /\ idOf = [j \in Jobs |-> None]
    /\ wpc = [j \in Jobs |-> "new"]
    /\ stop = [j \in Jobs |-> FALSE]
    /\ reported = [j \in Jobs |-> 0]
    /\ emit = [t \in Threads |-> "idle"]
    /\ out = [t \in Threads |-> None]
    /\ healthy = TRUE
    /\ sinkOwner = None
    /\ streamOk = TRUE
    /\ wire = <<>>

-----------------------------------------------------------------------------
(* emit(): one thread sends one envelope                                    *)

\* Hands envelope e to emit() on thread t.
BeginEmit(t, e) ==
    /\ out' = [out EXCEPT ![t] = e]
    /\ emit' = [emit EXCEPT ![t] = "check"]

\* emit() returns on thread t.
EndEmit(t) ==
    /\ out' = [out EXCEPT ![t] = None]
    /\ emit' = [emit EXCEPT ![t] = "idle"]

\* The health test, made before the lock is taken.
EmitCheck(t) ==
    /\ emit[t] = "check"
    /\ IF healthy
       THEN emit' = [emit EXCEPT ![t] = "lock"] /\ UNCHANGED out
       ELSE EndEmit(t)
    /\ UNCHANGED <<mainVars, mapVars, workVars, sinkVars>>

\* Mutant of EmitLock: the sink is not locked.
BugNoSinkLock(t) ==
    /\ emit[t] = "lock"
    /\ sinkOwner' = t
    /\ emit' = [emit EXCEPT ![t] = "header"]
    /\ UNCHANGED <<mainVars, mapVars, workVars, out, healthy, streamOk, wire>>

\* scoped_lock on sink_mutex.
EmitLock(t) ==
    /\ emit[t] = "lock"
    /\ sinkOwner = None
    /\ sinkOwner' = t
    /\ emit' = [emit EXCEPT ![t] = "header"]
    /\ UNCHANGED <<mainVars, mapVars, workVars, out, healthy, streamOk, wire>>

\* write_frame's first write.
WriteHeader(t) ==
    /\ emit[t] = "header"
    /\ streamOk
    /\ wire' = Append(wire, [part |-> "header", env |-> out[t]])
    /\ emit' = [emit EXCEPT ![t] = "payload"]
    /\ UNCHANGED <<mainVars, mapVars, workVars, out, healthy, sinkOwner, streamOk>>

\* Its second write and the flush; the lock is released on return.
WritePayload(t) ==
    /\ emit[t] = "payload"
    /\ streamOk
    /\ wire' = Append(wire, [part |-> "payload", env |-> out[t]])
    /\ sinkOwner' = None
    /\ EndEmit(t)
    /\ UNCHANGED <<mainVars, mapVars, workVars, healthy, streamOk>>

\* Mutant of WriteFails: a failed write is tried again.
BugRetryWrite(t) ==
    /\ emit[t] \in {"header", "payload"}
    /\ streamOk' = FALSE
    /\ sinkOwner' = None
    /\ emit' = [emit EXCEPT ![t] = "lock"]
    /\ UNCHANGED <<mainVars, mapVars, workVars, out, healthy, wire>>

\* A stream error at either write.  badbit is sticky: no later write succeeds.
WriteFails(t) ==
    /\ emit[t] \in {"header", "payload"}
    /\ streamOk' = FALSE
    /\ sinkOwner' = None
    /\ emit' = [emit EXCEPT ![t] = "failed"]
    /\ UNCHANGED <<mainVars, mapVars, workVars, out, healthy, wire>>

\* write_frame turns down an empty or oversized frame before any byte: one with
\* contents of the executor's or the request's own.
RefuseFrame(t) ==
    /\ emit[t] = "header"
    /\ out[t].code \in {"result", "progress", "invalid_request"}
    /\ sinkOwner' = None
    /\ emit' = [emit EXCEPT ![t] = "failed"]
    /\ UNCHANGED <<mainVars, mapVars, workVars, out, healthy, streamOk, wire>>

\* output_healthy.store(false), after the lock is gone.
MarkUnhealthy(t) ==
    /\ emit[t] = "failed"
    /\ healthy' = FALSE
    /\ emit' = [emit EXCEPT ![t] = "stop_all"]
    /\ UNCHANGED <<mainVars, mapVars, workVars, out, sinkOwner, streamOk, wire>>

\* Mutant of RequestStopAll: only the thread whose write failed is stopped.
BugStopSelf(t) ==
    /\ emit[t] = "stop_all"
    /\ stop' = [j \in Jobs |-> stop[j] \/ j = t]
    /\ EndEmit(t)
    /\ UNCHANGED <<mainVars, jobs, joining, workVars, sinkVars>>

\* request_stop_all: the jobs in the map at this moment.
RequestStopAll(t) ==
    /\ emit[t] = "stop_all"
    /\ stop' = [j \in Jobs |-> stop[j] \/ j \in Mapped]
    /\ EndEmit(t)
    /\ UNCHANGED <<mainVars, jobs, joining, workVars, sinkVars>>

Emit(t) ==
    \/ EmitCheck(t) \/ EmitLock(t)
    \/ WriteHeader(t) \/ WritePayload(t)
    \/ WriteFails(t) \/ RefuseFrame(t)
    \/ MarkUnhealthy(t) \/ RequestStopAll(t)

-----------------------------------------------------------------------------
(* A worker thread                                                          *)

\* Mutant of ReportProgress: the callback outlives the executor's return.
BugRetainedProgress(j) ==
    /\ wpc[j] \in {"run", "reply"} /\ emit[j] = "idle"
    /\ ~stop[j]
    /\ reported[j] < MaxProgress
    /\ reported' = [reported EXCEPT ![j] = @ + 1]
    /\ BeginEmit(j, Envelope(j, idOf[j], "progress"))
    /\ UNCHANGED <<mainVars, mapVars, idOf, wpc, sinkVars>>

\* The progress callback, on a job not asked to stop (else it returns at once).
ReportProgress(j) ==
    /\ wpc[j] = "run" /\ emit[j] = "idle"
    /\ ~stop[j]
    /\ reported[j] < MaxProgress
    /\ reported' = [reported EXCEPT ![j] = @ + 1]
    /\ BeginEmit(j, Envelope(j, idOf[j], "progress"))
    /\ UNCHANGED <<mainVars, mapVars, idOf, wpc, sinkVars>>

\* executor(request, stop, progress) returns or throws.
ExecutorReturns(j) ==
    /\ wpc[j] = "run" /\ emit[j] = "idle"
    /\ \E e \in ExecutorReplies(j) : out' = [out EXCEPT ![j] = e]
    /\ wpc' = [wpc EXCEPT ![j] = "returned"]
    /\ UNCHANGED <<mainVars, mapVars, idOf, reported, sinkVars, emit>>

\* Mutants of SendReply: a late stop is not looked at; a stopped job ends
\* without an answer; completion is published before the answer is sent.
BugIgnoreStop(j) ==
    /\ wpc[j] = "returned"
    /\ BeginEmit(j, out[j])
    /\ wpc' = [wpc EXCEPT ![j] = "reply"]
    /\ UNCHANGED <<mainVars, mapVars, idOf, reported, sinkVars>>

BugSilentStop(j) ==
    /\ wpc[j] = "returned"
    /\ IF stop[j] THEN EndEmit(j) ELSE BeginEmit(j, out[j])
    /\ wpc' = [wpc EXCEPT ![j] = "reply"]
    /\ UNCHANGED <<mainVars, mapVars, idOf, reported, sinkVars>>

BugCompleteFirst(j) ==
    /\ wpc[j] = "returned"
    /\ BeginEmit(j, out[j])
    /\ wpc' = [wpc EXCEPT ![j] = "done"]
    /\ UNCHANGED <<mainVars, mapVars, idOf, reported, sinkVars>>

\* A stop requested by now replaces whatever the executor returned.
SendReply(j) ==
    /\ wpc[j] = "returned"
    /\ BeginEmit(j, IF stop[j] THEN Envelope(j, idOf[j], "request_cancelled")
                               ELSE out[j])
    /\ wpc' = [wpc EXCEPT ![j] = "reply"]
    /\ UNCHANGED <<mainVars, mapVars, idOf, reported, sinkVars>>

\* job->complete.store(true): the worker's last step.
Complete(j) ==
    /\ wpc[j] = "reply" /\ emit[j] = "idle"
    /\ wpc' = [wpc EXCEPT ![j] = "done"]
    /\ UNCHANGED <<mainVars, mapVars, idOf, reported, sinkVars, emitVars>>

Worker(j) == SendReply(j) \/ Complete(j)

-----------------------------------------------------------------------------
(* main(): read a frame, accept() it, test output_ok()                      *)

ReadFrame ==
    /\ mpc = "read" /\ frames > 0
    /\ \E m \in Messages : msg' = m
    /\ frames' = frames - 1
    /\ mpc' = "accept"
    /\ UNCHANGED <<exit, accepting, mapVars, workVars, sinkVars, emitVars>>

\* Mutant of ReadBadFrame: an exit value the supervisor does not know.
BugReturnOne ==
    /\ mpc = "read"
    /\ exit' = 1
    /\ mpc' = "destroy"
    /\ UNCHANGED <<frames, msg, accepting, mapVars, workVars, sinkVars, emitVars>>

\* A truncated, empty or oversized frame: return 2.
ReadBadFrame ==
    /\ mpc = "read"
    /\ exit' = 2
    /\ mpc' = "destroy"
    /\ UNCHANGED <<frames, msg, accepting, mapVars, workVars, sinkVars, emitVars>>

\* accept()'s gate: a closed session or a dead output ignores the message.
IgnoreMessage ==
    /\ mpc = "accept"
    /\ ~accepting \/ ~healthy
    /\ msg' = None
    /\ mpc' = "check"
    /\ UNCHANGED <<frames, exit, accepting, mapVars, workVars, sinkVars, emitVars>>

\* Mutant of ReapCompleted: a complete job is forgotten without a join.
BugReapWithoutJoin ==
    /\ mpc = "accept"
    /\ accepting /\ healthy
    /\ jobs' = [i \in Ids |-> IF jobs[i] \in Completed THEN None ELSE jobs[i]]
    /\ mpc' = "dispatch"
    /\ UNCHANGED <<frames, msg, exit, accepting, joining, stop, workVars,
                   sinkVars, emitVars>>

\* reap_completed: complete jobs leave the map and their threads are joined.
ReapCompleted ==
    /\ mpc = "accept"
    /\ accepting /\ healthy
    /\ jobs' = [i \in Ids |-> IF jobs[i] \in Completed THEN None ELSE jobs[i]]
    /\ wpc' = [j \in Jobs |-> IF wpc[j] = "done" /\ j \in Mapped
                              THEN "joined" ELSE wpc[j]]
    /\ mpc' = "dispatch"
    /\ UNCHANGED <<frames, msg, exit, accepting, joining, stop, idOf, reported,
                   sinkVars, emitVars>>

\* accept() answers the message itself, on the reader thread.
Reject(code) ==
    /\ BeginEmit(Main, Envelope(Main, msg.id, code))
    /\ msg' = None
    /\ mpc' = "emit"
    /\ UNCHANGED <<frames, exit, accepting, mapVars, workVars, sinkVars>>

RejectMessage ==
    /\ mpc = "dispatch"
    /\ \/ msg.kind = "unparsable" /\ Reject("invalid_json")
       \/ msg.kind \in {"anonymous", "bad_cancel"} /\ Reject("invalid_request")

RejectDuplicate ==
    /\ mpc = "dispatch" /\ msg.kind = "request"
    /\ jobs[msg.id] # None
    /\ Reject("duplicate_request")

\* A valid cancellation stops the job if it is known and not complete.
CancelJob ==
    /\ mpc = "dispatch" /\ msg.kind = "cancel"
    /\ stop' = [j \in Jobs |-> stop[j] \/ (jobs[msg.id] = j /\ j \notin Completed)]
    /\ msg' = None
    /\ mpc' = "check"
    /\ UNCHANGED <<frames, exit, accepting, jobs, joining, workVars, sinkVars, emitVars>>

\* Mutant of StartJob: the id is not looked up first.
BugNoDuplicateCheck(j) ==
    /\ mpc = "dispatch" /\ msg.kind = "request"
    /\ wpc[j] = "new"
    /\ jobs' = [jobs EXCEPT ![msg.id] = j]
    /\ idOf' = [idOf EXCEPT ![j] = msg.id]
    /\ wpc' = [wpc EXCEPT ![j] = "run"]
    /\ msg' = None
    /\ mpc' = "check"
    /\ UNCHANGED <<frames, exit, accepting, joining, stop, reported, sinkVars, emitVars>>

\* A fresh id: register the job and start its thread.
StartJob(j) ==
    /\ mpc = "dispatch" /\ msg.kind = "request"
    /\ jobs[msg.id] = None
    /\ wpc[j] = "new"
    /\ jobs' = [jobs EXCEPT ![msg.id] = j]
    /\ idOf' = [idOf EXCEPT ![j] = msg.id]
    /\ wpc' = [wpc EXCEPT ![j] = "run"]
    /\ msg' = None
    /\ mpc' = "check"
    /\ UNCHANGED <<frames, exit, accepting, joining, stop, reported, sinkVars, emitVars>>

\* std::thread throws: the registration is undone in the same section.
StartFails ==
    /\ mpc = "dispatch" /\ msg.kind = "request"
    /\ jobs[msg.id] = None
    /\ Reject("engine_busy")

\* The reader's own emit() has returned.
RejectionSent ==
    /\ mpc = "emit" /\ emit[Main] = "idle"
    /\ mpc' = "check"
    /\ UNCHANGED <<frames, msg, exit, accepting, mapVars, workVars, sinkVars, emitVars>>

\* output_ok(), else return 3.
CheckOutput ==
    /\ mpc = "check"
    /\ IF healthy THEN mpc' = "read" /\ UNCHANGED exit
                  ELSE mpc' = "destroy" /\ exit' = 3
    /\ UNCHANGED <<frames, msg, accepting, mapVars, workVars, sinkVars, emitVars>>

\* stop_and_join up to its first join.
StopAndJoin(cancelActive) ==
    /\ accepting
    /\ accepting' = FALSE
    /\ stop' = [j \in Jobs |-> stop[j] \/ (cancelActive /\ j \in Mapped)]
    /\ joining' = Mapped
    /\ jobs' = [i \in Ids |-> None]
    /\ mpc' = "join"
    /\ UNCHANGED <<frames, msg, exit, workVars, sinkVars, emitVars>>

\* End of input: session.finish().
Finish == mpc = "read" /\ StopAndJoin(FALSE)

\* Mutant of Destroy: leaving the loop only waits.
BugDestroyWaits == mpc = "destroy" /\ StopAndJoin(FALSE)

\* ~EngineSession on a return from inside the loop: shutdown().
Destroy == mpc = "destroy" /\ StopAndJoin(TRUE)

\* The joins, then the exit value.  After finish() it comes from output_ok(),
\* which nobody can change any more, and the destructor finds accepting false.
Join ==
    /\ mpc = "join"
    /\ joining \subseteq Completed
    /\ wpc' = [j \in Jobs |-> IF j \in joining THEN "joined" ELSE wpc[j]]
    /\ joining' = {}
    /\ exit' = IF exit # None THEN exit ELSE IF healthy THEN 0 ELSE 3
    /\ mpc' = "exited"
    /\ UNCHANGED <<frames, msg, accepting, jobs, stop, idOf, reported, sinkVars, emitVars>>

\* What main() does by itself once it has a frame or has left the loop.
MainInternal ==
    \/ IgnoreMessage \/ ReapCompleted
    \/ RejectMessage \/ RejectDuplicate \/ CancelJob
    \/ (\E j \in Jobs : StartJob(j)) \/ StartFails
    \/ RejectionSent \/ CheckOutput
    \/ Destroy \/ Join

\* The process is gone.
Terminated == mpc = "exited" /\ UNCHANGED vars

Next ==
    \/ \E t \in Threads : Emit(t)
    \/ \E j \in Jobs : ReportProgress(j) \/ ExecutorReturns(j) \/ Worker(j)
    \/ ReadFrame \/ ReadBadFrame \/ Finish
    \/ MainInternal
    \/ Terminated

Spec == Init /\ [][Next]_vars

\* Every thread that can run does: sink writes return (the peer drains stdout
\* or the write fails) and sink_mutex is handed on.  Nothing obliges the peer
\* to send, to close its end, or an executor to return.
Fairness ==
    /\ \A t \in Threads : WF_vars(Emit(t))
    /\ \A j \in Jobs : WF_vars(Worker(j))
    /\ WF_vars(MainInternal)

\* Executors that may run forever but observe their stop token (session.hpp).
CooperativeSpec ==
    Spec /\ Fairness /\ \A j \in Jobs : WF_vars(stop[j] /\ ExecutorReturns(j))

-----------------------------------------------------------------------------
(* Properties                                                               *)

Started == {j \in Jobs : wpc[j] # "new"}
Live    == Started \ Completed

\* Position i of the wire ends job j's terminal answer.
IsAnswer(i, j) ==
    /\ wire[i].part = "payload"
    /\ wire[i].env.from = j
    /\ wire[i].env.code \in TerminalCodes

Answered(j) == \E i \in 1..Len(wire) : IsAnswer(i, j)

\* Every variable holds a value of its kind.
TypeOK ==
    /\ frames \in 0..MaxFrames
    /\ mpc \in {"read", "accept", "dispatch", "emit", "check",
                "destroy", "join", "exited"}
    /\ msg \in Messages \cup {None}
    /\ exit \in {None, 0, 2, 3}
    /\ accepting \in BOOLEAN
    /\ jobs \in [Ids -> Jobs \cup {None}]
    /\ joining \subseteq Jobs
    /\ idOf \in [Jobs -> Ids \cup {None}]
    /\ wpc \in [Jobs -> {"new", "run", "returned", "reply", "done", "joined"}]
    /\ stop \in [Jobs -> BOOLEAN]
    /\ reported \in [Jobs -> 0..MaxProgress]
    /\ emit \in [Threads -> {"idle", "check", "lock", "header", "payload",
                             "failed", "stop_all"}]
    /\ out \in [Threads -> Envelopes \cup {None}]
    /\ healthy \in BOOLEAN
    /\ sinkOwner \in Threads \cup {None}
    /\ streamOk \in BOOLEAN
    /\ wire \in Seq(Chunks)

\* The bytes of two frames never interleave, even when answers finish out of
\* order and even after a frame was cut short (protocol/README.md:37-39): a
\* header is followed by its own payload, or by nothing at all.
FramesNeverInterleave ==
    \A i \in 1..Len(wire) :
        /\ wire[i].part = "payload" => i > 1 /\ wire[i - 1].part = "header"
        /\ wire[i].part = "header" /\ i < Len(wire) =>
               wire[i + 1] = [part |-> "payload", env |-> wire[i].env]

\* A request completes once, with a response or an error, and neither progress
\* nor a second answer follows it.
TerminalIsLast ==
    \A j \in Jobs : \A i, k \in 1..Len(wire) :
        IsAnswer(i, j) /\ i < k => wire[k].env.from # j

\* Two workers never work under one request id, so an answer has one addressee.
InFlightUnique ==
    \A j, k \in Live : idOf[j] = idOf[k] => j = k

\* main() does not return while a worker can still touch the session: every
\* thread ever started has been joined, whichever way the loop was left.
NoWorkerOutlivesSession ==
    mpc = "exited" => \A j \in Started : wpc[j] = "joined"

\* Exit value 0 tells the supervisor that every request the session accepted
\* was answered and that stdout ends on a frame boundary.
ExitZeroMeansDrained ==
    exit = 0 =>
        /\ \A j \in Started : Answered(j)
        /\ wire # <<>> => wire[Len(wire)].part = "payload"

\* While the session accepts input, an output failure asks every unfinished
\* worker to stop: none was forgotten by the map.
StopAllReachesAccepted ==
    [][\A t \in Threads :
        accepting /\ emit[t] = "stop_all" /\ emit'[t] = "idle" =>
            \A j \in Live : stop'[j]]_vars

\* Once a running job has been asked to stop, its executor's own answer is
\* never sent, however it raced with the cancellation.
CancelIsFinal ==
    \A j \in Jobs :
        [](wpc[j] = "run" /\ stop[j] =>
            [](\A i \in 1..Len(wire) :
                 IsAnswer(i, j) => wire[i].env.code = "request_cancelled"))

\* A request whose executor returned is answered, whatever became of the session
\* meanwhile, unless the output is declared dead.
EventuallyAnswered ==
    \A j \in Jobs : wpc[j] = "returned" ~> (Answered(j) \/ ~healthy)

\* After stdin closed, the process ends as soon as its executors have returned
\* (handle_message always does), also when the output fails during the drain.
FinishTerminates ==
    (mpc = "join" /\ \A j \in joining : wpc[j] # "run") ~> mpc = "exited"

\* Leaving the loop on a framing or output error ends the process although
\* executors only ever return when asked to.
ShutdownTerminates == mpc = "destroy" ~> mpc = "exited"

\* A cancellation that finds its job running is answered by request_cancelled.
CancelTakesEffect ==
    \A j \in Jobs :
        wpc[j] = "run" /\ stop[j] ~>
            \/ ~healthy
            \/ \E i \in 1..Len(wire) :
                   IsAnswer(i, j) /\ wire[i].env.code = "request_cancelled"

-----------------------------------------------------------------------------
(* The promise this process keeps (SessionPromise)                          *)

\* A worker on its way from its decision to the end of its emit().
Sending(j) == wpc[j] = "reply" /\ emit[j] # "idle"

PhaseOf(j) ==
    CASE wpc[j] = "new"                 -> "new"
      [] wpc[j] \in {"run", "returned"} -> "open"
      [] Sending(j)                     -> "decided"
      [] OTHER                          -> IF Answered(j) THEN "told" ELSE "lost"

VerdictOf(j) == IF Sending(j) THEN out[j].code ELSE None

Heard(j) == {wire[i].env.code : i \in {i \in 1..Len(wire) : IsAnswer(i, j)}}

Promise == INSTANCE SessionPromise WITH
    phase   <- [j \in Jobs |-> PhaseOf(j)],
    verdict <- [j \in Jobs |-> VerdictOf(j)],
    heard   <- [j \in Jobs |-> Heard(j)],
    stopped <- {j \in Jobs : stop[j]},
    alive   <- healthy,
    ended   <- IF mpc = "exited" THEN exit ELSE None

\* Whatever its threads, its job map and its sink do, from outside the sidecar
\* looks like SessionPromise.  This needs the reply and the stop test to be one
\* step, completion to come after the answer, and the lookup to see every job.
KeepsItsWord == Promise!Spec

\* request_cancelled is only said of a job that was asked to stop, by its peer or
\* by a failing session; and no request is answered in two ways.
AnswersAreHonest ==
    \A j \in Jobs : \A i, k \in 1..Len(wire) :
        IsAnswer(i, j) /\ IsAnswer(k, j) =>
            /\ wire[i].env.code = wire[k].env.code
            /\ wire[i].env.code = "request_cancelled" => stop[j]

-----------------------------------------------------------------------------
(* Claims of the repository that the code does not keep                     *)

\* session.hpp:12: an output failure cancels the in-flight work, at any time and
\* also that of the threads whose output did not fail.
OutputFailureCancelsInFlight ==
    [][\A t \in Threads :
        emit[t] = "stop_all" /\ emit'[t] = "idle" =>
            \A j \in Jobs \ {t} : wpc[j] = "run" => stop'[j]]_vars

\* protocol/README.md:24-26: a correlated message carries its request's id, and
\* a null id is for errors met before a valid id could be read.
AnswersAreCorrelated ==
    \A j \in Jobs : \A i \in 1..Len(wire) :
        wire[i].env.from = j => wire[i].env.id = idOf[j]
=============================================================================
