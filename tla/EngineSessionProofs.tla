------------------------ MODULE EngineSessionProofs ------------------------
(***************************************************************************)
(* Theorems about EngineSession, for any number of ids, jobs and frames.   *)
(* Each invariant is proved inductive relative to the ones before it.      *)
(***************************************************************************)
EXTENDS EngineSession, TLAPS

USE DEF Threads

-----------------------------------------------------------------------------
(* Type correctness                                                         *)

\* A thread inside emit(), or a worker that holds its executor's result, has
\* an envelope; accept() has a message until it is done with it; and a thread
\* calls emit() only where its code does.
Holds ==
    /\ \A t \in Threads : emit[t] # "idle" => out[t] \in Envelopes
    /\ \A j \in Jobs : emit[j] # "idle" => wpc[j] \in {"run", "reply"}
    /\ emit[Main] # "idle" => mpc = "emit"
    /\ \A j \in Jobs : wpc[j] = "returned" => out[j] \in Envelopes
    /\ \A j \in Jobs : wpc[j] # "new" => idOf[j] \in Ids
    /\ mpc \in {"accept", "dispatch"} => msg \in Messages

Typed == TypeOK /\ Holds

\* What each kind of envelope needs to be one.
LEMMA EnvelopeType ==
    ASSUME NEW t \in Threads, NEW i \in Ids \cup {None},
           NEW c \in RejectCodes \cup TerminalCodes \cup {"progress"}
    PROVE  Envelope(t, i, c) \in Envelopes
BY DEF Envelope, Envelopes

\* Messages that reach a job's bookkeeping carry a valid id.
LEMMA MessageType ==
    ASSUME NEW m \in Messages
    PROVE  /\ m.id \in Ids \cup {None}
           /\ m.kind \in {"cancel", "request"} => m.id \in Ids
BY DEF Messages

LEMMA TypedInit == Init => Typed
BY SessionAssumption DEF Init, Typed, TypeOK, Holds

\* What a step of emit() can do, whichever step it is.
LEMMA EmitEffect ==
    ASSUME NEW t \in Threads, Emit(t)
    PROVE  /\ emit[t] # "idle"
           /\ UNCHANGED <<mainVars, jobs, joining, workVars>>
           /\ stop' \in {stop, [j \in Jobs |-> stop[j] \/ j \in Mapped]}
           /\ \/ wire' = wire
              \/ \E p \in {"header", "payload"} :
                     wire' = Append(wire, [part |-> p, env |-> out[t]])
           /\ healthy' \in {healthy, FALSE} /\ streamOk' \in {streamOk, FALSE}
           /\ sinkOwner' \in {sinkOwner, t, None}
           /\ \/ /\ out' = out
                 /\ \E x \in {"lock", "header", "payload", "failed", "stop_all"} :
                        emit' = [emit EXCEPT ![t] = x]
              \/ /\ out' = [out EXCEPT ![t] = None]
                 /\ emit' = [emit EXCEPT ![t] = "idle"]
<1> USE DEF mainVars, mapVars, workVars, sinkVars, emitVars, EndEmit
<1>1. CASE EmitCheck(t)
  BY <1>1 DEF EmitCheck
<1>2. CASE EmitLock(t)
  BY <1>2 DEF EmitLock
<1>3. CASE WriteHeader(t)
  BY <1>3 DEF WriteHeader
<1>4. CASE WritePayload(t)
  BY <1>4 DEF WritePayload
<1>5. CASE WriteFails(t)
  BY <1>5 DEF WriteFails
<1>6. CASE RefuseFrame(t)
  BY <1>6 DEF RefuseFrame
<1>7. CASE MarkUnhealthy(t)
  BY <1>7 DEF MarkUnhealthy
<1>8. CASE RequestStopAll(t)
  BY <1>8 DEF RequestStopAll
<1> QED
  BY <1>1, <1>2, <1>3, <1>4, <1>5, <1>6, <1>7, <1>8 DEF Emit

LEMMA TypedEmit ==
    ASSUME Typed, NEW t \in Threads, Emit(t)
    PROVE  Typed'
<1> USE EmitEffect DEF Typed, mainVars, workVars
<1>1. out[t] \in Envelopes /\ (t \in Jobs => wpc[t] # "returned")
  BY DEF Holds
<1>2. stop' \in [Jobs -> BOOLEAN]
  <2>1. [j \in Jobs |-> stop[j] \/ j \in Mapped] \in [Jobs -> BOOLEAN]
    OBVIOUS
  <2> QED
    BY <2>1 DEF TypeOK
<1>3. wire' \in Seq(Chunks)
  <2>1. \A p \in {"header", "payload"} : [part |-> p, env |-> out[t]] \in Chunks
    BY <1>1 DEF Chunks
  <2>2. wire \in Seq(Chunks)
    BY DEF TypeOK
  <2>3. CASE wire' = wire
    BY <2>2, <2>3
  <2>4. CASE \E p \in {"header", "payload"} :
               wire' = Append(wire, [part |-> p, env |-> out[t]])
    BY <2>1, <2>2, <2>4
  <2> QED
    BY <2>3, <2>4
<1>4. /\ healthy' \in BOOLEAN /\ streamOk' \in BOOLEAN
      /\ sinkOwner' \in Threads \cup {None}
  BY DEF TypeOK
<1>5. /\ emit' \in [Threads -> {"idle", "check", "lock", "header", "payload",
                                "failed", "stop_all"}]
      /\ out' \in [Threads -> Envelopes \cup {None}]
  BY DEF TypeOK
<1>6. TypeOK'
  BY <1>2, <1>3, <1>4, <1>5 DEF TypeOK
<1>7. /\ emit \in [Threads -> {"idle", "check", "lock", "header", "payload",
                               "failed", "stop_all"}]
      /\ out \in [Threads -> Envelopes \cup {None}]
  BY DEF TypeOK
<1>8. \A u \in Threads : emit'[u] # "idle" => emit[u] # "idle" /\ out'[u] = out[u]
  BY <1>7
<1>9. \A j \in Jobs : wpc[j] = "returned" => out'[j] = out[j]
  BY <1>1, <1>7
<1>10. Holds'
  BY <1>8, <1>9 DEF Holds
<1> QED
  BY <1>6, <1>10

LEMMA TypedWorker ==
    ASSUME Typed, NEW j \in Jobs,
           ReportProgress(j) \/ ExecutorReturns(j) \/ Worker(j)
    PROVE  Typed'
<1> USE DEF Typed, TypeOK, Holds, mainVars, mapVars, workVars, sinkVars,
            emitVars, BeginEmit
<1>0. j # Main /\ j \in Threads
  BY SessionAssumption
<1>1. CASE ReportProgress(j)
  <2>1. Envelope(j, idOf[j], "progress") \in Envelopes
    BY <1>1, <1>0, EnvelopeType DEF ReportProgress
  <2>2. reported' \in [Jobs -> 0..MaxProgress]
    BY <1>1, SessionAssumption DEF ReportProgress
  <2> QED
    BY <1>0, <1>1, <2>1, <2>2 DEF ReportProgress
<1>2. CASE ExecutorReturns(j)
  <2>1. ExecutorReplies(j) \subseteq Envelopes
    <3>1. idOf[j] \in Ids
      BY <1>2 DEF ExecutorReturns
    <3>2. /\ \A c \in TerminalCodes : Envelope(j, idOf[j], c) \in Envelopes
          /\ \A c \in TerminalCodes : Envelope(j, None, c) \in Envelopes
      BY <1>0, <3>1, EnvelopeType
    <3> QED
      BY <3>2 DEF ExecutorReplies, TerminalCodes
  <2> QED
    BY <1>0, <1>2, <2>1 DEF ExecutorReturns
<1>3. CASE SendReply(j)
  <2>1. /\ Envelope(j, idOf[j], "request_cancelled") \in Envelopes
        /\ out[j] \in Envelopes
    BY <1>0, <1>3, EnvelopeType DEF SendReply, TerminalCodes
  <2> QED
    BY <1>0, <1>3, <2>1 DEF SendReply
<1>4. CASE Complete(j)
  BY <1>0, <1>4 DEF Complete
<1> QED
  BY <1>1, <1>2, <1>3, <1>4 DEF Worker

\* The reader's own steps, inputs included.
MainStep == ReadFrame \/ ReadBadFrame \/ Finish \/ MainInternal

\* Reject is the only way the reader enters emit().
LEMMA TypedReject ==
    ASSUME Typed, mpc = "dispatch", NEW c \in RejectCodes, Reject(c)
    PROVE  Typed'
<1> USE DEF Typed, Reject, BeginEmit, mapVars, workVars, sinkVars
<1>1. Main \in Threads /\ Main \notin Jobs
  BY SessionAssumption
<1>2. Envelope(Main, msg.id, c) \in Envelopes
  BY <1>1, MessageType, EnvelopeType DEF Holds
<1>3. TypeOK'
  BY <1>2 DEF TypeOK
<1>4. Holds'
  BY <1>1, <1>2 DEF TypeOK, Holds
<1> QED
  BY <1>3, <1>4

LEMMA TypedMain ==
    ASSUME Typed, MainStep
    PROVE  Typed'
<1> USE DEF Typed, TypeOK, Holds, mapVars, workVars, sinkVars, emitVars
<1>1. CASE ReadFrame
  BY <1>1, SessionAssumption DEF ReadFrame
<1>2. CASE ReadBadFrame
  BY <1>2 DEF ReadBadFrame
<1>3. CASE IgnoreMessage
  BY <1>3 DEF IgnoreMessage
<1>4. CASE ReapCompleted
  BY <1>4 DEF ReapCompleted
<1>5. CASE RejectMessage
  BY <1>5, TypedReject DEF RejectMessage, RejectCodes
<1>6. CASE RejectDuplicate
  BY <1>6, TypedReject DEF RejectDuplicate, RejectCodes
<1>7. CASE CancelJob
  <2>1. [j \in Jobs |-> stop[j] \/ (jobs[msg.id] = j /\ j \notin Completed)]
            \in [Jobs -> BOOLEAN]
    OBVIOUS
  <2> QED
    BY <1>7, <2>1 DEF CancelJob
<1>8. CASE \E j \in Jobs : StartJob(j)
  <2>1. PICK j \in Jobs : StartJob(j)
    BY <1>8
  <2>2. msg.id \in Ids
    BY <2>1, MessageType DEF StartJob
  <2> QED
    BY <2>1, <2>2 DEF StartJob
<1>9. CASE StartFails
  BY <1>9, TypedReject DEF StartFails, RejectCodes
<1>10. CASE RejectionSent
  BY <1>10 DEF RejectionSent
<1>11. CASE CheckOutput
  BY <1>11 DEF CheckOutput
<1>12. ASSUME NEW b \in BOOLEAN, StopAndJoin(b), mpc \in {"read", "destroy"}
       PROVE  Typed'
  <2>1. [j \in Jobs |-> stop[j] \/ (b /\ j \in Mapped)] \in [Jobs -> BOOLEAN]
    OBVIOUS
  <2>2. Mapped \subseteq Jobs
    BY DEF Mapped
  <2> QED
    BY <1>12, <2>1, <2>2 DEF StopAndJoin
<1>13. CASE Finish
  BY <1>12, <1>13 DEF Finish
<1>14. CASE Destroy
  BY <1>12, <1>14 DEF Destroy
<1>15. CASE Join
  BY <1>15, SessionAssumption DEF Join, Completed
<1> QED
  BY <1>1, <1>2, <1>3, <1>4, <1>5, <1>6, <1>7, <1>8, <1>9, <1>10, <1>11,
     <1>13, <1>14, <1>15 DEF MainStep, MainInternal

LEMMA TypedStep ==
    ASSUME Typed, [Next]_vars
    PROVE  Typed'
<1>1. CASE UNCHANGED vars
  BY <1>1 DEF vars, mainVars, mapVars, workVars, sinkVars, emitVars,
              Typed, TypeOK, Holds
<1>2. CASE Next
  BY <1>1, <1>2, TypedEmit, TypedWorker, TypedMain DEF Next, MainStep, Terminated
<1> QED
  BY <1>1, <1>2

\* Every variable keeps a value of its kind, and no thread hands emit() or the
\* job map something it does not hold.
THEOREM TypeCorrect == Spec => []TypeOK
<1>1. Spec => []Typed
  BY TypedInit, TypedStep, PTL DEF Spec
<1>2. Typed => TypeOK
  BY DEF Typed
<1> QED
  BY <1>1, <1>2, PTL

-----------------------------------------------------------------------------
(* The job map: no two workers under one id, none outlives the session      *)

Busy == {j \in Jobs : wpc[j] \notin {"new", "joined"}}

\* While the session accepts, the map holds exactly the threads not yet joined,
\* each under its own id; afterwards `joining` holds them.
Bookkeeping ==
    /\ \A i \in Ids : jobs[i] # None => idOf[jobs[i]] = i /\ jobs[i] \in Busy
    /\ accepting => \A j \in Busy : jobs[idOf[j]] = j
    /\ accepting <=> mpc \notin {"join", "exited"}
    /\ mpc = "join" => Busy \subseteq joining
    /\ mpc = "exited" => Busy = {}
    /\ ~accepting => \A i \in Ids : jobs[i] = None
    /\ \A j, k \in Busy : idOf[j] = idOf[k] => j = k

LEMMA BookkeepingInit == Init => Bookkeeping
BY SessionAssumption DEF Init, Bookkeeping, Busy

\* Steps that start and join no thread and leave the map alone.
LEMMA BookkeepingFrame ==
    ASSUME Typed, Bookkeeping, UNCHANGED <<jobs, joining, idOf, accepting>>,
           mpc' # mpc => {mpc, mpc'} \cap {"join", "exited"} = {},
           \A j \in Jobs : (j \in Busy)' <=> j \in Busy
    PROVE  Bookkeeping'
<1>1. Busy' = Busy
  BY DEF Busy
<1> QED
  BY <1>1 DEF Bookkeeping

LEMMA BookkeepingWorker ==
    ASSUME Typed, Bookkeeping, NEW j \in Jobs,
           ReportProgress(j) \/ ExecutorReturns(j) \/ Worker(j)
    PROVE  Bookkeeping'
<1>1. UNCHANGED <<jobs, joining, idOf, accepting, mpc>>
  BY DEF ReportProgress, ExecutorReturns, Worker, SendReply, Complete,
         mainVars, mapVars
<1>2. \A k \in Jobs : (k \in Busy)' <=> k \in Busy
  BY DEF ReportProgress, ExecutorReturns, Worker, SendReply, Complete, Busy,
         Typed, TypeOK
<1> QED
  BY <1>1, <1>2, BookkeepingFrame

LEMMA BookkeepingMain ==
    ASSUME Typed, Bookkeeping, MainStep
    PROVE  Bookkeeping'
<1> USE DEF mapVars, workVars, sinkVars, emitVars
<1>a. ASSUME UNCHANGED <<jobs, joining, workVars, accepting>>,
             mpc \notin {"join", "exited"}, mpc' \notin {"join", "exited"}
      PROVE  Bookkeeping'
  BY <1>a, BookkeepingFrame DEF Busy
<1>1. CASE ReadFrame
  BY <1>1, <1>a DEF ReadFrame
<1>2. CASE ReadBadFrame
  BY <1>2, <1>a DEF ReadBadFrame
<1>3. CASE IgnoreMessage
  BY <1>3, <1>a DEF IgnoreMessage
<1>4. CASE ReapCompleted
  <2>1. Busy' = Busy \ {j \in Jobs : wpc[j] = "done" /\ j \in Mapped}
    BY <1>4 DEF ReapCompleted, Busy, Typed, TypeOK
  <2>2. \A j \in Busy : j \in Mapped /\ idOf[j] \in Ids /\ jobs[idOf[j]] = j
    BY <1>4, SessionAssumption
       DEF ReapCompleted, Busy, Mapped, Bookkeeping, Typed, TypeOK, Holds
  <2>3. \A i \in Ids : jobs'[i] # None => jobs'[i] = jobs[i] /\ jobs[i] \in Busy'
    BY <1>4, <2>1 DEF ReapCompleted, Completed, Bookkeeping
  <2>4. \A j \in Busy' : jobs'[idOf[j]] = j
    BY <1>4, <2>1, <2>2 DEF ReapCompleted, Completed, Busy
  <2> QED
    BY <1>4, <2>1, <2>3, <2>4 DEF ReapCompleted, Bookkeeping
<1>5. CASE RejectMessage
  BY <1>5, <1>a DEF RejectMessage, Reject
<1>6. CASE RejectDuplicate
  BY <1>6, <1>a DEF RejectDuplicate, Reject
<1>7. CASE CancelJob
  BY <1>7, <1>a DEF CancelJob
<1>8. CASE \E j \in Jobs : StartJob(j)
  <2>1. PICK j \in Jobs : StartJob(j)
    BY <1>8
  <2>2. msg.id \in Ids
    BY <2>1, MessageType DEF StartJob, Typed, Holds
  <2>3. /\ Busy' = Busy \cup {j} /\ j \notin Busy /\ accepting
        /\ \A k \in Busy : idOf'[k] = idOf[k] /\ idOf[k] # msg.id /\ idOf[k] \in Ids
        /\ idOf'[j] = msg.id
    BY <2>1, <2>2, SessionAssumption
       DEF StartJob, Busy, Bookkeeping, Typed, TypeOK, Holds
  <2>4. jobs' = [jobs EXCEPT ![msg.id] = j] /\ UNCHANGED accepting /\ mpc' = "check"
    BY <2>1 DEF StartJob
  <2>5. \A i \in Ids : jobs'[i] # None => idOf'[jobs'[i]] = i /\ jobs'[i] \in Busy'
    BY <2>2, <2>3, <2>4 DEF Bookkeeping, Typed, TypeOK
  <2>6. \A k \in Busy' : jobs'[idOf'[k]] = k
    BY <2>2, <2>3, <2>4 DEF Bookkeeping, Typed, TypeOK
  <2>7. \A k, l \in Busy' : idOf'[k] = idOf'[l] => k = l
    BY <2>3 DEF Bookkeeping
  <2> QED
    BY <2>3, <2>4, <2>5, <2>6, <2>7 DEF Bookkeeping
<1>9. CASE StartFails
  BY <1>9, <1>a DEF StartFails, Reject
<1>10. CASE RejectionSent
  BY <1>10, <1>a DEF RejectionSent
<1>11. CASE CheckOutput
  BY <1>11, <1>a DEF CheckOutput
<1>12. ASSUME NEW b \in BOOLEAN, StopAndJoin(b)
       PROVE  Bookkeeping'
  <2>1. Busy' = Busy /\ Busy \subseteq Mapped
    BY <1>12, SessionAssumption
       DEF StopAndJoin, Busy, Mapped, Bookkeeping, Typed, TypeOK, Holds
  <2> QED
    BY <1>12, <2>1 DEF StopAndJoin, Bookkeeping
<1>13. CASE Finish
  BY <1>12, <1>13 DEF Finish
<1>14. CASE Destroy
  BY <1>12, <1>14 DEF Destroy
<1>15. CASE Join
  <2>1. Busy' = {}
    BY <1>15 DEF Join, Busy, Bookkeeping, Typed, TypeOK
  <2>2. \A i \in Ids : jobs[i] = None
    BY <1>15 DEF Join, Bookkeeping
  <2> QED
    BY <1>15, <2>1, <2>2 DEF Join, Bookkeeping
<1> QED
  BY <1>1, <1>2, <1>3, <1>4, <1>5, <1>6, <1>7, <1>8, <1>9, <1>10, <1>11,
     <1>13, <1>14, <1>15 DEF MainStep, MainInternal

LEMMA BookkeepingStep ==
    ASSUME Typed, Bookkeeping, [Next]_vars
    PROVE  Bookkeeping'
<1>1. CASE UNCHANGED vars
  BY <1>1, BookkeepingFrame DEF vars, mainVars, mapVars, workVars, Busy
<1>2. ASSUME NEW t \in Threads, Emit(t)
      PROVE  Bookkeeping'
  BY <1>2, EmitEffect, BookkeepingFrame DEF mainVars, workVars, Busy
<1>3. CASE Next
  BY <1>1, <1>2, <1>3, BookkeepingWorker, BookkeepingMain
     DEF Next, MainStep, Terminated
<1> QED
  BY <1>1, <1>3

-----------------------------------------------------------------------------
(* The sink: frames never interleave                                        *)

LastChunk == wire[Len(wire)]

\* The lock owner is the one thread between its two writes; an unfinished frame
\* is the owner's, unless the stream is broken, and then somebody is about to
\* say so.
SinkDiscipline ==
    /\ \A t \in Threads : emit[t] \in {"header", "payload"} <=> sinkOwner = t
    /\ \A t \in Threads : emit[t] = "payload" =>
           wire # <<>> /\ LastChunk = [part |-> "header", env |-> out[t]]
    /\ streamOk /\ wire # <<>> /\ LastChunk.part = "header" =>
           \E t \in Threads : emit[t] = "payload"
    /\ streamOk \/ ~healthy \/ \E t \in Threads : emit[t] = "failed"
    /\ \A t \in Threads : emit[t] = "stop_all" => ~healthy

Sink == SinkDiscipline /\ FramesNeverInterleave

LEMMA SinkInit == Init => Sink
BY SessionAssumption DEF Init, Sink, SinkDiscipline, FramesNeverInterleave

\* What one more chunk does to the wire.
LEMMA AppendWire ==
    ASSUME NEW w \in Seq(Chunks), NEW x \in Chunks
    PROVE  LET v == Append(w, x)
           IN  /\ Len(v) = Len(w) + 1 /\ Len(w) \in Nat /\ v # <<>>
               /\ v[Len(v)] = x
               /\ \A i \in 1..Len(w) : v[i] = w[i]
               /\ \A i \in 1..Len(v) : i \in 1..Len(w) \/ i = Len(w) + 1
               /\ w # <<>> => Len(w) \in 1..Len(w)
OBVIOUS

\* Steps that touch neither the sink nor a thread inside it.
LEMMA SinkFrame ==
    ASSUME Typed, Sink, UNCHANGED sinkVars,
           \A t \in Threads :
               /\ emit'[t] # emit[t] =>
                      {emit[t], emit'[t]} \subseteq {"idle", "check", "lock"}
               /\ emit[t] = "payload" => out'[t] = out[t]
    PROVE  Sink'
<1>1. FramesNeverInterleave'
  BY DEF Sink, FramesNeverInterleave, sinkVars
<1>2. SinkDiscipline'
  BY DEF Sink, SinkDiscipline, LastChunk, sinkVars
<1> QED
  BY <1>1, <1>2 DEF Sink

LEMMA SinkEmit ==
    ASSUME Typed, Sink, NEW t \in Threads, Emit(t)
    PROVE  Sink'
<1> USE DEF sinkVars
<1>t. /\ emit \in [Threads -> {"idle", "check", "lock", "header", "payload",
                               "failed", "stop_all"}]
      /\ out \in [Threads -> Envelopes \cup {None}]
      /\ wire \in Seq(Chunks)
      /\ emit[t] # "idle" => out[t] \in Envelopes
      /\ None \notin Threads
  BY SessionAssumption DEF Typed, TypeOK, Holds
<1>1. CASE EmitCheck(t)
  BY <1>1, <1>t, SinkFrame DEF EmitCheck, EndEmit
<1>2. CASE EmitLock(t)
  <2>1. SinkDiscipline'
    BY <1>2, <1>t DEF EmitLock, Sink, SinkDiscipline, LastChunk
  <2>2. FramesNeverInterleave'
    BY <1>2 DEF EmitLock, Sink, FramesNeverInterleave
  <2> QED
    BY <2>1, <2>2 DEF Sink
<1>3. CASE WriteHeader(t)
  <2> DEFINE x == [part |-> "header", env |-> out[t]]
  <2>1. /\ wire' = Append(wire, x) /\ streamOk /\ x \in Chunks
        /\ emit' = [emit EXCEPT ![t] = "payload"] /\ emit[t] = "header"
        /\ UNCHANGED <<out, healthy, sinkOwner, streamOk>>
    BY <1>3, <1>t DEF WriteHeader, Chunks
  <2>2. wire # <<>> => LastChunk.part # "header"
    BY <2>1, <1>t DEF Sink, SinkDiscipline
  <2>3. \A u \in Threads : emit'[u] = "payload" <=> u = t
    BY <2>1, <1>t DEF Sink, SinkDiscipline
  <2>4. wire' # <<>> /\ LastChunk' = x
    BY <2>1, <1>t, AppendWire DEF LastChunk
  <2>5. SinkDiscipline'
    BY <2>1, <2>3, <2>4, <1>t DEF Sink, SinkDiscipline
  <2>6. FramesNeverInterleave'
    BY <2>1, <2>2, <1>t, AppendWire
       DEF Sink, FramesNeverInterleave, LastChunk
  <2> QED
    BY <2>5, <2>6 DEF Sink
<1>4. CASE WritePayload(t)
  <2> DEFINE x == [part |-> "payload", env |-> out[t]]
  <2>1. /\ wire' = Append(wire, x) /\ x \in Chunks
        /\ emit' = [emit EXCEPT ![t] = "idle"] /\ emit[t] = "payload"
        /\ out' = [out EXCEPT ![t] = None] /\ sinkOwner' = None
        /\ UNCHANGED <<healthy, streamOk>>
    BY <1>4, <1>t DEF WritePayload, EndEmit, Chunks
  <2>2. wire # <<>> /\ LastChunk = [part |-> "header", env |-> out[t]]
    BY <2>1 DEF Sink, SinkDiscipline
  <2>3. \A u \in Threads : emit'[u] \notin {"header", "payload"}
    BY <2>1, <1>t DEF Sink, SinkDiscipline
  <2>4. LastChunk' = x
    BY <2>1, <1>t, AppendWire DEF LastChunk
  <2>5. SinkDiscipline'
    BY <2>1, <2>3, <2>4, <1>t DEF Sink, SinkDiscipline
  <2>6. FramesNeverInterleave'
    BY <2>1, <2>2, <1>t, AppendWire
       DEF Sink, FramesNeverInterleave, LastChunk
  <2> QED
    BY <2>5, <2>6 DEF Sink
<1>5. CASE WriteFails(t)
  <2>1. SinkDiscipline'
    BY <1>5, <1>t DEF WriteFails, Sink, SinkDiscipline, LastChunk
  <2>2. FramesNeverInterleave'
    BY <1>5 DEF WriteFails, Sink, FramesNeverInterleave
  <2> QED
    BY <2>1, <2>2 DEF Sink
<1>6. CASE RefuseFrame(t)
  <2>1. SinkDiscipline'
    BY <1>6, <1>t DEF RefuseFrame, Sink, SinkDiscipline, LastChunk
  <2>2. FramesNeverInterleave'
    BY <1>6 DEF RefuseFrame, Sink, FramesNeverInterleave
  <2> QED
    BY <2>1, <2>2 DEF Sink
<1>7. CASE MarkUnhealthy(t)
  <2>1. SinkDiscipline'
    BY <1>7, <1>t DEF MarkUnhealthy, Sink, SinkDiscipline, LastChunk
  <2>2. FramesNeverInterleave'
    BY <1>7 DEF MarkUnhealthy, Sink, FramesNeverInterleave
  <2> QED
    BY <2>1, <2>2 DEF Sink
<1>8. CASE RequestStopAll(t)
  <2>1. SinkDiscipline'
    BY <1>8, <1>t DEF RequestStopAll, EndEmit, Sink, SinkDiscipline, LastChunk
  <2>2. FramesNeverInterleave'
    BY <1>8 DEF RequestStopAll, Sink, FramesNeverInterleave
  <2> QED
    BY <2>1, <2>2 DEF Sink
<1> QED
  BY <1>1, <1>2, <1>3, <1>4, <1>5, <1>6, <1>7, <1>8 DEF Emit

\* Outside emit() a thread can at most enter it.
LEMMA EntersEmit ==
    ASSUME Typed,
           MainStep \/ \E j \in Jobs :
               ReportProgress(j) \/ ExecutorReturns(j) \/ Worker(j)
    PROVE  /\ UNCHANGED sinkVars
           /\ \A t \in Threads :
                  /\ emit'[t] # emit[t] =>
                         emit[t] = "idle" /\ emit'[t] = "check"
                  /\ emit[t] # "idle" => out'[t] = out[t]
<1> USE DEF sinkVars, emitVars, BeginEmit, Typed, TypeOK
<1>1. CASE MainStep
  <2>1. CASE \E c \in RejectCodes : mpc = "dispatch" /\ Reject(c)
    BY <2>1 DEF Reject, Holds
  <2> QED
    BY <1>1, <2>1 DEF MainStep, MainInternal, ReadFrame, ReadBadFrame, Finish,
         IgnoreMessage, ReapCompleted, RejectMessage, RejectDuplicate,
         CancelJob, StartJob, StartFails, RejectionSent, CheckOutput, Destroy,
         StopAndJoin, Join, RejectCodes
<1>2. ASSUME NEW j \in Jobs, ReportProgress(j) \/ ExecutorReturns(j) \/ Worker(j)
      PROVE  /\ UNCHANGED sinkVars
             /\ \A t \in Threads :
                    /\ emit'[t] # emit[t] =>
                           emit[t] = "idle" /\ emit'[t] = "check"
                    /\ emit[t] # "idle" => out'[t] = out[t]
  BY <1>2 DEF ReportProgress, ExecutorReturns, Worker, SendReply, Complete, Holds
<1> QED
  BY <1>1, <1>2

LEMMA SinkStep ==
    ASSUME Typed, Sink, [Next]_vars
    PROVE  Sink'
<1>1. CASE UNCHANGED vars
  BY <1>1, SinkFrame DEF vars, emitVars
<1>2. CASE Next
  BY <1>1, <1>2, SinkEmit, EntersEmit, SinkFrame DEF Next, MainStep, Terminated
<1> QED
  BY <1>1, <1>2

-----------------------------------------------------------------------------
(* Answers: one per request, the last thing a worker says                   *)

Replied(j) == (wpc[j] = "reply" /\ emit[j] = "idle") \/ j \in Completed

\* What a worker sends in each of its places, and what the wire shows of it.
AnswerDiscipline ==
    /\ \A t \in Threads : emit[t] # "idle" => out[t].from = t
    /\ \A j \in Jobs : wpc[j] = "returned" =>
           out[j].from = j /\ out[j].code \in TerminalCodes \ {"request_cancelled"}
    /\ \A j \in Jobs : Sending(j) => out[j].code \in TerminalCodes
    /\ \A j \in Jobs : wpc[j] = "run" /\ emit[j] # "idle" => out[j].code = "progress"
    /\ \A j \in Jobs : Answered(j) => Replied(j)
    /\ \A j \in Jobs : Replied(j) => Answered(j) \/ ~healthy
    /\ exit = 0 => mpc = "exited" /\ healthy
    /\ mpc \notin {"destroy", "join", "exited"} => exit = None

Answers == AnswerDiscipline /\ TerminalIsLast

LEMMA AnswersInit == Init => Answers
<1> SUFFICES ASSUME Init PROVE Answers
  OBVIOUS
<1>1. 1..Len(wire) = {}
  BY DEF Init
<1>2. TerminalIsLast /\ \A j \in Jobs : ~Answered(j)
  BY <1>1 DEF TerminalIsLast, Answered
<1>3. \A j \in Jobs : ~Replied(j) /\ ~Sending(j)
  BY DEF Init, Replied, Sending, Completed
<1>4. exit # 0 /\ mpc = "read" /\ exit = None
  BY SessionAssumption DEF Init
<1> QED
  BY <1>2, <1>3, <1>4, SessionAssumption DEF Init, Answers, AnswerDiscipline

\* The wire changes by one chunk of the thread that sends.
LEMMA AnsweredAppend ==
    ASSUME wire \in Seq(Chunks), NEW x \in Chunks, wire' = Append(wire, x),
           NEW j \in Jobs
    PROVE  Answered(j)' <=>
               \/ Answered(j)
               \/ /\ x.part = "payload" /\ x.env.from = j
                  /\ x.env.code \in TerminalCodes
<1> DEFINE new == x.part = "payload" /\ x.env.from = j
                      /\ x.env.code \in TerminalCodes
<1>1. \A i \in 1..Len(wire) : IsAnswer(i, j)' <=> IsAnswer(i, j)
  BY AppendWire DEF IsAnswer
<1>2. \A i \in {Len(wire) + 1} : IsAnswer(i, j)' <=> new
  <2>1. wire'[Len(wire) + 1] = x
    BY AppendWire
  <2> QED
    BY <2>1 DEF IsAnswer
<1>3. 1..Len(wire') = 1..Len(wire) \cup {Len(wire) + 1}
  BY AppendWire
<1> QED
  BY <1>1, <1>2, <1>3 DEF Answered

\* A thread that has not answered may write whatever it likes.
LEMMA TerminalIsLastAppend ==
    ASSUME wire \in Seq(Chunks), NEW x \in Chunks, wire' = Append(wire, x),
           TerminalIsLast, \A j \in Jobs : Answered(j) => x.env.from # j
    PROVE  TerminalIsLast'
<1> SUFFICES ASSUME NEW j \in Jobs, NEW i \in 1..Len(wire'), NEW k \in 1..Len(wire'),
                    IsAnswer(i, j)', i < k
             PROVE  wire'[k].env.from # j
  BY DEF TerminalIsLast
<1>1. i \in 1..Len(wire) /\ wire'[i] = wire[i]
  BY AppendWire
<1>2. IsAnswer(i, j) /\ Answered(j)
  BY <1>1 DEF IsAnswer, Answered
<1>3. CASE k \in 1..Len(wire)
  BY <1>1, <1>2, <1>3, AppendWire DEF TerminalIsLast
<1>4. CASE k = Len(wire) + 1
  BY <1>2, <1>4, AppendWire
<1> QED
  BY <1>3, <1>4, AppendWire

LEMMA AnswersEmit ==
    ASSUME Typed, Bookkeeping, Sink, Answers, NEW t \in Threads, Emit(t)
    PROVE  Answers'
<1> USE DEF Answers
<1>1. /\ emit[t] # "idle" /\ out[t] \in Envelopes /\ out[t].from = t
      /\ UNCHANGED <<wpc, mpc, exit>>
      /\ t \in Jobs => t \in Busy
      /\ t \in Jobs => ~Answered(t)
  BY EmitEffect DEF mainVars, workVars, Typed, Holds, AnswerDiscipline,
     Replied, Completed, Busy
<1>2. /\ wire \in Seq(Chunks)
      /\ emit \in [Threads -> {"idle", "check", "lock", "header", "payload",
                               "failed", "stop_all"}]
      /\ out \in [Threads -> Envelopes \cup {None}]
  BY DEF Typed, TypeOK
<1>3. Completed' = Completed
  BY <1>1 DEF Completed
<1>4. mpc # "exited"
  BY <1>1, SessionAssumption DEF Bookkeeping, Typed, Holds
<1>5. CASE \/ EmitLock(t) \/ WriteFails(t) \/ RefuseFrame(t) \/ MarkUnhealthy(t)
           \/ (EmitCheck(t) /\ healthy)
  <2>1. /\ UNCHANGED <<wire, out>>
        /\ ~healthy => ~healthy'
        /\ \E y \in {"lock", "header", "failed", "stop_all"} :
               emit' = [emit EXCEPT ![t] = y]
    BY <1>5 DEF EmitLock, WriteFails, RefuseFrame, MarkUnhealthy, EmitCheck, sinkVars
  <2>2. TerminalIsLast' /\ \A j \in Jobs : Answered(j)' <=> Answered(j)
    BY <2>1 DEF TerminalIsLast, Answered, IsAnswer
  <2>3. \A j \in Threads : emit'[j] = "idle" <=> emit[j] = "idle"
    BY <1>1, <1>2, <2>1
  <2> QED
    BY <1>1, <1>3, <1>4, <2>1, <2>2, <2>3 DEF AnswerDiscipline, Sending, Replied
<1>6. CASE (EmitCheck(t) /\ ~healthy) \/ RequestStopAll(t)
  <2>1. /\ UNCHANGED <<wire, healthy>> /\ ~healthy
        /\ emit' = [emit EXCEPT ![t] = "idle"] /\ out' = [out EXCEPT ![t] = None]
    BY <1>6 DEF RequestStopAll, EmitCheck, EndEmit, sinkVars, Sink, SinkDiscipline
  <2>2. TerminalIsLast' /\ \A j \in Jobs : Answered(j)' <=> Answered(j)
    BY <2>1 DEF TerminalIsLast, Answered, IsAnswer
  <2>3. \A u \in Threads : emit'[u] # "idle" <=> emit[u] # "idle" /\ u # t
    BY <1>2, <2>1
  <2>4. \A u \in Threads : u # t => out'[u] = out[u]
    BY <1>2, <2>1
  <2>5. \A j \in Jobs : wpc[j] = "returned" => j # t
    BY <1>1 DEF Typed, Holds
  <2> QED
    BY <1>1, <1>3, <1>4, <2>1, <2>2, <2>3, <2>4, <2>5
       DEF AnswerDiscipline, Sending, Replied
<1>7. CASE WriteHeader(t)
  <2> DEFINE x == [part |-> "header", env |-> out[t]]
  <2>1. /\ wire' = Append(wire, x) /\ x \in Chunks /\ UNCHANGED <<out, healthy>>
        /\ emit' = [emit EXCEPT ![t] = "payload"]
    BY <1>1, <1>7 DEF WriteHeader, Chunks
  <2>2. TerminalIsLast' /\ \A j \in Jobs : Answered(j)' <=> Answered(j)
    BY <1>1, <1>2, <2>1, AnsweredAppend, TerminalIsLastAppend
  <2>3. \A j \in Threads : emit'[j] = "idle" <=> emit[j] = "idle"
    BY <1>1, <1>2, <2>1
  <2> QED
    BY <1>1, <1>3, <1>4, <2>1, <2>2, <2>3 DEF AnswerDiscipline, Sending, Replied
<1>8. CASE WritePayload(t)
  <2> DEFINE x == [part |-> "payload", env |-> out[t]]
  <2>1. /\ wire' = Append(wire, x) /\ x \in Chunks /\ UNCHANGED healthy
        /\ emit' = [emit EXCEPT ![t] = "idle"] /\ out' = [out EXCEPT ![t] = None]
    BY <1>1, <1>8 DEF WritePayload, EndEmit, Chunks
  <2>2. TerminalIsLast'
    BY <1>1, <1>2, <2>1, TerminalIsLastAppend
  <2>3. \A j \in Jobs : Answered(j)' <=>
            Answered(j) \/ (t = j /\ out[t].code \in TerminalCodes)
    BY <1>1, <1>2, <2>1, AnsweredAppend
  <2>4. t \in Jobs => (out[t].code \in TerminalCodes <=> wpc[t] = "reply")
    BY <1>1 DEF AnswerDiscipline, Sending, TerminalCodes, Typed, Holds
  <2> QED
    BY <1>1, <1>2, <1>3, <1>4, <2>1, <2>2, <2>3, <2>4
       DEF AnswerDiscipline, Sending, Replied
<1> QED
  BY <1>5, <1>6, <1>7, <1>8 DEF Emit

LEMMA AnswersWorker ==
    ASSUME Typed, Answers, NEW j \in Jobs,
           ReportProgress(j) \/ ExecutorReturns(j) \/ Worker(j)
    PROVE  Answers'
<1> USE DEF Answers, AnswerDiscipline, Sending, Replied, Completed, Typed, TypeOK,
            Holds, mainVars, sinkVars, emitVars, BeginEmit
<1>1. j \in Threads /\ UNCHANGED <<wire, healthy, mpc, exit>>
  BY DEF ReportProgress, ExecutorReturns, Worker, SendReply, Complete
<1>2. TerminalIsLast' /\ \A k \in Jobs : Answered(k)' <=> Answered(k)
  BY <1>1 DEF TerminalIsLast, Answered, IsAnswer
<1>3. CASE ReportProgress(j)
  <2>1. LET e == Envelope(j, idOf[j], "progress")
        IN  e.from = j /\ e.code = "progress"
    BY DEF Envelope
  <2> QED
    BY <1>1, <1>2, <1>3, <2>1 DEF ReportProgress
<1>4. CASE ExecutorReturns(j)
  <2>1. \A e \in ExecutorReplies(j) :
          e.from = j /\ e.code \in TerminalCodes \ {"request_cancelled"}
    BY DEF ExecutorReplies, Envelope, TerminalCodes
  <2> QED
    BY <1>1, <1>2, <1>4, <2>1 DEF ExecutorReturns
<1>5. CASE SendReply(j)
  <2>1. LET e == Envelope(j, idOf[j], "request_cancelled")
        IN  e.from = j /\ e.code \in TerminalCodes
    BY DEF Envelope, TerminalCodes
  <2> QED
    BY <1>1, <1>2, <1>5, <2>1 DEF SendReply
<1>6. CASE Complete(j)
  BY <1>1, <1>2, <1>6 DEF Complete
<1> QED
  BY <1>3, <1>4, <1>5, <1>6 DEF Worker

LEMMA AnswersMain ==
    ASSUME Typed, Answers, MainStep
    PROVE  Answers'
<1> USE DEF Answers, AnswerDiscipline, mapVars, workVars, sinkVars, emitVars
<1>1. UNCHANGED <<wire, healthy>>
  BY EntersEmit DEF sinkVars
<1>2. TerminalIsLast' /\ \A j \in Jobs : Answered(j)' <=> Answered(j)
  BY <1>1 DEF TerminalIsLast, Answered, IsAnswer
<1>3. Main \in Threads /\ Main \notin Jobs
  BY SessionAssumption
\* A step that leaves every worker where it is.
<1>a. ASSUME UNCHANGED <<wpc, emit, out>>,
             exit' = 0 => mpc' = "exited" /\ healthy',
             mpc' \notin {"destroy", "join", "exited"} => exit' = None
      PROVE  Answers'
  <2>1. \A j \in Jobs : (Replied(j)' <=> Replied(j)) /\ (Sending(j)' <=> Sending(j))
    BY <1>a DEF Replied, Sending, Completed
  <2> QED
    BY <1>1, <1>2, <1>a, <2>1
\* A step by which the reader answers a message itself.
<1>b. ASSUME mpc = "dispatch", NEW c \in RejectCodes, Reject(c)
      PROVE  Answers'
  <2>1. Envelope(Main, msg.id, c).from = Main
    BY DEF Envelope
  <2>2. \A j \in Jobs : emit'[j] = emit[j] /\ out'[j] = out[j]
    BY <1>3, <1>b DEF Reject, BeginEmit, Typed, TypeOK
  <2>3. \A t \in Threads : emit'[t] # "idle" => out'[t].from = t
    BY <1>3, <1>b, <2>1, <2>2 DEF Reject, BeginEmit, Typed, TypeOK
  <2>4. \A j \in Jobs : (Replied(j)' <=> Replied(j)) /\ (Sending(j)' <=> Sending(j))
    BY <1>b, <2>2 DEF Reject, Replied, Sending, Completed
  <2> QED
    BY <1>1, <1>2, <1>b, <2>2, <2>3, <2>4 DEF Reject
<1>4. CASE ReadFrame
  BY <1>4, <1>a, SessionAssumption DEF ReadFrame
<1>5. CASE ReadBadFrame
  BY <1>5, <1>a DEF ReadBadFrame
<1>6. CASE IgnoreMessage
  BY <1>6, <1>a, SessionAssumption DEF IgnoreMessage
<1>7. CASE ReapCompleted
  <2>1. \A j \in Jobs : /\ (wpc'[j] \in {"done", "joined"}) <=> (wpc[j] \in {"done", "joined"})
                        /\ wpc'[j] \notin {"done", "joined"} => wpc'[j] = wpc[j]
    BY <1>7 DEF ReapCompleted, Typed, TypeOK
  <2>2. \A j \in Jobs : (Replied(j)' <=> Replied(j)) /\ (Sending(j)' <=> Sending(j))
    BY <1>7, <2>1 DEF ReapCompleted, Replied, Sending, Completed
  <2> QED
    BY <1>1, <1>2, <1>7, <2>1, <2>2, SessionAssumption DEF ReapCompleted
<1>8. CASE RejectMessage
  BY <1>8, <1>b DEF RejectMessage, RejectCodes
<1>9. CASE RejectDuplicate
  BY <1>9, <1>b DEF RejectDuplicate, RejectCodes
<1>10. CASE CancelJob
  BY <1>10, <1>a, SessionAssumption DEF CancelJob
<1>11. CASE \E j \in Jobs : StartJob(j)
  <2>1. PICK j \in Jobs : StartJob(j)
    BY <1>11
  <2>2. wpc' = [wpc EXCEPT ![j] = "run"] /\ wpc[j] = "new" /\ UNCHANGED <<emit, out>>
        /\ mpc = "dispatch" /\ mpc' = "check" /\ UNCHANGED exit
    BY <2>1 DEF StartJob
  <2>3. emit[j] = "idle"
    BY <2>2 DEF Typed, Holds
  <2>4. \A k \in Jobs : (Replied(k)' <=> Replied(k)) /\ (Sending(k)' <=> Sending(k))
    BY <2>2 DEF Replied, Sending, Completed, Typed, TypeOK
  <2> QED
    BY <1>1, <1>2, <2>2, <2>3, <2>4, SessionAssumption DEF Typed, TypeOK
<1>12. CASE StartFails
  BY <1>12, <1>b DEF StartFails, RejectCodes
<1>13. CASE RejectionSent
  BY <1>13, <1>a, SessionAssumption DEF RejectionSent
<1>14. CASE CheckOutput
  BY <1>14, <1>a, SessionAssumption DEF CheckOutput
<1>15. CASE Finish
  BY <1>15, <1>a, SessionAssumption DEF Finish, StopAndJoin
<1>16. CASE Destroy
  BY <1>16, <1>a, SessionAssumption DEF Destroy, StopAndJoin
<1>17. CASE Join
  <2>1. \A j \in Jobs : /\ (wpc'[j] \in {"done", "joined"}) <=> (wpc[j] \in {"done", "joined"})
                        /\ wpc'[j] \notin {"done", "joined"} => wpc'[j] = wpc[j]
    BY <1>17 DEF Join, Completed, Typed, TypeOK
  <2>2. \A j \in Jobs : (Replied(j)' <=> Replied(j)) /\ (Sending(j)' <=> Sending(j))
    BY <1>17, <2>1 DEF Join, Replied, Sending, Completed
  <2>3. exit' = 0 => mpc' = "exited" /\ healthy'
    BY <1>1, <1>17 DEF Join
  <2> QED
    BY <1>1, <1>2, <1>17, <2>1, <2>2, <2>3 DEF Join
<1> QED
  BY <1>4, <1>5, <1>6, <1>7, <1>8, <1>9, <1>10, <1>11, <1>12, <1>13, <1>14,
     <1>15, <1>16, <1>17 DEF MainStep, MainInternal

LEMMA AnswersStep ==
    ASSUME Typed, Bookkeeping, Sink, Answers, [Next]_vars
    PROVE  Answers'
<1>1. CASE UNCHANGED vars
  BY <1>1 DEF vars, mainVars, workVars, sinkVars, emitVars, Answers,
     AnswerDiscipline, TerminalIsLast, Answered, IsAnswer, Sending, Replied, Completed
<1>2. CASE Next
  BY <1>1, <1>2, AnswersEmit, AnswersWorker, AnswersMain
     DEF Next, MainStep, Terminated
<1> QED
  BY <1>1, <1>2

-----------------------------------------------------------------------------
(* The theorems                                                             *)

Inv == Typed /\ Bookkeeping /\ Sink /\ Answers

LEMMA Invariance == Spec => []Inv
<1>1. Init => Inv
  BY TypedInit, BookkeepingInit, SinkInit, AnswersInit DEF Inv
<1>2. Inv /\ [Next]_vars => Inv'
  BY TypedStep, BookkeepingStep, SinkStep, AnswersStep DEF Inv
<1> QED
  BY <1>1, <1>2, PTL DEF Spec

\* Whatever the number of workers and however their answers, the reader's
\* rejections and a failing stream interleave, frames stay whole.
THEOREM FramesWhole == Spec => []FramesNeverInterleave
<1>1. Inv => FramesNeverInterleave
  BY DEF Inv, Sink
<1> QED
  BY <1>1, Invariance, PTL

\* A request gets at most one terminal answer and nothing after it.
THEOREM OneAnswer == Spec => []TerminalIsLast
<1>1. Inv => TerminalIsLast
  BY DEF Inv, Answers
<1> QED
  BY <1>1, Invariance, PTL

\* Two workers never share a request id.
THEOREM UniqueInFlight == Spec => []InFlightUnique
<1>1. Inv => InFlightUnique
  BY DEF Inv, Bookkeeping, InFlightUnique, Live, Started, Completed, Busy
<1> QED
  BY <1>1, Invariance, PTL

\* main() returns only after every worker thread has been joined.
THEOREM WorkersJoined == Spec => []NoWorkerOutlivesSession
<1>1. Inv => NoWorkerOutlivesSession
  BY DEF Inv, Bookkeeping, NoWorkerOutlivesSession, Started, Busy
<1> QED
  BY <1>1, Invariance, PTL

\* Exit value 0: every accepted request was answered, on a whole last frame.
THEOREM CleanExit == Spec => []ExitZeroMeansDrained
<1>1. ASSUME Inv, exit = 0
      PROVE  /\ \A j \in Started : Answered(j)
             /\ wire # <<>> => LastChunk.part = "payload"
  <2>1. mpc = "exited" /\ healthy
    BY <1>1 DEF Inv, Answers, AnswerDiscipline
  <2>2. Busy = {}
    BY <1>1, <2>1 DEF Inv, Bookkeeping
  <2>3. \A j \in Started : Replied(j)
    BY <2>2 DEF Started, Busy, Replied, Completed
  <2>4. \A j \in Started : Answered(j)
    BY <1>1, <2>1, <2>3 DEF Inv, Answers, AnswerDiscipline, Started
  <2>5. \A t \in Threads : emit[t] = "idle"
    BY <1>1, <2>1, <2>2 DEF Inv, Typed, Holds, Busy
  <2>6. streamOk
    BY <1>1, <2>1, <2>5 DEF Inv, Sink, SinkDiscipline
  <2>7. wire # <<>> => LastChunk.part # "header"
    BY <1>1, <2>5, <2>6 DEF Inv, Sink, SinkDiscipline
  <2>8. wire # <<>> => LastChunk \in Chunks
    BY <1>1 DEF Inv, Typed, TypeOK, LastChunk
  <2> QED
    BY <2>4, <2>7, <2>8 DEF Chunks
<1>2. Inv => ExitZeroMeansDrained
  BY <1>1 DEF ExitZeroMeansDrained, LastChunk
<1> QED
  BY <1>2, Invariance, PTL

\* While the session accepts, a failed output asks every unfinished worker to
\* stop, because the map knows them all.  The same step during a drain reaches
\* nobody: the theorem needs `accepting`.
THEOREM StopAllReaches == Spec => StopAllReachesAccepted
<1>1. ASSUME Inv, [Next]_vars, NEW t \in Threads, accepting,
             emit[t] = "stop_all", emit'[t] = "idle", NEW j \in Live
      PROVE  stop'[j]
  <2>1. emit' # emit /\ emit'[t] # emit[t]
    BY <1>1
  <2>2. PICK u \in Threads : Emit(u)
    <3>1. ~UNCHANGED vars /\ ~Terminated
      BY <2>1 DEF vars, emitVars, Terminated
    <3>2. ~(MainStep \/ \E k \in Jobs :
              ReportProgress(k) \/ ExecutorReturns(k) \/ Worker(k))
      BY <1>1, <2>1, EntersEmit DEF Inv
    <3> QED
      BY <1>1, <3>1, <3>2 DEF Next, MainStep
  <2>3. u = t
    BY <1>1, <2>1, <2>2, EmitEffect DEF Inv, Typed, TypeOK
  <2>4. RequestStopAll(t)
    BY <1>1, <2>2, <2>3 DEF Emit, EmitCheck, EmitLock, WriteHeader, WritePayload,
       WriteFails, RefuseFrame, MarkUnhealthy
  <2>5. j \in Jobs /\ j \in Busy /\ idOf[j] \in Ids
    BY <1>1 DEF Live, Started, Completed, Busy, Inv, Typed, Holds
  <2>6. j \in Mapped
    BY <1>1, <2>5, SessionAssumption DEF Inv, Bookkeeping, Mapped
  <2>7. stop' = [k \in Jobs |-> stop[k] \/ k \in Mapped]
    BY <2>4 DEF RequestStopAll
  <2> QED
    BY <2>5, <2>6, <2>7, Zenon
<1>2. Inv /\ [Next]_vars =>
          [\A t \in Threads : accepting /\ emit[t] = "stop_all" /\ emit'[t] = "idle"
              => \A j \in Live : stop'[j]]_vars
  BY <1>1
<1> QED
  BY <1>2, Invariance, PTL DEF Spec, StopAllReachesAccepted

-----------------------------------------------------------------------------
(* Cancellation                                                             *)

OnlyCancelled(j) ==
    \A i \in 1..Len(wire) : IsAnswer(i, j) => wire[i].env.code = "request_cancelled"

\* A worker that was stopped in time: what it has said and what it is about to
\* say is that it was cancelled.
Cancelled(j) ==
    /\ stop[j] /\ wpc[j] # "new"
    /\ Sending(j) => out[j].code = "request_cancelled"
    /\ OnlyCancelled(j)

LEMMA StopIsFinal ==
    ASSUME Typed, [Next]_vars, NEW j \in Jobs, stop[j]
    PROVE  stop'[j]
<1>1. ASSUME NEW t \in Threads, Emit(t) PROVE stop'[j]
  BY <1>1, EmitEffect
<1>2. CASE UNCHANGED stop
  BY <1>2
<1>3. ASSUME NEW k \in Jobs, ReportProgress(k) \/ ExecutorReturns(k) \/ Worker(k)
      PROVE  UNCHANGED stop
  BY <1>3 DEF ReportProgress, ExecutorReturns, Worker, SendReply, Complete, mapVars
<1>4. CASE MainStep
  BY <1>4 DEF MainStep, MainInternal, ReadFrame, ReadBadFrame, Finish, IgnoreMessage,
     ReapCompleted, RejectMessage, RejectDuplicate, CancelJob, StartJob, StartFails,
     RejectionSent, CheckOutput, Destroy, StopAndJoin, Join, Reject, mapVars
<1> QED
  BY <1>1, <1>2, <1>3, <1>4 DEF Next, MainStep, Terminated, vars, mapVars

\* The wire grows by a chunk that is not a contrary answer of j.
LEMMA OnlyCancelledAppend ==
    ASSUME wire \in Seq(Chunks), NEW x \in Chunks, wire' = Append(wire, x),
           NEW j \in Jobs, OnlyCancelled(j),
           x.part = "payload" /\ x.env.from = j /\ x.env.code \in TerminalCodes
               => x.env.code = "request_cancelled"
    PROVE  OnlyCancelled(j)'
<1> SUFFICES ASSUME NEW i \in 1..Len(wire'), IsAnswer(i, j)'
             PROVE  wire'[i].env.code = "request_cancelled"
  BY DEF OnlyCancelled
<1>1. CASE i \in 1..Len(wire)
  BY <1>1, AppendWire DEF IsAnswer, OnlyCancelled
<1>2. CASE i = Len(wire) + 1
  BY <1>2, AppendWire DEF IsAnswer
<1> QED
  BY <1>1, <1>2, AppendWire

LEMMA CancelledEmit ==
    ASSUME Inv, NEW j \in Jobs, Cancelled(j), NEW t \in Threads, Emit(t), stop'[j]
    PROVE  Cancelled(j)'
<1>1. /\ emit[t] # "idle" /\ out[t] \in Envelopes /\ out[t].from = t
      /\ UNCHANGED wpc
  BY EmitEffect DEF workVars, Inv, Typed, Holds, Answers, AnswerDiscipline
<1>2. /\ wire \in Seq(Chunks)
      /\ emit \in [Threads -> {"idle", "check", "lock", "header", "payload",
                               "failed", "stop_all"}]
      /\ out \in [Threads -> Envelopes \cup {None}]
  BY DEF Inv, Typed, TypeOK
<1>3. Sending(j)' => out'[j].code = "request_cancelled"
  BY <1>1, <1>2, EmitEffect DEF Cancelled, Sending
<1>4. t = j /\ out[t].code \in TerminalCodes => out[t].code = "request_cancelled"
  BY <1>1 DEF Cancelled, Sending, Inv, Typed, Holds, Answers, AnswerDiscipline, TerminalCodes
<1>5. CASE wire' = wire
  BY <1>1, <1>3, <1>5 DEF Cancelled, OnlyCancelled, IsAnswer
<1>6. CASE \E p \in {"header", "payload"} : wire' = Append(wire, [part |-> p, env |-> out[t]])
  <2>1. PICK p \in {"header", "payload"} : wire' = Append(wire, [part |-> p, env |-> out[t]])
    BY <1>6
  <2> DEFINE x == [part |-> p, env |-> out[t]]
  <2>2. /\ x \in Chunks
        /\ x.part = "payload" /\ x.env.from = j /\ x.env.code \in TerminalCodes
               => x.env.code = "request_cancelled"
    BY <1>1, <1>4 DEF Chunks
  <2> HIDE DEF x
  <2>3. OnlyCancelled(j)'
    BY <1>2, <2>1, <2>2, OnlyCancelledAppend DEF Cancelled, x
  <2> QED
    BY <1>1, <1>3, <2>3 DEF Cancelled
<1> QED
  BY <1>5, <1>6, EmitEffect

LEMMA CancelledStep ==
    ASSUME Inv, NEW j \in Jobs, Cancelled(j), [Next]_vars
    PROVE  Cancelled(j)'
<1>1. stop'[j]
  BY StopIsFinal DEF Inv, Cancelled
<1>2. ASSUME UNCHANGED wire PROVE OnlyCancelled(j)'
  BY <1>2 DEF Cancelled, OnlyCancelled, IsAnswer
<1>3. CASE UNCHANGED vars
  BY <1>1, <1>2, <1>3 DEF vars, sinkVars, workVars, emitVars, Cancelled, Sending
<1>4. ASSUME NEW t \in Threads, Emit(t) PROVE Cancelled(j)'
  BY <1>1, <1>4, CancelledEmit
<1>5. ASSUME NEW k \in Jobs, ReportProgress(k) \/ ExecutorReturns(k) \/ Worker(k)
      PROVE  Cancelled(j)'
  <2>1. UNCHANGED wire
    BY <1>5, EntersEmit DEF Inv, sinkVars
  <2>2. /\ wpc \in [Jobs -> {"new", "run", "returned", "reply", "done", "joined"}]
        /\ emit \in [Threads -> {"idle", "check", "lock", "header", "payload",
                                 "failed", "stop_all"}]
        /\ out \in [Threads -> Envelopes \cup {None}]
    BY DEF Inv, Typed, TypeOK
  <2>3. wpc'[j] # "new"
    BY <1>5, <2>2 DEF Cancelled, ReportProgress, ExecutorReturns, Worker, SendReply, Complete,
       workVars
  <2>4. Sending(j)' => out'[j].code = "request_cancelled"
    <3>1. CASE ReportProgress(k)
      BY <2>2, <3>1 DEF ReportProgress, BeginEmit, Cancelled, Sending
    <3>2. CASE ExecutorReturns(k)
      BY <2>2, <3>2 DEF ExecutorReturns, Cancelled, Sending
    <3>3. CASE SendReply(k)
      <4>1. Envelope(j, idOf[j], "request_cancelled").code = "request_cancelled"
        BY DEF Envelope
      <4> QED
        BY <2>2, <3>3, <4>1 DEF SendReply, BeginEmit, Cancelled, Sending
    <3>4. CASE Complete(k)
      BY <2>2, <3>4 DEF Complete, emitVars, Cancelled, Sending
    <3> QED
      BY <1>5, <3>1, <3>2, <3>3, <3>4 DEF Worker
  <2> QED
    BY <1>1, <1>2, <2>1, <2>3, <2>4 DEF Cancelled
<1>6. CASE MainStep
  <2>1. UNCHANGED wire
    BY <1>6, EntersEmit DEF Inv, sinkVars
  <2>2. /\ wpc \in [Jobs -> {"new", "run", "returned", "reply", "done", "joined"}]
        /\ emit \in [Threads -> {"idle", "check", "lock", "header", "payload",
                                 "failed", "stop_all"}]
        /\ out \in [Threads -> Envelopes \cup {None}]
        /\ j # Main /\ j \in Threads
    BY SessionAssumption DEF Inv, Typed, TypeOK
  <2>3. wpc'[j] = wpc[j] \/ wpc'[j] = "joined"
    BY <1>6, <2>2 DEF Cancelled, MainStep, MainInternal, ReadFrame, ReadBadFrame, Finish,
       IgnoreMessage, ReapCompleted, RejectMessage, RejectDuplicate, CancelJob, StartJob,
       StartFails, RejectionSent, CheckOutput, Destroy, StopAndJoin, Join, Reject, workVars
  <2>4. emit'[j] = emit[j] /\ out'[j] = out[j]
    BY <1>6, <2>2 DEF MainStep, MainInternal, ReadFrame, ReadBadFrame, Finish,
       IgnoreMessage, ReapCompleted, RejectMessage, RejectDuplicate, CancelJob, StartJob,
       StartFails, RejectionSent, CheckOutput, Destroy, StopAndJoin, Join, Reject, BeginEmit,
       emitVars
  <2> QED
    BY <1>1, <1>2, <2>1, <2>3, <2>4 DEF Cancelled, Sending
<1> QED
  BY <1>3, <1>4, <1>5, <1>6 DEF Next, MainStep, Terminated

\* A cancellation that finds its job running is the end of it: whenever the
\* executor returns, whatever it returns and whoever else writes, no answer but
\* request_cancelled is sent for that job.
THEOREM CancellationIsFinal == Spec => CancelIsFinal
<1>1. ASSUME NEW j \in Jobs
      PROVE  Spec => [](wpc[j] = "run" /\ stop[j] => []OnlyCancelled(j))
  <2>1. Inv /\ wpc[j] = "run" /\ stop[j] => Cancelled(j)
    BY DEF Inv, Answers, AnswerDiscipline, Answered, Replied, Completed, Cancelled,
       OnlyCancelled, Sending
  <2>2. Inv /\ Cancelled(j) /\ [Next]_vars => Cancelled(j)'
    BY CancelledStep
  <2>3. Cancelled(j) => OnlyCancelled(j)
    BY DEF Cancelled
  <2> QED
    BY <2>1, <2>2, <2>3, Invariance, PTL DEF Spec
<1> QED
  BY <1>1 DEF CancelIsFinal, OnlyCancelled

-----------------------------------------------------------------------------
(* The session implements SessionPromise                                    *)

\* A request looks the same as long as its worker does.
LEMMA PhaseSame ==
    ASSUME NEW j \in Jobs,
           (wpc[j] = "new")' <=> wpc[j] = "new",
           (wpc[j] \in {"run", "returned"})' <=> wpc[j] \in {"run", "returned"},
           Sending(j)' <=> Sending(j), Answered(j)' <=> Answered(j)
    PROVE  PhaseOf(j)' = PhaseOf(j)
BY DEF PhaseOf

\* The peer hears what is appended for it, and nothing else.
LEMMA HeardAppend ==
    ASSUME wire \in Seq(Chunks), NEW x \in Chunks, wire' = Append(wire, x),
           NEW j \in Jobs
    PROVE  /\ ~(x.part = "payload" /\ x.env.from = j /\ x.env.code \in TerminalCodes)
                  => Heard(j)' = Heard(j)
           /\ x.part = "payload" /\ x.env.from = j /\ x.env.code \in TerminalCodes
                  => Heard(j)' = Heard(j) \cup {x.env.code}
<1> DEFINE new == x.part = "payload" /\ x.env.from = j /\ x.env.code \in TerminalCodes
           P    == {i \in 1..Len(wire) : IsAnswer(i, j)}
           Q    == {i \in 1..Len(wire') : IsAnswer(i, j)'}
<1>0. PICK last : last = Len(wire) + 1
  OBVIOUS
<1>1. /\ wire'[last] = x /\ last \notin 1..Len(wire)
      /\ \A i \in 1..Len(wire) : wire'[i] = wire[i]
      /\ 1..Len(wire') = 1..Len(wire) \cup {last}
  BY <1>0, AppendWire
<1>2. \A i \in 1..Len(wire) : IsAnswer(i, j)' <=> IsAnswer(i, j)
  BY <1>1 DEF IsAnswer
<1>3. \A i \in {last} : IsAnswer(i, j)' <=> new
  BY <1>1 DEF IsAnswer
<1>4. Heard(j) = {wire[i].env.code : i \in P} /\ Heard(j)' = {wire'[i].env.code : i \in Q}
  BY DEF Heard
<1>5. \A i \in P : wire'[i].env.code = wire[i].env.code
  BY <1>1
<1>6. CASE ~new
  <2>1. Q = P
    BY <1>1, <1>2, <1>3, <1>6
  <2> QED
    BY <1>4, <1>5, <1>6, <2>1
<1>7. CASE new
  <2>1. Q = P \cup {last}
    BY <1>1, <1>2, <1>3, <1>7
  <2>2. wire'[last].env.code = x.env.code
    BY <1>1
  <2>3. {wire'[i].env.code : i \in Q} = {wire'[i].env.code : i \in P} \cup {x.env.code}
    <3> HIDE DEF P, Q
    <3> QED
      BY <2>1, <2>2
  <2>4. {wire'[i].env.code : i \in P} = {wire[i].env.code : i \in P}
    BY <1>5
  <2> QED
    BY <1>4, <1>7, <2>3, <2>4
<1> QED
  BY <1>6, <1>7

LEMMA HeardNothing ==
    ASSUME NEW j \in Jobs, ~Answered(j)
    PROVE  Heard(j) = {}
BY DEF Answered, Heard

LEMMA PromiseInit == Init => Promise!Init
<1> SUFFICES ASSUME Init PROVE Promise!Init
  OBVIOUS
<1>1. 1..Len(wire) = {}
  BY DEF Init
<1>2. \A j \in Jobs : /\ PhaseOf(j) = "new" /\ Heard(j) = {} /\ VerdictOf(j) = None
                      /\ ~stop[j]
  BY <1>1 DEF Init, PhaseOf, Heard, VerdictOf, Sending
<1>3. mpc # "exited" /\ healthy = TRUE /\ idOf = [j \in Jobs |-> None]
  BY DEF Init
<1>4. {j \in Jobs : stop[j]} = {}
  BY <1>2
<1> QED
  BY <1>2, <1>3, <1>4 DEF Promise!Init

\* What a step must leave alone to be invisible, or to be seen at job t only.
Unseen(j) == /\ PhaseOf(j)' = PhaseOf(j) /\ VerdictOf(j)' = VerdictOf(j)
             /\ Heard(j)' = Heard(j)

LEMMA UnseenIsStutter ==
    ASSUME UNCHANGED <<idOf, stop, healthy, exit>>, \A j \in Jobs : Unseen(j),
           mpc = "exited" <=> mpc' = "exited"
    PROVE  UNCHANGED Promise!vars
BY DEF Unseen, Promise!vars

LEMMA MappedAreAccepted ==
    ASSUME Inv
    PROVE  Mapped \subseteq {j \in Jobs : PhaseOf(j) # "new"}
BY SessionAssumption DEF Inv, Bookkeeping, Mapped, Busy, Typed, TypeOK, PhaseOf

\* A step that asks jobs of the map to stop, seen at no job otherwise.
LEMMA StopIsCancel ==
    ASSUME Inv, NEW S \in SUBSET Mapped, stop' = [j \in Jobs |-> stop[j] \/ j \in S],
           UNCHANGED <<idOf, healthy, exit>>, \A j \in Jobs : Unseen(j),
           mpc = "exited" <=> mpc' = "exited"
    PROVE  Promise!Next
<1>1. S \subseteq {j \in Jobs : PhaseOf(j) # "new"}
  BY MappedAreAccepted
<1>2. {j \in Jobs : stop'[j]} = {j \in Jobs : stop[j]} \cup S
  BY <1>1
<1>3. Promise!Cancel(S)
  BY <1>1, <1>2 DEF Unseen, Promise!Cancel, Promise!Stop, Promise!Accepted
<1> QED
  BY <1>1, <1>3 DEF Promise!Next

LEMMA PromiseEmit ==
    ASSUME Inv, NEW t \in Threads, Emit(t)
    PROVE  [Promise!Next]_(Promise!vars)
<1>1. /\ emit[t] # "idle" /\ out[t] \in Envelopes /\ out[t].from = t
      /\ UNCHANGED <<wpc, mpc, exit, idOf>> /\ mpc # "exited"
      /\ t \in Jobs => ~Answered(t) /\ wpc[t] \in {"run", "reply"} /\ t \in Busy
  <2>1. /\ emit[t] # "idle" /\ out[t] \in Envelopes /\ out[t].from = t
        /\ UNCHANGED <<wpc, mpc, exit, idOf>>
        /\ t \in Jobs => ~Answered(t) /\ wpc[t] \in {"run", "reply"} /\ t \in Busy
    BY EmitEffect DEF mainVars, workVars, Inv, Typed, Holds, Answers, AnswerDiscipline,
       Replied, Completed, Busy
  <2> QED
    BY <2>1 DEF Inv, Bookkeeping, Typed, Holds
<1>2. /\ wire \in Seq(Chunks)
      /\ emit \in [Threads -> {"idle", "check", "lock", "header", "payload",
                               "failed", "stop_all"}]
      /\ out \in [Threads -> Envelopes \cup {None}]
      /\ stop \in [Jobs -> BOOLEAN] /\ healthy \in BOOLEAN
  BY DEF Inv, Typed, TypeOK
<1>a. ASSUME UNCHANGED wire, NEW j \in Jobs
      PROVE  (Answered(j)' <=> Answered(j)) /\ Heard(j)' = Heard(j)
  BY <1>a DEF Answered, Heard, IsAnswer
\* A thread other than t looks as before once the wire shows the same of it.
<1>b. ASSUME NEW j \in Jobs, emit'[j] = emit[j] \/ (emit[j] # "idle" /\ emit'[j] # "idle"),
             out'[j] = out[j], Answered(j)' <=> Answered(j), Heard(j)' = Heard(j)
      PROVE  Unseen(j)
  BY <1>1, <1>b, PhaseSame DEF Unseen, VerdictOf, Sending
<1>3. CASE \/ EmitLock(t) \/ WriteFails(t) \/ RefuseFrame(t)
           \/ (EmitCheck(t) /\ healthy) \/ (MarkUnhealthy(t) /\ ~healthy)
  <2>1. /\ UNCHANGED <<wire, out, stop, healthy>>
        /\ \E y \in {"lock", "header", "failed", "stop_all"} :
               emit' = [emit EXCEPT ![t] = y]
    BY <1>2, <1>3 DEF EmitLock, WriteFails, RefuseFrame, MarkUnhealthy, EmitCheck,
       sinkVars, mapVars
  <2>2. \A j \in Jobs : Unseen(j)
    BY <1>1, <1>2, <1>a, <1>b, <2>1
  <2> QED
    BY <1>1, <2>1, <2>2, UnseenIsStutter
<1>4. CASE WriteHeader(t)
  <2> DEFINE x == [part |-> "header", env |-> out[t]]
  <2>1. /\ wire' = Append(wire, x) /\ x \in Chunks /\ UNCHANGED <<out, stop, healthy>>
        /\ emit' = [emit EXCEPT ![t] = "payload"]
    BY <1>1, <1>4 DEF WriteHeader, Chunks, mapVars
  <2>2. \A j \in Jobs : (Answered(j)' <=> Answered(j)) /\ Heard(j)' = Heard(j)
    BY <1>2, <2>1, AnsweredAppend, HeardAppend
  <2>3. \A j \in Jobs : Unseen(j)
    BY <1>1, <1>2, <1>b, <2>1, <2>2
  <2> QED
    BY <1>1, <2>1, <2>3, UnseenIsStutter
<1>5. CASE MarkUnhealthy(t) /\ healthy
  <2>1. /\ UNCHANGED <<wire, out, stop>> /\ healthy' = FALSE
        /\ emit' = [emit EXCEPT ![t] = "stop_all"]
    BY <1>5 DEF MarkUnhealthy, mapVars
  <2>2. \A j \in Jobs : Unseen(j)
    BY <1>1, <1>2, <1>a, <1>b, <2>1
  <2>3. Promise!Fail
    BY <1>1, <1>5, <2>1, <2>2 DEF Unseen, Promise!Fail
  <2> QED
    BY <2>3 DEF Promise!Next
<1>6. CASE (EmitCheck(t) /\ ~healthy) \/ RequestStopAll(t)
  <2>1. /\ UNCHANGED <<wire, healthy>> /\ ~healthy
        /\ emit' = [emit EXCEPT ![t] = "idle"] /\ out' = [out EXCEPT ![t] = None]
    BY <1>6 DEF RequestStopAll, EmitCheck, EndEmit, sinkVars, Inv, Sink, SinkDiscipline
  <2>2. PICK S \in SUBSET Mapped : stop' = [j \in Jobs |-> stop[j] \/ j \in S]
    <3>1. CASE RequestStopAll(t)
      BY <3>1 DEF RequestStopAll
    <3>2. CASE EmitCheck(t)
      <4>1. stop' = [j \in Jobs |-> stop[j] \/ j \in {}]
        BY <1>2, <3>2 DEF EmitCheck, mapVars
      <4>2. {} \in SUBSET Mapped
        OBVIOUS
      <4> QED
        BY <4>1, <4>2, Zenon
    <3> QED
      BY <1>6, <3>1, <3>2
  <2>3. \A j \in Jobs \ {t} : Unseen(j)
    BY <1>1, <1>2, <1>a, <1>b, <2>1
  <2>4. CASE t \in Jobs /\ wpc[t] = "reply"
    <3>1. PhaseOf(t) = "decided" /\ PhaseOf(t)' = "lost" /\ VerdictOf(t)' = None
          /\ Heard(t)' = Heard(t)
      BY <1>1, <1>2, <1>a, <2>1, <2>4 DEF PhaseOf, VerdictOf, Sending
    <3>2. S \subseteq {j \in Jobs : PhaseOf(j) # "new"}
      BY MappedAreAccepted
    <3>3. {j \in Jobs : stop'[j]} = {j \in Jobs : stop[j]} \cup S
      BY <2>2, <3>2
    <3>4. /\ [j \in Jobs |-> PhaseOf(j)'] = [[j \in Jobs |-> PhaseOf(j)] EXCEPT ![t] = "lost"]
          /\ [j \in Jobs |-> VerdictOf(j)'] = [[j \in Jobs |-> VerdictOf(j)] EXCEPT ![t] = None]
          /\ [j \in Jobs |-> Heard(j)'] = [j \in Jobs |-> Heard(j)]
      BY <2>3, <2>4, <3>1 DEF Unseen
    <3>5. Promise!Lose(t, S)
      BY <1>1, <2>1, <2>4, <3>1, <3>2, <3>3, <3>4
         DEF Promise!Lose, Promise!Stop, Promise!Accepted
    <3> QED
      BY <2>4, <3>2, <3>5 DEF Promise!Next
  <2>5. CASE t \notin Jobs \/ wpc[t] # "reply"
    <3>1. \A j \in Jobs : Unseen(j)
      <4>1. t \in Jobs => Unseen(t)
        BY <1>1, <1>a, <2>1, <2>5, PhaseSame DEF Unseen, VerdictOf, Sending
      <4> QED
        BY <2>3, <4>1
    <3> QED
      BY <1>1, <2>1, <2>2, <3>1, StopIsCancel
  <2> QED
    BY <2>4, <2>5
<1>7. CASE WritePayload(t)
  <2> DEFINE x == [part |-> "payload", env |-> out[t]]
  <2>1. /\ wire' = Append(wire, x) /\ x \in Chunks /\ UNCHANGED <<stop, healthy>>
        /\ emit' = [emit EXCEPT ![t] = "idle"] /\ out' = [out EXCEPT ![t] = None]
    BY <1>1, <1>7 DEF WritePayload, EndEmit, Chunks, mapVars
  <2>2. x.part = "payload" /\ x.env = out[t]
    OBVIOUS
  <2> HIDE DEF x
  <2>3. \A j \in Jobs \ {t} : (Answered(j)' <=> Answered(j)) /\ Heard(j)' = Heard(j)
    BY <1>1, <1>2, <2>1, <2>2, AnsweredAppend, HeardAppend
  <2>4. \A j \in Jobs \ {t} : Unseen(j)
    BY <1>1, <1>2, <1>b, <2>1, <2>3
  <2>5. CASE t \in Jobs /\ wpc[t] = "reply"
    <3>1. out[t].code \in TerminalCodes
      BY <1>1, <2>5 DEF Inv, Answers, AnswerDiscipline, Sending
    <3>2. Answered(t)' /\ Heard(t)' = {out[t].code}
      BY <1>1, <1>2, <2>1, <2>2, <2>5, <3>1, AnsweredAppend, HeardAppend, HeardNothing
    <3>3. PhaseOf(t) = "decided" /\ PhaseOf(t)' = "told"
          /\ VerdictOf(t) = out[t].code /\ VerdictOf(t)' = None
      BY <1>1, <1>2, <2>1, <2>5, <3>2 DEF PhaseOf, VerdictOf, Sending
    <3>4. /\ [j \in Jobs |-> PhaseOf(j)'] = [[j \in Jobs |-> PhaseOf(j)] EXCEPT ![t] = "told"]
          /\ [j \in Jobs |-> VerdictOf(j)'] = [[j \in Jobs |-> VerdictOf(j)] EXCEPT ![t] = None]
          /\ [j \in Jobs |-> Heard(j)'] =
                 [[j \in Jobs |-> Heard(j)] EXCEPT ![t] = {VerdictOf(t)}]
      BY <2>4, <2>5, <3>2, <3>3 DEF Unseen
    <3>5. Promise!Tell(t)
      BY <1>1, <2>1, <2>5, <3>3, <3>4 DEF Promise!Tell
    <3> QED
      BY <2>5, <3>5 DEF Promise!Next
  <2>6. CASE t \notin Jobs \/ wpc[t] # "reply"
    <3>1. t \in Jobs => Unseen(t)
      <4>1. t \in Jobs => out[t].code \notin TerminalCodes
        BY <1>1, <2>6 DEF Inv, Answers, AnswerDiscipline, TerminalCodes
      <4>2. t \in Jobs => (Answered(t)' <=> Answered(t)) /\ Heard(t)' = Heard(t)
        BY <1>2, <2>1, <2>2, <4>1, AnsweredAppend, HeardAppend
      <4> QED
        BY <1>1, <2>6, <4>2, PhaseSame DEF Unseen, VerdictOf, Sending
    <3> QED
      BY <1>1, <2>1, <2>4, <3>1, UnseenIsStutter
  <2> QED
    BY <2>5, <2>6
<1> QED
  BY <1>3, <1>4, <1>5, <1>6, <1>7 DEF Emit

LEMMA PromiseWorker ==
    ASSUME Inv, NEW t \in Jobs, ReportProgress(t) \/ ExecutorReturns(t) \/ Worker(t)
    PROVE  [Promise!Next]_(Promise!vars)
<1>1. /\ UNCHANGED <<wire, healthy, mpc, exit, idOf, stop>>
      /\ t \in Threads
  BY DEF ReportProgress, ExecutorReturns, Worker, SendReply, Complete, mainVars, mapVars,
     sinkVars
<1>2. /\ wpc \in [Jobs -> {"new", "run", "returned", "reply", "done", "joined"}]
      /\ emit \in [Threads -> {"idle", "check", "lock", "header", "payload",
                               "failed", "stop_all"}]
      /\ out \in [Threads -> Envelopes \cup {None}]
      /\ stop \in [Jobs -> BOOLEAN]
  BY DEF Inv, Typed, TypeOK
<1>3. \A j \in Jobs : (Answered(j)' <=> Answered(j)) /\ Heard(j)' = Heard(j)
  BY <1>1 DEF Answered, Heard, IsAnswer
<1>4. ASSUME NEW j \in Jobs, UNCHANGED <<wpc[j], emit[j], out[j]>>
      PROVE  Unseen(j)
  BY <1>3, <1>4, PhaseSame DEF Unseen, VerdictOf, Sending
<1>5. CASE ReportProgress(t) \/ ExecutorReturns(t) \/ Complete(t)
  <2>1. \A j \in Jobs \ {t} : UNCHANGED <<wpc[j], emit[j], out[j]>>
    BY <1>1, <1>2, <1>5 DEF ReportProgress, ExecutorReturns, Complete, BeginEmit, emitVars
  <2>2. Unseen(t)
    <3>1. ~Sending(t) /\ ~Sending(t)'
      BY <1>1, <1>2, <1>5 DEF ReportProgress, ExecutorReturns, Complete, BeginEmit, emitVars,
         Sending
    <3>2. \/ wpc[t] = "run" /\ wpc'[t] \in {"run", "returned"}
          \/ wpc[t] = "reply" /\ wpc'[t] = "done"
      BY <1>2, <1>5 DEF ReportProgress, ExecutorReturns, Complete
    <3> QED
      BY <1>3, <3>1, <3>2, PhaseSame DEF Unseen, VerdictOf
  <2> QED
    BY <1>1, <1>4, <2>1, <2>2, UnseenIsStutter
<1>6. CASE SendReply(t)
  <2> DEFINE e == IF stop[t] THEN Envelope(t, idOf[t], "request_cancelled") ELSE out[t]
  <2>1. /\ wpc[t] = "returned" /\ wpc' = [wpc EXCEPT ![t] = "reply"]
        /\ out' = [out EXCEPT ![t] = e] /\ emit' = [emit EXCEPT ![t] = "check"]
    BY <1>6 DEF SendReply, BeginEmit
  <2>2. /\ e.code \in Promise!Codes
        /\ e.code = "request_cancelled" <=> stop[t]
    BY <2>1 DEF Inv, Answers, AnswerDiscipline, Envelope, TerminalCodes, Promise!Codes
  <2> HIDE DEF e
  <2>3. \A j \in Jobs \ {t} : Unseen(j)
    BY <1>1, <1>2, <1>4, <2>1
  <2>4. PhaseOf(t) = "open" /\ PhaseOf(t)' = "decided" /\ VerdictOf(t)' = e.code
        /\ Heard(t)' = Heard(t)
    BY <1>1, <1>2, <1>3, <2>1 DEF PhaseOf, VerdictOf, Sending
  <2>5. /\ [j \in Jobs |-> PhaseOf(j)'] = [[j \in Jobs |-> PhaseOf(j)] EXCEPT ![t] = "decided"]
        /\ [j \in Jobs |-> VerdictOf(j)'] =
               [[j \in Jobs |-> VerdictOf(j)] EXCEPT ![t] = e.code]
        /\ [j \in Jobs |-> Heard(j)'] = [j \in Jobs |-> Heard(j)]
    BY <2>3, <2>4 DEF Unseen
  <2>6. Promise!Decide(t, e.code)
    BY <1>1, <2>2, <2>4, <2>5 DEF Promise!Decide
  <2> QED
    BY <2>2, <2>6 DEF Promise!Next
<1> QED
  BY <1>5, <1>6 DEF Worker

LEMMA PromiseMain ==
    ASSUME Inv, MainStep
    PROVE  [Promise!Next]_(Promise!vars)
<1> USE DEF mapVars, workVars, sinkVars, emitVars
<1>1. UNCHANGED <<wire, healthy>> /\ Main \in Threads /\ Main \notin Jobs
  BY EntersEmit, SessionAssumption DEF Inv
<1>2. /\ wpc \in [Jobs -> {"new", "run", "returned", "reply", "done", "joined"}]
      /\ emit \in [Threads -> {"idle", "check", "lock", "header", "payload",
                               "failed", "stop_all"}]
      /\ out \in [Threads -> Envelopes \cup {None}]
      /\ stop \in [Jobs -> BOOLEAN]
  BY DEF Inv, Typed, TypeOK
<1>3. \A j \in Jobs : (Answered(j)' <=> Answered(j)) /\ Heard(j)' = Heard(j)
  BY <1>1 DEF Answered, Heard, IsAnswer
<1>a. ASSUME NEW j \in Jobs, UNCHANGED <<emit[j], out[j]>>,
             wpc'[j] = wpc[j] \/ (wpc[j] = "done" /\ wpc'[j] = "joined")
      PROVE  Unseen(j)
  BY <1>3, <1>a, PhaseSame DEF Unseen, VerdictOf, Sending
\* A step that starts, stops and ends nothing.
<1>b. ASSUME UNCHANGED <<workVars, emit, out, stop>>,
             mpc' # "exited", mpc # "exited", UNCHANGED exit
      PROVE  UNCHANGED Promise!vars
  BY <1>1, <1>a, <1>b, UnseenIsStutter
<1>c. ASSUME mpc = "dispatch", NEW c \in RejectCodes, Reject(c)
      PROVE  UNCHANGED Promise!vars
  <2>1. \A j \in Jobs : UNCHANGED <<wpc[j], emit[j], out[j]>>
    BY <1>1, <1>2, <1>c DEF Reject, BeginEmit
  <2> QED
    BY <1>1, <1>a, <1>c, <2>1, UnseenIsStutter DEF Reject
\* The exit value is decided before the process is gone, and nobody sees it.
<1>d. ASSUME UNCHANGED <<workVars, emit, out, stop>>, mpc' # "exited", mpc # "exited"
      PROVE  UNCHANGED Promise!vars
  <2>1. \A j \in Jobs : Unseen(j)
    BY <1>a, <1>d
  <2> QED
    BY <1>1, <1>d, <2>1 DEF Unseen, Promise!vars
<1>4. CASE ReadFrame
  BY <1>4, <1>b DEF ReadFrame
<1>5. CASE ReadBadFrame
  BY <1>5, <1>d DEF ReadBadFrame
<1>6. CASE IgnoreMessage
  BY <1>6, <1>b DEF IgnoreMessage
<1>7. CASE ReapCompleted
  <2>1. \A j \in Jobs : Unseen(j)
    BY <1>2, <1>7, <1>a DEF ReapCompleted
  <2> QED
    BY <1>1, <1>7, <2>1, UnseenIsStutter DEF ReapCompleted
<1>8. CASE RejectMessage
  BY <1>8, <1>c DEF RejectMessage, RejectCodes
<1>9. CASE RejectDuplicate
  BY <1>9, <1>c DEF RejectDuplicate, RejectCodes
<1>10. CASE StartFails
  BY <1>10, <1>c DEF StartFails, RejectCodes
<1>11. CASE RejectionSent
  BY <1>11, <1>b DEF RejectionSent
<1>12. CASE CheckOutput
  BY <1>12, <1>d DEF CheckOutput
<1>13. CASE CancelJob
  <2> DEFINE S == {j \in Jobs : jobs[msg.id] = j /\ j \notin Completed}
  <2>1. msg.id \in Ids
    BY <1>13, MessageType DEF CancelJob, Inv, Typed, Holds
  <2>2. S \in SUBSET Mapped
    BY <2>1, SessionAssumption DEF Mapped
  <2>3. stop' = [j \in Jobs |-> stop[j] \/ j \in S]
    BY <1>13 DEF CancelJob
  <2>4. \A j \in Jobs : Unseen(j)
    BY <1>13, <1>a DEF CancelJob
  <2> HIDE DEF S
  <2> QED
    BY <1>1, <1>13, <2>2, <2>3, <2>4, StopIsCancel DEF CancelJob
<1>14. ASSUME NEW b \in BOOLEAN, StopAndJoin(b), mpc # "exited"
       PROVE  Promise!Next
  <2>1. PICK S \in SUBSET Mapped : stop' = [j \in Jobs |-> stop[j] \/ j \in S]
    <3> DEFINE S == {j \in Mapped : b}
    <3>1. S \in SUBSET Mapped
      OBVIOUS
    <3>2. stop' = [j \in Jobs |-> stop[j] \/ j \in S]
      BY <1>14 DEF StopAndJoin
    <3> HIDE DEF S
    <3> QED
      BY <3>1, <3>2, Zenon
  <2>2. \A j \in Jobs : Unseen(j)
    BY <1>14, <1>a DEF StopAndJoin
  <2> QED
    BY <1>1, <1>14, <2>1, <2>2, StopIsCancel DEF StopAndJoin
<1>15. CASE Finish
  BY <1>14, <1>15 DEF Finish
<1>16. CASE Destroy
  BY <1>14, <1>16 DEF Destroy
<1>17. CASE \E j \in Jobs : StartJob(j)
  <2>1. PICK t \in Jobs : StartJob(t)
    BY <1>17
  <2>2. /\ mpc = "dispatch" /\ mpc' = "check" /\ jobs[msg.id] = None
        /\ wpc[t] = "new" /\ wpc' = [wpc EXCEPT ![t] = "run"]
        /\ idOf' = [idOf EXCEPT ![t] = msg.id]
        /\ UNCHANGED <<emit, out, stop, exit>>
    BY <2>1 DEF StartJob
  <2>3. msg.id \in Ids
    BY <2>1, MessageType DEF StartJob, Inv, Typed, Holds
  <2>4. \A j \in Jobs \ {t} : Unseen(j)
    BY <1>2, <1>a, <2>2
  <2>5. PhaseOf(t) = "new" /\ PhaseOf(t)' = "open" /\ VerdictOf(t)' = VerdictOf(t)
        /\ Heard(t)' = Heard(t)
    BY <1>2, <1>3, <2>2 DEF PhaseOf, VerdictOf, Sending
  <2>6. /\ [j \in Jobs |-> PhaseOf(j)'] = [[j \in Jobs |-> PhaseOf(j)] EXCEPT ![t] = "open"]
        /\ [j \in Jobs |-> VerdictOf(j)'] = [j \in Jobs |-> VerdictOf(j)]
        /\ [j \in Jobs |-> Heard(j)'] = [j \in Jobs |-> Heard(j)]
    BY <2>4, <2>5 DEF Unseen
  <2>7. \A k \in Jobs : PhaseOf(k) \in {"open", "decided"} => idOf[k] # msg.id
    <3>1. \A k \in Jobs : PhaseOf(k) \in {"open", "decided"} => k \in Busy
      BY <1>2 DEF PhaseOf, Sending, Busy
    <3> QED
      BY <2>2, <3>1, SessionAssumption DEF Inv, Bookkeeping
  <2>8. Promise!Accept(t, msg.id)
    BY <1>1, <2>2, <2>5, <2>6, <2>7 DEF Promise!Accept, Promise!Pending
  <2> QED
    BY <2>3, <2>8 DEF Promise!Next
<1>18. CASE Join
  <2>1. /\ mpc = "join" /\ mpc' = "exited" /\ joining \subseteq Completed
        /\ wpc' = [j \in Jobs |-> IF j \in joining THEN "joined" ELSE wpc[j]]
        /\ exit' = IF exit # None THEN exit ELSE IF healthy THEN 0 ELSE 3
        /\ UNCHANGED <<emit, out, stop, idOf>>
    BY <1>18 DEF Join
  <2>2. \A j \in Jobs : Unseen(j)
    <3> SUFFICES ASSUME NEW j \in Jobs PROVE Unseen(j)
      OBVIOUS
    <3>1. CASE j \in joining /\ wpc[j] = "done"
      BY <1>a, <2>1, <3>1
    <3>2. CASE ~(j \in joining /\ wpc[j] = "done")
      <4>1. wpc'[j] = wpc[j]
        BY <2>1, <3>2 DEF Completed
      <4> QED
        BY <1>a, <2>1, <4>1
    <3> QED
      BY <3>1, <3>2
  <2>3. \A j \in Jobs : wpc[j] = "new" \/ j \in Completed
    BY <2>1 DEF Inv, Bookkeeping, Busy, Completed
  <2>4. \A j \in Jobs : PhaseOf(j) \notin {"open", "decided"}
    BY <2>3 DEF PhaseOf, Sending, Completed
  <2>5. exit' \in {0, 2, 3} /\ (exit' = 0 => healthy)
    BY <2>1, SessionAssumption DEF Inv, Typed, TypeOK, Answers, AnswerDiscipline
  <2>6. healthy => \A j \in Jobs : PhaseOf(j) # "lost"
    BY <2>3 DEF PhaseOf, Sending, Completed, Inv, Answers, AnswerDiscipline, Replied
  <2>7. Promise!End(exit')
    BY <1>1, <2>1, <2>2, <2>4, <2>5, <2>6 DEF Unseen, Promise!End, Promise!Pending
  <2> QED
    BY <2>5, <2>7 DEF Promise!Next
<1> QED
  BY <1>4, <1>5, <1>6, <1>7, <1>8, <1>9, <1>10, <1>11, <1>12, <1>13, <1>15, <1>16,
     <1>17, <1>18 DEF MainStep, MainInternal

\* From outside, the sidecar is SessionPromise: every step of a thread is one of
\* its actions or invisible.
THEOREM SessionKeepsItsWord == Spec => KeepsItsWord
<1>1. ASSUME Inv, UNCHANGED vars
      PROVE  UNCHANGED Promise!vars
  <2>1. \A j \in Jobs : Unseen(j)
    BY <1>1 DEF vars, workVars, sinkVars, emitVars, Unseen, PhaseOf, VerdictOf, Heard,
       Sending, Answered, IsAnswer
  <2> QED
    BY <1>1, <2>1, UnseenIsStutter DEF vars, mainVars, mapVars, workVars, sinkVars
<1>2. Inv /\ [Next]_vars => [Promise!Next]_(Promise!vars)
  BY <1>1, PromiseEmit, PromiseWorker, PromiseMain DEF Next, MainStep, Terminated
<1> QED
  BY PromiseInit, <1>2, Invariance, PTL DEF Spec, KeepsItsWord, Promise!Spec

\* What the promise is worth on the wire: an answer is the only one of its
\* request, and "cancelled" only ever means that the job was asked to stop.
THEOREM HonestOnTheWire == Spec => []AnswersAreHonest
<1>1. Spec => []Promise!Honest
  BY SessionKeepsItsWord, Promise!PromiseIsHonest, PTL DEF KeepsItsWord
<1>2. ASSUME Promise!Honest PROVE AnswersAreHonest
  <2> SUFFICES ASSUME NEW j \in Jobs, NEW i \in 1..Len(wire), NEW k \in 1..Len(wire),
                      IsAnswer(i, j), IsAnswer(k, j)
               PROVE  /\ wire[i].env.code = wire[k].env.code
                      /\ wire[i].env.code = "request_cancelled" => stop[j]
    BY DEF AnswersAreHonest
  <2>1. wire[i].env.code \in Heard(j) /\ wire[k].env.code \in Heard(j)
    BY DEF Heard
  <2>2. PICK c : Heard(j) = {c} /\ (c = "request_cancelled" => j \in {n \in Jobs : stop[n]})
    BY <1>2, <2>1 DEF Promise!Honest
  <2> QED
    BY <2>1, <2>2
<1> QED
  BY <1>1, <1>2, PTL
=============================================================================
