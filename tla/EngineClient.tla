---------------------------- MODULE EngineClient ----------------------------
(***************************************************************************)
(* EngineClient of rust/engine-client/src/lib.rs: callers that issue one   *)
(* request each, the stdout reader thread and shutdown(), sharing the      *)
(* pending map, the stdin handle and the terminal error; against a sidecar *)
(* process that may answer, fall silent, send nonsense or die at any time. *)
(*                                                                         *)
(* A section under the `pending`, `terminal_error` or `child` mutex is one *)
(* step.  The `stdin` mutex is held across blocking writes, so it is a     *)
(* variable.  Deadlines are not clocks: one may pass whenever the code     *)
(* looks at it.  A ClientError is its variant, however many causes the     *)
(* code gives that variant: a caller sees no more.                         *)
(***************************************************************************)
EXTENDS Naturals, Sequences

CONSTANTS
    Calls,      \* calls of request_with_progress; each has its own request id
    Closers,    \* threads that call shutdown()
    Reader,     \* the stdout reader thread
    None,       \* no result, no error, no owner, no event in hand
    PipeCap,    \* bound: frames the stdin pipe holds before a write blocks
    MaxEvents   \* bound: frames the sidecar writes, and reads that fail

ASSUME ClientAssumption ==
    /\ Calls \cap Closers = {} /\ Reader \notin Calls \cup Closers
    /\ None \notin Calls \cup Closers \cup {Reader}
    /\ None \notin {"response", "error", "closed", "exited", "protocol", "io",
                     "timeout"}
    /\ PipeCap \in Nat \ {0} /\ MaxEvents \in Nat

VARIABLES
    cpc,        \* where a call is
    result,     \* what a call returns
    chan,       \* the call's mpsc channel
    pending,    \* EngineClient::pending: calls with a registered sender
    termErr,    \* EngineClient::terminal_error
    closed,     \* EngineClient::closed
    stdinOwner, \* the holder of the stdin mutex
    stdinOpen,  \* the stdin Option is Some
    rpc,        \* where the reader is
    cur,        \* the event or error the reader holds
    failing,    \* per thread inside fail_all: calls still to be told
    spc,        \* where a closer is
    eng,        \* the child process
    inbound,    \* history: every frame written to its stdin
    taken,      \* how many of them it has read
    outbound,   \* frames it wrote that the reader has not read
    sent,       \* how many frames it wrote
    said        \* history: what it first wrote to end a call

callVars  == <<cpc, result>>
sharedVars == <<pending, termErr, closed>>
stdinVars == <<stdinOwner, stdinOpen>>
engVars   == <<eng, taken, outbound, sent, said>>
vars == <<callVars, chan, sharedVars, stdinVars, rpc, cur, failing, spc,
          engVars, inbound>>

Failers == Closers \cup {Reader}

Frames    == [kind : {"request", "cancel"}, call : Calls]
Terminals == {"response", "error"}

\* What is to be read: an event, or nothing that parse_event returns, namely a
\* frame it or read_frame rejects (a null or missing id, an unknown type, a bad
\* field, a bad length, a cut frame) or, in its place, a read() that fails.
Events == [kind : Terminals \cup {"progress"}, call : Calls]
              \cup [kind : {"bad"}, call : {None}]

\* ClientError::{Closed, ProcessExited, Protocol, Io}: what the client itself has
\* to report.  ClientError::Engine is the "error" among Terminals.
ClientErrors == {"closed", "exited", "protocol", "io"}

\* What the reader holds when it gives up.
ReaderErrors == [kind : ClientErrors \ {"closed"}, call : {None}]

\* A channel carries events, and the ClientError of a fail_all.
IsTerminal(k) == k # "progress"

Init ==
    /\ cpc = [c \in Calls |-> "idle"]
    /\ result = [c \in Calls |-> None]
    /\ chan = [c \in Calls |-> <<>>]
    /\ pending = {}
    /\ termErr = None
    /\ closed = FALSE
    /\ stdinOwner = None
    /\ stdinOpen = TRUE
    /\ rpc = "read"
    /\ cur = None
    /\ failing = [a \in Failers |-> {}]
    /\ spc = [s \in Closers |-> "idle"]
    /\ eng = "up"
    /\ inbound = <<>>
    /\ taken = 0
    /\ outbound = <<>>
    /\ sent = 0
    /\ said = [c \in Calls |-> None]

Go(c, pc)        == cpc' = [cpc EXCEPT ![c] = pc]
Return(c, value) == Go(c, "done") /\ result' = [result EXCEPT ![c] = value]

-----------------------------------------------------------------------------
(* request_with_progress                                                    *)

\* validate_method, or params that are no object: the first thing looked at.
RefuseArguments(c) ==
    /\ cpc[c] = "idle"
    /\ Return(c, "protocol")
    /\ UNCHANGED <<chan, sharedVars, stdinVars, rpc, cur, failing, spc, engVars, inbound>>

\* The `closed` test.
BeginCall(c) ==
    /\ cpc[c] = "idle"
    /\ IF closed THEN Return(c, "closed") ELSE Go(c, "check") /\ UNCHANGED result
    /\ UNCHANGED <<chan, sharedVars, stdinVars, rpc, cur, failing, spc, engVars, inbound>>

\* The terminal error, if there is one.
CheckTerminalError(c) ==
    /\ cpc[c] = "check"
    /\ IF termErr # None THEN Return(c, termErr) ELSE Go(c, "insert") /\ UNCHANGED result
    /\ UNCHANGED <<chan, sharedVars, stdinVars, rpc, cur, failing, spc, engVars, inbound>>

\* The sender is registered before the request is written.
InsertPending(c) ==
    /\ cpc[c] = "insert"
    /\ pending' = pending \cup {c}
    /\ Go(c, "lock")
    /\ UNCHANGED <<result, chan, termErr, closed, stdinVars, rpc, cur, failing,
                   spc, engVars, inbound>>

\* write_envelope refuses a frame that is too large before it asks for the lock.
\* (A cancellation never is.)
RefuseOversized(c) ==
    /\ cpc[c] = "lock"
    /\ result' = [result EXCEPT ![c] = "protocol"]
    /\ Go(c, "forget")
    /\ UNCHANGED <<chan, sharedVars, stdinVars, rpc, cur, failing, spc, engVars, inbound>>

\* write_envelope, for the request and later for its cancellation.
LockStdin(c) ==
    /\ stdinOwner = None
    /\ \/ cpc[c] = "lock" /\ Go(c, "write")
       \/ cpc[c] = "cancel" /\ Go(c, "write_cancel")
    /\ stdinOwner' = c
    /\ UNCHANGED <<result, chan, sharedVars, stdinOpen, rpc, cur, failing, spc,
                   engVars, inbound>>

PipeHasRoom == Len(inbound) - taken < PipeCap

\* write_all blocks, holding the lock, while the child keeps its end of the pipe
\* open and does not read.
WriteFrame(c) ==
    /\ stdinOpen /\ eng = "up" /\ PipeHasRoom
    /\ \/ /\ cpc[c] = "write"
          /\ inbound' = Append(inbound, [kind |-> "request", call |-> c])
          /\ Go(c, "wait")
       \/ /\ cpc[c] = "write_cancel"
          /\ inbound' = Append(inbound, [kind |-> "cancel", call |-> c])
          /\ Go(c, "done")
    /\ stdinOwner' = None
    /\ UNCHANGED <<result, chan, sharedVars, stdinOpen, rpc, cur, failing, spc, engVars>>

\* Mutant of WriteFails: the request waits although it was never sent.
BugWaitUnsent(c) ==
    /\ ~stdinOpen \/ eng # "up"
    /\ \/ cpc[c] = "write" /\ Go(c, "wait")
       \/ cpc[c] = "write_cancel" /\ Go(c, "done")
    /\ stdinOwner' = None
    /\ UNCHANGED <<result, chan, sharedVars, stdinOpen, rpc, cur, failing, spc,
                   engVars, inbound>>

\* The handle was taken, or nobody has the other end of the pipe any more.  A
\* failed cancellation is ignored, a failed request is forgotten.
WriteFails(c) ==
    /\ ~stdinOpen \/ eng # "up"
    /\ \/ /\ cpc[c] = "write"
          /\ result' = [result EXCEPT ![c] = IF stdinOpen THEN "io" ELSE "closed"]
          /\ Go(c, "forget")
       \/ /\ cpc[c] = "write_cancel"
          /\ Go(c, "done") /\ UNCHANGED result
    /\ stdinOwner' = None
    /\ UNCHANGED <<chan, sharedVars, stdinOpen, rpc, cur, failing, spc, engVars, inbound>>

\* recv_timeout yields an event: progress is passed on, the rest is the result.
Receive(c) ==
    /\ cpc[c] = "wait" /\ chan[c] # <<>>
    /\ chan' = [chan EXCEPT ![c] = Tail(@)]
    /\ IF IsTerminal(Head(chan[c])) THEN Return(c, Head(chan[c]))
                                    ELSE UNCHANGED callVars
    /\ UNCHANGED <<sharedVars, stdinVars, rpc, cur, failing, spc, engVars, inbound>>

\* Mutant of DeadlinePasses: recv() for recv_timeout(), which takes no deadline.
BugNoDeadline(c) ==
    /\ cpc[c] = "wait" /\ chan[c] = <<>>
    /\ rpc = "gone" /\ failing[Reader] = {} /\ c \notin pending
    /\ Return(c, termErr)
    /\ UNCHANGED <<chan, sharedVars, stdinVars, rpc, cur, failing, spc, engVars, inbound>>

\* recv_timeout finds the channel empty and the deadline passed.
DeadlinePasses(c) ==
    /\ cpc[c] = "wait" /\ chan[c] = <<>>
    /\ result' = [result EXCEPT ![c] = "timeout"]
    /\ Go(c, "forget")
    /\ UNCHANGED <<chan, sharedVars, stdinVars, rpc, cur, failing, spc, engVars, inbound>>

\* Mutant of Forget: nobody tells the engine about the timeout.
BugNoCancel(c) ==
    /\ cpc[c] = "forget"
    /\ pending' = pending \ {c}
    /\ Go(c, "done")
    /\ UNCHANGED <<result, chan, termErr, closed, stdinVars, rpc, cur, failing,
                   spc, engVars, inbound>>

\* pending.remove; after a timeout the engine is then asked to cancel.
Forget(c) ==
    /\ cpc[c] = "forget"
    /\ pending' = pending \ {c}
    /\ Go(c, IF result[c] = "timeout" THEN "cancel" ELSE "done")
    /\ UNCHANGED <<result, chan, termErr, closed, stdinVars, rpc, cur, failing,
                   spc, engVars, inbound>>

\* Everything a caller does by itself once it has started, if its request fits
\* into a frame.
Caller(c) ==
    \/ CheckTerminalError(c) \/ InsertPending(c) \/ LockStdin(c)
    \/ WriteFrame(c) \/ WriteFails(c) \/ Receive(c) \/ DeadlinePasses(c) \/ Forget(c)

-----------------------------------------------------------------------------
(* fail_all, on the reader or on a closer                                   *)

\* mem::take under the lock.
TakePending(a) ==
    /\ failing' = [failing EXCEPT ![a] = pending]
    /\ pending' = {}

\* Mutant of FailNext: whoever calls it, the client is said to be closed.
BugFailAsClosed(a) ==
    /\ \E c \in failing[a] :
           /\ chan' = [chan EXCEPT ![c] = Append(@, "closed")]
           /\ failing' = [failing EXCEPT ![a] = @ \ {c}]
    /\ UNCHANGED <<callVars, sharedVars, stdinVars, rpc, cur, spc, engVars, inbound>>

\* One send of the loop after it: the reader's error, or Closed.
FailNext(a) ==
    /\ \E c \in failing[a] :
           /\ chan' = [chan EXCEPT ![c] =
                           Append(@, IF a = Reader THEN cur.kind ELSE "closed")]
           /\ failing' = [failing EXCEPT ![a] = @ \ {c}]
    /\ UNCHANGED <<callVars, sharedVars, stdinVars, rpc, cur, spc, engVars, inbound>>

-----------------------------------------------------------------------------
(* The stdout reader                                                        *)

\* Mutants of ReadEvent: progress completes the request; a completing event
\* leaves the sender registered.
BugProgressCompletes ==
    /\ rpc = "read" /\ outbound # <<>> /\ Head(outbound).kind # "bad"
    /\ outbound' = Tail(outbound)
    /\ LET e == Head(outbound)
       IN  IF e.call \in pending
           THEN cur' = e /\ rpc' = "send" /\ pending' = pending \ {e.call}
           ELSE UNCHANGED <<cur, rpc, pending>>
    /\ UNCHANGED <<callVars, chan, termErr, closed, stdinVars, failing, spc,
                   eng, taken, sent, said, inbound>>

BugSenderStays ==
    /\ rpc = "read" /\ outbound # <<>> /\ Head(outbound).kind # "bad"
    /\ outbound' = Tail(outbound)
    /\ LET e == Head(outbound)
       IN  IF e.call \in pending THEN cur' = e /\ rpc' = "send"
                                 ELSE UNCHANGED <<cur, rpc>>
    /\ UNCHANGED <<callVars, chan, sharedVars, stdinVars, failing, spc,
                   eng, taken, sent, said, inbound>>

\* A valid event: the sender is looked up, and removed if the event completes
\* the request.  An unknown id is dropped.
ReadEvent ==
    /\ rpc = "read" /\ outbound # <<>> /\ Head(outbound).kind # "bad"
    /\ outbound' = Tail(outbound)
    /\ LET e == Head(outbound)
       IN  IF e.call \in pending
           THEN /\ cur' = e
                /\ rpc' = "send"
                /\ pending' = IF e.kind \in Terminals THEN pending \ {e.call} ELSE pending
           ELSE UNCHANGED <<cur, rpc, pending>>
    /\ UNCHANGED <<callVars, chan, termErr, closed, stdinVars, failing, spc,
                   eng, taken, sent, said, inbound>>

\* sender.send, outside the lock.
SendEvent ==
    /\ rpc = "send"
    /\ chan' = [chan EXCEPT ![cur.call] = Append(@, cur.kind)]
    /\ cur' = None
    /\ rpc' = "read"
    /\ UNCHANGED <<callVars, sharedVars, stdinVars, failing, spc, engVars, inbound>>

\* Mutant of ReaderStops: the end of stdout has no error value.
BugEofIsNoError ==
    /\ rpc = "read" /\ outbound = <<>> /\ eng = "dead"
    /\ cur' = [kind |-> "eof", call |-> None]
    /\ rpc' = "set_error"
    /\ UNCHANGED <<callVars, chan, sharedVars, stdinVars, failing, spc, engVars, inbound>>

\* End of stdout, a frame parse_event rejects, an I/O error: the reader gives up.
ReaderStops ==
    /\ rpc = "read"
    /\ \/ /\ outbound = <<>> /\ eng = "dead"
          /\ cur' = [kind |-> "exited", call |-> None] /\ UNCHANGED outbound
       \/ /\ outbound # <<>> /\ Head(outbound).kind = "bad"
          /\ cur' \in [kind : {"protocol", "io"}, call : {None}]
          /\ outbound' = Tail(outbound)
    /\ rpc' = "set_error"
    /\ UNCHANGED <<callVars, chan, sharedVars, stdinVars, failing, spc,
                   eng, taken, sent, said, inbound>>

\* The terminal error is set before the map is emptied.
SetTerminalError ==
    /\ rpc = "set_error"
    /\ termErr' = cur.kind
    /\ rpc' = "fail_all"
    /\ UNCHANGED <<callVars, chan, pending, closed, stdinVars, cur, failing, spc,
                   engVars, inbound>>

ReaderFailsAll ==
    /\ rpc = "fail_all"
    /\ TakePending(Reader)
    /\ rpc' = "gone"
    /\ UNCHANGED <<callVars, chan, termErr, closed, stdinVars, cur, spc, engVars, inbound>>

ReaderStep ==
    \/ ReadEvent \/ SendEvent \/ ReaderStops \/ SetTerminalError \/ ReaderFailsAll
    \/ FailNext(Reader)

-----------------------------------------------------------------------------
(* shutdown(), also called by Drop                                          *)

Walk(s, pc) == spc' = [spc EXCEPT ![s] = pc]

\* closed.swap(true): the first caller goes on; a later one only looks at the
\* child and returns, and may come again.
BeginShutdown(s) ==
    /\ spc[s] = "idle"
    /\ IF closed THEN UNCHANGED spc ELSE Walk(s, "close_stdin")
    /\ closed' = TRUE
    /\ UNCHANGED <<callVars, chan, pending, termErr, stdinVars, rpc, cur, failing,
                   engVars, inbound>>

\* lock(&self.stdin).take(): waits for a blocked writer.
CloseStdin(s) ==
    /\ spc[s] = "close_stdin"
    /\ stdinOwner = None
    /\ stdinOpen' = FALSE
    /\ Walk(s, "fail_all")
    /\ UNCHANGED <<callVars, chan, sharedVars, stdinOwner, rpc, cur, failing,
                   engVars, inbound>>

CloserFailsAll(s) ==
    /\ spc[s] = "fail_all"
    /\ TakePending(s)
    /\ Walk(s, "poll")
    /\ UNCHANGED <<callVars, chan, termErr, closed, stdinVars, rpc, cur, engVars, inbound>>

\* try_wait in the polling loop.
SeeExit(s) ==
    /\ spc[s] = "poll" /\ failing[s] = {}
    /\ eng = "dead"
    /\ Walk(s, "stopped")
    /\ UNCHANGED <<callVars, chan, sharedVars, stdinVars, rpc, cur, failing, engVars, inbound>>

\* Mutant of Kill: the deadline is only looked at while the reader runs.
BugKillNeedsReader(s) ==
    /\ spc[s] = "poll" /\ failing[s] = {}
    /\ eng # "dead" /\ rpc # "gone"
    /\ eng' = "dead"
    /\ Walk(s, "stopped")
    /\ UNCHANGED <<callVars, chan, sharedVars, stdinVars, rpc, cur, failing,
                   taken, outbound, sent, said, inbound>>

\* The deadline: kill and wait, under the child mutex.
Kill(s) ==
    /\ spc[s] = "poll" /\ failing[s] = {}
    /\ eng # "dead"
    /\ eng' = "dead"
    /\ Walk(s, "stopped")
    /\ UNCHANGED <<callVars, chan, sharedVars, stdinVars, rpc, cur, failing,
                   taken, outbound, sent, said, inbound>>

Closer(s) ==
    \/ CloseStdin(s) \/ CloserFailsAll(s) \/ FailNext(s) \/ SeeExit(s) \/ Kill(s)

-----------------------------------------------------------------------------
(* The sidecar, as far as its client can tell                               *)

EngineReads ==
    /\ eng = "up" /\ taken < Len(inbound)
    /\ taken' = taken + 1
    /\ UNCHANGED <<callVars, chan, sharedVars, stdinVars, rpc, cur, failing, spc,
                   eng, outbound, sent, said, inbound>>

Received == {c \in Calls : \E i \in 1..taken : inbound[i].call = c}

EngineWrites ==
    /\ eng # "dead" /\ rpc # "gone" /\ sent < MaxEvents
    /\ \E e \in Events :
           /\ e.call \in Received \cup {None}
           /\ outbound' = Append(outbound, e)
           /\ said' = IF e.kind \in Terminals /\ said[e.call] = None
                      THEN [said EXCEPT ![e.call] = e.kind] ELSE said
    /\ sent' = sent + 1
    /\ UNCHANGED <<callVars, chan, sharedVars, stdinVars, rpc, cur, failing, spc,
                   eng, taken, inbound>>

\* It closes its end of its stdin and lives on: of consequence as long as there is
\* somebody to write.
EngineTurnsDeaf ==
    /\ eng = "up" /\ stdinOpen
    /\ eng' = "deaf"
    /\ UNCHANGED <<callVars, chan, sharedVars, stdinVars, rpc, cur, failing, spc,
                   taken, outbound, sent, said, inbound>>

\* It exits on end of input, or crashes.
EngineExits ==
    /\ eng # "dead"
    /\ eng' = "dead"
    /\ UNCHANGED <<callVars, chan, sharedVars, stdinVars, rpc, cur, failing, spc,
                   taken, outbound, sent, said, inbound>>

-----------------------------------------------------------------------------
Next ==
    \/ \E c \in Calls :
           RefuseArguments(c) \/ BeginCall(c) \/ RefuseOversized(c) \/ Caller(c)
    \/ ReaderStep
    \/ \E s \in Closers : BeginShutdown(s) \/ Closer(s)
    \/ EngineReads \/ EngineWrites \/ EngineTurnsDeaf \/ EngineExits

Spec == Init /\ [][Next]_vars

\* Every client thread that can take a step does, deadlines pass and locks are
\* handed on.  Nothing is asked of the sidecar.
ClientFairness ==
    /\ \A c \in Calls : WF_vars(Caller(c))
    /\ WF_vars(ReaderStep)
    /\ \A s \in Closers : WF_vars(Closer(s))

AnyEngineSpec == Spec /\ ClientFairness

\* A sidecar that keeps reading its stdin until it closes it or dies.
ReadingEngineSpec == Spec /\ ClientFairness /\ WF_vars(EngineReads)

-----------------------------------------------------------------------------
(* The promise this client keeps (RequestLifecycle)                         *)

Phase ==
    [c \in Calls |-> CASE cpc[c] = "idle" -> "idle"
                       [] cpc[c] = "done" -> "returned"
                       [] OTHER -> "open"]

Asked(kind) == {c \in Calls : \E i \in 1..Len(inbound) :
                                 inbound[i] = [kind |-> kind, call |-> c]}

\* What has failed for all calls at once: shutdown() began, the reader gave up.
Broken == (IF closed THEN {"closed"} ELSE {}) \cup ({termErr} \ {None})

\* A result is decided before the call returns it.
Outcome == [c \in Calls |-> IF cpc[c] = "done" THEN result[c] ELSE None]

Lifecycle == INSTANCE RequestLifecycle WITH
    Answers    <- Terminals,
    Refusals   <- {"protocol", "io"},
    Breakdowns <- ClientErrors,
    TimedOut   <- "timeout",
    phase      <- Phase,
    asked      <- Asked("request"),
    broken     <- Broken,
    outcome    <- Outcome,
    withdrawn  <- Asked("cancel")

-----------------------------------------------------------------------------
(* Properties                                                               *)

\* Every variable holds a value of its kind.
TypeOK ==
    /\ cpc \in [Calls -> {"idle", "check", "insert", "lock", "write", "wait",
                          "forget", "cancel", "write_cancel", "done"}]
    /\ result \in [Calls -> Terminals \cup ClientErrors \cup {"timeout", None}]
    /\ chan \in [Calls -> Seq(Terminals \cup ClientErrors \cup {"progress"})]
    /\ pending \subseteq Calls
    /\ termErr \in {None, "exited", "protocol", "io"}
    /\ closed \in BOOLEAN
    /\ stdinOwner \in Calls \cup {None}
    /\ stdinOpen \in BOOLEAN
    /\ rpc \in {"read", "send", "set_error", "fail_all", "gone"}
    /\ cur \in Events \cup ReaderErrors \cup {None}
    /\ failing \in [Failers -> SUBSET Calls]
    /\ spc \in [Closers -> {"idle", "close_stdin", "fail_all", "poll", "stopped"}]
    /\ eng \in {"up", "deaf", "dead"}
    /\ inbound \in Seq(Frames)
    /\ taken \in 0..Len(inbound)
    /\ outbound \in Seq(Events)
    /\ sent \in 0..MaxEvents
    /\ said \in [Calls -> Terminals \cup {None}]

HasTerminal(c) == \E i \in 1..Len(chan[c]) : IsTerminal(chan[c][i])

\* The places a call's one sender can be.
InHand(c)    == rpc = "send" /\ cur.kind \in Terminals /\ cur.call = c
BeingTold(c) == \E a \in Failers : c \in failing[a]

\* A waiting call is never stranded: its sender is registered, or its terminal
\* event is queued or about to be.  recv_timeout's Disconnected arm
\* (lib.rs:303) is unreachable.
NoCallStranded ==
    \A c \in Calls : cpc[c] = "wait" =>
        c \in pending \/ HasTerminal(c) \/ InHand(c) \/ BeingTold(c)

\* A call is completed by one event only, however an answer, a reader failure
\* and a shutdown race: the sender has one holder, a completed call none, and a
\* call that has returned left nothing in the pending map.
OneCompletion ==
    \A c \in Calls :
        /\ cpc[c] = "done" => c \notin pending
        /\ ~(c \in pending /\ (HasTerminal(c) \/ InHand(c) \/ BeingTold(c)))
        /\ ~(HasTerminal(c) /\ (InHand(c) \/ BeingTold(c)))
        /\ ~(InHand(c) /\ BeingTold(c))
        /\ \A a, b \in Failers : c \in failing[a] \cap failing[b] => a = b
        /\ \A i, k \in 1..Len(chan[c]) :
               IsTerminal(chan[c][i]) /\ IsTerminal(chan[c][k]) => i = k

\* The shutdown() that did the work returns only when the child is gone, and
\* from its polling on no call waits for an answer that cannot come: each was
\* told, or will find stdin closed.
ShutdownIsComplete ==
    \A s \in Closers :
        /\ spc[s] = "stopped" => eng = "dead"
        /\ spc[s] \in {"poll", "stopped"} =>
               \A c \in pending : cpc[c] \in {"lock", "write", "forget"}

\* A timed-out request is cancelled after it was sent, once, and only then.
CancelFollowsTimeout ==
    /\ \A i \in 1..Len(inbound) : inbound[i].kind = "cancel" =>
           /\ result[inbound[i].call] = "timeout"
           /\ \E k \in 1..(i - 1) : inbound[k] =
                  [kind |-> "request", call |-> inbound[i].call]
    /\ \A i, k \in 1..Len(inbound) : inbound[i] = inbound[k] => i = k
    /\ \A c \in Calls :
           cpc[c] = "done" /\ result[c] = "timeout" /\ stdinOpen /\ eng = "up" =>
               \E i \in 1..Len(inbound) :
                   inbound[i] = [kind |-> "cancel", call |-> c]

\* The races of threads, locks and queues stay inside: to its callers and to the
\* engine the client looks like RequestLifecycle.  An answer belongs to the call
\* that returns it and is the first the engine gave, whatever it sends twice or
\* late; a call whose request was sent fails only with an error the client as a
\* whole had run into by then, never with one of its own or another call's; only
\* a timeout withdraws.  The error does not say whether the request was sent
\* (lib.rs:269-289, 336, 415-422).
KeepsThePromise == Lifecycle!Spec

\* A call that has begun returns: README.md:87-88, the client "enforces
\* timeouts".  It needs a sidecar that reads its stdin or dies; the deadline
\* only starts once the request is written (lib.rs:291).
CallsReturn == \A c \in Calls : cpc[c] = "check" ~> cpc[c] = "done"

\* shutdown() returns and leaves no child (docs/architecture/src-tauri.md:93).
\* It needs the same: it waits for the stdin lock before its deadline starts.
ShutdownReturns == \A s \in Closers : spc[s] = "close_stdin" ~> spc[s] = "stopped"
=============================================================================
