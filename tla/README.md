# Robot Design Copilot in TLA+

A TLA+ development of Robot Design Copilot: its process boundary (the C++
sidecar that executes requests concurrently, the Rust client that owns that
process, the desktop application's engine slot and the page over it) and what happens to a request
inside the sidecar, down to the decisions of the design calculation.  The
modules are translated from `src/`; `PROJECT.json` maps each definition to its lines.

    tlc -workers 2 -config MCEngineSession_safety.cfg MCEngineSession.tla
    tlapm EngineSessionProofs.tla
    tlc -workers 2 -config MCRequestHandler.cfg MCRequestHandler.tla
    tlapm RequestHandlerProofs.tla
    tlapm EngineClientProofs.tla

A module's proofs are in a module of its name with `Proofs` appended; the few about
`SessionPromise` are in that module.

## 1. Inventory of the system

    React view ── Tauri command ──> DesktopEngine ── Arc ──> EngineClient
    (src/App.tsx)  (commands.rs)     (engine.rs)             (rust/engine-client)
                                                               │ stdin   ▲ stdout
                                                               ▼ frames  │ frames
                                       cli/main.cpp ──> EngineSession ──> workers
                                                        (session.cpp)     │
                                                                          ▼
                                      handler.cpp ──> kinematics, design calculation

| Component | State | Operations | Correct when | Module |
|---|---|---|---|---|
| Sidecar main loop and `EngineSession` (`cli/main.cpp`, `protocol/session.cpp`) | job map, stop tokens, `complete` flags, `accepting`, `output_healthy`, the stream and its mutex | read a frame, `accept`, `emit`, worker body, `finish`, `shutdown`, destructor | frames whole, one answer per request, unique ids in flight, no worker survives the session, exit value 0 means drained, cancellation takes effect; from outside, accepted requests are decided, told or lost | `EngineSession`, its promise `SessionPromise` |
| `EngineClient` (`rust/engine-client/src/lib.rs`) | pending senders, terminal error, `closed`, stdin handle and mutex, child | `request_with_progress`, `cancel`, stdout reader, `shutdown`/`Drop` | every call completes exactly once, nothing leaks, a timeout cancels its own request, shutdown leaves no child and no waiting call; callers see no more than a simple lifecycle | `EngineClient`, its promise `RequestLifecycle` |
| `DesktopEngine` (`src-tauri/src/engine.rs`), `EngineSupervisor` (same slot, in `lib.rs` of the client) | one optional client | `health`, `forward_kinematics`, `restart`, `shutdown` on exit | one engine in the end, restart replaces only a dead process, no orphan | `DesktopEngine` |
| Frame codec (`protocol/frame.cpp`) | none | `read_frame`, `write_frame` | length limits, end of input only at a frame boundary | steps of `EngineSession`; bytes planned |
| Request handler (`protocol/handler.cpp`) | none | `handle_message` | a fixed order of refusals, an answer for everything, under the request's own id | `RequestHandler` |
| Design calculation (`design/calculation.cpp`) | the result under construction | `calculate` | only a verified geometry succeeds, status, checks and coverage agree | `DesignCalculation` |
| Link length solver (`design/link_length_solver.cpp`, `verify_geometry` and `solve_ik` of `kinematics/parametric_arm.cpp`) | bracket, geometry, verification | `solve_link_lengths` | the bracket holds a change of reachability, halves, and ends | `LinkLengthSolver` |
| Joint requirements (`dynamics/joint_requirements.cpp`) | peaks | `calculate_dynamics` | peaks dominate and name their cases | `DesignCalculation`; the physics is not modelled |
| Input contract (`design/input_contract.cpp`) | list of issues | `parse_input` | the first issue is the first violation, an accepted document can be calculated | `InputContract` |
| Forward kinematics, IK iteration | none | numerical | — | not modelled: floating-point algorithms on third-party libraries |
| React view (`src/App.tsx`) | request and health states | submit, reset, restart | busy flags wait for something, poses fit the request state, one restart at a time | `DesktopView` |
| Build, packaging, scripts, dependency smoke checks | — | — | — | not modelled: no run-time state |

### What interacts with what

* The sidecar's main thread reads frames and calls `accept`.  Each accepted
  request gets a thread.  Workers and the reader share the job map (under
  `jobs_mutex`), `output_healthy` (an atomic), and stdout (under `sink_mutex`).
* The client's callers, its stdout reader and its shutdown share the pending
  map, the terminal error and the stdin handle, each under a mutex of its own.
  Events reach a caller over an mpsc channel.
* Tauri commands run on a thread pool and share one slot with the exit handler
  of the event loop.  Clients are reference counted: the last owner's drop
  shuts the process down.

### What is hard

* *Interleaving*: several writers of one stream around a health test that is
  made outside its lock; a reader that removes a sender and sends later; a slot
  that stays empty while a client is being shut down.
* *Partial failure*: stdout fails at any write, also during the drain; the
  sidecar dies or speaks nonsense at any moment; a thread or process cannot be
  started.
* *Timing*: cancellation against completion, a deadline against a late answer,
  completion against reaping, exit against restart.
* *Blocking*: a lock held across a pipe write, a join without deadline.
* *Numbers*: a midpoint that rounds to an end of its bracket, reachability that
  is not monotone, infinities and NaN from accepted inputs.

`PROJECT.json` lists every hazard at its line, with the properties that cover it.

## 2. The modules

    DesktopView ──extends──> DesktopEngine
    EngineClient ──implements──> RequestLifecycle
    EngineSession ──implements──> SessionPromise
    RequestHandler ──extends──> DesignCalculation ──extends──> LinkLengthSolver
                                                  └─extends──> InputContract

### EngineSession

Variables follow the C++ members: `jobs` is `Impl::jobs`, `joining` the local
`active` of `stop_and_join`, `stop` the jobs' stop tokens, `healthy` is
`output_healthy`, `sinkOwner` the holder of `sink_mutex`, `streamOk` the sticky
state of the stream, `wire` what reached stdout.  `mpc` and `wpc` are the
program counters of `main` and of the workers, `emit` that of `emit()` on each
thread.  `wpc[j] = "done"` is `Job::complete`, `"joined"` adds the join.

*Steps.*  A section under `jobs_mutex` takes no second lock and calls nothing
that blocks, so it is one step: `CancelJob`, `StartJob`, `RequestStopAll`,
`StopAndJoin`, `ReapCompleted` (which joins threads whose last statement was the
store of `complete`, so the join does not wait for anything modelled).
`emit()` is as many steps as it has points where another thread can intervene:
the health test, the lock, the header, the payload, the failure, the store of
`output_healthy`, and `request_stop_all`.

*Inputs.*  `Messages` are the classes `accept` tells apart.  `ReadBadFrame` is
everything `read_frame` rejects, `Finish` the end of input.  An executor may
report progress until it is stopped and return or throw at any time;
`ExecutorReplies` includes the null-id answer of `handle_message`'s catch-all.

*Abstractions.*  Payloads are reduced to writer, id and code.  `accept` and the
frame loop catch `parse_error` and `std::exception` respectively at the places
the code does; exceptions of the JSON library other than `parse_error` and of
allocation are outside the model.  A write to a pipe whose reader is gone is a
stream error (the process ignores the signal case).

### SessionPromise

The promise `EngineSession` keeps, without threads, locks, job map or frames: an
accepted request is open until its answer is decided, and the decision is then
told or, if the output is dead, lost.  An id is not accepted again while a request
with it is open or decided; an answer says "cancelled" exactly when the request
was stopped by the time it was decided; the process ends with nothing undecided,
and with 0 only if nothing was lost.  `EngineSession!Promise` instantiates it: a
request is open until its worker has looked at the stop token (`SendReply`),
decided until the worker is through `emit()`, and then told if its answer is on
the wire.  `KeepsItsWord` is `Promise!Spec`.

### EngineClient

`pending`, `termErr`, `closed`, `stdinOpen` are the struct's fields, `chan` the
channels, `failing` the senders a `fail_all` has taken and not yet told.  The
stdin mutex is a variable (`stdinOwner`) because it is held across `write_all`,
which blocks while the pipe is full (`PipeCap`) and the child neither reads nor
dies.  Deadlines are not clocks: `DeadlinePasses` may happen whenever
`recv_timeout` finds the channel empty, and `Kill` whenever `shutdown` polls.
The sidecar is external: it reads, writes any event (for a request it has read,
answered or not, or a frame the client rejects), closes its stdin and lives on
(`EngineTurnsDeaf`), and dies, as it likes.  History variables `inbound` and `sent`
record the traffic.

A `ClientError` is modelled by its variant, and only by that: `"protocol"` is what
a call gets for bad arguments (`RefuseArguments`) or a request that does not fit
into a frame (`RefuseOversized`), and also what `fail_all` sends when the reader
meets a frame it rejects (a `"bad"` event, which also stands for a `read()` that
fails: the reader then reports either `"protocol"` or `"io"`); `"io"` a failed write; `"closed"` a
client found closed, a stdin found taken, or `shutdown`'s `fail_all`; `"exited"`
the end of stdout.  A caller cannot tell these apart, nor can any property here.

### RequestLifecycle

The promise `EngineClient` keeps, without threads, locks, queues or pipes: a call
is idle, open or returned; its request is sent at most once; the engine may end
it at any time afterwards, and only the first word counts; a call whose request
was sent returns that word, times out, or fails with an error that had befallen the
client as a whole (`broken`), never with one of its own or another call's; only a
call that timed out is withdrawn.  It does *not* promise that an error tells
whether the request was sent: errors of one call (`Refusals`) and of the client
(`Breakdowns`) overlap in `"protocol"` and `"io"`, and `"closed"` too is returned
both for requests that were sent and for others, so a caller that repeats a failed
request may have it done twice.
`EngineClient!Lifecycle` instantiates it: a call is open from its first step to
its last, `broken` holds `"closed"` once a shutdown has begun and the terminal
error, `asked` and `withdrawn` are read off the frames in `inbound`, `said` is
a history of what the sidecar first wrote to end each call, and an outcome
exists once the call returned.  `KeepsThePromise` is `Lifecycle!Spec`.

### DesktopEngine and DesktopView

`slot` is `DesktopEngine::client`, `held` the `Arc` a command holds, `child` the
process of each client.  `client()` keeps the slot's lock from its test to its
store, so it is one step; `restart()` holds it only for the take and for the
store; the exit handler's `shutdown()` holds it until the client it took has
stopped, because the `if let` keeps its scrutinee's guard (`SlotFree`).  A client nobody owns is dropped (`DropClient`).  After
`ProcessEnds` no command proceeds, and sidecars see end of input.  Clients are
numbered in the order of their creation.

`ExitStopsEngines` says what the two `shutdown()` calls of the exit events achieve:
the application ends with no engine running, provided that no command is at work
after the second of them has taken the slot.  A request or restart that filled the
slot during the first is caught by the second; without the second (the mutant
`BugStopOnce`) an engine stays.  The proviso is needed: a restart that took its
client before and spawns afterwards leaves an engine that only has its end of input,
and the code has nothing against that (hazard at `lib.rs:24`).

`DesktopView` is the page of `App.tsx` on top: `requestState`, `healthPending`
and whether `result` holds a pose (`posed`).  `kind` and `answer` are what an
outstanding `invoke` asks for and got; `Begin`, `Works` and `Returns` are the
command on the Rust side (the actions of `DesktopEngine`), `HealthArrives` and
`PoseArrives` the code after the `await`s.  `strict` says whether StrictMode
(`main.tsx`) runs the mount effect twice, as it does in development.

### RequestHandler

One message from `accept()` to its answer.  `route` is what `accept()` decides
(a cancellation, the reader thread itself, a job, or an exception nobody
catches), `hpc` where `handle_message` is.  A message is a record of what the
checks distinguish: whether its text parses, its id, type, method, parameters.
`accept()` and `validate_request` each look for the id by a copy of their own of one
rule, so the model has it twice: `SessionIdText` from `session.cpp`, `HandlerIdText`
from `handler.cpp`, over ids that are missing, no string, empty, of 128 and of 129
bytes, or with a wrong character first or later.  `ReaderNeverWorks` breaks when the
handler's copy accepts more, `JobIsAnsweredAsItself` when the session's does.
`Checklist` has `validate_request`'s checks in order, and `Calculate` is a step
of `DesignCalculation`, so everything below runs inside a request; `HandlerFails`
is the catch-all, at any point.

### InputContract

`parse_input`, section by section (`Order`), with its accumulation of issues,
its early returns (`RefuseFields`) and the parts of `Input` later sections
compare with (`parsed`).  A section with rules of its own only is kept or broken
as a whole (`doc.plain`); frames, link ids, targets, cases, the vectors that
`read_vector3` may leave unwritten and the solver's limits are modelled rule by
rule.  `Kept` are the targets or cases whose fields `exact_keys` accepts: the loops
pass over the others and keep no trace but the issue.  A target's frame or a case's
target that is no string (`NotAString`) equals no frame and no target, also where
those were refused and are empty.  What an unwritten vector
compares to is chosen freely, and `tainted` remembers that a rule looked.  `Narrow` is `get<int>()`.

### LinkLengthSolver and DesignCalculation

`LinkLengthSolver` has the members of `LinkLengthSolveResult` as variables:
`lower`, `upper`, `iterations`, `scale` (of `geometry`), `verdict` (`status`),
and `evidence`, the scale that `verification` was made for.  The double interval
[0, 1] is a grid of `One + 1` points whose spacing is the last bit, so
`Midpoints` of neighbours round to one of them, either way.  `verify_geometry` is
deterministic and otherwise unknown: its value is chosen at the first
verification of a scale and remembered in `tested`; it need not be monotone.
`SolveIk` is the reduction over the five seeds that `solve_ik` makes: first
success, else least finite score, else the initial infinite residuals.

`DesignCalculation` extends it with the stages of `calculate`: `ReadInput` (the
input contract's steps), `RejectInput` or `AcceptInput`, `Solve` (the solver's steps), then one of `ReportUnreachable`,
`ReportNotConverged`, or `BeginDynamics`, `EvaluateCase` per case and
`ReportSuccess`.  `report` keeps the status, the ids of the passed and failed
checks, the reachable count, and whether all numbers in it are finite.  One
peak stands for the 7 x 6 that are updated alike; magnitudes are a few ordinary
values, infinity and NaN.  The motor-side numbers, products and quotients of the
peaks, may overflow although the peaks did not (`motorSide`).

## 3. Runs

| Run | Instance | Shows |
|---|---|---|
| `session_safety` | 2 ids, 2 jobs, 3 frames, no progress bound above 1 | frames whole, one answer, joins, exit 0, stop-all; 2.3 million states |
| `session_live` | 2 ids, 2 jobs, 2 frames | what an executor returned is answered; `finish()` ends the process once executors returned; leaving the loop on an error ends it; a cancellation decides the answer; the refinement of `SessionPromise`, and with it unique ids in flight |
| `client_safety` | 2 calls, 2 closers, 2 sidecar frames, a pipe of 1 | no stranded call, one completion, no leak, complete shutdown, cancel after timeout, and the refinement of `RequestLifecycle`; 1.4 million states |
| `client_live` | 2 calls, 1 closer, 1 frame | calls and shutdown return against a sidecar that reads or dies |
| `desktop` | 3 invocations, 2 at a time, 3 clients | one owner shuts a client down and sees it go; restart replaces a dead process; races settle on the slot's engine; the exit handler leaves none; the page's flags, pose and buttons; 200 000 states |
| `request_handler` | 8 kinds of wrong or boundary request id and 6 other departures from a good request, documents with up to two departures, 2 targets, 9 scales, tolerances 0..4, limits 1..4, 2 cases | routing and the answer's id; first issue, garbage, usability; final verification, halving, verified success, coverage, peaks; the message is answered; 790 000 states |
| six violation runs | | section 5 |

*Why the bounds suffice.*  Two jobs are enough for every pairwise interaction of
workers, and the third frame lets an id be reused, cancelled or rejected while
both run; with two ids one of them is reused.  The liveness runs use two frames:
the second is the cancellation, the duplicate or the competitor of the first.
Two calls contend for the stdin lock with a pipe that holds one frame, so the
second writer blocks; two closers give the early return of the second
`shutdown`.  Two sidecar frames are progress and answer, or an answer and a
duplicate, or one for each call.  Three
invocations are the two mount effects of StrictMode and a restart that one of
them frees too early, or a restart and a submission after the mount; a third
client is what a restart's `health()` starts when the fresh process has crashed,
and a command that finds no client left only models the failed spawn.  Pairs of
departures from a good document are what masking and follow-up issues take.

Nine scales are halved to the last bit in three passes, so a limit of four
includes passes that change nothing, and tolerances 0 and 4 the bracket that never
and at once is narrow enough.  Two targets separate "some" from "all", two cases
give a peak that is kept, tied or replaced.

*Symmetry* is declared only in a run without liveness, over sets no action orders.  *Deadlock* is checked for `EngineSession`, whose only resting
state is the exited process.  `CHECK_DEADLOCK FALSE` in the client, desktop and
request runs: with all calls returned, the application gone or the answer made,
these systems rest.

## 4. Fairness

* `EngineSession`: weak fairness of `emit`, of a worker's own steps and of
  `main`'s steps once it has a message: threads that can run do, and a write to
  stdout returns because the peer drains it or it fails.  No fairness for input:
  the peer may stay silent.  `CooperativeSpec` lets executors run for ever and
  makes them return once stopped, the contract `session.hpp` states; the shipped
  one, `handle_message`, returns by itself.
* `EngineClient`: weak fairness of each started caller, of the reader and of a
  started shutdown.  `ReadingEngineSpec` adds a sidecar that reads its stdin;
  `AnyEngineSpec` assumes nothing of it.  No fairness of answers or crashes:
  deadlines must do without.
* `DesktopView`: commands, destructors and the exit handler finish what they
  began (their waits are bounded by the shutdown timeout and the kill; that a
  request returns is `CallsReturn`, which needs a sidecar that reads or dies: against
  one that does neither, `client_timeout_blocked` shows that it may not), a
  sidecar whose stdin is closed leaves (`EngineSession`'s `FinishTerminates`), and
  the page's event loop takes every answer.  Nobody need click, crash or quit.
* `RequestHandler`: weak fairness of the steps one thread makes for a message
  (`HandlerWorks`).  The exception of `HandlerFails` is not among them: nothing
  is answered because something threw.

## 5. Disagreements met while modelling

| Run | Code | Said |
|---|---|---|
| `session_output_failure_in_drain` | `stop_and_join` empties the job map before joining, so an output failure in the drain leaves another executor running, unasked | `session.hpp:12`: an output failure "cancels in-flight work" |
| `session_null_id_answer` | `handle_message`'s catch-all answers with a null id after the id was read | `protocol/README.md:24-26` |
| `design_limits_narrowed` | iteration limits are narrowed to `int` before their range is tested: 4294967396 is taken for 100 | `design-input.schema.json:90-91`: maximum 5000 and 80 |
| `request_out_of_range` | a number no double holds makes `accept()` throw what nobody catches | `protocol/README.md:33`: "A request completes with either a response or an error" |
| `client_timeout_blocked` | the deadline starts after a write that may block | `README.md:87-88`: "enforces timeouts" |
| `design_finite_outputs` | the check `finite_outputs` is the literal `true`; accepted inputs may overflow | `units-and-frames.md:44`: "non-finite calculations become structured failures" |

The first needs an executor that only returns when stopped; today's executor
returns by itself, so the shipped sidecar still ends (`FinishTerminates`).

Also met, and harmless to a client that never repeats an id: a job is known until
the next frame reaps it, so an id may be refused as "already in flight"
(`session.cpp:289`) although its answer is out.

## 6. Proofs

### EngineSession

`EngineSessionProofs` proves, for any sets of ids and jobs and any bounds that
satisfy `SessionAssumption` (`Main` is no job, `None` is neither a job, an id, a
thread nor a number), that `Spec` implies `[]TypeOK`, `FramesNeverInterleave`,
`TerminalIsLast`, `InFlightUnique`, `NoWorkerOutlivesSession`,
`ExitZeroMeansDrained`, the action property `StopAllReachesAccepted`, the nested
temporal property `CancelIsFinal` and the refinement `KeepsItsWord`.

None of the invariants is inductive alone.  The inductive one is the conjunction of

* `Typed`: `TypeOK`, and which program counter holds an envelope, a message, an
  id or an exit value;
* `Bookkeeping`: every started worker that is not joined is in `jobs` under its
  own id, or in `joining`; `accepting` says which.  Uniqueness, the joins and
  the reach of `request_stop_all` follow from it;
* `Sink`: the lock's holder is the only thread past `EmitLock`, and the last
  chunk of the wire is a header exactly while its holder is about to write the
  payload, or the stream is broken.  Frame integrity follows from it;
* `Answers`: what each worker's counter says about its answer: none on the wire
  until it replies, delivered when it is done on a healthy output, last of its
  frames.  The one-answer and exit-value theorems follow from it.

Each part has a lemma that says every action preserves it, with one step per
action; the theorems combine them with `PTL`.

`CancellationIsFinal` needs a second invariant, `Cancelled(j)`, which holds from
the moment a running job is stopped and not before: the token stays set, what the
worker is sending is `request_cancelled`, and so is every answer of it on the wire.

`SessionKeepsItsWord` is a simulation: `PromiseEmit`, `PromiseWorker` and
`PromiseMain` show each step to be `Tell` (the payload of an answer is written),
`Lose` (a worker leaves `emit()` without having written it), `Fail`, `Decide`
(`SendReply`), `Accept` (`StartJob`), `Cancel` (each of the three ways to stop
jobs), `End` (`Join`), or invisible.  It uses the invariant above: `Bookkeeping`
for `Accept` and `End`, `Answers` for what is on the wire.  `SessionPromise` has a
theorem of its own, `PromiseIsHonest`, which the refinement carries to the wire
(`HonestOnTheWire`): no request is answered in two ways, and `request_cancelled` is
said only of a job that was asked to stop.

### InputContract

`InputContractProofs` has two inductive invariants of `parse_input`.

* `ContractInv`: what an accepting `ReadSolver` knows of every section read before
  it.  It gives `AcceptedUsable` (an accepted document keeps the contract and is
  usable) and `GarbageNeverDecides` (a rule that looked at unwritten memory left an
  issue of its own first).
* `FirstIssueInv`: for each section read so far, the ones before it have no issue
  if and only if none of them breaks the contract (`PrefixesAgree`); an issue
  is of a section already read, or is the exception's (`IssuesArePlaced`); and as
  long as there is no issue, what later sections compare with is the document's
  (`ComparedWith`).  The first issue therefore names the first breach, however many
  follow-up issues the defaults of a refused section cause (`FirstBreachNoted`), and
  the verdict is the contract's (`VerdictJudged`).

### DesignCalculation

`DesignCalculationProofs` proves, for any finite set of targets, grid, documents
and number of cases, that `Spec` implies `[]TypeOK`, `Bracketed`, `BracketHalves`,
`FinalVerificationHolds`, `SuccessIsVerified`, `CoverageFits`,
`PeakRetainsItsCase`, `AcceptedInputIsUsable`, `VerdictIgnoresGarbage` and
`FirstIssueIsFirstBreach`, and three that no run states:

* `ContractIsDecided`: `parse_input` accepts only documents that keep every rule,
  and refuses only those that break one, exceptions aside;
* `IterationLimitIsHonest`: "iteration limit" is reported only when the step
  tolerance is finer than 1/2^limit of the scale: neither rounding nor a strange
  set of reachable scales costs a pass;
* `ResultIsAboutTheDocument`: a result other than `invalid_input` is about a
  document that keeps the contract.

The inductive invariant is the conjunction of

* `Bracket`: the solver's types and bracket, and what each verdict implies about
  bracket and evidence.  That the final verification cannot fail follows from
  `VerifyRemembers`: what was said of a scale is said again;
* `Passes`: the width after each pass, and that the loop was left for a reason.
  The provers know no powers, so 2^n is reasoned about as the number of subsets of
  an n-element set (`PowerIsCount`), which gives `PowerDoubles` and `PowerZero`;
  `MidpointHalves` is the arithmetic of one pass, with the rounding either way;
* `Provenance`: which document and which outcome of the contract a stage and a
  result presuppose (`Settled`);
* `Calculation`: which verdict each stage and status presupposes;
* `Reported`: the result's type and `CoverageFits`, by the cardinality of subsets;
* `Peaks`: the peaks, and that an unnamed peak is zero, without which a first
  case of magnitude zero would not be seen to be named;
* `ContractInv` and `FirstIssueInv`, above.

Assumptions: those of the constants; `CalculationAssumption`, which says that
`Targets` and `NumCases` are those of the documents that keep the contract;
`ContractAssumption` and `IdAssumption`, which say what a document is (a rule of its own only for
the sections that have one, lists are sequences, no rule on the payload's centre of
mass); and `ReportAssumption`: `None` is no result.

### RequestHandler

`RequestHandlerProofs` shows that every step of `handle_message` is a step of
`DesignCalculation` or leaves it alone (`HandlerImplements`), so the theorems
about the calculation carry over to requests (`CalculationPromisesKept`).  From
the invariant `Sorting` (a message the reader kept fails one of the first checks or
is no JSON; a job's id is valid) and the lemma `CopiesAgree` (the two rules on
request ids are one) it proves that the reader thread never works
(`ReaderIsFree`) and that answers carry their id (`AnswersCarryTheirId`); from
`Replied` (an answer about a calculation is that of the finished result, for the
document of the message) `HandlerTypeCorrect` and `AnswerIsAboutTheMessage`, the
statement from end to end: "success" in an answer means that the document in that
very message keeps the contract and that the geometry was verified to its own
tolerance.  `ReplyAssumption`: `None` is no answer.

### EngineClient and the desktop

`EngineClientProofs` proves the client's safety invariants and, by simulation,
`PromiseIsKept`: `Spec` implies `RequestLifecycle` through the mapping above.  Its
inductive invariant is the conjunction of

* `Typed`: `TypeOK`, and what the reader holds at each counter;
* `Senders`: the one sender of a call is in `pending`, or in the reader's hand,
  or with one `fail_all`, or was used, as its channel shows; never in two of these
  places, and in none before it is registered;
* `Writings`: the frames in `inbound` are distinct, a cancellation follows its
  request, and where a call is says which of them it has written;
* `Words`: while a call is still pending, the first word about it in `outbound` is
  the first the sidecar ever wrote, hence what it gets: later ones find no sender;
* `Closing`: a shutdown that has dropped stdin's handle finds it closed ever after;
* `Causes`: every error in a channel, and the `Closed` of a call that found stdin
  taken, has befallen the client by then: the reader sets the terminal error, and a
  shutdown `closed`, before their `fail_all` sends either.  The refinement needs it
  for `Fail`; `closed` and the terminal error are never taken back (`BrokenGrows`).

`DesktopEngineProofs` proves `OneShutdown` and `RestartStopsPrevious` by ownership:
nothing in the slot is ever closed (`SlotOpen`), a taken client is shut down by one
thread only (`Stoppers`), a spawned one is private until it is stored
(`FreshIsPrivate`), and whoever closed a live process waits for it (`CloserWaits`).
`DesktopViewProofs` shows first that the page's behaviours are behaviours of
`DesktopEngine` (`ViewUsesEngine`), so these theorems hold under the page, then
proves `PageAgrees` and `OneRefresh` from `PageInv`: the page's types, `PageAgrees`
itself, and `SoleRefresh`, that without StrictMode a refresh is begun only when
`healthPending` shows none.

The assumptions of the client and the desktop modules say that calls, closers,
the reader and `None` are different, that `None` is none of the words it is told
apart from, that a pipe holds at least a frame, and that clients and commands are
numbered.

Left to TLC: all liveness (`EventuallyAnswered`, `FinishTerminates`,
`ShutdownTerminates`, `CancelTakesEffect`, `CallsReturn`, `ShutdownReturns`,
`RacesSettle`, `ExitStopsEngines`, `RestartComesBack`, `MessageIsAnswered`), which
rests on `ENABLED`.  Every invariant and action property that a passing run checks
is also proved.

## 7. Not modelled

* The clock.  A sidecar that floods progress can defer a deadline for ever
  (`lib.rs:293`, listed as a hazard): deadlines here may pass whenever the code
  looks, and the sidecar's frames are bounded.
* In the client: field-level validation of envelopes (one class of bad frame);
  its stderr reader (a bounded buffer nothing reads but diagnostics); a `kill` or
  `wait` that fails on the own child.  That a client whose reader has given up
  still counts as running (`engine.rs:82`) is in the hazards: only a restart
  replaces it, and the restart's properties do not depend on it.
* Numerical code on doubles: inverse and forward kinematics, dynamics,
  interpolation.  Their outcomes are chosen freely where decisions use them.
* Bytes: the length prefix and the UTF-8 of frames.  `EngineSession` has the
  outcomes of `read_frame` and `write_frame`.
* What is only displayed or copied: the health and error values of the page, the
  fields of a result that restate the input.
* Build and packaging.

## 8. Plan

1. `EngineSession`, its runs and proofs; `EngineClient`; the desktop.  Done.
2. `RequestLifecycle` and its refinement by `EngineClient`.  Done.
3. `RequestHandler`, `InputContract`, `DesignCalculation`, `LinkLengthSolver`, one
   composition, with proofs.  Done.
4. `DesktopView` over `DesktopEngine`.  Done.
5. Proofs of `EngineClient`, its refinement, `DesktopEngine` and `DesktopView`.  Done.
6. `SessionPromise` and its refinement by `EngineSession`; the bracket's halving, the
   first issue, and the end-to-end theorems about documents and answers.  Done.
7. Open: a composition of `EngineClient` with `SessionPromise` for its sidecar; the
   byte-level frame codec; clocks in `EngineClient`.
