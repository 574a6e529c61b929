---------------------------- MODULE DesktopView ----------------------------
(***************************************************************************)
(* The React view of src/App.tsx over DesktopEngine.  It invokes commands  *)
(* (src/engine.ts), each of which the engine slot works off on a thread of *)
(* its own, and its answers come back in any order into one view state.    *)
(*                                                                         *)
(* An event handler or the continuation of an await is one step: React     *)
(* renders what it set before the next event.  A finished invocation gives *)
(* its name back.  The engine's health and the last error are shown and    *)
(* never tested, so they are left out.  So is the plain browser preview    *)
(* (no Tauri runtime): it invokes nothing, and a submission there fails    *)
(* like an invalid one.                                                    *)
(***************************************************************************)
EXTENDS DesktopEngine, FiniteSets

CONSTANTS MaxInvocations    \* bound: commands the view invokes

ASSUME ViewAssumption ==
    /\ Commands \subseteq Nat /\ MaxInvocations \in Nat
    /\ None \notin {"health", "restart", "forward", "value", "error"}

VARIABLES
    kind,           \* what an outstanding invocation asks for
    answer,         \* its answer, once there is one
    strict,         \* StrictMode runs the mount effect twice (development)
    toMount,        \* runs of the mount effect to come
    invocations,    \* how many commands were invoked
    requestState,   \* App's requestState
    healthPending,  \* App's healthPending
    posed           \* App's result is not null

viewVars == <<requestState, healthPending, posed>>
callVars == <<kind, answer, strict, toMount, invocations>>
allVars  == <<vars, callVars, viewVars>>

Refreshes == {"health", "restart"}

ViewInit ==
    /\ Init
    /\ kind = [c \in Commands |-> None]
    /\ answer = [c \in Commands |-> None]
    /\ strict \in BOOLEAN
    /\ toMount = IF strict THEN 2 ELSE 1
    /\ invocations = 0
    /\ requestState = "idle"
    /\ healthPending = FALSE
    /\ posed = FALSE

-----------------------------------------------------------------------------
(* Events of the page                                                       *)

\* invoke(): the command is on its way to the thread pool, under a free name.
Invoke(c, k) ==
    /\ Executing
    /\ invocations < MaxInvocations
    /\ kind[c] = None /\ \A d \in Commands : kind[d] = None => c <= d
    /\ kind' = [kind EXCEPT ![c] = k]
    /\ invocations' = invocations + 1
    /\ UNCHANGED <<vars, answer, strict>>

\* refreshHealth(), from the effect that runs when the page is mounted.
Mount(c) ==
    /\ toMount > 0
    /\ Invoke(c, "health")
    /\ toMount' = toMount - 1
    /\ healthPending' = TRUE
    /\ UNCHANGED <<requestState, posed>>

\* Mutant of ClickRestart: the button is never disabled.
BugAlwaysEnabled(c) ==
    /\ toMount = 0
    /\ Invoke(c, "restart")
    /\ healthPending' = TRUE
    /\ UNCHANGED <<toMount, requestState, posed>>

\* refreshHealth(true), from a button disabled while healthPending.
ClickRestart(c) ==
    /\ toMount = 0 /\ ~healthPending
    /\ Invoke(c, "restart")
    /\ healthPending' = TRUE
    /\ UNCHANGED <<toMount, requestState, posed>>

\* submit() with seven finite numbers; its button is disabled while running.
Submit(c) ==
    /\ toMount = 0 /\ requestState # "running"
    /\ Invoke(c, "forward")
    /\ requestState' = "running"
    /\ posed' = FALSE
    /\ UNCHANGED <<toMount, healthPending>>

\* submit() with a field that parseJointFields refuses: nothing is invoked.
SubmitInvalid ==
    /\ Executing
    /\ toMount = 0 /\ requestState # "running"
    /\ requestState' = "failed"
    /\ posed' = FALSE
    /\ UNCHANGED <<vars, callVars, healthPending>>

\* "Reset zero pose" is never disabled: a running request is not called off.
Reset ==
    /\ Executing
    /\ toMount = 0
    /\ requestState' = "idle"
    /\ posed' = FALSE
    /\ UNCHANGED <<vars, callVars, healthPending>>

-----------------------------------------------------------------------------
(* The command in the engine slot                                           *)

Begin(c) ==
    /\ answer[c] = None
    /\ \/ kind[c] \in {"health", "forward"} /\ BeginRequest(c)
       \/ kind[c] = "restart" /\ TakeForRestart(c)
    /\ UNCHANGED <<callVars, viewVars>>

\* What the command returns: a value, or a CommandError.
Returns(c) ==
    /\ \/ SpawnFails(c) /\ answer' = [answer EXCEPT ![c] = "error"]
       \/ /\ RequestReturns(c)
          /\ \E a \in {"value", "error"} : answer' = [answer EXCEPT ![c] = a]
    /\ UNCHANGED <<kind, strict, toMount, invocations, viewVars>>

Works(c) ==
    /\ \/ UseRunning(c) \/ SpawnIntoSlot(c) \/ ClosePrevious(c)
       \/ ReapPrevious(c) \/ SpawnFresh(c) \/ StoreFresh(c)
    /\ UNCHANGED <<callVars, viewVars>>

-----------------------------------------------------------------------------
(* Answers                                                                  *)

\* The promise is settled and the invocation is over.
Settle(c) ==
    /\ answer[c] # None
    /\ kind' = [kind EXCEPT ![c] = None]
    /\ answer' = [answer EXCEPT ![c] = None]
    /\ Recycle(c)
    /\ UNCHANGED <<strict, toMount, invocations>>

\* Mutant of HealthArrives: setHealthPending(false) is not in `finally`.
BugPendingOnError(c) ==
    /\ kind[c] \in Refreshes
    /\ Settle(c)
    /\ healthPending' = (healthPending /\ answer[c] = "error")
    /\ UNCHANGED <<requestState, posed>>

\* The rest of refreshHealth: `finally` whatever came.
HealthArrives(c) ==
    /\ kind[c] \in Refreshes
    /\ Settle(c)
    /\ healthPending' = FALSE
    /\ UNCHANGED <<requestState, posed>>

\* Mutant of PoseArrives: an error is shown, but the state stays "running".
BugRunningOnError(c) ==
    /\ kind[c] = "forward"
    /\ Settle(c)
    /\ IF answer[c] = "value" THEN requestState' = "succeeded" /\ posed' = TRUE
                              ELSE UNCHANGED <<requestState, posed>>
    /\ UNCHANGED healthPending

\* The rest of submit, also when the page was reset or has submitted again.
PoseArrives(c) ==
    /\ kind[c] = "forward"
    /\ Settle(c)
    /\ \/ answer[c] = "value" /\ requestState' = "succeeded" /\ posed' = TRUE
       \/ answer[c] = "error" /\ requestState' = "failed" /\ UNCHANGED posed
    /\ UNCHANGED healthPending

-----------------------------------------------------------------------------
\* The engine's side of an invocation, and the page's.
Serve(c)   == Begin(c) \/ Returns(c) \/ Works(c)
Arrives(c) == HealthArrives(c) \/ PoseArrives(c)

ViewNext ==
    \/ \E c \in Commands :
           Mount(c) \/ ClickRestart(c) \/ Submit(c) \/ Serve(c) \/ Arrives(c)
    \/ SubmitInvalid \/ Reset
    \/ /\ \/ \E e \in Clients : DropClient(e) \/ EngineCrashes(e) \/ EngineReadsEof(e)
          \/ ExitTakes \/ ExitCloses \/ ExitReaps \/ ProcessEnds
       /\ UNCHANGED <<callVars, viewVars>>

ViewSpec == ViewInit /\ [][ViewNext]_allVars

\* Commands, destructors and the exit handler finish what they began, a sidecar
\* leaves on end of input (EngineSession: FinishTerminates), and the page's event
\* loop takes every answer.  Nobody need click, crash or quit.
FairViewSpec ==
    /\ ViewSpec
    /\ \A c \in Commands : WF_allVars(Serve(c)) /\ WF_allVars(Arrives(c))
    /\ \A e \in Clients :
           WF_allVars((DropClient(e) \/ EngineReadsEof(e)) /\ UNCHANGED <<callVars, viewVars>>)
    /\ WF_allVars((ExitStep \/ ProcessEnds) /\ UNCHANGED <<callVars, viewVars>>)

-----------------------------------------------------------------------------
(* Properties                                                               *)

\* Every variable holds a value of its kind.
ViewTypeOK ==
    /\ TypeOK
    /\ kind \in [Commands -> Refreshes \cup {"forward", None}]
    /\ answer \in [Commands -> {None, "value", "error"}]
    /\ strict \in BOOLEAN
    /\ toMount \in 0..2
    /\ invocations \in 0..MaxInvocations
    /\ requestState \in {"idle", "running", "succeeded", "failed"}
    /\ healthPending \in BOOLEAN
    /\ posed \in BOOLEAN

\* A disabled button waits for something: whatever overlaps, a busy flag that is
\* set has an invocation outstanding that will clear it (App.tsx:42, 85-89).
BusyMeansWaiting ==
    /\ requestState = "running" => \E c \in Commands : kind[c] = "forward"
    /\ healthPending => \E c \in Commands : kind[c] \in Refreshes

\* No pose is on the page while none was asked for or one is being computed,
\* and a success shows one: also when the answer is that of a request the user
\* has reset away (App.tsx:58-90).
PoseFitsState ==
    /\ requestState = "succeeded" => posed
    /\ posed => requestState \in {"succeeded", "failed"}

\* Together: overlapping answers leave no state that contradicts itself or what
\* is outstanding.
PageAgrees == BusyMeansWaiting /\ PoseFitsState

\* In production the page never has two health checks or restarts under way, so
\* restart() is not its own rival.  Under StrictMode it may: the second mount
\* effect's late answer enables the button of a restart that is still running.
OneRefresh ==
    ~strict => Cardinality({c \in Commands : kind[c] \in Refreshes}) <= 1

\* The restart button comes back, unless the application ends: the engine side
\* answers every command, through restarts, crashes and failed spawns.  (The
\* other button waits for less: BusyMeansWaiting, and a plain request.)
RestartComesBack == healthPending ~> (~healthPending \/ exit = "gone")
=============================================================================
