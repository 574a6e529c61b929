--------------------------- MODULE DesktopEngine ---------------------------
(***************************************************************************)
(* DesktopEngine of src-tauri/src/engine.rs: one slot for the current      *)
(* engine client, used by Tauri commands that run on a thread pool         *)
(* (commands.rs, command(async)) and by the event loop's exit handler      *)
(* (lib.rs).  EngineSupervisor of rust/engine-client has the same slot and *)
(* the same operations.                                                    *)
(*                                                                         *)
(* client() holds the slot mutex from its test to its store, and           *)
(* shutdown() until the client it took has stopped (the scrutinee of an    *)
(* `if let` lives as long as its body); restart() holds it only for the    *)
(* take and for the store.  A client is a process and an Arc: when the     *)
(* last Arc goes, Drop shuts the process down.  EngineClient is detailed   *)
(* in the module of that name.                                             *)
(***************************************************************************)
EXTENDS Naturals

CONSTANTS
    Commands,   \* invocations of a Tauri command
    Clients,    \* EngineClient objects, in the order of creation (a bound)
    None        \* an empty slot, no client held

ASSUME DesktopAssumption ==
    /\ Clients \subseteq Nat
    /\ None \notin Clients

VARIABLES
    slot,       \* DesktopEngine::client
    child,      \* the process of a client: "none", "up" or "dead"
    closed,     \* EngineClient::closed
    pc,         \* where a command is
    held,       \* the Arc a command holds
    took,       \* history: the client a restart took out of the slot
    exit,       \* where the exit handler is
    exitHeld    \* the Arc it holds

cmdVars == <<pc, held, took>>
exitVars == <<exit, exitHeld>>
vars == <<slot, child, closed, cmdVars, exitVars>>

Init ==
    /\ slot = None
    /\ child = [e \in Clients |-> "none"]
    /\ closed = [e \in Clients |-> FALSE]
    /\ pc = [c \in Commands |-> "idle"]
    /\ held = [c \in Commands |-> None]
    /\ took = [c \in Commands |-> None]
    /\ exit = "running"
    /\ exitHeld = None

Go(c, l) == pc' = [pc EXCEPT ![c] = l]

\* The application process still executes code.
Executing == exit # "gone"

\* The slot mutex, which only the exit handler holds from one step to another.
SlotFree == exit \notin {"stop_requested", "stop_exit"}

\* is_running().
Running(e) == e # None /\ child[e] = "up"

\* EngineClient::spawn_command: the next client, with a process of its own.
Spawn(e) ==
    /\ child[e] = "none" /\ \A f \in Clients : child[f] = "none" => e <= f
    /\ child' = [child EXCEPT ![e] = "up"]

\* EngineClient::shutdown, its two ends: the client refuses requests from here,
Close(e) == closed' = [closed EXCEPT ![e] = TRUE]

\* and here the process has gone, by itself or by force.
Reap(e) == child' = [child EXCEPT ![e] = "dead"]

-----------------------------------------------------------------------------
(* Commands                                                                 *)

\* engine_health and forward_kinematics begin with client().
BeginRequest(c) ==
    /\ Executing
    /\ pc[c] = "idle"
    /\ Go(c, "client")
    /\ UNCHANGED <<slot, child, closed, held, took, exitVars>>

\* client(), a running one.
UseRunning(c) ==
    /\ Executing /\ SlotFree /\ pc[c] = "client"
    /\ Running(slot)
    /\ held' = [held EXCEPT ![c] = slot]
    /\ Go(c, "request")
    /\ UNCHANGED <<slot, child, closed, took, exitVars>>

\* Mutant of SpawnIntoSlot: the new client's state is not a process state.
BugSpawnStarting(c) ==
    /\ Executing /\ SlotFree /\ pc[c] = "client"
    /\ ~Running(slot)
    /\ \E e \in Clients :
           /\ child[e] = "none"
           /\ child' = [child EXCEPT ![e] = "starting"]
           /\ slot' = e
           /\ held' = [held EXCEPT ![c] = e]
    /\ Go(c, "request")
    /\ UNCHANGED <<closed, took, exitVars>>

\* client(), none or a dead one: spawn and store, under one lock.
SpawnIntoSlot(c) ==
    /\ Executing /\ SlotFree /\ pc[c] = "client"
    /\ ~Running(slot)
    /\ \E e \in Clients :
           /\ Spawn(e)
           /\ slot' = e
           /\ held' = [held EXCEPT ![c] = e]
    /\ Go(c, "request")
    /\ UNCHANGED <<closed, took, exitVars>>

\* spawn() fails: the command returns engine_start_failed.
SpawnFails(c) ==
    /\ Executing
    /\ \/ pc[c] = "client" /\ SlotFree /\ ~Running(slot)
       \/ pc[c] = "spawn"
    /\ Go(c, "done")
    /\ UNCHANGED <<slot, child, closed, held, took, exitVars>>

\* Mutant of RequestReturns: the Arc is never released.
BugKeepArc(c) ==
    /\ Executing /\ pc[c] = "request"
    /\ Go(c, "done")
    /\ UNCHANGED <<slot, child, closed, held, took, exitVars>>

\* The request returns, with an answer or any error, and the Arc goes.
RequestReturns(c) ==
    /\ Executing /\ pc[c] = "request"
    /\ held' = [held EXCEPT ![c] = None]
    /\ Go(c, "done")
    /\ UNCHANGED <<slot, child, closed, took, exitVars>>

\* Mutant of TakeForRestart: the slot is read, not emptied.
BugCloneForRestart(c) ==
    /\ Executing /\ SlotFree /\ pc[c] = "idle"
    /\ held' = [held EXCEPT ![c] = slot]
    /\ took' = [took EXCEPT ![c] = slot]
    /\ Go(c, IF slot = None THEN "spawn" ELSE "stop")
    /\ UNCHANGED <<slot, child, closed, exitVars>>

\* restart(): the current client, if there is one, is taken out of the slot,
TakeForRestart(c) ==
    /\ Executing /\ SlotFree /\ pc[c] = "idle"
    /\ held' = [held EXCEPT ![c] = slot]
    /\ took' = [took EXCEPT ![c] = slot]
    /\ slot' = None
    /\ Go(c, IF slot = None THEN "spawn" ELSE "stop")
    /\ UNCHANGED <<child, closed, exitVars>>

\* Mutant of ClosePrevious: the fresh process is started without waiting.
BugDoNotAwait(c) ==
    /\ Executing /\ pc[c] = "stop"
    /\ Close(held[c])
    /\ held' = [held EXCEPT ![c] = None]
    /\ Go(c, "spawn")
    /\ UNCHANGED <<slot, child, took, exitVars>>

\* and shut down without the lock;
ClosePrevious(c) ==
    /\ Executing /\ pc[c] = "stop"
    /\ Close(held[c])
    /\ Go(c, "await")
    /\ UNCHANGED <<slot, child, held, took, exitVars>>

ReapPrevious(c) ==
    /\ Executing /\ pc[c] = "await"
    /\ Reap(held[c])
    /\ held' = [held EXCEPT ![c] = None]
    /\ Go(c, "spawn")
    /\ UNCHANGED <<slot, closed, took, exitVars>>

\* a new one is spawned, without the lock,
SpawnFresh(c) ==
    /\ Executing /\ pc[c] = "spawn"
    /\ \E e \in Clients :
           Spawn(e) /\ held' = [held EXCEPT ![c] = e]
    /\ Go(c, "store")
    /\ UNCHANGED <<slot, closed, took, exitVars>>

\* and stored over whatever the slot holds by now; then health() follows.
StoreFresh(c) ==
    /\ Executing /\ SlotFree /\ pc[c] = "store"
    /\ slot' = held[c]
    /\ held' = [held EXCEPT ![c] = None]
    /\ Go(c, "client")
    /\ UNCHANGED <<child, closed, took, exitVars>>

\* A finished invocation gives its name back.
Recycle(c) ==
    /\ Executing /\ pc[c] = "done"
    /\ Go(c, "idle")
    /\ took' = [took EXCEPT ![c] = None]
    /\ UNCHANGED <<slot, child, closed, held, exitVars>>

Command(c) ==
    \/ UseRunning(c) \/ SpawnIntoSlot(c) \/ SpawnFails(c) \/ RequestReturns(c)
    \/ ClosePrevious(c) \/ ReapPrevious(c) \/ SpawnFresh(c) \/ StoreFresh(c)

-----------------------------------------------------------------------------
(* Arcs                                                                     *)

Owned(e) ==
    slot = e \/ exitHeld = e \/ \E c \in Commands : held[c] = e

\* The last Arc is gone: EngineClient::drop, unless already closed.  It runs in
\* whatever thread let go of the Arc, at the latest moment here.
DropClient(e) ==
    /\ Executing
    /\ child[e] # "none" /\ ~Owned(e) /\ ~closed[e]
    /\ Close(e) /\ Reap(e)
    /\ UNCHANGED <<slot, cmdVars, exitVars>>

-----------------------------------------------------------------------------
(* The event loop: ExitRequested, then Exit, each with a shutdown()         *)

\* The event after this one, or the end of run().
ExitAfter(stage) == IF stage \in {"running", "stop_requested"} THEN "requested" ELSE "exit"

\* Mutant of ExitTakes: Exit comes without a shutdown() of its own.
BugStopOnce ==
    /\ exit \in {"running", "requested"}
    /\ IF exit = "requested" \/ slot = None
       THEN exit' = ExitAfter(exit) /\ UNCHANGED <<slot, exitHeld>>
       ELSE exit' = "stop_requested" /\ slot' = None /\ exitHeld' = slot
    /\ UNCHANGED <<child, closed, cmdVars>>

ExitTakes ==
    /\ exit \in {"running", "requested"}
    /\ exitHeld' = slot
    /\ slot' = None
    /\ exit' = IF slot = None THEN ExitAfter(exit)
               ELSE IF exit = "running" THEN "stop_requested" ELSE "stop_exit"
    /\ UNCHANGED <<child, closed, cmdVars>>

\* shutdown() of what it took, with the slot still locked.
ExitCloses ==
    /\ exit \in {"stop_requested", "stop_exit"}
    /\ ~closed[exitHeld]
    /\ Close(exitHeld)
    /\ UNCHANGED <<slot, child, cmdVars, exitVars>>

ExitReaps ==
    /\ exit \in {"stop_requested", "stop_exit"}
    /\ closed[exitHeld]
    /\ Reap(exitHeld)
    /\ exitHeld' = None
    /\ exit' = ExitAfter(exit)
    /\ UNCHANGED <<slot, closed, cmdVars>>

ExitStep == ExitCloses \/ ExitReaps \/ (exit = "requested" /\ ExitTakes)

\* run() returns: no command proceeds, and every pipe of the process closes.
ProcessEnds ==
    /\ exit = "exit"
    /\ exit' = "gone"
    /\ UNCHANGED <<slot, child, closed, cmdVars, exitHeld>>

-----------------------------------------------------------------------------
(* The engine processes                                                     *)

EngineCrashes(e) ==
    /\ child[e] = "up"
    /\ child' = [child EXCEPT ![e] = "dead"]
    /\ UNCHANGED <<slot, closed, cmdVars, exitVars>>

\* With the application gone, the sidecar reads end of input and leaves.
EngineReadsEof(e) ==
    /\ exit = "gone" /\ child[e] = "up"
    /\ child' = [child EXCEPT ![e] = "dead"]
    /\ UNCHANGED <<slot, closed, cmdVars, exitVars>>

Next ==
    \/ \E c \in Commands :
           BeginRequest(c) \/ TakeForRestart(c) \/ Command(c) \/ Recycle(c)
    \/ \E e \in Clients : DropClient(e) \/ EngineCrashes(e) \/ EngineReadsEof(e)
    \/ ExitTakes \/ ExitCloses \/ ExitReaps \/ ProcessEnds

Spec == Init /\ [][Next]_vars

-----------------------------------------------------------------------------
(* Properties                                                               *)

Live == {e \in Clients : child[e] = "up"}

\* Every variable holds a value of its kind.
TypeOK ==
    /\ slot \in Clients \cup {None}
    /\ child \in [Clients -> {"none", "up", "dead"}]
    /\ closed \in [Clients -> BOOLEAN]
    /\ pc \in [Commands -> {"idle", "client", "request", "stop", "await",
                            "spawn", "store", "done"}]
    /\ held \in [Commands -> Clients \cup {None}]
    /\ took \in [Commands -> Clients \cup {None}]
    /\ exit \in {"running", "stop_requested", "requested", "stop_exit",
                 "exit", "gone"}
    /\ exitHeld \in Clients \cup {None}

\* A process that is being shut down still has the thread that will see it go:
\* whoever closed a client holds it until the process is gone.
NoHalfStop == \A e \in Live : closed[e] => Owned(e) /\ slot # e

\* restart() and the exit handler are always the first to shut their client
\* down.  The second shutdown() of a client fails with Closed while the process
\* lives, and restart() would give up there with an empty slot
\* (engine.rs:65-67).
FirstToShutDown ==
    /\ \A c \in Commands : pc[c] = "stop" /\ held[c] # None => ~closed[held[c]]
    /\ \A c, d \in Commands :
           pc[c] \in {"stop", "await"} /\ pc[d] \in {"stop", "await"}
               /\ held[c] = held[d] /\ held[c] # None => c = d
    /\ exitHeld # None =>
           \A c \in Commands : pc[c] \in {"stop", "await"} => held[c] # exitHeld

\* Together: a shutdown has one thread that begins it and sees it through.
OneShutdown == NoHalfStop /\ FirstToShutDown

\* restart() starts a process only when the one it replaces is gone.
RestartStopsPrevious ==
    \A c \in Commands :
        took[c] # None /\ pc[c] \notin {"stop", "await"} => child[took[c]] = "dead"

\* When no command is under way, at most the engine in the slot is left: races
\* between restart() and client() may start several, but lose the others.
RacesSettle ==
    (\A c \in Commands : pc[c] \in {"idle", "done"}) ~>
        \/ Live \subseteq {slot}
        \/ exit = "gone"

AtRest ==
    /\ \A c \in Commands : pc[c] \in {"idle", "done"}
    /\ \A e \in Live : Owned(e)

\* The application does not end with an engine running, unless a command is at
\* work after the last shutdown() has begun.  What was started or stored during
\* the first one, the second one finds (src-tauri/src/lib.rs:24).  A command that
\* comes later still may leave an engine, which then only has its end of input.
ExitStopsEngines ==
    [](exit \in {"stop_exit", "exit", "gone"} => AtRest)
        => [](exit = "gone" => Live = {})
=============================================================================
