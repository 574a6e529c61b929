------------------------ MODULE DesktopEngineProofs ------------------------
(***************************************************************************)
(* Proofs about DesktopEngine, for any number of commands and clients: a   *)
(* shutdown has one thread that begins it and sees it through, and         *)
(* restart() starts a process only when the one it replaces is gone.       *)
(*                                                                         *)
(* The argument is ownership.  A client is taken out of the slot before it *)
(* is closed, so nothing in the slot is ever closed (SlotOpen); a take     *)
(* empties the slot, so no two threads shut the same client down           *)
(* (Stoppers); one that was just spawned is known to its command only      *)
(* (FreshIsPrivate), so storing it brings no closed client back.           *)
(***************************************************************************)
EXTENDS DesktopEngine, TLAPS

Stopping == {"stop", "await"}

\* Only a client that was spawned is anywhere.
Spawned ==
    /\ slot # None => child[slot] # "none"
    /\ exitHeld # None => child[exitHeld] # "none"
    /\ \A c \in Commands :
           /\ held[c] # None => child[held[c]] # "none"
           /\ took[c] # None => child[took[c]] # "none"
    /\ \A e \in Clients : closed[e] => child[e] # "none"

\* Which threads hold a client.
Holders ==
    /\ \A c \in Commands :
           held[c] # None <=> pc[c] \in Stopping \cup {"request", "store"}
    /\ exitHeld # None <=> exit \in {"stop_requested", "stop_exit"}

SlotOpen == slot # None => ~closed[slot]

\* A client a command shuts down is the one it took, is out of the slot, and is
\* shut down by nobody else.
Stoppers ==
    \A c \in Commands : pc[c] \in Stopping =>
        /\ held[c] = took[c]
        /\ held[c] # slot /\ held[c] # exitHeld
        /\ pc[c] = "stop" => ~closed[held[c]]
        /\ \A d \in Commands : pc[d] \in Stopping /\ held[d] = held[c] => d = c

ExitOutOfSlot == exitHeld # None => exitHeld # slot

\* A client restart() has spawned and not stored is its own.
FreshIsPrivate ==
    \A c \in Commands : pc[c] = "store" =>
        /\ held[c] # slot /\ held[c] # exitHeld /\ ~closed[held[c]]
        /\ \A d \in Commands : held[d] = held[c] => d = c

\* Whoever closed a process that still runs is waiting for it.
CloserWaits ==
    \A e \in Clients : closed[e] /\ child[e] = "up" =>
        \/ exitHeld = e
        \/ \E c \in Commands : pc[c] = "await" /\ held[c] = e

IInv ==
    /\ TypeOK /\ Spawned /\ Holders /\ SlotOpen /\ Stoppers
    /\ ExitOutOfSlot /\ FreshIsPrivate /\ CloserWaits /\ RestartStopsPrevious
-----------------------------------------------------------------------------
(* Preservation                                                             *)

LEMMA InitInv == Init => IInv
  BY DesktopAssumption DEF Init, IInv, TypeOK, Spawned, Holders, SlotOpen, Stoppers,
     ExitOutOfSlot, FreshIsPrivate, CloserWaits, RestartStopsPrevious, Stopping

LEMMA BeginRequestKeeps ==
  ASSUME IInv, NEW c \in Commands, BeginRequest(c)
  PROVE  IInv'
<1>1. (TypeOK /\ Spawned /\ Holders /\ SlotOpen /\ Stoppers /\ ExitOutOfSlot
      /\ FreshIsPrivate /\ RestartStopsPrevious)'
  BY DesktopAssumption DEF IInv, TypeOK, Spawned, Holders, SlotOpen, Stoppers,
     ExitOutOfSlot, FreshIsPrivate, RestartStopsPrevious, BeginRequest, Go,
     Stopping, exitVars
<1>2. CloserWaits'
  BY DesktopAssumption DEF IInv, TypeOK, CloserWaits, BeginRequest, Go,
     exitVars
<1> QED
  BY <1>1, <1>2 DEF IInv

LEMMA UseRunningKeeps ==
  ASSUME IInv, NEW c \in Commands, UseRunning(c)
  PROVE  IInv'
<1>1. (TypeOK /\ Spawned /\ SlotOpen /\ Stoppers /\ ExitOutOfSlot /\
      FreshIsPrivate /\ RestartStopsPrevious)'
  BY DesktopAssumption DEF IInv, TypeOK, Spawned, SlotOpen, Stoppers,
     ExitOutOfSlot, FreshIsPrivate, RestartStopsPrevious, UseRunning, Go,
     Running, Stopping, exitVars
<1>2. Holders'
  BY DesktopAssumption DEF IInv, TypeOK, Holders, UseRunning, Go, Running,
     Stopping, exitVars
<1>3. CloserWaits'
  BY DesktopAssumption DEF IInv, TypeOK, CloserWaits, UseRunning, Go, Running,
     exitVars
<1> QED
  BY <1>1, <1>2, <1>3 DEF IInv

LEMMA SpawnIntoSlotKeeps ==
  ASSUME IInv, NEW c \in Commands, SpawnIntoSlot(c)
  PROVE  IInv'
<1>1. (TypeOK /\ RestartStopsPrevious)'
  BY DesktopAssumption DEF IInv, TypeOK, RestartStopsPrevious, SpawnIntoSlot,
     Go, Running, Spawn, exitVars
<1>2. Spawned'
  BY DesktopAssumption DEF IInv, TypeOK, Spawned, SpawnIntoSlot, Go, Running,
     Spawn, exitVars
<1>3. Holders'
  BY DesktopAssumption DEF IInv, TypeOK, Holders, SpawnIntoSlot, Go, Running,
     Spawn, Stopping, exitVars
<1>4. SlotOpen'
  BY DesktopAssumption DEF IInv, Spawned, SlotOpen, SpawnIntoSlot, Go,
     Running, Spawn, exitVars
<1>5. Stoppers'
  BY DesktopAssumption DEF IInv, Spawned, Stoppers, SpawnIntoSlot, Go,
     Running, Spawn, Stopping, exitVars
<1>6. ExitOutOfSlot'
  BY DesktopAssumption DEF IInv, Spawned, ExitOutOfSlot, SpawnIntoSlot, Go,
     Running, Spawn, exitVars
<1>7. FreshIsPrivate'
  BY DesktopAssumption DEF IInv, Spawned, FreshIsPrivate, SpawnIntoSlot, Go,
     Running, Spawn, exitVars
<1>8. CloserWaits'
  <2> SUFFICES ASSUME NEW e \in Clients, closed'[e], child'[e] = "up"
               PROVE  \/ exitHeld' = e
                      \/ \E d \in Commands : pc'[d] = "await" /\ held'[d] = e
    BY DEF CloserWaits
  <2>1. closed[e] /\ child[e] = "up"
    BY DEF IInv, TypeOK, Spawned, SpawnIntoSlot, Spawn
  <2>2. CASE exitHeld = e
    BY <2>2 DEF SpawnIntoSlot, exitVars
  <2>3. CASE \E d \in Commands : pc[d] = "await" /\ held[d] = e
    <3>1. PICK d \in Commands : pc[d] = "await" /\ held[d] = e
      BY <2>3
    <3>2. d # c
      BY <3>1 DEF SpawnIntoSlot
    <3> QED
      BY <3>1, <3>2 DEF IInv, TypeOK, SpawnIntoSlot, Go
  <2> QED
    BY <2>1, <2>2, <2>3 DEF IInv, CloserWaits
<1> QED
  BY <1>1, <1>2, <1>3, <1>4, <1>5, <1>6, <1>7, <1>8 DEF IInv

LEMMA SpawnFailsKeeps ==
  ASSUME IInv, NEW c \in Commands, SpawnFails(c)
  PROVE  IInv'
<1>1. (TypeOK /\ Spawned /\ Holders /\ SlotOpen /\ Stoppers /\ ExitOutOfSlot
      /\ FreshIsPrivate /\ RestartStopsPrevious)'
  BY DesktopAssumption DEF IInv, TypeOK, Spawned, Holders, SlotOpen, Stoppers,
     ExitOutOfSlot, FreshIsPrivate, RestartStopsPrevious, SpawnFails, Go,
     Running, Stopping, exitVars
<1>2. CloserWaits'
  BY DesktopAssumption DEF IInv, Spawned, CloserWaits, SpawnFails, Go,
     Running, exitVars
<1> QED
  BY <1>1, <1>2 DEF IInv

LEMMA RequestReturnsKeeps ==
  ASSUME IInv, NEW c \in Commands, RequestReturns(c)
  PROVE  IInv'
<1>1. (TypeOK /\ Spawned /\ SlotOpen /\ Stoppers /\ ExitOutOfSlot /\
      RestartStopsPrevious)'
  BY DesktopAssumption DEF IInv, TypeOK, Spawned, SlotOpen, Stoppers,
     ExitOutOfSlot, RestartStopsPrevious, RequestReturns, Go, Stopping,
     exitVars
<1>2. Holders'
  BY DesktopAssumption DEF IInv, TypeOK, Holders, RequestReturns, Go,
     Stopping, exitVars
<1>3. FreshIsPrivate'
  BY DesktopAssumption DEF IInv, Holders, FreshIsPrivate, RequestReturns, Go,
     Stopping, exitVars
<1>4. CloserWaits'
  BY DesktopAssumption DEF IInv, TypeOK, CloserWaits, RequestReturns, Go,
     exitVars
<1> QED
  BY <1>1, <1>2, <1>3, <1>4 DEF IInv

LEMMA TakeForRestartKeeps ==
  ASSUME IInv, NEW c \in Commands, TakeForRestart(c)
  PROVE  IInv'
<1>1. (TypeOK /\ Spawned /\ SlotOpen /\ ExitOutOfSlot)'
  BY DesktopAssumption DEF IInv, TypeOK, Spawned, SlotOpen, ExitOutOfSlot,
     TakeForRestart, Go, exitVars
<1>2. Holders'
  BY DesktopAssumption DEF IInv, TypeOK, Holders, TakeForRestart, Go,
     Stopping, exitVars
<1>3. Stoppers'
  BY DesktopAssumption DEF IInv, TypeOK, Holders, SlotOpen, Stoppers,
     ExitOutOfSlot, TakeForRestart, Go, Stopping, exitVars
<1>4. FreshIsPrivate'
  BY DesktopAssumption DEF IInv, Holders, FreshIsPrivate, TakeForRestart, Go,
     Stopping, exitVars
<1>5. CloserWaits'
  BY DesktopAssumption DEF IInv, TypeOK, CloserWaits, TakeForRestart, Go,
     exitVars
<1>6. RestartStopsPrevious'
  BY DesktopAssumption DEF IInv, TypeOK, RestartStopsPrevious, TakeForRestart,
     Go, exitVars
<1> QED
  BY <1>1, <1>2, <1>3, <1>4, <1>5, <1>6 DEF IInv

LEMMA ClosePreviousKeeps ==
  ASSUME IInv, NEW c \in Commands, ClosePrevious(c)
  PROVE  IInv'
<1>1. (Spawned /\ Holders /\ ExitOutOfSlot /\ FreshIsPrivate /\
      RestartStopsPrevious)'
  BY DesktopAssumption DEF IInv, Spawned, Holders, ExitOutOfSlot,
     FreshIsPrivate, RestartStopsPrevious, ClosePrevious, Go, Close, Stopping,
     exitVars
<1>2. TypeOK'
  BY DesktopAssumption DEF IInv, TypeOK, Holders, ClosePrevious, Go, Close,
     Stopping, exitVars
<1>3. SlotOpen'
  BY DesktopAssumption DEF IInv, SlotOpen, Stoppers, ClosePrevious, Go, Close,
     Stopping, exitVars
<1>4. Stoppers'
  BY DesktopAssumption DEF IInv, TypeOK, Stoppers, ClosePrevious, Go, Close,
     Stopping, exitVars
<1>5. CloserWaits'
  BY DesktopAssumption DEF IInv, TypeOK, CloserWaits, ClosePrevious, Go,
     Close, exitVars
<1> QED
  BY <1>1, <1>2, <1>3, <1>4, <1>5 DEF IInv

LEMMA ReapPreviousKeeps ==
  ASSUME IInv, NEW c \in Commands, ReapPrevious(c)
  PROVE  IInv'
<1>1. (Spawned /\ SlotOpen /\ ExitOutOfSlot)'
  BY DesktopAssumption DEF IInv, Spawned, SlotOpen, ExitOutOfSlot,
     ReapPrevious, Go, Reap, exitVars
<1>2. TypeOK'
  BY DesktopAssumption DEF IInv, TypeOK, Holders, ReapPrevious, Go, Reap,
     Stopping, exitVars
<1>3. Holders'
  BY DesktopAssumption DEF IInv, TypeOK, Holders, ReapPrevious, Go, Reap,
     Stopping, exitVars
<1>4. Stoppers'
  BY DesktopAssumption DEF IInv, TypeOK, Stoppers, ReapPrevious, Go, Reap,
     Stopping, exitVars
<1>5. FreshIsPrivate'
  BY DesktopAssumption DEF IInv, Holders, FreshIsPrivate, ReapPrevious, Go,
     Reap, Stopping, exitVars
<1>6. CloserWaits'
  BY DesktopAssumption DEF IInv, TypeOK, CloserWaits, ReapPrevious, Go, Reap,
     exitVars
<1>7. RestartStopsPrevious'
  BY DesktopAssumption DEF IInv, TypeOK, Stoppers, RestartStopsPrevious,
     ReapPrevious, Go, Reap, Stopping, exitVars
<1> QED
  BY <1>1, <1>2, <1>3, <1>4, <1>5, <1>6, <1>7 DEF IInv

LEMMA SpawnFreshKeeps ==
  ASSUME IInv, NEW c \in Commands, SpawnFresh(c)
  PROVE  IInv'
<1>1. (TypeOK /\ SlotOpen /\ Stoppers /\ ExitOutOfSlot /\
      RestartStopsPrevious)'
  BY DesktopAssumption DEF IInv, TypeOK, SlotOpen, Stoppers, ExitOutOfSlot,
     RestartStopsPrevious, SpawnFresh, Go, Spawn, Stopping, exitVars
<1>2. Spawned'
  BY DesktopAssumption DEF IInv, TypeOK, Spawned, SpawnFresh, Go, Spawn,
     exitVars
<1>3. Holders'
  BY DesktopAssumption DEF IInv, TypeOK, Holders, SpawnFresh, Go, Spawn,
     Stopping, exitVars
<1>4. FreshIsPrivate'
  BY DesktopAssumption DEF IInv, TypeOK, Spawned, FreshIsPrivate, SpawnFresh,
     Go, Spawn, exitVars
<1>5. CloserWaits'
  <2> SUFFICES ASSUME NEW e \in Clients, closed'[e], child'[e] = "up"
               PROVE  \/ exitHeld' = e
                      \/ \E d \in Commands : pc'[d] = "await" /\ held'[d] = e
    BY DEF CloserWaits
  <2>1. closed[e] /\ child[e] = "up"
    BY DEF IInv, TypeOK, Spawned, SpawnFresh, Spawn
  <2>2. CASE exitHeld = e
    BY <2>2 DEF SpawnFresh, exitVars
  <2>3. CASE \E d \in Commands : pc[d] = "await" /\ held[d] = e
    <3>1. PICK d \in Commands : pc[d] = "await" /\ held[d] = e
      BY <2>3
    <3>2. d # c
      BY <3>1 DEF SpawnFresh
    <3> QED
      BY <3>1, <3>2 DEF IInv, TypeOK, SpawnFresh, Go
  <2> QED
    BY <2>1, <2>2, <2>3 DEF IInv, CloserWaits
<1> QED
  BY <1>1, <1>2, <1>3, <1>4, <1>5 DEF IInv

LEMMA StoreFreshKeeps ==
  ASSUME IInv, NEW c \in Commands, StoreFresh(c)
  PROVE  IInv'
<1>1. (TypeOK /\ Spawned /\ RestartStopsPrevious)'
  BY DesktopAssumption DEF IInv, TypeOK, Spawned, RestartStopsPrevious,
     StoreFresh, Go, exitVars
<1>2. Holders'
  BY DesktopAssumption DEF IInv, TypeOK, Holders, StoreFresh, Go, Stopping,
     exitVars
<1>3. SlotOpen'
  BY DesktopAssumption DEF IInv, SlotOpen, FreshIsPrivate, StoreFresh, Go,
     exitVars
<1>4. Stoppers'
  BY DesktopAssumption DEF IInv, Stoppers, FreshIsPrivate, StoreFresh, Go,
     Stopping, exitVars
<1>5. ExitOutOfSlot'
  BY DesktopAssumption DEF IInv, ExitOutOfSlot, FreshIsPrivate, StoreFresh,
     Go, exitVars
<1>6. FreshIsPrivate'
  BY DesktopAssumption DEF IInv, TypeOK, Holders, FreshIsPrivate, StoreFresh,
     Go, Stopping, exitVars
<1>7. CloserWaits'
  BY DesktopAssumption DEF IInv, TypeOK, CloserWaits, StoreFresh, Go, exitVars
<1> QED
  BY <1>1, <1>2, <1>3, <1>4, <1>5, <1>6, <1>7 DEF IInv

LEMMA RecycleKeeps ==
  ASSUME IInv, NEW c \in Commands, Recycle(c)
  PROVE  IInv'
<1>1. (TypeOK /\ Spawned /\ Holders /\ SlotOpen /\ Stoppers /\ ExitOutOfSlot
      /\ FreshIsPrivate /\ RestartStopsPrevious)'
  BY DesktopAssumption DEF IInv, TypeOK, Spawned, Holders, SlotOpen, Stoppers,
     ExitOutOfSlot, FreshIsPrivate, RestartStopsPrevious, Recycle, Go,
     Stopping, exitVars
<1>2. CloserWaits'
  BY DesktopAssumption DEF IInv, TypeOK, CloserWaits, Recycle, Go, exitVars
<1> QED
  BY <1>1, <1>2 DEF IInv

LEMMA DropClientKeeps ==
  ASSUME IInv, NEW e \in Clients, DropClient(e)
  PROVE  IInv'
<1>1. (TypeOK /\ Spawned /\ Holders /\ SlotOpen /\ Stoppers /\ ExitOutOfSlot
      /\ FreshIsPrivate /\ RestartStopsPrevious)'
  BY DesktopAssumption DEF IInv, TypeOK, Spawned, Holders, SlotOpen, Stoppers,
     ExitOutOfSlot, FreshIsPrivate, RestartStopsPrevious, DropClient, Close,
     Reap, Owned, Stopping, cmdVars, exitVars
<1>2. CloserWaits'
  BY DesktopAssumption DEF IInv, TypeOK, CloserWaits, DropClient, Close, Reap,
     Owned, cmdVars, exitVars
<1> QED
  BY <1>1, <1>2 DEF IInv

LEMMA EngineCrashesKeeps ==
  ASSUME IInv, NEW e \in Clients, EngineCrashes(e)
  PROVE  IInv'
<1>1. (TypeOK /\ Spawned /\ Holders /\ SlotOpen /\ Stoppers /\ ExitOutOfSlot
      /\ FreshIsPrivate /\ RestartStopsPrevious)'
  BY DesktopAssumption DEF IInv, TypeOK, Spawned, Holders, SlotOpen, Stoppers,
     ExitOutOfSlot, FreshIsPrivate, RestartStopsPrevious, EngineCrashes,
     Stopping, cmdVars, exitVars
<1>2. CloserWaits'
  BY DesktopAssumption DEF IInv, TypeOK, CloserWaits, EngineCrashes, cmdVars,
     exitVars
<1> QED
  BY <1>1, <1>2 DEF IInv

LEMMA EngineReadsEofKeeps ==
  ASSUME IInv, NEW e \in Clients, EngineReadsEof(e)
  PROVE  IInv'
<1>1. (TypeOK /\ Spawned /\ Holders /\ SlotOpen /\ Stoppers /\ ExitOutOfSlot
      /\ FreshIsPrivate /\ RestartStopsPrevious)'
  BY DesktopAssumption DEF IInv, TypeOK, Spawned, Holders, SlotOpen, Stoppers,
     ExitOutOfSlot, FreshIsPrivate, RestartStopsPrevious, EngineReadsEof,
     Stopping, cmdVars, exitVars
<1>2. CloserWaits'
  BY DesktopAssumption DEF IInv, TypeOK, CloserWaits, EngineReadsEof, cmdVars,
     exitVars
<1> QED
  BY <1>1, <1>2 DEF IInv

LEMMA ExitTakesKeeps ==
  ASSUME IInv, ExitTakes
  PROVE  IInv'
<1>1. (TypeOK /\ Spawned /\ Holders /\ SlotOpen /\ ExitOutOfSlot /\
      RestartStopsPrevious)'
  BY DesktopAssumption DEF IInv, TypeOK, Spawned, Holders, SlotOpen,
     ExitOutOfSlot, RestartStopsPrevious, ExitTakes, ExitAfter, Stopping,
     cmdVars
<1>2. Stoppers'
  BY DesktopAssumption DEF IInv, Holders, Stoppers, ExitTakes, ExitAfter,
     Stopping, cmdVars
<1>3. FreshIsPrivate'
  BY DesktopAssumption DEF IInv, Holders, FreshIsPrivate, ExitTakes,
     ExitAfter, Stopping, cmdVars
<1>4. CloserWaits'
  BY DesktopAssumption DEF IInv, Spawned, Holders, CloserWaits, ExitTakes,
     ExitAfter, Stopping, cmdVars
<1> QED
  BY <1>1, <1>2, <1>3, <1>4 DEF IInv

LEMMA ExitClosesKeeps ==
  ASSUME IInv, ExitCloses
  PROVE  IInv'
<1>1. (Spawned /\ Holders /\ Stoppers /\ ExitOutOfSlot /\ FreshIsPrivate /\
      RestartStopsPrevious)'
  BY DesktopAssumption DEF IInv, Spawned, Holders, Stoppers, ExitOutOfSlot,
     FreshIsPrivate, RestartStopsPrevious, ExitCloses, Close, Stopping,
     cmdVars, exitVars
<1>2. TypeOK'
  BY DesktopAssumption DEF IInv, TypeOK, Holders, ExitCloses, Close, Stopping,
     cmdVars, exitVars
<1>3. SlotOpen'
  BY DesktopAssumption DEF IInv, SlotOpen, ExitOutOfSlot, ExitCloses, Close,
     cmdVars, exitVars
<1>4. CloserWaits'
  BY DesktopAssumption DEF IInv, TypeOK, CloserWaits, ExitCloses, Close,
     cmdVars, exitVars
<1> QED
  BY <1>1, <1>2, <1>3, <1>4 DEF IInv

LEMMA ExitReapsKeeps ==
  ASSUME IInv, ExitReaps
  PROVE  IInv'
<1>1. (Spawned /\ Holders /\ SlotOpen /\ ExitOutOfSlot /\
      RestartStopsPrevious)'
  BY DesktopAssumption DEF IInv, Spawned, Holders, SlotOpen, ExitOutOfSlot,
     RestartStopsPrevious, ExitReaps, Reap, ExitAfter, Stopping, cmdVars
<1>2. TypeOK'
  BY DesktopAssumption DEF IInv, TypeOK, Holders, ExitReaps, Reap, ExitAfter,
     Stopping, cmdVars
<1>3. Stoppers'
  BY DesktopAssumption DEF IInv, Holders, Stoppers, ExitReaps, Reap,
     ExitAfter, Stopping, cmdVars
<1>4. FreshIsPrivate'
  BY DesktopAssumption DEF IInv, Holders, FreshIsPrivate, ExitReaps, Reap,
     ExitAfter, Stopping, cmdVars
<1>5. CloserWaits'
  BY DesktopAssumption DEF IInv, TypeOK, CloserWaits, ExitReaps, Reap,
     ExitAfter, cmdVars
<1> QED
  BY <1>1, <1>2, <1>3, <1>4, <1>5 DEF IInv

LEMMA ProcessEndsKeeps ==
  ASSUME IInv, ProcessEnds
  PROVE  IInv'
<1>1. (TypeOK /\ Spawned /\ Holders /\ SlotOpen /\ Stoppers /\ ExitOutOfSlot
      /\ FreshIsPrivate /\ RestartStopsPrevious)'
  BY DesktopAssumption DEF IInv, TypeOK, Spawned, Holders, SlotOpen, Stoppers,
     ExitOutOfSlot, FreshIsPrivate, RestartStopsPrevious, ProcessEnds,
     Stopping, cmdVars
<1>2. CloserWaits'
  BY DesktopAssumption DEF IInv, TypeOK, CloserWaits, ProcessEnds, cmdVars
<1> QED
  BY <1>1, <1>2 DEF IInv

LEMMA NextKeeps ==
  ASSUME IInv, [Next]_vars
  PROVE  IInv'
<1>1. CASE UNCHANGED vars
  BY <1>1 DEF IInv, TypeOK, Spawned, Holders, SlotOpen, Stoppers,
     ExitOutOfSlot, FreshIsPrivate, CloserWaits, RestartStopsPrevious, vars,
     cmdVars, exitVars
<1> QED
  BY <1>1, BeginRequestKeeps, UseRunningKeeps, SpawnIntoSlotKeeps,
     SpawnFailsKeeps, RequestReturnsKeeps, TakeForRestartKeeps,
     ClosePreviousKeeps, ReapPreviousKeeps, SpawnFreshKeeps, StoreFreshKeeps,
     RecycleKeeps, DropClientKeeps, EngineCrashesKeeps, EngineReadsEofKeeps,
     ExitTakesKeeps, ExitClosesKeeps, ExitReapsKeeps, ProcessEndsKeeps DEF
     Next, Command

THEOREM EngineInvariant == Spec => []IInv
  BY InitInv, NextKeeps, PTL DEF Spec

\* A client that is being shut down is out of the slot and has one thread that
\* was the first to close it and waits until its process is gone
\* (engine.rs:59-91, lib.rs of rust/engine-client: shutdown, Drop).
THEOREM ShutdownsAreWhole == Spec => []OneShutdown
<1>1. ASSUME IInv PROVE NoHalfStop
  BY <1>1, DesktopAssumption DEF IInv, SlotOpen, CloserWaits, NoHalfStop, Live, Owned
<1>2. ASSUME IInv PROVE FirstToShutDown
  BY <1>2 DEF IInv, Stoppers, Stopping, FirstToShutDown
<1> QED
  BY <1>1, <1>2, EngineInvariant, PTL DEF OneShutdown

\* restart() starts a process only when the one it replaces is gone
\* (engine.rs:61-76).
THEOREM RestartWaits == Spec => []RestartStopsPrevious
<1>1. IInv => RestartStopsPrevious
  BY DEF IInv
<1> QED
  BY <1>1, EngineInvariant, PTL

=============================================================================
