------------------------- MODULE DesktopViewProofs -------------------------
(***************************************************************************)
(* Proofs about DesktopView, for any number of commands, clients and       *)
(* invocations.  Whatever the page does is a use of the engine slot as     *)
(* DesktopEngine describes it, so what is proved there holds under the     *)
(* page; and the page's own safety follows from two small invariants.      *)
(***************************************************************************)
EXTENDS DesktopView, DesktopEngineProofs, FiniteSetTheorems

\* The types the page's proofs need.
PageTypes ==
    /\ kind \in [Commands -> Refreshes \cup {"forward", None}]
    /\ answer \in [Commands -> {None, "value", "error"}]
    /\ strict \in BOOLEAN
    /\ toMount \in 0..2
    /\ invocations \in 0..MaxInvocations
    /\ requestState \in {"idle", "running", "succeeded", "failed"}
    /\ healthPending \in BOOLEAN
    /\ posed \in BOOLEAN

\* Without StrictMode the one mount effect comes first, and after it a refresh
\* is only begun when healthPending says that none is under way.
SoleRefresh ==
    ~strict =>
        /\ toMount \in 0..1
        /\ \A c \in Commands : kind[c] \in Refreshes => healthPending /\ toMount = 0
        /\ \A c, d \in Commands : kind[c] \in Refreshes /\ kind[d] \in Refreshes => c = d

PageInv == PageTypes /\ PageAgrees /\ SoleRefresh

-----------------------------------------------------------------------------
(* The page over the engine                                                 *)

\* Every step of the page, of a command's answer and of the engine is a step of
\* DesktopEngine or leaves its state alone (App.tsx, engine.ts, engine.rs).
THEOREM ViewUsesEngine == ViewSpec => Spec
<1>1. ViewInit => Init
  BY DEF ViewInit
<1>2. [ViewNext]_allVars => [Next]_vars
  <2> SUFFICES ASSUME [ViewNext]_allVars PROVE [Next]_vars
    OBVIOUS
  <2>1. ASSUME NEW c \in Commands, Mount(c) \/ ClickRestart(c) \/ Submit(c)
        PROVE  UNCHANGED vars
    BY <2>1 DEF Mount, ClickRestart, Submit, Invoke
  <2>2. ASSUME NEW c \in Commands, Serve(c)
        PROVE  Next
    BY <2>2 DEF Serve, Begin, Returns, Works, Next, Command
  <2>3. ASSUME NEW c \in Commands, Arrives(c)
        PROVE  Next
    BY <2>3 DEF Arrives, HealthArrives, PoseArrives, Settle, Next
  <2>4. ASSUME SubmitInvalid \/ Reset
        PROVE  UNCHANGED vars
    BY <2>4 DEF SubmitInvalid, Reset
  <2>5. CASE UNCHANGED allVars
    BY <2>5 DEF allVars
  <2> QED
    BY <2>1, <2>2, <2>3, <2>4, <2>5 DEF ViewNext, Next
<1> QED
  BY <1>1, <1>2, PTL DEF ViewSpec, Spec

-----------------------------------------------------------------------------
(* The page                                                                 *)

LEMMA PageInit == ViewInit => PageInv
<1> SUFFICES ASSUME ViewInit PROVE PageInv
  OBVIOUS
<1>1. PageTypes
  <2>1. toMount \in 0..2 /\ invocations \in 0..MaxInvocations
    BY ViewAssumption DEF ViewInit
  <2>2. /\ strict \in BOOLEAN
        /\ healthPending \in BOOLEAN /\ posed \in BOOLEAN
    BY DEF ViewInit
  <2>3. /\ kind \in [Commands -> Refreshes \cup {"forward", None}]
        /\ answer \in [Commands -> {None, "value", "error"}]
        /\ requestState \in {"idle", "running", "succeeded", "failed"}
    BY DEF ViewInit
  <2> QED
    BY <2>1, <2>2, <2>3 DEF PageTypes
<1>2. PageAgrees
  BY DEF ViewInit, PageAgrees, BusyMeansWaiting, PoseFitsState
<1>3. SoleRefresh
  BY ViewAssumption DEF ViewInit, SoleRefresh, Refreshes
<1> QED
  BY <1>1, <1>2, <1>3 DEF PageInv

LEMMA PageStep ==
  ASSUME PageInv, [ViewNext]_allVars
  PROVE  PageInv'
<1> USE ViewAssumption DEF PageInv, PageTypes, PageAgrees, BusyMeansWaiting,
        PoseFitsState, SoleRefresh, Refreshes
<1>1. ASSUME NEW c \in Commands, Mount(c) PROVE PageInv'
  <2>1. PageTypes'
    BY <1>1 DEF Mount, Invoke
  <2>2. PageAgrees'
    BY <1>1 DEF Mount, Invoke
  <2>3. SoleRefresh'
    BY <1>1 DEF Mount, Invoke
  <2> QED
    BY <2>1, <2>2, <2>3
<1>2. ASSUME NEW c \in Commands, ClickRestart(c) PROVE PageInv'
  <2>1. PageTypes'
    BY <1>2 DEF ClickRestart, Invoke
  <2>2. PageAgrees'
    BY <1>2 DEF ClickRestart, Invoke
  <2>3. SoleRefresh'
    BY <1>2 DEF ClickRestart, Invoke
  <2> QED
    BY <2>1, <2>2, <2>3
<1>3. ASSUME NEW c \in Commands, Submit(c) PROVE PageInv'
  <2>1. PageTypes'
    <3>1. invocations' \in 0..MaxInvocations
      BY <1>3 DEF Submit, Invoke
    <3>2. requestState' = "running" /\ posed' = FALSE
      BY <1>3 DEF Submit
    <3>3. UNCHANGED <<answer, strict, toMount, healthPending>>
      BY <1>3 DEF Submit, Invoke
    <3>4. kind' \in [Commands -> Refreshes \cup {"forward", None}]
      BY <1>3 DEF Submit, Invoke
    <3> QED
      BY <3>1, <3>2, <3>3, <3>4
  <2>2. PageAgrees'
    BY <1>3 DEF Submit, Invoke
  <2>3. SoleRefresh'
    BY <1>3 DEF Submit, Invoke
  <2> QED
    BY <2>1, <2>2, <2>3
<1>4. ASSUME NEW c \in Commands, Serve(c) PROVE PageInv'
  BY <1>4 DEF Serve, Begin, Returns, Works, callVars, viewVars
<1>5. ASSUME NEW c \in Commands, HealthArrives(c) PROVE PageInv'
  BY <1>5 DEF HealthArrives, Settle
<1>6. ASSUME NEW c \in Commands, PoseArrives(c) PROVE PageInv'
  BY <1>6 DEF PoseArrives, Settle
<1>7. ASSUME SubmitInvalid \/ Reset PROVE PageInv'
  <2>1. CASE SubmitInvalid
    BY <2>1 DEF SubmitInvalid, callVars
  <2>2. CASE Reset
    BY <2>2 DEF Reset, callVars
  <2> QED
    BY <1>7, <2>1, <2>2
<1>8. ASSUME UNCHANGED <<callVars, viewVars>> PROVE PageInv'
  BY <1>8 DEF callVars, viewVars
<1> QED
  BY <1>1, <1>2, <1>3, <1>4, <1>5, <1>6, <1>7, <1>8 DEF ViewNext, Arrives, allVars

THEOREM PageInvariant == ViewSpec => []PageInv
  BY PageInit, PageStep, PTL DEF ViewSpec

\* A disabled button waits for an outstanding invocation, and what is shown fits
\* the request state, in whatever order answers arrive (App.tsx:42-90).
THEOREM PageNeverDisagrees == ViewSpec => []PageAgrees
<1>1. PageInv => PageAgrees
  BY DEF PageInv
<1> QED
  BY <1>1, PageInvariant, PTL

\* In production no two health checks or restarts are under way at once
\* (App.tsx:42-56, and the button's `disabled`).
THEOREM RefreshIsSole == ViewSpec => []OneRefresh
<1>1. ASSUME PageInv PROVE OneRefresh
  <2> DEFINE R == {c \in Commands : kind[c] \in Refreshes}
  <2> SUFFICES ASSUME ~strict PROVE Cardinality(R) <= 1
    BY DEF OneRefresh
  <2>1. CASE R = {}
    BY <2>1, FS_EmptySet
  <2>2. CASE R # {}
    <3>1. PICK c \in Commands : R = {c}
      BY <1>1, <2>2 DEF PageInv, SoleRefresh
    <3>2. Cardinality({c}) = 1
      BY FS_Singleton
    <3> QED
      BY <3>1, <3>2
  <2> QED
    BY <2>1, <2>2
<1> QED
  BY <1>1, PageInvariant, PTL

\* Type correctness of the page and of the engine under it.
THEOREM ViewTypesHold == ViewSpec => []ViewTypeOK
<1>1. IInv /\ PageInv => ViewTypeOK
  BY DEF IInv, PageInv, PageTypes, ViewTypeOK
<1> QED
  BY <1>1, ViewUsesEngine, EngineInvariant, PageInvariant, PTL

\* The engine's safety under the page: one thread per shutdown, and no restart
\* that overlaps the process it replaces (App.tsx over engine.rs).
THEOREM EngineSafeUnderPage == ViewSpec => [](OneShutdown /\ RestartStopsPrevious)
  BY ViewUsesEngine, ShutdownsAreWhole, RestartWaits, PTL
=============================================================================
