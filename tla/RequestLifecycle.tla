-------------------------- MODULE RequestLifecycle --------------------------
(***************************************************************************)
(* What EngineClient promises its callers, with no threads, locks, queues  *)
(* or pipes.  A call is open until it returns one outcome, for good.  The  *)
(* engine is asked at most once on its behalf, and may say its piece at    *)
(* any time after that; only the first terminal thing it says counts.      *)
(*   - An answer is what the engine said first about this very call.       *)
(*   - A call the engine was asked for ends with that answer, gives up     *)
(*     waiting, or fails because the client as a whole had broken down     *)
(*     before, and with that very error.                                   *)
(*   - An error of the call's own (bad arguments, a frame too large, a     *)
(*     failed write) only ends a call the engine was never asked for.      *)
(*   - A call that gives up waiting, and no other, may be withdrawn.       *)
(* It does not promise that a caller can tell the two kinds of error       *)
(* apart: they overlap, and a failed request may be at work.               *)
(***************************************************************************)
CONSTANTS
    Calls,      \* calls of request_with_progress
    Answers,    \* what the engine can say to end a request
    Refusals,   \* errors of one call
    Breakdowns, \* errors of the client as a whole
    TimedOut,   \* the deadline passed
    None        \* nothing said, no outcome

VARIABLES
    phase,      \* "idle", "open" or "returned"
    asked,      \* calls whose request was sent
    said,       \* what the engine first said about a call
    broken,     \* what has befallen the client as a whole
    outcome,    \* what a call returned
    withdrawn   \* calls whose cancellation was sent

vars == <<phase, asked, said, broken, outcome, withdrawn>>

Init ==
    /\ phase = [c \in Calls |-> "idle"]
    /\ asked = {}
    /\ said = [c \in Calls |-> None]
    /\ broken = {}
    /\ outcome = [c \in Calls |-> None]
    /\ withdrawn = {}

Begin(c) ==
    /\ phase[c] = "idle"
    /\ phase' = [phase EXCEPT ![c] = "open"]
    /\ UNCHANGED <<asked, said, broken, outcome, withdrawn>>

Ask(c) ==
    /\ phase[c] = "open" /\ c \notin asked
    /\ asked' = asked \cup {c}
    /\ UNCHANGED <<phase, said, broken, outcome, withdrawn>>

\* Also after the call has returned: nobody listens then.
Say(c, a) ==
    /\ c \in asked /\ said[c] = None
    /\ said' = [said EXCEPT ![c] = a]
    /\ UNCHANGED <<phase, asked, broken, outcome, withdrawn>>

\* For good.
Break(b) ==
    /\ broken' = broken \cup {b}
    /\ UNCHANGED <<phase, asked, said, outcome, withdrawn>>

Return(c, o) ==
    /\ phase' = [phase EXCEPT ![c] = "returned"]
    /\ outcome' = [outcome EXCEPT ![c] = o]
    /\ UNCHANGED <<asked, said, broken>>

\* At once, or when its request cannot be written.
Refuse(c, r) ==
    /\ phase[c] # "returned" /\ c \notin asked
    /\ Return(c, r)
    /\ UNCHANGED withdrawn

\* The client has broken down, before or after the engine was asked.
Fail(c, b) ==
    /\ phase[c] # "returned" /\ b \in broken
    /\ Return(c, b)
    /\ UNCHANGED withdrawn

\* The engine's word.
Finish(c, a) ==
    /\ phase[c] = "open" /\ a = said[c]
    /\ Return(c, a)
    /\ UNCHANGED withdrawn

\* The cancellation may fail to be sent.
GiveUp(c) ==
    /\ phase[c] = "open" /\ c \in asked
    /\ withdrawn' \in {withdrawn, withdrawn \cup {c}}
    /\ Return(c, TimedOut)

Next ==
    \/ \E b \in Breakdowns : Break(b)
    \/ \E c \in Calls :
           \/ Begin(c) \/ Ask(c) \/ GiveUp(c)
           \/ \E a \in Answers : Say(c, a) \/ Finish(c, a)
           \/ \E r \in Refusals : Refuse(c, r)
           \/ \E b \in Breakdowns : Fail(c, b)

Spec == Init /\ [][Next]_vars
=============================================================================
