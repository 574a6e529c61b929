--------------------------- MODULE SessionPromise ---------------------------
(***************************************************************************)
(* What the sidecar promises whoever holds its two pipes, with no threads, *)
(* locks, job map or frames.  A request is open from the moment it is      *)
(* accepted until its answer is decided; the answer is then told, or lost  *)
(* with the output.                                                        *)
(*   - An id in use is not accepted again before its answer is decided     *)
(*     and told, or lost.                                                  *)
(*   - An answer is decided once and told as decided, and it says          *)
(*     "cancelled" exactly when the request was stopped by then.           *)
(*   - Only a session whose output is dead loses an answer.                *)
(*   - The process ends with nothing open or undecided, and with code 0    *)
(*     only if nothing was ever lost.                                      *)
(***************************************************************************)
EXTENDS TLAPS

CONSTANTS
    Ids,    \* request ids
    Jobs,   \* accepted requests
    None    \* no id, no verdict, not ended

VARIABLES
    phase,    \* "new", "open", "decided", "told" or "lost"
    idOf,     \* the id a request was accepted under
    verdict,  \* the answer that is decided and not told yet
    heard,    \* the answers the peer has been told
    stopped,  \* requests asked to stop
    alive,    \* the output works, as far as the session knows
    ended     \* the exit code

vars == <<phase, idOf, verdict, heard, stopped, alive, ended>>

Codes    == {"result", "internal_error", "request_cancelled"}
Accepted == {j \in Jobs : phase[j] # "new"}
Pending  == {j \in Jobs : phase[j] \in {"open", "decided"}}

Init ==
    /\ phase = [j \in Jobs |-> "new"]
    /\ idOf = [j \in Jobs |-> None]
    /\ verdict = [j \in Jobs |-> None]
    /\ heard = [j \in Jobs |-> {}]
    /\ stopped = {}
    /\ alive = TRUE
    /\ ended = None

Accept(j, i) ==
    /\ ended = None
    /\ phase[j] = "new"
    /\ \A k \in Pending : idOf[k] # i
    /\ phase' = [phase EXCEPT ![j] = "open"]
    /\ idOf' = [idOf EXCEPT ![j] = i]
    /\ UNCHANGED <<verdict, heard, stopped, alive, ended>>

\* Only what was accepted can be stopped, and for good.
Stop(S) ==
    /\ S \subseteq Accepted
    /\ stopped' = stopped \cup S

Cancel(S) == Stop(S) /\ UNCHANGED <<phase, idOf, verdict, heard, alive, ended>>

Decide(j, c) ==
    /\ phase[j] = "open"
    /\ c = "request_cancelled" <=> j \in stopped
    /\ phase' = [phase EXCEPT ![j] = "decided"]
    /\ verdict' = [verdict EXCEPT ![j] = c]
    /\ UNCHANGED <<idOf, heard, stopped, alive, ended>>

Tell(j) ==
    /\ phase[j] = "decided"
    /\ phase' = [phase EXCEPT ![j] = "told"]
    /\ verdict' = [verdict EXCEPT ![j] = None]
    /\ heard' = [heard EXCEPT ![j] = {verdict[j]}]
    /\ UNCHANGED <<idOf, stopped, alive, ended>>

\* Whoever finds its answer lost may ask the others to stop.
Lose(j, S) ==
    /\ phase[j] = "decided" /\ ~alive
    /\ phase' = [phase EXCEPT ![j] = "lost"]
    /\ verdict' = [verdict EXCEPT ![j] = None]
    /\ Stop(S)
    /\ UNCHANGED <<idOf, heard, alive, ended>>

Fail ==
    /\ alive
    /\ alive' = FALSE
    /\ UNCHANGED <<phase, idOf, verdict, heard, stopped, ended>>

End(code) ==
    /\ ended = None
    /\ Pending = {}
    /\ code = 0 => alive /\ \A j \in Jobs : phase[j] # "lost"
    /\ ended' = code
    /\ UNCHANGED <<phase, idOf, verdict, heard, stopped, alive>>

Next ==
    \/ \E j \in Jobs, i \in Ids : Accept(j, i)
    \/ \E j \in Jobs, c \in Codes : Decide(j, c)
    \/ \E j \in Jobs : Tell(j)
    \/ \E j \in Jobs, S \in SUBSET Jobs : Lose(j, S)
    \/ \E S \in SUBSET Jobs : Cancel(S)
    \/ Fail
    \/ \E code \in {0, 2, 3} : End(code)

Spec == Init /\ [][Next]_vars

-----------------------------------------------------------------------------
\* What a peer may conclude from an answer: it is the only one it will be told
\* of that request, and "cancelled" means that somebody asked for it.
Honest ==
    \A j \in Jobs : heard[j] # {} =>
        \E c \in Codes : heard[j] = {c} /\ (c = "request_cancelled" => j \in stopped)

\* What was told or is about to be, and why it may be believed.
HonestInv ==
    /\ phase \in [Jobs -> {"new", "open", "decided", "told", "lost"}]
    /\ DOMAIN verdict = Jobs /\ DOMAIN heard = Jobs
    /\ \A j \in Jobs : phase[j] = "decided" =>
           verdict[j] \in Codes /\ (verdict[j] = "request_cancelled" => j \in stopped)
    /\ \A j \in Jobs : phase[j] # "told" => heard[j] = {}
    /\ Honest

LEMMA HonestStep == HonestInv /\ [Next]_vars => HonestInv'
<1> SUFFICES ASSUME HonestInv, [Next]_vars PROVE HonestInv'
  OBVIOUS
<1> USE DEF HonestInv, Honest
<1>1. ASSUME NEW j \in Jobs, NEW i \in Ids, Accept(j, i) PROVE HonestInv'
  BY <1>1 DEF Accept
<1>2. ASSUME NEW j \in Jobs, NEW c \in Codes, Decide(j, c) PROVE HonestInv'
  BY <1>2 DEF Decide
<1>3. ASSUME NEW j \in Jobs, Tell(j) PROVE HonestInv'
  BY <1>3 DEF Tell
<1>4. ASSUME NEW j \in Jobs, NEW S \in SUBSET Jobs, Lose(j, S) PROVE HonestInv'
  BY <1>4 DEF Lose, Stop
<1>5. ASSUME NEW S \in SUBSET Jobs, Cancel(S) PROVE HonestInv'
  BY <1>5 DEF Cancel, Stop
<1>6. CASE Fail
  BY <1>6 DEF Fail
<1>7. ASSUME NEW code \in {0, 2, 3}, End(code) PROVE HonestInv'
  BY <1>7 DEF End
<1>8. CASE UNCHANGED vars
  BY <1>8 DEF vars
<1> QED
  BY <1>1, <1>2, <1>3, <1>4, <1>5, <1>6, <1>7, <1>8 DEF Next

\* Whoever keeps this promise is honest.
THEOREM PromiseIsHonest == Spec => []Honest
<1>1. Init => HonestInv
  BY DEF Init, HonestInv, Honest
<1>2. HonestInv => Honest
  BY DEF HonestInv
<1> QED
  BY <1>1, <1>2, HonestStep, PTL DEF Spec
=============================================================================
