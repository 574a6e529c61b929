------------------------- MODULE EngineClientProofs -------------------------
(***************************************************************************)
(* Proofs about EngineClient, for any number of calls, closers and frames: *)
(* its safety invariants, and that it implements RequestLifecycle.         *)
(*                                                                         *)
(* The argument follows the one sender of each call (Senders): from the    *)
(* pending map to the reader's hand or to a fail_all, and into the call's  *)
(* channel, never in two places; it enters the map before the request is   *)
(* written, so the engine cannot answer a call that is not there.  What    *)
(* the engine says (Words) reaches a call in the order of outbound, and    *)
(* the first terminal event takes the sender with it: later ones find      *)
(* nobody.  Writings ties inbound to where a call is, Closing stdin to     *)
(* where a closer is, and Causes every error of the client as a whole that *)
(* is on its way to a call to what has befallen the client before.         *)
(***************************************************************************)
EXTENDS EngineClient, SequenceTheorems, TLAPS

\* What the reader holds fits what it is about to do with it.
ReaderHolds ==
    /\ rpc = "send" => cur \in [kind : Terminals \cup {"progress"}, call : Calls]
    /\ rpc = "set_error" => cur \in ReaderErrors

Typed == TypeOK /\ ReaderHolds

\* Nobody is inside fail_all before the map was taken.
TakersStart ==
    /\ rpc # "gone" => failing[Reader] = {}
    /\ \A s \in Closers : spc[s] # "poll" => failing[s] = {}

\* What a channel carries.
Kinds == Terminals \cup ClientErrors \cup {"progress"}

TermIn(q)  == \E i \in 1..Len(q) : IsTerminal(q[i])
OneTerm(q) == \A i, k \in 1..Len(q) : IsTerminal(q[i]) /\ IsTerminal(q[k]) => i = k

Placed(c) == c \in pending \/ TermIn(chan[c]) \/ InHand(c) \/ BeingTold(c)

\* The sender is in one place, and in none before the call is registered; while
\* the call is going to wait, or waits, it is somewhere.
OneSender(c) ==
    /\ ~(c \in pending /\ (TermIn(chan[c]) \/ InHand(c) \/ BeingTold(c)))
    /\ ~(TermIn(chan[c]) /\ (InHand(c) \/ BeingTold(c)))
    /\ ~(InHand(c) /\ BeingTold(c))
    /\ \A a, b \in Failers : c \in failing[a] \cap failing[b] => a = b
    /\ OneTerm(chan[c])
    /\ cpc[c] \in {"idle", "check", "insert"} => ~Placed(c)
    /\ cpc[c] \in {"lock", "write", "wait"} => Placed(c)
    /\ cpc[c] \in {"cancel", "write_cancel", "done"} => c \notin pending

Senders == TakersStart /\ \A c \in Calls : OneSender(c)

Ordered(q) ==
    \A i \in 1..Len(q) : q[i].kind = "cancel" =>
        \E k \in 1..(i - 1) : q[k] = [kind |-> "request", call |-> q[i].call]
Distinct(q) == \A i, k \in 1..Len(q) : q[i] = q[k] => i = k

\* Which frames a call has written, by where it is.
WritesOf(c) ==
    /\ c \in Asked("request") =>
           cpc[c] \in {"wait", "forget", "cancel", "write_cancel", "done"}
    /\ cpc[c] \in {"wait", "cancel", "write_cancel"} => c \in Asked("request")
    /\ cpc[c] \in {"cancel", "write_cancel"} => result[c] = "timeout"
    /\ cpc[c] = "forget" =>
           IF c \in Asked("request") THEN result[c] = "timeout"
                                     ELSE result[c] \in {"protocol", "io", "closed"}
    /\ c \in Asked("cancel") => cpc[c] = "done" /\ result[c] = "timeout"
    /\ cpc[c] = "done" /\ result[c] = "timeout" /\ stdinOpen /\ eng = "up" =>
           c \in Asked("cancel")

Writings == Ordered(inbound) /\ Distinct(inbound) /\ \A c \in Calls : WritesOf(c)

Closing ==
    /\ ShutdownIsComplete
    /\ \A s \in Closers : spc[s] \in {"fail_all", "poll", "stopped"} => ~stdinOpen

Final(e, c)        == e.call = c /\ e.kind \in Terminals
NoWord(q, c)       == \A i \in 1..Len(q) : ~Final(q[i], c)
FirstWord(q, c, w) ==
    \E i \in 1..Len(q) : /\ Final(q[i], c) /\ q[i].kind = w
                         /\ \A k \in 1..(i - 1) : ~Final(q[k], c)
OnlyWord(q, w)     == \A i \in 1..Len(q) : q[i] \in Terminals => q[i] = w

\* While a call can still be answered, the first word about it in outbound is the
\* first there ever was.
WordsOf(c) ==
    /\ said[c] = None => NoWord(outbound, c)
    /\ said[c] # None => c \in Asked("request")
    /\ said[c] # None /\ c \in pending => FirstWord(outbound, c, said[c])
    /\ InHand(c) => cur.kind = said[c]
    /\ OnlyWord(chan[c], said[c])

Words == \A c \in Calls : WordsOf(c)

\* Nobody is told of a breakdown that has not happened.
FailsTrue(c) ==
    /\ \A i \in 1..Len(chan[c]) : chan[c][i] \in ClientErrors => chan[c][i] \in Broken
    /\ cpc[c] = "forget" /\ result[c] = "closed" => closed

Causes ==
    /\ \A c \in Calls : FailsTrue(c)
    /\ rpc \in {"fail_all", "gone"} => cur \in ReaderErrors /\ termErr = cur.kind
    /\ rpc \notin {"fail_all", "gone"} => termErr = None
    /\ \A s \in Closers : spc[s] # "idle" => closed
    /\ ~stdinOpen => closed

IInv == Typed /\ Senders /\ Writings /\ Closing /\ Words /\ Causes

-----------------------------------------------------------------------------
(* Types                                                                    *)

LEMMA OutboundTail ==
  ASSUME Typed, outbound # <<>>
  PROVE  Tail(outbound) \in Seq(Events)
  BY HeadTailProperties DEF Typed, TypeOK

\* What a fail_all tells the calls it took, and that it is so.
Told(a) == IF a = Reader THEN cur.kind ELSE "closed"

LEMMA ToldIsTrue ==
  ASSUME TakersStart, Causes, NEW a \in Failers, failing[a] # {}
  PROVE  Told(a) \in ClientErrors \cap Broken
<1> USE ClientAssumption DEF TakersStart, Causes, Told, Broken, ClientErrors, ReaderErrors
<1>1. CASE a = Reader
  <2>1. rpc = "gone" /\ cur \in ReaderErrors /\ termErr = cur.kind
    BY <1>1
  <2>2. cur.kind \in ClientErrors /\ cur.kind # None
    BY <2>1
  <2> QED
    BY <1>1, <2>1, <2>2
<1>2. CASE a # Reader
  <2>1. a \in Closers /\ spc[a] = "poll"
    BY <1>2 DEF Failers
  <2>2. closed
    BY <2>1
  <2> QED
    BY <1>2, <2>2
<1> QED
  BY <1>1, <1>2

LEMMA TypesStep ==
  ASSUME Typed, Senders, Causes, [Next]_vars
  PROVE  Typed'
<1> USE ClientAssumption DEF Typed, TypeOK, ReaderHolds, Events, ReaderErrors,
        ClientErrors, Terminals, Frames, Go, Return, TakePending, Walk, callVars, sharedVars,
        stdinVars, engVars, Failers
<1>1. ASSUME NEW c \in Calls, BeginCall(c) PROVE Typed'
  <2>1. \E pc \in {"check", "done"} : cpc' = [cpc EXCEPT ![c] = pc]
    BY <1>1 DEF BeginCall
  <2>2. cpc' \in [Calls -> {"idle", "check", "insert", "lock", "write", "wait",
                            "forget", "cancel", "write_cancel", "done"}]
    BY <2>1
  <2>3. result' \in [Calls -> Terminals \cup ClientErrors \cup {"timeout", None}]
    BY <1>1 DEF BeginCall
  <2>4. UNCHANGED <<chan, sharedVars, stdinVars, rpc, cur, failing, spc, engVars, inbound>>
    BY <1>1 DEF BeginCall
  <2> QED
    BY <2>1, <2>2, <2>3, <2>4
<1>2. ASSUME NEW c \in Calls, CheckTerminalError(c) PROVE Typed'
  <2>1. \E pc \in {"insert", "done"} : cpc' = [cpc EXCEPT ![c] = pc]
    BY <1>2 DEF CheckTerminalError
  <2>2. cpc' \in [Calls -> {"idle", "check", "insert", "lock", "write", "wait",
                            "forget", "cancel", "write_cancel", "done"}]
    BY <2>1
  <2>3. result' \in [Calls -> Terminals \cup ClientErrors \cup {"timeout", None}]
    BY <1>2 DEF CheckTerminalError
  <2>4. UNCHANGED <<chan, sharedVars, stdinVars, rpc, cur, failing, spc, engVars, inbound>>
    BY <1>2 DEF CheckTerminalError
  <2> QED
    BY <2>1, <2>2, <2>3, <2>4
<1>3. ASSUME NEW c \in Calls, InsertPending(c) PROVE Typed'
  BY <1>3 DEF InsertPending
<1>4. ASSUME NEW c \in Calls, LockStdin(c) PROVE Typed'
  <2>1. \E pc \in {"write", "write_cancel"} : cpc' = [cpc EXCEPT ![c] = pc]
    BY <1>4 DEF LockStdin
  <2>2. cpc' \in [Calls -> {"idle", "check", "insert", "lock", "write", "wait",
                            "forget", "cancel", "write_cancel", "done"}]
    BY <2>1
  <2>3. stdinOwner' = c
    BY <1>4 DEF LockStdin
  <2>4. UNCHANGED <<result, chan, sharedVars, stdinOpen, rpc, cur, failing, spc,
                    engVars, inbound>>
    BY <1>4 DEF LockStdin
  <2> QED
    BY <2>1, <2>2, <2>3, <2>4
<1>5. ASSUME NEW c \in Calls, WriteFrame(c) PROVE Typed'
  <2>1. \E pc \in {"wait", "done"} : cpc' = [cpc EXCEPT ![c] = pc]
    BY <1>5 DEF WriteFrame
  <2>2. cpc' \in [Calls -> {"idle", "check", "insert", "lock", "write", "wait",
                            "forget", "cancel", "write_cancel", "done"}]
    BY <2>1
  <2>3. \E f \in Frames : inbound' = Append(inbound, f)
    BY <1>5 DEF WriteFrame
  <2>4. inbound' \in Seq(Frames) /\ Len(inbound') = Len(inbound) + 1
    BY <2>3
  <2>5. taken' \in 0..Len(inbound')
    BY <1>5, <2>4 DEF WriteFrame
  <2>6. stdinOwner' = None
    BY <1>5 DEF WriteFrame
  <2>7. UNCHANGED <<result, chan, sharedVars, stdinOpen, rpc, cur, failing, spc, engVars>>
    BY <1>5 DEF WriteFrame
  <2> QED
    BY <2>1, <2>2, <2>3, <2>4, <2>5, <2>6, <2>7
<1>6. ASSUME NEW c \in Calls, WriteFails(c) PROVE Typed'
  <2>1. cpc' \in [Calls -> {"idle", "check", "insert", "lock", "write", "wait",
                            "forget", "cancel", "write_cancel", "done"}]
    BY <1>6 DEF WriteFails
  <2>2. result' \in [Calls -> Terminals \cup ClientErrors \cup {"timeout", None}]
    BY <1>6 DEF WriteFails
  <2>3. stdinOwner' = None
    BY <1>6 DEF WriteFails
  <2>4. UNCHANGED <<chan, sharedVars, stdinOpen, rpc, cur, failing, spc, engVars, inbound>>
    BY <1>6 DEF WriteFails
  <2> QED
    BY <2>1, <2>2, <2>3, <2>4
<1>7. ASSUME NEW c \in Calls, Receive(c) PROVE Typed'
  <2>1. cpc' = cpc \/ cpc' = [cpc EXCEPT ![c] = "done"]
    BY <1>7 DEF Receive
  <2>2. cpc' \in [Calls -> {"idle", "check", "insert", "lock", "write", "wait",
                            "forget", "cancel", "write_cancel", "done"}]
    BY <2>1
  <2>3. result' \in [Calls -> Terminals \cup ClientErrors \cup {"timeout", None}]
    <3>1. chan[c] # <<>> => Head(chan[c]) \in Terminals \cup ClientErrors \cup {"progress"}
      BY HeadTailProperties
    <3> HIDE DEF Terminals, ClientErrors
    <3> QED
      BY <1>7, <3>1 DEF Receive, IsTerminal
  <2>4. chan' \in [Calls -> Seq(Terminals \cup ClientErrors \cup {"progress"})]
    BY <1>7 DEF Receive
  <2>5. UNCHANGED <<sharedVars, stdinVars, rpc, cur, failing, spc, engVars, inbound>>
    BY <1>7 DEF Receive
  <2> QED
    BY <2>1, <2>2, <2>3, <2>4, <2>5
<1>8. ASSUME NEW c \in Calls, DeadlinePasses(c) PROVE Typed'
  BY <1>8 DEF DeadlinePasses
<1>9. ASSUME NEW c \in Calls, Forget(c) PROVE Typed'
  BY <1>9 DEF Forget
<1>10. ASSUME ReadEvent PROVE Typed'
  BY <1>10 DEF ReadEvent
<1>11. ASSUME SendEvent PROVE Typed'
  BY <1>11 DEF SendEvent
<1>12. ASSUME ReaderStops PROVE Typed'
  <2>1. outbound' = outbound \/ (outbound # <<>> /\ outbound' = Tail(outbound))
    BY <1>12 DEF ReaderStops
  <2>2. outbound' \in Seq(Events)
    BY <2>1, OutboundTail
  <2>3. cur' \in ReaderErrors /\ rpc' = "set_error"
    BY <1>12 DEF ReaderStops
  <2>4. UNCHANGED <<callVars, chan, sharedVars, stdinVars, failing, spc,
                    eng, taken, sent, said, inbound>>
    BY <1>12 DEF ReaderStops
  <2> QED
    BY <2>1, <2>2, <2>3, <2>4
<1>13. ASSUME SetTerminalError PROVE Typed'
  BY <1>13 DEF SetTerminalError
<1>14. ASSUME ReaderFailsAll PROVE Typed'
  BY <1>14 DEF ReaderFailsAll
<1>15. ASSUME NEW a \in Failers, FailNext(a) PROVE Typed'
  <2>1. UNCHANGED <<callVars, sharedVars, stdinVars, rpc, cur, spc, engVars, inbound>>
    BY <1>15 DEF FailNext
  <2>2. PICK c \in Calls : /\ c \in failing[a]
                          /\ chan' = [chan EXCEPT ![c] = Append(@, Told(a))]
                          /\ failing' = [failing EXCEPT ![a] = @ \ {c}]
    BY <1>15 DEF FailNext, Told
  <2>3. Told(a) \in ClientErrors
    BY <2>2, ToldIsTrue DEF Senders
  <2> HIDE DEF ClientErrors, Terminals
  <2>4. chan' \in [Calls -> Seq(Terminals \cup ClientErrors \cup {"progress"})]
    BY <2>2, <2>3
  <2> HIDE DEF Events, Frames, ReaderErrors
  <2> QED
    BY <2>1, <2>2, <2>4
<1>16. ASSUME NEW s \in Closers, BeginShutdown(s) PROVE Typed'
  <2>1. spc' \in [Closers -> {"idle", "close_stdin", "fail_all", "poll", "stopped"}]
    BY <1>16 DEF BeginShutdown
  <2>2. closed' = TRUE
    BY <1>16 DEF BeginShutdown
  <2>3. UNCHANGED <<callVars, chan, pending, termErr, stdinVars, rpc, cur, failing,
                    engVars, inbound>>
    BY <1>16 DEF BeginShutdown
  <2> QED
    BY <2>1, <2>2, <2>3
<1>17. ASSUME NEW s \in Closers, CloseStdin(s) PROVE Typed'
  <2>1. stdinOpen' = FALSE
    BY <1>17 DEF CloseStdin
  <2>2. spc' \in [Closers -> {"idle", "close_stdin", "fail_all", "poll", "stopped"}]
    BY <1>17 DEF CloseStdin
  <2>3. UNCHANGED <<callVars, chan, sharedVars, stdinOwner, rpc, cur, failing,
                    engVars, inbound>>
    BY <1>17 DEF CloseStdin
  <2>4. ReaderHolds'
    BY <2>3
  <2> HIDE DEF Events, Frames, ReaderErrors, ReaderHolds, Terminals
  <2> QED
    BY <2>1, <2>2, <2>3, <2>4
<1>18. ASSUME NEW s \in Closers, CloserFailsAll(s) PROVE Typed'
  BY <1>18 DEF CloserFailsAll
<1>19. ASSUME NEW s \in Closers, SeeExit(s) PROVE Typed'
  BY <1>19 DEF SeeExit
<1>20. ASSUME NEW s \in Closers, Kill(s) PROVE Typed'
  BY <1>20 DEF Kill
<1>21. ASSUME EngineReads PROVE Typed'
  BY <1>21 DEF EngineReads
<1>22. ASSUME EngineWrites PROVE Typed'
  BY <1>22 DEF EngineWrites
<1>23. ASSUME EngineExits PROVE Typed'
  BY <1>23 DEF EngineExits
<1>24. ASSUME NEW c \in Calls, RefuseArguments(c) PROVE Typed'
  BY <1>24 DEF RefuseArguments
<1>25. ASSUME NEW c \in Calls, RefuseOversized(c) PROVE Typed'
  BY <1>25 DEF RefuseOversized
<1>26. ASSUME EngineTurnsDeaf PROVE Typed'
  BY <1>26 DEF EngineTurnsDeaf
<1>27. ASSUME UNCHANGED vars PROVE Typed'
  BY <1>27 DEF vars
<1> QED
  BY <1>1, <1>2, <1>3, <1>4, <1>5, <1>6, <1>7, <1>8, <1>9, <1>10, <1>11, <1>12,
     <1>13, <1>14, <1>15, <1>16, <1>17, <1>18, <1>19, <1>20, <1>21, <1>22,
     <1>23, <1>24, <1>25, <1>26, <1>27 DEF Next, Caller, ReaderStep, Closer

-----------------------------------------------------------------------------
(* Senders                                                                  *)

LEMMA AppendTerm ==
  ASSUME NEW q \in Seq(Kinds), NEW k \in Kinds
  PROVE  /\ TermIn(Append(q, k)) <=> TermIn(q) \/ IsTerminal(k)
         /\ OneTerm(q) /\ ~(TermIn(q) /\ IsTerminal(k)) => OneTerm(Append(q, k))
<1> DEFINE r == Append(q, k)
<1>1. /\ Len(r) = Len(q) + 1 /\ Len(q) \in Nat
      /\ \A i \in 1..Len(q) : r[i] = q[i]
      /\ r[Len(q) + 1] = k
  BY AppendProperties, LenProperties
<1> HIDE DEF r
<1>2. TermIn(r) <=> TermIn(q) \/ IsTerminal(k)
  BY <1>1 DEF TermIn
<1>3. OneTerm(q) /\ ~(TermIn(q) /\ IsTerminal(k)) => OneTerm(r)
  BY <1>1 DEF TermIn, OneTerm
<1> QED
  BY <1>2, <1>3 DEF r

LEMMA TailTerm ==
  ASSUME NEW q \in Seq(Kinds), q # <<>>, OneTerm(q)
  PROVE  /\ OneTerm(Tail(q))
         /\ IsTerminal(Head(q)) => ~TermIn(Tail(q))
         /\ ~IsTerminal(Head(q)) => (TermIn(Tail(q)) <=> TermIn(q))
<1> DEFINE r == Tail(q)
<1>1. /\ Len(r) = Len(q) - 1 /\ Len(q) \in Nat \ {0}
      /\ \A i \in 1..Len(r) : r[i] = q[i + 1]
      /\ Head(q) = q[1]
  BY HeadTailProperties, LenProperties, EmptySeq
<1> HIDE DEF r
<1>2. OneTerm(r)
  BY <1>1 DEF OneTerm
<1>3. IsTerminal(Head(q)) => ~TermIn(r)
  BY <1>1 DEF TermIn, OneTerm
<1>4. ASSUME ~IsTerminal(Head(q))
      PROVE  TermIn(r) <=> TermIn(q)
  <2>1. ASSUME NEW i \in 1..Len(q), IsTerminal(q[i])
        PROVE  i - 1 \in 1..Len(r) /\ r[i - 1] = q[i]
    BY <1>1, <1>4, <2>1
  <2>2. TermIn(q) => TermIn(r)
    BY <2>1 DEF TermIn
  <2>3. TermIn(r) => TermIn(q)
    BY <1>1 DEF TermIn
  <2> QED
    BY <2>2, <2>3
<1> QED
  BY <1>2, <1>3, <1>4 DEF r

LEMMA SendersStep ==
  ASSUME Typed, Senders, Causes, [Next]_vars
  PROVE  Senders'
<1> USE ClientAssumption DEF Typed, TypeOK, ReaderHolds, Senders, OneSender, TakersStart,
        Placed, InHand, BeingTold, Go, Return, TakePending, Walk, callVars,
        sharedVars, stdinVars, engVars, Failers
<1>1. ASSUME NEW c \in Calls, BeginCall(c) PROVE Senders'
  BY <1>1 DEF BeginCall
<1>2. ASSUME NEW c \in Calls, CheckTerminalError(c) PROVE Senders'
  <2>1. UNCHANGED <<chan, pending, rpc, cur, failing, spc>>
    BY <1>2 DEF CheckTerminalError
  <2>2. cpc[c] = "check" /\ \E pc \in {"insert", "done"} : cpc' = [cpc EXCEPT ![c] = pc]
    BY <1>2 DEF CheckTerminalError
  <2> QED
    BY <2>1, <2>2
<1>3. ASSUME NEW c \in Calls, InsertPending(c) PROVE Senders'
  BY <1>3 DEF InsertPending
<1>4. ASSUME NEW c \in Calls, LockStdin(c) PROVE Senders'
  <2>1. UNCHANGED <<chan, pending, rpc, cur, failing, spc>>
    BY <1>4 DEF LockStdin
  <2>2. \/ cpc[c] = "lock" /\ cpc' = [cpc EXCEPT ![c] = "write"]
        \/ cpc[c] = "cancel" /\ cpc' = [cpc EXCEPT ![c] = "write_cancel"]
    BY <1>4 DEF LockStdin
  <2>3. OneSender(c)'
    BY <2>1, <2>2
  <2>4. ASSUME NEW d \in Calls, d # c PROVE OneSender(d)'
    BY <2>1, <2>2, <2>4
  <2> QED
    BY <2>1, <2>3, <2>4
<1>5. ASSUME NEW c \in Calls, WriteFrame(c) PROVE Senders'
  <2>1. UNCHANGED <<chan, pending, rpc, cur, failing, spc>>
    BY <1>5 DEF WriteFrame
  <2>2. \/ cpc[c] = "write" /\ cpc' = [cpc EXCEPT ![c] = "wait"]
        \/ cpc[c] = "write_cancel" /\ cpc' = [cpc EXCEPT ![c] = "done"]
    BY <1>5 DEF WriteFrame
  <2>3. OneSender(c)'
    BY <2>1, <2>2
  <2>4. ASSUME NEW d \in Calls, d # c PROVE OneSender(d)'
    BY <2>1, <2>2, <2>4
  <2> QED
    BY <2>1, <2>3, <2>4
<1>6. ASSUME NEW c \in Calls, WriteFails(c) PROVE Senders'
  <2>1. UNCHANGED <<chan, pending, rpc, cur, failing, spc>>
    BY <1>6 DEF WriteFails
  <2>2. \/ cpc[c] = "write" /\ cpc' = [cpc EXCEPT ![c] = "forget"]
        \/ cpc[c] = "write_cancel" /\ cpc' = [cpc EXCEPT ![c] = "done"]
    BY <1>6 DEF WriteFails
  <2>3. OneSender(c)'
    BY <2>1, <2>2
  <2>4. ASSUME NEW d \in Calls, d # c PROVE OneSender(d)'
    BY <2>1, <2>2, <2>4
  <2> QED
    BY <2>1, <2>3, <2>4
<1>7. ASSUME NEW c \in Calls, Receive(c) PROVE Senders'
  <2>1. /\ UNCHANGED <<pending, rpc, cur, failing, spc>>
        /\ cpc[c] = "wait" /\ chan[c] # <<>>
        /\ chan' = [chan EXCEPT ![c] = Tail(chan[c])]
        /\ cpc' = IF IsTerminal(Head(chan[c])) THEN [cpc EXCEPT ![c] = "done"] ELSE cpc
    BY <1>7 DEF Receive
  <2>2. /\ OneTerm(Tail(chan[c]))
        /\ IsTerminal(Head(chan[c])) => ~TermIn(Tail(chan[c]))
        /\ ~IsTerminal(Head(chan[c])) => (TermIn(Tail(chan[c])) <=> TermIn(chan[c]))
    BY <2>1, TailTerm DEF Kinds
  <2>3. IsTerminal(Head(chan[c])) => TermIn(chan[c])
    BY <2>1, EmptySeq, LenProperties DEF TermIn
  <2>4. OneSender(c)'
    BY <2>1, <2>2, <2>3
  <2>5. ASSUME NEW d \in Calls, d # c PROVE OneSender(d)'
    BY <2>1, <2>5
  <2>6. TakersStart'
    BY <2>1
  <2> QED
    BY <2>4, <2>5, <2>6
<1>8. ASSUME NEW c \in Calls, DeadlinePasses(c) PROVE Senders'
  BY <1>8 DEF DeadlinePasses
<1>9. ASSUME NEW c \in Calls, Forget(c) PROVE Senders'
  BY <1>9 DEF Forget
<1>10. ASSUME ReadEvent PROVE Senders'
  BY <1>10 DEF ReadEvent
<1>11. ASSUME SendEvent PROVE Senders'
  <2> PICK d \in Calls, k \in Kinds : d = cur.call /\ k = cur.kind
    BY <1>11 DEF SendEvent, Kinds, Terminals
  <2>1. /\ UNCHANGED <<cpc, pending, failing, spc>>
        /\ rpc = "send" /\ rpc' = "read" /\ k \in Terminals \cup {"progress"}
        /\ chan' = [chan EXCEPT ![d] = Append(chan[d], k)]
    BY <1>11 DEF SendEvent
  <2>2. /\ TermIn(chan'[d]) <=> TermIn(chan[d]) \/ IsTerminal(k)
        /\ ~(TermIn(chan[d]) /\ IsTerminal(k)) => OneTerm(chan'[d])
    <3>1. chan[d] \in Seq(Kinds) /\ chan'[d] = Append(chan[d], k) /\ OneTerm(chan[d])
      BY <2>1 DEF Kinds
    <3> HIDE DEF OneSender, Typed, TypeOK
    <3> QED
      BY <3>1, AppendTerm
  <2>3. OneSender(d)'
    BY <2>1, <2>2 DEF IsTerminal, Terminals
  <2>4. ASSUME NEW e \in Calls, e # d PROVE OneSender(e)'
    BY <2>1, <2>4
  <2>5. TakersStart'
    BY <2>1
  <2> QED
    BY <2>3, <2>4, <2>5
<1>12. ASSUME ReaderStops PROVE Senders'
  BY <1>12 DEF ReaderStops
<1>13. ASSUME SetTerminalError PROVE Senders'
  BY <1>13 DEF SetTerminalError
<1>14. ASSUME ReaderFailsAll PROVE Senders'
  BY <1>14 DEF ReaderFailsAll
<1>15. ASSUME NEW a \in Failers, FailNext(a) PROVE Senders'
  <2> PICK c \in Calls :
        /\ c \in failing[a]
        /\ chan' = [chan EXCEPT ![c] = Append(chan[c], Told(a))]
        /\ failing' = [failing EXCEPT ![a] = failing[a] \ {c}]
    BY <1>15 DEF FailNext, Told
  <2>0. Told(a) \in Kinds /\ IsTerminal(Told(a))
    <3>1. Told(a) \in ClientErrors
      BY ToldIsTrue
    <3> QED
      BY <3>1 DEF Kinds, IsTerminal, ClientErrors
  <2>1. /\ UNCHANGED <<cpc, pending, rpc, cur, spc>>
        /\ chan' = [chan EXCEPT ![c] = Append(chan[c], Told(a))]
    BY <1>15 DEF FailNext
  <2>2. TermIn(chan'[c]) /\ (~TermIn(chan[c]) => OneTerm(chan'[c]))
    <3>1. chan[c] \in Seq(Kinds) /\ chan'[c] = Append(chan[c], Told(a)) /\ OneTerm(chan[c])
      BY <2>1 DEF Kinds
    <3> HIDE DEF OneSender, Typed, TypeOK
    <3> QED
      BY <2>0, <3>1, AppendTerm
  <2>3. OneSender(c)'
    BY <2>1, <2>2
  <2>4. ASSUME NEW d \in Calls, d # c PROVE OneSender(d)'
    BY <2>1, <2>4
  <2>5. TakersStart'
    BY <2>1
  <2> QED
    BY <2>3, <2>4, <2>5
<1>16. ASSUME NEW s \in Closers, BeginShutdown(s) PROVE Senders'
  BY <1>16 DEF BeginShutdown
<1>17. ASSUME NEW s \in Closers, CloseStdin(s) PROVE Senders'
  BY <1>17 DEF CloseStdin
<1>18. ASSUME NEW s \in Closers, CloserFailsAll(s) PROVE Senders'
  <2>1. /\ UNCHANGED <<cpc, chan, rpc, cur>>
        /\ failing[s] = {} /\ failing' = [failing EXCEPT ![s] = pending]
        /\ pending' = {}
        /\ s # Reader
    BY <1>18 DEF CloserFailsAll
  <2>2. ASSUME NEW d \in Calls PROVE OneSender(d)'
    BY <2>1
  <2>3. TakersStart'
    BY <1>18, <2>1 DEF CloserFailsAll
  <2> QED
    BY <2>2, <2>3
<1>19. ASSUME NEW s \in Closers, SeeExit(s) PROVE Senders'
  BY <1>19 DEF SeeExit
<1>20. ASSUME NEW s \in Closers, Kill(s) PROVE Senders'
  BY <1>20 DEF Kill
<1>21. ASSUME EngineReads PROVE Senders'
  BY <1>21 DEF EngineReads
<1>22. ASSUME EngineWrites PROVE Senders'
  BY <1>22 DEF EngineWrites
<1>23. ASSUME EngineExits PROVE Senders'
  BY <1>23 DEF EngineExits
<1>24. ASSUME NEW c \in Calls, RefuseArguments(c) PROVE Senders'
  BY <1>24 DEF RefuseArguments
<1>25. ASSUME NEW c \in Calls, RefuseOversized(c) PROVE Senders'
  BY <1>25 DEF RefuseOversized
<1>26. ASSUME EngineTurnsDeaf PROVE Senders'
  BY <1>26 DEF EngineTurnsDeaf
<1>27. ASSUME UNCHANGED vars PROVE Senders'
  BY <1>27 DEF vars
<1> QED
  BY <1>1, <1>2, <1>3, <1>4, <1>5, <1>6, <1>7, <1>8, <1>9, <1>10, <1>11, <1>12,
     <1>13, <1>14, <1>15, <1>16, <1>17, <1>18, <1>19, <1>20, <1>21, <1>22,
     <1>23, <1>24, <1>25, <1>26, <1>27 DEF Next, Caller, ReaderStep, Closer

-----------------------------------------------------------------------------
(* What is written                                                          *)

LEMMA AskedAppend ==
  ASSUME Typed, NEW k \in {"request", "cancel"}, NEW d \in Calls,
         inbound' = Append(inbound, [kind |-> k, call |-> d])
  PROVE  \A j \in {"request", "cancel"}, c \in Calls :
             c \in Asked(j)' <=> c \in Asked(j) \/ (j = k /\ c = d)
<1> DEFINE f == [kind |-> k, call |-> d]
<1>1. f \in Frames /\ inbound \in Seq(Frames)
  BY DEF Frames, Typed, TypeOK
<1>2. /\ Len(inbound') = Len(inbound) + 1 /\ Len(inbound) \in Nat
      /\ \A i \in 1..Len(inbound) : inbound'[i] = inbound[i]
      /\ inbound'[Len(inbound) + 1] = f
  BY <1>1, AppendProperties, LenProperties
<1> SUFFICES ASSUME NEW j \in {"request", "cancel"}, NEW c \in Calls
             PROVE  c \in Asked(j)' <=> c \in Asked(j) \/ (j = k /\ c = d)
  OBVIOUS
<1>3. ASSUME c \in Asked(j)' PROVE c \in Asked(j) \/ (j = k /\ c = d)
  <2>1. PICK i \in 1..Len(inbound') : inbound'[i] = [kind |-> j, call |-> c]
    BY <1>3 DEF Asked
  <2>2. CASE i = Len(inbound) + 1
    BY <1>2, <2>1, <2>2
  <2>3. CASE i \in 1..Len(inbound)
    BY <1>2, <2>1, <2>3 DEF Asked
  <2> QED
    BY <1>2, <2>2, <2>3
<1>4. ASSUME c \in Asked(j) PROVE c \in Asked(j)'
  BY <1>2, <1>4 DEF Asked
<1>5. ASSUME j = k, c = d PROVE c \in Asked(j)'
  BY <1>2, <1>5 DEF Asked
<1> QED
  BY <1>3, <1>4, <1>5

LEMMA AskedAreCalls == \A j : Asked(j) \subseteq Calls /\ Asked(j)' \subseteq Calls
  BY DEF Asked

LEMMA AskedSame == inbound' = inbound => \A j : Asked(j)' = Asked(j)
  BY DEF Asked

\* A frame that is new, and a cancellation only after its request.
LEMMA AppendFrame ==
  ASSUME Typed, Ordered(inbound), Distinct(inbound),
         NEW k \in {"request", "cancel"}, NEW d \in Calls,
         d \notin Asked(k), k = "cancel" => d \in Asked("request"),
         inbound' = Append(inbound, [kind |-> k, call |-> d])
  PROVE  Ordered(inbound)' /\ Distinct(inbound)'
<1> DEFINE f == [kind |-> k, call |-> d]
           n == Len(inbound)
<1>1. f \in Frames /\ inbound \in Seq(Frames)
  BY DEF Frames, Typed, TypeOK
<1>2. /\ Len(inbound') = n + 1 /\ n \in Nat
      /\ \A i \in 1..n : inbound'[i] = inbound[i]
      /\ inbound'[n + 1] = f
  BY <1>1, AppendProperties, LenProperties
<1>3. \A i \in 1..n : inbound[i] # f
  BY DEF Asked
<1>4. Distinct(inbound)'
  BY <1>2, <1>3 DEF Distinct
<1>5. ASSUME NEW i \in 1..(n + 1), inbound'[i].kind = "cancel"
      PROVE  \E m \in 1..(i - 1) :
                 inbound'[m] = [kind |-> "request", call |-> inbound'[i].call]
  <2>1. CASE i \in 1..n
    BY <1>2, <1>5, <2>1 DEF Ordered
  <2>2. CASE i = n + 1
    <3>1. PICK m \in 1..n : inbound[m] = [kind |-> "request", call |-> d]
      BY <1>2, <1>5, <2>2 DEF Asked
    <3> QED
      BY <1>2, <2>2, <3>1
  <2> QED
    BY <1>2, <2>1, <2>2
<1> QED
  BY <1>2, <1>4, <1>5 DEF Ordered

LEMMA WritingsStep ==
  ASSUME Typed, Writings, [Next]_vars
  PROVE  Writings'
<1> USE ClientAssumption DEF Typed, TypeOK, Writings, WritesOf, Go, Return, callVars,
        sharedVars, stdinVars, engVars
<1>1. ASSUME NEW c \in Calls, BeginCall(c) PROVE Writings'
  <2>1. /\ UNCHANGED <<stdinOpen, eng, inbound>> /\ cpc[c] = "idle"
        /\ \/ \E v \in {"closed"} : /\ cpc' = [cpc EXCEPT ![c] = "done"]
                  /\ result' = [result EXCEPT ![c] = v]
           \/ cpc' = [cpc EXCEPT ![c] = "check"] /\ result' = result
    BY <1>1 DEF BeginCall
  <2>2. Ordered(inbound)' /\ Distinct(inbound)'
    BY <2>1 DEF Ordered, Distinct
  <2>3. WritesOf(c)'
    BY <2>1, AskedSame
  <2>4. ASSUME NEW d \in Calls, d # c PROVE WritesOf(d)'
    BY <2>1, <2>4, AskedSame
  <2> QED
    BY <2>2, <2>3, <2>4
<1>2. ASSUME NEW c \in Calls, CheckTerminalError(c) PROVE Writings'
  <2>1. /\ UNCHANGED <<stdinOpen, eng, inbound>> /\ cpc[c] = "check"
        /\ \/ \E v \in {"exited", "protocol", "io"} : /\ cpc' = [cpc EXCEPT ![c] = "done"]
                  /\ result' = [result EXCEPT ![c] = v]
           \/ cpc' = [cpc EXCEPT ![c] = "insert"] /\ result' = result
    BY <1>2 DEF CheckTerminalError
  <2>2. Ordered(inbound)' /\ Distinct(inbound)'
    BY <2>1 DEF Ordered, Distinct
  <2>3. WritesOf(c)'
    BY <2>1, AskedSame
  <2>4. ASSUME NEW d \in Calls, d # c PROVE WritesOf(d)'
    BY <2>1, <2>4, AskedSame
  <2> QED
    BY <2>2, <2>3, <2>4
<1>3. ASSUME NEW c \in Calls, InsertPending(c) PROVE Writings'
  BY <1>3, AskedSame DEF InsertPending, Ordered, Distinct
<1>4. ASSUME NEW c \in Calls, LockStdin(c) PROVE Writings'
  BY <1>4, AskedSame DEF LockStdin, Ordered, Distinct
<1>5. ASSUME NEW c \in Calls, WriteFrame(c) PROVE Writings'
  <2>1. CASE cpc[c] = "write"
    <3>1. /\ inbound' = Append(inbound, [kind |-> "request", call |-> c])
          /\ cpc' = [cpc EXCEPT ![c] = "wait"] /\ UNCHANGED <<result, stdinOpen, eng>>
      BY <1>5, <2>1 DEF WriteFrame
    <3>2. c \notin Asked("request") /\ c \notin Asked("cancel")
      BY <2>1
    <3>3. Ordered(inbound)' /\ Distinct(inbound)'
      BY <3>1, <3>2, AppendFrame
    <3>4. \A d \in Calls : /\ d \in Asked("request")' <=> d \in Asked("request") \/ d = c
                           /\ d \in Asked("cancel")' <=> d \in Asked("cancel")
      BY <3>1, AskedAppend
    <3>5. WritesOf(c)'
      BY <2>1, <3>1, <3>2, <3>4
    <3>6. ASSUME NEW d \in Calls, d # c PROVE WritesOf(d)'
      <4>1. /\ cpc'[d] = cpc[d] /\ result'[d] = result[d]
            /\ eng' = eng /\ stdinOpen' = stdinOpen
        BY <3>1, <3>6
      <4>2. /\ d \in Asked("request")' <=> d \in Asked("request")
            /\ d \in Asked("cancel")' <=> d \in Asked("cancel")
        BY <3>4, <3>6
      <4> QED
        BY <4>1, <4>2
    <3> QED
      BY <3>3, <3>5, <3>6
  <2>2. CASE cpc[c] = "write_cancel"
    <3>1. /\ inbound' = Append(inbound, [kind |-> "cancel", call |-> c])
          /\ cpc' = [cpc EXCEPT ![c] = "done"] /\ UNCHANGED <<result, stdinOpen, eng>>
      BY <1>5, <2>2 DEF WriteFrame
    <3>2. c \in Asked("request") /\ c \notin Asked("cancel") /\ result[c] = "timeout"
      BY <2>2
    <3>3. Ordered(inbound)' /\ Distinct(inbound)'
      BY <3>1, <3>2, AppendFrame
    <3>4. \A d \in Calls : /\ d \in Asked("request")' <=> d \in Asked("request")
                           /\ d \in Asked("cancel")' <=> d \in Asked("cancel") \/ d = c
      BY <3>1, AskedAppend
    <3>5. WritesOf(c)'
      BY <2>2, <3>1, <3>2, <3>4
    <3>6. ASSUME NEW d \in Calls, d # c PROVE WritesOf(d)'
      <4>1. /\ cpc'[d] = cpc[d] /\ result'[d] = result[d]
            /\ eng' = eng /\ stdinOpen' = stdinOpen
        BY <3>1, <3>6
      <4>2. /\ d \in Asked("request")' <=> d \in Asked("request")
            /\ d \in Asked("cancel")' <=> d \in Asked("cancel")
        BY <3>4, <3>6
      <4> QED
        BY <4>1, <4>2
    <3> QED
      BY <3>3, <3>5, <3>6
  <2> QED
    BY <1>5, <2>1, <2>2 DEF WriteFrame
<1>6. ASSUME NEW c \in Calls, WriteFails(c) PROVE Writings'
  BY <1>6, AskedSame DEF WriteFails, Ordered, Distinct
<1>7. ASSUME NEW c \in Calls, Receive(c) PROVE Writings'
  <2>1. /\ UNCHANGED <<stdinOpen, eng, inbound>> /\ cpc[c] = "wait"
        /\ \/ cpc' = cpc /\ result' = result
           \/ \E v \in Kinds : /\ cpc' = [cpc EXCEPT ![c] = "done"]
                               /\ result' = [result EXCEPT ![c] = v]
    <3>1. Head(chan[c]) \in Kinds
      BY <1>7, HeadTailProperties DEF Receive, Kinds
    <3> QED
      BY <1>7, <3>1 DEF Receive
  <2>2. Ordered(inbound)' /\ Distinct(inbound)'
    BY <2>1 DEF Ordered, Distinct
  <2>3. ASSUME NEW d \in Calls PROVE WritesOf(d)'
    BY <2>1, AskedSame DEF Kinds, Terminals, ClientErrors
  <2> QED
    BY <2>2, <2>3
<1>8. ASSUME NEW c \in Calls, DeadlinePasses(c) PROVE Writings'
  BY <1>8, AskedSame DEF DeadlinePasses, Ordered, Distinct
<1>9. ASSUME NEW c \in Calls, Forget(c) PROVE Writings'
  BY <1>9, AskedSame DEF Forget, Ordered, Distinct
<1>10. ASSUME NEW s \in Closers, CloseStdin(s) PROVE Writings'
  BY <1>10, AskedSame DEF CloseStdin, Ordered, Distinct
<1>11. ASSUME NEW s \in Closers, Kill(s) PROVE Writings'
  BY <1>11, AskedSame DEF Kill, Ordered, Distinct
<1>12. ASSUME EngineExits PROVE Writings'
  BY <1>12, AskedSame DEF EngineExits, Ordered, Distinct
<1>14. ASSUME NEW c \in Calls, RefuseArguments(c) PROVE Writings'
  BY <1>14, AskedSame DEF RefuseArguments, Ordered, Distinct
<1>15. ASSUME NEW c \in Calls, RefuseOversized(c) PROVE Writings'
  BY <1>15, AskedSame DEF RefuseOversized, Ordered, Distinct
<1>16. ASSUME EngineTurnsDeaf PROVE Writings'
  BY <1>16, AskedSame DEF EngineTurnsDeaf, Ordered, Distinct
<1>13. ASSUME UNCHANGED <<callVars, stdinOpen, eng, inbound>> PROVE Writings'
  <2>1. Ordered(inbound)' /\ Distinct(inbound)'
    BY <1>13 DEF Ordered, Distinct
  <2>2. ASSUME NEW d \in Calls PROVE WritesOf(d)'
    BY <1>13, AskedSame
  <2> QED
    BY <2>1, <2>2
<1> QED
  BY <1>1, <1>2, <1>3, <1>4, <1>5, <1>6, <1>7, <1>8, <1>9, <1>10, <1>11, <1>12,
     <1>13, <1>14, <1>15, <1>16 DEF Next, vars, Caller, ReaderStep, Closer,
     ReadEvent, SendEvent, ReaderStops, SetTerminalError, ReaderFailsAll, FailNext, BeginShutdown, CloserFailsAll, SeeExit, EngineReads, EngineWrites

-----------------------------------------------------------------------------
(* Shutdown                                                                 *)

LEMMA ClosingStep ==
  ASSUME Typed, Senders, Closing, [Next]_vars
  PROVE  Closing'
<1> USE ClientAssumption DEF Typed, TypeOK, Senders, OneSender, Placed, Closing,
        ShutdownIsComplete, Go, Return, TakePending, Walk, callVars, sharedVars, stdinVars, engVars
<1>1. ASSUME NEW c \in Calls, BeginCall(c) PROVE Closing'
  BY <1>1 DEF BeginCall
<1>2. ASSUME NEW c \in Calls, CheckTerminalError(c) PROVE Closing'
  BY <1>2 DEF CheckTerminalError
<1>3. ASSUME NEW c \in Calls, InsertPending(c) PROVE Closing'
  BY <1>3 DEF InsertPending
<1>4. ASSUME NEW c \in Calls, LockStdin(c) PROVE Closing'
  BY <1>4 DEF LockStdin
<1>5. ASSUME NEW c \in Calls, WriteFrame(c) PROVE Closing'
  BY <1>5 DEF WriteFrame
<1>6. ASSUME NEW c \in Calls, WriteFails(c) PROVE Closing'
  BY <1>6 DEF WriteFails
<1>7. ASSUME NEW c \in Calls, Receive(c) PROVE Closing'
  BY <1>7 DEF Receive
<1>8. ASSUME NEW c \in Calls, DeadlinePasses(c) PROVE Closing'
  BY <1>8 DEF DeadlinePasses
<1>9. ASSUME NEW c \in Calls, Forget(c) PROVE Closing'
  BY <1>9 DEF Forget
<1>10. ASSUME ReadEvent PROVE Closing'
  BY <1>10 DEF ReadEvent
<1>11. ASSUME ReaderFailsAll PROVE Closing'
  BY <1>11 DEF ReaderFailsAll
<1>12. ASSUME NEW s \in Closers, BeginShutdown(s) PROVE Closing'
  BY <1>12 DEF BeginShutdown
<1>13. ASSUME NEW s \in Closers, CloseStdin(s) PROVE Closing'
  BY <1>13 DEF CloseStdin
<1>14. ASSUME NEW s \in Closers, CloserFailsAll(s) PROVE Closing'
  BY <1>14 DEF CloserFailsAll
<1>15. ASSUME NEW s \in Closers, SeeExit(s) PROVE Closing'
  BY <1>15 DEF SeeExit
<1>16. ASSUME NEW s \in Closers, Kill(s) PROVE Closing'
  BY <1>16 DEF Kill
<1>17. ASSUME EngineExits PROVE Closing'
  BY <1>17 DEF EngineExits
<1>18. ASSUME NEW c \in Calls, RefuseArguments(c) PROVE Closing'
  BY <1>18 DEF RefuseArguments
<1>19. ASSUME NEW c \in Calls, RefuseOversized(c) PROVE Closing'
  BY <1>19 DEF RefuseOversized
<1>20. ASSUME EngineTurnsDeaf PROVE Closing'
  BY <1>20 DEF EngineTurnsDeaf
<1>21. ASSUME UNCHANGED <<cpc, pending, spc, stdinOpen, eng>> PROVE Closing'
  BY <1>21
<1> QED
  BY <1>1, <1>2, <1>3, <1>4, <1>5, <1>6, <1>7, <1>8, <1>9, <1>10, <1>11, <1>12,
     <1>13, <1>14, <1>15, <1>16, <1>17, <1>18, <1>19, <1>20, <1>21
  DEF Next, vars, Caller, ReaderStep, Closer, Failers,
     SendEvent, ReaderStops, SetTerminalError, FailNext, EngineReads, EngineWrites

-----------------------------------------------------------------------------
(* Words                                                                    *)

LEMMA WordAppend ==
  ASSUME NEW q \in Seq(Events), NEW e \in Events, NEW c \in Calls
  PROVE  /\ NoWord(q, c) /\ ~Final(e, c) => NoWord(Append(q, e), c)
         /\ NoWord(q, c) /\ Final(e, c) => FirstWord(Append(q, e), c, e.kind)
         /\ \A w : FirstWord(q, c, w) => FirstWord(Append(q, e), c, w)
<1> DEFINE r == Append(q, e)
           n == Len(q)
<1>1. /\ Len(r) = n + 1 /\ n \in Nat
      /\ \A i \in 1..n : r[i] = q[i]
      /\ r[n + 1] = e
  BY AppendProperties, LenProperties
<1> HIDE DEF r
<1>2. NoWord(q, c) /\ ~Final(e, c) => NoWord(r, c)
  BY <1>1 DEF NoWord
<1>3. NoWord(q, c) /\ Final(e, c) => FirstWord(r, c, e.kind)
  BY <1>1 DEF NoWord, FirstWord
<1>4. ASSUME NEW w, FirstWord(q, c, w) PROVE FirstWord(r, c, w)
  <2>1. PICK i \in 1..n : /\ Final(q[i], c) /\ q[i].kind = w
                          /\ \A k \in 1..(i - 1) : ~Final(q[k], c)
    BY <1>4 DEF FirstWord
  <2>2. /\ i \in 1..Len(r) /\ r[i] = q[i]
        /\ \A k \in 1..(i - 1) : r[k] = q[k]
    BY <1>1
  <2> QED
    BY <2>1, <2>2 DEF FirstWord
<1> QED
  BY <1>2, <1>3, <1>4 DEF r

LEMMA WordTail ==
  ASSUME NEW q \in Seq(Events), q # <<>>, NEW c \in Calls
  PROVE  /\ NoWord(q, c) => ~Final(Head(q), c) /\ NoWord(Tail(q), c)
         /\ \A w : FirstWord(q, c, w) =>
                IF Final(Head(q), c) THEN Head(q).kind = w
                                     ELSE FirstWord(Tail(q), c, w)
<1> DEFINE r == Tail(q)
<1>1. /\ Len(r) = Len(q) - 1 /\ Len(q) \in Nat \ {0}
      /\ \A i \in 1..Len(r) : r[i] = q[i + 1]
      /\ Head(q) = q[1]
  BY HeadTailProperties, LenProperties, EmptySeq
<1> HIDE DEF r
<1>2. NoWord(q, c) => ~Final(Head(q), c) /\ NoWord(r, c)
  BY <1>1 DEF NoWord
<1>3. ASSUME NEW w, FirstWord(q, c, w)
      PROVE  IF Final(Head(q), c) THEN Head(q).kind = w ELSE FirstWord(r, c, w)
  <2>1. PICK i \in 1..Len(q) : /\ Final(q[i], c) /\ q[i].kind = w
                               /\ \A k \in 1..(i - 1) : ~Final(q[k], c)
    BY <1>3 DEF FirstWord
  <2>2. CASE Final(Head(q), c)
    <3>1. i = 1
      BY <1>1, <2>1, <2>2
    <3> QED
      BY <1>1, <2>1, <2>2, <3>1
  <2>3. CASE ~Final(Head(q), c)
    <3>1. i # 1
      BY <1>1, <2>1, <2>3
    <3>2. /\ i - 1 \in 1..Len(r) /\ r[i - 1] = q[i]
          /\ \A k \in 1..(i - 1 - 1) : r[k] = q[k + 1] /\ k + 1 \in 1..(i - 1)
      BY <1>1, <3>1
    <3> QED
      BY <2>1, <2>3, <3>2 DEF FirstWord
  <2> QED
    BY <2>2, <2>3
<1> QED
  BY <1>2, <1>3 DEF r

LEMMA OnlyAppend ==
  ASSUME NEW q \in Seq(Kinds), NEW k \in Kinds, NEW w
  PROVE  OnlyWord(q, w) /\ (k \in Terminals => k = w) => OnlyWord(Append(q, k), w)
<1> DEFINE r == Append(q, k)
<1>1. /\ Len(r) = Len(q) + 1 /\ Len(q) \in Nat
      /\ \A i \in 1..Len(q) : r[i] = q[i]
      /\ r[Len(q) + 1] = k
  BY AppendProperties, LenProperties
<1> HIDE DEF r
<1>2. OnlyWord(q, w) /\ (k \in Terminals => k = w) => OnlyWord(r, w)
  BY <1>1 DEF OnlyWord
<1> QED
  BY <1>2 DEF r

LEMMA OnlyTail ==
  ASSUME NEW q \in Seq(Kinds), q # <<>>, NEW w, OnlyWord(q, w)
  PROVE  OnlyWord(Tail(q), w) /\ (Head(q) \in Terminals => Head(q) = w)
<1> DEFINE r == Tail(q)
<1>1. /\ Len(r) = Len(q) - 1 /\ Len(q) \in Nat \ {0}
      /\ \A i \in 1..Len(r) : r[i] = q[i + 1]
      /\ Head(q) = q[1]
  BY HeadTailProperties, LenProperties, EmptySeq
<1> HIDE DEF r
<1>2. OnlyWord(r, w) /\ (Head(q) \in Terminals => Head(q) = w)
  BY <1>1 DEF OnlyWord
<1> QED
  BY <1>2 DEF r

LEMMA NothingSaid ==
  ASSUME NEW q, OnlyWord(q, None)
  PROVE  \A w : OnlyWord(q, w)
  BY ClientAssumption DEF OnlyWord, Terminals

\* The engine speaks of requests it was sent.
LEMMA SpeaksOfAsked ==
  ASSUME Typed, Writings, NEW c \in Calls, c \in Received \cup {None}
  PROVE  c \in Asked("request")
<1>1. PICK i \in 1..Len(inbound) : inbound[i].call = c
  BY ClientAssumption DEF Received, Typed, TypeOK
<1>2. inbound[i] \in Frames
  BY <1>1, ElementOfSeq DEF Typed, TypeOK
<1>3. CASE inbound[i].kind = "request"
  <2>1. inbound[i] = [kind |-> "request", call |-> c]
    BY <1>1, <1>2, <1>3 DEF Frames
  <2> QED
    BY <2>1 DEF Asked
<1>4. CASE inbound[i].kind = "cancel"
  <2>1. PICK k \in 1..(i - 1) : inbound[k] = [kind |-> "request", call |-> c]
    BY <1>1, <1>4 DEF Writings, Ordered
  <2>2. k \in 1..Len(inbound)
    BY LenProperties DEF Typed, TypeOK
  <2> QED
    BY <2>1, <2>2 DEF Asked
<1> QED
  BY <1>2, <1>3, <1>4 DEF Frames

LEMMA WordsStep ==
  ASSUME Typed, Senders, Writings, Words, Causes, [Next]_vars
  PROVE  Words'
<1> USE ClientAssumption DEF Typed, TypeOK, ReaderHolds, Words, WordsOf, InHand, TakePending,
        callVars, sharedVars, stdinVars, engVars
<1>1. ASSUME NEW c \in Calls, InsertPending(c) PROVE Words'
  <2>1. said[c] = None
    BY <1>1 DEF InsertPending, Writings, WritesOf
  <2>2. UNCHANGED <<chan, rpc, cur, outbound, said, inbound>> /\ pending' = pending \cup {c}
    BY <1>1 DEF InsertPending
  <2> QED
    BY <2>1, <2>2, AskedSame
<1>2. ASSUME NEW c \in Calls, WriteFrame(c) PROVE Words'
  <2>1. /\ UNCHANGED <<chan, pending, rpc, cur, outbound, said>>
        /\ \E k \in {"request", "cancel"} :
               inbound' = Append(inbound, [kind |-> k, call |-> c])
    BY <1>2 DEF WriteFrame
  <2>2. \A d \in Asked("request") : d \in Calls => d \in Asked("request")'
    BY <2>1, AskedAppend
  <2> QED
    BY <2>1, <2>2
<1>3. ASSUME NEW c \in Calls, Receive(c) PROVE Words'
  <2>1. /\ UNCHANGED <<pending, rpc, cur, outbound, said, inbound>> /\ chan[c] # <<>>
        /\ chan' = [chan EXCEPT ![c] = Tail(chan[c])]
    BY <1>3 DEF Receive
  <2>2. OnlyWord(chan'[c], said[c])
    BY <2>1, OnlyTail DEF Kinds
  <2> QED
    BY <2>1, <2>2, AskedSame
<1>4. ASSUME NEW c \in Calls, Forget(c) PROVE Words'
  BY <1>4, AskedSame DEF Forget
<1>5. ASSUME ReadEvent PROVE Words'
  <2> DEFINE e == Head(outbound)
  <2>1. /\ UNCHANGED <<chan, said, inbound>>
        /\ outbound # <<>> /\ outbound' = Tail(outbound)
        /\ rpc = "read" /\ e.kind # "bad"
        /\ IF e.call \in pending
           THEN /\ cur' = e /\ rpc' = "send"
                /\ pending' = IF e.kind \in Terminals THEN pending \ {e.call} ELSE pending
           ELSE UNCHANGED <<cur, rpc, pending>>
    BY <1>5 DEF ReadEvent
  <2>2. ASSUME NEW c \in Calls PROVE WordsOf(c)'
    <3>1. /\ NoWord(outbound, c) => ~Final(e, c) /\ NoWord(outbound', c)
          /\ FirstWord(outbound, c, said[c]) =>
                IF Final(e, c) THEN e.kind = said[c]
                               ELSE FirstWord(outbound', c, said[c])
      BY <2>1, WordTail
    <3>2. pending' \subseteq pending /\ (Final(e, c) => c \notin pending')
      BY <2>1 DEF Final
    <3>3. InHand(c)' => Final(e, c) /\ c \in pending /\ cur' = e
      BY <2>1 DEF Final
    <3> HIDE DEF e, InHand
    <3> QED
      BY <2>1, <3>1, <3>2, <3>3, AskedSame
  <2> QED
    BY <2>2
<1>6. ASSUME SendEvent PROVE Words'
  <2> PICK d \in Calls, k \in Kinds : d = cur.call /\ k = cur.kind
    BY <1>6 DEF SendEvent, Kinds, Terminals
  <2>1. /\ UNCHANGED <<pending, outbound, said, inbound>> /\ rpc = "send" /\ rpc' = "read"
        /\ chan' = [chan EXCEPT ![d] = Append(chan[d], k)]
    BY <1>6 DEF SendEvent
  <2>2. k \in Terminals => k = said[d]
    BY <2>1
  <2>3. OnlyWord(chan'[d], said[d])
    BY <2>1, <2>2, OnlyAppend DEF Kinds
  <2> QED
    BY <2>1, <2>3, AskedSame
<1>7. ASSUME ReaderStops PROVE Words'
  <2>1. /\ UNCHANGED <<chan, pending, said, inbound>> /\ rpc' = "set_error"
        /\ \/ outbound' = outbound
           \/ /\ outbound # <<>> /\ Head(outbound).kind = "bad"
              /\ outbound' = Tail(outbound)
    BY <1>7 DEF ReaderStops
  <2>2. ASSUME NEW c \in Calls
        PROVE  /\ NoWord(outbound, c) => NoWord(outbound', c)
               /\ FirstWord(outbound, c, said[c]) => FirstWord(outbound', c, said[c])
    <3>1. CASE outbound' = outbound
      BY <3>1
    <3>2. CASE outbound # <<>> /\ Head(outbound).kind = "bad" /\ outbound' = Tail(outbound)
      <4>1. ~Final(Head(outbound), c)
        BY <3>2 DEF Final, Terminals
      <4> QED
        BY <3>2, <4>1, WordTail
    <3> QED
      BY <2>1, <3>1, <3>2
  <2> QED
    BY <2>1, <2>2, AskedSame
<1>8. ASSUME SetTerminalError PROVE Words'
  BY <1>8, AskedSame DEF SetTerminalError
<1>9. ASSUME ReaderFailsAll PROVE Words'
  BY <1>9, AskedSame DEF ReaderFailsAll
<1>10. ASSUME NEW a \in Failers, FailNext(a) PROVE Words'
  <2> PICK c \in Calls : /\ c \in failing[a]
                        /\ chan' = [chan EXCEPT ![c] = Append(chan[c], Told(a))]
    BY <1>10 DEF FailNext, Told
  <2>1. UNCHANGED <<pending, rpc, cur, outbound, said, inbound>>
    BY <1>10 DEF FailNext
  <2>0. Told(a) \in Kinds \ Terminals
    <3>1. Told(a) \in ClientErrors
      BY ToldIsTrue DEF Senders
    <3> QED
      BY <3>1 DEF Kinds, Terminals, ClientErrors
  <2>2. OnlyWord(chan'[c], said[c])
    BY <2>0, OnlyAppend DEF Kinds
  <2> QED
    BY <2>1, <2>2, AskedSame
<1>11. ASSUME NEW s \in Closers, CloserFailsAll(s) PROVE Words'
  BY <1>11, AskedSame DEF CloserFailsAll
<1>12. ASSUME EngineWrites PROVE Words'
  <2> PICK e \in Events :
        /\ e.call \in Received \cup {None}
        /\ outbound' = Append(outbound, e)
        /\ said' = IF e.kind \in Terminals /\ said[e.call] = None
                   THEN [said EXCEPT ![e.call] = e.kind] ELSE said
    BY <1>12 DEF EngineWrites
  <2>1. UNCHANGED <<chan, pending, rpc, cur, inbound>>
    BY <1>12 DEF EngineWrites
  <2>2. ASSUME NEW c \in Calls PROVE WordsOf(c)'
    <3>1. /\ NoWord(outbound, c) /\ ~Final(e, c) => NoWord(outbound', c)
          /\ NoWord(outbound, c) /\ Final(e, c) => FirstWord(outbound', c, e.kind)
          /\ \A w : FirstWord(outbound, c, w) => FirstWord(outbound', c, w)
      BY WordAppend
    <3>2. CASE Final(e, c) /\ said[c] = None
      <4>1. said'[c] = e.kind /\ e.kind # None
        BY <3>2, ClientAssumption DEF Final, Terminals
      <4>2. c \in Asked("request")'
        BY <2>1, <3>2, SpeaksOfAsked, AskedSame DEF Final
      <4>3. OnlyWord(chan[c], e.kind)
        BY <3>2, NothingSaid
      <4>4. ~InHand(c)
        BY <3>2, ClientAssumption DEF Terminals
      <4> HIDE DEF InHand
      <4>5. ~InHand(c)'
        BY <2>1, <4>4 DEF InHand
      <4> QED
        BY <2>1, <3>1, <3>2, <4>1, <4>2, <4>3, <4>5
    <3>3. CASE ~(Final(e, c) /\ said[c] = None)
      <4>1. said'[c] = said[c]
        BY <3>3 DEF Final
      <4> QED
        BY <2>1, <3>1, <3>3, <4>1, AskedSame
    <3> QED
      BY <3>2, <3>3
  <2> QED
    BY <2>2
<1>13. ASSUME UNCHANGED <<chan, pending, rpc, cur, outbound, said, inbound>> PROVE Words'
  BY <1>13, AskedSame
<1>14. ASSUME NEW c \in Calls,
             \/ RefuseArguments(c) \/ BeginCall(c) \/ CheckTerminalError(c)
             \/ RefuseOversized(c) \/ LockStdin(c) \/ WriteFails(c) \/ DeadlinePasses(c)
      PROVE  UNCHANGED <<chan, pending, rpc, cur, outbound, said, inbound>>
  BY <1>14 DEF RefuseArguments, BeginCall, CheckTerminalError, RefuseOversized,
     LockStdin, WriteFails, DeadlinePasses
<1>15. ASSUME NEW s \in Closers,
             BeginShutdown(s) \/ CloseStdin(s) \/ SeeExit(s) \/ Kill(s)
      PROVE  UNCHANGED <<chan, pending, rpc, cur, outbound, said, inbound>>
  BY <1>15 DEF BeginShutdown, CloseStdin, SeeExit, Kill
<1>16. ASSUME EngineReads \/ EngineTurnsDeaf \/ EngineExits
      PROVE  UNCHANGED <<chan, pending, rpc, cur, outbound, said, inbound>>
  BY <1>16 DEF EngineReads, EngineTurnsDeaf, EngineExits
<1> QED
  BY <1>1, <1>2, <1>3, <1>4, <1>5, <1>6, <1>7, <1>8, <1>9, <1>10, <1>11, <1>12,
     <1>13, <1>14, <1>15, <1>16 DEF Next, vars, Caller, ReaderStep, Closer,
     Failers

-----------------------------------------------------------------------------
(* Causes                                                                   *)

\* What has befallen the client stays.
LEMMA BrokenGrows ==
  ASSUME Causes, [Next]_vars
  PROVE  Broken \subseteq Broken'
<1>1. closed => closed'
  BY DEF Next, vars, Caller, ReaderStep, Closer, sharedVars, RefuseArguments, BeginCall,
     CheckTerminalError, InsertPending, RefuseOversized, LockStdin, WriteFrame, WriteFails,
     Receive, DeadlinePasses, Forget, ReadEvent, SendEvent, ReaderStops,
     SetTerminalError, ReaderFailsAll, FailNext, BeginShutdown, CloseStdin,
     CloserFailsAll, SeeExit, Kill, EngineReads, EngineWrites, EngineTurnsDeaf, EngineExits
<1>2. termErr # None => termErr' = termErr
  BY DEF Causes, Next, vars, Caller, ReaderStep, Closer, sharedVars, RefuseArguments,
     BeginCall, CheckTerminalError, InsertPending, RefuseOversized, LockStdin, WriteFrame,
     WriteFails, Receive, DeadlinePasses, Forget, ReadEvent, SendEvent, ReaderStops,
     SetTerminalError, ReaderFailsAll, FailNext, BeginShutdown, CloseStdin,
     CloserFailsAll, SeeExit, Kill, EngineReads, EngineWrites, EngineTurnsDeaf, EngineExits
<1> QED
  BY <1>1, <1>2 DEF Broken

\* Sending an event, or an error that has its cause, keeps FailsTrue.
LEMMA CauseAppend ==
  ASSUME NEW q \in Seq(Kinds), NEW k \in Kinds, NEW B,
         \A i \in 1..Len(q) : q[i] \in ClientErrors => q[i] \in B,
         k \in ClientErrors => k \in B
  PROVE  \A i \in 1..Len(Append(q, k)) :
             Append(q, k)[i] \in ClientErrors => Append(q, k)[i] \in B
<1> DEFINE r == Append(q, k)
<1>1. /\ Len(r) = Len(q) + 1 /\ Len(q) \in Nat
      /\ \A i \in 1..Len(q) : r[i] = q[i]
      /\ r[Len(q) + 1] = k
  BY AppendProperties, LenProperties
<1> HIDE DEF r
<1>2. \A i \in 1..Len(r) : r[i] \in ClientErrors => r[i] \in B
  BY <1>1
<1> QED
  BY <1>2 DEF r

LEMMA CauseTail ==
  ASSUME NEW q \in Seq(Kinds), q # <<>>, NEW B,
         \A i \in 1..Len(q) : q[i] \in ClientErrors => q[i] \in B
  PROVE  /\ \A i \in 1..Len(Tail(q)) :
                Tail(q)[i] \in ClientErrors => Tail(q)[i] \in B
         /\ Head(q) \in ClientErrors => Head(q) \in B
<1> DEFINE r == Tail(q)
<1>1. /\ Len(r) = Len(q) - 1 /\ Len(q) \in Nat \ {0}
      /\ \A i \in 1..Len(r) : r[i] = q[i + 1]
      /\ Head(q) = q[1]
  BY HeadTailProperties, LenProperties, EmptySeq
<1> HIDE DEF r
<1>2. /\ \A i \in 1..Len(r) : r[i] \in ClientErrors => r[i] \in B
      /\ Head(q) \in ClientErrors => Head(q) \in B
  BY <1>1
<1> QED
  BY <1>2 DEF r

LEMMA CausesStep ==
  ASSUME Typed, Senders, Causes, [Next]_vars
  PROVE  Causes'
<1> USE ClientAssumption DEF Causes, FailsTrue
<1>0. Broken \subseteq Broken'
  BY BrokenGrows
<1>1. ASSUME NEW c \in Calls, WriteFails(c) PROVE Causes'
  <2>1. UNCHANGED <<chan, closed, termErr, rpc, cur, spc, stdinOpen>>
    BY <1>1 DEF WriteFails, sharedVars, stdinVars
  <2>2. \A d \in Calls : cpc'[d] = "forget" /\ result'[d] = "closed" =>
            \/ cpc[d] = "forget" /\ result[d] = "closed"
            \/ ~stdinOpen
    BY <1>1 DEF WriteFails, Go, Typed, TypeOK
  <2> QED
    BY <1>0, <2>1, <2>2
<1>2. ASSUME NEW c \in Calls, Receive(c) PROVE Causes'
  <2>1. /\ UNCHANGED <<closed, termErr, rpc, cur, spc, stdinOpen>> /\ chan[c] # <<>>
        /\ chan' = [chan EXCEPT ![c] = Tail(chan[c])]
        /\ \A d \in Calls : cpc'[d] = "forget" => cpc[d] = "forget" /\ result'[d] = result[d]
    BY <1>2 DEF Receive, Return, Go, callVars, sharedVars, stdinVars, Typed, TypeOK
  <2>2. chan[c] \in Seq(Kinds)
    BY DEF Typed, TypeOK, Kinds
  <2>3. \A i \in 1..Len(chan'[c]) : chan'[c][i] \in ClientErrors => chan'[c][i] \in Broken
    BY <2>1, <2>2, CauseTail DEF Typed, TypeOK
  <2>4. \A d \in Calls : d # c => chan'[d] = chan[d]
    BY <2>1 DEF Typed, TypeOK
  <2> QED
    BY <1>0, <2>1, <2>3, <2>4
<1>3. ASSUME NEW c \in Calls, DeadlinePasses(c) \/ RefuseOversized(c) \/ Forget(c)
      PROVE  Causes'
  <2>1. UNCHANGED <<chan, closed, termErr, rpc, cur, spc, stdinOpen>>
    BY <1>3 DEF DeadlinePasses, RefuseOversized, Forget, sharedVars, stdinVars
  <2>2. \A d \in Calls : cpc'[d] = "forget" /\ result'[d] = "closed" =>
            cpc[d] = "forget" /\ result[d] = "closed"
    BY <1>3 DEF DeadlinePasses, RefuseOversized, Forget, Go, Typed, TypeOK
  <2> QED
    BY <1>0, <2>1, <2>2
<1>4. ASSUME NEW c \in Calls,
             \/ RefuseArguments(c) \/ BeginCall(c) \/ CheckTerminalError(c)
             \/ InsertPending(c) \/ LockStdin(c) \/ WriteFrame(c)
      PROVE  Causes'
  <2>1. UNCHANGED <<chan, closed, termErr, rpc, cur, spc, stdinOpen>>
    BY <1>4 DEF RefuseArguments, BeginCall, CheckTerminalError, InsertPending, LockStdin,
       WriteFrame, sharedVars, stdinVars
  <2>2. \A d \in Calls : cpc'[d] = "forget" =>
            cpc[d] = "forget" /\ result'[d] = result[d]
    BY <1>4 DEF RefuseArguments, BeginCall, CheckTerminalError, InsertPending, LockStdin,
       WriteFrame, Return, Go, Typed, TypeOK
  <2> QED
    BY <1>0, <2>1, <2>2
<1>5. ASSUME SendEvent PROVE Causes'
  <2>1. /\ UNCHANGED <<callVars, closed, termErr, spc, stdinOpen>>
        /\ rpc = "send" /\ rpc' = "read"
    BY <1>5 DEF SendEvent, sharedVars, stdinVars
  <2>2. PICK d \in Calls, k \in Kinds \ ClientErrors :
            chan' = [chan EXCEPT ![d] = Append(chan[d], k)]
    BY <1>5 DEF SendEvent, Typed, ReaderHolds, Kinds, Terminals, ClientErrors
  <2>3. \A i \in 1..Len(chan'[d]) : chan'[d][i] \in ClientErrors => chan'[d][i] \in Broken
    <3>1. chan[d] \in Seq(Kinds) /\ chan'[d] = Append(chan[d], k)
      BY <2>2 DEF Typed, TypeOK, Kinds
    <3> QED
      BY <2>2, <3>1, CauseAppend
  <2>4. \A c \in Calls : c # d => chan'[c] = chan[c]
    BY <2>2 DEF Typed, TypeOK
  <2> QED
    BY <1>0, <2>1, <2>3, <2>4 DEF callVars
<1>6. ASSUME NEW a \in Failers, FailNext(a) PROVE Causes'
  <2>1. UNCHANGED <<callVars, closed, termErr, rpc, cur, spc, stdinOpen>>
    BY <1>6 DEF FailNext, sharedVars, stdinVars
  <2>2. PICK d \in Calls : /\ d \in failing[a]
                          /\ chan' = [chan EXCEPT ![d] = Append(chan[d], Told(a))]
    BY <1>6 DEF FailNext, Told, Typed, TypeOK
  <2>3. Told(a) \in ClientErrors \cap Broken
    BY <2>2, ToldIsTrue DEF Senders
  <2>4. \A i \in 1..Len(chan'[d]) : chan'[d][i] \in ClientErrors => chan'[d][i] \in Broken
    <3>1. chan[d] \in Seq(Kinds) /\ chan'[d] = Append(chan[d], Told(a))
      BY <2>2 DEF Typed, TypeOK, Kinds
    <3> QED
      BY <2>3, <3>1, CauseAppend DEF Kinds
  <2>5. \A c \in Calls : c # d => chan'[c] = chan[c]
    BY <2>2 DEF Typed, TypeOK
  <2> QED
    BY <1>0, <2>1, <2>4, <2>5 DEF callVars
<1>7. ASSUME ReadEvent \/ ReaderStops PROVE Causes'
  <2>1. /\ UNCHANGED <<callVars, chan, closed, termErr, spc, stdinOpen>>
        /\ rpc = "read" /\ rpc' \in {"read", "send", "set_error"}
    BY <1>7 DEF ReadEvent, ReaderStops, sharedVars, stdinVars
  <2> QED
    BY <1>0, <2>1 DEF callVars
<1>8. ASSUME SetTerminalError PROVE Causes'
  <2>1. /\ UNCHANGED <<callVars, chan, closed, spc, stdinOpen, cur>>
        /\ cur \in ReaderErrors /\ termErr' = cur.kind /\ rpc' = "fail_all"
    BY <1>8 DEF SetTerminalError, stdinVars, Typed, ReaderHolds
  <2> QED
    BY <1>0, <2>1 DEF callVars
<1>9. ASSUME ReaderFailsAll PROVE Causes'
  <2>1. /\ UNCHANGED <<callVars, chan, closed, termErr, spc, stdinOpen, cur>>
        /\ rpc = "fail_all" /\ rpc' = "gone"
    BY <1>9 DEF ReaderFailsAll, stdinVars
  <2> QED
    BY <1>0, <2>1 DEF callVars
<1>10. ASSUME NEW s \in Closers,
              \/ BeginShutdown(s) \/ CloseStdin(s) \/ CloserFailsAll(s)
              \/ SeeExit(s) \/ Kill(s)
       PROVE  Causes'
  <2>1. /\ UNCHANGED <<callVars, chan, termErr, rpc, cur>> /\ (closed => closed')
        /\ stdinOpen' = stdinOpen \/ (spc[s] # "idle" /\ closed' = closed)
    BY <1>10 DEF BeginShutdown, CloseStdin, CloserFailsAll, SeeExit, Kill, sharedVars,
       stdinVars
  <2>2. \A t \in Closers : spc'[t] # "idle" => spc[t] # "idle" \/ closed'
    BY <1>10 DEF BeginShutdown, CloseStdin, CloserFailsAll, SeeExit, Kill, Walk, Typed,
       TypeOK
  <2> QED
    BY <1>0, <2>1, <2>2 DEF callVars
<1>11. ASSUME \/ EngineReads \/ EngineWrites \/ EngineTurnsDeaf \/ EngineExits
              \/ UNCHANGED vars
       PROVE  Causes'
  <2>1. UNCHANGED <<callVars, chan, closed, termErr, rpc, cur, spc, stdinOpen>>
    BY <1>11 DEF EngineReads, EngineWrites, EngineTurnsDeaf, EngineExits, vars, sharedVars,
       stdinVars
  <2> QED
    BY <1>0, <2>1 DEF callVars
<1> HIDE DEF Causes, FailsTrue
<1> QED
  BY <1>1, <1>2, <1>3, <1>4, <1>5, <1>6, <1>7, <1>8, <1>9, <1>10, <1>11
  DEF Next, Caller, ReaderStep, Closer, Failers

-----------------------------------------------------------------------------
(* The promise                                                              *)

Shown(pc) == IF pc = "idle" THEN "idle" ELSE IF pc = "done" THEN "returned" ELSE "open"

LEMMA PhaseMoves ==
  ASSUME Typed, NEW c \in Calls, NEW pc, cpc' = [cpc EXCEPT ![c] = pc]
  PROVE  Phase' = [Phase EXCEPT ![c] = Shown(pc)]
  BY DEF Typed, TypeOK, Phase, Shown

LEMMA OutcomeMoves ==
  ASSUME Typed, NEW c \in Calls, NEW pc, NEW v, cpc[c] # "done",
         cpc' = [cpc EXCEPT ![c] = pc],
         result' = [result EXCEPT ![c] = v] \/ (result' = result /\ v = result[c])
  PROVE  Outcome' = [Outcome EXCEPT ![c] = IF pc = "done" THEN v ELSE None]
  BY DEF Typed, TypeOK, Outcome

\* Steps of a call that is open and stays open are not seen.
LEMMA OpenMoves ==
  ASSUME Typed, NEW c \in Calls, NEW pc, pc \notin {"idle", "done"},
         cpc[c] \notin {"idle", "done"}, cpc' = [cpc EXCEPT ![c] = pc],
         (\E v : result' = [result EXCEPT ![c] = v]) \/ result' = result,
         UNCHANGED <<inbound, said, closed, termErr>>
  PROVE  UNCHANGED Lifecycle!vars
<1>1. Phase' = Phase
  BY DEF Typed, TypeOK, Phase
<1>2. Outcome' = Outcome
  BY DEF Typed, TypeOK, Outcome
<1> QED
  BY <1>1, <1>2, AskedSame DEF Lifecycle!vars, Broken

\* Steps of others are not seen unless they write, speak or break the client.
LEMMA OthersMove ==
  ASSUME UNCHANGED <<cpc, result, inbound, said, closed, termErr>>
  PROVE  UNCHANGED Lifecycle!vars
  BY AskedSame DEF Phase, Outcome, Broken, Lifecycle!vars

LEMMA PromiseInit == Init => Lifecycle!Init
  BY DEF Init, Lifecycle!Init, Phase, Outcome, Asked, Broken

LEMMA PromiseStep ==
  ASSUME IInv, [Next]_vars
  PROVE  [Lifecycle!Next]_(Lifecycle!vars)
<1> USE DEF IInv, callVars, sharedVars, stdinVars, engVars
<1> DEFINE Seen == [Lifecycle!Next]_(Lifecycle!vars)
<1>1. ASSUME NEW c \in Calls, BeginCall(c) PROVE Seen
  <2>0. cpc[c] = "idle" /\ Phase[c] = "idle" /\ c \notin Asked("request")
    BY <1>1 DEF BeginCall, Phase, Writings, WritesOf
  <2>s. UNCHANGED <<Asked("request"), Asked("cancel"), said, Broken>>
    BY <1>1, AskedSame DEF BeginCall, Broken
  <2>1. CASE closed
    <3>1. /\ Phase' = [Phase EXCEPT ![c] = "returned"]
          /\ Outcome' = [Outcome EXCEPT ![c] = "closed"]
      BY <1>1, <2>0, <2>1, PhaseMoves, OutcomeMoves DEF BeginCall, Return, Go, Shown
    <3>2. "closed" \in ClientErrors \cap Broken
      BY <2>1 DEF ClientErrors, Broken
    <3> QED
      BY <2>0, <2>s, <3>1, <3>2 DEF Lifecycle!Next, Lifecycle!Fail, Lifecycle!Return
  <2>2. CASE ~closed
    <3>1. Phase' = [Phase EXCEPT ![c] = "open"]
      BY <1>1, <2>2, PhaseMoves DEF BeginCall, Go, Shown
    <3>2. Outcome' = Outcome
      BY <1>1, <2>0, <2>2 DEF BeginCall, Go, Outcome, Typed, TypeOK
    <3> QED
      BY <2>0, <2>s, <3>1, <3>2 DEF Lifecycle!Next, Lifecycle!Begin
  <2> QED
    BY <2>1, <2>2
<1>2. ASSUME NEW c \in Calls, CheckTerminalError(c) PROVE Seen
  <2>0. cpc[c] = "check" /\ Phase[c] = "open" /\ c \notin Asked("request")
    BY <1>2 DEF CheckTerminalError, Phase, Writings, WritesOf
  <2>s. UNCHANGED <<Asked("request"), Asked("cancel"), said, Broken>>
    BY <1>2, AskedSame DEF CheckTerminalError, Broken
  <2>1. CASE termErr # None
    <3>1. /\ Phase' = [Phase EXCEPT ![c] = "returned"]
          /\ Outcome' = [Outcome EXCEPT ![c] = termErr]
      BY <1>2, <2>0, <2>1, PhaseMoves, OutcomeMoves DEF CheckTerminalError,
         Return, Go, Shown
    <3>2. termErr \in ClientErrors \cap Broken
      BY <2>1 DEF Typed, TypeOK, ClientErrors, Broken
    <3> QED
      BY <2>0, <2>s, <3>1, <3>2 DEF Lifecycle!Next, Lifecycle!Fail, Lifecycle!Return
  <2>2. CASE termErr = None
    BY <1>2, <2>0, <2>2, OpenMoves DEF CheckTerminalError, Go
  <2> QED
    BY <2>1, <2>2
<1>3. ASSUME NEW c \in Calls,
             InsertPending(c) \/ RefuseOversized(c) \/ LockStdin(c) \/ DeadlinePasses(c)
      PROVE  Seen
  <2>1. /\ \E pc \in {"lock", "write", "write_cancel", "forget"} : cpc' = [cpc EXCEPT ![c] = pc]
        /\ cpc[c] \notin {"idle", "done"} /\ UNCHANGED <<inbound, said, closed, termErr>>
        /\ (\E v : result' = [result EXCEPT ![c] = v]) \/ result' = result
    BY <1>3 DEF InsertPending, RefuseOversized, LockStdin, DeadlinePasses, Go
  <2> QED
    BY <2>1, OpenMoves
<1>4. ASSUME NEW c \in Calls, WriteFrame(c) PROVE Seen
  <2>1. CASE cpc[c] = "write"
    <3>1. /\ inbound' = Append(inbound, [kind |-> "request", call |-> c])
          /\ cpc' = [cpc EXCEPT ![c] = "wait"] /\ UNCHANGED <<result, said, Broken>>
      BY <1>4, <2>1 DEF WriteFrame, Go, Broken
    <3>2. c \notin Asked("request") /\ Phase[c] = "open"
      BY <2>1 DEF Writings, WritesOf, Phase
    <3>3. /\ Asked("request")' = Asked("request") \cup {c}
          /\ Asked("cancel")' = Asked("cancel")
      <4>1. \A d \in Calls :
                /\ d \in Asked("request")' <=> d \in Asked("request") \/ d = c
                /\ d \in Asked("cancel")' <=> d \in Asked("cancel")
        BY <3>1, AskedAppend
      <4> QED
        BY <4>1, AskedAreCalls
    <3>4. Phase' = Phase /\ Outcome' = Outcome
      BY <2>1, <3>1 DEF Phase, Outcome, Typed, TypeOK
    <3> QED
      BY <3>1, <3>2, <3>3, <3>4 DEF Lifecycle!Next, Lifecycle!Ask
  <2>2. CASE cpc[c] = "write_cancel"
    <3>1. /\ inbound' = Append(inbound, [kind |-> "cancel", call |-> c])
          /\ cpc' = [cpc EXCEPT ![c] = "done"] /\ UNCHANGED <<result, said, Broken>>
      BY <1>4, <2>2 DEF WriteFrame, Go, Broken
    <3>2. c \in Asked("request") /\ Phase[c] = "open" /\ result[c] = "timeout"
      BY <2>2 DEF Writings, WritesOf, Phase
    <3>3. /\ Asked("cancel")' = Asked("cancel") \cup {c}
          /\ Asked("request")' = Asked("request")
      <4>1. \A d \in Calls :
                /\ d \in Asked("cancel")' <=> d \in Asked("cancel") \/ d = c
                /\ d \in Asked("request")' <=> d \in Asked("request")
        BY <3>1, AskedAppend
      <4> QED
        BY <4>1, AskedAreCalls
    <3>4. /\ Phase' = [Phase EXCEPT ![c] = "returned"]
          /\ Outcome' = [Outcome EXCEPT ![c] = "timeout"]
      BY <2>2, <3>1, <3>2, PhaseMoves, OutcomeMoves DEF Shown
    <3> QED
      BY <3>1, <3>2, <3>3, <3>4 DEF Lifecycle!Next, Lifecycle!GiveUp, Lifecycle!Return
  <2> QED
    BY <1>4, <2>1, <2>2 DEF WriteFrame
<1>5. ASSUME NEW c \in Calls, WriteFails(c) PROVE Seen
  <2>1. CASE cpc[c] = "write"
    <3>1. /\ cpc' = [cpc EXCEPT ![c] = "forget"]
          /\ UNCHANGED <<inbound, said, closed, termErr>>
          /\ \E v : result' = [result EXCEPT ![c] = v]
      BY <1>5, <2>1 DEF WriteFails, Go
    <3> QED
      BY <2>1, <3>1, OpenMoves
  <2>2. CASE cpc[c] = "write_cancel"
    <3>1. /\ cpc' = [cpc EXCEPT ![c] = "done"] /\ UNCHANGED <<result, said, inbound, Broken>>
      BY <1>5, <2>2 DEF WriteFails, Go, Broken
    <3>2. c \in Asked("request") /\ Phase[c] = "open" /\ result[c] = "timeout"
      BY <2>2 DEF Writings, WritesOf, Phase
    <3>3. /\ Phase' = [Phase EXCEPT ![c] = "returned"]
          /\ Outcome' = [Outcome EXCEPT ![c] = "timeout"]
      BY <2>2, <3>1, <3>2, PhaseMoves, OutcomeMoves DEF Shown
    <3>4. UNCHANGED <<Asked("request"), Asked("cancel"), said, Broken>>
      BY <3>1, AskedSame
    <3> QED
      BY <3>2, <3>3, <3>4 DEF Lifecycle!Next, Lifecycle!GiveUp, Lifecycle!Return
  <2> QED
    BY <1>5, <2>1, <2>2 DEF WriteFails
<1>6. ASSUME NEW c \in Calls, Receive(c) PROVE Seen
  <2>0. cpc[c] = "wait" /\ Phase[c] = "open" /\ chan[c] # <<>>
    BY <1>6 DEF Receive, Phase
  <2>k. chan[c] \in Seq(Kinds)
    BY DEF Typed, TypeOK, Kinds
  <2>1. CASE IsTerminal(Head(chan[c]))
    <3> DEFINE o == Head(chan[c])
    <3>1. /\ cpc' = [cpc EXCEPT ![c] = "done"] /\ result' = [result EXCEPT ![c] = o]
          /\ UNCHANGED <<said, inbound, Broken>>
      BY <1>6, <2>1 DEF Receive, Return, Go, Broken
    <3>2. o \in Terminals \cup ClientErrors
      BY <2>0, <2>k, <2>1, HeadTailProperties DEF Kinds, IsTerminal
    <3>3. o \in Terminals => o = said[c]
      BY <2>0, <2>k, OnlyTail DEF Words, WordsOf
    <3>4. o \in ClientErrors => o \in Broken
      BY <2>0, <2>k, CauseTail DEF Causes, FailsTrue
    <3>5. /\ Phase' = [Phase EXCEPT ![c] = "returned"]
          /\ Outcome' = [Outcome EXCEPT ![c] = o]
      BY <2>0, <3>1, PhaseMoves, OutcomeMoves DEF Shown
    <3>6. UNCHANGED <<Asked("request"), Asked("cancel"), said, Broken>>
      BY <3>1, AskedSame
    <3> HIDE DEF o
    <3>7. CASE o \in Terminals
      BY <2>0, <3>3, <3>5, <3>6, <3>7
      DEF Lifecycle!Next, Lifecycle!Finish, Lifecycle!Return
    <3>8. CASE o \in ClientErrors
      BY <2>0, <3>4, <3>5, <3>6, <3>8
      DEF Lifecycle!Next, Lifecycle!Fail, Lifecycle!Return
    <3> QED
      BY <3>2, <3>7, <3>8
  <2>2. CASE ~IsTerminal(Head(chan[c]))
    BY <1>6, <2>2, OthersMove DEF Receive
  <2> QED
    BY <2>1, <2>2
<1>7. ASSUME NEW c \in Calls, Forget(c) PROVE Seen
  <2>1. CASE result[c] = "timeout"
    BY <1>7, <2>1, OpenMoves DEF Forget, Go
  <2>2. CASE result[c] # "timeout"
    <3>1. /\ cpc[c] = "forget" /\ cpc' = [cpc EXCEPT ![c] = "done"]
          /\ UNCHANGED <<result, said, inbound, Broken>>
      BY <1>7, <2>2 DEF Forget, Go, Broken
    <3>2. /\ c \notin Asked("request") /\ Phase[c] = "open"
          /\ result[c] \in {"protocol", "io", "closed"}
      BY <2>2, <3>1 DEF Writings, WritesOf, Phase
    <3>3. /\ Phase' = [Phase EXCEPT ![c] = "returned"]
          /\ Outcome' = [Outcome EXCEPT ![c] = result[c]]
      BY <3>1, PhaseMoves, OutcomeMoves DEF Shown
    <3>4. UNCHANGED <<Asked("request"), Asked("cancel"), said, Broken>>
      BY <3>1, AskedSame
    <3>5. CASE result[c] = "closed"
      <4>1. "closed" \in ClientErrors \cap Broken
        BY <3>1, <3>5 DEF Causes, FailsTrue, ClientErrors, Broken
      <4> QED
        BY <3>2, <3>3, <3>4, <3>5, <4>1
        DEF Lifecycle!Next, Lifecycle!Fail, Lifecycle!Return
    <3>6. CASE result[c] \in {"protocol", "io"}
      BY <3>2, <3>3, <3>4, <3>6 DEF Lifecycle!Next, Lifecycle!Refuse, Lifecycle!Return
    <3> QED
      BY <3>2, <3>5, <3>6
  <2> QED
    BY <2>1, <2>2
<1>8. ASSUME EngineWrites PROVE Seen
  <2> PICK e \in Events :
        /\ e.call \in Received \cup {None}
        /\ said' = IF e.kind \in Terminals /\ said[e.call] = None
                   THEN [said EXCEPT ![e.call] = e.kind] ELSE said
    BY <1>8 DEF EngineWrites
  <2>1. UNCHANGED <<cpc, result, inbound, closed, termErr>>
    BY <1>8 DEF EngineWrites
  <2>2. Phase' = Phase /\ Outcome' = Outcome /\ Broken' = Broken
    BY <2>1 DEF Phase, Outcome, Broken
  <2>3. CASE e.kind \in Terminals /\ said[e.call] = None
    <3>1. e.call \in Calls
      BY <2>3 DEF Events, Terminals
    <3>2. e.call \in Asked("request")
      BY <3>1, SpeaksOfAsked
    <3>3. UNCHANGED <<Asked("request"), Asked("cancel")>>
      BY <2>1, AskedSame
    <3>4. Lifecycle!Say(e.call, e.kind)
      BY <2>2, <2>3, <3>2, <3>3 DEF Lifecycle!Say
    <3> QED
      BY <2>3, <3>1, <3>4 DEF Lifecycle!Next
  <2>4. CASE said' = said
    BY <2>1, <2>4, OthersMove
  <2> QED
    BY <2>3, <2>4
<1>9. ASSUME UNCHANGED <<cpc, result, inbound, said, closed, termErr>> PROVE Seen
  BY <1>9, OthersMove
<1>10. ASSUME ReadEvent \/ SendEvent \/ ReaderStops \/ ReaderFailsAll
       PROVE  UNCHANGED <<cpc, result, inbound, said, closed, termErr>>
  BY <1>10 DEF ReadEvent, SendEvent, ReaderStops, ReaderFailsAll
<1>11. ASSUME NEW a \in Failers, FailNext(a)
       PROVE  UNCHANGED <<cpc, result, inbound, said, closed, termErr>>
  BY <1>11 DEF FailNext
<1>12. ASSUME NEW s \in Closers,
              CloseStdin(s) \/ CloserFailsAll(s) \/ SeeExit(s) \/ Kill(s)
       PROVE  UNCHANGED <<cpc, result, inbound, said, closed, termErr>>
  BY <1>12 DEF CloseStdin, CloserFailsAll, SeeExit, Kill
<1>13. ASSUME EngineReads \/ EngineTurnsDeaf \/ EngineExits
       PROVE  UNCHANGED <<cpc, result, inbound, said, closed, termErr>>
  BY <1>13 DEF EngineReads, EngineTurnsDeaf, EngineExits
<1>14. ASSUME NEW s \in Closers, BeginShutdown(s) PROVE Seen
  <2>1. UNCHANGED <<cpc, result, inbound, said>> /\ Broken' = Broken \cup {"closed"}
    BY <1>14 DEF BeginShutdown, Broken
  <2>2. Lifecycle!Break("closed")
    BY <2>1, AskedSame DEF Phase, Outcome, Lifecycle!Break
  <2> QED
    BY <2>2 DEF Lifecycle!Next, ClientErrors
<1>15. ASSUME SetTerminalError PROVE Seen
  <2>1. UNCHANGED <<cpc, result, inbound, said>>
    BY <1>15 DEF SetTerminalError
  <2>2. termErr = None /\ termErr' = cur.kind /\ closed' = closed /\ cur \in ReaderErrors
    BY <1>15 DEF SetTerminalError, Causes, Typed, ReaderHolds
  <2>3. cur.kind \in ClientErrors /\ cur.kind # None
    BY <2>2, ClientAssumption DEF ReaderErrors, ClientErrors
  <2>4. Broken' = Broken \cup {cur.kind}
    BY <2>2, <2>3 DEF Broken
  <2>5. Lifecycle!Break(cur.kind)
    BY <2>1, <2>4, AskedSame DEF Phase, Outcome, Lifecycle!Break
  <2> QED
    BY <2>3, <2>5 DEF Lifecycle!Next
<1>16. ASSUME NEW c \in Calls, RefuseArguments(c) PROVE Seen
  <2>1. cpc[c] = "idle" /\ Phase[c] = "idle" /\ c \notin Asked("request")
    BY <1>16 DEF RefuseArguments, Phase, Writings, WritesOf
  <2>2. UNCHANGED <<Asked("request"), Asked("cancel"), said, Broken>>
    BY <1>16, AskedSame DEF RefuseArguments, Broken
  <2>3. /\ Phase' = [Phase EXCEPT ![c] = "returned"]
        /\ Outcome' = [Outcome EXCEPT ![c] = "protocol"]
    BY <1>16, <2>1, PhaseMoves, OutcomeMoves DEF RefuseArguments, Return, Go, Shown
  <2> QED
    BY <2>1, <2>2, <2>3 DEF Lifecycle!Next, Lifecycle!Refuse, Lifecycle!Return
<1> HIDE DEF IInv
<1> QED
  BY <1>1, <1>2, <1>3, <1>4, <1>5, <1>6, <1>7, <1>8, <1>9, <1>10, <1>11, <1>12, <1>13,
     <1>14, <1>15, <1>16 DEF Next, vars, Caller, ReaderStep, Closer, Failers

-----------------------------------------------------------------------------
(* Theorems                                                                 *)

LEMMA InvInit == Init => IInv
<1> SUFFICES ASSUME Init PROVE IInv
  OBVIOUS
<1> USE ClientAssumption DEF Init
<1>1. Typed
  <2>1. /\ chan \in [Calls -> Seq(Terminals \cup ClientErrors \cup {"progress"})]
        /\ inbound \in Seq(Frames) /\ outbound \in Seq(Events)
        /\ taken \in 0..Len(inbound) /\ sent \in 0..MaxEvents
    BY EmptySeq
  <2>2. /\ cpc \in [Calls -> {"idle", "check", "insert", "lock", "write", "wait",
                             "forget", "cancel", "write_cancel", "done"}]
        /\ result \in [Calls -> Terminals \cup ClientErrors \cup {"timeout", None}]
        /\ failing \in [Failers -> SUBSET Calls]
        /\ spc \in [Closers -> {"idle", "close_stdin", "fail_all", "poll", "stopped"}]
        /\ said \in [Calls -> Terminals \cup {None}]
    OBVIOUS
  <2>3. closed \in BOOLEAN /\ stdinOpen \in BOOLEAN
    OBVIOUS
  <2>4. /\ pending \subseteq Calls /\ termErr = None /\ stdinOwner = None
        /\ rpc = "read" /\ cur = None /\ eng = "up"
    OBVIOUS
  <2> HIDE DEF Init
  <2> QED
    BY <2>1, <2>2, <2>3, <2>4 DEF Typed, TypeOK, ReaderHolds
<1>2. Senders
  BY DEF Senders, TakersStart, OneSender, OneTerm, TermIn, Placed, InHand,
     BeingTold, Failers
<1>3. Writings
  BY DEF Writings, WritesOf, Ordered, Distinct, Asked
<1>4. Closing
  BY DEF Closing, ShutdownIsComplete
<1>5. Words
  <2>1. Len(outbound) = 0 /\ \A c \in Calls : Len(chan[c]) = 0
    BY EmptySeq
  <2>2. ASSUME NEW c \in Calls PROVE NoWord(outbound, c)
    BY <2>1 DEF NoWord
  <2>3. ASSUME NEW c \in Calls PROVE OnlyWord(chan[c], said[c])
    BY <2>1 DEF OnlyWord
  <2>4. \A c \in Calls : said[c] = None /\ ~InHand(c)
    BY DEF InHand
  <2> QED
    BY <2>2, <2>3, <2>4 DEF Words, WordsOf
<1>6. Causes
  <2>1. \A c \in Calls : Len(chan[c]) = 0
    BY EmptySeq
  <2> QED
    BY <2>1 DEF Causes, FailsTrue
<1> QED
  BY <1>1, <1>2, <1>3, <1>4, <1>5, <1>6 DEF IInv

THEOREM ClientInvariant == Spec => []IInv
<1>1. IInv /\ [Next]_vars => IInv'
  BY TypesStep, SendersStep, WritingsStep, ClosingStep, WordsStep, CausesStep DEF IInv
<1> QED
  BY InvInit, <1>1, PTL DEF Spec

\* Type correctness.
THEOREM TypesHold == Spec => []TypeOK
<1>1. IInv => TypeOK
  BY DEF IInv, Typed
<1> QED
  BY <1>1, ClientInvariant, PTL

\* A call that waits is registered, or its event is on its way: the Disconnected
\* arm of request_with_progress is unreachable (lib.rs:303).
THEOREM NobodyIsStranded == Spec => []NoCallStranded
<1>1. IInv => NoCallStranded
  BY DEF IInv, Senders, OneSender, Placed, NoCallStranded, HasTerminal, TermIn
<1> QED
  BY <1>1, ClientInvariant, PTL

\* A call has one sender and gets one final event, and leaves nothing in the
\* pending map (lib.rs: request_with_progress, read_stdout, fail_all).
THEOREM CompletionsAreSingle == Spec => []OneCompletion
<1>1. IInv => OneCompletion
  BY DEF IInv, Senders, OneSender, OneCompletion, HasTerminal, TermIn, OneTerm
<1> QED
  BY <1>1, ClientInvariant, PTL

\* shutdown() leaves no child and nobody waiting (lib.rs: shutdown, fail_all).
THEOREM ShutdownsComplete == Spec => []ShutdownIsComplete
<1>1. IInv => ShutdownIsComplete
  BY DEF IInv, Closing
<1> QED
  BY <1>1, ClientInvariant, PTL

\* Only a request that was sent and timed out is cancelled, and once (lib.rs:
\* the Timeout arm of request_with_progress).
THEOREM CancellationsFit == Spec => []CancelFollowsTimeout
<1>1. ASSUME IInv PROVE CancelFollowsTimeout
  <2>1. ASSUME NEW i \in 1..Len(inbound), inbound[i].kind = "cancel"
        PROVE  inbound[i].call \in Calls /\ inbound[i].call \in Asked("cancel")
    <3>1. inbound[i] \in Frames
      BY <1>1, ElementOfSeq DEF IInv, Typed, TypeOK
    <3>2. inbound[i] = [kind |-> "cancel", call |-> inbound[i].call]
      BY <2>1, <3>1 DEF Frames
    <3> QED
      BY <3>1, <3>2 DEF Frames, Asked
  <2>2. ASSUME NEW i \in 1..Len(inbound), inbound[i].kind = "cancel"
        PROVE  /\ result[inbound[i].call] = "timeout"
               /\ \E k \in 1..(i - 1) : inbound[k] =
                      [kind |-> "request", call |-> inbound[i].call]
    BY <1>1, <2>1, <2>2 DEF IInv, Writings, WritesOf, Ordered
  <2>3. \A i, k \in 1..Len(inbound) : inbound[i] = inbound[k] => i = k
    BY <1>1 DEF IInv, Writings, Distinct
  <2>4. ASSUME NEW c \in Calls,
               cpc[c] = "done" /\ result[c] = "timeout" /\ stdinOpen /\ eng = "up"
        PROVE  \E i \in 1..Len(inbound) : inbound[i] = [kind |-> "cancel", call |-> c]
    BY <1>1, <2>4 DEF IInv, Writings, WritesOf, Asked
  <2> QED
    BY <2>2, <2>3, <2>4 DEF CancelFollowsTimeout
<1> QED
  BY <1>1, ClientInvariant, PTL

\* The client implements RequestLifecycle: to its callers and to the engine the
\* threads, locks and queues of lib.rs cannot be told from a call that is open
\* until it returns one outcome: the engine's first word about it, a timeout, an
\* error that has befallen the whole client before, or, if the engine was never
\* asked for it, an error of its own.
THEOREM PromiseIsKept == Spec => KeepsThePromise
  BY PromiseInit, PromiseStep, ClientInvariant, PTL
  DEF Spec, KeepsThePromise, Lifecycle!Spec
=============================================================================
