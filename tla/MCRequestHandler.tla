---------------------------- MODULE MCRequestHandler ----------------------------
(* Instances of RequestHandler for TLC. *)
EXTENDS RequestHandler, MCDesignCalculation

\* A request id: one that all accept, and what may be wrong with it.
Id(length, first, rest) ==
    [present |-> TRUE, string |-> TRUE, length |-> length, first |-> first, rest |-> rest]

SoundId == Id(3, "alphanumeric", {"alphanumeric", "mark"})

OtherIds ==
    {[SoundId EXCEPT !.present = FALSE], [SoundId EXCEPT !.string = FALSE],
     Id(0, "alphanumeric", {}), Id(128, "alphanumeric", {"alphanumeric"}),
     Id(129, "alphanumeric", {"alphanumeric"}),
     Id(3, "mark", {"alphanumeric"}), Id(3, "other", {"mark"}),
     Id(3, "alphanumeric", {"alphanumeric", "other"})}

\* A request that is well formed, for each method and every document.
Request(method, d) ==
    [text |-> "json", object |-> TRUE, id |-> SoundId, type |-> "request",
     method |-> method, params |-> "object", extra |-> FALSE,
     joints |-> [alone |-> TRUE, values |-> <<"number", "number">>], document |-> d]

Calculations == {Request("design.calculate", d) : d \in TwoChanges}

Plain ==
    {Request(method, Sound) : method \in {"engine.health", "kinematics.forward",
                                          "engine.unknown", "ill_formed"}}

\* What may be wrong with a message around its document.
Faulty ==
    {[m EXCEPT !.text = t, !.object = o, !.id = i, !.type = y, !.params = p, !.extra = x] :
        m \in Plain \cup {Request("design.calculate", Sound)},
        t \in {"json", "invalid", "out_of_range"}, o \in BOOLEAN,
        i \in {SoundId} \cup OtherIds, y \in {"request", "cancel", "other"},
        p \in {"object", "other"}, x \in BOOLEAN}

Joints ==
    {[Request("kinematics.forward", Sound) EXCEPT !.joints = [alone |-> a, values |-> v]] :
        a \in BOOLEAN,
        v \in {<<"number">>, <<"number", "other">>, <<"number", "number", "number">>}}

AllMessages == {m : m \in Calculations \cup Faulty \cup Joints}
CheckedMessages == AllMessages
=============================================================================
