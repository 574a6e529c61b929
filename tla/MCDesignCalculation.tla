------------------------- MODULE MCDesignCalculation -------------------------
(* Instances of DesignCalculation for TLC. *)
EXTENDS DesignCalculation

CONSTANTS t1, t2

T(id, frame) == [fields |-> TRUE, id |-> id, frame |-> frame, sound |-> TRUE]
C(id, target) == [fields |-> TRUE, id |-> id, target |-> target, sound |-> TRUE]

\* A document that keeps the contract.
Sound ==
    [malformed |-> "none", plain |-> {}, base |-> "base", tool |-> "tool",
     links |-> "ordered", massLinks |-> "ordered",
     targets |-> <<T(t1, "base"), T(t2, "base")>>,
     com |-> "good", inertia |-> "good", gravity |-> "good",
     cases |-> <<C("c1", t1), C("c2", t2)>>,
     ik |-> 20, optimization |-> 4, tolerance |-> 0]

\* What each field may be instead.
Variants ==
    [malformed |-> Objects,
     plain |-> {{s} : s \in {"header", "geometry", "joint_limits", "mass_properties",
                             "payload", "motion_limits", "transmissions",
                             "safety_factors"}},
     base |-> {"tool", ""},
     links |-> {"other", ""}, massLinks |-> {"other", "", NotAString},
     targets |-> {<<>>, <<T(t1, "base"), T(t1, "base")>>,
                  <<T("", "base"), T(t2, "base")>>, <<T("", "base"), T("", "base")>>,
                  <<T(t1, "base"), T(t2, "tool")>>, <<T(t1, ""), T(t2, "")>>,
                  <<T(t1, "base"), T(t2, NotAString)>>, <<T("", ""), T(t2, NotAString)>>,
                  <<T(t1, "base"), [T(t2, "base") EXCEPT !.fields = FALSE]>>,
                  <<T(t1, "base"), [T(t2, "base") EXCEPT !.sound = FALSE]>>},
     com |-> {"unread"}, inertia |-> {"bad", "unread"}, gravity |-> {"bad", "unread"},
     cases |-> {<<>>, <<C("c1", t1), C("c1", t2)>>, <<C("c1", t1), C("c2", t1)>>,
                <<C("", t1), C("c2", t2)>>, <<C("c1", ""), C("c2", t2)>>,
                <<C("c1", "t3"), C("c2", t2)>>, <<C("c1", NotAString), C("c2", t2)>>,
                <<C("c1", t1), [C("c2", t2) EXCEPT !.fields = FALSE]>>,
                <<C("c1", t1), [C("c2", t2) EXCEPT !.sound = FALSE]>>},
     ik |-> {19, 5000, 5001, IntModulus + 20, NotANumber},
     optimization |-> {0, 1, 2, 3, 5, IntModulus + 1, NotANumber},
     tolerance |-> {1, 2, 3, 4, -1, NotANumber}]

\* The documents that differ from d in one field, and up to two from Sound.
Changed(d) ==
    UNION {{[d EXCEPT ![f] = x] : x \in Variants[f]} : f \in DOMAIN Variants}

TwoChanges ==
    LET one == Changed(Sound)
    IN  {d : d \in {Sound} \cup one \cup UNION {Changed(x) : x \in one}}

\* By another name: TLC evaluates a definition once, but one that replaces a
\* constant wherever the constant is used.
CheckedDocuments == TwoChanges
=============================================================================
