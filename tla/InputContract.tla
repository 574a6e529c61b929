---------------------------- MODULE InputContract ----------------------------
(***************************************************************************)
(* parse_input (engine/src/design/input_contract.cpp): the design document *)
(* is read section by section, in the code's order.  Issues accumulate and  *)
(* reading goes on, except that an object with a wrong set of fields ends  *)
(* it.                                                                     *)
(*                                                                         *)
(* A document is what the checks tell apart.  A section whose rules touch   *)
(* no other section either keeps or breaks them (`plain`).  Where a check   *)
(* refuses what is missing, no string or empty alike, "" stands for all of  *)
(* them; an id that is only compared may be NotAString, which equals none.  *)
(***************************************************************************)
EXTENDS Integers, Sequences

CONSTANTS
    Documents,       \* the documents that are read
    MaxOptimization, \* the greatest max_optimization_iterations (80)
    IntModulus,      \* 2^32 in the code: the values of an int
    NotANumber,      \* a value of another kind where a number is expected
    NotAString       \* and where the id of something else is

Order == <<"header", "frames", "geometry", "joint_limits", "workspace",
           "mass_properties", "payload", "gravity", "motion_limits",
           "evaluation_cases", "transmissions", "safety_factors", "solver">>

\* The sections that begin with exact_keys and return when it fails.
Objects == {"header", "frames", "geometry", "workspace", "mass_properties",
            "payload", "motion_limits", "safety_factors", "solver"}

\* Vectors are "good", "unread" (read_vector3 fails and leaves components
\* without a value) or break the rule on them ("bad").
Vectors == {"good", "bad", "unread"}

\* The sections with rules that concern nothing else.
Ruled == {"header", "geometry", "joint_limits", "mass_properties", "payload",
          "motion_limits", "transmissions", "safety_factors"}

\* The numbers of the solver; a tolerance is its number of grid points, rounded
\* down, and -1 if it is not positive.
Numbers == Int \cup {NotANumber}

ASSUME ContractAssumption ==
    /\ \A d \in Documents :
           /\ d.malformed \in Objects \cup {"none"}
           /\ d.plain \subseteq Ruled
           /\ d.com \in Vectors \ {"bad"} \* no rule on its value
           /\ d.inertia \in Vectors /\ d.gravity \in Vectors
           /\ d.ik \in Numbers /\ d.optimization \in Numbers /\ d.tolerance \in Numbers
           /\ \A list \in {d.targets, d.cases} :
                  Len(list) \in Nat /\ DOMAIN list = 1..Len(list)
    /\ MaxOptimization \in Nat \ {0}
    /\ IntModulus \in Nat /\ IntModulus > 10000
    /\ NotANumber \notin Int

ASSUME IdAssumption ==
    \A d \in Documents :
        /\ NotAString \notin {d.base, d.tool, d.links, "", "ordered"}
        /\ \A list \in {d.targets, d.cases} :
               \A i \in DOMAIN list : list[i].id # NotAString

VARIABLES
    doc,        \* the document
    at,         \* the section to read next
    outcome,    \* "reading", "accepted" or "rejected"
    issues,     \* the issues so far: section and code
    parsed,     \* Input: the parts that later checks or steps use
    tainted     \* history: a decision looked at memory nobody had written

contractVars == <<doc, at, outcome, issues, parsed, tainted>>

\* Input, before anything is read.
ContractInit ==
    /\ doc \in Documents
    /\ at = 1
    /\ outcome = "reading"
    /\ issues = {}
    /\ parsed = [base |-> "", links |-> "", targets |-> <<>>, cases |-> <<>>,
                 ik |-> 0, optimization |-> 0, tolerance |-> -1]
    /\ tainted = FALSE

\* The ids of a list of targets or cases.
Ids(list) == {list[i].id : i \in DOMAIN list}

\* Mutant of Repeats: an id seen before is not noticed.
BugNoRepeats(list) == FALSE

\* An id is inserted into the set a second time; empty ids are not.
Repeats(list) ==
    \E i, k \in DOMAIN list : i < k /\ list[i].id = list[k].id /\ list[i].id # ""

\* The elements that exact_keys lets through, by their place.
Kept(list) == [i \in {k \in DOMAIN list : list[k].fields} |-> list[i]]

\* get<int>() of a JSON integer: the value modulo 2^w, in two's complement.
Narrow(n) ==
    LET half == IntModulus \div 2 IN ((n + half) % IntModulus) - half

-----------------------------------------------------------------------------
(* The sections                                                             *)

Reading(s) == outcome = "reading" /\ Order[at] = s

\* Section s is read to its end; `rules` says which issues it adds.
Read(s, rules) ==
    /\ Reading(s) /\ doc.malformed # s
    /\ issues' = issues \cup {<<s, code>> : code \in {r \in DOMAIN rules : rules[r]}}
    /\ at' = at + 1
    /\ UNCHANGED doc

Continue == UNCHANGED outcome

\* A section whose rules concern nothing else.
ReadPlain(s) ==
    /\ Read(s, [rule |-> s \in doc.plain])
    /\ Continue /\ UNCHANGED <<parsed, tainted>>

\* exact_keys fails: parse_input returns.
RefuseFields ==
    /\ \E s \in Objects : Reading(s) /\ doc.malformed = s
    /\ issues' = issues \cup {<<Order[at], "fields">>}
    /\ at' = at + 1
    /\ outcome' = "rejected"
    /\ UNCHANGED <<doc, parsed, tainted>>

ReadHeader       == ReadPlain("header")
ReadJointLimits  == ReadPlain("joint_limits")
ReadMotionLimits == ReadPlain("motion_limits")
ReadTransmissions == ReadPlain("transmissions")
ReadSafetyFactors == ReadPlain("safety_factors")

\* Mutant of ReadFrames: one frame for the base and the tool is accepted.
BugOneFrame ==
    LET named == doc.base # "" /\ doc.tool # ""
    IN  /\ Read("frames", [distinct_frames_required |-> ~named])
        /\ parsed' = IF named THEN [parsed EXCEPT !.base = doc.base] ELSE parsed
        /\ Continue /\ UNCHANGED tainted

\* base_frame stays empty when the frames are refused.
ReadFrames ==
    LET distinct == doc.base # "" /\ doc.tool # "" /\ doc.base # doc.tool
    IN  /\ Read("frames", [distinct_frames_required |-> ~distinct])
        /\ parsed' = IF distinct THEN [parsed EXCEPT !.base = doc.base] ELSE parsed
        /\ Continue /\ UNCHANGED tainted

\* A bound's id stays empty when it is refused.
ReadGeometry ==
    /\ Read("geometry", [rule |-> "geometry" \in doc.plain,
                         ordered_link_id_required |-> doc.links # "ordered"])
    /\ parsed' = IF doc.links = "ordered" THEN [parsed EXCEPT !.links = "ordered"]
                                          ELSE parsed
    /\ Continue /\ UNCHANGED tainted

\* The loop over the targets: an element with wrong fields is passed over, any
\* other is pushed, whatever its issues; frames are compared with base_frame,
\* and one that is no string differs from it also when it is empty.
ReadWorkspace ==
    LET kept == Kept(doc.targets)
    IN  /\ Read("workspace",
               [nonempty_array_required |-> doc.targets = <<>>,
                fields |-> DOMAIN kept # DOMAIN doc.targets,
                nonempty_string_required |-> "" \in Ids(kept),
                duplicate_id |-> Repeats(kept),
                frame_mismatch |-> \E i \in DOMAIN kept : kept[i].frame # parsed.base,
                rule |-> \E i \in DOMAIN kept : ~kept[i].sound])
        /\ parsed' = [parsed EXCEPT !.targets = [i \in DOMAIN kept |-> kept[i].id]]
        /\ Continue /\ UNCHANGED tainted

\* The ids of the links are compared with those the bounds were given.
ReadMassProperties ==
    /\ Read("mass_properties", [rule |-> "mass_properties" \in doc.plain,
                                link_id_mismatch |-> doc.massLinks # parsed.links])
    /\ Continue /\ UNCHANGED <<parsed, tainted>>

\* What the rule says of a vector that was never written is anybody's guess; ||
\* looks at the inertia only if the mass is positive.
ReadPayload ==
    \E garbage \in BOOLEAN :
        /\ Read("payload",
               [com_vector3_required |-> doc.com = "unread",
                inertia_vector3_required |-> doc.inertia = "unread",
                invalid_mass_properties |-> \/ "payload" \in doc.plain
                                            \/ doc.inertia = "bad"
                                            \/ doc.inertia = "unread" /\ garbage])
        /\ tainted' = (tainted \/ (doc.inertia = "unread" /\ "payload" \notin doc.plain))
        /\ Continue /\ UNCHANGED parsed

\* Mutant of ReadGravity: a vector that cannot be read is no issue of its own.
BugUnreadGravity ==
    \E garbage \in BOOLEAN :
        /\ Read("gravity", [nonzero_gravity_required |->
                               \/ doc.gravity = "bad"
                               \/ doc.gravity = "unread" /\ garbage])
        /\ tainted' = (tainted \/ doc.gravity = "unread")
        /\ Continue /\ UNCHANGED parsed

\* The norm of the gravity is taken whether it was read or not.
ReadGravity ==
    \E garbage \in BOOLEAN :
        /\ Read("gravity", [vector3_required |-> doc.gravity = "unread",
                            nonzero_gravity_required |->
                               \/ doc.gravity = "bad"
                               \/ doc.gravity = "unread" /\ garbage])
        /\ tainted' = (tainted \/ doc.gravity = "unread")
        /\ Continue /\ UNCHANGED parsed

\* The loop over the cases: each names a target that was pushed, also one
\* pushed with an empty id; no string is none.
ReadEvaluationCases ==
    LET kept  == Kept(doc.cases)
        known == {parsed.targets[i] : i \in DOMAIN parsed.targets}
    IN  /\ Read("evaluation_cases",
               [nonempty_array_required |-> doc.cases = <<>>,
                fields |-> DOMAIN kept # DOMAIN doc.cases,
                nonempty_string_required |-> "" \in Ids(kept),
                duplicate_id |-> Repeats(kept),
                unknown_target |-> \E i \in DOMAIN kept : kept[i].target \notin known,
                rule |-> \E i \in DOMAIN kept : ~kept[i].sound])
        /\ parsed' = [parsed EXCEPT !.cases =
               [i \in DOMAIN kept |-> IF kept[i].target \in known THEN kept[i].target
                                                                  ELSE ""]]
        /\ Continue /\ UNCHANGED tainted

\* The limits are tested as ints, after the conversion; 0 and 0.0 (a tolerance of
\* -1) are what they are without one.
LimitsAreIntegers == doc.ik # NotANumber /\ doc.optimization # NotANumber

LimitRead(limit) == IF LimitsAreIntegers THEN Narrow(limit) ELSE 0

ToleranceRead == IF doc.tolerance = NotANumber THEN -1 ELSE doc.tolerance

LimitsFit ==
    /\ LimitRead(doc.ik) >= 20 /\ LimitRead(doc.ik) <= 5000
    /\ LimitRead(doc.optimization) \in 1..MaxOptimization /\ ToleranceRead >= 0

SolverRules ==
    [integer_iteration_limits_required |-> ~LimitsAreIntegers,
     finite_number_required |-> doc.tolerance = NotANumber,
     invalid_solver_limits |-> ~LimitsFit]

\* The issues decide.
ReadSolver ==
    /\ Read("solver", SolverRules)
    /\ parsed' = [parsed EXCEPT !.ik = LimitRead(doc.ik),
                                !.optimization = LimitRead(doc.optimization),
                                !.tolerance = ToleranceRead]
    /\ outcome' = IF issues' = {} THEN "accepted" ELSE "rejected"
    /\ UNCHANGED tainted

\* calculate() turns what parse_input throws (an allocation that fails) into
\* an issue.
ReadingThrows ==
    /\ outcome = "reading"
    /\ issues' = issues \cup {<<"", "invalid_value_representation">>}
    /\ outcome' = "rejected"
    /\ UNCHANGED <<doc, at, parsed, tainted>>

ContractNext ==
    \/ ReadHeader \/ ReadFrames \/ ReadGeometry \/ ReadJointLimits
    \/ ReadWorkspace \/ ReadMassProperties \/ ReadPayload \/ ReadGravity
    \/ ReadMotionLimits \/ ReadEvaluationCases \/ ReadTransmissions
    \/ ReadSafetyFactors \/ ReadSolver
    \/ RefuseFields \/ ReadingThrows

-----------------------------------------------------------------------------
(* Properties                                                               *)

\* What the contract asks of a list of targets or cases, whatever they name.
Listed(list) ==
    /\ list # <<>> /\ "" \notin Ids(list)
    /\ \A i \in DOMAIN list : list[i].fields /\ list[i].sound
    /\ \A i, k \in DOMAIN list : list[i].id = list[k].id => i = k

LimitsInRange(d) ==
    /\ NotANumber \notin {d.ik, d.optimization, d.tolerance}
    /\ Narrow(d.ik) >= 20 /\ Narrow(d.ik) <= 5000
    /\ Narrow(d.optimization) \in 1..MaxOptimization /\ d.tolerance >= 0

\* What the contract asks of each section of a document, from the whole of it.
Keeps(d, s) ==
    /\ d.malformed # s /\ s \notin d.plain
    /\ s = "frames"  => "" \notin {d.base, d.tool} /\ d.base # d.tool
    /\ s = "geometry" => d.links = "ordered"
    /\ s = "workspace" =>
           Listed(d.targets) /\ \A i \in DOMAIN d.targets : d.targets[i].frame = d.base
    /\ s = "mass_properties" => d.massLinks = d.links
    /\ s = "payload" => d.com = "good" /\ d.inertia = "good"
    /\ s = "gravity" => d.gravity = "good"
    /\ s = "evaluation_cases" =>
           Listed(d.cases) /\ \A i \in DOMAIN d.cases : d.cases[i].target \in Ids(d.targets)
    /\ s = "solver" => LimitsInRange(d)

Conforms(d) == \A i \in 1..Len(Order) : Keeps(d, Order[i])

First(sections) == {i \in sections : \A k \in sections : i <= k}

\* Issues that later checks raise only because an earlier section was refused
\* (an empty base_frame, an empty link id) never come first, and no check is
\* masked unless another has already failed: the first section with an issue is
\* the first one that breaks the contract.
FirstIssueIsFirstBreach ==
    LET before   == 1..(at - 1)
        breaches == {i \in before : ~Keeps(doc, Order[i])}
        noted    == {i \in before : \E issue \in issues : issue[1] = Order[i]}
    IN  First(breaches) = First(noted)

\* Memory that read_vector3 left unwritten may add an issue, but never decides:
\* the document is refused already (input_contract.cpp:335-345).
VerdictIgnoresGarbage == tainted => issues # {}

\* The parts of the next property: no target was passed over or is there twice,
\* no case was passed over or names an unknown target, the loops are bounded.
OneEntryPerTarget ==
    /\ DOMAIN parsed.targets = DOMAIN doc.targets
    /\ \A i, k \in DOMAIN parsed.targets :
           parsed.targets[i] = parsed.targets[k] => i = k

EveryCaseFindsItsTarget ==
    /\ DOMAIN parsed.cases = DOMAIN doc.cases
    /\ \A c \in DOMAIN parsed.cases : \E t \in DOMAIN parsed.targets :
           parsed.cases[c] = parsed.targets[t] /\ parsed.cases[c] # ""

LimitsBound == parsed.ik \in 20..5000 /\ parsed.optimization \in 1..MaxOptimization

\* What calculate() relies on once parse_input returns true: target_joints (a
\* map by target id) has one entry per target, at() finds every case's, and the
\* iteration limits bound the loops.
AcceptedInputIsUsable ==
    outcome = "accepted" => OneEntryPerTarget /\ EveryCaseFindsItsTarget /\ LimitsBound

\* A claim the code does not keep: the iteration limits of an accepted document
\* are within the declared ranges (protocol/design-input.schema.json:90-91).
AcceptedLimitsAreDeclared ==
    outcome = "accepted" =>
        doc.ik \in 20..5000 /\ doc.optimization \in 1..MaxOptimization
=============================================================================
