------------------------- MODULE InputContractProofs -------------------------
(***************************************************************************)
(* Proofs about InputContract: for documents with any number of targets    *)
(* and evaluation cases, any defects, and any width of an int.             *)
(*                                                                         *)
(* ContractInv is inductive: as long as there is no issue, what was read so *)
(* far is what the document says.  FirstIssueInv, inductive on top of it,   *)
(* says that up to any section there is an issue if and only if the         *)
(* contract is broken.                                                     *)
(***************************************************************************)
EXTENDS InputContract, TLAPS

TargetsRead ==
    /\ parsed.targets = [i \in DOMAIN doc.targets |-> doc.targets[i].id]
    /\ "" \notin Ids(doc.targets) /\ ~Repeats(doc.targets)

CasesRead ==
    /\ DOMAIN parsed.cases = DOMAIN doc.cases
    /\ \A c \in DOMAIN parsed.cases : \E t \in DOMAIN parsed.targets :
           parsed.cases[c] = parsed.targets[t] /\ parsed.cases[c] # ""

LimitsRead == LimitsBound /\ parsed.tolerance \in Nat /\ parsed.tolerance = doc.tolerance

Fields == {"base", "links", "targets", "cases", "ik", "optimization", "tolerance"}
ParsedIsRecord == parsed = [f \in Fields |-> parsed[f]]

ContractInv ==
    /\ doc \in Documents
    /\ at \in 1..14
    /\ outcome \in {"reading", "accepted", "rejected"}
    /\ outcome = "reading" => at \in 1..13
    /\ outcome = "accepted" => issues = {} /\ at = 14 /\ LimitsRead
    /\ outcome = "rejected" => issues # {}
    /\ ParsedIsRecord
    /\ issues = {} /\ at > 5 => TargetsRead
    /\ issues = {} /\ at > 10 => CasesRead
    /\ tainted \in BOOLEAN /\ (tainted => issues # {})

LEMMA ReadEffect ==
    ASSUME NEW s, NEW rules, Read(s, rules)
    PROVE  /\ issues' = {} => issues = {} /\ \A r \in DOMAIN rules : ~rules[r]
           /\ doc' = doc /\ at' = at + 1 /\ Order[at] = s /\ outcome = "reading"
  BY DEF Read, Reading

\* What is kept of a list when nothing was passed over: the list.
LEMMA KeptAll ==
    ASSUME NEW list, DOMAIN Kept(list) = DOMAIN list
    PROVE  /\ \A i \in DOMAIN list : Kept(list)[i] = list[i] /\ list[i].fields
           /\ Ids(Kept(list)) = Ids(list)
           /\ Repeats(Kept(list)) <=> Repeats(list)
  <1>1. \A i \in DOMAIN list : Kept(list)[i] = list[i] /\ list[i].fields
    BY DEF Kept
  <1> QED
    BY <1>1 DEF Ids, Repeats

\* A section that only adds issues.
LEMMA QuietStep ==
    ASSUME ContractInv, NEW s, NEW rules, Read(s, rules),
           s \notin {"workspace", "evaluation_cases", "solver"},
           UNCHANGED <<outcome, parsed>>,
           tainted' \in BOOLEAN, tainted' => tainted \/ issues' # {}
    PROVE  ContractInv'
  <1>1. /\ issues' = {} => issues = {}
        /\ doc' = doc /\ at' = at + 1 /\ Order[at] = s /\ outcome = "reading"
    BY ReadEffect
  <1>2. at \in 1..12 /\ at # 5 /\ at # 10
    BY <1>1 DEF ContractInv, Order
  <1>3. /\ TargetsRead => TargetsRead'
        /\ CasesRead => CasesRead'
    BY <1>1 DEF TargetsRead, CasesRead, Ids, Repeats
  <1>4. /\ issues' = {} /\ at' > 5 => TargetsRead'
        /\ issues' = {} /\ at' > 10 => CasesRead'
    BY <1>1, <1>2, <1>3 DEF ContractInv
  <1>5. tainted' => issues' # {}
    BY <1>1 DEF ContractInv
  <1>6. at' \in 1..13
    BY <1>1, <1>2
  <1> QED
    BY <1>1, <1>4, <1>5, <1>6 DEF ContractInv, ParsedIsRecord

\* A section that also fills a field of the input.
LEMMA FillStep ==
    ASSUME ContractInv, NEW s, NEW rules, Read(s, rules),
           s \in {"frames", "geometry"},
           NEW f \in {"base", "links"}, NEW v,
           parsed' = [parsed EXCEPT ![f] = v] \/ parsed' = parsed,
           UNCHANGED <<outcome, tainted>>
    PROVE  ContractInv'
  <1>1. /\ issues' = {} => issues = {}
        /\ doc' = doc /\ at' = at + 1 /\ Order[at] = s /\ outcome = "reading"
    BY ReadEffect
  <1>2. at \in 2..3
    BY <1>1 DEF ContractInv, Order
  <1>3. ParsedIsRecord'
    BY DEF ContractInv, Fields, ParsedIsRecord
  <1> QED
    BY <1>1, <1>2, <1>3 DEF ContractInv

LEMMA WorkspaceStep ==
    ASSUME ContractInv, ReadWorkspace
    PROVE  ContractInv'
  <1> DEFINE kept == Kept(doc.targets)
             rules == [nonempty_array_required |-> doc.targets = <<>>,
                       fields |-> DOMAIN kept # DOMAIN doc.targets,
                       nonempty_string_required |-> "" \in Ids(kept),
                       duplicate_id |-> Repeats(kept),
                       frame_mismatch |-> \E i \in DOMAIN kept : kept[i].frame # parsed.base,
                       rule |-> \E i \in DOMAIN kept : ~kept[i].sound]
  <1>1. /\ Read("workspace", rules)
        /\ parsed' = [parsed EXCEPT !.targets = [i \in DOMAIN kept |-> kept[i].id]]
        /\ UNCHANGED <<outcome, tainted>>
    BY DEF ReadWorkspace, Continue
  <1> HIDE DEF rules
  <1>2. /\ issues' = {} => issues = {} /\ \A r \in DOMAIN rules : ~rules[r]
        /\ doc' = doc /\ at' = at + 1 /\ Order[at] = "workspace" /\ outcome = "reading"
    BY <1>1, ReadEffect
  <1>3. at = 5
    BY <1>2 DEF ContractInv, Order
  <1>4. /\ ParsedIsRecord'
        /\ parsed'.targets = [i \in DOMAIN kept |-> kept[i].id]
    BY <1>1 DEF ContractInv, Fields, ParsedIsRecord
  <1>5. issues' = {} => DOMAIN kept = DOMAIN doc.targets /\ "" \notin Ids(kept) /\ ~Repeats(kept)
    <2> SUFFICES ASSUME issues' = {}
                 PROVE  DOMAIN kept = DOMAIN doc.targets /\ "" \notin Ids(kept) /\ ~Repeats(kept)
      OBVIOUS
    <2>1. ~rules["fields"] /\ ~rules["nonempty_string_required"] /\ ~rules["duplicate_id"]
      <3>1. {"fields", "nonempty_string_required", "duplicate_id"} \subseteq DOMAIN rules
        BY DEF rules
      <3> QED
        BY <1>2, <3>1
    <2> QED
      BY <2>1 DEF rules
  <1>6. issues' = {} => TargetsRead'
    <2> SUFFICES ASSUME issues' = {} PROVE TargetsRead'
      OBVIOUS
    <2>1. /\ DOMAIN kept = DOMAIN doc.targets
          /\ \A i \in DOMAIN doc.targets : kept[i] = doc.targets[i]
          /\ Ids(kept) = Ids(doc.targets) /\ (Repeats(kept) <=> Repeats(doc.targets))
      BY <1>5, KeptAll
    <2> HIDE DEF kept
    <2> QED
      BY <1>2, <1>4, <1>5, <2>1 DEF TargetsRead
  <1> QED
    BY <1>1, <1>2, <1>3, <1>4, <1>6 DEF ContractInv

LEMMA CasesStep ==
    ASSUME ContractInv, ReadEvaluationCases
    PROVE  ContractInv'
  <1> DEFINE kept == Kept(doc.cases)
             known == {parsed.targets[i] : i \in DOMAIN parsed.targets}
             found == [i \in DOMAIN kept |-> IF kept[i].target \in known THEN kept[i].target
                                                                        ELSE ""]
             rules == [nonempty_array_required |-> doc.cases = <<>>,
                       fields |-> DOMAIN kept # DOMAIN doc.cases,
                       nonempty_string_required |-> "" \in Ids(kept),
                       duplicate_id |-> Repeats(kept),
                       unknown_target |-> \E i \in DOMAIN kept : kept[i].target \notin known,
                       rule |-> \E i \in DOMAIN kept : ~kept[i].sound]
  <1>1. /\ Read("evaluation_cases", rules)
        /\ parsed' = [parsed EXCEPT !.cases = found]
        /\ UNCHANGED <<outcome, tainted>>
    BY DEF ReadEvaluationCases, Continue
  <1> HIDE DEF rules, kept
  <1>2. /\ issues' = {} => issues = {} /\ \A r \in DOMAIN rules : ~rules[r]
        /\ doc' = doc /\ at' = at + 1 /\ Order[at] = "evaluation_cases" /\ outcome = "reading"
    BY <1>1, ReadEffect
  <1>3. at = 10
    BY <1>2 DEF ContractInv, Order
  <1>4. /\ ParsedIsRecord'
        /\ parsed'.cases = found /\ parsed'.targets = parsed.targets
    BY <1>1 DEF ContractInv, Fields, ParsedIsRecord
  <1>5. issues' = {} => DOMAIN kept = DOMAIN doc.cases /\ \A i \in DOMAIN kept : kept[i].target \in known
    <2> SUFFICES ASSUME issues' = {}
                 PROVE  DOMAIN kept = DOMAIN doc.cases /\ \A i \in DOMAIN kept : kept[i].target \in known
      OBVIOUS
    <2>1. ~rules["fields"] /\ ~rules["unknown_target"]
      <3>1. {"fields", "unknown_target"} \subseteq DOMAIN rules
        BY DEF rules
      <3> QED
        BY <1>2, <3>1
    <2> QED
      BY <2>1 DEF rules
  <1>6. issues' = {} => TargetsRead' /\ TargetsRead
    <2>1. issues' = {} => TargetsRead
      BY <1>2, <1>3 DEF ContractInv
    <2>2. TargetsRead => TargetsRead'
      BY <1>2, <1>4 DEF TargetsRead, Ids, Repeats
    <2> QED
      BY <2>1, <2>2
  <1>7. issues' = {} => CasesRead'
    <2> SUFFICES ASSUME issues' = {} PROVE CasesRead'
      OBVIOUS
    <2>1. DOMAIN parsed'.cases = DOMAIN doc'.cases
      BY <1>2, <1>4, <1>5
    <2>2. ASSUME NEW c \in DOMAIN parsed'.cases
          PROVE  \E t \in DOMAIN parsed'.targets :
                     parsed'.cases[c] = parsed'.targets[t] /\ parsed'.cases[c] # ""
      <3>1. c \in DOMAIN kept /\ kept[c].target \in known /\ parsed'.cases[c] = kept[c].target
        BY <1>4, <1>5, <2>2
      <3>2. PICK t \in DOMAIN parsed.targets : kept[c].target = parsed.targets[t]
        BY <3>1
      <3>3. parsed.targets[t] # ""
        <4>1. t \in DOMAIN doc.targets /\ parsed.targets[t] = doc.targets[t].id
          BY <1>6, <3>2 DEF TargetsRead
        <4> QED
          BY <1>6, <4>1 DEF TargetsRead, Ids
      <3> QED
        BY <1>4, <3>1, <3>2, <3>3
    <2> QED
      BY <2>1, <2>2 DEF CasesRead
  <1>8. at' = 11 /\ outcome' = "reading" /\ tainted' = tainted /\ (tainted => issues' # {})
    <2>1. UNCHANGED <<outcome, tainted>>
      BY <1>1
    <2> QED
      BY <1>2, <1>3, <2>1 DEF ContractInv
  <1>9. doc' \in Documents /\ at' \in 1..13 /\ at' \in 1..14 /\ tainted' \in BOOLEAN
    BY <1>2, <1>8 DEF ContractInv
  <1>10. /\ issues' = {} /\ at' > 5 => TargetsRead'
         /\ issues' = {} /\ at' > 10 => CasesRead'
    BY <1>6, <1>7
  <1> QED
    BY <1>4, <1>8, <1>9, <1>10 DEF ContractInv

LEMMA SolverRulesKept ==
    (\A r \in DOMAIN SolverRules : ~SolverRules[r]) <=>
        LimitsAreIntegers /\ doc.tolerance # NotANumber /\ LimitsFit
  <1>1. /\ DOMAIN SolverRules = {"integer_iteration_limits_required",
                                 "finite_number_required", "invalid_solver_limits"}
        /\ SolverRules["integer_iteration_limits_required"] <=> ~LimitsAreIntegers
        /\ SolverRules["finite_number_required"] <=> doc.tolerance = NotANumber
        /\ SolverRules["invalid_solver_limits"] <=> ~LimitsFit
    BY DEF SolverRules
  <1> QED
    BY <1>1

\* A limit read is an int.
LEMMA LimitIsInt ==
    ASSUME NEW limit, LimitsAreIntegers => limit \in Int
    PROVE  LimitRead(limit) \in Int
  BY ContractAssumption DEF LimitRead, Narrow

LEMMA SolverStep ==
    ASSUME ContractInv, ReadSolver
    PROVE  ContractInv'
  <1> DEFINE ik  == LimitRead(doc.ik)
             opt == LimitRead(doc.optimization)
             tol == ToleranceRead
  <1>1. /\ Read("solver", SolverRules)
        /\ parsed' = [parsed EXCEPT !.ik = ik, !.optimization = opt, !.tolerance = tol]
        /\ outcome' = IF issues' = {} THEN "accepted" ELSE "rejected"
        /\ UNCHANGED tainted
    BY DEF ReadSolver
  <1>2. /\ issues' = {} => issues = {} /\ \A r \in DOMAIN SolverRules : ~SolverRules[r]
        /\ doc' = doc /\ at' = at + 1 /\ Order[at] = "solver" /\ outcome = "reading"
    BY <1>1, ReadEffect
  <1>3. at = 13
    BY <1>2 DEF ContractInv, Order
  <1>4. /\ ParsedIsRecord'
        /\ parsed'.ik = ik /\ parsed'.optimization = opt /\ parsed'.tolerance = tol
        /\ parsed'.targets = parsed.targets /\ parsed'.cases = parsed.cases
    BY <1>1 DEF ContractInv, Fields, ParsedIsRecord
  <1>5. issues' = {} => LimitsFit /\ doc.tolerance # NotANumber
    BY <1>2, SolverRulesKept
  <1>6. tol \in Int
    BY ContractAssumption DEF ToleranceRead, ContractInv, Numbers
  <1>7. issues' = {} => LimitsRead'
    <2>1. issues' = {} => ik >= 20 /\ ik <= 5000 /\ opt \in 1..MaxOptimization /\ tol >= 0
      BY <1>5 DEF LimitsFit
    <2>2. issues' = {} => tol = doc'.tolerance
      BY <1>2, <1>5 DEF ToleranceRead
    <2>3. ik \in Int
      BY ContractAssumption, LimitIsInt DEF LimitsAreIntegers, ContractInv, Numbers
    <2> HIDE DEF ik, opt, tol
    <2> QED
      BY <1>4, <1>6, <2>1, <2>2, <2>3 DEF LimitsRead, LimitsBound
  <1>8. issues' = {} => TargetsRead' /\ CasesRead'
    <2>1. issues' = {} => TargetsRead /\ CasesRead
      BY <1>2, <1>3 DEF ContractInv
    <2>2. (TargetsRead => TargetsRead') /\ (CasesRead => CasesRead')
      BY <1>2, <1>4 DEF TargetsRead, CasesRead, Ids, Repeats
    <2> QED
      BY <2>1, <2>2
  <1>9. /\ at' = 14 /\ tainted' = tainted /\ (tainted => issues' # {})
        /\ outcome' = "accepted" => issues' = {}
        /\ outcome' = "rejected" => issues' # {}
        /\ outcome' \in {"accepted", "rejected"}
    BY <1>1, <1>2, <1>3 DEF ContractInv
  <1> QED
    BY <1>2, <1>4, <1>7, <1>8, <1>9 DEF ContractInv

LEMMA ContractInitial == ContractInit => ContractInv
  <1> SUFFICES ASSUME ContractInit PROVE ContractInv
    OBVIOUS
  <1>1. ParsedIsRecord
    BY DEF ContractInit, Fields, ParsedIsRecord
  <1>2. doc \in Documents /\ at = 1 /\ outcome = "reading"
    BY DEF ContractInit
  <1>3. tainted \in BOOLEAN /\ (tainted => issues # {})
    BY DEF ContractInit
  <1>4. at \in 1..13 /\ at \in 1..14 /\ ~(at > 5) /\ ~(at > 10)
    BY <1>2
  <1> QED
    BY <1>1, <1>2, <1>3, <1>4 DEF ContractInv

\* One step of parse_input keeps the invariant.
LEMMA ContractStep ==
    ASSUME ContractInv, ContractNext
    PROVE  ContractInv'
  <1>0. tainted \in BOOLEAN
    BY DEF ContractInv
  <1>1. CASE \E s \in {"header", "joint_limits", "motion_limits", "transmissions",
                       "safety_factors"} : ReadPlain(s)
    BY <1>0, <1>1, QuietStep DEF ReadPlain, Continue
  <1>2. CASE ReadFrames
    BY <1>2, FillStep DEF ReadFrames, Continue
  <1>3. CASE ReadGeometry
    BY <1>3, FillStep DEF ReadGeometry, Continue
  <1>4. CASE ReadMassProperties
    BY <1>0, <1>4, QuietStep DEF ReadMassProperties, Continue
  <1>5. CASE ReadPayload
    <2> DEFINE rules(garbage) ==
               [com_vector3_required |-> doc.com = "unread",
                inertia_vector3_required |-> doc.inertia = "unread",
                invalid_mass_properties |-> \/ "payload" \in doc.plain
                                            \/ doc.inertia = "bad"
                                            \/ doc.inertia = "unread" /\ garbage]
    <2>1. PICK garbage \in BOOLEAN :
              /\ Read("payload", rules(garbage)) /\ UNCHANGED <<outcome, parsed>>
              /\ tainted' = (tainted \/ (doc.inertia = "unread" /\ "payload" \notin doc.plain))
      BY <1>5 DEF ReadPayload, Continue
    <2>2. doc.inertia = "unread" => issues' # {}
      <3>1. /\ "inertia_vector3_required" \in DOMAIN rules(garbage)
            /\ rules(garbage)["inertia_vector3_required"] = (doc.inertia = "unread")
        OBVIOUS
      <3> QED
        BY <2>1, <3>1, ReadEffect
    <2>3. tainted' \in BOOLEAN /\ (tainted' => tainted \/ issues' # {})
      BY <1>0, <2>1, <2>2
    <2> QED
      BY <2>1, <2>3, QuietStep
  <1>6. CASE ReadGravity
    <2> DEFINE rules(garbage) ==
               [vector3_required |-> doc.gravity = "unread",
                nonzero_gravity_required |-> \/ doc.gravity = "bad"
                                             \/ doc.gravity = "unread" /\ garbage]
    <2>1. PICK garbage \in BOOLEAN :
              /\ Read("gravity", rules(garbage)) /\ UNCHANGED <<outcome, parsed>>
              /\ tainted' = (tainted \/ doc.gravity = "unread")
      BY <1>6 DEF ReadGravity, Continue
    <2>2. doc.gravity = "unread" => issues' # {}
      <3>1. /\ "vector3_required" \in DOMAIN rules(garbage)
            /\ rules(garbage)["vector3_required"] = (doc.gravity = "unread")
        OBVIOUS
      <3> QED
        BY <2>1, <3>1, ReadEffect
    <2>3. tainted' \in BOOLEAN /\ (tainted' => tainted \/ issues' # {})
      BY <1>0, <2>1, <2>2
    <2> QED
      BY <2>1, <2>3, QuietStep
  <1>7. CASE RefuseFields
    <2>1. at' = at + 1 /\ outcome = "reading" /\ issues' # {} /\ outcome' = "rejected"
      BY <1>7 DEF RefuseFields, Reading
    <2> QED
      BY <1>7, <2>1 DEF RefuseFields, ContractInv, ParsedIsRecord
  <1>8. CASE ReadingThrows
    BY <1>8 DEF ReadingThrows, ContractInv, ParsedIsRecord
  <1> QED
    BY <1>1, <1>2, <1>3, <1>4, <1>5, <1>6, <1>7, <1>8, WorkspaceStep, CasesStep, SolverStep
       DEF ContractNext, ReadHeader, ReadJointLimits, ReadMotionLimits, ReadTransmissions,
           ReadSafetyFactors

\* What the invariant says of an accepted document.
LEMMA AcceptedUsable ==
    ASSUME ContractInv
    PROVE  AcceptedInputIsUsable
  <1> SUFFICES ASSUME outcome = "accepted"
               PROVE  OneEntryPerTarget /\ EveryCaseFindsItsTarget /\ LimitsBound
    BY DEF AcceptedInputIsUsable
  <1>1. TargetsRead /\ CasesRead /\ LimitsRead
    BY DEF ContractInv
  <1>2. ASSUME NEW i \in DOMAIN parsed.targets, NEW k \in DOMAIN parsed.targets,
               parsed.targets[i] = parsed.targets[k]
        PROVE  i = k
    <2>1. /\ i \in DOMAIN doc.targets /\ k \in DOMAIN doc.targets
          /\ doc.targets[i].id = doc.targets[k].id /\ doc.targets[i].id # ""
      BY <1>1, <1>2 DEF TargetsRead, Ids
    <2>2. DOMAIN doc.targets = 1..Len(doc.targets) /\ Len(doc.targets) \in Nat
      BY ContractAssumption DEF ContractInv
    <2>3. ~(i < k) /\ ~(k < i)
      BY <1>1, <2>1 DEF TargetsRead, Repeats
    <2>4. i \in Int /\ k \in Int
      <3> DEFINE n == Len(doc.targets)
      <3>1. i \in 1..n /\ k \in 1..n /\ n \in Nat
        BY <2>1, <2>2
      <3> QED
        BY <3>1
    <2> QED
      BY <2>3, <2>4
  <1>3. DOMAIN parsed.targets = DOMAIN doc.targets
    BY <1>1 DEF TargetsRead
  <1>4. OneEntryPerTarget
    BY <1>2, <1>3 DEF OneEntryPerTarget
  <1>5. EveryCaseFindsItsTarget
    BY <1>1 DEF CasesRead, EveryCaseFindsItsTarget
  <1>6. LimitsBound
    BY <1>1 DEF LimitsRead
  <1> QED
    BY <1>4, <1>5, <1>6

\* The garbage clause of the invariant.
LEMMA GarbageNeverDecides == ContractInv => VerdictIgnoresGarbage
  BY DEF ContractInv, VerdictIgnoresGarbage

LEMMA ContractStutter ==
    ASSUME ContractInv, UNCHANGED contractVars
    PROVE  ContractInv'
  <1>1. /\ TargetsRead' <=> TargetsRead
        /\ CasesRead' <=> CasesRead
        /\ LimitsRead' <=> LimitsRead
        /\ ParsedIsRecord' <=> ParsedIsRecord
    BY DEF contractVars, TargetsRead, CasesRead, LimitsRead, LimitsBound, ParsedIsRecord, Ids, Repeats
  <1> QED
    BY <1>1, Zenon DEF contractVars, ContractInv
-----------------------------------------------------------------------------
(* The first issue                                                          *)

Noted(noted, s) == \E issue \in noted : issue[1] = s

\* At each section read so far: nothing before it has an issue if and only if
\* nothing before it breaks the contract.
PrefixesAgree ==
    \A n \in 1..at : (\A i \in 1..(n - 1) : Keeps(doc, Order[i]))
                        <=> (\A i \in 1..(n - 1) : ~Noted(issues, Order[i]))

\* The issue of an exception is about no section.
Thrown == <<"", "invalid_value_representation">>
Placed(issue) == \E i \in 1..(at - 1) : issue[1] = Order[i]
IssuesArePlaced ==
    \A issue \in issues : Placed(issue) \/ (outcome = "rejected" /\ issue = Thrown)

\* The fields that later sections are compared with hold what the document says
\* as long as there is no issue.
ComparedWith ==
    /\ issues = {} /\ at > 2 => parsed.base = doc.base
    /\ issues = {} /\ at > 3 => parsed.links = doc.links

FirstIssueInv ==
    /\ PrefixesAgree
    /\ IssuesArePlaced
    /\ ComparedWith

LEMMA OrderDistinct ==
    /\ \A i \in 1..13 : Order[i] # ""
    /\ \A i, k \in 1..13 : Order[i] = Order[k] => i = k
    /\ Len(Order) = 13
  BY DEF Order

\* What is left of the contract for a section once it is named.
LEMMA KeepsSection ==
    ASSUME NEW d \in Documents
    PROVE  /\ \A s \in {"header", "joint_limits", "motion_limits", "transmissions",
                        "safety_factors"} :
                  Keeps(d, s) <=> d.malformed # s /\ s \notin d.plain
           /\ Keeps(d, "frames") <=> /\ d.malformed # "frames"
                                     /\ d.base # "" /\ d.tool # "" /\ d.base # d.tool
           /\ Keeps(d, "geometry") <=> /\ d.malformed # "geometry" /\ "geometry" \notin d.plain
                                       /\ d.links = "ordered"
           /\ Keeps(d, "mass_properties") <=>
                  /\ d.malformed # "mass_properties" /\ "mass_properties" \notin d.plain
                  /\ d.massLinks = d.links
           /\ Keeps(d, "payload") <=> /\ d.malformed # "payload" /\ "payload" \notin d.plain
                                      /\ d.com = "good" /\ d.inertia = "good"
           /\ Keeps(d, "gravity") <=> d.malformed # "gravity" /\ d.gravity = "good"
           /\ Keeps(d, "workspace") <=>
                  /\ d.malformed # "workspace" /\ Listed(d.targets)
                  /\ \A i \in DOMAIN d.targets : d.targets[i].frame = d.base
           /\ Keeps(d, "evaluation_cases") <=>
                  /\ d.malformed # "evaluation_cases" /\ Listed(d.cases)
                  /\ \A i \in DOMAIN d.cases : d.cases[i].target \in Ids(d.targets)
           /\ Keeps(d, "solver") <=> d.malformed # "solver" /\ LimitsInRange(d)
  <1>1. {"frames", "gravity", "workspace", "evaluation_cases", "solver"} \cap d.plain = {}
    BY ContractAssumption DEF Ruled
  <1> QED
    BY <1>1 DEF Keeps

\* The loop's set of ids finds the repetitions of a list without empty ids.
LEMMA RepeatsListed ==
    ASSUME NEW d \in Documents, NEW list \in {d.targets, d.cases}
    PROVE  Listed(list) <=>
               /\ list # <<>> /\ "" \notin Ids(list) /\ ~Repeats(list)
               /\ \A i \in DOMAIN list : list[i].fields /\ list[i].sound
  <1>1. \A i \in DOMAIN list : i \in Int
    <2>1. Len(list) \in Nat /\ DOMAIN list = 1..Len(list)
      BY ContractAssumption
    <2> QED
      BY <2>1
  <1>2. ASSUME "" \notin Ids(list), ~Repeats(list),
               NEW i \in DOMAIN list, NEW k \in DOMAIN list, list[i].id = list[k].id
        PROVE  i = k
    <2>1. list[i].id # ""
      BY <1>2 DEF Ids
    <2>2. ~(i < k) /\ ~(k < i)
      BY <1>2, <2>1 DEF Repeats
    <2> QED
      BY <1>1, <2>2
  <1>3. ASSUME \A i, k \in DOMAIN list : list[i].id = list[k].id => i = k
        PROVE  ~Repeats(list)
    <2> SUFFICES ASSUME NEW i \in DOMAIN list, NEW k \in DOMAIN list,
                        i < k, list[i].id = list[k].id
                 PROVE  FALSE
      BY DEF Repeats
    <2>1. i = k
      BY <1>3
    <2> QED
      BY <1>1, <2>1
  <1> QED
    BY <1>2, <1>3 DEF Listed

\* Reading one section keeps the prefixes in agreement, if its own issues are
\* right when there is none before.
LEMMA PrefixStep ==
    ASSUME ContractInv, FirstIssueInv, outcome = "reading",
           doc' = doc, at' = at + 1,
           NEW new, issues' = issues \cup new, \A x \in new : x[1] = Order[at],
           issues = {} => (Keeps(doc, Order[at]) <=> new = {})
    PROVE  PrefixesAgree' /\ IssuesArePlaced'
  <1>1. at \in 1..13
    BY DEF ContractInv
  <1>2. ASSUME NEW i \in 1..(at - 1)
        PROVE  Noted(issues', Order[i]) <=> Noted(issues, Order[i])
    <2>1. i \in 1..13 /\ i # at
      BY <1>1
    <2>2. Order[i] # Order[at]
      BY <1>1, <2>1, OrderDistinct
    <2> QED
      BY <2>2 DEF Noted
  <1>3. ASSUME NEW n \in 1..at
        PROVE  (\A i \in 1..(n - 1) : Keeps(doc', Order[i]))
                   <=> (\A i \in 1..(n - 1) : ~Noted(issues', Order[i]))
    <2>1. (\A i \in 1..(n - 1) : Keeps(doc, Order[i]))
              <=> (\A i \in 1..(n - 1) : ~Noted(issues, Order[i]))
      BY DEF FirstIssueInv, PrefixesAgree
    <2>2. 1..(n - 1) \subseteq 1..(at - 1)
      BY <1>1
    <2> QED
      BY <1>2, <2>1, <2>2
  <1>4. (\A i \in 1..at : Keeps(doc', Order[i])) <=> (\A i \in 1..at : ~Noted(issues', Order[i]))
    <2>1. (\A i \in 1..(at - 1) : Keeps(doc, Order[i]))
              <=> (\A i \in 1..(at - 1) : ~Noted(issues, Order[i]))
      <3>1. at \in 1..at
        BY <1>1
      <3> QED
        BY <3>1 DEF FirstIssueInv, PrefixesAgree
    <2>2. at \in 1..at /\ 1..at = (1..(at - 1)) \cup {at}
      BY <1>1
    <2>3. CASE \A i \in 1..(at - 1) : ~Noted(issues, Order[i])
      <3>1. issues = {}
        BY <2>3 DEF FirstIssueInv, IssuesArePlaced, Placed, Noted
      <3>2. Noted(issues', Order[at]) <=> new # {}
        BY <3>1 DEF Noted
      <3> QED
        BY <1>2, <2>1, <2>2, <2>3, <3>1, <3>2
    <2>4. CASE \E i \in 1..(at - 1) : Noted(issues, Order[i])
      BY <1>2, <2>1, <2>2, <2>4
    <2> QED
      BY <2>3, <2>4
  <1>5. PrefixesAgree'
    <2>1. \A n \in 1..(at + 1) : n \in 1..at \/ n = at + 1
      BY <1>1
    <2>2. (at + 1) - 1 = at
      BY <1>1
    <2> QED
      BY <1>3, <1>4, <2>1, <2>2 DEF PrefixesAgree
  <1>6. IssuesArePlaced'
    <2>1. 1..(at' - 1) = 1..at /\ at \in 1..at /\ 1..(at - 1) \subseteq 1..at
      BY <1>1
    <2> QED
      BY <2>1 DEF FirstIssueInv, IssuesArePlaced, Placed
  <1> QED
    BY <1>5, <1>6

\* The same for a section read to its end, whose issues its rules say.
LEMMA SectionStep ==
    ASSUME ContractInv, FirstIssueInv, NEW s, NEW rules, Read(s, rules),
           issues = {} => (Keeps(doc, s) <=> \A r \in DOMAIN rules : ~rules[r])
    PROVE  PrefixesAgree' /\ IssuesArePlaced'
  <1> DEFINE new == {<<s, code>> : code \in {r \in DOMAIN rules : rules[r]}}
  <1>1. /\ issues' = issues \cup new
        /\ doc' = doc /\ at' = at + 1 /\ Order[at] = s /\ outcome = "reading"
    BY DEF Read, Reading
  <1>2. \A x \in new : x[1] = Order[at]
    BY <1>1
  <1>3. new = {} <=> \A r \in DOMAIN rules : ~rules[r]
    OBVIOUS
  <1> HIDE DEF new
  <1> QED
    BY <1>1, <1>2, <1>3, PrefixStep

\* Where a section stands.
LEMMA PlaceOf ==
    ASSUME ContractInv, NEW s, NEW rules, Read(s, rules)
    PROVE  /\ at \in 1..13 /\ doc \in Documents /\ doc.malformed # s
           /\ s = "frames" <=> at = 2
           /\ s = "geometry" <=> at = 3
           /\ s = "header" => at = 1
           /\ s = "workspace" => at = 5
           /\ s = "mass_properties" => at = 6
           /\ s = "evaluation_cases" => at = 10
           /\ s = "gravity" => at = 8
           /\ s = "payload" => at = 7
  BY DEF Read, Reading, ContractInv, Order

\* A section that leaves the frame and the link ids alone.
LEMMA ComparedKept ==
    ASSUME ContractInv, FirstIssueInv, NEW s, NEW rules, Read(s, rules),
           s \notin {"frames", "geometry"},
           parsed'.base = parsed.base, parsed'.links = parsed.links
    PROVE  ComparedWith'
  <1>1. /\ issues' = {} => issues = {}
        /\ doc' = doc /\ at' = at + 1
    BY ReadEffect
  <1>2. at \in 1..13 /\ at # 2 /\ at # 3
    BY PlaceOf
  <1> QED
    BY <1>1, <1>2 DEF FirstIssueInv, ComparedWith

\* A section whose rules concern nothing else, and those about vectors.
LEMMA FirstIssuePlain ==
    ASSUME ContractInv, FirstIssueInv,
           NEW s \in {"header", "joint_limits", "motion_limits", "transmissions",
                      "safety_factors"},
           ReadPlain(s)
    PROVE  FirstIssueInv'
  <1> DEFINE rules == [rule |-> s \in doc.plain]
  <1>1. Read(s, rules) /\ UNCHANGED <<outcome, parsed>>
    BY DEF ReadPlain, Continue
  <1>2. Keeps(doc, s) <=> s \notin doc.plain
    BY <1>1, PlaceOf, KeepsSection
  <1>3. (\A r \in DOMAIN rules : ~rules[r]) <=> s \notin doc.plain
    <2>1. DOMAIN rules = {"rule"} /\ (rules["rule"] <=> s \in doc.plain)
      OBVIOUS
    <2> HIDE DEF rules
    <2> QED
      BY <2>1
  <1> HIDE DEF rules
  <1>4. PrefixesAgree' /\ IssuesArePlaced'
    BY <1>1, <1>2, <1>3, SectionStep
  <1>5. ComparedWith'
    BY <1>1, ComparedKept
  <1> QED
    BY <1>4, <1>5 DEF FirstIssueInv

LEMMA FirstIssueFrames ==
    ASSUME ContractInv, FirstIssueInv, ReadFrames
    PROVE  FirstIssueInv'
  <1> DEFINE distinct == doc.base # "" /\ doc.tool # "" /\ doc.base # doc.tool
             rules == [distinct_frames_required |-> ~distinct]
  <1>1. /\ Read("frames", rules)
        /\ parsed' = IF distinct THEN [parsed EXCEPT !.base = doc.base] ELSE parsed
    BY DEF ReadFrames
  <1>2. Keeps(doc, "frames") <=> distinct
    BY <1>1, PlaceOf, KeepsSection
  <1>3. (\A r \in DOMAIN rules : ~rules[r]) <=> distinct
    <2>1. /\ DOMAIN rules = {"distinct_frames_required"}
          /\ rules["distinct_frames_required"] <=> ~distinct
      OBVIOUS
    <2> HIDE DEF rules, distinct
    <2> QED
      BY <2>1
  <1>4. distinct => parsed'.base = doc.base
    BY <1>1 DEF ContractInv, ParsedIsRecord, Fields
  <1> HIDE DEF rules, distinct
  <1>5. PrefixesAgree' /\ IssuesArePlaced'
    BY <1>1, <1>2, <1>3, SectionStep
  <1>6. ComparedWith'
    <2>1. at = 2
      BY <1>1, PlaceOf
    <2>2. /\ issues' = {} => distinct
          /\ doc' = doc /\ at' = at + 1
      BY <1>1, <1>3, ReadEffect
    <2> QED
      BY <1>4, <2>1, <2>2 DEF ComparedWith
  <1> QED
    BY <1>5, <1>6 DEF FirstIssueInv

LEMMA FirstIssueGeometry ==
    ASSUME ContractInv, FirstIssueInv, ReadGeometry
    PROVE  FirstIssueInv'
  <1> DEFINE ordered == doc.links = "ordered"
             rules == [rule |-> "geometry" \in doc.plain,
                       ordered_link_id_required |-> doc.links # "ordered"]
  <1>1. /\ Read("geometry", rules)
        /\ parsed' = IF ordered THEN [parsed EXCEPT !.links = "ordered"] ELSE parsed
    BY DEF ReadGeometry
  <1>2. Keeps(doc, "geometry") <=> ordered /\ "geometry" \notin doc.plain
    BY <1>1, PlaceOf, KeepsSection
  <1>3. (\A r \in DOMAIN rules : ~rules[r]) <=> ordered /\ "geometry" \notin doc.plain
    <2>1. /\ DOMAIN rules = {"rule", "ordered_link_id_required"}
          /\ rules["rule"] <=> "geometry" \in doc.plain
          /\ rules["ordered_link_id_required"] <=> ~ordered
      OBVIOUS
    <2> HIDE DEF rules, ordered
    <2> QED
      BY <2>1
  <1>4. /\ ordered => parsed'.links = doc.links
        /\ parsed'.base = parsed.base
    BY <1>1 DEF ContractInv, ParsedIsRecord, Fields
  <1> HIDE DEF rules, ordered
  <1>5. PrefixesAgree' /\ IssuesArePlaced'
    BY <1>1, <1>2, <1>3, SectionStep
  <1>6. ComparedWith'
    <2>1. at = 3
      BY <1>1, PlaceOf
    <2>2. /\ issues' = {} => issues = {} /\ ordered
          /\ doc' = doc /\ at' = at + 1
      BY <1>1, <1>3, ReadEffect
    <2>3. issues' = {} => parsed'.base = doc.base
      BY <1>4, <2>1, <2>2 DEF FirstIssueInv, ComparedWith
    <2> QED
      BY <1>4, <2>1, <2>2, <2>3 DEF ComparedWith
  <1> QED
    BY <1>5, <1>6 DEF FirstIssueInv

LEMMA FirstIssueWorkspace ==
    ASSUME ContractInv, FirstIssueInv, ReadWorkspace
    PROVE  FirstIssueInv'
  <1> DEFINE kept == Kept(doc.targets)
             rules == [nonempty_array_required |-> doc.targets = <<>>,
                       fields |-> DOMAIN kept # DOMAIN doc.targets,
                       nonempty_string_required |-> "" \in Ids(kept),
                       duplicate_id |-> Repeats(kept),
                       frame_mismatch |-> \E i \in DOMAIN kept : kept[i].frame # parsed.base,
                       rule |-> \E i \in DOMAIN kept : ~kept[i].sound]
  <1>1. /\ Read("workspace", rules)
        /\ parsed' = [parsed EXCEPT !.targets = [i \in DOMAIN kept |-> kept[i].id]]
    BY DEF ReadWorkspace
  <1>2. (\A r \in DOMAIN rules : ~rules[r]) <=>
            /\ doc.targets # <<>>
            /\ DOMAIN kept = DOMAIN doc.targets
            /\ "" \notin Ids(kept) /\ ~Repeats(kept)
            /\ \A i \in DOMAIN kept : kept[i].frame = parsed.base
            /\ \A i \in DOMAIN kept : kept[i].sound
    <2> DEFINE mismatch == \E i \in DOMAIN kept : kept[i].frame # parsed.base
               unsound == \E i \in DOMAIN kept : ~kept[i].sound
    <2>1. (\A r \in DOMAIN rules : ~rules[r]) <=>
              /\ doc.targets # <<>>
              /\ DOMAIN kept = DOMAIN doc.targets
              /\ "" \notin Ids(kept) /\ ~Repeats(kept)
              /\ ~mismatch /\ ~unsound
      <3> HIDE DEF kept, mismatch, unsound
      <3>1. /\ DOMAIN rules = {"nonempty_array_required", "fields",
                               "nonempty_string_required", "duplicate_id",
                               "frame_mismatch", "rule"}
            /\ rules["nonempty_array_required"] <=> doc.targets = <<>>
            /\ rules["fields"] <=> DOMAIN kept # DOMAIN doc.targets
            /\ rules["nonempty_string_required"] <=> "" \in Ids(kept)
            /\ rules["duplicate_id"] <=> Repeats(kept)
            /\ rules["frame_mismatch"] <=> mismatch
            /\ rules["rule"] <=> unsound
        BY Zenon DEF kept, unsound, mismatch
      <3> HIDE DEF rules
      <3> QED
        BY <3>1
    <2> QED
      BY <2>1
  <1>3. /\ parsed'.base = parsed.base /\ parsed'.links = parsed.links
    BY <1>1 DEF ContractInv, ParsedIsRecord, Fields
  <1> HIDE DEF rules
  <1>4. /\ at = 5 /\ doc \in Documents
        /\ Keeps(doc, "workspace") <=>
               Listed(doc.targets) /\ \A i \in DOMAIN doc.targets : doc.targets[i].frame = doc.base
    BY <1>1, PlaceOf, KeepsSection
  <1>5. issues = {} => (Keeps(doc, "workspace") <=> \A r \in DOMAIN rules : ~rules[r])
    <2> SUFFICES ASSUME issues = {}
                 PROVE  Keeps(doc, "workspace") <=> \A r \in DOMAIN rules : ~rules[r]
      OBVIOUS
    <2>1. parsed.base = doc.base
      BY <1>4 DEF FirstIssueInv, ComparedWith
    <2>2. (\A i \in DOMAIN doc.targets : doc.targets[i].fields)
              => DOMAIN kept = DOMAIN doc.targets
      BY DEF Kept
    <2>3. CASE DOMAIN kept = DOMAIN doc.targets
      <3>1. /\ \A i \in DOMAIN doc.targets : kept[i] = doc.targets[i] /\ doc.targets[i].fields
            /\ Ids(kept) = Ids(doc.targets)
            /\ Repeats(kept) <=> Repeats(doc.targets)
        BY <2>3, KeptAll
      <3>2. (\A r \in DOMAIN rules : ~rules[r]) <=>
                /\ doc.targets # <<>> /\ "" \notin Ids(doc.targets) /\ ~Repeats(doc.targets)
                /\ \A i \in DOMAIN doc.targets : doc.targets[i].frame = doc.base
                /\ \A i \in DOMAIN doc.targets : doc.targets[i].sound
        <4> HIDE DEF kept
        <4> QED
          BY <1>2, <2>1, <2>3, <3>1
      <3>3. Listed(doc.targets) <=>
                /\ doc.targets # <<>> /\ "" \notin Ids(doc.targets) /\ ~Repeats(doc.targets)
                /\ \A i \in DOMAIN doc.targets : doc.targets[i].fields /\ doc.targets[i].sound
        BY <1>4, RepeatsListed
      <3> QED
        BY <1>4, <3>1, <3>2, <3>3
    <2>4. CASE DOMAIN kept # DOMAIN doc.targets
      <3>1. ~Listed(doc.targets)
        BY <2>2, <2>4 DEF Listed
      <3> QED
        BY <1>2, <1>4, <2>4, <3>1
    <2> QED
      BY <2>3, <2>4
  <1>6. PrefixesAgree' /\ IssuesArePlaced'
    BY <1>1, <1>5, SectionStep
  <1>7. ComparedWith'
    BY <1>1, <1>3, ComparedKept
  <1> QED
    BY <1>6, <1>7 DEF FirstIssueInv

LEMMA FirstIssueMass ==
    ASSUME ContractInv, FirstIssueInv, ReadMassProperties
    PROVE  FirstIssueInv'
  <1> DEFINE rules == [rule |-> "mass_properties" \in doc.plain,
                       link_id_mismatch |-> doc.massLinks # parsed.links]
  <1>1. Read("mass_properties", rules) /\ UNCHANGED parsed
    BY DEF ReadMassProperties
  <1>2. (\A r \in DOMAIN rules : ~rules[r]) <=>
            "mass_properties" \notin doc.plain /\ doc.massLinks = parsed.links
    <2>1. /\ DOMAIN rules = {"rule", "link_id_mismatch"}
          /\ rules["rule"] <=> "mass_properties" \in doc.plain
          /\ rules["link_id_mismatch"] <=> doc.massLinks # parsed.links
      OBVIOUS
    <2> HIDE DEF rules
    <2> QED
      BY <2>1
  <1> HIDE DEF rules
  <1>3. /\ at = 6
        /\ Keeps(doc, "mass_properties") <=>
               "mass_properties" \notin doc.plain /\ doc.massLinks = doc.links
    BY <1>1, PlaceOf, KeepsSection
  <1>4. issues = {} => parsed.links = doc.links
    BY <1>3 DEF FirstIssueInv, ComparedWith
  <1>5. PrefixesAgree' /\ IssuesArePlaced'
    BY <1>1, <1>2, <1>3, <1>4, SectionStep
  <1>6. ComparedWith'
    BY <1>1, ComparedKept
  <1> QED
    BY <1>5, <1>6 DEF FirstIssueInv

LEMMA FirstIssuePayload ==
    ASSUME ContractInv, FirstIssueInv, ReadPayload
    PROVE  FirstIssueInv'
  <1> DEFINE rules(garbage) ==
             [com_vector3_required |-> doc.com = "unread",
              inertia_vector3_required |-> doc.inertia = "unread",
              invalid_mass_properties |-> \/ "payload" \in doc.plain
                                          \/ doc.inertia = "bad"
                                          \/ doc.inertia = "unread" /\ garbage]
  <1>1. PICK garbage \in BOOLEAN : Read("payload", rules(garbage)) /\ UNCHANGED parsed
    BY DEF ReadPayload
  <1>2. (\A r \in DOMAIN rules(garbage) : ~rules(garbage)[r]) <=>
            /\ "payload" \notin doc.plain
            /\ doc.com # "unread" /\ doc.inertia # "unread" /\ doc.inertia # "bad"
    <2> DEFINE refused == \/ "payload" \in doc.plain
                          \/ doc.inertia = "bad"
                          \/ doc.inertia = "unread" /\ garbage
    <2> HIDE DEF refused
    <2>1. /\ DOMAIN rules(garbage) =
                 {"com_vector3_required", "inertia_vector3_required", "invalid_mass_properties"}
          /\ rules(garbage)["com_vector3_required"] <=> doc.com = "unread"
          /\ rules(garbage)["inertia_vector3_required"] <=> doc.inertia = "unread"
          /\ rules(garbage)["invalid_mass_properties"] <=> refused
      BY Zenon DEF refused
    <2> HIDE DEF rules
    <2> QED
      BY <2>1 DEF refused
  <1> HIDE DEF rules
  <1>3. /\ doc \in Documents
        /\ Keeps(doc, "payload") <=>
               "payload" \notin doc.plain /\ doc.com = "good" /\ doc.inertia = "good"
    BY <1>1, PlaceOf, KeepsSection
  <1>4. doc.com \in {"good", "unread"} /\ doc.inertia \in {"good", "bad", "unread"}
    BY <1>3, ContractAssumption DEF Vectors
  <1>5. PrefixesAgree' /\ IssuesArePlaced'
    BY <1>1, <1>2, <1>3, <1>4, SectionStep
  <1>6. ComparedWith'
    BY <1>1, ComparedKept
  <1> QED
    BY <1>5, <1>6 DEF FirstIssueInv

LEMMA FirstIssueGravity ==
    ASSUME ContractInv, FirstIssueInv, ReadGravity
    PROVE  FirstIssueInv'
  <1> DEFINE rules(garbage) ==
             [vector3_required |-> doc.gravity = "unread",
              nonzero_gravity_required |-> \/ doc.gravity = "bad"
                                           \/ doc.gravity = "unread" /\ garbage]
  <1>1. PICK garbage \in BOOLEAN : Read("gravity", rules(garbage)) /\ UNCHANGED parsed
    BY DEF ReadGravity
  <1>2. (\A r \in DOMAIN rules(garbage) : ~rules(garbage)[r]) <=>
            doc.gravity # "unread" /\ doc.gravity # "bad"
    <2> DEFINE refused == \/ doc.gravity = "bad"
                          \/ doc.gravity = "unread" /\ garbage
    <2> HIDE DEF refused
    <2>1. /\ DOMAIN rules(garbage) = {"vector3_required", "nonzero_gravity_required"}
          /\ rules(garbage)["vector3_required"] <=> doc.gravity = "unread"
          /\ rules(garbage)["nonzero_gravity_required"] <=> refused
      BY Zenon DEF refused
    <2> HIDE DEF rules
    <2> QED
      BY <2>1 DEF refused
  <1> HIDE DEF rules
  <1>3. /\ doc \in Documents
        /\ Keeps(doc, "gravity") <=> doc.gravity = "good"
    BY <1>1, PlaceOf, KeepsSection
  <1>4. doc.gravity \in {"good", "bad", "unread"}
    BY <1>3, ContractAssumption DEF Vectors
  <1>5. PrefixesAgree' /\ IssuesArePlaced'
    BY <1>1, <1>2, <1>3, <1>4, SectionStep
  <1>6. ComparedWith'
    BY <1>1, ComparedKept
  <1> QED
    BY <1>5, <1>6 DEF FirstIssueInv

LEMMA FirstIssueCases ==
    ASSUME ContractInv, FirstIssueInv, ReadEvaluationCases
    PROVE  FirstIssueInv'
  <1> DEFINE kept == Kept(doc.cases)
             known == {parsed.targets[i] : i \in DOMAIN parsed.targets}
             found == [i \in DOMAIN kept |-> IF kept[i].target \in known THEN kept[i].target
                                                                        ELSE ""]
             rules == [nonempty_array_required |-> doc.cases = <<>>,
                       fields |-> DOMAIN kept # DOMAIN doc.cases,
                       nonempty_string_required |-> "" \in Ids(kept),
                       duplicate_id |-> Repeats(kept),
                       unknown_target |-> \E i \in DOMAIN kept : kept[i].target \notin known,
                       rule |-> \E i \in DOMAIN kept : ~kept[i].sound]
  <1>1. /\ Read("evaluation_cases", rules)
        /\ parsed' = [parsed EXCEPT !.cases = found]
    BY DEF ReadEvaluationCases
  <1>2. (\A r \in DOMAIN rules : ~rules[r]) <=>
            /\ doc.cases # <<>>
            /\ DOMAIN kept = DOMAIN doc.cases
            /\ "" \notin Ids(kept) /\ ~Repeats(kept)
            /\ \A i \in DOMAIN kept : kept[i].target \in known
            /\ \A i \in DOMAIN kept : kept[i].sound
    <2> DEFINE unknown == \E i \in DOMAIN kept : kept[i].target \notin known
               unsound == \E i \in DOMAIN kept : ~kept[i].sound
    <2>1. (\A r \in DOMAIN rules : ~rules[r]) <=>
              /\ doc.cases # <<>>
              /\ DOMAIN kept = DOMAIN doc.cases
              /\ "" \notin Ids(kept) /\ ~Repeats(kept)
              /\ ~unknown /\ ~unsound
      <3> HIDE DEF kept, unknown, unsound
      <3>1. /\ DOMAIN rules = {"nonempty_array_required", "fields",
                               "nonempty_string_required", "duplicate_id",
                               "unknown_target", "rule"}
            /\ rules["nonempty_array_required"] <=> doc.cases = <<>>
            /\ rules["fields"] <=> DOMAIN kept # DOMAIN doc.cases
            /\ rules["nonempty_string_required"] <=> "" \in Ids(kept)
            /\ rules["duplicate_id"] <=> Repeats(kept)
            /\ rules["unknown_target"] <=> unknown
            /\ rules["rule"] <=> unsound
        BY Zenon DEF kept, unsound, unknown
      <3> HIDE DEF rules
      <3> QED
        BY <3>1
    <2> HIDE DEF known
    <2> QED
      BY <2>1
  <1>3. /\ parsed'.base = parsed.base /\ parsed'.links = parsed.links
    <2> HIDE DEF found
    <2> QED
      BY <1>1 DEF ContractInv, ParsedIsRecord, Fields
  <1> HIDE DEF rules
  <1>4. /\ at = 10 /\ doc \in Documents
        /\ Keeps(doc, "evaluation_cases") <=>
               /\ Listed(doc.cases)
               /\ \A i \in DOMAIN doc.cases : doc.cases[i].target \in Ids(doc.targets)
    BY <1>1, PlaceOf, KeepsSection
  <1>5. issues = {} => (Keeps(doc, "evaluation_cases") <=> \A r \in DOMAIN rules : ~rules[r])
    <2> SUFFICES ASSUME issues = {}
                 PROVE  Keeps(doc, "evaluation_cases") <=> \A r \in DOMAIN rules : ~rules[r]
      OBVIOUS
    <2>1. known = Ids(doc.targets)
      <3>1. parsed.targets = [i \in DOMAIN doc.targets |-> doc.targets[i].id]
        <4>1. at > 5
          BY <1>4
        <4> QED
          BY <4>1 DEF ContractInv, TargetsRead
      <3> QED
        BY <3>1 DEF Ids
    <2>2. (\A i \in DOMAIN doc.cases : doc.cases[i].fields) => DOMAIN kept = DOMAIN doc.cases
      BY DEF Kept
    <2>3. CASE DOMAIN kept = DOMAIN doc.cases
      <3>1. /\ \A i \in DOMAIN doc.cases : kept[i] = doc.cases[i] /\ doc.cases[i].fields
            /\ Ids(kept) = Ids(doc.cases)
            /\ Repeats(kept) <=> Repeats(doc.cases)
        BY <2>3, KeptAll
      <3>2. (\A r \in DOMAIN rules : ~rules[r]) <=>
                /\ doc.cases # <<>> /\ "" \notin Ids(doc.cases) /\ ~Repeats(doc.cases)
                /\ \A i \in DOMAIN doc.cases : doc.cases[i].target \in Ids(doc.targets)
                /\ \A i \in DOMAIN doc.cases : doc.cases[i].sound
        <4> HIDE DEF kept, known
        <4> QED
          BY <1>2, <2>1, <2>3, <3>1
      <3>3. Listed(doc.cases) <=>
                /\ doc.cases # <<>> /\ "" \notin Ids(doc.cases) /\ ~Repeats(doc.cases)
                /\ \A i \in DOMAIN doc.cases : doc.cases[i].fields /\ doc.cases[i].sound
        BY <1>4, RepeatsListed
      <3> QED
        BY <1>4, <3>1, <3>2, <3>3
    <2>4. CASE DOMAIN kept # DOMAIN doc.cases
      <3>1. ~Listed(doc.cases)
        BY <2>2, <2>4 DEF Listed
      <3> QED
        BY <1>2, <1>4, <2>4, <3>1
    <2> QED
      BY <2>3, <2>4
  <1>6. PrefixesAgree' /\ IssuesArePlaced'
    BY <1>1, <1>5, SectionStep
  <1>7. ComparedWith'
    BY <1>1, <1>3, ComparedKept
  <1> QED
    BY <1>6, <1>7 DEF FirstIssueInv

LEMMA FirstIssueSolver ==
    ASSUME ContractInv, FirstIssueInv, ReadSolver
    PROVE  FirstIssueInv'
  <1> DEFINE ik  == LimitRead(doc.ik)
             opt == LimitRead(doc.optimization)
             tol == ToleranceRead
  <1>1. /\ Read("solver", SolverRules)
        /\ parsed' = [parsed EXCEPT !.ik = ik, !.optimization = opt, !.tolerance = tol]
    BY DEF ReadSolver
  <1>2. LimitsInRange(doc) <=> LimitsAreIntegers /\ doc.tolerance # NotANumber /\ LimitsFit
    <2> DEFINE numbers   == NotANumber \notin {doc.ik, doc.optimization, doc.tolerance}
               ikFits    == Narrow(doc.ik) >= 20 /\ Narrow(doc.ik) <= 5000
               optFits   == Narrow(doc.optimization) \in 1..MaxOptimization
               tolerance == doc.tolerance >= 0
    <2>1. numbers <=> LimitsAreIntegers /\ doc.tolerance # NotANumber
      BY DEF LimitsAreIntegers
    <2>2. LimitsInRange(doc) <=> numbers /\ ikFits /\ optFits /\ tolerance
      BY DEF LimitsInRange
    <2>3. ASSUME numbers
          PROVE  ik = Narrow(doc.ik) /\ opt = Narrow(doc.optimization) /\ tol = doc.tolerance
      BY <2>1, <2>3 DEF LimitRead, ToleranceRead
    <2>0. LimitsFit <=> ik >= 20 /\ ik <= 5000 /\ opt \in 1..MaxOptimization /\ tol >= 0
      BY DEF LimitsFit
    <2> HIDE DEF numbers, ik, opt, tol
    <2>4. ASSUME numbers PROVE ik >= 20 /\ ik <= 5000 <=> ikFits
      BY <2>3, <2>4
    <2>5. ASSUME numbers PROVE opt \in 1..MaxOptimization <=> optFits
      BY <2>3, <2>5
    <2>6. ASSUME numbers PROVE tol >= 0 <=> tolerance
      BY <2>3, <2>6
    <2> HIDE DEF ikFits, optFits, tolerance
    <2> QED
      BY <2>0, <2>1, <2>2, <2>4, <2>5, <2>6
  <1>3. (\A r \in DOMAIN SolverRules : ~SolverRules[r]) <=> LimitsInRange(doc)
    BY <1>2, SolverRulesKept
  <1> HIDE DEF ik, opt, tol
  <1>4. parsed'.base = parsed.base /\ parsed'.links = parsed.links
    BY <1>1 DEF ContractInv, ParsedIsRecord, Fields
  <1>5. Keeps(doc, "solver") <=> LimitsInRange(doc)
    BY <1>1, PlaceOf, KeepsSection
  <1>6. PrefixesAgree' /\ IssuesArePlaced'
    BY <1>1, <1>3, <1>5, SectionStep
  <1>7. ComparedWith'
    BY <1>1, <1>4, ComparedKept
  <1> QED
    BY <1>6, <1>7 DEF FirstIssueInv

LEMMA FirstIssueRefused ==
    ASSUME ContractInv, FirstIssueInv, RefuseFields
    PROVE  FirstIssueInv'
  <1> DEFINE new == {<<Order[at], "fields">>}
  <1>1. /\ issues' = issues \cup new
        /\ doc' = doc /\ at' = at + 1 /\ outcome = "reading" /\ outcome' = "rejected"
        /\ doc.malformed = Order[at]
    BY DEF RefuseFields, Reading
  <1>2. ~Keeps(doc, Order[at])
    BY <1>1 DEF Keeps
  <1>3. new # {} /\ (\A x \in new : x[1] = Order[at])
    OBVIOUS
  <1> HIDE DEF new
  <1>4. PrefixesAgree' /\ IssuesArePlaced'
    BY <1>1, <1>2, <1>3, PrefixStep
  <1>5. issues' # {}
    BY <1>1, <1>3
  <1> QED
    BY <1>1, <1>4, <1>5 DEF FirstIssueInv, ComparedWith

LEMMA FirstIssueThrown ==
    ASSUME ContractInv, FirstIssueInv, ReadingThrows
    PROVE  FirstIssueInv'
  <1>1. /\ issues' = issues \cup {Thrown} /\ issues' # {}
        /\ doc' = doc /\ at' = at /\ outcome' = "rejected"
        /\ at \in 1..13
    BY DEF ReadingThrows, Thrown, ContractInv
  <1>2. ASSUME NEW i \in 1..13
        PROVE  Noted(issues', Order[i]) <=> Noted(issues, Order[i])
    <2>1. Thrown[1] # Order[i]
      BY OrderDistinct DEF Thrown
    <2> QED
      BY <1>1, <2>1 DEF Noted
  <1>3. ASSUME NEW n \in 1..at
        PROVE  1..(n - 1) \subseteq 1..13
    <2>1. at \in 1..13
      BY DEF ReadingThrows, ContractInv
    <2> QED
      BY <2>1
  <1>4. PrefixesAgree'
    BY <1>1, <1>2, <1>3 DEF FirstIssueInv, PrefixesAgree
  <1>5. IssuesArePlaced'
    BY <1>1 DEF FirstIssueInv, IssuesArePlaced, Placed
  <1> QED
    BY <1>1, <1>4, <1>5 DEF FirstIssueInv, ComparedWith

LEMMA FirstIssueInitial == ContractInit => FirstIssueInv
  <1> SUFFICES ASSUME ContractInit PROVE FirstIssueInv
    OBVIOUS
  <1>1. at = 1 /\ issues = {}
    BY DEF ContractInit
  <1>2. \A n \in 1..1 : 1..(n - 1) = {}
    OBVIOUS
  <1> QED
    BY <1>1, <1>2 DEF FirstIssueInv, PrefixesAgree, IssuesArePlaced, ComparedWith

LEMMA FirstIssueStep ==
    ASSUME ContractInv, FirstIssueInv, ContractNext
    PROVE  FirstIssueInv'
  BY FirstIssuePlain, FirstIssueFrames, FirstIssueGeometry, FirstIssueWorkspace,
     FirstIssueMass, FirstIssuePayload, FirstIssueGravity, FirstIssueCases,
     FirstIssueSolver, FirstIssueRefused, FirstIssueThrown
     DEF ContractNext, ReadHeader, ReadJointLimits, ReadMotionLimits, ReadTransmissions,
         ReadSafetyFactors

LEMMA FirstIssueStutter ==
    ASSUME FirstIssueInv, UNCHANGED contractVars
    PROVE  FirstIssueInv'
  BY DEF contractVars, FirstIssueInv, PrefixesAgree, IssuesArePlaced, Placed, ComparedWith, Noted

\* The prefixes determine the first element of either set.
LEMMA FirstBreachNoted ==
    ASSUME ContractInv, FirstIssueInv
    PROVE  FirstIssueIsFirstBreach
  <1> DEFINE before   == 1..(at - 1)
             breaches == {i \in before : ~Keeps(doc, Order[i])}
             noted    == {i \in before : \E issue \in issues : issue[1] = Order[i]}
  <1>1. at \in Nat
    BY DEF ContractInv
  <1>2. ASSUME NEW n \in 1..at
        PROVE  breaches \cap (1..(n - 1)) = {} <=> noted \cap (1..(n - 1)) = {}
    <2>1. 1..(n - 1) \subseteq before
      BY <1>1
    <2> QED
      BY <2>1 DEF FirstIssueInv, PrefixesAgree, Noted
  <1>3. ASSUME NEW a \in SUBSET before, NEW b \in SUBSET before,
               \A n \in 1..at : a \cap (1..(n - 1)) = {} <=> b \cap (1..(n - 1)) = {},
               NEW i \in First(a)
        PROVE  i \in First(b)
    <2>1. i \in before /\ i \in a /\ i \in 1..at /\ i + 1 \in 1..at /\ i \in Int
      BY <1>1 DEF First
    <2>2. a \cap (1..(i - 1)) = {}
      BY <2>1 DEF First
    <2>3. b \cap (1..(i - 1)) = {}
      BY <1>3, <2>1, <2>2
    <2>4. i \in 1..((i + 1) - 1)
      BY <2>1
    <2>5. b \cap (1..((i + 1) - 1)) # {}
      BY <1>3, <2>1, <2>4
    <2>6. i \in b
      BY <2>1, <2>3, <2>5
    <2>7. \A k \in b : i <= k
      BY <1>1, <2>1, <2>3
    <2> QED
      BY <2>6, <2>7 DEF First
  <1>4. breaches \in SUBSET before /\ noted \in SUBSET before
    OBVIOUS
  <1> HIDE DEF breaches, noted, before
  <1>5. First(breaches) \subseteq First(noted) /\ First(noted) \subseteq First(breaches)
    BY <1>2, <1>3, <1>4
  <1> QED
    BY <1>5 DEF FirstIssueIsFirstBreach, breaches, noted, before

\* The verdict is the contract's: what is accepted keeps all of it, and what is
\* refused breaks it somewhere, unless reading threw an exception.
VerdictIsTheContracts ==
    /\ outcome = "accepted" => Conforms(doc)
    /\ outcome = "rejected" => ~Conforms(doc) \/ Thrown \in issues

LEMMA VerdictJudged ==
    ASSUME ContractInv, FirstIssueInv
    PROVE  VerdictIsTheContracts
  <1>1. at \in 1..14
    BY DEF ContractInv
  <1>2. (\A i \in 1..(at - 1) : Keeps(doc, Order[i]))
            <=> (\A i \in 1..(at - 1) : ~Noted(issues, Order[i]))
    <2>1. at \in 1..at
      BY <1>1
    <2> QED
      BY <2>1 DEF FirstIssueInv, PrefixesAgree
  <1>3. ASSUME outcome = "accepted" PROVE Conforms(doc)
    <2>1. at = 14 /\ issues = {}
      BY <1>3 DEF ContractInv
    <2>2. \A i \in 1..13 : Keeps(doc, Order[i])
      BY <1>2, <2>1 DEF Noted
    <2> QED
      BY <2>2, OrderDistinct DEF Conforms
  <1>4. ASSUME outcome = "rejected", Thrown \notin issues PROVE ~Conforms(doc)
    <2>1. PICK issue \in issues : Placed(issue)
      BY <1>4 DEF ContractInv, FirstIssueInv, IssuesArePlaced
    <2>2. PICK i \in 1..(at - 1) : ~Keeps(doc, Order[i])
      BY <1>2, <2>1 DEF Placed, Noted
    <2>3. i \in 1..13
      BY <1>1
    <2> QED
      BY <2>2, <2>3, OrderDistinct DEF Conforms
  <1> QED
    BY <1>3, <1>4 DEF VerdictIsTheContracts
=============================================================================
