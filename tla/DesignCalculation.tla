-------------------------- MODULE DesignCalculation --------------------------
(***************************************************************************)
(* design::calculate (engine/src/design/calculation.cpp): the input         *)
(* contract (InputContract), the link lengths (LinkLengthSolver), the joint *)
(* requirements (engine/src/dynamics/joint_requirements.cpp) and the result *)
(* they become.                                                            *)
(*                                                                         *)
(* Numbers are doubles: accepted inputs are finite, but products of them   *)
(* may overflow.  The six peaks of the seven joints are updated alike and  *)
(* independently, so one stands for all.                                   *)
(***************************************************************************)
EXTENDS LinkLengthSolver, InputContract, FiniteSets

CONSTANTS
    NumCases,       \* evaluation cases in the input
    MaxMagnitude    \* bound: ordinary magnitudes are 0..MaxMagnitude

ASSUME CalculationAssumption ==
    /\ NumCases \in Nat \ {0} /\ MaxMagnitude \in Nat /\ IsFiniteSet(Targets)
    \* A document that keeps the contract asks for these targets and so many cases.
    /\ \A d \in Documents :
           Conforms(d) => Ids(d.targets) = Targets /\ Len(d.cases) = NumCases

VARIABLES
    stage,          \* where calculate() is
    values,         \* per evaluated case: the magnitude it contributes
    peak,           \* Peak: the value stored and the case it names
    report          \* the result

caseVars == <<values, peak>>
vars == <<solverVars, contractVars, stage, caseVars, report>>

\* Magnitudes of doubles: ordered, infinity above all, NaN compares with none.
Inf        == MaxMagnitude + 1
NaN        == -1
Magnitudes == 0..Inf \cup {NaN}
AtLeast(a, b) == a # NaN /\ b # NaN /\ a >= b

\* The ids of the checks in a result; those a success reports as passed.
SuccessChecks == {"design_input_contract", "optimizer_convergence",
                  "fk_ik_workspace_coverage", "geometry_feeds_dynamics",
                  "finite_outputs"}
Checks        == SuccessChecks \cup {"workspace_coverage"}

\* The result object.  `finite` is a fact about its numbers, not a field: none
\* of them is written as null.
Reports ==
    [status : {"invalid_input", "infeasible", "non_converged", "success"},
     passed : SUBSET Checks, failed : SUBSET Checks,
     reached : 0..Cardinality(Targets) \cup {None},
     finite : BOOLEAN]

ASSUME ReportAssumption == None \notin Reports

Init ==
    /\ SolverInit
    /\ ContractInit
    /\ stage = "parse"
    /\ values = <<>>
    /\ peak = [value |-> 0, case |-> None]
    /\ report = None

Finish(status, passed, failed, reached, finite) ==
    /\ report' = [status |-> status, passed |-> passed, failed |-> failed,
                  reached |-> reached, finite |-> finite]
    /\ stage' = "done"

\* parse_input().
ReadInput ==
    /\ stage = "parse"
    /\ ContractNext
    /\ UNCHANGED <<solverVars, stage, caseVars, report>>

\* It returned false or threw.
RejectInput ==
    /\ stage = "parse" /\ outcome = "rejected"
    /\ Finish("invalid_input", {}, {"design_input_contract"}, None, TRUE)
    /\ UNCHANGED <<solverVars, contractVars, caseVars>>

AcceptInput ==
    /\ stage = "parse" /\ outcome = "accepted"
    /\ StartSolver(parsed.tolerance, parsed.optimization)
    /\ stage' = "solve"
    /\ UNCHANGED <<contractVars, caseVars, report>>

Solve ==
    /\ stage = "solve"
    /\ SolverNext
    /\ UNCHANGED <<contractVars, stage, caseVars, report>>

\* Mutant of ReportUnreachable: targets with any measured residual count.
BugCountMeasured ==
    /\ stage = "solve" /\ verdict = "maximum_geometry_unreachable"
    /\ LET v == tested[One]
           counted == {t \in Targets : v[t] # "unmeasured"}
       IN  \E status \in {"infeasible", "non_converged"} :
               Finish(status, {"design_input_contract", "finite_outputs"},
                      {"workspace_coverage"}, Cardinality(counted),
                      \A t \in Targets : v[t] # "unmeasured")
    /\ UNCHANGED <<solverVars, contractVars, caseVars>>

\* The longest links miss a target.  `outside`: targets farther away than the
\* links reach in a straight line, which therefore no posture reaches.
ReportUnreachable ==
    /\ stage = "solve" /\ verdict = "maximum_geometry_unreachable"
    /\ LET v == tested[One]
           reached == {t \in Targets : v[t] = "reached"}
       IN  \E outside \in SUBSET (Targets \ reached) :
               Finish(IF outside # {} THEN "infeasible" ELSE "non_converged",
                      {"design_input_contract", "finite_outputs"},
                      {"workspace_coverage"}, Cardinality(reached),
                      \A t \in Targets : v[t] # "unmeasured")
    /\ UNCHANGED <<solverVars, contractVars, caseVars>>

\* No converged scale.
ReportNotConverged ==
    /\ stage = "solve"
    /\ verdict \in {"iteration_limit", "final_verification_failed"}
    /\ Finish("non_converged", {"design_input_contract"},
              {IF verdict = "iteration_limit" THEN "optimizer_convergence"
                                              ELSE "workspace_coverage"},
              None, TRUE)
    /\ UNCHANGED <<solverVars, contractVars, caseVars>>

BeginDynamics ==
    /\ stage = "solve" /\ verdict = "converged"
    /\ stage' = "dynamics"
    /\ UNCHANGED <<solverVars, contractVars, caseVars, report>>

\* Mutant of Peak: a case that ties with the peak is passed over.
BugStrictPeak(old, v, c) ==
    IF AtLeast(v, old.value) /\ v # old.value THEN [value |-> v, case |-> c] ELSE old

\* The update lambda: the later of equal cases wins, NaN is passed over.
Peak(old, v, c) ==
    IF AtLeast(v, old.value) THEN [value |-> v, case |-> c] ELSE old

\* One evaluation case, at the posture verified for its target.
EvaluateCase ==
    /\ stage = "dynamics" /\ Len(values) < NumCases
    /\ \E v \in Magnitudes :
           /\ values' = Append(values, v)
           /\ peak' = Peak(peak, v, Len(values) + 1)
    /\ UNCHANGED <<solverVars, contractVars, stage, report>>

\* Everything went through.  The peaks at the motor's side of a transmission are
\* products and quotients of the peaks, which may overflow where those do not.
ReportSuccess ==
    /\ stage = "dynamics" /\ Len(values) = NumCases
    /\ \E motorSide \in BOOLEAN :
           Finish("success", SuccessChecks, {}, Cardinality(Targets),
                  /\ \A c \in 1..NumCases : values[c] \in 0..MaxMagnitude
                  /\ peak.value \in 0..MaxMagnitude /\ motorSide)
    /\ UNCHANGED <<solverVars, contractVars, caseVars>>

Next ==
    \/ ReadInput \/ RejectInput \/ AcceptInput \/ Solve
    \/ ReportUnreachable \/ ReportNotConverged
    \/ BeginDynamics \/ EvaluateCase \/ ReportSuccess

Spec     == Init /\ [][Next]_vars

\* One thread that computes: it does not stop between two steps.
FairSpec == Spec /\ WF_vars(Next)

-----------------------------------------------------------------------------
(* Properties                                                               *)

\* Every variable holds a value of its kind.
TypeOK ==
    /\ SolverTypeOK
    /\ stage \in {"parse", "solve", "dynamics", "done"}
    /\ values \in Seq(Magnitudes) /\ Len(values) <= NumCases
    /\ peak \in [value : 0..Inf, case : 1..NumCases \cup {None}]
    /\ report \in Reports \cup {None}

\* A reported design is that of a document that keeps the contract and reaches
\* every target with the reported geometry, the postures that dynamics used are
\* that geometry's, and a scale more than the document's step_tolerance smaller
\* either fails a target or is below the bounds
\* (docs/engineering/design-calculation.md:52-55).
SuccessIsVerified ==
    stage = "dynamics" \/ (report # None /\ report.status = "success") =>
        /\ Conforms(doc)
        /\ ReachedAt(scale)
        /\ evidence = scale
        /\ scale - lower <= doc.tolerance
        /\ lower = 0 \/ ~ReachedAt(lower)

\* The coverage a result reports fits its verdict: a result that fails the
\* coverage check counts fewer targets than were requested, a success all.
CoverageFits ==
    report # None /\ report.reached # None =>
        /\ report.reached = Cardinality({t \in Targets : tested[evidence][t] = "reached"})
        /\ report.reached = Cardinality(Targets) <=> report.status = "success"

\* "Every peak retains the evaluation case that produced it"
\* (docs/engineering/design-calculation.md:80-81): no comparable case exceeds
\* the peak, and the case it names produced its value.
PeakRetainsItsCase ==
    /\ \A c \in 1..Len(values) : values[c] # NaN =>
           peak.value >= values[c] /\ peak.case # None
    /\ peak.case # None => values[peak.case] = peak.value

\* The calculation ends, also when the bracket can shrink no further.
CalculationEnds == <>(stage = "done")

-----------------------------------------------------------------------------
(* A claim of the repository that the code does not keep                    *)

\* The check "finite_outputs" says of a result that its numbers are finite;
\* docs/engineering/units-and-frames.md:44: non-finite calculations become
\* structured failures.
FiniteOutputsChecked ==
    report # None /\ "finite_outputs" \in report.passed => report.finite
=============================================================================
