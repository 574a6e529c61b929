-------------------------- MODULE LinkLengthSolver --------------------------
(***************************************************************************)
(* solve_link_lengths (engine/src/design/link_length_solver.cpp): bisection *)
(* of the common scale of the link lengths between their bounds, over the   *)
(* verdicts of verify_geometry (engine/src/kinematics/parametric_arm.cpp).  *)
(*                                                                         *)
(* A scale is a double in [0, 1].  Here it is a point of a grid 0..One whose *)
(* spacing stands for the last bit: the midpoint of two neighbours rounds to *)
(* one of them.  verify_geometry is a function of the scale; its value is    *)
(* chosen when a scale is first verified and remembered.  Nothing makes it  *)
(* monotone.                                                               *)
(***************************************************************************)
EXTENDS Integers

CONSTANTS
    Targets,        \* workspace targets
    One,            \* the grid point of scale 1.0
    None            \* not verified, not decided

\* LinkLengthSolveStatus.
Statuses == {"maximum_geometry_unreachable", "iteration_limit",
             "final_verification_failed", "converged"}

ASSUME SolverAssumption ==
    /\ Targets # {}
    /\ One \in Nat \ {0}
    /\ None \notin Statuses \cup Int

VARIABLES
    tolerance,      \* input.solver.step_tolerance, in grid points
    limit,          \* input.solver.max_optimization_iterations
    spc,            \* where solve_link_lengths is
    lower,          \* result.lower_bound
    upper,          \* result.upper_bound
    iterations,     \* result.iterations
    tested,         \* verify_geometry, as far as it has been asked
    scale,          \* the scale of result.geometry
    evidence,       \* the scale result.verification belongs to
    verdict         \* result.status

input == <<tolerance, limit>>
solverVars == <<tolerance, limit, spc, lower, upper, iterations, tested, scale,
                evidence, verdict>>

Scales == 0..One
Width  == upper - lower

-----------------------------------------------------------------------------
(* verify_geometry and solve_ik                                             *)

\* How one seed ends: inside the tolerances, outside with a finite score, or
\* with a score that is no finite number.
SeedOutcomes == {"reached", "missed", "unmeasured"}

\* solve_ik over its five seeds: the first that is inside wins; otherwise the
\* least score below infinity; otherwise the initial `best`, whose residuals
\* are infinite.
SolveIk(seeds) ==
    IF \E s \in 1..5 : seeds[s] = "reached" THEN "reached"
    ELSE IF \E s \in 1..5 : seeds[s] = "missed" THEN "missed"
    ELSE "unmeasured"

IkOutcomes == {SolveIk(seeds) : seeds \in [1..5 -> SeedOutcomes]}

Verifications == [Targets -> IkOutcomes]

ASSUME VerificationAssumption == None \notin Verifications

\* Verification::all_reachable.
AllReached(v) == \A t \in Targets : v[t] = "reached"

\* v is what verify_geometry says of scale s.
Verify(s, v) ==
    /\ tested[s] # None => v = tested[s]
    /\ tested' = [tested EXCEPT ![s] = v]

-----------------------------------------------------------------------------
(* solve_link_lengths                                                       *)

SolverInit ==
    /\ tolerance = 0
    /\ limit = 0
    /\ spc = "idle"
    /\ lower = 0
    /\ upper = One
    /\ iterations = 0
    /\ tested = [s \in Scales |-> None]
    /\ scale = One
    /\ evidence = None
    /\ verdict = None

\* The call, with the settings of the input.
StartSolver(t, l) ==
    /\ spc = "idle"
    /\ tolerance' = t /\ limit' = l
    /\ spc' = "maximum"
    /\ UNCHANGED <<lower, upper, iterations, tested, scale, evidence, verdict>>

\* The longest links first: what they do not reach is not searched for.
SolveMaximum ==
    /\ spc = "maximum"
    /\ \E v \in Verifications :
           /\ Verify(One, v)
           /\ IF AllReached(v)
              THEN spc' = "loop" /\ UNCHANGED verdict
              ELSE spc' = "done" /\ verdict' = "maximum_geometry_unreachable"
    /\ evidence' = One
    /\ UNCHANGED <<input, lower, upper, iterations, scale>>

\* Mutant of Midpoints: an uneven split.
BugThirds(l, u) == {(2 * l + u) \div 3}

\* 0.5 * (l + u), rounded to the grid either way.
Midpoints(l, u) == {(l + u) \div 2, (l + u + 1) \div 2}

\* Mutants of Bisect: the sides are swapped; a pass of the loop is not counted.
BugSwapSides ==
    /\ spc = "loop"
    /\ iterations < limit
    /\ \E mid \in Midpoints(lower, upper), v \in Verifications :
           /\ Verify(mid, v)
           /\ IF AllReached(v)
              THEN lower' = mid /\ UNCHANGED <<upper, evidence>>
              ELSE upper' = mid /\ evidence' = mid /\ UNCHANGED lower
    /\ iterations' = iterations + 1
    /\ spc' = IF upper' - lower' <= tolerance THEN "check" ELSE "loop"
    /\ UNCHANGED <<input, scale, verdict>>

BugUncounted ==
    /\ spc = "loop"
    /\ iterations < limit
    /\ \E mid \in Midpoints(lower, upper), v \in Verifications :
           /\ Verify(mid, v)
           /\ IF AllReached(v)
              THEN upper' = mid /\ evidence' = mid /\ UNCHANGED lower
              ELSE lower' = mid /\ UNCHANGED <<upper, evidence>>
    /\ spc' = IF upper' - lower' <= tolerance THEN "check" ELSE "loop"
    /\ UNCHANGED <<input, iterations, scale, verdict>>

\* One pass of the loop; it breaks when the bracket is narrow enough.
Bisect ==
    /\ spc = "loop"
    /\ iterations < limit
    /\ \E mid \in Midpoints(lower, upper), v \in Verifications :
           /\ Verify(mid, v)
           /\ IF AllReached(v)
              THEN upper' = mid /\ evidence' = mid /\ UNCHANGED lower
              ELSE lower' = mid /\ UNCHANGED <<upper, evidence>>
    /\ iterations' = iterations + 1
    /\ spc' = IF upper' - lower' <= tolerance THEN "check" ELSE "loop"
    /\ UNCHANGED <<input, scale, verdict>>

\* The loop's own end.
LoopEnds ==
    /\ spc = "loop"
    /\ iterations >= limit
    /\ spc' = "check"
    /\ UNCHANGED <<input, lower, upper, iterations, tested, scale, evidence, verdict>>

\* The bracket is still too wide.
IterationLimit ==
    /\ spc = "check"
    /\ Width > tolerance
    /\ spc' = "done"
    /\ verdict' = "iteration_limit"
    /\ UNCHANGED <<input, lower, upper, iterations, tested, scale, evidence>>

\* Mutants of FinalVerification: an unknown status; the other end of the
\* bracket, not verified again.
BugUnknownStatus ==
    /\ spc = "check"
    /\ Width <= tolerance
    /\ Verify(upper, tested[upper])
    /\ verdict' = "verified"
    /\ scale' = upper
    /\ evidence' = upper
    /\ spc' = "done"
    /\ UNCHANGED <<input, lower, upper, iterations>>

BugReportLower ==
    /\ spc = "check"
    /\ Width <= tolerance
    /\ verdict' = "converged"
    /\ scale' = lower
    /\ spc' = "done"
    /\ UNCHANGED <<input, lower, upper, iterations, tested, evidence>>

\* The upper end is the answer; it is built and verified once more.
FinalVerification ==
    /\ spc = "check"
    /\ Width <= tolerance
    /\ \E v \in Verifications :
           /\ Verify(upper, v)
           /\ verdict' = IF AllReached(v) THEN "converged"
                                          ELSE "final_verification_failed"
    /\ scale' = upper
    /\ evidence' = upper
    /\ spc' = "done"
    /\ UNCHANGED <<input, lower, upper, iterations>>

SolverNext ==
    \/ SolveMaximum \/ Bisect \/ LoopEnds \/ IterationLimit \/ FinalVerification

-----------------------------------------------------------------------------
(* Properties                                                               *)

\* Every target is reached at scale s, as verify_geometry said.
ReachedAt(s) == tested[s] # None /\ \A t \in Targets : tested[s][t] = "reached"

\* Every variable holds a value of its kind.
SolverTypeOK ==
    /\ tolerance \in Nat
    /\ limit \in Nat
    /\ spc \in {"idle", "maximum", "loop", "check", "done"}
    /\ lower \in Scales /\ upper \in Scales
    /\ iterations \in 0..limit
    /\ tested \in [Scales -> Verifications \cup {None}]
    /\ scale \in Scales
    /\ evidence \in Scales \cup {None}
    /\ verdict \in Statuses \cup {None}

\* The loop's invariant: the upper end reaches every target, the lower end
\* fails one, unless it is the untried 0, however often a midpoint rounds to an
\* end and although reachability need not be monotone.
Bracketed ==
    spc \in {"loop", "check"} =>
        /\ lower <= upper
        /\ ReachedAt(upper) /\ evidence = upper
        /\ lower = 0 \/ (tested[lower] # None /\ ~ReachedAt(lower))

\* The last verification repeats one that has succeeded, so the branch
\* final_verification_failed is never taken (verify_geometry is deterministic:
\* docs/engineering/design-calculation.md:53).
FinalVerificationHolds == verdict # "final_verification_failed"

\* Each pass halves the bracket, up to the last bit: after n passes its width
\* is below One / 2^n + 1 grid points.
BracketHalves == (Width - 1) * 2^iterations < One
=============================================================================
