----------------------- MODULE DesignCalculationProofs -----------------------
(***************************************************************************)
(* Proofs about DesignCalculation and the LinkLengthSolver it runs: for    *)
(* every set of documents, grid, set of targets and number of cases.       *)
(*                                                                         *)
(* ContractInv and FirstIssueInv are the inductive invariants of the        *)
(* contract, Bracket and Passes those of the solver, Calculation and        *)
(* Provenance those of the stages around them, Peaks that of the            *)
(* evaluation cases.                                                       *)
(***************************************************************************)
EXTENDS DesignCalculation, InputContractProofs, FiniteSetTheorems, FunctionTheorems

\* The lower end of the bracket fails a target, or was never tried.
LowerFails == lower = 0 \/ (tested[lower] # None /\ ~ReachedAt(lower))

Bracket ==
    /\ SolverTypeOK
    /\ Bracketed
    /\ spc \in {"idle", "maximum"} => lower = 0 /\ upper = One /\ iterations = 0
    /\ spc # "done" <=> verdict = None
    /\ verdict = "converged" =>
           /\ ReachedAt(upper) /\ LowerFails
           /\ scale = upper /\ evidence = upper
           /\ upper - lower <= tolerance
    /\ verdict = "maximum_geometry_unreachable" =>
           evidence = One /\ tested[One] # None /\ ~ReachedAt(One)
    /\ FinalVerificationHolds

Calculation ==
    /\ stage \in {"parse", "solve", "dynamics", "done"}
    /\ stage # "done" => report = None
    /\ stage = "dynamics" => verdict = "converged"
    /\ stage = "parse" => spc = "idle" /\ verdict = None
    /\ report # None /\ report.status = "success" => verdict = "converged"

\* Every result but invalid_input is about an accepted document and made with
\* its settings.
Settled == outcome = "accepted" /\ tolerance = parsed.tolerance /\ limit = parsed.optimization
Provenance ==
    /\ report = None <=> stage # "done"
    /\ stage \in {"solve", "dynamics"} => Settled
    /\ stage = "done" =>
           IF report.status = "invalid_input" THEN outcome = "rejected" ELSE Settled

Reported ==
    /\ report = None \/ report \in Reports
    /\ CoverageFits

Peaks ==
    /\ values \in Seq(Magnitudes) /\ Len(values) <= NumCases
    /\ peak \in [value : 0..Inf, case : 1..NumCases \cup {None}]
    /\ peak.case # None => peak.case \in 1..Len(values)
    /\ peak.case = None => peak.value = 0
    /\ PeakRetainsItsCase

-----------------------------------------------------------------------------
(* Lemmas about the operators                                               *)

\* A midpoint lies between the ends, on the grid.
LEMMA MidpointBetween ==
    ASSUME NEW l \in Int, NEW u \in Int, l <= u, NEW m \in Midpoints(l, u)
    PROVE  m \in Int /\ l <= m /\ m <= u
  BY DEF Midpoints

\* A verification is remembered, and those made before are not changed.
LEMMA VerifyRemembers ==
    ASSUME SolverTypeOK, NEW s \in Scales, NEW v \in Verifications, Verify(s, v)
    PROVE  /\ tested' \in [Scales -> Verifications \cup {None}]
           /\ tested'[s] = v /\ v # None
           /\ \A r \in Scales : tested[r] # None => tested'[r] = tested[r]
           /\ tested[s] # None => v = tested[s]
  BY VerificationAssumption DEF SolverTypeOK, Verify

-----------------------------------------------------------------------------
(* The solver                                                               *)

LEMMA BracketInit == SolverInit => Bracket
  <1> SUFFICES ASSUME SolverInit PROVE Bracket
    OBVIOUS
  <1>1. SolverTypeOK
    BY SolverAssumption DEF SolverInit, SolverTypeOK, Scales
  <1> QED
    BY <1>1, SolverAssumption DEF Statuses, SolverInit, Bracket, Bracketed, FinalVerificationHolds

\* An accepted document gives the solver natural numbers.
LEMMA BracketStart ==
    ASSUME Bracket, ContractInv, outcome = "accepted",
           StartSolver(parsed.tolerance, parsed.optimization)
    PROVE  Bracket' /\ verdict' = None
  <1>1. tolerance' \in Nat /\ limit' \in Nat
    <2>1. LimitsRead
      BY DEF ContractInv
    <2>2. tolerance' = parsed.tolerance /\ limit' = parsed.optimization
      BY DEF StartSolver
    <2>3. parsed.tolerance \in Nat /\ parsed.optimization \in 1..MaxOptimization
      BY <2>1 DEF LimitsRead, LimitsBound
    <2> QED
      BY <2>2, <2>3, ContractAssumption
  <1>2. /\ SolverTypeOK /\ spc = "idle" /\ spc' = "maximum" /\ verdict = None /\ iterations = 0
        /\ UNCHANGED <<lower, upper, iterations, tested, scale, evidence, verdict>>
    BY DEF Bracket, StartSolver
  <1>3. SolverTypeOK'
    BY <1>1, <1>2 DEF SolverTypeOK
  <1> QED
    BY <1>2, <1>3, SolverAssumption DEF Bracket, Bracketed, FinalVerificationHolds, Statuses

LEMMA BracketStep ==
    ASSUME Bracket, SolverNext
    PROVE  Bracket'
  <1> USE DEF LowerFails, FinalVerificationHolds, Statuses
  <1>0. SolverTypeOK
    BY DEF Bracket
  <1>1. CASE SolveMaximum
    <2>1. PICK v \in Verifications :
              /\ Verify(One, v)
              /\ IF AllReached(v)
                 THEN spc' = "loop" /\ UNCHANGED verdict
                 ELSE spc' = "done" /\ verdict' = "maximum_geometry_unreachable"
      BY <1>1 DEF SolveMaximum
    <2>2. One \in Scales /\ 0 \in Scales
      BY SolverAssumption DEF Scales
    <2>3. /\ tested' \in [Scales -> Verifications \cup {None}]
          /\ tested'[One] = v /\ v # None
      BY <1>0, <2>1, <2>2, VerifyRemembers
    <2>4. SolverTypeOK'
      BY <1>0, <1>1, <2>1, <2>2, <2>3 DEF SolveMaximum, SolverTypeOK, input
    <2>5. lower' = 0 /\ upper' = One /\ evidence' = One /\ iterations' = 0
      BY <1>1 DEF SolveMaximum, Bracket
    <2>6. Bracketed'
      BY <2>1, <2>2, <2>3, <2>5, SolverAssumption
         DEF Bracketed, ReachedAt, AllReached, Scales
    <2> QED
      BY <1>1, <2>1, <2>3, <2>4, <2>5, <2>6, SolverAssumption
         DEF Bracket, SolveMaximum, ReachedAt, AllReached
  <1>2. CASE Bisect
    <2>1. PICK mid \in Midpoints(lower, upper), v \in Verifications :
              /\ Verify(mid, v)
              /\ IF AllReached(v)
                 THEN upper' = mid /\ evidence' = mid /\ UNCHANGED lower
                 ELSE lower' = mid /\ UNCHANGED <<upper, evidence>>
      BY <1>2 DEF Bisect
    <2>2. /\ lower \in Int /\ upper \in Int /\ lower <= upper
          /\ lower \in Scales /\ upper \in Scales
          /\ ReachedAt(upper) /\ evidence = upper
          /\ lower = 0 \/ (tested[lower] # None /\ ~ReachedAt(lower))
      BY <1>0, <1>2 DEF Bracket, Bracketed, SolverTypeOK, Bisect, Scales
    <2>3. mid \in Scales /\ lower <= mid /\ mid <= upper
      BY <2>1, <2>2, MidpointBetween, SolverAssumption DEF Scales
    <2>4. /\ tested' \in [Scales -> Verifications \cup {None}]
          /\ tested'[mid] = v /\ v # None
          /\ \A r \in Scales : tested[r] # None => tested'[r] = tested[r]
      BY <1>0, <2>1, <2>3, VerifyRemembers
    <2>5. SolverTypeOK'
      <3>1. lower' \in Scales /\ upper' \in Scales /\ evidence' \in Scales
        BY <2>1, <2>2, <2>3
      <3>2. iterations' \in 0..limit /\ tolerance' = tolerance /\ limit' = limit
        BY <1>0, <1>2 DEF SolverTypeOK, Bisect, input
      <3> QED
        BY <1>0, <1>2, <2>4, <3>1, <3>2 DEF SolverTypeOK, Bisect
    <2>6. Bracketed'
      <3>1. CASE AllReached(v)
        <4>1. upper' = mid /\ evidence' = mid /\ lower' = lower
          BY <2>1, <3>1
        <4>2. ReachedAt(mid)'
          BY <2>4, <3>1, <4>1 DEF ReachedAt, AllReached
        <4>3. tested[lower] # None => tested'[lower] = tested[lower]
          BY <2>2, <2>4
        <4> QED
          BY <2>2, <2>3, <4>1, <4>2, <4>3 DEF Bracketed, ReachedAt
      <3>2. CASE ~AllReached(v)
        <4>1. lower' = mid /\ upper' = upper /\ evidence' = evidence
          BY <2>1, <3>2
        <4>2. tested'[mid] # None /\ ~ReachedAt(mid)'
          BY <2>4, <3>2, <4>1 DEF ReachedAt, AllReached
        <4>3. tested'[upper] = tested[upper]
          BY <2>2, <2>4 DEF ReachedAt
        <4> QED
          BY <2>2, <2>3, <4>1, <4>2, <4>3 DEF Bracketed, ReachedAt
      <3> QED
        BY <3>1, <3>2
    <2> QED
      BY <1>2, <2>5, <2>6, SolverAssumption DEF Bracket, Bisect
  <1>3. CASE LoopEnds
    BY <1>3 DEF LoopEnds, Bracket, SolverTypeOK, Bracketed, ReachedAt, input
  <1>4. CASE IterationLimit
    BY <1>4, SolverAssumption DEF IterationLimit, Bracket, SolverTypeOK, Bracketed, ReachedAt, input
  <1>5. CASE FinalVerification
    <2>1. PICK v \in Verifications :
              /\ Verify(upper, v)
              /\ verdict' = IF AllReached(v) THEN "converged"
                                             ELSE "final_verification_failed"
      BY <1>5 DEF FinalVerification
    <2>2. /\ upper \in Scales /\ lower \in Scales
          /\ ReachedAt(upper) /\ LowerFails
      BY <1>5 DEF Bracket, Bracketed, SolverTypeOK, FinalVerification
    <2>3. /\ tested' \in [Scales -> Verifications \cup {None}]
          /\ \A r \in Scales : tested[r] # None => tested'[r] = tested[r]
          /\ v = tested[upper]
      BY <1>0, <2>1, <2>2, VerifyRemembers DEF ReachedAt
    <2>4. AllReached(v)
      BY <2>2, <2>3 DEF ReachedAt, AllReached
    <2>5. SolverTypeOK'
      BY <1>0, <1>5, <2>1, <2>2, <2>3 DEF SolverTypeOK, FinalVerification, input
    <2>6. upper' = upper /\ lower' = lower /\ tolerance' = tolerance
      BY <1>5 DEF FinalVerification, input
    <2>7. ReachedAt(upper)' /\ LowerFails'
      BY <2>2, <2>3, <2>6 DEF ReachedAt
    <2> QED
      BY <1>5, <2>1, <2>4, <2>5, <2>6, <2>7, SolverAssumption
         DEF Bracket, Bracketed, FinalVerification, Width
  <1> QED
    BY <1>1, <1>2, <1>3, <1>4, <1>5 DEF SolverNext

LEMMA BracketStutter ==
    ASSUME Bracket, UNCHANGED solverVars
    PROVE  Bracket'
  BY DEF Bracket, SolverTypeOK, Bracketed, LowerFails, ReachedAt,
         FinalVerificationHolds, solverVars

-----------------------------------------------------------------------------
(* How fast the bracket shrinks                                             *)

\* The provers know no powers; the library knows how many subsets a set has.
Subsets(n) == SUBSET (1..n)

LEMMA PowerIsCount ==
    ASSUME NEW n \in Nat
    PROVE  IsFiniteSet(Subsets(n)) /\ Cardinality(Subsets(n)) = 2^n
  <1>1. IsFiniteSet(1..n) /\ Cardinality(1..n) = n
    BY FS_Interval
  <1> QED
    BY <1>1, FS_SUBSET DEF Subsets

\* One element more: each subset with it and without it.
LEMMA PowerDoubles ==
    ASSUME NEW n \in Nat
    PROVE  2^(n + 1) = 2 * 2^n /\ 2^n \in Nat \ {0}
  <1> DEFINE With == {x \cup {n + 1} : x \in Subsets(n)}
             add  == [x \in Subsets(n) |-> x \cup {n + 1}]
  <1>1. Subsets(n + 1) = Subsets(n) \cup With
    <2>1. 1..(n + 1) = (1..n) \cup {n + 1}
      OBVIOUS
    <2>2. ASSUME NEW y \in Subsets(n + 1) PROVE y \in Subsets(n) \cup With
      <3>1. CASE n + 1 \in y
        <4>1. y \ {n + 1} \in Subsets(n) /\ y = (y \ {n + 1}) \cup {n + 1}
          BY <2>1, <3>1 DEF Subsets
        <4> QED
          BY <4>1
      <3>2. CASE n + 1 \notin y
        BY <2>1, <3>2 DEF Subsets
      <3> QED
        BY <3>1, <3>2
    <2>3. ASSUME NEW x \in Subsets(n) PROVE x \in Subsets(n + 1) /\ x \cup {n + 1} \in Subsets(n + 1)
      BY <2>1 DEF Subsets
    <2> QED
      BY <2>2, <2>3
  <1>2. Subsets(n) \cap With = {}
    BY DEF Subsets
  <1>3. add \in Bijection(Subsets(n), With)
    <2>1. \A x \in Subsets(n) : n + 1 \notin x
      BY DEF Subsets
    <2>2. add \in [Subsets(n) -> With]
      OBVIOUS
    <2>3. ASSUME NEW a \in Subsets(n), NEW b \in Subsets(n), add[a] = add[b]
          PROVE  a = b
      <3>1. a = (a \cup {n + 1}) \ {n + 1} /\ b = (b \cup {n + 1}) \ {n + 1}
        BY <2>1
      <3> QED
        BY <2>3, <3>1
    <2>4. \A y \in With : \E x \in Subsets(n) : add[x] = y
      OBVIOUS
    <2> HIDE DEF add, With
    <2> QED
      BY <2>2, <2>3, <2>4, Fun_IsBij
  <1>4. IsFiniteSet(Subsets(n)) /\ Cardinality(Subsets(n)) = 2^n
    BY PowerIsCount
  <1>5. IsFiniteSet(With) /\ Cardinality(With) = Cardinality(Subsets(n))
    BY <1>3, <1>4, FS_Bijection, Fun_ExistsBij
  <1>6. Cardinality(Subsets(n + 1)) = 2^(n + 1)
    <2>1. n + 1 \in Nat
      OBVIOUS
    <2> QED
      BY <2>1, PowerIsCount
  <1>7. Cardinality(Subsets(n) \cup With) = Cardinality(Subsets(n)) + Cardinality(With)
    <2> HIDE DEF With
    <2>1. Cardinality(Subsets(n)) \in Nat /\ Cardinality(With) \in Nat
      BY <1>4, <1>5, FS_CardinalityType
    <2>2. Cardinality(Subsets(n) \cap With) = 0
      BY <1>2, FS_EmptySet
    <2>3. Cardinality(Subsets(n) \cup With) = Cardinality(Subsets(n)) + Cardinality(With)
                                            - Cardinality(Subsets(n) \cap With)
      BY <1>4, <1>5, FS_Union
    <2> QED
      BY <2>1, <2>2, <2>3
  <1>8. Cardinality(Subsets(n)) \in Nat \ {0}
    <2>1. {} \in Subsets(n)
      BY DEF Subsets
    <2> QED
      BY <1>4, <2>1, FS_CardinalityType, FS_EmptySet
  <1>9. 2^n \in Nat \ {0}
    BY <1>4, <1>8
  <1>10. 2^(n + 1) = 2^n + 2^n
    <2> HIDE DEF With
    <2> QED
      BY <1>1, <1>4, <1>5, <1>6, <1>7
  <1> QED
    BY <1>9, <1>10

LEMMA PowerZero == 2^0 = 1
  <1>1. 1..0 = {}
    OBVIOUS
  <1>2. Subsets(0) = {{}}
    BY <1>1 DEF Subsets
  <1>3. Cardinality(Subsets(0)) = 1
    BY <1>2, FS_Singleton
  <1> QED
    BY <1>3, PowerIsCount

\* Rounding costs a midpoint at most half a grid point.
LEMMA MidpointHalves ==
    ASSUME NEW l \in Int, NEW u \in Int, NEW m \in Midpoints(l, u)
    PROVE  2 * (u - m - 1) <= u - l - 1 /\ 2 * (m - l - 1) <= u - l - 1
  BY DEF Midpoints

LEMMA HalvesInit == SolverInit => BracketHalves
  BY PowerZero, SolverAssumption DEF SolverInit, BracketHalves, Width

\* A pass of the loop halves what exceeds one grid point, and doubles the power.
LEMMA HalvesStep ==
    ASSUME Bracket, BracketHalves, SolverNext
    PROVE  BracketHalves'
  <1>1. CASE Bisect
    <2>1. PICK mid \in Midpoints(lower, upper) :
              \/ upper' = mid /\ lower' = lower
              \/ lower' = mid /\ upper' = upper
      BY <1>1 DEF Bisect
    <2>2. /\ lower \in Int /\ upper \in Int /\ iterations \in Nat /\ One \in Int
      BY SolverAssumption DEF Bracket, SolverTypeOK, Scales
    <2>3. mid \in Int
      BY <2>2 DEF Midpoints
    <2> DEFINE w == Width - 1
               v == Width' - 1
               p == 2^iterations
    <2>4. /\ v \in Int /\ w \in Int /\ 2 * v <= w
      BY <2>1, <2>2, <2>3, MidpointHalves DEF Width
    <2>5. p \in Nat \ {0} /\ 2^(iterations + 1) = 2 * p
      BY <2>2, PowerDoubles
    <2>6. w * p < One
      BY DEF BracketHalves
    <2> HIDE DEF w, v, p
    <2>7. v * (2 * p) < One
      <3>1. v * (2 * p) = (2 * v) * p
        BY <2>4, <2>5
      <3>2. (2 * v) * p <= w * p
        BY <2>4, <2>5
      <3> QED
        BY <2>2, <2>4, <2>5, <2>6, <3>1, <3>2
    <2>8. iterations' = iterations + 1
      BY <1>1 DEF Bisect
    <2> QED
      BY <2>5, <2>7, <2>8 DEF BracketHalves, v
  <1>2. CASE UNCHANGED <<lower, upper, iterations>>
    BY <1>2 DEF BracketHalves, Width
  <1> QED
    BY <1>1, <1>2 DEF SolverNext, SolveMaximum, LoopEnds, IterationLimit, FinalVerification

\* Whoever leaves the loop with too wide a bracket has used up the passes.
Exhausted ==
    spc = "check" \/ verdict = "iteration_limit" =>
        Width <= tolerance \/ iterations = limit

\* What an iteration limit that was reported says: the tolerance asked for is
\* finer than what so many halvings of [0, 1] give.
LimitTooLow == verdict = "iteration_limit" => tolerance * 2^limit < One

Passes ==
    /\ BracketHalves /\ Exhausted
    /\ verdict = "iteration_limit" => Width > tolerance

LEMMA PassesStep ==
    ASSUME Bracket, Passes, SolverNext
    PROVE  Passes'
  <1> USE DEF Exhausted, Width
  <1>1. BracketHalves'
    BY HalvesStep DEF Passes
  <1>2. lower \in Int /\ upper \in Int /\ tolerance \in Nat /\ iterations \in 0..limit
    BY SolverAssumption DEF Bracket, SolverTypeOK, Scales
  <1>3. (Exhausted /\ (verdict = "iteration_limit" => Width > tolerance))'
    <2>1. CASE SolveMaximum
      BY <2>1, SolverAssumption DEF SolveMaximum, Bracket, Passes, input, Statuses
    <2>2. CASE Bisect
      BY <2>2, SolverAssumption DEF Bisect, Bracket, Passes, input, Statuses
    <2>3. CASE LoopEnds
      <3>1. limit \in Nat /\ iterations >= limit /\ UNCHANGED <<iterations, limit, verdict>>
        BY <2>3 DEF LoopEnds, input, Bracket, SolverTypeOK
      <3>2. iterations' = limit'
        BY <1>2, <3>1
      <3>3. verdict' # "iteration_limit"
        BY <2>3, <3>1, SolverAssumption DEF LoopEnds, Bracket, Statuses
      <3> QED
        BY <3>2, <3>3
    <2>4. CASE IterationLimit
      BY <2>4 DEF IterationLimit, Passes, input
    <2>5. CASE FinalVerification
      BY <2>5 DEF FinalVerification, input
    <2> QED
      BY <2>1, <2>2, <2>3, <2>4, <2>5 DEF SolverNext
  <1> QED
    BY <1>1, <1>3 DEF Passes

LEMMA LimitFromPasses ==
    ASSUME Bracket, Passes
    PROVE  LimitTooLow
  <1> SUFFICES ASSUME verdict = "iteration_limit" PROVE tolerance * 2^limit < One
    BY DEF LimitTooLow
  <1>1. /\ lower \in Int /\ upper \in Int /\ tolerance \in Nat /\ limit \in Nat
        /\ One \in Int
    BY SolverAssumption DEF Bracket, SolverTypeOK, Scales
  <1>2. Width \in Int /\ tolerance <= Width - 1 /\ iterations = limit
    BY <1>1 DEF Passes, Exhausted, Width
  <1>3. 2^limit \in Nat \ {0} /\ (Width - 1) * 2^limit < One
    BY <1>1, <1>2, PowerDoubles DEF Passes, BracketHalves
  <1>4. tolerance * 2^limit <= (Width - 1) * 2^limit
    <2> DEFINE p == 2^limit
               w == Width - 1
    <2>1. p \in Nat /\ w \in Int /\ tolerance <= w
      BY <1>2, <1>3
    <2> HIDE DEF p, w
    <2>2. tolerance * p <= w * p
      BY <1>1, <2>1
    <2> QED
      BY <2>2 DEF p, w
  <1> QED
    BY <1>1, <1>2, <1>3, <1>4

-----------------------------------------------------------------------------
(* The stages                                                               *)

LEMMA CalculationStep ==
    ASSUME ContractInv, Bracket, Calculation, [Next]_vars
    PROVE  Bracket' /\ Calculation'
  <1>1. CASE Solve
    <2>1. Bracket'
      BY <1>1, BracketStep DEF Solve
    <2>2. verdict = None
      BY <1>1 DEF Solve, SolverNext, SolveMaximum, Bisect, LoopEnds, IterationLimit,
                  FinalVerification, Bracket
    <2> QED
      BY <1>1, <2>1, <2>2 DEF Solve, Calculation
  <1>2. CASE UNCHANGED vars
    <2>1. Bracket'
      BY <1>2, BracketStutter DEF vars
    <2> QED
      BY <1>2, <2>1 DEF vars, solverVars, Calculation
  <1>3. ASSUME UNCHANGED solverVars PROVE Bracket' /\ verdict' = verdict /\ spc' = spc
    BY <1>3, BracketStutter DEF solverVars
  <1>4. CASE RejectInput
    BY <1>3, <1>4 DEF RejectInput, Finish, Calculation
  <1>5. CASE AcceptInput
    BY <1>5, BracketStart DEF AcceptInput, Calculation
  <1>6. CASE ReportUnreachable
    BY <1>3, <1>6 DEF ReportUnreachable, Finish, Calculation
  <1>7. CASE ReportNotConverged
    BY <1>3, <1>7 DEF ReportNotConverged, Finish, Calculation
  <1>8. CASE BeginDynamics
    BY <1>3, <1>8 DEF BeginDynamics, Calculation
  <1>9. CASE EvaluateCase
    BY <1>3, <1>9 DEF EvaluateCase, Calculation
  <1>10. CASE ReportSuccess
    BY <1>3, <1>10 DEF ReportSuccess, Finish, Calculation
  <1>11. CASE ReadInput
    BY <1>3, <1>11 DEF ReadInput, Calculation
  <1> QED
    BY <1>1, <1>2, <1>4, <1>5, <1>6, <1>7, <1>8, <1>9, <1>10, <1>11 DEF Next

\* A set of reached targets is counted by a number up to that of all targets,
\* which it has only if it is all of them.
LEMMA ReachedCount ==
    ASSUME NEW R \in SUBSET Targets
    PROVE  /\ Cardinality(R) \in 0..Cardinality(Targets)
           /\ Cardinality(R) = Cardinality(Targets) => R = Targets
  <1>1. IsFiniteSet(Targets)
    BY CalculationAssumption
  <1>2. /\ IsFiniteSet(R) /\ Cardinality(R) <= Cardinality(Targets)
        /\ Cardinality(Targets) = Cardinality(R) => Targets = R
    BY <1>1, FS_Subset
  <1>3. Cardinality(R) \in Nat /\ Cardinality(Targets) \in Nat
    BY <1>1, <1>2, FS_CardinalityType
  <1> QED
    BY <1>2, <1>3

\* What is reported fits the verifications it was made from.
LEMMA ReportedStep ==
    ASSUME Bracket, Calculation, Reported, [Next]_vars
    PROVE  Reported'
  <1> DEFINE reached(v) == {t \in Targets : v[t] = "reached"}
  <1>1. CASE ReadInput \/ Solve \/ AcceptInput \/ BeginDynamics \/ EvaluateCase
    <2>1. report = None /\ report' = None
      BY <1>1 DEF ReadInput, Solve, AcceptInput, BeginDynamics, EvaluateCase, Calculation
    <2> QED
      BY <2>1 DEF Reported, CoverageFits
  <1>2. CASE UNCHANGED vars
    BY <1>2 DEF vars, solverVars, Reported, CoverageFits
  <1>3. CASE RejectInput
    BY <1>3 DEF RejectInput, Finish, Reported, CoverageFits, Reports, Checks,
                SuccessChecks
  <1>4. CASE ReportNotConverged
    BY <1>4 DEF ReportNotConverged, Finish, Reported, CoverageFits, Reports, Checks,
                SuccessChecks
  <1>5. CASE ReportUnreachable
    <2>1. /\ evidence' = One /\ tested' = tested
          /\ reached(tested[One]) # Targets
      BY <1>5 DEF ReportUnreachable, Bracket, ReachedAt, solverVars
    <2>2. /\ report'.reached = Cardinality(reached(tested[One]))
          /\ report' \in Reports
          /\ report'.status # "success"
      BY <1>5, ReachedCount
         DEF ReportUnreachable, Finish, Reports, Checks, SuccessChecks
    <2> QED
      BY <2>1, <2>2, ReachedCount DEF Reported, CoverageFits
  <1>6. CASE ReportSuccess
    <2>1. reached(tested[evidence]) = Targets /\ evidence' = evidence /\ tested' = tested
      BY <1>6 DEF ReportSuccess, Calculation, Bracket, ReachedAt, solverVars
    <2>2. /\ report'.reached = Cardinality(Targets)
          /\ report'.status = "success"
          /\ report' \in Reports
      BY <1>6, ReachedCount DEF ReportSuccess, Finish, Reports, Checks, SuccessChecks
    <2> QED
      BY <2>1, <2>2 DEF Reported, CoverageFits
  <1> QED
    BY <1>1, <1>2, <1>3, <1>4, <1>5, <1>6 DEF Next

LEMMA FinishedReport ==
    ASSUME NEW status \in {"invalid_input", "infeasible", "non_converged", "success"},
           NEW passed \in SUBSET Checks, NEW failed \in SUBSET Checks,
           NEW reached \in 0..Cardinality(Targets) \cup {None}, NEW finite \in BOOLEAN,
           Finish(status, passed, failed, reached, finite)
    PROVE  report' # None /\ report'.status = status /\ stage' = "done"
  <1>1. report' \in Reports
    BY DEF Finish, Reports
  <1> QED
    BY <1>1, ReportAssumption DEF Finish

LEMMA ProvenanceStep ==
    ASSUME Provenance, [Next]_vars
    PROVE  Provenance'
  <1>1. CASE ReadInput
    BY <1>1 DEF ReadInput, Provenance
  <1>2. CASE RejectInput
    <2>1. {"design_input_contract"} \in SUBSET Checks /\ {} \in SUBSET Checks
      BY DEF Checks, SuccessChecks
    <2>2. report' # None /\ report'.status = "invalid_input" /\ stage' = "done"
      BY <1>2, <2>1, FinishedReport DEF RejectInput
    <2>3. outcome' = "rejected"
      BY <1>2 DEF RejectInput, contractVars
    <2> QED
      BY <2>2, <2>3 DEF Provenance
  <1>3. CASE AcceptInput
    BY <1>3 DEF AcceptInput, StartSolver, Provenance, Settled, contractVars
  <1>4. CASE Solve
    <2>1. UNCHANGED <<contractVars, stage, report, tolerance, limit>>
      BY <1>4 DEF Solve, SolverNext, SolveMaximum, Bisect, LoopEnds, IterationLimit,
                  FinalVerification, input
    <2> QED
      BY <2>1 DEF Provenance, Settled, contractVars
  <1>5. CASE ReportUnreachable \/ ReportNotConverged \/ ReportSuccess
    <2>1. UNCHANGED <<contractVars, tolerance, limit>> /\ stage \in {"solve", "dynamics"}
      BY <1>5 DEF ReportUnreachable, ReportNotConverged, ReportSuccess, solverVars, input
    <2>2. /\ report' # None /\ stage' = "done"
          /\ report'.status # "invalid_input"
      <3>1. {"design_input_contract", "finite_outputs", "workspace_coverage",
             "optimizer_convergence"} \subseteq Checks /\ SuccessChecks \subseteq Checks
        BY DEF Checks, SuccessChecks
      <3>2. /\ \A R \in SUBSET Targets : Cardinality(R) \in 0..Cardinality(Targets)
            /\ Cardinality(Targets) \in 0..Cardinality(Targets)
        BY ReachedCount
      <3>3. CASE ReportUnreachable
        <4> DEFINE v == tested[One]
                   reached == {t \in Targets : v[t] = "reached"}
        <4>1. PICK status \in {"infeasible", "non_converged"} :
                  Finish(status, {"design_input_contract", "finite_outputs"},
                         {"workspace_coverage"}, Cardinality(reached),
                         \A t \in Targets : v[t] # "unmeasured")
          BY <3>3 DEF ReportUnreachable
        <4>2. Cardinality(reached) \in 0..Cardinality(Targets) \cup {None}
          BY <3>2
        <4> HIDE DEF reached, v
        <4> QED
          BY <3>1, <4>1, <4>2, FinishedReport
      <3>4. CASE ReportNotConverged
        <4>1. PICK failed \in SUBSET Checks :
                  Finish("non_converged", {"design_input_contract"}, failed, None, TRUE)
          BY <3>1, <3>4 DEF ReportNotConverged
        <4> QED
          BY <3>1, <4>1, FinishedReport
      <3>5. CASE ReportSuccess
        <4>1. PICK finite \in BOOLEAN :
                  Finish("success", SuccessChecks, {}, Cardinality(Targets), finite)
          BY <3>5 DEF ReportSuccess
        <4> QED
          BY <3>1, <3>2, <4>1, FinishedReport
      <3> QED
        BY <1>5, <3>3, <3>4, <3>5
    <2> QED
      BY <2>1, <2>2 DEF Provenance, Settled, contractVars
  <1>6. CASE BeginDynamics \/ EvaluateCase
    <2>1. /\ UNCHANGED <<contractVars, report, tolerance, limit>>
          /\ stage \in {"solve", "dynamics"} /\ stage' = "dynamics"
      BY <1>6 DEF BeginDynamics, EvaluateCase, solverVars, input
    <2> QED
      BY <2>1 DEF Provenance, Settled, contractVars
  <1>7. CASE UNCHANGED vars
    BY <1>7 DEF vars, solverVars, input, contractVars, Provenance, Settled
  <1> QED
    BY <1>1, <1>2, <1>3, <1>4, <1>5, <1>6, <1>7 DEF Next

-----------------------------------------------------------------------------
(* The evaluation cases                                                     *)

\* One case keeps the peak at the greatest comparable magnitude so far.
LEMMA PeaksStep ==
    ASSUME Peaks, [Next]_vars
    PROVE  Peaks'
  <1>1. CASE EvaluateCase
    <2> DEFINE n == Len(values) + 1
    <2>1. PICK v \in Magnitudes : values' = Append(values, v) /\ peak' = Peak(peak, v, n)
      BY <1>1 DEF EvaluateCase
    <2>2. /\ n \in 1..NumCases /\ n # None
          /\ values' \in Seq(Magnitudes) /\ Len(values') = n
          /\ values'[n] = v
          /\ \A c \in 1..Len(values) : values'[c] = values[c]
      BY <1>1, <2>1, SolverAssumption, CalculationAssumption DEF EvaluateCase, Peaks
    <2>3. \A m \in Magnitudes : m = NaN \/ m \in 0..Inf
      BY DEF Magnitudes
    <2>4. Inf \in Nat /\ NaN = -1
      BY CalculationAssumption DEF Inf, NaN
    <2>5. CASE AtLeast(v, peak.value)
      <3>1. peak' = [value |-> v, case |-> n] /\ v \in 0..Inf /\ v >= peak.value
        BY <2>1, <2>3, <2>5 DEF Peak, AtLeast
      <3>2. \A c \in 1..n : values'[c] # NaN => v >= values'[c]
        <4>1. peak.value \in Int /\ \A c \in 1..Len(values) : values[c] \in Int
          BY <2>3, <2>4 DEF Peaks
        <4>2. \A c \in 1..Len(values) : values[c] # NaN => v >= values[c]
          BY <3>1, <4>1 DEF Peaks, PeakRetainsItsCase
        <4>3. \A c \in 1..n : c = n \/ c \in 1..Len(values)
          BY <2>2 DEF Peaks
        <4> QED
          BY <2>2, <3>1, <4>2, <4>3
      <3> QED
        BY <2>2, <3>1, <3>2 DEF Peaks, PeakRetainsItsCase
    <2>6. CASE ~AtLeast(v, peak.value)
      <3>1. peak' = peak /\ (v # NaN => v < peak.value)
        BY <2>1, <2>3, <2>4, <2>6 DEF Peak, AtLeast, Peaks
      <3>2. v # NaN => peak.case # None
        BY <2>3, <2>4, <3>1 DEF Peaks
      <3> QED
        BY <2>2, <2>3, <2>4, <3>1, <3>2 DEF Peaks, PeakRetainsItsCase
    <2> QED
      BY <2>5, <2>6
  <1>2. CASE UNCHANGED caseVars
    BY <1>2 DEF caseVars, Peaks, PeakRetainsItsCase
  <1> QED
    BY <1>1, <1>2 DEF Next, vars, ReadInput, Solve, AcceptInput, RejectInput, ReportUnreachable,
                     ReportNotConverged, BeginDynamics, ReportSuccess

-----------------------------------------------------------------------------
(* The theorems                                                             *)

\* Seen from the solver, a step starts it, is one of its own or leaves it alone.
LEMMA PassesKept ==
    ASSUME Bracket, Passes, [Next]_vars
    PROVE  Passes'
  <1>1. CASE Solve
    BY <1>1, PassesStep DEF Solve
  <1>2. CASE AcceptInput
    <2>1. UNCHANGED <<lower, upper, iterations, verdict>> /\ verdict = None /\ spc' = "maximum"
      BY <1>2 DEF AcceptInput, StartSolver, Bracket
    <2> QED
      BY <2>1, SolverAssumption DEF Passes, BracketHalves, Exhausted, Width, Statuses
  <1>3. CASE UNCHANGED solverVars
    BY <1>3 DEF solverVars, Passes, BracketHalves, Exhausted, Width
  <1> QED
    BY <1>1, <1>2, <1>3 DEF Next, vars, ReadInput, RejectInput, ReportUnreachable,
       ReportNotConverged, BeginDynamics, EvaluateCase, ReportSuccess

\* Seen from the contract, a step reads on or leaves it alone.
LEMMA ContractKept ==
    ASSUME ContractInv, FirstIssueInv, [Next]_vars
    PROVE  ContractInv' /\ FirstIssueInv'
  <1>1. CASE ReadInput
    BY <1>1, ContractStep, FirstIssueStep DEF ReadInput
  <1>2. CASE UNCHANGED contractVars
    BY <1>2, ContractStutter, FirstIssueStutter
  <1> QED
    BY <1>1, <1>2 DEF Next, vars, Solve, AcceptInput, RejectInput, ReportUnreachable,
                     ReportNotConverged, BeginDynamics, EvaluateCase, ReportSuccess

DesignInv ==
    /\ ContractInv /\ FirstIssueInv
    /\ Bracket /\ Passes
    /\ Calculation /\ Provenance /\ Reported
    /\ Peaks

LEMMA DesignInvariant == Spec => []DesignInv
  <1>1. Init => DesignInv
    <2> SUFFICES ASSUME Init PROVE DesignInv
      OBVIOUS
    <2>1. Bracket
      BY BracketInit DEF Init
    <2>2. verdict = None /\ report = None /\ stage = "parse" /\ spc = "idle"
      BY DEF Init, SolverInit
    <2>3. Calculation /\ Reported
      BY <2>2 DEF Calculation, Reported, CoverageFits
    <2>4. Peaks
      BY CalculationAssumption DEF Init, Peaks, PeakRetainsItsCase, Inf, Magnitudes
    <2>5. ContractInv /\ FirstIssueInv
      BY ContractInitial, FirstIssueInitial DEF Init
    <2>6. Passes
      BY <2>2, HalvesInit, SolverAssumption DEF Init, Passes, Exhausted, Statuses
    <2>7. Provenance
      BY <2>2 DEF Provenance
    <2> QED
      BY <2>1, <2>3, <2>4, <2>5, <2>6, <2>7 DEF DesignInv
  <1>2. DesignInv /\ [Next]_vars => DesignInv'
    BY ContractKept, CalculationStep, ProvenanceStep, PassesKept, ReportedStep, PeaksStep
       DEF DesignInv
  <1> QED
    BY <1>1, <1>2, PTL DEF Spec

\* Type correctness: every variable, the result included, holds a value of its
\* kind, whatever the solver and the dynamics produce.
THEOREM DesignTypeCorrect == Spec => []TypeOK
  <1>1. DesignInv => TypeOK
    BY DEF DesignInv, Bracket, Calculation, Reported, Reports, Peaks, TypeOK
  <1> QED
    BY <1>1, DesignInvariant, PTL

\* solve_link_lengths keeps the answer between a scale that reaches every
\* target and one that fails, for every verify_geometry, monotone or not.
THEOREM BracketKept == Spec => []Bracketed
  <1>1. DesignInv => Bracketed
    BY DEF DesignInv, Bracket
  <1> QED
    BY <1>1, DesignInvariant, PTL

\* The final verification of a deterministic verify_geometry cannot fail.
THEOREM FinalVerificationNeverFails == Spec => []FinalVerificationHolds
  <1>1. DesignInv => FinalVerificationHolds
    BY DEF DesignInv, Bracket
  <1> QED
    BY <1>1, DesignInvariant, PTL

\* However the midpoints round, n passes of the loop leave a bracket narrower than
\* One / 2^n + 1 grid points.
THEOREM BracketShrinks == Spec => []BracketHalves
  <1>1. DesignInv => BracketHalves
    BY DEF DesignInv, Passes
  <1> QED
    BY <1>1, DesignInvariant, PTL

\* solve_link_lengths gives up on an iteration limit only if step_tolerance is
\* finer than One / 2^limit: no rounding, and no shape of the reachable set,
\* costs it a pass.
THEOREM IterationLimitIsHonest == Spec => []LimitTooLow
  <1>1. DesignInv => LimitTooLow
    BY LimitFromPasses DEF DesignInv
  <1> QED
    BY <1>1, DesignInvariant, PTL

\* calculate() feeds the dynamics, and reports as a success, only a geometry
\* that was verified, whose evidence is its own, at the reachable end of a
\* bracket no wider than the document's step_tolerance.
THEOREM OnlyVerifiedSucceeds == Spec => []SuccessIsVerified
  <1>1. DesignInv => SuccessIsVerified
    <2> SUFFICES ASSUME DesignInv,
                        stage = "dynamics" \/ (report # None /\ report.status = "success")
                 PROVE  /\ Conforms(doc)
                        /\ ReachedAt(scale)
                        /\ evidence = scale
                        /\ scale - lower <= doc.tolerance
                        /\ lower = 0 \/ ~ReachedAt(lower)
      BY DEF SuccessIsVerified
    <2>1. verdict = "converged"
      BY DEF DesignInv, Calculation
    <2>2. Settled
      BY DEF DesignInv, Provenance
    <2>3. Conforms(doc) /\ tolerance = doc.tolerance
      BY <2>2, VerdictJudged
         DEF DesignInv, ContractInv, LimitsRead, Settled, VerdictIsTheContracts
    <2> QED
      BY <2>1, <2>3 DEF DesignInv, Bracket, LowerFails
  <1> QED
    BY <1>1, DesignInvariant, PTL

\* The coverage that a result of calculate() reports fits its verdict, for
\* every number of targets.
THEOREM CoverageIsHonest == Spec => []CoverageFits
  <1>1. DesignInv => CoverageFits
    BY DEF DesignInv, Reported
  <1> QED
    BY <1>1, DesignInvariant, PTL

\* Every peak of the joint requirements is the greatest comparable magnitude of
\* the evaluated cases and names a case that produced it, NaN and infinity
\* included.
THEOREM PeaksRetainTheirCases == Spec => []PeakRetainsItsCase
  <1>1. DesignInv => PeakRetainsItsCase
    BY DEF DesignInv, Peaks
  <1> QED
    BY <1>1, DesignInvariant, PTL

\* calculate() proceeds only with an input that has one entry per target, a
\* known target for every case and bounded iteration limits, however many
\* targets and cases a document lists and whatever is wrong with it.
THEOREM AcceptedIsUsable == Spec => []AcceptedInputIsUsable
  <1>1. DesignInv => AcceptedInputIsUsable
    BY AcceptedUsable DEF DesignInv
  <1> QED
    BY <1>1, DesignInvariant, PTL

\* No document is accepted or refused because of memory that was never written.
THEOREM GarbageIsIgnored == Spec => []VerdictIgnoresGarbage
  <1>1. DesignInv => VerdictIgnoresGarbage
    BY GarbageNeverDecides DEF DesignInv
  <1> QED
    BY <1>1, DesignInvariant, PTL

\* The first issue that parse_input reports is about the first section that
\* breaks the contract: no comparison with a field an earlier section failed to
\* fill (base_frame, the link ids, the target ids) comes before the reason.
THEOREM FirstIssueIsTheReason == Spec => []FirstIssueIsFirstBreach
  <1>1. DesignInv => FirstIssueIsFirstBreach
    BY FirstBreachNoted DEF DesignInv
  <1> QED
    BY <1>1, DesignInvariant, PTL

\* parse_input decides the contract: it accepts the documents that keep every
\* rule and no other, exceptions aside.
THEOREM ContractIsDecided == Spec => []VerdictIsTheContracts
  <1>1. DesignInv => VerdictIsTheContracts
    BY VerdictJudged DEF DesignInv
  <1> QED
    BY <1>1, DesignInvariant, PTL

\* What a result says of the document: only one that breaks the contract, or
\* whose reading threw, is called invalid; any other result is about one that
\* keeps it.
ResultFitsDocument ==
    report # None =>
        IF report.status = "invalid_input" THEN ~Conforms(doc) \/ Thrown \in issues
                                           ELSE Conforms(doc)

\* From the document to the result of calculate(), through every stage.
THEOREM ResultIsAboutTheDocument == Spec => []ResultFitsDocument
  <1>1. DesignInv => ResultFitsDocument
    <2>1. DesignInv => VerdictIsTheContracts
      BY VerdictJudged DEF DesignInv
    <2> QED
      BY <2>1 DEF DesignInv, Provenance, Settled, VerdictIsTheContracts, ResultFitsDocument
  <1> QED
    BY <1>1, DesignInvariant, PTL
=============================================================================
