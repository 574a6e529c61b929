------------------------- MODULE RequestHandlerProofs -------------------------
(***************************************************************************)
(* Proofs about RequestHandler: for every set of messages and documents.   *)
(*                                                                         *)
(* handle_message implements the calculation, so the theorems of            *)
(* DesignCalculationProofs hold of it.  Sorting is the inductive invariant  *)
(* that ties what accept() saw to what handle_message does (by the lemma that *)
(* the two copies of the rule on request ids agree), Replied the one        *)
(* that ties the answer to the result of the calculation.                   *)
(***************************************************************************)
EXTENDS RequestHandler, DesignCalculationProofs

\* What handle_message takes for a request's id.
Identified == message.object /\ HandlerIdIsValid(message)

\* The two copies of the rule on request ids agree.
LEMMA CopiesAgree ==
    ASSUME message.id \in RequestIds
    PROVE  AcceptFindsId(message) <=> Identified
  BY DEF RequestIds, AcceptFindsId, SessionIdText, Identified, HandlerIdIsValid,
         HandlerIdText

\* What accept() and handle_message know of the message at each point.
Sorting ==
    /\ message.id \in RequestIds
    /\ hpc = "accept" => reply = None
    /\ route = "job" => Identified /\ Parsed
    /\ hpc \in {"validate", "dispatch", "calculate"} => Parsed
    /\ hpc \in {"dispatch", "calculate"} => Identified
    /\ route = "reader" /\ Parsed => ~Identified
    /\ route = "job" /\ reply # None => reply.id = "own" \/ reply.code = "internal_error"
    /\ hpc # "done" => reply = None

LEMMA SortingInit == HandlerInit => Sorting
  BY HandlerAssumption DEF HandlerInit, Sorting

\* The checks on the object and its request id are those that forget the id.
LEMMA RefusalKeepsId ==
    ASSUME RefuseRequest, Identified
    PROVE  reply'.id = "own"
  <1>1. PICK i \in DOMAIN Checklist :
            /\ Fails(Checklist[i])
            /\ AnswerError(IF i <= 2 THEN "null" ELSE "own", "invalid_request")
    BY DEF RefuseRequest
  <1>2. DOMAIN Checklist = 1..6 /\ Checklist[1] = "object" /\ Checklist[2] = "request_id"
    BY DEF Checklist
  <1>3. i \in 1..6 /\ i # 1 /\ i # 2
    BY <1>1, <1>2 DEF Fails, Identified
  <1> QED
    BY <1>1, <1>3 DEF AnswerError, Answer

LEMMA SortingStep ==
    ASSUME Sorting, [HandlerNext]_handlerVars
    PROVE  Sorting'
  <1>1. CASE SortCancel \/ SortAnonymous \/ SortJob \/ SortEscapes
    <2>1. hpc = "accept" /\ hpc' # "accept" /\ UNCHANGED <<message, reply>>
      BY <1>1 DEF SortCancel, SortAnonymous, SortJob, SortEscapes, Sorted
    <2>2. route' = "job" => AcceptFindsId(message) /\ Parsed /\ hpc' = "parse"
      BY <1>1 DEF SortCancel, SortAnonymous, SortJob, SortEscapes, Sorted
    <2>3. route' = "reader" /\ Parsed => ~AcceptFindsId(message)
      BY <1>1 DEF SortCancel, SortAnonymous, SortJob, SortEscapes, Sorted, Parsed
    <2>4. hpc' \in {"parse", "done"}
      BY <1>1 DEF SortCancel, SortAnonymous, SortJob, SortEscapes, Sorted
    <2>5. Identified' = Identified /\ Parsed' = Parsed
      BY <2>1 DEF Identified, HandlerIdIsValid, HandlerIdText, Parsed
    <2> QED
      BY <2>1, <2>2, <2>3, <2>4, <2>5, CopiesAgree DEF Sorting
  <1>2. CASE ParseMessage
    <2>1. hpc = "parse" /\ UNCHANGED <<message, route>>
      BY <1>2 DEF ParseMessage, AnswerError, Answer
    <2>2. CASE message.text = "invalid" /\ AnswerError("null", "invalid_json")
      BY <2>1, <2>2 DEF AnswerError, Answer, Sorting, Parsed, Identified, HandlerIdIsValid
    <2>3. CASE Parsed /\ hpc' = "validate" /\ reply' = reply
      BY <2>1, <2>3 DEF Sorting, Parsed, Identified, HandlerIdIsValid
    <2> QED
      BY <1>2, <2>2, <2>3 DEF ParseMessage
  <1>3. CASE RefuseRequest
    <2>1. hpc = "validate" /\ hpc' = "done" /\ UNCHANGED <<message, route>>
      BY <1>3 DEF RefuseRequest, AnswerError, Answer
    <2>2. route = "job" => reply'.id = "own"
      BY <1>3, RefusalKeepsId DEF Sorting
    <2> QED
      BY <2>1, <2>2 DEF Sorting, Parsed, Identified, HandlerIdIsValid
  <1>4. CASE AcceptRequest
    <2>1. ~Fails("object") /\ ~Fails("request_id")
      <3>1. DOMAIN Checklist = 1..6 /\ Checklist[1] = "object" /\ Checklist[2] = "request_id"
        BY DEF Checklist
      <3> QED
        BY <1>4, <3>1 DEF AcceptRequest
    <2>2. Identified
      BY <2>1 DEF Fails, Identified
    <2> QED
      BY <1>4, <2>2 DEF AcceptRequest, Sorting, Parsed, Identified,
                           HandlerIdIsValid
  <1>5. CASE AnswerHealth \/ AnswerForward \/ AnswerUnknown \/ AnswerCalculation
    <2>1. hpc' = "done" /\ UNCHANGED <<message, route>> /\ reply'.id = "own"
      BY <1>5 DEF AnswerHealth, AnswerForward, AnswerUnknown, AnswerCalculation,
                  AnswerError, Answer
    <2> QED
      BY <2>1 DEF Sorting, Parsed, Identified, HandlerIdIsValid
  <1>6. CASE BeginCalculation
    BY <1>6 DEF BeginCalculation, Sorting, Parsed, Identified, HandlerIdIsValid
  <1>7. CASE Calculate
    BY <1>7 DEF Calculate, Sorting, Parsed, Identified, HandlerIdIsValid
  <1>8. CASE HandlerFails
    BY <1>8 DEF HandlerFails, AnswerError, Answer, Sorting, Parsed, Identified, HandlerIdIsValid
  <1>9. CASE UNCHANGED handlerVars
    BY <1>9 DEF handlerVars, Sorting, Parsed, Identified, HandlerIdIsValid
  <1> QED
    BY <1>1, <1>2, <1>3, <1>4, <1>5, <1>6, <1>7, <1>8, <1>9 DEF HandlerNext, HandlerWorks

LEMMA SortingInvariant == HandlerSpec => []Sorting
  BY SortingInit, SortingStep, PTL DEF HandlerSpec

\* The answer is of its kind, and one that carries a result carries that of the
\* calculation made from this message's document.
Replied ==
    /\ doc = message.document
    /\ route \in {"none", "cancel", "reader", "job", "escaped"}
    /\ hpc \in {"accept", "parse", "validate", "dispatch", "calculate", "done"}
    /\ reply \in Replies \cup {None}
    /\ hpc # "done" => reply = None
    /\ reply # None /\ reply.code \in Results =>
           /\ report \in Reports /\ report.status = reply.code
           /\ reply.id = "own" /\ reply.type = "response"

\* The calculation is done when there is a result.
ReportMade == report = None <=> stage # "done"

LEMMA RepliedInit == HandlerInit => Replied
  BY DEF HandlerInit, Replied

\* An answer that carries no result.
LEMMA OtherAnswer ==
    ASSUME Replied, NEW id \in {"own", "null"}, NEW type \in {"response", "error"},
           NEW code \in {"invalid_json", "invalid_request", "invalid_params",
                         "method_not_found", "internal_error", "ok", "degraded", "pose"},
           Answer(id, type, code), UNCHANGED vars
    PROVE  Replied'
  <1>1. reply' \in Replies /\ reply'.code = code /\ code \notin Results
    BY DEF Answer, Replies, Results
  <1> QED
    BY <1>1 DEF Answer, Replied, vars, contractVars
\* The document is read, never written.
LEMMA DocumentStays == Next => doc' = doc
  <1> SUFFICES ASSUME Next PROVE doc' = doc
    OBVIOUS
  <1>1. ASSUME NEW s, NEW rules, Read(s, rules) PROVE doc' = doc
    BY <1>1 DEF Read
  <1>2. CASE ReadInput
    <2>1. CASE RefuseFields \/ ReadingThrows
      BY <2>1 DEF RefuseFields, ReadingThrows
    <2>2. CASE ReadHeader \/ ReadFrames \/ ReadGeometry \/ ReadJointLimits \/ ReadWorkspace
      BY <1>1, <2>2 DEF ReadHeader, ReadFrames, ReadGeometry, ReadJointLimits, ReadWorkspace,
                        ReadPlain
    <2>3. CASE ReadMassProperties \/ ReadPayload \/ ReadGravity \/ ReadMotionLimits
      BY <1>1, <2>3 DEF ReadMassProperties, ReadPayload, ReadGravity, ReadMotionLimits,
                        ReadPlain
    <2>4. CASE ReadEvaluationCases \/ ReadTransmissions \/ ReadSafetyFactors
      BY <1>1, <2>4 DEF ReadEvaluationCases, ReadTransmissions, ReadSafetyFactors, ReadPlain
    <2>5. CASE ReadSolver
      BY <1>1, <2>5 DEF ReadSolver
    <2> QED
      BY <1>2, <2>1, <2>2, <2>3, <2>4, <2>5 DEF ReadInput, ContractNext
  <1>3. CASE ~ReadInput
    BY <1>3 DEF Next, RejectInput, AcceptInput, Solve, ReportUnreachable, ReportNotConverged,
                BeginDynamics, EvaluateCase, ReportSuccess, contractVars
  <1> QED
    BY <1>2, <1>3

LEMMA RepliedStep ==
    ASSUME TypeOK, ReportMade, Replied, [HandlerNext]_handlerVars
    PROVE  Replied'
  <1>1. CASE SortCancel \/ SortAnonymous \/ SortJob \/ SortEscapes
    <2>1. /\ hpc = "accept" /\ UNCHANGED <<vars, message, reply>>
          /\ route' \in {"none", "cancel", "reader", "job", "escaped"}
          /\ hpc' \in {"parse", "done"}
      BY <1>1 DEF SortCancel, SortAnonymous, SortJob, SortEscapes, Sorted
    <2> QED
      BY <2>1 DEF Replied, vars, contractVars
  <1>2. CASE ParseMessage
    <2>1. CASE AnswerError("null", "invalid_json")
      BY <2>1, OtherAnswer DEF AnswerError
    <2>2. CASE hpc' = "validate" /\ UNCHANGED <<vars, message, route, reply>>
      BY <1>2, <2>2 DEF ParseMessage, Replied, vars, contractVars
    <2> QED
      BY <1>2, <2>1, <2>2 DEF ParseMessage
  <1>3. CASE RefuseRequest
    <2>1. PICK id \in {"own", "null"} : AnswerError(id, "invalid_request")
      BY <1>3 DEF RefuseRequest
    <2> QED
      BY <2>1, OtherAnswer DEF AnswerError
  <1>4. CASE AcceptRequest \/ BeginCalculation
    BY <1>4 DEF AcceptRequest, BeginCalculation, Replied, vars, contractVars
  <1>5. CASE AnswerHealth
    <2>1. PICK code \in {"ok", "degraded"} : Answer("own", "response", code)
      BY <1>5 DEF AnswerHealth
    <2> QED
      BY <1>5, <2>1, OtherAnswer DEF AnswerHealth
  <1>6. CASE AnswerForward
    <2>1. \/ Answer("own", "response", "pose") /\ UNCHANGED vars
          \/ AnswerError("own", "invalid_params")
      BY <1>6 DEF AnswerForward
    <2> QED
      BY <2>1, OtherAnswer DEF AnswerError
  <1>7. CASE AnswerUnknown
    BY <1>7, OtherAnswer DEF AnswerUnknown, AnswerError
  <1>8. CASE Calculate
    <2>1. doc' = doc
      BY <1>8, DocumentStays DEF Calculate
    <2> QED
      BY <1>8, <2>1 DEF Calculate, Replied
  <1>9. CASE AnswerCalculation
    <2>1. report \in Reports /\ report.status \in Results
      BY <1>9 DEF AnswerCalculation, ReportMade, TypeOK, Reports, Results
    <2>2. /\ reply' = [id |-> "own", type |-> "response", code |-> report.status]
          /\ hpc' = "done" /\ UNCHANGED <<vars, message, route>>
      BY <1>9 DEF AnswerCalculation, Answer
    <2>3. reply' \in Replies /\ report' = report /\ doc' = doc
      BY <2>1, <2>2 DEF Replies, vars, contractVars
    <2> QED
      BY <2>1, <2>2, <2>3 DEF Replied
  <1>10. CASE HandlerFails
    BY <1>10, OtherAnswer DEF HandlerFails, AnswerError
  <1>11. CASE UNCHANGED handlerVars
    BY <1>11 DEF handlerVars, vars, contractVars, Replied
  <1> QED
    BY <1>1, <1>2, <1>3, <1>4, <1>5, <1>6, <1>7, <1>8, <1>9, <1>10, <1>11
       DEF HandlerNext, HandlerWorks

-----------------------------------------------------------------------------
(* The theorems                                                             *)

\* handle_message implements DesignCalculation: whatever it does with a
\* message, and wherever it gives up, it runs the calculation or leaves it.
THEOREM HandlerImplements == HandlerSpec => CalculationIsUndisturbed
  <1>1. HandlerInit => Init
    BY DEF HandlerInit
  <1>2. [HandlerNext]_handlerVars => [Next]_vars
    BY DEF HandlerNext, HandlerWorks, handlerVars, SortCancel, SortAnonymous, SortJob, SortEscapes, Sorted,
           ParseMessage, RefuseRequest, AcceptRequest, AnswerHealth, AnswerForward,
           AnswerUnknown, BeginCalculation, Calculate, AnswerCalculation, HandlerFails,
           AnswerError
  <1> QED
    BY <1>1, <1>2, PTL DEF HandlerSpec, Spec, CalculationIsUndisturbed

\* Through handle_message too, whatever the message, the calculation keeps what
\* it promises: its success is verified, its peaks retain their cases, and so on.
CalculationPromises ==
    /\ TypeOK /\ ReportMade
    /\ Bracketed /\ BracketHalves /\ FinalVerificationHolds
    /\ CoverageFits /\ PeakRetainsItsCase
    /\ AcceptedInputIsUsable /\ VerdictIgnoresGarbage /\ FirstIssueIsFirstBreach
    /\ SuccessIsVerified /\ ResultFitsDocument

THEOREM CalculationPromisesKept == HandlerSpec => []CalculationPromises
  <1>1. DesignInv => ReportMade
    BY DEF DesignInv, Provenance, ReportMade
  <1>2. Spec => []ReportMade
    BY <1>1, DesignInvariant, PTL
  <1>3. Spec => []CalculationPromises
    BY <1>2, DesignTypeCorrect, BracketKept, BracketShrinks, FinalVerificationNeverFails,
       CoverageIsHonest, PeaksRetainTheirCases, AcceptedIsUsable, GarbageIsIgnored,
       FirstIssueIsTheReason, OnlyVerifiedSucceeds, ResultIsAboutTheDocument, PTL
       DEF CalculationPromises
  <1> QED
    BY <1>3, HandlerImplements, PTL DEF CalculationIsUndisturbed

LEMMA RepliedInvariant == HandlerSpec => []Replied
  <1>1. CalculationPromises => TypeOK /\ ReportMade
    BY DEF CalculationPromises
  <1> QED
    BY <1>1, RepliedInit, RepliedStep, CalculationPromisesKept, PTL DEF HandlerSpec

\* Type correctness of the whole handler: the answer to any message, and all of
\* the calculation below it.
THEOREM HandlerTypeCorrect == HandlerSpec => []HandlerTypeOK
  <1>1. CalculationPromises /\ Replied => HandlerTypeOK
    BY DEF CalculationPromises, Replied, HandlerTypeOK
  <1> QED
    BY <1>1, CalculationPromisesKept, RepliedInvariant, PTL

\* What an answer says of a design is true of the document that was sent: from
\* the frame's payload through sorting, validation, dispatch, contract, solver and
\* dynamics to the response.
AnswerFitsMessage ==
    reply # None /\ reply.code \in Results =>
        /\ reply.code = "success" =>
               /\ Conforms(message.document) /\ ReachedAt(scale)
               /\ scale - lower <= message.document.tolerance
               /\ lower = 0 \/ ~ReachedAt(lower)
        /\ reply.code = "invalid_input" =>
               ~Conforms(message.document) \/ Thrown \in issues
        /\ reply.code # "invalid_input" => Conforms(message.document)

THEOREM AnswerIsAboutTheMessage == HandlerSpec => []AnswerFitsMessage
  <1>1. ASSUME ResultFitsDocument, SuccessIsVerified, Replied
        PROVE  AnswerFitsMessage
    <2> SUFFICES ASSUME reply # None, reply.code \in Results
                 PROVE  AnswerFitsMessage
      BY DEF AnswerFitsMessage
    <2>1. report # None /\ report.status = reply.code /\ doc = message.document
      BY <1>1, ReportAssumption DEF Replied
    <2> QED
      BY <1>1, <2>1 DEF ResultFitsDocument, SuccessIsVerified, AnswerFitsMessage
  <1>2. CalculationPromises => ResultFitsDocument /\ SuccessIsVerified
    BY DEF CalculationPromises
  <1> QED
    BY <1>1, <1>2, CalculationPromisesKept, RepliedInvariant, PTL

\* The reader thread never carries out a request, whatever the message.
THEOREM ReaderIsFree == HandlerSpec => []ReaderNeverWorks
  <1>1. Sorting => ReaderNeverWorks
    BY DEF Sorting, ReaderNeverWorks, Parsed
  <1> QED
    BY <1>1, SortingInvariant, PTL

\* Every job is answered under the id it was entered with, internal_error
\* excepted.
THEOREM AnswersCarryTheirId == HandlerSpec => []JobIsAnsweredAsItself
  <1>1. Sorting => JobIsAnsweredAsItself
    BY DEF Sorting, JobIsAnsweredAsItself
  <1> QED
    BY <1>1, SortingInvariant, PTL
=============================================================================
