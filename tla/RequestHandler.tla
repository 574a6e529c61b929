---------------------------- MODULE RequestHandler ----------------------------
(***************************************************************************)
(* One message on its way through the sidecar: accept() of                 *)
(* engine/src/protocol/session.cpp sorts it, handle_message                *)
(* (engine/src/protocol/handler.cpp) validates and dispatches it, on the   *)
(* reader thread or as a job of its own, and design.calculate is the       *)
(* calculation of DesignCalculation.  EngineSession has the threads around *)
(* this.                                                                   *)
(*                                                                         *)
(* Both files decide by themselves whether a message has a request id, each *)
(* by a copy of its own of the rule on its text.                           *)
(***************************************************************************)
EXTENDS DesignCalculation

CONSTANTS
    Messages,       \* the messages that are sent
    WithRobotics,   \* ROBOT_ENGINE_WITH_ROBOTICS
    JointCount      \* kReferenceArmJointCount

VARIABLES
    message,        \* the frame's payload
    route,          \* what accept() made of it
    hpc,            \* where the message is
    reply           \* the answer

handlerVars == <<vars, message, route, hpc, reply>>

HandlerInit ==
    /\ message \in Messages /\ doc = message.document
    /\ Init
    /\ route = "none"
    /\ hpc = "accept"
    /\ reply = None

-----------------------------------------------------------------------------
(* Request ids                                                              *)

\* The field request_id of an object: there or not, a string or not, and of its
\* text the length, the kind of its first character and of the others.
Characters == {"alphanumeric", "mark", "other"}     \* mark: one of . _ : -
RequestIds ==
    [present : BOOLEAN, string : BOOLEAN, length : Nat,
     first : Characters, rest : SUBSET Characters]

ASSUME HandlerAssumption ==
    /\ \A m \in Messages : m.document \in Documents /\ m.id \in RequestIds
    /\ JointCount \in Nat

\* Mutant of SessionIdText: session.cpp lets an id begin with a mark.
BugLeadingMark(id) ==
    /\ id.length # 0 /\ id.length <= 128
    /\ {id.first} \cup id.rest \subseteq {"alphanumeric", "mark"}

\* valid_request_id_text of session.cpp.
SessionIdText(id) ==
    /\ id.length # 0 /\ id.length <= 128
    /\ id.first = "alphanumeric"
    /\ id.rest \subseteq {"alphanumeric", "mark"}

\* request_id_or_null of session.cpp: accept() takes a frame for a request.
AcceptFindsId(m) ==
    m.object /\ m.id.present /\ m.id.string /\ SessionIdText(m.id)

\* Mutant of HandlerIdText: handler.cpp has another idea of the longest id.
BugLongerId(id) ==
    /\ id.length \in 1..129
    /\ id.first = "alphanumeric" /\ id.rest \subseteq {"alphanumeric", "mark"}

\* valid_request_id_text of handler.cpp.
HandlerIdText(id) ==
    /\ id.length \in 1..128
    /\ id.first = "alphanumeric"
    /\ id.rest \subseteq {"alphanumeric", "mark"}

\* valid_request_id of handler.cpp, of the field or of null without one.
HandlerIdIsValid(m) == m.id.present /\ m.id.string /\ HandlerIdText(m.id)

-----------------------------------------------------------------------------
(* accept()                                                                 *)

\* Json::parse returns; it throws parse_error ("invalid"), or out_of_range for
\* a number that no double holds.
Parsed == message.text = "json"

Sorted(r, next) ==
    /\ hpc = "accept"
    /\ route' = r
    /\ hpc' = next
    /\ UNCHANGED <<vars, message, reply>>

\* An object whose type is "cancel"; EngineSession has what follows.
SortCancel ==
    /\ Parsed /\ message.object /\ message.type = "cancel"
    /\ Sorted("cancel", "done")

\* No JSON, or no request id: the reader thread answers, by handle_message.
SortAnonymous ==
    /\ \/ message.text = "invalid"
       \/ /\ Parsed
          /\ message.object => message.type # "cancel"
          /\ ~AcceptFindsId(message)
    /\ Sorted("reader", "parse")

\* A request id: a job, which calls handle_message.
SortJob ==
    /\ Parsed
    /\ message.type # "cancel" /\ AcceptFindsId(message)
    /\ Sorted("job", "parse")

\* accept() catches parse_error only, and main() catches nothing.
SortEscapes ==
    /\ message.text = "out_of_range"
    /\ Sorted("escaped", "done")

-----------------------------------------------------------------------------
(* handle_message()                                                         *)

\* What an answer says of a calculation, and everything an answer may say.
Results == {"invalid_input", "infeasible", "non_converged", "success"}
Replies ==
    [id : {"own", "null"}, type : {"response", "error"},
     code : {"invalid_json", "invalid_request", "invalid_params", "method_not_found",
             "internal_error", "ok", "degraded", "pose"} \cup Results]

ASSUME ReplyAssumption == None \notin Replies

Answer(id, type, code) ==
    /\ reply' = [id |-> id, type |-> type, code |-> code]
    /\ hpc' = "done"
    /\ UNCHANGED <<message, route>>

\* An error answer; the catch-all has forgotten the request id.
AnswerError(id, code) == Answer(id, "error", code) /\ UNCHANGED vars

ParseMessage ==
    /\ hpc = "parse"
    /\ \/ /\ message.text = "invalid"
          /\ AnswerError("null", "invalid_json")
       \/ /\ Parsed
          /\ hpc' = "validate"
          /\ UNCHANGED <<vars, message, route, reply>>

\* validate_request's checks, in its order.
Checklist == <<"object", "request_id", "type", "method", "params", "fields">>

Fails(check) ==
    \/ check = "object" /\ ~message.object
    \/ check = "request_id" /\ ~HandlerIdIsValid(message)
    \/ check = "type" /\ message.type # "request"
    \/ check = "method" /\ message.method = "ill_formed"
    \/ check = "params" /\ message.params # "object"
    \/ check = "fields" /\ message.extra

\* The first check that fails; the first two know no request id.
RefuseRequest ==
    /\ hpc = "validate"
    /\ \E i \in DOMAIN Checklist :
           /\ Fails(Checklist[i]) /\ \A k \in 1..(i - 1) : ~Fails(Checklist[k])
           /\ AnswerError(IF i <= 2 THEN "null" ELSE "own", "invalid_request")

AcceptRequest ==
    /\ hpc = "validate"
    /\ \A i \in DOMAIN Checklist : ~Fails(Checklist[i])
    /\ hpc' = "dispatch"
    /\ UNCHANGED <<vars, message, route, reply>>

\* dependency_smoke_check: FALSE if building a Ceres problem throws.
SmokeCheck == IF WithRobotics THEN BOOLEAN ELSE {TRUE}

AnswerHealth ==
    /\ hpc = "dispatch" /\ message.method = "engine.health"
    /\ \E ok \in SmokeCheck :
           Answer("own", "response", IF ok THEN "ok" ELSE "degraded")
    /\ UNCHANGED vars

BeginCalculation ==
    /\ hpc = "dispatch" /\ message.method = "design.calculate"
    /\ hpc' = "calculate"
    /\ UNCHANGED <<vars, message, route, reply>>

\* design::calculate, inside the call.
Calculate ==
    /\ hpc = "calculate"
    /\ Next
    /\ UNCHANGED <<message, route, hpc, reply>>

\* Whatever its outcome, the result is the answer.
AnswerCalculation ==
    /\ hpc = "calculate" /\ stage = "done"
    /\ Answer("own", "response", report.status)
    /\ UNCHANGED vars

\* kinematics.forward: exactly one parameter, an array of JointCount numbers.
\* Values that do not fit a double were refused by the parser.
AnswerForward ==
    /\ hpc = "dispatch" /\ WithRobotics /\ message.method = "kinematics.forward"
    /\ IF /\ message.joints.alone
          /\ Len(message.joints.values) = JointCount
          /\ \A i \in 1..JointCount : message.joints.values[i] = "number"
       THEN Answer("own", "response", "pose") /\ UNCHANGED vars
       ELSE AnswerError("own", "invalid_params")

Methods == {"engine.health", "design.calculate"}
               \cup (IF WithRobotics THEN {"kinematics.forward"} ELSE {})

AnswerUnknown ==
    /\ hpc = "dispatch" /\ message.method \notin Methods
    /\ AnswerError("own", "method_not_found")

\* The catch-all: any other exception, an allocation that fails, at any point.
HandlerFails ==
    /\ hpc \in {"parse", "validate", "dispatch", "calculate"}
    /\ AnswerError("null", "internal_error")

HandlerWorks ==
    \/ SortCancel \/ SortAnonymous \/ SortJob \/ SortEscapes
    \/ ParseMessage \/ RefuseRequest \/ AcceptRequest
    \/ AnswerHealth \/ AnswerForward \/ AnswerUnknown
    \/ BeginCalculation \/ Calculate \/ AnswerCalculation

HandlerNext == HandlerWorks \/ HandlerFails

HandlerSpec == HandlerInit /\ [][HandlerNext]_handlerVars

\* One thread works on the message until it is answered.  No exception comes to
\* its rescue.
HandlerFairSpec == HandlerSpec /\ WF_handlerVars(HandlerWorks)

-----------------------------------------------------------------------------
(* Properties                                                               *)

\* Every variable holds a value of its kind.
HandlerTypeOK ==
    /\ TypeOK
    /\ route \in {"none", "cancel", "reader", "job", "escaped"}
    /\ hpc \in {"accept", "parse", "validate", "dispatch", "calculate", "done"}
    /\ reply \in Replies \cup {None}

\* The reader thread, which must get back to its frames and to cancellations,
\* never carries out a request: what accept() keeps to itself because its rule
\* finds no request id (session.cpp:25-61, 231-235), validate_request turns down
\* by the other copy of that rule (handler.cpp:29-71, 110-115).
ReaderNeverWorks == route = "reader" => hpc \notin {"dispatch", "calculate"}

\* A job is entered under the request id that accept() found by its copy of the
\* rule, and its answer carries that id: the other copy never turns it down
\* (handler.cpp:111), which would leave the request without an answer of its
\* own.  The catch-all's answer is the only exception.
JobIsAnsweredAsItself ==
    route = "job" /\ reply # None => reply.id = "own" \/ reply.code = "internal_error"

\* Seen through handle_message, which may give up on it at any point, the
\* calculation still is the one of DesignCalculation: begun at most once, for
\* one document, and never touched from outside.
CalculationIsUndisturbed == Spec

\* A message that does not end the process is dealt with, and answered unless
\* it is a cancellation.
MessageIsAnswered ==
    <>(hpc = "done" /\ (route \in {"reader", "job"} => reply # None))

-----------------------------------------------------------------------------
(* A claim of the repository that the code does not keep                    *)

\* "A request completes with either a response or an error"
\* (protocol/README.md:33).
EveryRequestCompletes ==
    hpc = "done" /\ message.object /\ message.type = "request" /\ HandlerIdIsValid(message) =>
        reply # None
=============================================================================
