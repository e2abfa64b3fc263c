------------------------------ MODULE Handlers ------------------------------
(***************************************************************************)
(* The HTTP handlers of /auth and /users in their chain of middlewares: a  *)
(* request passes the rate limiter and the auth middleware where its route *)
(* has them, is bound and validated, its usecase runs, its event is        *)
(* recorded, its answer is written, and on the way out it is counted.      *)
(* What a usecase meets (a cause) and the error type it makes of it are    *)
(* taken from the usecases; the other modules model when they meet it, and *)
(* when a middleware refuses.                                              *)
(***************************************************************************)
EXTENDS Audit, Bags, FiniteSets

CONSTANT Mixes \* which requests go to which routes: functions from Requests to Routes

VARIABLES
    at,      \* at[q]: where request q is in its handler
    route,   \* route[q]: the handler of q
    cause,   \* cause[q]: what its usecase met, "ok" when it succeeded
    outcome, \* outcome[q]: the error type it returned, "ok" for nil
    status,  \* status[q]: the HTTP status of the answer
    httpRequestsTotal \* the counter /metrics shows: a bag of routes and statuses

handlerVars == <<at, route, cause, outcome, status, httpRequestsTotal>>
vars == <<auditVars, handlerVars>>

\* The categories of a DomainError.
ErrorTypes == {"Internal", "BadRequest", "NotFound", "Unauthorized", "Forbidden", "Conflict"}

\* A handler: the events it records for a usecase that succeeds and one that
\* fails, and the errors of that usecase as pairs of a cause and a type.
\* "down" is Postgres, Redis or the mailer failing.
Register == [ok |-> "register", fail |-> "register",
    errors |-> {<<"taken", "Conflict">>, <<"weak", "BadRequest">>, <<"down", "Internal">>}]

Login == [ok |-> "login_success", fail |-> "login_failure",
    errors |-> {<<"locked", "Forbidden">>, <<"unknown", "Unauthorized">>,
                <<"down", "Unauthorized">>, <<"inactive", "Forbidden">>,
                <<"mismatch", "Unauthorized">>, <<"down", "Internal">>}]

Refresh == [ok |-> "refresh_success", fail |-> "refresh_failure",
    errors |-> {<<"mismatch", "Unauthorized">>, <<"unknown", "Unauthorized">>,
                <<"down", "Unauthorized">>, <<"inactive", "Forbidden">>,
                <<"down", "Internal">>}]

Logout == [ok |-> "logout", fail |-> None,
    errors |-> {<<"mismatch", "Unauthorized">>, <<"down", "Internal">>}]

SendOTP == [ok |-> "otp_sent", fail |-> None,
    errors |-> {<<"unknown", "NotFound">>, <<"down", "NotFound">>,
                <<"active", "BadRequest">>, <<"down", "Internal">>}]

VerifyOTP == [ok |-> "otp_verify_success", fail |-> "otp_verify_failure",
    errors |-> {<<"unknown", "NotFound">>, <<"down", "NotFound">>,
                <<"active", "BadRequest">>, <<"locked", "Forbidden">>,
                <<"mismatch", "BadRequest">>, <<"down", "BadRequest">>,
                <<"down", "Internal">>}]

ForgotPassword == [ok |-> "password_forgot_success", fail |-> "password_forgot_failure",
    errors |-> {<<"locked", "Forbidden">>, <<"unknown", "ok">>, <<"down", "Internal">>}]

ResetPassword == [ok |-> "password_reset_success", fail |-> "password_reset_failure",
    errors |-> {<<"weak", "BadRequest">>, <<"mismatch", "Unauthorized">>,
                <<"down", "Unauthorized">>, <<"unknown", "NotFound">>,
                <<"down", "Internal">>}]

ChangePassword == [ok |-> "password_change_success", fail |-> "password_change_failure",
    errors |-> {<<"weak", "BadRequest">>, <<"unknown", "NotFound">>,
                <<"mismatch", "Unauthorized">>, <<"down", "Internal">>}]

GetUserData == [ok |-> None, fail |-> None,
    errors |-> {<<"unknown", "NotFound">>, <<"down", "Internal">>}]

\* The groups of routes: /auth has the rate limiter, the protected ones have the
\* auth middleware.
AuthRoutes == {Register, Login, Refresh, Logout, SendOTP, VerifyOTP, ForgotPassword,
               ResetPassword, ChangePassword}
Protected == {ChangePassword, GetUserData}
Routes == AuthRoutes \cup {GetUserData}

\* Finitely many requests, each to one of the routes, and None is no outcome.
WellFormed ==
    /\ IsFiniteSet(Requests)
    /\ MaxSwaps \in Nat
    /\ Mixes \subseteq [Requests -> Routes]
    /\ None \notin ErrorTypes \cup {"ok"}

ASSUME HandlersAssumption == WellFormed

\* The event of a request; VerifyOTP tells a lockout by the type of the error.
Event(q) ==
    IF outcome[q] = "ok" THEN route[q].ok
    ELSE IF route[q] = VerifyOTP /\ outcome[q] = "Forbidden" THEN "otp_lockout"
    ELSE route[q].fail

\* The audit line: whose request it is, its event and its success field.
Line(q) == [request |-> q, event |-> Event(q), success |-> outcome[q] = "ok"]

mapDomainErrorToHTTP(t) ==
    CASE t = "NotFound" -> 404 [] t = "Unauthorized" -> 401 [] t = "Forbidden" -> 403
      [] t = "Conflict" -> 409 [] t = "BadRequest" -> 400 [] OTHER -> 500

Init ==
    /\ AuditInit
    /\ at = [q \in Requests |-> "new"]
    /\ route \in Mixes
    /\ cause = [q \in Requests |-> None]
    /\ outcome = [q \in Requests |-> None]
    /\ status = [q \in Requests |-> None]
    /\ httpRequestsTotal = EmptyBag

-----------------------------------------------------------------------------
Answer(q, code) ==
    /\ at' = [at EXCEPT ![q] = "answered"]
    /\ status' = [status EXCEPT ![q] = code]

\* The middlewares that let a request on or abort the chain: CORS, when the origin
\* is not allowed, the rate limiter and the auth middleware.
MiddlewareRefusals(r) ==
    {403} \cup (IF r \in AuthRoutes THEN {429} ELSE {})
          \cup (IF r \in Protected THEN {401} ELSE {})

\* A body that does not parse, or is too large, or is not valid is an answer
\* without an event.  GetUserData has no body.
BindingRefusals(r) == IF r \in AuthRoutes THEN {400, 422} ELSE {}

\* What a request may meet before the usecase.
Refusals(r) == MiddlewareRefusals(r) \cup BindingRefusals(r)

Enter(q) ==
    /\ at[q] = "new"
    /\ \/ at' = [at EXCEPT ![q] = "usecase"] /\ UNCHANGED status
       \/ \E code \in Refusals(route[q]) : Answer(q, code)
    /\ UNCHANGED <<auditVars, route, cause, outcome, httpRequestsTotal>>

Usecase(q) ==
    /\ at[q] = "usecase"
    /\ \E r \in {<<"ok", "ok">>} \cup route[q].errors :
          /\ cause' = [cause EXCEPT ![q] = r[1]]
          /\ outcome' = [outcome EXCEPT ![q] = r[2]]
    /\ at' = [at EXCEPT ![q] = "record"]
    /\ UNCHANGED <<auditVars, route, status, httpRequestsTotal>>

\* Mutant: Recovery is the first middleware, and a panic passes the counter.
RecoverOutside(q) ==
    /\ at[q] = "usecase"
    /\ at' = [at EXCEPT ![q] = "done"]
    /\ status' = [status EXCEPT ![q] = 500]
    /\ UNCHANGED <<auditVars, route, cause, outcome, httpRequestsTotal>>

\* The usecase panics: Recovery, the innermost middleware of all routes, answers,
\* and the event is not recorded.
Recover(q) ==
    /\ at[q] = "usecase"
    /\ Answer(q, 500)
    /\ UNCHANGED <<auditVars, route, cause, outcome, httpRequestsTotal>>

RecordEvent(q) ==
    /\ at[q] = "record" /\ Event(q) # None
    /\ Record(q, Line(q))
    /\ UNCHANGED handlerVars

\* Mutant: the answer does not wait for the event.
RespondEarly(q) ==
    /\ at[q] = "record"
    /\ Answer(q, IF outcome[q] = "ok" THEN IF route[q] = Register THEN 201 ELSE 200
                 ELSE mapDomainErrorToHTTP(outcome[q]))
    /\ UNCHANGED <<auditVars, route, cause, outcome, httpRequestsTotal>>

\* The answer follows the event, where there is one.
Respond(q) ==
    /\ at[q] = "record" /\ (Event(q) = None \/ step[q] = "done")
    /\ Answer(q, IF outcome[q] = "ok" THEN IF route[q] = Register THEN 201 ELSE 200
                 ELSE mapDomainErrorToHTTP(outcome[q]))
    /\ UNCHANGED <<auditVars, route, cause, outcome, httpRequestsTotal>>

\* The label values of a request's counter.
Label(q) == <<route[q], status[q]>>

\* MetricsMiddleware, after its c.Next: the request is counted and over.
Count(q) ==
    /\ at[q] = "answered"
    /\ at' = [at EXCEPT ![q] = "done"]
    /\ httpRequestsTotal' = httpRequestsTotal (+) SetToBag({Label(q)})
    /\ cause' = [cause EXCEPT ![q] = None]
    /\ UNCHANGED <<auditVars, route, outcome, status>>

Next ==
    \/ \E q \in Requests : Enter(q) \/ Usecase(q) \/ Recover(q)
    \/ \E q \in Requests : RecordEvent(q) \/ Respond(q) \/ Count(q)
    \/ SetOutput /\ UNCHANGED handlerVars

Spec == Init /\ [][Next]_vars

\* Handlers run on, and a sync.Mutex is granted to every request that waits.
FairSpec ==
    /\ Spec
    /\ \A q \in Requests :
          /\ WF_vars(Enter(q) \/ Usecase(q) \/ Respond(q) \/ Count(q))
          /\ SF_vars(RecordEvent(q))

-----------------------------------------------------------------------------
(* Properties.                                                             *)

LinesOf(q) == {i \in 1..Len(lines) : lines[i].request = q}

\* The requests that are over.
Over == {q \in Requests : at[q] = "done"}

\* A client that has its answer finds it in the audit stream: one line for an
\* event that is recorded, none else, and the line says success exactly when the
\* answer does, whatever SetOutput does meanwhile; only the encoder that wrote
\* it having failed excuses a missing line.
AnswersAreAudited ==
    \A q \in Requests :
        /\ at[q] \in {"answered", "done"} /\ outcome[q] # None /\ Event(q) # None =>
              \/ \E i \in LinesOf(q) : LinesOf(q) = {i} /\ lines[i].success = (status[q] < 400)
              \/ LinesOf(q) = {} /\ step[q] = "done" /\ err[using[q]]
        /\ outcome[q] = None \/ Event(q) = None => LinesOf(q) = {}

\* The counter shows every request that is over once, under the status its client
\* got, whoever answered it: the handler, CORS, the rate limiter, the auth
\* middleware or Recovery.
EveryRequestCounted ==
    /\ BagToSet(httpRequestsTotal) = {Label(q) : q \in Over}
    /\ \A l \in BagToSet(httpRequestsTotal) :
          httpRequestsTotal[l] = Cardinality({q \in Over : Label(q) = l})

\* Every request is answered: an audit sink that fails does not keep encMu, nor
\* does anything else make the requests wait for one another for ever.
RequestsAreAnswered == \A q \in Requests : <>(at[q] = "done")

-----------------------------------------------------------------------------
(* What comments say and TLC refutes.                                      *)

\* "Record emits one event", and an error of the sink concerns that event only:
\* a line is not written only because its own write failed.
FailureIsOneEvent == ~silenced

\* SetOutput is "safe to call concurrently with Record": the assignment to enc
\* never coincides with a read of it.
EncoderNotRaced == ~(setting /\ \E q \in Requests : step[q] = "load")

\* "Email not registered" is the answer 404 of SendOTP and VerifyOTP only to an
\* address that is not registered.
NotFoundMeansUnknown ==
    \A q \in Requests : route[q] \in {SendOTP, VerifyOTP} /\ status[q] = 404 => cause[q] = "unknown"

=============================================================================
