-------------------------------- MODULE Server --------------------------------
(***************************************************************************)
(* One life of the API process: the configuration is loaded, NewApp wires  *)
(* the dependencies, Run serves requests until a signal comes, and then    *)
(* takes everything down within one deadline.  The requests modelled are   *)
(* those that couple the parts: SendOTP (a lookup, then a mail), VerifyOTP *)
(* (a lookup, then users.Activate on two connections) and the /ready probe *)
(* (a ping).  Mail queue and connection pool are modules of their own.     *)
(***************************************************************************)
EXTENDS Config, Mailer, ConnPool, FiniteSets

CONSTANTS
    Verifiers, \* VerifyOTP requests
    Probes,    \* requests to /ready
    DotEnvs,   \* the .env files the process may be started with
    Loads,     \* the sets of clients that may be there
    MaxWorkers \* the most workers a file of DotEnvs asks for

ASSUME ServerAssumption ==
    /\ Requests = Senders \cup Verifiers \cup Probes
    /\ Senders \cap Verifiers = {} /\ Probes \cap (Senders \cup Verifiers) = {}
    /\ None \notin Requests
    /\ \A l \in Loads : l \subseteq Requests
    /\ DotEnvs \subseteq Configuration

VARIABLES
    app,       \* config.AppConfig
    load,      \* the clients of this life of the process
    run,       \* how far main, NewApp and Run have come
    listening, \* the HTTP server accepts requests
    deadline,  \* the shutdown context has expired
    buffered,  \* the batch exporter has spans it has not exported
    at,        \* at[p]: where request p is
    gone       \* gone[p]: the client has hung up, the request's context has ended

lifeVars == <<app, load, run, listening, deadline>>
requestVars == <<at, gone>>
vars == <<lifeVars, buffered, requestVars, mailerVars, poolVars>>

Init ==
    /\ MailerInit /\ PoolInit
    /\ app \in DotEnvs
    /\ load \in Loads
    /\ run = "init"
    /\ listening = FALSE /\ deadline = FALSE /\ buffered = FALSE
    /\ at = [p \in Requests |-> "new"]
    /\ gone = [p \in Requests |-> FALSE]

\* The requests in flight.
Open == {p \in Requests : at[p] \notin {"new", "done"}}

\* The process is gone once Run has returned, a step of the start failed, or the
\* goroutine that serves called log.Fatalf, which exits on the spot.
Running == run \notin {"exit", "fatal"}

\* A span ends; without an exporter the tracer is the no-op one.
EndSpan == buffered' = (app.OTelExporter # "" \/ buffered)

-----------------------------------------------------------------------------
(* The start.  main exits on an error of any of these steps.               *)

\* main's init.
InitializeAppConfig ==
    /\ run = "init"
    /\ app' = applyDefaults(app)
    /\ run' = IF Accepted(app') THEN "configured" ELSE "exit"
    /\ UNCHANGED <<load, listening, deadline, buffered, requestVars, mailerVars, poolVars>>

\* Making the exporter, or the resource it reports as, may fail.
SetupTracing ==
    /\ run = "configured"
    /\ \/ app.OTelExporter \in {"", "stdout", "otlp"} /\ run' = "traced"
       \/ app.OTelExporter # "" /\ run' = "exit"
    /\ UNCHANGED <<app, load, listening, deadline, buffered, requestVars, mailerVars, poolVars>>

\* The pool is sized and Postgres pinged, which may fail.
SetupSQLXPostgres ==
    /\ run = "traced"
    /\ InitializeSQLXDatabase(app.DBMaxOpenConns)
    /\ run' \in {"connected", "exit"}
    /\ UNCHANGED <<app, load, listening, deadline, buffered, requestVars, mailerVars>>

\* The rest of NewApp: the router, whose CORS middleware panics when there is no
\* origin to allow, the caches, the mailer and the routes.
NewApp ==
    /\ run = "connected"
    /\ IF AllowedOriginsList(app) = <<>>
       THEN run' = "exit" /\ UNCHANGED mailerVars
       ELSE /\ NewAsyncOTPMailer(app.MailerWorkers, app.MailerQueueSize, app.MailerRetries)
            /\ run' = "serving"
    /\ UNCHANGED <<app, load, listening, deadline, buffered, requestVars, poolVars>>

\* The goroutine of Run.  An address in use is fatal.
ListenAndServe ==
    /\ run = "serving" /\ ~listening
    /\ \/ listening' = TRUE /\ UNCHANGED run
       \/ run' = "fatal" /\ UNCHANGED listening
    /\ UNCHANGED <<app, load, deadline, buffered, requestVars, mailerVars, poolVars>>

\* So is an error of the listener while it serves; after Shutdown was called
\* ListenAndServe only returns ErrServerClosed.
ServeFails ==
    /\ run = "serving" /\ listening
    /\ run' = "fatal" /\ listening' = FALSE
    /\ UNCHANGED <<app, load, deadline, buffered, requestVars, mailerVars, poolVars>>

-----------------------------------------------------------------------------
(* Requests.                                                               *)

Go(p, s) == at' = [at EXCEPT ![p] = s]

Arrive(p) ==
    /\ listening /\ p \in load /\ at[p] = "new"
    /\ Go(p, IF p \in Probes THEN "ping" ELSE "find")
    /\ UNCHANGED <<lifeVars, buffered, gone, mailerVars, poolVars>>

\* What follows the lookup, unless the user or the code is not the right one.
AfterLookup(p) == Go(p, IF p \in Senders THEN "mail" ELSE "update") \/ Go(p, "answer")

\* GetByEmail: the cached row, or a query, which may wait for a connection and
\* may fail; DB.conn gives up when the context ends.
Find(p) ==
    /\ at[p] = "find"
    /\ \/ ~gone[p] /\ Conn(p) /\ Go(p, "found")
       \/ AfterLookup(p) /\ UNCHANGED poolVars
    /\ UNCHANGED <<lifeVars, buffered, gone, mailerVars>>

\* Mutant: the lookup keeps its connection.
FoundKeeps(p) ==
    /\ at[p] = "found"
    /\ AfterLookup(p)
    /\ UNCHANGED <<lifeVars, buffered, gone, mailerVars, poolVars>>

\* sqlx GetContext reads the row and closes the rows.
Found(p) ==
    /\ at[p] = "found"
    /\ CloseRows(p)
    /\ AfterLookup(p)
    /\ UNCHANGED <<lifeVars, buffered, gone, mailerVars>>

\* SendOTP hands its mail to the queue; what it stores in Redis follows.
SendMail(p) ==
    /\ at[p] = "mail"
    /\ Enqueue(p)
    /\ Go(p, "answer")
    /\ UNCHANGED <<lifeVars, buffered, gone, poolVars>>

\* NamedQueryContext runs the UPDATE; nothing closes its rows, and so it keeps
\* the connection.
ChangeActiveUser(p) ==
    /\ at[p] = "update"
    /\ \/ ~gone[p] /\ Conn(p) /\ Go(p, "invalidate")
       \/ Go(p, "answer") /\ UNCHANGED poolVars
    /\ UNCHANGED <<lifeVars, buffered, gone, mailerVars>>

\* GetByID on a second connection, for the email of the key to delete.  Its
\* error is not Activate's: the stale entry is UserStore's matter.
GetByID(p) ==
    /\ at[p] = "invalidate"
    /\ \/ ~gone[p] /\ Conn(p) /\ Go(p, "row")
       \/ gone[p] /\ Go(p, "answer") /\ UNCHANGED poolVars
    /\ UNCHANGED <<lifeVars, buffered, gone, mailerVars>>

\* The second connection is given back; what VerifyOTP still does is not
\* Postgres' business.
Invalidate(p) ==
    /\ at[p] = "row"
    /\ IF gone[p] THEN ContextDone(p) ELSE CloseRows(p)
    /\ Go(p, "answer")
    /\ UNCHANGED <<lifeVars, buffered, gone, mailerVars>>

\* Mutant: the ping has no time limit of its own.
ReadyUnbounded(p) ==
    /\ \/ at[p] = "ping" /\ ~gone[p] /\ Conn(p) /\ Go(p, "pinged")
       \/ at[p] = "ping" /\ gone[p] /\ Go(p, "answer") /\ UNCHANGED poolVars
       \/ at[p] = "pinged" /\ CloseRows(p) /\ Go(p, "answer")
    /\ UNCHANGED <<lifeVars, buffered, gone, mailerVars>>

\* Ready pings Postgres over a connection of the pool, and then Redis, for at
\* most three seconds.
Ready(p) ==
    /\ \/ at[p] = "ping" /\ ~gone[p] /\ Conn(p) /\ Go(p, "pinged")
       \/ at[p] = "ping" /\ Go(p, "answer") /\ UNCHANGED poolVars
       \/ at[p] = "pinged" /\ CloseRows(p) /\ Go(p, "answer")
    /\ UNCHANGED <<lifeVars, buffered, gone, mailerVars>>

\* ServeHTTP returns: the context ends, and with it the span of the request and
\* the rows that are open, which database/sql closes from a goroutine of its own.
Answer(p) ==
    /\ at[p] = "answer"
    /\ Go(p, "done")
    /\ ContextDone(p)
    /\ EndSpan
    /\ gone' = [gone EXCEPT ![p] = FALSE]
    /\ UNCHANGED <<lifeVars, mailerVars>>

\* The client closes its connection: the context of the request ends, and the
\* rows of ChangeActiveUser are closed.  A query under way ends in its own step.
\* Elsewhere a hang-up changes nothing that the answer does not change as well.
HangUp(p) ==
    /\ at[p] \in {"find", "update", "invalidate", "row", "ping"} /\ ~gone[p]
    /\ gone' = [gone EXCEPT ![p] = TRUE]
    /\ IF at[p] = "row" THEN UNCHANGED poolVars ELSE ContextDone(p)
    /\ UNCHANGED <<lifeVars, buffered, at, mailerVars>>

Step(p) ==
    /\ Running
    /\ \/ Find(p) \/ Found(p) \/ SendMail(p) \/ ChangeActiveUser(p) \/ GetByID(p)
       \/ Invalidate(p) \/ Ready(p) \/ Answer(p)

-----------------------------------------------------------------------------
(* Workers, in the process.                                                *)

\* The workers of the mailer run until the process ends.  An attempt is a span.
Worker(w) ==
    /\ Running
    /\ \/ (Take(w) \/ Backoff(w) \/ WorkerExit(w)) /\ UNCHANGED buffered
       \/ Attempt(w) /\ EndSpan
    /\ UNCHANGED <<lifeVars, requestVars, poolVars>>

-----------------------------------------------------------------------------
(* Run, from the signal on.                                                *)

\* The signal; HttpServer.Shutdown closes the listener at once.
Quit ==
    /\ run = "serving"
    /\ run' = "stopping"
    /\ listening' = FALSE
    /\ UNCHANGED <<app, load, deadline, buffered, requestVars, mailerVars, poolVars>>

\* The shutdown context, started with Quit, serves all that follows.
Expire ==
    /\ run \in {"stopping", "stopped", "draining", "closing", "flushing"} /\ ~deadline
    /\ deadline' = TRUE
    /\ UNCHANGED <<app, load, run, listening, buffered, requestVars, mailerVars, poolVars>>

\* Mutant: Run goes on when the HTTP server did not stop.
HttpShutdownUnchecked ==
    /\ run = "stopping"
    /\ deadline \/ Open = {}
    /\ run' = "stopped"
    /\ UNCHANGED <<app, load, listening, deadline, buffered, requestVars, mailerVars, poolVars>>

\* Mutant: the HTTP server is shut down without a deadline.
HttpShutdownUnbounded ==
    /\ run = "stopping"
    /\ Open = {}
    /\ run' = "stopped"
    /\ UNCHANGED <<app, load, listening, deadline, buffered, requestVars, mailerVars, poolVars>>

\* HttpServer.Shutdown waits for the open requests; at the deadline it fails
\* and Run returns at once.  Stopping the rate limiter's cleanup follows.
HttpShutdown ==
    /\ run = "stopping"
    /\ \/ Open = {} /\ run' = "stopped"
       \/ deadline /\ run' = "exit"
    /\ UNCHANGED <<app, load, listening, deadline, buffered, requestVars, mailerVars, poolVars>>

MailerShutdown ==
    /\ run = "stopped"
    /\ Shutdown
    /\ run' = "draining"
    /\ UNCHANGED <<app, load, listening, deadline, buffered, requestVars, poolVars>>

\* Mutant: asyncMailer.Shutdown does not wait for the workers.
DrainedUnwaited ==
    /\ run = "draining"
    /\ run' = "closing"
    /\ UNCHANGED <<app, load, listening, deadline, buffered, requestVars, mailerVars, poolVars>>

\* asyncMailer.Shutdown waits for the workers, but no longer than the deadline,
\* whose error Run only logs.
Drained ==
    /\ run = "draining"
    /\ deadline \/ exited = Workers
    /\ run' = "closing"
    /\ UNCHANGED <<app, load, listening, deadline, buffered, requestVars, mailerVars, poolVars>>

\* db.Close and redisCache.Close.
CloseStores ==
    /\ run = "closing"
    /\ run' = "flushing"
    /\ UNCHANGED <<app, load, listening, deadline, buffered, requestVars, mailerVars, poolVars>>

\* tracerShutdown exports what is buffered, unless the context has expired.
TracerShutdown ==
    /\ run = "flushing"
    /\ buffered' = (buffered /\ deadline)
    /\ run' = "flushed"
    /\ UNCHANGED <<app, load, listening, deadline, requestVars, mailerVars, poolVars>>

Return ==
    /\ run = "flushed"
    /\ run' = "exit"
    /\ UNCHANGED <<app, load, listening, deadline, buffered, requestVars, mailerVars, poolVars>>

Main ==
    \/ InitializeAppConfig \/ SetupTracing \/ SetupSQLXPostgres \/ NewApp \/ ListenAndServe
    \/ HttpShutdown \/ MailerShutdown \/ Drained \/ CloseStores \/ TracerShutdown \/ Return

Next ==
    \/ Main
    \/ ServeFails
    \/ Quit
    \/ Expire
    \/ \E p \in Requests : Arrive(p)
    \/ \E p \in Requests : Step(p)
    \/ \E p \in Requests : Running /\ HangUp(p)
    \/ \E w \in Workers : Worker(w)

Spec == Init /\ [][Next]_vars

\* A request whose client stays waits for its connection as long as it takes: a
\* row found in the cache or a query that fails may spare it the wait, but
\* nothing makes them.
Proceed(p) ==
    /\ Step(p)
    /\ at[p] \in {"find", "update"} /\ ~gone[p] => held'[p] > held[p]

\* Goroutines are scheduled, queries and the inner mailer return, and timers
\* fire.  No client has to come or to hang up, and no signal has to be sent.
Fairness ==
    /\ WF_vars(Main) /\ WF_vars(Expire)
    /\ \A p \in Requests : WF_vars(Proceed(p))
    /\ \A w \in 1..MaxWorkers : WF_vars(w \in Workers /\ Worker(w))

FairSpec == Spec /\ Fairness

-----------------------------------------------------------------------------
(* Properties.                                                             *)

Unsettled == {j \in Senders : job[j] \in {"queued", "sending", "backoff"}}

\* Nothing is taken down under a request: the mail queue, the database and the
\* cache are closed only when no handler is left that could still use them, and
\* so no request panics on the closed channel.
NothingClosedInUse ==
    /\ \A j \in Senders : job[j] # "panic"
    /\ closed /\ Running => Open = {}

\* Run drains the queue "so in-flight OTP emails still get delivered": when it
\* returns before the deadline no accepted mail is left in the channel or with
\* a worker, however requests, retries and the closing of the queue interleave.
DrainedInTime == run = "exit" /\ ~deadline => Unsettled = {}

\* The tracer is flushed after everything that ends a span, requests as well as
\* mail workers: when Run returns before the deadline no span is left behind.
TailTraced == run = "exit" /\ ~deadline => ~buffered

\* A connection taken by a request is back in the pool when the request is
\* over, although no statement of the code closes the rows of ChangeActiveUser;
\* nor does a request wait for its first connection with one in hand.
NoConnectionLeaks ==
    \A p \in Requests : held[p] > 0 => at[p] \notin {"new", "find", "mail", "update", "ping", "done"}

\* While the process lives every accepted mail is delivered or given up,
\* whatever sizes the configuration gave the mailer.
EveryJobSettles ==
    Unsettled # {} ~> Unsettled = {} \/ ~Running

\* Run returns once it is told to quit, whatever handlers and workers do.
ShutdownEnds == run = "stopping" ~> run = "exit"

\* Every request ends, without its client hanging up: no set of requests waits
\* for the connections its own members hold, as long as the pool has one
\* connection more than there are activations at once.
RequestsEnd ==
    Open # {} /\ maxOpen > Cardinality(load \cap Verifiers) ~> Open = {} \/ ~Running

\* /ready answers whatever the size of the pool and whoever holds it.
ReadyAnswers == Open \cap Probes # {} ~> Open \cap Probes = {} \/ ~Running

-----------------------------------------------------------------------------
(* What the code does not promise and TLC refutes.                         *)

\* Every request ends with any configuration that is accepted: refuted by a pool
\* of one connection, on which an activation waits for itself.
RequestsEndAnyPool == Open # {} ~> Open = {} \/ ~Running

\* A configuration that is accepted lets the server start, its dependencies
\* permitting: refuted by a list of origins that is only commas.
AcceptedStarts == run = "connected" => AllowedOriginsList(app) # <<>>

=============================================================================
