-------------------------------- MODULE Mailer --------------------------------
(***************************************************************************)
(* AsyncOTPMailer: the bounded job channel and the worker goroutines that  *)
(* deliver from it.  A job is one mail, an OTP code or a reset token; it   *)
(* bears the name of the request that asks for it.  Who enqueues, and who  *)
(* closes the channel, is in Server.                                       *)
(***************************************************************************)
EXTENDS Integers, Sequences

CONSTANTS
    Senders, \* the requests that ask for a mail
    None     \* no job

VARIABLES
    mailer,   \* the sizes NewAsyncOTPMailer settled on
    job,      \* job[j]: what has become of the mail
    queue,    \* the channel
    work,     \* work[w]: the job worker w delivers
    attempts, \* attempts[j]: how often the inner mailer was called for j
    closed,   \* the stop and the queue channel are closed
    exited    \* the workers that have returned

mailerVars == <<mailer, job, queue, work, attempts, closed, exited>>

Workers == 1..mailer.workers

MailerInit ==
    /\ mailer = [workers |-> 0, queueSize |-> 0, retries |-> 0]
    /\ job = [j \in Senders |-> "none"]
    /\ queue = <<>>
    /\ work = <<>>
    /\ attempts = [j \in Senders |-> 0]
    /\ closed = FALSE
    /\ exited = {}

Become(j, fate) == job' = [job EXCEPT ![j] = fate]

\* Mutant: sizes that are not positive are taken as they are.
NewAsyncOTPMailerUnchecked(workers, queueSize, retries) ==
    /\ mailer' = [workers |-> workers, queueSize |-> queueSize, retries |-> retries]
    /\ work' = [w \in 1..workers |-> None]
    /\ UNCHANGED <<job, queue, attempts, closed, exited>>

\* Sizes that are not positive, which config lets pass, fall back.
NewAsyncOTPMailer(workers, queueSize, retries) ==
    /\ mailer' = [workers |-> IF workers <= 0 THEN 2 ELSE workers,
                  queueSize |-> IF queueSize <= 0 THEN 64 ELSE queueSize,
                  retries |-> IF retries <= 0 THEN 3 ELSE retries]
    /\ work' = [w \in 1..mailer'.workers |-> None]
    /\ UNCHANGED <<job, queue, attempts, closed, exited>>

\* enqueue does not block: a full channel is ErrQueueFull.  Sending on a
\* closed channel panics.
Enqueue(j) ==
    /\ \/ closed /\ Become(j, "panic") /\ UNCHANGED queue
       \/ /\ ~closed /\ Len(queue) < mailer.queueSize
          /\ Become(j, "queued")
          /\ queue' = Append(queue, j)
       \/ ~closed /\ Len(queue) = mailer.queueSize /\ Become(j, "refused") /\ UNCHANGED queue
    /\ UNCHANGED <<mailer, work, attempts, closed, exited>>

-----------------------------------------------------------------------------
(* Workers.                                                                *)

\* range over the channel: also after it is closed, until it is empty.
Take(w) ==
    /\ w \notin exited /\ work[w] = None /\ queue # <<>>
    /\ work' = [work EXCEPT ![w] = Head(queue)]
    /\ queue' = Tail(queue)
    /\ Become(Head(queue), "sending")
    /\ UNCHANGED <<mailer, attempts, closed, exited>>

\* Mutant: a job that failed for the last time goes back into the channel.
AttemptRequeued(w) ==
    LET j == work[w] IN
    /\ j # None /\ job[j] = "sending"
    /\ attempts' = [attempts EXCEPT ![j] = @ + 1]
    /\ \/ Become(j, "sent") /\ work' = [work EXCEPT ![w] = None] /\ UNCHANGED queue
       \/ /\ attempts[j] + 1 >= mailer.retries
          /\ Become(j, "queued") /\ work' = [work EXCEPT ![w] = None]
          /\ queue' = Append(queue, j)
       \/ /\ attempts[j] + 1 < mailer.retries
          /\ Become(j, "backoff") /\ UNCHANGED <<work, queue>>
    /\ UNCHANGED <<mailer, closed, exited>>

\* One pass of deliver's loop: the inner mailer succeeds, fails for the last
\* time, or fails and is backed off from.
Attempt(w) ==
    LET j == work[w] IN
    /\ j # None /\ job[j] = "sending"
    /\ attempts' = [attempts EXCEPT ![j] = @ + 1]
    /\ \/ Become(j, "sent") /\ work' = [work EXCEPT ![w] = None]
       \/ /\ attempts[j] + 1 = mailer.retries
          /\ Become(j, "failed") /\ work' = [work EXCEPT ![w] = None]
       \/ attempts[j] + 1 < mailer.retries /\ Become(j, "backoff") /\ UNCHANGED work
    /\ UNCHANGED <<mailer, queue, closed, exited>>

\* The backoff ends by its timer, or by stop, which gives the job up.
Backoff(w) ==
    LET j == work[w] IN
    /\ j # None /\ job[j] = "backoff"
    /\ \/ Become(j, "sending") /\ UNCHANGED work
       \/ closed /\ Become(j, "dropped") /\ work' = [work EXCEPT ![w] = None]
    /\ UNCHANGED <<mailer, queue, attempts, closed, exited>>

\* Mutant: a worker returns as soon as the channel is closed.
WorkerExitUndrained(w) ==
    /\ closed /\ work[w] = None /\ w \notin exited
    /\ exited' = exited \cup {w}
    /\ UNCHANGED <<mailer, job, queue, work, attempts, closed>>

\* The channel is closed and drained.
WorkerExit(w) ==
    /\ closed /\ queue = <<>> /\ work[w] = None /\ w \notin exited
    /\ exited' = exited \cup {w}
    /\ UNCHANGED <<mailer, job, queue, work, attempts, closed>>

\* Shutdown closes both channels; its caller then waits for the workers.
Shutdown ==
    /\ closed' = TRUE
    /\ UNCHANGED <<mailer, job, queue, work, attempts, exited>>

-----------------------------------------------------------------------------
InQueue(j) == \E i \in 1..Len(queue) : queue[i] = j

\* No mail is lost or delivered by two workers: an accepted job is in the
\* channel once, or with one worker, or done with, and was tried no more often
\* than the retries allow.
EachJobOnce ==
    /\ \A j \in Senders : job[j] = "queued" <=> InQueue(j)
    /\ \A i, k \in 1..Len(queue) : queue[i] = queue[k] => i = k
    /\ \A j \in Senders : job[j] \in {"sending", "backoff"} <=> \E w \in Workers : work[w] = j
    /\ \A v, w \in Workers : work[v] = work[w] /\ work[v] # None => v = w
    /\ \A j \in Senders : attempts[j] <= mailer.retries

=============================================================================
