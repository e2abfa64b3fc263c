----------------------------- MODULE ServerProofs -----------------------------
(***************************************************************************)
(* Server, proved for every set of requests, every .env file and every     *)
(* size of the pool and of the mailer: nothing is closed under a request   *)
(* (NothingClosedInUse), no mail is lost or sent twice over (EachJobOnce), *)
(* a shutdown within its deadline leaves neither mail nor span behind      *)
(* (DrainedInTime, TailTraced), and no request that is over keeps a        *)
(* connection (NoConnectionLeaks).                                         *)
(***************************************************************************)
EXTENDS Server, TLAPS

-----------------------------------------------------------------------------
(* Configuration.                                                          *)

\* What applyDefaults leaves in the sizes of the mailer is a number.
LEMMA DefaultsSizes ==
    ASSUME NEW c \in Configuration,
           NEW f \in {"MailerWorkers", "MailerQueueSize", "MailerRetries"}
    PROVE  applyDefaults(c)[f] \in Int
<1>1. f \in DOMAIN c /\ c[f] \in Int
  BY DEF Configuration
<1>2. Defaults[f] \in Int
  BY DEF Defaults
<1>3. applyDefaults(c)[f] = Defaults[f] \/ applyDefaults(c)[f] = c[f]
  BY <1>1 DEF applyDefaults
<1>. QED  BY <1>1, <1>2, <1>3

-----------------------------------------------------------------------------
(* The mailer.                                                             *)

Fates == {"none", "refused", "panic", "queued", "sending", "backoff", "sent", "failed", "dropped"}

MailType ==
    /\ job \in [Senders -> Fates]
    /\ queue \in Seq(Senders)
    /\ work \in [Workers -> Senders \cup {None}]
    /\ attempts \in [Senders -> Nat]
    /\ closed \in BOOLEAN
    /\ exited \subseteq Workers
    /\ mailer.retries \in Int

\* The channel holds the queued jobs, each once.
QueueInv ==
    /\ \A j \in Senders : job[j] = "queued" <=> InQueue(j)
    /\ \A i, k \in 1..Len(queue) : queue[i] = queue[k] => i = k

\* The workers hold the jobs under delivery, each with one of them.
WorkInv ==
    /\ \A j \in Senders : job[j] \in {"sending", "backoff"} <=> \E w \in Workers : work[w] = j
    /\ \A v, w \in Workers : work[v] = work[w] /\ work[v] # None => v = w

\* A job that is not done with has an attempt left.
TryInv ==
    \A j \in Senders :
        /\ attempts[j] <= mailer.retries
        /\ job[j] = "none" => attempts[j] = 0
        /\ job[j] \in {"queued", "sending", "backoff"} => attempts[j] < mailer.retries

\* A worker that has returned left nothing to do, and nothing can come.
ExitInv == \A w \in exited : closed /\ queue = <<>> /\ work[w] = None

MailInv == MailType /\ QueueInv /\ WorkInv /\ TryInv /\ ExitInv

LEMMA EnqueueMail ==
    ASSUME MailInv, NEW j \in Senders, job[j] = "none", Enqueue(j), mailer.retries >= 1
    PROVE  MailInv'
<1>. USE DEF MailInv
<1>t. Workers' = Workers /\ mailer' = mailer /\ work' = work /\ attempts' = attempts
      /\ closed' = closed /\ exited' = exited
  BY DEF Enqueue, Workers
<1>1. CASE ~closed /\ Become(j, "queued") /\ queue' = Append(queue, j)
  <2>1. MailType'
    BY <1>1, <1>t DEF MailType, Become, Fates
  <2>2. Len(queue') = Len(queue) + 1 /\ queue'[Len(queue) + 1] = j
        /\ \A i \in 1..Len(queue) : queue'[i] = queue[i]
    BY <1>1 DEF MailType
  <2>3. ~InQueue(j)
    BY DEF QueueInv, MailType
  <2>4. Len(queue) \in Nat
    BY DEF MailType
  <2>5. \A k \in Senders : InQueue(k)' <=> (InQueue(k) \/ k = j)
    BY <2>2, <2>4 DEF InQueue
  <2>6. QueueInv'
    <3>1. \A k \in Senders : job'[k] = "queued" <=> InQueue(k)'
      BY <1>1, <2>3, <2>5 DEF QueueInv, MailType, Become
    <3>2. \A i, k \in 1..Len(queue') : queue'[i] = queue'[k] => i = k
      BY <2>2, <2>3, <2>4 DEF QueueInv, InQueue
    <3>. QED  BY <3>1, <3>2 DEF QueueInv
  <2>7. WorkInv'
    BY <1>1, <1>t DEF WorkInv, MailType, Become
  <2>8. TryInv'
    BY <1>1, <1>t DEF TryInv, MailType, Become
  <2>9. ExitInv'
    BY <1>1, <1>t DEF ExitInv
  <2>. QED  BY <2>1, <2>6, <2>7, <2>8, <2>9
<1>2. CASE queue' = queue /\ (Become(j, "panic") \/ Become(j, "refused"))
  <2>1. MailType'
    BY <1>2, <1>t DEF MailType, Become, Fates
  <2>2. QueueInv'
    <3>1. \A k \in Senders : InQueue(k)' <=> InQueue(k)
      BY <1>2 DEF InQueue
    <3>. QED  BY <3>1, <1>2 DEF QueueInv, MailType, Become
  <2>3. WorkInv'
    BY <1>2, <1>t DEF WorkInv, MailType, Become
  <2>4. TryInv' /\ ExitInv'
    BY <1>2, <1>t DEF TryInv, ExitInv, MailType, Become
  <2>. QED  BY <2>1, <2>2, <2>3, <2>4
<1>. QED  BY <1>1, <1>2 DEF Enqueue

LEMMA TakeMail ==
    ASSUME MailInv, NEW w \in Workers, Take(w)
    PROVE  MailInv'
<1>. USE DEF MailInv
<1>. DEFINE h == Head(queue)
<1>t. Workers' = Workers /\ mailer' = mailer /\ attempts' = attempts /\ closed' = closed
      /\ exited' = exited
  BY DEF Take, Workers
<1>1. /\ Len(queue) \in Nat /\ Len(queue) >= 1 /\ h = queue[1] /\ h \in Senders
      /\ Tail(queue) \in Seq(Senders) /\ Len(Tail(queue)) = Len(queue) - 1
      /\ \A i \in 1..(Len(queue) - 1) : Tail(queue)[i] = queue[i + 1]
  BY DEF Take, MailType
<1>2. queue' = Tail(queue) /\ job' = [job EXCEPT ![h] = "sending"]
      /\ work' = [work EXCEPT ![w] = h] /\ work[w] = None /\ w \notin exited
  BY DEF Take, Become
<1>. HIDE DEF h
<1>3. MailType'
  BY <1>t, <1>1, <1>2 DEF MailType, Fates
<1>4. InQueue(h)
  BY <1>1 DEF InQueue
<1>5. \A j \in Senders : InQueue(j)' <=> InQueue(j) /\ j # h
  <2>1. ASSUME NEW j \in Senders, InQueue(j)'
        PROVE  InQueue(j) /\ j # h
    <3>1. PICK i \in 1..(Len(queue) - 1) : queue[i + 1] = j
      BY <2>1, <1>1, <1>2 DEF InQueue
    <3>2. i + 1 \in 1..Len(queue) /\ 1 \in 1..Len(queue) /\ i + 1 # 1
      BY <1>1
    <3>. QED  BY <3>1, <3>2, <1>1 DEF InQueue, QueueInv
  <2>2. ASSUME NEW j \in Senders, InQueue(j), j # h
        PROVE  InQueue(j)'
    <3>1. PICK i \in 1..Len(queue) : queue[i] = j
      BY <2>2 DEF InQueue
    <3>2. i - 1 \in 1..(Len(queue) - 1) /\ (i - 1) + 1 = i
      BY <2>2, <3>1, <1>1
    <3>3. queue'[i - 1] = j
      BY <3>1, <3>2, <1>1, <1>2
    <3>. QED  BY <3>2, <3>3, <1>1, <1>2 DEF InQueue
  <2>. QED  BY <2>1, <2>2
<1>6. QueueInv'
  <2>1. \A j \in Senders : job'[j] = "queued" <=> InQueue(j)'
    BY <1>1, <1>2, <1>5 DEF QueueInv, MailType
  <2>2. ASSUME NEW i \in 1..(Len(queue) - 1), NEW k \in 1..(Len(queue) - 1), queue'[i] = queue'[k]
        PROVE  i = k
    <3>1. i + 1 \in 1..Len(queue) /\ k + 1 \in 1..Len(queue)
      BY <1>1
    <3>2. queue[i + 1] = queue[k + 1]
      BY <2>2, <1>1, <1>2
    <3>3. i + 1 = k + 1
      BY <3>1, <3>2 DEF QueueInv
    <3>. QED  BY <3>3, <1>1
  <2>. QED  BY <2>1, <2>2, <1>1, <1>2 DEF QueueInv
<1>7. WorkInv'
  <2>1. job[h] = "queued" /\ \A v \in Workers : work[v] # h
    BY <1>1, <1>4 DEF QueueInv, WorkInv
  <2>2. \A v \in Workers : work'[v] = IF v = w THEN h ELSE work[v]
    BY <1>2 DEF MailType
  <2>3. \A j \in Senders : job'[j] = IF j = h THEN "sending" ELSE job[j]
    BY <1>2 DEF MailType
  <2>4. ASSUME NEW j \in Senders
        PROVE  job'[j] \in {"sending", "backoff"} <=> \E v \in Workers : work'[v] = j
    <3>1. CASE j = h
      BY <3>1, <2>2, <2>3
    <3>2. CASE j # h
      <4>1. (\E v \in Workers : work'[v] = j) <=> \E v \in Workers : work[v] = j
        BY <3>2, <2>2, <1>2, ServerAssumption
      <4>. QED  BY <4>1, <3>2, <2>3 DEF WorkInv
    <3>. QED  BY <3>1, <3>2
  <2>5. \A u, v \in Workers : work'[u] = work'[v] /\ work'[u] # None => u = v
    BY <2>1, <2>2 DEF WorkInv
  <2>. QED  BY <2>4, <2>5, <1>t DEF WorkInv
<1>8. TryInv'
  BY <1>t, <1>1, <1>2, <1>4 DEF TryInv, QueueInv, MailType
<1>9. ExitInv'
  BY <1>t, <1>1, <1>2 DEF ExitInv, MailType
<1>. QED  BY <1>3, <1>6, <1>7, <1>8, <1>9

\* A worker that gives its job up leaves the others theirs.
LEMMA WorkerDone ==
    ASSUME MailInv, NEW w \in Workers, work[w] # None,
           NEW fate \in {"sent", "failed", "dropped"},
           Become(work[w], fate), work' = [work EXCEPT ![w] = None],
           UNCHANGED <<mailer, queue, closed, exited>>
    PROVE  QueueInv' /\ WorkInv' /\ ExitInv' /\ job' \in [Senders -> Fates]
           /\ work' \in [Workers' -> Senders \cup {None}]
<1>. USE DEF MailInv
<1>. DEFINE j == work[w]
<1>t. Workers' = Workers /\ queue' = queue /\ closed' = closed /\ exited' = exited
  BY DEF Workers
<1>1. j \in Senders /\ job[j] \in {"sending", "backoff"}
  BY DEF MailType, WorkInv
<1>2. \A k \in Senders : job'[k] = IF k = j THEN fate ELSE job[k]
  BY DEF MailType, Become
<1>3. \A v \in Workers : work'[v] = IF v = w THEN None ELSE work[v]
  BY DEF MailType
<1>4. QueueInv'
  <2>1. \A k \in Senders : InQueue(k)' <=> InQueue(k)
    BY <1>t DEF InQueue
  <2>. QED  BY <2>1, <1>1, <1>2, <1>t DEF QueueInv
<1>5. WorkInv'
  <2>1. ASSUME NEW k \in Senders
        PROVE  job'[k] \in {"sending", "backoff"} <=> \E v \in Workers : work'[v] = k
    <3>. None \notin Senders
      BY ServerAssumption
    <3>1. CASE k = j
      BY <3>1, <1>2, <1>3 DEF WorkInv
    <3>2. CASE k # j
      <4>1. (\E v \in Workers : work'[v] = k) <=> \E v \in Workers : work[v] = k
        BY <3>2, <1>3
      <4>. QED  BY <4>1, <3>2, <1>2 DEF WorkInv
    <3>. QED  BY <3>1, <3>2
  <2>2. \A u, v \in Workers : work'[u] = work'[v] /\ work'[u] # None => u = v
    BY <1>3 DEF WorkInv
  <2>. QED  BY <2>1, <2>2, <1>t DEF WorkInv
<1>6. ExitInv'
  BY <1>t, <1>3 DEF ExitInv, MailType
<1>7. job' \in [Senders -> Fates] /\ work' \in [Workers' -> Senders \cup {None}]
  BY <1>t, <1>1 DEF MailType, Become, Fates
<1>. QED  BY <1>4, <1>5, <1>6, <1>7

\* A job stays with its worker, from an attempt to its backoff or back.
LEMMA WorkerStays ==
    ASSUME MailInv, NEW w \in Workers, work[w] # None,
           NEW fate \in {"sending", "backoff"},
           Become(work[w], fate),
           UNCHANGED <<mailer, queue, work, closed, exited>>
    PROVE  QueueInv' /\ WorkInv' /\ ExitInv' /\ job' \in [Senders -> Fates]
           /\ work' \in [Workers' -> Senders \cup {None}]
<1>. USE DEF MailInv
<1>. DEFINE j == work[w]
<1>t. Workers' = Workers /\ queue' = queue /\ work' = work /\ closed' = closed /\ exited' = exited
  BY DEF Workers
<1>1. j \in Senders /\ job[j] \in {"sending", "backoff"}
  BY DEF MailType, WorkInv
<1>2. \A k \in Senders : job'[k] = IF k = j THEN fate ELSE job[k]
  BY DEF MailType, Become
<1>3. QueueInv'
  <2>1. \A k \in Senders : InQueue(k)' <=> InQueue(k)
    BY <1>t DEF InQueue
  <2>. QED  BY <2>1, <1>1, <1>2, <1>t DEF QueueInv
<1>4. WorkInv'
  BY <1>t, <1>1, <1>2 DEF WorkInv
<1>5. ExitInv'
  BY <1>t DEF ExitInv
<1>6. job' \in [Senders -> Fates] /\ work' \in [Workers' -> Senders \cup {None}]
  BY <1>t, <1>1 DEF MailType, Become, Fates
<1>. QED  BY <1>3, <1>4, <1>5, <1>6

LEMMA AttemptMail ==
    ASSUME MailInv, NEW w \in Workers, Attempt(w)
    PROVE  MailInv'
<1>. DEFINE j == work[w]
<1>t. /\ mailer' = mailer /\ queue' = queue /\ closed' = closed /\ exited' = exited
      /\ attempts' = [attempts EXCEPT ![j] = @ + 1] /\ j # None /\ job[j] = "sending"
  BY DEF Attempt
<1>w. Workers' = Workers
  BY <1>t DEF Workers
<1>1. j \in Senders /\ attempts[j] \in Nat /\ mailer.retries \in Int
      /\ attempts[j] < mailer.retries
  BY <1>t DEF MailInv, MailType, TryInv
<1>2. \A k \in Senders : attempts'[k] = IF k = j THEN attempts[k] + 1 ELSE attempts[k]
  BY <1>t DEF MailInv, MailType
<1>3. QueueInv' /\ WorkInv' /\ ExitInv' /\ job' \in [Senders -> Fates]
      /\ work' \in [Workers' -> Senders \cup {None}]
  <2>1. CASE Become(j, "sent") /\ work' = [work EXCEPT ![w] = None]
    BY <2>1, <1>t, WorkerDone
  <2>2. CASE Become(j, "failed") /\ work' = [work EXCEPT ![w] = None]
    BY <2>2, <1>t, WorkerDone
  <2>3. CASE Become(j, "backoff") /\ UNCHANGED work
    BY <2>3, <1>t, WorkerStays
  <2>. QED  BY <2>1, <2>2, <2>3 DEF Attempt
<1>4. MailType'
  <2>1. attempts \in [Senders -> Nat] /\ queue \in Seq(Senders) /\ closed \in BOOLEAN
        /\ exited \subseteq Workers
    BY DEF MailInv, MailType
  <2>2. attempts' \in [Senders -> Nat]
    BY <2>1, <1>t, <1>1
  <2>. QED  BY <2>1, <2>2, <1>t, <1>w, <1>1, <1>3 DEF MailType
<1>5. TryInv'
  <2>1. CASE Become(j, "sent") \/ Become(j, "failed")
    <3>1. \A k \in Senders : k # j => job'[k] = job[k]
      BY <2>1 DEF Become, MailInv, MailType
    <3>2. job'[j] \in {"sent", "failed"}
      BY <2>1, <1>1 DEF Become, MailInv, MailType
    <3>. QED  BY <3>1, <3>2, <1>t, <1>1, <1>2 DEF MailInv, MailType, TryInv
  <2>2. CASE attempts[j] + 1 < mailer.retries /\ Become(j, "backoff")
    <3>1. \A k \in Senders : job'[k] = IF k = j THEN "backoff" ELSE job[k]
      BY <2>2 DEF Become, MailInv, MailType
    <3>. QED  BY <3>1, <2>2, <1>t, <1>1, <1>2 DEF MailInv, MailType, TryInv
  <2>. QED  BY <2>1, <2>2 DEF Attempt
<1>. QED  BY <1>3, <1>4, <1>5 DEF MailInv

LEMMA BackoffMail ==
    ASSUME MailInv, NEW w \in Workers, Backoff(w)
    PROVE  MailInv'
<1>. DEFINE j == work[w]
<1>t. /\ mailer' = mailer /\ queue' = queue /\ closed' = closed /\ exited' = exited
      /\ attempts' = attempts /\ j # None /\ job[j] = "backoff"
  BY DEF Backoff
<1>w. Workers' = Workers
  BY <1>t DEF Workers
<1>1. j \in Senders
  BY <1>t DEF MailInv, MailType
<1>2. QueueInv' /\ WorkInv' /\ ExitInv' /\ job' \in [Senders -> Fates]
      /\ work' \in [Workers' -> Senders \cup {None}]
  <2>1. CASE Become(j, "sending") /\ UNCHANGED work
    BY <2>1, <1>t, WorkerStays
  <2>2. CASE Become(j, "dropped") /\ work' = [work EXCEPT ![w] = None]
    BY <2>2, <1>t, WorkerDone
  <2>. QED  BY <2>1, <2>2 DEF Backoff
<1>3. MailType'
  BY <1>t, <1>w, <1>2 DEF MailInv, MailType
<1>4. \A k \in Senders : job'[k] = job[k] \/ (k = j /\ job'[k] \in {"sending", "dropped"})
  BY <1>1 DEF Backoff, Become, MailInv, MailType
<1>5. TryInv'
  BY <1>t, <1>4 DEF MailInv, TryInv
<1>. QED  BY <1>2, <1>3, <1>5 DEF MailInv

LEMMA WorkerExitMail ==
    ASSUME MailInv, NEW w \in Workers, WorkerExit(w)
    PROVE  MailInv'
<1>t. /\ mailer' = mailer /\ job' = job /\ queue' = queue /\ work' = work
      /\ attempts' = attempts /\ closed' = closed /\ exited' = exited \cup {w}
  BY DEF WorkerExit
<1>w. Workers' = Workers
  BY <1>t DEF Workers
<1>1. MailType' /\ WorkInv' /\ TryInv'
  BY <1>t, <1>w DEF MailInv, MailType, WorkInv, TryInv
<1>2. QueueInv'
  BY <1>t DEF MailInv, QueueInv, InQueue
<1>3. ExitInv'
  BY <1>t DEF MailInv, ExitInv, WorkerExit
<1>. QED  BY <1>1, <1>2, <1>3 DEF MailInv

LEMMA ShutdownMail ==
    ASSUME MailInv, Shutdown
    PROVE  MailInv'
<1>t. /\ mailer' = mailer /\ job' = job /\ queue' = queue /\ work' = work
      /\ attempts' = attempts /\ closed' = TRUE /\ exited' = exited
  BY DEF Shutdown
<1>w. Workers' = Workers
  BY <1>t DEF Workers
<1>1. MailType' /\ WorkInv' /\ TryInv'
  BY <1>t, <1>w DEF MailInv, MailType, WorkInv, TryInv
<1>2. QueueInv' /\ ExitInv'
  BY <1>t DEF MailInv, QueueInv, InQueue, ExitInv
<1>. QED  BY <1>1, <1>2 DEF MailInv

LEMMA UnchangedMail ==
    ASSUME MailInv, UNCHANGED mailerVars
    PROVE  MailInv'
<1>t. /\ mailer' = mailer /\ job' = job /\ queue' = queue /\ work' = work
      /\ attempts' = attempts /\ closed' = closed /\ exited' = exited
  BY DEF mailerVars
<1>w. Workers' = Workers
  BY <1>t DEF Workers
<1>1. MailType' /\ WorkInv' /\ TryInv'
  BY <1>t, <1>w DEF MailInv, MailType, WorkInv, TryInv
<1>2. QueueInv' /\ ExitInv'
  BY <1>t DEF MailInv, QueueInv, InQueue, ExitInv
<1>. QED  BY <1>1, <1>2 DEF MailInv

-----------------------------------------------------------------------------
(* Requests.                                                               *)

Steps == {"new", "find", "found", "mail", "update", "invalidate", "row", "ping", "pinged",
          "answer", "done"}

FlowType ==
    /\ at \in [Requests -> Steps]
    /\ gone \in [Requests -> BOOLEAN]
    /\ held \in [Requests -> Int]

\* A request has no connection before its queries and after its end, and one
\* while a lookup or a ping runs.
PoolInv ==
    \A p \in Requests :
        /\ at[p] \in {"new", "find", "mail", "update", "ping", "done"} => held[p] = 0
        /\ at[p] \in {"found", "pinged"} => held[p] = 1

\* A request that has not come to its mail has none, and only SendOTP comes to one.
JobInv ==
    /\ \A p \in Senders : at[p] \in {"new", "find", "found", "mail"} => job[p] = "none"
    /\ \A p \in Requests : at[p] = "mail" => p \in Senders

FlowInv == FlowType /\ PoolInv /\ JobInv

\* The steps that leave the mailer alone.
LEMMA QueryFlow ==
    ASSUME FlowInv, NEW p \in Requests, UNCHANGED mailerVars,
           \/ Arrive(p) \/ Find(p) \/ Found(p) \/ ChangeActiveUser(p) \/ GetByID(p)
           \/ Invalidate(p) \/ Ready(p) \/ Answer(p) \/ HangUp(p)
    PROVE  FlowInv'
<1>. USE DEF FlowInv, FlowType, PoolInv, JobInv, Steps, Go, Conn, CloseRows,
             ContextDone, poolVars
<1>j. job' = job /\ Senders \subseteq Requests /\ Verifiers \subseteq Requests
  BY ServerAssumption DEF mailerVars
<1>1. CASE Arrive(p)
  BY <1>1, <1>j DEF Arrive
<1>2. CASE Find(p)
  BY <1>2, <1>j DEF Find, AfterLookup
<1>3. CASE Found(p)
  BY <1>3, <1>j DEF Found, AfterLookup
<1>4. CASE ChangeActiveUser(p)
  BY <1>4, <1>j DEF ChangeActiveUser
<1>5. CASE GetByID(p)
  BY <1>5, <1>j DEF GetByID
<1>6. CASE Invalidate(p)
  BY <1>6, <1>j DEF Invalidate
<1>7. CASE Ready(p)
  BY <1>7, <1>j DEF Ready
<1>8. CASE Answer(p)
  BY <1>8, <1>j DEF Answer
<1>9. CASE HangUp(p)
  BY <1>9, <1>j DEF HangUp
<1>. QED  BY <1>1, <1>2, <1>3, <1>4, <1>5, <1>6, <1>7, <1>8, <1>9

LEMMA SendMailFlow ==
    ASSUME FlowInv, MailType, NEW p \in Senders, SendMail(p)
    PROVE  FlowInv'
<1>1. Senders \subseteq Requests /\ Verifiers \subseteq Requests
  BY ServerAssumption
<1>2. \A j \in Senders : j # p => job'[j] = job[j]
  BY DEF SendMail, Enqueue, Become, MailType
<1>. QED  BY <1>1, <1>2 DEF FlowInv, FlowType, PoolInv, JobInv, Steps,
                            SendMail, Go, poolVars

\* A worker's step leaves the requests alone, and the mails that are not its own.
LEMMA WorkerFlow ==
    ASSUME FlowInv, MailInv, NEW w \in Workers, UNCHANGED <<requestVars, poolVars>>,
           Take(w) \/ Attempt(w) \/ Backoff(w) \/ WorkerExit(w)
    PROVE  FlowInv'
<1>1. /\ at' = at /\ gone' = gone /\ held' = held
      /\ Senders \subseteq Requests
  BY ServerAssumption DEF requestVars, poolVars
<1>2. \A j \in Senders : job[j] = "none" => job'[j] = "none"
  <2>1. CASE Take(w)
    <3>1. Head(queue) \in Senders /\ InQueue(Head(queue))
      BY <2>1 DEF Take, MailInv, MailType, InQueue
    <3>. QED  BY <2>1, <3>1 DEF Take, Become, MailInv, MailType, QueueInv
  <2>2. CASE Attempt(w)
    BY <2>2 DEF Attempt, Become, MailInv, MailType
  <2>3. CASE Backoff(w)
    BY <2>3 DEF Backoff, Become, MailInv, MailType
  <2>4. CASE WorkerExit(w)
    BY <2>4 DEF WorkerExit
  <2>. QED  BY <2>1, <2>2, <2>3, <2>4
<1>. QED  BY <1>1, <1>2 DEF FlowInv, FlowType, PoolInv, JobInv

LEMMA UnchangedFlow ==
    ASSUME FlowInv, UNCHANGED <<requestVars, held, job>>
    PROVE  FlowInv'
BY DEF FlowInv, FlowType, PoolInv, JobInv, requestVars

-----------------------------------------------------------------------------
(* The life of the process.                                                *)

Stages == {"init", "configured", "traced", "connected", "serving", "stopping", "stopped",
           "draining", "closing", "flushing", "flushed", "exit", "fatal"}

LifeType ==
    /\ run \in Stages
    /\ listening \in BOOLEAN /\ deadline \in BOOLEAN /\ buffered \in BOOLEAN

\* Nothing has happened yet but parts of the start.
Untouched ==
    /\ \A p \in Requests : at[p] = "new"
    /\ \A j \in Senders : job[j] = "none"
    /\ \A j \in Senders : attempts[j] = 0
    /\ queue = <<>>
    /\ \A w \in Workers : work[w] = None
    /\ exited = {} /\ ~closed /\ ~buffered

StartInv ==
    /\ run \in {"init", "configured", "traced", "connected"} => Untouched
    /\ run = "serving" /\ ~listening => Untouched
    /\ listening => run = "serving"
    /\ run = "init" => app \in Configuration
    /\ run \in {"configured", "traced", "connected"} =>
            app["MailerWorkers"] \in Int /\ app["MailerRetries"] \in Int
    /\ run \in Stages \ {"init", "configured", "traced", "connected", "exit", "fatal"} =>
            1 \in Workers /\ mailer.retries >= 1

\* From the end of HttpServer.Shutdown on there is no request, from the end of
\* asyncMailer.Shutdown on no worker, unless the deadline has passed.
StopInv ==
    /\ closed => run \in {"draining", "closing", "flushing", "flushed", "exit"}
    /\ run \in {"stopped", "draining", "closing", "flushing", "flushed"} => Open = {}
    /\ run \in {"closing", "flushing", "flushed"} /\ ~deadline => exited = Workers
    /\ run = "flushed" /\ ~deadline => ~buffered
    /\ run = "exit" /\ ~deadline => Unsettled = {} /\ ~buffered
    /\ \A j \in Senders : job[j] # "panic"

LifeInv == LifeType /\ StartInv /\ StopInv

IInv == MailInv /\ FlowInv /\ LifeInv

LEMMA InitIInv == Init => IInv
<1>. SUFFICES ASSUME Init PROVE IInv
  OBVIOUS
<1>. USE DEF Init, MailerInit, PoolInit
<1>0. Workers = {} /\ Senders \subseteq Requests /\ Verifiers \subseteq Requests
  BY ServerAssumption DEF Workers
<1>1. MailInv
  <2>0. work \in [Workers -> Senders \cup {None}]
    BY <1>0
  <2>1. MailType
    <3>1. job \in [Senders -> Fates] /\ attempts \in [Senders -> Nat]
      BY DEF Fates
    <3>2. queue \in Seq(Senders) /\ exited \subseteq Workers
      OBVIOUS
    <3>4. closed \in BOOLEAN
      BY Zenon
    <3>3. mailer.retries \in Int
      OBVIOUS
    <3>. QED  BY <2>0, <3>1, <3>2, <3>3, <3>4 DEF MailType
  <2>2. QueueInv /\ WorkInv /\ TryInv /\ ExitInv
    BY <1>0 DEF QueueInv, WorkInv, TryInv, ExitInv, InQueue
  <2>. QED  BY <2>1, <2>2 DEF MailInv
<1>2. FlowInv
  BY <1>0 DEF FlowInv, FlowType, PoolInv, JobInv, Steps
<1>3. LifeInv
  BY <1>0, ServerAssumption DEF LifeInv, LifeType, StartInv, StopInv, Untouched, Stages
<1>. QED  BY <1>1, <1>2, <1>3 DEF IInv

-----------------------------------------------------------------------------
(* The start.                                                              *)

\* A step of the start leaves requests and mailer untouched.
LEMMA StartSteps ==
    ASSUME IInv, InitializeAppConfig \/ SetupTracing \/ SetupSQLXPostgres \/ ListenAndServe
    PROVE  LifeInv'
<1>. USE DEF IInv, LifeInv
<1>1. /\ UNCHANGED <<deadline, buffered, requestVars, mailerVars>>
      /\ run \in {"init", "configured", "traced", "serving"} /\ Untouched /\ ~closed
      /\ run' \in Stages /\ listening' \in BOOLEAN
  BY DEF InitializeAppConfig, SetupTracing, SetupSQLXPostgres, ListenAndServe, StartInv, Stages,
         LifeType, Untouched
<1>2. Untouched' /\ Workers' = Workers
  BY <1>1 DEF Untouched, Workers, requestVars, mailerVars
<1>3. LifeType'
  BY <1>1 DEF LifeType
<1>4. StopInv'
  <2>1. ~closed' /\ ~buffered' /\ \A j \in Senders : job'[j] = "none"
    BY <1>2 DEF Untouched
  <2>2. run' \in {"configured", "traced", "connected", "serving", "exit", "fatal"}
    BY DEF InitializeAppConfig, SetupTracing, SetupSQLXPostgres, ListenAndServe
  <2>. QED  BY <2>1, <2>2 DEF StopInv, Unsettled
<1>5. StartInv'
  <2>1. CASE InitializeAppConfig
    <3>1. app'["MailerWorkers"] \in Int /\ app'["MailerRetries"] \in Int
      BY <2>1, DefaultsSizes DEF InitializeAppConfig, StartInv
    <3>2. run' \in {"configured", "exit"} /\ ~listening'
      BY <2>1 DEF InitializeAppConfig, StartInv, LifeType
    <3>. QED  BY <3>1, <3>2, <1>2 DEF StartInv
  <2>2. CASE SetupTracing
    BY <2>2, <1>2 DEF SetupTracing, StartInv
  <2>3. CASE SetupSQLXPostgres
    BY <2>3, <1>2 DEF SetupSQLXPostgres, StartInv
  <2>4. CASE ListenAndServe
    <3>1. mailer' = mailer /\ 1 \in Workers /\ mailer.retries >= 1
      BY <2>4 DEF ListenAndServe, mailerVars, StartInv, Stages
    <3>2. run' = "serving" \/ (run' = "fatal" /\ ~listening')
      BY <2>4 DEF ListenAndServe
    <3>. QED  BY <3>1, <3>2, <1>2 DEF StartInv
  <2>. QED  BY <2>1, <2>2, <2>3, <2>4
<1>. QED  BY <1>3, <1>4, <1>5

LEMMA NewAppStep ==
    ASSUME IInv, NewApp
    PROVE  MailInv' /\ LifeInv'
<1>. USE DEF IInv, LifeInv
<1>0. /\ Untouched /\ app["MailerWorkers"] \in Int /\ app["MailerRetries"] \in Int
      /\ run = "connected" /\ ~listening
      /\ UNCHANGED <<listening, deadline, buffered, requestVars>>
      /\ at' = at
  BY DEF NewApp, StartInv, LifeType, requestVars
<1>1. CASE run' = "exit" /\ UNCHANGED mailerVars
  <2>1. MailInv'
    BY <1>1, UnchangedMail
  <2>2. LifeType' /\ StartInv'
    BY <1>0, <1>1 DEF LifeType, StartInv, Stages
  <2>3. job' = job /\ closed' = closed
    BY <1>1 DEF mailerVars
  <2>4. StopInv'
    BY <1>0, <1>1, <2>3 DEF StopInv, Unsettled, Untouched
  <2>. QED  BY <2>1, <2>2, <2>4
<1>2. CASE /\ run' = "serving"
           /\ NewAsyncOTPMailer(app.MailerWorkers, app.MailerQueueSize, app.MailerRetries)
  <2>1. /\ UNCHANGED <<job, queue, attempts, closed, exited>>
        /\ mailer'.workers \in Int /\ mailer'.workers >= 1
        /\ mailer'.retries \in Int /\ mailer'.retries >= 1
        /\ work' = [w \in Workers' |-> None]
    BY <1>0, <1>2 DEF NewAsyncOTPMailer, Workers
  <2>2. 1 \in Workers'
    BY <2>1 DEF Workers
  <2>. HIDE DEF Workers
  <2>3. Untouched'
    BY <1>0, <2>1 DEF Untouched
  <2>4. MailType'
    <3>1. work' \in [Workers' -> Senders \cup {None}]
      BY <2>1
    <3>2. exited' \subseteq Workers'
      BY <2>3 DEF Untouched
    <3>. QED  BY <2>1, <3>1, <3>2 DEF MailInv, MailType
  <2>5. QueueInv'
    BY <2>1 DEF MailInv, QueueInv, InQueue
  <2>6. WorkInv'
    BY <2>3, ServerAssumption DEF WorkInv, Untouched
  <2>7. TryInv' /\ ExitInv'
    BY <2>1, <2>3 DEF TryInv, ExitInv, Untouched
  <2>8. LifeType' /\ StartInv'
    BY <1>0, <1>2, <2>1, <2>2, <2>3 DEF LifeType, StartInv, Stages
  <2>9. StopInv'
    BY <1>2, <2>3 DEF StopInv, Untouched
  <2>. QED  BY <2>4, <2>5, <2>6, <2>7, <2>8, <2>9 DEF MailInv
<1>. QED  BY <1>1, <1>2 DEF NewApp

-----------------------------------------------------------------------------
(* Requests and workers, in the process.                                   *)

\* The steps of a request and of a worker while the server serves or waits for
\* its requests.
LEMMA LifeKept ==
    ASSUME LifeInv, run \in {"serving", "stopping"}, run = "serving" => listening,
           UNCHANGED <<lifeVars, mailer, closed>>, buffered' \in BOOLEAN,
           \A j \in Senders : job'[j] # "panic"
    PROVE  LifeInv'
<1>1. /\ run' = run /\ listening' = listening /\ deadline' = deadline /\ app' = app
      /\ closed' = closed /\ mailer' = mailer /\ Workers' = Workers
  BY DEF lifeVars, Workers
<1>2. LifeType'
  BY <1>1 DEF LifeInv, LifeType
<1>3. StartInv'
  BY <1>1 DEF LifeInv, StartInv
<1>4. StopInv'
  BY <1>1 DEF LifeInv, StopInv
<1>. QED  BY <1>2, <1>3, <1>4 DEF LifeInv

\* A request in flight finds the server up and the channel open.
LEMMA OpenRequest ==
    ASSUME LifeInv, Running, NEW p \in Requests, at[p] \notin {"new", "done"}
    PROVE  run \in {"serving", "stopping"} /\ (run = "serving" => listening) /\ ~closed
<1>1. Open # {} /\ ~Untouched
  BY DEF Open, Untouched
<1>. QED  BY <1>1 DEF LifeInv, LifeType, StartInv, StopInv, Running, Stages

LEMMA ArriveStep ==
    ASSUME IInv, NEW p \in Requests, Arrive(p)
    PROVE  IInv'
<1>. USE DEF IInv
<1>1. UNCHANGED <<lifeVars, buffered, mailerVars>> /\ run = "serving" /\ listening
  BY DEF Arrive, LifeInv, StartInv
<1>2. MailInv' /\ FlowInv'
  BY <1>1, UnchangedMail, QueryFlow
<1>3. UNCHANGED <<mailer, job, closed, buffered>>
  BY <1>1 DEF mailerVars
<1>4. LifeInv'
  BY <1>1, <1>3, LifeKept DEF LifeInv, LifeType, StopInv
<1>. QED  BY <1>2, <1>4

LEMMA QueryStep ==
    ASSUME IInv, Running, NEW p \in Requests,
           \/ Find(p) \/ Found(p) \/ ChangeActiveUser(p) \/ GetByID(p) \/ Invalidate(p)
           \/ Ready(p) \/ Answer(p) \/ HangUp(p)
    PROVE  IInv'
<1>. USE DEF IInv
<1>1. UNCHANGED <<lifeVars, mailerVars>> /\ at[p] \notin {"new", "done"}
  BY DEF Find, Found, ChangeActiveUser, GetByID, Invalidate, Ready, Answer, HangUp
<1>2. MailInv' /\ FlowInv'
  BY <1>1, UnchangedMail, QueryFlow
<1>3. UNCHANGED <<mailer, job, closed>>
  BY <1>1 DEF mailerVars
<1>4. buffered' \in BOOLEAN
  BY DEF Find, Found, ChangeActiveUser, GetByID, Invalidate, Ready, Answer, HangUp,
         EndSpan, LifeInv, LifeType
<1>5. run \in {"serving", "stopping"} /\ (run = "serving" => listening)
  BY <1>1, OpenRequest
<1>6. \A j \in Senders : job'[j] # "panic"
  BY <1>3 DEF LifeInv, StopInv
<1>7. LifeInv'
  BY <1>1, <1>3, <1>4, <1>5, <1>6, LifeKept
<1>. QED  BY <1>2, <1>7

LEMMA SendMailStep ==
    ASSUME IInv, Running, NEW p \in Requests, SendMail(p)
    PROVE  IInv'
<1>. USE DEF IInv
<1>1. UNCHANGED <<lifeVars, buffered>> /\ at[p] = "mail" /\ Enqueue(p)
  BY DEF SendMail
<1>2. run \in {"serving", "stopping"} /\ (run = "serving" => listening) /\ ~closed
  BY <1>1, OpenRequest
<1>3. p \in Senders
  BY <1>1 DEF FlowInv, JobInv
<1>4. job[p] = "none" /\ mailer.retries >= 1
  BY <1>1, <1>2, <1>3 DEF FlowInv, JobInv, LifeInv, StartInv, Stages
<1>5. MailInv'
  BY <1>1, <1>3, <1>4, EnqueueMail
<1>6. FlowInv'
  BY <1>3, SendMailFlow DEF MailInv
<1>7. UNCHANGED <<mailer, closed>>
  BY <1>1 DEF Enqueue
<1>8. \A j \in Senders : job'[j] # "panic"
  BY <1>1, <1>2, <1>3 DEF Enqueue, Become, MailInv, MailType, LifeInv, StopInv
<1>9. LifeInv'
  BY <1>1, <1>2, <1>7, <1>8, LifeKept DEF LifeInv, LifeType
<1>. QED  BY <1>5, <1>6, <1>9

\* A worker has something to do only after the start, and not once all workers
\* have returned.
LEMMA WorkerStep ==
    ASSUME IInv, NEW w \in Workers, Worker(w)
    PROVE  IInv'
<1>. USE DEF IInv
<1>1. /\ Running /\ UNCHANGED <<lifeVars, requestVars, poolVars>>
      /\ Take(w) \/ Attempt(w) \/ Backoff(w) \/ WorkerExit(w)
  BY DEF Worker
<1>2. MailInv' /\ FlowInv'
  BY <1>1, TakeMail, AttemptMail, BackoffMail, WorkerExitMail, WorkerFlow
<1>3. /\ UNCHANGED <<mailer, closed>> /\ Workers' = Workers
      /\ run' = run /\ deadline' = deadline /\ listening' = listening /\ app' = app /\ at' = at
  BY <1>1 DEF Take, Attempt, Backoff, WorkerExit, Workers, lifeVars, requestVars
<1>4. ~Untouched /\ w \notin exited
  BY <1>1 DEF Take, Attempt, Backoff, WorkerExit, Untouched, MailInv, ExitInv
<1>5. buffered' \in BOOLEAN
  BY DEF Worker, EndSpan, LifeInv, LifeType
<1>6. \A j \in Senders : job'[j] # "panic"
  <2>1. \A j \in Senders : job'[j] = job[j] \/ job'[j] # "panic"
    BY <1>1 DEF Take, Attempt, Backoff, WorkerExit, Become, MailInv, MailType
  <2>. QED  BY <2>1 DEF LifeInv, StopInv
<1>7. CASE run \in {"serving", "stopping"}
  <2>1. run = "serving" => listening
    BY <1>4 DEF LifeInv, StartInv
  <2>2. LifeInv'
    BY <1>1, <1>3, <1>5, <1>6, <1>7, <2>1, LifeKept
  <2>. QED  BY <1>2, <2>2
<1>8. CASE run \notin {"serving", "stopping"}
  <2>1. run \in {"stopped", "draining", "closing", "flushing", "flushed"}
    BY <1>1, <1>4, <1>8 DEF LifeInv, LifeType, StartInv, Running, Stages
  <2>2. run \in {"closing", "flushing", "flushed"} => deadline
    BY <1>4 DEF LifeInv, StopInv
  <2>3. LifeType' /\ StartInv'
    BY <1>3, <1>5, <2>1 DEF LifeInv, LifeType, StartInv
  <2>4. StopInv'
    BY <1>3, <1>6, <2>1, <2>2 DEF LifeInv, StopInv, Open
  <2>. QED  BY <1>2, <2>3, <2>4 DEF LifeInv
<1>. QED  BY <1>7, <1>8

-----------------------------------------------------------------------------
(* The end.                                                                *)

\* Nobody has mail in hand when all workers have returned.
LEMMA AllExited ==
    ASSUME MailInv, exited = Workers, 1 \in Workers
    PROVE  Unsettled = {}
<1>1. queue = <<>> /\ \A w \in Workers : work[w] = None
  BY DEF MailInv, ExitInv
<1>2. \A j \in Senders : ~InQueue(j)
  BY <1>1 DEF InQueue
<1>3. None \notin Senders
  BY ServerAssumption
<1>. QED  BY <1>1, <1>2, <1>3 DEF MailInv, QueueInv, WorkInv, Unsettled

LEMMA StopSteps ==
    ASSUME IInv,
           \/ Quit \/ Expire \/ HttpShutdown \/ Drained \/ CloseStores \/ TracerShutdown \/ Return
    PROVE  LifeInv'
<1>. USE DEF IInv, LifeInv
<1>1. /\ app' = app /\ at' = at /\ job' = job /\ closed' = closed /\ exited' = exited
      /\ mailer' = mailer
  BY SMTT(30) DEF Quit, Expire, HttpShutdown, Drained, CloseStores, TracerShutdown, Return,
                  requestVars, mailerVars
<1>2. Workers' = Workers /\ Open' = Open /\ Unsettled' = Unsettled
  BY <1>1 DEF Workers, Open, Unsettled
<1>3. run \in Stages \ {"init", "configured", "traced", "connected", "exit", "fatal"}
      /\ 1 \in Workers /\ mailer.retries >= 1
  BY DEF Quit, Expire, HttpShutdown, Drained, CloseStores, TracerShutdown, Return, StartInv, Stages
<1>4. /\ run' \in {"stopping", "stopped", "draining", "closing", "flushing", "flushed", "exit"}
      /\ ~listening'
  BY DEF Quit, Expire, HttpShutdown, Drained, CloseStores, TracerShutdown, Return, StartInv, LifeType
<1>5. deadline' \in BOOLEAN /\ buffered' \in BOOLEAN /\ listening' \in BOOLEAN
  <2>0. listening' = listening \/ listening' = FALSE
    BY DEF Quit, Expire, HttpShutdown, Drained, CloseStores, TracerShutdown, Return
  <2>1. CASE TracerShutdown
    BY <2>0, <2>1 DEF TracerShutdown, LifeType
  <2>2. CASE ~TracerShutdown
    <3>1. buffered' = buffered /\ (deadline' = deadline \/ deadline' = TRUE)
      BY <2>2 DEF Quit, Expire, HttpShutdown, Drained, CloseStores, Return
    <3>. QED  BY <2>0, <3>1 DEF LifeType
  <2>. QED  BY <2>1, <2>2
<1>6. LifeType'
  BY <1>4, <1>5 DEF LifeType, Stages
<1>7. StartInv'
  BY <1>1, <1>2, <1>3, <1>4 DEF StartInv
<1>8. StopInv'
  <2>. USE DEF StopInv
  <2>1. CASE Quit
    BY <2>1, <1>1, <1>2 DEF Quit
  <2>2. CASE Expire
    BY <2>2, <1>1, <1>2 DEF Expire
  <2>3. CASE HttpShutdown
    BY <2>3, <1>1, <1>2 DEF HttpShutdown
  <2>4. CASE Drained
    BY <2>4, <1>1, <1>2 DEF Drained
  <2>5. CASE CloseStores
    BY <2>5, <1>1, <1>2 DEF CloseStores
  <2>6. CASE TracerShutdown
    BY <2>6, <1>1, <1>2 DEF TracerShutdown
  <2>7. CASE Return
    BY <2>7, <1>1, <1>2, <1>3, AllExited DEF Return
  <2>. QED  BY <2>1, <2>2, <2>3, <2>4, <2>5, <2>6, <2>7
<1>. QED  BY <1>6, <1>7, <1>8

\* The listener fails: the process is gone as it stands.
LEMMA ServeFailsStep ==
    ASSUME IInv, ServeFails
    PROVE  LifeInv'
<1>. USE DEF IInv, LifeInv
<1>1. /\ job' = job /\ closed' = closed /\ run = "serving" /\ run' = "fatal"
      /\ listening' = FALSE /\ UNCHANGED <<deadline, buffered>>
  BY DEF ServeFails, mailerVars
<1>2. ~closed
  BY <1>1 DEF StopInv
<1>. QED  BY <1>1, <1>2 DEF LifeType, StartInv, StopInv, Stages

LEMMA MailerShutdownStep ==
    ASSUME IInv, MailerShutdown
    PROVE  MailInv' /\ LifeInv'
<1>. USE DEF IInv, LifeInv
<1>1. MailInv'
  BY ShutdownMail DEF MailerShutdown
<1>2. /\ app' = app /\ at' = at /\ job' = job /\ exited' = exited /\ mailer' = mailer
      /\ UNCHANGED <<listening, deadline, buffered>> /\ run = "stopped" /\ run' = "draining"
  BY DEF MailerShutdown, Shutdown, requestVars
<1>3. Workers' = Workers /\ Open' = Open
  BY <1>2 DEF Workers, Open
<1>4. LifeType' /\ StartInv' /\ StopInv'
  BY <1>2, <1>3 DEF LifeType, StartInv, StopInv, Stages
<1>. QED  BY <1>1, <1>4

-----------------------------------------------------------------------------
(* The theorems.                                                           *)

\* Every step of Next preserves the invariant.
LEMMA NextIInv ==
    ASSUME IInv, [Next]_vars
    PROVE  IInv'
<1>1. CASE InitializeAppConfig \/ SetupTracing \/ SetupSQLXPostgres \/ ListenAndServe
  <2>1. UNCHANGED <<requestVars, mailerVars, held, job>>
    BY <1>1 DEF InitializeAppConfig, SetupTracing, SetupSQLXPostgres, ListenAndServe, mailerVars,
                poolVars, InitializeSQLXDatabase
  <2>. QED  BY <1>1, <2>1, StartSteps, UnchangedMail, UnchangedFlow DEF IInv
<1>2. CASE NewApp
  <2>1. UNCHANGED <<requestVars, held, job>>
    BY <1>2 DEF NewApp, NewAsyncOTPMailer, mailerVars, poolVars
  <2>. QED  BY <1>2, <2>1, NewAppStep, UnchangedFlow DEF IInv
<1>3. CASE \/ Quit \/ Expire \/ HttpShutdown \/ Drained \/ CloseStores \/ TracerShutdown \/ Return
  <2>1. UNCHANGED <<requestVars, mailerVars, held, job>>
    BY <1>3 DEF Quit, Expire, HttpShutdown, Drained, CloseStores, TracerShutdown, Return,
                mailerVars, poolVars
  <2>. QED  BY <1>3, <2>1, StopSteps, UnchangedMail, UnchangedFlow DEF IInv
<1>4. CASE MailerShutdown
  <2>1. UNCHANGED <<requestVars, held, job>>
    BY <1>4 DEF MailerShutdown, Shutdown, poolVars
  <2>. QED  BY <1>4, <2>1, MailerShutdownStep, UnchangedFlow DEF IInv
<1>5. ASSUME NEW p \in Requests, Arrive(p)
      PROVE  IInv'
  BY <1>5, ArriveStep
<1>6. ASSUME NEW p \in Requests, Step(p)
      PROVE  IInv'
  BY <1>6, QueryStep, SendMailStep DEF Step
<1>7. ASSUME NEW p \in Requests, Running, HangUp(p)
      PROVE  IInv'
  BY <1>7, QueryStep
<1>8. ASSUME NEW w \in Workers, Worker(w)
      PROVE  IInv'
  BY <1>8, WorkerStep
<1>9. CASE ServeFails
  <2>1. UNCHANGED <<requestVars, mailerVars, held, job>>
    BY <1>9 DEF ServeFails, mailerVars, poolVars
  <2>. QED  BY <1>9, <2>1, ServeFailsStep, UnchangedMail, UnchangedFlow DEF IInv
<1>10. CASE UNCHANGED vars
  <2>1. /\ UNCHANGED <<requestVars, mailerVars, held, job>>
        /\ app' = app /\ run' = run /\ listening' = listening /\ deadline' = deadline
        /\ buffered' = buffered /\ at' = at /\ closed' = closed /\ exited' = exited
        /\ mailer' = mailer /\ queue' = queue /\ work' = work /\ attempts' = attempts
    BY <1>10 DEF vars, lifeVars, requestVars, mailerVars, poolVars
  <2>2. Workers' = Workers /\ Open' = Open /\ Unsettled' = Unsettled /\ Untouched' = Untouched
    BY <2>1 DEF Workers, Open, Unsettled, Untouched
  <2>3. LifeInv'
    BY <2>1, <2>2 DEF IInv, LifeInv, LifeType, StartInv, StopInv
  <2>. QED  BY <2>1, <2>3, UnchangedMail, UnchangedFlow DEF IInv
<1>. QED  BY <1>1, <1>2, <1>3, <1>4, <1>5, <1>6, <1>7, <1>8, <1>9, <1>10 DEF Next, Main

\* The inductive invariant holds of every life of the process.
THEOREM ServerInvariance == Spec => []IInv
<1>1. Init => IInv
  BY InitIInv
<1>2. IInv /\ [Next]_vars => IInv'
  BY NextIInv
<1>. QED  BY <1>1, <1>2, PTL DEF Spec

\* Run takes the mail queue and the stores down only when no handler is left, for
\* every number of requests and workers and every moment of the deadline.
THEOREM ClosedUnused == Spec => []NothingClosedInUse
<1>1. IInv => NothingClosedInUse
  BY DEF IInv, LifeInv, StopInv, NothingClosedInUse, Running
<1>. QED  BY <1>1, ServerInvariance, PTL

\* AsyncOTPMailer loses no job and gives none to two workers, whatever its sizes.
THEOREM JobsOnce == Spec => []EachJobOnce
<1>1. IInv => EachJobOnce
  BY DEF IInv, MailInv, QueueInv, WorkInv, TryInv, EachJobOnce
<1>. QED  BY <1>1, ServerInvariance, PTL

\* A shutdown within its deadline leaves no accepted mail undelivered, whatever
\* the requests that were still accepting mail when it began.
THEOREM QueueIsDrained == Spec => []DrainedInTime
<1>1. IInv => DrainedInTime
  BY DEF IInv, LifeInv, StopInv, DrainedInTime
<1>. QED  BY <1>1, ServerInvariance, PTL

\* The exporter is flushed after everything that records spans has stopped: a
\* shutdown within its deadline leaves no span unexported.
THEOREM TailIsTraced == Spec => []TailTraced
<1>1. IInv => TailTraced
  BY DEF IInv, LifeInv, StopInv, TailTraced
<1>. QED  BY <1>1, ServerInvariance, PTL

\* A request gives back what it takes from the pool on every path through it.
THEOREM RequestsCleanUp == Spec => []NoConnectionLeaks
<1>1. IInv => NoConnectionLeaks
  <2>. SUFFICES ASSUME IInv, NEW p \in Requests, held[p] > 0
                PROVE  at[p] \notin {"new", "find", "mail", "update", "ping", "done"}
    BY DEF NoConnectionLeaks
  <2>1. ~(held[p] = 0)
    OBVIOUS
  <2>. QED  BY <2>1 DEF IInv, FlowInv, PoolInv
<1>. QED  BY <1>1, ServerInvariance, PTL

=============================================================================
