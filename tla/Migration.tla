------------------------------ MODULE Migration ------------------------------
(***************************************************************************)
(* The migration runner (migration.Runner) and the five migrations it is   *)
(* shipped with.  Several runners work on one database; each takes the     *)
(* session-level advisory lock of Postgres, runs the files of its          *)
(* direction in order, one transaction for each, and gives the lock back.  *)
(* A statement between two transactions finds a pooled connection: when    *)
(* the one that took the lock is gone (ConnMaxLifetime, network) the       *)
(* runner goes on with another, and Postgres has released the lock.        *)
(***************************************************************************)
EXTENDS Integers, Sequences

CONSTANTS
    Runners, \* processes that run cmd/migration
    None,    \* no holder of the lock
    Faults   \* "fail": a statement fails; "crash": a process dies;
             \* "session": a pooled connection is replaced

ASSUME MigrationAssumption ==
    None \notin Runners /\ Faults \subseteq {"fail", "crash", "session"}

VARIABLES
    schema,  \* what the migrations have created
    applied, \* the names in schema_migrations
    lock,    \* the runner whose session holds the advisory lock
    at,      \* at[r]: where runner r is
    way,     \* way[r]: "up" or "down"
    file,    \* file[r]: the number of the file that is next
    seen,    \* seen[r]: what loadApplied returned
    settled, \* history: an Up succeeded and no Down has begun to run since
    reverted, \* history: a Down succeeded and no Up has begun to run since
    severed  \* history: a runner went on after its session had ended

vars == <<schema, applied, lock, at, way, file, seen, settled, reverted, severed>>

\* The files by number; a name without its .up.sql or .down.sql.
UpFiles == <<"1_create_tables_users", "2_create_extensions_uuid", "3_partial_unique_users",
             "4_normalize_email_username", "5_users_password_changed_at">>
DownFiles == <<"1_drop_tables_users", "2_drop_extensions_uuid", "3_partial_unique_users",
               "4_normalize_email_username", "5_users_password_changed_at">>
Files == 1..Len(UpFiles)

\* The name under which a down file looks for its migration.
deriveUpName(n) == DownFiles[n]

\* What file n of a direction needs (else its SQL fails), and what it makes of
\* the schema.  Up 1 creates an index that must not exist; the later ones
\* alter the users table; down 3 adds constraints that must not exist.
Executes(d, n, s) ==
    IF d = "up" THEN CASE n = 1 -> "users" \notin s
                       [] n = 2 -> TRUE
                       [] OTHER -> "users" \in s
    ELSE CASE n \in {1, 2} -> TRUE
           [] n = 3 -> "users" \in s /\ "full" \notin s
           [] OTHER -> "users" \in s

Result(d, n, s) ==
    IF d = "up" THEN CASE n = 1 -> s \cup {"users", "full"}
                       [] n = 2 -> s \cup {"uuid"}
                       [] n = 3 -> (s \ {"full"}) \cup {"partial"}
                       [] n = 4 -> s \cup {"ci"}
                       [] n = 5 -> s \cup {"column"}
    ELSE CASE n = 1 -> s \cap {"uuid"}
           [] n = 2 -> s \ {"uuid"}
           [] n = 3 -> (s \ {"partial"}) \cup {"full"}
           [] n = 4 -> s \ {"ci"}
           [] n = 5 -> s \ {"column"}

Features == {"users", "uuid", "full", "partial", "ci", "column"}

\* What shows that migration n is in effect.
Mark(n) == <<"users", "uuid", "partial", "ci", "column">>[n]

Init ==
    /\ schema = {}
    /\ applied = {}
    /\ lock = None
    /\ at = [r \in Runners |-> "idle"]
    /\ way = [r \in Runners |-> "up"]
    /\ file = [r \in Runners |-> 1]
    /\ seen = [r \in Runners |-> {}]
    /\ settled = FALSE
    /\ reverted = FALSE
    /\ severed = FALSE

Go(r, s) == at' = [at EXCEPT ![r] = s]

\* The run is over, one way or the other.
Exit(r) ==
    /\ at' = [at EXCEPT ![r] = "idle"]
    /\ way' = [way EXCEPT ![r] = "up"]
    /\ file' = [file EXCEPT ![r] = 1]
    /\ seen' = [seen EXCEPT ![r] = {}]

-----------------------------------------------------------------------------
\* Up and Down start alike: schema_migrations is created when it is missing.
Start(r, d) ==
    /\ at[r] = "idle"
    /\ Go(r, "lock")
    /\ way' = [way EXCEPT ![r] = d]
    /\ UNCHANGED <<schema, applied, lock, file, seen, settled, reverted, severed>>

\* Mutant: the lock is not waited for.
AcquireUnlocked(r) ==
    /\ at[r] = "lock"
    /\ lock' = r
    /\ Go(r, IF way[r] = "up" THEN "load" ELSE "apply")
    /\ file' = [file EXCEPT ![r] = IF way[r] = "up" THEN 1 ELSE Len(DownFiles)]
    /\ settled' = (settled /\ way[r] = "up")
    /\ reverted' = (reverted /\ way[r] = "down")
    /\ UNCHANGED <<schema, applied, way, seen, severed>>

\* pg_advisory_lock waits until no other session holds the lock.
Acquire(r) ==
    /\ at[r] = "lock"
    /\ lock = None
    /\ lock' = r
    /\ Go(r, IF way[r] = "up" THEN "load" ELSE "apply")
    /\ file' = [file EXCEPT ![r] = IF way[r] = "up" THEN 1 ELSE Len(DownFiles)]
    /\ settled' = (settled /\ way[r] = "up")
    /\ reverted' = (reverted /\ way[r] = "down")
    /\ UNCHANGED <<schema, applied, way, seen, severed>>

loadApplied(r) ==
    /\ at[r] = "load"
    /\ \/ seen' = [seen EXCEPT ![r] = applied] /\ Go(r, "apply")
       \/ "fail" \in Faults /\ Go(r, "failed") /\ UNCHANGED seen
    /\ UNCHANGED <<schema, applied, lock, way, file, settled, reverted, severed>>

\* The transaction of file n commits: its SQL and its schema_migrations row.
Commit(d, n) ==
    /\ Executes(d, n, schema)
    /\ schema' = Result(d, n, schema)
    /\ applied' = IF d = "up" THEN applied \cup {UpFiles[n]} ELSE applied \ {deriveUpName(n)}

Advance(r) ==
    /\ file' = [file EXCEPT ![r] = IF way[r] = "up" THEN @ + 1 ELSE @ - 1]
    /\ UNCHANGED at

\* Mutant: the row is written outside the file's transaction.
applyFileSplit(r) ==
    /\ at[r] = "apply" /\ file[r] \in Files
    /\ way[r] = "down" \/ UpFiles[file[r]] \notin seen[r]
    /\ \/ Commit(way[r], file[r]) /\ Advance(r)
       \/ /\ "fail" \in Faults /\ Executes(way[r], file[r], schema)
          /\ schema' = Result(way[r], file[r], schema)
          /\ Go(r, "failed") /\ UNCHANGED <<applied, file>>
       \/ /\ ~Executes(way[r], file[r], schema)
          /\ Go(r, "failed") /\ UNCHANGED <<schema, applied, file>>
    /\ UNCHANGED <<lock, way, seen, settled, reverted, severed>>

\* Mutant: a file that fails is passed over.
applyFileContinued(r) ==
    /\ at[r] = "apply" /\ file[r] \in Files
    /\ way[r] = "down" \/ UpFiles[file[r]] \notin seen[r]
    /\ \/ Commit(way[r], file[r])
       \/ /\ "fail" \in Faults \/ ~Executes(way[r], file[r], schema)
          /\ UNCHANGED <<schema, applied>>
    /\ Advance(r)
    /\ UNCHANGED <<lock, way, seen, settled, reverted, severed>>

\* Mutant: a file that fails is tried again, under the lock.
applyFileRetried(r) ==
    /\ at[r] = "apply" /\ file[r] \in Files
    /\ way[r] = "down" \/ UpFiles[file[r]] \notin seen[r]
    /\ \/ Commit(way[r], file[r]) /\ Advance(r)
       \/ /\ "fail" \in Faults \/ ~Executes(way[r], file[r], schema)
          /\ UNCHANGED <<schema, applied, at, file>>
    /\ UNCHANGED <<lock, way, seen, settled, reverted, severed>>

\* One file: committed, committed without the runner learning of it, or rolled
\* back, because its SQL does not execute or a statement failed.
applyFile(r) ==
    /\ at[r] = "apply" /\ file[r] \in Files
    /\ way[r] = "down" \/ UpFiles[file[r]] \notin seen[r]
    /\ \/ Commit(way[r], file[r]) /\ Advance(r)
       \/ "fail" \in Faults /\ Commit(way[r], file[r]) /\ Go(r, "failed") /\ UNCHANGED file
       \/ /\ "fail" \in Faults \/ ~Executes(way[r], file[r], schema)
          /\ Go(r, "failed") /\ UNCHANGED <<schema, applied, file>>
    /\ UNCHANGED <<lock, way, seen, settled, reverted, severed>>

\* Up passes over a file that loadApplied has returned.
Skip(r) ==
    /\ at[r] = "apply" /\ file[r] \in Files
    /\ way[r] = "up" /\ UpFiles[file[r]] \in seen[r]
    /\ Advance(r)
    /\ UNCHANGED <<schema, applied, lock, way, seen, settled, reverted, severed>>

\* The deferred pg_advisory_unlock, which changes nothing when the session no
\* longer holds the lock.
Unlock(r) ==
    /\ at[r] = "failed" \/ (at[r] = "apply" /\ file[r] \notin Files)
    /\ Exit(r)
    /\ lock' = IF lock = r THEN None ELSE lock
    /\ settled' = (settled \/ (at[r] = "apply" /\ way[r] = "up"))
    /\ reverted' = (reverted \/ (at[r] = "apply" /\ way[r] = "down"))
    /\ UNCHANGED <<schema, applied, severed>>

-----------------------------------------------------------------------------
Crash(r) ==
    /\ "crash" \in Faults /\ at[r] # "idle"
    /\ Exit(r)
    /\ lock' = IF lock = r THEN None ELSE lock
    /\ UNCHANGED <<schema, applied, settled, reverted, severed>>

\* The connection that took the lock is closed while the pool has it.
SessionEnds(r) ==
    /\ "session" \in Faults /\ lock = r
    /\ lock' = None
    /\ severed' = TRUE
    /\ UNCHANGED <<schema, applied, at, way, file, seen, settled, reverted>>

Next ==
    \E r \in Runners :
        \/ Start(r, "up") \/ Start(r, "down")
        \/ Acquire(r) \/ loadApplied(r) \/ applyFile(r) \/ Skip(r) \/ Unlock(r)
        \/ Crash(r) \/ SessionEnds(r)

Spec == Init /\ [][Next]_vars

\* A runner gets on, and Postgres grants a lock in the order of the requests.
Fairness ==
    \A r \in Runners :
        /\ SF_vars(Acquire(r))
        /\ WF_vars(loadApplied(r)) /\ WF_vars(applyFile(r)) /\ WF_vars(Skip(r))
        /\ WF_vars(Unlock(r))

FairSpec == Spec /\ Fairness

-----------------------------------------------------------------------------
(* Properties.                                                             *)

InLock(r) == at[r] \in {"load", "apply", "failed"}

\* "Only one at a time can mutate the schema": as long as no runner has gone on
\* after its session had ended, the one past the advisory lock is the only one.
OneAtATime ==
    ~severed => \A q, r \in Runners : InLock(q) /\ InLock(r) => q = r

\* Whatever stops a run and wherever, a migration in effect is recorded, so
\* that no later Up runs it a second time.
EffectsRecorded ==
    \A n \in Files : Mark(n) \in schema => UpFiles[n] \in applied

\* After a successful Up, however many attempts failed or died before it, every
\* file is recorded: the next Up passes over all of them and succeeds, as long
\* as no runner has gone on without the lock.
UpIdempotent ==
    ~severed /\ settled => \A n \in Files : UpFiles[n] \in applied

\* Every runner that waits for the lock gets it and returns.
RunnersFinish ==
    \A r \in Runners : at[r] = "lock" ~> at[r] = "idle"

-----------------------------------------------------------------------------
(* What comments say and TLC refutes.                                      *)

\* "Each successful down deletes the matching schema_migrations row": after a
\* Down that succeeded nothing is recorded.
DownForgets ==
    reverted /\ (\A r \in Runners : ~InLock(r)) => applied = {}

\* mig-down is "idempotent": with no faults a Down that follows a successful
\* one does not fail.
DownRerunSucceeds ==
    \A r \in Runners : reverted => at[r] # "failed"

=============================================================================
