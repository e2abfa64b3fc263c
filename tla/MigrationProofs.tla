--------------------------- MODULE MigrationProofs ---------------------------
(***************************************************************************)
(* Proofs about the migration runner, for any number of runners and any    *)
(* combination of faults.  The inductive invariant says who holds the      *)
(* advisory lock and how much of its direction the holder has recorded.    *)
(***************************************************************************)
EXTENDS Migration, TLAPS

Names == {UpFiles[n] : n \in 1..5}

Way(r) == IF way[r] = "up" THEN file[r] \in 1..6 ELSE file[r] \in 0..5

TypeOK ==
    /\ schema \subseteq Features
    /\ applied \subseteq Names
    /\ lock \in Runners \cup {None}
    /\ at \in [Runners -> {"idle", "lock", "load", "apply", "failed"}]
    /\ way \in [Runners -> {"up", "down"}]
    /\ file \in [Runners -> 0..6]
    /\ seen \in [Runners -> SUBSET Names]
    /\ settled \in BOOLEAN
    /\ reverted \in BOOLEAN
    /\ severed \in BOOLEAN

\* A runner's file fits its direction, and is the first until the runner is past
\* loadApplied, which only Up calls.
OnTrack ==
    \A r \in Runners :
        /\ Way(r)
        /\ at[r] \in {"idle", "lock", "load"} => file[r] = 1
        /\ at[r] = "load" => way[r] = "up"

\* Past the lock means holding it, until a session has been lost.
Holding ==
    ~severed => \A r \in Runners : InLock(r) => lock = r

\* What an Up has come past is recorded, and so is what it has seen.
Passed(r) ==
    /\ seen[r] \subseteq applied
    /\ \A n \in Files : n < file[r] => UpFiles[n] \in applied

\* An Up under the lock has recorded what it passed; a Down under the lock has
\* taken the database out of the settled state.
Recorded ==
    ~severed => \A r \in Runners :
        /\ at[r] = "apply" /\ way[r] = "up" => Passed(r)
        /\ InLock(r) /\ way[r] = "down" => ~settled

IInv ==
    /\ TypeOK
    /\ OnTrack
    /\ Holding
    /\ Recorded
    /\ EffectsRecorded
    /\ UpIdempotent

-----------------------------------------------------------------------------
\* There are five files each way; the last three share their name.
LEMMA FilesAre ==
    /\ Files = 1..5
    /\ Len(DownFiles) = 5
  BY DEF Files, UpFiles, DownFiles

\* The row a down file deletes is its own up file's, or nobody's.
LEMMA NamesApart ==
  ASSUME NEW m \in Files, NEW n \in Files, deriveUpName(n) = UpFiles[m]
  PROVE  m = n /\ n \in 3..5
<1>1. m \in 1..5 /\ n \in 1..5
  BY FilesAre
<1> QED
  BY <1>1 DEF deriveUpName, UpFiles, DownFiles

\* A committed file leaves every migration in effect recorded.
LEMMA CommitRecords ==
  ASSUME NEW d \in {"up", "down"}, NEW n \in Files, Commit(d, n), EffectsRecorded
  PROVE  EffectsRecorded'
<1> SUFFICES ASSUME NEW m \in Files, Mark(m) \in schema'
             PROVE  UpFiles[m] \in applied'
  BY DEF EffectsRecorded
<1>0. m \in 1..5 /\ n \in 1..5
  BY FilesAre
<1>1. CASE d = "up"
  <2>1. m = n \/ Mark(m) \in schema
    BY <1>0, <1>1 DEF Commit, Result, Mark
  <2> QED
    BY <1>1, <2>1 DEF Commit, EffectsRecorded
<1>2. CASE d = "down"
  <2>1. Mark(m) \in schema
    BY <1>0, <1>2 DEF Commit, Result, Mark
  <2>2. n \in 3..5 => m # n
    BY <1>0, <1>2 DEF Commit, Result, Mark
  <2> QED
    BY <1>2, <2>1, <2>2, NamesApart DEF Commit, EffectsRecorded
<1> QED
  BY <1>1, <1>2

\* A committed file changes the records by one name of the list.
LEMMA CommitTypes ==
  ASSUME NEW d \in {"up", "down"}, NEW n \in Files, Commit(d, n),
         schema \subseteq Features, applied \subseteq Names
  PROVE  schema' \subseteq Features /\ applied' \subseteq Names
<1>0. n \in 1..5
  BY FilesAre
<1>1. schema' \subseteq Features
  BY <1>0 DEF Commit, Result, Features
<1>2. applied' \subseteq Names
  <2>1. UpFiles[n] \in Names
    BY <1>0 DEF Names
  <2>2. applied' = applied \cup {UpFiles[n]} \/ applied' = applied \ {deriveUpName(n)}
    BY DEF Commit
  <2> QED
    BY <2>1, <2>2
<1> QED
  BY <1>1, <1>2

-----------------------------------------------------------------------------
\* No run is under way, nothing exists and nothing is recorded.
LEMMA InitInv == Init => IInv
<1> SUFFICES ASSUME Init PROVE IInv
  OBVIOUS
<1>1. TypeOK
  <2>1. seen \in [Runners -> SUBSET Names]
    BY DEF Init
  <2>2. schema \subseteq Features /\ applied \subseteq Names /\ lock \in Runners \cup {None}
    BY DEF Init
  <2>3. settled \in BOOLEAN /\ reverted \in BOOLEAN /\ severed \in BOOLEAN
    BY DEF Init
  <2> QED
    BY <2>1, <2>2, <2>3 DEF Init, TypeOK
<1>2. OnTrack /\ Holding /\ Recorded
  BY DEF Init, OnTrack, Way, Holding, InLock, Recorded
<1>3. EffectsRecorded /\ UpIdempotent
  BY DEF Init, EffectsRecorded, UpIdempotent
<1> QED
  BY <1>1, <1>2, <1>3 DEF IInv

-----------------------------------------------------------------------------
\* Start: the runner is not past the lock yet.
LEMMA StartStep ==
  ASSUME NEW r \in Runners, NEW d \in {"up", "down"}, IInv, Start(r, d)
  PROVE  IInv'
<1> USE DEF IInv, Start, Go
<1>1. TypeOK'
  BY DEF TypeOK
<1>2. OnTrack'
  BY DEF TypeOK, OnTrack, Way
<1>3. Holding' /\ Recorded'
  BY DEF TypeOK, Holding, Recorded, InLock, Passed
<1>4. EffectsRecorded' /\ UpIdempotent'
  BY DEF EffectsRecorded, UpIdempotent
<1> QED
  BY <1>1, <1>2, <1>3, <1>4

\* Acquire: the lock was free, so nobody else is past it.
LEMMA AcquireStep ==
  ASSUME NEW r \in Runners, IInv, Acquire(r)
  PROVE  IInv'
<1> USE DEF IInv, Acquire, Go
<1>1. TypeOK'
  <2>1. settled' \in BOOLEAN /\ reverted' \in BOOLEAN
    BY Zenon DEF TypeOK
  <2> QED
    BY <2>1, FilesAre DEF TypeOK
<1>2. OnTrack'
  BY FilesAre DEF TypeOK, OnTrack, Way
<1>3. Holding'
  BY MigrationAssumption DEF TypeOK, Holding, InLock
<1>4. Recorded'
  <2> SUFFICES ASSUME ~severed, NEW q \in Runners
               PROVE  /\ at'[q] = "apply" /\ way'[q] = "up" => Passed(q)'
                      /\ InLock(q)' /\ way'[q] = "down" => ~settled'
    BY DEF Recorded
  <2>1. CASE q = r
    BY <2>1 DEF TypeOK, InLock
  <2>2. CASE q # r
    BY <2>2, MigrationAssumption DEF TypeOK, Holding, InLock
  <2> QED
    BY <2>1, <2>2
<1>5. EffectsRecorded' /\ UpIdempotent'
  BY DEF EffectsRecorded, UpIdempotent
<1> QED
  BY <1>1, <1>2, <1>3, <1>4, <1>5

\* loadApplied: what it returns is what is recorded.
LEMMA LoadStep ==
  ASSUME NEW r \in Runners, IInv, loadApplied(r)
  PROVE  IInv'
<1> USE DEF IInv, loadApplied, Go
<1>1. TypeOK'
  BY DEF TypeOK
<1>2. OnTrack'
  BY DEF TypeOK, OnTrack, Way
<1>3. Holding'
  BY DEF TypeOK, Holding, InLock
<1>4. Recorded'
  <2> SUFFICES ASSUME ~severed, NEW q \in Runners
               PROVE  /\ at'[q] = "apply" /\ way'[q] = "up" => Passed(q)'
                      /\ InLock(q)' /\ way'[q] = "down" => ~settled'
    BY DEF Recorded
  <2>1. CASE q = r
    BY <2>1, FilesAre DEF TypeOK, OnTrack, Recorded, InLock, Passed
  <2>2. CASE q # r
    BY <2>2 DEF TypeOK, Recorded, InLock, Passed
  <2> QED
    BY <2>1, <2>2
<1>5. EffectsRecorded' /\ UpIdempotent'
  BY DEF EffectsRecorded, UpIdempotent
<1> QED
  BY <1>1, <1>2, <1>3, <1>4, <1>5

\* applyFile: the file is recorded with its effect, or neither happens; the
\* others are not past the lock, so nobody's records are pulled away.
LEMMA ApplyStep ==
  ASSUME NEW r \in Runners, IInv, applyFile(r)
  PROVE  IInv'
<1> USE DEF IInv
<1>0. /\ file[r] \in Files /\ file[r] \in 1..5 /\ way[r] \in {"up", "down"}
      /\ at[r] = "apply"
  BY FilesAre DEF applyFile, TypeOK
<1>1. Commit(way[r], file[r]) \/ UNCHANGED <<schema, applied>>
  BY DEF applyFile
<1>2. \/ /\ Advance(r) /\ Commit(way[r], file[r])
      \/ Go(r, "failed") /\ UNCHANGED file
  BY DEF applyFile
<1>3. UNCHANGED <<lock, way, seen, settled, reverted, severed>>
  BY DEF applyFile
<1>4. TypeOK'
  <2>1. schema' \subseteq Features /\ applied' \subseteq Names
    BY <1>0, <1>1, CommitTypes DEF TypeOK
  <2>2. at' \in [Runners -> {"idle", "lock", "load", "apply", "failed"}]
    BY <1>2 DEF Advance, Go, TypeOK
  <2>3. file' \in [Runners -> 0..6]
    BY <1>0, <1>2 DEF Advance, Go, TypeOK
  <2> QED
    BY <1>3, <2>1, <2>2, <2>3 DEF TypeOK
<1>5. OnTrack'
  BY <1>0, <1>2, <1>3 DEF TypeOK, OnTrack, Way, Advance, Go
<1>6. \A q \in Runners : InLock(q)' => InLock(q)
  BY <1>0, <1>2 DEF InLock, TypeOK, Advance, Go
<1>7. Holding'
  BY <1>3, <1>6 DEF Holding
<1>8. Recorded'
  <2> SUFFICES ASSUME ~severed, NEW q \in Runners, InLock(q)'
               PROVE  /\ at'[q] = "apply" /\ way'[q] = "up" => Passed(q)'
                      /\ way'[q] = "down" => ~settled'
    BY <1>3 DEF Recorded, InLock
  <2>1. q = r
    BY <1>0, <1>6 DEF Holding, InLock
  <2>2. way[r] = "down" => ~settled
    BY <1>0 DEF Recorded, InLock
  <2>3. ASSUME at'[r] = "apply", way[r] = "up"
        PROVE  Passed(r)'
    <3>1. Advance(r) /\ Commit("up", file[r])
      BY <1>0, <1>2, <2>3 DEF Go, TypeOK
    <3>2. file'[r] = file[r] + 1 /\ applied' = applied \cup {UpFiles[file[r]]}
      BY <1>0, <2>3, <3>1 DEF Advance, Commit, TypeOK
    <3>3. Passed(r)
      BY <1>0, <2>3 DEF Recorded
    <3> QED
      BY <1>0, <1>3, <3>2, <3>3, FilesAre DEF Passed
  <2> QED
    BY <1>3, <2>1, <2>2, <2>3
<1>9. EffectsRecorded'
  BY <1>0, <1>1, CommitRecords DEF EffectsRecorded
<1>10. UpIdempotent'
  <2> SUFFICES ASSUME ~severed, settled PROVE \A n \in Files : UpFiles[n] \in applied'
    BY <1>3 DEF UpIdempotent
  <2>1. way[r] = "up"
    BY <1>0 DEF Recorded, InLock
  <2>2. applied \subseteq applied'
    BY <1>1, <2>1 DEF Commit
  <2> QED
    BY <2>2 DEF UpIdempotent
<1> QED
  BY <1>4, <1>5, <1>7, <1>8, <1>9, <1>10

\* Skip: a file that was seen is still recorded.
LEMMA SkipStep ==
  ASSUME NEW r \in Runners, IInv, Skip(r)
  PROVE  IInv'
<1> USE DEF IInv, Skip, Advance
<1>0. file[r] \in 1..5
  BY FilesAre
<1>1. TypeOK'
  BY <1>0 DEF TypeOK
<1>2. OnTrack'
  BY <1>0 DEF TypeOK, OnTrack, Way
<1>3. Holding'
  BY DEF Holding, InLock
<1>4. Recorded'
  <2> SUFFICES ASSUME ~severed, NEW q \in Runners
               PROVE  /\ at'[q] = "apply" /\ way'[q] = "up" => Passed(q)'
                      /\ InLock(q)' /\ way'[q] = "down" => ~settled'
    BY DEF Recorded
  <2>1. CASE q = r
    <3>1. Passed(r) /\ file'[r] = file[r] + 1
      BY <2>1 DEF Recorded, TypeOK
    <3> QED
      BY <1>0, <2>1, <3>1, FilesAre DEF Passed
  <2>2. CASE q # r
    BY <2>2 DEF TypeOK, Recorded, InLock, Passed
  <2> QED
    BY <2>1, <2>2
<1>5. EffectsRecorded' /\ UpIdempotent'
  BY DEF EffectsRecorded, UpIdempotent
<1> QED
  BY <1>1, <1>2, <1>3, <1>4, <1>5

\* Unlock and Crash put the runner back to where it was before its run.
LEMMA ExitStep ==
  ASSUME NEW r \in Runners, TypeOK, OnTrack, Exit(r)
  PROVE  /\ at' \in [Runners -> {"idle", "lock", "load", "apply", "failed"}]
         /\ way' \in [Runners -> {"up", "down"}]
         /\ file' \in [Runners -> 0..6]
         /\ seen' \in [Runners -> SUBSET Names]
         /\ OnTrack'
         /\ \A q \in Runners :
               InLock(q)' => /\ q # r /\ InLock(q)
                             /\ at'[q] = at[q] /\ way'[q] = way[q]
                             /\ file'[q] = file[q] /\ seen'[q] = seen[q]
<1> USE DEF Exit
<1>1. seen' \in [Runners -> SUBSET Names]
  BY DEF TypeOK
<1>2. /\ at' \in [Runners -> {"idle", "lock", "load", "apply", "failed"}]
      /\ way' \in [Runners -> {"up", "down"}]
      /\ file' \in [Runners -> 0..6]
  BY DEF TypeOK
<1>3. OnTrack'
  BY DEF TypeOK, OnTrack, Way
<1>4. ASSUME NEW q \in Runners, InLock(q)'
      PROVE  /\ q # r /\ InLock(q)
             /\ at'[q] = at[q] /\ way'[q] = way[q]
             /\ file'[q] = file[q] /\ seen'[q] = seen[q]
  BY <1>4 DEF TypeOK, InLock
<1> QED
  BY <1>1, <1>2, <1>3, <1>4

\* Unlock: an Up that has come past its last file has recorded all of them.
LEMMA UnlockStep ==
  ASSUME NEW r \in Runners, IInv, Unlock(r)
  PROVE  IInv'
<1> USE DEF IInv
<1>0. /\ Exit(r) /\ UNCHANGED <<schema, applied, severed>>
      /\ lock' = IF lock = r THEN None ELSE lock
      /\ InLock(r)
  BY DEF Unlock, InLock
<1>1. TypeOK'
  <2>1. settled' \in BOOLEAN /\ reverted' \in BOOLEAN
    BY Zenon DEF Unlock, TypeOK
  <2>2. lock' \in Runners \cup {None}
    BY <1>0 DEF TypeOK
  <2> QED
    BY <1>0, <2>1, <2>2, ExitStep DEF TypeOK
<1>2. OnTrack'
  BY <1>0, ExitStep
<1>3. ASSUME ~severed, NEW q \in Runners, InLock(q)'
      PROVE  FALSE
  BY <1>0, <1>3, ExitStep DEF Holding
<1>4. Holding' /\ Recorded'
  BY <1>0, <1>3 DEF Holding, Recorded, InLock
<1>5. EffectsRecorded'
  BY <1>0 DEF EffectsRecorded
<1>6. UpIdempotent'
  <2> SUFFICES ASSUME ~severed, settled', NEW n \in Files
               PROVE  UpFiles[n] \in applied
    BY <1>0 DEF UpIdempotent
  <2>1. CASE settled
    BY <2>1 DEF UpIdempotent
  <2>2. CASE ~settled
    <3>1. at[r] = "apply" /\ way[r] = "up"
      BY <2>2, Zenon DEF Unlock
    <3>2. file[r] \notin Files
      BY <3>1 DEF Unlock
    <3>3. file[r] = 6 /\ n < 6
      BY <3>1, <3>2, FilesAre DEF OnTrack, Way
    <3> QED
      BY <3>1, <3>3 DEF Recorded, Passed
  <2> QED
    BY <2>1, <2>2
<1> QED
  BY <1>1, <1>2, <1>4, <1>5, <1>6

\* Crash: the process is gone, and Postgres releases its lock.
LEMMA CrashStep ==
  ASSUME NEW r \in Runners, IInv, Crash(r)
  PROVE  IInv'
<1> USE DEF IInv
<1>0. /\ Exit(r) /\ UNCHANGED <<schema, applied, settled, reverted, severed>>
      /\ lock' = IF lock = r THEN None ELSE lock
  BY DEF Crash
<1>1. TypeOK'
  BY <1>0, ExitStep DEF TypeOK
<1>2. OnTrack'
  BY <1>0, ExitStep
<1>3. Holding'
  BY <1>0, ExitStep DEF Holding
<1>4. Recorded'
  <2> SUFFICES ASSUME ~severed, NEW q \in Runners, InLock(q)'
               PROVE  /\ at'[q] = "apply" /\ way'[q] = "up" => Passed(q)'
                      /\ way'[q] = "down" => ~settled'
    BY <1>0 DEF Recorded, InLock
  <2> QED
    BY <1>0, ExitStep DEF Recorded, Passed
<1>5. EffectsRecorded' /\ UpIdempotent'
  BY <1>0 DEF EffectsRecorded, UpIdempotent
<1> QED
  BY <1>1, <1>2, <1>3, <1>4, <1>5

\* SessionEnds is what the conditional properties exclude.
LEMMA SessionStep ==
  ASSUME NEW r \in Runners, IInv, SessionEnds(r)
  PROVE  IInv'
<1> USE DEF IInv, SessionEnds
<1>1. TypeOK'
  BY DEF TypeOK
<1>2. OnTrack'
  BY DEF OnTrack, Way
<1>3. Holding' /\ Recorded' /\ UpIdempotent'
  BY DEF Holding, Recorded, UpIdempotent
<1>4. EffectsRecorded'
  BY DEF EffectsRecorded
<1> QED
  BY <1>1, <1>2, <1>3, <1>4

-----------------------------------------------------------------------------
\* The invariant holds in every reachable state, whatever number of runners
\* work on the database and whichever faults strike them.
THEOREM MigrationInvariance == Spec => []IInv
<1>1. IInv /\ [Next]_vars => IInv'
  <2> SUFFICES ASSUME IInv, [Next]_vars PROVE IInv'
    OBVIOUS
  <2>1. CASE Next
    BY <2>1, StartStep, AcquireStep, LoadStep, ApplyStep, SkipStep, UnlockStep,
       CrashStep, SessionStep DEF Next
  <2>2. CASE UNCHANGED vars
    <3> USE <2>2 DEF vars, IInv
    <3>1. TypeOK'
      BY DEF TypeOK
    <3>2. OnTrack' /\ Holding'
      BY DEF OnTrack, Way, Holding, InLock
    <3>3. Recorded'
      BY DEF Recorded, InLock, Passed
    <3>4. EffectsRecorded' /\ UpIdempotent'
      BY DEF EffectsRecorded, UpIdempotent
    <3> QED
      BY <3>1, <3>2, <3>3, <3>4
  <2> QED
    BY <2>1, <2>2
<1> QED
  BY InitInv, <1>1, PTL DEF Spec

\* pg_advisory_lock does what Run's comment claims of it: among any number of
\* runners one at a time is past it, until a runner goes on without its session.
THEOREM RunnersExclude == Spec => []OneAtATime
<1>1. IInv => OneAtATime
  BY DEF IInv, Holding, OneAtATime
<1> QED
  BY <1>1, MigrationInvariance, PTL

\* applyFile writes the file's effect and its schema_migrations row in one
\* transaction: no failure, crash or lost lock leaves an effect unrecorded.
THEOREM EffectsAreRecorded == Spec => []EffectsRecorded
<1>1. IInv => EffectsRecorded
  BY DEF IInv
<1> QED
  BY <1>1, MigrationInvariance, PTL

\* After an Up that succeeded every file is recorded, however many attempts
\* broke off before it: the next Up has nothing to do.
THEOREM UpIsIdempotent == Spec => []UpIdempotent
<1>1. IInv => UpIdempotent
  BY DEF IInv
<1> QED
  BY <1>1, MigrationInvariance, PTL

=============================================================================
