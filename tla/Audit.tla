------------------------------- MODULE Audit -------------------------------
(***************************************************************************)
(* The audit stream (package audit): Record writes a line through one JSON *)
(* encoder, under encMu; SetOutput puts a new encoder in its place, under  *)
(* mu.  A json.Encoder remembers the first error of its writer and writes  *)
(* nothing any more.                                                       *)
(***************************************************************************)
EXTENDS Integers, Sequences

CONSTANTS
    Requests,   \* requests, each of which may record an event
    None,
    SinkFaults, \* "fail": a write to the sink may fail
    MaxSwaps    \* bound on the calls of SetOutput

VARIABLES
    encMu,   \* the request that holds encMu, or None
    enc,     \* the encoder in use; they are numbered, a new one for each SetOutput
    err,     \* err[k]: encoder k has seen a write fail
    setting, \* a SetOutput is under way, and holds mu
    step,    \* step[q]: where the Record of q is
    using,   \* using[q]: the encoder it has read
    lines,   \* the lines written, of all sinks, in order
    silenced \* history: a line was not written although no write was tried

auditVars == <<encMu, enc, err, setting, step, using, lines, silenced>>

Encoders == 0..MaxSwaps

AuditInit ==
    /\ encMu = None
    /\ enc = 0
    /\ err = [k \in Encoders |-> FALSE]
    /\ setting = FALSE
    /\ step = [q \in Requests |-> "none"]
    /\ using = [q \in Requests |-> None]
    /\ lines = <<>>
    /\ silenced = FALSE

Lock(q) ==
    /\ step[q] = "none" /\ encMu = None
    /\ encMu' = q
    /\ step' = [step EXCEPT ![q] = "load"]
    /\ UNCHANGED <<enc, err, setting, using, lines, silenced>>

Load(q) ==
    /\ step[q] = "load"
    /\ using' = [using EXCEPT ![q] = enc]
    /\ step' = [step EXCEPT ![q] = "encode"]
    /\ UNCHANGED <<encMu, enc, err, setting, lines, silenced>>

\* Mutant: encMu is given back only when the write succeeds.
EncodeStillLocked(q, line) ==
    LET k == using[q] IN
    /\ step[q] = "encode"
    /\ \/ /\ ~err[k] /\ lines' = Append(lines, line) /\ encMu' = None
          /\ UNCHANGED <<err, silenced>>
       \/ /\ ~err[k] /\ "fail" \in SinkFaults /\ err' = [err EXCEPT ![k] = TRUE]
          /\ UNCHANGED <<lines, silenced, encMu>>
       \/ err[k] /\ silenced' = TRUE /\ encMu' = None /\ UNCHANGED <<err, lines>>
    /\ step' = [step EXCEPT ![q] = "done"]
    /\ UNCHANGED <<enc, setting, using>>

\* Encode: the line is written, or its write fails, or an earlier one has.
Encode(q, line) ==
    LET k == using[q] IN
    /\ step[q] = "encode"
    /\ \/ ~err[k] /\ lines' = Append(lines, line) /\ UNCHANGED <<err, silenced>>
       \/ /\ ~err[k] /\ "fail" \in SinkFaults /\ err' = [err EXCEPT ![k] = TRUE]
          /\ UNCHANGED <<lines, silenced>>
       \/ err[k] /\ silenced' = TRUE /\ UNCHANGED <<err, lines>>
    /\ encMu' = None
    /\ step' = [step EXCEPT ![q] = "done"]
    /\ UNCHANGED <<enc, setting, using>>

Record(q, line) == Lock(q) \/ Load(q) \/ Encode(q, line)

\* SetOutput locks mu, and then assigns enc and unlocks it.
SetOutput ==
    /\ \/ ~setting /\ enc < MaxSwaps /\ setting' = TRUE /\ UNCHANGED enc
       \/ setting /\ enc' = enc + 1 /\ setting' = FALSE
    /\ UNCHANGED <<encMu, err, step, using, lines, silenced>>

=============================================================================
