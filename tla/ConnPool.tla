------------------------------ MODULE ConnPool ------------------------------
(***************************************************************************)
(* The Postgres connection pool, sqlx.DB with SetMaxOpenConns, as the      *)
(* repositories use it: a query takes a connection, or waits for one, and  *)
(* gives it back when its rows are closed.  database/sql is external; what *)
(* is kept of it is how many connections each request holds.               *)
(***************************************************************************)
EXTENDS Integers, FiniteSetsExt

CONSTANT Requests

VARIABLES
    maxOpen, \* SetMaxOpenConns; 0, as before the call, is no limit
    held     \* held[p]: the connections request p has

poolVars == <<maxOpen, held>>

PoolInit ==
    /\ maxOpen = 0
    /\ held = [p \in Requests |-> 0]

\* The pool is sized; the ping that follows is the caller's to judge.
InitializeSQLXDatabase(maxOpenConns) ==
    /\ maxOpen' = maxOpenConns
    /\ UNCHANGED held

InUse == MapThenSumSet(LAMBDA p : held[p], Requests)

\* DB.conn: a connection that is idle or may yet be opened.  Who gets the next
\* one is not the order of arrival: database/sql picks any waiting request.
Conn(p) ==
    /\ maxOpen <= 0 \/ InUse < maxOpen
    /\ held' = [held EXCEPT ![p] = @ + 1]
    /\ UNCHANGED maxOpen

\* The rows of one query are closed.
CloseRows(p) ==
    /\ held' = [held EXCEPT ![p] = @ - 1]
    /\ UNCHANGED maxOpen

\* The context of p ends, and with it the rows that are still open.
ContextDone(p) ==
    /\ held' = [held EXCEPT ![p] = 0]
    /\ UNCHANGED maxOpen

=============================================================================
