---------------------------- MODULE RefreshTokens ----------------------------
(***************************************************************************)
(* What the sessions of an account promise, whatever the handlers do in    *)
(* between.  A refresh token is minted, becomes live once and ends once.   *)
(* A call presents a token while it is live and issues at most one pair    *)
(* for it, which ends the token presented unless a call to Redis failed;   *)
(* nothing else but a Logout and the TTL ends one.  A pair issued is in a  *)
(* response, which its client may get or not.                              *)
(***************************************************************************)
CONSTANTS
    Tokens, \* the jtis that can be minted
    Calls,  \* the calls of Login and Refresh under way at once
    None    \* no token

VARIABLES
    life,   \* life[j]: how far token j has come
    sent,   \* the tokens a call has put in its response
    held,   \* the tokens a client has got
    parent, \* parent[j]: the token that was presented for j, None after a Login
    asked,  \* asked[c]: the token call c was presented, until it issues a pair
    failed  \* a call to Redis has failed, or the process has stopped

vars == <<life, sent, held, parent, asked, failed>>

Ended == {"rotated", "logout", "expired"}

Init ==
    /\ life = [j \in Tokens |-> "unused"]
    /\ sent = {} /\ held = {}
    /\ parent = [j \in Tokens |-> None]
    /\ asked = [c \in Calls |-> None]
    /\ failed = FALSE

\* A Refresh starts with a token of its client that is live.
Present(c, j) ==
    /\ asked[c] = None
    /\ j \in held /\ life[j] = "live"
    /\ asked' = [asked EXCEPT ![c] = j]
    /\ UNCHANGED <<life, sent, held, parent>>

\* Some calls, or none, end without a pair.
Abandon == asked' = [c \in Calls |-> IF asked'[c] = None THEN None ELSE asked[c]]

\* A Login mints a token, or a Refresh for the one it was presented.
Mint(j) ==
    /\ life[j] = "unused"
    /\ life' = [life EXCEPT ![j] = "minted"]
    /\ \E c \in Calls : parent' = [parent EXCEPT ![j] = asked[c]]
    /\ UNCHANGED <<sent, held, asked>>

Store(j) ==
    /\ life[j] = "minted" /\ j \notin sent
    /\ life' = [life EXCEPT ![j] = "live"]
    /\ Abandon
    /\ UNCHANGED <<sent, held, parent>>

\* Call c puts its pair in the response, and that is the end of the token it was
\* presented; one that is still live afterwards was spared by a failed Del.
Issue(c, j) ==
    /\ j \notin sent /\ sent' = sent \cup {j}
    /\ life[j] \in {"live", "expired"}
    /\ parent[j] = asked[c]
    /\ asked' = [asked EXCEPT ![c] = None]
    /\ \/ /\ parent[j] # None /\ life[parent[j]] = "live"
          /\ life' = [life EXCEPT ![parent[j]] = "rotated"]
       \/ /\ parent[j] = None \/ life[parent[j]] # "live" \/ failed'
          /\ UNCHANGED life
    /\ UNCHANGED <<held, parent>>

\* The response arrives; nothing says that it must.
Receive(j) ==
    /\ j \in sent \ held
    /\ held' = held \cup {j}
    /\ UNCHANGED <<life, sent, parent, asked>>

Logout(j) ==
    /\ j \in held /\ life[j] = "live"
    /\ life' = [life EXCEPT ![j] = "logout"]
    /\ UNCHANGED <<sent, held, parent, asked>>

Expire(j) ==
    /\ life[j] = "live"
    /\ life' = [life EXCEPT ![j] = "expired"]
    /\ UNCHANGED <<sent, held, parent, asked>>

\* Asking first whether j's life moves spares TLC the rest of most steps.
Move(j) == life'[j] # life[j] /\ (Mint(j) \/ Store(j) \/ Logout(j) \/ Expire(j))

Next ==
    /\ failed' \in {failed, TRUE}
    /\ \/ UNCHANGED <<sent, held, parent, life>> /\ Abandon
       \/ \E j \in Tokens : Move(j) \/ Receive(j)
       \/ \E c \in Calls, j \in Tokens : Present(c, j) \/ Issue(c, j)

Spec == Init /\ [][Next]_vars

-----------------------------------------------------------------------------
(* What follows.                                                           *)

\* A step changes no token that was rotated, logged out or let expire.
KeepsEnded == \A j \in Tokens : life[j] \in Ended => life'[j] = life[j]

\* A token that was rotated, logged out or let expire stays what it is.
EndsOnce == [][KeepsEnded]_vars

\* A token that was sent is live or has ended; one that was rotated has a
\* successor that was sent; and as long as nothing failed a token whose
\* successor was sent has ended.
Lineage ==
    \A j \in Tokens :
        /\ j \in sent => life[j] = "live" \/ life[j] \in Ended
        /\ life[j] = "rotated" => \E c \in sent : parent[c] = j
        /\ j \in sent /\ parent[j] # None /\ ~failed => life[parent[j]] \in Ended

=============================================================================
