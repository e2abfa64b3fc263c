-------------------------------- MODULE Rate --------------------------------
(***************************************************************************)
(* The rate of the limiter: buckets of Burst tokens.  A token is Cost      *)
(* credits and a tick of the clock brings one credit, so that fractions of *)
(* tokens are whole credits.                                               *)
(***************************************************************************)
EXTENDS Integers

CONSTANTS
    IPs,    \* client addresses
    Burst,  \* tokens in a full bucket
    Cost    \* credits (hence ticks) to a token

ASSUME BucketAssumption == Burst \in Nat \ {0} /\ Cost \in Nat \ {0}

\* The credits in a full bucket.
Capacity == Burst * Cost

=============================================================================
