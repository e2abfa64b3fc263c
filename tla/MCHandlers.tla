---------------------------- MODULE MCHandlers ----------------------------
(* Handlers for TLC: two requests, which are interchangeable, so that one  *)
(* order of each pair of routes is enough.                                 *)
EXTENDS Handlers

CONSTANTS q1, q2

Numbered == <<Register, Login, Refresh, Logout, SendOTP, VerifyOTP, ForgotPassword,
              ResetPassword, ChangePassword, GetUserData>>

Pairs == {p \in (DOMAIN Numbered) \X (DOMAIN Numbered) : p[1] <= p[2]}

MCMixes == {[q \in {q1, q2} |-> Numbered[IF q = q1 THEN p[1] ELSE p[2]]] : p \in Pairs}

ASSUME EveryRoute == MCMixes \subseteq [Requests -> Routes] /\ Routes = {Numbered[i] : i \in DOMAIN Numbered}

=============================================================================
