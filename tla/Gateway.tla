------------------------------- MODULE Gateway -------------------------------
(***************************************************************************)
(* What a request passes before a handler of the API sees it, each on its  *)
(* own: the idempotency middleware, the rate limit, and the guards         *)
(* together with the sessions, roles and memberships they look at.  None   *)
(* of them reads what another keeps, so a behaviour exercises one of them; *)
(* the initial state picks which.                                          *)
(***************************************************************************)
EXTENDS Idempotency, Access

CONSTANTS
    Desks,                 \* the parts a behaviour may exercise
    Keys, WindowMs, Max,   \* of RateLimit
    Second, MaxClock

VARIABLES desk, clock, hits, admitted, promised

Rate == INSTANCE RateLimit WITH MaxTime <- MaxClock, now <- clock

ASSUME GatewayAssumption == AccessAssumption /\ Rate!RateAssumption

limits == <<clock, hits, admitted, promised>>

GatewayInit ==
    /\ desk \in Desks /\ Init /\ AccInit /\ Rate!RateInit
    /\ desk # "idempotency" => up /\ \A q, r \in Requests : payload[q] = payload[r]

GatewayNext ==
    /\ UNCHANGED desk
    /\ \/ desk = "idempotency" /\ Next /\ UNCHANGED <<accVars, limits>>
       \/ desk = "access" /\ AccNext /\ UNCHANGED <<vars, limits>>
       \/ desk = "limits" /\ Rate!RateNext /\ UNCHANGED <<vars, accVars>>

GatewaySpec == GatewayInit /\ [][GatewayNext]_<<desk, vars, accVars, limits>>

-----------------------------------------------------------------------------
GatewayTypeOK == TypeOK /\ AccTypeOK /\ Rate!RateTypeOK

\* What the middleware owes the server and the client.
RateIsKept == Rate!RateIsKept
=============================================================================
