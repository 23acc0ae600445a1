------------------------------ MODULE RateLimit ------------------------------
(***************************************************************************)
(* The rate-limit middleware: for every address, method and path the times *)
(* of the requests it let through.  It runs to its end without awaiting    *)
(* anything; health probes skip it and leave no trace.                     *)
(***************************************************************************)
EXTENDS Integers, Sequences

CONSTANTS
    Keys,         \* address, method and path
    WindowMs, Max,\* options: 60_000 and 300 in the application
    Second,       \* ticks of the clock in a second
    MaxTime       \* bound on the clock

RateAssumption ==
    Max \in Nat \ {0} /\ WindowMs \in Nat /\ Second \in Nat /\ MaxTime \in Nat

VARIABLES
    now,
    hits,         \* hits[k]: recent times as the map has them
    admitted,     \* history: all times at which a request of k was let through
    promised      \* history: promised[k]: times at which requests that were refused since
                  \* the last one let through were told to come back

rateVars == <<now, hits, admitted, promised>>

RateTypeOK ==
    /\ now \in 0..MaxTime
    /\ hits \in [Keys -> Seq(0..MaxTime)] /\ \A k \in Keys : Len(hits[k]) <= Max
    /\ admitted \in [Keys -> Seq(0..MaxTime)]
    /\ promised \in [Keys -> SUBSET (0..MaxTime + WindowMs + Second)]

RateInit ==
    /\ now = 0
    /\ hits = [k \in Keys |-> <<>>] /\ admitted = hits
    /\ promised = [k \in Keys |-> {}]

-----------------------------------------------------------------------------
Tick == now < MaxTime /\ now' = now + 1 /\ UNCHANGED <<hits, admitted, promised>>

Mutant_WholeWindow(k) == SelectSeq(hits[k], LAMBDA stamp : stamp >= now - WindowMs)
Recent(k) ==
    LET kept[i \in 0..Len(hits[k])] ==
            IF i = 0 THEN <<>>
            ELSE IF hits[k][i] > now - WindowMs THEN Append(kept[i - 1], hits[k][i]) ELSE kept[i - 1]
    IN  kept[Len(hits[k])]

\* Seconds are told with the milliseconds behind the point.
RetryAfter(recent) ==
    LET wait == recent[1] + WindowMs - now IN IF wait < Second THEN Second ELSE wait

Admit(k) ==
    LET recent == Recent(k) IN
    /\ Len(recent) < Max
    /\ hits' = [hits EXCEPT ![k] = Append(recent, now)]
    /\ admitted' = [admitted EXCEPT ![k] = Append(@, now)]
    /\ promised' = [promised EXCEPT ![k] = {}]
    /\ UNCHANGED now

\* 429: what is in the map stays as it is.
Refuse(k) ==
    LET recent == Recent(k) IN
    /\ Len(recent) >= Max
    /\ promised' = [promised EXCEPT ![k] = @ \cup {now + RetryAfter(recent)}]
    /\ UNCHANGED <<now, hits, admitted>>

RateNext == Tick \/ \E k \in Keys : Admit(k) \/ Refuse(k)

-----------------------------------------------------------------------------
\* Of the requests of a key at most Max are let through in any window, wherever it starts.
WithinRate ==
    \A k \in Keys : \A i \in 1..Len(admitted[k]) - Max :
        admitted[k][i + Max] - admitted[k][i] >= WindowMs

\* Who was refused and comes back when told to is let through, if nobody else was since:
\* refused requests do not push the moment further away.
ComeBackInTime ==
    \A k \in Keys : \A t \in promised[k] : now >= t => Len(Recent(k)) < Max

\* What the middleware owes the server and the client.
RateIsKept == WithinRate /\ ComeBackInTime
=============================================================================
