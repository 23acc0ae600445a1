----------------------------- MODULE Idempotency -----------------------------
(***************************************************************************)
(* IdempotencyMiddleware for the POST requests that carry one              *)
(* Idempotency-Key: the choice between the Redis store and the one in      *)
(* memory, the look-up, the replay, and the record that is set without     *)
(* being awaited when the handler answers.  scopeOf runs before any guard  *)
(* has attached a user, so within an organization there is one record per  *)
(* key, whoever the user is.  A payload stands for its hash.               *)
(***************************************************************************)
EXTENDS Integers, FiniteSets

CONSTANTS
    Requests,  \* the POST requests that carry the key
    Payloads,  \* what they carry
    Nobody     \* owner of a record that is not there

ASSUME NobodyAssumption == Nobody \notin Requests

VARIABLES
    payload,   \* payload of each request
    pc,        \* where the middleware, then the handler, stands
    store,     \* the store the middleware took for the request
    answer,    \* what the request was answered with, and whose execution it is
    record,    \* record[s]: whose response store s holds, and whether it is under 24h old
    landing,   \* requests whose set() was called and has not finished
    check,     \* redisChecked: "none", "pinging", or "done"
    redis,     \* whether this.redis is set
    up,        \* whether the Redis server is reachable
    executed,  \* history: requests whose handler took effect
    late,      \* history: requests that came when a fresh record was on file
    raced,     \* history: a handler was started while another was unrecorded
    lost       \* history: a record expired, was dropped, or is kept where a request
               \* does not look: in the other store

process == <<landing, check, redis>>
history == <<late, raced, lost>>
vars == <<payload, pc, store, answer, record, process, up, executed, history>>

Stores == {"memory", "redis"}
NoRecord == [owner |-> Nobody, fresh |-> FALSE]
NoAnswer == [kind |-> "none", of |-> Nobody]

TypeOK ==
    /\ payload \in [Requests -> Payloads]
    /\ pc \in [Requests -> {"idle", "pinging", "lookup", "replay", "running", "effected",
                            "answered", "failed"}]
    /\ store \in [Requests -> Stores]
    /\ answer \in [Requests -> [kind : {"none", "own", "replay", "empty", "conflict", "error"},
                                of : Requests \cup {Nobody}]]
    /\ record \in [Stores -> [owner : Requests \cup {Nobody}, fresh : BOOLEAN]]
    /\ landing \subseteq Requests
    /\ check \in {"none", "pinging", "done"} /\ redis \in BOOLEAN /\ up \in BOOLEAN
    /\ executed \subseteq Requests /\ late \subseteq Requests
    /\ raced \in BOOLEAN /\ lost \in BOOLEAN

Init ==
    /\ payload \in [Requests -> Payloads]
    /\ pc = [r \in Requests |-> "idle"]
    /\ store = [r \in Requests |-> "memory"]
    /\ answer = [r \in Requests |-> NoAnswer]
    /\ record = [s \in Stores |-> NoRecord]
    /\ landing = {}
    /\ check = "none" /\ redis = FALSE
    /\ up \in BOOLEAN
    /\ executed = {} /\ late = {}
    /\ raced = FALSE /\ lost = FALSE

\* Requests whose handler was started and whose record has not landed.
Unrecorded == {q \in Requests : pc[q] \in {"running", "effected"}} \cup landing

\* The other store holds the key's record, or a request that will look or
\* record there.
Elsewhere(s) ==
    \/ \E t \in Stores \ {s} : record[t] # NoRecord
    \/ \E q \in Requests :
          /\ store[q] # s
          /\ pc[q] \in {"lookup", "replay", "running", "effected"} \/ q \in landing

-----------------------------------------------------------------------------
(***************************************************************************)
(* Choosing the store: the first request pings Redis, and while it awaits  *)
(* the answer the others find redisChecked set and take the memory store.  *)
(***************************************************************************)
Arrive(r) ==
    LET s == IF redis THEN "redis" ELSE "memory" IN
    /\ pc[r] = "idle"
    /\ late' = IF \E t \in Stores : record[t].fresh THEN late \cup {r} ELSE late
    /\ \/ /\ check = "none" /\ check' = "pinging"
          /\ pc' = [pc EXCEPT ![r] = "pinging"]
          /\ UNCHANGED <<store, lost>>
       \/ /\ check # "none" /\ UNCHANGED check
          /\ pc' = [pc EXCEPT ![r] = "lookup"]
          /\ store' = [store EXCEPT ![r] = s]
          /\ lost' = (lost \/ Elsewhere(s))
    /\ UNCHANGED <<payload, answer, record, landing, redis, up, executed, raced>>

\* A request with another key was the first.
OtherKeyArrives ==
    /\ check = "none" /\ check' = "pinging"
    /\ UNCHANGED <<payload, pc, store, answer, record, landing, redis, up, executed, history>>

PingEnds ==
    /\ check = "pinging" /\ check' = "done"
    /\ redis' \in {FALSE, up}
    /\ LET s == IF redis' THEN "redis" ELSE "memory"
           waiting == {q \in Requests : pc[q] = "pinging"}
       IN  /\ store' = [q \in Requests |-> IF q \in waiting THEN s ELSE store[q]]
           /\ pc' = [q \in Requests |-> IF q \in waiting THEN "lookup" ELSE pc[q]]
           /\ lost' = (lost \/ (waiting # {} /\ Elsewhere(s)))
    /\ UNCHANGED <<payload, answer, record, landing, up, executed, late, raced>>

-----------------------------------------------------------------------------
Reachable(r) == store[r] = "memory" \/ up
Answer(r, kind, of) == answer' = [answer EXCEPT ![r] = [kind |-> kind, of |-> of]]

Mutant_CompareInverted(rec, p) ==
    IF rec.owner = Nobody \/ ~rec.fresh THEN "miss"
    ELSE IF payload[rec.owner] # p THEN "replay" ELSE "conflict"
Mutant_CompareMisses(rec, p) ==
    IF rec.owner = Nobody \/ ~rec.fresh \/ payload[rec.owner] # p THEN "miss" ELSE "replay"
CompareRecord(rec, p) ==
    IF rec.owner = Nobody \/ ~rec.fresh THEN "miss"
    ELSE IF payload[rec.owner] = p THEN "replay" ELSE "conflict"

\* The first get(): 409, go on to the replay, or next().  A get() that rejects
\* ends the request.
Lookup(r) ==
    LET verdict == CompareRecord(record[store[r]], payload[r]) IN
    /\ pc[r] = "lookup"
    /\ \/ /\ Reachable(r) /\ verdict = "miss"
          /\ pc' = [pc EXCEPT ![r] = "running"]
          /\ raced' = (raced \/ Unrecorded # {})
          /\ UNCHANGED answer
       \/ /\ Reachable(r) /\ verdict = "replay"
          /\ pc' = [pc EXCEPT ![r] = "replay"]
          /\ UNCHANGED <<answer, raced>>
       \/ /\ Reachable(r) /\ verdict = "conflict"
          /\ pc' = [pc EXCEPT ![r] = "answered"]
          /\ Answer(r, "conflict", Nobody)
          /\ UNCHANGED raced
       \/ /\ ~Reachable(r)
          /\ pc' = [pc EXCEPT ![r] = "answered"]
          /\ Answer(r, "error", Nobody)
          /\ UNCHANGED raced
    /\ UNCHANGED <<payload, store, record, process, up, executed, late, lost>>

Mutant_ReplayWholeRecord(r) ==
    LET rec == record[store[r]] IN
    /\ pc[r] = "replay"
    /\ pc' = [pc EXCEPT ![r] = "answered"]
    /\ answer' = [answer EXCEPT ![r] = [kind |-> "replay", of |-> rec]]
    /\ UNCHANGED <<payload, store, record, process, up, executed, history>>
\* The second get(), whose record is sent whatever it is: { status 200, no body }
\* when there is none left.
Replay(r) ==
    LET rec == record[store[r]] IN
    /\ pc[r] = "replay"
    /\ pc' = [pc EXCEPT ![r] = "answered"]
    /\ IF ~Reachable(r) THEN Answer(r, "error", Nobody)
       ELSE Answer(r, IF rec.owner = Nobody THEN "empty" ELSE "replay", rec.owner)
    /\ UNCHANGED <<payload, store, record, process, up, executed, history>>

\* The handler takes effect; then it answers through the wrapped res.json, which
\* calls set() and sends the response without waiting for it.
TakeEffect(r) ==
    /\ pc[r] = "running"
    /\ pc' = [pc EXCEPT ![r] = "effected"]
    /\ executed' = executed \cup {r}
    /\ UNCHANGED <<payload, store, answer, record, process, up, history>>

\* The store in memory has the record at once, Redis when set() gets through.
Respond(r) ==
    /\ pc[r] = "effected"
    /\ pc' = [pc EXCEPT ![r] = "answered"]
    /\ Answer(r, "own", r)
    /\ \/ /\ store[r] = "memory"
          /\ record' = [record EXCEPT !["memory"] = [owner |-> r, fresh |-> TRUE]]
          /\ UNCHANGED landing
       \/ /\ store[r] = "redis"
          /\ landing' = landing \cup {r}
          /\ UNCHANGED record
    /\ UNCHANGED <<payload, store, check, redis, up, executed, history>>

SetLands(r) ==
    /\ r \in landing /\ up
    /\ landing' = landing \ {r}
    /\ record' = [record EXCEPT !["redis"] = [owner |-> r, fresh |-> TRUE]]
    /\ UNCHANGED <<payload, pc, store, answer, check, redis, up, executed, history>>

\* set() rejects and the rejection is swallowed.
SetFails(r) ==
    /\ r \in landing
    /\ landing' = landing \ {r}
    /\ lost' = TRUE
    /\ UNCHANGED <<payload, pc, store, answer, record, check, redis, up, executed, late, raced>>

-----------------------------------------------------------------------------
(***************************************************************************)
(* What happens around it: 24 hours pass, Redis drops what has expired or  *)
(* goes away, the process restarts.  The client never reconnects           *)
(* (retryStrategy gives up), so Redis comes back only with a restart.      *)
(***************************************************************************)
Expire(s) ==
    /\ record[s].fresh
    /\ record' = [record EXCEPT ![s].fresh = FALSE]
    /\ lost' = TRUE
    /\ UNCHANGED <<payload, pc, store, answer, process, up, executed, late, raced>>

RedisEvicts ==
    /\ record["redis"].owner # Nobody /\ ~record["redis"].fresh
    /\ record' = [record EXCEPT !["redis"] = NoRecord]
    /\ UNCHANGED <<payload, pc, store, answer, process, up, executed, history>>

RedisGoes ==
    /\ up /\ up' = FALSE
    /\ UNCHANGED <<payload, pc, store, answer, record, process, executed, history>>

Restart ==
    /\ check # "none"
    /\ check' = "none" /\ redis' = FALSE /\ landing' = {} /\ up' \in BOOLEAN
    /\ record' = [record EXCEPT !["memory"] = NoRecord]
    /\ pc' = [q \in Requests |-> IF pc[q] \in {"idle", "answered"} THEN pc[q] ELSE "failed"]
    /\ lost' = (lost \/ record["memory"] # NoRecord \/ landing # {}
                     \/ \E q \in Requests : pc[q] = "effected")
    /\ UNCHANGED <<payload, store, answer, executed, late, raced>>

Next ==
    \/ \E r \in Requests :
          \/ Arrive(r) \/ Lookup(r) \/ Replay(r) \/ TakeEffect(r) \/ Respond(r)
          \/ SetLands(r) \/ SetFails(r)
    \/ OtherKeyArrives \/ PingEnds
    \/ \E s \in Stores : Expire(s)
    \/ RedisEvicts \/ RedisGoes \/ Restart

Spec == Init /\ [][Next]_vars

-----------------------------------------------------------------------------
\* A replay sends what an execution has already answered: never the response of
\* a handler that is still running, and nothing at all only when the record was
\* lost between the two look-ups.
ReplayWasAnswered ==
    \A r \in Requests :
        /\ answer[r].kind = "replay" => answer[answer[r].of].kind = "own"
        /\ answer[r].kind = "empty" => lost

\* It is the answer to the same payload, unless two handlers overlapped or a
\* record was lost: then the second look-up may find another payload's record.
ReplayIsForThePayload ==
    ~raced /\ ~lost =>
        \A r \in Requests :
            answer[r].kind = "replay" => payload[answer[r].of] = payload[r]

\* 409 means what it says: the key was executed with a different payload.
ConflictIsDeserved ==
    \A r \in Requests :
        answer[r].kind = "conflict" =>
            \E q \in Requests : answer[q].kind = "own" /\ payload[q] # payload[r]

\* Once a response is on file, a request that comes later does not execute,
\* however many are in flight, unless the record was lost to it.
RecordedIsNotRepeated == late \cap executed # {} => lost

\* Without overlap and loss the key takes effect once.
OnceUnlessRaced == ~raced /\ ~lost => Cardinality(executed) <= 1

\* What a client is told is right: a replay repeats an answer that was given, to its own
\* payload until handlers overlap or a record is lost, and 409 is due.
AnswersAreDeserved == ReplayWasAnswered /\ ReplayIsForThePayload /\ ConflictIsDeserved

\* What a client asks for happens once, under the proviso of each part.
TakesEffectOnce == RecordedIsNotRepeated /\ OnceUnlessRaced

-----------------------------------------------------------------------------
\* SRS 8: the same key and payload within 24 hours return the original result;
\* so while no record is lost, no payload takes effect twice.
OncePerPayload ==
    ~lost => \A q, r \in executed : payload[q] = payload[r] => q = r
=============================================================================
