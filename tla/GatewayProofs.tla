---------------------------- MODULE GatewayProofs ----------------------------
(***************************************************************************)
(* What a request passes before its handler guarantees, for any number of  *)
(* requests, users, organizations and slots.                               *)
(*                                                                         *)
(* The idempotency middleware, with one key, any payloads, and whatever    *)
(* Redis and restarts do, in three layers, each under the proviso it       *)
(* needs.  Always: a record is the response of a handler that has          *)
(* answered.  While nothing was lost: the key lives in one store, and what *)
(* a late request is to find stays there.  While besides no two handlers   *)
(* overlapped: what has been executed is either on its way into that store *)
(* or the one record in it.                                                *)
(*                                                                         *)
(* The guards: nobody is judged twice, so what a request under way may do  *)
(* is what they found, and who administers an organization is whoever the  *)
(* requests under way cannot have removed.                                 *)
(*                                                                         *)
(* The rate limit: the map of times holds the last of those at which it    *)
(* let a request through, and a whole window lies behind all that it no    *)
(* longer holds.                                                           *)
(***************************************************************************)
EXTENDS Gateway, FiniteSetTheorems, SequenceTheorems, TLAPS

\* Where a record, or a request that will look or record, is.
Using(s) ==
    \/ record[s] # NoRecord
    \/ \E q \in Requests :
          /\ store[q] = s
          /\ pc[q] \in {"lookup", "replay", "running", "effected"} \/ q \in landing

Answered ==
    /\ \A r \in Requests :
          /\ pc[r] # "answered" => answer[r] = NoAnswer
          /\ answer[r].kind = "replay" =>
                answer[r].of \in Requests /\ answer[answer[r].of].kind = "own"
    /\ \A r \in landing : answer[r].kind = "own" /\ store[r] = "redis"
    /\ \A r \in executed : pc[r] \in {"effected", "answered", "failed"}
    /\ \A s \in Stores :
          record[s] # NoRecord => record[s].owner \in Requests /\ answer[record[s].owner].kind = "own"

OneStore == \A s, t \in Stores : Using(s) /\ Using(t) => s = t

Kept ==
    /\ OneStore
    /\ \A s \in Stores : record[s] # NoRecord => record[s].fresh
    /\ \A r \in Requests :
          /\ pc[r] = "replay" => record[store[r]] # NoRecord
          /\ answer[r].kind # "empty"
    /\ late # {} => \E s \in Stores : record[s] # NoRecord
    /\ \A r \in late : pc[r] \notin {"idle", "running", "effected"} /\ r \notin executed

Alone ==
    /\ \A p, q \in Unrecorded : p = q
    /\ \A s \in Stores : record[s] # NoRecord => Unrecorded = {}
    /\ \A q \in executed :
          pc[q] = "effected" \/ q \in landing \/ \E s \in Stores : record[s].owner = q
    /\ \A r \in Requests :
          /\ pc[r] = "replay" => payload[record[store[r]].owner] = payload[r]
          /\ answer[r].kind = "replay" => payload[answer[r].of] = payload[r]

Inv ==
    /\ TypeOK
    /\ Answered /\ ConflictIsDeserved
    /\ ~lost => Kept
    /\ ~lost /\ ~raced => Alone

-----------------------------------------------------------------------------
LEMMA InitInv == Init => Inv
<1> SUFFICES ASSUME Init
             PROVE  Inv
  OBVIOUS
<1>1. TypeOK
  BY DEF Init, TypeOK, Stores, NoAnswer, NoRecord
<1>2. \A r \in Requests : pc[r] = "idle" /\ answer[r] = NoAnswer
  BY DEF Init
<1>3. landing = {} /\ executed = {} /\ late = {} /\ \A s \in Stores : record[s] = NoRecord
  BY DEF Init
<1>4. Answered /\ ConflictIsDeserved
  BY <1>2, <1>3 DEF Answered, ConflictIsDeserved, NoAnswer
<1>5. Kept
  BY <1>2, <1>3 DEF Kept, OneStore, Using, NoAnswer
<1>6. Alone
  BY <1>2, <1>3 DEF Alone, Unrecorded, NoAnswer
<1> QED
  BY <1>1, <1>4, <1>5, <1>6 DEF Inv

LEMMA TypeStep == TypeOK /\ [Next]_vars => TypeOK'
<1> SUFFICES ASSUME TypeOK, [Next]_vars
             PROVE  TypeOK'
  OBVIOUS
<1> DEFINE Records == [owner : Requests \cup {Nobody}, fresh : BOOLEAN]
           Answers == [kind : {"none", "own", "replay", "empty", "conflict", "error"},
                       of : Requests \cup {Nobody}]
<1> USE DEF TypeOK
<1>0. /\ \A q \in Requests \cup {Nobody}, new \in BOOLEAN : [owner |-> q, fresh |-> new] \in Records
      /\ NoRecord \in Records
      /\ \A q \in Requests \cup {Nobody}, k \in {"own", "replay", "empty", "conflict", "error"} :
            [kind |-> k, of |-> q] \in Answers
  BY DEF NoRecord
<1>a. record \in [Stores -> Records] /\ answer \in [Requests -> Answers]
  OBVIOUS
<1>1. ASSUME NEW r \in Requests, Arrive(r)
      PROVE  TypeOK'
  <2>1. \A s \in {"redis", "memory"} : [store EXCEPT ![r] = s] \in [Requests -> Stores]
    BY DEF Stores
  <2>2. Elsewhere("redis") \in BOOLEAN /\ Elsewhere("memory") \in BOOLEAN
    BY DEF Elsewhere
  <2> QED
    BY <1>1, <2>1, <2>2 DEF Arrive
<1>2. ASSUME NEW r \in Requests, Lookup(r)
      PROVE  TypeOK'
  <2>0. answer' = answer \/ \E k \in {"conflict", "error"} :
                                answer' = [answer EXCEPT ![r] = [kind |-> k, of |-> Nobody]]
    <3>1. \/ UNCHANGED answer \/ Answer(r, "conflict", Nobody) \/ Answer(r, "error", Nobody)
      BY <1>2 DEF Lookup
    <3> QED
      BY <3>1 DEF Answer
  <2>1. answer' \in [Requests -> Answers]
    <3> HIDE DEF Answers, TypeOK
    <3>1. ASSUME NEW k \in {"conflict", "error"}, answer' = [answer EXCEPT ![r] = [kind |-> k, of |-> Nobody]]
          PROVE  answer' \in [Requests -> Answers]
      <4>1. [kind |-> k, of |-> Nobody] \in Answers
        BY <1>0
      <4> QED
        BY <1>a, <3>1, <4>1
    <3> QED
      BY <1>a, <2>0, <3>1
  <2>2. raced' \in BOOLEAN
    BY <1>2 DEF Lookup
  <2>3. pc' \in [Requests -> {"idle", "pinging", "lookup", "replay", "running", "effected",
                             "answered", "failed"}]
    BY <1>2 DEF Lookup
  <2> QED
    BY <1>2, <2>1, <2>2, <2>3 DEF Lookup, process
<1>3. ASSUME NEW r \in Requests, Replay(r)
      PROVE  TypeOK'
  BY <1>3 DEF Replay, Answer, process, history
<1>4. ASSUME NEW r \in Requests, TakeEffect(r)
      PROVE  TypeOK'
  BY <1>4 DEF TakeEffect, process, history
<1>5. ASSUME NEW r \in Requests, Respond(r)
      PROVE  TypeOK'
  <2>1. answer' \in [Requests -> Answers] /\ record' \in [Stores -> Records]
    <3> HIDE DEF Answers, Records, TypeOK
    <3> QED
      BY <1>0, <1>5, <1>a DEF Respond, Answer
  <2> QED
    BY <1>5, <2>1 DEF Respond, history
<1>6. ASSUME NEW r \in Requests, SetLands(r) \/ SetFails(r)
      PROVE  TypeOK'
  <2>1. record' \in [Stores -> Records]
    <3> HIDE DEF Answers, Records, TypeOK
    <3> QED
      BY <1>0, <1>6, <1>a DEF SetLands, SetFails
  <2> QED
    BY <1>6, <2>1 DEF SetLands, SetFails, history
<1>7. CASE OtherKeyArrives
  BY <1>7 DEF OtherKeyArrives, history
<1>8. CASE PingEnds
  <2>1. redis' \in BOOLEAN
    BY <1>8 DEF PingEnds
  <2>2. \A s \in {"redis", "memory"} : Elsewhere(s) \in BOOLEAN
    BY DEF Elsewhere
  <2> QED
    BY <1>8, <2>1, <2>2 DEF PingEnds, Stores
<1>9. ASSUME NEW s \in Stores, Expire(s)
      PROVE  TypeOK'
  BY <1>9 DEF Expire, process
<1>10. CASE RedisEvicts \/ RedisGoes
  <2>1. record' \in [Stores -> Records]
    <3> HIDE DEF Answers, Records, TypeOK
    <3> QED
      BY <1>0, <1>10, <1>a DEF RedisEvicts, RedisGoes
  <2> QED
    BY <1>10, <2>1 DEF RedisEvicts, RedisGoes, process, history
<1>11. CASE Restart
  BY <1>11 DEF Restart, NoRecord
<1>12. CASE UNCHANGED vars
  BY <1>12 DEF vars, process, history
<1> QED
  BY <1>1, <1>2, <1>3, <1>4, <1>5, <1>6, <1>7, <1>8, <1>9, <1>10, <1>11, <1>12 DEF Next

-----------------------------------------------------------------------------
(***************************************************************************)
(* Answered: holds whatever is lost and however handlers overlap.          *)
(***************************************************************************)

\* The answers that are there stay, and so does what is said of them.
LEMMA AnsweredStep == Inv /\ [Next]_vars => Answered' /\ ConflictIsDeserved'
<1> SUFFICES ASSUME Inv, [Next]_vars
             PROVE  Answered' /\ ConflictIsDeserved'
  OBVIOUS
<1>0. TypeOK /\ TypeOK' /\ Answered /\ ConflictIsDeserved
  BY TypeStep DEF Inv
<1>a. UNCHANGED payload
  BY DEF Next, vars, Arrive, Lookup, Replay, TakeEffect, Respond, SetLands, SetFails, OtherKeyArrives, PingEnds,
         Expire, RedisEvicts, RedisGoes, Restart
<1>b. ASSUME \A q \in Requests :
                \/ answer'[q] = answer[q]
                \/ /\ answer[q].kind = "none"
                   /\ \/ answer'[q].kind \in {"own", "error", "empty"}
                      \/ /\ answer'[q].kind = "replay"
                         /\ answer'[q].of \in Requests /\ answer[answer'[q].of].kind = "own"
                      \/ /\ answer'[q].kind = "conflict"
                         /\ \E p \in Requests : answer[p].kind = "own" /\ payload[p] # payload[q],
             \A q \in Requests : pc'[q] # "answered" => answer'[q] = NoAnswer,
             \A q \in landing' : \/ q \in landing /\ store'[q] = store[q]
                                 \/ answer'[q].kind = "own" /\ store'[q] = "redis",
             \A q \in executed' : pc'[q] \in {"effected", "answered", "failed"},
             \A s \in Stores : \/ record'[s] \in {record[s], NoRecord}
                               \/ record'[s].owner = record[s].owner /\ record[s].owner # Nobody
                               \/ record'[s].owner \in Requests /\ answer'[record'[s].owner].kind = "own"
      PROVE  Answered' /\ ConflictIsDeserved'
  <2>1. \A q \in Requests : answer[q].kind = "own" => answer'[q].kind = "own"
    BY <1>b
  <2>2. ConflictIsDeserved'
    <3>1. SUFFICES ASSUME NEW q \in Requests, answer'[q].kind = "conflict"
                   PROVE  \E p \in Requests : answer'[p].kind = "own" /\ payload[p] # payload[q]
      BY <1>a DEF ConflictIsDeserved
    <3>2. \E p \in Requests : answer[p].kind = "own" /\ payload[p] # payload[q]
      BY <1>0, <1>b, <3>1 DEF ConflictIsDeserved
    <3> QED
      BY <2>1, <3>2
  <2>3. \A q \in Requests : answer'[q].kind = "replay" =>
           answer'[q].of \in Requests /\ answer'[answer'[q].of].kind = "own"
    BY <1>0, <1>b, <2>1 DEF Answered
  <2>4. \A q \in landing' : answer'[q].kind = "own" /\ store'[q] = "redis"
    BY <1>0, <1>b, <2>1 DEF Answered, TypeOK
  <2>5. \A s \in Stores : record'[s] # NoRecord =>
           record'[s].owner \in Requests /\ answer'[record'[s].owner].kind = "own"
    <3> SUFFICES ASSUME NEW s \in Stores, record'[s] # NoRecord
                 PROVE  record'[s].owner \in Requests /\ answer'[record'[s].owner].kind = "own"
      OBVIOUS
    <3>1. record[s] # NoRecord => record[s].owner \in Requests /\ answer[record[s].owner].kind = "own"
      BY <1>0 DEF Answered
    <3>2. record[s].owner # Nobody => record[s] # NoRecord
      BY DEF NoRecord
    <3> QED
      BY <1>b, <2>1, <3>1, <3>2
  <2> QED
    BY <1>b, <2>2, <2>3, <2>4, <2>5 DEF Answered
<1>c. \A q \in Requests : pc[q] # "answered" =>
         answer[q] = NoAnswer /\ answer[q].kind = "none" /\ q \notin landing
  BY <1>0 DEF Answered, NoAnswer
<1>d. \A q \in executed : q \in Requests /\ pc[q] \in {"effected", "answered", "failed"}
  BY <1>0 DEF Answered, TypeOK
<1>e. \A q \in landing : q \in Requests /\ answer[q].kind = "own"
  BY <1>0 DEF Answered, TypeOK
<1>1. ASSUME NEW r \in Requests, Arrive(r)
      PROVE  Answered' /\ ConflictIsDeserved'
  <2>1. UNCHANGED <<answer, record, landing, executed>> /\ pc[r] = "idle"
    BY <1>1 DEF Arrive
  <2>2. \A q \in Requests \ {r} : pc'[q] = pc[q] /\ store'[q] = store[q]
    BY <1>0, <1>1 DEF Arrive, TypeOK
  <2> QED
    BY <1>b, <1>c, <1>d, <1>e, <2>1, <2>2
<1>2. ASSUME NEW r \in Requests, Lookup(r)
      PROVE  Answered' /\ ConflictIsDeserved'
  <2> DEFINE verdict == CompareRecord(record[store[r]], payload[r])
  <2>1. pc[r] = "lookup" /\ UNCHANGED <<store, record, landing, executed>>
    BY <1>2 DEF Lookup, process
  <2>2. /\ \A q \in Requests \ {r} : pc'[q] = pc[q] /\ answer'[q] = answer[q]
        /\ \/ answer'[r] = answer[r] /\ pc'[r] \in {"running", "replay"}
           \/ answer'[r].kind = "error" /\ pc'[r] = "answered"
           \/ answer'[r].kind = "conflict" /\ pc'[r] = "answered" /\ verdict = "conflict"
    <3> HIDE DEF verdict
    <3> QED
      BY <1>0, <1>2 DEF Lookup, Answer, TypeOK, verdict
  <2>3. verdict = "conflict" => \E p \in Requests : answer[p].kind = "own" /\ payload[p] # payload[r]
    BY <1>0, <2>1 DEF CompareRecord, Answered, NoRecord, TypeOK
  <2> HIDE DEF verdict
  <2> QED
    BY <1>b, <1>c, <1>d, <2>1, <2>2, <2>3
<1>3. ASSUME NEW r \in Requests, Replay(r)
      PROVE  Answered' /\ ConflictIsDeserved'
  <2>1. pc[r] = "replay" /\ UNCHANGED <<store, record, landing, executed>>
    BY <1>3 DEF Replay, process, history
  <2>2. /\ \A q \in Requests \ {r} : pc'[q] = pc[q] /\ answer'[q] = answer[q]
        /\ pc'[r] = "answered"
        /\ \/ answer'[r].kind \in {"error", "empty"}
           \/ /\ answer'[r].kind = "replay" /\ answer'[r].of \in Requests
              /\ answer[answer'[r].of].kind = "own"
    BY <1>0, <1>3 DEF Replay, Answer, TypeOK, Answered, NoRecord
  <2> QED
    BY <1>b, <1>c, <1>d, <2>1, <2>2
<1>4. ASSUME NEW r \in Requests, TakeEffect(r)
      PROVE  Answered' /\ ConflictIsDeserved'
  <2>1. /\ UNCHANGED <<answer, store, record, landing>> /\ executed' = executed \cup {r}
        /\ pc[r] = "running" /\ pc'[r] = "effected" /\ \A q \in Requests \ {r} : pc'[q] = pc[q]
    BY <1>0, <1>4 DEF TakeEffect, TypeOK, process, history
  <2> QED
    BY <1>b, <1>c, <1>d, <2>1
<1>5. ASSUME NEW r \in Requests, Respond(r)
      PROVE  Answered' /\ ConflictIsDeserved'
  <2>1. pc[r] = "effected" /\ UNCHANGED <<store, executed>>
    BY <1>5 DEF Respond, history
  <2>2. /\ \A q \in Requests \ {r} : pc'[q] = pc[q] /\ answer'[q] = answer[q]
        /\ pc'[r] = "answered" /\ answer'[r].kind = "own"
    BY <1>0, <1>5 DEF Respond, Answer, TypeOK
  <2>3. /\ \A q \in landing' : q \in landing \/ (q = r /\ store[r] = "redis")
        /\ \A s \in Stores : record'[s] = record[s] \/ record'[s].owner = r
    BY <1>0, <1>5 DEF Respond, TypeOK
  <2> QED
    BY <1>b, <1>c, <1>d, <2>1, <2>2, <2>3
<1>6. ASSUME NEW r \in Requests, SetLands(r) \/ SetFails(r)
      PROVE  Answered' /\ ConflictIsDeserved'
  <2>1. UNCHANGED <<pc, answer, store, executed>> /\ landing' \subseteq landing
        /\ \A s \in Stores : record'[s] = record[s] \/ record'[s].owner \in landing
    BY <1>0, <1>6 DEF SetLands, SetFails, history, TypeOK
  <2> QED
    BY <1>b, <1>c, <1>d, <1>e, <2>1
<1>7. CASE OtherKeyArrives \/ RedisGoes \/ UNCHANGED vars
  <2>1. UNCHANGED <<pc, answer, store, executed, landing, record>>
    BY <1>7 DEF OtherKeyArrives, RedisGoes, vars, process, history
  <2> QED
    BY <1>b, <1>c, <1>d, <2>1
<1>8. CASE PingEnds
  <2>1. UNCHANGED <<answer, record, landing, executed>>
    BY <1>8 DEF PingEnds
  <2>2. \A q \in Requests : \/ pc'[q] = pc[q] /\ store'[q] = store[q]
                            \/ pc[q] = "pinging" /\ pc'[q] = "lookup"
    BY <1>0, <1>8 DEF PingEnds
  <2> QED
    BY <1>b, <1>c, <1>d, <1>e, <2>1, <2>2
<1>9. ASSUME NEW s \in Stores, Expire(s)
      PROVE  Answered' /\ ConflictIsDeserved'
  <2>1. \A t \in Stores : record'[t] = record[t] \/ (record'[t].owner = record[t].owner /\ record[t].fresh)
    BY <1>0, <1>9 DEF Expire, TypeOK
  <2>2. \A t \in Stores : record[t].fresh => record[t].owner # Nobody
    BY <1>0, NobodyAssumption DEF Answered, NoRecord
  <2>3. UNCHANGED <<pc, answer, store, executed, landing>>
    BY <1>9 DEF Expire, process
  <2> QED
    BY <1>b, <1>c, <1>d, <2>1, <2>2, <2>3
<1>10. CASE RedisEvicts
  <2>1. \A t \in Stores : record'[t] \in {record[t], NoRecord}
    BY <1>0, <1>10 DEF RedisEvicts, TypeOK
  <2>2. UNCHANGED <<pc, answer, store, executed, landing>>
    BY <1>10 DEF RedisEvicts, process, history
  <2> QED
    BY <1>b, <1>c, <1>d, <2>1, <2>2
<1>11. CASE Restart
  <2>1. \A t \in Stores : record'[t] \in {record[t], NoRecord}
    BY <1>0, <1>11 DEF Restart, TypeOK
  <2>2. \A q \in Requests : pc'[q] = pc[q] \/ (pc[q] # "answered" /\ pc'[q] = "failed")
    BY <1>0, <1>11 DEF Restart
  <2>3. UNCHANGED <<answer, store, executed>> /\ landing' = {}
    BY <1>11 DEF Restart
  <2> QED
    BY <1>b, <1>c, <1>d, <2>1, <2>2, <2>3
<1> QED
  BY <1>1, <1>2, <1>3, <1>4, <1>5, <1>6, <1>7, <1>8, <1>9, <1>10, <1>11 DEF Next

-----------------------------------------------------------------------------
(***************************************************************************)
(* Kept: holds until a record is lost to the requests that come.           *)
(***************************************************************************)
LEMMA OneUsesIt ==
    ASSUME TypeOK, NEW s \in Stores
    PROVE  Elsewhere(s) <=> \E t \in Stores \ {s} : Using(t)
BY DEF Elsewhere, Using, TypeOK

\* While nothing is lost, a request chooses the store the others use.
LEMMA KeptStep == Inv /\ [Next]_vars /\ ~lost' => ~lost /\ Kept'
<1> SUFFICES ASSUME Inv, [Next]_vars, ~lost'
             PROVE  ~lost /\ Kept'
  OBVIOUS
<1>l. ~lost
  BY DEF Next, vars, history, Arrive, Lookup, Replay, TakeEffect, Respond, SetLands, SetFails, OtherKeyArrives,
         PingEnds, Expire, RedisEvicts, RedisGoes, Restart
<1> SUFFICES Kept'
  BY <1>l
<1>0. TypeOK /\ TypeOK' /\ Answered /\ Kept
  BY <1>l, TypeStep DEF Inv
<1> DEFINE Keeps ==
             /\ \A s \in Stores : record[s] # NoRecord => record'[s] # NoRecord
             /\ \A s \in Stores : record'[s] = record[s] \/ record'[s].fresh
             /\ \A q \in Requests : pc'[q] = "replay" =>
                   store'[q] = store[q] /\ (pc[q] = "replay" \/ record[store[q]] # NoRecord)
             /\ \A q \in Requests : answer'[q] = answer[q] \/ answer'[q].kind # "empty"
             /\ late' # {} => late # {} \/ \E s \in Stores : record[s] # NoRecord
             /\ \A q \in late' : pc'[q] \notin {"idle", "running", "effected"} /\ q \notin executed'
<1>b. ASSUME OneStore', Keeps
      PROVE  Kept'
  <2>1. \A s \in Stores : record'[s] # NoRecord => record'[s].fresh
    BY <1>0, <1>b DEF Kept
  <2>2. \A q \in Requests : pc'[q] = "replay" => record'[store'[q]] # NoRecord
    BY <1>0, <1>b DEF Kept, TypeOK
  <2>3. \A q \in Requests : answer'[q].kind # "empty"
    BY <1>0, <1>b DEF Kept
  <2>4. late' # {} => \E s \in Stores : record'[s] # NoRecord
    BY <1>0, <1>b DEF Kept
  <2> QED
    BY <1>b, <2>1, <2>2, <2>3, <2>4 DEF Kept
<1>c. ASSUME \A s \in Stores : Using(s)' => Using(s)
      PROVE  OneStore'
  BY <1>0, <1>c DEF Kept, OneStore
<1>d. ASSUME NEW s \in Stores, ~Elsewhere(s), \A t \in Stores : Using(t)' => Using(t) \/ t = s
      PROVE  OneStore'
  <2>1. \A t \in Stores : Using(t) => t = s
    BY <1>0, <1>d, OneUsesIt
  <2> QED
    BY <1>d, <2>1 DEF OneStore
<1>e. \A q \in late : q \in Requests /\ pc[q] \notin {"idle", "running", "effected"} /\ q \notin executed
  BY <1>0 DEF Kept, TypeOK
<1>f. \A q \in executed : q \in Requests /\ pc[q] \in {"effected", "answered", "failed"}
  BY <1>0 DEF Answered, TypeOK
<1>1. ASSUME NEW r \in Requests, Arrive(r)
      PROVE  Kept'
  <2> DEFINE s == IF redis THEN "redis" ELSE "memory"
  <2>1. UNCHANGED <<answer, record, landing, executed>> /\ pc[r] = "idle" /\ s \in Stores
    BY <1>1 DEF Arrive, Stores
  <2>2. \A q \in Requests \ {r} : pc'[q] = pc[q] /\ store'[q] = store[q]
    BY <1>0, <1>1 DEF Arrive, TypeOK
  <2>3. \/ pc'[r] = "pinging"
        \/ pc'[r] = "lookup" /\ store'[r] = s /\ ~Elsewhere(s)
    BY <1>0, <1>1 DEF Arrive, TypeOK
  <2>4. late' = late \/ (late' = late \cup {r} /\ \E t \in Stores : record[t].fresh)
    BY <1>1 DEF Arrive
  <2> HIDE DEF s
  <2>5. r \notin landing
    BY <1>0, <2>1 DEF Answered, NoAnswer
  <2>6. OneStore'
    <3>1. \A t \in Stores : Using(t)' => Using(t) \/ (pc'[r] = "lookup" /\ t = s)
      BY <2>1, <2>2, <2>3, <2>5 DEF Using
    <3> QED
      BY <1>c, <1>d, <2>1, <2>3, <3>1
  <2>7. \A t \in Stores : record[t].fresh => record[t] # NoRecord
    BY DEF NoRecord
  <2>8. r \notin executed /\ \A q \in late' : pc'[q] \notin {"idle", "running", "effected"} /\ q \notin executed'
    BY <1>e, <1>f, <2>1, <2>2, <2>3, <2>4
  <2>9. late' # {} => late # {} \/ \E t \in Stores : record[t] # NoRecord
    BY <2>4, <2>7
  <2>a. Keeps
    BY <2>1, <2>2, <2>3, <2>6, <2>8, <2>9
  <2> QED
    BY <1>b, <2>a, <2>6
<1>2. ASSUME NEW r \in Requests, Lookup(r)
      PROVE  Kept'
  <2> DEFINE verdict == CompareRecord(record[store[r]], payload[r])
  <2>1. pc[r] = "lookup" /\ UNCHANGED <<store, record, landing, executed, late>>
    BY <1>2 DEF Lookup, process
  <2>2. /\ \A q \in Requests \ {r} : pc'[q] = pc[q] /\ answer'[q] = answer[q]
        /\ pc'[r] \in {"running", "replay", "answered"}
        /\ answer'[r] = answer[r] \/ answer'[r].kind # "empty"
        /\ pc'[r] = "running" => verdict = "miss"
        /\ pc'[r] = "replay" => verdict = "replay"
    <3> HIDE DEF verdict
    <3> QED
      BY <1>0, <1>2 DEF Lookup, Answer, TypeOK, verdict
  <2>3. verdict = "replay" => record[store[r]] # NoRecord
    BY DEF CompareRecord, NoRecord
  <2>4. ASSUME NEW t \in Stores, record[t] # NoRecord
        PROVE  verdict # "miss"
    <3>1. store[r] \in Stores /\ Using(t) /\ Using(store[r])
      BY <1>0, <2>1, <2>4 DEF Using, TypeOK
    <3>2. store[r] = t
      BY <1>0, <3>1 DEF Kept, OneStore
    <3>3. record[t].fresh /\ record[t].owner \in Requests
      BY <1>0, <2>4 DEF Kept, Answered
    <3> QED
      BY <3>2, <3>3, NobodyAssumption DEF CompareRecord
  <2> HIDE DEF verdict
  <2>5. OneStore'
    <3>1. \A t \in Stores : Using(t)' => Using(t)
      BY <2>1, <2>2 DEF Using
    <3> QED
      BY <1>c, <3>1
  <2>6. late # {} => verdict # "miss"
    BY <1>0, <2>4 DEF Kept
  <2>7. \A q \in late' : pc'[q] \notin {"idle", "running", "effected"} /\ q \notin executed'
    BY <1>e, <2>1, <2>2, <2>6
  <2>a. Keeps
    BY <2>1, <2>2, <2>3, <2>5, <2>7
  <2> QED
    BY <1>b, <2>a, <2>5
<1>3. ASSUME NEW r \in Requests, Replay(r)
      PROVE  Kept'
  <2>1. pc[r] = "replay" /\ UNCHANGED <<store, record, landing, executed, late>>
    BY <1>3 DEF Replay, process, history
  <2>2. \A q \in Requests \ {r} : pc'[q] = pc[q] /\ answer'[q] = answer[q]
    BY <1>0, <1>3 DEF Replay, Answer, TypeOK
  <2>3. record[store[r]].owner # Nobody
    BY <1>0, <2>1, NobodyAssumption DEF Kept, Answered, TypeOK
  <2>4. pc'[r] = "answered" /\ answer'[r].kind # "empty"
    BY <1>0, <1>3, <2>3 DEF Replay, Answer, TypeOK
  <2>5. OneStore'
    <3>1. \A t \in Stores : Using(t)' => Using(t)
      BY <2>1, <2>2, <2>4 DEF Using
    <3> QED
      BY <1>c, <3>1
  <2>a. Keeps
    BY <1>e, <2>1, <2>2, <2>4, <2>5
  <2> QED
    BY <1>b, <2>a, <2>5
<1>4. ASSUME NEW r \in Requests, TakeEffect(r)
      PROVE  Kept'
  <2>1. /\ UNCHANGED <<answer, store, record, landing, late>> /\ executed' = executed \cup {r}
        /\ pc[r] = "running" /\ pc'[r] = "effected" /\ \A q \in Requests \ {r} : pc'[q] = pc[q]
    BY <1>0, <1>4 DEF TakeEffect, TypeOK, process, history
  <2>2. OneStore'
    <3>1. \A t \in Stores : Using(t)' => Using(t)
      BY <2>1 DEF Using
    <3> QED
      BY <1>c, <3>1
  <2>a. Keeps
    BY <1>e, <2>1, <2>2
  <2> QED
    BY <1>b, <2>a, <2>2
<1>5. ASSUME NEW r \in Requests, Respond(r)
      PROVE  Kept'
  <2>1. pc[r] = "effected" /\ UNCHANGED <<store, executed, late>>
    BY <1>5 DEF Respond, history
  <2>2. /\ \A q \in Requests \ {r} : pc'[q] = pc[q] /\ answer'[q] = answer[q]
        /\ pc'[r] = "answered" /\ answer'[r].kind = "own"
    BY <1>0, <1>5 DEF Respond, Answer, TypeOK
  <2>3. /\ \A q \in landing' : q \in landing \/ q = r
        /\ \A s \in Stores : record'[s] = record[s] \/ (record'[s] = [owner |-> r, fresh |-> TRUE] /\ s = store[r])
    BY <1>0, <1>5 DEF Respond, TypeOK
  <2>4. [owner |-> r, fresh |-> TRUE] # NoRecord
    BY DEF NoRecord
  <2>5. OneStore'
    <3>1. \A t \in Stores : Using(t)' => Using(t)
      BY <1>0, <2>1, <2>2, <2>3 DEF Using, TypeOK
    <3> QED
      BY <1>c, <3>1
  <2>6. \A s \in Stores : record[s] # NoRecord => record'[s] # NoRecord
    BY <2>3, <2>4
  <2>b. \A s \in Stores : record'[s] = record[s] \/ record'[s].fresh
    BY <2>3, <2>4
  <2>a. Keeps
    BY <1>e, <2>1, <2>2, <2>6, <2>b
  <2> QED
    BY <1>b, <2>a, <2>5
<1>6. ASSUME NEW r \in Requests, SetLands(r)
      PROVE  Kept'
  <2>1. UNCHANGED <<pc, answer, store, executed, late>> /\ landing' \subseteq landing /\ r \in landing
        /\ \A s \in Stores : record'[s] = record[s] \/ (record'[s] = [owner |-> r, fresh |-> TRUE] /\ s = "redis")
    BY <1>0, <1>6 DEF SetLands, history, TypeOK
  <2>2. [owner |-> r, fresh |-> TRUE] # NoRecord
    BY DEF NoRecord
  <2>3. OneStore'
    <3>1. store[r] = "redis"
      BY <1>0, <2>1 DEF Answered
    <3>2. \A t \in Stores : Using(t)' => Using(t)
      BY <2>1, <3>1 DEF Using
    <3> QED
      BY <1>c, <3>2
  <2>4. \A s \in Stores : record[s] # NoRecord => record'[s] # NoRecord
    BY <2>1, <2>2
  <2>b. \A s \in Stores : record'[s] = record[s] \/ record'[s].fresh
    BY <2>1, <2>2
  <2>a. Keeps
    BY <1>e, <2>1, <2>4, <2>b
  <2> QED
    BY <1>b, <2>a, <2>3
<1>7. CASE OtherKeyArrives \/ RedisGoes \/ UNCHANGED vars
  <2>1. UNCHANGED <<pc, answer, store, executed, landing, record, late>>
    BY <1>7 DEF OtherKeyArrives, RedisGoes, vars, process, history
  <2>2. OneStore'
    BY <1>0, <2>1 DEF Kept, OneStore, Using
  <2>a. Keeps
    BY <1>e, <2>1, <2>2
  <2> QED
    BY <1>b, <2>a, <2>2
<1>8. CASE PingEnds
  <2> DEFINE s == IF redis' THEN "redis" ELSE "memory"
             waiting == {q \in Requests : pc[q] = "pinging"}
  <2>1. UNCHANGED <<answer, record, landing, executed, late>>
    BY <1>8 DEF PingEnds
  <2>2. \A q \in Requests : \/ pc'[q] = pc[q] /\ store'[q] = store[q] /\ q \notin waiting
                            \/ q \in waiting /\ pc'[q] = "lookup" /\ store'[q] = s
    BY <1>0, <1>8 DEF PingEnds
  <2>3. s \in Stores /\ (waiting = {} \/ ~Elsewhere(s))
    BY <1>8 DEF PingEnds, Stores
  <2> HIDE DEF s
  <2>4. OneStore'
    <3>1. \A q \in waiting : q \notin landing /\ pc[q] = "pinging"
      BY <1>0 DEF Answered, NoAnswer
    <3>2. \A t \in Stores : Using(t)' => Using(t) \/ (t = s /\ waiting # {})
      <4> HIDE DEF waiting
      <4> QED
        BY <2>1, <2>2, <3>1 DEF Using
    <3> HIDE DEF waiting
    <3> QED
      BY <1>c, <1>d, <2>3, <3>2
  <2>5. \A q \in Requests : \/ pc'[q] = pc[q] /\ store'[q] = store[q]
                            \/ pc'[q] = "lookup"
    BY <2>2
  <2>a. Keeps
    BY <1>e, <2>1, <2>4, <2>5
  <2> QED
    BY <1>b, <2>a, <2>4
<1>9. ASSUME NEW s \in Stores, Expire(s)
      PROVE  FALSE
  BY <1>9 DEF Expire
<1>10. ASSUME NEW r \in Requests, SetFails(r)
       PROVE  FALSE
  BY <1>10 DEF SetFails
<1>11. CASE RedisEvicts
  <2>1. record["redis"] # NoRecord /\ ~record["redis"].fresh /\ "redis" \in Stores
    BY <1>11 DEF RedisEvicts, NoRecord, Stores
  <2> QED
    BY <1>0, <2>1 DEF Kept
<1>12. CASE Restart
  <2>1. record["memory"] = NoRecord
    BY <1>12 DEF Restart
  <2>2. UNCHANGED <<answer, store, executed, late, record>> /\ landing' = {}
    BY <1>0, <1>12, <2>1 DEF Restart, TypeOK
  <2>3. \A q \in Requests : pc'[q] = pc[q] \/ pc'[q] = "failed"
    BY <1>0, <1>12 DEF Restart
  <2>4. OneStore'
    <3>1. \A t \in Stores : Using(t)' => Using(t)
      BY <2>2, <2>3 DEF Using
    <3> QED
      BY <1>c, <3>1
  <2>a. Keeps
    BY <1>e, <2>2, <2>3, <2>4
  <2> QED
    BY <1>b, <2>a, <2>4
<1> QED
  BY <1>1, <1>2, <1>3, <1>4, <1>5, <1>6, <1>7, <1>8, <1>9, <1>10, <1>11, <1>12 DEF Next

-----------------------------------------------------------------------------
(***************************************************************************)
(* Alone: holds until, besides, a handler is started while another has not *)
(* recorded its answer.                                                    *)
(***************************************************************************)
LEMMA AloneStep == Inv /\ [Next]_vars /\ ~lost' /\ ~raced' => Alone'
<1> SUFFICES ASSUME Inv, [Next]_vars, ~lost', ~raced'
             PROVE  Alone'
  OBVIOUS
<1>l. ~lost /\ ~raced
  <2>1. ~raced
    BY DEF Next, vars, history, Arrive, Lookup, Replay, TakeEffect, Respond, SetLands, SetFails,
           OtherKeyArrives, PingEnds, Expire, RedisEvicts, RedisGoes, Restart
  <2> QED
    BY <2>1, KeptStep
<1>0. TypeOK /\ TypeOK' /\ Answered /\ Kept /\ Alone
  BY <1>l, TypeStep DEF Inv
<1>a. UNCHANGED payload
  BY DEF Next, vars, Arrive, Lookup, Replay, TakeEffect, Respond, SetLands, SetFails, OtherKeyArrives, PingEnds,
         Expire, RedisEvicts, RedisGoes, Restart
<1> DEFINE Busy(q) == pc[q] \in {"running", "effected"} \/ q \in landing
           Recorded(q) == \E s \in Stores : record[s].owner = q
           Fits(q) == payload[record[store[q]].owner] = payload[q]
<1>u. /\ \A q \in Requests : q \in Unrecorded <=> Busy(q)
      /\ \A q \in Requests : q \in Unrecorded' <=> Busy(q)'
      /\ Unrecorded \subseteq Requests /\ Unrecorded' \subseteq Requests
  BY <1>0 DEF Unrecorded, TypeOK
<1>b. ASSUME \A p, q \in Unrecorded' : p = q,
             (\E s \in Stores : record'[s] # NoRecord) => Unrecorded' = {},
             \A q \in executed' : pc'[q] = "effected" \/ q \in landing' \/ Recorded(q)',
             \A q \in Requests : pc'[q] = "replay" => Fits(q)',
             \A q \in Requests : answer'[q].kind = "replay" => payload[answer'[q].of] = payload[q]
      PROVE  Alone'
  BY <1>a, <1>b DEF Alone
\* Nothing is started, and the records stay as they are.
<1>c. ASSUME UNCHANGED <<record, executed>>,
             \A q \in Requests : Busy(q)' => Busy(q),
             \A q \in executed : (pc[q] = "effected" \/ q \in landing) =>
                                 (pc'[q] = "effected" \/ q \in landing'),
             \A q \in Requests : pc'[q] = "replay" =>
                store'[q] = store[q] /\ (pc[q] = "replay" \/ Fits(q)),
             \A q \in Requests :
                answer'[q] = answer[q] \/ (answer'[q].kind = "replay" => payload[answer'[q].of] = payload[q])
      PROVE  Alone'
  <2>1. Unrecorded' \subseteq Unrecorded
    BY <1>c, <1>u
  <2>2. /\ \A p, q \in Unrecorded' : p = q
        /\ (\E s \in Stores : record'[s] # NoRecord) => Unrecorded' = {}
    BY <1>0, <1>c, <2>1 DEF Alone
  <2>3. \A q \in executed' : pc'[q] = "effected" \/ q \in landing' \/ Recorded(q)'
    BY <1>0, <1>c DEF Alone
  <2>4. \A q \in Requests : pc'[q] = "replay" => Fits(q)'
    BY <1>0, <1>a, <1>c DEF Alone
  <2>5. \A q \in Requests : answer'[q].kind = "replay" => payload[answer'[q].of] = payload[q]
    BY <1>0, <1>c DEF Alone
  <2> QED
    BY <1>b, <2>2, <2>3, <2>4, <2>5
\* The one handler under way records its answer.
<1>d. ASSUME NEW r \in Unrecorded, NEW s \in Stores, record'[s].owner = r,
             UNCHANGED <<store, executed>>, Unrecorded' = {},
             \A q \in Requests : pc'[q] = "replay" => pc[q] = "replay",
             \A q \in Requests : answer'[q] = answer[q] \/ answer'[q].kind = "own"
      PROVE  Alone'
  <2>1. \A t \in Stores : record[t] = NoRecord
    BY <1>0, <1>d DEF Alone
  <2>2. \A q \in executed' : Recorded(q)'
    <3>1. \A q \in executed : q \in Requests /\ q # Nobody
      BY <1>0, NobodyAssumption DEF TypeOK
    <3>2. \A q \in executed : pc[q] = "effected" \/ q \in landing
      BY <1>0, <2>1, <3>1 DEF Alone, NoRecord
    <3>3. \A q \in executed : q \in Unrecorded
      BY <1>u, <3>1, <3>2
    <3>4. \A q \in executed : q = r
      BY <1>0, <1>d, <3>3 DEF Alone
    <3> QED
      BY <1>d, <3>4
  <2>3. \A q \in Requests : pc'[q] # "replay"
    BY <1>0, <1>d, <2>1 DEF Kept, TypeOK
  <2>4. \A q \in Requests : answer'[q].kind = "replay" => payload[answer'[q].of] = payload[q]
    BY <1>0, <1>d DEF Alone
  <2> QED
    BY <1>b, <1>d, <2>2, <2>3, <2>4
<1> HIDE DEF Recorded, Fits
<1>1. ASSUME NEW r \in Requests, Arrive(r)
      PROVE  Alone'
  <2>1. UNCHANGED <<answer, record, landing, executed>> /\ pc[r] = "idle"
    BY <1>1 DEF Arrive
  <2>2. \A q \in Requests \ {r} : pc'[q] = pc[q] /\ store'[q] = store[q]
    BY <1>0, <1>1 DEF Arrive, TypeOK
  <2>3. pc'[r] \in {"pinging", "lookup"}
    BY <1>0, <1>1 DEF Arrive, TypeOK
  <2>4. r \notin executed /\ executed \subseteq Requests
    BY <1>0, <2>1 DEF Answered, TypeOK
  <2> QED
    BY <1>c, <2>1, <2>2, <2>3, <2>4
<1>2. ASSUME NEW r \in Requests, Lookup(r)
      PROVE  Alone'
  <2> DEFINE verdict == CompareRecord(record[store[r]], payload[r])
  <2>1. pc[r] = "lookup" /\ UNCHANGED <<store, record, landing, executed>>
    BY <1>2 DEF Lookup, process
  <2>2. /\ \A q \in Requests \ {r} : pc'[q] = pc[q] /\ answer'[q] = answer[q]
        /\ answer'[r] = answer[r] \/ answer'[r].kind # "replay"
        /\ \/ pc'[r] = "running" /\ verdict = "miss" /\ Unrecorded = {} /\ UNCHANGED answer
           \/ pc'[r] = "replay" /\ verdict = "replay"
           \/ pc'[r] = "answered"
    <3> HIDE DEF verdict
    <3> QED
      BY <1>0, <1>2 DEF Lookup, Answer, TypeOK, verdict
  <2>3. verdict = "replay" => Fits(r)
    BY DEF CompareRecord, Fits
  <2>4. r \notin executed /\ executed \subseteq Requests
    BY <1>0, <2>1 DEF Answered, TypeOK
  <2>5. CASE pc'[r] = "running"
    <3>1. ASSUME NEW t \in Stores, record[t] # NoRecord
          PROVE  FALSE
      <4>1. store[r] \in Stores /\ Using(t) /\ Using(store[r])
        BY <1>0, <2>1, <3>1 DEF Using, TypeOK
      <4>2. store[r] = t
        BY <1>0, <4>1 DEF Kept, OneStore
      <4>3. record[t].fresh /\ record[t].owner \in Requests
        BY <1>0, <3>1 DEF Kept, Answered
      <4> QED
        BY <2>2, <2>5, <4>2, <4>3, NobodyAssumption DEF CompareRecord
    <3> HIDE DEF verdict
    <3>2. Unrecorded = {} /\ UNCHANGED answer
      BY <2>2, <2>5
    <3>3. \A q \in Unrecorded' : q = r
      BY <1>u, <2>1, <2>2, <3>2
    <3>4. executed' = {}
      <4>1. \A q \in executed : q \in Requests /\ ~Busy(q) /\ ~Recorded(q)
        BY <1>0, <1>u, <2>4, <3>1, <3>2, NobodyAssumption DEF Recorded, NoRecord
      <4> QED
        BY <1>0, <2>1, <4>1 DEF Alone, Recorded
    <3>5. \A q \in Requests : pc'[q] # "replay"
      BY <1>0, <2>2, <2>5, <3>1 DEF Kept, TypeOK
    <3>6. \A q \in Requests : answer'[q].kind = "replay" => payload[answer'[q].of] = payload[q]
      BY <1>0, <3>2 DEF Alone
    <3> QED
      BY <1>b, <2>1, <3>1, <3>3, <3>4, <3>5, <3>6
  <2>6. CASE pc'[r] # "running"
    <3> HIDE DEF verdict
    <3> QED
      BY <1>c, <2>1, <2>2, <2>3, <2>4, <2>6
  <2> QED
    BY <2>5, <2>6
<1>3. ASSUME NEW r \in Requests, Replay(r)
      PROVE  Alone'
  <2>1. pc[r] = "replay" /\ UNCHANGED <<store, record, landing, executed>>
    BY <1>3 DEF Replay, process, history
  <2>2. /\ \A q \in Requests \ {r} : pc'[q] = pc[q] /\ answer'[q] = answer[q]
        /\ pc'[r] = "answered"
        /\ answer'[r].kind = "replay" => answer'[r].of = record[store[r]].owner
    BY <1>0, <1>3 DEF Replay, Answer, TypeOK
  <2>3. Fits(r)
    BY <1>0, <2>1 DEF Alone, Fits
  <2>4. answer'[r].kind = "replay" => payload[answer'[r].of] = payload[r]
    BY <2>2, <2>3 DEF Fits
  <2>5. r \notin executed /\ executed \subseteq Requests
    BY <1>0, <2>1 DEF Answered, TypeOK
  <2> QED
    BY <1>c, <2>1, <2>2, <2>4, <2>5
<1>4. ASSUME NEW r \in Requests, TakeEffect(r)
      PROVE  Alone'
  <2>1. /\ UNCHANGED <<answer, store, record, landing>> /\ executed' = executed \cup {r}
        /\ pc[r] = "running" /\ pc'[r] = "effected" /\ \A q \in Requests \ {r} : pc'[q] = pc[q]
    BY <1>0, <1>4 DEF TakeEffect, TypeOK, process, history
  <2>2. Unrecorded' = Unrecorded
    BY <1>u, <2>1
  <2>3. \A q \in executed' : pc'[q] = "effected" \/ q \in landing' \/ Recorded(q)'
    BY <1>0, <2>1 DEF Alone, TypeOK, Recorded
  <2>4. \A q \in Requests : pc'[q] = "replay" => Fits(q)'
    BY <1>0, <1>a, <2>1 DEF Alone, Fits
  <2>5. \A q \in Requests : answer'[q].kind = "replay" => payload[answer'[q].of] = payload[q]
    BY <1>0, <2>1 DEF Alone
  <2>6. /\ \A p, q \in Unrecorded' : p = q
        /\ (\E s \in Stores : record'[s] # NoRecord) => Unrecorded' = {}
    BY <1>0, <2>1, <2>2 DEF Alone
  <2> QED
    BY <1>b, <2>3, <2>4, <2>5, <2>6
<1>5. ASSUME NEW r \in Requests, Respond(r)
      PROVE  Alone'
  <2>1. pc[r] = "effected" /\ UNCHANGED <<store, executed>> /\ r \in Unrecorded
    BY <1>5, <1>u DEF Respond, history
  <2>2. /\ \A q \in Requests \ {r} : pc'[q] = pc[q] /\ answer'[q] = answer[q]
        /\ pc'[r] = "answered" /\ answer'[r].kind = "own"
    BY <1>0, <1>5 DEF Respond, Answer, TypeOK
  <2>3. CASE store[r] = "memory"
    <3>1. UNCHANGED landing /\ record'["memory"].owner = r /\ "memory" \in Stores
      BY <1>0, <1>5, <2>3 DEF Respond, TypeOK, Stores
    <3>2. r \notin landing
      BY <1>0, <2>1 DEF Answered, NoAnswer
    <3>3. Unrecorded' = {}
      <4>1. \A q \in Requests \ {r} : q \notin Unrecorded
        BY <1>0, <2>1 DEF Alone
      <4> QED
        BY <1>u, <2>2, <3>1, <3>2, <4>1
    <3> QED
      BY <1>d, <2>1, <2>2, <3>1, <3>3
  <2>4. CASE store[r] = "redis"
    <3>1. landing' = landing \cup {r} /\ UNCHANGED record
      BY <1>5, <2>4 DEF Respond
    <3>2. executed \subseteq Requests
      BY <1>0 DEF TypeOK
    <3> QED
      BY <1>c, <2>1, <2>2, <3>1, <3>2
  <2> QED
    BY <1>0, <2>3, <2>4 DEF TypeOK, Stores
<1>6. ASSUME NEW r \in Requests, SetLands(r)
      PROVE  Alone'
  <2>1. UNCHANGED <<pc, answer, store, executed>> /\ landing' = landing \ {r} /\ r \in landing
        /\ record'["redis"].owner = r /\ "redis" \in Stores
    BY <1>0, <1>6 DEF SetLands, history, TypeOK, Stores
  <2>2. r \in Unrecorded /\ pc[r] = "answered"
    BY <1>0, <1>u, <2>1 DEF Answered, NoAnswer
  <2>3. Unrecorded' = {}
    <3>1. \A q \in Requests \ {r} : q \notin Unrecorded
      BY <1>0, <2>2 DEF Alone
    <3> QED
      BY <1>u, <2>1, <2>2, <3>1
  <2> QED
    BY <1>d, <2>1, <2>2, <2>3
<1>7. CASE OtherKeyArrives \/ RedisGoes \/ UNCHANGED vars
  <2>1. UNCHANGED <<pc, answer, store, executed, landing, record>>
    BY <1>7 DEF OtherKeyArrives, RedisGoes, vars, process, history
  <2> QED
    BY <1>c, <2>1
<1>8. CASE PingEnds
  <2>1. UNCHANGED <<answer, record, landing, executed>>
    BY <1>8 DEF PingEnds
  <2>2. \A q \in Requests : \/ pc'[q] = pc[q] /\ store'[q] = store[q]
                            \/ pc[q] = "pinging" /\ pc'[q] = "lookup"
    BY <1>0, <1>8 DEF PingEnds
  <2>3. executed \subseteq Requests
    BY <1>0 DEF TypeOK
  <2> QED
    BY <1>c, <2>1, <2>2, <2>3
<1>9. ASSUME NEW s \in Stores, Expire(s)
      PROVE  FALSE
  BY <1>9 DEF Expire
<1>10. ASSUME NEW r \in Requests, SetFails(r)
       PROVE  FALSE
  BY <1>10 DEF SetFails
<1>11. CASE RedisEvicts
  <2>1. record["redis"] # NoRecord /\ ~record["redis"].fresh /\ "redis" \in Stores
    BY <1>11 DEF RedisEvicts, NoRecord, Stores
  <2> QED
    BY <1>0, <2>1 DEF Kept
<1>12. CASE Restart
  <2>1. record["memory"] = NoRecord /\ landing = {} /\ \A q \in Requests : pc[q] # "effected"
    BY <1>12 DEF Restart
  <2>2. UNCHANGED <<answer, store, executed, record>> /\ landing' = {}
    BY <1>0, <1>12, <2>1 DEF Restart, TypeOK
  <2>3. \A q \in Requests : pc'[q] = pc[q] \/ pc'[q] = "failed"
    BY <1>0, <1>12 DEF Restart
  <2>4. executed \subseteq Requests
    BY <1>0 DEF TypeOK
  <2> QED
    BY <1>c, <2>1, <2>2, <2>3, <2>4
<1> QED
  BY <1>1, <1>2, <1>3, <1>4, <1>5, <1>6, <1>7, <1>8, <1>9, <1>10, <1>11, <1>12 DEF Next

-----------------------------------------------------------------------------
LEMMA Invariance == Spec => []Inv
<1>1. Inv /\ [Next]_vars => Inv'
  <2> SUFFICES ASSUME Inv, [Next]_vars
               PROVE  Inv'
    OBVIOUS
  <2>1. TypeOK'
    BY TypeStep DEF Inv
  <2>2. Answered' /\ ConflictIsDeserved'
    BY AnsweredStep
  <2>3. ~lost' => Kept'
    BY KeptStep
  <2>4. ~lost' /\ ~raced' => Alone'
    BY AloneStep
  <2> QED
    BY <2>1, <2>2, <2>3, <2>4 DEF Inv
<1> QED
  BY <1>1, InitInv, PTL DEF Spec

\* A replay repeats an answer that was given, to the payload it is sent for until
\* handlers overlap or a record is lost, and 409 is answered only to a payload
\* other than the one the key was executed with.
THEOREM AnswersAreDeservedAlways == Spec => []AnswersAreDeserved
<1>1. Inv => ReplayWasAnswered
  BY DEF Inv, Answered, Kept, ReplayWasAnswered
<1>2. Inv => ReplayIsForThePayload
  BY DEF Inv, Alone, ReplayIsForThePayload
<1>3. Inv => AnswersAreDeserved
  BY <1>1, <1>2 DEF Inv, AnswersAreDeserved
<1> QED
  BY <1>3, Invariance, PTL

\* A request that comes when the response is on file does not execute until the
\* record is lost to it, and until handlers overlap the key takes effect once.
THEOREM TakesEffectOnceAlways == Spec => []TakesEffectOnce
<1>1. Inv => RecordedIsNotRepeated
  BY DEF Inv, Kept, RecordedIsNotRepeated
<1>2. Inv => OnceUnlessRaced
  <2> SUFFICES ASSUME Inv, ~raced, ~lost
               PROVE  Cardinality(executed) <= 1
    BY DEF OnceUnlessRaced
  <2>0. TypeOK /\ Answered /\ Kept /\ Alone
    BY DEF Inv
  <2>1. ASSUME NEW p \in executed, NEW q \in executed
        PROVE  p = q
    <3>1. p \in Requests /\ q \in Requests
      BY <2>0 DEF TypeOK
    <3>2. ASSUME NEW x \in Requests, x \in executed
          PROVE  x \in Unrecorded \/ \E s \in Stores : record[s].owner = x /\ record[s] # NoRecord
      <4>1. x # Nobody
        BY NobodyAssumption
      <4> QED
        BY <2>0, <3>2, <4>1 DEF Alone, Unrecorded, NoRecord
    <3>3. CASE \E s \in Stores : record[s] # NoRecord
      <4>1. Unrecorded = {}
        BY <2>0, <3>3 DEF Alone
      <4>2. PICK s \in Stores : record[s].owner = p /\ record[s] # NoRecord
        BY <3>1, <3>2, <4>1
      <4>3. PICK t \in Stores : record[t].owner = q /\ record[t] # NoRecord
        BY <3>1, <3>2, <4>1
      <4>4. s = t
        BY <2>0, <4>2, <4>3 DEF Kept, OneStore, Using
      <4> QED
        BY <4>2, <4>3, <4>4
    <3>4. CASE ~ \E s \in Stores : record[s] # NoRecord
      <4>1. p \in Unrecorded /\ q \in Unrecorded
        BY <3>1, <3>2, <3>4
      <4> QED
        BY <2>0, <4>1 DEF Alone
    <3> QED
      BY <3>3, <3>4
  <2>2. executed = {} \/ \E x : executed = {x}
    BY <2>1
  <2> QED
    BY <2>2, FS_EmptySet, FS_Singleton
<1>3. Inv => TakesEffectOnce
  BY <1>1, <1>2 DEF TakesEffectOnce
<1> QED
  BY <1>3, Invariance, PTL

-----------------------------------------------------------------------------
(***************************************************************************)
(* The guards, the sessions and the memberships they look at.              *)
(***************************************************************************)
Making == {"role", "member"}
Administers(u) ==
    members[Seeded][u].status = "ACTIVE" /\ "role:write" \in grants[Seeded][members[Seeded][u].role]
Administered(o) ==
    \E u \in Users : members[o][u] = [role |-> "admin", status |-> "ACTIVE"]
                     /\ BaselinePermissions \subseteq grants[o]["admin"]

\* What is known of a request under way: nobody is judged twice, so it is what the guards found.
Judged ==
    \A s \in Slots :
        /\ stage[s] = "idle" => job[s] = Idle
        /\ stage[s] # "idle" =>
              job[s].user \in Users /\ job[s].org \in Orgs /\ job[s].live
                /\ job[s].session \in DOMAIN sessions
        /\ stage[s] \notin {"idle", "members"} => permitted[s]
        /\ stage[s] = "update" => job[s].kind = UpdatesMember /\ job[s].target \in Users

\* Who changes a membership is a member, of the seeded organization when it comes to the
\* write: in any other nobody else is there to be changed.
Changing ==
    \A s \in Slots :
        /\ stage[s] = "handle" /\ job[s].kind = UpdatesMember =>
              members[job[s].org][job[s].user] # NoMember
        /\ stage[s] = "update" =>
              job[s].org = Seeded /\ job[s].target # job[s].user
                /\ members[Seeded][job[s].target] # NoMember

\* An organization being created is nobody else's, and nobody's yet.
NewOrgs ==
    /\ Seeded \in orgs
    /\ \A s \in Slots : stage[s] \in Making =>
          /\ job[s].org \in orgs \ {Seeded}
          /\ \A u \in Users : members[job[s].org][u] = NoMember
          /\ stage[s] = "member" => grants[job[s].org]["admin"] = BaselinePermissions
    /\ \A s, q \in Slots : stage[s] \in Making /\ stage[q] \in Making /\ job[s].org = job[q].org => s = q

OtherOrgs ==
    /\ \A o \in Orgs \ orgs, u \in Users : members[o][u] = NoMember
    /\ \A o \in Orgs \ {Seeded}, u, v \in Users :
          members[o][u] # NoMember /\ members[o][v] # NoMember => u = v
    /\ \A o \in orgs \ (cut \cup {Seeded}) :
          (\E s \in Slots : stage[s] \in Making /\ job[s].org = o) \/ Administered(o)

\* Until requests to change memberships overlap, the one under way is an administrator's, who
\* stays one: nobody changes the own membership.
OneChanges ==
    ~overlapped =>
        /\ \A s, q \in Slots : job[s].kind = UpdatesMember /\ job[q].kind = UpdatesMember => s = q
        /\ \A s \in Slots : stage[s] \in {"handle", "update"} /\ job[s].kind = UpdatesMember
                            /\ job[s].org = Seeded => Administers(job[s].user)
        /\ \E u \in Users : Administers(u)

AccInv ==
    /\ AccTypeOK /\ Judged /\ Changing /\ NewOrgs /\ OtherOrgs /\ OneChanges /\ WritesArePermitted

Stages == {"idle", "members", "handle", "update", "create", "role", "member"}

\* No handler that writes data of the organization asks only for a permission to read.
LEMMA ReadersWriteNothing ==
    \A k \in Kinds : k.effect = "writes" => k.permission \notin ReadingPermissions
<1>1. \A p, hs : \A r \in Gets(p, hs) : r.effect = "reads"
  BY DEF Gets
<1>2. \A p, hs : \A r \in Own(p, hs) : r.effect = "own"
  BY DEF Own
<1>3. \A p, hs : \A r \in Posts(p, hs) : r.permission = p
  BY DEF Posts
<1> DEFINE Fine(S) == \A r \in S : r.effect = "writes" => r.permission \notin ReadingPermissions
<1>4. \A p, hs : Fine(Gets(p, hs)) /\ Fine(Own(p, hs)) /\ (p \notin ReadingPermissions => Fine(Posts(p, hs)))
  BY <1>1, <1>2, <1>3
<1>5. \A S, T : Fine(S) /\ Fine(T) => Fine(S \cup T)
  OBVIOUS
<1>6. {"contract:write", "payment:write", "settlement:write", "finance:write", "property:write",
       "document:write", "document:approve", "communication:write", "maintenance:write", "ai:write"}
         \cap ReadingPermissions = {}
  BY DEF ReadingPermissions
<1> HIDE DEF Fine
<1>7. /\ Fine(ContractRoutes) /\ Fine(PaymentRoutes) /\ Fine(CodeudorRoutes) /\ Fine(TermRoutes)
      /\ Fine(RentIndexRoutes) /\ Fine(MeterRoutes) /\ Fine(DepositRoutes) /\ Fine(ArrearsRoutes)
  BY <1>4, <1>5, <1>6 DEF ContractRoutes, PaymentRoutes, CodeudorRoutes, TermRoutes, RentIndexRoutes,
     MeterRoutes, DepositRoutes, ArrearsRoutes
<1>8. /\ Fine(SettlementRoutes) /\ Fine(BankRoutes) /\ Fine(LedgerRoutes) /\ Fine(AssemblyRoutes)
      /\ Fine(CuotaRoutes) /\ Fine(PropertyRoutes) /\ Fine(OccupancyRoutes) /\ Fine(DocumentRoutes)
      /\ Fine(ReviewRoutes)
  BY <1>4, <1>5, <1>6 DEF SettlementRoutes, BankRoutes, LedgerRoutes, AssemblyRoutes, CuotaRoutes,
     PropertyRoutes, OccupancyRoutes, DocumentRoutes, ReviewRoutes
<1>9. /\ Fine(NotificationRoutes) /\ Fine(CommunicationRoutes) /\ Fine(MaintenanceRoutes)
      /\ Fine(CaseRoutes) /\ Fine(DirectoryRoutes) /\ Fine(HandoverRoutes) /\ Fine(InferenceRoutes)
      /\ Fine(RegistryRoutes) /\ Fine(FeatureRoutes) /\ Fine(ReportRoutes) /\ Fine(MemberRoutes)
  BY <1>4, <1>5, <1>6 DEF NotificationRoutes, CommunicationRoutes, MaintenanceRoutes, CaseRoutes,
     DirectoryRoutes, HandoverRoutes, InferenceRoutes, RegistryRoutes, FeatureRoutes, ReportRoutes,
     MemberRoutes
<1>10. Fine(RoutesOnFile)
  BY <1>7, <1>8, <1>9 DEF Fine, RoutesOnFile
<1> QED
  BY <1>10 DEF Fine, Kinds

LEMMA BaselineIsOnFile == BaselinePermissions \subseteq Permissions
<1>1. \A p, hs : hs # {} => \A h \in hs : [handler |-> h, permission |-> p, effect |-> "reads"] \in Gets(p, hs)
  BY DEF Gets
<1>2. \A p, hs : hs # {} => \A h \in hs : [handler |-> h, permission |-> p, effect |-> "writes"] \in Posts(p, hs)
  BY DEF Posts
<1>3. \A r \in RoutesOnFile : r.permission \in Permissions
  BY DEF Permissions
<1>4. "property:read" \in Permissions /\ "property:write" \in Permissions
  <2>1. /\ [handler |-> "listProperties", permission |-> "property:read", effect |-> "reads"] \in PropertyRoutes
        /\ [handler |-> "createProperty", permission |-> "property:write", effect |-> "writes"] \in PropertyRoutes
    BY DEF PropertyRoutes, Gets, Posts
  <2>2. PropertyRoutes \subseteq RoutesOnFile
    BY Zenon DEF RoutesOnFile
  <2> QED
    BY <2>1, <2>2, <1>3
<1>5. "contract:read" \in Permissions /\ "contract:write" \in Permissions
  <2>1. /\ [handler |-> "list", permission |-> "contract:read", effect |-> "reads"] \in HandoverRoutes
        /\ [handler |-> "record", permission |-> "contract:write", effect |-> "writes"] \in HandoverRoutes
    BY DEF HandoverRoutes, Gets, Posts
  <2>2. HandoverRoutes \subseteq RoutesOnFile
    BY Zenon DEF RoutesOnFile
  <2> QED
    BY <2>1, <2>2, <1>3
<1>6. "payment:read" \in Permissions /\ "payment:write" \in Permissions
  <2>1. /\ [handler |-> "getReceipt", permission |-> "payment:read", effect |-> "reads"] \in PaymentRoutes
        /\ [handler |-> "recordPayment", permission |-> "payment:write", effect |-> "writes"] \in PaymentRoutes
    BY DEF PaymentRoutes, Gets, Posts
  <2>2. PaymentRoutes \subseteq RoutesOnFile
    BY Zenon DEF RoutesOnFile
  <2> QED
    BY <2>1, <2>2, <1>3
<1>7. "settlement:read" \in Permissions /\ "settlement:write" \in Permissions
  <2>1. /\ [handler |-> "getSettlement", permission |-> "settlement:read", effect |-> "reads"] \in SettlementRoutes
        /\ [handler |-> "recordPayout", permission |-> "settlement:write", effect |-> "writes"] \in SettlementRoutes
    BY DEF SettlementRoutes, Gets, Posts
  <2>2. SettlementRoutes \subseteq RoutesOnFile
    BY Zenon DEF RoutesOnFile
  <2> QED
    BY <2>1, <2>2, <1>3
<1>8. "finance:read" \in Permissions /\ "finance:write" \in Permissions
  <2>1. /\ [handler |-> "listBankTransactions", permission |-> "finance:read", effect |-> "reads"] \in BankRoutes
        /\ [handler |-> "importBank", permission |-> "finance:write", effect |-> "writes"] \in BankRoutes
    BY DEF BankRoutes, Gets, Posts
  <2>2. BankRoutes \subseteq RoutesOnFile
    BY Zenon DEF RoutesOnFile
  <2> QED
    BY <2>1, <2>2, <1>3
<1> QED
  BY <1>4, <1>5, <1>6, <1>7, <1>8, Zenon DEF BaselinePermissions

LEMMA AccInitInv == ASSUME AccessAssumption, AccInit PROVE AccInv
<1>1. Idle \in Job
  BY DEF Idle, Job, Plain, Roles, Statuses
<1>2. grants \in [Orgs -> [Roles -> SUBSET Permissions]]
  BY DEF AccInit, AccessAssumption
<1>3. members \in [Orgs -> [Users -> [role : Roles, status : Statuses] \cup {NoMember}]]
  BY DEF AccInit, AccessAssumption, Roles, Statuses
<1>13. sessions \in Seq([user : Users, created : 0..MaxTime, open : BOOLEAN]) /\ Len(sessions) = 0
  BY DEF AccInit
<1>14. stage \in [Slots -> Stages] /\ job \in [Slots -> Job]
  BY <1>1 DEF AccInit, Stages
<1>15. now \in 0..MaxTime /\ requests \in 0..MaxRequests /\ Len(sessions) <= MaxSessions
  BY <1>13 DEF AccInit, AccessAssumption
<1>16. orgs \subseteq Orgs /\ permitted \in [Slots -> BOOLEAN] /\ overlapped \in BOOLEAN /\ cut \subseteq Orgs
  BY DEF AccInit, AccessAssumption
<1>4. AccTypeOK
  BY <1>2, <1>3, <1>13, <1>14, <1>15, <1>16, Zenon DEF AccTypeOK, Stages
<1>5. Judged
  BY DEF AccInit, Judged
<1>6. Changing
  BY DEF AccInit, Changing
<1>7. NewOrgs
  BY DEF AccInit, NewOrgs, Making
<1>8. OtherOrgs
  BY DEF AccInit, OtherOrgs, Making, AccessAssumption
<1>9. \A s \in Slots : job[s].kind # UpdatesMember
  BY DEF AccInit, Idle, UpdatesMember, Plain
<1>10. \E u \in Users : Administers(u)
  <2>1. PICK u \in Users : Staff[u] = "admin"
    BY DEF AccessAssumption
  <2>2. members[Seeded][u] = [role |-> "admin", status |-> "ACTIVE"] /\ grants[Seeded]["admin"] = Permissions
    BY <2>1 DEF AccInit, AccessAssumption, Roles
  <2> QED
    BY <2>2 DEF Administers, Permissions
<1>11. OneChanges
  BY <1>9, <1>10 DEF OneChanges
<1>12. WritesArePermitted
  BY DEF AccInit, WritesArePermitted
<1> QED
  BY <1>4, <1>5, <1>6, <1>7, <1>8, <1>11, <1>12 DEF AccInv

\* Who changes what: every action of AccNext leaves the rest alone.
LEMMA AccFrame ==
    ASSUME AccNext
    PROVE  /\ UNCHANGED now \/ Tick
           /\ UNCHANGED requests \/ (requests < MaxRequests /\ requests' = requests + 1)
           /\ UNCHANGED sessions \/ (\E u \in Users : Login(u)) \/ (\E s \in Slots : Logout(s))
           /\ UNCHANGED orgs \/ \E s \in Slots : CreateOrg(s)
           /\ UNCHANGED cut \/ \E s \in Slots : Abort(s)
           /\ UNCHANGED grants \/ \E s \in Slots : EnsureAdminRole(s)
           /\ UNCHANGED members \/ \E s \in Slots : UpdateMembership(s) \/ CreateMembership(s)
           /\ UNCHANGED stage \/ \E s \in Slots, step \in Stages : Go(s, step)
           /\ UNCHANGED overlapped \/ \E b : overlapped' = (overlapped \/ b)
           /\ UNCHANGED written \/ \E s \in Slots : Handle(s) \/ UpdateMembership(s)
           /\ Watch
<1> DEFINE Frame ==
           /\ UNCHANGED now \/ Tick
           /\ UNCHANGED requests \/ (requests < MaxRequests /\ requests' = requests + 1)
           /\ UNCHANGED sessions \/ (\E u \in Users : Login(u)) \/ (\E s \in Slots : Logout(s))
           /\ UNCHANGED orgs \/ \E s \in Slots : CreateOrg(s)
           /\ UNCHANGED cut \/ \E s \in Slots : Abort(s)
           /\ UNCHANGED grants \/ \E s \in Slots : EnsureAdminRole(s)
           /\ UNCHANGED members \/ \E s \in Slots : UpdateMembership(s) \/ CreateMembership(s)
           /\ UNCHANGED stage \/ \E s \in Slots, step \in Stages : Go(s, step)
           /\ UNCHANGED overlapped \/ \E b : overlapped' = (overlapped \/ b)
           /\ UNCHANGED written \/ \E s \in Slots : Handle(s) \/ UpdateMembership(s)
<1>1. ASSUME Tick PROVE Frame
  BY <1>1, Zenon DEF Tick, tables, Done, Stages
<1>2. ASSUME NEW u \in Users, Login(u) PROVE Frame
  BY <1>2, Zenon DEF Login, tables, Done, Stages
<1>3. ASSUME NEW s \in Slots, NEW i \in DOMAIN sessions, NEW org \in orgs \cup {Seeded}, NEW kind, FindSession(s, i, org, kind) PROVE Frame
  BY <1>3, Zenon DEF FindSession, tables, Done, Stages
<1>4. ASSUME NEW s \in Slots, ListMemberships(s) PROVE Frame
  BY <1>4, Zenon DEF ListMemberships, tables, Done, Stages
<1>5. ASSUME NEW s \in Slots, Handle(s) PROVE Frame
  BY <1>5, Zenon DEF Handle, tables, Done, Stages
<1>6. ASSUME NEW s \in Slots, Logout(s) PROVE Frame
  BY <1>6, Zenon DEF Logout, tables, Done, Stages
<1>7. ASSUME NEW s \in Slots, NEW u \in Users, NEW r, NEW st, FindMembership(s, u, r, st) PROVE Frame
  BY <1>7, Zenon DEF FindMembership, tables, Done, Stages
<1>8. ASSUME NEW s \in Slots, UpdateMembership(s) PROVE Frame
  BY <1>8, Zenon DEF UpdateMembership, tables, Done, Stages
<1>9. ASSUME NEW s \in Slots, NEW o \in Orgs, FindOrgBySlug(s, o) PROVE Frame
  BY <1>9, Zenon DEF FindOrgBySlug, tables, Done, Stages
<1>10. ASSUME NEW s \in Slots, CreateOrg(s) PROVE Frame
  BY <1>10, Zenon DEF CreateOrg, tables, Done, Stages
<1>11. ASSUME NEW s \in Slots, EnsureAdminRole(s) PROVE Frame
  BY <1>11, Zenon DEF EnsureAdminRole, tables, Done, Stages
<1>12. ASSUME NEW s \in Slots, CreateMembership(s) PROVE Frame
  BY <1>12, Zenon DEF CreateMembership, tables, Done, Stages
<1>13. ASSUME NEW s \in Slots, Abort(s) PROVE Frame
  BY <1>13, Zenon DEF Abort, tables, Done, Stages
<1> HIDE DEF Frame
<1>20. Frame
  BY <1>1, <1>2, <1>3, <1>4, <1>5, <1>6, <1>7, <1>8, <1>9, <1>10, <1>11, <1>12, <1>13 DEF AccNext
<1> QED
  BY <1>20, Zenon DEF Frame, AccNext

\* An entry of a sequence is one of its elements.
LEMMA Entry == ASSUME NEW S, NEW q \in Seq(S), NEW i \in DOMAIN q PROVE q[i] \in S /\ i \in Nat
OBVIOUS

\* A table by two keys keeps its type when an entry is replaced.
LEMMA Replaced ==
    ASSUME NEW A, NEW B, NEW C, NEW f \in [A -> [B -> C]], NEW a \in A, NEW b \in B, NEW c \in C
    PROVE  [f EXCEPT ![a][b] = c] \in [A -> [B -> C]]
<1>1. [f[a] EXCEPT ![b] = c] \in [B -> C]
  OBVIOUS
<1> QED
  BY <1>1

\* What the guards and the handlers store has its type.
LEMMA AccTypeStep == ASSUME AccessAssumption, AccInv, AccNext PROVE AccTypeOK'
<1> USE DEF AccInv
<1> SUFFICES /\ now' \in 0..MaxTime /\ requests' \in 0..MaxRequests
             /\ sessions' \in Seq([user : Users, created : 0..MaxTime, open : BOOLEAN])
             /\ Len(sessions') <= MaxSessions
             /\ orgs' \subseteq Orgs /\ cut' \subseteq Orgs
             /\ grants' \in [Orgs -> [Roles -> SUBSET Permissions]]
             /\ members' \in [Orgs -> [Users -> [role : Roles, status : Statuses] \cup {NoMember}]]
             /\ stage' \in [Slots -> Stages] /\ job' \in [Slots -> Job]
             /\ permitted' \in [Slots -> BOOLEAN] /\ overlapped' \in BOOLEAN
  BY Zenon DEF AccTypeOK, Stages
<1> DEFINE Session == [user : Users, created : 0..MaxTime, open : BOOLEAN]
<1>0. /\ now \in 0..MaxTime /\ requests \in 0..MaxRequests /\ sessions \in Seq(Session)
      /\ Len(sessions) <= MaxSessions /\ orgs \subseteq Orgs /\ cut \subseteq Orgs
      /\ grants \in [Orgs -> [Roles -> SUBSET Permissions]]
      /\ members \in [Orgs -> [Users -> [role : Roles, status : Statuses] \cup {NoMember}]]
      /\ stage \in [Slots -> Stages] /\ job \in [Slots -> Job] /\ overlapped \in BOOLEAN
  BY DEF AccTypeOK, Stages
<1>1. permitted' \in [Slots -> BOOLEAN]
  BY DEF AccNext, Watch
<1>2. Idle \in Job
  BY DEF Idle, Job, Plain, Roles, Statuses
<1>3. now' \in 0..MaxTime
  BY <1>0, AccFrame DEF AccessAssumption, Tick
<1>4. requests' \in 0..MaxRequests
  <2>1. UNCHANGED requests \/ (requests < MaxRequests /\ requests' = requests + 1)
    BY AccFrame
  <2> QED
    BY <1>0, <2>1 DEF AccessAssumption
<1>5. overlapped' \in BOOLEAN
  <2>1. UNCHANGED overlapped \/ \E b : overlapped' = (overlapped \/ b)
    BY AccFrame
  <2> QED
    BY <1>0, <2>1
<1>6. sessions' \in Seq(Session) /\ Len(sessions') <= MaxSessions
  <2>1. UNCHANGED sessions \/ (\E u \in Users : Login(u)) \/ \E s \in Slots : Logout(s)
    BY AccFrame
  <2>2. ASSUME NEW u \in Users, Login(u)
        PROVE  sessions' \in Seq(Session) /\ Len(sessions') <= MaxSessions
    <3>1. [user |-> u, created |-> now, open |-> TRUE] \in Session
      BY <1>0
    <3> HIDE DEF Session
    <3> QED
      BY <1>0, <2>2, <3>1 DEF Login, AccessAssumption
  <2>3. ASSUME NEW s \in Slots, Logout(s)
        PROVE  sessions' \in Seq(Session) /\ Len(sessions') <= MaxSessions
    <3>1. job[s].session \in DOMAIN sessions
      BY <2>3 DEF Judged, Logout
    <3>2. sessions' = [sessions EXCEPT ![job[s].session] = [sessions[job[s].session] EXCEPT !.open = FALSE]]
      BY <2>3 DEF Logout
    <3>4. sessions[job[s].session] \in Session
      <4> HIDE DEF Session
      <4> QED
        BY <1>0, <3>1, Entry
    <3>3. [sessions[job[s].session] EXCEPT !.open = FALSE] \in Session
      BY <3>4
    <3> HIDE DEF Session
    <3> QED
      BY <1>0, <3>1, <3>2, <3>3
  <2> QED
    BY <1>0, <2>1, <2>2, <2>3
<1>7. orgs' \subseteq Orgs
  <2>1. UNCHANGED orgs \/ \E s \in Slots : CreateOrg(s)
    BY AccFrame
  <2>2. ASSUME NEW s \in Slots, CreateOrg(s) PROVE job[s].org \in Orgs
    BY <2>2 DEF CreateOrg, Judged
  <2> QED
    BY <1>0, <2>1, <2>2 DEF CreateOrg
<1>8. cut' \subseteq Orgs
  <2>1. UNCHANGED cut \/ \E s \in Slots : Abort(s)
    BY AccFrame
  <2>2. ASSUME NEW s \in Slots, Abort(s) PROVE job[s].org \in Orgs
    BY <2>2 DEF Abort, Judged
  <2> QED
    BY <1>0, <2>1, <2>2 DEF Abort
<1>9. grants' \in [Orgs -> [Roles -> SUBSET Permissions]]
  <2>1. UNCHANGED grants \/ \E s \in Slots : EnsureAdminRole(s)
    BY AccFrame
  <2>2. ASSUME NEW s \in Slots, EnsureAdminRole(s) PROVE grants' \in [Orgs -> [Roles -> SUBSET Permissions]]
    <3>1. job[s].org \in Orgs /\ "admin" \in Roles /\ BaselinePermissions \in SUBSET Permissions
      BY <2>2, BaselineIsOnFile DEF EnsureAdminRole, Judged, Roles
    <3> HIDE DEF AccInv
    <3> QED
      BY <1>0, <2>2, <3>1, Replaced DEF EnsureAdminRole
  <2> QED
    BY <1>0, <2>1, <2>2
<1>10. members' \in [Orgs -> [Users -> [role : Roles, status : Statuses] \cup {NoMember}]]
  <2>1. UNCHANGED members \/ \E s \in Slots : UpdateMembership(s) \/ CreateMembership(s)
    BY AccFrame
  <2> DEFINE Member == [role : Roles, status : Statuses]
  <2>2. ASSUME NEW s \in Slots, UpdateMembership(s)
        PROVE  \E o \in Orgs, u \in Users, m \in Member : members' = [members EXCEPT ![o][u] = m]
    <3> DEFINE j == job[s]
               old == members[j.org][j.target]
               m == [role |-> IF j.role = "same" THEN old.role ELSE j.role,
                     status |-> IF j.status = "same" THEN old.status ELSE j.status]
    <3>1. j.org \in Orgs /\ j.target \in Users /\ j.org = Seeded /\ members[Seeded][j.target] # NoMember
      BY <2>2 DEF UpdateMembership, Judged, Changing
    <3>2. old \in Member
      BY <1>0, <3>1
    <3>3. j.role \in Roles \cup {"same"} /\ j.status \in Statuses \cup {"same"}
      BY <1>0 DEF Job
    <3>4. m \in Member
      BY <3>2, <3>3
    <3>5. members' = [members EXCEPT ![j.org][j.target] = m]
      BY <2>2 DEF UpdateMembership
    <3> QED
      BY <3>1, <3>4, <3>5
  <2>3. ASSUME NEW s \in Slots, CreateMembership(s)
        PROVE  \E o \in Orgs, u \in Users, m \in Member : members' = [members EXCEPT ![o][u] = m]
    <3>1. job[s].org \in Orgs /\ job[s].user \in Users
      BY <2>3 DEF CreateMembership, Judged
    <3>2. [role |-> "admin", status |-> "ACTIVE"] \in Member
      BY DEF Roles, Statuses
    <3> QED
      BY <2>3, <3>1, <3>2 DEF CreateMembership
  <2>4. \A o \in Orgs, u \in Users, m \in Member :
           [members EXCEPT ![o][u] = m] \in [Orgs -> [Users -> Member \cup {NoMember}]]
    <3> HIDE DEF Member
    <3> QED
      BY <1>0, Replaced DEF Member
  <2> HIDE DEF Member
  <2>5. members' \in [Orgs -> [Users -> Member \cup {NoMember}]]
    <3>1. members \in [Orgs -> [Users -> Member \cup {NoMember}]]
      BY <1>0 DEF Member
    <3> QED
      BY <2>1, <2>2, <2>3, <2>4, <3>1
  <2> QED
    BY <2>5 DEF Member
<1>11. stage' \in [Slots -> Stages]
  <2>1. stage' = stage \/ \E s \in Slots, step \in Stages : Go(s, step)
    BY AccFrame
  <2> QED
    BY <1>0, <2>1 DEF Go
<1>12. job' \in [Slots -> Job]
  <2>1. ASSUME NEW s \in Slots, NEW i \in DOMAIN sessions, NEW org \in Orgs,
               NEW kind \in Kinds \cup {UpdatesMember} \cup {Plain(k) : k \in {"none", "logout", "createOrganization"}},
               FindSession(s, i, org, kind)
        PROVE  job' \in [Slots -> Job]
    <3>1. i \in Nat /\ sessions[i].user \in Users /\ sessions[i].open \in BOOLEAN
      <4>1. sessions[i] \in Session /\ i \in Nat
        <5> HIDE DEF Session
        <5> QED
          BY <1>0, Entry
      <4> QED
        BY <4>1
    <3>2. [Idle EXCEPT !.user = sessions[i].user, !.session = i, !.org = org, !.kind = kind, !.live = sessions[i].open]
             \in Job
      BY <3>1, <1>2 DEF Idle, Job
    <3> QED
      BY <1>0, <2>1, <3>2 DEF FindSession
  <2>2. ASSUME NEW s \in Slots, NEW target \in Users, NEW role \in Roles \cup {"same"},
               NEW status \in Statuses \cup {"same"}, FindMembership(s, target, role, status)
        PROVE  job' \in [Slots -> Job]
    <3>1. [job[s] EXCEPT !.target = target, !.role = role, !.status = status] \in Job
      BY <1>0 DEF Job
    <3>2. job' = [job EXCEPT ![s] = [job[s] EXCEPT !.target = target, !.role = role, !.status = status]]
      BY <1>0, <2>2 DEF FindMembership
    <3> QED
      BY <1>0, <3>1, <3>2
  <2>3. ASSUME NEW s \in Slots, NEW org \in Orgs, FindOrgBySlug(s, org)
        PROVE  job' \in [Slots -> Job]
    <3>1. [job[s] EXCEPT !.org = org] \in Job
      BY <1>0 DEF Job
    <3> QED
      BY <1>0, <2>3, <3>1 DEF FindOrgBySlug
  <2>4. ASSUME NEW s \in Slots, UNCHANGED job \/ Done(s) PROVE job' \in [Slots -> Job]
    BY <1>0, <1>2, <2>4 DEF Done
  <2>5. ASSUME NEW s \in Slots, ListMemberships(s) \/ Handle(s) \/ Logout(s) \/ UpdateMembership(s)
                 \/ CreateOrg(s) \/ EnsureAdminRole(s) \/ CreateMembership(s) \/ Abort(s)
        PROVE  job' \in [Slots -> Job]
    BY <2>4, <2>5 DEF ListMemberships, Handle, Logout, UpdateMembership, CreateOrg, EnsureAdminRole,
       CreateMembership, Abort
  <2>6. CASE Tick \/ \E u \in Users : Login(u)
    BY <1>0, <2>6 DEF Tick, Login
  <2> QED
    BY <1>0, <2>1, <2>2, <2>3, <2>5, <2>6 DEF AccNext, AccessAssumption
<1> QED
  BY <1>1, <1>3, <1>4, <1>5, <1>6, <1>7, <1>8, <1>9, <1>10, <1>11, <1>12

\* A session on file is of a user, and open or not.
LEMMA SessionFits ==
    ASSUME AccTypeOK, NEW i \in DOMAIN sessions
    PROVE  sessions[i].user \in Users /\ sessions[i].open \in BOOLEAN
<1> DEFINE Session == [user : Users, created : 0..MaxTime, open : BOOLEAN]
<1>1. sessions \in Seq(Session)
  BY DEF AccTypeOK
<1>2. sessions[i] \in Session
  <2> HIDE DEF Session
  <2> QED
    BY <1>1, Entry
<1> QED
  BY <1>2

\* No session is ever taken off the file.
LEMMA SessionsStay == ASSUME AccTypeOK, AccNext PROVE DOMAIN sessions \subseteq DOMAIN sessions'
<1>1. ASSUME NEW u \in Users, Login(u) PROVE DOMAIN sessions \subseteq DOMAIN sessions'
  <2> DEFINE e == [user |-> u, created |-> now, open |-> TRUE]
  <2>1. sessions \in Seq([user : Users, created : 0..MaxTime, open : BOOLEAN]) /\ sessions' = Append(sessions, e)
    BY <1>1 DEF Login, AccTypeOK
  <2> HIDE DEF e
  <2>2. Len(sessions) \in Nat /\ DOMAIN sessions = 1..Len(sessions)
        /\ DOMAIN sessions' = 1..(Len(sessions) + 1)
    BY <2>1
  <2> QED
    BY <2>2
<1>2. ASSUME NEW s \in Slots, Logout(s) PROVE DOMAIN sessions \subseteq DOMAIN sessions'
  BY <1>2 DEF Logout
<1> QED
  BY <1>1, <1>2, AccFrame

-----------------------------------------------------------------------------
\* What is known of the requests under way, step by step.
LEMMA JudgedStep == ASSUME AccessAssumption, AccInv, AccNext PROVE Judged'
<1> USE DEF AccInv
<1> DEFINE Known(s) ==
        /\ stage[s] = "idle" => job[s] = Idle
        /\ stage[s] # "idle" => job[s].user \in Users /\ job[s].org \in Orgs /\ job[s].live
                                 /\ job[s].session \in DOMAIN sessions
        /\ stage[s] = "update" => job[s].kind = UpdatesMember /\ job[s].target \in Users
<1>1. stage \in [Slots -> Stages] /\ job \in [Slots -> Job]
  BY DEF AccTypeOK, Stages
<1>2. \A s \in Slots : Known(s)
  BY DEF Judged
<1>3. \A s \in Slots : Known(s)'
  <2>0. DOMAIN sessions \subseteq DOMAIN sessions'
    BY SessionsStay
  <2>1. ASSUME NEW s \in Slots, Done(s) PROVE \A q \in Slots : Known(q)'
    BY <2>0, <1>1, <1>2, <2>1 DEF Done, Go
  <2>2. ASSUME NEW s \in Slots, NEW step \in Stages \ {"idle", "update"}, stage[s] # "idle",
               Go(s, step), UNCHANGED job
        PROVE  \A q \in Slots : Known(q)'
    BY <2>0, <1>1, <1>2, <2>2 DEF Go
  <2>3. ASSUME NEW s \in Slots, NEW i \in DOMAIN sessions, NEW org \in Orgs, NEW kind,
               FindSession(s, i, org, kind)
        PROVE  \A q \in Slots : Known(q)'
    <3>1. sessions[i].user \in Users
      BY SessionFits
    <3>2. /\ job'[s].user = sessions[i].user /\ job'[s].org = org /\ job'[s].live = sessions[i].open
          /\ job'[s].session = i
          /\ sessions[i].open /\ stage'[s] = "members"
      BY <1>1, <2>3 DEF FindSession, Go, Idle
    <3>3. \A q \in Slots \ {s} : job'[q] = job[q] /\ stage'[q] = stage[q]
      BY <1>1, <2>3 DEF FindSession, Go
    <3> QED
      BY <2>0, <1>2, <3>1, <3>2, <3>3
  <2>4. ASSUME NEW s \in Slots, NEW u \in Users, NEW r, NEW st, FindMembership(s, u, r, st)
        PROVE  \A q \in Slots : Known(q)'
    <3>1. /\ job'[s].user = job[s].user /\ job'[s].session = job[s].session /\ job'[s].org = job[s].org /\ job'[s].live = job[s].live
          /\ job'[s].kind = job[s].kind /\ job'[s].target = u
          /\ stage[s] = "handle" /\ stage'[s] = "update" /\ job[s].kind = UpdatesMember
      BY <1>1, <2>4 DEF FindMembership, Go, Job
    <3>2. \A q \in Slots \ {s} : job'[q] = job[q] /\ stage'[q] = stage[q]
      BY <1>1, <2>4 DEF FindMembership, Go
    <3> QED
      BY <2>0, <1>2, <3>1, <3>2
  <2>5. ASSUME NEW s \in Slots, NEW o \in Orgs, FindOrgBySlug(s, o)
        PROVE  \A q \in Slots : Known(q)'
    <3>1. /\ job'[s].user = job[s].user /\ job'[s].session = job[s].session /\ job'[s].org = o /\ job'[s].live = job[s].live
          /\ stage[s] = "handle" /\ stage'[s] = "create"
      BY <1>1, <2>5 DEF FindOrgBySlug, Go, Job
    <3>2. \A q \in Slots \ {s} : job'[q] = job[q] /\ stage'[q] = stage[q]
      BY <1>1, <2>5 DEF FindOrgBySlug, Go
    <3> QED
      BY <2>0, <1>2, <3>1, <3>2
  <2>6. ASSUME NEW s \in Slots, ListMemberships(s) \/ Handle(s) \/ Logout(s) \/ UpdateMembership(s)
                 \/ CreateOrg(s) \/ EnsureAdminRole(s) \/ CreateMembership(s) \/ Abort(s)
        PROVE  \/ Done(s)
               \/ \E step \in Stages \ {"idle", "update"} : stage[s] # "idle" /\ Go(s, step) /\ UNCHANGED job
    <3> HIDE DEF AccInv
    <3> QED
      BY <2>6 DEF ListMemberships, Handle, Logout, UpdateMembership, CreateOrg, EnsureAdminRole,
         CreateMembership, Abort, Stages
  <2>7. ASSUME Tick \/ \E u \in Users : Login(u) PROVE \A q \in Slots : Known(q)'
    <3>1. UNCHANGED <<stage, job>>
      BY <2>7 DEF Tick, Login
    <3> QED
      BY <2>0, <1>2, <3>1
  <2>8. orgs \subseteq Orgs /\ Seeded \in Orgs
    BY DEF AccTypeOK, AccessAssumption
  <2> HIDE DEF Known, AccInv
  <2> QED
    BY <2>1, <2>2, <2>3, <2>4, <2>5, <2>6, <2>7, <2>8 DEF AccNext
<1>4. ASSUME NEW s \in Slots, stage'[s] \notin {"idle", "members"} PROVE permitted'[s]
  <2>1. permitted'[s] = (stage'[s] # "idle" /\ (permitted[s] \/ May(s)'))
    BY DEF AccNext, Watch
  <2>2. stage[s] \notin {"idle", "members"} => permitted[s]
    BY DEF Judged
  <2>3. ASSUME stage[s] \in {"idle", "members"} PROVE May(s)'
    <3>1. ASSUME NEW q \in Slots, NEW step, q # s \/ step \in {"idle", "members"}, Go(q, step)
          PROVE  FALSE
      BY <1>1, <1>4, <2>3, <3>1 DEF Go
    <3>2. ~UNCHANGED stage
      BY <1>4, <2>3
    <3>3. ASSUME NEW q \in Slots, \/ Handle(q) \/ Logout(q) \/ UpdateMembership(q) \/ CreateMembership(q) \/ Abort(q)
          PROVE  FALSE
      BY <3>1, <3>3, Zenon DEF Handle, Logout, UpdateMembership, CreateMembership, Abort, Done
    <3>4. ASSUME NEW q \in Slots, \/ CreateOrg(q) \/ EnsureAdminRole(q)
          PROVE  FALSE
      BY <2>3, <3>1, <3>4 DEF CreateOrg, EnsureAdminRole
    <3>5. ASSUME NEW q \in Slots, NEW i, NEW o, NEW kind, FindSession(q, i, o, kind) \/ FindOrgBySlug(q, o)
          PROVE  FALSE
      BY <2>3, <3>1, <3>5 DEF FindSession, FindOrgBySlug
    <3>6. ASSUME NEW q \in Slots, NEW u, NEW r, NEW st, FindMembership(q, u, r, st)
          PROVE  FALSE
      BY <2>3, <3>1, <3>6 DEF FindMembership
    <3>8. ~ \/ Tick \/ \E u \in Users : Login(u)
      BY <3>2 DEF Tick, Login
    <3>9. \E q \in Slots : ListMemberships(q)
      <4> HIDE DEF AccInv
      <4> QED
        BY <3>3, <3>4, <3>5, <3>6, <3>8, Zenon DEF AccNext
    <3>10. ListMemberships(s) /\ Go(s, "handle")
      BY <3>1, <3>9 DEF ListMemberships, Done
    <3>11. UNCHANGED <<job, members, grants>> /\ stage[s] = "members"
           /\ ~Done(s)
      BY <3>1, <3>10 DEF ListMemberships, tables, Done
    <3> QED
      BY <3>10, <3>11 DEF ListMemberships, May, Authorize
  <2> QED
    BY <1>4, <2>1, <2>2, <2>3
<1> QED
  BY <1>3, <1>4 DEF Judged

-----------------------------------------------------------------------------
(***************************************************************************)
(* What a step does to one slot and to the tables of memberships.          *)
(***************************************************************************)
LEMMA SlotStep ==
    ASSUME AccTypeOK, AccessAssumption, AccNext, NEW s \in Slots
    PROVE  \/ stage'[s] = stage[s] /\ job'[s] = job[s]
           \/ Done(s) /\ (stage[s] \in Making => CreateMembership(s) \/ Abort(s))
           \/ \E i \in DOMAIN sessions, o \in Orgs : \E kind : FindSession(s, i, o, kind)
           \/ ListMemberships(s) /\ Go(s, "handle") /\ UNCHANGED job
           \/ \E u \in Users : \E r, st : FindMembership(s, u, r, st)
           \/ \E o \in Orgs : FindOrgBySlug(s, o)
           \/ CreateOrg(s) \/ EnsureAdminRole(s)
<1> DEFINE Goal ==
           \/ stage'[s] = stage[s] /\ job'[s] = job[s]
           \/ Done(s) /\ (stage[s] \in Making => CreateMembership(s) \/ Abort(s))
           \/ \E i \in DOMAIN sessions, o \in Orgs : \E kind : FindSession(s, i, o, kind)
           \/ ListMemberships(s) /\ Go(s, "handle") /\ UNCHANGED job
           \/ \E u \in Users : \E r, st : FindMembership(s, u, r, st)
           \/ \E o \in Orgs : FindOrgBySlug(s, o)
           \/ CreateOrg(s) \/ EnsureAdminRole(s)
<1>0. orgs \subseteq Orgs /\ Seeded \in Orgs /\ stage \in [Slots -> Stages] /\ job \in [Slots -> Job]
  BY DEF AccTypeOK, AccessAssumption, Stages
<1> DEFINE Same == stage'[s] = stage[s] /\ job'[s] = job[s]
<1>1. Same => Goal
  BY Zenon
<1>2. ASSUME NEW q \in Slots, q # s, NEW step, Go(q, step), NEW j, UNCHANGED job \/ job' = [job EXCEPT ![q] = j]
      PROVE  Same
  BY <1>0, <1>2 DEF Go
<1>3. ASSUME NEW q \in Slots, q # s, Done(q) PROVE Same
  BY <1>2, <1>3 DEF Done
<1>4. ASSUME NEW q \in Slots, \/ ListMemberships(q) \/ CreateOrg(q) \/ EnsureAdminRole(q)
      PROVE  Goal
  <2>1. CASE q = s
    <3>1. CASE CreateOrg(s) \/ EnsureAdminRole(s)
      BY <3>1, Zenon
    <3>2. CASE ListMemberships(s)
      <4>1. \/ Go(s, "handle") /\ UNCHANGED job
            \/ Done(s)
        BY <3>2 DEF ListMemberships
      <4>2. stage[s] \notin Making
        BY <3>2 DEF ListMemberships, Making
      <4> QED
        BY <3>2, <4>1, <4>2, Zenon
    <3> QED
      BY <1>4, <2>1, <3>1, <3>2
  <2>2. CASE q # s
    <3>1. Same
      <4> HIDE DEF Same
      <4> QED
        BY <1>2, <1>3, <1>4, <2>2 DEF ListMemberships, CreateOrg, EnsureAdminRole
    <3> QED
      BY <1>1, <3>1
  <2> QED
    BY <2>1, <2>2
<1>5. ASSUME NEW q \in Slots, \/ Handle(q) \/ Logout(q) \/ UpdateMembership(q) \/ CreateMembership(q) \/ Abort(q)
      PROVE  Goal
  <2>1. CASE q = s
    <3>1. Done(s) /\ (stage[s] \in Making => CreateMembership(s) \/ Abort(s))
      BY <1>5, <2>1 DEF Handle, Logout, UpdateMembership, CreateMembership, Abort, Making
    <3> QED
      BY <3>1, Zenon
  <2>2. CASE q # s
    <3>1. Same
      <4> HIDE DEF Same
      <4> QED
        BY <1>3, <1>5, <2>2 DEF Handle, Logout, UpdateMembership, CreateMembership, Abort
    <3> QED
      BY <1>1, <3>1
  <2> QED
    BY <2>1, <2>2
<1>6. ASSUME NEW q \in Slots, NEW i \in DOMAIN sessions, NEW o \in Orgs, NEW kind, FindSession(q, i, o, kind)
      PROVE  Goal
  <2>1. CASE q = s
    BY <1>6, <2>1, Zenon
  <2>2. CASE q # s
    <3>1. Same
      BY <1>0, <1>6, <2>2 DEF FindSession, Go
    <3> QED
      BY <1>1, <3>1
  <2> QED
    BY <2>1, <2>2
<1>7. ASSUME NEW q \in Slots, NEW u \in Users, NEW r, NEW st, FindMembership(q, u, r, st)
      PROVE  Goal
  <2>1. CASE q = s
    BY <1>7, <2>1, Zenon
  <2>2. CASE q # s
    <3>1. Same
      BY <1>0, <1>7, <2>2 DEF FindMembership, Go
    <3> QED
      BY <1>1, <3>1
  <2> QED
    BY <2>1, <2>2
<1>8. ASSUME NEW q \in Slots, NEW o \in Orgs, FindOrgBySlug(q, o)
      PROVE  Goal
  <2>1. CASE q = s
    BY <1>8, <2>1, Zenon
  <2>2. CASE q # s
    <3>1. Same
      BY <1>0, <1>8, <2>2 DEF FindOrgBySlug, Go
    <3> QED
      BY <1>1, <3>1
  <2> QED
    BY <2>1, <2>2
<1>10. ASSUME Tick \/ \E u \in Users : Login(u) PROVE Goal
  <2>1. Same
    BY <1>10 DEF Tick, Login
  <2> QED
    BY <1>1, <2>1
<1>9. Goal
  <2> HIDE DEF Goal
  <2> QED
    BY <1>0, <1>4, <1>5, <1>6, <1>7, <1>8, <1>10 DEF AccNext
<1> QED
  BY <1>9

\* Where the slot stands after the handler found what it looked for.
LEMMA SlotFound ==
    ASSUME AccTypeOK, NEW s \in Slots
    PROVE  /\ Done(s) => stage'[s] = "idle" /\ job'[s].kind # UpdatesMember
           /\ \A i, o, kind : FindSession(s, i, o, kind) => stage'[s] = "members" /\ job'[s].kind = kind
           /\ \A u, r, st : FindMembership(s, u, r, st) =>
                 stage'[s] = "update" /\ stage[s] = "handle" /\ job[s].kind = UpdatesMember
                   /\ job'[s].kind = job[s].kind /\ job'[s].org = job[s].org
                   /\ job'[s].user = job[s].user /\ job'[s].target = u
           /\ \A o : FindOrgBySlug(s, o) => stage'[s] = "create" /\ job'[s].kind = job[s].kind
           /\ ListMemberships(s) /\ Go(s, "handle") => stage'[s] = "handle" /\ stage[s] = "members"
           /\ CreateOrg(s) => stage'[s] = "role" /\ stage[s] = "create" /\ job'[s] = job[s]
           /\ EnsureAdminRole(s) => stage'[s] = "member" /\ stage[s] = "role" /\ job'[s] = job[s]
<1>0. stage \in [Slots -> Stages] /\ job \in [Slots -> Job]
  BY DEF AccTypeOK, Stages
<1>1. Done(s) => stage'[s] = "idle" /\ job'[s].kind # UpdatesMember
  BY <1>0 DEF Done, Go, Idle, UpdatesMember, Plain
<1>2. \A i, o, kind : FindSession(s, i, o, kind) => stage'[s] = "members" /\ job'[s].kind = kind
  BY <1>0 DEF FindSession, Go, Idle
<1>3. \A u, r, st : FindMembership(s, u, r, st) =>
                 stage'[s] = "update" /\ stage[s] = "handle" /\ job[s].kind = UpdatesMember
                   /\ job'[s].kind = job[s].kind /\ job'[s].org = job[s].org
                   /\ job'[s].user = job[s].user /\ job'[s].target = u
  BY <1>0 DEF FindMembership, Go, Job
<1>4. \A o : FindOrgBySlug(s, o) => stage'[s] = "create" /\ job'[s].kind = job[s].kind
  BY <1>0 DEF FindOrgBySlug, Go, Job
<1>5. /\ ListMemberships(s) /\ Go(s, "handle") => stage'[s] = "handle" /\ stage[s] = "members"
      /\ CreateOrg(s) => stage'[s] = "role" /\ stage[s] = "create" /\ job'[s] = job[s]
      /\ EnsureAdminRole(s) => stage'[s] = "member" /\ stage[s] = "role" /\ job'[s] = job[s]
  BY <1>0 DEF ListMemberships, CreateOrg, EnsureAdminRole, Go
<1> QED
  BY <1>1, <1>2, <1>3, <1>4, <1>5, Zenon

\* The membership a request changes is one of the seeded organization, and stays one.
LEMMA MembersStep ==
    ASSUME AccInv, AccNext
    PROVE  \/ UNCHANGED members
           \/ \E s \in Slots, m \in [role : Roles, status : Statuses] :
                 /\ UpdateMembership(s)
                 /\ members' = [members EXCEPT ![Seeded][job[s].target] = m]
           \/ \E s \in Slots :
                 /\ CreateMembership(s)
                 /\ members' = [members EXCEPT ![job[s].org][job[s].user] =
                                  [role |-> "admin", status |-> "ACTIVE"]]
<1> USE DEF AccInv
<1> DEFINE Member == [role : Roles, status : Statuses]
<1>1. ASSUME NEW s \in Slots, UpdateMembership(s)
      PROVE  \E m \in Member : members' = [members EXCEPT ![Seeded][job[s].target] = m]
  <2> DEFINE j == job[s]
             old == members[j.org][j.target]
             m == [role |-> IF j.role = "same" THEN old.role ELSE j.role,
                   status |-> IF j.status = "same" THEN old.status ELSE j.status]
  <2>1. j.target \in Users /\ j.org = Seeded /\ j.org \in Orgs /\ members[Seeded][j.target] # NoMember
    BY <1>1 DEF UpdateMembership, Judged, Changing
  <2>2. old \in Member
    BY <2>1 DEF AccTypeOK
  <2>3. j.role \in Roles \cup {"same"} /\ j.status \in Statuses \cup {"same"}
    BY DEF Job, AccTypeOK
  <2>4. m \in Member
    BY <2>2, <2>3
  <2>5. members' = [members EXCEPT ![Seeded][j.target] = m]
    BY <1>1, <2>1 DEF UpdateMembership
  <2> QED
    BY <2>4, <2>5
<1>2. UNCHANGED members \/ \E s \in Slots : UpdateMembership(s) \/ CreateMembership(s)
  BY AccFrame
<1>3. \A s \in Slots : CreateMembership(s) =>
         members' = [members EXCEPT ![job[s].org][job[s].user] = [role |-> "admin", status |-> "ACTIVE"]]
  BY DEF CreateMembership
<1> HIDE DEF AccInv
<1> QED
  BY <1>1, <1>2, <1>3

\* A member stays one, whatever the role and status become.
LEMMA MembersStay ==
    ASSUME AccInv, AccNext, NEW o \in Orgs, NEW u \in Users, members[o][u] # NoMember
    PROVE  members'[o][u] # NoMember
<1>1. members \in [Orgs -> [Users -> [role : Roles, status : Statuses] \cup {NoMember}]]
  BY DEF AccInv, AccTypeOK
<1>2. \A m \in [role : Roles, status : Statuses] : m # NoMember
  BY DEF NoMember, Roles
<1>3. [role |-> "admin", status |-> "ACTIVE"] \in [role : Roles, status : Statuses]
  BY DEF Roles, Statuses
<1>4. \A p, v, m : members' = [members EXCEPT ![p][v] = m] /\ m # NoMember => members'[o][u] # NoMember
  BY <1>1
<1> QED
  BY <1>2, <1>3, <1>4, MembersStep

\* Who changes a membership stays a member until it is written.
LEMMA ChangingStep == ASSUME AccessAssumption, AccInv, AccNext, AccTypeOK', Judged' PROVE Changing'
<1>0. AccTypeOK /\ Judged /\ Changing
  BY DEF AccInv
<1>1. ASSUME NEW s \in Slots, stage'[s] = "handle", job'[s].kind = UpdatesMember
      PROVE  members'[job'[s].org][job'[s].user] # NoMember
  <2>1. \/ stage'[s] = stage[s] /\ job'[s] = job[s]
        \/ ListMemberships(s) /\ Go(s, "handle") /\ UNCHANGED job
    BY <1>0, <1>1, SlotStep, SlotFound, Zenon
  <2>2. CASE stage'[s] = stage[s] /\ job'[s] = job[s]
    BY <1>0, <1>1, <2>2, MembersStay DEF Changing, Judged
  <2>3. CASE ListMemberships(s) /\ Go(s, "handle") /\ UNCHANGED job
    <3>1. stage[s] = "members" /\ ~Done(s) /\ UNCHANGED members
      BY <1>0, <1>1, <2>3, SlotFound DEF ListMemberships, tables
    <3> QED
      BY <1>1, <2>3, <3>1 DEF ListMemberships, UpdatesMember
  <2> QED
    BY <2>1, <2>2, <2>3
<1>2. ASSUME NEW s \in Slots, stage'[s] = "update"
      PROVE  job'[s].org = Seeded /\ job'[s].target # job'[s].user /\ members'[Seeded][job'[s].target] # NoMember
  <2>1. \/ stage'[s] = stage[s] /\ job'[s] = job[s]
        \/ \E u \in Users : \E r, st : FindMembership(s, u, r, st)
    BY <1>0, <1>2, SlotStep, SlotFound, Zenon
  <2>2. CASE stage'[s] = stage[s] /\ job'[s] = job[s]
    BY <1>0, <1>2, <2>2, MembersStay DEF Changing, Judged, AccessAssumption
  <2>3. ASSUME NEW u \in Users, NEW r, NEW st, FindMembership(s, u, r, st)
        PROVE  job'[s].org = Seeded /\ job'[s].target # job'[s].user
               /\ members'[Seeded][job'[s].target] # NoMember
    <3>1. /\ stage[s] = "handle" /\ job[s].kind = UpdatesMember /\ job'[s].org = job[s].org
          /\ job'[s].user = job[s].user /\ job'[s].target = u
      BY <1>0, <2>3, SlotFound
    <3>2. members[job[s].org][job[s].user] # NoMember /\ job[s].org \in Orgs /\ job[s].user \in Users
      BY <1>0, <3>1 DEF Changing, Judged
    <3>3. u # job[s].user /\ members[job[s].org][u] # NoMember /\ UNCHANGED members
      BY <2>3 DEF FindMembership, tables
    <3>4. job[s].org = Seeded
      BY <3>2, <3>3 DEF AccInv, OtherOrgs
    <3> QED
      BY <3>1, <3>3, <3>4
  <2> QED
    BY <2>1, <2>2, <2>3
<1> QED
  BY <1>1, <1>2, Zenon DEF Changing

\* The organizations a step leaves alone.
LEMMA OrgsFrame ==
    ASSUME AccInv, AccNext, NEW o \in Orgs
    PROVE  /\ o \in orgs => o \in orgs'
           /\ o \notin orgs /\ o \in orgs' => \E s \in Slots : CreateOrg(s) /\ job[s].org = o
           /\ o # Seeded /\ (\A s \in Slots : stage[s] = "member" => job[s].org # o) => members'[o] = members[o]
           /\ \/ grants'[o] = grants[o]
              \/ \E s \in Slots : EnsureAdminRole(s) /\ job[s].org = o
                                  /\ grants'[o]["admin"] = BaselinePermissions
<1>0. AccTypeOK
  BY DEF AccInv
<1>1. UNCHANGED orgs \/ \E s \in Slots : CreateOrg(s)
  BY AccFrame
<1>2. o \in orgs => o \in orgs'
  BY <1>1 DEF CreateOrg
<1>3. o \notin orgs /\ o \in orgs' => \E s \in Slots : CreateOrg(s) /\ job[s].org = o
  BY <1>1 DEF CreateOrg
<1>4. o # Seeded /\ (\A s \in Slots : stage[s] = "member" => job[s].org # o) => members'[o] = members[o]
  <2>1. \A s \in Slots : CreateMembership(s) => stage[s] = "member"
    BY DEF CreateMembership
  <2> QED
    BY <1>0, <2>1, MembersStep DEF AccTypeOK
<1>5. UNCHANGED grants \/ \E s \in Slots : EnsureAdminRole(s)
  BY AccFrame
<1>6. ASSUME NEW s \in Slots, EnsureAdminRole(s)
      PROVE  IF job[s].org = o THEN grants'[o]["admin"] = BaselinePermissions ELSE grants'[o] = grants[o]
  BY <1>0, <1>6 DEF EnsureAdminRole, AccTypeOK, Roles
<1> QED
  BY <1>2, <1>3, <1>4, <1>5, <1>6

\* An organization under way belongs to the one request that creates it.
LEMMA NewOrgsStep == ASSUME AccessAssumption, AccInv, AccNext PROVE NewOrgs'
<1>0. AccTypeOK /\ Judged /\ NewOrgs
  BY DEF AccInv
<1>1. (Seeded \in orgs)'
  BY <1>0, OrgsFrame DEF NewOrgs, AccessAssumption
<1>2. ASSUME NEW s \in Slots, stage'[s] \in Making
      PROVE  \/ stage'[s] = stage[s] /\ job'[s] = job[s]
             \/ CreateOrg(s) /\ stage'[s] = "role" /\ job'[s] = job[s]
             \/ EnsureAdminRole(s) /\ stage[s] = "role" /\ stage'[s] = "member" /\ job'[s] = job[s]
  <2>1. {"role", "member"} = Making /\ "idle" \notin Making /\ "members" \notin Making
        /\ "update" \notin Making /\ "handle" \notin Making /\ "create" \notin Making
    BY DEF Making
  <2> QED
    BY <1>0, <1>2, <2>1, SlotStep, SlotFound, Zenon
<1>3. \A s \in Slots : CreateOrg(s) => job[s].org \notin orgs /\ job[s].org \in orgs' /\ job[s].org \in Orgs
  BY <1>0 DEF CreateOrg, Judged
<1>4. \A s \in Slots : stage'[s] \in Making =>
          \/ stage[s] \in Making /\ job'[s] = job[s]
          \/ CreateOrg(s) /\ job'[s] = job[s]
  BY <1>2 DEF Making
<1>5. ASSUME NEW s \in Slots, stage'[s] \in Making PROVE job'[s].org \in orgs' \ {Seeded}
  BY <1>0, <1>3, <1>4, <1>5, OrgsFrame DEF NewOrgs, AccTypeOK
<1>6. ASSUME NEW s \in Slots, stage'[s] \in Making, NEW q \in Slots, stage'[q] \in Making,
             job'[s].org = job'[q].org
      PROVE  s = q
  <2>1. CASE stage[s] \in Making /\ job'[s] = job[s] /\ stage[q] \in Making /\ job'[q] = job[q]
    BY <1>0, <1>6, <2>1 DEF NewOrgs
  <2>2. \A r, p \in Slots : CreateOrg(r) /\ CreateOrg(p) => r = p
    BY <1>0 DEF CreateOrg, Go, AccTypeOK
  <2>3. \A r \in Slots : stage[r] \in Making => job[r].org \in orgs
    BY <1>0 DEF NewOrgs
  <2> QED
    BY <1>3, <1>4, <1>6, <2>1, <2>2, <2>3
<1>7. ASSUME NEW s \in Slots, stage'[s] \in Making PROVE \A u \in Users : members'[job'[s].org][u] = NoMember
  <2> DEFINE o == job[s].org
  <2>1. job'[s].org = o /\ o \in Orgs /\ o # Seeded /\ \A u \in Users : members[o][u] = NoMember
    BY <1>0, <1>3, <1>4, <1>7 DEF NewOrgs, AccInv, OtherOrgs, AccTypeOK
  <2>2. ASSUME NEW q \in Slots, CreateMembership(q), job[q].org = o PROVE FALSE
    <3>1. stage[q] = "member" /\ stage'[q] = "idle" /\ stage[q] \in Making /\ o \in orgs
      BY <1>0, <2>2, SlotFound DEF CreateMembership, Making, NewOrgs
    <3>2. stage[s] \in Making
      BY <1>3, <1>4, <1>7, <3>1
    <3>3. s = q
      BY <1>0, <2>2, <3>1, <3>2 DEF NewOrgs
    <3> QED
      BY <1>7, <3>1, <3>3 DEF Making
  <2>3. members'[o] = members[o]
    BY <1>0, <2>1, <2>2, MembersStep DEF AccTypeOK
  <2> QED
    BY <2>1, <2>3
<1>8. ASSUME NEW s \in Slots, stage'[s] = "member" PROVE grants'[job'[s].org]["admin"] = BaselinePermissions
  <2>1. CASE EnsureAdminRole(s) /\ job'[s] = job[s]
    BY <1>0, <2>1 DEF EnsureAdminRole, AccTypeOK, Judged, Roles
  <2>2. CASE stage[s] = "member" /\ job'[s] = job[s]
    BY <1>0, <2>2, OrgsFrame DEF NewOrgs, Making, AccTypeOK
  <2> QED
    BY <1>2, <1>8, <2>1, <2>2 DEF Making
<1> QED
  BY <1>1, <1>5, <1>6, <1>7, <1>8 DEF NewOrgs, Making

\* An organization that is not the seeded one has at most the administrator it was created with.
LEMMA OtherOrgsStep == ASSUME AccessAssumption, AccInv, AccNext PROVE OtherOrgs'
<1>0. AccTypeOK /\ Judged /\ NewOrgs /\ OtherOrgs
  BY DEF AccInv
<1>1. \A s \in Slots : stage[s] = "member" => stage[s] \in Making /\ job[s].org \in orgs
  BY <1>0 DEF NewOrgs, Making
<1>2. Seeded \in orgs /\ orgs \subseteq Orgs
  BY <1>0 DEF NewOrgs, AccTypeOK
<1>3. ASSUME NEW o \in Orgs \ orgs', NEW u \in Users PROVE members'[o][u] = NoMember
  <2>1. o \notin orgs /\ o # Seeded
    BY <1>2, OrgsFrame
  <2>2. members'[o] = members[o]
    BY <1>1, <2>1, OrgsFrame
  <2> QED
    BY <1>0, <2>1, <2>2 DEF OtherOrgs
<1>4. ASSUME NEW o \in Orgs \ {Seeded}, NEW u \in Users, NEW v \in Users,
             members'[o][u] # NoMember, members'[o][v] # NoMember
      PROVE  u = v
  <2>1. CASE members'[o] = members[o]
    BY <1>0, <1>4, <2>1 DEF OtherOrgs
  <2>2. CASE \E s \in Slots :
                 /\ CreateMembership(s) /\ job[s].org = o
                 /\ members' = [members EXCEPT ![job[s].org][job[s].user] =
                                  [role |-> "admin", status |-> "ACTIVE"]]
    <3>1. PICK s \in Slots :
                 /\ CreateMembership(s) /\ job[s].org = o
                 /\ members' = [members EXCEPT ![job[s].org][job[s].user] =
                                  [role |-> "admin", status |-> "ACTIVE"]]
      BY <2>2
    <3>2. \A w \in Users : members[o][w] = NoMember
      BY <1>0, <3>1 DEF CreateMembership, NewOrgs, Making
    <3>3. \A w \in Users : w # job[s].user => members'[o][w] = members[o][w]
      BY <1>0, <3>1 DEF AccTypeOK
    <3> QED
      BY <1>4, <3>2, <3>3
  <2>3. members'[o] = members[o] \/ \E s \in Slots :
                 /\ CreateMembership(s) /\ job[s].org = o
                 /\ members' = [members EXCEPT ![job[s].org][job[s].user] =
                                  [role |-> "admin", status |-> "ACTIVE"]]
    BY <1>0, MembersStep DEF AccTypeOK
  <2> QED
    BY <2>1, <2>2, <2>3
<1>5. ASSUME NEW o \in orgs' \ (cut' \cup {Seeded})
      PROVE  (\E s \in Slots : stage'[s] \in Making /\ job'[s].org = o) \/ Administered(o)'
  <2>1. cut \subseteq cut'
    BY AccFrame DEF Abort
  <2>2. o \in Orgs
    BY <1>2, <1>5, AccFrame, <1>0 DEF CreateOrg, Judged
  <2>3. ASSUME o \notin orgs PROVE \E s \in Slots : stage'[s] \in Making /\ job'[s].org = o
    <3>1. PICK s \in Slots : CreateOrg(s) /\ job[s].org = o
      BY <1>5, <2>2, <2>3, OrgsFrame
    <3> QED
      BY <1>0, <3>1, SlotFound DEF Making
  <2>4. ASSUME NEW s \in Slots, stage[s] \in Making, job[s].org = o
        PROVE  (\E q \in Slots : stage'[q] \in Making /\ job'[q].org = o) \/ Administered(o)'
    <3>1. CASE stage'[s] = stage[s] /\ job'[s] = job[s]
      BY <2>4, <3>1
    <3>2. CASE EnsureAdminRole(s)
      BY <1>0, <2>4, <3>2, SlotFound DEF Making
    <3>3. CASE Abort(s)
      BY <1>5, <2>4, <3>3 DEF Abort, Making
    <3>4. CASE CreateMembership(s)
      <4>1. /\ stage[s] = "member" /\ job[s].user \in Users /\ UNCHANGED grants
            /\ members'[o][job[s].user] = [role |-> "admin", status |-> "ACTIVE"]
        BY <1>0, <2>2, <2>4, <3>4 DEF CreateMembership, Judged, AccTypeOK
      <4>2. grants'[o]["admin"] = BaselinePermissions
        BY <1>0, <2>4, <4>1 DEF NewOrgs
      <4> QED
        BY <4>1, <4>2 DEF Administered
    <3>5. stage[s] # "handle" /\ stage[s] # "members" /\ stage[s] # "idle" /\ stage[s] # "create"
      BY <2>4 DEF Making
    <3>6. \A i, p, kind : ~FindSession(s, i, p, kind)
      BY <3>5 DEF FindSession
    <3>7. \A u, r, st : ~FindMembership(s, u, r, st)
      BY <3>5 DEF FindMembership
    <3>8. \A p : ~FindOrgBySlug(s, p)
      BY <3>5 DEF FindOrgBySlug
    <3>9. ~ListMemberships(s) /\ ~CreateOrg(s)
      BY <3>5 DEF ListMemberships, CreateOrg
    <3> QED
      BY <1>0, <2>4, <3>1, <3>2, <3>3, <3>4, <3>6, <3>7, <3>8, <3>9, SlotStep, Zenon
  <2>5. ASSUME Administered(o), ~ \E s \in Slots : stage[s] \in Making /\ job[s].org = o
        PROVE  Administered(o)'
    <3>1. members'[o] = members[o]
      BY <1>1, <1>5, <2>2, <2>5, OrgsFrame
    <3>2. grants'[o] = grants[o] \/ grants'[o]["admin"] = BaselinePermissions
      BY <2>2, OrgsFrame
    <3> QED
      BY <2>5, <3>1, <3>2 DEF Administered
  <2>6. o \in orgs => (\E s \in Slots : stage[s] \in Making /\ job[s].org = o) \/ Administered(o)
    BY <1>0, <1>5, <2>1 DEF OtherOrgs
  <2> QED
    BY <2>3, <2>4, <2>5, <2>6
<1> QED
  BY <1>3, <1>4, <1>5 DEF OtherOrgs

\* While no two requests change memberships at once, the seeded organization keeps an administrator.
LEMMA OneChangesStep == ASSUME AccessAssumption, AccInv, AccNext PROVE OneChanges'
<1> DEFINE Still(u) ==
        members'[Seeded][u].status = "ACTIVE" /\ "role:write" \in grants'[Seeded][members'[Seeded][u].role]
<1>0. AccTypeOK /\ Judged /\ Changing /\ NewOrgs /\ OneChanges
  BY DEF AccInv
<1> SUFFICES ASSUME ~overlapped'
             PROVE  /\ \A s, q \in Slots :
                          job'[s].kind = UpdatesMember /\ job'[q].kind = UpdatesMember => s = q
                    /\ \A s \in Slots : stage'[s] \in {"handle", "update"} /\ job'[s].kind = UpdatesMember
                                        /\ job'[s].org = Seeded => Still(job'[s].user)
                    /\ \E u \in Users : Still(u)
  BY DEF OneChanges, Administers
<1>1. ~overlapped
  BY AccFrame
<1>2. /\ \A s, q \in Slots : job[s].kind = UpdatesMember /\ job[q].kind = UpdatesMember => s = q
      /\ \A s \in Slots : stage[s] \in {"handle", "update"} /\ job[s].kind = UpdatesMember
                          /\ job[s].org = Seeded => Administers(job[s].user)
      /\ \E u \in Users : Administers(u)
  BY <1>0, <1>1 DEF OneChanges
<1>3. ASSUME NEW s \in Slots, job'[s].kind = UpdatesMember
      PROVE  \/ job[s].kind = UpdatesMember
             \/ \E i \in DOMAIN sessions, o \in Orgs : FindSession(s, i, o, UpdatesMember)
  <2>1. \A u, r, st : FindMembership(s, u, r, st) => job'[s].kind = job[s].kind
    BY <1>0, SlotFound, Zenon
  <2>2. \A o : FindOrgBySlug(s, o) => job'[s].kind = job[s].kind
    BY <1>0, SlotFound, Zenon
  <2>3. \A i, o, kind : FindSession(s, i, o, kind) => job'[s].kind = kind
    BY <1>0, SlotFound, Zenon
  <2>4. CreateOrg(s) \/ EnsureAdminRole(s) => job'[s] = job[s]
    BY <1>0, SlotFound, Zenon
  <2>5. ~Done(s)
    BY <1>0, <1>3, SlotFound, Zenon
  <2> QED
    BY <1>0, <1>3, <2>1, <2>2, <2>3, <2>4, <2>5, SlotStep
<1>4. ASSUME NEW s \in Slots, NEW i \in DOMAIN sessions, NEW o \in Orgs, FindSession(s, i, o, UpdatesMember)
      PROVE  \A q \in Slots \ {s} : job'[q].kind # UpdatesMember
  BY <1>0, <1>4 DEF FindSession, Overlaps, AccTypeOK
<1>5. \A s, q \in Slots : job'[s].kind = UpdatesMember /\ job'[q].kind = UpdatesMember => s = q
  BY <1>2, <1>3, <1>4
<1>6. ASSUME NEW u \in Users, Administers(u),
             \A s \in Slots : UpdateMembership(s) => job[s].target # u
      PROVE  Still(u)
  <2>0. Seeded \in Orgs /\ \A s \in Slots : stage[s] = "member" \/ EnsureAdminRole(s) => job[s].org # Seeded
    BY <1>0 DEF NewOrgs, Making, EnsureAdminRole, AccessAssumption
  <2>1. grants'[Seeded] = grants[Seeded]
    BY <2>0, OrgsFrame
  <2>2. \A s \in Slots : CreateMembership(s) => job[s].org # Seeded
    BY <2>0 DEF CreateMembership
  <2>3. members'[Seeded][u] = members[Seeded][u]
    <3>1. members \in [Orgs -> [Users -> [role : Roles, status : Statuses] \cup {NoMember}]]
      BY <1>0 DEF AccTypeOK
    <3>2. ASSUME NEW p, NEW v, NEW m, members' = [members EXCEPT ![p][v] = m], p # Seeded \/ v # u
          PROVE  members'[Seeded][u] = members[Seeded][u]
      BY <2>0, <3>1, <3>2
    <3> QED
      BY <1>6, <2>2, <3>2, MembersStep
  <2> QED
    BY <1>6, <2>1, <2>3 DEF Administers
<1>7. \A s \in Slots : UpdateMembership(s) =>
         /\ job[s].kind = UpdatesMember /\ job[s].user \in Users /\ job[s].target # job[s].user
         /\ Administers(job[s].user)
         /\ stage'[s] = "idle"
  <2>1. \A s \in Slots : UpdateMembership(s) => stage[s] = "update" /\ stage'[s] = "idle"
    BY <1>0 DEF UpdateMembership, Done, Go, AccTypeOK
  <2> QED
    BY <1>0, <1>2, <2>1 DEF Judged, Changing
<1>8. \E u \in Users : Still(u)
  <2>1. CASE \E s \in Slots : UpdateMembership(s)
    <3>1. PICK s \in Slots : UpdateMembership(s)
      BY <2>1
    <3>2. \A q \in Slots : UpdateMembership(q) => q = s
      BY <1>2, <1>7, <3>1
    <3> QED
      BY <1>6, <1>7, <3>1, <3>2
  <2>2. CASE ~ \E s \in Slots : UpdateMembership(s)
    BY <1>2, <1>6, <2>2
  <2> QED
    BY <2>1, <2>2
<1>9. ASSUME NEW s \in Slots, stage'[s] \in {"handle", "update"}, job'[s].kind = UpdatesMember,
             job'[s].org = Seeded
      PROVE  Still(job'[s].user)
  <2>1. \/ stage'[s] = stage[s] /\ job'[s] = job[s]
        \/ ListMemberships(s) /\ Go(s, "handle") /\ UNCHANGED job
        \/ \E u \in Users : \E r, st : FindMembership(s, u, r, st)
    BY <1>0, <1>9, SlotStep, SlotFound
  <2>2. job[s].kind = UpdatesMember /\ job[s].org = Seeded /\ job'[s].user = job[s].user /\ stage[s] # "idle"
    BY <1>0, <1>9, <2>1, SlotFound
  <2>3. Administers(job[s].user)
    <3>1. CASE stage[s] \in {"handle", "update"}
      BY <1>2, <2>2, <3>1
    <3>2. CASE stage[s] \notin {"handle", "update"}
      <4>1. ListMemberships(s) /\ stage[s] = "members" /\ ~Done(s)
        BY <1>0, <1>9, <2>1, <3>2, SlotFound
      <4> QED
        BY <2>2, <4>1 DEF ListMemberships, Authorize, Administers, UpdatesMember
    <3> QED
      BY <3>1, <3>2
  <2>4. job[s].user \in Users
    BY <1>0, <2>2 DEF Judged
  <2>5. \A q \in Slots : ~UpdateMembership(q)
    BY <1>2, <1>7, <1>9, <2>2
  <2> QED
    BY <1>6, <2>2, <2>3, <2>4, <2>5
<1> QED
  BY <1>5, <1>8, <1>9, Zenon

\* What is written was permitted by the guards.
LEMMA WritesStep == ASSUME AccessAssumption, AccInv, AccNext PROVE WritesArePermitted'
<1>0. AccTypeOK /\ Judged /\ WritesArePermitted
  BY DEF AccInv
<1> DEFINE Fine(w) == w.permitted /\ w.live /\ (w.effect = "writes" => w.permission \notin Viewing)
<1>1. \A w \in written : Fine(w)
  BY <1>0 DEF WritesArePermitted
<1>2. \A s \in Slots : stage[s] \in {"handle", "update"} => permitted[s] /\ job[s].live
  BY <1>0 DEF Judged
<1>3. ASSUME NEW s \in Slots, Handle(s) PROVE \A w \in written' : Fine(w)
  <2> DEFINE w == [permission |-> job[s].kind.permission, effect |-> job[s].kind.effect,
                   permitted |-> permitted[s], live |-> job[s].live]
  <2>1. stage[s] = "handle" /\ job[s].kind \in Kinds /\ written' \in {written, written \cup {w}}
    BY <1>3 DEF Handle
  <2>2. Fine(w)
    BY <1>2, <2>1, ReadersWriteNothing DEF AccessAssumption
  <2> HIDE DEF w, Fine
  <2> QED
    BY <1>1, <2>1, <2>2
<1>4. ASSUME NEW s \in Slots, UpdateMembership(s) PROVE \A w \in written' : Fine(w)
  <2> DEFINE w == [permission |-> "role:write", effect |-> "writes",
                   permitted |-> permitted[s], live |-> job[s].live]
  <2>1. stage[s] = "update" /\ written' = written \cup {w}
    BY <1>4 DEF UpdateMembership
  <2>2. Fine(w)
    BY <1>2, <2>1 DEF AccessAssumption, ReadingPermissions
  <2> HIDE DEF w, Fine
  <2> QED
    BY <1>1, <2>1, <2>2
<1>5. UNCHANGED written \/ \E s \in Slots : Handle(s) \/ UpdateMembership(s)
  BY AccFrame
<1>6. \A w \in written' : Fine(w)
  BY <1>1, <1>3, <1>4, <1>5
<1> QED
  BY <1>6 DEF WritesArePermitted

\* A step of another desk leaves the guards and their tables alone.
LEMMA AccStutter == ASSUME AccInv, UNCHANGED accVars PROVE AccInv'
<1>1. UNCHANGED <<now, sessions, orgs, grants, members, stage, job, requests, written, permitted, overlapped, cut>>
  BY DEF accVars
<1>2. AccTypeOK'
  BY <1>1 DEF AccInv, AccTypeOK
<1>3. Judged' /\ Changing'
  BY <1>1 DEF AccInv, Judged, Changing
<1>4. NewOrgs' /\ OtherOrgs'
  BY <1>1 DEF AccInv, NewOrgs, OtherOrgs, Administered
<1>5. OneChanges' /\ WritesArePermitted'
  BY <1>1 DEF AccInv, OneChanges, Administers, WritesArePermitted
<1> QED
  BY <1>2, <1>3, <1>4, <1>5 DEF AccInv

LEMMA AccStepInv == ASSUME AccessAssumption, AccInv, [AccNext]_accVars PROVE AccInv'
<1>1. CASE AccNext
  <2>1. AccTypeOK' /\ Judged'
    BY <1>1, AccTypeStep, JudgedStep
  <2> QED
    BY <1>1, <2>1, ChangingStep, NewOrgsStep, OtherOrgsStep, OneChangesStep, WritesStep, Zenon DEF AccInv
<1> QED
  BY <1>1, AccStutter

-----------------------------------------------------------------------------
LEMMA AccInvariance == GatewaySpec => []AccInv
<1>1. GatewayInit => AccInv
  BY GatewayAssumption, AccInitInv DEF GatewayInit
<1>2. AccInv /\ [GatewayNext]_<<desk, vars, accVars, limits>> => AccInv'
  BY GatewayAssumption, AccStepInv DEF GatewayNext
<1> QED
  BY <1>1, <1>2, PTL DEF GatewaySpec

\* What is written was written by a member whose role the guards looked up, with the
\* permission the handler asks for: nothing between the guards and the write moves it.
THEOREM WritesArePermittedAlways == GatewaySpec => []WritesArePermitted
<1>1. AccInv => WritesArePermitted
  BY DEF AccInv
<1> QED
  BY <1>1, AccInvariance, PTL

\* An organization keeps an administrator who is in office, but for one whose creation was cut
\* short, and for the seeded one until two requests change memberships at once.
THEOREM SomebodyAdministersAlways == GatewaySpec => []SomebodyAdministers
<1>1. AccInv => SomebodyAdministers
  BY Zenon DEF AccInv, OneChanges, OtherOrgs, Administers, Administered, SomebodyAdministers, Making
<1> QED
  BY <1>1, AccInvariance, PTL

\* A request that passes the middleware at the gateway is one of the middleware's own.
THEOREM GatewayImplementsIdempotency == GatewaySpec => Spec
<1>1. GatewayInit => Init
  BY DEF GatewayInit
<1>2. [GatewayNext]_<<desk, vars, accVars, limits>> => [Next]_vars
  BY DEF GatewayNext
<1> QED
  BY <1>1, <1>2, PTL DEF GatewaySpec, Spec

-----------------------------------------------------------------------------
\* A set of numbers that is not empty has a least one: the two proofs below that walk through
\* a sequence look at the first place where they would fail.
LEMMA LeastNumber == ASSUME NEW S, S \subseteq Nat, S # {} PROVE \E x \in S : \A y \in S : x <= y
<1> DEFINE R == {p \in Nat \X Nat : p[1] < p[2]}
<1>0. IsWellFoundedOn(R, Nat)
  BY NatLessThanWellFounded, Zenon DEF OpToRel
<1>1. \E x \in S : \A y \in S : ~ (<<y, x>> \in R)
  <2> HIDE DEF R
  <2> QED
    BY <1>0, WFMin
<1>2. \A x, y \in S : <<y, x>> \in R <=> y < x
  OBVIOUS
<1> HIDE DEF R
<1>3. PICK x \in S : \A y \in S : ~ (<<y, x>> \in R)
  BY <1>1
<1>4. \A y \in S : ~(y < x) /\ x \in Nat /\ y \in Nat
  BY <1>2, <1>3
<1> QED
  BY <1>4

Ordered(s) == \A i, j \in DOMAIN s : i <= j => s[i] <= s[j]

\* r is what is left of s when the times up to c are dropped.
TailAfter(r, s, d, c) ==
    /\ d \in 0..Len(s) /\ r \in Seq(Nat) /\ Len(r) = Len(s) - d
    /\ \A i \in 1..(Len(s) - d) : r[i] = s[d + i]
    /\ \A i \in 1..d : s[i] <= c
    /\ \A i \in (d + 1)..Len(s) : s[i] > c

\* Times are in order, so the recent ones are the last ones.
LEMMA RecentIsTail ==
    ASSUME Rate!RateAssumption, NEW k \in Keys, hits[k] \in Seq(Nat), Ordered(hits[k]), clock \in Nat
    PROVE  \E d : TailAfter(Rate!Recent(k), hits[k], d, clock - WindowMs)
<1> DEFINE s == hits[k]
           c == clock - WindowMs
           Filters(g, n) ==
              g = [i \in 0..n |-> IF i = 0 THEN <<>>
                                 ELSE IF s[i] > c THEN Append(g[i - 1], s[i]) ELSE g[i - 1]]
           Bad == {n \in 0..Len(s) : ~ \E g : Filters(g, n)}
<1>0. Len(s) \in Nat /\ DOMAIN s = 1..Len(s) /\ (\A i \in 1..Len(s) : s[i] \in Nat) /\ c \in Int
  BY DEF Rate!RateAssumption
<1>b. \A i, j \in 1..Len(s) : i <= j => s[i] <= s[j]
  BY <1>0 DEF Ordered
<1>d. Rate!Recent(k) = (CHOOSE g : Filters(g, Len(s)))[Len(s)]
  BY DEF Rate!Recent
<1> HIDE DEF s, c
<1>a. ASSUME NEW g, NEW n, Filters(g, n), NEW i \in 0..n
      PROVE  g[i] = IF i = 0 THEN <<>> ELSE IF s[i] > c THEN Append(g[i - 1], s[i]) ELSE g[i - 1]
  BY <1>a, Zenon
<1>1. Bad = {}
  <2> SUFFICES ASSUME Bad # {}
               PROVE  FALSE
    OBVIOUS
  <2>1. Bad \subseteq Nat
    BY <1>0
  <2> HIDE DEF Bad
  <2>2. PICK m \in Bad : \A n \in Bad : m <= n
    BY <2>1, LeastNumber
  <2>3. m \in 0..Len(s) /\ ~ \E g : Filters(g, m)
    BY DEF Bad
  <2>4. CASE m = 0
    <3> DEFINE g == [i \in 0..0 |-> <<>>]
    <3>1. Filters(g, 0)
      OBVIOUS
    <3> QED
      BY <2>3, <2>4, <3>1
  <2>5. CASE m # 0
    <3>1. m - 1 \in 0..Len(s) /\ m - 1 \notin Bad /\ m \in Nat
      BY <1>0, <2>1, <2>2, <2>3, <2>5
    <3>2. PICK h : Filters(h, m - 1)
      BY <3>1 DEF Bad
    <3> DEFINE g == [i \in 0..m |-> IF i = 0 THEN <<>>
                                   ELSE IF s[i] > c THEN Append(h[i - 1], s[i]) ELSE h[i - 1]]
    <3>3. \A i \in 0..(m - 1) : g[i] = h[i]
      <4>1. \A i \in 0..(m - 1) : h[i] = IF i = 0 THEN <<>>
                                         ELSE IF s[i] > c THEN Append(h[i - 1], s[i]) ELSE h[i - 1]
        BY <1>a, <3>2
      <4>2. \A i \in 0..(m - 1) : i \in 0..m
        BY <3>1
      <4> QED
        BY <4>1, <4>2
    <3>4. Filters(g, m)
      <4>1. \A i \in 0..m : i # 0 => i - 1 \in 0..(m - 1)
        BY <3>1
      <4>2. \A i \in 0..m : i # 0 => g[i - 1] = h[i - 1]
        BY <3>3, <4>1
      <4>3. \A i \in 0..m : g[i] = IF i = 0 THEN <<>>
                                   ELSE IF s[i] > c THEN Append(g[i - 1], s[i]) ELSE g[i - 1]
        BY <4>2
      <4> QED
        BY <4>3
    <3> QED
      BY <2>3, <3>4
  <2> QED
    BY <2>4, <2>5
<1> DEFINE kept == CHOOSE g : Filters(g, Len(s))
<1>2. Filters(kept, Len(s))
  <2>1. Len(s) \in 0..Len(s) /\ Len(s) \notin Bad
    <3> HIDE DEF Bad
    <3> QED
      BY <1>0, <1>1
  <2>2. \E g : Filters(g, Len(s))
    <3> HIDE DEF Filters
    <3> QED
      BY <2>1 DEF Bad
  <2> QED
    BY <2>2, Zenon
<1>3. /\ kept[0] = <<>>
      /\ \A i \in 1..Len(s) : kept[i] = IF s[i] > c THEN Append(kept[i - 1], s[i]) ELSE kept[i - 1]
  <2>1. \A i \in 0..Len(s) : kept[i] = IF i = 0 THEN <<>>
                                        ELSE IF s[i] > c THEN Append(kept[i - 1], s[i]) ELSE kept[i - 1]
    BY <1>a, <1>2
  <2> HIDE DEF kept
  <2> QED
    BY <1>0, <2>1
<1>4. Rate!Recent(k) = kept[Len(s)]
  BY <1>d
<1> HIDE DEF kept, Bad
<1> DEFINE Tail_(n, d) ==
              /\ d \in 0..n /\ kept[n] \in Seq(Nat) /\ Len(kept[n]) = n - d
              /\ \A i \in 1..(n - d) : kept[n][i] = s[d + i]
              /\ \A i \in 1..d : s[i] <= c
              /\ \A i \in (d + 1)..n : s[i] > c
           Wrong == {n \in 0..Len(s) : ~ \E d : Tail_(n, d)}
<1>5. Wrong = {}
  <2> SUFFICES ASSUME Wrong # {}
               PROVE  FALSE
    OBVIOUS
  <2>1. Wrong \subseteq Nat
    BY <1>0
  <2> HIDE DEF Wrong
  <2>2. PICK m \in Wrong : \A n \in Wrong : m <= n
    BY <2>1, LeastNumber
  <2>3. m \in 0..Len(s) /\ ~ \E d : Tail_(m, d)
    BY DEF Wrong
  <2>4. CASE m = 0
    <3>1. kept[0] \in Seq(Nat) /\ Len(kept[0]) = 0
      BY <1>3
    <3>2. Tail_(0, 0)
      BY <3>1
    <3> QED
      BY <2>3, <2>4, <3>2
  <2>5. CASE m # 0
    <3>1. m - 1 \in 0..Len(s) /\ m - 1 \notin Wrong /\ m \in Nat /\ m \in 1..Len(s)
      BY <1>0, <2>1, <2>2, <2>3, <2>5
    <3>2. PICK d : Tail_(m - 1, d)
      BY <3>1 DEF Wrong
    <3>3. s[m] \in Nat /\ d \in Nat /\ d <= m - 1
      BY <1>0, <3>1, <3>2
    <3>4. CASE s[m] > c
      <4> DEFINE r == kept[m - 1]
                 t == Append(r, s[m])
      <4>1. kept[m] = t
        BY <1>3, <3>1, <3>4
      <4>2. r \in Seq(Nat) /\ Len(r) = m - 1 - d
        BY <3>2
      <4> HIDE DEF r
      <4>3. t \in Seq(Nat) /\ Len(t) = m - d /\ t[m - d] = s[m] /\ \A i \in 1..(m - 1 - d) : t[i] = r[i]
        BY <3>1, <3>3, <4>2
      <4> HIDE DEF t
      <4>4. ASSUME NEW i \in 1..(m - d) PROVE t[i] = s[d + i]
        <5>1. CASE i = m - d
          BY <3>1, <3>3, <4>3, <5>1
        <5>2. CASE i # m - d
          <6>1. i \in 1..(m - 1 - d)
            BY <3>1, <3>3, <5>2
          <6> QED
            BY <3>2, <4>3, <6>1 DEF r
        <5> QED
          BY <5>1, <5>2
      <4>5. ASSUME NEW i \in (d + 1)..m PROVE s[i] > c
        <5>1. i = m \/ i \in (d + 1)..(m - 1)
          BY <3>1, <3>3
        <5> QED
          BY <3>2, <3>4, <5>1
      <4>6. d \in 0..m
        BY <3>1, <3>3
      <4>7. Tail_(m, d)
        BY <3>2, <4>1, <4>3, <4>4, <4>5, <4>6
      <4> QED
        BY <2>3, <4>7
    <3>5. CASE ~(s[m] > c)
      <4>1. kept[m] = kept[m - 1]
        BY <1>3, <3>1, <3>5
      <4>2. \A i \in 1..m : s[i] <= c
        BY <1>0, <1>b, <3>1, <3>3, <3>5
      <4>3. d = m - 1
        <5>1. SUFFICES ASSUME d # m - 1 PROVE FALSE
          OBVIOUS
        <5>2. m - 1 \in (d + 1)..(m - 1) /\ m - 1 \in 1..m /\ m - 1 \in 1..Len(s)
          BY <3>1, <3>3, <5>1
        <5> QED
          BY <1>0, <3>2, <4>2, <5>2
      <4>4. kept[m] \in Seq(Nat) /\ Len(kept[m]) = 0
        BY <3>1, <3>2, <4>1, <4>3
      <4>5. Tail_(m, m)
        BY <3>1, <4>2, <4>4
      <4> QED
        BY <2>3, <4>5
    <3> QED
      BY <3>4, <3>5
  <2> QED
    BY <2>4, <2>5
<1>6. Len(s) \notin Wrong /\ Len(s) \in 0..Len(s)
  <2> HIDE DEF Wrong
  <2> QED
    BY <1>0, <1>5
<1>7. PICK d : Tail_(Len(s), d)
  <2> HIDE DEF Tail_
  <2> QED
    BY <1>6 DEF Wrong
<1> QED
  BY <1>4, <1>7 DEF TailAfter, s, c
-----------------------------------------------------------------------------
(* The rate limit: the map holds the last of the times let through, and a   *)
(* window before the first it holds lies all that went before.              *)

KeyInv(k) ==
    /\ Ordered(admitted[k]) /\ \A i \in 1..Len(admitted[k]) : admitted[k][i] <= clock
    /\ Len(hits[k]) <= Len(admitted[k])
    /\ \A i \in 1..Len(hits[k]) : hits[k][i] = admitted[k][Len(admitted[k]) - Len(hits[k]) + i]
    /\ \A i \in 1..(Len(admitted[k]) - Len(hits[k])) : admitted[k][i] <= clock - WindowMs
    /\ \A i \in 1..Len(admitted[k]) - Max : admitted[k][i + Max] - admitted[k][i] >= WindowMs
    /\ \A t \in promised[k] : Len(hits[k]) > 0 /\ t >= hits[k][1] + WindowMs

RateInv == Rate!RateTypeOK /\ \A k \in Keys : KeyInv(k)

LEMMA RateTyped ==
    ASSUME Rate!RateAssumption, Rate!RateTypeOK
    PROVE  /\ clock \in Nat /\ WindowMs \in Nat /\ Max \in Nat /\ Max > 0 /\ Second \in Nat /\ MaxClock \in Nat
           /\ \A k \in Keys : /\ hits[k] \in Seq(0..MaxClock) /\ hits[k] \in Seq(Nat)
                              /\ admitted[k] \in Seq(0..MaxClock) /\ admitted[k] \in Seq(Nat)
                              /\ promised[k] \subseteq Nat
                              /\ Len(hits[k]) \in Nat /\ Len(hits[k]) <= Max /\ Len(admitted[k]) \in Nat
                              /\ DOMAIN hits[k] = 1..Len(hits[k])
                              /\ DOMAIN admitted[k] = 1..Len(admitted[k])
                              /\ \A i \in 1..Len(hits[k]) : hits[k][i] \in 0..MaxClock
                              /\ \A i \in 1..Len(admitted[k]) : admitted[k][i] \in Nat
<1>1. clock \in Nat /\ WindowMs \in Nat /\ Max \in Nat /\ Max > 0 /\ Second \in Nat /\ MaxClock \in Nat
  BY DEF Rate!RateAssumption, Rate!RateTypeOK
<1>2. ASSUME NEW k \in Keys
      PROVE  /\ hits[k] \in Seq(0..MaxClock) /\ Len(hits[k]) <= Max
             /\ admitted[k] \in Seq(0..MaxClock) /\ promised[k] \in SUBSET (0..MaxClock + WindowMs + Second)
  BY DEF Rate!RateTypeOK
<1>3. 0..MaxClock \subseteq Nat /\ 0..(MaxClock + WindowMs + Second) \subseteq Nat
  BY <1>1
<1>4. ASSUME NEW s \in Seq(0..MaxClock)
      PROVE  /\ s \in Seq(Nat) /\ Len(s) \in Nat /\ DOMAIN s = 1..Len(s)
             /\ \A i \in 1..Len(s) : s[i] \in 0..MaxClock /\ s[i] \in Nat
  <2>1. Len(s) \in Nat /\ DOMAIN s = 1..Len(s) /\ s \in [1..Len(s) -> 0..MaxClock]
    BY LenProperties
  <2>2. s \in Seq(Nat)
    BY <1>3, SeqMonotonic
  <2> QED
    BY <1>3, <2>1, <2>2
<1> QED
  BY <1>1, <1>2, <1>3, <1>4

LEMMA HitsAreOrdered ==
    ASSUME Rate!RateAssumption, RateInv, NEW k \in Keys
    PROVE  Ordered(hits[k])
<1> DEFINE h == hits[k]
           a == admitted[k]
           o == Len(a) - Len(h)
<1>1. /\ Len(h) \in Nat /\ Len(a) \in Nat /\ DOMAIN h = 1..Len(h) /\ DOMAIN a = 1..Len(a)
      /\ \A i, j \in 1..Len(a) : i <= j => a[i] <= a[j]
      /\ Len(h) <= Len(a) /\ \A i \in 1..Len(h) : h[i] = a[o + i]
  BY RateTyped DEF RateInv, KeyInv, Ordered
<1> HIDE DEF h, a
<1>2. \A i \in 1..Len(h) : o + i \in 1..Len(a)
  BY <1>1
<1>3. \A i, j \in 1..Len(h) : i <= j => h[i] <= h[j]
  BY <1>1, <1>2
<1> QED
  BY <1>1, <1>3 DEF Ordered, h
\* Another key is left as it is, the clock included.
LEMMA OtherKeyKept ==
    ASSUME NEW k, KeyInv(k),
           UNCHANGED <<clock, hits[k], admitted[k], promised[k]>>
    PROVE  KeyInv(k)'
  BY DEF KeyInv, Ordered

LEMMA AdmitKeeps ==
    ASSUME Rate!RateAssumption, RateInv, NEW k \in Keys, Rate!Admit(k)
    PROVE  RateInv'
<1> DEFINE r == Rate!Recent(k)
           h == hits[k]
           a == admitted[k]
           c == clock - WindowMs
           hh == Append(r, clock)
           aa == Append(a, clock)
<1>t. /\ clock \in Nat /\ WindowMs \in Nat /\ Max \in Nat /\ Max > 0 /\ MaxClock \in Nat
      /\ h \in Seq(Nat) /\ a \in Seq(Nat) /\ a \in Seq(0..MaxClock)
      /\ Len(h) \in Nat /\ Len(h) <= Max /\ Len(a) \in Nat
      /\ DOMAIN h = 1..Len(h) /\ DOMAIN a = 1..Len(a)
      /\ \A i \in 1..Len(h) : h[i] \in 0..MaxClock
      /\ \A i \in 1..Len(a) : a[i] \in Nat
  BY RateTyped DEF RateInv
<1>k. /\ \A i, j \in 1..Len(a) : i <= j => a[i] <= a[j]
      /\ \A i \in 1..Len(a) : a[i] <= clock
      /\ Len(h) <= Len(a) /\ \A i \in 1..Len(h) : h[i] = a[Len(a) - Len(h) + i]
      /\ \A i \in 1..(Len(a) - Len(h)) : a[i] <= c
      /\ \A i \in 1..Len(a) - Max : a[i + Max] - a[i] >= WindowMs
  BY <1>t DEF RateInv, KeyInv, Ordered
<1>0. /\ clock \in 0..MaxClock
      /\ hits \in [Keys -> Seq(0..MaxClock)] /\ (\A i \in Keys : Len(hits[i]) <= Max)
      /\ admitted \in [Keys -> Seq(0..MaxClock)]
      /\ promised \in [Keys -> SUBSET (0..MaxClock + WindowMs + Second)]
  BY DEF RateInv, Rate!RateTypeOK
<1>1. /\ Len(r) < Max /\ hits' = [hits EXCEPT ![k] = hh] /\ admitted' = [admitted EXCEPT ![k] = aa]
      /\ promised' = [promised EXCEPT ![k] = {}] /\ clock' = clock
  BY DEF Rate!Admit
<1>2. PICK d : TailAfter(r, h, d, c)
  BY <1>t, RecentIsTail, HitsAreOrdered
<1>3. /\ d \in 0..Len(h) /\ r \in Seq(Nat) /\ Len(r) = Len(h) - d /\ Len(r) \in Nat
      /\ \A i \in 1..Len(r) : r[i] = h[d + i]
      /\ \A i \in 1..d : h[i] <= c
  BY <1>t, <1>2 DEF TailAfter
<1> HIDE DEF r, h, a, c
<1>4. r \in Seq(0..MaxClock)
  <2>1. \A i \in 1..Len(r) : r[i] \in 0..MaxClock
    <3>1. \A i \in 1..Len(r) : d + i \in 1..Len(h)
      BY <1>3, <1>t
    <3> QED
      BY <1>3, <1>t, <3>1
  <2>2. r \in [1..Len(r) -> 0..MaxClock]
    <3>1. r \in [1..Len(r) -> Nat]
      BY <1>3
    <3> QED
      BY <2>1, <3>1
  <2> QED
    <3>1. \E n \in Nat : r \in [1..n -> 0..MaxClock]
      BY <1>3, <2>2, Zenon
    <3>2. r \in UNION {[1..n -> 0..MaxClock] : n \in Nat}
      BY <3>1, Zenon
    <3> QED
      BY <3>2, SeqDef
<1>5. /\ hh \in Seq(0..MaxClock) /\ Len(hh) = Len(r) + 1 /\ hh[Len(r) + 1] = clock
      /\ \A i \in 1..Len(r) : hh[i] = r[i]
  BY <1>0, <1>3, <1>4
<1>6. /\ aa \in Seq(0..MaxClock) /\ Len(aa) = Len(a) + 1 /\ aa[Len(a) + 1] = clock
      /\ DOMAIN aa = 1..(Len(a) + 1)
      /\ \A i \in 1..Len(a) : aa[i] = a[i]
  BY <1>0, <1>t
<1> HIDE DEF hh, aa
<1>7. Rate!RateTypeOK'
  <2>1. hits' \in [Keys -> Seq(0..MaxClock)] /\ \A i \in Keys : Len(hits'[i]) <= Max
    <3>1. Len(hh) <= Max
      BY <1>1, <1>3, <1>5, <1>t
    <3> QED
      BY <1>0, <1>1, <1>5, <3>1
  <2>2. admitted' \in [Keys -> Seq(0..MaxClock)]
    BY <1>0, <1>1, <1>6
  <2>3. promised' \in [Keys -> SUBSET (0..MaxClock + WindowMs + Second)]
    BY <1>0, <1>1
  <2> QED
    BY <1>0, <1>1, <2>1, <2>2, <2>3 DEF Rate!RateTypeOK
<1>8. KeyInv(k)'
  <2>0. hits'[k] = hh /\ admitted'[k] = aa /\ promised'[k] = {} /\ clock' = clock
    BY <1>0, <1>1
  <2>2. ASSUME NEW i \in 1..(Len(a) + 1)
        PROVE  aa[i] <= clock /\ (i = Len(a) + 1 \/ i \in 1..Len(a))
    <3>1. i = Len(a) + 1 \/ i \in 1..Len(a)
      BY <1>t
    <3>2. CASE i = Len(a) + 1
      BY <1>6, <1>t, <3>2
    <3>3. CASE i \in 1..Len(a)
      BY <1>6, <1>k, <3>3
    <3> QED
      BY <3>1, <3>2, <3>3
  <2>1. ASSUME NEW i \in 1..(Len(a) + 1), NEW j \in 1..(Len(a) + 1), i <= j
        PROVE  aa[i] <= aa[j]
    <3>1. CASE j = Len(a) + 1
      BY <1>6, <2>2, <3>1
    <3>2. CASE j \in 1..Len(a)
      <4>1. i \in 1..Len(a)
        BY <1>t, <2>1, <3>2
      <4> QED
        BY <1>6, <1>k, <2>1, <3>2, <4>1
    <3> QED
      BY <2>2, <3>1, <3>2
  <2>3. ASSUME NEW i \in 1..(Len(r) + 1) PROVE hh[i] = aa[Len(aa) - Len(hh) + i]
    <3>1. CASE i = Len(r) + 1
      <4>1. Len(aa) - Len(hh) + i = Len(a) + 1
        BY <1>3, <1>5, <1>6, <1>t, <3>1
      <4> QED
        BY <1>5, <1>6, <3>1, <4>1
    <3>2. CASE i # Len(r) + 1
      <4>1. i \in 1..Len(r) /\ d + i \in 1..Len(h) /\ Len(aa) - Len(hh) + i = Len(a) - Len(h) + (d + i)
        BY <1>3, <1>5, <1>6, <1>t, <3>2
      <4>2. hh[i] = a[Len(a) - Len(h) + (d + i)]
        BY <1>3, <1>5, <1>k, <4>1
      <4>3. Len(a) - Len(h) + (d + i) \in 1..Len(a)
        BY <1>3, <1>k, <1>t, <4>1
      <4> QED
        BY <1>6, <4>1, <4>2, <4>3
    <3> QED
      BY <3>1, <3>2
  <2>4. ASSUME NEW i \in 1..(Len(a) - Len(r)) PROVE aa[i] <= c
    <3>0. i \in 1..Len(a)
      BY <1>3, <1>t
    <3>1. CASE i \in 1..(Len(a) - Len(h))
      BY <1>6, <1>k, <3>0, <3>1
    <3>2. CASE i \notin 1..(Len(a) - Len(h))
      <4> DEFINE j == i - (Len(a) - Len(h))
      <4>1. j \in 1..d /\ j \in 1..Len(h) /\ i = Len(a) - Len(h) + j
        BY <1>3, <1>k, <1>t, <3>0, <3>2
      <4> HIDE DEF j
      <4>2. h[j] = a[i] /\ h[j] <= c
        BY <1>3, <1>k, <4>1
      <4> QED
        BY <1>6, <3>0, <4>2
    <3> QED
      BY <3>1, <3>2
  <2>5. ASSUME NEW i \in 1..(Len(a) + 1 - Max) PROVE aa[i + Max] - aa[i] >= WindowMs
    <3>0. i \in 1..Len(a) /\ i + Max \in 1..(Len(a) + 1) /\ a[i] \in Nat /\ aa[i] = a[i]
      BY <1>6, <1>t
    <3>1. CASE i + Max = Len(a) + 1
      <4>1. i \in 1..(Len(a) - Len(r))
        BY <1>1, <1>3, <1>t, <3>0, <3>1
      <4>2. aa[i] <= c /\ aa[i + Max] = clock
        BY <1>6, <2>4, <3>1, <4>1
      <4> QED
        BY <1>t, <3>0, <4>2 DEF c
    <3>2. CASE i + Max # Len(a) + 1
      <4>0. i <= Len(a) + 1 - Max /\ i >= 1 /\ i \in Int
        BY <1>t
      <4>n. Len(a) \in Nat /\ Max \in Nat /\ Max > 0
        BY <1>t
      <4>1. i \in 1..Len(a) - Max /\ i + Max \in 1..Len(a)
        BY <4>n, <4>0, <3>2
      <4> QED
        BY <1>6, <1>k, <3>0, <4>1
    <3> QED
      BY <3>1, <3>2
  <2>6. Len(hh) = Len(r) + 1 /\ Len(aa) = Len(a) + 1 /\ Len(hh) <= Len(aa) /\ Len(aa) - Len(hh) = Len(a) - Len(r)
        /\ Len(aa) - Max = Len(a) + 1 - Max
    BY <1>3, <1>5, <1>6, <1>k, <1>t
  <2>7. Ordered(aa)
    BY <1>6, <2>1 DEF Ordered
  <2>8. /\ Ordered(aa) /\ \A i \in 1..Len(aa) : aa[i] <= clock
        /\ Len(hh) <= Len(aa)
        /\ \A i \in 1..Len(hh) : hh[i] = aa[Len(aa) - Len(hh) + i]
        /\ \A i \in 1..(Len(aa) - Len(hh)) : aa[i] <= clock - WindowMs
        /\ \A i \in 1..Len(aa) - Max : aa[i + Max] - aa[i] >= WindowMs
    BY <2>2, <2>3, <2>4, <2>5, <2>6, <2>7 DEF c
  <2>9. KeyInv(k)' <=>
          /\ Ordered(admitted'[k]) /\ \A i \in 1..Len(admitted'[k]) : admitted'[k][i] <= clock'
          /\ Len(hits'[k]) <= Len(admitted'[k])
          /\ \A i \in 1..Len(hits'[k]) : hits'[k][i] = admitted'[k][Len(admitted'[k]) - Len(hits'[k]) + i]
          /\ \A i \in 1..(Len(admitted'[k]) - Len(hits'[k])) : admitted'[k][i] <= clock' - WindowMs
          /\ \A i \in 1..Len(admitted'[k]) - Max : admitted'[k][i + Max] - admitted'[k][i] >= WindowMs
          /\ \A t \in promised'[k] : Len(hits'[k]) > 0 /\ t >= hits'[k][1] + WindowMs
    BY Zenon DEF KeyInv, Ordered
  <2> QED
    BY <2>0, <2>8, <2>9, Zenon
<1>9. ASSUME NEW q \in Keys, q # k PROVE KeyInv(q)'
  <2>1. UNCHANGED <<clock, hits[q], admitted[q], promised[q]>> /\ KeyInv(q)
    BY <1>0, <1>1, <1>9 DEF RateInv
  <2> QED
    BY <2>1, OtherKeyKept
<1> QED
  BY <1>7, <1>8, <1>9, Zenon DEF RateInv
\* A refusal finds the map full of recent times, so nothing in it was forgotten yet.
LEMMA RefuseKeeps ==
    ASSUME Rate!RateAssumption, RateInv, NEW k \in Keys, Rate!Refuse(k)
    PROVE  RateInv'
<1> DEFINE r == Rate!Recent(k)
           h == hits[k]
           t == clock + Rate!RetryAfter(r)
<1>t. /\ clock \in 0..MaxClock /\ WindowMs \in Nat /\ Max \in Nat /\ Max > 0 /\ Second \in Nat /\ MaxClock \in Nat
      /\ h \in Seq(Nat) /\ Len(h) \in Nat /\ Len(h) <= Max /\ DOMAIN h = 1..Len(h)
      /\ \A i \in 1..Len(h) : h[i] \in Nat
  BY RateTyped DEF RateInv, Rate!RateTypeOK
<1>0. /\ hits \in [Keys -> Seq(0..MaxClock)] /\ (\A i \in Keys : Len(hits[i]) <= Max)
      /\ admitted \in [Keys -> Seq(0..MaxClock)]
      /\ promised \in [Keys -> SUBSET (0..MaxClock + WindowMs + Second)]
  BY DEF RateInv, Rate!RateTypeOK
<1>1. /\ Len(r) >= Max /\ hits' = hits /\ admitted' = admitted /\ clock' = clock
      /\ promised' = [promised EXCEPT ![k] = @ \cup {t}]
  BY DEF Rate!Refuse
<1>2. PICK d : TailAfter(r, h, d, clock - WindowMs)
  BY <1>t, RecentIsTail, HitsAreOrdered
<1>3. /\ d \in 0..Len(h) /\ Len(r) = Len(h) - d /\ \A i \in 1..(Len(h) - d) : r[i] = h[d + i]
  BY <1>2 DEF TailAfter
<1>4. h[1] <= clock
  <2>1. Len(h) <= Len(admitted[k]) /\ Len(admitted[k]) \in Nat
    BY RateTyped DEF RateInv, KeyInv
  <2>2. \A i \in 1..Len(h) : h[i] = admitted[k][Len(admitted[k]) - Len(h) + i]
    BY DEF RateInv, KeyInv
  <2>3. \A i \in 1..Len(admitted[k]) : admitted[k][i] <= clock
    BY DEF RateInv, KeyInv
  <2> HIDE DEF h, r
  <2>4. 1 \in 1..Len(h) /\ Len(admitted[k]) - Len(h) + 1 \in 1..Len(admitted[k])
    BY <1>1, <1>3, <1>t, <2>1
  <2> QED
    BY <2>2, <2>3, <2>4
<1> HIDE DEF r, h
<1>5. Len(h) > 0 /\ r[1] = h[1] /\ h[1] \in Nat
  <2>1. d = 0 /\ Len(h) > 0
    BY <1>1, <1>3, <1>t
  <2> QED
    BY <1>3, <1>t, <2>1
<1>6. t \in 0..(MaxClock + WindowMs + Second) /\ t >= h[1] + WindowMs
  <2>1. CASE h[1] + WindowMs - clock < Second
    <3>1. t = clock + Second
      BY <1>5, <2>1 DEF Rate!RetryAfter
    <3> HIDE DEF t
    <3> QED
      BY <1>4, <1>5, <1>t, <2>1, <3>1
  <2>2. CASE ~(h[1] + WindowMs - clock < Second)
    <3>1. t = clock + (h[1] + WindowMs - clock)
      BY <1>5, <2>2 DEF Rate!RetryAfter
    <3> HIDE DEF t
    <3> QED
      BY <1>4, <1>5, <1>t, <2>2, <3>1
  <2> QED
    BY <2>1, <2>2
<1> HIDE DEF t
<1>7. Rate!RateTypeOK'
  <2>1. promised' \in [Keys -> SUBSET (0..MaxClock + WindowMs + Second)]
    BY <1>0, <1>1, <1>6
  <2> QED
    BY <1>0, <1>1, <1>t, <2>1 DEF Rate!RateTypeOK
<1>8. KeyInv(k)'
  <2>1. \A u \in promised'[k] : Len(h) > 0 /\ u >= h[1] + WindowMs
    <3>1. promised'[k] = promised[k] \cup {t}
      BY <1>0, <1>1
    <3>2. \A u \in promised[k] : Len(h) > 0 /\ u >= h[1] + WindowMs
      BY DEF RateInv, KeyInv, h
    <3> QED
      BY <1>5, <1>6, <3>1, <3>2
  <2>2. KeyInv(k)
    BY DEF RateInv
  <2> QED
    BY <1>1, <2>1, <2>2 DEF KeyInv, Ordered, h
<1>9. ASSUME NEW q \in Keys, q # k PROVE KeyInv(q)'
  <2>1. UNCHANGED <<clock, hits[q], admitted[q], promised[q]>> /\ KeyInv(q)
    BY <1>0, <1>1, <1>9 DEF RateInv
  <2> QED
    BY <2>1, OtherKeyKept
<1> QED
  BY <1>7, <1>8, <1>9, Zenon DEF RateInv

LEMMA TickKeeps ==
    ASSUME Rate!RateAssumption, RateInv, Rate!Tick
    PROVE  RateInv'
<1>1. /\ clock \in Nat /\ MaxClock \in Nat /\ WindowMs \in Nat /\ Max \in Nat /\ clock' = clock + 1
      /\ clock < MaxClock /\ UNCHANGED <<hits, admitted, promised>>
  BY RateTyped DEF Rate!Tick, RateInv
<1>2. Rate!RateTypeOK'
  BY <1>1 DEF RateInv, Rate!RateTypeOK
<1>3. ASSUME NEW k \in Keys PROVE KeyInv(k)'
  <2>1. KeyInv(k) /\ Len(hits[k]) \in Nat /\ Len(admitted[k]) \in Nat /\ \A i \in 1..Len(admitted[k]) : admitted[k][i] \in Nat
    BY RateTyped DEF RateInv
  <2>2. \A i \in 1..Len(admitted[k]) : admitted[k][i] <= clock + 1
    BY <1>1, <2>1 DEF KeyInv
  <2>3. \A i \in 1..(Len(admitted[k]) - Len(hits[k])) : admitted[k][i] <= (clock + 1) - WindowMs
    <3>1. \A i \in 1..(Len(admitted[k]) - Len(hits[k])) : i \in 1..Len(admitted[k]) /\ admitted[k][i] <= clock - WindowMs
      BY <2>1 DEF KeyInv
    <3> QED
      BY <1>1, <2>1, <3>1
  <2> QED
    BY <1>1, <2>1, <2>2, <2>3 DEF KeyInv, Ordered
<1> QED
  BY <1>2, <1>3, Zenon DEF RateInv

LEMMA RateInitInv == ASSUME Rate!RateAssumption, Rate!RateInit PROVE RateInv
<1>1. /\ clock = 0 /\ hits = [k \in Keys |-> <<>>] /\ admitted = [k \in Keys |-> <<>>]
      /\ promised = [k \in Keys |-> {}]
  BY DEF Rate!RateInit
<1>2. WindowMs \in Nat /\ Max \in Nat /\ Max > 0 /\ Second \in Nat /\ MaxClock \in Nat
  BY DEF Rate!RateAssumption
<1>3. <<>> \in Seq(0..MaxClock) /\ Len(<<>>) = 0
  OBVIOUS
<1>4. Rate!RateTypeOK
  BY <1>1, <1>2, <1>3 DEF Rate!RateTypeOK
<1>5. ASSUME NEW k \in Keys PROVE KeyInv(k)
  <2>1. hits[k] = <<>> /\ admitted[k] = <<>> /\ promised[k] = {}
    BY <1>1
  <2> QED
    BY <1>2, <1>3, <2>1 DEF KeyInv, Ordered
<1> QED
  BY <1>4, <1>5 DEF RateInv

LEMMA RateStepInv ==
    ASSUME Rate!RateAssumption, RateInv, Rate!RateNext \/ UNCHANGED limits
    PROVE  RateInv'
<1>1. CASE Rate!Tick
  BY <1>1, TickKeeps
<1>2. ASSUME NEW k \in Keys, Rate!Admit(k) PROVE RateInv'
  BY <1>2, AdmitKeeps
<1>3. ASSUME NEW k \in Keys, Rate!Refuse(k) PROVE RateInv'
  BY <1>3, RefuseKeeps
<1>4. CASE UNCHANGED limits
  <2>1. UNCHANGED <<clock, hits, admitted, promised>>
    BY <1>4 DEF limits
  <2>2. Rate!RateTypeOK'
    BY <2>1 DEF RateInv, Rate!RateTypeOK
  <2>3. \A k \in Keys : KeyInv(k)'
    BY <2>1, OtherKeyKept DEF RateInv
  <2> QED
    BY <2>2, <2>3, Zenon DEF RateInv
<1> QED
  BY <1>1, <1>2, <1>3, <1>4 DEF Rate!RateNext

LEMMA RateInvKeeps == ASSUME Rate!RateAssumption, RateInv PROVE RateIsKept
<1>1. Rate!WithinRate
  BY DEF RateInv, KeyInv, Rate!WithinRate
<1>2. ASSUME NEW k \in Keys, NEW t \in promised[k], clock >= t
      PROVE  Len(Rate!Recent(k)) < Max
  <2> DEFINE r == Rate!Recent(k)
             h == hits[k]
  <2>1. /\ clock \in Nat /\ WindowMs \in Nat /\ Max \in Nat /\ h \in Seq(Nat) /\ Len(h) \in Nat
        /\ Len(h) <= Max /\ t \in Nat /\ \A i \in 1..Len(h) : h[i] \in Nat
    BY RateTyped DEF RateInv
  <2>2. Len(h) > 0 /\ t >= h[1] + WindowMs
    BY DEF RateInv, KeyInv
  <2>3. PICK d : TailAfter(r, h, d, clock - WindowMs)
    BY <2>1, RecentIsTail, HitsAreOrdered
  <2>4. d \in 0..Len(h) /\ Len(r) = Len(h) - d /\ \A i \in (d + 1)..Len(h) : h[i] > clock - WindowMs
    BY <2>3 DEF TailAfter
  <2> HIDE DEF r, h
  <2>5. 1 \in 1..Len(h) /\ h[1] \in Nat /\ h[1] <= clock - WindowMs
    BY <1>2, <2>1, <2>2
  <2>6. d # 0
    <3>1. SUFFICES ASSUME d = 0 PROVE FALSE
      OBVIOUS
    <3>2. h[1] > clock - WindowMs
      BY <2>4, <2>5, <3>1
    <3> QED
      BY <2>1, <2>5, <3>2
  <2>7. Len(r) < Max
    BY <2>1, <2>4, <2>6
  <2> QED
    BY <2>7 DEF r
<1> QED
  BY <1>1, <1>2 DEF RateIsKept, Rate!RateIsKept, Rate!ComeBackInTime
-----------------------------------------------------------------------------
LEMMA RateInvariance == GatewaySpec => []RateInv
<1>1. GatewayInit => RateInv
  BY GatewayAssumption, RateInitInv DEF GatewayInit
<1>2. RateInv /\ [GatewayNext]_<<desk, vars, accVars, limits>> => RateInv'
  BY GatewayAssumption, RateStepInv DEF GatewayNext
<1> QED
  BY <1>1, <1>2, PTL DEF GatewaySpec

\* However requests are spread, no window lets more than the limit through, and who comes back
\* when a refusal told it to finds room, unless others were let through in between.
THEOREM RateIsKeptAlways == GatewaySpec => []RateIsKept
<1>1. RateInv => RateIsKept
  BY GatewayAssumption, RateInvKeeps
<1> QED
  BY <1>1, RateInvariance, PTL

\* The tables, records and stages of the three parts keep their shape.
THEOREM GatewayTypeCorrect == GatewaySpec => []GatewayTypeOK
<1>1. Inv => TypeOK
  BY DEF Inv
<1>2. AccInv => AccTypeOK
  BY DEF AccInv
<1>3. RateInv => Rate!RateTypeOK
  BY DEF RateInv
<1>4. TypeOK /\ AccTypeOK /\ Rate!RateTypeOK => GatewayTypeOK
  BY DEF GatewayTypeOK
<1> QED
  BY <1>1, <1>2, <1>3, <1>4, Invariance, GatewayImplementsIdempotency, AccInvariance, RateInvariance, PTL
=============================================================================
