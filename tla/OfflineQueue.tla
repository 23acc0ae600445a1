---------------------------- MODULE OfflineQueue ----------------------------
(***************************************************************************)
(* The offline mutation queue of the PWA: class OfflineQueue over          *)
(* localStorage, one long-lived instance of it (the page) that enqueues,   *)
(* flushes, drops and clears, and PhotoCapture, which makes a new instance *)
(* for every photo it has to queue, so that it reads and writes the stored *)
(* list behind the page's back.                                            *)
(*                                                                         *)
(* JavaScript runs one callback at a time: only the await of fetch lets    *)
(* anything in between.  flush iterates over the array this.items; enqueue *)
(* pushes onto that same array, drop, clear and the end of a flush put a   *)
(* new array in its place, and a running flush goes on over the old one.   *)
(***************************************************************************)
EXTENDS Integers, Sequences, FiniteSets

CONSTANTS
    Items,        \* mutations that may be queued
    Flushes,      \* calls of flush that may be under way at once
    MaxAttempts,  \* maxAttempts of a mutation (5 unless the caller says otherwise)
    MaxReloads    \* bound on the reloads of the page

ASSUME QueueAssumption == MaxAttempts \in Nat \ {0} /\ MaxReloads \in Nat

VARIABLES
    items,      \* this.items of the page's instance
    attempts,   \* attempts of each mutation, as that instance has them
    stored,     \* the list in localStorage: ids and their attempts
    active,     \* calls of flush under way
    own,        \* own[f]: f iterates over an array that is no longer this.items
    iter,       \* that array
    pos,        \* index of the mutation whose fetch f awaits
    remaining,  \* what f will put in the place of this.items
    accepted,   \* how often the server carried a mutation out (2: twice or more)
    settled,    \* mutations a flush put into sent or conflicted
    dropped,    \* mutations that were dropped or cleared
    known,      \* history: mutations the page's instance has held
    reloads,    \* reloads so far
    overlapped, \* history: two flushes were under way at once
    overtaken,  \* history: a flush ended on an array that had been replaced
    unsaved,    \* history: a setItem failed
    blind       \* history: a response was lost, or a reload cut a flush short

flushing == <<active, own, iter, pos, remaining>>
server   == <<accepted, settled>>
history  == <<dropped, known, overlapped, overtaken, unsaved, blind>>
vars     == <<items, attempts, stored, flushing, server, reloads, history>>

Ids(s) == {s[k] : k \in DOMAIN s}

TypeOK ==
    /\ items \in Seq(Items) /\ attempts \in [Items -> Nat]
    /\ stored.ids \in Seq(Items) /\ stored.attempts \in [Items -> Nat]
    /\ active \subseteq Flushes /\ own \in [Flushes -> BOOLEAN]
    /\ iter \in [Flushes -> Seq(Items)] /\ remaining \in [Flushes -> Seq(Items)]
    /\ pos \in [Flushes -> Nat]
    /\ accepted \in [Items -> 0..2] /\ settled \subseteq Items
    /\ dropped \subseteq Items /\ known \subseteq Items /\ reloads \in 0..MaxReloads
    /\ overlapped \in BOOLEAN /\ overtaken \in BOOLEAN /\ unsaved \in BOOLEAN /\ blind \in BOOLEAN

Init ==
    /\ items = <<>> /\ attempts = [i \in Items |-> 0]
    /\ stored = [ids |-> <<>>, attempts |-> attempts]
    /\ active = {} /\ own = [f \in Flushes |-> FALSE]
    /\ iter = [f \in Flushes |-> <<>>] /\ remaining = [f \in Flushes |-> <<>>]
    /\ pos = [f \in Flushes |-> 0]
    /\ accepted = [i \in Items |-> 0] /\ settled = {}
    /\ dropped = {} /\ known = {} /\ reloads = 0
    /\ overlapped = FALSE /\ overtaken = FALSE /\ unsaved = FALSE /\ blind = FALSE

-----------------------------------------------------------------------------
\* persist() swallows a full or unavailable storage and keeps the list in memory.
Persist(ids, tries) ==
    \/ stored' = [ids |-> ids, attempts |-> tries] /\ UNCHANGED unsaved
    \/ unsaved' = TRUE /\ UNCHANGED stored

Array(f) == IF own[f] THEN iter[f] ELSE items

\* this.items = s, at a moment when the flushes in F go on.
ReplaceItems(s, F) ==
    /\ items' = s
    /\ own' = [f \in Flushes |-> f \in F]
    /\ iter' = [f \in Flushes |-> IF f \in F THEN Array(f) ELSE <<>>]

NeverQueued(i) ==
    i \notin known \cup settled \cup dropped \cup Ids(stored.ids)

Enqueue(i) ==
    /\ NeverQueued(i)
    /\ items' = Append(items, i)
    /\ known' = known \cup {i}
    /\ Persist(items', attempts)
    /\ UNCHANGED <<attempts, flushing, server, reloads, dropped, overlapped, overtaken, blind>>

Mutant_CaptureAlone(i) ==
    /\ NeverQueued(i)
    /\ Persist(<<i>>, attempts)
    /\ UNCHANGED <<items, attempts, flushing, server, reloads, dropped, known, overlapped,
                   overtaken, blind>>
\* new OfflineQueue(localStorage).enqueue(...)
Capture(i) ==
    /\ NeverQueued(i)
    /\ Persist(Append(stored.ids, i), stored.attempts)
    /\ UNCHANGED <<items, attempts, flushing, server, reloads, dropped, known, overlapped,
                   overtaken, blind>>

\* this.items.filter((item) => item.id !== id)
Without(s, i) ==
    LET kept[k \in 0..Len(s)] ==
            IF k = 0 THEN <<>> ELSE IF s[k] = i THEN kept[k - 1] ELSE Append(kept[k - 1], s[k])
    IN  kept[Len(s)]

Drop(i) ==
    /\ i \in Ids(items)
    /\ ReplaceItems(Without(items, i), active)
    /\ Persist(items', attempts)
    /\ dropped' = dropped \cup {i}
    /\ UNCHANGED <<attempts, active, pos, remaining, server, reloads, known, overlapped,
                   overtaken, blind>>

Clear ==
    /\ items # <<>>
    /\ ReplaceItems(<<>>, active)
    /\ Persist(<<>>, attempts)
    /\ dropped' = dropped \cup Ids(items) \cup Ids(stored.ids)
    /\ UNCHANGED <<attempts, active, pos, remaining, server, reloads, known, overlapped,
                   overtaken, blind>>

-----------------------------------------------------------------------------
(***************************************************************************)
(* flush                                                                   *)
(***************************************************************************)

\* The loop is over: what it kept becomes the queue, in memory and in storage.
Finish(f, rest, tries) ==
    /\ active' = active \ {f}
    /\ pos' = [pos EXCEPT ![f] = 0]
    /\ remaining' = [remaining EXCEPT ![f] = <<>>]
    /\ ReplaceItems(rest, active')
    /\ Persist(rest, tries)
    /\ overtaken' = (overtaken \/ own[f])

\* The loop has reached index k of array s with the attempts tries and the list
\* rest: it goes on to the next mutation with an attempt left and awaits its
\* fetch, or, when there is none, makes rest the queue.
Loop(f, s, k, tries, rest, done) ==
    LET open == {j \in k..Len(s) : tries[s[j]] < MaxAttempts}
        next == CHOOSE j \in open : \A l \in open : j <= l
    IN  /\ attempts' = tries
        /\ \/ /\ open # {}
              /\ settled' = settled \cup done \cup {s[j] : j \in k..next - 1}
              /\ active' = active \cup {f}
              /\ pos' = [pos EXCEPT ![f] = next]
              /\ remaining' = [remaining EXCEPT ![f] = rest]
              /\ UNCHANGED <<items, own, iter, stored, unsaved, overtaken>>
           \/ /\ open = {}
              /\ settled' = settled \cup done \cup {s[j] : j \in k..Len(s)}
              /\ Finish(f, rest, tries)

StartFlush(f) ==
    /\ f \notin active
    /\ Loop(f, items, 1, attempts, <<>>, {})
    /\ overlapped' = (overlapped \/ active # {})
    /\ UNCHANGED <<accepted, reloads, dropped, known, blind>>

Twice(n) == IF n = 0 THEN 1 ELSE 2

\* fetch resolves: 2xx is sent, 409 is conflicted (server wins).
Answered(f, ok) ==
    LET s == Array(f)
        i == s[pos[f]]
    IN  /\ f \in active
        /\ accepted' = IF ok THEN [accepted EXCEPT ![i] = Twice(@)] ELSE accepted
        /\ Loop(f, s, pos[f] + 1, attempts, remaining[f], {i})
        /\ UNCHANGED <<reloads, dropped, known, overlapped, blind>>

Mutant_FailedAlwaysRetries(f, done) ==
    LET s == Array(f)
        i == s[pos[f]]
        tries == [attempts EXCEPT ![i] = @ + 1]
    IN  /\ f \in active
        /\ accepted' = IF done THEN [accepted EXCEPT ![i] = Twice(@)] ELSE accepted
        /\ blind' = (blind \/ done)
        /\ Loop(f, s, pos[f] + 1, tries, Append(remaining[f], i), {})
        /\ UNCHANGED <<reloads, dropped, known, overlapped>>
Mutant_FailedCountsDown(f, done) ==
    LET s == Array(f)
        i == s[pos[f]]
        tries == [attempts EXCEPT ![i] = @ - 1]
    IN  /\ f \in active
        /\ accepted' = IF done THEN [accepted EXCEPT ![i] = Twice(@)] ELSE accepted
        /\ blind' = (blind \/ done)
        /\ Loop(f, s, pos[f] + 1, tries, Append(remaining[f], i), {})
        /\ UNCHANGED <<reloads, dropped, known, overlapped>>
\* Another status, or fetch rejects, when the server may have done its part:
\* one attempt less, and after the last one the mutation is given up.
Failed(f, done) ==
    LET s == Array(f)
        i == s[pos[f]]
        tries == [attempts EXCEPT ![i] = @ + 1]
        over == tries[i] >= MaxAttempts
    IN  /\ f \in active
        /\ accepted' = IF done THEN [accepted EXCEPT ![i] = Twice(@)] ELSE accepted
        /\ blind' = (blind \/ done)
        /\ Loop(f, s, pos[f] + 1, tries, IF over THEN remaining[f] ELSE Append(remaining[f], i),
                IF over THEN {i} ELSE {})
        /\ UNCHANGED <<reloads, dropped, known, overlapped>>

\* The page is reloaded: load() reads the stored list; of the requests that
\* were under way some reached the server.
Reload ==
    /\ reloads < MaxReloads /\ reloads' = reloads + 1
    /\ items' = stored.ids /\ attempts' = stored.attempts
    /\ active' = {} /\ own' = [f \in Flushes |-> FALSE]
    /\ iter' = [f \in Flushes |-> <<>>] /\ remaining' = iter' /\ pos' = [f \in Flushes |-> 0]
    /\ \E F \in SUBSET active :
          LET reached == {Array(f)[pos[f]] : f \in F}
          IN  accepted' = [i \in Items |-> IF i \in reached THEN Twice(accepted[i]) ELSE accepted[i]]
    /\ known' = known \cup Ids(stored.ids)
    /\ blind' = (blind \/ active # {})
    /\ UNCHANGED <<stored, settled, dropped, overlapped, overtaken, unsaved>>

Next ==
    \/ \E i \in Items : Enqueue(i) \/ Capture(i) \/ Drop(i)
    \/ Clear \/ Reload
    \/ \E f \in Flushes :
          \/ StartFlush(f)
          \/ \E b \in BOOLEAN : Answered(f, b) \/ Failed(f, b)

Spec == Init /\ [][Next]_vars

\* What the application itself does with the queue: App counts it, PhotoCapture
\* adds to it, the page is reloaded.  No component calls flush.
AppNext == Reload \/ \E i \in Items : Capture(i)

AppSpec == Init /\ [][AppNext]_vars /\ WF_vars(AppNext)

-----------------------------------------------------------------------------
\* What a running flush still has to send or to put back.
Held(f) == Ids(remaining[f]) \cup {Array(f)[k] : k \in pos[f]..Len(Array(f))}

Queued == Ids(items) \cup Ids(stored.ids) \cup UNION {Held(f) : f \in active}

\* A mutation the page has queued leaves the queue by being sent, reported as a
\* conflict or dropped, over any flushes and reloads; it can vanish only when
\* localStorage fails or a flush ends on an array that was replaced under it.
NothingVanishes ==
    ~unsaved /\ ~overtaken => known \subseteq Queued \cup settled \cup dropped

\* What was dropped or cleared stays out of the queue, under the same proviso.
DroppedStaysOut ==
    ~unsaved /\ ~overtaken /\ active = {} =>
        (dropped \ settled) \cap (Ids(items) \cup Ids(stored.ids)) = {}

\* No mutation is tried more often than maxAttempts unless two flushes overlap,
\* and none that is used up stays in the queue unless a reload cut a flush
\* short or the list could not be saved.
AttemptsBounded ==
    ~overlapped =>
        \A i \in Items :
            /\ attempts[i] <= MaxAttempts
            /\ ~blind /\ ~unsaved /\ i \in Ids(items) /\ active = {} => attempts[i] < MaxAttempts

\* The server carries a mutation out once, unless a response was lost, a reload
\* cut a flush short, two flushes overlap or the list could not be saved.
SentOnce ==
    ~blind /\ ~overlapped /\ ~overtaken /\ ~unsaved => \A i \in Items : accepted[i] <= 1

\* The queue holds what was queued and not yet dealt with: nothing gets lost, and what was
\* dropped does not come back, as long as the list is saved and no flush is overtaken.
QueueIsExact == NothingVanishes /\ DroppedStaysOut

\* The server is not bothered more often than it has to be.
SendingIsBounded == AttemptsBounded /\ SentOnce

-----------------------------------------------------------------------------
\* What App tells the user who is offline: changes are queued and synchronized
\* when the network comes back.
QueuedIsSent == \A i \in Items : i \in Ids(stored.ids) ~> i \notin Ids(stored.ids)
=============================================================================
