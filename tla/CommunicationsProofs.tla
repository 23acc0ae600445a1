------------------------ MODULE CommunicationsProofs ------------------------
(***************************************************************************)
(* What the communications and their outbox guarantee for any users,       *)
(* consumers, events and windows.                                          *)
(*                                                                         *)
(* Of the outbox: a consumer holds places of events that exist, what it is *)
(* about to mark as processed it has delivered, and so has whoever marked  *)
(* an event that is processed.  With it every step of the outbox is a step *)
(* of the abstract queue.  Of a communication: what was written for        *)
(* somebody is as much as they are listed up to the place of the handler.  *)
(***************************************************************************)
EXTENDS Communications, FiniteSetTheorems, WellFoundedInduction, TLAPS

Event == [tag : Sendings \X Addresses, processed : BOOLEAN, attempts : 0..Most]

OutboxInv ==
    /\ \A c \in Consumers :
          /\ batch[c] \subseteq DOMAIN events
          /\ step[c] # "list" => batch[c] # {}
          /\ step[c] \in {"mark", "done"} => Min(batch[c]) \in sent
    /\ sent \subseteq DOMAIN events \ Poison
    /\ \A i \in DOMAIN events : events[i].processed => i \in sent

\* The first n entries of a list that name x; those the handler of m is done with.
Entries(list, n, x) == {i \in 1..n : list[i] = x}
Dealt(m, x) == Entries(ListOf(m), place[m], x)

Listed(m) ==
    /\ at[m] = "new" => record[m].channel = "none" /\ place[m] = 0
    /\ at[m] # "new" => record[m].channel \in Channels
    /\ place[m] <= Len(ListOf(m))
    /\ at[m] = "notify" => IsDue(m, "IN_APP")
    /\ at[m] = "answered" => place[m] = Len(ListOf(m))

UserServed(m, u) ==
    /\ notifications[m][u] + skipped[m][u] =
           IF record[m].channel = "IN_APP" THEN Cardinality(Dealt(m, u)) ELSE 0
    /\ <<m, u>> \in wanted => skipped[m][u] = 0

AddressServed(m, a) ==
    /\ IsFiniteSet(EventsOf(m, a))
    /\ Cardinality(EventsOf(m, a)) =
           IF record[m].channel = "EMAIL" THEN Cardinality(Dealt(m, a)) ELSE 0

CommsInv ==
    /\ \A w \in wanted : w \in Sendings \X Users /\ enabled[w[2]]
    /\ \A m \in Sendings :
           /\ Listed(m)
           /\ \A u \in Users : UserServed(m, u)
           /\ \A a \in Addresses : AddressServed(m, a)

Inv == TypeOK /\ OutboxInv /\ CommsInv

-----------------------------------------------------------------------------
(***************************************************************************)
(* The oldest of some events, the lists of recipients and their entries.   *)
(***************************************************************************)
LEMMA LeastOf == ASSUME NEW S, S \subseteq Nat, S # {} PROVE Min(S) \in S /\ \A y \in S : Min(S) <= y
<1> DEFINE R == {p \in Nat \X Nat : p[1] < p[2]}
<1>0. IsWellFoundedOn(R, Nat)
  BY NatLessThanWellFounded, Zenon DEF OpToRel
<1>1. \E x \in S : \A y \in S : ~ (<<y, x>> \in R)
  <2> HIDE DEF R
  <2> QED
    BY <1>0, WFMin
<1>2. \E x \in S : \A y \in S : x <= y
  <2>1. \A x, y \in S : <<y, x>> \in R <=> y < x
    OBVIOUS
  <2> HIDE DEF R
  <2>2. PICK x \in S : \A y \in S : ~ (<<y, x>> \in R)
    BY <1>1
  <2>3. \A y \in S : ~(y < x) /\ x \in Nat /\ y \in Nat
    BY <2>1, <2>2
  <2> QED
    BY <2>3
<1> QED
  BY <1>2 DEF Min

\* There is a first one to list whenever something is pending.
LEMMA SomeArePending ==
    ASSUME NEW limit \in Nat \ {0}, Pending # {}, Len(events) \in Nat, DOMAIN events = 1..Len(events)
    PROVE  PendingOutbox(limit) # {}
<1>1. Pending \subseteq Nat
  BY DEF Pending
<1>2. Min(Pending) \in Pending /\ \A y \in Pending : Min(Pending) <= y
  BY <1>1, LeastOf
<1>3. {j \in Pending : j < Min(Pending)} = {}
  <2> DEFINE k == Min(Pending)
  <2>1. k \in Nat /\ \A y \in Pending : y \in Nat /\ k <= y
    BY <1>1, <1>2
  <2> HIDE DEF k
  <2>2. \A y \in Pending : ~(y < k)
    BY <2>1
  <2> QED
    BY <2>2 DEF k
<1>4. Cardinality({j \in Pending : j < Min(Pending)}) = 0
  BY <1>3, FS_EmptySet
<1> QED
  BY <1>2, <1>4 DEF PendingOutbox

Ats == {"new", "next", "notify", "answered", "stopped"}

CommsTyped ==
    /\ enabled \in [Users -> BOOLEAN] /\ changes \in 0..MaxChanges
    /\ record \in [Sendings -> [channel : {"none"} \cup Channels, to : {Nobody} \cup Recipients]]
    /\ notifications \in [Sendings -> [Users -> Nat]] /\ skipped \in [Sendings -> [Users -> Nat]]
    /\ place \in [Sendings -> Nat]
    /\ at \in [Sendings -> Ats]

LEMMA ListIs ==
    ASSUME CommsTyped, NEW m \in Sendings
    PROVE  /\ record[m].to.users \in Seq(Users) /\ record[m].to.emails \in Seq(Addresses)
           /\ Len(ListOf(m)) \in Nat /\ DOMAIN ListOf(m) = 1..Len(ListOf(m))
           /\ IsDue(m, "IN_APP") => Due(m) \in Users
           /\ IsDue(m, "EMAIL") => Due(m) \in Addresses
<1>1. record[m].to \in {Nobody} \cup Recipients /\ place[m] \in Nat
  BY DEF CommsTyped
<1>2. ASSUME record[m].to = Nobody
      PROVE  record[m].to.users \in Seq(Users) /\ record[m].to.emails \in Seq(Addresses)
  <2>1. record[m].to.users = <<>> /\ record[m].to.emails = <<>>
    BY <1>2 DEF Nobody
  <2>2. <<>> \in Seq(Users) /\ <<>> \in Seq(Addresses)
    OBVIOUS
  <2> QED
    BY <2>1, <2>2, Zenon
<1>3. record[m].to.users \in Seq(Users) /\ record[m].to.emails \in Seq(Addresses)
  BY <1>1, <1>2, UsersAssumption
<1>4. ASSUME NEW S, NEW list \in Seq(S), place[m] < Len(list) PROVE list[place[m] + 1] \in S
  BY <1>1, <1>4
<1> QED
  BY <1>3, <1>4 DEF ListOf, IsDue, Due

\* One more entry counts for whom it names.
LEMMA OneMore ==
    ASSUME NEW list, NEW n \in Nat, NEW x
    PROVE  /\ IsFiniteSet(Entries(list, n, x)) /\ Cardinality(Entries(list, n, x)) \in Nat
           /\ Cardinality(Entries(list, n + 1, x)) =
                  Cardinality(Entries(list, n, x)) + (IF list[n + 1] = x THEN 1 ELSE 0)
<1> DEFINE few == Entries(list, n, x)  more == Entries(list, n + 1, x)
<1>1. IsFiniteSet(few) /\ Cardinality(few) \in Nat
  <2>1. IsFiniteSet(1..n) /\ few \subseteq 1..n
    BY FS_Interval DEF Entries
  <2> QED
    BY <2>1, FS_Subset, FS_CardinalityType
<1>2. more = IF list[n + 1] = x THEN few \cup {n + 1} ELSE few
  <2>1. \A i : i \in 1..(n + 1) <=> i \in 1..n \/ i = n + 1
    OBVIOUS
  <2> QED
    BY <2>1 DEF Entries
<1>3. n + 1 \notin few
  BY DEF Entries
<1> HIDE DEF few, more
<1>4. n + 1 \notin few => Cardinality(few \cup {n + 1}) = Cardinality(few) + 1
  BY <1>1, FS_AddElement
<1>5. Cardinality(more) = Cardinality(few) + (IF list[n + 1] = x THEN 1 ELSE 0)
  BY <1>1, <1>2, <1>3, <1>4
<1> QED
  BY <1>1, <1>5 DEF few, more

LEMMA EntryOf == ASSUME NEW S, NEW q \in Seq(S), NEW i \in DOMAIN q PROVE q[i] \in S /\ i \in Nat
OBVIOUS

-----------------------------------------------------------------------------
(***************************************************************************)
(* The outbox.                                                             *)
(***************************************************************************)
LEMMA InitInv == Init => Inv
<1> SUFFICES ASSUME Init
             PROVE  Inv
  OBVIOUS
<1> USE OutboxAssumption, UsersAssumption
<1>1. events = <<>> /\ DOMAIN events = {} /\ events \in Seq(Event) /\ Len(events) = 0
  BY DEF Init, OutboxInit
<1>2. TypeOK
  BY <1>1 DEF Init, OutboxInit, TypeOK, OutboxTypeOK, Event
<1>3. OutboxInv
  BY <1>1 DEF Init, OutboxInit, OutboxInv
<1>4. CommsInv
  <2>0. /\ wanted = {} /\ notifications = [m \in Sendings |-> [u \in Users |-> 0]] /\ skipped = notifications
        /\ \A m \in Sendings : at[m] = "new" /\ place[m] = 0 /\ record[m] = [channel |-> "none", to |-> Nobody]
    BY DEF Init
  <2>1. \A m \in Sendings : Listed(m)
    BY <2>0 DEF Listed, ListOf, Nobody
  <2>2. \A m \in Sendings, u \in Users : UserServed(m, u)
    BY <2>0 DEF UserServed
  <2>3. ASSUME NEW m \in Sendings, NEW a \in Addresses PROVE AddressServed(m, a)
    <3>1. EventsOf(m, a) = {}
      BY <1>1 DEF EventsOf
    <3> QED
      BY <2>0, <3>1, FS_EmptySet DEF AddressServed
  <2> QED
    BY <2>0, <2>1, <2>2, <2>3 DEF CommsInv
<1> QED
  BY <1>2, <1>3, <1>4 DEF Inv

\* What the steps do to the rows: they add one event to be sent, or change one that is on file
\* without its tag.
LEMMA EventsStep ==
    ASSUME TypeOK, OutboxInv, Next
    PROVE  \/ UNCHANGED events
           \/ \E m \in Sendings : QueueEmail(m)
           \/ \E c \in Consumers : MarkOutboxProcessed(c)
<1>1. ASSUME Send PROVE UNCHANGED events \/ \E m \in Sendings : QueueEmail(m)
  BY <1>1, Zenon DEF Send, SendCommunication, IsChannelEnabled, CreateNotification, AnswerSending, AbortSending, outboxVars
<1>2. ASSUME NEW u \in Users, SetPreference(u) PROVE UNCHANGED events
  BY <1>2 DEF SetPreference, outboxVars
<1>3. ASSUME OutboxNext PROVE UNCHANGED events \/ \E c \in Consumers : MarkOutboxProcessed(c)
  BY <1>3, Zenon DEF OutboxNext, Consume, Poll, Delivered, NotDelivered, FindPending, Stop
<1> QED
  BY <1>1, <1>2, <1>3 DEF Next

LEMMA Queued ==
    ASSUME TypeOK, NEW m \in Sendings, QueueEmail(m)
    PROVE  /\ events \in Seq(Event) /\ events' \in Seq(Event) /\ Len(events') = Len(events) + 1
           /\ DOMAIN events = 1..Len(events) /\ DOMAIN events' = 1..(Len(events) + 1) /\ Len(events) \in Nat
           /\ \A i \in DOMAIN events : events'[i] = events[i]
           /\ events'[Len(events) + 1] = [tag |-> <<m, Due(m)>>, processed |-> FALSE, attempts |-> 0]
           /\ Due(m) \in Addresses /\ Len(events') <= MaxEvents
<1> DEFINE e == [tag |-> <<m, Due(m)>>, processed |-> FALSE, attempts |-> 0]
<1>1. events \in Seq(Event) /\ Len(events) < MaxEvents /\ events' = Append(events, e)
  BY DEF TypeOK, OutboxTypeOK, Event, QueueEmail, EnqueueOutbox
<1>2. CommsTyped /\ IsDue(m, "EMAIL")
  BY DEF TypeOK, CommsTyped, Ats, QueueEmail
<1>3. Due(m) \in Addresses
  BY <1>2, ListIs
<1>4. e \in Event
  BY <1>3 DEF Event, Most
<1> HIDE DEF e, Event
<1>5. events' \in Seq(Event) /\ Len(events') = Len(events) + 1
  BY <1>1, <1>4
<1>6. /\ DOMAIN events = 1..Len(events) /\ DOMAIN events' = 1..(Len(events) + 1) /\ Len(events) \in Nat
      /\ \A i \in DOMAIN events : events'[i] = events[i]
      /\ events'[Len(events) + 1] = e
  BY <1>1, <1>4
<1>7. MaxEvents \in Nat
  BY OutboxAssumption
<1> QED
  BY <1>1, <1>3, <1>5, <1>6, <1>7 DEF e

LEMMA Marked ==
    ASSUME TypeOK, OutboxInv, NEW c \in Consumers, MarkOutboxProcessed(c)
    PROVE  /\ Min(batch[c]) \in DOMAIN events
           /\ events' \in Seq(Event) /\ DOMAIN events' = DOMAIN events /\ Len(events') = Len(events)
           /\ \A i \in DOMAIN events :
                 /\ events'[i].tag = events[i].tag
                 /\ i # Min(batch[c]) => events'[i] = events[i]
           /\ step[c] = "failed" => \A i \in DOMAIN events : events'[i].processed = events[i].processed
           /\ step[c] = "done" => events'[Min(batch[c])].processed
<1> DEFINE i == Min(batch[c])
<1>1. events \in Seq(Event) /\ DOMAIN events = 1..Len(events) /\ Len(events) \in Nat
  BY DEF TypeOK, OutboxTypeOK, Event
<1>2. i \in batch[c] /\ i \in DOMAIN events
  <2>1. batch[c] \subseteq DOMAIN events /\ batch[c] # {}
    BY DEF OutboxInv, MarkOutboxProcessed
  <2> QED
    BY <1>1, <2>1, LeastOf
<1>3. events[i] \in Event
  <2> HIDE DEF Event, i
  <2> QED
    BY <1>1, <1>2, EntryOf
<1>4. events' = IF step[c] = "done" THEN [events EXCEPT ![i].processed = TRUE]
                ELSE [events EXCEPT ![i].attempts = IF @ = Most THEN Most ELSE @ + 1]
  BY DEF MarkOutboxProcessed
<1> HIDE DEF i
<1>5. ASSUME NEW e, e \in Event PROVE [events EXCEPT ![i] = e] \in Seq(Event)
  <2> HIDE DEF Event
  <2> QED
    BY <1>1, <1>2, <1>5
<1>6. CASE step[c] = "done"
  <2> DEFINE e == [events[i] EXCEPT !.processed = TRUE]
  <2>1. events' = [events EXCEPT ![i] = e]
    BY <1>4, <1>6
  <2>2. e \in Event /\ e.processed /\ e.tag = events[i].tag
    BY <1>3 DEF Event
  <2> HIDE DEF e
  <2>3. events' \in Seq(Event)
    BY <1>5, <2>1, <2>2
  <2>4. DOMAIN events' = DOMAIN events /\ Len(events') = Len(events)
    BY <1>1, <2>1
  <2> QED
    BY <1>1, <1>2, <1>6, <2>1, <2>2, <2>3, <2>4 DEF i
<1>7. CASE step[c] # "done"
  <2> DEFINE e == [events[i] EXCEPT !.attempts = IF @ = Most THEN Most ELSE @ + 1]
  <2>1. events' = [events EXCEPT ![i] = e]
    BY <1>4, <1>7
  <2>2. e \in Event /\ e.processed = events[i].processed /\ e.tag = events[i].tag
    BY <1>3 DEF Event, Most
  <2> HIDE DEF e
  <2>3. events' \in Seq(Event)
    BY <1>5, <2>1, <2>2
  <2>4. DOMAIN events' = DOMAIN events /\ Len(events') = Len(events)
    BY <1>1, <2>1
  <2> QED
    BY <1>1, <1>2, <1>7, <2>1, <2>2, <2>3, <2>4 DEF i
<1> QED
  BY <1>6, <1>7

LEMMA GoneOn ==
    ASSUME TypeOK, OutboxInv, NEW c \in Consumers, GoOn(c)
    PROVE  /\ batch' \in [Consumers -> SUBSET (1..MaxEvents)]
           /\ step' \in [Consumers -> {"list", "deliver", "mark", "fail", "done", "failed"}]
           /\ \A d \in Consumers : batch'[d] \subseteq batch[d]
           /\ \A d \in Consumers \ {c} : batch'[d] = batch[d] /\ step'[d] = step[d]
           /\ step'[c] \in {"list", "deliver"}
           /\ batch[c] # {} /\ step'[c] # "list" => batch'[c] # {}
<1>1. /\ batch \in [Consumers -> SUBSET (1..MaxEvents)]
      /\ step \in [Consumers -> {"list", "deliver", "mark", "fail", "done", "failed"}]
  BY DEF TypeOK, OutboxTypeOK
<1>2. batch'[c] = batch[c] \ {Min(batch[c])}
      /\ step'[c] = IF batch[c] = {Min(batch[c])} THEN "list" ELSE "deliver"
  BY <1>1 DEF GoOn
<1>3. /\ batch' \in [Consumers -> SUBSET (1..MaxEvents)]
      /\ step' \in [Consumers -> {"list", "deliver", "mark", "fail", "done", "failed"}]
  BY <1>1 DEF GoOn
<1>4. \A d \in Consumers \ {c} : batch'[d] = batch[d] /\ step'[d] = step[d]
  BY <1>1 DEF GoOn
<1>5. batch[c] # {} /\ step'[c] # "list" => batch'[c] # {}
  BY <1>2
<1>6. step'[c] \in {"list", "deliver"}
  BY <1>2
<1> QED
  BY <1>2, <1>3, <1>4, <1>5, <1>6

LEMMA OutboxTypeStep == ASSUME Inv, Next PROVE OutboxTypeOK(Sendings \X Addresses)'
<1> USE DEF Inv
<1> DEFINE Steps == {"list", "deliver", "mark", "fail", "done", "failed"}
           Kept == /\ sent' \subseteq 1..MaxEvents /\ stops' \in 0..MaxStops
                   /\ batch' \in [Consumers -> SUBSET (1..MaxEvents)]
                   /\ step' \in [Consumers -> Steps]
<1>0. /\ events \in Seq(Event) /\ Len(events) <= MaxEvents /\ Len(events) \in Nat /\ MaxEvents \in Nat
      /\ DOMAIN events = 1..Len(events)
      /\ sent \subseteq 1..MaxEvents /\ stops \in 0..MaxStops /\ MaxStops \in Nat
      /\ batch \in [Consumers -> SUBSET (1..MaxEvents)] /\ step \in [Consumers -> Steps]
  BY OutboxAssumption DEF TypeOK, OutboxTypeOK, Event
<1>1. events' \in Seq(Event) /\ Len(events') <= MaxEvents
  <2> HIDE DEF Event
  <2>1. CASE UNCHANGED events
    BY <1>0, <2>1
  <2>2. CASE \E m \in Sendings : QueueEmail(m)
    BY <2>2, Queued
  <2>3. CASE \E c \in Consumers : MarkOutboxProcessed(c)
    BY <1>0, <2>3, Marked
  <2> QED
    BY <2>1, <2>2, <2>3, EventsStep
<1>2. ASSUME UNCHANGED <<sent, batch, step, stops>> PROVE Kept
  BY <1>0, <1>2
<1>3. ASSUME NEW c \in Consumers, Consume(c) \/ Stop(c) PROVE Kept
  <2>1. CASE Poll(c)
    <3>1. PendingOutbox(Limit) \subseteq 1..MaxEvents
      BY <1>0 DEF PendingOutbox, Pending
    <3> QED
      BY <1>0, <2>1, <3>1 DEF Poll
  <2>2. CASE \E i \in 1..MaxEvents : Delivered(c, i)
    BY <1>0, <2>2 DEF Delivered
  <2>3. CASE NotDelivered(c)
    BY <1>0, <2>3 DEF NotDelivered
  <2>4. CASE FindPending(c)
    <3>1. UNCHANGED <<sent, stops>>
      BY <2>4 DEF FindPending
    <3>2. CASE GoOn(c)
      BY <1>0, <3>1, <3>2, GoneOn
    <3>3. CASE ~GoOn(c)
      BY <1>0, <2>4, <3>1, <3>3 DEF FindPending
    <3> QED
      BY <3>2, <3>3
  <2>5. CASE MarkOutboxProcessed(c)
    BY <1>0, <2>5, GoneOn DEF MarkOutboxProcessed
  <2>6. CASE Stop(c)
    BY <1>0, <2>6 DEF Stop
  <2> QED
    BY <1>3, <2>1, <2>2, <2>3, <2>4, <2>5, <2>6 DEF Consume
<1>4. ASSUME Send \/ \E u \in Users : SetPreference(u) PROVE UNCHANGED <<sent, batch, step, stops>>
  BY <1>4, Zenon DEF Send, SetPreference, SendCommunication, IsChannelEnabled, CreateNotification,
     QueueEmail, AnswerSending, AbortSending, outboxVars, EnqueueOutbox
<1> HIDE DEF Kept
<1>5. Kept
  BY <1>2, <1>3, <1>4 DEF Next, OutboxNext
<1> QED
  BY <1>1, <1>5 DEF Kept, OutboxTypeOK, Event

LEMMA OutboxInvStep == ASSUME Inv, Next PROVE OutboxInv'
<1> USE DEF Inv
<1> DEFINE Holds(c) ==
               /\ batch[c] \subseteq DOMAIN events
               /\ step[c] # "list" => batch[c] # {}
               /\ step[c] \in {"mark", "done"} => Min(batch[c]) \in sent
           HoldsNext(c) ==
               /\ batch'[c] \subseteq DOMAIN events'
               /\ step'[c] # "list" => batch'[c] # {}
               /\ step'[c] \in {"mark", "done"} => Min(batch'[c]) \in sent'
<1>0. /\ Len(events) \in Nat /\ DOMAIN events = 1..Len(events)
      /\ batch \in [Consumers -> SUBSET (1..MaxEvents)]
      /\ step \in [Consumers -> {"list", "deliver", "mark", "fail", "done", "failed"}]
      /\ \A c \in Consumers : Holds(c)
      /\ sent \subseteq DOMAIN events \ Poison
      /\ \A i \in DOMAIN events : events[i].processed => i \in sent
  BY DEF TypeOK, OutboxTypeOK, OutboxInv
<1>1. DOMAIN events \subseteq DOMAIN events'
  <2>1. ASSUME NEW m \in Sendings, QueueEmail(m) PROVE DOMAIN events \subseteq DOMAIN events'
    <3>1. DOMAIN events = 1..Len(events) /\ DOMAIN events' = 1..(Len(events) + 1)
      BY <2>1, Queued
    <3> QED
      BY <1>0, <3>1
  <2>2. ASSUME NEW c \in Consumers, MarkOutboxProcessed(c) PROVE DOMAIN events \subseteq DOMAIN events'
    BY <2>2, Marked
  <2> QED
    BY <2>1, <2>2, EventsStep
<1>2. sent \subseteq sent'
  BY Zenon DEF Next, Send, SetPreference, SendCommunication, IsChannelEnabled, CreateNotification,
     QueueEmail, AnswerSending, AbortSending, outboxVars, EnqueueOutbox,
     OutboxNext, Consume, Poll, Delivered, NotDelivered, FindPending, MarkOutboxProcessed, Stop
<1>3. ASSUME NEW c \in Consumers, batch'[c] = batch[c], step'[c] = step[c] PROVE HoldsNext(c)
  BY <1>0, <1>1, <1>2, <1>3
<1>4. ASSUME NEW c \in Consumers, Consume(c) \/ Stop(c)
      PROVE  /\ \A d \in Consumers \ {c} : batch'[d] = batch[d] /\ step'[d] = step[d]
             /\ HoldsNext(c)
             /\ sent' \subseteq DOMAIN events' \ Poison
  <2>1. CASE Poll(c)
    <3>1. PendingOutbox(Limit) \subseteq DOMAIN events /\ PendingOutbox(Limit) # {}
      BY <1>0, <2>1, SomeArePending, OutboxAssumption DEF PendingOutbox, Pending, Poll
    <3> QED
      BY <1>0, <2>1, <3>1 DEF Poll
  <2>2. ASSUME NEW i \in 1..MaxEvents, Delivered(c, i)
        PROVE  /\ \A d \in Consumers \ {c} : batch'[d] = batch[d] /\ step'[d] = step[d]
               /\ HoldsNext(c)
               /\ sent' \subseteq DOMAIN events' \ Poison
    <3>1. Holds(c) /\ step[c] = "deliver" /\ i = Min(batch[c]) /\ i \notin Poison
          /\ sent' = sent \cup {i} /\ UNCHANGED <<events, batch>> /\ step' = [step EXCEPT ![c] = "mark"]
      BY <1>0, <2>2 DEF Delivered
    <3>2. i \in batch[c]
      BY <1>0, <3>1, LeastOf
    <3> QED
      BY <1>0, <3>1, <3>2
  <2>3. CASE NotDelivered(c)
    BY <1>0, <2>3 DEF NotDelivered
  <2>4. CASE FindPending(c)
    <3>1. UNCHANGED <<events, sent, stops>> /\ Holds(c) /\ step[c] \in {"mark", "fail"}
      BY <1>0, <2>4 DEF FindPending
    <3>2. CASE GoOn(c)
      BY <1>0, <3>1, <3>2, GoneOn
    <3>3. CASE ~GoOn(c)
      <4>1. UNCHANGED batch /\ step' = [step EXCEPT ![c] = IF @ = "mark" THEN "done" ELSE "failed"]
        BY <2>4, <3>3 DEF FindPending
      <4> QED
        BY <1>0, <3>1, <4>1
    <3> QED
      BY <3>2, <3>3
  <2>5. CASE MarkOutboxProcessed(c)
    <3>1. UNCHANGED sent /\ Holds(c) /\ GoOn(c)
      BY <1>0, <2>5 DEF MarkOutboxProcessed
    <3>2. batch[c] # {}
      BY <2>5, <3>1 DEF MarkOutboxProcessed
    <3> HIDE DEF Holds
    <3>3. batch'[c] \subseteq DOMAIN events'
      BY <3>1, <1>1, GoneOn DEF Holds
    <3>4. HoldsNext(c)
      BY <3>1, <3>2, <3>3, GoneOn
    <3> QED
      BY <1>0, <1>1, <3>1, <3>4, GoneOn
  <2>6. CASE Stop(c)
    BY <1>0, <2>6 DEF Stop
  <2> QED
    BY <1>4, <2>1, <2>2, <2>3, <2>4, <2>5, <2>6 DEF Consume
<1>5. ASSUME Send \/ \E u \in Users : SetPreference(u) PROVE UNCHANGED <<sent, batch, step>>
  BY <1>5, Zenon DEF Send, SetPreference, SendCommunication, IsChannelEnabled, CreateNotification,
     QueueEmail, AnswerSending, AbortSending, outboxVars, EnqueueOutbox
<1>6. \A c \in Consumers : HoldsNext(c)
  <2> HIDE DEF HoldsNext
  <2> QED
    BY <1>3, <1>4, <1>5 DEF Next, OutboxNext
<1>7. sent' \subseteq DOMAIN events' \ Poison
  BY <1>0, <1>1, <1>4, <1>5 DEF Next, OutboxNext
<1>8. ASSUME NEW i \in DOMAIN events', events'[i].processed PROVE i \in sent'
  <2>1. CASE UNCHANGED events
    BY <1>0, <1>2, <1>8, <2>1
  <2>2. ASSUME NEW m \in Sendings, QueueEmail(m) PROVE i \in sent'
    <3>0. /\ DOMAIN events = 1..Len(events) /\ DOMAIN events' = 1..(Len(events) + 1)
          /\ \A j \in DOMAIN events : events'[j] = events[j]
          /\ ~events'[Len(events) + 1].processed
      <4>1. events'[Len(events) + 1] = [tag |-> <<m, Due(m)>>, processed |-> FALSE, attempts |-> 0]
        BY <2>2, Queued
      <4> QED
        BY <2>2, <4>1, Queued
    <3>1. i # Len(events) + 1
      BY <1>8, <3>0
    <3>2. i \in DOMAIN events /\ events'[i] = events[i]
      BY <1>0, <3>0, <3>1
    <3> QED
      BY <1>0, <1>2, <1>8, <3>2
  <2>3. ASSUME NEW c \in Consumers, MarkOutboxProcessed(c) PROVE i \in sent'
    <3>1. i \in DOMAIN events
      BY <1>8, <2>3, Marked
    <3>2. CASE step[c] = "done" /\ i = Min(batch[c])
      BY <1>0, <1>2, <3>2
    <3>3. CASE ~(step[c] = "done" /\ i = Min(batch[c]))
      <4>1. step[c] \in {"done", "failed"}
        BY <2>3 DEF MarkOutboxProcessed
      <4>2. events'[i].processed = events[i].processed
        BY <2>3, <3>1, <3>3, <4>1, Marked
      <4> QED
        BY <1>0, <1>2, <1>8, <3>1, <4>2
    <3> QED
      BY <3>2, <3>3
  <2> QED
    BY <2>1, <2>2, <2>3, EventsStep
<1> HIDE DEF HoldsNext
<1> QED
  BY <1>6, <1>7, <1>8 DEF OutboxInv, HoldsNext

-----------------------------------------------------------------------------
(***************************************************************************)
(* The communications.                                                     *)
(***************************************************************************)
\* An e-mail that is queued is one more of its recipient and of nobody else.
LEMMA QueuedFor ==
    ASSUME TypeOK, NEW m \in Sendings, QueueEmail(m), NEW n \in Sendings, NEW a
    PROVE  /\ EventsOf(n, a)' = IF <<m, Due(m)>> = <<n, a>> THEN EventsOf(n, a) \cup {Len(events) + 1}
                                                             ELSE EventsOf(n, a)
           /\ Len(events) + 1 \notin EventsOf(n, a)
<1> DEFINE k == Len(events) + 1
<1>1. events'[k] = [tag |-> <<m, Due(m)>>, processed |-> FALSE, attempts |-> 0]
  BY Queued
<1>2. /\ DOMAIN events = 1..Len(events) /\ DOMAIN events' = 1..k /\ Len(events) \in Nat
      /\ \A i \in DOMAIN events : events'[i] = events[i]
  BY Queued
<1>3. k \notin DOMAIN events /\ DOMAIN events' = DOMAIN events \cup {k}
  BY <1>2
<1>4. events'[k].tag = <<m, Due(m)>>
  BY <1>1
<1>5. EventsOf(n, a) \subseteq DOMAIN events
  BY DEF EventsOf
<1>6. EventsOf(n, a)' = {i \in DOMAIN events' : events'[i].tag = <<n, a>>}
  BY DEF EventsOf
<1> DEFINE tag == <<m, Due(m)>>  other == <<n, a>>
<1>7. EventsOf(n, a)' = IF tag = other THEN EventsOf(n, a) \cup {k} ELSE EventsOf(n, a)
  <2>1. EventsOf(n, a) = {i \in DOMAIN events : events[i].tag = other}
    BY DEF EventsOf
  <2>2. EventsOf(n, a)' = {i \in DOMAIN events' : events'[i].tag = other} /\ events'[k].tag = tag
    BY <1>4, <1>6
  <2> HIDE DEF tag, other, k
  <2> QED
    BY <1>2, <1>3, <2>1, <2>2
<1> QED
  BY <1>3, <1>5, <1>7

LEMMA OthersKeep ==
    ASSUME Inv, Next, NEW n \in Sendings, ~QueueEmail(n), NEW a
    PROVE  EventsOf(n, a)' = EventsOf(n, a)
<1> USE DEF Inv
<1>1. CASE UNCHANGED events
  BY <1>1 DEF EventsOf
<1>2. ASSUME NEW m \in Sendings, QueueEmail(m) PROVE EventsOf(n, a)' = EventsOf(n, a)
  <2>1. <<m, Due(m)>> # <<n, a>>
    BY <1>2
  <2> QED
    BY <1>2, <2>1, QueuedFor
<1>3. ASSUME NEW c \in Consumers, MarkOutboxProcessed(c) PROVE EventsOf(n, a)' = EventsOf(n, a)
  BY <1>3, Marked DEF EventsOf
<1> QED
  BY <1>1, <1>2, <1>3, EventsStep

\* What is true of a communication stays true while its handler and its rows stand.
LEMMA OthersStand ==
    ASSUME NEW n \in Sendings, Listed(n), \A u \in Users : UserServed(n, u), \A a \in Addresses : AddressServed(n, a),
           at'[n] = at[n], place'[n] = place[n], record'[n] = record[n],
           notifications'[n] = notifications[n], skipped'[n] = skipped[n],
           \A u \in Users : <<n, u>> \in wanted' => <<n, u>> \in wanted,
           \A a \in Addresses : EventsOf(n, a)' = EventsOf(n, a)
    PROVE  /\ Listed(n)' /\ \A u \in Users : UserServed(n, u)'
           /\ \A a \in Addresses : AddressServed(n, a)'
<1>1. ListOf(n)' = ListOf(n)
  BY DEF ListOf
<1>2. \A x : Dealt(n, x)' = Dealt(n, x)
  BY <1>1 DEF Dealt
<1>3. Listed(n)'
  BY <1>1 DEF Listed, IsDue
<1>4. \A u \in Users : UserServed(n, u)'
  BY <1>2 DEF UserServed
<1>5. \A a \in Addresses : AddressServed(n, a)'
  BY <1>2 DEF AddressServed
<1> QED
  BY <1>3, <1>4, <1>5

\* What the handler of one communication does: it leaves the others and what they have served.
Only(m) ==
    /\ UNCHANGED enabled
    /\ \A n \in Sendings \ {m} :
          /\ at'[n] = at[n] /\ place'[n] = place[n] /\ record'[n] = record[n]
          /\ notifications'[n] = notifications[n] /\ skipped'[n] = skipped[n]
    /\ \A w \in wanted' : w \in wanted \/ (at[m] = "new" /\ w[1] = m /\ w \in Sendings \X Users /\ enabled[w[2]])

HasServed(m) ==
    /\ CommsTyped' /\ Only(m) /\ Listed(m)'
    /\ \A u \in Users : UserServed(m, u)'
    /\ \A a \in Addresses : AddressServed(m, a)'

LEMMA Starts ==
    ASSUME Inv, NEW m \in Sendings, NEW ch \in Channels, NEW to \in Recipients, SendCommunication(m, ch, to)
    PROVE  HasServed(m)
<1> DEFINE row == [channel |-> ch, to |-> to]
<1>0. /\ CommsTyped /\ CommsInv /\ at[m] = "new"
      /\ UNCHANGED <<enabled, changes, notifications, skipped, place, events>>
      /\ record' = [record EXCEPT ![m] = row] /\ at' = [at EXCEPT ![m] = "next"]
      /\ wanted' = wanted \cup {<<m, u>> : u \in {v \in Users : enabled[v]}}
  BY DEF Inv, TypeOK, CommsTyped, Ats, SendCommunication, outboxVars
<1>1. row \in [channel : {"none"} \cup Channels, to : {Nobody} \cup Recipients]
  OBVIOUS
<1> HIDE DEF row
<1>2. CommsTyped'
  BY <1>0, <1>1 DEF CommsTyped, Ats
<1>3. Only(m)
  <2>1. \A n \in Sendings \ {m} : at'[n] = at[n] /\ record'[n] = record[n]
    BY <1>0 DEF CommsTyped
  <2>2. ASSUME NEW w \in wanted', w \notin wanted PROVE w[1] = m /\ w \in Sendings \X Users /\ enabled[w[2]]
    <3>1. PICK u \in Users : w = <<m, u>> /\ enabled[u]
      BY <1>0, <2>2
    <3> QED
      BY <3>1
  <2> QED
    BY <1>0, <2>1, <2>2 DEF Only
<1>4. /\ at'[m] = "next" /\ place'[m] = 0 /\ record'[m].channel \in Channels
      /\ record[m].channel = "none"
  BY <1>0 DEF CommsTyped, CommsInv, Listed, row
<1>5. Listed(m)'
  <2>1. Len(ListOf(m)') \in Nat
    BY <1>2, ListIs
  <2> QED
    BY <1>4, <2>1 DEF Listed
<1>6. \A x : Cardinality(Dealt(m, x)') = 0
  <2>1. \A x : Dealt(m, x)' = {}
    BY <1>4 DEF Dealt, Entries
  <2> QED
    BY <2>1, FS_EmptySet
<1>7. ASSUME NEW u \in Users PROVE UserServed(m, u)'
  <2>1. notifications[m][u] \in Nat /\ skipped[m][u] \in Nat /\ notifications[m][u] + skipped[m][u] = 0
    BY <1>0, <1>4 DEF CommsTyped, CommsInv, UserServed
  <2>2. skipped[m][u] = 0
    BY <2>1
  <2> QED
    BY <1>0, <1>6, <2>1, <2>2 DEF UserServed
<1>8. ASSUME NEW a \in Addresses PROVE AddressServed(m, a)'
  <2>1. EventsOf(m, a)' = EventsOf(m, a)
    BY <1>0 DEF EventsOf
  <2>2. IsFiniteSet(EventsOf(m, a)) /\ Cardinality(EventsOf(m, a)) = 0
    BY <1>0, <1>4 DEF CommsInv, AddressServed
  <2> QED
    BY <1>6, <2>1, <2>2 DEF AddressServed
<1> QED
  BY <1>2, <1>3, <1>5, <1>7, <1>8 DEF HasServed

\* The handler goes on with the next entry, having served the one before.
LEMMA GoesOn ==
    ASSUME Inv, NEW m \in Sendings, at[m] # "new", IsDue(m, record[m].channel),
           place' = [place EXCEPT ![m] = @ + 1], at'[m] \notin {"new", "notify", "answered"},
           UNCHANGED <<record, wanted>>, Only(m), CommsTyped',
           \A u \in Users :
               /\ notifications'[m][u] + skipped'[m][u] = notifications[m][u] + skipped[m][u]
                      + (IF record[m].channel = "IN_APP" /\ u = Due(m) THEN 1 ELSE 0)
               /\ <<m, u>> \in wanted => skipped'[m][u] = skipped[m][u],
           \A a \in Addresses :
               /\ IsFiniteSet(EventsOf(m, a)')
               /\ Cardinality(EventsOf(m, a)') = Cardinality(EventsOf(m, a))
                      + (IF record[m].channel = "EMAIL" /\ a = Due(m) THEN 1 ELSE 0)
    PROVE  HasServed(m)
<1>0. /\ CommsTyped /\ place[m] \in Nat /\ place'[m] = place[m] + 1
      /\ Listed(m) /\ \A u \in Users : UserServed(m, u)
      /\ \A a \in Addresses : AddressServed(m, a)
  BY DEF Inv, TypeOK, CommsTyped, Ats, CommsInv
<1>1. ListOf(m)' = ListOf(m) /\ Len(ListOf(m)) \in Nat /\ record'[m] = record[m]
  BY <1>0, ListIs DEF ListOf
<1>2. Listed(m)'
  BY <1>0, <1>1 DEF Listed, IsDue
<1>3. ASSUME NEW x
      PROVE  /\ Cardinality(Dealt(m, x)) \in Nat
             /\ Cardinality(Dealt(m, x)') = Cardinality(Dealt(m, x)) + (IF x = Due(m) THEN 1 ELSE 0)
  <2>1. Dealt(m, x)' = Entries(ListOf(m), place[m] + 1, x)
    BY <1>0, <1>1 DEF Dealt
  <2>2. Dealt(m, x) = Entries(ListOf(m), place[m], x) /\ Due(m) = ListOf(m)[place[m] + 1]
    BY DEF Dealt, Due
  <2> QED
    BY <1>0, <2>1, <2>2, OneMore
<1>4. ASSUME NEW u \in Users PROVE UserServed(m, u)'
  <2>1. UserServed(m, u)
    BY <1>0
  <2>2. /\ notifications'[m][u] + skipped'[m][u] =
               IF record[m].channel = "IN_APP" THEN Cardinality(Dealt(m, u)') ELSE 0
        /\ <<m, u>> \in wanted => skipped'[m][u] = 0
    <3>1. CASE record[m].channel = "IN_APP"
      BY <1>3, <2>1, <3>1 DEF UserServed
    <3>2. CASE record[m].channel # "IN_APP"
      BY <2>1, <3>2 DEF UserServed
    <3> QED
      BY <3>1, <3>2
  <2> QED
    BY <1>1, <2>2 DEF UserServed
<1>5. ASSUME NEW a \in Addresses PROVE AddressServed(m, a)'
  <2>1. AddressServed(m, a)
    BY <1>0
  <2>2. Cardinality(EventsOf(m, a)') = IF record[m].channel = "EMAIL" THEN Cardinality(Dealt(m, a)') ELSE 0
    <3>1. CASE record[m].channel = "EMAIL"
      BY <1>3, <2>1, <3>1 DEF AddressServed
    <3>2. CASE record[m].channel # "EMAIL"
      BY <2>1, <3>2 DEF AddressServed
    <3> QED
      BY <3>1, <3>2
  <2> QED
    BY <1>1, <2>2 DEF AddressServed
<1> QED
  BY <1>2, <1>4, <1>5 DEF HasServed

\* The handler moves on within one entry, or ends.
LEMMA MovesOn ==
    ASSUME Inv, NEW m \in Sendings, NEW a \in Ats \ {"new"}, at[m] # "new", at' = [at EXCEPT ![m] = a],
           a = "notify" => IsDue(m, "IN_APP"), a = "answered" => place[m] = Len(ListOf(m)),
           UNCHANGED <<enabled, changes, record, notifications, skipped, place, wanted, events>>
    PROVE  HasServed(m)
<1>0. CommsTyped /\ CommsInv
  BY DEF Inv, TypeOK, CommsTyped, Ats
<1>1. CommsTyped' /\ at'[m] = a /\ \A n \in Sendings \ {m} : at'[n] = at[n]
  BY <1>0 DEF CommsTyped
<1>2. Only(m)
  BY <1>1 DEF Only
<1>3. ListOf(m)' = ListOf(m)
  BY DEF ListOf
<1>4. Listed(m)'
  BY <1>0, <1>1, <1>3 DEF CommsInv, Listed, IsDue
<1>5. \A x : Dealt(m, x)' = Dealt(m, x) /\ EventsOf(m, x)' = EventsOf(m, x)
  BY <1>3 DEF Dealt, EventsOf
<1>6. \A u \in Users : UserServed(m, u)'
  BY <1>0, <1>5 DEF CommsInv, UserServed
<1>7. \A x \in Addresses : AddressServed(m, x)'
  BY <1>0, <1>5 DEF CommsInv, AddressServed
<1> QED
  BY <1>1, <1>2, <1>4, <1>6, <1>7 DEF HasServed

\* One more for one user, in one of the tables.
LEMMA Counted ==
    ASSUME NEW table \in [Sendings -> [Users -> Nat]], NEW m \in Sendings, NEW h \in Users,
           NEW new, new = [table EXCEPT ![m][h] = @ + 1]
    PROVE  /\ new \in [Sendings -> [Users -> Nat]]
           /\ \A n \in Sendings \ {m} : new[n] = table[n]
           /\ \A u \in Users : new[m][u] = table[m][u] + (IF u = h THEN 1 ELSE 0)
<1> DEFINE counts == [table[m] EXCEPT ![h] = @ + 1]
<1>1. table[m] \in [Users -> Nat]
  OBVIOUS
<1>2. counts \in [Users -> Nat] /\ \A u \in Users : counts[u] = table[m][u] + (IF u = h THEN 1 ELSE 0)
  BY <1>1
<1>3. new = [table EXCEPT ![m] = counts]
  OBVIOUS
<1> HIDE DEF counts
<1> QED
  BY <1>2, <1>3

LEMMA Sends ==
    ASSUME Inv, NEW m \in Sendings,
           \/ \E ch \in Channels, to \in Recipients : SendCommunication(m, ch, to)
           \/ IsChannelEnabled(m) \/ CreateNotification(m) \/ QueueEmail(m)
           \/ AnswerSending(m) \/ AbortSending(m)
    PROVE  HasServed(m)
<1>0. CommsTyped /\ Listed(m) /\ CommsInv
  BY DEF Inv, TypeOK, CommsTyped, Ats, CommsInv
<1> DEFINE h == Due(m)
<1>1. ASSUME UNCHANGED events
      PROVE  \A a \in Addresses : EventsOf(m, a)' = EventsOf(m, a) /\ IsFiniteSet(EventsOf(m, a))
                                     /\ Cardinality(EventsOf(m, a)) \in Nat
  <2>1. \A a \in Addresses : EventsOf(m, a)' = EventsOf(m, a) /\ IsFiniteSet(EventsOf(m, a))
    BY <1>0, <1>1 DEF EventsOf, CommsInv, AddressServed
  <2> QED
    BY <2>1, FS_CardinalityType
<1>2. \A u \in Users : notifications[m][u] \in Nat /\ skipped[m][u] \in Nat
  BY <1>0 DEF CommsTyped
<1>3. CASE IsChannelEnabled(m)
  <2>0. at[m] = "next" /\ IsDue(m, "IN_APP") /\ record[m].channel = "IN_APP" /\ h \in Users
        /\ UNCHANGED <<enabled, changes, record, notifications, wanted, events>>
    BY <1>0, <1>3, ListIs DEF IsChannelEnabled, outboxVars, IsDue
  <2>1. CASE enabled[h]
    <3>1. at' = [at EXCEPT ![m] = "notify"] /\ UNCHANGED <<skipped, place>>
      BY <1>3, <2>1 DEF IsChannelEnabled
    <3> QED
      BY <2>0, <3>1, MovesOn DEF Ats
  <2>2. CASE ~enabled[h]
    <3>1. skipped' = [skipped EXCEPT ![m][h] = @ + 1] /\ place' = [place EXCEPT ![m] = @ + 1] /\ UNCHANGED at
      BY <1>3, <2>2 DEF IsChannelEnabled
    <3> HIDE DEF h
    <3>2. /\ skipped' \in [Sendings -> [Users -> Nat]]
          /\ \A n \in Sendings \ {m} : skipped'[n] = skipped[n]
          /\ \A u \in Users : skipped'[m][u] = skipped[m][u] + (IF u = h THEN 1 ELSE 0)
      BY <1>0, <2>0, <3>1, Counted DEF CommsTyped
    <3>3. CommsTyped' /\ \A n \in Sendings \ {m} : place'[n] = place[n]
      BY <1>0, <2>0, <3>1, <3>2 DEF CommsTyped
    <3>4. Only(m)
      BY <2>0, <3>1, <3>2, <3>3 DEF Only
    <3>5. <<m, h>> \notin wanted
      <4>1. \A w \in wanted : enabled[w[2]]
        BY <1>0 DEF CommsInv
      <4> QED
        BY <2>2, <4>1
    <3>6. ASSUME NEW u \in Users
          PROVE  /\ notifications'[m][u] + skipped'[m][u] = notifications[m][u] + skipped[m][u]
                        + (IF u = h THEN 1 ELSE 0)
                 /\ <<m, u>> \in wanted => skipped'[m][u] = skipped[m][u]
      BY <1>2, <2>0, <3>2, <3>5
    <3>7. \A u \in Users :
            /\ notifications'[m][u] + skipped'[m][u] = notifications[m][u] + skipped[m][u]
                   + (IF record[m].channel = "IN_APP" /\ u = Due(m) THEN 1 ELSE 0)
            /\ <<m, u>> \in wanted => skipped'[m][u] = skipped[m][u]
      BY <2>0, <3>6 DEF h
    <3>8. \A a \in Addresses :
            /\ IsFiniteSet(EventsOf(m, a)')
            /\ Cardinality(EventsOf(m, a)') = Cardinality(EventsOf(m, a))
                   + (IF record[m].channel = "EMAIL" /\ a = Due(m) THEN 1 ELSE 0)
      BY <1>1, <2>0
    <3>9. IsDue(m, record[m].channel) /\ at[m] # "new" /\ at'[m] \notin {"new", "notify", "answered"}
      BY <2>0, <3>1
    <3> QED
      BY <2>0, <3>1, <3>3, <3>4, <3>7, <3>8, <3>9, GoesOn
  <2> QED
    BY <2>1, <2>2
<1>4. CASE CreateNotification(m)
  <2>0. /\ at[m] = "notify" /\ IsDue(m, "IN_APP") /\ record[m].channel = "IN_APP" /\ h \in Users
        /\ notifications' = [notifications EXCEPT ![m][h] = @ + 1] /\ place' = [place EXCEPT ![m] = @ + 1]
        /\ at' = [at EXCEPT ![m] = "next"] /\ UNCHANGED <<enabled, changes, record, skipped, wanted, events>>
    BY <1>0, <1>4, ListIs DEF CreateNotification, outboxVars, Listed, IsDue
  <2> HIDE DEF h
  <2>1. /\ notifications' \in [Sendings -> [Users -> Nat]]
        /\ \A n \in Sendings \ {m} : notifications'[n] = notifications[n]
        /\ \A u \in Users : notifications'[m][u] = notifications[m][u] + (IF u = h THEN 1 ELSE 0)
    BY <1>0, <2>0, Counted DEF CommsTyped
  <2>2. CommsTyped'
    BY <1>0, <2>0, <2>1 DEF CommsTyped, Ats
  <2>3. at'[m] = "next" /\ \A n \in Sendings \ {m} : at'[n] = at[n] /\ place'[n] = place[n]
    BY <1>0, <2>0 DEF CommsTyped
  <2>4. Only(m)
    BY <2>0, <2>1, <2>3 DEF Only
  <2>5. ASSUME NEW u \in Users
        PROVE  /\ notifications'[m][u] + skipped'[m][u] = notifications[m][u] + skipped[m][u]
                      + (IF u = h THEN 1 ELSE 0)
               /\ <<m, u>> \in wanted => skipped'[m][u] = skipped[m][u]
    BY <1>2, <2>0, <2>1
  <2>6. \A u \in Users :
            /\ notifications'[m][u] + skipped'[m][u] = notifications[m][u] + skipped[m][u]
                   + (IF record[m].channel = "IN_APP" /\ u = Due(m) THEN 1 ELSE 0)
            /\ <<m, u>> \in wanted => skipped'[m][u] = skipped[m][u]
    BY <2>0, <2>5 DEF h
  <2>7. \A a \in Addresses :
            /\ IsFiniteSet(EventsOf(m, a)')
            /\ Cardinality(EventsOf(m, a)') = Cardinality(EventsOf(m, a))
                   + (IF record[m].channel = "EMAIL" /\ a = Due(m) THEN 1 ELSE 0)
    BY <1>1, <2>0
  <2>8. IsDue(m, record[m].channel) /\ at[m] # "new" /\ at'[m] \notin {"new", "notify", "answered"}
    BY <2>0, <2>3
  <2> QED
    BY <2>0, <2>2, <2>4, <2>6, <2>7, <2>8, GoesOn
<1>5. CASE QueueEmail(m)
  <2>0. /\ at[m] = "next" /\ IsDue(m, "EMAIL") /\ record[m].channel = "EMAIL"
        /\ place' = [place EXCEPT ![m] = @ + 1]
        /\ UNCHANGED <<enabled, changes, record, notifications, skipped, at, wanted>>
    BY <1>5 DEF QueueEmail, IsDue
  <2>1. CommsTyped' /\ \A n \in Sendings \ {m} : place'[n] = place[n]
    BY <1>0, <2>0 DEF CommsTyped
  <2>2. Only(m)
    BY <2>0, <2>1 DEF Only
  <2>3. ASSUME NEW a \in Addresses
        PROVE  /\ IsFiniteSet(EventsOf(m, a)')
               /\ Cardinality(EventsOf(m, a)') = Cardinality(EventsOf(m, a)) + (IF a = h THEN 1 ELSE 0)
    <3>1. IsFiniteSet(EventsOf(m, a)) /\ Cardinality(EventsOf(m, a)) \in Nat
      BY <1>0, FS_CardinalityType DEF CommsInv, AddressServed
    <3>2. /\ EventsOf(m, a)' = IF a = h THEN EventsOf(m, a) \cup {Len(events) + 1} ELSE EventsOf(m, a)
          /\ Len(events) + 1 \notin EventsOf(m, a)
      BY <1>5, QueuedFor DEF Inv
    <3>3. /\ IsFiniteSet(EventsOf(m, a) \cup {Len(events) + 1})
          /\ Len(events) + 1 \notin EventsOf(m, a) =>
                 Cardinality(EventsOf(m, a) \cup {Len(events) + 1}) = Cardinality(EventsOf(m, a)) + 1
      BY <3>1, FS_AddElement
    <3> HIDE DEF h
    <3> QED
      BY <3>1, <3>2, <3>3
  <2>4. \A u \in Users :
            /\ notifications'[m][u] + skipped'[m][u] = notifications[m][u] + skipped[m][u]
                   + (IF record[m].channel = "IN_APP" /\ u = Due(m) THEN 1 ELSE 0)
            /\ <<m, u>> \in wanted => skipped'[m][u] = skipped[m][u]
    BY <1>2, <2>0
  <2>5. \A a \in Addresses :
            /\ IsFiniteSet(EventsOf(m, a)')
            /\ Cardinality(EventsOf(m, a)') = Cardinality(EventsOf(m, a))
                   + (IF record[m].channel = "EMAIL" /\ a = Due(m) THEN 1 ELSE 0)
    BY <2>0, <2>3 DEF h
  <2>6. IsDue(m, record[m].channel) /\ at[m] # "new" /\ at'[m] \notin {"new", "notify", "answered"}
    BY <2>0
  <2> QED
    BY <2>0, <2>1, <2>2, <2>4, <2>5, <2>6, GoesOn
<1>6. CASE AnswerSending(m)
  <2>1. at[m] # "new" /\ place[m] = Len(ListOf(m)) /\ at' = [at EXCEPT ![m] = "answered"]
        /\ UNCHANGED <<enabled, changes, record, notifications, skipped, place, wanted, events>>
    BY <1>6 DEF AnswerSending, outboxVars
  <2> QED
    BY <2>1, MovesOn DEF Ats
<1>7. CASE AbortSending(m)
  <2>1. at[m] # "new" /\ at' = [at EXCEPT ![m] = "stopped"]
        /\ UNCHANGED <<enabled, changes, record, notifications, skipped, place, wanted, events>>
    BY <1>7 DEF AbortSending, outboxVars
  <2> QED
    BY <2>1, MovesOn DEF Ats
<1> HIDE DEF h
<1> QED
  BY <1>3, <1>4, <1>5, <1>6, <1>7, Starts

LEMMA CommsStep == ASSUME Inv, Next PROVE CommsTyped' /\ CommsInv'
<1>0. CommsTyped /\ CommsInv
  BY DEF Inv, TypeOK, CommsTyped, Ats
<1>a. ASSUME NEW n \in Sendings, place'[n] = place[n] PROVE ~QueueEmail(n)
  <2>1. place[n] + 1 # place[n]
    BY <1>0 DEF CommsTyped
  <2> QED
    BY <1>0, <1>a, <2>1 DEF QueueEmail, CommsTyped
<1>1. ASSUME NEW m \in Sendings, HasServed(m) PROVE CommsTyped' /\ CommsInv'
  <2>1. CommsTyped' /\ Only(m) /\ Listed(m)' /\ (\A u \in Users : UserServed(m, u)')
        /\ \A a \in Addresses : AddressServed(m, a)'
    BY <1>1 DEF HasServed
  <2>2. ASSUME NEW n \in Sendings, n # m
        PROVE  /\ Listed(n)' /\ \A u \in Users : UserServed(n, u)'
               /\ \A a \in Addresses : AddressServed(n, a)'
    <3>1. /\ at'[n] = at[n] /\ place'[n] = place[n] /\ record'[n] = record[n]
          /\ notifications'[n] = notifications[n] /\ skipped'[n] = skipped[n]
      BY <2>1, <2>2 DEF Only
    <3>2. \A u \in Users : <<n, u>> \in wanted' => <<n, u>> \in wanted
      BY <2>1, <2>2 DEF Only
    <3>3. \A a \in Addresses : EventsOf(n, a)' = EventsOf(n, a)
      BY <1>a, <3>1, OthersKeep
    <3> QED
      BY <1>0, <3>1, <3>2, <3>3, OthersStand DEF CommsInv
  <2>3. \A w \in wanted' : w \in Sendings \X Users /\ enabled'[w[2]]
    BY <1>0, <2>1 DEF CommsInv, Only
  <2> QED
    BY <2>1, <2>2, <2>3 DEF CommsInv
<1>2. ASSUME NEW u \in Users, SetPreference(u) PROVE CommsTyped' /\ CommsInv'
  <2>0. /\ enabled' = [enabled EXCEPT ![u] = ~@] /\ wanted' = {w \in wanted : w[2] # u}
        /\ UNCHANGED <<record, notifications, skipped, place, at, events>>
    BY <1>2 DEF SetPreference, outboxVars
  <2>1. CommsTyped'
    BY <1>0, <1>2, <2>0, UsersAssumption DEF CommsTyped, SetPreference
  <2>2. \A w \in wanted' : w \in Sendings \X Users /\ enabled'[w[2]]
    BY <1>0, <2>0 DEF CommsInv, CommsTyped
  <2>3. \A n \in Sendings, a \in Addresses : EventsOf(n, a)' = EventsOf(n, a)
    BY <2>0 DEF EventsOf
  <2>4. ASSUME NEW n \in Sendings
        PROVE  /\ Listed(n)' /\ \A v \in Users : UserServed(n, v)'
               /\ \A a \in Addresses : AddressServed(n, a)'
    BY <1>0, <2>0, <2>3, OthersStand DEF CommsInv
  <2> QED
    BY <2>1, <2>2, <2>4 DEF CommsInv
<1>3. CASE OutboxNext /\ UNCHANGED commsVars
  <2>0. UNCHANGED <<enabled, changes, record, notifications, skipped, place, at, wanted>>
    BY <1>3 DEF commsVars
  <2>1. \A n \in Sendings, a \in Addresses : EventsOf(n, a)' = EventsOf(n, a)
    BY <1>a, <2>0, OthersKeep
  <2>2. CommsTyped'
    BY <1>0, <2>0 DEF CommsTyped
  <2>3. ASSUME NEW n \in Sendings
        PROVE  /\ Listed(n)' /\ \A v \in Users : UserServed(n, v)'
               /\ \A a \in Addresses : AddressServed(n, a)'
    BY <1>0, <2>0, <2>1, OthersStand DEF CommsInv
  <2>4. \A w \in wanted' : w \in Sendings \X Users /\ enabled'[w[2]]
    BY <1>0, <2>0 DEF CommsInv
  <2> QED
    BY <2>2, <2>3, <2>4 DEF CommsInv
<1> QED
  BY <1>1, <1>2, <1>3, Sends DEF Next, Send

LEMMA Stutter == ASSUME Inv, UNCHANGED vars PROVE Inv'
<1>1. UNCHANGED <<events, sent, batch, step, stops>>
  BY DEF vars, outboxVars
<1>2. UNCHANGED <<enabled, changes, record, notifications, skipped, place, at, wanted>>
  BY DEF vars, commsVars
<1>3. TypeOK'
  BY <1>1, <1>2 DEF Inv, TypeOK, OutboxTypeOK
<1>4. OutboxInv'
  BY <1>1 DEF Inv, OutboxInv
<1>5. CommsInv'
  BY <1>1, <1>2, OthersStand DEF Inv, CommsInv, EventsOf, TypeOK, CommsTyped, Ats
<1> QED
  BY <1>3, <1>4, <1>5 DEF Inv

LEMMA Invariance == Spec => []Inv
<1>1. ASSUME Inv, Next PROVE Inv'
  <2>1. TypeOK'
    BY <1>1, OutboxTypeStep, CommsStep DEF CommsTyped, Ats, TypeOK
  <2> QED
    BY <1>1, <2>1, OutboxInvStep, CommsStep DEF Inv
<1>2. Inv /\ [Next]_vars => Inv'
  BY <1>1, Stutter
<1> QED
  BY <1>2, InitInv, PTL DEF Spec

\* What is on file about the outbox, its consumers and the communications has its type: no more
\* events than the bound, attempts that are counted and not lost.
THEOREM TypeCorrect == Spec => []TypeOK
<1>1. Inv => TypeOK
  BY DEF Inv
<1> QED
  BY <1>1, Invariance, PTL

\* A communication that was answered has served the list of its channel entry by entry, however
\* often somebody is listed, whatever the preferences do meanwhile and whoever else is sending.
THEOREM AnsweredIsServedAlways == Spec => []AnsweredIsServed
<1>1. ASSUME Inv PROVE AnsweredIsServed
  <2>1. ASSUME NEW m \in Sendings, at[m] = "answered"
        PROVE  LET inApp == record[m].channel = "IN_APP"
                   to    == record[m].to
               IN  /\ \A u \in Users :
                         /\ notifications[m][u] + skipped[m][u] = IF inApp THEN Times(to.users, u) ELSE 0
                         /\ <<m, u>> \in wanted => skipped[m][u] = 0
                   /\ \A a \in Addresses :
                         Cardinality(EventsOf(m, a)) = IF inApp THEN 0 ELSE Times(to.emails, a)
    <3>1. /\ Listed(m) /\ \A u \in Users : UserServed(m, u)
          /\ \A a \in Addresses : AddressServed(m, a)
      BY <1>1 DEF Inv, CommsInv
    <3>2. place[m] = Len(ListOf(m)) /\ record[m].channel \in Channels
      BY <2>1, <3>1 DEF Listed
    <3>3. DOMAIN ListOf(m) = 1..place[m]
      BY <1>1, <3>2, ListIs DEF Inv, TypeOK, CommsTyped, Ats
    <3>4. \A x : Dealt(m, x) = {i \in DOMAIN ListOf(m) : ListOf(m)[i] = x}
      BY <3>3 DEF Dealt, Entries
    <3>5. \A x : Cardinality(Dealt(m, x)) = Times(ListOf(m), x)
      BY <3>4 DEF Times
    <3> QED
      BY <3>1, <3>2, <3>5 DEF UserServed, AddressServed, ListOf, Channels
  <2> QED
    BY <2>1 DEF AnsweredIsServed
<1> QED
  BY <1>1, Invariance, PTL

-----------------------------------------------------------------------------
(***************************************************************************)
(* The outbox implements the queue.                                        *)
(***************************************************************************)
LEMMA QueueStep == ASSUME Inv, [Next]_vars PROVE [Queue!Next]_(Queue!queue)
<1> DEFINE Done == DOMAIN events \ Pending
           NextPending == {i \in DOMAIN events' : ~events'[i].processed}
           NextDone == DOMAIN events' \ NextPending
<1>0. /\ Len(events) \in Nat /\ DOMAIN events = 1..Len(events) /\ Len(events) <= MaxEvents
      /\ MaxEvents \in Nat /\ OutboxInv
  BY OutboxAssumption DEF Inv, TypeOK, OutboxTypeOK
<1>1. Pending' = NextPending /\ Queue!queue' = <<NextPending, sent', NextDone>>
      /\ Queue!queue = <<Pending, sent, Done>>
  BY DEF Pending, Queue!queue
<1>2. ASSUME UNCHANGED <<events, sent>> PROVE UNCHANGED Queue!queue
  BY <1>1, <1>2 DEF Pending
<1>3. ASSUME NEW m \in Sendings, QueueEmail(m) PROVE Queue!Next
  <2> DEFINE k == Len(events) + 1
  <2>1. events'[k] = [tag |-> <<m, Due(m)>>, processed |-> FALSE, attempts |-> 0]
    BY <1>3, Queued DEF Inv
  <2>2. /\ DOMAIN events' = 1..k /\ \A i \in DOMAIN events : events'[i] = events[i]
        /\ Len(events') = k /\ Len(events') <= MaxEvents
    BY <1>3, Queued DEF Inv
  <2>3. k \notin DOMAIN events /\ DOMAIN events' = DOMAIN events \cup {k} /\ k \in 1..MaxEvents
    BY <1>0, <2>2
  <2>4. ~events'[k].processed
    BY <2>1
  <2> HIDE DEF k
  <2>5. NextPending = Pending \cup {k}
    BY <2>2, <2>3, <2>4 DEF Pending
  <2>6. NextDone = Done
    BY <2>3, <2>5 DEF Pending
  <2>7. UNCHANGED sent /\ k \notin Pending \cup Done
    BY <1>3, <2>3 DEF QueueEmail, EnqueueOutbox, Pending
  <2>8. Queue!Put(k)
    BY <1>1, <2>5, <2>6, <2>7 DEF Queue!Put
  <2> QED
    BY <2>3, <2>8 DEF Queue!Next
<1>4. ASSUME NEW c \in Consumers, NEW i \in 1..MaxEvents, Delivered(c, i) PROVE Queue!Next
  <2>1. i = Min(batch[c]) /\ i \notin Poison /\ sent' = sent \cup {i} /\ UNCHANGED events
        /\ batch[c] # {} /\ batch[c] \subseteq DOMAIN events
    BY <1>0, <1>4 DEF Delivered, OutboxInv
  <2>2. i \in DOMAIN events
    BY <1>0, <2>1, LeastOf
  <2>3. i \in Pending \cup Done /\ NextPending = Pending /\ NextDone = Done
    BY <2>1, <2>2 DEF Pending
  <2>4. Queue!Deliver(i)
    BY <1>1, <2>1, <2>3 DEF Queue!Deliver
  <2> QED
    BY <2>4 DEF Queue!Next
<1>5. ASSUME NEW c \in Consumers, MarkOutboxProcessed(c) PROVE Queue!Next \/ UNCHANGED Queue!queue
  <2> DEFINE i == Min(batch[c])
  <2>1. /\ UNCHANGED sent /\ step[c] \in {"done", "failed"}
        /\ i \in DOMAIN events /\ DOMAIN events' = DOMAIN events
        /\ \A j \in DOMAIN events : j # i => events'[j] = events[j]
        /\ step[c] = "failed" => \A j \in DOMAIN events : events'[j].processed = events[j].processed
        /\ step[c] = "done" => events'[i].processed /\ i \in sent
    BY <1>0, <1>5, Marked DEF MarkOutboxProcessed, Inv, OutboxInv
  <2>2. i \in 1..MaxEvents
    BY <1>0, <2>1
  <2> HIDE DEF i
  <2>3. CASE step[c] = "failed"
    <3>1. NextPending = Pending /\ NextDone = Done
      BY <2>1, <2>3 DEF Pending
    <3> QED
      BY <1>1, <2>1, <3>1
  <2>4. CASE step[c] = "done" /\ i \in Pending
    <3>1. NextPending = Pending \ {i} /\ NextDone = Done \cup {i}
      BY <2>1, <2>4 DEF Pending
    <3>2. Queue!Complete(i)
      BY <1>1, <2>1, <2>4, <3>1 DEF Queue!Complete
    <3> QED
      BY <2>2, <3>2 DEF Queue!Next
  <2>5. CASE step[c] = "done" /\ i \notin Pending
    <3>1. NextPending = Pending /\ NextDone = Done
      BY <2>1, <2>5 DEF Pending
    <3> QED
      BY <1>1, <2>1, <3>1
  <2> QED
    BY <2>1, <2>3, <2>4, <2>5
<1>6. ASSUME NEW c \in Consumers, Consume(c) \/ Stop(c)
      PROVE  \/ UNCHANGED <<events, sent>>
             \/ \E i \in 1..MaxEvents : Delivered(c, i)
             \/ MarkOutboxProcessed(c)
  BY <1>6 DEF Consume, Poll, NotDelivered, FindPending, Stop
<1>7. ASSUME Send PROVE UNCHANGED <<events, sent>> \/ \E m \in Sendings : QueueEmail(m)
  BY <1>7, Zenon DEF Send, SendCommunication, IsChannelEnabled, CreateNotification, AnswerSending,
     AbortSending, outboxVars
<1>8. ASSUME NEW u \in Users, SetPreference(u) PROVE UNCHANGED <<events, sent>>
  BY <1>8 DEF SetPreference, outboxVars
<1>9. ASSUME UNCHANGED vars PROVE UNCHANGED <<events, sent>>
  BY <1>9 DEF vars, outboxVars
<1> HIDE DEF Done, NextPending, NextDone
<1> QED
  BY <1>2, <1>3, <1>4, <1>5, <1>6, <1>7, <1>8, <1>9 DEF Next, OutboxNext

\* The safety of the queue: no event is lost, and none is done that was not delivered, whatever
\* the consumers do with their lists and wherever they stop.  That those which can be
\* delivered are done in the end is left to the run.
THEOREM OutboxImplementsQueue == Spec => Queue!Safety
<1>1. Init => Queue!Init
  BY DEF Init, OutboxInit, Queue!Init, Pending
<1>2. Inv /\ [Next]_vars => [Queue!Next]_(Queue!queue)
  BY QueueStep
<1> QED
  BY <1>1, <1>2, Invariance, PTL DEF Spec, Queue!Safety
=============================================================================
