-------------------------------- MODULE Outbox --------------------------------
(***************************************************************************)
(* The outbox as CommunicationsService offers it to a consumer: list what  *)
(* is pending, mark an event as processed or as failed.  markOutbox looks  *)
(* among the first Window pending events of the organization and then      *)
(* writes.  The worker of the repository polls nothing yet; a consumer     *)
(* here is anyone who uses the two endpoints as they are meant to be used: *)
(* it delivers each event of a list before it marks it, and stops at times.*)
(***************************************************************************)
EXTENDS Integers, Sequences, FiniteSets, FiniteSetsExt

CONSTANTS
    Consumers,
    Poison,      \* events, by their place, whose delivery fails each time
    Window,      \* how many pending events markOutbox can see
    Limit,       \* how many a consumer asks for, 20 unless it says otherwise
    MaxEvents,   \* bound on the events
    MaxStops     \* bound on the times a consumer stops with work in hand

ASSUME OutboxAssumption ==
    /\ MaxEvents \in Nat /\ MaxStops \in Nat
    /\ Window \in Nat \ {0} /\ Limit \in Nat \ {0}

VARIABLES
    events,   \* OutboxEvent rows by occurredAt: [tag, processed, attempts]
    sent,     \* places of events that were delivered at least once
    batch,    \* batch[c]: places c has listed and not dealt with; it goes by them in order
    step,     \* step[c]: what c does with the oldest of them
    stops     \* times a consumer stopped so far

outboxVars == <<events, sent, batch, step, stops>>

Most == 2   \* attempts are told apart up to this number

OutboxInit ==
    /\ events = <<>> /\ sent = {} /\ stops = 0
    /\ batch = [c \in Consumers |-> {}]
    /\ step = [c \in Consumers |-> "list"]

OutboxTypeOK(Tags) ==
    /\ Len(events) <= MaxEvents
    /\ events \in Seq([tag : Tags, processed : BOOLEAN, attempts : 0..Most])
    /\ sent \subseteq 1..MaxEvents /\ stops \in 0..MaxStops
    /\ batch \in [Consumers -> SUBSET (1..MaxEvents)]
    /\ step \in [Consumers -> {"list", "deliver", "mark", "fail", "done", "failed"}]

-----------------------------------------------------------------------------
EnqueueOutbox(tag) ==
    /\ Len(events) < MaxEvents
    /\ events' = Append(events, [tag |-> tag, processed |-> FALSE, attempts |-> 0])
    /\ UNCHANGED <<sent, batch, step, stops>>

Pending == {i \in DOMAIN events : ~events[i].processed}

\* The oldest ones, at most limit of them.
PendingOutbox(limit) == {i \in Pending : Cardinality({j \in Pending : j < i}) < limit}

Poll(c) ==
    /\ step[c] = "list" /\ Pending # {}
    /\ batch' = [batch EXCEPT ![c] = PendingOutbox(Limit)]
    /\ step' = [step EXCEPT ![c] = "deliver"]
    /\ UNCHANGED <<events, sent, stops>>

Delivered(c, i) ==
    /\ step[c] = "deliver" /\ Min(batch[c]) = i /\ i \notin Poison
    /\ sent' = sent \cup {i}
    /\ step' = [step EXCEPT ![c] = "mark"]
    /\ UNCHANGED <<events, batch, stops>>

NotDelivered(c) ==
    /\ step[c] = "deliver"
    /\ step' = [step EXCEPT ![c] = "fail"]
    /\ UNCHANGED <<events, sent, batch, stops>>

\* The consumer goes on with the next event of its list.
GoOn(c) ==
    /\ batch' = [batch EXCEPT ![c] = @ \ {Min(@)}]
    /\ step' = [step EXCEPT ![c] = IF batch[c] = {Min(batch[c])} THEN "list" ELSE "deliver"]

\* markOutbox: the event is among those it can see, or the answer is 404.
FindPending(c) ==
    /\ step[c] \in {"mark", "fail"}
    /\ IF Min(batch[c]) \in PendingOutbox(Window)
       THEN /\ step' = [step EXCEPT ![c] = IF @ = "mark" THEN "done" ELSE "failed"]
            /\ UNCHANGED batch
       ELSE GoOn(c)
    /\ UNCHANGED <<events, sent, stops>>

Mutant_FailedIsProcessed(c) ==
    /\ step[c] \in {"done", "failed"}
    /\ events' = [events EXCEPT ![Min(batch[c])].processed = TRUE]
    /\ GoOn(c)
    /\ UNCHANGED <<sent, stops>>
Mutant_AttemptsLeft(c) ==
    LET i == Min(batch[c]) IN
    /\ step[c] \in {"done", "failed"}
    /\ events' = IF step[c] = "done" THEN [events EXCEPT ![i].processed = TRUE]
                 ELSE [events EXCEPT ![i].attempts = @ - 1]
    /\ GoOn(c)
    /\ UNCHANGED <<sent, stops>>
MarkOutboxProcessed(c) ==
    LET i == Min(batch[c]) IN
    /\ step[c] \in {"done", "failed"}
    /\ events' = IF step[c] = "done" THEN [events EXCEPT ![i].processed = TRUE]
                 ELSE [events EXCEPT ![i].attempts = IF @ = Most THEN Most ELSE @ + 1]
    /\ GoOn(c)
    /\ UNCHANGED <<sent, stops>>

Stop(c) ==
    /\ step[c] # "list" /\ stops < MaxStops
    /\ stops' = stops + 1
    /\ batch' = [batch EXCEPT ![c] = {}]
    /\ step' = [step EXCEPT ![c] = "list"]
    /\ UNCHANGED <<events, sent>>

Consume(c) ==
    \/ Poll(c) \/ (\E i \in 1..MaxEvents : Delivered(c, i)) \/ NotDelivered(c)
    \/ FindPending(c) \/ MarkOutboxProcessed(c)

OutboxNext == \E c \in Consumers : Consume(c) \/ Stop(c)

-----------------------------------------------------------------------------
Queue == INSTANCE DeliveryQueue WITH
    Item <- 1..MaxEvents,
    Undeliverable <- Poison,
    pending <- Pending,
    delivered <- sent,
    done <- DOMAIN events \ Pending

\* The outbox with its window, its lists and its consumers implements the queue:
\* no event is lost, none is done that was not delivered, and events that keep
\* failing do not keep the others from being done as long as they are fewer than
\* both the list a consumer asks for and the window.
QueueSpec == Queue!Spec
=============================================================================
