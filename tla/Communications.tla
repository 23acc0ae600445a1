---------------------------- MODULE Communications ----------------------------
(***************************************************************************)
(* CommunicationsService.sendCommunication and the preferences of users,   *)
(* over the outbox its e-mails go to.  A request names users and addresses *)
(* in two lists, where one may stand more than once; its channel says      *)
(* which list is walked, and the other one is only kept with the           *)
(* communication.  A handler writes the communication, then serves one     *)
(* recipient after another; the preference of a user is read before the    *)
(* notification is written.  notify is the case of one user without a      *)
(* communication.                                                          *)
(***************************************************************************)
EXTENDS Outbox

CONSTANTS
    Users,       \* users a communication may name
    Addresses,   \* addresses it may name
    Recipients,  \* the pairs of lists a request may bring
    Sendings,    \* communications that may be sent
    MaxChanges   \* bound on the changes of preferences

ASSUME UsersAssumption ==
    /\ Recipients \subseteq [users : Seq(Users), emails : Seq(Addresses)]
    /\ MaxChanges \in Nat

VARIABLES
    enabled,        \* enabled[u]: the IN_APP preference of u
    changes,        \* changes of preferences so far
    record,         \* record[m]: channel and recipients of the communication
    notifications,  \* notifications[m][u]: how many of m's u has on file
    skipped,        \* skipped[m][u]: how often the answer lists u as left out
    place,          \* place[m]: how many of its list the handler of m is done with
    at,             \* at[m]: where the handler of m stands
    wanted          \* history: <<m, u>> with the channel enabled all the time

commsVars == <<enabled, changes, record, notifications, skipped, place, at, wanted>>
vars == <<outboxVars, commsVars>>

Channels == {"IN_APP", "EMAIL"}
Nobody == [users |-> <<>>, emails |-> <<>>]

TypeOK ==
    /\ OutboxTypeOK(Sendings \X Addresses)
    /\ enabled \in [Users -> BOOLEAN] /\ changes \in 0..MaxChanges
    /\ record \in [Sendings -> [channel : {"none"} \cup Channels, to : {Nobody} \cup Recipients]]
    /\ notifications \in [Sendings -> [Users -> Nat]] /\ skipped \in [Sendings -> [Users -> Nat]]
    /\ place \in [Sendings -> Nat]
    /\ at \in [Sendings -> {"new", "next", "notify", "answered", "stopped"}]

Init ==
    /\ OutboxInit
    /\ enabled = [u \in Users |-> TRUE] /\ changes = 0
    /\ record = [m \in Sendings |-> [channel |-> "none", to |-> Nobody]]
    /\ notifications = [m \in Sendings |-> [u \in Users |-> 0]] /\ skipped = notifications
    /\ place = [m \in Sendings |-> 0] /\ at = [m \in Sendings |-> "new"]
    /\ wanted = {}

-----------------------------------------------------------------------------
SetPreference(u) ==
    /\ changes < MaxChanges
    /\ changes' = changes + 1
    /\ enabled' = [enabled EXCEPT ![u] = ~@]
    /\ wanted' = {w \in wanted : w[2] # u}
    /\ UNCHANGED <<record, notifications, skipped, place, at, outboxVars>>

SendCommunication(m, channel, to) ==
    /\ at[m] = "new" /\ (to.users # <<>> \/ to.emails # <<>>)
    /\ record' = [record EXCEPT ![m] = [channel |-> channel, to |-> to]]
    /\ at' = [at EXCEPT ![m] = "next"]
    /\ wanted' = wanted \cup {<<m, u>> : u \in {v \in Users : enabled[v]}}
    /\ UNCHANGED <<enabled, changes, notifications, skipped, place, outboxVars>>

\* The list that the channel of the communication walks, and who comes next on it.
ListOf(m) == IF record[m].channel = "IN_APP" THEN record[m].to.users ELSE record[m].to.emails
Due(m) == ListOf(m)[place[m] + 1]
IsDue(m, channel) == record[m].channel = channel /\ place[m] < Len(ListOf(m))

IsChannelEnabled(m) ==
    /\ at[m] = "next" /\ IsDue(m, "IN_APP")
    /\ IF enabled[Due(m)]
       THEN at' = [at EXCEPT ![m] = "notify"] /\ UNCHANGED <<skipped, place>>
       ELSE /\ skipped' = [skipped EXCEPT ![m][Due(m)] = @ + 1]
            /\ place' = [place EXCEPT ![m] = @ + 1]
            /\ UNCHANGED at
    /\ UNCHANGED <<enabled, changes, record, notifications, wanted, outboxVars>>

CreateNotification(m) ==
    /\ at[m] = "notify"
    /\ notifications' = [notifications EXCEPT ![m][Due(m)] = @ + 1]
    /\ place' = [place EXCEPT ![m] = @ + 1]
    /\ at' = [at EXCEPT ![m] = "next"]
    /\ UNCHANGED <<enabled, changes, record, skipped, wanted, outboxVars>>

Mutant_FirstAddressOnly(m) ==
    /\ at[m] = "next" /\ IsDue(m, "EMAIL")
    /\ EnqueueOutbox(<<m, Due(m)>>)
    /\ place' = [place EXCEPT ![m] = Len(ListOf(m))]
    /\ UNCHANGED <<enabled, changes, record, notifications, skipped, at, wanted>>
QueueEmail(m) ==
    /\ at[m] = "next" /\ IsDue(m, "EMAIL")
    /\ EnqueueOutbox(<<m, Due(m)>>)
    /\ place' = [place EXCEPT ![m] = @ + 1]
    /\ UNCHANGED <<enabled, changes, record, notifications, skipped, at, wanted>>

AnswerSending(m) ==
    /\ at[m] = "next" /\ place[m] = Len(ListOf(m))
    /\ at' = [at EXCEPT ![m] = "answered"]
    /\ UNCHANGED <<enabled, changes, record, notifications, skipped, place, wanted, outboxVars>>

\* A statement fails or the process dies; what was written stays.
AbortSending(m) ==
    /\ at[m] \in {"next", "notify"}
    /\ at' = [at EXCEPT ![m] = "stopped"]
    /\ UNCHANGED <<enabled, changes, record, notifications, skipped, place, wanted, outboxVars>>

Send ==
    \E m \in Sendings :
        \/ \E ch \in Channels, to \in Recipients : SendCommunication(m, ch, to)
        \/ IsChannelEnabled(m) \/ CreateNotification(m) \/ QueueEmail(m)
        \/ AnswerSending(m) \/ AbortSending(m)

Next ==
    \/ \E u \in Users : SetPreference(u)
    \/ Send
    \/ OutboxNext /\ UNCHANGED commsVars

\* A consumer keeps going, and a delivery that can succeed does so when it is
\* tried again and again.
Fairness ==
    /\ \A c \in Consumers : WF_vars(Consume(c) /\ UNCHANGED commsVars)
    /\ \A i \in (1..MaxEvents) \ Poison :
           SF_vars((\E c \in Consumers : Delivered(c, i)) /\ UNCHANGED commsVars)
Spec == Init /\ [][Next]_vars /\ Fairness

-----------------------------------------------------------------------------
Times(list, x) == Cardinality({i \in DOMAIN list : list[i] = x})
EventsOf(m, a) == {i \in DOMAIN events : events[i].tag = <<m, a>>}

\* A communication that was answered has served the list of its channel, entry
\* by entry: a user is notified as often as listed, or named in the answer as left
\* out, and that with the channel off at some time meanwhile; an address has as
\* many e-mails as it stands on the list, two when it stands there twice.  The
\* other list is neither served nor reported: an answered EMAIL to users alone
\* has reached nobody.  All of it also when handlers stop and others go on.
AnsweredIsServed ==
    \A m \in Sendings : at[m] = "answered" =>
        LET inApp == record[m].channel = "IN_APP"
            to    == record[m].to
        IN  /\ \A u \in Users :
                  /\ notifications[m][u] + skipped[m][u] = IF inApp THEN Times(to.users, u) ELSE 0
                  /\ <<m, u>> \in wanted => skipped[m][u] = 0
            /\ \A a \in Addresses :
                  Cardinality(EventsOf(m, a)) = IF inApp THEN 0 ELSE Times(to.emails, a)
=============================================================================
