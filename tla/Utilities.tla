------------------------------ MODULE Utilities ------------------------------
(***************************************************************************)
(* Meter readings of a unit, what they are charged for, and the reminders  *)
(* about those charges.                                                    *)
(*                                                                         *)
(* recordMeterReading looks at the last reading twice, once to refuse a    *)
(* date before it and once to flag what is out of line with it, and then   *)
(* creates the row; others may do the same in between.                     *)
(***************************************************************************)
EXTENDS ArrearsRules

CONSTANTS
    Slots,              \* requests that may be under way at once
    Meters,             \* utilities of the unit
    Values, MaxDate,    \* what a meter may show, and when
    Periods, Channels,
    Overdue,            \* days by which a charge may be late
    MaxRequests

UtilAssumption == MaxDate \in Nat

VARIABLES
    readings,   \* by creation: [meter, value, date, anomaly, raced]; raced is history
    charges,    \* charges[p]: the UTILITY charge of period p: [reading, previous, confirmed],
                \* where one that was entered by hand has no reading
    settled,    \* periods whose charge was paid or waived
    reminders,  \* dunning events on file: <<period, stage, channel>>
    sentOut,    \* history: sentOut[r]: times reminder r was announced as sent
    pc, job, requests

utilVars == <<readings, charges, settled, reminders, sentOut, pc, job, requests>>
billing == <<charges, settled, reminders, sentOut>>

Idle == [kind |-> "none"]
NoCharge == [reading |-> 0, previous |-> 0, confirmed |-> FALSE]
ByHand == [reading |-> 0, previous |-> 0, confirmed |-> TRUE]
Reminders == Periods \X {3, 7, 15, 30} \X Channels

UtilTypeOK ==
    /\ \A i \in DOMAIN readings :
           /\ readings[i].meter \in Meters /\ readings[i].value \in Values
           /\ readings[i].date \in 0..MaxDate
           /\ readings[i].anomaly \in BOOLEAN /\ readings[i].raced \in BOOLEAN
    /\ charges \in [Periods -> [reading : 0..Len(readings), previous : 0..Len(readings),
                                confirmed : BOOLEAN]]
    /\ settled \subseteq Periods /\ reminders \subseteq Reminders
    /\ sentOut \in [Reminders -> Nat]
    /\ pc \in [Slots -> {"idle", "flag", "create", "charge", "remind"}]
    /\ requests \in 0..MaxRequests

UtilInit ==
    /\ readings = <<>> /\ charges = [p \in Periods |-> NoCharge]
    /\ settled = {} /\ reminders = {} /\ sentOut = [r \in Reminders |-> 0]
    /\ pc = [s \in Slots |-> "idle"] /\ job = [s \in Slots |-> Idle] /\ requests = 0

Go(s, step) == pc' = [pc EXCEPT ![s] = step]
Done(s) == Go(s, "idle") /\ job' = [job EXCEPT ![s] = Idle]
Arrives(s) == pc[s] = "idle" /\ requests < MaxRequests /\ requests' = requests + 1

-----------------------------------------------------------------------------
Of(meter) == {i \in DOMAIN readings : readings[i].meter = meter}
\* lastMeterReading: of several on the last day the database picks one; 0 when there is none.
LastReadings(meter) ==
    LET latest == Max({readings[i].date : i \in Of(meter)}) IN
    IF Of(meter) = {} THEN {0} ELSE {i \in Of(meter) : readings[i].date = latest}

Recording(meter) == {s \in Slots : job[s].kind = "record" /\ job[s].meter = meter}

CheckDate(s, meter, value, date) ==
    /\ Arrives(s)
    /\ \E i \in LastReadings(meter) : i # 0 => date >= readings[i].date
    /\ LET others == Recording(meter) IN
       job' = [q \in Slots |->
                 IF q = s THEN [kind |-> "record", meter |-> meter, value |-> value, date |-> date,
                                anomaly |-> FALSE, raced |-> others # {}]
                 ELSE IF q \in others THEN [job[q] EXCEPT !.raced = TRUE] ELSE job[q]]
    /\ Go(s, "flag") /\ UNCHANGED <<readings, billing>>

Mutant_FirstReading(s) ==
    LET j == job[s] first == {i \in Of(j.meter) : \A k \in Of(j.meter) : i <= k} \cup {0} IN
    /\ pc[s] = "flag"
    /\ \E i \in {Max(first)} :
           job' = [job EXCEPT ![s].anomaly = i # 0 /\ Anomalous(readings[i].value, j.value)]
    /\ Go(s, "create") /\ UNCHANGED <<readings, requests, billing>>
\* The first half of createMeterReading.
FlagAnomaly(s) ==
    LET j == job[s] IN
    /\ pc[s] = "flag"
    /\ \E i \in LastReadings(j.meter) :
           job' = [job EXCEPT ![s].anomaly = i # 0 /\ Anomalous(readings[i].value, j.value)]
    /\ Go(s, "create") /\ UNCHANGED <<readings, requests, billing>>

CreateMeterReading(s) ==
    LET j == job[s] IN
    /\ pc[s] = "create"
    /\ readings' = Append(readings, [meter |-> j.meter, value |-> j.value, date |-> j.date,
                                     anomaly |-> j.anomaly, raced |-> j.raced])
    /\ Done(s) /\ UNCHANGED <<requests, billing>>

-----------------------------------------------------------------------------
\* The reading before i in the list by date; days are in no order among themselves.
Predecessors(i) ==
    LET r == readings[i]
        before == {k \in Of(r.meter) : readings[k].date < r.date}
        latest == Max({readings[k].date : k \in before}) IN
    {k \in Of(r.meter) \ {i} : readings[k].date = r.date}
        \cup {k \in before : readings[k].date = latest}

\* chargeFromReading, up to the charge.
ReadHistory(s, i, period, confirmed) ==
    /\ Arrives(s)
    /\ \E p \in Predecessors(i) :
           /\ readings[i].value > readings[p].value
           /\ readings[i].anomaly => confirmed
           /\ job' = [job EXCEPT ![s] = [kind |-> "charge", period |-> period,
                          charge |-> [reading |-> i, previous |-> p, confirmed |-> confirmed]]]
    /\ Go(s, "charge") /\ UNCHANGED <<readings, billing>>

\* createCharge: a period has one charge of a type; who comes later is answered with it.
CreateCharge(s) ==
    LET j == job[s] IN
    /\ pc[s] = "charge"
    /\ charges' = [charges EXCEPT ![j.period] = IF @ = NoCharge THEN j.charge ELSE @]
    /\ Done(s) /\ UNCHANGED <<readings, settled, reminders, sentOut, requests>>

\* createAdHocCharge, which takes a UTILITY charge of any amount; so what a reading is worth
\* may never be charged.
EnterCharge(p) ==
    /\ requests < MaxRequests /\ requests' = requests + 1
    /\ charges' = [charges EXCEPT ![p] = IF @ = NoCharge THEN ByHand ELSE @]
    /\ UNCHANGED <<readings, settled, reminders, sentOut, pc, job>>

\* A payment or a waiver, see Collections.
Settle(p) ==
    /\ charges[p] # NoCharge /\ p \notin settled /\ settled' = settled \cup {p}
    /\ UNCHANGED <<readings, charges, reminders, sentOut, pc, job, requests>>

-----------------------------------------------------------------------------
\* recordDunningEvent: the event is looked up, and is unique as well.
FindDunningEvent(s, p, days, channel) ==
    LET stage == DunningStageFor(days) IN
    /\ pc[s] = "idle"
    /\ charges[p] # NoCharge /\ p \notin settled /\ stage # NoStage
    /\ <<p, stage, channel>> \notin reminders
    /\ job' = [job EXCEPT ![s] = [kind |-> "remind", event |-> <<p, stage, channel>>]]
    /\ Go(s, "remind") /\ UNCHANGED <<readings, requests, billing>>

CreateDunningEvent(s) ==
    LET event == job[s].event IN
    /\ pc[s] = "remind"
    /\ reminders' = reminders \cup {event}
    /\ sentOut' = [sentOut EXCEPT ![event] = @ + (IF event \in reminders THEN 0 ELSE 1)]
    /\ Done(s) /\ UNCHANGED <<readings, charges, settled, requests>>

UtilNext ==
    \/ \E p \in Periods : EnterCharge(p) \/ Settle(p)
    \/ \E s \in Slots :
        \/ \E m \in Meters, v \in Values, d \in 0..MaxDate : CheckDate(s, m, v, d)
        \/ FlagAnomaly(s) \/ CreateMeterReading(s)
        \/ \E i \in DOMAIN readings, p \in Periods, c \in BOOLEAN : ReadHistory(s, i, p, c)
        \/ CreateCharge(s)
        \/ \E p \in Periods, d \in Overdue, ch \in Channels : FindDunningEvent(s, p, d, ch)
        \/ CreateDunningEvent(s)

-----------------------------------------------------------------------------
\* Of charges that are made from a reading: one that is out of line with the reading before
\* it was confirmed by somebody, as long as a meter is read once a day and by one person at
\* a time.
SpikesAreConfirmed ==
    \A p \in Periods :
        LET c == charges[p] r == readings[c.reading] q == readings[c.previous]
            oneADay == \A i, k \in Of(r.meter) : i # k => readings[i].date # readings[k].date IN
        c.reading # 0 /\ ~r.raced /\ oneADay /\ Anomalous(q.value, r.value) => c.confirmed

\* A stage of a charge is announced once on a channel, also by people who do so at the
\* same time.
DunnedOnce == \A r \in Reminders : sentOut[r] <= 1
=============================================================================
