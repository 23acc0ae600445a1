------------------------------ MODULE Properties ------------------------------
(***************************************************************************)
(* PropertiesService over its Prisma store, for one property: its units,   *)
(* owners, tenancies, attachments and settings.                            *)
(*                                                                         *)
(* Who adds an owner or a tenancy first reads what is there, then writes   *)
(* the person and then the row that binds the person to the property.      *)
(***************************************************************************)
EXTENDS Integers, Sequences, FiniteSets, SequencesExt

CONSTANTS
    Slots,        \* requests that may be under way at once
    UnitLists,    \* sequences of unit codes a property may be created with
    Shares,       \* percentages an owner may be given
    Periods,      \* [from, to]: times are counted in half days, odd ones are at noon
    Open,         \* the end of a tenancy without one, after every other time and even
    MaxRequests   \* bound on the requests of a behaviour

\* Shares are checked as they come in; a tenancy is given with times, or without an end.
PropAssumption ==
    /\ Open \in Nat
    /\ Shares \subseteq 1..100 /\ Periods \subseteq [from : 0..Open, to : 0..Open]

VARIABLES
    units,        \* unit codes of the property; empty before it is created
    ownerships,   \* shares on file, by owner added; no code ends one
    tenancies,    \* [unit, from, to], columns of type DATE; raced and timed are history
    people,       \* owners and tenants on file that nothing binds to the property yet
    attachments,  \* ids of the attachments on file
    configured,   \* the units, and the property, that have settings
    complete,     \* history: setupStatus said that the set-up is complete
    racedShares,  \* history: two additions of an owner overlapped
    pc, job, requests

tables == <<units, ownerships, tenancies, people, attachments, configured>>
propVars == <<tables, complete, racedShares, pc, job, requests>>

Idle == [kind |-> "none"]
NoUnit == "-"
Property == "*"
UnitCodes == UNION {ToSet(l) : l \in UnitLists}

PropTypeOK ==
    /\ units \subseteq UnitCodes /\ configured \subseteq units \cup {Property}
    /\ ownerships \in Seq(Shares)
    /\ \A i \in DOMAIN tenancies :
           /\ tenancies[i].unit \in units \cup {NoUnit}
           /\ tenancies[i].from \in 0..Open /\ tenancies[i].to \in 0..Open
    /\ people \in Nat /\ attachments \subseteq 1..requests
    /\ complete \in BOOLEAN /\ racedShares \in BOOLEAN
    /\ pc \in [Slots -> {"idle", "create", "bind", "read", "delete"}]
    /\ requests \in 0..MaxRequests

PropInit ==
    /\ units = {} /\ ownerships = <<>> /\ tenancies = <<>> /\ people = 0
    /\ attachments = {} /\ configured = {}
    /\ complete = FALSE /\ racedShares = FALSE
    /\ pc = [s \in Slots |-> "idle"] /\ job = [s \in Slots |-> Idle] /\ requests = 0

-----------------------------------------------------------------------------
Counted == requests < MaxRequests /\ requests' = requests + 1
Arrives(s) == pc[s] = "idle" /\ Counted
Go(s, step) == pc' = [pc EXCEPT ![s] = step]
Done(s) == Go(s, "idle") /\ job' = [job EXCEPT ![s] = Idle]
Of(kind) == {s \in Slots : job[s].kind = kind}
Created == units # {}

ValidateBulkUnits(list) == list # <<>> /\ IsInjective(list)

CreatePropertyWithUnits(list) ==
    /\ ~Created /\ ValidateBulkUnits(list)
    /\ units' = ToSet(list)
    /\ UNCHANGED <<requests, ownerships, tenancies, people, attachments, configured, complete, racedShares,
                   pc, job>>

\* updatePropertyConfig and updateUnitConfig
UpdateConfig(of) ==
    /\ Created /\ of \in units \cup {Property} /\ Counted
    /\ configured' = configured \cup {of}
    /\ UNCHANGED <<units, ownerships, tenancies, people, attachments, complete, racedShares, pc, job>>

AddAttachment(unit) ==
    /\ Created /\ unit \in units \cup {NoUnit} /\ Counted
    /\ attachments' = attachments \cup {requests'}
    /\ UNCHANGED <<units, ownerships, tenancies, people, configured, complete, racedShares, pc, job>>

FindAttachment(s, id) ==
    /\ Arrives(s) /\ id \in attachments
    /\ job' = [job EXCEPT ![s] = [kind |-> "attachment", id |-> id]]
    /\ Go(s, "delete") /\ UNCHANGED <<tables, complete, racedShares>>
\* Prisma throws when the row is gone by now.
DeleteAttachment(s) ==
    /\ pc[s] = "delete"
    /\ attachments' = attachments \ {job[s].id}
    /\ Done(s)
    /\ UNCHANGED <<units, ownerships, tenancies, people, configured, complete, racedShares, requests>>

-----------------------------------------------------------------------------
(***************************************************************************)
(* addOwnerWithShare                                                       *)
(***************************************************************************)
OwnershipTotalPct == FoldSeq(+, 0, ownerships)

AddOwnerWithShare(s, pct) ==
    /\ Arrives(s) /\ Created /\ OwnershipTotalPct + pct <= 100
    /\ job' = [job EXCEPT ![s] = [kind |-> "owner", share |-> pct]]
    /\ racedShares' = (racedShares \/ Of("owner") # {})
    /\ Go(s, "create") /\ UNCHANGED <<tables, complete>>

\* createOwner and createTenant
CreatePerson(s) ==
    /\ pc[s] = "create" /\ Go(s, "bind")
    /\ people' = people + 1
    /\ UNCHANGED <<units, ownerships, tenancies, attachments, configured, complete, racedShares,
                   job, requests>>

AssignOwnership(s) ==
    /\ pc[s] = "bind" /\ job[s].kind = "owner"
    /\ ownerships' = Append(ownerships, job[s].share) /\ people' = people - 1
    /\ Done(s)
    /\ UNCHANGED <<units, tenancies, attachments, configured, complete, racedShares, requests>>

-----------------------------------------------------------------------------
(***************************************************************************)
(* addTenantWithTenancy                                                    *)
(***************************************************************************)
Mutant_StartInside(a, b) == a.from <= b.from /\ b.from <= a.to
TenancyPeriodsOverlap(a, b) == a.from <= b.to /\ b.from <= a.to

\* unitTenancyPeriods compared with the candidate as it was given.
UnitIsFree(unit, candidate) ==
    \A i \in DOMAIN tenancies :
        tenancies[i].unit = unit => ~TenancyPeriodsOverlap(tenancies[i], candidate)

AddTenantWithTenancy(s, unit, candidate) ==
    LET others == {q \in Of("tenant") : job[q].unit = unit} IN
    /\ Arrives(s) /\ Created
    /\ unit # NoUnit => unit \in units /\ UnitIsFree(unit, candidate)
    /\ job' = [q \in Slots |->
                 IF q = s THEN [kind |-> "tenant", unit |-> unit, period |-> candidate,
                                raced |-> others # {}]
                 ELSE IF q \in others THEN [job[q] EXCEPT !.raced = TRUE] ELSE job[q]]
    /\ Go(s, "create") /\ UNCHANGED <<tables, complete, racedShares>>

\* A column of type DATE keeps the day.
Midnight(t) == t - (t % 2)

CreateTenancy(s) ==
    LET j == job[s] p == j.period IN
    /\ pc[s] = "bind" /\ j.kind = "tenant"
    /\ tenancies' = Append(tenancies,
           [unit |-> j.unit, from |-> Midnight(p.from), to |-> Midnight(p.to), raced |-> j.raced,
            timed |-> p.from # Midnight(p.from) \/ p.to # Midnight(p.to)])
    /\ people' = people - 1
    /\ Done(s)
    /\ UNCHANGED <<units, ownerships, attachments, configured, complete, racedShares, requests>>

\* The process ends, or the database does, between the person and the row that binds it.
Abort(s) == pc[s] \in {"create", "bind"} /\ Done(s) /\ UNCHANGED <<tables, complete, racedShares, requests>>

-----------------------------------------------------------------------------
(***************************************************************************)
(* setupStatus awaits its queries together: they read in any order.        *)
(***************************************************************************)
SetupChecklist(unitCount, total, count) == unitCount > 0 /\ total = 100 /\ count > 0

SetupStatus(s) ==
    /\ Arrives(s) /\ Created
    /\ job' = [job EXCEPT ![s] = [kind |-> "setup", read |-> {}, total |-> 0, count |-> 0]]
    /\ Go(s, "read") /\ UNCHANGED <<tables, complete, racedShares>>

\* The last of the queries answers the request.
Query(s, what) ==
    LET j == [job[s] EXCEPT !.read = @ \cup {what},
                            !.total = IF what = "total" THEN OwnershipTotalPct ELSE @,
                            !.count = IF what = "count" THEN Len(tenancies) ELSE @]
        last == j.read = {"total", "count"} IN
    /\ pc[s] = "read" /\ what \notin job[s].read
    /\ complete' = (complete \/ (last /\ SetupChecklist(Cardinality(units), j.total, j.count)))
    /\ IF last THEN Done(s) ELSE job' = [job EXCEPT ![s] = j] /\ UNCHANGED pc
    /\ UNCHANGED <<tables, racedShares, requests>>

PropNext ==
    \/ \E l \in UnitLists : CreatePropertyWithUnits(l)
    \/ \E u \in UnitCodes \cup {Property} : UpdateConfig(u)
    \/ \E u \in UnitCodes \cup {NoUnit} : AddAttachment(u)
    \/ \E s \in Slots :
        \/ \E id \in attachments : FindAttachment(s, id)
        \/ DeleteAttachment(s)
        \/ \E pct \in Shares : AddOwnerWithShare(s, pct)
        \/ CreatePerson(s) \/ AssignOwnership(s) \/ CreateTenancy(s) \/ Abort(s)
        \/ \E u \in UnitCodes \cup {NoUnit}, p \in Periods : AddTenantWithTenancy(s, u, p)
        \/ SetupStatus(s)
        \/ \E what \in {"total", "count"} : Query(s, what)

-----------------------------------------------------------------------------
\* No two tenancies of a unit share a day, whatever their order and however they end,
\* when both were given in whole days and were not added at the same time.
TenanciesApart ==
    \A i, k \in DOMAIN tenancies :
        LET a == tenancies[i] b == tenancies[k] IN
        i # k /\ a.unit = b.unit /\ a.unit # NoUnit /\ ~a.raced /\ ~b.raced
              /\ ~a.timed /\ ~b.timed
            => ~\E d \in 0..Open : a.from <= d /\ d <= a.to /\ b.from <= d /\ d <= b.to

\* A property whose set-up was reported complete stays completely set up: nobody's share
\* is added to shares that make a whole, unless two were added at the same time.
SetUpStays ==
    complete /\ ~racedShares =>
        SetupChecklist(Cardinality(units), OwnershipTotalPct, Len(tenancies))
=============================================================================
