----------------------------- MODULE Operations -----------------------------
(***************************************************************************)
(* MaintenanceService, CasesService, DirectoryService and HandoverService  *)
(* over their one Prisma store.                                            *)
(*                                                                         *)
(* A property and a supplier are named by the organization they belong to. *)
(* The row of a table is what it refers to; text, prices and dates are     *)
(* left out.  Nothing is ever deleted, so a handler with one write is one  *)
(* action; a transition loads and judges the status before it writes, a    *)
(* house rule reads the last version, a handover writes its document first.*)
(***************************************************************************)
EXTENDS Integers, Sequences, FiniteSets

CONSTANTS
    Slots,        \* handlers that may be under way at once
    Orgs,
    NoOne,        \* no supplier, or no property
    MaxRequests   \* bound on the requests of a behaviour

Tickets == {"request", "complaint", "claim"}
Tables == Tickets \cup {"purchase", "insurance", "taxRecord", "workOrder", "handover"}
RequestStatus == {"OPEN", "IN_PROGRESS", "ON_HOLD", "RESOLVED", "CLOSED"}
CaseStatus == {"open", "in_progress", "resolved", "closed"}
NoOrder == [status |-> "none", supplier |-> NoOne]

VARIABLES
    suppliers,  \* organizations that have entered their supplier
    rows,       \* [table, org, property, supplier]
    status,     \* status[t]: of the maintenance request, the complaint, the claim
    order,      \* the work order of the request
    rules,      \* versions of the house rules, in the order of their inserts
    acts,       \* documents written for handovers
    pc, job,    \* where the handler of each slot stands and what it knows
    requests,   \* requests so far
    overlapped  \* history: two handlers were between load and write at once

tables == <<suppliers, rows, status, order, rules, acts>>
opsVars == <<tables, pc, job, requests, overlapped>>

Idle == [kind |-> "none"]
Row(table, org, property, supplier) ==
    [table |-> table, org |-> org, property |-> property, supplier |-> supplier]

OpsTypeOK ==
    /\ suppliers \subseteq Orgs
    /\ \A r \in rows : r.table \in Tables /\ r.org \in Orgs
    /\ status \in [Tickets -> {"none"} \cup RequestStatus \cup CaseStatus]
    /\ order.status \in {"none"} \cup RequestStatus /\ order.supplier \in Orgs \cup {NoOne}
    /\ rules \in Seq(Nat \ {0}) /\ acts \in Nat
    /\ pc \in [Slots -> {"idle", "write", "act", "handover"}]
    /\ requests \in 0..MaxRequests /\ overlapped \in BOOLEAN

OpsInit ==
    /\ suppliers = {} /\ rows = {} /\ order = NoOrder /\ rules = <<>> /\ acts = 0
    /\ status = [t \in Tickets |-> "none"]
    /\ pc = [s \in Slots |-> "idle"] /\ job = [s \in Slots |-> Idle]
    /\ requests = 0 /\ overlapped = FALSE

-----------------------------------------------------------------------------
Counted == requests < MaxRequests /\ requests' = requests + 1
OneWrite == Counted /\ UNCHANGED <<pc, job, overlapped>>

Begin(s, step, request) ==
    /\ pc[s] = "idle" /\ Counted
    /\ pc' = [pc EXCEPT ![s] = step]
    /\ job' = [job EXCEPT ![s] = request]
    /\ overlapped' = (overlapped \/ \E q \in Slots : job[q].kind = request.kind)
    /\ UNCHANGED tables
At(s, step, kind) == pc[s] = step /\ job[s].kind = kind
Done(s) ==
    /\ pc' = [pc EXCEPT ![s] = "idle"]
    /\ job' = [job EXCEPT ![s] = Idle]
    /\ UNCHANGED <<requests, overlapped>>

\* findProperty and findSupplier look inside the organization only; a supplier
\* need not be named.
FindProperty(org, property) == property = org
FindSupplier(org, supplier) == supplier = NoOne \/ (supplier = org /\ supplier \in suppliers)

(***************************************************************************)
(* createRequest, createComplaint, createClaim and their transitions       *)
(***************************************************************************)
\* A ticket has one row here: a unit named with a request is one of the property.
CreateTicket(table, org, property) ==
    /\ OneWrite
    /\ status[table] = "none" /\ FindProperty(org, property)
    /\ status' = [status EXCEPT ![table] = IF table = "request" THEN "OPEN" ELSE "open"]
    /\ rows' = rows \cup {Row(table, org, property, NoOne)}
    /\ UNCHANGED <<suppliers, order, rules, acts>>

CreateRequest(org, property) == CreateTicket("request", org, property)
CreateComplaint(org, property) == CreateTicket("complaint", org, property)
CreateClaim(org, property) == CreateTicket("claim", org, property)

\* MAINTENANCE_TRANSITIONS
CanTransitionMaintenance(from) ==
    CASE from = "OPEN"        -> {"IN_PROGRESS", "CLOSED"}
      [] from = "IN_PROGRESS" -> {"ON_HOLD", "RESOLVED", "CLOSED"}
      [] from = "ON_HOLD"     -> {"IN_PROGRESS", "CLOSED"}
      [] from = "RESOLVED"    -> {"CLOSED"}
      [] OTHER                -> {}

\* CASE_TRANSITIONS: a closed case may be opened again.
CanTransitionCase(from) ==
    CASE from = "open"        -> {"in_progress", "closed"}
      [] from = "in_progress" -> {"resolved", "closed"}
      [] from = "resolved"    -> {"closed", "open"}
      [] from = "closed"      -> {"open"}
      [] OTHER                -> {}

TransitionRequest(s, to) ==
    /\ to \in CanTransitionMaintenance(status["request"])
    /\ Begin(s, "write", [kind |-> "transition", table |-> "request", to |-> to])

TransitionCase(s, table, to) ==
    /\ table # "request" /\ to \in CanTransitionCase(status[table])
    /\ Begin(s, "write", [kind |-> "transition", table |-> table, to |-> to])

\* setMaintenanceStatus, setComplaintStatus, setClaimStatus
SetStatus(s) ==
    /\ At(s, "write", "transition")
    /\ status' = [status EXCEPT ![job[s].table] = job[s].to]
    /\ Done(s)
    /\ UNCHANGED <<suppliers, rows, order, rules, acts>>

(***************************************************************************)
(* Work orders: any status follows any other, whatever the request says    *)
(***************************************************************************)
HasRequest(org) == \E r \in rows : r.table = "request" /\ r.org = org

CreateWorkOrder(org, supplier) ==
    /\ OneWrite
    /\ order = NoOrder /\ HasRequest(org) /\ FindSupplier(org, supplier)
    /\ order' = [status |-> "OPEN", supplier |-> supplier]
    /\ UNCHANGED <<suppliers, rows, status, rules, acts>>

Mutant_OrderChangesRequest(org, to) ==
    /\ OneWrite
    /\ order # NoOrder /\ HasRequest(org)
    /\ order' = [order EXCEPT !.status = to]
    /\ status' = [status EXCEPT !["request"] = to]
    /\ UNCHANGED <<suppliers, rows, rules, acts>>
TransitionWorkOrder(org, to) ==
    /\ OneWrite
    /\ order # NoOrder /\ HasRequest(org)
    /\ order' = [order EXCEPT !.status = to]
    /\ UNCHANGED <<suppliers, rows, status, rules, acts>>

Mutant_SupplierOfAnyone(org, supplier) ==
    /\ OneWrite
    /\ order # NoOrder /\ HasRequest(org) /\ supplier \in suppliers
    /\ order' = [order EXCEPT !.supplier = supplier]
    /\ UNCHANGED <<suppliers, rows, status, rules, acts>>
AssignSupplierToWorkOrder(org, supplier) ==
    /\ OneWrite
    /\ order # NoOrder /\ HasRequest(org) /\ FindSupplier(org, supplier) /\ supplier # NoOne
    /\ order' = [order EXCEPT !.supplier = supplier]
    /\ UNCHANGED <<suppliers, rows, status, rules, acts>>

(***************************************************************************)
(* The directory: suppliers, purchases, insurance, tax records             *)
(***************************************************************************)
CreateSupplier(org) ==
    /\ OneWrite
    /\ suppliers' = suppliers \cup {org}
    /\ UNCHANGED <<rows, status, order, rules, acts>>

Enter(row) ==
    /\ OneWrite
    /\ rows' = rows \cup {row}
    /\ UNCHANGED <<suppliers, status, order, rules, acts>>

CreatePurchase(org, property, supplier) ==
    /\ FindProperty(org, property) /\ FindSupplier(org, supplier)
    /\ Enter(Row("purchase", org, property, supplier))

CreateInsurance(org, property) ==
    /\ property = NoOne \/ FindProperty(org, property)
    /\ Enter(Row("insurance", org, property, NoOne))

CreateTaxRecord(org) == Enter(Row("taxRecord", org, NoOne, NoOne))

(***************************************************************************)
(* publishHouseRule, createHouseRule: no unique key on the version         *)
(***************************************************************************)
Last(versions) == IF versions = <<>> THEN 0
                  ELSE CHOOSE v \in {versions[i] : i \in DOMAIN versions} :
                           \A i \in DOMAIN versions : versions[i] <= v

FindLastRule(s) == Begin(s, "write", [kind |-> "rule", last |-> Last(rules)])

CreateHouseRule(s) ==
    /\ At(s, "write", "rule")
    /\ rules' = Append(rules, job[s].last + 1)
    /\ Done(s)
    /\ UNCHANGED <<suppliers, rows, status, order, acts>>

(***************************************************************************)
(* recordHandover: it proposes a deduction and moves no deposit            *)
(***************************************************************************)
RecordHandover(s, org, property) ==
    /\ FindProperty(org, property)
    /\ Begin(s, "act", [kind |-> "handover", org |-> org])

CreateAct(s) ==
    /\ At(s, "act", "handover")
    /\ acts' = acts + 1
    /\ pc' = [pc EXCEPT ![s] = "handover"]
    /\ UNCHANGED <<suppliers, rows, status, order, rules, job, requests, overlapped>>

CreateHandover(s) ==
    LET org == job[s].org IN
    /\ At(s, "handover", "handover")
    /\ rows' = rows \cup {Row("handover", org, org, NoOne)}
    /\ Done(s)
    /\ UNCHANGED <<suppliers, status, order, rules, acts>>

-----------------------------------------------------------------------------
\* A statement fails or the process dies; what was written stays.
Abort(s) == pc[s] # "idle" /\ Done(s) /\ UNCHANGED tables

OpsNext ==
    \/ \E org \in Orgs :
        \/ \E p \in Orgs :
            CreateRequest(org, p) \/ CreateComplaint(org, p) \/ CreateClaim(org, p)
        \/ \E x \in Orgs \cup {NoOne} :
            \/ CreateWorkOrder(org, x) \/ AssignSupplierToWorkOrder(org, x)
            \/ CreateInsurance(org, x) \/ \E p \in Orgs : CreatePurchase(org, p, x)
        \/ \E to \in RequestStatus : TransitionWorkOrder(org, to)
        \/ CreateSupplier(org) \/ CreateTaxRecord(org)
    \/ \E s \in Slots :
        \/ \E to \in RequestStatus : TransitionRequest(s, to)
        \/ \E t \in Tickets, to \in CaseStatus : TransitionCase(s, t, to)
        \/ SetStatus(s)
        \/ FindLastRule(s) \/ CreateHouseRule(s)
        \/ \E org, p \in Orgs : RecordHandover(s, org, p)
        \/ CreateAct(s) \/ CreateHandover(s)
        \/ Abort(s)

-----------------------------------------------------------------------------
\* A closed maintenance request stays closed, whatever happens to its work
\* order, until two transitions overlap.
ClosedIsFinal ==
    [][status["request"] = "CLOSED" /\ ~overlapped => status'["request"] = "CLOSED"]_opsVars

\* The rules of a property are numbered 1, 2, 3, ... however publications fail,
\* until two of them overlap.
RulesAreNumbered == ~overlapped => \A i \in DOMAIN rules : rules[i] = i

\* What a row refers to exists and belongs to the organization of the row, down
\* to the supplier of a work order, and no handover is on file without an act.
ReferencesStayHome ==
    /\ \A r \in rows : /\ r.property \in {r.org, NoOne}
                       /\ r.supplier \in {NoOne} \cup ({r.org} \cap suppliers)
    /\ order # NoOrder => \A r \in rows : r.table = "request" =>
                              order.supplier \in {NoOne} \cup ({r.org} \cap suppliers)
    /\ Cardinality({r \in rows : r.table = "handover"}) <= acts
=============================================================================
