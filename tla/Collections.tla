---------------------------- MODULE Collections ----------------------------
(***************************************************************************)
(* Charges and payments of one contract: RentalService.recordPayment,      *)
(* generateMonthlyCharge, createAdHocCharge and the Prisma statements they *)
(* await.  The API opens no transaction, so every awaited statement is a   *)
(* step of its own and the requests of several users interleave between    *)
(* any two of them.  A request may also stop between two statements: a     *)
(* statement fails, or the process dies.                                   *)
(*                                                                         *)
(* allocatePayment is pure, so the share of a charge is computed when its  *)
(* Allocation row is written, from the balances read before.               *)
(***************************************************************************)
EXTENDS Integers, FiniteSets, Functions

CONSTANTS
    Payments,       \* POST .../payments requests; each stores one Payment row
    Generators,     \* requests that create a charge
    Charges,        \* values of the unique key (period, type) of a Charge
    RentCharges,    \* the keys of type RENT, made by charges:generate
    Due,            \* Due[c] is the day periodDueDate gives the key c
    PayAmounts,     \* amounts in minor units a payment may carry
    ChargeAmounts   \* amounts in minor units a charge may carry

ASSUME ChargesAssumption == RentCharges \subseteq Charges /\ IsFiniteSet(Charges)
ASSUME DueAssumption == Due \in [Charges -> Nat]
ASSUME AmountsAssumption == PayAmounts \subseteq Nat /\ ChargeAmounts \subseteq Nat
ASSUME PaymentsAssumption == IsFiniteSet(Payments)

VARIABLES
    status,     \* status of each Charge row, "NONE" while there is no row
    amount,     \* amount of each Charge row
    allocated,  \* sum of the Allocation rows of each charge
    alloc,      \* alloc[p][c]: the Allocation row of payment p on charge c, 0 if none
    receipts,   \* payments that have a Receipt row
    pc,         \* where the handler of each payment stands
    amt,        \* the amount of each payment
    seen,       \* charges pendingChargeBalances returned to the handler
    bal,        \* the balances it returned with them
    left,       \* what allocatePayment has still to hand out
    todo,       \* charges its loop has still to visit
    mark,       \* charges whose status the handler has still to write
    gpc,        \* where each charge-creating request stands
    gkey,       \* the key it creates
    gamt,       \* the amount it computed
    peak        \* history: the most payments that were in flight at once

charges  == <<status, amount, allocated>>
rows     == <<alloc, receipts>>
locals   == <<pc, amt, seen, bal, left, todo, mark>>
glocals  == <<gpc, gkey, gamt>>
vars     == <<charges, rows, locals, glocals, peak>>

PayPC == {"idle", "stored", "allocating", "receipted", "done", "failed"}
GenPC == {"idle", "creating", "auditing", "created", "existing", "failed"}
\* No code sets the statuses OVERDUE and WAIVED of the schema.
ChargeStatus == {"NONE", "PENDING", "PARTIAL", "PAID"}

TypeOK ==
    /\ status \in [Charges -> ChargeStatus]
    /\ amount \in [Charges -> Nat]
    /\ allocated \in [Charges -> Nat]
    /\ alloc \in [Payments -> [Charges -> Nat]]
    /\ receipts \subseteq Payments
    /\ pc \in [Payments -> PayPC]
    /\ amt \in [Payments -> Nat]
    /\ seen \in [Payments -> SUBSET Charges]
    /\ bal \in [Payments -> [Charges -> Int]]
    /\ left \in [Payments -> Nat]
    /\ todo \in [Payments -> SUBSET Charges]
    /\ mark \in [Payments -> SUBSET Charges]
    /\ gpc \in [Generators -> GenPC]
    /\ gkey \in [Generators -> Charges]
    /\ gamt \in [Generators -> Nat]
    /\ peak \in Nat

Init ==
    /\ status = [c \in Charges |-> "NONE"]
    /\ amount = [c \in Charges |-> 0]
    /\ allocated = [c \in Charges |-> 0]
    /\ alloc = [p \in Payments |-> [c \in Charges |-> 0]]
    /\ receipts = {}
    /\ pc = [p \in Payments |-> "idle"]
    /\ amt = [p \in Payments |-> 0]
    /\ seen = [p \in Payments |-> {}]
    /\ bal = [p \in Payments |-> [c \in Charges |-> 0]]
    /\ left = [p \in Payments |-> 0]
    /\ todo = [p \in Payments |-> {}]
    /\ mark = [p \in Payments |-> {}]
    /\ gpc = [g \in Generators |-> "idle"]
    /\ gkey \in [Generators -> Charges]
    /\ gamt = [g \in Generators |-> 0]
    /\ peak = 0

-----------------------------------------------------------------------------
(***************************************************************************)
(* Creating charges.                                                       *)
(***************************************************************************)

\* generateMonthlyCharge: read the contract's rent, look for the period's
\* charge, and answer with it when there is one.
GenerateMonthlyCharge(g, rent) ==
    /\ gpc[g] = "idle" /\ gkey[g] \in RentCharges
    /\ gamt' = [gamt EXCEPT ![g] = rent]
    /\ gpc' = [gpc EXCEPT ![g] = IF status[gkey[g]] # "NONE" THEN "existing" ELSE "creating"]
    /\ UNCHANGED <<gkey, charges, rows, locals, peak>>

\* createAdHocCharge: no look-up, straight to the insert.
CreateAdHocCharge(g, a) ==
    /\ gpc[g] = "idle" /\ gkey[g] \notin RentCharges
    /\ gamt' = [gamt EXCEPT ![g] = a]
    /\ gpc' = [gpc EXCEPT ![g] = "creating"]
    /\ UNCHANGED <<gkey, charges, rows, locals, peak>>

Mutant_UpsertCharge(g) ==
    /\ gpc[g] = "creating"
    /\ gpc' = [gpc EXCEPT ![g] = "auditing"]
    /\ status' = [status EXCEPT ![gkey[g]] = "PENDING"]
    /\ amount' = [amount EXCEPT ![gkey[g]] = gamt[g]]
    /\ UNCHANGED <<allocated, gkey, gamt, rows, locals, peak>>
\* The store's createCharge: the unique key (contract, period, type) lets one
\* insert through; a later one is answered with the row that is there.
CreateCharge(g) ==
    LET c == gkey[g] IN
    /\ gpc[g] = "creating"
    /\ gpc' = [gpc EXCEPT ![g] = "auditing"]
    /\ \/ /\ status[c] = "NONE"
          /\ status' = [status EXCEPT ![c] = "PENDING"]
          /\ amount' = [amount EXCEPT ![c] = gamt[g]]
       \/ /\ status[c] # "NONE"
          /\ UNCHANGED <<status, amount>>
    /\ UNCHANGED <<allocated, gkey, gamt, rows, locals, peak>>

\* The audit event, then the answer { charge, created: true }.
AuditCharge(g) ==
    /\ gpc[g] = "auditing"
    /\ gpc' = [gpc EXCEPT ![g] = "created"]
    /\ UNCHANGED <<gkey, gamt, charges, rows, locals, peak>>

-----------------------------------------------------------------------------
(***************************************************************************)
(* Recording a payment.                                                    *)
(***************************************************************************)

InFlight(p) == pc[p] \in {"stored", "allocating", "receipted"}

\* Everything up to and including createPayment.  toMinor rejects an amount
\* that is not positive before it rounds, so a stored amount can be 0.
StorePayment(p, a) ==
    /\ pc[p] = "idle"
    /\ pc' = [pc EXCEPT ![p] = "stored"]
    /\ amt' = [amt EXCEPT ![p] = a]
    /\ LET n == Cardinality({q \in Payments : InFlight(q)}) + 1
       IN  peak' = IF n > peak THEN n ELSE peak
    /\ UNCHANGED <<seen, bal, left, todo, mark, charges, rows, glocals>>

Pending(c) == status[c] \in {"PENDING", "PARTIAL"}

Mutant_FullAmount(c) == amount[c]
Balance(c) == amount[c] - allocated[c]

\* pendingChargeBalances, then the checks and filter of allocatePayment, which
\* throws on an amount of 0: the Payment row stays, the request fails.
ReadBalances(p) ==
    LET open == {c \in Charges : Pending(c)} IN
    /\ pc[p] = "stored"
    /\ seen' = [seen EXCEPT ![p] = open]
    /\ bal' = [bal EXCEPT ![p] = [c \in Charges |-> IF c \in open THEN Balance(c) ELSE 0]]
    /\ left' = [left EXCEPT ![p] = amt[p]]
    /\ todo' = [todo EXCEPT ![p] = {c \in open : Balance(c) > 0}]
    /\ pc' = [pc EXCEPT ![p] = IF amt[p] = 0 THEN "failed" ELSE "allocating"]
    /\ UNCHANGED <<amt, mark, charges, rows, glocals, peak>>

Mutant_AnyOrder(c, S) == c \in S
Oldest(c, S) == c \in S /\ \A d \in S : Due[c] <= Due[d]

\* allocatePayment: a charge gets its whole balance or what is left.
Share(p, c) == IF bal[p][c] <= left[p] THEN bal[p][c] ELSE left[p]

\* createAllocation for the next charge, oldest due date first.
Allocate(p, c) ==
    /\ pc[p] = "allocating"
    /\ left[p] > 0 /\ Oldest(c, todo[p])
    /\ alloc' = [alloc EXCEPT ![p][c] = @ + Share(p, c)]
    /\ allocated' = [allocated EXCEPT ![c] = @ + Share(p, c)]
    /\ left' = [left EXCEPT ![p] = @ - Share(p, c)]
    /\ todo' = [todo EXCEPT ![p] = @ \ {c}]
    /\ mark' = [mark EXCEPT ![p] = @ \cup {c}]
    /\ UNCHANGED <<status, amount, receipts, pc, amt, seen, bal, glocals, peak>>

AllocationDone(p) == left[p] = 0 \/ todo[p] = {}

Mutant_StatusSwapped(balance, paid) ==
    IF paid <= 0 THEN "PENDING" ELSE IF balance >= paid THEN "PAID" ELSE "PARTIAL"
\* The status the handler derives from the balance it read and what it paid.
ChargePaymentStatus(balance, paid) ==
    IF paid <= 0 THEN "PENDING" ELSE IF paid >= balance THEN "PAID" ELSE "PARTIAL"

\* updateChargeStatus for the next charge that received money.
MarkStatus(p, c) ==
    /\ pc[p] = "allocating" /\ AllocationDone(p)
    /\ Oldest(c, mark[p])
    /\ status' = [status EXCEPT ![c] = ChargePaymentStatus(bal[p][c], alloc[p][c])]
    /\ mark' = [mark EXCEPT ![p] = @ \ {c}]
    /\ UNCHANGED <<amount, allocated, rows, pc, amt, seen, bal, left, todo, glocals, peak>>

Mutant_ReceiptFirst(p) ==
    /\ pc[p] = "allocating" /\ AllocationDone(p)
    /\ receipts' = receipts \cup {p}
    /\ pc' = [pc EXCEPT ![p] = "receipted"]
    /\ UNCHANGED <<alloc, amt, seen, bal, left, todo, mark, charges, glocals, peak>>
IssueReceipt(p) ==
    /\ pc[p] = "allocating" /\ AllocationDone(p) /\ mark[p] = {}
    /\ receipts' = receipts \cup {p}
    /\ pc' = [pc EXCEPT ![p] = "receipted"]
    /\ UNCHANGED <<alloc, amt, seen, bal, left, todo, mark, charges, glocals, peak>>

AuditPayment(p) ==
    /\ pc[p] = "receipted"
    /\ pc' = [pc EXCEPT ![p] = "done"]
    /\ UNCHANGED <<amt, seen, bal, left, todo, mark, charges, rows, glocals, peak>>

-----------------------------------------------------------------------------
\* A statement fails or the process dies: the request ends where it stands and
\* what it wrote stays.
AbortPayment(p) ==
    /\ InFlight(p)
    /\ pc' = [pc EXCEPT ![p] = "failed"]
    /\ UNCHANGED <<amt, seen, bal, left, todo, mark, charges, rows, glocals, peak>>

AbortGenerator(g) ==
    /\ gpc[g] \in {"creating", "auditing"}
    /\ gpc' = [gpc EXCEPT ![g] = "failed"]
    /\ UNCHANGED <<gkey, gamt, charges, rows, locals, peak>>

Next ==
    \/ \E g \in Generators :
          \/ \E a \in ChargeAmounts : GenerateMonthlyCharge(g, a) \/ CreateAdHocCharge(g, a)
          \/ CreateCharge(g) \/ AuditCharge(g) \/ AbortGenerator(g)
    \/ \E p \in Payments :
          \/ \E a \in PayAmounts : StorePayment(p, a)
          \/ \E c \in Charges : Allocate(p, c) \/ MarkStatus(p, c)
          \/ ReadBalances(p) \/ IssueReceipt(p) \/ AuditPayment(p) \/ AbortPayment(p)

Spec == Init /\ [][Next]_vars

-----------------------------------------------------------------------------
(***************************************************************************)
(* Safety, for any number of overlapping payments, aborts included.        *)
(***************************************************************************)

\* A status never says more than the Allocation rows: a PAID charge is covered
\* in full, so no debt leaves the aging report unpaid, and a PARTIAL one has
\* received something (recordPayment writes the status from an old balance).
StatusIsBacked ==
    \A c \in Charges :
        /\ status[c] = "PAID" => allocated[c] >= amount[c] /\ allocated[c] > 0
        /\ status[c] = "PARTIAL" => allocated[c] > 0

\* Money is conserved inside one payment: what its Allocation rows hold and the
\* remainder the answer reports add up to what was paid, however the handler is
\* interleaved, and the rows of a charge add up to what its balance subtracts.
PaymentIsAccounted ==
    /\ \A p \in Payments :
          /\ SumFunction(alloc[p]) <= amt[p]
          /\ pc[p] \in {"allocating", "receipted", "done"} =>
                SumFunction(alloc[p]) + left[p] = amt[p]
    /\ \A c \in Charges : allocated[c] = SumFunction([p \in Payments |-> alloc[p][c]])

\* allocatePayment serves the oldest debt first: once a payment has a row on a
\* charge, every older charge its handler saw is covered, by whoever paid it.
OldestDebtFirst ==
    \A p \in Payments, c, d \in Charges :
        alloc[p][c] > 0 /\ d \in seen[p] /\ Due[d] < Due[c] => allocated[d] >= amount[d]

\* A receipt comes last: when it exists every charge the payment went to shows
\* it, and a remainder is reported only if all the charges seen are covered.
ReceiptMeansPosted ==
    \A p \in receipts :
        /\ \A c \in Charges : alloc[p][c] > 0 => status[c] \in {"PARTIAL", "PAID"}
        /\ left[p] > 0 => \A c \in seen[p] : allocated[c] >= amount[c]

\* Overlapping payments may each hand out the balance they read, and no more:
\* with at most n payments in flight at once a charge receives at most n times
\* its amount, and payments that never overlap cannot over-allocate it.
OverAllocationBounded ==
    \A c \in Charges : allocated[c] <= peak * amount[c]

\* A charge is written once: running the generation again, or creating another
\* charge of the same period and type, leaves the stored one as it is.
ChargeWrittenOnce ==
    [][\A c \in Charges : status[c] # "NONE" =>
          amount'[c] = amount[c] /\ status'[c] # "NONE"]_vars

-----------------------------------------------------------------------------
(***************************************************************************)
(* What holds as long as the payments of the contract do not overlap.      *)
(***************************************************************************)

\* A charge that was paid is not reopened: updateChargeStatus never takes PAID
\* back to PARTIAL.
PaidStaysPaid ==
    [][peak <= 1 => \A c \in Charges : status[c] = "PAID" => status'[c] = "PAID"]_vars

\* A status agrees with the rows unless a handler was stopped between writing
\* them and writing it; nothing repairs that charge later.
StatusAgrees ==
    \A c \in Charges :
        peak <= 1 /\ status[c] # "NONE" /\ (\A p \in Payments : c \notin mark[p]) =>
            /\ status[c] = "PENDING" <=> allocated[c] = 0
            /\ status[c] = "PAID" <=> allocated[c] > 0 /\ allocated[c] >= amount[c]

\* The three views of what was paid, the rows of a payment, the balance of a charge and its
\* status, agree as far as interleaving and aborts allow.
BooksAgree == PaymentIsAccounted /\ OverAllocationBounded /\ StatusAgrees

\* What is on file about a charge lasts: its amount, and that it was paid.
ChargesLast == ChargeWrittenOnce /\ PaidStaysPaid

-----------------------------------------------------------------------------
\* What the answer { charge, created: true } of an ad-hoc charge claims: that
\* the amount asked for is on file under its period and type.
CreatedMeansPosted ==
    \A g \in Generators : gpc[g] = "created" => amount[gkey[g]] = gamt[g]
=============================================================================
