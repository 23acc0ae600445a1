--------------------------- MODULE DepositLedger ---------------------------
(***************************************************************************)
(* The security deposit of a contract: RentalService.recordDeposit and     *)
(* moveDeposit with the two statements each movement awaits.  A movement   *)
(* reads the ledger, validates against what it read, and then writes both  *)
(* totals as absolute values; nothing ties the write to the read.          *)
(***************************************************************************)
EXTENDS Integers, FiniteSets, Functions

CONSTANTS
    Movements,    \* POST deposits/:id/deduct and deposits/:id/return requests
    HeldAmounts,  \* amounts in minor units a deposit is opened with
    MoveAmounts   \* amounts in minor units a movement may carry

ASSUME DepositAmounts == HeldAmounts \subseteq Nat /\ MoveAmounts \subseteq Nat
ASSUME MovementsAssumption == IsFiniteSet(Movements)

VARIABLES
    recorded,  \* whether the Deposit row exists
    ledger,    \* its held, deducted and returned columns
    mpc,       \* where the handler of each request stands
    kind,      \* "deduct" or "return"
    amt,       \* the amount to move
    snap,      \* the ledger findDeposit returned
    applied,   \* history: requests whose adjustDeposit ran
    past,      \* history: every ledger that was on file
    racing     \* history: a movement read the ledger before another had written it

depositRows == <<recorded, ledger>>
locals      == <<mpc, kind, amt, snap>>
history     == <<applied, past, racing>>
depositVars == <<depositRows, locals, history>>

Ledger == [held : Nat, deducted : Nat, returned : Nat]
NoLedger == [held |-> 0, deducted |-> 0, returned |-> 0]
Kinds == {"deduct", "return"}

DepositTypeOK ==
    /\ recorded \in BOOLEAN
    /\ ledger \in Ledger
    /\ mpc \in [Movements -> {"idle", "validated", "written", "done", "rejected", "failed"}]
    /\ kind \in [Movements -> Kinds]
    /\ amt \in [Movements -> Nat]
    /\ snap \in [Movements -> Ledger]
    /\ applied \subseteq Movements
    /\ past \subseteq Ledger
    /\ racing \in BOOLEAN

DepositInit ==
    /\ recorded = FALSE
    /\ ledger = NoLedger
    /\ mpc = [r \in Movements |-> "idle"]
    /\ kind = [r \in Movements |-> "deduct"]
    /\ amt = [r \in Movements |-> 0]
    /\ snap = [r \in Movements |-> NoLedger]
    /\ applied = {}
    /\ past = {}
    /\ racing = FALSE

\* recordDeposit.  A positive amount below half a minor unit rounds to 0.
RecordDeposit(held) ==
    /\ ~recorded
    /\ recorded' = TRUE
    /\ ledger' = [held |-> held, deducted |-> 0, returned |-> 0]
    /\ past' = {ledger'}
    /\ UNCHANGED <<locals, applied, racing>>

Mutant_RemainingIgnoresReturns(l) == l.held - l.deducted
DepositRemaining(l) == l.held - l.deducted - l.returned

\* validateDepositMovement
ValidMovement(l, a) == a > 0 /\ a <= DepositRemaining(l)

\* moveDeposit up to its validation: findDeposit, then 400 or go on.
FindDeposit(r, k, a) ==
    /\ recorded /\ mpc[r] = "idle"
    /\ kind' = [kind EXCEPT ![r] = k]
    /\ amt' = [amt EXCEPT ![r] = a]
    /\ snap' = [snap EXCEPT ![r] = ledger]
    /\ mpc' = [mpc EXCEPT ![r] = IF ValidMovement(ledger, a) THEN "validated" ELSE "rejected"]
    /\ racing' = (racing \/ \E q \in Movements : mpc[q] = "validated")
    /\ UNCHANGED <<depositRows, applied, past>>

Mutant_MovedBackwards(l, k, a) ==
    IF k = "deduct" THEN [l EXCEPT !.deducted = @ - a] ELSE [l EXCEPT !.returned = @ + a]
Mutant_MovedWrongColumn(l, k, a) ==
    IF k = "return" THEN [l EXCEPT !.deducted = @ + a] ELSE [l EXCEPT !.returned = @ + a]
Moved(l, k, a) ==
    IF k = "deduct" THEN [l EXCEPT !.deducted = @ + a] ELSE [l EXCEPT !.returned = @ + a]

Mutant_IncrementDeposit(r) ==
    /\ mpc[r] = "validated"
    /\ ledger' = Moved(ledger, kind[r], amt[r])
    /\ mpc' = [mpc EXCEPT ![r] = "written"]
    /\ applied' = applied \cup {r}
    /\ past' = past \cup {ledger'}
    /\ UNCHANGED <<recorded, kind, amt, snap, racing>>
\* adjustDeposit: both totals, computed from the snapshot; held is not written.
AdjustDeposit(r) ==
    /\ mpc[r] = "validated"
    /\ ledger' = [Moved(snap[r], kind[r], amt[r]) EXCEPT !.held = ledger.held]
    /\ mpc' = [mpc EXCEPT ![r] = "written"]
    /\ applied' = applied \cup {r}
    /\ past' = past \cup {ledger'}
    /\ UNCHANGED <<recorded, kind, amt, snap, racing>>

\* The audit event, then the answer.
AuditMovement(r) ==
    /\ mpc[r] = "written"
    /\ mpc' = [mpc EXCEPT ![r] = "done"]
    /\ UNCHANGED <<depositRows, kind, amt, snap, history>>

\* A statement fails or the process dies; what was written stays.
AbortMovement(r) ==
    /\ mpc[r] \in {"validated", "written"}
    /\ mpc' = [mpc EXCEPT ![r] = "failed"]
    /\ UNCHANGED <<depositRows, kind, amt, snap, history>>

DepositNext ==
    \/ \E h \in HeldAmounts : RecordDeposit(h)
    \/ \E r \in Movements :
          \/ \E k \in Kinds, a \in MoveAmounts : FindDeposit(r, k, a)
          \/ AdjustDeposit(r) \/ AuditMovement(r) \/ AbortMovement(r)

DepositSpec == DepositInit /\ [][DepositNext]_depositVars

-----------------------------------------------------------------------------
Total(S, k) == SumFunctionOnSet(amt, {r \in S : kind[r] = k})

\* However the movements interleave, the columns on file never give out more
\* than the deposit holds: every ledger adjustDeposit writes is one validated
\* movement away from a ledger that was itself within bounds.
WithinHeld == ledger.deducted + ledger.returned <= ledger.held

\* PRD FR-009: the columns are the sum of the movements that were written, each
\* of them, as long as no two movements raced; after a race they may show less
\* than what was moved, never more.
MovementsReconcile ==
    \A k \in Kinds :
        LET column == IF k = "deduct" THEN ledger.deducted ELSE ledger.returned
        IN  IF racing THEN column <= Total(applied, k) ELSE column = Total(applied, k)

\* The ledger implements the account: moveDeposit moves the ledger on file, or,
\* once two movements have raced, a ledger that was on file before.
Account == INSTANCE DepositAccount WITH
    recorded <- recorded, ledger <- ledger, past <- past, racing <- racing
AccountSpec == Account!Spec

\* PRD FR-009 again, for the movements the API acknowledged: what the landlord
\* deducted and the tenant got back is no more than what was held.
AcknowledgedWithinHeld ==
    LET done == {r \in Movements : mpc[r] = "done"}
    IN  Total(done, "deduct") + Total(done, "return") <= ledger.held
=============================================================================
