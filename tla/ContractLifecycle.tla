-------------------------- MODULE ContractLifecycle --------------------------
(***************************************************************************)
(* One lease contract after createContract: RentalService.renewContract,   *)
(* terminateContract, applyRentIncrease and generateMonthlyCharge.  Every  *)
(* handler loads the contract, decides from what it loaded, and then       *)
(* writes statement by statement, so what it decided from may be out of    *)
(* date when it writes; a handler may also stop between two statements.    *)
(*                                                                         *)
(* A date is a month number: the code compares dates, counts the months    *)
(* between them and keys charges by month, and looks at nothing finer      *)
(* except to reject a term that ends no later than the present one.        *)
(***************************************************************************)
EXTENDS Integers, FiniteSets

CONSTANTS
    Requests,  \* requests on the contract
    Months,    \* months a charge, a termination or the end of a term may have
    Rents,     \* rents in minor units, as createContract and renewContract accept them
    Indexes,   \* percentages on file as RentIncreaseIndex
    Caps       \* capPct of a request; 100, the largest index, caps nothing

LifecycleAssumption ==
    /\ Months \subseteq Nat
    /\ Rents \subseteq Nat \ {0}
    /\ Indexes \subseteq -50..100 /\ Caps \subseteq -50..100

VARIABLES
    row,          \* the Contract row: status, end of the term, rent
    termination,  \* the ContractTermination row
    fine,         \* fine[m]: amount of the FINE charge "m-indemnity", 0 if none
    rentCharge,   \* rentCharge[m]: amount of the RENT charge of m, 0 if none
    pc,           \* where the handler of each request stands
    job,          \* what it has still to write
    raced,        \* history: two handlers were between load and last write at once
    interrupted   \* history: a handler stopped between load and last write

tables   == <<row, termination, fine, rentCharge>>
lifeVars == <<tables, pc, job, raced, interrupted>>

\* No code sets the other statuses of the schema (DRAFT, EXPIRING, EXPIRED, RENEWED).
Row == [status : {"ACTIVE", "TERMINATED"}, end : Nat, rent : Nat]
Job == [month : Nat, end : Nat, amount : Nat, charged : BOOLEAN]
NoJob == [month |-> 0, end |-> 0, amount |-> 0, charged |-> FALSE]
Termination == [saved : BOOLEAN, month : Nat, charged : BOOLEAN]

Writing == {"renewing", "increasing", "charging", "saving", "marking", "billing"}
InFlight(r) == pc[r] \in Writing

LifeTypeOK ==
    /\ row \in Row
    /\ termination \in Termination
    /\ fine \in [Months -> Nat]
    /\ rentCharge \in [Months -> Nat]
    /\ pc \in [Requests -> Writing \cup {"idle", "auditing", "done", "rejected", "failed"}]
    /\ job \in [Requests -> Job]
    /\ raced \in BOOLEAN /\ interrupted \in BOOLEAN

LifeInit ==
    /\ row \in [status : {"ACTIVE"}, end : Months, rent : Rents]
    /\ termination = [saved |-> FALSE, month |-> 0, charged |-> FALSE]
    /\ fine = [m \in Months |-> 0]
    /\ rentCharge = [m \in Months |-> 0]
    /\ pc = [r \in Requests |-> "idle"]
    /\ job = [r \in Requests |-> NoJob]
    /\ raced = FALSE /\ interrupted = FALSE

-----------------------------------------------------------------------------
\* A handler has loaded the contract: it goes on at step with j, or answers 400.
Loaded(r, accepted, step, j) ==
    /\ pc[r] = "idle"
    /\ pc' = [pc EXCEPT ![r] = IF accepted THEN step ELSE "rejected"]
    /\ job' = [job EXCEPT ![r] = IF accepted THEN j ELSE NoJob]
    /\ raced' = (raced \/ (accepted /\ \E q \in Requests : InFlight(q)))
    /\ UNCHANGED <<tables, interrupted>>

\* The handler goes on to its next statement, or to its audit event.
Goto(r, from, to) == pc[r] = from /\ pc' = [pc EXCEPT ![r] = to]
LastWrite(r, from) == Goto(r, from, "auditing") /\ job' = [job EXCEPT ![r] = NoJob]

(***************************************************************************)
(* renewContract; rent 0 stands for a request that leaves the rent alone.  *)
(***************************************************************************)
Mutant_LoadRenewalUnchecked(r, end, rent) ==
    Loaded(r, end > row.end, "renewing", [NoJob EXCEPT !.end = end, !.amount = rent])
LoadRenewal(r, end, rent) ==
    Loaded(r, row.status # "TERMINATED" /\ end > row.end, "renewing",
           [NoJob EXCEPT !.end = end, !.amount = rent])

\* The update sets the status too, whatever it has become since.
WriteRenewal(r) ==
    /\ LastWrite(r, "renewing")
    /\ row' = [status |-> "ACTIVE", end |-> job[r].end,
               rent |-> IF job[r].amount = 0 THEN row.rent ELSE job[r].amount]
    /\ UNCHANGED <<termination, fine, rentCharge, raced, interrupted>>

(***************************************************************************)
(* terminateContract                                                       *)
(***************************************************************************)
\* monthsRemaining, as terminateContract counts them
MonthsRemaining(end, m) == IF end > m THEN end - m ELSE 0

\* quoteIndemnity: up to three rents in Colombia, none under the generic rule.
QuoteIndemnity(generic, rent, months) ==
    IF generic THEN 0 ELSE (IF months < 3 THEN months ELSE 3) * rent

LoadTermination(r, m, generic) ==
    LET quote == QuoteIndemnity(generic, row.rent, MonthsRemaining(row.end, m))
    IN  Loaded(r, row.status # "TERMINATED", IF quote > 0 THEN "charging" ELSE "saving",
               [NoJob EXCEPT !.month = m, !.amount = quote])

\* createCharge: one FINE charge per month; a second insert is answered with
\* the row that is there, whatever amount it has.
CreateIndemnity(r) ==
    /\ Goto(r, "charging", "saving")
    /\ fine' = [fine EXCEPT ![job[r].month] = IF @ = 0 THEN job[r].amount ELSE @]
    /\ job' = [job EXCEPT ![r].charged = TRUE]
    /\ UNCHANGED <<row, termination, rentCharge, raced, interrupted>>

Mutant_SaveBeforeCharge(r) ==
    /\ pc[r] \in {"charging", "saving"} /\ pc' = [pc EXCEPT ![r] = "marking"]
    /\ termination' = [saved |-> TRUE, month |-> job[r].month, charged |-> job[r].amount > 0]
    /\ UNCHANGED <<row, fine, rentCharge, job, raced, interrupted>>
\* An upsert: the last termination saved is the one on file.
SaveTermination(r) ==
    /\ Goto(r, "saving", "marking")
    /\ termination' = [saved |-> TRUE, month |-> job[r].month, charged |-> job[r].charged]
    /\ UNCHANGED <<row, fine, rentCharge, job, raced, interrupted>>

MarkTerminated(r) ==
    /\ LastWrite(r, "marking")
    /\ row' = [row EXCEPT !.status = "TERMINATED"]
    /\ UNCHANGED <<termination, fine, rentCharge, raced, interrupted>>

(***************************************************************************)
(* applyRentIncrease                                                       *)
(***************************************************************************)
\* Math.round(rent * (1 + pct / 100))
Increased(rent, pct) == (rent * (100 + pct) + 50) \div 100

LoadIncrease(r, index, cap) ==
    Loaded(r, row.status # "TERMINATED", "increasing",
           [NoJob EXCEPT !.amount = Increased(row.rent, IF cap < index THEN cap ELSE index)])

WriteIncrease(r) ==
    /\ LastWrite(r, "increasing")
    /\ row' = [row EXCEPT !.rent = job[r].amount]
    /\ UNCHANGED <<termination, fine, rentCharge, raced, interrupted>>

(***************************************************************************)
(* generateMonthlyCharge: the status of the contract is not looked at.     *)
(***************************************************************************)
LoadBilling(r, m) ==
    Loaded(r, rentCharge[m] = 0, "billing", [NoJob EXCEPT !.month = m, !.amount = row.rent])

CreateRent(r) ==
    /\ LastWrite(r, "billing")
    /\ rentCharge' = [rentCharge EXCEPT ![job[r].month] = IF @ = 0 THEN job[r].amount ELSE @]
    /\ UNCHANGED <<row, termination, fine, raced, interrupted>>

-----------------------------------------------------------------------------
Audit(r) == Goto(r, "auditing", "done") /\ UNCHANGED <<tables, job, raced, interrupted>>

\* A statement fails or the process dies; what was written stays.
Abort(r) ==
    /\ pc[r] \in Writing \cup {"auditing"}
    /\ pc' = [pc EXCEPT ![r] = "failed"]
    /\ job' = [job EXCEPT ![r] = NoJob]
    /\ interrupted' = (interrupted \/ InFlight(r))
    /\ UNCHANGED <<tables, raced>>

LifeNext ==
    \E r \in Requests :
        \/ \E m \in Months : \/ \E rent \in Rents \cup {0} : LoadRenewal(r, m, rent)
                             \/ \E generic \in BOOLEAN : LoadTermination(r, m, generic)
                             \/ LoadBilling(r, m)
        \/ \E index \in Indexes, cap \in Caps : LoadIncrease(r, index, cap)
        \/ WriteRenewal(r) \/ WriteIncrease(r) \/ CreateRent(r)
        \/ CreateIndemnity(r) \/ SaveTermination(r) \/ MarkTerminated(r)
        \/ Audit(r) \/ Abort(r)

LifeSpec == LifeInit /\ [][LifeNext]_lifeVars

-----------------------------------------------------------------------------
(***************************************************************************)
(* Safety, however the requests overlap and wherever they stop.            *)
(***************************************************************************)

\* PRD FR-006: a terminated contract has its termination on file, with notice
\* and effective date; terminateContract saves it before it sets the status.
TerminationOnFile == row.status = "TERMINATED" => termination.saved

\* The charge a termination refers to exists: the indemnity is posted before
\* the row that names it, and no later upsert can name one that was not posted.
IndemnityOnFile == termination.charged => fine[termination.month] > 0

-----------------------------------------------------------------------------
(***************************************************************************)
(* What holds until two handlers overlap between load and last write.      *)
(***************************************************************************)

\* Termination is final: it is not renewed, increased or terminated again.
TerminatedIsFinal ==
    [][~raced /\ row.status = "TERMINATED" => UNCHANGED <<row, termination, fine>>]_lifeVars

\* An increase is computed from the rent on file when it is written: up to half
\* a minor unit, the new rent is the old one raised by an index or its cap.
IncreaseFromRentOnFile ==
    [][~raced /\ row'.rent # row.rent /\ row'.end = row.end =>
          \E rate \in Indexes \cup Caps :
              LET exact == row.rent * (100 + rate)
              IN  100 * row'.rent - exact \in -50..50]_lifeVars

\* Unless a handler stopped half-way, a terminated contract carries exactly the
\* indemnity its terms at termination call for, and no other.
IndemnityIsTheQuote ==
    ~raced /\ ~interrupted /\ row.status = "TERMINATED" =>
        \A m \in Months :
            fine[m] = IF termination.charged /\ m = termination.month
                      THEN (IF row.end - m < 3 THEN row.end - m ELSE 3) * row.rent
                      ELSE 0

\* The indemnity on file is the one a termination quoted, whatever came in between.
IndemnityIsDue == TerminationOnFile /\ IndemnityOnFile /\ IndemnityIsTheQuote

\* Until handlers overlap, nothing changes a contract that was terminated, and an increase
\* starts from the rent on file.
ChangesFollowTheRow == TerminatedIsFinal /\ IncreaseFromRentOnFile

-----------------------------------------------------------------------------
\* PRD FR-008: rent is generated "from active contracts".
BilledOnlyWhileActive ==
    [][~raced /\ row.status = "TERMINATED" => rentCharge' = rentCharge]_lifeVars
=============================================================================
