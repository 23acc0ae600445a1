---------------------------- MODULE Settlements ----------------------------
(***************************************************************************)
(* The owners of one property and its settlement of one month:             *)
(* PropertiesService.addOwnerWithShare, SettlementsService.generate-       *)
(* Settlement and recordPayout, over the payments RentalService stores     *)
(* meanwhile.  Shares are checked and then written, collections and shares *)
(* are read by different statements before the settlement is written, and  *)
(* a payout is checked and then written.                                   *)
(*                                                                         *)
(* A share is a number of parts of Whole (the code: a hundredth of a per   *)
(* cent); a share below half a part is stored as 0.  A handler that is     *)
(* over has answered 2xx or 4xx, or has stopped.                           *)
(***************************************************************************)
EXTENDS Integers, FiniteSets, Functions

CONSTANTS
    Owners,       \* requests that add an owner; each one makes its own Owner
    Settlers,     \* settlements:generate requests for the month
    Payers,       \* payout requests on the settlement
    Whole,        \* parts that make up the property
    Shares,       \* shares a request may ask for
    PayAmounts,   \* amounts in minor units of a payment
    MaxPaid,      \* bound on what is paid in the month
    Commissions   \* percentages a CommissionRule may have

SettlementAssumption ==
    /\ Whole \in Nat \ {0} /\ Shares \subseteq 0..Whole
    /\ PayAmounts \subseteq Nat /\ MaxPaid \in Nat /\ Commissions \subseteq 0..100
    /\ IsFiniteSet(Owners) /\ IsFiniteSet(Payers)

VARIABLES
    share,       \* share[o]: the PropertyOwnership row of o, 0 before it is there
    paid,        \* what the payments of the month add up to
    pct,         \* the commission of the property, 0 without a rule
    settlement,  \* the Settlement row with its lines
    payout,      \* payouts that were written, the last one is on file
    opc, asked,  \* where each addOwnerWithShare stands, and the share it adds
    gpc, draft,  \* where each generateSettlement stands, and what it has read
    ppc,         \* where each recordPayout stands
    peak,        \* history: the most addOwnerWithShare between check and write at once
    overlapped   \* history: two recordPayout were between check and write at once

settlementRows == <<share, paid, pct, settlement, payout>>
adding == <<opc, asked, peak>>
settling == <<gpc, draft>>
paying == <<ppc, overlapped>>
settlementVars == <<settlementRows, adding, settling, paying>>

Settlement == [made : BOOLEAN, collected : Nat, commission : Nat, net : Nat,
               shares : [Owners -> 0..Whole], lines : [Owners -> Nat]]
NoSettlement == [made |-> FALSE, collected |-> 0, commission |-> 0, net |-> 0,
                 shares |-> [o \in Owners |-> 0], lines |-> [o \in Owners |-> 0]]

SettlementTypeOK ==
    /\ share \in [Owners -> 0..Whole]
    /\ paid \in 0..MaxPaid /\ pct \in Commissions
    /\ settlement \in Settlement
    /\ payout \in 0..Cardinality(Payers)
    /\ opc \in [Owners -> {"idle", "accepted", "named", "owning", "over"}]
    /\ asked \in [Owners -> 0..Whole]
    /\ gpc \in [Settlers -> {"idle", "reading", "collected", "dividing", "settled", "over"}]
    /\ draft \in [Settlers -> Settlement]
    /\ ppc \in [Payers -> {"idle", "found", "paid", "over"}]
    /\ peak \in 0..Cardinality(Owners) /\ overlapped \in BOOLEAN

SettlementInit ==
    /\ share = [o \in Owners |-> 0]
    /\ paid = 0 /\ pct \in Commissions
    /\ settlement = NoSettlement /\ payout = 0
    /\ opc = [o \in Owners |-> "idle"] /\ asked = [o \in Owners |-> 0]
    /\ gpc = [g \in Settlers |-> "idle"] /\ draft = [g \in Settlers |-> NoSettlement]
    /\ ppc = [q \in Payers |-> "idle"]
    /\ peak = 0 /\ overlapped = FALSE

-----------------------------------------------------------------------------
(***************************************************************************)
(* addOwnerWithShare                                                       *)
(***************************************************************************)
Adding(o) == opc[o] \in {"accepted", "named"}

\* Even a share that is stored as 0 asks for more than nothing.
Fits(total, s) == total < Whole /\ total + s <= Whole

OwnershipTotal(o, s) ==
    LET fits == Fits(SumFunction(share), s)
        n == Cardinality({q \in Owners : Adding(q)}) + 1
    IN  /\ opc[o] = "idle"
        /\ opc' = [opc EXCEPT ![o] = IF fits THEN "accepted" ELSE "over"]
        /\ asked' = [asked EXCEPT ![o] = IF fits THEN s ELSE 0]
        /\ peak' = IF fits /\ n > peak THEN n ELSE peak
        /\ UNCHANGED <<settlementRows, settling, paying>>

CreateOwner(o) ==
    /\ opc[o] = "accepted" /\ opc' = [opc EXCEPT ![o] = "named"]
    /\ UNCHANGED <<settlementRows, asked, peak, settling, paying>>

AssignOwnership(o) ==
    /\ opc[o] = "named" /\ opc' = [opc EXCEPT ![o] = "owning"]
    /\ share' = [share EXCEPT ![o] = asked[o]]
    /\ asked' = [asked EXCEPT ![o] = 0]
    /\ UNCHANGED <<paid, pct, settlement, payout, peak, settling, paying>>

AuditOwner(o) ==
    /\ opc[o] = "owning" /\ opc' = [opc EXCEPT ![o] = "over"]
    /\ UNCHANGED <<settlementRows, asked, peak, settling, paying>>

-----------------------------------------------------------------------------
\* A payment of a contract on the property, dated in the month, is stored:
\* before the month is settled, meanwhile or after.
StorePayment(a) ==
    /\ paid + a <= MaxPaid
    /\ paid' = paid + a
    /\ UNCHANGED <<share, pct, settlement, payout, adding, settling, paying>>

-----------------------------------------------------------------------------
(***************************************************************************)
(* splitByShares: everyone gets the floor of its part, and what is left    *)
(* over goes one by one to the largest fractions, the larger share first.  *)
(* Which of two equal owners comes first is the order of the rows.         *)
(***************************************************************************)
Floor(net, s) == (net * s) \div Whole

Before(net, shares, o, p) ==
    LET fraction(q) == (net * shares[q]) % Whole
    IN  \/ fraction(o) > fraction(p)
        \/ fraction(o) = fraction(p) /\ shares[o] > shares[p]

Mutant_SplitsFloors(net, shares) == {[o \in Owners |-> Floor(net, shares[o])]}
Splits(net, shares) ==
    LET leftover == net - SumFunction([o \in Owners |-> Floor(net, shares[o])])
        favoured == {E \in SUBSET Owners :
                        /\ Cardinality(E) = leftover
                        /\ \A o \in E, p \in Owners \ E : ~Before(net, shares, p, o)}
    IN  {[o \in Owners |-> Floor(net, shares[o]) + (IF o \in E THEN 1 ELSE 0)] : E \in favoured}

(***************************************************************************)
(* generateSettlement                                                      *)
(***************************************************************************)
FindSettlement(g) ==
    /\ gpc[g] = "idle"
    /\ gpc' = [gpc EXCEPT ![g] = IF settlement.made THEN "over" ELSE "reading"]
    /\ UNCHANGED <<settlementRows, adding, draft, paying>>

\* Math.round(collected * pct / 100)
Commission(collected) == (collected * pct + 50) \div 100

\* paymentsTotalMinor, findCommissionPct.
ReadCollected(g) ==
    /\ gpc[g] = "reading" /\ gpc' = [gpc EXCEPT ![g] = "collected"]
    /\ draft' = [draft EXCEPT ![g].collected = paid, ![g].commission = Commission(paid),
                              ![g].net = paid - Commission(paid)]
    /\ UNCHANGED <<settlementRows, adding, paying>>

Settleable(total) == total = Whole

\* activeOwnershipShares, and the split of what was collected.
ReadShares(g) ==
    /\ gpc[g] = "collected"
    /\ \/ /\ Settleable(SumFunction(share))
          /\ \E lines \in Splits(draft[g].net, share) :
                draft' = [draft EXCEPT ![g].made = TRUE, ![g].shares = share, ![g].lines = lines]
          /\ gpc' = [gpc EXCEPT ![g] = "dividing"]
       \/ /\ ~Settleable(SumFunction(share))
          /\ draft' = [draft EXCEPT ![g] = NoSettlement]
          /\ gpc' = [gpc EXCEPT ![g] = "over"]
    /\ UNCHANGED <<settlementRows, adding, paying>>

\* The unique key (property, period): a second insert fails the request.
CreateSettlement(g) ==
    /\ gpc[g] = "dividing"
    /\ gpc' = [gpc EXCEPT ![g] = IF settlement.made THEN "over" ELSE "settled"]
    /\ settlement' = IF settlement.made THEN settlement ELSE draft[g]
    /\ draft' = [draft EXCEPT ![g] = NoSettlement]
    /\ UNCHANGED <<share, paid, pct, payout, adding, paying>>

AuditSettlement(g) ==
    /\ gpc[g] = "settled" /\ gpc' = [gpc EXCEPT ![g] = "over"]
    /\ UNCHANGED <<settlementRows, adding, draft, paying>>

-----------------------------------------------------------------------------
(***************************************************************************)
(* recordPayout                                                            *)
(***************************************************************************)
FindForPayout(q) ==
    /\ settlement.made /\ ppc[q] = "idle"
    /\ ppc' = [ppc EXCEPT ![q] = IF payout = 0 THEN "found" ELSE "over"]
    /\ overlapped' = (overlapped \/ (payout = 0 /\ \E p \in Payers : ppc[p] = "found"))
    /\ UNCHANGED <<settlementRows, adding, settling>>

RecordPayout(q) ==
    /\ ppc[q] = "found" /\ ppc' = [ppc EXCEPT ![q] = "paid"]
    /\ payout' = payout + 1
    /\ UNCHANGED <<share, paid, pct, settlement, adding, settling, overlapped>>

AuditPayout(q) ==
    /\ ppc[q] = "paid" /\ ppc' = [ppc EXCEPT ![q] = "over"]
    /\ UNCHANGED <<settlementRows, adding, settling, overlapped>>

-----------------------------------------------------------------------------
\* A statement fails or the process dies; what was written stays.
AbortOwner(o) ==
    /\ opc[o] \in {"accepted", "named", "owning"} /\ opc' = [opc EXCEPT ![o] = "over"]
    /\ asked' = [asked EXCEPT ![o] = 0]
    /\ UNCHANGED <<settlementRows, peak, settling, paying>>
AbortSettler(g) ==
    /\ gpc[g] \in {"reading", "collected", "dividing", "settled"}
    /\ gpc' = [gpc EXCEPT ![g] = "over"] /\ draft' = [draft EXCEPT ![g] = NoSettlement]
    /\ UNCHANGED <<settlementRows, adding, paying>>
AbortPayer(q) ==
    /\ ppc[q] \in {"found", "paid"} /\ ppc' = [ppc EXCEPT ![q] = "over"]
    /\ UNCHANGED <<settlementRows, adding, settling, overlapped>>

SettlementNext ==
    \/ \E o \in Owners :
          \/ \E s \in Shares : OwnershipTotal(o, s)
          \/ CreateOwner(o) \/ AssignOwnership(o) \/ AuditOwner(o) \/ AbortOwner(o)
    \/ \E a \in PayAmounts : StorePayment(a)
    \/ \E g \in Settlers :
          \/ FindSettlement(g) \/ ReadCollected(g) \/ ReadShares(g) \/ CreateSettlement(g)
          \/ AuditSettlement(g) \/ AbortSettler(g)
    \/ \E q \in Payers : FindForPayout(q) \/ RecordPayout(q) \/ AuditPayout(q) \/ AbortPayer(q)

SettlementSpec == SettlementInit /\ [][SettlementNext]_settlementVars

-----------------------------------------------------------------------------
\* Overlapping requests may each fill up the shares they read, and no more:
\* with at most n under way at once the shares add up to at most n properties,
\* and requests that never overlap cannot give away more than the property.
SharesBounded == SumFunction(share) <= peak * Whole

\* Every minor unit collected goes somewhere: the lines add up to the net, and
\* net and commission to what had been paid, whatever is paid or given away
\* between the statements that read it.
MoneyConserved ==
    LET s == settlement IN
    s.made =>
        /\ SumFunction(s.lines) = s.net
        /\ s.net + s.commission = s.collected /\ s.collected <= paid

\* The split is fair: nobody is a whole minor unit off its part, and who owns
\* at least as much as another gets at least as much, up to the unit that has
\* to go to one of two equal owners.
FairSplit ==
    LET s == settlement IN
    s.made =>
        \A o, p \in Owners :
            /\ s.lines[o] * Whole - s.net * s.shares[o] \in (1 - Whole)..(Whole - 1)
            /\ s.shares[o] > s.shares[p] => s.lines[o] >= s.lines[p]

\* A settlement is divided among all the owners there ever are, unless two
\* requests that add owners overlapped: a property that can be settled has no
\* share left to give.
WholePropertySettled == peak <= 1 /\ settlement.made => settlement.shares = share

\* A payout is recorded once unless two requests looked for it at the same
\* time; then the second transfer reference takes the place of the first.
PayoutOnce == ~overlapped => payout <= 1

\* A settlement accounts for every minor unit collected, divides it fairly, and among all
\* the owners there ever are; it is paid out once.  Each under its own proviso on overlap.
SettledInFull == SharesBounded /\ MoneyConserved /\ FairSplit /\ WholePropertySettled /\ PayoutOnce
=============================================================================
