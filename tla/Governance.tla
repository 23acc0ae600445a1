----------------------------- MODULE Governance -----------------------------
(***************************************************************************)
(* GovernanceService for one property: an assembly with its attendance,    *)
(* decisions, votes and results, and the cuotas it bills to one contract,  *)
(* where whoever may write contracts enters charges of the same types by   *)
(* hand.                                                                   *)
(*                                                                         *)
(* Shares are percentages; a decision is named by the majority it needs.    *)
(* Nothing a handler checks here is ever withdrawn (owners, acts and       *)
(* decisions are added, never removed), so a handler with one write is one *)
(* action; decisionResult reads votes and shares in two statements.        *)
(* Handlers that only list, and requests answered 400 or 404, are left     *)
(* out.                                                                    *)
(***************************************************************************)
EXTENDS Integers, Sequences, FiniteSets, Functions

CONSTANTS
    Owners,
    NoOwner,      \* what a vote without an owner names
    Attendances,  \* lists of [owner, share, proxy] a secretary may send
    Weights,      \* weights of votes and shares of owners
    Fees,         \* cuotas: [type, amount]
    HandAmounts,  \* amounts of charges that are entered by hand
    Periods,
    MaxRequests   \* bound on the requests of a behaviour, owners aside

Majorities == {"ORDINARY", "QUALIFIED"}
VoteChoices == {"APPROVE", "REJECT", "ABSTAIN"}
FeeTypes == {"ORDINARY", "EXTRAORDINARY"}

\* What is voted with or entered as a share is a positive percentage, as the handlers see to.
\* Amounts are in minor units: one below half a cent is above zero in a request and 0 on file.
GovAssumption ==
    /\ IsFiniteSet(Owners) /\ NoOwner \notin Owners
    /\ Weights \subseteq 1..100
    /\ \A a \in Attendances :
           IsFiniteSet(DOMAIN a) /\ \A i \in DOMAIN a : a[i].owner \in Owners /\ a[i].share \in 0..100
    /\ Fees \subseteq [type : FeeTypes, amount : Nat] /\ HandAmounts \subseteq Nat

VARIABLES
    shares,     \* shares[o]: what o owns of the property
    act,        \* the AssemblyAct row
    decisions,  \* decisions of the act
    votes,      \* votes[d]: [owner, weight, choice]
    fees,       \* AdminFee rows
    charged,    \* charged[p][t]: amount of the charge of period p and type t, or NoCharge
    billed,     \* history: [fee, period, told]: cuotas reported as billed, with the charge told
    byHand,     \* history: <<p, t, amount>>: charges that were made by hand
    tally,      \* what decisionResult has read, and its answer
    requests    \* requests so far

assembly == <<shares, act, decisions, votes>>
cuotas == <<fees, charged, billed, byHand>>
govVars == <<assembly, cuotas, tally, requests>>

NoCharge == -1
NoTally == [at |-> "idle"]
NoAct == [attendance |-> <<>>, present |-> 0, quorumMet |-> FALSE]
Vote == [owner : Owners \cup {NoOwner}, weight : Weights, choice : VoteChoices]

GovTypeOK ==
    /\ shares \in [Owners -> 0..100] /\ decisions \subseteq Majorities
    /\ act.present \in 0..100 /\ act.quorumMet \in BOOLEAN
    /\ votes \in [Majorities -> Seq(Vote)]
    /\ fees \subseteq Fees /\ billed \subseteq [fee : Fees, period : Periods, told : Nat]
    /\ charged \in [Periods -> [FeeTypes -> Nat \cup {NoCharge}]]
    /\ byHand \subseteq Periods \X FeeTypes \X HandAmounts
    /\ tally.at \in {"idle", "votes", "answer"} /\ requests \in 0..MaxRequests

Sum(f, S) == SumFunctionOnSet(f, S)
Least(a, b) == IF a < b THEN a ELSE b

GovInit ==
    /\ shares = [o \in Owners |-> 0]
    /\ act = NoAct /\ decisions = {} /\ fees = {}
    /\ votes = [d \in Majorities |-> <<>>]
    /\ charged = [p \in Periods |-> [t \in FeeTypes |-> NoCharge]]
    /\ billed = {} /\ byHand = {} /\ tally = NoTally /\ requests = 0

-----------------------------------------------------------------------------
Counted == requests < MaxRequests /\ requests' = requests + 1

\* PropertiesService.addOwnerWithShare: shares are added and never taken.
AddOwner(o, pct) ==
    /\ shares[o] = 0 /\ Sum(shares, Owners) + pct <= 100
    /\ shares' = [shares EXCEPT ![o] = pct]
    /\ UNCHANGED <<act, decisions, votes, cuotas, tally, requests>>

(***************************************************************************)
(* createAssemblyAct, computeQuorum                                        *)
(***************************************************************************)
Holder(e) == IF e.proxy = NoOwner THEN e.owner ELSE e.proxy
HeldBy(attendance, h) ==
    Sum([i \in DOMAIN attendance |-> attendance[i].share],
        {i \in DOMAIN attendance : Holder(attendance[i]) = h})

Mutant_NoWholeProperty(attendance) ==
    LET holders == {Holder(attendance[i]) : i \in DOMAIN attendance}
        present == Sum([h \in holders |-> HeldBy(attendance, h)], holders)
    IN  [attendance |-> attendance, present |-> present, quorumMet |-> present > 50]
\* What is present, directly or through a holder of proxies.
ComputeQuorum(attendance) ==
    LET holders == {Holder(attendance[i]) : i \in DOMAIN attendance}
        held == [h \in holders |-> HeldBy(attendance, h)]
        present == Least(100, Sum(held, holders))
    IN  [attendance |-> attendance, present |-> present, quorumMet |-> present > 50]

CreateAssemblyAct(attendance) ==
    /\ act = NoAct /\ attendance # <<>> /\ Counted
    /\ \A i \in DOMAIN attendance :
           LET e == attendance[i] IN
           shares[e.owner] > 0 /\ e.share <= shares[e.owner] /\ e.proxy # e.owner
    /\ act' = ComputeQuorum(attendance)
    /\ UNCHANGED <<shares, decisions, votes, cuotas, tally>>

(***************************************************************************)
(* createDecision, recordVote                                              *)
(***************************************************************************)
CreateDecision(majority) ==
    /\ act # NoAct /\ Counted
    /\ decisions' = decisions \cup {majority}
    /\ UNCHANGED <<shares, act, votes, cuotas, tally>>

\* The owner's share bounds one vote; nothing asks whether the owner is
\* present or voted before, and a vote may name no owner at all.
RecordVote(d, vote) ==
    /\ d \in decisions /\ Counted
    /\ vote.owner # NoOwner => shares[vote.owner] > 0 /\ vote.weight <= shares[vote.owner]
    /\ votes' = [votes EXCEPT ![d] = Append(@, vote)]
    /\ UNCHANGED <<shares, act, decisions, cuotas, tally>>

(***************************************************************************)
(* decisionResult, evaluateDecision: the votes are read, then the shares   *)
(***************************************************************************)
ListVotes(d) ==
    /\ tally = NoTally /\ d \in decisions /\ Counted
    /\ tally' = [at |-> "votes", decision |-> d, votes |-> votes[d]]
    /\ UNCHANGED <<assembly, cuotas>>

Weight(rows, choice) ==
    Sum([i \in DOMAIN rows |-> rows[i].weight], {i \in DOMAIN rows : rows[i].choice = choice})

Mutant_AbstentionsCarry(rows, majority, total, present) ==
    LET weight == Weight(rows, "APPROVE") + Weight(rows, "ABSTAIN")
    IN  IF majority = "QUALIFIED" THEN total > 0 /\ 10 * weight >= 7 * total
                                  ELSE present > 0 /\ 2 * weight > present
EvaluateDecision(rows, majority, total, present) ==
    LET weight == Weight(rows, "APPROVE")
    IN  IF majority = "QUALIFIED" THEN total > 0 /\ 10 * weight >= 7 * total
                                  ELSE present > 0 /\ 2 * weight > present

DecisionResult ==
    LET total == Sum(shares, Owners) IN
    /\ tally.at = "votes"
    /\ tally' = [at |-> "answer", decision |-> tally.decision, votes |-> tally.votes, total |-> total,
                 approved |-> EvaluateDecision(tally.votes, tally.decision, total, act.present)]
    /\ UNCHANGED <<assembly, cuotas, requests>>

Answer == tally.at = "answer" /\ tally' = NoTally /\ UNCHANGED <<assembly, cuotas, requests>>

\* evaluateOwnerAuthorization, evaluateApprovalRule: shares of those who approve.
EvaluateApprovalRule(mode, approved, total, percentage) ==
    CASE mode = "one"        -> approved > 0
      [] mode = "quorum"     -> total > 0 /\ 2 * approved > total
      [] mode = "percentage" -> total > 0 /\ 100 * approved >= percentage * total
      [] mode = "all"        -> total > 0 /\ approved >= total

EvaluateOwnerAuthorization(mode, percentage, approvals) ==
    EvaluateApprovalRule(mode, Sum(shares, approvals \cap Owners), Sum(shares, Owners), percentage)

(***************************************************************************)
(* createPhCuota, createAdHocCharge, billPhCuota for a contract of the     *)
(* property                                                                *)
(***************************************************************************)
CreatePhCuota(fee) ==
    /\ Counted
    /\ fees' = fees \cup {fee}
    /\ UNCHANGED <<assembly, charged, billed, byHand, tally>>

Mutant_UpsertCharge(type, amount, period) == [charged EXCEPT ![period][type] = amount]
\* createCharge: the charge of this contract, period and type that is there
\* already is the answer, whatever its amount.
ChargeOrFind(type, amount, period) ==
    [charged EXCEPT ![period][type] = IF @ = NoCharge THEN amount ELSE @]

\* What billPhCuota calls is also an endpoint of its own, for any amount.
CreateAdHocCharge(type, amount, period) ==
    /\ Counted
    /\ charged' = ChargeOrFind(type, amount, period)
    /\ byHand' = IF charged[period][type] = NoCharge
                 THEN byHand \cup {<<period, type, amount>>} ELSE byHand
    /\ UNCHANGED <<assembly, fees, billed, tally>>

\* A cuota of 0 is refused.  A handler that stops before its last statement
\* reports nothing.
BillPhCuota(fee, period) ==
    /\ fee \in fees /\ fee.amount > 0 /\ Counted
    /\ charged' = ChargeOrFind(fee.type, fee.amount, period)
    /\ billed' \in {billed, billed \cup {[fee |-> fee, period |-> period,
                                          told |-> charged'[period][fee.type]]}}
    /\ UNCHANGED <<assembly, fees, byHand, tally>>

-----------------------------------------------------------------------------
GovNext ==
    \/ \E o \in Owners, pct \in Weights : AddOwner(o, pct)
    \/ \E a \in Attendances : CreateAssemblyAct(a)
    \/ \E m \in Majorities : CreateDecision(m) \/ ListVotes(m)
    \/ \E d \in Majorities, v \in Vote : RecordVote(d, v)
    \/ DecisionResult \/ Answer
    \/ \E f \in Fees : CreatePhCuota(f) \/ \E p \in Periods : BillPhCuota(f, p)
    \/ \E t \in FeeTypes, n \in HandAmounts, p \in Periods : CreateAdHocCharge(t, n, p)

-----------------------------------------------------------------------------
Once(rows) ==
    /\ \A i \in DOMAIN rows : rows[i].owner # NoOwner
    /\ \A i, j \in DOMAIN rows : rows[i].owner = rows[j].owner => i = j

\* A result that says approved is carried by owners who approve and whose shares
\* make the majority, although votes and shares are read one after the other and
\* owners join meanwhile: provided every vote names an owner and none votes twice,
\* which nothing in the code ensures.
ApprovalIsCarried ==
    tally.at = "answer" /\ tally.approved /\ Once(tally.votes) =>
        LET rows == tally.votes
            support == Sum(shares, {rows[i].owner : i \in {k \in DOMAIN rows : rows[k].choice = "APPROVE"}})
        IN  IF tally.decision = "QUALIFIED" THEN 10 * support >= 7 * tally.total
                                            ELSE 2 * support > act.present

\* An act that met the quorum lists owners of more than half of the property,
\* whoever holds whose proxy, unless it lists somebody twice.
QuorumIsOwned ==
    act.quorumMet /\ (\A i, j \in DOMAIN act.attendance :
                          act.attendance[i].owner = act.attendance[j].owner => i = j)
        => Sum(shares, {act.attendance[i].owner : i \in DOMAIN act.attendance}) > 50

\* A cuota that was reported as billed keeps the charge it was told, whatever is
\* billed or entered afterwards.  Its amount is its own, unless a charge of the
\* period and the type was there first: that of another cuota, or one entered by
\* hand.  Then the amount of the cuota is never charged, and nobody is told.
BilledIsCharged ==
    \A b \in billed :
        LET type == b.fee.type IN
        /\ charged[b.period][type] = b.told
        /\ \/ \E g \in fees : g.type = type /\ g.amount = b.told
           \/ <<b.period, type, b.told>> \in byHand
=============================================================================
