----------------------------- MODULE ArrearsRules -----------------------------
(***************************************************************************)
(* What is late, how late it is and what that costs: the rules of the      *)
(* rental domain that need no state.  Dates are day numbers, amounts are   *)
(* integers of minor units, rates are ten-thousandths.                     *)
(***************************************************************************)
EXTENDS Integers, Sequences, FiniteSets, FiniteSetsExt

ValidCodeudorTerms(from, until, never) == until = never \/ until >= from

ExpiringPolicies(policies, now, within, never) ==
    {p \in policies : p.until # never /\ p.until \in now..(now + within)}

RenewalStage(daysRemaining) ==
    IF daysRemaining > 90 THEN 0
    ELSE Min({stage \in {30, 60, 90} : daysRemaining <= stage})

-----------------------------------------------------------------------------
\* agingReport: balances of items [id, balance, due] by days overdue
Positive(items) == {i \in items : i.balance > 0}
SumBalances(items) == MapThenSumSet(LAMBDA i : i.balance, items)

AgingReport(items, now) ==
    LET overdue(i) == now - i.due
        between(low, high) == {i \in Positive(items) : overdue(i) \in low..high} IN
    [current |-> SumBalances({i \in Positive(items) : overdue(i) <= 0}),
     d1_30 |-> SumBalances(between(1, 30)),
     d31_60 |-> SumBalances(between(31, 60)),
     d61_90 |-> SumBalances(between(61, 90)),
     d90Plus |-> SumBalances({i \in Positive(items) : overdue(i) > 90}),
     total |-> SumBalances(Positive(items))]

-----------------------------------------------------------------------------
Rate(type, rate, grace, base) == [type |-> type, rate |-> rate, grace |-> grace, base |-> base]
ColombiaDefault == Rate("PERCENTAGE", 15000, 0, "TOTAL_DUE")

ValidLateFeeRule(rule) ==
    /\ rule.rate > 0 /\ rule.grace \in 0..365
    /\ rule.type = "PERCENTAGE" => rule.rate <= 1000000

Rounded(numerator, denominator) == (2 * numerator + denominator) \div (2 * denominator)

\* evaluateLateFee for a valid rule and a balance that is not negative
LateFee(balance, daysOverdue, rule) ==
    IF balance = 0 \/ daysOverdue <= rule.grace THEN 0
    ELSE IF rule.type = "FIXED" THEN Rounded(rule.rate, 100)
    ELSE Rounded(balance * rule.rate, 1000000)

\* The newest rule of the narrowest scope there is one in; files are sequences of rules,
\* and the rule of a country is used in Colombia only.
ActiveRule(ofContract, ofOrg, ofCountry, country) ==
    LET newest(rules) == rules[Len(rules)] IN
    IF ofContract # <<>> THEN newest(ofContract)
    ELSE IF ofOrg # <<>> THEN newest(ofOrg)
    ELSE IF ofCountry # <<>> /\ country = "CO" THEN newest(ofCountry)
    ELSE ColombiaDefault

\* The lines of a quote: balances outside the base of the rule cost nothing.
LateFeeLines(items, now, rule) ==
    {[id |-> i.id, fee |-> IF rule.base = "TOTAL_DUE" \/ i.type = "RENT"
                           THEN LateFee(i.balance, now - i.due, rule) ELSE 0] : i \in items}

NoStage == 0
DunningStageFor(daysOverdue) ==
    LET due == {stage \in {3, 7, 15, 30} : daysOverdue >= stage} IN
    IF due = {} THEN NoStage ELSE Max(due)

-----------------------------------------------------------------------------
\* detectReadingAnomaly, and the same rule in createMeterReading
Anomalous(previous, next) == next < previous \/ (previous > 0 /\ next > 3 * previous)
=============================================================================
