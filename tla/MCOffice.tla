------------------------------ MODULE MCOffice ------------------------------
(***************************************************************************)
(* The desks of the office with two requests under way at once, and small  *)
(* inputs for each: two organizations, two statements that repeat and      *)
(* dispute rows, two owners of whom one votes by proxy, and so on.         *)
(***************************************************************************)
EXTENDS Office, TLC

CONSTANTS s1, s2, ana, luis

MCSlots == {s1, s2}

Row(g, a) == [group |-> g, amount |-> a]
MCFiles == {<<Row("cash", 5), Row("cash", 5)>>, <<Row("ref", 5), Row("cash", 7)>>,
            <<Row("cash", 5), Row("cash", 7)>>}
MCEntries == {3, -2}

Entry(o, pct, p) == [owner |-> o, share |-> pct, proxy |-> p]
MCOwners == {ana, luis}
MCAttendances == {<<Entry(ana, 60, NoOwner)>>, <<Entry(luis, 20, ana), Entry(ana, 20, NoOwner)>>,
                  <<Entry(luis, 60, NoOwner), Entry(luis, 60, NoOwner)>>}
MCFees == {[type |-> "ORDINARY", amount |-> 4], [type |-> "EXTRAORDINARY", amount |-> 9]}

Setting(hosted, runtimes) == [enabled |-> TRUE, hosted |-> hosted, runtimes |-> runtimes]
Direct(call, classes, mode, q) ==
    [call |-> call, classes |-> classes, mode |-> mode, question |-> q]
Outcome(i, c, ok) == [id |-> i, question |-> "triage", confidence |-> c, correct |-> ok]
MCConfigs == {Setting(TRUE, {"local", "webgpu"}), Setting(FALSE, {"provider"}),
              [Setting(FALSE, {"local"}) EXCEPT !.enabled = FALSE]}
MCDirectAsks == {Direct("text", {"INTERNAL"}, "hybrid", "none"),
                 Direct("text", {"PUBLIC", "FINANCIAL"}, "provider", "none"),
                 Direct("decide", {"FINANCIAL"}, "hybrid", "triage")}
MCOutcomes == {Outcome(1, 90, TRUE), Outcome(2, 30, FALSE)}

MCUnitLists == {<<>>, <<"101">>, <<"101", "101">>}
Period(from, to) == [from |-> from, to |-> to]
MCTenures == {Period(0, 8), Period(2, 2), Period(1, 2)}

MCSymmetry == Permutations(MCSlots)

-----------------------------------------------------------------------------
(***************************************************************************)
(* The rules that need no state, over small inputs.                        *)
(***************************************************************************)
\* An amount written with either convention is read as itself, with cents and without.
Place(n, base) == Fin!Digits[((n \div base) % 10) + 1]
Written(n, thousands, comma, cents) ==
    <<Place(n, 1000), thousands, Place(n, 100), Place(n, 10), Place(n, 1), comma,
      Place(cents, 10), Place(cents, 1)>>
ASSUME AmountsAreRead ==
    \A n \in {1000, 1234, 9090}, cents \in {0, 5, 10, 99} :
        /\ Fin!ParseAmountToMinor(Written(n, ".", ",", cents)) = 100 * n + cents
        /\ Fin!ParseAmountToMinor(Written(n, ",", ".", cents)) = 100 * n + cents
        /\ \A separator \in {".", ","} :
               Fin!ParseAmountToMinor(SubSeq(Written(n, separator, "-", 0), 1, 5)) = 100 * n

\* At most five payments are suggested, each within a week and 100 minor units, the best first.
Paid(amount, day, ref) == [amount |-> amount, day |-> day, ref |-> ref]
ASSUME SuggestionsAreClose ==
    \A a, b \in {500, 600, 601}, d \in {-8, -7, 6, 7}, n \in 1..7 :
        LET payments == [i \in 1..n |-> IF i = n THEN Paid(b, d, "ref") ELSE Paid(a, 0, "")]
            tx == Paid(500, 0, "ref")
            found == Fin!SuggestMatches(tx, payments) IN
        /\ Len(found) <= 5
        /\ \A i \in DOMAIN found :
               LET p == payments[found[i]] IN
               Fin!Apart(p.day, 0) <= 7 /\ Fin!Apart(p.amount, 500) <= 100
        /\ \A i, k \in DOMAIN found :
               i < k => Fin!Score(tx, payments[found[i]]) >= Fin!Score(tx, payments[found[k]])

\* Every balance that is owed is in one bucket of the aging report.
Item(id, balance, due) == [id |-> id, balance |-> balance, due |-> due, type |-> "RENT"]
ASSUME AgingAddsUp ==
    \A b, c \in {-2, 0, 5}, d, e \in {-91, -90, -61, -60, -31, -30, -1, 0, 1} :
        LET r == Util!AgingReport({Item(1, b, d), Item(2, c, e)}, 0) IN
        r.total = r.current + r.d1_30 + r.d31_60 + r.d61_90 + r.d90Plus

\* A late fee costs nothing within the grace period, grows with the balance and is no larger.
ASSUME LateFeesAreFair ==
    \A rate \in {1, 15000, 1000000}, grace \in {0, 5}, b \in 0..5, days \in {0, 1, 5, 6} :
        LET fee(balance) == Util!LateFee(balance, days, Util!Rate("PERCENTAGE", rate, grace, "RENT")) IN
        /\ days <= grace => fee(b) = 0
        /\ fee(b) \in 0..b /\ fee(b) <= fee(b + 1)

\* Reminders get more urgent as time goes by, and start with the third day.
ASSUME RemindersEscalate ==
    \A days \in 0..40 :
        /\ Util!DunningStageFor(days) <= Util!DunningStageFor(days + 1)
        /\ Util!DunningStageFor(days) = 0 <=> days < 3

\* Whatever an organization prefers, what is sensitive stays off the provider, and hybrid
\* mode finds a runtime whenever there is a permitted one.
ASSUME SensitiveStaysHome ==
    \A mode \in {"provider", "local", "webgpu", "hybrid", "disabled"},
       classes \in SUBSET {"PUBLIC", "INTERNAL", "FINANCIAL", "PERSONAL"},
       available \in SUBSET {"provider", "local", "webgpu"} :
        LET runtime == Ai!ResolvePermittedRuntime(mode, classes, available) IN
        /\ runtime \in available \cup {"disabled"}
        /\ runtime = "provider" => classes \cap Ai!Sensitive = {}
        /\ mode = "hybrid" /\ available \cap {"local", "webgpu"} # {} => runtime # "disabled"
=============================================================================
