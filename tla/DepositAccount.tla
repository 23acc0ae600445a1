-------------------------- MODULE DepositAccount --------------------------
(***************************************************************************)
(* What a security deposit promises (PRD FR-009): an account that is       *)
(* opened once with the amount held, from which movements deduct or return *)
(* no more than what remains.                                              *)
(*                                                                         *)
(* The promise is exact as long as no two movements race: each one starts  *)
(* from the ledger on file.  Once two have raced a movement may start from *)
(* any ledger that was on file before, which undoes the movements since.   *)
(***************************************************************************)
EXTENDS Integers

CONSTANTS HeldAmounts, MoveAmounts

VARIABLES
    recorded,  \* whether the deposit was opened
    ledger,    \* the ledger on file: held, deducted, returned
    past,      \* every ledger that has been on file
    racing     \* whether two movements have raced

vars == <<recorded, ledger, past, racing>>

Remaining(l) == l.held - l.deducted - l.returned

\* m is l after one legal movement.
Movement(l, m) ==
    \E a \in MoveAmounts \ {0} :
        /\ a <= Remaining(l)
        /\ m \in { [l EXCEPT !.deducted = @ + a], [l EXCEPT !.returned = @ + a] }

Init ==
    /\ recorded = FALSE
    /\ ledger = [held |-> 0, deducted |-> 0, returned |-> 0]
    /\ past = {}
    /\ racing = FALSE

Open ==
    /\ ~recorded
    /\ recorded' = TRUE
    /\ \E h \in HeldAmounts : ledger' = [held |-> h, deducted |-> 0, returned |-> 0]
    /\ past' = {ledger'}
    /\ UNCHANGED racing

Race ==
    /\ ~racing
    /\ racing' = TRUE
    /\ UNCHANGED <<recorded, ledger, past>>

Move ==
    /\ recorded
    /\ \/ Movement(ledger, ledger')
       \/ racing /\ \E l \in past : Movement(l, ledger')
    /\ past' = past \cup {ledger'}
    /\ UNCHANGED <<recorded, racing>>

Next == Open \/ Race \/ Move

Spec == Init /\ [][Next]_vars
=============================================================================
