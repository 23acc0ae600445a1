------------------------------ MODULE Contracts ------------------------------
(***************************************************************************)
(* What hangs on a contract, each on its own: its deposit (DepositLedger), *)
(* its life (ContractLifecycle) and the settlement of its property         *)
(* (Settlements).  They write different tables and read none of each       *)
(* other's, so a behaviour exercises one of them; the initial state picks  *)
(* which, and leaves the others with nothing to choose from.               *)
(***************************************************************************)
EXTENDS DepositLedger, ContractLifecycle, Settlements

CONSTANT Desks  \* the parts a behaviour may exercise

VARIABLE desk

ASSUME ContractsAssumption == LifecycleAssumption /\ SettlementAssumption

ContractsVars == <<desk, depositVars, lifeVars, settlementVars>>

ContractsInit ==
    /\ desk \in Desks /\ DepositInit /\ LifeInit /\ SettlementInit
    /\ desk # "life" =>
          \A m \in Months, rent \in Rents : row.end <= m /\ row.rent <= rent
    /\ desk # "settlement" => \A c \in Commissions : pct <= c

ContractsNext ==
    /\ UNCHANGED desk
    /\ \/ desk = "deposit" /\ DepositNext /\ UNCHANGED <<lifeVars, settlementVars>>
       \/ desk = "life" /\ LifeNext /\ UNCHANGED <<depositVars, settlementVars>>
       \/ desk = "settlement" /\ SettlementNext /\ UNCHANGED <<depositVars, lifeVars>>

ContractsSpec == ContractsInit /\ [][ContractsNext]_ContractsVars

-----------------------------------------------------------------------------
\* Whatever overlaps and wherever a handler stops, no column, quote, line or net goes
\* below zero, and there are never more transfers than payout requests.
ContractsTypeOK == DepositTypeOK /\ LifeTypeOK /\ SettlementTypeOK
=============================================================================
