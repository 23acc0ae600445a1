----------------------------- MODULE MCContracts -----------------------------
(***************************************************************************)
(* A deposit of up to three minor units with three movements; a life with  *)
(* three requests; a settlement with three requests that add owners, two   *)
(* that settle and two that pay out.                                       *)
(*                                                                         *)
(* The last month of the life is more than three after the first, so the   *)
(* indemnity is quoted below, at and above its cap.  Shares are sixths, so *)
(* three owners may be equal or one own twice as much as another, and      *)
(* amounts leave units over to hand out.                                   *)
(***************************************************************************)
EXTENDS Contracts, TLC

CONSTANTS r1, r2, r3, g1, g2, p1, p2

MCRequests == {r1, r2, r3}
MCSettlers == {g1, g2}
MCPayers   == {p1, p2}
MCIndexes  == {-50, 30, 60}

MCSymmetry ==
    Permutations(MCRequests) \cup Permutations(MCSettlers) \cup Permutations(MCPayers)
=============================================================================
