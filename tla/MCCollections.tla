--------------------------- MODULE MCCollections ---------------------------
(***************************************************************************)
(* A small instance of Collections: a month's rent and an ad-hoc charge    *)
(* due with the next one, two requests that create charges, two payments.  *)
(***************************************************************************)
EXTENDS Collections, TLC

CONSTANTS p1, p2, g1, g2, jan, fine

MCPayments == {p1, p2}
MCGenerators == {g1, g2}
MCCharges == {jan, fine}
MCRentCharges == {jan}
MCDue == jan :> 5 @@ fine :> 36
MCSymmetry == Permutations(MCPayments) \cup Permutations(MCGenerators)
=============================================================================
