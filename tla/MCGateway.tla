------------------------------ MODULE MCGateway ------------------------------
(***************************************************************************)
(* Three requests with one key and one of two payloads each; two addresses *)
(* with two requests a window; two requests under way at once, of three    *)
(* users, two of them administrators of the seeded organization.           *)
(***************************************************************************)
EXTENDS Gateway, TLC

CONSTANTS r1, r2, r3, s1, s2

MCRequests == {r1, r2, r3}
MCSlots == {s1, s2}
MCStaff == [ana |-> "admin", luis |-> "admin", eva |-> "viewer"]

MCSymmetry == Permutations(Payloads) \cup Permutations(MCSlots)
=============================================================================
