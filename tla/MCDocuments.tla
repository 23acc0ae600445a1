----------------------------- MODULE MCDocuments -----------------------------
(***************************************************************************)
(* Two handlers at a time, two users, up to two versions.                  *)
(***************************************************************************)
EXTENDS Documents, TLC

CONSTANTS s1, s2

MCSlots == {s1, s2}
MCSymmetry == Permutations(MCSlots)
=============================================================================
