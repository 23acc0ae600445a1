------------------------------- MODULE MCClient -------------------------------
(***************************************************************************)
(* Two mutations with two attempts each, two flushes, one reload; two      *)
(* photos and three presses of the button; one model of one or two bytes.  *)
(***************************************************************************)
EXTENDS Client, TLC

CONSTANTS i1, i2, f1, f2

MCItems == {i1, i2}
MCFlushes == {f1, f2}

MCSymmetry == Permutations(MCItems) \cup Permutations(MCFlushes)
=============================================================================
