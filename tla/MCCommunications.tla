-------------------------- MODULE MCCommunications --------------------------
(***************************************************************************)
(* Communications to a user who is listed twice and to an address that is, *)
(* with both lists filled or one of them empty, two consumers, a window    *)
(* and a list of two, the oldest event undeliverable.                      *)
(***************************************************************************)
EXTENDS Communications

CONSTANTS ana, luis, home, work

\* The list and the window both leave room for an event that can be delivered,
\* and no consumer asks for more than the window.
ASSUME Cardinality(Poison) < Limit /\ Limit <= Window

Asked == { [users |-> <<ana, luis, ana>>, emails |-> <<home, work, home>>],
           [users |-> <<luis, ana>>, emails |-> <<>>],
           Nobody }
=============================================================================
