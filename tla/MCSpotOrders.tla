---------------------------- MODULE MCSpotOrders ----------------------------
(* Two orders, which nothing tells apart. *)
EXTENDS SpotOrders, TLC

CONSTANTS o1, o2

MCOrder == {o1, o2}
Symmetry == Permutations(MCOrder)

=============================================================================
