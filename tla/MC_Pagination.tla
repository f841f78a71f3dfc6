---------------------------- MODULE MC_Pagination ----------------------------
(* A small instance of Pagination for TLC: integers of four bits, and what   *)
(* clients write goes beyond them on both sides.                             *)
EXTENDS Pagination

MCNumbers == {-9, -8, -3, -1, 0, 1, 2, 3, 4, 5, 7, 8, 9, 17}

=============================================================================
