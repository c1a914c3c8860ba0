---------------------------- MODULE MCCatalogue -----------------------------
(* Two handlers at a time; users stand for the three tables that are       *)
(* handled alike.  With two ids per table a counter meets an id that was   *)
(* deleted or named by a request, and goes on past it.                     *)
EXTENDS Catalogue, TLC
Handlers == Permutations(Request)
=============================================================================
