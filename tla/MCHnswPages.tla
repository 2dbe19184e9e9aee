---------------------------- MODULE MCHnswPages -----------------------------
(* Sizes for the runs of HnswPages. *)
EXTENDS HnswPages

\* A page of 13: two elements of level 0, or one of level 1; one of level 2 needs
\* two pages.
SmallNtup(l) == CASE l = 0 -> 2 [] l = 1 -> 5 [] l = 2 -> 10
=============================================================================
