---------------------------- MODULE MCHnswBuild ----------------------------
(***************************************************************************)
(* Small instances of HnswBuild.                                           *)
(***************************************************************************)
EXTENDS HnswBuild, TLC

CONSTANTS r1, r2, r3, r4, a, b

\* Two rows share a vector.
TwoEqual == (r1 :> a @@ r2 :> a @@ r3 :> b)
\* And a row has none.
OneNull == TwoEqual @@ (r4 :> NullValue)
=============================================================================
