---------------------------- MODULE MCHnswSelect ----------------------------
(* Vectors on a small grid, and the squared L2 distance between them. *)
EXTENDS HnswSelect

Square(n)     == n * n
L2(p, q)      == Square(p[1] - q[1]) + Square(p[2] - q[2])
Grid          == {p \in (0..2) \X (0..2) : p[1] + p[2] <= 2}
Corner        == <<0, 0>>

\* Elements are compared by number only if they are equally far from the owner, so they
\* may be numbered in the order of their distances: every placement is one of these up
\* to the names of elements.
MCInit == Init /\ \A e, f \in Elements : e < f => Metric(Origin, point[e]) <= Metric(Origin, point[f])
MCSpec == MCInit /\ [][Next]_vars
=============================================================================
