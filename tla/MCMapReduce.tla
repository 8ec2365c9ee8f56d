---------------------------- MODULE MCMapReduce ----------------------------
(* Instances of MapReduce for TLC.                                         *)
EXTENDS MapReduce

CONSTANTS w1, w2

\* w1 refuses calls after some RPCs, at any point of the job or not at all; w2
\* goes on.
OneFailure == {[w \in Worker |-> IF w = w1 THEN n ELSE -1] : n \in 1..12}

\* Both workers go on.
NoFailure == {[w \in Worker |-> -1]}
=============================================================================
