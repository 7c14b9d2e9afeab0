---------------------------- MODULE MCRunControl ----------------------------
(* Instances of RunControl for TLC.                                        *)
EXTENDS RunControlRefinement, TLC

CONSTANTS s1, s2, s3, h1, h2, e1, e2, p1, p2, p3, p4

\* Every source is read out through the same spdaq, state ring host and server.
SharedDaqHost == [s \in Source |-> h1]
SharedStateHost == [s \in Source |-> h1]
SharedServer == [s \in Source |-> e1]

\* Source s1 has a spdaq and a state ring host of its own.
SplitDaqHost == [s \in Source |-> IF s = s1 THEN h1 ELSE h2]
SplitStateHost == [s \in Source |-> IF s = s1 THEN h2 ELSE h1]

\* Source s1 has an ECC server of its own.
SplitServer == [s \in Source |-> IF s = s1 THEN e1 ELSE e2]

\* Channels are interchangeable.  Symmetry is only declared in runs that check
\* no liveness property.
PipeSymmetry == Permutations(Pipe)
=============================================================================
