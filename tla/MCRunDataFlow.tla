---------------------------- MODULE MCRunDataFlow ----------------------------
(* Instances of RunDataFlow for TLC.                                       *)
EXTENDS RunDataFlow

CONSTANTS s1, s2, h1, h2, e1, p1, p2, p3, p4

\* The sources share the spdaq, the ECC server and the host of the state rings.
OneDaqHost == [s \in Source |-> h1]
OneStateHost == [s \in Source |-> h1]
OneServer == [s \in Source |-> e1]
OneServerHost == [e \in Server |-> h1]

\* Every source has a spdaq, or a host for its state ring, of its own.
OwnDaqHost == [s \in Source |-> IF s = s1 THEN h1 ELSE h2]
OwnStateHost == OwnDaqHost
=============================================================================
