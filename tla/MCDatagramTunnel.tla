-------------------------- MODULE MCDatagramTunnel --------------------------
(* Model-checking instance of DatagramTunnel.  Session objects are numbered *)
(* in the order of their creation, so there is no symmetry to exploit.      *)
EXTENDS DatagramTunnel, TLC

\* The client retries the attach of the first session only.
FirstRetries == [s \in Sessions |-> IF s = 1 THEN 2 ELSE 1]

=============================================================================
