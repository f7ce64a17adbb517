--------------------------- MODULE MCClientSession ---------------------------
(* Model-checking instance of ClientSession.                               *)
EXTENDS ClientSession, TLC

\* Management requests are interchangeable.
RequestSymmetry == Permutations(Requests)

=============================================================================
