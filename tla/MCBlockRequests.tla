-------------------------- MODULE MCBlockRequests --------------------------
(* Model-checking instance of BlockRequests.                               *)
EXTENDS BlockRequests, TLC

\* Requests are interchangeable.
ReqSymmetry == Permutations(Reqs)

=============================================================================
