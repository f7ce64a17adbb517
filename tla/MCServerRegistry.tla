-------------------------- MODULE MCServerRegistry --------------------------
(* Model-checking instance of ServerRegistry.                              *)
EXTENDS ServerRegistry, TLC

CONSTANTS tcp, udp

\* One preset; its protocol changed and a second preset added; and a
\* registration whose presets are all invalid.
MCRegistrations ==
    { [q \in {1} |-> tcp], [q \in {1, 2} |-> IF q = 1 THEN udp ELSE tcp], NoPresets }

\* Fewer variants where connections are many.
TwoRegistrations == { [q \in {1} |-> tcp], [q \in {1, 2} |-> tcp] }

\* Control connections are interchangeable.
ConnSymmetry == Permutations(Conns)

=============================================================================
