--------------------------- MODULE MCManagedConfig ---------------------------
(* Model-checking instance of ManagedConfig.                               *)
EXTENDS ManagedConfig

=============================================================================
