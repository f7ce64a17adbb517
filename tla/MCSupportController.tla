------------------------- MODULE MCSupportController -------------------------
(* Model-checking instance of SupportController.                           *)
EXTENDS SupportController, TLC

=============================================================================
