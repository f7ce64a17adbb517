-------------------------- MODULE MCWindowsInstall --------------------------
(* Model-checking instance of WindowsInstall.                              *)
EXTENDS WindowsInstall

=============================================================================
