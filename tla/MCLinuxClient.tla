---------------------------- MODULE MCLinuxClient ----------------------------
(* Model-checking instance of LinuxClient.                                 *)
EXTENDS LinuxClient

=============================================================================
