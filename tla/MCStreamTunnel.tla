--------------------------- MODULE MCStreamTunnel ---------------------------
(* Model-checking instance of StreamTunnel.                                *)
EXTENDS StreamTunnel

=============================================================================
