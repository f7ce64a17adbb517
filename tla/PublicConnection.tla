-------------------------- MODULE PublicConnection --------------------------
(***************************************************************************)
(* What a TCP tunnel promises to the users of its public port: a           *)
(* connection waits until it is relayed over a data channel or refused,    *)
(* it is relayed at most once, over one channel, and once it is over it    *)
(* stays over.                                                             *)
(***************************************************************************)
CONSTANTS Conns,    \* public connections
          Channels, \* data channels a client may offer
          None      \* no channel

VARIABLES status,   \* what the user of each connection sees
          relay     \* the data channel each connection is relayed over

pvars == <<status, relay>>

PInit ==
    /\ status = [c \in Conns |-> "none"]
    /\ relay = [c \in Conns |-> None]

Arrive(c) ==
    /\ status[c] = "none"
    /\ status' = [status EXCEPT ![c] = "waiting"]
    /\ UNCHANGED relay

\* Only a waiting connection starts to be relayed.
Relay(c, d) ==
    /\ status[c] = "waiting"
    /\ status' = [status EXCEPT ![c] = "relayed"]
    /\ relay' = [relay EXCEPT ![c] = d]

\* Waiting connections are refused, relayed ones end; a node that is gone or
\* a tunnel that is closing refuses at once.
End(c) ==
    /\ status[c] \in {"none", "waiting", "relayed"}
    /\ status' = [status EXCEPT ![c] = "over"]
    /\ relay' = [relay EXCEPT ![c] = None]

\* Closing the tunnel refuses the connections that wait, one at a time.
PNext == \E c \in Conns : Arrive(c) \/ End(c) \/ (\E d \in Channels : Relay(c, d))

PSpec == PInit /\ [][PNext]_pvars

=============================================================================
