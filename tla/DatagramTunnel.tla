--------------------------- MODULE DatagramTunnel ---------------------------
(***************************************************************************)
(* One public UDP tunnel (internal/server/tunnel.go, the UDP branch of     *)
(* handleAttach): sessions per remote address, the data channel the client *)
(* attaches to a session, the attach and idle timers, and the closing of   *)
(* sessions and of the tunnel.  Payloads and the 64-slot inbound buffer    *)
(* are left out: enqueue never blocks and drops what does not fit.         *)
(***************************************************************************)
EXTENDS Integers, FiniteSets

CONSTANTS Remotes,      \* remote addresses
          Sessions,     \* identities of session objects, as numbers
          MaxAttempts,  \* session -> data channels the client may open for it
          None

ASSUME DatagramAssumption ==
    /\ Sessions \subseteq Nat
    /\ MaxAttempts \in [Sessions -> Nat \ {0}]
    /\ None \notin Remotes \cup Sessions \cup (Sessions \X Nat)

VARIABLES
    table,    \* Tunnel.udpSessions: remote address -> session
    remote,   \* the remote address of each session, None before it is created
    once,     \* session.close: "open", "closing", "closed"
    npc,      \* the handler that created the session: "none", "notify", "done"
    attached, \* session.attached
    stream,   \* session.stream
    taken,    \* the stream session.close read and will close
    at, it,   \* attach and idle timer: "nil", "off", "armed", "fired"
    sock,     \* the server's socket of each data channel: "none", "open", "closed"
    apc,      \* its handler: "none", "sent", "found", "adopted", "piping", "done"
    cpc,      \* Tunnel.Close: "open", "marked", "drained", "closed"
    victims,  \* sessions Tunnel.Close took out of the table
    active,   \* activeConnections
    opens     \* open_connection messages the client may have received

vars == <<table, remote, once, npc, attached, stream, taken, at, it, sock, apc, cpc,
          victims, active, opens>>

Channels == UNION {{s} \X (1..MaxAttempts[s]) : s \in Sessions}
Created == {s \in Sessions : remote[s] # None}
Timers == {"nil", "off", "armed", "fired"}

TypeOK ==
    /\ table \in [Remotes -> Sessions \cup {None}]
    /\ remote \in [Sessions -> Remotes \cup {None}]
    /\ once \in [Sessions -> {"open", "closing", "closed"}]
    /\ npc \in [Sessions -> {"none", "notify", "done"}]
    /\ attached \in [Sessions -> BOOLEAN]
    /\ stream \in [Sessions -> Channels \cup {None}]
    /\ taken \in [Sessions -> Channels \cup {None}]
    /\ at \in [Sessions -> Timers] /\ it \in [Sessions -> Timers]
    /\ sock \in [Channels -> {"none", "open", "closed"}]
    /\ apc \in [Channels -> {"none", "sent", "found", "adopted", "piping", "done"}]
    /\ cpc \in {"open", "marked", "drained", "closed"}
    /\ victims \subseteq Sessions
    /\ active \in Int
    /\ opens \subseteq Sessions

Init ==
    /\ table = [r \in Remotes |-> None] /\ remote = [s \in Sessions |-> None]
    /\ once = [s \in Sessions |-> "open"] /\ npc = [s \in Sessions |-> "none"]
    /\ attached = [s \in Sessions |-> FALSE]
    /\ stream = [s \in Sessions |-> None] /\ taken = [s \in Sessions |-> None]
    /\ at = [s \in Sessions |-> "nil"] /\ it = [s \in Sessions |-> "nil"]
    /\ sock = [d \in Channels |-> "none"] /\ apc = [d \in Channels |-> "none"]
    /\ cpc = "open" /\ victims = {} /\ active = 0 /\ opens = {}

-----------------------------------------------------------------------------
\* timer.Stop and timer.Reset; a callback that has started runs to its end.
Stopped(t) == IF t = "armed" THEN "off" ELSE t
Rearmed(t) == IF t = "off" THEN "armed" ELSE t

\* Mutant: closeOnce is missing.
CloseBegin_Again(s) ==
    /\ once' = [once EXCEPT ![s] = "closing"]
    /\ taken' = [taken EXCEPT ![s] = stream[s]]

\* session.close, first half, for the first caller only: under timerMu, stop
\* the timers and read the stream.
CloseBegin(s) ==
    IF once[s] = "open"
    THEN /\ once' = [once EXCEPT ![s] = "closing"]
         /\ taken' = [taken EXCEPT ![s] = stream[s]]
    ELSE UNCHANGED <<once, taken>>
StopTimers(s, a, i) ==
    /\ at' = [at EXCEPT ![s] = IF once[s] = "open" THEN Stopped(a) ELSE a]
    /\ it' = [it EXCEPT ![s] = IF once[s] = "open" THEN Stopped(i) ELSE i]

\* Second half: close the stream, delete the key whatever it maps to, count.
CloseEnd(s) ==
    /\ once[s] = "closing"
    /\ once' = [once EXCEPT ![s] = "closed"]
    /\ sock' = IF taken[s] = None THEN sock ELSE [sock EXCEPT ![taken[s]] = "closed"]
    /\ table' = [table EXCEPT ![remote[s]] = None]
    /\ active' = IF active - 1 < 0 THEN 0 ELSE active - 1
    /\ UNCHANGED <<remote, npc, attached, stream, taken, at, it, apc, cpc, victims, opens>>

-----------------------------------------------------------------------------
(* handlePublicDatagram.                                                   *)

\* Mutant: the table is not looked up first.
Datagram_New_Overwrites(r, s) ==
    /\ remote[s] = None /\ \A u \in Sessions : u < s => remote[u] # None
    /\ table' = [table EXCEPT ![r] = s]
    /\ remote' = [remote EXCEPT ![s] = r]
    /\ at' = [at EXCEPT ![s] = "armed"]
    /\ npc' = [npc EXCEPT ![s] = "notify"]
    /\ active' = active + 1
    /\ UNCHANGED <<once, attached, stream, taken, it, sock, apc, cpc, victims, opens>>

\* getOrCreateUDPSession creates a session, even in a tunnel being closed.
Datagram_New(r, s) ==
    /\ table[r] = None /\ remote[s] = None
    /\ \A u \in Sessions : u < s => remote[u] # None
    /\ table' = [table EXCEPT ![r] = s]
    /\ remote' = [remote EXCEPT ![s] = r]
    /\ at' = [at EXCEPT ![s] = "armed"]
    /\ npc' = [npc EXCEPT ![s] = "notify"]
    /\ active' = active + 1
    /\ UNCHANGED <<once, attached, stream, taken, it, sock, apc, cpc, victims, opens>>

\* touch, for a datagram of a known remote or a frame on the stream: restarts
\* an idle timer that was stopped (one that runs just runs longer).
Datagram_Touch(s) ==
    /\ remote[s] # None /\ attached[s] /\ it[s] = "off"
    /\ table[remote[s]] = s \/ apc[stream[s]] = "piping"
    /\ it' = [it EXCEPT ![s] = Rearmed(it[s])]
    /\ UNCHANGED <<table, remote, once, npc, attached, stream, taken, at, sock, apc, cpc,
                   victims, active, opens>>

Notify(s) ==
    /\ npc[s] = "notify"
    /\ npc' = [npc EXCEPT ![s] = "done"]
    /\ opens' = opens \cup {s}
    /\ UNCHANGED <<table, remote, once, attached, stream, taken, at, it, sock, apc, cpc,
                   victims, active>>

\* sendControl fails: the node is offline.
NotifyFails(s) ==
    /\ npc[s] = "notify"
    /\ npc' = [npc EXCEPT ![s] = "done"]
    /\ CloseBegin(s)
    /\ StopTimers(s, at[s], it[s])
    /\ UNCHANGED <<table, remote, attached, stream, sock, apc, cpc, victims, active, opens>>

-----------------------------------------------------------------------------
(* Timers.                                                                 *)

AttachTimer_Expires(s) ==
    /\ at[s] = "armed"
    /\ at' = [at EXCEPT ![s] = "fired"]
    /\ UNCHANGED <<table, remote, once, npc, attached, stream, taken, it, sock, apc, cpc,
                   victims, active, opens>>

IdleTimer_Expires(s) ==
    /\ it[s] = "armed"
    /\ it' = [it EXCEPT ![s] = "fired"]
    /\ UNCHANGED <<table, remote, once, npc, attached, stream, taken, at, sock, apc, cpc,
                   victims, active, opens>>

AttachTimer_Runs(s) ==
    /\ at[s] = "fired"
    /\ CloseBegin(s)
    /\ StopTimers(s, "off", it[s])
    /\ UNCHANGED <<table, remote, npc, attached, stream, sock, apc, cpc, victims, active,
                   opens>>

IdleTimer_Runs(s) ==
    /\ it[s] = "fired"
    /\ CloseBegin(s)
    /\ StopTimers(s, at[s], "off")
    /\ UNCHANGED <<table, remote, npc, attached, stream, sock, apc, cpc, victims, active,
                   opens>>

-----------------------------------------------------------------------------
(* handleAttach and session.attach.                                        *)

\* The client answers an open_connection; after a failed attempt it retries.
Client_Attach(d) ==
    /\ d[1] \in opens /\ apc[d] = "none"
    /\ \A k \in 1..(d[2] - 1) : apc[<<d[1], k>>] # "none"
    /\ apc' = [apc EXCEPT ![d] = "sent"]
    /\ sock' = [sock EXCEPT ![d] = "open"]
    /\ UNCHANGED <<table, remote, once, npc, attached, stream, taken, at, it, cpc,
                   victims, active, opens>>

\* getTunnel and findUDPSession.
Attach_Find(d) ==
    /\ apc[d] = "sent"
    /\ IF cpc # "closed" /\ \E r \in Remotes : table[r] = d[1]
       THEN apc' = [apc EXCEPT ![d] = "found"] /\ UNCHANGED sock
       ELSE apc' = [apc EXCEPT ![d] = "done"] /\ sock' = [sock EXCEPT ![d] = "closed"]
    /\ UNCHANGED <<table, remote, once, npc, attached, stream, taken, at, it, cpc,
                   victims, active, opens>>

\* session.attach under timerMu; it does not look at session.closed.
Attach_Adopt(d) ==
    LET s == d[1]
    IN  /\ apc[d] = "found"
        /\ \/ /\ attached[s]
              /\ sock' = [sock EXCEPT ![d] = "closed"]
              /\ apc' = [apc EXCEPT ![d] = "done"]
              /\ UNCHANGED <<attached, stream, at>>
           \/ /\ ~attached[s]
              /\ attached' = [attached EXCEPT ![s] = TRUE]
              /\ stream' = [stream EXCEPT ![s] = d]
              /\ at' = [at EXCEPT ![s] = Stopped(@)]
              /\ apc' = [apc EXCEPT ![d] = "adopted"]
              /\ UNCHANGED sock
        /\ UNCHANGED <<table, remote, once, npc, taken, it, cpc, victims, active, opens>>

\* Mutant: the idle timer is not started.
Attach_Start_Untimed(d) ==
    /\ apc[d] = "adopted"
    /\ apc' = [apc EXCEPT ![d] = "piping"]
    /\ UNCHANGED <<table, remote, once, npc, attached, stream, taken, at, it, sock, cpc,
                   victims, active, opens>>

\* startIdleTimeout, then the two pipes.
Attach_Start(d) ==
    /\ apc[d] = "adopted"
    /\ it' = [it EXCEPT ![d[1]] = "armed"]
    /\ apc' = [apc EXCEPT ![d] = "piping"]
    /\ UNCHANGED <<table, remote, once, npc, attached, stream, taken, at, sock, cpc,
                   victims, active, opens>>

\* A pipe fails: the stream was closed here, or by the client, or public UDP
\* can no longer be written.
Pipe_Ends(d) ==
    LET s == d[1]
    IN  /\ apc[d] = "piping"
        /\ apc' = [apc EXCEPT ![d] = "done"]
        /\ CloseBegin(s)
        /\ StopTimers(s, at[s], it[s])
        /\ UNCHANGED <<table, remote, npc, attached, stream, sock, cpc, victims, active,
                       opens>>

-----------------------------------------------------------------------------
(* Tunnel.Close.                                                           *)

Close_Mark ==
    /\ cpc = "open" /\ cpc' = "marked"
    /\ UNCHANGED <<table, remote, once, npc, attached, stream, taken, at, it, sock, apc,
                   victims, active, opens>>

Close_Drain ==
    /\ cpc = "marked" /\ cpc' = "drained"
    /\ victims' = {s \in Sessions : \E r \in Remotes : table[r] = s}
    /\ table' = [r \in Remotes |-> None]
    /\ UNCHANGED <<remote, once, npc, attached, stream, taken, at, it, sock, apc, active,
                   opens>>

Close_Victim(s) ==
    /\ cpc = "drained" /\ s \in victims
    /\ victims' = victims \ {s}
    /\ CloseBegin(s)
    /\ StopTimers(s, at[s], it[s])
    /\ UNCHANGED <<table, remote, npc, attached, stream, sock, apc, cpc, active, opens>>

Close_Done ==
    /\ cpc = "drained" /\ victims = {} /\ cpc' = "closed"
    /\ UNCHANGED <<table, remote, once, npc, attached, stream, taken, at, it, sock, apc,
                   victims, active, opens>>

-----------------------------------------------------------------------------
SessionStep(s) ==
    \/ \E r \in Remotes : Datagram_New(r, s)
    \/ Datagram_Touch(s) \/ Notify(s) \/ NotifyFails(s) \/ CloseEnd(s)
    \/ AttachTimer_Expires(s) \/ AttachTimer_Runs(s)
    \/ IdleTimer_Expires(s) \/ IdleTimer_Runs(s)
    \/ Close_Victim(s)

ChannelStep(d) ==
    Client_Attach(d) \/ Attach_Find(d) \/ Attach_Adopt(d) \/ Attach_Start(d) \/ Pipe_Ends(d)

Next ==
    \/ \E s \in Sessions : SessionStep(s)
    \/ \E d \in Channels : ChannelStep(d)
    \/ Close_Mark \/ Close_Drain \/ Close_Done

Spec == Init /\ [][Next]_vars

(* Timers expire (no remote sends for ever) and the server's goroutines     *)
(* run; nothing is asked of the client or of whoever closes the tunnel.     *)
Fairness ==
    /\ \A s \in Sessions :
          /\ WF_vars(Notify(s) \/ NotifyFails(s)) /\ WF_vars(CloseEnd(s))
          /\ WF_vars(AttachTimer_Expires(s)) /\ WF_vars(AttachTimer_Runs(s))
          /\ WF_vars(IdleTimer_Expires(s)) /\ WF_vars(IdleTimer_Runs(s))
          /\ WF_vars(Close_Victim(s))
    /\ \A d \in Channels :
          WF_vars(Attach_Find(d)) /\ WF_vars(Attach_Adopt(d)) /\ WF_vars(Attach_Start(d))
    /\ WF_vars(Close_Drain) /\ WF_vars(Close_Done)

FairSpec == Spec /\ Fairness

-----------------------------------------------------------------------------
(* Properties.                                                             *)

\* A session that is not closed is watched by a timer, or is between stopping
\* the attach timer and starting the idle timer: however attach, datagrams
\* and the two timers interleave, it cannot live for ever.
OpenSessionIsTimed ==
    \A s \in Created : once[s] = "open" =>
        \/ at[s] \in {"armed", "fired"} \/ it[s] \in {"armed", "fired"}
        \/ stream[s] # None /\ apc[stream[s]] = "adopted"

\* activeConnections counts the sessions not closed yet, each exactly once.
ActiveCountsSessions == active = Cardinality({s \in Created : once[s] # "closed"})

\* While the tunnel is open its table maps every remote to its one open
\* session: an unconditional delete by a session that closes never hits the
\* entry of a newer one.
OpenTunnelKnowsSessions ==
    cpc = "open" => \A s \in Created : once[s] # "closed" => table[remote[s]] = s

\* Every session ends, whatever the client does.
SessionEnds == \A s \in Sessions : remote[s] # None ~> once[s] = "closed"

=============================================================================
