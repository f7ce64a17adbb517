---------------------------- MODULE StreamTunnel ----------------------------
(***************************************************************************)
(* One public TCP tunnel (internal/server/tunnel.go, handleAttach in       *)
(* server.go) and the client that serves it (client/internal/client):      *)
(* public connections wait in `pending` until the client attaches a data   *)
(* channel, and an attach timer, a connection_error, an offline node, the  *)
(* closing of the tunnel and the attach itself all compete for them.       *)
(***************************************************************************)
EXTENDS Integers, FiniteSets

CONSTANTS Conns,           \* public connections
          MaxAttempts,     \* attachConnectionAttempts
          SlowScheduling,  \* may the attach timer beat its own handler?
          MaxReconnects,   \* bound: control sessions after the first one
          None

ASSUME StreamAssumption ==
    /\ MaxAttempts \in Nat \ {0}
    /\ SlowScheduling \in BOOLEAN
    /\ MaxReconnects \in Nat
    /\ None \notin Conns \X (1..MaxAttempts)

VARIABLES
    pub,      \* the public socket: "idle" (not connected yet), "open", "closed"
    hpc,      \* handlePublicConn: "idle", "insert", "notify", "done"
    pending,  \* Tunnel.pending
    timer,    \* the attach timer: "off", "armed", "fired" (callback waits for the lock)
    cpc,      \* Tunnel.Close: "open", "marked", "drained", "closed" (unregistered)
    victims,  \* connections Close took out of pending and has not closed yet
    active,   \* activeConnections
    known,    \* is the node still registered with the server?
    cred,     \* is the client's credential still valid?
    online,   \* the node's control session
    sessions, \* control sessions left
    opens,    \* open_connection messages on the control connection
    errs,     \* connection_error messages on the control connection
    cl,       \* the client's handler of each connection
    tries,    \* attach attempts it has made
    chan      \* the server's side of each data channel

svars == <<pub, hpc, pending, timer, cpc, victims, active>>
nvars == <<known, cred, online, sessions, opens, errs>>
cvars == <<cl, tries>>
vars == <<svars, nvars, cvars, chan>>

\* The k-th data channel a client opens for a connection.
Channels == Conns \X (1..MaxAttempts)
RelaysOf(c) == {d \in Channels : d[1] = c /\ chan[d] = "relay"}

TypeOK ==
    /\ pub \in [Conns -> {"idle", "open", "closed"}]
    /\ hpc \in [Conns -> {"idle", "insert", "notify", "done"}]
    /\ pending \subseteq Conns /\ victims \subseteq Conns
    /\ timer \in [Conns -> {"off", "armed", "fired"}]
    /\ cpc \in {"open", "marked", "drained", "closed"}
    /\ active \in Int
    /\ known \in BOOLEAN /\ cred \in BOOLEAN /\ online \in BOOLEAN
    /\ sessions \in 0..MaxReconnects
    /\ opens \subseteq Conns /\ errs \subseteq Conns
    /\ cl \in [Conns -> {"idle", "dial", "attach", "relay", "done"}]
    /\ tries \in [Conns -> 0..MaxAttempts]
    /\ chan \in [Channels -> {"none", "sent", "checked", "relay", "closed"}]

Init ==
    /\ pub = [c \in Conns |-> "idle"] /\ hpc = [c \in Conns |-> "idle"]
    /\ pending = {} /\ victims = {}
    /\ timer = [c \in Conns |-> "off"]
    /\ cpc = "open"
    /\ active = 0
    /\ known = TRUE /\ cred = TRUE /\ online = TRUE
    /\ sessions = MaxReconnects
    /\ opens = {} /\ errs = {}
    /\ cl = [c \in Conns |-> "idle"] /\ tries = [c \in Conns |-> 0]
    /\ chan = [d \in Channels |-> "none"]

-----------------------------------------------------------------------------
\* timer.Stop: no effect on a callback that has already started.
Stopped(c) == [timer EXCEPT ![c] = IF @ = "armed" THEN "off" ELSE @]

\* failPending: whoever takes the connection out of the table closes it.
FailPending(c) ==
    IF c \in pending
    THEN /\ pending' = pending \ {c}
         /\ timer' = Stopped(c)
         /\ pub' = [pub EXCEPT ![c] = "closed"]
    ELSE UNCHANGED <<pending, timer, pub>>

\* The control session ends: messages on it are lost and the client cancels
\* the handlers that belong to it.
EndSession ==
    /\ online' = FALSE
    /\ opens' = {}
    /\ cl' = [c \in Conns |-> IF cl[c] = "idle" THEN "idle" ELSE "done"]

-----------------------------------------------------------------------------
(* The server: handlePublicConn.                                           *)

\* Accept, getNode, and the timer, armed before the connection is registered.
Accept(c) ==
    /\ cpc = "open" /\ pub[c] = "idle"
    /\ hpc' = [hpc EXCEPT ![c] = IF known THEN "insert" ELSE "done"]
    /\ pub' = [pub EXCEPT ![c] = IF known THEN "open" ELSE "closed"]
    /\ timer' = [timer EXCEPT ![c] = IF known THEN "armed" ELSE "off"]
    /\ UNCHANGED <<pending, cpc, victims, active, nvars, cvars, chan>>

\* Mutant: the table is filled without looking at closed.
Insert_IgnoresClose(c) ==
    /\ hpc[c] = "insert"
    /\ pending' = pending \cup {c}
    /\ hpc' = [hpc EXCEPT ![c] = "notify"]
    /\ UNCHANGED <<pub, timer, cpc, victims, active, nvars, cvars, chan>>

\* Under pendingMu: a closed tunnel refuses, its timer stays armed.
Insert(c) ==
    /\ hpc[c] = "insert"
    /\ \/ /\ cpc = "open"
          /\ pending' = pending \cup {c}
          /\ hpc' = [hpc EXCEPT ![c] = "notify"]
          /\ UNCHANGED pub
       \/ /\ cpc # "open"
          /\ pub' = [pub EXCEPT ![c] = "closed"]
          /\ hpc' = [hpc EXCEPT ![c] = "done"]
          /\ UNCHANGED pending
    /\ UNCHANGED <<timer, cpc, victims, active, nvars, cvars, chan>>

Notify(c) ==
    /\ hpc[c] = "notify" /\ online
    /\ hpc' = [hpc EXCEPT ![c] = "done"]
    /\ opens' = opens \cup {c}
    /\ UNCHANGED <<pub, pending, timer, cpc, victims, active, known, cred, online,
                   sessions, errs, cvars, chan>>

\* sendControl fails: the node is offline, or the write fails and ends the session.
NotifyFails(c) ==
    /\ hpc[c] = "notify"
    /\ hpc' = [hpc EXCEPT ![c] = "done"]
    /\ FailPending(c)
    /\ EndSession
    /\ UNCHANGED <<cpc, victims, active, known, cred, sessions, errs, tries, chan>>

Timer_Expires(c) ==
    /\ timer[c] = "armed"
    /\ SlowScheduling \/ hpc[c] # "insert"
    /\ timer' = [timer EXCEPT ![c] = "fired"]
    /\ UNCHANGED <<pub, hpc, pending, cpc, victims, active, nvars, cvars, chan>>

\* Mutant: the callback closes the connection it captured, pending or not.
Timer_Runs_Blind(c) ==
    /\ timer[c] = "fired"
    /\ pending' = pending \ {c} /\ pub' = [pub EXCEPT ![c] = "closed"]
    /\ timer' = [timer EXCEPT ![c] = "off"]
    /\ UNCHANGED <<hpc, cpc, victims, active, nvars, cvars, chan>>

Timer_Runs(c) ==
    /\ timer[c] = "fired"
    /\ IF c \in pending
       THEN pending' = pending \ {c} /\ pub' = [pub EXCEPT ![c] = "closed"]
       ELSE UNCHANGED <<pending, pub>>
    /\ timer' = [timer EXCEPT ![c] = "off"]
    /\ UNCHANGED <<hpc, cpc, victims, active, nvars, cvars, chan>>

\* nodeControlLoop: a connection_error for a tunnel that is still registered.
Error_Arrives(c) ==
    /\ c \in errs
    /\ errs' = errs \ {c}
    /\ IF cpc # "closed" THEN FailPending(c) ELSE UNCHANGED <<pending, timer, pub>>
    /\ UNCHANGED <<hpc, cpc, victims, active, known, cred, online, sessions, opens,
                   cvars, chan>>

-----------------------------------------------------------------------------
(* The server: handleAttach.                                               *)

\* getTunnel, getNode and the credential; a refused channel is closed.
Attach_Check(d) ==
    /\ chan[d] = "sent"
    /\ chan' = [chan EXCEPT ![d] =
                  IF cpc # "closed" /\ known /\ cred THEN "checked" ELSE "closed"]
    /\ UNCHANGED <<svars, nvars, cvars>>

\* Mutant: takePending looks the connection up and leaves it in the table.
Attach_Take_Leaves(d) ==
    /\ chan[d] = "checked" /\ d[1] \in pending
    /\ timer' = Stopped(d[1])
    /\ active' = active + 1
    /\ chan' = [chan EXCEPT ![d] = "relay"]
    /\ UNCHANGED <<pub, hpc, pending, cpc, victims, nvars, cvars>>

\* takePending hands the connection to this channel, or there is none to take.
Attach_Take(d) ==
    LET c == d[1]
    IN  /\ chan[d] = "checked"
        /\ \/ /\ c \in pending
              /\ pending' = pending \ {c}
              /\ timer' = Stopped(c)
              /\ active' = active + 1
              /\ chan' = [chan EXCEPT ![d] = "relay"]
           \/ /\ c \notin pending
              /\ chan' = [chan EXCEPT ![d] = "closed"]
              /\ UNCHANGED <<pending, timer, active>>
        /\ UNCHANGED <<pub, hpc, cpc, victims, nvars, cvars>>

\* Mutant: endTransfer is not called.
Relay_End_Uncounted(d) ==
    /\ chan[d] = "relay"
    /\ chan' = [chan EXCEPT ![d] = "closed"]
    /\ pub' = [pub EXCEPT ![d[1]] = "closed"]
    /\ UNCHANGED <<hpc, pending, timer, cpc, victims, active, nvars, cvars>>

\* ProxyWithAccounting returns: both sockets are closed, endTransfer counts down.
Relay_End(d) ==
    /\ chan[d] = "relay"
    /\ chan' = [chan EXCEPT ![d] = "closed"]
    /\ pub' = [pub EXCEPT ![d[1]] = "closed"]
    /\ active' = IF active - 1 < 0 THEN 0 ELSE active - 1
    /\ UNCHANGED <<hpc, pending, timer, cpc, victims, nvars, cvars>>

-----------------------------------------------------------------------------
(* The server: Tunnel.Close, at most once.                                 *)

Close_Mark ==
    /\ cpc = "open" /\ cpc' = "marked"
    /\ UNCHANGED <<pub, hpc, pending, timer, victims, active, nvars, cvars, chan>>

Close_Drain ==
    /\ cpc = "marked" /\ cpc' = "drained"
    /\ victims' = pending /\ pending' = {}
    /\ UNCHANGED <<pub, hpc, timer, active, nvars, cvars, chan>>

\* Mutant: Close stops the timer and forgets the connection.
Close_Victim_LeavesOpen(c) ==
    /\ cpc = "drained" /\ c \in victims
    /\ victims' = victims \ {c}
    /\ timer' = Stopped(c)
    /\ UNCHANGED <<pub, hpc, pending, cpc, active, nvars, cvars, chan>>

Close_Victim(c) ==
    /\ cpc = "drained" /\ c \in victims
    /\ victims' = victims \ {c}
    /\ timer' = Stopped(c)
    /\ pub' = [pub EXCEPT ![c] = "closed"]
    /\ UNCHANGED <<hpc, pending, cpc, active, nvars, cvars, chan>>

Close_Done ==
    /\ cpc = "drained" /\ victims = {} /\ cpc' = "closed"
    /\ UNCHANGED <<pub, hpc, pending, timer, victims, active, nvars, cvars, chan>>

-----------------------------------------------------------------------------
(* The node: deletion, credential rotation, loss and return of the session. *)

DeleteNode ==
    /\ known /\ known' = FALSE
    /\ UNCHANGED <<svars, cred, online, sessions, opens, errs, cvars, chan>>

RotateCredential ==
    /\ known /\ cred /\ cred' = FALSE
    /\ EndSession
    /\ UNCHANGED <<svars, known, sessions, errs, tries, chan>>

\* What the client wrote before the loss may still be read.
SessionLost ==
    /\ online
    /\ EndSession
    /\ errs' \in {errs, {}}
    /\ UNCHANGED <<svars, known, cred, sessions, tries, chan>>

Reconnect ==
    /\ ~online /\ known /\ sessions > 0
    /\ online' = TRUE /\ cred' = TRUE
    /\ sessions' = sessions - 1
    /\ UNCHANGED <<svars, known, opens, errs, cvars, chan>>

-----------------------------------------------------------------------------
(* The client: handleOpenStreamConnection, openAttachConnectionWithPolicy. *)

Client_Open(c) ==
    /\ c \in opens /\ opens' = opens \ {c}
    /\ cl' = [cl EXCEPT ![c] = "dial"]
    /\ UNCHANGED <<svars, known, cred, online, sessions, errs, tries, chan>>

\* sendConnectionError, on the session the handler belongs to.
Client_GivesUp(c) ==
    /\ cl' = [cl EXCEPT ![c] = "done"]
    /\ errs' = IF online THEN errs \cup {c} ELSE errs

\* Unknown preset, wrong protocol, or the local service does not answer.
Client_DialFails(c) ==
    /\ cl[c] = "dial"
    /\ Client_GivesUp(c)
    /\ UNCHANGED <<svars, known, cred, online, sessions, opens, tries, chan>>

Client_Dial(c) ==
    /\ cl[c] = "dial"
    /\ cl' = [cl EXCEPT ![c] = "attach"]
    /\ UNCHANGED <<svars, nvars, tries, chan>>

\* openAttachConnectionOnce succeeds: the client starts to relay.
Client_Attach(c) ==
    /\ cl[c] = "attach" /\ tries[c] < MaxAttempts
    /\ tries' = [tries EXCEPT ![c] = @ + 1]
    /\ chan' = [chan EXCEPT ![<<c, tries[c] + 1>>] = "sent"]
    /\ cl' = [cl EXCEPT ![c] = "relay"]
    /\ UNCHANGED <<svars, nvars>>

\* An attempt fails, yet the request may have reached the server; the client
\* tries again or, after the last attempt, reports the error.
Client_AttachFails(c) ==
    /\ cl[c] = "attach" /\ tries[c] < MaxAttempts
    /\ tries' = [tries EXCEPT ![c] = @ + 1]
    /\ \E s \in {"sent", "closed"} : chan' = [chan EXCEPT ![<<c, tries[c] + 1>>] = s]
    /\ IF tries'[c] < MaxAttempts THEN UNCHANGED <<cl, errs>> ELSE Client_GivesUp(c)
    /\ UNCHANGED <<svars, known, cred, online, sessions, opens>>

-----------------------------------------------------------------------------
ConnStep(c) ==
    \/ Accept(c) \/ Insert(c) \/ Notify(c) \/ NotifyFails(c)
    \/ Timer_Expires(c) \/ Timer_Runs(c) \/ Error_Arrives(c) \/ Close_Victim(c)
    \/ Client_Open(c) \/ Client_DialFails(c) \/ Client_Dial(c)
    \/ Client_Attach(c) \/ Client_AttachFails(c)

ChannelStep(d) == Attach_Check(d) \/ Attach_Take(d) \/ Relay_End(d)

TunnelStep ==
    \/ Close_Mark \/ Close_Drain \/ Close_Done
    \/ DeleteNode \/ RotateCredential \/ SessionLost \/ Reconnect

Next ==
    \/ \E c \in Conns : ConnStep(c)
    \/ \E d \in Channels : ChannelStep(d)
    \/ TunnelStep

Spec == Init /\ [][Next]_vars

(* Goroutines and timers of the server run; nothing is asked of the client, *)
(* the network, or of whoever closes the tunnel or deletes the node.        *)
Fairness ==
    /\ \A c \in Conns :
          /\ WF_vars(Insert(c)) /\ WF_vars(Notify(c) \/ NotifyFails(c))
          /\ WF_vars(Timer_Expires(c)) /\ WF_vars(Timer_Runs(c))
          /\ WF_vars(Close_Victim(c))
    /\ \A d \in Channels : WF_vars(Attach_Check(d)) /\ WF_vars(Attach_Take(d))
    /\ WF_vars(Close_Drain) /\ WF_vars(Close_Done)

FairSpec == Spec /\ Fairness

-----------------------------------------------------------------------------
(* Properties.                                                             *)

\* Every public connection whose handler is done has exactly one owner that
\* will close it: the pending table, Tunnel.Close, or one data channel.
\* Neither a lost race nor a late attach leaks it or hands it out twice.
OneOwner ==
    \A c \in Conns :
        /\ pub[c] = "open" /\ hpc[c] # "insert" =>
              c \in pending \/ c \in victims \/ RelaysOf(c) # {}
        /\ pub[c] # "open" => c \notin pending /\ c \notin victims /\ RelaysOf(c) = {}
        /\ c \in pending => c \notin victims /\ RelaysOf(c) = {}
        /\ c \in victims => RelaysOf(c) = {}
        /\ \A d, e \in RelaysOf(c) : d = e

\* activeConnections counts the relayed connections, whatever way they end.
ActiveCountsRelays == active = Cardinality({d \in Channels : chan[d] = "relay"})

\* Once Close has swapped the table no connection gets into it any more: a
\* handler that was accepted before cannot leave one behind.
ClosedTunnelHasNoPending == cpc \in {"drained", "closed"} => pending = {}

(* OneOwner is inductive together with where the handlers are: a connection *)
(* becomes pending only through its handler, Close drains only once, and   *)
(* a new channel is never one that already relays.                          *)
HandlerInv ==
    \A c \in Conns :
        /\ pub[c] = "idle" <=> hpc[c] = "idle"
        /\ hpc[c] = "insert" =>
              pub[c] = "open" /\ c \notin pending /\ c \notin victims /\ RelaysOf(c) = {}

CloseInv ==
    /\ cpc \in {"drained", "closed"} => pending = {}
    /\ cpc # "drained" => victims = {}

\* The client opens the channels of a connection one after the other.
ChannelInv == \A d \in Channels : d[2] > tries[d[1]] => chan[d] = "none"

\* Every public connection is relayed or closed in the end, even when the
\* client, its session or the tunnel disappears at any moment.
ConnectionResolved ==
    \A c \in Conns : pub[c] = "open" ~> (pub[c] = "closed" \/ RelaysOf(c) # {})

\* The tunnel implements the promise to its users.
Status == [c \in Conns |->
             IF pub[c] = "idle" THEN "none"
             ELSE IF pub[c] = "closed" THEN "over"
             ELSE IF RelaysOf(c) # {} THEN "relayed" ELSE "waiting"]
AChannel(ds) == CHOOSE d \in Channels : d \in ds
RelayedOver == [c \in Conns |-> IF RelaysOf(c) # {} THEN AChannel(RelaysOf(c)) ELSE None]

Promise == INSTANCE PublicConnection WITH status <- Status, relay <- RelayedOver
ImplementsPromise == Promise!PSpec

=============================================================================
