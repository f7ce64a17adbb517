--------------------------- MODULE ServerRegistry ---------------------------
(***************************************************************************)
(* The control server's registry (internal/server/server.go, state.go):    *)
(* nodes, their control connections, the public tunnels provisioned for    *)
(* their presets, the port table, and the state file.                      *)
(*                                                                         *)
(* A process is a goroutine: a control-connection handler (Conns) or a     *)
(* web-console request (Admins).  A step ends where the code releases a    *)
(* lock or closes a connection that other goroutines can see, so the races *)
(* between handlers are the model's interleavings.  Every save of the      *)
(* state file is part of the step that precedes it in its goroutine: a     *)
(* crash between the two leaves the file as a crash before the step does.  *)
(***************************************************************************)
EXTENDS Naturals, FiniteSets, FiniteSetsExt

CONSTANTS
    Names,          \* node names
    Presets,        \* preset names, as numbers: syncs go through them in order
    Protocols,      \* {tcp, udp}
    Registrations,  \* the preset tables a client may register
    Ports,          \* AutoPortStart .. AutoPortEnd
    ForeignPorts,   \* ports another program may take, making Listen fail
    Conns,          \* control connections
    Admins,         \* concurrent web-console requests
    None,           \* no connection, nobody holds the mutex
    NodeObjs,       \* identities of Node objects, as numbers
    TunnelIds,      \* tunnel ids, as numbers
    MaxTokens,      \* bound: credentials issued
    MaxRequests,    \* bound: web-console requests
    MaxExits,       \* bound: process exits
    MaxShutdowns,   \* bound: graceful shutdowns
    MaxFailures,    \* bound: public listeners that fail by themselves
    MaxStalls,      \* bound: writes that block because the client does not read
    StateFile,      \* whether a state file is configured (saveState returns if not)
    PeriodicSaves,  \* whether the state-saver ticker runs (interval > 0)
    SaveMayFail     \* whether writing the state file may fail

ASSUME ConstantsAssumption ==
    /\ Presets \subseteq Nat /\ Ports \subseteq Nat \ {0}
    /\ NodeObjs \subseteq Nat \ {0} /\ TunnelIds \subseteq Nat
    /\ IsFiniteSet(TunnelIds) /\ IsFiniteSet(NodeObjs) /\ IsFiniteSet(Presets)
    /\ ForeignPorts \subseteq Ports
    /\ Conns \cap Admins = {} /\ None \notin Conns \cup Admins \cup Names
    /\ MaxTokens \in Nat /\ MaxRequests \in Nat /\ MaxExits \in Nat
    /\ MaxShutdowns \in Nat /\ MaxFailures \in Nat /\ MaxStalls \in Nat
    /\ StateFile \in BOOLEAN /\ PeriodicSaves \in BOOLEAN /\ SaveMayFail \in BOOLEAN
    /\ \A r \in Registrations : \E ps \in SUBSET Presets : r \in [ps -> Protocols]
    \* bound: identities enough for the nodes of a restored state file
    /\ \E f \in [Names -> NodeObjs] : \A i, j \in Names : i # j => f[i] # f[j]

VARIABLES
    phase,      \* the process: "up", "stopping", "down" or "restoring"
    nodes,      \* Server.nodes: name -> Node object, 0 for no entry
    node,       \* the Node objects: credential, controlConn, presets, error
    tunnels,    \* Server.tunnels: the registered tunnels
    ports,      \* Server.ports: port -> id of its tunnel, absent if untracked
    createMu,   \* holder of createTunnelMu
    open,       \* connections not closed by the server
    pc, l,      \* where each goroutine is, and its local variables
    issued,     \* number of credentials issued so far
    disk,       \* the state file
    todo,       \* saved tunnels a restart still has to restore
    foreign,    \* ports other programs listen on, another set after a restart
    budget,     \* requests, exits, shutdowns, listener failures, stalls left
    boot,       \* history: mappings in the file when the process last went down
    served,     \* history: mappings when its shutdown began, in a quiet moment
    raced       \* history: names two operations worked on at the same time,
                \* or whose public listener failed by itself

vars == <<phase, nodes, node, tunnels, ports, createMu, open, pc, l, issued,
          disk, todo, foreign, budget, boot, served, raced>>
procvars == <<phase, todo, foreign, boot, served>>
nodevars == <<nodes, node>>
tunnelvars == <<tunnels, ports>>

Procs == Conns \cup Admins
PresetTables == UNION {[ps -> Protocols] : ps \in SUBSET Presets}
NoPresets == [p \in {} |-> p]

Tunnel == [id : TunnelIds, name : Names, preset : Presets,
           proto : Protocols, port : Ports]
SavedTunnel == [name : Names, preset : Presets, proto : Protocols, port : Ports]
SavedNode == [tok : 1..MaxTokens, presets : PresetTables, perr : BOOLEAN]

(* Local variables of a goroutine: the node name it works on, the Node     *)
(* object its control loop holds (node) and the one its current call       *)
(* looked up (obj), the presets it registers or copied, the connection it  *)
(* displaced or is blocked writing to (old), the tunnels still to close,   *)
(* the presets still to create, the tunnel a reassignment replaces and the *)
(* candidate ports.                                                        *)
Local == [op : {"none", "register", "resync", "reassign", "delete", "issue"},
          name : Names \cup {None}, node : NodeObjs \cup {0}, obj : NodeObjs \cup {0},
          ps : PresetTables, old : Conns \cup {None},
          ex : SUBSET Tunnel, miss : SUBSET Presets, err : BOOLEAN,
          cur : SUBSET Tunnel, cand : SUBSET Ports, proto : Protocols \cup {None}]
NoLocal == [op |-> "none", name |-> None, node |-> 0, obj |-> 0,
            ps |-> NoPresets, old |-> None, ex |-> {}, miss |-> {}, err |-> FALSE, cur |-> {},
            cand |-> {}, proto |-> None]

FreshNode == [tok |-> 0, conn |-> None, presets |-> NoPresets, perr |-> FALSE]

-----------------------------------------------------------------------------
(* Helpers.                                                                *)

TunnelsOf(name) == {t \in tunnels : t.name = name}

\* Resting goroutines run no registry operation.
Resting == {"idle", "loop", "done"}
Busy(name) == {p \in Procs : pc[p] \notin Resting /\ l[p].name = name}
Overlap(p, name) == raced' = IF Busy(name) \ {p} # {} THEN raced \cup {name} ELSE raced

\* An id nobody holds: ids are random, so never reused while one is referenced.
UsedIds == {t.id : t \in tunnels} \cup UNION {{t.id : t \in l[p].ex \cup l[p].cur} : p \in Procs}
FreeIds == TunnelIds \ UsedIds
FreeObjs == NodeObjs \ ({nodes[n] : n \in Names} \cup {l[p].node : p \in Procs}
                         \cup {l[p].obj : p \in Procs})

\* snapshotState
Snapshot(ns, nd, ts) ==
    [nodes |-> [n \in {m \in Names : ns[m] # 0} |->
                    [tok |-> nd[ns[n]].tok, presets |-> nd[ns[n]].presets,
                     perr |-> nd[ns[n]].perr]],
     tunnels |-> {[name |-> t.name, preset |-> t.preset, proto |-> t.proto,
                   port |-> t.port] : t \in ts}]

\* saveStateQuiet: snapshot, write a temporary file, rename; errors are logged.
SaveState ==
    disk' \in (IF StateFile THEN {Snapshot(nodes', node', tunnels')} ELSE {disk})
                \cup (IF SaveMayFail THEN {disk} ELSE {})

\* Mutant: unregisterTunnel forgets the port table.
Close_KeepsPort(ts) == tunnels' = tunnels \ ts /\ UNCHANGED ports

\* Tunnel.Close and unregisterTunnel, once per tunnel.
Close(ts) ==
    /\ tunnels' = tunnels \ ts
    /\ ports' = [q \in {r \in DOMAIN ports :
                          \A t \in ts \cap tunnels : ~(r = t.port /\ ports[r] = t.id)} |-> ports[q]]

\* One of the tunnels a goroutine set out to close.
CloseNext(p, t) == Close({t}) /\ l' = [l EXCEPT ![p].ex = @ \ {t}]

\* Mutant: a handler that ends leaves its connection registered.
Disconnected_Never(obj, c) == node

\* markDisconnected: only the connection that is still registered counts.
Disconnected(obj, c) ==
    IF node[obj].conn = c THEN [node EXCEPT ![obj].conn = None] ELSE node

BeginRequest(a, to) ==
    /\ phase = "up" /\ pc[a] = "idle" /\ budget.requests > 0
    /\ pc' = [pc EXCEPT ![a] = to]
    /\ budget' = [budget EXCEPT !.requests = @ - 1]

Step(p, from, to) == pc[p] = from /\ pc' = [pc EXCEPT ![p] = to]
Running == phase \in {"up", "stopping"}

\* Where a goroutine goes when its operation is over.
Home(p) == IF p \in Conns THEN "loop" ELSE "idle"
EndOp(p) ==
    l' = [l EXCEPT ![p] = IF p \in Conns
                          THEN [NoLocal EXCEPT !.name = l[p].name, !.node = l[p].node]
                          ELSE NoLocal]

-----------------------------------------------------------------------------
Init ==
    /\ phase = "up"
    /\ nodes = [n \in Names |-> 0]
    /\ node = [o \in NodeObjs |-> FreshNode]
    /\ tunnels = {} /\ ports = [q \in {} |-> q]
    /\ createMu = None
    /\ open = {}
    /\ pc = [p \in Procs |-> "idle"]
    /\ l = [p \in Procs |-> NoLocal]
    /\ issued = 0
    /\ disk = Snapshot(nodes, node, tunnels)
    /\ todo = {} /\ foreign = {}
    /\ budget = [requests |-> MaxRequests, exits |-> MaxExits, shutdowns |-> MaxShutdowns,
                 failures |-> MaxFailures, stalls |-> MaxStalls]
    /\ boot = {} /\ served = {}
    /\ raced = {}

-----------------------------------------------------------------------------
(* Control connections: handleRegisterNode and nodeControlLoop.            *)

\* registerNode up to the credential check; a refused connection is closed.
Register_Check(c, name, tok, ps) ==
    LET obj == nodes[name]
        ok == obj # 0 /\ node[obj].tok = tok /\ DOMAIN ps # {}
    IN  /\ phase = "up" /\ pc[c] = "idle"
        /\ \/ /\ ok
              /\ pc' = [pc EXCEPT ![c] = "checked"]
              /\ l' = [l EXCEPT ![c] = [NoLocal EXCEPT !.op = "register", !.name = name,
                                                       !.node = obj, !.ps = ps]]
              /\ open' = open \cup {c}
              /\ Overlap(c, name)
           \/ /\ ~ok
              /\ pc' = [pc EXCEPT ![c] = "done"]
              /\ UNCHANGED <<l, open, raced>>
        /\ UNCHANGED <<procvars, nodevars, tunnelvars, createMu, issued, disk, budget>>

\* Node.updateRegistration: takes over the node, remembers whom it displaced.
Register_Update(c) ==
    /\ Running /\ Step(c, "checked", "respond")
    /\ LET obj == l[c].node
       IN /\ l' = [l EXCEPT ![c].old = node[obj].conn, ![c].ps = NoPresets]
          /\ node' = [node EXCEPT ![obj].conn = c, ![obj].presets = l[c].ps]
    /\ UNCHANGED <<procvars, nodes, tunnelvars, createMu, open, issued, disk, budget, raced>>

\* The response is written: close the displaced connection, save, go sync.
Register_Respond(c) ==
    /\ Running /\ c \in open /\ Step(c, "respond", "sync")
    /\ open' = open \ {l[c].old}
    /\ l' = [l EXCEPT ![c].old = None]
    /\ UNCHANGED <<procvars, nodevars, tunnelvars, createMu, issued, budget, raced>>
    /\ SaveState

\* Writing the response fails: the handler returns without touching oldConn.
Register_RespondFails(c) ==
    /\ Running /\ Step(c, "respond", "done")
    /\ open' = open \ {c}
    /\ node' = Disconnected(l[c].node, c)
    /\ l' = [l EXCEPT ![c] = NoLocal]
    /\ UNCHANGED <<procvars, nodes, tunnelvars, createMu, issued, disk, budget, raced>>

\* nodeControlLoop: the read fails, because either side closed the connection.
ControlLoop_Exit(c) ==
    /\ Running /\ Step(c, "loop", "done")
    /\ node' = Disconnected(l[c].node, c)
    /\ open' = open \ {c}
    /\ l' = [l EXCEPT ![c] = NoLocal]
    /\ UNCHANGED <<procvars, nodes, tunnelvars, createMu, issued, budget, raced>>
    /\ SaveState

-----------------------------------------------------------------------------
(* syncNodeTunnels, from a registration or from the resync request.        *)

Resync(a, name) ==
    /\ nodes[name] # 0
    /\ BeginRequest(a, "sync")
    /\ l' = [l EXCEPT ![a] = [NoLocal EXCEPT !.op = "resync", !.name = name]]
    /\ Overlap(a, name)
    /\ UNCHANGED <<procvars, nodevars, tunnelvars, createMu, open, issued, disk>>

\* getNode and copyPresets.
Sync_Copy(p) ==
    /\ Running /\ pc[p] = "sync"
    /\ LET obj == nodes[l[p].name]
       IN \/ /\ obj = 0
             /\ pc' = [pc EXCEPT ![p] = Home(p)] /\ EndOp(p)
          \/ /\ obj # 0
             /\ pc' = [pc EXCEPT ![p] = "list"]
             /\ l' = [l EXCEPT ![p].obj = obj, ![p].ps = node[obj].presets]
    /\ UNCHANGED <<procvars, nodevars, tunnelvars, createMu, open, issued, disk, budget, raced>>

\* Mutant: a mapping of another protocol is taken for the preset's.
Kept_AnyProtocol(ex, des) == {t \in ex : t.preset \in DOMAIN des}

\* listTunnelsForNode; the last tunnel of a preset (highest port) counts.
Kept(ex, des) ==
    {t \in ex : /\ t.preset \in DOMAIN des /\ des[t.preset] = t.proto
                /\ \A u \in ex : u.preset = t.preset => u.port <= t.port}

Sync_List(p) ==
    /\ Running /\ Step(p, "list", "close")
    /\ LET ex == TunnelsOf(l[p].name)
           des == l[p].ps
       IN l' = [l EXCEPT
                  ![p].ex = {t \in ex : ~(t.preset \in DOMAIN des /\ des[t.preset] = t.proto)},
                  ![p].miss = DOMAIN des \ {t.preset : t \in Kept(ex, des)}]
    /\ UNCHANGED <<procvars, nodevars, tunnelvars, createMu, open, issued, disk, budget, raced>>

\* Close what the registration no longer declares, one by one by port.
Sync_Close(p) ==
    /\ Running /\ pc[p] = "close" /\ l[p].ex # {}
    /\ \E t \in l[p].ex :
         /\ \A u \in l[p].ex : t.port <= u.port
         /\ CloseNext(p, t)
    /\ UNCHANGED <<procvars, nodevars, createMu, open, pc, issued, disk, budget, raced>>

Sync_Closed(p) ==
    /\ Running /\ l[p].ex = {} /\ Step(p, "close", "create")
    /\ l' = [l EXCEPT ![p].ps = NoPresets]
    /\ UNCHANGED <<procvars, nodevars, tunnelvars, createMu, open, issued, disk, budget, raced>>

\* All missing presets were tried: record or clear the provision error.
Sync_Finish(p) ==
    /\ Running /\ pc[p] = "create" /\ l[p].op # "reassign" /\ l[p].miss = {}
    /\ pc' = [pc EXCEPT ![p] = "push"]
    /\ node' = [node EXCEPT ![l[p].obj].perr = l[p].err]
    /\ UNCHANGED <<procvars, nodes, tunnelvars, createMu, open, l, issued, disk, budget, raced>>

-----------------------------------------------------------------------------
(* createTunnelInternal, under createTunnelMu.                             *)

\* Mutant: createTunnelInternal does not look for an existing mapping.
Mapped_Never(name, preset, allowed) == FALSE

Mapped(name, preset, allowed) ==
    \E t \in tunnels \ allowed : t.name = name /\ t.preset = preset

\* The creation of a preset failed: a sync goes on, a reassignment is over.
CreateFailed(p, preset) ==
    IF l[p].op = "reassign"
    THEN pc' = [pc EXCEPT ![p] = Home(p)] /\ EndOp(p)
    ELSE /\ pc' = [pc EXCEPT ![p] = "create"]
         /\ l' = [l EXCEPT ![p].miss = @ \ {preset}, ![p].err = TRUE, ![p].cand = {},
                           ![p].proto = None]

\* Lock, look up node and preset, refuse a second mapping, list free ports.
Create_Begin(p) ==
    /\ Running /\ pc[p] = "create" /\ l[p].miss # {} /\ createMu = None
    /\ LET preset == Min(l[p].miss)
           obj == nodes[l[p].name]
           free == Ports \ DOMAIN ports
           ok == /\ obj # 0
                 /\ preset \in DOMAIN node[obj].presets
                 /\ ~Mapped(l[p].name, preset, l[p].cur)
                 /\ free # {}
       IN \/ /\ ok
             /\ createMu' = p
             /\ pc' = [pc EXCEPT ![p] = "listen"]
             /\ l' = [l EXCEPT ![p].cand = free, ![p].proto = node[obj].presets[preset]]
          \/ /\ ~ok
             /\ CreateFailed(p, preset)
             /\ UNCHANGED createMu
    /\ UNCHANGED <<procvars, nodevars, tunnelvars, open, issued, disk, budget, raced>>

Listenable(p) == {q \in l[p].cand : q \notin DOMAIN ports /\ q \notin foreign}

\* Listen on a candidate that is still untracked.
Create_Listen(p) ==
    /\ Running /\ Step(p, "listen", "insert")
    /\ \E q \in Listenable(p) : l' = [l EXCEPT ![p].cand = {q}]
    /\ UNCHANGED <<procvars, nodevars, tunnelvars, createMu, open, issued, disk, budget, raced>>

\* Enter the tunnel in both tables, start it, save, unlock.
Create_Insert(p) ==
    LET preset == Min(l[p].miss)
    IN  /\ Running
        /\ Step(p, "insert", IF l[p].op = "reassign" THEN "swap" ELSE "create")
        /\ \E q \in l[p].cand, id \in FreeIds :
             LET t == [id |-> id, name |-> l[p].name, preset |-> preset,
                       proto |-> l[p].proto, port |-> q]
             IN /\ \A i \in FreeIds : id <= i
                /\ tunnels' = tunnels \cup {t}
                /\ ports' = [r \in DOMAIN ports \cup {q} |-> IF r = q THEN t.id ELSE ports[r]]
        /\ createMu' = None
        /\ l' = [l EXCEPT ![p].miss = @ \ {preset}, ![p].cand = {}, ![p].proto = None]
        /\ UNCHANGED <<procvars, nodevars, open, issued, budget, raced>>
        /\ SaveState

\* Mutant: createTunnelMu stays locked on the error path.
Create_NoPort_KeepsLock(p) ==
    /\ Running /\ pc[p] = "listen" /\ Listenable(p) = {}
    /\ CreateFailed(p, Min(l[p].miss))
    /\ UNCHANGED <<procvars, nodevars, tunnelvars, createMu, open, issued, disk, budget, raced>>

\* No candidate can be listened on.
Create_NoPort(p) ==
    /\ Running /\ pc[p] = "listen" /\ Listenable(p) = {}
    /\ createMu' = None
    /\ CreateFailed(p, Min(l[p].miss))
    /\ UNCHANGED <<procvars, nodevars, tunnelvars, open, issued, disk, budget, raced>>

-----------------------------------------------------------------------------
(* pushAssignments and sendControl: tell the connected client its mappings. *)
(* Then the save that ends a sync or a reassignment.                       *)

\* The node of the push: looked up by pushAssignments, kept while it waits.
PushNode(p) == IF pc[p] = "push" THEN nodes[l[p].name] ELSE l[p].obj

\* controlWriteMu of a node is held for long only by a write that blocks.
Writing(obj) == \E q \in Procs : pc[q] = "write" /\ l[q].obj = obj

\* A write on a closed connection fails, and any other write may: the
\* connection is closed and the node disconnected.
Written(obj, c) ==
    \/ /\ c = None \/ c \in open
       /\ UNCHANGED <<node, open>>
    \/ /\ c # None
       /\ node' = Disconnected(obj, c)
       /\ open' = open \ {c}

Pushed(p, from) ==
    /\ Step(p, from, Home(p)) /\ EndOp(p)
    /\ UNCHANGED <<procvars, nodes, tunnelvars, createMu, issued, budget, raced>>
    /\ SaveState

\* The node is gone or offline, or the write does not block.
Push(p) ==
    /\ Running /\ pc[p] \in {"push", "send"}
    /\ ~Writing(PushNode(p)) \/ PushNode(p) = 0
    /\ Written(PushNode(p), IF PushNode(p) = 0 THEN None ELSE node[PushNode(p)].conn)
    /\ Pushed(p, pc[p])

\* Another goroutine holds the node's controlWriteMu.
Push_Waits(p) ==
    /\ Running /\ Step(p, "push", "send")
    /\ PushNode(p) # 0 /\ Writing(PushNode(p))
    /\ l' = [l EXCEPT ![p].obj = PushNode(p)]
    /\ UNCHANGED <<procvars, nodevars, tunnelvars, createMu, open, issued, disk, budget, raced>>

\* The client does not read: the write blocks, holding controlWriteMu.
Push_Blocks(p) ==
    /\ Running /\ pc[p] \in {"push", "send"} /\ budget.stalls > 0
    /\ PushNode(p) # 0 /\ ~Writing(PushNode(p)) /\ node[PushNode(p)].conn \in open
    /\ pc' = [pc EXCEPT ![p] = "write"]
    /\ l' = [l EXCEPT ![p].obj = PushNode(p), ![p].old = node[PushNode(p)].conn]
    /\ budget' = [budget EXCEPT !.stalls = @ - 1]
    /\ UNCHANGED <<procvars, nodevars, tunnelvars, createMu, open, issued, disk, raced>>

\* The client read, or the connection was closed, or its deadline passed.
Push_Returns(p) ==
    /\ Running /\ pc[p] = "write"
    /\ Written(l[p].obj, l[p].old)
    /\ Pushed(p, "write")

Pushing(p) == Push(p) \/ Push_Waits(p) \/ Push_Blocks(p) \/ Push_Returns(p)

-----------------------------------------------------------------------------
(* Web-console requests.                                                   *)

\* issueNodeCredential, under Server.mu: a new credential disconnects the node.
Issue(a, name) ==
    /\ issued < MaxTokens
    /\ BeginRequest(a, "issued")
    /\ issued' = issued + 1
    /\ \/ /\ nodes[name] # 0
          /\ node' = [node EXCEPT ![nodes[name]].tok = issued', ![nodes[name]].conn = None]
          /\ l' = [l EXCEPT ![a] = [NoLocal EXCEPT !.op = "issue", !.name = name,
                                      !.old = node[nodes[name]].conn]]
          /\ UNCHANGED nodes
       \/ /\ nodes[name] = 0
          /\ \E obj \in FreeObjs :
               /\ \A o \in FreeObjs : obj <= o
               /\ nodes' = [nodes EXCEPT ![name] = obj]
               /\ node' = [node EXCEPT ![obj] = [FreshNode EXCEPT !.tok = issued']]
          /\ l' = [l EXCEPT ![a] = [NoLocal EXCEPT !.op = "issue", !.name = name]]
    /\ Overlap(a, name)
    /\ UNCHANGED <<procvars, tunnelvars, createMu, open, disk>>

Issue_Close(a) ==
    /\ Running /\ Step(a, "issued", "idle")
    /\ open' = open \ {l[a].old}
    /\ EndOp(a)
    /\ UNCHANGED <<procvars, nodevars, tunnelvars, createMu, issued, budget, raced>>
    /\ SaveState

\* deleteNode, under Server.mu: drop the node, remember its tunnels.
Delete(a, name) ==
    /\ nodes[name] # 0
    /\ BeginRequest(a, "deleted")
    /\ nodes' = [nodes EXCEPT ![name] = 0]
    /\ l' = [l EXCEPT ![a] = [NoLocal EXCEPT !.op = "delete", !.name = name,
                                !.obj = nodes[name], !.ex = TunnelsOf(name)]]
    /\ Overlap(a, name)
    /\ UNCHANGED <<procvars, node, tunnelvars, createMu, open, issued, disk>>

\* closeControl of the deleted Node object.
Delete_Control(a) ==
    /\ Running /\ Step(a, "deleted", "releasing")
    /\ open' = open \ {node[l[a].obj].conn}
    /\ UNCHANGED <<procvars, nodevars, tunnelvars, createMu, l, issued, disk, budget, raced>>

\* Close of the remembered tunnels, one by one in the order of a map.
Delete_Close(a) ==
    /\ Running /\ pc[a] = "releasing"
    /\ \E t \in l[a].ex : CloseNext(a, t)
    /\ UNCHANGED <<procvars, nodevars, createMu, open, pc, issued, disk, budget, raced>>

Delete_Finish(a) ==
    /\ Running /\ l[a].ex = {} /\ Step(a, "releasing", "idle")
    /\ EndOp(a)
    /\ UNCHANGED <<procvars, nodevars, tunnelvars, createMu, open, issued, budget, raced>>
    /\ SaveState

Releasing(a) == Delete_Control(a) \/ Delete_Close(a) \/ Delete_Finish(a)

\* reassignTunnel: create the replacement first, then close the old tunnel.
Reassign(a, t) ==
    /\ t \in tunnels
    /\ BeginRequest(a, "create")
    /\ l' = [l EXCEPT ![a] = [NoLocal EXCEPT !.op = "reassign", !.name = t.name,
                                !.miss = {t.preset}, !.cur = {t}]]
    /\ Overlap(a, t.name)
    /\ UNCHANGED <<procvars, nodevars, tunnelvars, createMu, open, issued, disk>>

Reassign_Close(a) ==
    /\ Running /\ Step(a, "swap", "push")
    /\ Close(l[a].cur)
    /\ l' = [l EXCEPT ![a].cur = {}]
    /\ UNCHANGED <<procvars, nodevars, createMu, open, issued, disk, budget, raced>>

-----------------------------------------------------------------------------
(* The environment, shutdown, crash and restart.                           *)

\* acceptLoop: Accept fails on an open listener; the tunnel closes itself.
Listener_Fails(t) ==
    /\ Running /\ t \in tunnels /\ budget.failures > 0
    /\ budget' = [budget EXCEPT !.failures = @ - 1]
    /\ Close({t})
    /\ raced' = raced \cup {t.name}
    /\ UNCHANGED <<procvars, nodevars, createMu, open, pc, l, issued, disk>>

\* startStateSaver's tick.
PeriodicSave ==
    /\ Running /\ PeriodicSaves
    /\ UNCHANGED <<procvars, nodevars, tunnelvars, createMu, open, pc, l, issued, budget, raced>>
    /\ SaveState

\* shutdown: save, stop listening ...
Shutdown ==
    /\ phase = "up" /\ budget.shutdowns > 0 /\ budget.exits > 0
    /\ phase' = "stopping"
    /\ budget' = [budget EXCEPT !.shutdowns = @ - 1]
    /\ UNCHANGED <<nodevars, tunnelvars, createMu, open, pc, l, issued, todo, raced, foreign,
                   boot>>
    /\ SaveState
    /\ served' = IF \A p \in Procs : pc[p] \in Resting
                 THEN Snapshot(nodes, node, tunnels).tunnels ELSE {}

\* ... close the control connections, then the tunnels one by one.
Shutdown_CloseControls ==
    /\ phase = "stopping"
    /\ open' = open \ {node[nodes[n]].conn : n \in {m \in Names : nodes[m] # 0}}
    /\ UNCHANGED <<procvars, nodevars, tunnelvars, createMu, pc, l, issued, disk, budget, raced>>

Shutdown_CloseTunnel(t) ==
    /\ phase = "stopping" /\ t \in tunnels
    /\ \A n \in Names : nodes[n] # 0 => node[nodes[n]].conn \notin open
    /\ Close({t})
    /\ UNCHANGED <<procvars, nodevars, createMu, open, pc, l, issued, disk, budget, raced>>

\* The process ends, by itself or killed: memory and connections are gone.
Exit ==
    /\ phase # "down" /\ budget.exits > 0
    /\ phase' = "down"
    /\ budget' = [budget EXCEPT !.exits = @ - 1]
    /\ boot' = IF phase = "restoring" THEN boot ELSE disk.tunnels
    /\ served' = IF phase = "up" THEN {} ELSE served
    /\ nodes' = [n \in Names |-> 0]
    /\ node' = [o \in NodeObjs |-> FreshNode]
    /\ tunnels' = {} /\ ports' = [q \in {} |-> q] /\ todo' = {}
    /\ createMu' = None /\ open' = {}
    /\ pc' = [p \in Procs |-> IF p \in Conns /\ pc[p] # "idle" THEN "done" ELSE "idle"]
    /\ l' = [p \in Procs |-> NoLocal]
    /\ UNCHANGED <<issued, disk, raced, foreign>>

\* After a restart no object is referenced yet: any distinct ones will do.
NodeObjFor(n) ==
    (CHOOSE f \in [Names -> NodeObjs] : \A i, j \in Names : i # j => f[i] # f[j])[n]

\* Run: restoreState rebuilds the nodes of the state file, all disconnected.
Restart ==
    /\ phase = "down"
    /\ phase' = "restoring"
    /\ nodes' = [n \in Names |-> IF n \in DOMAIN disk.nodes THEN NodeObjFor(n) ELSE 0]
    /\ node' = [o \in NodeObjs |->
         IF \E n \in DOMAIN disk.nodes : NodeObjFor(n) = o
         THEN LET d == disk.nodes[CHOOSE n \in DOMAIN disk.nodes : NodeObjFor(n) = o]
              IN [tok |-> d.tok, conn |-> None, presets |-> d.presets, perr |-> d.perr]
         ELSE FreshNode]
    /\ todo' = {m \in disk.tunnels : /\ m.name \in DOMAIN disk.nodes
                                     /\ m.preset \in DOMAIN disk.nodes[m.name].presets}
    /\ foreign' \in SUBSET ForeignPorts
    /\ UNCHANGED <<tunnelvars, createMu, open, pc, l, issued, disk, budget, boot, served, raced>>

\* createTunnelInternal on the saved port: the port table is not consulted,
\* Listen refuses a port of the same protocol.  It saves after every tunnel.
RestoredProto(m) == node[nodes[m.name]].presets[m.preset]
RestoreOk(m) ==
    /\ ~Mapped(m.name, m.preset, {})
    /\ m.port \notin foreign
    /\ \A u \in tunnels : u.port = m.port => u.proto # RestoredProto(m)

RestoreOne(m) ==
    LET t == [id |-> Min(FreeIds), name |-> m.name, preset |-> m.preset,
              proto |-> RestoredProto(m), port |-> m.port]
    IN  /\ RestoreOk(m) /\ FreeIds # {}
        /\ todo' = todo \ {m}
        /\ tunnels' = tunnels \cup {t}
        /\ ports' = [r \in DOMAIN ports \cup {m.port} |->
                       IF r = m.port THEN t.id ELSE ports[r]]
        /\ UNCHANGED <<phase, nodevars, createMu, open, pc, l, issued, foreign,
                   budget, boot, served, raced>>
        /\ SaveState

\* Mutant: the first failure ends the restore.
RestoreFailed_Aborts(m) ==
    /\ ~RestoreOk(m)
    /\ todo' = {}
    /\ node' = [node EXCEPT ![nodes[m.name]].perr = TRUE]
    /\ UNCHANGED <<phase, nodes, tunnelvars, createMu, open, pc, l, issued, disk, foreign,
                   budget, boot, served, raced>>

\* A failure becomes the node's provision error; the next tunnel is tried.
RestoreFailed(m) ==
    /\ ~RestoreOk(m)
    /\ todo' = todo \ {m}
    /\ node' = [node EXCEPT ![nodes[m.name]].perr = TRUE]
    /\ UNCHANGED <<phase, nodes, tunnelvars, createMu, open, pc, l, issued, disk, foreign,
                   budget, boot, served, raced>>

\* restoreState's second loop, in the order of the file (sorted by port).
RestoreTunnel ==
    /\ phase = "restoring"
    /\ \E m \in todo : /\ \A n \in todo : m.port <= n.port
                       /\ RestoreOne(m) \/ RestoreFailed(m)

\* Everything is restored: start the console, accept connections.
Serve ==
    /\ phase = "restoring" /\ todo = {}
    /\ phase' = "up"
    /\ UNCHANGED <<nodevars, tunnelvars, createMu, open, pc, l, issued, disk, todo,
                   foreign, budget, boot, served, raced>>

-----------------------------------------------------------------------------
Handler(c) ==
    \/ \E name \in Names, tok \in 1..issued, ps \in Registrations :
          Register_Check(c, name, tok, ps)
    \/ Register_Update(c) \/ Register_Respond(c) \/ Register_RespondFails(c)
    \/ ControlLoop_Exit(c)

Operation(p) ==
    \/ Sync_Copy(p) \/ Sync_List(p) \/ Sync_Close(p) \/ Sync_Closed(p) \/ Sync_Finish(p)
    \/ Create_Begin(p) \/ Create_Listen(p) \/ Create_NoPort(p) \/ Create_Insert(p)
    \/ Pushing(p)

Request(a) ==
    \/ \E name \in Names : Resync(a, name) \/ Issue(a, name) \/ Delete(a, name)
    \/ \E t \in tunnels : Reassign(a, t)
    \/ Issue_Close(a) \/ Releasing(a) \/ Reassign_Close(a)

Process ==
    \/ \E t \in tunnels : Listener_Fails(t) \/ Shutdown_CloseTunnel(t)
    \/ PeriodicSave \/ Shutdown \/ Shutdown_CloseControls \/ Exit
    \/ Restart \/ RestoreTunnel \/ Serve

Next ==
    \/ \E c \in Conns : Handler(c)
    \/ \E p \in Procs : Operation(p)
    \/ \E a \in Admins : Request(a)
    \/ Process

Spec == Init /\ [][Next]_vars

(* A blocked write may stay blocked for ever: its connection is open and    *)
(* its handler, in the control loop, has cleared the deadline.  Until then  *)
(* the handshake deadline ends it, and a closed connection fails it.        *)
Stalled(p) == /\ pc[p] = "write"
              /\ l[p].old \in open /\ pc[l[p].old] = "loop"

(* Goroutines that can run do run; Go's mutexes hand the lock to a waiter   *)
(* that starves, which is strong fairness for the waits on createTunnelMu   *)
(* and controlWriteMu.  Nothing forces the environment: requests, losses,   *)
(* exits, periodic saves, clients that read.                                *)
Fairness ==
    /\ \A p \in Procs :
          /\ WF_vars(\/ Sync_Copy(p) \/ Sync_List(p) \/ Sync_Close(p) \/ Sync_Closed(p)
                     \/ Sync_Finish(p) \/ Push_Waits(p) \/ (~Stalled(p) /\ Push_Returns(p)))
          /\ SF_vars(Create_Begin(p)) /\ SF_vars(Push(p))
          /\ WF_vars(Create_Listen(p) \/ Create_NoPort(p) \/ Create_Insert(p))
    /\ \A c \in Conns :
          WF_vars(Register_Update(c) \/ Register_Respond(c) \/ Register_RespondFails(c))
    /\ \A a \in Admins :
          WF_vars(Issue_Close(a) \/ Releasing(a) \/ Reassign_Close(a))
    /\ WF_vars(Restart) /\ WF_vars(RestoreTunnel) /\ WF_vars(Serve)

FairSpec == Spec /\ Fairness

-----------------------------------------------------------------------------
(* Properties.                                                             *)

TypeOK ==
    /\ phase \in {"up", "stopping", "down", "restoring"}
    /\ nodes \in [Names -> NodeObjs \cup {0}]
    /\ node \in [NodeObjs -> [tok : 0..MaxTokens, conn : Conns \cup {None},
                              presets : PresetTables, perr : BOOLEAN]]
    /\ tunnels \subseteq Tunnel
    /\ DOMAIN ports \subseteq Ports /\ ports \in [DOMAIN ports -> TunnelIds]
    /\ createMu \in Procs \cup {None}
    /\ open \subseteq Conns
    /\ pc \in [Procs -> {"idle", "checked", "respond", "sync", "list", "close", "create",
                         "listen", "insert", "push", "send", "write", "loop", "issued",
                         "deleted", "releasing", "swap", "done"}]
    /\ l \in [Procs -> Local]
    /\ issued \in 0..MaxTokens
    /\ disk.tunnels \subseteq SavedTunnel /\ DOMAIN disk.nodes \subseteq Names
    /\ disk.nodes \in [DOMAIN disk.nodes -> SavedNode]
    /\ foreign \subseteq ForeignPorts
    /\ todo \subseteq SavedTunnel /\ boot \subseteq SavedTunnel /\ served \subseteq SavedTunnel
    /\ budget \in [requests : 0..MaxRequests, exits : 0..MaxExits, shutdowns : 0..MaxShutdowns,
                   failures : 0..MaxFailures, stalls : 0..MaxStalls]
    /\ raced \subseteq Names

\* Server.tunnels and Server.ports agree: every registered tunnel owns its
\* port alone and every tracked port belongs to a registered tunnel, whatever
\* creations, reassignments, syncs and deletions overlap.
PortTableAgrees ==
    /\ \A t \in tunnels : t.port \in DOMAIN ports /\ ports[t.port] = t.id
    /\ \A q \in DOMAIN ports : \E t \in tunnels : t.port = q
    /\ \A t, u \in tunnels : t.id = u.id => t = u

\* A preset has one mapping; a second one exists only while the reassignment
\* that created it has not closed the tunnel it replaces.
OneMappingPerPreset ==
    \A t, u \in tunnels :
        t.name = u.name /\ t.preset = u.preset /\ t # u =>
            \E a \in Admins : pc[a] = "swap" /\ (t \in l[a].cur \/ u \in l[a].cur)

\* A node counts as connected only through a handler that is still running:
\* no exit of a handler, in whatever order with a newer registration of the
\* same node, leaves its connection registered.
RegisteredConnHasHandler ==
    \A o \in NodeObjs : node[o].conn # None =>
        LET c == node[o].conn
        IN pc[c] \notin {"idle", "checked", "done"} /\ l[c].node = o

Quiet(n) == phase = "up" /\ Busy(n) = {}

Declares(n, preset, proto) ==
    /\ nodes[n] # 0
    /\ preset \in DOMAIN node[nodes[n]].presets
    /\ node[nodes[n]].presets[preset] = proto

\* What syncNodeTunnels is for: once nothing works on a connected node, every
\* preset of its last registration is mapped or the node shows an error, and
\* nothing else is mapped.
Provisioned(n) ==
    Quiet(n) /\ nodes[n] # 0 /\ node[nodes[n]].conn # None =>
        /\ \A q \in DOMAIN node[nodes[n]].presets :
              \/ node[nodes[n]].perr
              \/ \E t \in TunnelsOf(n) : t.preset = q /\ Declares(n, q, t.proto)
        /\ \A t \in TunnelsOf(n) : Declares(n, t.preset, t.proto)

\* A deleted node keeps no mapping once nothing works on it any more.
NoOrphans(n) == Quiet(n) /\ nodes[n] = 0 => TunnelsOf(n) = {}

\* As long as no two operations on a node overlap and none of its listeners
\* fails by itself, its registration is what is provisioned, and its deletion
\* releases every mapping.
SerialOperationsProvision == \A n \in Names \ raced : Provisioned(n) /\ NoOrphans(n)

\* README: deleting a node disconnects its control connection and releases all
\* its public mappings, also when the deletion meets a registration half way.
DeletedNodeIsReleased ==
    \A n \in Names :
        /\ NoOrphans(n)
        /\ Quiet(n) /\ nodes[n] = 0 =>
              \A c \in Conns : pc[c] = "loop" /\ c \in open => l[c].name # n

Declared(m) == nodes[m.name] # 0 /\ m.preset \in DOMAIN node[nodes[m.name]].presets
Twice(m, saved) == \E k \in saved \ {m} : k.name = m.name /\ k.preset = m.preset

\* The restored server listens for the preset of m, on the same port.
Restored(m) ==
    \E t \in tunnels : t.name = m.name /\ t.preset = m.preset /\ t.port = m.port

\* After a restart the public ports in the state file are in use again.  For
\* every mapping that was in the file when the process ended, of a preset its
\* node still declares, the restored server listens on the same port, unless
\* another program took it or a crash in the middle of a reassignment left
\* two mappings of that preset.
RestartKeepsPorts ==
    phase = "restoring" /\ todo = {} =>
        \A m \in boot : Declared(m) /\ m.port \notin foreign /\ ~Twice(m, boot) => Restored(m)

\* Even then the preset itself stays mapped on one of the ports in the file.
RestartKeepsMapping ==
    phase = "restoring" /\ todo = {} =>
        \A m \in boot : Declared(m) /\ m.port \notin foreign =>
            \E t \in tunnels : t.name = m.name /\ t.preset = m.preset

\* README: after a restart of the server the allocated public ports are
\* restored; in particular those that were mapped, with no operation under
\* way, when an orderly shutdown began.
ShutdownKeepsPorts ==
    phase = "restoring" /\ todo = {} =>
        \A m \in served : m.port \notin foreign => Restored(m)

\* The write p does, or waits behind, blocks on a client that does not read.
BehindSilentClient(p) ==
    \E q \in Procs : /\ Stalled(q)
                     /\ q = p \/ (pc[p] = "send" /\ l[p].obj = l[q].obj)

\* Registrations, syncs, deletions and reassignments all come to an end,
\* unless a client of the same node has stopped reading and stays connected:
\* then those that tell this node its mappings, and only those, wait for ever.
\* So createTunnelMu is released on every path and no client stops operations
\* on another node.  A server that went down serves again.
OperationsSettle ==
    /\ \A p \in Procs : []<>(pc[p] \in Resting) \/ <>[]BehindSilentClient(p)
    /\ []<>(phase = "up") \/ <>[](phase = "stopping")

=============================================================================
