------------------------- MODULE ServerRegistryProofs -------------------------
(*****************************************************************************)
(* Proofs about ServerRegistry, for any nodes, presets, ports, control       *)
(* connections and console requests, and any number of exits and failures.   *)
(*****************************************************************************)
EXTENDS ServerRegistry, WellFoundedInduction, TLAPS

-----------------------------------------------------------------------------
(* Facts about the operators.                                              *)

(* The presets of a node are a function from some presets to protocols.    *)
LEMMA PresetFacts ==
    /\ NoPresets \in PresetTables
    /\ Registrations \subseteq PresetTables
    /\ \A t \in PresetTables :
            DOMAIN t \subseteq Presets /\ \A q \in DOMAIN t : t[q] \in Protocols
<1>1. [p \in {} |-> p] \in [{} -> Protocols] OBVIOUS
<1>2. NoPresets \in PresetTables BY <1>1 DEF NoPresets, PresetTables
<1>3. Registrations \subseteq PresetTables BY ConstantsAssumption DEF PresetTables
<1> QED BY <1>2, <1>3 DEF PresetTables

(* Presets are created and ids are given out in order: a set of them has a *)
(* least element.                                                          *)
LEMMA MinIn ==
    ASSUME NEW S, S \subseteq Nat, S # {}
    PROVE  Min(S) \in S
<1> DEFINE Less == {ss \in Nat \X Nat : ss[1] < ss[2]}
<1>1. IsWellFoundedOn(Less, Nat) BY NatLessThanWellFounded DEF OpToRel
<1>2. PICK x \in S : \A y \in S : ~(<<y, x>> \in Less) BY <1>1, WFMin
<1>3. ASSUME NEW y \in S PROVE x <= y
  <2>1. x \in Nat /\ y \in Nat OBVIOUS
  <2>2. y < x => <<y, x>> \in Less BY <2>1
  <2> QED BY <1>2, <2>1, <2>2
<1> QED BY <1>3 DEF Min

(* A fresh local state and a fresh node have their types.                  *)
LEMMA FreshFacts ==
    /\ NoLocal \in Local
    /\ FreshNode \in [tok : 0..MaxTokens, conn : Conns \cup {None}, presets : PresetTables,
                      perr : BOOLEAN]
BY PresetFacts, ConstantsAssumption DEF NoLocal, Local, FreshNode

(* Distinct nodes of a state file get distinct identities.                 *)
LEMMA ObjFacts ==
    /\ \A n \in Names : NodeObjFor(n) \in NodeObjs
    /\ \A n, m \in Names : NodeObjFor(n) = NodeObjFor(m) => n = m
<1> DEFINE P(f) == \A i, j \in Names : i # j => f[i] # f[j]
<1>1. \E f \in [Names -> NodeObjs] : P(f) BY ConstantsAssumption
<1>2. PICK g \in [Names -> NodeObjs] : P(g) /\ g = CHOOSE f \in [Names -> NodeObjs] : P(f)
  BY <1>1
<1>3. \A n \in Names : NodeObjFor(n) = g[n] BY <1>2 DEF NodeObjFor
<1> QED BY <1>2, <1>3

-----------------------------------------------------------------------------
(* Types, and the part of the inductive invariant they need.               *)

(* A goroutine that runs an operation works on a node; only a console      *)
(* request reassigns, and a creation under way has a preset to create.     *)
LocalAt(p, at, loc) ==
    /\ at \notin Resting => loc.name \in Names
    /\ p \in Conns /\ at \notin {"idle", "done"} => loc.node \in NodeObjs
    /\ loc.cur # {} => p \in Admins /\ loc.op = "reassign"
    /\ at \in {"listen", "insert"} => loc.miss # {} /\ loc.proto \in Protocols
LocalInv == \A p \in Procs : LocalAt(p, pc[p], l[p])

(* A node in the registry has been given a credential.                     *)
NodeInv == \A n \in Names : nodes[n] # 0 => node[nodes[n]].tok # 0

(* Only a restarted server restores, what its registry declares.           *)
TodoInv ==
    /\ phase # "restoring" => todo = {}
    /\ \A m \in todo : Declared(m)

(* TypeOK and these three, by the variables they speak of.                 *)
NodeRecord == [tok : 0..MaxTokens, conn : Conns \cup {None}, presets : PresetTables,
               perr : BOOLEAN]
NodeTypes ==
    /\ nodes \in [Names -> NodeObjs \cup {0}] /\ node \in [NodeObjs -> NodeRecord]
    /\ issued \in 0..MaxTokens
    /\ NodeInv
TunnelTypes ==
    /\ tunnels \subseteq Tunnel
    /\ DOMAIN ports \subseteq Ports /\ ports \in [DOMAIN ports -> TunnelIds]
Places == {"idle", "checked", "respond", "sync", "list", "close", "create", "listen",
           "insert", "push", "send", "write", "loop", "issued", "deleted", "releasing",
           "swap", "done"}
LocalTypes == pc \in [Procs -> Places] /\ l \in [Procs -> Local] /\ LocalInv
FileTypes ==
    /\ disk.tunnels \subseteq SavedTunnel /\ DOMAIN disk.nodes \subseteq Names
    /\ disk.nodes \in [DOMAIN disk.nodes -> SavedNode]
    /\ todo \subseteq SavedTunnel /\ boot \subseteq SavedTunnel
    /\ served \subseteq SavedTunnel
ProcessTypes ==
    /\ phase \in {"up", "stopping", "down", "restoring"}
    /\ createMu \in Procs \cup {None} /\ open \subseteq Conns
    /\ foreign \subseteq ForeignPorts /\ raced \subseteq Names
    /\ budget \in [requests : 0..MaxRequests, exits : 0..MaxExits,
                   shutdowns : 0..MaxShutdowns, failures : 0..MaxFailures,
                   stalls : 0..MaxStalls]
TypeInv ==
    NodeTypes /\ TunnelTypes /\ LocalTypes /\ FileTypes /\ ProcessTypes /\ TodoInv

LEMMA TypeParts == TypeInv <=> TypeOK /\ LocalInv /\ NodeInv /\ TodoInv
BY DEF TypeInv, TypeOK, NodeTypes, TunnelTypes, LocalTypes, FileTypes, ProcessTypes,
       NodeRecord, Places

LEMMA TypeInit == Init => TypeInv
<1> SUFFICES ASSUME Init PROVE TypeInv
  OBVIOUS
<1>1. NodeTypes
  BY FreshFacts, ConstantsAssumption DEF Init, NodeTypes, NodeInv, NodeRecord
<1>2. TunnelTypes BY DEF Init, TunnelTypes
<1>3. LocalTypes
  BY FreshFacts DEF Init, LocalTypes, LocalInv, LocalAt, NoLocal, Places, Resting
<1>4. FileTypes BY DEF Init, FileTypes, Snapshot
<1>5. ProcessTypes BY ConstantsAssumption DEF Init, ProcessTypes
<1>6. TodoInv BY DEF Init, TodoInv
<1> QED BY <1>1, <1>2, <1>3, <1>4, <1>5, <1>6 DEF TypeInv

(* A node stays one when a field changes.                                  *)
LEMMA NodeFields ==
    \A r \in NodeRecord :
        /\ \A v \in 0..MaxTokens : [r EXCEPT !.tok = v] \in NodeRecord
        /\ \A v \in Conns \cup {None} : [r EXCEPT !.conn = v] \in NodeRecord
        /\ \A v \in PresetTables : [r EXCEPT !.presets = v] \in NodeRecord
        /\ \A v \in BOOLEAN : [r EXCEPT !.perr = v] \in NodeRecord
BY DEF NodeRecord

(* A step that changes what is known about nodes, but neither their        *)
(* credentials nor who is registered.                                      *)
LEMMA NodeUpdate ==
    ASSUME NodeTypes, node' \in [NodeObjs -> NodeRecord],
           \A x \in NodeObjs : node'[x].tok = node[x].tok, UNCHANGED <<nodes, issued>>
    PROVE  NodeTypes'
BY DEF NodeTypes, NodeInv, NodeRecord

LEMMA DisconnectedTypes ==
    ASSUME NodeTypes, NEW x, NEW c, node' = Disconnected(x, c), UNCHANGED <<nodes, issued>>
    PROVE  NodeTypes'
<1>1. \A y \in NodeObjs : node'[y] = node[y] \/ node'[y] = [node[y] EXCEPT !.conn = None]
  BY DEF Disconnected, NodeTypes, NodeRecord
<1>2. node' \in [NodeObjs -> NodeRecord]
  <2>1. DOMAIN node' = NodeObjs /\ node' = [y \in NodeObjs |-> node'[y]]
    BY DEF Disconnected, NodeTypes, NodeRecord
  <2>2. ASSUME NEW y \in NodeObjs PROVE node'[y] \in NodeRecord
    <3>1. node[y] \in NodeRecord BY DEF NodeTypes
    <3>2. [node[y] EXCEPT !.conn = None] \in NodeRecord BY <3>1, NodeFields
    <3> QED BY <1>1, <3>1, <3>2
  <2> QED BY <2>1, <2>2
<1>3. \A y \in NodeObjs : node'[y].tok = node[y].tok
  BY <1>1 DEF NodeTypes, NodeRecord
<1> QED BY <1>2, <1>3, NodeUpdate

(* What a push does: it ends the operation, if need be after disconnecting  *)
(* the client, or it waits with the node and the connection in its locals.  *)
Pointed(loc, x, c) == [loc EXCEPT !.obj = x, !.old = c]
PushEnds(p) ==
    /\ pc' = [pc EXCEPT ![p] = Home(p)] /\ EndOp(p) /\ UNCHANGED budget
    /\ \/ UNCHANGED <<node, open>>
       \/ \E x, c : node' = Disconnected(x, c) /\ open' = open \ {c}
    /\ SaveState
PushStays(p) ==
    /\ \E at \in {"send", "write"}, x \in NodeObjs, c \in Conns \cup {None} :
          /\ pc' = [pc EXCEPT ![p] = at]
          /\ l' = [l EXCEPT ![p] = Pointed(l[p], x, c)]
          /\ x \in {l[p].obj, nodes[l[p].name]}
    /\ \/ UNCHANGED budget
       \/ budget.stalls > 0 /\ budget' = [budget EXCEPT !.stalls = @ - 1]
    /\ UNCHANGED <<node, open, disk>>

LEMMA PointedFacts ==
    ASSUME NEW loc \in Local, NEW x \in NodeObjs, NEW c \in Conns \cup {None}
    PROVE  /\ Pointed(loc, x, c) \in Local
           /\ Pointed(loc, x, c).obj = x
           /\ Pointed(loc, x, c).op = loc.op /\ Pointed(loc, x, c).name = loc.name
           /\ Pointed(loc, x, c).node = loc.node /\ Pointed(loc, x, c).ex = loc.ex
           /\ Pointed(loc, x, c).miss = loc.miss /\ Pointed(loc, x, c).cur = loc.cur
           /\ Pointed(loc, x, c).cand = loc.cand /\ Pointed(loc, x, c).proto = loc.proto
BY DEF Pointed, Local

LEMMA PushFacts ==
    ASSUME TypeInv, NEW p \in Procs, Pushing(p)
    PROVE  /\ Running /\ pc[p] \in {"push", "send", "write"}
           /\ UNCHANGED <<procvars, nodes, tunnelvars, createMu, issued, raced>>
           /\ PushEnds(p) \/ PushStays(p)
<1>0. /\ l \in [Procs -> Local] /\ l[p] \in Local /\ nodes \in [Names -> NodeObjs \cup {0}]
      /\ pc[p] \in {"push", "send", "write"} => l[p].name \in Names
  BY DEF TypeInv, LocalTypes, LocalInv, LocalAt, Resting, NodeTypes
<1>1. PushNode(p) \in {l[p].obj, nodes[l[p].name]} BY DEF PushNode
<1>2. pc[p] \in {"push", "send", "write"} => PushNode(p) \in NodeObjs \cup {0}
  BY <1>0 DEF PushNode, Local
<1>3. ASSUME NEW x, NEW c, Written(x, c)
      PROVE  \/ UNCHANGED <<node, open>>
             \/ \E y, d : node' = Disconnected(y, d) /\ open' = open \ {d}
  BY <1>3 DEF Written
<1>4. CASE Push(p)
  <2>1. /\ Running /\ pc[p] \in {"push", "send"} /\ Pushed(p, pc[p])
        /\ \E x, c : Written(x, c)
    BY <1>4 DEF Push
  <2> QED BY <1>3, <2>1 DEF Pushed, Step, PushEnds
<1>5. CASE Push_Returns(p)
  <2>1. /\ Running /\ pc[p] = "write" /\ Pushed(p, "write")
        /\ Written(l[p].obj, l[p].old)
    BY <1>5 DEF Push_Returns
  <2> QED BY <1>3, <2>1 DEF Pushed, Step, PushEnds
<1>6. CASE Push_Waits(p)
  <2>1. /\ Running /\ pc[p] = "push" /\ PushNode(p) # 0
        /\ pc' = [pc EXCEPT ![p] = "send"] /\ l' = [l EXCEPT ![p].obj = PushNode(p)]
        /\ UNCHANGED <<procvars, nodevars, tunnelvars, createMu, open, issued, disk, budget,
                       raced>>
    BY <1>6 DEF Push_Waits, Step
  <2>2. l[p].old \in Conns \cup {None} BY <1>0 DEF Local
  <2>3. [l[p] EXCEPT !.obj = PushNode(p)] = Pointed(l[p], PushNode(p), l[p].old)
    BY <1>0 DEF Local, Pointed
  <2>4. l' = [l EXCEPT ![p] = Pointed(l[p], PushNode(p), l[p].old)]
    BY <1>0, <2>1, <2>3
  <2>5. PushNode(p) \in NodeObjs BY <1>2, <2>1
  <2> QED BY <1>1, <2>1, <2>2, <2>4, <2>5 DEF PushStays, nodevars
<1>7. CASE Push_Blocks(p)
  <2> DEFINE c == node[PushNode(p)].conn
  <2>1. /\ Running /\ pc[p] \in {"push", "send"} /\ PushNode(p) # 0 /\ c \in open
        /\ pc' = [pc EXCEPT ![p] = "write"]
        /\ l' = [l EXCEPT ![p].obj = PushNode(p), ![p].old = c]
        /\ budget.stalls > 0 /\ budget' = [budget EXCEPT !.stalls = @ - 1]
        /\ UNCHANGED <<procvars, nodevars, tunnelvars, createMu, open, issued, disk, raced>>
    BY <1>7 DEF Push_Blocks
  <2>2. c \in Conns \cup {None} BY <2>1 DEF TypeInv, ProcessTypes
  <2>3. l' = [l EXCEPT ![p] = Pointed(l[p], PushNode(p), c)] BY <1>0, <2>1 DEF Pointed
  <2>4. PushNode(p) \in NodeObjs BY <1>2, <2>1
  <2> QED BY <1>1, <2>1, <2>2, <2>3, <2>4 DEF PushStays, nodevars
<1> QED BY <1>4, <1>5, <1>6, <1>7 DEF Pushing

(* Nodes: a registration, a new credential and a disconnection change one  *)
(* node each, a process that ends forgets all of them and a restart        *)
(* rebuilds them from the file.                                            *)
LEMMA NodeTypesStep == TypeInv /\ [Next]_vars => NodeTypes'
<1> SUFFICES ASSUME TypeInv, [Next]_vars PROVE NodeTypes'
  OBVIOUS
<1>0. ASSUME UNCHANGED <<nodes, node, issued>> PROVE NodeTypes'
  BY <1>0 DEF TypeInv, NodeTypes, NodeInv, NodeRecord
<1>1. ASSUME NEW c \in Conns, Handler(c) PROVE NodeTypes'
  <2>1. CASE Register_Update(c)
    <3> DEFINE x == l[c].node
               r == [[node[x] EXCEPT !.conn = c] EXCEPT !.presets = l[c].ps]
    <3>1. /\ x \in NodeObjs /\ l[c].ps \in PresetTables /\ node[x] \in NodeRecord
      BY <2>1
      DEF Register_Update, Step, TypeInv, LocalTypes, LocalInv, LocalAt, Local,
          NodeTypes, Procs
    <3>2. [node[x] EXCEPT !.conn = c] \in NodeRecord BY <3>1, NodeFields
    <3>3. r \in NodeRecord BY <3>1, <3>2, NodeFields
    <3>4. node' = [node EXCEPT ![x] = r]
      BY <2>1, <3>1 DEF Register_Update, TypeInv, NodeTypes, NodeRecord
    <3>5. node' \in [NodeObjs -> NodeRecord] BY <3>1, <3>3, <3>4 DEF NodeTypes, TypeInv
    <3>6. \A y \in NodeObjs : node'[y].tok = node[y].tok
      BY <3>1, <3>4 DEF NodeTypes, NodeRecord, TypeInv
    <3> QED BY <2>1, <3>5, <3>6, NodeUpdate DEF Register_Update, TypeInv
  <2>2. CASE Register_RespondFails(c)
    BY <2>2, DisconnectedTypes DEF Register_RespondFails, TypeInv
  <2>3. CASE ControlLoop_Exit(c)
    BY <2>3, DisconnectedTypes DEF ControlLoop_Exit, TypeInv
  <2>4. ASSUME NEW name \in Names, NEW tok \in 1..issued, NEW ps \in Registrations,
               Register_Check(c, name, tok, ps)
       PROVE  NodeTypes'
    BY <1>0, <2>4 DEF Register_Check, procvars, nodevars, tunnelvars
  <2>5. CASE Register_Respond(c)
    BY <1>0, <2>5 DEF Register_Respond, procvars, nodevars, tunnelvars
  <2> QED BY <1>1, <2>1, <2>2, <2>3, <2>4, <2>5 DEF Handler
<1>2. ASSUME NEW p \in Procs, Operation(p) PROVE NodeTypes'
  <2>1. CASE Sync_Finish(p)
    <3>1. l[p].err \in BOOLEAN BY DEF TypeInv, LocalTypes, Local
    <3>2. \A x \in NodeObjs : [node[x] EXCEPT !.perr = l[p].err] \in NodeRecord
      BY <3>1, NodeFields DEF NodeTypes, TypeInv
    <3>3. node' \in [NodeObjs -> NodeRecord]
      BY <2>1, <3>2 DEF Sync_Finish, NodeTypes, TypeInv
    <3>4. \A x \in NodeObjs : node'[x].tok = node[x].tok
      BY <2>1 DEF Sync_Finish, NodeTypes, NodeRecord, TypeInv
    <3> QED BY <2>1, <3>3, <3>4, NodeUpdate DEF Sync_Finish, TypeInv
  <2>2. CASE Pushing(p)
    <3>1. UNCHANGED <<nodes, issued>> /\ (PushEnds(p) \/ PushStays(p)) BY <2>2, PushFacts
    <3>2. CASE UNCHANGED node BY <3>1, <3>2, <1>0
    <3>3. CASE ~UNCHANGED node
      BY <3>1, <3>3, DisconnectedTypes DEF PushEnds, PushStays, TypeInv
    <3> QED BY <3>2, <3>3
  <2>3. CASE Sync_Copy(p) \/ Sync_List(p) \/ Sync_Close(p) \/ Sync_Closed(p) \/ Create_Begin(p)
             \/ Create_Listen(p) \/ Create_NoPort(p) \/ Create_Insert(p)
    <3>1. UNCHANGED <<nodevars, issued>>
      BY <2>3
      DEF Sync_Copy, Sync_List, Sync_Close, Sync_Closed, Create_Begin, Create_Listen,
          Create_NoPort, Create_Insert
    <3> QED BY <1>0, <3>1 DEF nodevars
  <2> QED BY <1>2, <2>1, <2>2, <2>3 DEF Operation
<1>3. ASSUME NEW a \in Admins, Request(a) PROVE NodeTypes'
  <2>1. ASSUME NEW name \in Names, Issue(a, name) PROVE NodeTypes'
    <3>1. issued' \in 1..MaxTokens
      BY <2>1, ConstantsAssumption DEF Issue, NodeTypes, TypeInv
    <3>2. CASE nodes[name] # 0
      <4>1. nodes[name] \in NodeObjs BY <3>2 DEF NodeTypes, TypeInv
      <4>2. node' = [node EXCEPT ![nodes[name]].tok = issued', ![nodes[name]].conn = None]
            /\ nodes' = nodes
        BY <2>1, <3>2 DEF Issue
      <4>3. node' \in [NodeObjs -> NodeRecord]
        BY <3>1, <4>1, <4>2 DEF NodeTypes, NodeRecord, TypeInv
      <4>4. \A x \in NodeObjs : node'[x].tok = node[x].tok \/ node'[x].tok = issued'
        BY <4>1, <4>2 DEF NodeTypes, NodeRecord, TypeInv
      <4> QED BY <3>1, <4>2, <4>3, <4>4 DEF NodeTypes, NodeInv, TypeInv
    <3>3. CASE nodes[name] = 0
      <4>1. PICK x \in FreeObjs :
              /\ nodes' = [nodes EXCEPT ![name] = x]
              /\ node' = [node EXCEPT ![x] = [FreshNode EXCEPT !.tok = issued']]
        BY <2>1, <3>3 DEF Issue
      <4>2. x \in NodeObjs BY DEF FreeObjs
      <4>3. [FreshNode EXCEPT !.tok = issued'] \in NodeRecord
        BY <3>1, FreshFacts, NodeFields DEF NodeRecord
      <4>4. node' \in [NodeObjs -> NodeRecord] BY <4>1, <4>2, <4>3 DEF NodeTypes, TypeInv
      <4>5. \A y \in NodeObjs : node'[y].tok = node[y].tok \/ node'[y].tok = issued'
        BY <4>1, <4>2, <3>1 DEF NodeTypes, NodeRecord, FreshNode, TypeInv
      <4>6. node'[x].tok = issued' BY <4>1, <4>2, <3>1 DEF NodeTypes, FreshNode, TypeInv
      <4> QED BY <3>1, <4>1, <4>2, <4>4, <4>5, <4>6 DEF NodeTypes, NodeInv, TypeInv
    <3> QED BY <3>2, <3>3
  <2>2. ASSUME NEW name \in Names, Delete(a, name) PROVE NodeTypes'
    BY <2>2 DEF Delete, NodeTypes, NodeInv, TypeInv
  <2>3. ASSUME NEW name \in Names, Resync(a, name) PROVE NodeTypes'
    BY <1>0, <2>3 DEF Resync, BeginRequest, procvars, nodevars, tunnelvars
  <2>4. ASSUME NEW t \in tunnels, Reassign(a, t) PROVE NodeTypes'
    BY <1>0, <2>4 DEF Reassign, BeginRequest, procvars, nodevars, tunnelvars
  <2>5. CASE Issue_Close(a) \/ Releasing(a) \/ Reassign_Close(a)
    BY <1>0, <2>5 DEF Issue_Close, Releasing, Delete_Control, Delete_Close,
        Delete_Finish, Reassign_Close, procvars, nodevars,
        tunnelvars
  <2> QED BY <1>3, <2>1, <2>2, <2>3, <2>4, <2>5 DEF Request
<1>4. ASSUME Process PROVE NodeTypes'
  <2>1. CASE Exit BY <2>1, FreshFacts DEF Exit, NodeTypes, NodeInv, NodeRecord, TypeInv
  <2>2. CASE Restart
    BY <2>2, ObjFacts, FreshFacts, ConstantsAssumption
      DEF Restart, NodeTypes, NodeInv, NodeRecord, FileTypes, SavedNode, TypeInv,
          nodevars
  <2>3. CASE RestoreTunnel
    <3>1. PICK m \in todo : RestoreOne(m) \/ RestoreFailed(m) BY <2>3 DEF RestoreTunnel
    <3>2. CASE RestoreOne(m) BY <3>2, <1>0 DEF RestoreOne, nodevars
    <3>3. CASE RestoreFailed(m)
      <4>1. node' \in [NodeObjs -> NodeRecord]
        BY <3>3 DEF RestoreFailed, NodeTypes, NodeRecord, TypeInv
      <4>2. \A x \in NodeObjs : node'[x].tok = node[x].tok
        BY <3>3 DEF RestoreFailed, NodeTypes, NodeRecord, TypeInv
      <4> QED BY <3>3, <4>1, <4>2, NodeUpdate DEF RestoreFailed, TypeInv
    <3> QED BY <3>1, <3>2, <3>3
  <2>4. ASSUME NEW t \in tunnels, Listener_Fails(t) PROVE NodeTypes'
    BY <1>0, <2>4 DEF Listener_Fails, procvars, nodevars, tunnelvars
  <2>5. ASSUME NEW t \in tunnels, Shutdown_CloseTunnel(t) PROVE NodeTypes'
    BY <1>0, <2>5 DEF Shutdown_CloseTunnel, procvars, nodevars, tunnelvars
  <2>6. CASE PeriodicSave \/ Shutdown \/ Shutdown_CloseControls \/ Serve
    BY <1>0, <2>6 DEF PeriodicSave, Shutdown, Shutdown_CloseControls, Serve, procvars,
        nodevars, tunnelvars
  <2> QED BY <1>4, <2>1, <2>2, <2>3, <2>4, <2>5, <2>6 DEF Process
<1>5. CASE UNCHANGED vars BY <1>0, <1>5 DEF vars
<1> QED BY <1>1, <1>2, <1>3, <1>4, <1>5 DEF Next

LEMMA RestoredTypes ==
    ASSUME TypeInv, NEW m \in todo
    PROVE  /\ nodes[m.name] \in NodeObjs
           /\ m.preset \in DOMAIN node[nodes[m.name]].presets
           /\ RestoredProto(m) \in Protocols
<1>1. nodes[m.name] \in NodeObjs /\ m.preset \in DOMAIN node[nodes[m.name]].presets
  BY DEF TypeInv, TodoInv, Declared, FileTypes, SavedTunnel, NodeTypes
<1>2. node[nodes[m.name]].presets \in PresetTables
  BY <1>1 DEF TypeInv, NodeTypes, NodeRecord
<1> QED BY <1>1, <1>2, PresetFacts DEF RestoredProto

(* Tunnels and the port table.                                             *)
LEMMA CloseTypes ==
    ASSUME TunnelTypes, NEW ts, Close(ts)
    PROVE  TunnelTypes'
BY DEF TunnelTypes, Close

(* The tunnel a creation enters.                                           *)
LEMMA EnteredTunnel ==
    ASSUME TypeInv, NEW p \in Procs, Create_Insert(p)
    PROVE  \E t \in Tunnel :
              /\ t.port \in l[p].cand /\ t.id \in FreeIds
              /\ t.name = l[p].name /\ t.preset = Min(l[p].miss) /\ t.proto = l[p].proto
              /\ tunnels' = tunnels \cup {t}
              /\ ports' = [r \in DOMAIN ports \cup {t.port} |->
                             IF r = t.port THEN t.id ELSE ports[r]]
<1>1. Min(l[p].miss) \in l[p].miss /\ l[p].miss \subseteq Presets
  BY MinIn, ConstantsAssumption
  DEF Create_Insert, Step, TypeInv, LocalTypes, LocalInv, LocalAt, Local
<1>2. l[p].name \in Names /\ l[p].proto \in Protocols /\ l[p].cand \subseteq Ports
  BY DEF Create_Insert, Step, TypeInv, LocalTypes, LocalInv, LocalAt, Local, Resting
<1>3. PICK q \in l[p].cand, id \in FreeIds :
        /\ tunnels' = tunnels \cup {[id |-> id, name |-> l[p].name,
                                     preset |-> Min(l[p].miss), proto |-> l[p].proto,
                                     port |-> q]}
        /\ ports' = [r \in DOMAIN ports \cup {q} |-> IF r = q THEN id ELSE ports[r]]
  BY DEF Create_Insert
<1> DEFINE t == [id |-> id, name |-> l[p].name, preset |-> Min(l[p].miss),
                 proto |-> l[p].proto, port |-> q]
<1>4. t \in Tunnel BY <1>1, <1>2 DEF FreeIds, Tunnel
<1> QED BY <1>3, <1>4

LEMMA RestoredTunnel ==
    ASSUME TypeInv, NEW m \in todo, RestoreOne(m)
    PROVE  \E t \in Tunnel :
              /\ t.port = m.port /\ t.id \in FreeIds
              /\ t.name = m.name /\ t.preset = m.preset
              /\ tunnels' = tunnels \cup {t}
              /\ ports' = [r \in DOMAIN ports \cup {t.port} |->
                             IF r = t.port THEN t.id ELSE ports[r]]
<1> DEFINE t == [id |-> Min(FreeIds), name |-> m.name, preset |-> m.preset,
                 proto |-> RestoredProto(m), port |-> m.port]
<1>1. Min(FreeIds) \in FreeIds BY MinIn, ConstantsAssumption DEF RestoreOne, FreeIds
<1>2. m.name \in Names /\ m.preset \in Presets /\ m.port \in Ports
  BY DEF TypeInv, FileTypes, SavedTunnel
<1>3. t \in Tunnel BY <1>1, <1>2, RestoredTypes DEF FreeIds, Tunnel
<1> QED BY <1>1, <1>3 DEF RestoreOne

LEMMA EnterTypes ==
    ASSUME TunnelTypes, NEW t \in Tunnel, tunnels' = tunnels \cup {t},
           ports' = [r \in DOMAIN ports \cup {t.port} |-> IF r = t.port THEN t.id ELSE ports[r]]
    PROVE  TunnelTypes'
<1>1. t.port \in Ports /\ t.id \in TunnelIds BY DEF Tunnel
<1> QED BY <1>1 DEF TunnelTypes

LEMMA TunnelTypesStep == TypeInv /\ [Next]_vars => TunnelTypes'
<1> SUFFICES ASSUME TypeInv, [Next]_vars PROVE TunnelTypes'
  OBVIOUS
<1>0. ASSUME UNCHANGED <<tunnels, ports>> PROVE TunnelTypes'
  BY <1>0 DEF TypeInv, TunnelTypes
<1>1. ASSUME NEW c \in Conns, Handler(c) PROVE TunnelTypes'
  <2>1. ASSUME NEW name \in Names, NEW tok \in 1..issued, NEW ps \in Registrations,
               Register_Check(c, name, tok, ps)
       PROVE  TunnelTypes'
    BY <1>0, <2>1 DEF Register_Check, procvars, nodevars, tunnelvars
  <2>2. CASE Register_Update(c) \/ Register_Respond(c) \/ Register_RespondFails(c)
             \/ ControlLoop_Exit(c)
    BY <1>0, <2>2 DEF Register_Update, Register_Respond, Register_RespondFails,
        ControlLoop_Exit, procvars, nodevars, tunnelvars
  <2> QED BY <1>1, <2>1, <2>2 DEF Handler
<1>2. ASSUME NEW p \in Procs, Operation(p) PROVE TunnelTypes'
  <2>1. CASE Sync_Close(p)
    <3>1. \E t : Close({t}) BY <2>1 DEF Sync_Close, CloseNext
    <3> QED BY <3>1, CloseTypes DEF TypeInv
  <2>2. CASE Create_Insert(p) BY <2>2, EnteredTunnel, EnterTypes DEF TypeInv
  <2>3. CASE Sync_Copy(p) \/ Sync_List(p) \/ Sync_Closed(p) \/ Sync_Finish(p)
             \/ Create_Begin(p) \/ Create_Listen(p) \/ Create_NoPort(p)
    <3>1. UNCHANGED tunnelvars
      BY <2>3
      DEF Sync_Copy, Sync_List, Sync_Closed, Sync_Finish, Create_Begin, Create_Listen,
          Create_NoPort
    <3> QED BY <1>0, <3>1 DEF tunnelvars
  <2>4. CASE Pushing(p) BY <1>0, <2>4, PushFacts DEF tunnelvars
  <2> QED BY <1>2, <2>1, <2>2, <2>3, <2>4 DEF Operation
<1>3. ASSUME NEW a \in Admins, Request(a) PROVE TunnelTypes'
  <2>1. CASE Releasing(a)
    <3>1. (\E t : Close({t})) \/ UNCHANGED <<tunnels, ports>>
      BY <2>1
      DEF Releasing, Delete_Control, Delete_Close, Delete_Finish, CloseNext, tunnelvars
    <3> QED BY <3>1, <1>0, CloseTypes DEF TypeInv
  <2>2. CASE Reassign_Close(a) BY <2>2, CloseTypes DEF Reassign_Close, TypeInv
  <2>3. ASSUME NEW name \in Names, Resync(a, name) PROVE TunnelTypes'
    BY <1>0, <2>3 DEF Resync, BeginRequest, procvars, nodevars, tunnelvars
  <2>4. ASSUME NEW name \in Names, Issue(a, name) PROVE TunnelTypes'
    BY <1>0, <2>4 DEF Issue, BeginRequest, procvars, nodevars, tunnelvars
  <2>5. ASSUME NEW name \in Names, Delete(a, name) PROVE TunnelTypes'
    BY <1>0, <2>5 DEF Delete, BeginRequest, procvars, nodevars, tunnelvars
  <2>6. ASSUME NEW t \in tunnels, Reassign(a, t) PROVE TunnelTypes'
    BY <1>0, <2>6 DEF Reassign, BeginRequest, procvars, nodevars, tunnelvars
  <2>7. CASE Issue_Close(a)
    BY <1>0, <2>7 DEF Issue_Close, procvars, nodevars, tunnelvars
  <2> QED BY <1>3, <2>1, <2>2, <2>3, <2>4, <2>5, <2>6, <2>7 DEF Request
<1>4. ASSUME Process PROVE TunnelTypes'
  <2>1. ASSUME NEW t \in tunnels, Listener_Fails(t) PROVE TunnelTypes'
    BY <2>1, CloseTypes DEF Listener_Fails, TypeInv
  <2>2. ASSUME NEW t \in tunnels, Shutdown_CloseTunnel(t) PROVE TunnelTypes'
    BY <2>2, CloseTypes DEF Shutdown_CloseTunnel, TypeInv
  <2>3. CASE Exit BY <2>3 DEF Exit, TunnelTypes
  <2>4. CASE RestoreTunnel
    <3>1. PICK m \in todo : RestoreOne(m) \/ RestoreFailed(m) BY <2>4 DEF RestoreTunnel
    <3>2. CASE RestoreOne(m)
      BY <3>2, RestoredTunnel, EnterTypes DEF TypeInv
    <3>3. CASE RestoreFailed(m) BY <3>3, <1>0 DEF RestoreFailed, tunnelvars
    <3> QED BY <3>1, <3>2, <3>3
  <2>5. CASE PeriodicSave \/ Shutdown \/ Shutdown_CloseControls \/ Restart \/ Serve
    BY <1>0, <2>5 DEF PeriodicSave, Shutdown, Shutdown_CloseControls, Restart, Serve,
        procvars, nodevars, tunnelvars
  <2> QED BY <1>4, <2>1, <2>2, <2>3, <2>4, <2>5 DEF Process
<1>5. CASE UNCHANGED vars BY <1>0, <1>5 DEF vars
<1> QED BY <1>1, <1>2, <1>3, <1>4, <1>5 DEF Next

(* What is left to restore.                                                *)
LEMMA TodoInvStep == TypeInv /\ [Next]_vars => TodoInv'
<1> SUFFICES ASSUME TypeInv, [Next]_vars PROVE TodoInv'
  OBVIOUS
<1>0. ASSUME phase \in {"up", "stopping"}, todo' = todo PROVE TodoInv'
  BY <1>0 DEF TypeInv, TodoInv
<1>1. ASSUME NEW c \in Conns, Handler(c) PROVE TodoInv'
  <2>1. ASSUME NEW name \in Names, NEW tok \in 1..issued, NEW ps \in Registrations,
               Register_Check(c, name, tok, ps)
       PROVE  TodoInv'
    BY <1>0, <2>1 DEF Register_Check, procvars, nodevars, tunnelvars, Running
  <2>2. CASE Register_Update(c) \/ Register_Respond(c) \/ Register_RespondFails(c)
             \/ ControlLoop_Exit(c)
    BY <1>0, <2>2 DEF Register_Update, Register_Respond, Register_RespondFails,
        ControlLoop_Exit, procvars, nodevars, tunnelvars, Running
  <2> QED BY <1>1, <2>1, <2>2 DEF Handler
<1>2. ASSUME NEW p \in Procs, Operation(p) PROVE TodoInv'
  <2>1. CASE Sync_Copy(p) \/ Sync_List(p) \/ Sync_Close(p) \/ Sync_Closed(p) \/ Sync_Finish(p)
             \/ Create_Begin(p) \/ Create_Listen(p) \/ Create_NoPort(p)
             \/ Create_Insert(p)
    <3>1. Running /\ UNCHANGED procvars
      BY <2>1
      DEF Sync_Copy, Sync_List, Sync_Close, Sync_Closed, Sync_Finish, Create_Begin,
          Create_Listen, Create_NoPort, Create_Insert
    <3> QED BY <1>0, <3>1 DEF procvars, Running
  <2>2. CASE Pushing(p) BY <1>0, <2>2, PushFacts DEF procvars, tunnelvars, Running
  <2> QED BY <1>2, <2>1, <2>2 DEF Operation
<1>3. ASSUME NEW a \in Admins, Request(a) PROVE TodoInv'
  <2>1. ASSUME NEW name \in Names, Resync(a, name) PROVE TodoInv'
    BY <1>0, <2>1 DEF Resync, BeginRequest, procvars, nodevars, tunnelvars, Running
  <2>2. ASSUME NEW name \in Names, Issue(a, name) PROVE TodoInv'
    BY <1>0, <2>2 DEF Issue, BeginRequest, procvars, nodevars, tunnelvars, Running
  <2>3. ASSUME NEW name \in Names, Delete(a, name) PROVE TodoInv'
    BY <1>0, <2>3 DEF Delete, BeginRequest, procvars, nodevars, tunnelvars, Running
  <2>4. ASSUME NEW t \in tunnels, Reassign(a, t) PROVE TodoInv'
    BY <1>0, <2>4 DEF Reassign, BeginRequest, procvars, nodevars, tunnelvars, Running
  <2>5. CASE Issue_Close(a) \/ Releasing(a) \/ Reassign_Close(a)
    <3>1. Running /\ UNCHANGED procvars
      BY <2>5 DEF Issue_Close, Releasing, Delete_Control, Delete_Close, Delete_Finish,
          Reassign_Close
    <3> QED BY <1>0, <3>1 DEF procvars, Running
  <2> QED BY <1>3, <2>1, <2>2, <2>3, <2>4, <2>5 DEF Request
<1>4. ASSUME Process PROVE TodoInv'
  <2>1. CASE Exit BY <2>1 DEF Exit, TodoInv
  <2>2. CASE Restart
    <3>1. ASSUME NEW m \in todo' PROVE Declared(m)'
      <4>1. /\ m.name \in DOMAIN disk.nodes /\ m.name \in Names
            /\ m.preset \in DOMAIN disk.nodes[m.name].presets
        BY <2>2, <3>1 DEF Restart, TypeInv, FileTypes, SavedTunnel
      <4> DEFINE x == NodeObjFor(m.name)
      <4>2. x \in NodeObjs /\ x # 0 /\ nodes'[m.name] = x
        BY <2>2, <4>1, ObjFacts, ConstantsAssumption DEF Restart
      <4>3. (CHOOSE n \in DOMAIN disk.nodes : NodeObjFor(n) = x) = m.name
        BY <4>1, ObjFacts DEF TypeInv, FileTypes
      <4>4. node'[x].presets = disk.nodes[m.name].presets
        BY <2>2, <4>1, <4>2, <4>3 DEF Restart
      <4> QED BY <4>1, <4>2, <4>4 DEF Declared
    <3> QED BY <2>2, <3>1 DEF Restart, TodoInv
  <2>3. CASE RestoreTunnel
    <3>1. PICK m \in todo : RestoreOne(m) \/ RestoreFailed(m) BY <2>3 DEF RestoreTunnel
    <3>2. phase' = "restoring" /\ todo' \subseteq todo /\ nodes' = nodes
      BY <2>3, <3>1 DEF RestoreTunnel, RestoreOne, RestoreFailed, nodevars
    <3>3. \A x \in NodeObjs : node'[x].presets = node[x].presets
      BY <3>1 DEF RestoreOne, RestoreFailed, nodevars, TypeInv, NodeTypes, NodeRecord
    <3>4. \A k \in todo : nodes[k.name] \in NodeObjs /\ Declared(k)
      BY RestoredTypes DEF TypeInv, TodoInv
    <3> QED BY <3>2, <3>3, <3>4 DEF TodoInv, Declared
  <2>4. CASE Serve BY <2>4 DEF Serve, TodoInv
  <2>5. ASSUME NEW t \in tunnels, Listener_Fails(t) PROVE TodoInv'
    BY <1>0, <2>5 DEF Listener_Fails, procvars, nodevars, tunnelvars, Running
  <2>6. ASSUME NEW t \in tunnels, Shutdown_CloseTunnel(t) PROVE TodoInv'
    BY <1>0, <2>6 DEF Shutdown_CloseTunnel, procvars, nodevars, tunnelvars, Running
  <2>7. CASE PeriodicSave \/ Shutdown \/ Shutdown_CloseControls
    BY <1>0, <2>7 DEF PeriodicSave, Shutdown, Shutdown_CloseControls, procvars,
        nodevars, tunnelvars, Running
  <2> QED BY <1>4, <2>1, <2>2, <2>3, <2>4, <2>5, <2>6, <2>7 DEF Process
<1>5. CASE UNCHANGED vars BY <1>5 DEF vars, TypeInv, TodoInv, Declared
<1> QED BY <1>1, <1>2, <1>3, <1>4, <1>5 DEF Next

(* The state file: whatever is saved is a snapshot of the registry.        *)
LEMMA SaveTypes ==
    ASSUME SaveState
    PROVE  disk' = disk \/ disk' = Snapshot(nodes', node', tunnels')
BY DEF SaveState

LEMMA SnapshotTypes ==
    ASSUME NEW ns \in [Names -> NodeObjs \cup {0}], NEW nd \in [NodeObjs -> NodeRecord],
           \A n \in Names : ns[n] # 0 => nd[ns[n]].tok # 0,
           NEW ts \in SUBSET Tunnel
    PROVE  LET s == Snapshot(ns, nd, ts)
           IN  /\ s.tunnels \subseteq SavedTunnel /\ DOMAIN s.nodes \subseteq Names
               /\ s.nodes \in [DOMAIN s.nodes -> SavedNode]
<1> DEFINE s == Snapshot(ns, nd, ts)
           D == {m \in Names : ns[m] # 0}
<1>1. s.tunnels \subseteq SavedTunnel BY DEF Snapshot, Tunnel, SavedTunnel
<1>2. DOMAIN s.nodes = D BY DEF Snapshot
<1>3. ASSUME NEW n \in D
      PROVE  [tok |-> nd[ns[n]].tok, presets |-> nd[ns[n]].presets, perr |-> nd[ns[n]].perr]
                \in SavedNode
  <2>1. nd[ns[n]] \in NodeRecord /\ nd[ns[n]].tok # 0 OBVIOUS
  <2>2. nd[ns[n]].tok \in 1..MaxTokens BY <2>1, ConstantsAssumption DEF NodeRecord
  <2> QED BY <2>1, <2>2 DEF NodeRecord, SavedNode
<1>4. s.nodes \in [D -> SavedNode] BY <1>3 DEF Snapshot
<1> QED BY <1>1, <1>2, <1>4

LEMMA SavedFileTypes ==
    ASSUME FileTypes, NodeTypes', TunnelTypes', SaveState, UNCHANGED <<todo, boot, served>>
    PROVE  FileTypes'
<1>1. CASE disk' = disk BY <1>1 DEF FileTypes
<1>2. CASE disk' = Snapshot(nodes', node', tunnels')
  <2>1. /\ disk'.tunnels \subseteq SavedTunnel /\ DOMAIN disk'.nodes \subseteq Names
        /\ disk'.nodes \in [DOMAIN disk'.nodes -> SavedNode]
    BY <1>2, SnapshotTypes DEF NodeTypes, NodeInv, TunnelTypes
  <2> QED BY <2>1 DEF FileTypes
<1> QED BY <1>1, <1>2, SaveTypes

LEMMA FileTypesStep == TypeInv /\ NodeTypes' /\ TunnelTypes' /\ [Next]_vars => FileTypes'
<1> SUFFICES ASSUME TypeInv, NodeTypes', TunnelTypes', [Next]_vars PROVE FileTypes'
  OBVIOUS
<1>0. ASSUME UNCHANGED <<disk, todo, boot, served>> PROVE FileTypes'
  BY <1>0 DEF TypeInv, FileTypes
<1>1. ASSUME NEW c \in Conns, Handler(c) PROVE FileTypes'
  <2>1. CASE Register_Respond(c)
    BY <2>1, SavedFileTypes DEF Register_Respond, procvars, TypeInv
  <2>2. CASE ControlLoop_Exit(c)
    BY <2>2, SavedFileTypes DEF ControlLoop_Exit, procvars, TypeInv
  <2>3. ASSUME NEW name \in Names, NEW tok \in 1..issued, NEW ps \in Registrations,
               Register_Check(c, name, tok, ps)
       PROVE  FileTypes'
    BY <1>0, <2>3 DEF Register_Check, procvars, nodevars, tunnelvars
  <2>4. CASE Register_Update(c) \/ Register_RespondFails(c)
    BY <1>0, <2>4 DEF Register_Update, Register_RespondFails, procvars, nodevars,
        tunnelvars
  <2> QED BY <1>1, <2>1, <2>2, <2>3, <2>4 DEF Handler
<1>2. ASSUME NEW p \in Procs, Operation(p) PROVE FileTypes'
  <2>1. CASE Create_Insert(p)
    BY <2>1, SavedFileTypes DEF Create_Insert, procvars, TypeInv
  <2>2. CASE Pushing(p)
    <3>1. UNCHANGED procvars /\ (PushEnds(p) \/ PushStays(p)) BY <2>2, PushFacts
    <3>2. CASE PushEnds(p) BY <3>1, <3>2, SavedFileTypes DEF PushEnds, procvars, TypeInv
    <3>3. CASE PushStays(p) BY <1>0, <3>1, <3>3 DEF PushStays, procvars
    <3> QED BY <3>1, <3>2, <3>3
  <2>3. CASE Sync_Copy(p) \/ Sync_List(p) \/ Sync_Close(p) \/ Sync_Closed(p) \/ Sync_Finish(p)
             \/ Create_Begin(p) \/ Create_Listen(p) \/ Create_NoPort(p)
    <3>1. UNCHANGED <<procvars, disk>>
      BY <2>3
      DEF Sync_Copy, Sync_List, Sync_Close, Sync_Closed, Sync_Finish, Create_Begin,
          Create_Listen, Create_NoPort
    <3> QED BY <1>0, <3>1 DEF procvars
  <2> QED BY <1>2, <2>1, <2>2, <2>3 DEF Operation
<1>3. ASSUME NEW a \in Admins, Request(a) PROVE FileTypes'
  <2>1. CASE Issue_Close(a) BY <2>1, SavedFileTypes DEF Issue_Close, procvars, TypeInv
  <2>2. CASE Releasing(a)
    <3>1. CASE Delete_Finish(a) BY <3>1, SavedFileTypes DEF Delete_Finish, procvars, TypeInv
    <3>2. CASE ~Delete_Finish(a)
      BY <1>0, <2>2, <3>2 DEF Releasing, Delete_Control, Delete_Close, procvars
    <3> QED BY <3>1, <3>2
  <2>3. ASSUME NEW name \in Names, Resync(a, name) PROVE FileTypes'
    BY <1>0, <2>3 DEF Resync, BeginRequest, procvars, nodevars, tunnelvars
  <2>4. ASSUME NEW name \in Names, Issue(a, name) PROVE FileTypes'
    BY <1>0, <2>4 DEF Issue, BeginRequest, procvars, nodevars, tunnelvars
  <2>5. ASSUME NEW name \in Names, Delete(a, name) PROVE FileTypes'
    BY <1>0, <2>5 DEF Delete, BeginRequest, procvars, nodevars, tunnelvars
  <2>6. ASSUME NEW t \in tunnels, Reassign(a, t) PROVE FileTypes'
    BY <1>0, <2>6 DEF Reassign, BeginRequest, procvars, nodevars, tunnelvars
  <2>7. CASE Reassign_Close(a)
    BY <1>0, <2>7 DEF Reassign_Close, procvars, nodevars, tunnelvars
  <2> QED BY <1>3, <2>1, <2>2, <2>3, <2>4, <2>5, <2>6, <2>7 DEF Request
<1>4. ASSUME Process PROVE FileTypes'
  <2>1. CASE PeriodicSave BY <2>1, SavedFileTypes DEF PeriodicSave, procvars, TypeInv
  <2>2. CASE Shutdown
    <3>1. Snapshot(nodes, node, tunnels).tunnels \subseteq SavedTunnel
      BY SnapshotTypes DEF TypeInv, NodeTypes, NodeInv, TunnelTypes
    <3>2. served' \subseteq SavedTunnel BY <2>2, <3>1 DEF Shutdown
    <3>3. /\ disk'.tunnels \subseteq SavedTunnel /\ DOMAIN disk'.nodes \subseteq Names
          /\ disk'.nodes \in [DOMAIN disk'.nodes -> SavedNode]
      BY <2>2, SaveTypes, SnapshotTypes
      DEF Shutdown, TypeInv, FileTypes, NodeTypes, NodeInv, TunnelTypes
    <3> QED BY <2>2, <3>2, <3>3 DEF Shutdown, TypeInv, FileTypes
  <2>3. CASE Exit BY <2>3 DEF Exit, TypeInv, FileTypes
  <2>4. CASE Restart BY <2>4 DEF Restart, TypeInv, FileTypes
  <2>5. CASE RestoreTunnel
    <3>1. PICK m \in todo : RestoreOne(m) \/ RestoreFailed(m) BY <2>5 DEF RestoreTunnel
    <3>2. /\ disk'.tunnels \subseteq SavedTunnel /\ DOMAIN disk'.nodes \subseteq Names
          /\ disk'.nodes \in [DOMAIN disk'.nodes -> SavedNode]
      BY <3>1, SaveTypes, SnapshotTypes
      DEF RestoreOne, RestoreFailed, TypeInv, FileTypes, NodeTypes, NodeInv, TunnelTypes
    <3> QED BY <3>1, <3>2 DEF RestoreOne, RestoreFailed, TypeInv, FileTypes
  <2>6. CASE Serve BY <2>6 DEF Serve, TypeInv, FileTypes
  <2>7. ASSUME NEW t \in tunnels, Listener_Fails(t) PROVE FileTypes'
    BY <1>0, <2>7 DEF Listener_Fails, procvars, nodevars, tunnelvars
  <2>8. ASSUME NEW t \in tunnels, Shutdown_CloseTunnel(t) PROVE FileTypes'
    BY <1>0, <2>8 DEF Shutdown_CloseTunnel, procvars, nodevars, tunnelvars
  <2>9. CASE Shutdown_CloseControls
    BY <1>0, <2>9 DEF Shutdown_CloseControls, procvars, nodevars, tunnelvars
  <2> QED BY <1>4, <2>1, <2>2, <2>3, <2>4, <2>5, <2>6, <2>7, <2>8, <2>9 DEF Process
<1>5. CASE UNCHANGED vars BY <1>0, <1>5 DEF vars
<1> QED BY <1>1, <1>2, <1>3, <1>4, <1>5 DEF Next

(* The process, the mutex, connections and the bounds.                     *)
LEMMA ProcessTypesStep == TypeInv /\ [Next]_vars => ProcessTypes'
<1> SUFFICES ASSUME TypeInv, [Next]_vars PROVE ProcessTypes'
  OBVIOUS
<1>0. ASSUME UNCHANGED <<phase, createMu, open, foreign, raced, budget>> PROVE ProcessTypes'
  BY <1>0 DEF TypeInv, ProcessTypes
<1>1. ASSUME NEW c \in Conns, Handler(c) PROVE ProcessTypes'
  <2>1. ASSUME NEW name \in Names, NEW tok \in 1..issued, NEW ps \in Registrations,
               Register_Check(c, name, tok, ps)
       PROVE  ProcessTypes'
    BY <2>1 DEF Register_Check, Overlap, procvars, ProcessTypes, TypeInv
  <2>2. CASE Register_Respond(c)
    BY <2>2 DEF Register_Respond, procvars, ProcessTypes, TypeInv
  <2>3. CASE Register_RespondFails(c)
    BY <2>3 DEF Register_RespondFails, procvars, ProcessTypes, TypeInv
  <2>4. CASE ControlLoop_Exit(c)
    BY <2>4 DEF ControlLoop_Exit, procvars, ProcessTypes, TypeInv
  <2>5. CASE Register_Update(c)
    BY <1>0, <2>5 DEF Register_Update, procvars, nodevars, tunnelvars
  <2> QED BY <1>1, <2>1, <2>2, <2>3, <2>4, <2>5 DEF Handler
<1>2. ASSUME NEW p \in Procs, Operation(p) PROVE ProcessTypes'
  <2>1. CASE Create_Begin(p) BY <2>1 DEF Create_Begin, procvars, ProcessTypes, TypeInv
  <2>2. CASE Create_NoPort(p) BY <2>2 DEF Create_NoPort, procvars, ProcessTypes, TypeInv
  <2>3. CASE Create_Insert(p) BY <2>3 DEF Create_Insert, procvars, ProcessTypes, TypeInv
  <2>4. CASE Pushing(p)
    <3>1. /\ UNCHANGED <<procvars, createMu, raced>> /\ (PushEnds(p) \/ PushStays(p))
      BY <2>4, PushFacts
    <3>2. open' \subseteq open BY <3>1 DEF PushEnds, PushStays
    <3>3. \/ UNCHANGED budget
          \/ budget.stalls > 0 /\ budget' = [budget EXCEPT !.stalls = budget.stalls - 1]
      BY <3>1 DEF PushEnds, PushStays
    <3>4. budget' \in [requests : 0..MaxRequests, exits : 0..MaxExits,
                       shutdowns : 0..MaxShutdowns, failures : 0..MaxFailures,
                       stalls : 0..MaxStalls]
      BY <3>3, ConstantsAssumption DEF ProcessTypes, TypeInv
    <3> QED BY <3>1, <3>2, <3>4 DEF procvars, ProcessTypes, TypeInv
  <2>5. CASE Sync_Copy(p) \/ Sync_List(p) \/ Sync_Close(p) \/ Sync_Closed(p) \/ Sync_Finish(p)
             \/ Create_Listen(p)
    BY <1>0, <2>5 DEF Sync_Copy, Sync_List, Sync_Close, Sync_Closed, Sync_Finish, Create_Listen,
        procvars, nodevars, tunnelvars
  <2> QED BY <1>2, <2>1, <2>2, <2>3, <2>4, <2>5 DEF Operation
<1>3. ASSUME NEW a \in Admins, Request(a) PROVE ProcessTypes'
  <2>1. ASSUME NEW name \in Names, Resync(a, name) PROVE ProcessTypes'
    BY <2>1, ConstantsAssumption
      DEF Resync, ProcessTypes, TypeInv, BeginRequest, Overlap, procvars
  <2>2. ASSUME NEW name \in Names, Issue(a, name) PROVE ProcessTypes'
    BY <2>2, ConstantsAssumption
      DEF Issue, ProcessTypes, TypeInv, BeginRequest, Overlap, procvars
  <2>3. ASSUME NEW name \in Names, Delete(a, name) PROVE ProcessTypes'
    BY <2>3, ConstantsAssumption
      DEF Delete, ProcessTypes, TypeInv, BeginRequest, Overlap, procvars
  <2>4. ASSUME NEW t \in tunnels, Reassign(a, t) PROVE ProcessTypes'
    <3>1. t.name \in Names BY DEF TypeInv, TunnelTypes, Tunnel
    <3> QED BY <2>4, <3>1, ConstantsAssumption
        DEF Reassign, ProcessTypes, TypeInv, BeginRequest, Overlap, procvars
  <2>5. CASE Issue_Close(a) BY <2>5 DEF Issue_Close, procvars, ProcessTypes, TypeInv
  <2>6. CASE Releasing(a)
    <3>1. /\ UNCHANGED <<procvars, createMu, raced, budget>> /\ open' \subseteq open
      BY <2>6 DEF Releasing, Delete_Control, Delete_Close, Delete_Finish
    <3> QED BY <3>1 DEF procvars, ProcessTypes, TypeInv
  <2>7. CASE Reassign_Close(a)
    BY <1>0, <2>7 DEF Reassign_Close, procvars, nodevars, tunnelvars
  <2> QED BY <1>3, <2>1, <2>2, <2>3, <2>4, <2>5, <2>6, <2>7 DEF Request
<1>4. ASSUME Process PROVE ProcessTypes'
  <2>1. ASSUME NEW t \in tunnels, Listener_Fails(t) PROVE ProcessTypes'
    <3>1. t.name \in Names BY DEF TypeInv, TunnelTypes, Tunnel
    <3> QED
      BY <2>1, <3>1, ConstantsAssumption
      DEF Listener_Fails, ProcessTypes, TypeInv, procvars
  <2>2. CASE Shutdown BY <2>2, ConstantsAssumption DEF Shutdown, ProcessTypes, TypeInv
  <2>3. CASE Shutdown_CloseControls
    BY <2>3 DEF Shutdown_CloseControls, procvars, ProcessTypes, TypeInv
  <2>4. CASE Exit
    <3>1. budget' \in [requests : 0..MaxRequests, exits : 0..MaxExits,
                       shutdowns : 0..MaxShutdowns, failures : 0..MaxFailures,
                       stalls : 0..MaxStalls]
      <4>1. budget' = [budget EXCEPT !.exits = budget.exits - 1] /\ budget.exits > 0
        BY <2>4 DEF Exit
      <4> QED BY <4>1, ConstantsAssumption DEF ProcessTypes, TypeInv
    <3> QED BY <2>4, <3>1 DEF Exit, ProcessTypes, TypeInv
  <2>5. CASE Restart BY <2>5 DEF Restart, procvars, ProcessTypes, TypeInv
  <2>6. CASE RestoreTunnel
    BY <2>6 DEF RestoreTunnel, RestoreOne, RestoreFailed, ProcessTypes, TypeInv
  <2>7. CASE Serve BY <2>7 DEF Serve, procvars, ProcessTypes, TypeInv
  <2>8. ASSUME NEW t \in tunnels, Shutdown_CloseTunnel(t) PROVE ProcessTypes'
    BY <1>0, <2>8 DEF Shutdown_CloseTunnel, procvars, nodevars, tunnelvars
  <2>9. CASE PeriodicSave
    BY <1>0, <2>9 DEF PeriodicSave, procvars, nodevars, tunnelvars
  <2> QED BY <1>4, <2>1, <2>2, <2>3, <2>4, <2>5, <2>6, <2>7, <2>8, <2>9 DEF Process
<1>5. CASE UNCHANGED vars BY <1>0, <1>5 DEF vars
<1> QED BY <1>1, <1>2, <1>3, <1>4, <1>5 DEF Next

(* A step of a goroutine changes its own place and locals only.            *)
LEMMA LocalUpdate ==
    ASSUME LocalTypes, NEW p \in Procs, NEW v \in Places, NEW r \in Local,
           pc' = [pc EXCEPT ![p] = v], l' = [l EXCEPT ![p] = r], LocalAt(p, v, r)
    PROVE  LocalTypes'
<1>1. pc' \in [Procs -> Places] /\ l' \in [Procs -> Local] BY DEF LocalTypes
<1>2. \A x \in Procs : LocalAt(x, pc'[x], l'[x]) BY DEF LocalTypes, LocalInv
<1> QED BY <1>1, <1>2 DEF LocalTypes, LocalInv

LEMMA EndOpTypes ==
    ASSUME LocalTypes, NEW p \in Procs, pc[p] \notin {"idle", "done"}, EndOp(p),
           pc' = [pc EXCEPT ![p] = Home(p)]
    PROVE  LocalTypes'
<1> DEFINE r == IF p \in Conns THEN [NoLocal EXCEPT !.name = l[p].name, !.node = l[p].node]
                ELSE NoLocal
<1>1. l[p] \in Local BY DEF LocalTypes
<1>2. r \in Local BY <1>1, FreshFacts DEF NoLocal, Local
<1>3. Home(p) \in Places /\ Home(p) \in Resting BY DEF Home, Places, Resting
<1>4. LocalAt(p, Home(p), r)
  BY <1>1, <1>3 DEF LocalTypes, LocalInv, LocalAt, NoLocal, Resting, Home
<1>5. l' = [l EXCEPT ![p] = r] BY DEF EndOp
<1> QED BY <1>2, <1>3, <1>4, <1>5, LocalUpdate

(* Closing the next tunnel of a list strikes it off and nothing else.      *)
LEMMA CloseNextFacts ==
    ASSUME LocalTypes, NEW p \in Procs, NEW t \in l[p].ex, CloseNext(p, t)
    PROVE  /\ Close({t}) /\ l' \in [Procs -> Local]
           /\ l' = [l EXCEPT ![p] = [l[p] EXCEPT !.ex = l[p].ex \ {t}]]
           /\ \A x \in Procs \ {p} : l'[x] = l[x]
           /\ l'[p].ex = l[p].ex \ {t}
           /\ l'[p].op = l[p].op /\ l'[p].name = l[p].name /\ l'[p].node = l[p].node
           /\ l'[p].obj = l[p].obj /\ l'[p].ps = l[p].ps /\ l'[p].old = l[p].old
           /\ l'[p].miss = l[p].miss /\ l'[p].err = l[p].err /\ l'[p].cur = l[p].cur
           /\ l'[p].cand = l[p].cand /\ l'[p].proto = l[p].proto
<1> DEFINE r == [l[p] EXCEPT !.ex = l[p].ex \ {t}]
<1>1. l[p] \in Local /\ l \in [Procs -> Local] BY DEF LocalTypes
<1>2. r \in Local BY <1>1 DEF Local
<1>3. l' = [l EXCEPT ![p] = r] BY <1>1 DEF CloseNext, Local
<1>4. l'[p] = r BY <1>1, <1>3
<1>5. l' \in [Procs -> Local] /\ \A x \in Procs \ {p} : l'[x] = l[x]
  <2> HIDE DEF r
  <2> QED BY <1>1, <1>2, <1>3
<1> QED BY <1>1, <1>3, <1>4, <1>5 DEF CloseNext, Local

LEMMA CloseNextTypes ==
    ASSUME LocalTypes, NEW p \in Procs, pc[p] \notin Resting \cup {"listen", "insert"},
           NEW t \in l[p].ex, CloseNext(p, t), UNCHANGED pc
    PROVE  LocalTypes'
<1>1. l' \in [Procs -> Local] BY CloseNextFacts
<1>2. \A x \in Procs \ {p} : LocalAt(x, pc'[x], l'[x])
  BY CloseNextFacts DEF LocalTypes, LocalInv
<1>3. LocalAt(p, pc'[p], l'[p]) BY CloseNextFacts DEF LocalTypes, LocalInv, LocalAt
<1> QED BY <1>1, <1>2, <1>3 DEF LocalTypes, LocalInv

LEMMA CreateFailedTypes ==
    ASSUME LocalTypes, NEW p \in Procs, pc[p] \in {"create", "listen"}, NEW preset,
           CreateFailed(p, preset)
    PROVE  LocalTypes'
<1>1. CASE l[p].op = "reassign" BY <1>1, EndOpTypes DEF CreateFailed
<1>2. CASE l[p].op # "reassign"
  <2> DEFINE r == [l[p] EXCEPT !.miss = @ \ {preset}, !.err = TRUE, !.cand = {}, !.proto = None]
  <2>1. l[p] \in Local BY DEF LocalTypes
  <2>2. r \in Local BY <2>1 DEF Local
  <2>3. LocalAt(p, "create", r)
    BY <2>1 DEF LocalTypes, LocalInv, LocalAt, Local, Resting
  <2>4. pc' = [pc EXCEPT ![p] = "create"] /\ l' = [l EXCEPT ![p] = r]
    BY <1>2, <2>1 DEF CreateFailed, LocalTypes, Local
  <2> QED BY <2>2, <2>3, <2>4, LocalUpdate DEF Places
<1> QED BY <1>1, <1>2

(* Where the goroutines are.                                               *)
LEMMA LocalTypesStep == TypeInv /\ [Next]_vars => LocalTypes'
<1> SUFFICES ASSUME TypeInv, [Next]_vars PROVE LocalTypes'
  OBVIOUS
<1>0. ASSUME UNCHANGED <<pc, l>> PROVE LocalTypes'
  BY <1>0 DEF TypeInv, LocalTypes, LocalInv, LocalAt
<1>1. ASSUME NEW c \in Conns, Handler(c) PROVE LocalTypes'
  <2>1. ASSUME NEW name \in Names, NEW tok \in 1..issued, NEW ps \in Registrations,
               Register_Check(c, name, tok, ps)
       PROVE  LocalTypes'
    <3>1. c \in Procs /\ l[c] \in Local /\ LocalAt(c, pc[c], l[c])
      BY DEF TypeInv, LocalTypes, LocalInv, Procs
    <3>2. CASE nodes[name] # 0 /\ node[nodes[name]].tok = tok /\ DOMAIN ps # {}
      <4> DEFINE r == [NoLocal EXCEPT !.op = "register", !.name = name, !.node = nodes[name],
                                      !.ps = ps]
      <4>1. nodes[name] \in NodeObjs /\ ps \in PresetTables
        BY <3>2, PresetFacts DEF TypeInv, NodeTypes
      <4>2. r \in Local BY <4>1, FreshFacts DEF NoLocal, Local
      <4>3. LocalAt(c, "checked", r) BY <4>1 DEF LocalAt, NoLocal
      <4>4. pc' = [pc EXCEPT ![c] = "checked"] /\ l' = [l EXCEPT ![c] = r]
        BY <2>1, <3>2 DEF Register_Check
      <4> QED BY <3>1, <4>2, <4>3, <4>4, LocalUpdate DEF TypeInv, Places
    <3>3. CASE ~(nodes[name] # 0 /\ node[nodes[name]].tok = tok /\ DOMAIN ps # {})
      <4>1. pc' = [pc EXCEPT ![c] = "done"] /\ l' = [l EXCEPT ![c] = l[c]]
        BY <2>1, <3>3 DEF Register_Check, TypeInv, LocalTypes
      <4>2. LocalAt(c, "done", l[c]) BY <3>1 DEF LocalAt, Resting
      <4> QED BY <3>1, <4>1, <4>2, LocalUpdate DEF TypeInv, Places
    <3> QED BY <3>2, <3>3
  <2>2. CASE Register_Update(c)
    <3> DEFINE r == [l[c] EXCEPT !.old = node[l[c].node].conn, !.ps = NoPresets]
    <3>1. /\ c \in Procs /\ l[c] \in Local
          /\ LocalAt(c, pc[c], l[c])
      BY DEF TypeInv, LocalTypes, LocalInv, Procs
    <3>2. node[l[c].node].conn \in Conns \cup {None}
      BY <2>2, <3>1
      DEF Register_Update, Step, BeginRequest, TypeInv, NodeTypes, NodeRecord, LocalAt
    <3>3. r \in Local BY <3>1, <3>2, FreshFacts, PresetFacts DEF Local
    <3>4. LocalAt(c, "respond", r)
      BY <2>2, <3>1, <3>2 DEF Register_Update, Step, BeginRequest, LocalAt, Local, Resting
    <3>5. pc' = [pc EXCEPT ![c] = "respond"] /\ l' = [l EXCEPT ![c] = r]
      BY <2>2, <3>1, <3>2
      DEF Register_Update, Step, BeginRequest, TypeInv, LocalTypes, Local
    <3> QED BY <3>1, <3>3, <3>4, <3>5, LocalUpdate DEF TypeInv, Places
  <2>3. CASE Register_Respond(c)
    <3> DEFINE r == [l[c] EXCEPT !.old = None]
    <3>1. /\ c \in Procs /\ l[c] \in Local
          /\ LocalAt(c, pc[c], l[c])
      BY DEF TypeInv, LocalTypes, LocalInv, Procs
    <3>2. r \in Local BY <3>1, FreshFacts, PresetFacts DEF Local
    <3>3. LocalAt(c, "sync", r)
      BY <2>3, <3>1 DEF Register_Respond, Step, BeginRequest, LocalAt, Local, Resting
    <3>4. pc' = [pc EXCEPT ![c] = "sync"] /\ l' = [l EXCEPT ![c] = r]
      BY <2>3, <3>1 DEF Register_Respond, Step, BeginRequest, TypeInv, LocalTypes, Local
    <3> QED BY <3>1, <3>2, <3>3, <3>4, LocalUpdate DEF TypeInv, Places
  <2>4. CASE Register_RespondFails(c)
    <3> DEFINE r == NoLocal
    <3>1. /\ c \in Procs /\ l[c] \in Local
          /\ LocalAt(c, pc[c], l[c])
      BY DEF TypeInv, LocalTypes, LocalInv, Procs
    <3>2. r \in Local BY <3>1, FreshFacts, PresetFacts DEF Local, NoLocal
    <3>3. LocalAt(c, "done", r)
      BY <2>4, <3>1
      DEF Register_RespondFails, Step, BeginRequest, LocalAt, Local, Resting, NoLocal
    <3>4. pc' = [pc EXCEPT ![c] = "done"] /\ l' = [l EXCEPT ![c] = r]
      BY <2>4, <3>1
      DEF Register_RespondFails, Step, BeginRequest, TypeInv, LocalTypes, Local
    <3> QED BY <3>1, <3>2, <3>3, <3>4, LocalUpdate DEF TypeInv, Places
  <2>5. CASE ControlLoop_Exit(c)
    <3> DEFINE r == NoLocal
    <3>1. /\ c \in Procs /\ l[c] \in Local
          /\ LocalAt(c, pc[c], l[c])
      BY DEF TypeInv, LocalTypes, LocalInv, Procs
    <3>2. r \in Local BY <3>1, FreshFacts, PresetFacts DEF Local, NoLocal
    <3>3. LocalAt(c, "done", r)
      BY <2>5, <3>1
      DEF ControlLoop_Exit, Step, BeginRequest, LocalAt, Local, Resting, NoLocal
    <3>4. pc' = [pc EXCEPT ![c] = "done"] /\ l' = [l EXCEPT ![c] = r]
      BY <2>5, <3>1 DEF ControlLoop_Exit, Step, BeginRequest, TypeInv, LocalTypes, Local
    <3> QED BY <3>1, <3>2, <3>3, <3>4, LocalUpdate DEF TypeInv, Places
  <2> QED BY <1>1, <2>1, <2>2, <2>3, <2>4, <2>5 DEF Handler
<1>2. ASSUME NEW p \in Procs, Operation(p) PROVE LocalTypes'
  <2>1. CASE Sync_Copy(p)
    <3>1. l[p] \in Local /\ LocalAt(p, pc[p], l[p]) /\ l[p].name \in Names
      BY <2>1 DEF TypeInv, LocalTypes, LocalInv, LocalAt, Sync_Copy, Resting
    <3> DEFINE x == nodes[l[p].name]
               r == [l[p] EXCEPT !.obj = x, !.ps = node[x].presets]
    <3>2. CASE x = 0
      <4>1. pc[p] = "sync" /\ pc' = [pc EXCEPT ![p] = Home(p)] /\ EndOp(p)
        BY <2>1, <3>2 DEF Sync_Copy
      <4> QED BY <4>1, EndOpTypes DEF TypeInv
    <3>3. CASE x # 0
      <4>1. x \in NodeObjs /\ node[x].presets \in PresetTables
        BY <3>1, <3>3 DEF TypeInv, NodeTypes, NodeRecord
      <4>2. r \in Local BY <3>1, <4>1 DEF Local
      <4>3. LocalAt(p, "list", r) BY <2>1, <3>1 DEF Sync_Copy, LocalAt, Local, Resting
      <4>4. pc' = [pc EXCEPT ![p] = "list"] /\ l' = [l EXCEPT ![p] = r]
        BY <2>1, <3>1, <3>3 DEF Sync_Copy, TypeInv, LocalTypes, Local
      <4> QED BY <4>2, <4>3, <4>4, LocalUpdate DEF TypeInv, Places
    <3> QED BY <3>2, <3>3
  <2>2. CASE Sync_List(p)
    <3>1. l[p] \in Local /\ LocalAt(p, pc[p], l[p])
      BY DEF TypeInv, LocalTypes, LocalInv
    <3>2. PICK ex \in SUBSET Tunnel, ms \in SUBSET Presets :
            l' = [l EXCEPT ![p].ex = ex, ![p].miss = ms]
      <4>1. l[p].ps \in PresetTables BY <3>1 DEF Local
      <4>2. DOMAIN l[p].ps \subseteq Presets BY <4>1, PresetFacts
      <4> QED BY <2>2, <4>2 DEF Sync_List, TunnelsOf, TypeInv, TunnelTypes
    <3> DEFINE r == [l[p] EXCEPT !.ex = ex, !.miss = ms]
    <3>3. r \in Local BY <3>1 DEF Local
    <3>4. LocalAt(p, "close", r)
      BY <2>2, <3>1 DEF Sync_List, Step, LocalAt, Local, Resting
    <3>5. pc' = [pc EXCEPT ![p] = "close"] /\ l' = [l EXCEPT ![p] = r]
      BY <2>2, <3>1, <3>2 DEF Sync_List, Step, TypeInv, LocalTypes, Local
    <3> QED BY <3>3, <3>4, <3>5, LocalUpdate DEF TypeInv, Places
  <2>3. CASE Sync_Close(p) BY <2>3, CloseNextTypes DEF Sync_Close, Resting, TypeInv
  <2>10. CASE Sync_Closed(p)
    <3> DEFINE r == [l[p] EXCEPT !.ps = NoPresets]
    <3>1. l[p] \in Local /\ LocalAt(p, pc[p], l[p]) BY DEF TypeInv, LocalTypes, LocalInv
    <3>2. r \in Local BY <3>1, PresetFacts DEF Local
    <3>3. LocalAt(p, "create", r)
      BY <2>10, <3>1 DEF Sync_Closed, Step, LocalAt, Local, Resting
    <3>4. pc' = [pc EXCEPT ![p] = "create"] /\ l' = [l EXCEPT ![p] = r]
      BY <2>10, <3>1 DEF Sync_Closed, Step, TypeInv, LocalTypes, Local
    <3>5. "create" \in Places BY DEF Places
    <3> HIDE DEF r
    <3> QED BY <3>2, <3>3, <3>4, <3>5, LocalUpdate DEF TypeInv
  <2>4. CASE Sync_Finish(p)
    <3>1. l[p] \in Local /\ LocalAt(p, pc[p], l[p]) BY DEF TypeInv, LocalTypes, LocalInv
    <3>2. LocalAt(p, "push", l[p]) BY <2>4, <3>1 DEF Sync_Finish, LocalAt, Resting
    <3>3. pc' = [pc EXCEPT ![p] = "push"] /\ l' = [l EXCEPT ![p] = l[p]]
      BY <2>4 DEF Sync_Finish, TypeInv, LocalTypes
    <3>4. "push" \in Places BY DEF Places
    <3> QED BY <3>1, <3>2, <3>3, <3>4, LocalUpdate DEF TypeInv
  <2>5. CASE Create_Begin(p)
    <3>1. l[p] \in Local /\ LocalAt(p, pc[p], l[p]) /\ l[p].name \in Names
      BY <2>5 DEF TypeInv, LocalTypes, LocalInv, LocalAt, Create_Begin, Resting
    <3> DEFINE preset == Min(l[p].miss)
               x == nodes[l[p].name]
               free == Ports \ DOMAIN ports
               r == [l[p] EXCEPT !.cand = free, !.proto = node[x].presets[preset]]
    <3>2. CASE CreateFailed(p, preset)
      BY <2>5, <3>2, CreateFailedTypes DEF Create_Begin, TypeInv
    <3>3. CASE ~CreateFailed(p, preset)
      <4>1. /\ x # 0 /\ preset \in DOMAIN node[x].presets
            /\ pc' = [pc EXCEPT ![p] = "listen"]
            /\ l' = [l EXCEPT ![p].cand = free, ![p].proto = node[x].presets[preset]]
        BY <2>5, <3>3 DEF Create_Begin
      <4>2. x \in NodeObjs BY <3>1, <4>1 DEF TypeInv, NodeTypes
      <4>3. node[x].presets \in PresetTables BY <4>2 DEF TypeInv, NodeTypes, NodeRecord
      <4>4. node[x].presets[preset] \in Protocols BY <4>1, <4>3, PresetFacts
      <4>5. r \in Local BY <3>1, <4>4 DEF Local
      <4>6. LocalAt(p, "listen", r)
        BY <2>5, <3>1, <4>4 DEF Create_Begin, LocalAt, Local, Resting
      <4>7. l' = [l EXCEPT ![p] = r] BY <3>1, <4>1 DEF TypeInv, LocalTypes, Local
      <4> QED BY <4>1, <4>5, <4>6, <4>7, LocalUpdate DEF TypeInv, Places
    <3> QED BY <3>2, <3>3
  <2>6. CASE Create_Listen(p)
    <3>1. l[p] \in Local /\ LocalAt(p, pc[p], l[p])
      BY DEF TypeInv, LocalTypes, LocalInv
    <3>2. PICK q \in l[p].cand : l' = [l EXCEPT ![p].cand = {q}]
      BY <2>6 DEF Create_Listen, Listenable
    <3> DEFINE r == [l[p] EXCEPT !.cand = {q}]
    <3>3. r \in Local BY <3>1 DEF Local
    <3>4. LocalAt(p, "insert", r)
      BY <2>6, <3>1 DEF Create_Listen, Step, LocalAt, Local, Resting
    <3>5. pc' = [pc EXCEPT ![p] = "insert"] /\ l' = [l EXCEPT ![p] = r]
      BY <2>6, <3>1, <3>2 DEF Create_Listen, Step, TypeInv, LocalTypes, Local
    <3> QED BY <3>3, <3>4, <3>5, LocalUpdate DEF TypeInv, Places
  <2>7. CASE Create_NoPort(p) BY <2>7, CreateFailedTypes DEF Create_NoPort, TypeInv
  <2>8. CASE Create_Insert(p)
    <3> DEFINE r == [l[p] EXCEPT !.miss = l[p].miss \ {Min(l[p].miss)}, !.cand = {},
                                 !.proto = None]
    <3>1. /\ p \in Procs /\ l[p] \in Local
          /\ LocalAt(p, pc[p], l[p])
      BY DEF TypeInv, LocalTypes, LocalInv, Procs
    <3>2. r \in Local BY <3>1, FreshFacts, PresetFacts DEF Local
    <3>3. LocalAt(p, IF l[p].op = "reassign" THEN "swap" ELSE "create", r)
      BY <2>8, <3>1 DEF Create_Insert, Step, BeginRequest, LocalAt, Local, Resting
    <3>4. pc' = [pc EXCEPT ![p] = IF l[p].op = "reassign" THEN "swap" ELSE "create"]
          /\ l' = [l EXCEPT ![p] = r]
      BY <2>8, <3>1 DEF Create_Insert, Step, BeginRequest, TypeInv, LocalTypes, Local
    <3> QED BY <3>1, <3>2, <3>3, <3>4, LocalUpdate DEF TypeInv, Places
  <2>9. CASE Pushing(p)
    <3>1. pc[p] \in {"push", "send", "write"} /\ (PushEnds(p) \/ PushStays(p))
      BY <2>9, PushFacts
    <3>2. CASE PushEnds(p) BY <3>1, <3>2, EndOpTypes DEF PushEnds, TypeInv
    <3>3. CASE PushStays(p)
      <4>1. PICK at \in {"send", "write"}, x \in NodeObjs, c \in Conns \cup {None} :
              /\ pc' = [pc EXCEPT ![p] = at]
              /\ l' = [l EXCEPT ![p] = Pointed(l[p], x, c)]
        BY <3>3 DEF PushStays
      <4> DEFINE r == Pointed(l[p], x, c)
      <4>2. l[p] \in Local /\ LocalAt(p, pc[p], l[p]) BY DEF TypeInv, LocalTypes, LocalInv
      <4>3. /\ r \in Local /\ r.name = l[p].name /\ r.node = l[p].node /\ r.cur = l[p].cur
            /\ r.op = l[p].op /\ r.miss = l[p].miss /\ r.proto = l[p].proto
        BY <4>2, PointedFacts
      <4>4. LocalAt(p, at, r)
        <5> HIDE DEF r
        <5> QED BY <3>1, <4>2, <4>3 DEF LocalAt, Resting
      <4> QED BY <4>1, <4>3, <4>4, LocalUpdate DEF TypeInv, Places
    <3> QED BY <3>1, <3>2, <3>3
  <2> QED BY <1>2, <2>1, <2>2, <2>3, <2>4, <2>5, <2>6, <2>7, <2>8, <2>9, <2>10 DEF Operation
<1>3. ASSUME NEW a \in Admins, Request(a) PROVE LocalTypes'
  <2>1. ASSUME NEW name \in Names, Resync(a, name) PROVE LocalTypes'
    <3> DEFINE r == [NoLocal EXCEPT !.op = "resync", !.name = name]
    <3>1. /\ a \in Procs /\ l[a] \in Local
          /\ LocalAt(a, pc[a], l[a])
      BY DEF TypeInv, LocalTypes, LocalInv, Procs
    <3>2. r \in Local BY <3>1, FreshFacts, PresetFacts DEF Local, NoLocal
    <3>3. LocalAt(a, "sync", r)
      BY <2>1, <3>1, ConstantsAssumption
      DEF Resync, Step, BeginRequest, LocalAt, Local, Resting, NoLocal
    <3>4. pc' = [pc EXCEPT ![a] = "sync"] /\ l' = [l EXCEPT ![a] = r]
      BY <2>1, <3>1 DEF Resync, Step, BeginRequest, TypeInv, LocalTypes, Local
    <3> QED BY <3>1, <3>2, <3>3, <3>4, LocalUpdate DEF TypeInv, Places
  <2>2. ASSUME NEW name \in Names, Issue(a, name) PROVE LocalTypes'
    <3>1. a \in Procs /\ a \notin Conns /\ pc' = [pc EXCEPT ![a] = "issued"]
      BY <2>2, ConstantsAssumption DEF Issue, BeginRequest, Procs
    <3>2. CASE nodes[name] # 0
      <4> DEFINE r == [NoLocal EXCEPT !.op = "issue", !.name = name,
                                      !.old = node[nodes[name]].conn]
      <4>1. node[nodes[name]].conn \in Conns \cup {None}
        BY <3>2 DEF TypeInv, NodeTypes, NodeRecord
      <4>2. r \in Local BY <4>1, FreshFacts DEF NoLocal, Local
      <4>3. LocalAt(a, "issued", r) BY <3>1 DEF LocalAt, NoLocal
      <4>4. l' = [l EXCEPT ![a] = r] BY <2>2, <3>2 DEF Issue
      <4> QED BY <3>1, <4>2, <4>3, <4>4, LocalUpdate DEF TypeInv, Places
    <3>3. CASE nodes[name] = 0
      <4> DEFINE r == [NoLocal EXCEPT !.op = "issue", !.name = name]
      <4>1. r \in Local BY FreshFacts DEF NoLocal, Local
      <4>2. LocalAt(a, "issued", r) BY <3>1 DEF LocalAt, NoLocal
      <4>3. l' = [l EXCEPT ![a] = r] BY <2>2, <3>3 DEF Issue
      <4> QED BY <3>1, <4>1, <4>2, <4>3, LocalUpdate DEF TypeInv, Places
    <3> QED BY <3>2, <3>3
  <2>3. ASSUME NEW name \in Names, Delete(a, name) PROVE LocalTypes'
    <3> DEFINE r == [NoLocal EXCEPT !.op = "delete", !.name = name, !.obj = nodes[name],
                                    !.ex = TunnelsOf(name)]
    <3>1. /\ a \in Procs /\ l[a] \in Local
          /\ LocalAt(a, pc[a], l[a])
      BY DEF TypeInv, LocalTypes, LocalInv, Procs
    <3>2. nodes[name] \in NodeObjs \cup {0} /\ TunnelsOf(name) \subseteq Tunnel
      BY <2>3, <3>1
      DEF Delete, Step, BeginRequest, TypeInv, NodeTypes, TunnelTypes, TunnelsOf
    <3>3. r \in Local
      <4>1. NoLocal \in Local BY FreshFacts
      <4>2. nodes[name] \in NodeObjs \cup {0} /\ TunnelsOf(name) \in SUBSET Tunnel
        BY <3>2
      <4> QED BY ZenonT(30), <4>1, <4>2 DEF Local
    <3>4. LocalAt(a, "deleted", r)
      BY <2>3, <3>1, <3>2, ConstantsAssumption
      DEF Delete, Step, BeginRequest, LocalAt, Local, Resting, NoLocal
    <3>5. pc' = [pc EXCEPT ![a] = "deleted"] /\ l' = [l EXCEPT ![a] = r]
      BY <2>3, <3>1, <3>2 DEF Delete, Step, BeginRequest, TypeInv, LocalTypes, Local
    <3> QED BY <3>1, <3>3, <3>4, <3>5, LocalUpdate DEF TypeInv, Places
  <2>4. ASSUME NEW t \in tunnels, Reassign(a, t) PROVE LocalTypes'
    <3> DEFINE r == [NoLocal EXCEPT !.op = "reassign", !.name = t.name, !.miss = {t.preset},
                                    !.cur = {t}]
    <3>1. /\ a \in Procs /\ l[a] \in Local
          /\ LocalAt(a, pc[a], l[a])
      BY DEF TypeInv, LocalTypes, LocalInv, Procs
    <3>2. t \in Tunnel /\ t.name \in Names /\ t.preset \in Presets
      BY <2>4, <3>1 DEF Reassign, Step, BeginRequest, TypeInv, TunnelTypes, Tunnel
    <3>3. r \in Local
      <4>1. NoLocal \in Local BY FreshFacts
      <4>2. /\ t.name \in Names \cup {None}
            /\ {t.preset} \in SUBSET Presets /\ {t} \in SUBSET Tunnel
        BY <3>2
      <4> QED BY ZenonT(30), <4>1, <4>2 DEF Local
    <3>4. LocalAt(a, "create", r)
      BY <2>4, <3>1, <3>2, ConstantsAssumption
      DEF Reassign, Step, BeginRequest, LocalAt, Local, Resting, NoLocal
    <3>5. pc' = [pc EXCEPT ![a] = "create"] /\ l' = [l EXCEPT ![a] = r]
      BY <2>4, <3>1, <3>2 DEF Reassign, Step, BeginRequest, TypeInv, LocalTypes, Local
    <3> QED BY <3>1, <3>3, <3>4, <3>5, LocalUpdate DEF TypeInv, Places
  <2>5. CASE Issue_Close(a)
    <3>1. a \in Procs /\ pc[a] \notin {"idle", "done"}
      BY <2>5 DEF Issue_Close, Step, Procs
    <3>2. pc' = [pc EXCEPT ![a] = Home(a)] /\ EndOp(a)
      BY <2>5, <3>1, ConstantsAssumption DEF Issue_Close, Step, Home
    <3> QED BY <3>1, <3>2, EndOpTypes DEF TypeInv
  <2>6. CASE Releasing(a)
    <3>0. /\ a \in Procs /\ a \notin Conns /\ l[a] \in Local /\ LocalAt(a, pc[a], l[a])
      BY ConstantsAssumption DEF TypeInv, LocalTypes, LocalInv, Procs
    <3>1. CASE Delete_Control(a)
      <4>1. /\ pc[a] = "deleted" /\ pc' = [pc EXCEPT ![a] = "releasing"]
            /\ l' = [l EXCEPT ![a] = l[a]]
        BY <3>1 DEF Delete_Control, Step, TypeInv, LocalTypes
      <4>2. LocalAt(a, "releasing", l[a]) BY <3>0, <4>1 DEF LocalAt, Resting
      <4> QED BY <3>0, <4>1, <4>2, LocalUpdate DEF TypeInv, Places
    <3>2. CASE Delete_Close(a)
      BY <3>0, <3>2, CloseNextTypes DEF Delete_Close, Resting, TypeInv
    <3>3. CASE Delete_Finish(a)
      <4>1. pc[a] = "releasing" /\ pc' = [pc EXCEPT ![a] = Home(a)] /\ EndOp(a)
        BY <3>0, <3>3 DEF Delete_Finish, Step, Home
      <4> QED BY <3>0, <4>1, EndOpTypes DEF TypeInv
    <3> QED BY <2>6, <3>1, <3>2, <3>3 DEF Releasing
  <2>7. CASE Reassign_Close(a)
    <3> DEFINE r == [l[a] EXCEPT !.cur = {}]
    <3>1. /\ a \in Procs /\ l[a] \in Local
          /\ LocalAt(a, pc[a], l[a])
      BY DEF TypeInv, LocalTypes, LocalInv, Procs
    <3>2. r \in Local BY <3>1, FreshFacts, PresetFacts DEF Local
    <3>3. LocalAt(a, "push", r)
      BY <2>7, <3>1, ConstantsAssumption
      DEF Reassign_Close, Step, BeginRequest, LocalAt, Local, Resting
    <3>4. pc' = [pc EXCEPT ![a] = "push"] /\ l' = [l EXCEPT ![a] = r]
      BY <2>7, <3>1 DEF Reassign_Close, Step, BeginRequest, TypeInv, LocalTypes, Local
    <3> QED BY <3>1, <3>2, <3>3, <3>4, LocalUpdate DEF TypeInv, Places
  <2> QED BY <1>3, <2>1, <2>2, <2>3, <2>4, <2>5, <2>6, <2>7 DEF Request
<1>4. ASSUME Process PROVE LocalTypes'
  <2>1. CASE Exit
    <3>1. pc' \in [Procs -> Places] BY <2>1 DEF Exit, Places
    <3>2. l' \in [Procs -> Local] BY <2>1, FreshFacts DEF Exit
    <3>3. \A x \in Procs : LocalAt(x, pc'[x], l'[x])
      BY <2>1 DEF Exit, LocalAt, NoLocal, Resting
    <3> QED BY <3>1, <3>2, <3>3 DEF LocalTypes, LocalInv
  <2>2. ASSUME NEW t \in tunnels, Listener_Fails(t) PROVE LocalTypes'
    BY <1>0, <2>2 DEF Listener_Fails, procvars, nodevars, tunnelvars
  <2>3. ASSUME NEW t \in tunnels, Shutdown_CloseTunnel(t) PROVE LocalTypes'
    BY <1>0, <2>3 DEF Shutdown_CloseTunnel, procvars, nodevars, tunnelvars
  <2>4. CASE PeriodicSave \/ Shutdown \/ Shutdown_CloseControls \/ Restart
             \/ RestoreTunnel \/ Serve
    BY <1>0, <2>4 DEF PeriodicSave, Shutdown, Shutdown_CloseControls, Restart,
        RestoreTunnel, RestoreOne, RestoreFailed, Serve, procvars, nodevars,
        tunnelvars
  <2> QED BY <1>4, <2>1, <2>2, <2>3, <2>4 DEF Process
<1>5. CASE UNCHANGED vars BY <1>0, <1>5 DEF vars
<1> QED BY <1>1, <1>2, <1>3, <1>4, <1>5 DEF Next

LEMMA TypeStep == TypeInv /\ [Next]_vars => TypeInv'
BY NodeTypesStep, TunnelTypesStep, TodoInvStep, FileTypesStep, ProcessTypesStep, LocalTypesStep
   DEF TypeInv

LEMMA TypesHold == Spec => []TypeInv
BY TypeInit, TypeStep, PTL DEF Spec

(* Type correctness of the registry: in particular a restart can always    *)
(* rebuild what a snapshot saved.                                          *)
THEOREM RegistryTypeCorrect == Spec => []TypeOK
BY TypesHold, TypeParts, PTL

-----------------------------------------------------------------------------
(* Control connections.                                                    *)

(* A step of one goroutine that registers no connection: the connections   *)
(* it leaves registered have their handlers.                               *)
LEMMA HandlerKept ==
    ASSUME TypeInv, RegisteredConnHasHandler, NEW p \in Procs,
           \A x \in Procs \ {p} : pc'[x] = pc[x] /\ l'[x] = l[x],
           \A x \in NodeObjs : node'[x].conn \in {node[x].conn, None},
           p \in Conns =>
              \/ pc'[p] \notin {"idle", "checked", "done"} /\ l'[p].node = l[p].node
              \/ \A x \in NodeObjs : node'[x].conn # p
    PROVE  RegisteredConnHasHandler'
BY DEF RegisteredConnHasHandler, TypeInv, NodeTypes, NodeRecord, Procs

LEMMA EndOpKeepsNode ==
    ASSUME LocalTypes, NEW p \in Conns, EndOp(p), pc' = [pc EXCEPT ![p] = Home(p)]
    PROVE  pc'[p] = "loop" /\ l'[p].node = l[p].node
BY DEF LocalTypes, EndOp, Home, NoLocal, Procs

LEMMA CreateFailedKeepsNode ==
    ASSUME LocalTypes, NEW p \in Conns, NEW preset, CreateFailed(p, preset)
    PROVE  pc'[p] \in {"loop", "create"} /\ l'[p].node = l[p].node
<1>1. CASE l[p].op = "reassign" BY <1>1, EndOpKeepsNode DEF CreateFailed
<1>2. CASE l[p].op # "reassign" BY <1>2 DEF CreateFailed, LocalTypes, Local, Procs
<1> QED BY <1>1, <1>2

LEMMA DisconnectedConns ==
    ASSUME NodeTypes, NEW x, NEW c, node' = Disconnected(x, c)
    PROVE  /\ \A y \in NodeObjs : node'[y].conn \in {node[y].conn, None}
           /\ \A y \in NodeObjs :
                   node'[y].conn = c => c = None \/ (y # x /\ node[y].conn = c)
BY DEF Disconnected, NodeTypes, NodeRecord

LEMMA RegisteredStep ==
    TypeInv /\ RegisteredConnHasHandler /\ [Next]_vars => RegisteredConnHasHandler'
<1> SUFFICES ASSUME TypeInv, RegisteredConnHasHandler, [Next]_vars
             PROVE  RegisteredConnHasHandler'
  OBVIOUS
<1>0. ASSUME UNCHANGED <<node, pc, l>> PROVE RegisteredConnHasHandler'
  BY <1>0 DEF RegisteredConnHasHandler
<1>1. ASSUME NEW c \in Conns, Handler(c) PROVE RegisteredConnHasHandler'
  <2>1. ASSUME NEW name \in Names, NEW tok \in 1..issued, NEW ps \in Registrations,
               Register_Check(c, name, tok, ps)
       PROVE  RegisteredConnHasHandler'
    <3>1. c \in Procs /\ \A x \in Procs \ {c} : pc'[x] = pc[x] /\ l'[x] = l[x]
      BY <2>1 DEF Register_Check, TypeInv, LocalTypes, Procs
    <3>2. \A x \in NodeObjs : node[x].conn # c /\ node'[x] = node[x]
      BY <2>1, ConstantsAssumption DEF Register_Check, RegisteredConnHasHandler, nodevars
    <3> QED BY <3>1, <3>2, HandlerKept
  <2>2. CASE Register_Update(c)
    <3> DEFINE x == l[c].node
    <3>1. x \in NodeObjs /\ c \in Procs /\ c # None
      BY <2>2, ConstantsAssumption
      DEF Register_Update, Step, TypeInv, LocalTypes, LocalInv, LocalAt, Procs
    <3>2. pc' = [pc EXCEPT ![c] = "respond"] /\ l'[c].node = x
          /\ \A y \in Procs \ {c} : l'[y] = l[y]
      BY <2>2, <3>1 DEF Register_Update, Step, TypeInv, LocalTypes, Local
    <3>3. \A y \in NodeObjs : node'[y].conn = IF y = x THEN c ELSE node[y].conn
      BY <2>2, <3>1 DEF Register_Update, TypeInv, NodeTypes, NodeRecord
    <3>4. \A y \in NodeObjs : node[y].conn # c
      BY <2>2, <3>1 DEF Register_Update, Step, RegisteredConnHasHandler
    <3> QED BY <3>1, <3>2, <3>3, <3>4
        DEF RegisteredConnHasHandler, TypeInv, LocalTypes, NodeTypes, NodeRecord, Procs
  <2>3. CASE Register_Respond(c)
    <3>1. \A x \in Procs \ {c} : pc'[x] = pc[x] /\ l'[x] = l[x]
      BY <2>3 DEF Register_Respond, Step, TypeInv, LocalTypes
    <3>2. c \in Conns =>
            pc'[c] \notin {"idle", "checked", "done"} /\ l'[c].node = l[c].node
      BY <2>3 DEF Register_Respond, Step, TypeInv, LocalTypes, Local, Procs
    <3>3. \A x \in NodeObjs : node'[x].conn \in {node[x].conn, None}
      BY <2>3 DEF Register_Respond, nodevars, TypeInv, NodeTypes, NodeRecord
    <3> QED BY <2>3, <3>1, <3>2, <3>3, HandlerKept DEF Procs
  <2>4. CASE Register_RespondFails(c)
    <3>1. c \in Procs /\ c # None /\ \A x \in Procs \ {c} : pc'[x] = pc[x] /\ l'[x] = l[x]
      BY <2>4, ConstantsAssumption
      DEF Register_RespondFails, Step, TypeInv, LocalTypes, Procs
    <3>2. node' = Disconnected(l[c].node, c) BY <2>4 DEF Register_RespondFails
    <3>3. \A x \in NodeObjs : node'[x].conn # c
      BY <3>1, <3>2, DisconnectedConns DEF RegisteredConnHasHandler, TypeInv
    <3> QED BY <3>1, <3>2, <3>3, DisconnectedConns, HandlerKept DEF TypeInv
  <2>5. CASE ControlLoop_Exit(c)
    <3>1. c \in Procs /\ c # None /\ \A x \in Procs \ {c} : pc'[x] = pc[x] /\ l'[x] = l[x]
      BY <2>5, ConstantsAssumption DEF ControlLoop_Exit, Step, TypeInv, LocalTypes, Procs
    <3>2. node' = Disconnected(l[c].node, c) BY <2>5 DEF ControlLoop_Exit
    <3>3. \A x \in NodeObjs : node'[x].conn # c
      BY <3>1, <3>2, DisconnectedConns DEF RegisteredConnHasHandler, TypeInv
    <3> QED BY <3>1, <3>2, <3>3, DisconnectedConns, HandlerKept DEF TypeInv
  <2> QED BY <1>1, <2>1, <2>2, <2>3, <2>4, <2>5 DEF Handler
<1>2. ASSUME NEW p \in Procs, Operation(p) PROVE RegisteredConnHasHandler'
  <2>1. CASE Sync_Copy(p)
    <3>1. \A x \in Procs \ {p} : pc'[x] = pc[x] /\ l'[x] = l[x]
      BY <2>1 DEF Sync_Copy, Step, TypeInv, LocalTypes, EndOp
    <3>2. p \in Conns =>
            pc'[p] \notin {"idle", "checked", "done"} /\ l'[p].node = l[p].node
      <4>1. CASE nodes[l[p].name] = 0
        BY <2>1, <4>1, EndOpKeepsNode DEF Sync_Copy, TypeInv
      <4>2. CASE nodes[l[p].name] # 0
        BY <2>1, <4>2 DEF Sync_Copy, TypeInv, LocalTypes, Local
      <4> QED BY <4>1, <4>2
    <3>3. \A x \in NodeObjs : node'[x].conn \in {node[x].conn, None}
      BY <2>1 DEF Sync_Copy, nodevars, TypeInv, NodeTypes, NodeRecord, EndOp
    <3> QED BY <2>1, <3>1, <3>2, <3>3, HandlerKept DEF Procs
  <2>2. CASE Sync_List(p)
    <3>1. \A x \in Procs \ {p} : pc'[x] = pc[x] /\ l'[x] = l[x]
      BY <2>2 DEF Sync_List, Step, TypeInv, LocalTypes
    <3>2. p \in Conns =>
            pc'[p] \notin {"idle", "checked", "done"} /\ l'[p].node = l[p].node
      BY <2>2 DEF Sync_List, Step, TypeInv, LocalTypes, Local, Procs
    <3>3. \A x \in NodeObjs : node'[x].conn \in {node[x].conn, None}
      BY <2>2 DEF Sync_List, nodevars, TypeInv, NodeTypes, NodeRecord
    <3> QED BY <2>2, <3>1, <3>2, <3>3, HandlerKept DEF Procs
  <2>3. CASE Sync_Close(p)
    <3>1. \A x \in Procs \ {p} : pc'[x] = pc[x] /\ l'[x] = l[x]
      BY <2>3, CloseNextFacts DEF Sync_Close, TypeInv
    <3>2. p \in Conns =>
            pc'[p] \notin {"idle", "checked", "done"} /\ l'[p].node = l[p].node
      BY <2>3, CloseNextFacts DEF Sync_Close, TypeInv
    <3>3. \A x \in NodeObjs : node'[x].conn \in {node[x].conn, None}
      BY <2>3 DEF Sync_Close, nodevars, TypeInv, NodeTypes, NodeRecord
    <3> QED BY <2>3, <3>1, <3>2, <3>3, HandlerKept DEF Procs
  <2>10. CASE Sync_Closed(p)
    <3>1. \A x \in Procs \ {p} : pc'[x] = pc[x] /\ l'[x] = l[x]
      BY <2>10 DEF Sync_Closed, Step, TypeInv, LocalTypes
    <3>2. p \in Conns =>
            pc'[p] \notin {"idle", "checked", "done"} /\ l'[p].node = l[p].node
      BY <2>10 DEF Sync_Closed, Step, TypeInv, LocalTypes, Local, Procs
    <3>3. \A x \in NodeObjs : node'[x].conn \in {node[x].conn, None}
      BY <2>10 DEF Sync_Closed, nodevars, TypeInv, NodeTypes, NodeRecord
    <3> QED BY <2>10, <3>1, <3>2, <3>3, HandlerKept DEF Procs
  <2>4. CASE Sync_Finish(p)
    <3>1. \A x \in Procs \ {p} : pc'[x] = pc[x] /\ l'[x] = l[x]
      BY <2>4 DEF Sync_Finish, Step, TypeInv, LocalTypes
    <3>2. p \in Conns =>
            pc'[p] \notin {"idle", "checked", "done"} /\ l'[p].node = l[p].node
      BY <2>4 DEF Sync_Finish, Step, TypeInv, LocalTypes, Local, Procs
    <3>3. \A x \in NodeObjs : node'[x].conn \in {node[x].conn, None}
      BY <2>4 DEF Sync_Finish, nodevars, TypeInv, NodeTypes, NodeRecord
    <3> QED BY <2>4, <3>1, <3>2, <3>3, HandlerKept DEF Procs
  <2>5. CASE Create_Begin(p)
    <3>1. \A x \in Procs \ {p} : pc'[x] = pc[x] /\ l'[x] = l[x]
      BY <2>5 DEF Create_Begin, Step, TypeInv, LocalTypes, CreateFailed, EndOp
    <3>2. p \in Conns =>
            pc'[p] \notin {"idle", "checked", "done"} /\ l'[p].node = l[p].node
      <4>1. CASE CreateFailed(p, Min(l[p].miss))
        BY <4>1, CreateFailedKeepsNode DEF TypeInv
      <4>2. CASE ~CreateFailed(p, Min(l[p].miss))
        BY <2>5, <4>2 DEF Create_Begin, TypeInv, LocalTypes, Local
      <4> QED BY <4>1, <4>2
    <3>3. \A x \in NodeObjs : node'[x].conn \in {node[x].conn, None}
      BY <2>5
      DEF Create_Begin, nodevars, TypeInv, NodeTypes, NodeRecord, CreateFailed, EndOp
    <3> QED BY <2>5, <3>1, <3>2, <3>3, HandlerKept DEF Procs
  <2>6. CASE Create_Listen(p)
    <3>1. \A x \in Procs \ {p} : pc'[x] = pc[x] /\ l'[x] = l[x]
      BY <2>6 DEF Create_Listen, Step, TypeInv, LocalTypes
    <3>2. p \in Conns =>
            pc'[p] \notin {"idle", "checked", "done"} /\ l'[p].node = l[p].node
      BY <2>6 DEF Create_Listen, Step, TypeInv, LocalTypes, Local, Procs
    <3>3. \A x \in NodeObjs : node'[x].conn \in {node[x].conn, None}
      BY <2>6 DEF Create_Listen, nodevars, TypeInv, NodeTypes, NodeRecord
    <3> QED BY <2>6, <3>1, <3>2, <3>3, HandlerKept DEF Procs
  <2>7. CASE Create_NoPort(p)
    <3>1. \A x \in Procs \ {p} : pc'[x] = pc[x] /\ l'[x] = l[x]
      BY <2>7 DEF Create_NoPort, Step, TypeInv, LocalTypes, CreateFailed, EndOp
    <3>2. p \in Conns =>
            pc'[p] \notin {"idle", "checked", "done"} /\ l'[p].node = l[p].node
      BY <2>7, CreateFailedKeepsNode DEF Create_NoPort, TypeInv
    <3>3. \A x \in NodeObjs : node'[x].conn \in {node[x].conn, None}
      BY <2>7
      DEF Create_NoPort, nodevars, TypeInv, NodeTypes, NodeRecord, CreateFailed, EndOp
    <3> QED BY <2>7, <3>1, <3>2, <3>3, HandlerKept DEF Procs
  <2>8. CASE Create_Insert(p)
    <3>1. \A x \in Procs \ {p} : pc'[x] = pc[x] /\ l'[x] = l[x]
      BY <2>8 DEF Create_Insert, Step, TypeInv, LocalTypes
    <3>2. p \in Conns =>
            pc'[p] \notin {"idle", "checked", "done"} /\ l'[p].node = l[p].node
      BY <2>8 DEF Create_Insert, Step, TypeInv, LocalTypes, Local, Procs
    <3>3. \A x \in NodeObjs : node'[x].conn \in {node[x].conn, None}
      BY <2>8 DEF Create_Insert, nodevars, TypeInv, NodeTypes, NodeRecord
    <3> QED BY <2>8, <3>1, <3>2, <3>3, HandlerKept DEF Procs
  <2>9. CASE Pushing(p)
    <3>0. PushEnds(p) \/ PushStays(p) BY <2>9, PushFacts
    <3>1. \A x \in Procs \ {p} : pc'[x] = pc[x] /\ l'[x] = l[x]
      BY <3>0 DEF PushEnds, PushStays, EndOp, TypeInv, LocalTypes
    <3>2. p \in Conns =>
            pc'[p] \notin {"idle", "checked", "done"} /\ l'[p].node = l[p].node
      <4>1. CASE PushEnds(p) BY <4>1, EndOpKeepsNode DEF PushEnds, TypeInv
      <4>2. CASE PushStays(p) BY <4>2, PointedFacts DEF PushStays, TypeInv, LocalTypes
      <4> QED BY <3>0, <4>1, <4>2
    <3>3. \A x \in NodeObjs : node'[x].conn \in {node[x].conn, None}
      BY <3>0, DisconnectedConns DEF PushEnds, PushStays, TypeInv
    <3> QED BY <3>1, <3>2, <3>3, HandlerKept
  <2> QED BY <1>2, <2>1, <2>2, <2>3, <2>4, <2>5, <2>6, <2>7, <2>8, <2>9, <2>10 DEF Operation
<1>3. ASSUME NEW a \in Admins, Request(a) PROVE RegisteredConnHasHandler'
  <2>1. ASSUME NEW name \in Names, Resync(a, name) PROVE RegisteredConnHasHandler'
    <3>1. \A x \in Procs \ {a} : pc'[x] = pc[x] /\ l'[x] = l[x]
      BY <2>1 DEF Resync, Step, TypeInv, LocalTypes, BeginRequest
    <3>2. a \in Conns =>
            pc'[a] \notin {"idle", "checked", "done"} /\ l'[a].node = l[a].node
      BY <2>1, ConstantsAssumption
      DEF Resync, Step, TypeInv, LocalTypes, Local, Procs, BeginRequest
    <3>3. \A x \in NodeObjs : node'[x].conn \in {node[x].conn, None}
      BY <2>1 DEF Resync, nodevars, TypeInv, NodeTypes, NodeRecord, BeginRequest
    <3> QED BY <2>1, <3>1, <3>2, <3>3, HandlerKept DEF Procs
  <2>2. ASSUME NEW name \in Names, Issue(a, name) PROVE RegisteredConnHasHandler'
    <3>1. \A x \in Procs \ {a} : pc'[x] = pc[x] /\ l'[x] = l[x]
      BY <2>2 DEF Issue, BeginRequest, TypeInv, LocalTypes
    <3>2. a \in Procs /\ a \notin Conns BY ConstantsAssumption DEF Procs
    <3>3. \A x \in NodeObjs : node'[x].conn \in {node[x].conn, None}
      <4>1. CASE nodes[name] # 0
        BY <2>2, <4>1 DEF Issue, TypeInv, NodeTypes, NodeRecord
      <4>2. CASE nodes[name] = 0
        <5>1. PICK y \in FreeObjs : node' = [node EXCEPT ![y] = [FreshNode EXCEPT !.tok = issued']]
          BY <2>2, <4>2 DEF Issue
        <5> QED BY <5>1 DEF FreshNode, TypeInv, NodeTypes, NodeRecord
      <4> QED BY <4>1, <4>2
    <3> QED BY <3>1, <3>2, <3>3, HandlerKept
  <2>3. ASSUME NEW name \in Names, Delete(a, name) PROVE RegisteredConnHasHandler'
    <3>1. \A x \in Procs \ {a} : pc'[x] = pc[x] /\ l'[x] = l[x]
      BY <2>3 DEF Delete, Step, TypeInv, LocalTypes, BeginRequest
    <3>2. a \in Conns =>
            pc'[a] \notin {"idle", "checked", "done"} /\ l'[a].node = l[a].node
      BY <2>3, ConstantsAssumption
      DEF Delete, Step, TypeInv, LocalTypes, Local, Procs, BeginRequest
    <3>3. \A x \in NodeObjs : node'[x].conn \in {node[x].conn, None}
      BY <2>3 DEF Delete, nodevars, TypeInv, NodeTypes, NodeRecord, BeginRequest
    <3> QED BY <2>3, <3>1, <3>2, <3>3, HandlerKept DEF Procs
  <2>4. ASSUME NEW t \in tunnels, Reassign(a, t) PROVE RegisteredConnHasHandler'
    <3>1. \A x \in Procs \ {a} : pc'[x] = pc[x] /\ l'[x] = l[x]
      BY <2>4 DEF Reassign, Step, TypeInv, LocalTypes, BeginRequest
    <3>2. a \in Conns =>
            pc'[a] \notin {"idle", "checked", "done"} /\ l'[a].node = l[a].node
      BY <2>4, ConstantsAssumption
      DEF Reassign, Step, TypeInv, LocalTypes, Local, Procs, BeginRequest
    <3>3. \A x \in NodeObjs : node'[x].conn \in {node[x].conn, None}
      BY <2>4 DEF Reassign, nodevars, TypeInv, NodeTypes, NodeRecord, BeginRequest
    <3> QED BY <2>4, <3>1, <3>2, <3>3, HandlerKept DEF Procs
  <2>5. CASE Issue_Close(a)
    <3>1. \A x \in Procs \ {a} : pc'[x] = pc[x] /\ l'[x] = l[x]
      BY <2>5 DEF Issue_Close, Step, TypeInv, LocalTypes, EndOp
    <3>2. a \in Conns =>
            pc'[a] \notin {"idle", "checked", "done"} /\ l'[a].node = l[a].node
      BY <2>5, ConstantsAssumption
      DEF Issue_Close, Step, TypeInv, LocalTypes, Local, Procs, EndOp
    <3>3. \A x \in NodeObjs : node'[x].conn \in {node[x].conn, None}
      BY <2>5 DEF Issue_Close, nodevars, TypeInv, NodeTypes, NodeRecord, EndOp
    <3> QED BY <2>5, <3>1, <3>2, <3>3, HandlerKept DEF Procs
  <2>6. CASE Releasing(a)
    <3>1. \A x \in Procs \ {a} : pc'[x] = pc[x] /\ l'[x] = l[x]
      BY <2>6, CloseNextFacts
      DEF Releasing, Delete_Control, Delete_Close, Delete_Finish, Step, TypeInv,
          LocalTypes, EndOp, Procs
    <3>2. a \in Conns =>
            pc'[a] \notin {"idle", "checked", "done"} /\ l'[a].node = l[a].node
      BY <2>6, ConstantsAssumption
      DEF Releasing, Delete_Control, Delete_Close, Delete_Finish, Step, TypeInv,
          LocalTypes, Local, Procs, EndOp
    <3>3. \A x \in NodeObjs : node'[x].conn \in {node[x].conn, None}
      BY <2>6
      DEF Releasing, Delete_Control, Delete_Close, Delete_Finish, nodevars, TypeInv,
          NodeTypes, NodeRecord, EndOp
    <3> QED BY <2>6, <3>1, <3>2, <3>3, HandlerKept DEF Procs
  <2>7. CASE Reassign_Close(a)
    <3>1. \A x \in Procs \ {a} : pc'[x] = pc[x] /\ l'[x] = l[x]
      BY <2>7 DEF Reassign_Close, Step, TypeInv, LocalTypes, EndOp
    <3>2. a \in Conns =>
            pc'[a] \notin {"idle", "checked", "done"} /\ l'[a].node = l[a].node
      BY <2>7, ConstantsAssumption
      DEF Reassign_Close, Step, TypeInv, LocalTypes, Local, Procs, EndOp
    <3>3. \A x \in NodeObjs : node'[x].conn \in {node[x].conn, None}
      BY <2>7 DEF Reassign_Close, nodevars, TypeInv, NodeTypes, NodeRecord, EndOp
    <3> QED BY <2>7, <3>1, <3>2, <3>3, HandlerKept DEF Procs
  <2> QED BY <1>3, <2>1, <2>2, <2>3, <2>4, <2>5, <2>6, <2>7 DEF Request
<1>4. ASSUME Process PROVE RegisteredConnHasHandler'
  <2>1. CASE Exit BY <2>1 DEF Exit, FreshNode, RegisteredConnHasHandler
  <2>2. CASE Restart BY <2>2 DEF Restart, FreshNode, RegisteredConnHasHandler
  <2>3. CASE RestoreTunnel
    <3>1. \A x \in NodeObjs : node'[x].conn = node[x].conn
      BY <2>3
      DEF RestoreTunnel, RestoreOne, RestoreFailed, nodevars, TypeInv, NodeTypes,
          NodeRecord
    <3>2. UNCHANGED <<pc, l>> BY <2>3 DEF RestoreTunnel, RestoreOne, RestoreFailed
    <3> QED BY <3>1, <3>2 DEF RegisteredConnHasHandler
  <2>4. ASSUME NEW t \in tunnels, Listener_Fails(t) PROVE RegisteredConnHasHandler'
    BY <1>0, <2>4 DEF Listener_Fails, procvars, nodevars, tunnelvars
  <2>5. ASSUME NEW t \in tunnels, Shutdown_CloseTunnel(t)
       PROVE  RegisteredConnHasHandler'
    BY <1>0, <2>5 DEF Shutdown_CloseTunnel, procvars, nodevars, tunnelvars
  <2>6. CASE PeriodicSave \/ Shutdown \/ Shutdown_CloseControls \/ Serve
    BY <1>0, <2>6 DEF PeriodicSave, Shutdown, Shutdown_CloseControls, Serve, procvars,
        nodevars, tunnelvars
  <2> QED BY <1>4, <2>1, <2>2, <2>3, <2>4, <2>5, <2>6 DEF Process
<1>5. CASE UNCHANGED vars BY <1>0, <1>5 DEF vars
<1> QED BY <1>1, <1>2, <1>3, <1>4, <1>5 DEF Next

(* A node is shown as connected only while the handler of that connection  *)
(* runs: a handler that ends late, after a newer registration took the     *)
(* node over, neither disconnects the newer one nor leaves itself          *)
(* registered.                                                             *)
THEOREM RegisteredConnectionsHaveHandlers == Spec => []RegisteredConnHasHandler
<1>1. Init => RegisteredConnHasHandler BY DEF Init, FreshNode, RegisteredConnHasHandler
<1>2. TypeInv /\ RegisteredConnHasHandler /\ [Next]_vars => RegisteredConnHasHandler'
  BY RegisteredStep
<1> QED BY <1>1, <1>2, TypesHold, PTL DEF Spec

-----------------------------------------------------------------------------
(* Tunnels, ports and the state file.                                      *)

(* A goroutine moves by itself.                                            *)
Alone(p) == \A x \in Procs \ {p} : pc'[x] = pc[x] /\ l'[x] = l[x]

LEMMA OneMoves ==
    ASSUME TypeInv
    PROVE  /\ \A c \in Conns : Handler(c) => Alone(c)
           /\ \A p \in Procs : Operation(p) => Alone(p)
           /\ \A a \in Admins : Request(a) => Alone(a)
<1> USE DEF TypeInv, LocalTypes, Alone, Step, EndOp, CreateFailed, BeginRequest
<1>1. ASSUME NEW c \in Conns, Handler(c) PROVE Alone(c)
  BY <1>1 DEF Handler, Register_Check, Register_Update, Register_Respond,
              Register_RespondFails, ControlLoop_Exit
<1>2. ASSUME NEW p \in Procs, Operation(p) PROVE Alone(p)
  <2>1. CASE Sync_Copy(p) \/ Sync_List(p) \/ Sync_Closed(p) \/ Sync_Finish(p)
    BY <2>1 DEF Sync_Copy, Sync_List, Sync_Closed, Sync_Finish
  <2>5. CASE Sync_Close(p) BY <2>5, CloseNextFacts DEF Sync_Close
  <2>2. CASE Create_Begin(p) BY <2>2 DEF Create_Begin
  <2>3. CASE Create_Listen(p) \/ Create_NoPort(p) \/ Create_Insert(p)
    BY <2>3 DEF Create_Listen, Create_NoPort, Create_Insert
  <2>4. CASE Pushing(p)
    <3>1. PushEnds(p) \/ PushStays(p) BY <2>4, PushFacts
    <3> QED BY <3>1 DEF PushEnds, PushStays
  <2> QED BY <1>2, <2>1, <2>2, <2>3, <2>4, <2>5 DEF Operation
<1>3. ASSUME NEW a \in Admins, Request(a) PROVE Alone(a)
  <2>1. CASE Releasing(a)
    BY <2>1, CloseNextFacts
    DEF Releasing, Delete_Control, Delete_Close, Delete_Finish, Procs
  <2>2. CASE ~Releasing(a)
    BY <1>3, <2>2 DEF Request, Resync, Issue, Delete, Reassign, Issue_Close, Reassign_Close
  <2> QED BY <2>1, <2>2
<1> QED BY <1>1, <1>2, <1>3

(* A push and a deletion, as the tables see them.                          *)
LEMMA PushSteps ==
    ASSUME TypeInv, NEW p \in Procs, Pushing(p)
    PROVE  /\ pc[p] \in {"push", "send", "write"}
           /\ pc'[p] \in {Home(p), "send", "write"}
           /\ UNCHANGED <<tunnels, ports, createMu, phase, todo, boot>>
           /\ disk' = disk \/ SaveState
<1>1. PushEnds(p) \/ PushStays(p) BY PushFacts
<1>2. pc' \in [Procs -> {pc'[x] : x \in Procs}] /\ pc'[p] \in {Home(p), "send", "write"}
  BY <1>1 DEF PushEnds, PushStays, TypeInv, LocalTypes
<1> QED BY <1>1, <1>2, PushFacts DEF PushEnds, PushStays, tunnelvars, procvars

LEMMA ReleasingSteps ==
    ASSUME TypeInv, NEW a \in Admins, Releasing(a)
    PROVE  /\ Running /\ pc[a] \in {"deleted", "releasing"}
           /\ pc'[a] \in {"releasing", "idle"}
           /\ UNCHANGED <<nodes, node, issued, createMu, phase, todo, boot, foreign, served>>
           /\ UNCHANGED <<tunnels, ports>> \/ \E t : Close({t})
           /\ disk' = disk \/ SaveState
<1>1. a \in Procs BY DEF Procs
<1>2. CASE Delete_Control(a)
  BY <1>1, <1>2
  DEF Delete_Control, Step, TypeInv, LocalTypes, nodevars, tunnelvars, procvars
<1>3. CASE Delete_Close(a)
  BY <1>1, <1>3 DEF Delete_Close, CloseNext, nodevars, procvars
<1>4. CASE Delete_Finish(a)
  BY <1>1, <1>4
  DEF Delete_Finish, Step, TypeInv, LocalTypes, nodevars, tunnelvars, procvars
<1> QED BY <1>2, <1>3, <1>4 DEF Releasing

(* What the holder of createTunnelMu has established stays true until it   *)
(* enters the tunnel: nobody else adds a mapping, and the port it listens  *)
(* on is untracked.                                                        *)
HolderInv ==
    \A p \in Procs :
        /\ pc[p] \in {"listen", "insert"} =>
              createMu = p /\ ~Mapped(l[p].name, Min(l[p].miss), l[p].cur)
        /\ pc[p] = "insert" => l[p].cand \cap DOMAIN ports = {}

(* No goroutine of the dead process runs while it is down or restores.     *)
PhaseInv ==
    /\ phase \in {"down", "restoring"} => \A p \in Procs : pc[p] \in {"idle", "done"}
    /\ phase = "down" => tunnels = {}

(* The file never holds two mappings on one port, so what is still to      *)
(* restore never meets a restored port.                                    *)
OnePerPort(saved) == \A m, k \in saved : m.port = k.port => m = k
FileInv ==
    /\ OnePerPort(disk.tunnels) /\ OnePerPort(todo) /\ OnePerPort(boot)
    /\ \A m \in todo, t \in tunnels : m.port # t.port

IInv == HolderInv /\ PhaseInv /\ FileInv /\ PortTableAgrees /\ OneMappingPerPreset

LEMMA IInvInit == Init => IInv
BY DEF Init, IInv, HolderInv, PhaseInv, FileInv, OnePerPort, Snapshot, PortTableAgrees,
       OneMappingPerPreset

(* The process states.                                                     *)
LEMMA PhaseInvStep == TypeInv /\ IInv /\ [Next]_vars => PhaseInv'
<1> SUFFICES ASSUME TypeInv, IInv, [Next]_vars PROVE PhaseInv'
  OBVIOUS
<1>0. ASSUME phase \in {"up", "stopping"}, phase' = phase PROVE PhaseInv'
  BY <1>0 DEF PhaseInv
<1>1. ASSUME NEW c \in Conns, Handler(c) PROVE PhaseInv'
  <2>1. ASSUME NEW name \in Names, NEW tok \in 1..issued, NEW ps \in Registrations,
               Register_Check(c, name, tok, ps)
       PROVE  PhaseInv'
    BY <1>0, <2>1 DEF Register_Check, procvars, nodevars, tunnelvars, Running
  <2>2. CASE Register_Update(c) \/ Register_Respond(c) \/ Register_RespondFails(c)
             \/ ControlLoop_Exit(c)
    BY <1>0, <2>2 DEF Register_Update, Register_Respond, Register_RespondFails,
        ControlLoop_Exit, procvars, nodevars, tunnelvars, Running
  <2> QED BY <1>1, <2>1, <2>2 DEF Handler
<1>2. ASSUME NEW p \in Procs, Operation(p) PROVE PhaseInv'
  <2>1. CASE Sync_Copy(p) \/ Sync_List(p) \/ Sync_Close(p) \/ Sync_Closed(p) \/ Sync_Finish(p)
             \/ Create_Begin(p) \/ Create_Listen(p) \/ Create_NoPort(p)
             \/ Create_Insert(p)
    <3>1. Running /\ UNCHANGED procvars
      BY <2>1
      DEF Sync_Copy, Sync_List, Sync_Close, Sync_Closed, Sync_Finish, Create_Begin,
          Create_Listen, Create_NoPort, Create_Insert
    <3> QED BY <1>0, <3>1 DEF procvars, Running
  <2>2. CASE Pushing(p) BY <1>0, <2>2, PushFacts DEF procvars, tunnelvars, Running
  <2> QED BY <1>2, <2>1, <2>2 DEF Operation
<1>3. ASSUME NEW a \in Admins, Request(a) PROVE PhaseInv'
  <2>1. ASSUME NEW name \in Names, Resync(a, name) PROVE PhaseInv'
    BY <1>0, <2>1 DEF Resync, BeginRequest, procvars, nodevars, tunnelvars, Running
  <2>2. ASSUME NEW name \in Names, Issue(a, name) PROVE PhaseInv'
    BY <1>0, <2>2 DEF Issue, BeginRequest, procvars, nodevars, tunnelvars, Running
  <2>3. ASSUME NEW name \in Names, Delete(a, name) PROVE PhaseInv'
    BY <1>0, <2>3 DEF Delete, BeginRequest, procvars, nodevars, tunnelvars, Running
  <2>4. ASSUME NEW t \in tunnels, Reassign(a, t) PROVE PhaseInv'
    BY <1>0, <2>4 DEF Reassign, BeginRequest, procvars, nodevars, tunnelvars, Running
  <2>5. CASE Issue_Close(a) \/ Releasing(a) \/ Reassign_Close(a)
    <3>1. Running /\ UNCHANGED procvars
      BY <2>5 DEF Issue_Close, Releasing, Delete_Control, Delete_Close, Delete_Finish,
          Reassign_Close
    <3> QED BY <1>0, <3>1 DEF procvars, Running
  <2> QED BY <1>3, <2>1, <2>2, <2>3, <2>4, <2>5 DEF Request
<1>4. ASSUME Process PROVE PhaseInv'
  <2>1. CASE Shutdown BY <2>1 DEF Shutdown, PhaseInv
  <2>2. CASE Exit BY <2>2 DEF Exit, PhaseInv
  <2>3. CASE Restart BY <2>3 DEF Restart, IInv, PhaseInv
  <2>4. CASE RestoreTunnel
    BY <2>4 DEF RestoreTunnel, RestoreOne, RestoreFailed, IInv, PhaseInv
  <2>5. CASE Serve BY <2>5 DEF Serve, PhaseInv
  <2>6. ASSUME NEW t \in tunnels, Listener_Fails(t) PROVE PhaseInv'
    BY <1>0, <2>6 DEF Listener_Fails, procvars, nodevars, tunnelvars, Running
  <2>7. ASSUME NEW t \in tunnels, Shutdown_CloseTunnel(t) PROVE PhaseInv'
    BY <1>0, <2>7 DEF Shutdown_CloseTunnel, procvars, nodevars, tunnelvars, Running
  <2>8. CASE PeriodicSave \/ Shutdown_CloseControls
    BY <1>0, <2>8 DEF PeriodicSave, Shutdown_CloseControls, procvars, nodevars,
        tunnelvars, Running
  <2> QED BY <1>4, <2>1, <2>2, <2>3, <2>4, <2>5, <2>6, <2>7, <2>8 DEF Process
<1>5. CASE UNCHANGED vars BY <1>5 DEF vars, IInv, PhaseInv
<1> QED BY <1>1, <1>2, <1>3, <1>4, <1>5 DEF Next

(* Closing tunnels, whoever does it: the ones that stay keep their ports.  *)
LEMMA CloseKeepsPorts ==
    ASSUME TypeInv, PortTableAgrees, NEW ts, Close(ts)
    PROVE  /\ PortTableAgrees'
           /\ tunnels' \subseteq tunnels /\ DOMAIN ports' \subseteq DOMAIN ports
BY DEF Close, PortTableAgrees, TypeInv, TunnelTypes

LEMMA EnterKeepsPorts ==
    ASSUME TypeInv, PortTableAgrees, NEW t \in Tunnel, t.port \notin DOMAIN ports,
           t.id \in FreeIds, tunnels' = tunnels \cup {t},
           ports' = [r \in DOMAIN ports \cup {t.port} |-> IF r = t.port THEN t.id ELSE ports[r]]
    PROVE  PortTableAgrees'
<1>1. \A u \in tunnels : u.id # t.id BY DEF FreeIds, UsedIds
<1> QED BY <1>1 DEF PortTableAgrees

(* The two tables.                                                         *)
LEMMA PortTableStep == TypeInv /\ IInv /\ [Next]_vars => PortTableAgrees'
<1> SUFFICES ASSUME TypeInv, IInv, [Next]_vars PROVE PortTableAgrees'
  OBVIOUS
<1>0. ASSUME UNCHANGED <<tunnels, ports>> PROVE PortTableAgrees'
  BY <1>0 DEF IInv, PortTableAgrees
<1>1. ASSUME NEW c \in Conns, Handler(c) PROVE PortTableAgrees'
  <2>1. ASSUME NEW name \in Names, NEW tok \in 1..issued, NEW ps \in Registrations,
               Register_Check(c, name, tok, ps)
       PROVE  PortTableAgrees'
    BY <1>0, <2>1 DEF Register_Check, procvars, nodevars, tunnelvars
  <2>2. CASE Register_Update(c) \/ Register_Respond(c) \/ Register_RespondFails(c)
             \/ ControlLoop_Exit(c)
    BY <1>0, <2>2 DEF Register_Update, Register_Respond, Register_RespondFails,
        ControlLoop_Exit, procvars, nodevars, tunnelvars
  <2> QED BY <1>1, <2>1, <2>2 DEF Handler
<1>2. ASSUME NEW p \in Procs, Operation(p) PROVE PortTableAgrees'
  <2>1. CASE Sync_Close(p) BY <2>1, CloseKeepsPorts DEF Sync_Close, CloseNext, IInv
  <2>2. CASE Create_Insert(p)
    <3>1. l[p].cand \cap DOMAIN ports = {}
      BY <2>2 DEF Create_Insert, Step, IInv, HolderInv
    <3> QED BY <2>2, <3>1, EnteredTunnel, EnterKeepsPorts DEF IInv
  <2>3. CASE Sync_Copy(p) \/ Sync_List(p) \/ Sync_Closed(p) \/ Sync_Finish(p)
             \/ Create_Begin(p) \/ Create_Listen(p) \/ Create_NoPort(p)
    <3>1. UNCHANGED tunnelvars
      BY <2>3
      DEF Sync_Copy, Sync_List, Sync_Closed, Sync_Finish, Create_Begin, Create_Listen,
          Create_NoPort
    <3> QED BY <1>0, <3>1 DEF tunnelvars
  <2>4. CASE Pushing(p) BY <1>0, <2>4, PushSteps
  <2> QED BY <1>2, <2>1, <2>2, <2>3, <2>4 DEF Operation
<1>3. ASSUME NEW a \in Admins, Request(a) PROVE PortTableAgrees'
  <2>1. CASE Releasing(a) BY <1>0, <2>1, ReleasingSteps, CloseKeepsPorts DEF IInv
  <2>2. CASE Reassign_Close(a) BY <2>2, CloseKeepsPorts DEF Reassign_Close, IInv
  <2>3. ASSUME NEW name \in Names, Resync(a, name) PROVE PortTableAgrees'
    BY <1>0, <2>3 DEF Resync, BeginRequest, procvars, nodevars, tunnelvars
  <2>4. ASSUME NEW name \in Names, Issue(a, name) PROVE PortTableAgrees'
    BY <1>0, <2>4 DEF Issue, BeginRequest, procvars, nodevars, tunnelvars
  <2>5. ASSUME NEW name \in Names, Delete(a, name) PROVE PortTableAgrees'
    BY <1>0, <2>5 DEF Delete, BeginRequest, procvars, nodevars, tunnelvars
  <2>6. ASSUME NEW t \in tunnels, Reassign(a, t) PROVE PortTableAgrees'
    BY <1>0, <2>6 DEF Reassign, BeginRequest, procvars, nodevars, tunnelvars
  <2>7. CASE Issue_Close(a)
    BY <1>0, <2>7 DEF Issue_Close, procvars, nodevars, tunnelvars
  <2> QED BY <1>3, <2>1, <2>2, <2>3, <2>4, <2>5, <2>6, <2>7 DEF Request
<1>4. ASSUME Process PROVE PortTableAgrees'
  <2>1. ASSUME NEW t \in tunnels, Listener_Fails(t) PROVE PortTableAgrees'
    BY <2>1, CloseKeepsPorts DEF Listener_Fails, IInv
  <2>2. ASSUME NEW t \in tunnels, Shutdown_CloseTunnel(t) PROVE PortTableAgrees'
    BY <2>2, CloseKeepsPorts DEF Shutdown_CloseTunnel, IInv
  <2>3. CASE Exit BY <2>3 DEF Exit, PortTableAgrees
  <2>4. CASE RestoreTunnel
    <3>1. PICK m \in todo : RestoreOne(m) \/ RestoreFailed(m) BY <2>4 DEF RestoreTunnel
    <3>2. m.port \notin DOMAIN ports BY DEF IInv, FileInv, PortTableAgrees
    <3>3. CASE RestoreOne(m) BY <3>2, <3>3, RestoredTunnel, EnterKeepsPorts DEF IInv
    <3>4. CASE RestoreFailed(m) BY <3>4, <1>0 DEF RestoreFailed, tunnelvars
    <3> QED BY <3>1, <3>3, <3>4
  <2>5. CASE PeriodicSave \/ Shutdown \/ Shutdown_CloseControls \/ Restart \/ Serve
    BY <1>0, <2>5 DEF PeriodicSave, Shutdown, Shutdown_CloseControls, Restart, Serve,
        procvars, nodevars, tunnelvars
  <2> QED BY <1>4, <2>1, <2>2, <2>3, <2>4, <2>5 DEF Process
<1>5. CASE UNCHANGED vars BY <1>0, <1>5 DEF vars
<1> QED BY <1>1, <1>2, <1>3, <1>4, <1>5 DEF Next

(* A step that leaves p, and only p, outside of a creation and adds no     *)
(* tunnel.                                                                 *)
LEMMA HolderKept ==
    ASSUME IInv, NEW p \in Procs, Alone(p), pc'[p] \notin {"listen", "insert"},
           createMu' = createMu \/ createMu = p,
           tunnels' \subseteq tunnels, DOMAIN ports' \subseteq DOMAIN ports
    PROVE  HolderInv'
BY DEF IInv, HolderInv, Alone, Mapped

(* The holder of the mutex.                                                *)
LEMMA HolderInvStep == TypeInv /\ IInv /\ [Next]_vars => HolderInv'
<1> SUFFICES ASSUME TypeInv, IInv, [Next]_vars PROVE HolderInv'
  OBVIOUS
<1>0. ASSUME UNCHANGED <<pc, l, tunnels, ports, createMu>> PROVE HolderInv'
  BY <1>0 DEF IInv, HolderInv, Mapped
<1>1. ASSUME NEW c \in Conns, Handler(c) PROVE HolderInv'
  <2>0. c \in Procs /\ Alone(c)
    BY <1>1, OneMoves DEF Procs
  <2>1. ASSUME NEW name \in Names, NEW tok \in 1..issued, NEW ps \in Registrations,
               Register_Check(c, name, tok, ps)
       PROVE  HolderInv'
    BY <2>1, <2>0, HolderKept
      DEF Register_Check, Step, IInv, TypeInv, LocalTypes, tunnelvars
  <2>2. CASE Register_Update(c)
    BY <2>2, <2>0, HolderKept
      DEF Register_Update, Step, IInv, TypeInv, LocalTypes, tunnelvars
  <2>3. CASE Register_Respond(c)
    BY <2>3, <2>0, HolderKept
      DEF Register_Respond, Step, IInv, TypeInv, LocalTypes, tunnelvars
  <2>4. CASE Register_RespondFails(c)
    BY <2>4, <2>0, HolderKept
      DEF Register_RespondFails, Step, IInv, TypeInv, LocalTypes, tunnelvars
  <2>5. CASE ControlLoop_Exit(c)
    BY <2>5, <2>0, HolderKept
      DEF ControlLoop_Exit, Step, IInv, TypeInv, LocalTypes, tunnelvars
  <2> QED BY <1>1, <2>1, <2>2, <2>3, <2>4, <2>5 DEF Handler
<1>2. ASSUME NEW p \in Procs, Operation(p) PROVE HolderInv'
  <2>0. p \in Procs /\ Alone(p)
    BY <1>2, OneMoves DEF Procs
  <2>1. CASE Sync_Copy(p)
    BY <2>1, <2>0, HolderKept
      DEF Sync_Copy, Step, IInv, TypeInv, LocalTypes, Home, tunnelvars
  <2>2. CASE Sync_List(p)
    BY <2>2, <2>0, HolderKept
      DEF Sync_List, Step, IInv, TypeInv, LocalTypes, tunnelvars
  <2>3. CASE Sync_Close(p)
    <3>1. tunnels' \subseteq tunnels /\ DOMAIN ports' \subseteq DOMAIN ports
      BY <2>3, CloseKeepsPorts DEF Sync_Close, CloseNext, IInv
    <3>2. pc'[p] \notin {"listen", "insert"} /\ createMu' = createMu
      BY <2>3 DEF Sync_Close
    <3> QED BY <2>0, <3>1, <3>2, HolderKept
  <2>10. CASE Sync_Closed(p)
    BY <2>10, <2>0, HolderKept
      DEF Sync_Closed, Step, IInv, TypeInv, LocalTypes, tunnelvars
  <2>4. CASE Sync_Finish(p)
    BY <2>4, <2>0, HolderKept
      DEF Sync_Finish, Step, IInv, TypeInv, LocalTypes, tunnelvars
  <2>5. CASE Create_Begin(p)
    <3> DEFINE preset == Min(l[p].miss)
    <3>1. CASE CreateFailed(p, preset) /\ createMu' = createMu
      BY <2>5, <2>0, <3>1, HolderKept
      DEF Create_Begin, CreateFailed, Home, TypeInv, LocalTypes, tunnelvars
    <3>2. CASE ~(CreateFailed(p, preset) /\ createMu' = createMu)
      <4>1. /\ createMu = None /\ createMu' = p /\ ~Mapped(l[p].name, preset, l[p].cur)
            /\ pc'[p] = "listen" /\ UNCHANGED tunnels
            /\ l'[p].name = l[p].name /\ l'[p].miss = l[p].miss /\ l'[p].cur = l[p].cur
        BY <2>5, <3>2 DEF Create_Begin, TypeInv, LocalTypes, Local, tunnelvars
      <4>2. \A x \in Procs : pc[x] \notin {"listen", "insert"}
        BY <4>1, ConstantsAssumption DEF IInv, HolderInv, Procs
      <4>3. ~Mapped(l[p].name, preset, l[p].cur)' BY <4>1 DEF Mapped
      <4> QED BY <2>0, <4>1, <4>2, <4>3 DEF HolderInv, Alone
    <3> QED BY <3>1, <3>2
  <2>6. CASE Create_Listen(p)
    <3>1. /\ createMu' = createMu /\ UNCHANGED <<tunnels, ports>>
          /\ pc[p] = "listen" /\ pc'[p] = "insert"
          /\ l'[p].name = l[p].name /\ l'[p].miss = l[p].miss /\ l'[p].cur = l[p].cur
          /\ l'[p].cand \cap DOMAIN ports = {}
      BY <2>6 DEF Create_Listen, Step, Listenable, TypeInv, LocalTypes, Local, tunnelvars
    <3> QED BY <2>0, <3>1 DEF IInv, HolderInv, Alone, Mapped
  <2>7. CASE Create_NoPort(p)
    <3>1. createMu = p BY <2>7 DEF Create_NoPort, IInv, HolderInv
    <3> QED BY <2>7, <2>0, <3>1, HolderKept
        DEF Create_NoPort, CreateFailed, Home, TypeInv, LocalTypes, tunnelvars
  <2>8. CASE Create_Insert(p)
    <3>1. createMu = p BY <2>8 DEF Create_Insert, Step, IInv, HolderInv
    <3>2. \A x \in Procs \ {p} : pc[x] \notin {"listen", "insert"}
      BY <3>1 DEF IInv, HolderInv
    <3>3. pc'[p] \notin {"listen", "insert"}
      BY <2>8 DEF Create_Insert, Step, TypeInv, LocalTypes
    <3> QED BY <2>0, <3>2, <3>3 DEF HolderInv, Alone
  <2>9. CASE Pushing(p)
    BY <2>9, <2>0, HolderKept, PushSteps DEF Home
  <2> QED BY <1>2, <2>1, <2>2, <2>3, <2>4, <2>5, <2>6, <2>7, <2>8, <2>9, <2>10 DEF Operation
<1>3. ASSUME NEW a \in Admins, Request(a) PROVE HolderInv'
  <2>0. a \in Procs /\ Alone(a)
    BY <1>3, OneMoves DEF Procs
  <2>1. ASSUME NEW name \in Names, Resync(a, name) PROVE HolderInv'
    BY <2>1, <2>0, HolderKept
      DEF Resync, Step, IInv, TypeInv, LocalTypes, BeginRequest, tunnelvars
  <2>2. ASSUME NEW name \in Names, Issue(a, name) PROVE HolderInv'
    BY <2>2, <2>0, HolderKept
      DEF Issue, Step, IInv, TypeInv, LocalTypes, BeginRequest, tunnelvars
  <2>3. ASSUME NEW name \in Names, Delete(a, name) PROVE HolderInv'
    BY <2>3, <2>0, HolderKept
      DEF Delete, Step, IInv, TypeInv, LocalTypes, BeginRequest, tunnelvars
  <2>4. ASSUME NEW t \in tunnels, Reassign(a, t) PROVE HolderInv'
    BY <2>4, <2>0, HolderKept
      DEF Reassign, Step, IInv, TypeInv, LocalTypes, BeginRequest, tunnelvars
  <2>5. CASE Issue_Close(a)
    BY <2>5, <2>0, HolderKept
      DEF Issue_Close, Step, IInv, TypeInv, LocalTypes, tunnelvars
  <2>6. CASE Releasing(a)
    <3>1. tunnels' \subseteq tunnels /\ DOMAIN ports' \subseteq DOMAIN ports
      BY <2>6, ReleasingSteps, CloseKeepsPorts DEF IInv
    <3>2. pc'[a] \notin {"listen", "insert"} /\ createMu' = createMu
      BY <2>6, ReleasingSteps
    <3> QED BY <2>0, <3>1, <3>2, HolderKept
  <2>7. CASE Reassign_Close(a)
    <3>1. tunnels' \subseteq tunnels /\ DOMAIN ports' \subseteq DOMAIN ports
      BY <2>7, CloseKeepsPorts DEF Reassign_Close, IInv
    <3>2. pc'[a] \notin {"listen", "insert"} /\ createMu' = createMu
      BY <2>7, <2>0 DEF Reassign_Close, Step, TypeInv, LocalTypes
    <3> QED BY <2>0, <3>1, <3>2, HolderKept
  <2> QED BY <1>3, <2>1, <2>2, <2>3, <2>4, <2>5, <2>6, <2>7 DEF Request
<1>4. ASSUME Process PROVE HolderInv'
  <2>1. ASSUME NEW t \in tunnels, Listener_Fails(t) PROVE HolderInv'
    <3>1. tunnels' \subseteq tunnels /\ DOMAIN ports' \subseteq DOMAIN ports
      BY <2>1, CloseKeepsPorts DEF Listener_Fails, IInv
    <3>2. UNCHANGED <<pc, l, createMu>> BY <2>1 DEF Listener_Fails
    <3> QED BY <3>1, <3>2 DEF IInv, HolderInv, Mapped
  <2>2. ASSUME NEW t \in tunnels, Shutdown_CloseTunnel(t) PROVE HolderInv'
    <3>1. tunnels' \subseteq tunnels /\ DOMAIN ports' \subseteq DOMAIN ports
      BY <2>2, CloseKeepsPorts DEF Shutdown_CloseTunnel, IInv
    <3>2. UNCHANGED <<pc, l, createMu>> BY <2>2 DEF Shutdown_CloseTunnel
    <3> QED BY <3>1, <3>2 DEF IInv, HolderInv, Mapped
  <2>3. CASE Exit BY <2>3 DEF Exit, HolderInv
  <2>4. CASE RestoreTunnel
    <3>1. pc' = pc BY <2>4 DEF RestoreTunnel, RestoreOne, RestoreFailed
    <3>2. \A x \in Procs : pc[x] \in {"idle", "done"}
      BY <2>4 DEF RestoreTunnel, IInv, PhaseInv
    <3> QED BY <3>1, <3>2 DEF HolderInv
  <2>5. CASE PeriodicSave \/ Shutdown \/ Shutdown_CloseControls \/ Restart \/ Serve
    BY <1>0, <2>5 DEF PeriodicSave, Shutdown, Shutdown_CloseControls, Restart, Serve,
        procvars, nodevars, tunnelvars
  <2> QED BY <1>4, <2>1, <2>2, <2>3, <2>4, <2>5 DEF Process
<1>5. CASE UNCHANGED vars BY <1>0, <1>5 DEF vars
<1> QED BY <1>1, <1>2, <1>3, <1>4, <1>5 DEF Next

(* The file: what is saved comes from tables that agree.                   *)
LEMMA SavedOnePerPort ==
    ASSUME OnePerPort(disk.tunnels), PortTableAgrees', SaveState
    PROVE  OnePerPort(disk'.tunnels)
<1>1. CASE disk' = disk BY <1>1
<1>2. CASE disk' = Snapshot(nodes', node', tunnels')
  BY <1>2 DEF Snapshot, OnePerPort, PortTableAgrees
<1> QED BY <1>1, <1>2, SaveTypes

(* While nothing is left to restore, only the file matters.                *)
LEMMA FileKept ==
    ASSUME TypeInv, FileInv, phase # "restoring", UNCHANGED <<todo, boot>>,
           OnePerPort(disk'.tunnels)
    PROVE  FileInv'
BY DEF FileInv, OnePerPort, TypeInv, TodoInv

LEMMA FileInvStep == TypeInv /\ IInv /\ PortTableAgrees' /\ [Next]_vars => FileInv'
<1> SUFFICES ASSUME TypeInv, IInv, PortTableAgrees', [Next]_vars PROVE FileInv'
  OBVIOUS
<1>0. ASSUME phase \in {"up", "stopping"}, UNCHANGED <<todo, boot, disk>> PROVE FileInv'
  BY <1>0, FileKept DEF IInv, FileInv
<1>1. ASSUME NEW c \in Conns, Handler(c) PROVE FileInv'
  <2>1. CASE Register_Respond(c)
    BY <2>1, SavedOnePerPort, FileKept
      DEF Register_Respond, Running, procvars, IInv, FileInv
  <2>2. CASE ControlLoop_Exit(c)
    BY <2>2, SavedOnePerPort, FileKept
      DEF ControlLoop_Exit, Running, procvars, IInv, FileInv
  <2>3. ASSUME NEW name \in Names, NEW tok \in 1..issued, NEW ps \in Registrations,
               Register_Check(c, name, tok, ps)
       PROVE  FileInv'
    BY <1>0, <2>3 DEF Register_Check, procvars, nodevars, tunnelvars, Running
  <2>4. CASE Register_Update(c) \/ Register_RespondFails(c)
    BY <1>0, <2>4 DEF Register_Update, Register_RespondFails, procvars, nodevars,
        tunnelvars, Running
  <2> QED BY <1>1, <2>1, <2>2, <2>3, <2>4 DEF Handler
<1>2. ASSUME NEW p \in Procs, Operation(p) PROVE FileInv'
  <2>1. CASE Create_Insert(p)
    BY <2>1, SavedOnePerPort, FileKept
      DEF Create_Insert, Running, procvars, IInv, FileInv
  <2>2. CASE Pushing(p)
    <3>1. OnePerPort(disk'.tunnels) BY <2>2, PushSteps, SavedOnePerPort DEF IInv, FileInv
    <3> QED BY <2>2, <3>1, PushFacts, PushSteps, FileKept DEF Running, IInv
  <2>3. CASE Sync_Copy(p) \/ Sync_List(p) \/ Sync_Close(p) \/ Sync_Closed(p) \/ Sync_Finish(p)
             \/ Create_Begin(p) \/ Create_Listen(p) \/ Create_NoPort(p)
    <3>1. Running /\ UNCHANGED <<procvars, disk>>
      BY <2>3
      DEF Sync_Copy, Sync_List, Sync_Close, Sync_Closed, Sync_Finish, Create_Begin,
          Create_Listen, Create_NoPort
    <3> QED BY <1>0, <3>1 DEF procvars, Running
  <2> QED BY <1>2, <2>1, <2>2, <2>3 DEF Operation
<1>3. ASSUME NEW a \in Admins, Request(a) PROVE FileInv'
  <2>1. CASE Issue_Close(a)
    BY <2>1, SavedOnePerPort, FileKept
      DEF Issue_Close, Running, procvars, IInv, FileInv
  <2>2. CASE Releasing(a)
    <3>1. OnePerPort(disk'.tunnels)
      BY <2>2, ReleasingSteps, SavedOnePerPort DEF IInv, FileInv
    <3> QED BY <2>2, <3>1, ReleasingSteps, FileKept DEF Running, IInv
  <2>3. ASSUME NEW name \in Names, Resync(a, name) PROVE FileInv'
    BY <1>0, <2>3 DEF Resync, BeginRequest, procvars, nodevars, tunnelvars, Running
  <2>4. ASSUME NEW name \in Names, Issue(a, name) PROVE FileInv'
    BY <1>0, <2>4 DEF Issue, BeginRequest, procvars, nodevars, tunnelvars, Running
  <2>5. ASSUME NEW name \in Names, Delete(a, name) PROVE FileInv'
    BY <1>0, <2>5 DEF Delete, BeginRequest, procvars, nodevars, tunnelvars, Running
  <2>6. ASSUME NEW t \in tunnels, Reassign(a, t) PROVE FileInv'
    BY <1>0, <2>6 DEF Reassign, BeginRequest, procvars, nodevars, tunnelvars, Running
  <2>7. CASE Reassign_Close(a)
    BY <1>0, <2>7 DEF Reassign_Close, procvars, nodevars, tunnelvars, Running
  <2> QED BY <1>3, <2>1, <2>2, <2>3, <2>4, <2>5, <2>6, <2>7 DEF Request
<1>4. ASSUME Process PROVE FileInv'
  <2>1. ASSUME NEW t \in tunnels, Shutdown_CloseTunnel(t) PROVE FileInv'
    BY <2>1, FileKept DEF Shutdown_CloseTunnel, procvars, IInv, FileInv
  <2>2. CASE PeriodicSave
    BY <2>2, SavedOnePerPort, FileKept
      DEF PeriodicSave, Running, procvars, IInv, FileInv
  <2>3. CASE Shutdown BY <2>3, SavedOnePerPort, FileKept DEF Shutdown, IInv, FileInv
  <2>4. CASE Exit
    <3>1. OnePerPort(boot') /\ todo' = {} /\ disk' = disk
      BY <2>4 DEF Exit, IInv, FileInv
    <3> QED BY <3>1 DEF IInv, FileInv, OnePerPort
  <2>5. CASE Restart
    <3>1. /\ todo' \subseteq disk.tunnels /\ tunnels' = {} /\ disk' = disk /\ boot' = boot
      BY <2>5 DEF Restart, IInv, PhaseInv, tunnelvars
    <3> QED BY <3>1 DEF IInv, FileInv, OnePerPort
  <2>6. CASE RestoreTunnel
    <3>1. PICK m \in todo : RestoreOne(m) \/ RestoreFailed(m) BY <2>6 DEF RestoreTunnel
    <3>2. CASE RestoreOne(m)
      <4>1. PICK t \in Tunnel : t.port = m.port /\ tunnels' = tunnels \cup {t}
        BY <3>2, RestoredTunnel
      <4>2. /\ todo' = todo \ {m} /\ boot' = boot /\ OnePerPort(disk'.tunnels)
        BY <3>2, SavedOnePerPort DEF RestoreOne, IInv, FileInv
      <4> QED BY <4>1, <4>2 DEF IInv, FileInv, OnePerPort
    <3>3. CASE RestoreFailed(m)
      BY <3>3 DEF RestoreFailed, tunnelvars, IInv, FileInv, OnePerPort
    <3> QED BY <3>1, <3>2, <3>3
  <2>7. CASE Serve BY <2>7 DEF Serve, tunnelvars, IInv, FileInv, OnePerPort
  <2>8. ASSUME NEW t \in tunnels, Listener_Fails(t) PROVE FileInv'
    BY <1>0, <2>8 DEF Listener_Fails, procvars, nodevars, tunnelvars, Running
  <2>9. CASE Shutdown_CloseControls
    BY <1>0, <2>9 DEF Shutdown_CloseControls, procvars, nodevars, tunnelvars, Running
  <2> QED BY <1>4, <2>1, <2>2, <2>3, <2>4, <2>5, <2>6, <2>7, <2>8, <2>9 DEF Process
<1>5. CASE UNCHANGED vars BY <1>5 DEF vars, IInv, FileInv, OnePerPort
<1> QED BY <1>1, <1>2, <1>3, <1>4, <1>5 DEF Next

(* Mappings: a step that adds none, and is not the one that ends a         *)
(* reassignment.                                                           *)
LEMMA MappingKept ==
    ASSUME OneMappingPerPreset, NEW p \in Procs, Alone(p), pc[p] # "swap",
           tunnels' \subseteq tunnels
    PROVE  OneMappingPerPreset'
<1>1. \A a \in Admins : pc[a] = "swap" => pc'[a] = "swap" /\ l'[a] = l[a]
  BY DEF Alone, Procs
<1> QED BY <1>1 DEF OneMappingPerPreset

LEMMA OneMappingStep == TypeInv /\ IInv /\ [Next]_vars => OneMappingPerPreset'
<1> SUFFICES ASSUME TypeInv, IInv, [Next]_vars PROVE OneMappingPerPreset'
  OBVIOUS
<1>0. ASSUME UNCHANGED <<tunnels, pc, l>> PROVE OneMappingPerPreset'
  BY <1>0 DEF IInv, OneMappingPerPreset
<1>1. ASSUME NEW c \in Conns, Handler(c) PROVE OneMappingPerPreset'
  <2>0. c \in Procs /\ Alone(c)
    BY <1>1, OneMoves DEF Procs
  <2>1. ASSUME NEW name \in Names, NEW tok \in 1..issued, NEW ps \in Registrations,
               Register_Check(c, name, tok, ps)
       PROVE  OneMappingPerPreset'
    BY <2>1, <2>0, MappingKept
      DEF Register_Check, Step, BeginRequest, IInv, tunnelvars
  <2>2. CASE Register_Update(c)
    BY <2>2, <2>0, MappingKept
      DEF Register_Update, Step, BeginRequest, IInv, tunnelvars
  <2>3. CASE Register_Respond(c)
    BY <2>3, <2>0, MappingKept
      DEF Register_Respond, Step, BeginRequest, IInv, tunnelvars
  <2>4. CASE Register_RespondFails(c)
    BY <2>4, <2>0, MappingKept
      DEF Register_RespondFails, Step, BeginRequest, IInv, tunnelvars
  <2>5. CASE ControlLoop_Exit(c)
    BY <2>5, <2>0, MappingKept
      DEF ControlLoop_Exit, Step, BeginRequest, IInv, tunnelvars
  <2> QED BY <1>1, <2>1, <2>2, <2>3, <2>4, <2>5 DEF Handler
<1>2. ASSUME NEW p \in Procs, Operation(p) PROVE OneMappingPerPreset'
  <2>0. p \in Procs /\ Alone(p)
    BY <1>2, OneMoves DEF Procs
  <2>1. CASE Sync_Copy(p)
    BY <2>1, <2>0, MappingKept DEF Sync_Copy, Step, BeginRequest, IInv, tunnelvars
  <2>2. CASE Sync_List(p)
    BY <2>2, <2>0, MappingKept DEF Sync_List, Step, BeginRequest, IInv, tunnelvars
  <2>3. CASE Sync_Close(p)
    <3>1. tunnels' \subseteq tunnels BY <2>3, CloseKeepsPorts DEF Sync_Close, CloseNext, IInv
    <3> QED BY <2>3, <2>0, <3>1, MappingKept DEF Sync_Close, IInv
  <2>10. CASE Sync_Closed(p)
    BY <2>10, <2>0, MappingKept DEF Sync_Closed, Step, IInv, tunnelvars
  <2>4. CASE Sync_Finish(p)
    BY <2>4, <2>0, MappingKept DEF Sync_Finish, Step, BeginRequest, IInv, tunnelvars
  <2>5. CASE Create_Begin(p)
    BY <2>5, <2>0, MappingKept DEF Create_Begin, Step, BeginRequest, IInv, tunnelvars
  <2>6. CASE Create_Listen(p)
    BY <2>6, <2>0, MappingKept DEF Create_Listen, Step, BeginRequest, IInv, tunnelvars
  <2>7. CASE Create_NoPort(p)
    BY <2>7, <2>0, MappingKept DEF Create_NoPort, Step, BeginRequest, IInv, tunnelvars
  <2>8. CASE Create_Insert(p)
    <3>1. ~Mapped(l[p].name, Min(l[p].miss), l[p].cur)
      BY <2>8 DEF Create_Insert, Step, IInv, HolderInv
    <3>2. PICK t \in Tunnel : /\ t.name = l[p].name /\ t.preset = Min(l[p].miss)
                              /\ tunnels' = tunnels \cup {t}
      BY <2>8, EnteredTunnel
    <3>3. \A u \in tunnels : u.name = t.name /\ u.preset = t.preset => u \in l[p].cur
      BY <3>1, <3>2 DEF Mapped
    <3>4. l[p].cur # {} => p \in Admins /\ l[p].op = "reassign"
      BY DEF TypeInv, LocalTypes, LocalInv, LocalAt
    <3>5. /\ l[p].op = "reassign" => pc'[p] = "swap"
          /\ l'[p].cur = l[p].cur /\ pc[p] = "insert"
      BY <2>8 DEF Create_Insert, Step, TypeInv, LocalTypes, Local
    <3>6. \A a \in Admins : pc[a] = "swap" => pc'[a] = "swap" /\ l'[a].cur = l[a].cur
      BY <2>0, <3>5 DEF Alone, Procs
    <3>7. \A u \in tunnels : u.name = t.name /\ u.preset = t.preset =>
             \E a \in Admins : pc'[a] = "swap" /\ u \in l'[a].cur
      BY <3>3, <3>4, <3>5
    <3> QED BY <3>2, <3>6, <3>7 DEF IInv, OneMappingPerPreset
  <2>9. CASE Pushing(p)
    BY <2>9, <2>0, MappingKept, PushSteps DEF IInv
  <2> QED BY <1>2, <2>1, <2>2, <2>3, <2>4, <2>5, <2>6, <2>7, <2>8, <2>9, <2>10 DEF Operation
<1>3. ASSUME NEW a \in Admins, Request(a) PROVE OneMappingPerPreset'
  <2>0. a \in Procs /\ Alone(a)
    BY <1>3, OneMoves DEF Procs
  <2>1. ASSUME NEW name \in Names, Resync(a, name) PROVE OneMappingPerPreset'
    BY <2>1, <2>0, MappingKept DEF Resync, Step, BeginRequest, IInv, tunnelvars
  <2>2. ASSUME NEW name \in Names, Issue(a, name) PROVE OneMappingPerPreset'
    BY <2>2, <2>0, MappingKept DEF Issue, Step, BeginRequest, IInv, tunnelvars
  <2>3. ASSUME NEW name \in Names, Delete(a, name) PROVE OneMappingPerPreset'
    BY <2>3, <2>0, MappingKept DEF Delete, Step, BeginRequest, IInv, tunnelvars
  <2>4. ASSUME NEW t \in tunnels, Reassign(a, t) PROVE OneMappingPerPreset'
    BY <2>4, <2>0, MappingKept DEF Reassign, Step, BeginRequest, IInv, tunnelvars
  <2>5. CASE Issue_Close(a)
    BY <2>5, <2>0, MappingKept DEF Issue_Close, Step, BeginRequest, IInv, tunnelvars
  <2>6. CASE Releasing(a)
    <3>1. tunnels' \subseteq tunnels BY <2>6, ReleasingSteps, CloseKeepsPorts DEF IInv
    <3> QED BY <2>6, <2>0, <3>1, MappingKept, ReleasingSteps DEF IInv
  <2>7. CASE Reassign_Close(a)
    <3>1. tunnels' = tunnels \ l[a].cur BY <2>7 DEF Reassign_Close, Close
    <3>2. \A x \in Admins \ {a} : pc'[x] = pc[x] /\ l'[x] = l[x]
      BY <2>0 DEF Alone, Procs
    <3> QED BY <3>1, <3>2 DEF IInv, OneMappingPerPreset
  <2> QED BY <1>3, <2>1, <2>2, <2>3, <2>4, <2>5, <2>6, <2>7 DEF Request
<1>4. ASSUME Process PROVE OneMappingPerPreset'
  <2>1. ASSUME NEW t \in tunnels, Listener_Fails(t) PROVE OneMappingPerPreset'
    <3>1. tunnels' \subseteq tunnels BY <2>1, CloseKeepsPorts DEF Listener_Fails, IInv
    <3>2. UNCHANGED <<pc, l>> BY <2>1 DEF Listener_Fails
    <3> QED BY <3>1, <3>2 DEF IInv, OneMappingPerPreset
  <2>2. ASSUME NEW t \in tunnels, Shutdown_CloseTunnel(t) PROVE OneMappingPerPreset'
    <3>1. tunnels' \subseteq tunnels
      BY <2>2, CloseKeepsPorts DEF Shutdown_CloseTunnel, IInv
    <3>2. UNCHANGED <<pc, l>> BY <2>2 DEF Shutdown_CloseTunnel
    <3> QED BY <3>1, <3>2 DEF IInv, OneMappingPerPreset
  <2>3. CASE Exit BY <2>3 DEF Exit, OneMappingPerPreset
  <2>4. CASE RestoreTunnel
    <3>1. PICK m \in todo : RestoreOne(m) \/ RestoreFailed(m) BY <2>4 DEF RestoreTunnel
    <3>2. CASE RestoreOne(m)
      <4>1. PICK t \in Tunnel : /\ t.name = m.name /\ t.preset = m.preset
                                /\ tunnels' = tunnels \cup {t}
        BY <3>2, RestoredTunnel
      <4>2. \A u \in tunnels : ~(u.name = t.name /\ u.preset = t.preset)
        BY <3>2, <4>1 DEF RestoreOne, RestoreOk, Mapped
      <4>3. UNCHANGED <<pc, l>> BY <3>2 DEF RestoreOne
      <4> QED BY <4>1, <4>2, <4>3 DEF IInv, OneMappingPerPreset
    <3>3. CASE RestoreFailed(m) BY <3>3, <1>0 DEF RestoreFailed, tunnelvars
    <3> QED BY <3>1, <3>2, <3>3
  <2>5. CASE PeriodicSave \/ Shutdown \/ Shutdown_CloseControls \/ Restart \/ Serve
    BY <1>0, <2>5 DEF PeriodicSave, Shutdown, Shutdown_CloseControls, Restart, Serve,
        procvars, nodevars, tunnelvars
  <2> QED BY <1>4, <2>1, <2>2, <2>3, <2>4, <2>5 DEF Process
<1>5. CASE UNCHANGED vars BY <1>0, <1>5 DEF vars
<1> QED BY <1>1, <1>2, <1>3, <1>4, <1>5 DEF Next

LEMMA IInvStep == TypeInv /\ IInv /\ [Next]_vars => IInv'
<1> SUFFICES ASSUME TypeInv, IInv, [Next]_vars PROVE IInv'
  OBVIOUS
<1>1. PortTableAgrees' BY PortTableStep
<1>2. HolderInv' /\ PhaseInv' /\ OneMappingPerPreset'
  BY HolderInvStep, PhaseInvStep, OneMappingStep
<1>3. FileInv' BY <1>1, FileInvStep
<1> QED BY <1>1, <1>2, <1>3 DEF IInv

LEMMA InductiveInvariant == Spec => [](TypeInv /\ IInv)
<1>1. Init => TypeInv /\ IInv BY TypeInit, IInvInit
<1>2. TypeInv /\ IInv /\ [Next]_vars => (TypeInv /\ IInv)' BY TypeStep, IInvStep
<1> QED BY <1>1, <1>2, PTL DEF Spec

(* Server.tunnels and Server.ports agree and no port is given out twice,   *)
(* however creations, reassignments, deletions, failing listeners, crashes *)
(* and restores overlap. A restore does not consult the port table: it is  *)
(* the file that never holds a port twice.                                 *)
THEOREM TablesAgree == Spec => []PortTableAgrees
<1>1. IInv => PortTableAgrees BY DEF IInv
<1> QED BY InductiveInvariant, <1>1, PTL

(* A preset never gets a second mapping, except for the moment in which a  *)
(* reassignment replaces the first.                                        *)
THEOREM PresetsAreMappedOnce == Spec => []OneMappingPerPreset
<1>1. IInv => OneMappingPerPreset BY DEF IInv
<1> QED BY InductiveInvariant, <1>1, PTL

-----------------------------------------------------------------------------
(* What a restart restores.                                                *)

(* A restore works through the mappings of the file: the registered        *)
(* tunnels come from it, and each mapping it is done with is restored,     *)
(* unless the preset was undeclared, its port was taken, or the file held  *)
(* another mapping of the preset, which is then the restored one.          *)
From(t, m) == t.name = m.name /\ t.preset = m.preset /\ t.port = m.port
Accounted(m) == Restored(m) \/ (Twice(m, boot) /\ Mapped(m.name, m.preset, {}))
RestoreInv ==
    /\ phase = "down" => boot = disk.tunnels
    /\ phase = "restoring" =>
          /\ todo \subseteq boot
          /\ \A t \in tunnels : \E m \in boot \ todo : From(t, m)
          /\ \A m \in boot \ todo : Declared(m) /\ m.port \notin foreign => Accounted(m)

(* No exit interrupts a restore.  One that does loses the mappings not     *)
(* restored yet, since every restored tunnel saves the registry over the   *)
(* file.                                                                   *)
UninterruptedStep == ~(phase = "restoring" /\ phase' = "down")
Uninterrupted == [][UninterruptedStep]_vars

(* One mapping is restored, or turned down.                                *)
LEMMA RestoreOneKeeps ==
    ASSUME TypeInv, IInv, RestoreInv, phase = "restoring", NEW m \in todo, RestoreOne(m)
    PROVE  RestoreInv'
<1>1. PICK t \in Tunnel : /\ From(t, m)
                          /\ tunnels' = tunnels \cup {t}
  BY RestoredTunnel DEF From
<1>2. UNCHANGED <<phase, nodes, node, foreign, boot>> /\ todo' = todo \ {m}
  BY DEF RestoreOne, nodevars
<1>3. \A k \in SavedTunnel : /\ Declared(k)' <=> Declared(k)
                             /\ Accounted(k) => Accounted(k)'
                             /\ From(t, k) => Accounted(k)'
  BY <1>1, <1>2 DEF Declared, Accounted, Restored, Mapped, Twice, From
<1>4. m \in boot /\ boot \subseteq SavedTunnel
  BY DEF RestoreInv, TypeInv, FileTypes
<1> QED BY <1>1, <1>2, <1>3, <1>4 DEF RestoreInv

LEMMA RestoreFailedKeeps ==
    ASSUME TypeInv, IInv, RestoreInv, phase = "restoring", NEW m \in todo, RestoreFailed(m)
    PROVE  RestoreInv'
<1>1. /\ UNCHANGED <<phase, nodes, tunnels, foreign, boot>> /\ todo' = todo \ {m}
      /\ \A x \in NodeObjs : node'[x].presets = node[x].presets
  BY DEF RestoreFailed, tunnelvars, TypeInv, NodeTypes, NodeRecord
<1>2. m \in boot /\ boot \subseteq SavedTunnel
  BY DEF RestoreInv, TypeInv, FileTypes
<1>3. \A k \in SavedTunnel :
        (Declared(k)' <=> Declared(k)) /\ (Accounted(k)' <=> Accounted(k))
  BY <1>1
  DEF Declared, Accounted, Restored, Mapped, Twice, TypeInv, NodeTypes, SavedTunnel
<1>4. \A t \in tunnels : \E k \in boot \ {m} : From(t, k)
  BY DEF RestoreInv
<1>5. m.port \notin foreign => Accounted(m)
  <2> SUFFICES ASSUME m.port \notin foreign PROVE Accounted(m)
    OBVIOUS
  <2>1. \A t \in tunnels : t.port # m.port BY DEF IInv, FileInv
  <2>2. Mapped(m.name, m.preset, {}) BY <2>1 DEF RestoreFailed, RestoreOk
  <2>3. PICK t \in tunnels : t.name = m.name /\ t.preset = m.preset BY <2>2 DEF Mapped
  <2>4. PICK k \in boot \ {m} : From(t, k) BY <1>4, <2>3
  <2> QED BY <2>2, <2>3, <2>4 DEF Accounted, Twice, From
<1>6. \A t \in tunnels : \E k \in boot \ (todo \ {m}) : From(t, k) BY DEF RestoreInv
<1> QED BY <1>1, <1>2, <1>3, <1>5, <1>6 DEF RestoreInv

LEMMA RestoreInvStep ==
    TypeInv /\ IInv /\ RestoreInv /\ [UninterruptedStep]_vars /\ [Next]_vars => RestoreInv'
<1> SUFFICES ASSUME TypeInv, IInv, RestoreInv, [UninterruptedStep]_vars, [Next]_vars
             PROVE  RestoreInv'
  OBVIOUS
<1>0. ASSUME phase \in {"up", "stopping"}, phase' = phase PROVE RestoreInv'
  BY <1>0 DEF RestoreInv
<1>1. ASSUME NEW c \in Conns, Handler(c) PROVE RestoreInv'
  <2>1. ASSUME NEW name \in Names, NEW tok \in 1..issued, NEW ps \in Registrations,
               Register_Check(c, name, tok, ps)
       PROVE  RestoreInv'
    BY <1>0, <2>1 DEF Register_Check, procvars, nodevars, tunnelvars, Running
  <2>2. CASE Register_Update(c) \/ Register_Respond(c) \/ Register_RespondFails(c)
             \/ ControlLoop_Exit(c)
    BY <1>0, <2>2 DEF Register_Update, Register_Respond, Register_RespondFails,
        ControlLoop_Exit, procvars, nodevars, tunnelvars, Running
  <2> QED BY <1>1, <2>1, <2>2 DEF Handler
<1>2. ASSUME NEW p \in Procs, Operation(p) PROVE RestoreInv'
  <2>1. CASE Sync_Copy(p) \/ Sync_List(p) \/ Sync_Close(p) \/ Sync_Closed(p) \/ Sync_Finish(p)
             \/ Create_Begin(p) \/ Create_Listen(p) \/ Create_NoPort(p)
             \/ Create_Insert(p)
    <3>1. Running /\ UNCHANGED procvars
      BY <2>1
      DEF Sync_Copy, Sync_List, Sync_Close, Sync_Closed, Sync_Finish, Create_Begin,
          Create_Listen, Create_NoPort, Create_Insert
    <3> QED BY <1>0, <3>1 DEF procvars, Running
  <2>2. CASE Pushing(p) BY <1>0, <2>2, PushFacts DEF procvars, tunnelvars, Running
  <2> QED BY <1>2, <2>1, <2>2 DEF Operation
<1>3. ASSUME NEW a \in Admins, Request(a) PROVE RestoreInv'
  <2>1. ASSUME NEW name \in Names, Resync(a, name) PROVE RestoreInv'
    BY <1>0, <2>1 DEF Resync, BeginRequest, procvars, nodevars, tunnelvars, Running
  <2>2. ASSUME NEW name \in Names, Issue(a, name) PROVE RestoreInv'
    BY <1>0, <2>2 DEF Issue, BeginRequest, procvars, nodevars, tunnelvars, Running
  <2>3. ASSUME NEW name \in Names, Delete(a, name) PROVE RestoreInv'
    BY <1>0, <2>3 DEF Delete, BeginRequest, procvars, nodevars, tunnelvars, Running
  <2>4. ASSUME NEW t \in tunnels, Reassign(a, t) PROVE RestoreInv'
    BY <1>0, <2>4 DEF Reassign, BeginRequest, procvars, nodevars, tunnelvars, Running
  <2>5. CASE Issue_Close(a) \/ Releasing(a) \/ Reassign_Close(a)
    <3>1. Running /\ UNCHANGED procvars
      BY <2>5 DEF Issue_Close, Releasing, Delete_Control, Delete_Close, Delete_Finish,
          Reassign_Close
    <3> QED BY <1>0, <3>1 DEF procvars, Running
  <2> QED BY <1>3, <2>1, <2>2, <2>3, <2>4, <2>5 DEF Request
<1>4. ASSUME Process PROVE RestoreInv'
  <2>1. CASE Shutdown BY <2>1 DEF Shutdown, RestoreInv
  <2>2. CASE Exit BY <2>2 DEF Exit, UninterruptedStep, RestoreInv, vars
  <2>3. CASE Restart
    <3>1. /\ boot' = disk.tunnels /\ phase' = "restoring" /\ tunnels' = {}
      BY <2>3 DEF Restart, IInv, PhaseInv, RestoreInv, tunnelvars
    <3>2. todo' = {m \in boot' : /\ m.name \in DOMAIN disk.nodes
                                 /\ m.preset \in DOMAIN disk.nodes[m.name].presets}
      BY <2>3, <3>1 DEF Restart
    <3>3. ASSUME NEW m \in boot', Declared(m)' PROVE m \in todo'
      <4>1. m.name \in Names BY <3>1 DEF TypeInv, FileTypes, SavedTunnel
      <4>2. m.name \in DOMAIN disk.nodes /\ nodes'[m.name] = NodeObjFor(m.name)
        BY <2>3, <3>3, <4>1 DEF Restart, Declared
      <4> DEFINE x == NodeObjFor(m.name)
      <4>3. x \in NodeObjs BY <4>1, ObjFacts
      <4>4. (CHOOSE n \in DOMAIN disk.nodes : NodeObjFor(n) = x) = m.name
        BY <4>1, <4>2, ObjFacts DEF TypeInv, FileTypes
      <4>5. node'[x].presets = disk.nodes[m.name].presets
        BY <2>3, <4>2, <4>3, <4>4 DEF Restart
      <4> QED BY <3>2, <3>3, <4>2, <4>5 DEF Declared
    <3> QED BY <3>1, <3>2, <3>3 DEF RestoreInv
  <2>4. CASE RestoreTunnel
    BY <2>4, RestoreOneKeeps, RestoreFailedKeeps DEF RestoreTunnel
  <2>5. CASE Serve BY <2>5 DEF Serve, RestoreInv
  <2>6. ASSUME NEW t \in tunnels, Listener_Fails(t) PROVE RestoreInv'
    BY <1>0, <2>6 DEF Listener_Fails, procvars, nodevars, tunnelvars, Running
  <2>7. ASSUME NEW t \in tunnels, Shutdown_CloseTunnel(t) PROVE RestoreInv'
    BY <1>0, <2>7 DEF Shutdown_CloseTunnel, procvars, nodevars, tunnelvars, Running
  <2>8. CASE PeriodicSave \/ Shutdown_CloseControls
    BY <1>0, <2>8 DEF PeriodicSave, Shutdown_CloseControls, procvars, nodevars,
        tunnelvars, Running
  <2> QED BY <1>4, <2>1, <2>2, <2>3, <2>4, <2>5, <2>6, <2>7, <2>8 DEF Process
<1>5. CASE UNCHANGED vars
  BY <1>5 DEF vars, RestoreInv, From, Accounted, Restored, Mapped, Twice, Declared
<1> QED BY <1>1, <1>2, <1>3, <1>4, <1>5 DEF Next

LEMMA RestoreInvariant == Spec /\ Uninterrupted => [](TypeInv /\ RestoreInv)
<1>1. Init => RestoreInv BY DEF Init, RestoreInv
<1>2. TypeInv /\ IInv /\ RestoreInv /\ [UninterruptedStep]_vars /\ [Next]_vars =>
        RestoreInv'
  BY RestoreInvStep
<1> QED BY <1>1, <1>2, InductiveInvariant, PTL DEF Spec, Uninterrupted

(* However often the server goes down, a restart that is not interrupted   *)
(* listens again on every port that was in the file, unless the port was   *)
(* taken meanwhile, the preset is not declared any more, or the file held  *)
(* two mappings of it.                                                     *)
THEOREM RestartsKeepPorts == Spec /\ Uninterrupted => []RestartKeepsPorts
<1>1. TypeInv /\ RestoreInv => RestartKeepsPorts
  BY DEF RestoreInv, RestartKeepsPorts, Accounted
<1> QED BY RestoreInvariant, <1>1, PTL

(* Even of two mappings of a preset, left by a crash in the middle of a    *)
(* reassignment, one is restored.                                          *)
THEOREM RestartsKeepMappings == Spec /\ Uninterrupted => []RestartKeepsMapping
<1>1. TypeInv /\ RestoreInv => RestartKeepsMapping
  BY DEF RestoreInv, RestartKeepsMapping, Accounted, Restored, Mapped
<1> QED BY RestoreInvariant, <1>1, PTL

-----------------------------------------------------------------------------
(* What serial operations provision.                                       *)

(* The mappings ts are all declared by the presets ps; they serve q.        *)
FitIn(ts, ps) == \A t \in ts : t.preset \in DOMAIN ps /\ ps[t.preset] = t.proto
ServedBy(ts, ps, q) == \E t \in ts : t.preset = q /\ ps[q] = t.proto

(* A connected node r has what it declares, or shows an error.              *)
Settled(r, ts) ==
    r.conn # None => /\ FitIn(ts, r.presets)
                     /\ \A q \in DOMAIN r.presets : r.perr \/ ServedBy(ts, r.presets, q)

(* At rest: obj is the registered identity of the node, r its record and ts *)
(* its mappings.                                                           *)
AtRest(obj, r, ts) == IF obj = 0 THEN ts = {} ELSE Settled(r, ts)

(* What an operation of p has established at each of its places, if no      *)
(* other works on the node.                                                 *)
Syncing == {"checked", "respond", "sync", "list", "close"}
Creating == {"create", "listen", "insert"}
Stage(p, at, loc, obj, r, ts) ==
    /\ at \notin {"deleted", "releasing"} => obj # 0
    /\ at \in {"deleted", "releasing"} => obj = 0 /\ ts \subseteq loc.ex
    /\ at \in {"checked", "respond"} => loc.node = obj
    /\ at = "respond" => r.conn \in {p, None}
    /\ at \in Syncing => loc.op # "reassign"
    /\ at \in {"list", "close"} => loc.ps = r.presets
    /\ at \in {"list", "close"} \cup Creating /\ loc.op # "reassign" => loc.obj = obj
    /\ at = "close" =>
          /\ FitIn(ts \ loc.ex, r.presets)
          /\ \A q \in DOMAIN r.presets : q \in loc.miss \/ ServedBy(ts \ loc.ex, r.presets, q)
    /\ at \in Creating /\ loc.op # "reassign" =>
          /\ FitIn(ts, r.presets)
          /\ \A q \in DOMAIN r.presets : q \in loc.miss \/ loc.err \/ ServedBy(ts, r.presets, q)
    /\ at \in Creating /\ loc.op = "reassign" =>
          /\ Settled(r, ts)
          /\ \A t \in loc.cur : loc.miss = {t.preset}
    /\ at \in {"listen", "insert"} =>
          Min(loc.miss) \in DOMAIN r.presets /\ r.presets[Min(loc.miss)] = loc.proto
    /\ at = "swap" => Settled(r, ts \ loc.cur)
    /\ at \in {"push", "send", "write", "issued"} => Settled(r, ts)

StageAt(p, n) == Stage(p, pc[p], l[p], nodes[n], node[nodes[n]], TunnelsOf(n))
RestAt(n) == AtRest(nodes[n], node[nodes[n]], TunnelsOf(n))

SerialAt(n) ==
    /\ \A p, x \in Busy(n) : p = x
    /\ \A p \in Busy(n) : StageAt(p, n)
    /\ Busy(n) = {} => RestAt(n)

(* An identity and a mapping belong to one name: the registry's, and that   *)
(* of the goroutines that hold them.                                        *)
OwnedBy(loc, n) ==
    /\ nodes[n] # 0 /\ nodes[n] \in {loc.node, loc.obj} => loc.name = n
    /\ \A t \in loc.ex \cup loc.cur : t.name = loc.name
OwnerInv ==
    /\ \A n, m \in Names : nodes[n] = nodes[m] /\ nodes[n] # 0 => n = m
    /\ \A p \in Procs, n \in Names : OwnedBy(l[p], n)
    /\ phase = "down" => \A p \in Procs : l[p].node = 0 /\ l[p].obj = 0

LEMMA SerialMeans ==
    ASSUME phase = "up" => \A n \in Names \ raced : SerialAt(n)
    PROVE  SerialOperationsProvision
<1> SUFFICES ASSUME NEW n \in Names \ raced, Quiet(n)
             PROVE  Provisioned(n) /\ NoOrphans(n)
  BY DEF SerialOperationsProvision, Provisioned, NoOrphans
<1>1. RestAt(n) BY DEF SerialAt, Quiet
<1>2. NoOrphans(n) BY <1>1 DEF RestAt, AtRest, NoOrphans
<1>3. ASSUME nodes[n] # 0, node[nodes[n]].conn # None
      PROVE  /\ FitIn(TunnelsOf(n), node[nodes[n]].presets)
             /\ \A q \in DOMAIN node[nodes[n]].presets :
                   \/ node[nodes[n]].perr
                   \/ ServedBy(TunnelsOf(n), node[nodes[n]].presets, q)
  BY <1>1, <1>3 DEF RestAt, AtRest, Settled
<1>4. Provisioned(n) BY <1>3 DEF Provisioned, FitIn, ServedBy, Declares
<1> QED BY <1>2, <1>4

(* A stage does not notice that the node loses its connection.             *)
SameNode(n) ==
    /\ nodes'[n] = nodes[n]
    /\ nodes[n] # 0 => /\ node'[nodes[n]].presets = node[nodes[n]].presets
                       /\ node'[nodes[n]].perr = node[nodes[n]].perr
                       /\ node'[nodes[n]].conn \in {node[nodes[n]].conn, None}
SameTunnels(n) == TunnelsOf(n)' = TunnelsOf(n)

LEMMA SettledKept ==
    ASSUME NEW r, NEW s, NEW ts, s.presets = r.presets, s.perr = r.perr,
           s.conn \in {r.conn, None}, Settled(r, ts)
    PROVE  Settled(s, ts)
BY DEF Settled

LEMMA StageKept ==
    ASSUME NEW p, NEW at, NEW loc, NEW obj, NEW r, NEW s, NEW ts,
           obj # 0 => s.presets = r.presets /\ s.perr = r.perr /\ s.conn \in {r.conn, None},
           Stage(p, at, loc, obj, r, ts)
    PROVE  Stage(p, at, loc, obj, s, ts)
<1>1. CASE obj = 0 BY <1>1 DEF Stage, Syncing, Creating
<1>2. CASE obj # 0
  <2>1. \A us : Settled(r, us) => Settled(s, us) BY <1>2, SettledKept
  <2> QED BY <1>2, <2>1 DEF Stage
<1> QED BY <1>1, <1>2

(* Nothing happens to the node n.                                          *)
LEMMA SerialElsewhere ==
    ASSUME NEW n \in Names, SerialAt(n), SameNode(n), SameTunnels(n),
           \A p \in Procs : \/ pc'[p] = pc[p] /\ l'[p] = l[p]
                            \/ p \notin Busy(n) /\ (pc'[p] \in Resting \/ l'[p].name # n)
    PROVE  SerialAt(n)'
<1>1. Busy(n)' = Busy(n) /\ \A p \in Busy(n) : pc'[p] = pc[p] /\ l'[p] = l[p]
  BY DEF Busy
<1>2. ASSUME NEW p \in Busy(n) PROVE StageAt(p, n)'
  BY <1>1, StageKept DEF SerialAt, StageAt, SameNode, SameTunnels
<1>3. RestAt(n) => RestAt(n)'
  BY SettledKept DEF RestAt, AtRest, SameNode, SameTunnels
<1> QED BY <1>1, <1>2, <1>3 DEF SerialAt

(* The operation on n takes a step, ends or begins.                        *)
LEMMA SerialHere ==
    ASSUME NEW n \in Names, NEW p \in Procs, Busy(n) \subseteq {p}, Alone(p),
           \/ pc'[p] \notin Resting /\ l'[p].name = n /\ StageAt(p, n)'
           \/ pc'[p] \in Resting /\ RestAt(n)'
    PROVE  SerialAt(n)'
<1>1. Busy(n)' = IF pc'[p] \notin Resting /\ l'[p].name = n THEN {p} ELSE {}
  BY DEF Busy, Alone
<1> QED BY <1>1 DEF SerialAt

(* A goroutine that goes on with what it has begun.                        *)
HandlerWork(c) ==
    Register_Update(c) \/ Register_Respond(c) \/ Register_RespondFails(c) \/ ControlLoop_Exit(c)
RequestWork(a) == Issue_Close(a) \/ Releasing(a) \/ Reassign_Close(a)
Work(p) == Operation(p) \/ (p \in Conns /\ HandlerWork(p)) \/ (p \in Admins /\ RequestWork(p))

(* It keeps to its node: what it holds afterwards it held, or found under   *)
(* the name it works on.                                                   *)
KeepsTo(p) ==
    \/ l'[p] = NoLocal
    \/ /\ l'[p].name = l[p].name
       /\ l'[p].node \in {l[p].node, 0}
       /\ l'[p].obj \in {l[p].obj, nodes[l[p].name], 0}
       /\ l'[p].ex \subseteq l[p].ex \cup TunnelsOf(l[p].name)
       /\ l'[p].cur \subseteq l[p].cur

LEMMA EndOpKeepsTo ==
    ASSUME LocalTypes, NEW p \in Procs, EndOp(p)
    PROVE  KeepsTo(p)
BY DEF LocalTypes, EndOp, NoLocal, KeepsTo

LEMMA CreateFailedKeepsTo ==
    ASSUME LocalTypes, NEW p \in Procs, NEW preset, CreateFailed(p, preset)
    PROVE  KeepsTo(p)
<1>1. CASE l[p].op = "reassign" BY <1>1, EndOpKeepsTo DEF CreateFailed
<1>2. CASE l[p].op # "reassign" BY <1>2 DEF CreateFailed, LocalTypes, Local, KeepsTo
<1> QED BY <1>1, <1>2

LEMMA WorkFacts ==
    ASSUME TypeInv, NEW p \in Procs, Work(p)
    PROVE  /\ Alone(p) /\ KeepsTo(p) /\ UNCHANGED <<nodes, phase, raced>>
           /\ Running /\ (pc[p] \in Resting => ControlLoop_Exit(p))
<1> DEFINE Facts == /\ UNCHANGED <<nodes, phase, raced>>
                    /\ Running /\ (pc[p] \in Resting => ControlLoop_Exit(p))
<1>0. LocalTypes BY DEF TypeInv
<1>l. l \in [Procs -> Local] BY <1>0 DEF LocalTypes
<1> USE DEF Step, Resting, procvars, nodevars
<1>1. CASE p \in Conns /\ HandlerWork(p)
  <2>1. Alone(p) BY <1>1, OneMoves DEF HandlerWork, Handler
  <2>2. Facts
    BY <1>1
    DEF HandlerWork, Register_Update, Register_Respond, Register_RespondFails, ControlLoop_Exit
  <2>3. Register_Update(p) => KeepsTo(p) BY <1>l DEF Register_Update, Local, KeepsTo
  <2>4. Register_Respond(p) => KeepsTo(p) BY <1>l DEF Register_Respond, Local, KeepsTo
  <2>5. Register_RespondFails(p) \/ ControlLoop_Exit(p) => KeepsTo(p)
    BY <1>l DEF Register_RespondFails, ControlLoop_Exit, KeepsTo
  <2> QED BY <1>1, <2>1, <2>2, <2>3, <2>4, <2>5 DEF HandlerWork
<1>2. CASE p \in Admins /\ RequestWork(p)
  <2>1. Alone(p) BY <1>2, OneMoves DEF RequestWork, Request
  <2>2. Facts
    BY <1>2
    DEF RequestWork, Issue_Close, Releasing, Delete_Control, Delete_Close, Delete_Finish,
        Reassign_Close
  <2>3. Issue_Close(p) \/ Delete_Finish(p) => KeepsTo(p)
    BY <1>0, EndOpKeepsTo DEF Issue_Close, Delete_Finish
  <2>5. Delete_Control(p) => KeepsTo(p) BY DEF Delete_Control, KeepsTo
  <2>6. Delete_Close(p) => KeepsTo(p) BY <1>0, CloseNextFacts DEF Delete_Close, KeepsTo
  <2>4. Reassign_Close(p) => KeepsTo(p) BY <1>l DEF Reassign_Close, Local, KeepsTo
  <2> QED BY <1>2, <2>1, <2>2, <2>3, <2>4, <2>5, <2>6 DEF RequestWork, Releasing
<1>3. CASE Operation(p)
  <2>0. Alone(p) BY <1>3, OneMoves
  <2>1. Facts
    <3>1. CASE Sync_Copy(p) \/ Sync_List(p) \/ Sync_Close(p) \/ Sync_Closed(p) \/ Sync_Finish(p)
      BY <3>1 DEF Sync_Copy, Sync_List, Sync_Close, Sync_Closed, Sync_Finish
    <3>4. CASE Pushing(p) BY <3>4, PushFacts
    <3>2. CASE Create_Begin(p) \/ Create_NoPort(p) BY <3>2 DEF Create_Begin, Create_NoPort
    <3>3. CASE Create_Listen(p) \/ Create_Insert(p) BY <3>3 DEF Create_Listen, Create_Insert
    <3> QED BY <1>3, <3>1, <3>2, <3>3, <3>4 DEF Operation
  <2>2. Sync_Copy(p) => KeepsTo(p) BY <1>0, <1>l, EndOpKeepsTo DEF Sync_Copy, Local, KeepsTo
  <2>3. ASSUME Pushing(p) PROVE KeepsTo(p)
    <3>1. CASE PushEnds(p) BY <1>0, <3>1, EndOpKeepsTo DEF PushEnds
    <3>2. CASE PushStays(p) BY <1>l, <3>2, PointedFacts DEF PushStays, KeepsTo
    <3> QED BY <2>3, <3>1, <3>2, PushFacts
  <2>4. ASSUME Create_Begin(p) PROVE KeepsTo(p)
    <3>1. CASE CreateFailed(p, Min(l[p].miss)) BY <1>0, <3>1, CreateFailedKeepsTo
    <3>2. CASE ~CreateFailed(p, Min(l[p].miss))
      BY <1>l, <2>4, <3>2 DEF Create_Begin, Local, KeepsTo
    <3> QED BY <3>1, <3>2
  <2>5. Create_NoPort(p) => KeepsTo(p) BY <1>0, CreateFailedKeepsTo DEF Create_NoPort
  <2>6. Sync_List(p) => KeepsTo(p) BY <1>l DEF Sync_List, Local, KeepsTo
  <2>7. Sync_Close(p) => KeepsTo(p) BY <1>0, CloseNextFacts DEF Sync_Close, KeepsTo
  <2>11. Sync_Closed(p) => KeepsTo(p) BY <1>l DEF Sync_Closed, Local, KeepsTo
  <2>8. Sync_Finish(p) => KeepsTo(p) BY <1>l DEF Sync_Finish, Local, KeepsTo
  <2>9. Create_Listen(p) => KeepsTo(p) BY <1>l DEF Create_Listen, Local, KeepsTo
  <2>10. Create_Insert(p) => KeepsTo(p) BY <1>l DEF Create_Insert, Local, KeepsTo
  <2> QED
    BY <1>3, <2>0, <2>1, <2>2, <2>3, <2>4, <2>5, <2>6, <2>7, <2>8, <2>9, <2>10, <2>11
    DEF Operation
<1> QED BY <1>1, <1>2, <1>3 DEF Work

-----------------------------------------------------------------------------
LEMMA OwnerKept ==
    ASSUME OwnerInv, NEW p \in Procs, Alone(p), KeepsTo(p),
           l'[p] # NoLocal => l[p].name \in Names, UNCHANGED nodes, phase' # "down"
    PROVE  OwnerInv'
<1>1. ASSUME NEW n \in Names PROVE OwnedBy(l[p], n)'
  <2>1. OwnedBy(l[p], n) BY DEF OwnerInv
  <2>2. CASE l'[p] = NoLocal
    <3>1. l'[p].node = 0 /\ l'[p].obj = 0 /\ l'[p].ex = {} /\ l'[p].cur = {}
      BY <2>2 DEF NoLocal
    <3> QED BY <3>1 DEF OwnedBy
  <2>3. CASE l'[p] # NoLocal
    <3>1. nodes[n] = nodes[l[p].name] /\ nodes[n] # 0 => l[p].name = n
      BY <2>3 DEF OwnerInv
    <3> QED BY <2>1, <2>3, <3>1 DEF OwnedBy, KeepsTo, TunnelsOf
  <2> QED BY <2>2, <2>3
<1>2. ASSUME NEW x \in Procs \ {p}, NEW n \in Names PROVE OwnedBy(l[x], n)'
  BY DEF OwnerInv, OwnedBy, Alone
<1> QED BY <1>1, <1>2 DEF OwnerInv

(* A goroutine starts to work on the node n.                               *)
BeginAt(p, n) ==
    \/ /\ p \in Conns /\ pc'[p] = "checked"
       /\ \E tok \in 1..issued, ps \in Registrations : Register_Check(p, n, tok, ps)
    \/ /\ p \in Admins
       /\ \/ Resync(p, n) \/ Issue(p, n) \/ Delete(p, n)
          \/ \E t \in TunnelsOf(n) : Reassign(p, t)

(* A registration that is refused changes nothing but the connection.      *)
Refuse(c) ==
    /\ pc[c] = "idle" /\ pc' = [pc EXCEPT ![c] = "done"]
    /\ UNCHANGED <<nodes, node, tunnels, l, raced, phase>>

LEMMA NextCases ==
    ASSUME TypeInv, [Next]_vars
    PROVE  \/ \E p \in Procs : Work(p)
           \/ \E p \in Procs, n \in Names : BeginAt(p, n)
           \/ \E c \in Conns : Refuse(c)
           \/ Process
           \/ UNCHANGED vars
<1>1. ASSUME NEW c \in Conns, Handler(c)
      PROVE  Work(c) \/ (\E n \in Names : BeginAt(c, n)) \/ Refuse(c)
  <2>1. ASSUME NEW n \in Names, NEW tok \in 1..issued, NEW ps \in Registrations,
               Register_Check(c, n, tok, ps)
        PROVE  BeginAt(c, n) \/ Refuse(c)
    <3>1. CASE pc'[c] = "checked" BY <2>1, <3>1 DEF BeginAt
    <3>2. CASE pc'[c] # "checked"
      BY <2>1, <3>2 DEF Register_Check, Refuse, TypeInv, LocalTypes, Procs, procvars, nodevars,
                        tunnelvars
    <3> QED BY <3>1, <3>2
  <2> QED BY <1>1, <2>1 DEF Handler, Work, HandlerWork
<1>2. ASSUME NEW p \in Procs, Operation(p) PROVE Work(p)
  BY <1>2 DEF Work
<1>3. ASSUME NEW a \in Admins, Request(a) PROVE Work(a) \/ \E n \in Names : BeginAt(a, n)
  <2>1. ASSUME NEW t \in tunnels, Reassign(a, t) PROVE \E n \in Names : BeginAt(a, n)
    <3>1. t.name \in Names /\ t \in TunnelsOf(t.name)
      BY DEF TypeInv, TunnelTypes, Tunnel, TunnelsOf
    <3> QED BY <2>1, <3>1 DEF BeginAt
  <2>2. ASSUME NEW n \in Names, Resync(a, n) \/ Issue(a, n) \/ Delete(a, n)
        PROVE  BeginAt(a, n)
    BY <2>2 DEF BeginAt
  <2> QED BY <1>3, <2>1, <2>2 DEF Request, Work, RequestWork
<1> QED BY <1>1, <1>2, <1>3 DEF Next, Procs

(* What it holds at first.                                                 *)
Holds(loc, op, n, obj, oob, ex, cur) ==
    loc.op = op /\ loc.name = n /\ loc.node = obj /\ loc.obj = oob /\ loc.ex = ex /\ loc.cur = cur

LEMMA BeginHolds ==
    ASSUME LocalTypes, NEW p \in Procs, NEW n \in Names
    PROVE  /\ \A tok \in 1..issued, ps \in Registrations :
                 Register_Check(p, n, tok, ps) /\ pc'[p] = "checked" =>
                    Holds(l'[p], "register", n, nodes[n], 0, {}, {})
           /\ Resync(p, n) => Holds(l'[p], "resync", n, 0, 0, {}, {})
           /\ Issue(p, n) => Holds(l'[p], "issue", n, 0, 0, {}, {})
           /\ Delete(p, n) => Holds(l'[p], "delete", n, 0, nodes[n], TunnelsOf(n), {})
           /\ \A t \in TunnelsOf(n) : Reassign(p, t) => Holds(l'[p], "reassign", n, 0, 0, {}, {t})
<1> USE DEF LocalTypes, NoLocal, Holds
<1>1. ASSUME NEW tok \in 1..issued, NEW ps \in Registrations, Register_Check(p, n, tok, ps),
             pc'[p] = "checked"
      PROVE  Holds(l'[p], "register", n, nodes[n], 0, {}, {})
  <2>1. l' = [l EXCEPT ![p] = [NoLocal EXCEPT !.op = "register", !.name = n,
                                               !.node = nodes[n], !.ps = ps]]
    BY <1>1 DEF Register_Check
  <2> QED BY <2>1
<1>2. Resync(p, n) => Holds(l'[p], "resync", n, 0, 0, {}, {}) BY DEF Resync
<1>3. ASSUME Issue(p, n) PROVE Holds(l'[p], "issue", n, 0, 0, {}, {})
  <2>1. CASE nodes[n] # 0
    <3>1. PICK o : l' = [l EXCEPT ![p] = [NoLocal EXCEPT !.op = "issue", !.name = n, !.old = o]]
      BY <1>3, <2>1 DEF Issue
    <3> QED BY <3>1
  <2>2. CASE nodes[n] = 0
    <3>1. l' = [l EXCEPT ![p] = [NoLocal EXCEPT !.op = "issue", !.name = n]]
      BY <1>3, <2>2 DEF Issue
    <3> QED BY <3>1
  <2> QED BY <2>1, <2>2
<1>4. Delete(p, n) => Holds(l'[p], "delete", n, 0, nodes[n], TunnelsOf(n), {}) BY DEF Delete
<1>5. \A t \in TunnelsOf(n) : Reassign(p, t) => Holds(l'[p], "reassign", n, 0, 0, {}, {t})
  BY DEF Reassign, TunnelsOf
<1> QED BY <1>1, <1>2, <1>3, <1>4, <1>5

LEMMA BeginFacts ==
    ASSUME TypeInv, NEW p \in Procs, NEW n \in Names, BeginAt(p, n)
    PROVE  /\ Alone(p) /\ pc[p] = "idle" /\ pc'[p] \notin Resting /\ l'[p].name = n
           /\ raced \subseteq raced' /\ (n \notin raced' => Busy(n) = {})
           /\ phase = "up" /\ UNCHANGED <<phase, tunnels>>
<1> USE DEF TypeInv, LocalTypes, BeginRequest, procvars, tunnelvars
<1>0. p \notin Busy(n) <=> pc[p] \in Resting \/ l[p].name # n BY DEF Busy
<1>1. CASE p \in Conns
  <2>1. PICK tok \in 1..issued, ps \in Registrations : Register_Check(p, n, tok, ps)
    BY <1>1, ConstantsAssumption DEF BeginAt, Procs
  <2>2. Alone(p) BY <1>1, <2>1, OneMoves DEF Handler
  <2>3. pc'[p] = "checked" BY <1>1, ConstantsAssumption DEF BeginAt
  <2>4. l'[p].name = n BY <2>1, <2>3, BeginHolds DEF Holds
  <2>5. pc[p] = "idle" /\ Overlap(p, n) BY <2>1, <2>3 DEF Register_Check
  <2>6. phase = "up" /\ UNCHANGED <<phase, tunnels>> BY <2>1 DEF Register_Check
  <2> QED BY <1>0, <2>2, <2>3, <2>4, <2>5, <2>6 DEF Overlap, Resting
<1>2. CASE p \in Admins
  <2>1. \/ Resync(p, n) \/ Issue(p, n) \/ Delete(p, n)
        \/ \E t \in TunnelsOf(n) : Reassign(p, t)
    BY <1>2, ConstantsAssumption DEF BeginAt
  <2>2. Alone(p) BY <1>2, <2>1, OneMoves DEF Request, TunnelsOf
  <2>3. /\ pc[p] = "idle" /\ pc'[p] \in {"sync", "issued", "deleted", "create"}
        /\ Overlap(p, n) /\ phase = "up" /\ UNCHANGED <<phase, tunnels>>
    BY <2>1 DEF Resync, Issue, Delete, Reassign, TunnelsOf
  <2>4. l'[p].name = n BY <2>1, BeginHolds DEF Holds
  <2> QED BY <1>0, <2>2, <2>3, <2>4 DEF Overlap, Resting
<1> QED BY <1>1, <1>2 DEF Procs

LEMMA OwnerStep == TypeInv /\ IInv /\ OwnerInv /\ [Next]_vars => OwnerInv'
<1> SUFFICES ASSUME TypeInv, IInv, OwnerInv, [Next]_vars PROVE OwnerInv'
  OBVIOUS
<1>0. ASSUME UNCHANGED <<nodes, l>>, phase' # "down" PROVE OwnerInv'
  BY <1>0 DEF OwnerInv, OwnedBy
<1>1. ASSUME NEW p \in Procs, Work(p) PROVE OwnerInv'
  <2>1. /\ Alone(p) /\ KeepsTo(p) /\ UNCHANGED <<nodes, phase>>
        /\ Running /\ (pc[p] \in Resting => ControlLoop_Exit(p))
    BY <1>1, WorkFacts
  <2>2. CASE pc[p] \in Resting
    <3>1. l'[p] = NoLocal BY <2>1, <2>2 DEF ControlLoop_Exit, TypeInv, LocalTypes
    <3> QED BY <2>1, <3>1, OwnerKept DEF Running
  <2>3. CASE pc[p] \notin Resting
    <3>1. l[p].name \in Names BY <2>3 DEF TypeInv, LocalTypes, LocalInv, LocalAt
    <3> QED BY <2>1, <3>1, OwnerKept DEF Running
  <2> QED BY <2>2, <2>3
<1>2. ASSUME NEW p \in Procs, NEW n \in Names, BeginAt(p, n) PROVE OwnerInv'
  <2>1. Alone(p) /\ l'[p].name = n /\ phase = "up" /\ UNCHANGED <<phase, tunnels>>
    BY <1>2, BeginFacts
  <2>2. \A t \in l'[p].ex \cup l'[p].cur : t.name = n
    BY <1>2, BeginHolds DEF TypeInv, BeginAt, Holds, TunnelsOf
  <2> DEFINE Held == {l'[p].node, l'[p].obj} \ {0}
  <2>3. CASE Issue(p, n) /\ nodes[n] = 0
    <3>1. Held = {} BY <2>3, BeginHolds DEF TypeInv, Holds
    <3>2. PICK o \in FreeObjs : nodes' = [nodes EXCEPT ![n] = o] BY <2>3 DEF Issue
    <3>3. \A m \in Names : nodes[m] # o BY DEF FreeObjs
    <3>4. \A x \in Procs : o \notin {l[x].node, l[x].obj} BY DEF FreeObjs
    <3>5. \A m \in Names : nodes'[m] = IF m = n THEN o ELSE nodes[m]
      BY <3>2 DEF TypeInv, NodeTypes
    <3>6. \A m, k \in Names : nodes'[m] = nodes'[k] /\ nodes'[m] # 0 => m = k
      BY <3>3, <3>5 DEF OwnerInv
    <3>7. ASSUME NEW x \in Procs, NEW m \in Names PROVE OwnedBy(l[x], m)'
      <4>1. OwnedBy(l[x], m) BY DEF OwnerInv
      <4>2. CASE x = p BY <2>1, <2>2, <3>1, <4>2 DEF OwnedBy
      <4>3. CASE x # p
        <5>1. l'[x] = l[x] BY <2>1, <4>3 DEF Alone
        <5> QED BY <3>4, <3>5, <4>1, <5>1 DEF OwnedBy
      <4> QED BY <4>2, <4>3
    <3> QED BY <2>1, <3>6, <3>7 DEF OwnerInv
  <2>4. CASE ~(Issue(p, n) /\ nodes[n] = 0)
    <3>1. Held \subseteq {nodes[n]}
      BY <1>2, BeginHolds DEF TypeInv, BeginAt, Holds
    <3>2. \A m \in Names : nodes'[m] = nodes[m] \/ (m = n /\ nodes'[m] = 0)
      <4>1. Delete(p, n) \/ UNCHANGED nodes
        BY <1>2, <2>4 DEF BeginAt, Register_Check, Resync, Issue, Reassign, nodevars
      <4> QED BY <4>1 DEF Delete, TypeInv, NodeTypes
    <3>3. ASSUME NEW x \in Procs, NEW m \in Names PROVE OwnedBy(l[x], m)'
      <4>1. OwnedBy(l[x], m) BY DEF OwnerInv
      <4>2. CASE x = p BY <2>1, <2>2, <3>1, <3>2, <4>2 DEF OwnedBy, OwnerInv
      <4>3. CASE x # p
        <5>1. l'[x] = l[x] BY <2>1, <4>3 DEF Alone
        <5> QED BY <3>2, <4>1, <5>1 DEF OwnedBy
      <4> QED BY <4>2, <4>3
    <3>4. \A m, k \in Names : nodes'[m] = nodes'[k] /\ nodes'[m] # 0 => m = k
      BY <3>2 DEF OwnerInv
    <3> QED BY <2>1, <3>3, <3>4 DEF OwnerInv
  <2> QED BY <2>3, <2>4
<1>3. ASSUME NEW c \in Conns, Refuse(c) PROVE OwnerInv'
  BY <1>0, <1>3 DEF Refuse, OwnerInv, OwnedBy
<1>4. ASSUME Process PROVE OwnerInv'
  <2>1. CASE Exit
    <3>1. /\ \A n \in Names : nodes'[n] = 0
          /\ \A p \in Procs : l'[p] = NoLocal
      BY <2>1 DEF Exit
    <3> QED BY <3>1 DEF OwnerInv, OwnedBy, NoLocal
  <2>2. CASE Restart
    <3>1. \A n \in Names : nodes'[n] \in {0, NodeObjFor(n)} BY <2>2 DEF Restart
    <3>2. \A p \in Procs : l'[p] = l[p] /\ l[p].node = 0 /\ l[p].obj = 0
      BY <2>2 DEF Restart, OwnerInv
    <3>3. \A n, m \in Names : nodes'[n] = nodes'[m] /\ nodes'[n] # 0 => n = m
      BY <3>1, ObjFacts
    <3>4. ASSUME NEW p \in Procs, NEW n \in Names PROVE OwnedBy(l[p], n)'
      <4>1. OwnedBy(l[p], n) BY DEF OwnerInv
      <4> QED BY <3>2, <4>1 DEF OwnedBy
    <3> QED BY <2>2, <3>3, <3>4 DEF OwnerInv, Restart
  <2>3. CASE ~Exit /\ ~Restart
    <3>1. UNCHANGED <<nodes, l>>
      BY <1>4, <2>3 DEF Process, Listener_Fails, Shutdown_CloseTunnel, PeriodicSave, Shutdown,
         Shutdown_CloseControls, RestoreTunnel, RestoreOne, RestoreFailed, Serve, nodevars
    <3>2. phase' # "down"
      BY <1>4, <2>3 DEF Process, Listener_Fails, Shutdown_CloseTunnel, PeriodicSave, Shutdown,
         Shutdown_CloseControls, RestoreTunnel, RestoreOne, RestoreFailed, Serve, procvars,
         Running
    <3> QED BY <1>0, <3>1, <3>2
  <2> QED BY <2>1, <2>2, <2>3
<1>5. CASE UNCHANGED vars
  BY <1>5 DEF vars, OwnerInv, OwnedBy
<1> QED BY <1>1, <1>2, <1>3, <1>4, <1>5, NextCases

LEMMA WorkElsewhereNode ==
    ASSUME TypeInv, OwnerInv, NEW n \in Names, NEW p \in Procs, Work(p),
           l[p].name # n \/ ControlLoop_Exit(p)
    PROVE  SameNode(n)
<1>0. /\ node \in [NodeObjs -> NodeRecord] /\ (nodes[n] # 0 => nodes[n] \in NodeObjs)
      /\ UNCHANGED nodes
  BY WorkFacts DEF TypeInv, NodeTypes
<1>1. ASSUME NEW x, NEW c, node' = Disconnected(x, c) PROVE SameNode(n)
  BY <1>0, <1>1 DEF Disconnected, SameNode, NodeRecord
<1>2. CASE UNCHANGED node BY <1>0, <1>2 DEF SameNode
<1>3. CASE Register_RespondFails(p) \/ ControlLoop_Exit(p)
  BY <1>1, <1>3 DEF Register_RespondFails, ControlLoop_Exit
<1>4. CASE Pushing(p)
  <2>1. PushEnds(p) \/ PushStays(p) BY <1>4, PushFacts
  <2> QED BY <1>1, <1>2, <2>1 DEF PushEnds, PushStays
<1>5. CASE l[p].name # n /\ Register_Update(p)
  <2>1. nodes[n] # 0 => nodes[n] # l[p].node BY <1>5 DEF OwnerInv, OwnedBy
  <2> QED BY <1>0, <1>5, <2>1 DEF Register_Update, SameNode
<1>6. CASE l[p].name # n /\ Sync_Finish(p)
  <2>1. nodes[n] # 0 => nodes[n] # l[p].obj BY <1>6 DEF OwnerInv, OwnedBy
  <2> QED BY <1>0, <1>6, <2>1 DEF Sync_Finish, SameNode
<1>7. CASE ~(Register_RespondFails(p) \/ ControlLoop_Exit(p) \/ Pushing(p) \/ Register_Update(p)
             \/ Sync_Finish(p))
  <2>1. UNCHANGED node
    BY <1>7
    DEF Work, HandlerWork, Operation, RequestWork, nodevars, Register_Respond, Sync_Copy,
        Sync_List, Sync_Close, Sync_Closed, Create_Begin, Create_Listen, Create_NoPort,
        Create_Insert, Issue_Close, Releasing, Delete_Control, Delete_Close, Delete_Finish,
        Reassign_Close
  <2> QED BY <1>2, <2>1
<1>8. ControlLoop_Exit(p) /\ (Register_Update(p) \/ Sync_Finish(p)) => SameNode(n) BY <1>3
<1> QED BY <1>3, <1>4, <1>5, <1>6, <1>7

LEMMA WorkElsewhereTunnels ==
    ASSUME TypeInv, OwnerInv, NEW n \in Names, NEW p \in Procs, Work(p),
           l[p].name # n \/ ControlLoop_Exit(p)
    PROVE  SameTunnels(n)
<1>1. CASE UNCHANGED tunnels BY <1>1 DEF SameTunnels, TunnelsOf
<1>2. CASE l[p].name # n /\ (Sync_Close(p) \/ Delete_Close(p) \/ Reassign_Close(p))
  <2>1. \A t \in l[p].ex \cup l[p].cur : t.name # n BY <1>2 DEF OwnerInv, OwnedBy
  <2>2. \E ts \in SUBSET (l[p].ex \cup l[p].cur) : tunnels' = tunnels \ ts
    BY <1>2 DEF Sync_Close, Delete_Close, CloseNext, Reassign_Close, Close
  <2> QED BY <2>1, <2>2 DEF SameTunnels, TunnelsOf
<1>3. CASE l[p].name # n /\ Create_Insert(p)
  <2>1. PICK t \in Tunnel : t.name = l[p].name /\ tunnels' = tunnels \cup {t}
    BY <1>3, EnteredTunnel
  <2> QED BY <1>3, <2>1 DEF SameTunnels, TunnelsOf
<1>4. CASE ~(Sync_Close(p) \/ Delete_Close(p) \/ Reassign_Close(p) \/ Create_Insert(p))
  <2>1. CASE Pushing(p) BY <1>1, <2>1, PushSteps
  <2>2. CASE ~Pushing(p)
    <3>1. UNCHANGED tunnels
      BY <1>4, <2>2
      DEF Work, HandlerWork, Operation, RequestWork, tunnelvars, Register_Update,
          Register_Respond, Register_RespondFails, ControlLoop_Exit, Sync_Copy, Sync_List,
          Sync_Closed, Sync_Finish, Create_Begin, Create_Listen, Create_NoPort,
          Issue_Close, Releasing, Delete_Control, Delete_Finish
    <3> QED BY <1>1, <3>1
  <2> QED BY <2>1, <2>2
<1>5. CASE ControlLoop_Exit(p) BY <1>1, <1>5 DEF ControlLoop_Exit, tunnelvars
<1> QED BY <1>2, <1>3, <1>4, <1>5

LEMMA SerialWorkElsewhere ==
    ASSUME TypeInv, OwnerInv, NEW n \in Names, NEW p \in Procs, Work(p),
           l[p].name # n \/ ControlLoop_Exit(p), SerialAt(n)
    PROVE  SerialAt(n)'
<1>1. SameNode(n) /\ SameTunnels(n) BY WorkElsewhereNode, WorkElsewhereTunnels
<1>2. Alone(p) /\ KeepsTo(p) /\ (pc[p] \in Resting => ControlLoop_Exit(p)) BY WorkFacts
<1>3. ControlLoop_Exit(p) => pc[p] \in Resting /\ pc'[p] \in Resting
  BY DEF ControlLoop_Exit, Step, Resting, TypeInv, LocalTypes
<1>4. p \notin Busy(n) BY <1>3 DEF Busy
<1>5. pc'[p] \in Resting \/ l'[p].name # n
  <2>1. CASE l[p].name # n /\ l'[p].name = n
    <3>1. l'[p] = NoLocal BY <1>2, <2>1 DEF KeepsTo
    <3> QED BY <2>1, <3>1, ConstantsAssumption DEF NoLocal
  <2> QED BY <1>3, <2>1
<1>6. \A x \in Procs : \/ pc'[x] = pc[x] /\ l'[x] = l[x]
                       \/ x \notin Busy(n) /\ (pc'[x] \in Resting \/ l'[x].name # n)
  BY <1>2, <1>4, <1>5 DEF Alone
<1> QED BY <1>1, <1>6, SerialElsewhere

LEMMA SerialBegin ==
    ASSUME TypeInv, OwnerInv, NEW p \in Procs, NEW m \in Names, BeginAt(p, m),
           NEW n \in Names \ raced', SerialAt(n)
    PROVE  SerialAt(n)'
<1>0. /\ Alone(p) /\ pc[p] = "idle" /\ pc'[p] \notin Resting /\ l'[p].name = m
      /\ raced \subseteq raced' /\ (m \notin raced' => Busy(m) = {}) /\ UNCHANGED tunnels
  BY BeginFacts
<1>t. SameTunnels(n) BY <1>0 DEF SameTunnels, TunnelsOf
<1>1. CASE m # n
  <2>1. SameNode(n)
    <3>0. /\ node \in [NodeObjs -> NodeRecord] /\ (nodes[n] # 0 => nodes[n] \in NodeObjs)
          /\ nodes \in [Names -> NodeObjs \cup {0}]
      BY DEF TypeInv, NodeTypes
    <3>1. CASE Issue(p, m)
      <4>1. CASE nodes[m] # 0
        <5>1. nodes[n] # nodes[m] BY <1>1, <4>1 DEF OwnerInv
        <5>2. /\ node' = [node EXCEPT ![nodes[m]].tok = issued', ![nodes[m]].conn = None]
              /\ UNCHANGED nodes
          BY <3>1, <4>1 DEF Issue
        <5> QED BY <3>0, <5>1, <5>2 DEF SameNode
      <4>2. CASE nodes[m] = 0
        <5>1. PICK o \in FreeObjs : /\ nodes' = [nodes EXCEPT ![m] = o]
                                    /\ node' = [node EXCEPT ![o] =
                                                  [FreshNode EXCEPT !.tok = issued']]
          BY <3>1, <4>2 DEF Issue
        <5>2. nodes[n] # o BY DEF FreeObjs
        <5> QED BY <1>1, <3>0, <5>1, <5>2 DEF SameNode
      <4> QED BY <4>1, <4>2
    <3>2. CASE Delete(p, m) BY <1>1, <3>0, <3>2 DEF Delete, SameNode
    <3>3. CASE ~Issue(p, m) /\ ~Delete(p, m)
      <4>1. UNCHANGED nodevars BY <3>3 DEF BeginAt, Register_Check, Resync, Reassign
      <4> QED BY <4>1 DEF nodevars, SameNode
    <3> QED BY <3>1, <3>2, <3>3
  <2>2. \A x \in Procs : \/ pc'[x] = pc[x] /\ l'[x] = l[x]
                         \/ x \notin Busy(n) /\ (pc'[x] \in Resting \/ l'[x].name # n)
    BY <1>0, <1>1 DEF Alone, Busy, Resting
  <2> QED BY <1>t, <2>1, <2>2, SerialElsewhere
<1>2. CASE m = n
  <2>1. Busy(n) = {} /\ RestAt(n) BY <1>0, <1>2 DEF SerialAt
  <2>2. TunnelsOf(n)' = TunnelsOf(n) BY <1>t DEF SameTunnels
  <2> DEFINE r == node[nodes[n]]
             ts == TunnelsOf(n)
  <2> USE DEF TypeInv, LocalTypes
  <2>3. StageAt(p, n)'
    <3>1. ASSUME NEW tok \in 1..issued, NEW ps \in Registrations,
                 Register_Check(p, n, tok, ps), pc'[p] = "checked"
          PROVE  StageAt(p, n)'
      <4>1. l'[p].node = nodes[n] /\ l'[p].op = "register" BY <3>1, BeginHolds DEF Holds
      <4>2. nodes'[n] = nodes[n] /\ nodes[n] # 0 BY <3>1 DEF Register_Check, nodevars
      <4> QED BY <3>1, <4>1, <4>2 DEF StageAt, Stage, Syncing, Creating
    <3>2. ASSUME Resync(p, n) PROVE StageAt(p, n)'
      <4>1. pc'[p] = "sync" BY <3>2 DEF Resync, BeginRequest
      <4>2. nodes'[n] = nodes[n] /\ nodes[n] # 0 BY <3>2 DEF Resync, nodevars
      <4>3. l'[p].op = "resync" BY <3>2, BeginHolds DEF Holds
      <4> QED BY <4>1, <4>2, <4>3 DEF StageAt, Stage, Syncing, Creating
    <3>3. ASSUME Issue(p, n) PROVE StageAt(p, n)'
      <4>1. pc'[p] = "issued" BY <3>3 DEF Issue, BeginRequest
      <4>2. nodes'[n] # 0 /\ node'[nodes'[n]].conn = None
        <5>0. /\ node \in [NodeObjs -> NodeRecord] /\ (nodes[n] # 0 => nodes[n] \in NodeObjs)
              /\ nodes \in [Names -> NodeObjs \cup {0}] /\ 0 \notin NodeObjs
          BY ConstantsAssumption DEF NodeTypes
        <5>1. CASE nodes[n] # 0
          <6>1. /\ node' = [node EXCEPT ![nodes[n]].tok = issued', ![nodes[n]].conn = None]
                /\ UNCHANGED nodes
            BY <3>3, <5>1 DEF Issue
          <6> QED BY <5>0, <5>1, <6>1 DEF NodeRecord
        <5>2. CASE nodes[n] = 0
          <6>1. PICK o \in FreeObjs : /\ nodes' = [nodes EXCEPT ![n] = o]
                                      /\ node' = [node EXCEPT ![o] =
                                                    [FreshNode EXCEPT !.tok = issued']]
            BY <3>3, <5>2 DEF Issue
          <6>2. o \in NodeObjs BY DEF FreeObjs
          <6> QED BY <5>0, <6>1, <6>2 DEF FreshNode
        <5> QED BY <5>1, <5>2
      <4>3. Settled(node'[nodes'[n]], TunnelsOf(n)') BY <4>2 DEF Settled
      <4> QED BY <4>1, <4>2, <4>3 DEF StageAt, Stage, Syncing, Creating
    <3>4. ASSUME Delete(p, n) PROVE StageAt(p, n)'
      <4>1. pc'[p] = "deleted" /\ nodes'[n] = 0
        BY <3>4 DEF Delete, BeginRequest, NodeTypes
      <4>2. l'[p].ex = TunnelsOf(n) BY <3>4, BeginHolds DEF Holds
      <4> QED BY <2>2, <4>1, <4>2 DEF StageAt, Stage, Syncing, Creating
    <3>5. ASSUME NEW t \in TunnelsOf(n), Reassign(p, t) PROVE StageAt(p, n)'
      <4>1. pc'[p] = "create" BY <3>5 DEF Reassign, BeginRequest
      <4>2. l'[p] = [NoLocal EXCEPT !.op = "reassign", !.name = t.name, !.miss = {t.preset},
                                    !.cur = {t}]
        BY <3>5 DEF Reassign
      <4>3. l'[p].op = "reassign" /\ l'[p].cur = {t} /\ l'[p].miss = {t.preset}
        BY <4>2 DEF NoLocal
      <4>4. UNCHANGED <<nodes, node>> BY <3>5 DEF Reassign, nodevars
      <4>5. nodes[n] # 0 /\ Settled(r, ts) BY <2>1 DEF RestAt, AtRest
      <4>6. Settled(r, ts)' BY <2>2, <4>4, <4>5
      <4> QED BY <2>2, <4>1, <4>3, <4>4, <4>5, <4>6 DEF StageAt, Stage, Syncing, Creating
    <3> QED BY <1>2, <3>1, <3>2, <3>3, <3>4, <3>5 DEF BeginAt
  <2> QED BY <1>0, <1>2, <2>1, <2>3, SerialHere
<1> QED BY <1>1, <1>2

(* The process serves, and nobody's registration is settled yet.           *)
RestoringInv == phase = "restoring" => \A t \in tunnels : nodes[t.name] # 0

LEMMA RestoringStep == TypeInv /\ IInv /\ RestoringInv /\ [Next]_vars => RestoringInv'
<1> SUFFICES ASSUME TypeInv, IInv, RestoringInv, [Next]_vars, phase' = "restoring",
                    NEW t \in tunnels'
             PROVE  nodes'[t.name] # 0
  BY DEF RestoringInv
<1>1. CASE Process
  <2>1. CASE Restart BY <2>1 DEF Restart, IInv, PhaseInv, tunnelvars
  <2>2. CASE RestoreTunnel
    <3>1. PICK m \in todo : RestoreOne(m) \/ RestoreFailed(m) BY <2>2 DEF RestoreTunnel
    <3>2. phase = "restoring" BY <2>2 DEF RestoreTunnel
    <3>3. CASE RestoreOne(m)
      <4>1. PICK u \in Tunnel : u.name = m.name /\ tunnels' = tunnels \cup {u}
        BY <3>3, RestoredTunnel
      <4>2. nodes[m.name] # 0 BY DEF TypeInv, TodoInv, Declared
      <4>3. UNCHANGED nodes BY <3>3 DEF RestoreOne, nodevars
      <4> QED BY <3>2, <4>1, <4>2, <4>3 DEF RestoringInv
    <3>4. CASE RestoreFailed(m)
      BY <3>2, <3>4 DEF RestoreFailed, RestoringInv, tunnelvars
    <3> QED BY <3>1, <3>3, <3>4
  <2>3. CASE ~Restart /\ ~RestoreTunnel
    <3>1. FALSE
      BY <1>1, <2>3 DEF Process, Listener_Fails, Shutdown_CloseTunnel, PeriodicSave, Shutdown,
         Shutdown_CloseControls, Exit, Serve, Running, procvars
    <3> QED BY <3>1
  <2> QED BY <2>1, <2>2, <2>3
<1>2. ASSUME NEW p \in Procs, Work(p) PROVE FALSE BY <1>2, WorkFacts DEF Running
<1>3. ASSUME NEW p \in Procs, NEW n \in Names, BeginAt(p, n) PROVE FALSE
  BY <1>3, BeginFacts
<1>4. CASE (\E c \in Conns : Refuse(c)) \/ UNCHANGED vars
  BY <1>4 DEF Refuse, vars, RestoringInv
<1> QED BY <1>1, <1>2, <1>3, <1>4, NextCases

LEMMA SerialProcess ==
    ASSUME TypeInv, IInv, RegisteredConnHasHandler, RestoringInv, Process, phase' = "up",
           NEW n \in Names \ raced', phase = "up" => SerialAt(n)
    PROVE  SerialAt(n)'
<1>1. CASE Serve
  <2>1. \A p \in Procs : pc[p] \in Resting BY <1>1 DEF Serve, IInv, PhaseInv, Resting
  <2>2. Busy(n)' = {} BY <1>1, <2>1 DEF Serve, Busy
  <2>3. \A o \in NodeObjs : node[o].conn = None
    BY <1>1, ConstantsAssumption
    DEF Serve, IInv, PhaseInv, RegisteredConnHasHandler, TypeInv, NodeTypes, NodeRecord, Procs
  <2>4. nodes[n] = 0 => TunnelsOf(n) = {} BY <1>1 DEF Serve, RestoringInv, TunnelsOf
  <2>5. nodes[n] # 0 => nodes[n] \in NodeObjs BY DEF TypeInv, NodeTypes
  <2>6. RestAt(n) BY <2>3, <2>4, <2>5 DEF RestAt, AtRest, Settled
  <2>7. RestAt(n)' BY <1>1, <2>6 DEF Serve, RestAt, nodevars, tunnelvars, TunnelsOf
  <2> QED BY <2>2, <2>7 DEF SerialAt
<1>2. CASE ~Serve
  <2>1. /\ UNCHANGED <<nodes, node, pc, l>> /\ phase = "up"
        /\ tunnels' = tunnels \/ \E t \in tunnels : t.name # n /\ tunnels' = tunnels \ {t}
    <3>1. ASSUME NEW t \in tunnels, Listener_Fails(t)
          PROVE  /\ UNCHANGED <<nodes, node, pc, l>> /\ phase = "up"
                 /\ t.name # n /\ tunnels' = tunnels \ {t}
      BY <3>1 DEF Listener_Fails, Close, nodevars, procvars, Running
    <3>2. CASE PeriodicSave
      BY <3>2 DEF PeriodicSave, procvars, nodevars, tunnelvars
    <3>3. ~Shutdown /\ ~Shutdown_CloseControls /\ ~Exit /\ ~Restart /\ ~RestoreTunnel
          /\ \A t \in tunnels : ~Shutdown_CloseTunnel(t)
      BY DEF Shutdown, Shutdown_CloseControls, Exit, Restart, RestoreTunnel, RestoreOne,
         RestoreFailed, Shutdown_CloseTunnel, procvars
    <3> QED BY <1>2, <3>1, <3>2, <3>3 DEF Process
  <2>2. SameNode(n) /\ SameTunnels(n) BY <2>1 DEF SameNode, SameTunnels, TunnelsOf
  <2> QED BY <2>1, <2>2, SerialElsewhere
<1> QED BY <1>1, <1>2

(* A goroutine that works on n, alone.                                     *)
WorksOn(p, n) ==
    /\ pc[p] \notin Resting /\ l[p].name = n /\ Work(p)
    /\ StageAt(p, n) /\ Busy(n) \subseteq {p}
Done(p, n) ==
    \/ pc'[p] \notin Resting /\ l'[p].name = n /\ StageAt(p, n)'
    \/ pc'[p] \in Resting /\ RestAt(n)'

LEMMA RegistrationHere ==
    ASSUME TypeInv, NEW n \in Names, NEW p \in Conns, WorksOn(p, n), HandlerWork(p)
    PROVE  Done(p, n)
<1> DEFINE r == node[nodes[n]]
           ts == TunnelsOf(n)
<1>0. /\ node \in [NodeObjs -> NodeRecord] /\ (nodes[n] # 0 => nodes[n] \in NodeObjs)
      /\ pc \in [Procs -> Places] /\ l \in [Procs -> Local] /\ p \in Procs
      /\ pc[p] \notin Resting /\ l[p].name = n
      /\ Stage(p, pc[p], l[p], nodes[n], r, ts)
  BY DEF TypeInv, NodeTypes, LocalTypes, WorksOn, Procs, StageAt
<1>1. CASE Register_Update(p)
  <2>1. pc[p] = "checked" /\ pc'[p] = "respond" /\ nodes'[n] = nodes[n]
    BY <1>0, <1>1 DEF Register_Update, Step
  <2>2. nodes[n] # 0 /\ l[p].node = nodes[n] /\ l[p].op # "reassign"
    BY <1>0, <2>1 DEF Stage, Syncing
  <2>3. node' = [node EXCEPT ![nodes[n]].conn = p, ![nodes[n]].presets = l[p].ps]
    BY <1>1, <2>2 DEF Register_Update
  <2>4. node'[nodes[n]].conn = p BY <1>0, <2>2, <2>3 DEF NodeRecord
  <2>5. l'[p].node = l[p].node /\ l'[p].name = n /\ l'[p].op = l[p].op
    BY <1>0, <1>1 DEF Register_Update, Local
  <2>6. StageAt(p, n)' BY <2>1, <2>2, <2>4, <2>5 DEF StageAt, Stage, Syncing, Creating
  <2> QED BY <2>1, <2>5, <2>6 DEF Done, Resting
<1>2. CASE Register_Respond(p)
  <2>1. pc[p] = "respond" /\ pc'[p] = "sync" /\ nodes'[n] = nodes[n]
    BY <1>0, <1>2 DEF Register_Respond, Step, nodevars
  <2>2. nodes[n] # 0 /\ l[p].op # "reassign" BY <1>0, <2>1 DEF Stage, Syncing
  <2>3. l'[p].name = n /\ l'[p].op = l[p].op BY <1>0, <1>2 DEF Register_Respond, Local
  <2>4. StageAt(p, n)' BY <2>1, <2>2, <2>3 DEF StageAt, Stage, Syncing, Creating
  <2> QED BY <2>1, <2>3, <2>4 DEF Done, Resting
<1>3. CASE Register_RespondFails(p)
  <2>1. pc[p] = "respond" /\ pc'[p] = "done" /\ nodes'[n] = nodes[n]
    BY <1>0, <1>3 DEF Register_RespondFails, Step, nodevars
  <2>2. nodes[n] # 0 /\ l[p].node = nodes[n] /\ r.conn \in {p, None}
    BY <1>0, <2>1 DEF Stage
  <2>3. node'[nodes[n]].conn = None
    BY <1>0, <1>3, <2>2 DEF Register_RespondFails, Disconnected, NodeRecord
  <2>4. RestAt(n)' BY <2>1, <2>2, <2>3 DEF RestAt, AtRest, Settled
  <2> QED BY <2>1, <2>4 DEF Done, Resting
<1>4. CASE ControlLoop_Exit(p)
  BY <1>0, <1>4 DEF ControlLoop_Exit, Step, Resting
<1> QED BY <1>1, <1>2, <1>3, <1>4 DEF HandlerWork

LEMMA ClosingHere ==
    ASSUME TypeInv, NEW n \in Names, NEW p \in Admins, WorksOn(p, n), RequestWork(p)
    PROVE  Done(p, n)
<1> DEFINE r == node[nodes[n]]
           ts == TunnelsOf(n)
<1>0. /\ pc \in [Procs -> Places] /\ l \in [Procs -> Local] /\ p \in Procs
      /\ pc[p] \notin Resting /\ l[p].name = n
      /\ Stage(p, pc[p], l[p], nodes[n], r, ts)
  BY DEF TypeInv, LocalTypes, WorksOn, Procs, StageAt
<1>1. CASE Issue_Close(p)
  <2>1. pc[p] = "issued" /\ pc'[p] = "idle" /\ UNCHANGED <<nodes, node, tunnels>>
    BY <1>0, <1>1 DEF Issue_Close, Step, nodevars, tunnelvars
  <2>2. nodes[n] # 0 /\ Settled(r, ts) BY <1>0, <2>1 DEF Stage
  <2>3. RestAt(n) BY <2>2 DEF RestAt, AtRest
  <2>4. RestAt(n)' BY <2>1, <2>3 DEF RestAt, TunnelsOf
  <2> QED BY <2>1, <2>4 DEF Done, Resting
<1>2. CASE Delete_Control(p)
  <2>1. /\ pc[p] = "deleted" /\ pc'[p] = "releasing"
        /\ UNCHANGED <<nodes, node, tunnels, l>>
    BY <1>0, <1>2 DEF Delete_Control, Step, nodevars, tunnelvars
  <2>2. nodes[n] = 0 /\ ts \subseteq l[p].ex BY <1>0, <2>1 DEF Stage
  <2>3. TunnelsOf(n)' = ts BY <2>1 DEF TunnelsOf
  <2>4. StageAt(p, n)' BY <2>1, <2>2, <2>3 DEF StageAt, Stage, Syncing, Creating
  <2> QED BY <1>0, <2>1, <2>4 DEF Done, Resting
<1>4. CASE Delete_Close(p)
  <2>1. PICK t \in l[p].ex : CloseNext(p, t) BY <1>4 DEF Delete_Close
  <2>2. pc[p] = "releasing" /\ pc' = pc /\ UNCHANGED <<nodes, node>>
    BY <1>4 DEF Delete_Close, nodevars
  <2>3. /\ l'[p].ex = l[p].ex \ {t} /\ l'[p].name = n /\ l'[p].op = l[p].op
        /\ tunnels' = tunnels \ {t}
    BY <1>0, <2>1, CloseNextFacts DEF TypeInv, Close
  <2>4. nodes[n] = 0 /\ ts \subseteq l[p].ex BY <1>0, <2>2 DEF Stage
  <2>5. TunnelsOf(n)' \subseteq l'[p].ex BY <2>3, <2>4 DEF TunnelsOf
  <2>6. StageAt(p, n)'
    BY <2>2, <2>3, <2>4, <2>5 DEF StageAt, Stage, Syncing, Creating
  <2> QED BY <2>2, <2>3, <2>6 DEF Done, Resting
<1>5. CASE Delete_Finish(p)
  <2>1. /\ pc[p] = "releasing" /\ pc'[p] = "idle" /\ l[p].ex = {}
        /\ UNCHANGED <<nodes, node, tunnels>>
    BY <1>0, <1>5 DEF Delete_Finish, Step, nodevars, tunnelvars
  <2>2. nodes[n] = 0 /\ ts = {} BY <1>0, <2>1 DEF Stage
  <2>3. RestAt(n)' BY <2>1, <2>2 DEF RestAt, AtRest, TunnelsOf
  <2> QED BY <2>1, <2>3 DEF Done, Resting
<1>3. CASE Reassign_Close(p)
  <2>1. /\ pc[p] = "swap" /\ pc'[p] = "push" /\ UNCHANGED <<nodes, node>>
        /\ tunnels' = tunnels \ l[p].cur
    BY <1>0, <1>3 DEF Reassign_Close, Step, nodevars, Close
  <2>2. nodes[n] # 0 /\ Settled(r, ts \ l[p].cur) BY <1>0, <2>1 DEF Stage
  <2>3. TunnelsOf(n)' = ts \ l[p].cur BY <2>1 DEF TunnelsOf
  <2>4. Settled(node[nodes[n]], TunnelsOf(n))' BY <2>1, <2>2, <2>3
  <2>5. StageAt(p, n)' BY <2>1, <2>2, <2>4 DEF StageAt, Stage, Syncing, Creating
  <2>6. l'[p].name = n BY <1>0, <1>3 DEF Reassign_Close, Local
  <2> QED BY <2>1, <2>5, <2>6 DEF Done, Resting
<1> QED BY <1>1, <1>2, <1>3, <1>4, <1>5 DEF RequestWork, Releasing

(* A preset that no mapping serves is missing.                             *)
LEMMA SyncHere ==
    ASSUME TypeInv, NEW n \in Names, NEW p \in Procs, WorksOn(p, n),
           Sync_Copy(p) \/ Sync_List(p) \/ Sync_Close(p) \/ Sync_Closed(p) \/ Sync_Finish(p)
    PROVE  Done(p, n)
<1> DEFINE r == node[nodes[n]]
           ts == TunnelsOf(n)
<1>0. /\ node \in [NodeObjs -> NodeRecord] /\ (nodes[n] # 0 => nodes[n] \in NodeObjs)
      /\ pc \in [Procs -> Places] /\ l \in [Procs -> Local]
      /\ pc[p] \notin Resting /\ l[p].name = n
      /\ Stage(p, pc[p], l[p], nodes[n], r, ts)
  BY DEF TypeInv, NodeTypes, LocalTypes, WorksOn, Procs, StageAt
<1>1. CASE Sync_Copy(p)
  <2>1. pc[p] = "sync" /\ UNCHANGED <<nodes, node, tunnels>>
    BY <1>1 DEF Sync_Copy, nodevars, tunnelvars
  <2>2. nodes[n] # 0 /\ l[p].op # "reassign" BY <1>0, <2>1 DEF Stage, Syncing
  <2>3. /\ pc' = [pc EXCEPT ![p] = "list"]
        /\ l' = [l EXCEPT ![p].obj = nodes[n], ![p].ps = r.presets]
    BY <1>0, <1>1, <2>2 DEF Sync_Copy
  <2>4. /\ pc'[p] = "list" /\ l'[p].obj = nodes[n] /\ l'[p].ps = r.presets
        /\ l'[p].name = n /\ l'[p].op = l[p].op
    BY <1>0, <2>3 DEF Local
  <2>5. StageAt(p, n)' BY <2>1, <2>2, <2>4 DEF StageAt, Stage, Syncing, Creating
  <2> QED BY <2>4, <2>5 DEF Done, Resting
<1>2. CASE Sync_List(p)
  <2>1. pc[p] = "list" /\ pc'[p] = "close" /\ UNCHANGED <<nodes, node, tunnels>>
    BY <1>0, <1>2 DEF Sync_List, Step, nodevars, tunnelvars
  <2>2. /\ nodes[n] # 0 /\ l[p].ps = r.presets
        /\ l[p].op # "reassign" /\ l[p].obj = nodes[n]
    BY <1>0, <2>1 DEF Stage, Syncing
  <2> DEFINE gone == {t \in ts : ~(t.preset \in DOMAIN r.presets
                                   /\ r.presets[t.preset] = t.proto)}
             missing == DOMAIN r.presets \ {t.preset : t \in Kept(ts, r.presets)}
  <2>3. l' = [l EXCEPT ![p].ex = gone, ![p].miss = missing]
    BY <1>0, <1>2, <2>2 DEF Sync_List
  <2>4. /\ l'[p].ex = gone /\ l'[p].miss = missing /\ l'[p].name = n
        /\ l'[p].ps = l[p].ps /\ l'[p].obj = l[p].obj /\ l'[p].op = l[p].op
    BY <1>0, <2>3 DEF Local
  <2>5. FitIn(ts \ gone, r.presets) BY DEF FitIn
  <2>6. \A q \in DOMAIN r.presets : q \in missing \/ ServedBy(ts \ gone, r.presets, q)
    BY DEF Kept, ServedBy
  <2>7. TunnelsOf(n)' = ts BY <2>1 DEF TunnelsOf
  <2>8. StageAt(p, n)'
    <3> HIDE DEF gone, missing, ts
    <3> QED BY <2>1, <2>2, <2>4, <2>5, <2>6, <2>7 DEF StageAt, Stage, Syncing, Creating
  <2> QED BY <2>1, <2>4, <2>8 DEF Done, Resting
<1>3. CASE Sync_Close(p)
  <2>1. PICK t \in l[p].ex : CloseNext(p, t) BY <1>3 DEF Sync_Close
  <2>2. pc[p] = "close" /\ pc' = pc /\ UNCHANGED <<nodes, node>>
    BY <1>3 DEF Sync_Close, nodevars
  <2>3. /\ l'[p].ex = l[p].ex \ {t} /\ l'[p].miss = l[p].miss /\ l'[p].name = n
        /\ l'[p].obj = l[p].obj /\ l'[p].op = l[p].op /\ l'[p].ps = l[p].ps
        /\ tunnels' = tunnels \ {t}
    BY <1>0, <2>1, CloseNextFacts DEF TypeInv, Close
  <2>4. /\ nodes[n] # 0 /\ l[p].op # "reassign" /\ l[p].obj = nodes[n]
        /\ l[p].ps = r.presets /\ FitIn(ts \ l[p].ex, r.presets)
        /\ \A q \in DOMAIN r.presets : q \in l[p].miss \/ ServedBy(ts \ l[p].ex, r.presets, q)
    BY <1>0, <2>2 DEF Stage, Syncing
  <2>5. TunnelsOf(n)' \ l'[p].ex = ts \ l[p].ex BY <2>1, <2>3 DEF TunnelsOf
  <2>6. StageAt(p, n)'
    <3> HIDE DEF ts
    <3> QED BY <2>2, <2>3, <2>4, <2>5 DEF StageAt, Stage, Syncing, Creating
  <2> QED BY <2>2, <2>3, <2>6 DEF Done, Resting
<1>5. CASE Sync_Closed(p)
  <2>1. /\ pc[p] = "close" /\ pc'[p] = "create" /\ l[p].ex = {}
        /\ UNCHANGED <<nodes, node, tunnels>>
    BY <1>0, <1>5 DEF Sync_Closed, Step, nodevars, tunnelvars
  <2>2. /\ nodes[n] # 0 /\ l[p].op # "reassign" /\ l[p].obj = nodes[n]
        /\ FitIn(ts, r.presets)
        /\ \A q \in DOMAIN r.presets : q \in l[p].miss \/ ServedBy(ts, r.presets, q)
    <3>1. ts \ l[p].ex = ts BY <2>1
    <3> QED BY <1>0, <2>1, <3>1 DEF Stage, Syncing
  <2>3. /\ l'[p].miss = l[p].miss /\ l'[p].name = n
        /\ l'[p].obj = l[p].obj /\ l'[p].op = l[p].op
    BY <1>0, <1>5 DEF Sync_Closed, Local
  <2>4. TunnelsOf(n)' = ts BY <2>1 DEF TunnelsOf
  <2>5. StageAt(p, n)' BY <2>1, <2>2, <2>3, <2>4 DEF StageAt, Stage, Syncing, Creating
  <2> QED BY <2>1, <2>3, <2>5 DEF Done, Resting
<1>4. CASE Sync_Finish(p)
  <2>1. /\ pc[p] = "create" /\ pc'[p] = "push" /\ UNCHANGED <<nodes, tunnels, l>>
        /\ l[p].op # "reassign" /\ l[p].miss = {}
        /\ node' = [node EXCEPT ![l[p].obj].perr = l[p].err]
    BY <1>0, <1>4 DEF Sync_Finish, tunnelvars
  <2>2. /\ nodes[n] # 0 /\ l[p].obj = nodes[n] /\ FitIn(ts, r.presets)
        /\ \A q \in DOMAIN r.presets : l[p].err \/ ServedBy(ts, r.presets, q)
    BY <1>0, <2>1 DEF Stage, Creating
  <2>3. node'[nodes[n]].presets = r.presets /\ node'[nodes[n]].perr = l[p].err
    BY <1>0, <2>1, <2>2 DEF NodeRecord
  <2>4. TunnelsOf(n)' = ts BY <2>1 DEF TunnelsOf
  <2>5. Settled(node[nodes[n]], TunnelsOf(n))' BY <2>1, <2>2, <2>3, <2>4 DEF Settled
  <2>6. StageAt(p, n)' BY <2>1, <2>2, <2>5 DEF StageAt, Stage, Syncing, Creating
  <2> QED BY <1>0, <2>1, <2>6 DEF Done, Resting
<1> QED BY <1>1, <1>2, <1>3, <1>4, <1>5

LEMMA CreateFailedHere ==
    ASSUME TypeInv, NEW n \in Names, NEW p \in Procs, WorksOn(p, n), pc[p] \in Creating,
           UNCHANGED <<nodes, node, tunnels>>, NEW q, CreateFailed(p, q)
    PROVE  Done(p, n)
<1> DEFINE r == node[nodes[n]]
           ts == TunnelsOf(n)
<1>0. /\ pc \in [Procs -> Places] /\ l \in [Procs -> Local] /\ l[p].name = n
      /\ Stage(p, pc[p], l[p], nodes[n], r, ts)
  BY DEF TypeInv, LocalTypes, WorksOn, StageAt
<1>1. nodes[n] # 0 BY <1>0 DEF Stage, Creating
<1>2. TunnelsOf(n)' = ts BY DEF TunnelsOf
<1>3. CASE l[p].op = "reassign"
  <2>1. pc'[p] = Home(p) BY <1>0, <1>3 DEF CreateFailed
  <2>2. Settled(r, ts) BY <1>0, <1>3 DEF Stage
  <2>3. RestAt(n)' BY <1>1, <1>2, <2>2 DEF RestAt, AtRest
  <2> QED BY <2>1, <2>3 DEF Done, Home, Resting
<1>4. CASE l[p].op # "reassign"
  <2>1. /\ pc' = [pc EXCEPT ![p] = "create"]
        /\ l' = [l EXCEPT ![p].miss = @ \ {q}, ![p].err = TRUE, ![p].cand = {}, ![p].proto = None]
    BY <1>4 DEF CreateFailed
  <2>2. /\ pc'[p] = "create" /\ l'[p].err = TRUE /\ l'[p].name = n
        /\ l'[p].obj = l[p].obj /\ l'[p].op = l[p].op
    BY <1>0, <2>1 DEF Local
  <2>3. FitIn(ts, r.presets) /\ l[p].obj = nodes[n] BY <1>0, <1>4 DEF Stage
  <2>4. StageAt(p, n)' BY <1>1, <1>2, <1>4, <2>2, <2>3 DEF StageAt, Stage, Syncing, Creating
  <2> QED BY <2>2, <2>4 DEF Done, Resting
<1> QED BY <1>3, <1>4

LEMMA CreateHere ==
    ASSUME TypeInv, OwnerInv, NEW n \in Names, NEW p \in Procs, WorksOn(p, n),
           Create_Begin(p) \/ Create_Listen(p) \/ Create_NoPort(p)
    PROVE  Done(p, n)
<1> DEFINE r == node[nodes[n]]
           ts == TunnelsOf(n)
<1>0. /\ pc \in [Procs -> Places] /\ l \in [Procs -> Local] /\ l[p].name = n
      /\ Stage(p, pc[p], l[p], nodes[n], r, ts)
  BY DEF TypeInv, LocalTypes, WorksOn, StageAt
<1>1. UNCHANGED <<nodes, node, tunnels>> /\ pc[p] \in Creating
  BY DEF Create_Begin, Create_Listen, Create_NoPort, Step, nodevars, tunnelvars, Creating
<1>2. TunnelsOf(n)' = ts BY <1>1 DEF TunnelsOf
<1>3. CASE CreateFailed(p, Min(l[p].miss)) BY <1>1, <1>3, CreateFailedHere
<1>4. ASSUME l'[p].op = l[p].op, l'[p].name = n, l'[p].obj = l[p].obj, l'[p].miss = l[p].miss,
             l'[p].err = l[p].err, l'[p].cur = l[p].cur, pc'[p] \in {"listen", "insert"},
             Min(l[p].miss) \in DOMAIN r.presets, r.presets[Min(l[p].miss)] = l'[p].proto
      PROVE  Done(p, n)
  <2>1. StageAt(p, n)'
    BY <1>0, <1>1, <1>2, <1>4 DEF StageAt, Stage, Syncing, Creating
  <2> QED BY <1>4, <2>1 DEF Done, Resting
<1>5. CASE Create_Begin(p) /\ ~CreateFailed(p, Min(l[p].miss))
  <2>1. /\ Min(l[p].miss) \in DOMAIN r.presets
        /\ pc' = [pc EXCEPT ![p] = "listen"]
        /\ l' = [l EXCEPT ![p].cand = Ports \ DOMAIN ports,
                          ![p].proto = r.presets[Min(l[p].miss)]]
    BY <1>0, <1>5 DEF Create_Begin
  <2>2. /\ pc'[p] = "listen" /\ l'[p].op = l[p].op /\ l'[p].name = n /\ l'[p].obj = l[p].obj
        /\ l'[p].miss = l[p].miss /\ l'[p].err = l[p].err /\ l'[p].cur = l[p].cur
        /\ l'[p].proto = r.presets[Min(l[p].miss)]
    BY <1>0, <2>1 DEF Local
  <2> QED BY <1>4, <2>1, <2>2
<1>6. CASE Create_Listen(p)
  <2>1. pc[p] = "listen" /\ pc'[p] = "insert" BY <1>0, <1>6 DEF Create_Listen, Step
  <2>2. PICK q \in Listenable(p) : l' = [l EXCEPT ![p].cand = {q}] BY <1>6 DEF Create_Listen
  <2>3. /\ l'[p].op = l[p].op /\ l'[p].name = n /\ l'[p].obj = l[p].obj
        /\ l'[p].miss = l[p].miss /\ l'[p].err = l[p].err /\ l'[p].cur = l[p].cur
        /\ l'[p].proto = l[p].proto
    BY <1>0, <2>2 DEF Local
  <2>4. Min(l[p].miss) \in DOMAIN r.presets /\ r.presets[Min(l[p].miss)] = l[p].proto
    BY <1>0, <2>1 DEF Stage
  <2> QED BY <1>4, <2>1, <2>3, <2>4
<1>7. Create_NoPort(p) => CreateFailed(p, Min(l[p].miss)) BY DEF Create_NoPort
<1> QED BY <1>3, <1>5, <1>6, <1>7

(* The new mapping serves its preset, also beside the one it will replace.  *)
LEMMA InsertHere ==
    ASSUME TypeInv, NEW n \in Names, NEW p \in Procs, WorksOn(p, n), Create_Insert(p)
    PROVE  Done(p, n)
<1> DEFINE r == node[nodes[n]]
           ts == TunnelsOf(n)
           first == Min(l[p].miss)
<1>0. /\ pc \in [Procs -> Places] /\ l \in [Procs -> Local] /\ l[p].name = n
      /\ Stage(p, pc[p], l[p], nodes[n], r, ts)
  BY DEF TypeInv, LocalTypes, WorksOn, StageAt
<1>1. /\ pc[p] = "insert" /\ pc'[p] = IF l[p].op = "reassign" THEN "swap" ELSE "create"
      /\ UNCHANGED <<nodes, node>>
  BY <1>0 DEF Create_Insert, Step, nodevars
<1>2. /\ l'[p].op = l[p].op /\ l'[p].name = n /\ l'[p].obj = l[p].obj
      /\ l'[p].miss = l[p].miss \ {first} /\ l'[p].err = l[p].err /\ l'[p].cur = l[p].cur
  <2>1. l' = [l EXCEPT ![p].miss = l[p].miss \ {first}, ![p].cand = {}, ![p].proto = None]
    BY DEF Create_Insert
  <2> HIDE DEF first
  <2> QED BY <1>0, <2>1 DEF Local
<1>3. PICK t \in Tunnel : /\ t.id \in FreeIds /\ t.name = n /\ t.preset = first
                          /\ t.proto = l[p].proto /\ tunnels' = tunnels \cup {t}
  BY <1>0, EnteredTunnel
<1>4. TunnelsOf(n)' = ts \cup {t} BY <1>3 DEF TunnelsOf
<1>5. t \notin l[p].cur BY <1>3 DEF FreeIds, UsedIds
<1>6. nodes[n] # 0 /\ first \in DOMAIN r.presets /\ r.presets[first] = t.proto
  BY <1>0, <1>1, <1>3 DEF Stage
<1>7. CASE l[p].op = "reassign"
  <2>1. Settled(r, ts) /\ \A u \in l[p].cur : l[p].miss = {u.preset}
    BY <1>0, <1>1, <1>7 DEF Stage, Creating
  <2>2. \A u \in l[p].cur : u.preset = first
    <3>1. \A u \in Tunnel : Min({u.preset}) = u.preset
      <4> SUFFICES ASSUME NEW u \in Tunnel PROVE Min({u.preset}) = u.preset
        OBVIOUS
      <4>1. u.preset \in Nat BY ConstantsAssumption DEF Tunnel
      <4> QED BY <4>1, MinIn
    <3>2. l[p].cur \subseteq Tunnel BY <1>0 DEF Local
    <3> QED BY <2>1, <3>1, <3>2
  <2>3. Settled(r, (ts \cup {t}) \ l[p].cur)
    <3>1. FitIn(ts, r.presets) => FitIn((ts \cup {t}) \ l[p].cur, r.presets)
      BY <1>3, <1>6 DEF FitIn
    <3>2. ASSUME NEW q, ServedBy(ts, r.presets, q)
          PROVE  ServedBy((ts \cup {t}) \ l[p].cur, r.presets, q)
      <4>1. PICK u \in ts : u.preset = q /\ r.presets[q] = u.proto BY <3>2 DEF ServedBy
      <4>2. CASE u \in l[p].cur BY <1>3, <1>5, <1>6, <2>2, <4>1, <4>2 DEF ServedBy
      <4>3. CASE u \notin l[p].cur BY <4>1, <4>3 DEF ServedBy
      <4> QED BY <4>2, <4>3
    <3> QED BY <2>1, <3>1, <3>2 DEF Settled
  <2>4. StageAt(p, n)'
    BY <1>1, <1>2, <1>4, <1>6, <1>7, <2>3 DEF StageAt, Stage, Syncing, Creating
  <2> QED BY <1>1, <1>2, <1>7, <2>4 DEF Done, Resting
<1>8. CASE l[p].op # "reassign"
  <2>1. /\ FitIn(ts, r.presets) /\ l[p].obj = nodes[n]
        /\ \A q \in DOMAIN r.presets : q \in l[p].miss \/ l[p].err \/ ServedBy(ts, r.presets, q)
    BY <1>0, <1>1, <1>8 DEF Stage, Creating
  <2>2. FitIn(ts \cup {t}, r.presets) BY <1>3, <1>6, <2>1 DEF FitIn
  <2>3. \A q \in DOMAIN r.presets :
           q \in l[p].miss \ {first} \/ l[p].err \/ ServedBy(ts \cup {t}, r.presets, q)
    BY <1>3, <1>6, <2>1 DEF ServedBy
  <2>4. StageAt(p, n)'
    BY <1>1, <1>2, <1>4, <1>6, <1>8, <2>1, <2>2, <2>3 DEF StageAt, Stage, Syncing, Creating
  <2> QED BY <1>1, <1>2, <1>8, <2>4 DEF Done, Resting
<1> QED BY <1>7, <1>8

LEMMA PushHere ==
    ASSUME TypeInv, NEW n \in Names, NEW p \in Procs, WorksOn(p, n), Pushing(p)
    PROVE  Done(p, n)
<1> DEFINE r == node[nodes[n]]
           ts == TunnelsOf(n)
<1>0. /\ node \in [NodeObjs -> NodeRecord] /\ (nodes[n] # 0 => nodes[n] \in NodeObjs)
      /\ pc \in [Procs -> Places] /\ l \in [Procs -> Local] /\ l[p].name = n
      /\ Stage(p, pc[p], l[p], nodes[n], r, ts)
  BY DEF TypeInv, NodeTypes, LocalTypes, WorksOn, StageAt
<1>1. /\ pc[p] \in {"push", "send", "write"} /\ UNCHANGED <<nodes, tunnels>>
      /\ PushEnds(p) \/ PushStays(p)
  BY PushFacts DEF tunnelvars
<1>2. nodes[n] # 0 /\ Settled(r, ts) BY <1>0, <1>1 DEF Stage
<1>3. TunnelsOf(n)' = ts BY <1>1 DEF TunnelsOf
<1>4. /\ node'[nodes[n]].presets = r.presets /\ node'[nodes[n]].perr = r.perr
      /\ node'[nodes[n]].conn \in {r.conn, None}
  <2>1. CASE UNCHANGED node BY <2>1
  <2>2. ASSUME NEW x, NEW c, node' = Disconnected(x, c)
        PROVE  /\ node'[nodes[n]].presets = r.presets /\ node'[nodes[n]].perr = r.perr
               /\ node'[nodes[n]].conn \in {r.conn, None}
    BY <1>0, <1>2, <2>2 DEF Disconnected, NodeRecord
  <2> QED BY <1>1, <2>1, <2>2 DEF PushEnds, PushStays
<1>5. Settled(node[nodes[n]], TunnelsOf(n))' BY <1>1, <1>2, <1>3, <1>4, SettledKept
<1>6. CASE PushEnds(p)
  <2>1. pc'[p] = Home(p) BY <1>0, <1>6 DEF PushEnds
  <2>2. RestAt(n)' BY <1>1, <1>2, <1>5 DEF RestAt, AtRest
  <2> QED BY <2>1, <2>2 DEF Done, Home, Resting
<1>7. CASE PushStays(p)
  <2>1. pc'[p] \in {"send", "write"} /\ l'[p].name = n
    BY <1>0, <1>7, PointedFacts DEF PushStays
  <2>2. StageAt(p, n)' BY <1>1, <1>2, <1>5, <2>1 DEF StageAt, Stage, Syncing, Creating
  <2> QED BY <2>1, <2>2 DEF Done, Resting
<1> QED BY <1>1, <1>6, <1>7

LEMMA SerialWork ==
    ASSUME TypeInv, OwnerInv, NEW n \in Names, NEW p \in Procs, Work(p), SerialAt(n)
    PROVE  SerialAt(n)'
<1>1. CASE l[p].name # n \/ ControlLoop_Exit(p) BY <1>1, SerialWorkElsewhere
<1>2. CASE l[p].name = n /\ ~ControlLoop_Exit(p)
  <2>1. Alone(p) /\ pc[p] \notin Resting BY <1>2, WorkFacts
  <2>2. p \in Busy(n) BY <1>2, <2>1 DEF Busy
  <2>3. Busy(n) \subseteq {p} /\ StageAt(p, n) BY <2>2 DEF SerialAt
  <2>4. WorksOn(p, n) BY <1>2, <2>1, <2>3 DEF WorksOn
  <2>5. Done(p, n)
    <3>1. CASE Operation(p)
      BY <2>4, <3>1, SyncHere, CreateHere, InsertHere, PushHere DEF Operation
    <3>2. CASE p \in Conns /\ HandlerWork(p) BY <2>4, <3>2, RegistrationHere
    <3>3. CASE p \in Admins /\ RequestWork(p) BY <2>4, <3>3, ClosingHere
    <3> QED BY <3>1, <3>2, <3>3 DEF Work
  <2> QED BY <2>1, <2>3, <2>5, SerialHere DEF Done
<1> QED BY <1>1, <1>2

SerialInv ==
    OwnerInv /\ RestoringInv /\ (phase = "up" => \A n \in Names \ raced : SerialAt(n))

LEMMA SerialInit == Init => SerialInv
<1> SUFFICES ASSUME Init PROVE SerialInv
  OBVIOUS
<1>1. OwnerInv /\ RestoringInv
  BY DEF Init, OwnerInv, OwnedBy, NoLocal, RestoringInv
<1>2. ASSUME NEW n \in Names PROVE SerialAt(n)
  BY DEF Init, SerialAt, Busy, Resting, RestAt, AtRest, TunnelsOf
<1> QED BY <1>1, <1>2 DEF SerialInv

LEMMA SerialStep ==
    TypeInv /\ IInv /\ RegisteredConnHasHandler /\ SerialInv /\ [Next]_vars => SerialInv'
<1> SUFFICES ASSUME TypeInv, IInv, RegisteredConnHasHandler, SerialInv, [Next]_vars
             PROVE  SerialInv'
  OBVIOUS
<1>1. OwnerInv' /\ RestoringInv' BY OwnerStep, RestoringStep DEF SerialInv
<1>2. ASSUME phase' = "up", NEW n \in Names \ raced' PROVE SerialAt(n)'
  <2>1. ASSUME NEW p \in Procs, Work(p) PROVE SerialAt(n)'
    BY <1>2, <2>1, WorkFacts, SerialWork DEF SerialInv
  <2>2. ASSUME NEW p \in Procs, NEW m \in Names, BeginAt(p, m) PROVE SerialAt(n)'
    BY <1>2, <2>2, BeginFacts, SerialBegin DEF SerialInv
  <2>3. ASSUME NEW c \in Conns, Refuse(c) PROVE SerialAt(n)'
    <3>1. SerialAt(n) BY <1>2, <2>3 DEF SerialInv, Refuse
    <3>2. SameNode(n) /\ SameTunnels(n)
      BY <2>3 DEF Refuse, SameNode, SameTunnels, TunnelsOf
    <3>3. \A x \in Procs : \/ pc'[x] = pc[x] /\ l'[x] = l[x]
                           \/ x \notin Busy(n) /\ (pc'[x] \in Resting \/ l'[x].name # n)
      BY <2>3 DEF Refuse, Busy, Resting, TypeInv, LocalTypes
    <3> QED BY <3>1, <3>2, <3>3, SerialElsewhere
  <2>4. CASE Process
    <3>1. raced \subseteq raced'
      BY <2>4 DEF Process, Listener_Fails, Shutdown_CloseTunnel, PeriodicSave, Shutdown,
         Shutdown_CloseControls, Exit, Restart, RestoreTunnel, RestoreOne, RestoreFailed, Serve
    <3> QED BY <1>2, <2>4, <3>1, SerialProcess DEF SerialInv
  <2>5. CASE UNCHANGED vars
    <3>1. SerialAt(n) BY <1>2, <2>5 DEF SerialInv, vars
    <3> QED
      BY <2>5, <3>1 DEF vars, SerialAt, Busy, StageAt, RestAt, TunnelsOf
  <2> QED BY <2>1, <2>2, <2>3, <2>4, <2>5, NextCases
<1> QED BY <1>1, <1>2 DEF SerialInv

(* As long as operations on a node do not overlap and none of its listeners *)
(* fails by itself, a sync provisions what its registration declares and a  *)
(* deletion releases it.                                                    *)
THEOREM SerialOperationsProvisionNodes == Spec => []SerialOperationsProvision
<1>1. Init => SerialInv BY SerialInit
<1>2. TypeInv /\ IInv /\ RegisteredConnHasHandler /\ SerialInv /\ [Next]_vars => SerialInv'
  BY SerialStep
<1>3. SerialInv => SerialOperationsProvision
  BY SerialMeans DEF SerialInv
<1> QED
  BY <1>1, <1>2, <1>3, InductiveInvariant, RegisteredConnectionsHaveHandlers, PTL DEF Spec

=============================================================================
