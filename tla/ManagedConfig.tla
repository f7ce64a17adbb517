--------------------------- MODULE ManagedConfig ---------------------------
(***************************************************************************)
(* The client's configuration: its stored form, the list of hosted servers *)
(* and the three writers that share it while the client runs (the panel's  *)
(* configuration and server-list requests, and the session that saves a    *)
(* credential it was issued), with the first-run wizard, crashes and        *)
(* restarts.  Each writer holds updateMu from its first read to its last    *)
(* write; sessions read the configuration without it.                       *)
(*                                                                         *)
(* Mappings are a version number; TLS switch, name and CA file are one TLS  *)
(* identity.  Trimming and case folding, texts, and the encryption of       *)
(* stored secrets are left out.  The revision check of a request is in      *)
(* ClientSession.  A refused request changes nothing and is no step.        *)
(***************************************************************************)
EXTENDS Naturals, Sequences, SequencesExt

CONSTANTS
    Primary,      \* address of the built-in server
    Addrs,        \* addresses of servers
    Names,        \* TLS identities
    BuiltInTls,   \* TLS identity of the built-in server
    PlainTls,     \* TLS with no name and no CA file given
    Nodes,        \* node names
    Hostname,     \* the machine's own
    MaxServers,   \* bound of the code: servers a user may add (32)
    MaxEntries,   \* bound: credentials a user enters, runs of the wizard
    MaxEdits,     \* bound: changes of mappings and of the server list
    MaxIssued,    \* bound: credentials a server issues
    MaxCrashes    \* bound: ends of the client, and files that cannot be read back

ASSUME ManagedAssumption ==
    /\ Primary \in Addrs /\ {BuiltInTls, PlainTls} \subseteq Names /\ Hostname \in Nodes
    /\ "" \notin Addrs \cup Nodes
    /\ MaxServers \in Nat /\ MaxEntries \in Nat /\ MaxEdits \in Nat
    /\ MaxIssued \in Nat /\ MaxCrashes \in Nat

VARIABLES
    mem,      \* Client.cfg while the client runs, else what it would load
    file,     \* the configuration file: <<>> or <<its content>>
    up,       \* whether the client runs
    busy,     \* the holder of updateMu, and what it wrote
    session,  \* <<>> or <<the configuration a session started with>>
    doubt,    \* history: the file may hold a change that was not acknowledged
    acked,    \* history: the server list and mappings last acknowledged
    consent,  \* history: where each credential was entered for or issued by
    budget

vars == <<mem, file, up, busy, session, doubt, acked, consent, budget>>

\* A credential: a bootstrap token names its server and node and holds an
\* access token; a password and an issued token are opaque.
NoCred == [kind |-> "none", at |-> "", node |-> "", n |-> 0]
Access(c) == [c EXCEPT !.kind = IF c.kind = "boot" THEN "access" ELSE c.kind]

\* The holder of updateMu: its kind, what it installs, what it will acknowledge.
Idle == [op |-> "none", next |-> <<>>, acks |-> <<>>]
Holder(kind, next, acks) == [op |-> kind, next |-> <<next>>, acks |-> <<acks>>]

-----------------------------------------------------------------------------
(* Hosted servers.                                                         *)

BuiltIn == [id |-> <<"1cat-primary">>, addr |-> Primary, tls |-> BuiltInTls]
CustomServer(a, t) == [id |-> <<"custom", a, t>>, addr |-> a, tls |-> t]

\* hostedServerIDForAddress: the first entry with that address.
IDForAddress(servers, a) ==
    LET found == {i \in DOMAIN servers : servers[i].addr = a} IN
    IF found = {} THEN <<>> ELSE servers[Min(found)].id

\* hostedServerCatalog: an address in use but not listed is an entry too.
Catalog(c) ==
    LET listed == <<BuiltIn>> \o c.list IN
    IF c.addr # "" /\ IDForAddress(listed, c.addr) = <<>>
    THEN Append(listed, [id |-> <<"current-custom">>, addr |-> c.addr, tls |-> c.tls])
    ELSE listed

\* selectedHostedServerID: the remembered entry if it has the address in use.
Selected(c) ==
    LET servers == Catalog(c) IN
    IF \E s \in ToSet(servers) : s.id = c.sel /\ s.addr = c.addr THEN c.sel
    ELSE IF IDForAddress(servers, c.addr) # <<>> THEN IDForAddress(servers, c.addr)
    ELSE servers[1].id

\* applyHostedServer: the selected entry keeps the TLS settings in use.
ApplyHosted(c, s) ==
    IF s.id = Selected(c) /\ s.addr = c.addr THEN [c EXCEPT !.sel = s.id]
    ELSE [c EXCEPT !.sel = s.id, !.addr = s.addr, !.tls = s.tls]

\* sameHostedServerConnection.
SameConnection(a, b) == a.addr = b.addr /\ a.tls = b.tls

-----------------------------------------------------------------------------
(* The stored form.                                                        *)

\* SaveConfig: a bootstrap token stands for address and token, and an
\* enrolment password for an equal token.
Stored(c) ==
    IF c.boot # NoCred THEN [c EXCEPT !.addr = "", !.token = NoCred, !.pass = NoCred]
    ELSE IF c.pass # NoCred /\ c.token = c.pass THEN [c EXCEPT !.token = NoCred]
    ELSE c

\* prepareBootstrapConfig, for a file or for none.
Prepared(c) == IF c.sel = <<>> THEN [c EXCEPT !.sel = Selected(c)] ELSE c
Seed ==
    Prepared(IF file # <<>> THEN file[1]
             ELSE [boot |-> NoCred, addr |-> "", tls |-> PlainTls, token |-> NoCred,
                   pass |-> NoCred, node |-> Hostname, sel |-> <<>>, list |-> <<>>,
                   presets |-> 0])

\* readConfig: the bootstrap token is resolved again, after the preparation.
Resolved(c) ==
    IF c.boot # NoCred
    THEN [c EXCEPT !.addr = c.boot.at, !.token = Access(c.boot),
                   !.node = IF c.boot.node # "" THEN c.boot.node ELSE @]
    ELSE IF c.token = NoCred THEN [c EXCEPT !.token = c.pass] ELSE c

\* LoadManagedConfig.
FileConfig == Resolved(Seed)

\* validateConfig; a node always has a name and a mapping here.
Valid(c) == c.addr # "" /\ c.token # NoCred

\* What the user edits and expects to find again.
EditsOf(c) == [servers |-> ToSet(c.list), presets |-> c.presets]

\* The credential, server and node a session started with c presents.
Presents(c) == <<c.token, c.addr, c.tls, c.node>>

-----------------------------------------------------------------------------
(* Writers.                                                                *)

Init ==
    /\ file = <<>> /\ up = FALSE /\ mem = FileConfig
    /\ busy = Idle /\ session = <<>>
    /\ doubt = FALSE /\ acked = EditsOf(mem) /\ consent = {}
    /\ budget = [entries |-> MaxEntries, edits |-> MaxEdits, issued |-> MaxIssued,
                 crashes |-> MaxCrashes]

\* A credential the user can enter: a new one, or an empty field.
Entered == [kind : {"boot"}, at : Addrs, node : Nodes, n : {budget.entries}]
           \cup [kind : {"pass"}, at : {""}, node : {""}, n : {budget.entries}]

\* A new version of the mappings, or the present one.
Presets(c) == IF budget.edits > 0 THEN {c.presets, MaxEdits + 1 - budget.edits} ELSE {c.presets}
Spend(cred, edited) ==
    budget' = [budget EXCEPT !.entries = IF cred # NoCred THEN @ - 1 ELSE @,
                             !.edits = IF edited THEN @ - 1 ELSE @]

\* Mutant: a password leaves the former bootstrap token in place.
ApplyCredential_KeepsBootstrap(c, cred) ==
    IF cred.kind = "boot"
    THEN [c EXCEPT !.boot = cred, !.token = Access(cred), !.pass = NoCred,
                   !.node = IF cred.node # "" THEN cred.node ELSE @]
    ELSE [c EXCEPT !.token = cred, !.pass = cred]

\* applyManagedCredential.
ApplyCredential(c, cred) ==
    IF cred.kind = "boot"
    THEN [c EXCEPT !.boot = cred, !.token = Access(cred), !.pass = NoCred,
                   !.node = IF cred.node # "" THEN cred.node ELSE @]
    ELSE [c EXCEPT !.boot = NoCred, !.token = cred, !.pass = cred]

\* handleManagementConfig up to the file's replacement.
Config_Save ==
    /\ up /\ busy = Idle
    /\ \E s \in ToSet(Catalog(mem)), node \in Nodes, p \in Presets(mem),
          cred \in {NoCred} \cup (IF budget.entries > 0 THEN Entered ELSE {}) :
        LET moved == ApplyHosted(mem, s)
            named == [moved EXCEPT !.node = node, !.presets = p]
            next == IF cred = NoCred THEN named ELSE ApplyCredential(named, cred)
        IN /\ cred = NoCred => SameConnection(mem, moved) /\ node = mem.node
           /\ cred.kind = "boot" => cred.at = moved.addr
           /\ Valid(next)
           /\ file' = <<Stored(next)>>
           /\ busy' = Holder("config", next, [acked EXCEPT !.presets = p])
           /\ consent' = IF cred = NoCred THEN consent
                         ELSE consent \cup {<<Access(cred), moved.addr, moved.tls,
                                             IF cred.node # "" THEN cred.node ELSE node>>}
           /\ Spend(cred, p # mem.presets)
    /\ UNCHANGED <<mem, up, session, doubt, acked>>

\* replaceConfigLocked reads the file back and installs what it finds.
Config_Load ==
    /\ up /\ busy.op = "config"
    /\ mem' = FileConfig /\ acked' = busy.acks[1]
    /\ busy' = Idle /\ doubt' = FALSE
    /\ UNCHANGED <<file, up, session, consent, budget>>

\* It cannot: the request fails, and the file keeps the new content.
Config_LoadFails ==
    /\ up /\ busy.op = "config" /\ budget.crashes > 0
    /\ budget' = [budget EXCEPT !.crashes = @ - 1]
    /\ busy' = Idle /\ doubt' = TRUE
    /\ UNCHANGED <<mem, file, up, session, acked, consent>>

\* handleManagementServers with editHostedServers' "add".
Servers_Add(a, t) ==
    /\ up /\ busy = Idle /\ budget.edits > 0
    /\ \A s \in ToSet(Catalog(mem)) : ~(s.addr = a /\ s.tls = t)
    /\ Len(mem.list) < MaxServers
    /\ LET next == [mem EXCEPT !.list = Append(@, CustomServer(a, t))] IN
       /\ file' = <<Stored(next)>>
       /\ busy' = Holder("swap", next, [acked EXCEPT !.servers = @ \cup {CustomServer(a, t)}])
    /\ budget' = [budget EXCEPT !.edits = @ - 1]
    /\ UNCHANGED <<mem, up, session, doubt, acked, consent>>

\* And its "remove": not the selected one, and only one the user added, the
\* first with that id.
Servers_Remove(i) ==
    /\ up /\ busy = Idle /\ budget.edits > 0
    /\ mem.list[i].id # Selected(mem)
    /\ \A j \in 1..(i - 1) : mem.list[j].id # mem.list[i].id
    /\ LET next == [mem EXCEPT !.list = RemoveAt(@, i)] IN
       /\ file' = <<Stored(next)>>
       /\ busy' = Holder("swap", next, [acked EXCEPT !.servers = @ \ {mem.list[i]}])
    /\ budget' = [budget EXCEPT !.edits = @ - 1]
    /\ UNCHANGED <<mem, up, session, doubt, acked, consent>>

\* The saved configuration becomes Client.cfg; nothing reconnects.
Swap ==
    /\ up /\ busy.op = "swap"
    /\ mem' = busy.next[1] /\ acked' = busy.acks[1]
    /\ busy' = Idle /\ doubt' = FALSE
    /\ UNCHANGED <<file, up, session, consent, budget>>

-----------------------------------------------------------------------------
(* Sessions.                                                               *)

\* Client.Run starts a session with the configuration of the moment.
Session_Start ==
    /\ up /\ Valid(mem)
    /\ session' = <<mem>>
    /\ UNCHANGED <<mem, file, up, busy, doubt, acked, consent, budget>>

\* Mutant: what is saved is the configuration the session started with.
Persisted_FromSource(source, token) ==
    [source EXCEPT !.boot = NoCred, !.pass = NoCred, !.token = token]

\* Mutant: the bootstrap token stays.
Persisted_KeepsBootstrap(source, token) == [mem EXCEPT !.pass = NoCred, !.token = token]

\* persistSessionCredential: the current configuration with the issued token.
Persisted(source, token) == [mem EXCEPT !.boot = NoCred, !.pass = NoCred, !.token = token]

\* A credential arrives, perhaps late; it is saved unless server, node or
\* credential were changed meanwhile.
Session_Issued ==
    /\ up /\ session # <<>> /\ budget.issued > 0 /\ busy = Idle
    /\ LET source == session[1]
           token == [kind |-> "issued", at |-> source.addr, node |-> source.node,
                     n |-> budget.issued]
           next == Persisted(source, token)
       IN /\ consent' = consent \cup {<<token, source.addr, source.tls, source.node>>}
          /\ IF SameConnection(source, mem) /\ source.node = mem.node
                /\ source.token = mem.token
             THEN file' = <<Stored(next)>> /\ busy' = Holder("swap", next, acked)
             ELSE UNCHANGED <<file, busy>>
    /\ session' = <<>>
    /\ budget' = [budget EXCEPT !.issued = @ - 1]
    /\ UNCHANGED <<mem, up, doubt, acked>>

-----------------------------------------------------------------------------
(* Start and end of the client.                                            *)

\* The client ends anywhere; a writer's file may be in place already.
Crash ==
    /\ up /\ budget.crashes > 0
    /\ budget' = [budget EXCEPT !.crashes = @ - 1]
    /\ up' = FALSE /\ busy' = Idle /\ session' = <<>>
    /\ doubt' = (doubt \/ busy # Idle)
    /\ mem' = FileConfig
    /\ UNCHANGED <<file, acked, consent>>

\* LoadManagedConfig at start.
Start ==
    /\ ~up
    /\ up' = TRUE /\ mem' = FileConfig
    /\ acked' = IF doubt THEN EditsOf(FileConfig) ELSE acked
    /\ doubt' = FALSE
    /\ UNCHANGED <<file, busy, session, consent, budget>>

\* InitializeManagedConfig: a file without credential, if there is none.
InitializeManagedConfig ==
    /\ ~up /\ file = <<>>
    /\ file' = <<Stored(FileConfig)>>
    /\ UNCHANGED <<mem, up, busy, session, doubt, acked, consent, budget>>

\* promptAccessCredential's default: the saved credential, from the file as it
\* is stored.
Kept(c) == IF c.boot # NoCred THEN c.boot ELSE IF c.pass # NoCred THEN c.pass ELSE c.token

\* BootstrapConfig: the user confirms credential, server, node and mappings.
Wizard ==
    /\ ~up /\ budget.entries > 0
    /\ \E cred \in {Kept(Seed)} \cup Entered,
          a \in Addrs, node \in Nodes, p \in Presets(Seed) :
        LET next == [ApplyCredential([Seed EXCEPT !.node = node, !.presets = p], cred)
                        EXCEPT !.addr = IF cred.kind = "boot" THEN cred.at ELSE a]
        IN /\ cred # NoCred /\ Valid(next)
           /\ file' = <<Stored(next)>>
           /\ consent' = consent \cup {<<Access(cred), IF cred.kind = "boot" THEN cred.at ELSE a,
                                        Seed.tls, IF cred.node # "" /\ cred.kind = "boot"
                                                  THEN cred.node ELSE node>>}
           /\ acked' = IF doubt THEN EditsOf(next) ELSE [acked EXCEPT !.presets = p]
           /\ Spend(cred, p # Seed.presets)
    /\ doubt' = FALSE /\ mem' = FileConfig'
    /\ UNCHANGED <<up, busy, session>>

Next ==
    \/ Config_Save \/ Config_Load \/ Config_LoadFails
    \/ \E a \in Addrs, t \in Names : Servers_Add(a, t)
    \/ \E i \in DOMAIN mem.list : Servers_Remove(i)
    \/ Swap \/ Session_Start \/ Session_Issued
    \/ Crash \/ Start \/ InitializeManagedConfig \/ Wizard

Spec == Init /\ [][Next]_vars

-----------------------------------------------------------------------------
(* Properties.                                                             *)

Credentials ==
    [kind : {"none", "boot", "access", "pass", "issued"}, at : Addrs \cup {""},
     node : Nodes \cup {""}, n : Nat]
Customs == {CustomServer(a, t) : a \in Addrs, t \in Names}
Configs ==
    [boot : Credentials, addr : Addrs \cup {""}, tls : Names, token : Credentials,
     pass : Credentials, node : Nodes,
     sel : {<<>>, BuiltIn.id, <<"current-custom">>} \cup {s.id : s \in Customs},
     list : Seq(Customs), presets : Nat]
Edits == [servers : SUBSET Customs, presets : Nat]
Optional(S) == {<<>>} \cup {<<x>> : x \in S}

\* The variables have their types.
TypeOK ==
    /\ mem \in Configs /\ Len(mem.list) <= MaxServers
    /\ file \in Optional(Configs) /\ session \in Optional(Configs)
    /\ up \in BOOLEAN /\ doubt \in BOOLEAN
    /\ busy \in [op : {"none", "config", "swap"}, next : Optional(Configs),
                  acks : Optional(Edits)]
    /\ acked \in Edits
    /\ consent \subseteq Credentials \X (Addrs \cup {""}) \X Names \X Nodes
    /\ budget \in [entries : Nat, edits : 0..MaxEdits, issued : Nat, crashes : Nat]

\* A credential is only presented to the server, under the TLS identity and
\* for the node it was entered for or issued by: by this client, and by the
\* next one that reads the file, whatever edits, late replies and crashes came
\* between.
CredentialStaysHome ==
    \A c \in {FileConfig} \cup (IF up THEN {mem} ELSE {}) : Valid(c) => Presents(c) \in consent

\* Restarting changes nothing: what the file resolves to is the configuration
\* the client runs with, once no writer is under way.
RestartKeepsConfiguration == up /\ busy = Idle /\ ~doubt => FileConfig = mem

\* Acknowledged edits of the server list and the mappings are kept, until the
\* user changes them: by saving a credential or a configuration, and over a
\* restart.
EditsAreKept == up => EditsOf(mem) = acked

=============================================================================
