# 1Cat-Tunnel: a TLA+ model of the tunnel server and its client

This directory is a verification project for the Go program in this repository:
a server with a public address (`internal/server`), and clients behind NAT
(`client/internal/client`) that connect to it, register *presets* (local
services) and get public ports for them, with the programs around the client: the
single-instance rules on Linux and the installer and remote support on Windows
(`client/internal/winclient`). It models the concurrent core of these programs,
checks it with TLC on small instances, and proves most of the invariants with
TLAPS for every size.

Run a check with `tlc -config <cfg> <module>`, the proofs of a module with
`tlapm <module>Proofs.tla` (the registry's take a few minutes, the others less than
one). `PROJECT.json` maps every definition to the
lines it models and lists the runs, mutants, hazards, findings and theorems.

## 1. Inventory

| Component | State | Operations | Hard behaviours | What makes it correct |
|---|---|---|---|---|
| **Server registry** (`server.go`, requests of `http.go`) | `nodes`, `tunnels`, `ports` under `Server.mu`; each `Node`'s control connection, credential and presets under `Node.mu`; `createTunnelMu` | register, control loop, sync of tunnels, create, reassign, resync, issue credential, delete node, shutdown | every handler takes and releases the locks several times; values are copied before a release and used after it | port table and tunnels agree; one mapping per preset; a connected node has what it registered; a deleted node has nothing; every operation ends |
| **State file** (`state.go`) | one JSON file, replaced by rename | snapshot, save (after operations, periodic, at shutdown), restore | crash between steps, failed write, port taken by another program meanwhile | ports survive a restart |
| **Public TCP tunnel** (`tunnel.go`, `handleAttach`) | `pending`, attach timers, `closed`, `activeConnections` | accept, insert, notify, time out, attach, fail, relay, close | five parties compete for one pending connection | each connection has one owner, is relayed at most once, and is resolved in the end |
| **Public UDP tunnel** (`tunnel.go`) | `udpSessions`, two timers and a stream per session | datagram, attach, touch, time out, pipe end, close | attach, both timers and close overlap; `closeOnce` | every session is timed, counted once, closed in the end |
| **Client data channels** (`client.go`) | one goroutine per open_connection | dial the local service, attach with retries, report an error | retry of an attach that did arrive; cancellation with the session | no connection is relayed twice |
| **Client connection loop and hot reload** (`client.go`, `management_web.go`) | configuration and revision under `mu`, the file under `updateMu`, restart channel, running session | loop, session, persist an issued credential, replace the configuration, reconnect | configuration read before and used after a change; late replies of a former host; crash between file and memory | no stale session, no lost wake-up, a credential stays with its host |
| **Client block-IP requests** (`api.go`, `client.go`) | table of reply channels | submit, answer, time out, fail at session end | late and duplicate answers, order of deferred calls | no sender blocks, the table is cleaned up |
| **Remote-support controller** (`support_windows.go`) | one session per Windows account under `mu`, the account's key file | start, stop, connected, finished, watch a shell, clean up, close, clear stale keys | four parties end a session; the lock is released while the shell is killed and the file cleared; failures, crashes | no shell and no key without a visible session; sessions do not disturb each other; an ended shell ends its session |
| **Client configuration** (`config.go`, `hosted_servers.go`, `management_servers.go`, the writers in `client.go` and `management_web.go`) | the configuration in memory and in the file, in a stored form that leaves out what can be derived; the list of servers | configuration and server-list requests, save of an issued credential, wizard, first file, load at start | three writers and readers without their lock; late credentials; crash between file and memory; a file that cannot be read back | a credential is only presented where it belongs; restarting changes nothing; acknowledged edits are kept |
| **Linux single instance** (`instance_linux.go`, `main_linux.go`, the watcher of `desktop_linux.go`) | `start.lock`, `instance.lock`, the management port, the systemd unit | start, stop the unit, terminate other clients, take the locks, reload, listen, run, end, probe | takeovers at the same time, processes that ignore signals, lock and port released at different moments | some client survives; it finds its port; it works with what its predecessor saved last; every start ends |
| **Windows install, repair, service** (`app_windows.go`, `maintenance_windows.go`, `service_windows.go`, `openssh_windows.go`, `files_windows.go`) | the tunnel service, the installed program, the configuration, `sshd_config` and OpenSSH's service, the install record | install, repair, uninstall, recover; the service runs, saves credentials, fails, is restarted | every step may fail, the window may be closed, the machine may restart; the service runs beside the installer | a failure leaves the service running, a usable `sshd_config` and the newest credential |
| Panel key and pages, web console login and pages, framing, bootstrap token encoding, server configuration, desktop windows, log rotation, launcher, packaging | | | | not modelled, see section 7 |

How they interact: a client dials the server and registers; its handler runs
the registry's sync, which creates tunnels; a public connection makes the
tunnel send `open_connection` on the node's control connection; the client
dials a second connection and attaches it, and `handleAttach` takes the pending
connection and relays. The console changes the registry concurrently; the
management panel changes the client's configuration concurrently. On Linux a new
client takes the configuration over from the one that runs; on Windows the
installer stops and restarts the service that runs the client.

## 2. Plan

1. `StreamTunnel` with the abstract `PublicConnection`: the data path. Done,
   proved.
2. `ServerRegistry`: registry, state file, restart. Done, invariants proved.
3. `DatagramTunnel`, `ClientSession`, `BlockRequests`, `SupportController`. Done,
   invariants proved.
4. `ManagedConfig`, `LinuxClient`, `WindowsInstall`. Done, invariants proved.
5. Every safety property of a passing run is now a theorem. What remains would widen the
   model: a second Windows account, the login sessions of the two consoles, the
   launcher.

Composition: `StreamTunnel` already holds the server's tunnel, the client's
handlers, the control messages between them and the part of the registry they
read (is the node known, its credential, its session). The registry is checked
without the data path: a tunnel there is registered or not. `ClientSession` (the loop, the
revision, the running session) and `ManagedConfig` (what is written and read back)
are two views of the same requests: the first keeps a configuration as a host and
a credential and follows each critical section, the second keeps the whole
configuration and takes a request's work under `updateMu` in two steps.

## 3. Modules and how they correspond to the code

**Steps.** A goroutine is a process; a step is the code between two points where
another goroutine can see a difference: the release of a mutex, the sending of a
message, the closing of a socket. Saves of the state file belong to the step
before them.

**`ServerRegistry`.** `nodes` maps a name to a Node object (0: none); objects have
identities because `deleteNode` followed by a new credential makes a new object
while handlers still hold the old one. `tunnels`, `ports` and `createMu` are the
server's tables and mutex; `pc` and `l` are the place and the locals of each
handler (`Conns`) and console request (`Admins`). `Register_*`, `ControlLoop_Exit`
are `handleRegisterNode`/`nodeControlLoop`; `Sync_*` is `syncNodeTunnels`;
`Create_*` is `createTunnelInternal`, holding `createMu` from `Create_Begin` to
`Create_Insert` or `Create_NoPort`. A sync and a deletion close the tunnels they
collected one by one (`CloseNext`). `Push*` is `pushAssignments` with `sendControl`: it
waits for the node's `controlWriteMu` (`Push_Waits`), its write may block while it holds
that lock because the client does not read (`Push_Blocks`, `Push_Returns`), and a failed
write disconnects. `Issue`, `Delete`, `Reassign`, `Resync` are the console's
requests. `Shutdown*`, `Exit`, `Restart`, `Restore*`, `Serve` are the life of the
process. `foreign` are ports other programs hold after a restart. `boot`, `served`
and `raced` are history variables that only properties read: what was in the file
when the process ended, what was mapped when an orderly shutdown began, and which
names two operations worked on at the same time or lost a listener by itself.

**`PublicConnection`** is what a user of a public port may rely on: a connection
waits, is relayed over one channel at most once, and stays over once it is over.

**`StreamTunnel`.** `hpc` is `handlePublicConn` of each connection (the timer is
armed before the insertion, as in the code), `pending` and `timer` the table and
its timers; a timer that has `fired` is a callback that `Stop` no longer prevents.
`cpc` and `victims` are `Tunnel.Close`: mark, swap the table, close the victims
outside the lock, unregister. `chan` is the server's handler of each data channel
(`handleAttach`: check, take, relay), `cl` and `tries` the client's handler with
its attempts. `SessionLost`/`Reconnect`, `DeleteNode` and `RotateCredential` are
the registry's effects on it. `SlowScheduling` says whether the attach timer may
beat the few instructions between arming it and inserting the connection; safety
is proved with it, and `ConnectionResolved`, the liveness property, is checked
without it.

**`DatagramTunnel`.** One session object per remote address and life; `once` is
`closeOnce` (a second caller waits, then does nothing), `at`/`it` the attach and
idle timers, `taken` the stream `close` read under the lock and closes after it,
`apc` the attach handler: find the session, adopt the stream, start the pipes.

**`ClientSession`.** `pc` is the loop of `Client.Run` with the session it runs;
`src`/`srcRev` what it read. A configuration request holds `updateMu` through
`Config_Save` (file), `Config_Install` (memory, revision), `Config_Clear`
(assignments) and `Config_Done`; `RequestReconnect` cancels the session and
signals the loop. A page is composed in two steps, since the code reads the
configuration (`Form_Config`) and the revision (`Form_Revision`) under separate locks:
`form` keeps the host shown, the revision that host belongs to (`seen`) and the one the
page carries (`rev`). `Session_Issued` is `persistSessionCredential`. A `Crash` restarts
from the file.

**`BlockRequests`.** `entries` is the table of channels of capacity one; `reader`
is the control reader between taking a channel out and sending to it; `failing`
are the requests the deferred `failPendingBlockRequests` still answers, before
the deferred close of the connection.

**`SupportController`.** One Windows account, since accounts share only the lock.
`sess` is its entry in `sessions`, `key` the session whose forced command is in the
key file, `jobs` the calls of `cleanupSession` past their locked beginning
(`CleanupBegin`): kill, clear, then delete the entry or mark it `cleanup-error`.
`user` are requests of dialogs (`User_Asks` is the dialog, with the session it
showed), `shell` the `support-shell` processes that sshd starts with the session
found in the file, `watch` their watchers, `sweep` the sessions `Close` collected.
A pipe request accepted before `Close` runs on beside it. `OpenProcess` may fail for a
shell that lives (`Watch_Denied`), `taskkill` may fail (`Job_KillFails`), and any process
of the account may report a session finished (`Finished_ByOther`): each leaves a shell
running without its session, which the history `loose` records, as it does the shells
that outlive the service.

**`ManagedConfig`.** `mem` is `Client.cfg`, `file` what `SaveConfig` left in the file
(`Stored` drops what a bootstrap token or a password stands for), `FileConfig` what
`LoadManagedConfig` makes of it (`Seed` and `Prepared`, then `Resolved`). `busy` is the
holder of `updateMu` between the file's replacement and the assignment of `Client.cfg`.
`Catalog`, `Selected`, `ApplyHosted` are the functions of `hosted_servers.go` as they
are, including the order in which an entry is found by its address; `Servers_Remove`
takes the first entry with the id out of the list. `Session_Issued`
may come long after `Session_Start`. The history `consent` collects where the user
entered each credential for, and who issued it; `doubt` says that the file may hold a
request that was never acknowledged.

**`LinuxClient`.** `pc` is where each process is in `linuxMain`; `Alive` are the
processes that `processUsesConfig` finds in `/proc`. `startLock` and `instance` are the
file locks, which the kernel releases with their process (`End`); `port` is the
management port, which a client closes in a goroutine of its own (`ClosePort`).
`AcquireStart` ... `AlreadyRunning` are `acquireInstance` with `terminateMatching`
(`left`, `victim`); `unit` is the systemd unit with `Restart=on-failure` and
`RestartPreventExitStatus=75`. `cfg` and `file` are versions of the configuration.
The service's process is one element of `Clients` at each of its starts: a takeover
that still waits for or lists the former process finds it gone when systemd starts a
new one (`processUsesConfig` goes by process number). SIGKILL takes effect at once.
The watcher holds `instance.lock` between `Watch_Probe` and `Watch_Release`. A client
that has released its lock may still save until its process ends, because handlers of
its management page run on (`Persist`). `AwaitsUser` says where a start waits for the
user: at the password of `sudo systemctl stop`, and in the wizard of `-setup`.

**`WindowsInstall`.** `pc` and `me` are the place and the locals of `install`, `repair`
or `uninstall`, one at a time; `Failed` is the deferred
`recoverTunnelServiceAfterFailure`. `svc`, `scm` and `svcExe` are the tunnel service as
Windows keeps it, `sshd`, `conf` and `loaded` OpenSSH's service, its file and what it
runs with; `conf` is `"torn"` when the rollback's copy was cut off. `Step_Fails` is the
failure of any step that leaves nothing behind; failures that do (the replacement of
the configuration, validation, the rollback, `sshd` between its stop and its start) are
actions of their own. `Close` ends the installer without its
deferred calls, `Reboot` everything.

`MC*` modules give the constants that a configuration file cannot express and
the symmetry sets. An operator under a comment that starts with "Mutant:" is a
plausible bug, used only to show that a property can fail.

## 4. Runs

| Run | Checks | Bounds |
|---|---|---|
| `registry_races` | `PortTableAgrees`, `OneMappingPerPreset`, `RegisteredConnHasHandler`, `SerialOperationsProvision` | two connections of one node, one console request at a time (2 in all), 2 presets, a second registration that changes a protocol and adds a preset, an invalid one, one listener failure |
| `registry_restart` | `RestartKeepsPorts`, `RestartKeepsMapping`, `OperationsSettle` | one connection, 2 console requests, 2 credentials, one exit at any step or after an orderly shutdown, saves that fail, periodic saves, two ports of which another program may take one, one client that may stop reading (`MaxStalls`) |
| `registry_deleted`, `registry_shutdown` | one statement of the repository's README each, see section 6 | as `registry_races`; one orderly shutdown and restart |
| `stream` | `OneOwner`, `ActiveCountsRelays`, `ClosedTunnelHasNoPending`, `ImplementsPromise`, `ConnectionResolved` | one connection, three attach attempts, two reconnects |
| `datagram_sessions` | `OpenSessionIsTimed`, `ActiveCountsSessions`, `OpenTunnelKnowsSessions`, `SessionEnds` | one remote, two sessions one after the other, a retried attach for the first |
| `client_reload` | `StaleSessionIsCancelled`, `ChangeWakesLoop`, `CredentialBelongsToHost`, `AssignmentsAreCurrent`, `ConnectedMeansSession`, `NoBlindOverwrite`, `ChangeIsApplied` | two hosts, two requests, one page loaded (`MaxPages`), two accepted changes, one reconnect request, one issued credential, one crash, failing saves |
| `block_requests` | `SenderNeverBlocks`, `NoForgottenEntry`, `SessionCloses` | three requests, two answers to each |
| `support_sessions` | `RunningShellIsVisible`, `KeyHasSession`, `WaitingSessionHasKey`, `EndedShellEndsSession` | two concurrent user requests, two sessions, two shells, one stop or crash, one failure (`MaxFaults`): of a file operation, of `taskkill`, of `OpenProcess`, or a report of another process |
| `managed_config` | `CredentialStaysHome`, `RestartKeepsConfiguration`, `EditsAreKept` | two addresses, two TLS identities, two node names, two credentials entered, one issued, two edits, one crash or unreadable file; room for two added servers |
| `linux_takeover` | `RunsNewestConfig`, `TakeoverLeavesOne`, `TakeoverFindsPort`, `StartupEnds` | two foreground clients and the service (two starts), one save, one interrupt, one failing step |
| `windows_maintenance` | `FailureRestoresService`, `SshdConfigIsUsable`, `CredentialKept` | three operations, two failing steps, two newer credentials, one crash of the service, one restart or closed window; a machine without OpenSSH (perhaps with its configuration left over), with its owner's, or with an older version of the client |

Each module has a `TypeOK`; the runs do not spend a check on it. It is proved for every
module (`BlockRequests` calls it `BlockTypeOK`, and prefixes its `Init`, `Next` and
`Spec` in the same way, since `ClientProofs` extends two modules).

Why these bounds show something: every race named in `hazards` has two parties on one
node, one tunnel, one session or one table entry, plus at most one change from
outside, and each run has them. Where an invariant is proved (section 8) the bounds no
longer matter to it: the run shows that the model can break it (the mutants) and does
reach the interesting states. So the run of the data path has one connection, and
spends its states on retries and reconnects. A takeover concerns two starters and the
service, a maintenance run one failure and one thing that happens beside it; three
operations allow a failed run, its repetition and a repair. One node name is enough
because nodes share only the port table and `createTunnelMu`, over which two presets
of one node already compete. Two ports make the pool run out; two tunnel ids more than
ports keep an id from being reused while a handler holds it. `Max*` constants bound
what the environment may do (requests, exits, failures, attempts, reconnects,
answers), never what the program does in answer. `registry_restart` has one exit;
section 6 says what a second one does.

`CHECK_DEADLOCK FALSE` stands where the environment may simply stop: connections used
up, requests used up, a closed tunnel, a client that runs undisturbed. `client_reload`
checks deadlock: the loop always has a step.

`SerialOperationsProvision` is deliberately restricted to names on which no two
operations overlapped and no listener failed by itself (`raced`: nothing creates a
mapping again whose accept loop ended); without that restriction the code does not satisfy
it (section 6). It is a statement about one operation at a time, with all its error
paths; overlapping ones are the subject of the three other properties of its run.

Four properties name, in the formula, what the code does not exclude: `NoBlindOverwrite`
(a page composed across a change), `RunningShellIsVisible` (`loose`),
`OperationsSettle` (`BehindSilentClient`) and `CredentialKept` (`raced`). Each is refuted
in its run when the exception is dropped; section 6 says what happens then.

## 5. Fairness

Weak fairness for every goroutine's next step (the Go scheduler runs runnable
goroutines) and for timers (they fire, their callbacks run). Strong fairness for
taking `createTunnelMu` (`Create_Begin`), `controlWriteMu` (`Push`) and `updateMu`
(`Loop_Publish`): Go's mutex goes into starvation mode and hands itself to a waiter. A
write on a control connection is fair only as long as the connection's deadline
stands, which the handler clears when it enters the control loop (`server.go:259`), or
once the connection is closed; otherwise it may block for ever (`Stalled`), and
`OperationsSettle` excepts exactly the pushes to that node. `SessionEnds` assumes the
idle timer is not re-armed for ever; sessions and channels are bounded, but a remote
that never stops sending keeps its session, as it should. `EndedShellEndsSession`
assumes that watchers, `finished` handlers and cleanups run. `StartupEnds` assumes
that a starting client takes its next step or reaches its deadline, but not that the
user answers (`StopService` and `Setup` are not fair, and the property accepts a start
that waits for the user), that systemd keeps its stop timeout, and that the watcher
closes the lock file it opened; a client that runs need not obey its signals, it is
killed. `SessionCloses` needs that the sends of a session's end do not block, which
`SenderNeverBlocks` says; the client's own control writes have a deadline of ten
seconds. Nothing is assumed of clients (in particular not that they read), remotes,
operators, the network, or of whoever closes a tunnel; a healthy session is never
forced to end.

## 6. Where the code and the repository's README disagree

- **Deletion during registration** (`registry_deleted`). `deleteNode` may run after
  `registerNode` looked the Node up and before it stores its connection; the
  handler then serves a connection of a node that is gone. In the same way a
  tunnel may be inserted after `deleteNode` collected the node's tunnels.
- **Saves during shutdown** (`registry_shutdown`). `shutdown` saves first, but every
  control loop it ends saves again, and one that does so after the first tunnel
  was closed writes a file without it: the next start does not restore that port.
- **Exit during the restore** (the same README line; `registry_restart` with
  `MaxExits = 2` and no shutdowns refutes `RestartKeepsPorts`). Every restored tunnel saves the
  state so far over the file, so a process that ends in the middle of the restore
  loses the rest.

Behaviours worth knowing that no run asks for:

- **Overlapping syncs.** `syncNodeTunnels` copies the presets and acts on the copy; the
  sync of an older registration may run last and close what the newer one declared.
  No error is recorded and nothing repairs it until the next registration or resync.
- **A client that stops reading.** `sendControl` writes without a deadline (cleared at
  `server.go:259`) while it holds `controlWriteMu`. A registered client that keeps its
  connection and reads nothing blocks, once the buffers are full, the sync, resync or
  reassignment that tells it its mappings, and everything that later writes to the node:
  also the `open_connection` and `open_datagram` of its tunnels (`tunnel.go:159`,
  `:182`), which are not pushes and not in `ServerRegistry`. A registration whose
  response fails (`server.go:245`) leaves the connection it displaced open, so that a
  write blocked on that one makes the node's newer connection wait too. No mutex shared
  between nodes is held meanwhile, and closing the connection (rotation, deletion)
  ends the wait.
- **A page composed across a change.** `handleManagementDashboard` reads the
  configuration at `management_web.go:146` and its revision at `:191`; a change in
  between gives a page with the old configuration and the new revision. Saving that page
  passes the check at `:241` and overwrites a change it never showed, where the code
  means to answer "配置已在其他页面更新，请刷新后重试" (`management_web.go:242`). Reading
  the revision first, or both in one critical section, would close it.
- **A support session that ends without its shell.** `watchSupportShell` ends the
  session when `OpenProcess` fails for whatever reason (`support_windows.go:703`),
  `finished` is accepted from any process of the account (`:548`), and the result of
  `taskkill` is ignored (`:761`). In each case the key is cleared and the entry removed
  while the shell runs on; it is not shown any more and cannot be stopped from the
  dialog, whose text promises that the connection is cut at once (`:902`, and
  `client/packaging/client-windows-ssh/使用说明.txt:64`). A stop that meets a cleanup in
  progress returns success before that cleanup has succeeded (`:722`).
- **A late save beside a starting service.** `instance.lock` is released when `Client.Run`
  returns, the process ends a moment later, and a request to its management page may
  save in between. A foreground client waits for the process; the service only tries
  the lock, and may have loaded the file before that save. Extended to the service,
  `RunsNewestConfig` is refuted in the instance of `linux_takeover`.
- **OpenSSH after a failed installation.** `ensureOpenSSH` manages `sshd_config` when
  this run installed OpenSSH, when the install record says so, or when the file has the
  managed block. An installation that installs OpenSSH and fails before any of these
  is written, or is closed there, leaves none of them; the next one takes OpenSSH for
  the owner's and starts it with its default configuration, which listens on every
  address. `client/packaging/client-windows-ssh/README.txt:82` promises 127.0.0.1 only.
- **The desktop watcher's probe.** `watchDesktop` looks at `instance.lock` by taking it.
  A service that starts in that moment finds it taken, ends with 75 ("already
  running"), and systemd does not start it again although no client runs.
- **A credential issued during an installation.** The service runs on until
  `install` stops it; a credential it saves between the installer's load and save of the
  configuration is overwritten by the older one. `CredentialKept` names this (`raced`).
- **An aborted first installation on Windows.** The seed configuration is saved before
  the wizard asks for a credential; if the wizard fails, every later `install` refuses
  that file as invalid, by intention (`app_windows.go:244`), until it is removed.
- **Servers with one address.** An entry of the server list is found by its address
  first; selecting the entry that is in use keeps the TLS settings in use, also when
  the entry names others. The wizard likewise keeps the TLS settings of the file when
  another address is entered. `CredentialStaysHome` counts the settings in force when
  the credential was entered as the ones it was entered for.
- **Attach to a closing UDP session.** `session.attach` does not look at `closed`; a
  stream adopted after `close` read `session.stream` is kept, and the idle timer's
  `close` is a no-op behind `closeOnce`. "A closed session's stream is closed" is
  refuted when added to the instance of `datagram_sessions`.
- **A failed start of remote support.** When writing the key file fails after the
  line was written, `start` reports an error and makes no session, but what was
  written stays until the next start of the service. `KeyHasSession` names this
  exception (`broken`); a shell that logs in with such a key is not let in, because
  no session has its id.

## 7. Not modelled, and why

Presentation and terminal or window I/O: the console's and the panel's pages, the
wizard's prompts, the desktop windows, the log monitor, the bounded runtime log and
log rotation, the launcher, packaging scripts. Single lookups under one lock: login
sessions of the console and the panel's key. Pure encodings without state: framing,
datagrams' headers, the bootstrap token. External programs behind one call: TLS,
DISM, PowerShell, file access rights; in `WindowsInstall` they are steps that may fail.
The earlier client under `internal/client` speaks the same protocol without retries and
hot reload and is not modelled beside its successor. Not in any module: byte counters,
payloads and the copying of data; more than one configuration on one Linux machine,
which share nothing; two installers at the same time, which Windows's elevation prompt
does not exclude but the program has no rule for.

Abstracted: in `ServerRegistry` and `StreamTunnel` a credential is a number, a preset is
its name and protocol; in `ClientSession` a configuration is a host and a credential,
and the content of assignments is the revision they belong to; in `ManagedConfig` the
mappings are a version number and TLS switch, name and CA file one identity; in
`LinuxClient` a configuration is its version; in `WindowsInstall` a program is old or
new and a credential its age.

## 8. Proofs

Each `<M>Proofs` extends `<M>` and proves theorems of `Spec` for every value of
`<M>`'s constants (`ClientProofs` extends `ManagedConfig` and `BlockRequests`, which
share nothing): any number of nodes, connections, requests, sessions, clients,
failures and retries. The assumptions give the constants their types (natural bounds,
finite sets, `None` apart from the real values). Two of `ServerRegistry` say more:
registrations have the form the handler accepts, and there are identities enough for
the nodes of one state file (an injection of `Names` into `NodeObjs`; in the code an
identity is a pointer).

The argument has the same shape everywhere. The wanted property is rarely inductive;
`IInv` adds what each goroutine knows between two critical sections. `IInvInit` and
`IInvStep`, with one step per action of `Next`, and the same for the types, give
`Spec => [](TypeOK /\ IInv)`, and each theorem follows from a part of it. The
strengthened invariants were checked by TLC on the instances of section 4 before they
were proved.

| Module | Theorems (property) | What `IInv` adds, and why it is needed |
|---|---|---|
| `StreamTunnelProofs` | `TypeCorrect`; `ConnectionsHaveOneOwner` (`OneOwner`); `CloseDrainsPending` (`ClosedTunnelHasNoPending`); `RelaysAreCountedOnce` (`ActiveCountsRelays`); `TunnelImplementsPromise` (the refinement of `PublicConnection`) | `HandlerInv`: a connection about to be inserted has no other owner; `CloseInv`: victims exist only between the swap of the table and the end of `Close`; `ChannelInv`: channels are opened in order, so an attempt never overwrites a relay. `CountInv`, for the counter: a channel is counted exactly while it relays, and the cardinality moves by one |
| `ServerRegistryProofs` | `RegistryTypeCorrect`; `RegisteredConnectionsHaveHandlers` (`RegisteredConnHasHandler`); `TablesAgree` (`PortTableAgrees`); `PresetsAreMappedOnce` (`OneMappingPerPreset`); `RestartsKeepPorts`, `RestartsKeepMappings` (`RestartKeepsPorts`, `RestartKeepsMapping`) and `SerialOperationsProvisionNodes` (`SerialOperationsProvision`), see below | `LocalInv`: what a handler carries from one critical section to the next; `HolderInv`: only the holder of `createTunnelMu` creates, its checks still hold when it inserts (the port it probed is free, the preset it is about to map is not mapped, but for the tunnel it replaces), and nothing else can insert meanwhile; `PhaseInv`: which processes can run while the server starts, serves or is down; `PushEnds`/`PushStays`: a push ends its operation or waits, and touches nothing but its node's connection; `FileInv`: a state file never maps a port twice, so what is restored fits into the table |
| `DatagramTunnelProofs` | `DatagramTypeCorrect`; `OpenSessionsAreTimed` (`OpenSessionIsTimed`); `OpenTunnelsKnowTheirSessions` (`OpenTunnelKnowsSessions`); `SessionsAreCountedOnce` (`ActiveCountsSessions`) | `CreatedInv`: how the timers, the adopted stream, `closeOnce` and the table of each session go together; `CountInv`: the counter is that of the sessions not closed |
| `ClientSessionProofs` | `ClientTypeCorrect`; `StaleSessionsAreCancelled`; `ChangesWakeTheLoop`; `CredentialsBelongToTheirHost`; `ShownAssignmentsAreCurrent` (`AssignmentsAreCurrent`); `ConnectedNeedsASession` (`ConnectedMeansSession`); `PagesNeverOverwriteBlindly` (`NoBlindOverwrite`) | `LockInv`: the request that replaces the configuration holds `updateMu`; `SessionInv`: an old configuration is in use only while its replacement is under way, then the session is cancelled and the signal stays until the loop reads again; `RequestInv`: what a request is about to install, and that a page whose configuration belongs to the present revision shows the present host |
| `ClientProofs`, of `ManagedConfig` | `RoundTrip`; `ConfigTypeCorrect`; `CredentialsStayHome` (`CredentialStaysHome`); `RestartsKeepConfiguration` (`RestartKeepsConfiguration`); `EditsAreNotLost` (`EditsAreKept`) | `ConfigInv`, see below |
| `ClientProofs`, of `BlockRequests` | `BlockTypeCorrect`; `SendersNeverBlock` (`SenderNeverBlocks`); `EntriesAreRemembered` (`NoForgottenEntry`) | `HolderInv`: a reply channel is in the table, with the reader or with `failPendingBlockRequests`, at most one of them, and empty as long as it is |
| `LinuxClientProofs` | `LinuxTypeCorrect`; `ClientsRunTheNewestConfig` (`RunsNewestConfig`); `TakeoversFindTheirPort` (`TakeoverFindsPort`); `TakeoversLeaveAClient` (`TakeoverLeavesOne`); `ClientsExcludeEachOther` (`OneRunning`: at most one client runs) | `LockInv`: who holds the two locks and the port where; `TakeoverInv`: every client past its own takeover, ending ones included, is on the list of the one that takes over, until none is, and none comes back while that one runs; `ReasonInv`, `SurvivorInv`: a client that is ended for a takeover has a successor waiting for it |
| `SupportControllerProofs` | `SupportTypeCorrect`; `RunningShellsAreVisible` (`RunningShellIsVisible`); `KeysHaveSessions` (`KeyHasSession`); `WaitingSessionsHaveKeys` (`WaitingSessionHasKey`) | `CleanupInv`: at most one cleanup, of the session that is stopping, and its key is out of the file before its entry goes; `SessionInv`: session ids are not reused, and a session admits one shell; a running shell is with its session, or in `loose`. `CleanupBeginKeepsInv` is the locked beginning of `cleanupSession`, cited for each of its callers |
| `WindowsInstallProofs` | `InstallTypeCorrect`; `FailuresRestoreTheService` (`FailureRestoresService`); `SshdConfigStaysUsable` (`SshdConfigIsUsable`); `CredentialsAreKept` (`CredentialKept`) | `CredentialInv`: what the installer loaded is the newest credential, or `raced`; `ConfigInv`: a usable configuration was noted before the file is replaced; `ServiceInv`: where the installer may remember a service it has to restore |

**Restarts.** `RestartsKeepPorts` and `RestartsKeepMappings` are theorems of
`Spec /\ Uninterrupted`, where `Uninterrupted` says that the process does not end in the
middle of a restore. Without it they are false: every restored tunnel saves the state
so far over the file, and an exit then loses the rest (section 6). Exits at every other
step, failing saves and ports taken by other programs stay in, any number of them, so
the theorems cover any number of restarts, where the run has one. `RestoreInv` follows
each mapping of the file through the restore: it is still to do, or restored, or its
port is taken, or no longer declared, or its preset has two mappings in the file (a
crash in a reassignment) and the other one is there.

**What one operation leaves.** `SerialOperationsProvision` speaks of the moments at which
nothing works on a node; what makes it true is what the operation has established at
every step before. `SerialInv` says so: on a node on which no two operations overlapped
at most one goroutine is at work, `Stage` holds of it (after the list of a sync, say,
the presets without a mapping are exactly those in its own list `miss`; in a
reassignment, the old mapping still serves while the new one is created), and if none is
at work the node is as the property wants it (`AtRest`). `OwnerInv` keeps the names
apart: an identity or a mapping in the hands of a goroutine belongs to the name it works
for, so a step for one name leaves all others alone (`SerialElsewhere`). `RestoringInv`
connects it with a restart: what the restore has built when the server starts to serve
is settled. The step of each action is proved for one name (`RegistrationHere`,
`SyncHere`, `CreateHere`, `InsertHere`, ...). The same
invariant gives the second half of the property: a deletion that ends alone leaves no
mapping of the deleted node.

**The client's configuration.** The lemmas come in two layers. `RoundTrip` is about data:
for a configuration that is `WellFormed` (a bootstrap token decides server, token and
node; a password is never alone), reading back the stored form gives the same
configuration, although the file leaves out what can be derived. `ConfigInv` is about
the writers: `Client.cfg` and what the file is read back as are both `Sound`, that is
well formed, without a server listed twice, within the limit of servers, and presenting
a credential only as consented (`consent`); and they agree (`Agreement`): the file is one
step ahead exactly while a writer holds `updateMu`, and what the writer will acknowledge
is what it wrote. `CredentialStaysHome` alone is not inductive: a configuration that is not
well formed would come back from the file with another server or token than it was
saved with. That no server is listed twice is what makes a removal by id remove that server
and no other.

**The refinement.** `TunnelImplementsPromise` maps each action of `StreamTunnel` to
`Arrive`, `Relay`, `End` or a stutter of `PublicConnection`, and needs the same
invariant: taking a pending connection is a legal `Relay` only because nothing else
owns it.

**What the proofs showed of the model.** The invariant of the takeover was not inductive
as long as a service that systemd starts again stayed on the list of a takeover that had
found its former process; the code finds processes by number, so it does not, and
`Systemd_Start` was corrected. The types of
the restore need an identity for each node of a file, which is now an assumption.

Only model-checked: everything about liveness (`ConnectionResolved`, `SessionEnds`,
`ChangeIsApplied`, `SessionCloses`, `EndedShellEndsSession`, `StartupEnds`,
`OperationsSettle`), since fairness and ENABLED are outside the prover's reach. The two
properties of the violation runs are false of the code.
