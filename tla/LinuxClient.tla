----------------------------- MODULE LinuxClient -----------------------------
(***************************************************************************)
(* The processes of the Linux client that share one configuration          *)
(* (client/cmd/tunnel-client): foreground clients, each of which takes the *)
(* configuration over from whoever runs, the service systemd starts, and   *)
(* the desktop watcher that looks at their lock.  acquireInstance          *)
(* serialises takeovers with start.lock and holds instance.lock for the    *)
(* life of the client; the management port is bound later and released     *)
(* separately.  One configuration: other ones have other files.            *)
(***************************************************************************)
EXTENDS Naturals, FiniteSets

CONSTANTS
    Foreground,     \* invocations of the client in a window (replace = true)
    Service,        \* the process of the systemd unit (-service-mode)
    Probe,          \* the desktop watcher while it holds instance.lock
    None,           \* nobody
    MaxSaves,       \* bound: times a client saves the configuration
    MaxInterrupts,  \* bound: interrupts by the user
    MaxErrors,      \* bound: failures of a start (files, systemctl)
    MaxStarts       \* bound: starts of the service

ASSUME LinuxAssumption ==
    /\ Service \notin Foreground
    /\ {Probe, None} \cap (Foreground \cup {Service}) = {} /\ Probe # None
    /\ MaxSaves \in Nat /\ MaxInterrupts \in Nat /\ MaxErrors \in Nat /\ MaxStarts \in Nat

Clients == Foreground \cup {Service}

VARIABLES
    pc,         \* where each client is
    cfg,        \* the version of the configuration each client works with
    file,       \* the version of the configuration in the file
    term,       \* clients whose context a signal cancelled
    left,       \* terminateMatching: processes of /proc still to look at
    victim,     \* terminateMatching: the process it waits for
    startLock,  \* holder of start.lock
    instance,   \* holder of instance.lock
    port,       \* client that listens on the management port
    unit,       \* the systemd unit: "off", "on", or "restart" (to be started)
    why,        \* history: what ended a client
    budget      \* interrupts, errors and starts left

vars == <<pc, cfg, file, term, left, victim, startLock, instance, port, unit, why, budget>>

\* linuxMain after the flags, in its order; "wait" is the wait of terminateMatching.
Starting == {"stopsvc", "stopping", "start", "scan", "wait", "inst", "reload", "setup",
             "listen"}
Alive(p) == pc[p] \in Starting \cup {"running", "exiting"}

\* The processes processUsesConfig recognises: clients, never observers.
Matching(p) == {q \in Clients \ {p} : Alive(q)}

Init ==
    /\ pc = [p \in Clients |-> "off"]
    /\ cfg = [p \in Clients |-> 0]
    /\ file = 0
    /\ term = {}
    /\ left = [p \in Clients |-> {}]
    /\ victim = [p \in Clients |-> None]
    /\ startLock = None /\ instance = None /\ port = None
    /\ unit \in {"off", "restart"}
    /\ why = [p \in Clients |-> "none"]
    /\ budget = [interrupts |-> MaxInterrupts, errors |-> MaxErrors, starts |-> MaxStarts]

-----------------------------------------------------------------------------
(* The end of a process: the kernel releases its locks and its port, and   *)
(* systemd looks at how its own process ended (Restart=on-failure,         *)
(* RestartPreventExitStatus=75).                                           *)

Freed(v, p) == IF v = p THEN None ELSE v

\* systemd: another start only after a failure of a unit nobody stopped.
UnitAfter(p, code) ==
    IF p # Service \/ unit # "on" THEN unit
    ELSE IF code = "fail" THEN "restart" ELSE "off"

\* Process p ends with an exit code: "ok", "fail" or "yield" (75).
End(p, code) ==
    /\ startLock' = Freed(startLock, p)
    /\ instance' = Freed(instance, p)
    /\ port' = Freed(port, p)
    /\ unit' = UnitAfter(p, code)

Blame(p, reason) == IF why[p] = "none" THEN [why EXCEPT ![p] = reason] ELSE why

\* linuxMain returns before the client runs.
GiveUp(p, code, reason) ==
    /\ pc' = [pc EXCEPT ![p] = "gone"]
    /\ why' = Blame(p, reason)
    /\ left' = [left EXCEPT ![p] = {}]
    /\ End(p, code)
    /\ UNCHANGED <<cfg, file, term, victim>>

-----------------------------------------------------------------------------
(* Starting.                                                               *)

\* The user runs the client in a window; LoadManagedConfig reads the file.
Launch(p) ==
    /\ p \in Foreground /\ pc[p] = "off"
    /\ pc' = [pc EXCEPT ![p] = "stopsvc"]
    /\ cfg' = [cfg EXCEPT ![p] = file]
    /\ UNCHANGED <<file, term, left, victim, startLock, instance, port, unit, why, budget>>

\* systemd starts the service, at boot or after a failure.  It is a new process:
\* the one a takeover found in /proc, or waits for, is the old one.
Systemd_Start ==
    /\ unit = "restart" /\ ~Alive(Service) /\ budget.starts > 0
    /\ pc' = [pc EXCEPT ![Service] = "start"]
    /\ cfg' = [cfg EXCEPT ![Service] = file]
    /\ term' = term \ {Service}
    /\ unit' = "on"
    /\ why' = [why EXCEPT ![Service] = "none"]
    /\ left' = [p \in Clients |-> left[p] \ {Service}]
    /\ victim' = [p \in Clients |-> Freed(victim[p], Service)]
    /\ budget' = [budget EXCEPT !.starts = @ - 1]
    /\ UNCHANGED <<file, startLock, instance, port>>

\* stopManagedService found the unit running this configuration; systemctl may
\* ask for a password before it stops it.
ServiceInTheWay(p) == pc[p] = "stopsvc" /\ unit = "on" /\ Alive(Service)

StopService(p) ==
    /\ ServiceInTheWay(p)
    /\ pc' = [pc EXCEPT ![p] = "stopping"]
    /\ unit' = "off"
    /\ term' = term \cup {Service}
    /\ why' = Blame(Service, "takeover")
    /\ UNCHANGED <<cfg, file, left, victim, startLock, instance, port, budget>>

\* No unit runs it.
StopService_None(p) ==
    /\ pc[p] = "stopsvc" /\ ~ServiceInTheWay(p)
    /\ pc' = [pc EXCEPT ![p] = "start"]
    /\ UNCHANGED <<cfg, file, term, left, victim, startLock, instance, port, unit, why, budget>>

\* systemctl stop returns when the process has ended.
StopService_Done(p) ==
    /\ pc[p] = "stopping" /\ ~Alive(Service)
    /\ pc' = [pc EXCEPT ![p] = "start"]
    /\ UNCHANGED <<cfg, file, term, left, victim, startLock, instance, port, unit, why, budget>>

\* systemd kills a process that does not end within its stop timeout.
Systemd_Kill ==
    /\ unit = "off" /\ Service \in term /\ Alive(Service)
    /\ \E p \in Foreground : pc[p] = "stopping"
    /\ pc' = [pc EXCEPT ![Service] = "gone"]
    /\ left' = [left EXCEPT ![Service] = {}]
    /\ End(Service, "fail")
    /\ UNCHANGED <<cfg, file, term, victim, why, budget>>

\* A context cancelled while systemctl runs kills it, and the start fails.
StopService_Cancelled(p) ==
    /\ pc[p] = "stopping" \/ ServiceInTheWay(p)
    /\ p \in term
    /\ GiveUp(p, "fail", "interrupt")
    /\ UNCHANGED budget

\* Mutant: takeovers are not serialised.
AcquireStart_Unlocked(p) ==
    /\ pc[p] = "start"
    /\ pc' = [pc EXCEPT ![p] = IF p \in Foreground THEN "scan" ELSE "inst"]
    /\ left' = [left EXCEPT ![p] = IF p \in Foreground THEN Matching(p) ELSE {}]
    /\ startLock' = p
    /\ UNCHANGED <<cfg, file, term, victim, instance, port, unit, why, budget>>

\* acquireInstance: start.lock, then the processes of /proc when replacing.
AcquireStart(p) ==
    /\ pc[p] = "start" /\ startLock = None
    /\ pc' = [pc EXCEPT ![p] = IF p \in Foreground THEN "scan" ELSE "inst"]
    /\ left' = [left EXCEPT ![p] = IF p \in Foreground THEN Matching(p) ELSE {}]
    /\ startLock' = p
    /\ UNCHANGED <<cfg, file, term, victim, instance, port, unit, why, budget>>

\* lockFile on start.lock gives up: its deadline, or a cancelled context.
AcquireStart_GivesUp(p) ==
    /\ pc[p] = "start" /\ startLock # None
    /\ GiveUp(p, "fail", IF p \in term THEN "interrupt" ELSE "error")
    /\ UNCHANGED budget

\* Mutant: terminateMatching does not wait for the process to end.
Terminate_NoWait(p) ==
    /\ pc[p] = "scan"
    /\ \E q \in left[p] :
        /\ left' = [left EXCEPT ![p] = @ \ {q}]
        /\ IF Alive(q) THEN term' = term \cup {q} /\ why' = Blame(q, "takeover")
                       ELSE UNCHANGED <<term, why>>
    /\ UNCHANGED <<pc, cfg, file, victim, startLock, instance, port, unit, budget>>

\* terminateMatching: SIGTERM to the next process, if it still matches.
Terminate(p) ==
    /\ pc[p] = "scan"
    /\ \E q \in left[p] :
        /\ left' = [left EXCEPT ![p] = @ \ {q}]
        /\ IF Alive(q)
           THEN /\ pc' = [pc EXCEPT ![p] = "wait"]
                /\ victim' = [victim EXCEPT ![p] = q]
                /\ term' = term \cup {q}
                /\ why' = Blame(q, "takeover")
           ELSE UNCHANGED <<pc, victim, term, why>>
    /\ UNCHANGED <<cfg, file, startLock, instance, port, unit, budget>>

\* processUsesConfig of the process signalled.
VictimAlive(p) == victim[p] # None /\ Alive(victim[p])

\* The process signalled is gone.
Terminate_Done(p) ==
    /\ pc[p] = "wait" /\ ~VictimAlive(p)
    /\ pc' = [pc EXCEPT ![p] = "scan"]
    /\ victim' = [victim EXCEPT ![p] = None]
    /\ UNCHANGED <<cfg, file, term, left, startLock, instance, port, unit, why, budget>>

\* Mutant: a process that ignores SIGTERM is waited for.
Terminate_Kill_Never(p) == FALSE /\ UNCHANGED vars

\* SIGKILL after five seconds, or at once when the own context is cancelled.
Terminate_Kill(p) ==
    /\ pc[p] = "wait" /\ VictimAlive(p)
    /\ pc' = [pc EXCEPT ![p] = "scan", ![victim[p]] = "gone"]
    /\ victim' = [victim EXCEPT ![p] = None]
    /\ left' = [left EXCEPT ![victim[p]] = {}]
    /\ End(victim[p], "fail")
    /\ UNCHANGED <<cfg, file, term, why, budget>>

\* The scan is over; terminateMatching returns ctx.Err().
Terminate_All(p) ==
    /\ pc[p] = "scan" /\ left[p] = {}
    /\ IF p \in term
       THEN GiveUp(p, "fail", "interrupt")
       ELSE /\ pc' = [pc EXCEPT ![p] = "inst"]
            /\ UNCHANGED <<cfg, file, term, left, victim, startLock, instance, port, unit, why>>
    /\ UNCHANGED budget

\* instance.lock is free: write the pid, return, and release start.lock.
AcquireInstance(p) ==
    /\ pc[p] = "inst" /\ instance = None
    /\ instance' = p
    /\ startLock' = Freed(startLock, p)
    /\ pc' = [pc EXCEPT ![p] = "reload"]
    /\ UNCHANGED <<cfg, file, term, left, victim, port, unit, why, budget>>

\* instance.lock is taken: errAlreadyRunning, at once for the service and at
\* the deadline for a foreground client, or the end of a cancelled context.
AlreadyRunning(p) ==
    /\ pc[p] = "inst" /\ instance # None
    /\ IF p \in term /\ p \in Foreground THEN GiveUp(p, "fail", "interrupt")
                                         ELSE GiveUp(p, "yield", "yield")
    /\ UNCHANGED budget

\* Mutant: the client keeps what it read before the takeover.
Reload_Skipped(p) ==
    /\ pc[p] = "reload"
    /\ pc' = [pc EXCEPT ![p] = "listen"]
    /\ UNCHANGED <<cfg, file, term, left, victim, startLock, instance, port, unit, why, budget>>

\* "Reload after takeover: the old process may have just persisted its token."
\* With -setup the user is asked next.
Reload(p) ==
    /\ pc[p] = "reload"
    /\ \E next \in {"listen"} \cup (IF p \in Foreground THEN {"setup"} ELSE {}) :
          pc' = [pc EXCEPT ![p] = next]
    /\ cfg' = [cfg EXCEPT ![p] = file]
    /\ UNCHANGED <<file, term, left, victim, startLock, instance, port, unit, why, budget>>

\* BootstrapConfig saves what the user answered.
Setup(p) ==
    /\ pc[p] = "setup" /\ file < MaxSaves
    /\ pc' = [pc EXCEPT ![p] = "listen"]
    /\ file' = file + 1
    /\ cfg' = [cfg EXCEPT ![p] = file']
    /\ UNCHANGED <<term, left, victim, startLock, instance, port, unit, why, budget>>

\* RunManaged, startLocalWeb: bind the management port first, or fail.
Listen(p) ==
    /\ pc[p] = "listen"
    /\ IF port = None
       THEN /\ port' = p
            /\ pc' = [pc EXCEPT ![p] = "running"]
            /\ UNCHANGED <<cfg, file, term, left, victim, startLock, instance, unit, why>>
       ELSE GiveUp(p, "fail", "error")
    /\ UNCHANGED budget

\* Any other error of a start: systemctl or its password, /proc, a lock or log
\* file, the end of the input of BootstrapConfig.
Start_Fails(p) ==
    /\ pc[p] \in {"stopping", "scan", "inst", "reload", "setup", "listen"} \/ ServiceInTheWay(p)
    /\ budget.errors > 0
    /\ budget' = [budget EXCEPT !.errors = @ - 1]
    /\ GiveUp(p, "fail", "error")

-----------------------------------------------------------------------------
(* Running and ending.                                                     *)

\* The client saves a credential or a configuration; a handler of the management
\* page may still do so once the client returned, until the process ends.
Persist(p) ==
    /\ pc[p] \in {"running", "exiting"} /\ file < MaxSaves
    /\ file' = file + 1
    /\ cfg' = [cfg EXCEPT ![p] = file']
    /\ UNCHANGED <<pc, term, left, victim, startLock, instance, port, unit, why, budget>>

\* Ctrl+C, or the window is closed.
Interrupt(p) ==
    /\ p \in Foreground /\ Alive(p) /\ p \notin term /\ budget.interrupts > 0
    /\ budget' = [budget EXCEPT !.interrupts = @ - 1]
    /\ term' = term \cup {p}
    /\ why' = Blame(p, "interrupt")
    /\ UNCHANGED <<pc, cfg, file, left, victim, startLock, instance, port, unit>>

\* The goroutine of startLocalWeb closes the port of a cancelled client.
ClosePort(p) ==
    /\ pc[p] \in {"running", "exiting"} /\ p \in term /\ port = p
    /\ port' = None
    /\ UNCHANGED <<pc, cfg, file, term, left, victim, startLock, instance, unit, why, budget>>

\* Client.Run returns and the deferred unlock runs.
Unlock(p) ==
    /\ pc[p] = "running" /\ p \in term
    /\ pc' = [pc EXCEPT ![p] = "exiting"]
    /\ instance' = None
    /\ UNCHANGED <<cfg, file, term, left, victim, startLock, port, unit, why, budget>>

\* The process ends.
Exit(p) ==
    /\ pc[p] = "exiting"
    /\ pc' = [pc EXCEPT ![p] = "gone"]
    /\ End(p, "ok")
    /\ UNCHANGED <<cfg, file, term, left, victim, why, budget>>

\* watchDesktop looks whether a client holds instance.lock by taking it.
Watch_Probe ==
    /\ instance = None
    /\ instance' = Probe
    /\ UNCHANGED <<pc, cfg, file, term, left, victim, startLock, port, unit, why, budget>>

Watch_Release ==
    /\ instance = Probe
    /\ instance' = None
    /\ UNCHANGED <<pc, cfg, file, term, left, victim, startLock, port, unit, why, budget>>

\* What a client that starts does, whatever the user and the others do.
Advance(p) ==
    \/ StopService_None(p) \/ StopService_Done(p) \/ StopService_Cancelled(p)
    \/ AcquireStart(p) \/ AcquireStart_GivesUp(p)
    \/ Terminate(p) \/ Terminate_Done(p) \/ Terminate_Kill(p) \/ Terminate_All(p)
    \/ AcquireInstance(p) \/ AlreadyRunning(p)
    \/ Reload(p) \/ Listen(p)

\* What waits for the user: a password for systemctl, the answers of the wizard.
AwaitsUser(p) == ServiceInTheWay(p) \/ pc[p] = "setup"

Next ==
    \/ \E p \in Clients :
        \/ Launch(p) \/ Advance(p) \/ StopService(p) \/ Setup(p) \/ Start_Fails(p)
        \/ Persist(p) \/ Interrupt(p) \/ ClosePort(p) \/ Unlock(p) \/ Exit(p)
    \/ Systemd_Start \/ Systemd_Kill \/ Watch_Probe \/ Watch_Release

Spec == Init /\ [][Next]_vars

\* A client that starts runs on and its deadlines pass, systemd keeps its stop
\* timeout and the watcher releases what it took.  A client that runs may ignore
\* its signals.
FairSpec ==
    /\ Spec
    /\ \A p \in Clients : WF_vars(Advance(p))
    /\ WF_vars(Systemd_Kill) /\ WF_vars(Watch_Release)

-----------------------------------------------------------------------------
(* Properties.                                                             *)

\* The variables have their types.
TypeOK ==
    /\ pc \in [Clients -> {"off", "running", "exiting", "gone"} \cup Starting]
    /\ cfg \in [Clients -> 0..MaxSaves] /\ file \in 0..MaxSaves
    /\ term \subseteq Clients
    /\ left \in [Clients -> SUBSET Clients] /\ victim \in [Clients -> Clients \cup {None}]
    /\ startLock \in Clients \cup {None} /\ port \in Clients \cup {None}
    /\ instance \in Clients \cup {Probe, None}
    /\ unit \in {"off", "on", "restart"}
    /\ why \in [Clients -> {"none", "takeover", "interrupt", "error", "yield"}]
    /\ budget \in [interrupts : 0..MaxInterrupts, errors : 0..MaxErrors, starts : 0..MaxStarts]

\* A foreground client that runs works with what was saved last, by whomever:
\* linuxMain loads the file again once it holds instance.lock, and the takeover
\* waited until the processes that may still save were gone.  Not so for the
\* service, which waits for nobody: instance.lock is free before its holder ends.
RunsNewestConfig == \A p \in Foreground : pc[p] = "running" => cfg[p] = file

\* Clients started at the same time do not end one another: as long as every
\* end was the work of a takeover, some client is starting or runs.
TakeoverLeavesOne ==
    (\E p \in Clients : pc[p] = "gone")
        => \E q \in Clients : Alive(q) \/ why[q] \in {"interrupt", "error", "yield"}

\* A takeover does not fail on the management port of the client it replaces:
\* terminateMatching waited for the process, not only for its lock.
TakeoverFindsPort ==
    \A p \in Foreground : pc[p] = "listen" => port = None

\* Every start ends: the client runs or its process is gone, unless it comes to
\* wait for the user.  Locks are polled up to a deadline and the processes
\* terminated are killed in the end.
StartupEnds == \A p \in Clients : pc[p] \in Starting ~> pc[p] \notin Starting \/ AwaitsUser(p)

=============================================================================
