--------------------------- MODULE WindowsInstall ---------------------------
(***************************************************************************)
(* The Windows SSH client's installer (client/internal/winclient): install, *)
(* repair and uninstall around a running tunnel service, with OpenSSH's     *)
(* service and configuration, the installed program and the record of what *)
(* the installer did.  Every step may fail; the installer may be closed and *)
(* the machine may restart at any point.  The service runs beside it, saves *)
(* credentials it is issued, fails, and is restarted by Windows.            *)
(* Access rights of files and the wording of messages are left out.         *)
(***************************************************************************)
EXTENDS Naturals

CONSTANTS
    MaxOps,       \* bound: runs of the installer
    MaxFailures,  \* bound: installer steps that fail
    MaxIssued,    \* bound: credentials the server issues
    MaxCrashes,   \* bound: failures of the service
    MaxHalts      \* bound: restarts of the machine, closings of the installer

ASSUME WindowsAssumption ==
    MaxOps \in Nat /\ MaxFailures \in Nat /\ MaxIssued \in Nat
    /\ MaxCrashes \in Nat /\ MaxHalts \in Nat

VARIABLES
    pc, op,     \* the installer: its step, and "install", "repair" or "uninstall"
    me,         \* its local variables
    svc,        \* the tunnel service: "absent", "stopped", "running", "stopping"
    scm,        \* Windows will restart the failed service
    svcExe,     \* version of the program the service runs
    exe,        \* installed program: "none", "old" or "new" (the installer's own)
    token,      \* credential in the configuration file, 0 for none
    seeded,     \* there is a configuration file without credential
    sshd,       \* OpenSSH's service: "absent", "stopped", "running"
    loaded,     \* the configuration sshd runs with
    conf,       \* sshd_config: "none", "default", "own", "managed" or "torn"
    accepts,    \* whether sshd accepts the managed configuration here
    record,     \* the install state file: OpenSSH installed by us, config managed
    issued,     \* history: the newest credential
    raced,      \* history: one was saved between the installer's load and save
    torn,       \* history: halted before validation, or a rollback failed
    unrecovered,\* history: the service could not be started again
    budget

vars == <<pc, op, me, svc, scm, svcExe, exe, token, seeded, sshd, loaded, conf, accepts,
          record, issued, raced, torn, unrecovered, budget>>
servicevars == <<svc, scm, svcExe>>
sshvars == <<sshd, loaded, conf>>
history == <<issued, raced, torn, unrecovered>>

\* What sshd_config may be: missing, a default, the owner's, ours, or a part of one.
Confs == {"none", "default", "own", "managed", "torn"}

\* What the installer remembers: the credential it loaded, the record it read,
\* whether the service was running, whether it installed OpenSSH, whether it
\* manages the configuration, and the configuration before it changed it.
Records == [byUs : BOOLEAN, managed : BOOLEAN]
Locals == [token : Nat, record : Records, running : BOOLEAN, byUs : BOOLEAN, managed : BOOLEAN,
           before : Confs]
NoLocals == [token |-> 0, record |-> [byUs |-> FALSE, managed |-> FALSE],
             running |-> FALSE, byUs |-> FALSE, managed |-> FALSE, before |-> "none"]

\* A machine without OpenSSH (where its configuration may remain), one where the
\* owner uses it, and one where an older version of this program is installed.
Init ==
    /\ pc = "idle" /\ op = "none" /\ me = NoLocals
    /\ accepts \in BOOLEAN
    /\ issued = 1 /\ scm = FALSE /\ seeded = FALSE
    /\ raced = FALSE /\ torn = FALSE /\ unrecovered = FALSE
    /\ budget = [ops |-> MaxOps, failures |-> MaxFailures, crashes |-> MaxCrashes,
                 halts |-> MaxHalts]
    /\ \/ /\ svc = "absent" /\ exe = "none" /\ svcExe = "none" /\ token = 0
          /\ record = [byUs |-> FALSE, managed |-> FALSE]
          /\ \/ sshd = "absent" /\ conf \in {"none", "own"} /\ loaded = "none"
             \/ sshd = "running" /\ conf = "own" /\ loaded = "own"
       \/ /\ svc = "running" /\ exe = "old" /\ svcExe = "old" /\ token = 1 /\ accepts
          /\ record = [byUs |-> TRUE, managed |-> TRUE]
          /\ sshd = "running" /\ conf = "managed" /\ loaded = "managed"

-----------------------------------------------------------------------------
(* How the installer ends.                                                 *)

\* Mutant: only a failure to stop the service is followed by recovery.
Failed_NoRecovery == pc' = IF pc = "stop" \/ pc = "stopping" THEN "recover" ELSE "failed"

\* The deferred recoverTunnelServiceAfterFailure, once the stop was attempted.
Failed == pc' = IF me.running THEN "recover" ELSE "failed"

\* A step of the installer fails and changes nothing else.
Step_Fails ==
    /\ pc \in {"prepare", "load", "wizard", "save", "stop", "ssh", "verify", "config",
               "banner", "exe", "service", "start", "state", "remove"}
    /\ budget.failures > 0
    /\ budget' = [budget EXCEPT !.failures = @ - 1]
    /\ Failed
    /\ UNCHANGED <<op, me, servicevars, exe, token, sshvars, accepts, seeded, record, history>>

\* recoverTunnelServiceAfterFailure: start the service again and wait for it.
Recover ==
    /\ pc = "recover"
    /\ \/ svc = "absent" /\ UNCHANGED <<servicevars, unrecovered, budget>>
       \/ /\ svc = "stopped" /\ exe # "none"
          /\ svc' = "running" /\ svcExe' = exe /\ scm' = FALSE
          /\ UNCHANGED <<unrecovered, budget>>
       \/ svc = "running" /\ UNCHANGED <<servicevars, unrecovered, budget>>
       \/ \* Still stopping when the wait is over, or Windows cannot start it.
          /\ svc = "stopping" \/ budget.failures > 0
          /\ unrecovered' = TRUE
          /\ budget' = IF svc = "stopping" THEN budget
                       ELSE [budget EXCEPT !.failures = @ - 1]
          /\ UNCHANGED servicevars
    /\ pc' = "failed"
    /\ UNCHANGED <<op, me, exe, token, sshvars, accepts, seeded, record, issued, raced, torn>>

\* Back to the prompt.
Finish ==
    /\ pc \in {"done", "failed"}
    /\ pc' = "idle" /\ op' = "none" /\ me' = NoLocals
    /\ UNCHANGED <<servicevars, exe, token, sshvars, accepts, seeded, record, history, budget>>

-----------------------------------------------------------------------------
(* install and repair, up to the service's stop.                           *)

Begin(o) ==
    /\ pc = "idle" /\ budget.ops > 0
    /\ budget' = [budget EXCEPT !.ops = @ - 1]
    /\ op' = o
    /\ unrecovered' = FALSE
    /\ pc' = IF o = "uninstall" THEN "ustop" ELSE "prepare"
    /\ UNCHANGED <<me, servicevars, exe, token, sshvars, accepts, seeded, record, issued, raced, torn>>

\* Directories, operator key, and the record of earlier installations.
Prepare ==
    /\ pc = "prepare"
    /\ me' = [me EXCEPT !.record = record]
    /\ pc' = "load"
    /\ UNCHANGED <<op, servicevars, exe, token, sshvars, accepts, seeded, record, history, budget>>

\* prepareClientConfig: the existing configuration, with its ssh preset; or,
\* for an installation, an older file's or the environment's credential, or a seed without
\* one and the wizard.  A file without credential is not accepted.
LoadConfig ==
    /\ pc = "load"
    /\ \/ /\ token # 0
          /\ me' = [me EXCEPT !.token = token]
          /\ pc' = "save"
          /\ UNCHANGED seeded
       \/ /\ token = 0 /\ ~seeded /\ op = "install"
          /\ \/ me' = [me EXCEPT !.token = issued] /\ pc' = "save" /\ UNCHANGED seeded
             \/ seeded' = TRUE /\ pc' = "wizard" /\ UNCHANGED me
       \/ token = 0 /\ (seeded \/ op = "repair") /\ Failed /\ UNCHANGED <<me, seeded>>
    /\ UNCHANGED <<op, servicevars, exe, token, sshvars, accepts, record, history, budget>>

\* BootstrapConfig asks for the credential and saves it.
Wizard ==
    /\ pc = "wizard"
    /\ me' = [me EXCEPT !.token = issued]
    /\ token' = issued /\ seeded' = FALSE
    /\ pc' = "save"
    /\ UNCHANGED <<op, servicevars, exe, sshvars, accepts, record, history, budget>>

\* SaveConfig, while the service still runs.
SaveConfig ==
    /\ pc = "save"
    /\ token' = me.token
    /\ pc' = "stop"
    /\ UNCHANGED <<op, me, servicevars, exe, sshvars, accepts, seeded, record, history, budget>>

\* stopTunnelServiceIfInstalled.
StopService ==
    /\ pc = "stop"
    /\ \/ /\ svc \in {"absent", "stopped"}
          /\ pc' = "ssh"
          /\ UNCHANGED <<me, svc>>
       \/ /\ svc = "running"
          /\ me' = [me EXCEPT !.running = TRUE]
          /\ svc' = "stopping"
          /\ pc' = "stopping"
       \/ \* Already stopping: it refuses the control, and recovery follows.
          /\ svc = "stopping"
          /\ me' = [me EXCEPT !.running = TRUE]
          /\ pc' = "recover"
          /\ UNCHANGED svc
    /\ UNCHANGED <<op, scm, svcExe, exe, token, sshvars, accepts, seeded, record, history, budget>>

\* Mutant: the configuration is saved once the service has stopped, as it was
\* loaded before.
StopService_Done_Saves ==
    /\ pc = "stopping" /\ svc # "stopping"
    /\ pc' = IF svc = "stopped" THEN "ssh" ELSE "recover"
    /\ token' = me.token
    /\ UNCHANGED <<op, me, servicevars, exe, sshvars, accepts, seeded, record, history, budget>>

\* waitForServiceState saw it stop.
StopService_Done ==
    /\ pc = "stopping" /\ svc # "stopping"
    /\ pc' = IF svc = "stopped" THEN "ssh" ELSE "recover"
    /\ UNCHANGED <<op, me, servicevars, exe, token, sshvars, accepts, seeded, record, history, budget>>

\* It did not within twenty seconds.
StopService_TimesOut ==
    /\ pc \in {"stopping", "ustopping", "restopping"} /\ svc = "stopping"
    /\ Failed
    /\ UNCHANGED <<op, me, servicevars, exe, token, sshvars, accepts, seeded, record, history, budget>>

-----------------------------------------------------------------------------
(* ensureOpenSSH.                                                          *)

\* installOpenSSH: the system feature, or else the bundled archive.
EnsureOpenSSH ==
    /\ pc = "ssh"
    /\ IF sshd = "absent"
       THEN sshd' = "stopped" /\ me' = [me EXCEPT !.byUs = TRUE]
       ELSE UNCHANGED <<sshd, me>>
    /\ pc' = "verify"
    /\ UNCHANGED <<op, servicevars, exe, token, loaded, conf, accepts, seeded, record, issued, raced,
                   torn, unrecovered, budget>>

\* verifyInstalledOpenSSH, then the decision to manage the configuration.
VerifyOpenSSH ==
    /\ pc = "verify"
    /\ pc' = IF me.byUs \/ me.record.managed \/ conf = "managed" THEN "config" ELSE "sshstart"
    /\ UNCHANGED <<op, me, servicevars, exe, token, sshvars, accepts, seeded, record, history, budget>>

\* configureLoopbackOpenSSH: back the file up and replace it in one step.
WriteManagedConfig ==
    /\ pc = "config" /\ conf # "torn"
    /\ me' = [me EXCEPT !.before = conf]
    /\ conf' = "managed"
    /\ pc' = "validate"
    /\ UNCHANGED <<op, servicevars, exe, token, sshd, loaded, accepts, seeded, record, history, budget>>

\* The replacement fails, and so does putting the copy back over the file,
\* which copyFile truncates first.
WriteManagedConfig_Fails ==
    /\ pc = "config" /\ conf \notin {"none", "torn"}
    /\ budget.failures > 0
    /\ budget' = [budget EXCEPT !.failures = @ - 1]
    /\ conf' = "torn" /\ torn' = TRUE
    /\ Failed
    /\ UNCHANGED <<op, me, servicevars, exe, token, sshd, loaded, accepts, seeded, record, issued,
                   raced, unrecovered>>

\* A configuration whose markers or ListenAddress it does not understand.
WriteManagedConfig_Refuses ==
    /\ pc = "config" /\ conf \in {"own", "torn"}
    /\ Failed
    /\ UNCHANGED <<op, me, servicevars, exe, token, sshvars, accepts, seeded, record, history, budget>>

\* Host keys, their access rights, and sshd -t.
ValidateConfig ==
    /\ pc = "validate" /\ accepts
    /\ me' = [me EXCEPT !.managed = TRUE]
    /\ pc' = "sshstart"
    /\ UNCHANGED <<op, servicevars, exe, token, sshvars, accepts, seeded, record, history, budget>>

\* Mutant: what was there before is not put back.
Rollback_Missing ==
    /\ pc = "validate" /\ (~accepts \/ budget.failures > 0)
    /\ budget' = IF accepts THEN [budget EXCEPT !.failures = @ - 1] ELSE budget
    /\ Failed
    /\ UNCHANGED <<op, me, servicevars, exe, token, sshvars, accepts, seeded, record, history>>

\* One of them fails and rollbackConfig puts back what was there.  It may fail
\* itself: the new file is not removed, or copyFile cannot open it, or leaves a
\* part of the old one.
Rollback ==
    /\ pc = "validate" /\ (~accepts \/ budget.failures > 0)
    /\ \/ conf' = me.before /\ UNCHANGED torn
          /\ budget' = IF accepts THEN [budget EXCEPT !.failures = @ - 1] ELSE budget
       \/ /\ budget.failures > 0
          /\ conf' \in {"managed"} \cup (IF me.before = "none" THEN {} ELSE {"torn"})
          /\ torn' = TRUE
          /\ budget' = [budget EXCEPT !.failures = @ - 1]
    /\ Failed
    /\ UNCHANGED <<op, me, servicevars, exe, token, sshd, loaded, accepts, seeded, record, issued,
                   raced, unrecovered>>

\* sshd started without a configuration copies its default one, which listens
\* on every address.
Accepted(c) == c # "torn" /\ (c = "managed" => accepts)
Sshd_Starts ==
    LET c == IF conf = "none" THEN "default" ELSE conf IN
    IF Accepted(c) THEN sshd' = "running" /\ loaded' = c /\ conf' = c
                   ELSE sshd' = "stopped" /\ UNCHANGED <<loaded, conf>>

\* configureAndStartOpenSSHService: stop it, start it, wait for it.
StartOpenSSH ==
    /\ pc = "sshstart"
    /\ Sshd_Starts
    /\ IF sshd' = "running" THEN pc' = "banner" ELSE Failed
    /\ UNCHANGED <<op, me, servicevars, exe, token, accepts, seeded, record, history, budget>>

\* One of these fails, possibly between the stop and the start.
StartOpenSSH_Fails ==
    /\ pc = "sshstart" /\ budget.failures > 0
    /\ budget' = [budget EXCEPT !.failures = @ - 1]
    /\ sshd' \in {sshd, "stopped"}
    /\ Failed
    /\ UNCHANGED <<op, me, servicevars, exe, token, loaded, conf, accepts, seeded, record, history>>

\* readSSHBanner.
CheckBanner ==
    /\ pc = "banner"
    /\ pc' = "exe"
    /\ UNCHANGED <<op, me, servicevars, exe, token, sshvars, accepts, seeded, record, history, budget>>

-----------------------------------------------------------------------------
(* Program, service and record.                                            *)

\* installExecutable: a running program cannot be replaced; a repair is run
\* from the installed program itself.
InstallExecutable ==
    /\ pc = "exe"
    /\ \/ exe = "new" /\ pc' = "service" /\ UNCHANGED exe
       \/ op = "repair" /\ exe = "old" /\ pc' = "service" /\ UNCHANGED exe
       \/ /\ exe # "new" /\ svc \in {"absent", "stopped"}
          /\ exe' = "new" /\ pc' = "service"
       \/ exe # "new" /\ svc \in {"running", "stopping"} /\ Failed /\ UNCHANGED exe
    /\ UNCHANGED <<op, me, servicevars, token, sshvars, accepts, seeded, record, history, budget>>

\* installOrUpdateTunnelService: create the service, or stop and update it.
UpdateService ==
    /\ pc = "service"
    /\ \/ svc = "absent" /\ svc' = "stopped" /\ pc' = "start"
       \/ svc = "stopped" /\ pc' = "start" /\ UNCHANGED svc
       \/ svc = "running" /\ svc' = "stopping" /\ pc' = "restopping"
       \/ svc = "stopping" /\ Failed /\ UNCHANGED svc
    /\ UNCHANGED <<op, me, scm, svcExe, exe, token, sshvars, accepts, seeded, record, history, budget>>

UpdateService_Stopped ==
    /\ pc = "restopping" /\ svc # "stopping"
    /\ IF svc = "stopped" THEN pc' = "start" ELSE Failed
    /\ UNCHANGED <<op, me, servicevars, exe, token, sshvars, accepts, seeded, record, history, budget>>

\* Recovery actions, access rights, and the start of the service.
StartService ==
    /\ pc = "start"
    /\ \/ svc = "stopped" /\ svc' = "running" /\ svcExe' = exe /\ scm' = FALSE /\ pc' = "state"
       \/ svc = "running" /\ pc' = "state" /\ UNCHANGED servicevars
       \/ svc = "stopping" /\ Failed /\ UNCHANGED servicevars
    /\ UNCHANGED <<op, me, exe, token, sshvars, accepts, seeded, record, history, budget>>

\* saveInstallState: only now is it on record what was installed.
SaveState ==
    /\ pc = "state"
    /\ record' = [byUs |-> me.record.byUs \/ me.byUs,
                  managed |-> me.record.managed \/ me.managed]
    /\ pc' = "done"
    /\ UNCHANGED <<op, me, servicevars, exe, token, sshvars, accepts, seeded, history, budget>>

\* deleteTunnelService; configuration, record and OpenSSH are kept.
Uninstall_Stop ==
    /\ pc = "ustop"
    /\ \/ svc = "absent" /\ pc' = "remove" /\ UNCHANGED servicevars
       \/ svc = "stopped" /\ svc' = "absent" /\ scm' = FALSE /\ pc' = "remove" /\ UNCHANGED svcExe
       \/ svc = "running" /\ svc' = "stopping" /\ pc' = "ustopping" /\ UNCHANGED <<scm, svcExe>>
       \/ svc = "stopping" /\ Failed /\ UNCHANGED servicevars
    /\ UNCHANGED <<op, me, exe, token, sshvars, accepts, seeded, record, history, budget>>

Uninstall_Delete ==
    /\ pc = "ustopping" /\ svc # "stopping"
    /\ IF svc = "stopped" THEN svc' = "absent" /\ scm' = FALSE /\ pc' = "remove"
                          ELSE Failed /\ UNCHANGED <<svc, scm>>
    /\ UNCHANGED <<op, me, svcExe, exe, token, sshvars, accepts, seeded, record, history, budget>>

\* The program is removed if it is not the one that runs; a failure is shown only.
Uninstall_Remove ==
    /\ pc = "remove"
    /\ exe' \in {exe, "none"}
    /\ pc' = "done"
    /\ UNCHANGED <<op, me, servicevars, token, sshvars, accepts, seeded, record, history, budget>>

-----------------------------------------------------------------------------
(* Beside the installer.                                                   *)

\* The running service saves a credential it was issued.
Service_Persists ==
    /\ svc = "running" /\ issued < MaxIssued
    /\ issued' = issued + 1
    /\ token' = issued'
    /\ raced' = (raced \/ pc = "save")
    /\ UNCHANGED <<pc, op, me, servicevars, exe, sshvars, accepts, seeded, record, torn,
                   unrecovered, budget>>

\* Execute returns: in order, or with an error, after which Windows restarts it.
Service_Stops ==
    /\ svc = "stopping"
    /\ svc' = "stopped" /\ scm' \in BOOLEAN
    /\ UNCHANGED <<pc, op, me, svcExe, exe, token, sshvars, accepts, seeded, record, history, budget>>

Service_Fails ==
    /\ svc = "running" /\ budget.crashes > 0
    /\ budget' = [budget EXCEPT !.crashes = @ - 1]
    /\ svc' = "stopped" /\ scm' = TRUE
    /\ UNCHANGED <<pc, op, me, svcExe, exe, token, sshvars, accepts, seeded, record, history>>

\* configureServiceRecovery: a failed service is started again.
Scm_Restarts ==
    /\ scm /\ svc = "stopped" /\ exe # "none"
    /\ svc' = "running" /\ svcExe' = exe /\ scm' = FALSE
    /\ UNCHANGED <<pc, op, me, exe, token, sshvars, accepts, seeded, record, history, budget>>

\* The installer's window is closed: no deferred call runs.
Close ==
    /\ pc \notin {"idle", "done", "failed"} /\ budget.halts > 0
    /\ budget' = [budget EXCEPT !.halts = @ - 1]
    /\ pc' = "idle" /\ op' = "none" /\ me' = NoLocals
    /\ torn' = (torn \/ pc = "validate")
    /\ UNCHANGED <<servicevars, exe, token, sshvars, accepts, seeded, record, issued, raced,
                   unrecovered>>

\* The machine restarts; automatic services start.
Reboot ==
    /\ budget.halts > 0
    /\ budget' = [budget EXCEPT !.halts = @ - 1]
    /\ pc' = "idle" /\ op' = "none" /\ me' = NoLocals
    /\ torn' = (torn \/ pc = "validate")
    /\ IF svc # "absent" /\ exe # "none"
       THEN svc' = "running" /\ svcExe' = exe /\ scm' = FALSE
       ELSE UNCHANGED servicevars
    /\ IF sshd = "running" THEN Sshd_Starts ELSE UNCHANGED sshvars
    /\ UNCHANGED <<exe, token, accepts, seeded, record, issued, raced, unrecovered>>

Next ==
    \/ \E o \in {"install", "repair", "uninstall"} : Begin(o)
    \/ Step_Fails \/ Recover \/ Finish
    \/ Prepare \/ LoadConfig \/ Wizard \/ SaveConfig
    \/ StopService \/ StopService_Done \/ StopService_TimesOut
    \/ EnsureOpenSSH \/ VerifyOpenSSH \/ WriteManagedConfig \/ WriteManagedConfig_Fails
    \/ WriteManagedConfig_Refuses \/ ValidateConfig \/ Rollback
    \/ StartOpenSSH \/ StartOpenSSH_Fails \/ CheckBanner
    \/ InstallExecutable \/ UpdateService \/ UpdateService_Stopped \/ StartService \/ SaveState
    \/ Uninstall_Stop \/ Uninstall_Delete \/ Uninstall_Remove
    \/ Service_Persists \/ Service_Stops \/ Service_Fails \/ Scm_Restarts \/ Close \/ Reboot

Spec == Init /\ [][Next]_vars

-----------------------------------------------------------------------------
(* Properties.                                                             *)

\* The variables have their types.
TypeOK ==
    /\ pc \in {"idle", "prepare", "load", "wizard", "save", "stop", "stopping", "ssh", "verify",
               "config", "validate", "sshstart", "banner", "exe", "service", "restopping",
               "start", "state", "ustop", "ustopping", "remove", "recover", "done", "failed"}
    /\ op \in {"none", "install", "repair", "uninstall"}
    /\ me \in Locals
    /\ svc \in {"absent", "stopped", "running", "stopping"} /\ scm \in BOOLEAN
    /\ exe \in {"none", "old", "new"} /\ svcExe \in {"none", "old", "new"}
    /\ seeded \in BOOLEAN /\ accepts \in BOOLEAN
    /\ raced \in BOOLEAN /\ torn \in BOOLEAN /\ unrecovered \in BOOLEAN
    /\ token \in 0..issued /\ issued \in 1..(MaxIssued + 1)
    /\ sshd \in {"absent", "stopped", "running"}
    /\ conf \in Confs /\ loaded \in Confs
    /\ record \in Records
    /\ budget \in [ops : 0..MaxOps, failures : 0..MaxFailures, crashes : 0..MaxCrashes,
                   halts : 0..MaxHalts]

\* An install or repair that fails after it stopped the running service leaves
\* it running again, or says that it could not start it.
FailureRestoresService ==
    pc = "failed" /\ me.running /\ ~unrecovered => svc = "running" \/ scm

\* However an operation ends, sshd_config is one that sshd accepts: a failure
\* between the replacement and its validation puts the previous one back.
\* Excepted are a halt in between and a failing rollback.
SshdConfigIsUsable == pc # "validate" /\ ~torn => Accepted(conf)

\* The installer never replaces a credential by an older one, except one that
\* the service saves between the installer's own load and save.
CredentialKept == token \in {0, issued} \/ raced

=============================================================================
