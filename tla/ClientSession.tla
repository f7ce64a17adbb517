--------------------------- MODULE ClientSession ---------------------------
(***************************************************************************)
(* The client's connection loop and its hot reload                         *)
(* (client/internal/client: client.go, management_web.go): the loop runs   *)
(* one control session at a time with the configuration it read, while     *)
(* management requests replace the configuration or ask for a reconnect,   *)
(* and the session itself persists a credential the server issues.         *)
(*                                                                         *)
(* The loop and the session it runs are one goroutine, every management    *)
(* request is another.  A step ends where a lock is released.              *)
(***************************************************************************)
EXTENDS Naturals, FiniteSets

CONSTANTS Hosts,         \* server connections a configuration may select
          Requests,      \* concurrent management requests
          MaxRevision,   \* bound: accepted configuration changes
          MaxReconnects, \* bound: reconnect requests
          MaxIssued,     \* bound: credentials a server issues
          MaxCrashes,    \* bound: crashes of the client
          MaxPages,      \* bound: pages open at a time
          Faults,        \* whether saving or re-reading the file may fail
          None

ASSUME ClientAssumption ==
    /\ MaxRevision \in Nat /\ MaxReconnects \in Nat /\ MaxIssued \in Nat /\ MaxCrashes \in Nat
    /\ MaxPages \in Nat
    /\ Faults \in BOOLEAN
    /\ None \notin Hosts \cup Requests

VARIABLES
    cfg,         \* Client.cfg: the selected host and the credential, None if unset
    revision,    \* Client.configRevision
    disk,        \* the configuration file
    updateMu,    \* holder of updateMu
    restart,     \* is there a signal in the restart channel?
    pc,          \* the loop: where it is
    src, srcRev, \* the configuration and revision it read (sessionConfig)
    session,     \* Client.session and sessionCancel are set
    cancelled,   \* sessionCtx of the running session is cancelled
    changed,     \* configurationChanged
    status,      \* runtimeStatus
    assigned,    \* revision whose session received the assignments shown, or None
    req,         \* where each management request is
    next,        \* the configuration it wants to install
    form,        \* its page: the host shown and the revision it carries; history:
                 \* the revision that was current when the host was read
    left         \* reconnect requests, credentials and crashes left

loopvars == <<pc, src, srcRev, session, cancelled, changed>>
confvars == <<cfg, revision, disk, updateMu>>
reqvars == <<req, next, form>>
vars == <<confvars, restart, loopvars, status, assigned, reqvars, left>>

Credentials == [host : Hosts, n : 0..MaxIssued]
\* The credential an operator enters for a host.
Enrolment(h) == [host |-> h, n |-> 0]
Configs == [host : Hosts, cred : Credentials \cup {None}]

Page == [host : Hosts, seen : 0..MaxRevision, rev : 0..MaxRevision]

TypeOK ==
    /\ cfg \in Configs /\ disk \in Configs /\ src \in Configs
    /\ revision \in 0..MaxRevision /\ srcRev \in 0..MaxRevision
    /\ updateMu \in Requests \cup {None}
    /\ restart \in BOOLEAN /\ session \in BOOLEAN /\ cancelled \in BOOLEAN /\ changed \in BOOLEAN
    /\ pc \in {"top", "read", "publish", "dial", "registered", "serving", "ended", "cleared",
               "wait"}
    /\ status \in {"starting", "unconfigured", "connecting", "connected", "applying",
                   "retrying", "reconnecting"}
    /\ assigned \in (0..MaxRevision) \cup {None}
    /\ req \in [Requests -> {"idle", "loading", "form", "saved", "swapped", "cleared",
                             "reconnect"}]
    /\ next \in [Requests -> Configs \cup {None}]
    /\ form \in [Requests -> Page \cup {None}]
    /\ left \in [reconnects : 0..MaxReconnects, issued : 0..MaxIssued, crashes : 0..MaxCrashes]

\* A managed client may start before its credential is configured.
Init ==
    /\ \E h \in Hosts : cfg \in [host : {h}, cred : {None, Enrolment(h)}]
    /\ disk = cfg /\ src = cfg
    /\ revision = 0 /\ srcRev = 0
    /\ updateMu = None /\ restart = FALSE
    /\ pc = "top" /\ session = FALSE /\ cancelled = FALSE /\ changed = FALSE
    /\ status = "starting" /\ assigned = None
    /\ req = [r \in Requests |-> "idle"] /\ next = [r \in Requests |-> None]
    /\ form = [r \in Requests |-> None]
    /\ left = [reconnects |-> MaxReconnects, issued |-> MaxIssued, crashes |-> MaxCrashes]

-----------------------------------------------------------------------------
(* Client.Run.                                                             *)

\* drainRestartSignal: whatever was signalled is read next.
Loop_Drain ==
    /\ pc = "top" /\ pc' = "read"
    /\ restart' = FALSE
    /\ UNCHANGED <<confvars, src, srcRev, session, cancelled, changed, status, assigned,
                   reqvars, left>>

\* Read configuration and revision together; without a credential just wait.
Loop_Read ==
    /\ pc = "read"
    /\ src' = cfg /\ srcRev' = revision
    /\ pc' = IF cfg.cred = None THEN "wait" ELSE "publish"
    /\ status' = IF cfg.cred = None THEN "unconfigured" ELSE status
    /\ UNCHANGED <<confvars, restart, session, cancelled, changed, assigned, reqvars, left>>

\* Mutant: the session is published without comparing revisions.
Loop_Publish_Unchecked ==
    /\ pc = "publish" /\ updateMu = None
    /\ pc' = "dial" /\ status' = "connecting" /\ session' = TRUE /\ cancelled' = FALSE
    /\ UNCHANGED <<confvars, restart, src, srcRev, changed, assigned, reqvars, left>>

\* Under updateMu: a configuration replaced meanwhile is not used.
Loop_Publish ==
    /\ pc = "publish" /\ updateMu = None
    /\ \/ /\ srcRev = revision
          /\ pc' = "dial" /\ status' = "connecting" /\ session' = TRUE /\ cancelled' = FALSE
       \/ /\ srcRev # revision
          /\ pc' = "top" /\ UNCHANGED <<status, session, cancelled>>
    /\ UNCHANGED <<confvars, restart, src, srcRev, changed, assigned, reqvars, left>>

\* session.run: the server accepts the registration without a credential.
Session_Register ==
    /\ pc = "dial" /\ pc' = "registered"
    /\ UNCHANGED <<confvars, restart, src, srcRev, session, cancelled, changed, status, assigned,
                   reqvars, left>>

\* Mutant: a late credential is stored whatever was configured meanwhile.
Accepts_Always(tok) == TRUE

\* persistSessionCredential: still the same connection and credential?
Accepts(tok) == cfg.host = src.host /\ cfg.cred = src.cred

\* ... or with one: persist it, saving first; the session uses it either way.
Session_Issued ==
    LET tok == [host |-> src.host, n |-> MaxIssued - left.issued + 1]
        updated == [cfg EXCEPT !.cred = tok]
    IN  /\ pc = "dial" /\ left.issued > 0 /\ updateMu = None
        /\ pc' = "registered"
        /\ left' = [left EXCEPT !.issued = @ - 1]
        /\ \/ Accepts(tok) /\ disk' = updated /\ cfg' = updated
           \/ ~Accepts(tok) /\ UNCHANGED <<cfg, disk>>
           \/ Faults /\ UNCHANGED <<cfg, disk>>
        /\ UNCHANGED <<revision, updateMu, restart, src, srcRev, session, cancelled, changed,
                       status, assigned, reqvars>>

\* Mutant: callbacks of a replaced configuration are obeyed.
ForRevision_Any(rev) == TRUE

\* forRevision: callbacks of a replaced configuration are ignored.
ForRevision(rev) == rev = revision

\* onConnected.
Session_Connected ==
    /\ pc = "registered" /\ pc' = "serving"
    /\ status' = IF ForRevision(srcRev) THEN "connected" ELSE status
    /\ UNCHANGED <<confvars, restart, src, srcRev, session, cancelled, changed, assigned,
                   reqvars, left>>

\* onAssignments; what was received before a cancellation is still handled.
Session_Assignments ==
    /\ pc = "serving"
    /\ assigned' = IF ForRevision(srcRev) THEN srcRev ELSE assigned
    /\ UNCHANGED <<confvars, restart, loopvars, status, reqvars, left>>

\* run returns: dialling, registering or reading failed, or it was cancelled.
Session_Ends ==
    /\ pc \in {"dial", "serving"}
    /\ pc' = "ended" /\ changed' = cancelled
    /\ UNCHANGED <<confvars, restart, src, srcRev, session, cancelled, status, assigned,
                   reqvars, left>>

\* cancel and clearSession.
Loop_Clear ==
    /\ pc = "ended" /\ pc' = "cleared"
    /\ session' = FALSE /\ cancelled' = TRUE
    /\ UNCHANGED <<confvars, restart, src, srcRev, changed, status, assigned, reqvars, left>>

\* Mutant: the status of the lost session stays.
Loop_Report_Silent ==
    /\ pc = "cleared" /\ pc' = IF changed THEN "top" ELSE "wait"
    /\ UNCHANGED <<confvars, restart, src, srcRev, session, cancelled, changed, status, assigned,
                   reqvars, left>>

\* Mutant: signals are dropped before the wait instead of before the read.
Loop_Report_Drains ==
    /\ pc = "cleared" /\ pc' = IF changed THEN "top" ELSE "wait"
    /\ status' = IF changed THEN "applying" ELSE "retrying"
    /\ restart' = FALSE
    /\ UNCHANGED <<confvars, src, srcRev, session, cancelled, changed, assigned, reqvars, left>>

\* A reload starts over at once, a lost connection waits.
Loop_Report ==
    /\ pc = "cleared" /\ pc' = IF changed THEN "top" ELSE "wait"
    /\ status' = IF changed THEN "applying" ELSE "retrying"
    /\ UNCHANGED <<confvars, restart, src, srcRev, session, cancelled, changed, assigned,
                   reqvars, left>>

\* waitForRetry: the signal or the timer.
Loop_Wake ==
    /\ pc = "wait" /\ pc' = "top"
    /\ restart' \in {FALSE, restart}
    /\ UNCHANGED <<confvars, src, srcRev, session, cancelled, changed, status, assigned,
                   reqvars, left>>

-----------------------------------------------------------------------------
(* Management requests.                                                    *)

\* A page is loaded: handleManagementDashboard reads the configuration ...
Form_Config(r) ==
    /\ req[r] = "idle" /\ revision < MaxRevision
    /\ Cardinality({q \in Requests : form[q] # None}) < MaxPages
    /\ req' = [req EXCEPT ![r] = "loading"]
    /\ form' = [form EXCEPT ![r] = [host |-> cfg.host, seen |-> revision, rev |-> 0]]
    /\ UNCHANGED <<confvars, restart, loopvars, status, assigned, next, left>>

\* ... and later the revision, under cfgMu again.
Form_Revision(r) ==
    /\ req[r] = "loading"
    /\ req' = [req EXCEPT ![r] = "form"]
    /\ form' = [form EXCEPT ![r].rev = revision]
    /\ UNCHANGED <<confvars, restart, loopvars, status, assigned, next, left>>

\* handleManagementConfig up to SaveConfig, under updateMu: a request may
\* carry the revision of its page; switching the host needs a credential,
\* otherwise the current one is kept.
Config_Save(r, h, c) ==
    /\ updateMu = None /\ revision < MaxRevision
    /\ \/ req[r] = "idle"
       \/ req[r] = "form" /\ form[r].rev = revision
    /\ c = None => h = cfg.host /\ cfg.cred # None
    /\ LET new == [host |-> h, cred |-> IF c = None THEN cfg.cred ELSE c]
       IN next' = [next EXCEPT ![r] = new] /\ disk' = new
    /\ updateMu' = r
    /\ req' = [req EXCEPT ![r] = "saved"]
    /\ UNCHANGED <<cfg, revision, restart, loopvars, status, assigned, form, left>>

\* Another page changed the configuration, or nothing valid is submitted.
Config_Refused(r) ==
    /\ req[r] = "form" /\ updateMu = None
    /\ req' = [req EXCEPT ![r] = "idle"] /\ form' = [form EXCEPT ![r] = None]
    /\ UNCHANGED <<confvars, restart, loopvars, status, assigned, next, left>>

\* The file was written but cannot be read back: an error, nothing installed.
Config_LoadFails(r) ==
    /\ Faults /\ req[r] = "saved"
    /\ req' = [req EXCEPT ![r] = "idle"]
    /\ next' = [next EXCEPT ![r] = None] /\ form' = [form EXCEPT ![r] = None]
    /\ updateMu' = None
    /\ UNCHANGED <<cfg, revision, disk, restart, loopvars, status, assigned, left>>

\* Mutant: the revision does not count the change.
Config_Install_SameRevision(r) ==
    /\ req[r] = "saved"
    /\ cfg' = next[r]
    /\ req' = [req EXCEPT ![r] = "swapped"]
    /\ next' = [next EXCEPT ![r] = None] /\ form' = [form EXCEPT ![r] = None]
    /\ UNCHANGED <<revision, disk, updateMu, restart, loopvars, status, assigned, left>>

\* replaceConfigLocked: install it under cfgMu with a new revision.
Config_Install(r) ==
    /\ req[r] = "saved"
    /\ cfg' = next[r] /\ revision' = revision + 1
    /\ req' = [req EXCEPT ![r] = "swapped"]
    /\ next' = [next EXCEPT ![r] = None] /\ form' = [form EXCEPT ![r] = None]
    /\ UNCHANGED <<disk, updateMu, restart, loopvars, status, assigned, left>>

\* clearAssignments and setRuntimeState.
Config_Clear(r) ==
    /\ req[r] = "swapped"
    /\ assigned' = None /\ status' = "applying"
    /\ req' = [req EXCEPT ![r] = "cleared"]
    /\ UNCHANGED <<confvars, restart, loopvars, next, form, left>>

\* Mutant: the running session is not cancelled.
RequestReconnect_SignalOnly == restart' = TRUE /\ UNCHANGED cancelled

\* requestReconnect: cancel the published session, signal the loop.
RequestReconnect ==
    /\ cancelled' = (cancelled \/ session)
    /\ restart' = TRUE

Config_Done(r) ==
    /\ req[r] = "cleared"
    /\ RequestReconnect
    /\ req' = [req EXCEPT ![r] = "idle"] /\ updateMu' = None
    /\ UNCHANGED <<cfg, revision, disk, pc, src, srcRev, session, changed, status, assigned,
                   next, form, left>>

\* handleManagementReconnect takes no lock.
Reconnect_Begin(r) ==
    /\ req[r] = "idle" /\ left.reconnects > 0
    /\ left' = [left EXCEPT !.reconnects = @ - 1]
    /\ assigned' = None /\ status' = "reconnecting"
    /\ req' = [req EXCEPT ![r] = "reconnect"]
    /\ UNCHANGED <<confvars, restart, loopvars, next, form>>

Reconnect_Done(r) ==
    /\ req[r] = "reconnect"
    /\ RequestReconnect
    /\ req' = [req EXCEPT ![r] = "idle"]
    /\ UNCHANGED <<confvars, pc, src, srcRev, session, changed, status, assigned, next, form,
                   left>>

\* The client crashes and is started again from its file.
Crash ==
    /\ left.crashes > 0 /\ left' = [left EXCEPT !.crashes = @ - 1]
    /\ cfg' = disk /\ src' = disk /\ revision' = 0 /\ srcRev' = 0
    /\ updateMu' = None /\ restart' = FALSE
    /\ pc' = "top" /\ session' = FALSE /\ cancelled' = FALSE /\ changed' = FALSE
    /\ status' = "starting" /\ assigned' = None
    /\ req' = [r \in Requests |-> "idle"] /\ next' = [r \in Requests |-> None]
    /\ form' = [r \in Requests |-> None]
    /\ UNCHANGED disk

-----------------------------------------------------------------------------
Loop ==
    \/ Loop_Drain \/ Loop_Read \/ Loop_Publish \/ Loop_Clear \/ Loop_Report \/ Loop_Wake
    \/ Session_Register \/ Session_Issued \/ Session_Connected \/ Session_Assignments
    \/ Session_Ends

Request(r) ==
    \/ Form_Config(r) \/ Form_Revision(r)
    \/ \E h \in Hosts : \E c \in {None, Enrolment(h)} : Config_Save(r, h, c)
    \/ Config_Refused(r) \/ Config_LoadFails(r)
    \/ Config_Install(r) \/ Config_Clear(r) \/ Config_Done(r)
    \/ Reconnect_Begin(r) \/ Reconnect_Done(r)

Next == Loop \/ (\E r \in Requests : Request(r)) \/ Crash

Spec == Init /\ [][Next]_vars

(* The loop and the requests run; a cancelled session ends because its      *)
(* connection is closed, a dial ends in some way, the retry timer fires.    *)
(* Nothing makes a healthy session end, or a page or an operator act.       *)
Fairness ==
    /\ WF_vars(Loop_Drain) /\ WF_vars(Loop_Read) /\ SF_vars(Loop_Publish)
    /\ WF_vars(Loop_Clear) /\ WF_vars(Loop_Report) /\ WF_vars(Loop_Wake)
    /\ WF_vars(Session_Register \/ Session_Issued \/ (pc = "dial" /\ Session_Ends))
    /\ WF_vars(Session_Connected) /\ WF_vars(cancelled /\ Session_Ends)
    /\ \A r \in Requests :
          WF_vars(Config_LoadFails(r) \/ Config_Install(r) \/ Config_Clear(r)
                    \/ Config_Done(r) \/ Reconnect_Done(r))

FairSpec == Spec /\ Fairness

-----------------------------------------------------------------------------
(* Properties.                                                             *)

\* No session outlives its configuration: once the request that replaced it
\* is done, the session in use has the current revision or is cancelled,
\* even when the loop had read the old configuration before the change.
StaleSessionIsCancelled ==
    updateMu = None /\ session /\ pc \in {"dial", "registered", "serving"} =>
        srcRev = revision \/ cancelled

\* No lost wake-up: a loop that waits with an old configuration has a signal
\* in its channel, so a change takes effect without the retry interval.
ChangeWakesLoop ==
    pc = "wait" /\ updateMu = None /\ srcRev # revision => restart

\* The credential in use and the one in the file belong to the host beside
\* it: a late reply of a former host never lands in the new host's entry,
\* and no crash between two steps separates them.
CredentialBelongsToHost ==
    \A c \in {cfg, disk} : c.cred # None => c.cred.host = c.host

\* The public addresses shown are those of the current configuration, except
\* between the installation of a new one and the clearing of the old ones.
AssignmentsAreCurrent ==
    (\A r \in Requests : req[r] # "swapped") => assigned \in {None, revision}

\* The panel says "connected" only while a session is, or has just ended and
\* its loop is about to say so.
ConnectedMeansSession ==
    status = "connected" => pc \in {"serving", "ended", "cleared"}

\* A page that was loaded before a change does not overwrite it.  The one
\* change it can overwrite unseen came while it was being loaded, between the
\* reading of what it shows and of the revision it carries.
NoBlindOverwrite ==
    \A r \in Requests :
        req[r] = "saved" /\ form[r] # None /\ form[r].rev = form[r].seen
            => form[r].host = cfg.host

\* An accepted configuration is put to use: as long as the client does not
\* crash, a session of the current revision is started, and started again
\* after it was lost, whatever changes and reconnect requests come meanwhile.
ChangeIsApplied ==
    revision > 0 ~> (revision = 0 \/ (srcRev = revision /\ session))

=============================================================================
