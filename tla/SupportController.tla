------------------------- MODULE SupportController -------------------------
(***************************************************************************)
(* The remote-support controller of the Windows service                    *)
(* (client/internal/winclient/support_windows.go), for one Windows account *)
(* (accounts share only the controller's lock).  A session authorises one  *)
(* SSH shell through the account's key file.  The requests of the user, of *)
(* the shells, the watchers of shells and the controller's Close end a     *)
(* session concurrently; cleanupSession releases the lock before it kills  *)
(* the shell and clears the file.  sshd and taskkill are external.         *)
(***************************************************************************)
EXTENDS Naturals, FiniteSets

CONSTANTS Users,        \* concurrent start and stop requests
          Shells,       \* support-shell processes sshd may start
          MaxSessions,  \* bound: sessions started
          MaxFaults,    \* bound: failures of a file operation, of OpenProcess or of
                        \* taskkill, and reports from other processes
          MaxExits,     \* bound: times the service is stopped or crashes
          None

ASSUME SupportAssumption ==
    /\ MaxSessions \in Nat /\ MaxFaults \in Nat /\ MaxExits \in Nat
    /\ None \notin Shells

VARIABLES
    svc,      \* the controller: "up", "closing", "swept" (sessions collected), "down"
    key,      \* session in the key file, 0 if it is empty
    sess,     \* the account's entry in supportController.sessions, NoSession if none
    jobs,     \* cleanups in progress
    sweep,    \* sessions Close has yet to clean up
    user,     \* each user request, and the session id it carries
    shell,    \* each support-shell process
    sid,      \* the session on its command line
    watch,    \* is watchSupportShell waiting for it?
    issued,   \* session ids used
    broken,   \* history: ids in the file although their start reported an error
    loose,    \* history: shells left running by the end of their session
    left      \* faults and exits left

vars == <<svc, key, sess, jobs, sweep, user, shell, sid, watch, issued, broken, loose, left>>
shellvars == <<shell, sid, watch>>
boundvars == <<issued, broken, loose, left>>

Ids == 1..MaxSessions
NoSession == [id |-> 0, state |-> "none", shell |-> None]
Session == [id : Ids, state : {"waiting", "connected", "stopping", "cleanup-error"},
            shell : Shells \cup {None}]
Job == [id : Ids, shell : Shells \cup {None}, terminate : BOOLEAN, byClose : BOOLEAN,
        at : {"kill", "clear", "delete", "fail"}]
NoRequest == [at |-> "idle", id |-> 0]
Request == [at : {"idle", "start", "stop", "cleanup"}, id : {0} \cup Ids]
Alive == {"login", "asking", "running", "left", "finishing"}

TypeOK ==
    /\ svc \in {"up", "closing", "swept", "down"}
    /\ key \in {0} \cup Ids
    /\ sess \in Session \cup {NoSession}
    /\ jobs \subseteq Job
    /\ sweep \subseteq Ids
    /\ user \in [Users -> Request]
    /\ shell \in [Shells -> Alive \cup {"none", "dead"}]
    /\ sid \in [Shells -> {0} \cup Ids]
    /\ watch \in [Shells -> BOOLEAN]
    /\ issued \in {0} \cup Ids
    /\ broken \subseteq Ids
    /\ loose \subseteq Shells
    /\ left \in [faults : 0..MaxFaults, exits : 0..MaxExits]

\* startSupportController has cleared the stale keys and listens.
Init ==
    /\ svc = "up" /\ key = 0 /\ sess = NoSession /\ jobs = {} /\ sweep = {}
    /\ user = [u \in Users |-> NoRequest]
    /\ shell = [p \in Shells |-> "none"] /\ sid = [p \in Shells |-> 0]
    /\ watch = [p \in Shells |-> FALSE]
    /\ issued = 0 /\ broken = {} /\ loose = {}
    /\ left = [faults |-> MaxFaults, exits |-> MaxExits]

Fault == left.faults > 0 /\ left' = [left EXCEPT !.faults = @ - 1]
Serving == svc # "down"
Running == {p \in Shells : shell[p] = "running"}

-----------------------------------------------------------------------------
(* cleanupSession.                                                         *)

\* The locked beginning: one cleanup of a session at a time, the others
\* return at once.  One that was not told to terminate takes the shell for
\* ended; a shell that still runs is left to itself.
CleanupBegin(id, terminate, byClose) ==
    IF id # 0 /\ sess.id = id /\ sess.state # "stopping"
    THEN /\ sess' = [sess EXCEPT !.state = "stopping"]
         /\ jobs' = jobs \cup {[id |-> id, shell |-> sess.shell, terminate |-> terminate,
                                byClose |-> byClose, at |-> "kill"]}
         /\ loose' = IF terminate THEN loose ELSE loose \cup ({sess.shell} \cap Running)
    ELSE UNCHANGED <<sess, jobs, loose>>

Advance(j, at) == jobs' = (jobs \ {j}) \cup {[j EXCEPT !.at = at]}

\* terminateSupportProcessTree, whose failure nobody notices.
Kills(j) == j.terminate /\ j.shell # None /\ shell[j.shell] \in Alive

\* Mutant: the entry is dropped before the file is cleared.
Job_Kill_Forgets(j) ==
    /\ j.at = "kill" /\ Advance(j, "clear")
    /\ sess' = IF sess.id = j.id THEN NoSession ELSE sess
    /\ shell' = IF Kills(j) THEN [shell EXCEPT ![j.shell] = "dead"] ELSE shell
    /\ UNCHANGED <<svc, key, sweep, user, sid, watch, boundvars>>

Job_Kill(j) ==
    /\ j.at = "kill" /\ Advance(j, "clear")
    /\ shell' = IF Kills(j) THEN [shell EXCEPT ![j.shell] = "dead"] ELSE shell
    /\ UNCHANGED <<svc, key, sess, sweep, user, sid, watch, boundvars>>

\* The shell runs on; the cleanup goes on to remove its session.
Job_KillFails(j) ==
    /\ j.at = "kill" /\ Kills(j) /\ Fault /\ Advance(j, "clear")
    /\ loose' = loose \cup ({j.shell} \cap Running)
    /\ UNCHANGED <<svc, key, sess, sweep, user, shellvars, issued, broken>>

\* clearSupportKeyContents empties the file, whosever key is in it ...
Job_Clear(j) ==
    /\ j.at = "clear" /\ Advance(j, "delete")
    /\ key' = 0
    /\ UNCHANGED <<svc, sess, sweep, user, shellvars, boundvars>>

\* ... or fails, before or after truncating it.
Job_ClearFails(j) ==
    /\ j.at = "clear" /\ Fault /\ Advance(j, "fail")
    /\ key' \in {key, 0}
    /\ UNCHANGED <<svc, sess, sweep, user, shellvars, issued, broken, loose>>

Job_Delete(j) ==
    /\ j.at = "delete" /\ jobs' = jobs \ {j}
    /\ sess' = IF sess.id = j.id THEN NoSession ELSE sess
    /\ UNCHANGED <<svc, key, sweep, user, shellvars, boundvars>>

\* Mutant: the entry goes although the key may still be in the file.
Job_Fail_Deletes(j) ==
    /\ j.at = "fail" /\ jobs' = jobs \ {j}
    /\ sess' = IF sess.id = j.id THEN NoSession ELSE sess
    /\ UNCHANGED <<svc, key, sweep, user, shellvars, boundvars>>

\* A session whose key could not be cleared stays, to be stopped again.
Job_Fail(j) ==
    /\ j.at = "fail" /\ jobs' = jobs \ {j}
    /\ sess' = IF sess.id = j.id THEN [sess EXCEPT !.state = "cleanup-error"] ELSE sess
    /\ UNCHANGED <<svc, key, sweep, user, shellvars, boundvars>>

-----------------------------------------------------------------------------
(* Requests of the user: the pipe accepts them while the controller is up, *)
(* their handlers may run on while it closes.                              *)

\* The dialog has asked for the status: offer to start, or to stop what it saw.
User_Asks(u) ==
    /\ svc = "up" /\ user[u].at = "idle"
    /\ \/ sess = NoSession /\ issued < MaxSessions
          /\ user' = [user EXCEPT ![u] = [at |-> "start", id |-> 0]]
       \/ sess # NoSession
          /\ user' = [user EXCEPT ![u] = [at |-> "stop", id |-> sess.id]]
    /\ UNCHANGED <<svc, key, sess, jobs, sweep, shellvars, boundvars>>

Return(u) == user' = [user EXCEPT ![u] = NoRequest]

\* start: one session per account; the key is written under the lock.
Start(u) ==
    /\ Serving /\ user[u].at = "start" /\ Return(u)
    /\ \/ /\ sess # NoSession \/ issued = MaxSessions
          /\ UNCHANGED <<key, sess, issued>>
       \/ /\ sess = NoSession /\ issued < MaxSessions
          /\ issued' = issued + 1
          /\ key' = issued'
          /\ sess' = [id |-> issued', state |-> "waiting", shell |-> None]
    /\ UNCHANGED <<svc, jobs, sweep, shellvars, broken, loose, left>>

\* Writing, syncing or protecting the file fails: an error and no session,
\* but what was written may stay.
Start_Fails(u) ==
    /\ Serving /\ user[u].at = "start" /\ Return(u)
    /\ sess = NoSession /\ issued < MaxSessions /\ Fault
    /\ issued' = issued + 1
    /\ \/ key' \in {key, 0} /\ UNCHANGED broken
       \/ key' = issued' /\ broken' = broken \cup {issued'}
    /\ UNCHANGED <<svc, sess, jobs, sweep, shellvars, loose>>

\* stop reads the status and compares the session with the one of the dialog.
Stop_Status(u) ==
    /\ Serving /\ user[u].at = "stop"
    /\ user' = [user EXCEPT ![u] = IF sess.id = @.id THEN [@ EXCEPT !.at = "cleanup"]
                                                     ELSE NoRequest]
    /\ UNCHANGED <<svc, key, sess, jobs, sweep, shellvars, boundvars>>

Stop_Cleanup(u) ==
    /\ Serving /\ user[u].at = "cleanup" /\ Return(u)
    /\ CleanupBegin(user[u].id, TRUE, FALSE)
    /\ UNCHANGED <<svc, key, sweep, shellvars, issued, broken, left>>

-----------------------------------------------------------------------------
(* support-shell processes and their watchers.                             *)

\* External: sshd reads the key file and starts the forced command with the
\* session written there.
Login(p) ==
    /\ key # 0 /\ shell[p] = "none"
    /\ shell' = [shell EXCEPT ![p] = "login"] /\ sid' = [sid EXCEPT ![p] = key]
    /\ UNCHANGED <<svc, key, sess, jobs, sweep, user, watch, boundvars>>

\* runSupportShell reports itself; without a service it gives up.
Shell_Calls(p) ==
    /\ shell[p] = "login"
    /\ shell' = [shell EXCEPT ![p] = IF svc = "up" THEN "asking" ELSE "dead"]
    /\ UNCHANGED <<svc, key, sess, jobs, sweep, user, sid, watch, boundvars>>

\* Mutant: any session of that id lets a shell in.
Admits_AnyState(p) == sess.id = sid[p]

\* connected: only the first shell of a waiting session is let in.
Admits(p) == sess.id = sid[p] /\ sess.state = "waiting" /\ sess.shell = None

Connected(p) ==
    /\ Serving /\ shell[p] = "asking"
    /\ \/ /\ Admits(p)
          /\ sess' = [sess EXCEPT !.state = "connected", !.shell = p]
          /\ shell' = [shell EXCEPT ![p] = "running"]
          /\ watch' = [watch EXCEPT ![p] = TRUE]
       \/ /\ ~Admits(p)
          /\ shell' = [shell EXCEPT ![p] = "dead"]
          /\ UNCHANGED <<sess, watch>>
    /\ UNCHANGED <<svc, key, jobs, sweep, user, sid, boundvars>>

\* The remote command ends; the deferred call reports it.
Shell_Leaves(p) ==
    /\ shell[p] = "running"
    /\ shell' = [shell EXCEPT ![p] = IF svc = "up" THEN "left" ELSE "dead"]
    /\ UNCHANGED <<svc, key, sess, jobs, sweep, user, sid, watch, boundvars>>

\* finished, also from a shell of an earlier life of the service.
Finished(p) ==
    /\ Serving /\ shell[p] = "left"
    /\ shell' = [shell EXCEPT ![p] = "finishing"]
    /\ CleanupBegin(sid[p], FALSE, FALSE)
    /\ UNCHANGED <<svc, key, sweep, user, sid, watch, issued, broken, left>>

\* finished does not compare the caller with the shell that was let in: any
\* other process of the account that names the session may report its end.
Finished_ByOther ==
    /\ Serving /\ sess # NoSession /\ Fault
    /\ CleanupBegin(sess.id, FALSE, FALSE)
    /\ UNCHANGED <<svc, key, sweep, user, shellvars, issued, broken>>

\* A process ends or is killed.
Shell_Dies(p) ==
    /\ shell[p] \in Alive
    /\ shell' = [shell EXCEPT ![p] = "dead"]
    /\ UNCHANGED <<svc, key, sess, jobs, sweep, user, sid, watch, boundvars>>

\* Mutant: the watcher only logs the end of its shell.
Watch_Ends_Silent(p) ==
    /\ Serving /\ watch[p] /\ shell[p] \notin Alive
    /\ watch' = [watch EXCEPT ![p] = FALSE]
    /\ UNCHANGED <<svc, key, sess, jobs, sweep, user, shell, sid, boundvars>>

\* watchSupportShell waits until the process has ended ...
Watch_Ends(p) ==
    /\ Serving /\ watch[p] /\ shell[p] \notin Alive
    /\ watch' = [watch EXCEPT ![p] = FALSE]
    /\ CleanupBegin(sid[p], FALSE, FALSE)
    /\ UNCHANGED <<svc, key, sweep, user, shell, sid, issued, broken, left>>

\* ... and takes any error of OpenProcess for its end, also when the account
\* of the service may not open a process of the user that runs.
Watch_Denied(p) ==
    /\ Serving /\ watch[p] /\ shell[p] \in Alive /\ Fault
    /\ watch' = [watch EXCEPT ![p] = FALSE]
    /\ CleanupBegin(sid[p], FALSE, FALSE)
    /\ UNCHANGED <<svc, key, sweep, user, shell, sid, issued, broken>>

-----------------------------------------------------------------------------
(* The life of the controller.                                             *)

\* Close: cancel, wait for the listener, not for the handlers ...
Close_Begin ==
    /\ svc = "up" /\ left.exits > 0
    /\ svc' = "closing" /\ left' = [left EXCEPT !.exits = @ - 1]
    /\ UNCHANGED <<key, sess, jobs, sweep, user, shellvars, issued, broken, loose>>

\* ... collect the sessions ...
Close_Collect ==
    /\ svc = "closing" /\ svc' = "swept"
    /\ sweep' = {sess.id} \ {0}
    /\ UNCHANGED <<key, sess, jobs, user, shellvars, boundvars>>

\* ... and clean each of them up.
Close_One(id) ==
    /\ svc = "swept" /\ sweep' = sweep \ {id}
    /\ CleanupBegin(id, TRUE, TRUE)
    /\ UNCHANGED <<svc, key, user, shellvars, issued, broken, left>>

\* The process is gone, with its goroutines; shells that run stay.
Gone ==
    /\ svc' = "down" /\ sess' = NoSession /\ jobs' = {} /\ sweep' = {}
    /\ user' = [u \in Users |-> NoRequest]
    /\ loose' = loose \cup Running
    /\ shell' = [p \in Shells |-> IF shell[p] \in {"asking", "left", "finishing"}
                                  THEN "dead" ELSE shell[p]]
    /\ watch' = [p \in Shells |-> FALSE]
    /\ UNCHANGED <<key, sid, issued, broken>>

Exit ==
    /\ svc = "swept" /\ sweep = {} /\ \A j \in jobs : ~j.byClose
    /\ Gone /\ UNCHANGED left

\* A crash, also of a service that is being stopped.
Crash ==
    /\ \/ svc = "up" /\ left.exits > 0 /\ left' = [left EXCEPT !.exits = @ - 1]
       \/ svc \in {"closing", "swept"} /\ UNCHANGED left
    /\ Gone

\* startSupportController: clearStaleSupportKeys, then serve.
Restart ==
    /\ svc = "down" /\ svc' = "up" /\ key' = 0
    /\ UNCHANGED <<sess, jobs, sweep, user, shellvars, boundvars>>

\* A slot that cannot be cleared: the service runs without remote support.
Restart_Fails ==
    /\ svc = "down" /\ Fault /\ key' \in {key, 0}
    /\ UNCHANGED <<svc, sess, jobs, sweep, user, shellvars, issued, broken, loose>>

-----------------------------------------------------------------------------
JobStep(j) ==
    Job_Kill(j) \/ Job_KillFails(j) \/ Job_Clear(j) \/ Job_ClearFails(j) \/ Job_Delete(j)
        \/ Job_Fail(j)
UserStep(u) ==
    User_Asks(u) \/ Start(u) \/ Start_Fails(u) \/ Stop_Status(u) \/ Stop_Cleanup(u)
ShellStep(p) ==
    Login(p) \/ Shell_Calls(p) \/ Connected(p) \/ Shell_Leaves(p) \/ Finished(p)
        \/ Shell_Dies(p) \/ Watch_Ends(p) \/ Watch_Denied(p)
ServiceStep ==
    \/ Close_Begin \/ Close_Collect \/ (\E id \in sweep : Close_One(id))
    \/ Exit \/ Crash \/ Restart \/ Restart_Fails

Next ==
    \/ \E j \in jobs : JobStep(j)
    \/ \E u \in Users : UserStep(u)
    \/ \E p \in Shells : ShellStep(p)
    \/ Finished_ByOther
    \/ ServiceStep

Spec == Init /\ [][Next]_vars

(* The service's goroutines run; nothing makes users, sshd or shells act.   *)
Fairness ==
    /\ \A p \in Shells : WF_vars(Watch_Ends(p)) /\ WF_vars(Finished(p))
    /\ WF_vars(\E j \in jobs : JobStep(j))

FairSpec == Spec /\ Fairness

-----------------------------------------------------------------------------
(* Properties.                                                             *)

\* A shell that runs is the one shell of the session the user can see and
\* stop, whatever cleanups of this and of earlier sessions do meanwhile.  Only
\* these let one run on alone: OpenProcess fails for it, another process of
\* the account reports its end, taskkill fails, the service ends (loose).
RunningShellIsVisible ==
    \A p \in Running \ loose : sess.id = sid[p] /\ sess.shell = p

\* An authorisation in the key file belongs to a session the user can see and
\* stop, through failed cleanups and restarts; only a start that reported an
\* error can leave another one there.
KeyHasSession == Serving /\ key # 0 => sess.id = key \/ key \in broken

\* The authorisation of a waiting session stays: no late cleanup of an older
\* session empties the file it shares with it.
WaitingSessionHasKey == sess.state = "waiting" => key = sess.id

\* After the shell of a session has ended the session does not stay: it is
\* removed, or shown as a failed cleanup, or the service went down.
EndedShellEndsSession ==
    \A p \in Shells :
        (sess.shell = p /\ shell[p] = "dead")
            ~> (sess.shell # p \/ sess.state = "cleanup-error")

=============================================================================
