----------------------- MODULE SupportControllerProofs ------------------------
(*****************************************************************************)
(* Proofs about SupportController, for any sets of requests and shells, and  *)
(* any number of sessions, faults, stops and crashes of the service.         *)
(*****************************************************************************)
EXTENDS SupportController, TLAPS

-----------------------------------------------------------------------------
(* The inductive invariant.                                                *)

(* There is at most one cleanup: it belongs to the session that is         *)
(* stopping and to its shell. Its shell no longer runs once it was killed, *)
(* or when it ended by itself, or it is one of those left to themselves;   *)
(* its key is out of the file before the entry goes.                       *)
CleanupInv ==
    /\ \A j, k \in jobs : j = k
    /\ \A j \in jobs :
          /\ sess.id = j.id /\ sess.state = "stopping" /\ sess.shell = j.shell
          /\ j.shell \in Running \ loose => j.terminate /\ j.at = "kill"
          /\ j.at = "delete" => key = 0

(* Session ids are not used twice, across restarts either; a shell that    *)
(* was let in is the shell of the session on its command line, if that one *)
(* is still there.                                                         *)
Admitted(p) == watch[p] \/ shell[p] \in {"running", "left"}

SessionInv ==
    /\ key <= issued /\ sess.id <= issued /\ \A p \in Shells : sid[p] <= issued
    /\ sess # NoSession => sess.id # 0
    /\ \A p \in Shells : shell[p] # "none" => sid[p] # 0
    /\ \A p \in Shells : watch[p] => shell[p] # "none"
    /\ \A p \in Shells : Admitted(p) /\ sess.id = sid[p] => sess.shell = p
    /\ svc = "down" => sess = NoSession /\ jobs = {}

IInv ==
    /\ CleanupInv /\ SessionInv
    /\ RunningShellIsVisible /\ KeyHasSession /\ WaitingSessionHasKey

(* The locked beginning of cleanupSession, whoever calls it.               *)
LEMMA CleanupBeginTypes ==
    ASSUME TypeOK, NEW id, NEW terminate \in BOOLEAN, NEW byClose \in BOOLEAN,
           CleanupBegin(id, terminate, byClose)
    PROVE  /\ sess' \in Session \cup {NoSession} /\ jobs' \subseteq Job
           /\ loose' \subseteq Shells
<1>1. CASE id # 0 /\ sess.id = id /\ sess.state # "stopping"
  <2>1. sess \in Session BY <1>1 DEF TypeOK, NoSession
  <2>2. sess' \in Session BY <1>1, <2>1 DEF CleanupBegin, Session
  <2>3. [id |-> id, shell |-> sess.shell, terminate |-> terminate, byClose |-> byClose,
         at |-> "kill"] \in Job
    BY <1>1, <2>1 DEF Session, Job
  <2>4. loose' \subseteq Shells BY <1>1 DEF CleanupBegin, TypeOK, Running
  <2> QED BY <1>1, <2>2, <2>3, <2>4 DEF CleanupBegin, TypeOK
<1>2. CASE ~(id # 0 /\ sess.id = id /\ sess.state # "stopping")
  BY <1>2 DEF CleanupBegin, TypeOK
<1> QED BY <1>1, <1>2

LEMMA TypeInit == Init => TypeOK
BY SupportAssumption DEF Init, TypeOK, Ids, NoSession, Session, Job, NoRequest,
   Request, Alive

LEMMA TypeStep == TypeOK /\ [Next]_vars => TypeOK'
<1> SUFFICES ASSUME TypeOK, [Next]_vars PROVE TypeOK'
  OBVIOUS
<1> USE SupportAssumption DEF TypeOK, Ids, NoSession, Session, Job, NoRequest,
        Request, Alive, Serving, Running, shellvars, boundvars
<1>1. ASSUME NEW j \in jobs, JobStep(j)
      PROVE  TypeOK'
  <2>1. CASE Job_Kill(j) BY <2>1 DEF Job_Kill, Kills, Advance
  <2>2. CASE Job_KillFails(j) BY <2>2 DEF Job_KillFails, Kills, Advance, Fault
  <2>3. CASE Job_Clear(j) BY <2>3 DEF Job_Clear, Advance
  <2>4. CASE Job_ClearFails(j) BY <2>4 DEF Job_ClearFails, Advance, Fault
  <2>5. CASE Job_Delete(j) BY <2>5 DEF Job_Delete
  <2>6. CASE Job_Fail(j) BY <2>6 DEF Job_Fail
  <2> QED BY <1>1, <2>1, <2>2, <2>3, <2>4, <2>5, <2>6 DEF JobStep
<1>2. ASSUME NEW u \in Users, UserStep(u)
      PROVE  TypeOK'
  <2>1. CASE User_Asks(u) BY <2>1 DEF User_Asks
  <2>2. CASE Start(u) BY <2>2 DEF Start, Return
  <2>3. CASE Start_Fails(u) BY <2>3 DEF Start_Fails, Return, Fault
  <2>4. CASE Stop_Status(u) BY <2>4 DEF Stop_Status
  <2>5. CASE Stop_Cleanup(u)
    BY <2>5, CleanupBeginTypes DEF Stop_Cleanup, Return
  <2> QED BY <1>2, <2>1, <2>2, <2>3, <2>4, <2>5 DEF UserStep
<1>3. ASSUME NEW p \in Shells, ShellStep(p)
      PROVE  TypeOK'
  <2>1. CASE Login(p) BY <2>1 DEF Login
  <2>2. CASE Shell_Calls(p) BY <2>2 DEF Shell_Calls
  <2>3. CASE Connected(p)
    <3>1. CASE Admits(p)
      <4>1. sess \in Session BY <2>3, <3>1 DEF Admits
      <4>2. sess' \in Session BY <2>3, <3>1, <4>1 DEF Connected
      <4>3. watch' \in [Shells -> BOOLEAN] BY <2>3, <3>1 DEF Connected
      <4> QED BY <2>3, <3>1, <4>2, <4>3 DEF Connected
    <3>2. CASE ~Admits(p) BY <2>3, <3>2 DEF Connected
    <3> QED BY <3>1, <3>2
  <2>4. CASE Shell_Leaves(p) BY <2>4 DEF Shell_Leaves
  <2>5. CASE Finished(p)
    BY <2>5, CleanupBeginTypes DEF Finished
  <2>6. CASE Shell_Dies(p) BY <2>6 DEF Shell_Dies
  <2>7. CASE Watch_Ends(p)
    BY <2>7, CleanupBeginTypes DEF Watch_Ends
  <2>8. CASE Watch_Denied(p)
    <3>1. left' \in [faults : 0..MaxFaults, exits : 0..MaxExits]
      BY <2>8 DEF Watch_Denied, Fault
    <3> QED BY <2>8, <3>1, CleanupBeginTypes DEF Watch_Denied
  <2> QED BY <1>3, <2>1, <2>2, <2>3, <2>4, <2>5, <2>6, <2>7, <2>8 DEF ShellStep
<1>4. ASSUME ServiceStep
      PROVE  TypeOK'
  <2>1. CASE Close_Begin BY <2>1 DEF Close_Begin
  <2>2. CASE Close_Collect BY <2>2 DEF Close_Collect
  <2>3. CASE \E id \in sweep : Close_One(id)
    BY <2>3, CleanupBeginTypes DEF Close_One
  <2>4. CASE Exit BY <2>4 DEF Exit, Gone
  <2>5. CASE Crash BY <2>5 DEF Crash, Gone
  <2>6. CASE Restart BY <2>6 DEF Restart
  <2>7. CASE Restart_Fails BY <2>7 DEF Restart_Fails, Fault
  <2> QED BY <1>4, <2>1, <2>2, <2>3, <2>4, <2>5, <2>6, <2>7 DEF ServiceStep
<1>5. CASE Finished_ByOther
  <2>1. left' \in [faults : 0..MaxFaults, exits : 0..MaxExits]
    BY <1>5 DEF Finished_ByOther, Fault
  <2> QED BY <1>5, <2>1, CleanupBeginTypes DEF Finished_ByOther
<1>6. CASE UNCHANGED vars BY <1>6 DEF vars
<1> QED BY <1>1, <1>2, <1>3, <1>4, <1>5, <1>6 DEF Next

LEMMA IInvInit == Init => IInv
BY SupportAssumption DEF Init, IInv, CleanupInv, SessionInv, Admitted, Running,
   RunningShellIsVisible, KeyHasSession, WaitingSessionHasKey, Alive, NoSession

(* A cleanup may begin at any time: it terminates the shell, or the shell  *)
(* has ended, or is left to itself. The step may let shells end, but       *)
(* starts none.                                                            *)
LEMMA CleanupBeginKeepsInv ==
    ASSUME TypeOK, IInv, NEW id, NEW terminate \in BOOLEAN, NEW byClose \in BOOLEAN,
           CleanupBegin(id, terminate, byClose),
           UNCHANGED <<svc, key, sid, issued, broken>>,
           \A p \in Shells : shell'[p] = "none" <=> shell[p] = "none",
           \A p \in Shells : shell'[p] = "running" => shell[p] = "running",
           \A p \in Shells : watch'[p] => watch[p],
           \A p \in Shells : Admitted(p)' => Admitted(p)
    PROVE  IInv'
<1> USE SupportAssumption DEF IInv, CleanupInv, SessionInv, RunningShellIsVisible,
        KeyHasSession, WaitingSessionHasKey, Serving, Running
<1>0. (Running \ loose)' \subseteq Running \ loose BY DEF CleanupBegin
<1>1. CASE id # 0 /\ sess.id = id /\ sess.state # "stopping"
  <2>1. sess \in Session BY <1>1 DEF TypeOK, NoSession
  <2>2. sess' = [sess EXCEPT !.state = "stopping"] BY <1>1 DEF CleanupBegin
  <2>3. /\ sess'.id = sess.id /\ sess'.shell = sess.shell /\ sess'.state = "stopping"
    BY <2>1, <2>2 DEF Session
  <2>4. jobs = {} BY <1>1
  <2>5. jobs' = {[id |-> id, shell |-> sess.shell, terminate |-> terminate,
                  byClose |-> byClose, at |-> "kill"]}
    BY <1>1, <2>4 DEF CleanupBegin
  <2>6. CleanupInv'
    <3>1. terminate \/ sess.shell \notin (Running \ loose)'
      BY <1>1 DEF CleanupBegin
    <3> QED BY <1>1, <2>3, <2>5, <3>1
  <2>7. svc # "down" /\ sess # NoSession BY <1>1 DEF NoSession
  <2>8. SessionInv' BY <1>1, <2>3, <2>7
  <2>9. RunningShellIsVisible' BY <1>0, <2>3
  <2> QED BY <2>3, <2>6, <2>8, <2>9
<1>2. CASE ~(id # 0 /\ sess.id = id /\ sess.state # "stopping")
  <2>1. UNCHANGED <<sess, jobs>> BY <1>2 DEF CleanupBegin
  <2>2. RunningShellIsVisible' BY <1>0, <2>1
  <2>3. CleanupInv' BY <1>0, <2>1
  <2> QED BY <2>1, <2>2, <2>3 DEF TypeOK
<1> QED BY <1>1, <1>2

(* The other steps. Job_Delete removes an entry whose shell has ended and  *)
(* whose key is gone; only one shell is let in by each session.            *)
LEMMA IInvStep == TypeOK /\ IInv /\ [Next]_vars => IInv'
<1> SUFFICES ASSUME TypeOK, IInv, [Next]_vars PROVE IInv'
  OBVIOUS
<1> USE SupportAssumption DEF TypeOK, Ids, NoSession, Session, Job, NoRequest,
        Request, Alive, IInv, CleanupInv, SessionInv, Admitted, RunningShellIsVisible,
        KeyHasSession, WaitingSessionHasKey, Serving, Running, shellvars, boundvars
<1>1. ASSUME NEW j \in jobs, JobStep(j)
      PROVE  IInv'
  <2>1. CASE Job_Kill(j) BY <2>1 DEF Job_Kill, Kills, Advance
  <2>2. CASE Job_KillFails(j) BY <2>2 DEF Job_KillFails, Kills, Advance, Fault
  <2>3. CASE Job_Clear(j) BY <2>3 DEF Job_Clear, Advance
  <2>4. CASE Job_ClearFails(j) BY <2>4 DEF Job_ClearFails, Advance, Fault
  <2>5. CASE Job_Delete(j) BY <2>5 DEF Job_Delete
  <2>6. CASE Job_Fail(j) BY <2>6 DEF Job_Fail
  <2> QED BY <1>1, <2>1, <2>2, <2>3, <2>4, <2>5, <2>6 DEF JobStep
<1>2. ASSUME NEW u \in Users, UserStep(u)
      PROVE  IInv'
  <2>1. CASE User_Asks(u) BY <2>1 DEF User_Asks
  <2>2. CASE Start(u) BY <2>2 DEF Start, Return
  <2>3. CASE Start_Fails(u) BY <2>3 DEF Start_Fails, Return, Fault
  <2>4. CASE Stop_Status(u) BY <2>4 DEF Stop_Status
  <2>5. CASE Stop_Cleanup(u)
    BY <2>5, CleanupBeginKeepsInv DEF Stop_Cleanup
  <2> QED BY <1>2, <2>1, <2>2, <2>3, <2>4, <2>5 DEF UserStep
<1>3. ASSUME NEW p \in Shells, ShellStep(p)
      PROVE  IInv'
  <2>1. CASE Login(p) BY <2>1 DEF Login
  <2>2. CASE Shell_Calls(p) BY <2>2 DEF Shell_Calls
  <2>3. CASE Connected(p)
    <3>1. CASE Admits(p)
      <4>1. /\ sess.id = sid[p] /\ sess.state = "waiting" /\ sess.shell = None
            /\ sess \in Session
        BY <3>1 DEF Admits
      <4>2. sess' = [sess EXCEPT !.state = "connected", !.shell = p] BY <2>3, <3>1 DEF Connected
      <4>3. sess'.id = sess.id /\ sess'.state = "connected" /\ sess'.shell = p
        BY <4>1, <4>2 DEF Session
      <4>4. jobs = {} BY <4>1
      <4>5. /\ shell' = [shell EXCEPT ![p] = "running"] /\ watch' = [watch EXCEPT ![p] = TRUE]
            /\ UNCHANGED <<svc, key, jobs, sid, boundvars>>
        BY <2>3, <3>1 DEF Connected
      <4>6. sess' # NoSession /\ svc # "down" /\ shell[p] = "asking"
        BY <2>3, <4>3 DEF Connected
      <4>7. SessionInv' BY <4>1, <4>3, <4>5, <4>6
      <4> QED BY <4>1, <4>3, <4>4, <4>5, <4>7
    <3>2. CASE ~Admits(p) BY <2>3, <3>2 DEF Connected
    <3> QED BY <3>1, <3>2
  <2>4. CASE Shell_Leaves(p) BY <2>4 DEF Shell_Leaves
  <2>5. CASE Finished(p)
    <3>1. /\ shell[p] = "left"
          /\ \A q \in Shells : shell'[q] = IF q = p THEN "finishing" ELSE shell[q]
      BY <2>5 DEF Finished
    <3>2. /\ CleanupBegin(sid[p], FALSE, FALSE)
          /\ UNCHANGED <<svc, key, sid, watch, issued, broken>>
      BY <2>5 DEF Finished
    <3>3. /\ \A q \in Shells : shell'[q] = "none" <=> shell[q] = "none"
          /\ \A q \in Shells : shell'[q] = "running" => shell[q] = "running"
      BY <3>1
    <3>4. \A q \in Shells : Admitted(q)' => Admitted(q) BY <3>1, <3>2
    <3> HIDE DEF IInv, TypeOK, Admitted
    <3> QED BY <3>2, <3>3, <3>4, CleanupBeginKeepsInv
  <2>6. CASE Shell_Dies(p) BY <2>6 DEF Shell_Dies
  <2>7. CASE Watch_Ends(p)
    BY <2>7, CleanupBeginKeepsInv DEF Watch_Ends
  <2>8. CASE Watch_Denied(p)
    BY <2>8, CleanupBeginKeepsInv DEF Watch_Denied
  <2> QED BY <1>3, <2>1, <2>2, <2>3, <2>4, <2>5, <2>6, <2>7, <2>8 DEF ShellStep
<1>4. ASSUME ServiceStep
      PROVE  IInv'
  <2>1. CASE Close_Begin BY <2>1 DEF Close_Begin
  <2>2. CASE Close_Collect BY <2>2 DEF Close_Collect
  <2>3. CASE \E id \in sweep : Close_One(id)
    <3>1. PICK id \in sweep : Close_One(id) BY <2>3
    <3>2. CleanupBegin(id, TRUE, TRUE) BY <3>1 DEF Close_One
    <3>3. UNCHANGED <<svc, key, sid, shell, watch, issued, broken>>
      BY <3>1 DEF Close_One, shellvars, boundvars
    <3>4. \A p \in Shells : Admitted(p)' => Admitted(p) BY <3>3 DEF Admitted
    <3> HIDE DEF IInv
    <3> QED BY <3>2, <3>3, <3>4, CleanupBeginKeepsInv
  <2>4. CASE Exit BY <2>4 DEF Exit, Gone
  <2>5. CASE Crash BY <2>5 DEF Crash, Gone
  <2>6. CASE Restart BY <2>6 DEF Restart
  <2>7. CASE Restart_Fails BY <2>7 DEF Restart_Fails, Fault
  <2> QED BY <1>4, <2>1, <2>2, <2>3, <2>4, <2>5, <2>6, <2>7 DEF ServiceStep
<1>5. CASE Finished_ByOther
  BY <1>5, CleanupBeginKeepsInv DEF Finished_ByOther
<1>6. CASE UNCHANGED vars BY <1>6 DEF vars
<1> QED BY <1>1, <1>2, <1>3, <1>4, <1>5, <1>6 DEF Next

LEMMA InductiveInvariant == Spec => [](TypeOK /\ IInv)
<1>1. Init => TypeOK /\ IInv BY TypeInit, IInvInit
<1>2. TypeOK /\ IInv /\ [Next]_vars => (TypeOK /\ IInv)' BY TypeStep, IInvStep
<1> QED BY <1>1, <1>2, PTL DEF Spec

(* Type correctness of the controller, its cleanups and the shells.        *)
THEOREM SupportTypeCorrect == Spec => []TypeOK
BY InductiveInvariant, PTL

(* A remote shell that no failed OpenProcess, report of another process,   *)
(* failed taskkill or end of the service has left to itself is the shell   *)
(* of the session shown: requests, watchers, cleanups and shells of        *)
(* earlier sessions or lives of the service never separate the two.        *)
THEOREM RunningShellsAreVisible == Spec => []RunningShellIsVisible
<1>1. TypeOK /\ IInv => RunningShellIsVisible
  BY DEF IInv
<1> QED BY InductiveInvariant, <1>1, PTL

(* No authorisation outlives its session: cleanupSession empties the key   *)
(* file before it removes the entry, and keeps the entry when it could     *)
(* not.                                                                    *)
THEOREM KeysHaveSessions == Spec => []KeyHasSession
<1>1. TypeOK /\ IInv => KeyHasSession
  BY DEF IInv
<1> QED BY InductiveInvariant, <1>1, PTL

(* No cleanup of an older session empties the file of a newer one,         *)
(* although every session of the account shares it.                        *)
THEOREM WaitingSessionsHaveKeys == Spec => []WaitingSessionHasKey
<1>1. TypeOK /\ IInv => WaitingSessionHasKey
  BY DEF IInv
<1> QED BY InductiveInvariant, <1>1, PTL

===============================================================================
