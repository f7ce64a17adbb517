------------------------- MODULE ClientSessionProofs --------------------------
(*****************************************************************************)
(* Proofs about ClientSession, for any set of hosts and of concurrent        *)
(* management requests, any number of changes, reconnects, issued            *)
(* credentials and crashes, with and without failures of the file.           *)
(*****************************************************************************)
EXTENDS ClientSession, TLAPS

-----------------------------------------------------------------------------
(* The inductive invariant.                                                *)

(* updateMu is held by exactly the request that is replacing the           *)
(* configuration, from SaveConfig to requestReconnect.                     *)
LockInv == \A r \in Requests : updateMu = r <=> req[r] \in {"saved", "swapped", "cleared"}

(* Some request has replaced the configuration and has yet to reconnect.   *)
Replacing == \E r \in Requests : req[r] \in {"swapped", "cleared"}

(* A session is published while the loop runs it. An old configuration is  *)
(* in use only until its replacement is done: then the session is          *)
(* cancelled and the signal stays in the channel until the loop reads      *)
(* again.                                                                  *)
SessionInv ==
    /\ session <=> pc \in {"dial", "registered", "serving", "ended"}
    /\ pc \in {"dial", "registered", "serving"} /\ srcRev # revision => cancelled \/ Replacing
    /\ pc \notin {"top", "read"} /\ srcRev # revision => restart \/ Replacing

(* What a request is about to install is a configuration whose credential  *)
(* is its host's; a page shows the host of the revision that was current   *)
(* when it was read, which only Config_Install replaces.                   *)
RequestInv ==
    \A r \in Requests :
        /\ req[r] = "saved" => revision < MaxRevision /\ next[r] \in Configs
                               /\ (next[r].cred # None => next[r].cred.host = next[r].host)
        /\ req[r] \notin {"loading", "form", "saved"} => form[r] = None
        /\ req[r] \in {"loading", "form"} =>
              /\ form[r] \in Page /\ form[r].seen <= revision /\ form[r].rev <= revision
              /\ form[r].seen = revision => form[r].host = cfg.host

IInv ==
    /\ LockInv /\ SessionInv /\ RequestInv
    /\ CredentialBelongsToHost /\ AssignmentsAreCurrent /\ ConnectedMeansSession
    /\ NoBlindOverwrite

LEMMA IInvInit == Init => IInv
BY ClientAssumption DEF Init, IInv, LockInv, SessionInv, RequestInv, Replacing,
   CredentialBelongsToHost, AssignmentsAreCurrent, ConnectedMeansSession,
   NoBlindOverwrite, Enrolment

(* Each step keeps all parts: the stages of a change (saved, swapped,      *)
(* cleared, done) hand the old configuration from one part to the next,    *)
(* and updateMu keeps a second change out of between.                      *)
LEMMA IInvStep == TypeOK /\ IInv /\ [Next]_vars => IInv'
<1> SUFFICES ASSUME TypeOK, IInv, [Next]_vars PROVE IInv'
  OBVIOUS
<1> USE ClientAssumption DEF TypeOK, IInv, LockInv, SessionInv, RequestInv, Replacing,
        CredentialBelongsToHost, AssignmentsAreCurrent, ConnectedMeansSession,
        NoBlindOverwrite, Configs, Credentials, Page, confvars, loopvars, reqvars
<1>1. ASSUME Loop
      PROVE  IInv'
  <2>1. CASE Loop_Drain BY <2>1 DEF Loop_Drain
  <2>2. CASE Loop_Read BY <2>2 DEF Loop_Read
  <2>3. CASE Loop_Publish BY <2>3 DEF Loop_Publish
  <2>4. CASE Loop_Clear BY <2>4 DEF Loop_Clear
  <2>5. CASE Loop_Report BY <2>5 DEF Loop_Report
  <2>6. CASE Loop_Wake BY <2>6 DEF Loop_Wake
  <2>7. CASE Session_Register BY <2>7 DEF Session_Register
  <2>8. CASE Session_Issued BY <2>8 DEF Session_Issued, Accepts
  <2>9. CASE Session_Connected BY <2>9 DEF Session_Connected, ForRevision
  <2>10. CASE Session_Assignments BY <2>10 DEF Session_Assignments, ForRevision
  <2>11. CASE Session_Ends BY <2>11 DEF Session_Ends
  <2> QED BY <1>1, <2>1, <2>2, <2>3, <2>4, <2>5, <2>6, <2>7, <2>8, <2>9, <2>10,
             <2>11 DEF Loop
<1>2. ASSUME NEW r \in Requests, Request(r)
      PROVE  IInv'
  <2>1. CASE Form_Config(r) BY <2>1 DEF Form_Config
  <2>10. CASE Form_Revision(r) BY <2>10 DEF Form_Revision
  <2>2. CASE \E h \in Hosts : \E c \in {None, Enrolment(h)} : Config_Save(r, h, c)
    <3>1. PICK h \in Hosts : \E c \in {None, Enrolment(h)} : Config_Save(r, h, c) BY <2>2
    <3>2. PICK c \in {None, Enrolment(h)} : Config_Save(r, h, c) BY <3>1
    <3> QED BY <3>2 DEF Config_Save, Enrolment
  <2>3. CASE Config_Refused(r) BY <2>3 DEF Config_Refused
  <2>4. CASE Config_LoadFails(r) BY <2>4 DEF Config_LoadFails
  <2>5. CASE Config_Install(r) BY <2>5 DEF Config_Install
  <2>6. CASE Config_Clear(r) BY <2>6 DEF Config_Clear
  <2>7. CASE Config_Done(r) BY <2>7 DEF Config_Done, RequestReconnect
  <2>8. CASE Reconnect_Begin(r) BY <2>8 DEF Reconnect_Begin
  <2>9. CASE Reconnect_Done(r) BY <2>9 DEF Reconnect_Done, RequestReconnect
  <2> QED BY <1>2, <2>1, <2>2, <2>3, <2>4, <2>5, <2>6, <2>7, <2>8, <2>9, <2>10 DEF Request
<1>3. CASE Crash BY <1>3 DEF Crash
<1>4. CASE UNCHANGED vars BY <1>4 DEF vars
<1> QED BY <1>1, <1>2, <1>3, <1>4 DEF Next

(* Types are kept with the help of the invariant: what Config_Install      *)
(* takes from a request is a configuration, and the bound on revisions has *)
(* room for it.                                                            *)
LEMMA TypeInit == Init => TypeOK
<1> SUFFICES ASSUME Init PROVE TypeOK
  OBVIOUS
<1> USE ClientAssumption
<1>1. PICK h \in Hosts : cfg \in [host : {h}, cred : {None, Enrolment(h)}] BY DEF Init
<1>2. cfg \in Configs /\ disk = cfg /\ src = cfg
  BY <1>1 DEF Init, Configs, Credentials, Enrolment
<1>3. left \in [reconnects : 0..MaxReconnects, issued : 0..MaxIssued, crashes : 0..MaxCrashes]
  BY DEF Init
<1>4. /\ restart \in BOOLEAN /\ session \in BOOLEAN
      /\ cancelled \in BOOLEAN /\ changed \in BOOLEAN
  BY DEF Init
<1> QED BY <1>2, <1>3, <1>4 DEF Init, TypeOK

LEMMA TypeStep == TypeOK /\ IInv /\ [Next]_vars => TypeOK'
<1> SUFFICES ASSUME TypeOK, IInv, [Next]_vars PROVE TypeOK'
  OBVIOUS
<1> USE ClientAssumption DEF TypeOK, Configs, Credentials, Page, confvars, loopvars, reqvars
<1>1. ASSUME Loop
      PROVE  TypeOK'
  <2>1. CASE Loop_Drain
    <3>1. pc' = "read" /\ restart' = FALSE BY <2>1 DEF Loop_Drain
    <3>2. UNCHANGED <<confvars, src, srcRev, session, cancelled, changed, status, assigned,
                      reqvars, left>>
      BY <2>1 DEF Loop_Drain
    <3> HIDE DEF Configs, IInv
    <3> QED BY <3>1, <3>2
  <2>2. CASE Loop_Read
    <3>1. pc' \in {"wait", "publish"} /\ status' \in {"unconfigured", status}
      BY <2>2 DEF Loop_Read
    <3>2. src' \in Configs /\ srcRev' \in 0..MaxRevision BY <2>2 DEF Loop_Read
    <3> HIDE DEF Configs, IInv
    <3> QED BY <2>2, <3>1, <3>2 DEF Loop_Read
  <2>3. CASE Loop_Publish
    <3>1. session' \in BOOLEAN /\ cancelled' \in BOOLEAN BY <2>3 DEF Loop_Publish
    <3>2. pc' \in {"top", "dial"} /\ status' \in {"connecting", status}
      BY <2>3 DEF Loop_Publish
    <3>3. UNCHANGED <<confvars, restart, src, srcRev, changed, assigned, reqvars, left>>
      BY <2>3 DEF Loop_Publish
    <3> HIDE DEF Configs, IInv
    <3> QED BY <3>1, <3>2, <3>3
  <2>4. CASE Loop_Clear
    <3>1. pc' = "cleared" /\ session' = FALSE /\ cancelled' = TRUE BY <2>4 DEF Loop_Clear
    <3>2. UNCHANGED <<confvars, restart, src, srcRev, changed, status, assigned, reqvars, left>>
      BY <2>4 DEF Loop_Clear
    <3> HIDE DEF Configs, IInv
    <3> QED BY <3>1, <3>2
  <2>5. CASE Loop_Report BY <2>5 DEF Loop_Report
  <2>6. CASE Loop_Wake
    <3>1. restart' \in BOOLEAN BY <2>6 DEF Loop_Wake
    <3> QED BY <2>6, <3>1 DEF Loop_Wake
  <2>7. CASE Session_Register BY <2>7 DEF Session_Register
  <2>8. CASE Session_Issued BY <2>8 DEF Session_Issued, Accepts
  <2>9. CASE Session_Connected BY <2>9 DEF Session_Connected, ForRevision
  <2>10. CASE Session_Assignments BY <2>10 DEF Session_Assignments, ForRevision
  <2>11. CASE Session_Ends BY <2>11 DEF Session_Ends
  <2> QED BY <1>1, <2>1, <2>2, <2>3, <2>4, <2>5, <2>6, <2>7, <2>8, <2>9, <2>10,
             <2>11 DEF Loop
<1>2. ASSUME NEW r \in Requests, Request(r)
      PROVE  TypeOK'
  <2>1. CASE Form_Config(r) BY <2>1 DEF Form_Config
  <2>10. CASE Form_Revision(r)
    <3>1. form[r] \in Page BY <2>10 DEF Form_Revision, IInv, RequestInv
    <3>2. /\ form' = [form EXCEPT ![r] = [form[r] EXCEPT !.rev = revision]]
          /\ req' = [req EXCEPT ![r] = "form"]
      BY <2>10 DEF Form_Revision
    <3>3. UNCHANGED <<confvars, restart, loopvars, status, assigned, next, left>>
      BY <2>10 DEF Form_Revision
    <3>4. form' \in [Requests -> Page \cup {None}] BY <3>1, <3>2
    <3>5. req' \in [Requests -> {"idle", "loading", "form", "saved", "swapped", "cleared",
                                 "reconnect"}]
      BY <3>2
    <3> HIDE DEF Configs, Page, IInv
    <3> QED BY <3>3, <3>4, <3>5
  <2>2. CASE \E h \in Hosts : \E c \in {None, Enrolment(h)} : Config_Save(r, h, c)
    <3>1. PICK h \in Hosts : \E c \in {None, Enrolment(h)} : Config_Save(r, h, c) BY <2>2
    <3>2. PICK c \in {None, Enrolment(h)} : Config_Save(r, h, c) BY <3>1
    <3> QED BY <3>2 DEF Config_Save, Enrolment
  <2>3. CASE Config_Refused(r) BY <2>3 DEF Config_Refused
  <2>4. CASE Config_LoadFails(r) BY <2>4 DEF Config_LoadFails
  <2>5. CASE Config_Install(r)
    <3>1. next[r] \in Configs /\ revision < MaxRevision
      BY <2>5 DEF Config_Install, IInv, RequestInv
    <3> QED BY <2>5, <3>1 DEF Config_Install
  <2>6. CASE Config_Clear(r) BY <2>6 DEF Config_Clear
  <2>7. CASE Config_Done(r) BY <2>7 DEF Config_Done, RequestReconnect
  <2>8. CASE Reconnect_Begin(r) BY <2>8 DEF Reconnect_Begin
  <2>9. CASE Reconnect_Done(r) BY <2>9 DEF Reconnect_Done, RequestReconnect
  <2> QED BY <1>2, <2>1, <2>2, <2>3, <2>4, <2>5, <2>6, <2>7, <2>8, <2>9, <2>10 DEF Request
<1>3. CASE Crash
  <2>1. left' \in [reconnects : 0..MaxReconnects, issued : 0..MaxIssued,
                  crashes : 0..MaxCrashes]
    BY <1>3 DEF Crash
  <2>2. /\ restart' \in BOOLEAN /\ session' \in BOOLEAN
        /\ cancelled' \in BOOLEAN /\ changed' \in BOOLEAN
    BY <1>3 DEF Crash
  <2> QED BY <1>3, <2>1, <2>2 DEF Crash
<1>4. CASE UNCHANGED vars BY <1>4 DEF vars
<1> QED BY <1>1, <1>2, <1>3, <1>4 DEF Next

LEMMA InductiveInvariant == Spec => [](TypeOK /\ IInv)
<1>1. Init => TypeOK /\ IInv BY TypeInit, IInvInit
<1>2. TypeOK /\ IInv /\ [Next]_vars => (TypeOK /\ IInv)' BY TypeStep, IInvStep
<1> QED BY <1>1, <1>2, PTL DEF Spec

(* Type correctness of the connection loop, its sessions and the           *)
(* management requests.                                                    *)
THEOREM ClientTypeCorrect == Spec => []TypeOK
BY InductiveInvariant, PTL

(* No session outlives its configuration, wherever the loop was when a     *)
(* request replaced it: it is not published (Loop_Publish), or             *)
(* requestReconnect cancels it.                                            *)
THEOREM StaleSessionsAreCancelled == Spec => []StaleSessionIsCancelled
<1>1. TypeOK /\ IInv => StaleSessionIsCancelled
  BY ClientAssumption DEF TypeOK, IInv, LockInv, SessionInv, Replacing,
      StaleSessionIsCancelled
<1> QED BY InductiveInvariant, <1>1, PTL

(* No wake-up is lost: the signal of requestReconnect is drained only      *)
(* before the configuration is read.                                       *)
THEOREM ChangesWakeTheLoop == Spec => []ChangeWakesLoop
<1>1. TypeOK /\ IInv => ChangeWakesLoop
  BY ClientAssumption DEF TypeOK, IInv, LockInv, SessionInv, Replacing,
      ChangeWakesLoop
<1> QED BY InductiveInvariant, <1>1, PTL

(* A credential stays with the host it was issued or entered for, in       *)
(* memory and in the file, through late replies, changes of host, failed   *)
(* reloads and crashes.                                                    *)
THEOREM CredentialsBelongToTheirHost == Spec => []CredentialBelongsToHost
<1>1. TypeOK /\ IInv => CredentialBelongsToHost
  BY DEF IInv
<1> QED BY InductiveInvariant, <1>1, PTL

(* The assignments shown belong to the current revision: forRevision drops *)
(* late callbacks, and clearAssignments removes what came before the       *)
(* change.                                                                 *)
THEOREM ShownAssignmentsAreCurrent == Spec => []AssignmentsAreCurrent
<1>1. TypeOK /\ IInv => AssignmentsAreCurrent
  BY DEF IInv
<1> QED BY InductiveInvariant, <1>1, PTL

(* The panel does not show a connection that does not exist.               *)
THEOREM ConnectedNeedsASession == Spec => []ConnectedMeansSession
<1>1. TypeOK /\ IInv => ConnectedMeansSession
  BY DEF IInv
<1> QED BY InductiveInvariant, <1>1, PTL

(* A page never replaces a configuration it did not show, however many     *)
(* pages are open, if no change came between the two readings of           *)
(* handleManagementDashboard while it was loaded.                          *)
THEOREM PagesNeverOverwriteBlindly == Spec => []NoBlindOverwrite
<1>1. TypeOK /\ IInv => NoBlindOverwrite
  BY DEF IInv
<1> QED BY InductiveInvariant, <1>1, PTL

===============================================================================
