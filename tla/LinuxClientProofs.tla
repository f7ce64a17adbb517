--------------------------- MODULE LinuxClientProofs ---------------------------
(***************************************************************************)
(* Proofs about LinuxClient, for any set of clients the user starts, any   *)
(* number of saves, interrupts, failures and starts of the service.        *)
(***************************************************************************)
EXTENDS LinuxClient, TLAPS

(* A client that is past its takeover, until its process is gone.          *)
Late == {"reload", "setup", "listen", "running", "exiting"}

(* Who holds what: start.lock during the takeover, instance.lock from then *)
(* to the end of the client, the port only while it runs or ends.          *)
LockInv ==
    \A p \in Clients :
        /\ startLock = p <=> pc[p] \in {"scan", "wait", "inst"}
        /\ instance = p <=> pc[p] \in {"reload", "setup", "listen", "running"}
        /\ port = p => pc[p] \in {"running", "exiting"}
        /\ pc[p] \in {"stopsvc", "stopping", "scan", "wait"} => p \in Foreground

(* What a takeover still has to end: every client that is past its own     *)
(* takeover is on the list or is the one waited for, and none is left when *)
(* the list is done.                                                       *)
TakeoverInv ==
    \A p \in Clients :
        /\ p \notin left[p] /\ victim[p] # p
        /\ pc[p] # "wait" => victim[p] = None
        /\ pc[p] \in {"scan", "wait"} =>
              \A q \in Clients \ {p} : pc[q] \in Late => q \in left[p] \/ q = victim[p]
        /\ p \in Foreground /\ pc[p] \in {"inst", "reload", "setup", "listen", "running"} =>
              \A q \in Clients \ {p} : pc[q] \notin Late

(* A client the user started works with the file from its reload on.       *)
NewestInv == \A p \in Foreground : pc[p] \in {"listen", "running"} => cfg[p] = file

(* Every end has a reason, recorded before the process is gone.            *)
ReasonInv ==
    \A p \in Clients :
        /\ pc[p] = "off" => why[p] = "none" /\ p \notin term
        /\ p \in term => why[p] # "none"
        /\ pc[p] = "exiting" => p \in term
        /\ pc[p] = "gone" => why[p] # "none"
        /\ pc[p] = "wait" => victim[p] \in term \cup {None}

Ended(p) == why[p] \in {"interrupt", "error", "yield"}

(* Some client the user started runs, starts, or ended for a reason of its *)
(* own.                                                                    *)
Survivor == \E p \in Foreground : Alive(p) \/ Ended(p)

(* A client that is being taken over has a successor that waits for it; so *)
(* once a client was started, or the service was taken over, somebody is   *)
(* left.                                                                   *)
SurvivorInv ==
    /\ \A p \in Foreground : Alive(p) /\ why[p] = "takeover" =>
          \E w \in Foreground : pc[w] = "wait" /\ victim[w] = p
    /\ (\E p \in Foreground : pc[p] # "off") \/ why[Service] = "takeover" => Survivor

IInv == LockInv /\ TakeoverInv /\ NewestInv /\ ReasonInv /\ SurvivorInv

(* TypeOK is inductive by itself: every step keeps its variables in their  *)
(* sets, the version of the file within MaxSaves and the budgets natural.  *)
LEMMA TypeInit == Init => TypeOK
BY LinuxAssumption DEF Init, TypeOK, Clients

LEMMA TypeStep == TypeOK /\ [Next]_vars => TypeOK'
<1> SUFFICES ASSUME TypeOK, [Next]_vars PROVE TypeOK'
  OBVIOUS
<1> USE LinuxAssumption DEF TypeOK, Clients, Starting
<1>1. ASSUME NEW p \in Clients,
             \/ Launch(p) \/ Advance(p) \/ StopService(p) \/ Setup(p) \/ Start_Fails(p)
             \/ Persist(p) \/ Interrupt(p) \/ ClosePort(p) \/ Unlock(p) \/ Exit(p)
      PROVE  TypeOK'
  <2>1. CASE Launch(p) BY <2>1 DEF Launch
  <2>2. CASE StopService(p) BY <2>2 DEF StopService, ServiceInTheWay, Blame
  <2>22. CASE StopService_None(p) BY <2>22 DEF StopService_None
  <2>3. CASE StopService_Done(p) BY <2>3 DEF StopService_Done
  <2>4. CASE StopService_Cancelled(p)
    BY <2>4 DEF StopService_Cancelled, ServiceInTheWay, GiveUp, Blame, End, Freed, UnitAfter
  <2>5. CASE AcquireStart(p) BY <2>5 DEF AcquireStart, Matching
  <2>6. CASE AcquireStart_GivesUp(p)
    BY <2>6 DEF AcquireStart_GivesUp, GiveUp, Blame, End, Freed, UnitAfter
  <2>7. CASE Terminate(p) BY <2>7 DEF Terminate, Blame
  <2>8. CASE Terminate_Done(p) BY <2>8 DEF Terminate_Done, VictimAlive
  <2>9. CASE Terminate_Kill(p)
    BY <2>9 DEF Terminate_Kill, VictimAlive, End, Freed, UnitAfter
  <2>10. CASE Terminate_All(p)
    BY <2>10 DEF Terminate_All, GiveUp, Blame, End, Freed, UnitAfter
  <2>11. CASE AcquireInstance(p) BY <2>11 DEF AcquireInstance, Freed
  <2>12. CASE AlreadyRunning(p)
    BY <2>12 DEF AlreadyRunning, GiveUp, Blame, End, Freed, UnitAfter
  <2>13. CASE Reload(p) BY <2>13 DEF Reload
  <2>14. CASE Setup(p) BY <2>14 DEF Setup
  <2>15. CASE Listen(p) BY <2>15 DEF Listen, GiveUp, Blame, End, Freed, UnitAfter
  <2>16. CASE Start_Fails(p)
    BY <2>16 DEF Start_Fails, ServiceInTheWay, GiveUp, Blame, End, Freed, UnitAfter
  <2>17. CASE Persist(p) BY <2>17 DEF Persist
  <2>18. CASE Interrupt(p) BY <2>18 DEF Interrupt, Blame
  <2>19. CASE ClosePort(p) BY <2>19 DEF ClosePort
  <2>20. CASE Unlock(p) BY <2>20 DEF Unlock
  <2>21. CASE Exit(p) BY <2>21 DEF Exit, End, Freed, UnitAfter
  <2> QED BY <1>1, <2>1, <2>2, <2>3, <2>4, <2>5, <2>6, <2>7, <2>8, <2>9, <2>10, <2>11,
             <2>12, <2>13, <2>14, <2>15, <2>16, <2>17, <2>18, <2>19, <2>20,
             <2>21, <2>22 DEF Advance
<1>2. CASE Systemd_Start BY <1>2 DEF Systemd_Start, Freed
<1>3. CASE Systemd_Kill BY <1>3 DEF Systemd_Kill, End, Freed, UnitAfter
<1>4. CASE Watch_Probe BY <1>4 DEF Watch_Probe
<1>5. CASE Watch_Release BY <1>5 DEF Watch_Release
<1>6. CASE UNCHANGED vars BY <1>6 DEF vars
<1> QED BY <1>1, <1>2, <1>3, <1>4, <1>5, <1>6 DEF Next

(* Type correctness of the Linux client's processes, locks and unit.       *)
THEOREM LinuxTypeCorrect == Spec => []TypeOK
<1>1. TypeOK /\ [Next]_vars => TypeOK' BY TypeStep
<1> QED BY TypeInit, <1>1, PTL DEF Spec

-----------------------------------------------------------------------------
(* The inductive invariant.                                              *)

(* Nobody has started: no lock is held, no list is kept, nothing has       *)
(* ended.                                                                  *)
LEMMA IInvInit == Init => IInv
BY LinuxAssumption
   DEF Init, IInv, LockInv, TakeoverInv, NewestInv, ReasonInv, SurvivorInv, Late, Clients,
       Starting, Alive

(* Each step keeps all parts. They need each other: the list of a takeover *)
(* is complete because start.lock kept others from going past it           *)
(* (LockInv), and a client that is waited for is not replaced by a newer   *)
(* process of the same name (ReasonInv).                                   *)
LEMMA IInvStep == TypeOK /\ IInv /\ [Next]_vars => IInv'
<1> SUFFICES ASSUME TypeOK, IInv, [Next]_vars PROVE IInv'
  OBVIOUS
<1> USE LinuxAssumption DEF TypeOK, IInv, LockInv, TakeoverInv, NewestInv, ReasonInv,
          SurvivorInv, Survivor, Ended, Late, Clients, Starting, Alive
<1>1. ASSUME NEW p \in Clients,
             \/ Launch(p) \/ Advance(p) \/ StopService(p) \/ Setup(p) \/ Start_Fails(p)
             \/ Persist(p) \/ Interrupt(p) \/ ClosePort(p) \/ Unlock(p) \/ Exit(p)
      PROVE  IInv'
  <2>1. CASE Launch(p) BY <2>1 DEF Launch
  <2>2. CASE StopService(p) BY <2>2 DEF StopService, ServiceInTheWay, Blame
  <2>22. CASE StopService_None(p) BY <2>22 DEF StopService_None
  <2>3. CASE StopService_Done(p) BY <2>3 DEF StopService_Done
  <2>4. CASE StopService_Cancelled(p)
    BY <2>4 DEF StopService_Cancelled, ServiceInTheWay, GiveUp, Blame, End, Freed, UnitAfter
  <2>5. CASE AcquireStart(p) BY <2>5 DEF AcquireStart, Matching
  <2>6. CASE AcquireStart_GivesUp(p)
    BY <2>6 DEF AcquireStart_GivesUp, GiveUp, Blame, End, Freed, UnitAfter
  <2>7. CASE Terminate(p) BY <2>7 DEF Terminate, Blame
  <2>8. CASE Terminate_Done(p) BY <2>8 DEF Terminate_Done, VictimAlive
  <2>9. CASE Terminate_Kill(p)
    BY <2>9 DEF Terminate_Kill, VictimAlive, End, Freed, UnitAfter
  <2>10. CASE Terminate_All(p)
    BY <2>10 DEF Terminate_All, GiveUp, Blame, End, Freed, UnitAfter
  <2>11. CASE AcquireInstance(p) BY <2>11 DEF AcquireInstance, Freed
  <2>12. CASE AlreadyRunning(p)
    BY <2>12 DEF AlreadyRunning, GiveUp, Blame, End, Freed, UnitAfter
  <2>13. CASE Reload(p) BY <2>13 DEF Reload
  <2>14. CASE Setup(p) BY <2>14 DEF Setup
  <2>15. CASE Listen(p) BY <2>15 DEF Listen, GiveUp, Blame, End, Freed, UnitAfter
  <2>16. CASE Start_Fails(p)
    BY <2>16 DEF Start_Fails, ServiceInTheWay, GiveUp, Blame, End, Freed, UnitAfter
  <2>17. CASE Persist(p) BY <2>17 DEF Persist
  <2>18. CASE Interrupt(p) BY <2>18 DEF Interrupt, Blame
  <2>19. CASE ClosePort(p) BY <2>19 DEF ClosePort
  <2>20. CASE Unlock(p) BY <2>20 DEF Unlock
  <2>21. CASE Exit(p) BY <2>21 DEF Exit, End, Freed, UnitAfter
  <2> QED BY <1>1, <2>1, <2>2, <2>3, <2>4, <2>5, <2>6, <2>7, <2>8, <2>9, <2>10, <2>11,
             <2>12, <2>13, <2>14, <2>15, <2>16, <2>17, <2>18, <2>19, <2>20,
             <2>21, <2>22 DEF Advance
<1>2. CASE Systemd_Start BY <1>2 DEF Systemd_Start, Freed
<1>3. CASE Systemd_Kill BY <1>3 DEF Systemd_Kill, End, Freed, UnitAfter
<1>4. CASE Watch_Probe BY <1>4 DEF Watch_Probe
<1>5. CASE Watch_Release BY <1>5 DEF Watch_Release
<1>6. CASE UNCHANGED vars BY <1>6 DEF vars
<1> QED BY <1>1, <1>2, <1>3, <1>4, <1>5, <1>6 DEF Next

LEMMA InductiveInvariant == Spec => [](TypeOK /\ IInv)
<1>1. Init => TypeOK /\ IInv BY TypeInit, IInvInit
<1>2. TypeOK /\ IInv /\ [Next]_vars => (TypeOK /\ IInv)' BY TypeStep, IInvStep
<1> QED BY <1>1, <1>2, PTL DEF Spec

(* No client the user started runs on a configuration older than the file: *)
(* Reload comes after instance.lock, and after the end of every process    *)
(* that may still save.                                                    *)
THEOREM ClientsRunTheNewestConfig == Spec => []RunsNewestConfig
<1>1. TypeOK /\ IInv => RunsNewestConfig BY DEF IInv, NewestInv, RunsNewestConfig
<1> QED BY InductiveInvariant, <1>1, PTL

(* A foreground client that took over finds the management port free: the  *)
(* processes of terminateMatching are gone, and start.lock kept others     *)
(* out.                                                                    *)
THEOREM TakeoversFindTheirPort == Spec => []TakeoverFindsPort
<1>1. TypeOK /\ IInv => TakeoverFindsPort
  BY DEF IInv, TypeOK, LockInv, TakeoverInv, TakeoverFindsPort, Late, Clients
<1> QED BY InductiveInvariant, <1>1, PTL

(* Takeovers alone never end every client, whatever their number and their *)
(* order.                                                                  *)
THEOREM TakeoversLeaveAClient == Spec => []TakeoverLeavesOne
<1>1. ASSUME TypeOK, IInv, NEW p \in Clients, pc[p] = "gone"
      PROVE  \E q \in Clients : Alive(q) \/ Ended(q)
  <2>1. why[p] # "none" BY <1>1 DEF IInv, ReasonInv
  <2>2. CASE p \in Foreground BY <1>1, <2>2 DEF IInv, SurvivorInv, Survivor, Clients
  <2>3. CASE p = Service
    BY <1>1, <2>1, <2>3 DEF TypeOK, IInv, SurvivorInv, Survivor, Ended, Clients
  <2> QED BY <2>2, <2>3 DEF Clients
<1>2. TypeOK /\ IInv => TakeoverLeavesOne BY <1>1 DEF TakeoverLeavesOne, Ended
<1> QED BY InductiveInvariant, <1>2, PTL

(* instance.lock does what it is for: two clients never run with the same  *)
(* configuration, in whatever order they start, are replaced and are       *)
(* killed.                                                                 *)
OneRunning == \A p, q \in Clients : pc[p] = "running" /\ pc[q] = "running" => p = q

THEOREM ClientsExcludeEachOther == Spec => []OneRunning
<1>1. TypeOK /\ IInv => OneRunning BY DEF IInv, LockInv, OneRunning
<1> QED BY InductiveInvariant, <1>1, PTL

================================================================================
