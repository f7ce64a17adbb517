------------------------- MODULE WindowsInstallProofs -------------------------
(*****************************************************************************)
(* Proofs about WindowsInstall, for any number of runs of the installer,     *)
(* failures, issued credentials, failures of the service and halts of the    *)
(* machine.                                                                  *)
(*****************************************************************************)
EXTENDS WindowsInstall, TLAPS

-----------------------------------------------------------------------------
(* The inductive invariant.                                                *)

(* Before anything is stopped the installer knows nothing; what it loaded  *)
(* is the newest credential, or one was saved under it.                    *)
CredentialInv ==
    /\ me.token <= issued
    /\ token \in {0, issued} \/ raced
    /\ pc = "save" => me.token = issued \/ raced

(* A configuration is replaced only after a usable one was noted for the   *)
(* rollback, and is not trusted before it was validated.                   *)
ConfigInv ==
    /\ pc # "validate" /\ ~torn => Accepted(conf)
    /\ pc = "validate" /\ ~torn => Accepted(me.before)
    /\ pc = "validate" => conf = "managed"

(* Only an install or repair that stopped a service remembers one to       *)
(* restore, and that service is not deleted meanwhile; Windows restarts    *)
(* only a stopped service.                                                 *)
ServiceInv ==
    /\ pc = "idle" => me = NoLocals
    /\ pc \in {"prepare", "load", "wizard", "save", "stop", "ustop", "ustopping", "remove"}
         => ~me.running
    /\ me.running => svc # "absent"
    /\ scm => svc = "stopped"
    /\ FailureRestoresService

IInv == CredentialInv /\ ConfigInv /\ ServiceInv

LEMMA IInvInit == Init => IInv
BY WindowsAssumption DEF Init, IInv, CredentialInv, ConfigInv, ServiceInv,
   FailureRestoresService, Accepted, NoLocals

(* Every step keeps the three parts; they speak of different variables and *)
(* meet only in pc.                                                        *)
LEMMA IInvStep == TypeOK /\ IInv /\ [Next]_vars => IInv'
<1> SUFFICES ASSUME TypeOK, IInv, [Next]_vars PROVE IInv'
  OBVIOUS
<1> USE WindowsAssumption DEF TypeOK, Confs, IInv, CredentialInv, ConfigInv,
        ServiceInv, FailureRestoresService, Accepted, Locals, Records, NoLocals,
        servicevars, sshvars, history
<1>1. ASSUME NEW o \in {"install", "repair", "uninstall"}, Begin(o) PROVE IInv'
  BY <1>1 DEF Begin
<1>2. CASE Step_Fails BY <1>2 DEF Step_Fails, Failed
<1>3. CASE Recover BY <1>3 DEF Recover
<1>4. CASE Finish BY <1>4 DEF Finish
<1>5. CASE Prepare BY <1>5 DEF Prepare
<1>6. CASE LoadConfig BY <1>6 DEF LoadConfig, Failed
<1>7. CASE Wizard BY <1>7 DEF Wizard
<1>8. CASE SaveConfig BY <1>8 DEF SaveConfig
<1>9. CASE StopService BY <1>9 DEF StopService
<1>10. CASE StopService_Done BY <1>10 DEF StopService_Done
<1>11. CASE StopService_TimesOut BY <1>11 DEF StopService_TimesOut, Failed
<1>12. CASE EnsureOpenSSH BY <1>12 DEF EnsureOpenSSH
<1>13. CASE VerifyOpenSSH BY <1>13 DEF VerifyOpenSSH
<1>14. CASE WriteManagedConfig BY <1>14 DEF WriteManagedConfig
<1>15. CASE WriteManagedConfig_Refuses BY <1>15 DEF WriteManagedConfig_Refuses, Failed
<1>16. CASE ValidateConfig BY <1>16 DEF ValidateConfig
<1>17. CASE Rollback BY <1>17 DEF Rollback, Failed
<1>18. CASE StartOpenSSH BY <1>18 DEF StartOpenSSH, Sshd_Starts, Failed
<1>19. CASE CheckBanner BY <1>19 DEF CheckBanner
<1>20. CASE InstallExecutable BY <1>20 DEF InstallExecutable, Failed
<1>21. CASE UpdateService BY <1>21 DEF UpdateService, Failed
<1>22. CASE UpdateService_Stopped BY <1>22 DEF UpdateService_Stopped, Failed
<1>23. CASE StartService BY <1>23 DEF StartService, Failed
<1>24. CASE SaveState BY <1>24 DEF SaveState
<1>25. CASE Uninstall_Stop BY <1>25 DEF Uninstall_Stop, Failed
<1>26. CASE Uninstall_Delete BY <1>26 DEF Uninstall_Delete, Failed
<1>27. CASE Uninstall_Remove BY <1>27 DEF Uninstall_Remove
<1>28. CASE Service_Persists
  <2>1. me.token <= issued' BY <1>28 DEF Service_Persists
  <2>2. CredentialInv' BY <1>28, <2>1 DEF Service_Persists
  <2>3. ConfigInv' BY <1>28 DEF Service_Persists
  <2>4. ServiceInv' BY <1>28 DEF Service_Persists
  <2> QED BY <2>2, <2>3, <2>4
<1>29. CASE Service_Stops BY <1>29 DEF Service_Stops
<1>30. CASE Service_Fails BY <1>30 DEF Service_Fails
<1>31. CASE Scm_Restarts BY <1>31 DEF Scm_Restarts
<1>32. CASE Close
  <2>1. me'.token = 0 BY <1>32 DEF Close
  <2>2. CredentialInv' BY <1>32, <2>1 DEF Close
  <2>3. ConfigInv' BY <1>32 DEF Close
  <2>4. ServiceInv' BY <1>32 DEF Close
  <2> QED BY <2>2, <2>3, <2>4
<1>33. CASE Reboot
  <2>1. me'.token = 0 BY <1>33 DEF Reboot
  <2>2. CredentialInv' BY <1>33, <2>1 DEF Reboot
  <2>3. ConfigInv' BY <1>33 DEF Reboot, Sshd_Starts
  <2>4. ServiceInv' BY <1>33 DEF Reboot
  <2> QED BY <2>2, <2>3, <2>4
<1>34. CASE UNCHANGED vars BY <1>34 DEF vars
<1>35. CASE WriteManagedConfig_Fails BY <1>35 DEF WriteManagedConfig_Fails, Failed
<1>36. CASE StartOpenSSH_Fails BY <1>36 DEF StartOpenSSH_Fails, Failed
<1> QED BY <1>1, <1>2, <1>3, <1>4, <1>5, <1>6, <1>7, <1>8, <1>9, <1>10, <1>11, <1>12,
           <1>13, <1>14, <1>15, <1>16, <1>17, <1>18, <1>19, <1>20, <1>21, <1>22,
           <1>23, <1>24, <1>25, <1>26, <1>27, <1>28, <1>29, <1>30, <1>31, <1>32,
           <1>33, <1>34, <1>35, <1>36 DEF Next

(* Types; the configuration that a rollback puts back is the one noted.    *)
LEMMA TypeInit == Init => TypeOK
<1> SUFFICES ASSUME Init PROVE TypeOK
  OBVIOUS
<1>1. \E b \in BOOLEAN : record = [byUs |-> b, managed |-> b] BY DEF Init
<1>2. record \in Records BY <1>1 DEF Records
<1>3. me \in Locals BY DEF Init, NoLocals, Locals, Records, Confs
<1>4. /\ scm \in BOOLEAN /\ seeded \in BOOLEAN /\ accepts \in BOOLEAN
      /\ raced \in BOOLEAN /\ torn \in BOOLEAN /\ unrecovered \in BOOLEAN
  BY DEF Init
<1>5. budget \in [ops : 0..MaxOps, failures : 0..MaxFailures, crashes : 0..MaxCrashes,
                 halts : 0..MaxHalts]
  BY WindowsAssumption DEF Init
<1> QED BY WindowsAssumption, <1>2, <1>3, <1>4, <1>5 DEF Init, TypeOK, Confs

(* A run notes what it found or did: one field at a time.                  *)
LEMMA NotesAreLocals ==
    ASSUME NEW r \in Locals
    PROVE  /\ [r EXCEPT !.running = TRUE] \in Locals
           /\ [r EXCEPT !.byUs = TRUE] \in Locals
           /\ [r EXCEPT !.managed = TRUE] \in Locals
<1>1. [r EXCEPT !.running = TRUE] \in Locals BY DEF Locals
<1>2. [r EXCEPT !.byUs = TRUE] \in Locals BY DEF Locals
<1>3. [r EXCEPT !.managed = TRUE] \in Locals BY DEF Locals
<1> QED BY <1>1, <1>2, <1>3

LEMMA TypeStep == TypeOK /\ IInv /\ [Next]_vars => TypeOK'
<1> SUFFICES ASSUME TypeOK, IInv, [Next]_vars PROVE TypeOK'
  OBVIOUS
<1> USE WindowsAssumption DEF TypeOK, CredentialInv, IInv, Confs, Locals, Records,
        NoLocals, servicevars, sshvars, history
<1>1. ASSUME NEW o \in {"install", "repair", "uninstall"}, Begin(o) PROVE TypeOK'
  <2>1. unrecovered' \in BOOLEAN BY <1>1 DEF Begin
  <2> QED BY <1>1, <2>1 DEF Begin
<1>2. CASE Step_Fails BY <1>2 DEF Step_Fails, Failed
<1>3. CASE Recover
  <2>1. scm' \in BOOLEAN /\ unrecovered' \in BOOLEAN BY <1>3 DEF Recover
  <2>2. budget' \in [ops : 0..MaxOps, failures : 0..MaxFailures, crashes : 0..MaxCrashes,
                     halts : 0..MaxHalts]
    BY <1>3 DEF Recover
  <2> QED BY <1>3, <2>1, <2>2 DEF Recover
<1>4. CASE Finish BY <1>4 DEF Finish
<1>5. CASE Prepare BY <1>5 DEF Prepare
<1>6. CASE LoadConfig
  <2>1. me' \in Locals BY <1>6 DEF LoadConfig, Failed
  <2>2. seeded' \in BOOLEAN BY <1>6 DEF LoadConfig, Failed
  <2> QED BY <1>6, <2>1, <2>2 DEF LoadConfig, Failed
<1>7. CASE Wizard
  <2>1. me' \in Locals BY <1>7 DEF Wizard
  <2>2. seeded' \in BOOLEAN BY <1>7 DEF Wizard
  <2> QED BY <1>7, <2>1, <2>2 DEF Wizard
<1>8. CASE SaveConfig BY <1>8 DEF SaveConfig
<1>9. CASE StopService
  <2>1. me' \in Locals
    <3>1. me' = me \/ me' = [me EXCEPT !.running = TRUE] BY <1>9 DEF StopService
    <3>2. me \in Locals OBVIOUS
    <3> HIDE DEF Locals, TypeOK, IInv
    <3> QED BY <3>1, <3>2, NotesAreLocals
  <2> QED BY <1>9, <2>1 DEF StopService
<1>10. CASE StopService_Done BY <1>10 DEF StopService_Done
<1>11. CASE StopService_TimesOut BY <1>11 DEF StopService_TimesOut, Failed
<1>12. CASE EnsureOpenSSH
  <2>1. CASE sshd = "absent"
    <3>1. me' \in Locals
      <4>1. me' = [me EXCEPT !.byUs = TRUE] BY <1>12, <2>1 DEF EnsureOpenSSH
      <4>2. me \in Locals OBVIOUS
      <4> HIDE DEF Locals, TypeOK, IInv
      <4> QED BY <4>1, <4>2, NotesAreLocals
    <3> QED BY <1>12, <2>1, <3>1 DEF EnsureOpenSSH
  <2>2. CASE sshd # "absent" BY <1>12, <2>2 DEF EnsureOpenSSH
  <2> QED BY <2>1, <2>2
<1>13. CASE VerifyOpenSSH BY <1>13 DEF VerifyOpenSSH
<1>14. CASE WriteManagedConfig BY <1>14 DEF WriteManagedConfig
<1>15. CASE WriteManagedConfig_Refuses BY <1>15 DEF WriteManagedConfig_Refuses, Failed
<1>16. CASE ValidateConfig
  <2>1. me' \in Locals
    <3>1. me' = [me EXCEPT !.managed = TRUE] BY <1>16 DEF ValidateConfig
    <3>2. me \in Locals OBVIOUS
    <3> HIDE DEF Locals, TypeOK, IInv
    <3> QED BY <3>1, <3>2, NotesAreLocals
  <2> QED BY <1>16, <2>1 DEF ValidateConfig
<1>17. CASE Rollback
  <2>1. conf' \in Confs BY <1>17 DEF Rollback, Failed
  <2>2. torn' \in BOOLEAN BY <1>17 DEF Rollback, Failed
  <2>3. budget' \in [ops : 0..MaxOps, failures : 0..MaxFailures, crashes : 0..MaxCrashes,
                     halts : 0..MaxHalts]
    BY <1>17 DEF Rollback, Failed
  <2> QED BY <1>17, <2>1, <2>2, <2>3 DEF Rollback, Failed
<1>18. CASE StartOpenSSH BY <1>18 DEF StartOpenSSH, Sshd_Starts, Failed
<1>19. CASE CheckBanner BY <1>19 DEF CheckBanner
<1>20. CASE InstallExecutable BY <1>20 DEF InstallExecutable, Failed
<1>21. CASE UpdateService BY <1>21 DEF UpdateService, Failed
<1>22. CASE UpdateService_Stopped BY <1>22 DEF UpdateService_Stopped, Failed
<1>23. CASE StartService
  <2>1. scm' \in BOOLEAN BY <1>23 DEF StartService, Failed
  <2> QED BY <1>23, <2>1 DEF StartService, Failed
<1>24. CASE SaveState BY <1>24 DEF SaveState
<1>25. CASE Uninstall_Stop
  <2>1. scm' \in BOOLEAN BY <1>25 DEF Uninstall_Stop, Failed
  <2> QED BY <1>25, <2>1 DEF Uninstall_Stop, Failed
<1>26. CASE Uninstall_Delete
  <2>1. scm' \in BOOLEAN BY <1>26 DEF Uninstall_Delete, Failed
  <2> QED BY <1>26, <2>1 DEF Uninstall_Delete, Failed
<1>27. CASE Uninstall_Remove BY <1>27 DEF Uninstall_Remove
<1>28. CASE Service_Persists BY <1>28 DEF Service_Persists
<1>29. CASE Service_Stops BY <1>29 DEF Service_Stops
<1>30. CASE Service_Fails BY <1>30 DEF Service_Fails
<1>31. CASE Scm_Restarts
  <2>1. scm' \in BOOLEAN BY <1>31 DEF Scm_Restarts
  <2> QED BY <1>31, <2>1 DEF Scm_Restarts
<1>32. CASE Close BY <1>32 DEF Close
<1>33. CASE Reboot
  <2>1. me' \in Locals BY <1>33 DEF Reboot, Sshd_Starts
  <2>2. scm' \in BOOLEAN /\ torn' \in BOOLEAN BY <1>33 DEF Reboot, Sshd_Starts
  <2>3. conf' \in Confs /\ loaded' \in Confs BY <1>33 DEF Reboot, Sshd_Starts
  <2>4. budget' \in [ops : 0..MaxOps, failures : 0..MaxFailures, crashes : 0..MaxCrashes,
                     halts : 0..MaxHalts]
    BY <1>33 DEF Reboot, Sshd_Starts
  <2> QED BY <1>33, <2>1, <2>2, <2>3, <2>4 DEF Reboot, Sshd_Starts
<1>34. CASE UNCHANGED vars BY <1>34 DEF vars
<1>35. CASE WriteManagedConfig_Fails BY <1>35 DEF WriteManagedConfig_Fails, Failed
<1>36. CASE StartOpenSSH_Fails BY <1>36 DEF StartOpenSSH_Fails, Failed
<1> QED BY <1>1, <1>2, <1>3, <1>4, <1>5, <1>6, <1>7, <1>8, <1>9, <1>10, <1>11, <1>12,
           <1>13, <1>14, <1>15, <1>16, <1>17, <1>18, <1>19, <1>20, <1>21, <1>22,
           <1>23, <1>24, <1>25, <1>26, <1>27, <1>28, <1>29, <1>30, <1>31, <1>32,
           <1>33, <1>34, <1>35, <1>36 DEF Next

LEMMA InductiveInvariant == Spec => [](TypeOK /\ IInv)
<1>1. Init => TypeOK /\ IInv BY TypeInit, IInvInit
<1>2. TypeOK /\ IInv /\ [Next]_vars => (TypeOK /\ IInv)' BY TypeStep, IInvStep
<1> QED BY <1>1, <1>2, PTL DEF Spec

(* Type correctness of the installer, the service and OpenSSH.             *)
THEOREM InstallTypeCorrect == Spec => []TypeOK
BY InductiveInvariant, PTL

(* Whichever step of an install or repair fails, and whatever Windows does *)
(* to the service meanwhile, a service that was running before runs again, *)
(* is about to be restarted, or the failure to start it was reported.      *)
THEOREM FailuresRestoreTheService == Spec => []FailureRestoresService
<1>1. TypeOK /\ IInv => FailureRestoresService
  BY DEF IInv, ServiceInv
<1> QED BY InductiveInvariant, <1>1, PTL

(* No failure, rollback, crash of the service or restart of the machine    *)
(* outside of the validation leaves a configuration that sshd refuses.     *)
THEOREM SshdConfigStaysUsable == Spec => []SshdConfigIsUsable
<1>1. TypeOK /\ IInv => SshdConfigIsUsable
  BY DEF IInv, ConfigInv, SshdConfigIsUsable
<1> QED BY InductiveInvariant, <1>1, PTL

(* No run of the installer, complete or interrupted, loses a credential    *)
(* but in the window between its load and its save.                        *)
THEOREM CredentialsAreKept == Spec => []CredentialKept
<1>1. TypeOK /\ IInv => CredentialKept
  BY DEF IInv, CredentialInv, CredentialKept
<1> QED BY InductiveInvariant, <1>1, PTL

===============================================================================
