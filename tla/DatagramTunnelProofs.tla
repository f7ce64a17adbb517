------------------------- MODULE DatagramTunnelProofs -------------------------
(*****************************************************************************)
(* Proofs about DatagramTunnel, for any sets of remote addresses and         *)
(* sessions, any number of data channels for each, and any scheduling.       *)
(*****************************************************************************)
EXTENDS DatagramTunnel, FiniteSetTheorems, TLAPS

(* A channel is a pair of a session and the number of the attempt.         *)
LEMMA ChannelFacts ==
    \A d \in Channels : d \in Sessions \X Nat /\ d[1] \in Sessions /\ d # None
BY DatagramAssumption DEF Channels

(* TypeOK is inductive by itself: every handler keeps its variables in     *)
(* their sets.                                                             *)
LEMMA TypeInit == Init => TypeOK
BY DatagramAssumption DEF Init, TypeOK, Timers

LEMMA TypeStep == TypeOK /\ [Next]_vars => TypeOK'
<1> SUFFICES ASSUME TypeOK, [Next]_vars PROVE TypeOK'
  OBVIOUS
<1> USE DatagramAssumption, ChannelFacts DEF TypeOK, Timers
<1>1. ASSUME NEW s \in Sessions, SessionStep(s)
      PROVE  TypeOK'
  <2>1. CASE \E r \in Remotes : Datagram_New(r, s) BY <2>1 DEF Datagram_New
  <2>2. CASE Datagram_Touch(s) BY <2>2 DEF Datagram_Touch, Rearmed
  <2>3. CASE Notify(s) BY <2>3 DEF Notify
  <2>4. CASE NotifyFails(s) BY <2>4 DEF NotifyFails, CloseBegin, StopTimers, Stopped
  <2>5. CASE CloseEnd(s)
    <3>1. sock' \in [Channels -> {"none", "open", "closed"}] BY <2>5 DEF CloseEnd
    <3>2. table' \in [Remotes -> Sessions \cup {None}] BY <2>5 DEF CloseEnd
    <3> QED BY <2>5, <3>1, <3>2 DEF CloseEnd
  <2>6. CASE AttachTimer_Expires(s) BY <2>6 DEF AttachTimer_Expires
  <2>7. CASE AttachTimer_Runs(s)
    BY <2>7 DEF AttachTimer_Runs, CloseBegin, StopTimers, Stopped
  <2>8. CASE IdleTimer_Expires(s) BY <2>8 DEF IdleTimer_Expires
  <2>9. CASE IdleTimer_Runs(s)
    BY <2>9 DEF IdleTimer_Runs, CloseBegin, StopTimers, Stopped
  <2>10. CASE Close_Victim(s) BY <2>10 DEF Close_Victim, CloseBegin, StopTimers, Stopped
  <2> QED BY <1>1, <2>1, <2>2, <2>3, <2>4, <2>5, <2>6, <2>7, <2>8, <2>9,
             <2>10 DEF SessionStep
<1>2. ASSUME NEW d \in Channels, ChannelStep(d)
      PROVE  TypeOK'
  <2>1. CASE Client_Attach(d) BY <2>1 DEF Client_Attach
  <2>2. CASE Attach_Find(d) BY <2>2 DEF Attach_Find
  <2>3. CASE Attach_Adopt(d)
    <3>1. CASE attached[d[1]] BY <2>3, <3>1 DEF Attach_Adopt
    <3>2. CASE ~attached[d[1]]
      <4>1. attached' \in [Sessions -> BOOLEAN] BY <2>3, <3>2 DEF Attach_Adopt
      <4>2. stream' \in [Sessions -> Channels \cup {None}] BY <2>3, <3>2 DEF Attach_Adopt
      <4>3. at' \in [Sessions -> Timers] BY <2>3, <3>2 DEF Attach_Adopt, Stopped
      <4> QED BY <2>3, <3>2, <4>1, <4>2, <4>3 DEF Attach_Adopt
    <3> QED BY <3>1, <3>2
  <2>4. CASE Attach_Start(d) BY <2>4 DEF Attach_Start
  <2>5. CASE Pipe_Ends(d)
    <3>1. /\ once' \in [Sessions -> {"open", "closing", "closed"}]
          /\ taken' \in [Sessions -> Channels \cup {None}]
      BY <2>5 DEF Pipe_Ends, CloseBegin
    <3>2. at' \in [Sessions -> Timers] /\ it' \in [Sessions -> Timers]
      BY <2>5 DEF Pipe_Ends, StopTimers, Stopped
    <3> QED BY <2>5, <3>1, <3>2 DEF Pipe_Ends
  <2> QED BY <1>2, <2>1, <2>2, <2>3, <2>4, <2>5 DEF ChannelStep
<1>3. CASE Close_Mark BY <1>3 DEF Close_Mark
<1>4. CASE Close_Drain BY <1>4 DEF Close_Drain
<1>5. CASE Close_Done BY <1>5 DEF Close_Done
<1>6. CASE UNCHANGED vars BY <1>6 DEF vars
<1> QED BY <1>1, <1>2, <1>3, <1>4, <1>5, <1>6 DEF Next

(* Type correctness of the UDP tunnel, its sessions and their data         *)
(* channels.                                                               *)
THEOREM DatagramTypeCorrect == Spec => []TypeOK
<1>1. TypeOK /\ [Next]_vars => TypeOK' BY TypeStep
<1> QED BY TypeInit, <1>1, PTL DEF Spec

-----------------------------------------------------------------------------
(* The inductive invariant.                                                *)

(* A session object that does not exist yet is untouched; whatever refers  *)
(* to a session refers to one that exists, and the table to one of the     *)
(* remote it was created for; a stream was opened for the session that     *)
(* holds it.                                                               *)
CreatedInv ==
    /\ \A s \in Sessions : remote[s] = None =>
          /\ once[s] = "open" /\ npc[s] = "none" /\ at[s] = "nil" /\ it[s] = "nil"
          /\ s \notin opens \cup victims
    /\ \A r \in Remotes : table[r] # None => remote[table[r]] = r
    /\ \A s \in Sessions : stream[s] # None => stream[s][1] = s
    /\ \A d \in Channels : apc[d] # "none" => d[1] \in opens

IInv == CreatedInv /\ OpenSessionIsTimed /\ OpenTunnelKnowsSessions

LEMMA IInvInit == Init => IInv
BY DatagramAssumption
   DEF Init, IInv, CreatedInv, Created, OpenSessionIsTimed, OpenTunnelKnowsSessions

(* A close concerns its own session only: the entry it deletes is its own, *)
(* and the stream whose idle timer starts belongs to the session that gets *)
(* it.                                                                     *)
LEMMA IInvStep == TypeOK /\ IInv /\ [Next]_vars => IInv'
<1> SUFFICES ASSUME TypeOK, IInv, [Next]_vars PROVE IInv'
  OBVIOUS
<1> USE DatagramAssumption, ChannelFacts DEF TypeOK, IInv, CreatedInv,
        OpenSessionIsTimed, OpenTunnelKnowsSessions, Timers, Created
<1>1. ASSUME NEW s \in Sessions, SessionStep(s)
      PROVE  IInv'
  <2>1. CASE \E r \in Remotes : Datagram_New(r, s) BY <2>1 DEF Datagram_New
  <2>2. CASE Datagram_Touch(s) BY <2>2 DEF Datagram_Touch, Rearmed
  <2>3. CASE Notify(s) BY <2>3 DEF Notify
  <2>4. CASE NotifyFails(s) BY <2>4 DEF NotifyFails, CloseBegin, StopTimers, Stopped
  <2>5. CASE CloseEnd(s) BY <2>5 DEF CloseEnd
  <2>6. CASE AttachTimer_Expires(s) BY <2>6 DEF AttachTimer_Expires
  <2>7. CASE AttachTimer_Runs(s)
    BY <2>7 DEF AttachTimer_Runs, CloseBegin, StopTimers, Stopped
  <2>8. CASE IdleTimer_Expires(s) BY <2>8 DEF IdleTimer_Expires
  <2>9. CASE IdleTimer_Runs(s)
    BY <2>9 DEF IdleTimer_Runs, CloseBegin, StopTimers, Stopped
  <2>10. CASE Close_Victim(s) BY <2>10 DEF Close_Victim, CloseBegin, StopTimers, Stopped
  <2> QED BY <1>1, <2>1, <2>2, <2>3, <2>4, <2>5, <2>6, <2>7, <2>8, <2>9,
             <2>10 DEF SessionStep
<1>2. ASSUME NEW d \in Channels, ChannelStep(d)
      PROVE  IInv'
  <2>1. CASE Client_Attach(d) BY <2>1 DEF Client_Attach
  <2>2. CASE Attach_Find(d) BY <2>2 DEF Attach_Find
  <2>3. CASE Attach_Adopt(d) BY <2>3 DEF Attach_Adopt, Stopped
  <2>4. CASE Attach_Start(d)
    <3>1. CreatedInv' BY <2>4 DEF Attach_Start
    <3>2. OpenTunnelKnowsSessions' BY <2>4 DEF Attach_Start
    <3>3. \A s \in Sessions : stream[s] # None /\ stream[s] # d =>
             apc'[stream[s]] = apc[stream[s]]
      BY <2>4 DEF Attach_Start
    <3>4. ASSUME NEW s \in Sessions PROVE it'[s] = IF s = d[1] THEN "armed" ELSE it[s]
      BY <2>4 DEF Attach_Start
    <3> QED BY <2>4, <3>1, <3>2, <3>3, <3>4 DEF Attach_Start
  <2>5. CASE Pipe_Ends(d) BY <2>5 DEF Pipe_Ends, CloseBegin, StopTimers, Stopped
  <2> QED BY <1>2, <2>1, <2>2, <2>3, <2>4, <2>5 DEF ChannelStep
<1>3. CASE Close_Mark BY <1>3 DEF Close_Mark
<1>4. CASE Close_Drain BY <1>4 DEF Close_Drain
<1>5. CASE Close_Done BY <1>5 DEF Close_Done
<1>6. CASE UNCHANGED vars BY <1>6 DEF vars
<1> QED BY <1>1, <1>2, <1>3, <1>4, <1>5, <1>6 DEF Next

LEMMA InductiveInvariant == Spec => [](TypeOK /\ IInv)
<1>1. Init => TypeOK /\ IInv BY TypeInit, IInvInit
<1>2. TypeOK /\ IInv /\ [Next]_vars => (TypeOK /\ IInv)' BY TypeStep, IInvStep
<1> QED BY <1>1, <1>2, PTL DEF Spec

(* No session is left without a timer: attach stops the attach timer only  *)
(* when the idle timer is about to start, whatever fires, touches or       *)
(* closes meanwhile.                                                       *)
THEOREM OpenSessionsAreTimed == Spec => []OpenSessionIsTimed
<1>1. TypeOK /\ IInv => OpenSessionIsTimed
  BY DEF IInv
<1> QED BY InductiveInvariant, <1>1, PTL

(* As long as the tunnel is open, the unconditional delete of              *)
(* session.close hits no newer session of the same remote address.         *)
THEOREM OpenTunnelsKnowTheirSessions == Spec => []OpenTunnelKnowsSessions
<1>1. TypeOK /\ IInv => OpenTunnelKnowsSessions
  BY DEF IInv
<1> QED BY InductiveInvariant, <1>1, PTL

-----------------------------------------------------------------------------
(* The count of sessions.                                                  *)

(* The sessions activeConnections has to count. Only finitely many         *)
(* sessions have been created, even of infinitely many.                    *)
Counted == {s \in Created : once[s] # "closed"}

CountInv == IsFiniteSet(Counted) /\ ActiveCountsSessions

(* A handler that neither creates a session nor ends a close counts        *)
(* nothing; the beginning of a close does neither.                         *)
LEMMA CountUnchanged ==
    ASSUME CountInv, UNCHANGED <<remote, active>>,
           \A t \in Sessions : once'[t] = "closed" <=> once[t] = "closed"
    PROVE  CountInv'
<1>1. Counted' = Counted BY DEF Counted, Created
<1> QED BY <1>1 DEF CountInv, ActiveCountsSessions, Counted

LEMMA CloseBeginCountsNothing ==
    ASSUME TypeOK, NEW s \in Sessions, CloseBegin(s)
    PROVE  \A t \in Sessions : once'[t] = "closed" <=> once[t] = "closed"
BY DEF TypeOK, CloseBegin

LEMMA CountInit == Init => CountInv
<1> SUFFICES ASSUME Init PROVE CountInv
  OBVIOUS
<1>1. Counted = {} BY DEF Init, Counted, Created
<1> QED BY <1>1, FS_EmptySet DEF Init, CountInv, ActiveCountsSessions, Counted

LEMMA CountStep == TypeOK /\ IInv /\ CountInv /\ [Next]_vars => CountInv'
<1> SUFFICES ASSUME TypeOK, IInv, CountInv, [Next]_vars PROVE CountInv'
  OBVIOUS
<1> USE ChannelFacts, CountUnchanged
<1>1. ASSUME NEW s \in Sessions, SessionStep(s)
      PROVE  CountInv'
  <2>1. CASE \E r \in Remotes : Datagram_New(r, s)
    <3>1. PICK r \in Remotes : Datagram_New(r, s) BY <2>1
    <3>2. s \notin Counted /\ Counted' = Counted \cup {s}
      BY <3>1, DatagramAssumption
         DEF Datagram_New, Counted, Created, TypeOK, IInv, CreatedInv
    <3>3. /\ IsFiniteSet(Counted')
          /\ Cardinality(Counted') = Cardinality(Counted) + 1
      BY <3>2, FS_AddElement DEF CountInv
    <3> QED BY <3>1, <3>3 DEF Datagram_New, CountInv, ActiveCountsSessions, Counted
  <2>2. CASE Datagram_Touch(s) BY <2>2 DEF Datagram_Touch
  <2>3. CASE Notify(s) BY <2>3 DEF Notify
  <2>4. CASE NotifyFails(s)
    BY <2>4, CloseBeginCountsNothing, CountUnchanged DEF NotifyFails
  <2>5. CASE CloseEnd(s)
    <3>1. s \in Counted /\ Counted' = Counted \ {s}
      BY <2>5 DEF CloseEnd, Counted, Created, TypeOK, IInv, CreatedInv
    <3>2. /\ IsFiniteSet(Counted')
          /\ Cardinality(Counted') = Cardinality(Counted) - 1
      BY <3>1, FS_RemoveElement DEF CountInv
    <3>3. Cardinality(Counted) \in Nat /\ Cardinality(Counted') \in Nat
      BY <3>2, FS_CardinalityType DEF CountInv
    <3>4. active = Cardinality(Counted) BY DEF CountInv, ActiveCountsSessions, Counted
    <3>5. active' = Cardinality(Counted') BY <2>5, <3>2, <3>3, <3>4 DEF CloseEnd
    <3> QED BY <3>2, <3>5 DEF CountInv, ActiveCountsSessions, Counted
  <2>6. CASE AttachTimer_Expires(s) BY <2>6 DEF AttachTimer_Expires
  <2>7. CASE AttachTimer_Runs(s)
    BY <2>7, CloseBeginCountsNothing, CountUnchanged DEF AttachTimer_Runs
  <2>8. CASE IdleTimer_Expires(s) BY <2>8 DEF IdleTimer_Expires
  <2>9. CASE IdleTimer_Runs(s)
    BY <2>9, CloseBeginCountsNothing, CountUnchanged DEF IdleTimer_Runs
  <2>10. CASE Close_Victim(s)
    BY <2>10, CloseBeginCountsNothing, CountUnchanged DEF Close_Victim
  <2> QED BY <1>1, <2>1, <2>2, <2>3, <2>4, <2>5, <2>6, <2>7, <2>8, <2>9,
             <2>10 DEF SessionStep
<1>2. ASSUME NEW d \in Channels, ChannelStep(d)
      PROVE  CountInv'
  <2>1. CASE Client_Attach(d) BY <2>1 DEF Client_Attach
  <2>2. CASE Attach_Find(d) BY <2>2 DEF Attach_Find
  <2>3. CASE Attach_Adopt(d) BY <2>3 DEF Attach_Adopt
  <2>4. CASE Attach_Start(d) BY <2>4 DEF Attach_Start
  <2>5. CASE Pipe_Ends(d)
    BY <2>5, CloseBeginCountsNothing, CountUnchanged DEF Pipe_Ends
  <2> QED BY <1>2, <2>1, <2>2, <2>3, <2>4, <2>5 DEF ChannelStep
<1>3. CASE Close_Mark BY <1>3 DEF Close_Mark
<1>4. CASE Close_Drain BY <1>4 DEF Close_Drain
<1>5. CASE Close_Done BY <1>5 DEF Close_Done
<1>6. CASE UNCHANGED vars BY <1>6 DEF vars
<1> QED BY <1>1, <1>2, <1>3, <1>4, <1>5, <1>6 DEF Next

(* activeConnections counts every session that is not closed exactly once: *)
(* a session is counted when it is put into the table and uncounted by the *)
(* one caller of close that closeOnce lets in, however many there are.     *)
THEOREM SessionsAreCountedOnce == Spec => []ActiveCountsSessions
<1>1. TypeOK /\ IInv /\ CountInv /\ [Next]_vars => CountInv' BY CountStep
<1>2. CountInv => ActiveCountsSessions BY DEF CountInv
<1> QED BY CountInit, InductiveInvariant, <1>1, <1>2, PTL DEF Spec

===============================================================================
