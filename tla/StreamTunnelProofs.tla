------------------------- MODULE StreamTunnelProofs -------------------------
(***************************************************************************)
(* Proofs about StreamTunnel, for any set of public connections, any       *)
(* number of attach attempts and reconnections, and any scheduling.        *)
(***************************************************************************)
EXTENDS StreamTunnel, FiniteSetTheorems, TLAPS

(* A channel is a pair of a connection and the number of the attempt.      *)
LEMMA ChannelFacts ==
    /\ \A d \in Channels : d[1] \in Conns /\ d[2] \in 1..MaxAttempts /\ d = <<d[1], d[2]>>
    /\ \A c \in Conns, k \in 1..MaxAttempts : <<c, k>> \in Channels /\ <<c, k>>[1] = c
BY DEF Channels

(* TypeOK is inductive by itself: every handler keeps its variables in their *)
(* sets, the attempt counter within MaxAttempts.                            *)
LEMMA TypeInit == Init => TypeOK
BY StreamAssumption DEF Init, TypeOK

LEMMA TypeStep == TypeOK /\ [Next]_vars => TypeOK'
<1> SUFFICES ASSUME TypeOK, [Next]_vars PROVE TypeOK'
  OBVIOUS
<1> USE StreamAssumption DEF TypeOK, svars, nvars, cvars
<1>1. ASSUME NEW c \in Conns, ConnStep(c) PROVE TypeOK'
  <2>1. CASE Accept(c) BY <2>1 DEF Accept
  <2>2. CASE Insert(c) BY <2>2 DEF Insert
  <2>3. CASE Notify(c) BY <2>3 DEF Notify
  <2>4. CASE NotifyFails(c)
    BY <2>4 DEF NotifyFails, FailPending, Stopped, EndSession
  <2>5. CASE Timer_Expires(c) BY <2>5 DEF Timer_Expires
  <2>6. CASE Timer_Runs(c) BY <2>6 DEF Timer_Runs
  <2>7. CASE Error_Arrives(c) BY <2>7 DEF Error_Arrives, FailPending, Stopped
  <2>8. CASE Close_Victim(c) BY <2>8 DEF Close_Victim, Stopped
  <2>9. CASE Client_Open(c) BY <2>9 DEF Client_Open
  <2>10. CASE Client_DialFails(c) BY <2>10 DEF Client_DialFails, Client_GivesUp
  <2>11. CASE Client_Dial(c) BY <2>11 DEF Client_Dial
  <2>12. CASE Client_Attach(c)
    <3>1. tries[c] + 1 \in 0..MaxAttempts BY <2>12 DEF Client_Attach
    <3> QED BY <2>12, <3>1 DEF Client_Attach
  <2>13. CASE Client_AttachFails(c)
    <3>1. tries[c] + 1 \in 0..MaxAttempts BY <2>13 DEF Client_AttachFails
    <3>2. tries' \in [Conns -> 0..MaxAttempts] BY <2>13, <3>1 DEF Client_AttachFails
    <3>3. chan' \in [Channels -> {"none", "sent", "checked", "relay", "closed"}]
      BY <2>13 DEF Client_AttachFails
    <3>4. /\ cl' \in [Conns -> {"idle", "dial", "attach", "relay", "done"}]
          /\ errs' \subseteq Conns
      BY <2>13 DEF Client_AttachFails, Client_GivesUp
    <3> QED BY <2>13, <3>2, <3>3, <3>4 DEF Client_AttachFails
  <2> QED
    BY <1>1, <2>1, <2>2, <2>3, <2>4, <2>5, <2>6, <2>7, <2>8, <2>9, <2>10, <2>11,
       <2>12, <2>13 DEF ConnStep
<1>2. ASSUME NEW d \in Channels, ChannelStep(d) PROVE TypeOK'
  <2>1. CASE Attach_Check(d) BY <2>1 DEF Attach_Check
  <2>2. CASE Attach_Take(d) BY <2>2, ChannelFacts DEF Attach_Take, Stopped
  <2>3. CASE Relay_End(d) BY <2>3, ChannelFacts DEF Relay_End
  <2> QED BY <1>2, <2>1, <2>2, <2>3 DEF ChannelStep
<1>3. ASSUME TunnelStep PROVE TypeOK'
  <2>1. CASE Close_Mark BY <2>1 DEF Close_Mark
  <2>2. CASE Close_Drain BY <2>2 DEF Close_Drain
  <2>3. CASE Close_Done BY <2>3 DEF Close_Done
  <2>4. CASE DeleteNode BY <2>4 DEF DeleteNode
  <2>5. CASE RotateCredential BY <2>5 DEF RotateCredential, EndSession
  <2>6. CASE SessionLost BY <2>6 DEF SessionLost, EndSession
  <2>7. CASE Reconnect BY <2>7 DEF Reconnect
  <2> QED
    BY <1>3, <2>1, <2>2, <2>3, <2>4, <2>5, <2>6, <2>7 DEF TunnelStep
<1>4. CASE UNCHANGED vars BY <1>4 DEF vars
<1> QED BY <1>1, <1>2, <1>3, <1>4 DEF Next

(* Type correctness of the TCP tunnel and its client.                      *)
THEOREM TypeCorrect == Spec => []TypeOK
<1>1. TypeOK /\ [Next]_vars => TypeOK' BY TypeStep
<1> QED BY TypeInit, <1>1, PTL DEF Spec

-----------------------------------------------------------------------------
(* Ownership of public connections.                                        *)

Owned == OneOwner /\ HandlerInv /\ CloseInv /\ ChannelInv

LEMMA OwnedInit == Init => Owned
BY ChannelFacts DEF Init, Owned, OneOwner, HandlerInv, CloseInv, ChannelInv, RelaysOf

(* Taking a connection out of the table to close it: whoever does so        *)
(* (timer, connection_error, offline node) leaves it without any owner.     *)
LEMMA FailPendingKeepsOwned ==
    ASSUME TypeOK, Owned, NEW c \in Conns, FailPending(c),
           hpc' \in [Conns -> {"idle", "insert", "notify", "done"}],
           \A b \in Conns : \/ hpc'[b] = hpc[b]
                             \/ (b = c /\ hpc[b] = "notify" /\ hpc'[b] = "done"),
           UNCHANGED <<victims, cpc, chan, tries>>
    PROVE  Owned'
BY DEF TypeOK, Owned, OneOwner, HandlerInv, CloseInv, ChannelInv, RelaysOf, FailPending

(* A new attempt of the client uses a channel the server has not seen, so   *)
(* no relay changes hands.                                                  *)
LEMMA AttemptKeepsRelays ==
    ASSUME TypeOK, Owned, NEW c \in Conns, tries[c] < MaxAttempts,
           NEW v \in {"sent", "closed"},
           chan' = [chan EXCEPT ![<<c, tries[c] + 1>>] = v]
    PROVE  \A b \in Conns : RelaysOf(b)' = RelaysOf(b)
<1> DEFINE e == <<c, tries[c] + 1>>
<1>1. e \in Channels /\ e[1] = c /\ e[2] = tries[c] + 1
  BY StreamAssumption DEF Channels, TypeOK
<1>2. chan[e] = "none"
  BY <1>1, ChannelFacts DEF Owned, ChannelInv, TypeOK
<1>3. \A d \in Channels : chan'[d] = IF d = e THEN v ELSE chan[d]
  BY <1>1 DEF TypeOK
<1>4. \A d \in Channels : (chan'[d] = "relay") <=> (chan[d] = "relay")
  BY <1>2, <1>3
<1> QED BY <1>4 DEF RelaysOf

LEMMA AttemptKeepsOwned ==
    ASSUME TypeOK, Owned, NEW c \in Conns, tries[c] < MaxAttempts,
           NEW v \in {"sent", "closed"},
           tries' = [tries EXCEPT ![c] = @ + 1],
           chan' = [chan EXCEPT ![<<c, tries[c] + 1>>] = v],
           UNCHANGED svars
    PROVE  Owned'
<1>1. <<c, tries[c] + 1>> \in Channels
  BY StreamAssumption DEF Channels, TypeOK
<1>2. ChannelInv'
  BY <1>1, ChannelFacts, StreamAssumption DEF Owned, ChannelInv, TypeOK
<1>3. \A b \in Conns : RelaysOf(b)' = RelaysOf(b) BY AttemptKeepsRelays
<1> QED BY <1>2, <1>3 DEF Owned, OneOwner, HandlerInv, CloseInv, svars

LEMMA OwnedStep == TypeOK /\ Owned /\ [Next]_vars => Owned'
<1> SUFFICES ASSUME TypeOK, Owned, [Next]_vars PROVE Owned'
  OBVIOUS
<1> USE StreamAssumption
    DEF TypeOK, Owned, OneOwner, HandlerInv, CloseInv, ChannelInv, RelaysOf,
        svars, nvars, cvars
<1>1. ASSUME NEW c \in Conns, ConnStep(c) PROVE Owned'
  <2>1. CASE Accept(c) BY <2>1 DEF Accept
  <2>2. CASE Insert(c) BY <2>2 DEF Insert
  <2>3. CASE Notify(c) BY <2>3 DEF Notify
  <2>4. CASE NotifyFails(c)
    BY <2>4, FailPendingKeepsOwned DEF NotifyFails
  <2>5. CASE Timer_Expires(c) BY <2>5 DEF Timer_Expires
  <2>6. CASE Timer_Runs(c) BY <2>6 DEF Timer_Runs
  <2>7. CASE Error_Arrives(c)
    <3>1. CASE cpc # "closed" BY <2>7, <3>1, FailPendingKeepsOwned DEF Error_Arrives
    <3>2. CASE cpc = "closed" BY <2>7, <3>2 DEF Error_Arrives
    <3> QED BY <3>1, <3>2
  <2>8. CASE Close_Victim(c) BY <2>8 DEF Close_Victim
  <2>9. CASE Client_Open(c) BY <2>9 DEF Client_Open
  <2>10. CASE Client_DialFails(c) BY <2>10 DEF Client_DialFails, Client_GivesUp
  <2>11. CASE Client_Dial(c) BY <2>11 DEF Client_Dial
  <2>12. CASE Client_Attach(c)
    BY <2>12, AttemptKeepsOwned DEF Client_Attach
  <2>13. CASE Client_AttachFails(c)
    <3>1. PICK v \in {"sent", "closed"} : chan' = [chan EXCEPT ![<<c, tries[c] + 1>>] = v]
      BY <2>13 DEF Client_AttachFails
    <3> QED BY <2>13, <3>1, AttemptKeepsOwned DEF Client_AttachFails
  <2> QED
    BY <1>1, <2>1, <2>2, <2>3, <2>4, <2>5, <2>6, <2>7, <2>8, <2>9, <2>10, <2>11,
       <2>12, <2>13 DEF ConnStep
<1>2. ASSUME NEW d \in Channels, ChannelStep(d) PROVE Owned'
  <2>1. CASE Attach_Check(d) BY <2>1 DEF Attach_Check
  <2>2. CASE Attach_Take(d) BY <2>2, ChannelFacts DEF Attach_Take
  <2>3. CASE Relay_End(d) BY <2>3, ChannelFacts DEF Relay_End
  <2> QED BY <1>2, <2>1, <2>2, <2>3 DEF ChannelStep
<1>3. ASSUME TunnelStep PROVE Owned'
  <2>1. CASE Close_Mark BY <2>1 DEF Close_Mark
  <2>2. CASE Close_Drain BY <2>2 DEF Close_Drain
  <2>3. CASE Close_Done BY <2>3 DEF Close_Done
  <2>4. CASE DeleteNode BY <2>4 DEF DeleteNode
  <2>5. CASE RotateCredential BY <2>5 DEF RotateCredential
  <2>6. CASE SessionLost BY <2>6 DEF SessionLost
  <2>7. CASE Reconnect BY <2>7 DEF Reconnect
  <2> QED
    BY <1>3, <2>1, <2>2, <2>3, <2>4, <2>5, <2>6, <2>7 DEF TunnelStep
<1>4. CASE UNCHANGED vars BY <1>4 DEF vars
<1> QED BY <1>1, <1>2, <1>3, <1>4 DEF Next

LEMMA InductiveInvariant == Spec => [](TypeOK /\ Owned)
<1>1. Init => TypeOK /\ Owned BY TypeInit, OwnedInit
<1>2. TypeOK /\ Owned /\ [Next]_vars => (TypeOK /\ Owned)' BY TypeStep, OwnedStep
<1> QED BY <1>1, <1>2, PTL DEF Spec

(* No public connection is leaked or handed out twice: attach, timer,       *)
(* connection_error, offline node and Tunnel.Close may race in any way.     *)
THEOREM ConnectionsHaveOneOwner == Spec => []OneOwner
<1>1. TypeOK /\ Owned => OneOwner BY DEF Owned
<1> QED BY InductiveInvariant, <1>1, PTL

(* A closed tunnel keeps no pending connection.                            *)
THEOREM CloseDrainsPending == Spec => []ClosedTunnelHasNoPending
<1>1. TypeOK /\ Owned => ClosedTunnelHasNoPending
  BY DEF Owned, CloseInv, ClosedTunnelHasNoPending
<1> QED BY InductiveInvariant, <1>1, PTL

-----------------------------------------------------------------------------
(* activeConnections.                                                      *)

Relays == {d \in Channels : chan[d] = "relay"}

(* A counter can only be compared with a finite set; the relays are one     *)
(* although Conns need not be, since each step adds one channel at most.    *)
CountInv == IsFiniteSet(Relays) /\ ActiveCountsRelays

LEMMA CountUnchanged ==
    ASSUME CountInv, UNCHANGED active,
           \A d \in Channels : chan'[d] = "relay" <=> chan[d] = "relay"
    PROVE  CountInv'
<1>1. Relays' = Relays BY DEF Relays
<1> QED BY <1>1 DEF CountInv, ActiveCountsRelays, Relays

LEMMA CountInit == Init => CountInv
<1> SUFFICES ASSUME Init PROVE CountInv
  OBVIOUS
<1>1. Relays = {} BY DEF Init, Relays
<1> QED BY <1>1, FS_EmptySet DEF Init, CountInv, ActiveCountsRelays, Relays

(* A new attempt of the client counts nothing.                             *)
LEMMA AttemptCountsNothing ==
    ASSUME TypeOK, Owned, CountInv, NEW c \in Conns, tries[c] < MaxAttempts,
           NEW v \in {"sent", "closed"},
           chan' = [chan EXCEPT ![<<c, tries[c] + 1>>] = v], UNCHANGED svars
    PROVE  CountInv'
<1>1. \A b \in Conns : RelaysOf(b)' = RelaysOf(b) BY AttemptKeepsRelays
<1>2. \A d \in Channels : chan'[d] = "relay" <=> chan[d] = "relay"
  BY <1>1, ChannelFacts DEF RelaysOf
<1> QED BY <1>2, CountUnchanged DEF svars

LEMMA CountStep == TypeOK /\ Owned /\ CountInv /\ [Next]_vars => CountInv'
<1> SUFFICES ASSUME TypeOK, Owned, CountInv, [Next]_vars PROVE CountInv'
  OBVIOUS
<1>0. ASSUME UNCHANGED <<active, chan>> PROVE CountInv' BY <1>0, CountUnchanged
<1>1. ASSUME NEW c \in Conns, ConnStep(c) PROVE CountInv'
  <2>1. CASE Client_Attach(c) BY <2>1, AttemptCountsNothing DEF Client_Attach
  <2>2. CASE Client_AttachFails(c)
    <3>1. PICK v \in {"sent", "closed"} : chan' = [chan EXCEPT ![<<c, tries[c] + 1>>] = v]
      BY <2>2 DEF Client_AttachFails
    <3> QED BY <2>2, <3>1, AttemptCountsNothing DEF Client_AttachFails
  <2>3. CASE ~(Client_Attach(c) \/ Client_AttachFails(c))
    <3>1. UNCHANGED <<active, chan>>
      BY <1>1, <2>3
      DEF ConnStep, Accept, Insert, Notify, NotifyFails, Timer_Expires, Timer_Runs,
          Error_Arrives, Close_Victim, Client_Open, Client_DialFails, Client_Dial, svars
    <3> QED BY <1>0, <3>1
  <2> QED BY <2>1, <2>2, <2>3
<1>2. ASSUME NEW d \in Channels, ChannelStep(d) PROVE CountInv'
  <2>1. CASE Attach_Check(d)
    BY <2>1, CountUnchanged DEF Attach_Check, TypeOK, svars
  <2>2. CASE Attach_Take(d) /\ d[1] \in pending
    <3>1. d \notin Relays /\ Relays' = Relays \cup {d}
      BY <2>2 DEF Attach_Take, Relays, TypeOK
    <3>2. /\ IsFiniteSet(Relays')
          /\ Cardinality(Relays') = Cardinality(Relays) + 1
      BY <3>1, FS_AddElement DEF CountInv
    <3>3. active' = active + 1 BY <2>2 DEF Attach_Take
    <3> QED BY <3>2, <3>3 DEF CountInv, ActiveCountsRelays, Relays
  <2>3. CASE Attach_Take(d) /\ d[1] \notin pending
    BY <2>3, CountUnchanged DEF Attach_Take, TypeOK
  <2>4. CASE Relay_End(d)
    <3>1. d \in Relays /\ Relays' = Relays \ {d}
      BY <2>4 DEF Relay_End, Relays, TypeOK
    <3>2. /\ IsFiniteSet(Relays')
          /\ Cardinality(Relays') = Cardinality(Relays) - 1
      BY <3>1, FS_RemoveElement DEF CountInv
    <3>3. Cardinality(Relays) \in Nat /\ Cardinality(Relays') \in Nat
      BY <3>2, FS_CardinalityType DEF CountInv
    <3>4. active = Cardinality(Relays) BY DEF CountInv, ActiveCountsRelays, Relays
    <3>5. active' = Cardinality(Relays') BY <2>4, <3>2, <3>3, <3>4 DEF Relay_End
    <3> QED BY <3>2, <3>5 DEF CountInv, ActiveCountsRelays, Relays
  <2> QED BY <1>2, <2>1, <2>2, <2>3, <2>4 DEF ChannelStep
<1>3. ASSUME TunnelStep PROVE CountInv'
  <2>1. UNCHANGED <<active, chan>>
    BY <1>3
    DEF TunnelStep, Close_Mark, Close_Drain, Close_Done, DeleteNode, RotateCredential,
        SessionLost, Reconnect, svars
  <2> QED BY <1>0, <2>1
<1>4. CASE UNCHANGED vars BY <1>0, <1>4 DEF vars, svars
<1> QED BY <1>1, <1>2, <1>3, <1>4 DEF Next

(* The counter the console shows: a relay that ends, in whatever race with  *)
(* Tunnel.Close or the end of the session, is counted down exactly once.    *)
THEOREM RelaysAreCountedOnce == Spec => []ActiveCountsRelays
<1>1. TypeOK /\ Owned /\ CountInv /\ [Next]_vars => CountInv' BY CountStep
<1>2. CountInv => ActiveCountsRelays BY DEF CountInv
<1> QED BY CountInit, InductiveInvariant, <1>1, <1>2, PTL DEF Spec

-----------------------------------------------------------------------------
(* The tunnel implements PublicConnection.                                 *)

LEMMA PromiseInit == Init => Promise!PInit
BY DEF Init, Promise!PInit, Status, RelayedOver, RelaysOf

(* Steps that touch no socket and no relay are invisible to the user.      *)
LEMMA Invisible ==
    ASSUME UNCHANGED pub, \A c \in Conns : RelaysOf(c)' = RelaysOf(c)
    PROVE  UNCHANGED <<Status, RelayedOver>>
BY DEF Status, RelayedOver

(* A socket that is closed ends its connection.                            *)
LEMMA ClosingEnds ==
    ASSUME TypeOK, NEW c \in Conns, pub[c] # "closed",
           pub' = [pub EXCEPT ![c] = "closed"],
           RelaysOf(c)' = {}, \A b \in Conns \ {c} : RelaysOf(b)' = RelaysOf(b)
    PROVE  Promise!End(c)
<1>1. Status[c] \in {"none", "waiting", "relayed"} BY DEF Status, TypeOK
<1>2. Status' = [Status EXCEPT ![c] = "over"] BY DEF Status, TypeOK
<1>3. RelayedOver' = [RelayedOver EXCEPT ![c] = None] BY DEF RelayedOver
<1> QED BY <1>1, <1>2, <1>3 DEF Promise!End

LEMMA FailPendingIsPromised ==
    ASSUME TypeOK, Owned, NEW c \in Conns, FailPending(c), UNCHANGED chan
    PROVE  Promise!End(c) \/ UNCHANGED <<Status, RelayedOver>>
<1>1. \A b \in Conns : RelaysOf(b)' = RelaysOf(b) BY DEF RelaysOf
<1>2. CASE c \in pending
  <2>1. pub[c] # "closed" /\ RelaysOf(c) = {} BY <1>2 DEF Owned, OneOwner
  <2> QED BY <1>1, <1>2, <2>1, ClosingEnds DEF FailPending
<1>3. CASE c \notin pending BY <1>1, <1>3, Invisible DEF FailPending
<1> QED BY <1>2, <1>3

LEMMA PromiseStep ==
    TypeOK /\ Owned /\ [Next]_vars => [Promise!PNext]_<<Status, RelayedOver>>
<1> SUFFICES ASSUME TypeOK, Owned, [Next]_vars
             PROVE  Promise!PNext \/ UNCHANGED <<Status, RelayedOver>>
  OBVIOUS
<1>1. ASSUME UNCHANGED chan PROVE \A b \in Conns : RelaysOf(b)' = RelaysOf(b)
  BY <1>1 DEF RelaysOf
<1>2. ASSUME NEW c \in Conns, Promise!Arrive(c) \/ Promise!End(c) PROVE Promise!PNext
  BY <1>2 DEF Promise!PNext
<1>3. ASSUME NEW c \in Conns, ConnStep(c)
      PROVE  Promise!PNext \/ UNCHANGED <<Status, RelayedOver>>
  <2>1. CASE Accept(c)
    <3>1. pub[c] = "idle" /\ RelaysOf(c) = {}
      BY <2>1 DEF Accept, Owned, OneOwner
    <3>2. \A b \in Conns : RelaysOf(b)' = RelaysOf(b) BY <2>1, <1>1 DEF Accept
    <3>3. CASE known
      <4>1. Status[c] = "none" BY <3>1 DEF Status
      <4>2. Status' = [Status EXCEPT ![c] = "waiting"]
        BY <2>1, <3>1, <3>2, <3>3 DEF Accept, Status, TypeOK
      <4>3. RelayedOver' = RelayedOver BY <3>2 DEF RelayedOver
      <4> QED BY <4>1, <4>2, <4>3, <1>2 DEF Promise!Arrive
    <3>4. CASE ~known
      <4>1. pub' = [pub EXCEPT ![c] = "closed"] BY <2>1, <3>4 DEF Accept
      <4> QED BY <4>1, <3>1, <3>2, ClosingEnds, <1>2
    <3> QED BY <3>3, <3>4
  <2>2. CASE Insert(c)
    <3>1. pub[c] = "open" /\ RelaysOf(c) = {} BY <2>2 DEF Insert, Owned, HandlerInv
    <3>2. \A b \in Conns : RelaysOf(b)' = RelaysOf(b) BY <2>2, <1>1 DEF Insert
    <3> QED BY <2>2, <3>1, <3>2, ClosingEnds, Invisible, <1>2 DEF Insert
  <2>3. CASE Notify(c) BY <2>3, <1>1, Invisible DEF Notify
  <2>4. CASE NotifyFails(c) BY <2>4, <1>2, FailPendingIsPromised DEF NotifyFails
  <2>5. CASE Timer_Expires(c) BY <2>5, <1>1, Invisible DEF Timer_Expires, cvars
  <2>6. CASE Timer_Runs(c)
    <3>1. \A b \in Conns : RelaysOf(b)' = RelaysOf(b) BY <2>6, <1>1 DEF Timer_Runs
    <3>2. CASE c \in pending
      <4>1. pub[c] # "closed" /\ RelaysOf(c) = {} BY <3>2 DEF Owned, OneOwner
      <4> QED BY <2>6, <3>1, <3>2, <4>1, ClosingEnds, <1>2 DEF Timer_Runs
    <3>3. CASE c \notin pending BY <2>6, <3>1, <3>3, Invisible DEF Timer_Runs
    <3> QED BY <3>2, <3>3
  <2>7. CASE Error_Arrives(c)
    <3>1. UNCHANGED chan BY <2>7 DEF Error_Arrives
    <3>2. CASE cpc # "closed"
      BY <2>7, <3>1, <3>2, <1>2, FailPendingIsPromised DEF Error_Arrives
    <3>3. CASE cpc = "closed" BY <2>7, <3>1, <3>3, <1>1, Invisible DEF Error_Arrives
    <3> QED BY <3>2, <3>3
  <2>8. CASE Close_Victim(c)
    <3>1. pub[c] # "closed" /\ RelaysOf(c) = {}
      BY <2>8 DEF Close_Victim, Owned, OneOwner
    <3>2. \A b \in Conns : RelaysOf(b)' = RelaysOf(b) BY <2>8, <1>1 DEF Close_Victim
    <3> QED BY <2>8, <3>1, <3>2, ClosingEnds, <1>2 DEF Close_Victim
  <2>9. CASE Client_Open(c) BY <2>9, <1>1, Invisible DEF Client_Open, svars
  <2>10. CASE Client_DialFails(c) BY <2>10, <1>1, Invisible DEF Client_DialFails, svars
  <2>11. CASE Client_Dial(c) BY <2>11, <1>1, Invisible DEF Client_Dial, svars
  <2>12. CASE Client_Attach(c)
    BY <2>12, AttemptKeepsRelays, Invisible DEF Client_Attach, svars
  <2>13. CASE Client_AttachFails(c)
    <3>1. PICK v \in {"sent", "closed"} : chan' = [chan EXCEPT ![<<c, tries[c] + 1>>] = v]
      BY <2>13 DEF Client_AttachFails
    <3> QED BY <2>13, <3>1, AttemptKeepsRelays, Invisible DEF Client_AttachFails, svars
  <2> QED
    BY <1>3, <2>1, <2>2, <2>3, <2>4, <2>5, <2>6, <2>7, <2>8, <2>9, <2>10, <2>11,
       <2>12, <2>13 DEF ConnStep
<1>4. ASSUME NEW d \in Channels, ChannelStep(d)
      PROVE  Promise!PNext \/ UNCHANGED <<Status, RelayedOver>>
  <2> DEFINE c == d[1]
  <2>0. c \in Conns BY ChannelFacts
  <2>1. CASE Attach_Check(d)
    <3>1. \A b \in Conns : RelaysOf(b)' = RelaysOf(b)
      BY <2>1 DEF Attach_Check, RelaysOf, TypeOK
    <3> QED BY <2>1, <3>1, Invisible DEF Attach_Check, svars
  <2>2. CASE Attach_Take(d) /\ c \in pending
    <3>1. pub[c] = "open" /\ RelaysOf(c) = {} BY <2>0, <2>2 DEF Owned, OneOwner
    <3>2. RelaysOf(c)' = {d}
      BY <2>0, <2>2, <3>1 DEF Attach_Take, RelaysOf, TypeOK
    <3>3. \A b \in Conns \ {c} : RelaysOf(b)' = RelaysOf(b)
      BY <2>0, <2>2 DEF Attach_Take, RelaysOf, TypeOK
    <3>4. UNCHANGED pub BY <2>2 DEF Attach_Take
    <3>5. Status[c] = "waiting" BY <2>0, <3>1 DEF Status
    <3>6. Status' = [Status EXCEPT ![c] = "relayed"]
      BY <2>0, <3>1, <3>2, <3>3, <3>4 DEF Status
    <3>7. AChannel({d}) = d BY DEF AChannel
    <3>8. RelayedOver' = [RelayedOver EXCEPT ![c] = d]
      BY <2>0, <3>2, <3>3, <3>7 DEF RelayedOver
    <3>9. Promise!Relay(c, d) BY <3>5, <3>6, <3>8 DEF Promise!Relay
    <3> QED BY <2>0, <3>9 DEF Promise!PNext
  <2>3. CASE Attach_Take(d) /\ c \notin pending
    <3>1. \A b \in Conns : RelaysOf(b)' = RelaysOf(b)
      BY <2>3 DEF Attach_Take, RelaysOf, TypeOK
    <3> QED BY <2>3, <3>1, Invisible DEF Attach_Take
  <2>4. CASE Relay_End(d)
    <3>1. d \in RelaysOf(c) BY <2>4 DEF Relay_End, RelaysOf
    <3>2. pub[c] # "closed" /\ RelaysOf(c) = {d}
      BY <2>0, <3>1 DEF Owned, OneOwner
    <3>3. \A b \in Conns : RelaysOf(b)' = RelaysOf(b) \ {d}
      BY <2>4 DEF Relay_End, RelaysOf, TypeOK
    <3>4. \A b \in Conns \ {c} : d \notin RelaysOf(b) BY DEF RelaysOf
    <3>5. RelaysOf(c)' = {} /\ \A b \in Conns \ {c} : RelaysOf(b)' = RelaysOf(b)
      BY <2>0, <3>2, <3>3, <3>4
    <3> QED BY <2>0, <2>4, <3>2, <3>5, ClosingEnds, <1>2 DEF Relay_End
  <2> QED BY <1>4, <2>1, <2>2, <2>3, <2>4 DEF ChannelStep
<1>5. ASSUME TunnelStep PROVE UNCHANGED <<Status, RelayedOver>>
  <2>1. UNCHANGED <<pub, chan>>
    BY <1>5 DEF TunnelStep, Close_Mark, Close_Drain, Close_Done, DeleteNode,
                RotateCredential, SessionLost, Reconnect, svars
  <2> QED BY <2>1, <1>1, Invisible
<1>6. CASE UNCHANGED vars BY <1>6, <1>1, Invisible DEF vars, svars
<1> QED BY <1>3, <1>4, <1>5, <1>6 DEF Next

(* The detailed tunnel is correct for its users: StreamTunnel implements    *)
(* PublicConnection under the mapping Status, RelayedOver.                  *)
THEOREM TunnelImplementsPromise == Spec => ImplementsPromise
<1>1. TypeOK /\ Owned /\ [Next]_vars => [Promise!PNext]_(Promise!pvars)
  BY PromiseStep DEF Promise!pvars
<1> QED
  BY PromiseInit, <1>1, InductiveInvariant, PTL DEF Spec, ImplementsPromise, Promise!PSpec

=============================================================================
