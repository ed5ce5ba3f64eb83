----------------------------- MODULE Presence_proofs -----------------------------
(***************************************************************************)
(* Theorems about Presence, for every set of users and sockets.            *)
(***************************************************************************)
EXTENDS Presence, TLAPS

\* Every variable keeps its type.
THEOREM TypeCorrect == Spec => []TypeOK
<1> USE PresenceAssumption DEF TypeOK, Phase, Write, Issue
<1>1. Init => TypeOK
  BY DEF Init
<1>2. TypeOK /\ [Next]_vars => TypeOK'
  <2> SUFFICES ASSUME TypeOK, [Next]_vars PROVE TypeOK'
    OBVIOUS
  <2>1. CASE UNCHANGED vars
    BY <2>1 DEF vars
  <2>2. ASSUME NEW k \in Sockets, Connect(k) \/ Disconnect(k) \/ DropUnheard(k) PROVE TypeOK'
    <3>1. CASE Connect(k)
      BY <3>1 DEF Connect
    <3>2. CASE Disconnect(k)
      BY <3>2 DEF Disconnect
    <3>3. CASE DropUnheard(k)
      BY <3>3 DEF DropUnheard, Disturb
    <3>4. QED BY <2>2, <3>1, <3>2, <3>3
  <2>3. ASSUME NEW k \in Sockets, Handle(k) PROVE TypeOK'
    <3>1. CASE UpdateOnlineStatus(k)
      BY <3>1 DEF UpdateOnlineStatus
    <3>2. CASE ResumeConnect(k)
      BY <3>2 DEF ResumeConnect
    <3>3. CASE ResumeDisconnect(k)
      BY <3>3 DEF ResumeDisconnect
    <3>4. QED BY <2>3, <3>1, <3>2, <3>3 DEF Handle
  <2>4. ASSUME NEW k \in Sockets, LoseCommand(k) \/ UpdateFails(k) PROVE TypeOK'
    <3>1. CASE LoseCommand(k)
      BY <3>1 DEF LoseCommand
    <3>2. CASE UpdateFails(k)
      BY <3>2 DEF UpdateFails, Fault, Disturb
    <3>3. QED BY <2>4, <3>1, <3>2
  <2>5. CASE Crash
    BY <2>5 DEF Crash, Fault
  <2>6. QED BY <2>1, <2>2, <2>3, <2>4, <2>5 DEF Next
<1>3. QED BY <1>1, <1>2, PTL DEF Spec

-----------------------------------------------------------------------------
(* The inductive invariant: an undisturbed user has at most one socket the  *)
(* server is busy with, and the flags say what that socket's handler has    *)
(* done so far.                                                             *)

SessionInv(u, k) ==
    /\ phase[k] = "closed" => k \notin connected /\ write[k] = "none"
    /\ phase[k] = "marking" =>
          /\ k \in connected /\ write[k] \in {"true", "landed"}
          /\ write[k] = "landed" => isOnline[u]
    /\ phase[k] = "live" => k \in connected /\ write[k] = "none" /\ isOnline[u] /\ shown[u]
    /\ phase[k] = "leaving" =>
          /\ k \notin connected /\ write[k] \in {"false", "landed"}
          /\ write[k] = "landed" => ~isOnline[u]

UserInv(u) ==
    /\ \A k \in BusySockets(u) : SessionInv(u, k)
    /\ \A j, k \in BusySockets(u) : j = k
    /\ BusySockets(u) = {} => ~isOnline[u] /\ ~shown[u]

IndInv == \A u \in Users : ~disturbed[u] => UserInv(u)

\* Every step of the presence handlers preserves the inductive invariant.
LEMMA InductiveStep ==
    ASSUME TypeOK, IndInv, [Next]_vars
    PROVE  IndInv'
<1> SUFFICES ASSUME NEW u \in Users, ~disturbed'[u] PROVE UserInv(u)'
  BY DEF IndInv
<1> USE PresenceAssumption DEF TypeOK, Phase, Write, Issue, UserInv, SessionInv, BusySockets, Busy
<1>1. CASE UNCHANGED vars
  BY <1>1 DEF vars, IndInv
<1>2. ASSUME NEW k \in Sockets, Owner[k] # u,
             Connect(k) \/ Disconnect(k) \/ DropUnheard(k) \/ Handle(k)
                \/ LoseCommand(k) \/ UpdateFails(k)
      PROVE  UserInv(u)'
  \* The step of another user's socket: nothing about u changes.
  <2>1. /\ disturbed'[u] = disturbed[u] /\ isOnline'[u] = isOnline[u] /\ shown'[u] = shown[u]
        /\ \A j \in Sockets : Owner[j] = u =>
              /\ phase'[j] = phase[j] /\ write'[j] = write[j]
              /\ j \in connected' <=> j \in connected
    BY <1>2 DEF Connect, Disconnect, DropUnheard, Handle, UpdateOnlineStatus, ResumeConnect,
       ResumeDisconnect, LoseCommand, UpdateFails, Disturb
  <2>2. BusySockets(u)' = BusySockets(u)
    BY <2>1
  <2>3. UserInv(u)
    BY <2>1 DEF IndInv
  <2>4. QED BY <2>1, <2>2, <2>3
<1>3. ASSUME NEW k \in Sockets, Owner[k] = u, Connect(k) PROVE UserInv(u)'
  <2>1. BusySockets(u) = {}
    BY <1>3 DEF Connect
  <2>2. BusySockets(u)' = {k}
    BY <1>3, <2>1 DEF Connect
  <2>3. SessionInv(u, k)'
    BY <1>3 DEF Connect
  <2>4. QED BY <2>2, <2>3
<1>4. ASSUME NEW k \in Sockets, Owner[k] = u, Handle(k) \/ Disconnect(k) \/ LoseCommand(k)
      PROVE  UserInv(u)'
  <2>1. UserInv(u) /\ BusySockets(u) = {k}
    BY <1>4 DEF IndInv, Handle, UpdateOnlineStatus, ResumeConnect, ResumeDisconnect,
       Disconnect, LoseCommand
  <2>2. \A j \in Sockets : Owner[j] = u /\ j # k => ~Busy(j)'
    BY <1>4, <2>1 DEF Handle, UpdateOnlineStatus, ResumeConnect, ResumeDisconnect,
       Disconnect, LoseCommand
  <2>3. k \in Sockets /\ SessionInv(u, k)
    BY <1>4, <2>1
  <2>4. Busy(k)' => SessionInv(u, k)'
    <3>1. CASE UpdateOnlineStatus(k)
      BY <1>4, <2>3, <3>1 DEF UpdateOnlineStatus
    <3>2. CASE ResumeConnect(k)
      BY <1>4, <2>3, <3>2 DEF ResumeConnect
    <3>3. CASE ResumeDisconnect(k)
      BY <1>4, <2>3, <3>3 DEF ResumeDisconnect
    <3>4. CASE Disconnect(k) \/ LoseCommand(k)
      BY <1>4, <2>3, <3>4 DEF Disconnect, LoseCommand
    <3>5. QED BY <1>4, <3>1, <3>2, <3>3, <3>4 DEF Handle
  <2>5. ~Busy(k)' => ~isOnline'[u] /\ ~shown'[u]
    BY <1>4, <2>1 DEF Handle, UpdateOnlineStatus, ResumeConnect, ResumeDisconnect,
       Disconnect, LoseCommand
  <2>6. BusySockets(u)' \subseteq {k}
    BY <2>2 DEF BusySockets
  <2>7. BusySockets(u)' = {} => ~isOnline'[u] /\ ~shown'[u]
    BY <1>4, <2>5 DEF BusySockets
  <2>8. \A j \in BusySockets(u)' : SessionInv(u, j)'
    BY <2>4, <2>6 DEF BusySockets
  <2>9. QED BY <2>6, <2>7, <2>8 DEF UserInv
<1>5. ASSUME NEW k \in Sockets, Owner[k] = u, DropUnheard(k) \/ UpdateFails(k) PROVE FALSE
  BY <1>5 DEF DropUnheard, UpdateFails, Disturb
<1>6. CASE Crash
  \* A crash that leaves u undisturbed found no socket of u busy.
  <2>1. ~disturbed[u] /\ BusySockets(u) = {}
    BY <1>6 DEF Crash
  <2>2. BusySockets(u)' = {}
    BY <1>6, <2>1 DEF Crash
  <2>3. QED BY <1>6, <2>1, <2>2 DEF Crash, IndInv
<1>7. QED BY <1>1, <1>2, <1>3, <1>4, <1>5, <1>6 DEF Next

\* The inductive invariant holds throughout.
THEOREM Inductive == Spec => []IndInv
<1>1. Init => IndInv
  BY DEF Init, IndInv, UserInv, BusySockets, Busy
<1>2. TypeOK /\ IndInv /\ [Next]_vars => IndInv'
  BY InductiveStep
<1>3. QED BY <1>1, <1>2, TypeCorrect, PTL DEF Spec

\* For any number of users and devices: a user whose last connection found no
\* other socket of theirs around, with no unheard drop, failed write or crash
\* since, is stored and shown exactly as connected or not.
THEOREM PresenceHeals == Spec => []PresenceExact
<1>1. TypeOK /\ IndInv => PresenceExact
  <2> SUFFICES ASSUME TypeOK, IndInv, NEW u \in Users, ~disturbed[u], Quiet(u)
               PROVE  /\ isOnline[u] <=> LiveSockets(u) # {}
                      /\ shown[u] <=> LiveSockets(u) # {}
    BY DEF PresenceExact
  <2> USE DEF TypeOK, IndInv, UserInv, SessionInv, BusySockets, Busy, Quiet, LiveSockets
  <2>1. CASE BusySockets(u) = {}
    BY <2>1
  <2>2. ASSUME NEW k \in BusySockets(u) PROVE k \in LiveSockets(u) /\ isOnline[u] /\ shown[u]
    BY <2>2
  <2>3. QED BY <2>1, <2>2
<1>2. QED BY <1>1, TypeCorrect, Inductive, PTL
=============================================================================
