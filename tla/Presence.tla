-------------------------------- MODULE Presence --------------------------------
(***************************************************************************)
(* Who is online: the handlers of sockets/connection.handler.ts, the       *)
(* isOnline flag they write to the user document, and the online/offline   *)
(* events they broadcast.  Every device has a socket; each handler writes  *)
(* the flag, awaits the write and then broadcasts.                         *)
(***************************************************************************)
EXTENDS Integers, FiniteSets

CONSTANTS
    Users,
    Sockets,     \* connections clients may open; one is reused after it closed
    Owner,       \* Owner[k] is the user socket k authenticates as
    MaxFaults    \* bound: how many write errors and server crashes happen

ASSUME PresenceAssumption ==
    /\ Owner \in [Sockets -> Users]
    /\ MaxFaults \in Nat

VARIABLES
    connected,   \* sockets whose transport is open
    phase,       \* the connection handler of each socket
    write,       \* the updateOnlineStatus command of each socket's handler
    isOnline,    \* user.isOnline in the database
    shown,       \* the last online/offline event broadcast about each user
    disturbed,   \* history: something other than one clean session at a time
                 \* happened since the user's last lone connection, or the
                 \* account is new
    faults

vars == <<connected, phase, write, isOnline, shown, disturbed, faults>>

-----------------------------------------------------------------------------
\* closed: no handler; marking: awaiting updateOnlineStatus(true), the
\* disconnect listener is not registered yet; live: it is registered;
\* leaving: the listener awaits updateOnlineStatus(false).
Phase == {"closed", "marking", "live", "leaving"}
Write == {"none", "true", "false", "landed"}

TypeOK ==
    /\ connected \in SUBSET Sockets
    /\ phase \in [Sockets -> Phase]
    /\ write \in [Sockets -> Write]
    /\ isOnline \in [Users -> BOOLEAN]
    /\ shown \in [Users -> BOOLEAN]
    /\ disturbed \in [Users -> BOOLEAN]
    /\ faults \in 0 .. MaxFaults

\* No user has a socket.  The document of an account that was just created
\* says it is online all the same: login creates it with isOnline true.
Init ==
    /\ connected = {}
    /\ phase = [k \in Sockets |-> "closed"]
    /\ write = [k \in Sockets |-> "none"]
    /\ isOnline \in [Users -> BOOLEAN]
    /\ shown = [u \in Users |-> FALSE]
    /\ disturbed = isOnline
    /\ faults = 0

\* The server or the database still has something to do with socket k.
Busy(k) == k \in connected \/ phase[k] # "closed" \/ write[k] # "none"

BusySockets(u) == {k \in Sockets : Owner[k] = u /\ Busy(k)}

Disturb(u) == disturbed' = [disturbed EXCEPT ![u] = TRUE]

-----------------------------------------------------------------------------
\* Mutant: every handler writes true.
IssueTrue(k, w) == write' = [write EXCEPT ![k] = "true"]

\* Socket k's handler sends updateOnlineStatus(owner, w) and awaits it.
Issue(k, w) == write' = [write EXCEPT ![k] = w]

\* The handshake is accepted, the socket joins its user room and the handler
\* issues updateOnlineStatus(true).
Connect(k) ==
    /\ ~Busy(k)
    /\ connected' = connected \cup {k}
    /\ phase' = [phase EXCEPT ![k] = "marking"]
    /\ Issue(k, "true")
    /\ disturbed' = [disturbed EXCEPT ![Owner[k]] = BusySockets(Owner[k]) # {}]
    /\ UNCHANGED <<isOnline, shown, faults>>

\* The write is awaited: broadcast 'online' and register the listener, which
\* never fires if the transport closed in the meantime.
ResumeConnect(k) ==
    /\ phase[k] = "marking"
    /\ write[k] = "landed"
    /\ shown' = [shown EXCEPT ![Owner[k]] = TRUE]
    /\ phase' = [phase EXCEPT ![k] = IF k \in connected THEN "live" ELSE "closed"]
    /\ write' = [write EXCEPT ![k] = "none"]
    /\ UNCHANGED <<connected, isOnline, disturbed, faults>>

\* The transport closes with the listener registered: it issues
\* updateOnlineStatus(false), whatever other sockets the user has.
Disconnect(k) ==
    /\ k \in connected
    /\ phase[k] = "live"
    /\ connected' = connected \ {k}
    /\ phase' = [phase EXCEPT ![k] = "leaving"]
    /\ Issue(k, "false")
    /\ UNCHANGED <<isOnline, shown, disturbed, faults>>

\* The transport closes while no listener is registered: nobody notices.
DropUnheard(k) ==
    /\ k \in connected
    /\ phase[k] # "live"
    /\ connected' = connected \ {k}
    /\ Disturb(Owner[k])
    /\ UNCHANGED <<phase, write, isOnline, shown, faults>>

ResumeDisconnect(k) ==
    /\ phase[k] = "leaving"
    /\ write[k] = "landed"
    /\ shown' = [shown EXCEPT ![Owner[k]] = FALSE]
    /\ phase' = [phase EXCEPT ![k] = "closed"]
    /\ write' = [write EXCEPT ![k] = "none"]
    /\ UNCHANGED <<connected, isOnline, disturbed, faults>>

\* The database applies updateOnlineStatus.  Commands of different handlers
\* travel on different connections of the pool and land in any order.
UpdateOnlineStatus(k) ==
    /\ write[k] \in {"true", "false"}
    /\ isOnline' = [isOnline EXCEPT ![Owner[k]] = write[k] = "true"]
    /\ write' = [write EXCEPT ![k] = IF phase[k] = "closed" THEN "none" ELSE "landed"]
    /\ UNCHANGED <<connected, phase, shown, disturbed, faults>>

\* A command whose handler is gone turns out never to be applied.
LoseCommand(k) ==
    /\ write[k] # "none"
    /\ phase[k] = "closed"
    /\ write' = [write EXCEPT ![k] = "none"]
    /\ UNCHANGED <<connected, phase, isOnline, shown, disturbed, faults>>

Fault == faults < MaxFaults /\ faults' = faults + 1

\* updateOnlineStatus rejects and the handler, which has no catch, stops
\* there.  The rejection is unhandled: without Sentry it ends the process
\* (Crash), with it the server goes on.
UpdateFails(k) ==
    /\ Fault
    /\ phase[k] \in {"marking", "leaving"}
    /\ phase' = [phase EXCEPT ![k] = "closed"]
    /\ Disturb(Owner[k])
    /\ UNCHANGED <<connected, write, isOnline, shown>>

\* The process dies: every socket and handler is gone, commands on the wire
\* may still be applied, and startServer resets no flag.
Crash ==
    /\ Fault
    /\ connected' = {}
    /\ phase' = [k \in Sockets |-> "closed"]
    /\ disturbed' = [u \in Users |-> disturbed[u] \/ BusySockets(u) # {}]
    /\ UNCHANGED <<write, isOnline, shown>>

-----------------------------------------------------------------------------
Handle(k) == UpdateOnlineStatus(k) \/ ResumeConnect(k) \/ ResumeDisconnect(k)

Next ==
    \/ \E k \in Sockets :
          \/ Connect(k) \/ Disconnect(k) \/ DropUnheard(k)
          \/ Handle(k)
          \/ LoseCommand(k) \/ UpdateFails(k)
    \/ Crash

Spec == Init /\ [][Next]_vars

\* The server resumes its handlers and the commands they await are applied.
LiveSpec == Spec /\ \A k \in Sockets : WF_vars(Handle(k))

-----------------------------------------------------------------------------
(* Correctness. *)

LiveSockets(u) == {k \in connected : Owner[k] = u}

\* No handler of u is suspended and no command about u is on the wire.
Quiet(u) == \A k \in Sockets :
    Owner[k] = u => phase[k] \in {"closed", "live"} /\ write[k] = "none"

\* Presence heals: since a user last connected with no other socket around,
\* and unless a socket was dropped unheard, a write failed or the server died
\* after that, both the stored flag and the last event broadcast tell whether
\* the user is connected as soon as the handlers are quiet.
PresenceExact ==
    \A u \in Users : ~disturbed[u] /\ Quiet(u) =>
        /\ isOnline[u] <=> LiveSockets(u) # {}
        /\ shown[u] <=> LiveSockets(u) # {}

\* Every user whose sessions were undisturbed is, again and again, either
\* connected or stored and shown offline: a disconnect is always worked off.
OfflineEventually ==
    \A u \in Users :
        []<>(LiveSockets(u) # {} \/ disturbed[u] \/ ~(isOnline[u] \/ shown[u]))

-----------------------------------------------------------------------------
(* What the documentation says and several devices break. *)

\* A user with an established connection is online.
ConnectedIsOnline ==
    \A u \in Users : Quiet(u) /\ (\E k \in LiveSockets(u) : phase[k] = "live") => isOnline[u]
=============================================================================
