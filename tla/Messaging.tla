------------------------------- MODULE Messaging -------------------------------
(***************************************************************************)
(* Sending messages in one chat: the chat document and its messages in     *)
(* MongoDB, the Socket.IO rooms the chat is announced through, and the     *)
(* send handlers, which run concurrently and interleave at every `await`.  *)
(*                                                                         *)
(* A send s is one call of MessageService.sendMessage.  It creates at most *)
(* one message, so s also names that message.                              *)
(***************************************************************************)
EXTENDS Integers, FiniteSets

CONSTANTS
    Users,       \* user accounts
    Sockets,     \* Socket.IO connections clients may open (devices)
    Owner,       \* Owner[k] is the user socket k authenticates as
    Sends,       \* the send requests clients may make; also message ids
    NoMessage,   \* an absent lastMessage
    NoUser,      \* the sender of a send nobody has made yet
    MaxFaults    \* bound: how many database errors and server crashes happen

ASSUME MessagingAssumption ==
    /\ Owner \in [Sockets -> Users]
    /\ IsFiniteSet(Sends)
    /\ NoMessage \notin Sends
    /\ NoUser \notin Users
    /\ MaxFaults \in Nat

VARIABLES
    chatExists,    \* the chat document is in the collection
    participants,  \* chat.participants
    lastMessage,   \* chat.lastMessage
    unreadCounts,  \* chat.unreadCounts
    messages,      \* the messages of the chat that are stored
    adrift,        \* sends whose insert is on the wire and whose handler is gone
    connected,     \* sockets connected, each in the room user_<owner>
    inChat,        \* sockets in the room chat_<chatId>
    inbox,         \* inbox[k]: messages emitted to socket k
    pc,            \* where the handler of each send stands
    sender, viaSocket, recipients,  \* locals of the handler of each send
    lastWrite,     \* the send's updateLastMessage command
    unreadWrite,   \* the send's incrementUnread command
    preceded,      \* history: the sends acknowledged when this one was accepted
    steady,        \* history: sockets connected ever since the send was accepted
    faults         \* database errors and crashes so far

chatVars == <<chatExists, participants, lastMessage, unreadCounts>>
roomVars == <<connected, inChat, inbox>>
sendVars == <<pc, sender, viaSocket, recipients, lastWrite, unreadWrite>>
vars == <<chatVars, messages, adrift, roomVars, sendVars, preceded, steady, faults>>

-----------------------------------------------------------------------------
(* Documents and handler states. *)

PC == {"idle", "creating", "recording", "broadcasting", "done", "failed", "lost"}

\* A handler that is suspended at an await.
Running == {"creating", "recording", "broadcasting"}

WriteState == {"none", "pending", "landed"}

TypeOK ==
    /\ chatExists \in BOOLEAN
    /\ participants \in SUBSET Users
    /\ lastMessage \in Sends \cup {NoMessage}
    /\ unreadCounts \in [Users -> Nat]
    /\ messages \in SUBSET Sends
    /\ adrift \in SUBSET Sends
    /\ connected \in SUBSET Sockets
    /\ inChat \in SUBSET Sockets
    /\ inbox \in [Sockets -> SUBSET Sends]
    /\ pc \in [Sends -> PC]
    /\ sender \in [Sends -> Users \cup {NoUser}]
    /\ viaSocket \in [Sends -> BOOLEAN]
    /\ recipients \in [Sends -> SUBSET Users]
    /\ lastWrite \in [Sends -> WriteState]
    /\ unreadWrite \in [Sends -> WriteState]
    /\ preceded \in [Sends -> SUBSET Sends]
    /\ steady \in [Sends -> SUBSET Sockets]
    /\ faults \in 0 .. MaxFaults

\* The chat is as createChat leaves it, or a client holds the id of a chat
\* that no longer exists.  No socket is connected and no send was made.
Init ==
    /\ chatExists \in BOOLEAN
    /\ participants \in SUBSET Users
    /\ lastMessage = NoMessage
    /\ unreadCounts = [u \in Users |-> 0]
    /\ messages = {}
    /\ adrift = {}
    /\ connected = {}
    /\ inChat = {}
    /\ inbox = [k \in Sockets |-> {}]
    /\ pc = [s \in Sends |-> "idle"]
    /\ sender = [s \in Sends |-> NoUser]
    /\ viaSocket = [s \in Sends |-> FALSE]
    /\ recipients = [s \in Sends |-> {}]
    /\ lastWrite = [s \in Sends |-> "none"]
    /\ unreadWrite = [s \in Sends |-> "none"]
    /\ preceded = [s \in Sends |-> {}]
    /\ steady = [s \in Sends |-> {}]
    /\ faults = 0

-----------------------------------------------------------------------------
(* Repository calls: one MongoDB command each, atomic on its document and   *)
(* without effect when findByIdAndUpdate matches no document.               *)

UpdateLastMessage(m) == lastMessage' = IF chatExists THEN m ELSE lastMessage

\* Mutant: $inc of every user's counter.
IncrementEveryone(R) == unreadCounts' = [u \in Users |-> unreadCounts[u] + 1]

IncrementUnread(R) ==
    unreadCounts' = IF chatExists
                    THEN [u \in Users |-> IF u \in R THEN unreadCounts[u] + 1
                                                     ELSE unreadCounts[u]]
                    ELSE unreadCounts

\* Mutant: the document is built but not saved.
BuildMessage(m) == UNCHANGED messages

CreateMessage(m) == messages' = messages \cup {m}

\* ChatService.getChatById succeeds: the chat is found and u takes part in it.
GetChatById(u) == chatExists /\ u \in participants

\* io.to(room).emit('receive_message', m) to the sockets K of the room.
EmitTo(K, m) ==
    inbox' = [k \in Sockets |-> IF k \in K THEN inbox[k] \cup {m} ELSE inbox[k]]

\* Mutant: only the devices that have the chat open are reached.
ChatRoomOf(U) == {k \in inChat : Owner[k] \in U}

\* The sockets in the rooms user_<u> of the users U.
UserRooms(U) == {k \in connected : Owner[k] \in U}

-----------------------------------------------------------------------------
(* Sockets and rooms. *)

Connect(k) ==
    /\ k \notin connected
    /\ connected' = connected \cup {k}
    /\ UNCHANGED <<chatVars, messages, adrift, inChat, inbox, sendVars, preceded, steady, faults>>

\* Socket.IO takes a disconnected socket out of every room.
Disconnect(k) ==
    /\ k \in connected
    /\ connected' = connected \ {k}
    /\ inChat' = inChat \ {k}
    /\ steady' = [s \in Sends |-> steady[s] \ {k}]
    /\ UNCHANGED <<chatVars, messages, adrift, inbox, sendVars, preceded, faults>>

JoinChat(k) ==
    /\ k \in connected
    /\ inChat' = inChat \cup {k}
    /\ UNCHANGED <<chatVars, messages, adrift, connected, inbox, sendVars, preceded, steady, faults>>

LeaveChat(k) ==
    /\ k \in inChat
    /\ inChat' = inChat \ {k}
    /\ UNCHANGED <<chatVars, messages, adrift, connected, inbox, sendVars, preceded, steady, faults>>

-----------------------------------------------------------------------------
(* The send handler, one action per await. *)

Fault == faults < MaxFaults /\ faults' = faults + 1

\* The call arrives over a socket or over REST and getChatById finds the
\* chat.  The recipients are taken from this copy of the document.
AcceptSend(s, u, sock) ==
    /\ pc[s] = "idle"
    /\ sock => UserRooms({u}) # {}
    /\ GetChatById(u)
    /\ pc' = [pc EXCEPT ![s] = "creating"]
    /\ sender' = [sender EXCEPT ![s] = u]
    /\ viaSocket' = [viaSocket EXCEPT ![s] = sock]
    /\ recipients' = [recipients EXCEPT ![s] = participants \ {u}]
    /\ preceded' = [preceded EXCEPT ![s] = {t \in Sends : pc[t] = "done"}]
    /\ steady' = [steady EXCEPT ![s] = connected]
    /\ UNCHANGED <<chatVars, messages, adrift, roomVars, lastWrite, unreadWrite, faults>>

\* getChatById throws CHAT_NOT_FOUND or FORBIDDEN.
RejectSend(s, u) ==
    /\ pc[s] = "idle"
    /\ ~GetChatById(u)
    /\ pc' = [pc EXCEPT ![s] = "failed"]
    /\ sender' = [sender EXCEPT ![s] = u]
    /\ UNCHANGED <<chatVars, messages, adrift, roomVars, viaSocket, recipients, lastWrite,
                   unreadWrite, preceded, steady, faults>>

\* createMessage resolves, and Promise.all issues both updates of the chat.
StoreMessage(s) ==
    /\ pc[s] = "creating"
    /\ CreateMessage(s)
    /\ pc' = [pc EXCEPT ![s] = "recording"]
    /\ lastWrite' = [lastWrite EXCEPT ![s] = "pending"]
    /\ unreadWrite' = [unreadWrite EXCEPT ![s] = "pending"]
    /\ UNCHANGED <<chatVars, adrift, roomVars, sender, viaSocket, recipients, preceded, steady,
                   faults>>

\* createMessage rejects.  The insert was refused, or it is on the wire and will
\* be applied all the same, and its reply or the populate after it was lost.
StoreFails(s) ==
    /\ Fault
    /\ pc[s] = "creating"
    /\ adrift' = adrift \cup {s}
    /\ pc' = [pc EXCEPT ![s] = "failed"]
    /\ UNCHANGED <<chatVars, messages, roomVars, sender, viaSocket, recipients, lastWrite,
                   unreadWrite, preceded, steady>>

\* The database applies a command the handler has issued.  The handler may
\* have failed or died since: an issued command is not recalled.
LandMessage(s) ==
    /\ s \in adrift
    /\ CreateMessage(s)
    /\ adrift' = adrift \ {s}
    /\ UNCHANGED <<chatVars, roomVars, sendVars, preceded, steady, faults>>

LandLastMessage(s) ==
    /\ lastWrite[s] = "pending"
    /\ UpdateLastMessage(s)
    /\ lastWrite' = [lastWrite EXCEPT ![s] = "landed"]
    /\ UNCHANGED <<chatExists, participants, unreadCounts, messages, adrift, roomVars, pc, sender,
                   viaSocket, recipients, unreadWrite, preceded, steady, faults>>

LandUnread(s) ==
    /\ unreadWrite[s] = "pending"
    /\ IncrementUnread(recipients[s])
    /\ unreadWrite' = [unreadWrite EXCEPT ![s] = "landed"]
    /\ UNCHANGED <<chatExists, participants, lastMessage, messages, adrift, roomVars, pc, sender,
                   viaSocket, recipients, lastWrite, preceded, steady, faults>>

\* One of the two updates reports an error, Promise.all rejects, and the
\* other one is left to land or not.
RecordFails(s) ==
    /\ Fault
    /\ pc[s] = "recording"
    /\ pc' = [pc EXCEPT ![s] = "failed"]
    /\ UNCHANGED <<chatVars, messages, adrift, roomVars, sender, viaSocket, recipients, lastWrite,
                   unreadWrite, preceded, steady>>

\* Mutant: updateLastMessage is not awaited.
RecordedUnread(s) == unreadWrite[s] = "landed"

\* Promise.all resolves when both updates were applied.
Recorded(s) == lastWrite[s] = "landed" /\ unreadWrite[s] = "landed"

\* Mutant: the controller never answers.
NoResponse(s) == FALSE

\* The REST controller answers 201; nothing is emitted to any socket.
FinishRest(s) ==
    /\ pc[s] = "recording"
    /\ Recorded(s)
    /\ ~viaSocket[s]
    /\ pc' = [pc EXCEPT ![s] = "done"]
    /\ UNCHANGED <<chatVars, messages, adrift, roomVars, sender, viaSocket, recipients, lastWrite,
                   unreadWrite, preceded, steady, faults>>

\* The socket handler emits to the chat room and reads the chat again.
Announce(s) ==
    /\ pc[s] = "recording"
    /\ Recorded(s)
    /\ viaSocket[s]
    /\ EmitTo(inChat, s)
    /\ pc' = [pc EXCEPT ![s] = "broadcasting"]
    /\ UNCHANGED <<chatVars, messages, adrift, connected, inChat, sender, viaSocket, recipients,
                   lastWrite, unreadWrite, preceded, steady, faults>>

\* The second read returns: emit to the room of every other participant it
\* names, then call the client's acknowledgement back.
Broadcast(s) ==
    /\ pc[s] = "broadcasting"
    /\ EmitTo(IF chatExists THEN UserRooms(participants \ {sender[s]}) ELSE {}, s)
    /\ pc' = [pc EXCEPT ![s] = "done"]
    /\ UNCHANGED <<chatVars, messages, adrift, connected, inChat, sender, viaSocket, recipients,
                   lastWrite, unreadWrite, preceded, steady, faults>>

\* The second read rejects: the message is out, and the client is told it failed.
BroadcastFails(s) ==
    /\ Fault
    /\ pc[s] = "broadcasting"
    /\ pc' = [pc EXCEPT ![s] = "failed"]
    /\ UNCHANGED <<chatVars, messages, adrift, roomVars, sender, viaSocket, recipients, lastWrite,
                   unreadWrite, preceded, steady>>

\* The server process dies and starts again: handlers and sockets are gone,
\* commands already issued may still be applied.
Crash ==
    /\ Fault
    /\ pc' = [s \in Sends |-> IF pc[s] \in Running THEN "lost" ELSE pc[s]]
    /\ connected' = {}
    /\ inChat' = {}
    /\ steady' = [s \in Sends |-> {}]
    /\ adrift' = adrift \cup {s \in Sends : pc[s] = "creating"}
    /\ UNCHANGED <<chatVars, messages, inbox, sender, viaSocket, recipients, lastWrite,
                   unreadWrite, preceded>>

-----------------------------------------------------------------------------
RoomStep(k) == Connect(k) \/ Disconnect(k) \/ JoinChat(k) \/ LeaveChat(k)

Request(s) ==
    \E u \in Users :
        \/ \E sock \in BOOLEAN : AcceptSend(s, u, sock)
        \/ RejectSend(s, u)

\* The steps the event loop and the database take on their own.
Handle(s) ==
    \/ StoreMessage(s) \/ StoreFails(s)
    \/ RecordFails(s) \/ FinishRest(s) \/ Announce(s)
    \/ Broadcast(s) \/ BroadcastFails(s)

Land(s) == LandMessage(s) \/ LandLastMessage(s) \/ LandUnread(s)

MessagingNext ==
    \/ \E k \in Sockets : RoomStep(k)
    \/ \E s \in Sends : Request(s) \/ Handle(s) \/ Land(s)
    \/ Crash

Next == MessagingNext

Spec == Init /\ [][Next]_vars

\* While the server is up it resumes every handler whose await has settled,
\* and the commands a live handler awaits are applied.
Fairness ==
    \A s \in Sends :
        /\ WF_vars(Handle(s))
        /\ WF_vars(pc[s] = "recording" /\ LandLastMessage(s))
        /\ WF_vars(pc[s] = "recording" /\ LandUnread(s))

LiveSpec == Spec /\ Fairness

-----------------------------------------------------------------------------
(* Correctness. *)

\* A message a client has been shown, or whose sender was told it was sent,
\* is in the collection, and the chat's last message and unread counters have
\* been updated for it: handleSendMessage emits and acknowledges only after
\* sendMessage has awaited all of its writes.
AnnouncedIsRecorded ==
    \A s \in Sends :
        (pc[s] = "done" \/ \E k \in Sockets : s \in inbox[k])
            => s \in messages /\ lastWrite[s] = "landed" /\ unreadWrite[s] = "landed"

\* chat.lastMessage never refers to a message that is not stored: concurrent
\* sends, failures and crashes leave no dangling reference.
LastMessageStored == chatExists /\ lastMessage # NoMessage => lastMessage \in messages

\* Sends that do not overlap keep their order: once a send is acknowledged,
\* the chat list never again shows a message that had been acknowledged before
\* that send began.  Only overlapping sends may land in either order.
LastMessageNoRegress ==
    \A s \in Sends : pc[s] = "done" /\ chatExists => lastMessage \notin preceded[s]

\* Messages user u was to be told about and whose senders got an answer.
AckedFor(u) == {s \in Sends : pc[s] = "done" /\ u \in recipients[s]}

\* Messages other users have stored.
StoredByOthers(u) == {s \in messages : sender[s] # u}

\* However many sends increment the counters at once and fail halfway, a
\* user's unread count covers every acknowledged message and never exceeds
\* the number of messages others have stored.
UnreadCountsBounded ==
    chatExists => \A u \in Users :
        /\ Cardinality(AckedFor(u)) <= unreadCounts[u]
        /\ unreadCounts[u] <= Cardinality(StoredByOthers(u))

\* A participant's socket that stayed connected from the moment a socket send
\* was accepted until it was acknowledged has received the message, whether or
\* not the client had joined the chat room: that is what the second emit, to
\* the participants' own rooms, is for.
SteadyRecipientsReceive ==
    \A s \in Sends, k \in Sockets :
        (/\ pc[s] = "done"
         /\ viaSocket[s]
         /\ chatExists
         /\ k \in steady[s]
         /\ Owner[k] \in participants \ {sender[s]})
            => s \in inbox[k]

\* The chat implements its abstract specification: the messages posted are
\* those in the collection, shown is what was emitted, and the answer is the
\* acknowledgement or the response of the handler.
AnswerOf(s) == CASE pc[s] = "done" -> "ok" [] pc[s] = "failed" -> "error" [] OTHER -> "none"

Log == INSTANCE ChatLog WITH
    posted <- messages, seen <- inbox, answer <- [s \in Sends |-> AnswerOf(s)]

\* A message is stored at most once and before anyone sees it, is never shown
\* after its sender was answered, and a send has one answer, "ok" only if its
\* message is stored; after an error or a crash the message may still come to be
\* stored.  sendMessage and handleSendMessage, with every failure and crash,
\* implement the chat log.
ImplementsChatLog == Log!LogSpec

\* Every send that was accepted is answered, with success or an error, unless
\* the server died while handling it.
SendsAreAnswered == []<>(\A s \in Sends : pc[s] \notin Running)
=============================================================================
