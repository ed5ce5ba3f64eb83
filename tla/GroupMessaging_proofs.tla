-------------------------- MODULE GroupMessaging_proofs --------------------------
(***************************************************************************)
(* Theorems about Messaging, for every set of users, sockets and sends and *)
(* every number of faults, and after them theorems about GroupMessaging,   *)
(* for every set of requests and number of other saves too.  What the      *)
(* handlers of a send do is known from the first part: in the chat of a    *)
(* group a step of theirs is a step of Messaging.  What is new there is    *)
(* that the chat comes into being, changes its members and goes with its   *)
(* messages under their hands.                                             *)
(***************************************************************************)
EXTENDS GroupMessaging, FiniteSetTheorems, TLAPS

(***************************************************************************)
(* The parts of the inductive invariant.                                   *)
(***************************************************************************)

\* Where a handler stands determines which updates it has issued, and a
\* message is emitted only once both of them have been applied.  An insert is
\* adrift when its handler has failed or died.
HandlerInv ==
    \A s \in Sends :
        /\ pc[s] = "idle" => recipients[s] = {}
        /\ pc[s] \in {"idle", "creating"} => lastWrite[s] = "none" /\ unreadWrite[s] = "none"
        /\ pc[s] \in {"broadcasting", "done"} => Recorded(s)
        /\ \A k \in Sockets : s \in inbox[k] => Recorded(s)
        /\ s \in adrift => pc[s] \in {"failed", "lost"}

\* The message is stored when the handler goes on to its updates, not before.
StoredInv ==
    \A s \in Sends :
        /\ pc[s] \in {"idle", "creating"} \/ s \in adrift => s \notin messages
        /\ pc[s] = "recording" => s \in messages
        /\ lastWrite[s] # "none" \/ unreadWrite[s] # "none" => s \in messages

SendInv == HandlerInv /\ StoredInv

\* lastMessage was set by an update that landed, and once the update of s has
\* landed no message acknowledged before s began can come back.
OrderInv ==
    /\ lastMessage # NoMessage => lastWrite[lastMessage] = "landed"
    /\ \A s \in Sends :
          /\ \A t \in preceded[s] : pc[t] = "done"
          /\ lastWrite[s] = "landed" /\ chatExists => lastMessage \notin preceded[s]

\* The sends whose increment of u's counter has been applied.
CountedFor(u) == {s \in Sends : unreadWrite[s] = "landed" /\ u \in recipients[s]}

\* No increment is lost or applied twice, and no user is counted for a
\* message of their own.
UnreadInv ==
    /\ \A s \in Sends : sender[s] \notin recipients[s]
    /\ chatExists => \A u \in Users : unreadCounts[u] = Cardinality(CountedFor(u))

SteadyInv == \A s \in Sends : steady[s] \subseteq connected

-----------------------------------------------------------------------------
(* Type correctness. *)

\* Every step keeps the types.
LEMMA TypeStep ==
    ASSUME TypeOK, [Next]_vars
    PROVE  TypeOK'
<1> USE MessagingAssumption DEF TypeOK, PC, WriteState
<1>1. CASE UNCHANGED vars
  BY <1>1 DEF vars, chatVars, roomVars, sendVars
<1>2. ASSUME NEW k \in Sockets, RoomStep(k) PROVE TypeOK'
  BY <1>2 DEF RoomStep, Connect, Disconnect, JoinChat, LeaveChat, vars, chatVars, roomVars, sendVars
<1>3. ASSUME NEW s \in Sends, Request(s) PROVE TypeOK'
  <2>1. CASE \E u \in Users, sock \in BOOLEAN : AcceptSend(s, u, sock)
    BY <2>1 DEF AcceptSend, chatVars, roomVars
  <2>2. CASE \E u \in Users : RejectSend(s, u)
    BY <2>2 DEF RejectSend, chatVars, roomVars
  <2>3. QED BY <1>3, <2>1, <2>2 DEF Request
<1>4. ASSUME NEW s \in Sends, Handle(s) PROVE TypeOK'
  <2>1. CASE StoreMessage(s) \/ StoreFails(s)
    BY <2>1 DEF StoreMessage, StoreFails, CreateMessage, Fault, chatVars, roomVars
  <2>2. CASE RecordFails(s) \/ FinishRest(s) \/ BroadcastFails(s)
    BY <2>2 DEF RecordFails, FinishRest, BroadcastFails, Fault, chatVars, roomVars
  <2>3. CASE Announce(s) \/ Broadcast(s)
    BY <2>3 DEF Announce, Broadcast, EmitTo, UserRooms, chatVars
  <2>4. QED BY <1>4, <2>1, <2>2, <2>3 DEF Handle
<1>5. ASSUME NEW s \in Sends, Land(s) PROVE TypeOK'
  BY <1>5 DEF Land, LandMessage, LandLastMessage, LandUnread, CreateMessage, UpdateLastMessage,
              IncrementUnread, chatVars, roomVars, sendVars
<1>6. CASE Crash
  BY <1>6 DEF Crash, Fault, Running, chatVars
<1>7. QED
  BY <1>1, <1>2, <1>3, <1>4, <1>5, <1>6 DEF Next, MessagingNext

\* Every variable keeps its type: the state of Spec is always a state of the
\* documents, rooms and handlers the code can be in.
THEOREM TypeCorrect == Spec => []TypeOK
<1>1. Init => TypeOK
  BY MessagingAssumption DEF Init, TypeOK, PC, WriteState
<1>2. QED BY <1>1, TypeStep, PTL DEF Spec

-----------------------------------------------------------------------------
(* The handlers' invariant. *)

\* Every step preserves what the handlers' states say of their updates and of
\* the messages emitted.
LEMMA HandlerStep ==
    ASSUME TypeOK, HandlerInv, [Next]_vars
    PROVE  HandlerInv'
<1> USE DEF HandlerInv, TypeOK, Recorded
<1>1. CASE UNCHANGED vars
  BY <1>1 DEF vars, chatVars, roomVars, sendVars
<1>2. ASSUME NEW k \in Sockets, RoomStep(k) PROVE HandlerInv'
  BY <1>2 DEF RoomStep, Connect, Disconnect, JoinChat, LeaveChat, vars, chatVars, roomVars, sendVars
<1>3. ASSUME NEW r \in Sends, Request(r) PROVE HandlerInv'
  BY <1>3 DEF Request, AcceptSend, RejectSend, chatVars, roomVars
<1>4. ASSUME NEW r \in Sends, Handle(r) PROVE HandlerInv'
  <2>1. CASE StoreMessage(r) \/ StoreFails(r)
    BY <2>1 DEF StoreMessage, StoreFails, CreateMessage, chatVars, roomVars
  <2>2. CASE RecordFails(r) \/ FinishRest(r) \/ BroadcastFails(r)
    BY <2>2 DEF RecordFails, FinishRest, BroadcastFails, chatVars, roomVars
  <2>3. CASE Announce(r) \/ Broadcast(r)
    BY <2>3 DEF Announce, Broadcast, EmitTo, chatVars
  <2>4. QED BY <1>4, <2>1, <2>2, <2>3 DEF Handle
<1>5. ASSUME NEW r \in Sends, Land(r) PROVE HandlerInv'
  BY <1>5 DEF Land, LandMessage, LandLastMessage, LandUnread, roomVars, sendVars
<1>6. CASE Crash
  BY <1>6 DEF Crash, Running, chatVars
<1>7. QED
  BY <1>1, <1>2, <1>3, <1>4, <1>5, <1>6 DEF Next, MessagingNext

\* Every step preserves what they say of the messages stored.
LEMMA StoredStep ==
    ASSUME TypeOK, HandlerInv, StoredInv, [Next]_vars
    PROVE  StoredInv'
<1> USE DEF HandlerInv, StoredInv, TypeOK, Recorded
<1>1. CASE UNCHANGED vars
  BY <1>1 DEF vars, chatVars, roomVars, sendVars
<1>2. ASSUME NEW k \in Sockets, RoomStep(k) PROVE StoredInv'
  BY <1>2 DEF RoomStep, Connect, Disconnect, JoinChat, LeaveChat, vars, chatVars, roomVars, sendVars
<1>3. ASSUME NEW r \in Sends, Request(r) PROVE StoredInv'
  BY <1>3 DEF Request, AcceptSend, RejectSend, chatVars, roomVars
<1>4. ASSUME NEW r \in Sends, Handle(r) PROVE StoredInv'
  <2>1. CASE StoreMessage(r) \/ StoreFails(r)
    BY <2>1 DEF StoreMessage, StoreFails, CreateMessage, chatVars, roomVars
  <2>2. CASE RecordFails(r) \/ FinishRest(r) \/ BroadcastFails(r)
    BY <2>2 DEF RecordFails, FinishRest, BroadcastFails, chatVars, roomVars
  <2>3. CASE Announce(r) \/ Broadcast(r)
    BY <2>3 DEF Announce, Broadcast, EmitTo, chatVars
  <2>4. QED BY <1>4, <2>1, <2>2, <2>3 DEF Handle
<1>5. ASSUME NEW r \in Sends, Land(r) PROVE StoredInv'
  BY <1>5 DEF Land, LandMessage, LandLastMessage, LandUnread, CreateMessage, roomVars, sendVars
<1>6. CASE Crash
  BY <1>6 DEF Crash, Running, chatVars
<1>7. QED
  BY <1>1, <1>2, <1>3, <1>4, <1>5, <1>6 DEF Next, MessagingNext

-----------------------------------------------------------------------------
(* The order of acknowledged sends. *)

\* Every step preserves the order of the sends that do not overlap.
LEMMA OrderStep ==
    ASSUME TypeOK, SendInv, OrderInv, [Next]_vars
    PROVE  OrderInv'
<1> USE MessagingAssumption DEF TypeOK, SendInv, HandlerInv, StoredInv, OrderInv, Recorded
<1>1. CASE UNCHANGED vars
  BY <1>1 DEF vars, chatVars, roomVars, sendVars
<1>2. ASSUME NEW k \in Sockets, RoomStep(k) PROVE OrderInv'
  BY <1>2 DEF RoomStep, Connect, Disconnect, JoinChat, LeaveChat, vars, chatVars, roomVars, sendVars
<1>3. ASSUME NEW r \in Sends, Request(r) PROVE OrderInv'
  BY <1>3 DEF Request, AcceptSend, RejectSend, chatVars, roomVars
<1>4. ASSUME NEW r \in Sends, Handle(r) PROVE OrderInv'
  BY <1>4 DEF Handle, StoreMessage, StoreFails, RecordFails, FinishRest, Announce, Broadcast,
     BroadcastFails, chatVars, roomVars
<1>5. ASSUME NEW r \in Sends, LandLastMessage(r) PROVE OrderInv'
  \* The update of r is pending, so r is not acknowledged, so no send has r
  \* among the sends acknowledged before it.
  <2>1. \A s \in Sends : r \notin preceded[s]
    BY <1>5 DEF LandLastMessage
  <2>2. QED BY <1>5, <2>1 DEF LandLastMessage, UpdateLastMessage, roomVars
<1>6. ASSUME NEW r \in Sends, LandUnread(r) PROVE OrderInv'
  BY <1>6 DEF LandUnread, roomVars
<1>7. CASE Crash
  BY <1>7 DEF Crash, Running, chatVars
<1>8. ASSUME NEW r \in Sends, LandMessage(r) PROVE OrderInv'
  BY <1>8 DEF LandMessage, chatVars, sendVars
<1>9. QED
  BY <1>1, <1>2, <1>3, <1>4, <1>5, <1>6, <1>7, <1>8 DEF Next, MessagingNext, Land

-----------------------------------------------------------------------------
(* The unread counters. *)

\* A step that leaves the counters, the landed increments and their
\* recipients alone leaves the invariant alone.
LEMMA UnreadFrame ==
    ASSUME TypeOK, UnreadInv,
           UNCHANGED <<chatExists, unreadCounts, unreadWrite, sender, recipients>>
    PROVE  UnreadInv'
<1>1. \A u \in Users : CountedFor(u)' = CountedFor(u)
  BY DEF CountedFor
<1>2. QED BY <1>1 DEF UnreadInv

\* Every step preserves the account of the counters: what a user's counter
\* holds is the number of increments applied for that user.
LEMMA UnreadStep ==
    ASSUME TypeOK, HandlerInv, UnreadInv, [Next]_vars
    PROVE  UnreadInv'
<1>1. CASE UNCHANGED vars
  BY <1>1, UnreadFrame DEF vars, chatVars, sendVars
<1>2. ASSUME NEW k \in Sockets, RoomStep(k) PROVE UnreadInv'
  BY <1>2, UnreadFrame DEF RoomStep, Connect, Disconnect, JoinChat, LeaveChat, chatVars, sendVars
<1>3. ASSUME NEW r \in Sends, Request(r) PROVE UnreadInv'
  <2>1. /\ unreadWrite[r] = "none"
        /\ UNCHANGED <<chatExists, unreadCounts, unreadWrite>>
        /\ \A s \in Sends : s # r => recipients'[s] = recipients[s] /\ sender'[s] = sender[s]
    BY <1>3 DEF Request, AcceptSend, RejectSend, TypeOK, HandlerInv, chatVars
  <2>2. \A u \in Users : CountedFor(u)' = CountedFor(u)
    BY <2>1 DEF CountedFor, TypeOK
  <2>3. sender'[r] \notin recipients'[r]
    <3>1. ASSUME NEW u \in Users, NEW sock \in BOOLEAN, AcceptSend(r, u, sock)
          PROVE  sender'[r] \notin recipients'[r]
      BY <3>1 DEF AcceptSend, TypeOK
    <3>2. ASSUME NEW u \in Users, RejectSend(r, u) PROVE sender'[r] \notin recipients'[r]
      BY <3>2 DEF RejectSend, TypeOK, HandlerInv
    <3>3. QED BY <1>3, <3>1, <3>2 DEF Request
  <2>4. QED BY <2>1, <2>2, <2>3 DEF UnreadInv
<1>4. ASSUME NEW r \in Sends, Handle(r) PROVE UnreadInv'
  <2>1. /\ UNCHANGED <<chatExists, unreadCounts, sender, recipients>>
        /\ \A s \in Sends : unreadWrite'[s] = "landed" <=> unreadWrite[s] = "landed"
    BY <1>4 DEF Handle, StoreMessage, StoreFails, RecordFails, FinishRest, Announce, Broadcast,
       BroadcastFails, chatVars, HandlerInv, TypeOK
  <2>2. \A u \in Users : CountedFor(u)' = CountedFor(u)
    BY <2>1 DEF CountedFor
  <2>3. QED BY <2>1, <2>2 DEF UnreadInv
<1>5. ASSUME NEW r \in Sends, LandLastMessage(r) PROVE UnreadInv'
  BY <1>5, UnreadFrame DEF LandLastMessage
<1>6. ASSUME NEW r \in Sends, LandUnread(r) PROVE UnreadInv'
  <2>1. /\ UNCHANGED <<chatExists, sender, recipients>>
        /\ r \in Sends /\ unreadWrite[r] = "pending"
        /\ unreadWrite' = [unreadWrite EXCEPT ![r] = "landed"]
        /\ chatExists => unreadCounts' = [u \in Users |-> IF u \in recipients[r]
                              THEN unreadCounts[u] + 1 ELSE unreadCounts[u]]
    BY <1>6 DEF LandUnread, IncrementUnread
  <2>2. ASSUME chatExists, NEW u \in Users
        PROVE  unreadCounts'[u] = Cardinality(CountedFor(u)')
    <3>1. IsFiniteSet(CountedFor(u)) /\ r \notin CountedFor(u)
      BY <2>1, MessagingAssumption, FS_Subset DEF CountedFor
    <3>2. CASE u \in recipients[r]
      <4>1. CountedFor(u)' = CountedFor(u) \cup {r}
        BY <2>1, <3>2 DEF CountedFor, TypeOK
      <4>2. Cardinality(CountedFor(u)') = Cardinality(CountedFor(u)) + 1
        BY <3>1, <4>1, FS_AddElement
      <4>3. QED BY <2>1, <2>2, <3>2, <4>2 DEF UnreadInv
    <3>3. CASE u \notin recipients[r]
      <4>1. CountedFor(u)' = CountedFor(u)
        BY <2>1, <3>3 DEF CountedFor, TypeOK
      <4>2. QED BY <2>1, <2>2, <3>3, <4>1 DEF UnreadInv
    <3>4. QED BY <3>2, <3>3
  <2>3. QED BY <2>1, <2>2 DEF UnreadInv
<1>7. CASE Crash
  BY <1>7, UnreadFrame DEF Crash, chatVars
<1>8. ASSUME NEW r \in Sends, LandMessage(r) PROVE UnreadInv'
  BY <1>8, UnreadFrame DEF LandMessage, chatVars, sendVars
<1>9. QED
  BY <1>1, <1>2, <1>3, <1>4, <1>5, <1>6, <1>7, <1>8 DEF Next, MessagingNext, Land

-----------------------------------------------------------------------------
(* Connected recipients. *)

\* A socket that counts as connected all along is connected.
LEMMA ConnectedStep ==
    ASSUME TypeOK, SteadyInv, [Next]_vars
    PROVE  SteadyInv'
<1> USE DEF TypeOK, SteadyInv
<1>1. CASE UNCHANGED vars
  BY <1>1 DEF vars, roomVars
<1>2. ASSUME NEW k \in Sockets, RoomStep(k) PROVE SteadyInv'
  BY <1>2 DEF RoomStep, Connect, Disconnect, JoinChat, LeaveChat
<1>3. ASSUME NEW r \in Sends, Request(r) PROVE SteadyInv'
  BY <1>3 DEF Request, AcceptSend, RejectSend, roomVars
<1>4. ASSUME NEW r \in Sends, Handle(r) \/ Land(r) PROVE SteadyInv'
  BY <1>4 DEF Handle, StoreMessage, StoreFails, RecordFails, FinishRest, Announce, Broadcast,
     BroadcastFails, Land, LandMessage, LandLastMessage, LandUnread, roomVars
<1>5. CASE Crash
  BY <1>5 DEF Crash
<1>6. QED
  BY <1>1, <1>2, <1>3, <1>4, <1>5 DEF Next, MessagingNext

\* Every step preserves what a connected recipient has received.
LEMMA SteadyStep ==
    ASSUME TypeOK, SteadyInv, SteadyRecipientsReceive, [Next]_vars
    PROVE  SteadyInv' /\ SteadyRecipientsReceive'
<1> USE DEF TypeOK, SteadyInv, SteadyRecipientsReceive
<1>1. CASE UNCHANGED vars
  BY <1>1 DEF vars, chatVars, roomVars, sendVars
<1>2. ASSUME NEW k \in Sockets, RoomStep(k) PROVE SteadyInv' /\ SteadyRecipientsReceive'
  BY <1>2 DEF RoomStep, Connect, Disconnect, JoinChat, LeaveChat, vars, chatVars, roomVars, sendVars
<1>3. ASSUME NEW r \in Sends, Request(r) PROVE SteadyInv' /\ SteadyRecipientsReceive'
  BY <1>3 DEF Request, AcceptSend, RejectSend, chatVars, roomVars
<1>4. ASSUME NEW r \in Sends, Handle(r) PROVE SteadyInv' /\ SteadyRecipientsReceive'
  <2>1. CASE StoreMessage(r) \/ StoreFails(r) \/ RecordFails(r) \/ FinishRest(r) \/ BroadcastFails(r)
    BY <2>1 DEF StoreMessage, StoreFails, RecordFails, FinishRest, BroadcastFails, chatVars, roomVars
  <2>2. CASE Announce(r) \/ Broadcast(r)
    BY <2>2 DEF Announce, Broadcast, EmitTo, UserRooms, chatVars
  <2>3. QED BY <1>4, <2>1, <2>2 DEF Handle
<1>5. ASSUME NEW r \in Sends, Land(r) PROVE SteadyInv' /\ SteadyRecipientsReceive'
  BY <1>5 DEF Land, LandMessage, LandLastMessage, LandUnread, chatVars, roomVars, sendVars
<1>6. CASE Crash
  BY <1>6 DEF Crash, chatVars
<1>7. QED
  BY <1>1, <1>2, <1>3, <1>4, <1>5, <1>6 DEF Next, MessagingNext

-----------------------------------------------------------------------------
(* The inductive invariant and what follows from it. *)

IndInv == SendInv /\ OrderInv /\ UnreadInv /\ SteadyInv /\ SteadyRecipientsReceive

\* The inductive invariant holds throughout.
THEOREM Inductive == Spec => []IndInv
<1>1. Init => IndInv
  <2> SUFFICES ASSUME Init PROVE IndInv
    OBVIOUS
  <2>1. SendInv /\ OrderInv /\ SteadyInv /\ SteadyRecipientsReceive
    BY DEF Init, SendInv, HandlerInv, StoredInv, OrderInv, SteadyInv, SteadyRecipientsReceive
  <2>2. \A u \in Users : CountedFor(u) = {}
    BY DEF Init, CountedFor
  <2>3. UnreadInv
    BY <2>2, FS_EmptySet DEF Init, UnreadInv
  <2>4. QED BY <2>1, <2>3 DEF IndInv
<1>2. TypeOK /\ IndInv /\ [Next]_vars => IndInv'
  BY HandlerStep, StoredStep, OrderStep, UnreadStep, SteadyStep DEF IndInv, SendInv
<1>3. QED BY <1>1, <1>2, TypeCorrect, PTL DEF Spec

\* Whatever the interleaving, the failures and the crashes, a message that was
\* emitted to a socket or acknowledged to its sender is stored and recorded in
\* the chat document.
THEOREM AnnouncedRecorded == Spec => []AnnouncedIsRecorded
<1>1. IndInv => AnnouncedIsRecorded
  BY DEF IndInv, SendInv, HandlerInv, StoredInv, AnnouncedIsRecorded, Recorded
<1>2. QED BY <1>1, Inductive, PTL

\* chat.lastMessage is never a dangling reference.
THEOREM LastMessageRefersToStored == Spec => []LastMessageStored
<1>1. TypeOK /\ IndInv => LastMessageStored
  BY DEF TypeOK, IndInv, SendInv, HandlerInv, StoredInv, OrderInv, LastMessageStored
<1>2. QED BY <1>1, TypeCorrect, Inductive, PTL

\* Sends that do not overlap never make chat.lastMessage go back.
THEOREM LastMessageKeepsOrder == Spec => []LastMessageNoRegress
<1>1. IndInv => LastMessageNoRegress
  BY DEF IndInv, SendInv, HandlerInv, StoredInv, OrderInv, Recorded, LastMessageNoRegress
<1>2. QED BY <1>1, Inductive, PTL

\* The unread counters cover every acknowledged message and never exceed the
\* number of messages others have stored: concurrent $inc commands neither
\* lose nor repeat an increment.
THEOREM UnreadCountsCorrect == Spec => []UnreadCountsBounded
<1>1. TypeOK /\ IndInv => UnreadCountsBounded
  <2> SUFFICES ASSUME TypeOK, IndInv, chatExists, NEW u \in Users
               PROVE  /\ Cardinality(AckedFor(u)) <= unreadCounts[u]
                      /\ unreadCounts[u] <= Cardinality(StoredByOthers(u))
    BY DEF UnreadCountsBounded
  <2>1. unreadCounts[u] = Cardinality(CountedFor(u))
    BY DEF IndInv, UnreadInv
  <2>2. AckedFor(u) \subseteq CountedFor(u)
    BY DEF IndInv, SendInv, HandlerInv, StoredInv, Recorded, AckedFor, CountedFor
  <2>3. CountedFor(u) \subseteq StoredByOthers(u)
    BY DEF IndInv, SendInv, HandlerInv, StoredInv, UnreadInv, CountedFor, StoredByOthers, TypeOK
  <2>4. StoredByOthers(u) \subseteq Sends
    BY DEF StoredByOthers, TypeOK
  <2>5. IsFiniteSet(CountedFor(u)) /\ IsFiniteSet(StoredByOthers(u))
    BY <2>3, <2>4, MessagingAssumption, FS_Subset
  <2>6. /\ Cardinality(AckedFor(u)) <= Cardinality(CountedFor(u))
        /\ Cardinality(CountedFor(u)) <= Cardinality(StoredByOthers(u))
    BY <2>2, <2>3, <2>5, FS_Subset
  <2>7. QED BY <2>1, <2>6
<1>2. QED BY <1>1, TypeCorrect, Inductive, PTL

\* Recipients that stay connected through a socket send receive its message.
THEOREM SteadyReceive == Spec => []SteadyRecipientsReceive
BY Inductive, PTL DEF IndInv

-----------------------------------------------------------------------------
(* Refinement. *)

\* Every behaviour of the send handlers, rooms and faults is one of the
\* abstract chat log: each step posts, shows, confirms or refuses one message,
\* or is invisible to clients.
THEOREM Refinement == Spec => ImplementsChatLog
<1>1. Init => Log!LogInit
  BY DEF Init, Log!LogInit, AnswerOf
<1>2. TypeOK /\ SendInv /\ [Next]_vars => [Log!LogNext]_(Log!logVars)
  <2> SUFFICES ASSUME TypeOK, SendInv, [Next]_vars
               PROVE  Log!LogNext \/ UNCHANGED Log!logVars
    OBVIOUS
  <2> USE DEF TypeOK, PC, Log!logVars
  <2>1. CASE UNCHANGED vars
    BY <2>1 DEF vars, chatVars, roomVars, sendVars, AnswerOf
  <2>2. ASSUME NEW k \in Sockets, RoomStep(k) PROVE UNCHANGED Log!logVars
    BY <2>2 DEF RoomStep, Connect, Disconnect, JoinChat, LeaveChat, roomVars, sendVars, AnswerOf
  <2>3. ASSUME NEW s \in Sends, NEW u \in Users, NEW sock \in BOOLEAN, AcceptSend(s, u, sock)
        PROVE  UNCHANGED Log!logVars
    BY <2>3 DEF AcceptSend, roomVars, AnswerOf
  <2>4. ASSUME NEW s \in Sends,
               pc[s] \in {"idle", "creating", "recording", "broadcasting"},
               pc' = [pc EXCEPT ![s] = "failed"],
               UNCHANGED <<messages, inbox>>
        PROVE  Log!LogNext
    BY <2>4 DEF AnswerOf, Log!LogNext, Log!Refuse
  <2>5. ASSUME NEW s \in Sends,
               (\E u \in Users : RejectSend(s, u)) \/ StoreFails(s) \/ RecordFails(s) \/ BroadcastFails(s)
        PROVE  Log!LogNext
    BY <2>4, <2>5 DEF RejectSend, StoreFails, RecordFails, BroadcastFails, roomVars
  <2>6. ASSUME NEW s \in Sends, StoreMessage(s) PROVE Log!LogNext
    BY <2>6 DEF StoreMessage, CreateMessage, SendInv, HandlerInv, StoredInv, roomVars, AnswerOf, Log!LogNext, Log!Post
  <2>7. ASSUME NEW s \in Sends, Announce(s) PROVE Log!LogNext
    <3>1. Log!ShowOn(s, inChat)
      BY <2>7 DEF Announce, EmitTo, Log!ShowOn
    <3>2. s \in messages /\ AnswerOf(s) = "none"
      BY <2>7 DEF Announce, SendInv, HandlerInv, StoredInv, AnswerOf
    <3>3. UNCHANGED <<messages, [r \in Sends |-> AnswerOf(r)]>>
      BY <2>7 DEF Announce, AnswerOf
    <3>4. QED BY <3>1, <3>2, <3>3 DEF Log!LogNext, Log!Show
  <2>8. ASSUME NEW s \in Sends, FinishRest(s) PROVE Log!LogNext
    <3>1. Log!ShowOn(s, {})
      BY <2>8 DEF FinishRest, roomVars, Log!ShowOn
    <3>2. s \in messages /\ AnswerOf(s) = "none"
      BY <2>8 DEF FinishRest, SendInv, HandlerInv, StoredInv, AnswerOf
    <3>3. /\ UNCHANGED messages
          /\ [r \in Sends |-> AnswerOf(r)]' = [[r \in Sends |-> AnswerOf(r)] EXCEPT ![s] = "ok"]
      BY <2>8 DEF FinishRest, AnswerOf
    <3>4. QED BY <3>1, <3>2, <3>3 DEF Log!LogNext, Log!Confirm
  <2>9. ASSUME NEW s \in Sends, Broadcast(s) PROVE Log!LogNext
    <3> DEFINE K == IF chatExists THEN UserRooms(participants \ {sender[s]}) ELSE {}
    <3>1. K \in SUBSET Sockets /\ Log!ShowOn(s, K)
      BY <2>9 DEF Broadcast, EmitTo, UserRooms, Log!ShowOn
    <3>2. s \in messages /\ AnswerOf(s) = "none"
      BY <2>9 DEF Broadcast, SendInv, HandlerInv, StoredInv, Recorded, AnswerOf
    <3>3. /\ UNCHANGED messages
          /\ [r \in Sends |-> AnswerOf(r)]' = [[r \in Sends |-> AnswerOf(r)] EXCEPT ![s] = "ok"]
      BY <2>9 DEF Broadcast, AnswerOf
    <3> HIDE DEF K
    <3>4. QED BY <3>1, <3>2, <3>3 DEF Log!LogNext, Log!Confirm
  <2>10. ASSUME NEW s \in Sends, Land(s) PROVE Log!LogNext \/ UNCHANGED Log!logVars
    <3>1. CASE LandLastMessage(s) \/ LandUnread(s)
      BY <3>1 DEF LandLastMessage, LandUnread, roomVars, AnswerOf
    <3>2. CASE LandMessage(s)
      <4>1. s \notin messages /\ AnswerOf(s) # "ok"
        BY <3>2 DEF LandMessage, SendInv, HandlerInv, StoredInv, AnswerOf
      <4>2. messages' = messages \cup {s} /\ UNCHANGED <<inbox, [r \in Sends |-> AnswerOf(r)]>>
        BY <3>2 DEF LandMessage, CreateMessage, roomVars, sendVars, AnswerOf
      <4>3. QED BY <4>1, <4>2 DEF Log!LogNext, Log!Post
    <3>3. QED BY <2>10, <3>1, <3>2 DEF Land
  <2>11. CASE Crash
    BY <2>11 DEF Crash, Running, AnswerOf
  <2>12. QED
    BY <2>1, <2>2, <2>3, <2>5, <2>6, <2>7, <2>8, <2>9, <2>10, <2>11
    DEF Next, MessagingNext, Request, Handle
<1>3. QED BY <1>1, <1>2, TypeCorrect, Inductive, PTL DEF Spec, IndInv, ImplementsChatLog, Log!LogSpec

(***************************************************************************)
(* GroupMessaging.                                                         *)
(***************************************************************************)

-----------------------------------------------------------------------------
(* The parts of the inductive invariant. *)

\* The requests on the group have the types of Groups.
OpTypeOK ==
    /\ v \in Nat
    /\ gpc \in [GroupOps -> GroupPC]
    /\ op \in [GroupOps -> Operation]
    /\ copy \in [GroupOps -> ChatCopy]

\* Nothing happens to a group nobody has created: its chat is not there, and
\* until the group is, no request on it has arrived or got anywhere.
CreationInv ==
    /\ creation = "none" =>
          /\ ~chatExists
          /\ \A s \in Sends : pc[s] = "idle"
          /\ \A u \in Users : unreadCounts[u] = 0
    /\ creation \in {"none", "chat"} => ~groupExists /\ \A r \in GroupOps : gpc[r] = "idle"
    /\ creation = "adrift" => ~groupExists /\ \A r \in GroupOps : gpc[r] \in {"idle", "failed"}

\* The group goes first, then its chat, then the messages; and only a purge
\* stands at the awaits of a purge.
PurgeInv ==
    \A r \in GroupOps :
        /\ gpc[r] \in {"reading", "saving", "demoting", "promoting"} => op[r].kind # "purge"
        /\ gpc[r] \in {"purgingGroup", "purgingChat", "purgingMessages"} => op[r].kind = "purge"
        /\ gpc[r] \in {"purgingChat", "purgingMessages"} => ~groupExists
        /\ gpc[r] = "purgingMessages" => ~chatExists
        /\ op[r].kind = "purge" /\ gpc[r] = "done" => ~groupExists /\ ~chatExists

\* A purge has ended, well or not.
Purged == \E r \in GroupOps : op[r].kind = "purge" /\ gpc[r] \in {"done", "failed"}

\* No purge has deleted the messages: they go after the chat.
Kept == chatExists \/ ~Purged

\* Until a purge deletes them, messages are stored as Messaging says.
KeptInv == Kept => StoredInv

\* Once the group is reported deleted, every message that is there, or still
\* on its way into the collection, was on its way during a purge.
RaceInv ==
    Deleted => \A s \in Sends : s \in messages \cup adrift \/ pc[s] = "creating" => s \in racing

\* Who has stayed since a send was accepted was among its recipients then.
StayInv ==
    \A s \in Sends :
        pc[s] \in Running \cup {"done"} => stayed[s] \ {sender[s]} \subseteq recipients[s]

GroupMessagingTypeOK == TypeOK /\ OpTypeOK

OpInv == CreationInv /\ PurgeInv

GroupIndInv ==
    /\ OpInv
    /\ HandlerInv /\ KeptInv /\ UnreadInv /\ SteadyInv
    /\ RaceInv /\ StayInv /\ SteadyMembersReceive

-----------------------------------------------------------------------------
(* Types. *)

\* A handler that proceeds keeps the types of the requests.
LEMMA ProceedType ==
    ASSUME OpTypeOK, NEW r \in GroupOps, NEW next \in GroupPC, Proceed(r, next)
    PROVE  /\ gpc' \in [GroupOps -> GroupPC]
           /\ copy' \in [GroupOps -> ChatCopy]
           /\ op' = op
<1>1. NoCopy \in ChatCopy
  BY DEF NoCopy, ChatCopy
<1>2. QED BY <1>1 DEF OpTypeOK, Proceed, GroupPC

\* The types are kept by a step of the group, which sets the participants of
\* the chat to a set of users and counts its faults like the sends do.
LEMMA GroupStepType ==
    ASSUME TypeOK, OpTypeOK, GroupStep
    PROVE  /\ OpTypeOK'
           /\ chatExists' \in BOOLEAN
           /\ participants' \in SUBSET Users
           /\ faults' \in 0 .. MaxFaults
<1> DEFINE Goal ==
        /\ OpTypeOK'
        /\ chatExists' \in BOOLEAN
        /\ participants' \in SUBSET Users
        /\ faults' \in 0 .. MaxFaults
<1>0. /\ chatExists \in BOOLEAN /\ participants \in SUBSET Users
      /\ faults \in 0 .. MaxFaults /\ MaxFaults \in Nat
      /\ Fails => faults' \in 0 .. MaxFaults
  BY MessagingAssumption DEF TypeOK, Fails
<1> USE <1>0 DEF OpTypeOK
<1>1. CASE Create
  BY <1>1 DEF Create, CreateChat, CreateGroup, CreateFails, chatDoc, opVars
<1>2. ASSUME NEW r \in GroupOps, GroupRequest(r) PROVE Goal
  <2>1. {"reading", "promoting", "purgingGroup", "failed"} \subseteq GroupPC
    BY DEF GroupPC, Reading, Writing
  <2>2. \A k \in {"add", "remove", "promote", "purge"}, W \in SUBSET Users :
           [kind |-> k, who |-> W] \in Operation
    BY DEF Operation, Kinds
  <2> USE <2>1, <2>2 DEF Begin, chatDoc
  <2>3. ASSUME NEW u \in Users, NEW M \in SUBSET Users, AddMembers(r, u, M) PROVE Goal
    BY <2>3 DEF AddMembers
  <2>4. ASSUME NEW u \in Users, NEW t \in Users, RemoveMember(r, u, t) PROVE Goal
    BY <2>4 DEF RemoveMember
  <2>5. ASSUME NEW u \in Users, NEW t \in Users, PromoteAdmin(r, u, t) PROVE Goal
    BY <2>5 DEF PromoteAdmin
  <2>6. CASE AdminDeleteGroup(r)
    BY <2>6 DEF AdminDeleteGroup, PurgeStart
  <2>7. QED BY <1>2, <2>3, <2>4, <2>5, <2>6 DEF GroupRequest
<1>3. ASSUME NEW r \in GroupOps, ReadChat(r) PROVE Goal
  <2>1. [p |-> participants, v |-> v] \in ChatCopy /\ {"saving", "done", "demoting"} \subseteq GroupPC
    BY DEF ChatCopy, GroupPC, Writing
  <2>2. CASE chatExists
    BY <1>3, <2>1, <2>2 DEF ReadChat, chatDoc
  <2>3. CASE ~chatExists
    BY <1>3, <2>1, <2>3, ProceedType DEF ReadChat, chatDoc
  <2>4. QED BY <2>2, <2>3
<1>4. ASSUME NEW r \in GroupOps, SaveChat(r) PROVE Goal
  <2>1. {AfterSave(r), "failed"} \subseteq GroupPC
    BY DEF AfterSave, GroupPC, Writing
  <2>2. Changed(r) \in SUBSET Users
    BY DEF Changed, Operation, ChatCopy
  <2>3. \E next \in GroupPC : Proceed(r, next)
    BY <1>4, <2>1 DEF SaveChat
  <2>4. QED BY <1>4, <2>2, <2>3, ProceedType DEF SaveChat, chatDoc
<1>5. ASSUME NEW r \in GroupOps, RemoveAdmin(r) \/ AddAdmin(r) PROVE Goal
  <2>1. "done" \in GroupPC
    BY DEF GroupPC
  <2>2. QED BY <1>5, <2>1, ProceedType DEF RemoveAdmin, AddAdmin, chatDoc
<1>6. ASSUME NEW r \in GroupOps, Dissolve(r) PROVE Goal
  <2>1. AfterPurge(r) \in GroupPC
    BY DEF AfterPurge, GroupPC, Writing
  <2>2. QED BY <1>6, <2>1, ProceedType DEF Dissolve, DeleteGroup, DeleteChat, chatDoc
<1>7. ASSUME NEW r \in GroupOps, OpFails(r) PROVE Goal
  BY <1>7 DEF OpFails, GroupPC, chatDoc
<1>8. CASE OtherSave
  BY <1>8 DEF OtherSave, opVars
<1>9. QED
  BY <1>1, <1>2, <1>3, <1>4, <1>5, <1>6, <1>7, <1>8 DEF GroupStep, ChangeMembers

\* What the messages' side of a group step leaves alone is typed as before.
LEMMA TypeFrame ==
    ASSUME TypeOK, messagingOnly' = messagingOnly,
           chatExists' \in BOOLEAN, participants' \in SUBSET Users, faults' \in 0 .. MaxFaults
    PROVE  TypeOK'
BY DEF TypeOK, messagingOnly, roomVars, sendVars

\* Steps of the sends, the sockets and of both together are steps of Messaging.
LEMMA MessagingSimulates ==
    /\ MessagingStep => [Next]_vars
    /\ Crash => [Next]_vars
BY DEF MessagingStep, Next, MessagingNext

\* Every step keeps the types.
LEMMA GroupMessagingTypeStep ==
    ASSUME GroupMessagingTypeOK, [GroupMessagingNext]_allVars
    PROVE  GroupMessagingTypeOK'
<1> USE DEF GroupMessagingTypeOK
<1>1. CASE UNCHANGED allVars
  <2>1. TypeOK'
    BY <1>1, TypeStep DEF allVars
  <2>2. OpTypeOK'
    BY <1>1 DEF allVars, groupOnly, OpTypeOK
  <2>3. QED BY <2>1, <2>2
<1>2. CASE MessagingStep /\ UNCHANGED <<groupOnly, racing>>
  <2>1. TypeOK'
    BY <1>2, TypeStep, MessagingSimulates
  <2>2. OpTypeOK'
    BY <1>2 DEF groupOnly, OpTypeOK
  <2>3. QED BY <2>1, <2>2
<1>3. CASE GroupStep /\ UNCHANGED <<messagingOnly, racing>>
  BY <1>3, GroupStepType, TypeFrame
<1>4. ASSUME NEW r \in GroupOps, PurgeMessages(r) PROVE GroupMessagingTypeOK'
  <2>1. TypeOK'
    BY <1>4 DEF TypeOK, PurgeMessages, DeleteChatMessages, DeleteMessages, chatDoc, roomVars, sendVars
  <2>2. AfterPurge(r) \in GroupPC
    BY DEF AfterPurge, GroupPC, Writing
  <2>3. OpTypeOK'
    BY <1>4, <2>2, ProceedType DEF PurgeMessages, DeleteChatMessages, OpTypeOK, chatDoc
  <2>4. QED BY <2>1, <2>3
<1>5. CASE Crash /\ GroupCrash
  <2>1. TypeOK'
    BY <1>5, TypeStep, MessagingSimulates
  <2>2. OpTypeOK'
    BY <1>5 DEF GroupCrash, OpTypeOK, GroupPC, chatDoc
  <2>3. QED BY <2>1, <2>2
<1>6. QED BY <1>1, <1>2, <1>3, <1>4, <1>5 DEF GroupMessagingNext

\* Whatever sends and requests meet, every variable of the chat, its handlers
\* and the requests on its group keeps its type.
THEOREM GroupMessagingTypeCorrect == GroupMessagingSpec => []GroupMessagingTypeOK
<1>1. ASSUME GroupMessagingInit PROVE GroupMessagingTypeOK
  <2>1. TypeOK
    BY <1>1, MessagingAssumption DEF GroupMessagingInit, Init, TypeOK, PC, WriteState
  <2>2. NoCopy \in ChatCopy /\ [kind |-> "none", who |-> {}] \in Operation /\ "idle" \in GroupPC
    BY DEF NoCopy, ChatCopy, Operation, Kinds, GroupPC
  <2>3. OpTypeOK
    BY <1>1, <2>2 DEF GroupMessagingInit, GroupInit, OpTypeOK
  <2>4. QED BY <2>1, <2>3 DEF GroupMessagingTypeOK
<1>2. QED BY <1>1, GroupMessagingTypeStep, PTL DEF GroupMessagingSpec

-----------------------------------------------------------------------------
(* The group under the sends. *)

\* A purge r keeps the order: group, chat, messages.
PurgeOrder(r) ==
    /\ gpc[r] \in {"reading", "saving", "demoting", "promoting"} => op[r].kind # "purge"
    /\ gpc[r] \in {"purgingGroup", "purgingChat", "purgingMessages"} => op[r].kind = "purge"
    /\ gpc[r] \in {"purgingChat", "purgingMessages"} => ~groupExists
    /\ gpc[r] = "purgingMessages" => ~chatExists
    /\ op[r].kind = "purge" /\ gpc[r] = "done" => ~groupExists /\ ~chatExists

\* What a step of the handler of request r does to the rest: it has not ended,
\* the group exists or is past creation, neither document appears, and no
\* purge is answered.
RequestEffect(r) ==
    /\ gpc[r] \notin {"done", "failed"}
    /\ creation \notin {"none", "chat"}
    /\ UNCHANGED creation
    /\ creation = "adrift" => gpc'[r] = "failed"
    /\ chatExists' => chatExists
    /\ groupExists' => groupExists
    /\ \A q \in GroupOps : q # r => gpc'[q] = gpc[q] /\ op'[q] = op[q]
    /\ PurgeOrder(r)'
    /\ gpc'[r] = "done" => op'[r].kind # "purge"

\* Every handler's step has that effect.
LEMMA RequestStep ==
    ASSUME OpTypeOK, OpInv, NEW r \in GroupOps,
           GroupRequest(r) \/ ChangeMembers(r) \/ Dissolve(r) \/ OpFails(r)
    PROVE  RequestEffect(r)
<1> USE DEF RequestEffect, PurgeOrder
<1>0. /\ gpc \in [GroupOps -> GroupPC] /\ op \in [GroupOps -> Operation]
      /\ gpc[r] # "idle" => creation \notin {"none", "chat"}
      /\ gpc[r] \notin {"idle", "failed"} => creation # "adrift"
      /\ creation = "adrift" => ~groupExists
      /\ PurgeOrder(r)
  BY DEF OpTypeOK, OpInv, CreationInv, PurgeInv
<1> USE <1>0
<1>1. CASE GroupRequest(r)
  <2> USE DEF Begin, chatDoc, groupDoc, createVars
  <2>1. ASSUME NEW u \in Users, NEW M \in SUBSET Users, AddMembers(r, u, M) PROVE RequestEffect(r)
    BY <2>1 DEF AddMembers
  <2>2. ASSUME NEW u \in Users, NEW t \in Users, RemoveMember(r, u, t) PROVE RequestEffect(r)
    BY <2>2 DEF RemoveMember
  <2>3. ASSUME NEW u \in Users, NEW t \in Users, PromoteAdmin(r, u, t) PROVE RequestEffect(r)
    BY <2>3 DEF PromoteAdmin
  <2>4. CASE AdminDeleteGroup(r)
    BY <2>4 DEF AdminDeleteGroup, PurgeStart
  <2>5. QED BY <1>1, <2>1, <2>2, <2>3, <2>4 DEF GroupRequest
<1>2. CASE ReadChat(r)
  BY <1>2 DEF ReadChat, Proceed, chatDoc, groupDoc, createVars
<1>3. CASE SaveChat(r)
  BY <1>3 DEF SaveChat, AfterSave, Proceed, chatDoc, groupDoc, createVars
<1>4. CASE RemoveAdmin(r) \/ AddAdmin(r)
  BY <1>4 DEF RemoveAdmin, AddAdmin, Proceed, chatDoc, createVars
<1>5. CASE Dissolve(r)
  BY <1>5 DEF Dissolve, DeleteGroup, DeleteChat, AfterPurge, Proceed, chatDoc, groupDoc, createVars
<1>6. CASE OpFails(r)
  BY <1>6 DEF OpFails, Reading, Writing, chatDoc, groupDoc, createVars
<1>7. QED BY <1>1, <1>2, <1>3, <1>4, <1>5, <1>6 DEF ChangeMembers

\* What a step of the group does that matters to the sends: the chat appears
\* only when createGroup stores it, a purge that has ended stays ended, and
\* none is answered before the messages are deleted.
GroupEffect ==
    /\ chatExists' => chatExists \/ (creation = "none" /\ creation' = "chat")
    /\ creation' = "none" => creation = "none"
    /\ Purged => Purged'
    /\ Deleted' => Deleted

\* Every step of the group has that effect, and keeps the order of purges.
LEMMA GroupStepEffect ==
    ASSUME OpTypeOK, OpInv, messagingOnly' = messagingOnly, GroupStep
    PROVE  GroupEffect /\ OpInv'
<1>1. /\ \A s \in Sends : pc'[s] = pc[s]
      /\ \A u \in Users : unreadCounts'[u] = unreadCounts[u]
  BY DEF messagingOnly, sendVars
<1>2. CASE Create
  <2>1. UNCHANGED <<gpc, op>> /\ (chatExists' => chatExists \/ (creation = "none" /\ creation' = "chat"))
    BY <1>2 DEF Create, CreateChat, CreateGroup, CreateFails, chatDoc, opVars
  <2>2. GroupEffect
    BY <1>2, <2>1 DEF GroupEffect, Purged, Deleted, Create, CreateChat, CreateGroup, CreateFails
  <2>3. /\ creation \in {"none", "chat", "adrift"} /\ \A r \in GroupOps : gpc[r] \in {"idle", "failed"}
        /\ creation \in {"none", "chat"} => \A r \in GroupOps : gpc[r] = "idle"
    BY <1>2 DEF OpInv, CreationInv, Create, CreateChat, CreateGroup, CreateFails
  <2>4. PurgeInv'
    BY <2>1, <2>3 DEF PurgeInv
  <2>5. CreationInv'
    BY <1>2, <2>1, <2>3 DEF OpInv, CreationInv, Create, CreateChat, CreateGroup, CreateFails,
                            groupDoc, chatDoc
  <2>6. QED BY <2>2, <2>4, <2>5 DEF OpInv
<1>3. ASSUME NEW r \in GroupOps, GroupRequest(r) \/ ChangeMembers(r) \/ Dissolve(r) \/ OpFails(r)
      PROVE  GroupEffect /\ OpInv'
  <2>1. RequestEffect(r)
    BY <1>3, RequestStep
  <2>2. GroupEffect
    BY <2>1 DEF RequestEffect, GroupEffect, Purged, Deleted
  <2>3. \A q \in GroupOps : PurgeOrder(q)'
    BY <2>1 DEF RequestEffect, PurgeOrder, OpInv, PurgeInv
  <2>4. PurgeInv'
    BY <2>3 DEF PurgeInv, PurgeOrder
  <2>5. CreationInv'
    BY <2>1 DEF RequestEffect, OpInv, CreationInv
  <2>6. QED BY <2>2, <2>4, <2>5 DEF OpInv
<1>4. CASE OtherSave
  BY <1>1, <1>4 DEF OtherSave, GroupEffect, Purged, Deleted, OpInv, CreationInv, PurgeInv,
                    groupDoc, createVars, opVars
<1>5. QED BY <1>2, <1>3, <1>4 DEF GroupStep

\* A crash has that effect too, whichever of the requests' commands it cuts off.
LEMMA GroupCrashEffect ==
    ASSUME OpTypeOK, OpInv, GroupCrash
    PROVE  /\ GroupEffect
           /\ PurgeInv'
           /\ creation' = "none" => creation = "none"
           /\ creation' \in {"none", "chat"} => ~groupExists' /\ \A r \in GroupOps : gpc'[r] = "idle"
           /\ creation' = "adrift" => ~groupExists' /\ \A r \in GroupOps : gpc'[r] \in {"idle", "failed"}
<1> USE DEF OpTypeOK, GroupCrash, Reading, chatDoc, groupDoc
<1>1. GroupEffect
  BY DEF GroupEffect, Purged, Deleted
<1>2. PurgeInv'
  BY DEF OpInv, CreationInv, PurgeInv
<1>3. QED BY <1>1, <1>2 DEF OpInv, CreationInv

\* The deletion of the messages ends a purge.
LEMMA PurgeEffect ==
    ASSUME OpTypeOK, OpInv, NEW r \in GroupOps, DeleteChatMessages(r)
    PROVE  /\ UNCHANGED <<chatExists, participants, groupExists, creation>>
           /\ ~chatExists /\ Purged'
           /\ PurgeInv'
           /\ creation \notin {"none", "chat", "adrift"}
<1> USE DEF OpTypeOK, OpInv, CreationInv, PurgeInv, DeleteChatMessages, Proceed, AfterPurge,
            chatDoc, groupDoc, createVars
<1>1. UNCHANGED <<chatExists, participants, groupExists, creation>> /\ ~chatExists
  OBVIOUS
<1>2. creation \notin {"none", "chat", "adrift"}
  OBVIOUS
<1>3. Purged'
  BY DEF Purged
<1>4. PurgeInv'
  OBVIOUS
<1>5. QED BY <1>1, <1>2, <1>3, <1>4

-----------------------------------------------------------------------------
(* The sends over the group. *)

\* A step of the sends or the sockets leaves the group and its purges alone,
\* and does nothing before the chat exists.
LEMMA OpInvUnderSends ==
    ASSUME GroupMessagingTypeOK, OpInv, HandlerInv, MessagingStep, UNCHANGED groupOnly
    PROVE  OpInv' /\ (Purged' <=> Purged) /\ (Deleted' <=> Deleted) /\ chatExists' = chatExists
<1>1. chatExists' = chatExists
  BY DEF MessagingStep, RoomStep, Connect, Disconnect, JoinChat, LeaveChat, Request, AcceptSend,
         RejectSend, Handle, StoreMessage, StoreFails, RecordFails, FinishRest, Announce, Broadcast,
         BroadcastFails, Land, LandMessage, LandLastMessage, LandUnread, chatVars
<1>2. UNCHANGED <<groupExists, creation, gpc, op>>
  BY DEF groupOnly
<1>3. PurgeInv' /\ (Purged' <=> Purged) /\ (Deleted' <=> Deleted)
  BY <1>1, <1>2 DEF OpInv, PurgeInv, Purged, Deleted
<1>4. ASSUME creation = "none"
      PROVE  /\ \A s \in Sends : pc'[s] = "idle"
             /\ \A u \in Users : unreadCounts'[u] = 0
  <2>1. /\ \A s \in Sends : /\ pc[s] = "idle" /\ s \notin adrift
                            /\ lastWrite[s] = "none" /\ unreadWrite[s] = "none"
        /\ \A u \in Users : unreadCounts[u] = 0
    BY <1>4 DEF OpInv, CreationInv, HandlerInv
  <2>2. \E k \in Sockets : RoomStep(k)
    BY <1>4, <2>1 DEF MessagingStep, Handle, StoreMessage, StoreFails, RecordFails, FinishRest,
       Announce, Broadcast, BroadcastFails, Land, LandMessage, LandLastMessage, LandUnread
  <2>3. QED BY <2>1, <2>2 DEF RoomStep, Connect, Disconnect, JoinChat, LeaveChat, chatVars, sendVars
<1>5. CreationInv'
  BY <1>1, <1>2, <1>4 DEF OpInv, CreationInv
<1>6. QED BY <1>1, <1>3, <1>5 DEF OpInv

\* Once the messages may have been deleted, they stay so: Kept is never regained.
LEMMA KeptShrinks ==
    ASSUME OpInv, GroupEffect, Kept'
    PROVE  Kept
<1>1. creation = "none" => ~Purged
  BY DEF OpInv, CreationInv, Purged
<1>2. QED BY <1>1 DEF GroupEffect, Kept

\* Every step preserves the order of creation and purge.
LEMMA OpInvStep ==
    ASSUME GroupMessagingTypeOK, OpInv, HandlerInv, [GroupMessagingNext]_allVars
    PROVE  OpInv'
<1> USE DEF GroupMessagingTypeOK
<1>1. CASE UNCHANGED allVars
  BY <1>1 DEF allVars, vars, chatVars, sendVars, groupOnly, OpInv, CreationInv, PurgeInv
<1>2. CASE MessagingStep /\ UNCHANGED <<groupOnly, racing>>
  BY <1>2, OpInvUnderSends
<1>3. CASE GroupStep /\ UNCHANGED <<messagingOnly, racing>>
  BY <1>3, GroupStepEffect
<1>4. ASSUME NEW r \in GroupOps, PurgeMessages(r) PROVE OpInv'
  BY <1>4, PurgeEffect DEF PurgeMessages, OpInv, CreationInv
<1>5. CASE Crash /\ GroupCrash
  <2>1. creation' = "none" => \A s \in Sends : pc'[s] = "idle"
    BY <1>5, GroupCrashEffect DEF OpInv, CreationInv, Crash, Running
  <2>2. creation' = "none" => ~chatExists' /\ \A u \in Users : unreadCounts'[u] = 0
    BY <1>5, GroupCrashEffect DEF OpInv, CreationInv, Crash, chatVars
  <2>3. QED BY <1>5, <2>1, <2>2, GroupCrashEffect DEF OpInv, CreationInv
<1>6. QED BY <1>1, <1>2, <1>3, <1>4, <1>5 DEF GroupMessagingNext

\* Every step preserves what the handlers of the sends have done, and that a
\* socket which counts as connected all along is connected: the group's steps
\* touch neither.
LEMMA HandlersUnderGroup ==
    ASSUME GroupMessagingTypeOK, HandlerInv, SteadyInv, [GroupMessagingNext]_allVars
    PROVE  HandlerInv' /\ SteadyInv'
<1> USE DEF GroupMessagingTypeOK
<1>1. CASE [Next]_vars
  BY <1>1, HandlerStep, ConnectedStep
<1>2. CASE UNCHANGED <<adrift, roomVars, sendVars, steady>>
  BY <1>2 DEF roomVars, sendVars, HandlerInv, SteadyInv, Recorded
<1>3. QED BY <1>1, <1>2, MessagingSimulates DEF GroupMessagingNext, PurgeMessages, messagingOnly, allVars

\* Every step preserves that messages are stored as long as no purge has
\* deleted them.
LEMMA KeptStep ==
    ASSUME GroupMessagingTypeOK, OpInv, HandlerInv, KeptInv, [GroupMessagingNext]_allVars
    PROVE  KeptInv'
<1> USE DEF GroupMessagingTypeOK
<1>1. ASSUME Kept' => Kept, [Next]_vars PROVE KeptInv'
  BY <1>1, StoredStep DEF KeptInv
<1>2. CASE UNCHANGED allVars
  BY <1>1, <1>2 DEF allVars, vars, chatVars, groupOnly, Kept, Purged
<1>3. CASE MessagingStep /\ UNCHANGED <<groupOnly, racing>>
  BY <1>1, <1>3, OpInvUnderSends, MessagingSimulates DEF Kept
<1>4. CASE GroupStep /\ UNCHANGED <<messagingOnly, racing>>
  <2>1. Kept' => Kept
    BY <1>4, GroupStepEffect, KeptShrinks
  <2>2. StoredInv => StoredInv'
    BY <1>4 DEF StoredInv, messagingOnly, sendVars
  <2>3. QED BY <2>1, <2>2 DEF KeptInv
<1>5. ASSUME NEW r \in GroupOps, PurgeMessages(r) PROVE KeptInv'
  BY <1>5, PurgeEffect DEF PurgeMessages, KeptInv, Kept
<1>6. CASE Crash /\ GroupCrash
  BY <1>1, <1>6, GroupCrashEffect, KeptShrinks, MessagingSimulates
<1>7. QED BY <1>2, <1>3, <1>4, <1>5, <1>6 DEF GroupMessagingNext

\* Every step preserves the account of the counters: a save of the chat with
\* other participants sends no counter, and a new chat starts without any.
LEMMA UnreadUnderGroup ==
    ASSUME GroupMessagingTypeOK, OpInv, HandlerInv, UnreadInv, [GroupMessagingNext]_allVars
    PROVE  UnreadInv'
<1> USE DEF GroupMessagingTypeOK
<1>1. CASE [Next]_vars
  BY <1>1, UnreadStep
<1>2. ASSUME UNCHANGED <<unreadCounts, sendVars>>,
             chatExists' => chatExists \/ creation = "none"
      PROVE  UnreadInv'
  <2>1. \A u \in Users : CountedFor(u)' = CountedFor(u)
    BY <1>2 DEF CountedFor, sendVars
  <2>2. ASSUME creation = "none", NEW u \in Users PROVE unreadCounts[u] = Cardinality(CountedFor(u))
    <3>1. CountedFor(u) = {}
      BY <2>2 DEF OpInv, CreationInv, HandlerInv, CountedFor
    <3>2. QED BY <2>2, <3>1, FS_EmptySet DEF OpInv, CreationInv
  <2>3. QED BY <1>2, <2>1, <2>2 DEF UnreadInv, sendVars
<1>3. CASE GroupStep /\ UNCHANGED <<messagingOnly, racing>>
  BY <1>2, <1>3, GroupStepEffect DEF GroupEffect, messagingOnly
<1>4. ASSUME NEW r \in GroupOps, PurgeMessages(r) PROVE UnreadInv'
  BY <1>2, <1>4, PurgeEffect DEF PurgeMessages
<1>5. QED BY <1>1, <1>3, <1>4, MessagingSimulates DEF GroupMessagingNext, allVars

\* Every step preserves that what is left of a deleted group was racing with
\* the purge: without a chat no send is accepted.
LEMMA RaceStep ==
    ASSUME GroupMessagingTypeOK, OpInv, HandlerInv, RaceInv, [GroupMessagingNext]_allVars
    PROVE  RaceInv'
<1> USE DEF GroupMessagingTypeOK
<1>0. Deleted => ~chatExists
  BY DEF OpInv, PurgeInv, Deleted
<1>1. CASE UNCHANGED allVars
  BY <1>1 DEF allVars, vars, sendVars, groupOnly, historyVars, RaceInv, Deleted
<1>2. CASE MessagingStep /\ UNCHANGED <<groupOnly, racing>>
  <2>1. Deleted' <=> Deleted
    BY <1>2, OpInvUnderSends
  <2>2. ASSUME ~chatExists, NEW s \in Sends, s \in messages' \cup adrift' \/ pc'[s] = "creating"
        PROVE  s \in messages \cup adrift \/ pc[s] = "creating"
    <3> USE DEF TypeOK
    <3>1. ASSUME NEW k \in Sockets, RoomStep(k) PROVE UNCHANGED <<messages, adrift, pc>>
      BY <3>1 DEF RoomStep, Connect, Disconnect, JoinChat, LeaveChat, sendVars
    <3>2. ASSUME NEW r \in Sends, Request(r) PROVE s \in messages \cup adrift \/ pc[s] = "creating"
      BY <2>2, <3>2 DEF Request, AcceptSend, RejectSend, GetChatById
    <3>3. ASSUME NEW r \in Sends, Handle(r) PROVE s \in messages \cup adrift \/ pc[s] = "creating"
      BY <2>2, <3>3 DEF Handle, StoreMessage, StoreFails, RecordFails, FinishRest, Announce,
                        Broadcast, BroadcastFails, CreateMessage
    <3>4. ASSUME NEW r \in Sends, Land(r) PROVE s \in messages \cup adrift \/ pc[s] = "creating"
      BY <2>2, <3>4 DEF Land, LandMessage, LandLastMessage, LandUnread, CreateMessage, sendVars
    <3>5. QED BY <1>2, <2>2, <3>1, <3>2, <3>3, <3>4 DEF MessagingStep
  <2>3. QED BY <1>0, <1>2, <2>1, <2>2 DEF RaceInv
<1>3. CASE GroupStep /\ UNCHANGED <<messagingOnly, racing>>
  BY <1>3, GroupStepEffect DEF GroupEffect, RaceInv, messagingOnly, sendVars
<1>4. ASSUME NEW r \in GroupOps, PurgeMessages(r) PROVE RaceInv'
  BY <1>4 DEF PurgeMessages, DeleteMessages, RaceInv, sendVars
<1>5. CASE Crash /\ GroupCrash /\ UNCHANGED racing
  <2>1. Deleted' => Deleted
    BY <1>5, GroupCrashEffect DEF GroupEffect
  <2>2. \A s \in Sends : /\ pc'[s] = "creating" => pc[s] = "creating"
                         /\ s \in adrift' => s \in adrift \/ pc[s] = "creating"
    BY <1>5 DEF Crash, Running
  <2>3. QED BY <1>5, <2>1, <2>2 DEF Crash, RaceInv
<1>6. QED BY <1>1, <1>2, <1>3, <1>4, <1>5 DEF GroupMessagingNext

\* While a send is handled its members who stayed only become fewer, and all
\* of them are members; afterwards they are settled.
LEMMA StayedShrinks ==
    ASSUME TrackMembers, NEW s \in Sends
    PROVE  /\ pc[s] = "idle" => stayed'[s] = Members'
           /\ pc[s] \in Running => stayed'[s] \subseteq stayed[s] /\ stayed'[s] \subseteq Members'
           /\ pc[s] \notin Running \cup {"idle"} => stayed'[s] = stayed[s]
BY DEF TrackMembers, Running

\* A step of the group or a purge of the messages moves no send.
LEMMA SendsAtRest ==
    ASSUME [GroupMessagingNext]_allVars
    PROVE  \/ UNCHANGED <<roomVars, sendVars, steady>>
           \/ MessagingStep /\ UNCHANGED groupOnly
           \/ Crash
BY DEF GroupMessagingNext, PurgeMessages, messagingOnly, allVars, vars

\* Every step preserves that who stayed is a recipient: the recipients are the
\* participants the send was accepted with.
LEMMA StayStep ==
    ASSUME GroupMessagingTypeOK, HandlerInv, StayInv, [GroupMessagingNext]_allVars
    PROVE  StayInv'
<1> USE DEF GroupMessagingTypeOK, TypeOK
<1>1. CASE UNCHANGED allVars
  BY <1>1 DEF allVars, vars, sendVars, historyVars, StayInv
<1>2. CASE TrackMembers
  <2> SUFFICES ASSUME NEW s \in Sends, pc'[s] \in Running \cup {"done"}
               PROVE  stayed'[s] \ {sender'[s]} \subseteq recipients'[s]
    BY DEF StayInv
  <2>1. ASSUME pc[s] \in Running \cup {"done"},
               sender'[s] = sender[s], recipients'[s] = recipients[s]
        PROVE  stayed'[s] \ {sender'[s]} \subseteq recipients'[s]
    <3>1. stayed'[s] \subseteq stayed[s]
      BY <1>2, <2>1, StayedShrinks DEF Running
    <3>2. QED BY <2>1, <3>1 DEF StayInv
  <2>2. CASE UNCHANGED <<roomVars, sendVars, steady>>
    BY <2>1, <2>2 DEF sendVars
  <2>3. CASE Crash
    <3>1. pc[s] = "done" /\ UNCHANGED <<sender, recipients>>
      BY <2>3 DEF Crash, Running
    <3>2. QED BY <2>1, <3>1
  <2>4. ASSUME NEW k \in Sockets, RoomStep(k)
        PROVE  stayed'[s] \ {sender'[s]} \subseteq recipients'[s]
    BY <2>1, <2>4 DEF RoomStep, Connect, Disconnect, JoinChat, LeaveChat, sendVars
  <2>5. ASSUME NEW r \in Sends, Handle(r) \/ Land(r)
        PROVE  stayed'[s] \ {sender'[s]} \subseteq recipients'[s]
    BY <2>1, <2>5 DEF Handle, StoreMessage, StoreFails, RecordFails, FinishRest, Announce, Broadcast,
       BroadcastFails, Land, LandMessage, LandLastMessage, LandUnread, Running, sendVars
  <2>6. ASSUME NEW r \in Sends, Request(r)
        PROVE  stayed'[s] \ {sender'[s]} \subseteq recipients'[s]
    <3>1. CASE s # r
      BY <2>1, <2>6, <3>1 DEF Request, AcceptSend, RejectSend
    <3>2. CASE s = r
      <4>1. PICK u \in Users, sock \in BOOLEAN : AcceptSend(s, u, sock)
        BY <2>6, <3>2 DEF Request, RejectSend, Running
      <4>2. /\ pc[s] = "idle" /\ chatExists' /\ participants' = participants
            /\ sender'[s] = u /\ recipients'[s] = participants \ {u}
        BY <4>1 DEF AcceptSend, GetChatById, chatVars
      <4>3. stayed'[s] = participants
        BY <1>2, <4>2, StayedShrinks DEF Members
      <4>4. QED BY <4>2, <4>3
    <3>3. QED BY <3>1, <3>2
  <2>7. QED BY <2>2, <2>3, <2>4, <2>5, <2>6, SendsAtRest DEF MessagingStep
<1>3. QED BY <1>1, <1>2 DEF GroupMessagingNext

\* Every step preserves what the devices of those who stay have received: the
\* second emit goes to the participants the chat has at that moment, and who
\* stayed is still one of them.
LEMMA ReceiveStep ==
    ASSUME GroupMessagingTypeOK, SteadyInv, SteadyMembersReceive, [GroupMessagingNext]_allVars
    PROVE  SteadyMembersReceive'
<1> USE DEF GroupMessagingTypeOK, TypeOK
<1>1. CASE UNCHANGED allVars
  BY <1>1 DEF allVars, vars, sendVars, roomVars, historyVars, SteadyMembersReceive
<1>2. CASE TrackMembers
  <2> SUFFICES ASSUME NEW s \in Sends, NEW k \in Sockets,
                      pc'[s] = "done", viaSocket'[s], k \in steady'[s],
                      Owner[k] \in stayed'[s] \ {sender'[s]}
               PROVE  s \in inbox'[k]
    BY DEF SteadyMembersReceive
  <2>1. ASSUME pc[s] = "done", viaSocket'[s] = viaSocket[s], sender'[s] = sender[s],
               steady'[s] \subseteq steady[s], inbox[k] \subseteq inbox'[k]
        PROVE  s \in inbox'[k]
    <3>1. stayed'[s] = stayed[s]
      BY <1>2, <2>1, StayedShrinks DEF Running
    <3>2. QED BY <2>1, <3>1 DEF SteadyMembersReceive
  <2>2. CASE UNCHANGED <<roomVars, sendVars, steady>>
    BY <2>1, <2>2 DEF sendVars, roomVars
  <2>3. CASE Crash
    BY <2>3 DEF Crash
  <2>4. ASSUME NEW q \in Sockets, RoomStep(q) PROVE s \in inbox'[k]
    <3>1. UNCHANGED <<pc, sender, viaSocket, inbox>> /\ steady'[s] \subseteq steady[s]
      BY <2>4 DEF RoomStep, Connect, Disconnect, JoinChat, LeaveChat, sendVars
    <3>2. QED BY <2>1, <3>1
  <2>5. ASSUME NEW r \in Sends, Request(r) PROVE s \in inbox'[k]
    <3>1. /\ pc[r] = "idle" /\ pc'[r] \in {"creating", "failed"}
          /\ \A q \in Sends : q # r =>
                /\ pc'[q] = pc[q] /\ sender'[q] = sender[q]
                /\ viaSocket'[q] = viaSocket[q] /\ steady'[q] = steady[q]
          /\ inbox' = inbox
      BY <2>5 DEF Request, AcceptSend, RejectSend, roomVars
    <3>2. QED BY <2>1, <3>1
  <2>6. ASSUME NEW r \in Sends, Land(r) PROVE s \in inbox'[k]
    <3>1. UNCHANGED <<pc, sender, viaSocket, steady, inbox>>
      BY <2>6 DEF Land, LandMessage, LandLastMessage, LandUnread, roomVars, sendVars
    <3>2. QED BY <2>1, <3>1
  <2>7. ASSUME NEW r \in Sends, Handle(r), UNCHANGED groupOnly PROVE s \in inbox'[k]
    <3>1. CASE r # s
      <4>1. pc'[s] = pc[s] /\ UNCHANGED <<sender, viaSocket, steady>> /\ inbox[k] \subseteq inbox'[k]
        BY <2>7, <3>1 DEF Handle, StoreMessage, StoreFails, RecordFails, FinishRest, Announce,
           Broadcast, BroadcastFails, EmitTo, roomVars
      <4>2. QED BY <2>1, <4>1
    <3>2. CASE r = s
      <4>1. Broadcast(s)
        BY <2>7, <3>2 DEF Handle, StoreMessage, StoreFails, RecordFails, FinishRest, Announce,
           BroadcastFails
      <4>2. /\ pc[s] = "broadcasting" /\ sender'[s] = sender[s] /\ steady'[s] = steady[s]
            /\ chatExists' = chatExists /\ participants' = participants
        BY <4>1 DEF Broadcast, chatVars
      <4>3. Owner[k] \in Members'
        BY <1>2, <4>2, StayedShrinks DEF Running
      <4>4. chatExists /\ Owner[k] \in participants \ {sender[s]}
        BY <4>2, <4>3 DEF Members
      <4>5. k \in connected
        BY <4>2 DEF SteadyInv
      <4>6. QED BY <4>1, <4>4, <4>5 DEF Broadcast, EmitTo, UserRooms
    <3>3. QED BY <3>1, <3>2
  <2>8. QED BY <2>2, <2>3, <2>4, <2>5, <2>6, <2>7, SendsAtRest DEF MessagingStep
<1>3. QED BY <1>1, <1>2 DEF GroupMessagingNext

-----------------------------------------------------------------------------
(* The inductive invariant and the properties. *)

\* Sends, membership changes, purges, failures and crashes keep it together.
THEOREM GroupInductive == GroupMessagingSpec => []GroupIndInv
<1>1. ASSUME GroupMessagingInit PROVE GroupIndInv
  <2> USE <1>1 DEF GroupMessagingInit, Init
  <2>1. HandlerInv /\ StoredInv /\ SteadyInv /\ StayInv /\ SteadyMembersReceive
    BY DEF HandlerInv, StoredInv, SteadyInv, StayInv, SteadyMembersReceive, Running
  <2>2. \A r \in GroupOps : gpc[r] = "idle" /\ op[r].kind = "none"
    BY DEF GroupInit
  <2>3. OpInv /\ RaceInv
    BY <2>2 DEF GroupInit, OpInv, CreationInv, PurgeInv, RaceInv, Deleted
  <2>4. \A u \in Users : CountedFor(u) = {}
    BY DEF CountedFor
  <2>5. UnreadInv
    BY <2>4, FS_EmptySet DEF UnreadInv
  <2>6. QED BY <2>1, <2>3, <2>5 DEF GroupIndInv, KeptInv
<1>2. ASSUME GroupMessagingTypeOK, GroupIndInv, [GroupMessagingNext]_allVars PROVE GroupIndInv'
  BY <1>2, OpInvStep, HandlersUnderGroup, KeptStep, UnreadUnderGroup, RaceStep, StayStep, ReceiveStep
     DEF GroupIndInv
<1>3. QED BY <1>1, <1>2, GroupMessagingTypeCorrect, PTL DEF GroupMessagingSpec

\* Once an administrator was told that the group is deleted, group and chat are
\* gone for good and only racing sends can leave a message.
THEOREM PurgesAreFinal == GroupMessagingSpec => []PurgeIsFinal
<1>1. ASSUME GroupMessagingTypeOK, GroupIndInv PROVE PurgeIsFinal
  BY <1>1 DEF GroupMessagingTypeOK, TypeOK, GroupIndInv, OpInv, PurgeInv, RaceInv, Deleted, PurgeIsFinal
<1>2. QED BY <1>1, GroupMessagingTypeCorrect, GroupInductive, PTL

\* Whoever joins or is removed meanwhile, the devices of the members who stay
\* receive a socket send that was acknowledged.
THEOREM SteadyMembersAlwaysReceive == GroupMessagingSpec => []SteadyMembersReceive
BY GroupInductive, PTL DEF GroupIndInv

\* The members who stay are counted by the acknowledgement, and nobody is
\* counted for more than others have stored.
THEOREM SteadyMembersAreCounted == GroupMessagingSpec => []SteadyMembersCounted
<1>1. ASSUME GroupMessagingTypeOK, GroupIndInv PROVE SteadyMembersCounted
  <2> SUFFICES ASSUME chatExists, NEW u \in Users
               PROVE  /\ Cardinality({s \in Sends : pc[s] = "done" /\ u \in stayed[s] \ {sender[s]}})
                           <= unreadCounts[u]
                      /\ unreadCounts[u] <= Cardinality(StoredByOthers(u))
    BY DEF SteadyMembersCounted
  <2> DEFINE StayedFor == {s \in Sends : pc[s] = "done" /\ u \in stayed[s] \ {sender[s]}}
  <2>1. unreadCounts[u] = Cardinality(CountedFor(u))
    BY <1>1 DEF GroupIndInv, UnreadInv
  <2>2. StayedFor \subseteq CountedFor(u)
    <3>1. \A s \in Sends : pc[s] = "done" =>
             unreadWrite[s] = "landed" /\ stayed[s] \ {sender[s]} \subseteq recipients[s]
      BY <1>1 DEF GroupIndInv, HandlerInv, StayInv, Recorded
    <3>2. QED BY <3>1 DEF CountedFor
  <2>3. CountedFor(u) \subseteq StoredByOthers(u)
    BY <1>1 DEF GroupIndInv, KeptInv, Kept, StoredInv, UnreadInv, CountedFor, StoredByOthers
  <2>4. StoredByOthers(u) \subseteq Sends
    BY <1>1 DEF StoredByOthers, GroupMessagingTypeOK, TypeOK
  <2>5. IsFiniteSet(CountedFor(u)) /\ IsFiniteSet(StoredByOthers(u))
    BY <2>3, <2>4, MessagingAssumption, FS_Subset
  <2> HIDE DEF StayedFor
  <2>6. /\ Cardinality(StayedFor) \in Nat /\ Cardinality(CountedFor(u)) \in Nat
        /\ Cardinality(StoredByOthers(u)) \in Nat
        /\ Cardinality(StayedFor) <= Cardinality(CountedFor(u))
        /\ Cardinality(CountedFor(u)) <= Cardinality(StoredByOthers(u))
    BY <2>2, <2>3, <2>5, FS_Subset, FS_CardinalityType
  <2>7. QED BY <2>1, <2>6 DEF StayedFor
<1>2. QED BY <1>1, GroupMessagingTypeCorrect, GroupInductive, PTL

\* What was shown or acknowledged is recorded, and stored until a purge.
THEOREM MessagesStoredUntilPurged == GroupMessagingSpec => []StoredUntilPurged
<1>1. ASSUME GroupIndInv PROVE StoredUntilPurged
  <2> SUFFICES ASSUME NEW s \in Sends, pc[s] = "done" \/ \E k \in Sockets : s \in inbox[k]
               PROVE  /\ lastWrite[s] = "landed" /\ unreadWrite[s] = "landed"
                      /\ s \in messages \/ Purged
    BY DEF StoredUntilPurged, Purged
  <2>1. Recorded(s)
    BY <1>1 DEF GroupIndInv, HandlerInv
  <2>2. s \in messages \/ Purged
    BY <1>1, <2>1 DEF GroupIndInv, KeptInv, Kept, StoredInv, Recorded
  <2>3. QED BY <2>1, <2>2 DEF Recorded
<1>2. QED BY <1>1, GroupInductive, PTL
=============================================================================
