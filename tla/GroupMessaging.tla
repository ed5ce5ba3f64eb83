----------------------------- MODULE GroupMessaging -----------------------------
(***************************************************************************)
(* The chat of a group: the sends of Messaging and the membership changes  *)
(* and the deletion of Groups, over the same chat document and in the same *)
(* process.  A send reads the chat before it stores its message and once   *)
(* more before it emits to the participants; in between members come and   *)
(* go and the group may be deleted with all its messages.                  *)
(***************************************************************************)
EXTENDS Messaging

CONSTANTS
    GroupOps,    \* requests clients may make on the group
    MaxVersion   \* bound: other saves of the chat happen below this version

VARIABLES
    v, groupExists, admins, creation, creator, gpc, op, copy, cutOff,  \* as in Groups
    racing,      \* history: sends whose insert was on the wire during a purge
    stayed       \* history: users in the chat from a send's acceptance to its answer

INSTANCE Groups

historyVars == <<racing, stayed>>
groupOnly == <<v, groupExists, admins, creation, creator, gpc, op, copy, cutOff>>
messagingOnly == <<lastMessage, unreadCounts, messages, adrift, roomVars, sendVars, preceded,
                   steady>>
allVars == <<vars, groupOnly, historyVars>>

-----------------------------------------------------------------------------
GroupMessagingInit ==
    /\ GroupInit
    /\ Init
    /\ racing = {}
    /\ stayed = [s \in Sends |-> {}]

\* A send is accepted while its sender and recipients take part; whoever is
\* missing at any later moment before the answer has not stayed.
Members == IF chatExists THEN participants ELSE {}

TrackMembers ==
    stayed' = [s \in Sends |->
        IF pc[s] = "idle" THEN Members'
        ELSE IF pc[s] \in Running THEN stayed[s] \cap Members' ELSE stayed[s]]

\* Mutant: the messages stay behind.
KeepMessages == UNCHANGED messages

\* deleteMany of the chat's messages.  It finds those that are stored; an insert
\* that is on the wire, awaited or not, may store its message afterwards.
DeleteMessages == messages' = {}

PurgeMessages(r) ==
    /\ DeleteChatMessages(r)
    /\ DeleteMessages
    /\ racing' = racing \cup {s \in Sends : pc[s] = "creating"} \cup adrift
    /\ UNCHANGED <<lastMessage, unreadCounts, adrift, roomVars, sendVars, preceded, steady>>

\* The chat has an id, and clients a chat to join and to send to, once
\* createGroup has created it.
MessagingStep ==
    \/ \E k \in Sockets : RoomStep(k)
    \/ \E s \in Sends : (creation # "none" /\ Request(s)) \/ Handle(s) \/ Land(s)

GroupMessagingNext ==
    /\ \/ MessagingStep /\ UNCHANGED <<groupOnly, racing>>
       \/ GroupStep /\ UNCHANGED <<messagingOnly, racing>>
       \/ \E r \in GroupOps : PurgeMessages(r)
       \/ Crash /\ GroupCrash /\ UNCHANGED racing
    /\ TrackMembers

GroupMessagingSpec == GroupMessagingInit /\ [][GroupMessagingNext]_allVars

-----------------------------------------------------------------------------
(* Correctness. *)

\* Once an administrator was told that the group is deleted, the group and its
\* chat are gone for good, and the only messages left are those of sends that
\* had read the chat before it was deleted and whose insert was on the wire when
\* the chat's messages were deleted, be their handler still waiting for it or gone:
\* adminDeleteGroup deletes the chat before its messages, so no send accepted later
\* can leave any.
PurgeIsFinal == Deleted => ~groupExists /\ ~chatExists /\ messages \subseteq racing

\* A device that stays connected, of a user who takes part in the chat from
\* the moment a socket send was accepted until it was answered, receives the
\* message, whoever else joins or is removed meanwhile: the handler emits to
\* the participants of a second read of the chat.
SteadyMembersReceive ==
    \A s \in Sends, k \in Sockets :
        (/\ pc[s] = "done"
         /\ viaSocket[s]
         /\ k \in steady[s]
         /\ Owner[k] \in stayed[s] \ {sender[s]})
            => s \in inbox[k]

\* Users who take part while a send is handled are counted by the time it is
\* acknowledged, and nobody is counted more often than others have sent, although
\* membership changes save the same document: they send its participants only.
SteadyMembersCounted ==
    chatExists => \A u \in Users :
        /\ Cardinality({s \in Sends : pc[s] = "done" /\ u \in stayed[s] \ {sender[s]}})
             <= unreadCounts[u]
        /\ unreadCounts[u] <= Cardinality(StoredByOthers(u))

\* A message that was shown or acknowledged stays in the collection, and the
\* chat's last message and counters were updated for it, until a purge deletes
\* the messages: no membership change, failure or crash loses one.
StoredUntilPurged ==
    \A s \in Sends :
        (pc[s] = "done" \/ \E k \in Sockets : s \in inbox[k]) =>
            /\ lastWrite[s] = "landed" /\ unreadWrite[s] = "landed"
            /\ s \in messages \/ \E r \in GroupOps :
                   op[r].kind = "purge" /\ gpc[r] \in {"done", "failed"}
=============================================================================
