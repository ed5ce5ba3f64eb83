------------------------------ MODULE Groups_proofs ------------------------------
(***************************************************************************)
(* Theorems about Groups, for every set of users and of requests and every *)
(* number of other saves and of faults.                                    *)
(***************************************************************************)
EXTENDS Groups, TLAPS

-----------------------------------------------------------------------------
(* The parts of the inductive invariant. *)

Purging == {"purgingChat", "purgingMessages"}

\* Requests are about a group somebody tried to create; until it is there they
\* are refused, and its chat stays as it is.
CreationInv ==
    /\ creation = "none" => ~chatExists /\ ~groupExists
    /\ creation \in {"chat", "adrift"} => chatExists /\ ~groupExists
    /\ creation \in {"none", "chat"} => \A r \in GroupOps : gpc[r] = "idle"
    /\ creation = "adrift" => \A r \in GroupOps : gpc[r] \in {"idle", "failed"}

\* The chat goes after the group.
ChatInv ==
    /\ groupExists => chatExists
    /\ \A r \in GroupOps : gpc[r] \in Purging => ~groupExists

\* A handler that is about to save has read the chat: what it has read is
\* older than the chat, or the same.
CopyInv ==
    \A r \in GroupOps : gpc[r] = "saving" =>
        /\ copy[r].v <= v
        /\ copy[r].v = v => copy[r].p = participants

\* The awaits of a handler are those of its kind of request.
KindInv ==
    \A r \in GroupOps :
        /\ gpc[r] \in {"reading", "saving"} => op[r].kind \in {"add", "remove"}
        /\ gpc[r] = "demoting" => op[r].kind = "remove"
        /\ gpc[r] = "promoting" => op[r].kind = "promote"

IndInv == GroupTypeOK /\ CreationInv /\ ChatInv /\ CopyInv /\ KindInv

-----------------------------------------------------------------------------
(* Type correctness. *)

\* The value of a handler's copy before it has read the chat.
LEMMA NoCopyType == NoCopy \in ChatCopy
BY DEF NoCopy, ChatCopy

\* The initial states are well typed.
LEMMA GroupTypeInit ==
    ASSUME GroupInit
    PROVE  GroupTypeOK
<1>1. op \in [GroupOps -> Operation]
  BY DEF GroupInit, Operation, Kinds
<1>2. gpc \in [GroupOps -> GroupPC]
  BY DEF GroupInit, GroupPC
<1>3. copy \in [GroupOps -> ChatCopy] /\ faults \in 0 .. MaxFaults
  BY NoCopyType, GroupsAssumption DEF GroupInit
<1>4. QED
  BY <1>1, <1>2, <1>3 DEF GroupInit, GroupTypeOK

\* Every step keeps the types.
LEMMA GroupTypeStep ==
    ASSUME GroupTypeOK, [GroupNext]_groupVars
    PROVE  GroupTypeOK'
<1> USE DEF GroupTypeOK
<1>1. CASE UNCHANGED groupVars
  BY <1>1 DEF groupVars, chatDoc, groupDoc, createVars, opVars
<1>2. CASE Create
  <2>1. ASSUME NEW u \in Users, NEW M \in SUBSET Users, CreateChat(u, M) PROVE GroupTypeOK'
    BY <2>1 DEF CreateChat, groupDoc, opVars
  <2>2. CASE CreateGroup
    BY <2>2 DEF CreateGroup, chatDoc, opVars
  <2>3. CASE CreateFails
    <3>1. faults' \in 0 .. MaxFaults
      BY <2>3, GroupsAssumption DEF CreateFails, Fails
    <3>2. QED BY <2>3, <3>1 DEF CreateFails, chatDoc, groupDoc, opVars
  <2>4. QED BY <1>2, <2>1, <2>2, <2>3 DEF Create
<1>3. ASSUME NEW r \in GroupOps, GroupRequest(r) PROVE GroupTypeOK'
  <2>1. {"reading", "promoting", "purgingGroup", "failed"} \subseteq GroupPC
    BY DEF GroupPC, Reading, Writing
  <2>2. \A k \in {"add", "remove", "promote", "purge"}, W \in SUBSET Users :
           [kind |-> k, who |-> W] \in Operation
    BY DEF Operation, Kinds
  <2> USE <2>1, <2>2 DEF Begin, chatDoc, groupDoc, createVars
  <2>3. ASSUME NEW u \in Users, NEW M \in SUBSET Users, AddMembers(r, u, M) PROVE GroupTypeOK'
    BY <2>3 DEF AddMembers
  <2>4. ASSUME NEW u \in Users, NEW t \in Users, RemoveMember(r, u, t) PROVE GroupTypeOK'
    BY <2>4 DEF RemoveMember
  <2>5. ASSUME NEW u \in Users, NEW t \in Users, PromoteAdmin(r, u, t) PROVE GroupTypeOK'
    BY <2>5 DEF PromoteAdmin
  <2>6. CASE AdminDeleteGroup(r)
    BY <2>6 DEF AdminDeleteGroup, PurgeStart
  <2>7. QED BY <1>3, <2>3, <2>4, <2>5, <2>6 DEF GroupRequest
<1>4. ASSUME NEW r \in GroupOps, NEW next \in GroupPC, Proceed(r, next)
      PROVE  /\ gpc' \in [GroupOps -> GroupPC] /\ copy' \in [GroupOps -> ChatCopy]
             /\ op' = op /\ cutOff' = cutOff
  BY NoCopyType, <1>4 DEF Proceed, GroupPC
<1>5. ASSUME NEW r \in GroupOps, ReadChat(r) PROVE GroupTypeOK'
  <2>1. [p |-> participants, v |-> v] \in ChatCopy /\ {"saving", "done", "demoting"} \subseteq GroupPC
    BY DEF ChatCopy, GroupPC, Writing
  <2>2. CASE chatExists
    BY <1>5, <2>1, <2>2 DEF ReadChat, chatDoc, groupDoc, createVars
  <2>3. CASE ~chatExists
    BY <1>4, <1>5, <2>1, <2>3 DEF ReadChat, chatDoc, groupDoc, createVars
  <2>4. QED BY <2>2, <2>3
<1>6. ASSUME NEW r \in GroupOps, SaveChat(r) PROVE GroupTypeOK'
  <2>1. {AfterSave(r), "failed"} \subseteq GroupPC
    BY DEF AfterSave, GroupPC, Writing
  <2>2. Changed(r) \in SUBSET Users
    BY DEF Changed, Operation, ChatCopy
  <2>3. \E next \in GroupPC : Proceed(r, next)
    BY <1>6, <2>1 DEF SaveChat
  <2>4. QED BY <1>4, <1>6, <2>2, <2>3 DEF SaveChat, chatDoc, groupDoc, createVars
<1>7. ASSUME NEW r \in GroupOps, RemoveAdmin(r) \/ AddAdmin(r) PROVE GroupTypeOK'
  <2>1. op[r].who \in SUBSET Users /\ "done" \in GroupPC
    BY DEF Operation, GroupPC
  <2>2. QED BY <1>4, <1>7, <2>1 DEF RemoveAdmin, AddAdmin, AddToAdmins, chatDoc, createVars
<1>8. ASSUME NEW r \in GroupOps, Dissolve(r) \/ DeleteChatMessages(r) PROVE GroupTypeOK'
  <2>1. AfterPurge(r) \in GroupPC
    BY DEF AfterPurge, GroupPC, Writing
  <2>2. QED BY <1>4, <1>8, <2>1 DEF Dissolve, DeleteGroup, DeleteChat, DeleteChatMessages,
                             chatDoc, groupDoc, createVars
<1>9. ASSUME NEW r \in GroupOps, OpFails(r) PROVE GroupTypeOK'
  BY <1>9, GroupsAssumption DEF OpFails, Fails, GroupPC, chatDoc, groupDoc, createVars
<1>10. CASE OtherSave
  BY <1>10 DEF OtherSave, groupDoc, createVars, opVars
<1>11. CASE Fails /\ GroupCrash
  <2>1. faults' \in 0 .. MaxFaults
    BY <1>11, GroupsAssumption DEF Fails
  <2>2. gpc' \in [GroupOps -> GroupPC]
    BY <1>11 DEF GroupCrash, GroupPC
  <2>3. QED BY <1>11, <2>1, <2>2 DEF GroupCrash, chatDoc, groupDoc
<1>12. QED
  BY <1>1, <1>2, <1>3, <1>5, <1>6, <1>7, <1>8, <1>9, <1>10, <1>11
     DEF GroupNext, GroupStep, ChangeMembers

\* Every variable keeps its type; in particular a group that is gone has no
\* admins, whatever promotions and removals are still on the wire: addAdmin
\* and removeAdmin find no document.
THEOREM GroupTypeCorrect == GroupSpec => []GroupTypeOK
BY GroupTypeInit, GroupTypeStep, PTL DEF GroupSpec

-----------------------------------------------------------------------------
(* The inductive invariant. *)

\* Every step preserves what is known of creation and of the order in which
\* the group and its chat come and go.
LEMMA ExistenceStep ==
    ASSUME GroupTypeOK, CreationInv, ChatInv, [GroupNext]_groupVars
    PROVE  CreationInv' /\ ChatInv'
<1> USE DEF CreationInv, ChatInv, Purging
<1>1. CASE UNCHANGED groupVars
  BY <1>1 DEF groupVars, chatDoc, groupDoc, createVars, opVars
<1>2. CASE Create
  BY <1>2 DEF Create, CreateChat, CreateGroup, CreateFails, groupDoc, chatDoc, opVars
<1>3. ASSUME NEW r \in GroupOps, GroupRequest(r) PROVE CreationInv' /\ ChatInv'
  <2> USE DEF Begin, GroupTypeOK, chatDoc, groupDoc, createVars
  <2>1. ASSUME NEW u \in Users, NEW M \in SUBSET Users, AddMembers(r, u, M)
        PROVE  CreationInv' /\ ChatInv'
    BY <2>1 DEF AddMembers
  <2>2. ASSUME NEW u \in Users, NEW t \in Users, RemoveMember(r, u, t) \/ PromoteAdmin(r, u, t)
        PROVE  CreationInv' /\ ChatInv'
    BY <2>2 DEF RemoveMember, PromoteAdmin
  <2>3. CASE AdminDeleteGroup(r)
    BY <2>3 DEF AdminDeleteGroup, PurgeStart
  <2>4. QED BY <1>3, <2>1, <2>2, <2>3 DEF GroupRequest
<1> USE DEF GroupTypeOK, Proceed
<1>4. ASSUME NEW r \in GroupOps, ReadChat(r) PROVE CreationInv' /\ ChatInv'
  BY <1>4 DEF ReadChat, chatDoc, groupDoc, createVars
<1>5. ASSUME NEW r \in GroupOps, SaveChat(r) PROVE CreationInv' /\ ChatInv'
  BY <1>5 DEF SaveChat, AfterSave, chatDoc, groupDoc, createVars
<1>6. ASSUME NEW r \in GroupOps, RemoveAdmin(r) \/ AddAdmin(r) PROVE CreationInv' /\ ChatInv'
  BY <1>6 DEF RemoveAdmin, AddAdmin, chatDoc, createVars
<1>7. ASSUME NEW r \in GroupOps, Dissolve(r) \/ DeleteChatMessages(r)
      PROVE  CreationInv' /\ ChatInv'
  BY <1>7 DEF Dissolve, DeleteGroup, DeleteChat, DeleteChatMessages, AfterPurge,
              chatDoc, groupDoc, createVars
<1>8. ASSUME NEW r \in GroupOps, OpFails(r) PROVE CreationInv' /\ ChatInv'
  BY <1>8 DEF OpFails, Reading, chatDoc, groupDoc, createVars
<1>9. CASE OtherSave
  BY <1>9 DEF OtherSave, groupDoc, createVars, opVars
<1>10. CASE Fails /\ GroupCrash
  BY <1>10 DEF GroupCrash, Reading, chatDoc, groupDoc
<1>11. QED
  BY <1>1, <1>2, <1>3, <1>4, <1>5, <1>6, <1>7, <1>8, <1>9, <1>10
     DEF GroupNext, GroupStep, ChangeMembers

\* Every step preserves that a handler's await is one of its kind of request,
\* and that its copy of the chat is old unless it is exact: every save that
\* changes the participants increments the version.
LEMMA CopyStep ==
    ASSUME GroupTypeOK, CreationInv, CopyInv, KindInv, [GroupNext]_groupVars
    PROVE  CopyInv' /\ KindInv'
<1> USE DEF CopyInv, KindInv
<1>1. CASE UNCHANGED groupVars
  BY <1>1 DEF groupVars, chatDoc, groupDoc, createVars, opVars
<1>2. CASE Create
  BY <1>2 DEF Create, CreateChat, CreateGroup, CreateFails, CreationInv, chatDoc, opVars
<1>3. ASSUME NEW r \in GroupOps, GroupRequest(r) PROVE CopyInv' /\ KindInv'
  <2> USE DEF Begin, GroupTypeOK, chatDoc
  <2>1. ASSUME NEW u \in Users, NEW M \in SUBSET Users, AddMembers(r, u, M)
        PROVE  CopyInv' /\ KindInv'
    BY <2>1 DEF AddMembers
  <2>2. ASSUME NEW u \in Users, NEW t \in Users, RemoveMember(r, u, t) \/ PromoteAdmin(r, u, t)
        PROVE  CopyInv' /\ KindInv'
    BY <2>2 DEF RemoveMember, PromoteAdmin
  <2>3. CASE AdminDeleteGroup(r)
    BY <2>3 DEF AdminDeleteGroup, PurgeStart
  <2>4. QED BY <1>3, <2>1, <2>2, <2>3 DEF GroupRequest
<1> USE DEF GroupTypeOK, Proceed
<1>4. ASSUME NEW r \in GroupOps, ReadChat(r) PROVE CopyInv' /\ KindInv'
  BY <1>4 DEF ReadChat, chatDoc
<1> v \in Nat /\ \A r \in GroupOps : copy[r].v \in Nat
  BY DEF ChatCopy
<1>5. ASSUME NEW r \in GroupOps, SaveChat(r) PROVE CopyInv' /\ KindInv'
  BY <1>5 DEF SaveChat, AfterSave, chatDoc
<1>6. ASSUME NEW r \in GroupOps, RemoveAdmin(r) \/ AddAdmin(r) PROVE CopyInv' /\ KindInv'
  BY <1>6 DEF RemoveAdmin, AddAdmin, chatDoc
<1>7. ASSUME NEW r \in GroupOps, Dissolve(r) \/ DeleteChatMessages(r)
      PROVE  CopyInv' /\ KindInv'
  BY <1>7 DEF Dissolve, DeleteGroup, DeleteChat, DeleteChatMessages, AfterPurge, chatDoc
<1>8. ASSUME NEW r \in GroupOps, OpFails(r) PROVE CopyInv' /\ KindInv'
  BY <1>8 DEF OpFails, Reading, chatDoc
<1>9. CASE OtherSave
  BY <1>9 DEF OtherSave, opVars
<1>10. CASE Fails /\ GroupCrash
  BY <1>10 DEF GroupCrash, Reading, chatDoc
<1>11. QED
  BY <1>1, <1>2, <1>3, <1>4, <1>5, <1>6, <1>7, <1>8, <1>9, <1>10
     DEF GroupNext, GroupStep, ChangeMembers

\* The conjunction of the parts is invariant.
THEOREM Inductive == GroupSpec => []IndInv
<1>1. GroupInit => IndInv
  BY GroupTypeInit DEF GroupInit, IndInv, CreationInv, ChatInv, CopyInv, KindInv, Purging
<1>2. IndInv /\ [GroupNext]_groupVars => IndInv'
  BY GroupTypeStep, ExistenceStep, CopyStep DEF IndInv
<1>3. QED BY <1>1, <1>2, PTL DEF GroupSpec

-----------------------------------------------------------------------------
(* The properties. *)

\* A group document never outlives or precedes its chat, whatever fails: it is
\* created after the chat and deleted before it.
THEOREM GroupAlwaysHasChat == GroupSpec => []GroupHasChat
<1>1. IndInv => GroupHasChat
  BY DEF IndInv, ChatInv, GroupHasChat
<1>2. QED BY <1>1, Inductive, PTL

\* A user joins or leaves the chat only by a request that names that user,
\* although each save writes the whole array from a copy.
THEOREM MembershipMergesAlways == GroupSpec => MembershipMerges
<1> DEFINE Named ==
        /\ \A u \in participants' \ participants : \E r \in Saved("add") : u \in op[r].who
        /\ \A u \in participants \ participants' : \E r \in Saved("remove") : u \in op[r].who
<1>1. ASSUME IndInv, chatExists, [GroupNext]_groupVars PROVE Named
  <2>1. CASE UNCHANGED groupVars
    BY <2>1 DEF groupVars, chatDoc
  <2>2. CASE Create
    BY <1>1, <2>2 DEF IndInv, CreationInv, Create, CreateChat, CreateGroup, CreateFails, chatDoc
  <2>3. ASSUME NEW r \in GroupOps, GroupRequest(r) PROVE Named
    BY <2>3 DEF GroupRequest, AddMembers, RemoveMember, PromoteAdmin, AdminDeleteGroup, Begin, chatDoc
  <2>4. ASSUME NEW r \in GroupOps, SaveChat(r), participants' # participants PROVE Named
    <3>1. gpc[r] = "saving" /\ gpc'[r] # "saving"
      BY <1>1, <2>4 DEF IndInv, GroupTypeOK, SaveChat, Proceed, AfterSave
    <3>2. copy[r].p = participants /\ op[r].kind \in {"add", "remove"}
      BY <1>1, <2>4, <3>1 DEF IndInv, CopyInv, KindInv, SaveChat, SameVersion, chatDoc
    <3>3. participants' = Changed(r)
      BY <2>4 DEF SaveChat, chatDoc
    <3>4. QED BY <3>1, <3>2, <3>3 DEF Changed, Saved
  <2>5. ASSUME NEW r \in GroupOps,
               ReadChat(r) \/ RemoveAdmin(r) \/ AddAdmin(r) \/ Dissolve(r) \/ DeleteChatMessages(r)
                   \/ OpFails(r)
        PROVE  Named
    BY <2>5 DEF ReadChat, RemoveAdmin, AddAdmin, Dissolve, DeleteGroup, DeleteChat,
                DeleteChatMessages, OpFails, chatDoc
  <2>6. CASE OtherSave \/ (Fails /\ GroupCrash)
    BY <2>6 DEF OtherSave, GroupCrash, chatDoc
  <2>7. CASE participants' = participants
    BY <2>7
  <2>8. QED
    BY <1>1, <2>1, <2>2, <2>3, <2>4, <2>5, <2>6, <2>7 DEF GroupNext, GroupStep, ChangeMembers
<1>2. IndInv /\ [GroupNext]_groupVars => [chatExists /\ chatExists' => Named]_groupVars
  BY <1>1
<1>3. QED BY <1>2, Inductive, PTL DEF GroupSpec, MembershipMerges

\* What StrayAdminsExplained needs besides: a request that has not arrived
\* explains nothing, and who creates a group takes part in its chat.
AdminsInv ==
    /\ StrayAdminsExplained
    /\ \A r \in GroupOps : gpc[r] = "idle" => op[r].kind = "none"
    /\ creation \in {"chat", "adrift"} => creator \in participants

\* r accounts for u, who is an admin and does not take part.
Explains(r, u) ==
    /\ u \in op[r].who
    /\ \/ op[r].kind = "promote" /\ gpc[r] # "promoting"
       \/ op[r].kind = "remove" /\ gpc[r] = "demoting"
       \/ op[r].kind = "remove" /\ gpc[r] = "failed" /\ r \in cutOff

\* Every step preserves it.
LEMMA AdminsStep ==
    ASSUME IndInv, AdminsInv, [GroupNext]_groupVars
    PROVE  AdminsInv'
<1> SUFFICES /\ StrayAdminsExplained'
             /\ \A r \in GroupOps : gpc'[r] = "idle" => op'[r].kind = "none"
             /\ creation' \in {"chat", "adrift"} => creator' \in participants'
  BY DEF AdminsInv
<1>0. /\ op \in [GroupOps -> Operation] /\ gpc \in [GroupOps -> GroupPC]
      /\ cutOff \in SUBSET GroupOps
      /\ \A r \in GroupOps : gpc[r] = "idle" => op[r].kind = "none"
      /\ chatExists => \A u \in admins \ participants : \E r \in GroupOps : Explains(r, u)
  BY DEF IndInv, GroupTypeOK, AdminsInv, StrayAdminsExplained, Explains
<1> USE <1>0 DEF StrayAdminsExplained, Explains
<1>1. CASE UNCHANGED groupVars
  BY <1>1 DEF AdminsInv, groupVars, chatDoc, groupDoc, createVars, opVars
<1>2. CASE Create
  BY <1>2 DEF AdminsInv, IndInv, CreationInv, GroupTypeOK, Create, CreateChat, CreateGroup, CreateFails,
              chatDoc, groupDoc, opVars
<1>3. ASSUME NEW r \in GroupOps, GroupRequest(r) PROVE AdminsInv'
  <2> USE DEF Begin, AdminsInv, IndInv, CreationInv, chatDoc, groupDoc, createVars
  <2>1. ASSUME NEW u \in Users, NEW M \in SUBSET Users, AddMembers(r, u, M) PROVE AdminsInv'
    BY <2>1 DEF AddMembers
  <2>2. ASSUME NEW u \in Users, NEW t \in Users, RemoveMember(r, u, t) PROVE AdminsInv'
    BY <2>2 DEF RemoveMember
  <2>3. ASSUME NEW u \in Users, NEW t \in Users, PromoteAdmin(r, u, t) PROVE AdminsInv'
    BY <2>3 DEF PromoteAdmin
  <2>4. CASE AdminDeleteGroup(r)
    BY <2>4 DEF AdminDeleteGroup, PurgeStart
  <2>5. QED BY <1>3, <2>1, <2>2, <2>3, <2>4 DEF GroupRequest
<1>4. \A r \in GroupOps : gpc[r] \notin {"idle", "failed"} => creation \notin {"chat", "adrift"}
  BY DEF IndInv, CreationInv
<1>5. ASSUME NEW r \in GroupOps, ReadChat(r) PROVE AdminsInv'
  BY <1>4, <1>5 DEF AdminsInv, ReadChat, Proceed, chatDoc, groupDoc, createVars
<1>6. ASSUME NEW r \in GroupOps, SaveChat(r) PROVE AdminsInv'
  <2>1. \/ gpc' = [gpc EXCEPT ![r] = IF r \in cutOff THEN "failed" ELSE AfterSave(r)]
        \/ gpc' = [gpc EXCEPT ![r] = "failed"] /\ participants' = participants
    BY <1>6 DEF SaveChat, Proceed, chatDoc
  <2>2. op' = op /\ cutOff' = cutOff /\ admins' = admins /\ chatExists' = chatExists
    BY <1>6 DEF SaveChat, Proceed, chatDoc, groupDoc
  <2>3. participants' = participants \/ participants' = Changed(r)
    BY <1>6 DEF SaveChat, chatDoc
  <2>4. gpc[r] = "saving" /\ creation' \notin {"chat", "adrift"}
    BY <1>4, <1>6 DEF SaveChat, createVars
  <2>5. participants' # participants =>
           /\ copy[r].p = participants
           /\ gpc' = [gpc EXCEPT ![r] = IF r \in cutOff THEN "failed" ELSE AfterSave(r)]
    BY <1>6, <2>4 DEF IndInv, GroupTypeOK, CopyInv, SaveChat, SameVersion, Proceed, chatDoc
  <2>6. op[r].kind \in {"add", "remove"}
    BY <2>4 DEF IndInv, KindInv
  <2>7. \A u \in admins' \ participants' : chatExists => \E s \in GroupOps : Explains(s, u)'
    <3> SUFFICES ASSUME NEW u \in admins' \ participants', chatExists
                 PROVE  \E s \in GroupOps : Explains(s, u)'
      OBVIOUS
    <3>1. CASE u \in participants
      BY <2>2, <2>3, <2>5, <2>6, <3>1 DEF Changed, AfterSave
    <3>2. CASE u \notin participants
      <4>1. PICK s \in GroupOps : Explains(s, u)
        BY <2>2, <3>2
      <4>2. s # r
        BY <2>4, <2>6, <4>1
      <4>3. QED BY <2>1, <2>2, <4>1, <4>2
    <3>3. QED BY <3>1, <3>2
  <2>8. \A s \in GroupOps : gpc'[s] = "idle" => op'[s].kind = "none"
    BY <2>1, <2>2 DEF AfterSave
  <2>9. QED BY <2>2, <2>4, <2>7, <2>8 DEF AdminsInv
<1>7. ASSUME NEW r \in GroupOps, RemoveAdmin(r) \/ AddAdmin(r) PROVE AdminsInv'
  BY <1>4, <1>7 DEF AdminsInv, IndInv, KindInv, RemoveAdmin, AddAdmin, AddToAdmins, Proceed, chatDoc, createVars
<1>8. ASSUME NEW r \in GroupOps, Dissolve(r) \/ DeleteChatMessages(r) PROVE AdminsInv'
  BY <1>4, <1>8 DEF AdminsInv, Dissolve, DeleteGroup, DeleteChat, DeleteChatMessages, AfterPurge, Proceed,
                    chatDoc, groupDoc, createVars
<1>9. ASSUME NEW r \in GroupOps, OpFails(r) PROVE AdminsInv'
  BY <1>4, <1>9 DEF AdminsInv, OpFails, Reading, Writing, chatDoc, groupDoc, createVars
<1>10. CASE OtherSave
  BY <1>10 DEF AdminsInv, OtherSave, groupDoc, createVars, opVars
<1>11. CASE Fails /\ GroupCrash
  BY <1>11 DEF AdminsInv, IndInv, CreationInv, GroupCrash, Reading, Writing, chatDoc, groupDoc
<1>12. QED
  BY <1>1, <1>2, <1>3, <1>5, <1>6, <1>7, <1>8, <1>9, <1>10, <1>11
     DEF AdminsInv, GroupNext, GroupStep, ChangeMembers

\* An admin who does not take part in the chat was named by a promotion, or by
\* a removal that has yet to run removeAdmin or was cut off before it.
THEOREM StrayAdminsAlwaysExplained == GroupSpec => []StrayAdminsExplained
<1>1. GroupInit => AdminsInv
  BY DEF GroupInit, AdminsInv, StrayAdminsExplained
<1>2. IndInv /\ AdminsInv /\ [GroupNext]_groupVars => AdminsInv'
  BY AdminsStep
<1>3. AdminsInv => StrayAdminsExplained
  BY DEF AdminsInv
<1>4. QED BY <1>1, <1>2, <1>3, Inductive, PTL DEF GroupSpec
=============================================================================
