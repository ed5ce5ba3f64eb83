--------------------------------- MODULE Groups ---------------------------------
(***************************************************************************)
(* One group: its group document and the chat document that carries its    *)
(* members, under creation, addMembers, removeMember, promoteAdmin and     *)
(* adminDeleteGroup.  Each handler changes two documents one after the     *)
(* other, and the participants are changed by reading the chat, computing  *)
(* a new array and saving it.                                              *)
(*                                                                         *)
(* Mongoose saves a whole array only if the version key v is still the one *)
(* that was read, and increments it.                                       *)
(***************************************************************************)
EXTENDS Integers

CONSTANTS
    Users,
    GroupOps,    \* requests clients may make on the group
    MaxVersion,  \* bound: other saves of the chat happen below this version
    MaxFaults    \* bound: how many database errors and server crashes happen

ASSUME GroupsAssumption == Users # {} /\ MaxVersion \in Nat /\ MaxFaults \in Nat

VARIABLES
    chatExists,    \* the chat document is in the collection
    participants,  \* chat.participants
    v,             \* the version key of the chat document
    groupExists,   \* the group document is in the collection
    admins,        \* group.admins
    creation,      \* how far createGroup got
    creator,       \* who called createGroup
    gpc,           \* where the handler of each request stands
    op,            \* the request: what and about whom
    copy,          \* the chat as the handler read it
    cutOff,        \* handlers that are gone while a command of theirs is on the wire
    faults         \* database errors and crashes so far

chatDoc == <<chatExists, participants, v>>
groupDoc == <<groupExists, admins>>
createVars == <<creation, creator>>
opVars == <<gpc, op, copy, cutOff>>
groupVars == <<chatDoc, groupDoc, createVars, opVars, faults>>

-----------------------------------------------------------------------------
Kinds == {"none", "add", "remove", "promote", "purge"}

\* Suspended at a read, and at a write whose command is issued.
Reading == {"reading"}
Writing == {"saving", "demoting", "promoting", "purgingGroup", "purgingChat", "purgingMessages"}
GroupPC == {"idle", "done", "failed"} \cup Reading \cup Writing

Operation == [kind : Kinds, who : SUBSET Users]
ChatCopy == [p : SUBSET Users, v : Nat]
NoCopy == [p |-> {}, v |-> 0]

GroupTypeOK ==
    /\ chatExists \in BOOLEAN
    /\ participants \in SUBSET Users
    /\ v \in Nat
    /\ groupExists \in BOOLEAN
    /\ admins \in SUBSET Users
    /\ ~groupExists => admins = {}
    /\ creation \in {"none", "chat", "adrift", "done", "failed"}
    /\ creator \in Users
    /\ gpc \in [GroupOps -> GroupPC]
    /\ op \in [GroupOps -> Operation]
    /\ copy \in [GroupOps -> ChatCopy]
    /\ cutOff \in SUBSET GroupOps
    /\ faults \in 0 .. MaxFaults

\* Nothing was created yet, or the group is as createGroup leaves it.
GroupInit ==
    /\ creator \in Users
    /\ \/ /\ creation = "none"
          /\ chatExists = FALSE /\ groupExists = FALSE
          /\ participants = {} /\ admins = {}
       \/ /\ creation = "done"
          /\ chatExists = TRUE /\ groupExists = TRUE
          /\ \E M \in SUBSET Users : participants = {creator} \cup M
          /\ admins = {creator}
    /\ v = 0
    /\ gpc = [r \in GroupOps |-> "idle"]
    /\ op = [r \in GroupOps |-> [kind |-> "none", who |-> {}]]
    /\ copy = [r \in GroupOps |-> NoCopy]
    /\ cutOff = {}
    /\ faults = 0

-----------------------------------------------------------------------------
(* createGroup: the chat first, then the group. *)

Fails == faults < MaxFaults /\ faults' = faults + 1

CreateChat(u, M) ==
    /\ creation = "none"
    /\ chatExists' = TRUE
    /\ participants' = {u} \cup M
    /\ creator' = u
    /\ creation' = "chat"
    /\ UNCHANGED <<v, groupDoc, opVars, faults>>

\* The insert is applied: its caller is answered, or gone.
CreateGroup ==
    /\ creation \in {"chat", "adrift"}
    /\ groupExists' = TRUE
    /\ admins' = {creator}
    /\ creation' = IF creation = "chat" THEN "done" ELSE "failed"
    /\ UNCHANGED <<chatDoc, creator, opVars, faults>>

\* The insert is refused (a database error, an invite code already taken), or is
\* on the wire and its caller does not learn of it.  The chat stays.
CreateFails ==
    /\ Fails
    /\ creation = "chat"
    /\ creation' = "adrift"
    /\ UNCHANGED <<chatDoc, groupDoc, creator, opVars>>

-----------------------------------------------------------------------------
(* A request on the group: the handler finds the group and checks who asks. *)

\* The handler goes on to its next command or to its answer, if it is still
\* there, and is done with its copy of the chat.
Proceed(r, next) ==
    /\ gpc' = [gpc EXCEPT ![r] = IF r \in cutOff THEN "failed" ELSE next]
    /\ copy' = [copy EXCEPT ![r] = NoCopy]
    /\ UNCHANGED <<op, cutOff>>

\* A request that is refused leaves no trace but its answer.
Begin(r, k, W, allowed, next) ==
    /\ gpc[r] = "idle"
    /\ creation \in {"adrift", "done", "failed"}
    /\ IF groupExists /\ allowed
       THEN /\ op' = [op EXCEPT ![r] = [kind |-> k, who |-> W]]
            /\ gpc' = [gpc EXCEPT ![r] = next]
       ELSE gpc' = [gpc EXCEPT ![r] = "failed"] /\ UNCHANGED op
    /\ UNCHANGED <<chatDoc, groupDoc, createVars, copy, cutOff, faults>>

\* memberPermissions.addMembers: the default, which no route changes.
MembersMayAdd == TRUE

AddMembers(r, u, M) == Begin(r, "add", M, u \in admins \/ MembersMayAdd, "reading")

RemoveMember(r, u, m) == Begin(r, "remove", {m}, u \in admins \/ u = m, "reading")

PromoteAdmin(r, u, t) == Begin(r, "promote", {t}, u \in admins, "promoting")

\* Mutant: the chat goes first.
ChatFirst == "purgingChat"

PurgeStart == "purgingGroup"

\* By an administrator of the service: requireAdmin stands before the handler.
AdminDeleteGroup(r) == Begin(r, "purge", {}, TRUE, PurgeStart)

-----------------------------------------------------------------------------
(* The participants: read, change, save; then the admins. *)

\* chatRepository.findById.  If the chat is gone, addMembers returns and
\* removeMember goes on to the group.
ReadChat(r) ==
    /\ gpc[r] = "reading"
    /\ IF chatExists
       THEN /\ gpc' = [gpc EXCEPT ![r] = "saving"]
            /\ copy' = [copy EXCEPT ![r] = [p |-> participants, v |-> v]]
            /\ UNCHANGED <<op, cutOff>>
       ELSE Proceed(r, IF op[r].kind = "add" THEN "done" ELSE "demoting")
    /\ UNCHANGED <<chatDoc, groupDoc, createVars, faults>>

\* The array the handler assigns.
Changed(r) ==
    IF op[r].kind = "add" THEN copy[r].p \cup op[r].who ELSE copy[r].p \ op[r].who

\* Mutant: the save goes by the id alone.
AnyVersion(r) == TRUE

SameVersion(r) == v = copy[r].v

\* Mutant: the admins are left alone.
NoDemotion(r) == "done"

AfterSave(r) == IF op[r].kind = "add" THEN "done" ELSE "demoting"

\* An array that is assigned but has not changed is not sent; save then only
\* looks whether the document exists.
SaveChat(r) ==
    /\ gpc[r] = "saving"
    /\ \/ /\ op[r].kind = "remove" /\ Changed(r) = copy[r].p
          /\ Proceed(r, IF chatExists THEN AfterSave(r) ELSE "failed")
          /\ UNCHANGED chatDoc
       \/ /\ op[r].kind = "add" \/ Changed(r) # copy[r].p
          /\ IF chatExists /\ SameVersion(r)
             THEN /\ participants' = Changed(r)
                  /\ v' = v + 1
                  /\ Proceed(r, AfterSave(r))
                  /\ UNCHANGED chatExists
             ELSE Proceed(r, "failed") /\ UNCHANGED chatDoc
    /\ UNCHANGED <<groupDoc, createVars, faults>>

\* $pull from and $addToSet to the admins, without effect if the group is gone.
RemoveAdmin(r) ==
    /\ gpc[r] = "demoting"
    /\ admins' = admins \ op[r].who
    /\ Proceed(r, "done")
    /\ UNCHANGED <<chatDoc, groupExists, createVars, faults>>

AddToAdmins(U) == admins' = IF groupExists THEN admins \cup U ELSE admins

AddAdmin(r) ==
    /\ gpc[r] = "promoting"
    /\ AddToAdmins(op[r].who)
    /\ Proceed(r, "done")
    /\ UNCHANGED <<chatDoc, groupExists, createVars, faults>>

-----------------------------------------------------------------------------
(* adminDeleteGroup: the group, its chat, its messages. *)

\* Mutant: the messages go before the chat.
MessagesFirst(r) ==
    CASE gpc[r] = "purgingGroup" -> "purgingMessages"
      [] gpc[r] = "purgingMessages" -> "purgingChat" [] OTHER -> "done"

AfterPurge(r) ==
    CASE gpc[r] = "purgingGroup" -> "purgingChat"
      [] gpc[r] = "purgingChat" -> "purgingMessages" [] OTHER -> "done"

DeleteGroup(r) ==
    /\ gpc[r] = "purgingGroup"
    /\ groupExists' = FALSE
    /\ admins' = {}
    /\ Proceed(r, AfterPurge(r))
    /\ UNCHANGED <<chatDoc, createVars, faults>>

DeleteChat(r) ==
    /\ gpc[r] = "purgingChat"
    /\ chatExists' = FALSE
    /\ Proceed(r, AfterPurge(r))
    /\ UNCHANGED <<participants, v, groupDoc, createVars, faults>>

\* deleteChatMessages, as far as the group is concerned.
DeleteChatMessages(r) ==
    /\ gpc[r] = "purgingMessages"
    /\ Proceed(r, AfterPurge(r))
    /\ UNCHANGED <<chatDoc, groupDoc, createVars, faults>>

\* Another save of the chat document: a pin, mute or archive toggle.
OtherSave ==
    /\ chatExists
    /\ v < MaxVersion
    /\ v' = v + 1
    /\ UNCHANGED <<chatExists, participants, groupDoc, createVars, opVars, faults>>

-----------------------------------------------------------------------------
(* Errors and crashes. *)

\* A command of the handler rejects.  A read leaves nothing behind, a write
\* may have been applied, be applied later, or never.
OpFails(r) ==
    /\ Fails
    /\ r \notin cutOff
    /\ \/ gpc[r] \in Reading /\ gpc' = [gpc EXCEPT ![r] = "failed"] /\ UNCHANGED cutOff
       \/ gpc[r] \in Writing /\ cutOff' = cutOff \cup {r} /\ UNCHANGED gpc
    /\ UNCHANGED <<chatDoc, groupDoc, createVars, op, copy>>

\* The process dies: every handler is gone, commands on the wire are not.
GroupCrash ==
    /\ gpc' = [r \in GroupOps |-> IF gpc[r] \in Reading THEN "failed" ELSE gpc[r]]
    /\ cutOff' = cutOff \cup {r \in GroupOps : gpc[r] \in Writing}
    /\ creation' = IF creation = "chat" THEN "adrift" ELSE creation
    /\ UNCHANGED <<chatDoc, groupDoc, creator, op, copy>>

-----------------------------------------------------------------------------
GroupRequest(r) ==
    \E u, t \in Users :
        \/ \E M \in SUBSET Users \ {{}} : AddMembers(r, u, M)
        \/ RemoveMember(r, u, t) \/ PromoteAdmin(r, u, t)
        \/ AdminDeleteGroup(r)

ChangeMembers(r) == ReadChat(r) \/ SaveChat(r) \/ RemoveAdmin(r) \/ AddAdmin(r)

Dissolve(r) == DeleteGroup(r) \/ DeleteChat(r)

Create ==
    \/ \E u \in Users, M \in SUBSET Users : CreateChat(u, M)
    \/ CreateGroup \/ CreateFails

\* Everything but the deletion of the messages and a crash, which concern
\* the messages as well.
GroupStep ==
    \/ Create
    \/ \E r \in GroupOps : GroupRequest(r) \/ ChangeMembers(r) \/ Dissolve(r) \/ OpFails(r)
    \/ OtherSave

GroupNext ==
    \/ GroupStep
    \/ \E r \in GroupOps : DeleteChatMessages(r)
    \/ Fails /\ GroupCrash

GroupSpec == GroupInit /\ [][GroupNext]_groupVars

-----------------------------------------------------------------------------
(* Correctness. *)

\* The requests that settle their save of the chat in this step.
Saved(k) == {r \in GroupOps : op[r].kind = k /\ gpc[r] = "saving" /\ gpc'[r] # "saving"}

\* A user joins or leaves the chat only by a request that names that user:
\* addMembers and removeMember write the whole participants array from a copy
\* they read, and a save that would undo another member's change is refused.
MembershipMerges ==
    [][chatExists /\ chatExists' =>
         /\ \A u \in participants' \ participants : \E r \in Saved("add") : u \in op[r].who
         /\ \A u \in participants \ participants' : \E r \in Saved("remove") : u \in op[r].who
      ]_groupVars

\* A group document never outlives or precedes its chat: createGroup stores
\* the chat first and adminDeleteGroup deletes it last, whatever fails.
GroupHasChat == groupExists => chatExists

\* An admin who does not take part in the chat was named by a promotion
\* (promoteAdmin does not look at the participants), or left by a removal that
\* has still to run removeAdmin or was cut off before it.
StrayAdminsExplained ==
    chatExists => \A u \in admins \ participants : \E r \in GroupOps :
        /\ u \in op[r].who
        /\ \/ op[r].kind = "promote" /\ gpc[r] # "promoting"
           \/ op[r].kind = "remove" /\ gpc[r] = "demoting"
           \/ op[r].kind = "remove" /\ gpc[r] = "failed" /\ r \in cutOff

\* An administrator was told that the group is deleted.
Deleted == \E r \in GroupOps : op[r].kind = "purge" /\ gpc[r] = "done"
=============================================================================
