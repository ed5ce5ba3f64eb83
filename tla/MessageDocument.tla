---------------------------- MODULE MessageDocument ----------------------------
(***************************************************************************)
(* One stored message under concurrent edits, reactions, deletions and     *)
(* read receipts, and the events that tell the clients in the chat of the  *)
(* last two.  Edits and reactions read the document, change the copy in    *)
(* memory and save it; the others are single update commands.              *)
(*                                                                         *)
(* Mongoose's save sends only the modified paths.  Pushing to an array     *)
(* increments the version key v; setting a whole array also requires that  *)
(* v is still the one that was read; setting a path inside an array        *)
(* requires it without incrementing it.  The update commands ignore v.     *)
(***************************************************************************)
EXTENDS Integers, SequencesExt

CONSTANTS
    Users,
    Sender,      \* the author of the message
    Moderators,  \* users with the Admin role
    Requests,    \* requests clients may make on this message
    Emojis,
    Texts,       \* contents a client may send
    Original,    \* the content the message was created with
    Tombstone    \* 'This message was deleted.'

\* The content of a message that has none, or that was edited to ''.
NoText == ""

ASSUME DocumentAssumption ==
    /\ Sender \in Users
    /\ Moderators \subseteq Users
    /\ IsFiniteSet(Requests)
    /\ Original \in Texts \cup {NoText}
    /\ Tombstone \notin Texts \cup {NoText}

VARIABLES
    stored,   \* the message is in the collection
    doc,      \* its fields
    pc,       \* where each request stands
    op,       \* the kind of each request
    user,     \* who made it
    arg,      \* the new content or the emoji
    snap,     \* the copy of the document the request read
    told      \* the events emitted: what was done, by whom

reqVars == <<pc, op, user, arg, snap>>
vars == <<stored, doc, reqVars, told>>

-----------------------------------------------------------------------------
Reaction == [user : Users, emoji : Emojis]
Content == Texts \cup {NoText, Tombstone}

Document ==
    [v : Nat,
     content : Content,
     edits : Seq(Content),
     isDeletedForEveryone : BOOLEAN,
     reactions : Seq(Reaction),
     deletedFor : SUBSET Users,
     readBy : SUBSET Users,
     deliveryStatus : {"sent", "delivered", "read"}]

\* A message as createMessage stores it: with the schema's defaults.
NewMessage(c) ==
    [v |-> 0, content |-> c, edits |-> <<>>, isDeletedForEveryone |-> FALSE,
     reactions |-> <<>>, deletedFor |-> {}, readBy |-> {}, deliveryStatus |-> "sent"]

TypeOK ==
    /\ stored \in BOOLEAN
    /\ doc \in Document
    /\ pc \in [Requests -> {"idle", "saving", "emitting", "done", "null", "error"}]
    /\ op \in [Requests -> {"none", "edit", "react", "hide", "delete", "read"}]
    /\ user \in [Requests -> Users]
    /\ arg \in [Requests -> Texts \cup {NoText} \cup Emojis]
    /\ snap \in [Requests -> Document]
    /\ told \in SUBSET ({"delete", "read"} \X Users)

Init ==
    /\ stored = TRUE
    /\ doc = NewMessage(Original)
    /\ pc = [r \in Requests |-> "idle"]
    /\ op = [r \in Requests |-> "none"]
    /\ user = [r \in Requests |-> Sender]
    /\ arg = [r \in Requests |-> NoText]
    /\ snap = [r \in Requests |-> NewMessage(NoText)]
    /\ told = {}

-----------------------------------------------------------------------------
(* A request arrives, and how it ends. *)

Arrive(r, o, u, a) ==
    /\ pc[r] = "idle"
    /\ op' = [op EXCEPT ![r] = o]
    /\ user' = [user EXCEPT ![r] = u]
    /\ arg' = [arg EXCEPT ![r] = a]

Settle(r, how) ==
    /\ pc' = [pc EXCEPT ![r] = how]
    /\ UNCHANGED snap

\* The save of r: the saved fields replace the current ones.
Save(r, d) ==
    /\ doc' = d
    /\ Settle(r, "done")

Fails(r) ==
    /\ UNCHANGED doc
    /\ Settle(r, "error")

\* Mutant: a deleted message is handed out like any other.
ReadAnyway(r) ==
    IF ~stored
    THEN Settle(r, "null")
    ELSE /\ pc' = [pc EXCEPT ![r] = "saving"]
         /\ snap' = [snap EXCEPT ![r] = doc]

\* The repository's read: null if the message is gone or deleted, else a copy
\* to work on.
ReadForChange(r) ==
    IF ~stored \/ doc.isDeletedForEveryone
    THEN Settle(r, "null")
    ELSE /\ pc' = [pc EXCEPT ![r] = "saving"]
         /\ snap' = [snap EXCEPT ![r] = doc]

-----------------------------------------------------------------------------
(* Edits. *)

\* The service rejects a message that is gone or somebody else's.
EditMessage(r, u, c) ==
    /\ Arrive(r, "edit", u, c)
    /\ IF stored /\ u = Sender THEN ReadForChange(r) ELSE Settle(r, "error")
    /\ UNCHANGED <<stored, doc, told>>

\* Mutant: the save writes back the whole copy.
CopyWithEdit(r) ==
    [snap[r] EXCEPT !.content = arg[r], !.edits = Append(@, snap[r].content), !.v = doc.v + 1]

\* The save pushes the copy's content to the edits and writes the new content
\* if it differs from the copy's.
WithEdit(r) ==
    [doc EXCEPT !.content = IF arg[r] = snap[r].content THEN @ ELSE arg[r],
                !.edits = Append(@, snap[r].content),
                !.v = @ + 1]

\* edits.content is a required string, and '' fails validation.
SaveEdit(r) ==
    /\ pc[r] = "saving" /\ op[r] = "edit"
    /\ IF snap[r].content = NoText \/ ~stored
       THEN Fails(r)
       ELSE Save(r, WithEdit(r))
    /\ UNCHANGED <<stored, op, user, arg, told>>

-----------------------------------------------------------------------------
(* Reactions. *)

ToggleReaction(r, u, e) ==
    /\ Arrive(r, "react", u, e)
    /\ IF stored THEN ReadForChange(r) ELSE Settle(r, "error")
    /\ UNCHANGED <<stored, doc, told>>

\* Where u's reaction is in rs, 0 if there is none: findIndex.
ReactionOf(u, rs) == SelectInSeq(rs, LAMBDA x : x.user = u)

\* Mutant: the save goes by the id alone.
AnyVersion(r) == TRUE

SameVersion(r) == doc.v = snap[r].v

\* No reaction yet in the copy: $push, whatever the version is by now.
AddReaction(r) ==
    /\ ReactionOf(user[r], snap[r].reactions) = 0
    /\ IF stored
       THEN Save(r, [doc EXCEPT !.reactions = Append(@, [user |-> user[r], emoji |-> arg[r]]),
                                !.v = @ + 1])
       ELSE Fails(r)

\* The same emoji again: splice, saved as $set of the whole array.
RemoveReaction(r) ==
    LET i == ReactionOf(user[r], snap[r].reactions) IN
    /\ i > 0 /\ snap[r].reactions[i].emoji = arg[r]
    /\ IF stored /\ SameVersion(r)
       THEN Save(r, [doc EXCEPT !.reactions = RemoveAt(snap[r].reactions, i), !.v = @ + 1])
       ELSE Fails(r)

\* Another emoji: $set of reactions.i.emoji.
ChangeReaction(r) ==
    LET i == ReactionOf(user[r], snap[r].reactions) IN
    /\ i > 0 /\ snap[r].reactions[i].emoji # arg[r]
    /\ IF stored /\ SameVersion(r)
       THEN Save(r, [doc EXCEPT !.reactions[i].emoji = arg[r]])
       ELSE Fails(r)

SaveReaction(r) ==
    /\ pc[r] = "saving" /\ op[r] = "react"
    /\ AddReaction(r) \/ RemoveReaction(r) \/ ChangeReaction(r)
    /\ UNCHANGED <<stored, op, user, arg, told>>

-----------------------------------------------------------------------------
(* Single update commands. *)

DeleteForMe(r, u) ==
    /\ Arrive(r, "hide", u, NoText)
    /\ Settle(r, "done")
    /\ doc' = IF stored THEN [doc EXCEPT !.deletedFor = @ \cup {u}] ELSE doc
    /\ UNCHANGED <<stored, told>>

\* A request over a socket emits when its update is done.
SettleUpdate(r, viaSocket) == Settle(r, IF viaSocket THEN "emitting" ELSE "done")

\* Mutant: the handler does not await the service.
EmitAnyway(r) ==
    /\ UNCHANGED doc
    /\ Settle(r, "emitting")

\* The service rejects; in a socket's handler nobody catches it.
Rejects(r) ==
    /\ UNCHANGED doc
    /\ Settle(r, "error")

Blank(r, viaSocket) ==
    /\ doc' = [doc EXCEPT !.isDeletedForEveryone = TRUE, !.content = Tombstone]
    /\ SettleUpdate(r, viaSocket)

\* Nothing the service reads before the update can change, except that the
\* message goes.
DeleteForEveryone(r, u, viaSocket) ==
    /\ Arrive(r, "delete", u, NoText)
    /\ IF stored /\ u = Sender THEN Blank(r, viaSocket) ELSE Rejects(r)
    /\ UNCHANGED <<stored, told>>

AdminDeleteMessage(r, u) ==
    /\ u \in Moderators
    /\ Arrive(r, "delete", u, NoText)
    /\ IF stored THEN Blank(r, FALSE) ELSE Rejects(r)
    /\ UNCHANGED <<stored, told>>

ReadBy(u) == [doc EXCEPT !.readBy = @ \cup {u}, !.deliveryStatus = "read"]

\* The effect of markAsRead's updateMany on this message.
MarkAsRead(r, u) ==
    /\ Arrive(r, "read", u, NoText)
    /\ SettleUpdate(r, TRUE)
    /\ doc' = IF stored /\ u \notin doc.readBy THEN ReadBy(u) ELSE doc
    /\ UNCHANGED <<stored, told>>

\* To the room of the chat: message_deleted and message:deleted, or
\* message_read and read:receipt.
Emit(r) ==
    /\ pc[r] = "emitting"
    /\ told' = told \cup {<<op[r], user[r]>>}
    /\ Settle(r, "done")
    /\ UNCHANGED <<stored, doc, op, user, arg>>

\* deleteChatMessages, when an admin deletes the group.
Purge ==
    /\ stored
    /\ stored' = FALSE
    /\ UNCHANGED <<doc, reqVars, told>>

-----------------------------------------------------------------------------
Step(r) ==
    \/ \E u \in Users :
          \/ \E c \in Texts \cup {NoText} : EditMessage(r, u, c)
          \/ \E e \in Emojis : ToggleReaction(r, u, e)
          \/ DeleteForMe(r, u) \/ MarkAsRead(r, u) \/ AdminDeleteMessage(r, u)
          \/ \E viaSocket \in BOOLEAN : DeleteForEveryone(r, u, viaSocket)
    \/ SaveEdit(r) \/ SaveReaction(r) \/ Emit(r)

Next == Purge \/ \E r \in Requests : Step(r)

Spec == Init /\ [][Next]_vars

-----------------------------------------------------------------------------
(* Correctness. *)

\* The edits that were saved.
Edited == {r \in Requests : op[r] = "edit" /\ pc[r] = "done"}

\* The edit history has one entry for every saved edit, however the edits
\* overlap, and begins with the content the message was created with: editing
\* never makes the original unrecoverable.
EditHistoryKept ==
    /\ Len(doc.edits) = Cardinality(Edited)
    /\ doc.edits # <<>> => doc.edits[1] = Original

\* The edits that read the message before it was deleted and are still to save.
EditsInFlight == {r \in Requests : op[r] = "edit" /\ pc[r] = "saving"}

\* Once a message is deleted for everyone and the edits already under way have
\* settled, its content can only become the tombstone: an edit that begins
\* later finds it deleted.
\* (An edit under way does overwrite the tombstone, see DeletedIsBlank.)
DeletionIsFinal ==
    [][doc.isDeletedForEveryone /\ EditsInFlight = {}
         => doc.content' \in {doc.content, Tombstone} /\ EditsInFlight' = {}]_vars

ReactionsOf(u) == {i \in DOMAIN doc.reactions : doc.reactions[i].user = u}

\* A user's reaction appears and disappears only by that user's own requests:
\* removing one reaction rewrites the whole array, and the version check makes
\* it fail rather than drop or bring back a reaction of somebody else.
OthersReactionsKept ==
    [][\A u \in Users :
          Cardinality(ReactionsOf(u)') # Cardinality(ReactionsOf(u))
              => \E r \in Requests : pc[r] # pc'[r] /\ user[r] = u /\ op[r] = "react"]_vars

\* What the update commands record survives every later save of a stale copy:
\* receipts and deletions are never undone.
MarksSurvive ==
    [][/\ doc.readBy \subseteq doc.readBy'
       /\ doc.deletedFor \subseteq doc.deletedFor'
       /\ doc.deliveryStatus = "read" => doc.deliveryStatus' = "read"
       /\ doc.isDeletedForEveryone => doc.isDeletedForEveryone']_vars

\* Clients are told only what is so: that a message is deleted for everyone, or
\* read by a user, stays true of the document as long as there is one, whatever
\* stale copies are saved after the event.
EventsTrue ==
    stored => \A e \in told : IF e[1] = "delete" THEN doc.isDeletedForEveryone
                             ELSE e[2] \in doc.readBy

-----------------------------------------------------------------------------
(* What the code intends and concurrent requests break. *)

\* A message deleted for everyone shows the tombstone.
DeletedIsBlank == doc.isDeletedForEveryone => doc.content = Tombstone

\* A user has at most one reaction on a message.
OneReactionPerUser == \A u \in Users : Cardinality(ReactionsOf(u)) <= 1
=============================================================================
