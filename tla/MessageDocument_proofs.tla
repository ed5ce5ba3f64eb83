------------------------- MODULE MessageDocument_proofs -------------------------
(***************************************************************************)
(* Theorems about MessageDocument, for every set of users, texts and       *)
(* emojis and every finite set of requests.                                *)
(***************************************************************************)
EXTENDS MessageDocument, FiniteSetTheorems, SequenceTheorems,
        WellFoundedInduction, TLAPS

-----------------------------------------------------------------------------
(* Operators. *)

\* A nonempty set of natural numbers has a least element, and Min is one.
LEMMA MinOfNats ==
    ASSUME NEW I \in SUBSET Nat, I # {}
    PROVE  Min(I) \in I
<1>1. PICK x \in I : \A y \in I : <<y, x>> \notin OpToRel(<, Nat)
  BY NatLessThanWellFounded, WFMin
<1>2. \A y \in I : ~(y < x)
  BY <1>1, Zenon DEF OpToRel
<1>3. \A y \in I : x =< y
  BY <1>2
<1>4. QED BY <1>3 DEF Min

\* findIndex returns a place in the array or, as 0 here, none; at the place
\* it returns there is a reaction of the user.
LEMMA ReactionOfType ==
    ASSUME NEW u \in Users, NEW rs \in Seq(Reaction)
    PROVE  /\ ReactionOf(u, rs) \in 0 .. Len(rs)
           /\ ReactionOf(u, rs) # 0 => rs[ReactionOf(u, rs)].user = u
<1> DEFINE I == {i \in 1 .. Len(rs) : rs[i].user = u}
<1>1. ReactionOf(u, rs) = IF I # {} THEN Min(I) ELSE 0
  BY DEF ReactionOf, SelectInSeq
<1>2. I \in SUBSET Nat
  OBVIOUS
<1>3. I # {} => Min(I) \in I
  BY <1>2, MinOfNats
<1>4. QED BY <1>1, <1>3
\* Changing the emoji at a place, even one past the end, and removing the
\* reaction at a place leave an array of reactions.
LEMMA ReactionsType ==
    ASSUME NEW rs \in Seq(Reaction), NEW i \in Nat
    PROVE  /\ \A e \in Emojis : [rs EXCEPT ![i].emoji = e] \in Seq(Reaction)
           /\ i \in 1 .. Len(rs) => RemoveAt(rs, i) \in Seq(Reaction)
<1>1. ASSUME NEW e \in Emojis
      PROVE  [rs EXCEPT ![i].emoji = e] \in Seq(Reaction)
  <2>1. rs \in [1 .. Len(rs) -> Reaction] /\ Len(rs) \in Nat
    BY LenProperties
  <2>2. \A x \in Reaction : [x EXCEPT !.emoji = e] \in Reaction
    BY DEF Reaction
  <2>3. [rs EXCEPT ![i].emoji = e] \in [1 .. Len(rs) -> Reaction]
    BY <2>1, <2>2, Zenon
  <2>4. QED BY <2>1, <2>3, SeqDef
<1>2. ASSUME i \in 1 .. Len(rs)
      PROVE  RemoveAt(rs, i) \in Seq(Reaction)
  <2>1. SubSeq(rs, 1, i - 1) \in Seq(Reaction) /\ SubSeq(rs, i + 1, Len(rs)) \in Seq(Reaction)
    BY <1>2, LenProperties
  <2>2. QED BY <2>1, ConcatProperties DEF RemoveAt
<1>3. QED BY <1>1, <1>2

-----------------------------------------------------------------------------
(* Type correctness. *)

\* What a request does next is of its kind, and so is what it brought.
KindInv ==
    \A r \in Requests :
        /\ pc[r] = "saving" => \/ op[r] = "edit" /\ arg[r] \in Texts \cup {NoText}
                               \/ op[r] = "react" /\ arg[r] \in Emojis
        /\ pc[r] = "emitting" => op[r] \in {"delete", "read"}

\* A stored message has the fields of a message.
LEMMA NewMessageType ==
    ASSUME NEW c \in Content
    PROVE  NewMessage(c) \in Document
BY EmptySeq DEF NewMessage, Document

\* The initial states are well typed.
LEMMA TypeInit == Init => TypeOK /\ KindInv
<1>1. NewMessage(Original) \in Document /\ NewMessage(NoText) \in Document
  BY NewMessageType, DocumentAssumption DEF Content
<1>2. QED BY <1>1, DocumentAssumption DEF Init, TypeOK, KindInv

\* What an arriving request does with the document, if it brings what requests
\* of its kind bring.
LEMMA ReadType ==
    ASSUME TypeOK, NEW r \in Requests, ReadForChange(r) \/ Settle(r, "error")
    PROVE  /\ pc' \in [Requests -> {"idle", "saving", "emitting", "done", "null", "error"}]
           /\ snap' \in [Requests -> Document]
           /\ pc'[r] # "emitting"
           /\ \A q \in Requests \ {r} : pc'[q] = pc[q]
BY DEF ReadForChange, Settle, TypeOK

\* An arriving request keeps the types of what it brought.
LEMMA ArriveType ==
    ASSUME TypeOK, NEW r \in Requests, NEW u \in Users,
           NEW o \in {"edit", "react", "hide", "delete", "read"},
           NEW a \in Texts \cup {NoText} \cup Emojis, Arrive(r, o, u, a)
    PROVE  /\ op' \in [Requests -> {"none", "edit", "react", "hide", "delete", "read"}]
           /\ user' \in [Requests -> Users]
           /\ arg' \in [Requests -> Texts \cup {NoText} \cup Emojis]
           /\ op'[r] = o /\ user'[r] = u /\ arg'[r] = a
           /\ \A q \in Requests \ {r} : op'[q] = op[q] /\ user'[q] = user[q] /\ arg'[q] = arg[q]
BY DEF Arrive, TypeOK

\* An edit that saves leaves a document.
LEMMA SaveEditType ==
    ASSUME TypeOK, KindInv, NEW r \in Requests, SaveEdit(r)
    PROVE  doc' \in Document
<1>1. CASE UNCHANGED doc
  BY <1>1 DEF TypeOK
<1>2. CASE doc' = WithEdit(r)
  <2>1. arg[r] \in Content /\ snap[r].content \in Content /\ doc \in Document
    BY DEF SaveEdit, KindInv, TypeOK, Content, Document
  <2>2. (IF arg[r] = snap[r].content THEN doc.content ELSE arg[r]) \in Content /\ doc.v + 1 \in Nat
    BY <2>1 DEF Document
  <2>3. Append(doc.edits, snap[r].content) \in Seq(Content)
    BY <2>1, AppendProperties DEF Document
  <2>4. QED BY <1>2, <2>1, <2>2, <2>3 DEF WithEdit, Document
<1>3. QED BY <1>1, <1>2 DEF SaveEdit, Save, Fails

\* A message with other reactions is a message.
LEMMA WithReactionsType ==
    ASSUME NEW d \in Document, NEW q \in Seq(Reaction)
    PROVE  /\ [d EXCEPT !.reactions = q] \in Document
           /\ [d EXCEPT !.reactions = q, !.v = @ + 1] \in Document
<1>1. d.v + 1 \in Nat
  BY DEF Document
<1>2. QED BY <1>1 DEF Document

\* A reaction that saves leaves a document.
LEMMA SaveReactionType ==
    ASSUME TypeOK, KindInv, NEW r \in Requests, SaveReaction(r)
    PROVE  doc' \in Document
<1> DEFINE rs == snap[r].reactions
           i == ReactionOf(user[r], rs)
<1>1. doc \in Document /\ user[r] \in Users /\ arg[r] \in Emojis
  BY DEF SaveReaction, KindInv, TypeOK
<1>2. rs \in Seq(Reaction) /\ doc.reactions \in Seq(Reaction) /\ doc.v \in Nat
  BY <1>1 DEF TypeOK, Document
<1>3. i \in 0 .. Len(rs) /\ Len(rs) \in Nat
  BY <1>1, <1>2, ReactionOfType, LenProperties
<1>4. CASE AddReaction(r)
  <2>1. [user |-> user[r], emoji |-> arg[r]] \in Reaction
    BY <1>1 DEF Reaction
  <2>2. Append(doc.reactions, [user |-> user[r], emoji |-> arg[r]]) \in Seq(Reaction)
    BY <1>2, <2>1, AppendProperties
  <2>3. doc' \in {doc, [doc EXCEPT !.reactions = Append(@, [user |-> user[r], emoji |-> arg[r]]), !.v = @ + 1]}
    BY <1>4 DEF AddReaction, Save, Fails
  <2>4. QED BY <1>1, <2>2, <2>3, WithReactionsType
<1>5. CASE RemoveReaction(r)
  <2>1. RemoveAt(rs, i) \in Seq(Reaction)
    BY <1>2, <1>3, <1>5, ReactionsType DEF RemoveReaction
  <2>2. doc' \in {doc, [doc EXCEPT !.reactions = RemoveAt(rs, i), !.v = @ + 1]}
    BY <1>5 DEF RemoveReaction, Save, Fails
  <2>3. QED BY <1>1, <2>1, <2>2, WithReactionsType
<1>6. CASE ChangeReaction(r)
  <2>1. [doc.reactions EXCEPT ![i].emoji = arg[r]] \in Seq(Reaction)
    BY <1>1, <1>2, <1>3, ReactionsType
  <2>2. doc' \in {doc, [doc EXCEPT !.reactions = [doc.reactions EXCEPT ![i].emoji = arg[r]]]}
    BY <1>6 DEF ChangeReaction, Save, Fails
  <2>3. QED BY <1>1, <2>1, <2>2, WithReactionsType
<1>7. QED BY <1>4, <1>5, <1>6 DEF SaveReaction
\* A message that is read, hidden or deleted is still a message.
LEMMA MarkedType ==
    ASSUME NEW d \in Document, NEW u \in Users
    PROVE  /\ [d EXCEPT !.deletedFor = @ \cup {u}] \in Document
           /\ [d EXCEPT !.readBy = @ \cup {u}, !.deliveryStatus = "read"] \in Document
           /\ [d EXCEPT !.isDeletedForEveryone = TRUE, !.content = Tombstone] \in Document
BY DEF Document, Content

\* Every step keeps the types and the kinds.
LEMMA TypeStep == TypeOK /\ KindInv /\ [Next]_vars => TypeOK' /\ KindInv'
<1> SUFFICES ASSUME TypeOK, KindInv, [Next]_vars
             PROVE  TypeOK' /\ KindInv'
  OBVIOUS
<1> USE DEF KindInv
<1>1. ASSUME NEW r \in Requests, NEW u \in Users, NEW c \in Texts \cup {NoText},
             EditMessage(r, u, c)
      PROVE  TypeOK' /\ KindInv'
  <2>1. Arrive(r, "edit", u, c) /\ (ReadForChange(r) \/ Settle(r, "error"))
    BY <1>1 DEF EditMessage
  <2>2. UNCHANGED <<stored, doc, told>>
    BY <1>1 DEF EditMessage
  <2>3. /\ op' \in [Requests -> {"none", "edit", "react", "hide", "delete", "read"}]
        /\ user' \in [Requests -> Users]
        /\ arg' \in [Requests -> Texts \cup {NoText} \cup Emojis]
        /\ op'[r] = "edit" /\ arg'[r] = c
        /\ \A q \in Requests \ {r} : op'[q] = op[q] /\ arg'[q] = arg[q]
    BY <2>1, ArriveType
  <2>4. QED BY <2>1, <2>2, <2>3, ReadType DEF TypeOK
<1>2. ASSUME NEW r \in Requests, NEW u \in Users, NEW e \in Emojis,
             ToggleReaction(r, u, e)
      PROVE  TypeOK' /\ KindInv'
  <2>1. Arrive(r, "react", u, e) /\ (ReadForChange(r) \/ Settle(r, "error"))
    BY <1>2 DEF ToggleReaction
  <2>2. UNCHANGED <<stored, doc, told>>
    BY <1>2 DEF ToggleReaction
  <2>3. /\ op' \in [Requests -> {"none", "edit", "react", "hide", "delete", "read"}]
        /\ user' \in [Requests -> Users]
        /\ arg' \in [Requests -> Texts \cup {NoText} \cup Emojis]
        /\ op'[r] = "react" /\ arg'[r] = e
        /\ \A q \in Requests \ {r} : op'[q] = op[q] /\ arg'[q] = arg[q]
    BY <2>1, ArriveType
  <2>4. QED BY <2>1, <2>2, <2>3, ReadType DEF TypeOK
<1>3. ASSUME NEW r \in Requests, NEW u \in Users,
             DeleteForMe(r, u) \/ MarkAsRead(r, u) \/ AdminDeleteMessage(r, u)
                \/ \E viaSocket \in BOOLEAN : DeleteForEveryone(r, u, viaSocket)
      PROVE  TypeOK' /\ KindInv'
  <2>1. PICK o \in {"hide", "read", "delete"}, how \in {"done", "emitting", "error"} :
            Arrive(r, o, u, NoText) /\ Settle(r, how) /\ (how = "emitting" => o # "hide")
    BY <1>3 DEF DeleteForMe, MarkAsRead, AdminDeleteMessage, DeleteForEveryone,
                SettleUpdate, Blank, Rejects
  <2>2. doc' \in {doc, [doc EXCEPT !.deletedFor = @ \cup {u}], ReadBy(u),
                  [doc EXCEPT !.isDeletedForEveryone = TRUE, !.content = Tombstone]}
    BY <1>3 DEF DeleteForMe, MarkAsRead, AdminDeleteMessage, DeleteForEveryone, Blank, Rejects
  <2>3. doc' \in Document
    <3>1. doc \in Document
      BY DEF TypeOK
    <3>2. /\ [doc EXCEPT !.deletedFor = @ \cup {u}] \in Document
          /\ ReadBy(u) \in Document
          /\ [doc EXCEPT !.isDeletedForEveryone = TRUE, !.content = Tombstone] \in Document
      BY <3>1, MarkedType, Zenon DEF ReadBy
    <3>3. QED BY <2>2, <3>1, <3>2, Zenon
  <2>4. UNCHANGED <<stored, told>>
    BY <1>3 DEF DeleteForMe, MarkAsRead, AdminDeleteMessage, DeleteForEveryone
  <2>5. QED BY <2>1, <2>3, <2>4, ArriveType DEF Settle, TypeOK
<1>4. ASSUME NEW r \in Requests, SaveEdit(r) \/ SaveReaction(r)
      PROVE  TypeOK' /\ KindInv'
  <2>1. doc' \in Document
    BY <1>4, SaveEditType, SaveReactionType
  <2>2. PICK how \in {"done", "error"} : Settle(r, how)
    BY <1>4 DEF SaveEdit, SaveReaction, AddReaction, RemoveReaction, ChangeReaction, Save, Fails
  <2>3. UNCHANGED <<stored, op, user, arg, told>>
    BY <1>4 DEF SaveEdit, SaveReaction
  <2>4. QED BY <2>1, <2>2, <2>3 DEF Settle, TypeOK
<1>5. ASSUME NEW r \in Requests, Emit(r)
      PROVE  TypeOK' /\ KindInv'
  BY <1>5 DEF Emit, Settle, TypeOK
<1>6. CASE Purge
  BY <1>6 DEF Purge, TypeOK, reqVars
<1>7. CASE UNCHANGED vars
  BY <1>7 DEF vars, reqVars, TypeOK
<1>8. QED BY <1>1, <1>2, <1>3, <1>4, <1>5, <1>6, <1>7 DEF Next, Step

\* The message and the requests about it have the types declared for them,
\* whatever copies are saved over it.
THEOREM TypeCorrect == Spec => [](TypeOK /\ KindInv)
BY TypeInit, TypeStep, PTL DEF Spec

-----------------------------------------------------------------------------
(* What a stale copy can never undo. *)

\* No save touches what the update commands record, and no update command
\* takes back what another has recorded.
LEMMA MarksStep ==
    ASSUME TypeOK, [Next]_vars
    PROVE  /\ doc.readBy \subseteq doc'.readBy
           /\ doc.deletedFor \subseteq doc'.deletedFor
           /\ doc.deliveryStatus = "read" => doc'.deliveryStatus = "read"
           /\ doc.isDeletedForEveryone => doc'.isDeletedForEveryone
<1>0. doc \in Document
  BY DEF TypeOK
<1> DEFINE Kept(d) == /\ doc.readBy \subseteq d.readBy
                      /\ doc.deletedFor \subseteq d.deletedFor
                      /\ doc.deliveryStatus = "read" => d.deliveryStatus = "read"
                      /\ doc.isDeletedForEveryone => d.isDeletedForEveryone
<1>1. CASE UNCHANGED doc
  BY <1>1
<1>2. ASSUME NEW r \in Requests, SaveEdit(r), doc' # doc
      PROVE  Kept(doc')
  <2>1. doc' = WithEdit(r)
    BY <1>2 DEF SaveEdit, Save, Fails
  <2>2. QED BY <1>0, <2>1 DEF WithEdit, Document
<1>3. ASSUME NEW r \in Requests, SaveReaction(r), doc' # doc
      PROVE  Kept(doc')
  <2>1. PICK q, n : doc' = [doc EXCEPT !.reactions = q, !.v = n]
    <3>1. CASE AddReaction(r)
      BY <1>3, <3>1 DEF AddReaction, Save, Fails
    <3>2. CASE RemoveReaction(r)
      BY <1>3, <3>2 DEF RemoveReaction, Save, Fails
    <3>3. CASE ChangeReaction(r)
      <4> DEFINE i == ReactionOf(user[r], snap[r].reactions)
                 q == [doc.reactions EXCEPT ![i].emoji = arg[r]]
      <4>1. doc' = [doc EXCEPT !.reactions = q]
        BY <1>3, <3>3 DEF ChangeReaction, Save, Fails
      <4> HIDE DEF q
      <4>2. doc' = [doc EXCEPT !.reactions = q, !.v = doc.v]
        BY <1>0, <4>1 DEF Document
      <4>3. QED BY <4>2
    <3>4. QED BY <1>3, <3>1, <3>2, <3>3 DEF SaveReaction
  <2>2. QED BY <1>0, <2>1 DEF Document
<1>4. ASSUME NEW r \in Requests, NEW u \in Users,
             DeleteForMe(r, u) \/ MarkAsRead(r, u) \/ AdminDeleteMessage(r, u)
                \/ \E viaSocket \in BOOLEAN : DeleteForEveryone(r, u, viaSocket)
      PROVE  Kept(doc')
  <2>1. doc' \in {doc, [doc EXCEPT !.deletedFor = @ \cup {u}], ReadBy(u),
                  [doc EXCEPT !.isDeletedForEveryone = TRUE, !.content = Tombstone]}
    BY <1>4 DEF DeleteForMe, MarkAsRead, AdminDeleteMessage, DeleteForEveryone, Blank, Rejects
  <2>2. CASE doc' = doc
    BY <2>2
  <2>3. CASE doc' = [doc EXCEPT !.deletedFor = @ \cup {u}]
    BY <1>0, <2>3 DEF Document
  <2>4. CASE doc' = ReadBy(u)
    BY <1>0, <2>4 DEF ReadBy, Document
  <2>5. CASE doc' = [doc EXCEPT !.isDeletedForEveryone = TRUE, !.content = Tombstone]
    BY <1>0, <2>5 DEF Document
  <2>6. QED BY <2>1, <2>2, <2>3, <2>4, <2>5
<1>5. QED
  BY <1>1, <1>2, <1>3, <1>4
     DEF Next, Step, Purge, Emit, EditMessage, ToggleReaction, vars
\* Receipts and deletions are never undone.
THEOREM MarksAlwaysSurvive == Spec => MarksSurvive
<1>1. TypeOK /\ [Next]_vars
        => [/\ doc.readBy \subseteq doc.readBy'
            /\ doc.deletedFor \subseteq doc.deletedFor'
            /\ doc.deliveryStatus = "read" => doc.deliveryStatus' = "read"
            /\ doc.isDeletedForEveryone => doc.isDeletedForEveryone']_vars
  BY MarksStep
<1>2. Spec => []TypeOK
  BY TypeCorrect, PTL
<1>3. QED BY <1>1, <1>2, PTL DEF Spec, MarksSurvive

-----------------------------------------------------------------------------
(* Events. *)

\* A request that is about to emit has made its mark, unless the message has
\* gone meanwhile.
MarkMade ==
    stored => \A r \in Requests : pc[r] = "emitting" =>
                  IF op[r] = "delete" THEN doc.isDeletedForEveryone ELSE user[r] \in doc.readBy

\* Events are true of the document, and stay so.
LEMMA EventsStep ==
    ASSUME TypeOK, KindInv, MarkMade, EventsTrue, [Next]_vars
    PROVE  MarkMade' /\ EventsTrue'
<1>0. /\ doc \in Document
      /\ doc.readBy \subseteq doc'.readBy
      /\ doc.isDeletedForEveryone => doc'.isDeletedForEveryone
      /\ stored' => stored
  <2>1. stored' => stored
    BY DEF Next, Step, Purge, Emit, EditMessage, ToggleReaction, DeleteForMe, MarkAsRead,
           AdminDeleteMessage, DeleteForEveryone, SaveEdit, SaveReaction, vars
  <2>2. QED BY <2>1, MarksStep DEF TypeOK
<1> DEFINE SameOthers(r) == \A q \in Requests \ {r} :
                                pc'[q] = pc[q] /\ op'[q] = op[q] /\ user'[q] = user[q]
<1>1. ASSUME NEW r \in Requests, SameOthers(r), told' = told, pc'[r] # "emitting"
      PROVE  MarkMade' /\ EventsTrue'
  BY <1>0, <1>1 DEF MarkMade, EventsTrue
<1>2. ASSUME NEW r \in Requests, NEW u \in Users,
             \/ \E c \in Texts \cup {NoText} : EditMessage(r, u, c)
             \/ \E e \in Emojis : ToggleReaction(r, u, e)
             \/ DeleteForMe(r, u)
      PROVE  MarkMade' /\ EventsTrue'
  <2>1. SameOthers(r) /\ told' = told /\ pc'[r] # "emitting"
    BY <1>2 DEF EditMessage, ToggleReaction, DeleteForMe, Arrive, ReadForChange, Settle, TypeOK
  <2>2. QED BY <1>1, <2>1
<1>3. ASSUME NEW r \in Requests, SaveEdit(r) \/ SaveReaction(r)
      PROVE  MarkMade' /\ EventsTrue'
  <2>1. PICK how \in {"done", "error"} : Settle(r, how)
    BY <1>3 DEF SaveEdit, SaveReaction, AddReaction, RemoveReaction, ChangeReaction, Save, Fails
  <2>2. UNCHANGED <<op, user, told>>
    BY <1>3 DEF SaveEdit, SaveReaction
  <2>3. SameOthers(r) /\ told' = told /\ pc'[r] # "emitting"
    BY <2>1, <2>2 DEF Settle, TypeOK
  <2>4. QED BY <1>1, <2>3
<1>4. ASSUME NEW r \in Requests, NEW u \in Users,
             \/ MarkAsRead(r, u) \/ AdminDeleteMessage(r, u)
             \/ \E viaSocket \in BOOLEAN : DeleteForEveryone(r, u, viaSocket)
      PROVE  MarkMade' /\ EventsTrue'
  <2>1. SameOthers(r) /\ told' = told
    BY <1>4 DEF MarkAsRead, AdminDeleteMessage, DeleteForEveryone, Arrive, Blank, Rejects,
                SettleUpdate, Settle, TypeOK
  <2>2. user'[r] = u /\ op'[r] \in {"read", "delete"}
    BY <1>4 DEF MarkAsRead, AdminDeleteMessage, DeleteForEveryone, Arrive, TypeOK
  <2>3. stored /\ pc'[r] = "emitting" =>
          IF op'[r] = "delete" THEN doc'.isDeletedForEveryone ELSE u \in doc'.readBy
    <3>1. CASE MarkAsRead(r, u)
      <4>1. op'[r] = "read"
        BY <3>1 DEF MarkAsRead, Arrive, TypeOK
      <4>2. stored => u \in doc'.readBy
        BY <1>0, <3>1 DEF MarkAsRead, ReadBy, Document
      <4>3. QED BY <4>1, <4>2
    <3>2. CASE AdminDeleteMessage(r, u) \/ \E viaSocket \in BOOLEAN : DeleteForEveryone(r, u, viaSocket)
      <4>1. op'[r] = "delete"
        BY <3>2 DEF AdminDeleteMessage, DeleteForEveryone, Arrive, TypeOK
      <4>2. pc'[r] = "emitting" =>
              doc' = [doc EXCEPT !.isDeletedForEveryone = TRUE, !.content = Tombstone]
        BY <3>2 DEF AdminDeleteMessage, DeleteForEveryone, Blank, Rejects, SettleUpdate, Settle, TypeOK
      <4>3. QED BY <1>0, <4>1, <4>2 DEF Document
    <3>3. QED BY <1>4, <3>1, <3>2
  <2>4. QED BY <1>0, <2>1, <2>2, <2>3 DEF MarkMade, EventsTrue
<1>5. ASSUME NEW r \in Requests, Emit(r)
      PROVE  MarkMade' /\ EventsTrue'
  <2>1. UNCHANGED <<stored, doc, op, user>> /\ Settle(r, "done")
        /\ told' = told \cup {<<op[r], user[r]>>} /\ pc[r] = "emitting"
    BY <1>5 DEF Emit
  <2>2. SameOthers(r) /\ pc'[r] = "done"
    BY <2>1 DEF Settle, TypeOK
  <2>3. MarkMade'
    BY <2>1, <2>2 DEF MarkMade
  <2>4. EventsTrue'
    BY <2>1 DEF MarkMade, EventsTrue
  <2>5. QED BY <2>3, <2>4
<1>6. CASE Purge \/ UNCHANGED vars
  BY <1>6 DEF Purge, vars, reqVars, MarkMade, EventsTrue
<1>7. QED BY <1>2, <1>3, <1>4, <1>5, <1>6 DEF Next, Step

\* Clients are told only what stays true: a deletion or a receipt is emitted
\* after the document has it and no later save takes it away.
THEOREM EventsAlwaysTrue == Spec => []EventsTrue
<1>1. Init => MarkMade /\ EventsTrue
  BY DEF Init, MarkMade, EventsTrue
<1>2. TypeOK /\ KindInv /\ MarkMade /\ EventsTrue /\ [Next]_vars => (MarkMade /\ EventsTrue)'
  BY EventsStep
<1>3. QED BY <1>1, <1>2, TypeCorrect, PTL DEF Spec
-----------------------------------------------------------------------------
(* Edits. *)

\* What an edit under way has read, and what it will push, is the original
\* content until some edit is saved.
OriginalRead ==
    doc.edits = <<>> =>
        /\ ~doc.isDeletedForEveryone => doc.content = Original
        /\ \A r \in EditsInFlight : snap[r].content = Original

HistoryInv == EditHistoryKept /\ OriginalRead

\* A step of a request that is not the save of an edit leaves the edits alone,
\* and the content too unless it blanks a deleted message.
LEMMA OtherSteps ==
    ASSUME TypeOK, KindInv, [Next]_vars, \A r \in Requests : ~SaveEdit(r)
    PROVE  /\ doc'.edits = doc.edits
           /\ \/ doc'.content = doc.content /\ doc'.isDeletedForEveryone = doc.isDeletedForEveryone
              \/ doc'.content = Tombstone /\ doc'.isDeletedForEveryone
           /\ Edited' = Edited
           /\ \A r \in EditsInFlight' :
                 \/ r \in EditsInFlight /\ snap'[r] = snap[r]
                 \/ snap'[r] = doc /\ ~doc.isDeletedForEveryone
<1> DEFINE SameEdits == Edited' = Edited
           SameFlight == \A r \in EditsInFlight' : r \in EditsInFlight /\ snap'[r] = snap[r]
           SameContent == /\ doc'.edits = doc.edits
                          /\ doc'.content = doc.content
                          /\ doc'.isDeletedForEveryone = doc.isDeletedForEveryone
<1>0. doc \in Document
  BY DEF TypeOK
<1>1. ASSUME NEW r \in Requests, NEW u \in Users, NEW c \in Texts \cup {NoText},
             EditMessage(r, u, c)
      PROVE  /\ SameContent /\ SameEdits
             /\ \A q \in EditsInFlight' :
                   \/ q \in EditsInFlight /\ snap'[q] = snap[q]
                   \/ snap'[q] = doc /\ ~doc.isDeletedForEveryone
  <2>1. Edited' = Edited
    BY <1>1 DEF EditMessage, Arrive, ReadForChange, Settle, TypeOK, Edited
  <2>2. QED
    BY <1>1, <2>1 DEF EditMessage, Arrive, ReadForChange, Settle, TypeOK, EditsInFlight
<1>2. ASSUME NEW r \in Requests, NEW u \in Users, NEW e \in Emojis, ToggleReaction(r, u, e)
      PROVE  SameContent /\ SameEdits /\ SameFlight
  <2>1. Edited' = Edited
    BY <1>2 DEF ToggleReaction, Arrive, ReadForChange, Settle, TypeOK, Edited
  <2>2. QED
    BY <1>2, <2>1 DEF ToggleReaction, Arrive, ReadForChange, Settle, TypeOK, EditsInFlight
<1>3. ASSUME NEW r \in Requests, NEW u \in Users,
             DeleteForMe(r, u) \/ MarkAsRead(r, u) \/ AdminDeleteMessage(r, u)
                \/ \E viaSocket \in BOOLEAN : DeleteForEveryone(r, u, viaSocket)
      PROVE  /\ doc'.edits = doc.edits
             /\ SameContent \/ (doc'.content = Tombstone /\ doc'.isDeletedForEveryone)
             /\ SameEdits /\ SameFlight
  <2>1. PICK o \in {"hide", "read", "delete"}, how \in {"done", "emitting", "error"} :
            Arrive(r, o, u, NoText) /\ Settle(r, how)
    BY <1>3 DEF DeleteForMe, MarkAsRead, AdminDeleteMessage, DeleteForEveryone,
                SettleUpdate, Blank, Rejects
  <2>2. SameEdits /\ SameFlight
    BY <2>1 DEF Arrive, Settle, TypeOK, Edited, EditsInFlight
  <2>3. doc' \in {doc, [doc EXCEPT !.deletedFor = @ \cup {u}], ReadBy(u),
                  [doc EXCEPT !.isDeletedForEveryone = TRUE, !.content = Tombstone]}
    BY <1>3 DEF DeleteForMe, MarkAsRead, AdminDeleteMessage, DeleteForEveryone, Blank, Rejects
  <2>4. SameContent \/ (doc'.content = Tombstone /\ doc'.isDeletedForEveryone)
    <3>1. CASE doc' = [doc EXCEPT !.isDeletedForEveryone = TRUE, !.content = Tombstone]
      BY <1>0, <3>1 DEF Document
    <3>2. CASE doc' = ReadBy(u)
      BY <1>0, <3>2 DEF ReadBy, Document
    <3>3. CASE doc' = [doc EXCEPT !.deletedFor = @ \cup {u}]
      BY <1>0, <3>3 DEF Document
    <3>4. QED BY <2>3, <3>1, <3>2, <3>3
  <2>5. doc'.edits = doc.edits
    BY <1>0, <2>3 DEF ReadBy, Document
  <2>6. QED BY <2>2, <2>4, <2>5
<1>4. ASSUME NEW r \in Requests, SaveReaction(r)
      PROVE  SameContent /\ SameEdits /\ SameFlight
  <2>1. PICK how \in {"done", "error"} : Settle(r, how)
    BY <1>4 DEF SaveReaction, AddReaction, RemoveReaction, ChangeReaction, Save, Fails
  <2>2. SameEdits /\ SameFlight
    BY <1>4, <2>1 DEF SaveReaction, Settle, TypeOK, Edited, EditsInFlight
  <2>3. SameContent
    <3>1. CASE AddReaction(r)
      BY <1>0, <3>1 DEF AddReaction, Save, Fails, Document
    <3>2. CASE RemoveReaction(r)
      BY <1>0, <3>2 DEF RemoveReaction, Save, Fails, Document
    <3>3. CASE ChangeReaction(r)
      BY <1>0, <3>3 DEF ChangeReaction, Save, Fails, Document
    <3>4. QED BY <1>4, <3>1, <3>2, <3>3 DEF SaveReaction
  <2>4. QED BY <2>2, <2>3
<1>5. ASSUME NEW r \in Requests, Emit(r)
      PROVE  SameContent /\ SameEdits /\ SameFlight
  BY <1>5 DEF Emit, Settle, TypeOK, KindInv, Edited, EditsInFlight
<1>6. CASE Purge \/ UNCHANGED vars
  BY <1>6 DEF Purge, vars, reqVars, Edited, EditsInFlight
<1>7. QED BY <1>1, <1>2, <1>3, <1>4, <1>5, <1>6 DEF Next, Step

\* The save of an edit adds it to the history, unless it fails.
LEMMA SaveEditStep ==
    ASSUME TypeOK, HistoryInv, NEW r \in Requests, SaveEdit(r)
    PROVE  HistoryInv'
<1>0. doc \in Document /\ doc.edits \in Seq(Content) /\ snap[r].content \in Content
  BY DEF TypeOK, Document
<1>1. CASE UNCHANGED doc /\ pc' = [pc EXCEPT ![r] = "error"] /\ UNCHANGED snap
  <2>1. Edited' = Edited /\ EditsInFlight' \subseteq EditsInFlight
    BY <1>1 DEF SaveEdit, TypeOK, Edited, EditsInFlight
  <2>2. QED BY <1>1, <2>1 DEF HistoryInv, EditHistoryKept, OriginalRead
<1>2. CASE doc' = WithEdit(r) /\ pc' = [pc EXCEPT ![r] = "done"] /\ UNCHANGED snap
  <2>1. doc'.edits = Append(doc.edits, snap[r].content)
    BY <1>0, <1>2 DEF WithEdit, Document
  <2>2. /\ doc'.edits # <<>>
        /\ Len(doc'.edits) = Len(doc.edits) + 1
        /\ doc'.edits[1] = IF doc.edits = <<>> THEN snap[r].content ELSE doc.edits[1]
    BY <1>0, <2>1
  <2>3. Len(doc'.edits) = Cardinality(Edited')
    <3>1. Edited' = Edited \cup {r} /\ r \notin Edited
      BY <1>2 DEF SaveEdit, TypeOK, Edited
    <3>2. IsFiniteSet(Edited)
      BY DocumentAssumption, FS_Subset DEF Edited
    <3>3. Cardinality(Edited') = Cardinality(Edited) + 1
      BY <3>1, <3>2, FS_AddElement
    <3>4. QED BY <2>2, <3>3 DEF HistoryInv, EditHistoryKept
  <2>4. doc'.edits[1] = Original
    BY <2>2 DEF HistoryInv, EditHistoryKept, OriginalRead, EditsInFlight, SaveEdit
  <2>5. QED BY <2>2, <2>3, <2>4 DEF HistoryInv, EditHistoryKept, OriginalRead
<1>3. QED BY <1>1, <1>2 DEF SaveEdit, Save, Fails, Settle

\* Every saved edit is in the history, and the history begins with the content
\* the message was created with, however edits, reactions and deletions overlap.
THEOREM EditHistoryAlwaysKept == Spec => []EditHistoryKept
<1>1. Init => HistoryInv
  <2> SUFFICES ASSUME Init PROVE HistoryInv
    OBVIOUS
  <2>1. Edited = {} /\ EditsInFlight = {}
    BY DEF Init, Edited, EditsInFlight
  <2>2. doc.edits = <<>> /\ doc.content = Original
    BY DEF Init, NewMessage
  <2>3. QED BY <2>1, <2>2, FS_EmptySet DEF HistoryInv, EditHistoryKept, OriginalRead
<1>2. TypeOK /\ KindInv /\ HistoryInv /\ [Next]_vars => HistoryInv'
  <2> SUFFICES ASSUME TypeOK, KindInv, HistoryInv, [Next]_vars, \A r \in Requests : ~SaveEdit(r)
               PROVE  HistoryInv'
    BY SaveEditStep
  <2>1. Edited' = Edited /\ doc'.edits = doc.edits
    BY OtherSteps
  <2>2. EditHistoryKept'
    BY <2>1 DEF HistoryInv, EditHistoryKept
  <2>3. OriginalRead'
    BY OtherSteps DEF HistoryInv, OriginalRead
  <2>4. QED BY <2>2, <2>3 DEF HistoryInv
<1>3. HistoryInv => EditHistoryKept
  BY DEF HistoryInv
<1>4. QED BY <1>1, <1>2, <1>3, TypeCorrect, PTL DEF Spec

\* Once a deleted message has no edit under way, no edit can bring its content
\* back.
THEOREM DeletionAlwaysFinal == Spec => DeletionIsFinal
<1>1. TypeOK /\ KindInv /\ [Next]_vars
        => [doc.isDeletedForEveryone /\ EditsInFlight = {}
              => doc.content' \in {doc.content, Tombstone} /\ EditsInFlight' = {}]_vars
  <2> SUFFICES ASSUME TypeOK, KindInv, [Next]_vars,
                      doc.isDeletedForEveryone, EditsInFlight = {}
               PROVE  doc.content' \in {doc.content, Tombstone} /\ EditsInFlight' = {}
    OBVIOUS
  <2>1. \A r \in Requests : ~SaveEdit(r)
    BY DEF SaveEdit, EditsInFlight
  <2>2. QED BY <2>1, OtherSteps
<1>2. QED BY <1>1, TypeCorrect, PTL DEF Spec, DeletionIsFinal
-----------------------------------------------------------------------------
(* Reactions of others. *)

\* The places of a user's reactions in an array.
PlacesOf(u, rs) == {i \in DOMAIN rs : rs[i].user = u}

\* Two arrays that have reactions of the same users at the same places.
SameUsers(s, t) == Len(s) = Len(t) /\ \A i \in 1 .. Len(s) : s[i].user = t[i].user

\* The places of a user are finitely many.
LEMMA PlacesFinite ==
    ASSUME NEW rs \in Seq(Reaction), NEW u
    PROVE  IsFiniteSet(PlacesOf(u, rs))
<1>1. PlacesOf(u, rs) \in SUBSET (1 .. Len(rs)) /\ Len(rs) \in Nat
  BY LenProperties DEF PlacesOf
<1>2. IsFiniteSet(1 .. Len(rs))
  BY <1>1, FS_Interval
<1>3. QED BY <1>1, <1>2, FS_Subset

\* Arrays with the same users at the same places have the same places of each.
LEMMA SamePlaces ==
    ASSUME NEW s \in Seq(Reaction), NEW t \in Seq(Reaction), SameUsers(s, t), NEW u
    PROVE  PlacesOf(u, s) = PlacesOf(u, t)
<1>1. DOMAIN s = 1 .. Len(s) /\ DOMAIN t = 1 .. Len(t) /\ Len(s) = Len(t)
  BY LenProperties DEF SameUsers
<1>2. QED BY <1>1 DEF PlacesOf, SameUsers

\* A reaction that is pushed leaves those of other users where they are.
LEMMA PlacesAppended ==
    ASSUME NEW rs \in Seq(Reaction), NEW x \in Reaction, NEW u, x.user # u
    PROVE  PlacesOf(u, Append(rs, x)) = PlacesOf(u, rs)
<1> DEFINE a == Append(rs, x)
<1>1. /\ a \in Seq(Reaction) /\ Len(a) = Len(rs) + 1
      /\ \A i \in 1 .. Len(rs) : a[i] = rs[i]
      /\ a[Len(rs) + 1] = x
  BY AppendProperties
<1> HIDE DEF a
<1>2. DOMAIN a = 1 .. Len(a) /\ DOMAIN rs = 1 .. Len(rs) /\ Len(rs) \in Nat
  BY <1>1, LenProperties
<1>3. \A i \in 1 .. Len(rs) + 1 : i \in 1 .. Len(rs) \/ i = Len(rs) + 1
  BY <1>2
<1>4. PlacesOf(u, a) = PlacesOf(u, rs)
  BY <1>1, <1>2, <1>3 DEF PlacesOf
<1>5. QED BY <1>4 DEF a

\* A changed emoji leaves every user where they are.
LEMMA PlacesChanged ==
    ASSUME NEW rs \in Seq(Reaction), NEW i \in Nat, NEW e \in Emojis
    PROVE  SameUsers([rs EXCEPT ![i].emoji = e], rs)
<1> DEFINE c == [rs EXCEPT ![i].emoji = e]
<1>1. c \in Seq(Reaction) /\ DOMAIN c = DOMAIN rs
  BY ReactionsType
<1>2. DOMAIN rs = 1 .. Len(rs) /\ Len(rs) \in Nat /\ DOMAIN c = 1 .. Len(c) /\ Len(c) \in Nat
  BY <1>1, LenProperties
<1>3. Len(c) = Len(rs)
  BY <1>1, <1>2
<1>4. ASSUME NEW j \in 1 .. Len(rs) PROVE c[j].user = rs[j].user
  <2>1. rs[j] \in Reaction
    BY ElementOfSeq
  <2>2. c[j] = IF j = i THEN [rs[j] EXCEPT !.emoji = e] ELSE rs[j]
    BY <1>2
  <2>3. QED BY <2>1, <2>2 DEF Reaction
<1> HIDE DEF c
<1>5. SameUsers(c, rs)
  BY <1>3, <1>4 DEF SameUsers
<1>6. QED BY <1>5 DEF c

\* Removing one place moves those behind it, and no other user has more or
\* fewer of them.
LEMMA PlacesRemoved ==
    ASSUME NEW rs \in Seq(Reaction), NEW i \in 1 .. Len(rs), NEW u, rs[i].user # u
    PROVE  Cardinality(PlacesOf(u, RemoveAt(rs, i))) = Cardinality(PlacesOf(u, rs))
<1> DEFINE before == SubSeq(rs, 1, i - 1)
           after == SubSeq(rs, i + 1, Len(rs))
           m == RemoveAt(rs, i)
           S == PlacesOf(u, rs)
           T == PlacesOf(u, m)
           f == [j \in S |-> IF j < i THEN j ELSE j - 1]
<1>1. Len(rs) \in Nat /\ DOMAIN rs = 1 .. Len(rs) /\ \A j \in 1 .. Len(rs) : rs[j] \in Reaction
  BY LenProperties, ElementOfSeq
<1>2. /\ before \in Seq(Reaction) /\ Len(before) = i - 1
      /\ \A j \in 1 .. i - 1 : before[j] = rs[j]
  <2>1. /\ before \in Seq(Reaction) /\ Len(before) = IF 1 <= i - 1 THEN i - 1 - 1 + 1 ELSE 0
        /\ \A j \in 1 .. i - 1 - 1 + 1 : before[j] = rs[1 + j - 1]
    BY <1>1, SubSeqProperties
  <2> HIDE DEF before
  <2>2. QED BY <1>1, <2>1
<1>3. /\ after \in Seq(Reaction) /\ Len(after) = Len(rs) - i
      /\ \A j \in 1 .. Len(rs) - i : after[j] = rs[i + j]
  <2>1. /\ after \in Seq(Reaction)
        /\ Len(after) = IF i + 1 <= Len(rs) THEN Len(rs) - (i + 1) + 1 ELSE 0
        /\ \A j \in 1 .. Len(rs) - (i + 1) + 1 : after[j] = rs[i + 1 + j - 1]
    BY <1>1, SubSeqProperties
  <2> HIDE DEF after
  <2>2. Len(after) = Len(rs) - i
    <3>1. Len(after) = IF i + 1 <= Len(rs) THEN Len(rs) - (i + 1) + 1 ELSE 0
      BY <2>1
    <3>2. Len(rs) \in Int /\ i \in Int /\ i <= Len(rs)
      BY <1>1
    <3>3. i + 1 <= Len(rs) \/ i = Len(rs)
      BY <3>2
    <3>4. QED BY <3>1, <3>2, <3>3
  <2>3. ASSUME NEW j \in 1 .. Len(rs) - i PROVE after[j] = rs[i + j]
    <3>1. j \in 1 .. Len(rs) - (i + 1) + 1 /\ i + 1 + j - 1 = i + j
      BY <1>1
    <3>2. QED BY <2>1, <3>1
  <2>4. QED BY <2>1, <2>2, <2>3
<1>4. /\ m \in Seq(Reaction) /\ Len(m) = Len(before) + Len(after)
      /\ \A j \in 1 .. Len(before) + Len(after) :
            m[j] = IF j <= Len(before) THEN before[j] ELSE after[j - Len(before)]
  BY <1>2, <1>3, ConcatProperties DEF RemoveAt
<1> HIDE DEF before, after, m
<1>5. /\ DOMAIN m = 1 .. Len(rs) - 1
      /\ \A j \in 1 .. Len(rs) - 1 : m[j] = IF j < i THEN rs[j] ELSE rs[j + 1]
  <2>1. Len(m) = Len(rs) - 1 /\ DOMAIN m = 1 .. Len(m)
    BY <1>1, <1>2, <1>3, <1>4, LenProperties
  <2>2. ASSUME NEW j \in 1 .. Len(rs) - 1 PROVE m[j] = IF j < i THEN rs[j] ELSE rs[j + 1]
    <3>1. m[j] = IF j <= i - 1 THEN before[j] ELSE after[j - (i - 1)]
      BY <1>1, <1>2, <1>3, <1>4
    <3>2. CASE j < i
      BY <1>1, <1>2, <3>1, <3>2
    <3>3. CASE j >= i
      <4>1. j - (i - 1) \in 1 .. Len(rs) - i /\ i + (j - (i - 1)) = j + 1
        BY <1>1, <3>3
      <4>2. QED BY <1>1, <1>3, <3>1, <3>3, <4>1
    <3>4. QED BY <1>1, <3>2, <3>3
  <2>3. QED BY <2>1, <2>2
<1>6. \A j \in S : j \in 1 .. Len(rs) /\ j # i /\ rs[j].user = u
  BY <1>1 DEF PlacesOf
<1>7. \A j \in S : f[j] \in T
  <2> TAKE j \in S
  <2>1. CASE j < i
    BY <1>1, <1>5, <1>6, <2>1 DEF PlacesOf
  <2>2. CASE j > i
    <3>1. j - 1 \in 1 .. Len(rs) - 1 /\ ~(j - 1 < i) /\ j - 1 + 1 = j
      BY <1>1, <1>6, <2>2
    <3>2. m[j - 1] = rs[j]
      BY <1>5, <3>1
    <3>3. QED BY <1>1, <1>5, <1>6, <2>2, <3>1, <3>2 DEF PlacesOf
  <2>3. QED BY <1>1, <1>6, <2>1, <2>2
<1>8. \A j, k \in S : f[j] = f[k] => j = k
  BY <1>1, <1>6
<1>9. \A k \in T : \E j \in S : f[j] = k
  <2> TAKE k \in T
  <2>1. k \in 1 .. Len(rs) - 1 /\ m[k].user = u
    BY <1>5 DEF PlacesOf
  <2>2. CASE k < i
    <3>1. k \in S
      BY <1>1, <1>5, <2>1, <2>2 DEF PlacesOf
    <3>2. QED BY <2>2, <3>1
  <2>3. CASE k >= i
    <3>1. m[k] = rs[k + 1] /\ k + 1 \in 1 .. Len(rs)
      BY <1>1, <1>5, <2>1, <2>3
    <3>2. k + 1 \in S
      BY <1>1, <2>1, <3>1 DEF PlacesOf
    <3>3. f[k + 1] = k
      BY <1>1, <2>1, <2>3, <3>2
    <3>4. QED BY <3>2, <3>3
  <2>4. QED BY <1>1, <2>1, <2>2, <2>3
<1>10. f \in Bijection(S, T)
  BY <1>7, <1>8, <1>9 DEF Bijection, Injection, IsInjective, Surjection
<1>11. IsFiniteSet(S)
  BY PlacesFinite
<1>12. Cardinality(T) = Cardinality(S)
  <2> HIDE DEF S, T, f
  <2>1. QED BY <1>10, <1>11, FS_Bijection DEF ExistsBijection
<1>13. QED BY <1>12 DEF m
\* A copy with the current version has the reactions of the same users at the
\* same places: only a change of an emoji leaves the version as it is.
CopyInv ==
    \A r \in Requests : pc[r] = "saving" =>
        /\ snap[r].v <= doc.v
        /\ snap[r].v = doc.v => SameUsers(snap[r].reactions, doc.reactions)

\* What a step does to the version and the reactions.
Renewed == doc'.v > doc.v \/ (doc'.v = doc.v /\ SameUsers(doc.reactions, doc'.reactions))

\* The saves of reactions, one by one.
LEMMA SaveReactionCases ==
    ASSUME TypeOK, KindInv, CopyInv, NEW r \in Requests, SaveReaction(r)
    PROVE  /\ Renewed
           /\ \A u \in Users : u # user[r] => Cardinality(ReactionsOf(u)') = Cardinality(ReactionsOf(u))
<1> DEFINE rs == doc.reactions
           i == ReactionOf(user[r], snap[r].reactions)
<1>1. /\ doc \in Document /\ rs \in Seq(Reaction) /\ doc.v \in Nat
      /\ snap[r] \in Document /\ snap[r].reactions \in Seq(Reaction) /\ snap[r].v \in Nat
      /\ user[r] \in Users /\ arg[r] \in Emojis /\ pc[r] = "saving"
  BY DEF SaveReaction, KindInv, TypeOK, Document
<1>2. i \in 0 .. Len(snap[r].reactions) /\ (i # 0 => snap[r].reactions[i].user = user[r])
  BY <1>1, ReactionOfType
<1>3. \A u : ReactionsOf(u) = PlacesOf(u, rs) /\ ReactionsOf(u)' = PlacesOf(u, doc'.reactions)
  BY DEF ReactionsOf, PlacesOf
<1>4. CASE doc' = doc
  BY <1>1, <1>4 DEF Renewed, SameUsers, ReactionsOf
<1>5. ASSUME AddReaction(r), doc' # doc
      PROVE  /\ Renewed
             /\ \A u \in Users : u # user[r] => Cardinality(ReactionsOf(u)') = Cardinality(ReactionsOf(u))
  <2> DEFINE x == [user |-> user[r], emoji |-> arg[r]]
  <2>1. doc'.reactions = Append(rs, x) /\ doc'.v = doc.v + 1
    BY <1>1, <1>5 DEF AddReaction, Save, Fails, Document
  <2>2. x \in Reaction /\ x.user = user[r]
    BY <1>1 DEF Reaction
  <2> HIDE DEF x
  <2>3. \A u : u # user[r] => PlacesOf(u, Append(rs, x)) = PlacesOf(u, rs)
    BY <1>1, <2>2, PlacesAppended
  <2>4. QED BY <1>1, <1>3, <2>1, <2>3 DEF Renewed
<1>6. ASSUME RemoveReaction(r), doc' # doc
      PROVE  /\ Renewed
             /\ \A u \in Users : u # user[r] => Cardinality(ReactionsOf(u)') = Cardinality(ReactionsOf(u))
  <2>1. /\ doc'.reactions = RemoveAt(snap[r].reactions, i) /\ doc'.v = doc.v + 1
        /\ i > 0 /\ doc.v = snap[r].v
    BY <1>1, <1>6 DEF RemoveReaction, SameVersion, Save, Fails, Document
  <2>2. i \in 1 .. Len(snap[r].reactions) /\ snap[r].reactions[i].user = user[r]
    BY <1>1, <1>2, <2>1, LenProperties
  <2>3. SameUsers(snap[r].reactions, rs)
    BY <1>1, <2>1 DEF CopyInv
  <2> HIDE DEF i
  <2>4. ASSUME NEW u \in Users, u # user[r]
        PROVE  Cardinality(PlacesOf(u, doc'.reactions)) = Cardinality(PlacesOf(u, rs))
    <3>1. Cardinality(PlacesOf(u, RemoveAt(snap[r].reactions, i)))
             = Cardinality(PlacesOf(u, snap[r].reactions))
      BY <1>1, <2>2, <2>4, PlacesRemoved
    <3>2. PlacesOf(u, snap[r].reactions) = PlacesOf(u, rs)
      BY <1>1, <2>3, SamePlaces
    <3>3. QED BY <2>1, <3>1, <3>2
  <2>5. QED BY <1>1, <1>3, <2>1, <2>4 DEF Renewed
<1>7. ASSUME ChangeReaction(r), doc' # doc
      PROVE  /\ Renewed
             /\ \A u \in Users : u # user[r] => Cardinality(ReactionsOf(u)') = Cardinality(ReactionsOf(u))
  <2> DEFINE c == [rs EXCEPT ![i].emoji = arg[r]]
  <2>1. doc' = [doc EXCEPT !.reactions = c]
    BY <1>7 DEF ChangeReaction, Save, Fails
  <2>2. i \in Nat
    BY <1>1, <1>2, LenProperties
  <2>3. c \in Seq(Reaction) /\ SameUsers(c, rs)
    BY <1>1, <2>2, ReactionsType, PlacesChanged
  <2> HIDE DEF c
  <2>4. doc'.reactions = c /\ doc'.v = doc.v
    BY <1>1, <2>1 DEF Document
  <2>5. \A u : PlacesOf(u, c) = PlacesOf(u, rs)
    BY <1>1, <2>3, SamePlaces
  <2>6. SameUsers(rs, c)
    BY <2>3 DEF SameUsers
  <2>7. QED BY <1>3, <2>4, <2>5, <2>6 DEF Renewed
<1>8. QED BY <1>4, <1>5, <1>6, <1>7 DEF SaveReaction

\* The other steps renew the version or leave the reactions alone.
LEMMA OthersRenew ==
    ASSUME TypeOK, KindInv, [Next]_vars, \A r \in Requests : ~SaveReaction(r)
    PROVE  /\ doc'.reactions = doc.reactions /\ doc'.v >= doc.v
           /\ Renewed
<1>0. doc \in Document /\ doc.v \in Nat
  BY DEF TypeOK, Document
<1> DEFINE Kept(d) == d.reactions = doc.reactions /\ d.v >= doc.v
<1>1. ASSUME UNCHANGED doc PROVE Kept(doc')
  BY <1>0, <1>1
<1>2. ASSUME NEW r \in Requests, SaveEdit(r), doc' # doc
      PROVE  Kept(doc')
  <2>1. doc' = WithEdit(r)
    BY <1>2 DEF SaveEdit, Save, Fails
  <2>2. QED BY <1>0, <2>1 DEF WithEdit, Document
<1>3. ASSUME NEW r \in Requests, NEW u \in Users,
             DeleteForMe(r, u) \/ MarkAsRead(r, u) \/ AdminDeleteMessage(r, u)
                \/ \E viaSocket \in BOOLEAN : DeleteForEveryone(r, u, viaSocket)
      PROVE  Kept(doc')
  <2>1. doc' \in {doc, [doc EXCEPT !.deletedFor = @ \cup {u}], ReadBy(u),
                  [doc EXCEPT !.isDeletedForEveryone = TRUE, !.content = Tombstone]}
    BY <1>3 DEF DeleteForMe, MarkAsRead, AdminDeleteMessage, DeleteForEveryone, Blank, Rejects
  <2>2. doc'.reactions = doc.reactions /\ doc'.v = doc.v
    BY <1>0, <2>1 DEF ReadBy, Document
  <2>3. QED BY <1>0, <2>2
<1> HIDE DEF Kept
<1>4. Kept(doc')
  BY <1>1, <1>2, <1>3
     DEF Next, Step, Purge, Emit, EditMessage, ToggleReaction, vars
<1>5. doc'.reactions = doc.reactions /\ doc'.v >= doc.v
  BY <1>4 DEF Kept
<1>6. doc'.v \in Int
  BY TypeStep DEF TypeOK, Document
<1>7. QED BY <1>0, <1>5, <1>6 DEF Renewed, SameUsers
\* Every step preserves CopyInv: a copy is read with its version, and what is
\* saved behind its back renews the version or moves no reaction.
LEMMA CopyStep ==
    ASSUME TypeOK, KindInv, CopyInv, [Next]_vars
    PROVE  CopyInv'
<1>1. Renewed
  BY SaveReactionCases, OthersRenew
<1>2. /\ \A r \in Requests : snap[r] \in Document /\ snap[r].v \in Nat
      /\ doc.v \in Nat /\ doc'.v \in Nat
  <2>1. TypeOK'
    BY TypeStep
  <2>2. QED BY <2>1 DEF TypeOK, Document
<1>3. ASSUME NEW r \in Requests, pc'[r] = "saving"
      PROVE  \/ pc[r] = "saving" /\ snap'[r] = snap[r]
             \/ snap'[r] = doc /\ doc' = doc
  <2>1. CASE UNCHANGED vars \/ Purge
    BY <1>3, <2>1 DEF vars, reqVars, Purge
  <2>2. ASSUME NEW q \in Requests, Step(q), ~(\E u \in Users : \/ \E c \in Texts \cup {NoText} : EditMessage(q, u, c)
                                                             \/ \E e \in Emojis : ToggleReaction(q, u, e))
        PROVE  snap' = snap /\ \E how \in {"done", "error", "emitting"} : pc' = [pc EXCEPT ![q] = how]
    BY <2>2 DEF Step, DeleteForMe, MarkAsRead, AdminDeleteMessage, DeleteForEveryone, SaveEdit, SaveReaction,
       AddReaction, RemoveReaction, ChangeReaction, Save, Fails, Emit, Blank, Rejects, SettleUpdate, Settle
  <2>3. ASSUME NEW q \in Requests, NEW u \in Users,
               \/ \E c \in Texts \cup {NoText} : EditMessage(q, u, c)
               \/ \E e \in Emojis : ToggleReaction(q, u, e)
        PROVE  /\ doc' = doc
               /\ \/ snap' = snap /\ \E how \in {"null", "error"} : pc' = [pc EXCEPT ![q] = how]
                  \/ snap' = [snap EXCEPT ![q] = doc] /\ pc' = [pc EXCEPT ![q] = "saving"]
    BY <2>3 DEF EditMessage, ToggleReaction, ReadForChange, Settle
  <2>4. ASSUME NEW q \in Requests, Step(q)
        PROVE  \/ pc[r] = "saving" /\ snap'[r] = snap[r]
               \/ snap'[r] = doc /\ doc' = doc
    BY <1>3, <2>2, <2>3, <2>4 DEF TypeOK
  <2>5. QED BY <2>1, <2>4 DEF Next
<1>4. ASSUME NEW r \in Requests, pc'[r] = "saving"
      PROVE  /\ snap'[r].v <= doc'.v
             /\ snap'[r].v = doc'.v => SameUsers(snap'[r].reactions, doc'.reactions)
  <2>1. CASE snap'[r] = doc /\ doc' = doc
    BY <1>2, <2>1 DEF SameUsers
  <2>2. CASE pc[r] = "saving" /\ snap'[r] = snap[r]
    <3>1. /\ snap[r].v <= doc.v
          /\ snap[r].v = doc.v => SameUsers(snap[r].reactions, doc.reactions)
      BY <2>2 DEF CopyInv
    <3>2. SameUsers(snap[r].reactions, doc.reactions) /\ SameUsers(doc.reactions, doc'.reactions)
            => SameUsers(snap[r].reactions, doc'.reactions)
      BY DEF SameUsers
    <3>3. QED BY <1>1, <1>2, <2>2, <3>1, <3>2 DEF Renewed
  <2>3. QED BY <1>3, <1>4, <2>1, <2>2
<1>5. QED BY <1>4 DEF CopyInv

\* The number of a user's reactions changes only when a reaction request of that
\* user takes a step: no save drops or brings back somebody else's.
THEOREM OthersReactionsAlwaysKept == Spec => OthersReactionsKept
<1>1. Init => CopyInv
  BY DEF Init, CopyInv
<1>2. TypeOK /\ KindInv /\ CopyInv /\ [Next]_vars => CopyInv'
  BY CopyStep
<1>3. TypeOK /\ KindInv /\ CopyInv /\ [Next]_vars
        => [\A u \in Users :
              Cardinality(ReactionsOf(u)') # Cardinality(ReactionsOf(u))
                => \E r \in Requests : pc[r] # pc'[r] /\ user[r] = u /\ op[r] = "react"]_vars
  <2> SUFFICES ASSUME TypeOK, KindInv, CopyInv, [Next]_vars, NEW u \in Users,
                      Cardinality(ReactionsOf(u)') # Cardinality(ReactionsOf(u))
               PROVE  \E r \in Requests : pc[r] # pc'[r] /\ user[r] = u /\ op[r] = "react"
    OBVIOUS
  <2>1. PICK r \in Requests : SaveReaction(r)
    BY OthersRenew DEF ReactionsOf
  <2>2. user[r] = u
    BY <2>1, SaveReactionCases
  <2>3. pc[r] = "saving" /\ op[r] = "react" /\ pc'[r] \in {"done", "error"}
    BY <2>1 DEF SaveReaction, AddReaction, RemoveReaction, ChangeReaction, Save, Fails, Settle, TypeOK
  <2>4. QED BY <2>2, <2>3
<1>4. QED BY <1>1, <1>2, <1>3, TypeCorrect, PTL DEF Spec, OthersReactionsKept
================================================================================
