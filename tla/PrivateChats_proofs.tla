--------------------------- MODULE PrivateChats_proofs ---------------------------
(***************************************************************************)
(* Theorems about PrivateChats, for every set of users, lists and requests *)
(* and every size of a page, number of chats, of versions and of faults.   *)
(***************************************************************************)
EXTENDS PrivateChats, FiniteSetTheorems, SequenceTheorems, TLAPS

-----------------------------------------------------------------------------
(* The parts of the inductive invariant. *)

\* Every chat is one of two users.
PairInv == \A c \in Ids : chats[c].participants \in Pairs

\* Whoever opens a chat opens it with somebody else, and creates it if it has
\* found none; chats that were there at the beginning are not the pair's then.
OpenInv ==
    \A r \in Requests : cpc[r] \in {"finding", "creating"} =>
        /\ req[r].by \in Users /\ req[r].other \in Users /\ req[r].by # req[r].other
        /\ cpc[r] = "creating" =>
              \A c \in known[r] : chats[c].participants # {req[r].by, req[r].other}

\* A toggle that is about to save has read the chat: what it has read is older
\* than the chat, or the same.
CopyInv ==
    \A r \in Requests : cpc[r] \in {"reading", "saving"} =>
        /\ req[r].chat \in Ids /\ req[r].list \in Lists /\ req[r].by \in Users
        /\ cpc[r] = "saving" =>
              /\ req[r].copy.v <= chats[req[r].chat].v
              /\ req[r].copy.v = chats[req[r].chat].v => req[r].copy.flags = chats[req[r].chat].flags

Toggling == {r \in Requests : cpc[r] \in {"reading", "saving"}}

SameFlag(r, s) == req[r].chat = req[s].chat /\ req[r].list = req[s].list /\ req[r].by = req[s].by

\* Toggles of the same flag have disturbed each other; a toggle that nothing
\* has disturbed finds, and remembers, the flag as it was when it began.
FlipInv ==
    /\ \A r, s \in Toggling : r # s /\ SameFlag(r, s) => r \in disturbed
    /\ \A r \in Toggling \ disturbed :
          /\ InList(req[r].chat, req[r].list, req[r].by) = req[r].before
          /\ cpc[r] = "saving" => WasInList(r) = req[r].before

\* The chats up to this one in a user's list that the query running has to come upon.
Ahead(c) == {d \in ChatsOf(reader.user) \ reader.moved : recent[d] <= recent[c]}

\* What the reader still has to get has its own updatedAt, is behind all that is saved
\* while a query runs, and on the pages to come.
DueInv ==
    /\ reader.page = 0 => reader.due = {}
    /\ ~reader.asked => reader.moved = {}
    /\ reader.asked => reader.page > 0
    /\ reader.page > 0 => reader.user \in Users
    /\ \A c \in reader.due :
          /\ c \in ChatsOf(reader.user) \ reader.moved
          /\ OfItsOwn(reader.user, c)
          /\ \A d \in ChatsOf(reader.user) \cap reader.moved : recent[d] < recent[c]
          /\ Skip(reader.page) < Cardinality(Ahead(c))

-----------------------------------------------------------------------------
(* Lemmas about the operators. *)

\* A set of two users is the set of any two of them.
LEMMA PairOfTwo ==
    /\ \A a, b \in Users : a # b => {a, b} \in Pairs
    /\ \A P \in Pairs, a, b \in Users : a # b /\ {a, b} \subseteq P => P = {a, b}
BY DEF Pairs

\* What a save does to the chat: its user's flag flips from what the handler has
\* read, nobody else's changes, nor does another list or another chat.
LEMMA SaveEffect ==
    ASSUME TypeOK, CopyInv, NEW r \in Requests, cpc[r] = "saving",
           IF WasInList(r) THEN SameVersion(r) /\ Replace(r) ELSE Push(r)
    PROVE  LET c == req[r].chat
               l == req[r].list
               u == req[r].by
           IN  /\ chats' \in Seq(Chat) /\ Len(chats') = Len(chats)
               /\ \A d \in Ids : chats'[d].participants = chats[d].participants
               /\ \A d \in Ids \ {c} : chats'[d] = chats[d]
               /\ chats'[c].v = chats[c].v + 1
               /\ \A k \in Lists, w \in Users :
                     k # l \/ w # u => chats'[c].flags[k][w] = chats[c].flags[k][w]
               /\ chats'[c].flags[l][u] > 0 <=> ~WasInList(r)
<1> DEFINE c == req[r].chat
           l == req[r].list
           u == req[r].by
<1>1. c \in Ids /\ l \in Lists /\ u \in Users /\ chats \in Seq(Chat)
  BY DEF CopyInv, TypeOK
<1>2. chats[c] \in Chat
  BY <1>1, ElementOfSeq DEF Ids
<1>3. req[r].copy \in Chat
  BY DEF TypeOK, Locals
<1> HIDE DEF c, l, u
<1> DEFINE new(row) == [participants |-> chats[c].participants, v |-> chats[c].v + 1,
                        flags |-> [chats[c].flags EXCEPT ![l] = row]]
<1>4. chats[c].flags \in Flags /\ chats[c].v \in Nat /\ chats[c].participants \in SUBSET Users
  BY <1>2 DEF Chat
<1>5. chats[c].flags[l] \in [Users -> Nat]
  BY <1>1, <1>4 DEF Flags
<1>6. ASSUME NEW row \in [Users -> Nat], chats' = [chats EXCEPT ![c] = new(row)],
             \A w \in Users \ {u} : row[w] = chats[c].flags[l][w],
             row[u] > 0 <=> ~WasInList(r)
      PROVE  /\ chats' \in Seq(Chat) /\ Len(chats') = Len(chats)
             /\ \A d \in Ids : chats'[d].participants = chats[d].participants
             /\ \A d \in Ids \ {c} : chats'[d] = chats[d]
             /\ chats'[c].v = chats[c].v + 1
             /\ \A k \in Lists, w \in Users :
                     k # l \/ w # u => chats'[c].flags[k][w] = chats[c].flags[k][w]
             /\ chats'[c].flags[l][u] > 0 <=> ~WasInList(r)
  <2>1. [chats[c].flags EXCEPT ![l] = row] \in Flags
    BY <1>1, <1>4 DEF Flags
  <2>2. new(row) \in Chat
    BY <1>4, <2>1 DEF Chat
  <2>3. \A k \in Lists, w \in Users : k # l \/ w # u => new(row).flags[k][w] = chats[c].flags[k][w]
    BY <1>1, <1>4, <1>6 DEF Flags
  <2>4. new(row).flags[l] = row
    BY <1>1, <1>4 DEF Flags
  <2>5. new(row).participants = chats[c].participants /\ new(row).v = chats[c].v + 1
    OBVIOUS
  <2> HIDE DEF new
  <2>6. /\ chats' \in Seq(Chat) /\ Len(chats') = Len(chats) /\ chats'[c] = new(row)
        /\ \A d \in Ids \ {c} : chats'[d] = chats[d]
    BY <1>1, <1>6, <2>2, ExceptSeq DEF Ids
  <2>7. QED BY <1>6, <2>3, <2>4, <2>5, <2>6
<1>7. DOMAIN chats = Ids /\ chats = [d \in Ids |-> chats[d]]
  BY <1>1, LenProperties DEF Ids
<1>8. chats[c] = [participants |-> chats[c].participants, v |-> chats[c].v, flags |-> chats[c].flags]
  BY <1>2 DEF Chat
<1>9. ASSUME NEW row, chats' = [chats EXCEPT ![c].flags[l] = row, ![c].v = @ + 1]
      PROVE  chats' = [chats EXCEPT ![c] = new(row)]
  <2>1. /\ DOMAIN chats' = Ids /\ chats' = [d \in Ids |-> chats'[d]]
        /\ \A d \in Ids \ {c} : chats'[d] = chats[d]
    BY <1>1, <1>7, <1>9
  <2>2. chats'[c] = [[chats[c] EXCEPT !.flags = [chats[c].flags EXCEPT ![l] = row]]
                         EXCEPT !.v = @ + 1]
    BY <1>1, <1>7, <1>9
  <2>3. chats'[c] = new(row)
    BY <1>8, <2>2
  <2> HIDE DEF new
  <2>4. QED BY <1>1, <1>7, <2>1, <2>3
<1>10. CASE ~WasInList(r)
  <2> DEFINE row == [chats[c].flags[l] EXCEPT ![u] = chats[c].flags[l][u] + 1]
  <2>1. chats' = [chats EXCEPT ![c].flags[l][u] = @ + 1, ![c].v = @ + 1]
    BY <1>10 DEF Push, c, l, u
  <2>2. chats' = [chats EXCEPT ![c].flags[l] = row, ![c].v = @ + 1]
    BY <2>1
  <2>3. chats[c].flags[l][u] \in Nat
    BY <1>1, <1>5
  <2>4. row \in [Users -> Nat] /\ (\A w \in Users \ {u} : row[w] = chats[c].flags[l][w]) /\ row[u] > 0
    BY <1>1, <1>5, <2>3
  <2> HIDE DEF row, new
  <2>5. chats' = [chats EXCEPT ![c] = new(row)]
    BY <1>9, <2>2
  <2>6. QED BY <1>6, <1>10, <2>4, <2>5 DEF c, l, u
<1>11. CASE WasInList(r)
  <2>1. req[r].copy.flags = chats[c].flags
    BY <1>11 DEF SameVersion, CopyInv, c
  <2> DEFINE row == Without(chats[c].flags[l], u)
  <2>2. chats' = [chats EXCEPT ![c].flags[l] = row, ![c].v = @ + 1]
    BY <1>11, <2>1 DEF Replace, c, l, u
  <2>3. row \in [Users -> Nat] /\ (\A w \in Users \ {u} : row[w] = chats[c].flags[l][w]) /\ row[u] = 0
    BY <1>1, <1>5 DEF Without
  <2> HIDE DEF row, new
  <2>4. chats' = [chats EXCEPT ![c] = new(row)]
    BY <1>9, <2>2
  <2>5. ~(row[u] > 0)
    BY <2>3
  <2>6. QED BY <1>6, <1>11, <2>3, <2>4, <2>5 DEF c, l, u
<1>12. QED BY <1>10, <1>11

\* Places are numbers up to that of the chats.
LEMMA OrdersType ==
    ASSUME NEW n \in Nat, NEW o \in Orders(n)
    PROVE  o \in [1 .. n -> 1 .. n]
BY DEF Orders

\* Chats that are not saved keep their order, and what is due less is still to come.
LEMMA TouchEffect ==
    ASSUME TypeOK, NEW c \in Ids', Ids \subseteq Ids', Touch(c)
    PROVE  /\ recent' \in Orders(Len(chats'))
           /\ \A d, e \in Ids \ {c} : recent'[d] < recent'[e] <=> recent[d] < recent[e]
           /\ reader'.user = reader.user /\ reader'.page = reader.page
           /\ reader'.asked = reader.asked
           /\ reader'.moved = IF reader.asked THEN reader.moved \cup {c} ELSE reader.moved
           /\ reader'.due = {d \in reader.due \ {c} :
                                reader.user \in chats'[c].participants => PutInFront(c, d)}
           /\ reader' \in Reader'
<1>1. reader \in Reader
  BY DEF TypeOK
<1>2. /\ recent' \in Orders(Len(chats'))
      /\ \A d, e \in Ids \ {c} : recent'[d] < recent'[e] <=> recent[d] < recent[e]
  BY DEF Touch
<1> DEFINE moved == IF reader.asked THEN reader.moved \cup {c} ELSE reader.moved
           due == {d \in reader.due \ {c} : reader.user \in chats'[c].participants => PutInFront(c, d)}
<1>3. reader' = [reader EXCEPT !.moved = moved, !.due = due]
  BY DEF Touch
<1>4. moved \in SUBSET Ids' /\ due \subseteq reader.due /\ due \in SUBSET Ids'
  BY <1>1 DEF Reader
<1> HIDE DEF moved, due
<1>5. /\ reader'.user = reader.user /\ reader'.page = reader.page
      /\ reader'.asked = reader.asked /\ reader'.moved = moved /\ reader'.due = due
      /\ reader' \in Reader'
  BY <1>1, <1>3, <1>4 DEF Reader
<1>6. QED BY <1>2, <1>5 DEF moved, due

\* A handler that has come and gone leaves a request without state.
LEMMA BlankType == Blank \in Locals
BY DEF Blank, Locals, Chat, Flags, NewChat, NoFlags

\* A handler that resumes keeps the types of its state.
LEMMA ResumeType ==
    ASSUME TypeOK, NEW r \in Requests, NEW next \in CPC, NEW q \in Locals,
           Resume(r, next, q) \/ Finish(r)
    PROVE  /\ cpc' \in [Requests -> CPC] /\ req' \in [Requests -> Locals]
           /\ known' \in [Requests -> SUBSET Ids]
           /\ disturbed' \in SUBSET Requests /\ cutOff' \in SUBSET Requests
           /\ faults' = faults
BY BlankType DEF Resume, Finish, TypeOK, CPC

\* The chats there are at first are well typed and those of pairs.
LEMMA ChatsInit ==
    ASSUME Init
    PROVE  chats \in Seq(Chat) /\ PairInv
<1>1. PICK k \in 0 .. 2 : \E s \in [1 .. k -> Pairs], l \in Lists, n \in 0 .. 2, u \in Users :
         /\ k > 0 => u \in s[1]
         /\ chats = [i \in 1 .. k |-> [NewChat(s[i]) EXCEPT !.flags[l][u] = IF i = 1 THEN n ELSE 0]]
  BY DEF Init
<1>2. PICK s \in [1 .. k -> Pairs], l \in Lists, n \in 0 .. 2, u \in Users :
         /\ k > 0 => u \in s[1]
         /\ chats = [i \in 1 .. k |-> [NewChat(s[i]) EXCEPT !.flags[l][u] = IF i = 1 THEN n ELSE 0]]
  BY <1>1
<1>3. ASSUME NEW i \in 1 .. k
      PROVE  /\ [NewChat(s[i]) EXCEPT !.flags[l][u] = IF i = 1 THEN n ELSE 0] \in Chat
             /\ [NewChat(s[i]) EXCEPT !.flags[l][u] = IF i = 1 THEN n ELSE 0].participants = s[i]
  <2>1. NoFlags \in Flags /\ s[i] \in SUBSET Users
    BY DEF NoFlags, Flags, Pairs
  <2>2. \A m \in Nat : [NoFlags EXCEPT ![l][u] = m] \in Flags
    BY <2>1 DEF Flags
  <2>3. [NewChat(s[i]) EXCEPT !.flags[l][u] = IF i = 1 THEN n ELSE 0]
           = [participants |-> s[i], v |-> 0, flags |-> [NoFlags EXCEPT ![l][u] = IF i = 1 THEN n ELSE 0]]
    BY DEF NewChat
  <2>4. QED BY <2>1, <2>2, <2>3 DEF Chat
<1>4. chats \in [1 .. k -> Chat] /\ k \in Nat
  BY <1>2, <1>3
<1>5. chats \in Seq(Chat) /\ Len(chats) = k
  BY <1>4, SeqDef, LenProperties
<1>6. \A i \in 1 .. k : chats[i].participants = s[i]
  BY <1>2, <1>3
<1>7. QED BY <1>5, <1>6 DEF PairInv, Ids

\* The initial states are well typed.
LEMMA TypeInit ==
    ASSUME Init
    PROVE  TypeOK
<1>1. chats \in Seq(Chat) /\ Len(chats) \in Nat
  BY ChatsInit
<1>3. recent \in Orders(Len(chats))
  BY DEF Init
<1>4. reader \in Reader
  BY DEF Init, Reader, NoReader
<1>5. cpc \in [Requests -> CPC] /\ req \in [Requests -> Locals] /\ known \in [Requests -> SUBSET Ids]
  BY BlankType DEF Init, CPC
<1>6. QED BY <1>1, <1>3, <1>4, <1>5, PrivateChatsAssumption DEF Init, TypeOK

\* Every step keeps the types.
LEMMA TypeStep ==
    ASSUME TypeOK, OpenInv, CopyInv, [Next]_vars
    PROVE  TypeOK'
<1>1. CASE UNCHANGED vars
  BY <1>1 DEF vars, TypeOK, Ids, Reader
<1>2. {"finding", "creating", "reading", "saving", "idle"} \subseteq CPC
  BY DEF CPC, Waiting
<1>3. ASSUME NEW r \in Requests, NEW u \in Users, NEW w \in Users \cup {NoUser}, Open(r, u, w)
      PROVE  TypeOK'
  <2>1. [Blank EXCEPT !.by = u, !.other = w] \in Locals
    BY BlankType DEF Locals
  <2>2. UNCHANGED <<chats, recent, reader, cutOff, faults, disturbed>>
    BY <1>3 DEF Open, Start
  <2>3. cpc' \in [Requests -> CPC] /\ req' \in [Requests -> Locals]
    BY <1>2, <1>3, <2>1 DEF Open, Start, TypeOK
  <2>4. known' \in [Requests -> SUBSET Ids]
    BY <1>3 DEF Open, TypeOK
  <2>5. QED BY <2>2, <2>3, <2>4 DEF TypeOK, Ids, Reader
<1>4. ASSUME NEW r \in Requests, NEW u \in Users, NEW c \in Ids, NEW l \in Lists, Toggle(r, c, l, u)
      PROVE  TypeOK'
  <2>1. [Blank EXCEPT !.by = u, !.chat = c, !.list = l, !.before = InList(c, l, u)] \in Locals
    <3>1. c \in Nat /\ InList(c, l, u) \in BOOLEAN
      BY DEF Ids, InList, TypeOK
    <3>2. QED BY <3>1, BlankType DEF Locals
  <2>2. UNCHANGED <<chats, recent, reader, cutOff, faults, known>>
    BY <1>4 DEF Toggle, Start
  <2>3. cpc' \in [Requests -> CPC] /\ req' \in [Requests -> Locals]
    BY <1>2, <1>4, <2>1 DEF Toggle, Start, TypeOK
  <2>4. disturbed' \in SUBSET Requests
    BY <1>4 DEF Toggle, TypeOK, Rivals
  <2>5. QED BY <2>2, <2>3, <2>4 DEF TypeOK, Ids, Reader
<1>5. ASSUME NEW r \in Requests, FindPrivateChat(r) PROVE TypeOK'
  <2>1. req[r] \in Locals
    BY DEF TypeOK
  <2>2. UNCHANGED <<chats, recent, reader>> /\ (Resume(r, "creating", req[r]) \/ Finish(r))
    BY <1>5 DEF FindPrivateChat
  <2>3. QED BY <1>2, <2>1, <2>2, ResumeType DEF TypeOK, Ids, Reader
<1>6. ASSUME NEW r \in Requests, CreateChat(r) PROVE TypeOK'
  <2>1. NewChat({req[r].by, req[r].other}) \in Chat
    BY <1>6 DEF CreateChat, OpenInv, NewChat, Chat, NoFlags, Flags
  <2>2. /\ chats' \in Seq(Chat) /\ Len(chats) \in Nat /\ Len(chats') = Len(chats) + 1
    BY <1>6, <2>1 DEF CreateChat, TypeOK
  <2>3. Ids' = Ids \cup {Len(chats) + 1} /\ Len(chats) + 1 \notin Ids
    BY <2>2 DEF Ids
  <2>4. Len(chats') \in Ids' /\ Ids \subseteq Ids' /\ Touch(Len(chats')) /\ Finish(r)
    BY <1>6, <2>2, <2>3 DEF CreateChat
  <2>5. recent' \in Orders(Len(chats')) /\ reader' \in Reader'
    BY <2>4, TouchEffect
  <2>6. /\ cpc' \in [Requests -> CPC] /\ req' \in [Requests -> Locals]
        /\ known' \in [Requests -> SUBSET Ids]
        /\ disturbed' \in SUBSET Requests /\ cutOff' \in SUBSET Requests
        /\ faults' = faults
    BY <1>2, <2>4, BlankType, ResumeType
  <2>7. QED BY <2>2, <2>3, <2>5, <2>6 DEF TypeOK
<1>7. ASSUME NEW r \in Requests, ReadFlags(r) PROVE TypeOK'
  <2>1. chats[req[r].chat] \in Chat
    BY <1>7, ElementOfSeq DEF ReadFlags, CopyInv, TypeOK, Ids
  <2>2. [req[r] EXCEPT !.copy = chats[req[r].chat]] \in Locals
    <3>1. req[r] \in Locals
      BY DEF TypeOK
    <3> DEFINE q == req[r]
               c == chats[req[r].chat]
    <3>2. q \in Locals /\ c \in Chat
      BY <2>1, <3>1
    <3> HIDE DEF q, c
    <3>3. [q EXCEPT !.copy = c] \in Locals
      BY <3>2 DEF Locals
    <3>4. QED BY <3>3 DEF q, c
  <2>3. UNCHANGED <<chats, recent, reader>> /\ Resume(r, "saving", [req[r] EXCEPT !.copy = chats[req[r].chat]])
    BY <1>7 DEF ReadFlags
  <2>4. QED BY <1>2, <2>2, <2>3, ResumeType DEF TypeOK, Ids, Reader
<1>8. ASSUME NEW r \in Requests, SaveFlags(r) PROVE TypeOK'
  <2>1. Finish(r)
    BY <1>8 DEF SaveFlags
  <2>2. /\ cpc' \in [Requests -> CPC] /\ req' \in [Requests -> Locals]
        /\ known' \in [Requests -> SUBSET Ids]
        /\ disturbed' \in SUBSET Requests /\ cutOff' \in SUBSET Requests
        /\ faults' = faults
    BY <1>2, <2>1, BlankType, ResumeType
  <2>3. CASE UNCHANGED <<chats, recent, reader>>
    BY <2>2, <2>3 DEF TypeOK, Ids, Reader
  <2>4. CASE ~UNCHANGED <<chats, recent, reader>>
    <3>1. chats' \in Seq(Chat) /\ Len(chats') = Len(chats) /\ req[r].chat \in Ids
      BY <1>8, <2>4, SaveEffect DEF SaveFlags, CopyInv
    <3>2. Ids' = Ids /\ Touch(req[r].chat)
      BY <1>8, <2>4, <3>1 DEF SaveFlags, Ids
    <3>3. recent' \in Orders(Len(chats')) /\ reader' \in Reader'
      BY <3>1, <3>2, TouchEffect
    <3>4. QED BY <2>2, <3>1, <3>2, <3>3 DEF TypeOK
  <2>5. QED BY <2>3, <2>4
<1>9. CASE ReadList
  <2>1. UNCHANGED <<chats, cpc, req, known, disturbed, cutOff, faults>> /\ Ids' = Ids
    BY <1>9 DEF ReadList, SendTouches, StartPaging, AskPage, ReadPage, Ids
  <2>2. ASSUME recent' \in Orders(Len(chats)), reader' \in Reader PROVE TypeOK'
    BY <2>1, <2>2 DEF TypeOK, Reader
  <2>3. ASSUME NEW c \in Ids, SendTouches(c) PROVE TypeOK'
    <3>1. recent' \in Orders(Len(chats')) /\ reader' \in Reader'
      BY <2>1, <2>3, TouchEffect DEF SendTouches
    <3>2. QED BY <2>1, <3>1 DEF TypeOK
  <2>4. ASSUME NEW u \in Users, StartPaging(u) PROVE TypeOK'
    <3>1. reader' \in Reader
      BY <2>4 DEF StartPaging, Reader, NoReader, ChatsOf
    <3>2. QED BY <2>2, <2>4, <3>1 DEF StartPaging, TypeOK
  <2>5. ASSUME AskPage PROVE TypeOK'
    <3>1. reader' \in Reader
      BY <2>5 DEF AskPage, Reader, TypeOK
    <3>2. QED BY <2>2, <2>5, <3>1 DEF AskPage, TypeOK
  <2>6. ASSUME ReadPage PROVE TypeOK'
    <3>1. reader \in Reader /\ recent' = recent
      BY <2>6 DEF ReadPage, TypeOK
    <3>2. PICK b \in Readings, missed \in SUBSET reader.moved :
             LET got == Page(ChatsOf(reader.user) \ missed, b, reader.page)
                 last == Cardinality(got) < Limit
             IN reader' = [NoReader EXCEPT
                   !.user = IF last THEN NoUser ELSE reader.user,
                   !.page = IF last THEN 0 ELSE reader.page + 1,
                   !.due = reader.due \ got]
      BY <2>6 DEF ReadPage
    <3> DEFINE got == Page(ChatsOf(reader.user) \ missed, b, reader.page)
               last == Cardinality(got) < Limit
    <3>3. reader' = [user |-> IF last THEN NoUser ELSE reader.user,
                     page |-> IF last THEN 0 ELSE reader.page + 1,
                     asked |-> FALSE, moved |-> {}, due |-> reader.due \ got]
      BY <3>2 DEF NoReader
    <3> HIDE DEF got, last
    <3>4. reader' \in Reader
      BY <3>1, <3>3 DEF Reader
    <3>5. QED BY <2>2, <3>1, <3>4 DEF TypeOK
  <2>7. QED BY <1>9, <2>3, <2>4, <2>5, <2>6 DEF ReadList
<1>10. CASE CutOff
  <2>1. faults' \in 0 .. MaxFaults /\ cutOff' \in SUBSET Requests
    BY <1>10, PrivateChatsAssumption DEF CutOff, TypeOK
  <2>2. QED BY <1>10, <2>1 DEF CutOff, TypeOK, Ids, Reader
<1>11. QED
  BY <1>1, <1>3, <1>4, <1>5, <1>6, <1>7, <1>8, <1>9, <1>10 DEF Next, Arrive, Handle

-----------------------------------------------------------------------------
(* What a step does to the chats, and to the handlers that it does not move. *)

\* A save that goes through.
Saves(r) ==
    /\ cpc[r] = "saving" /\ Finish(r)
    /\ IF WasInList(r) THEN SameVersion(r) /\ Replace(r) ELSE Push(r)

\* Only a creation and a save that goes through change the chats.
LEMMA ChatStep ==
    ASSUME [Next]_vars
    PROVE  \/ UNCHANGED chats
           \/ \E r \in Requests : CreateChat(r) \/ Saves(r)
<1>1. CASE UNCHANGED vars
  BY <1>1 DEF vars
<1>2. ASSUME NEW r \in Requests, Arrive(r) PROVE UNCHANGED chats
  BY <1>2 DEF Arrive, Open, Toggle, Start
<1>3. ASSUME NEW r \in Requests, FindPrivateChat(r) \/ ReadFlags(r) PROVE UNCHANGED chats
  BY <1>3 DEF FindPrivateChat, ReadFlags
<1>4. ASSUME NEW r \in Requests, SaveFlags(r) PROVE UNCHANGED chats \/ Saves(r)
  BY <1>4 DEF SaveFlags, Saves
<1>5. ASSUME ReadList \/ CutOff PROVE UNCHANGED chats
  BY <1>5 DEF ReadList, SendTouches, StartPaging, AskPage, ReadPage, CutOff
<1>6. QED
  BY <1>1, <1>2, <1>3, <1>4, <1>5 DEF Next, Handle

\* A chat that is created is the latest, and of a pair; the others stay.
LEMMA CreateEffect ==
    ASSUME TypeOK, OpenInv, NEW r \in Requests, CreateChat(r)
    PROVE  /\ Ids' = Ids \cup {Len(chats) + 1} /\ Len(chats') = Len(chats) + 1
           /\ \A c \in Ids : chats'[c] = chats[c]
           /\ chats'[Len(chats) + 1].participants = {req[r].by, req[r].other}
           /\ {req[r].by, req[r].other} \in Pairs
<1> DEFINE new == NewChat({req[r].by, req[r].other})
<1>1. new \in Chat /\ {req[r].by, req[r].other} \in Pairs
  BY PairOfTwo DEF CreateChat, OpenInv, NewChat, Chat, NoFlags, Flags
<1>2. chats \in Seq(Chat) /\ chats' = Append(chats, new)
  BY DEF TypeOK, CreateChat
<1>3. new.participants = {req[r].by, req[r].other}
  BY DEF NewChat
<1> HIDE DEF new
<1>4. Len(chats) \in Nat /\ Len(chats') = Len(chats) + 1 /\ chats'[Len(chats) + 1] = new
      /\ \A c \in Ids : chats'[c] = chats[c]
  BY <1>1, <1>2 DEF Ids
<1>5. Ids' = Ids \cup {Len(chats) + 1}
  BY <1>4 DEF Ids
<1>6. QED BY <1>1, <1>3, <1>4, <1>5

\* Chats stay, with the same participants, and a new one is of a pair.
LEMMA ChatsStay ==
    ASSUME TypeOK, OpenInv, CopyInv, [Next]_vars
    PROVE  /\ Ids \subseteq Ids'
           /\ \A c \in Ids : chats'[c].participants = chats[c].participants
           /\ \A c \in Ids' \ Ids : chats'[c].participants \in Pairs
<1>1. CASE UNCHANGED chats
  BY <1>1 DEF Ids
<1>2. ASSUME NEW r \in Requests, CreateChat(r)
      PROVE  /\ Ids \subseteq Ids'
             /\ \A c \in Ids : chats'[c].participants = chats[c].participants
             /\ \A c \in Ids' \ Ids : chats'[c].participants \in Pairs
  BY <1>2, CreateEffect
<1>3. ASSUME NEW r \in Requests, Saves(r)
      PROVE  Ids' = Ids /\ \A c \in Ids : chats'[c].participants = chats[c].participants
  BY <1>3, SaveEffect DEF Saves, Ids
<1>4. QED BY <1>1, <1>2, <1>3, ChatStep

\* A step of one handler leaves the others where they are; a handler that ends
\* is out of the way.
LEMMA OthersStay ==
    ASSUME TypeOK, NEW r \in Requests, Arrive(r) \/ Handle(r)
    PROVE  \A s \in Requests \ {r} :
              /\ cpc'[s] = cpc[s] /\ req'[s] = req[s] /\ known'[s] = known[s]
              /\ s \in disturbed => s \in disturbed'
<1>1. ASSUME NEW s \in Requests \ {r}, Arrive(r)
      PROVE  /\ cpc'[s] = cpc[s] /\ req'[s] = req[s] /\ known'[s] = known[s]
             /\ s \in disturbed => s \in disturbed'
  BY <1>1 DEF Arrive, Open, Toggle, Start, TypeOK
<1>2. ASSUME NEW s \in Requests \ {r}, NEW next, NEW q, Resume(r, next, q) \/ Finish(r)
      PROVE  /\ cpc'[s] = cpc[s] /\ req'[s] = req[s] /\ known'[s] = known[s]
             /\ s \in disturbed => s \in disturbed'
  BY <1>2 DEF Resume, Finish, TypeOK
<1>3. Handle(r) => Finish(r) \/ \E next, q : Resume(r, next, q)
  BY DEF Handle, FindPrivateChat, CreateChat, ReadFlags, SaveFlags
<1>4. QED BY <1>1, <1>2, <1>3

\* What is not a step of a handler leaves all of them where they are.
LEMMA HandlersStay ==
    ASSUME ReadList \/ CutOff \/ UNCHANGED vars
    PROVE  UNCHANGED <<chats, cpc, req, known, disturbed>>
BY DEF ReadList, SendTouches, StartPaging, AskPage, ReadPage, CutOff, vars

-----------------------------------------------------------------------------
(* Opening chats. *)

\* Every step preserves that chats are of pairs.
LEMMA PairStep ==
    ASSUME TypeOK, PairInv, OpenInv, CopyInv, [Next]_vars
    PROVE  PairInv'
BY ChatsStay DEF PairInv

\* Every step preserves what is known of requests that open a chat.
LEMMA OpenStep ==
    ASSUME TypeOK, PairInv, OpenInv, CopyInv, [Next]_vars
    PROVE  OpenInv'
<1>1. \A r \in Requests : \A c \in known[r] : c \in Ids /\ chats'[c].participants = chats[c].participants
  BY ChatsStay DEF TypeOK
<1>2. CASE ReadList \/ CutOff \/ UNCHANGED vars
  BY <1>2, HandlersStay DEF OpenInv
<1>3. ASSUME NEW r \in Requests, Arrive(r) \/ Handle(r) PROVE OpenInv'
  <2>1. ASSUME NEW s \in Requests \ {r}, cpc'[s] \in {"finding", "creating"}
        PROVE  /\ req'[s].by \in Users /\ req'[s].other \in Users /\ req'[s].by # req'[s].other
               /\ cpc'[s] = "creating" =>
                     \A c \in known'[s] : chats'[c].participants # {req'[s].by, req'[s].other}
    BY <1>1, <1>3, <2>1, OthersStay DEF OpenInv
  <2>2. ASSUME cpc'[r] \in {"finding", "creating"}
        PROVE  /\ req'[r].by \in Users /\ req'[r].other \in Users /\ req'[r].by # req'[r].other
               /\ cpc'[r] = "creating" =>
                     \A c \in known'[r] : chats'[c].participants # {req'[r].by, req'[r].other}
    <3>1. ASSUME NEW u \in Users, NEW w \in Users \cup {NoUser}, Open(r, u, w)
          PROVE  /\ cpc'[r] = "finding" /\ req'[r].by = u /\ req'[r].other = w /\ u # w /\ w # NoUser
      BY <3>1 DEF Open, Start, TypeOK, Blank
    <3>2. ASSUME NEW u \in Users, NEW c \in Ids, NEW l \in Lists, Toggle(r, c, l, u) PROVE FALSE
      BY <2>2, <3>2 DEF Toggle, Start, TypeOK
    <3>3. ASSUME FindPrivateChat(r)
          PROVE  /\ cpc[r] = "finding" /\ cpc'[r] = "creating" /\ req'[r] = req[r] /\ known'[r] = known[r]
                 /\ \A c \in Ids : ~({req[r].by, req[r].other} \subseteq chats[c].participants)
      BY <2>2, <3>3 DEF FindPrivateChat, IsChatOf, Resume, Finish, TypeOK
    <3>4. ASSUME CreateChat(r) \/ ReadFlags(r) \/ SaveFlags(r) PROVE FALSE
      BY <2>2, <3>4 DEF CreateChat, ReadFlags, SaveFlags, Resume, Finish, TypeOK
    <3>5. CASE Arrive(r)
      BY <3>1, <3>2, <3>5 DEF Arrive
    <3>6. CASE Handle(r)
      BY <1>1, <3>3, <3>4, <3>6 DEF Handle, OpenInv
    <3>7. QED BY <1>3, <3>5, <3>6
  <2>3. QED BY <2>1, <2>2 DEF OpenInv
<1>4. QED BY <1>2, <1>3 DEF Next

\* Opening ends with a chat of the two, which is a new one only if there was none
\* when the request began.
LEMMA OpenEnds ==
    ASSUME TypeOK, PairInv, OpenInv, CopyInv, [Next]_vars,
           NEW r \in Requests, cpc[r] \in {"finding", "creating"}, cpc'[r] = "idle"
    PROVE  /\ r \in cutOff \/ \E c \in Ids' : chats'[c].participants = {req[r].by, req[r].other}
           /\ Len(chats') > Len(chats) =>
                 ~\E c \in known[r] : chats'[c].participants = {req[r].by, req[r].other}
<1>1. FindPrivateChat(r) \/ CreateChat(r)
  <2>1. ~(ReadList \/ CutOff \/ UNCHANGED vars)
    BY HandlersStay
  <2>2. \A s \in Requests \ {r} : ~(Arrive(s) \/ Handle(s))
    BY OthersStay
  <2>3. ~Arrive(r) /\ ~ReadFlags(r) /\ ~SaveFlags(r)
    BY DEF Arrive, Open, Toggle, Start, ReadFlags, SaveFlags
  <2>4. QED BY <2>1, <2>2, <2>3 DEF Next, Handle
<1>2. req[r].by \in Users /\ req[r].other \in Users /\ req[r].by # req[r].other
  BY DEF OpenInv
<1>3. CASE FindPrivateChat(r)
  <2>1. chats' = chats /\ Ids' = Ids /\ Len(chats) \in Nat
    BY <1>3 DEF FindPrivateChat, Ids, TypeOK
  <2>2. r \in cutOff \/ \E c \in Ids : {req[r].by, req[r].other} \subseteq chats[c].participants
    BY <1>3 DEF FindPrivateChat, IsChatOf, Resume, TypeOK
  <2>3. QED BY <1>2, <2>1, <2>2, PairOfTwo DEF PairInv
<1>4. CASE CreateChat(r)
  <2>1. \A c \in known[r] : c \in Ids /\ chats[c].participants # {req[r].by, req[r].other}
    BY <1>4 DEF CreateChat, OpenInv, TypeOK
  <2>2. QED BY <1>4, <2>1, CreateEffect
<1>5. QED BY <1>1, <1>3, <1>4

-----------------------------------------------------------------------------
(* Toggles. *)

\* Where a handler is after its step.
LEMMA ToggleMoves ==
    ASSUME TypeOK, CopyInv, NEW r \in Requests, Arrive(r) \/ Handle(r),
           cpc'[r] \in {"reading", "saving"}
    PROVE  /\ UNCHANGED chats
           /\ \/ /\ cpc'[r] = "reading" /\ req'[r].before = InList(req'[r].chat, req'[r].list, req'[r].by)
                 /\ req'[r].chat \in Ids /\ req'[r].list \in Lists /\ req'[r].by \in Users
                 /\ LET rivals == Rivals(r, req'[r].chat, req'[r].list, req'[r].by) IN
                    disturbed' = IF rivals # {} THEN disturbed \cup {r} \cup rivals ELSE disturbed
              \/ /\ cpc[r] = "reading" /\ cpc'[r] = "saving" /\ disturbed' = disturbed
                 /\ req'[r] = [req[r] EXCEPT !.copy = chats[req[r].chat]]
<1>1. ASSUME NEW u \in Users, NEW c \in Ids, NEW l \in Lists, Toggle(r, c, l, u)
      PROVE  /\ UNCHANGED chats
             /\ cpc'[r] = "reading" /\ req'[r].before = InList(req'[r].chat, req'[r].list, req'[r].by)
             /\ req'[r].chat \in Ids /\ req'[r].list \in Lists /\ req'[r].by \in Users
             /\ LET rivals == Rivals(r, req'[r].chat, req'[r].list, req'[r].by) IN
                disturbed' = IF rivals # {} THEN disturbed \cup {r} \cup rivals ELSE disturbed
  <2>1. req'[r] = [Blank EXCEPT !.by = u, !.chat = c, !.list = l, !.before = InList(c, l, u)]
    BY <1>1 DEF Toggle, Start, TypeOK
  <2>2. req'[r].by = u /\ req'[r].chat = c /\ req'[r].list = l /\ req'[r].before = InList(c, l, u)
    BY <2>1 DEF Blank
  <2>3. cpc'[r] = "reading" /\ UNCHANGED chats
    BY <1>1 DEF Toggle, Start, TypeOK
  <2>4. QED BY <1>1, <2>2, <2>3 DEF Toggle
<1>2. ASSUME ReadFlags(r)
      PROVE  /\ UNCHANGED chats
             /\ cpc[r] = "reading" /\ cpc'[r] = "saving" /\ disturbed' = disturbed
             /\ req'[r] = [req[r] EXCEPT !.copy = chats[req[r].chat]]
  BY <1>2 DEF ReadFlags, Resume, Finish, TypeOK
<1>3. ASSUME NEW u \in Users, NEW w \in Users \cup {NoUser}, Open(r, u, w) PROVE FALSE
  BY <1>3 DEF Open, Start, TypeOK
<1>4. ASSUME FindPrivateChat(r) \/ CreateChat(r) \/ SaveFlags(r) PROVE FALSE
  BY <1>4 DEF FindPrivateChat, CreateChat, SaveFlags, Resume, Finish, TypeOK
<1>5. QED BY <1>1, <1>2, <1>3, <1>4 DEF Arrive, Handle

\* Every step preserves that what a toggle has read is old unless it is exact:
\* every save increments the version.
LEMMA CopyStep ==
    ASSUME TypeOK, OpenInv, CopyInv, [Next]_vars
    PROVE  CopyInv'
<1> DEFINE Old(s) == /\ req[s].chat \in Ids /\ req[s].list \in Lists /\ req[s].by \in Users
                     /\ cpc[s] = "saving" =>
                          /\ req[s].copy.v <= chats[req[s].chat].v
                          /\ req[s].copy.v = chats[req[s].chat].v
                                => req[s].copy.flags = chats[req[s].chat].flags
<1>1. \A c \in Ids : chats[c].v \in Nat
  <2>1. \A c \in Ids : chats[c] \in Chat
    BY ElementOfSeq DEF TypeOK, Ids
  <2>2. QED BY <2>1 DEF Chat
<1>2. \A c \in Ids : chats'[c] = chats[c] \/ chats'[c].v = chats[c].v + 1
  <2>1. ASSUME NEW r \in Requests, CreateChat(r), NEW c \in Ids PROVE chats'[c] = chats[c]
    BY <2>1, CreateEffect
  <2>2. ASSUME NEW r \in Requests, Saves(r), NEW c \in Ids
        PROVE  chats'[c] = chats[c] \/ chats'[c].v = chats[c].v + 1
    BY <2>2, SaveEffect DEF Saves
  <2>3. QED BY <2>1, <2>2, ChatStep
<1>3. Ids \subseteq Ids'
  BY ChatsStay
<1>4. ASSUME NEW s \in Requests, cpc[s] \in {"reading", "saving"},
             cpc'[s] = cpc[s], req'[s] = req[s]
      PROVE  Old(s)'
  <2>1. Old(s) /\ req[s].copy.v \in Nat
    BY <1>4 DEF CopyInv, TypeOK, Locals, Chat
  <2>2. QED BY <1>1, <1>2, <1>3, <1>4, <2>1
<1>5. CASE ReadList \/ CutOff \/ UNCHANGED vars
  BY <1>4, <1>5, HandlersStay DEF CopyInv
<1>6. ASSUME NEW r \in Requests, Arrive(r) \/ Handle(r) PROVE CopyInv'
  <2>1. ASSUME NEW s \in Requests \ {r}, cpc'[s] \in {"reading", "saving"} PROVE Old(s)'
    <3>1. cpc'[s] = cpc[s] /\ req'[s] = req[s]
      BY <1>6, OthersStay
    <3>2. QED BY <1>4, <2>1, <3>1
  <2>2. ASSUME cpc'[r] \in {"reading", "saving"} PROVE Old(r)'
    <3>1. CASE cpc'[r] = "reading" /\ req'[r].chat \in Ids /\ req'[r].list \in Lists /\ req'[r].by \in Users
      BY <1>3, <3>1
    <3>2. CASE /\ UNCHANGED chats /\ cpc[r] = "reading"
               /\ req'[r] = [req[r] EXCEPT !.copy = chats[req[r].chat]]
      <4>1. req[r] \in Locals /\ req[r].chat \in Ids /\ req[r].list \in Lists /\ req[r].by \in Users
        BY <3>2 DEF TypeOK, CopyInv
      <4>2. /\ req'[r].chat = req[r].chat /\ req'[r].list = req[r].list /\ req'[r].by = req[r].by
            /\ req'[r].copy = chats[req[r].chat]
        BY <3>2, <4>1 DEF Locals
      <4>3. QED BY <1>1, <1>3, <3>2, <4>1, <4>2
    <3>3. QED BY <1>6, <2>2, <3>1, <3>2, ToggleMoves
  <2>3. QED BY <2>1, <2>2 DEF CopyInv
<1>7. QED BY <1>5, <1>6 DEF Next

\* Every step preserves what undisturbed toggles know: a save of another flag
\* leaves theirs as it was.
LEMMA FlipStep ==
    ASSUME TypeOK, OpenInv, CopyInv, FlipInv, [Next]_vars
    PROVE  FlipInv'
<1> DEFINE Known(s) == /\ InList(req[s].chat, req[s].list, req[s].by) = req[s].before
                       /\ cpc[s] = "saving" => WasInList(s) = req[s].before
<1>1. ASSUME NEW s \in Toggling, NEW r \in Requests \ {s}, Saves(r), ~SameFlag(s, r)
      PROVE  InList(req[s].chat, req[s].list, req[s].by)' = InList(req[s].chat, req[s].list, req[s].by)
                \/ req'[s] # req[s]
  <2> SUFFICES ASSUME req'[s] = req[s]
               PROVE  chats'[req[s].chat].flags[req[s].list][req[s].by]
                         = chats[req[s].chat].flags[req[s].list][req[s].by]
    BY DEF InList
  <2>1. req[s].chat \in Ids /\ req[s].list \in Lists /\ req[s].by \in Users
    BY DEF CopyInv, Toggling
  <2>2. CASE req[s].chat # req[r].chat
    <3>1. chats'[req[s].chat] = chats[req[s].chat]
      BY <1>1, <2>1, <2>2, SaveEffect DEF Saves
    <3>2. QED BY <3>1
  <2>3. CASE req[s].chat = req[r].chat /\ (req[s].list # req[r].list \/ req[s].by # req[r].by)
    <3>1. \A k \in Lists, w \in Users : k # req[r].list \/ w # req[r].by
             => chats'[req[r].chat].flags[k][w] = chats[req[r].chat].flags[k][w]
      BY <1>1, SaveEffect DEF Saves
    <3>2. QED BY <2>1, <2>3, <3>1
  <2>4. QED BY <1>1, <2>2, <2>3 DEF SameFlag
<1>2. ASSUME NEW s \in Toggling, s \notin disturbed, cpc'[s] = cpc[s], req'[s] = req[s],
             \A r \in Requests \ {s} : ~Saves(r) \/ ~SameFlag(s, r), ~Saves(s)
      PROVE  Known(s)'
  <2>1. req[s].chat \in Ids /\ s \in Requests
    BY DEF CopyInv, Toggling
  <2>2. Known(s)
    BY <1>2 DEF FlipInv
  <2>3. WasInList(s)' = WasInList(s)
    BY <1>2 DEF WasInList
  <2>4. InList(req[s].chat, req[s].list, req[s].by)' = InList(req[s].chat, req[s].list, req[s].by)
    <3>1. CASE UNCHANGED chats
      BY <1>2, <3>1 DEF InList
    <3>2. ASSUME NEW r \in Requests, CreateChat(r) PROVE chats'[req[s].chat] = chats[req[s].chat]
      BY <2>1, <3>2, CreateEffect
    <3>3. ASSUME NEW r \in Requests, CreateChat(r)
          PROVE  InList(req[s].chat, req[s].list, req[s].by)' = InList(req[s].chat, req[s].list, req[s].by)
      BY <1>2, <3>2, <3>3 DEF InList
    <3>4. ASSUME NEW r \in Requests, Saves(r)
          PROVE  InList(req[s].chat, req[s].list, req[s].by)' = InList(req[s].chat, req[s].list, req[s].by)
      BY <1>1, <1>2, <3>4
    <3>5. QED BY <3>1, <3>3, <3>4, ChatStep
  <2>5. QED BY <1>2, <2>2, <2>3, <2>4
<1>3. CASE ReadList \/ CutOff \/ UNCHANGED vars
  <2>1. UNCHANGED <<chats, cpc, req, disturbed>>
    BY <1>3, HandlersStay
  <2>2. QED BY <2>1 DEF FlipInv, Toggling, SameFlag, InList, WasInList
<1>4. ASSUME NEW r \in Requests, Arrive(r) \/ Handle(r) PROVE FlipInv'
  <2>1. \A s \in Requests \ {r} :
           /\ cpc'[s] = cpc[s] /\ req'[s] = req[s] /\ (s \in disturbed => s \in disturbed')
    BY <1>4, OthersStay
  <2>2. ASSUME NEW q \in Requests, Saves(q) PROVE q = r
    <3>1. cpc'[q] # cpc[q]
      BY <2>2 DEF Saves, Finish, TypeOK
    <3>2. QED BY <2>1, <3>1
  <2>3. ASSUME NEW s \in Requests \ {r}, cpc'[s] \in {"reading", "saving"}, s \notin disturbed'
        PROVE  Known(s)'
    <3>1. s \in Toggling /\ s \notin disturbed /\ cpc'[s] = cpc[s] /\ req'[s] = req[s]
      BY <2>1, <2>3 DEF Toggling
    <3>2. Saves(r) => ~SameFlag(s, r)
      BY <3>1 DEF FlipInv, Toggling, Saves
    <3>3. QED BY <1>2, <2>2, <3>1, <3>2
  <2>4. ASSUME cpc'[r] \in {"reading", "saving"}, r \notin disturbed' PROVE Known(r)'
    <3>1. UNCHANGED chats
      BY <1>4, <2>4, ToggleMoves
    <3>2. CASE cpc'[r] = "reading" /\ req'[r].before = InList(req'[r].chat, req'[r].list, req'[r].by)
      BY <3>1, <3>2 DEF InList
    <3>3. CASE /\ cpc[r] = "reading" /\ disturbed' = disturbed
               /\ req'[r] = [req[r] EXCEPT !.copy = chats[req[r].chat]]
      <4>1. req[r] \in Locals /\ r \in Toggling \ disturbed
        BY <2>4, <3>3 DEF TypeOK, Toggling
      <4>2. /\ req'[r].chat = req[r].chat /\ req'[r].list = req[r].list /\ req'[r].by = req[r].by
            /\ req'[r].before = req[r].before /\ req'[r].copy = chats[req[r].chat]
        BY <3>3, <4>1 DEF Locals
      <4>3. InList(req[r].chat, req[r].list, req[r].by) = req[r].before
        BY <4>1 DEF FlipInv
      <4>4. QED BY <3>1, <4>2, <4>3 DEF InList, WasInList
    <3>4. QED BY <1>4, <2>4, <3>2, <3>3, ToggleMoves
  <2>5. ASSUME NEW s \in Requests \ {r}, cpc'[r] \in {"reading", "saving"}, cpc'[s] \in {"reading", "saving"},
               SameFlag(r, s)'
        PROVE  r \in disturbed' /\ s \in disturbed'
    <3>1. req'[s] = req[s] /\ cpc'[s] = cpc[s] /\ s \in Toggling
      BY <2>1, <2>5 DEF Toggling
    <3>2. CASE LET rivals == Rivals(r, req'[r].chat, req'[r].list, req'[r].by) IN
               disturbed' = IF rivals # {} THEN disturbed \cup {r} \cup rivals ELSE disturbed
      <4>1. s \in Rivals(r, req'[r].chat, req'[r].list, req'[r].by)
        BY <2>5, <3>1 DEF Rivals, SameFlag, Toggling
      <4>2. QED BY <3>2, <4>1
    <3>3. CASE /\ cpc[r] = "reading" /\ disturbed' = disturbed
               /\ req'[r] = [req[r] EXCEPT !.copy = chats[req[r].chat]]
      <4>1. req[r] \in Locals /\ r \in Toggling
        BY <3>3 DEF TypeOK, Toggling
      <4>2. req'[r].chat = req[r].chat /\ req'[r].list = req[r].list /\ req'[r].by = req[r].by
        BY <3>3, <4>1 DEF Locals
      <4>3. SameFlag(r, s) /\ SameFlag(s, r)
        BY <2>5, <3>1, <4>2 DEF SameFlag
      <4>4. QED BY <3>1, <3>3, <4>1, <4>3 DEF FlipInv
    <3>4. QED BY <1>4, <2>5, <3>2, <3>3, ToggleMoves
  <2>6. ASSUME NEW s \in Requests \ {r}, NEW q \in Requests \ {r}, q # s, cpc'[s] \in {"reading", "saving"},
               cpc'[q] \in {"reading", "saving"}, SameFlag(s, q)'
        PROVE  s \in disturbed'
    <3>1. s \in Toggling /\ q \in Toggling /\ SameFlag(s, q)
      BY <2>1, <2>6 DEF Toggling, SameFlag
    <3>2. QED BY <2>1, <2>6, <3>1 DEF FlipInv
  <2>7. ASSUME NEW s \in Toggling', NEW q \in Toggling', s # q, SameFlag(s, q)'
        PROVE  s \in disturbed'
    <3>1. SameFlag(q, s)'
      BY <2>7 DEF SameFlag
    <3>2. QED BY <2>5, <2>6, <2>7, <3>1 DEF Toggling
  <2>8. \A s \in Toggling' \ disturbed' : Known(s)'
    BY <2>3, <2>4 DEF Toggling
  <2>9. QED BY <2>7, <2>8 DEF FlipInv
<1>5. QED BY <1>3, <1>4 DEF Next

-----------------------------------------------------------------------------
(* The theorems about opening chats and about toggles. *)

IndInv == TypeOK /\ PairInv /\ OpenInv /\ CopyInv /\ FlipInv

\* The invariant holds of every reachable state.
LEMMA IndInvCorrect == Spec => []IndInv
<1>1. Init => IndInv
  BY TypeInit, ChatsInit DEF Init, IndInv, OpenInv, CopyInv, FlipInv, Toggling
<1>2. IndInv /\ [Next]_vars => IndInv'
  BY TypeStep, PairStep, OpenStep, CopyStep, FlipStep DEF IndInv
<1>3. QED BY <1>1, <1>2, PTL DEF Spec

\* Every variable keeps its type, and the chats are in an order, that of updatedAt.
THEOREM TypeCorrect == Spec => []TypeOK
<1>1. IndInv => TypeOK
  BY DEF IndInv
<1>2. QED BY <1>1, IndInvCorrect, PTL

\* A request to open a chat ends with a chat of the two users, and with a new one
\* only if they had none when it began.
THEOREM OpeningFindsTheChat == Spec => OpenFindsChat
<1> DEFINE Found == \A r \in Requests : (cpc[r] \in {"finding", "creating"} /\ cpc'[r] = "idle") =>
                       LET chatOfPair(c) == chats'[c].participants = {req[r].by, req[r].other} IN
                       /\ r \in cutOff \/ \E c \in Ids' : chatOfPair(c)
                       /\ Len(chats') > Len(chats) => ~\E c \in known[r] : chatOfPair(c)
<1>1. IndInv /\ [Next]_vars => [Found]_vars
  BY OpenEnds DEF IndInv
<1>2. QED BY <1>1, IndInvCorrect, PTL DEF Spec, OpenFindsChat

\* A toggle changes no flag but its own, although a removal writes back the list
\* it has read: the version it asks for is that of the list.
THEOREM TogglesKeepOthersFlags == Spec => OthersFlagsKept
<1> DEFINE Kept == \A c \in Ids, l \in Lists, u \in Users :
         chats'[c].flags[l][u] # chats[c].flags[l][u] =>
            \E r \in Requests : /\ cpc[r] = "saving" /\ cpc'[r] # "saving"
                                /\ req[r].chat = c /\ req[r].list = l /\ req[r].by = u
<1>1. IndInv /\ [Next]_vars => [Kept]_vars
  <2> SUFFICES ASSUME IndInv, [Next]_vars, NEW c \in Ids, NEW l \in Lists, NEW u \in Users,
                      chats'[c].flags[l][u] # chats[c].flags[l][u]
               PROVE  \E r \in Requests : /\ cpc[r] = "saving" /\ cpc'[r] # "saving"
                                          /\ req[r].chat = c /\ req[r].list = l /\ req[r].by = u
    OBVIOUS
  <2>1. TypeOK /\ OpenInv /\ CopyInv
    BY DEF IndInv
  <2>2. ASSUME NEW r \in Requests, CreateChat(r) PROVE FALSE
    BY <2>1, <2>2, CreateEffect
  <2>3. PICK r \in Requests : Saves(r)
    BY <2>2, ChatStep
  <2>4. cpc[r] = "saving" /\ cpc'[r] # "saving"
    BY <2>1, <2>3 DEF Saves, Finish, TypeOK
  <2>5. \A d \in Ids \ {req[r].chat} : chats'[d] = chats[d]
    BY <2>1, <2>3, SaveEffect DEF Saves
  <2>6. c = req[r].chat
    BY <2>5
  <2>7. \A k \in Lists, w \in Users : k # req[r].list \/ w # req[r].by
           => chats'[req[r].chat].flags[k][w] = chats[req[r].chat].flags[k][w]
    BY <2>1, <2>3, SaveEffect DEF Saves
  <2>8. QED BY <2>4, <2>6, <2>7
<1>2. QED BY <1>1, IndInvCorrect, PTL DEF Spec, OthersFlagsKept

\* A toggle that goes through flips its flag unless another toggle of the same
\* flag overlapped it.
THEOREM TogglesFlipTheFlag == Spec => ToggleFlips
<1> DEFINE Flips == \A r \in Requests \ disturbed :
         (cpc[r] = "saving" /\ cpc'[r] = "idle" /\ chats' # chats) =>
            (chats'[req[r].chat].flags[req[r].list][req[r].by] > 0) # req[r].before
<1>1. IndInv /\ [Next]_vars => [Flips]_vars
  <2> SUFFICES ASSUME IndInv, [Next]_vars, NEW r \in Requests \ disturbed,
                      cpc[r] = "saving", cpc'[r] = "idle", chats' # chats
               PROVE  (chats'[req[r].chat].flags[req[r].list][req[r].by] > 0) # req[r].before
    OBVIOUS
  <2>1. TypeOK /\ OpenInv /\ CopyInv /\ FlipInv
    BY DEF IndInv
  <2>2. \A q \in Requests \ {r} : ~CreateChat(q) /\ ~Saves(q)
    BY <2>1 DEF CreateChat, Saves, Finish, TypeOK
  <2>3. Saves(r)
    BY <2>2, ChatStep DEF CreateChat
  <2>4. WasInList(r) = req[r].before
    BY <2>1 DEF FlipInv, Toggling
  <2>5. chats'[req[r].chat].flags[req[r].list][req[r].by] > 0 <=> ~WasInList(r)
    BY <2>1, <2>3, SaveEffect DEF Saves
  <2>6. req[r].before \in BOOLEAN
    BY <2>1 DEF TypeOK, Locals
  <2>7. QED BY <2>4, <2>5, <2>6
<1>2. QED BY <1>1, IndInvCorrect, PTL DEF Spec, ToggleFlips

-----------------------------------------------------------------------------
(* The chat list. *)

\* The chats of a set that come no later than one of them when they are read.
UpTo(seen, b, c) == {d \in seen : b[d] <= b[c]}

\* A chat's place is among the number of the chats that are seen.
LEMMA PlaceType ==
    ASSUME TypeOK, NEW seen \in SUBSET Ids, NEW b \in [Ids -> Ids]
    PROVE  /\ IsFiniteSet(seen) /\ Cardinality(seen) \in Nat
           /\ \A c \in seen : /\ IsFiniteSet(UpTo(seen, b, c))
                              /\ Place(seen, b, c) = Cardinality(UpTo(seen, b, c))
                              /\ Place(seen, b, c) \in 1 .. Cardinality(seen)
<1>1. Len(chats) \in Nat
  BY DEF TypeOK
<1>2. IsFiniteSet(Ids)
  BY <1>1, FS_Interval DEF Ids
<1>3. IsFiniteSet(seen) /\ Cardinality(seen) \in Nat
  BY <1>2, FS_Subset, FS_CardinalityType
<1>4. ASSUME NEW c \in seen
      PROVE  /\ IsFiniteSet(UpTo(seen, b, c)) /\ Place(seen, b, c) = Cardinality(UpTo(seen, b, c))
             /\ Place(seen, b, c) \in 1 .. Cardinality(seen)
  <2>1. UpTo(seen, b, c) \subseteq seen
    BY DEF UpTo
  <2>2. IsFiniteSet(UpTo(seen, b, c)) /\ Cardinality(UpTo(seen, b, c)) <= Cardinality(seen)
    BY <1>3, <2>1, FS_Subset
  <2>3. c \in UpTo(seen, b, c)
    BY <1>1 DEF UpTo, Ids
  <2>4. Cardinality(UpTo(seen, b, c)) \in Nat /\ Cardinality(UpTo(seen, b, c)) # 0
    BY <2>2, <2>3, FS_CardinalityType, FS_EmptySet
  <2>5. Place(seen, b, c) = Cardinality(UpTo(seen, b, c))
    BY DEF Place, UpTo
  <2>6. QED BY <1>3, <2>2, <2>4, <2>5
<1>5. QED BY <1>3, <1>4

\* No two chats that are seen share a place.
LEMMA PlacesDiffer ==
    ASSUME TypeOK, NEW seen \in SUBSET Ids, NEW b \in [Ids -> Ids],
           \A c, d \in Ids : b[c] = b[d] => c = d,
           NEW c \in seen, NEW d \in seen, c # d
    PROVE  Place(seen, b, c) # Place(seen, b, d)
<1>1. b[c] \in Nat /\ b[d] \in Nat /\ b[c] # b[d] /\ \A e \in seen : b[e] \in Nat
  BY DEF Ids
<1>2. /\ IsFiniteSet(UpTo(seen, b, c)) /\ IsFiniteSet(UpTo(seen, b, d))
      /\ Place(seen, b, c) = Cardinality(UpTo(seen, b, c))
      /\ Place(seen, b, d) = Cardinality(UpTo(seen, b, d))
  BY PlaceType
<1>3. CASE b[c] < b[d]
  <2>1. UpTo(seen, b, c) \subseteq UpTo(seen, b, d) /\ UpTo(seen, b, c) # UpTo(seen, b, d)
    BY <1>1, <1>3 DEF UpTo
  <2>2. QED BY <1>2, <2>1, FS_Subset
<1>4. CASE b[d] < b[c]
  <2>1. UpTo(seen, b, d) \subseteq UpTo(seen, b, c) /\ UpTo(seen, b, d) # UpTo(seen, b, c)
    BY <1>1, <1>4 DEF UpTo
  <2>2. QED BY <1>2, <2>1, FS_Subset
<1>5. QED BY <1>1, <1>3, <1>4

\* Every place up to their number is some chat's.
LEMMA PlacesTaken ==
    ASSUME TypeOK, NEW seen \in SUBSET Ids, NEW b \in [Ids -> Ids],
           \A c, d \in Ids : b[c] = b[d] => c = d,
           NEW k \in 1 .. Cardinality(seen)
    PROVE  \E c \in seen : Place(seen, b, c) = k
<1> DEFINE n == Cardinality(seen)
           place == [c \in seen |-> Place(seen, b, c)]
<1>1. n \in Nat /\ IsFiniteSet(seen)
  BY PlaceType
<1>2. IsFiniteSet(1 .. n) /\ Cardinality(1 .. n) = n
  BY <1>1, FS_Interval
<1>3. place \in Injection(seen, 1 .. n)
  BY PlaceType, PlacesDiffer DEF Injection, IsInjective
<1>4. place \in Surjection(seen, 1 .. n)
  BY <1>1, <1>2, <1>3, FS_Injection
<1>5. QED BY <1>4 DEF Surjection

\* A page before a chat's place is full.
LEMMA PageFull ==
    ASSUME TypeOK, NEW seen \in SUBSET Ids, NEW b \in [Ids -> Ids],
           \A d, e \in Ids : b[d] = b[e] => d = e,
           NEW page \in Nat \ {0}, NEW c \in seen,
           Skip(page) + Limit < Place(seen, b, c)
    PROVE  Cardinality(Page(seen, b, page)) = Limit
<1> DEFINE n == Cardinality(seen)
           s == Skip(page)
           T == (s + 1) .. (s + Limit)
           place == [d \in Page(seen, b, page) |-> Place(seen, b, d)]
<1>1. n \in Nat /\ Place(seen, b, c) \in 1 .. n /\ \A d \in seen : Place(seen, b, d) \in 1 .. n
  BY PlaceType
<1>2. s \in Nat /\ Limit \in Nat \ {0}
  BY PrivateChatsAssumption DEF Skip
<1> HIDE DEF s, n
<1>3. IsFiniteSet(T) /\ Cardinality(T) = Limit
  BY <1>2, FS_Interval
<1>4. Page(seen, b, page) = {d \in seen : Place(seen, b, d) \in T}
  BY <1>1, <1>2 DEF Page, s
<1>5. place \in Injection(Page(seen, b, page), T)
  BY <1>4, PlacesDiffer DEF Injection, IsInjective
<1>6. \A k \in T : k \in 1 .. n
  BY <1>1, <1>2 DEF s
<1>7. \A k \in T : \E d \in seen : Place(seen, b, d) = k
  BY <1>6, PlacesTaken DEF n
<1>8. place \in Surjection(Page(seen, b, page), T)
  BY <1>4, <1>5, <1>7 DEF Injection, Surjection
<1>9. QED BY <1>3, <1>5, <1>8, FS_Injection

\* The chats up to one are finitely many.
LEMMA AheadType ==
    ASSUME TypeOK, NEW c
    PROVE  IsFiniteSet(Ahead(c)) /\ Cardinality(Ahead(c)) \in Nat
<1>1. IsFiniteSet(1 .. Len(chats)) /\ Ahead(c) \subseteq 1 .. Len(chats)
  BY FS_Interval DEF TypeOK, Ahead, ChatsOf, Ids
<1>2. QED BY <1>1, FS_Subset, FS_CardinalityType

\* Where the next page begins.
LEMMA SkipType ==
    /\ Skip(1) = 0
    /\ \A page \in Nat : Skip(page) \in Int /\ Skip(page + 1) = Skip(page) + Limit
BY PrivateChatsAssumption DEF Skip

\* A chat that is saved is in front of what is due, and pushes it back.
LEMMA DueTouched ==
    ASSUME TypeOK, TypeOK', DueInv, NEW c \in Ids', Ids \subseteq Ids', Ids' \subseteq Ids \cup {c},
           \A d \in Ids : chats'[d].participants = chats[d].participants, Touch(c)
    PROVE  DueInv'
<1>0. PICK u : u = reader.user
  OBVIOUS
<1>1. /\ \A d, e \in Ids \ {c} : recent'[d] < recent'[e] <=> recent[d] < recent[e]
      /\ reader'.user = u /\ reader'.page = reader.page /\ reader'.asked = reader.asked
      /\ reader'.moved = IF reader.asked THEN reader.moved \cup {c} ELSE reader.moved
      /\ reader'.due = {d \in reader.due \ {c} : u \in chats'[c].participants => PutInFront(c, d)}
  BY <1>0, TouchEffect
<1>2. /\ reader \in Reader /\ Len(chats) \in Nat /\ Len(chats') \in Nat
      /\ recent \in [Ids -> Ids] /\ recent' \in [Ids' -> Ids']
  BY OrdersType DEF TypeOK, Ids
<1>3. /\ \A d \in Ids : recent[d] \in Nat
      /\ \A d \in Ids' : recent'[d] \in Nat
  BY <1>2 DEF Ids
<1>4. \A d \in Ids' : d \in ChatsOf(u)' <=> u \in chats'[d].participants
  BY DEF ChatsOf
<1>5. \A d \in Ids' \ {c} : d \in Ids /\ (d \in ChatsOf(u)' <=> d \in ChatsOf(u))
  BY DEF ChatsOf
<1>6. ChatsOf(u) \subseteq Ids /\ ChatsOf(u)' \subseteq Ids' /\ ChatsOf(u) \subseteq ChatsOf(u)'
  BY DEF ChatsOf
<1>7. ASSUME NEW d \in reader'.due
      PROVE  /\ d \in ChatsOf(u)' \ reader'.moved
             /\ \A e \in ChatsOf(u)' \ {d} : recent'[e] # recent'[d]
             /\ \A e \in ChatsOf(u)' \cap reader'.moved : recent'[e] < recent'[d]
             /\ Skip(reader.page) < Cardinality(Ahead(d)')
  <2>1. /\ d \in reader.due /\ d # c /\ d \in ChatsOf(u) \ reader.moved /\ d \in Ids
        /\ \A e \in ChatsOf(u) \ {d} : recent[e] # recent[d]
        /\ \A e \in ChatsOf(u) \cap reader.moved : recent[e] < recent[d]
        /\ Skip(reader.page) < Cardinality(Ahead(d))
    BY <1>0, <1>1, <1>6, <1>7 DEF DueInv, OfItsOwn
  <2>2. c \in ChatsOf(u)' => recent'[c] < recent'[d] /\ (reader.asked /\ c \in Ids => recent[d] < recent[c])
    BY <1>0, <1>1, <1>4, <1>7 DEF PutInFront
  <2>3. ASSUME NEW e \in ChatsOf(u)' \ {c, d}
        PROVE  /\ e \in ChatsOf(u) /\ e \in Ids
               /\ recent[e] # recent[d] /\ recent'[e] # recent'[d]
               /\ recent'[e] < recent'[d] <=> recent[e] < recent[d]
    <3>1. e \in Ids' \ {c}
      BY <1>6, <2>3
    <3>2. e \in ChatsOf(u) /\ e \in Ids
      BY <1>5, <2>3, <3>1
    <3>3. recent[e] # recent[d]
      BY <2>1, <2>3, <3>2
    <3>4. /\ recent'[e] < recent'[d] <=> recent[e] < recent[d]
          /\ recent'[d] < recent'[e] <=> recent[d] < recent[e]
      BY <1>1, <2>1, <2>3, <3>2
    <3>5. recent[e] \in Nat /\ recent[d] \in Nat /\ recent'[e] \in Nat /\ recent'[d] \in Nat
      BY <1>3, <2>1, <3>1, <3>2
    <3>6. QED BY <3>2, <3>3, <3>4, <3>5
  <2>4. recent'[d] \in Nat /\ recent'[c] \in Nat
    BY <1>3, <2>1
  <2>5. \A e \in ChatsOf(u)' \ {d} : recent'[e] # recent'[d]
    BY <2>2, <2>3, <2>4
  <2>6. \A e \in ChatsOf(u)' \cap reader'.moved : recent'[e] < recent'[d]
    BY <1>1, <2>1, <2>2, <2>3
  <2>7. Ahead(d) \subseteq Ahead(d)'
    <3>1. Ahead(d)' = {e \in ChatsOf(u)' \ reader'.moved : recent'[e] <= recent'[d]}
      BY <1>1 DEF Ahead, ChatsOf
    <3>2. ASSUME NEW e \in Ahead(d), e # c, e # d PROVE e \in Ahead(d)'
      <4>1. e \in ChatsOf(u)' \ {c, d} /\ e \notin reader'.moved /\ recent[e] <= recent[d]
        BY <1>0, <1>1, <1>6, <3>2 DEF Ahead
      <4>2. recent[e] \in Nat /\ recent[d] \in Nat /\ recent'[e] \in Nat
        BY <1>3, <1>6, <2>1, <2>3, <4>1
      <4>3. recent'[e] < recent'[d]
        BY <2>3, <4>1, <4>2
      <4>4. QED BY <2>4, <3>1, <4>1, <4>2, <4>3
    <3>3. ASSUME c \in Ahead(d) PROVE c \in Ahead(d)'
      <4>1. c \in ChatsOf(u) /\ c \in Ids /\ c \in ChatsOf(u)' /\ recent[c] <= recent[d]
        BY <1>0, <1>6, <3>3 DEF Ahead
      <4>2. ~reader.asked /\ recent'[c] < recent'[d]
        BY <1>3, <2>1, <2>2, <4>1
      <4>3. c \notin reader'.moved
        BY <1>1, <4>2 DEF DueInv
      <4>4. QED BY <2>4, <3>1, <4>1, <4>2, <4>3
    <3>4. d \in Ahead(d)'
      BY <1>1, <1>6, <2>1, <2>4, <3>1
    <3>5. QED BY <3>2, <3>3, <3>4
  <2>8. IsFiniteSet(Ahead(d)') /\ Cardinality(Ahead(d)') \in Nat
    <3>1. /\ Ahead(d)' \subseteq 1 .. Len(chats')
      BY DEF Ahead, ChatsOf, Ids
    <3>2. IsFiniteSet(1 .. Len(chats'))
      BY <1>2, FS_Interval
    <3>3. QED BY <3>1, <3>2, FS_Subset, FS_CardinalityType
  <2>9. Cardinality(Ahead(d)) <= Cardinality(Ahead(d)')
    BY <2>7, <2>8, FS_Subset
  <2>10. Skip(reader.page) < Cardinality(Ahead(d)')
    <3>1. Skip(reader.page) \in Int /\ Cardinality(Ahead(d)) \in Nat
      BY <1>2, SkipType, AheadType DEF Reader
    <3>2. QED BY <2>1, <2>8, <2>9, <3>1
  <2>11. QED BY <1>1, <1>6, <2>1, <2>5, <2>6, <2>10
<1>8. \A d : OfItsOwn(reader.user, d)' <=> \A e \in ChatsOf(u)' \ {d} : recent'[e] # recent'[d]
  BY <1>1 DEF OfItsOwn, ChatsOf
<1>9. ChatsOf(reader.user)' = ChatsOf(u)' /\ Skip(reader.page)' = Skip(reader.page)
  BY <1>1 DEF ChatsOf, Skip
<1>10. /\ reader'.page = 0 => reader'.due = {}
       /\ ~reader'.asked => reader'.moved = {}
       /\ reader'.asked => reader'.page > 0
       /\ reader'.page > 0 => reader'.user \in Users
  BY <1>0, <1>1 DEF DueInv
<1>11. QED BY <1>7, <1>8, <1>9, <1>10 DEF DueInv

\* What a page leaves over, although chats that are saved while it is read are missed or
\* come at another place, is behind that page, and then the page is full.
LEMMA DueRead ==
    ASSUME TypeOK, DueInv, ReadPage
    PROVE  DueInv'
<1>1. PICK b \in Readings, missed \in SUBSET reader.moved :
         LET got == Page(ChatsOf(reader.user) \ missed, b, reader.page)
             last == Cardinality(got) < Limit
         IN reader' = [NoReader EXCEPT
               !.user = IF last THEN NoUser ELSE reader.user,
               !.page = IF last THEN 0 ELSE reader.page + 1,
               !.due = reader.due \ got]
  BY DEF ReadPage
<1> DEFINE u == reader.user
           page == reader.page
           seen == ChatsOf(u) \ missed
           got == Page(seen, b, page)
<1>2. /\ chats' = chats /\ recent' = recent /\ Ids' = Ids
      /\ reader'.due = reader.due \ got /\ reader'.moved = {} /\ ~reader'.asked
      /\ Cardinality(got) < Limit => reader'.page = 0
      /\ ~(Cardinality(got) < Limit) => reader'.page = page + 1 /\ reader'.user = u
  BY <1>1 DEF ReadPage, NoReader, Ids
<1>3. /\ reader \in Reader /\ Len(chats) \in Nat /\ recent \in [Ids -> Ids]
      /\ \A d \in Ids : recent[d] \in Nat
  BY OrdersType DEF TypeOK, Ids
<1>4. /\ b \in [Ids -> Ids] /\ \A c, d \in Ids : b[c] = b[d] => c = d
      /\ \A c, d \in Ids \ reader.moved : recent[c] < recent[d] => b[c] < b[d]
      /\ \A d \in Ids : b[d] \in Nat
  BY DEF Readings, Ids
<1>5. seen \in SUBSET Ids /\ ChatsOf(u) \subseteq Ids
  BY DEF ChatsOf
<1>6. seen = ChatsOf(u) \ missed
  OBVIOUS
<1> HIDE DEF got, seen
<1>7. ASSUME NEW c \in reader'.due
      PROVE  /\ c \in seen /\ page \in Nat \ {0} /\ Skip(page) + Limit < Place(seen, b, c)
             /\ c \in ChatsOf(u) /\ OfItsOwn(u, c)
             /\ UpTo(seen, b, c) \subseteq {d \in ChatsOf(u) : recent[d] <= recent[c]}
  <2>1. /\ c \in reader.due /\ c \notin got /\ c \in ChatsOf(u) \ reader.moved /\ c \in Ids
        /\ OfItsOwn(u, c) /\ Skip(page) < Cardinality(Ahead(c))
        /\ \A d \in ChatsOf(u) \ {c} : recent[d] # recent[c]
        /\ \A d \in ChatsOf(u) \cap reader.moved : recent[d] < recent[c]
    BY <1>2, <1>5, <1>7 DEF DueInv, OfItsOwn
  <2>2. c \in seen
    BY <1>1, <1>6, <2>1
  <2>3. page \in Nat \ {0}
    BY <1>3, <2>1 DEF DueInv, Reader
  <2>4. IsFiniteSet(UpTo(seen, b, c)) /\ Place(seen, b, c) = Cardinality(UpTo(seen, b, c))
        /\ Place(seen, b, c) \in Nat
    <3>1. b \in [Ids -> Ids]
      BY <1>4
    <3>2. Cardinality(seen) \in Nat /\ Place(seen, b, c) \in 1 .. Cardinality(seen)
      BY <1>5, <2>2, <3>1, PlaceType
    <3>3. IsFiniteSet(UpTo(seen, b, c)) /\ Place(seen, b, c) = Cardinality(UpTo(seen, b, c))
      BY <1>5, <2>2, <3>1, PlaceType
    <3>4. QED BY <3>2, <3>3
  <2>5. Ahead(c) \subseteq UpTo(seen, b, c)
    <3> SUFFICES ASSUME NEW d \in Ahead(c) PROVE d \in seen /\ b[d] <= b[c]
      BY DEF UpTo
    <3>1. d \in ChatsOf(u) \ reader.moved /\ d \in Ids /\ recent[d] <= recent[c]
      BY <1>5 DEF Ahead
    <3>2. d = c \/ recent[d] < recent[c]
      BY <1>3, <2>1, <3>1
    <3>3. d = c \/ b[d] < b[c]
      BY <1>4, <2>1, <3>1, <3>2
    <3>4. QED BY <1>1, <1>4, <1>6, <2>1, <3>1, <3>3
  <2>6. Cardinality(Ahead(c)) <= Place(seen, b, c) /\ Cardinality(Ahead(c)) \in Nat
    BY <2>4, <2>5, FS_Subset, AheadType
  <2>7. Skip(page) \in Int /\ Limit \in Nat
    BY <2>3, SkipType, PrivateChatsAssumption
  <2>8. Skip(page) < Place(seen, b, c)
    BY <2>1, <2>4, <2>6, <2>7
  <2>9. Skip(page) + Limit < Place(seen, b, c)
    BY <2>1, <2>2, <2>4, <2>7, <2>8 DEF Page, got
  <2>10. UpTo(seen, b, c) \subseteq {d \in ChatsOf(u) : recent[d] <= recent[c]}
    <3> SUFFICES ASSUME NEW d \in seen, b[d] <= b[c]
                 PROVE  d \in ChatsOf(u) /\ recent[d] <= recent[c]
      BY DEF UpTo
    <3>1. d \in Ids /\ d \in ChatsOf(u)
      BY <1>5, <1>6
    <3>2. CASE d \in reader.moved
      BY <1>3, <2>1, <3>1, <3>2
    <3>3. CASE d \notin reader.moved
      <4>1. ~(recent[c] < recent[d])
        BY <1>4, <2>1, <3>1, <3>3
      <4>2. QED BY <1>3, <2>1, <3>1, <4>1
    <3>4. QED BY <3>2, <3>3
  <2>11. QED BY <2>1, <2>2, <2>3, <2>9, <2>10
<1>8. CASE Cardinality(got) < Limit
  <2>1. ASSUME NEW c \in reader'.due PROVE FALSE
    <3>1. Cardinality(got) = Limit
      BY <1>4, <1>5, <1>7, <2>1, PageFull DEF got
    <3>2. QED BY <1>8, <3>1, PrivateChatsAssumption
  <2>2. QED BY <1>2, <1>8, <2>1 DEF DueInv
<1>9. CASE ~(Cardinality(got) < Limit)
  <2>1. page \in Nat /\ page > 0 /\ u \in Users
    BY <1>3 DEF ReadPage, DueInv, Reader
  <2>2. reader'.page = page + 1 /\ reader'.user = u
    BY <1>2, <1>9
  <2>3. ChatsOf(reader.user)' = ChatsOf(u) /\ Skip(reader.page)' = Skip(page + 1)
    BY <1>2, <2>2 DEF ChatsOf, Skip
  <2>4. \A c : OfItsOwn(reader.user, c)' <=> OfItsOwn(u, c)
    BY <1>2, <2>2 DEF OfItsOwn, ChatsOf
  <2>5. \A c : Ahead(c)' = {d \in ChatsOf(u) : recent[d] <= recent[c]}
    BY <1>2, <2>2 DEF Ahead, ChatsOf
  <2>6. ASSUME NEW c \in reader'.due PROVE Skip(page + 1) < Cardinality(Ahead(c)')
    <3>1. /\ c \in seen /\ Skip(page) + Limit < Place(seen, b, c)
          /\ UpTo(seen, b, c) \subseteq Ahead(c)'
      BY <1>7, <2>5, <2>6
    <3>2. Place(seen, b, c) = Cardinality(UpTo(seen, b, c)) /\ Place(seen, b, c) \in Nat
      BY <1>4, <1>5, <3>1, PlaceType
    <3>3. IsFiniteSet(Ahead(c)') /\ Cardinality(Ahead(c)') \in Nat
      <4>1. Ahead(c)' \in SUBSET Ids
        BY <1>5, <2>5
      <4>2. QED BY <1>4, <4>1, PlaceType
    <3>4. Cardinality(UpTo(seen, b, c)) <= Cardinality(Ahead(c)')
      BY <3>1, <3>3, FS_Subset
    <3>5. Skip(page) \in Int /\ Skip(page + 1) = Skip(page) + Limit /\ Limit \in Nat
      BY <2>1, SkipType, PrivateChatsAssumption
    <3>6. QED BY <3>1, <3>2, <3>3, <3>4, <3>5
  <2>7. ASSUME NEW c \in reader'.due PROVE c \in ChatsOf(u) /\ OfItsOwn(u, c)
    BY <1>7, <2>7
  <2>8. QED BY <1>2, <2>1, <2>2, <2>3, <2>4, <2>6, <2>7 DEF DueInv
<1>10. QED BY <1>8, <1>9

\* Every step preserves that what is due is on the pages to come.
LEMMA DueStep ==
    ASSUME TypeOK, TypeOK', OpenInv, CopyInv, DueInv, [Next]_vars
    PROVE  DueInv'
<1>1. Ids \subseteq Ids' /\ \A d \in Ids : chats'[d].participants = chats[d].participants
  BY ChatsStay
<1>2. reader \in Reader /\ Len(chats) \in Nat /\ Len(chats') \in Nat
  BY DEF TypeOK
<1>3. ASSUME UNCHANGED <<reader, recent, chats>> PROVE DueInv'
  BY <1>3 DEF DueInv, Ahead, ChatsOf, OfItsOwn, Skip, Ids
<1>4. ASSUME NEW r \in Requests, CreateChat(r) PROVE DueInv'
  <2>1. Ids' = Ids \cup {Len(chats')} /\ Touch(Len(chats'))
    BY <1>4, CreateEffect DEF CreateChat
  <2>2. QED BY <1>1, <2>1, DueTouched
<1>5. ASSUME NEW r \in Requests, SaveFlags(r), ~UNCHANGED <<reader, recent, chats>> PROVE DueInv'
  <2>1. Ids' = Ids /\ req[r].chat \in Ids /\ Touch(req[r].chat)
    BY <1>5, SaveEffect DEF SaveFlags, CopyInv, Ids
  <2>2. QED BY <1>1, <2>1, DueTouched
<1>6. ASSUME NEW r \in Requests, Arrive(r) \/ Handle(r) PROVE DueInv'
  <2>1. Arrive(r) \/ FindPrivateChat(r) \/ ReadFlags(r) => UNCHANGED <<reader, recent, chats>>
    BY DEF Arrive, Open, Toggle, Start, FindPrivateChat, ReadFlags
  <2>2. QED BY <1>3, <1>4, <1>5, <1>6, <2>1 DEF Handle
<1>7. ASSUME NEW c \in Ids, SendTouches(c) PROVE DueInv'
  <2>1. Ids' = Ids /\ Touch(c)
    BY <1>7 DEF SendTouches, Ids
  <2>2. QED BY <1>1, <2>1, DueTouched
<1>8. ASSUME NEW u \in Users, StartPaging(u) PROVE DueInv'
  <2>1. /\ chats' = chats /\ recent' = recent /\ Ids' = Ids
        /\ reader'.user = u /\ reader'.page = 1 /\ reader'.asked /\ reader'.moved = {}
        /\ reader'.due = {c \in ChatsOf(u) : OfItsOwn(u, c)}
    BY <1>8 DEF StartPaging, NoReader, Ids
  <2>2. /\ ChatsOf(reader.user)' = ChatsOf(u) /\ Skip(reader.page)' = 0
        /\ \A c : OfItsOwn(reader.user, c)' <=> OfItsOwn(u, c)
        /\ \A c : Ahead(c)' = {d \in ChatsOf(u) : recent[d] <= recent[c]}
    BY <2>1, SkipType DEF ChatsOf, OfItsOwn, Ahead, Skip
  <2>3. ASSUME NEW c \in ChatsOf(u) PROVE 0 < Cardinality(Ahead(c)')
    <3>1. recent \in [Ids -> Ids]
      BY <1>2, OrdersType DEF TypeOK, Ids
    <3>2. c \in Ahead(c)'
      BY <2>2, <2>3, <3>1 DEF ChatsOf, Ids
    <3>3. IsFiniteSet(1 .. Len(chats)) /\ Ahead(c)' \subseteq 1 .. Len(chats)
      BY <1>2, <2>2, FS_Interval DEF ChatsOf, Ids
    <3>4. IsFiniteSet(Ahead(c)')
      BY <3>3, FS_Subset
    <3>5. Cardinality(Ahead(c)') \in Nat /\ Cardinality(Ahead(c)') # 0
      BY <3>2, <3>4, FS_CardinalityType, FS_EmptySet
    <3>6. QED BY <3>5
  <2>4. QED BY <2>1, <2>2, <2>3 DEF DueInv
<1>9. ASSUME AskPage PROVE DueInv'
  <2>1. /\ chats' = chats /\ recent' = recent /\ Ids' = Ids
        /\ reader'.user = reader.user /\ reader'.page = reader.page /\ reader'.asked
        /\ reader.page > 0 /\ reader'.moved = reader.moved /\ reader'.due = reader.due
    BY <1>2, <1>9 DEF AskPage, Reader, Ids
  <2>2. QED BY <2>1 DEF DueInv, Ahead, ChatsOf, OfItsOwn, Skip
<1>10. ASSUME ReadPage PROVE DueInv'
  BY <1>10, DueRead
<1>11. ASSUME CutOff \/ UNCHANGED vars PROVE DueInv'
  BY <1>3, <1>11 DEF CutOff, vars
<1>12. QED
  BY <1>6, <1>7, <1>8, <1>9, <1>10, <1>11 DEF Next, ReadList

\* A client that reads its chat list to the end gets every chat that was there when it
\* began and has its own updatedAt, unless it is saved, another is saved with one that is
\* not later, or one in front of it while a page is read; on pages of any size.
THEOREM PagingMissesNothing == Spec => []PagingFindsUntouched
<1>1. Init => DueInv
  BY DEF Init, DueInv, NoReader
<1>2. IndInv /\ IndInv' /\ DueInv /\ [Next]_vars => DueInv'
  BY DueStep DEF IndInv
<1>3. DueInv => PagingFindsUntouched
  BY DEF DueInv, PagingFindsUntouched
<1>4. QED BY <1>1, <1>2, <1>3, IndInvCorrect, PTL DEF Spec

=============================================================================
