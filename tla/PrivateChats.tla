------------------------------ MODULE PrivateChats ------------------------------
(***************************************************************************)
(* Private chats: opening the chat of two users, which creates it if none  *)
(* is found, the pin, mute and archive toggles, and the pages of a user's  *)
(* chat list.                                                              *)
(*                                                                         *)
(* A toggle reads the chat, then adds its user to a list or assigns the    *)
(* list without the user, and saves.  Mongoose adds with $push, whatever   *)
(* the version of the document, and replaces a list only if the version    *)
(* is the one that was read; both increment the version, which the three   *)
(* lists share.                                                            *)
(***************************************************************************)
EXTENDS Integers, Sequences, FiniteSets

CONSTANTS
    Users,
    NoUser,     \* an id that belongs to nobody
    Lists,      \* pinnedBy, isMutedBy, isArchivedBy
    Requests,   \* requests handled at once; any number follow one another
    MaxVersion, \* bound: toggles begin while every chat's version is below this
    Limit,      \* chats on a page of the chat list
    MaxChats,   \* bound: chats are opened while there are fewer
    MaxFaults   \* bound: errors and crashes that cut handlers off

ASSUME PrivateChatsAssumption ==
    /\ NoUser \notin Users
    /\ Limit \in Nat \ {0} /\ MaxChats \in Nat /\ MaxVersion \in Nat
    /\ MaxFaults \in Nat

VARIABLES
    chats,      \* the chat documents, in the order they were created
    recent,     \* the place of each chat in the order of updatedAt, 1 the latest
                \* (chats with the same updatedAt share one)
    cpc,        \* the await at which each handler stands
    req,        \* what each request is about, and its handler's locals
    reader,     \* a client that reads a chat list page by page
    known,      \* history: the chats there were when the request began
    disturbed,  \* history: toggles another one of the same flag overlapped
    cutOff,     \* handlers that are gone while a command of theirs is on the wire
    faults      \* errors and crashes so far

vars == <<chats, recent, reader, cpc, req, known, disturbed, cutOff, faults>>

-----------------------------------------------------------------------------
\* A list holds a user as often as it was pushed.
Flags == [Lists -> [Users -> Nat]]
NoFlags == [l \in Lists |-> [u \in Users |-> 0]]

Chat == [participants : SUBSET Users, v : Nat, flags : Flags]

\* createChat.
NewChat(P) == [participants |-> P, v |-> 0, flags |-> NoFlags]

Waiting == {"finding", "creating", "reading", "saving"}
CPC == {"idle"} \cup Waiting

Ids == 1 .. Len(chats)

\* list is what the toggle is about, copy the chat it has read; before, for
\* the properties, whether its user was in the list when it began.
Locals == [by : Users \cup {NoUser}, other : Users \cup {NoUser}, chat : Nat,
           list : Lists \cup {"none"}, copy : Chat, before : BOOLEAN]
Blank == [by |-> NoUser, other |-> NoUser, chat |-> 0, list |-> "none",
          copy |-> NewChat({}), before |-> FALSE]

\* Places for n chats.
Orders(n) ==
    {o \in [1 .. n -> 1 .. n] :
        \A c \in 1 .. n : o[c] = Cardinality({d \in 1 .. n : o[d] < o[c]}) + 1}

\* Whose list, the next page (0: none), whether its query is running and which chats
\* were saved since; due, for the properties: the chats it still has to get.
Reader == [user : Users \cup {NoUser}, page : Nat, asked : BOOLEAN, moved : SUBSET Ids,
           due : SUBSET Ids]
NoReader == [user |-> NoUser, page |-> 0, asked |-> FALSE, moved |-> {}, due |-> {}]

TypeOK ==
    /\ chats \in Seq(Chat)
    /\ recent \in Orders(Len(chats))
    /\ reader \in Reader
    /\ cpc \in [Requests -> CPC]
    /\ req \in [Requests -> Locals]
    /\ known \in [Requests -> SUBSET Ids]
    /\ disturbed \in SUBSET Requests
    /\ cutOff \in SUBSET Requests
    /\ faults \in 0 .. MaxFaults

Pairs == {P \in SUBSET Users : \E u, w \in Users : u # w /\ P = {u, w}}

\* A pair may have a chat, or two from requests that overlapped.  In the first
\* chat a user may be in a list, also twice.
Init ==
    /\ \E k \in 0 .. 2 : \E s \in [1 .. k -> Pairs], l \in Lists, n \in 0 .. 2, u \in Users :
          /\ k > 0 => u \in s[1]
          /\ chats = [i \in 1 .. k |->
                [NewChat(s[i]) EXCEPT !.flags[l][u] = IF i = 1 THEN n ELSE 0]]
    /\ recent \in Orders(Len(chats))
    /\ reader = NoReader
    /\ cpc = [r \in Requests |-> "idle"]
    /\ req = [r \in Requests |-> Blank]
    /\ known = [r \in Requests |-> {}]
    /\ disturbed = {} /\ cutOff = {} /\ faults = 0

-----------------------------------------------------------------------------
\* A request that is refused at once leaves no trace but its answer.
Start(r, q, admitted, next) ==
    /\ cpc[r] = "idle" /\ admitted
    /\ cpc' = [cpc EXCEPT ![r] = next]
    /\ req' = [req EXCEPT ![r] = q]
    /\ UNCHANGED <<chats, recent, reader, cutOff, faults>>

\* The handler is at its end: it answers, unless it is gone.
Finish(r) ==
    /\ cpc' = [cpc EXCEPT ![r] = "idle"]
    /\ req' = [req EXCEPT ![r] = Blank]
    /\ known' = [known EXCEPT ![r] = {}]
    /\ disturbed' = disturbed \ {r}
    /\ cutOff' = cutOff \ {r}
    /\ UNCHANGED faults

\* It resumes and goes on to its next command.
Resume(r, next, q) ==
    IF r \in cutOff THEN Finish(r)
    ELSE /\ cpc' = [cpc EXCEPT ![r] = next]
         /\ req' = [req EXCEPT ![r] = q]
         /\ UNCHANGED <<known, disturbed, cutOff, faults>>

\* A save keeps this chat due if it is stamped later, and is not, while a page is
\* read, of a chat that was in front of it already.
PutInFront(c, d) ==
    /\ recent'[c] < recent'[d]
    /\ reader.asked /\ c \in Ids => recent[d] < recent[c]

\* Storing the document renews its updatedAt, to the millisecond at which the
\* process issued the command: others may have the same, or a later one already.
Touch(c) ==
    /\ recent' \in {o \in Orders(Len(chats')) :
                      \A d, e \in Ids \ {c} : o[d] < o[e] <=> recent[d] < recent[e]}
    /\ reader' = [reader EXCEPT
          !.moved = IF reader.asked THEN @ \cup {c} ELSE @,
          !.due = {d \in @ \ {c} : reader.user \in chats'[c].participants => PutInFront(c, d)}]

-----------------------------------------------------------------------------
(* getOrCreatePrivateChat. *)

\* The target has to be somebody else and to exist.
Open(r, u, w) ==
    /\ Len(chats) < MaxChats
    /\ Start(r, [Blank EXCEPT !.by = u, !.other = w],
             u # w /\ w # NoUser, "finding")
    /\ known' = [known EXCEPT ![r] = Ids]
    /\ UNCHANGED disturbed

\* Mutant: ids compared with strings, which matches nothing.
NoMatch(u, w, c) == FALSE

\* $all of the two ids.
IsChatOf(u, w, c) == {u, w} \subseteq chats[c].participants

\* findPrivateChat: any that matches, if one does.
FindPrivateChat(r) ==
    /\ cpc[r] = "finding"
    /\ LET found == {c \in Ids : IsChatOf(req[r].by, req[r].other, c)} IN
       \/ found = {} /\ Resume(r, "creating", req[r])
       \/ found # {} /\ Finish(r)
    /\ UNCHANGED <<chats, recent, reader>>

CreateChat(r) ==
    /\ cpc[r] = "creating"
    /\ chats' = Append(chats, NewChat({req[r].by, req[r].other}))
    /\ Touch(Len(chats'))
    /\ Finish(r)

-----------------------------------------------------------------------------
(* togglePin, toggleMute, toggleArchive. *)

InList(c, l, u) == chats[c].flags[l][u] > 0

\* Toggles of the same flag that are under way.
Rivals(r, c, l, u) ==
    {s \in Requests \ {r} : /\ cpc[s] \in {"reading", "saving"}
                            /\ req[s].chat = c /\ req[s].list = l /\ req[s].by = u}

\* getChatById lets participants through.
Toggle(r, c, l, u) ==
    /\ \A d \in Ids : chats[d].v < MaxVersion
    /\ Start(r, [Blank EXCEPT !.by = u, !.chat = c, !.list = l, !.before = InList(c, l, u)],
             u \in chats[c].participants, "reading")
    /\ disturbed' = IF Rivals(r, c, l, u) # {} THEN disturbed \cup {r} \cup Rivals(r, c, l, u) ELSE disturbed
    /\ UNCHANGED known

\* The repository reads the chat again and decides what to do by this copy.
ReadFlags(r) ==
    /\ cpc[r] = "reading"
    /\ Resume(r, "saving", [req[r] EXCEPT !.copy = chats[req[r].chat]])
    /\ UNCHANGED <<chats, recent, reader>>

WasInList(r) == req[r].copy.flags[req[r].list][req[r].by] > 0

\* Mutant: the version is not asked for.
AnyVersion(r) == TRUE

SameVersion(r) == chats[req[r].chat].v = req[r].copy.v

\* Adding: $push onto the list as it is now.
Push(r) ==
    chats' = [chats EXCEPT ![req[r].chat].flags[req[r].list][req[r].by] = @ + 1,
                           ![req[r].chat].v = @ + 1]

\* Mutant: one entry is taken out.
WithoutOne(list, u) == [list EXCEPT ![u] = @ - 1]

Without(list, u) == [list EXCEPT ![u] = 0]

\* Removing: the list as it was read, without the user.
Replace(r) ==
    chats' = [chats EXCEPT
        ![req[r].chat].flags[req[r].list] = Without(req[r].copy.flags[req[r].list], req[r].by),
        ![req[r].chat].v = @ + 1]

\* A save whose version is out of date is refused with a VersionError.
SaveFlags(r) ==
    /\ cpc[r] = "saving"
    /\ IF WasInList(r) /\ ~SameVersion(r)
       THEN Finish(r) /\ UNCHANGED <<chats, recent, reader>>
       ELSE /\ IF WasInList(r) THEN Replace(r) ELSE Push(r)
            /\ Touch(req[r].chat)
            /\ Finish(r)

-----------------------------------------------------------------------------
(* getUserChats, page by page, while messages are sent. *)

\* updateLastMessage and incrementUnread renew updatedAt as well.
SendTouches(c) ==
    /\ UNCHANGED <<chats, cpc, req, known, disturbed, cutOff, faults>>
    /\ Touch(c)

ChatsOf(u) == {c \in Ids : u \in chats[c].participants}

OfItsOwn(u, c) == \A d \in ChatsOf(u) \ {c} : recent[d] # recent[c]

StartPaging(u) ==
    /\ reader = NoReader
    /\ reader' = [NoReader EXCEPT !.user = u, !.page = 1, !.asked = TRUE,
                                  !.due = {c \in ChatsOf(u) : OfItsOwn(u, c)}]
    /\ UNCHANGED <<chats, recent, cpc, req, known, disturbed, cutOff, faults>>

AskPage ==
    /\ reader.page > 0 /\ ~reader.asked
    /\ reader' = [reader EXCEPT !.asked = TRUE]
    /\ UNCHANGED <<chats, recent, cpc, req, known, disturbed, cutOff, faults>>

\* In which order the query comes upon the chats: by updatedAt, but those that share one
\* in any order, and those saved while it runs anywhere, at their old or their new place.
Readings ==
    {b \in [Ids -> Ids] :
        /\ \A c, d \in Ids : b[c] = b[d] => c = d
        /\ \A c, d \in Ids \ reader.moved : recent[c] < recent[d] => b[c] < b[d]}

Place(seen, b, c) == Cardinality({d \in seen : b[d] <= b[c]})

\* Mutant: pages counted from 0.
SkipPages(page) == page * Limit

Skip(page) == (page - 1) * Limit

\* skip and limit, among the chats that are seen.
Page(seen, b, page) ==
    {c \in seen : Skip(page) < Place(seen, b, c) /\ Place(seen, b, c) <= Skip(page) + Limit}

\* A page that is not full is the last one.  The query is no snapshot: a chat that is
\* saved while it runs may be passed over.
ReadPage ==
    /\ reader.asked
    /\ \E b \in Readings, missed \in SUBSET reader.moved :
          LET got == Page(ChatsOf(reader.user) \ missed, b, reader.page)
              last == Cardinality(got) < Limit
          IN reader' = [NoReader EXCEPT
                !.user = IF last THEN NoUser ELSE reader.user,
                !.page = IF last THEN 0 ELSE reader.page + 1,
                !.due = reader.due \ got]
    /\ UNCHANGED <<chats, recent, cpc, req, known, disturbed, cutOff, faults>>

-----------------------------------------------------------------------------
\* A command rejects, or the process dies and takes every handler along.  A
\* save already issued may still be applied.
CutOff ==
    /\ faults < MaxFaults
    /\ faults' = faults + 1
    /\ LET waiting == {r \in Requests : cpc[r] \in Waiting} IN
       \E R \in {waiting} \cup {{r} : r \in waiting} : cutOff' = cutOff \cup R
    /\ UNCHANGED <<chats, recent, cpc, req, reader, known, disturbed>>

Arrive(r) ==
    \E u \in Users :
        \/ \E w \in Users \cup {NoUser} : Open(r, u, w)
        \/ \E c \in Ids, l \in Lists : Toggle(r, c, l, u)

Handle(r) == FindPrivateChat(r) \/ CreateChat(r) \/ ReadFlags(r) \/ SaveFlags(r)

ReadList ==
    \/ \E c \in Ids : SendTouches(c)
    \/ \E u \in Users : StartPaging(u)
    \/ AskPage \/ ReadPage

Next == (\E r \in Requests : Arrive(r) \/ Handle(r)) \/ ReadList \/ CutOff

Spec == Init /\ [][Next]_vars

-----------------------------------------------------------------------------
(* Correctness. *)

\* Opening the chat of two users leads to a chat of the two, and creates one
\* only if there was none when the request began: the check and the creation are
\* two commands, so a pair gets a second chat from overlapping requests, never later.
OpenFindsChat ==
    [][\A r \in Requests : (cpc[r] \in {"finding", "creating"} /\ cpc'[r] = "idle") =>
         LET chatOfPair(c) == chats'[c].participants = {req[r].by, req[r].other} IN
         /\ r \in cutOff \/ \E c \in Ids' : chatOfPair(c)
         /\ Len(chats') > Len(chats) => ~\E c \in known[r] : chatOfPair(c)]_vars

\* Toggles of one list, one user or one kind never undo another's, although a
\* removal writes back a whole list that was read earlier.
OthersFlagsKept ==
    [][\A c \in Ids, l \in Lists, u \in Users :
         chats'[c].flags[l][u] # chats[c].flags[l][u] =>
            \E r \in Requests : /\ cpc[r] = "saving" /\ cpc'[r] # "saving"
                                /\ req[r].chat = c /\ req[r].list = l /\ req[r].by = u]_vars

\* A toggle that goes through, and that no other toggle of the same flag
\* overlapped, has flipped the flag, even if it was recorded twice before.
ToggleFlips ==
    [][\A r \in Requests \ disturbed :
         (cpc[r] = "saving" /\ cpc'[r] = "idle" /\ chats' # chats) =>
            (chats'[req[r].chat].flags[req[r].list][req[r].by] > 0) # req[r].before]_vars

\* A client that reads its chat list to the end gets every chat that was there when it
\* began, with an updatedAt of its own, and was not saved meanwhile: chats that are saved
\* push the others to later pages, where they are found again, never past the reader.
\* It may miss a chat if another was saved with an updatedAt that is not later than this
\* one's, or if one in front of it was saved while a page was being read.
PagingFindsUntouched == reader.page = 0 => reader.due = {}
=============================================================================
