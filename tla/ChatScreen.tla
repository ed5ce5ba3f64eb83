------------------------------ MODULE ChatScreen ------------------------------
(***************************************************************************)
(* The chat screen of one client: the list it merges from optimistic       *)
(* entries, receive_message events and pages of the history, while its     *)
(* socket drops and reconnects; the history pages as the server hands them *)
(* out, and the typing events of a peer, whose socket drops as well.       *)
(*                                                                         *)
(* A message is named by its place in messages, in the order of sending.   *)
(* The network's delays are part of the steps' own: an event reaches the   *)
(* screen when it is emitted, or never, and a page is read when asked for  *)
(* and shown later.                                                        *)
(***************************************************************************)
EXTENDS Integers, Sequences, FiniteSets, SequencesExt

CONSTANTS
    Texts,
    First, Limit,  \* messages on the first and on an older page
    Window,        \* how far apart an entry and its message may be (30 s)
    Skew,          \* how far the client's clock is ahead of the server's
    Zone,          \* how far its time zone is
    MaxSends,      \* bound: messages sent, after those there are at first
    MaxTime,       \* bound: the clock stops here
    MaxFaults      \* bound: connections and requests that break

ASSUME ChatScreenAssumption ==
    /\ First \in Nat \ {0} /\ Limit \in Nat \ {0} /\ Window \in Nat \ {0}
    /\ Skew \in Int /\ Zone \in Int
    /\ MaxSends \in Nat /\ MaxTime \in Nat \ {0, 1} /\ MaxFaults \in Nat

VARIABLES
    messages,  \* the messages sent, and how far the server is with each
    now,       \* the server's clock; createdAt is what it shows
    up,        \* the client's socket is connected, and then in its rooms
    open,      \* the screen is open
    screen,    \* _messages, the newest at index 1
    provider, history,  \* chatMessagesProvider: its state and its list
    older,     \* the request for an older page
    hasMore,   \* _hasMore
    typing,    \* _isOtherTyping
    timer,     \* the peer's _typingTimer is running
    peerUp,    \* the peer's socket is connected
    held,      \* the last typing event the peer's socket keeps while it is not
    missed,    \* history: no stop comes, the last was lost or the peer left
    heard,     \* history: messages this screen got by an event
    own,       \* history: messages sent from this screen
    early,     \* history: the chat's messages when the screen was first opened
    faults

chat == <<messages, now>>
list == <<screen, heard, own>>
loads == <<provider, history, older, hasMore, early>>
link == <<peerUp, held>>
typist == <<typing, timer, missed, link>>
vars == <<chat, up, open, list, loads, typist, faults>>

-----------------------------------------------------------------------------
\* here: in the chat of the screen; made: the client's clock at the sending;
\* at: createdAt, 0 for a message that is not stored.
Message == [mine : BOOLEAN, here : BOOLEAN, text : Texts, made : Int, at : Nat,
            stage : {"buffered", "sent", "stored", "announced", "done", "old"}]

Ids == DOMAIN messages

Entry == [msg : Ids, isOptimistic : BOOLEAN]
Confirmed(m) == [msg |-> m, isOptimistic |-> FALSE]
AsEntries(ids) == [i \in DOMAIN ids |-> Confirmed(ids[i])]

\* As the server reads it: the local time of an entry comes without its zone.
CreatedAt(e) == IF e.isOptimistic THEN messages[e.msg].made + Zone ELSE messages[e.msg].at

NoRequest == [isLoadingMore |-> FALSE, page |-> << >>]

TypeOK ==
    /\ messages \in Seq(Message) /\ now \in 1 .. MaxTime
    /\ {up, open, hasMore, typing, timer, missed, peerUp} \subseteq BOOLEAN
    /\ held \in {"none", "start", "stop"}
    /\ screen \in Seq(Entry)
    /\ provider \in {"none", "loading", "ready", "failed"} /\ history \in Seq(Ids)
    /\ older \in [isLoadingMore : BOOLEAN, page : Seq(Ids)]
    /\ {heard, own, early} \subseteq SUBSET Ids
    /\ faults \in 0 .. MaxFaults

\* The peer may have sent before; the screen was not opened yet.
Init ==
    /\ now = 2
    /\ \E k \in 0 .. 2, t \in Texts :
          messages = [i \in 1 .. k |-> [mine |-> FALSE, here |-> TRUE, text |-> t, made |-> 0,
                                        at |-> i, stage |-> "old"]]
    /\ up = TRUE /\ open = FALSE
    /\ screen = << >> /\ heard = {} /\ own = {}
    /\ provider = "none" /\ history = << >> /\ early = {}
    /\ older = NoRequest /\ hasMore = TRUE
    /\ typing = FALSE /\ timer = FALSE /\ missed = FALSE
    /\ peerUp = TRUE /\ held = "none"
    /\ faults = 0

Fault == faults < MaxFaults /\ faults' = faults + 1

-----------------------------------------------------------------------------
(* The list. *)

\* The members of S, each after those that R puts before it.
InOrder(S, R) ==
    [k \in 1 .. Cardinality(S) |->
        CHOOSE x \in S : Cardinality({y \in S : y = x \/ <<y, x>> \in R}) = k]

\* What is left of a list when only the elements in T stay.
Keep(s, T) ==
    LET places == {i \in DOMAIN s : s[i] \in T}
        kept == InOrder(places, {p \in places \X places : p[1] < p[2]})
    IN  [k \in DOMAIN kept |-> s[kept[k]]]

Apart(a, b) == IF a > b THEN a - b ELSE b - a

\* Same content, same sender and less than 30 seconds apart.
Matches(e, m) ==
    /\ e.isOptimistic /\ messages[m].mine
    /\ messages[e.msg].text = messages[m].text
    /\ Apart(messages[m].at, messages[e.msg].made) < Window

\* Mutant: the list is not searched for the id.
Insert(entries, m) == <<Confirmed(m)>> \o entries

InsertIfAbsent(entries, m) ==
    IF Confirmed(m) \in ToSet(entries) THEN entries ELSE <<Confirmed(m)>> \o entries

\* Mutant: the entries stay.
KeepAll(m) == screen

WithoutOptimistic(m) == Keep(screen, {e \in ToSet(screen) : ~Matches(e, m)})

\* _onNewMessageReceived, of whatever chat the message is.
OnNewMessageReceived(m, reached) ==
    IF reached THEN /\ screen' = InsertIfAbsent(WithoutOptimistic(m), m)
                    /\ heard' = heard \cup {m}
               ELSE UNCHANGED <<screen, heard>>

-----------------------------------------------------------------------------
(* Sending. *)

Post(message) ==
    /\ Cardinality({m \in Ids : messages[m].stage # "old"}) < MaxSends
    /\ messages' = Append(messages, message)

\* The socket keeps what is emitted while it is disconnected.
SendMessage(t) ==
    /\ open
    /\ Post([mine |-> TRUE, here |-> TRUE, text |-> t, made |-> now + Skew, at |-> 0,
             stage |-> IF up THEN "sent" ELSE "buffered"])
    /\ screen' = <<[msg |-> Len(messages'), isOptimistic |-> TRUE]>> \o screen
    /\ own' = own \cup {Len(messages')}
    /\ UNCHANGED <<now, up, open, heard, loads, typist, faults>>

\* The peer sends, in this chat or another, or the user from another device.
OthersSend(t) ==
    /\ \E mine, here \in BOOLEAN :
          /\ mine => here
          /\ Post([mine |-> mine, here |-> here, text |-> t, made |-> 0, at |-> 0, stage |-> "sent"])
    /\ UNCHANGED <<now, up, open, list, loads, typist, faults>>

AtStage(m, stage, next) ==
    /\ messages[m].stage = stage
    /\ messages' = [messages EXCEPT ![m].stage = next]
    /\ UNCHANGED <<now, up, open, own, loads, typist, faults>>

Store(m) ==
    /\ messages[m].stage = "sent"
    /\ messages' = [messages EXCEPT ![m].stage = "stored", ![m].at = now]
    /\ UNCHANGED <<now, up, open, list, loads, typist, faults>>

\* To the room of the chat.
Announce(m) ==
    /\ AtStage(m, "stored", IF messages[m].mine THEN "done" ELSE "announced")
    /\ OnNewMessageReceived(m, up /\ open /\ messages[m].here)

\* To the rooms of the participants, except the sender; theirs is left out.
Broadcast(m) ==
    /\ AtStage(m, "announced", "done")
    /\ OnNewMessageReceived(m, up /\ open)

\* The message is lost on its way, refused, or its handler fails.
GiveUp(m) ==
    /\ \E stage \in {"sent", "stored", "announced"} : AtStage(m, stage, "done")
    /\ UNCHANGED <<screen, heard>>

-----------------------------------------------------------------------------
(* The history. *)

Later(a, b) ==
    \/ messages[a].at > messages[b].at
    \/ messages[a].at = messages[b].at /\ a > b

StoredHere == {m \in Ids : messages[m].here /\ messages[m].at > 0}

FirstOf(s, n) == SubSeq(s, 1, IF n < Len(s) THEN n ELSE Len(s))

Before(time) == {m \in StoredHere : messages[m].at < time}

\* Mutant: the oldest first.
OldestPage(time, n) ==
    FirstOf(InOrder(Before(time), {p \in Before(time) \X Before(time) : Later(p[2], p[1])}), n)

\* The latest before this time.
Page(time, n) ==
    FirstOf(InOrder(Before(time), {p \in Before(time) \X Before(time) : Later(p[1], p[2])}), n)

\* Opening the screen watches the provider, which asks once and keeps its list
\* for good.
OpenScreen ==
    /\ ~open /\ open' = TRUE
    /\ IF provider = "none"
       THEN provider' = "loading" /\ history' = Page(now + 1, First) /\ early' = StoredHere
       ELSE UNCHANGED <<provider, history, early>>
    /\ screen' = IF provider = "ready" THEN AsEntries(history) ELSE << >>
    /\ UNCHANGED <<chat, up, heard, own, older, hasMore, typist, faults>>

\* dispose: the state is gone, an answer still to come is dropped.
CloseScreen ==
    /\ open /\ open' = FALSE
    /\ screen' = << >> /\ heard' = {} /\ own' = {}
    /\ older' = NoRequest /\ hasMore' = TRUE
    /\ typing' = FALSE /\ missed' = (missed /\ held = "start")
    /\ UNCHANGED <<chat, up, provider, history, early, timer, link, faults>>

\* build takes the list if it has nothing to show yet.
ShowHistory ==
    /\ provider = "loading" /\ provider' = "ready"
    /\ screen' = IF open /\ screen = << >> THEN AsEntries(history) ELSE screen
    /\ UNCHANGED <<chat, up, open, heard, own, history, early, older, hasMore, typist, faults>>

HistoryFails ==
    /\ Fault
    /\ provider = "loading" /\ provider' = "failed"
    /\ UNCHANGED <<chat, up, open, list, history, early, older, hasMore, typist>>

\* _loadMoreOlderMessages: older than the last entry.
LoadOlder ==
    /\ open /\ older = NoRequest /\ hasMore /\ screen # << >>
    /\ older' = [isLoadingMore |-> TRUE, page |-> Page(CreatedAt(Last(screen)), Limit)]
    /\ UNCHANGED <<chat, up, open, list, provider, history, early, hasMore, typist, faults>>

ShowOlder ==
    /\ older.isLoadingMore /\ older' = NoRequest
    /\ hasMore' = (older.page # << >>)
    /\ screen' = screen \o Keep(AsEntries(older.page), ToSet(AsEntries(older.page)) \ ToSet(screen))
    /\ UNCHANGED <<chat, up, open, heard, own, provider, history, early, typist, faults>>

OlderFails ==
    /\ Fault
    /\ older.isLoadingMore /\ older' = NoRequest
    /\ UNCHANGED <<chat, up, open, list, provider, history, early, hasMore, typist>>

-----------------------------------------------------------------------------
(* Typing, by the peer. *)

\* A stop that is lost while the indicator is on, and no timer is left to send
\* another, leaves it on.
Lost(on) ==
    /\ missed' = (typing /\ (missed \/ (~on /\ ~timer')))
    /\ UNCHANGED typing

\* The server relays it to the room of the chat.
Relayed(on) ==
    IF up /\ open THEN typing' = on /\ missed' = (missed /\ on /\ ~timer') ELSE Lost(on)

\* While the peer is disconnected, its socket keeps what is emitted, unless it did
\* not notice yet.
Emit(on) ==
    /\ \/ peerUp /\ Relayed(on) /\ UNCHANGED held
       \/ /\ ~peerUp /\ held' = (IF on THEN "start" ELSE "stop")
          /\ missed' = (missed /\ typing) /\ UNCHANGED typing
       \/ ~peerUp /\ held = "none" /\ Lost(on) /\ UNCHANGED held
    /\ UNCHANGED <<chat, up, open, list, loads, peerUp, faults>>

\* The timer is started anew with every key.
PeerTypes == timer' = TRUE /\ Emit(TRUE)

\* The text is empty or sent; the timer runs on.
PeerStops == UNCHANGED timer /\ Emit(FALSE)

\* Mutant: it only forgets the timer.
Forget ==
    timer' = FALSE /\ UNCHANGED <<chat, up, open, list, loads, typing, missed, link, faults>>

StopTyping == timer' = FALSE /\ Emit(FALSE)

TimerFires == timer /\ StopTyping

\* dispose cancels the timer and emits no stop.
PeerLeaves ==
    /\ timer /\ timer' = FALSE
    /\ missed' = (missed \/ typing \/ held = "start")
    /\ UNCHANGED <<chat, up, open, list, loads, typing, link, faults>>

PeerDisconnects ==
    /\ Fault
    /\ peerUp /\ peerUp' = FALSE
    /\ UNCHANGED <<chat, up, open, list, loads, typing, timer, missed, held>>

\* The socket sends what it kept, or it is a new one.
PeerReconnects ==
    /\ ~peerUp /\ peerUp' = TRUE /\ held' = "none"
    /\ UNCHANGED <<chat, up, open, list, loads, timer, faults>>
    /\ IF held = "none" THEN UNCHANGED <<typing, missed>>
                        ELSE Relayed(held = "start") \/ Lost(held = "start")

-----------------------------------------------------------------------------
(* The connection. *)

Disconnect ==
    /\ Fault
    /\ up /\ up' = FALSE
    /\ UNCHANGED <<chat, open, list, loads, typist>>

\* The socket joins its rooms again and sends what it kept.
Reconnect ==
    /\ ~up /\ up' = TRUE
    /\ messages' = [m \in Ids |-> IF messages[m].stage = "buffered"
                                  THEN [messages[m] EXCEPT !.stage = "sent"] ELSE messages[m]]
    /\ UNCHANGED <<now, open, list, loads, typist, faults>>

Tick ==
    /\ now < MaxTime /\ now' = now + 1
    /\ UNCHANGED <<messages, up, open, list, loads, typist, faults>>

-----------------------------------------------------------------------------
Next ==
    \/ \E t \in Texts : SendMessage(t) \/ OthersSend(t)
    \/ \E m \in Ids : Store(m) \/ Announce(m) \/ Broadcast(m) \/ GiveUp(m)
    \/ OpenScreen \/ CloseScreen
    \/ ShowHistory \/ HistoryFails \/ LoadOlder \/ ShowOlder \/ OlderFails
    \/ PeerTypes \/ PeerStops \/ TimerFires \/ PeerLeaves
    \/ PeerDisconnects \/ PeerReconnects
    \/ Disconnect \/ Reconnect \/ Tick

Spec == Init /\ [][Next]_vars

-----------------------------------------------------------------------------
(* Correctness. *)

\* However events, both of a message, and pages that hold it too come together, the
\* list has no two confirmed entries of a message, and no two optimistic ones.  An
\* optimistic entry stands beside its own message only if that came by a page, which
\* removes no entry, or its createdAt is 30 seconds or more from the entry's.
ShownOnce ==
    /\ \A i, j \in DOMAIN screen : i # j /\ screen[i].msg = screen[j].msg
          => screen[i].isOptimistic # screen[j].isOptimistic
    /\ \A e \in ToSet(screen) : e.isOptimistic /\ Confirmed(e.msg) \in ToSet(screen)
          => \/ e.msg \notin heard
             \/ Apart(messages[e.msg].at, messages[e.msg].made) >= Window

IsShown(m) == \E e \in ToSet(screen) : e.msg = m

\* A message sent from the screen never disappears from it: its entry gives way only
\* when a message it matches comes by an event, and does when its own comes so, unless
\* that took too long.  Entries with the same text go all together, with the first of
\* their messages.
OptimisticReplaced ==
    /\ \A m \in heard : Confirmed(m) \in ToSet(screen)
    /\ \A m \in own : IsShown(m) \/ \E h \in heard : Matches([msg |-> m, isOptimistic |-> TRUE], h)
    /\ \A e \in ToSet(screen) : e.isOptimistic /\ e.msg \in heard => ~Matches(e, e.msg)

\* Another message has the createdAt of this one, an entry sent later from the screen
\* has an earlier one, or the same, by the client's own clock, or the event of an older
\* message came after the screen was opened.
Passed(m) ==
    \/ \E k \in Ids \ {m} : messages[k].at = messages[m].at
    \/ \E k \in own : messages[k].made + Zone <= messages[m].at
    \/ \E h \in heard : messages[h].at < messages[m].at

\* Scrolled to the end, the screen shows every message that was stored when it
\* was first opened, in whatever order events and pages came: the cursor is the
\* createdAt of the last entry, and only messages that are not before it are passed over.
HistoryFound ==
    ~hasMore => \A m \in early : Confirmed(m) \in ToSet(screen) \/ Passed(m)

\* The typing indicator goes off by itself, within the peer's three seconds, however
\* keys, stops and the two connections come together.  It stays on only where no stop
\* comes: the peer left the screen in the midst of typing, the stop was lost as this
\* client or the peer was disconnected, or the peer's socket still keeps it.
TypingBacked == typing => timer \/ missed \/ held = "stop"
=============================================================================
