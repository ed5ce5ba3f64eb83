# YoumeChat in TLA+

TLA+ models of the YoumeChat backend (Express, Socket.IO, MongoDB through Mongoose) and of the chat screen of its
Flutter client. TLC checks the models on small instances; TLAPS proves the main theorems for every instance. Paths below
are relative to `src/`; `B` stands for `backend/src`, `M` for `backend/src/modules`.

## 1. The system

### What runs

`B/app.ts` mounts `B/routes/index.ts`, which routes to `M/*`; `B/sockets/index.ts` registers the Socket.IO handlers.
Both call the services of `M/*/…service.ts`, and those the repositories, which send MongoDB commands. Everything runs
in one Node.js process: a handler runs alone until it awaits, so handlers interleave at each `await` and nowhere else.
There are no transactions and no locks: a MongoDB command is atomic on one document, and commands of different
handlers travel on different connections and can be applied in any order.

`B/{controllers,repositories,services,models}` hold an older copy of the same code that is not mounted (except the
push service, its repository and two models), about fifteen of the documented collections are never written, and
nothing enqueues the BullMQ jobs. None of that is modelled.

### Components, their state, and what makes them correct

| Component | State | Operations | What is hard | Correct when |
|---|---|---|---|---|
| Sending (`M/messages/message.service.ts`, `B/sockets/message.handler.ts`, `M/chats`) | `messages`, `chat.lastMessage`, `chat.unreadCounts`, rooms | `sendMessage` by socket or REST, then two emits and an acknowledgement | five awaits; two parallel updates; partial failure; a crash between the writes; recipients who come and go | announced means recorded; `lastMessage` exists and does not go back; counters neither lose nor invent a message; connected recipients receive; every send is answered |
| Rooms (`B/sockets/{connection,chat}.handler.ts`) | room membership of sockets | connect, disconnect, `join_chat`, `leave_chat` | a disconnect in the middle of a send | a message reaches every device of the other participants |
| Message document (`M/messages/message.repository.ts`) | one message | edit, react, delete for me or for everyone, mark as read | read-modify-save against single commands; Mongoose's version key; events after an await | history complete, deletion final, marks and reactions of others survive, events stay true |
| Presence (`B/sockets/connection.handler.ts`) | `user.isOnline`, online/offline events | connect, disconnect | several devices; a drop while the handler awaits; write errors; crash; order of commands | exact once things are quiet |
| Private chats (`M/chats`) | chat per pair, pin/mute/archive arrays, the list by `updatedAt` | `getOrCreatePrivateChat`, toggles, pages | check-then-create; read-modify-save; paging a list that moves | a second chat only from overlapping opens; toggles touch one flag; paging misses a chat left alone only where the sort key or the query gives no order |
| Groups (`M/groups`) | group and chat documents | create, add, remove, promote | two documents changed one after the other; stale copies | a group has its chat; membership changes merge; stray admins are explained |
| Administration (`M/admin`) | ban flag; deletion of groups | ban, unban, delete message or group, decide reports | three-step deletion racing a send | nothing of a deleted group remains but what was already under way |
| Authentication (`M/auth`, `B/middlewares/auth.middleware.ts`) | users, refresh tokens | login, refresh, logout, logout everywhere, username change | username search; logout during a refresh; equal tokens within a second; expiry; bans | unique users and names; separate sessions, until logout or expiry; none left after logout; the banned get nothing |
| Notifications and devices (`B/services/PushNotificationService.ts`) | notifications, devices | register device, dispatch | a phone changes hands while a message is on its way | it rings only for an owner, and for what is stored |
| HTTP layer (`B/app.ts`, `B/routes`, `B/middlewares`, `B/server.ts`) | rate-limit counters, the process | middlewares, error handler, start, shutdown | order of guards; windows; failures turned into answers; shutdown with open connections | effects are authorised; a refusal leaves no trace; limits hold; work ends |
| Users, reports, media (`M/users`, `M/reports`, `M/media`) | blocks, reports | block, unblock, report, decide, upload | single writes; what stands in front of them | as the HTTP layer |
| Client chat screen (`frontend/lib/features/chat`, `providers/chat_provider.dart`) | list of messages, typing indicator | send, receive, load older, type | optimistic entries; duplicate events; history arriving late; connections lost on either side | no message twice in its list, an optimistic entry gone with its event, none lost, all of the history found; the indicator goes off wherever a stop comes |
| Client session (`core/network/api_client.dart`, `providers/auth_provider.dart`, `services/socket_service.dart`) | stored tokens, socket | request, refresh, logout, reconnect | refresh racing logout | no token after logout (not modelled) |
| Calls (`B/sockets/call.handler.ts`), search, other screens, logging | – | relays, reads, formatting | – | not modelled, see section 6 |

Interactions: a handler calls services and repositories (direct calls), emits to rooms (messages to clients), and
shares the `chats`, `messages`, `users` and `groups` collections with every other handler. `adminDeleteGroup` and the
group service change the chat document that `sendMessage` has read (`GroupMessaging` composes the two); a ban changes
what every way in reads (`Accounts`); a send moves chats in the list a client pages through (`PrivateChats`) and starts
push dispatches it does not wait for (`Accounts`); the client screen lives on the events and pages of the send path
(`ChatScreen`).

The hazards this leads to are listed, each at its line, in `PROJECT.json`, with the properties that answer them.

## 2. Modules

| Module | What it is | Source |
|---|---|---|
| `ChatLog` | abstract: what a chat promises about posting, showing and answering | – |
| `Messaging` | sends in one chat, its rooms, faults | `message.service.ts:26`, `message.handler.ts:12`, `chat.repository.ts`, `chat.handler.ts` |
| `Groups` | the group and chat documents under membership requests and deletion | `group.service.ts`, `group.repository.ts`, `admin.service.ts:56` |
| `GroupMessaging` | `Messaging` and `Groups` over one chat document | both |
| `MessageDocument` | one message under concurrent requests | `message.repository.ts`, `message.service.ts:76`, `message.handler.ts:62` |
| `Presence` | `isOnline` and its events | `connection.handler.ts`, `user.repository.ts:30` |
| `Accounts` | users, refresh tokens, bans, devices, push dispatch | `auth.service.ts`, `auth.repository.ts`, `user.service.ts`, `PushNotificationService.ts` |
| `PrivateChats` | opening chats, toggles, the paged chat list | `chat.service.ts`, `chat.repository.ts` |
| `Api` | the chain of every route, limiters, errors, the process | `routes`, `middlewares`, `app.ts`, `server.ts`, reports, blocks |
| `ChatScreen` | the list and typing indicator of one client | `chat_detail_screen.dart`, `chat_provider.dart`, `socket_service.dart` |
| `Groups_proofs`, `MessageDocument_proofs`, `Presence_proofs`, `Accounts_proofs`, `PrivateChats_proofs`, `Api_proofs`, `ChatScreen_proofs` | theorems about the module of that name | – |
| `GroupMessaging_proofs` | theorems about `Messaging`, and on them theorems about `GroupMessaging` | – |
| `MC…` | instances for TLC | – |

Conventions shared by the modules. A request or send is a handler; a function (`pc`, `gpc`, `cpc`, `apc`, `hpc`) tells
at which await it is suspended, and an action runs from one await to the next, so it contains everything the code does
in between. An operation that the handler has issued can still be applied when the handler is gone (`cutOff`, or
`adrift` for the inserts of messages and groups): a command on the wire is not recalled by an error or by the death of
the process, and lands then, later, or never. Variables marked *history* in their declaration are not part of the
program; they only let a property speak about the past.

### Messaging

A send `s` is one call of `sendMessage` and names the message it creates. `pc[s]` is the await at which its handler is
suspended: `creating` (`createMessage`), `recording` (the `Promise.all` of `updateLastMessage` and `incrementUnread`),
`broadcasting` (the handler's second read of the chat). `AcceptSend`/`RejectSend` (`getChatById`), `StoreMessage`,
`FinishRest` or `Announce`, `Broadcast`. The two updates are commands of their own (`lastWrite`, `unreadWrite`):
`LandLastMessage` and `LandUnread` apply them, in either order and also after the handler failed or the process died.
`StoreFails`, `RecordFails` and `BroadcastFails` are the rejections. An insert whose handler has answered with an error
or died is `adrift`, and `LandMessage` may store it at any later time, in the composition also after the group was
purged; `ChatLog` lets a message be posted after a refusal accordingly, but not after it was acknowledged. `Crash` ends
every handler and socket and keeps the database. `inbox[k]` is what was emitted to socket `k`: emission to a connected
socket is delivered, and the duplicate a client gets from being in two rooms is not counted (`ChatScreen` shows what
becomes of it). `lastMessage` and the counters are fields of the one chat document; that a chat id may refer to nothing
is in `Init`. `resetUnread` has no caller in the routes or handlers, so counters only grow.

### Groups and GroupMessaging

`createGroup` stores the chat (`CreateChat`), then the group (`CreateGroup`; once `CreateFails`, it may still be stored:
`adrift`). A request on the group begins with the read of the group and the check of who asks (`Begin`); `addMembers`
and `removeMember` then read the chat (`ReadChat`), compute a new array and save it (`SaveChat`), and a removal goes on
to `RemoveAdmin`; `promoteAdmin` is one `$addToSet` (`AddAdmin`); `adminDeleteGroup` is `DeleteGroup`, `DeleteChat`,
`DeleteChatMessages`. A save of the participants carries the version the handler has read and increments it; `OtherSave`
stands for the toggles of `PrivateChats`, which share the version. An array that has not changed is not sent.

`GroupMessaging` extends `Messaging` and instantiates `Groups` over the same `chatExists`, `participants` and `faults`:
either module's step, or the two steps they share, the deletion of the messages (`PurgeMessages`) and the crash.

### MessageDocument

The update commands (`deleteForMe`, `deleteForEveryone`, `markAsRead`) are single steps; edits and reactions are a read
and a save with a copy of the document in between (`snap`). The save follows Mongoose 8: only modified paths are sent;
`$push` increments the version key without checking it, `$set` of a whole array checks and increments it, `$set` inside
an array checks it, and `findByIdAndUpdate`/`updateMany` neither check nor change it. A field set to the value it had is
not sent. The service's read and the repository's read are one step: what the service looks at never changes, except
that the document may go away (with its group's chat). The socket handlers emit after their await (`emitting`); `told`
collects what they said. There are no database errors here: a request that is done has applied its save, and one whose
save fails or whose process dies is one that never gets further. The message is stored from the start; one inserted
between the update and the emit of a receipt for the whole chat is not covered. Besides its sender, administrators
(`Moderators`) may delete it.

### Presence

`phase[k]` follows the connection handler: `marking` until `updateOnlineStatus(true)` was awaited (no disconnect
listener yet), `live`, and `leaving` while the listener awaits `updateOnlineStatus(false)`. `write[k]` is the command.
A transport that closes before the listener exists is `DropUnheard`. `UpdateFails` is a rejection, which no handler
catches; the process then dies (`Crash`) or, with Sentry installed, goes on. The history variable `disturbed` marks the
users about whom the code promises nothing: those with overlapping sessions, unheard drops, failed writes or a crash
since they last connected alone, and new accounts, which login stores as online before they have a socket
(`auth.service.ts:78`).

### Accounts

A request is any of login, refresh, logout, logout everywhere, revoke, an authenticated call (HTTP, or a socket's
handshake), rename, device registration, ban, unban, and one dispatch of a push notification. `Start` is the first read,
`Resume` goes to the next command. Login follows `verifyGoogleTokenAndLogin`: find by uid, else probe names until one is
free (`ProbeUsername`), insert (`CreateUser`, refused by the unique indexes), sign and store the refresh token
(`IssueToken`). A refresh token is its account and the second of its signing, because that is all its text depends on
(`auth.service.ts:104`): two logins in the same second sign the same text, and the unique index refuses the second. It
expires (`Expire`) after 30 days, by its own expiry and by the TTL index on `expiresAt`, which deletes it
(`auth.repository.ts:7`, `refreshToken.model.ts:16`); between the two it is stored but refused, which is what its
deletion does already. How long that takes in the seconds of the model is left open: a token may expire at any time from
the second after it was signed. Every Google account suggests the same name, the worst case for the search. Access
tokens are not stored anywhere, so every account has one from before, and only the `isBanned` check stands in its way.

A dispatch (`Notify`) runs by itself, started for one recipient of a message: `CreateNotification`, `FindDevices`,
`SendMulticast`. Nothing waits for it, and an error ends it silently.

### PrivateChats

`Open` and `Toggle` are the requests; `FindPrivateChat` and `CreateChat` are two commands, as are `ReadFlags` and
`SaveFlags`. A toggle that adds pushes whatever the version; one that removes replaces the list as it was read, if the
version is the one that was read. A list holds a user as often as it was pushed, which is a number here. `recent` gives
each chat its place in the order of `updatedAt`, which chats with the same millisecond share, renewed by every save,
also by the sends of other modules (`SendTouches`). The time is that of the process when it issues the command, so a
save may land with the time of another or an earlier one: `Touch` puts the chat anywhere. A page is asked for
(`AskPage`) and read (`ReadPage`), with `skip` and `limit`, by a query that is no snapshot: it comes upon the chats by
`updatedAt`, on those that share one in any order, and on those saved while it runs (`moved`) at any place or not at all
(`Readings`). A chat that gets an earlier time than it had while the query runs may come twice; it is counted once here,
for it holds up only chats that are not promised any more (section 4). Clients begin toggles while versions are below a
bound, requests are recycled, and the length of a run is not bounded.

### Api

`Chain` has one entry for every mounted route with the middlewares in front of it, in their order: the tables of the
routers, joined (`Joined`; two of them name `getChatMessages`, with the same chain). `Arrive` reads the body, counts the
request in the global limiter and routes it; `Authenticate`, `RequireAdmin`, `LimitRate`, `ValidateRequest`,
`ReceiveFile` are the middlewares; `Serve` ends the handler with any status of `Outcomes`, which lists what the service
of that route can throw, and has the effect of the routes whose service is a single command (reports, blocks, bans).
Effect and answer are one step there: a crash in between is not told apart from one after both, and who is authorised
does not depend on it. `Throw` is `errorHandler`. The documents of all other routes are in the other modules. The
process starts (`Boot`, `BootFails`), stops on SIGTERM (`Terminate`, `Exit`: `server.close` waits for every connection
to end, sockets included), or crashes and is restarted by its container.

### ChatScreen

`screen` is `_messages`, newest first: optimistic entries and confirmed messages. `SendMessage` adds an entry and emits;
the socket buffers while it is down. `Store`, `Announce` and `Broadcast` are the send path of `Messaging` seen from a
client: an event reaches an open screen whose socket is up, or never. The provider asks once for the first page
(`OpenScreen`, `ShowHistory`) and keeps its list for good; `LoadOlder`/`ShowOlder` use the `createdAt` of the last entry
as the cursor. The `Page` operators are `getChatMessages` of the server. `PeerTypes`, `PeerStops`, `TimerFires` and
`PeerLeaves` are the other client's text field; the server relays them. The peer's own socket drops and comes back
(`PeerDisconnects`, `PeerReconnects`): what it emits meanwhile is lost, if it has not noticed, or kept and sent on the
reconnection (`held`, the last of what it keeps), unless a new socket takes its place. Network delay is part of the
steps: an event arrives when it is emitted, a page is read when it is asked for and shown later.

## 3. Runs

| Run | Instance | Checks |
|---|---|---|
| `messaging` | 2 users, a device each, 2 sends, 1 fault; any participants; fair | `AnnouncedIsRecorded`, `LastMessageStored`, `LastMessageNoRegress`, `UnreadCountsBounded`, `SteadyRecipientsReceive`; `ImplementsChatLog`, `SendsAreAnswered` |
| `groups` | 3 users, 3 requests, 1 other save, 1 fault; symmetric | `GroupHasChat`, `StrayAdminsExplained`, `MembershipMerges` |
| `group_messaging` | 3 users, 2 of them with a device, 1 send, 1 group request, 1 fault; symmetric | `SteadyMembersCounted`, `SteadyMembersReceive`, `PurgeIsFinal`, `StoredUntilPurged` |
| `message_document` | 2 users, one a moderator, 4 requests, 2 texts and '', 2 emojis; requests symmetric | `EditHistoryKept`, `EventsTrue`, `DeletionIsFinal`, `OthersReactionsKept`, `MarksSurvive` |
| `presence` | 2 users, 3 sockets, 2 faults; fair | `PresenceExact`, `OfflineEventually` |
| `accounts` | 2 Google accounts, one of them new, 1 phone, 3 requests, 2 seconds, 1 fault; fair | `AccountsDistinct`, `SessionsApart`, `NoSessionAfterLogout`, `BannedGetNothing`, `PushesAccountedFor`; `RequestsEnd` |
| `private_chats` | 2 users, up to 2 chats, 2 lists, 2 requests at a time (1 while a list is read), pages of 1, 1 fault; symmetric | `PagingFindsUntouched`; `OpenFindsChat`, `OthersFlagsKept`, `ToggleFlips` |
| `api` | a user and an administrator, 1 address, 2 requests to 8 kinds of routes, limits of 1, 1 fault; fair | `RefusedLeavesNoTrace`, `LimitHeld`; `EffectsAuthorized`, `WorkEnds` |
| `chat_screen` | up to 2 messages at first and 2 more (1 while the peer types), pages of 1, 1 further second, 2 faults | `ShownOnce`, `OptimisticReplaced`, `HistoryFound`, `TypingBacked` |
| `message_deleted`, `message_reaction`, `presence_online` | as `message_document`, `presence`; no fault | one intended property each, which the code violates |

### Why the bounds are enough

- A problem of overlapping sends needs two of them (who overwrites whom) and one recipient; two cover the overlapping
  and the consecutive case, and the theorems lift the bound. `MaxFaults` bounds database errors and crashes together:
  one is enough to cut a handler at every point; in `presence`, two let a second fault hit what the first left over.
- Three membership requests are a stale copy, a change behind its back and a follow-up, with three users so that the
  requests need not be about the same one; the theorems lift this bound as well. The composition has one request of
  each side: what goes wrong between a send and a membership change or purge needs one of each, and several of one side
  are the business of the other two runs. Its `MaxVersion` is 0, the other saves having been checked in `groups`.
- Four requests on a message allow a stale copy, two changes behind its back and a follow-up.
- Three sockets give a user two devices next to another user.
- Three requests on accounts are two logins with a logout, a ban with a login and a call, or two registrations around a
  dispatch. Two seconds tell tokens of one login time from those of another. `Founders` has one of the two accounts, so
  that first and later logins meet; names go up to the number of accounts by themselves, and `MaxName` bounds only the
  renames.
- Private chats are recycled requests, two at a time: a pair with no, one or two chats and a flag recorded up to twice
  are in `Init`. Two lists suffice, for the three are treated alike and share only the version. Pages of one chat put
  every boundary between chats, of which two are one to be found and one that moves; for more there is the theorem.
  `ReadingBound` leaves one request at a time while a list is read: its reader sees but the saves, and those of two
  requests can come one after the other.
- The eight routes of `api` have every kind of chain: public, limited, validated, authenticated, administrator's,
  uploads, and an unknown path. A limit of one request with a window of one second reaches the limit and the turn of a
  window; two windows that touch need a larger limit or window, which only the theorem covers. `Chain` and `Outcomes`
  cover all routes, and any of them can be put into the cfg.
- Pages of one message put every boundary between messages; a window of one second separates entries that match from
  those that do not. `Skew` and `Zone`, by how much the client's clock and its time zone are ahead, are 0 here; the
  theorems are about any. Two faults are both connections lost, or one and a
  request. `TypingBound` lets the peer type while there is one message more at most: typing and the list have only the
  connection and the open screen in common, and the theorem is about both together.

Runs that may stop, because every request is used up or the server is down, do not check for deadlock; in `messaging`,
`presence` and `chat_screen` clients can always do something again. Symmetry is used where a run checks safety only.

Each property has a mutant (an operator marked `Mutant` next to the definition it replaces): a plausible bug, such as
not awaiting an update, saving a whole copy or dropping the version check, with which TLC finds the property violated.

### What the code does not keep

- `DeletedIsBlank` (`message.repository.ts:49`): an edit that read the message before it was deleted for everyone saves
  its content over the tombstone, although the code refuses to edit a deleted message (`:45`). What holds instead is
  `DeletionIsFinal`: an edit that begins later cannot.
- `OneReactionPerUser` (`message.repository.ts:66`): two overlapping first reactions of one user are both pushed;
  `messageReaction.model.ts:19` says a user has one.
- `ConnectedIsOnline` (`connection.handler.ts:50`): closing one of two devices marks the user offline; README.md:73
  promises online/offline status, and `presence.model.ts:7` plans a count of sockets. What holds instead is
  `PresenceExact`.

Met while modelling, visible without a run:

- README.md:69 promises rotation of the refresh tokens; `refreshAccessToken` hands out an access token only and leaves
  the refresh token as it is.
- A logout unregisters no device: the phone rings for the old account until somebody else registers it.
- A ban does not reach sockets that are already connected, nor access tokens handed out by a request that began before
  it.
- The last admin may leave a group (`group.service.ts:69`); a promotion does not ask whether its subject is a member.
- A message sent over REST is stored and counted, but not emitted.
- Two chats of one pair, once there, stay; every open finds one of them.
- Removing a reaction saves the whole array as it was read, and a change of an emoji does not renew the version: another
  user's change that comes in between is undone. Nobody's reaction is lost or comes back (`OthersReactionsKept`).
- `chatMessagesProvider` asks once: what was sent while the screen was closed or the socket was down is not fetched, for
  scrolling asks for older messages only (`HistoryFound` is about those stored when the screen was first opened).
- Where the last entry is one sent from the screen, the next page is asked for by the client's own clock, and by its
  local time without a zone (`chat_detail_screen.dart:113`, `220`): a client that is behind, or west of the server,
  passes over what lies between. `HistoryFound` takes those messages out.
- `receive_message` is shown whatever chat it belongs to (`chat_detail_screen.dart:143`).
- Two equal texts sent within 30 seconds are one on the screen until the second comes back.
- An optimistic entry goes only when its message comes by an event, within 30 seconds of it by both clocks
  (`chat_detail_screen.dart:148`): one that comes with a page, or later, shows beside its entry (`:126`).
- A peer who leaves the screen while typing cancels the timer and sends no stop. A stop that is emitted while either
  socket is down (`socket_service.dart:75`) is lost, or comes when the peer is back: until then, or for good, the
  indicator stays on.
- Chats are sorted by `updatedAt`, in milliseconds, with no second key, and paged by `skip` and `limit`
  (`chat.repository.ts:40-42`): chats with the same time may change places between two pages, and a chat that is saved
  while a page is read, or with a time that is not the latest, may push another past the reader. The next page then
  lacks a chat nobody has touched. `PagingFindsUntouched` names these cases; what it keeps is that chats moving to the
  front *between* pages, the usual case, hide none.

### Fairness

Properties of safety need none. Liveness assumes only weak fairness, and only of the server:

- `messaging`: the handler's steps (the event loop resumes a handler whose awaits have settled) and the two updates
  while the handler awaits them (the driver answers or rejects). A command nobody waits for may never be applied.
- `presence`: a socket's handler and its command.
- `accounts`: the steps of each request's handler. The search for a free name ends because no account is ever deleted
  and there are finitely many, not by assumption.
- `api`: the middlewares and the handler of each request, the start of the process and the callback of `server.close`.
  The database and Cloudinary answer or their drivers time out.

Nothing is assumed about clients: they may never send, connect or disconnect. Faults need not happen, and stop for no
reason but their bound. `WorkEnds` therefore says that a shutdown ends *unless a client keeps a connection open*; there
is no timeout in the code that would end it.

## 4. Proofs

Checked by TLAPS for every value of the constants, from the assumptions the modules state: each socket has an owner
(`Owner`); `Sends`, the `Founders` of the accounts and, for a message and the API, `Requests` are finite; the values
that stand for nobody and nothing are no users, sends, identities or phones; there is a user; the tombstone is no text a
client can send; page size, limits and the window are positive; bounds are natural numbers. The bounds on faults,
versions, names, chats and the clock are parameters: the theorems hold for all of them. Hardly any property is inductive
as it stands; the strengthened invariants were checked with TLC on the instances above before they were proved.

**`GroupMessaging_proofs`, about `Messaging`**: type correctness, the five invariants of the `messaging` run, and
`Refinement`: `Spec => ImplementsChatLog`. `IndInv` strengthens the invariants:

- `SendInv` ties `pc` to what was issued and emitted (`HandlerInv`) and to what was stored (`StoredInv`): an update is
  issued only for a stored message, and emission follows both updates. It gives `AnnouncedIsRecorded` and, with
  `OrderInv`, `LastMessageStored`.
- `OrderInv` says the last message was set by an update that has landed, and that after the update of `s` landed no
  message acknowledged before `s` began can return (its only update landed before). It gives `LastMessageNoRegress`.
- `UnreadInv` says a counter equals the number of landed increments naming the user, so that the bounds follow by
  comparing finite sets. It is why `Sends` is assumed finite.
- `SteadyInv` says steady sockets are connected, which the second emit needs.

`Refinement` maps each step to a step of `ChatLog` or a stutter under that invariant; the landing of an insert that is
`adrift` is a posting, of a send that was refused or never answered, since an acknowledged one has none adrift.

**`Groups_proofs`**: type correctness, `GroupHasChat`, `StrayAdminsExplained` and `MembershipMerges`. `IndInv` is the
types and four conjuncts: `CreationInv` (how far `createGroup` got and which documents it has left), `ChatInv` (a
group has its chat; once the chat is being purged, the group is gone), `CopyInv` (a copy is as old as its version: if
the version is the current one, the participants are the ones that were read), and `KindInv` (which requests may stand
at which await). `CopyInv` is the heart of `MembershipMerges`: a save that passes the version check writes the array
it read with its own change, so it can undo nobody's. `StrayAdminsExplained` also needs that a creator takes part in
the chat and that idle requests are about nothing (`AdminsInv`).

**`GroupMessaging_proofs`, about `GroupMessaging`**: types and the four invariants of the composition. They use the
lemmas about `Messaging` step by step: in the composition `HandlerInv`, `UnreadInv` and `SteadyInv` hold as they are,
because membership changes touch neither handlers nor counters, but `StoredInv` does not survive a purge. It is kept
*until* one has deleted the messages (`KeptInv`), a condition that never comes back once it is gone (`Kept`), which
gives `StoredUntilPurged` and the upper bound of `SteadyMembersCounted`. `PurgeInv` orders the three deletions of
`adminDeleteGroup`; with `RaceInv` it gives `PurgeIsFinal`: since the chat is gone before the messages are deleted, only
sends whose insert was under way during the purge (`racing`) can leave one, whether their handler still waited for it or
had failed or died. `StayInv` (who has stayed since the send was accepted was among its recipients) gives the other half
of the counters and, with the second read of the chat, `SteadyMembersReceive`.

**`MessageDocument_proofs`**: type correctness and the five properties of its run. The type invariant is strengthened by
which request stands where (`KindInv`). `MarksSurvive` and `DeletionIsFinal` are then step by step, because a save
replaces only the fields it has changed. `EventsTrue` follows from `MarkMade`: a handler that is about to emit has made
its mark, and marks survive. `EditHistoryKept` needs `HistoryInv`: the history counts the settled edits, and while it is
empty an undeleted document and every copy that is being edited still have the original content. `OthersReactionsKept`
rests on `CopyInv`: a copy with the current version has reactions of the same users at the same places (but perhaps
other emojis). Removing one place is then a bijection between the places of every other user before and after
(`PlacesRemoved`), so their number stays without an induction over the array.

**`Presence_proofs`**: type correctness and `PresenceExact`, from an invariant of undisturbed users: the server is busy
with at most one socket of such a user, and the flags say what its handler has done.

**`Accounts_proofs`**: type correctness (with `StageInv`: which kind of request waits where, and about what) and the
five invariants of the `accounts` run. `AccountsDistinct` is inductive over the types, since every insert and rename
checks the unique indexes. `BannedGetNothing` needs `EntryInv`: whoever is past the check of `isBanned` was not banned
at some moment since the request began, a refresh only once its user was looked up. `PushesAccountedFor` needs
`DispatchInv`: while a dispatch is under way its account's phones are remembered, so those it finds were owned since it
began. `SessionsApart` and `NoSessionAfterLogout` are proved together (`SessionInv`): an open session is that of an
answered login, and every stored token that of an open session or of a login that was cut off while storing it. The
uniqueness of stored tokens does the rest: a login that would sign the text of an open session is refused. A session
ends with its token's expiry as with a logout, and expiry takes no other, for it is past the second the token was
signed.

**`PrivateChats_proofs`**: type correctness and the four properties of its run. `OpenInv` says that a request is about
to create a chat only if none of the chats known when it began is the pair's (`OpenFindsChat`). `CopyInv` says that a
copy with the current version has the current lists, so a removal that passes the version check flips one user's flag
and leaves every other as it is (`OthersFlagsKept`). `FlipInv` follows a toggle nobody has disturbed: the flag is still
what it was when it began (`ToggleFlips`). `DueInv` is the argument about paging. What the reader still has to get
(`due`) was not saved, has an `updatedAt` of its own, and has enough chats in front of it (`Ahead`) that its place is
behind the pages already read, those counted that were not saved while the current page is being read. A save puts
another chat in front or ends the promise (`PutInFront`), so between two pages those in front only grow (`DueTouched`).
During a query they may not: a chat that was in front already may be passed over where it was and where it goes, which
is why such a save ends the promise too; one that was behind is left out of the count, and wherever the query comes upon
it, the chats in front of the due one are still enough (`DueRead`). A page that is not full is the last one, by
counting; so `PagingFindsUntouched` holds for any number of chats and any page size.

**`Api_proofs`**: type correctness, both invariants and the safety property of the steps in the `api` run. `GuardInv`
says of a request under way: if its route asks for a token (or the role), that guard is still in front of it, or its
token is a user's (an administrator's). A handler has nothing left in front of it, so `EffectsAuthorized` follows from
the tables of routes (`GuardedRoutes`); even the type of `blocks` needs this. `ReportInv` says a report is stored only
by the request that made it, when it is answered, and not with 4xx (`RefusedLeavesNoTrace`). `LimitHeld` needs
`WindowInv` about one client and one limiter (`Fits`): a window is never ahead of the clock, it has fewer passes than
the limit after its first second, and it has fewer than the limit in the last window's length before it opened; the
passes of any span as long as a window lie in two such parts. The bound of twice the limit less one is the best there
is.

**`ChatScreen_proofs`**: type correctness and the four invariants of the `chat_screen` run, for every size of a page,
every window in which an entry matches its message, every skew of the clocks and time zone, also where the client is
behind, and any number of messages and faults.

- First the lists. `InOrder` (the members of a set in the order of a relation) gives each member the place that counts
  those before it; that this is a list with each member once follows from counting (`InOrderList`), without an induction
  over the data. `Keep` lists the places that stay in that way (`KeepList`, `KeepMembers`), and a page of the history is
  the front of its messages in the order of `createdAt` (`PageList`): it passes over nothing that is later than its
  last.
- `StepKinds` puts every step into one of eight kinds (nothing for the screen, a sending, an event, five steps of the
  history), and a lemma for each kind says what is on the list afterwards and which entry is last (`SendingScreen`,
  `ReceivedScreen`, `OlderScreen`).
- `ShownOnce` is that the lists have no element twice (`DistinctInv`), the page under way included, and that an event
  takes away the entry it matches: the pair that may remain is the one `OptimisticReplaced` leaves. This needs that what
  came by an event is stored and shown (`HeardInv`): from then on it matches the same entries for good.
- `HistoryFound` is the long argument. `CursorInv`: every message there was when the screen was opened is on the screen,
  or *passed* (it shares its `createdAt` with another, an entry sent from here has no later one, or an older one came by
  an event), or earlier than the last entry. `OlderInv` says the same of the page under way, so a page that comes back
  empty leaves nothing to find. The danger is the step that moves the cursor back in time: when the message of the
  *last* entry comes, the entry is removed, and any other may be the last. `FrontInv` is what saves it: in front of an
  optimistic entry stand only entries that were sent from here or came by an event, so the new cursor is one of those,
  and every message it hides is one the property calls passed.
- How much an entry sent from here can hide depends on the client's clock, which nothing in the code compares with the
  server's. `HistoryFoundByClock` adds that a clock that is not behind (`Skew + Zone >= 0`) hides nothing by it but a
  message of just its time: the entry was made after the screen was opened (`EarlyInv`).
- `TypingBacked` needs to know what the peer's socket keeps while it is down (`LinkInv`): after a start that is kept,
  the timer runs, which brings a stop, or none will come. Its steps are those of the two connections and the peer's text
  field (`TypingStep`).

### Only model-checked

- The liveness properties (`SendsAreAnswered`, `OfflineEventually`, `RequestsEnd`, `WorkEnds`): liveness and `ENABLED`
  are outside what TLAPS proves here.
- The three properties that the code violates, of course: their counterexamples are what matters.

## 5. Plan

Done: the send path with its abstract specification, the message document, presence, groups and their composition with
sending, accounts with push dispatch, private chats, the HTTP layer and the chat screen; every safety property that a
passing run checks is a theorem.

Left, the most useful first:

1. An abstract specification of private chats or of sessions (what a client may rely on), refined by `PrivateChats` or
   `Accounts`, as `ChatLog` is by `Messaging`.
2. The client's session: storage, the interceptor that refreshes after a 401, and logout (`api_client.dart:45`), against
   the tokens of `Accounts`.

## 6. Not modelled

- *Client session and connection*: see the plan. The server's side, and the reconnecting socket as the chat screen sees
  it, are modelled.
- *Calls*: the server relays each event to a user's room and keeps nothing, and the shipped client calls the literal
  `'target_user_id'` and answers no offer: there is no protocol to state properties of.
- *Search, analytics, listings*: they read only. The report list is paged by `skip` over a filter that decisions change,
  and so skips reports; the code has no answer to that.
- *Users' profiles*: `updateProfile` is one unconditional update of fields nothing else depends on.
- *Media*: what Cloudinary stores. A request that fails after the upload leaves a file there.
- *Notifications*: their listing and read marks belong to a controller that is not mounted.
- *The legacy layer, unused collections, queues and workers*: never run, written or enqueued.
- *Other client screens, logging, metrics, formatting, CORS, helmet, compression*: no state a property could be about.
- *Several server processes* (the Redis adapter): emission is no longer immediate then, and the rate limiters count per
  process. The models are of a single process, which is how `docker-compose.yml` and `server.ts` start it.
