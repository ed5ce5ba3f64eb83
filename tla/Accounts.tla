-------------------------------- MODULE Accounts --------------------------------
(***************************************************************************)
(* User accounts and what gives access to them: Google login with its      *)
(* search for a free username, refresh tokens, logout, bans, username      *)
(* changes, devices and the notifications pushed to them.  Every handler   *)
(* is a sequence of MongoDB commands; all of them interleave, and          *)
(* uniqueness rests on the unique indexes of the collections.              *)
(*                                                                         *)
(* Accounts are numbered in the order they are created.  Usernames are     *)
(* numbered too: 0 is the name Google gives (the same for every identity   *)
(* here, the worst case), n the same name with n appended.                 *)
(***************************************************************************)
EXTENDS Integers, Sequences, FiniteSets

CONSTANTS
    Identities,  \* Google accounts; an account's firebaseUid and email
    Founders,    \* those that have an account from the start
    NoIdentity,  \* an id token that does not verify
    Phones, NoPhone,  \* FCM tokens
    Requests,    \* requests clients make
    MaxName,     \* bound: names that updateUsername is asked for
    MaxTime,     \* bound: the clock stops at this second
    MaxFaults    \* bound: errors and crashes that cut handlers off

ASSUME AccountsAssumption ==
    /\ Founders \subseteq Identities /\ IsFiniteSet(Founders)
    /\ NoIdentity \notin Identities /\ NoPhone \notin Phones
    /\ MaxName \in Nat /\ MaxTime \in Nat /\ MaxFaults \in Nat

VARIABLES
    users,      \* the user documents
    tokens,     \* the refresh tokens stored and not expired: account and second of signing
    devices,    \* the devices stored: FCM token and account
    notifications,  \* the notifications stored: the dispatches that did
    now,        \* the second on the clock
    apc,        \* the await at which each handler stands
    req,        \* what each request is about, and its handler's locals
    cutOff,     \* handlers that are gone while a command of theirs is on the wire
    open,       \* history: logins answered whose session neither a logout nor time has ended
    bannedAll,  \* history: accounts banned ever since the request began
    ownedSince, \* history: phones registered for a dispatch's account since it began
    faults      \* errors and crashes so far

docs == <<users, tokens, devices, notifications>>
vars == <<docs, now, apc, req, cutOff, open, bannedAll, ownedSince, faults>>

-----------------------------------------------------------------------------
User == [uid : Identities, username : Nat, isBanned : BOOLEAN]

Waiting == {"probing", "creating", "issuing", "checking", "deleting", "purging",
            "comparing", "renaming", "registering", "marking", "noting", "finding", "pushing"}
APC == {"idle", "done", "failed"} \cup Waiting

\* Requests that give their caller access to an account, and the others.
Entry == {"login", "refresh", "call", "logoutAll", "revoke", "rename", "register"}
Kinds == Entry \cup {"none", "logout", "ban", "unban", "notify"}

\* acct and sec name the refresh token the request is about.
Locals == [kind : Kinds, uid : Identities \cup {NoIdentity}, acct : Nat, sec : 0 .. MaxTime,
           name : Nat, phone : Phones \cup {NoPhone}, phones : SUBSET Phones]
Blank == [kind |-> "none", uid |-> NoIdentity, acct |-> 0, sec |-> 0, name |-> 0,
          phone |-> NoPhone, phones |-> {}]

Token(r) == <<req[r].acct, req[r].sec>>

TypeOK ==
    /\ users \in Seq(User)
    /\ tokens \in SUBSET (Nat \X (0 .. MaxTime))
    /\ devices \in SUBSET (Phones \X Nat)
    /\ now \in 0 .. MaxTime
    /\ apc \in [Requests -> APC]
    /\ req \in [Requests -> Locals]
    /\ cutOff \in SUBSET Requests
    /\ open \in SUBSET Requests
    /\ bannedAll \in [Requests -> SUBSET Nat]
    /\ notifications \in SUBSET Requests
    /\ ownedSince \in [Requests -> SUBSET Phones]
    /\ faults \in 0 .. MaxFaults

\* The founders have an account each; nobody is logged in.
Init ==
    /\ \E g \in [1 .. Cardinality(Founders) -> Founders] :
          /\ \A a, b \in DOMAIN g : a # b => g[a] # g[b]
          /\ users = [a \in DOMAIN g |->
                        [uid |-> g[a], username |-> a - 1, isBanned |-> FALSE]]
    /\ tokens = {} /\ devices = {} /\ notifications = {} /\ now = 0
    /\ apc = [r \in Requests |-> "idle"]
    /\ req = [r \in Requests |-> Blank]
    /\ cutOff = {} /\ open = {} /\ faults = 0
    /\ bannedAll = [r \in Requests |-> {}]
    /\ ownedSince = [r \in Requests |-> {}]

-----------------------------------------------------------------------------
(* The users collection. *)

Ids == 1 .. Len(users)

ByFirebaseUid(g) == {a \in Ids : users[a].uid = g}

ByUsername(n) == {a \in Ids : users[a].username = n}

FindById(a) == a \in Ids

\* The user is found and not banned: what every way in asks.  (Mutant: FindById.)
Allowed(a) == FindById(a) /\ ~users[a].isBanned

Banned == {a \in Ids : users[a].isBanned}

\* Mutant: only the firebaseUid is indexed.
SameUid(g, n) == ByFirebaseUid(g) # {}

\* The unique indexes refuse the document.
Duplicate(g, n) == ByFirebaseUid(g) # {} \/ ByUsername(n) # {}

Create(g, n) == users' = Append(users, [uid |-> g, username |-> n, isBanned |-> FALSE])

Update(a, n) == users' = [users EXCEPT ![a].username = n]

-----------------------------------------------------------------------------
(* Handlers. *)

\* A request arrives; this is its handler's first read.  One that is refused
\* at once leaves no trace but its answer.
Start(r, q, next) ==
    /\ apc[r] = "idle"
    /\ apc' = [apc EXCEPT ![r] = next]
    /\ req' = IF next = "failed" THEN req ELSE [req EXCEPT ![r] = q]
    /\ UNCHANGED <<docs, now, cutOff, faults>>

\* The handler resumes and goes on to its next command or to its answer.  One
\* that is gone does neither.
Resume(r, next, q) ==
    /\ apc' = [apc EXCEPT ![r] = IF r \in cutOff THEN "failed" ELSE next]
    /\ req' = [req EXCEPT ![r] = IF next = "failed" THEN Blank ELSE q]
    /\ UNCHANGED <<now, cutOff, faults>>

Answer(r, how) == Resume(r, how, req[r])

\* It goes on if the condition it has read holds.
Check(r, condition, next) ==
    Answer(r, IF condition THEN next ELSE "failed") /\ UNCHANGED docs

-----------------------------------------------------------------------------
(* verifyGoogleTokenAndLogin and generateTokens. *)

\* The id token names a Google account or is refused.  A user found by that
\* account's uid is let in unless banned, and the refresh token is signed: its
\* text tells the account and the second.
Login(r, g) ==
    LET q == [Blank EXCEPT !.kind = "login", !.uid = g] IN
    \/ g = NoIdentity /\ Start(r, q, "failed")
    \/ g # NoIdentity /\ ByFirebaseUid(g) = {} /\ Start(r, q, "probing")
    \/ \E a \in ByFirebaseUid(g) :
           Start(r, [q EXCEPT !.acct = a, !.sec = now], IF Allowed(a) THEN "issuing" ELSE "failed")

\* Mutant: the counter stays.
SameName(n) == n

NextName(n) == n + 1

\* findByUsername, until the name is free.
ProbeUsername(r) ==
    /\ apc[r] = "probing"
    /\ IF ByUsername(req[r].name) = {}
       THEN Answer(r, "creating")
       ELSE Resume(r, "probing", [req[r] EXCEPT !.name = NextName(@)])
    /\ UNCHANGED docs

\* The insert, refused if another login was faster; then the tokens are signed.
CreateUser(r) ==
    /\ apc[r] = "creating"
    /\ IF Duplicate(req[r].uid, req[r].name)
       THEN Answer(r, "failed") /\ UNCHANGED users
       ELSE /\ Create(req[r].uid, req[r].name)
            /\ Resume(r, "issuing", [req[r] EXCEPT !.acct = Len(users'), !.sec = now])
    /\ UNCHANGED <<tokens, devices, notifications>>

\* Mutant: the token is not unique.
NeverIssued(t) == FALSE

Issued(t) == t \in tokens

CreateRefreshToken(t) == tokens' = tokens \cup {t}

\* The index refuses a token signed for the same user in the same second;
\* otherwise the login is answered.
IssueToken(r) ==
    /\ apc[r] = "issuing"
    /\ IF Issued(Token(r))
       THEN Answer(r, "failed") /\ UNCHANGED tokens
       ELSE CreateRefreshToken(Token(r)) /\ Answer(r, "done")
    /\ UNCHANGED <<users, devices, notifications>>

-----------------------------------------------------------------------------
(* refreshAccessToken, logout, logoutAllDevices. *)

FindRefreshToken(t) == t \in tokens

\* The token is looked up, then its user.
Refresh(r, t) ==
    Start(r, [Blank EXCEPT !.kind = "refresh", !.acct = t[1], !.sec = t[2]],
          IF FindRefreshToken(t) THEN "checking" ELSE "failed")

CheckUser(r) == apc[r] = "checking" /\ Check(r, Allowed(req[r].acct), "done")

\* Mutant: the answer does not wait for the deletion.
AtOnce == "done"

BeforeLogout == "deleting"

\* Whoever holds a refresh token may end its session.
Logout(r, t) ==
    Start(r, [Blank EXCEPT !.kind = "logout", !.acct = t[1], !.sec = t[2]], BeforeLogout)

DeleteTokens(r, T) == tokens' = tokens \ T /\ Answer(r, "done") /\ UNCHANGED <<users, devices, notifications>>

DeleteRefreshToken(r) == apc[r] = "deleting" /\ DeleteTokens(r, {Token(r)})

\* The collection of sessions is empty, for no code stores any: what is written
\* to it here changes nothing, and a session to revoke is never found.
SessionRevoked == FALSE

DeleteAllRefreshTokens(r) ==
    apc[r] = "purging" /\ DeleteTokens(r, {t \in tokens : t[1] = req[r].acct})

-----------------------------------------------------------------------------
(* Requests with an access token, over HTTP or by a socket's handshake. *)

\* authenticateJwt or the socket middleware reads the user.
Authenticate(r, a, q, next) ==
    Start(r, [q EXCEPT !.acct = a], IF Allowed(a) THEN next ELSE "failed")

Call(r, a) == Authenticate(r, a, [Blank EXCEPT !.kind = "call"], "done")

LogoutAll(r, a) == Authenticate(r, a, [Blank EXCEPT !.kind = "logoutAll"], "purging")

RevokeSession(r, a) ==
    Authenticate(r, a, [Blank EXCEPT !.kind = "revoke"], IF SessionRevoked THEN "done" ELSE "failed")

UpdateUsername(r, a, n) ==
    Authenticate(r, a, [Blank EXCEPT !.kind = "rename", !.name = n], "comparing")

\* The name is free or the user's own.
CompareUsername(r) ==
    apc[r] = "comparing" /\ Check(r, ByUsername(req[r].name) \subseteq {req[r].acct}, "renaming")

\* The update, refused by the index if another user took the name meanwhile.
Rename(r) ==
    /\ apc[r] = "renaming"
    /\ IF \E a \in ByUsername(req[r].name) : a # req[r].acct
       THEN Answer(r, "failed") /\ UNCHANGED users
       ELSE Update(req[r].acct, req[r].name) /\ Answer(r, "done")
    /\ UNCHANGED <<tokens, devices, notifications>>

RegisterDevice(r, a, p) ==
    Authenticate(r, a, [Blank EXCEPT !.kind = "register", !.phone = p], "registering")

\* findOneAndUpdate by the FCM token, with upsert: the token changes hands.
UpsertDevice(p, a) == devices' = {d \in devices : d[1] # p} \cup {<<p, a>>}

StoreDevice(r) ==
    /\ apc[r] = "registering"
    /\ UpsertDevice(req[r].phone, req[r].acct)
    /\ Answer(r, "done")
    /\ UNCHANGED <<users, tokens, notifications>>

-----------------------------------------------------------------------------
(* Push notifications: sendMessage starts one dispatch for each recipient and does *)
(* not wait for it.  An error ends the dispatch and is only logged.             *)

\* Mutant: the notification is stored without waiting.
AtOncePush == "finding"

BeforePush == "noting"

Notify(r, a) == Start(r, [Blank EXCEPT !.kind = "notify", !.acct = a], BeforePush)

CreateNotification(r) ==
    /\ apc[r] = "noting"
    /\ notifications' = notifications \cup {r}
    /\ Answer(r, "finding")
    /\ UNCHANGED <<users, tokens, devices>>

PhonesOf(a) == {p \in Phones : <<p, a>> \in devices}

\* The account's devices, if it has any and FCM is configured.
FindDevices(r) ==
    /\ apc[r] = "finding"
    /\ \/ Answer(r, "done")
       \/ /\ PhonesOf(req[r].acct) # {}
          /\ Resume(r, "pushing", [req[r] EXCEPT !.phones = PhonesOf(req[r].acct)])
    /\ UNCHANGED docs

\* FCM delivers to the phones that were found.
SendMulticast(r) == apc[r] = "pushing" /\ Answer(r, "done") /\ UNCHANGED docs

-----------------------------------------------------------------------------
(* Bans, by an administrator. *)

SetBanStatus(r, a, k) ==
    Start(r, [Blank EXCEPT !.kind = k, !.acct = a], IF FindById(a) THEN "marking" ELSE "failed")

MarkBan(r) ==
    /\ apc[r] = "marking"
    /\ users' = [users EXCEPT ![req[r].acct].isBanned = (req[r].kind = "ban")]
    /\ Answer(r, "done")
    /\ UNCHANGED <<tokens, devices, notifications>>

-----------------------------------------------------------------------------
Tick ==
    /\ now < MaxTime
    /\ now' = now + 1
    /\ UNCHANGED <<docs, apc, req, cutOff, faults>>

\* A refresh token lasts 30 days from the second it was signed: after that
\* jwt.verify refuses it, and the TTL index on expiresAt deletes it.  How long 30
\* days are is left open: from the next second on a token may expire at any time.
Expire(t) ==
    /\ t \in tokens
    /\ t[2] < now
    /\ tokens' = tokens \ {t}
    /\ UNCHANGED <<users, devices, notifications, now, apc, req, cutOff, faults>>

\* A command rejects, or the process dies and takes every handler along.  A
\* command already issued may still be applied.
CutOff ==
    /\ faults < MaxFaults
    /\ faults' = faults + 1
    /\ LET waiting == {r \in Requests : apc[r] \in Waiting} IN
       \E R \in {waiting} \cup {{r} : r \in waiting} : cutOff' = cutOff \cup R
    /\ UNCHANGED <<docs, now, apc, req>>

\* Clients present the tokens their logins were answered with; every account has
\* an access token from some earlier login.
Answered == {r \in Requests : req[r].kind = "login" /\ apc[r] = "done"}

Arrive(r) ==
    \/ \E g \in Identities \cup {NoIdentity} : Login(r, g)
    \/ \E s \in Answered : Refresh(r, Token(s)) \/ Logout(r, Token(s))
    \/ \E a \in Ids :
          \/ Call(r, a) \/ LogoutAll(r, a) \/ RevokeSession(r, a) \/ Notify(r, a)
          \/ \E n \in 0 .. MaxName : UpdateUsername(r, a, n)
          \/ \E p \in Phones : RegisterDevice(r, a, p)
          \/ \E k \in {"ban", "unban"} : SetBanStatus(r, a, k)

Handle(r) ==
    \/ ProbeUsername(r) \/ CreateUser(r) \/ IssueToken(r) \/ CheckUser(r)
    \/ DeleteRefreshToken(r) \/ DeleteAllRefreshTokens(r)
    \/ CompareUsername(r) \/ Rename(r) \/ StoreDevice(r) \/ MarkBan(r)
    \/ CreateNotification(r) \/ FindDevices(r) \/ SendMulticast(r)

\* The accounts banned now, for a request still to come, or all along.
TrackBans ==
    bannedAll' = [r \in Requests |->
        IF apc[r] = "idle" THEN Banned' ELSE bannedAll[r] \cap Banned']

TrackOwners ==
    ownedSince' = [r \in Requests |->
        IF req'[r].kind = "notify" /\ apc'[r] \in Waiting
        THEN ownedSince[r] \cup {p \in Phones : <<p, req'[r].acct>> \in devices'}
        ELSE ownedSince[r]]

\* Sessions end with the answer of their logout, or when it deletes their token;
\* and when their token expires.
Ends(s, t) ==
    /\ apc'[s] # apc[s] /\ apc'[s] \in {"done", "failed"}
    /\ \/ req'[s].kind = "logout" /\ Token(s)' = t
       \/ req'[s].kind = "logoutAll" /\ req'[s].acct = t[1] /\ t \notin tokens'

TrackSessions ==
    open' = {r \in Requests :
        /\ req'[r].kind = "login" /\ apc'[r] = "done"
        /\ r \in open \/ apc[r] # "done"
        /\ ~\E s \in Requests : Ends(s, Token(r)')
        /\ ~Expire(Token(r)')}

Step ==
    \/ \E r \in Requests : Arrive(r) \/ Handle(r)
    \/ Tick \/ CutOff
    \/ \E t \in tokens : Expire(t)

Track == TrackBans /\ TrackOwners /\ TrackSessions

Next == Step /\ Track

\* The event loop resumes every handler whose command was answered.
Spec == Init /\ [][Next]_vars /\ \A r \in Requests : WF_vars(Handle(r) /\ Track)

-----------------------------------------------------------------------------
(* Correctness. *)

\* However logins and renames overlap, a Google account has one user document
\* and a username one user: the names are looked up before they are written,
\* and what was free then may be taken by now.
AccountsDistinct ==
    \A a, b \in Ids : a # b => users[a].uid # users[b].uid /\ users[a].username # users[b].username

\* A login's session is its own, and lasts until its user logs out or its token
\* expires: no two open logins share a refresh token, or the logout of one device
\* would end the other's session, and none loses its token to what other requests
\* do, the logouts of other sessions and of other users among them.
SessionsApart ==
    \A r \in open :
        /\ Token(r) \in tokens
        /\ \A s \in open \ {r} : Token(s) # Token(r)

\* A token that is still accepted for a refresh belongs to a login that has not
\* been logged out, or whose answer was lost: once logout or logoutAll has
\* answered, the tokens are gone, unless the user logs in again.
NoSessionAfterLogout ==
    \A t \in tokens : \E r \in Requests :
        Token(r) = t /\ req[r].kind = "login" /\ (r \in open \/ r \in cutOff)

\* A request that began after its account was banned, and the ban was not lifted
\* while it was handled, gets nothing, whichever way in it took: login, refresh,
\* a call or a socket with an access token from before.
BannedGetNothing ==
    \A r \in Requests : apc[r] = "done" /\ req[r].kind \in Entry => req[r].acct \notin bannedAll[r]

\* Whatever rings on a phone is also in the list of its recipient's notifications,
\* and the phone was registered for that account while the message was on its way: a phone
\* that has changed hands before rings for its new owner only.
PushesAccountedFor ==
    \A r \in Requests : req[r].phones # {} /\ apc[r] # "pushing"
        => r \in notifications /\ req[r].phones \subseteq ownedSince[r]

\* Every request is worked off, the search for a free username included, in
\* which other logins keep taking the names this one is about to ask for.
RequestsEnd == []<>(\A r \in Requests : apc[r] \notin Waiting)
=============================================================================
