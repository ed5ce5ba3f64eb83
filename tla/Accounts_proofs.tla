----------------------------- MODULE Accounts_proofs -----------------------------
(***************************************************************************)
(* Theorems about Accounts, for every set of Google accounts, phones and   *)
(* requests, and every number of names, seconds and faults.                *)
(***************************************************************************)
EXTENDS Accounts, FiniteSetTheorems, SequenceTheorems, TLAPS

-----------------------------------------------------------------------------
(* The parts of the inductive invariant. *)

\* The kinds of request that come to an await.
KindsAt ==
    [probing |-> {"login"}, creating |-> {"login"}, issuing |-> {"login"},
     checking |-> {"refresh"}, deleting |-> {"logout"}, purging |-> {"logoutAll"},
     comparing |-> {"rename"}, renaming |-> {"rename"}, registering |-> {"register"},
     marking |-> {"ban", "unban"},
     noting |-> {"notify"}, finding |-> {"notify"}, pushing |-> {"notify"}]

\* A request that has not come is about nothing; one that waits, waits where
\* its kind does; one that is to create an account or a device knows for whom.
StageInv ==
    \A r \in Requests :
        /\ apc[r] = "idle" => req[r] = Blank
        /\ apc[r] \in Waiting => req[r].kind \in KindsAt[apc[r]]
        /\ apc[r] \in {"probing", "creating"} => req[r].uid \in Identities
        /\ apc[r] = "registering" => req[r].phone \in Phones

\* Whoever was let in was not banned at some moment since the request began.
\* A refresh that is still checking its user was not let in yet.
EntryInv ==
    \A r \in Requests :
        apc[r] \notin {"idle", "failed", "checking"} /\ req[r].kind \in Entry
            => req[r].acct \notin bannedAll[r]

\* While a dispatch is under way, the phones of its account are remembered, and
\* it looks for them once its notification is stored.
DispatchInv ==
    \A r \in Requests :
        /\ apc[r] \in {"noting", "finding", "pushing"} => PhonesOf(req[r].acct) \subseteq ownedSince[r]
        /\ apc[r] \in {"finding", "pushing"} => r \in notifications
        /\ req[r].phones # {} => r \in notifications /\ req[r].phones \subseteq ownedSince[r]

\* An open session is that of a login that was answered.
OpenInv == \A r \in open : req[r].kind = "login" /\ apc[r] = "done"

\* A stored token is that of an open session, or of a login that was cut off
\* while it stored it.
TokenInv ==
    \A t \in tokens : \E r \in Requests :
        /\ Token(r) = t /\ req[r].kind = "login"
        /\ r \in open \/ (r \in cutOff /\ apc[r] = "failed")

-----------------------------------------------------------------------------
(* What the steps of a request do to its own state and to that of the others. *)

\* Whatever request arrives, its handler starts at an await of its kind, or is
\* over; whom it lets in is not banned now, and a new account is not there yet.
Arrives(r, q, next) ==
    /\ Start(r, q, next)
    /\ next # "idle"
    /\ next \in Waiting => q.kind \in KindsAt[next]
    /\ next \in {"probing", "creating"} => q.uid \in Identities
    /\ next = "registering" => q.phone \in Phones
    /\ next = "done" => q.kind = "call"
    /\ next \notin {"failed", "checking"} /\ q.kind \in Entry => q.acct \notin Banned
    /\ next \notin {"finding", "pushing"} /\ q.phones = {}

\* The request that a client starts from is well typed.
LEMMA BlankType == Blank \in Locals
BY AccountsAssumption DEF Blank, Locals, Kinds, Entry

\* Every arrival of a request is of that form.
LEMMA Arrival ==
    ASSUME TypeOK, NEW r \in Requests, Arrive(r)
    PROVE  \E q \in Locals, next \in APC : Arrives(r, q, next)
<1> USE BlankType DEF TypeOK, APC, Waiting, Kinds, Entry
<1>1. \A g \in Identities \cup {NoIdentity}, a \in Nat, s \in 0 .. MaxTime :
         /\ [Blank EXCEPT !.kind = "login", !.uid = g] \in Locals
         /\ [Blank EXCEPT !.kind = "login", !.uid = g, !.acct = a, !.sec = s] \in Locals
  BY DEF Locals, Blank
<1>2. Ids \subseteq Nat \ {0}
  BY DEF Ids
<1>3. ASSUME NEW g \in Identities \cup {NoIdentity}, Login(r, g)
      PROVE  \E q \in Locals, next \in APC : Arrives(r, q, next)
  <2> DEFINE q == [Blank EXCEPT !.kind = "login", !.uid = g]
  <2>1. CASE g = NoIdentity /\ Start(r, q, "failed")
    <3>1. Arrives(r, q, "failed")
      BY <2>1 DEF Arrives, Blank
    <3>2. QED BY <1>1, <3>1
  <2>2. CASE g # NoIdentity /\ Start(r, q, "probing")
    <3>1. q.acct \notin Banned
      BY <1>2 DEF Blank, Banned
    <3>2. Arrives(r, q, "probing")
      BY <2>2, <3>1 DEF Arrives, KindsAt, Blank
    <3>3. QED BY <1>1, <3>2
  <2>3. ASSUME NEW a \in ByFirebaseUid(g),
               Start(r, [q EXCEPT !.acct = a, !.sec = now], IF Allowed(a) THEN "issuing" ELSE "failed")
        PROVE  \E q0 \in Locals, next \in APC : Arrives(r, q0, next)
    <3>1. a \in Nat /\ [q EXCEPT !.acct = a, !.sec = now] \in Locals
      BY <1>1, <1>2 DEF ByFirebaseUid
    <3>2. Allowed(a) => a \notin Banned
      BY DEF Allowed, Banned
    <3>3. Arrives(r, [q EXCEPT !.acct = a, !.sec = now], IF Allowed(a) THEN "issuing" ELSE "failed")
      BY <2>3, <3>2 DEF Arrives, KindsAt, Blank
    <3>4. QED BY <3>1, <3>3
  <2>4. QED BY <1>3, <2>1, <2>2, <2>3 DEF Login
<1>4. ASSUME NEW t \in Nat \X (0 .. MaxTime), Refresh(r, t) \/ Logout(r, t)
      PROVE  \E q \in Locals, next \in APC : Arrives(r, q, next)
  <2> DEFINE q(k) == [Blank EXCEPT !.kind = k, !.acct = t[1], !.sec = t[2]]
  <2>1. q("refresh") \in Locals /\ q("logout") \in Locals
    BY DEF Locals, Blank
  <2>2. Refresh(r, t) => Arrives(r, q("refresh"), IF FindRefreshToken(t) THEN "checking" ELSE "failed")
    BY DEF Refresh, Arrives, KindsAt, Blank
  <2>3. Logout(r, t) => Arrives(r, q("logout"), "deleting")
    BY DEF Logout, BeforeLogout, Arrives, KindsAt, Blank
  <2>4. QED BY <1>4, <2>1, <2>2, <2>3
<1>5. ASSUME NEW a \in Ids, NEW q \in Locals, NEW next \in APC, Authenticate(r, a, q, next),
             next \notin {"idle", "probing", "creating", "finding", "pushing"}, q.phones = {},
             next \in Waiting => q.kind \in KindsAt[next], next = "done" => q.kind = "call",
             next = "registering" => q.phone \in Phones
      PROVE  \E q0 \in Locals, n \in APC : Arrives(r, q0, n)
  <2>1. [q EXCEPT !.acct = a] \in Locals
    BY <1>2 DEF Locals
  <2>2. Allowed(a) => a \notin Banned
    BY DEF Allowed, Banned
  <2>3. Arrives(r, [q EXCEPT !.acct = a], IF Allowed(a) THEN next ELSE "failed")
    BY <1>5, <2>2 DEF Authenticate, Arrives, Locals
  <2>4. QED BY <2>1, <2>3
<1>6. ASSUME NEW a \in Ids,
             \/ Call(r, a) \/ LogoutAll(r, a) \/ RevokeSession(r, a)
             \/ \E n \in 0 .. MaxName : UpdateUsername(r, a, n)
             \/ \E p \in Phones : RegisterDevice(r, a, p)
      PROVE  \E q \in Locals, next \in APC : Arrives(r, q, next)
  <2>1. \A k \in Kinds : [Blank EXCEPT !.kind = k] \in Locals /\ [Blank EXCEPT !.kind = k].phones = {}
    BY DEF Locals, Blank
  <2>2. CASE Call(r, a)
    BY <1>5, <2>1, <2>2 DEF Call, Blank
  <2>3. CASE LogoutAll(r, a)
    BY <1>5, <2>1, <2>3 DEF LogoutAll, Blank, KindsAt
  <2>4. CASE RevokeSession(r, a)
    <3> DEFINE q == [Blank EXCEPT !.kind = "revoke"]
    <3>1. q \in Locals /\ q.phones = {} /\ "failed" \notin Waiting
      BY <2>1
    <3>2. Authenticate(r, a, q, "failed")
      BY <2>4 DEF RevokeSession, SessionRevoked
    <3> HIDE DEF q
    <3>3. QED BY <1>5, <3>1, <3>2
  <2>5. ASSUME NEW n \in 0 .. MaxName, UpdateUsername(r, a, n)
        PROVE  \E q \in Locals, next \in APC : Arrives(r, q, next)
    <3> DEFINE q == [Blank EXCEPT !.kind = "rename", !.name = n]
    <3>1. n \in Nat
      BY AccountsAssumption
    <3>2. q \in Locals /\ q.phones = {} /\ q.kind \in KindsAt["comparing"]
      BY <3>1 DEF Locals, Blank, KindsAt
    <3>3. Authenticate(r, a, q, "comparing")
      BY <2>5 DEF UpdateUsername
    <3> HIDE DEF q
    <3>4. QED BY <1>5, <3>2, <3>3
  <2>6. ASSUME NEW p \in Phones, RegisterDevice(r, a, p)
        PROVE  \E q \in Locals, next \in APC : Arrives(r, q, next)
    <3> DEFINE q == [Blank EXCEPT !.kind = "register", !.phone = p]
    <3>1. q \in Locals /\ q.phones = {} /\ q.kind \in KindsAt["registering"] /\ q.phone \in Phones
      BY DEF Locals, Blank, KindsAt
    <3>2. Authenticate(r, a, q, "registering")
      BY <2>6 DEF RegisterDevice
    <3> HIDE DEF q
    <3>3. QED BY <1>5, <3>1, <3>2
  <2>7. QED BY <1>6, <2>2, <2>3, <2>4, <2>5, <2>6
<1>7. ASSUME NEW a \in Ids, Notify(r, a) \/ \E k \in {"ban", "unban"} : SetBanStatus(r, a, k)
      PROVE  \E q \in Locals, next \in APC : Arrives(r, q, next)
  <2>1. \A k \in Kinds : [Blank EXCEPT !.kind = k, !.acct = a] \in Locals
    BY <1>2 DEF Locals, Blank
  <2>2. Notify(r, a) => Arrives(r, [Blank EXCEPT !.kind = "notify", !.acct = a], "noting")
    BY DEF Notify, BeforePush, Arrives, KindsAt, Blank
  <2>3. \A k \in {"ban", "unban"} : SetBanStatus(r, a, k) =>
           Arrives(r, [Blank EXCEPT !.kind = k, !.acct = a], IF FindById(a) THEN "marking" ELSE "failed")
    BY DEF SetBanStatus, Arrives, KindsAt, Blank
  <2>4. QED BY <1>7, <2>1, <2>2, <2>3
<1>8. \A s \in Answered : Token(s) \in Nat \X (0 .. MaxTime)
  BY DEF Answered, Token, Locals
<1>9. QED BY <1>3, <1>4, <1>6, <1>7, <1>8 DEF Arrive

-----------------------------------------------------------------------------
(* Type correctness. *)

\* The initial states are well typed.
LEMMA TypeInit ==
    ASSUME Init
    PROVE  TypeOK
<1>1. Cardinality(Founders) \in Nat
  BY AccountsAssumption, FS_CardinalityType
<1>2. users \in Seq(User)
  <2>1. PICK g \in [1 .. Cardinality(Founders) -> Founders] :
           users = [a \in DOMAIN g |-> [uid |-> g[a], username |-> a - 1, isBanned |-> FALSE]]
    BY DEF Init
  <2>2. users \in [1 .. Cardinality(Founders) -> User]
    BY <1>1, <2>1, AccountsAssumption DEF User
  <2>3. QED BY <1>1, <2>2, SeqDef
<1>3. req \in [Requests -> Locals]
  BY BlankType DEF Init
<1>4. QED
  BY <1>2, <1>3, AccountsAssumption DEF Init, TypeOK, APC

\* The histories are well typed if what they remember is.
LEMMA HistoryType ==
    ASSUME TypeOK, Track, users' \in Seq(User)
    PROVE  /\ open' \in SUBSET Requests
           /\ bannedAll' \in [Requests -> SUBSET Nat]
           /\ ownedSince' \in [Requests -> SUBSET Phones]
<1>1. Banned' \in SUBSET Nat
  BY DEF Banned, Ids
<1>2. QED
  BY <1>1 DEF TypeOK, Track, TrackBans, TrackOwners, TrackSessions

\* A handler that resumes keeps the types of what it works with.
LEMMA ResumeType ==
    ASSUME TypeOK, NEW r \in Requests, NEW next \in APC, NEW q \in Locals, Resume(r, next, q)
    PROVE  /\ apc' \in [Requests -> APC] /\ req' \in [Requests -> Locals]
           /\ UNCHANGED <<now, cutOff, faults>>
BY BlankType DEF Resume, TypeOK, APC

\* An update of a user leaves the collection well typed, and the other users alone.
LEMMA UpdateType ==
    ASSUME users \in Seq(User), NEW a \in Nat, NEW n \in Nat, NEW b \in BOOLEAN
    PROVE  /\ [users EXCEPT ![a].username = n] \in Seq(User)
           /\ [users EXCEPT ![a].isBanned = b] \in Seq(User)
<1>1. CASE a \in Ids
  <2>1. users[a] \in User
    BY <1>1, ElementOfSeq DEF Ids
  <2>2. [users[a] EXCEPT !.username = n] \in User /\ [users[a] EXCEPT !.isBanned = b] \in User
    BY <2>1 DEF User
  <2>3. QED BY <1>1, <2>2, ExceptSeq DEF Ids
<1>2. CASE a \notin Ids
  <2>1. DOMAIN users = Ids /\ users = [i \in DOMAIN users |-> users[i]]
    BY LenProperties DEF Ids
  <2>2. [users EXCEPT ![a].username = n] = users /\ [users EXCEPT ![a].isBanned = b] = users
    BY <1>2, <2>1
  <2>3. QED BY <2>2
<1>3. QED BY <1>1, <1>2

\* Every step keeps the types of the collections and of the handlers.
LEMMA HandlerType ==
    ASSUME TypeOK, StageInv, NEW r \in Requests, Handle(r)
    PROVE  /\ users' \in Seq(User)
           /\ tokens' \in SUBSET (Nat \X (0 .. MaxTime))
           /\ devices' \in SUBSET (Phones \X Nat)
           /\ notifications' \in SUBSET Requests
           /\ apc' \in [Requests -> APC] /\ req' \in [Requests -> Locals]
           /\ UNCHANGED <<now, cutOff, faults>>
<1> DEFINE G ==
       /\ users' \in Seq(User)
       /\ tokens' \in SUBSET (Nat \X (0 .. MaxTime))
       /\ devices' \in SUBSET (Phones \X Nat)
       /\ notifications' \in SUBSET Requests
       /\ apc' \in [Requests -> APC] /\ req' \in [Requests -> Locals]
       /\ UNCHANGED <<now, cutOff, faults>>
<1>1. req[r] \in Locals /\ Token(r) \in Nat \X (0 .. MaxTime)
  BY DEF TypeOK, Locals, Token
<1>2. {"creating", "issuing", "probing", "renaming", "finding", "pushing", "done", "failed"} \subseteq APC
  BY DEF APC, Waiting
<1>3. \A next \in APC : Answer(r, next) =>
         /\ apc' \in [Requests -> APC] /\ req' \in [Requests -> Locals]
         /\ UNCHANGED <<now, cutOff, faults>>
  BY <1>1, ResumeType DEF Answer
<1>4. CASE ProbeUsername(r)
  <2>1. [req[r] EXCEPT !.name = NextName(@)] \in Locals
    BY <1>1 DEF Locals, NextName
  <2>2. QED BY <1>2, <1>3, <1>4, <2>1, ResumeType DEF ProbeUsername, TypeOK, docs
<1>5. CASE CreateUser(r)
  <2>1. CASE Duplicate(req[r].uid, req[r].name)
    BY <1>2, <1>3, <1>5, <2>1 DEF CreateUser, TypeOK
  <2>2. CASE ~Duplicate(req[r].uid, req[r].name)
    <3>1. users' = Append(users, [uid |-> req[r].uid, username |-> req[r].name, isBanned |-> FALSE])
      BY <1>5, <2>2 DEF CreateUser, Create
    <3>2. req[r].uid \in Identities
      BY <1>5 DEF CreateUser, StageInv
    <3>3. users' \in Seq(User) /\ Len(users') \in Nat
      BY <1>1, <3>1, <3>2 DEF TypeOK, User, Locals
    <3>4. [req[r] EXCEPT !.acct = Len(users'), !.sec = now] \in Locals
      BY <1>1, <3>3 DEF Locals, TypeOK
    <3>5. QED BY <1>2, <1>5, <2>2, <3>3, <3>4, ResumeType DEF CreateUser, TypeOK
  <2>3. QED BY <2>1, <2>2
<1>6. CASE IssueToken(r)
  BY <1>1, <1>2, <1>3, <1>6 DEF IssueToken, CreateRefreshToken, TypeOK
<1>7. CASE CheckUser(r) \/ CompareUsername(r)
  BY <1>2, <1>3, <1>7 DEF CheckUser, CompareUsername, Check, TypeOK, docs
<1>8. CASE DeleteRefreshToken(r) \/ DeleteAllRefreshTokens(r)
  BY <1>2, <1>3, <1>8 DEF DeleteRefreshToken, DeleteAllRefreshTokens, DeleteTokens, TypeOK
<1>9. CASE Rename(r) \/ MarkBan(r)
  <2>1. users \in Seq(User) /\ req[r].acct \in Nat /\ req[r].name \in Nat
    BY <1>1 DEF TypeOK, Locals
  <2>2. users' \in Seq(User)
    BY <1>9, <2>1, UpdateType DEF Rename, MarkBan, Update
  <2>3. QED BY <1>2, <1>3, <1>9, <2>2 DEF Rename, MarkBan, TypeOK
<1>10. CASE StoreDevice(r)
  <2>1. req[r].phone \in Phones
    BY <1>10 DEF StoreDevice, StageInv
  <2>2. devices' \in SUBSET (Phones \X Nat)
    BY <1>1, <1>10, <2>1 DEF StoreDevice, UpsertDevice, TypeOK, Locals
  <2>3. QED BY <1>2, <1>3, <1>10, <2>2 DEF StoreDevice, TypeOK
<1>11. CASE CreateNotification(r) \/ SendMulticast(r)
  BY <1>2, <1>3, <1>11 DEF CreateNotification, SendMulticast, TypeOK, docs
<1>12. CASE FindDevices(r)
  <2>1. [req[r] EXCEPT !.phones = PhonesOf(req[r].acct)] \in Locals
    BY <1>1 DEF Locals, PhonesOf
  <2>2. QED BY <1>2, <1>3, <1>12, <2>1, ResumeType DEF FindDevices, TypeOK, docs
<1>13. QED
  BY <1>4, <1>5, <1>6, <1>7, <1>8, <1>9, <1>10, <1>11, <1>12 DEF Handle

-----------------------------------------------------------------------------
(* Where the handlers are. *)

\* A handler that was waiting resumes at an await of its kind, about the same
\* thing, and answers as it stands.  Only the insert of a user makes the request
\* one about another account, and that one is new; only the search for devices
\* finds phones; a refresh is let in while its user is not banned.
Handles(r, q, next) ==
    /\ Resume(r, next, q)
    /\ apc[r] \in Waiting /\ q.kind = req[r].kind
    /\ next \notin {"idle", "registering"}
    /\ next \in Waiting => q.kind \in KindsAt[next]
    /\ next \in {"probing", "creating"} => q.uid \in Identities
    /\ next = "done" => q = req[r] /\ apc[r] \notin {"probing", "creating"}
    /\ next # "failed" => q.acct = req[r].acct \/ q.acct \notin Banned'
    /\ apc[r] = "checking" => next \in {"done", "failed"}
    /\ apc[r] = "checking" /\ next = "done" => q.acct \notin Banned'
    /\ \/ q.phones = req[r].phones
       \/ apc[r] = "finding" /\ q.phones = PhonesOf(req[r].acct) /\ UNCHANGED docs
    /\ next = "finding" => r \in notifications'
    /\ next = "pushing" => apc[r] = "finding"

\* Whatever handler goes on, it does so in that way.
LEMMA Handling ==
    ASSUME TypeOK, StageInv, NEW r \in Requests, Handle(r)
    PROVE  \E q \in Locals, next \in APC : Handles(r, q, next)
<1> DEFINE kindOK == apc[r] \in Waiting => req[r].kind \in KindsAt[apc[r]]
<1>1. req[r] \in Locals /\ kindOK /\ apc[r] \in APC
  BY DEF TypeOK, StageInv
<1>2. {"creating", "issuing", "probing", "renaming", "finding", "pushing", "done", "failed"} \subseteq APC
  BY DEF APC, Waiting
<1> USE DEF Waiting, KindsAt, Handles
<1>3. CASE ProbeUsername(r)
  <2>1. req[r].uid \in Identities /\ req[r].kind = "login"
    BY <1>1, <1>3 DEF ProbeUsername, StageInv
  <2>2. CASE ByUsername(req[r].name) = {}
    <3>1. Handles(r, req[r], "creating")
      BY <1>1, <1>3, <2>1, <2>2 DEF ProbeUsername, Answer
    <3>2. QED BY <1>1, <1>2, <3>1
  <2>3. CASE ByUsername(req[r].name) # {}
    <3> DEFINE q == [req[r] EXCEPT !.name = NextName(@)]
    <3>1. /\ q \in Locals /\ q.kind = req[r].kind /\ q.uid = req[r].uid
          /\ q.acct = req[r].acct /\ q.phones = req[r].phones
      BY <1>1 DEF Locals, NextName
    <3>2. Resume(r, "probing", q) /\ apc[r] = "probing"
      BY <1>3, <2>3 DEF ProbeUsername
    <3> HIDE DEF q
    <3>3. Handles(r, q, "probing")
      BY <2>1, <3>1, <3>2
    <3>4. QED BY <1>2, <3>1, <3>3
  <2>4. QED BY <2>2, <2>3
<1>4. CASE CreateUser(r)
  <2>1. CASE Duplicate(req[r].uid, req[r].name)
    <3>1. Handles(r, req[r], "failed")
      BY <1>1, <1>4, <2>1 DEF CreateUser, Answer
    <3>2. QED BY <1>1, <1>2, <3>1
  <2>2. CASE ~Duplicate(req[r].uid, req[r].name)
    <3> DEFINE q == [req[r] EXCEPT !.acct = Len(users'), !.sec = now]
    <3>1. users' = Append(users, [uid |-> req[r].uid, username |-> req[r].name, isBanned |-> FALSE])
      BY <1>4, <2>2 DEF CreateUser, Create
    <3>2. users \in Seq(User) /\ req[r].uid \in Identities /\ req[r].name \in Nat
      BY <1>1, <1>4 DEF TypeOK, CreateUser, StageInv, Locals
    <3>3. [uid |-> req[r].uid, username |-> req[r].name, isBanned |-> FALSE] \in User
      BY <3>2 DEF User
    <3>4. Len(users') \in Nat /\ ~users'[Len(users')].isBanned
      BY <3>1, <3>2, <3>3
    <3>5. q \in Locals /\ q.kind = req[r].kind /\ q.acct \notin Banned' /\ q.phones = req[r].phones
      BY <1>1, <3>4 DEF Locals, Banned, TypeOK
    <3>6. Resume(r, "issuing", q) /\ apc[r] = "creating" /\ req[r].kind = "login"
      BY <1>1, <1>4, <2>2 DEF CreateUser
    <3> HIDE DEF q
    <3>7. Handles(r, q, "issuing")
      BY <3>5, <3>6
    <3>8. QED BY <1>2, <3>5, <3>7
  <2>3. QED BY <2>1, <2>2
<1>5. CASE IssueToken(r)
  <2>1. Handles(r, req[r], IF Issued(Token(r)) THEN "failed" ELSE "done")
    BY <1>1, <1>5 DEF IssueToken, Answer
  <2>2. QED BY <1>1, <1>2, <2>1
<1>6. CASE CheckUser(r)
  <2>1. Allowed(req[r].acct) => req[r].acct \notin Banned'
    BY <1>6 DEF CheckUser, Check, docs, Allowed, Banned, Ids, FindById
  <2>2. Handles(r, req[r], IF Allowed(req[r].acct) THEN "done" ELSE "failed")
    BY <1>1, <1>6, <2>1 DEF CheckUser, Check, Answer
  <2>3. QED BY <1>1, <1>2, <2>2
<1>7. CASE DeleteRefreshToken(r) \/ DeleteAllRefreshTokens(r)
  <2>1. Handles(r, req[r], "done")
    BY <1>1, <1>7 DEF DeleteRefreshToken, DeleteAllRefreshTokens, DeleteTokens, Answer
  <2>2. QED BY <1>1, <1>2, <2>1
<1>8. CASE CompareUsername(r)
  <2>1. Handles(r, req[r], IF ByUsername(req[r].name) \subseteq {req[r].acct} THEN "renaming" ELSE "failed")
    BY <1>1, <1>8 DEF CompareUsername, Check, Answer
  <2>2. QED BY <1>1, <1>2, <2>1
<1>9. CASE Rename(r) \/ MarkBan(r) \/ StoreDevice(r)
  <2>1. Handles(r, req[r], "done") \/ Handles(r, req[r], "failed")
    BY <1>1, <1>9 DEF Rename, MarkBan, StoreDevice, Answer
  <2>2. QED BY <1>1, <1>2, <2>1
<1>10. CASE CreateNotification(r)
  <2>1. Handles(r, req[r], "finding")
    BY <1>1, <1>10 DEF CreateNotification, Answer
  <2>2. QED BY <1>1, <1>2, <2>1
<1>11. CASE FindDevices(r)
  <2>1. CASE Answer(r, "done")
    <3>1. Handles(r, req[r], "done")
      BY <1>1, <1>11, <2>1 DEF FindDevices, Answer
    <3>2. QED BY <1>1, <1>2, <3>1
  <2>2. CASE Resume(r, "pushing", [req[r] EXCEPT !.phones = PhonesOf(req[r].acct)])
    <3> DEFINE q == [req[r] EXCEPT !.phones = PhonesOf(req[r].acct)]
    <3>1. /\ q \in Locals /\ q.kind = req[r].kind /\ q.acct = req[r].acct
          /\ q.phones = PhonesOf(req[r].acct)
      BY <1>1 DEF Locals, PhonesOf
    <3>2. apc[r] = "finding" /\ UNCHANGED docs /\ req[r].kind = "notify"
      BY <1>1, <1>11 DEF FindDevices
    <3> HIDE DEF q
    <3>3. Handles(r, q, "pushing")
      BY <2>2, <3>1, <3>2 DEF q
    <3>4. QED BY <1>2, <3>1, <3>3
  <2>3. QED BY <1>11, <2>1, <2>2 DEF FindDevices
<1>12. CASE SendMulticast(r)
  <2>1. Handles(r, req[r], "done")
    BY <1>1, <1>12 DEF SendMulticast, Answer
  <2>2. QED BY <1>1, <1>2, <2>1
<1>13. QED
  BY <1>3, <1>4, <1>5, <1>6, <1>7, <1>8, <1>9, <1>10, <1>11, <1>12 DEF Handle

\* Every step keeps the types.
LEMMA TypeStep ==
    ASSUME TypeOK, StageInv, [Next]_vars
    PROVE  TypeOK'
<1>1. CASE UNCHANGED vars
  BY <1>1 DEF vars, docs, TypeOK
<1>2. CASE Next
  <2>1. ASSUME users' \in Seq(User), tokens' \in SUBSET (Nat \X (0 .. MaxTime)),
               devices' \in SUBSET (Phones \X Nat), notifications' \in SUBSET Requests,
               apc' \in [Requests -> APC], req' \in [Requests -> Locals],
               now' \in 0 .. MaxTime, cutOff' \in SUBSET Requests, faults' \in 0 .. MaxFaults
        PROVE  TypeOK'
    BY <1>2, <2>1, HistoryType DEF Next, TypeOK
  <2>2. ASSUME NEW r \in Requests, Arrive(r) PROVE TypeOK'
    <3>1. PICK q \in Locals, next \in APC : Arrives(r, q, next)
      BY <2>2, Arrival
    <3>2. apc' \in [Requests -> APC] /\ req' \in [Requests -> Locals] /\ UNCHANGED <<docs, now, cutOff, faults>>
      BY <3>1 DEF Arrives, Start, TypeOK
    <3>3. QED BY <2>1, <3>2 DEF docs, TypeOK
  <2>3. ASSUME NEW r \in Requests, Handle(r) PROVE TypeOK'
    BY <2>1, <2>3, HandlerType DEF TypeOK
  <2>4. CASE Tick
    <3>1. now' \in 0 .. MaxTime
      BY <2>4, AccountsAssumption DEF Tick, TypeOK
    <3>2. QED BY <2>1, <2>4, <3>1 DEF Tick, docs, TypeOK
  <2>5. CASE CutOff
    <3>1. faults' \in 0 .. MaxFaults
      BY <2>5, AccountsAssumption DEF CutOff, TypeOK
    <3>2. cutOff' \in SUBSET Requests
      BY <2>5 DEF CutOff, TypeOK
    <3>3. QED BY <2>1, <2>5, <3>1, <3>2 DEF CutOff, docs, TypeOK
  <2>6. ASSUME NEW t \in tokens, Expire(t) PROVE TypeOK'
    BY <2>1, <2>6 DEF Expire, TypeOK
  <2>7. QED BY <1>2, <2>2, <2>3, <2>4, <2>5, <2>6 DEF Next, Step
<1>3. QED BY <1>1, <1>2

\* Every step preserves where the requests wait.
LEMMA StageStep ==
    ASSUME TypeOK, StageInv, [Next]_vars
    PROVE  StageInv'
<1> USE DEF StageInv
<1>1. CASE UNCHANGED vars
  BY <1>1 DEF vars
<1>2. ASSUME NEW r \in Requests, Arrive(r) PROVE StageInv'
  <2>1. PICK q \in Locals, next \in APC : Arrives(r, q, next)
    BY <1>2, Arrival
  <2>2. next # "failed" => apc' = [apc EXCEPT ![r] = next] /\ req' = [req EXCEPT ![r] = q]
    BY <2>1 DEF Arrives, Start
  <2>3. next = "failed" => apc' = [apc EXCEPT ![r] = next] /\ req' = req
    BY <2>1 DEF Arrives, Start
  <2>4. "failed" \notin Waiting
    BY DEF Waiting
  <2>5. QED BY <2>1, <2>2, <2>3, <2>4 DEF Arrives, TypeOK
<1>3. ASSUME NEW r \in Requests, Handle(r) PROVE StageInv'
  <2>1. PICK q \in Locals, next \in APC : Handles(r, q, next)
    BY <1>3, Handling
  <2>2. apc' = [apc EXCEPT ![r] = IF r \in cutOff THEN "failed" ELSE next]
    BY <2>1 DEF Handles, Resume
  <2>3. /\ \A s \in Requests \ {r} : req'[s] = req[s]
        /\ next # "failed" => req'[r] = q
    BY <2>1 DEF Handles, Resume, TypeOK
  <2>4. "failed" \notin Waiting
    BY DEF Waiting
  <2>5. QED BY <2>1, <2>2, <2>3, <2>4 DEF Handles, TypeOK
<1>4. CASE Tick \/ CutOff \/ \E t \in tokens : Expire(t)
  BY <1>4 DEF Tick, CutOff, Expire
<1>5. QED BY <1>1, <1>2, <1>3, <1>4 DEF Next, Step

\* In the initial states no request has come.
LEMMA StageInit ==
    ASSUME Init
    PROVE  StageInv
BY DEF Init, StageInv, Waiting

\* Requests wait where their kind does.
LEMMA StageCorrect == Spec => [](TypeOK /\ StageInv)
<1>1. Init => TypeOK /\ StageInv
  BY TypeInit, StageInit
<1>2. TypeOK /\ StageInv /\ [Next]_vars => TypeOK' /\ StageInv'
  BY TypeStep, StageStep
<1>3. QED BY <1>1, <1>2, PTL DEF Spec

\* Every variable keeps its type: an account is created for the identity that a
\* token was verified for, a device is stored for a phone, and a token for a
\* moment on the clock.
THEOREM TypeCorrect == Spec => []TypeOK
BY StageCorrect, PTL

-----------------------------------------------------------------------------
(* The collections. *)

\* A new document that the unique indexes admit shares neither its identity nor
\* its name with another.
LEMMA DistinctStep ==
    ASSUME TypeOK, StageInv, AccountsDistinct, [Next]_vars
    PROVE  AccountsDistinct'
<1> USE DEF AccountsDistinct
<1>1. ASSUME UNCHANGED users PROVE AccountsDistinct'
  BY <1>1 DEF Ids
<1>2. ASSUME NEW r \in Requests, CreateUser(r), ~Duplicate(req[r].uid, req[r].name)
      PROVE  AccountsDistinct'
  <2> DEFINE u == [uid |-> req[r].uid, username |-> req[r].name, isBanned |-> FALSE]
  <2>1. users' = Append(users, u)
    BY <1>2 DEF CreateUser, Create
  <2>2. users \in Seq(User) /\ u \in User
    BY <1>2 DEF TypeOK, CreateUser, StageInv, Locals, User
  <2>3. \A a \in Ids : users[a].uid # u.uid /\ users[a].username # u.username
    BY <1>2 DEF Duplicate, ByFirebaseUid, ByUsername
  <2> HIDE DEF u
  <2>4. Ids' = Ids \cup {Len(users) + 1} /\ users'[Len(users) + 1] = u
    BY <2>1, <2>2 DEF Ids
  <2>5. \A a \in Ids : users'[a] = users[a]
    BY <2>1, <2>2 DEF Ids
  <2>6. QED BY <2>3, <2>4, <2>5
<1>3. ASSUME NEW r \in Requests, Rename(r) PROVE AccountsDistinct'
  <2>1. CASE UNCHANGED users
    BY <1>1, <2>1
  <2>2. CASE /\ users' = [users EXCEPT ![req[r].acct].username = req[r].name]
             /\ \A a \in ByUsername(req[r].name) : a = req[r].acct
    <3>1. Ids' = Ids /\ Ids = DOMAIN users
      BY <2>2, LenProperties DEF Ids, TypeOK
    <3>2. \A a \in Ids : users[a] \in User
      BY ElementOfSeq DEF Ids, TypeOK
    <3>3. \A a \in Ids : /\ users'[a].uid = users[a].uid
                         /\ users'[a].username = IF a = req[r].acct THEN req[r].name ELSE users[a].username
      BY <2>2, <3>1, <3>2 DEF User
    <3>4. \A a \in Ids : users[a].username = req[r].name => a = req[r].acct
      BY <2>2 DEF ByUsername
    <3>5. QED BY <3>1, <3>3, <3>4
  <2>3. QED BY <1>3, <2>1, <2>2 DEF Rename, Update
<1>4. ASSUME NEW r \in Requests, MarkBan(r) PROVE AccountsDistinct'
  <2>1. Ids' = Ids /\ Ids = DOMAIN users
    BY <1>4, LenProperties DEF Ids, TypeOK, MarkBan
  <2>2. \A a \in Ids : users[a] \in User
    BY ElementOfSeq DEF Ids, TypeOK
  <2>3. \A a \in Ids : users'[a].uid = users[a].uid /\ users'[a].username = users[a].username
    BY <1>4, <2>1, <2>2 DEF MarkBan, User
  <2>4. QED BY <2>1, <2>3
<1>5. ASSUME NEW r \in Requests, Arrive(r) PROVE AccountsDistinct'
  BY <1>1, <1>5, Arrival DEF Arrives, Start, docs
<1>6. ASSUME NEW r \in Requests, Handle(r), ~CreateUser(r), ~Rename(r), ~MarkBan(r) PROVE UNCHANGED users
  BY <1>6 DEF Handle, ProbeUsername, IssueToken, CheckUser, CompareUsername, Check, DeleteRefreshToken,
              DeleteAllRefreshTokens, DeleteTokens, StoreDevice, CreateNotification, FindDevices,
              SendMulticast, docs
<1>7. ASSUME NEW r \in Requests, CreateUser(r), Duplicate(req[r].uid, req[r].name) PROVE UNCHANGED users
  BY <1>7 DEF CreateUser
<1>8. ASSUME Tick \/ CutOff \/ (\E t \in tokens : Expire(t)) \/ UNCHANGED vars PROVE UNCHANGED users
  BY <1>8 DEF Tick, CutOff, Expire, vars, docs
<1>9. QED
  BY <1>1, <1>2, <1>3, <1>4, <1>5, <1>6, <1>7, <1>8 DEF Next, Step

\* A Google account has one user document and a username one user, however
\* logins and renames overlap: the unique indexes decide, not the lookups.
THEOREM AccountsAreDistinct == Spec => []AccountsDistinct
<1>1. Init => AccountsDistinct
  <2> SUFFICES ASSUME Init PROVE AccountsDistinct
    OBVIOUS
  <2>1. Cardinality(Founders) \in Nat
    BY AccountsAssumption, FS_CardinalityType
  <2>2. PICK g \in [1 .. Cardinality(Founders) -> Founders] :
           /\ \A a, b \in DOMAIN g : a # b => g[a] # g[b]
           /\ users = [a \in DOMAIN g |-> [uid |-> g[a], username |-> a - 1, isBanned |-> FALSE]]
    BY DEF Init
  <2>3. DOMAIN g = 1 .. Cardinality(Founders) /\ users \in Seq(User)
    BY TypeInit DEF TypeOK
  <2>4. Ids = DOMAIN g
    BY <2>2, <2>3, LenProperties DEF Ids
  <2>5. QED BY <2>1, <2>2, <2>3, <2>4 DEF AccountsDistinct
<1>2. TypeOK /\ StageInv /\ AccountsDistinct /\ [Next]_vars => AccountsDistinct'
  BY DistinctStep
<1>3. QED BY <1>1, <1>2, StageCorrect, PTL DEF Spec

-----------------------------------------------------------------------------
(* Bans. *)

\* Every step preserves that whoever was let in was not banned all along: the
\* request began when its account was not banned, or the account did not exist.
LEMMA EntryStep ==
    ASSUME TypeOK, StageInv, EntryInv, [Next]_vars
    PROVE  EntryInv'
<1> USE DEF EntryInv
<1>1. CASE UNCHANGED vars
  BY <1>1 DEF vars
<1>2. ASSUME Next
      PROVE  \A r \in Requests : \A a \in bannedAll'[r] :
                a \in Banned' /\ (apc[r] # "idle" => a \in bannedAll[r])
  BY <1>2 DEF Next, Track, TrackBans, TypeOK
<1>3. ASSUME Next, NEW r \in Requests, Arrive(r) PROVE EntryInv'
  <2>1. PICK q \in Locals, next \in APC : Arrives(r, q, next)
    BY <1>3, Arrival
  <2>2. apc[r] = "idle" /\ apc' = [apc EXCEPT ![r] = next] /\ Banned' = Banned
    BY <2>1 DEF Arrives, Start, docs, Banned, Ids
  <2>3. next # "failed" => req' = [req EXCEPT ![r] = q]
    BY <2>1 DEF Arrives, Start
  <2>4. next = "failed" => req' = req
    BY <2>1 DEF Arrives, Start
  <2>5. QED BY <1>2, <1>3, <2>1, <2>2, <2>3, <2>4 DEF Arrives, TypeOK
<1>4. ASSUME Next, NEW r \in Requests, Handle(r) PROVE EntryInv'
  <2>1. PICK q \in Locals, next \in APC : Handles(r, q, next)
    BY <1>4, Handling
  <2>2. apc' = [apc EXCEPT ![r] = IF r \in cutOff THEN "failed" ELSE next] /\ apc[r] \in Waiting
    BY <2>1 DEF Handles, Resume
  <2>3. /\ \A s \in Requests \ {r} : req'[s] = req[s]
        /\ next # "failed" => req'[r] = q
    BY <2>1 DEF Handles, Resume, TypeOK
  <2>4. \A s \in Requests \ {r} :
           apc'[s] \notin {"idle", "failed", "checking"} /\ req'[s].kind \in Entry
              => req'[s].acct \notin bannedAll'[s]
    BY <1>2, <1>4, <2>2, <2>3 DEF TypeOK
  <2>5. ASSUME apc'[r] \notin {"idle", "failed", "checking"}, req'[r].kind \in Entry
        PROVE  req'[r].acct \notin bannedAll'[r]
    <3>1. apc'[r] = next /\ next # "failed" /\ req'[r] = q /\ q.kind = req[r].kind
      BY <2>1, <2>2, <2>3, <2>5 DEF TypeOK, Handles
    <3>2. CASE q.acct \notin Banned'
      BY <1>2, <1>4, <3>1, <3>2
    <3>3. CASE q.acct = req[r].acct /\ apc[r] # "checking"
      BY <1>2, <1>4, <2>2, <2>5, <3>1, <3>3 DEF Waiting
    <3>4. CASE apc[r] = "checking"
      BY <2>1, <2>5, <3>1, <3>2, <3>4 DEF Handles
    <3>5. QED BY <2>1, <3>1, <3>2, <3>3, <3>4 DEF Handles
  <2>6. QED BY <2>4, <2>5
<1>5. ASSUME Next, Tick \/ CutOff \/ \E t \in tokens : Expire(t) PROVE EntryInv'
  BY <1>2, <1>5 DEF Tick, CutOff, Expire
<1>6. QED BY <1>1, <1>3, <1>4, <1>5 DEF Next, Step

\* A request that began after its account was banned gets nothing while the ban
\* lasts, whichever way in it took.
THEOREM BannedAreKeptOut == Spec => []BannedGetNothing
<1>1. Init => EntryInv
  BY DEF Init, EntryInv
<1>2. TypeOK /\ StageInv /\ EntryInv /\ [Next]_vars => EntryInv'
  BY EntryStep
<1>3. EntryInv => BannedGetNothing
  BY DEF EntryInv, BannedGetNothing
<1>4. QED BY <1>1, <1>2, <1>3, StageCorrect, PTL DEF Spec

-----------------------------------------------------------------------------
(* Notifications. *)

\* Every step preserves what a dispatch has stored and what is remembered of it.
LEMMA DispatchStep ==
    ASSUME TypeOK, StageInv, DispatchInv, [Next]_vars
    PROVE  DispatchInv'
<1> USE DEF DispatchInv
<1>1. CASE UNCHANGED vars
  BY <1>1 DEF vars, docs, PhonesOf
<1>2. ASSUME Next
      PROVE  \A r \in Requests :
                /\ ownedSince[r] \subseteq ownedSince'[r]
                /\ apc'[r] \in {"noting", "finding", "pushing"}
                      => PhonesOf(req[r].acct)' \subseteq ownedSince'[r]
  <2>1. StageInv' /\ TypeOK'
    BY StageStep, TypeStep
  <2>2. \A r \in Requests : apc'[r] \in {"noting", "finding", "pushing"} => req'[r].kind = "notify"
    BY <2>1 DEF StageInv, KindsAt, Waiting
  <2>3. QED BY <1>2, <2>2 DEF Next, Track, TrackOwners, PhonesOf, Waiting, TypeOK
<1>3. ASSUME Next, NEW r \in Requests, Arrive(r) PROVE DispatchInv'
  <2>1. PICK q \in Locals, next \in APC : Arrives(r, q, next)
    BY <1>3, Arrival
  <2>2. apc[r] = "idle" /\ apc' = [apc EXCEPT ![r] = next] /\ UNCHANGED docs
    BY <2>1 DEF Arrives, Start
  <2>3. req'[r].phones = {} /\ \A s \in Requests \ {r} : req'[s] = req[s]
    BY <2>1 DEF Arrives, Start, TypeOK, StageInv, Blank
  <2>4. QED BY <1>2, <1>3, <2>1, <2>2, <2>3 DEF Arrives, TypeOK, docs
<1>4. ASSUME Next, NEW r \in Requests, Handle(r) PROVE DispatchInv'
  <2>1. PICK q \in Locals, next \in APC : Handles(r, q, next)
    BY <1>4, Handling
  <2>2. apc' = [apc EXCEPT ![r] = IF r \in cutOff THEN "failed" ELSE next]
    BY <2>1 DEF Handles, Resume
  <2>3. \A s \in Requests \ {r} : req'[s] = req[s]
    BY <2>1 DEF Handles, Resume, TypeOK
  <2>4. req'[r].phones = {} \/ req'[r].phones = q.phones
    BY <2>1 DEF Handles, Resume, TypeOK, Blank
  <2>5. notifications \subseteq notifications'
    BY <1>4 DEF Handle, ProbeUsername, CreateUser, IssueToken, CheckUser, CompareUsername, Check,
                DeleteRefreshToken, DeleteAllRefreshTokens, DeleteTokens, Rename, MarkBan,
                CreateNotification, StoreDevice, FindDevices, SendMulticast, docs
  <2>6. q.phones # {} => r \in notifications /\ q.phones \subseteq ownedSince[r]
    BY <2>1 DEF Handles
  <2>7. apc'[r] \in {"finding", "pushing"} => r \in notifications'
    BY <2>1, <2>2, <2>5 DEF Handles, TypeOK
  <2>8. QED BY <1>2, <1>4, <2>2, <2>3, <2>4, <2>5, <2>6, <2>7 DEF TypeOK
<1>5. ASSUME Next, Tick \/ CutOff \/ \E t \in tokens : Expire(t) PROVE DispatchInv'
  BY <1>2, <1>5 DEF Tick, CutOff, Expire, docs
<1>6. QED BY <1>1, <1>3, <1>4, <1>5 DEF Next, Step

\* What rings on a phone is in its recipient's list of notifications, and the
\* phone was registered for the recipient while the message was on its way.
THEOREM PushesAreAccountedFor == Spec => []PushesAccountedFor
<1>1. Init => DispatchInv
  BY DEF Init, DispatchInv, Blank
<1>2. TypeOK /\ StageInv /\ DispatchInv /\ [Next]_vars => DispatchInv'
  BY DispatchStep
<1>3. DispatchInv => PushesAccountedFor
  BY DEF DispatchInv, PushesAccountedFor
<1>4. QED BY <1>1, <1>2, <1>3, StageCorrect, PTL DEF Spec

-----------------------------------------------------------------------------
(* Sessions. *)

SessionInv == OpenInv /\ SessionsApart /\ TokenInv

\* A step that leaves the tokens alone and answers no logout and no login leaves
\* the sessions as they are.
LEMMA SessionsKept ==
    ASSUME TypeOK, SessionInv, TrackSessions, tokens' = tokens, cutOff \subseteq cutOff',
           \A s \in Requests : apc[s] \in {"done", "failed"} => apc'[s] = apc[s] /\ req'[s] = req[s],
           \A s \in Requests : apc'[s] # apc[s] /\ apc'[s] \in {"done", "failed"}
                                  => req'[s].kind \notin {"login", "logout", "logoutAll"} \/ apc'[s] = "failed",
           \A s, t \in Requests : ~Ends(s, Token(t)')
    PROVE  SessionInv'
<1>1. open' = open
  <2>1. \A r \in Requests : ~Expire(Token(r)')
    BY DEF Expire
  <2>2. QED BY <2>1 DEF TrackSessions, SessionInv, OpenInv, TypeOK
<1>2. \A s \in open : Token(s)' = Token(s)
  BY DEF SessionInv, OpenInv, Token, TypeOK
<1>3. OpenInv'
  BY <1>1 DEF SessionInv, OpenInv, TypeOK
<1>4. SessionsApart'
  BY <1>1, <1>2 DEF SessionInv, SessionsApart
<1>5. TokenInv'
  BY <1>1, <1>2 DEF SessionInv, OpenInv, TokenInv, Token, TypeOK
<1>6. QED BY <1>3, <1>4, <1>5 DEF SessionInv

\* A token that is stored is of one login alone, whose session opens with the
\* answer: a token that was there is refused.
LEMMA IssueStep ==
    ASSUME TypeOK, StageInv, SessionInv, TrackSessions, NEW r \in Requests,
           IssueToken(r), ~Issued(Token(r))
    PROVE  SessionInv'
<1>1. /\ apc[r] = "issuing" /\ req[r].kind = "login"
      /\ tokens' = tokens \cup {Token(r)} /\ Token(r) \notin tokens
      /\ apc' = [apc EXCEPT ![r] = IF r \in cutOff THEN "failed" ELSE "done"]
      /\ req' = req /\ cutOff' = cutOff
  <2>1. apc[r] = "issuing" /\ Resume(r, "done", req[r])
    BY DEF IssueToken, Answer
  <2>2. req' = req
    BY <2>1 DEF Resume, TypeOK
  <2>3. req[r].kind = "login"
    BY <2>1 DEF StageInv, Waiting, KindsAt
  <2>4. QED BY <2>1, <2>2, <2>3 DEF Resume, IssueToken, Issued, CreateRefreshToken
<1>2. \A s \in Requests : Token(s)' = Token(s)
  BY <1>1 DEF Token
<1>3. \A s, t \in Requests : ~Ends(s, Token(t)')
  BY <1>1 DEF Ends, TypeOK
<1>4. open' = open \cup (IF r \in cutOff THEN {} ELSE {r})
  <2>1. \A s \in Requests : ~Expire(Token(s)')
    BY <1>1 DEF Expire
  <2>2. QED BY <1>1, <1>3, <2>1 DEF TrackSessions, SessionInv, OpenInv, TypeOK
<1>5. OpenInv'
  BY <1>1, <1>4 DEF SessionInv, OpenInv, TypeOK
<1>6. SessionsApart'
  BY <1>1, <1>2, <1>4 DEF SessionInv, SessionsApart, TypeOK
<1>7. TokenInv'
  <2>1. ASSUME NEW t \in tokens PROVE \E s \in Requests :
           /\ Token(s)' = t /\ req'[s].kind = "login"
           /\ s \in open' \/ (s \in cutOff' /\ apc'[s] = "failed")
    <3>1. PICK s \in Requests : /\ Token(s) = t /\ req[s].kind = "login"
                                /\ s \in open \/ (s \in cutOff /\ apc[s] = "failed")
      BY <2>1 DEF SessionInv, TokenInv
    <3>2. Token(s)' = t /\ req'[s].kind = "login"
      BY <1>1, <1>2, <3>1
    <3>3. s \in open' \/ (s \in cutOff' /\ apc'[s] = "failed")
      BY <1>1, <1>4, <3>1 DEF TypeOK
    <3>4. QED BY <3>2, <3>3
  <2>2. r \in open' \/ (r \in cutOff' /\ apc'[r] = "failed")
    BY <1>1, <1>4 DEF TypeOK
  <2>3. QED BY <1>1, <1>2, <2>1, <2>2 DEF TokenInv
<1>8. QED BY <1>5, <1>6, <1>7 DEF SessionInv

\* A logout ends the sessions of the tokens it deletes, and no other.
LEMMA DeleteStep ==
    ASSUME TypeOK, StageInv, SessionInv, TrackSessions, NEW r \in Requests,
           DeleteRefreshToken(r) \/ DeleteAllRefreshTokens(r)
    PROVE  SessionInv'
<1> DEFINE T == IF apc[r] = "deleting" THEN {Token(r)} ELSE {t \in tokens : t[1] = req[r].acct}
<1>1. /\ \/ apc[r] = "deleting" /\ req[r].kind = "logout"
         \/ apc[r] = "purging" /\ req[r].kind = "logoutAll"
      /\ tokens' = tokens \ T
      /\ apc' = [apc EXCEPT ![r] = IF r \in cutOff THEN "failed" ELSE "done"]
      /\ req' = req /\ cutOff' = cutOff
  <2>1. /\ apc[r] \in {"deleting", "purging"} /\ Resume(r, "done", req[r])
        /\ tokens' = tokens \ T
    BY DEF DeleteRefreshToken, DeleteAllRefreshTokens, DeleteTokens, Answer
  <2>2. req' = req
    BY <2>1 DEF Resume, TypeOK
  <2>3. (apc[r] = "deleting" => req[r].kind = "logout") /\ (apc[r] = "purging" => req[r].kind = "logoutAll")
    BY DEF StageInv, Waiting, KindsAt
  <2>4. QED BY <2>1, <2>2, <2>3 DEF Resume
<1>2. \A s \in Requests : Token(s)' = Token(s)
  BY <1>1 DEF Token
<1>3. apc'[r] # apc[r] /\ apc'[r] \in {"done", "failed"} /\ \A s \in Requests \ {r} : apc'[s] = apc[s]
  BY <1>1 DEF TypeOK
<1>4. ASSUME NEW s \in Requests, NEW t \in Requests, Token(t) \in tokens
      PROVE  Ends(s, Token(t)') <=> s = r /\ Token(t) \in T
  <2>1. CASE s # r
    BY <1>3, <2>1 DEF Ends
  <2>2. CASE s = r /\ apc[r] = "deleting"
    <3>1. req'[r].kind = "logout" /\ Token(t)' = Token(t) /\ Token(r)' = Token(r) /\ T = {Token(r)}
      BY <1>1, <1>2, <2>2
    <3>2. QED BY <1>3, <2>2, <3>1 DEF Ends
  <2>3. CASE s = r /\ apc[r] # "deleting"
    <3>1. req'[r].kind = "logoutAll" /\ Token(t)' = Token(t) /\ req'[r].acct = req[r].acct
      BY <1>1, <1>2, <2>3
    <3>2. T = {x \in tokens : x[1] = req[r].acct}
      BY <2>3
    <3>3. QED BY <1>1, <1>3, <1>4, <2>3, <3>1, <3>2 DEF Ends
  <2>4. QED BY <2>1, <2>2, <2>3
<1> HIDE DEF T
<1>5. \A s \in Requests : req'[s].kind = "login" /\ apc'[s] = "done" <=> req[s].kind = "login" /\ apc[s] = "done"
  BY <1>1, <1>3
<1>6. \A s \in open : Token(s) \in tokens /\ s \in Requests
  BY DEF SessionInv, SessionsApart, TypeOK
<1>7. open' = {s \in open : Token(s) \notin T}
  <2>1. \A s \in open' : s \in open /\ ~\E x \in Requests : Ends(x, Token(s)')
    BY <1>5 DEF TrackSessions
  <2>2. \A s \in open : s \in open' <=> ~\E x \in Requests : Ends(x, Token(s)')
    <3>1. \A s \in Requests : ~Expire(Token(s)')
      BY <1>3 DEF Expire
    <3>2. QED BY <1>5, <1>6, <3>1 DEF TrackSessions, SessionInv, OpenInv
  <2>3. QED BY <1>4, <1>6, <2>1, <2>2
<1>8. OpenInv'
  BY <1>5, <1>7 DEF SessionInv, OpenInv, TypeOK
<1>9. SessionsApart'
  BY <1>1, <1>2, <1>6, <1>7 DEF SessionInv, SessionsApart
<1>10. TokenInv'
  <2>1. ASSUME NEW t \in tokens' PROVE \E s \in Requests :
           /\ Token(s)' = t /\ req'[s].kind = "login"
           /\ s \in open' \/ (s \in cutOff' /\ apc'[s] = "failed")
    <3>1. t \in tokens /\ t \notin T
      BY <1>1
    <3>2. PICK s \in Requests : /\ Token(s) = t /\ req[s].kind = "login"
                                /\ s \in open \/ (s \in cutOff /\ apc[s] = "failed")
      BY <3>1 DEF SessionInv, TokenInv
    <3>3. Token(s)' = t /\ req'[s].kind = "login"
      BY <1>1, <1>2, <3>2
    <3>4. s \in open' \/ (s \in cutOff' /\ apc'[s] = "failed")
      BY <1>1, <1>3, <1>7, <3>1, <3>2
    <3>5. QED BY <3>3, <3>4
  <2>2. QED BY <2>1 DEF TokenInv
<1>11. QED BY <1>8, <1>9, <1>10 DEF SessionInv

\* A token that expires ends its session, and no other.
LEMMA ExpireStep ==
    ASSUME TypeOK, SessionInv, TrackSessions, NEW t \in tokens, Expire(t)
    PROVE  SessionInv'
<1>1. tokens' = tokens \ {t} /\ UNCHANGED <<apc, req, cutOff>>
  BY DEF Expire
<1>2. \A s \in Requests : Token(s)' = Token(s)
  BY <1>1 DEF Token
<1>3. \A s, r \in Requests : ~Ends(s, Token(r)')
  BY <1>1 DEF Ends
<1>4. \A s \in open : Expire(Token(s)') <=> Token(s) = t
  <2>1. ASSUME NEW s \in open, Token(s) = t PROVE Expire(Token(s)')
    <3>1. Token(s)' = t
      BY <1>2, <2>1 DEF TypeOK
    <3>2. QED BY <3>1
  <2>2. ASSUME NEW s \in open, Expire(Token(s)') PROVE Token(s) = t
    BY <1>1, <1>2, <2>2 DEF Expire, TypeOK
  <2>3. QED BY <2>1, <2>2
<1>5. open' = {s \in open : Token(s) # t}
  BY <1>1, <1>3, <1>4 DEF TrackSessions, SessionInv, OpenInv, TypeOK
<1>6. OpenInv'
  BY <1>1, <1>5 DEF SessionInv, OpenInv
<1>7. SessionsApart'
  BY <1>1, <1>2, <1>5 DEF SessionInv, SessionsApart, TypeOK
<1>8. TokenInv'
  <2>1. ASSUME NEW x \in tokens' PROVE \E s \in Requests :
           /\ Token(s)' = x /\ req'[s].kind = "login"
           /\ s \in open' \/ (s \in cutOff' /\ apc'[s] = "failed")
    <3>1. PICK s \in Requests : /\ Token(s) = x /\ req[s].kind = "login"
                                /\ s \in open \/ (s \in cutOff /\ apc[s] = "failed")
      BY <1>1 DEF SessionInv, TokenInv
    <3>2. QED BY <1>1, <1>2, <1>5, <3>1
  <2>2. QED BY <2>1 DEF TokenInv
<1>9. QED BY <1>6, <1>7, <1>8 DEF SessionInv

\* Every step preserves what is known of sessions and tokens.
LEMMA SessionStep ==
    ASSUME TypeOK, StageInv, SessionInv, [Next]_vars
    PROVE  SessionInv'
<1>1. CASE UNCHANGED vars
  BY <1>1 DEF vars, docs, SessionInv, OpenInv, SessionsApart, TokenInv, Token
<1>2. ASSUME Next PROVE TrackSessions
  BY <1>2 DEF Next, Track
<1>3. ASSUME Next, Tick \/ CutOff PROVE SessionInv'
  <2>1. tokens' = tokens /\ apc' = apc /\ req' = req /\ cutOff \subseteq cutOff'
    BY <1>3 DEF Tick, CutOff, docs
  <2>2. \A s, t \in Requests : ~Ends(s, Token(t)')
    BY <2>1 DEF Ends
  <2>3. QED BY <1>2, <1>3, <2>1, <2>2, SessionsKept
<1>4. ASSUME Next, NEW r \in Requests, Arrive(r) PROVE SessionInv'
  <2>1. PICK q \in Locals, next \in APC : Arrives(r, q, next)
    BY <1>4, Arrival
  <2>2. apc[r] = "idle" /\ apc' = [apc EXCEPT ![r] = next] /\ tokens' = tokens /\ cutOff' = cutOff
    BY <2>1 DEF Arrives, Start, docs
  <2>3. next = "failed" => req' = req /\ req[r].kind = "none"
    BY <2>1, <2>2 DEF Arrives, Start, StageInv, Blank
  <2>4. next # "failed" => req' = [req EXCEPT ![r] = q]
    BY <2>1 DEF Arrives, Start
  <2>5. next = "done" => q.kind = "call"
    BY <2>1 DEF Arrives
  <2>6. \A s \in Requests \ {r} : apc'[s] = apc[s] /\ req'[s] = req[s]
    BY <2>2, <2>3, <2>4 DEF TypeOK
  <2>7. apc'[r] = next /\ (next \in {"done", "failed"} => req'[r].kind \in {"call", "none"})
    BY <2>2, <2>3, <2>4, <2>5 DEF TypeOK
  <2>8. \A s, t \in Requests : ~Ends(s, Token(t)')
    BY <2>6, <2>7 DEF Ends
  <2>9. QED BY <1>2, <1>4, <2>2, <2>6, <2>7, <2>8, SessionsKept
<1>5. ASSUME Next, NEW r \in Requests, Handle(r), ~DeleteRefreshToken(r), ~DeleteAllRefreshTokens(r),
             ~(IssueToken(r) /\ ~Issued(Token(r)))
      PROVE  SessionInv'
  <2>1. PICK q \in Locals, next \in APC : Handles(r, q, next)
    BY <1>5, Handling
  <2>2. tokens' = tokens
    BY <1>5 DEF Handle, ProbeUsername, CreateUser, IssueToken, CheckUser, CompareUsername, Check,
                Rename, MarkBan, CreateNotification, StoreDevice, FindDevices, SendMulticast, docs
  <2>3. apc[r] \notin {"deleting", "purging"} /\ (apc[r] = "issuing" => apc'[r] = "failed")
    BY <1>5 DEF Handle, ProbeUsername, CreateUser, IssueToken, CheckUser, CompareUsername, Answer, Resume,
                Rename, MarkBan, CreateNotification, StoreDevice, FindDevices, SendMulticast, TypeOK
  <2>4. /\ apc' = [apc EXCEPT ![r] = IF r \in cutOff THEN "failed" ELSE next]
        /\ apc[r] \in Waiting /\ cutOff' = cutOff
    BY <2>1 DEF Handles, Resume
  <2>5. \A s \in Requests \ {r} : apc'[s] = apc[s] /\ req'[s] = req[s]
    BY <2>1 DEF Handles, Resume, TypeOK
  <2>6. req'[r].kind \in {"none", req[r].kind}
    BY <2>1 DEF Handles, Resume, TypeOK, Blank
  <2>7. req[r].kind \notin {"logout", "logoutAll"} /\ (req[r].kind = "login" => apc[r] \in {"probing", "creating", "issuing"})
    BY <2>3, <2>4 DEF StageInv, Waiting, KindsAt
  <2>8. apc'[r] = "done" => req'[r].kind # "login"
    BY <2>1, <2>3, <2>4, <2>6, <2>7 DEF Handles, TypeOK
  <2>9. \A s, t \in Requests : ~Ends(s, Token(t)')
    BY <2>5, <2>6, <2>7 DEF Ends
  <2>10. apc[r] \notin {"done", "failed"}
    BY <2>4 DEF Waiting
  <2>11. QED BY <1>2, <1>5, <2>2, <2>4, <2>5, <2>6, <2>7, <2>8, <2>9, <2>10, SessionsKept
<1>6. QED
  BY <1>1, <1>2, <1>3, <1>4, <1>5, IssueStep, DeleteStep, ExpireStep DEF Next, Step

\* In the initial states nobody is logged in.
LEMMA SessionInit ==
    ASSUME Init
    PROVE  SessionInv
BY DEF Init, SessionInv, OpenInv, SessionsApart, TokenInv

\* Sessions are what SessionInv says.
LEMMA SessionCorrect == Spec => []SessionInv
<1>1. Init => SessionInv
  BY SessionInit
<1>2. TypeOK /\ StageInv /\ SessionInv /\ [Next]_vars => SessionInv'
  BY SessionStep
<1>3. QED BY <1>1, <1>2, StageCorrect, PTL DEF Spec

\* An open session, one that was neither logged out nor has expired, has its
\* refresh token, whatever other requests do, and no two of them share one.
THEOREM SessionsStayApart == Spec => []SessionsApart
<1>1. SessionInv => SessionsApart
  BY DEF SessionInv
<1>2. QED BY <1>1, SessionCorrect, PTL

\* Once a logout has answered its tokens are gone: what is accepted for a refresh
\* belongs to a login nobody has logged out, or whose answer was lost.
THEOREM LogoutEndsSessions == Spec => []NoSessionAfterLogout
<1>1. SessionInv => NoSessionAfterLogout
  BY DEF SessionInv, TokenInv, NoSessionAfterLogout
<1>2. QED BY <1>1, SessionCorrect, PTL

=============================================================================
