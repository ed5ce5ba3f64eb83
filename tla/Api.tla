---------------------------------- MODULE Api ----------------------------------
(***************************************************************************)
(* The REST API of one server process: what a request passes on its way to *)
(* its handler (body, rate limiters, authentication, role, validation,     *)
(* upload), how failures turn into answers, and how the process stops.     *)
(* The services behind it that are a single command (reports, blocks,      *)
(* bans, uploads) are modelled with their documents; of the others, which  *)
(* have modules of their own, only the outcome is.                         *)
(***************************************************************************)
EXTENDS Integers, Sequences, FiniteSets

CONSTANTS
    Users, Admins,  \* accounts, and those with the role Admin
    Nobody,         \* no valid access token; an id that belongs to nobody
    Clients,        \* IP addresses
    Requests,       \* requests clients make
    Routes,         \* the routes they make them to
    Limit, Window,  \* how many requests a limiter allows, and in how many seconds
    MaxTime,        \* bound: the clock stops at this second
    MaxFaults       \* bound: database errors and crashes

Limiters == {"global", "login", "upload"}

ASSUME ApiAssumption ==
    /\ Admins \subseteq Users /\ Nobody \notin Users /\ IsFiniteSet(Requests)
    /\ Limit \in [Limiters -> Nat \ {0}] /\ Window \in Nat \ {0}
    /\ MaxTime \in Nat /\ MaxFaults \in Nat

VARIABLES
    server,         \* "starting", "up", "closing" after a SIGTERM, or "down"
    connected,      \* some client keeps a connection open: a socket, a keep-alive
    now,            \* the second on the clock
    hits, resetAt,  \* what each limiter has counted per client, and until when
    banned,         \* users.isBanned
    reports,        \* the status of the report each request has stored
    blocks,         \* the blockeduser documents
    hpc,            \* where each request stands
    req,            \* the request, as long as it is handled
    left,           \* middlewares before its handler
    answer,         \* the status it was answered with
    passed,         \* history: who was let through by which limiter, and when
    faults          \* database errors and crashes so far

process == <<server, connected, now>>
limits == <<hits, resetAt, passed>>
docs == <<banned, reports, blocks>>
flow == <<hpc, req, left, answer>>
vars == <<process, limits, docs, flow, faults>>

-----------------------------------------------------------------------------
(* Routes: handlers by name, with the middlewares in front of them. *)

Behind(guards, routes) == [n \in DOMAIN routes |-> guards \o routes[n]]

\* Several tables as one.  They agree on a name that two of them have.
Joined(tables) ==
    [n \in UNION {DOMAIN t : t \in tables} |-> (CHOOSE t \in tables : n \in DOMAIN t)[n]]

AuthRoutes ==
    [googleLogin |-> <<"login", "valid">>, refreshToken |-> <<"valid">>, logout |-> <<"valid">>,
     logoutAllDevices |-> <<"auth">>, revokeSession |-> <<"auth">>,
     registerDevice |-> <<"auth", "valid">>]

UserRoutes == Behind(<<"auth">>,
    [getMyProfile |-> << >>, updateMyProfile |-> <<"valid">>, updateUsername |-> <<"valid">>,
     checkUsernameAvailability |-> << >>, searchUsers |-> << >>, getUserById |-> << >>,
     blockUser |-> << >>, unblockUser |-> << >>])

ChatRoutes == Behind(<<"auth">>,
    [createPrivateChat |-> <<"valid">>, getMyChats |-> << >>, getChatById |-> << >>,
     getChatMessages |-> << >>, togglePinChat |-> << >>, toggleMuteChat |-> << >>,
     toggleArchiveChat |-> << >>])

MessageRoutes == Behind(<<"auth">>,
    [sendMessage |-> <<"valid">>, getChatMessages |-> << >>, editMessage |-> << >>,
     toggleReaction |-> << >>, deleteForMe |-> << >>, deleteForEveryone |-> << >>])

GroupRoutes == Behind(<<"auth">>,
    [createGroup |-> <<"valid">>, getGroupDetails |-> << >>, addMembers |-> <<"valid">>,
     removeMember |-> << >>, promoteAdmin |-> << >>])

MediaRoutes == Behind(<<"auth">>, [uploadMedia |-> <<"upload", "file">>])

ReportRoutes == Behind(<<"auth">>, [createReport |-> <<"valid">>])

AdminHandlers ==
    [getDashboardAnalytics |-> << >>, getAllUsers |-> << >>, banUser |-> << >>, unbanUser |-> << >>,
     deleteMessage |-> << >>, deleteGroup |-> << >>, getReports |-> << >>,
     resolveReport |-> <<"valid">>]

\* Mutant: the role is not asked for.
AnyRole == Behind(<<"auth">>, AdminHandlers)

AdminRoutes == Behind(<<"auth", "admin">>, AdminHandlers)

PublicRoutes == [health |-> << >>]

ApiRouter ==
    {AuthRoutes, UserRoutes, ChatRoutes, MessageRoutes, GroupRoutes, MediaRoutes, ReportRoutes,
     AdminRoutes}

Chain == Joined({PublicRoutes} \cup ApiRouter)

-----------------------------------------------------------------------------
(* What the handlers answer: with success, with the AppErrors of their services *)
(* (4xx), and with SystemError (500): ids, page numbers and search patterns     *)
(* reach the database as they are, a save may find its document changed, and a  *)
(* unique index may refuse an insert.                                           *)

AuthController ==
    [googleLogin |-> {200, 401, 403, 500}, refreshToken |-> {200, 401}, logout |-> {200},
     logoutAllDevices |-> {200}, revokeSession |-> {404}, registerDevice |-> {200}]

UserController ==
    [getMyProfile |-> {200, 404}, getUserById |-> {200, 404, 500}, updateMyProfile |-> {200, 404},
     updateUsername |-> {200, 409, 500}, checkUsernameAvailability |-> {200}, searchUsers |-> {200, 500},
     blockUser |-> {200, 400, 404, 500}, unblockUser |-> {200, 500}]

ChatController ==
    [createPrivateChat |-> {201, 400, 404, 500}, getMyChats |-> {200, 500},
     getChatById |-> {200, 403, 404, 500}, togglePinChat |-> {200, 403, 404, 500},
     toggleMuteChat |-> {200, 403, 404, 500}, toggleArchiveChat |-> {200, 403, 404, 500}]

MessageController ==
    [sendMessage |-> {201, 403, 404, 500}, getChatMessages |-> {200, 403, 404, 500},
     editMessage |-> {200, 403, 404, 500}, toggleReaction |-> {200, 404, 500},
     deleteForMe |-> {200, 500}, deleteForEveryone |-> {200, 403, 404, 500}]

GroupController ==
    [createGroup |-> {201, 500}, getGroupDetails |-> {200, 404, 500},
     addMembers |-> {200, 403, 404, 500}, removeMember |-> {200, 403, 404, 500},
     promoteAdmin |-> {200, 403, 404, 500}]

AdminController ==
    [getDashboardAnalytics |-> {200}, getAllUsers |-> {200, 500}, getReports |-> {200, 500},
     resolveReport |-> {200, 500}, banUser |-> {200, 404, 500}, unbanUser |-> {200, 404, 500},
     deleteMessage |-> {200, 404, 500}, deleteGroup |-> {200, 404, 500}]

\* No file, or a failure of Cloudinary, which is an AppError too.
UploadMedia == {200, 400, 500}

Outcomes ==
    Joined({AuthController, UserController, ChatController, MessageController, GroupController,
            AdminController, [health |-> {200}, createReport |-> {201, 500}, uploadMedia |-> UploadMedia]})

-----------------------------------------------------------------------------
\* A body is fine, is refused by the schema or the file filter, or breaks its
\* parser: JSON that is none, a file that is too large.
Bodies == {"fine", "invalid", "broken"}

Accepted == {"running", "hung"}
HPC == {"idle", "answered", "lost"} \cup Accepted

\* HttpStatus, as far as it is used.
Statuses == {200, 201, 400, 401, 403, 404, 409, 429, 500}

\* Reviewed, resolved and dismissed are one.
ReportStatus == {"pending", "decided"}

\* A pair is unique: blocking twice is blocking once.
BlockedUsers == SUBSET (Users \X Users)

Request == [client : Clients, route : Routes, token : Users \cup {Nobody}, body : Bodies]
NoRequest == [route |-> "none"]

Passage == [limiter : Limiters, client : Clients, r : Requests, time : 0 .. MaxTime]

Guards == {"auth", "admin", "login", "upload", "valid", "file"}

TypeOK ==
    /\ server \in {"starting", "up", "closing", "down"} /\ connected \in BOOLEAN /\ now \in 0 .. MaxTime
    /\ hits \in [Limiters -> [Clients -> Nat]] /\ resetAt \in [Limiters -> [Clients -> Nat]]
    /\ passed \subseteq Passage
    /\ banned \in SUBSET Users
    /\ reports \in [Requests -> ReportStatus \cup {"none"}]
    /\ blocks \in BlockedUsers
    /\ hpc \in [Requests -> HPC]
    /\ req \in [Requests -> Request \cup {NoRequest}]
    /\ \A r \in Requests : req[r] \in IF hpc[r] \in Accepted THEN Request ELSE {NoRequest}
    /\ left \in [Requests -> Seq(Guards)]
    /\ answer \in [Requests -> Statuses \cup {0}]
    /\ faults \in 0 .. MaxFaults

NoHits == [l \in Limiters |-> [c \in Clients |-> 0]]

Init ==
    /\ server = "starting" /\ connected = FALSE /\ now = 0
    /\ hits = NoHits /\ resetAt = NoHits /\ passed = {}
    /\ banned = {} /\ blocks = {}
    /\ reports = [r \in Requests |-> "none"]
    /\ hpc = [r \in Requests |-> "idle"]
    /\ req = [r \in Requests |-> NoRequest]
    /\ left = [r \in Requests |-> << >>]
    /\ answer = [r \in Requests |-> 0]
    /\ faults = 0

-----------------------------------------------------------------------------
(* Answers. *)

Answer(r, status) ==
    /\ hpc' = [hpc EXCEPT ![r] = "answered"]
    /\ answer' = [answer EXCEPT ![r] = status]
    /\ req' = [req EXCEPT ![r] = NoRequest]
    /\ left' = [left EXCEPT ![r] = << >>]

\* An AppError is its status, any other exception is SystemError.
SystemError == 0

\* Mutant: the status an AppError has by default.
BadRequest(e) == IF e = SystemError THEN 400 ELSE e

StatusOf(e) == IF e = SystemError THEN 500 ELSE e

\* errorHandler, at the end of the chain.
Throw(r, e) == Answer(r, StatusOf(e))

\* next(), from the middleware that is in front.
PassOn(r) ==
    /\ left' = [left EXCEPT ![r] = Tail(@)]
    /\ UNCHANGED <<hpc, req, answer>>

-----------------------------------------------------------------------------
(* Rate limiters: hits per client, in a window that starts with a hit. *)

\* Mutant: the hits before this one are compared.
MoreBefore(n, l) == n - 1 > Limit[l]

Exceeds(n, l) == n > Limit[l]

\* allowed and refused are what happens next.
Count(l, r, c, allowed, refused) ==
    LET expired == now >= resetAt[l][c]
        n == IF expired THEN 1 ELSE hits[l][c] + 1
    IN /\ hits' = [hits EXCEPT ![l][c] = n]
       /\ resetAt' = IF expired THEN [resetAt EXCEPT ![l][c] = now + Window] ELSE resetAt
       /\ IF Exceeds(n, l) THEN refused /\ UNCHANGED passed
          ELSE allowed /\ passed' = passed \cup {[limiter |-> l, client |-> c, r |-> r, time |-> now]}

-----------------------------------------------------------------------------
(* The chain. *)

\* A request whose body was read; a multipart body is left for later.  It is
\* counted and routed.
Arrive(r, q) ==
    /\ server = "up" \/ (server = "closing" /\ connected)
    /\ hpc[r] = "idle"
    /\ IF q.body = "broken" /\ q.route # "uploadMedia"
       THEN Throw(r, SystemError) /\ UNCHANGED limits
       ELSE Count("global", r, q.client,
                  IF q.route \in DOMAIN Chain
                  THEN /\ hpc' = [hpc EXCEPT ![r] = "running"]
                       /\ req' = [req EXCEPT ![r] = q]
                       /\ left' = [left EXCEPT ![r] = Chain[q.route]]
                       /\ UNCHANGED answer
                  ELSE Answer(r, 404),
                  Throw(r, 429))
    /\ UNCHANGED <<process, docs, faults>>

At(r, g) == hpc[r] = "running" /\ left[r] # << >> /\ Head(left[r]) = g

\* authenticateJwt verifies the token and waits for the user document.
Authenticate(r) ==
    /\ At(r, "auth")
    /\ IF req[r].token = Nobody THEN Throw(r, 401)
       ELSE IF req[r].token \in banned THEN Throw(r, 403) ELSE PassOn(r)
    /\ UNCHANGED <<process, limits, docs, faults>>

\* A database error is answered like a bad token.
AuthenticateFails(r) ==
    /\ faults < MaxFaults /\ faults' = faults + 1
    /\ At(r, "auth")
    /\ Throw(r, 401)
    /\ UNCHANGED <<process, limits, docs>>

RequireAdmin(r) ==
    /\ At(r, "admin")
    /\ IF req[r].token \in Admins THEN PassOn(r) ELSE Throw(r, 403)
    /\ UNCHANGED <<process, limits, docs, faults>>

LimitRate(r, l) ==
    /\ At(r, l)
    /\ Count(l, r, req[r].client, PassOn(r), Throw(r, 429))
    /\ UNCHANGED <<process, docs, faults>>

ValidateRequest(r) ==
    /\ At(r, "valid")
    /\ IF req[r].body = "fine" THEN PassOn(r) ELSE Throw(r, 400)
    /\ UNCHANGED <<process, limits, docs, faults>>

\* multer refuses a type with an AppError, a size with an error of its own.
ReceiveFile(r) ==
    /\ At(r, "file")
    /\ CASE req[r].body = "fine" -> PassOn(r)
         [] req[r].body = "invalid" -> Throw(r, 400)
         [] OTHER -> Throw(r, SystemError)
    /\ UNCHANGED <<process, limits, docs, faults>>

\* Nothing is left in front of the handler.
InHandler(r) == hpc[r] = "running" /\ left[r] = << >>

-----------------------------------------------------------------------------
(* Handlers: what they do to the documents when they end with this status. *)

CreateReport(r, status) ==
    reports' = IF status = 201 THEN [reports EXCEPT ![r] = "pending"] ELSE reports

\* updateReportStatus: an id that does not exist changes nothing.
ResolveReport(status) ==
    \E q \in Requests, s \in ReportStatus :
        reports' = IF status = 200 /\ reports[q] # "none" THEN [reports EXCEPT ![q] = s] ELSE reports

\* Users are never deleted: whom the first read finds, the upsert blocks.
BlockUser(u, status) ==
    IF status = 200 THEN \E w \in Users \ {u} : blocks' = blocks \cup {<<u, w>>} ELSE UNCHANGED blocks

UnblockUser(u, status) ==
    \E w \in Users : blocks' = IF status = 200 THEN blocks \ {<<u, w>>} ELSE blocks

SetBanStatus(ban, status) ==
    \E u \in Users :
        banned' = IF status # 200 THEN banned ELSE IF ban THEN banned \cup {u} ELSE banned \ {u}

\* The other handlers' documents are not part of this module.
Effect(r, status) ==
    LET n == req[r].route
        u == req[r].token
    IN \/ n = "createReport" /\ CreateReport(r, status) /\ UNCHANGED <<banned, blocks>>
       \/ n = "resolveReport" /\ ResolveReport(status) /\ UNCHANGED <<banned, blocks>>
       \/ n = "blockUser" /\ BlockUser(u, status) /\ UNCHANGED <<banned, reports>>
       \/ n = "unblockUser" /\ UnblockUser(u, status) /\ UNCHANGED <<banned, reports>>
       \/ n \in {"banUser", "unbanUser"} /\ SetBanStatus(n = "banUser", status) /\ UNCHANGED <<reports, blocks>>
       \/ /\ n \notin {"createReport", "resolveReport", "blockUser", "unblockUser", "banUser", "unbanUser"}
          /\ UNCHANGED docs

Serve(r) ==
    /\ InHandler(r)
    /\ \E status \in Outcomes[req[r].route] : Effect(r, status) /\ Answer(r, status)
    /\ UNCHANGED <<process, limits, faults>>

\* Mutant: the rejection is not passed on.
Unhandled(r) == hpc' = [hpc EXCEPT ![r] = "hung"] /\ UNCHANGED <<req, left, answer>>

\* asyncHandler: the rejection goes to next.
Rejected(r) == Throw(r, SystemError)

\* A command of the handler rejects; it may have been applied.
ServeFails(r) ==
    /\ faults < MaxFaults /\ faults' = faults + 1
    /\ InHandler(r)
    /\ \E status \in {200, 201, 500} : Effect(r, status)
    /\ Rejected(r)
    /\ UNCHANGED <<process, limits>>

-----------------------------------------------------------------------------
(* The process. *)

Pending == {r \in Requests : hpc[r] \in Accepted}

Stop(next) ==
    /\ server' = next /\ connected' = FALSE
    /\ hits' = NoHits /\ resetAt' = NoHits /\ passed' = {}

\* connectDB has resolved: the server is created and listens.
Boot ==
    /\ server = "starting"
    /\ server' = "up"
    /\ UNCHANGED <<connected, now, limits, docs, flow, faults>>

\* The database cannot be reached: the process exits and is started again.
BootFails ==
    /\ server = "starting"
    /\ faults < MaxFaults /\ faults' = faults + 1
    /\ UNCHANGED <<process, limits, docs, flow>>

\* server.close: no new connections.
Terminate ==
    /\ server = "up"
    /\ server' = "closing"
    /\ UNCHANGED <<connected, now, limits, docs, flow, faults>>

\* Its callback, once every connection has ended.
Exit ==
    /\ server = "closing" /\ Pending = {} /\ ~connected
    /\ Stop("down")
    /\ UNCHANGED <<now, docs, flow, faults>>

\* The container restarts the process, unless it was on its way to stop.
Crash ==
    /\ server \in {"up", "closing"}
    /\ faults < MaxFaults /\ faults' = faults + 1
    /\ Stop(IF server = "up" THEN "starting" ELSE "down")
    /\ hpc' = [r \in Requests |-> IF r \in Pending THEN "lost" ELSE hpc[r]]
    /\ req' = [r \in Requests |-> NoRequest]
    /\ left' = [r \in Requests |-> << >>]
    /\ UNCHANGED <<now, docs, answer>>

ClientConnects ==
    /\ server = "up" /\ ~connected /\ connected' = TRUE
    /\ UNCHANGED <<server, now, limits, docs, flow, faults>>

ClientLeaves ==
    /\ connected /\ connected' = FALSE
    /\ UNCHANGED <<server, now, limits, docs, flow, faults>>

Tick ==
    /\ now < MaxTime /\ now' = now + 1
    /\ UNCHANGED <<server, connected, limits, docs, flow, faults>>

-----------------------------------------------------------------------------
\* A token and a body matter to the routes that look at them.
Uses(n, guards) == n \in DOMAIN Chain /\ \E i \in DOMAIN Chain[n] : Chain[n][i] \in guards

Fresh(r) ==
    \E c \in Clients, n \in Routes, t \in Users \cup {Nobody}, b \in Bodies :
        /\ t = Nobody \/ Uses(n, {"auth"})
        /\ b = "fine" \/ Uses(n, {"valid", "file"})
        /\ Arrive(r, [client |-> c, route |-> n, token |-> t, body |-> b])

Guard(r) ==
    \/ Authenticate(r) \/ RequireAdmin(r) \/ LimitRate(r, "login") \/ LimitRate(r, "upload")
    \/ ValidateRequest(r) \/ ReceiveFile(r)

Handle(r) == Guard(r) \/ Serve(r)

Fail(r) == AuthenticateFails(r) \/ ServeFails(r)

Process == Boot \/ BootFails \/ Terminate \/ Exit \/ Crash \/ ClientConnects \/ ClientLeaves \/ Tick

Next == (\E r \in Requests : Fresh(r) \/ Handle(r) \/ Fail(r)) \/ Process

\* The event loop goes on with every request, for the database and Cloudinary
\* answer, or their drivers time out (Fail); server.close calls back.
Spec == Init /\ [][Next]_vars /\ (\A r \in Requests : WF_vars(Handle(r))) /\ WF_vars(Boot) /\ WF_vars(Exit)

-----------------------------------------------------------------------------
(* Correctness. *)

Serving(route, who) ==
    \E r \in Requests : /\ InHandler(r) /\ hpc'[r] = "answered"
                        /\ req[r].route \in route /\ req[r].token \in who

\* Behind the chains of middlewares, whatever is decided about a report or a
\* ban, is decided for an administrator's token, a report is stored for a
\* user's, and a user's blocks change only for that user's.
EffectsAuthorized ==
    [][/\ \A r \in Requests : reports'[r] # reports[r] =>
             IF reports[r] = "none" THEN Serving({"createReport"}, Users)
             ELSE Serving({"resolveReport"}, Admins)
       /\ banned' # banned => Serving({"banUser", "unbanUser"}, Admins)
       /\ \A u, w \in Users : (<<u, w>> \in blocks) # (<<u, w>> \in blocks') =>
             Serving({"blockUser", "unblockUser"}, {u})]_vars

\* A client that is told its request was wrong (4xx) may correct and repeat it:
\* nothing was stored for it.  An error after which something may have been
\* stored is told as 500.
RefusedLeavesNoTrace ==
    \A r \in Requests : reports[r] # "none" => answer[r] \notin 400 .. 499

\* While the process lives, no client gets more requests through a limiter in
\* any span as long as its window than two windows that touch allow, less the
\* one that has opened the first: the windows are each client's own.
LimitHeld ==
    \A l \in Limiters, c \in Clients :
        Cardinality({p \in passed : p.limiter = l /\ p.client = c /\ p.time > now - Window})
            <= 2 * Limit[l] - 1

\* Every request that was accepted is answered, unless the process dies; a process
\* that starts gets to listen; and a SIGTERM ends it, unless some client keeps its
\* connection open.  (None of the three can come undone for ever: faults are few.)
WorkEnds ==
    []<>(Pending = {} /\ server # "starting" /\ (server = "closing" => connected))
=============================================================================
