----------------------------------- MODULE Api_proofs -----------------------------------
(***************************************************************************)
(* Theorems about Api, for every set of users, clients and requests, every *)
(* limit and window, and every number of faults.                           *)
(***************************************************************************)
EXTENDS Api, FiniteSetTheorems, SequenceTheorems, TLAPS

-----------------------------------------------------------------------------
(* The tables of routes and of outcomes. *)

\* What the tables say of a name is what their union says of it.
LEMMA JoinedValue ==
    ASSUME NEW T, NEW t \in T, NEW n \in DOMAIN t,
           \A s \in T : n \in DOMAIN s => s[n] = t[n]
    PROVE  n \in DOMAIN Joined(T) /\ Joined(T)[n] = t[n]
BY DEF Joined

\* What holds of the entries of each table holds of those of their union.
LEMMA JoinedType ==
    ASSUME NEW T, NEW S, \A t \in T : \A n \in DOMAIN t : t[n] \in S
    PROVE  /\ \A n \in DOMAIN Joined(T) : Joined(T)[n] \in S
           /\ DOMAIN Joined(T) = UNION {DOMAIN t : t \in T}
BY DEF Joined

\* The chains in front of the routes: no guard or a schema, a limiter, the token
\* alone or with a schema or an upload behind it, the role.
Bare == <<"auth">> \o << >>
Checked == <<"auth">> \o <<"valid">>
Uploading == <<"auth">> \o <<"upload", "file">>
Staff == <<"auth", "admin">> \o << >>
StaffChecked == <<"auth", "admin">> \o <<"valid">>

\* They are sequences of guards; the token comes first, and the role second.
LEMMA ChainShapes ==
    /\ {Bare, Checked, Uploading, Staff, StaffChecked} \subseteq Seq(Guards)
    /\ \A s \in {Bare, Checked, Uploading, Staff, StaffChecked} : \E i \in DOMAIN s : s[i] = "auth"
    /\ \A s \in {Staff, StaffChecked} : \E i \in DOMAIN s : s[i] = "admin"
<1>1. /\ <<"auth">> \in Seq(Guards) /\ <<"auth", "admin">> \in Seq(Guards)
      /\ << >> \in Seq(Guards) /\ <<"valid">> \in Seq(Guards) /\ <<"upload", "file">> \in Seq(Guards)
  BY DEF Guards
<1>2. ASSUME NEW g \in Seq(Guards), NEW s \in Seq(Guards)
      PROVE  /\ g \o s \in Seq(Guards)
             /\ \A i \in 1 .. Len(g) : i \in DOMAIN (g \o s) /\ (g \o s)[i] = g[i]
  <2> DEFINE c == g \o s
  <2>1. /\ c \in Seq(Guards)
        /\ Len(c) = Len(g) + Len(s)
        /\ \A i \in 1 .. Len(g) + Len(s) : c[i] = IF i <= Len(g) THEN g[i] ELSE s[i - Len(g)]
    BY ConcatProperties
  <2> HIDE DEF c
  <2>2. Len(g) \in Nat /\ Len(s) \in Nat /\ DOMAIN c = 1 .. Len(c)
    BY <2>1, LenProperties
  <2>3. c \in Seq(Guards) /\ \A i \in 1 .. Len(g) : i \in DOMAIN c /\ c[i] = g[i]
    BY <2>1, <2>2
  <2>4. QED BY <2>3 DEF c
<1>3. \A s \in Seq(Guards) :
        /\ <<"auth">> \o s \in Seq(Guards)
        /\ 1 \in DOMAIN (<<"auth">> \o s) /\ (<<"auth">> \o s)[1] = "auth"
        /\ <<"auth", "admin">> \o s \in Seq(Guards)
        /\ 1 \in DOMAIN (<<"auth", "admin">> \o s) /\ (<<"auth", "admin">> \o s)[1] = "auth"
        /\ 2 \in DOMAIN (<<"auth", "admin">> \o s) /\ (<<"auth", "admin">> \o s)[2] = "admin"
  <2>1. /\ Len(<<"auth">>) = 1 /\ Len(<<"auth", "admin">>) = 2
        /\ <<"auth">>[1] = "auth" /\ <<"auth", "admin">>[1] = "auth" /\ <<"auth", "admin">>[2] = "admin"
    OBVIOUS
  <2>2. QED BY <1>1, <1>2, <2>1
<1>4. QED BY <1>1, <1>3 DEF Bare, Checked, Uploading, Staff, StaffChecked

\* The profile and search routes.
LEMMA UserRoutesChains ==
    /\ DOMAIN UserRoutes =
        {"getMyProfile", "updateMyProfile", "updateUsername", "checkUsernameAvailability",
         "searchUsers", "getUserById", "blockUser", "unblockUser"}
    /\ \A n \in DOMAIN UserRoutes : UserRoutes[n] \in {Bare, Checked}
<1>1. DOMAIN UserRoutes =
        {"getMyProfile", "updateMyProfile", "updateUsername", "checkUsernameAvailability",
         "searchUsers", "getUserById", "blockUser", "unblockUser"}
  BY DEF Behind, UserRoutes
<1>2. /\ UserRoutes["getMyProfile"] = Bare
      /\ UserRoutes["updateMyProfile"] = Checked
      /\ UserRoutes["updateUsername"] = Checked
      /\ UserRoutes["checkUsernameAvailability"] = Bare
      /\ UserRoutes["searchUsers"] = Bare
      /\ UserRoutes["getUserById"] = Bare
      /\ UserRoutes["blockUser"] = Bare
      /\ UserRoutes["unblockUser"] = Bare
  BY DEF Behind, UserRoutes, Bare, Checked
<1>3. QED BY <1>1, <1>2

\* The routes of chats.
LEMMA ChatRoutesChains ==
    /\ DOMAIN ChatRoutes =
        {"createPrivateChat", "getMyChats", "getChatById", "getChatMessages", "togglePinChat",
         "toggleMuteChat", "toggleArchiveChat"}
    /\ \A n \in DOMAIN ChatRoutes : ChatRoutes[n] \in {Bare, Checked}
<1>1. DOMAIN ChatRoutes =
        {"createPrivateChat", "getMyChats", "getChatById", "getChatMessages", "togglePinChat",
         "toggleMuteChat", "toggleArchiveChat"}
  BY DEF Behind, ChatRoutes
<1>2. /\ ChatRoutes["createPrivateChat"] = Checked
      /\ ChatRoutes["getMyChats"] = Bare
      /\ ChatRoutes["getChatById"] = Bare
      /\ ChatRoutes["getChatMessages"] = Bare
      /\ ChatRoutes["togglePinChat"] = Bare
      /\ ChatRoutes["toggleMuteChat"] = Bare
      /\ ChatRoutes["toggleArchiveChat"] = Bare
  BY DEF Behind, ChatRoutes, Bare, Checked
<1>3. QED BY <1>1, <1>2

\* The routes of messages.
LEMMA MessageRoutesChains ==
    /\ DOMAIN MessageRoutes =
        {"sendMessage", "getChatMessages", "editMessage", "toggleReaction", "deleteForMe",
         "deleteForEveryone"}
    /\ \A n \in DOMAIN MessageRoutes : MessageRoutes[n] \in {Bare, Checked}
<1>1. DOMAIN MessageRoutes =
        {"sendMessage", "getChatMessages", "editMessage", "toggleReaction", "deleteForMe",
         "deleteForEveryone"}
  BY DEF Behind, MessageRoutes
<1>2. /\ MessageRoutes["sendMessage"] = Checked
      /\ MessageRoutes["getChatMessages"] = Bare
      /\ MessageRoutes["editMessage"] = Bare
      /\ MessageRoutes["toggleReaction"] = Bare
      /\ MessageRoutes["deleteForMe"] = Bare
      /\ MessageRoutes["deleteForEveryone"] = Bare
  BY DEF Behind, MessageRoutes, Bare, Checked
<1>3. QED BY <1>1, <1>2

\* The routes of groups.
LEMMA GroupRoutesChains ==
    /\ DOMAIN GroupRoutes =
        {"createGroup", "getGroupDetails", "addMembers", "removeMember", "promoteAdmin"}
    /\ \A n \in DOMAIN GroupRoutes : GroupRoutes[n] \in {Bare, Checked}
<1>1. DOMAIN GroupRoutes =
        {"createGroup", "getGroupDetails", "addMembers", "removeMember", "promoteAdmin"}
  BY DEF Behind, GroupRoutes
<1>2. /\ GroupRoutes["createGroup"] = Checked
      /\ GroupRoutes["getGroupDetails"] = Bare
      /\ GroupRoutes["addMembers"] = Checked
      /\ GroupRoutes["removeMember"] = Bare
      /\ GroupRoutes["promoteAdmin"] = Bare
  BY DEF Behind, GroupRoutes, Bare, Checked
<1>3. QED BY <1>1, <1>2

\* The upload route.
LEMMA MediaRoutesChains ==
    /\ DOMAIN MediaRoutes =
        {"uploadMedia"}
    /\ \A n \in DOMAIN MediaRoutes : MediaRoutes[n] \in {Uploading}
<1>1. DOMAIN MediaRoutes =
        {"uploadMedia"}
  BY DEF Behind, MediaRoutes
<1>2. /\ MediaRoutes["uploadMedia"] = Uploading
  BY DEF Behind, MediaRoutes, Uploading
<1>3. QED BY <1>1, <1>2

\* The route of reports.
LEMMA ReportRoutesChains ==
    /\ DOMAIN ReportRoutes =
        {"createReport"}
    /\ \A n \in DOMAIN ReportRoutes : ReportRoutes[n] \in {Checked}
<1>1. DOMAIN ReportRoutes =
        {"createReport"}
  BY DEF Behind, ReportRoutes
<1>2. /\ ReportRoutes["createReport"] = Checked
  BY DEF Behind, ReportRoutes, Checked
<1>3. QED BY <1>1, <1>2

\* The routes of the service's administrators.
LEMMA AdminRoutesChains ==
    /\ DOMAIN AdminRoutes =
        {"getDashboardAnalytics", "getAllUsers", "banUser", "unbanUser", "deleteMessage",
         "deleteGroup", "getReports", "resolveReport"}
    /\ \A n \in DOMAIN AdminRoutes : AdminRoutes[n] \in {Staff, StaffChecked}
<1>1. DOMAIN AdminRoutes =
        {"getDashboardAnalytics", "getAllUsers", "banUser", "unbanUser", "deleteMessage",
         "deleteGroup", "getReports", "resolveReport"}
  BY DEF Behind, AdminRoutes, AdminHandlers
<1>2. /\ AdminRoutes["getDashboardAnalytics"] = Staff
      /\ AdminRoutes["getAllUsers"] = Staff
      /\ AdminRoutes["banUser"] = Staff
      /\ AdminRoutes["unbanUser"] = Staff
      /\ AdminRoutes["deleteMessage"] = Staff
      /\ AdminRoutes["deleteGroup"] = Staff
      /\ AdminRoutes["getReports"] = Staff
      /\ AdminRoutes["resolveReport"] = StaffChecked
  BY DEF Behind, AdminRoutes, AdminHandlers, Staff, StaffChecked
<1>3. QED BY <1>1, <1>2

\* The routes of sessions, and the public one.
LEMMA OtherChains ==
    /\ DOMAIN AuthRoutes = {"googleLogin", "refreshToken", "logout", "logoutAllDevices",
                            "revokeSession", "registerDevice"}
    /\ \A n \in DOMAIN AuthRoutes : AuthRoutes[n] \in Seq(Guards)
    /\ DOMAIN PublicRoutes = {"health"}
    /\ PublicRoutes["health"] \in Seq(Guards)
<1>1. DOMAIN AuthRoutes = {"googleLogin", "refreshToken", "logout", "logoutAllDevices",
                          "revokeSession", "registerDevice"}
  BY DEF AuthRoutes
<1>2. /\ AuthRoutes["googleLogin"] = <<"login", "valid">>
      /\ AuthRoutes["refreshToken"] = <<"valid">> /\ AuthRoutes["logout"] = <<"valid">>
      /\ AuthRoutes["logoutAllDevices"] = <<"auth">> /\ AuthRoutes["revokeSession"] = <<"auth">>
      /\ AuthRoutes["registerDevice"] = <<"auth", "valid">>
  BY DEF AuthRoutes
<1>3. /\ <<"login", "valid">> \in Seq(Guards) /\ <<"valid">> \in Seq(Guards)
      /\ <<"auth">> \in Seq(Guards) /\ <<"auth", "valid">> \in Seq(Guards) /\ << >> \in Seq(Guards)
  BY DEF Guards
<1>4. DOMAIN PublicRoutes = {"health"} /\ PublicRoutes["health"] = << >>
  BY DEF PublicRoutes
<1>5. QED BY <1>1, <1>2, <1>3, <1>4

\* Every route has a chain of guards in front of it.
LEMMA ChainType ==
    /\ \A n \in DOMAIN Chain : Chain[n] \in Seq(Guards)
    /\ DOMAIN Chain = UNION {DOMAIN t : t \in {PublicRoutes} \cup ApiRouter}
<1>1. /\ \A n \in DOMAIN UserRoutes : UserRoutes[n] \in Seq(Guards)
      /\ \A n \in DOMAIN ChatRoutes : ChatRoutes[n] \in Seq(Guards)
      /\ \A n \in DOMAIN MessageRoutes : MessageRoutes[n] \in Seq(Guards)
      /\ \A n \in DOMAIN GroupRoutes : GroupRoutes[n] \in Seq(Guards)
  BY ChainShapes, UserRoutesChains, ChatRoutesChains, MessageRoutesChains, GroupRoutesChains
<1>2. /\ \A n \in DOMAIN MediaRoutes : MediaRoutes[n] \in Seq(Guards)
      /\ \A n \in DOMAIN ReportRoutes : ReportRoutes[n] \in Seq(Guards)
      /\ \A n \in DOMAIN AdminRoutes : AdminRoutes[n] \in Seq(Guards)
  BY ChainShapes, MediaRoutesChains, ReportRoutesChains, AdminRoutesChains
<1>3. \A t \in {PublicRoutes} \cup ApiRouter : \A n \in DOMAIN t : t[n] \in Seq(Guards)
  BY <1>1, <1>2, OtherChains DEF ApiRouter
<1>4. QED BY <1>3, JoinedType DEF Chain

Needs(n, g) == \E i \in DOMAIN Chain[n] : Chain[n][i] = g

\* Reports and blocks are made behind the token, and what is decided about reports
\* and bans is decided behind the role.
LEMMA GuardedRoutes ==
    /\ \A n \in {"createReport", "blockUser"} : Needs(n, "auth")
    /\ \A n \in {"resolveReport", "banUser", "unbanUser"} : Needs(n, "admin")
<1> DEFINE T == {PublicRoutes} \cup ApiRouter
<1>1. \A t \in T : "createReport" \in DOMAIN t => t = ReportRoutes
  <2>1. /\ "createReport" \notin DOMAIN PublicRoutes /\ "createReport" \notin DOMAIN AuthRoutes
        /\ "createReport" \notin DOMAIN UserRoutes /\ "createReport" \notin DOMAIN ChatRoutes
        /\ "createReport" \notin DOMAIN MessageRoutes /\ "createReport" \notin DOMAIN GroupRoutes
        /\ "createReport" \notin DOMAIN MediaRoutes /\ "createReport" \notin DOMAIN AdminRoutes
    BY OtherChains, UserRoutesChains, ChatRoutesChains, MessageRoutesChains, GroupRoutesChains,
       MediaRoutesChains, AdminRoutesChains
  <2>2. QED BY <2>1 DEF ApiRouter
<1>2. \A t \in T, n \in {"resolveReport", "banUser", "unbanUser"} : n \in DOMAIN t => t = AdminRoutes
  BY OtherChains, UserRoutesChains, ChatRoutesChains, MessageRoutesChains, GroupRoutesChains,
     MediaRoutesChains, ReportRoutesChains, AdminRoutesChains DEF ApiRouter
<1>3. ReportRoutes \in T /\ AdminRoutes \in T /\ UserRoutes \in T
  BY DEF ApiRouter
<1>4. \A t \in T : "blockUser" \in DOMAIN t => t = UserRoutes
  <2>1. /\ "blockUser" \notin DOMAIN PublicRoutes /\ "blockUser" \notin DOMAIN AuthRoutes
        /\ "blockUser" \notin DOMAIN ChatRoutes /\ "blockUser" \notin DOMAIN MessageRoutes
        /\ "blockUser" \notin DOMAIN GroupRoutes /\ "blockUser" \notin DOMAIN MediaRoutes
        /\ "blockUser" \notin DOMAIN ReportRoutes /\ "blockUser" \notin DOMAIN AdminRoutes
    BY OtherChains, ChatRoutesChains, MessageRoutesChains, GroupRoutesChains, MediaRoutesChains,
       ReportRoutesChains, AdminRoutesChains
  <2>2. QED BY <2>1 DEF ApiRouter
<1> HIDE DEF T
<1>5. Joined(T)["createReport"] = ReportRoutes["createReport"]
  BY <1>1, <1>3, JoinedValue, ReportRoutesChains
<1>6. ASSUME NEW n \in {"resolveReport", "banUser", "unbanUser"} PROVE Joined(T)[n] = AdminRoutes[n]
  <2>1. n \in DOMAIN AdminRoutes
    BY AdminRoutesChains
  <2>2. QED BY <1>2, <1>3, <2>1, JoinedValue
<1>7. Joined(T)["blockUser"] = UserRoutes["blockUser"]
  BY <1>3, <1>4, JoinedValue, UserRoutesChains
<1>8. Chain = Joined(T)
  BY DEF Chain, T
<1>9. \E i \in DOMAIN ReportRoutes["createReport"] : ReportRoutes["createReport"][i] = "auth"
  BY ChainShapes, ReportRoutesChains
<1>10. ASSUME NEW n \in {"resolveReport", "banUser", "unbanUser"}
      PROVE  \E i \in DOMAIN AdminRoutes[n] : AdminRoutes[n][i] = "admin"
  BY ChainShapes, AdminRoutesChains
<1>11. \E i \in DOMAIN UserRoutes["blockUser"] : UserRoutes["blockUser"][i] = "auth"
  BY ChainShapes, UserRoutesChains
<1>12. QED BY <1>5, <1>6, <1>8, <1>9, <1>10, <1>7, <1>11 DEF Needs

\* The tables of the controllers name every route, and only statuses there are.
LEMMA OutcomesType ==
    \A n \in DOMAIN Chain : n \in DOMAIN Outcomes /\ Outcomes[n] \subseteq Statuses
<1> DEFINE Rest == [health |-> {200}, createReport |-> {201, 500}, uploadMedia |-> UploadMedia]
           T == {AuthController, UserController, ChatController, MessageController, GroupController,
                 AdminController, Rest}
<1>1. /\ DOMAIN AuthController =
           {"googleLogin", "refreshToken", "logout", "logoutAllDevices", "revokeSession",
            "registerDevice"}
      /\ \A n \in DOMAIN AuthController : AuthController[n] \in SUBSET Statuses
  <2>1. DOMAIN AuthController =
           {"googleLogin", "refreshToken", "logout", "logoutAllDevices", "revokeSession",
            "registerDevice"}
    BY DEF AuthController
  <2>2. /\ AuthController["googleLogin"] \in SUBSET Statuses
        /\ AuthController["refreshToken"] \in SUBSET Statuses
        /\ AuthController["logout"] \in SUBSET Statuses
        /\ AuthController["logoutAllDevices"] \in SUBSET Statuses
        /\ AuthController["revokeSession"] \in SUBSET Statuses
        /\ AuthController["registerDevice"] \in SUBSET Statuses
    BY DEF AuthController, Statuses
  <2>3. QED BY <2>1, <2>2
<1>2. /\ DOMAIN UserController =
           {"getMyProfile", "getUserById", "updateMyProfile", "updateUsername",
            "checkUsernameAvailability", "searchUsers", "blockUser", "unblockUser"}
      /\ \A n \in DOMAIN UserController : UserController[n] \in SUBSET Statuses
  <2>1. DOMAIN UserController =
           {"getMyProfile", "getUserById", "updateMyProfile", "updateUsername",
            "checkUsernameAvailability", "searchUsers", "blockUser", "unblockUser"}
    BY DEF UserController
  <2>2. /\ UserController["getMyProfile"] \in SUBSET Statuses
        /\ UserController["getUserById"] \in SUBSET Statuses
        /\ UserController["updateMyProfile"] \in SUBSET Statuses
        /\ UserController["updateUsername"] \in SUBSET Statuses
        /\ UserController["checkUsernameAvailability"] \in SUBSET Statuses
        /\ UserController["searchUsers"] \in SUBSET Statuses
        /\ UserController["blockUser"] \in SUBSET Statuses
        /\ UserController["unblockUser"] \in SUBSET Statuses
    BY DEF UserController, Statuses
  <2>3. QED BY <2>1, <2>2
<1>3. /\ DOMAIN ChatController =
           {"createPrivateChat", "getMyChats", "getChatById", "togglePinChat", "toggleMuteChat",
            "toggleArchiveChat"}
      /\ \A n \in DOMAIN ChatController : ChatController[n] \in SUBSET Statuses
  <2>1. DOMAIN ChatController =
           {"createPrivateChat", "getMyChats", "getChatById", "togglePinChat", "toggleMuteChat",
            "toggleArchiveChat"}
    BY DEF ChatController
  <2>2. /\ ChatController["createPrivateChat"] \in SUBSET Statuses
        /\ ChatController["getMyChats"] \in SUBSET Statuses
        /\ ChatController["getChatById"] \in SUBSET Statuses
        /\ ChatController["togglePinChat"] \in SUBSET Statuses
        /\ ChatController["toggleMuteChat"] \in SUBSET Statuses
        /\ ChatController["toggleArchiveChat"] \in SUBSET Statuses
    BY DEF ChatController, Statuses
  <2>3. QED BY <2>1, <2>2
<1>4. /\ DOMAIN MessageController =
           {"sendMessage", "getChatMessages", "editMessage", "toggleReaction", "deleteForMe",
            "deleteForEveryone"}
      /\ \A n \in DOMAIN MessageController : MessageController[n] \in SUBSET Statuses
  <2>1. DOMAIN MessageController =
           {"sendMessage", "getChatMessages", "editMessage", "toggleReaction", "deleteForMe",
            "deleteForEveryone"}
    BY DEF MessageController
  <2>2. /\ MessageController["sendMessage"] \in SUBSET Statuses
        /\ MessageController["getChatMessages"] \in SUBSET Statuses
        /\ MessageController["editMessage"] \in SUBSET Statuses
        /\ MessageController["toggleReaction"] \in SUBSET Statuses
        /\ MessageController["deleteForMe"] \in SUBSET Statuses
        /\ MessageController["deleteForEveryone"] \in SUBSET Statuses
    BY DEF MessageController, Statuses
  <2>3. QED BY <2>1, <2>2
<1>5. /\ DOMAIN GroupController =
           {"createGroup", "getGroupDetails", "addMembers", "removeMember", "promoteAdmin"}
      /\ \A n \in DOMAIN GroupController : GroupController[n] \in SUBSET Statuses
  <2>1. DOMAIN GroupController =
           {"createGroup", "getGroupDetails", "addMembers", "removeMember", "promoteAdmin"}
    BY DEF GroupController
  <2>2. /\ GroupController["createGroup"] \in SUBSET Statuses
        /\ GroupController["getGroupDetails"] \in SUBSET Statuses
        /\ GroupController["addMembers"] \in SUBSET Statuses
        /\ GroupController["removeMember"] \in SUBSET Statuses
        /\ GroupController["promoteAdmin"] \in SUBSET Statuses
    BY DEF GroupController, Statuses
  <2>3. QED BY <2>1, <2>2
<1>6. /\ DOMAIN AdminController =
           {"getDashboardAnalytics", "getAllUsers", "getReports", "resolveReport", "banUser",
            "unbanUser", "deleteMessage", "deleteGroup"}
      /\ \A n \in DOMAIN AdminController : AdminController[n] \in SUBSET Statuses
  <2>1. DOMAIN AdminController =
           {"getDashboardAnalytics", "getAllUsers", "getReports", "resolveReport", "banUser",
            "unbanUser", "deleteMessage", "deleteGroup"}
    BY DEF AdminController
  <2>2. /\ AdminController["getDashboardAnalytics"] \in SUBSET Statuses
        /\ AdminController["getAllUsers"] \in SUBSET Statuses
        /\ AdminController["getReports"] \in SUBSET Statuses
        /\ AdminController["resolveReport"] \in SUBSET Statuses
        /\ AdminController["banUser"] \in SUBSET Statuses
        /\ AdminController["unbanUser"] \in SUBSET Statuses
        /\ AdminController["deleteMessage"] \in SUBSET Statuses
        /\ AdminController["deleteGroup"] \in SUBSET Statuses
    BY DEF AdminController, Statuses
  <2>3. QED BY <2>1, <2>2
<1>7. /\ DOMAIN Rest = {"health", "createReport", "uploadMedia"}
      /\ \A n \in DOMAIN Rest : Rest[n] \in SUBSET Statuses
  <2>1. /\ Rest["health"] \in SUBSET Statuses /\ Rest["createReport"] \in SUBSET Statuses
        /\ Rest["uploadMedia"] \in SUBSET Statuses
    BY DEF UploadMedia, Statuses
  <2>2. DOMAIN Rest = {"health", "createReport", "uploadMedia"}
    OBVIOUS
  <2> HIDE DEF Rest
  <2>3. QED BY <2>1, <2>2
<1> HIDE DEF Rest
<1>8. \A t \in T : \A n \in DOMAIN t : t[n] \in SUBSET Statuses
  BY <1>1, <1>2, <1>3, <1>4, <1>5, <1>6, <1>7
<1>9. /\ \A n \in DOMAIN Joined(T) : Joined(T)[n] \in SUBSET Statuses
      /\ DOMAIN Joined(T) = UNION {DOMAIN t : t \in T}
  <2> HIDE DEF T
  <2>1. QED BY <1>8, JoinedType
<1>10. Outcomes = Joined(T)
  BY DEF Outcomes, Rest
<1>11. \A n : n \in DOMAIN PublicRoutes \/ n \in DOMAIN AuthRoutes \/ n \in DOMAIN UserRoutes
               \/ n \in DOMAIN ChatRoutes \/ n \in DOMAIN MessageRoutes \/ n \in DOMAIN GroupRoutes
               \/ n \in DOMAIN MediaRoutes \/ n \in DOMAIN ReportRoutes \/ n \in DOMAIN AdminRoutes
         => \/ n \in DOMAIN AuthController \/ n \in DOMAIN UserController \/ n \in DOMAIN ChatController
            \/ n \in DOMAIN MessageController \/ n \in DOMAIN GroupController
            \/ n \in DOMAIN AdminController \/ n \in DOMAIN Rest
  BY <1>1, <1>2, <1>3, <1>4, <1>5, <1>6, <1>7, OtherChains, UserRoutesChains, ChatRoutesChains,
     MessageRoutesChains, GroupRoutesChains, MediaRoutesChains, ReportRoutesChains, AdminRoutesChains
<1>12. \A n \in DOMAIN Chain : n \in DOMAIN Joined(T)
  <2>1. \A n \in DOMAIN Chain : n \in UNION {DOMAIN t : t \in {PublicRoutes} \cup ApiRouter}
    BY ChainType
  <2>2. \A n : n \in UNION {DOMAIN t : t \in {PublicRoutes} \cup ApiRouter} => n \in UNION {DOMAIN t : t \in T}
    BY <1>11 DEF ApiRouter
  <2>3. QED BY <1>9, <2>1, <2>2
<1>13. QED BY <1>9, <1>10, <1>12

-----------------------------------------------------------------------------
(* Requests on their way. *)

\* What the chain knows of the requests it handles.
FlowOK ==
    /\ hpc \in [Requests -> HPC]
    /\ req \in [Requests -> Request \cup {NoRequest}]
    /\ \A r \in Requests : req[r] \in IF hpc[r] \in Accepted THEN Request ELSE {NoRequest}
    /\ left \in [Requests -> Seq(Guards)]
    /\ answer \in [Requests -> Statuses \cup {0}]
    /\ \A r \in Requests : hpc[r] = "running" => req[r].route \in DOMAIN Chain

Waits(r, g) == \E i \in DOMAIN left[r] : left[r][i] = g

\* A request whose route asks for a token, or for the role, still has that guard
\* in front of it or was let through by it.
GuardInv ==
    \A r \in Requests : hpc[r] = "running" =>
        /\ Needs(req[r].route, "auth") => Waits(r, "auth") \/ req[r].token \in Users
        /\ Needs(req[r].route, "admin") => Waits(r, "admin") \/ req[r].token \in Admins

\* The requests other than r are left alone.
OthersStay(r) ==
    \A q \in Requests : q # r =>
        /\ hpc'[q] = hpc[q] /\ req'[q] = req[q] /\ left'[q] = left[q] /\ answer'[q] = answer[q]

\* The fields of a request.
LEMMA RequestFields ==
    /\ \A q \in Request : /\ q.client \in Clients /\ q.route \in Routes
                          /\ q.token \in Users \cup {Nobody} /\ q.body \in Bodies
    /\ \A e \in Statuses \cup {SystemError} : StatusOf(e) \in Statuses
BY DEF Request, Statuses, StatusOf, SystemError

\* A request that is answered is out of the chain.
LEMMA AnswerFlow ==
    ASSUME FlowOK, NEW r \in Requests, NEW status \in Statuses, Answer(r, status)
    PROVE  FlowOK' /\ OthersStay(r) /\ hpc'[r] = "answered" /\ answer'[r] = status
<1>1. "answered" \in HPC /\ "answered" \notin Accepted
  BY DEF HPC, Accepted
<1>2. << >> \in Seq(Guards)
  BY EmptySeq
<1>3. /\ hpc' \in [Requests -> HPC] /\ hpc'[r] = "answered"
      /\ req' \in [Requests -> Request \cup {NoRequest}] /\ req'[r] = NoRequest
      /\ left' \in [Requests -> Seq(Guards)]
      /\ answer' \in [Requests -> Statuses \cup {0}] /\ answer'[r] = status
      /\ OthersStay(r)
  BY <1>1, <1>2 DEF FlowOK, Answer, OthersStay
<1>4. \A q \in Requests : /\ req'[q] \in IF hpc'[q] \in Accepted THEN Request ELSE {NoRequest}
                          /\ hpc'[q] = "running" => req'[q].route \in DOMAIN Chain
  BY <1>1, <1>3 DEF FlowOK, OthersStay
<1>5. QED BY <1>3, <1>4 DEF FlowOK

\* A request that is passed on has one guard less in front of it.
LEMMA PassOnFlow ==
    ASSUME FlowOK, NEW r \in Requests, NEW g, At(r, g), PassOn(r)
    PROVE  /\ FlowOK' /\ OthersStay(r)
           /\ hpc' = hpc /\ req' = req
           /\ \A h : h # g /\ Waits(r, h) => Waits(r, h)'
<1>1. /\ left[r] \in Seq(Guards) /\ left[r] # << >> /\ Head(left[r]) = g
      /\ left' = [left EXCEPT ![r] = Tail(left[r])]
      /\ hpc' = hpc /\ req' = req /\ answer' = answer
  BY DEF FlowOK, At, PassOn
<1>2. /\ Tail(left[r]) \in Seq(Guards)
      /\ Len(Tail(left[r])) = Len(left[r]) - 1
      /\ \A i \in 1 .. Len(left[r]) - 1 : Tail(left[r])[i] = left[r][i + 1]
  BY <1>1, HeadTailProperties
<1>3. FlowOK' /\ OthersStay(r)
  BY <1>1, <1>2 DEF FlowOK, OthersStay
<1>4. ASSUME NEW h, h # g, Waits(r, h) PROVE Waits(r, h)'
  <2>1. PICK i \in DOMAIN left[r] : left[r][i] = h
    BY <1>4 DEF Waits
  <2>2. /\ Len(left[r]) \in Nat /\ DOMAIN left[r] = 1 .. Len(left[r])
        /\ DOMAIN Tail(left[r]) = 1 .. Len(left[r]) - 1
    BY <1>1, <1>2, LenProperties
  <2>3. left[r][1] = g
    BY <1>1
  <2>4. i - 1 \in DOMAIN Tail(left[r]) /\ Tail(left[r])[i - 1] = h
    <3>1. i \in 1 .. Len(left[r]) /\ i # 1
      BY <1>4, <2>1, <2>2, <2>3
    <3>2. i - 1 \in 1 .. Len(left[r]) - 1 /\ (i - 1) + 1 = i
      BY <2>2, <3>1
    <3>3. Tail(left[r])[i - 1] = left[r][(i - 1) + 1]
      BY <1>2, <3>2
    <3>4. QED BY <2>1, <2>2, <3>2, <3>3
  <2>5. left'[r] = Tail(left[r])
    BY <1>1 DEF FlowOK
  <2>6. QED BY <2>4, <2>5 DEF Waits
<1>5. QED BY <1>1, <1>3, <1>4

-----------------------------------------------------------------------------
(* The limiters' steps. *)

\* The count of a client with this hit.
HitsNow(l, c) == IF now >= resetAt[l][c] THEN 1 ELSE hits[l][c] + 1

\* The hit is counted, in the window that is open or in one it opens.
Hit(l, c) ==
    /\ hits' = [hits EXCEPT ![l][c] = HitsNow(l, c)]
    /\ resetAt' = IF now >= resetAt[l][c] THEN [resetAt EXCEPT ![l][c] = now + Window] ELSE resetAt

Admit(l, r, c) ==
    /\ Hit(l, c)
    /\ ~(HitsNow(l, c) > Limit[l])
    /\ passed' = passed \cup {[limiter |-> l, client |-> c, r |-> r, time |-> now]}

Deny(l, c) ==
    /\ Hit(l, c)
    /\ UNCHANGED passed

\* What a request does to the limiters.
Limited(r) ==
    /\ UNCHANGED process
    /\ UNCHANGED limits \/ \E l \in Limiters, c \in Clients : Admit(l, r, c) \/ Deny(l, c)

\* The request enters the chain of its route.
Enters(r, q) ==
    /\ q.route \in DOMAIN Chain
    /\ hpc' = [hpc EXCEPT ![r] = "running"]
    /\ req' = [req EXCEPT ![r] = q]
    /\ left' = [left EXCEPT ![r] = Chain[q.route]]
    /\ UNCHANGED answer

\* A request that arrives is answered or enters, and touches no document.
LEMMA ArriveCases ==
    ASSUME NEW r \in Requests, Fresh(r)
    PROVE  /\ hpc[r] = "idle" /\ Limited(r) /\ UNCHANGED <<docs, faults>>
           /\ \/ \E status \in Statuses : Answer(r, status)
              \/ \E q \in Request : Enters(r, q)
<1>1. PICK q \in Request : Arrive(r, q)
  <2>1. \A c \in Clients, n \in Routes, t \in Users \cup {Nobody}, b \in Bodies :
           [client |-> c, route |-> n, token |-> t, body |-> b] \in Request
    BY DEF Request
  <2>2. QED BY <2>1 DEF Fresh
<1>2. q.client \in Clients /\ "global" \in Limiters
  BY RequestFields DEF Limiters
<1>3. /\ hpc[r] = "idle" /\ UNCHANGED <<process, docs, faults>>
      /\ \/ Throw(r, SystemError) /\ UNCHANGED limits
         \/ Admit("global", r, q.client) /\ (Enters(r, q) \/ Answer(r, 404))
         \/ Deny("global", q.client) /\ Throw(r, 429)
  BY <1>1 DEF Arrive, Enters, Count, Exceeds, Admit, Deny, Hit, HitsNow
<1>4. {StatusOf(SystemError), StatusOf(429), 404} \subseteq Statuses
  BY DEF StatusOf, SystemError, Statuses
<1>5. Limited(r)
  BY <1>2, <1>3 DEF Limited
<1>6. (\E status \in Statuses : Answer(r, status)) \/ Enters(r, q)
  BY <1>3, <1>4 DEF Throw
<1>7. QED BY <1>3, <1>5, <1>6

\* A guard lets the request on, having looked at its token or its role if that
\* is what it guards, or the request is answered.
LEMMA GuardCases ==
    ASSUME FlowOK, NEW r \in Requests, Guard(r) \/ AuthenticateFails(r)
    PROVE  /\ hpc[r] = "running" /\ Limited(r) /\ UNCHANGED docs
           /\ \/ \E status \in Statuses : Answer(r, status)
              \/ \E g : /\ At(r, g) /\ PassOn(r)
                        /\ g = "auth" => req[r].token # Nobody
                        /\ g = "admin" => req[r].token \in Admins
<1>0. /\ {StatusOf(401), StatusOf(403), StatusOf(400), StatusOf(429), StatusOf(SystemError)}
             \subseteq Statuses
      /\ "login" \in Limiters /\ "upload" \in Limiters
  BY DEF StatusOf, SystemError, Statuses, Limiters
<1> USE <1>0 DEF Throw, Limited
<1>1. CASE Authenticate(r) \/ AuthenticateFails(r)
  BY <1>1 DEF Authenticate, AuthenticateFails, At
<1>2. CASE RequireAdmin(r)
  BY <1>2 DEF RequireAdmin, At
<1>3. ASSUME NEW l \in {"login", "upload"}, LimitRate(r, l)
      PROVE  /\ hpc[r] = "running" /\ Limited(r) /\ UNCHANGED docs
             /\ (\E status \in Statuses : Answer(r, status)) \/ (At(r, l) /\ PassOn(r))
  <2>1. hpc[r] = "running" /\ At(r, l) /\ UNCHANGED <<process, docs, faults>>
    BY <1>3 DEF LimitRate, At
  <2>2. req[r].client \in Clients
    BY <2>1, RequestFields DEF FlowOK, Accepted
  <2>3. \/ Admit(l, r, req[r].client) /\ PassOn(r)
        \/ Deny(l, req[r].client) /\ Throw(r, 429)
    BY <1>3 DEF LimitRate, Count, Exceeds, Admit, Deny, Hit, HitsNow
  <2>4. Limited(r)
    BY <2>1, <2>2, <2>3
  <2>5. QED BY <2>1, <2>3, <2>4
<1>4. CASE ValidateRequest(r)
  <2>1. At(r, "valid") /\ Limited(r) /\ UNCHANGED docs
    BY <1>4 DEF ValidateRequest
  <2>2. PassOn(r) \/ \E status \in Statuses : Answer(r, status)
    BY <1>4 DEF ValidateRequest
  <2>3. QED BY <2>1, <2>2 DEF At
<1>5. CASE ReceiveFile(r)
  <2>1. At(r, "file") /\ Limited(r) /\ UNCHANGED docs
    BY <1>5 DEF ReceiveFile
  <2>2. PassOn(r) \/ \E status \in Statuses : Answer(r, status)
    BY <1>5 DEF ReceiveFile
  <2>3. QED BY <2>1, <2>2 DEF At
<1>6. QED BY <1>1, <1>2, <1>3, <1>4, <1>5 DEF Guard

\* A handler ends with an answer, and has had its effect on the documents.  If
\* it has failed, the answer is 500.
LEMMA ServeCases ==
    ASSUME FlowOK, NEW r \in Requests, Serve(r) \/ ServeFails(r)
    PROVE  /\ InHandler(r) /\ Limited(r)
           /\ \E effect, status \in Statuses :
                 Effect(r, effect) /\ Answer(r, status) /\ (status = effect \/ status = 500)
<1>1. CASE Serve(r)
  <2>1. InHandler(r) /\ UNCHANGED <<process, limits>>
    BY <1>1 DEF Serve
  <2>2. req[r].route \in DOMAIN Chain
    BY <2>1 DEF InHandler, FlowOK
  <2>3. PICK status \in Outcomes[req[r].route] : Effect(r, status) /\ Answer(r, status)
    BY <1>1 DEF Serve
  <2>4. status \in Statuses
    BY <2>2, OutcomesType
  <2>5. QED BY <2>1, <2>3, <2>4 DEF Limited
<1>2. CASE ServeFails(r)
  <2>1. {200, 201, 500} \subseteq Statuses /\ StatusOf(SystemError) = 500
    BY DEF Statuses, StatusOf, SystemError
  <2>2. PICK effect \in {200, 201, 500} : Effect(r, effect)
    BY <1>2 DEF ServeFails
  <2>3. Answer(r, 500) /\ InHandler(r) /\ UNCHANGED <<process, limits>>
    BY <1>2, <2>1 DEF ServeFails, Rejected, Throw
  <2>4. QED BY <2>1, <2>2, <2>3 DEF Limited
<1>3. QED BY <1>1, <1>2

-----------------------------------------------------------------------------
(* The chain. *)

RequestStep(r) == Fresh(r) \/ Handle(r) \/ Fail(r)

\* A request that enters the chain has all guards of its route in front of it.
LEMMA EnterFlow ==
    ASSUME FlowOK, NEW r \in Requests, NEW q \in Request, Enters(r, q)
    PROVE  FlowOK' /\ OthersStay(r) /\ req'[r] = q /\ left'[r] = Chain[q.route]
<1>1. "running" \in HPC /\ "running" \in Accepted /\ Chain[q.route] \in Seq(Guards)
  BY ChainType DEF HPC, Accepted, Enters
<1>2. /\ hpc' \in [Requests -> HPC] /\ hpc'[r] = "running"
      /\ req' \in [Requests -> Request \cup {NoRequest}] /\ req'[r] = q
      /\ left' \in [Requests -> Seq(Guards)] /\ left'[r] = Chain[q.route]
      /\ answer' \in [Requests -> Statuses \cup {0}]
      /\ OthersStay(r) /\ q.route \in DOMAIN Chain
  BY <1>1 DEF FlowOK, Enters, OthersStay
<1>3. ASSUME NEW s \in Requests
      PROVE  /\ req'[s] \in IF hpc'[s] \in Accepted THEN Request ELSE {NoRequest}
             /\ hpc'[s] = "running" => req'[s].route \in DOMAIN Chain
  <2>1. CASE s = r
    BY <1>1, <1>2, <2>1
  <2>2. CASE s # r
    <3>1. hpc'[s] = hpc[s] /\ req'[s] = req[s]
      BY <1>2, <2>2 DEF OthersStay
    <3>2. QED BY <3>1 DEF FlowOK
  <2>3. QED BY <2>1, <2>2
<1>4. QED BY <1>2, <1>3 DEF FlowOK

\* A request's step leaves the others alone, and keeps what the chain knows of
\* the requests: a guard is only dropped by letting the request through.
LEMMA RequestFlow ==
    ASSUME ApiAssumption, FlowOK, GuardInv, NEW r \in Requests, RequestStep(r)
    PROVE  FlowOK' /\ GuardInv' /\ OthersStay(r) /\ Limited(r)
<1> DEFINE Kept(s) == hpc'[s] = "running" =>
              /\ Needs(req'[s].route, "auth") => Waits(s, "auth")' \/ req'[s].token \in Users
              /\ Needs(req'[s].route, "admin") => Waits(s, "admin")' \/ req'[s].token \in Admins
<1>1. ASSUME OthersStay(r), Kept(r) PROVE GuardInv'
  <2>1. ASSUME NEW s \in Requests, s # r PROVE Kept(s)
    <3>1. hpc'[s] = hpc[s] /\ req'[s] = req[s] /\ left'[s] = left[s]
      BY <1>1, <2>1 DEF OthersStay
    <3>2. QED BY <2>1, <3>1 DEF GuardInv, Waits
  <2>2. \A s \in Requests : Kept(s)
    BY <1>1, <2>1
  <2>3. QED BY <2>2 DEF GuardInv
<1>2. ASSUME NEW status \in Statuses, Answer(r, status) PROVE FlowOK' /\ GuardInv' /\ OthersStay(r)
  BY <1>1, <1>2, AnswerFlow
<1>3. ASSUME NEW q \in Request, Enters(r, q) PROVE FlowOK' /\ GuardInv' /\ OthersStay(r)
  <2>1. FlowOK' /\ OthersStay(r) /\ req'[r] = q /\ left'[r] = Chain[q.route]
    BY <1>3, EnterFlow
  <2>2. Kept(r)
    BY <2>1 DEF Needs, Waits
  <2>3. QED BY <1>1, <2>1, <2>2
<1>4. ASSUME NEW g, At(r, g), PassOn(r),
             g = "auth" => req[r].token # Nobody,
             g = "admin" => req[r].token \in Admins
      PROVE  FlowOK' /\ GuardInv' /\ OthersStay(r)
  <2>1. /\ FlowOK' /\ OthersStay(r) /\ hpc' = hpc /\ req' = req
        /\ \A h : h # g /\ Waits(r, h) => Waits(r, h)'
    BY <1>4, PassOnFlow
  <2>2. hpc[r] = "running" /\ req[r].token \in Users \cup {Nobody}
    BY <1>4, RequestFields DEF At, FlowOK, Accepted
  <2>3. /\ Needs(req[r].route, "auth") => Waits(r, "auth") \/ req[r].token \in Users
        /\ Needs(req[r].route, "admin") => Waits(r, "admin") \/ req[r].token \in Admins
    BY <2>2 DEF GuardInv
  <2>4. Needs(req[r].route, "auth") => Waits(r, "auth")' \/ req[r].token \in Users
    BY <1>4, <2>1, <2>2, <2>3
  <2>5. Needs(req[r].route, "admin") => Waits(r, "admin")' \/ req[r].token \in Admins
    BY <1>4, <2>1, <2>3
  <2>6. Kept(r)
    BY <2>1, <2>4, <2>5
  <2>7. QED BY <1>1, <2>1, <2>6
<1> HIDE DEF Kept
<1>5. CASE Fresh(r)
  BY <1>2, <1>3, <1>5, ArriveCases
<1>6. CASE Guard(r) \/ AuthenticateFails(r)
  BY <1>2, <1>4, <1>6, GuardCases
<1>7. CASE Serve(r) \/ ServeFails(r)
  BY <1>2, <1>7, ServeCases
<1>8. QED BY <1>5, <1>6, <1>7 DEF RequestStep, Handle, Fail

\* So does a step of the process: a crash loses the requests altogether.
LEMMA ProcessFlow ==
    ASSUME FlowOK, GuardInv, Process \/ UNCHANGED vars
    PROVE  FlowOK' /\ GuardInv'
<1>1. CASE UNCHANGED flow
  BY <1>1 DEF flow, FlowOK, GuardInv, Waits
<1>2. CASE Crash
  <2>1. /\ hpc' \in [Requests -> HPC]
        /\ \A r \in Requests : hpc'[r] \notin Accepted
    BY <1>2 DEF Crash, FlowOK, HPC, Accepted, Pending
  <2>2. << >> \in Seq(Guards)
    BY EmptySeq
  <2>3. FlowOK'
    BY <1>2, <2>1, <2>2 DEF Crash, FlowOK, Accepted
  <2>4. GuardInv'
    BY <2>1 DEF GuardInv, Accepted
  <2>5. QED BY <2>3, <2>4
<1>3. QED BY <1>1, <1>2 DEF Process, Boot, BootFails, Terminate, Exit, ClientConnects, ClientLeaves,
                            Tick, vars

-----------------------------------------------------------------------------
(* The handlers' effects. *)

\* Who is served: the token was looked at where the route asks for it.
LEMMA ServedAuthorized ==
    ASSUME ApiAssumption, FlowOK, GuardInv, NEW r \in Requests, InHandler(r)
    PROVE  /\ req[r].route \in {"createReport", "blockUser"} => req[r].token \in Users
           /\ req[r].route \in {"resolveReport", "banUser", "unbanUser"} => req[r].token \in Admins
<1>1. hpc[r] = "running" /\ left[r] = << >> /\ DOMAIN << >> = {}
  BY DEF InHandler
<1>2. ~Waits(r, "auth") /\ ~Waits(r, "admin")
  BY <1>1 DEF Waits
<1>3. QED BY <1>1, <1>2, GuardedRoutes DEF GuardInv

DocsOK ==
    /\ banned \in SUBSET Users
    /\ reports \in [Requests -> ReportStatus \cup {"none"}]
    /\ blocks \in BlockedUsers

\* What a handler does to the documents, by the route.
LEMMA EffectCases ==
    ASSUME DocsOK, NEW r \in Requests, NEW status, Effect(r, status)
    PROVE  /\ banned' # banned => req[r].route \in {"banUser", "unbanUser"}
           /\ \A q \in Requests : reports'[q] # reports[q] =>
                 \/ /\ req[r].route = "createReport" /\ q = r /\ status = 201
                 \/ /\ req[r].route = "resolveReport" /\ reports[q] # "none"
           /\ \A u, w : (<<u, w>> \in blocks) # (<<u, w>> \in blocks') =>
                 req[r].route \in {"blockUser", "unblockUser"} /\ req[r].token = u
<1> USE DEF DocsOK
<1>1. CASE req[r].route = "createReport" /\ CreateReport(r, status) /\ UNCHANGED <<banned, blocks>>
  BY <1>1 DEF CreateReport
<1>2. CASE req[r].route = "resolveReport" /\ ResolveReport(status) /\ UNCHANGED <<banned, blocks>>
  BY <1>2 DEF ResolveReport
<1>3. CASE req[r].route = "blockUser" /\ BlockUser(req[r].token, status) /\ UNCHANGED <<banned, reports>>
  BY <1>3 DEF BlockUser
<1>4. CASE req[r].route = "unblockUser" /\ UnblockUser(req[r].token, status) /\ UNCHANGED <<banned, reports>>
  BY <1>4 DEF UnblockUser
<1>5. CASE req[r].route \in {"banUser", "unbanUser"} /\ UNCHANGED <<reports, blocks>>
  BY <1>5
<1>6. CASE UNCHANGED docs
  BY <1>6 DEF docs
<1>7. QED BY <1>1, <1>2, <1>3, <1>4, <1>5, <1>6 DEF Effect

\* The documents keep their types: who blocks is a user, for the token was
\* looked at.
LEMMA EffectType ==
    ASSUME ApiAssumption, FlowOK, GuardInv, DocsOK,
           NEW r \in Requests, InHandler(r), NEW status, Effect(r, status)
    PROVE  DocsOK'
<1> USE DEF DocsOK, ReportStatus, BlockedUsers
<1>1. CASE CreateReport(r, status) /\ UNCHANGED <<banned, blocks>>
  BY <1>1 DEF CreateReport
<1>2. CASE ResolveReport(status) /\ UNCHANGED <<banned, blocks>>
  BY <1>2 DEF ResolveReport
<1>3. CASE req[r].route = "blockUser" /\ BlockUser(req[r].token, status) /\ UNCHANGED <<banned, reports>>
  <2>1. req[r].token \in Users
    BY <1>3, ServedAuthorized
  <2>2. QED BY <1>3, <2>1 DEF BlockUser
<1>4. CASE UnblockUser(req[r].token, status) /\ UNCHANGED <<banned, reports>>
  BY <1>4 DEF UnblockUser
<1>5. CASE (\E ban \in BOOLEAN : SetBanStatus(ban, status)) /\ UNCHANGED <<reports, blocks>>
  BY <1>5 DEF SetBanStatus
<1>6. CASE UNCHANGED docs
  BY <1>6 DEF docs
<1>7. ASSUME req[r].route \in {"banUser", "unbanUser"},
             SetBanStatus(req[r].route = "banUser", status), UNCHANGED <<reports, blocks>>
      PROVE  DocsOK'
  BY <1>5, <1>7
<1>8. QED BY <1>1, <1>2, <1>3, <1>4, <1>6, <1>7 DEF Effect

-----------------------------------------------------------------------------
(* Type correctness. *)

LimitsOK ==
    /\ now \in 0 .. MaxTime
    /\ hits \in [Limiters -> [Clients -> Nat]]
    /\ resetAt \in [Limiters -> [Clients -> Nat]]
    /\ passed \subseteq Passage

\* The limiters keep their types when a request is counted.
LEMMA LimitedType ==
    ASSUME ApiAssumption, LimitsOK, NEW r \in Requests, Limited(r)
    PROVE  LimitsOK'
<1>1. now' = now /\ now \in Nat /\ Window \in Nat
  BY DEF Limited, process, LimitsOK, ApiAssumption
<1>2. CASE UNCHANGED limits
  BY <1>1, <1>2 DEF limits, LimitsOK
<1>3. ASSUME NEW l \in Limiters, NEW c \in Clients, Admit(l, r, c) \/ Deny(l, c) PROVE LimitsOK'
  <2>1. HitsNow(l, c) \in Nat /\ now + Window \in Nat
    BY <1>1 DEF HitsNow, LimitsOK
  <2>2. Hit(l, c)
    BY <1>3 DEF Admit, Deny
  <2>3. hits' \in [Limiters -> [Clients -> Nat]] /\ resetAt' \in [Limiters -> [Clients -> Nat]]
    BY <2>1, <2>2 DEF Hit, LimitsOK
  <2>4. [limiter |-> l, client |-> c, r |-> r, time |-> now] \in Passage
    BY DEF Passage, LimitsOK
  <2>5. passed' \subseteq Passage
    BY <1>3, <2>4 DEF Admit, Deny, LimitsOK
  <2>6. QED BY <1>1, <2>3, <2>5 DEF LimitsOK
<1>4. QED BY <1>2, <1>3 DEF Limited

\* What a request leaves alone besides.
LEMMA RequestFrame ==
    ASSUME ApiAssumption, faults \in 0 .. MaxFaults, NEW r \in Requests, RequestStep(r)
    PROVE  faults' \in 0 .. MaxFaults /\ UNCHANGED process
<1> USE DEF ApiAssumption, process
<1>1. CASE Fresh(r)
  BY <1>1 DEF Fresh, Arrive
<1>2. CASE Guard(r)
  BY <1>2 DEF Guard, Authenticate, RequireAdmin, LimitRate, ValidateRequest, ReceiveFile
<1>3. CASE Serve(r)
  BY <1>3 DEF Serve
<1>4. CASE Fail(r)
  BY <1>4 DEF Fail, AuthenticateFails, ServeFails
<1>5. QED BY <1>1, <1>2, <1>3, <1>4 DEF RequestStep, Handle

\* That who blocks is a user rests on the chain: the type of the blocks is only
\* invariant together with GuardInv.
ApiInv == TypeOK /\ FlowOK /\ GuardInv

\* Every variable keeps its type, and no request gets past a guard of its route.
LEMMA Inductive == Spec => []ApiInv
<1> USE ApiAssumption
<1>1. ASSUME Init PROVE ApiInv
  <2>1. << >> \in Seq(Guards) /\ "idle" \in HPC /\ "idle" \notin Accepted
    BY EmptySeq DEF HPC, Accepted
  <2>2. FlowOK /\ GuardInv
    BY <1>1, <2>1 DEF Init, FlowOK, GuardInv
  <2>3. DocsOK
    BY <1>1 DEF Init, DocsOK, BlockedUsers
  <2>4. LimitsOK /\ faults \in 0 .. MaxFaults
    BY <1>1 DEF Init, LimitsOK, NoHits, ApiAssumption
  <2>5. server \in {"starting", "up", "closing", "down"} /\ connected \in BOOLEAN
    BY <1>1 DEF Init
  <2>6. QED BY <2>2, <2>3, <2>4, <2>5 DEF ApiInv, TypeOK, FlowOK, DocsOK, LimitsOK
<1>2. ASSUME ApiInv, [Next]_vars PROVE ApiInv'
  <2>1. FlowOK /\ GuardInv /\ DocsOK /\ LimitsOK /\ faults \in 0 .. MaxFaults
    BY <1>2 DEF ApiInv, TypeOK, DocsOK, LimitsOK
  <2>2. server \in {"starting", "up", "closing", "down"} /\ connected \in BOOLEAN
    BY <1>2 DEF ApiInv, TypeOK
  <2>3. ASSUME FlowOK', GuardInv', DocsOK', LimitsOK', faults' \in 0 .. MaxFaults,
               server' \in {"starting", "up", "closing", "down"}, connected' \in BOOLEAN
        PROVE  ApiInv'
    BY <2>3 DEF ApiInv, TypeOK, FlowOK, DocsOK, LimitsOK
  <2>4. ASSUME NEW r \in Requests, RequestStep(r) PROVE ApiInv'
    <3>1. FlowOK' /\ GuardInv' /\ Limited(r)
      BY <2>1, <2>4, RequestFlow
    <3>2. LimitsOK'
      BY <2>1, <3>1, LimitedType
    <3>3. DocsOK'
      <4>1. CASE UNCHANGED docs
        BY <2>1, <4>1 DEF docs, DocsOK
      <4>2. CASE Serve(r) \/ ServeFails(r)
        BY <2>1, <4>2, ServeCases, EffectType
      <4>3. QED BY <2>1, <2>4, <4>1, <4>2, ArriveCases, GuardCases DEF RequestStep, Handle, Fail
    <3>4. QED BY <2>1, <2>2, <2>3, <2>4, <3>1, <3>2, <3>3, RequestFrame DEF process
  <2>5. CASE Process \/ UNCHANGED vars
    <3>1. FlowOK' /\ GuardInv'
      BY <2>1, <2>5, ProcessFlow
    <3>2. DocsOK'
      BY <2>1, <2>5 DEF DocsOK, docs, vars, Process, Boot, BootFails, Terminate, Exit, Crash,
         ClientConnects, ClientLeaves, Tick
    <3>3. LimitsOK'
      <4>1. CASE UNCHANGED limits /\ now' \in {now, now + 1} /\ now' \in 0 .. MaxTime
        BY <2>1, <4>1 DEF LimitsOK, limits
      <4>2. CASE hits' = NoHits /\ resetAt' = NoHits /\ passed' = {} /\ now' = now
        BY <2>1, <4>2 DEF LimitsOK, NoHits
      <4>3. QED BY <2>1, <2>5, <4>1, <4>2 DEF vars, process, Process, Boot, BootFails, Terminate, Exit, Crash,
                      Stop, ClientConnects, ClientLeaves, Tick, LimitsOK, ApiAssumption
    <3>4. faults' \in 0 .. MaxFaults
      BY <2>1, <2>5 DEF vars, Process, Boot, BootFails, Terminate, Exit, Crash,
         ClientConnects, ClientLeaves, Tick, ApiAssumption
    <3>5. server' \in {"starting", "up", "closing", "down"} /\ connected' \in BOOLEAN
      BY <2>2, <2>5 DEF vars, process, Process, Boot, BootFails, Terminate, Exit, Crash, Stop,
         ClientConnects, ClientLeaves, Tick
    <3>6. QED BY <2>3, <3>1, <3>2, <3>3, <3>4, <3>5
  <2>6. QED BY <1>2, <2>4, <2>5 DEF Next, RequestStep
<1>3. QED BY <1>1, <1>2, PTL DEF Spec

-----------------------------------------------------------------------------
(* Authorisation and refusals. *)

\* A report is stored only by the request that made it, which was then
\* answered, and not with 4xx.
ReportInv ==
    \A r \in Requests : reports[r] # "none" => hpc[r] = "answered" /\ answer[r] \notin 400 .. 499

\* Every step preserves it.
LEMMA ReportStep ==
    ASSUME ApiAssumption, ApiInv, ReportInv, [Next]_vars
    PROVE  ReportInv'
<1> USE DEF ReportInv
<1>0. FlowOK /\ GuardInv /\ DocsOK
  BY DEF ApiInv, TypeOK, DocsOK
<1>1. ASSUME NEW r \in Requests, OthersStay(r), hpc[r] \in {"idle", "running"},
             \A q \in Requests : q # r /\ reports'[q] # "none" => reports[q] # "none",
             reports'[r] # "none" => hpc'[r] = "answered" /\ answer'[r] \notin 400 .. 499
      PROVE  ReportInv'
  BY <1>1 DEF OthersStay
<1>2. ASSUME NEW r \in Requests, RequestStep(r), UNCHANGED docs, hpc[r] \in {"idle", "running"}
      PROVE  ReportInv'
  <2>1. OthersStay(r)
    BY <1>0, <1>2, RequestFlow
  <2>2. reports[r] = "none" /\ reports' = reports
    BY <1>2 DEF docs
  <2>3. QED BY <1>1, <1>2, <2>1, <2>2
<1>3. ASSUME NEW r \in Requests, Serve(r) \/ ServeFails(r) PROVE ReportInv'
  <2>1. PICK effect \in Statuses, status \in Statuses :
           InHandler(r) /\ Effect(r, effect) /\ Answer(r, status) /\ (status = effect \/ status = 500)
    BY <1>0, <1>3, ServeCases
  <2>2. OthersStay(r) /\ hpc'[r] = "answered" /\ answer'[r] = status
    BY <1>0, <2>1, AnswerFlow
  <2>3. hpc[r] = "running" /\ reports[r] = "none"
    BY <2>1 DEF InHandler
  <2>4. /\ \A q \in Requests : q # r /\ reports'[q] # "none" => reports[q] # "none"
        /\ reports'[r] # "none" => effect = 201
    BY <1>0, <2>1, <2>3, EffectCases
  <2>5. effect = 201 => status \notin 400 .. 499
    BY <2>1
  <2>6. QED BY <1>1, <2>2, <2>3, <2>4, <2>5
<1>4. CASE Process \/ UNCHANGED vars
  <2>1. CASE UNCHANGED <<reports, hpc, answer>>
    BY <2>1
  <2>2. CASE Crash
    <3>1. /\ UNCHANGED <<reports, answer>>
          /\ \A r \in Requests : hpc[r] = "answered" => hpc'[r] = "answered"
      BY <2>2 DEF Crash, docs, Pending, Accepted
    <3>2. QED BY <3>1
  <2>3. QED BY <1>4, <2>1, <2>2 DEF vars, docs, flow, Process, Boot, BootFails, Terminate, Exit,
                                   ClientConnects, ClientLeaves, Tick
<1>5. QED
  <2>1. ASSUME NEW r \in Requests, RequestStep(r) PROVE ReportInv'
    BY <1>0, <1>2, <1>3, <2>1, ArriveCases, GuardCases DEF RequestStep, Handle, Fail
  <2>2. QED BY <1>4, <2>1 DEF Next, RequestStep

\* Reports are stored for nobody else, and not before the answer.
LEMMA ReportsKept == Spec => []ReportInv
<1>1. Init => ReportInv
  BY DEF Init, ReportInv
<1>2. ApiInv /\ ReportInv /\ [Next]_vars => ReportInv'
  BY ApiAssumption, ReportStep
<1>3. QED BY <1>1, <1>2, Inductive, PTL DEF Spec

\* A client that is told its request was wrong may repeat it: nothing was stored.
THEOREM RefusalsLeaveNoTrace == Spec => []RefusedLeavesNoTrace
<1>1. ReportInv => RefusedLeavesNoTrace
  BY DEF ReportInv, RefusedLeavesNoTrace
<1>2. QED BY <1>1, ReportsKept, PTL

\* What a handler does to the documents when it ends, it does for a token the
\* chain of its route asks for: GuardInv at its end says that no guard is left.
LEMMA ServedEffects ==
    ASSUME ApiAssumption, ApiInv, ReportInv, NEW r \in Requests, Serve(r) \/ ServeFails(r)
    PROVE  /\ \A q \in Requests : reports'[q] # reports[q] =>
                 IF reports[q] = "none" THEN Serving({"createReport"}, Users)
                 ELSE Serving({"resolveReport"}, Admins)
           /\ banned' # banned => Serving({"banUser", "unbanUser"}, Admins)
           /\ \A u, w \in Users : (<<u, w>> \in blocks) # (<<u, w>> \in blocks') =>
                 Serving({"blockUser", "unblockUser"}, {u})
<1>0. FlowOK /\ GuardInv /\ DocsOK
  BY DEF ApiInv, TypeOK, DocsOK
<1>1. PICK effect \in Statuses, status \in Statuses :
         InHandler(r) /\ Effect(r, effect) /\ Answer(r, status)
  BY <1>0, ServeCases
<1>2. InHandler(r) /\ hpc'[r] = "answered"
  BY <1>0, <1>1, AnswerFlow
<1>3. /\ req[r].route = "createReport" => req[r].token \in Users
      /\ req[r].route \in {"resolveReport", "banUser", "unbanUser"} => req[r].token \in Admins
  BY <1>0, <1>2, ServedAuthorized
<1>4. reports[r] = "none"
  BY <1>2 DEF InHandler, ReportInv
<1>5. \A route, who : req[r].route \in route /\ req[r].token \in who => Serving(route, who)
  BY <1>2 DEF Serving
<1>6. ASSUME NEW q \in Requests, reports'[q] # reports[q]
      PROVE  IF reports[q] = "none" THEN Serving({"createReport"}, Users)
             ELSE Serving({"resolveReport"}, Admins)
  <2>1. \/ req[r].route = "createReport" /\ q = r
        \/ req[r].route = "resolveReport" /\ reports[q] # "none"
    BY <1>0, <1>1, <1>6, EffectCases
  <2>2. CASE req[r].route = "createReport" /\ q = r
    BY <1>3, <1>4, <1>5, <2>2
  <2>3. CASE req[r].route = "resolveReport" /\ reports[q] # "none"
    BY <1>3, <1>5, <2>3
  <2>4. QED BY <2>1, <2>2, <2>3
<1>7. ASSUME banned' # banned PROVE Serving({"banUser", "unbanUser"}, Admins)
  <2>1. req[r].route \in {"banUser", "unbanUser"}
    BY <1>0, <1>1, <1>7, EffectCases
  <2>2. QED BY <1>3, <1>5, <2>1
<1>8. ASSUME NEW u \in Users, NEW w \in Users, (<<u, w>> \in blocks) # (<<u, w>> \in blocks')
      PROVE  Serving({"blockUser", "unblockUser"}, {u})
  <2>1. req[r].route \in {"blockUser", "unblockUser"} /\ req[r].token = u
    BY <1>0, <1>1, <1>8, EffectCases
  <2>2. QED BY <1>5, <2>1
<1>9. QED BY <1>6, <1>7, <1>8

\* Reports, bans and blocks change only while a request to their route ends that
\* carries the token the route asks for.
THEOREM EffectsAreAuthorized == Spec => EffectsAuthorized
<1> USE ApiAssumption
<1> DEFINE Authorized ==
             /\ \A r \in Requests : reports'[r] # reports[r] =>
                   IF reports[r] = "none" THEN Serving({"createReport"}, Users)
                   ELSE Serving({"resolveReport"}, Admins)
             /\ banned' # banned => Serving({"banUser", "unbanUser"}, Admins)
             /\ \A u, w \in Users : (<<u, w>> \in blocks) # (<<u, w>> \in blocks') =>
                   Serving({"blockUser", "unblockUser"}, {u})
<1>1. ASSUME ApiInv, ReportInv, [Next]_vars PROVE [Authorized]_vars
  <2>1. ASSUME UNCHANGED docs PROVE Authorized
    BY <2>1 DEF docs
  <2>2. ASSUME NEW r \in Requests, Serve(r) \/ ServeFails(r) PROVE Authorized
    BY <1>1, <2>2, ServedEffects
  <2> HIDE DEF Authorized
  <2>3. FlowOK
    BY <1>1 DEF ApiInv
  <2>4. ASSUME NEW r \in Requests, RequestStep(r) PROVE Authorized
    <3>1. CASE Fresh(r) \/ Guard(r) \/ AuthenticateFails(r)
      <4>1. UNCHANGED docs
        BY <2>3, <3>1, ArriveCases, GuardCases
      <4>2. QED BY <2>1, <4>1
    <3>2. CASE Serve(r) \/ ServeFails(r)
      BY <2>2, <3>2
    <3>3. QED BY <2>4, <3>1, <3>2 DEF RequestStep, Handle, Fail
  <2>5. CASE Process \/ UNCHANGED vars
    <3>1. UNCHANGED docs
      BY <2>5 DEF vars, Process, Boot, BootFails, Terminate, Exit, Crash,
         ClientConnects, ClientLeaves, Tick
    <3>2. QED BY <2>1, <3>1
  <2>6. QED BY <1>1, <2>4, <2>5 DEF Next, RequestStep
<1>2. QED BY <1>1, Inductive, ReportsKept, PTL DEF Spec, EffectsAuthorized

-----------------------------------------------------------------------------
(* The rate limiters. *)

\* The passes of a client through a limiter, and those of them in a span.
Mine(l, c) == {p \in passed : p.limiter = l /\ p.client = c}
Between(P, from, to) == {p \in P : from <= p.time /\ p.time < to}

\* A client's passes P at second n, its count h in the window that ends at t, and
\* the limit m.  Its passes end with its window, which is not ahead of the clock.
\* A window that opens has fewer than the limit behind it, as far as they are not
\* older than a window, for the hit that has opened the one before is; and so has
\* the one that is open, after its first second.
Fits(P, n, h, t, m) ==
    /\ IsFiniteSet(P)
    /\ \A p \in P : p.time < t /\ p.time <= n
    /\ t <= n + Window
    /\ h = 0 => t = 0
    /\ Cardinality(Between(P, t - Window - Window + 1, t - Window)) < m
    /\ h > 0 =>
        /\ Cardinality(Between(P, t - Window + 1, t)) < m
        /\ Cardinality(Between(P, t - Window + 1, t)) < h
        /\ Cardinality(Between(P, t - Window, t)) <= m
        /\ Cardinality(Between(P, t - Window, t)) <= h

WindowInv ==
    \A l \in Limiters, c \in Clients : Fits(Mine(l, c), now, hits[l][c], resetAt[l][c], Limit[l])
\* Fewer passes do not count more.
LEMMA FewerBetween ==
    ASSUME NEW P, IsFiniteSet(P), NEW from, NEW to
    PROVE  /\ IsFiniteSet(Between(P, from, to)) /\ Cardinality(Between(P, from, to)) \in Nat
           /\ \A Q \in SUBSET Between(P, from, to) :
                 /\ IsFiniteSet(Q) /\ Cardinality(Q) \in Nat
                 /\ Cardinality(Q) <= Cardinality(Between(P, from, to))
<1>1. Between(P, from, to) \in SUBSET P
  BY DEF Between
<1>2. IsFiniteSet(Between(P, from, to))
  BY <1>1, FS_Subset
<1>3. \A Q \in SUBSET Between(P, from, to) :
         IsFiniteSet(Q) /\ Cardinality(Q) <= Cardinality(Between(P, from, to))
  BY <1>2, FS_Subset
<1>4. QED BY <1>2, <1>3, FS_CardinalityType

\* A hit that is let through while the window is open.
LEMMA FitsAdmitted ==
    ASSUME ApiAssumption, NEW P, NEW n \in Nat, NEW h \in Nat, NEW t \in Nat, NEW m \in Nat \ {0},
           Fits(P, n, h, t, m), \A x \in P : x.time \in Nat,
           n < t, h + 1 <= m, NEW p, p.time = n
    PROVE  Fits(P \cup {p}, n, h + 1, t, m)
<1> DEFINE Q == P \cup {p}
           A(S) == Between(S, t - Window - Window + 1, t - Window)
           B(S) == Between(S, t - Window + 1, t)
           C(S) == Between(S, t - Window, t)
<1>1. Window \in Nat \ {0} /\ IsFiniteSet(P) /\ t <= n + Window /\ h > 0
  BY DEF ApiAssumption, Fits
<1>2. A(Q) = A(P)
  BY <1>1 DEF Between
<1>3. B(Q) \subseteq B(P) \cup {p} /\ C(Q) \subseteq C(P) \cup {p}
  BY DEF Between
<1>4. ASSUME NEW S, IsFiniteSet(S), NEW R, R \subseteq S \cup {p}
      PROVE  Cardinality(R) \in Nat /\ Cardinality(S) \in Nat /\ Cardinality(R) <= Cardinality(S) + 1
  <2>1. /\ IsFiniteSet(S \cup {p}) /\ Cardinality(S) \in Nat
        /\ Cardinality(S \cup {p}) \in {Cardinality(S), Cardinality(S) + 1}
    BY <1>4, FS_AddElement, FS_CardinalityType
  <2>2. IsFiniteSet(R) /\ Cardinality(R) <= Cardinality(S \cup {p})
    BY <1>4, <2>1, FS_Subset
  <2>3. Cardinality(R) \in Nat
    BY <2>2, FS_CardinalityType
  <2>4. QED BY <2>1, <2>2, <2>3
<1>5. IsFiniteSet(B(P)) /\ IsFiniteSet(C(P)) /\ IsFiniteSet(Q)
  BY <1>1, FewerBetween, FS_AddElement
<1>6. /\ Cardinality(B(Q)) \in Nat /\ Cardinality(B(P)) \in Nat
      /\ Cardinality(C(Q)) \in Nat /\ Cardinality(C(P)) \in Nat
      /\ Cardinality(B(Q)) <= Cardinality(B(P)) + 1
      /\ Cardinality(C(Q)) <= Cardinality(C(P)) + 1
  BY <1>3, <1>4, <1>5
<1>7. /\ Cardinality(A(P)) < m
      /\ Cardinality(B(P)) < h /\ Cardinality(C(P)) <= h
  BY <1>1 DEF Fits
<1>8. \A x \in Q : x.time < t /\ x.time <= n
  BY DEF Fits
<1> HIDE DEF A, B, C, Q
<1>9. /\ Cardinality(A(Q)) < m
      /\ Cardinality(B(Q)) < m /\ Cardinality(B(Q)) < h + 1
      /\ Cardinality(C(Q)) <= m /\ Cardinality(C(Q)) <= h + 1
  BY <1>2, <1>6, <1>7
<1>10. Fits(Q, n, h + 1, t, m)
  BY <1>1, <1>5, <1>8, <1>9 DEF Fits, A, B, C
<1>11. QED BY <1>10 DEF Q
\* A hit that is refused while the window is open.
LEMMA FitsDenied ==
    ASSUME NEW P, NEW n \in Nat, NEW h \in Nat, NEW t \in Nat, NEW m \in Nat \ {0},
           Fits(P, n, h, t, m), n < t
    PROVE  Fits(P, n, h + 1, t, m)
<1> DEFINE B == Cardinality(Between(P, t - Window + 1, t))
           C == Cardinality(Between(P, t - Window, t))
<1>1. B \in Nat /\ C \in Nat
  BY FewerBetween DEF Fits
<1>2. h > 0 /\ B < m /\ B < h /\ C <= m /\ C <= h
  BY DEF Fits
<1> HIDE DEF B, C
<1>3. B < m /\ B < h + 1 /\ C <= m /\ C <= h + 1 /\ h + 1 # 0
  BY <1>1, <1>2
<1>4. QED BY <1>3 DEF Fits, B, C

\* A hit that opens a window; the passes are those there were, and this one.
LEMMA FitsOpened ==
    ASSUME ApiAssumption, NEW P, NEW n \in Nat, NEW h \in Nat, NEW t \in Nat, NEW m \in Nat \ {0},
           Fits(P, n, h, t, m), \A x \in P : x.time \in Nat,
           n >= t, NEW p, p.time = n
    PROVE  Fits(P, n, 1, n + Window, m) /\ Fits(P \cup {p}, n, 1, n + Window, m)
<1> SUFFICES ASSUME NEW Q \in {P, P \cup {p}} PROVE Fits(Q, n, 1, n + Window, m)
  OBVIOUS
<1>1. Window \in Nat \ {0} /\ IsFiniteSet(P)
  BY DEF ApiAssumption, Fits
<1>2. \A x \in P : x.time < t /\ x.time < n
  BY DEF Fits
<1>3. IsFiniteSet(Q)
  BY <1>1, FS_AddElement
<1> DEFINE A == Between(Q, n + Window - Window - Window + 1, n + Window - Window)
           B == Between(Q, n + Window - Window + 1, n + Window)
           C == Between(Q, n + Window - Window, n + Window)
           Last == Between(P, t - Window + 1, t)
<1>4. A \subseteq Last /\ B = {} /\ C \subseteq {p}
  BY <1>1, <1>2 DEF Between
<1>5. Cardinality(A) < m
  <2>1. CASE h = 0
    <3>1. t = 0 /\ P = {}
      BY <1>2, <2>1 DEF Fits
    <3>2. A = {}
      BY <1>4, <3>1 DEF Between
    <3>3. QED BY <3>2, FS_EmptySet
  <2>2. CASE h > 0
    <3>1. Cardinality(Last) < m
      BY <2>2 DEF Fits
    <3>2. /\ Cardinality(Last) \in Nat /\ Cardinality(A) \in Nat
          /\ Cardinality(A) <= Cardinality(Last)
      BY <1>1, <1>4, FewerBetween
    <3>3. QED BY <3>1, <3>2
  <2>3. QED BY <2>1, <2>2
<1>6. Cardinality(B) = 0
  BY <1>4, FS_EmptySet
<1>7. Cardinality(C) \in Nat /\ Cardinality(C) <= 1
  <2>1. IsFiniteSet({p}) /\ Cardinality({p}) = 1
    BY FS_Singleton
  <2>2. IsFiniteSet(C) /\ Cardinality(C) <= 1
    BY <1>4, <2>1, FS_Subset
  <2>3. QED BY <2>2, FS_CardinalityType
<1>8. \A x \in Q : x.time < n + Window /\ x.time <= n
  BY <1>1, <1>2
<1> HIDE DEF A, B, C, Last
<1>9. 1 > 0 /\ 1 # 0 /\ n + Window <= n + Window /\ Cardinality(B) < m /\ Cardinality(B) < 1 /\ Cardinality(C) <= m
  BY <1>1, <1>6, <1>7
<1>10. QED BY <1>3, <1>5, <1>7, <1>8, <1>9 DEF Fits, A, B, C
\* No hits and no passes.
LEMMA FitsEmpty ==
    ASSUME ApiAssumption, NEW n \in Nat, NEW m \in Nat \ {0}
    PROVE  Fits({}, n, 0, 0, m)
<1> DEFINE A == Between({}, 0 - Window - Window + 1, 0 - Window)
<1>1. A = {}
  BY DEF Between
<1> HIDE DEF A
<1>2. Cardinality(A) < m /\ IsFiniteSet({}) /\ 0 <= n + Window /\ ~(0 > 0)
  BY <1>1, FS_EmptySet DEF ApiAssumption
<1>3. QED BY <1>2 DEF Fits, A

\* The limiters' types, client by client.
LEMMA LimitFields ==
    ASSUME ApiAssumption, LimitsOK
    PROVE  /\ now \in Nat /\ Window \in Nat
           /\ \A l \in Limiters, c \in Clients :
                 /\ hits[l][c] \in Nat /\ resetAt[l][c] \in Nat /\ Limit[l] \in Nat \ {0}
                 /\ \A x \in Mine(l, c) : x.time \in Nat
<1>1. now \in Nat /\ Window \in Nat /\ \A l \in Limiters : Limit[l] \in Nat \ {0}
  BY DEF LimitsOK, ApiAssumption
<1>2. \A l \in Limiters, c \in Clients : hits[l][c] \in Nat /\ resetAt[l][c] \in Nat
  BY DEF LimitsOK
<1>3. \A x \in Passage : x.time \in Nat
  BY DEF Passage, ApiAssumption
<1>4. \A l, c : \A x \in Mine(l, c) : x.time \in Nat
  BY <1>3 DEF LimitsOK, Mine
<1>5. QED BY <1>1, <1>2, <1>4

\* A hit of a client moves its window and those of no other.
LEMMA WindowHit ==
    ASSUME ApiAssumption, LimitsOK, WindowInv, NEW r \in Requests,
           NEW l \in Limiters, NEW c \in Clients, Admit(l, r, c) \/ Deny(l, c), UNCHANGED now
    PROVE  WindowInv'
<1> DEFINE p == [limiter |-> l, client |-> c, r |-> r, time |-> now]
<1>1. /\ now \in Nat /\ Window \in Nat
      /\ \A k \in Limiters, d \in Clients :
            /\ hits[k][d] \in Nat /\ resetAt[k][d] \in Nat /\ Limit[k] \in Nat \ {0}
            /\ \A x \in Mine(k, d) : x.time \in Nat
            /\ Fits(Mine(k, d), now, hits[k][d], resetAt[k][d], Limit[k])
  BY LimitFields DEF WindowInv
<1>2. Hit(l, c) /\ passed' \in {passed, passed \cup {p}}
  BY DEF Admit, Deny
<1>3. /\ \A k \in Limiters, d \in Clients : k # l \/ d # c =>
            hits'[k][d] = hits[k][d] /\ resetAt'[k][d] = resetAt[k][d]
      /\ hits'[l][c] = HitsNow(l, c)
      /\ resetAt'[l][c] = IF now >= resetAt[l][c] THEN now + Window ELSE resetAt[l][c]
  BY <1>2 DEF Hit, LimitsOK
<1>4. ASSUME NEW k \in Limiters, NEW d \in Clients, k # l \/ d # c
      PROVE  Fits(Mine(k, d)', now', hits'[k][d], resetAt'[k][d], Limit[k])
  <2>1. Mine(k, d)' = Mine(k, d)
    BY <1>2, <1>4 DEF Mine
  <2>2. QED BY <1>1, <1>3, <1>4, <2>1
<1>5. Mine(l, c)' \in {Mine(l, c), Mine(l, c) \cup {p}} /\ p.time = now
  BY <1>2 DEF Mine
<1>6. Deny(l, c) => Mine(l, c)' = Mine(l, c)
  BY DEF Deny, Mine
<1>7. Admit(l, r, c) => Mine(l, c)' = Mine(l, c) \cup {p} /\ HitsNow(l, c) <= Limit[l]
  <2>1. HitsNow(l, c) \in Nat
    BY <1>1 DEF HitsNow
  <2>2. QED BY <1>1, <2>1 DEF Admit, Mine
<1> HIDE DEF p
<1>8. Fits(Mine(l, c)', now', hits'[l][c], resetAt'[l][c], Limit[l])
  <2>1. CASE now >= resetAt[l][c]
    <3>1. hits'[l][c] = 1 /\ resetAt'[l][c] = now + Window
      BY <1>3, <2>1 DEF HitsNow
    <3>2. /\ Fits(Mine(l, c), now, 1, now + Window, Limit[l])
          /\ Fits(Mine(l, c) \cup {p}, now, 1, now + Window, Limit[l])
      BY <1>1, <1>5, <2>1, FitsOpened
    <3>3. QED BY <1>5, <3>1, <3>2
  <2>2. CASE now < resetAt[l][c]
    <3>1. hits'[l][c] = hits[l][c] + 1 /\ resetAt'[l][c] = resetAt[l][c] /\ HitsNow(l, c) = hits[l][c] + 1
      BY <1>1, <1>3, <2>2 DEF HitsNow
    <3>2. CASE Admit(l, r, c)
      BY <1>1, <1>5, <1>7, <2>2, <3>1, <3>2, FitsAdmitted
    <3>3. CASE Deny(l, c)
      BY <1>1, <1>6, <2>2, <3>1, <3>3, FitsDenied
    <3>4. QED BY <3>2, <3>3
  <2>3. QED BY <1>1, <2>1, <2>2
<1>9. \A k \in Limiters, d \in Clients : Fits(Mine(k, d)', now', hits'[k][d], resetAt'[k][d], Limit[k])
  BY <1>4, <1>8
<1>10. QED BY <1>9 DEF WindowInv

\* No window is ahead of the clock by more than its length, and few passes are
\* behind it: every step keeps it so.
LEMMA WindowStep ==
    ASSUME ApiAssumption, ApiInv, WindowInv, [Next]_vars
    PROVE  WindowInv'
<1>0. FlowOK /\ GuardInv /\ LimitsOK
  BY DEF ApiInv, TypeOK, LimitsOK
<1>1. CASE UNCHANGED <<limits, now>>
  <2>1. \A l, c : Mine(l, c)' = Mine(l, c)
    BY <1>1 DEF limits, Mine
  <2>2. QED BY <1>1, <2>1 DEF limits, WindowInv
<1>2. CASE UNCHANGED limits /\ now' = now + 1
  <2>1. /\ now \in Nat /\ Window \in Nat
        /\ \A l \in Limiters, c \in Clients :
              resetAt[l][c] \in Nat /\ \A x \in Mine(l, c) : x.time \in Nat
    BY <1>0, LimitFields
  <2>2. ASSUME NEW l \in Limiters, NEW c \in Clients
        PROVE  /\ \A x \in Mine(l, c) : x.time <= now + 1
               /\ resetAt[l][c] <= now + 1 + Window
               /\ Fits(Mine(l, c), now, hits[l][c], resetAt[l][c], Limit[l])
    <3>1. Fits(Mine(l, c), now, hits[l][c], resetAt[l][c], Limit[l])
      BY DEF WindowInv
    <3>2. QED BY <2>1, <3>1 DEF Fits
  <2>3. \A l \in Limiters, c \in Clients : Fits(Mine(l, c), now + 1, hits[l][c], resetAt[l][c], Limit[l])
    BY <2>2 DEF Fits
  <2>4. \A l, c : Mine(l, c)' = Mine(l, c)
    BY <1>2 DEF limits, Mine
  <2>5. QED BY <1>2, <2>3, <2>4 DEF limits, WindowInv
<1>3. CASE hits' = NoHits /\ resetAt' = NoHits /\ passed' = {} /\ now' = now
  <2>1. \A l \in Limiters, c \in Clients : NoHits[l][c] = 0 /\ Mine(l, c)' = {}
    BY <1>3 DEF NoHits, Mine
  <2>2. \A l \in Limiters, c \in Clients : Fits({}, now, 0, 0, Limit[l])
    BY <1>0, LimitFields, FitsEmpty
  <2>3. QED BY <1>3, <2>1, <2>2 DEF WindowInv
<1>4. ASSUME NEW r \in Requests, RequestStep(r) PROVE WindowInv'
  <2>1. Limited(r)
    BY <1>0, <1>4, RequestFlow
  <2>2. UNCHANGED now
    BY <2>1 DEF Limited, process
  <2>3. CASE UNCHANGED limits
    BY <1>1, <2>2, <2>3
  <2>4. QED BY <1>0, <2>1, <2>2, <2>3, WindowHit DEF Limited
<1>5. CASE Process \/ UNCHANGED vars
  BY <1>1, <1>2, <1>3, <1>5 DEF vars, process, Process, Boot, BootFails, Terminate, Exit, Crash, Stop,
     ClientConnects, ClientLeaves, Tick
<1>6. QED BY <1>4, <1>5 DEF Next, RequestStep

\* In any span as long as a window, a client gets no more requests through a
\* limiter than two windows that touch allow, less one, as long as the process lives.
THEOREM LimitIsHeld == Spec => []LimitHeld
<1> USE ApiAssumption
<1>1. ASSUME Init PROVE WindowInv
  <2>1. /\ now = 0
        /\ \A l \in Limiters, c \in Clients :
              hits[l][c] = 0 /\ resetAt[l][c] = 0 /\ Mine(l, c) = {} /\ Limit[l] \in Nat \ {0}
    BY <1>1 DEF Init, NoHits, Mine, ApiAssumption
  <2>2. \A l \in Limiters : Fits({}, 0, 0, 0, Limit[l])
    BY FitsEmpty DEF ApiAssumption
  <2>3. QED BY <2>1, <2>2 DEF WindowInv
<1>2. ApiInv /\ WindowInv /\ [Next]_vars => WindowInv'
  BY WindowStep
<1>3. ASSUME ApiInv, WindowInv PROVE LimitHeld
  <2> SUFFICES ASSUME NEW l \in Limiters, NEW c \in Clients
               PROVE  Cardinality({x \in passed : x.limiter = l /\ x.client = c /\ x.time > now - Window})
                          <= 2 * Limit[l] - 1
    BY DEF LimitHeld
  <2> DEFINE P == Mine(l, c)
             t == resetAt[l][c]
             Recent == {x \in passed : x.limiter = l /\ x.client = c /\ x.time > now - Window}
             Before == Between(P, t - Window - Window + 1, t - Window)
             Within == Between(P, t - Window, t)
  <2>1. /\ now \in Nat /\ Window \in Nat \ {0} /\ t \in Nat /\ Limit[l] \in Nat \ {0}
        /\ hits[l][c] \in Nat /\ \A x \in P : x.time \in Nat
    BY <1>3 DEF ApiInv, TypeOK, ApiAssumption, Mine, Passage
  <2>2. Fits(P, now, hits[l][c], t, Limit[l])
    BY <1>3 DEF WindowInv
  <2>3. Recent \subseteq Before \cup Within
    <3>1. \A x \in P : x.time < t
      BY <2>2 DEF Fits
    <3>2. t <= now + Window
      BY <2>2 DEF Fits
    <3>3. Recent \subseteq P
      BY DEF Mine
    <3>4. QED BY <2>1, <3>1, <3>2, <3>3 DEF Between
  <2>4. /\ IsFiniteSet(Before) /\ Cardinality(Before) \in Nat /\ Cardinality(Before) < Limit[l]
        /\ IsFiniteSet(Within) /\ Cardinality(Within) \in Nat
    BY <2>2, FewerBetween DEF Fits
  <2>5. Cardinality(Within) <= Limit[l]
    <3>1. CASE hits[l][c] = 0
      <4>1. P = {}
        BY <2>1, <2>2, <3>1 DEF Fits
      <4>2. Within = {}
        BY <4>1 DEF Between
      <4>3. Cardinality(Within) = 0
        BY <4>2, FS_EmptySet
      <4> HIDE DEF Within
      <4>4. QED BY <2>1, <4>3
    <3>2. CASE hits[l][c] > 0
      BY <2>2, <3>2 DEF Fits
    <3>3. QED BY <2>1, <3>1, <3>2
  <2> HIDE DEF Before, Within, Recent
  <2>6. IsFiniteSet(Before \cup Within) /\ Cardinality(Before \cup Within) <= Cardinality(Before) + Cardinality(Within)
    <3>1. Before \cap Within \in SUBSET Before
      OBVIOUS
    <3>2. IsFiniteSet(Before \cap Within)
      BY <2>4, <3>1, FS_Subset
    <3>3. Cardinality(Before \cap Within) \in Nat
      BY <3>2, FS_CardinalityType
    <3>4. /\ IsFiniteSet(Before \cup Within)
          /\ Cardinality(Before \cup Within)
                 = Cardinality(Before) + Cardinality(Within) - Cardinality(Before \cap Within)
      BY <2>4, FS_Union
    <3>5. QED BY <2>4, <3>3, <3>4
  <2>7. /\ Cardinality(Recent) <= Cardinality(Before \cup Within) /\ Cardinality(Recent) \in Nat
        /\ Cardinality(Before \cup Within) \in Nat
    BY <2>3, <2>6, FS_Subset, FS_CardinalityType
  <2>8. Cardinality(Recent) <= 2 * Limit[l] - 1
    BY <2>1, <2>4, <2>5, <2>6, <2>7
  <2>9. QED BY <2>8 DEF Recent
<1>4. QED BY <1>1, <1>2, <1>3, Inductive, PTL DEF Spec

\* Every variable keeps its type.
THEOREM TypeCorrect == Spec => []TypeOK
<1>1. ApiInv => TypeOK
  BY DEF ApiInv
<1>2. QED BY <1>1, Inductive, PTL
=============================================================================
