--------------------------- MODULE LoginSessions ---------------------------
(***************************************************************************)
(* Logins, sessions and the projects that an application opens             *)
(* (server/login.rs, server/auth.rs, server/admin.rs): the login of a user *)
(* through an application of Feishu, the login with the long-lived token   *)
(* of an application, the sessions, and what a request with a session may  *)
(* do while administrators change all of this.                             *)
(*                                                                         *)
(* Signatures, hashes and the data of users are left out.  Time only       *)
(* passes as states and sessions that run out.  NoApp is the default       *)
(* application, which has no feishu_app_id in a session.                   *)
(***************************************************************************)
EXTENDS Integers

CONSTANTS
    Apps,       \* the rows of xingtu_feishu_app
    NoApp,
    Default,    \* DEFAULT_FEISHU_APP_ID; NoApp if the default comes from the environment
    Projects,
    Flows,      \* concurrent attempts to log in
    Sessions, NoSession,
    Requests,   \* concurrent requests
    Admins,     \* concurrent replacements of the access list
    MaxEdits    \* bound: changes by administrators, logins and requests

ASSUME LoginsAssumption ==
    /\ NoApp \notin Apps /\ Default \in Apps \cup {NoApp}
    /\ NoSession \notin Sessions
    /\ MaxEdits \in Nat

VARIABLES
    active,     \* the applications that are switched on
    token,      \* xingtu_feishu_app_login_token: version 0 is no row
    access,     \* xingtu_feishu_app_project_access: "none" is no row
    replacing,  \* the transactions that replace an access list
    flow,       \* the attempts to log in
    session,    \* auth_session
    request,    \* the requests
    edits

vars == <<active, token, access, replacing, flow, session, request, edits>>

Rights == {"none", "view", "manage"}
AppOrDefault == Apps \cup {NoApp}

Edit == /\ edits < MaxEdits
        /\ edits' = edits + 1

-----------------------------------------------------------------------------
(* What a request may do *)

NoRights == [p \in Projects |-> "none"]
NoCould  == [p \in Projects |-> {}]
NoRequest == [pc |-> "idle", actor |-> "login", route |-> "data", session |-> NoSession,
              rights |-> NoRights, could |-> NoCould, late |-> FALSE]

\* A request that goes on, with what it knows and the rights it has now.
With(r, pc, rights) == [pc |-> pc, actor |-> r.actor, route |-> r.route, session |-> r.session,
                        rights |-> rights, could |-> r.could, late |-> r.late]

IsDefaultAdmin(q) ==
    \/ q.actor = "admin"
    \/ q.actor = "login" /\ session[q.session].app = NoApp

CanQueryAll(q) == IsDefaultAdmin(q) \/ q.actor = "internal"
CanViewProject(q, p) == CanQueryAll(q) \/ q.rights[p] # "none"
CanManageProject(q, p) == IsDefaultAdmin(q) \/ q.rights[p] = "manage"

\* What may be presented on a route: the token of the browser extension only
\* where it uploads the session of Xingtu, a session of a user nowhere there,
\* and nothing else to end a session.
MayPresent(actor, route) ==
    CASE route = "upload"  -> actor \in {"admin", "extension"}
      [] route = "session" -> actor = "login"
      [] route = "data"    -> actor # "extension"
      [] OTHER             -> actor \in {"admin", "login"}

MayServe(q, p, write) == IF write THEN CanManageProject(q, p) ELSE CanViewProject(q, p)
MayServeAll(q, write) == IF write THEN IsDefaultAdmin(q) ELSE CanQueryAll(q)

\* What a list is cut down to.
VisibleProjects(q) == IF q.actor = "login" /\ session[q.session].app # NoApp
                        THEN {p \in Projects : q.rights[p] # "none"} ELSE Projects

\* load_project_permissions; the default application has no rows.
PermissionsOf(a) == IF a = NoApp THEN NoRights ELSE access[a]

\* Mutant: the permissions are those of another application.
LoadedAnyones(s) == PermissionsOf(CHOOSE a \in Apps : a # session[s].app)

Loaded(s) == PermissionsOf(session[s].app)

\* could collects what the access list said since the request began.
Watched(q, acc) ==
    IF q.pc \in {"auth", "rights"} /\ session[q.session].app # NoApp
      THEN [pc |-> q.pc, actor |-> q.actor, route |-> q.route, session |-> q.session,
            rights |-> q.rights, late |-> q.late,
            could |-> [p \in Projects |-> q.could[p] \cup {acc[session[q.session].app][p]}]]
      ELSE q

-----------------------------------------------------------------------------
(* Administration *)

\* valid is whether what the attempt rests on has held since the call began.
TokenIs(a, v, tok, act) == tok[a].version = v /\ tok[a].active /\ act[a]

StillValid(f, tok, act) ==
    [pc |-> f.pc, app |-> f.app, version |-> f.version,
     valid |-> \/ f.valid
               \/ /\ f.pc \in {"token", "app", "issue"}
                  /\ f.app \in Apps
                  /\ act[f.app]
                  /\ f.version = 0 \/ TokenIs(f.app, f.version, tok, act)]

SwitchApp(a) ==
    /\ Edit
    /\ active' = [active EXCEPT ![a] = ~@]
    /\ flow' = [f \in Flows |-> StillValid(flow[f], token, active')]
    /\ UNCHANGED <<token, access, replacing, session, request>>

\* ensure_non_default_app
MayHaveToken(a) == a # Default

\* A rotation makes the token valid again, with a new hash.
Rotated(a) == [version |-> token[a].version + 1, active |-> TRUE]

RotateToken(a) ==
    /\ Edit
    /\ MayHaveToken(a)
    /\ token' = [token EXCEPT ![a] = Rotated(a)]
    /\ flow' = [f \in Flows |-> StillValid(flow[f], token', active)]
    /\ UNCHANGED <<active, access, replacing, session, request>>

RevokeToken(a) ==
    /\ Edit
    /\ MayHaveToken(a) /\ token[a].version > 0
    /\ token' = [token EXCEPT ![a] = [version |-> token[a].version, active |-> FALSE]]
    /\ UNCHANGED <<active, access, replacing, flow, session, request>>

NoReplace == [app |-> NoApp, seen |-> {}, wanted |-> NoRights]

\* replace_feishu_app_project_access up to its DELETE, which takes the rows
\* that are committed when it starts.
BeginReplace(k, a, wanted) ==
    /\ Edit
    /\ replacing[k] = NoReplace
    /\ replacing' = [replacing EXCEPT ![k] =
                       [app |-> a, seen |-> {p \in Projects : access[a][p] # "none"},
                        wanted |-> wanted]]
    /\ UNCHANGED <<active, token, access, flow, session, request>>

Inserted(r) == {p \in Projects : r.wanted[p] # "none"}

\* A row that another replacement has inserted since is not deleted, and its
\* project cannot be inserted a second time.
CommitReplace(k) ==
    LET r == replacing[k]
    IN  /\ r # NoReplace
        /\ \A p \in Inserted(r) : access[r.app][p] # "none" => p \in r.seen
        /\ access' = [access EXCEPT ![r.app] =
                        [p \in Projects |-> IF p \in Inserted(r) \cup r.seen THEN r.wanted[p]
                                                                             ELSE @[p]]]
        /\ replacing' = [j \in Admins |->
                           IF j = k THEN NoReplace
                           ELSE IF replacing[j].app = r.app
                             THEN [app |-> r.app, seen |-> replacing[j].seen \ Inserted(r),
                                   wanted |-> replacing[j].wanted]
                           ELSE replacing[j]]
        /\ request' = [q \in Requests |-> Watched(request[q], access')]
        /\ UNCHANGED <<active, token, flow, session, edits>>

AbortReplace(k) ==
    /\ replacing[k] # NoReplace
    /\ replacing' = [replacing EXCEPT ![k] = NoReplace]
    /\ edits' = edits - 1
    /\ UNCHANGED <<active, token, access, flow, session, request>>

-----------------------------------------------------------------------------
(* Logging in *)

Flow(pc, a, v, valid) == [pc |-> pc, app |-> a, version |-> v, valid |-> valid]
NoFlow == Flow("idle", NoApp, 0, FALSE)

\* The attempt goes on, with what it knows.
GoesOn(f, pc) == Flow(pc, flow[f].app, flow[f].version, flow[f].valid)

\* resolve_login_app: the default application is the one read at the start.
LoginApp(a) == IF a = Default THEN NoApp ELSE a
MayLogIn(a) == a # NoApp => active[a]

\* authorize signs a state that names the application.
Authorize(f, a) ==
    /\ Edit
    /\ flow[f] = NoFlow
    /\ MayLogIn(LoginApp(a))
    /\ flow' = [flow EXCEPT ![f] = Flow("state", LoginApp(a), 0, FALSE)]
    /\ UNCHANGED <<active, token, access, replacing, session, request>>

\* Mutant: the callback trusts the state for the application.
ResolvedFromState(a) == TRUE

\* The callback reads the application again.
Resolved(a) == MayLogIn(a)

\* The callback, with a state not older than ten minutes.
Callback(f) ==
    /\ flow[f].pc = "state"
    /\ flow' = [flow EXCEPT ![f] =
                  IF Resolved(flow[f].app)
                    THEN Flow("exchange", flow[f].app, 0, MayLogIn(flow[f].app)) ELSE NoFlow]
    /\ UNCHANGED <<active, token, access, replacing, session, request, edits>>

\* Feishu exchanges the code and names the user.
ExchangeCode(f) ==
    /\ flow[f].pc = "exchange"
    /\ flow' = [flow EXCEPT ![f] = GoesOn(f, "issue")]
    /\ UNCHANGED <<active, token, access, replacing, session, request, edits>>

\* A login with a token that was handed out once: the current one or an older
\* one.
BeginTokenLogin(f, a, v) ==
    /\ Edit
    /\ flow[f] = NoFlow
    /\ v \in 1 .. token[a].version
    /\ flow' = [flow EXCEPT ![f] = Flow("token", a, v, TokenIs(a, v, token, active))]
    /\ UNCHANGED <<active, token, access, replacing, session, request>>

\* The statement that finds the token by its hash.
CheckToken(f) ==
    /\ flow[f].pc = "token"
    /\ flow' = [flow EXCEPT ![f] =
                  IF TokenIs(flow[f].app, flow[f].version, token, active)
                    THEN GoesOn(f, "app") ELSE NoFlow]
    /\ UNCHANGED <<active, token, access, replacing, session, request, edits>>

\* login_app reads the application once more.
ReadLoginApp(f) ==
    /\ flow[f].pc = "app"
    /\ flow' = [flow EXCEPT ![f] = IF active[flow[f].app] THEN GoesOn(f, "issue") ELSE NoFlow]
    /\ UNCHANGED <<active, token, access, replacing, session, request, edits>>

IssueSession(f, s) ==
    /\ flow[f].pc = "issue"
    /\ session[s].status = "none"
    /\ session' = [session EXCEPT ![s] = [status |-> "live", app |-> flow[f].app]]
    /\ flow' = [flow EXCEPT ![f] = NoFlow]
    /\ UNCHANGED <<active, token, access, replacing, request, edits>>

\* The user does not come back in time, Feishu refuses, or the call fails.
AbandonLogin(f) ==
    /\ flow[f] # NoFlow
    /\ flow' = [flow EXCEPT ![f] = NoFlow]
    /\ edits' = edits - 1
    /\ UNCHANGED <<active, token, access, replacing, session, request>>

-----------------------------------------------------------------------------
(* Requests *)

\* A request presents a token of the configuration, or a session.
BeginRequest(q, actor, route, s) ==
    /\ Edit
    /\ request[q] = NoRequest
    /\ (actor = "login") = (s # NoSession)
    /\ s # NoSession => session[s].status # "none"
    /\ MayPresent(actor, route)
    /\ LET new == [pc |-> IF actor = "login" THEN "auth" ELSE "act", actor |-> actor,
                   route |-> route, session |-> s, rights |-> NoRights, could |-> NoCould,
                   late |-> actor = "login" /\ session[s].status = "over"]
       IN  request' = [request EXCEPT ![q] = Watched(new, access)]
    /\ UNCHANGED <<active, token, access, replacing, flow, session>>

\* Mutant: the end of a session is what its JWT says.
IsLiveByClaims(s) == session[s].status # "none"

IsLive(s) == session[s].status = "live"

\* authenticate_jwt, its statement on the session.
Authenticate(q) ==
    /\ request[q].pc = "auth"
    /\ request' = [request EXCEPT ![q] = IF IsLive(request[q].session)
                                           THEN With(request[q], "rights", NoRights)
                                           ELSE NoRequest]
    /\ UNCHANGED <<active, token, access, replacing, flow, session, edits>>

\* The permissions are read for each request; a route of the default
\* application only refuses other sessions.
LoadPermissions(q) ==
    LET r == request[q]
    IN  /\ r.pc = "rights"
        /\ request' = [request EXCEPT ![q] =
                         IF r.route = "default" /\ session[r.session].app # NoApp
                           THEN NoRequest
                           ELSE With(r, "act", Loaded(r.session))]
        /\ UNCHANGED <<active, token, access, replacing, flow, session, edits>>

Done(q) == /\ request' = [request EXCEPT ![q] = NoRequest]
           /\ UNCHANGED <<active, token, access, replacing, flow, session, edits>>

\* The handlers behind the permissions, not the upload and the logout.
Working(q) == request[q].pc = "act" /\ request[q].route \notin {"upload", "session"}

\* The handler runs to its end for a project, or for a period or a content of
\* one, that it may view or manage.
Serve(q, p, write) ==
    /\ Working(q)
    /\ MayServe(request[q], p, write)
    /\ Done(q)

\* A request that names no project.
ServeAll(q, write) ==
    /\ Working(q)
    /\ MayServeAll(request[q], write)
    /\ Done(q)

\* A list shows the projects it is cut down to, if there are any.
ServeList(q) ==
    /\ Working(q)
    /\ VisibleProjects(request[q]) # {}
    /\ Done(q)

\* upsert_xingtu_session, which touches none of this.
Upload(q) ==
    /\ request[q].pc = "act" /\ request[q].route = "upload"
    /\ Done(q)

Refuse(q) ==
    /\ request[q] # NoRequest
    /\ request' = [request EXCEPT ![q] = NoRequest]
    /\ edits' = edits - 1
    /\ UNCHANGED <<active, token, access, replacing, flow, session>>

Ended(s) == session' = [session EXCEPT ![s] = [status |-> "over", app |-> session[s].app]]

Logout(q) ==
    /\ request[q].pc = "act" /\ request[q].route = "session"
    /\ Ended(request[q].session)
    /\ request' = [request EXCEPT ![q] = NoRequest]
    /\ UNCHANGED <<active, token, access, replacing, flow, edits>>

\* Seven days have passed.
ExpireSession(s) ==
    /\ session[s].status = "live"
    /\ Ended(s)
    /\ UNCHANGED <<active, token, access, replacing, flow, request, edits>>

-----------------------------------------------------------------------------
\* Applications are there, one of them with a session; nothing is open.
Init ==
    /\ active = [a \in Apps |-> TRUE]
    /\ token = [a \in Apps |-> [version |-> 0, active |-> FALSE]]
    /\ access \in [Apps -> [Projects -> {"none", "view"}]]
    /\ replacing = [k \in Admins |-> NoReplace]
    /\ flow = [f \in Flows |-> NoFlow]
    /\ session = [s \in Sessions |-> [status |-> "none", app |-> NoApp]]
    /\ request = [q \in Requests |-> NoRequest]
    /\ edits = 0

AdminStep ==
    \/ \E a \in Apps : SwitchApp(a) \/ RotateToken(a) \/ RevokeToken(a)
    \/ \E k \in Admins, a \in Apps, wanted \in [Projects -> Rights] : BeginReplace(k, a, wanted)
    \/ \E k \in Admins : CommitReplace(k) \/ AbortReplace(k)

LoginStep ==
    \/ \E f \in Flows, a \in AppOrDefault : Authorize(f, a)
    \/ \E f \in Flows, a \in Apps, v \in 1 .. MaxEdits : BeginTokenLogin(f, a, v)
    \/ \E f \in Flows :
          Callback(f) \/ ExchangeCode(f) \/ CheckToken(f) \/ ReadLoginApp(f) \/ AbandonLogin(f)
    \/ \E f \in Flows, s \in Sessions : IssueSession(f, s)

RequestStep ==
    \/ \E q \in Requests, actor \in {"admin", "internal", "extension", "login"},
          route \in {"data", "management", "default", "session", "upload"}, s \in Sessions \cup {NoSession} :
          BeginRequest(q, actor, route, s)
    \/ \E q \in Requests : Authenticate(q) \/ LoadPermissions(q) \/ Upload(q) \/ Refuse(q) \/ Logout(q)
    \/ \E q \in Requests, p \in Projects, write \in BOOLEAN : Serve(q, p, write)
    \/ \E q \in Requests, write \in BOOLEAN : ServeAll(q, write)
    \/ \E q \in Requests : ServeList(q)
    \/ \E s \in Sessions : ExpireSession(s)

Next == AdminStep \/ LoginStep \/ RequestStep

Spec == Init /\ [][Next]_vars

-----------------------------------------------------------------------------
(* Properties *)

\* Types; a token belongs to an application other than the default one, and a
\* session is of the default application or of another, never of its row.
TypeOK ==
    /\ active \in [Apps -> BOOLEAN]
    /\ token \in [Apps -> [version : Nat, active : BOOLEAN]]
    /\ Default \in Apps => token[Default].version = 0
    /\ access \in [Apps -> [Projects -> Rights]]
    /\ session \in [Sessions -> [status : {"none", "live", "over"},
                                 app : (Apps \ {Default}) \cup {NoApp}]]
    /\ \A f \in Flows :
          /\ flow[f].pc \in {"idle", "state", "exchange", "token", "app", "issue"}
          /\ flow[f].app \in AppOrDefault
          /\ flow[f].version \in Nat
    /\ \A q \in Requests :
          /\ request[q].pc \in {"idle", "auth", "rights", "act"}
          /\ request[q].rights \in [Projects -> Rights]
    /\ edits \in Int /\ edits <= MaxEdits

\* What a request of a session may view or manage is what the access list of
\* its application said at some moment of the request
\* (load_project_permissions): a change counts for sessions that exist, and
\* nothing of an earlier request is left over.  A list shows no more than that.
RightsAreLive ==
    \A q \in Requests : \A p \in Projects :
       LET r == request[q]
       IN  r.pc = "act" /\ r.actor = "login" /\ session[r.session].app # NoApp =>
              /\ CanViewProject(r, p) \/ p \in VisibleProjects(r)
                    => r.could[p] \cap {"view", "manage"} # {}
              /\ CanManageProject(r, p) => "manage" \in r.could[p]

\* Once a session has been logged out or has run out, no request that begins
\* afterwards gets as far as its permissions (authenticate_jwt), however long
\* its JWT would be good for.
EndedSessionsStayOut ==
    \A q \in Requests : request[q].pc \in {"rights", "act"} => ~request[q].late

\* A login ends in a session only if the application was switched on, and the
\* token if there is one was the application's valid one, at some moment of
\* the call that ends it: not when the user was sent to Feishu
\* (callback, login_with_app_token).
LoginsAreCurrent == \A f \in Flows : flow[f].pc = "issue" => flow[f].valid
=============================================================================
