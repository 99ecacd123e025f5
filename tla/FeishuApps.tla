----------------------------- MODULE FeishuApps -----------------------------
(***************************************************************************)
(* The Feishu applications of a server (lark/project_app.rs): the table of *)
(* applications, the bindings of projects, the client made at the start    *)
(* for the default application, the cache of the other clients, and the    *)
(* calls that resolve a client.                                            *)
(*                                                                         *)
(* A version stands for what one write of a row sets together: app_id, the *)
(* encrypted secret and updated_at.  Version 0 is the row that does not    *)
(* exist yet; nothing deletes an application.  The encryption of secrets   *)
(* and its key id are left out.  The module describes one process; what    *)
(* other processes do to the tables are the same statements.               *)
(***************************************************************************)
EXTENDS Integers, FiniteSets

CONSTANTS
    Apps,       \* the rows of xingtu_feishu_app
    NoApp,      \* no application: NULL, or no binding
    Default,    \* DEFAULT_FEISHU_APP_ID; NoApp if the default comes from the environment
    Projects,
    Actors,     \* the concurrent requests and workflow tasks that need a client
    MaxEdits    \* bound: writes of administrators and restarts

ASSUME AppsAssumption ==
    /\ NoApp \notin Apps
    /\ Default \in Apps \cup {NoApp}
    /\ MaxEdits \in Nat

VARIABLES
    app,        \* the rows: version and is_active
    binding,    \* xingtu_project_feishu_app_binding
    request,    \* the administrator's request between its check and its write
    boot,       \* the version the default client was made from
    clients,    \* the cache: the version each client was made from, 0 for none
    forgets,    \* replaced rows whose client is still to be removed
    call,       \* the client each actor resolves
    edits

appVars == <<app, binding, request, boot, clients, forgets, call, edits>>

Versions == 0 .. MaxEdits + 1
AppOrNone == Apps \cup {NoApp}
Exists(a) == app[a].version > 0

-----------------------------------------------------------------------------
(* Administration *)

NoRequest == [kind |-> "none"]

\* The rows that lock_active_app holds FOR SHARE until the commit.
Locked(a) == request.kind \in {"bind", "bindNotice"} /\ request.app = a

Edit == /\ edits < MaxEdits
        /\ edits' = edits + 1

CreateApp(a) ==
    /\ Edit
    /\ ~Exists(a)
    /\ app' = [app EXCEPT ![a] = [version |-> 1, active |-> TRUE]]
    /\ UNCHANGED <<binding, request, boot, clients, forgets, call>>

ReplaceApp(a, active) ==
    /\ Edit
    /\ Exists(a) /\ ~Locked(a)
    /\ app' = [app EXCEPT ![a] = [version |-> @.version + 1, active |-> active]]
    /\ forgets' = forgets \cup ({a} \ {Default})
    /\ UNCHANGED <<binding, request, boot, clients, call>>

\* The handler of ReplaceApp removes the client afterwards, if it is not
\* dropped and runs in this process; the default client is not in the cache.
ForgetClient(a) ==
    /\ a \in forgets
    /\ clients' = [clients EXCEPT ![a] = 0]
    /\ forgets' = forgets \ {a}
    /\ UNCHANGED <<app, binding, request, boot, call, edits>>

\* Mutant: the row is read without a lock.
LockActiveAppUnlocked(kind, p, a) ==
    /\ Exists(a) /\ app[a].active
    /\ request' = [kind |-> kind, project |-> p, app |-> NoApp, wanted |-> a]

\* lock_active_app: the row is read and locked for both kinds of binding.
LockActiveApp(kind, p, a) ==
    /\ Exists(a) /\ app[a].active
    /\ request' = [kind |-> kind, project |-> p, app |-> a, wanted |-> a]

BeginBind(kind, p, a) ==
    /\ Edit
    /\ request = NoRequest
    /\ LockActiveApp(kind, p, a)
    /\ UNCHANGED <<app, binding, boot, clients, forgets, call>>

CommitBind ==
    /\ request.kind = "bind"
    /\ binding' = [binding EXCEPT ![request.project] = request.wanted]
    /\ request' = NoRequest
    /\ UNCHANGED <<app, boot, clients, forgets, call, edits>>

\* A request fails or its handler is dropped before it has written anything;
\* its edit is not counted.
AbortRequest ==
    /\ request # NoRequest
    /\ request' = NoRequest
    /\ edits' = edits - 1
    /\ UNCHANGED <<app, binding, boot, clients, forgets, call>>

UnbindProject(p) ==
    /\ Edit
    /\ binding[p] # NoApp
    /\ binding' = [binding EXCEPT ![p] = NoApp]
    /\ UNCHANGED <<app, request, boot, clients, forgets, call>>

-----------------------------------------------------------------------------
(* Resolving a client *)

NoCall == [pc |-> "idle", app |-> NoApp, row |-> 0, version |-> 0, floor |-> 0]

\* client_for_feishu_app up to its first statement, and the unbound project of
\* resolved_client_for_project: the default client is handed out as it is.
\* floor is the version of the row at this moment.
Resolve(a) ==
    IF a \in {NoApp, Default}
      THEN [NoCall EXCEPT !.pc = "ready", !.app = Default, !.version = boot]
      ELSE [NoCall EXCEPT !.pc = "row", !.app = a, !.floor = app[a].version]

Failed == [NoCall EXCEPT !.pc = "failed"]

ReadRow(k) ==
    /\ call[k].pc = "row"
    /\ LET a == call[k].app
       IN  call' = [call EXCEPT ![k] =
                     IF Exists(a) /\ app[a].active
                       THEN [@ EXCEPT !.pc = "look", !.row = app[a].version]
                       ELSE Failed]
    /\ UNCHANGED <<app, binding, request, boot, clients, forgets, edits>>

\* Mutant: any client of the application will do.
HitAny(k) == clients[call[k].app] # 0

\* The cached client has the app_id and the updated_at of the row just read.
Hit(k) == clients[call[k].app] = call[k].row

LookUpClient(k) ==
    /\ call[k].pc = "look"
    /\ call' = [call EXCEPT ![k] =
                 IF Hit(k)
                   THEN [@ EXCEPT !.pc = "ready", !.version = clients[call[k].app], !.row = 0]
                   ELSE [@ EXCEPT !.pc = "insert"]]
    /\ UNCHANGED <<app, binding, request, boot, clients, forgets, edits>>

InsertClient(k) ==
    /\ call[k].pc = "insert"
    /\ clients' = [clients EXCEPT ![call[k].app] = call[k].row]
    /\ call' = [call EXCEPT ![k] = [@ EXCEPT !.pc = "ready", !.version = call[k].row, !.row = 0]]
    /\ UNCHANGED <<app, binding, request, boot, forgets, edits>>

-----------------------------------------------------------------------------
(* The start of the process *)

\* from_env does not start with a default application that is switched off.
FromEnv == Default = NoApp \/ (Exists(Default) /\ app[Default].active)
BootVersion == IF Default = NoApp THEN 0 ELSE app[Default].version

RestartApps ==
    /\ Edit
    /\ FromEnv
    /\ boot' = BootVersion
    /\ clients' = [a \in Apps |-> 0]
    /\ forgets' = {}
    /\ request' = NoRequest
    /\ call' = [k \in Actors |-> NoCall]
    /\ UNCHANGED <<app, binding>>

InitApps ==
    /\ app \in [Apps -> {[version |-> 0, active |-> TRUE], [version |-> 1, active |-> TRUE]}]
    /\ FromEnv
    /\ binding = [p \in Projects |-> NoApp]
    /\ request = NoRequest
    /\ boot = BootVersion
    /\ clients = [a \in Apps |-> 0]
    /\ forgets = {}
    /\ call = [k \in Actors |-> NoCall]
    /\ edits = 0

\* The steps that concern the applications alone.
AppStep ==
    \/ \E a \in Apps : CreateApp(a) \/ ForgetClient(a)
    \/ \E a \in Apps, active \in BOOLEAN : ReplaceApp(a, active)
    \/ \E p \in Projects, a \in Apps, kind \in {"bind", "bindNotice"} : BeginBind(kind, p, a)
    \/ CommitBind
    \/ AbortRequest
    \/ \E p \in Projects : UnbindProject(p)
    \/ \E k \in Actors : ReadRow(k) \/ LookUpClient(k) \/ InsertClient(k)

-----------------------------------------------------------------------------
(* Properties *)

AppsTypeOK ==
    /\ app \in [Apps -> [version : Versions, active : BOOLEAN]]
    /\ binding \in [Projects -> AppOrNone]
    /\ boot \in Versions
    /\ clients \in [Apps -> Versions]
    /\ forgets \subseteq Apps
    /\ \A k \in Actors :
          /\ call[k].pc \in {"idle", "row", "look", "insert", "ready", "failed"}
          /\ call[k].app \in AppOrNone
          /\ {call[k].row, call[k].version, call[k].floor} \subseteq Versions
    /\ edits \in 0 .. MaxEdits

\* A client of an application other than the default one is made from a row
\* that was current at some moment of the call (client_for_feishu_app), however
\* replacements, their removals from the cache and late insertions interleave:
\* it is not older than the row was when the call began, and not newer than it is.
ClientsAreCurrent ==
    \A k \in Actors :
       call[k].pc = "ready" /\ call[k].app # Default =>
          call[k].version \in call[k].floor .. app[call[k].app].version

\* A project is only ever bound to an application that is active at that very
\* moment (bind_project with lock_active_app FOR SHARE), whatever replaces run.
BindingsAreActive ==
    [][\A p \in Projects :
          binding'[p] \notin {binding[p], NoApp} => app[binding'[p]].active]_appVars
=============================================================================
