---------------------------- MODULE ProjectSetup ----------------------------
(***************************************************************************)
(* The set-up of projects: projects, Xingtu accounts, periods and their    *)
(* contents, written by administrators (server/admin.rs), by the import of *)
(* a configuration file and by exports (xingtu/activity_config.rs).        *)
(*                                                                         *)
(* A transaction of an administrator locks the row of its project first,   *)
(* so it is two steps here: the lock with the checks, and the commit.  The *)
(* status of a period is changed by one statement without that lock, and   *)
(* the file import does not take it either.  A sheet is named after the    *)
(* task it was exported for; addresses typed in by hand, names, dates and  *)
(* the rules of the synchronisation are left out.                          *)
(***************************************************************************)
EXTENDS Integers, FiniteSets, Sequences

CONSTANTS
    Projects, Accounts, Periods, Tasks,
    NoProject, NoAccount, NoPeriod, NoTask,
    Actors,     \* concurrent requests
    MaxEdits    \* bound: requests and exports that change something

ASSUME SetupAssumption ==
    /\ NoProject \notin Projects /\ NoAccount \notin Accounts
    /\ NoPeriod \notin Periods /\ NoTask \notin Tasks
    /\ MaxEdits \in Nat

Types == {"live", "video"}

VARIABLES
    project,    \* xingtu_project: "none" until it is created
    account,    \* xingtu_project_account: the key is the account alone
    period,     \* xingtu_activity_period
    content,    \* xingtu_activity_content_config: a row for a period and a type
    request,    \* the transaction each actor has open
    export,     \* the content whose sheet is being exported
    edits

vars == <<project, account, period, content, request, export, edits>>

AccountRows == [project : Projects \cup {NoProject}, active : BOOLEAN, default : BOOLEAN]
PeriodRows  == [project : Projects \cup {NoProject}, account : Accounts \cup {NoAccount},
                active : BOOLEAN]
ContentRows == [task : Tasks \cup {NoTask}, sync : BOOLEAN, sheet : Tasks \cup {NoTask}]

NoContent == [task |-> NoTask, sync |-> FALSE, sheet |-> NoTask]
NoRequest == [kind |-> "idle"]

Edit == /\ edits < MaxEdits
        /\ edits' = edits + 1

\* Mutant: the row of the project is read without FOR UPDATE.
UnlockedAlways(p) == TRUE

\* lock_project, for which a transaction waits.
Unlocked(p) ==
    \A k \in Actors :
       request[k].kind \in {"project", "account", "period"} => request[k].project # p

AccountsOf(p) == {a \in Accounts : account[a].project = p}
RunningPeriods(p) == {q \in Periods : period[q].project = p /\ period[q].active}

-----------------------------------------------------------------------------
(* Projects *)

CreateProject(p, status) ==
    /\ Edit
    /\ project[p] = "none"
    /\ project' = [project EXCEPT ![p] = status]
    /\ UNCHANGED <<account, period, content, request, export>>

BeginUpdateProject(k, p, status) ==
    /\ Edit
    /\ request[k] = NoRequest
    /\ project[p] # "none" /\ Unlocked(p)
    /\ status = "disabled" => RunningPeriods(p) = {}
    /\ request' = [request EXCEPT ![k] = [kind |-> "project", project |-> p, status |-> status]]
    /\ UNCHANGED <<project, account, period, content, export>>

CommitProject(k) ==
    /\ request[k].kind = "project"
    /\ project' = [project EXCEPT ![request[k].project] = request[k].status]
    /\ request' = [request EXCEPT ![k] = NoRequest]
    /\ UNCHANGED <<account, period, content, export, edits>>

-----------------------------------------------------------------------------
(* Accounts *)

\* The row that the transaction will write for an account that is in project
\* old, and whether the project's other defaults are cleared before.
Write(k, p, old, a, active, default, clear) ==
    request' = [request EXCEPT ![k] =
                 [kind |-> "account", project |-> p, old |-> old, account |-> a, clear |-> clear,
                  row |-> [project |-> p, active |-> active, default |-> default]]]

HasDefault(p) == \E a \in AccountsOf(p) : account[a].default

\* Mutant: an account is the default if the request says so.
MakesDefaultOnRequest(p, wanted) == wanted

\* The first account of a project becomes its default whatever is asked.
MakesDefault(p, wanted) == wanted \/ ~HasDefault(p)

BeginCreateAccount(k, p, a, active, wanted) ==
    /\ Edit
    /\ request[k] = NoRequest
    /\ project[p] = "active" /\ Unlocked(p)
    /\ MakesDefault(p, wanted) => active
    /\ Write(k, p, NoProject, a, active, MakesDefault(p, wanted), MakesDefault(p, wanted))
    /\ UNCHANGED <<project, account, period, content, export>>

\* A request can make an account the default but not take that from it.
BeginUpdateAccount(k, a, active, wanted) ==
    LET p == account[a].project
    IN  /\ Edit
        /\ request[k] = NoRequest
        /\ p \in Projects /\ Unlocked(p)
        /\ wanted => active
        /\ active \/ (/\ \A q \in RunningPeriods(p) : period[q].account # a
                      /\ ~account[a].default)
        /\ Write(k, p, p, a, active, wanted \/ account[a].default, wanted)
        /\ UNCHANGED <<project, account, period, content, export>>

\* The insertion of an account that exists by now fails on the primary key.
CommitAccount(k) ==
    /\ request[k].kind = "account"
    /\ LET r == request[k]
       IN  /\ account[r.account].project = r.old
           /\ account' = [a \in Accounts |->
                            IF a = r.account THEN r.row
                            ELSE IF r.clear /\ account[a].project = r.project
                              THEN [project |-> r.project, active |-> account[a].active,
                                    default |-> FALSE]
                            ELSE account[a]]
    /\ request' = [request EXCEPT ![k] = NoRequest]
    /\ UNCHANGED <<project, period, content, export, edits>>

-----------------------------------------------------------------------------
(* Periods and contents *)

Item == [type : Types, task : Tasks, sync : BOOLEAN]

\* Mutant: a period may be submitted with everything switched off.
ValidContentsAllOff(b) ==
    \A i, j \in DOMAIN b : i # j => b[i].type # b[j].type /\ b[i].task # b[j].task

ValidContents(b) ==
    /\ \E i \in DOMAIN b : b[i].sync
    /\ \A i, j \in DOMAIN b : i # j => b[i].type # b[j].type /\ b[i].task # b[j].task

\* The complete configurations of a period that pass, in the order they list
\* their contents.
Submissions == {b \in {<<c>> : c \in Item} \cup (Item \X Item) : ValidContents(b)}

\* The account of the request if it names one, else the default one first.
ResolveAccount(p, named, a) ==
    /\ a \in AccountsOf(p) /\ account[a].active
    /\ \/ named
       \/ account[a].default
       \/ \A b \in AccountsOf(p) : ~(account[b].active /\ account[b].default)

TakenElsewhere(q, task) ==
    \E r \in Periods \ {q}, t \in Types : content[r][t].task = task

\* save_project_period up to its first write; q is NoPeriod for a new period.
BeginSavePeriod(k, p, q, a, named, active, b) ==
    /\ Edit
    /\ request[k] = NoRequest
    /\ project[p] = "active" /\ Unlocked(p)
    /\ ResolveAccount(p, named, a)
    /\ \A i \in DOMAIN b : ~TakenElsewhere(q, b[i].task)
    /\ request' = [request EXCEPT ![k] = [kind |-> "period", project |-> p, period |-> q,
                                          account |-> a, active |-> active, body |-> b]]
    /\ UNCHANGED <<project, account, period, content, export>>

\* The file import checks the same of project and account, without the lock.
BeginImportFile(k, p, a, named, b) ==
    /\ Edit
    /\ request[k] = NoRequest
    /\ project[p] = "active"
    /\ ResolveAccount(p, named, a)
    /\ request' = [request EXCEPT ![k] = [kind |-> "file", project |-> p, period |-> NoPeriod,
                                          account |-> a, active |-> TRUE, body |-> b]]
    /\ UNCHANGED <<project, account, period, content, export>>

Submitted(b) == {b[i].task : i \in DOMAIN b}
Index(b, t) == CHOOSE i \in DOMAIN b : b[i].type = t

\* The task of a type when item i is written: the items before it are in place.
TaskBefore(rows, b, i, t) ==
    IF \E j \in 1 .. i - 1 : b[j].type = t THEN b[Index(b, t)].task ELSE rows[t].task

\* Mutant: upsert_contents looks for a task in its own period only, and there
\* is no unique index.
MayUpsertHere(q, b) ==
    \A i \in DOMAIN b : \A t \in Types \ {b[i].type} :
       TaskBefore(content[q], b, i, t) # b[i].task

\* upsert_contents refuses a task of another period or of another type.  Two
\* projects may submit one task at a time: the second waits on the unique
\* index until the first has committed.
MayUpsert(q, b) ==
    /\ \A i \in DOMAIN b : ~TakenElsewhere(q, b[i].task)
    /\ \A i \in DOMAIN b : \A t \in Types \ {b[i].type} :
          TaskBefore(content[q], b, i, t) # b[i].task

\* A submission without an address keeps the sheet; what is not submitted any
\* more keeps its task and is switched off.
Upserted(rows, b) ==
    [t \in Types |->
       IF \E i \in DOMAIN b : b[i].type = t
         THEN [task |-> b[Index(b, t)].task, sync |-> b[Index(b, t)].sync,
               sheet |-> rows[t].sheet]
         ELSE [task |-> rows[t].task, sheet |-> rows[t].sheet,
               sync |-> rows[t].sync /\ rows[t].task \in Submitted(b)]]

\* The period that is written: a new row, the one of the request, or for a
\* file the one of the same name.
Target(r, q) ==
    \/ period[q].project = NoProject /\ r.period = NoPeriod
    \/ period[q].project = r.project /\ (r.period = q \/ r.kind = "file")

CommitPeriod(k, q) ==
    /\ request[k].kind \in {"period", "file"}
    /\ LET r == request[k]
       IN  /\ Target(r, q)
           /\ MayUpsert(q, r.body)
           /\ period' = [period EXCEPT ![q] =
                           [project |-> r.project, account |-> r.account,
                            active |-> IF r.kind = "file" /\ period[q].project # NoProject
                                         THEN period[q].active ELSE r.active]]
           /\ content' = [content EXCEPT ![q] = Upserted(content[q], r.body)]
    /\ request' = [request EXCEPT ![k] = NoRequest]
    /\ UNCHANGED <<project, account, export, edits>>

\* update_project_period_status checks nothing but that the period exists.
UpdateStatus(q, active) ==
    /\ Edit
    /\ period[q].project # NoProject
    /\ period' = [period EXCEPT ![q] = [project |-> period[q].project,
                                        account |-> period[q].account, active |-> active]]
    /\ UNCHANGED <<project, account, content, request, export>>

\* A request fails or its handler is dropped before the commit; its edit is
\* not counted.
AbortRequest(k) ==
    /\ request[k] # NoRequest
    /\ request' = [request EXCEPT ![k] = NoRequest]
    /\ edits' = edits - 1
    /\ UNCHANGED <<project, account, period, content, export>>

-----------------------------------------------------------------------------
(* Exports *)

NoExport == [period |-> NoPeriod, type |-> "live", task |-> NoTask]

\* list_exportable_contents; the switches of the period other than is_active
\* and its dates may leave any content out.
ListExport(q, t) ==
    /\ Edit
    /\ export = NoExport
    /\ period[q].active /\ content[q][t].sync
    /\ export' = [period |-> q, type |-> t, task |-> content[q][t].task]
    /\ UNCHANGED <<project, account, period, content, request>>

\* trace_single_content writes the address by the id of the content, whatever
\* has become of the content during the export.
WriteSheet ==
    /\ export # NoExport
    /\ LET row == content[export.period][export.type]
       IN  content' = [content EXCEPT ![export.period][export.type] =
                         [task |-> row.task, sync |-> row.sync, sheet |-> export.task]]
    /\ export' = NoExport
    /\ UNCHANGED <<project, account, period, request, edits>>

DropExport ==
    /\ export # NoExport
    /\ export' = NoExport
    /\ edits' = edits - 1
    /\ UNCHANGED <<project, account, period, content, request>>

-----------------------------------------------------------------------------
NoAccountRow == [project |-> NoProject, active |-> FALSE, default |-> FALSE]
FirstAccounts == [project : Projects, active : {TRUE}, default : {TRUE}]

\* Some projects exist already, some of them with their first account.
Init ==
    /\ project \in [Projects -> {"none", "active"}]
    /\ account \in [Accounts -> FirstAccounts \cup {NoAccountRow}]
    /\ \A p \in Projects : \A a, b \in AccountsOf(p) : a = b
    /\ \A a \in Accounts :
          account[a].project # NoProject => project[account[a].project] = "active"
    /\ period = [q \in Periods |-> [project |-> NoProject, account |-> NoAccount,
                                    active |-> FALSE]]
    /\ content = [q \in Periods |-> [t \in Types |-> NoContent]]
    /\ request = [k \in Actors |-> NoRequest]
    /\ export = NoExport
    /\ edits = 0

ProjectStep ==
    \/ \E p \in Projects, status \in {"active", "disabled"} : CreateProject(p, status)
    \/ \E k \in Actors, p \in Projects, status \in {"active", "disabled"} :
          BeginUpdateProject(k, p, status)
    \/ \E k \in Actors : CommitProject(k) \/ AbortRequest(k)

AccountStep ==
    \/ \E k \in Actors, p \in Projects, a \in Accounts, active, wanted \in BOOLEAN :
          BeginCreateAccount(k, p, a, active, wanted)
    \/ \E k \in Actors, a \in Accounts, active, wanted \in BOOLEAN :
          BeginUpdateAccount(k, a, active, wanted)
    \/ \E k \in Actors : CommitAccount(k)

PeriodStep ==
    \/ \E k \in Actors, p \in Projects, q \in Periods \cup {NoPeriod}, a \in Accounts,
          named, active \in BOOLEAN, b \in Submissions :
          BeginSavePeriod(k, p, q, a, named, active, b)
    \/ \E k \in Actors, p \in Projects, a \in Accounts, named \in BOOLEAN, b \in Submissions :
          BeginImportFile(k, p, a, named, b)
    \/ \E k \in Actors, q \in Periods : CommitPeriod(k, q)
    \/ \E q \in Periods, active \in BOOLEAN : UpdateStatus(q, active)

ExportStep == (\E q \in Periods, t \in Types : ListExport(q, t)) \/ WriteSheet \/ DropExport

Next == ProjectStep \/ AccountStep \/ PeriodStep \/ ExportStep

Spec == Init /\ [][Next]_vars

-----------------------------------------------------------------------------
(* Properties *)

\* Types, and the foreign keys: a period's account is one of its project
\* (resolve_project_account), and contents and sheets belong to periods.
TypeOK ==
    /\ project \in [Projects -> {"none", "active", "disabled"}]
    /\ account \in [Accounts -> AccountRows]
    /\ period \in [Periods -> PeriodRows]
    /\ content \in [Periods -> [Types -> ContentRows]]
    /\ \A q \in Periods :
          IF period[q].project = NoProject
            THEN content[q] = [t \in Types |-> NoContent]
            ELSE period[q].account \in AccountsOf(period[q].project)
    /\ edits \in Int /\ edits <= MaxEdits

\* A project that has accounts has exactly one default account, and it is
\* active (create_project_account, update_project_account): whatever accounts
\* are created, made default and switched off at the same time, a period saved
\* without an account gets a usable one.
ActiveDefault ==
    \A p \in Projects :
       AccountsOf(p) # {} =>
          \E d \in AccountsOf(p) :
             /\ account[d].active /\ account[d].default
             /\ \A a \in AccountsOf(p) : account[a].default => a = d

\* At the moment an administrator's period is committed, its project and its
\* account are active (save_project_period): nothing that was checked at the
\* beginning of the transaction has been taken back by another request.
SavedIsBacked ==
    [][\A k \in Actors, q \in Periods :
          request[k].kind = "period" /\ period'[q] # period[q] /\ request'[k] # request[k] =>
             /\ project[period'[q].project] = "active"
             /\ account[period'[q].account].active
             /\ account[period'[q].account].project = period'[q].project]_vars

\* list_workflow_activity_scopes finds a period that is active and has a
\* content to synchronise.
InScope(q) == period[q].active /\ \E t \in Types : content[q][t].sync

\* Every active period is found by the workflows: neither replacements that
\* leave contents out, nor changes of the status, nor imports leave a period
\* active without anything to synchronise (validate_activity_contents,
\* upsert_contents).
EveryPeriodSyncs == \A q \in Periods : period[q].active => InScope(q)

\* A Xingtu task belongs to one content of one period (upsert_contents and the
\* unique index), although two projects may submit it at the same time and a
\* content that is left out keeps its task.
TaskOwnedOnce ==
    \A q, r \in Periods, t, u \in Types :
       content[q][t].task # NoTask /\ content[q][t].task = content[r][u].task => q = r /\ t = u
=============================================================================
