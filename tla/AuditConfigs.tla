---------------------------- MODULE AuditConfigs ----------------------------
(***************************************************************************)
(* Shared audit configurations with their notification targets             *)
(* (server/audit_config.rs), the project's choice of one of them, and what *)
(* is done with the applications of FeishuApps: audit notices, reports and *)
(* other cards (workflow.rs, api.rs), the history of the cards             *)
(* (lark/message_history.rs) and their recall (admin.rs).                  *)
(*                                                                         *)
(* A configuration is its application and whether it is active; template,  *)
(* field, names and auditors travel with it.  A target is its receiver.    *)
(* The old table of notice applications is written beside the              *)
(* configuration and decides nothing.                                      *)
(***************************************************************************)
EXTENDS FeishuApps

CONSTANTS
    Configs, Targets,
    None,       \* no configuration, target, project or card
    Receivers,  \* where a target may send to
    Cards       \* bound: cards that are sent

\* The start has a configuration with a target; None stands for a missing one.
ASSUME AuditAssumption ==
    /\ Configs # {} /\ Targets # {} /\ Receivers # {}
    /\ None \notin Configs \cup Targets

VARIABLES
    config,     \* xingtu_audit_config: exists, app, active
    target,     \* xingtu_audit_notification_target: config or None, receiver, active
    bound,      \* xingtu_project_audit_config_binding: [config, target]
    job,        \* what each actor wants its client for
    card,       \* the cards at Feishu: the application that sent it, gone
    history,    \* card_message_history
    possible,   \* history variable: the pairs of application and receiver that
                \* were configured for the project since an actor's notice began
    blurred     \* history variable: cards an answer or a mark was lost for

auditVars == <<config, target, bound, job, card, history, blurred>>
allVars == <<appVars, auditVars, possible>>

NoBinding == [config |-> None, target |-> None]
Job(goal, pc, p, a, r, m) ==
    [goal |-> goal, pc |-> pc, project |-> p, app |-> a, receiver |-> r, card |-> m]
NoJob == Job("none", "idle", None, NoApp, None, None)
NoCard == [exists |-> FALSE, app |-> NoApp, gone |-> FALSE]
NoHistory == [exists |-> FALSE, app |-> NoApp, project |-> None,
              recalled |-> FALSE, error |-> FALSE]

-----------------------------------------------------------------------------
(* Configurations.  Creating and updating look the application up and write *)
(* in two statements without a lock; so does the binding of a project.      *)

CheckConfig(c, a, active) ==
    /\ Edit
    /\ request = NoRequest
    /\ Exists(a) /\ app[a].active
    /\ request' = [kind |-> "config", config |-> c, wanted |-> a, active |-> active]
    /\ UNCHANGED <<app, binding, boot, clients, forgets, call, auditVars>>

\* create_audit_config inserts, update_audit_config updates.
SaveConfig ==
    /\ request.kind = "config"
    /\ config' = [config EXCEPT ![request.config] =
                   [exists |-> TRUE, app |-> request.wanted, active |-> request.active]]
    /\ request' = NoRequest
    /\ UNCHANGED <<app, binding, boot, clients, forgets, call, edits,
                   target, bound, job, card, history, blurred>>

IsBoundConfig(c) == \E p \in Projects : bound[p].config = c

\* Mutant: the composite foreign key is missing.
IsBoundTargetNever(t) == FALSE

IsBoundTarget(t) == \E p \in Projects : bound[p].target = t

\* The binding restricts the deletion, the targets go with the configuration.
DeleteConfig(c) ==
    /\ Edit
    /\ config[c].exists /\ ~IsBoundConfig(c)
    /\ config' = [config EXCEPT ![c] = [exists |-> FALSE, app |-> NoApp, active |-> FALSE]]
    /\ target' = [t \in Targets |->
                    IF target[t].config = c THEN [target[t] EXCEPT !.config = None] ELSE target[t]]
    /\ UNCHANGED <<app, binding, request, boot, clients, forgets, call,
                   bound, job, card, history, blurred>>

\* create_notification_target and update_notification_target; the foreign key
\* repeats what ensure_audit_config_exists has looked up.
SaveTarget(t, c, r, active) ==
    /\ Edit
    /\ config[c].exists /\ target[t].config \in {None, c}
    /\ \A u \in Targets \ {t} : target[u].config = c => target[u].receiver # r
    /\ target' = [target EXCEPT ![t] = [config |-> c, receiver |-> r, active |-> active]]
    /\ UNCHANGED <<app, binding, request, boot, clients, forgets, call,
                   config, bound, job, card, history, blurred>>

DeleteTarget(t) ==
    /\ Edit
    /\ target[t].config # None /\ ~IsBoundTarget(t)
    /\ target' = [target EXCEPT ![t] = [@ EXCEPT !.config = None]]
    /\ UNCHANGED <<app, binding, request, boot, clients, forgets, call,
                   config, bound, job, card, history, blurred>>

CheckBinding(p, c, t) ==
    /\ Edit
    /\ request = NoRequest
    /\ config[c].exists /\ config[c].active
    /\ target[t].config = c /\ target[t].active
    /\ config[c].app # NoApp /\ app[config[c].app].active
    /\ request' = [kind |-> "bindConfig", project |-> p, config |-> c, target |-> t]
    /\ UNCHANGED <<app, binding, boot, clients, forgets, call, auditVars>>

\* The composite foreign key refuses a target that is gone.
SaveBinding ==
    /\ request.kind = "bindConfig"
    /\ target[request.target].config = request.config
    /\ bound' = [bound EXCEPT ![request.project] =
                  [config |-> request.config, target |-> request.target]]
    /\ request' = NoRequest
    /\ UNCHANGED <<app, binding, boot, clients, forgets, call, edits,
                   config, target, job, card, history, blurred>>

Unbind(p) ==
    /\ Edit
    /\ bound[p] # NoBinding
    /\ bound' = [bound EXCEPT ![p] = NoBinding]
    /\ UNCHANGED <<app, binding, request, boot, clients, forgets, call,
                   config, target, job, card, history, blurred>>

SetNoticeApp(p, a) ==
    config' = IF bound[p] = NoBinding THEN config
              ELSE [config EXCEPT ![bound[p].config] = [@ EXCEPT !.app = a]]

\* bind_audit_notice_project writes the application into the bound, perhaps
\* shared, configuration.
CommitBindNotice ==
    /\ request.kind = "bindNotice"
    /\ SetNoticeApp(request.project, request.wanted)
    /\ request' = NoRequest
    /\ UNCHANGED <<app, binding, boot, clients, forgets, call, edits,
                   target, bound, job, card, history, blurred>>

\* unbind_audit_notice_project empties it, also if there was no notice
\* application and the answer is "not found".
UnbindNotice(p) ==
    /\ Edit
    /\ SetNoticeApp(p, NoApp)
    /\ UNCHANGED <<app, binding, request, boot, clients, forgets, call,
                   target, bound, job, card, history, blurred>>

\* update_project_notification changes the receiver of the bound target.
UpdateNotification(p, r) ==
    /\ Edit
    /\ bound[p] # NoBinding
    /\ LET t == bound[p].target
       IN  /\ \A u \in Targets \ {t} :
                 target[u].config = target[t].config => target[u].receiver # r
           /\ target' = [target EXCEPT ![t] = [@ EXCEPT !.receiver = r]]
    /\ UNCHANGED <<app, binding, request, boot, clients, forgets, call,
                   config, bound, job, card, history, blurred>>

-----------------------------------------------------------------------------
(* Cards *)

Begin(k, j) ==
    /\ job[k] = NoJob
    /\ job' = [job EXCEPT ![k] = j]
    /\ UNCHANGED <<app, binding, request, boot, clients, forgets, edits,
                   config, target, bound, card, history, blurred>>

\* build_audit_notice_configs_from_db: one statement reads the active
\* configuration with its application and its active target.
StartNotice(k, p) ==
    /\ bound[p] # NoBinding
    /\ config[bound[p].config].active /\ target[bound[p].target].active
    /\ Begin(k, Job("notice", "resolve", p, config[bound[p].config].app,
                    target[bound[p].target].receiver, None))
    /\ UNCHANGED call

\* resolved_client_for_project_audit_config, for the report a user sends.
StartReport(k, p) ==
    /\ LET own == IF bound[p] = NoBinding THEN NoApp ELSE config[bound[p].config].app
       IN  Begin(k, Job("card", "resolve", p, own, None, None))
    /\ UNCHANGED call

\* resolved_client_for_project, for the work on the tables and login notices.
StartProject(k, p) ==
    /\ Begin(k, Job("card", "client", p, NoApp, None, None))
    /\ call' = [call EXCEPT ![k] = Resolve(binding[p])]

\* client_for_audit_config, for the administrator's look at a configuration.
StartAdmin(k, c) ==
    /\ config[c].exists /\ config[c].app # NoApp
    /\ Begin(k, Job("admin", "client", None, NoApp, None, None))
    /\ call' = [call EXCEPT ![k] = Resolve(config[c].app)]

\* Mutant: the application is looked up again when the notice is to be sent.
SenderLookedUp(k) ==
    IF bound[job[k].project] # NoBinding /\ config[bound[job[k].project].config].app # NoApp
      THEN config[bound[job[k].project].config].app
      ELSE binding[job[k].project]

\* resolved_client_for_audit_config
Sender(k) == IF job[k].app # NoApp THEN job[k].app ELSE binding[job[k].project]

ResolveSender(k) ==
    /\ job[k].pc = "resolve"
    /\ call' = [call EXCEPT ![k] = Resolve(Sender(k))]
    /\ job' = [job EXCEPT ![k] = [@ EXCEPT !.pc = "client"]]
    /\ UNCHANGED <<app, binding, request, boot, clients, forgets, edits,
                   config, target, bound, card, history, blurred>>

Finish(k) ==
    /\ job' = [job EXCEPT ![k] = NoJob]
    /\ call' = [call EXCEPT ![k] = NoCall]

\* The client could not be made, the card is not sent, or no card was wanted.
GiveUpCard(k) ==
    /\ job[k].pc = "client" /\ call[k].pc \in {"ready", "failed"}
    /\ call[k].pc = "failed" \/ job[k].goal # "recall"
    /\ Finish(k)
    /\ UNCHANGED <<app, binding, request, boot, clients, forgets, edits,
                   config, target, bound, card, history, blurred>>

SendCard(k, m) ==
    /\ job[k].pc = "client" /\ call[k].pc = "ready"
    /\ job[k].goal \in {"notice", "card"}
    /\ ~card[m].exists
    /\ card' = [card EXCEPT ![m] = [exists |-> TRUE, app |-> call[k].app, gone |-> FALSE]]
    /\ job' = [job EXCEPT ![k] = Job("card", "record", job[k].project, NoApp, None, m)]
    /\ UNCHANGED <<app, binding, request, boot, clients, forgets, edits, call,
                   config, target, bound, history, blurred>>

\* record_sent_message: a failure is logged and the card is never listed.
RecordCard(k, written) ==
    /\ job[k].pc = "record"
    /\ history' = IF ~written THEN history
                  ELSE [history EXCEPT ![job[k].card] =
                          [NoHistory EXCEPT !.exists = TRUE, !.app = call[k].app,
                                            !.project = job[k].project]]
    /\ Finish(k)
    /\ UNCHANGED <<app, binding, request, boot, clients, forgets, edits,
                   config, target, bound, card, blurred>>

-----------------------------------------------------------------------------
(* Recall *)

\* find_by_message_id; a card that is recalled already is answered at once.
StartRecall(k, m) ==
    /\ history[m].exists /\ ~history[m].recalled
    /\ Begin(k, Job("recall", "start", None, NoApp, None, m))
    /\ UNCHANGED call

\* Mutant: the card is recalled with the project's application.
RecallerOfProject(m) == binding[history[m].project]

\* The application that sent the card; if it is not known, the one the project
\* is bound to now.
Recaller(m) ==
    IF history[m].app # NoApp THEN history[m].app ELSE binding[history[m].project]

\* mark_recall_started, and the resolution begins.
MarkRecallStarted(k) ==
    /\ job[k].pc = "start"
    /\ history' = [history EXCEPT ![job[k].card] = [@ EXCEPT !.error = FALSE]]
    /\ call' = [call EXCEPT ![k] = Resolve(Recaller(job[k].card))]
    /\ job' = [job EXCEPT ![k] = [@ EXCEPT !.pc = "client"]]
    /\ UNCHANGED <<app, binding, request, boot, clients, forgets, edits,
                   config, target, bound, card, blurred>>

\* Feishu withdraws a card for the application that sent it, once; what it
\* answers to the second time is left open.  The answer may be lost.
CallRecall(k, ok) ==
    LET m == job[k].card
        mine == call[k].app = card[m].app
    IN  /\ job[k].goal = "recall" /\ job[k].pc = "client" /\ call[k].pc = "ready"
        /\ ok => mine
        /\ card' = [card EXCEPT ![m].gone = @ \/ ok]
        /\ job' = [job EXCEPT ![k] = [@ EXCEPT !.pc = IF ok THEN "recalled" ELSE "refused"]]
        /\ UNCHANGED <<app, binding, request, boot, clients, forgets, edits, call,
                       config, target, bound, history, blurred>>

LoseAnswer(k) ==
    LET m == job[k].card
    IN  /\ job[k].goal = "recall" /\ job[k].pc = "client" /\ call[k].pc = "ready"
        /\ call[k].app = card[m].app /\ ~card[m].gone
        /\ card' = [card EXCEPT ![m] = [@ EXCEPT !.gone = TRUE]]
        /\ job' = [job EXCEPT ![k] = [@ EXCEPT !.pc = "refused"]]
        /\ blurred' = blurred \cup {m}
        /\ UNCHANGED <<app, binding, request, boot, clients, forgets, edits, call,
                       config, target, bound, history>>

\* Mutant: the outcome of the call is not looked at.
MarkedAlways(h, pc) == [h EXCEPT !.recalled = TRUE, !.error = FALSE]

\* mark_recalled and mark_recall_failed
Marked(h, pc) ==
    IF pc = "recalled" THEN [h EXCEPT !.recalled = TRUE, !.error = FALSE]
                       ELSE [h EXCEPT !.error = TRUE]

MarkRecall(k) ==
    /\ job[k].pc \in {"recalled", "refused"}
    /\ history' = [history EXCEPT ![job[k].card] = Marked(@, job[k].pc)]
    /\ Finish(k)
    /\ UNCHANGED <<app, binding, request, boot, clients, forgets, edits,
                   config, target, bound, card, blurred>>

\* The statement fails, or the handler is dropped, before the mark.
MarkLost(k) ==
    /\ job[k].pc \in {"recalled", "refused"}
    /\ blurred' = blurred \cup {job[k].card}
    /\ Finish(k)
    /\ UNCHANGED <<app, binding, request, boot, clients, forgets, edits,
                   config, target, bound, card, history>>

-----------------------------------------------------------------------------
(* The specification *)

Restart ==
    /\ RestartApps
    /\ job' = [k \in Actors |-> NoJob]
    /\ blurred' = blurred \cup {job[k].card : k \in {j \in Actors : job[j].goal = "recall"}}
    /\ UNCHANGED <<config, target, bound, card, history>>

\* What a notice of the project is to be sent with and to at this moment.
Configured(p) ==
    IF bound[p] = NoBinding THEN <<NoApp, None>>
    ELSE <<config[bound[p].config].app, target[bound[p].target].receiver>>

Observe ==
    possible' = [k \in Actors |->
                   IF job'[k].goal # "notice" THEN {}
                   ELSE possible[k] \cup
                          UNION {IF p = job'[k].project THEN {Configured(p)'} ELSE {} :
                                   p \in Projects}]

AuditInit ==
    /\ InitApps
    /\ config \in [Configs -> {[exists |-> TRUE, app |-> a, active |-> TRUE] :
                                 a \in {NoApp, Default}}]
    /\ target = [t \in Targets |->
                   IF t = CHOOSE u \in Targets : TRUE
                     THEN [config |-> CHOOSE c \in Configs : TRUE,
                           receiver |-> CHOOSE r \in Receivers : TRUE, active |-> TRUE]
                     ELSE [config |-> None, receiver |-> None, active |-> TRUE]]
    /\ bound = [p \in Projects |-> [config |-> CHOOSE c \in Configs : TRUE,
                                    target |-> CHOOSE u \in Targets : TRUE]]
    /\ job = [k \in Actors |-> NoJob]
    /\ card = [m \in Cards |-> NoCard]
    /\ history = [m \in Cards |-> NoHistory]
    /\ possible = [k \in Actors |-> {}]
    /\ blurred = {}

ConfigStep ==
    \/ \E c \in Configs, a \in Apps, active \in BOOLEAN : CheckConfig(c, a, active)
    \/ SaveConfig
    \/ \E c \in Configs : DeleteConfig(c)
    \/ \E t \in Targets, c \in Configs, r \in Receivers, active \in BOOLEAN :
          SaveTarget(t, c, r, active)
    \/ \E t \in Targets : DeleteTarget(t)
    \/ \E p \in Projects, c \in Configs, t \in Targets : CheckBinding(p, c, t)
    \/ SaveBinding
    \/ CommitBindNotice
    \/ \E p \in Projects : Unbind(p) \/ UnbindNotice(p)
    \/ \E p \in Projects, r \in Receivers : UpdateNotification(p, r)

CardStep(k) ==
    \/ \E p \in Projects : StartNotice(k, p) \/ StartReport(k, p) \/ StartProject(k, p)
    \/ \E c \in Configs : StartAdmin(k, c)
    \/ ResolveSender(k)
    \/ GiveUpCard(k)
    \/ \E m \in Cards : SendCard(k, m) \/ StartRecall(k, m)
    \/ \E written \in BOOLEAN : RecordCard(k, written)
    \/ MarkRecallStarted(k)
    \/ \E ok \in BOOLEAN : CallRecall(k, ok)
    \/ LoseAnswer(k)
    \/ MarkRecall(k)
    \/ MarkLost(k)

AuditNext ==
    /\ \/ AppStep /\ UNCHANGED auditVars
       \/ ConfigStep
       \/ \E k \in Actors : CardStep(k)
       \/ Restart
    /\ Observe

AuditSpec == AuditInit /\ [][AuditNext]_allVars

-----------------------------------------------------------------------------
(* Properties *)

\* The variables keep their types.
AuditTypeOK ==
    /\ AppsTypeOK
    /\ config \in [Configs -> [exists : BOOLEAN, app : AppOrNone, active : BOOLEAN]]
    /\ target \in [Targets -> [config : Configs \cup {None},
                               receiver : Receivers \cup {None}, active : BOOLEAN]]
    /\ \A p \in Projects :
          bound[p] # NoBinding => target[bound[p].target].config = bound[p].config
    /\ \A k \in Actors : job[k].pc \in {"idle", "resolve", "client", "record", "start",
                                        "recalled", "refused"}
    /\ \A m \in Cards : history[m].exists => card[m].exists
    /\ blurred \subseteq Cards

\* A notice goes from an application to a receiver that were configured
\* together at one moment since the notice was begun (workflow.rs resolves the
\* application long after the statement that read it), however often the
\* configuration, its binding and its targets are changed meanwhile.  A
\* configuration without an application of its own is excluded.
SenderFitsReceiver ==
    \A k \in Actors :
       job[k].goal = "notice" /\ job[k].app # NoApp /\ call[k].pc = "ready" =>
          <<call[k].app, job[k].receiver>> \in possible[k]

\* The history tells the truth about recalls, several of one card at a time
\* included: a card marked as recalled is gone, and a card that is gone is
\* marked unless a recall is under way or an answer or a mark was lost.
RecallsAreRecorded ==
    \A m \in Cards :
       /\ history[m].recalled => card[m].gone
       /\ card[m].gone => \/ history[m].recalled
                          \/ m \in blurred
                          \/ \E k \in Actors : job[k].card = m /\ job[k].pc = "recalled"

\* A recall asks with the application that sent the card, whatever the project
\* is bound to by then; this needs a default application from the database,
\* whose id the history records.
SenderRecalls ==
    \A k \in Actors :
       job[k].goal = "recall" /\ call[k].pc = "ready" /\ Default # NoApp =>
          call[k].app = card[job[k].card].app
=============================================================================
