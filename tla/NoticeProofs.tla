---------------------------- MODULE NoticeProofs ----------------------------
(***************************************************************************)
(* Theorems about how notices are guarded and sent: AuditConfigs with the  *)
(* applications of FeishuApps, for every set of applications, projects,    *)
(* configurations, targets, cards and actors; and NotificationGuard, for   *)
(* every set of senders and payloads and every cooldown, reservation and   *)
(* sending time.                                                           *)
(***************************************************************************)
EXTENDS AuditConfigs, NotificationGuard, TLAPS

-----------------------------------------------------------------------------
(* The inductive invariant of AuditConfigs. *)

\* What no client may be newer than.
Newest(a) == IF a = NoApp THEN 0 ELSE app[a].version

\* The tables and caches of the applications: a row has a version for every
\* edit but the one a request still holds, and nothing is newer than its row.
AppTables ==
    /\ app \in [Apps -> [version : Versions, active : BOOLEAN]]
    /\ \A a \in Apps : app[a].version <= edits + (IF request = NoRequest THEN 1 ELSE 0)
    /\ binding \in [Projects -> AppOrNone]
    /\ boot \in Versions /\ boot <= Newest(Default)
    /\ clients \in [Apps -> Versions] /\ \A a \in Apps : clients[a] <= app[a].version
    /\ forgets \subseteq Apps
    /\ edits \in 0 .. MaxEdits
    /\ request # NoRequest => edits > 0

\* A request to bind an application holds the lock on an active row.
Binds == \E kind \in {"bind", "bindNotice"}, p \in Projects, a \in Apps :
            /\ request = [kind |-> kind, project |-> p, app |-> a, wanted |-> a]
            /\ app[a].active
Configures == \E c \in Configs, a \in Apps, active \in BOOLEAN :
                 request = [kind |-> "config", config |-> c, wanted |-> a, active |-> active]
Chooses == \E p \in Projects, c \in Configs, t \in Targets :
              request = [kind |-> "bindConfig", project |-> p, config |-> c, target |-> t]
Requested == request = NoRequest \/ Binds \/ Configures \/ Chooses

\* A call carries a version between the one its application had when the call
\* began and the one it has by now.
CallType == [pc : {"idle", "row", "look", "insert", "ready", "failed"}, app : AppOrNone,
             row : Versions, version : Versions, floor : Versions]

CallOK(c, rows) ==
    /\ c \in CallType
    /\ c.pc \in {"row", "look", "insert"} =>
          c.app \in Apps \ {Default} /\ c.floor <= rows[c.app].version
    /\ c.pc \in {"look", "insert"} => c.row \in c.floor .. rows[c.app].version
    /\ c.pc = "ready" /\ c.app # Default =>
          c.app \in Apps /\ c.version \in c.floor .. rows[c.app].version

Calls == call = [k \in Actors |-> call[k]] /\ \A k \in Actors : CallOK(call[k], app)

\* A project is bound to a target of the configuration it is bound to.
Choices ==
    /\ config \in [Configs -> [exists : BOOLEAN, app : AppOrNone, active : BOOLEAN]]
    /\ target \in [Targets -> [config : Configs \cup {None},
                               receiver : Receivers \cup {None}, active : BOOLEAN]]
    /\ bound = [p \in Projects |-> bound[p]]
    /\ \A p \in Projects :
          \/ bound[p] = NoBinding
          \/ /\ bound[p] \in [config : Configs, target : Targets]
             /\ target[bound[p].target].config = bound[p].config

\* The history names the application that sent the card.
CardOK(c, h) ==
    /\ c \in [exists : BOOLEAN, app : AppOrNone, gone : BOOLEAN]
    /\ h \in [exists : BOOLEAN, app : AppOrNone, project : Projects \cup {None},
              recalled : BOOLEAN, error : BOOLEAN]
    /\ h.exists => c.exists
    /\ h.exists /\ Default # NoApp => h.app = c.app /\ c.app # NoApp
    /\ h.recalled => h.exists
    /\ h.exists => h.project \in Projects

CardsOK ==
    /\ card = [m \in Cards |-> card[m]] /\ history = [m \in Cards |-> history[m]]
    /\ blurred \subseteq Cards
    /\ \A m \in Cards : CardOK(card[m], history[m])

JobType == [goal : {"none", "notice", "card", "admin", "recall"},
            pc : {"idle", "resolve", "client", "record", "start", "recalled", "refused"},
            project : Projects \cup {None}, app : AppOrNone, receiver : Receivers \cup {None},
            card : Cards \cup {None}]

\* A notice is under way to what it was read with, by way of its application.
NoticeOK(j, c, pairs) ==
    j.goal = "notice" =>
       /\ j.pc \in {"resolve", "client"}
       /\ <<j.app, j.receiver>> \in pairs
       /\ j.pc = "client" /\ j.app # NoApp /\ c.pc # "failed" => c.app = j.app

\* A card that is to be recorded is there, and the history does not know it.
RecordOK(j, c, cards, hist) ==
    j.pc = "record" =>
       /\ j.goal = "card" /\ j.card \in Cards /\ c.pc = "ready"
       /\ cards[j.card].exists /\ cards[j.card].app = c.app /\ ~cards[j.card].gone
       /\ ~hist[j.card].exists

\* A recall is of a card in the history, with the application that sent it.
RecallOK(j, c, cards, hist) ==
    /\ j.pc \in {"start", "recalled", "refused"} => j.goal = "recall"
    /\ j.goal = "recall" =>
          /\ j.pc \in {"start", "client", "recalled", "refused"}
          /\ j.card \in Cards /\ hist[j.card].exists
          /\ j.pc = "recalled" => cards[j.card].gone
          /\ j.pc # "start" /\ Default # NoApp /\ c.pc # "failed" => c.app = cards[j.card].app

JobOK(j, c, cards, hist, pairs) ==
    /\ j \in JobType
    /\ j.pc \in {"idle", "resolve", "start"} => c = NoCall
    /\ j.pc \in {"resolve", "record"} => j.project \in Projects
    /\ j.pc = "client" /\ j.goal \in {"notice", "card"} => j.project \in Projects
    /\ NoticeOK(j, c, pairs) /\ RecordOK(j, c, cards, hist) /\ RecallOK(j, c, cards, hist)

Jobs ==
    /\ job = [k \in Actors |-> job[k]] /\ possible = [k \in Actors |-> possible[k]]
    /\ \A k \in Actors : JobOK(job[k], call[k], card, history, possible[k])

\* No two actors record the same card.
SendersDiffer ==
    \A k, l \in Actors :
       k # l /\ job[k].pc = "record" /\ job[l].pc = "record" => job[k].card # job[l].card

AInv ==
    /\ AppTables /\ Requested /\ Calls /\ Choices /\ CardsOK /\ Jobs /\ SendersDiffer
    /\ RecallsAreRecorded

-----------------------------------------------------------------------------
(* The initial states, and what follows from the invariant. *)

LEMMA InitAInv == AuditInit => AInv
<1> SUFFICES ASSUME AuditInit PROVE AInv
    OBVIOUS
<1>0. InitApps BY DEF AuditInit
<1>1. AppTables
    <2> USE <1>0, AppsAssumption DEF InitApps
    <2>1. app \in [Apps -> [version : Versions, active : BOOLEAN]]
        <3>1. {[version |-> 0, active |-> TRUE], [version |-> 1, active |-> TRUE]}
                 \subseteq [version : Versions, active : BOOLEAN]
            BY DEF Versions
        <3> HIDE DEF InitApps
        <3>2. app \in [Apps -> {[version |-> 0, active |-> TRUE], [version |-> 1, active |-> TRUE]}]
            BY DEF InitApps
        <3> QED BY <3>1, <3>2
    <2>2. \A a \in Apps : app[a].version <= 1 BY DEF Versions
    <2>3. boot \in Versions /\ boot <= Newest(Default)
        BY <2>1 DEF BootVersion, Newest, Versions
    <2> QED BY <2>1, <2>2, <2>3 DEF AppTables, AppOrNone, Versions
<1> USE AppsAssumption, AuditAssumption DEF AuditInit
<1>2. Requested BY <1>0 DEF InitApps, Requested
<1>3. Calls
    <2> USE <1>0 DEF InitApps
    <2>1. CallOK(NoCall, app) BY DEF CallOK, CallType, NoCall, AppOrNone, Versions
    <2> QED BY <2>1 DEF Calls
<1>4. Choices
    <2> DEFINE c0 == CHOOSE c \in Configs : TRUE
               t0 == CHOOSE u \in Targets : TRUE
               r0 == CHOOSE r \in Receivers : TRUE
    <2>1. c0 \in Configs /\ t0 \in Targets /\ r0 \in Receivers OBVIOUS
    <2>2. config \in [Configs -> [exists : BOOLEAN, app : AppOrNone, active : BOOLEAN]]
        <3> HIDE DEF AuditInit
        <3>1. \A a \in {NoApp, Default} : [exists |-> TRUE, app |-> a, active |-> TRUE]
                                            \in [exists : BOOLEAN, app : AppOrNone, active : BOOLEAN]
            BY DEF AppOrNone
        <3>2. config \in [Configs -> {[exists |-> TRUE, app |-> a, active |-> TRUE] :
                                         a \in {NoApp, Default}}]
            BY DEF AuditInit
        <3> DEFINE some == {[exists |-> TRUE, app |-> a, active |-> TRUE] : a \in {NoApp, Default}}
                   all == [exists : BOOLEAN, app : AppOrNone, active : BOOLEAN]
        <3>3. some \subseteq all BY <3>1
        <3> HIDE DEF some, all
        <3>4. config \in [Configs -> all] BY <3>2, <3>3 DEF some
        <3> QED BY <3>4 DEF all
    <2>3. target = [t \in Targets |-> IF t = t0
                      THEN [config |-> c0, receiver |-> r0, active |-> TRUE]
                      ELSE [config |-> None, receiver |-> None, active |-> TRUE]]
        OBVIOUS
    <2>4. bound = [p \in Projects |-> [config |-> c0, target |-> t0]] OBVIOUS
    <2> HIDE DEF c0, t0, r0, AuditInit
    <2>5. target \in [Targets -> [config : Configs \cup {None},
                                  receiver : Receivers \cup {None}, active : BOOLEAN]]
        BY <2>1, <2>3
    <2> QED BY <2>1, <2>2, <2>3, <2>4, <2>5 DEF Choices
<1>5. CardsOK BY DEF CardsOK, CardOK, NoCard, NoHistory, AppOrNone
<1>6. Jobs
    <2>1. JobOK(NoJob, NoCall, card, history, {})
        BY DEF JobOK, JobType, NoJob, Job, NoticeOK, RecordOK, RecallOK, AppOrNone
    <2> QED BY <1>0, <2>1 DEF Jobs, InitApps
<1>7. SendersDiffer BY DEF SendersDiffer, NoJob, Job
<1>8. RecallsAreRecorded BY DEF RecallsAreRecorded, NoHistory, NoCard
<1> QED BY <1>1, <1>2, <1>3, <1>4, <1>5, <1>6, <1>7, <1>8 DEF AInv

LEMMA Concludes ==
    ASSUME AInv
    PROVE  AuditTypeOK /\ ClientsAreCurrent /\ SenderFitsReceiver /\ SenderRecalls
<1> USE DEF AInv
<1>1. AppsTypeOK
    <2>1. \A k \in Actors :
              /\ call[k].pc \in {"idle", "row", "look", "insert", "ready", "failed"}
              /\ call[k].app \in AppOrNone
              /\ {call[k].row, call[k].version, call[k].floor} \subseteq Versions
        BY DEF Calls, CallOK, CallType
    <2> QED BY <2>1 DEF AppsTypeOK, AppTables
<1>2. AuditTypeOK
    <2>1. \A k \in Actors : job[k].pc \in {"idle", "resolve", "client", "record", "start",
                                           "recalled", "refused"}
        BY DEF Jobs, JobOK, JobType
    <2>2. \A m \in Cards : history[m].exists => card[m].exists BY DEF CardsOK, CardOK
    <2> QED BY <1>1, <2>1, <2>2 DEF AuditTypeOK, Choices, CardsOK
<1>3. ClientsAreCurrent BY DEF Calls, CallOK, CallType, ClientsAreCurrent
<1>4. SenderFitsReceiver
    <2> SUFFICES ASSUME NEW k \in Actors, job[k].goal = "notice", job[k].app # NoApp,
                        call[k].pc = "ready"
                 PROVE  <<call[k].app, job[k].receiver>> \in possible[k]
        BY DEF SenderFitsReceiver
    <2>1. JobOK(job[k], call[k], card, history, possible[k]) BY DEF Jobs
    <2>2. job[k].pc = "client" BY <2>1 DEF JobOK, NoticeOK, NoCall
    <2> QED BY <2>1, <2>2 DEF JobOK, NoticeOK
<1>5. SenderRecalls
    <2> SUFFICES ASSUME NEW k \in Actors, job[k].goal = "recall", call[k].pc = "ready",
                        Default # NoApp
                 PROVE  call[k].app = card[job[k].card].app
        BY DEF SenderRecalls
    <2>1. JobOK(job[k], call[k], card, history, possible[k]) BY DEF Jobs
    <2>2. job[k].pc # "start" BY <2>1 DEF JobOK, NoCall
    <2> QED BY <2>1, <2>2 DEF JobOK, RecallOK
<1> QED BY <1>2, <1>3, <1>4, <1>5

-----------------------------------------------------------------------------
(* Parts that a step leaves alone. *)

\* Versions only grow, so that a call stays right when rows are replaced.
LEMMA CallStays ==
    ASSUME NEW c, NEW rows, NEW rows2, CallOK(c, rows),
           rows \in [Apps -> [version : Versions, active : BOOLEAN]],
           rows2 \in [Apps -> [version : Versions, active : BOOLEAN]],
           \A a \in Apps : rows[a].version <= rows2[a].version
    PROVE  CallOK(c, rows2)
BY AppsAssumption DEF CallOK, CallType, Versions

\* What the other actors do to a job: its card stays what it is.
LEMMA JobStays ==
    ASSUME NEW j, NEW c, NEW cards, NEW hist, NEW pairs, JobOK(j, c, cards, hist, pairs),
           NEW cards2, NEW hist2, NEW pairs2,
           j.goal = "notice" => pairs \subseteq pairs2,
           j.pc = "record" =>
              cards2[j.card] = cards[j.card] /\ hist2[j.card].exists = hist[j.card].exists,
           j.goal = "recall" =>
              /\ hist[j.card].exists => hist2[j.card].exists
              /\ cards[j.card].gone => cards2[j.card].gone
              /\ cards2[j.card].app = cards[j.card].app
    PROVE  JobOK(j, c, cards2, hist2, pairs2)
BY DEF JobOK, NoticeOK, RecordOK, RecallOK

\* A step of a call in the middle of its resolution.
Moves(c, d) ==
    d = c \/ (c.pc \in {"row", "look", "insert"} /\ (d.pc = "failed" \/ d.app = c.app))

LEMMA JobMoves ==
    ASSUME NEW j, NEW c, NEW d, NEW cards, NEW hist, NEW pairs, NEW pairs2, Moves(c, d),
           JobOK(j, c, cards, hist, pairs), j.goal = "notice" => pairs \subseteq pairs2
    PROVE  JobOK(j, d, cards, hist, pairs2)
BY DEF JobOK, NoticeOK, RecordOK, RecallOK, Moves, NoCall

\* What a notice of an actor may be sent with grows while it is under way.
LEMMA Observes ==
    ASSUME Observe
    PROVE  /\ possible' = [k \in Actors |-> possible'[k]]
           /\ \A k \in Actors : job'[k].goal = "notice" =>
                 /\ possible[k] \subseteq possible'[k]
                 /\ \A p \in Projects : job'[k].project = p => Configured(p)' \in possible'[k]
<1>1. possible' = [k \in Actors |->
                     IF job'[k].goal # "notice" THEN {}
                     ELSE possible[k] \cup
                            UNION {IF p = job'[k].project THEN {Configured(p)'} ELSE {} :
                                     p \in Projects}]
    BY DEF Observe
<1>2. ASSUME NEW k \in Actors, job'[k].goal = "notice", NEW q \in Projects
      PROVE  /\ possible[k] \subseteq possible'[k]
             /\ job'[k].project = q => Configured(q)' \in possible'[k]
    <2> DEFINE part(p) == IF p = job'[k].project THEN {Configured(p)'} ELSE {}
    <2>1. possible'[k] = possible[k] \cup UNION {part(p) : p \in Projects} BY <1>1, <1>2
    <2>2. job'[k].project = q => Configured(q)' \in part(q) OBVIOUS
    <2> HIDE DEF part
    <2>3. part(q) \in {part(p) : p \in Projects} OBVIOUS
    <2> QED BY <2>1, <2>2, <2>3
<1>3. ASSUME NEW k \in Actors, job'[k].goal = "notice" PROVE possible[k] \subseteq possible'[k]
    BY <1>1, <1>3
<1> QED BY <1>1, <1>2, <1>3

-----------------------------------------------------------------------------
(* The steps of the applications. *)

LEMMA AppCore ==
    ASSUME AInv, AppStep
    PROVE  /\ AppTables' /\ Requested' /\ Calls'
           /\ \A k \in Actors : Moves(call[k], call'[k])
<1> USE AppsAssumption
<1>1. /\ AppTables /\ Requested /\ Calls
      /\ \A k \in Actors : CallOK(call[k], app)
    BY DEF AInv, Calls
<1>2. ASSUME UNCHANGED call PROVE \A k \in Actors : Moves(call[k], call'[k])
    BY <1>2 DEF Moves
<1>3. ASSUME UNCHANGED call, app' \in [Apps -> [version : Versions, active : BOOLEAN]],
             \A a \in Apps : app[a].version <= app'[a].version
      PROVE  Calls'
    <2>1. app \in [Apps -> [version : Versions, active : BOOLEAN]] BY <1>1 DEF AppTables
    <2>2. \A k \in Actors : CallOK(call'[k], app') BY <1>1, <1>3, <2>1, CallStays
    <2> QED BY <1>1, <1>3, <2>2 DEF Calls
<1>4. ASSUME NEW a \in Apps, CreateApp(a) PROVE AppTables' /\ Requested' /\ Calls'
    <2>1. /\ app' = [app EXCEPT ![a] = [version |-> 1, active |-> TRUE]] /\ app[a].version = 0
          /\ edits' = edits + 1 /\ edits < MaxEdits
          /\ UNCHANGED <<binding, request, boot, clients, forgets, call>>
        BY <1>1, <1>4 DEF CreateApp, Edit, Exists, AppTables, Versions
    <2>2. /\ app' \in [Apps -> [version : Versions, active : BOOLEAN]]
          /\ \A c \in Apps : /\ app[c].version <= app'[c].version
                             /\ app[c].active => app'[c].active
        BY <1>1, <2>1 DEF AppTables, Versions
    <2>3. AppTables' BY <1>1, <2>1, <2>2 DEF AppTables, Newest, Versions
    <2>4. Requested' BY <1>1, <2>1, <2>2 DEF Requested, Binds, Configures, Chooses
    <2> QED BY <2>1, <2>2, <2>3, <2>4, <1>3
<1>5. ASSUME NEW a \in Apps, NEW active \in BOOLEAN, ReplaceApp(a, active)
      PROVE  AppTables' /\ Requested' /\ Calls'
    <2>1. /\ app' = [app EXCEPT ![a] = [version |-> app[a].version + 1, active |-> active]]
          /\ ~Locked(a) /\ edits' = edits + 1 /\ edits < MaxEdits
          /\ forgets' \subseteq Apps
          /\ UNCHANGED <<binding, request, boot, clients, call>>
        BY <1>1, <1>5 DEF ReplaceApp, Edit, AppTables
    <2>2. app[a].version + 1 \in Versions BY <1>1, <2>1 DEF AppTables, Versions
    <2>3. /\ app' \in [Apps -> [version : Versions, active : BOOLEAN]]
          /\ \A c \in Apps : app[c].version <= app'[c].version
        BY <1>1, <2>1, <2>2 DEF AppTables, Versions
    <2>4. AppTables' BY <1>1, <2>1, <2>3 DEF AppTables, Newest, Versions
    <2>5. Requested'
        <3>1. Binds => Binds' BY <1>1, <2>1 DEF Binds, Locked, AppTables
        <3> QED BY <1>1, <2>1, <3>1 DEF Requested, Configures, Chooses
    <2> QED BY <2>1, <2>3, <2>4, <2>5, <1>3
<1>6. ASSUME NEW a \in Apps, ForgetClient(a) PROVE AppTables' /\ Requested' /\ Calls'
    <2>1. AppTables' BY <1>1, <1>6 DEF ForgetClient, AppTables, Newest, Versions
    <2>2. Requested' BY <1>1, <1>6 DEF ForgetClient, Requested, Binds, Configures, Chooses
    <2> QED BY <1>1, <1>6, <2>1, <2>2 DEF ForgetClient, Calls
<1>7. ASSUME NEW p \in Projects, NEW a \in Apps, NEW kind \in {"bind", "bindNotice"},
             BeginBind(kind, p, a)
      PROVE  AppTables' /\ Requested' /\ Calls'
    <2>1. /\ request = NoRequest /\ app[a].active /\ edits' = edits + 1 /\ edits < MaxEdits
          /\ request' = [kind |-> kind, project |-> p, app |-> a, wanted |-> a]
          /\ UNCHANGED <<app, binding, boot, clients, forgets, call>>
        BY <1>7 DEF BeginBind, LockActiveApp, Edit
    <2>2. request' # NoRequest BY <2>1 DEF NoRequest
    <2>3. AppTables' BY <1>1, <2>1, <2>2 DEF AppTables, Newest, Versions
    <2>4. Binds' BY <2>1 DEF Binds
    <2> QED BY <1>1, <2>1, <2>3, <2>4 DEF Calls, Requested
<1>8. ASSUME CommitBind PROVE AppTables' /\ Requested' /\ Calls'
    <2>1. Binds BY <1>1, <1>8 DEF CommitBind, Requested, NoRequest, Configures, Chooses
    <2>2. request.project \in Projects /\ request.wanted \in Apps /\ request # NoRequest
        BY <2>1 DEF Binds, NoRequest
    <2>3. AppTables'
        BY <1>1, <1>8, <2>2 DEF CommitBind, AppTables, Newest, Versions, AppOrNone
    <2> QED BY <1>1, <1>8, <2>3 DEF CommitBind, Calls, Requested
<1>9. ASSUME AbortRequest PROVE AppTables' /\ Requested' /\ Calls'
    <2>1. AppTables' BY <1>1, <1>9 DEF AbortRequest, AppTables, Newest, Versions
    <2> QED BY <1>1, <1>9, <2>1 DEF AbortRequest, Calls, Requested
<1>10. ASSUME NEW p \in Projects, UnbindProject(p) PROVE AppTables' /\ Requested' /\ Calls'
    <2>1. AppTables'
        BY <1>1, <1>10 DEF UnbindProject, Edit, AppTables, Newest, Versions, AppOrNone
    <2>2. Requested' BY <1>1, <1>10 DEF UnbindProject, Requested, Binds, Configures, Chooses
    <2> QED BY <1>1, <1>10, <2>1, <2>2 DEF UnbindProject, Calls
<1>11. ASSUME NEW k \in Actors, ReadRow(k) \/ LookUpClient(k) \/ InsertClient(k)
       PROVE  AppTables' /\ Requested' /\ Calls' /\ \A l \in Actors : Moves(call[l], call'[l])
    <2>0. /\ app \in [Apps -> [version : Versions, active : BOOLEAN]]
          /\ clients \in [Apps -> Versions]
        BY <1>1 DEF AppTables
    <2>1. /\ CallOK(call'[k], app) /\ Moves(call[k], call'[k])
          /\ call' = [l \in Actors |-> IF l = k THEN call'[k] ELSE call[l]]
          /\ UNCHANGED <<app, binding, request, boot, forgets, edits>>
          /\ clients' \in [Apps -> Versions] /\ \A a \in Apps : clients'[a] <= app[a].version
        <3>1. CASE ReadRow(k)
            <4> DEFINE a == call[k].app
            <4>1. a \in Apps \ {Default} /\ call[k].floor <= app[a].version /\ call[k].pc = "row"
                BY <1>1, <3>1 DEF ReadRow, CallOK, CallType
            <4>2. CASE Exists(a) /\ app[a].active
                <5>1. call' = [call EXCEPT ![k] = [call[k] EXCEPT !.pc = "look", !.row = app[a].version]]
                    BY <3>1, <4>2 DEF ReadRow
                <5> DEFINE new == [call[k] EXCEPT !.pc = "look", !.row = app[a].version]
                <5>2. new \in CallType BY <1>1, <2>0, <4>1 DEF CallOK, CallType
                <5>3. new.pc = "look" /\ new.app = a /\ new.row = app[a].version
                      /\ new.floor = call[k].floor
                    BY <1>1 DEF CallOK, CallType
                <5> HIDE DEF new
                <5>4. CallOK(new, app)
                    <6>1. app[a].version \in Nat BY <2>0, <4>1 DEF Versions
                    <6> QED BY <4>1, <5>2, <5>3, <6>1 DEF CallOK, CallType, Versions
                <5> QED BY <1>1, <3>1, <4>1, <5>1, <5>3, <5>4 DEF ReadRow, AppTables, Calls, Moves, new
            <4>3. CASE ~(Exists(a) /\ app[a].active)
                <5>1. call' = [call EXCEPT ![k] = Failed] BY <3>1, <4>3 DEF ReadRow
                <5>2. CallOK(Failed, app) BY DEF Failed, NoCall, CallOK, CallType, Versions, AppOrNone
                <5>3. Failed.pc = "failed" BY DEF Failed, NoCall
                <5> QED BY <1>1, <3>1, <4>1, <5>1, <5>2, <5>3 DEF ReadRow, AppTables, Calls, Moves
            <4> QED BY <4>2, <4>3
        <3>2. CASE LookUpClient(k)
            <4> DEFINE a == call[k].app
                       hit == [call[k] EXCEPT !.pc = "ready", !.version = clients[a], !.row = 0]
                       miss == [call[k] EXCEPT !.pc = "insert"]
            <4>1. /\ a \in Apps \ {Default} /\ call[k].pc = "look"
                  /\ call[k].row \in call[k].floor .. app[a].version
                BY <1>1, <3>2 DEF LookUpClient, CallOK, CallType
            <4>2. clients[a] = call[k].row => CallOK(hit, app)
                <5>0. /\ call[k] \in CallType /\ 0 \in Versions /\ clients[a] \in Versions
                    BY <1>1, <2>0, <4>1 DEF CallOK, Versions
                <5>1. hit \in CallType BY <5>0 DEF CallType
                <5>2. hit.pc = "ready" /\ hit.app = a /\ hit.version = clients[a]
                      /\ hit.floor = call[k].floor
                    BY <1>1 DEF CallOK, CallType
                <5> HIDE DEF hit
                <5> QED BY <4>1, <5>1, <5>2 DEF CallOK
            <4>3. CallOK(miss, app) BY <1>1, <2>0, <4>1 DEF CallOK, CallType
            <4>4. call' = [call EXCEPT ![k] = IF clients[a] = call[k].row THEN hit ELSE miss]
                BY <3>2 DEF LookUpClient, Hit
            <4>5. hit.app = a /\ miss.app = a BY <1>1 DEF CallOK, CallType
            <4> HIDE DEF hit, miss
            <4> QED BY <1>1, <3>2, <4>1, <4>2, <4>3, <4>4, <4>5
                    DEF LookUpClient, AppTables, Calls, Moves
        <3>3. CASE InsertClient(k)
            <4> DEFINE a == call[k].app
                       got == [call[k] EXCEPT !.pc = "ready", !.version = call[k].row, !.row = 0]
            <4>1. /\ a \in Apps \ {Default} /\ call[k].pc = "insert"
                  /\ call[k].row \in call[k].floor .. app[a].version /\ call[k].row \in Versions
                BY <1>1, <3>3 DEF InsertClient, CallOK, CallType
            <4>2. CallOK(got, app)
                <5>0. call[k] \in CallType /\ 0 \in Versions BY <1>1 DEF CallOK, Versions
                <5>1. got \in CallType BY <4>1, <5>0 DEF CallType
                <5>2. got.pc = "ready" /\ got.app = a /\ got.version = call[k].row
                      /\ got.floor = call[k].floor
                    BY <1>1 DEF CallOK, CallType
                <5> HIDE DEF got
                <5> QED BY <4>1, <5>1, <5>2 DEF CallOK
            <4>3. call' = [call EXCEPT ![k] = got] /\ got.app = a
                BY <1>1, <3>3 DEF InsertClient, CallOK, CallType
            <4>4. clients' = [clients EXCEPT ![a] = call[k].row] BY <3>3 DEF InsertClient
            <4>5. call[k].row <= app[a].version BY <2>0, <4>1, <1>1 DEF CallOK, CallType, Versions
            <4> HIDE DEF got
            <4> QED BY <1>1, <3>3, <4>1, <4>2, <4>3, <4>4, <4>5
                    DEF InsertClient, AppTables, Calls, Moves
        <3> QED BY <1>11, <3>1, <3>2, <3>3
    <2>2. AppTables' BY <1>1, <2>1 DEF AppTables, Newest
    <2>3. Requested' BY <1>1, <2>1 DEF Requested, Binds, Configures, Chooses
    <2>4. Calls' BY <1>1, <2>1 DEF Calls
    <2>5. \A l \in Actors : Moves(call[l], call'[l]) BY <2>1 DEF Moves
    <2> QED BY <2>2, <2>3, <2>4, <2>5
<1>12. ASSUME NEW a \in Apps, NEW active \in BOOLEAN,
              \/ CreateApp(a) \/ ForgetClient(a) \/ ReplaceApp(a, active)
              \/ CommitBind \/ AbortRequest
       PROVE  UNCHANGED call
    BY <1>12 DEF CreateApp, ForgetClient, ReplaceApp, CommitBind, AbortRequest
<1>13. ASSUME NEW p \in Projects, NEW a \in Apps, NEW kind \in {"bind", "bindNotice"},
              BeginBind(kind, p, a) \/ UnbindProject(p)
       PROVE  UNCHANGED call
    BY <1>13 DEF BeginBind, UnbindProject
<1>14. CASE \E a \in Apps : CreateApp(a) \/ ForgetClient(a)
    BY <1>2, <1>4, <1>6, <1>12, <1>14
<1>15. CASE \E a \in Apps, active \in BOOLEAN : ReplaceApp(a, active)
    BY <1>2, <1>5, <1>12, <1>15
<1>16. CASE \E p \in Projects, a \in Apps, kind \in {"bind", "bindNotice"} : BeginBind(kind, p, a)
    BY <1>2, <1>7, <1>13, <1>16
<1>17. CASE CommitBind \/ AbortRequest
    <2>1. UNCHANGED call BY <1>17 DEF CommitBind, AbortRequest
    <2> QED BY <1>2, <1>8, <1>9, <1>17, <2>1
<1>18. CASE \E p \in Projects : UnbindProject(p)
    <2>1. UNCHANGED call BY <1>18 DEF UnbindProject
    <2> QED BY <1>2, <1>10, <1>18, <2>1
<1>19. CASE \E k \in Actors : ReadRow(k) \/ LookUpClient(k) \/ InsertClient(k)
    BY <1>11, <1>19
<1> QED BY <1>14, <1>15, <1>16, <1>17, <1>18, <1>19 DEF AppStep

LEMMA AppKeeps ==
    ASSUME AInv, AppStep, UNCHANGED auditVars, Observe
    PROVE  AInv'
<1>1. /\ AppTables' /\ Requested' /\ Calls'
      /\ \A k \in Actors : Moves(call[k], call'[k])
    BY AppCore
<1>2. UNCHANGED <<config, target, bound, job, card, history, blurred>> BY DEF auditVars
<1>3. Choices' /\ CardsOK' /\ SendersDiffer' /\ RecallsAreRecorded'
    BY <1>2 DEF AInv, Choices, CardsOK, SendersDiffer, RecallsAreRecorded
<1>4. Jobs'
    <2>1. ASSUME NEW k \in Actors PROVE JobOK(job'[k], call'[k], card', history', possible'[k])
        BY <1>1, <1>2, Observes, JobMoves DEF AInv, Jobs
    <2> QED BY <1>2, <2>1, Observes DEF AInv, Jobs
<1> QED BY <1>1, <1>3, <1>4 DEF AInv

-----------------------------------------------------------------------------
(* The steps of the configurations. *)

LEMMA ConfigCore ==
    ASSUME AInv, ConfigStep
    PROVE  /\ AppTables' /\ Requested' /\ Choices'
           /\ UNCHANGED <<app, call, job, card, history, blurred>>
<1> USE AppsAssumption, AuditAssumption
<1>1. AppTables /\ Requested /\ Choices BY DEF AInv
<1>2. ASSUME NEW c \in Configs, NEW a \in Apps, NEW active \in BOOLEAN, CheckConfig(c, a, active)
      PROVE  /\ AppTables' /\ Requested' /\ Choices'
             /\ UNCHANGED <<app, call, job, card, history, blurred>>
    <2>1. /\ edits' = edits + 1 /\ edits < MaxEdits
          /\ request' = [kind |-> "config", config |-> c, wanted |-> a, active |-> active]
          /\ UNCHANGED <<app, binding, boot, clients, forgets, call>>
          /\ UNCHANGED <<config, target, bound, job, card, history, blurred>>
        BY <1>2 DEF CheckConfig, Edit, auditVars
    <2>2. AppTables' BY <1>1, <1>2, <2>1 DEF CheckConfig, AppTables, Newest, NoRequest, Versions
    <2>3. Configures' BY <2>1 DEF Configures
    <2> QED BY <1>1, <2>1, <2>2, <2>3 DEF Requested, Choices
<1>3. ASSUME request # NoRequest, request' = NoRequest,
             UNCHANGED <<app, binding, boot, clients, forgets, call, edits>>
      PROVE  AppTables' /\ Requested'
    <2>1. AppTables' BY <1>1, <1>3 DEF AppTables, Newest, Versions
    <2> QED BY <1>3, <2>1 DEF Requested
<1>4. CASE SaveConfig
    <2>1. Configures BY <1>1, <1>4 DEF SaveConfig, Requested, NoRequest, Binds, Chooses
    <2>2. /\ request.config \in Configs /\ request # NoRequest
          /\ [exists |-> TRUE, app |-> request.wanted, active |-> request.active]
                \in [exists : BOOLEAN, app : AppOrNone, active : BOOLEAN]
        BY <2>1 DEF Configures, NoRequest, AppOrNone
    <2>3. Choices' BY <1>1, <1>4, <2>2 DEF SaveConfig, Choices
    <2> QED BY <1>3, <1>4, <2>2, <2>3 DEF SaveConfig
<1>5. ASSUME Edit, UNCHANGED <<app, binding, request, boot, clients, forgets, call>>
      PROVE  AppTables' /\ Requested'
    <2>1. AppTables' BY <1>1, <1>5 DEF Edit, AppTables, Newest, Versions
    <2>2. Requested' BY <1>1, <1>5 DEF Requested, Binds, Configures, Chooses
    <2> QED BY <2>1, <2>2
<1>6. ASSUME NEW c \in Configs, DeleteConfig(c)
      PROVE  /\ AppTables' /\ Requested' /\ Choices'
             /\ UNCHANGED <<app, call, job, card, history, blurred>>
    <2>1. /\ UNCHANGED <<app, binding, request, boot, clients, forgets, call>>
          /\ UNCHANGED <<bound, job, card, history, blurred>> /\ Edit
          /\ config' = [config EXCEPT ![c] = [exists |-> FALSE, app |-> NoApp, active |-> FALSE]]
          /\ target' = [t \in Targets |-> IF target[t].config = c
                           THEN [target[t] EXCEPT !.config = None] ELSE target[t]]
          /\ \A p \in Projects : bound[p].config # c
        BY <1>6 DEF DeleteConfig, IsBoundConfig
    <2>2. config' \in [Configs -> [exists : BOOLEAN, app : AppOrNone, active : BOOLEAN]]
        BY <1>1, <2>1 DEF Choices, AppOrNone
    <2>3. target' \in [Targets -> [config : Configs \cup {None},
                                   receiver : Receivers \cup {None}, active : BOOLEAN]]
        BY <1>1, <2>1 DEF Choices
    <2>4. ASSUME NEW p \in Projects, bound[p] # NoBinding
          PROVE  target'[bound[p].target].config = bound[p].config
        BY <1>1, <2>1, <2>4 DEF Choices
    <2>5. Choices' BY <1>1, <2>1, <2>2, <2>3, <2>4 DEF Choices
    <2> QED BY <1>5, <2>1, <2>5
<1>7. ASSUME NEW t \in Targets, NEW c \in Configs, NEW r \in Receivers, NEW active \in BOOLEAN,
             SaveTarget(t, c, r, active)
      PROVE  /\ AppTables' /\ Requested' /\ Choices'
             /\ UNCHANGED <<app, call, job, card, history, blurred>>
    <2>1. /\ UNCHANGED <<app, binding, request, boot, clients, forgets, call>>
          /\ UNCHANGED <<config, bound, job, card, history, blurred>> /\ Edit
          /\ target' = [target EXCEPT ![t] = [config |-> c, receiver |-> r, active |-> active]]
          /\ target[t].config \in {None, c}
        BY <1>7 DEF SaveTarget
    <2>2. Choices' BY <1>1, <2>1 DEF Choices
    <2> QED BY <1>5, <2>1, <2>2
<1>8. ASSUME NEW t \in Targets, DeleteTarget(t)
      PROVE  /\ AppTables' /\ Requested' /\ Choices'
             /\ UNCHANGED <<app, call, job, card, history, blurred>>
    <2>1. /\ UNCHANGED <<app, binding, request, boot, clients, forgets, call>>
          /\ UNCHANGED <<config, bound, job, card, history, blurred>> /\ Edit
          /\ target' = [target EXCEPT ![t] = [target[t] EXCEPT !.config = None]]
          /\ \A p \in Projects : bound[p].target # t
        BY <1>8 DEF DeleteTarget, IsBoundTarget
    <2>2. Choices' BY <1>1, <2>1 DEF Choices
    <2> QED BY <1>5, <2>1, <2>2
<1>9. ASSUME NEW p \in Projects, NEW c \in Configs, NEW t \in Targets, CheckBinding(p, c, t)
      PROVE  /\ AppTables' /\ Requested' /\ Choices'
             /\ UNCHANGED <<app, call, job, card, history, blurred>>
    <2>1. /\ edits' = edits + 1 /\ edits < MaxEdits
          /\ request' = [kind |-> "bindConfig", project |-> p, config |-> c, target |-> t]
          /\ UNCHANGED <<app, binding, boot, clients, forgets, call>>
          /\ UNCHANGED <<config, target, bound, job, card, history, blurred>>
        BY <1>9 DEF CheckBinding, Edit, auditVars
    <2>2. AppTables' BY <1>1, <1>9, <2>1 DEF CheckBinding, AppTables, Newest, NoRequest, Versions
    <2>3. Chooses' BY <2>1 DEF Chooses
    <2> QED BY <1>1, <2>1, <2>2, <2>3 DEF Requested, Choices
<1>10. CASE SaveBinding
    <2>1. Chooses BY <1>1, <1>10 DEF SaveBinding, Requested, NoRequest, Binds, Configures
    <2>2. /\ request.project \in Projects /\ request.config \in Configs
          /\ request.target \in Targets /\ request # NoRequest
        BY <2>1 DEF Chooses, NoRequest
    <2>3. /\ bound' = [bound EXCEPT ![request.project] =
                         [config |-> request.config, target |-> request.target]]
          /\ target[request.target].config = request.config
          /\ UNCHANGED <<config, target>>
        BY <1>10 DEF SaveBinding
    <2>4. Choices' BY <1>1, <2>2, <2>3 DEF Choices
    <2> QED BY <1>3, <1>10, <2>2, <2>4 DEF SaveBinding
<1>11. ASSUME NEW p \in Projects, NEW a \in AppOrNone, SetNoticeApp(p, a),
              UNCHANGED <<target, bound>>
       PROVE  Choices'
    <2>1. CASE bound[p] = NoBinding BY <1>1, <1>11, <2>1 DEF SetNoticeApp, Choices
    <2>2. CASE bound[p] # NoBinding
        <3>1. /\ config' = [config EXCEPT ![bound[p].config] = [config[bound[p].config] EXCEPT !.app = a]]
              /\ bound[p].config \in Configs
            BY <1>1, <1>11, <2>2 DEF SetNoticeApp, Choices
        <3>2. config' \in [Configs -> [exists : BOOLEAN, app : AppOrNone, active : BOOLEAN]]
            BY <1>1, <3>1 DEF Choices
        <3> QED BY <1>1, <1>11, <3>2 DEF Choices
    <2> QED BY <2>1, <2>2
<1>12. CASE CommitBindNotice
    <2>1. Binds BY <1>1, <1>12 DEF CommitBindNotice, Requested, NoRequest, Configures, Chooses
    <2>2. request.project \in Projects /\ request.wanted \in AppOrNone /\ request # NoRequest
        BY <2>1 DEF Binds, NoRequest, AppOrNone
    <2>3. Choices' BY <1>11, <1>12, <2>2 DEF CommitBindNotice
    <2> QED BY <1>3, <1>12, <2>2, <2>3 DEF CommitBindNotice
<1>13. ASSUME NEW p \in Projects, Unbind(p)
       PROVE  /\ AppTables' /\ Requested' /\ Choices'
              /\ UNCHANGED <<app, call, job, card, history, blurred>>
    <2>1. Choices' BY <1>1, <1>13 DEF Unbind, Choices
    <2> QED BY <1>5, <1>13, <2>1 DEF Unbind
<1>14. ASSUME NEW p \in Projects, UnbindNotice(p)
       PROVE  /\ AppTables' /\ Requested' /\ Choices'
              /\ UNCHANGED <<app, call, job, card, history, blurred>>
    <2>1. NoApp \in AppOrNone BY DEF AppOrNone
    <2>2. Choices' BY <1>11, <1>14, <2>1 DEF UnbindNotice
    <2> QED BY <1>5, <1>14, <2>2 DEF UnbindNotice
<1>15. ASSUME NEW p \in Projects, NEW r \in Receivers, UpdateNotification(p, r)
       PROVE  /\ AppTables' /\ Requested' /\ Choices'
              /\ UNCHANGED <<app, call, job, card, history, blurred>>
    <2> DEFINE t == bound[p].target
    <2>1. /\ UNCHANGED <<app, binding, request, boot, clients, forgets, call>>
          /\ UNCHANGED <<config, bound, job, card, history, blurred>> /\ Edit
          /\ target' = [target EXCEPT ![t] = [target[t] EXCEPT !.receiver = r]]
          /\ t \in Targets
        BY <1>1, <1>15 DEF UpdateNotification, Choices
    <2> HIDE DEF t
    <2>2. /\ target' \in [Targets -> [config : Configs \cup {None},
                                      receiver : Receivers \cup {None}, active : BOOLEAN]]
          /\ \A u \in Targets : target'[u].config = target[u].config
        BY <1>1, <2>1 DEF Choices
    <2>3. Choices' BY <1>1, <2>1, <2>2 DEF Choices
    <2> QED BY <1>5, <2>1, <2>3
<1>16. CASE \/ \E c \in Configs, a \in Apps, active \in BOOLEAN : CheckConfig(c, a, active)
            \/ SaveConfig \/ \E c \in Configs : DeleteConfig(c)
    BY <1>2, <1>3, <1>4, <1>6, <1>16 DEF SaveConfig
<1>17. CASE \/ \E t \in Targets, c \in Configs, r \in Receivers, active \in BOOLEAN :
                  SaveTarget(t, c, r, active)
            \/ \E t \in Targets : DeleteTarget(t)
    BY <1>7, <1>8, <1>17
<1>18. CASE \E p \in Projects, c \in Configs, t \in Targets : CheckBinding(p, c, t)
    BY <1>9, <1>18
<1>19. CASE SaveBinding \/ CommitBindNotice
    BY <1>10, <1>12, <1>19 DEF SaveBinding, CommitBindNotice
<1>20. CASE \/ \E p \in Projects : Unbind(p) \/ UnbindNotice(p)
            \/ \E p \in Projects, r \in Receivers : UpdateNotification(p, r)
    BY <1>13, <1>14, <1>15, <1>20
<1> QED BY <1>16, <1>17, <1>18, <1>19, <1>20 DEF ConfigStep

LEMMA ConfigKeeps ==
    ASSUME AInv, ConfigStep, Observe
    PROVE  AInv'
<1>1. /\ AppTables' /\ Requested' /\ Choices'
      /\ UNCHANGED <<app, call, job, card, history, blurred>>
    BY ConfigCore
<1>2. Calls' /\ CardsOK' /\ SendersDiffer' /\ RecallsAreRecorded'
    BY <1>1 DEF AInv, Calls, CardsOK, SendersDiffer, RecallsAreRecorded
<1>3. Jobs'
    <2>1. ASSUME NEW k \in Actors PROVE JobOK(job'[k], call'[k], card', history', possible'[k])
        <3>1. Moves(call[k], call'[k]) BY <1>1 DEF Moves
        <3> QED BY <1>1, <3>1, Observes, JobMoves DEF AInv, Jobs
    <2> QED BY <1>1, <2>1, Observes DEF AInv, Jobs
<1> QED BY <1>1, <1>2, <1>3 DEF AInv

-----------------------------------------------------------------------------
(* The steps of an actor with a card. *)

\* What a step of one actor leaves to the cards of the others.
Spares(j) ==
    /\ j.pc = "record" =>
          /\ card'[j.card] = card[j.card]
          /\ history'[j.card].exists = history[j.card].exists
    /\ j.goal = "recall" =>
          /\ history[j.card].exists => history'[j.card].exists
          /\ card[j.card].gone => card'[j.card].gone
          /\ card'[j.card].app = card[j.card].app

AppsRest == UNCHANGED <<app, binding, request, boot, clients, forgets, edits, config, target, bound>>

LEMMA ActorKeeps ==
    ASSUME AInv, Observe, AppsRest, NEW k \in Actors,
           job' = [job EXCEPT ![k] = job'[k]], call' = [call EXCEPT ![k] = call'[k]],
           CallOK(call'[k], app), JobOK(job'[k], call'[k], card', history', possible'[k]),
           job'[k].pc = "record" =>
              \A l \in Actors \ {k} : job[l].pc = "record" => job[l].card # job'[k].card,
           \A l \in Actors \ {k} : Spares(job[l]),
           CardsOK', RecallsAreRecorded'
    PROVE  AInv'
<1>1. AppTables' /\ Requested' /\ Choices'
    BY DEF AInv, AppsRest, AppTables, Newest, Requested, Binds, Configures, Chooses, Choices
<1>2. \A l \in Actors \ {k} : job'[l] = job[l] /\ call'[l] = call[l]
    BY DEF AInv, Jobs, Calls
<1>3. Calls' BY <1>2 DEF AInv, Calls, AppsRest
<1>4. Jobs'
    <2>1. ASSUME NEW l \in Actors \ {k}
          PROVE  JobOK(job'[l], call'[l], card', history', possible'[l])
        <3>1. JobOK(job[l], call[l], card, history, possible[l]) BY DEF AInv, Jobs
        <3>2. job[l].goal = "notice" => possible[l] \subseteq possible'[l] BY <1>2, Observes
        <3>3. JobOK(job[l], call[l], card', history', possible'[l])
            BY <3>1, <3>2, JobStays DEF Spares
        <3> QED BY <1>2, <3>3
    <2>2. job' = [l \in Actors |-> job'[l]] BY DEF AInv, Jobs
    <2> QED BY <2>1, <2>2, Observes DEF Jobs
<1>5. SendersDiffer' BY <1>2 DEF AInv, SendersDiffer
<1> QED BY <1>1, <1>3, <1>4, <1>5 DEF AInv

\* A step that sends, records and recalls nothing.
LEMMA QuietKeeps ==
    ASSUME AInv, Observe, AppsRest, NEW k \in Actors, UNCHANGED <<card, history, blurred>>,
           job' = [job EXCEPT ![k] = job'[k]], call' = [call EXCEPT ![k] = call'[k]],
           job[k].pc # "recalled", job'[k].pc # "record",
           CallOK(call'[k], app), JobOK(job'[k], call'[k], card, history, possible'[k])
    PROVE  AInv'
<1>1. CardsOK' BY DEF AInv, CardsOK
<1>2. RecallsAreRecorded'
    <2>1. \A l \in Actors : job[l].pc = "recalled" => job'[l] = job[l] BY DEF AInv, Jobs
    <2> QED BY <2>1 DEF AInv, RecallsAreRecorded
<1>3. \A l \in Actors \ {k} : Spares(job[l]) BY DEF Spares
<1> QED BY <1>1, <1>2, <1>3, ActorKeeps

\* The call that Resolve begins is for the application it was given, if any.
LEMMA Resolves ==
    ASSUME AInv, NEW a \in AppOrNone
    PROVE  /\ CallOK(Resolve(a), app) /\ Resolve(a).pc \in {"row", "ready"}
           /\ a # NoApp => Resolve(a).app = a
<1> USE AppsAssumption
<1>1. /\ app \in [Apps -> [version : Versions, active : BOOLEAN]] /\ boot \in Versions
      /\ 0 \in Versions
    BY DEF AInv, AppTables, Versions
<1>2. CASE a \in {NoApp, Default}
    <2>1. Resolve(a) = [pc |-> "ready", app |-> Default, row |-> 0, version |-> boot, floor |-> 0]
        BY <1>2 DEF Resolve, NoCall
    <2> QED BY <1>1, <1>2, <2>1 DEF CallOK, CallType, AppOrNone
<1>3. CASE a \notin {NoApp, Default}
    <2>1. Resolve(a) = [pc |-> "row", app |-> a, row |-> 0, version |-> 0, floor |-> app[a].version]
        BY <1>3 DEF Resolve, NoCall
    <2>2. a \in Apps BY <1>3 DEF AppOrNone
    <2>3. app[a].version \in Versions /\ app[a].version <= app[a].version
        BY <1>1, <2>2 DEF Versions
    <2> QED BY <1>1, <1>3, <2>1, <2>2, <2>3 DEF CallOK, CallType, AppOrNone
<1> QED BY <1>2, <1>3

LEMMA Idle ==
    ASSUME NEW cards, NEW hist, NEW pairs
    PROVE  /\ JobOK(NoJob, NoCall, cards, hist, pairs) /\ CallOK(NoCall, app)
           /\ NoJob.pc = "idle" /\ NoJob.goal = "none" /\ NoJob \in JobType
BY AppsAssumption
   DEF NoJob, Job, NoCall, JobOK, NoticeOK, RecordOK, RecallOK, CallOK, CallType, JobType, AppOrNone,
       Versions

LEMMA CardStepKeeps ==
    ASSUME AInv, Observe, NEW k \in Actors, CardStep(k)
    PROVE  AInv'
<1> USE AppsAssumption, AuditAssumption
<1> DEFINE j == job[k]
           c == call[k]
<1>1. /\ AppTables /\ Choices /\ CardsOK /\ Jobs /\ Calls /\ RecallsAreRecorded /\ SendersDiffer
      /\ JobOK(j, c, card, history, possible[k]) /\ CallOK(c, app) /\ j \in JobType
    BY DEF AInv, Jobs, Calls, JobOK
<1>2. ASSUME NEW p \in Projects, StartNotice(k, p) PROVE AInv'
    <2> DEFINE g == [goal |-> "notice", pc |-> "resolve", project |-> p,
                     app |-> config[bound[p].config].app,
                     receiver |-> target[bound[p].target].receiver, card |-> None]
    <2>1. /\ job[k] = NoJob /\ job' = [job EXCEPT ![k] = g] /\ UNCHANGED <<call, card, history, blurred>>
          /\ AppsRest /\ bound[p] # NoBinding
        BY <1>2 DEF StartNotice, Job, Begin, AppsRest
    <2>2. c = NoCall BY <1>1, <2>1, Idle DEF JobOK
    <2>3. g \in JobType
        <3>1. config[bound[p].config].app \in AppOrNone
              /\ target[bound[p].target].receiver \in Receivers \cup {None}
            BY <1>1, <2>1 DEF Choices
        <3> QED BY <3>1 DEF JobType
    <2>4. job'[k] = g BY <1>1, <2>1 DEF Jobs
    <2>5. <<g.app, g.receiver>> \in possible'[k]
        <3>1. Configured(p)' \in possible'[k] BY <2>4, Observes
        <3>2. Configured(p)' = <<config'[bound'[p].config].app, target'[bound'[p].target].receiver>>
            BY <2>1 DEF Configured, AppsRest
        <3>3. Configured(p)' = <<g.app, g.receiver>> BY <2>1, <3>2 DEF AppsRest
        <3> QED BY <3>1, <3>3
    <2>6. JobOK(g, NoCall, card, history, possible'[k])
        BY <2>3, <2>5 DEF JobOK, NoticeOK, RecordOK, RecallOK
    <2>7. g.pc = "resolve" /\ j.pc = "idle" BY <2>1, Idle
    <2> HIDE DEF g
    <2>8. call' = [call EXCEPT ![k] = call'[k]] /\ call'[k] = NoCall BY <1>1, <2>1, <2>2 DEF Calls
    <2> QED BY <1>1, <2>1, <2>2, <2>4, <2>6, <2>7, <2>8, QuietKeeps
<1>3. ASSUME NEW p \in Projects, StartReport(k, p) PROVE AInv'
    <2> DEFINE a == IF bound[p] = NoBinding THEN NoApp ELSE config[bound[p].config].app
               g == [goal |-> "card", pc |-> "resolve", project |-> p, app |-> a,
                     receiver |-> None, card |-> None]
    <2>1. /\ job[k] = NoJob /\ job' = [job EXCEPT ![k] = g] /\ UNCHANGED <<call, card, history, blurred>>
          /\ AppsRest
        BY <1>3 DEF StartReport, Job, Begin, AppsRest
    <2>2. c = NoCall BY <1>1, <2>1, Idle DEF JobOK
    <2>3. a \in AppOrNone BY <1>1 DEF Choices, AppOrNone
    <2> HIDE DEF a
    <2>4. JobOK(g, NoCall, card, history, possible'[k])
        BY <2>3 DEF JobOK, NoticeOK, RecordOK, RecallOK, JobType
    <2>5. job'[k] = g /\ g.pc = "resolve" /\ j.pc = "idle" BY <1>1, <2>1, Idle DEF Jobs
    <2> HIDE DEF g
    <2>6. call' = [call EXCEPT ![k] = call'[k]] /\ call'[k] = NoCall BY <1>1, <2>1, <2>2 DEF Calls
    <2> QED BY <1>1, <2>1, <2>2, <2>4, <2>5, <2>6, QuietKeeps
<1>4. ASSUME NEW p \in Projects, StartProject(k, p) PROVE AInv'
    <2> DEFINE g == [goal |-> "card", pc |-> "client", project |-> p, app |-> NoApp,
                     receiver |-> None, card |-> None]
    <2>1. /\ job[k] = NoJob /\ job' = [job EXCEPT ![k] = g] /\ UNCHANGED <<card, history, blurred>>
          /\ call' = [call EXCEPT ![k] = Resolve(binding[p])] /\ AppsRest
        BY <1>4 DEF StartProject, Job, Begin, AppsRest
    <2>2. CallOK(Resolve(binding[p]), app) BY <1>1, Resolves DEF AppTables
    <2>3. \A d : JobOK(g, d, card, history, possible'[k])
        BY DEF JobOK, NoticeOK, RecordOK, RecallOK, JobType, AppOrNone
    <2>4. job'[k] = g /\ g.pc = "client" /\ j.pc = "idle" BY <1>1, <2>1, Idle DEF Jobs
    <2> HIDE DEF g
    <2>5. call'[k] = Resolve(binding[p]) BY <1>1, <2>1 DEF Calls
    <2> QED BY <1>1, <2>1, <2>2, <2>3, <2>4, <2>5, QuietKeeps
<1>5. ASSUME NEW f \in Configs, StartAdmin(k, f) PROVE AInv'
    <2> DEFINE g == [goal |-> "admin", pc |-> "client", project |-> None, app |-> NoApp,
                     receiver |-> None, card |-> None]
    <2>1. /\ job[k] = NoJob /\ job' = [job EXCEPT ![k] = g] /\ UNCHANGED <<card, history, blurred>>
          /\ call' = [call EXCEPT ![k] = Resolve(config[f].app)] /\ AppsRest
        BY <1>5 DEF StartAdmin, Job, Begin, AppsRest
    <2>2. CallOK(Resolve(config[f].app), app) BY <1>1, Resolves DEF Choices
    <2>3. \A d : JobOK(g, d, card, history, possible'[k])
        BY DEF JobOK, NoticeOK, RecordOK, RecallOK, JobType, AppOrNone
    <2>4. job'[k] = g /\ g.pc = "client" /\ j.pc = "idle" BY <1>1, <2>1, Idle DEF Jobs
    <2> HIDE DEF g
    <2>5. call'[k] = Resolve(config[f].app) BY <1>1, <2>1 DEF Calls
    <2> QED BY <1>1, <2>1, <2>2, <2>3, <2>4, <2>5, QuietKeeps
<1>6. CASE ResolveSender(k)
    <2> DEFINE g == [j EXCEPT !.pc = "client"]
               d == Resolve(Sender(k))
    <2>1. /\ j.pc = "resolve" /\ job' = [job EXCEPT ![k] = g] /\ UNCHANGED <<card, history, blurred>>
          /\ call' = [call EXCEPT ![k] = d] /\ AppsRest
        BY <1>6 DEF ResolveSender, AppsRest
    <2>2. j.project \in Projects BY <1>1, <2>1 DEF JobOK
    <2>3. Sender(k) \in AppOrNone /\ (j.app # NoApp => Sender(k) = j.app)
        BY <1>1, <2>2 DEF Sender, AppTables, JobType
    <2>4. CallOK(d, app) /\ (j.app # NoApp => d.app = j.app) BY <2>3, Resolves
    <2>5. job'[k] = g /\ call'[k] = d BY <1>1, <2>1 DEF Jobs, Calls
    <2>6. /\ g \in JobType /\ g.pc = "client" /\ g.goal = j.goal /\ g.project = j.project
          /\ g.app = j.app /\ g.receiver = j.receiver /\ g.card = j.card
        BY <1>1 DEF JobType
    <2> HIDE DEF g, d
    <2>7. g.goal = "notice" => possible[k] \subseteq possible'[k] BY <2>5, Observes
    <2>8. JobOK(g, d, card, history, possible'[k])
        BY <1>1, <2>1, <2>2, <2>4, <2>6, <2>7 DEF JobOK, NoticeOK, RecordOK, RecallOK
    <2> QED BY <2>1, <2>4, <2>5, <2>6, <2>8, QuietKeeps
<1>7. CASE GiveUpCard(k)
    <2>1. /\ j.pc = "client" /\ job' = [job EXCEPT ![k] = NoJob]
          /\ UNCHANGED <<card, history, blurred>>
          /\ call' = [call EXCEPT ![k] = NoCall] /\ AppsRest
        BY <1>7 DEF GiveUpCard, Finish, AppsRest
    <2>2. job'[k] = NoJob /\ call'[k] = NoCall BY <1>1, <2>1 DEF Jobs, Calls
    <2>3. /\ JobOK(NoJob, NoCall, card, history, possible'[k]) /\ CallOK(NoCall, app)
          /\ NoJob.pc # "record"
        BY Idle
    <2> QED BY <2>1, <2>2, <2>3, QuietKeeps
<1>8. ASSUME NEW m \in Cards, SendCard(k, m) PROVE AInv'
    <2> DEFINE g == [goal |-> "card", pc |-> "record", project |-> j.project, app |-> NoApp,
                     receiver |-> None, card |-> m]
               s == [exists |-> TRUE, app |-> c.app, gone |-> FALSE]
    <2>1. /\ j.pc = "client" /\ c.pc = "ready" /\ j.goal \in {"notice", "card"} /\ ~card[m].exists
          /\ job' = [job EXCEPT ![k] = g] /\ card' = [card EXCEPT ![m] = s]
          /\ UNCHANGED <<call, history, blurred>> /\ AppsRest
        BY <1>8 DEF SendCard, Job, AppsRest
    <2>2. CardOK(card[m], history[m]) BY <1>1 DEF CardsOK
    <2>3. ~history[m].exists /\ ~history[m].recalled BY <2>1, <2>2 DEF CardOK
    <2>4. CardOK(s, history[m])
        <3>1. c.app \in AppOrNone BY <1>1 DEF CallOK, CallType
        <3> QED BY <2>2, <2>3, <3>1 DEF CardOK
    <2>5. CardsOK' BY <1>1, <2>1, <2>4 DEF CardsOK
    <2>6. j.project \in Projects BY <1>1, <2>1 DEF JobOK
    <2>7. job'[k] = g /\ card'[m] = s /\ call'[k] = c BY <1>1, <2>1 DEF Jobs, CardsOK
    <2>8. JobOK(g, c, card', history, possible'[k])
        BY <2>1, <2>3, <2>6, <2>7 DEF JobOK, NoticeOK, RecordOK, RecallOK, JobType, AppOrNone
    <2>9. \A l \in Actors \ {k} : /\ job[l].pc = "record" => job[l].card # m
                                  /\ Spares(job[l])
        <3> SUFFICES ASSUME NEW l \in Actors \ {k}
                     PROVE  /\ job[l].pc = "record" => job[l].card # m
                            /\ Spares(job[l])
            OBVIOUS
        <3>1. JobOK(job[l], call[l], card, history, possible[l]) BY <1>1 DEF Jobs
        <3>2. job[l].pc = "record" => job[l].card \in Cards /\ job[l].card # m
            BY <2>1, <3>1 DEF JobOK, RecordOK
        <3>3. job[l].goal = "recall" => job[l].card \in Cards /\ job[l].card # m
            BY <2>3, <3>1 DEF JobOK, RecallOK
        <3> QED BY <1>1, <2>1, <3>2, <3>3 DEF Spares, CardsOK
    <2>10. RecallsAreRecorded'
        <3>1. \A n \in Cards \ {m} : card'[n] = card[n] BY <1>1, <2>1 DEF CardsOK
        <3>2. \A l \in Actors : job[l].pc = "recalled" => job'[l] = job[l]
            BY <1>1, <2>1 DEF Jobs
        <3>3. ~card'[m].gone /\ ~history'[m].recalled BY <2>1, <2>3, <2>7
        <3> QED BY <1>1, <2>1, <3>1, <3>2, <3>3 DEF RecallsAreRecorded
    <2>11. g.pc = "record" /\ g.card = m OBVIOUS
    <2> HIDE DEF g, s
    <2>12. call' = [call EXCEPT ![k] = call'[k]] BY <1>1, <2>1 DEF Calls
    <2> QED BY <1>1, <2>1, <2>5, <2>7, <2>8, <2>9, <2>10, <2>11, <2>12, ActorKeeps
<1>9. ASSUME NEW m \in Cards, StartRecall(k, m) PROVE AInv'
    <2> DEFINE g == [goal |-> "recall", pc |-> "start", project |-> None, app |-> NoApp,
                     receiver |-> None, card |-> m]
    <2>1. /\ job[k] = NoJob /\ job' = [job EXCEPT ![k] = g] /\ UNCHANGED <<call, card, history, blurred>>
          /\ AppsRest /\ history[m].exists
        BY <1>9 DEF StartRecall, Job, Begin, AppsRest
    <2>2. c = NoCall BY <1>1, <2>1, Idle DEF JobOK
    <2>4. JobOK(g, NoCall, card, history, possible'[k])
        BY <2>1 DEF JobOK, NoticeOK, RecordOK, RecallOK, JobType, AppOrNone
    <2>5. job'[k] = g /\ g.pc = "start" /\ j.pc = "idle" BY <1>1, <2>1, Idle DEF Jobs
    <2> HIDE DEF g
    <2>6. call' = [call EXCEPT ![k] = call'[k]] /\ call'[k] = NoCall BY <1>1, <2>1, <2>2 DEF Calls
    <2> QED BY <1>1, <2>1, <2>2, <2>4, <2>5, <2>6, QuietKeeps
<1>10. ASSUME NEW written \in BOOLEAN, RecordCard(k, written) PROVE AInv'
    <2> DEFINE m == j.card
               h == [NoHistory EXCEPT !.exists = TRUE, !.app = c.app, !.project = j.project]
    <2>1. /\ j.pc = "record" /\ job' = [job EXCEPT ![k] = NoJob]
          /\ call' = [call EXCEPT ![k] = NoCall]
          /\ history' = IF ~written THEN history ELSE [history EXCEPT ![m] = h]
          /\ UNCHANGED <<card, blurred>> /\ AppsRest
        BY <1>10 DEF RecordCard, Finish, AppsRest
    <2>2. /\ m \in Cards /\ c.pc = "ready" /\ j.project \in Projects
          /\ card[m].exists /\ card[m].app = c.app /\ ~card[m].gone /\ ~history[m].exists
        BY <1>1, <2>1 DEF JobOK, RecordOK
    <2>3. CardOK(card[m], history[m]) BY <1>1, <2>2 DEF CardsOK
    <2>4. CardOK(card[m], h)
        <3>1. c.app \in AppOrNone /\ (Default # NoApp => c.app # NoApp)
            BY <1>1, <2>2 DEF CallOK, CallType
        <3>2. h.exists = TRUE /\ h.app = c.app /\ h.recalled = FALSE /\ h.project = j.project
            BY DEF NoHistory
        <3>3. h \in [exists : BOOLEAN, app : AppOrNone, project : Projects \cup {None},
                     recalled : BOOLEAN, error : BOOLEAN]
            BY <2>2, <3>1 DEF NoHistory
        <3> HIDE DEF h
        <3> QED BY <2>2, <2>3, <3>1, <3>2, <3>3 DEF CardOK
    <2>5. h.recalled = FALSE BY DEF NoHistory
    <2> HIDE DEF h
    <2>6. CardsOK' BY <1>1, <2>1, <2>2, <2>4 DEF CardsOK
    <2>7. job'[k] = NoJob /\ call'[k] = NoCall BY <1>1, <2>1 DEF Jobs, Calls
    <2>8. ~history'[m].recalled
        BY <1>1, <2>1, <2>2, <2>3, <2>5 DEF CardsOK, CardOK
    <2>9. RecallsAreRecorded'
        <3>1. \A n \in Cards \ {m} : history'[n] = history[n] BY <1>1, <2>1, <2>2 DEF CardsOK
        <3>2. \A l \in Actors : job[l].pc = "recalled" => job'[l] = job[l]
            BY <1>1, <2>1 DEF Jobs
        <3>3. ~card'[m].gone BY <2>1, <2>2
        <3> QED BY <1>1, <2>1, <2>8, <3>1, <3>2, <3>3 DEF RecallsAreRecorded
    <2>10. \A l \in Actors \ {k} : Spares(job[l])
        <3> SUFFICES ASSUME NEW l \in Actors \ {k} PROVE Spares(job[l])
            OBVIOUS
        <3>1. JobOK(job[l], call[l], card, history, possible[l]) BY <1>1 DEF Jobs
        <3>2. job[l].pc = "record" => job[l].card \in Cards /\ job[l].card # m
            BY <1>1, <2>1, <3>1 DEF JobOK, RecordOK, SendersDiffer
        <3>3. job[l].goal = "recall" => job[l].card \in Cards /\ job[l].card # m
            BY <2>2, <3>1 DEF JobOK, RecallOK
        <3> QED BY <1>1, <2>1, <2>2, <3>2, <3>3 DEF Spares, CardsOK
    <2>11. JobOK(NoJob, NoCall, card', history', possible'[k]) /\ CallOK(NoCall, app)
           /\ NoJob.pc # "record"
        BY Idle
    <2> QED BY <2>1, <2>6, <2>7, <2>9, <2>10, <2>11, ActorKeeps
<1>11. CASE MarkRecallStarted(k)
    <2> DEFINE m == j.card
               h == [history[m] EXCEPT !.error = FALSE]
               d == Resolve(Recaller(m))
               g == [j EXCEPT !.pc = "client"]
    <2>1. /\ j.pc = "start" /\ job' = [job EXCEPT ![k] = g] /\ call' = [call EXCEPT ![k] = d]
          /\ history' = [history EXCEPT ![m] = h]
          /\ UNCHANGED <<card, blurred>> /\ AppsRest
        BY <1>11 DEF MarkRecallStarted, AppsRest
    <2>2. m \in Cards /\ history[m].exists /\ j.goal = "recall"
        BY <1>1, <2>1 DEF JobOK, RecallOK
    <2>3. CardOK(card[m], history[m]) BY <1>1, <2>2 DEF CardsOK
    <2>4. /\ h \in [exists : BOOLEAN, app : AppOrNone, project : Projects \cup {None},
                    recalled : BOOLEAN, error : BOOLEAN]
          /\ h.exists = history[m].exists /\ h.app = history[m].app
          /\ h.recalled = history[m].recalled /\ h.project = history[m].project
        BY <2>3 DEF CardOK
    <2>5. /\ g \in JobType /\ g.pc = "client" /\ g.goal = j.goal /\ g.project = j.project
          /\ g.app = j.app /\ g.receiver = j.receiver /\ g.card = m
        BY <1>1 DEF JobType
    <2>6. CallOK(d, app) /\ (Default # NoApp => d.app = card[m].app)
        <3>1. history[m].app \in AppOrNone BY <2>3 DEF CardOK
        <3>2. CASE history[m].app # NoApp
            <4>1. Recaller(m) = history[m].app BY <3>2 DEF Recaller
            <4> QED BY <2>2, <2>3, <3>1, <3>2, <4>1, Resolves DEF CardOK
        <3>3. CASE history[m].app = NoApp
            <4>1. Default = NoApp BY <2>2, <2>3, <3>3 DEF CardOK
            <4>2. Recaller(m) = binding[history[m].project] BY <3>3 DEF Recaller
            <4>3. binding[history[m].project] \in AppOrNone
                <5>1. history[m].project \in Projects
                    BY <2>2, <2>3 DEF CardOK
                <5> QED BY <1>1, <5>1 DEF AppTables
            <4> QED BY <4>1, <4>2, <4>3, Resolves
        <3> QED BY <3>2, <3>3
    <2> HIDE DEF d, g, h
    <2>7. CardsOK'
        <3>1. CardOK(card[m], h) BY <2>3, <2>4 DEF CardOK
        <3> QED BY <1>1, <2>1, <2>2, <3>1 DEF CardsOK
    <2>8. job'[k] = g /\ call'[k] = d /\ history'[m] = h
        BY <1>1, <2>1, <2>2 DEF Jobs, Calls, CardsOK
    <2>9. JobOK(g, d, card', history', possible'[k])
        BY <2>1, <2>2, <2>4, <2>5, <2>6, <2>8 DEF JobOK, NoticeOK, RecordOK, RecallOK
    <2>10. \A n \in Cards : /\ history'[n].exists = history[n].exists
                            /\ history'[n].recalled = history[n].recalled
        BY <1>1, <2>1, <2>2, <2>4, <2>8 DEF CardsOK
    <2>11. RecallsAreRecorded'
        <3>1. \A l \in Actors : job[l].pc = "recalled" => job'[l] = job[l]
            BY <1>1, <2>1 DEF Jobs
        <3> QED BY <1>1, <2>1, <2>10, <3>1 DEF RecallsAreRecorded
    <2>12. \A l \in Actors \ {k} : Spares(job[l])
        <3> SUFFICES ASSUME NEW l \in Actors \ {k} PROVE Spares(job[l])
            OBVIOUS
        <3>1. JobOK(job[l], call[l], card, history, possible[l]) BY <1>1 DEF Jobs
        <3>2. job[l].pc = "record" \/ job[l].goal = "recall" => job[l].card \in Cards
            BY <3>1 DEF JobOK, RecordOK, RecallOK
        <3> QED BY <2>1, <2>10, <3>2 DEF Spares
    <2> QED BY <2>1, <2>5, <2>6, <2>7, <2>8, <2>9, <2>11, <2>12, ActorKeeps
<1>12. ASSUME j.goal = "recall", j.pc = "client", NEW to \in {"recalled", "refused"},
              NEW gone \in BOOLEAN, j.card \in Cards,
              job' = [job EXCEPT ![k] = [j EXCEPT !.pc = to]], UNCHANGED <<call, history>>,
              card' = [card EXCEPT ![j.card] = [card[j.card] EXCEPT !.gone = gone]],
              card[j.card].gone => gone, to = "recalled" => gone,
              blurred' \in SUBSET Cards, blurred \subseteq blurred',
              gone /\ ~card[j.card].gone => to = "recalled" \/ j.card \in blurred', AppsRest
       PROVE  AInv'
    <2> DEFINE m == j.card
               g == [j EXCEPT !.pc = to]
               s == [card[m] EXCEPT !.gone = gone]
    <2>1. CardOK(card[m], history[m]) /\ history[m].exists
        BY <1>1, <1>12 DEF CardsOK, JobOK, RecallOK
    <2>2. /\ s \in [exists : BOOLEAN, app : AppOrNone, gone : BOOLEAN]
          /\ s.exists = card[m].exists /\ s.app = card[m].app /\ s.gone = gone
        BY <2>1 DEF CardOK
    <2>3. /\ g \in JobType /\ g.pc = to /\ g.goal = j.goal /\ g.card = m
        BY <1>1 DEF JobType
    <2>4. /\ job' = [job EXCEPT ![k] = g] /\ card' = [card EXCEPT ![m] = s]
        BY <1>12
    <2> HIDE DEF g, s
    <2>5. job'[k] = g /\ card'[m] = s BY <1>1, <1>12, <2>4 DEF Jobs, CardsOK
    <2>6. CardsOK'
        <3>1. CardOK(s, history[m]) BY <2>1, <2>2 DEF CardOK
        <3> QED BY <1>1, <1>12, <2>4, <3>1 DEF CardsOK
    <2>7. JobOK(g, c, card', history', possible'[k])
        BY <1>1, <1>12, <2>1, <2>2, <2>3, <2>5 DEF JobOK, NoticeOK, RecordOK, RecallOK
    <2>8. \A n \in Cards \ {m} : card'[n] = card[n] BY <1>1, <2>4 DEF CardsOK
    <2>9. RecallsAreRecorded'
        <3>1. \A l \in Actors : job[l].pc = "recalled" => job'[l] = job[l]
            BY <1>1, <1>12, <2>4 DEF Jobs
        <3>2. card[m].gone \in BOOLEAN BY <2>1 DEF CardOK
        <3> QED BY <1>1, <1>12, <2>2, <2>3, <2>5, <2>8, <3>1, <3>2 DEF RecallsAreRecorded
    <2>10. \A l \in Actors \ {k} : Spares(job[l])
        <3> SUFFICES ASSUME NEW l \in Actors \ {k} PROVE Spares(job[l])
            OBVIOUS
        <3>1. JobOK(job[l], call[l], card, history, possible[l]) BY <1>1 DEF Jobs
        <3>2. job[l].pc = "record" => job[l].card \in Cards /\ job[l].card # m
            BY <2>1, <3>1 DEF JobOK, RecordOK
        <3>3. job[l].goal = "recall" => job[l].card \in Cards BY <3>1 DEF JobOK, RecallOK
        <3> QED BY <1>12, <2>2, <2>5, <2>8, <3>2, <3>3 DEF Spares
    <2>11. call' = [call EXCEPT ![k] = call'[k]] /\ call'[k] = c BY <1>1, <1>12 DEF Calls
    <2> QED BY <1>1, <1>12, <2>3, <2>4, <2>5, <2>6, <2>7, <2>9, <2>10, <2>11, ActorKeeps
<1>13. ASSUME NEW ok \in BOOLEAN, CallRecall(k, ok) PROVE AInv'
    <2>1. j.card \in Cards BY <1>1, <1>13 DEF CallRecall, JobOK, RecallOK
    <2>2. card[j.card].gone \in BOOLEAN BY <1>1, <2>1 DEF CardsOK, CardOK
    <2>3. blurred \in SUBSET Cards BY <1>1 DEF CardsOK
    <2>4. CASE ok
        <3>1. /\ j.goal = "recall" /\ j.pc = "client" /\ UNCHANGED <<call, history, blurred>>
              /\ job' = [job EXCEPT ![k] = [j EXCEPT !.pc = "recalled"]]
              /\ card' = [card EXCEPT ![j.card] = [card[j.card] EXCEPT !.gone = TRUE]]
              /\ AppsRest
            BY <1>13, <2>4 DEF CallRecall, AppsRest
        <3> QED BY <1>12, <2>1, <2>3, <3>1
    <2>5. CASE ~ok
        <3>1. /\ j.goal = "recall" /\ j.pc = "client" /\ UNCHANGED <<call, history, blurred>>
              /\ job' = [job EXCEPT ![k] = [j EXCEPT !.pc = "refused"]]
              /\ AppsRest
            BY <1>13, <2>5 DEF CallRecall, AppsRest
        <3>2. card' = [card EXCEPT ![j.card] =
                         [card[j.card] EXCEPT !.gone = card[j.card].gone \/ ok]]
            BY <1>13 DEF CallRecall
        <3>3. (card[j.card].gone \/ ok) = card[j.card].gone BY <2>2, <2>5
        <3>4. card' = [card EXCEPT ![j.card] = [card[j.card] EXCEPT !.gone = card[j.card].gone]]
            BY <3>2, <3>3
        <3> QED BY <3>4, <1>12, <2>1, <2>2, <2>3, <3>1
    <2> QED BY <2>4, <2>5
<1>14. CASE LoseAnswer(k)
    <2>1. j.card \in Cards BY <1>1, <1>14 DEF LoseAnswer, JobOK, RecallOK
    <2>2. /\ j.goal = "recall" /\ j.pc = "client" /\ UNCHANGED <<call, history>>
          /\ job' = [job EXCEPT ![k] = [j EXCEPT !.pc = "refused"]]
          /\ card' = [card EXCEPT ![j.card] = [card[j.card] EXCEPT !.gone = TRUE]]
          /\ blurred' = blurred \cup {j.card} /\ AppsRest
        BY <1>14 DEF LoseAnswer, AppsRest
    <2>3. blurred' \in SUBSET Cards BY <1>1, <2>1, <2>2 DEF CardsOK
    <2> QED BY <1>12, <2>1, <2>2, <2>3
<1>15. ASSUME j.pc \in {"recalled", "refused"}, Finish(k), AppsRest, UNCHANGED card, j.card \in Cards,
              CardsOK', \A n \in Cards : history'[n].exists = history[n].exists, RecallsAreRecorded'
       PROVE  AInv'
    <2>1. job' = [job EXCEPT ![k] = NoJob] /\ call' = [call EXCEPT ![k] = NoCall]
        BY <1>15 DEF Finish
    <2>2. job'[k] = NoJob /\ call'[k] = NoCall BY <1>1, <2>1 DEF Jobs, Calls
    <2>3. \A l \in Actors \ {k} : Spares(job[l])
        <3> SUFFICES ASSUME NEW l \in Actors \ {k} PROVE Spares(job[l])
            OBVIOUS
        <3>1. JobOK(job[l], call[l], card, history, possible[l]) BY <1>1 DEF Jobs
        <3>2. job[l].pc = "record" \/ job[l].goal = "recall" => job[l].card \in Cards
            BY <3>1 DEF JobOK, RecordOK, RecallOK
        <3> QED BY <1>15, <3>2 DEF Spares
    <2>4. JobOK(NoJob, NoCall, card', history', possible'[k]) /\ CallOK(NoCall, app)
          /\ NoJob.pc # "record"
        BY Idle
    <2> QED BY <1>15, <2>1, <2>2, <2>3, <2>4, ActorKeeps
<1>16. ASSUME j.pc \in {"recalled", "refused"}
       PROVE  /\ j.card \in Cards /\ CardOK(card[j.card], history[j.card])
              /\ j.pc = "recalled" => card[j.card].gone
              /\ history[j.card].exists
    BY <1>1, <1>16 DEF JobOK, RecallOK, CardsOK
<1>17. CASE MarkRecall(k)
    <2> DEFINE m == j.card
               h == Marked(history[m], j.pc)
    <2>1. /\ j.pc \in {"recalled", "refused"} /\ history' = [history EXCEPT ![m] = h] /\ Finish(k)
          /\ UNCHANGED <<card, blurred>> /\ AppsRest
        BY <1>17 DEF MarkRecall, AppsRest
    <2>2. m \in Cards /\ CardOK(card[m], history[m]) BY <1>16, <2>1
    <2>3. /\ h \in [exists : BOOLEAN, app : AppOrNone, project : Projects \cup {None},
                    recalled : BOOLEAN, error : BOOLEAN]
          /\ h.exists = history[m].exists /\ h.app = history[m].app
          /\ h.project = history[m].project
        BY <2>2 DEF CardOK, Marked
    <2>4. h.recalled = (j.pc = "recalled" \/ history[m].recalled) BY <2>1, <2>2 DEF CardOK, Marked
    <2> HIDE DEF h
    <2>5. CardsOK'
        <3>1. CardOK(card[m], h) BY <1>16, <2>1, <2>2, <2>3, <2>4 DEF CardOK
        <3> QED BY <1>1, <2>1, <2>2, <3>1 DEF CardsOK
    <2>6. history'[m] = h /\ \A n \in Cards \ {m} : history'[n] = history[n]
        BY <1>1, <2>1, <2>2 DEF CardsOK
    <2>7. RecallsAreRecorded'
        <3>1. \A l \in Actors \ {k} : job'[l] = job[l] BY <1>1, <2>1 DEF Jobs, Finish
        <3>2. ASSUME NEW n \in Cards
              PROVE  /\ history'[n].recalled => card'[n].gone
                     /\ card'[n].gone => \/ history'[n].recalled
                                         \/ n \in blurred'
                                         \/ \E l \in Actors : job'[l].card = n /\ job'[l].pc = "recalled"
            <4>1. CASE n = m /\ j.pc = "recalled"
                BY <1>16, <2>1, <2>4, <2>6, <4>1
            <4>2. CASE n = m /\ j.pc = "refused"
                <5>1. history'[n].recalled = history[n].recalled
                    BY <2>2, <2>4, <2>6, <4>2 DEF CardOK
                <5>2. \A l \in Actors : job[l].card = n /\ job[l].pc = "recalled" => job'[l] = job[l]
                    BY <3>1, <4>2
                <5> QED BY <1>1, <2>1, <2>2, <4>2, <5>1, <5>2 DEF RecallsAreRecorded
            <4>3. CASE n # m
                BY <1>1, <2>1, <2>6, <3>1, <4>3 DEF RecallsAreRecorded
            <4> QED BY <2>1, <4>1, <4>2, <4>3
        <3> QED BY <3>2 DEF RecallsAreRecorded
    <2>8. \A n \in Cards : history'[n].exists = history[n].exists BY <2>3, <2>6
    <2> QED BY <1>15, <2>1, <2>2, <2>5, <2>7, <2>8
<1>18. CASE MarkLost(k)
    <2>1. /\ j.pc \in {"recalled", "refused"} /\ blurred' = blurred \cup {j.card} /\ Finish(k)
          /\ UNCHANGED <<card, history>> /\ AppsRest
        BY <1>18 DEF MarkLost, AppsRest
    <2>2. j.card \in Cards BY <1>16, <2>1
    <2>3. CardsOK' BY <1>1, <2>1, <2>2 DEF CardsOK
    <2>4. RecallsAreRecorded'
        <3>1. \A l \in Actors \ {k} : job'[l] = job[l] BY <1>1, <2>1 DEF Jobs, Finish
        <3> QED BY <1>1, <2>1, <3>1 DEF RecallsAreRecorded
    <2> QED BY <1>15, <2>1, <2>2, <2>3, <2>4
<1>19. CASE \E p \in Projects : StartNotice(k, p) \/ StartReport(k, p) \/ StartProject(k, p)
    BY <1>2, <1>3, <1>4, <1>19
<1>20. CASE \E f \in Configs : StartAdmin(k, f)
    BY <1>5, <1>20
<1>21. CASE \E m \in Cards : SendCard(k, m) \/ StartRecall(k, m)
    BY <1>8, <1>9, <1>21
<1>22. CASE \E written \in BOOLEAN : RecordCard(k, written)
    BY <1>10, <1>22
<1>23. CASE \E ok \in BOOLEAN : CallRecall(k, ok)
    BY <1>13, <1>23
<1> QED BY <1>6, <1>7, <1>11, <1>14, <1>17, <1>18, <1>19, <1>20, <1>21, <1>22, <1>23 DEF CardStep

-----------------------------------------------------------------------------
(* A restart, and the theorems. *)

LEMMA RestartKeeps ==
    ASSUME AInv, Restart, Observe
    PROVE  AInv'
<1> USE AppsAssumption, AuditAssumption
<1>1. /\ AppTables /\ Choices /\ CardsOK /\ Jobs /\ RecallsAreRecorded
    BY DEF AInv
<1>2. /\ edits' = edits + 1 /\ edits < MaxEdits /\ boot' = BootVersion
      /\ clients' = [a \in Apps |-> 0] /\ forgets' = {} /\ request' = NoRequest
      /\ call' = [k \in Actors |-> NoCall] /\ UNCHANGED <<app, binding>>
      /\ job' = [k \in Actors |-> NoJob]
      /\ blurred' = blurred \cup {job[k].card : k \in {l \in Actors : job[l].goal = "recall"}}
      /\ UNCHANGED <<config, target, bound, card, history>>
    BY DEF Restart, RestartApps, Edit
<1>3. AppTables'
    <2>1. BootVersion = Newest(Default) /\ BootVersion \in Versions
        BY <1>1 DEF BootVersion, Newest, AppTables, Versions
    <2>2. Newest(Default)' = Newest(Default) BY <1>2 DEF Newest
    <2>3. \A a \in Apps : app[a].version <= edits' + 1 BY <1>1, <1>2 DEF AppTables, Versions
    <2>4. edits' \in 0 .. MaxEdits BY <1>1, <1>2 DEF AppTables
    <2>5. boot' <= Newest(Default)' BY <1>2, <2>1, <2>2 DEF Versions
    <2>6. clients' \in [Apps -> Versions] /\ \A a \in Apps : clients'[a] <= app'[a].version
        BY <1>1, <1>2 DEF AppTables, Versions
    <2> QED BY <1>1, <1>2, <2>1, <2>3, <2>4, <2>5, <2>6 DEF AppTables
<1>4. Requested' BY <1>2 DEF Requested
<1>5. Calls' BY <1>2, Idle DEF Calls, CallOK
<1>6. Choices' BY <1>1, <1>2 DEF Choices
<1>7. ASSUME NEW k \in Actors, job[k].goal = "recall"
      PROVE  job[k].card \in Cards /\ job[k].card \in blurred'
    <2>1. JobOK(job[k], call[k], card, history, possible[k]) BY <1>1 DEF Jobs
    <2> QED BY <1>2, <1>7, <2>1 DEF JobOK, RecallOK
<1>8. blurred' \subseteq Cards BY <1>1, <1>2, <1>7 DEF CardsOK
<1>9. CardsOK' BY <1>1, <1>2, <1>8 DEF CardsOK
<1>10. Jobs'
    <2>1. \A k \in Actors : JobOK(job'[k], call'[k], card', history', possible'[k])
        BY <1>2, Idle
    <2> QED BY <1>2, <2>1, Observes DEF Jobs
<1>11. SendersDiffer' BY <1>2 DEF SendersDiffer, NoJob, Job
<1>12. RecallsAreRecorded'
    <2>1. \A k \in Actors : job[k].pc = "recalled" => job[k].goal = "recall"
        BY <1>1 DEF Jobs, JobOK, RecallOK
    <2> QED BY <1>1, <1>2, <1>7, <2>1 DEF RecallsAreRecorded
<1> QED BY <1>3, <1>4, <1>5, <1>6, <1>9, <1>10, <1>11, <1>12 DEF AInv

LEMMA AuditStutters ==
    ASSUME AInv, UNCHANGED allVars
    PROVE  AInv'
<1>1. /\ UNCHANGED <<app, binding, request, boot, clients, forgets, call, edits>>
      /\ UNCHANGED <<config, target, bound, job, card, history, blurred, possible>>
    BY DEF allVars, appVars, auditVars
<1>2. AppTables' /\ Requested' /\ Calls'
    BY <1>1 DEF AInv, AppTables, Newest, Requested, Binds, Configures, Chooses, Calls
<1>3. Choices' /\ CardsOK' /\ Jobs' /\ SendersDiffer' /\ RecallsAreRecorded'
    BY <1>1 DEF AInv, Choices, CardsOK, Jobs, SendersDiffer, RecallsAreRecorded
<1> QED BY <1>2, <1>3 DEF AInv

LEMMA StepKeepsAInv == AInv /\ [AuditNext]_allVars => AInv'
<1> SUFFICES ASSUME AInv, [AuditNext]_allVars PROVE AInv'
    OBVIOUS
<1>1. CASE AuditNext
    BY <1>1, AppKeeps, ConfigKeeps, CardStepKeeps, RestartKeeps DEF AuditNext
<1>2. CASE UNCHANGED allVars BY <1>2, AuditStutters
<1> QED BY <1>1, <1>2

\* The inductive invariant holds in every state of the specification.
THEOREM AlwaysAInv == AuditSpec => []AInv
BY InitAInv, StepKeepsAInv, PTL DEF AuditSpec

\* Type correctness of the applications, the configurations and the cards; a
\* project keeps a target of the configuration it is bound to, however
\* configurations and targets are changed and deleted (audit_config.rs).
THEOREM AuditTypeCorrect == AuditSpec => []AuditTypeOK
<1>1. AInv => AuditTypeOK BY Concludes
<1> QED BY <1>1, AlwaysAInv, PTL

\* A resolved client is made from a row that was current at some moment of its
\* call (client_for_feishu_app), for any number of actors and replacements.
THEOREM ClientsStayCurrent == AuditSpec => []ClientsAreCurrent
<1>1. AInv => ClientsAreCurrent BY Concludes
<1> QED BY <1>1, AlwaysAInv, PTL

\* A notice goes from an application to a receiver that were configured
\* together since it was begun (build_audit_notice_configs_from_db and
\* resolved_client_for_audit_config).
THEOREM SendersFitReceivers == AuditSpec => []SenderFitsReceiver
<1>1. AInv => SenderFitsReceiver BY Concludes
<1> QED BY <1>1, AlwaysAInv, PTL

\* A card marked as recalled is gone, and a card that is gone is marked unless
\* a recall is under way or an answer or a mark was lost (recall_message).
THEOREM HistoryTellsRecalls == AuditSpec => []RecallsAreRecorded
<1>1. AInv => RecallsAreRecorded BY DEF AInv
<1> QED BY <1>1, AlwaysAInv, PTL

\* A recall asks with the application that sent the card, however its project
\* is bound by then.
THEOREM SendersRecall == AuditSpec => []SenderRecalls
<1>1. AInv => SenderRecalls BY Concludes
<1> QED BY <1>1, AlwaysAInv, PTL

\* The binding of a project changes only in CommitBind, while the lock keeps
\* the row active, and in UnbindProject.
LEMMA BindsActive ==
    ASSUME AInv, AuditNext, NEW p \in Projects, binding'[p] \notin {binding[p], NoApp}
    PROVE  app[binding'[p]].active
<1>1. AppTables /\ Requested BY DEF AInv
<1>2. CASE ConfigStep
    BY <1>2 DEF ConfigStep, CheckConfig, SaveConfig, DeleteConfig, SaveTarget, DeleteTarget,
                CheckBinding, SaveBinding, CommitBindNotice, Unbind, UnbindNotice,
                UpdateNotification
<1>3. ASSUME NEW k \in Actors, CardStep(k) PROVE UNCHANGED binding
    BY <1>3 DEF CardStep, StartNotice, StartReport, StartProject, StartAdmin, Begin,
                ResolveSender, GiveUpCard, SendCard, StartRecall, RecordCard, MarkRecallStarted,
                CallRecall, LoseAnswer, MarkRecall, MarkLost
<1>4. CASE Restart BY <1>4 DEF Restart, RestartApps
<1>5. CASE AppStep
    <2>1. CASE CommitBind
        <3>1. Binds BY <1>1, <2>1 DEF CommitBind, Requested, NoRequest, Configures, Chooses
        <3>2. /\ request.project \in Projects /\ app[request.wanted].active
            BY <3>1 DEF Binds
        <3>3. binding' = [binding EXCEPT ![request.project] = request.wanted]
            BY <2>1 DEF CommitBind
        <3> QED BY <1>1, <3>2, <3>3 DEF AppTables
    <2>2. ASSUME NEW q \in Projects, UnbindProject(q) PROVE FALSE
        BY <1>1, <2>2 DEF UnbindProject, AppTables
    <2>3. ASSUME ~CommitBind, ~\E q \in Projects : UnbindProject(q) PROVE UNCHANGED binding
        BY <1>5, <2>3 DEF AppStep, CreateApp, ForgetClient, ReplaceApp, BeginBind, AbortRequest,
                          ReadRow, LookUpClient, InsertClient
    <2> QED BY <2>1, <2>2, <2>3
<1> QED BY <1>2, <1>3, <1>4, <1>5 DEF AuditNext

\* A project is only ever bound to an application that is active at that very
\* moment (bind_project under lock_active_app's FOR SHARE).
THEOREM BindingsStayActive == AuditSpec => BindingsAreActive
<1> DEFINE Binding == \A p \in Projects :
                binding'[p] \notin {binding[p], NoApp} => app[binding'[p]].active
<1>1. AInv /\ [AuditNext]_allVars => [Binding]_appVars
    <2> SUFFICES ASSUME AInv, [AuditNext]_allVars PROVE [Binding]_appVars
        OBVIOUS
    <2>1. CASE AuditNext BY <2>1, BindsActive
    <2>2. CASE UNCHANGED allVars BY <2>2 DEF allVars
    <2> QED BY <2>1, <2>2
<1>2. AuditSpec => [][Binding]_appVars
    BY <1>1, AlwaysAInv, PTL DEF AuditSpec
<1> QED BY <1>2 DEF BindingsAreActive

-----------------------------------------------------------------------------
(* The guard of a notification. *)

USE GuardConstants

-----------------------------------------------------------------------------
(* Type correctness. *)

LEMMA TypedNext == TypeOK /\ [Next]_vars => TypeOK'
<1> SUFFICES ASSUME TypeOK, [Next]_vars PROVE TypeOK'
    OBVIOUS
<1> USE DEF TypeOK, InFlight, Long, past, Mishaps
<1>1. ASSUME NEW x \in Senders, NEW d \in Payloads, Claim(x, d) PROVE TypeOK'
    BY <1>1 DEF Claim
<1>2. ASSUME NEW x \in Senders, NEW d \in Payloads, Skip(x, d) PROVE TypeOK'
    BY <1>2 DEF Skip, vars, row, sender
<1>3. ASSUME NEW x \in Senders,
             \/ GiveUp(x) \/ Deliver(x) \/ SendFails(x)
             \/ MarkSent(x) \/ Release(x) \/ Lose(x)
      PROVE TypeOK'
    <2>1. CASE GiveUp(x) \/ Lose(x) BY <2>1 DEF GiveUp, Lose, Goes, row
    <2>2. CASE Deliver(x) BY <2>2 DEF Deliver, Goes, row
    <2>3. CASE SendFails(x)
        <3>0. ago' \in [Payloads -> 0 .. Long] BY <2>3 DEF SendFails
        <3>1. mishaps' \subseteq Mishaps BY <2>3 DEF SendFails
        <3>2. pc' \in [Senders -> InFlight \cup {"idle"}] /\ UNCHANGED <<row, pay, age>>
            BY <2>3 DEF SendFails, Goes
        <3> QED BY <3>0, <3>1, <3>2 DEF row
    <2>4. CASE MarkSent(x)
        <3>1. cool' \in 0 .. Cooldown BY <2>4 DEF MarkSent
        <3> QED BY <2>4, <3>1 DEF MarkSent, Goes
    <2>5. CASE Release(x) BY <2>5 DEF Release, Goes
    <2> QED BY <1>3, <2>1, <2>2, <2>3, <2>4, <2>5
<1>4. CASE Clear
    <2>1. exists' \in BOOLEAN BY <1>4 DEF Clear
    <2>2. reserve' \in 0 .. Reserve /\ cool' \in 0 .. Cooldown BY <1>4 DEF Clear
    <2>3. ago' \in [Payloads -> 0 .. Long] BY <1>4 DEF Clear
    <2> QED BY <1>4, <2>1, <2>2, <2>3 DEF Clear, sender
<1>5. CASE Tick
    <2>1. reserve' \in 0 .. Reserve /\ cool' \in 0 .. Cooldown
        BY <1>5 DEF Tick, Down
    <2>m. mishaps' \subseteq Mishaps BY <1>5 DEF Tick
    <2>2. age' \in [Senders -> 0 .. Reserve] BY <1>5 DEF Tick
    <2>3. ago' \in [Payloads -> 0 .. Long] BY <1>5 DEF Tick
    <2>4. /\ exists' \in BOOLEAN /\ hash' \in Payloads
          /\ pc' \in [Senders -> InFlight \cup {"idle"}]
          /\ pay' \in [Senders -> Payloads]
        BY <1>5 DEF Tick
    <2> QED BY <2>1, <2>m, <2>2, <2>3, <2>4
<1>6. CASE UNCHANGED vars BY <1>6 DEF vars, row, sender
<1> QED BY <1>1, <1>2, <1>3, <1>4, <1>5, <1>6 DEF Next

LEMMA TypedInit == Init => TypeOK
<1> SUFFICES ASSUME Init PROVE TypeOK
    OBVIOUS
<1>1. ago \in [Payloads -> 0 .. Long] BY DEF Init, Long
<1>2. age \in [Senders -> 0 .. Reserve] BY DEF Init
<1>3. pc \in [Senders -> InFlight \cup {"idle"}] BY DEF Init
<1>4. exists \in BOOLEAN BY DEF Init
<1>5. reserve \in 0 .. Reserve /\ cool \in 0 .. Cooldown BY DEF Init
<1>6. hash \in Payloads /\ pay \in [Senders -> Payloads] /\ mishaps \subseteq Mishaps
    BY DEF Init
<1> QED BY <1>1, <1>2, <1>3, <1>4, <1>5, <1>6 DEF TypeOK

\* The variables of the guard keep their types, whatever senders do.
THEOREM TypeCorrect == Spec => []TypeOK
BY TypedInit, TypedNext, PTL DEF Spec

-----------------------------------------------------------------------------
(* A reservation is a lease.                                                *)

\* The row is the one its only sender reserved, and it is still reserved for
\* what is left of the time of that sender.
Holds(x) ==
    /\ exists /\ hash = pay[x] /\ cool = 0
    /\ age[x] <= SendTime /\ reserve + age[x] >= Reserve
    /\ pc[x] = "sent" => ago[pay[x]] <= age[x]

\* A running cooldown and the age of the delivery it goes back to add up.
Earned == exists /\ cool > 0 => ago[hash] + cool <= Cooldown + SendTime

Alone == \A x, y \in Senders : pc[x] \in InFlight /\ pc[y] \in InFlight => x = y

Lease ==
    /\ TypeOK
    /\ Alone
    /\ \A x \in Senders : pc[x] \in InFlight => Holds(x)
    /\ Earned

\* No sender was late and no sender in flight lost its row.
Kept == mishaps \subseteq {"lost"}

\* Mishaps are not forgotten.
LEMMA MishapsStay ==
    ASSUME [Next]_vars
    PROVE  mishaps \subseteq mishaps'
<1>1. ASSUME NEW x \in Senders, NEW d \in Payloads, Claim(x, d) \/ Skip(x, d)
      PROVE  mishaps \subseteq mishaps'
    BY <1>1 DEF Claim, Skip, vars, past
<1>2. ASSUME NEW x \in Senders,
             \/ GiveUp(x) \/ Deliver(x) \/ SendFails(x)
             \/ MarkSent(x) \/ Release(x) \/ Lose(x)
      PROVE  mishaps \subseteq mishaps'
    BY <1>2 DEF GiveUp, Deliver, SendFails, MarkSent, Release, Lose, past
<1>3. CASE Clear \/ Tick BY <1>3 DEF Clear, Tick
<1>4. CASE UNCHANGED vars BY <1>4 DEF vars, past
<1> QED BY <1>1, <1>2, <1>3, <1>4 DEF Next

\* Who may claim finds nobody in flight.
LEMMA FreeMeansIdle ==
    ASSUME Lease, NEW d \in Payloads, Free(d), NEW x \in Senders
    PROVE  pc[x] \notin InFlight
<1> SUFFICES ASSUME pc[x] \in InFlight PROVE FALSE
    OBVIOUS
<1>1. Holds(x) BY DEF Lease
<1>2. reserve \in Nat /\ age[x] \in Nat BY DEF Lease, TypeOK
<1>3. exists /\ reserve > 0 BY <1>1, <1>2 DEF Holds
<1> QED BY <1>3 DEF Free

\* A sender that goes home without touching the row.
LEMMA LeaseGoes ==
    ASSUME Lease, TypeOK', NEW x \in Senders, Goes(x, "idle"), UNCHANGED <<row, ago>>
    PROVE  Lease'
<1>1. \A y \in Senders : pc'[y] \in InFlight => pc'[y] = pc[y] /\ y # x
    BY DEF Goes, InFlight, Lease, TypeOK
<1>2. Alone' BY <1>1 DEF Lease, Alone
<1>3. \A y \in Senders : pc'[y] \in InFlight => Holds(y)'
    BY <1>1 DEF Lease, Holds, Goes, row
<1>4. Earned' BY DEF Lease, Earned, row
<1> QED BY <1>2, <1>3, <1>4 DEF Lease

\* A sender that ends its claim is the only one in flight.
LEMMA LeaseEnds ==
    ASSUME Lease, TypeOK', NEW x \in Senders, pc[x] \in InFlight, Goes(x, "idle"), Earned'
    PROVE  Lease'
<1>1. \A y \in Senders : pc'[y] \notin InFlight
    BY DEF Goes, InFlight, Lease, TypeOK, Alone
<1> QED BY <1>1 DEF Lease, Alone

\* A sender that learns what became of its message.
LEMMA LeaseAnswers ==
    ASSUME Lease, TypeOK', NEW x \in Senders, NEW place \in {"sent", "failed"},
           pc[x] = "sending", Goes(x, place), UNCHANGED row,
           \/ ago' = ago /\ place = "failed"
           \/ ago' = [ago EXCEPT ![pay[x]] = 0]
    PROVE  Lease'
<1>1. Holds(x) BY DEF Lease, InFlight
<1>2. \A y \in Senders : pc'[y] \in InFlight => y = x
    BY DEF Goes, InFlight, Lease, TypeOK, Alone
<1>3. pay[x] \in Payloads /\ age[x] \in Nat /\ ago[pay[x]] \in Nat
    BY DEF Lease, TypeOK
<1>4. pc'[x] = place BY DEF Goes, Lease, TypeOK
<1>5. Holds(x)'
    BY <1>1, <1>3, <1>4 DEF Holds, Goes, row, Lease, TypeOK
<1>6. Earned' BY <1>1 DEF Earned, Holds, row
<1> QED BY <1>2, <1>5, <1>6 DEF Lease, Alone

LEMMA LeaseTick ==
    ASSUME Lease, TypeOK', Tick, Kept'
    PROVE  Lease'
<1>k. \A x \in Senders : pc[x] \in InFlight => age[x] < SendTime
    BY DEF Tick, Kept, Lease, TypeOK
<1>1. Alone' BY DEF Tick, Lease, Alone
<1>2. ASSUME NEW x \in Senders, pc'[x] \in InFlight PROVE Holds(x)'
    <2>1. Holds(x) /\ age[x] < SendTime BY <1>k, <1>2 DEF Tick, Lease
    <2>2. /\ age[x] \in Nat /\ reserve \in Nat /\ pay[x] \in Payloads
          /\ ago[pay[x]] \in Nat
        BY DEF Lease, TypeOK
    <2>3. age'[x] = age[x] + 1 BY <1>2, <2>1, <2>2 DEF Tick
    <2>4. reserve' = reserve - 1 BY <2>1, <2>2 DEF Tick, Down, Holds
    <2>5. cool' = 0 /\ exists' /\ hash' = pay'[x] /\ pc'[x] = pc[x]
        BY <2>1 DEF Tick, Down, Holds
    <2>6. ago'[pay'[x]] <= ago[pay[x]] + 1
        BY <2>2 DEF Tick, Long, Lease, TypeOK
    <2>7. pc'[x] = "sent" => ago'[pay'[x]] <= age'[x]
        <3>1. pay'[x] \in Payloads /\ ago'[pay'[x]] \in Nat BY DEF TypeOK
        <3> QED BY <3>1, <2>1, <2>2, <2>3, <2>5, <2>6 DEF Holds
    <2> QED BY <2>1, <2>2, <2>3, <2>4, <2>5, <2>7 DEF Holds
<1>3. Earned'
    <2>1. hash \in Payloads /\ ago[hash] \in Nat /\ cool \in Nat /\ hash' = hash
        BY DEF Lease, TypeOK, Tick
    <2>2. ago'[hash] <= ago[hash] + 1 /\ ago'[hash] \in Nat
        BY <2>1 DEF Tick, Long
    <2>3. cool > 0 => cool' = cool - 1 BY <2>1 DEF Tick, Down
    <2>4. cool = 0 => cool' = 0 BY DEF Tick, Down
    <2>5. exists' = exists BY DEF Tick
    <2> QED BY <2>1, <2>2, <2>3, <2>4, <2>5 DEF Lease, Earned
<1> QED BY <1>1, <1>2, <1>3 DEF Lease

LEMMA LeaseNext == Lease /\ [Next]_vars /\ Kept' => Lease'
<1> SUFFICES ASSUME Lease, [Next]_vars, Kept' PROVE Lease'
    OBVIOUS
<1>t. TypeOK' BY TypedNext DEF Lease
<1>1. ASSUME NEW x \in Senders, NEW d \in Payloads, Claim(x, d) PROVE Lease'
    <2>1. \A y \in Senders : pc[y] \notin InFlight
        BY <1>1, FreeMeansIdle DEF Claim
    <2>2. \A y \in Senders : pc'[y] \in InFlight => y = x
        BY <1>1, <2>1 DEF Claim, Lease, TypeOK
    <2>3. Holds(x)'
        BY <1>1 DEF Claim, Holds, Lease, TypeOK
    <2>4. Earned' BY <1>1 DEF Claim, Earned
    <2> QED BY <1>t, <2>2, <2>3, <2>4 DEF Lease, Alone
<1>2. ASSUME NEW x \in Senders, NEW d \in Payloads, Skip(x, d) PROVE Lease'
    BY <1>2, <1>t DEF Skip, vars, row, sender, past, Lease, Alone, Holds, Earned
<1>3. ASSUME NEW x \in Senders,
             \/ GiveUp(x) \/ Deliver(x) \/ SendFails(x)
             \/ MarkSent(x) \/ Release(x) \/ Lose(x)
      PROVE Lease'
    <2>1. CASE GiveUp(x) \/ Lose(x)
        BY <2>1, <1>t, LeaseGoes DEF GiveUp, Lose, past
    <2>2. CASE Deliver(x)
        BY <2>2, <1>t, LeaseAnswers DEF Deliver
    <2>3. CASE SendFails(x)
        BY <2>3, <1>t, LeaseAnswers DEF SendFails, past
    <2>4. CASE MarkSent(x)
        <3>1. pc[x] \in InFlight /\ Goes(x, "idle") BY <2>4 DEF MarkSent, InFlight
        <3>2. Holds(x) BY <3>1 DEF Lease
        <3>3. /\ pay[x] \in Payloads /\ ago[pay[x]] \in Nat /\ age[x] \in Nat
            BY DEF Lease, TypeOK
        <3>4. ago[hash] <= SendTime BY <2>4, <3>2, <3>3 DEF MarkSent, Holds, past
        <3>5. Earned' BY <2>4, <3>2, <3>3, <3>4 DEF MarkSent, Earned, Holds, past
        <3> QED BY <1>t, <3>1, <3>5, LeaseEnds
    <2>5. CASE Release(x)
        <3>1. pc[x] \in InFlight /\ Goes(x, "idle") BY <2>5 DEF Release, InFlight
        <3>2. Earned' BY <2>5 DEF Release, Earned, Lease, past
        <3> QED BY <1>t, <3>1, <3>2, LeaseEnds
    <2> QED BY <1>3, <2>1, <2>2, <2>3, <2>4, <2>5
<1>4. CASE Clear
    <2>1. \A x \in Senders : pc'[x] \notin InFlight
        BY <1>4 DEF Clear, sender, Kept
    <2>2. Earned' BY <1>4 DEF Clear, Earned
    <2> QED BY <1>t, <2>1, <2>2 DEF Lease, Alone
<1>5. CASE Tick BY <1>5, <1>t, LeaseTick
<1>6. CASE UNCHANGED vars
    BY <1>6, <1>t DEF vars, row, sender, past, Lease, Alone, Holds, Earned
<1> QED BY <1>1, <1>2, <1>3, <1>4, <1>5, <1>6 DEF Next

LEMMA LeaseInit == Init => Lease
<1> SUFFICES ASSUME Init PROVE Lease
    OBVIOUS
<1>1. \A x \in Senders : pc[x] \notin InFlight BY DEF Init, InFlight
<1>2. Earned BY DEF Init, Earned
<1> QED BY <1>1, <1>2, TypedInit DEF Lease, Alone

\* The inductive invariant of the guard.
Guarded == TypeOK /\ (Kept => Lease)

LEMMA GuardedNext == Guarded /\ [Next]_vars => Guarded'
<1> SUFFICES ASSUME Guarded, [Next]_vars PROVE Guarded'
    OBVIOUS
<1>1. TypeOK' BY TypedNext DEF Guarded
<1>2. Kept' => Kept BY MishapsStay DEF Kept
<1> QED BY <1>1, <1>2, LeaseNext DEF Guarded

LEMMA GuardedInit == Init => Guarded
BY LeaseInit DEF Guarded, Lease

\* One sender at most is in flight as long as every sender ends its claim
\* within SendTime and no clear hits one, through crashes and lost answers.
THEOREM LeaseExcludes == Spec => []OneSender
<1>1. Guarded => OneSender BY DEF Guarded, Kept, Lease, Alone, OneSender
<1> QED BY <1>1, GuardedInit, GuardedNext, PTL DEF Spec

\* Under the same conditions a cooldown that suppresses a payload goes back to
\* a delivery of that payload.
THEOREM SilenceHasACause == Spec => []SilenceIsEarned
<1>1. Guarded => SilenceIsEarned
    BY DEF Guarded, Kept, Lease, TypeOK, Earned, SilenceIsEarned
<1> QED BY <1>1, GuardedInit, GuardedNext, PTL DEF Spec

-----------------------------------------------------------------------------
(* No repeats. *)

\* Until its message is out, a sender holds a payload that is due; without a
\* sender, the cooldown covers the age of the last delivery; and what the row
\* does not name was not delivered lately.
Rested ==
    /\ \A x \in Senders :
          pc[x] \in {"sending", "failed"} => ago[pay[x]] >= Cooldown
    /\ exists /\ (\A x \in Senders : pc[x] \notin InFlight) =>
          ago[hash] + cool >= Cooldown
    /\ \A d \in Payloads : ~exists \/ d # hash => ago[d] = Long

LEMMA RestedNext == Lease /\ Rested /\ [Next]_vars /\ mishaps' = {} => Rested'
<1> SUFFICES ASSUME Lease, Rested, [Next]_vars, mishaps' = {} PROVE Rested'
    OBVIOUS
<1>t. TypeOK /\ TypeOK' BY TypedNext DEF Lease
<1>h. \A x \in Senders : pc[x] \in InFlight =>
          /\ Holds(x)
          /\ \A y \in Senders : pc[y] \in InFlight => y = x
    BY DEF Lease, Alone
<1>n. Long \in Nat /\ Long >= Cooldown BY DEF Long
<1>1. ASSUME NEW x \in Senders, NEW d \in Payloads, Claim(x, d) PROVE Rested'
    <2>1. \A y \in Senders : pc[y] \notin InFlight
        BY <1>1, FreeMeansIdle DEF Claim
    <2>2. ago[d] >= Cooldown
        BY <1>1, <1>t, <1>n, <2>1 DEF Claim, Free, Rested, TypeOK
    <2>3. \A y \in Senders : pc'[y] \in InFlight <=> y = x
        BY <1>1, <1>t, <2>1 DEF Claim, TypeOK, InFlight
    <2>4. pay'[x] = d /\ hash' = d /\ ago'[d] = ago[d]
        BY <1>1, <1>t DEF Claim, TypeOK
    <2>5. \A e \in Payloads : e # d => ago'[e] = Long
        BY <1>1 DEF Claim
    <2> QED BY <1>1, <2>2, <2>3, <2>4, <2>5 DEF Rested, InFlight, Claim
<1>2. ASSUME NEW x \in Senders, NEW d \in Payloads, Skip(x, d) PROVE Rested'
    BY <1>2 DEF Skip, vars, row, sender, past, Rested
<1>3. ASSUME NEW x \in Senders,
             \/ GiveUp(x) \/ Deliver(x) \/ SendFails(x)
             \/ MarkSent(x) \/ Release(x) \/ Lose(x)
      PROVE Rested'
    <2>1. pc[x] \in InFlight /\ Holds(x) /\ exists /\ hash = pay[x]
        BY <1>3, <1>h DEF GiveUp, Deliver, SendFails, MarkSent, Release, Lose, InFlight, Holds
    <2>2. hash \in Payloads /\ ago[hash] \in Nat /\ cool \in Nat
        BY <1>t DEF TypeOK
    <2>3. \A y \in Senders : y # x => pc[y] \notin InFlight BY <1>h, <2>1
    <2>4. exists' = exists /\ hash' = hash /\ pay' = pay
        BY <1>3 DEF GiveUp, Deliver, SendFails, MarkSent, Release, Lose, Goes, row
    <2>5. CASE GiveUp(x) \/ Release(x)
        <3>1. ago[hash] >= Cooldown /\ ago' = ago
            BY <2>1, <2>5 DEF GiveUp, Release, Rested, past
        <3>2. \A y \in Senders : pc'[y] \notin InFlight
            BY <1>t, <2>3, <2>5 DEF GiveUp, Release, Goes, TypeOK, InFlight
        <3>3. cool' \in Nat BY <1>t DEF TypeOK
        <3> QED BY <2>2, <2>4, <3>1, <3>2, <3>3 DEF Rested, InFlight
    <2>6. CASE Deliver(x)
        <3>1. pc'[x] = "sent" /\ \A y \in Senders : pc'[y] \in InFlight => y = x
            BY <1>t, <2>3, <2>6 DEF Deliver, Goes, TypeOK, InFlight
        <3>2. \A d \in Payloads : d # hash => ago'[d] = ago[d]
            BY <1>t, <2>1, <2>6 DEF Deliver, TypeOK
        <3> QED BY <2>1, <2>4, <3>1, <3>2 DEF Rested, InFlight
    <2>7. CASE SendFails(x)
        <3>1. ago' = ago BY <2>7 DEF SendFails, past
        <3>2. pc'[x] = "failed" /\ \A y \in Senders : pc'[y] \in InFlight => y = x
            BY <1>t, <2>3, <2>7 DEF SendFails, Goes, TypeOK, InFlight
        <3>3. ago[pay[x]] >= Cooldown BY <2>7 DEF SendFails, Rested
        <3> QED BY <2>4, <3>1, <3>2, <3>3 DEF Rested, InFlight
    <2>8. CASE MarkSent(x)
        <3>1. \A y \in Senders : pc'[y] \notin InFlight
            BY <1>t, <2>3, <2>8 DEF MarkSent, Goes, TypeOK, InFlight
        <3>2. ago' = ago /\ cool' = Cooldown BY <2>1, <2>8 DEF MarkSent, past
        <3> QED BY <2>2, <2>4, <3>1, <3>2 DEF Rested, InFlight
    <2>9. CASE Lose(x) BY <2>9 DEF Lose
    <2> QED BY <1>3, <2>5, <2>6, <2>7, <2>8, <2>9
<1>4. CASE Clear
    <2>1. \A x \in Senders : pc'[x] \notin InFlight
        BY <1>4 DEF Clear, sender
    <2> QED BY <1>4, <2>1 DEF Clear, Rested, InFlight, Long
<1>5. CASE Tick
    <2>1. \A d \in Payloads :
             /\ ago[d] \in Nat /\ ago'[d] \in Nat /\ ago'[d] >= ago[d]
             /\ ago[d] < Long => ago'[d] = ago[d] + 1
             /\ ago[d] = Long => ago'[d] = Long
        BY <1>5, <1>t, <1>n DEF Tick, TypeOK
    <2>2. pc' = pc /\ pay' = pay /\ exists' = exists /\ hash' = hash
        BY <1>5 DEF Tick
    <2>3. cool \in Nat /\ cool' \in Nat /\ cool' >= cool - 1 /\ (cool = 0 => cool' = 0)
        BY <1>5, <1>t DEF Tick, Down, TypeOK
    <2>4. hash \in Payloads /\ \A x \in Senders : pay[x] \in Payloads
        BY <1>t DEF TypeOK
    <2>5. \A x \in Senders :
             pc'[x] \in {"sending", "failed"} => ago'[pay'[x]] >= Cooldown
        BY <2>1, <2>2, <2>4 DEF Rested
    <2>6. exists' /\ (\A x \in Senders : pc'[x] \notin InFlight) =>
             ago'[hash'] + cool' >= Cooldown
        <3> SUFFICES ASSUME ago[hash] + cool >= Cooldown
                     PROVE  ago'[hash] + cool' >= Cooldown
            BY <2>2 DEF Rested
        <3>1. ago[hash] \in 0 .. Long BY <1>t, <2>4 DEF TypeOK
        <3>2. CASE ago[hash] = Long BY <1>n, <2>1, <2>3, <2>4, <3>2
        <3>3. CASE ago[hash] < Long BY <2>1, <2>3, <2>4, <3>3
        <3> QED BY <1>n, <3>1, <3>2, <3>3
    <2>7. \A d \in Payloads : ~exists' \/ d # hash' => ago'[d] = Long'
        BY <2>1, <2>2 DEF Rested, Long
    <2> QED BY <2>5, <2>6, <2>7 DEF Rested
<1>6. CASE UNCHANGED vars BY <1>6 DEF vars, row, sender, past, Rested
<1> QED BY <1>1, <1>2, <1>3, <1>4, <1>5, <1>6 DEF Next

LEMMA RestedInit == Init => Rested
BY DEF Init, Rested, InFlight, Long

\* Without a mishap nobody is about to send what was delivered within the
\* cooldown.
THEOREM NothingIsRepeated == Spec => []NoRepeat
<1> DEFINE Inv == Guarded /\ (mishaps = {} => Rested)
<1>1. Init => Inv BY GuardedInit, RestedInit
<1>2. Inv /\ [Next]_vars => Inv'
    <2> SUFFICES ASSUME Inv, [Next]_vars PROVE Inv'
        OBVIOUS
    <2>1. Guarded' BY GuardedNext
    <2>2. mishaps' = {} => mishaps = {} BY MishapsStay
    <2>3. mishaps = {} => Lease BY DEF Guarded, Kept
    <2> QED BY <2>1, <2>2, <2>3, RestedNext
<1>3. Inv => NoRepeat
    BY DEF Guarded, TypeOK, Rested, NoRepeat, Repeats
<1> QED BY <1>1, <1>2, <1>3, PTL DEF Spec

\* The guard is neither too open nor too tight (claim_notification,
\* mark_notification_sent, release_notification), for every set of senders and
\* payloads.
THEOREM GuardIsExact == Spec => []DeliveredOnce
<1>1. NoRepeat /\ SilenceIsEarned => DeliveredOnce BY DEF DeliveredOnce
<1> QED BY <1>1, NothingIsRepeated, SilenceHasACause, PTL
=============================================================================
