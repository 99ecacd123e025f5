--------------------------- MODULE XingtuSessions ---------------------------
(***************************************************************************)
(* The login sessions of the Xingtu accounts: their upload into the        *)
(* database and the registry of an instance, the start of an instance with *)
(* the migration of rows in plain text (workflow.rs, xingtu/account.rs,    *)
(* server/mod.rs), the hourly check of all sessions (scheduler.rs) and an  *)
(* export that is polled for (xingtu/mod.rs).                              *)
(*                                                                         *)
(* A session is a number; it is dead once Xingtu no longer accepts it.     *)
(* Encryption and headers are left out; the notices that a check sends are *)
(* in NotificationGuard.  Every instance has a registry of its own.        *)
(***************************************************************************)
EXTENDS Integers, FiniteSets

CONSTANTS
    Instances,
    NoInstance,
    LastAccount,  \* the accounts are 1 .. LastAccount, in the order of a check
    Legacy,       \* those whose row is in plain text at first
    Checkers,     \* the instances whose checks are followed
    Exporters,    \* and those whose exports are
    Attempts,     \* XINGTU_REQUEST_ATTEMPTS
    MaxUploads,   \* bound of the uploads
    MaxDead,      \* bound of the sessions that Xingtu ends
    MaxMishaps    \* bound of crashes, failing statements and dropped handlers

Accounts == 1 .. LastAccount

\* The sessions that are uploaded, in the order in which the uploads begin.
Uploads == LastAccount + 1 .. LastAccount + MaxUploads

ASSUME SessionsAssumption ==
    /\ NoInstance \notin Instances
    /\ Checkers \subseteq Instances /\ Exporters \subseteq Instances
    /\ LastAccount \in Nat \ {0} /\ Legacy \subseteq Accounts
    /\ Attempts \in Nat \ {0} /\ MaxUploads \in Nat /\ MaxDead \in Nat /\ MaxMishaps \in Nat

VARIABLES
    stored,   \* xingtu_login_session: session, has it a cookie, is it sealed
    memory,   \* XingtuSessionRegistry of an instance; 0 is no client
    start,    \* of an instance: "down", "migrate", "up", and the rows it read
    upload,   \* the handler of a session
    sent,     \* the number of sessions there have been
    dead,     \* those that Xingtu no longer accepts
    check,    \* the pass of the check of an instance
    status,   \* session_status of an account
    export,   \* an export that is followed
    mishaps,
    acked     \* history: the last acknowledged upload, and the instances that must have it

sessions     == <<stored, memory, start, upload, acked>>
sessionsVars == <<sessions, sent, dead, check, status, export, mishaps>>

NoRow    == [v |-> 0, ok |-> TRUE, sealed |-> TRUE]
NoUpload == [pc |-> "idle", i |-> NoInstance, a |-> 1, ok |-> TRUE, alone |-> TRUE]
NoCheck  == [pc |-> "idle", a |-> 1, v |-> 0, valid |-> FALSE]
NoExport == [pc |-> "idle", i |-> NoInstance, v |-> 0, tries |-> 0, late |-> FALSE]
NoAck    == [v |-> 0, on |-> {}]
Blank    == [a \in Accounts |-> 0]
Down     == [pc |-> "down", read |-> [a \in Accounts |-> NoRow]]

Mishap == /\ mishaps < MaxMishaps
          /\ mishaps' = mishaps + 1

Up(i) == start[i].pc = "up"

SessionsInit ==
    /\ stored = [a \in Accounts |->
                   IF a \in Legacy THEN [v |-> a, ok |-> TRUE, sealed |-> FALSE] ELSE NoRow]
    /\ memory = [i \in Instances |-> Blank]
    /\ start = [i \in Instances |-> Down]
    /\ upload = [u \in Uploads |-> NoUpload]
    /\ sent = LastAccount /\ dead = {}
    /\ check = [i \in Checkers |-> NoCheck]
    /\ status = [a \in Accounts |-> "valid"]
    /\ export = NoExport
    /\ mishaps = 0
    /\ acked = [a \in Accounts |-> NoAck]

-----------------------------------------------------------------------------
(* The start of an instance *)

\* list_stored_sessions, its SELECT.
ReadRows(i) ==
    /\ start[i].pc = "down"
    /\ start' = [start EXCEPT ![i] = [pc |-> "migrate", read |-> stored]]
    /\ acked' = [a \in Accounts |-> [acked[a] EXCEPT !.on = @ \cup {i}]]
    /\ UNCHANGED <<stored, memory, upload, sent, dead, check, status, export, mishaps>>

Plain(i) == {a \in Accounts : ~start[i].read[a].sealed}

\* A row in plain text is written again, as it was read.
Migrate(i, a) ==
    /\ start[i].pc = "migrate" /\ a \in Plain(i)
    /\ stored' = [stored EXCEPT ![a] = [start[i].read[a] EXCEPT !.sealed = TRUE]]
    /\ start' = [start EXCEPT ![i].read[a].sealed = TRUE]
    /\ UNCHANGED <<memory, upload, acked, sent, dead, check, status, export, mishaps>>

Restored(rows) == [a \in Accounts |-> rows[a].v]

\* Mutant: an account without a session is refused like a session without a cookie.
MayStartEveryRow(rows) == \A a \in Accounts : rows[a].ok /\ rows[a].v > 0

\* set_session refuses a session without a cookie, and the start ends with it.
MayStart(rows) == \A a \in Accounts : rows[a].ok

\* restore_sessions_from_db; then requests are served.
Restore(i) ==
    /\ start[i].pc = "migrate" /\ Plain(i) = {}
    /\ IF MayStart(start[i].read)
         THEN /\ memory' = [memory EXCEPT ![i] = Restored(start[i].read)]
              /\ start' = [start EXCEPT ![i] = [Down EXCEPT !.pc = "up"]]
         ELSE start' = [start EXCEPT ![i] = Down] /\ UNCHANGED memory
    /\ UNCHANGED <<stored, upload, acked, sent, dead, check, status, export, mishaps>>

\* A crash, or a statement of the start that fails.
Crash(i) ==
    /\ start[i].pc # "down"
    /\ Mishap
    /\ start' = [start EXCEPT ![i] = Down]
    /\ memory' = [memory EXCEPT ![i] = Blank]
    /\ upload' = [u \in Uploads |-> IF upload[u].i = i THEN NoUpload ELSE upload[u]]
    /\ check' = [c \in Checkers |-> IF c = i THEN NoCheck ELSE check[c]]
    /\ export' = IF export.i = i THEN NoExport ELSE export
    /\ acked' = [a \in Accounts |-> [acked[a] EXCEPT !.on = @ \ {i}]]
    /\ UNCHANGED <<stored, sent, dead, status>>

-----------------------------------------------------------------------------
(* Uploads *)

Uploading(a) == {u \in Uploads : upload[u].pc # "idle" /\ upload[u].a = a}

\* alone: no other upload of the account, and no start that migrates its row, in between.
BeginUpload(u, i, a, ok) ==
    LET clear == Uploading(a) = {} /\ \A j \in Instances : a \notin Plain(j)
    IN  /\ Up(i) /\ u = sent + 1 /\ export = NoExport
        /\ sent' = u
        /\ upload' = [w \in Uploads |->
                        IF w = u THEN [pc |-> "write", i |-> i, a |-> a, ok |-> ok, alone |-> clear]
                        ELSE IF w \in Uploading(a) THEN [upload[w] EXCEPT !.alone = FALSE]
                        ELSE upload[w]]
        /\ UNCHANGED <<stored, memory, start, acked, dead, check, status, export, mishaps>>

\* upsert_session does not look into the session.
WriteUpload(u) ==
    LET w == upload[u]
    IN  /\ w.pc = "write"
        /\ stored' = [stored EXCEPT ![w.a] = [v |-> u, ok |-> w.ok, sealed |-> TRUE]]
        /\ upload' = [upload EXCEPT ![u].pc = "set"]
        /\ acked' = [acked EXCEPT ![w.a] = NoAck]
        /\ UNCHANGED <<memory, start, sent, dead, check, status, export, mishaps>>

\* Mutant: after a write that failed the registry is given the session all the same.
AfterFailedWriteSet(w) == [w EXCEPT !.pc = "set"]

AfterFailedWrite(w) == NoUpload

FailWrite(u) ==
    /\ upload[u].pc = "write"
    /\ Mishap
    /\ upload' = [upload EXCEPT ![u] = AfterFailedWrite(upload[u])]
    /\ UNCHANGED <<stored, memory, start, acked, sent, dead, check, status, export>>

\* set_session of the registry, and the answer.
SetUpload(u) ==
    LET w == upload[u]
    IN  /\ w.pc = "set"
        /\ upload' = [upload EXCEPT ![u] = NoUpload]
        /\ IF w.ok
             THEN /\ memory' = [memory EXCEPT ![w.i][w.a] = u]
                  /\ acked' = [acked EXCEPT ![w.a] =
                                 IF w.alone THEN [v |-> u, on |-> {w.i}] ELSE NoAck]
             ELSE UNCHANGED <<memory, acked>>
        /\ UNCHANGED <<stored, start, sent, dead, check, status, export, mishaps>>

\* The client is gone and the handler with it.
DropUpload(u) ==
    /\ upload[u].pc # "idle"
    /\ Mishap
    /\ upload' = [upload EXCEPT ![u] = NoUpload]
    /\ UNCHANGED <<stored, memory, start, acked, sent, dead, check, status, export>>

-----------------------------------------------------------------------------
(* Requests to Xingtu *)

\* The sessions whose end somebody can meet.
Asked == {memory[i][a] : i \in Checkers, a \in Accounts} \cup {check[i].v : i \in Checkers}
           \cup {export.v}

Expire(v) ==
    /\ v \in Asked \ (dead \cup {0})
    /\ Cardinality(dead) < MaxDead
    /\ dead' = dead \cup {v}
    /\ UNCHANGED <<sessions, sent, check, status, export, mishaps>>

\* Mutant: one try too many.
MayRetryOnceMore(r) == r.tries <= Attempts

\* get_json: transient statuses and errors are retried a few times.
MayRetry(r) == r.tries < Attempts
Retried(r)  == [r EXCEPT !.tries = @ + 1]

-----------------------------------------------------------------------------
(* The check of all sessions *)

\* The next account of a pass; one without a client ends it.
NextAccount(i) ==
    LET c == check[i]
    IN  /\ Up(i) /\ c.pc \in {"idle", "next"} /\ export = NoExport
        /\ check' = [check EXCEPT ![i] = IF memory[i][c.a] > 0
                                           THEN [c EXCEPT !.pc = "ask", !.v = memory[i][c.a]]
                                           ELSE NoCheck]
        /\ UNCHANGED <<sessions, sent, dead, status, export, mishaps>>

Judged(c, valid) == [pc |-> "record", a |-> c.a, v |-> 0, valid |-> valid]

Ask(i) ==
    LET c == check[i]
    IN  /\ c.pc = "ask"
        /\ check' = [check EXCEPT ![i] = Judged(c, c.v \notin dead)]
        /\ UNCHANGED <<sessions, sent, dead, status, export, mishaps>>

\* No answer in all the tries, which are not followed here, counts as invalid.
AskInVain(i) ==
    LET c == check[i]
    IN  /\ c.pc = "ask"
        /\ check' = [check EXCEPT ![i] = Judged(c, FALSE)]
        /\ UNCHANGED <<sessions, sent, dead, status, export, mishaps>>

\* Mutant: a pass ends with the first session that is invalid.
AfterVerdictStop(c) == IF c.a = LastAccount \/ ~c.valid THEN NoCheck
                       ELSE [NoCheck EXCEPT !.pc = "next", !.a = c.a + 1]

AfterVerdict(c) == IF c.a = LastAccount THEN NoCheck
                   ELSE [NoCheck EXCEPT !.pc = "next", !.a = c.a + 1]

\* The verdict goes to the account, whatever session it has by now.
Recorded(c) == [status EXCEPT ![c.a] = IF c.valid THEN "valid" ELSE "invalid"]

\* The verdict is recorded, and on to the next account.
Record(i) ==
    LET c == check[i]
    IN  /\ c.pc = "record"
        /\ status' = Recorded(c)
        /\ check' = [check EXCEPT ![i] = AfterVerdict(c)]
        /\ UNCHANGED <<sessions, sent, dead, export, mishaps>>

FailRecord(i) ==
    /\ check[i].pc = "record"
    /\ Mishap
    /\ check' = [check EXCEPT ![i] = NoCheck]
    /\ UNCHANGED <<sessions, sent, dead, status, export>>

-----------------------------------------------------------------------------
(* An export *)

\* An export shares nothing with uploads and checks: one is followed without any.
Undisturbed ==
    sent = LastAccount /\ dead = {} /\ \A i \in Checkers : check[i] = NoCheck

\* The session is taken once, for the whole export.
BeginExport(i, a) ==
    /\ Up(i) /\ export = NoExport /\ memory[i][a] > 0
    /\ Undisturbed
    /\ export' = [pc |-> "create", i |-> i, v |-> memory[i][a], tries |-> 1, late |-> FALSE]
    /\ UNCHANGED <<sessions, sent, dead, check, status, mishaps>>

\* The task is accepted, with a live session.
CreateTask ==
    /\ export.pc = "create" /\ export.v \notin dead
    /\ export' = [export EXCEPT !.pc = "poll", !.tries = 1]
    /\ UNCHANGED <<sessions, sent, dead, check, status, mishaps>>

\* Mutant: the deadline is not looked at.
StillDueAlways(e) == TRUE

StillDue(e) == ~e.late

\* A task that is still running is asked for again until the deadline, and once after it.
PollRunning ==
    /\ export.pc = "poll" /\ export.v \notin dead
    /\ export' = IF StillDue(export) THEN [export EXCEPT !.tries = 1] ELSE NoExport
    /\ UNCHANGED <<sessions, sent, dead, check, status, mishaps>>

\* The task is done, or has failed, or Xingtu refuses the request.
EndExport ==
    /\ export.pc \in {"create", "poll"}
    /\ export.pc = "create" => export.v \in dead
    /\ export' = NoExport
    /\ UNCHANGED <<sessions, sent, dead, check, status, mishaps>>

ExportInVain ==
    /\ export.pc \in {"create", "poll"}
    /\ export' = IF MayRetry(export) THEN Retried(export) ELSE NoExport
    /\ UNCHANGED <<sessions, sent, dead, check, status, mishaps>>

Deadline ==
    /\ export.pc = "poll" /\ ~export.late
    /\ export' = [export EXCEPT !.late = TRUE]
    /\ UNCHANGED <<sessions, sent, dead, check, status, mishaps>>

ExportRequest == CreateTask \/ PollRunning \/ EndExport \/ ExportInVain

-----------------------------------------------------------------------------
Starting(i) == ReadRows(i) \/ Restore(i) \/ \E a \in Accounts : Migrate(i, a)
Checking(i) == NextAccount(i) \/ Ask(i) \/ AskInVain(i) \/ Record(i)

SessionsNext ==
    \/ \E i \in Instances : Starting(i) \/ Crash(i)
    \/ \E i \in Checkers : Checking(i) \/ FailRecord(i)
    \/ \E u \in Uploads, i \in Instances, a \in Accounts, ok \in BOOLEAN : BeginUpload(u, i, a, ok)
    \/ \E u \in Uploads : WriteUpload(u) \/ FailWrite(u) \/ SetUpload(u) \/ DropUpload(u)
    \/ \E v \in 1 .. LastAccount + MaxUploads : Expire(v)
    \/ \E i \in Exporters, a \in Accounts : BeginExport(i, a)
    \/ ExportRequest \/ Deadline

\* An instance that is down is started again, checks run every hour, requests are
\* answered or fail, and time passes.
Fairness ==
    /\ \A i \in Instances : WF_sessionsVars(Starting(i))
    /\ \A i \in Checkers : WF_sessionsVars(Checking(i))
    /\ WF_sessionsVars(ExportRequest) /\ WF_sessionsVars(Deadline)

SessionsSpec == SessionsInit /\ [][SessionsNext]_sessionsVars /\ Fairness

-----------------------------------------------------------------------------
(* Properties *)

\* Types; what is in memory has a cookie, and no client is there before its instance
\* is up.
SessionsTypeOK ==
    /\ \A a \in Accounts :
          /\ stored[a].v \in 0 .. sent /\ status[a] \in {"valid", "invalid"}
          /\ acked[a].v \in 0 .. sent /\ acked[a].on \subseteq Instances
    /\ \A i \in Instances :
          /\ start[i].pc \in {"down", "migrate", "up"}
          /\ memory[i] \in [Accounts -> 0 .. sent]
          /\ memory[i] # Blank => Up(i)
    /\ \A i \in Checkers :
          check[i].pc \in {"idle", "next", "ask", "record"} /\ check[i].a \in Accounts
    /\ \A u \in Uploads : upload[u].pc \in {"idle", "write", "set"}
    /\ sent \in LastAccount .. LastAccount + MaxUploads /\ dead \subseteq 1 .. sent
    /\ export.pc \in {"idle", "create", "poll"} /\ export.tries \in 0 .. Attempts
    /\ mishaps \in 0 .. MaxMishaps

\* An upload that was acknowledged, and that no other upload or migration of the
\* account crossed, is what the database holds and what its instance and those that
\* start afterwards work with, until another upload is written (upsert_xingtu_session,
\* restore_sessions_from_db), through crashes, failing statements and lost handlers.
AckedIsKept ==
    \A a \in Accounts : acked[a].v > 0 =>
        /\ stored[a] = [v |-> acked[a].v, ok |-> TRUE, sealed |-> TRUE]
        /\ \A i \in acked[a].on : Up(i) => memory[i][a] = acked[a].v

\* An instance that is down comes up, unless the session of some account that is
\* stored is one that the registry refuses (restore_sessions_from_db).
InstancesComeUp ==
    \A i \in Instances : ~Up(i) ~> Up(i) \/ \E a \in Accounts : ~stored[a].ok

\* The checks of every instance that is up get to the account, and its session is dead.
Doomed(a) ==
    /\ \E i \in Checkers : Up(i)
    /\ \A i \in Checkers : Up(i) => memory[i][a] \in dead /\ \A b \in 1 .. a : memory[i][b] > 0

\* A session that stays dead is found out and stays so (check_all_logins), whatever
\* late verdicts on earlier sessions are still recorded.
DeadIsNoticed == \A a \in Accounts : <>[]Doomed(a) => <>[](status[a] = "invalid")

\* Every export ends (export_task_spreadsheet_urls), though Xingtu may never finish the
\* task and answer with errors for ever.
ExportsEnd == export # NoExport ~> export = NoExport
=============================================================================
