----------------------------- MODULE LoginProofs -----------------------------
(***************************************************************************)
(* Theorems about the logins of users and of accounts: XingtuSessions, for *)
(* any number of instances, accounts, uploads and crashes; LoginSessions,  *)
(* for every set of applications, users, sessions and concurrent requests. *)
(***************************************************************************)
EXTENDS XingtuSessions, LoginSessions, TLAPS

-----------------------------------------------------------------------------
(* The inductive invariant of XingtuSessions. *)

\* What a row and an upload may be, when n sessions have been sent.
RowType(n) == [v : 0 .. n, ok : BOOLEAN, sealed : BOOLEAN]
UploadType == [pc : {"idle", "write", "set"}, i : Instances \cup {NoInstance}, a : Accounts,
               ok : BOOLEAN, alone : BOOLEAN]
CheckType(n) == [pc : {"idle", "next", "ask", "record"}, a : Accounts, v : 0 .. n, valid : BOOLEAN]
ExportType(n) == [pc : {"idle", "create", "poll"}, i : Instances \cup {NoInstance}, v : 0 .. n,
                  tries : 0 .. Attempts, late : BOOLEAN]

\* The registries and the rows; an instance that is not migrating holds no rows.
StoresOK ==
    /\ sent \in LastAccount .. LastAccount + MaxUploads
    /\ stored \in [Accounts -> RowType(sent)]
    /\ memory \in [Instances -> [Accounts -> 0 .. sent]]
    /\ start \in [Instances -> [pc : {"down", "migrate", "up"}, read : [Accounts -> RowType(sent)]]]
    /\ acked \in [Accounts -> [v : 0 .. sent, on : SUBSET Instances]]
    /\ \A i \in Instances : start[i].pc # "migrate" => start[i].read = Down.read
    /\ \A i \in Instances : memory[i] # Blank => Up(i)

ChecksOK ==
    /\ dead \subseteq 1 .. sent
    /\ check \in [Checkers -> CheckType(sent)]
    /\ status \in [Accounts -> {"valid", "invalid"}]
    /\ export \in ExportType(sent)
    /\ mishaps \in 0 .. MaxMishaps

\* An upload belongs to an instance that is up.
UploadsOK ==
    /\ upload \in [Uploads -> UploadType]
    /\ \A u \in Uploads : upload[u].pc # "idle" =>
          u <= sent /\ upload[u].i \in Instances /\ Up(upload[u].i)

\* Once an instance is past the row of an account, nobody finds it in plain text.
SealedOK ==
    \A i \in Instances, a \in Accounts :
       Up(i) \/ (start[i].pc = "migrate" /\ start[i].read[a].sealed) => stored[a].sealed

\* What the uploads that nothing crossed may rely on.
AloneOK ==
    \A u \in Uploads : upload[u].pc # "idle" /\ upload[u].alone =>
       /\ Uploading(upload[u].a) = {u}
       /\ \A j \in Instances : upload[u].a \notin Plain(j)

WrittenOK ==
    \A u \in Uploads : upload[u].pc = "set" =>
       /\ acked[upload[u].a].v = 0
       /\ upload[u].alone =>
             stored[upload[u].a] = [v |-> u, ok |-> upload[u].ok, sealed |-> TRUE]

\* What was acknowledged for an account, and what a start has read of it by now.
AckOK(a) ==
    acked[a].v > 0 =>
       /\ stored[a] = [v |-> acked[a].v, ok |-> TRUE, sealed |-> TRUE]
       /\ \A i \in acked[a].on :
             /\ Up(i) => memory[i][a] = acked[a].v
             /\ start[i].pc = "migrate" => start[i].read[a] = stored[a]
       /\ \A j \in Instances : a \notin Plain(j)

SInv ==
    /\ StoresOK /\ ChecksOK /\ UploadsOK /\ SealedOK /\ AloneOK /\ WrittenOK
    /\ \A a \in Accounts : AckOK(a)

-----------------------------------------------------------------------------
(* The initial states, and what follows from the invariant. *)

LEMMA InitSInv == SessionsInit => SInv
<1> SUFFICES ASSUME SessionsInit PROVE SInv
    OBVIOUS
<1> USE SessionsAssumption DEF SessionsInit, Accounts, Uploads
<1>1. StoresOK
    <2>1. NoRow \in RowType(sent) /\ \A a \in Accounts : [v |-> a, ok |-> TRUE, sealed |-> FALSE]
                                                            \in RowType(sent)
        BY DEF RowType, NoRow
    <2>2. stored \in [Accounts -> RowType(sent)]
        <3> HIDE DEF SessionsInit
        <3>1. stored = [a \in Accounts |->
                  IF a \in Legacy THEN [v |-> a, ok |-> TRUE, sealed |-> FALSE] ELSE NoRow]
            BY DEF SessionsInit
        <3> QED BY <2>1, <3>1
    <2>3. Down.read = [a \in Accounts |-> NoRow] /\ Down.pc = "down"
          /\ Down \in [pc : {"down", "migrate", "up"}, read : [Accounts -> RowType(sent)]]
        BY <2>1 DEF Down
    <2>4. memory \in [Instances -> [Accounts -> 0 .. sent]] BY DEF Blank
    <2>5. acked \in [Accounts -> [v : 0 .. sent, on : SUBSET Instances]] BY DEF NoAck
    <2>6. start \in [Instances -> [pc : {"down", "migrate", "up"}, read : [Accounts -> RowType(sent)]]]
          /\ \A i \in Instances : start[i] = Down
        BY <2>3
    <2>7. sent \in LastAccount .. LastAccount + MaxUploads OBVIOUS
    <2>8. \A i \in Instances : memory[i] = Blank OBVIOUS
    <2> HIDE DEF SessionsInit, Accounts
    <2> QED BY <2>2, <2>3, <2>4, <2>5, <2>6, <2>7, <2>8 DEF StoresOK
<1>2. ChecksOK
    BY DEF ChecksOK, NoCheck, NoExport, CheckType, ExportType
<1>3. \A u \in Uploads : upload[u] = NoUpload /\ NoUpload.pc = "idle" BY DEF NoUpload
<1>4. UploadsOK
    <2>1. NoUpload \in UploadType BY DEF NoUpload, UploadType
    <2> QED BY <1>3, <2>1 DEF UploadsOK
<1>5. \A i \in Instances : start[i].pc = "down" BY DEF Down
<1>6. \A a \in Accounts : acked[a].v = 0 BY DEF NoAck
<1>7. SealedOK BY <1>5 DEF SealedOK, Up
<1> HIDE DEF SessionsInit
<1> QED BY <1>1, <1>2, <1>3, <1>4, <1>6, <1>7 DEF SInv, AloneOK, WrittenOK, AckOK

LEMMA SessionsConclude ==
    ASSUME SInv
    PROVE  SessionsTypeOK /\ AckedIsKept
<1> USE DEF SInv
<1>1. SessionsTypeOK
    <2>1. \A a \in Accounts :
             /\ stored[a].v \in 0 .. sent /\ status[a] \in {"valid", "invalid"}
             /\ acked[a].v \in 0 .. sent /\ acked[a].on \subseteq Instances
        BY DEF StoresOK, ChecksOK, RowType
    <2>2. \A i \in Instances :
             /\ start[i].pc \in {"down", "migrate", "up"}
             /\ memory[i] \in [Accounts -> 0 .. sent] /\ (memory[i] # Blank => Up(i))
        BY DEF StoresOK
    <2>3. \A i \in Checkers :
             check[i].pc \in {"idle", "next", "ask", "record"} /\ check[i].a \in Accounts
        BY DEF ChecksOK, CheckType
    <2>4. \A u \in Uploads : upload[u].pc \in {"idle", "write", "set"}
        BY DEF UploadsOK, UploadType
    <2>5. export.pc \in {"idle", "create", "poll"} /\ export.tries \in 0 .. Attempts
        BY DEF ChecksOK, ExportType
    <2>6. sent \in LastAccount .. LastAccount + MaxUploads BY DEF StoresOK
    <2>7. dead \subseteq 1 .. sent /\ mishaps \in 0 .. MaxMishaps BY DEF ChecksOK
    <2> QED BY <2>1, <2>2, <2>3, <2>4, <2>5, <2>6, <2>7 DEF SessionsTypeOK
<1>2. AckedIsKept BY DEF AckedIsKept, AckOK
<1> QED BY <1>1, <1>2

-----------------------------------------------------------------------------
(* The start and the crash of an instance. *)

LEMMA ReadRowsKeeps ==
    ASSUME SInv, NEW i \in Instances, ReadRows(i)
    PROVE  SInv'
<1> USE SessionsAssumption
<1>1. /\ StoresOK /\ ChecksOK /\ UploadsOK /\ SealedOK /\ AloneOK /\ WrittenOK
      /\ \A a \in Accounts : AckOK(a)
    BY DEF SInv
<1>2. /\ start[i].pc = "down"
      /\ start' = [start EXCEPT ![i] = [pc |-> "migrate", read |-> stored]]
      /\ acked' = [a \in Accounts |-> [acked[a] EXCEPT !.on = @ \cup {i}]]
      /\ UNCHANGED <<stored, memory, upload, sent, dead, check, status, export, mishaps>>
    BY DEF ReadRows
<1>3. /\ start'[i] = [pc |-> "migrate", read |-> stored]
      /\ \A j \in Instances \ {i} : start'[j] = start[j]
    BY <1>1, <1>2 DEF StoresOK
<1>4. \A a \in Accounts : acked'[a].v = acked[a].v /\ acked'[a].on = acked[a].on \cup {i}
    BY <1>1, <1>2 DEF StoresOK
<1>5. StoresOK'
    <2>1. start' \in [Instances -> [pc : {"down", "migrate", "up"}, read : [Accounts -> RowType(sent)]]]
        BY <1>1, <1>2 DEF StoresOK
    <2>2. acked' \in [Accounts -> [v : 0 .. sent, on : SUBSET Instances]]
        BY <1>1, <1>2 DEF StoresOK
    <2>3. \A j \in Instances : memory'[j] # Blank => Up(j)'
        BY <1>1, <1>2, <1>3 DEF StoresOK, Up
    <2> QED BY <1>1, <1>2, <1>3, <2>1, <2>2, <2>3 DEF StoresOK
<1>6. ChecksOK' BY <1>1, <1>2 DEF ChecksOK
<1>7. UploadsOK' BY <1>1, <1>2, <1>3 DEF UploadsOK, Up
<1>8. SealedOK' BY <1>1, <1>2, <1>3 DEF SealedOK, Up
<1>9. ASSUME NEW a \in Accounts, stored[a].sealed, \A j \in Instances : a \notin Plain(j)
      PROVE  \A j \in Instances : a \notin Plain(j)'
    BY <1>2, <1>3, <1>9 DEF Plain
<1>10. AloneOK'
    <2> SUFFICES ASSUME NEW u \in Uploads, upload[u].pc # "idle", upload[u].alone
                 PROVE  /\ Uploading(upload[u].a) = {u}
                        /\ \A j \in Instances : upload[u].a \notin Plain(j)'
        BY <1>2 DEF AloneOK, Uploading
    <2>1. upload[u].a \in Accounts /\ stored[upload[u].a].sealed
        BY <1>1 DEF UploadsOK, UploadType, SealedOK
    <2> QED BY <1>1, <1>9, <2>1 DEF AloneOK
<1>11. WrittenOK' 
    <2>1. \A u \in Uploads : upload[u].a \in Accounts BY <1>1 DEF UploadsOK, UploadType
    <2> QED BY <1>1, <1>2, <1>4, <2>1 DEF WrittenOK
<1>12. ASSUME NEW a \in Accounts PROVE AckOK(a)'
    <2> SUFFICES ASSUME acked[a].v > 0
                 PROVE  /\ stored[a] = [v |-> acked[a].v, ok |-> TRUE, sealed |-> TRUE]
                        /\ \A j \in acked[a].on \cup {i} :
                              /\ Up(j)' => memory[j][a] = acked[a].v
                              /\ start'[j].pc = "migrate" => start'[j].read[a] = stored[a]
                        /\ \A j \in Instances : a \notin Plain(j)'
        BY <1>2, <1>4 DEF AckOK
    <2>1. /\ stored[a] = [v |-> acked[a].v, ok |-> TRUE, sealed |-> TRUE]
          /\ \A j \in acked[a].on :
                /\ Up(j) => memory[j][a] = acked[a].v
                /\ start[j].pc = "migrate" => start[j].read[a] = stored[a]
          /\ \A j \in Instances : a \notin Plain(j)
          /\ acked[a].on \subseteq Instances
        BY <1>1 DEF AckOK, StoresOK
    <2>2. \A j \in Instances : a \notin Plain(j)' BY <1>9, <2>1
    <2>3. ASSUME NEW j \in acked[a].on \cup {i}
          PROVE  /\ Up(j)' => memory[j][a] = acked[a].v
                 /\ start'[j].pc = "migrate" => start'[j].read[a] = stored[a]
        <3>1. CASE j = i BY <1>3, <3>1 DEF Up
        <3>2. CASE j # i BY <1>3, <2>1, <2>3, <3>2 DEF Up
        <3> QED BY <3>1, <3>2
    <2> QED BY <2>1, <2>2, <2>3
<1> QED BY <1>5, <1>6, <1>7, <1>8, <1>10, <1>11, <1>12 DEF SInv
LEMMA MigrateKeeps ==
    ASSUME SInv, NEW i \in Instances, NEW a \in Accounts, Migrate(i, a)
    PROVE  SInv'
<1> USE SessionsAssumption
<1>1. /\ StoresOK /\ ChecksOK /\ UploadsOK /\ SealedOK /\ AloneOK /\ WrittenOK
      /\ \A b \in Accounts : AckOK(b)
    BY DEF SInv
<1> DEFINE row == [start[i].read[a] EXCEPT !.sealed = TRUE]
<1>2. /\ start[i].pc = "migrate" /\ a \in Plain(i) /\ ~start[i].read[a].sealed
      /\ stored' = [stored EXCEPT ![a] = row]
      /\ UNCHANGED <<memory, upload, acked, sent, dead, check, status, export, mishaps>>
    BY DEF Migrate, Plain
<1>3. start' = [start EXCEPT ![i] = [start[i] EXCEPT !.read = [start[i].read EXCEPT ![a] = row]]]
    BY DEF Migrate
<1>4. row \in RowType(sent) /\ row.sealed = TRUE
    <2>1. start[i].read[a] \in RowType(sent) BY <1>1 DEF StoresOK
    <2> QED BY <2>1 DEF RowType
<1> HIDE DEF row
<1>5. /\ start'[i].pc = "migrate" /\ start'[i].read = [start[i].read EXCEPT ![a] = row]
      /\ \A j \in Instances \ {i} : start'[j] = start[j]
    BY <1>1, <1>2, <1>3 DEF StoresOK
<1>6. /\ \A b \in Accounts \ {a} : start'[i].read[b] = start[i].read[b] /\ stored'[b] = stored[b]
      /\ stored'[a] = row /\ start'[i].read[a] = row
    BY <1>1, <1>2, <1>5 DEF StoresOK
<1>7. \A j \in Instances : Up(j)' = Up(j) BY <1>2, <1>5 DEF Up
<1>8. \A j \in Instances : Plain(j)' \subseteq Plain(j) BY <1>4, <1>5, <1>6 DEF Plain
<1>9. StoresOK'
    <2>1. start' \in [Instances -> [pc : {"down", "migrate", "up"}, read : [Accounts -> RowType(sent)]]]
        BY <1>1, <1>3, <1>4 DEF StoresOK
    <2>2. stored' \in [Accounts -> RowType(sent)] BY <1>1, <1>2, <1>4 DEF StoresOK
    <2>3. \A j \in Instances : start'[j].pc # "migrate" => start'[j].read = Down.read
        BY <1>1, <1>5 DEF StoresOK
    <2> QED BY <1>1, <1>2, <1>7, <2>1, <2>2, <2>3 DEF StoresOK
<1>10. ChecksOK' BY <1>1, <1>2 DEF ChecksOK
<1>11. UploadsOK' BY <1>1, <1>2, <1>7 DEF UploadsOK
<1>12. SealedOK'
    <2> SUFFICES ASSUME NEW j \in Instances, NEW b \in Accounts,
                        Up(j)' \/ (start'[j].pc = "migrate" /\ start'[j].read[b].sealed)
                 PROVE  stored'[b].sealed
        BY DEF SealedOK
    <2>1. CASE b = a BY <1>4, <1>6, <2>1
    <2>2. CASE b # a
        <3>1. start'[j].pc = start[j].pc /\ start'[j].read[b] = start[j].read[b]
            BY <1>2, <1>5, <1>6, <2>2
        <3> QED BY <1>1, <1>6, <1>7, <2>2, <3>1 DEF SealedOK
    <2> QED BY <2>1, <2>2
<1>13. AloneOK' BY <1>1, <1>2, <1>8 DEF AloneOK, Uploading
<1>14. WrittenOK'
    <2> SUFFICES ASSUME NEW u \in Uploads, upload[u].pc = "set", upload[u].alone
                 PROVE  stored'[upload[u].a] = stored[upload[u].a]
        BY <1>1, <1>2 DEF WrittenOK
    <2>1. upload[u].a \in Accounts /\ upload[u].a \notin Plain(i)
        BY <1>1 DEF UploadsOK, UploadType, AloneOK
    <2> QED BY <1>2, <1>6, <2>1
<1>15. ASSUME NEW b \in Accounts PROVE AckOK(b)'
    <2>1. CASE b = a BY <1>1, <1>2, <2>1 DEF AckOK
    <2>2. CASE b # a
        <3>1. \A j \in Instances : start'[j].pc = start[j].pc /\ start'[j].read[b] = start[j].read[b]
            BY <1>2, <1>5, <1>6, <2>2
        <3>2. acked[b].on \subseteq Instances BY <1>1 DEF StoresOK
        <3> QED BY <1>1, <1>2, <1>6, <1>7, <1>8, <2>2, <3>1, <3>2 DEF AckOK
    <2> QED BY <2>1, <2>2
<1> QED BY <1>9, <1>10, <1>11, <1>12, <1>13, <1>14, <1>15 DEF SInv

LEMMA RestoreKeeps ==
    ASSUME SInv, NEW i \in Instances, Restore(i)
    PROVE  SInv'
<1> USE SessionsAssumption
<1>1. /\ StoresOK /\ ChecksOK /\ UploadsOK /\ SealedOK /\ AloneOK /\ WrittenOK
      /\ \A b \in Accounts : AckOK(b)
    BY DEF SInv
<1>2. /\ start[i].pc = "migrate" /\ Plain(i) = {}
      /\ UNCHANGED <<stored, upload, acked, sent, dead, check, status, export, mishaps>>
    BY DEF Restore
<1>3. /\ start'[i].read = Down.read /\ start'[i].pc \in {"down", "up"}
      /\ \A j \in Instances \ {i} : start'[j] = start[j] /\ memory'[j] = memory[j]
      /\ start' \in [Instances -> [pc : {"down", "migrate", "up"}, read : [Accounts -> RowType(sent)]]]
      /\ memory' \in [Instances -> [Accounts -> 0 .. sent]]
      /\ start'[i].pc = "up" => memory'[i] = Restored(start[i].read)
      /\ start'[i].pc = "down" => memory'[i] = memory[i]
    <2>1. Down.read \in [Accounts -> RowType(sent)]
        BY <1>1 DEF Down, RowType, NoRow, StoresOK
    <2>2. Down = [pc |-> "down", read |-> Down.read]
          /\ [Down EXCEPT !.pc = "up"] = [pc |-> "up", read |-> Down.read]
        BY DEF Down
    <2>3. Restored(start[i].read) \in [Accounts -> 0 .. sent]
        BY <1>1 DEF StoresOK, Restored, RowType
    <2>4. CASE MayStart(start[i].read)
        <3>1. /\ memory' = [memory EXCEPT ![i] = Restored(start[i].read)]
              /\ start' = [start EXCEPT ![i] = [pc |-> "up", read |-> Down.read]]
            BY <2>2, <2>4 DEF Restore
        <3> QED BY <1>1, <2>1, <2>3, <3>1 DEF StoresOK
    <2>5. CASE ~MayStart(start[i].read)
        <3>1. /\ memory' = memory
              /\ start' = [start EXCEPT ![i] = [pc |-> "down", read |-> Down.read]]
            BY <2>2, <2>5 DEF Restore
        <3> QED BY <1>1, <2>1, <3>1 DEF StoresOK
    <2> QED BY <2>4, <2>5
<1>4. \A j \in Instances : Up(j) => Up(j)' /\ j # i BY <1>2, <1>3 DEF Up
<1>5. \A j \in Instances : Plain(j)' \subseteq Plain(j)
    BY <1>1, <1>2, <1>3 DEF Plain, Down, NoRow
<1>6. StoresOK' 
    <2>1. memory[i] = Blank BY <1>1, <1>2 DEF StoresOK, Up
    <2>2. \A j \in Instances : memory'[j] # Blank => Up(j)'
        BY <1>1, <1>3, <1>4, <2>1 DEF StoresOK, Up
    <2> QED BY <1>1, <1>2, <1>3, <2>2 DEF StoresOK
<1>7. ChecksOK' BY <1>1, <1>2 DEF ChecksOK
<1>8. UploadsOK' BY <1>1, <1>2, <1>4 DEF UploadsOK
<1>9. \A b \in Accounts : start[i].read[b].sealed BY <1>2 DEF Plain
<1>10. SealedOK' BY <1>1, <1>2, <1>3, <1>9 DEF SealedOK, Up
<1>11. AloneOK' BY <1>1, <1>2, <1>5 DEF AloneOK, Uploading
<1>12. WrittenOK' BY <1>1, <1>2 DEF WrittenOK
<1>13. ASSUME NEW b \in Accounts PROVE AckOK(b)'
    <2>1. acked[b].on \subseteq Instances BY <1>1 DEF StoresOK
    <2>2. Restored(start[i].read)[b] = start[i].read[b].v BY DEF Restored
    <2> SUFFICES ASSUME acked[b].v > 0, NEW j \in acked[b].on
                 PROVE  /\ Up(j)' => memory'[j][b] = acked[b].v
                        /\ start'[j].pc = "migrate" => start'[j].read[b] = stored[b]
        BY <1>1, <1>2, <1>5 DEF AckOK
    <2>3. CASE j = i
        <3>1. AckOK(b) BY <1>1
        <3>2. stored[b] = [v |-> acked[b].v, ok |-> TRUE, sealed |-> TRUE] BY <3>1 DEF AckOK
        <3>3. start[i].read[b] = stored[b] BY <1>2, <2>3, <3>1 DEF AckOK
        <3> QED BY <1>3, <2>2, <2>3, <3>2, <3>3 DEF Up
    <2>4. CASE j # i
        <3>1. AckOK(b) BY <1>1
        <3>2. start'[j] = start[j] /\ memory'[j] = memory[j] BY <1>3, <2>1, <2>4
        <3> QED BY <3>1, <3>2 DEF AckOK, Up
    <2> QED BY <2>3, <2>4
<1> QED BY <1>6, <1>7, <1>8, <1>10, <1>11, <1>12, <1>13 DEF SInv

\* Uploads that end without a write take nothing from the others.
LEMMA UploadsEnd ==
    ASSUME SInv, upload' \in [Uploads -> UploadType], UNCHANGED <<stored, sent>>,
           \A u \in Uploads : upload'[u] = upload[u] \/ upload'[u] = NoUpload,
           \A a \in Accounts : acked'[a].v = acked[a].v,
           \A j \in Instances : Plain(j)' \subseteq Plain(j)
    PROVE  AloneOK' /\ WrittenOK'
<1>1. AloneOK /\ WrittenOK /\ UploadsOK BY DEF SInv
<1>2. NoUpload.pc = "idle" BY DEF NoUpload
<1>3. \A u \in Uploads : upload[u].a \in Accounts BY <1>1 DEF UploadsOK, UploadType
<1>4. AloneOK'
    <2> SUFFICES ASSUME NEW u \in Uploads, upload'[u].pc # "idle", upload'[u].alone
                 PROVE  /\ \A w \in Uploads : upload'[w].pc # "idle" /\ upload'[w].a = upload'[u].a
                              <=> w = u
                        /\ \A j \in Instances : upload'[u].a \notin Plain(j)'
        BY DEF AloneOK, Uploading
    <2>1. upload'[u] = upload[u] BY <1>2
    <2>2. /\ Uploading(upload[u].a) = {u}
          /\ \A j \in Instances : upload[u].a \notin Plain(j)
        BY <1>1, <2>1 DEF AloneOK
    <2> QED BY <1>2, <2>1, <2>2 DEF Uploading
<1>5. WrittenOK' BY <1>1, <1>2, <1>3 DEF WrittenOK
<1> QED BY <1>4, <1>5

LEMMA CrashKeeps ==
    ASSUME SInv, NEW i \in Instances, Crash(i)
    PROVE  SInv'
<1> USE SessionsAssumption
<1>1. /\ StoresOK /\ ChecksOK /\ UploadsOK /\ SealedOK
      /\ \A b \in Accounts : AckOK(b)
    BY DEF SInv
<1>2. /\ start' = [start EXCEPT ![i] = Down] /\ memory' = [memory EXCEPT ![i] = Blank]
      /\ upload' = [u \in Uploads |-> IF upload[u].i = i THEN NoUpload ELSE upload[u]]
      /\ check' = [c \in Checkers |-> IF c = i THEN NoCheck ELSE check[c]]
      /\ export' = IF export.i = i THEN NoExport ELSE export
      /\ acked' = [b \in Accounts |-> [acked[b] EXCEPT !.on = @ \ {i}]]
      /\ mishaps < MaxMishaps /\ mishaps' = mishaps + 1
      /\ UNCHANGED <<stored, sent, dead, status>>
    BY DEF Crash, Mishap
<1>3. /\ start'[i] = Down /\ memory'[i] = Blank /\ Down.pc = "down"
      /\ \A j \in Instances \ {i} : start'[j] = start[j] /\ memory'[j] = memory[j]
    BY <1>1, <1>2 DEF StoresOK, Down
<1>4. \A j \in Instances : Up(j)' <=> Up(j) /\ j # i BY <1>3 DEF Up
<1>5. \A j \in Instances : Plain(j)' \subseteq Plain(j) BY <1>3 DEF Plain, Down, NoRow
<1>6. \A b \in Accounts : acked'[b].v = acked[b].v /\ acked'[b].on = acked[b].on \ {i}
    BY <1>1, <1>2 DEF StoresOK
<1>7. StoresOK'
    <2>1. Down \in [pc : {"down", "migrate", "up"}, read : [Accounts -> RowType(sent)]]
        BY <1>1 DEF Down, RowType, NoRow, StoresOK
    <2>2. start' \in [Instances -> [pc : {"down", "migrate", "up"}, read : [Accounts -> RowType(sent)]]]
        BY <1>1, <1>2, <2>1 DEF StoresOK
    <2>3. memory' \in [Instances -> [Accounts -> 0 .. sent]]
        BY <1>1, <1>2 DEF StoresOK, Blank
    <2>4. acked' \in [Accounts -> [v : 0 .. sent, on : SUBSET Instances]]
        BY <1>1, <1>2 DEF StoresOK
    <2>5. \A j \in Instances : start'[j].pc # "migrate" => start'[j].read = Down.read
        BY <1>1, <1>3 DEF StoresOK
    <2>6. \A j \in Instances : memory'[j] # Blank => Up(j)'
        BY <1>1, <1>3, <1>4 DEF StoresOK
    <2> QED BY <1>1, <1>2, <2>2, <2>3, <2>4, <2>5, <2>6 DEF StoresOK
<1>8. ChecksOK'
    <2>1. NoCheck \in CheckType(sent) /\ NoExport \in ExportType(sent)
        BY <1>1 DEF NoCheck, CheckType, NoExport, ExportType, StoresOK, Accounts
    <2>2. check' \in [Checkers -> CheckType(sent)] BY <1>1, <1>2, <2>1 DEF ChecksOK
    <2>3. export' \in ExportType(sent) BY <1>1, <1>2, <2>1 DEF ChecksOK
    <2> QED BY <1>1, <1>2, <2>2, <2>3 DEF ChecksOK
<1>9. upload' \in [Uploads -> UploadType]
    <2>1. NoUpload \in UploadType BY DEF NoUpload, UploadType, Accounts
    <2> QED BY <1>1, <1>2, <2>1 DEF UploadsOK
<1>10. UploadsOK'
    <2>1. \A u \in Uploads : upload'[u].pc # "idle" => upload'[u] = upload[u] /\ upload[u].i # i
        BY <1>2 DEF NoUpload
    <2> QED BY <1>1, <1>2, <1>4, <1>9, <2>1 DEF UploadsOK
<1>11. AloneOK' /\ WrittenOK' BY <1>2, <1>5, <1>6, <1>9, UploadsEnd
<1>12. SealedOK' BY <1>1, <1>2, <1>3, <1>4 DEF SealedOK
<1>13. ASSUME NEW b \in Accounts PROVE AckOK(b)'
    <2>1. acked[b].on \subseteq Instances BY <1>1 DEF StoresOK
    <2>2. stored' = stored BY <1>2
    <2>3. ASSUME NEW j \in acked[b].on \ {i}
          PROVE  start'[j] = start[j] /\ memory'[j] = memory[j] /\ Up(j)' = Up(j)
        BY <1>3, <2>1, <2>3 DEF Up
    <2> QED BY <1>1, <1>5, <1>6, <2>2, <2>3 DEF AckOK
<1> QED BY <1>7, <1>8, <1>10, <1>11, <1>12, <1>13 DEF SInv
-----------------------------------------------------------------------------
(* Uploads *)

LEMMA BeginUploadKeeps ==
    ASSUME SInv, NEW u \in Uploads, NEW i \in Instances, NEW a \in Accounts, NEW ok \in BOOLEAN,
           BeginUpload(u, i, a, ok)
    PROVE  SInv'
<1> USE SessionsAssumption
<1>1. /\ StoresOK /\ ChecksOK /\ UploadsOK /\ SealedOK /\ AloneOK /\ WrittenOK
      /\ \A b \in Accounts : AckOK(b)
    BY DEF SInv
<1> DEFINE clear == Uploading(a) = {} /\ \A j \in Instances : a \notin Plain(j)
           new == [pc |-> "write", i |-> i, a |-> a, ok |-> ok, alone |-> clear]
<1>2. /\ Up(i) /\ u = sent + 1 /\ sent' = u
      /\ upload' = [w \in Uploads |-> IF w = u THEN new
                                      ELSE IF w \in Uploading(a) THEN [upload[w] EXCEPT !.alone = FALSE]
                                      ELSE upload[w]]
      /\ UNCHANGED <<stored, memory, start, acked, dead, check, status, export, mishaps>>
    BY DEF BeginUpload
<1>3. /\ new \in UploadType /\ new.pc = "write" /\ new.i = i /\ new.a = a
      /\ new.alone => clear
    BY DEF UploadType
<1> HIDE DEF new
<1>4. /\ \A j \in Instances : Plain(j)' = Plain(j) /\ Up(j)' = Up(j)
      /\ sent \in Nat /\ sent <= sent' /\ sent' \in LastAccount .. LastAccount + MaxUploads
    BY <1>1, <1>2 DEF Plain, Up, StoresOK, Uploads
<1>5. upload'[u] = new
    BY <1>2
<1>6. ASSUME NEW w \in Uploads, w # u
      PROVE  /\ upload'[w] \in UploadType /\ upload'[w].pc = upload[w].pc
             /\ upload'[w].i = upload[w].i /\ upload'[w].a = upload[w].a
             /\ upload'[w].ok = upload[w].ok
             /\ upload'[w].alone => upload[w].alone /\ w \notin Uploading(a)
    <2>1. upload[w] \in UploadType BY <1>1 DEF UploadsOK
    <2>2. CASE w \in Uploading(a)
        <3>1. upload'[w] = [upload[w] EXCEPT !.alone = FALSE] BY <1>2, <1>6, <2>2
        <3> QED BY <2>1, <3>1 DEF UploadType
    <2>3. CASE w \notin Uploading(a)
        <3>1. upload'[w] = upload[w] BY <1>2, <1>6, <2>3
        <3> QED BY <2>1, <2>3, <3>1
    <2> QED BY <2>2, <2>3
<1>7. StoresOK'
    <2>1. RowType(sent) \subseteq RowType(sent') /\ 0 .. sent \subseteq 0 .. sent'
        BY <1>2, <1>4 DEF RowType
    <2>2. stored \in [Accounts -> RowType(sent')] BY <1>1, <2>1 DEF StoresOK
    <2>3. memory \in [Instances -> [Accounts -> 0 .. sent']] BY <1>1, <2>1 DEF StoresOK
    <2>4. start \in [Instances -> [pc : {"down", "migrate", "up"}, read : [Accounts -> RowType(sent')]]]
        <3>1. [Accounts -> RowType(sent)] \subseteq [Accounts -> RowType(sent')] BY <2>1
        <3>2. [pc : {"down", "migrate", "up"}, read : [Accounts -> RowType(sent)]]
                \subseteq [pc : {"down", "migrate", "up"}, read : [Accounts -> RowType(sent')]]
            BY <3>1
        <3> QED BY <1>1, <3>2 DEF StoresOK
    <2>5. acked \in [Accounts -> [v : 0 .. sent', on : SUBSET Instances]]
        <3>1. [v : 0 .. sent, on : SUBSET Instances] \subseteq [v : 0 .. sent', on : SUBSET Instances]
            BY <2>1
        <3> QED BY <1>1, <3>1 DEF StoresOK
    <2> QED BY <1>1, <1>2, <1>4, <2>2, <2>3, <2>4, <2>5 DEF StoresOK
<1>8. ChecksOK'
    <2>1. 0 .. sent \subseteq 0 .. sent' /\ 1 .. sent \subseteq 1 .. sent' BY <1>2, <1>4
    <2>2. CheckType(sent) \subseteq CheckType(sent') BY <2>1 DEF CheckType
    <2>3. ExportType(sent) \subseteq ExportType(sent') BY <2>1 DEF ExportType
    <2> QED BY <1>1, <1>2, <2>1, <2>2, <2>3 DEF ChecksOK
<1>9. UploadsOK'
    <2>1. upload' \in [Uploads -> UploadType] BY <1>2, <1>3, <1>5, <1>6
    <2>2. ASSUME NEW w \in Uploads, upload'[w].pc # "idle"
          PROVE  w <= sent' /\ upload'[w].i \in Instances /\ Up(upload'[w].i)
        <3>1. CASE w = u BY <1>2, <1>3, <1>5, <3>1 DEF Uploads
        <3>2. CASE w # u BY <1>1, <1>2, <1>4, <1>6, <2>2, <3>2 DEF UploadsOK, Uploads
        <3> QED BY <3>1, <3>2
    <2> QED BY <1>2, <2>1, <2>2 DEF UploadsOK, Up
<1>10. SealedOK' BY <1>1, <1>2 DEF SealedOK, Up
<1>11. upload[u].pc = "idle" BY <1>1, <1>2, <1>4 DEF UploadsOK
<1>12. AloneOK'
    <2> SUFFICES ASSUME NEW w \in Uploads, upload'[w].pc # "idle", upload'[w].alone
                 PROVE  /\ \A x \in Uploads : upload'[x].pc # "idle" /\ upload'[x].a = upload'[w].a
                              <=> x = w
                        /\ \A j \in Instances : upload'[w].a \notin Plain(j)'
        BY DEF AloneOK, Uploading
    <2>1. CASE w = u
        <3>1. clear BY <1>3, <1>5, <2>1
        <3>2. \A x \in Uploads \ {u} : upload'[x].pc = "idle" \/ upload'[x].a # a
            BY <1>6, <3>1 DEF Uploading
        <3> QED BY <1>3, <1>4, <1>5, <2>1, <3>1, <3>2
    <2>2. CASE w # u
        <3>1. upload[w].pc # "idle" /\ upload[w].alone /\ upload'[w].a = upload[w].a
              /\ upload[w].a # a
            BY <1>6, <2>2 DEF Uploading
        <3>2. Uploading(upload[w].a) = {w} /\ \A j \in Instances : upload[w].a \notin Plain(j)
            BY <1>1, <3>1 DEF AloneOK
        <3>3. ASSUME NEW x \in Uploads
              PROVE  upload'[x].pc # "idle" /\ upload'[x].a = upload[w].a <=> x = w
            <4>1. CASE x = u BY <1>3, <1>5, <2>2, <3>1, <4>1
            <4>2. CASE x # u BY <1>6, <3>2, <4>2 DEF Uploading
            <4> QED BY <4>1, <4>2
        <3> QED BY <1>4, <3>1, <3>2, <3>3
    <2> QED BY <2>1, <2>2
<1>13. WrittenOK'
    <2> SUFFICES ASSUME NEW w \in Uploads, upload'[w].pc = "set"
                 PROVE  /\ acked'[upload'[w].a].v = 0
                        /\ upload'[w].alone =>
                             stored'[upload'[w].a] = [v |-> w, ok |-> upload'[w].ok, sealed |-> TRUE]
        BY DEF WrittenOK
    <2>1. w # u BY <1>3, <1>5
    <2> QED BY <1>1, <1>2, <1>6, <2>1 DEF WrittenOK
<1>14. ASSUME NEW b \in Accounts PROVE AckOK(b)'
    <2>1. acked[b].on \subseteq Instances BY <1>1 DEF StoresOK
    <2>2. AckOK(b) BY <1>1
    <2>3. stored' = stored /\ acked' = acked /\ start' = start /\ memory' = memory BY <1>2
    <2> QED BY <1>4, <2>1, <2>2, <2>3 DEF AckOK
<1> QED BY <1>7, <1>8, <1>9, <1>10, <1>12, <1>13, <1>14 DEF SInv

LEMMA WriteUploadKeeps ==
    ASSUME SInv, NEW u \in Uploads, WriteUpload(u)
    PROVE  SInv'
<1> USE SessionsAssumption
<1>1. /\ StoresOK /\ ChecksOK /\ UploadsOK /\ SealedOK /\ AloneOK /\ WrittenOK
      /\ \A b \in Accounts : AckOK(b)
    BY DEF SInv
<1> DEFINE a == upload[u].a
           row == [v |-> u, ok |-> upload[u].ok, sealed |-> TRUE]
           w2 == [upload[u] EXCEPT !.pc = "set"]
<1>2. /\ upload[u].pc = "write"
      /\ stored' = [stored EXCEPT ![a] = row]
      /\ upload' = [upload EXCEPT ![u] = w2]
      /\ acked' = [acked EXCEPT ![a] = NoAck]
      /\ UNCHANGED <<memory, start, sent, dead, check, status, export, mishaps>>
    BY DEF WriteUpload
<1>3. a \in Accounts /\ upload[u].ok \in BOOLEAN /\ u <= sent /\ upload[u] \in UploadType
    BY <1>1, <1>2 DEF UploadsOK, UploadType
<1>4. row \in RowType(sent) /\ row.sealed
    BY <1>1, <1>3 DEF RowType, Uploads, StoresOK
<1>5. /\ w2 \in UploadType /\ w2.pc = "set" /\ w2.a = a /\ w2.i = upload[u].i
      /\ w2.alone = upload[u].alone /\ w2.ok = upload[u].ok
    BY <1>3 DEF UploadType
<1> HIDE DEF w2
<1>6. /\ stored'[a] = row /\ upload'[u] = w2 /\ acked'[a].v = 0
      /\ \A b \in Accounts \ {a} : stored'[b] = stored[b] /\ acked'[b] = acked[b]
      /\ \A x \in Uploads \ {u} : upload'[x] = upload[x]
    BY <1>1, <1>2, <1>3 DEF StoresOK, UploadsOK, NoAck
<1>7. \A x \in Uploads : /\ upload'[x].a = upload[x].a /\ upload'[x].alone = upload[x].alone
                         /\ upload'[x].i = upload[x].i /\ upload'[x].ok = upload[x].ok
                         /\ upload'[x].pc = "idle" <=> upload[x].pc = "idle"
    BY <1>2, <1>5, <1>6
<1>8. \A j \in Instances : Plain(j)' = Plain(j) /\ Up(j)' = Up(j) BY <1>2 DEF Plain, Up
<1>9. StoresOK'
    <2>1. stored' \in [Accounts -> RowType(sent)] BY <1>1, <1>2, <1>4 DEF StoresOK
    <2>2. NoAck \in [v : 0 .. sent, on : SUBSET Instances] BY <1>1 DEF NoAck, StoresOK
    <2>3. acked' \in [Accounts -> [v : 0 .. sent, on : SUBSET Instances]]
        BY <1>1, <1>2, <2>2 DEF StoresOK
    <2> QED BY <1>1, <1>2, <1>8, <2>1, <2>3 DEF StoresOK
<1>10. ChecksOK' BY <1>1, <1>2 DEF ChecksOK
<1>11. UploadsOK'
    <2>1. upload' \in [Uploads -> UploadType] BY <1>1, <1>2, <1>5 DEF UploadsOK
    <2> QED BY <1>1, <1>2, <1>7, <1>8, <2>1 DEF UploadsOK
<1> HIDE DEF row
<1>12. SealedOK'
    <2>1. \A b \in Accounts : stored[b].sealed => stored'[b].sealed BY <1>4, <1>6
    <2> QED BY <1>1, <1>2, <1>8, <2>1 DEF SealedOK
<1>13. AloneOK'
    <2> SUFFICES ASSUME NEW w \in Uploads, upload'[w].pc # "idle", upload'[w].alone
                 PROVE  /\ \A x \in Uploads : upload'[x].pc # "idle" /\ upload'[x].a = upload'[w].a
                              <=> x = w
                        /\ \A j \in Instances : upload'[w].a \notin Plain(j)'
        BY DEF AloneOK, Uploading
    <2>1. Uploading(upload[w].a) = {w} /\ \A j \in Instances : upload[w].a \notin Plain(j)
        BY <1>1, <1>7 DEF AloneOK
    <2> QED BY <1>7, <1>8, <2>1 DEF Uploading
<1>14. WrittenOK'
    <2> SUFFICES ASSUME NEW w \in Uploads, upload'[w].pc = "set"
                 PROVE  /\ acked'[upload'[w].a].v = 0
                        /\ upload'[w].alone =>
                             stored'[upload'[w].a] = [v |-> w, ok |-> upload'[w].ok, sealed |-> TRUE]
        BY DEF WrittenOK
    <2>1. upload[w].a \in Accounts BY <1>1 DEF UploadsOK, UploadType
    <2>2. CASE w = u BY <1>6, <1>7, <2>2 DEF row
    <2>3. CASE w # u
        <3>1. /\ acked[upload[w].a].v = 0
              /\ upload[w].alone =>
                    /\ stored[upload[w].a] = [v |-> w, ok |-> upload[w].ok, sealed |-> TRUE]
                    /\ Uploading(upload[w].a) = {w}
            BY <1>1, <1>6, <2>3 DEF WrittenOK, AloneOK
        <3>2. upload[w].alone => upload[w].a # a BY <1>2, <2>3, <3>1 DEF Uploading
        <3>3. upload'[w] = upload[w] BY <1>6, <2>3
        <3>4. acked'[upload[w].a].v = 0 BY <1>6, <2>1, <3>1
        <3>5. upload[w].alone => stored'[upload[w].a] = stored[upload[w].a] BY <1>6, <2>1, <3>2
        <3> QED BY <3>1, <3>3, <3>4, <3>5
    <2> QED BY <2>2, <2>3
<1>15. ASSUME NEW b \in Accounts PROVE AckOK(b)'
    <2>1. CASE b = a BY <1>6, <2>1 DEF AckOK
    <2>2. CASE b # a
        <3>1. acked[b].on \subseteq Instances BY <1>1 DEF StoresOK
        <3>2. AckOK(b) /\ stored'[b] = stored[b] /\ acked'[b] = acked[b] BY <1>1, <1>6, <2>2
        <3>3. start' = start /\ memory' = memory BY <1>2
        <3> QED BY <1>8, <3>1, <3>2, <3>3 DEF AckOK
    <2> QED BY <2>1, <2>2
<1> QED BY <1>9, <1>10, <1>11, <1>12, <1>13, <1>14, <1>15 DEF SInv

\* A write that fails and a handler that is dropped leave everything as it is.
LEMMA UploadEndsKeeps ==
    ASSUME SInv, NEW u \in Uploads, FailWrite(u) \/ DropUpload(u)
    PROVE  SInv'
<1> USE SessionsAssumption
<1>1. /\ StoresOK /\ ChecksOK /\ UploadsOK /\ SealedOK
      /\ \A b \in Accounts : AckOK(b)
    BY DEF SInv
<1>2. /\ upload' = [upload EXCEPT ![u] = NoUpload]
      /\ mishaps < MaxMishaps /\ mishaps' = mishaps + 1
      /\ UNCHANGED <<stored, memory, start, acked, sent, dead, check, status, export>>
    BY DEF FailWrite, DropUpload, AfterFailedWrite, Mishap
<1>3. NoUpload \in UploadType /\ NoUpload.pc = "idle" BY DEF NoUpload, UploadType, Accounts
<1>4. \A j \in Instances : Plain(j)' = Plain(j) /\ Up(j)' = Up(j) BY <1>2 DEF Plain, Up
<1>5. StoresOK' BY <1>1, <1>2, <1>4 DEF StoresOK
<1>6. ChecksOK' BY <1>1, <1>2 DEF ChecksOK
<1>7. upload' \in [Uploads -> UploadType]
      /\ \A w \in Uploads : upload'[w] = upload[w] \/ upload'[w] = NoUpload
    BY <1>1, <1>2, <1>3 DEF UploadsOK
<1>8. UploadsOK' BY <1>1, <1>2, <1>3, <1>4, <1>7 DEF UploadsOK
<1>9. AloneOK' /\ WrittenOK' BY <1>2, <1>4, <1>7, UploadsEnd
<1>10. SealedOK' BY <1>1, <1>2, <1>4 DEF SealedOK
<1>11. ASSUME NEW b \in Accounts PROVE AckOK(b)'
    <2>1. acked[b].on \subseteq Instances BY <1>1 DEF StoresOK
    <2> QED BY <1>1, <1>2, <1>4, <2>1 DEF AckOK
<1> QED BY <1>5, <1>6, <1>8, <1>9, <1>10, <1>11 DEF SInv

LEMMA SetUploadKeeps ==
    ASSUME SInv, NEW u \in Uploads, SetUpload(u)
    PROVE  SInv'
<1> USE SessionsAssumption
<1>1. /\ StoresOK /\ ChecksOK /\ UploadsOK /\ SealedOK /\ AloneOK /\ WrittenOK
      /\ \A b \in Accounts : AckOK(b)
    BY DEF SInv
<1> DEFINE w == upload[u]
           ack == IF w.alone THEN [v |-> u, on |-> {w.i}] ELSE NoAck
<1>2. /\ w.pc = "set" /\ upload' = [upload EXCEPT ![u] = NoUpload]
      /\ UNCHANGED <<stored, start, sent, dead, check, status, export, mishaps>>
      /\ w.ok => /\ memory' = [memory EXCEPT ![w.i] = [memory[w.i] EXCEPT ![w.a] = u]]
                 /\ acked' = [acked EXCEPT ![w.a] = ack]
      /\ ~w.ok => UNCHANGED <<memory, acked>>
    BY DEF SetUpload
<1>3. /\ w.i \in Instances /\ w.a \in Accounts /\ w.ok \in BOOLEAN /\ w.alone \in BOOLEAN
      /\ u \in 1 .. sent /\ Up(w.i)
    BY <1>1, <1>2 DEF UploadsOK, UploadType, Uploads
<1>4. /\ NoUpload \in UploadType /\ NoUpload.pc = "idle" /\ NoAck.v = 0
      /\ ack \in [v : 0 .. sent, on : SUBSET Instances]
    BY <1>1, <1>3 DEF NoUpload, UploadType, Accounts, NoAck, StoresOK
<1>5. \A j \in Instances : Plain(j)' = Plain(j) /\ Up(j)' = Up(j) BY <1>2 DEF Plain, Up
<1>6. /\ acked[w.a].v = 0
      /\ w.alone => /\ stored[w.a] = [v |-> u, ok |-> w.ok, sealed |-> TRUE]
                    /\ Uploading(w.a) = {u}
                    /\ \A j \in Instances : w.a \notin Plain(j)
    BY <1>1, <1>2 DEF WrittenOK, AloneOK
<1>7. /\ \A b \in Accounts \ {w.a} : acked'[b] = acked[b]
      /\ \A j \in Instances, b \in Accounts \ {w.a} : memory'[j][b] = memory[j][b]
      /\ \A j \in Instances \ {w.i} : memory'[j] = memory[j]
      /\ acked'[w.a].v > 0 => w.ok /\ w.alone
      /\ w.ok /\ w.alone => acked'[w.a] = [v |-> u, on |-> {w.i}] /\ memory'[w.i][w.a] = u
    <2>1. CASE w.ok
        <3>1. acked'[w.a] = ack BY <1>1, <1>2, <1>3, <2>1 DEF StoresOK
        <3>2. acked'[w.a].v > 0 => w.alone BY <1>3, <1>4, <3>1
        <3> HIDE DEF ack
        <3>3. w.alone => ack = [v |-> u, on |-> {w.i}] BY DEF ack
        <3> QED BY <1>1, <1>2, <1>3, <2>1, <3>1, <3>2, <3>3 DEF StoresOK
    <2>2. CASE ~w.ok
        <3>1. memory' = memory /\ acked' = acked BY <1>2, <2>2
        <3> QED BY <1>6, <2>2, <3>1
    <2> QED BY <2>1, <2>2
<1> HIDE DEF ack
<1>8. StoresOK'
    <2>1. memory' \in [Instances -> [Accounts -> 0 .. sent]]
          /\ acked' \in [Accounts -> [v : 0 .. sent, on : SUBSET Instances]]
        <3>1. CASE w.ok
            <4>1. [memory[w.i] EXCEPT ![w.a] = u] \in [Accounts -> 0 .. sent]
                BY <1>1, <1>3 DEF StoresOK
            <4>2. /\ memory' = [memory EXCEPT ![w.i] = [memory[w.i] EXCEPT ![w.a] = u]]
                  /\ acked' = [acked EXCEPT ![w.a] = ack]
                BY <1>2, <3>1
            <4>3. memory' \in [Instances -> [Accounts -> 0 .. sent]]
                BY <1>1, <4>1, <4>2 DEF StoresOK
            <4>4. acked' \in [Accounts -> [v : 0 .. sent, on : SUBSET Instances]]
                BY <1>1, <1>4, <4>2 DEF StoresOK
            <4> QED BY <4>3, <4>4
        <3>2. CASE ~w.ok
            <4>1. memory' = memory /\ acked' = acked BY <1>2, <3>2
            <4> QED BY <1>1, <4>1 DEF StoresOK
        <3> QED BY <3>1, <3>2
    <2>2. \A j \in Instances : memory'[j] # Blank => Up(j)'
        BY <1>1, <1>3, <1>5, <1>7 DEF StoresOK
    <2> QED BY <1>1, <1>2, <2>1, <2>2 DEF StoresOK
<1>9. ChecksOK' BY <1>1, <1>2 DEF ChecksOK
<1>10. /\ upload' \in [Uploads -> UploadType]
       /\ \A x \in Uploads : x # u => upload'[x] = upload[x]
       /\ upload'[u] = NoUpload
    BY <1>1, <1>2, <1>4 DEF UploadsOK
<1>11. UploadsOK' BY <1>1, <1>2, <1>4, <1>5, <1>10 DEF UploadsOK
<1>12. SealedOK' BY <1>1, <1>2, <1>5 DEF SealedOK
<1>13. AloneOK'
    <2> SUFFICES ASSUME NEW x \in Uploads, upload'[x].pc # "idle", upload'[x].alone
                 PROVE  /\ \A y \in Uploads : upload'[y].pc # "idle" /\ upload'[y].a = upload'[x].a
                              <=> y = x
                        /\ \A j \in Instances : upload'[x].a \notin Plain(j)'
        BY DEF AloneOK, Uploading
    <2>1. x # u /\ upload'[x] = upload[x] BY <1>4, <1>10
    <2>2. Uploading(upload[x].a) = {x} /\ \A j \in Instances : upload[x].a \notin Plain(j)
        BY <1>1, <2>1 DEF AloneOK
    <2> QED BY <1>4, <1>5, <1>10, <2>1, <2>2 DEF Uploading
<1>14. WrittenOK'
    <2> SUFFICES ASSUME NEW x \in Uploads, upload'[x].pc = "set"
                 PROVE  /\ acked'[upload'[x].a].v = 0
                        /\ upload'[x].alone =>
                             stored'[upload'[x].a] = [v |-> x, ok |-> upload'[x].ok, sealed |-> TRUE]
        BY DEF WrittenOK
    <2>1. x # u /\ upload'[x] = upload[x] BY <1>4, <1>10
    <2>2. /\ acked[upload[x].a].v = 0 /\ upload[x].a \in Accounts
          /\ upload[x].alone =>
                stored[upload[x].a] = [v |-> x, ok |-> upload[x].ok, sealed |-> TRUE]
        BY <1>1, <2>1 DEF WrittenOK, UploadsOK, UploadType
    <2>3. acked'[upload[x].a].v = 0
        <3>1. CASE upload[x].a = w.a /\ w.ok
            <4>1. ~w.alone BY <1>6, <2>1, <3>1 DEF Uploading
            <4>2. acked'[w.a] = NoAck BY <1>1, <1>2, <1>3, <3>1, <4>1 DEF StoresOK, ack
            <4> QED BY <1>4, <3>1, <4>2
        <3>2. CASE ~w.ok BY <1>2, <2>2, <3>2
        <3>3. CASE upload[x].a # w.a BY <1>7, <2>2, <3>3
        <3> QED BY <1>3, <3>1, <3>2, <3>3
    <2> QED BY <1>2, <2>1, <2>2, <2>3
<1>15. ASSUME NEW b \in Accounts PROVE AckOK(b)'
    <2>1. CASE b = w.a
        <3>1. CASE w.ok /\ w.alone
            <4>1. /\ acked'[b].v = u /\ acked'[b].on = {w.i} /\ memory'[w.i][b] = u
                  /\ stored'[b] = [v |-> u, ok |-> TRUE, sealed |-> TRUE]
                  /\ \A j \in Instances : b \notin Plain(j)'
                BY <1>2, <1>5, <1>6, <1>7, <2>1, <3>1
            <4>2. start'[w.i].pc # "migrate" BY <1>2, <1>3 DEF Up
            <4> QED BY <4>1, <4>2 DEF AckOK
        <3>2. CASE ~(w.ok /\ w.alone) BY <1>7, <2>1, <3>2 DEF AckOK
        <3> QED BY <3>1, <3>2
    <2>2. CASE b # w.a
        <3>1. acked[b].on \subseteq Instances BY <1>1 DEF StoresOK
        <3>2. AckOK(b) /\ acked'[b] = acked[b] BY <1>1, <1>7, <2>2
        <3>3. \A j \in Instances : memory'[j][b] = memory[j][b] BY <1>7, <2>2
        <3> QED BY <1>2, <1>5, <3>1, <3>2, <3>3 DEF AckOK
    <2> QED BY <2>1, <2>2
<1> QED BY <1>8, <1>9, <1>11, <1>12, <1>13, <1>14, <1>15 DEF SInv
-----------------------------------------------------------------------------
(* Checks and exports: the registries and the rows stay as they are. *)

LEMMA QuietSessionsKeep ==
    ASSUME SInv, ChecksOK', UNCHANGED <<sessions, sent>>
    PROVE  SInv'
<1>1. UNCHANGED <<stored, memory, start, upload, acked, sent>> BY DEF sessions
<1>2. StoresOK' /\ UploadsOK' BY <1>1 DEF SInv, StoresOK, UploadsOK, Up
<1>3. SealedOK' /\ AloneOK' /\ WrittenOK'
    BY <1>1 DEF SInv, SealedOK, AloneOK, WrittenOK, Up, Uploading, Plain
<1>4. \A a \in Accounts : AckOK(a)' BY <1>1 DEF SInv, AckOK, Up, Plain
<1> QED BY <1>2, <1>3, <1>4 DEF SInv

LEMMA ExpireKeeps ==
    ASSUME SInv, NEW v, Expire(v)
    PROVE  SInv'
<1> USE SessionsAssumption
<1>1. StoresOK /\ ChecksOK BY DEF SInv
<1>2. /\ v \in Asked \ (dead \cup {0}) /\ dead' = dead \cup {v}
      /\ UNCHANGED <<sessions, sent, check, status, export, mishaps>>
    BY DEF Expire
<1>3. \A i \in Checkers, a \in Accounts : memory[i][a] \in 0 .. sent BY <1>1 DEF StoresOK
<1>4. \A i \in Checkers : check[i].v \in 0 .. sent BY <1>1 DEF ChecksOK, CheckType
<1>5. export.v \in 0 .. sent BY <1>1 DEF ChecksOK, ExportType
<1>6. v \in 0 .. sent /\ v # 0 BY <1>2, <1>3, <1>4, <1>5 DEF Asked
<1>7. v \in 1 .. sent BY <1>1, <1>6 DEF StoresOK
<1>8. ChecksOK' BY <1>1, <1>2, <1>7 DEF ChecksOK
<1> QED BY <1>2, <1>8, QuietSessionsKeep

LEMMA CheckKeeps ==
    ASSUME SInv, NEW i \in Checkers, Checking(i) \/ FailRecord(i)
    PROVE  SInv'
<1> USE SessionsAssumption
<1> DEFINE c == check[i]
<1>1. /\ StoresOK /\ ChecksOK /\ c \in CheckType(sent) /\ sent \in Nat
    BY DEF SInv, StoresOK, ChecksOK
<1>2. ASSUME NEW d \in CheckType(sent), check' = [check EXCEPT ![i] = d],
             status' \in [Accounts -> {"valid", "invalid"}], mishaps' \in 0 .. MaxMishaps,
             UNCHANGED <<sessions, sent, dead, export>>
      PROVE  SInv'
    <2>1. ChecksOK' BY <1>1, <1>2 DEF ChecksOK
    <2> QED BY <1>2, <2>1, QuietSessionsKeep
<1>3. /\ status \in [Accounts -> {"valid", "invalid"}] /\ mishaps \in 0 .. MaxMishaps
      /\ c.a \in Accounts /\ c.v \in 0 .. sent /\ c.valid \in BOOLEAN
    BY <1>1 DEF ChecksOK, CheckType
<1>4. NoCheck \in CheckType(sent) BY <1>1 DEF NoCheck, CheckType, Accounts
<1>5. CASE NextAccount(i)
    <2>1. memory[i][c.a] \in 0 .. sent BY <1>1, <1>3 DEF StoresOK
    <2>2. [c EXCEPT !.pc = "ask", !.v = memory[i][c.a]] \in CheckType(sent)
        BY <1>1, <2>1 DEF CheckType
    <2> QED BY <1>2, <1>3, <1>4, <1>5, <2>2 DEF NextAccount
<1>6. CASE Ask(i) \/ AskInVain(i)
    <2>1. ASSUME NEW valid \in BOOLEAN PROVE Judged(c, valid) \in CheckType(sent)
        <3>1. 0 \in 0 .. sent BY <1>1
        <3> QED BY <1>3, <3>1 DEF CheckType, Judged
    <2>2. PICK valid \in BOOLEAN : /\ check' = [check EXCEPT ![i] = Judged(c, valid)]
                                   /\ UNCHANGED <<sessions, sent, dead, status, export, mishaps>>
        BY <1>6 DEF Ask, AskInVain
    <2> QED BY <1>2, <1>3, <2>1, <2>2
<1>7. CASE Record(i)
    <2>1. AfterVerdict(c) \in CheckType(sent)
        <3>1. CASE c.a = LastAccount BY <1>4, <3>1 DEF AfterVerdict
        <3>2. CASE c.a # LastAccount
            <4>1. c.a + 1 \in Accounts BY <1>3, <3>2 DEF Accounts
            <4>2. AfterVerdict(c) = [pc |-> "next", a |-> c.a + 1, v |-> 0, valid |-> FALSE]
                BY <3>2 DEF AfterVerdict, NoCheck
            <4> QED BY <1>1, <4>1, <4>2 DEF CheckType
        <3> QED BY <3>1, <3>2
    <2>2. Recorded(c) \in [Accounts -> {"valid", "invalid"}] BY <1>3 DEF Recorded
    <2>3. /\ status' = Recorded(c) /\ check' = [check EXCEPT ![i] = AfterVerdict(c)]
          /\ UNCHANGED <<sessions, sent, dead, export, mishaps>>
        BY <1>7 DEF Record
    <2> QED BY <1>2, <1>3, <2>1, <2>2, <2>3
<1>8. CASE FailRecord(i)
    <2>1. mishaps' \in 0 .. MaxMishaps BY <1>3, <1>8 DEF FailRecord, Mishap
    <2> QED BY <1>2, <1>3, <1>4, <1>8, <2>1 DEF FailRecord
<1> QED BY <1>5, <1>6, <1>7, <1>8 DEF Checking

LEMMA ExportKeeps ==
    ASSUME SInv, (\E i \in Exporters, a \in Accounts : BeginExport(i, a)) \/ ExportRequest \/ Deadline
    PROVE  SInv'
<1> USE SessionsAssumption
<1>1. /\ StoresOK /\ ChecksOK /\ export \in ExportType(sent) /\ sent \in Nat
    BY DEF SInv, StoresOK, ChecksOK
<1>2. ASSUME export' \in ExportType(sent), UNCHANGED <<sessions, sent, dead, check, status, mishaps>>
      PROVE  SInv'
    <2>1. ChecksOK' BY <1>1, <1>2 DEF ChecksOK
    <2> QED BY <1>2, <2>1, QuietSessionsKeep
<1>3. NoExport \in ExportType(sent) BY <1>1 DEF NoExport, ExportType
<1>4. ASSUME NEW i \in Exporters, NEW a \in Accounts, BeginExport(i, a) PROVE SInv'
    <2>1. memory[i][a] \in 0 .. sent
        <3>1. i \in Instances OBVIOUS
        <3> QED BY <1>1, <3>1 DEF StoresOK
    <2>2. export' = [pc |-> "create", i |-> i, v |-> memory[i][a], tries |-> 1, late |-> FALSE]
        BY <1>4 DEF BeginExport
    <2>3. i \in Instances /\ 1 \in 0 .. Attempts OBVIOUS
    <2>4. export' \in ExportType(sent) BY <2>1, <2>2, <2>3 DEF ExportType
    <2> QED BY <1>2, <1>4, <2>4 DEF BeginExport
<1>5. CASE CreateTask
    <2>1. [export EXCEPT !.pc = "poll", !.tries = 1] \in ExportType(sent)
        <3>1. 1 \in 0 .. Attempts OBVIOUS
        <3> QED BY <1>1, <3>1 DEF ExportType
    <2> QED BY <1>2, <1>5, <2>1 DEF CreateTask
<1>6. CASE PollRunning
    <2>1. [export EXCEPT !.tries = 1] \in ExportType(sent) BY <1>1 DEF ExportType
    <2> QED BY <1>2, <1>3, <1>6, <2>1 DEF PollRunning
<1>7. CASE EndExport BY <1>2, <1>3, <1>7 DEF EndExport
<1>8. CASE ExportInVain
    <2>1. MayRetry(export) => Retried(export) \in ExportType(sent)
        BY <1>1 DEF MayRetry, Retried, ExportType
    <2> QED BY <1>2, <1>3, <1>8, <2>1 DEF ExportInVain
<1>9. CASE Deadline
    <2>1. export' \in ExportType(sent) BY <1>1, <1>9 DEF Deadline, ExportType
    <2> QED BY <1>2, <1>9, <2>1 DEF Deadline
<1> QED BY <1>4, <1>5, <1>6, <1>7, <1>8, <1>9 DEF ExportRequest

-----------------------------------------------------------------------------
(* The theorems. *)

LEMMA StepKeepsSInv == SInv /\ [SessionsNext]_sessionsVars => SInv'
<1> SUFFICES ASSUME SInv, [SessionsNext]_sessionsVars PROVE SInv'
    OBVIOUS
<1>1. CASE UNCHANGED sessionsVars
    <2>1. ChecksOK' BY <1>1 DEF SInv, ChecksOK, sessionsVars
    <2> QED BY <1>1, <2>1, QuietSessionsKeep DEF sessionsVars
<1>2. CASE SessionsNext
    <2>1. CASE \E i \in Instances : Starting(i) \/ Crash(i)
        BY <2>1, ReadRowsKeeps, RestoreKeeps, MigrateKeeps, CrashKeeps DEF Starting
    <2>2. CASE \E i \in Checkers : Checking(i) \/ FailRecord(i)
        BY <2>2, CheckKeeps
    <2>3. CASE \E u \in Uploads, i \in Instances, a \in Accounts, ok \in BOOLEAN :
                  BeginUpload(u, i, a, ok)
        BY <2>3, BeginUploadKeeps
    <2>4. CASE \E u \in Uploads : WriteUpload(u) \/ FailWrite(u) \/ SetUpload(u) \/ DropUpload(u)
        BY <2>4, WriteUploadKeeps, UploadEndsKeeps, SetUploadKeeps
    <2>5. CASE \E v \in 1 .. LastAccount + MaxUploads : Expire(v)
        BY <2>5, ExpireKeeps
    <2>6. CASE (\E i \in Exporters, a \in Accounts : BeginExport(i, a)) \/ ExportRequest \/ Deadline
        BY <2>6, ExportKeeps
    <2> QED BY <1>2, <2>1, <2>2, <2>3, <2>4, <2>5, <2>6 DEF SessionsNext
<1> QED BY <1>1, <1>2

\* The inductive invariant holds in every state of the specification.
THEOREM AlwaysSInv == SessionsSpec => []SInv
BY InitSInv, StepKeepsSInv, PTL DEF SessionsSpec

\* Type correctness of rows, registries, uploads, checks and exports: no client
\* is in a registry before its instance is up (restore_sessions_from_db), and no
\* request is tried more often than XINGTU_REQUEST_ATTEMPTS (get_json).
THEOREM SessionsTypeCorrect == SessionsSpec => []SessionsTypeOK
<1>1. SInv => SessionsTypeOK BY SessionsConclude
<1> QED BY <1>1, AlwaysSInv, PTL

\* An acknowledged upload that nothing crossed stays in the database and in the
\* registries that must have it (upsert_xingtu_session, list_stored_sessions,
\* restore_sessions_from_db), for any number of instances, accounts and uploads.
THEOREM AckedStays == SessionsSpec => []AckedIsKept
<1>1. SInv => AckedIsKept BY SessionsConclude
<1> QED BY <1>1, AlwaysSInv, PTL

-----------------------------------------------------------------------------
(* The logins of users. *)

USE LoginsAssumption

-----------------------------------------------------------------------------
(* The inductive invariant: what each attempt to log in and each request     *)
(* knows, by where it is.                                                    *)

Own == (Apps \ {Default}) \cup {NoApp}

Tables ==
    /\ active \in [Apps -> BOOLEAN]
    /\ token \in [Apps -> [version : Nat, active : BOOLEAN]]
    /\ Default \in Apps => token[Default].version = 0
    /\ access \in [Apps -> [Projects -> Rights]]
    /\ session \in [Sessions -> [status : {"none", "live", "over"}, app : Own]]
    /\ edits \in Int /\ edits <= MaxEdits

ReplaceOK(r) == r = NoReplace \/ (r.app \in Apps /\ r.wanted \in [Projects -> Rights])

FlowOK(f, tok, act) ==
    /\ f.pc \in {"idle", "state", "exchange", "token", "app", "issue"}
    /\ f.app \in Own
    /\ f.version \in Nat
    /\ f.pc \in {"token", "app"} => f.app \in Apps
    /\ f.pc = "token" => f.version # 0
    /\ f.pc = "token" /\ TokenIs(f.app, f.version, tok, act) => f.valid
    /\ f.pc \in {"exchange", "app", "issue"} => f.valid

\* What a request of a session has watched, and the rights it took from that.
Informed(q, app, acc) ==
    app # NoApp =>
       \A p \in Projects :
          /\ q.pc \in {"auth", "rights"} => acc[app][p] \in q.could[p]
          /\ q.pc = "act" => q.rights[p] \in q.could[p]

RequestOK(q, acc, ses) ==
    /\ q.pc \in {"idle", "auth", "rights", "act"}
    /\ q.rights \in [Projects -> Rights]
    /\ q.pc \in {"rights", "act"} => ~q.late
    /\ q.pc \in {"auth", "rights"} => q.actor = "login"
    /\ q.route = "session" => q.actor = "login"
    /\ q.pc # "idle" /\ q.actor = "login" =>
          /\ q.session \in Sessions /\ ses[q.session].status # "none"
          /\ q.pc = "auth" /\ q.late => ses[q.session].status = "over"
          /\ Informed(q, ses[q.session].app, acc)

Replacements == replacing = [k \in Admins |-> replacing[k]] /\ \A k \in Admins : ReplaceOK(replacing[k])
FlowsOK == flow = [f \in Flows |-> flow[f]] /\ \A f \in Flows : FlowOK(flow[f], token, active)
RequestsOK == /\ request = [q \in Requests |-> request[q]]
              /\ \A q \in Requests : RequestOK(request[q], access, session)

LInv == Tables /\ Replacements /\ FlowsOK /\ RequestsOK

-----------------------------------------------------------------------------

LEMMA NoRequestOK == \A acc, ses : RequestOK(NoRequest, acc, ses)
BY DEF NoRequest, RequestOK, NoRights, Rights

LEMMA NoFlowOK == \A tok, act : FlowOK(NoFlow, tok, act)
BY DEF NoFlow, Flow, FlowOK, Own

LEMMA InitLInv == Init => LInv
<1> SUFFICES ASSUME Init PROVE LInv
    OBVIOUS
<1>1. Tables
    <2>1. access \in [Apps -> [Projects -> Rights]] BY DEF Init, Rights
    <2>2. session \in [Sessions -> [status : {"none", "live", "over"}, app : Own]]
        BY DEF Init, Own
    <2>3. token \in [Apps -> [version : Nat, active : BOOLEAN]] BY DEF Init
    <2>4. Default \in Apps => token[Default].version = 0 BY DEF Init
    <2> QED BY <2>1, <2>2, <2>3, <2>4 DEF Init, Tables
<1>2. FlowsOK BY NoFlowOK DEF Init, FlowsOK
<1>3. RequestsOK BY NoRequestOK DEF Init, RequestsOK
<1>4. Replacements BY DEF Init, ReplaceOK, Replacements
<1> QED BY <1>1, <1>2, <1>3, <1>4 DEF LInv

-----------------------------------------------------------------------------
(* Parts that a step leaves alone *)

\* A request that a step does not touch, while sessions only come into being
\* or end and the access lists stay.
LEMMA RequestStays ==
    ASSUME NEW r, NEW acc, NEW ses, NEW ses2, RequestOK(r, acc, ses),
           \A s \in Sessions :
              ses[s].status # "none" =>
                 /\ ses2[s].status # "none" /\ ses2[s].app = ses[s].app
                 /\ ses[s].status = "over" => ses2[s].status = "over"
    PROVE  RequestOK(r, acc, ses2)
BY DEF RequestOK

\* What a change of the access lists adds to what is watched: the right is
\* among what the list said, whichever list it is.
LEMMA WatchedOK ==
    ASSUME NEW r, NEW acc, RequestOK(r, access, session)
    PROVE  RequestOK(Watched(r, acc), acc, session)
<1>1. CASE r.pc \in {"auth", "rights"} /\ session[r.session].app # NoApp
    <2> DEFINE a == session[r.session].app
               c == [p \in Projects |-> r.could[p] \cup {acc[a][p]}]
               w == [pc |-> r.pc, actor |-> r.actor, route |-> r.route, session |-> r.session,
                     rights |-> r.rights, late |-> r.late, could |-> c]
    <2>1. Watched(r, acc) = w BY <1>1 DEF Watched
    <2>2. Informed(w, a, acc) BY <1>1 DEF Informed
    <2>3. RequestOK(w, acc, session) BY <1>1, <2>2 DEF RequestOK
    <2> QED BY <2>1, <2>3
<1>2. CASE ~(r.pc \in {"auth", "rights"} /\ session[r.session].app # NoApp)
    <2>1. Watched(r, acc) = r BY <1>2 DEF Watched
    <2> QED BY <1>2, <2>1 DEF RequestOK, Informed
<1> QED BY <1>1, <1>2

-----------------------------------------------------------------------------
(* Administration *)

\* What the tables of tokens and applications may turn into: the attempts are
\* told of every moment at which what they rest on holds.
LEMMA ToldOK ==
    ASSUME NEW f, NEW tok, NEW tok2, NEW act, NEW act2, FlowOK(f, tok, act)
    PROVE  FlowOK(StillValid(f, tok2, act2), tok2, act2)
<1> DEFINE g == StillValid(f, tok2, act2)
<1>1. g.pc = f.pc /\ g.app = f.app /\ g.version = f.version BY DEF StillValid
<1>2. f.valid => g.valid BY DEF StillValid
<1>3. f.pc = "token" /\ TokenIs(f.app, f.version, tok2, act2) => g.valid
    <2> SUFFICES ASSUME f.pc = "token", TokenIs(f.app, f.version, tok2, act2) PROVE g.valid
        OBVIOUS
    <2>1. f.app \in Apps BY DEF FlowOK
    <2> QED BY <2>1 DEF StillValid, TokenIs
<1>4. FlowOK(g, tok2, act2)
    <2> HIDE DEF g
    <2> QED BY <1>1, <1>2, <1>3 DEF FlowOK, TokenIs
<1> QED BY <1>4

LEMMA AdminKeeps ==
    ASSUME LInv, AdminStep
    PROVE  LInv'
<1> USE DEF LInv
<1>1. ASSUME NEW a \in Apps, SwitchApp(a) PROVE LInv'
    <2> USE <1>1 DEF SwitchApp, Edit
    <2>1. Tables' BY DEF Tables
    <2>2. \A f \in Flows : flow'[f] = StillValid(flow[f], token', active') OBVIOUS
    <2>3. \A f \in Flows : FlowOK(flow'[f], token', active') BY <2>2, ToldOK DEF FlowsOK
    <2>4. FlowsOK' BY <2>3 DEF FlowsOK
    <2>5. Replacements' /\ RequestsOK' BY DEF Replacements, RequestsOK
    <2> QED BY <2>1, <2>4, <2>5
<1>2. ASSUME NEW a \in Apps, RotateToken(a) PROVE LInv'
    <2> USE <1>2 DEF RotateToken, Edit
    <2>1. token' \in [Apps -> [version : Nat, active : BOOLEAN]] /\ (Default \in Apps => token'[Default].version = 0)
        BY DEF Tables, Rotated, MayHaveToken
    <2>2. Tables' BY <2>1 DEF Tables
    <2>3. \A f \in Flows : flow'[f] = StillValid(flow[f], token', active') OBVIOUS
    <2>4. \A f \in Flows : FlowOK(flow'[f], token', active') BY <2>3, ToldOK DEF FlowsOK
    <2>5. FlowsOK' BY <2>4 DEF FlowsOK
    <2>6. Replacements' /\ RequestsOK' BY DEF Replacements, RequestsOK
    <2> QED BY <2>2, <2>5, <2>6
<1>3. ASSUME NEW a \in Apps, RevokeToken(a) PROVE LInv'
    <2> USE <1>3 DEF RevokeToken, Edit
    <2>1. token' \in [Apps -> [version : Nat, active : BOOLEAN]] /\ (Default \in Apps => token'[Default].version = 0)
        BY DEF Tables
    <2>2. Tables' BY <2>1 DEF Tables
    <2>3. ASSUME NEW f \in Flows PROVE FlowOK(flow[f], token', active)
        <3>1. TokenIs(flow[f].app, flow[f].version, token', active) /\ flow[f].app \in Apps
                 => TokenIs(flow[f].app, flow[f].version, token, active)
            BY DEF Tables, TokenIs
        <3>2. FlowOK(flow[f], token, active) BY DEF FlowsOK
        <3> QED BY <3>1, <3>2 DEF FlowOK
    <2>4. FlowsOK' BY <2>3 DEF FlowsOK
    <2>5. Replacements' /\ RequestsOK' BY DEF Replacements, RequestsOK
    <2> QED BY <2>2, <2>4, <2>5
<1>4. ASSUME NEW k \in Admins, NEW a \in Apps, NEW wanted \in [Projects -> Rights], BeginReplace(k, a, wanted)
      PROVE  LInv'
    <2> USE <1>4 DEF BeginReplace, Edit
    <2>1. Tables' /\ FlowsOK' /\ RequestsOK' BY DEF Tables, FlowsOK, RequestsOK
    <2>2. Replacements' BY DEF Replacements, ReplaceOK
    <2> QED BY <2>1, <2>2
<1>5. ASSUME NEW k \in Admins, CommitReplace(k) PROVE LInv'
    <2> USE <1>5 DEF CommitReplace
    <2>1. replacing[k].app \in Apps /\ replacing[k].wanted \in [Projects -> Rights]
        BY DEF Replacements, ReplaceOK
    <2>2. access' \in [Apps -> [Projects -> Rights]] BY <2>1 DEF Tables
    <2>3. Tables' BY <2>2 DEF Tables
    <2>4. ASSUME NEW j \in Admins PROVE ReplaceOK(replacing'[j])
        <3>1. replacing[j].app \in Apps => replacing[j].wanted \in [Projects -> Rights]
            BY DEF Replacements, ReplaceOK, NoReplace
        <3>2. CASE j = k BY <3>2 DEF ReplaceOK
        <3>3. CASE j # k /\ replacing[j].app = replacing[k].app BY <2>1, <3>1, <3>3 DEF ReplaceOK
        <3>4. CASE j # k /\ replacing[j].app # replacing[k].app BY <3>4 DEF Replacements
        <3> QED BY <3>2, <3>3, <3>4
    <2>5. Replacements' BY <2>4 DEF Replacements
    <2>6. \A q \in Requests : RequestOK(Watched(request[q], access'), access', session)
        BY WatchedOK DEF RequestsOK
    <2>7. RequestsOK' BY <2>6 DEF RequestsOK
    <2>8. FlowsOK' BY DEF FlowsOK
    <2> QED BY <2>3, <2>5, <2>7, <2>8
<1>6. ASSUME NEW k \in Admins, AbortReplace(k) PROVE LInv'
    <2> USE <1>6 DEF AbortReplace
    <2>1. Tables' /\ FlowsOK' /\ RequestsOK' BY DEF Tables, FlowsOK, RequestsOK
    <2>2. Replacements' BY DEF Replacements, ReplaceOK
    <2> QED BY <2>1, <2>2
<1> QED BY <1>1, <1>2, <1>3, <1>4, <1>5, <1>6 DEF AdminStep

-----------------------------------------------------------------------------
(* Logging in *)

LEMMA LoginKeeps ==
    ASSUME LInv, LoginStep
    PROVE  LInv'
<1> USE DEF LInv
\* An attempt that goes on, or ends, and touches nothing else.
<1>0. ASSUME NEW f \in Flows, NEW new, FlowOK(new, token, active), flow' = [flow EXCEPT ![f] = new],
             UNCHANGED <<active, token, access, replacing, session, request>>,
             edits' \in Int, edits' <= MaxEdits
      PROVE  LInv'
    <2>1. Tables' BY <1>0 DEF Tables
    <2>2. FlowsOK' BY <1>0 DEF FlowsOK
    <2>3. Replacements' /\ RequestsOK' BY <1>0 DEF Replacements, RequestsOK
    <2> QED BY <2>1, <2>2, <2>3
<1>e. edits \in Int /\ edits <= MaxEdits BY DEF Tables
<1>1. ASSUME NEW f \in Flows, NEW a \in AppOrDefault, Authorize(f, a) PROVE LInv'
    <2> DEFINE new == Flow("state", LoginApp(a), 0, FALSE)
    <2>1. FlowOK(new, token, active) BY DEF FlowOK, Flow, LoginApp, AppOrDefault, Own
    <2> HIDE DEF new
    <2>2. flow' = [flow EXCEPT ![f] = new] BY <1>1 DEF Authorize, new
    <2>e. edits' \in Int /\ edits' <= MaxEdits BY <1>1, <1>e DEF Authorize, Edit
    <2> QED BY <1>0, <1>1, <2>e, <2>1, <2>2 DEF Authorize
<1>2. ASSUME NEW f \in Flows, NEW a \in Apps, NEW v \in 1 .. MaxEdits, BeginTokenLogin(f, a, v) PROVE LInv'
    <2> DEFINE new == Flow("token", a, v, TokenIs(a, v, token, active))
    <2>1. v \in 1 .. token[a].version BY <1>2 DEF BeginTokenLogin
    <2>2. a # Default /\ v \in Nat /\ v # 0 BY <2>1 DEF Tables
    <2>3. FlowOK(new, token, active) BY <2>2 DEF FlowOK, Flow, Own
    <2> HIDE DEF new
    <2>4. flow' = [flow EXCEPT ![f] = new] BY <1>2 DEF BeginTokenLogin, new
    <2>e. edits' \in Int /\ edits' <= MaxEdits BY <1>2, <1>e DEF BeginTokenLogin, Edit
    <2> QED BY <1>0, <1>2, <2>e, <2>3, <2>4 DEF BeginTokenLogin
<1>3. ASSUME NEW f \in Flows, Callback(f) PROVE LInv'
    <2> DEFINE on == Flow("exchange", flow[f].app, 0, MayLogIn(flow[f].app))
               new == IF Resolved(flow[f].app) THEN on ELSE NoFlow
    <2>1. flow[f].app \in Own BY DEF FlowsOK, FlowOK
    <2>2. Resolved(flow[f].app) => FlowOK(on, token, active) BY <2>1 DEF FlowOK, Flow, Resolved
    <2>3. FlowOK(new, token, active) BY <2>2, NoFlowOK
    <2> HIDE DEF new
    <2>4. flow' = [flow EXCEPT ![f] = new] BY <1>3 DEF Callback, new
    <2> QED BY <1>0, <1>3, <1>e, <2>3, <2>4 DEF Callback
<1>4. ASSUME NEW f \in Flows, ExchangeCode(f) PROVE LInv'
    <2> DEFINE new == GoesOn(f, "issue")
    <2>1. FlowOK(flow[f], token, active) /\ flow[f].pc = "exchange" BY <1>4 DEF FlowsOK, ExchangeCode
    <2>2. FlowOK(new, token, active) BY <2>1 DEF FlowOK, Flow, GoesOn
    <2> HIDE DEF new
    <2>3. flow' = [flow EXCEPT ![f] = new] BY <1>4 DEF ExchangeCode, new
    <2> QED BY <1>0, <1>4, <1>e, <2>2, <2>3 DEF ExchangeCode
<1>5. ASSUME NEW f \in Flows, CheckToken(f) PROVE LInv'
    <2> DEFINE new == IF TokenIs(flow[f].app, flow[f].version, token, active)
                        THEN GoesOn(f, "app") ELSE NoFlow
    <2>1. FlowOK(flow[f], token, active) /\ flow[f].pc = "token" BY <1>5 DEF FlowsOK, CheckToken
    <2>2. TokenIs(flow[f].app, flow[f].version, token, active) => FlowOK(GoesOn(f, "app"), token, active)
        BY <2>1 DEF FlowOK, Flow, GoesOn
    <2>3. FlowOK(new, token, active) BY <2>2, NoFlowOK
    <2> HIDE DEF new
    <2>4. flow' = [flow EXCEPT ![f] = new] BY <1>5 DEF CheckToken, new
    <2> QED BY <1>0, <1>5, <1>e, <2>3, <2>4 DEF CheckToken
<1>6. ASSUME NEW f \in Flows, ReadLoginApp(f) PROVE LInv'
    <2> DEFINE new == IF active[flow[f].app] THEN GoesOn(f, "issue") ELSE NoFlow
    <2>1. FlowOK(flow[f], token, active) /\ flow[f].pc = "app" BY <1>6 DEF FlowsOK, ReadLoginApp
    <2>2. FlowOK(GoesOn(f, "issue"), token, active) BY <2>1 DEF FlowOK, Flow, GoesOn
    <2>3. FlowOK(new, token, active) BY <2>2, NoFlowOK
    <2> HIDE DEF new
    <2>4. flow' = [flow EXCEPT ![f] = new] BY <1>6 DEF ReadLoginApp, new
    <2> QED BY <1>0, <1>6, <1>e, <2>3, <2>4 DEF ReadLoginApp
<1>7. ASSUME NEW f \in Flows, AbandonLogin(f) PROVE LInv'
    <2>e. edits' \in Int /\ edits' <= MaxEdits BY <1>7, <1>e DEF AbandonLogin
    <2> QED BY <1>0, <1>7, <2>e, NoFlowOK DEF AbandonLogin
<1>8. ASSUME NEW f \in Flows, NEW s \in Sessions, IssueSession(f, s) PROVE LInv'
    <2> USE <1>8 DEF IssueSession
    <2>1. FlowOK(flow[f], token, active) BY DEF FlowsOK
    <2>2. session' \in [Sessions -> [status : {"none", "live", "over"}, app : Own]]
        BY <2>1 DEF Tables, FlowOK
    <2>3. Tables' BY <2>2 DEF Tables
    <2>4. FlowsOK' BY NoFlowOK DEF FlowsOK
    <2>5. \A t \in Sessions : session[t].status # "none" =>
             /\ session'[t].status # "none" /\ session'[t].app = session[t].app
             /\ session[t].status = "over" => session'[t].status = "over"
        BY DEF Tables
    <2>6. ASSUME NEW q \in Requests PROVE RequestOK(request[q], access, session')
        <3>1. RequestOK(request[q], access, session) BY DEF RequestsOK
        <3> QED BY <2>5, <3>1, RequestStays
    <2>7. RequestsOK' BY <2>6 DEF RequestsOK
    <2>8. Replacements' BY DEF Replacements
    <2> QED BY <2>3, <2>4, <2>7, <2>8
<1> QED BY <1>1, <1>2, <1>3, <1>4, <1>5, <1>6, <1>7, <1>8 DEF LoginStep

-----------------------------------------------------------------------------
(* Requests *)

LEMMA RequestKeeps ==
    ASSUME LInv, RequestStep
    PROVE  LInv'
<1> USE DEF LInv
<1>e. edits \in Int /\ edits <= MaxEdits BY DEF Tables
\* A request that goes on, or ends, and touches nothing else.
<1>0. ASSUME NEW q \in Requests, NEW new, RequestOK(new, access, session),
             request' = [request EXCEPT ![q] = new],
             UNCHANGED <<active, token, access, replacing, flow, session>>,
             edits' \in Int, edits' <= MaxEdits
      PROVE  LInv'
    <2>1. Tables' BY <1>0 DEF Tables
    <2>2. FlowsOK' /\ Replacements' BY <1>0 DEF FlowsOK, Replacements
    <2>3. RequestsOK' BY <1>0 DEF RequestsOK
    <2> QED BY <2>1, <2>2, <2>3
<1>1. ASSUME NEW q \in Requests, NEW actor \in {"admin", "internal", "extension", "login"},
             NEW route \in {"data", "management", "default", "session", "upload"},
             NEW s \in Sessions \cup {NoSession}, BeginRequest(q, actor, route, s)
      PROVE  LInv'
    <2> DEFINE new == [pc |-> IF actor = "login" THEN "auth" ELSE "act", actor |-> actor,
                       route |-> route, session |-> s, rights |-> NoRights, could |-> NoCould,
                       late |-> actor = "login" /\ session[s].status = "over"]
               told == Watched(new, access)
    <2>0. /\ actor = "login" => s \in Sessions /\ session[s].status # "none"
          /\ route = "session" => actor = "login"
        BY <1>1 DEF BeginRequest, MayPresent
    <2>1. RequestOK(told, access, session)
        <3>1. CASE actor # "login"
            <4>1. told = new BY <3>1 DEF Watched
            <4>2. RequestOK(new, access, session) BY <2>0, <3>1 DEF RequestOK, NoRights, Rights
            <4> QED BY <4>1, <4>2
        <3>2. CASE actor = "login"
            <4> DEFINE a == session[s].app
                       c == [p \in Projects |-> new.could[p] \cup {access[a][p]}]
                       w == [pc |-> "auth", actor |-> actor, route |-> route, session |-> s,
                             rights |-> NoRights, late |-> session[s].status = "over", could |-> c]
                       v == [pc |-> "auth", actor |-> actor, route |-> route, session |-> s,
                             rights |-> NoRights, could |-> NoCould, late |-> session[s].status = "over"]
            <4>1. new = v BY <3>2
            <4>2. CASE a # NoApp
                <5>1. told = w BY <3>2, <4>2 DEF Watched
                <5>2. Informed(w, a, access) BY DEF Informed
                <5>3. NoRights \in [Projects -> Rights] BY DEF NoRights, Rights
                <5>4. RequestOK(w, access, session) BY <2>0, <3>2, <5>2, <5>3 DEF RequestOK
                <5> QED BY <5>1, <5>4
            <4>3. CASE a = NoApp
                <5>1. told = new BY <3>2, <4>3 DEF Watched
                <5>2. Informed(v, a, access) BY <4>3 DEF Informed
                <5>3. NoRights \in [Projects -> Rights] BY DEF NoRights, Rights
                <5>4. RequestOK(v, access, session) BY <2>0, <3>2, <5>2, <5>3 DEF RequestOK
                <5> QED BY <4>1, <5>1, <5>4
            <4> QED BY <4>2, <4>3
        <3> QED BY <3>1, <3>2
    <2>2. request' = [request EXCEPT ![q] = told] BY <1>1 DEF BeginRequest
    <2> HIDE DEF told
    <2>e. edits' \in Int /\ edits' <= MaxEdits BY <1>1, <1>e DEF BeginRequest, Edit
    <2> QED BY <1>0, <1>1, <2>e, <2>1, <2>2 DEF BeginRequest
<1>2. ASSUME NEW q \in Requests, Authenticate(q) PROVE LInv'
    <2> DEFINE r == request[q]
               new == IF IsLive(r.session) THEN With(r, "rights", NoRights) ELSE NoRequest
    <2>1. RequestOK(r, access, session) /\ r.pc = "auth" BY <1>2 DEF RequestsOK, Authenticate
    <2>2. IsLive(r.session) => RequestOK(With(r, "rights", NoRights), access, session)
        <3> SUFFICES ASSUME session[r.session].status = "live"
                     PROVE  RequestOK(With(r, "rights", NoRights), access, session)
            BY DEF IsLive
        <3>1. NoRights \in [Projects -> Rights] BY DEF NoRights, Rights
        <3>2. ~r.late BY <2>1 DEF RequestOK
        <3>3. Informed(With(r, "rights", NoRights), session[r.session].app, access)
            BY <2>1 DEF RequestOK, Informed, With
        <3> QED BY <2>1, <3>1, <3>2, <3>3 DEF RequestOK, With
    <2>3. RequestOK(new, access, session) BY <2>2, NoRequestOK
    <2>4. request' = [request EXCEPT ![q] = new] BY <1>2 DEF Authenticate
    <2> HIDE DEF new
    <2> QED BY <1>0, <1>2, <1>e, <2>3, <2>4 DEF Authenticate
<1>3. ASSUME NEW q \in Requests, LoadPermissions(q) PROVE LInv'
    <2> DEFINE r == request[q]
               now == Loaded(r.session)
               new == IF r.route = "default" /\ session[r.session].app # NoApp
                        THEN NoRequest ELSE With(r, "act", now)
    <2>1. RequestOK(r, access, session) /\ r.pc = "rights" BY <1>3 DEF RequestsOK, LoadPermissions
    <2>2. r.session \in Sessions /\ session[r.session].app \in Own
        BY <2>1 DEF RequestOK, Tables
    <2>3. now \in [Projects -> Rights]
        BY <2>2 DEF Loaded, PermissionsOf, NoRights, Rights, Tables, Own
    <2>4. session[r.session].app # NoApp => now = access[session[r.session].app]
        BY DEF Loaded, PermissionsOf
    <2> HIDE DEF now
    <2>5. Informed(With(r, "act", now), session[r.session].app, access)
        BY <2>1, <2>4 DEF RequestOK, Informed, With
    <2>6. RequestOK(With(r, "act", now), access, session)
        BY <2>1, <2>3, <2>5 DEF RequestOK, With
    <2>7. RequestOK(new, access, session) BY <2>6, NoRequestOK
    <2>8. request' = [request EXCEPT ![q] = new] BY <1>3 DEF LoadPermissions, now
    <2> HIDE DEF new
    <2> QED BY <1>0, <1>3, <1>e, <2>7, <2>8 DEF LoadPermissions
<1>4. ASSUME NEW q \in Requests, Done(q) \/ Refuse(q) PROVE LInv'
    <2>e. edits' \in Int /\ edits' <= MaxEdits BY <1>4, <1>e DEF Done, Refuse
    <2> QED BY <1>0, <1>4, <2>e, NoRequestOK DEF Done, Refuse
\* A session ends.
<1>5. ASSUME NEW s \in Sessions, Ended(s), session[s].status # "none", UNCHANGED <<active, token, access, edits>>
      PROVE  /\ Tables'
             /\ \A q \in Requests : RequestOK(request[q], access, session')
    <2>1. session' \in [Sessions -> [status : {"none", "live", "over"}, app : Own]]
        BY <1>5 DEF Ended, Tables
    <2>2. \A t \in Sessions : session[t].status # "none" =>
             /\ session'[t].status # "none" /\ session'[t].app = session[t].app
             /\ session[t].status = "over" => session'[t].status = "over"
        BY <1>5 DEF Ended, Tables
    <2>3. ASSUME NEW q \in Requests PROVE RequestOK(request[q], access, session')
        <3>1. RequestOK(request[q], access, session) BY DEF RequestsOK
        <3> QED BY <2>2, <3>1, RequestStays
    <2> QED BY <1>5, <2>1, <2>3 DEF Tables
<1>6. ASSUME NEW q \in Requests, Logout(q) PROVE LInv'
    <2> DEFINE s == request[q].session
    <2>1. RequestOK(request[q], access, session) BY DEF RequestsOK
    <2>2. s \in Sessions /\ session[s].status # "none" BY <1>6, <2>1 DEF Logout, RequestOK
    <2>3. Ended(s) /\ UNCHANGED <<active, token, access, replacing, flow, edits>> BY <1>6 DEF Logout
    <2>4. Tables' /\ \A x \in Requests : RequestOK(request[x], access, session')
        BY <1>5, <2>2, <2>3
    <2>5. RequestsOK' BY <1>6, <2>3, <2>4, NoRequestOK DEF Logout, RequestsOK
    <2>6. FlowsOK' /\ Replacements' BY <2>3 DEF FlowsOK, Replacements
    <2> QED BY <2>4, <2>5, <2>6
<1>7. ASSUME NEW s \in Sessions, ExpireSession(s) PROVE LInv'
    <2>1. Ended(s) /\ session[s].status # "none"
          /\ UNCHANGED <<active, token, access, replacing, flow, request, edits>>
        BY <1>7 DEF ExpireSession
    <2>2. Tables' /\ \A x \in Requests : RequestOK(request[x], access, session') BY <1>5, <2>1
    <2>3. RequestsOK' BY <2>1, <2>2 DEF RequestsOK
    <2>4. FlowsOK' /\ Replacements' BY <2>1 DEF FlowsOK, Replacements
    <2> QED BY <2>2, <2>3, <2>4
<1> QED BY <1>1, <1>2, <1>3, <1>4, <1>6, <1>7 DEF RequestStep, Serve, ServeAll, ServeList, Upload

-----------------------------------------------------------------------------

LEMMA Stutter == ASSUME LInv, UNCHANGED vars PROVE LInv'
BY DEF LInv, Tables, Replacements, FlowsOK, RequestsOK, vars

LEMMA Inductive == Spec => []LInv
<1>1. LInv /\ [Next]_vars => LInv'
    BY AdminKeeps, LoginKeeps, RequestKeeps, Stutter DEF Next
<1> QED BY <1>1, InitLInv, PTL DEF Spec

\* Types of every table, attempt and request; a session is never of the row of
\* the default application.
THEOREM TypeCorrect == Spec => []TypeOK
<1>1. ASSUME LInv PROVE TypeOK
    <2>1. Tables BY <1>1 DEF LInv
    <2>2. \A f \in Flows : FlowOK(flow[f], token, active) BY <1>1 DEF LInv, FlowsOK
    <2>3. \A q \in Requests : RequestOK(request[q], access, session) BY <1>1 DEF LInv, RequestsOK
    <2> QED BY <2>1, <2>2, <2>3 DEF TypeOK, Tables, FlowOK, RequestOK, Own, AppOrDefault
<1> QED BY <1>1, Inductive, PTL

\* A request of a session may do what the access list of its application said
\* at some moment of the request, and a list shows no more
\* (load_project_permissions).
THEOREM RightsStayLive == Spec => []RightsAreLive
<1>1. ASSUME LInv PROVE RightsAreLive
    <2> SUFFICES ASSUME NEW q \in Requests, NEW p \in Projects, request[q].pc = "act",
                        request[q].actor = "login", session[request[q].session].app # NoApp
                 PROVE  /\ CanViewProject(request[q], p) \/ p \in VisibleProjects(request[q])
                              => request[q].could[p] \cap {"view", "manage"} # {}
                        /\ CanManageProject(request[q], p) => "manage" \in request[q].could[p]
        BY DEF RightsAreLive
    <2> DEFINE r == request[q]
    <2>1. RequestOK(r, access, session) BY <1>1 DEF LInv, RequestsOK
    <2>2. r.rights[p] \in r.could[p] /\ r.rights[p] \in Rights BY <2>1 DEF RequestOK, Informed
    <2>3. CanViewProject(r, p) \/ p \in VisibleProjects(r) => r.rights[p] # "none"
        BY DEF CanViewProject, CanQueryAll, IsDefaultAdmin, VisibleProjects
    <2>4. CanManageProject(r, p) => r.rights[p] = "manage" BY DEF CanManageProject, IsDefaultAdmin
    <2> QED BY <2>2, <2>3, <2>4 DEF Rights
<1> QED BY <1>1, Inductive, PTL

\* A request that begins after the end of its session never gets as far as its
\* permissions (authenticate_jwt).
THEOREM EndedStayOut == Spec => []EndedSessionsStayOut
<1>1. LInv => EndedSessionsStayOut BY DEF LInv, RequestsOK, RequestOK, EndedSessionsStayOut
<1> QED BY <1>1, Inductive, PTL

\* A login ends in a session only on what was valid at some moment of the call
\* that ends it (callback, login_with_app_token).
THEOREM LoginsRestOnNow == Spec => []LoginsAreCurrent
<1>1. LInv => LoginsAreCurrent BY DEF LInv, FlowsOK, FlowOK, LoginsAreCurrent
<1> QED BY <1>1, Inductive, PTL
=============================================================================
