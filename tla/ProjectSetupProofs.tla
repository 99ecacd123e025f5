------------------------- MODULE ProjectSetupProofs -------------------------
(* Theorems about ProjectSetup, for every set of projects, accounts, periods, *)
(* tasks and concurrent requests.                                             *)
EXTENDS ProjectSetup, TLAPS

USE SetupAssumption

-----------------------------------------------------------------------------
(* The inductive invariant: the rows are typed, what a request has checked   *)
(* holds until it commits, because no other request has its project, and     *)
(* every project has its default.                                            *)

Locks(k) == request[k].kind \in {"project", "account", "period"}

Exclusive ==
    \A j, k \in Actors : j # k /\ Locks(j) /\ Locks(k) => request[j].project # request[k].project

AccountRequest(r) ==
    /\ r.project \in Projects /\ r.account \in Accounts
    /\ r.old \in {NoProject, r.project}
    /\ r.row \in AccountRows /\ r.row.project = r.project
    /\ r.clear \in BOOLEAN
    /\ account[r.account].project = r.project \/ r.old = NoProject
    /\ r.row.default => r.row.active
    /\ IF r.clear THEN r.row.default
       ELSE /\ HasDefault(r.project)
            /\ r.row.default => r.old = r.project /\ account[r.account].default
            /\ r.old = r.project /\ account[r.account].default => r.row.default

PeriodRequest(r) ==
    /\ r.project \in Projects /\ r.account \in Accounts
    /\ project[r.project] = "active"
    /\ account[r.account].project = r.project
    /\ account[r.account].active

Requests ==
    \A k \in Actors :
       /\ request[k].kind = "account" => AccountRequest(request[k])
       /\ request[k].kind = "period" => PeriodRequest(request[k])

Rows ==
    /\ account \in [Accounts -> AccountRows]
    /\ request = [k \in Actors |-> request[k]]
    /\ project = [p \in Projects |-> project[p]]

IInv == Rows /\ Exclusive /\ Requests /\ ActiveDefault

-----------------------------------------------------------------------------
(* What the steps keep *)

LEMMA InitIInv == Init => IInv
<1> SUFFICES ASSUME Init PROVE IInv
    OBVIOUS
<1>1. account \in [Accounts -> AccountRows]
    <2>1. FirstAccounts \subseteq AccountRows BY DEF FirstAccounts, AccountRows
    <2>2. NoAccountRow \in AccountRows BY DEF NoAccountRow, AccountRows
    <2>3. account \in [Accounts -> FirstAccounts \cup {NoAccountRow}] BY DEF Init
    <2> QED BY <2>1, <2>2, <2>3
<1>2. \A k \in Actors : request[k].kind = "idle" BY DEF Init, NoRequest
<1>3. Rows BY <1>1 DEF Init, Rows
<1>4. Exclusive /\ Requests BY <1>2 DEF Exclusive, Locks, Requests
<1>5. ActiveDefault
    <2> SUFFICES ASSUME NEW p \in Projects, NEW d \in AccountsOf(p)
                 PROVE  /\ account[d].active /\ account[d].default
                        /\ \A a \in AccountsOf(p) : account[a].default => a = d
        BY DEF ActiveDefault
    <2>1. d \in Accounts /\ account[d].project = p BY DEF AccountsOf
    <2>2. account[d] # NoAccountRow BY <2>1 DEF NoAccountRow
    <2>3. account[d] \in FirstAccounts BY <2>1, <2>2 DEF Init
    <2>4. account[d].active /\ account[d].default BY <2>3 DEF FirstAccounts
    <2>5. \A a \in AccountsOf(p) : a = d BY DEF Init
    <2> QED BY <2>4, <2>5
<1> QED BY <1>3, <1>4, <1>5 DEF IInv

\* A step that leaves projects and accounts alone and at most ends one request.
LEMMA EndsRequest ==
    ASSUME IInv, NEW k \in Actors, UNCHANGED <<project, account>>,
           request' = [request EXCEPT ![k] = NoRequest]
    PROVE  IInv'
<1>1. \A j \in Actors : request'[j] = IF j = k THEN NoRequest ELSE request[j]
    BY DEF IInv, Rows
<1>2. Rows' BY <1>1 DEF IInv, Rows
<1>3. Exclusive' BY <1>1 DEF IInv, Exclusive, Locks, NoRequest
<1>4. Requests'
    BY <1>1 DEF IInv, Requests, AccountRequest, PeriodRequest, NoRequest, HasDefault, AccountsOf
<1>5. ActiveDefault' BY DEF IInv, ActiveDefault, AccountsOf
<1> QED BY <1>2, <1>3, <1>4, <1>5 DEF IInv

\* A step that opens a request of k whose checks hold.
LEMMA OpensRequest ==
    ASSUME IInv, NEW k \in Actors, NEW r, UNCHANGED <<project, account>>,
           request' = [request EXCEPT ![k] = r],
           r.kind \in {"project", "account", "period"} => Unlocked(r.project),
           r.kind = "account" => AccountRequest(r),
           r.kind = "period" => PeriodRequest(r)
    PROVE  IInv'
<1>1. \A j \in Actors : request'[j] = IF j = k THEN r ELSE request[j]
    BY DEF IInv, Rows
<1>2. Rows' BY <1>1 DEF IInv, Rows
<1>3. Exclusive' BY <1>1 DEF IInv, Exclusive, Locks, Unlocked
<1>4. Requests'
    BY <1>1 DEF IInv, Requests, AccountRequest, PeriodRequest, HasDefault, AccountsOf
<1>5. ActiveDefault' BY DEF IInv, ActiveDefault, AccountsOf
<1> QED BY <1>2, <1>3, <1>4, <1>5 DEF IInv

\* Nothing that the invariant speaks of changes.
LEMMA Unmoved ==
    ASSUME IInv, UNCHANGED <<project, account, request>> PROVE IInv'
BY DEF IInv, Rows, Exclusive, Locks, Requests, AccountRequest, PeriodRequest, HasDefault,
       AccountsOf, ActiveDefault

\* The commit of a project, whose account and period requests wait for it.
LEMMA CommitProjectKeeps ==
    ASSUME IInv, NEW k \in Actors, CommitProject(k) PROVE IInv'
<1>1. \A j \in Actors : request'[j] = IF j = k THEN NoRequest ELSE request[j]
    BY DEF IInv, Rows, CommitProject
<1>2. \A p \in Projects : p # request[k].project => project'[p] = project[p]
    BY DEF IInv, Rows, CommitProject
<1>3. account' = account /\ request[k].kind = "project" BY DEF CommitProject
<1>4. Rows' BY <1>1, <1>3 DEF IInv, Rows, CommitProject
<1>5. Exclusive' BY <1>1 DEF IInv, Exclusive, Locks, NoRequest
<1>6. \A j \in Actors : j # k /\ Locks(j) => request[j].project # request[k].project
    BY <1>3 DEF IInv, Exclusive, Locks
<1>7. Requests'
    BY <1>1, <1>2, <1>3, <1>6
       DEF IInv, Requests, AccountRequest, PeriodRequest, NoRequest, HasDefault, AccountsOf, Locks
<1>8. ActiveDefault' BY <1>3 DEF IInv, ActiveDefault, AccountsOf
<1> QED BY <1>4, <1>5, <1>7, <1>8 DEF IInv

\* The commit of an account: either the account becomes the default and the
\* others of its project are cleared, or the default stays what it was.
LEMMA CommitAccountKeeps ==
    ASSUME IInv, NEW k \in Actors, CommitAccount(k) PROVE IInv'
<1> DEFINE r == request[k]
           p == r.project
           a == r.account
<1>1. AccountRequest(r) BY DEF IInv, Requests, CommitAccount
<1>2. /\ p \in Projects /\ a \in Accounts /\ r.row \in AccountRows /\ r.row.project = p
      /\ account[a].project = r.old /\ r.old \in {NoProject, p}
    BY <1>1 DEF AccountRequest, CommitAccount
<1>3. \A j \in Actors : request'[j] = IF j = k THEN NoRequest ELSE request[j]
    BY DEF IInv, Rows, CommitAccount
<1>4. \A b \in Accounts :
        account'[b] = IF b = a THEN r.row
                      ELSE IF r.clear /\ account[b].project = p
                        THEN [project |-> p, active |-> account[b].active, default |-> FALSE]
                      ELSE account[b]
    BY DEF CommitAccount
<1>5. \A b \in Accounts : account[b] \in AccountRows BY DEF IInv, Rows
<1>6. ASSUME NEW b \in Accounts PROVE account'[b] \in AccountRows
    <2>1. [project |-> p, active |-> account[b].active, default |-> FALSE] \in AccountRows
        BY <1>2, <1>5 DEF AccountRows
    <2> HIDE DEF r, p, a
    <2> QED BY <1>2, <1>4, <1>5, <2>1
<1>7. project' = project BY DEF CommitAccount
<1>8. account' = [b \in Accounts |-> account'[b]] BY DEF CommitAccount
<1>9. account' \in [Accounts -> AccountRows] BY <1>6, <1>8
<1>10. Rows' BY <1>3, <1>7, <1>9 DEF IInv, Rows, CommitAccount
<1>11. Exclusive' BY <1>3 DEF IInv, Exclusive, Locks, NoRequest
<1>e. account'[a] = r.row BY <1>2, <1>4
<1>f. ASSUME NEW b \in Accounts, b # a
      PROVE  /\ account'[b].project = account[b].project
             /\ account'[b].active = account[b].active
             /\ r.clear /\ account[b].project = p => account'[b].default = FALSE
             /\ (r.clear /\ account[b].project = p) \/ account'[b] = account[b]
    <2> HIDE DEF r, p, a
    <2>1. CASE r.clear /\ account[b].project = p
        <3>1. account'[b] = [project |-> p, active |-> account[b].active, default |-> FALSE]
            BY <1>4, <1>f, <2>1
        <3> QED BY <2>1, <3>1
    <2>2. CASE ~(r.clear /\ account[b].project = p)
        <3>1. account'[b] = account[b] BY <1>4, <1>f, <2>2
        <3> QED BY <2>2, <3>1
    <2> QED BY <2>1, <2>2
\* Accounts of other projects stay what they are.
<1>12. ASSUME NEW b \in Accounts, NEW q \in Projects, q # p
       PROVE  /\ (account'[b].project = q) <=> (account[b].project = q)
              /\ account[b].project = q => account'[b] = account[b]
    <2> HIDE DEF r, p, a
    <2>1. CASE b = a BY <1>2, <1>e, <1>12, <2>1
    <2>2. CASE b # a BY <1>f, <1>12, <2>2
    <2> QED BY <2>1, <2>2
<1>13. ASSUME NEW q \in Projects, q # p
       PROVE  AccountsOf(q)' = AccountsOf(q) /\ (HasDefault(q) => HasDefault(q)')
    BY <1>12, <1>13 DEF AccountsOf, HasDefault
<1>14. \A j \in Actors : j # k /\ Locks(j) => request[j].project # p
    BY DEF IInv, Exclusive, Locks, CommitAccount
<1>15. Requests'
    <2> SUFFICES ASSUME NEW j \in Actors
                 PROVE  /\ request'[j].kind = "account" => AccountRequest(request[j])'
                        /\ request'[j].kind = "period" => PeriodRequest(request[j])'
        BY DEF Requests
    <2>1. CASE j = k BY <1>3, <2>1 DEF NoRequest
    <2>2. CASE j # k /\ request[j].kind = "account"
        <3>1. AccountRequest(request[j]) /\ request[j].project # p
            BY <1>14, <2>2 DEF IInv, Requests, Locks
        <3>2. request'[j] = request[j] BY <1>3, <2>2
        <3>3. /\ request[j].project \in Projects /\ request[j].account \in Accounts
              /\ request[j].old \in {NoProject, request[j].project}
            BY <3>1 DEF AccountRequest
        <3>4. HasDefault(request[j].project) => HasDefault(request[j].project)'
            <4>1. ASSUME NEW q \in Projects, q = request[j].project, HasDefault(q)
                  PROVE  \E b \in Accounts : account'[b].project = q /\ account'[b].default
                BY <1>13, <3>1, <4>1 DEF HasDefault, AccountsOf
            <4> QED BY <3>2, <3>3, <4>1 DEF HasDefault, AccountsOf
        <3>5. /\ account[request[j].account].project = request[j].project =>
                    account'[request[j].account] = account[request[j].account]
              /\ account'[request[j].account].project = request[j].project =>
                    account[request[j].account].project = request[j].project
            BY <1>12, <3>1, <3>3
        <3>6. AccountRequest(request[j])'
            BY <3>1, <3>2, <3>3, <3>4, <3>5 DEF AccountRequest
        <3> QED BY <2>2, <3>2, <3>6
    <2>3. CASE j # k /\ request[j].kind = "period"
        <3>1. PeriodRequest(request[j]) /\ request[j].project # p
            BY <1>14, <2>3 DEF IInv, Requests, Locks
        <3>2. request'[j] = request[j] BY <1>3, <2>3
        <3>3. account'[request[j].account] = account[request[j].account]
            BY <1>12, <3>1 DEF PeriodRequest
        <3>4. PeriodRequest(request[j])' BY <1>7, <3>1, <3>2, <3>3 DEF PeriodRequest
        <3> QED BY <2>3, <3>2, <3>4
    <2>4. CASE j # k /\ request[j].kind \notin {"account", "period"} BY <1>3, <2>4
    <2> QED BY <2>1, <2>2, <2>3, <2>4
<1>16. ActiveDefault'
    <2> SUFFICES ASSUME NEW q \in Projects, AccountsOf(q)' # {}
                 PROVE  \E d \in AccountsOf(q)' :
                           /\ account'[d].active /\ account'[d].default
                           /\ \A b \in AccountsOf(q)' : account'[b].default => b = d
        BY DEF ActiveDefault
    <2>1. CASE q # p
        <3>1. AccountsOf(q)' = AccountsOf(q) BY <1>13, <2>1
        <3>2. \A b \in AccountsOf(q) : account'[b] = account[b]
            BY <1>12, <2>1 DEF AccountsOf
        <3>3. PICK d \in AccountsOf(q) :
                 /\ account[d].active /\ account[d].default
                 /\ \A b \in AccountsOf(q) : account[b].default => b = d
            BY <3>1 DEF IInv, ActiveDefault
        <3> QED BY <3>1, <3>2, <3>3
    <2>2. CASE q = p /\ r.clear
        <3>1. a \in AccountsOf(q)' BY <1>2, <1>e, <2>2 DEF AccountsOf
        <3>2. account'[a].active /\ account'[a].default
            BY <1>1, <1>2, <1>4, <2>2 DEF AccountRequest
        <3>3. ASSUME NEW b \in AccountsOf(q)', account'[b].default PROVE b = a
            <4>1. b \in Accounts /\ account'[b].project = p BY <2>2 DEF AccountsOf
            <4>2. SUFFICES ASSUME b # a PROVE FALSE OBVIOUS
            <4> HIDE DEF r, p, a
            <4> QED BY <1>f, <2>2, <3>3, <4>1, <4>2
        <3> QED BY <3>1, <3>2, <3>3
    <2>3. CASE q = p /\ ~r.clear
        <3>1. /\ HasDefault(p)
              /\ r.row.default => r.old = p /\ account[a].default
              /\ r.old = p /\ account[a].default => r.row.default
              /\ r.row.default => r.row.active
            BY <1>1, <2>3 DEF AccountRequest
        <3>2. PICK d \in AccountsOf(p) :
                 /\ account[d].active /\ account[d].default
                 /\ \A b \in AccountsOf(p) : account[b].default => b = d
            BY <1>2, <3>1 DEF IInv, ActiveDefault, HasDefault
        <3>3. d \in Accounts /\ account[d].project = p BY <3>2 DEF AccountsOf
        <3>4. d \in AccountsOf(q)'
            <4>1. account'[d].project = p
                <5> HIDE DEF r, p, a
                <5> QED BY <1>2, <1>e, <1>f, <3>3
            <4> QED BY <2>3, <3>3, <4>1 DEF AccountsOf
        <3>5. account'[d].active /\ account'[d].default
            <4> HIDE DEF r, p, a
            <4>1. CASE d = a BY <1>2, <1>e, <3>1, <3>2, <3>3, <4>1
            <4>2. CASE d # a BY <1>f, <2>3, <3>2, <3>3, <4>2
            <4> QED BY <4>1, <4>2
        <3>6. ASSUME NEW b \in AccountsOf(q)', account'[b].default PROVE b = d
            <4>1. b \in Accounts /\ account'[b].project = p BY <2>3, <3>6 DEF AccountsOf
            <4>2. CASE b = a
                <5>1. account[a].default /\ account[a].project = p
                    BY <1>2, <1>e, <3>1, <3>6, <4>2
                <5> QED BY <1>2, <3>2, <4>2, <5>1 DEF AccountsOf
            <4>3. CASE b # a
                <5>1. account'[b] = account[b] BY <1>f, <2>3, <4>1, <4>3
                <5> QED BY <3>2, <3>6, <4>1, <5>1 DEF AccountsOf
            <4> QED BY <4>2, <4>3
        <3> QED BY <2>3, <3>4, <3>5, <3>6
    <2> QED BY <2>1, <2>2, <2>3
<1> QED BY <1>10, <1>11, <1>15, <1>16 DEF IInv
-----------------------------------------------------------------------------
(* The requests *)

LEMMA CreateProjectKeeps ==
    ASSUME IInv, NEW p \in Projects, NEW status \in {"active", "disabled"},
           CreateProject(p, status)
    PROVE  IInv'
<1>1. project[p] = "none" /\ UNCHANGED <<account, request>> BY DEF CreateProject
<1>2. \A q \in Projects : q # p => project'[q] = project[q]
    BY DEF IInv, Rows, CreateProject
<1>3. Rows' BY <1>1 DEF IInv, Rows, CreateProject
<1>4. Exclusive' BY <1>1 DEF IInv, Exclusive, Locks
<1>5. Requests'
    BY <1>1, <1>2 DEF IInv, Requests, AccountRequest, PeriodRequest, HasDefault, AccountsOf
<1>6. ActiveDefault' BY <1>1 DEF IInv, ActiveDefault, AccountsOf
<1> QED BY <1>3, <1>4, <1>5, <1>6 DEF IInv

LEMMA CreateAccountKeeps ==
    ASSUME IInv, NEW k \in Actors, NEW p \in Projects, NEW a \in Accounts,
           NEW active \in BOOLEAN, NEW wanted \in BOOLEAN,
           BeginCreateAccount(k, p, a, active, wanted)
    PROVE  IInv'
<1> DEFINE d == MakesDefault(p, wanted)
           r == [kind |-> "account", project |-> p, old |-> NoProject, account |-> a,
                 clear |-> d, row |-> [project |-> p, active |-> active, default |-> d]]
<1>1. request' = [request EXCEPT ![k] = r] BY DEF BeginCreateAccount, Write
<1>2. Unlocked(p) /\ (d => active) /\ UNCHANGED <<project, account>>
    BY DEF BeginCreateAccount
<1>3. d \in BOOLEAN /\ (d \/ HasDefault(p)) BY DEF MakesDefault
<1> HIDE DEF d
<1>4. r.row \in AccountRows BY <1>3 DEF AccountRows
<1>5. AccountRequest(r) BY <1>2, <1>3, <1>4 DEF AccountRequest
<1>6. r.kind = "account" /\ r.project = p OBVIOUS
<1> HIDE DEF r
<1> QED BY <1>1, <1>2, <1>5, <1>6, OpensRequest

LEMMA UpdateAccountKeeps ==
    ASSUME IInv, NEW k \in Actors, NEW a \in Accounts,
           NEW active \in BOOLEAN, NEW wanted \in BOOLEAN,
           BeginUpdateAccount(k, a, active, wanted)
    PROVE  IInv'
<1> DEFINE p == account[a].project
           d == wanted \/ account[a].default
           r == [kind |-> "account", project |-> p, old |-> p, account |-> a,
                 clear |-> wanted, row |-> [project |-> p, active |-> active, default |-> d]]
<1>1. request' = [request EXCEPT ![k] = r] BY DEF BeginUpdateAccount, Write
<1>2. /\ p \in Projects /\ Unlocked(p) /\ UNCHANGED <<project, account>>
      /\ wanted => active
      /\ active \/ ~account[a].default
    BY DEF BeginUpdateAccount
<1>3. a \in AccountsOf(p) BY DEF AccountsOf
<1>4. account[a] \in AccountRows BY DEF IInv, Rows
<1>5. d \in BOOLEAN /\ (d => active) BY <1>2
<1>6. r.row \in AccountRows BY <1>2, <1>5 DEF AccountRows
<1>7. HasDefault(p) BY <1>2, <1>3 DEF IInv, ActiveDefault, HasDefault
<1>8. AccountRequest(r)
    <2>1. r.project = p /\ r.old = p /\ r.account = a /\ r.clear = wanted
        OBVIOUS
    <2>2. r.row.project = p /\ r.row.active = active /\ r.row.default = d OBVIOUS
    <2>3. wanted => d OBVIOUS
    <2>4. ~wanted => (d <=> account[a].default) OBVIOUS
    <2>5. account[a].project = p OBVIOUS
    <2> HIDE DEF r, d, p
    <2> QED BY <1>2, <1>5, <1>6, <1>7, <2>1, <2>2, <2>3, <2>4, <2>5 DEF AccountRequest
<1>9. r.kind = "account" /\ r.project = p OBVIOUS
<1> HIDE DEF r, p
<1> QED BY <1>1, <1>2, <1>8, <1>9, OpensRequest

LEMMA SavePeriodKeeps ==
    ASSUME IInv, NEW k \in Actors, NEW p \in Projects, NEW q \in Periods \cup {NoPeriod},
           NEW a \in Accounts, NEW named \in BOOLEAN, NEW active \in BOOLEAN,
           NEW b \in Submissions, BeginSavePeriod(k, p, q, a, named, active, b)
    PROVE  IInv'
<1> DEFINE r == [kind |-> "period", project |-> p, period |-> q, account |-> a,
                 active |-> active, body |-> b]
<1>1. request' = [request EXCEPT ![k] = r] BY DEF BeginSavePeriod
<1>2. /\ Unlocked(p) /\ project[p] = "active" /\ ResolveAccount(p, named, a)
      /\ UNCHANGED <<project, account>>
    BY DEF BeginSavePeriod
<1>3. PeriodRequest(r) BY <1>2 DEF PeriodRequest, ResolveAccount, AccountsOf
<1>4. r.kind = "period" /\ r.project = p OBVIOUS
<1> HIDE DEF r
<1> QED BY <1>1, <1>2, <1>3, <1>4, OpensRequest

LEMMA UpdateProjectKeeps ==
    ASSUME IInv, NEW k \in Actors, NEW p \in Projects, NEW status,
           BeginUpdateProject(k, p, status)
    PROVE  IInv'
<1> DEFINE r == [kind |-> "project", project |-> p, status |-> status]
<1>1. /\ request' = [request EXCEPT ![k] = r]
      /\ Unlocked(p) /\ UNCHANGED <<project, account>>
    BY DEF BeginUpdateProject
<1>2. r.kind = "project" /\ r.project = p OBVIOUS
<1> HIDE DEF r
<1> QED BY <1>1, <1>2, OpensRequest

LEMMA ImportFileKeeps ==
    ASSUME IInv, NEW k \in Actors, NEW p \in Projects, NEW a \in Accounts,
           NEW named \in BOOLEAN, NEW b \in Submissions, BeginImportFile(k, p, a, named, b)
    PROVE  IInv'
<1> DEFINE r == [kind |-> "file", project |-> p, period |-> NoPeriod, account |-> a,
                 active |-> TRUE, body |-> b]
<1>1. /\ request' = [request EXCEPT ![k] = r]
      /\ UNCHANGED <<project, account>>
    BY DEF BeginImportFile
<1>2. r.kind = "file" OBVIOUS
<1> HIDE DEF r
<1> QED BY <1>1, <1>2, OpensRequest

LEMMA NextIInv == IInv /\ [Next]_vars => IInv'
<1> SUFFICES ASSUME IInv, [Next]_vars PROVE IInv'
    OBVIOUS
<1>1. CASE ProjectStep
    <2>1. ASSUME NEW p \in Projects, NEW status \in {"active", "disabled"},
                 CreateProject(p, status)
          PROVE  IInv'
        BY <2>1, CreateProjectKeeps
    <2>2. ASSUME NEW k \in Actors, NEW p \in Projects, NEW status \in {"active", "disabled"},
                 BeginUpdateProject(k, p, status)
          PROVE  IInv'
        BY <2>2, UpdateProjectKeeps
    <2>3. ASSUME NEW k \in Actors, CommitProject(k) PROVE IInv'
        BY <2>3, CommitProjectKeeps
    <2>4. ASSUME NEW k \in Actors, AbortRequest(k) PROVE IInv'
        BY <2>4, EndsRequest DEF AbortRequest
    <2> QED BY <1>1, <2>1, <2>2, <2>3, <2>4 DEF ProjectStep
<1>2. CASE AccountStep
    <2>1. ASSUME NEW k \in Actors, NEW p \in Projects, NEW a \in Accounts,
                 NEW active \in BOOLEAN, NEW wanted \in BOOLEAN,
                 BeginCreateAccount(k, p, a, active, wanted)
          PROVE  IInv'
        BY <2>1, CreateAccountKeeps
    <2>2. ASSUME NEW k \in Actors, NEW a \in Accounts,
                 NEW active \in BOOLEAN, NEW wanted \in BOOLEAN,
                 BeginUpdateAccount(k, a, active, wanted)
          PROVE  IInv'
        BY <2>2, UpdateAccountKeeps
    <2>3. ASSUME NEW k \in Actors, CommitAccount(k) PROVE IInv'
        BY <2>3, CommitAccountKeeps
    <2> QED BY <1>2, <2>1, <2>2, <2>3 DEF AccountStep
<1>3. CASE PeriodStep
    <2>1. ASSUME NEW k \in Actors, NEW p \in Projects, NEW q \in Periods \cup {NoPeriod},
                 NEW a \in Accounts, NEW named \in BOOLEAN, NEW active \in BOOLEAN,
                 NEW b \in Submissions, BeginSavePeriod(k, p, q, a, named, active, b)
          PROVE  IInv'
        BY <2>1, SavePeriodKeeps
    <2>2. ASSUME NEW k \in Actors, NEW p \in Projects, NEW a \in Accounts,
                 NEW named \in BOOLEAN, NEW b \in Submissions,
                 BeginImportFile(k, p, a, named, b)
          PROVE  IInv'
        BY <2>2, ImportFileKeeps
    <2>3. ASSUME NEW k \in Actors, NEW q \in Periods, CommitPeriod(k, q) PROVE IInv'
        BY <2>3, EndsRequest DEF CommitPeriod
    <2>4. ASSUME NEW q \in Periods, NEW active \in BOOLEAN, UpdateStatus(q, active) PROVE IInv'
        BY <2>4, Unmoved DEF UpdateStatus
    <2> QED BY <1>3, <2>1, <2>2, <2>3, <2>4 DEF PeriodStep
<1>4. CASE ExportStep
    BY <1>4, Unmoved DEF ExportStep, ListExport, WriteSheet, DropExport
<1>5. CASE UNCHANGED vars BY <1>5, Unmoved DEF vars
<1> QED BY <1>1, <1>2, <1>3, <1>4, <1>5 DEF Next

LEMMA SpecIInv == Spec => []IInv
<1> QED BY InitIInv, NextIInv, PTL DEF Spec

\* Every project that has accounts keeps exactly one default account, and an
\* active one, for any number of concurrent requests (create_project_account,
\* update_project_account): what lock_project is for.
THEOREM OneActiveDefault == Spec => []ActiveDefault
<1>1. IInv => ActiveDefault BY DEF IInv
<1> QED BY <1>1, SpecIInv, PTL

-----------------------------------------------------------------------------
(* What a period is saved with *)

\* The step that commits a period.
LEMMA CommitsPeriod ==
    ASSUME Rows, NEW k \in Actors, NEW q \in Periods, request[k].kind = "period", [Next]_vars,
           period'[q] # period[q], request'[k] # request[k]
    PROVE  \E r \in Periods : CommitPeriod(k, r)
<1>1. CASE ProjectStep
    BY <1>1 DEF ProjectStep, CreateProject, BeginUpdateProject, CommitProject, AbortRequest
<1>2. CASE AccountStep
    BY <1>2 DEF AccountStep, BeginCreateAccount, BeginUpdateAccount, CommitAccount
<1>3. CASE PeriodStep
    <2>1. ~ \E j \in Actors, p \in Projects, r \in Periods \cup {NoPeriod}, a \in Accounts,
               named, active \in BOOLEAN, b \in Submissions :
               BeginSavePeriod(j, p, r, a, named, active, b)
        BY DEF BeginSavePeriod
    <2>2. ~ \E j \in Actors, p \in Projects, a \in Accounts, named \in BOOLEAN,
               b \in Submissions : BeginImportFile(j, p, a, named, b)
        BY DEF BeginImportFile
    <2>3. ~ \E r \in Periods, active \in BOOLEAN : UpdateStatus(r, active)
        BY DEF UpdateStatus
    <2>4. PICK j \in Actors, r \in Periods : CommitPeriod(j, r)
        BY <1>3, <2>1, <2>2, <2>3 DEF PeriodStep
    <2>5. j = k BY <2>4 DEF CommitPeriod, Rows
    <2> QED BY <2>4, <2>5
<1>4. CASE ExportStep BY <1>4 DEF ExportStep, ListExport, WriteSheet, DropExport
<1>5. CASE UNCHANGED vars BY <1>5 DEF vars
<1> QED BY <1>1, <1>2, <1>3, <1>4, <1>5 DEF Next
-----------------------------------------------------------------------------
(* Periods and contents: a second invariant, of the rows that the commits of *)
(* periods write.                                                            *)

ContentsInv ==
    /\ period = [q \in Periods |-> period[q]]
    /\ content = [q \in Periods |-> content[q]]
    /\ \A q \in Periods : content[q] = [t \in Types |-> content[q][t]]
    /\ request = [k \in Actors |-> request[k]]
    /\ \A k \in Actors :
          request[k].kind \in {"period", "file"} =>
             request[k].body \in Submissions /\ request[k].project \in Projects
    /\ export = NoExport \/ (export.period \in Periods /\ export.type \in Types)
    /\ \A q \in Periods :
          IF period[q].project = NoProject THEN ~period[q].active
          ELSE \E t \in Types : content[q][t].sync
    /\ TaskOwnedOnce

\* A submission is a sequence of one or two contents of different types.
LEMMA SubmissionShape ==
    ASSUME NEW b \in Submissions
    PROVE  /\ \A i \in DOMAIN b : b[i] \in Item /\ \A j \in 1 .. i - 1 : j \in DOMAIN b
           /\ \A i \in DOMAIN b : Index(b, b[i].type) = i
           /\ \E i \in DOMAIN b : b[i].sync
           /\ \A i, j \in DOMAIN b : i # j => b[i].task # b[j].task
<1>1. b \in {<<c>> : c \in Item} \/ b \in Item \X Item BY DEF Submissions
<1>2. \A i \in DOMAIN b : b[i] \in Item /\ \A j \in 1 .. i - 1 : j \in DOMAIN b
    <2>1. CASE b \in {<<c>> : c \in Item}
        <3>1. PICK c \in Item : b = <<c>> BY <2>1
        <3> QED BY <3>1
    <2>2. CASE b \in Item \X Item
        <3>1. DOMAIN b = 1 .. 2 /\ b[1] \in Item /\ b[2] \in Item BY <2>2
        <3> QED BY <3>1
    <2> QED BY <1>1, <2>1, <2>2
<1>3. ValidContents(b) BY DEF Submissions
<1>4. \A i, j \in DOMAIN b : b[i].type = b[j].type => i = j BY <1>3 DEF ValidContents
<1>5. \A i \in DOMAIN b : Index(b, b[i].type) = i BY <1>4 DEF Index
<1> QED BY <1>2, <1>3, <1>5 DEF ValidContents

\* What upsert_contents makes of the rows of a period.
LEMMA UpsertedRows ==
    ASSUME NEW rows, NEW b \in Submissions
    PROVE  /\ Upserted(rows, b) = [t \in Types |-> Upserted(rows, b)[t]]
           /\ \A i \in DOMAIN b : /\ b[i].type \in Types
                                  /\ Upserted(rows, b)[b[i].type].task = b[i].task
                                  /\ Upserted(rows, b)[b[i].type].sync = b[i].sync
           /\ \A t \in Types : (\A i \in DOMAIN b : b[i].type # t) =>
                 Upserted(rows, b)[t].task = rows[t].task
<1>1. Upserted(rows, b) = [t \in Types |-> Upserted(rows, b)[t]] BY DEF Upserted
<1>2. ASSUME NEW i \in DOMAIN b
      PROVE  /\ b[i].type \in Types
             /\ Upserted(rows, b)[b[i].type].task = b[i].task
             /\ Upserted(rows, b)[b[i].type].sync = b[i].sync
    <2>1. b[i].type \in Types BY SubmissionShape DEF Item
    <2>2. Index(b, b[i].type) = i BY SubmissionShape
    <2>3. Upserted(rows, b)[b[i].type] =
             [task |-> b[i].task, sync |-> b[i].sync, sheet |-> rows[b[i].type].sheet]
        BY <2>1, <2>2 DEF Upserted
    <2> QED BY <2>1, <2>3
<1>3. ASSUME NEW t \in Types, \A i \in DOMAIN b : b[i].type # t
      PROVE  Upserted(rows, b)[t].task = rows[t].task
    <2>1. Upserted(rows, b)[t] =
             [task |-> rows[t].task, sheet |-> rows[t].sheet,
              sync |-> rows[t].sync /\ rows[t].task \in Submitted(b)]
        BY <1>3 DEF Upserted
    <2> QED BY <2>1
<1> QED BY <1>1, <1>2, <1>3

\* The commit of a period: its tasks are its own, and something is switched on.
LEMMA CommitPeriodKeeps ==
    ASSUME ContentsInv, NEW k \in Actors, NEW q \in Periods, CommitPeriod(k, q)
    PROVE  ContentsInv'
<1> DEFINE b == request[k].body
           rows == Upserted(content[q], b)
<1>1. b \in Submissions BY DEF ContentsInv, CommitPeriod
<1>2. /\ content' = [content EXCEPT ![q] = rows]
      /\ request' = [request EXCEPT ![k] = NoRequest]
      /\ export' = export
      /\ MayUpsert(q, b)
    BY DEF CommitPeriod
<1>3. PICK on : period' = [period EXCEPT ![q] = [project |-> request[k].project,
                              account |-> request[k].account, active |-> on]]
    BY DEF CommitPeriod
<1>p. request[k].project \in Projects BY DEF ContentsInv, CommitPeriod
<1>4. /\ period'[q].project # NoProject
      /\ \A r \in Periods : r # q => period'[r] = period[r]
      /\ period' = [r \in Periods |-> period'[r]]
    BY <1>3, <1>p DEF ContentsInv
<1>5. content'[q] = rows /\ \A r \in Periods : r # q => content'[r] = content[r]
    BY <1>2 DEF ContentsInv
<1>6. content' = [r \in Periods |-> content'[r]] BY <1>2 DEF ContentsInv
<1> HIDE DEF b, rows
<1>7. rows = [t \in Types |-> rows[t]] BY <1>1, UpsertedRows DEF rows
<1>8. \E t \in Types : rows[t].sync
    <2>1. PICK i \in DOMAIN b : b[i].sync BY <1>1, SubmissionShape
    <2> QED BY <1>1, <2>1, UpsertedRows DEF rows
<1>9. ASSUME NEW t \in Types
      PROVE  \/ \E i \in DOMAIN b : b[i].type = t /\ rows[t].task = b[i].task
             \/ (\A i \in DOMAIN b : b[i].type # t) /\ rows[t].task = content[q][t].task
    BY <1>1, UpsertedRows DEF rows
\* No other period has a task of this one.
<1>10. ASSUME NEW r \in Periods, r # q, NEW t \in Types, NEW u \in Types,
              rows[t].task # NoTask
       PROVE  rows[t].task # content[r][u].task
    <2>1. CASE \E i \in DOMAIN b : b[i].type = t /\ rows[t].task = b[i].task
        BY <1>2, <1>10, <2>1 DEF MayUpsert, TakenElsewhere
    <2>2. CASE rows[t].task = content[q][t].task
        BY <1>10, <2>2 DEF ContentsInv, TaskOwnedOnce
    <2> QED BY <1>9, <2>1, <2>2
\* Nor do its two contents share one.
<1>11. ASSUME NEW t \in Types, NEW u \in Types, t # u, rows[t].task # NoTask,
              NEW i \in DOMAIN b, b[i].type = t, rows[t].task = b[i].task
       PROVE  rows[t].task # rows[u].task
    <2>1. CASE \E j \in DOMAIN b : b[j].type = u /\ rows[u].task = b[j].task
        BY <1>1, <1>11, <2>1, SubmissionShape
    <2>2. CASE (\A j \in DOMAIN b : b[j].type # u) /\ rows[u].task = content[q][u].task
        <3>1. \A j \in 1 .. i - 1 : b[j].type # u BY <1>1, <2>2, SubmissionShape
        <3>2. TaskBefore(content[q], b, i, u) = content[q][u].task BY <3>1 DEF TaskBefore
        <3>3. TaskBefore(content[q], b, i, u) # b[i].task BY <1>2, <1>11 DEF MayUpsert
        <3> QED BY <1>11, <2>2, <3>2, <3>3
    <2> QED BY <1>9, <2>1, <2>2
<1>12. ASSUME NEW t \in Types, NEW u \in Types, t # u, rows[t].task # NoTask
       PROVE  rows[t].task # rows[u].task
    <2>1. CASE \E i \in DOMAIN b : b[i].type = t /\ rows[t].task = b[i].task
        BY <1>11, <1>12, <2>1
    <2>2. CASE \E i \in DOMAIN b : b[i].type = u /\ rows[u].task = b[i].task
        BY <1>11, <1>12, <2>2
    <2>3. CASE rows[t].task = content[q][t].task /\ rows[u].task = content[q][u].task
        BY <1>12, <2>3 DEF ContentsInv, TaskOwnedOnce
    <2> QED BY <1>9, <2>1, <2>2, <2>3
<1>13. TaskOwnedOnce'
    <2> SUFFICES ASSUME NEW r \in Periods, NEW s \in Periods, NEW t \in Types, NEW u \in Types,
                        content'[r][t].task # NoTask, content'[r][t].task = content'[s][u].task
                 PROVE  r = s /\ t = u
        BY DEF TaskOwnedOnce
    <2>1. CASE r = q /\ s = q BY <1>5, <1>12, <2>1
    <2>2. CASE r = q /\ s # q BY <1>5, <1>10, <2>2
    <2>3. CASE r # q /\ s = q BY <1>5, <1>10, <2>3
    <2>4. CASE r # q /\ s # q BY <1>5, <2>4 DEF ContentsInv, TaskOwnedOnce
    <2> QED BY <2>1, <2>2, <2>3, <2>4
<1>14. \A r \in Periods : content'[r] = [t \in Types |-> content'[r][t]]
    BY <1>5, <1>7 DEF ContentsInv
<1>15. \A r \in Periods :
          IF period'[r].project = NoProject THEN ~period'[r].active
          ELSE \E t \in Types : content'[r][t].sync
    BY <1>4, <1>5, <1>8 DEF ContentsInv
<1>16. /\ \A j \in Actors :
             request'[j].kind \in {"period", "file"} =>
                request'[j].body \in Submissions /\ request'[j].project \in Projects
       /\ request' = [j \in Actors |-> request'[j]]
    BY <1>2 DEF ContentsInv, NoRequest
<1> QED BY <1>2, <1>4, <1>6, <1>13, <1>14, <1>15, <1>16 DEF ContentsInv

\* A step that leaves periods, contents and the export alone; what it makes of
\* a request is nothing, or one with a body that was checked.
LEMMA ContentsUnmoved ==
    ASSUME ContentsInv, UNCHANGED <<period, content, export>>,
           \/ request' = request
           \/ \E k \in Actors : \E r :
                 /\ request' = [request EXCEPT ![k] = r]
                 /\ r.kind \in {"period", "file"} =>
                       r.body \in Submissions /\ r.project \in Projects
    PROVE  ContentsInv'
<1>1. /\ \A j \in Actors :
            request'[j].kind \in {"period", "file"} =>
               request'[j].body \in Submissions /\ request'[j].project \in Projects
      /\ request' = [j \in Actors |-> request'[j]]
    BY DEF ContentsInv
<1> QED BY <1>1 DEF ContentsInv, TaskOwnedOnce

LEMMA ContentsInit == Init => ContentsInv
BY DEF Init, ContentsInv, NoRequest, NoContent, TaskOwnedOnce

LEMMA ContentsNext == ContentsInv /\ [Next]_vars => ContentsInv'
<1> SUFFICES ASSUME ContentsInv, [Next]_vars PROVE ContentsInv'
    OBVIOUS
<1>1. CASE ProjectStep
    BY <1>1, ContentsUnmoved
       DEF ProjectStep, CreateProject, BeginUpdateProject, CommitProject, AbortRequest, NoRequest
<1>2. CASE AccountStep
    BY <1>2, ContentsUnmoved
       DEF AccountStep, BeginCreateAccount, BeginUpdateAccount, Write, CommitAccount, NoRequest
<1>3. CASE PeriodStep
    <2>1. ASSUME NEW k \in Actors, NEW p \in Projects, NEW q \in Periods \cup {NoPeriod},
                 NEW a \in Accounts, NEW named \in BOOLEAN, NEW active \in BOOLEAN,
                 NEW b \in Submissions, BeginSavePeriod(k, p, q, a, named, active, b)
          PROVE  ContentsInv'
        <3> DEFINE r == [kind |-> "period", project |-> p, period |-> q, account |-> a,
                         active |-> active, body |-> b]
        <3>1. request' = [request EXCEPT ![k] = r] /\ UNCHANGED <<period, content, export>>
            BY <2>1 DEF BeginSavePeriod
        <3>2. r.body \in Submissions /\ r.project \in Projects OBVIOUS
        <3> HIDE DEF r
        <3> QED BY <3>1, <3>2, ContentsUnmoved
    <2>2. ASSUME NEW k \in Actors, NEW p \in Projects, NEW a \in Accounts,
                 NEW named \in BOOLEAN, NEW b \in Submissions,
                 BeginImportFile(k, p, a, named, b)
          PROVE  ContentsInv'
        <3> DEFINE r == [kind |-> "file", project |-> p, period |-> NoPeriod, account |-> a,
                         active |-> TRUE, body |-> b]
        <3>1. request' = [request EXCEPT ![k] = r] /\ UNCHANGED <<period, content, export>>
            BY <2>2 DEF BeginImportFile
        <3>2. r.body \in Submissions /\ r.project \in Projects OBVIOUS
        <3> HIDE DEF r
        <3> QED BY <3>1, <3>2, ContentsUnmoved
    <2>3. ASSUME NEW k \in Actors, NEW q \in Periods, CommitPeriod(k, q) PROVE ContentsInv'
        BY <2>3, CommitPeriodKeeps
    <2>4. ASSUME NEW q \in Periods, NEW active \in BOOLEAN, UpdateStatus(q, active)
          PROVE  ContentsInv'
        <3>1. /\ period[q].project # NoProject
              /\ period' = [period EXCEPT ![q] = [project |-> period[q].project,
                               account |-> period[q].account, active |-> active]]
              /\ UNCHANGED <<content, request, export>>
            BY <2>4 DEF UpdateStatus
        <3>2. /\ period' = [r \in Periods |-> period'[r]]
              /\ period'[q].project = period[q].project
              /\ \A r \in Periods : r # q => period'[r] = period[r]
            BY <3>1 DEF ContentsInv
        <3>3. \A r \in Periods :
                 IF period'[r].project = NoProject THEN ~period'[r].active
                 ELSE \E t \in Types : content'[r][t].sync
            BY <3>1, <3>2 DEF ContentsInv
        <3>4. TaskOwnedOnce' BY <3>1 DEF ContentsInv, TaskOwnedOnce
        <3> QED BY <3>1, <3>2, <3>3, <3>4 DEF ContentsInv
    <2> QED BY <1>3, <2>1, <2>2, <2>3, <2>4 DEF PeriodStep
<1>4. CASE ExportStep
    <2>1. CASE \E q \in Periods, t \in Types : ListExport(q, t)
        <3>1. UNCHANGED <<period, content, request>> BY <2>1 DEF ListExport
        <3>2. export'.period \in Periods /\ export'.type \in Types BY <2>1 DEF ListExport
        <3> QED BY <3>1, <3>2 DEF ContentsInv, TaskOwnedOnce
    <2>2. CASE WriteSheet
        <3>1. PICK q \in Periods, t \in Types : q = export.period /\ t = export.type
            BY <2>2 DEF WriteSheet, ContentsInv
        <3>2. content' = [content EXCEPT ![q][t] =
                 [task |-> content[q][t].task, sync |-> content[q][t].sync,
                  sheet |-> export.task]]
            BY <2>2, <3>1 DEF WriteSheet
        <3>3. /\ content' = [r \in Periods |-> content'[r]]
              /\ content'[q] = [content[q] EXCEPT ![t] =
                    [task |-> content[q][t].task, sync |-> content[q][t].sync,
                     sheet |-> export.task]]
              /\ \A r \in Periods : r # q => content'[r] = content[r]
            BY <3>2 DEF ContentsInv
        <3>4. /\ content'[q] = [u \in Types |-> content'[q][u]]
              /\ \A u \in Types : content'[q][u].task = content[q][u].task
                                  /\ content'[q][u].sync = content[q][u].sync
            <4> DEFINE row == [task |-> content[q][t].task, sync |-> content[q][t].sync,
                               sheet |-> export.task]
            <4>1. row.task = content[q][t].task /\ row.sync = content[q][t].sync OBVIOUS
            <4>2. content[q] = [u \in Types |-> content[q][u]] BY DEF ContentsInv
            <4>3. content'[q] = [content[q] EXCEPT ![t] = row] BY <3>3
            <4> HIDE DEF row
            <4>4. \A u \in Types : content'[q][u] = IF u = t THEN row ELSE content[q][u]
                BY <4>2, <4>3
            <4>5. content'[q] = [u \in Types |-> content'[q][u]] BY <4>2, <4>3
            <4> QED BY <4>1, <4>4, <4>5
        <3>5. \A r \in Periods, u \in Types :
                 content'[r][u].task = content[r][u].task
                 /\ content'[r][u].sync = content[r][u].sync
            BY <3>3, <3>4
        <3>6. TaskOwnedOnce' BY <3>5 DEF ContentsInv, TaskOwnedOnce
        <3>7. /\ UNCHANGED <<period, request>>
              /\ export' = NoExport
            BY <2>2 DEF WriteSheet
        <3>8. \A r \in Periods :
                 IF period'[r].project = NoProject THEN ~period'[r].active
                 ELSE \E u \in Types : content'[r][u].sync
            BY <3>5, <3>7 DEF ContentsInv
        <3>9. \A r \in Periods : content'[r] = [u \in Types |-> content'[r][u]]
            BY <3>3, <3>4 DEF ContentsInv
        <3> QED BY <3>3, <3>6, <3>7, <3>8, <3>9 DEF ContentsInv
    <2>3. CASE DropExport
        BY <2>3 DEF DropExport, ContentsInv, TaskOwnedOnce
    <2> QED BY <1>4, <2>1, <2>2, <2>3 DEF ExportStep
<1>5. CASE UNCHANGED vars BY <1>5, ContentsUnmoved DEF vars
<1> QED BY <1>1, <1>2, <1>3, <1>4, <1>5 DEF Next

LEMMA SpecContents == Spec => []ContentsInv
<1> QED BY ContentsInit, ContentsNext, PTL DEF Spec

\* Every active period has a content to synchronise, for any number of saves,
\* imports and changes of status (validate_activity_contents, upsert_contents).
THEOREM ActivePeriodsSync == Spec => []EveryPeriodSyncs
<1>1. ContentsInv => EveryPeriodSyncs BY DEF ContentsInv, EveryPeriodSyncs, InScope
<1> QED BY <1>1, SpecContents, PTL

\* A Xingtu task never belongs to two contents, in whatever order periods of
\* different projects are saved and imported (upsert_contents).
THEOREM TasksHaveOneOwner == Spec => []TaskOwnedOnce
<1>1. ContentsInv => TaskOwnedOnce BY DEF ContentsInv
<1> QED BY <1>1, SpecContents, PTL

\* The action that SavedIsBacked speaks of.
Backed ==
    \A k \in Actors, q \in Periods :
       request[k].kind = "period" /\ period'[q] # period[q] /\ request'[k] # request[k] =>
          /\ project[period'[q].project] = "active"
          /\ account[period'[q].account].active
          /\ account[period'[q].account].project = period'[q].project

\* When a period is committed its project and its account are active and
\* belong together (save_project_period): the checks made under the lock of
\* the project hold to the end, for any number of concurrent requests.
THEOREM SavedPeriodsAreBacked == Spec => SavedIsBacked
<1>1. IInv /\ ContentsInv /\ [Next]_vars => Backed
    <2> SUFFICES ASSUME IInv, ContentsInv, [Next]_vars, NEW k \in Actors, NEW q \in Periods,
                        request[k].kind = "period", period'[q] # period[q],
                        request'[k] # request[k]
                 PROVE  /\ project[period'[q].project] = "active"
                        /\ account[period'[q].account].active
                        /\ account[period'[q].account].project = period'[q].project
        BY DEF Backed
    <2>1. PICK r \in Periods : CommitPeriod(k, r) BY CommitsPeriod DEF IInv
    <2>2. PICK on : period' = [period EXCEPT ![r] = [project |-> request[k].project,
                                  account |-> request[k].account, active |-> on]]
        BY <2>1 DEF CommitPeriod
    <2>3. period'[q].project = request[k].project /\ period'[q].account = request[k].account
        BY <2>2 DEF ContentsInv
    <2>4. PeriodRequest(request[k]) BY DEF IInv, Requests
    <2> QED BY <2>3, <2>4 DEF PeriodRequest
<1> QED BY <1>1, SpecIInv, SpecContents, PTL DEF Spec, SavedIsBacked, Backed

-----------------------------------------------------------------------------
(* Types and foreign keys *)

RequestOK(r) ==
    /\ r.kind = "project" => /\ r.project \in Projects
                             /\ r.status \in {"active", "disabled"}
    /\ r.kind \in {"period", "file"} => /\ r.active \in BOOLEAN
                                        /\ r.account \in AccountsOf(r.project)

ExportOK ==
    /\ export.task \in Tasks \cup {NoTask}
    /\ export = NoExport \/ period[export.period].project # NoProject

TypeInv ==
    /\ TypeOK
    /\ \A k \in Actors : RequestOK(request[k])
    /\ ExportOK

\* An account stays in its project.
LEMMA AccountsStay ==
    ASSUME IInv, [Next]_vars, NEW a \in Accounts, account[a].project \in Projects
    PROVE  account'[a].project = account[a].project
<1>1. CASE account' = account BY <1>1
<1>2. CASE \E k \in Actors : CommitAccount(k)
    <2>1. PICK k \in Actors : CommitAccount(k) BY <1>2
    <2> DEFINE r == request[k]
    <2>2. AccountRequest(r) BY <2>1 DEF IInv, Requests, CommitAccount
    <2>3. r.row.project = r.project /\ r.old \in {NoProject, r.project}
        BY <2>2 DEF AccountRequest
    <2>4. account[r.account].project = r.old BY <2>1 DEF CommitAccount
    <2>5. account'[a] = IF a = r.account THEN r.row
                        ELSE IF r.clear /\ account[a].project = r.project
                          THEN [project |-> r.project, active |-> account[a].active,
                                default |-> FALSE]
                        ELSE account[a]
        BY <2>1 DEF CommitAccount
    <2> HIDE DEF r
    <2>6. CASE a = r.account BY <2>3, <2>4, <2>5, <2>6
    <2>7. CASE a # r.account /\ r.clear /\ account[a].project = r.project
        BY <2>5, <2>7
    <2>8. CASE a # r.account /\ ~(r.clear /\ account[a].project = r.project)
        BY <2>5, <2>8
    <2> QED BY <2>6, <2>7, <2>8
<1>3. account' = account \/ \E k \in Actors : CommitAccount(k)
    BY DEF Next, ProjectStep, AccountStep, PeriodStep, ExportStep, vars, CreateProject,
           BeginUpdateProject, CommitProject, AbortRequest, BeginCreateAccount,
           BeginUpdateAccount, BeginSavePeriod, BeginImportFile, CommitPeriod, UpdateStatus,
           ListExport, WriteSheet, DropExport
<1> QED BY <1>1, <1>2, <1>3

\* What has been checked of a request stays true until it ends.
LEMMA RequestStays ==
    ASSUME IInv, ContentsInv, [Next]_vars, NEW k \in Actors, RequestOK(request[k]),
           request'[k] = request[k]
    PROVE  RequestOK(request[k])'
<1>1. CASE request[k].kind \notin {"period", "file"} BY <1>1 DEF RequestOK
<1>2. CASE request[k].kind \in {"period", "file"}
    <2>1. request[k].project \in Projects BY <1>2 DEF ContentsInv
    <2>2. request[k].account \in Accounts /\ account[request[k].account].project = request[k].project
        BY <1>2 DEF RequestOK, AccountsOf
    <2>3. account'[request[k].account].project = request[k].project BY <2>1, <2>2, AccountsStay
    <2> QED BY <1>2, <2>2, <2>3 DEF RequestOK, AccountsOf
<1> QED BY <1>1, <1>2

\* What a step may make of a request.
LEMMA RequestsOK ==
    ASSUME IInv, ContentsInv, TypeInv, [Next]_vars
    PROVE  \A k \in Actors : RequestOK(request[k])'
<1> SUFFICES ASSUME NEW j \in Actors, request'[j] # request[j] PROVE RequestOK(request[j])'
    BY RequestStays DEF TypeInv
<1>r. request = [k \in Actors |-> request[k]] BY DEF IInv, Rows
<1>1. CASE request'[j].kind \in {"idle", "account"} BY <1>1 DEF RequestOK
<1>2. ASSUME NEW k \in Actors, NEW p \in Projects, NEW status \in {"active", "disabled"},
             BeginUpdateProject(k, p, status)
      PROVE  RequestOK(request[j])'
    <2>1. request'[j] = [kind |-> "project", project |-> p, status |-> status]
        BY <1>2, <1>r DEF BeginUpdateProject
    <2> QED BY <2>1 DEF RequestOK
<1>3. ASSUME NEW k \in Actors, NEW p \in Projects, NEW q \in Periods \cup {NoPeriod},
             NEW a \in Accounts, NEW named \in BOOLEAN, NEW active \in BOOLEAN,
             NEW b \in Submissions, BeginSavePeriod(k, p, q, a, named, active, b)
      PROVE  RequestOK(request[j])'
    <2>1. request'[j] = [kind |-> "period", project |-> p, period |-> q, account |-> a,
                         active |-> active, body |-> b]
        BY <1>3, <1>r DEF BeginSavePeriod
    <2>2. a \in AccountsOf(p) /\ account' = account BY <1>3 DEF BeginSavePeriod, ResolveAccount
    <2> QED BY <2>1, <2>2 DEF RequestOK, AccountsOf
<1>4. ASSUME NEW k \in Actors, NEW p \in Projects, NEW a \in Accounts,
             NEW named \in BOOLEAN, NEW b \in Submissions, BeginImportFile(k, p, a, named, b)
      PROVE  RequestOK(request[j])'
    <2>1. request'[j] = [kind |-> "file", project |-> p, period |-> NoPeriod, account |-> a,
                         active |-> TRUE, body |-> b]
        BY <1>4, <1>r DEF BeginImportFile
    <2>2. a \in AccountsOf(p) /\ account' = account BY <1>4 DEF BeginImportFile, ResolveAccount
    <2> QED BY <2>1, <2>2 DEF RequestOK, AccountsOf
<1>5. ASSUME NEW k \in Actors, CommitProject(k) \/ AbortRequest(k) \/ CommitAccount(k)
                               \/ \E q \in Periods : CommitPeriod(k, q)
      PROVE  request'[j].kind = "idle"
    BY <1>5, <1>r DEF CommitProject, AbortRequest, CommitAccount, CommitPeriod, NoRequest
<1>6. ASSUME NEW k \in Actors, NEW p, NEW old, NEW a, NEW active, NEW d, NEW clear,
             Write(k, p, old, a, active, d, clear)
      PROVE  request'[j].kind = "account"
    BY <1>6, <1>r DEF Write
<1>7. CASE ProjectStep
    BY <1>1, <1>2, <1>5, <1>7 DEF ProjectStep, CreateProject
<1>8. CASE AccountStep
    BY <1>1, <1>5, <1>6, <1>8 DEF AccountStep, BeginCreateAccount, BeginUpdateAccount
<1>9. CASE PeriodStep
    BY <1>1, <1>3, <1>4, <1>5, <1>9 DEF PeriodStep, UpdateStatus
<1>10. CASE ExportStep \/ UNCHANGED vars
    BY <1>10 DEF ExportStep, ListExport, WriteSheet, DropExport, vars
<1> QED BY <1>7, <1>8, <1>9, <1>10 DEF Next

Backing(q) ==
    IF period[q].project = NoProject
      THEN content[q] = [t \in Types |-> NoContent]
      ELSE period[q].account \in AccountsOf(period[q].project)

\* A period that a step leaves alone keeps its account in its project.
LEMMA BackingStays ==
    ASSUME IInv, TypeOK, [Next]_vars, NEW q \in Periods,
           period'[q] = period[q], content'[q] = content[q]
    PROVE  Backing(q)'
<1>1. CASE period[q].project = NoProject BY <1>1 DEF TypeOK, Backing
<1>2. CASE period[q].project # NoProject
    <2>1. period[q].project \in Projects BY <1>2 DEF TypeOK, PeriodRows
    <2>2. /\ period[q].account \in Accounts
          /\ account[period[q].account].project = period[q].project
        BY <1>2 DEF TypeOK, AccountsOf
    <2>3. account'[period[q].account].project = period[q].project BY <2>1, <2>2, AccountsStay
    <2> QED BY <1>2, <2>2, <2>3 DEF Backing, AccountsOf
<1> QED BY <1>1, <1>2

\* Steps that touch neither periods nor contents.
LEMMA TypesUnmoved ==
    ASSUME IInv, ContentsInv, TypeInv, [Next]_vars, UNCHANGED <<period, content>>,
           project' \in [Projects -> {"none", "active", "disabled"}],
           edits' \in Int, edits' <= MaxEdits, ExportOK'
    PROVE  TypeInv'
<1>1. account' \in [Accounts -> AccountRows] BY NextIInv DEF IInv, Rows
<1>2. \A q \in Periods : Backing(q)' BY BackingStays DEF TypeInv
<1>3. /\ period' \in [Periods -> PeriodRows]
      /\ content' \in [Periods -> [Types -> ContentRows]]
    BY DEF TypeInv, TypeOK
<1>4. TypeOK' BY <1>1, <1>2, <1>3 DEF TypeOK, Backing
<1> QED BY <1>4, RequestsOK DEF TypeInv

\* The rows that upsert_contents writes.
LEMMA UpsertedTyped ==
    ASSUME NEW rows \in [Types -> ContentRows], NEW b \in Submissions
    PROVE  Upserted(rows, b) \in [Types -> ContentRows]
<1>1. ASSUME NEW t \in Types PROVE Upserted(rows, b)[t] \in ContentRows
    <2>1. CASE \E i \in DOMAIN b : b[i].type = t
        <3>1. PICK i \in DOMAIN b : b[i].type = t BY <2>1
        <3>2. Index(b, t) = i /\ b[i] \in Item BY <3>1, SubmissionShape
        <3>3. Upserted(rows, b)[t] = [task |-> b[i].task, sync |-> b[i].sync,
                                      sheet |-> rows[t].sheet]
            BY <3>1, <3>2 DEF Upserted
        <3> QED BY <3>2, <3>3 DEF Item, ContentRows
    <2>2. CASE \A i \in DOMAIN b : b[i].type # t
        <3>1. Upserted(rows, b)[t] =
                 [task |-> rows[t].task, sheet |-> rows[t].sheet,
                  sync |-> rows[t].sync /\ rows[t].task \in Submitted(b)]
            BY <2>2 DEF Upserted
        <3>2. rows[t].task \in Tasks \cup {NoTask} /\ rows[t].sheet \in Tasks \cup {NoTask}
              /\ rows[t].sync \in BOOLEAN
            BY DEF ContentRows
        <3>3. (rows[t].sync /\ rows[t].task \in Submitted(b)) \in BOOLEAN OBVIOUS
        <3> QED BY <3>1, <3>2, <3>3 DEF ContentRows
    <2> QED BY <2>1, <2>2
<1>2. Upserted(rows, b) = [t \in Types |-> Upserted(rows, b)[t]] BY UpsertedRows
<1> QED BY <1>1, <1>2

\* The commit of a period.
LEMMA CommitPeriodTyped ==
    ASSUME IInv, ContentsInv, TypeInv, NEW k \in Actors, NEW q \in Periods, CommitPeriod(k, q),
           [Next]_vars
    PROVE  TypeInv'
<1> DEFINE r == request[k]
<1>1. /\ r.kind \in {"period", "file"} /\ r.body \in Submissions /\ r.project \in Projects
      /\ r.active \in BOOLEAN /\ r.account \in AccountsOf(r.project)
    BY DEF CommitPeriod, ContentsInv, TypeInv, RequestOK
<1>2. period[q].active \in BOOLEAN BY DEF TypeInv, TypeOK, PeriodRows
<1>3. PICK on \in BOOLEAN :
         period' = [period EXCEPT ![q] = [project |-> r.project, account |-> r.account,
                                          active |-> on]]
    BY <1>1, <1>2 DEF CommitPeriod
<1>4. content' = [content EXCEPT ![q] = Upserted(content[q], r.body)]
      /\ UNCHANGED <<project, account, export, edits>>
    BY DEF CommitPeriod
<1> HIDE DEF r
<1>5. Upserted(content[q], r.body) \in [Types -> ContentRows]
    BY <1>1, UpsertedTyped DEF TypeInv, TypeOK
<1>6. content' \in [Periods -> [Types -> ContentRows]] BY <1>4, <1>5 DEF TypeInv, TypeOK
<1>7. [project |-> r.project, account |-> r.account, active |-> on] \in PeriodRows
    BY <1>1 DEF PeriodRows, AccountsOf
<1>8. period' \in [Periods -> PeriodRows] BY <1>3, <1>7 DEF TypeInv, TypeOK
<1>9. ASSUME NEW s \in Periods PROVE Backing(s)'
    <2>1. CASE s = q
        <3>1. period'[q].project = r.project /\ period'[q].account = r.account
            BY <1>3 DEF TypeInv, TypeOK
        <3>3. r.account \in Accounts /\ account'[r.account].project = r.project
            BY <1>1, <1>4 DEF AccountsOf
        <3> QED BY <1>1, <2>1, <3>1, <3>3 DEF Backing, AccountsOf
    <2>2. CASE s # q
        <3>1. period'[s] = period[s] /\ content'[s] = content[s]
            BY <1>3, <1>4, <2>2 DEF TypeInv, TypeOK
        <3> QED BY <3>1, BackingStays DEF TypeInv
    <2> QED BY <2>1, <2>2
<1>10. TypeOK' BY <1>4, <1>6, <1>8, <1>9 DEF TypeInv, TypeOK, Backing
<1>11. ExportOK' BY <1>1, <1>3, <1>4 DEF TypeInv, TypeOK, ExportOK, ContentsInv
<1> QED BY <1>4, <1>10, <1>11, RequestsOK DEF TypeInv

LEMMA TypeInit == Init => TypeInv
<1> SUFFICES ASSUME Init PROVE TypeInv
    OBVIOUS
<1>1. account \in [Accounts -> AccountRows] BY InitIInv DEF IInv, Rows
<1>2. period \in [Periods -> PeriodRows] BY DEF Init, PeriodRows
<1>3. content \in [Periods -> [Types -> ContentRows]] BY DEF Init, NoContent, ContentRows
<1>4. project \in [Projects -> {"none", "active", "disabled"}] BY DEF Init
<1>5. \A q \in Periods : Backing(q) BY DEF Init, Backing
<1>6. edits \in Int /\ edits <= MaxEdits BY SetupAssumption DEF Init
<1>7. TypeOK BY <1>1, <1>2, <1>3, <1>4, <1>5, <1>6 DEF TypeOK, Backing
<1>8. \A k \in Actors : RequestOK(request[k]) BY DEF Init, NoRequest, RequestOK
<1>9. ExportOK BY DEF Init, NoExport, ExportOK
<1> QED BY <1>7, <1>8, <1>9 DEF TypeInv

LEMMA TypeNext == IInv /\ ContentsInv /\ TypeInv /\ [Next]_vars => TypeInv'
<1> SUFFICES ASSUME IInv, ContentsInv, TypeInv, [Next]_vars PROVE TypeInv'
    OBVIOUS
<1>t. /\ project \in [Projects -> {"none", "active", "disabled"}]
      /\ edits \in Int /\ edits <= MaxEdits /\ MaxEdits \in Nat
      /\ ExportOK
    BY SetupAssumption DEF TypeInv, TypeOK
<1>1. CASE ProjectStep
    <2>1. UNCHANGED <<period, content, export>> /\ edits' \in Int /\ edits' <= MaxEdits
        BY <1>1, <1>t DEF ProjectStep, CreateProject, BeginUpdateProject, CommitProject,
                          AbortRequest, Edit
    <2>2. ASSUME NEW k \in Actors, CommitProject(k) PROVE request[k].status \in {"active", "disabled"}
        BY <2>2 DEF CommitProject, TypeInv, RequestOK
    <2>3. project' \in [Projects -> {"none", "active", "disabled"}]
        BY <1>1, <1>t, <2>2 DEF ProjectStep, CreateProject, BeginUpdateProject, CommitProject,
                               AbortRequest
    <2>4. ExportOK' BY <1>t, <2>1 DEF ExportOK
    <2> QED BY <1>t, <2>1, <2>3, <2>4, TypesUnmoved
<1>2. CASE AccountStep
    <2>1. UNCHANGED <<project, period, content, export>> /\ edits' \in Int /\ edits' <= MaxEdits
        BY <1>2, <1>t DEF AccountStep, BeginCreateAccount, BeginUpdateAccount, CommitAccount, Edit
    <2>2. ExportOK' BY <1>t, <2>1 DEF ExportOK
    <2> QED BY <1>t, <2>1, <2>2, TypesUnmoved
<1>3. CASE PeriodStep
    <2>1. ASSUME NEW k \in Actors, NEW q \in Periods, CommitPeriod(k, q) PROVE TypeInv'
        BY <2>1, CommitPeriodTyped
    <2>2. ASSUME NEW q \in Periods, NEW active \in BOOLEAN, UpdateStatus(q, active)
          PROVE  TypeInv'
        <3>1. /\ period' = [period EXCEPT ![q] = [project |-> period[q].project,
                              account |-> period[q].account, active |-> active]]
              /\ UNCHANGED <<project, account, content, export>>
              /\ edits' \in Int /\ edits' <= MaxEdits
              /\ period[q].project # NoProject
            BY <1>t, <2>2 DEF UpdateStatus, Edit
        <3>2. period[q] \in PeriodRows BY DEF TypeInv, TypeOK
        <3>3. [project |-> period[q].project, account |-> period[q].account,
               active |-> active] \in PeriodRows
            BY <3>2 DEF PeriodRows
        <3>4. period' \in [Periods -> PeriodRows] BY <3>1, <3>3 DEF TypeInv, TypeOK
        <3>5. ASSUME NEW s \in Periods PROVE Backing(s)'
            <4>1. CASE s # q
                <5>1. period'[s] = period[s] BY <3>1, <4>1 DEF TypeInv, TypeOK
                <5> QED BY <3>1, <5>1, BackingStays DEF TypeInv
            <4>2. CASE s = q
                <5>1. period'[q].project = period[q].project
                      /\ period'[q].account = period[q].account
                    BY <3>1 DEF TypeInv, TypeOK
                <5>2. period[q].account \in AccountsOf(period[q].project)
                    BY <3>1 DEF TypeInv, TypeOK
                <5> QED BY <3>1, <4>2, <5>1, <5>2 DEF Backing, AccountsOf
            <4> QED BY <4>1, <4>2
        <3>6. TypeOK' BY <1>t, <3>1, <3>4, <3>5 DEF TypeInv, TypeOK, Backing
        <3>7. period'[q].project # NoProject /\ (\A s \in Periods : s # q => period'[s] = period[s])
            BY <3>1, <3>2 DEF TypeInv, TypeOK
        <3>8. ExportOK' BY <1>t, <3>1, <3>7 DEF ExportOK, ContentsInv
        <3> QED BY <1>t, <3>1, <3>6, <3>8, RequestsOK DEF TypeInv
    <2>3. ASSUME UNCHANGED <<project, period, content, export>>, edits' = edits + 1,
                 edits < MaxEdits
          PROVE  TypeInv'
        <3>1. ExportOK' BY <1>t, <2>3 DEF ExportOK
        <3>2. edits' \in Int /\ edits' <= MaxEdits BY <1>t, <2>3
        <3> QED BY <1>t, <2>3, <3>1, <3>2, TypesUnmoved
    <2> QED BY <1>3, <2>1, <2>2, <2>3 DEF PeriodStep, BeginSavePeriod, BeginImportFile, Edit
<1>4. CASE ExportStep
    <2>1. ASSUME NEW q \in Periods, NEW t \in Types, ListExport(q, t) PROVE TypeInv'
        <3>1. content[q][t].task \in Tasks \cup {NoTask} BY DEF TypeInv, TypeOK, ContentRows
        <3>2. /\ UNCHANGED <<project, period, content>> /\ export'.task = content[q][t].task
              /\ edits' \in Int /\ edits' <= MaxEdits
            BY <1>t, <2>1 DEF ListExport, Edit
        <3>3. export'.period = q BY <2>1 DEF ListExport
        <3>4. period[q].project # NoProject BY <2>1 DEF ListExport, ContentsInv
        <3>5. ExportOK' BY <3>1, <3>2, <3>3, <3>4 DEF ExportOK
        <3> QED BY <1>t, <3>2, <3>5, TypesUnmoved
    <2>2. CASE WriteSheet
        <3> DEFINE q == export.period
                   t == export.type
                   row == [task |-> content[q][t].task, sync |-> content[q][t].sync,
                           sheet |-> export.task]
        <3>1. /\ content' = [content EXCEPT ![q][t] = row]
              /\ UNCHANGED <<project, account, period, edits>>
              /\ export' = NoExport /\ export # NoExport
            BY <2>2 DEF WriteSheet
        <3>2. q \in Periods /\ t \in Types BY <3>1 DEF ContentsInv
        <3>3. content[q][t] \in ContentRows BY <3>2 DEF TypeInv, TypeOK
        <3>4. row \in ContentRows BY <1>t, <3>3 DEF ContentRows, ExportOK
        <3>p. period[q].project # NoProject BY <1>t, <3>1 DEF ExportOK
        <3> HIDE DEF q, t, row
        <3>5. content' \in [Periods -> [Types -> ContentRows]]
            BY <3>1, <3>2, <3>4 DEF TypeInv, TypeOK
        <3>6. ASSUME NEW s \in Periods PROVE Backing(s)'
            <4>1. CASE s # q
                <5>1. content'[s] = content[s] BY <3>1, <4>1 DEF TypeInv, TypeOK
                <5> QED BY <3>1, <5>1, BackingStays DEF TypeInv
            <4>2. CASE s = q
                <5>1. period[q].account \in AccountsOf(period[q].project)
                    BY <3>2, <3>p DEF TypeInv, TypeOK
                <5> QED BY <3>1, <3>p, <4>2, <5>1 DEF Backing, AccountsOf
            <4> QED BY <4>1, <4>2
        <3>7. TypeOK' BY <1>t, <3>1, <3>5, <3>6 DEF TypeInv, TypeOK, Backing
        <3>8. ExportOK' BY <3>1 DEF ExportOK, NoExport
        <3> QED BY <3>7, <3>8, RequestsOK DEF TypeInv
    <2>3. CASE DropExport
        <3>1. /\ UNCHANGED <<project, period, content>> /\ export' = NoExport
              /\ edits' \in Int /\ edits' <= MaxEdits
            BY <1>t, <2>3 DEF DropExport
        <3>2. ExportOK' BY <3>1 DEF ExportOK, NoExport
        <3> QED BY <1>t, <3>1, <3>2, TypesUnmoved
    <2> QED BY <1>4, <2>1, <2>2, <2>3 DEF ExportStep
<1>5. CASE UNCHANGED vars
    <2>1. UNCHANGED <<project, period, content, export, edits>> BY <1>5 DEF vars
    <2>2. ExportOK' BY <1>t, <2>1 DEF ExportOK
    <2> QED BY <1>t, <2>1, <2>2, TypesUnmoved
<1> QED BY <1>1, <1>2, <1>3, <1>4, <1>5 DEF Next

\* The rows keep their types and foreign keys, for every number of requests: a
\* period has an account of its own project, and a project keeps its accounts.
THEOREM TypeCorrect == Spec => []TypeOK
<1>1. TypeInv => TypeOK BY DEF TypeInv
<1> QED BY <1>1, TypeInit, TypeNext, SpecIInv, SpecContents, PTL DEF Spec
=============================================================================
