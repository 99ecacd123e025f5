------------------------- MODULE NotificationGuard -------------------------
(***************************************************************************)
(* The guard that keeps several instances from sending one notification    *)
(* twice (claim_notification and its companions in                         *)
(* src/src/workflow_run.rs, and their callers send_error_notice,           *)
(* run_audit_notice_from_db and check_single_login in                      *)
(* src/src/workflow.rs).                                                   *)
(*                                                                         *)
(* One key (category, scope_key): the row of one account or one project.   *)
(* A sender is a task that found something to report under that key; what  *)
(* it reports is the payload.  Time is relative: reserve and cool count    *)
(* down to reserved_until and to the end of the cooldown.  A last_sent_at  *)
(* that is NULL and one that is older than the cooldown say the same in    *)
(* every statement, so cool = 0 stands for both.                           *)
(***************************************************************************)
EXTENDS Naturals

CONSTANTS
    Senders,   \* tasks that report under the key, in any instance
    Payloads,  \* what they may report (payload_hash)
    Cooldown,  \* 12 h or 1 h, in ticks
    Reserve,   \* interval '5 minutes'
    SendTime   \* time within which a sender should mark or release

ASSUME GuardConstants ==
    /\ Cooldown \in Nat /\ Reserve \in Nat /\ SendTime \in Nat
    /\ SendTime < Reserve

VARIABLES
    exists,   \* there is a row of notification_delivery_guard
    hash,     \* its payload_hash
    reserve,  \* reserved_until - now()
    cool,     \* last_sent_at + cooldown - now()
    pc,       \* where each sender is
    pay,      \* what it reports
    age,      \* time since its claim
    ago,      \* time since a payload was delivered; see Long
    mishaps   \* what happened so far that the guard does not allow for

row    == <<exists, hash, reserve, cool>>
sender == <<pc, pay, age>>
past   == <<ago, mishaps>>
vars   == <<row, sender, past>>

\* Long ago, or another payload was claimed or the key cleared since.
Long == Cooldown + SendTime + 1

InFlight == {"sending", "sent", "failed"}

\* A sender took longer than SendTime; a crash, a failing statement or a lost
\* answer; a clear while a sender was in flight.
Mishaps == {"late", "lost", "cleared"}

TypeOK ==
    /\ exists \in BOOLEAN /\ hash \in Payloads
    /\ reserve \in 0 .. Reserve /\ cool \in 0 .. Cooldown
    /\ pc \in [Senders -> InFlight \cup {"idle"}]
    /\ pay \in [Senders -> Payloads]
    /\ age \in [Senders -> 0 .. Reserve]
    /\ ago \in [Payloads -> 0 .. Long]
    /\ mishaps \subseteq Mishaps

Init ==
    /\ exists = FALSE /\ hash \in Payloads /\ reserve = 0 /\ cool = 0
    /\ pc = [x \in Senders |-> "idle"]
    /\ pay \in [Senders -> Payloads]
    /\ age = [x \in Senders |-> 0]
    /\ ago = [d \in Payloads |-> Long]
    /\ mishaps = {}

Goes(x, place) ==
    /\ pc' = [pc EXCEPT ![x] = place]
    /\ UNCHANGED <<pay, age>>

\* Mutant: a reservation that still runs is not respected.
FreeAlways(d) == ~exists \/ hash # d \/ cool = 0

\* Mutant: the end of the cooldown is not compared.
FreeNewOnly(d) == ~exists \/ (reserve = 0 /\ hash # d)

\* No row, or the WHERE of the upsert.
Free(d) == ~exists \/ (reserve = 0 /\ (hash # d \/ cool = 0))

\* claim_notification answers true: a new payload forgets last_sent_at, the
\* old one was out of its cooldown.
Claim(x, d) ==
    /\ pc[x] = "idle" /\ Free(d)
    /\ exists' = TRUE /\ hash' = d /\ reserve' = Reserve /\ cool' = 0
    /\ pc' = [pc EXCEPT ![x] = "sending"]
    /\ pay' = [pay EXCEPT ![x] = d]
    /\ age' = [age EXCEPT ![x] = 0]
    /\ ago' = [e \in Payloads |-> IF e = d THEN ago[e] ELSE Long]
    /\ UNCHANGED mishaps

\* ... or false: the sender skips, and nothing changes.
Skip(x, d) == pc[x] = "idle" /\ ~Free(d) /\ UNCHANGED vars

\* The client of the project cannot be built: the claim is left behind.
GiveUp(x) == pc[x] = "sending" /\ Goes(x, "idle") /\ UNCHANGED <<row, past>>

Deliver(x) ==
    /\ pc[x] = "sending"
    /\ Goes(x, "sent")
    /\ ago' = [ago EXCEPT ![pay[x]] = 0]
    /\ UNCHANGED <<row, mishaps>>

\* The answer is an error; the message may have been delivered all the same.
SendFails(x) ==
    /\ pc[x] = "sending"
    /\ Goes(x, "failed")
    /\ \/ UNCHANGED past
       \/ /\ ago' = [ago EXCEPT ![pay[x]] = 0]
          /\ mishaps' = mishaps \cup {"lost"}
    /\ UNCHANGED row

\* mark_notification_sent, whoever holds the reservation by now.
MarkSent(x) ==
    /\ pc[x] = "sent" /\ Goes(x, "idle")
    /\ reserve' = 0
    /\ cool' = IF exists THEN Cooldown ELSE 0
    /\ UNCHANGED <<exists, hash, past>>

\* Mutant: a send that failed is marked like one that succeeded.
ReleaseMarks(x) ==
    /\ pc[x] = "failed" /\ Goes(x, "idle")
    /\ reserve' = 0
    /\ cool' = IF exists THEN Cooldown ELSE 0
    /\ UNCHANGED <<exists, hash, past>>

\* release_notification, whoever holds the reservation by now.
Release(x) ==
    /\ pc[x] = "failed" /\ Goes(x, "idle")
    /\ reserve' = 0
    /\ UNCHANGED <<exists, hash, cool, past>>

\* A crash, or the statement of MarkSent or Release fails and is logged.
Lose(x) ==
    /\ pc[x] \in InFlight
    /\ Goes(x, "idle")
    /\ mishaps' = mishaps \cup {"lost"}
    /\ UNCHANGED <<row, ago>>

\* clear_notification: a check found the login valid.
Clear ==
    /\ exists
    /\ exists' = FALSE /\ reserve' = 0 /\ cool' = 0
    /\ ago' = [d \in Payloads |-> Long]
    /\ mishaps' = mishaps \cup {m \in {"cleared"} : \E x \in Senders : pc[x] \in InFlight}
    /\ UNCHANGED <<hash, sender>>

Down(n) == IF n > 0 THEN n - 1 ELSE 0

Tick ==
    /\ reserve' = Down(reserve) /\ cool' = Down(cool)
    /\ age' = [x \in Senders |->
                  IF pc[x] \in InFlight /\ age[x] < Reserve THEN age[x] + 1 ELSE age[x]]
    /\ ago' = [d \in Payloads |-> IF ago[d] < Long THEN ago[d] + 1 ELSE Long]
    /\ mishaps' = mishaps \cup
          {m \in {"late"} : \E x \in Senders : pc[x] \in InFlight /\ age[x] >= SendTime}
    /\ UNCHANGED <<exists, hash, pc, pay>>

Next ==
    \/ \E x \in Senders, d \in Payloads : Claim(x, d) \/ Skip(x, d)
    \/ \E x \in Senders :
          \/ GiveUp(x) \/ Deliver(x) \/ SendFails(x)
          \/ MarkSent(x) \/ Release(x) \/ Lose(x)
    \/ Clear
    \/ Tick

Spec == Init /\ [][Next]_vars

FairSpec == Spec /\ WF_vars(Tick)

-----------------------------------------------------------------------------
(* Properties. *)

\* The reservation is a lease: of all instances one sender at most is between
\* its claim and its mark or release, through crashes and lost answers.
OneSender ==
    mishaps \subseteq {"lost"} =>
        \A x, y \in Senders : pc[x] \in InFlight /\ pc[y] \in InFlight => x = y

\* Somebody is about to send what was delivered within the cooldown, with no
\* other payload and no clear in between.
Repeats == \E x \in Senders : pc[x] = "sending" /\ ago[pay[x]] < Cooldown

\* Without a mishap no notification is repeated, whichever instances send.
NoRepeat == mishaps = {} => ~Repeats

\* What the cooldown suppresses was really delivered, and not long ago: a mark
\* never silences a payload that nobody received.
SilenceIsEarned ==
    mishaps \subseteq {"lost"} /\ exists /\ cool > 0 =>
        ago[hash] <= Cooldown + SendTime

\* The guard is neither too open nor too tight: nothing is sent twice within
\* the cooldown, and nothing is held back that was not delivered, although mark
\* and release name the key and not the claim they belong to.
DeliveredOnce == NoRepeat /\ SilenceIsEarned

\* No payload is suppressed for ever, whatever senders do: a claim that was
\* left behind, a mark for another payload and a cooldown all come to an end.
NeverMuted == \A d \in Payloads : []<>Free(d)
=============================================================================
