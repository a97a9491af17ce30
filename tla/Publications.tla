---------------------------- MODULE Publications ----------------------------
(***************************************************************************)
(* Closed-loop publication to one endpoint                                 *)
(* (packages/persistence/src/publication-repository.ts,                    *)
(* publication-command-service.ts, packages/kernel/src/                    *)
(* publication-factories.ts): transactions of activities, the attempts to  *)
(* transport an activity, the acknowledgements and business results that   *)
(* come back, and the status of the transaction that is derived from them. *)
(*                                                                         *)
(* A transaction is named by its idempotency key, which is unique.  Two    *)
(* commands read through the pool before their transaction: addActivity    *)
(* the status of the publication transaction, startAttempt the number of   *)
(* the attempt; a caller holds what it has read in local[c].               *)
(***************************************************************************)
EXTENDS Naturals, Sequences

CONSTANTS
  Transactions,
  Activities,
  Subjects,      \* canonical objects that are published
  Callers,       \* requests that may overlap
  MaxAttempts    \* bound: attempts of an activity

VARIABLES
  transaction,   \* status of each; "NONE" before it is created
  original,      \* the transactions one resubmits: at most one
  activity,      \* [in, subject, status]; status "NONE" before it is added
  attempts,      \* of each activity, in the order of their numbers
  result,        \* business outcome of an activity, or "none"
  local,         \* what a caller has read
  stranded       \* history: activities added after their transaction completed

vars == <<transaction, original, activity, attempts, result, local, stranded>>

Idle == [for |-> "nothing"]
Active == {"IN_PROGRESS", "AWAITING_RESULTS"}
Completed == {"SUCCEEDED", "PARTIALLY_SUCCEEDED", "FAILED"}
Terminal == {"APPLIED", "WARNING", "BUSINESS_REJECTED", "BUSINESS_FAILED"}
InFlight == {"SENDING", "AWAITING_ACKNOWLEDGEMENT", "ACKNOWLEDGED"}
Ended == {"DELIVERED", "FAILED", "TIMED_OUT"}
Outcomes == {"APPLIED", "NO_CHANGE", "WARNING", "REJECTED", "FAILED"}

Added == {a \in Activities : activity[a].status # "NONE"}
ActivitiesOf(t) == {a \in Added : activity[a].in = t}

TypeOK ==
  /\ transaction \in [Transactions -> {"NONE", "QUEUED"} \cup Active \cup Completed]
  /\ original \in [Transactions -> SUBSET Transactions]
  /\ \A a \in Activities :
       /\ activity[a].status \in {"NONE", "PENDING", "TRANSPORT_FAILED"} \cup InFlight \cup Terminal
       /\ a \in Added => activity[a].in \in Transactions /\ activity[a].subject \in Subjects
  /\ attempts \in [Activities -> Seq({"STARTED", "SENT"} \cup Ended)]
  /\ result \in [Activities -> Outcomes \cup {"none"}]
  /\ \A c \in Callers : local[c].for \in {"nothing", "activity", "attempt"}
  /\ stranded \subseteq Added

Init ==
  /\ transaction = [t \in Transactions |-> "NONE"]
  /\ original = [t \in Transactions |-> {}]
  /\ activity = [a \in Activities |-> [status |-> "NONE"]]
  /\ attempts = [a \in Activities |-> <<>>]
  /\ result = [a \in Activities |-> "none"]
  /\ local = [c \in Callers |-> Idle]
  /\ stranded = {}

-----------------------------------------------------------------------------
\* Transactions and activities.

\* A resubmission names a transaction that has failed, at least in part.
Resubmittable(S) == \A u \in S : transaction[u] \in {"FAILED", "PARTIALLY_SUCCEEDED"}

CreateTransaction(t, S) ==
  /\ transaction[t] = "NONE" /\ Resubmittable(S)
  /\ transaction' = [transaction EXCEPT ![t] = "QUEUED"]
  /\ original' = [original EXCEPT ![t] = S]
  /\ UNCHANGED <<activity, attempts, result, local, stranded>>

\* The checks of createPublicationActivity, on what the pool returned.
ReadTransaction(c, t) ==
  /\ local[c] = Idle /\ transaction[t] = "QUEUED"
  /\ local' = [local EXCEPT ![c] = [for |-> "activity", in |-> t]]
  /\ UNCHANGED <<transaction, original, activity, attempts, result, stranded>>

\* The unique active_guard_key: endpoint and subject of an unfinished activity.
Guarded(s) == \E a \in Added : activity[a].subject = s /\ activity[a].status \notin Terminal

\* The transaction of addActivity inserts without looking at the status again;
\* a duplicate guard makes it fail.
AddActivity(c, a, s) ==
  /\ local[c].for = "activity" /\ a \notin Added
  /\ IF Guarded(s)
     THEN UNCHANGED <<activity, stranded>>
     ELSE /\ activity' = [activity EXCEPT ![a] =
                            [in |-> local[c].in, subject |-> s, status |-> "PENDING"]]
          /\ stranded' = IF transaction[local[c].in] \in Completed
                         THEN stranded \cup {a} ELSE stranded
  /\ local' = [local EXCEPT ![c] = Idle]
  /\ UNCHANGED <<transaction, original, attempts, result>>

StartTransaction(t) ==
  /\ transaction[t] = "QUEUED" /\ ActivitiesOf(t) # {}
  /\ \A a \in ActivitiesOf(t) : activity[a].status = "PENDING"
  /\ transaction' = [transaction EXCEPT ![t] = "IN_PROGRESS"]
  /\ UNCHANGED <<original, activity, attempts, result, local, stranded>>

\* updatePublicationTransactionFromActivities, of the statuses after the step.
Derived(S) ==
  LET With(statuses) == {a \in S : activity'[a].status \in statuses}
      Rejected == With({"BUSINESS_REJECTED", "BUSINESS_FAILED"})
  IN CASE With(Terminal) # S /\ With(InFlight) # {} -> "AWAITING_RESULTS"
       [] With(Terminal) # S /\ With(InFlight) = {} -> "IN_PROGRESS"
       [] With({"APPLIED"}) = S -> "SUCCEEDED"
       [] Rejected = S -> "FAILED"
       [] OTHER -> "PARTIALLY_SUCCEEDED"

\* refreshTransactionState: throws, and the whole step with it, when the
\* transaction is not active.
Refresh(t) ==
  /\ transaction[t] \in Active
  /\ transaction' = [transaction EXCEPT ![t] = Derived(ActivitiesOf(t))]

Becomes(a, st) == activity' = [activity EXCEPT ![a].status = st]

-----------------------------------------------------------------------------
\* Attempts, acknowledgements and results.

\* startAttempt of the command service numbers the attempt after those it lists.
ReadAttempts(c, a) ==
  /\ local[c] = Idle /\ a \in Added
  /\ local' = [local EXCEPT ![c] =
                 [for |-> "attempt", at |-> a, number |-> Len(attempts[a]) + 1]]
  /\ UNCHANGED <<transaction, original, activity, attempts, result, stranded>>

\* createPublicationAttempt, on locked rows.
Attemptable(a, n) ==
  /\ transaction[activity[a].in] \in Active
  /\ activity[a].status \in {"PENDING", "TRANSPORT_FAILED"}
  /\ n = Len(attempts[a]) + 1
  /\ \A i \in 1..Len(attempts[a]) : attempts[a][i] \in Ended

StartAttempt(c) ==
  /\ local[c].for = "attempt"
  /\ LET a == local[c].at
     IN IF Attemptable(a, local[c].number) /\ Len(attempts[a]) < MaxAttempts
        THEN /\ attempts' = [attempts EXCEPT ![a] = Append(@, "STARTED")]
             /\ Becomes(a, "SENDING")
        ELSE UNCHANGED <<attempts, activity>>
  /\ local' = [local EXCEPT ![c] = Idle]
  /\ UNCHANGED <<transaction, original, result, stranded>>

\* An attempt n of activity a moves from one of the statuses From to To, the
\* activity follows and the transaction is derived again.
Move(a, n, From, To, st) ==
  /\ n \in 1..Len(attempts[a]) /\ attempts[a][n] \in From
  /\ attempts' = [attempts EXCEPT ![a][n] = To]
  /\ Becomes(a, st)
  /\ Refresh(activity[a].in)
  /\ UNCHANGED <<original, result, local, stranded>>

MarkAttemptSent(a, n) == Move(a, n, {"STARTED"}, "SENT", "AWAITING_ACKNOWLEDGEMENT")

\* Mutant: a time-out that comes late overtakes the acknowledgement.
FailAttemptAny(a, n) ==
  \E ended \in {"FAILED", "TIMED_OUT"} :
    Move(a, n, {"STARTED", "SENT", "DELIVERED"}, ended, "TRANSPORT_FAILED")

FailAttempt(a, n) ==
  \E ended \in {"FAILED", "TIMED_OUT"} :
    Move(a, n, {"STARTED", "SENT"}, ended, "TRANSPORT_FAILED")

RecordAcknowledgement(a, n) ==
  /\ activity[a].status = "AWAITING_ACKNOWLEDGEMENT"
  /\ \/ Move(a, n, {"SENT"}, "DELIVERED", "ACKNOWLEDGED")
     \/ Move(a, n, {"SENT"}, "FAILED", "TRANSPORT_FAILED")

\* applyPublicationResultToActivity.
StatusOf(outcome) ==
  CASE outcome \in {"APPLIED", "NO_CHANGE"} -> "APPLIED"
    [] outcome = "WARNING" -> "WARNING"
    [] outcome = "REJECTED" -> "BUSINESS_REJECTED"
    [] outcome = "FAILED" -> "BUSINESS_FAILED"

\* createPublicationResult: of an acknowledged activity, on the strength of the
\* acknowledgement of one of its attempts.
Resolvable(a, n) ==
  /\ activity[a].status = "ACKNOWLEDGED"
  /\ n \in 1..Len(attempts[a]) /\ attempts[a][n] = "DELIVERED"

RecordResult(a, n, outcome) ==
  /\ Resolvable(a, n) /\ result[a] = "none"
  /\ result' = [result EXCEPT ![a] = outcome]
  /\ Becomes(a, StatusOf(outcome))
  /\ Refresh(activity[a].in)
  /\ UNCHANGED <<original, attempts, local, stranded>>

Next ==
  \/ \E t \in Transactions : \E S \in {{}} \cup {{u} : u \in Transactions} : CreateTransaction(t, S)
  \/ \E c \in Callers, t \in Transactions : ReadTransaction(c, t)
  \/ \E c \in Callers, a \in Activities, s \in Subjects : AddActivity(c, a, s)
  \/ \E t \in Transactions : StartTransaction(t)
  \/ \E c \in Callers, a \in Activities : ReadAttempts(c, a)
  \/ \E c \in Callers : StartAttempt(c)
  \/ \E a \in Activities, n \in 1..MaxAttempts :
       \/ MarkAttemptSent(a, n) \/ FailAttempt(a, n) \/ RecordAcknowledgement(a, n)
       \/ \E outcome \in Outcomes : RecordResult(a, n, outcome)

Spec == Init /\ [][Next]_vars

-----------------------------------------------------------------------------
\* The three tables tell one story.  The last attempt of an activity, and the
\* result, say what its status is; earlier attempts have failed; an activity
\* has a result exactly when it is finished, never because its bytes arrived;
\* and one subject has one unfinished activity.  Every command updates two or
\* three of the rows, and callers, time-outs, acknowledgements and results come
\* in any order.
LoopClosed ==
  /\ \A a \in Added :
       LET n == Len(attempts[a])
       IN /\ \A i \in 1..n-1 : attempts[a][i] \in {"FAILED", "TIMED_OUT"}
          /\ n = 0 <=> activity[a].status = "PENDING"
          /\ n > 0 =>
               CASE attempts[a][n] = "STARTED" -> activity[a].status = "SENDING"
                 [] attempts[a][n] = "SENT" -> activity[a].status = "AWAITING_ACKNOWLEDGEMENT"
                 [] attempts[a][n] = "DELIVERED" -> activity[a].status \in Terminal \cup {"ACKNOWLEDGED"}
                 [] OTHER -> activity[a].status = "TRANSPORT_FAILED"
          /\ (result[a] # "none") <=> (activity[a].status \in Terminal)
  /\ \A a, b \in Added : (a # b /\ activity[a].subject = activity[b].subject)
                           => (result[a] # "none" \/ result[b] # "none")
=============================================================================
