------------------------ MODULE IdentityOutboxProofs ------------------------
(***************************************************************************)
(* Theorems about the identity challenges and their dispatcher, for any    *)
(* users, tenants, workers, batch size, attempts and crashes: what is      *)
(* settled stays settled, what may be sent has its link, two workers hold  *)
(* one message only when a claim grew old under one of them, and the       *)
(* challenges implement one-time links.                                    *)
(***************************************************************************)
EXTENDS IdentityOutbox, WellFoundedInduction, TLAPS

\* An outcome is of a message that the worker has; a batch is of issued ones.
Typed == TypeOK /\ \A w \in Workers : outcome[w] # "none" => batch[w] # {}

\* Less than, as a relation on the naturals.
LEMMA LessWellFounded == IsWellFoundedOn({ss \in Nat \X Nat : ss[1] < ss[2]}, Nat)
BY NatLessThanWellFounded DEF OpToRel

\* A set of naturals has a least element.
LEMMA LeastElement ==
  ASSUME NEW S \in SUBSET Nat, S # {}
  PROVE  \E c \in S : \A d \in S : c <= d
<1> DEFINE R == {ss \in Nat \X Nat : ss[1] < ss[2]}
<1>1. IsWellFoundedOn(R, Nat)
  BY LessWellFounded
<1>2. \A c, d \in Nat : d < c => <<d, c>> \in R
  OBVIOUS
<1> HIDE DEF R
<1>3. PICK c \in S : \A d \in S : <<d, c>> \notin R
  BY <1>1, WFMin
<1>4. \A d \in S : ~(d < c)
  BY <1>2, <1>3
<1> QED
  BY <1>3, <1>4

\* The head of a batch is one of its messages.
LEMMA CurrentInBatch ==
  ASSUME TypeOK, NEW w \in Workers, batch[w] # {}
  PROVE  Current(w) \in batch[w] /\ Current(w) \in 1..issued
<1>1. batch[w] \subseteq 1..issued
  BY DEF TypeOK
<1>2. issued \in Nat
  BY OutboxAssumption DEF TypeOK
<1>3. batch[w] \subseteq Nat
  BY <1>1, <1>2
<1>4. \E c \in batch[w] : \A d \in batch[w] : c <= d
  BY <1>3, LeastElement
<1>5. Current(w) \in batch[w]
  BY <1>4 DEF Current
<1> QED
  BY <1>1, <1>5

\* Settling takes a message from the batch of its worker.
LEMMA DoneTyped ==
  ASSUME Typed, NEW w \in Workers, Done(w)
  PROVE  /\ batch' \in [Workers -> SUBSET (1..issued)]
         /\ outcome' \in [Workers -> {"none", "ok", "error"}]
         /\ \A v \in Workers : outcome'[v] # "none" => batch'[v] # {}
         /\ \A v \in Workers : batch'[v] \subseteq batch[v]
<1>1. \A v \in Workers : batch'[v] = IF v = w THEN batch[w] \ {Current(w)} ELSE batch[v]
  BY DEF Typed, TypeOK, Done
<1>2. \A v \in Workers : outcome'[v] = IF v = w THEN "none" ELSE outcome[v]
  BY DEF Typed, TypeOK, Done
<1> QED
  BY <1>1, <1>2 DEF Typed, TypeOK, Done

\* Nobody was issued anything, and somebody could be.
LEMMA TypedInit == Init => Typed
<1> SUFFICES ASSUME Init PROVE Typed
  OBVIOUS
<1>1. Keys # {}
  <2>1. PICK u \in Users, t \in Tenants, p \in Purposes : TRUE
    BY OutboxAssumption
  <2>2. [user |-> u, tenant |-> t, purpose |-> p] \in Keys
    BY <2>1 DEF Keys
  <2> QED
    BY <2>2
<1>2. (CHOOSE k \in Keys : TRUE) \in Keys
  BY <1>1
<1>3. key \in [Ids -> Keys]
  BY <1>2 DEF Init
<1> QED
  BY <1>3, OutboxAssumption DEF Init, Typed, TypeOK, Lives, Statuses

\* Every step keeps the types.
LEMMA TypedStep == Typed /\ [Next]_vars => Typed'
<1> SUFFICES ASSUME Typed, [Next]_vars PROVE Typed'
  OBVIOUS
<1> USE OutboxAssumption DEF Typed, TypeOK, Lives, Statuses, Ids,
        challengeVars, messageVars, workerVars, userVars
<1>1. ASSUME NEW k \in Keys, Ask(k) PROVE Typed'
  BY <1>1 DEF Ask
<1>2. ASSUME NEW k \in Keys, Issue(k) PROVE Typed'
  <2>1. issued' = issued + 1 /\ issued' \in 0..MaxIds /\ 1..issued \subseteq 1..issued'
    BY <1>2 DEF Issue
  <2>2. key' \in [Ids -> Keys]
    BY <1>2 DEF Issue
  <2>3. life' \in [Ids -> Lives] /\ msg' \in [Ids -> Statuses] /\ link' \in [Ids -> BOOLEAN]
    BY <1>2 DEF Issue
  <2> QED
    BY <1>2, <2>1, <2>2, <2>3 DEF Issue
<1>3. ASSUME NEW c \in Exists, VerifyEmail(c) \/ VerifyAgain(c) \/ ResetPassword(c)
      PROVE  Typed'
  <2>1. key[c].user \in Users
    BY DEF Exists, Keys
  <2>2. life' \in [Ids -> Lives]
    <3>1. CASE VerifyAgain(c)
      BY <3>1 DEF VerifyAgain
    <3>2. CASE VerifyEmail(c) \/ ResetPassword(c)
      BY <3>2 DEF VerifyEmail, ResetPassword, ConsumeAndInvalidate
    <3> QED
      BY <1>3, <3>1, <3>2
  <2>3. CancelQueued(c)
    BY <1>3 DEF VerifyEmail, VerifyAgain, ResetPassword
  <2>4. msg' \in [Ids -> Statuses] /\ UNCHANGED <<attempts, due, stale, link>>
    BY <2>3 DEF CancelQueued
  <2>5. verified' \in SUBSET Users
    BY <1>3, <2>1 DEF VerifyEmail, VerifyAgain, ResetPassword
  <2>6. UNCHANGED <<enabled, asked, issued, key, workerVars>>
    BY <1>3 DEF VerifyEmail, VerifyAgain, ResetPassword
  <2> QED
    BY <2>2, <2>4, <2>5, <2>6
<1>4. ASSUME NEW c \in Exists, Expire(c) PROVE Typed'
  BY <1>4 DEF Expire
<1>5. ASSUME NEW c \in Exists, TimePasses(c) PROVE Typed'
  BY <1>5 DEF TimePasses, BackoffElapses, ClaimAges, Exists
<1>6. ASSUME NEW w \in Workers, Claim(w) PROVE Typed'
  <2>1. Picked \subseteq 1..issued /\ ExpiredClaims \subseteq 1..issued
        /\ \A c \in Picked : attempts[c] < MaxAttempts
    BY DEF Picked, Eligible, ExpiredClaims, Exists
  <2>2. /\ msg' \in [Ids -> Statuses] /\ due' \in [Ids -> BOOLEAN] /\ stale' \in [Ids -> BOOLEAN]
    BY <1>6 DEF Claim
  <2>3. attempts' \in [Ids -> 0..MaxAttempts]
    BY <1>6, <2>1 DEF Claim
  <2>4. batch' \in [Workers -> SUBSET (1..issued)]
    BY <1>6, <2>1 DEF Claim
  <2>5. \A v \in Workers : outcome[v] # "none" => batch'[v] # {}
    BY <1>6 DEF Claim
  <2> QED
    BY <1>6, <2>2, <2>3, <2>4, <2>5 DEF Claim
<1>7. ASSUME NEW w \in Workers, Send(w) PROVE Typed'
  <2>1. Current(w) \in 1..issued
    BY <1>7, CurrentInBatch DEF Send
  <2>2. mailed' \in SUBSET (1..issued) /\ acked' \in SUBSET mailed'
    BY <1>7, <2>1 DEF Send
  <2>3. outcome' \in [Workers -> {"none", "ok", "error"}]
        /\ \A v \in Workers : outcome'[v] # "none" => batch[v] # {}
    BY <1>7 DEF Send
  <2> QED
    BY <1>7, <2>2, <2>3 DEF Send
<1>8. ASSUME NEW w \in Workers, RecordSent(w) \/ RecordFailed(w) PROVE Typed'
  <2>1. Done(w)
    BY <1>8 DEF RecordSent, RecordFailed
  <2>2. msg' \in [Ids -> Statuses] /\ link' \in [Ids -> BOOLEAN] /\ due' \in [Ids -> BOOLEAN]
    <3>1. CASE RecordSent(w)
      BY <3>1 DEF RecordSent
    <3>2. CASE RecordFailed(w)
      <4>1. (attempts[Current(w)] >= MaxAttempts) \in BOOLEAN
        OBVIOUS
      <4>2. PICK b \in BOOLEAN : due' = due \/ due' = [due EXCEPT ![Current(w)] = b]
        BY <3>2, <4>1 DEF RecordFailed
      <4>3. msg' \in [Ids -> Statuses] /\ link' = link
        BY <3>2 DEF RecordFailed
      <4>4. due' \in [Ids -> BOOLEAN]
        BY <4>2
      <4> QED
        BY <4>3, <4>4
    <3> QED
      BY <1>8, <3>1, <3>2
  <2>3. /\ batch' \in [Workers -> SUBSET (1..issued)]
        /\ outcome' \in [Workers -> {"none", "ok", "error"}]
        /\ \A v \in Workers : outcome'[v] # "none" => batch'[v] # {}
    BY <2>1, DoneTyped
  <2>4. UNCHANGED <<userVars, challengeVars, attempts, stale, mailed, late, acked, crashes>>
    BY <1>8 DEF RecordSent, RecordFailed
  <2> QED
    BY <2>2, <2>3, <2>4
<1>9. ASSUME NEW w \in Workers, RecordSentThrows(w) PROVE Typed'
  BY <1>9 DEF RecordSentThrows
<1>10. ASSUME NEW w \in Workers, Crash(w) PROVE Typed'
  BY <1>10 DEF Crash
<1>11. ASSUME NEW u \in Users, Administer(u) PROVE Typed'
  BY <1>11 DEF Administer
<1>12. CASE UNCHANGED vars
  BY <1>12 DEF vars
<1> QED
  BY <1>1, <1>2, <1>3, <1>4, <1>5, <1>6, <1>7, <1>8, <1>9, <1>10, <1>11, <1>12 DEF Next, Work

(***************************************************************************)
(* The variables of the challenges, their messages and the dispatcher keep *)
(* their types; no more attempts are made than MaxAttempts.                *)
(***************************************************************************)
THEOREM TypeCorrect == Spec => []TypeOK
<1>1. Typed => TypeOK
  BY DEF Typed
<1> QED
  BY <1>1, TypedInit, TypedStep, PTL DEF Spec

-----------------------------------------------------------------------------
\* One step leaves a settled message as it is.
LEMMA FinalStep ==
  ASSUME TypeOK, [Next]_vars, NEW c \in Exists, msg[c] \in {"SENT", "CANCELLED"}
  PROVE  msg'[c] = msg[c]
<1> USE DEF TypeOK, Ids, Exists, messageVars
<1> c \in 1..MaxIds /\ c # issued + 1
  BY OutboxAssumption
<1>1. ASSUME NEW k \in Keys, Ask(k) \/ Issue(k) PROVE msg'[c] = msg[c]
  BY <1>1 DEF Ask, Issue
<1>2. ASSUME NEW d \in Exists, VerifyEmail(d) \/ VerifyAgain(d) \/ ResetPassword(d)
      PROVE  msg'[c] = msg[c]
  <2>1. CancelQueued(d)
    BY <1>2 DEF VerifyEmail, VerifyAgain, ResetPassword
  <2> QED
    BY <2>1 DEF CancelQueued
<1>3. ASSUME NEW d \in Exists, Expire(d) \/ TimePasses(d) PROVE msg'[c] = msg[c]
  BY <1>3 DEF Expire, TimePasses, BackoffElapses, ClaimAges
<1>4. ASSUME NEW w \in Workers, Claim(w) PROVE msg'[c] = msg[c]
  <2>1. c \notin Picked /\ c \notin ExpiredClaims
    BY DEF Picked, Eligible, ExpiredClaims
  <2> QED
    BY <1>4, <2>1 DEF Claim
<1>5. ASSUME NEW w \in Workers, RecordSent(w) \/ RecordFailed(w) PROVE msg'[c] = msg[c]
  BY <1>5 DEF RecordSent, RecordFailed
<1>6. ASSUME NEW w \in Workers, Send(w) \/ RecordSentThrows(w) \/ Crash(w)
      PROVE  msg'[c] = msg[c]
  BY <1>6 DEF Send, RecordSentThrows, Crash
<1>7. ASSUME NEW u \in Users, Administer(u) PROVE msg'[c] = msg[c]
  BY <1>7 DEF Administer
<1>8. CASE UNCHANGED vars
  BY <1>8 DEF vars
<1> QED
  BY <1>1, <1>2, <1>3, <1>4, <1>5, <1>6, <1>7, <1>8 DEF Next, Work

(***************************************************************************)
(* The dispatcher's UPDATEs look at the status: whatever outcome comes     *)
(* late, a message that was sent or cancelled stays so.                    *)
(***************************************************************************)
THEOREM Final == Spec => SettledIsFinal
<1>1. TypeOK /\ [Next]_vars =>
        [\A c \in Exists : msg[c] \in {"SENT", "CANCELLED"} => msg'[c] = msg[c]]_vars
  BY FinalStep
<1> QED
  BY <1>1, TypeCorrect, PTL DEF Spec, SettledIsFinal

-----------------------------------------------------------------------------
\* One step keeps the link of every message that may be sent.
LEMMA LinkStep == TypeOK /\ SendableHasLink /\ [Next]_vars => SendableHasLink'
<1> DEFINE Open == {"QUEUED", "SENDING", "FAILED"}
<1> SUFFICES ASSUME TypeOK, SendableHasLink, [Next]_vars,
                    NEW c \in Exists', msg'[c] \in Open
             PROVE  link'[c] = TRUE
  BY DEF SendableHasLink
<1> USE DEF TypeOK, Ids, Exists, messageVars, challengeVars
<1>0. \A d \in Exists : msg[d] \in Open => link[d] = TRUE
  BY OutboxAssumption DEF SendableHasLink
<1>a. issued \in Nat /\ MaxIds \in Nat /\ issued <= MaxIds
  BY OutboxAssumption
<1>b. ASSUME issued' = issued, link' = link, msg[c] \in Open PROVE link'[c] = TRUE
  BY <1>0, <1>b
<1>1. ASSUME NEW k \in Keys, Ask(k) PROVE link'[c] = TRUE
  BY <1>1, <1>b DEF Ask
<1>2. ASSUME NEW k \in Keys, Issue(k) PROVE link'[c] = TRUE
  <2> DEFINE cancelled == {d \in Superseded(k) : msg[d] \in {"QUEUED", "FAILED", "SENDING"}}
  <2>1. c \in Ids /\ (c = issued + 1 \/ (c \in Exists /\ c # issued + 1))
    BY <1>2, <1>a DEF Issue
  <2>2. link' = [d \in Ids |-> d = issued + 1 \/ (link[d] /\ d \notin cancelled)]
    BY <1>2 DEF Issue
  <2>3. c # issued + 1 => c \notin cancelled /\ msg'[c] = msg[c]
    BY <1>2, <2>1 DEF Issue
  <2>4. c # issued + 1 => link[c] = TRUE
    BY <2>1, <2>3, <1>0
  <2> HIDE DEF cancelled
  <2>5. link'[c] = (c = issued + 1 \/ (link[c] /\ c \notin cancelled))
    BY <2>1, <2>2
  <2>6. c = issued + 1 \/ (link[c] = TRUE /\ c \notin cancelled)
    BY <2>3, <2>4
  <2> QED
    BY <2>5, <2>6
<1>3. ASSUME NEW d \in Exists, VerifyEmail(d) \/ VerifyAgain(d) \/ ResetPassword(d)
      PROVE  link'[c] = TRUE
  <2>1. CancelQueued(d) /\ issued' = issued
    BY <1>3 DEF VerifyEmail, VerifyAgain, ResetPassword
  <2>2. link' = link /\ msg[c] \in Open
    BY <2>1, <1>a DEF CancelQueued
  <2> QED
    BY <2>1, <2>2, <1>b
<1>4. ASSUME NEW d \in Exists, Expire(d) \/ TimePasses(d) PROVE link'[c] = TRUE
  <2>1. issued' = issued /\ link' = link /\ msg' = msg
    BY <1>4 DEF Expire, TimePasses, BackoffElapses, ClaimAges
  <2> QED
    BY <2>1, <1>b
<1>5. ASSUME NEW w \in Workers, Claim(w) PROVE link'[c] = TRUE
  <2>1. \A d \in Picked \cup ExpiredClaims : msg[d] \in Open
    BY DEF Picked, Eligible, ExpiredClaims
  <2>2. issued' = issued /\ link' = link /\ c \in Ids
    BY <1>5, <1>a DEF Claim
  <2>3. msg' = [d \in Ids |-> IF d \in Picked THEN "SENDING"
                              ELSE IF d \in ExpiredClaims THEN "FAILED"
                              ELSE msg[d]]
    BY <1>5 DEF Claim
  <2>4. c \in Picked \cup ExpiredClaims \/ msg'[c] = msg[c]
    BY <2>2, <2>3
  <2>5. msg[c] \in Open
    BY <2>1, <2>4
  <2> QED
    BY <2>2, <2>5, <1>b
<1>6. ASSUME NEW w \in Workers, RecordSent(w) PROVE link'[c] = TRUE
  <2>1. issued' = issued /\ c \in Ids /\ c \in Exists
    BY <1>6, <1>a DEF RecordSent
  <2>2. CASE msg[Current(w)] = "SENDING"
    <3>1. msg' = [msg EXCEPT ![Current(w)] = "SENT"] /\ link' = [link EXCEPT ![Current(w)] = FALSE]
      BY <1>6, <2>2 DEF RecordSent
    <3>2. c # Current(w)
      BY <3>1, <2>1
    <3>3. link'[c] = link[c] /\ msg'[c] = msg[c]
      BY <3>1, <3>2, <2>1
    <3> QED
      BY <3>3, <2>1, <1>0
  <2>3. CASE msg[Current(w)] # "SENDING"
    <3>1. link' = link /\ msg' = msg
      BY <1>6, <2>3 DEF RecordSent
    <3> QED
      BY <3>1, <2>1, <1>b
  <2> QED
    BY <2>2, <2>3
<1>7. ASSUME NEW w \in Workers, RecordFailed(w) PROVE link'[c] = TRUE
  <2>1. issued' = issued /\ link' = link
    BY <1>7 DEF RecordFailed
  <2>2. msg' = msg \/ (msg[Current(w)] = "SENDING" /\ msg' = [msg EXCEPT ![Current(w)] = "FAILED"])
    BY <1>7 DEF RecordFailed
  <2>3. c \in Ids
    BY <2>1, <1>a
  <2>4. msg[c] \in Open
    BY <2>2, <2>3
  <2> QED
    BY <2>1, <2>4, <1>b
<1>8. ASSUME NEW w \in Workers, Send(w) \/ RecordSentThrows(w) \/ Crash(w)
      PROVE  link'[c] = TRUE
  <2>1. issued' = issued /\ link' = link /\ msg' = msg
    BY <1>8 DEF Send, RecordSentThrows, Crash
  <2> QED
    BY <2>1, <1>b
<1>9. ASSUME NEW u \in Users, Administer(u) PROVE link'[c] = TRUE
  BY <1>9, <1>b DEF Administer
<1>10. CASE UNCHANGED vars
  BY <1>10, <1>b DEF vars
<1> QED
  BY <1>1, <1>2, <1>3, <1>4, <1>5, <1>6, <1>7, <1>8, <1>9, <1>10 DEF Next, Work

(***************************************************************************)
(* Whoever purges links, by sending or by cancelling, a message that may   *)
(* yet be sent keeps its own.                                              *)
(***************************************************************************)
THEOREM LinkKept == Spec => []SendableHasLink
<1>1. Init => SendableHasLink
  BY DEF Init, SendableHasLink, Exists
<1> QED
  BY <1>1, LinkStep, TypeCorrect, PTL DEF Spec
-----------------------------------------------------------------------------
\* What a worker holds, unless the claim grew old under it, was cancelled or is
\* still claimed by nobody since: the status and the age of the claim show it.
Fresh(c) == msg[c] = "CANCELLED" \/ (msg[c] = "SENDING" /\ stale[c] = FALSE)
HeldFresh == \A w \in Workers : \A c \in batch[w] : c \in late \/ Fresh(c)

\* A fresh message is neither eligible nor an expired claim.
LEMMA FreshNotTaken ==
  ASSUME TypeOK, NEW c, Fresh(c)
  PROVE  c \notin Picked /\ c \notin ExpiredClaims
BY DEF Picked, Eligible, ExpiredClaims, Fresh

\* The steps of the challenges and of time keep every held message fresh.
LEMMA FreshOutside ==
  ASSUME Typed, HeldFresh, UNCHANGED batch,
         \/ \E k \in Keys : Ask(k) \/ Issue(k)
         \/ \E c \in Exists : VerifyEmail(c) \/ VerifyAgain(c) \/ ResetPassword(c)
                              \/ Expire(c) \/ TimePasses(c)
  PROVE  HeldFresh' /\ late \subseteq late'
<1>L. late \subseteq late'
  BY DEF Ask, Issue, VerifyEmail, VerifyAgain, ResetPassword, Expire, TimePasses,
         BackoffElapses, ClaimAges, workerVars
<1> SUFFICES ASSUME NEW w \in Workers, NEW c \in batch[w]
             PROVE  c \in late' \/ Fresh(c)'
  BY <1>L DEF HeldFresh
<1> USE DEF Typed, TypeOK, Ids, Exists, messageVars, challengeVars, workerVars, Fresh
<1>0. c \in late \/ Fresh(c)
  BY DEF HeldFresh
<1>a. c \in 1..MaxIds /\ c \in 1..issued /\ c # issued + 1
  BY OutboxAssumption
<1>b. ASSUME late' = late, msg' = msg, stale' = stale
      PROVE  c \in late' \/ Fresh(c)'
  BY <1>0, <1>b
<1>1. CASE \E k \in Keys : Ask(k)
  BY <1>1, <1>b DEF Ask
<1>2. ASSUME NEW k \in Keys, Issue(k)
      PROVE  c \in late' \/ Fresh(c)'
  <2>1. late' = late /\ stale' = stale /\ (msg'[c] = msg[c] \/ msg'[c] = "CANCELLED")
    BY <1>2, <1>a DEF Issue
  <2> QED
    BY <1>0, <2>1
<1>3. ASSUME NEW d \in Exists, VerifyEmail(d) \/ VerifyAgain(d) \/ ResetPassword(d)
      PROVE  c \in late' \/ Fresh(c)'
  <2>1. CancelQueued(d) /\ late' = late
    BY <1>3 DEF VerifyEmail, VerifyAgain, ResetPassword
  <2>2. stale' = stale /\ (msg'[c] = msg[c] \/ msg'[c] = "CANCELLED")
    BY <2>1, <1>a DEF CancelQueued
  <2> QED
    BY <1>0, <2>1, <2>2
<1>4. CASE \E d \in Exists : Expire(d) \/ BackoffElapses(d)
  BY <1>4, <1>b DEF Expire, BackoffElapses
<1>5. ASSUME NEW d \in Exists, ClaimAges(d)
      PROVE  c \in late' \/ Fresh(c)'
  <2>1. msg' = msg /\ stale' = [stale EXCEPT ![d] = TRUE]
    BY <1>5 DEF ClaimAges
  <2>2. CASE c = d
    BY <1>5, <2>2 DEF ClaimAges, Held
  <2>3. CASE c # d
    BY <1>L, <1>0, <1>a, <2>1, <2>3
  <2> QED
    BY <2>2, <2>3
<1> QED
  BY <1>1, <1>2, <1>3, <1>4, <1>5 DEF TimePasses

\* One step keeps held messages fresh and claims disjoint.
LEMMA DisjointStep ==
  Typed /\ HeldFresh /\ ClaimsDisjoint /\ [Next]_vars
    => HeldFresh' /\ ClaimsDisjoint'
<1> SUFFICES ASSUME Typed, HeldFresh, ClaimsDisjoint, [Next]_vars
             PROVE  HeldFresh' /\ ClaimsDisjoint'
  OBVIOUS
<1> USE DEF Typed, TypeOK, Ids, messageVars, challengeVars, workerVars
<1>1. ASSUME UNCHANGED batch,
             \/ \E k \in Keys : Ask(k) \/ Issue(k)
             \/ \E c \in Exists : VerifyEmail(c) \/ VerifyAgain(c) \/ ResetPassword(c)
                                  \/ Expire(c) \/ TimePasses(c)
      PROVE  HeldFresh' /\ ClaimsDisjoint'
  <2>1. HeldFresh' /\ late \subseteq late'
    BY <1>1, FreshOutside
  <2> QED
    BY <1>1, <2>1 DEF ClaimsDisjoint
<1>2. ASSUME UNCHANGED <<msg, stale, late>>, \A w \in Workers : batch'[w] \subseteq batch[w]
      PROVE  HeldFresh' /\ ClaimsDisjoint'
  <2>1. HeldFresh'
    BY <1>2 DEF HeldFresh, Fresh
  <2>2. ClaimsDisjoint'
    BY <1>2 DEF ClaimsDisjoint
  <2> QED
    BY <2>1, <2>2
<1>3. ASSUME NEW w \in Workers, Claim(w) PROVE HeldFresh' /\ ClaimsDisjoint'
  <2>1. \A v \in Workers : batch'[v] = IF v = w THEN Picked ELSE batch[v]
    BY <1>3 DEF Claim
  <2>2. late' = late
    BY <1>3 DEF Claim
  <2>3. \A v \in Workers : \A c \in batch[v] :
          c \in late \/ (Fresh(c) /\ c \notin Picked /\ c \notin ExpiredClaims)
    BY FreshNotTaken DEF HeldFresh
  <2>4. Picked \subseteq Ids /\ \A v \in Workers : batch[v] \subseteq Ids
    BY OutboxAssumption DEF Picked, Eligible, Exists, ExpiredClaims
  <2>5. \A c \in Ids : c \in Picked => msg'[c] = "SENDING" /\ stale'[c] = FALSE
    BY <1>3 DEF Claim
  <2>6. ASSUME NEW c \in Ids, c \notin Picked, c \notin ExpiredClaims, Fresh(c)
        PROVE  Fresh(c)'
    <3>1. msg'[c] = msg[c]
      BY <1>3, <2>6 DEF Claim
    <3>2. stale'[c] = stale[c]
      BY <1>3, <2>6 DEF Claim
    <3> QED
      BY <2>6, <3>1, <3>2 DEF Fresh
  <2>7. HeldFresh'
    <3> SUFFICES ASSUME NEW v \in Workers, NEW c \in batch'[v], c \notin late'
                 PROVE  Fresh(c)'
      BY DEF HeldFresh
    <3>1. CASE v = w
      BY <3>1, <2>1, <2>4, <2>5 DEF Fresh
    <3>2. CASE v # w
      BY <3>2, <2>1, <2>2, <2>3, <2>4, <2>6
    <3> QED
      BY <3>1, <3>2
  <2>8. ClaimsDisjoint'
    BY <2>1, <2>2, <2>3 DEF ClaimsDisjoint
  <2> QED
    BY <2>7, <2>8
<1>4. ASSUME NEW w \in Workers, RecordSent(w) \/ RecordFailed(w)
      PROVE  HeldFresh' /\ ClaimsDisjoint'
  <2> DEFINE r == Current(w)
  <2>1. UNCHANGED <<stale, late>> /\ outcome[w] # "none"
    BY <1>4 DEF RecordSent, RecordFailed
  <2>2. \A c \in Ids : c # r => msg'[c] = msg[c]
    BY <1>4 DEF RecordSent, RecordFailed
  <2>3. Done(w)
    BY <1>4 DEF RecordSent, RecordFailed
  <2>4. r \in batch[w]
    BY <2>1, CurrentInBatch
  <2>5. \A v \in Workers : batch'[v] \subseteq batch[v] /\ (v = w => r \notin batch'[v])
    BY <2>3 DEF Done
  <2>6. \A v \in Workers : batch[v] \subseteq Ids
    BY OutboxAssumption
  <2> HIDE DEF r
  <2>7. \A v \in Workers : r \in batch'[v] => r \in late
    BY <2>4, <2>5 DEF ClaimsDisjoint
  <2>8. HeldFresh'
    <3> SUFFICES ASSUME NEW v \in Workers, NEW c \in batch'[v], c \notin late'
                 PROVE  Fresh(c)'
      BY DEF HeldFresh
    <3>1. c \in batch[v] /\ c # r /\ Fresh(c)
      BY <2>1, <2>5, <2>7 DEF HeldFresh
    <3>2. msg'[c] = msg[c] /\ stale' = stale
      BY <3>1, <2>1, <2>2, <2>6
    <3> QED
      BY <3>1, <3>2 DEF Fresh
  <2>9. ClaimsDisjoint'
    BY <2>1, <2>5 DEF ClaimsDisjoint
  <2> QED
    BY <2>8, <2>9
<1>5. ASSUME NEW w \in Workers, Send(w) \/ RecordSentThrows(w) \/ Crash(w)
      PROVE  HeldFresh' /\ ClaimsDisjoint'
  <2>1. UNCHANGED <<msg, stale, late>> /\ \A v \in Workers : batch'[v] \subseteq batch[v]
    BY <1>5 DEF Send, RecordSentThrows, Crash
  <2> QED
    BY <2>1, <1>2
<1>6. ASSUME NEW u \in Users, Administer(u) PROVE HeldFresh' /\ ClaimsDisjoint'
  BY <1>6, <1>2 DEF Administer
<1>7. CASE UNCHANGED vars
  BY <1>7, <1>2 DEF vars
<1>8. ASSUME \/ \E k \in Keys : Ask(k) \/ Issue(k)
             \/ \E c \in Exists : VerifyEmail(c) \/ VerifyAgain(c) \/ ResetPassword(c)
                                  \/ Expire(c) \/ TimePasses(c)
      PROVE  UNCHANGED batch
  BY <1>8 DEF Ask, Issue, VerifyEmail, VerifyAgain, ResetPassword, Expire, TimePasses,
              BackoffElapses, ClaimAges
<1> QED
  BY <1>1, <1>3, <1>4, <1>5, <1>6, <1>7, <1>8 DEF Next, Work

(***************************************************************************)
(* FOR UPDATE SKIP LOCKED and the ten minutes of a claim: two workers have *)
(* one message in hand only if its claim grew old under one of them.       *)
(***************************************************************************)
THEOREM Disjoint == Spec => []ClaimsDisjoint
<1>1. Init => HeldFresh /\ ClaimsDisjoint
  BY DEF Init, HeldFresh, ClaimsDisjoint
<1>2. Spec => []Typed
  BY TypedInit, TypedStep, PTL DEF Spec
<1> QED
  BY <1>1, <1>2, DisjointStep, PTL DEF Spec
-----------------------------------------------------------------------------
\* What a link's user sees of a challenge.
Seen(l) == CASE l = "none" -> "unissued"
             [] l = "active" -> "live"
             [] l = "consumed" -> "used"
             [] OTHER -> "dead"
LinkState == [c \in Ids |-> Seen(life[c])]

\* The first state of the challenges is a first state of the links.
LEMMA LinksInitMapped == Init => Links!LinksInit
<1> SUFFICES ASSUME Init PROVE Links!LinksInit
  OBVIOUS
<1>1. key \in [Ids -> Keys]
  BY TypedInit DEF Typed, TypeOK
<1>2. LinkState = [c \in Ids |-> "unissued"]
  BY DEF Init, LinkState, Seen
<1> QED
  BY <1>1, <1>2 DEF Init, Links!LinksInit, Links!Ids, Links!Keys, Ids, Keys, LinkState, Seen

\* Every step is a step of the links or leaves them alone.
LEMMA LinksStep ==
  Typed /\ [Next]_vars => [Links!LinksNext]_(Links!linkVars)
<1> SUFFICES ASSUME Typed, [Next]_vars
             PROVE  Links!LinksNext \/ UNCHANGED <<issued, key, LinkState, mailed>>
  BY DEF Links!linkVars, LinkState, Seen
<1> USE DEF Typed, TypeOK, Ids, challengeVars, messageVars, workerVars, userVars
<1>1. ASSUME UNCHANGED <<issued, key, life, mailed>>
      PROVE  UNCHANGED <<issued, key, LinkState, mailed>>
  BY <1>1 DEF LinkState
<1>2. ASSUME NEW k \in Keys, Issue(k) PROVE Links!LinksNext
  <2>1. issued < MaxIds /\ issued' = issued + 1 /\ key' = [key EXCEPT ![issued + 1] = k]
        /\ mailed' = mailed
    BY <1>2 DEF Issue
  <2>2. LinkState' = [c \in Ids |->
           IF c = issued + 1 THEN "live"
           ELSE IF c \in 1..issued /\ key[c] = k /\ LinkState[c] = "live" THEN "dead"
           ELSE LinkState[c]]
    BY <1>2 DEF Issue, Superseded, Exists, LinkState, Seen, Lives
  <2>3. Links!IssueLink(k)
    BY <2>1, <2>2 DEF Links!IssueLink, Links!Ids, LinkState, Seen
  <2> QED
    BY <2>3 DEF Links!LinksNext, Links!Keys, Keys
<1>3. ASSUME NEW c \in Exists, VerifyEmail(c) \/ ResetPassword(c) PROVE Links!LinksNext
  <2>1. c \in mailed /\ life[c] = "active" /\ ConsumeAndInvalidate(c)
        /\ UNCHANGED <<issued, key, mailed>>
    BY <1>3 DEF VerifyEmail, ResetPassword, Usable
  <2> DEFINE killed == {d \in Rivals(c) : life[d] = "active"}
  <2>2. LinkState' = [d \in Ids |-> IF d = c THEN "used"
                                    ELSE IF d \in killed THEN "dead" ELSE LinkState[d]]
    BY <2>1 DEF ConsumeAndInvalidate, Rivals, Exists, LinkState, Seen, Lives
  <2>3. killed \subseteq {d \in Links!Rivals(c) : LinkState[d] = "live"}
    BY OutboxAssumption DEF Rivals, Exists, Links!Rivals, LinkState, Seen
  <2>4. LinkState[c] = "live"
    BY <2>1, OutboxAssumption DEF Exists, LinkState, Seen
  <2> HIDE DEF killed
  <2>5. Links!UseLink(c)
    BY <2>1, <2>2, <2>3, <2>4 DEF Links!UseLink, Links!Ids, LinkState, Seen
  <2> QED
    BY <2>5 DEF Links!LinksNext, Exists
<1>4. ASSUME NEW c \in Exists, VerifyAgain(c) PROVE Links!LinksNext
  <2>1. c \in mailed /\ life[c] = "active" /\ life' = [life EXCEPT ![c] = "consumed"]
        /\ UNCHANGED <<issued, key, mailed>>
    BY <1>4 DEF VerifyAgain, Usable
  <2> DEFINE killed == {}
  <2>2. LinkState' = [d \in Ids |-> IF d = c THEN "used"
                                    ELSE IF d \in killed THEN "dead" ELSE LinkState[d]]
    BY <2>1 DEF LinkState, Seen
  <2>3. LinkState[c] = "live"
    BY <2>1, OutboxAssumption DEF Exists, LinkState, Seen
  <2>4. killed \subseteq {d \in Links!Rivals(c) : LinkState[d] = "live"}
    OBVIOUS
  <2> HIDE DEF killed
  <2>5. Links!UseLink(c)
    BY <2>1, <2>2, <2>3, <2>4 DEF Links!UseLink, Links!Ids, LinkState, Seen
  <2> QED
    BY <2>5 DEF Links!LinksNext, Exists
<1>5. ASSUME NEW c \in Exists, Expire(c) PROVE Links!LinksNext
  <2>1. life[c] = "active" /\ life' = [life EXCEPT ![c] = "expired"]
        /\ UNCHANGED <<issued, key, mailed>>
    BY <1>5 DEF Expire
  <2>2. LinkState' = [LinkState EXCEPT ![c] = "dead"]
    BY <2>1 DEF LinkState, Seen
  <2>3. LinkState[c] = "live"
    BY <2>1, OutboxAssumption DEF Exists, LinkState, Seen
  <2>4. Links!LapseLink(c)
    BY <2>1, <2>2, <2>3 DEF Links!LapseLink, LinkState, Seen
  <2> QED
    BY <2>4 DEF Links!LinksNext, Exists
<1>6. ASSUME NEW w \in Workers, Send(w), mailed' # mailed PROVE Links!LinksNext
  <2>1. Current(w) \in 1..issued
    BY <1>6, CurrentInBatch DEF Send
  <2>2. mailed' = mailed \cup {Current(w)} /\ UNCHANGED <<issued, key, life>>
    BY <1>6 DEF Send
  <2>3. LinkState' = LinkState
    BY <2>2 DEF LinkState
  <2>4. Links!MailLink(Current(w))
    BY <2>2, <2>3 DEF Links!MailLink, LinkState, Seen
  <2> QED
    BY <2>1, <2>4 DEF Links!LinksNext
<1>7. ASSUME NEW w \in Workers,
             \/ Send(w) /\ mailed' = mailed
             \/ Claim(w) \/ RecordSent(w) \/ RecordSentThrows(w) \/ RecordFailed(w) \/ Crash(w)
      PROVE  UNCHANGED <<issued, key, life, mailed>>
  BY <1>7 DEF Send, Claim, RecordSent, RecordSentThrows, RecordFailed, Crash
<1>8. ASSUME (\E k \in Keys : Ask(k)) \/ (\E u \in Users : Administer(u))
      PROVE  UNCHANGED <<issued, key, life, mailed>>
  BY <1>8 DEF Ask, Administer
<1>9. ASSUME NEW c \in Exists, TimePasses(c)
      PROVE  UNCHANGED <<issued, key, life, mailed>>
  BY <1>9 DEF TimePasses, BackoffElapses, ClaimAges
<1>10. ASSUME UNCHANGED vars PROVE UNCHANGED <<issued, key, life, mailed>>
  BY <1>10 DEF vars
<1> QED
  BY <1>1, <1>2, <1>3, <1>4, <1>5, <1>6, <1>7, <1>8, <1>9, <1>10 DEF Next, Work

(***************************************************************************)
(* Challenges are one-time links: only a mailed, live one works, it works  *)
(* once, and a new one of the same user, tenant and purpose replaces it.   *)
(***************************************************************************)
THEOREM Implements == Spec => LinksSpec
<1>1. Spec => []Typed
  BY TypedInit, TypedStep, PTL DEF Spec
<1>2. Spec => Links!LinksInit /\ [][Links!LinksNext]_(Links!linkVars)
  BY <1>1, LinksInitMapped, LinksStep, PTL DEF Spec
<1> QED
  BY <1>2 DEF LinksSpec, Links!LinksSpec
=============================================================================
