------------------------ MODULE PlatformOutboxProofs ------------------------
(***************************************************************************)
(* Theorems about the transactional outbox, for any messages, publishers,  *)
(* batch size, back-offs and crashes: a published message stays published  *)
(* even when publishers outlive their leases, and of those who work on a   *)
(* message one at most has a lease.                                        *)
(***************************************************************************)
EXTENDS PlatformOutbox, TLAPS

\* A message that is not written yet has not been tried.
Typed == TypeOK /\ \A m \in Messages : status[m] = "none" => attempts[m] = 0

\* A publisher forgets a message it has reported.
LEMMA SettleTyped ==
  ASSUME TypeOK, NEW w \in Publishers, NEW m \in Messages, Settle(w, m)
  PROVE  /\ batch' \in [Publishers -> SUBSET Messages]
         /\ answer' \in [Publishers -> [Messages -> {"none", "ok", "error"}]]
         /\ late' \subseteq Publishers \X Messages
         /\ claims' \in [Messages -> 0..MaxClaims]
         /\ crashes' \in 0..MaxCrashes
<1>1. batch' \in [Publishers -> SUBSET Messages]
  BY DEF TypeOK, Settle
<1>2. [answer[w] EXCEPT ![m] = "none"] \in [Messages -> {"none", "ok", "error"}]
  BY DEF TypeOK
<1>3. answer' \in [Publishers -> [Messages -> {"none", "ok", "error"}]]
  BY <1>2 DEF TypeOK, Settle
<1> QED
  BY <1>1, <1>3 DEF TypeOK, Settle

\* Claims of a message are of publishers.
LEMMA ClaimsTyped == \A m \in Messages : ClaimsOf(m) \subseteq Publishers \X Messages
BY DEF ClaimsOf, Holders

\* Every step keeps the types.
LEMMA TypedStep == Typed /\ [Next]_vars => Typed'
<1> SUFFICES ASSUME Typed, [Next]_vars PROVE Typed'
  OBVIOUS
<1> USE OutboxAssumption DEF Typed
<1>1. ASSUME NEW m \in Messages, Write(m)
      PROVE  Typed'
  BY <1>1 DEF Write, TypeOK
<1>2. ASSUME NEW m \in Messages, Lapse(m)
      PROVE  Typed'
  BY <1>2, ClaimsTyped DEF Lapse, TypeOK
<1>3. ASSUME NEW w \in Publishers, NEW S \in SUBSET Messages, Claim(w, S)
      PROVE  Typed'
  BY <1>3 DEF Claim, Claimable, TypeOK
<1>4. ASSUME NEW w \in Publishers, NEW m \in Messages, Send(w, m)
      PROVE  Typed'
  <2>1. PICK a \in {"ok", "error"} : answer' = [answer EXCEPT ![w][m] = a]
    BY <1>4 DEF Send
  <2>2. [answer[w] EXCEPT ![m] = a] \in [Messages -> {"none", "ok", "error"}]
    BY DEF TypeOK
  <2>3. answer' \in [Publishers -> [Messages -> {"none", "ok", "error"}]]
    BY <2>1, <2>2 DEF TypeOK
  <2> QED
    BY <1>4, <2>3 DEF Send, TypeOK
<1>5. ASSUME NEW w \in Publishers, NEW m \in Messages, MarkPublished(w, m)
      PROVE  Typed'
  <2>1. /\ batch' \in [Publishers -> SUBSET Messages]
        /\ answer' \in [Publishers -> [Messages -> {"none", "ok", "error"}]]
        /\ late' \subseteq Publishers \X Messages
        /\ claims' \in [Messages -> 0..MaxClaims]
        /\ crashes' \in 0..MaxCrashes
    BY <1>5, SettleTyped DEF MarkPublished
  <2>2. /\ status' \in [Messages -> {"none", "PENDING", "PUBLISHED", "FAILED"}]
        /\ next' \in [Messages -> {"due", "leased", "later"}]
        /\ status'[m] = "PUBLISHED" /\ next'[m] = "due"
        /\ \A n \in Messages \ {m} : status'[n] = status[n] /\ next'[n] = next[n]
    BY <1>5 DEF MarkPublished, TypeOK
  <2>3. /\ attempts' \in [Messages -> Nat]
        /\ \A n \in Messages \ {m} : attempts'[n] = attempts[n]
    BY <1>5 DEF MarkPublished, TypeOK
  <2>4. cut' \subseteq Publishers \X Messages
    BY <1>5 DEF MarkPublished, TypeOK
  <2> QED
    BY <2>1, <2>2, <2>3, <2>4 DEF TypeOK
<1>6. ASSUME NEW w \in Publishers, NEW m \in Messages, NEW b \in BOOLEAN,
             MarkFailed(w, m, b)
      PROVE  Typed'
  <2>1. /\ batch' \in [Publishers -> SUBSET Messages]
        /\ answer' \in [Publishers -> [Messages -> {"none", "ok", "error"}]]
        /\ late' \subseteq Publishers \X Messages
        /\ claims' \in [Messages -> 0..MaxClaims]
        /\ crashes' \in 0..MaxCrashes
    BY <1>6, SettleTyped DEF MarkFailed
  <2>2. /\ status' \in [Messages -> {"none", "PENDING", "PUBLISHED", "FAILED"}]
        /\ next' \in [Messages -> {"due", "leased", "later"}]
        /\ status'[m] = "FAILED" /\ next'[m] \in {"due", "later"}
        /\ \A n \in Messages \ {m} : status'[n] = status[n] /\ next'[n] = next[n]
    BY <1>6 DEF MarkFailed, TypeOK
  <2>3. /\ attempts' \in [Messages -> Nat]
        /\ \A n \in Messages \ {m} : attempts'[n] = attempts[n]
    BY <1>6 DEF MarkFailed, TypeOK
  <2>4. cut' \subseteq Publishers \X Messages
    BY <1>6, ClaimsTyped DEF MarkFailed, CutShort, TypeOK
  <2> QED
    BY <2>1, <2>2, <2>3, <2>4 DEF TypeOK
<1>7. ASSUME NEW w \in Publishers, NEW m \in Messages, MarkRefused(w, m)
      PROVE  Typed'
  BY <1>7, SettleTyped DEF MarkRefused, TypeOK
<1>8. ASSUME NEW w \in Publishers, Crash(w)
      PROVE  Typed'
  BY <1>8 DEF Crash, TypeOK
<1>9. CASE UNCHANGED vars
  BY <1>9 DEF vars, TypeOK
<1> QED
  BY <1>1, <1>2, <1>3, <1>4, <1>5, <1>6, <1>7, <1>8, <1>9 DEF Next, Report

\* Initially nothing is written.
LEMMA TypedInit == Init => Typed
BY OutboxAssumption DEF Init, Typed, TypeOK

(***************************************************************************)
(* The variables hold values of their types; in particular a published     *)
(* message has no lease, and a pending one was never reported.             *)
(***************************************************************************)
THEOREM TypeCorrect == Spec => []TypeOK
<1>1. Typed => TypeOK
  BY DEF Typed
<1> QED
  BY <1>1, TypedInit, TypedStep, PTL DEF Spec

-----------------------------------------------------------------------------
\* One step leaves a published message as it is: reports look at the status.
LEMMA FinalStep ==
  ASSUME TypeOK, [Next]_vars, NEW m \in Messages, status[m] = "PUBLISHED"
  PROVE  status'[m] = "PUBLISHED" /\ attempts'[m] = attempts[m]
<1>1. ASSUME NEW n \in Messages, Write(n) \/ Lapse(n)
      PROVE  status'[m] = "PUBLISHED" /\ attempts'[m] = attempts[m]
  BY <1>1 DEF Write, Lapse, TypeOK
<1>2. ASSUME NEW w \in Publishers, NEW n \in Messages, Send(w, n) \/ MarkRefused(w, n)
      PROVE  status'[m] = "PUBLISHED" /\ attempts'[m] = attempts[m]
  BY <1>2 DEF Send, MarkRefused
<1>3. ASSUME NEW w \in Publishers, NEW n \in Messages, MarkPublished(w, n)
      PROVE  status'[m] = "PUBLISHED" /\ attempts'[m] = attempts[m]
  BY <1>3 DEF MarkPublished, Open, TypeOK
<1>4. ASSUME NEW w \in Publishers, NEW n \in Messages, NEW b \in BOOLEAN,
             MarkFailed(w, n, b)
      PROVE  status'[m] = "PUBLISHED" /\ attempts'[m] = attempts[m]
  BY <1>4 DEF MarkFailed, Open, TypeOK
<1>5. ASSUME NEW w \in Publishers, NEW S \in SUBSET Messages, Claim(w, S)
      PROVE  status'[m] = "PUBLISHED" /\ attempts'[m] = attempts[m]
  BY <1>5 DEF Claim
<1>6. ASSUME NEW w \in Publishers, Crash(w)
      PROVE  status'[m] = "PUBLISHED" /\ attempts'[m] = attempts[m]
  BY <1>6 DEF Crash
<1>7. CASE UNCHANGED vars
  BY <1>7 DEF vars
<1> QED
  BY <1>1, <1>2, <1>3, <1>4, <1>5, <1>6, <1>7 DEF Next, Report

(***************************************************************************)
(* markOutboxPublished and markOutboxFailed: a late report, of a publisher *)
(* whose lease has ended, neither reopens a published message nor counts   *)
(* as an attempt of it.                                                    *)
(***************************************************************************)
THEOREM Final == Spec => PublishedIsFinal
<1>1. TypeOK /\ [Next]_vars
        => [\A m \in Messages : status[m] = "PUBLISHED" =>
              status'[m] = "PUBLISHED" /\ attempts'[m] = attempts[m]]_vars
  BY FinalStep
<1> QED
  BY <1>1, TypeCorrect, PTL DEF Spec, PublishedIsFinal

-----------------------------------------------------------------------------
\* What a publisher works on that has not lost its lease is leased, if it is still to
\* be published, and to it alone.
Leased ==
  /\ \A w \in Publishers : \A m \in batch[w] :
       <<w, m>> \in Lapsed \/ next[m] = "leased" \/ status[m] = "PUBLISHED"
  /\ \A v, w \in Publishers : \A m \in batch[v] \cap batch[w] :
       <<v, m>> \in Lapsed \/ <<w, m>> \in Lapsed \/ v = w

\* After a report of m by w the claims of others are as they were, but that they may
\* have lost their lease: those of m must, when the message is free again.
LEMMA LeasedReport ==
  ASSUME TypeOK, Leased, NEW w \in Publishers, NEW m \in Messages, Settle(w, m),
         \A n \in Messages \ {m} : next'[n] = next[n] /\ status'[n] = status[n],
         cut \ {<<w, m>>} \subseteq cut',
         \A v \in Publishers \ {w} :
           m \in batch[v] => <<v, m>> \in Lapsed' \/ status'[m] = "PUBLISHED"
  PROVE  Leased'
<1>1. \A v \in Publishers : batch'[v] = IF v = w THEN batch[v] \ {m} ELSE batch[v]
  BY DEF TypeOK, Settle
<1>2. \A v \in Publishers, n \in Messages : v # w \/ n # m => (<<v, n>> \in Lapsed => <<v, n>> \in Lapsed')
  BY DEF Settle, Lapsed
<1>3. ASSUME NEW v \in Publishers, NEW n \in batch'[v]
      PROVE  /\ n \in Messages /\ n \in batch[v] /\ (v # w \/ n # m)
             /\ <<v, n>> \in Lapsed' \/ next'[n] = "leased" \/ status'[n] = "PUBLISHED"
  <2>1. n \in Messages /\ n \in batch[v] /\ (v # w \/ n # m)
    BY <1>1, <1>3 DEF TypeOK
  <2>2. CASE n = m
    BY <2>1, <2>2
  <2>3. CASE n # m
    BY <1>2, <2>1, <2>3 DEF Leased
  <2> QED
    BY <2>1, <2>2, <2>3
<1>4. ASSUME NEW u \in Publishers, NEW v \in Publishers, NEW n \in batch'[u] \cap batch'[v]
      PROVE  <<u, n>> \in Lapsed' \/ <<v, n>> \in Lapsed' \/ u = v
  BY <1>2, <1>3 DEF Leased
<1> QED
  BY <1>3, <1>4 DEF Leased

\* Nobody answers for a message outside of its batch.
Answers == \A w \in Publishers, m \in Messages : answer[w][m] # "none" => m \in batch[w]

\* Every step keeps answers inside batches.
LEMMA AnswersStep == TypeOK /\ Answers /\ [Next]_vars => Answers'
<1> SUFFICES ASSUME TypeOK, Answers, [Next]_vars PROVE Answers'
  OBVIOUS
<1>1. ASSUME NEW m \in Messages, Write(m) \/ Lapse(m)
      PROVE  Answers'
  BY <1>1 DEF Write, Lapse, Answers
<1>2. ASSUME NEW w \in Publishers, NEW S \in SUBSET Messages, Claim(w, S)
      PROVE  Answers'
  BY <1>2 DEF Claim, Answers, TypeOK
<1>3. ASSUME NEW w \in Publishers, NEW m \in Messages, Send(w, m)
      PROVE  Answers'
  <2>1. \A v \in Publishers, n \in Messages :
          <<v, n>> # <<w, m>> => answer'[v][n] = answer[v][n]
    BY <1>3 DEF Send, TypeOK
  <2> QED
    BY <1>3, <2>1 DEF Send, Answers
<1>4. ASSUME NEW w \in Publishers, NEW m \in Messages, Settle(w, m)
      PROVE  Answers'
  <2>1. \A v \in Publishers, n \in Messages :
          answer'[v][n] = IF v = w /\ n = m THEN "none" ELSE answer[v][n]
    BY <1>4 DEF Settle, TypeOK
  <2>2. \A v \in Publishers : batch[v] \subseteq batch'[v] \cup {m}
    BY <1>4 DEF Settle, TypeOK
  <2>3. \A v \in Publishers \ {w} : batch'[v] = batch[v]
    BY <1>4 DEF Settle, TypeOK
  <2> QED
    BY <2>1, <2>2, <2>3 DEF Answers
<1>5. ASSUME NEW w \in Publishers, Crash(w)
      PROVE  Answers'
  BY <1>5 DEF Crash, Answers, TypeOK
<1>6. CASE UNCHANGED vars
  BY <1>6 DEF vars, Answers
<1> QED
  BY <1>1, <1>2, <1>3, <1>4, <1>5, <1>6
     DEF Next, Report, MarkPublished, MarkFailed, MarkRefused

\* Every step keeps the leases, or their claims are said to have lost them.
LEMMA LeasedStep ==
  ASSUME TypeOK, Answers, Leased, [Next]_vars
  PROVE  Leased'
<1>1. ASSUME NEW m \in Messages, Write(m)
      PROVE  Leased'
  <2>1. /\ UNCHANGED <<next, batch, late, cut>> /\ status[m] = "none"
        /\ \A n \in Messages \ {m} : status'[n] = status[n]
    BY <1>1 DEF Write, TypeOK
  <2>2. \A n \in Messages : status[n] = "PUBLISHED" => status'[n] = "PUBLISHED"
    BY <2>1
  <2> QED
    BY <2>1, <2>2 DEF Leased, Lapsed, TypeOK
<1>2. ASSUME NEW m \in Messages, Lapse(m)
      PROVE  Leased'
  <2>1. UNCHANGED <<status, batch, cut>> /\ late \subseteq late'
        /\ \A n \in Messages \ {m} : next'[n] = next[n]
    BY <1>2 DEF Lapse, TypeOK
  <2>2. ASSUME NEW w \in Publishers, m \in batch[w], status[m] # "PUBLISHED"
        PROVE  <<w, m>> \in Lapsed'
    <3>1. CASE next[m] = "leased"
      BY <1>2, <2>2, <3>1 DEF Lapse, ClaimsOf, Holders, Lapsed
    <3>2. CASE next[m] # "leased"
      BY <2>1, <2>2, <3>2 DEF Leased, Lapsed
    <3> QED
      BY <3>1, <3>2
  <2>3. Lapsed \subseteq Lapsed'
    BY <2>1 DEF Lapsed
  <2> QED
    BY <2>1, <2>2, <2>3 DEF Leased, TypeOK
<1>3. ASSUME NEW w \in Publishers, NEW S \in SUBSET Messages, Claim(w, S)
      PROVE  Leased'
  <2>1. /\ \A m \in S : next[m] = "due" /\ status[m] # "PUBLISHED" /\ next'[m] = "leased"
        /\ \A m \in Messages \ S : next'[m] = next[m]
        /\ UNCHANGED <<status, late, cut>>
    BY <1>3 DEF Claim, Claimable
  <2>2. \A v \in Publishers : batch'[v] = IF v = w THEN S ELSE batch[v]
    BY <1>3 DEF Claim, TypeOK
  <2>3. \A v \in Publishers : \A m \in batch[v] \cap S : <<v, m>> \in Lapsed
    BY <2>1 DEF Leased
  <2>4. Lapsed' = Lapsed /\ batch[w] = {}
    BY <1>3, <2>1 DEF Lapsed, Claim
  <2>5. ASSUME NEW v \in Publishers, NEW m \in batch'[v]
        PROVE  <<v, m>> \in Lapsed' \/ next'[m] = "leased" \/ status'[m] = "PUBLISHED"
    <3>1. m \in S \/ (m \in Messages \ S /\ m \in batch[v])
      BY <2>2 DEF TypeOK
    <3> QED
      BY <2>1, <2>4, <3>1 DEF Leased
  <2>6. ASSUME NEW u \in Publishers, NEW v \in Publishers, NEW m \in batch'[u] \cap batch'[v]
        PROVE  <<u, m>> \in Lapsed' \/ <<v, m>> \in Lapsed' \/ u = v
    BY <2>2, <2>3, <2>4 DEF Leased
  <2> QED
    BY <2>5, <2>6 DEF Leased
<1>4. ASSUME NEW w \in Publishers, NEW m \in Messages, Send(w, m)
      PROVE  Leased'
  BY <1>4 DEF Send, Leased, Lapsed
<1>5. ASSUME NEW w \in Publishers, NEW m \in Messages, MarkPublished(w, m)
      PROVE  Leased'
  <2>1. /\ Settle(w, m) /\ status'[m] = "PUBLISHED" /\ cut \ {<<w, m>>} \subseteq cut'
        /\ \A n \in Messages \ {m} : next'[n] = next[n] /\ status'[n] = status[n]
    BY <1>5 DEF MarkPublished, TypeOK
  <2> QED
    BY <2>1, LeasedReport
<1>6. ASSUME NEW w \in Publishers, NEW m \in Messages, MarkRefused(w, m)
      PROVE  Leased'
  <2>1. /\ Settle(w, m) /\ status'[m] = "PUBLISHED" /\ cut \ {<<w, m>>} \subseteq cut'
        /\ \A n \in Messages \ {m} : next'[n] = next[n] /\ status'[n] = status[n]
    BY <1>6 DEF MarkRefused, TypeOK
  <2> QED
    BY <2>1, LeasedReport
<1>7. ASSUME NEW w \in Publishers, NEW m \in Messages, NEW b \in BOOLEAN, MarkFailed(w, m, b)
      PROVE  Leased'
  <2>1. /\ Settle(w, m) /\ cut \ {<<w, m>>} \subseteq cut' /\ m \in batch[w]
        /\ \A n \in Messages \ {m} : next'[n] = next[n] /\ status'[n] = status[n]
    BY <1>7 DEF MarkFailed, CutShort, Answers, TypeOK
  <2>2. ASSUME NEW v \in Publishers \ {w}, m \in batch[v] PROVE <<v, m>> \in Lapsed'
    <3>1. CASE <<w, m>> \in Lapsed
      BY <1>7, <2>2, <3>1 DEF MarkFailed, CutShort, ClaimsOf, Holders, Settle, Lapsed
    <3>2. CASE <<w, m>> \notin Lapsed
      <4>1. <<v, m>> \in Lapsed
        BY <2>1, <2>2, <3>2 DEF Leased
      <4> QED
        BY <2>1, <2>2, <4>1 DEF Settle, Lapsed
    <3> QED
      BY <3>1, <3>2
  <2> QED
    BY <2>1, <2>2, LeasedReport
<1>8. ASSUME NEW w \in Publishers, Crash(w)
      PROVE  Leased'
  <2>1. \A v \in Publishers : batch'[v] = IF v = w THEN {} ELSE batch[v]
    BY <1>8 DEF Crash, TypeOK
  <2>2. \A v \in Publishers \ {w}, m \in Messages : <<v, m>> \in Lapsed => <<v, m>> \in Lapsed'
    BY <1>8 DEF Crash, Lapsed
  <2>3. UNCHANGED <<next, status>>
    BY <1>8 DEF Crash
  <2> QED
    BY <2>1, <2>2, <2>3 DEF Leased, TypeOK
<1>9. CASE UNCHANGED vars
  BY <1>9 DEF vars, Leased, Lapsed
<1> QED
  BY <1>1, <1>2, <1>3, <1>4, <1>5, <1>6, <1>7, <1>8, <1>9 DEF Next, Report

(***************************************************************************)
(* claimOutboxBatch and the reports: of all who work on a message one at   *)
(* most has a lease that neither its time nor the late failure of a        *)
(* publisher without a lease has ended.                                    *)
(***************************************************************************)
THEOREM Exclusive == Spec => []LeasesExclusive
<1>1. Init => Leased /\ Answers
  BY DEF Init, Leased, Answers
<1>2. TypeOK /\ Answers /\ Leased /\ [Next]_vars => Leased'
  BY LeasedStep
<1>3. Leased => LeasesExclusive
  BY DEF Leased, LeasesExclusive, Holders
<1> QED
  BY <1>1, <1>2, <1>3, AnswersStep, TypeCorrect, PTL DEF Spec
=============================================================================
