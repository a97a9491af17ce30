--------------------------- MODULE ControlsProofs ---------------------------
(***************************************************************************)
(* Proofs about the services of MCControls, for every value of its         *)
(* constants.  A section for each service has the inductive invariant of   *)
(* its module and three lemmas: the initial states satisfy it, each step   *)
(* of the service keeps it, and it gives the property the runs check.  The *)
(* last section joins them, as OperationsProofs does.                      *)
(***************************************************************************)
EXTENDS MCControls, Integers, Sequences, FiniteSetTheorems, TLAPS

\* A finite set that has room for another element.
LEMMA RoomForOne ==
  ASSUME NEW S, IsFiniteSet(S), NEW n \in Nat, Cardinality(S) < n, NEW x
  PROVE  IsFiniteSet(S \cup {x}) /\ Cardinality(S \cup {x}) <= n
<1>1. IsFiniteSet(S \cup {x}) /\ Cardinality(S) \in Nat
      /\ Cardinality(S \cup {x}) = IF x \in S THEN Cardinality(S) ELSE Cardinality(S) + 1
  BY FS_AddElement, FS_CardinalityType
<1> QED
  BY <1>1

\* A bounded set without one of its elements.
LEMMA OneFewer ==
  ASSUME NEW S, IsFiniteSet(S), NEW n \in Nat, Cardinality(S) <= n, NEW x
  PROVE  IsFiniteSet(S \ {x}) /\ Cardinality(S \ {x}) <= n
<1>1. S \ {x} \in SUBSET S
  OBVIOUS
<1>2. IsFiniteSet(S \ {x}) /\ Cardinality(S \ {x}) <= Cardinality(S)
  BY <1>1, FS_Subset
<1>3. Cardinality(S) \in Nat /\ Cardinality(S \ {x}) \in Nat
  BY <1>2, FS_CardinalityType
<1> QED
  BY <1>2, <1>3


-----------------------------------------------------------------------------
\* Idempotency records.

\* Whoever runs a command in time owns the record: it is current and for that
\* command, and nobody else runs one in time.
Owner ==
  /\ \A p \in Callers \ overran : doing[p] # Idle =>
       status # "none" /\ lasts /\ hash = doing[p] /\ ran = 0
  /\ \A p, q \in Callers \ overran : doing[p] # Idle /\ doing[q] # Idle => p = q

\* What was run in time since the record was taken has settled it.
Settled == ran # 0 => ran = 1 /\ lasts /\ status \in {"COMPLETED", "FAILED"}

\* A response reported in time is to the command whose hash the record has.
Bound == response # Idle /\ trusted => response = hash

Record == TypeOK /\ Owner /\ Settled /\ Bound /\ AnswersOwnCommand

\* Initially there is no record and nobody runs anything.
LEMMA RecordInit == Init => Record
BY IdempotencyAssumption, IdleAssumption
   DEF Init, Record, TypeOK, Owner, Settled, Bound, AnswersOwnCommand

\* Every step keeps the record and its owner together.
LEMMA RecordStep ==
  ASSUME Record, [Next]_vars
  PROVE  Record'
<1> USE IdempotencyAssumption, IdleAssumption
    DEF Record, TypeOK, Owner, Settled, Bound, AnswersOwnCommand, Counted
<1>1. ASSUME NEW p \in Callers, NEW c \in Commands, Claim(p, c)
      PROVE  Record'
  <2>1. \A q \in Callers \ overran : doing[q] = Idle
    BY <1>1 DEF Claim, Free
  <2>2. ran = 0
    BY <1>1 DEF Claim, Free
  <2> QED
    BY <1>1, <2>1, <2>2 DEF Claim, Take
<1>2. ASSUME NEW p \in Callers, NEW c \in Commands, Replay(p, c)
      PROVE  Record'
  BY <1>2 DEF Replay, Answered
<1>3. ASSUME NEW p \in Callers, NEW outcome \in {"COMPLETED", "FAILED"},
             NEW answer \in {doing[p], Idle, response}, Report(p, outcome, answer),
             outcome = "FAILED" => answer = response
      PROVE  Record'
  <2>1. CASE p \in overran
    <3>1. /\ UNCHANGED <<hash, lasts, given, claims, ran>>
          /\ Callers \ overran' = (Callers \ overran) \cup {p} /\ doing'[p] = Idle
          /\ \A q \in Callers \ {p} : doing'[q] = doing[q]
          /\ doing' \in [Callers -> Commands \cup {Idle}]
      BY <1>3, <2>1 DEF Report
    <3>2. \/ UNCHANGED <<status, response, trusted>>
          \/ status = "IN_PROGRESS" /\ status' = outcome /\ response' = answer /\ ~trusted'
      BY <1>3, <2>1 DEF Report
    <3>3. TypeOK'
      <4>1. status' \in {"IN_PROGRESS", "COMPLETED", "FAILED", "none"} /\ trusted' \in BOOLEAN
        BY <1>3 DEF Report
      <4>2. response' \in Commands \cup {Idle} /\ (response' # Idle => status' = "COMPLETED")
        BY <1>3, <3>2
      <4>3. overran' \subseteq {q \in Callers : doing'[q] # Idle}
        BY <1>3, <2>1, <3>1 DEF Report
      <4> QED
        BY <3>1, <4>1, <4>2, <4>3
    <3>4. Owner'
      BY <1>3, <3>1, <3>2
    <3>5. Settled' /\ Bound' /\ AnswersOwnCommand'
      BY <1>3, <3>1, <3>2
    <3> QED
      BY <3>3, <3>4, <3>5
  <2>2. CASE p \notin overran
    <3>1. status # "none" /\ lasts /\ hash = doing[p] /\ ran = 0
      BY <1>3, <2>2 DEF Report
    <3>2. \A q \in Callers \ overran' : doing'[q] = Idle
      BY <1>3, <2>2 DEF Report
    <3>3. /\ UNCHANGED <<hash, lasts, given, claims>> /\ ran' = 1
          /\ doing' \in [Callers -> Commands \cup {Idle}]
          /\ overran' \subseteq {q \in Callers : doing'[q] # Idle}
      BY <1>3, <2>2, <3>1 DEF Report
    <3>4. \/ UNCHANGED <<status, response, trusted>> /\ status # "IN_PROGRESS"
          \/ status = "IN_PROGRESS" /\ status' = outcome /\ response' = answer
      BY <1>3, <2>2 DEF Report
    <3>5. TypeOK'
      <4>1. status' \in {"IN_PROGRESS", "COMPLETED", "FAILED", "none"} /\ trusted' \in BOOLEAN
        BY <1>3 DEF Report
      <4>2. response' \in Commands \cup {Idle} /\ (response' # Idle => status' = "COMPLETED")
        BY <1>3, <3>4
      <4> QED
        BY <3>3, <4>1, <4>2
    <3>6. Owner'
      BY <3>2
    <3>7. Settled' /\ Bound' /\ AnswersOwnCommand'
      BY <1>3, <3>1, <3>3, <3>4
    <3> QED
      BY <3>5, <3>6, <3>7
  <2> QED
    BY <2>1, <2>2
<1>4. ASSUME NEW p \in Callers, Crash(p)
      PROVE  Record'
  BY <1>4 DEF Crash
<1>5. CASE Expire
  BY <1>5 DEF Expire
<1>6. CASE UNCHANGED vars
  BY <1>6 DEF vars
<1> QED
  BY <1>1, <1>2, <1>3, <1>4, <1>5, <1>6 DEF Next, Complete, Fail

\* The command of a record is run in time once and by one caller, and no caller is
\* answered with the response to another one.
LEMMA RecordSound == Record => TypeOK /\ RunsOnce /\ AnswersOwnCommand
BY DEF Record, TypeOK, Owner, Settled, RunsOnce

-----------------------------------------------------------------------------
\* Projection checkpoints.

CheckpointTyped ==
  /\ saved \in BOOLEAN /\ row \in Chk!Checkpoints
  /\ prepared \in [Projectors -> {<<>>} \cup {<<c>> : c \in Chk!Checkpoints}]
  /\ furthest \in 0..MaxEvent
  /\ row.updated <= clock /\ clock \in 0..MaxTime
  /\ \A p \in Projectors : prepared[p] # <<>> => prepared[p][1].updated <= clock

\* Until a sequence is on record, none has been saved since one was left out.
OnRecord ==
  /\ row.sequence # Chk!Undefined => row.sequence = furthest
  /\ ~saved \/ row.sequence = Chk!Undefined => furthest = 0

\* Wherever an event has both, its time is its sequence.
Consistent(c) == c.sequence # Chk!Undefined /\ c.occurred # Chk!Undefined => c.occurred = c.sequence
Agree ==
  /\ Consistent(row)
  /\ \A p \in Projectors : prepared[p] # <<>> => Consistent(prepared[p][1])

Checkpoint == CheckpointTyped /\ OnRecord /\ Agree

\* Nothing is saved, nothing is prepared.
LEMMA CheckpointInit == Chk!CheckpointAssumption /\ Chk!Init => Checkpoint
<1> SUFFICES ASSUME Chk!CheckpointAssumption, Chk!Init PROVE Checkpoint
  OBVIOUS
<1>1. row = [sequence |-> 0, occurred |-> 0, updated |-> 0] /\ row \in Chk!Checkpoints
  BY DEF Chk!CheckpointAssumption, Chk!Init, Chk!Checkpoints, Chk!Undefined
<1>2. \A p \in Projectors : prepared[p] = <<>>
  BY DEF Chk!Init
<1>3. prepared \in [Projectors -> {<<>>} \cup {<<c>> : c \in Chk!Checkpoints}]
  BY DEF Chk!Init
<1>4. row.sequence = 0 /\ row.occurred = 0 /\ row.updated = 0
      /\ furthest = 0 /\ clock = 0 /\ saved = FALSE
  BY <1>1 DEF Chk!Init
<1>5. CheckpointTyped
  <2>1. furthest \in 0..MaxEvent /\ row.updated <= clock /\ clock \in 0..MaxTime
    BY <1>4 DEF Chk!CheckpointAssumption
  <2>2. \A p \in Projectors : prepared[p] # <<>> => prepared[p][1].updated <= clock
    BY <1>2
  <2>3. saved \in BOOLEAN
    BY <1>4
  <2> QED
    BY <1>1, <1>3, <2>1, <2>2, <2>3, Zenon DEF CheckpointTyped
<1>6. OnRecord
  BY <1>4 DEF OnRecord
<1>7. Agree
  BY <1>2, <1>4 DEF Agree, Consistent
<1> QED
  BY <1>5, <1>6, <1>7 DEF Checkpoint

\* Every step keeps the checkpoint at the furthest sequence.
LEMMA CheckpointKept ==
  ASSUME Chk!CheckpointAssumption, Checkpoint, [Chk!Next]_(Chk!vars)
  PROVE  Checkpoint'
<1> USE DEF Chk!CheckpointAssumption, Checkpoint, CheckpointTyped, OnRecord, Agree, Chk!Checkpoints, Chk!Undefined
<1>1. ASSUME NEW p \in Projectors, NEW c \in Chk!Checkpoints, Chk!Prepare(p, c) PROVE Checkpoint'
  <2>1. prepared' = [prepared EXCEPT ![p] = <<c>>] /\ UNCHANGED <<saved, row, clock, furthest>>
        /\ c.updated = clock /\ Consistent(c)
    BY <1>1 DEF Chk!Prepare, Consistent
  <2>2. \A q \in Projectors : prepared'[q] = IF q = p THEN <<c>> ELSE prepared[q]
    BY <2>1
  <2>3. \A q \in Projectors : prepared'[q] # <<>> =>
          prepared'[q][1].updated <= clock' /\ Consistent(prepared'[q][1])
    BY <2>1, <2>2
  <2>4. CheckpointTyped' /\ OnRecord'
    BY <2>1, <2>3
  <2>5. Agree'
    BY <2>1, <2>3 DEF Consistent
  <2> QED
    BY <2>4, <2>5
<1>2. ASSUME NEW p \in Projectors, Chk!Save(p) PROVE Checkpoint'
  <2>1. prepared' = [prepared EXCEPT ![p] = <<>>] /\ UNCHANGED clock /\ prepared[p] # <<>>
    BY <1>2 DEF Chk!Save
  <2>2. \A q \in Projectors : prepared'[q] = IF q = p THEN <<>> ELSE prepared[q]
    BY <2>1
  <2>3. prepared' \in [Projectors -> {<<>>} \cup {<<c>> : c \in Chk!Checkpoints}]
    BY <2>1
  <2>4. PICK new \in Chk!Checkpoints : new = prepared[p][1] /\ new.updated <= clock /\ Consistent(new)
    BY <2>1
  <2>5. CASE ~(~saved \/ Chk!Advances(row, new))
    <3>1. UNCHANGED <<saved, row, furthest>>
      BY <1>2, <2>4, <2>5 DEF Chk!Save
    <3> QED
      BY <2>1, <2>2, <2>3, <3>1 DEF Consistent
  <2>6. CASE ~saved \/ Chk!Advances(row, new)
    <3>1. saved' = TRUE /\ row' = new /\ furthest' = Chk!Furthest(new.sequence)
      BY <1>2, <2>4, <2>6 DEF Chk!Save
    <3>2. furthest' \in 0..MaxEvent
      BY <3>1 DEF Chk!Furthest
    <3>3. row'.sequence # Chk!Undefined => row'.sequence = furthest'
      BY <2>6, <3>1 DEF Chk!Furthest, Chk!Advances
    <3>4. row'.sequence = Chk!Undefined => furthest' = 0
      BY <3>1 DEF Chk!Furthest
    <3>5. CheckpointTyped'
      BY <2>1, <2>2, <2>3, <2>4, <3>1, <3>2
    <3>6. Agree'
      BY <2>2, <2>4, <3>1 DEF Consistent
    <3> QED
      BY <3>1, <3>3, <3>4, <3>5, <3>6
  <2> QED
    BY <2>5, <2>6
<1>3. CASE Chk!Tick
  BY <1>3 DEF Chk!Tick, Consistent
<1>4. CASE UNCHANGED Chk!vars
  BY <1>4 DEF Chk!vars, Consistent
<1> QED
  BY <1>1, <1>2, <1>3, <1>4 DEF Chk!Next

\* The sequence on record is the furthest saved.
LEMMA CheckpointSound == Checkpoint => Chk!NeverBackwards
BY DEF Checkpoint, OnRecord, Chk!NeverBackwards

\* All values have their types.
LEMMA CheckpointTypes == Chk!CheckpointAssumption /\ Checkpoint => Chk!TypeOK
<1> SUFFICES ASSUME Chk!CheckpointAssumption, Checkpoint PROVE Chk!TypeOK
  OBVIOUS
<1>1. row.sequence <= furthest
  BY DEF Checkpoint, CheckpointTyped, OnRecord, Chk!Undefined
<1>2. row.sequence # Chk!Undefined /\ row.occurred # Chk!Undefined => row.occurred = row.sequence
  BY DEF Checkpoint, Agree, Consistent
<1> QED
  BY <1>1, <1>2 DEF Checkpoint, CheckpointTyped, Chk!TypeOK

-----------------------------------------------------------------------------
\* Passkeys.

\* A request past its reading is about a challenge that exists.
Under == {"read", "verified", "failed"}
KeyTyped ==
  /\ issued \in 0..MaxIds
  /\ ceremony = [c \in Key!Ids |-> ceremony[c]]
  /\ life \in [Key!Ids -> {"none", "active", "consumed", "expired"}]
  /\ attempts \in [Key!Ids -> Nat] /\ successes \in [Key!Ids -> Nat] /\ wrong \in [Key!Ids -> Nat]
  /\ passkey \in [Credentials -> {"none", "ACTIVE", "REVOKED"}]
  /\ counter \in [Credentials -> Nat] /\ device \in [Credentials -> Nat]
  /\ stage \in [Requests -> Key!Stages]
  /\ ch = [r \in Requests |-> ch[r]] /\ pk = [r \in Requests |-> pk[r]]
  /\ sent = [r \in Requests |-> sent[r]]
  /\ \A r \in Requests : stage[r] \in Under =>
       ch[r] \in Key!Ids /\ ch[r] <= issued /\ pk[r] \in Credentials /\ sent[r] \in Nat

\* Until a challenge is consumed nobody has succeeded with it, and each failure is
\* an attempt of it.
OncePerChallenge(c) ==
  /\ life[c] = "none" <=> c > issued
  /\ life[c] # "consumed" => successes[c] = 0 /\ wrong[c] = attempts[c]
  /\ successes[c] <= 1 /\ (successes[c] = 1 => wrong[c] < MaxAttempts)

\* One challenge of a kind is open at a time.
OneOpen ==
  \A c, d \in Key!Ids :
    life[c] = "active" /\ life[d] = "active" /\ ceremony[c] = ceremony[d] => c = d

\* What has been verified with an open challenge is still ahead of the counter.
StillAhead(r) ==
  stage[r] = "verified" /\ ceremony[ch[r]] = "AUTHENTICATE" /\ life[ch[r]] = "active" =>
    passkey[pk[r]] # "none" /\ sent[r] >= counter[pk[r]]

\* The inductive invariant.
KeysKept ==
  /\ KeyTyped /\ OneOpen
  /\ \A c \in Key!Ids : OncePerChallenge(c)
  /\ \A r \in Requests : StillAhead(r)
  /\ \A p \in Credentials : passkey[p] = "none" => counter[p] = 0

\* No challenge has been issued.
LEMMA KeysInit == Key!PasskeysAssumption /\ Key!Init => KeysKept
<1> SUFFICES ASSUME Key!PasskeysAssumption, Key!Init PROVE KeysKept
  OBVIOUS
<1>1. KeyTyped
  BY DEF KeyTyped, Key!Init, Key!Stages, Under, Key!PasskeysAssumption
<1>2. OneOpen /\ \A c \in Key!Ids : OncePerChallenge(c)
  BY DEF OneOpen, OncePerChallenge, Key!Init, Key!Ids, Key!PasskeysAssumption
<1>3. /\ \A r \in Requests : StillAhead(r)
      /\ \A p \in Credentials : passkey[p] = "none" => counter[p] = 0
  BY DEF StillAhead, Key!Init
<1> QED
  BY <1>1, <1>2, <1>3 DEF KeysKept

\* What only moves a request, to no verdict.
LEMMA RequestMoves ==
  ASSUME KeysKept, UNCHANGED <<Key!challengeVars, Key!passkeyVars, successes, wrong>>,
         device' \in [Credentials -> Nat], NEW r \in Requests, NEW s \in Key!Stages \ {"verified"},
         stage' = [stage EXCEPT ![r] = s],
         ch' = [q \in Requests |-> ch'[q]], pk' = [q \in Requests |-> pk'[q]],
         sent' = [q \in Requests |-> sent'[q]],
         \A q \in Requests \ {r} : ch'[q] = ch[q] /\ pk'[q] = pk[q] /\ sent'[q] = sent[q],
         s \in Under => ch'[r] \in Key!Ids /\ ch'[r] <= issued /\ pk'[r] \in Credentials /\ sent'[r] \in Nat
  PROVE  KeysKept'
<1>1. UNCHANGED <<issued, ceremony, life, attempts, passkey, counter, successes, wrong>>
  BY DEF Key!challengeVars, Key!passkeyVars
<1>2. stage' \in [Requests -> Key!Stages] /\ stage'[r] = s /\ \A q \in Requests \ {r} : stage'[q] = stage[q]
  BY DEF KeysKept, KeyTyped
<1>3. KeyTyped'
  BY <1>1, <1>2 DEF KeysKept, KeyTyped
<1>4. \A q \in Requests : StillAhead(q)'
  BY <1>1, <1>2 DEF KeysKept, StillAhead
<1> QED
  BY <1>1, <1>3, <1>4 DEF KeysKept, OneOpen, OncePerChallenge

\* A success consumes its challenge; other requests are still ahead of the counters.
LEMMA Success ==
  ASSUME KeysKept, NEW r \in Requests, NEW c \in Key!Ids, c = ch[r], Key!Usable(c),
         Key!Succeed(r), UNCHANGED <<issued, ceremony, attempts, device, wrong>>,
         passkey' \in [Credentials -> {"none", "ACTIVE", "REVOKED"}], counter' \in [Credentials -> Nat],
         \A p \in Credentials : passkey'[p] = "none" => counter'[p] = 0,
         \A q \in Requests :
           (stage[q] = "verified" /\ ceremony[ch[q]] = "AUTHENTICATE" /\ life[ch[q]] = "active"
             /\ ch[q] # c) => passkey'[pk[q]] # "none" /\ sent[q] >= counter'[pk[q]]
  PROVE  KeysKept'
<1>0. KeyTyped /\ life[c] = "active" /\ attempts[c] < MaxAttempts /\ OncePerChallenge(c)
      /\ attempts[c] \in Nat /\ successes[c] \in Nat
  BY DEF KeysKept, KeyTyped, Key!Usable
<1>1. /\ stage' \in [Requests -> Key!Stages] /\ stage'[r] = "idle"
      /\ \A q \in Requests \ {r} : stage'[q] = stage[q]
  BY <1>0 DEF Key!Succeed, Key!Answer, KeyTyped, Key!Stages
<1>2. /\ ch' = [q \in Requests |-> ch'[q]] /\ pk' = [q \in Requests |-> pk'[q]]
      /\ sent' = [q \in Requests |-> sent'[q]]
      /\ \A q \in Requests \ {r} : ch'[q] = ch[q] /\ pk'[q] = pk[q] /\ sent'[q] = sent[q]
  BY <1>0 DEF Key!Succeed, Key!Answer, KeyTyped
<1>3. /\ life' \in [Key!Ids -> {"none", "active", "consumed", "expired"}] /\ life'[c] = "consumed"
      /\ \A d \in Key!Ids \ {c} : life'[d] = life[d]
      /\ successes' \in [Key!Ids -> Nat] /\ successes'[c] = successes[c] + 1
      /\ \A d \in Key!Ids \ {c} : successes'[d] = successes[d]
  BY <1>0 DEF Key!Succeed, KeyTyped
<1>4. KeyTyped'
  BY <1>0, <1>1, <1>2, <1>3 DEF KeyTyped, Under
<1>5. OneOpen'
  BY <1>0, <1>3 DEF KeysKept, OneOpen
<1>6. OncePerChallenge(c)'
  BY <1>0, <1>3 DEF OncePerChallenge
<1>7. \A d \in Key!Ids \ {c} : OncePerChallenge(d)'
  BY <1>3 DEF KeysKept, OncePerChallenge
<1>8. ASSUME NEW q \in Requests PROVE StillAhead(q)'
  <2>1. CASE stage'[q] = "verified"
    <3>1. q # r /\ stage[q] = "verified" /\ ch[q] \in Key!Ids
      BY <1>0, <1>1, <2>1 DEF KeyTyped, Under
    <3> QED
      BY <1>2, <1>3, <3>1 DEF StillAhead
  <2>2. CASE stage'[q] # "verified"
    BY <2>2 DEF StillAhead
  <2> QED
    BY <2>1, <2>2
<1> QED
  BY <1>4, <1>5, <1>6, <1>7, <1>8 DEF KeysKept

\* Every step keeps the challenges, and no counter falls.
LEMMA KeysStep ==
  ASSUME Key!PasskeysAssumption, KeysKept, [Key!Next]_(Key!vars)
  PROVE  KeysKept' /\ \A p \in Credentials : counter'[p] >= counter[p]
<1>0. KeyTyped /\ OneOpen
      /\ \A p \in Credentials : counter[p] \in Nat
  BY DEF KeysKept, KeyTyped
<1>1. ASSUME NEW r \in Requests, Key!Verify(r) PROVE KeysKept' /\ UNCHANGED counter
  <2>1. /\ stage[r] = "read" /\ stage' \in [Requests -> Key!Stages]
        /\ stage'[r] \in {"verified", "failed"} /\ \A q \in Requests \ {r} : stage'[q] = stage[q]
        /\ UNCHANGED <<issued, ceremony, life, attempts, passkey, counter, device, ch, pk, sent,
                       successes, wrong>>
    BY <1>0, <1>1
    DEF Key!Verify, Key!Goto, KeyTyped, Key!Stages, Key!challengeVars, Key!passkeyVars,
        Key!historyVars
  <2>2. ch[r] \in Key!Ids /\ ch[r] <= issued /\ pk[r] \in Credentials /\ sent[r] \in Nat
    BY <1>0, <2>1 DEF KeyTyped, Under
  <2>3. stage'[r] = "verified" /\ ceremony[ch[r]] = "AUTHENTICATE" => Key!Fits(pk[r], sent[r])
    BY <1>0, <1>1, <2>1 DEF Key!Verify, Key!Goto, KeyTyped
  <2>4. KeyTyped'
    BY <1>0, <2>1, <2>2 DEF KeyTyped, Under
  <2>5. StillAhead(r)'
    <3>1. counter[pk[r]] \in Nat
      BY <1>0, <2>2
    <3>2. Key!Fits(pk[r], sent[r]) => passkey[pk[r]] # "none" /\ sent[r] >= counter[pk[r]]
      BY <2>2, <3>1 DEF Key!Fits
    <3> QED
      BY <2>1, <2>3, <3>2 DEF StillAhead
  <2>6. \A q \in Requests \ {r} : StillAhead(q)'
    BY <2>1 DEF KeysKept, StillAhead
  <2> QED
    BY <2>1, <2>4, <2>5, <2>6 DEF KeysKept, OneOpen, OncePerChallenge
<1>2. ASSUME NEW r \in Requests, Key!VerifyWrong(r) PROVE KeysKept' /\ UNCHANGED counter
  <2>1. ch[r] \in Key!Ids /\ ch[r] <= issued /\ pk[r] \in Credentials /\ sent[r] \in Nat
    BY <1>0, <1>2 DEF KeyTyped, Key!VerifyWrong, Under
  <2>2. UNCHANGED counter
    BY <1>2 DEF Key!VerifyWrong, Key!passkeyVars
  <2> QED
    BY <1>0, <1>2, <2>1, <2>2, RequestMoves
    DEF Key!VerifyWrong, Key!Goto, KeyTyped, Key!Stages, Key!historyVars
<1>3. ASSUME NEW r \in Requests, Key!RecordFailure(r) PROVE KeysKept' /\ UNCHANGED counter
  <2>0. stage[r] = "failed" /\ ch[r] \in Key!Ids /\ ch[r] <= issued /\ life[ch[r]] # "none"
    BY <1>0, <1>3 DEF Key!RecordFailure, KeyTyped, Under, KeysKept, OncePerChallenge, Key!Ids
  <2>2. PICK c \in Key!Ids : c = ch[r] /\ c <= issued /\ life[c] # "none"
    BY <2>0
  <2> DEFINE open == life[c] \in {"active", "expired"}
  <2>1. /\ UNCHANGED <<issued, ceremony, passkey, counter, device, successes>>
        /\ attempts' = [attempts EXCEPT ![c] =
                    IF open /\ attempts[c] < MaxAttempts THEN attempts[c] + 1 ELSE attempts[c]]
        /\ life' = IF open /\ attempts'[c] + 1 >= MaxAttempts
                   THEN [life EXCEPT ![c] = "consumed"] ELSE life
        /\ wrong' = [wrong EXCEPT ![c] = IF successes[c] = 0 THEN wrong[c] + 1 ELSE wrong[c]]
    BY <1>3, <2>2 DEF Key!RecordFailure, Key!passkeyVars
  <2>3. attempts' \in [Key!Ids -> Nat] /\ wrong' \in [Key!Ids -> Nat]
    BY <1>0, <2>1, <2>2 DEF KeyTyped
  <2>4. /\ life' \in [Key!Ids -> {"none", "active", "consumed", "expired"}]
        /\ \A d \in Key!Ids : life'[d] = life[d] \/ (life'[d] = "consumed" /\ life[d] # "none")
        /\ \A d \in Key!Ids \ {c} : life'[d] = life[d] /\ attempts'[d] = attempts[d] /\ wrong'[d] = wrong[d]
    BY <1>0, <2>1, <2>2 DEF KeyTyped
  <2>5. OncePerChallenge(c)'
    <3>1. attempts[c] \in Nat /\ wrong[c] \in Nat /\ successes[c] \in Nat /\ OncePerChallenge(c)
      BY <1>0, <2>2 DEF KeyTyped, KeysKept
    <3>2. wrong'[c] = IF successes[c] = 0 THEN wrong[c] + 1 ELSE wrong[c]
      BY <1>0, <2>1, <2>2 DEF KeyTyped
    <3>3. attempts'[c] = IF open /\ attempts[c] < MaxAttempts THEN attempts[c] + 1 ELSE attempts[c]
      BY <1>0, <2>1, <2>2 DEF KeyTyped
    <3>4. CASE ~open
      <4>1. life[c] = "consumed" /\ life'[c] = "consumed"
        BY <1>0, <2>1, <2>2, <3>4 DEF KeyTyped
      <4> QED
        BY <2>1, <2>2, <3>1, <3>2, <4>1 DEF OncePerChallenge
    <3>5. CASE open
      <4>1. successes[c] = 0 /\ wrong[c] = attempts[c] /\ wrong'[c] = wrong[c] + 1
        BY <3>1, <3>2, <3>5 DEF OncePerChallenge
      <4>2. life'[c] # "consumed" => attempts[c] < MaxAttempts
        <5>1. CASE attempts'[c] + 1 >= MaxAttempts
          BY <1>0, <2>1, <2>2, <3>5, <5>1 DEF KeyTyped
        <5>2. CASE ~(attempts'[c] + 1 >= MaxAttempts)
          BY <3>1, <3>3, <3>5, <5>2 DEF Key!PasskeysAssumption
        <5> QED
          BY <5>1, <5>2
      <4>3. life'[c] # "consumed" => wrong'[c] = attempts'[c]
        BY <3>3, <3>5, <4>1, <4>2
      <4> QED
        BY <2>1, <2>2, <2>4, <3>1, <4>1, <4>3 DEF OncePerChallenge
    <3> QED
      BY <3>4, <3>5
  <2>6. \A d \in Key!Ids \ {c} : OncePerChallenge(d)'
    BY <2>1, <2>4 DEF KeysKept, OncePerChallenge
  <2>7. /\ stage' = [stage EXCEPT ![r] = "idle"]
        /\ ch' = [q \in Requests |-> ch'[q]] /\ pk' = [q \in Requests |-> pk'[q]]
        /\ sent' = [q \in Requests |-> sent'[q]]
        /\ \A q \in Requests \ {r} : ch'[q] = ch[q] /\ pk'[q] = pk[q] /\ sent'[q] = sent[q]
    BY <1>0, <1>3 DEF Key!RecordFailure, Key!Answer, KeyTyped
  <2>8. /\ stage' \in [Requests -> Key!Stages] /\ stage'[r] = "idle"
        /\ \A q \in Requests \ {r} : stage'[q] = stage[q]
    BY <1>0, <2>7 DEF KeyTyped, Key!Stages
  <2>9. KeyTyped'
    BY <1>0, <2>1, <2>3, <2>4, <2>7, <2>8 DEF KeyTyped, Under
  <2>10. OneOpen'
    BY <1>0, <2>1, <2>4 DEF OneOpen
  <2>11. ASSUME NEW q \in Requests PROVE StillAhead(q)'
    <3>1. CASE q = r
      BY <2>8, <3>1 DEF StillAhead
    <3>2. CASE q # r /\ stage[q] = "verified"
      <4>1. ch[q] \in Key!Ids
        BY <1>0, <3>2 DEF KeyTyped, Under
      <4> QED
        BY <2>1, <2>4, <2>7, <2>8, <3>2, <4>1 DEF KeysKept, StillAhead
    <3>3. CASE q # r /\ stage[q] # "verified"
      BY <2>8, <3>3 DEF StillAhead
    <3> QED
      BY <3>1, <3>2, <3>3
  <2> QED
    BY <2>1, <2>5, <2>6, <2>9, <2>10, <2>11 DEF KeysKept
<1>4. ASSUME NEW r \in Requests, NEW kind \in Key!Ceremonies, Key!AskBegin(r, kind)
      PROVE  KeysKept' /\ UNCHANGED counter
  <2>1. UNCHANGED counter
    BY <1>4 DEF Key!AskBegin, Key!passkeyVars
  <2>2. kind \in Key!Stages \ {"verified"} /\ kind \notin Under
    BY DEF Key!Stages, Key!Ceremonies, Under
  <2> QED
    BY <1>0, <1>4, <2>1, <2>2, RequestMoves
    DEF Key!AskBegin, Key!Goto, KeyTyped, Key!historyVars
<1>5. ASSUME NEW r \in Requests, NEW kind \in Key!Ceremonies, Key!Begin(r, kind)
      PROVE  KeysKept' /\ UNCHANGED counter
  <2>1. PICK n \in Key!Ids : n = issued + 1
    BY <1>0, <1>5 DEF Key!Begin, KeyTyped, Key!Ids, Key!PasskeysAssumption
  <2>2. /\ issued' = n /\ ceremony' = [ceremony EXCEPT ![n] = kind]
        /\ life' = [c \in Key!Ids |->
                      IF c = n THEN "active"
                      ELSE IF ceremony[c] = kind /\ life[c] \in {"active", "expired"}
                      THEN "consumed" ELSE life[c]]
        /\ stage' = [stage EXCEPT ![r] = "idle"]
        /\ UNCHANGED <<attempts, passkey, counter, device, successes, wrong>>
    BY <1>5, <2>1 DEF Key!Begin, Key!Answer, Key!passkeyVars, Key!historyVars
  <2>3. /\ ch' = [q \in Requests |-> ch'[q]] /\ pk' = [q \in Requests |-> pk'[q]]
        /\ sent' = [q \in Requests |-> sent'[q]]
        /\ \A q \in Requests \ {r} : ch'[q] = ch[q] /\ pk'[q] = pk[q] /\ sent'[q] = sent[q]
    BY <1>0, <1>5 DEF Key!Begin, Key!Answer, KeyTyped
  <2>4. /\ stage' \in [Requests -> Key!Stages] /\ stage'[r] = "idle"
        /\ \A q \in Requests \ {r} : stage'[q] = stage[q]
    BY <1>0, <2>2 DEF KeyTyped, Key!Stages
  <2>5. /\ life' \in [Key!Ids -> {"none", "active", "consumed", "expired"}]
        /\ life'[n] = "active" /\ life[n] = "none"
        /\ \A c \in Key!Ids \ {n} :
             \/ life'[c] = life[c] /\ (life[c] = "active" => ceremony[c] # kind)
             \/ life'[c] = "consumed" /\ life[c] \in {"active", "expired"}
    BY <1>0, <2>1, <2>2 DEF KeyTyped, KeysKept, OncePerChallenge, Key!Ids
  <2>6. /\ ceremony' = [c \in Key!Ids |-> ceremony'[c]] /\ ceremony'[n] = kind
        /\ \A c \in Key!Ids \ {n} : ceremony'[c] = ceremony[c]
    BY <1>0, <2>2 DEF KeyTyped
  <2>7. KeyTyped'
    <3>1. issued \in Nat /\ n \in 0..MaxIds
      BY <1>0, <2>1 DEF KeyTyped, Key!Ids, Key!PasskeysAssumption
    <3>2. ASSUME NEW q \in Requests, stage'[q] \in Under
          PROVE  ch'[q] \in Key!Ids /\ ch'[q] <= n /\ pk'[q] \in Credentials /\ sent'[q] \in Nat
      <4>1. q # r /\ ch[q] \in Key!Ids /\ ch[q] <= issued /\ pk[q] \in Credentials /\ sent[q] \in Nat
        BY <1>0, <2>4, <3>2 DEF KeyTyped, Under
      <4> QED
        BY <2>1, <2>3, <3>1, <4>1 DEF Key!Ids
    <3> QED
      BY <1>0, <2>2, <2>3, <2>4, <2>5, <2>6, <3>1, <3>2 DEF KeyTyped
  <2>8. OneOpen'
    BY <1>0, <2>5, <2>6 DEF OneOpen
  <2>9. ASSUME NEW c \in Key!Ids PROVE OncePerChallenge(c)'
    <3>1. OncePerChallenge(c) /\ c \in Nat /\ issued \in Nat
      BY <1>0 DEF KeysKept, KeyTyped, Key!Ids, Key!PasskeysAssumption
    <3>2. life'[c] = "none" <=> c > n
      BY <2>1, <2>5, <3>1 DEF OncePerChallenge
    <3>3. life'[c] # "consumed" => life[c] # "consumed"
      BY <2>5
    <3> QED
      BY <2>2, <3>1, <3>2, <3>3 DEF OncePerChallenge
  <2>10. ASSUME NEW q \in Requests PROVE StillAhead(q)'
    <3>1. CASE stage'[q] = "verified"
      <4>1. q # r /\ stage[q] = "verified" /\ ch[q] \in Key!Ids /\ ch[q] <= issued /\ ch[q] # n
        BY <1>0, <2>1, <2>4, <3>1 DEF KeyTyped, Under, Key!Ids
      <4>2. life'[ch[q]] = "active" => life[ch[q]] = "active"
        BY <2>5, <4>1
      <4> QED
        BY <2>2, <2>3, <2>6, <4>1, <4>2 DEF KeysKept, StillAhead
    <3>2. CASE stage'[q] # "verified"
      BY <3>2 DEF StillAhead
    <3> QED
      BY <3>1, <3>2
  <2> QED
    BY <2>2, <2>7, <2>8, <2>9, <2>10 DEF KeysKept
<1>6. ASSUME NEW r \in Requests, NEW c \in Key!Ids, NEW p \in Credentials, Key!Read(r, c, p)
      PROVE  KeysKept' /\ UNCHANGED counter
  <2>1. PICK n \in Key!Signatures(p) \cap 0..MaxCounter :
          device' = [device EXCEPT ![p] = n] /\ sent' = [sent EXCEPT ![r] = n]
    BY <1>6 DEF Key!Read
  <2>2. n \in Nat
    BY <2>1 DEF Key!PasskeysAssumption
  <2>3. UNCHANGED counter
    BY <1>6 DEF Key!Read, Key!passkeyVars
  <2>4. device' \in [Credentials -> Nat]
    BY <1>0, <2>1, <2>2 DEF KeyTyped
  <2>5. /\ ch' = [q \in Requests |-> ch'[q]] /\ pk' = [q \in Requests |-> pk'[q]]
        /\ sent' = [q \in Requests |-> sent'[q]]
        /\ \A q \in Requests \ {r} : ch'[q] = ch[q] /\ pk'[q] = pk[q] /\ sent'[q] = sent[q]
        /\ ch'[r] = c /\ pk'[r] = p /\ sent'[r] = n
    BY <1>0, <1>6, <2>1 DEF Key!Read, KeyTyped
  <2>6. c <= issued /\ stage' = [stage EXCEPT ![r] = "read"] /\ "read" \in Key!Stages \ {"verified"}
        /\ UNCHANGED <<Key!challengeVars, Key!passkeyVars, successes, wrong>>
    BY <1>6 DEF Key!Read, Key!Goto, Key!Stages, Key!historyVars
  <2> QED
    BY <2>2, <2>3, <2>4, <2>5, <2>6, RequestMoves
<1>7. ASSUME NEW r \in Requests, Key!CommitRegistration(r)
      PROVE  KeysKept' /\ \A p \in Credentials : counter'[p] >= counter[p]
  <2>1. stage[r] = "verified" /\ ch[r] \in Key!Ids /\ pk[r] \in Credentials /\ sent[r] \in Nat
        /\ ch[r] <= issued /\ ceremony[ch[r]] = "REGISTER"
    BY <1>0, <1>7 DEF Key!CommitRegistration, KeyTyped, Under
  <2>2. PICK c \in Key!Ids, p \in Credentials : c = ch[r] /\ p = pk[r]
    BY <2>1
  <2>3. CASE Key!Usable(c) /\ passkey[p] = "none"
    <3>1. /\ passkey' = [passkey EXCEPT ![p] = "ACTIVE"] /\ counter' = [counter EXCEPT ![p] = sent[r]]
          /\ Key!Succeed(r) /\ UNCHANGED <<issued, ceremony, attempts, device, wrong>>
      BY <1>7, <2>2, <2>3 DEF Key!CommitRegistration
    <3>2. /\ passkey' \in [Credentials -> {"none", "ACTIVE", "REVOKED"}] /\ counter' \in [Credentials -> Nat]
          /\ passkey'[p] = "ACTIVE"
          /\ \A o \in Credentials \ {p} : passkey'[o] = passkey[o] /\ counter'[o] = counter[o]
      BY <1>0, <2>1, <3>1 DEF KeyTyped
    <3>3. \A o \in Credentials : counter'[o] >= counter[o]
      BY <1>0, <2>3, <3>2 DEF KeysKept
    <3>4. ASSUME NEW q \in Requests,
                 stage[q] = "verified" /\ ceremony[ch[q]] = "AUTHENTICATE" /\ life[ch[q]] = "active"
          PROVE  passkey'[pk[q]] # "none" /\ sent[q] >= counter'[pk[q]]
      <4>1. pk[q] \in Credentials /\ passkey[pk[q]] # "none" /\ sent[q] >= counter[pk[q]]
        BY <1>0, <3>4 DEF KeysKept, StillAhead, KeyTyped, Under
      <4> QED
        BY <2>3, <3>2, <4>1
    <3>5. \A o \in Credentials : passkey'[o] = "none" => counter'[o] = 0
      BY <3>2 DEF KeysKept
    <3> QED
      BY <2>2, <2>3, <3>1, <3>2, <3>3, <3>4, <3>5, Success
  <2>4. CASE ~(Key!Usable(c) /\ passkey[p] = "none")
    <3>1. /\ stage' = [stage EXCEPT ![r] = "failed"] /\ "failed" \in Key!Stages \ {"verified"}
          /\ UNCHANGED <<Key!challengeVars, Key!passkeyVars, device, successes, wrong, ch, pk, sent>>
      BY <1>7, <2>2, <2>4
      DEF Key!CommitRegistration, Key!Goto, Key!Stages, Key!challengeVars, Key!passkeyVars
    <3>2. KeysKept'
      BY <1>0, <2>1, <3>1, RequestMoves DEF KeyTyped
    <3> QED
      BY <1>0, <3>1, <3>2 DEF Key!passkeyVars
  <2> QED
    BY <2>3, <2>4
<1>8. ASSUME NEW r \in Requests, Key!CommitAuthentication(r)
      PROVE  KeysKept' /\ \A p \in Credentials : counter'[p] >= counter[p]
  <2>1. stage[r] = "verified" /\ ch[r] \in Key!Ids /\ pk[r] \in Credentials /\ sent[r] \in Nat
        /\ ch[r] <= issued /\ ceremony[ch[r]] = "AUTHENTICATE"
    BY <1>0, <1>8 DEF Key!CommitAuthentication, KeyTyped, Under
  <2>2. PICK c \in Key!Ids, p \in Credentials : c = ch[r] /\ p = pk[r]
    BY <2>1
  <2>3. CASE Key!Usable(c)
    <3>1. /\ UNCHANGED passkey /\ Key!Succeed(r) /\ UNCHANGED <<issued, ceremony, attempts, device, wrong>>
          /\ counter' = IF passkey[p] = "ACTIVE" THEN [counter EXCEPT ![p] = sent[r]] ELSE counter
      BY <1>8, <2>2, <2>3 DEF Key!CommitAuthentication
    <3>2. /\ counter' \in [Credentials -> Nat]
          /\ counter'[p] \in {sent[r], counter[p]}
          /\ passkey[p] # "ACTIVE" => counter'[p] = counter[p]
          /\ \A o \in Credentials \ {p} : counter'[o] = counter[o]
      BY <1>0, <2>1, <3>1 DEF KeyTyped
    <3>3. sent[r] >= counter[p]
      BY <2>1, <2>2, <2>3 DEF KeysKept, StillAhead, Key!Usable
    <3>4. \A o \in Credentials : counter'[o] >= counter[o]
      BY <1>0, <3>2, <3>3
    <3>5. ASSUME NEW q \in Requests,
                 stage[q] = "verified" /\ ceremony[ch[q]] = "AUTHENTICATE" /\ life[ch[q]] = "active"
                   /\ ch[q] # c
          PROVE  passkey'[pk[q]] # "none" /\ sent[q] >= counter'[pk[q]]
      <4>1. ch[q] \in Key!Ids
        BY <1>0, <3>5 DEF KeyTyped, Under
      <4> QED
        BY <1>0, <2>1, <2>2, <2>3, <3>5, <4>1 DEF OneOpen, Key!Usable
    <3>6. \A o \in Credentials : passkey'[o] = "none" => counter'[o] = 0
      BY <3>1, <3>2 DEF KeysKept
    <3> QED
      BY <1>0, <2>2, <2>3, <3>1, <3>2, <3>4, <3>5, <3>6, Success DEF KeyTyped
  <2>4. CASE ~Key!Usable(c)
    <3>1. /\ stage' = [stage EXCEPT ![r] = "failed"] /\ "failed" \in Key!Stages \ {"verified"}
          /\ UNCHANGED <<Key!challengeVars, Key!passkeyVars, device, successes, wrong, ch, pk, sent>>
      BY <1>8, <2>2, <2>4
      DEF Key!CommitAuthentication, Key!Goto, Key!Stages, Key!challengeVars, Key!passkeyVars
    <3>2. KeysKept'
      BY <1>0, <2>1, <3>1, RequestMoves DEF KeyTyped
    <3> QED
      BY <1>0, <3>1, <3>2 DEF Key!passkeyVars
  <2> QED
    BY <2>3, <2>4
<1>9. ASSUME NEW p \in Credentials, Key!Revoke(p) PROVE KeysKept' /\ UNCHANGED counter
  <2>1. UNCHANGED <<issued, ceremony, life, attempts, counter, device, stage, ch, pk, sent, successes, wrong>>
    BY <1>9 DEF Key!Revoke, Key!challengeVars, Key!requestVars, Key!historyVars
  <2>2. /\ passkey' \in [Credentials -> {"none", "ACTIVE", "REVOKED"}]
        /\ \A q \in Credentials : passkey'[q] = "none" <=> passkey[q] = "none"
    BY <1>0, <1>9 DEF Key!Revoke, KeyTyped
  <2>3. KeyTyped'
    BY <1>0, <2>1, <2>2 DEF KeyTyped
  <2>4. ASSUME NEW q \in Requests PROVE StillAhead(q)'
    <3>1. CASE stage[q] = "verified"
      BY <1>0, <2>1, <2>2, <3>1 DEF KeysKept, StillAhead, KeyTyped, Under
    <3>2. CASE stage[q] # "verified"
      BY <2>1, <3>2 DEF StillAhead
    <3> QED
      BY <3>1, <3>2
  <2> QED
    BY <2>1, <2>2, <2>3, <2>4 DEF KeysKept, OneOpen, OncePerChallenge
<1>10. ASSUME NEW c \in Key!Ids, Key!Expire(c) PROVE KeysKept' /\ UNCHANGED counter
  <2>1. UNCHANGED <<issued, ceremony, attempts, passkey, counter, device, stage, ch, pk, sent, successes, wrong>>
    BY <1>10 DEF Key!Expire, Key!passkeyVars, Key!requestVars, Key!historyVars
  <2>2. /\ life' \in [Key!Ids -> {"none", "active", "consumed", "expired"}]
        /\ \A d \in Key!Ids : life'[d] = life[d] \/ (life'[d] = "expired" /\ life[d] = "active")
    BY <1>0, <1>10 DEF Key!Expire, KeyTyped
  <2>3. KeyTyped' /\ OneOpen'
    BY <1>0, <2>1, <2>2 DEF KeyTyped, OneOpen
  <2>4. ASSUME NEW q \in Requests PROVE StillAhead(q)'
    <3>1. CASE stage[q] = "verified"
      BY <1>0, <2>1, <2>2, <3>1 DEF KeysKept, StillAhead, KeyTyped, Under
    <3>2. CASE stage[q] # "verified"
      BY <2>1, <3>2 DEF StillAhead
    <3> QED
      BY <3>1, <3>2
  <2>5. ASSUME NEW d \in Key!Ids PROVE OncePerChallenge(d)'
    BY <2>1, <2>2 DEF KeysKept, OncePerChallenge
  <2> QED
    BY <2>1, <2>3, <2>4, <2>5 DEF KeysKept
<1>11. CASE Key!SetEnabled \/ UNCHANGED Key!vars
  <2>1. UNCHANGED <<issued, ceremony, life, attempts, passkey, counter, device, stage, ch, pk, sent,
                    successes, wrong>>
    BY <1>11
    DEF Key!SetEnabled, Key!vars, Key!challengeVars, Key!passkeyVars, Key!requestVars,
        Key!historyVars
  <2>2. KeysKept'
    BY <1>0, <2>1 DEF KeysKept, KeyTyped, OneOpen, OncePerChallenge, StillAhead
  <2> QED
    BY <1>0, <2>1, <2>2
<1>12. ASSUME KeysKept' /\ UNCHANGED counter
       PROVE  KeysKept' /\ \A p \in Credentials : counter'[p] >= counter[p]
  BY <1>0, <1>12
<1>13. CASE \E r \in Requests : Key!Verify(r) \/ Key!VerifyWrong(r) \/ Key!RecordFailure(r)
  BY <1>1, <1>2, <1>3, <1>12, <1>13
<1>14. CASE \E r \in Requests, kind \in Key!Ceremonies : Key!AskBegin(r, kind) \/ Key!Begin(r, kind)
  BY <1>4, <1>5, <1>12, <1>14
<1>15. CASE \/ \E r \in Requests, c \in Key!Ids, p \in Credentials : Key!Read(r, c, p)
            \/ \E p \in Credentials : Key!Revoke(p)
            \/ \E c \in Key!Ids : Key!Expire(c)
  BY <1>6, <1>9, <1>10, <1>12, <1>15
<1>16. CASE \E r \in Requests : Key!CommitRegistration(r) \/ Key!CommitAuthentication(r)
  BY <1>7, <1>8, <1>16
<1> QED
  BY <1>11, <1>12, <1>13, <1>14, <1>15, <1>16 DEF Key!Next

\* A challenge succeeds once, after fewer failures than it allows.
LEMMA KeysSound == KeysKept => Key!OneSuccessPerChallenge
BY DEF KeysKept, OncePerChallenge, Key!OneSuccessPerChallenge

\* The types, and with them: a challenge that is open has another attempt before the last.
KeyTypes ==
  /\ Key!TypeOK
  /\ \A c \in Key!Ids : /\ life[c] = "none" => attempts[c] = 0
                        /\ life[c] \in {"active", "expired"} => attempts[c] + 1 < MaxAttempts

\* They hold as long as there is no challenge.
LEMMA KeyTypesInit == Key!PasskeysAssumption /\ Key!Init => KeyTypes
BY DEF Key!PasskeysAssumption, Key!Init, KeyTypes, Key!TypeOK, Key!Ids, Key!Ceremonies,
   Key!Stages

\* A request that ends knows a challenge and a passkey.
LEMMA AnswerTyped ==
  ASSUME Key!PasskeysAssumption, Key!TypeOK, NEW r \in Requests, Key!Answer(r)
  PROVE  /\ stage' \in [Requests -> Key!Stages] /\ ch' \in [Requests -> Key!Ids]
         /\ pk' \in [Requests -> Credentials] /\ sent' \in [Requests -> 0..MaxCounter]
         /\ stage'[r] = "idle"
         /\ \A q \in Requests \ {r} : stage'[q] = stage[q] /\ ch'[q] = ch[q]
<1>1. 1 \in Key!Ids /\ 0 \in 0..MaxCounter /\ "idle" \in Key!Stages
  BY DEF Key!PasskeysAssumption, Key!Ids, Key!Stages
<1>2. (CHOOSE p \in Credentials : TRUE) \in Credentials
  BY DEF Key!PasskeysAssumption
<1> QED
  BY <1>1, <1>2 DEF Key!Answer, Key!TypeOK

\* Each step of the passkeys keeps them.
LEMMA KeyTypesKept == Key!PasskeysAssumption /\ KeyTypes /\ [Key!Next]_(Key!vars) => KeyTypes'
<1> SUFFICES ASSUME Key!PasskeysAssumption, KeyTypes, [Key!Next]_(Key!vars) PROVE KeyTypes'
  OBVIOUS
<1> DEFINE Left(c) == /\ life[c] = "none" => attempts[c] = 0
                      /\ life[c] \in {"active", "expired"} => attempts[c] + 1 < MaxAttempts
<1>1. Key!TypeOK /\ \A c \in Key!Ids : Left(c)
  BY DEF KeyTypes
<1>2. /\ MaxAttempts \in Nat \ {0, 1} /\ MaxIds \in Nat /\ MaxCounter \in Nat /\ MaxSwitches \in Nat
  BY DEF Key!PasskeysAssumption
<1>3. ASSUME NEW r \in Requests, Key!Verify(r) \/ Key!VerifyWrong(r) PROVE KeyTypes'
  BY <1>1, <1>3
  DEF KeyTypes, Key!TypeOK, Key!Verify, Key!VerifyWrong, Key!Goto, Key!Stages,
      Key!challengeVars, Key!passkeyVars,
     Key!historyVars
<1>4. ASSUME NEW r \in Requests, NEW kind \in Key!Ceremonies, Key!AskBegin(r, kind) PROVE KeyTypes'
  BY <1>1, <1>4
  DEF KeyTypes, Key!TypeOK, Key!AskBegin, Key!Goto, Key!Stages, Key!Ceremonies,
      Key!challengeVars, Key!passkeyVars,
     Key!historyVars
<1>5. ASSUME NEW r \in Requests, NEW kind \in Key!Ceremonies, Key!Begin(r, kind) PROVE KeyTypes'
  <2> DEFINE n == issued + 1
  <2>0. issued \in Nat /\ n \in Key!Ids /\ n \in 0..MaxIds
    BY <1>1, <1>2, <1>5 DEF Key!TypeOK, Key!Begin, Key!Ids
  <2>1. /\ issued' = n /\ ceremony' \in [Key!Ids -> Key!Ceremonies]
        /\ enabled' = enabled /\ attempts' = attempts /\ passkey' = passkey /\ counter' = counter
        /\ device' = device /\ successes' = successes /\ wrong' = wrong /\ switches' = switches
    BY <1>1, <1>5 DEF Key!TypeOK, Key!Begin, Key!passkeyVars, Key!historyVars
  <2>2. ASSUME NEW c \in Key!Ids
        PROVE  /\ life'[c] \in {"none", "active", "consumed", "expired"}
               /\ (life'[c] = "none" <=> c > issued')
               /\ Left(c)'
    <3>1. /\ life[c] \in {"none", "active", "consumed", "expired"} /\ (life[c] = "none" <=> c > issued)
          /\ Left(c) /\ attempts[c] \in Nat /\ c \in Nat
      BY <1>1, <1>2 DEF Key!TypeOK, Key!Ids
    <3>2. CASE c = n
      <4>1. life'[c] = "active" /\ life[c] = "none" /\ attempts'[c] = 0
        BY <1>5, <2>0, <2>1, <3>1, <3>2 DEF Key!Begin
      <4> QED
        BY <1>2, <2>0, <2>1, <3>1, <3>2, <4>1
    <3>3. CASE c # n
      <4>1. life'[c] = life[c] \/ (life'[c] = "consumed" /\ life[c] # "none")
        BY <1>5, <3>1, <3>3 DEF Key!Begin
      <4>2. c > n <=> c > issued
        BY <2>0, <3>1, <3>3
      <4> QED
        BY <2>1, <3>1, <4>1, <4>2
    <3> QED
      BY <3>2, <3>3
  <2>3. life' \in [Key!Ids -> {"none", "active", "consumed", "expired"}]
    BY <1>5, <2>2 DEF Key!Begin
  <2>4. Key!Answer(r)
    BY <1>5 DEF Key!Begin
  <2>5. ASSUME NEW q \in Requests, stage'[q] \in {"read", "verified", "failed"} PROVE ch'[q] <= issued'
    <3>1. q # r /\ stage'[q] = stage[q] /\ ch'[q] = ch[q]
      BY <1>1, <2>4, <2>5, AnswerTyped
    <3>2. ch[q] <= issued /\ ch[q] \in Nat
      BY <1>1, <2>5, <3>1 DEF Key!TypeOK, Key!Ids
    <3> QED
      BY <2>0, <2>1, <3>1, <3>2
  <2> QED
    BY <1>1, <2>0, <2>1, <2>2, <2>3, <2>4, <2>5, AnswerTyped DEF KeyTypes, Key!TypeOK
<1>6. ASSUME NEW r \in Requests, NEW c \in Key!Ids, NEW p \in Credentials, Key!Read(r, c, p) PROVE KeyTypes'
  <2>1. PICK n \in Key!Signatures(p) \cap 0..MaxCounter :
          device' = [device EXCEPT ![p] = n] /\ sent' = [sent EXCEPT ![r] = n]
    BY <1>6 DEF Key!Read
  <2>2. /\ stage' = [stage EXCEPT ![r] = "read"] /\ ch' = [ch EXCEPT ![r] = c]
        /\ pk' = [pk EXCEPT ![r] = p] /\ c <= issued
        /\ enabled' = enabled /\ issued' = issued /\ ceremony' = ceremony /\ life' = life
        /\ attempts' = attempts /\ passkey' = passkey /\ counter' = counter
        /\ successes' = successes /\ wrong' = wrong /\ switches' = switches
    BY <1>6 DEF Key!Read, Key!Goto, Key!challengeVars, Key!passkeyVars, Key!historyVars
  <2> QED
    BY <1>1, <2>1, <2>2 DEF KeyTypes, Key!TypeOK, Key!Stages
<1>7. ASSUME NEW r \in Requests, Key!CommitRegistration(r) \/ Key!CommitAuthentication(r) PROVE KeyTypes'
  <2>1. /\ stage[r] = "verified" /\ ch[r] \in Key!Ids /\ pk[r] \in Credentials /\ sent[r] \in 0..MaxCounter
        /\ enabled' = enabled /\ issued' = issued /\ ceremony' = ceremony /\ attempts' = attempts
        /\ device' = device /\ wrong' = wrong /\ switches' = switches
        /\ ch[r] <= issued
    BY <1>1, <1>7 DEF Key!TypeOK, Key!CommitRegistration, Key!CommitAuthentication
  <2>2. CASE Key!Succeed(r)
    <3>1. /\ passkey' \in [Credentials -> {"none", "ACTIVE", "REVOKED"}]
          /\ counter' \in [Credentials -> 0..MaxCounter]
      BY <1>1, <1>7, <2>1
      DEF Key!TypeOK, Key!CommitRegistration, Key!CommitAuthentication, Key!passkeyVars
    <3>2. /\ life' = [life EXCEPT ![ch[r]] = "consumed"]
          /\ successes' = [successes EXCEPT ![ch[r]] = @ + 1] /\ Key!Answer(r)
      BY <2>2 DEF Key!Succeed
    <3>3. /\ life' \in [Key!Ids -> {"none", "active", "consumed", "expired"}]
          /\ successes' \in [Key!Ids -> Nat]
          /\ \A c \in Key!Ids : (life'[c] = "none" <=> c > issued) /\ Left(c)'
      BY <1>1, <2>1, <3>2 DEF Key!TypeOK, Key!Ids
    <3>4. ASSUME NEW q \in Requests, stage'[q] \in {"read", "verified", "failed"} PROVE ch'[q] <= issued
      <4>1. q # r /\ stage'[q] = stage[q] /\ ch'[q] = ch[q]
        BY <1>1, <3>2, <3>4, AnswerTyped
      <4> QED
        BY <1>1, <3>4, <4>1 DEF Key!TypeOK
    <3> QED
      BY <1>1, <2>1, <3>1, <3>2, <3>3, <3>4, AnswerTyped DEF KeyTypes, Key!TypeOK
  <2>3. CASE ~Key!Succeed(r)
    <3>1. /\ stage' = [stage EXCEPT ![r] = "failed"] /\ passkey' = passkey /\ counter' = counter
          /\ life' = life /\ successes' = successes /\ ch' = ch /\ pk' = pk /\ sent' = sent
      BY <1>7, <2>3
      DEF Key!CommitRegistration, Key!CommitAuthentication, Key!Goto, Key!passkeyVars
    <3> QED
      BY <1>1, <2>1, <3>1 DEF KeyTypes, Key!TypeOK, Key!Stages
  <2> QED
    BY <2>2, <2>3
<1>8. ASSUME NEW r \in Requests, Key!RecordFailure(r) PROVE KeyTypes'
  <2>c. PICK c \in Key!Ids : c = ch[r]
    BY <1>1 DEF Key!TypeOK
  <2> DEFINE open == life[c] \in {"active", "expired"}
  <2>1. /\ stage[r] = "failed" /\ c \in Key!Ids /\ c <= issued /\ issued \in Nat /\ attempts[c] \in Nat
        /\ Key!Answer(r) /\ life[c] # "none"
        /\ enabled' = enabled /\ issued' = issued /\ ceremony' = ceremony /\ passkey' = passkey
        /\ counter' = counter /\ device' = device /\ successes' = successes /\ switches' = switches
    BY <1>1, <1>2, <1>8, <2>c DEF Key!TypeOK, Key!RecordFailure, Key!passkeyVars, Key!Ids
  <2>2. /\ attempts' = [attempts EXCEPT ![c] = IF open /\ @ < MaxAttempts THEN @ + 1 ELSE @]
        /\ life' = (IF open /\ attempts'[c] + 1 >= MaxAttempts
                    THEN [life EXCEPT ![c] = "consumed"] ELSE life)
        /\ wrong' \in [Key!Ids -> Nat]
    BY <1>1, <1>8, <2>1, <2>c DEF Key!TypeOK, Key!RecordFailure
  <2>3. \A d \in Key!Ids \ {c} : attempts'[d] = attempts[d] /\ life'[d] = life[d]
    BY <1>1, <2>1, <2>2 DEF Key!TypeOK
  <2>4. /\ attempts'[c] \in 0..MaxAttempts - 1 /\ Left(c)' /\ life'[c] # "none"
        /\ life'[c] \in {"none", "active", "consumed", "expired"}
    <3>0. /\ life[c] \in {"active", "consumed", "expired"} /\ attempts[c] \in 0..MaxAttempts - 1
          /\ (open => attempts[c] + 1 < MaxAttempts)
      BY <1>1, <2>1 DEF Key!TypeOK
    <3>1. CASE open
      <4>1. attempts[c] < MaxAttempts
        BY <1>2, <2>1, <3>0, <3>1
      <4>2. attempts'[c] = attempts[c] + 1
        BY <1>1, <2>1, <2>2, <3>1, <4>1 DEF Key!TypeOK
      <4>3. CASE attempts'[c] + 1 >= MaxAttempts
        <5>1. life'[c] = "consumed"
          BY <1>1, <2>1, <2>2, <3>1, <4>3 DEF Key!TypeOK
        <5> QED
          BY <1>2, <2>1, <3>0, <3>1, <4>2, <5>1
      <4>4. CASE ~(attempts'[c] + 1 >= MaxAttempts)
        <5>1. life'[c] = life[c]
          BY <2>2, <4>4
        <5> QED
          BY <1>2, <2>1, <3>0, <3>1, <4>2, <4>4, <5>1
      <4> QED
        BY <4>3, <4>4
    <3>2. CASE ~open
      <4>1. attempts'[c] = attempts[c] /\ life' = life
        BY <1>1, <2>1, <2>2, <3>2 DEF Key!TypeOK
      <4> QED
        BY <2>1, <3>0, <3>2, <4>1
    <3> QED
      BY <3>1, <3>2
  <2>5. /\ attempts' \in [Key!Ids -> 0..MaxAttempts - 1]
        /\ life' \in [Key!Ids -> {"none", "active", "consumed", "expired"}]
    BY <1>1, <2>1, <2>2, <2>3, <2>4 DEF Key!TypeOK
  <2>6. \A d \in Key!Ids : (life'[d] = "none" <=> d > issued) /\ Left(d)'
    <3> SUFFICES ASSUME NEW d \in Key!Ids PROVE (life'[d] = "none" <=> d > issued) /\ Left(d)'
      OBVIOUS
    <3>1. CASE d = c
      <4>1. ~(c > issued)
        BY <1>2, <2>1 DEF Key!Ids
      <4> QED
        BY <2>4, <3>1, <4>1
    <3>2. CASE d # c
      BY <1>1, <2>3, <3>2 DEF Key!TypeOK
    <3> QED
      BY <3>1, <3>2
  <2>7. ASSUME NEW q \in Requests, stage'[q] \in {"read", "verified", "failed"} PROVE ch'[q] <= issued
    <3>1. q # r /\ stage'[q] = stage[q] /\ ch'[q] = ch[q]
      BY <1>1, <2>1, <2>7, AnswerTyped
    <3> QED
      BY <1>1, <2>7, <3>1 DEF Key!TypeOK
  <2> QED
    BY <1>1, <2>1, <2>2, <2>5, <2>6, <2>7, AnswerTyped DEF KeyTypes, Key!TypeOK
<1>9. ASSUME NEW p \in Credentials, Key!Revoke(p) PROVE KeyTypes'
  BY <1>1, <1>9
  DEF KeyTypes, Key!TypeOK, Key!Revoke, Key!challengeVars, Key!requestVars, Key!historyVars
<1>10. CASE Key!SetEnabled
  BY <1>1, <1>2, <1>10
  DEF KeyTypes, Key!TypeOK, Key!SetEnabled, Key!challengeVars, Key!passkeyVars, Key!requestVars,
     Key!historyVars
<1>11. ASSUME NEW c \in Key!Ids, Key!Expire(c) PROVE KeyTypes'
  BY <1>1, <1>11
  DEF KeyTypes, Key!TypeOK, Key!Expire, Key!passkeyVars, Key!requestVars, Key!historyVars
<1>12. CASE UNCHANGED Key!vars
  BY <1>1, <1>12
  DEF KeyTypes, Key!TypeOK, Key!vars, Key!challengeVars, Key!passkeyVars, Key!requestVars,
      Key!historyVars
<1> QED
  BY <1>3, <1>4, <1>5, <1>6, <1>7, <1>8, <1>9, <1>10, <1>11, <1>12 DEF Key!Next

-----------------------------------------------------------------------------
\* OIDC login.

\* No employee is called none.
EmployeesNamed == Sso!None \notin Users

\* Values and their types; a callback knows its challenge.
LoginTyped ==
  /\ employed \subseteq Users
  /\ challenge \in [Challenges -> {Sso!None, "open", "consumed", "expired"}]
  /\ link \in [FederatedSubjects -> Users \cup {Sso!None}]
  /\ login \in [Logins -> [stage : {"idle", "begin", "callback", "exchange", "unlinked"},
                           challenge : Challenges \cup {Sso!None}, subject : FederatedSubjects \cup {Sso!None},
                           email : Users \cup {Sso!None}]]
  /\ \A l \in Logins :
       /\ login[l].stage \in {"callback", "exchange", "unlinked"} => login[l].challenge \in Challenges
       /\ login[l].stage = "unlinked" => login[l].subject \in FederatedSubjects
  /\ signedIn \subseteq [challenge : Challenges, subject : FederatedSubjects, user : Users, by : Logins]

\* What was open as the provider was disabled is consumed, by nobody.
ClosedConsumed == closed \subseteq {c \in Challenges : challenge[c] = "consumed"}

\* Who consumed a challenge has it alone, and nobody has signed in with it yet.
Exchanging(l) == login[l].stage \in {"exchange", "unlinked"}
ConsumedAlone ==
  \A l \in Logins : Exchanging(l) =>
    /\ challenge[login[l].challenge] = "consumed" /\ login[l].challenge \notin closed
    /\ \A a \in signedIn : a.challenge # login[l].challenge
    /\ \A m \in Logins : Exchanging(m) /\ login[m].challenge = login[l].challenge => m = l

\* An employee has one subject.
OneSubject == \A s, t \in FederatedSubjects : link[s] = link[t] /\ link[s] # Sso!None => s = t

\* Who signed in did it with a challenge of their own, as whom the subject is linked to.
SignedAsLinked ==
  \A a \in signedIn :
    /\ challenge[a.challenge] = "consumed" /\ a.challenge \notin closed
    /\ link[a.subject] = a.user
    /\ \A b \in signedIn : a.challenge = b.challenge => a = b

\* The inductive invariant.
SignedIn ==
  /\ LoginTyped /\ ClosedConsumed /\ ConsumedAlone /\ OneSubject /\ SignedAsLinked

\* Nobody has signed in.
LEMMA SignedInInit == Sso!Init => SignedIn
BY DEF Sso!Init, SignedIn, LoginTyped, ClosedConsumed, ConsumedAlone, OneSubject,
   SignedAsLinked,
       Exchanging, Sso!Idle, Sso!None

\* What moves a login that consumes nothing, as anybody may.
LEMMA LoginMoves ==
  ASSUME SignedIn, LoginTyped', UNCHANGED <<challenge, link, signedIn, closed>>,
         \A l \in Logins : login'[l] = login[l] \/ ~Exchanging(l)'
  PROVE  SignedIn'
BY DEF SignedIn, ClosedConsumed, ConsumedAlone, OneSubject, SignedAsLinked, Exchanging

\* A challenge changes that nobody exchanges.
LEMMA ChallengeMoves ==
  ASSUME SignedIn, LoginTyped', UNCHANGED <<link, signedIn, closed>>,
         \A c \in Challenges : challenge[c] = "consumed" => challenge'[c] = "consumed",
         \A l \in Logins : login'[l] = login[l] \/ ~Exchanging(l)'
  PROVE  SignedIn'
BY DEF SignedIn, LoginTyped, ClosedConsumed, ConsumedAlone, OneSubject, SignedAsLinked,
   Exchanging

\* Whoever exchanges a challenge may sign in as the one the subject is linked to.
LEMMA SignInKept ==
  ASSUME SignedIn, UNCHANGED <<employed, challenge, closed>>,
         NEW l \in Logins, Exchanging(l), NEW s \in FederatedSubjects, NEW u \in Users, Sso!SignIn(l, s, u),
         link' \in [FederatedSubjects -> Users \cup {Sso!None}], link'[s] = u, OneSubject',
         \A t \in FederatedSubjects : link[t] \in Users => link'[t] = link[t], EmployeesNamed
  PROVE  SignedIn'
<1> DEFINE new == [challenge |-> login[l].challenge, subject |-> s, user |-> u, by |-> l]
<1>1. /\ signedIn' = signedIn \cup {new} /\ login'[l] = Sso!Idle
      /\ \A m \in Logins \ {l} : login'[m] = login[m]
      /\ login[l].challenge \in Challenges
  BY DEF Sso!SignIn, SignedIn, LoginTyped, Exchanging
<1>2. login' \in [Logins -> [stage : {"idle", "begin", "callback", "exchange", "unlinked"},
                             challenge : Challenges \cup {Sso!None}, subject : FederatedSubjects \cup {Sso!None},
                             email : Users \cup {Sso!None}]]
  BY DEF Sso!SignIn, SignedIn, LoginTyped, Sso!Idle
<1>3. LoginTyped'
  <2>1. signedIn' \subseteq [challenge : Challenges, subject : FederatedSubjects, user : Users, by : Logins]
    BY <1>1 DEF SignedIn, LoginTyped
  <2>2. login'[l].stage = "idle"
    BY <1>1 DEF Sso!Idle
  <2> QED
    BY <1>1, <1>2, <2>1, <2>2 DEF SignedIn, LoginTyped
<1>4. new.challenge = login[l].challenge /\ new.subject = s /\ new.user = u
  OBVIOUS
<1> HIDE DEF new
<1>5. ConsumedAlone'
  <2> SUFFICES ASSUME NEW m \in Logins, Exchanging(m)'
               PROVE  /\ challenge[login'[m].challenge] = "consumed" /\ login'[m].challenge \notin closed
                      /\ \A a \in signedIn' : a.challenge # login'[m].challenge
                      /\ \A n \in Logins : Exchanging(n)' /\ login'[n].challenge = login'[m].challenge => n = m
    BY DEF ConsumedAlone
  <2>1. m # l /\ Exchanging(m) /\ \A n \in Logins : Exchanging(n)' => n # l /\ Exchanging(n)
    BY <1>1 DEF Exchanging, Sso!Idle
  <2> QED
    BY <1>1, <1>4, <2>1 DEF SignedIn, ConsumedAlone
<1>6. SignedAsLinked'
  <2>1. \A a \in signedIn : link'[a.subject] = a.user /\ a.challenge # new.challenge
    BY <1>4 DEF SignedIn, LoginTyped, SignedAsLinked, ConsumedAlone
  <2>2. challenge[new.challenge] = "consumed" /\ new.challenge \notin closed /\ link'[new.subject] = new.user
    BY <1>4 DEF SignedIn, ConsumedAlone
  <2> QED
    BY <1>1, <2>1, <2>2 DEF SignedIn, SignedAsLinked
<1> QED
  BY <1>3, <1>5, <1>6 DEF SignedIn, ClosedConsumed

\* Every step keeps subjects and employees one to one.
LEMMA SignedInKept ==
  ASSUME EmployeesNamed, SignedIn, [Sso!Next]_(Sso!vars)
  PROVE  SignedIn'
<1>0. LoginTyped
  BY DEF SignedIn
<1>1. ASSUME NEW l \in Logins, Sso!AskProvider(l) \/ Sso!GiveUp(l) PROVE SignedIn'
  <2>1. UNCHANGED <<employed, challenge, link, signedIn, closed>>
    BY <1>1 DEF Sso!AskProvider, Sso!GiveUp
  <2>2. /\ login' \in [Logins -> [stage : {"idle", "begin", "callback", "exchange", "unlinked"},
                           challenge : Challenges \cup {Sso!None}, subject : FederatedSubjects \cup {Sso!None},
                           email : Users \cup {Sso!None}]]
        /\ login'[l].stage \in {"idle", "begin"} /\ \A m \in Logins \ {l} : login'[m] = login[m]
    BY <1>0, <1>1 DEF Sso!AskProvider, Sso!GiveUp, LoginTyped, Sso!Idle
  <2>3. LoginTyped'
    BY <1>0, <2>1, <2>2 DEF LoginTyped
  <2> QED
    BY <2>1, <2>2, <2>3, LoginMoves DEF Exchanging
<1>2. ASSUME NEW l \in Logins, NEW c \in Challenges, Sso!BeginLogin(l, c) PROVE SignedIn'
  <2>1. /\ login' \in [Logins -> [stage : {"idle", "begin", "callback", "exchange", "unlinked"},
                           challenge : Challenges \cup {Sso!None}, subject : FederatedSubjects \cup {Sso!None},
                           email : Users \cup {Sso!None}]]
        /\ login'[l].stage = "idle" /\ \A m \in Logins \ {l} : login'[m] = login[m]
        /\ challenge' \in [Challenges -> {Sso!None, "open", "consumed", "expired"}]
        /\ \A d \in Challenges : challenge[d] = "consumed" => challenge'[d] = "consumed"
        /\ UNCHANGED <<employed, link, signedIn, closed>>
    BY <1>0, <1>2 DEF Sso!BeginLogin, LoginTyped, Sso!Idle, Sso!None
  <2>2. LoginTyped'
    BY <1>0, <2>1 DEF LoginTyped
  <2> QED
    BY <2>1, <2>2, ChallengeMoves DEF Exchanging
<1>3. ASSUME NEW l \in Logins, NEW c \in Challenges, Sso!Callback(l, c) PROVE SignedIn'
  <2>1. /\ login' \in [Logins -> [stage : {"idle", "begin", "callback", "exchange", "unlinked"},
                           challenge : Challenges \cup {Sso!None}, subject : FederatedSubjects \cup {Sso!None},
                           email : Users \cup {Sso!None}]]
        /\ login'[l].stage = "callback" /\ login'[l].challenge = c
        /\ \A m \in Logins \ {l} : login'[m] = login[m]
        /\ UNCHANGED <<employed, challenge, link, signedIn, closed>>
    BY <1>0, <1>3 DEF Sso!Callback, LoginTyped
  <2>2. LoginTyped'
    BY <1>0, <2>1 DEF LoginTyped
  <2> QED
    BY <2>1, <2>2, LoginMoves DEF Exchanging
<1>4. ASSUME NEW l \in Logins, Sso!ConsumeChallenge(l) PROVE SignedIn'
  <2>1. PICK c \in Challenges : c = login[l].challenge /\ challenge[c] = "open" /\ login[l].stage = "callback"
    BY <1>0, <1>4 DEF Sso!ConsumeChallenge, LoginTyped
  <2>2. /\ login' \in [Logins -> [stage : {"idle", "begin", "callback", "exchange", "unlinked"},
                           challenge : Challenges \cup {Sso!None}, subject : FederatedSubjects \cup {Sso!None},
                           email : Users \cup {Sso!None}]]
        /\ login'[l].stage = "exchange" /\ login'[l].challenge = c
        /\ \A m \in Logins \ {l} : login'[m] = login[m]
    BY <1>0, <1>4, <2>1 DEF Sso!ConsumeChallenge, LoginTyped
  <2>3. /\ challenge' \in [Challenges -> {Sso!None, "open", "consumed", "expired"}]
        /\ challenge'[c] = "consumed" /\ \A d \in Challenges \ {c} : challenge'[d] = challenge[d]
        /\ UNCHANGED <<employed, link, signedIn, closed>>
    BY <1>0, <1>4, <2>1 DEF Sso!ConsumeChallenge, LoginTyped
  <2>4. LoginTyped'
    BY <1>0, <2>2, <2>3 DEF LoginTyped
  <2>5. c \notin closed /\ \A a \in signedIn : a.challenge # c
    BY <2>1 DEF SignedIn, ClosedConsumed, SignedAsLinked
  <2>6. \A m \in Logins : Exchanging(m) => login[m].challenge # c
    BY <2>1 DEF SignedIn, ConsumedAlone
  <2>7. ConsumedAlone'
    BY <1>0, <2>2, <2>3, <2>5, <2>6 DEF SignedIn, ConsumedAlone, Exchanging, LoginTyped
  <2>8. ClosedConsumed' /\ OneSubject'
    BY <2>3 DEF SignedIn, ClosedConsumed, OneSubject
  <2>9. SignedAsLinked'
    BY <2>3, <2>5 DEF SignedIn, SignedAsLinked, LoginTyped
  <2> QED
    BY <2>4, <2>7, <2>8, <2>9 DEF SignedIn
<1>5. ASSUME NEW l \in Logins, NEW s \in FederatedSubjects, NEW email \in Users \cup {Sso!None}, Sso!Resolve(l, s, email)
      PROVE  SignedIn'
  <2>1. CASE link[s] \in employed
    <3>1. Sso!SignIn(l, s, link[s]) /\ UNCHANGED <<employed, challenge, link, closed>> /\ Exchanging(l)
      BY <1>5, <2>1 DEF Sso!Resolve, Exchanging
    <3>2. link[s] \in Users /\ link' \in [FederatedSubjects -> Users \cup {Sso!None}] /\ OneSubject'
      BY <1>0, <2>1, <3>1 DEF LoginTyped, SignedIn, OneSubject
    <3> QED
      BY <3>1, <3>2, SignInKept
  <2>2. CASE link[s] \notin employed
    <3>1. /\ login' = [login EXCEPT ![l] = [stage |-> "unlinked", challenge |-> login[l].challenge,
                                            subject |-> s, email |-> email]]
          /\ UNCHANGED <<employed, challenge, link, signedIn, closed>> /\ login[l].stage = "exchange"
      BY <1>5, <2>2 DEF Sso!Resolve
    <3>2. login[l].challenge \in Challenges
      BY <1>0, <3>1 DEF LoginTyped
    <3>3. /\ login' \in [Logins -> [stage : {"idle", "begin", "callback", "exchange", "unlinked"},
                           challenge : Challenges \cup {Sso!None}, subject : FederatedSubjects \cup {Sso!None},
                           email : Users \cup {Sso!None}]]
          /\ login'[l].stage = "unlinked" /\ login'[l].challenge = login[l].challenge
          /\ login'[l].subject = s /\ \A m \in Logins \ {l} : login'[m] = login[m]
      BY <1>0, <3>1, <3>2 DEF LoginTyped
    <3>4. LoginTyped'
      BY <1>0, <3>1, <3>2, <3>3 DEF LoginTyped
    <3>5. \A m \in Logins : login'[m].challenge = login[m].challenge /\ (Exchanging(m)' <=> Exchanging(m))
      BY <3>1, <3>3 DEF Exchanging
    <3>6. ConsumedAlone'
      BY <3>1, <3>5 DEF SignedIn, ConsumedAlone
    <3> QED
      BY <3>1, <3>4, <3>6 DEF SignedIn, ClosedConsumed, OneSubject, SignedAsLinked
  <2> QED
    BY <2>1, <2>2
<1>6. ASSUME NEW l \in Logins, Sso!LinkIdentity(l) PROVE SignedIn'
  <2>1. PICK s \in FederatedSubjects, u \in Users :
          /\ s = login[l].subject /\ u = login[l].email /\ login[l].stage = "unlinked" /\ Sso!Linkable(s, u)
    BY <1>0, <1>6 DEF Sso!LinkIdentity, LoginTyped, Sso!Linkable
  <2>2. /\ link' = [link EXCEPT ![s] = u] /\ Sso!SignIn(l, s, u) /\ UNCHANGED <<employed, challenge, closed>>
        /\ Exchanging(l)
    BY <1>6, <2>1 DEF Sso!LinkIdentity, Exchanging
  <2>3. /\ link' \in [FederatedSubjects -> Users \cup {Sso!None}] /\ link'[s] = u
        /\ \A t \in FederatedSubjects \ {s} : link'[t] = link[t]
    BY <1>0, <2>2 DEF LoginTyped
  <2>4. OneSubject'
    BY <2>1, <2>3 DEF SignedIn, OneSubject, Sso!Linkable
  <2>5. \A t \in FederatedSubjects : link[t] \in Users => link'[t] = link[t]
    BY <2>1, <2>3 DEF Sso!Linkable, EmployeesNamed
  <2> QED
    BY <2>2, <2>3, <2>4, <2>5, SignInKept
<1>7. CASE Sso!DisableProvider
  <2>1. /\ challenge' \in [Challenges -> {Sso!None, "open", "consumed", "expired"}]
        /\ \A c \in Challenges : challenge'[c] = IF challenge[c] = "open" THEN "consumed" ELSE challenge[c]
        /\ closed' = closed \cup {c \in Challenges : challenge[c] = "open"}
        /\ UNCHANGED <<employed, link, login, signedIn>>
    BY <1>0, <1>7 DEF Sso!DisableProvider, LoginTyped
  <2>2. LoginTyped'
    BY <1>0, <2>1 DEF LoginTyped
  <2>3. ClosedConsumed' /\ OneSubject'
    BY <2>1 DEF SignedIn, ClosedConsumed, OneSubject
  <2>4. ConsumedAlone'
    BY <1>0, <2>1 DEF SignedIn, ConsumedAlone, Exchanging, LoginTyped
  <2>5. SignedAsLinked'
    BY <1>0, <2>1 DEF SignedIn, SignedAsLinked, LoginTyped
  <2> QED
    BY <2>2, <2>3, <2>4, <2>5 DEF SignedIn
<1>8. ASSUME Sso!EnableProvider \/ (\E u \in Users : Sso!Employ(u)) \/ UNCHANGED Sso!vars PROVE SignedIn'
  <2>1. UNCHANGED <<challenge, link, login, signedIn, closed>> /\ employed' \subseteq Users
    BY <1>0, <1>8 DEF Sso!EnableProvider, Sso!Employ, Sso!vars, LoginTyped
  <2>2. LoginTyped'
    BY <1>0, <2>1 DEF LoginTyped
  <2> QED
    BY <2>1, <2>2, LoginMoves
<1>9. ASSUME NEW c \in Challenges, Sso!Expire(c) PROVE SignedIn'
  <2>1. /\ challenge' \in [Challenges -> {Sso!None, "open", "consumed", "expired"}]
        /\ \A d \in Challenges : challenge[d] = "consumed" => challenge'[d] = "consumed"
        /\ UNCHANGED <<employed, link, login, signedIn, closed>>
    BY <1>0, <1>9 DEF Sso!Expire, LoginTyped
  <2>2. LoginTyped'
    BY <1>0, <2>1 DEF LoginTyped
  <2> QED
    BY <2>1, <2>2, ChallengeMoves
<1> QED
  BY <1>1, <1>2, <1>3, <1>4, <1>5, <1>6, <1>7, <1>8, <1>9 DEF Sso!Next

\* Each sign-in has a challenge of its own, and its subject one employee.
LEMMA SignedInSound == EmployeesNamed /\ SignedIn => Sso!IdentitiesKept
<1> SUFFICES ASSUME EmployeesNamed, SignedIn, NEW a \in signedIn, NEW b \in signedIn
             PROVE  /\ a.challenge \notin closed
                    /\ a.challenge = b.challenge => a = b
                    /\ a.subject = b.subject <=> a.user = b.user
  BY DEF Sso!IdentitiesKept
<1>1. /\ a.challenge \notin closed /\ link[a.subject] = a.user /\ link[b.subject] = b.user
      /\ a.challenge = b.challenge => a = b
  BY DEF SignedIn, SignedAsLinked
<1>2. a.subject \in FederatedSubjects /\ b.subject \in FederatedSubjects /\ a.user \in Users /\ b.user \in Users
  BY DEF SignedIn, LoginTyped
<1> QED
  BY <1>1, <1>2 DEF SignedIn, OneSubject, EmployeesNamed

\* What has a type and no part in the proof above.
ProviderTyped == active \in BOOLEAN /\ closed \subseteq Challenges /\ changes \in 0..MaxChanges

\* The provider is active.
LEMMA ProviderTypedInit == MaxChanges \in Nat /\ Sso!Init => ProviderTyped
BY DEF Sso!Init, ProviderTyped

\* It is switched within the bound.
LEMMA ProviderTypedKept ==
  ASSUME MaxChanges \in Nat, ProviderTyped, [Sso!Next]_(Sso!vars)
  PROVE  ProviderTyped'
<1>1. CASE Sso!DisableProvider \/ Sso!EnableProvider
  <2>1. active' \in BOOLEAN
    BY <1>1, Zenon DEF Sso!DisableProvider, Sso!EnableProvider
  <2>2. closed' \subseteq Challenges
    BY <1>1 DEF Sso!DisableProvider, Sso!EnableProvider, ProviderTyped
  <2>3. changes < MaxChanges /\ changes' = changes + 1
    BY <1>1, Zenon DEF Sso!DisableProvider, Sso!EnableProvider, Sso!Counted
  <2>4. changes' \in 0..MaxChanges
    BY <2>3 DEF ProviderTyped
  <2> QED
    BY <2>1, <2>2, <2>4, Zenon DEF ProviderTyped
<1>2. ASSUME NEW u \in Users, Sso!Employ(u) PROVE ProviderTyped'
  BY <1>2 DEF Sso!Employ, Sso!Counted, ProviderTyped
<1>3. CASE UNCHANGED <<active, closed, changes>>
  BY <1>3 DEF ProviderTyped
<1> QED
  BY <1>1, <1>2, <1>3
  DEF Sso!Next, Sso!vars, Sso!AskProvider, Sso!BeginLogin, Sso!Callback, Sso!GiveUp,
      Sso!ConsumeChallenge,
     Sso!Resolve, Sso!LinkIdentity, Sso!Expire

\* All values have their types.
LEMMA OidcTypes == SignedIn /\ ProviderTyped => Sso!TypeOK
BY DEF SignedIn, LoginTyped, ProviderTyped, Sso!TypeOK, Sso!None

-----------------------------------------------------------------------------
\* Configuration promotion.

\* A command knows what it is about; a run is called for of an approved change set.
CommandOK(command) ==
  /\ command.of \in {"baselineItem", "freeze"} => command.baseline \in Baselines
  /\ command.of \in {"run", "start", "result", "conflict"} => command.run \in Runs
  /\ command.of \in {"freeze", "start"} => command.at \in Nat
  /\ command.of = "run" => command.baseline \in Baselines /\ changeSet = "APPROVED"
  /\ command.of \in {"changeItem", "result"} => command.item \in Items
  /\ command.of = "result" => command.outcome \in Pro!Outcomes

RunRecords ==
  [status : {Pro!None, "QUEUED", "RUNNING"} \cup Pro!Ended, expected : Baselines \cup {Pro!None},
   started : Nat, resulting : Baselines \cup {Pro!None}]

PromotionTyped ==
  /\ baseline \in [Baselines -> [status : {Pro!None, "DRAFT", "FROZEN"}, frozen : Nat, filled : BOOLEAN]]
  /\ items \subseteq Items /\ sealed \subseteq items /\ time \in Nat
  /\ run \in [Runs -> RunRecords]
  /\ result \in [Runs -> [Items -> Pro!Outcomes \cup {Pro!None}]]
  /\ conflict \in [Runs -> {Pro!None, "OPEN", "DISPOSITIONED"}]
  /\ held \in [Runs -> SUBSET RunRecords]
  /\ drift \in [Runs -> SUBSET Baselines] /\ overlooked \in [Runs -> SUBSET Baselines]
  /\ \A command \in commands : CommandOK(command)

\* What a entry of a run says when it says that it succeeded.
RestsOn(r, entry) ==
  /\ \A i \in sealed : result[r][i] = "APPLIED"
  /\ \A b \in drift[r] \ overlooked[r] : b = entry.resulting \/ baseline[b].frozen <= entry.started

\* Runs are of an approved change set; what drifted under one is frozen for good; a
\* run that is locked has not ended, and its completion found what it is about to write.
Undisturbed(r) ==
  /\ run[r].status # Pro!None => changeSet = "APPROVED"
  /\ drift[r] \subseteq Pro!Frozen
  /\ held[r] # {} => run[r].status \in {"QUEUED", "RUNNING"}
  /\ run[r].status = "SUCCEEDED" => RestsOn(r, run[r]) /\ (conflict[r] = "OPEN" => r \in lateConflicts)
  /\ \A entry \in held[r] :
       entry.status = "SUCCEEDED" => RestsOn(r, entry) /\ conflict[r] # "OPEN"

\* The inductive invariant.
Promoted == PromotionTyped /\ \A r \in Runs : Undisturbed(r)

\* Nothing has been promoted.
LEMMA PromotedInit == Pro!Init => Promoted
<1> SUFFICES ASSUME Pro!Init PROVE Promoted
  OBVIOUS
<1>1. PromotionTyped
  BY DEF Pro!Init, PromotionTyped, RunRecords
<1>2. \A r \in Runs : run[r].status = Pro!None /\ drift[r] = {} /\ held[r] = {}
  BY DEF Pro!Init
<1> QED
  BY <1>1, <1>2 DEF Promoted, Undisturbed, Pro!None

\* A command is prepared.
LEMMA Prepared ==
  ASSUME Promoted, NEW command, CommandOK(command), Pro!Prepare(command)
  PROVE  Promoted'
<1>1. /\ UNCHANGED <<baseline, drift, overlooked, changeSet, items, sealed, run, held, result, conflict, lateConflicts, time>>
      /\ commands' = commands \cup {command}
  BY DEF Pro!Prepare, Pro!baselineVars, Pro!setVars, Pro!runVars, Pro!rowVars
<1>2. PromotionTyped'
  BY <1>1 DEF Promoted, PromotionTyped, CommandOK
<1> QED
  BY <1>1, <1>2 DEF Promoted, Undisturbed, RestsOn, Pro!Frozen

\* Baselines move, those that are frozen keep their time, and a run that is locked or
\* has succeeded does not see more of them.
LEMMA BaselinesMove ==
  ASSUME Promoted, UNCHANGED <<changeSet, items, sealed, run, held, result, conflict, lateConflicts, time>>,
         baseline' \in [Baselines -> [status : {Pro!None, "DRAFT", "FROZEN"}, frozen : Nat, filled : BOOLEAN]],
         \A b \in Pro!Frozen : b \in Pro!Frozen' /\ baseline'[b].frozen = baseline[b].frozen,
         drift' \in [Runs -> SUBSET Baselines], overlooked' \in [Runs -> SUBSET Baselines],
         \A r \in Runs : drift'[r] \subseteq Pro!Frozen',
         \A r \in Runs : run[r].status = "SUCCEEDED" \/ held[r] # {} =>
                         drift'[r] \ overlooked'[r] \subseteq drift[r] \ overlooked[r],
         commands' \subseteq commands
  PROVE  Promoted'
<1>1. PromotionTyped'
  BY DEF Promoted, PromotionTyped, CommandOK
<1>2. ASSUME NEW r \in Runs PROVE Undisturbed(r)'
  <2>1. ASSUME NEW entry, RestsOn(r, entry), run[r].status = "SUCCEEDED" \/ held[r] # {}
        PROVE  RestsOn(r, entry)'
    <3>1. ASSUME NEW b \in drift'[r] \ overlooked'[r]
          PROVE  b = entry.resulting \/ baseline'[b].frozen <= entry.started
      <4>1. b \in drift[r] \ overlooked[r] /\ b \in Pro!Frozen
        BY <2>1, <3>1 DEF Promoted, Undisturbed
      <4> QED
        BY <2>1, <4>1 DEF RestsOn
    <3> QED
      BY <2>1, <3>1 DEF RestsOn
  <2>2. \A entry \in held[r] : entry.status = "SUCCEEDED" => RestsOn(r, entry)'
    BY <2>1 DEF Promoted, Undisturbed
  <2>3. run[r].status = "SUCCEEDED" => RestsOn(r, run[r])'
    BY <2>1 DEF Promoted, Undisturbed
  <2>4. run[r].status = "SUCCEEDED" => RestsOn(r, run[r])' /\ run'[r] = run[r]
    BY <2>3
  <2> QED
    BY <2>2, <2>4 DEF Promoted, Undisturbed, RestsOn
<1> QED
  BY <1>1, <1>2 DEF Promoted

\* The rows of runs move; one that succeeds had been found fit to.
LEMMA RunMoves ==
  ASSUME Promoted,
         UNCHANGED <<baseline, drift, overlooked, changeSet, items, sealed, result, conflict, lateConflicts, time>>,
         commands' \subseteq commands, changeSet = "APPROVED",
         NEW r \in Runs, run' \in [Runs -> RunRecords], held' \in [Runs -> SUBSET RunRecords],
         run'[r].status = "SUCCEEDED" => RestsOn(r, run'[r]) /\ conflict[r] # "OPEN",
         held'[r] # {} => run'[r].status \in {"QUEUED", "RUNNING"},
         \A entry \in held'[r] : entry.status = "SUCCEEDED" => RestsOn(r, entry) /\ conflict[r] # "OPEN",
         \A s \in Runs \ {r} : run'[s] = run[s] /\ held'[s] = held[s]
  PROVE  Promoted'
<1>1. PromotionTyped'
  BY DEF Promoted, PromotionTyped, CommandOK
<1>2. ASSUME NEW s \in Runs PROVE Undisturbed(s)'
  BY DEF Promoted, Undisturbed, RestsOn, Pro!Frozen
<1> QED
  BY <1>1, <1>2 DEF Promoted

\* Commands of the change set, once there are runs, are of no consequence to them.
LEMMA SetMoves ==
  ASSUME Promoted, UNCHANGED <<baseline, drift, overlooked, run, held, result, conflict, lateConflicts, time>>,
         commands' \subseteq commands, items \subseteq items', items' \subseteq Items,
         changeSet = "APPROVED" => changeSet' = "APPROVED" /\ sealed' = sealed,
         sealed' \subseteq items'
  PROVE  Promoted'
<1>1. PromotionTyped'
  BY DEF Promoted, PromotionTyped, CommandOK
<1>2. ASSUME NEW s \in Runs PROVE Undisturbed(s)'
  <2>1. CASE run[s].status = Pro!None
    BY <2>1 DEF Promoted, Undisturbed, Pro!Frozen, Pro!None
  <2>2. CASE run[s].status # Pro!None
    <3>1. changeSet = "APPROVED" /\ changeSet' = "APPROVED" /\ sealed' = sealed
      BY <2>2 DEF Promoted, Undisturbed
    <3> QED
      BY <3>1 DEF Promoted, Undisturbed, RestsOn, Pro!Frozen
  <2> QED
    BY <2>1, <2>2
<1> QED
  BY <1>1, <1>2 DEF Promoted

\* Every step leaves alone what a success rests on.
LEMMA PromotedKept ==
  ASSUME Promoted, [Pro!Next]_(Pro!vars)
  PROVE  Promoted'
<1>0. PromotionTyped
  BY DEF Promoted
<1>1. ASSUME NEW b \in Baselines, Pro!CreateBaseline(b) \/ Pro!CheckBaselineItem(b) \/ Pro!StampFreeze(b)
      PROVE  Promoted'
  <2>1. CASE Pro!CreateBaseline(b)
    <3>1. /\ baseline' \in [Baselines -> [status : {Pro!None, "DRAFT", "FROZEN"}, frozen : Nat, filled : BOOLEAN]]
          /\ baseline[b].status = Pro!None /\ \A c \in Baselines \ {b} : baseline'[c] = baseline[c]
      BY <1>0, <2>1 DEF Pro!CreateBaseline, PromotionTyped
    <3>2. /\ UNCHANGED <<changeSet, items, sealed, run, held, result, conflict, lateConflicts, time, drift, overlooked, commands>>
          /\ drift' \in [Runs -> SUBSET Baselines] /\ overlooked' \in [Runs -> SUBSET Baselines]
      BY <1>0, <2>1
      DEF Pro!CreateBaseline, Pro!setVars, Pro!runVars, Pro!rowVars, PromotionTyped
    <3>3. \A c \in Pro!Frozen : c \in Pro!Frozen' /\ baseline'[c].frozen = baseline[c].frozen
      BY <3>1 DEF Pro!Frozen, Pro!None
    <3>4. \A r \in Runs : drift'[r] \subseteq Pro!Frozen'
      BY <3>2, <3>3 DEF Promoted, Undisturbed
    <3> QED
      BY <3>1, <3>2, <3>3, <3>4, BaselinesMove
  <2>2. CASE Pro!CheckBaselineItem(b)
    <3>1. CommandOK([of |-> "baselineItem", baseline |-> b])
      BY DEF CommandOK
    <3> QED
      BY <2>2, <3>1, Prepared DEF Pro!CheckBaselineItem
  <2>3. CASE Pro!StampFreeze(b)
    <3>1. CommandOK([of |-> "freeze", baseline |-> b, at |-> time])
      BY <1>0 DEF CommandOK, PromotionTyped
    <3> QED
      BY <2>3, <3>1, Prepared DEF Pro!StampFreeze
  <2> QED
    BY <1>1, <2>1, <2>2, <2>3
<1>2. ASSUME NEW i \in Items, Pro!CheckChangeItem(i) PROVE Promoted'
  <2>1. CommandOK([of |-> "changeItem", item |-> i])
    BY DEF CommandOK
  <2> QED
    BY <1>2, <2>1, Prepared DEF Pro!CheckChangeItem
<1>3. CASE Pro!FreezeChangeSet \/ Pro!ApproveChangeSet
  <2>1. /\ changeSet # "APPROVED" /\ UNCHANGED <<baseline, drift, overlooked, run, held, result, conflict, lateConflicts, time, items, commands>>
        /\ sealed' \subseteq items'
    BY <1>0, <1>3
    DEF Pro!FreezeChangeSet, Pro!ApproveChangeSet, Pro!baselineVars, Pro!runVars, Pro!rowVars,
        PromotionTyped
  <2>2. items \subseteq items' /\ items' \subseteq Items
    BY <1>0, <2>1 DEF PromotionTyped
  <2> QED
    BY <2>1, <2>2, SetMoves
<1>4. ASSUME NEW r \in Runs, Pro!CheckRun(r) PROVE Promoted'
  <2>1. PICK b \in Pro!Latest : Pro!Prepare([of |-> "run", run |-> r, baseline |-> b]) /\ changeSet = "APPROVED"
    BY <1>4 DEF Pro!CheckRun
  <2>2. CommandOK([of |-> "run", run |-> r, baseline |-> b])
    BY <2>1 DEF CommandOK, Pro!Latest, Pro!Frozen
  <2> QED
    BY <2>1, <2>2, Prepared
<1>5. ASSUME NEW r \in Runs, Pro!StampStart(r) \/ Pro!CheckConflict(r) PROVE Promoted'
  <2>1. CommandOK([of |-> "start", run |-> r, at |-> time]) /\ CommandOK([of |-> "conflict", run |-> r])
    BY <1>0 DEF CommandOK, PromotionTyped
  <2> QED
    BY <1>5, <2>1, Prepared DEF Pro!StampStart, Pro!CheckConflict
<1>6. ASSUME NEW r \in Runs, NEW i \in Items, NEW outcome \in Pro!Outcomes, Pro!CheckResult(r, i, outcome)
      PROVE  Promoted'
  <2>1. CommandOK([of |-> "result", run |-> r, item |-> i, outcome |-> outcome])
    BY DEF CommandOK
  <2> QED
    BY <1>6, <2>1, Prepared DEF Pro!CheckResult
<1>7. ASSUME NEW r \in Runs, Pro!DispositionConflict(r) PROVE Promoted'
  <2>1. /\ conflict' \in [Runs -> {Pro!None, "OPEN", "DISPOSITIONED"}] /\ conflict'[r] = "DISPOSITIONED"
        /\ \A s \in Runs \ {r} : conflict'[s] = conflict[s]
        /\ UNCHANGED <<baseline, drift, overlooked, changeSet, items, sealed, run, held, result, lateConflicts, commands, time>>
    BY <1>0, <1>7 DEF Pro!DispositionConflict, Pro!baselineVars, Pro!setVars, PromotionTyped
  <2>2. PromotionTyped'
    BY <1>0, <2>1 DEF PromotionTyped, CommandOK
  <2>3. \A s \in Runs : Undisturbed(s)'
    BY <2>1 DEF Promoted, Undisturbed, RestsOn, Pro!Frozen
  <2> QED
    BY <2>2, <2>3 DEF Promoted
<1>8. ASSUME NEW r \in Runs, NEW b \in Baselines \cup {Pro!None}, Pro!CompletePromotionRun(r, b) PROVE Promoted'
  <2>0. PICK entry : entry = [status |-> Pro!Outcome(r), expected |-> run[r].expected,
                          started |-> run[r].started, resulting |-> b]
    OBVIOUS
  <2>1. /\ run[r].status = "RUNNING" /\ \A i \in items : result[r][i] # Pro!None
        /\ Pro!Outcome(r) = "SUCCEEDED" => b \in Pro!Frozen /\ ~Pro!Drifted(r, b)
        /\ held' = [held EXCEPT ![r] = {entry}] /\ overlooked' = [overlooked EXCEPT ![r] = {}]
        /\ UNCHANGED <<baseline, drift, changeSet, items, sealed, run, result, conflict, lateConflicts, time, commands>>
        /\ held[r] = {}
    BY <1>8, <2>0
    DEF Pro!CompletePromotionRun, Pro!Hold, Pro!rowVars, Pro!baselineVars, Pro!setVars
  <2>2. Pro!Outcome(r) \in Pro!Ended
    BY DEF Pro!Outcome, Pro!Ended
  <2>3. entry \in RunRecords
    BY <1>0, <2>0, <2>1, <2>2 DEF PromotionTyped, RunRecords
  <2>4. entry.status = Pro!Outcome(r) /\ entry.started = run[r].started /\ entry.resulting = b
    BY <2>0
  <2>5. /\ held' \in [Runs -> SUBSET RunRecords] /\ held'[r] = {entry}
        /\ overlooked' \in [Runs -> SUBSET Baselines] /\ overlooked'[r] = {}
        /\ \A s \in Runs \ {r} : held'[s] = held[s] /\ overlooked'[s] = overlooked[s]
    BY <1>0, <2>1, <2>3 DEF PromotionTyped
  <2>6. PromotionTyped'
    BY <1>0, <2>1, <2>5 DEF PromotionTyped, CommandOK
  <2>7. \A s \in Runs \ {r} : Undisturbed(s)'
    BY <2>1, <2>5 DEF Promoted, Undisturbed, RestsOn, Pro!Frozen
  <2>8. ASSUME entry.status = "SUCCEEDED" PROVE RestsOn(r, entry)' /\ conflict'[r] # "OPEN"
    <3>1. conflict[r] # "OPEN"
      BY <2>4, <2>8 DEF Pro!Outcome
    <3>2. ASSUME NEW i \in sealed PROVE result[r][i] = "APPLIED"
      <4>1. i \in items /\ result[r][i] \in Pro!Outcomes
        BY <1>0, <2>1 DEF PromotionTyped
      <4>2. result[r][i] # "CONFLICT" /\ result[r][i] # "FAILED"
        BY <2>4, <2>8, <4>1 DEF Pro!Outcome
      <4> QED
        BY <4>1, <4>2 DEF Pro!Outcomes
    <3>3. ASSUME NEW c \in drift[r] PROVE c = b \/ baseline[c].frozen <= run[r].started
      <4>1. c \in Pro!Frozen /\ baseline[c].frozen \in Nat /\ run[r].started \in Nat
        BY <1>0 DEF Promoted, PromotionTyped, Undisturbed, Pro!Frozen, RunRecords
      <4>2. c = b \/ ~(baseline[c].frozen > run[r].started)
        BY <2>1, <2>4, <2>8, <4>1 DEF Pro!Drifted
      <4> QED
        BY <4>1, <4>2
    <3> QED
      BY <2>1, <2>4, <2>5, <3>1, <3>2, <3>3 DEF RestsOn
  <2>9. Undisturbed(r)'
    BY <2>1, <2>5, <2>8 DEF Promoted, Undisturbed, Pro!Frozen
  <2> QED
    BY <2>6, <2>7, <2>9 DEF Promoted
<1>9. ASSUME NEW command \in commands, Pro!AddBaselineItem(command) \/ Pro!FreezeBaseline(command) PROVE Promoted'
  <2>1. PICK b \in Baselines : b = command.baseline
    BY <1>0, <1>9 DEF PromotionTyped, CommandOK, Pro!AddBaselineItem, Pro!FreezeBaseline
  <2>2. /\ UNCHANGED <<changeSet, items, sealed, run, held, result, conflict, lateConflicts, time>>
        /\ commands' \subseteq commands
    BY <1>9
    DEF Pro!AddBaselineItem, Pro!FreezeBaseline, Pro!Perform, Pro!setVars, Pro!runVars,
        Pro!rowVars
  <2>3. CASE Pro!AddBaselineItem(command)
    <3>1. /\ baseline' \in [Baselines -> [status : {Pro!None, "DRAFT", "FROZEN"}, frozen : Nat, filled : BOOLEAN]]
          /\ \A c \in Baselines : baseline'[c].status = baseline[c].status
                                  /\ baseline'[c].frozen = baseline[c].frozen
          /\ UNCHANGED <<drift, overlooked>>
          /\ drift' \in [Runs -> SUBSET Baselines] /\ overlooked' \in [Runs -> SUBSET Baselines]
      BY <1>0, <2>1, <2>3 DEF Pro!AddBaselineItem, PromotionTyped
    <3>2. \A c \in Pro!Frozen : c \in Pro!Frozen' /\ baseline'[c].frozen = baseline[c].frozen
      BY <3>1 DEF Pro!Frozen
    <3>3. \A r \in Runs : drift'[r] \subseteq Pro!Frozen'
      BY <3>1, <3>2 DEF Promoted, Undisturbed
    <3> QED
      BY <2>2, <3>1, <3>2, <3>3, BaselinesMove
  <2>4. CASE Pro!FreezeBaseline(command)
    <3>1. /\ baseline[b].status = "DRAFT"
          /\ baseline' = [baseline EXCEPT ![b] =
               [status |-> "FROZEN", frozen |-> command.at, filled |-> baseline[b].filled]]
          /\ drift' = [r \in Runs |-> IF Pro!Started(r) THEN drift[r] \cup {b} ELSE drift[r]]
          /\ overlooked' = [r \in Runs |-> IF held[r] # {} THEN overlooked[r] \cup {b} ELSE overlooked[r]]
          /\ command.at \in Nat
      BY <1>0, <2>1, <2>4 DEF Pro!FreezeBaseline, PromotionTyped, CommandOK
    <3>2. /\ baseline' \in [Baselines -> [status : {Pro!None, "DRAFT", "FROZEN"}, frozen : Nat, filled : BOOLEAN]]
          /\ baseline'[b].status = "FROZEN" /\ \A c \in Baselines \ {b} : baseline'[c] = baseline[c]
      BY <1>0, <3>1 DEF PromotionTyped
    <3>3. \A c \in Pro!Frozen : c \in Pro!Frozen' /\ baseline'[c].frozen = baseline[c].frozen
      BY <3>1, <3>2 DEF Pro!Frozen
    <3>4. drift' \in [Runs -> SUBSET Baselines] /\ overlooked' \in [Runs -> SUBSET Baselines]
      BY <1>0, <3>1 DEF PromotionTyped
    <3>5. ASSUME NEW r \in Runs PROVE drift'[r] \subseteq Pro!Frozen'
      <4>1. drift'[r] \subseteq drift[r] \cup {b} /\ drift[r] \subseteq Pro!Frozen /\ b \in Pro!Frozen'
        BY <3>1, <3>2 DEF Promoted, Undisturbed, Pro!Frozen
      <4> QED
        BY <3>3, <4>1
    <3>6. ASSUME NEW r \in Runs, run[r].status = "SUCCEEDED" \/ held[r] # {}
          PROVE  drift'[r] \ overlooked'[r] \subseteq drift[r] \ overlooked[r]
      <4>1. CASE held[r] # {}
        BY <3>1, <4>1
      <4>2. CASE held[r] = {}
        <5>1. ~Pro!Started(r)
          BY <3>6, <4>2 DEF Pro!Started
        <5> QED
          BY <3>1, <4>2, <5>1
      <4> QED
        BY <4>1, <4>2
    <3> QED
      BY <2>2, <3>2, <3>3, <3>4, <3>5, <3>6, BaselinesMove
  <2> QED
    BY <1>9, <2>3, <2>4
<1>10. ASSUME NEW command \in commands, Pro!AddChangeItem(command) PROVE Promoted'
  <2>1. /\ UNCHANGED <<baseline, drift, overlooked, run, held, result, conflict, lateConflicts, time, changeSet, sealed>>
        /\ commands' \subseteq commands /\ items' = items \cup {command.item} /\ command.item \in Items
    BY <1>0, <1>10
    DEF Pro!AddChangeItem, Pro!Perform, Pro!baselineVars, Pro!runVars, Pro!rowVars,
        PromotionTyped, CommandOK
  <2> QED
    BY <1>0, <2>1, SetMoves DEF PromotionTyped
<1>11. ASSUME NEW command \in commands, Pro!CreatePromotionRun(command) PROVE Promoted'
  <2>1. PICK r \in Runs : r = command.run
    BY <1>0, <1>11 DEF PromotionTyped, CommandOK, Pro!CreatePromotionRun
  <2>2. /\ UNCHANGED <<baseline, drift, overlooked, changeSet, items, sealed, held, result, conflict, lateConflicts, time>>
        /\ commands' \subseteq commands /\ changeSet = "APPROVED" /\ command.baseline \in Baselines
        /\ run[r].status = Pro!None
        /\ run' = [run EXCEPT ![r] = [status |-> "QUEUED", expected |-> command.baseline,
                                      started |-> 0, resulting |-> Pro!None]]
    BY <1>0, <1>11, <2>1
    DEF Pro!CreatePromotionRun, Pro!Perform, Pro!baselineVars, Pro!setVars, Pro!rowVars,
        PromotionTyped, CommandOK
  <2>3. /\ run' \in [Runs -> RunRecords] /\ run'[r].status = "QUEUED"
        /\ \A s \in Runs \ {r} : run'[s] = run[s] /\ held'[s] = held[s]
    BY <1>0, <2>2 DEF PromotionTyped, RunRecords
  <2>4. held' \in [Runs -> SUBSET RunRecords] /\ held'[r] = {}
    BY <1>0, <2>2 DEF Promoted, PromotionTyped, Undisturbed, Pro!None
  <2> QED
    BY <2>2, <2>3, <2>4, RunMoves
<1>16. ASSUME NEW command \in commands, Pro!StartPromotionRun(command) PROVE Promoted'
  <2>1. PICK r \in Runs : r = command.run
    BY <1>0, <1>16 DEF PromotionTyped, CommandOK, Pro!StartPromotionRun
  <2> DEFINE entry == [status |-> "RUNNING", expected |-> run[r].expected,
                     started |-> command.at, resulting |-> Pro!None]
  <2>2. /\ UNCHANGED <<baseline, drift, overlooked, changeSet, items, sealed, run, result, conflict, lateConflicts, time>>
        /\ commands' \subseteq commands /\ run[r].status = "QUEUED" /\ command.at \in Nat
        /\ held' = [held EXCEPT ![r] = {entry}]
    BY <1>0, <1>16, <2>1
    DEF Pro!StartPromotionRun, Pro!Hold, Pro!Perform, Pro!baselineVars, Pro!setVars,
        Pro!rowVars, PromotionTyped, CommandOK
  <2>3. entry \in RunRecords /\ entry.status = "RUNNING"
    BY <1>0, <2>2 DEF PromotionTyped, RunRecords
  <2> HIDE DEF entry
  <2>4. /\ held' \in [Runs -> SUBSET RunRecords] /\ held'[r] = {entry}
        /\ \A s \in Runs \ {r} : held'[s] = held[s]
    BY <1>0, <2>2, <2>3 DEF PromotionTyped
  <2>5. changeSet = "APPROVED" /\ run' \in [Runs -> RunRecords]
    BY <1>0, <2>2 DEF Promoted, PromotionTyped, Undisturbed, Pro!None
  <2> QED
    BY <2>2, <2>3, <2>4, <2>5, RunMoves
<1>17. ASSUME NEW r \in Runs, Pro!WriteRun(r) \/ Pro!RollBack(r) PROVE Promoted'
  <2>1. /\ UNCHANGED <<baseline, drift, overlooked, changeSet, items, sealed, result, conflict, lateConflicts, time, commands>>
        /\ held[r] # {} /\ held' = [held EXCEPT ![r] = {}]
        /\ run' = run \/ \E entry \in held[r] : run' = [run EXCEPT ![r] = entry]
    BY <1>17 DEF Pro!WriteRun, Pro!RollBack, Pro!rowVars, Pro!baselineVars, Pro!setVars
  <2>2. changeSet = "APPROVED" /\ run[r].status # "SUCCEEDED"
    BY <2>1 DEF Promoted, Undisturbed, Pro!None
  <2>3. /\ held' \in [Runs -> SUBSET RunRecords] /\ held'[r] = {}
        /\ \A s \in Runs \ {r} : held'[s] = held[s]
    BY <1>0, <2>1 DEF PromotionTyped
  <2>4. /\ run' \in [Runs -> RunRecords] /\ \A s \in Runs \ {r} : run'[s] = run[s]
        /\ (run'[r] = run[r] \/ run'[r] \in held[r])
    BY <1>0, <2>1 DEF PromotionTyped
  <2>5. run'[r].status = "SUCCEEDED" => RestsOn(r, run'[r]) /\ conflict[r] # "OPEN"
    BY <2>2, <2>4 DEF Promoted, Undisturbed
  <2> QED
    BY <2>1, <2>2, <2>3, <2>4, <2>5, RunMoves
<1>12. ASSUME NEW command \in commands, Pro!RecordItemResult(command) PROVE Promoted'
  <2>1. PICK r \in Runs, i \in Items, outcome \in Pro!Outcomes :
          r = command.run /\ i = command.item /\ outcome = command.outcome
    BY <1>0, <1>12 DEF PromotionTyped, CommandOK, Pro!RecordItemResult
  <2>2. /\ UNCHANGED <<baseline, drift, overlooked, changeSet, items, sealed, run, held, conflict, lateConflicts, time>>
        /\ commands' \subseteq commands /\ result[r][i] = Pro!None /\ held[r] = {}
        /\ result' = [result EXCEPT ![r] = [result[r] EXCEPT ![i] = outcome]]
    BY <1>12, <2>1 DEF Pro!RecordItemResult, Pro!Perform, Pro!baselineVars, Pro!setVars
  <2>3. /\ result' \in [Runs -> [Items -> Pro!Outcomes \cup {Pro!None}]]
        /\ \A j \in Items \ {i} : result'[r][j] = result[r][j]
        /\ \A s \in Runs \ {r} : result'[s] = result[s]
    BY <1>0, <2>2 DEF PromotionTyped
  <2>4. PromotionTyped'
    BY <1>0, <2>2, <2>3 DEF PromotionTyped, CommandOK
  <2>5. ASSUME NEW s \in Runs, NEW entry, RestsOn(s, entry) PROVE RestsOn(s, entry)'
    <3>1. ASSUME NEW j \in sealed PROVE result'[s][j] = "APPLIED"
      <4>1. result[s][j] = "APPLIED" /\ j \in Items
        BY <1>0, <2>5 DEF RestsOn, PromotionTyped
      <4> QED
        BY <2>2, <2>3, <4>1 DEF Pro!None
    <3> QED
      BY <2>2, <2>5, <3>1 DEF RestsOn
  <2>6. ASSUME NEW s \in Runs PROVE Undisturbed(s)'
    <3>1. \A entry \in held[s] : entry.status = "SUCCEEDED" => RestsOn(s, entry)' /\ conflict[s] # "OPEN"
      BY <2>5 DEF Promoted, Undisturbed
    <3>2. ASSUME run[s].status = "SUCCEEDED" PROVE RestsOn(s, run[s])'
      <4>1. PICK entry : entry = run[s]
        OBVIOUS
      <4>2. RestsOn(s, entry)' /\ entry = run'[s]
        BY <2>2, <2>5, <3>2, <4>1 DEF Promoted, Undisturbed
      <4> QED
        BY <4>2 DEF RestsOn
    <3> QED
      BY <2>2, <3>1, <3>2 DEF Promoted, Undisturbed, Pro!Frozen
  <2> QED
    BY <2>4, <2>6 DEF Promoted
<1>13. ASSUME NEW command \in commands, Pro!CreateConflict(command) PROVE Promoted'
  <2>1. PICK r \in Runs : r = command.run
    BY <1>0, <1>13 DEF PromotionTyped, CommandOK, Pro!CreateConflict
  <2>2. /\ UNCHANGED <<baseline, drift, overlooked, changeSet, items, sealed, run, held, result, time>>
        /\ held[r] = {}
        /\ commands' \subseteq commands
        /\ conflict' \in [Runs -> {Pro!None, "OPEN", "DISPOSITIONED"}]
        /\ \A s \in Runs \ {r} : conflict'[s] = conflict[s]
        /\ lateConflicts \subseteq lateConflicts' /\ (run[r].status = "SUCCEEDED" => r \in lateConflicts')
    BY <1>0, <1>13, <2>1
    DEF Pro!CreateConflict, Pro!Perform, Pro!baselineVars, Pro!setVars, Pro!rowVars,
        PromotionTyped, Pro!Ended
  <2>3. PromotionTyped'
    BY <1>0, <2>2 DEF PromotionTyped, CommandOK
  <2>4. \A s \in Runs : Undisturbed(s)'
    BY <2>2 DEF Promoted, Undisturbed, RestsOn, Pro!Frozen
  <2> QED
    BY <2>3, <2>4 DEF Promoted
<1>14. ASSUME UNCHANGED <<baseline, drift, overlooked, changeSet, items, sealed, run, held, result, conflict, lateConflicts>>,
              commands' \subseteq commands, time' \in Nat
       PROVE  Promoted'
  <2>1. PromotionTyped'
    BY <1>0, <1>14 DEF PromotionTyped, CommandOK
  <2> QED
    BY <1>14, <2>1 DEF Promoted, Undisturbed, RestsOn, Pro!Frozen
<1>15. CASE Pro!Tick \/ UNCHANGED Pro!vars \/ \E command \in commands : Pro!Fail(command)
  BY <1>0, <1>14, <1>15
  DEF Pro!Tick, Pro!Fail, Pro!Perform, Pro!vars, Pro!baselineVars, Pro!setVars, Pro!runVars,
      Pro!rowVars, PromotionTyped
<1> QED
  BY <1>1, <1>2, <1>3, <1>4, <1>5, <1>6, <1>7, <1>8, <1>9, <1>10, <1>11, <1>12, <1>13, <1>15,
     <1>16, <1>17 DEF Pro!Next

\* The invariant says of each run what the property does.
LEMMA PromotedSound == Promoted => Pro!PromotedUndisturbed
BY DEF Promoted, Undisturbed, RestsOn, Pro!PromotedUndisturbed

\* The module counts as its tests do.
LEMMA CommandsCounted == \A T : Pro!Cardinality(T) = Cardinality(T)
BY DEF Pro!Cardinality, Cardinality

\* A time that a command has read is no later than the clock.
ReadInTime(command) == command.of \in {"freeze", "start"} => command.at \in 0..time

\* Commands are few, and nothing happened later than now.
CommandsBounded ==
  /\ IsFiniteSet(commands) /\ Cardinality(commands) <= MaxCommands
  /\ time \in 0..PromotionTime
  /\ \A command \in commands : ReadInTime(command)

PromotionBounded ==
  /\ \A b \in Baselines : baseline[b].frozen <= time
  /\ \A r \in Runs : run[r].started <= time /\ \A entry \in held[r] : entry.started <= time
  /\ \A r \in Runs : \A entry \in held[r] : entry.status \in {"RUNNING"} \cup Pro!Ended
  /\ changeSet \in {"DRAFT", "FROZEN", "APPROVED"} /\ lateConflicts \subseteq Runs

\* Nothing has happened.
LEMMA PromotionBoundedInit ==
  MaxCommands \in Nat /\ PromotionTime \in Nat /\ Pro!Init => CommandsBounded /\ PromotionBounded
<1> SUFFICES ASSUME MaxCommands \in Nat, PromotionTime \in Nat, Pro!Init
             PROVE  CommandsBounded /\ PromotionBounded
  OBVIOUS
<1>1. IsFiniteSet(commands) /\ Cardinality(commands) = 0 /\ commands = {}
  BY FS_EmptySet DEF Pro!Init
<1> QED
  BY <1>1 DEF Pro!Init, CommandsBounded, PromotionBounded

\* A command is prepared only when there is room for it.
LEMMA CommandsBoundedKept ==
  ASSUME MaxCommands \in Nat, PromotionTime \in Nat, CommandsBounded, [Pro!Next]_(Pro!vars)
  PROVE  CommandsBounded'
<1>0. time \in Nat
  BY DEF CommandsBounded
<1>1. ASSUME NEW command, ReadInTime(command), Pro!Prepare(command) PROVE CommandsBounded'
  <2>1. Cardinality(commands) < MaxCommands /\ commands' = commands \cup {command} /\ time' = time
    BY <1>1, CommandsCounted, Zenon DEF Pro!Prepare
  <2>2. IsFiniteSet(commands') /\ Cardinality(commands') <= MaxCommands
    BY <2>1, RoomForOne DEF CommandsBounded
  <2> QED
    BY <1>1, <2>1, <2>2 DEF CommandsBounded, ReadInTime
<1>2. ASSUME NEW command, Pro!Perform(command) PROVE CommandsBounded'
  <2>1. commands' = commands \ {command} /\ time' = time
    BY <1>2 DEF Pro!Perform
  <2>2. IsFiniteSet(commands') /\ Cardinality(commands') <= MaxCommands
    BY <2>1, OneFewer DEF CommandsBounded
  <2> QED
    BY <2>1, <2>2 DEF CommandsBounded, ReadInTime
<1>3. ASSUME NEW b \in Baselines, Pro!CheckBaselineItem(b) \/ Pro!StampFreeze(b) PROVE CommandsBounded'
  <2>1. PICK command : ReadInTime(command) /\ Pro!Prepare(command)
    BY <1>0, <1>3 DEF Pro!CheckBaselineItem, Pro!StampFreeze, ReadInTime
  <2> QED
    BY <1>1, <2>1
<1>4. ASSUME NEW i \in Items, Pro!CheckChangeItem(i) PROVE CommandsBounded'
  BY <1>1, <1>4 DEF Pro!CheckChangeItem, ReadInTime
<1>5. ASSUME NEW r \in Runs, Pro!CheckRun(r) \/ Pro!StampStart(r) \/ Pro!CheckConflict(r)
      PROVE  CommandsBounded'
  <2>1. \A b : ReadInTime([of |-> "run", run |-> r, baseline |-> b])
    BY DEF ReadInTime
  <2>2. /\ ReadInTime([of |-> "start", run |-> r, at |-> time])
        /\ ReadInTime([of |-> "conflict", run |-> r])
    BY <1>0 DEF ReadInTime
  <2> QED
    BY <1>1, <1>5, <2>1, <2>2 DEF Pro!CheckRun, Pro!StampStart, Pro!CheckConflict
<1>6. ASSUME NEW r \in Runs, NEW i \in Items, NEW outcome \in Pro!Outcomes, Pro!CheckResult(r, i, outcome)
      PROVE  CommandsBounded'
  <2> DEFINE command == [of |-> "result", run |-> r, item |-> i, outcome |-> outcome]
  <2>1. ReadInTime(command) /\ Pro!Prepare(command)
    BY <1>6 DEF Pro!CheckResult, ReadInTime
  <2> HIDE DEF command
  <2> QED
    BY <1>1, <2>1
<1>7. CASE Pro!Tick
  BY <1>0, <1>7 DEF Pro!Tick, CommandsBounded, ReadInTime
<1>8. CASE UNCHANGED <<commands, time>>
  BY <1>8 DEF CommandsBounded, ReadInTime
<1> QED
  BY <1>2, <1>3, <1>4, <1>5, <1>6, <1>7, <1>8
  DEF Pro!Next, Pro!vars, Pro!CreateBaseline, Pro!FreezeChangeSet,
     Pro!ApproveChangeSet, Pro!DispositionConflict, Pro!CompletePromotionRun,
     Pro!AddBaselineItem, Pro!FreezeBaseline,
     Pro!AddChangeItem, Pro!CreatePromotionRun, Pro!StartPromotionRun, Pro!RecordItemResult,
     Pro!CreateConflict, Pro!WriteRun, Pro!RollBack, Pro!Fail

\* Baselines are frozen, and runs started, at a time that was read.
LEMMA PromotionBoundedKept ==
  ASSUME Promoted, CommandsBounded, PromotionBounded, [Pro!Next]_(Pro!vars)
  PROVE  PromotionBounded'
<1>0. time \in Nat /\ time' \in {time, time + 1} /\ PromotionTyped
  BY DEF Promoted, PromotionTyped, Pro!Next, Pro!vars, Pro!CreateBaseline,
     Pro!CheckBaselineItem, Pro!StampFreeze,
     Pro!CheckChangeItem, Pro!FreezeChangeSet, Pro!ApproveChangeSet, Pro!CheckRun,
     Pro!StampStart, Pro!CheckConflict,
     Pro!DispositionConflict, Pro!CheckResult, Pro!CompletePromotionRun, Pro!AddBaselineItem,
     Pro!FreezeBaseline,
     Pro!AddChangeItem, Pro!CreatePromotionRun, Pro!StartPromotionRun, Pro!RecordItemResult,
     Pro!CreateConflict, Pro!WriteRun, Pro!RollBack, Pro!Fail,
     Pro!Prepare, Pro!Perform, Pro!Tick
<1>1. /\ \A b \in Baselines : baseline[b].frozen \in Nat /\ baseline[b].frozen <= time
      /\ \A r \in Runs : run[r].started \in Nat /\ run[r].started <= time
      /\ \A r \in Runs : \A entry \in held[r] : entry.started \in Nat /\ entry.started <= time
  BY <1>0 DEF PromotionTyped, RunRecords, PromotionBounded
<1>2. ASSUME NEW b \in Baselines, Pro!CreateBaseline(b) PROVE PromotionBounded'
  <2>1. /\ UNCHANGED <<run, held, changeSet, lateConflicts, time>>
        /\ \A c \in Baselines : baseline'[c].frozen = baseline[c].frozen
    BY <1>0, <1>2 DEF Pro!CreateBaseline, PromotionTyped, Pro!setVars, Pro!runVars, Pro!rowVars
  <2> QED
    BY <2>1 DEF PromotionBounded
<1>3. ASSUME NEW command \in commands, Pro!AddBaselineItem(command) PROVE PromotionBounded'
  <2>1. /\ UNCHANGED <<run, held, changeSet, lateConflicts, time>>
        /\ \A c \in Baselines : baseline'[c].frozen = baseline[c].frozen
    BY <1>0, <1>3
    DEF Pro!AddBaselineItem, Pro!Perform, PromotionTyped, CommandOK, Pro!setVars, Pro!runVars,
        Pro!rowVars
  <2> QED
    BY <2>1 DEF PromotionBounded
<1>4. ASSUME NEW command \in commands, Pro!FreezeBaseline(command) PROVE PromotionBounded'
  <2>1. command.baseline \in Baselines /\ command.at <= time
    BY <1>0, <1>4 DEF Pro!FreezeBaseline, PromotionTyped, CommandOK, CommandsBounded, ReadInTime
  <2>2. /\ UNCHANGED <<run, held, changeSet, lateConflicts, time>>
        /\ baseline'[command.baseline].frozen = command.at
        /\ \A c \in Baselines \ {command.baseline} : baseline'[c] = baseline[c]
    BY <1>0, <1>4, <2>1
    DEF Pro!FreezeBaseline, Pro!Perform, PromotionTyped, Pro!setVars, Pro!runVars, Pro!rowVars
  <2> QED
    BY <2>1, <2>2 DEF PromotionBounded
<1>5. ASSUME NEW command \in commands, Pro!CreatePromotionRun(command) PROVE PromotionBounded'
  <2>1. command.run \in Runs
    BY <1>0, <1>5 DEF Pro!CreatePromotionRun, PromotionTyped, CommandOK
  <2>2. /\ UNCHANGED <<baseline, held, changeSet, lateConflicts, time>> /\ run'[command.run].started = 0
        /\ \A r \in Runs \ {command.run} : run'[r] = run[r]
    BY <1>0, <1>5, <2>1
    DEF Pro!CreatePromotionRun, Pro!Perform, PromotionTyped, Pro!baselineVars, Pro!setVars,
        Pro!rowVars
  <2> QED
    BY <1>0, <2>1, <2>2 DEF PromotionBounded
<1>6. ASSUME NEW command \in commands, Pro!StartPromotionRun(command) PROVE PromotionBounded'
  <2>1. command.run \in Runs /\ command.at <= time
    BY <1>0, <1>6
    DEF Pro!StartPromotionRun, PromotionTyped, CommandOK, CommandsBounded, ReadInTime
  <2>2. /\ UNCHANGED <<baseline, run, changeSet, lateConflicts, time>>
        /\ \A entry \in held'[command.run] : entry.started = command.at /\ entry.status = "RUNNING"
        /\ \A r \in Runs \ {command.run} : held'[r] = held[r]
    BY <1>0, <1>6, <2>1
    DEF Pro!StartPromotionRun, Pro!Hold, Pro!Perform, PromotionTyped, Pro!baselineVars,
        Pro!setVars, Pro!rowVars
  <2> QED
    BY <2>1, <2>2 DEF PromotionBounded
<1>7. ASSUME NEW command \in commands, Pro!CreateConflict(command) PROVE PromotionBounded'
  <2>1. command.run \in Runs
    BY <1>0, <1>7 DEF Pro!CreateConflict, PromotionTyped, CommandOK
  <2> QED
    BY <1>7, <2>1
    DEF Pro!CreateConflict, Pro!Perform, Pro!baselineVars, Pro!setVars, Pro!rowVars,
        PromotionBounded
<1>8. ASSUME NEW r \in Runs, NEW b, Pro!CompletePromotionRun(r, b) PROVE PromotionBounded'
  <2>1. /\ UNCHANGED <<baseline, run, changeSet, lateConflicts, time>>
        /\ \A entry \in held'[r] : entry.started = run[r].started /\ entry.status \in Pro!Ended
        /\ \A s \in Runs \ {r} : held'[s] = held[s]
    <3>1. Pro!Outcome(r) \in Pro!Ended
      BY DEF Pro!Outcome, Pro!Ended
    <3> QED
      BY <1>0, <1>8, <3>1
      DEF Pro!CompletePromotionRun, Pro!Hold, PromotionTyped, Pro!baselineVars, Pro!setVars,
          Pro!rowVars
  <2> QED
    BY <2>1 DEF PromotionBounded
<1>11. ASSUME NEW r \in Runs, Pro!WriteRun(r) \/ Pro!RollBack(r) PROVE PromotionBounded'
  <2>1. /\ UNCHANGED <<baseline, changeSet, lateConflicts, time>>
        /\ held'[r] = {} /\ (run'[r] = run[r] \/ run'[r] \in held[r])
        /\ \A s \in Runs \ {r} : run'[s] = run[s] /\ held'[s] = held[s]
    BY <1>0, <1>11
    DEF Pro!WriteRun, Pro!RollBack, PromotionTyped, Pro!baselineVars, Pro!setVars, Pro!rowVars
  <2> QED
    BY <2>1 DEF PromotionBounded
<1>9. CASE Pro!FreezeChangeSet \/ Pro!ApproveChangeSet
  BY <1>9 DEF Pro!FreezeChangeSet, Pro!ApproveChangeSet, Pro!baselineVars, Pro!runVars,
     Pro!rowVars, PromotionBounded
<1>10. CASE UNCHANGED <<baseline, run, held, changeSet, lateConflicts>>
  BY <1>0, <1>1, <1>10 DEF PromotionBounded
<1> QED
  BY <1>2, <1>3, <1>4, <1>5, <1>6, <1>7, <1>8, <1>9, <1>10, <1>11
  DEF Pro!Next, Pro!vars, Pro!baselineVars, Pro!setVars,
     Pro!runVars, Pro!rowVars, Pro!Prepare, Pro!Tick, Pro!CheckBaselineItem, Pro!StampFreeze,
     Pro!CheckChangeItem, Pro!CheckRun, Pro!StampStart,
     Pro!CheckConflict, Pro!DispositionConflict, Pro!CheckResult, Pro!AddChangeItem,
     Pro!RecordItemResult, Pro!Fail

\* All values have their types.
LEMMA PromotionTypes ==
  ASSUME Promoted, CommandsBounded, PromotionBounded
  PROVE  Pro!TypeOK
<1>1. PromotionTyped
  BY DEF Promoted
<1>2. ASSUME NEW b \in Baselines
      PROVE  /\ baseline[b].status \in {Pro!None, "DRAFT", "FROZEN"}
             /\ baseline[b].frozen \in 0..time /\ baseline[b].filled \in BOOLEAN
  BY <1>1 DEF PromotionTyped, PromotionBounded
<1>3. ASSUME NEW r \in Runs
      PROVE  /\ run[r].status \in {Pro!None, "QUEUED", "RUNNING"} \cup Pro!Ended
             /\ run[r].expected \in Baselines \cup {Pro!None}
             /\ run[r].resulting \in Baselines \cup {Pro!None} /\ run[r].started \in 0..time
  BY <1>1 DEF PromotionTyped, RunRecords, PromotionBounded
<1>4. Cardinality(commands) <= MaxCommands /\ time \in 0..PromotionTime
  BY DEF CommandsBounded
<1> QED
  BY <1>1, <1>2, <1>3, <1>4, CommandsCounted, Zenon
  DEF PromotionTyped, PromotionBounded, Pro!TypeOK

-----------------------------------------------------------------------------
\* The commercial papers.

\* What was issued, whatever has become of it.
Issued == {v \in Versions : version[v] \in {"ISSUED", "SUPERSEDED"}}

\* A line was checked in a version that exists.
LineOrVersion(paperRow) ==
  /\ paperRow.of \in {"line", "version"} => paperRow.version \in Versions
  /\ paperRow.of = "line" => version[paperRow.version] # Com!None

\* Values and their types.
PapersTyped ==
  /\ costVersion \in [Versions -> {Com!None, "DRAFT", "APPROVED", "SUPERSEDED"}]
  /\ version \in [Versions -> {Com!None, "DRAFT", "ISSUED", "SUPERSEDED"}]
  /\ lines \in [Versions -> Nat] /\ lateLines \in [Versions -> Nat]
  /\ \A paperRow \in rows : LineOrVersion(paperRow)

\* No line is late before its version is issued; afterwards the others add up.
LinesReconcile ==
  /\ \A v \in Versions \ Issued : lateLines[v] = 0
  /\ \A v \in Issued : lines[v] - lateLines[v] = Submitted

\* One version is in force, of either paper.
OneInForce ==
  /\ \A v, w \in Versions : costVersion[v] = "APPROVED" /\ costVersion[w] = "APPROVED" => v = w
  /\ \A v, w \in Versions : version[v] = "ISSUED" /\ version[w] = "ISSUED" => v = w

\* An open variation is yet to be decided, on a version that was issued.
DecidedOnce ==
  /\ variation = "OPEN" <=> decided = {}
  /\ decided \subseteq Issued /\ \A v, w \in decided : v = w
  /\ deciding # Com!None =>
       /\ variation = "OPEN" /\ deciding \in Issued
       /\ version[deciding] = "ISSUED" \/ deciding \in overtaken

\* The inductive invariant.
PapersKept == PapersTyped /\ LinesReconcile /\ OneInForce /\ DecidedOnce

\* There is no paper yet.
LEMMA PapersInit == Com!Init => PapersKept
BY DEF Com!Init, PapersKept, PapersTyped, LinesReconcile, OneInForce, DecidedOnce, Issued,
   Com!None

\* A row checked, or one of the cost plan inserted.
LEMMA RowsMove ==
  ASSUME PapersKept, UNCHANGED <<costVersion, Com!variationVars>>,
         \A paperRow \in rows' : paperRow \in rows \/ LineOrVersion(paperRow)
  PROVE  PapersKept'
<1>1. UNCHANGED <<variation, version, lines, decided, deciding, lateLines, overtaken>>
  BY DEF Com!variationVars
<1>2. PapersTyped'
  BY <1>1 DEF PapersKept, PapersTyped, LineOrVersion
<1> QED
  BY <1>1, <1>2 DEF PapersKept, LinesReconcile, OneInForce, DecidedOnce, Issued

\* Every step keeps what was issued and decided.
LEMMA PapersMove ==
  ASSUME PapersKept, [Com!Next]_(Com!vars)
  PROVE  PapersKept'
<1>0. PapersTyped /\ OneInForce /\ LinesReconcile /\ DecidedOnce
  BY DEF PapersKept
<1>1. ASSUME NEW v \in Versions,
             Com!CheckCostPlanLine(v) \/ Com!CheckVariationVersion(v) \/ Com!CheckVariationLine(v)
      PROVE  PapersKept'
  <2>1. PICK paperRow : Com!Check(paperRow) /\ LineOrVersion(paperRow)
    BY <1>1
    DEF Com!CheckCostPlanLine, Com!CheckVariationVersion, Com!CheckVariationLine,
        LineOrVersion, Com!None
  <2>2. rows' = rows \cup {paperRow} /\ UNCHANGED <<costVersion, Com!variationVars>>
    BY <2>1 DEF Com!Check, Com!costVars
  <2> QED
    BY <2>1, <2>2, RowsMove
<1>2. ASSUME NEW paperRow \in rows, Com!AddCostPlanLine(paperRow) PROVE PapersKept'
  BY <1>2, RowsMove DEF Com!AddCostPlanLine
<1>3. ASSUME NEW paperRow \in rows, Com!CreateVariationVersion(paperRow) PROVE PapersKept'
  <2>1. PICK v \in Versions : v = paperRow.version
    BY <1>0, <1>3 DEF PapersTyped, LineOrVersion, Com!CreateVariationVersion
  <2>2. /\ version[v] = Com!None /\ version' \in [Versions -> {Com!None, "DRAFT", "ISSUED", "SUPERSEDED"}]
        /\ version'[v] = "DRAFT" /\ \A w \in Versions \ {v} : version'[w] = version[w]
        /\ rows' \subseteq rows
        /\ UNCHANGED <<costVersion, variation, lines, decided, deciding, lateLines, overtaken>>
    BY <1>0, <1>3, <2>1 DEF Com!CreateVariationVersion, PapersTyped, Com!costVars
  <2>3. Issued' = Issued /\ v \notin Issued
    BY <2>2 DEF Issued, Com!None
  <2>4. PapersTyped'
    BY <1>0, <2>2 DEF PapersTyped, LineOrVersion, Com!None
  <2>5. LinesReconcile' /\ OneInForce'
    BY <1>0, <2>2, <2>3 DEF LinesReconcile, OneInForce
  <2>6. DecidedOnce'
    BY <1>0, <2>2, <2>3 DEF DecidedOnce, Issued
  <2> QED
    BY <2>4, <2>5, <2>6 DEF PapersKept
<1>4. ASSUME NEW paperRow \in rows, Com!AddVariationLine(paperRow) PROVE PapersKept'
  <2>1. PICK v \in Versions : v = paperRow.version /\ version[v] # Com!None
    BY <1>0, <1>4 DEF PapersTyped, LineOrVersion, Com!AddVariationLine
  <2>2. /\ UNCHANGED <<costVersion, variation, version, decided, deciding, overtaken>>
        /\ rows' \subseteq rows
        /\ lines' \in [Versions -> Nat] /\ lateLines' \in [Versions -> Nat]
        /\ lines'[v] = lines[v] + 1
        /\ lateLines'[v] = IF version[v] # "DRAFT" THEN lateLines[v] + 1 ELSE lateLines[v]
        /\ \A w \in Versions \ {v} : lines'[w] = lines[w] /\ lateLines'[w] = lateLines[w]
    BY <1>0, <1>4, <2>1 DEF Com!AddVariationLine, PapersTyped, Com!costVars
  <2>3. lines[v] \in Nat /\ lateLines[v] \in Nat
    BY <1>0 DEF PapersTyped
  <2>4. LinesReconcile'
    <3>1. v \in Issued <=> version[v] # "DRAFT"
      BY <1>0, <2>1 DEF PapersTyped, Issued
    <3>2. Issued' = Issued
      BY <2>2 DEF Issued
    <3>3. v \notin Issued => lateLines'[v] = 0
      BY <1>0, <2>2, <3>1 DEF LinesReconcile
    <3>4. v \in Issued => lines'[v] - lateLines'[v] = Submitted
      <4>1. v \in Issued => lines'[v] - lateLines'[v] = lines[v] - lateLines[v]
        BY <2>2, <2>3, <3>1
      <4> QED
        BY <1>0, <4>1 DEF LinesReconcile
    <3>5. \A w \in Versions \ Issued' : lateLines'[w] = 0
      BY <1>0, <2>2, <3>2, <3>3 DEF LinesReconcile
    <3>6. \A w \in Issued' : lines'[w] - lateLines'[w] = Submitted
      <4> SUFFICES ASSUME NEW w \in Issued PROVE lines'[w] - lateLines'[w] = Submitted
        BY <3>2
      <4>1. CASE w = v
        BY <3>4, <4>1
      <4>2. CASE w # v
        BY <1>0, <2>2, <4>2 DEF LinesReconcile, Issued
      <4> QED
        BY <4>1, <4>2
    <3> QED
      BY <3>5, <3>6 DEF LinesReconcile
  <2>5. PapersTyped'
    BY <1>0, <2>2 DEF PapersTyped, LineOrVersion
  <2> QED
    BY <1>0, <2>2, <2>4, <2>5 DEF PapersKept, OneInForce, DecidedOnce, Issued
<1>5. ASSUME NEW v \in Versions, Com!CreateCostPlanVersion(v) \/ Com!ApproveCostPlanVersion(v) PROVE PapersKept'
  <2>1. /\ costVersion' \in [Versions -> {Com!None, "DRAFT", "APPROVED", "SUPERSEDED"}]
        /\ \A u, w \in Versions : costVersion'[u] = "APPROVED" /\ costVersion'[w] = "APPROVED" => u = w
    BY <1>0, <1>5
    DEF Com!CreateCostPlanVersion, Com!ApproveCostPlanVersion, PapersTyped, OneInForce, Com!None
  <2>2. UNCHANGED <<variation, version, lines, decided, deciding, lateLines, overtaken, rows>>
    BY <1>5 DEF Com!CreateCostPlanVersion, Com!ApproveCostPlanVersion, Com!variationVars
  <2> QED
    BY <1>0, <2>1, <2>2
    DEF PapersKept, PapersTyped, LineOrVersion, LinesReconcile, OneInForce, DecidedOnce, Issued
<1>6. ASSUME NEW v \in Versions, Com!IssueVariationVersion(v) PROVE PapersKept'
  <2>1. /\ version[v] = "DRAFT" /\ lines[v] = Submitted
        /\ version' \in [Versions -> {Com!None, "DRAFT", "ISSUED", "SUPERSEDED"}]
        /\ \A w \in Versions : version'[w] = IF w = v THEN "ISSUED"
             ELSE IF version[w] = "ISSUED" THEN "SUPERSEDED" ELSE version[w]
        /\ overtaken' = IF deciding # Com!None THEN overtaken \cup {deciding} ELSE overtaken
        /\ UNCHANGED <<variation, lines, decided, deciding, lateLines, costVersion, rows>>
    BY <1>0, <1>6 DEF Com!IssueVariationVersion, Com!Reconciles, PapersTyped, Com!costVars
  <2>2. Issued' = Issued \cup {v}
    BY <2>1 DEF Issued
  <2>3. lines[v] \in Nat /\ lateLines[v] = 0
    BY <1>0, <2>1 DEF PapersTyped, LinesReconcile, Issued
  <2>4. LinesReconcile'
    BY <1>0, <2>1, <2>2, <2>3 DEF LinesReconcile
  <2>5. OneInForce'
    BY <1>0, <2>1 DEF OneInForce
  <2>6. DecidedOnce'
    BY <1>0, <2>1, <2>2 DEF DecidedOnce
  <2>7. PapersTyped'
    BY <1>0, <2>1 DEF PapersTyped, LineOrVersion, Com!None
  <2> QED
    BY <2>4, <2>5, <2>6, <2>7 DEF PapersKept
<1>7. ASSUME NEW v \in Versions, Com!ReadForDecision(v) PROVE PapersKept'
  <2>1. /\ variation = "OPEN" /\ version[v] = "ISSUED" /\ deciding' = v
        /\ UNCHANGED <<costVersion, variation, version, lines, decided, lateLines, overtaken, rows>>
    BY <1>7 DEF Com!ReadForDecision, Com!costVars
  <2> QED
    BY <1>0, <2>1
    DEF PapersKept, PapersTyped, LineOrVersion, LinesReconcile, OneInForce, DecidedOnce, Issued
<1>8. ASSUME NEW outcome \in {"CLOSED", "CANCELLED"}, Com!DecideVariation(outcome) PROVE PapersKept'
  <2>1. /\ deciding # Com!None /\ variation' = outcome /\ decided' = decided \cup {deciding}
        /\ deciding' = Com!None
        /\ UNCHANGED <<costVersion, version, lines, lateLines, overtaken, rows>>
    BY <1>8 DEF Com!DecideVariation, Com!costVars
  <2>2. DecidedOnce'
    BY <1>0, <2>1 DEF DecidedOnce, Issued
  <2> QED
    BY <1>0, <2>1, <2>2
    DEF PapersKept, PapersTyped, LineOrVersion, LinesReconcile, OneInForce, Issued
<1>9. CASE UNCHANGED Com!vars
  BY <1>9, RowsMove DEF Com!vars, Com!costVars
<1> QED
  BY <1>1, <1>2, <1>3, <1>4, <1>5, <1>6, <1>7, <1>8, <1>9 DEF Com!Next

\* The figures stand.
LEMMA PapersSound == PapersKept => Com!FiguresStand
BY DEF PapersKept, LinesReconcile, OneInForce, DecidedOnce, Issued, Com!FiguresStand, Com!Is

\* The module counts as its tests do.
LEMMA RowsCounted == \A T : Com!Cardinality(T) = Cardinality(T)
BY DEF Com!Cardinality, Cardinality

\* Rows to be inserted are few, and each knows its version.
RowsBounded ==
  /\ IsFiniteSet(rows) /\ Cardinality(rows) <= MaxPending
  /\ \A paperRow \in rows : paperRow.version \in Versions

\* Lines stay within their bound, of which none that is late is more; variations open.
PapersBounded ==
  /\ \A v \in Versions : lines[v] <= MaxLines /\ lateLines[v] <= lines[v]
  /\ variation \in {"OPEN", "CLOSED", "CANCELLED"}
  /\ costed \subseteq Versions /\ overtaken \subseteq Versions
  /\ deciding \in Versions \cup {Com!None}

\* There is no paper yet.
LEMMA BoundedInit == MaxLines \in Nat /\ MaxPending \in Nat /\ Com!Init => RowsBounded /\ PapersBounded
<1> SUFFICES ASSUME MaxLines \in Nat, MaxPending \in Nat, Com!Init PROVE RowsBounded /\ PapersBounded
  OBVIOUS
<1>1. IsFiniteSet(rows) /\ Cardinality(rows) = 0 /\ rows = {}
  BY FS_EmptySet DEF Com!Init
<1> QED
  BY <1>1 DEF Com!Init, RowsBounded, PapersBounded

\* A row is checked only when there is room for it.
LEMMA RowsBoundedKept ==
  ASSUME MaxPending \in Nat, RowsBounded, [Com!Next]_(Com!vars)
  PROVE  RowsBounded'
<1>1. ASSUME NEW paperRow, paperRow.version \in Versions, Com!Check(paperRow) PROVE RowsBounded'
  <2>1. Cardinality(rows) < MaxPending /\ rows' = rows \cup {paperRow}
    BY <1>1, RowsCounted, Zenon DEF Com!Check
  <2>2. IsFiniteSet(rows') /\ Cardinality(rows') <= MaxPending
    BY <2>1, RoomForOne DEF RowsBounded
  <2> QED
    BY <1>1, <2>1, <2>2 DEF RowsBounded
<1>2. ASSUME NEW paperRow, rows' = rows \ {paperRow} PROVE RowsBounded'
  <2>1. IsFiniteSet(rows') /\ Cardinality(rows') <= MaxPending
    BY <1>2, OneFewer DEF RowsBounded
  <2> QED
    BY <1>2, <2>1 DEF RowsBounded
<1>3. ASSUME NEW v \in Versions,
             Com!CheckCostPlanLine(v) \/ Com!CheckVariationVersion(v) \/ Com!CheckVariationLine(v)
      PROVE  RowsBounded'
  <2>1. PICK paperRow : paperRow.version \in Versions /\ Com!Check(paperRow)
    BY <1>3 DEF Com!CheckCostPlanLine, Com!CheckVariationVersion, Com!CheckVariationLine
  <2> QED
    BY <1>1, <2>1
<1>4. CASE rows' = rows
  BY <1>4 DEF RowsBounded
<1> QED
  BY <1>2, <1>3, <1>4
  DEF Com!Next, Com!vars, Com!AddCostPlanLine, Com!CreateVariationVersion, Com!AddVariationLine,
     Com!CreateCostPlanVersion, Com!ApproveCostPlanVersion, Com!IssueVariationVersion,
     Com!ReadForDecision,
     Com!DecideVariation

\* Each line that is late is a line more.
LEMMA PapersBoundedKept ==
  ASSUME MaxLines \in Nat, PapersKept, RowsBounded, PapersBounded, [Com!Next]_(Com!vars)
  PROVE  PapersBounded'
<1>1. ASSUME NEW paperRow \in rows, Com!AddVariationLine(paperRow) PROVE PapersBounded'
  <2>1. PICK v \in Versions : v = paperRow.version
    BY DEF RowsBounded
  <2>2. lines \in [Versions -> Nat] /\ lateLines \in [Versions -> Nat]
    BY DEF PapersKept, PapersTyped
  <2>3. /\ lines[v] < MaxLines /\ lines'[v] = lines[v] + 1
        /\ lateLines'[v] = lateLines[v] + 1 \/ lateLines'[v] = lateLines[v]
        /\ \A w \in Versions \ {v} : lines'[w] = lines[w] /\ lateLines'[w] = lateLines[w]
        /\ UNCHANGED <<variation, costed, overtaken, deciding>>
    BY <1>1, <2>1, <2>2 DEF Com!AddVariationLine, Com!costVars
  <2>4. lines[v] \in Nat /\ lateLines[v] \in Nat /\ lateLines[v] <= lines[v]
    BY <2>2 DEF PapersBounded
  <2>5. lines'[v] <= MaxLines /\ lateLines'[v] <= lines'[v]
    BY <2>3, <2>4
  <2> QED
    BY <2>3, <2>5 DEF PapersBounded
<1>2. ASSUME NEW paperRow \in rows, Com!AddCostPlanLine(paperRow) PROVE PapersBounded'
  BY <1>2 DEF Com!AddCostPlanLine, Com!variationVars, RowsBounded, PapersBounded
<1>3. ASSUME NEW v \in Versions, Com!IssueVariationVersion(v) \/ Com!ReadForDecision(v) PROVE PapersBounded'
  BY <1>3 DEF Com!IssueVariationVersion, Com!ReadForDecision, Com!costVars, PapersBounded
<1>4. ASSUME NEW outcome \in {"CLOSED", "CANCELLED"}, Com!DecideVariation(outcome) PROVE PapersBounded'
  BY <1>4 DEF Com!DecideVariation, Com!costVars, PapersBounded
<1>5. CASE UNCHANGED <<variation, lines, lateLines, costed, overtaken, deciding>>
  BY <1>5 DEF PapersBounded
<1> QED
  BY <1>1, <1>2, <1>3, <1>4, <1>5
  DEF Com!Next, Com!vars, Com!costVars, Com!variationVars, Com!Check, Com!CheckCostPlanLine,
     Com!CheckVariationVersion, Com!CheckVariationLine, Com!CreateVariationVersion,
     Com!CreateCostPlanVersion,
     Com!ApproveCostPlanVersion

\* All values have their types.
LEMMA PaperTypes ==
  ASSUME MaxLines \in Nat, PapersKept, RowsBounded, PapersBounded
  PROVE  Com!TypeOK
<1>1. lines \in [Versions -> Nat] /\ lateLines \in [Versions -> Nat] /\ decided \subseteq Versions
  BY DEF PapersKept, PapersTyped, DecidedOnce, Issued
<1>2. ASSUME NEW v \in Versions PROVE lines[v] \in 0..MaxLines /\ lateLines[v] \in 0..MaxLines
  <2>1. lines[v] \in Nat /\ lateLines[v] \in Nat /\ lines[v] <= MaxLines /\ lateLines[v] <= lines[v]
    BY <1>1 DEF PapersBounded
  <2> QED
    BY <2>1
<1>3. lines \in [Versions -> 0..MaxLines] /\ lateLines \in [Versions -> 0..MaxLines]
  BY <1>1, <1>2
<1>4. /\ costVersion \in [Versions -> {Com!None, "DRAFT", "APPROVED", "SUPERSEDED"}]
      /\ version \in [Versions -> {Com!None, "DRAFT", "ISSUED", "SUPERSEDED"}]
  BY DEF PapersKept, PapersTyped
<1>5. Cardinality(rows) <= MaxPending
  BY DEF RowsBounded
<1> QED
  BY <1>1, <1>3, <1>4, <1>5, RowsCounted, Zenon DEF PapersBounded, Com!TypeOK

-----------------------------------------------------------------------------
\* Valuations and accounts.

\* The inductive invariant: lines are numbers.
Accounts ==
  /\ paper = [p \in Acc!Papers |-> paper[p]]
  /\ paperLines \in [Acc!Itemised -> Nat] /\ paperRows \in [Acc!Itemised -> Nat] /\ counted \in [Acc!Itemised -> Nat]
  /\ Acc!LinesSettle

\* All papers are drafts.
LEMMA AccountsInit == Acc!Init => Accounts
BY DEF Acc!Init, Accounts, Acc!LinesSettle, Acc!Itemised, Acc!Papers

\* Every step keeps the lines that were counted.
LEMMA AccountsKept ==
  ASSUME Accounts, [Acc!Next]_(Acc!vars)
  PROVE  Accounts'
<1> USE DEF Accounts
<1>1. ASSUME NEW p \in Acc!Itemised, Acc!CheckLine(p) PROVE Accounts'
  BY <1>1 DEF Acc!CheckLine, Acc!LinesSettle, Acc!Itemised
<1>2. ASSUME NEW p \in Acc!Itemised, Acc!AddLine(p) PROVE Accounts'
  <2>1. /\ paperRows[p] > 0 /\ UNCHANGED <<paper, counted>>
        /\ paperRows' \in [Acc!Itemised -> Nat] /\ paperRows'[p] = paperRows[p] - 1
        /\ paperLines' \in [Acc!Itemised -> Nat] /\ paperLines'[p] = paperLines[p] + 1
        /\ \A q \in Acc!Itemised \ {p} : paperRows'[q] = paperRows[q] /\ paperLines'[q] = paperLines[q]
    BY <1>2 DEF Acc!AddLine
  <2>2. paperLines[p] \in Nat /\ paperRows[p] \in Nat
    OBVIOUS
  <2>3. paperLines'[p] + paperRows'[p] = paperLines[p] + paperRows[p] /\ (paperLines[p] > 0 => paperLines'[p] > 0)
    BY <2>1, <2>2
  <2>4. ASSUME NEW q \in Acc!Itemised, paper[q] # "DRAFT"
        PROVE  paperLines'[q] > 0 /\ paperLines'[q] + paperRows'[q] = counted[q]
    <3>1. paperLines[q] > 0 /\ paperLines[q] + paperRows[q] = counted[q]
      BY <2>4 DEF Acc!LinesSettle
    <3>2. CASE q = p
      BY <2>3, <3>1, <3>2
    <3>3. CASE q # p
      BY <2>1, <3>1, <3>3
    <3> QED
      BY <3>2, <3>3
  <2> QED
    BY <2>1, <2>4 DEF Acc!LinesSettle
<1>3. ASSUME NEW p \in Acc!Itemised, NEW to, Acc!Leaves(p, to) PROVE Accounts'
  BY <1>3 DEF Acc!Leaves, Acc!Becomes, Acc!LinesSettle
<1>4. ASSUME NEW p \in Acc!Papers, NEW from, NEW to, from # "DRAFT", Acc!Becomes(p, from, to), UNCHANGED counted
      PROVE  Accounts'
  BY <1>4 DEF Acc!Becomes, Acc!LinesSettle, Acc!Itemised
<1>5. ASSUME NEW to, Acc!Becomes("account", "DRAFT", to), UNCHANGED counted PROVE Accounts'
  BY <1>5 DEF Acc!Becomes, Acc!LinesSettle, Acc!Itemised, Acc!Papers
<1>6. CASE Acc!SubmitValuation \/ Acc!ApproveForecast
  BY <1>3, <1>6 DEF Acc!SubmitValuation, Acc!ApproveForecast, Acc!Itemised, Acc!Papers
<1>7. CASE Acc!CertifyValuation \/ Acc!CloseValuation \/ Acc!AgreeFinalAccount \/ Acc!CloseFinalAccount
  BY <1>4, <1>5, <1>7
  DEF Acc!CertifyValuation, Acc!CloseValuation, Acc!AgreeFinalAccount, Acc!CloseFinalAccount,
      Acc!Papers
<1>8. CASE UNCHANGED Acc!vars
  BY <1>8 DEF Acc!vars, Acc!LinesSettle
<1> QED
  BY <1>1, <1>2, <1>6, <1>7, <1>8 DEF Acc!Next

\* What has left the draft has its lines.
LEMMA AccountsSound == Accounts => Acc!LinesSettle
BY DEF Accounts

\* All papers are drafts without lines.
LEMMA AccountTypesInit == MaxLines \in Nat /\ MaxPending \in Nat /\ Acc!Init => Acc!TypeOK
BY DEF Acc!Init, Acc!TypeOK

\* Lines stay within their bounds, those to be inserted too.
LEMMA AccountTypesKept == MaxLines \in Nat /\ MaxPending \in Nat /\ Acc!TypeOK /\ [Acc!Next]_(Acc!vars) => Acc!TypeOK'
BY DEF Acc!TypeOK, Acc!Next, Acc!vars, Acc!CheckLine, Acc!AddLine, Acc!Becomes, Acc!Leaves,
   Acc!SubmitValuation, Acc!CertifyValuation,
   Acc!CloseValuation, Acc!ApproveForecast, Acc!AgreeFinalAccount, Acc!CloseFinalAccount,
   Acc!Itemised, Acc!Papers

-----------------------------------------------------------------------------
\* The rate limiter.

\* The admitted attempts that a bucket has counted.
CountOf(b, limit) == IF b.count <= limit THEN b.count ELSE limit

\* A history ends with the c attempts of a window that started then; what has at least
\* as many attempts after it as the limit, before those, is a window older.
Telling(c, started, times, limit) ==
  /\ c <= Len(times) /\ (c = 0 => Len(times) = 0)
  /\ c > 0 => times[Len(times) - c + 1] = started
  /\ \A i \in 1..Len(times) :
       i + c + limit <= Len(times) + 1 => started - times[i] >= Window

\* The times of a history, in order.
InOrder(times, at) ==
  /\ times \in Seq(0..at)
  /\ \A i, j \in 1..Len(times) : i <= j => times[i] <= times[j]

\* A bucket, and when it blocks.
BucketTyped(b, limit, at) ==
  /\ b \in [count : 0..limit + 1, started : 0..at, until : 0..at + Block]
  /\ b.count <= limit => b.until = 0
  /\ b.count = limit + 1 => b.until >= b.started + Window

BucketKept(b, times, limit, at) ==
  /\ BucketTyped(b, limit, at) /\ InOrder(times, at) /\ Len(times) <= 2 * limit - 1
  /\ Telling(CountOf(b, limit), b.started, times, limit)

\* The inductive invariant.
Limited ==
  /\ now \in 0..LimiterTime /\ answering \subseteq Lim!Pairs
  /\ network = [n \in Networks |-> network[n]] /\ subject = [k \in Lim!Pairs |-> subject[k]]
  /\ seen = [n \in Networks |-> seen[n]] /\ admitted = [k \in Lim!Pairs |-> admitted[k]]
  /\ \A n \in Networks : BucketKept(network[n], seen[n], NetworkLimit, now)
  /\ \A k \in Lim!Pairs : BucketKept(subject[k], admitted[k], SubjectNetworkLimit, now)

\* An empty bucket has no history.
LEMMA EmptyKept ==
  ASSUME NEW limit \in Nat \ {0}, NEW at \in Nat, Lim!LimiterAssumption
  PROVE  BucketKept(Lim!Absent, <<>>, limit, at)
<1>1. Lim!Absent.count = 0 /\ Lim!Absent.started = 0 /\ Lim!Absent.until = 0
      /\ Lim!Absent \in [count : 0..limit + 1, started : 0..at, until : 0..at + Block]
  BY DEF Lim!Absent, Lim!LimiterAssumption
<1>2. Len(<<>>) = 0 /\ <<>> \in Seq(0..at)
  OBVIOUS
<1>3. BucketTyped(Lim!Absent, limit, at)
  BY <1>1, 0 # limit + 1 DEF BucketTyped
<1>4. InOrder(<<>>, at)
  BY <1>2 DEF InOrder
<1>5. Telling(CountOf(Lim!Absent, limit), Lim!Absent.started, <<>>, limit)
  BY <1>1, <1>2 DEF Telling, CountOf
<1> QED
  BY <1>2, <1>3, <1>4, <1>5 DEF BucketKept

\* Nobody has attempted anything.
LEMMA LimitedInit == Lim!LimiterAssumption /\ Lim!Init => Limited
<1> SUFFICES ASSUME Lim!LimiterAssumption, Lim!Init PROVE Limited
  OBVIOUS
<1>1. now = 0 /\ 0 \in 0..LimiterTime /\ answering = {}
      /\ NetworkLimit \in Nat \ {0} /\ SubjectNetworkLimit \in Nat \ {0}
  BY DEF Lim!Init, Lim!LimiterAssumption
<1>2. /\ \A n \in Networks : network[n] = Lim!Absent /\ seen[n] = <<>>
      /\ \A k \in Lim!Pairs : subject[k] = Lim!Absent /\ admitted[k] = <<>>
      /\ network = [n \in Networks |-> network[n]] /\ subject = [k \in Lim!Pairs |-> subject[k]]
      /\ seen = [n \in Networks |-> seen[n]] /\ admitted = [k \in Lim!Pairs |-> admitted[k]]
  BY DEF Lim!Init
<1>3. /\ BucketKept(Lim!Absent, <<>>, NetworkLimit, now)
      /\ BucketKept(Lim!Absent, <<>>, SubjectNetworkLimit, now)
  BY <1>1, EmptyKept
<1> QED
  BY <1>1, <1>2, <1>3 DEF Limited

\* consumeBucket refuses: the history is as it was.
LEMMA Refused ==
  ASSUME NEW b, NEW times, NEW limit \in Nat \ {0}, now \in Nat, Lim!LimiterAssumption,
         BucketKept(b, times, limit, now), ~Lim!Admits(b, limit)
  PROVE  BucketKept(Lim!Consumed(b, limit), times, limit, now)
<1>1. CASE Lim!Blocked(b)
  BY <1>1 DEF Lim!Consumed
<1>2. CASE ~Lim!Blocked(b)
  <2>1. ~Lim!NewWindow(b) /\ b.count + 1 > limit
        /\ b.count \in 0..limit + 1 /\ b.started \in 0..now /\ b.until \in 0..now + Block
    BY <1>2 DEF Lim!Admits, BucketKept, BucketTyped
  <2>2. Window \in Nat \ {0} /\ Block \in Nat /\ Block >= Window
    BY DEF Lim!LimiterAssumption
  <2>3. b.count = limit /\ now - b.started < Window
    BY <1>2, <2>1, <2>2 DEF Lim!NewWindow, Lim!Blocked, BucketKept, BucketTyped
  <2> DEFINE next == [count |-> b.count + 1, started |-> b.started, until |-> now + Block]
  <2>4. Lim!Consumed(b, limit) = next
    BY <1>2, <2>1 DEF Lim!Consumed
  <2>5. next.count = limit + 1 /\ next.started = b.started /\ next.until = now + Block
        /\ next \in [count : 0..limit + 1, started : 0..now, until : 0..now + Block]
    BY <2>1, <2>2, <2>3
  <2> HIDE DEF next
  <2>6. BucketTyped(next, limit, now)
    BY <2>1, <2>2, <2>5 DEF BucketTyped
  <2>7. CountOf(next, limit) = CountOf(b, limit)
    BY <2>3, <2>5 DEF CountOf
  <2>8. Telling(CountOf(next, limit), next.started, times, limit)
    BY <2>5, <2>7 DEF BucketKept
  <2> QED
    BY <2>4, <2>6, <2>8 DEF BucketKept
<1> QED
  BY <1>1, <1>2

\* The first attempt is forgotten.
LEMMA Forgets ==
  ASSUME NEW at \in Nat, NEW times, InOrder(times, at), Len(times) > 0
  PROVE  /\ InOrder(Tail(times), at) /\ Len(Tail(times)) = Len(times) - 1
         /\ \A i \in 1..(Len(times) - 1) : Tail(times)[i] = times[i + 1]
<1>1. /\ Tail(times) \in Seq(0..at) /\ Len(Tail(times)) = Len(times) - 1 /\ Len(times) \in Nat
      /\ \A i \in 1..(Len(times) - 1) : Tail(times)[i] = times[i + 1]
  BY DEF InOrder
<1>2. ASSUME NEW i \in 1..(Len(times) - 1), NEW j \in 1..(Len(times) - 1), i <= j
      PROVE  Tail(times)[i] <= Tail(times)[j]
  <2>1. i + 1 \in 1..Len(times) /\ j + 1 \in 1..Len(times) /\ i + 1 <= j + 1
    BY <1>1, <1>2
  <2>2. times[i + 1] <= times[j + 1]
    BY <2>1 DEF InOrder
  <2> QED
    BY <1>1, <2>2
<1> QED
  BY <1>1, <1>2 DEF InOrder

\* An attempt goes on a history.
LEMMA GoesOn ==
  ASSUME NEW at \in Nat, NEW times, InOrder(times, at)
  PROVE  /\ InOrder(Append(times, at), at) /\ Len(Append(times, at)) = Len(times) + 1
         /\ Append(times, at)[Len(times) + 1] = at
         /\ \A i \in 1..Len(times) : Append(times, at)[i] = times[i]
<1>1. /\ Append(times, at) \in Seq(0..at) /\ Len(Append(times, at)) = Len(times) + 1
      /\ Append(times, at)[Len(times) + 1] = at /\ Len(times) \in Nat
      /\ \A i \in 1..Len(times) : Append(times, at)[i] = times[i] /\ times[i] <= at
  BY DEF InOrder
<1> DEFINE all == Append(times, at)
<1>2. ASSUME NEW i \in 1..(Len(times) + 1), NEW j \in 1..(Len(times) + 1), i <= j
      PROVE  all[i] <= all[j]
  <2>1. CASE j = Len(times) + 1
    <3>1. all[j] = at /\ (i = j \/ i \in 1..Len(times))
      BY <1>1, <2>1
    <3> QED
      BY <1>1, <3>1
  <2>2. CASE j # Len(times) + 1
    <3>1. i \in 1..Len(times) /\ j \in 1..Len(times)
      BY <1>1, <1>2, <2>2
    <3>2. times[i] <= times[j]
      BY <1>2, <3>1 DEF InOrder
    <3> QED
      BY <1>1, <3>1, <3>2
  <2> QED
    BY <2>1, <2>2
<1> QED
  BY <1>1, <1>2 DEF InOrder

\* With its first attempt forgotten, a history still tells of a window that started later.
LEMMA StillTelling ==
  ASSUME NEW at \in Nat, NEW times, InOrder(times, at), NEW c \in Nat, NEW limit \in Nat,
         NEW started, Telling(c, started, times, limit), 0 < c, c < Len(times)
  PROVE  Telling(c, started, Tail(times), limit)
<1>1. Len(times) \in Nat
  BY DEF InOrder
<1>2. /\ Len(Tail(times)) = Len(times) - 1
      /\ \A i \in 1..(Len(times) - 1) : Tail(times)[i] = times[i + 1]
  BY <1>1, Forgets
<1>3. Tail(times)[Len(times) - 1 - c + 1] = started
  <2>1. Len(times) - 1 - c + 1 \in 1..(Len(times) - 1)
        /\ Len(times) - 1 - c + 1 + 1 = Len(times) - c + 1
    BY <1>1
  <2> QED
    BY <1>2, <2>1 DEF Telling
<1>4. ASSUME NEW i \in 1..(Len(times) - 1), i + c + limit <= Len(times) - 1 + 1
      PROVE  started - Tail(times)[i] >= Window
  <2>1. i + 1 \in 1..Len(times) /\ i + 1 + c + limit <= Len(times) + 1
    BY <1>1, <1>4
  <2>2. started - times[i + 1] >= Window
    BY <2>1 DEF Telling
  <2> QED
    BY <1>2, <2>2
<1> QED
  BY <1>1, <1>2, <1>3, <1>4 DEF Telling

\* consumeBucket admits: the attempt counts in the window, which is a new one after
\* all that were admitted before, or the same.
LEMMA Admitted ==
  ASSUME NEW b, NEW times, NEW limit \in Nat \ {0}, now \in Nat, Lim!LimiterAssumption,
         BucketKept(b, times, limit, now), Lim!Admits(b, limit)
  PROVE  BucketKept(Lim!Consumed(b, limit), Lim!Noted(times), limit, now)
<1> DEFINE new == Lim!Consumed(b, limit)
           c == CountOf(b, limit)
           d == CountOf(new, limit)
           n == Len(times)
<1>1. /\ ~Lim!Blocked(b) /\ n \in Nat /\ n <= 2 * limit - 1 /\ n = Len(times)
      /\ b.count \in 0..limit + 1 /\ b.started \in 0..now /\ b.until \in 0..now + Block
      /\ \A i \in 1..n : times[i] \in 0..now
      /\ times \in Seq(0..now)
  BY DEF Lim!Admits, BucketKept, BucketTyped, InOrder
<1>2. Window \in Nat \ {0} /\ Block \in Nat /\ Block >= Window
  BY DEF Lim!LimiterAssumption
<1>3. c \in 0..limit /\ c <= n /\ (c = 0 <=> b.count = 0) /\ (c = 0 => n = 0)
      /\ (c > 0 => times[n - c + 1] = b.started)
      /\ \A i \in 1..n : i + c + limit <= n + 1 => b.started - times[i] >= Window
  BY <1>1 DEF Telling, BucketKept, CountOf
<1>4. \A i, j \in 1..n : i <= j => times[i] <= times[j]
  BY DEF BucketKept, InOrder
<1>5. /\ BucketTyped(new, limit, now) /\ d \in 1..limit /\ new.started \in 0..now
      /\ \/ Lim!NewWindow(b) /\ d = 1 /\ new.started = now
         \/ ~Lim!NewWindow(b) /\ d = c + 1 /\ c > 0 /\ new.started = b.started /\ now - b.started < Window
  <2>1. CASE Lim!NewWindow(b)
    <3>1. new = Lim!Fresh
      BY <1>1, <2>1 DEF Lim!Consumed
    <3>2. Lim!Fresh.count = 1 /\ Lim!Fresh.started = now /\ Lim!Fresh.until = 0
          /\ Lim!Fresh \in [count : 0..limit + 1, started : 0..now, until : 0..now + Block]
      BY <1>2 DEF Lim!Fresh
    <3> HIDE DEF new
    <3>3. new.count = 1 /\ new.started = now /\ new.until = 0
      BY <3>1, <3>2
    <3>4. BucketTyped(new, limit, now)
      BY <3>1, <3>2, <1>2 DEF BucketTyped
    <3> QED
      BY <2>1, <3>3, <3>4 DEF CountOf
  <2>2. CASE ~Lim!NewWindow(b)
    <3>1. b.count + 1 <= limit /\ b.count # 0 /\ now - b.started < Window
      BY <1>1, <1>2, <2>2 DEF Lim!Admits, Lim!NewWindow
    <3>2. new = [count |-> b.count + 1, started |-> b.started, until |-> 0]
      BY <1>1, <2>2 DEF Lim!Consumed
    <3> HIDE DEF new
    <3>3. new.count = b.count + 1 /\ new.started = b.started /\ new.until = 0
          /\ new \in [count : 0..limit + 1, started : 0..now, until : 0..now + Block]
      BY <1>1, <1>2, <3>1, <3>2
    <3>4. BucketTyped(new, limit, now)
      BY <1>1, <1>2, <3>1, <3>3 DEF BucketTyped
    <3> QED
      BY <1>1, <2>2, <3>1, <3>3, <3>4 DEF CountOf
  <2> QED
    BY <2>1, <2>2
<1> HIDE DEF new, c, d, n
\* Whatever was admitted a limit ago is a window older than a window that opens.
<1>6. Lim!NewWindow(b) => \A i \in 1..n : i + c <= n + 1 => now - times[i] >= Window
  <2> SUFFICES ASSUME Lim!NewWindow(b), NEW i \in 1..n, i + c <= n + 1
               PROVE  now - times[i] >= Window
    OBVIOUS
  <2>1. b.count # 0 /\ c > 0
    BY <1>3
  <2>2. now - b.started >= Window
    BY <2>1 DEF Lim!NewWindow
  <2>3. n - c + 1 \in 1..n /\ i <= n - c + 1
    BY <1>1, <1>3, <2>1
  <2>4. times[i] <= b.started
    BY <1>3, <1>4, <2>1, <2>3
  <2> QED
    BY <1>1, <1>2, <2>2, <2>4
<1>7. CASE n = 0 \/ now - times[n] >= Window
  <2>1. Lim!Noted(times) = <<now>>
    BY <1>1, <1>7 DEF Lim!Noted
  <2>2. Lim!NewWindow(b)
    <3>1. CASE n = 0
      BY <1>3, <3>1 DEF Lim!NewWindow
    <3>2. CASE n # 0 /\ c > 0
      <4>1. n - c + 1 \in 1..n /\ n \in 1..n /\ n - c + 1 <= n
        BY <1>1, <1>3, <3>2
      <4>2. b.started <= times[n]
        BY <1>3, <1>4, <3>2, <4>1
      <4> QED
        BY <1>1, <1>2, <1>7, <3>2, <4>1, <4>2 DEF Lim!NewWindow
    <3> QED
      BY <1>1, <1>3, <3>1, <3>2
  <2>3. Len(<<now>>) = 1 /\ <<now>>[1] = now /\ <<now>> \in Seq(0..now)
    BY <1>1
  <2>4. d = 1 /\ new.started = now
    BY <1>5, <2>2
  <2>5. Telling(1, now, <<now>>, limit)
    BY <2>3 DEF Telling
  <2>6. InOrder(<<now>>, now) /\ Len(<<now>>) <= 2 * limit - 1
    BY <1>1, <2>3 DEF InOrder
  <2> QED
    BY <1>5, <2>1, <2>4, <2>5, <2>6 DEF BucketKept, new, d
<1>8. CASE n > 0 /\ now - times[n] < Window
  <2>1. times # <<>> /\ times[n] \in 0..now /\ times[1] \in 0..now
        /\ ~(now - times[n] >= Window)
    BY <1>1, <1>2, <1>8
  \* What is left of the history tells of the window that opens or goes on.
  <2>2. PICK rest : 
          /\ InOrder(rest, now) /\ Len(rest) <= 2 * limit - 2 /\ Lim!Noted(times) = Append(rest, now)
          /\ Lim!NewWindow(b) => \A i \in 1..Len(rest) : i + limit <= Len(rest) + 1 => now - rest[i] >= Window
          /\ ~Lim!NewWindow(b) => Telling(c, b.started, rest, limit)
    <3>1. CASE now - times[1] >= Window
      <4>1. Lim!Noted(times) = Append(Tail(times), now)
        BY <1>1, <1>2, <1>8, <2>1, <3>1 DEF Lim!Noted
      <4>2. InOrder(Tail(times), now) /\ Len(Tail(times)) = n - 1
            /\ \A i \in 1..(n - 1) : Tail(times)[i] = times[i + 1]
        BY <1>1, <1>8, Forgets DEF BucketKept
      <4>3. ASSUME Lim!NewWindow(b), NEW i \in 1..(n - 1), i + limit <= n
            PROVE  now - Tail(times)[i] >= Window
        <5>1. i + 1 \in 1..n /\ i + 1 + c <= n + 1
          BY <1>1, <1>3, <4>3
        <5>2. now - times[i + 1] >= Window
          BY <1>6, <4>3, <5>1
        <5> QED
          BY <4>2, <5>2
      <4>4. ASSUME ~Lim!NewWindow(b) PROVE Telling(c, b.started, Tail(times), limit)
        <5>1. c > 0 /\ now - b.started < Window
          BY <1>5, <4>4
        <5>2. c # n
          BY <1>1, <1>2, <1>3, <2>1, <3>1, <5>1
        <5>3. c \in Nat /\ 0 < c /\ c < n
          BY <1>1, <1>3, <5>1, <5>2
        <5> QED
          BY <1>1, <5>3, StillTelling DEF BucketKept, c
      <4>5. n - 1 <= 2 * limit - 2 /\ n - 1 + 1 = n
        BY <1>1
      <4> QED
        BY <4>1, <4>2, <4>3, <4>4, <4>5
    <3>2. CASE ~(now - times[1] >= Window)
      <4>1. Lim!Noted(times) = Append(times, now)
        BY <1>1, <1>2, <1>8, <2>1, <3>2 DEF Lim!Noted
      <4>2. ASSUME Lim!NewWindow(b), NEW i \in 1..n, i + limit <= n + 1
            PROVE  now - times[i] >= Window
        <5>1. i + c <= n + 1
          BY <1>1, <1>3, <4>2
        <5> QED
          BY <1>6, <4>2, <5>1
      \* A history as long as can be would have begun a window ago.
      <4>3. n # 2 * limit - 1
        <5> SUFFICES ASSUME n = 2 * limit - 1 PROVE FALSE
          OBVIOUS
        <5>1. 1 \in 1..n
          BY <1>1, <1>8
        <5>2. CASE Lim!NewWindow(b)
          <6>1. 1 + limit <= n + 1
            BY <1>1
          <6> QED
            BY <3>2, <4>2, <5>1, <5>2, <6>1
        <5>3. CASE ~Lim!NewWindow(b)
          <6>1. c + 1 <= limit /\ new.started = b.started
            BY <1>3, <1>5, <5>3
          <6>2. 1 + c + limit <= n + 1
            BY <1>3, <6>1
          <6>3. b.started - times[1] >= Window
            BY <1>3, <5>1, <6>2
          <6>4. /\ b.started \in Nat /\ b.started <= now /\ times[1] \in Nat /\ Window \in Nat
                /\ ~(now - times[1] >= Window)
            BY <1>1, <1>2, <2>1, <3>2
          <6> QED
            BY <6>3, <6>4
        <5> QED
          BY <5>2, <5>3
      <4>4. n <= 2 * limit - 2
        <5>1. n \in Nat /\ limit \in Nat /\ n <= 2 * limit - 1 /\ n # 2 * limit - 1
          BY <1>1, <4>3
        <5> QED
          BY <5>1
      <4>5. InOrder(times, now) /\ Telling(c, b.started, times, limit)
        BY DEF BucketKept, c
      <4> QED
        BY <1>1, <4>1, <4>2, <4>4, <4>5
    <3> QED
      BY <3>1, <3>2
  <2> DEFINE all == Append(rest, now)
             r == Len(rest)
  <2>3. /\ InOrder(all, now) /\ Len(all) = r + 1 /\ all[r + 1] = now
        /\ \A i \in 1..r : all[i] = rest[i]
    BY <2>2, GoesOn
  <2>4. r \in Nat /\ r = Len(rest)
    BY <2>2 DEF InOrder
  <2> HIDE DEF all, r
  <2>5. ASSUME Lim!NewWindow(b), d = 1, new.started = now PROVE Telling(d, new.started, all, limit)
    <3>1. ASSUME NEW i \in 1..(r + 1), i + 1 + limit <= r + 1 + 1
          PROVE  now - all[i] >= Window
      <4>1. i \in 1..r /\ i + limit <= r + 1
        BY <2>4, <3>1
      <4> QED
        BY <2>2, <2>3, <2>4, <2>5, <4>1
    <3>2. Telling(1, now, all, limit)
      BY <2>3, <2>4, <3>1 DEF Telling
    <3> QED
      BY <2>5, <3>2
  <2>6. ASSUME ~Lim!NewWindow(b), d = c + 1, c > 0, new.started = b.started
        PROVE  Telling(d, new.started, all, limit)
    <3>1. Telling(c, b.started, rest, limit)
      BY <2>2, <2>6
    <3>2. all[r + 1 - (c + 1) + 1] = b.started
      <4>1. r + 1 - (c + 1) + 1 = r - c + 1 /\ r - c + 1 \in 1..r
        BY <1>3, <2>4, <2>6, <3>1 DEF Telling
      <4> QED
        BY <2>3, <2>4, <2>6, <3>1, <4>1 DEF Telling
    <3>3. ASSUME NEW i \in 1..(r + 1), i + (c + 1) + limit <= r + 1 + 1
          PROVE  b.started - all[i] >= Window
      <4>1. i \in 1..r /\ i + c + limit <= r + 1
        BY <1>3, <2>4, <3>3
      <4> QED
        BY <2>3, <2>4, <3>1, <4>1 DEF Telling
    <3>4. c + 1 <= r + 1 /\ c + 1 # 0
      BY <1>3, <2>4, <3>1 DEF Telling
    <3>5. Len(all) = r + 1 /\ c \in Nat
      BY <1>3, <2>3
    <3>6. Telling(c + 1, b.started, all, limit)
      BY <2>4, <3>2, <3>3, <3>4, <3>5 DEF Telling
    <3> QED
      BY <2>6, <3>6
  <2>7. Telling(d, new.started, all, limit)
    BY <1>5, <2>5, <2>6
  <2>8. Len(all) <= 2 * limit - 1
    BY <2>2, <2>3, <2>4
  <2> QED
    BY <1>5, <2>2, <2>3, <2>7, <2>8 DEF BucketKept, all, new, d
<1> QED
  BY <1>1, <1>2, <1>7, <1>8

\* Time passes.
LEMMA LaterKept ==
  ASSUME NEW b, NEW times, NEW limit \in Nat \ {0}, NEW at \in Nat, Lim!LimiterAssumption,
         BucketKept(b, times, limit, at)
  PROVE  BucketKept(b, times, limit, at + 1)
<1>1. 0..at \subseteq 0..at + 1 /\ 0..at + Block \subseteq 0..at + 1 + Block
  BY DEF Lim!LimiterAssumption
<1>2. b \in [count : 0..limit + 1, started : 0..at + 1, until : 0..at + 1 + Block]
  BY <1>1 DEF BucketKept, BucketTyped
<1>3. times \in Seq(0..at + 1) /\ InOrder(times, at + 1)
  BY <1>1 DEF BucketKept, InOrder
<1> QED
  BY <1>2, <1>3 DEF BucketKept, BucketTyped, InOrder

\* Every step keeps the buckets and their histories together.
LEMMA LimitedKept ==
  ASSUME Lim!LimiterAssumption, Limited, [Lim!Next]_(Lim!vars)
  PROVE  Limited'
<1>0. /\ now \in Nat /\ NetworkLimit \in Nat \ {0} /\ SubjectNetworkLimit \in Nat \ {0}
      /\ LimiterTime \in Nat
  BY DEF Limited, Lim!LimiterAssumption
<1>1. ASSUME NEW s \in ThrottledSubjects, NEW n \in Networks, Lim!Consume(s, n) PROVE Limited'
  <2> DEFINE k == <<s, n>>
  <2>1. k \in Lim!Pairs
    BY DEF Lim!Pairs
  <2> HIDE DEF k
  <2>2. \A l \in Networks \ {n} : network'[l] = network[l] /\ seen'[l] = seen[l]
    BY <1>1 DEF Lim!Consume, Limited
  <2>3. \A l \in Lim!Pairs \ {k} : subject'[l] = subject[l] /\ admitted'[l] = admitted[l]
    BY <1>1 DEF Lim!Consume, Limited, k
  <2>4. /\ network' = [l \in Networks |-> network'[l]] /\ seen' = [l \in Networks |-> seen'[l]]
        /\ subject' = [l \in Lim!Pairs |-> subject'[l]] /\ admitted' = [l \in Lim!Pairs |-> admitted'[l]]
        /\ answering' \subseteq Lim!Pairs /\ now' = now
    BY <1>1, <2>1 DEF Lim!Consume, Limited, k
  <2>5. /\ network'[n] = Lim!Consumed(network[n], NetworkLimit)
        /\ seen'[n] = IF Lim!Admits(network[n], NetworkLimit) THEN Lim!Noted(seen[n]) ELSE seen[n]
    BY <1>1 DEF Lim!Consume, Limited
  <2>6. \/ subject'[k] = subject[k] /\ admitted'[k] = admitted[k]
        \/ /\ subject'[k] = Lim!Consumed(subject[k], SubjectNetworkLimit)
           /\ admitted'[k] = IF Lim!Admits(subject[k], SubjectNetworkLimit) THEN Lim!Noted(admitted[k])
                             ELSE admitted[k]
    BY <1>1, <2>1 DEF Lim!Consume, Limited, k
  <2>7. BucketKept(network[n], seen[n], NetworkLimit, now)
        /\ BucketKept(subject[k], admitted[k], SubjectNetworkLimit, now)
    BY <2>1 DEF Limited
  <2>8. BucketKept(network'[n], seen'[n], NetworkLimit, now)
    BY <1>0, <2>5, <2>7, Refused, Admitted
  <2>9. BucketKept(subject'[k], admitted'[k], SubjectNetworkLimit, now)
    BY <1>0, <2>6, <2>7, Refused, Admitted
  <2>10. \A l \in Networks : BucketKept(network'[l], seen'[l], NetworkLimit, now')
    BY <2>2, <2>4, <2>8 DEF Limited
  <2>11. \A l \in Lim!Pairs : BucketKept(subject'[l], admitted'[l], SubjectNetworkLimit, now')
    BY <2>3, <2>4, <2>9 DEF Limited
  <2> QED
    BY <2>4, <2>10, <2>11 DEF Limited, BucketKept, BucketTyped, InOrder, Telling, CountOf
<1>2. ASSUME NEW k \in Lim!Pairs, Lim!Deny(k) PROVE Limited'
  BY <1>2 DEF Lim!Deny, Limited, BucketKept, BucketTyped, InOrder, Telling, CountOf
<1>3. ASSUME NEW k \in Lim!Pairs, Lim!ClearSuccessfulLogin(k) PROVE Limited'
  <2>1. /\ UNCHANGED <<now, network, seen>> /\ answering' \subseteq Lim!Pairs
        /\ subject' = [l \in Lim!Pairs |-> subject'[l]] /\ admitted' = [l \in Lim!Pairs |-> admitted'[l]]
        /\ subject'[k] = Lim!Absent /\ admitted'[k] = <<>>
        /\ \A l \in Lim!Pairs \ {k} : subject'[l] = subject[l] /\ admitted'[l] = admitted[l]
    BY <1>3 DEF Lim!ClearSuccessfulLogin, Limited
  <2>2. BucketKept(Lim!Absent, <<>>, SubjectNetworkLimit, now)
    BY <1>0, EmptyKept
  <2>3. \A l \in Lim!Pairs : BucketKept(subject'[l], admitted'[l], SubjectNetworkLimit, now')
    BY <2>1, <2>2 DEF Limited
  <2> QED
    BY <2>1, <2>3 DEF Limited, BucketKept, BucketTyped, InOrder, Telling, CountOf
<1>4. CASE Lim!Tick
  <2>1. now' = now + 1 /\ now' \in 0..LimiterTime /\ UNCHANGED <<network, subject, answering, seen, admitted>>
    BY <1>0, <1>4 DEF Lim!Tick, Limited
  <2>2. \A l \in Networks : BucketKept(network[l], seen[l], NetworkLimit, now')
    BY <1>0, <2>1, LaterKept DEF Limited
  <2>3. \A l \in Lim!Pairs : BucketKept(subject[l], admitted[l], SubjectNetworkLimit, now')
    BY <1>0, <2>1, LaterKept DEF Limited
  <2> QED
    BY <2>1, <2>2, <2>3 DEF Limited, BucketKept, BucketTyped, InOrder, Telling, CountOf
<1>5. CASE UNCHANGED Lim!vars
  BY <1>5 DEF Lim!vars, Limited, BucketKept, BucketTyped, InOrder, Telling, CountOf
<1> QED
  BY <1>1, <1>2, <1>3, <1>4, <1>5 DEF Lim!Next

\* No stretch of time as long as a window holds twice as many attempts as the limit.
LEMMA LimitedSound == Limited => Lim!SubjectThrottled /\ Lim!NetworkThrottled
BY DEF Limited, BucketKept, InOrder, Lim!SubjectThrottled, Lim!NetworkThrottled

\* A bucket that is kept has its type.
LEMMA BucketTypes ==
  ASSUME Lim!LimiterAssumption, now \in Nat, NEW limit \in Nat, NEW b, NEW times,
         BucketKept(b, times, limit, now)
  PROVE  Lim!BucketOK(b, limit) /\ times \in Seq(0..now)
<1>1. BucketTyped(b, limit, now) /\ times \in Seq(0..now)
  BY DEF BucketKept, InOrder
<1>2. /\ b.count \in 0..limit + 1 /\ b.started \in 0..now /\ b.until \in 0..now + Block
      /\ b.count <= limit => b.until = 0
      /\ b.count = limit + 1 => b.until >= b.started + Window
  BY <1>1 DEF BucketTyped
<1>3. Window \in Nat \ {0}
  BY DEF Lim!LimiterAssumption
<1>4. b.count = limit + 1 <=> b.until # 0
  BY <1>2, <1>3
<1> QED
  BY <1>1, <1>2, <1>4 DEF Lim!BucketOK

\* All values have their types.
LEMMA LimiterTypes == Lim!LimiterAssumption /\ Limited => Lim!TypeOK
<1> SUFFICES ASSUME Lim!LimiterAssumption, Limited PROVE Lim!TypeOK
  OBVIOUS
<1>1. ASSUME NEW n \in Networks
      PROVE  Lim!BucketOK(network[n], NetworkLimit) /\ seen[n] \in Seq(0..now)
  BY BucketTypes DEF Limited, Lim!LimiterAssumption
<1>2. ASSUME NEW k \in Lim!Pairs
      PROVE  Lim!BucketOK(subject[k], SubjectNetworkLimit) /\ admitted[k] \in Seq(0..now)
  BY BucketTypes DEF Limited, Lim!LimiterAssumption
<1> QED
  BY <1>1, <1>2 DEF Limited, Lim!TypeOK

-----------------------------------------------------------------------------
\* Tenants and their operators.

\* A sign-in that is under way knows its tenant, and when it found it ACTIVE.
SignIns ==
  [is : {"none"}]
    \cup [is : {"authenticated"}, tenant : Tenants, read : 0..MaxInterruptions]
    \cup [is : {"open", "revoked"}, tenant : Tenants, read : 0..MaxInterruptions,
          since : 0..MaxInterruptions]

TenantsTyped ==
  /\ slug \in [Tenants -> Slugs \cup {"none"}]
  /\ tenant \in [Tenants -> {"NONE", "ACTIVE", "INACTIVE"}]
  /\ control \in [Tenants -> {"NONE", "ACTIVE", "SUSPENDED", "DELETION_REQUESTED", "DELETED"}]
  /\ provisioned \subseteq Ten!Existing
  /\ account \in [Emails -> Tenants \cup {"none"}]
  /\ registering \in [Registrants -> {Ten!Idle} \cup [slug : Slugs, email : Emails]]
  /\ tenantLogin \in [TenantLogins -> SignIns]
  /\ era \in [Tenants -> 0..MaxInterruptions]

\* A tenant without a row is in nobody's control, and the two records of one that
\* has been agree.
Controlled ==
  \A t \in Tenants : /\ tenant[t] = "NONE" => control[t] = "NONE"
                     /\ control[t] # "NONE" => (control[t] = "ACTIVE" <=> tenant[t] = "ACTIVE")

\* The inductive invariant.
Tenancy == TenantsTyped /\ Controlled /\ Ten!ServiceSound

\* There are no tenants yet.
LEMMA TenancyInit == MaxInterruptions \in Nat /\ Ten!Init => Tenancy
<1> SUFFICES ASSUME MaxInterruptions \in Nat, Ten!Init PROVE Tenancy
  OBVIOUS
<1>1. TenantsTyped
  BY DEF Ten!Init, TenantsTyped, SignIns, Ten!Existing
<1>2. Controlled
  BY DEF Ten!Init, Controlled
<1>3. Ten!ServiceSound
  BY DEF Ten!Init, Ten!ServiceSound, Ten!Existing
<1> QED
  BY <1>1, <1>2, <1>3 DEF Tenancy

\* A tenant that comes into being has an address of its own, and no account yet.
LEMMA TenantAdded ==
  ASSUME Tenancy, NEW t \in Tenants, NEW s \in Slugs, NEW state \in {"ACTIVE", "INACTIVE"},
         tenant[t] = "NONE", Ten!SlugFree(s),
         slug' = [slug EXCEPT ![t] = s], tenant' = [tenant EXCEPT ![t] = state],
         UNCHANGED <<control, tenantLogin, era>>
  PROVE  /\ slug' \in [Tenants -> Slugs \cup {"none"}]
         /\ tenant' \in [Tenants -> {"NONE", "ACTIVE", "INACTIVE"}]
         /\ Ten!Existing' = Ten!Existing \cup {t} /\ t \notin provisioned
         /\ Controlled'
         /\ \A u, v \in Ten!Existing' : slug'[u] = slug'[v] => u = v
         /\ \A u \in Ten!Existing' : Ten!LifecycleState(u)' = "ACTIVE" <=> tenant'[u] = "ACTIVE"
<1>1. /\ slug' \in [Tenants -> Slugs \cup {"none"}]
      /\ tenant' \in [Tenants -> {"NONE", "ACTIVE", "INACTIVE"}]
  BY DEF Tenancy, TenantsTyped
<1>2. /\ slug'[t] = s /\ \A u \in Tenants \ {t} : slug'[u] = slug[u]
      /\ tenant'[t] = state /\ \A u \in Tenants \ {t} : tenant'[u] = tenant[u]
  BY DEF Tenancy, TenantsTyped
<1>3. Ten!Existing' = Ten!Existing \cup {t} /\ t \notin provisioned
  BY <1>2 DEF Ten!Existing, Tenancy, TenantsTyped
<1>4. Controlled'
  BY <1>2 DEF Tenancy, Controlled
<1>5. \A u, v \in Ten!Existing' : slug'[u] = slug'[v] => u = v
  <2>1. \A u \in Ten!Existing : u \in Tenants \ {t} /\ slug[u] # s
    BY DEF Ten!Existing, Ten!SlugFree
  <2> QED
    BY <1>2, <1>3, <2>1 DEF Tenancy, Ten!ServiceSound
<1>6. \A u \in Ten!Existing' : Ten!LifecycleState(u)' = "ACTIVE" <=> tenant'[u] = "ACTIVE"
  BY <1>1, <1>4 DEF Controlled, Ten!LifecycleState, Ten!Existing
<1> QED
  BY <1>1, <1>3, <1>4, <1>5, <1>6

\* The operators' commands change both records of a state alike.
LEMMA StatesAgree ==
  ASSUME Tenancy, NEW t \in Ten!Existing, NEW state \in {"ACTIVE", "INACTIVE"},
         NEW in \in {"ACTIVE", "SUSPENDED", "DELETION_REQUESTED", "DELETED"},
         in = "ACTIVE" <=> state = "ACTIVE",
         tenant' = [tenant EXCEPT ![t] = state], control' = [control EXCEPT ![t] = in],
         UNCHANGED <<slug, provisioned, account, registering>>
  PROVE  /\ tenant' \in [Tenants -> {"NONE", "ACTIVE", "INACTIVE"}]
         /\ control' \in [Tenants -> {"NONE", "ACTIVE", "SUSPENDED", "DELETION_REQUESTED", "DELETED"}]
         /\ Ten!Existing' = Ten!Existing /\ Controlled'
         /\ \A u \in Ten!Existing' : Ten!LifecycleState(u)' = "ACTIVE" <=> tenant'[u] = "ACTIVE"
<1>1. t \in Tenants
  BY DEF Ten!Existing
<1>2. /\ tenant' \in [Tenants -> {"NONE", "ACTIVE", "INACTIVE"}]
      /\ control' \in [Tenants -> {"NONE", "ACTIVE", "SUSPENDED", "DELETION_REQUESTED", "DELETED"}]
  BY DEF Tenancy, TenantsTyped
<1>3. /\ tenant'[t] = state /\ \A u \in Tenants \ {t} : tenant'[u] = tenant[u]
      /\ control'[t] = in /\ \A u \in Tenants \ {t} : control'[u] = control[u]
  BY <1>1 DEF Tenancy, TenantsTyped
<1>4. Ten!Existing' = Ten!Existing
  BY <1>3 DEF Ten!Existing
<1>5. Controlled'
  BY <1>1, <1>3 DEF Tenancy, Controlled
<1>6. \A u \in Ten!Existing' : Ten!LifecycleState(u)' = "ACTIVE" <=> tenant'[u] = "ACTIVE"
  BY <1>2, <1>5 DEF Controlled, Ten!LifecycleState, Ten!Existing
<1> QED
  BY <1>2, <1>4, <1>5, <1>6

\* Whatever takes a tenant out of service ends the sessions it finds.
LEMMA OutOfService ==
  ASSUME MaxInterruptions \in Nat, Tenancy, NEW t \in Ten!Existing,
         NEW in \in {"SUSPENDED", "DELETION_REQUESTED", "DELETED"}, Ten!TakeOutOfService(t, in)
  PROVE  Tenancy'
<1>1. t \in Tenants /\ era[t] \in Nat /\ era[t] < MaxInterruptions
  BY DEF Ten!Existing, Tenancy, TenantsTyped, Ten!TakeOutOfService
<1>2. /\ tenant' \in [Tenants -> {"NONE", "ACTIVE", "INACTIVE"}]
      /\ control' \in [Tenants -> {"NONE", "ACTIVE", "SUSPENDED", "DELETION_REQUESTED", "DELETED"}]
      /\ Ten!Existing' = Ten!Existing /\ Controlled'
      /\ \A u \in Ten!Existing' : Ten!LifecycleState(u)' = "ACTIVE" <=> tenant'[u] = "ACTIVE"
  BY StatesAgree DEF Ten!TakeOutOfService
<1>3. era' \in [Tenants -> 0..MaxInterruptions] /\ \A u \in Tenants \ {t} : era'[u] = era[u]
  BY <1>1 DEF Tenancy, TenantsTyped, Ten!TakeOutOfService
<1>4. ASSUME NEW l \in TenantLogins
      PROVE  /\ tenantLogin'[l] \in SignIns
             /\ tenantLogin'[l].is = "open" => tenantLogin'[l] = tenantLogin[l] /\ tenantLogin[l].tenant \in Tenants \ {t}
  <2>1. tenantLogin[l] \in SignIns
    BY DEF Tenancy, TenantsTyped
  <2>2. CASE l \in Ten!Revoked(t)
    <3>1. tenantLogin'[l] = [tenantLogin[l] EXCEPT !.is = "revoked"]
      BY <2>2 DEF Ten!TakeOutOfService
    <3>2. tenantLogin[l] \in [is : {"open", "revoked"}, tenant : Tenants, read : 0..MaxInterruptions,
                              since : 0..MaxInterruptions]
      BY <2>1, <2>2 DEF SignIns, Ten!Revoked
    <3> QED
      BY <3>1, <3>2 DEF SignIns
  <2>3. CASE l \notin Ten!Revoked(t)
    <3>1. tenantLogin'[l] = tenantLogin[l]
      BY <2>3 DEF Ten!TakeOutOfService
    <3>2. tenantLogin[l].is = "open" => tenantLogin[l].tenant # t
      BY <2>3 DEF Ten!Revoked
    <3>3. tenantLogin[l].is = "open" => tenantLogin[l].tenant \in Tenants
      BY <2>1 DEF SignIns
    <3> QED
      BY <2>1, <3>1, <3>2, <3>3
  <2> QED
    BY <2>2, <2>3
<1>5. tenantLogin' \in [TenantLogins -> SignIns]
  BY <1>4 DEF Ten!TakeOutOfService
<1>6. TenantsTyped'
  BY <1>2, <1>3, <1>5 DEF Tenancy, TenantsTyped, Ten!TakeOutOfService
<1>7. \A l \in TenantLogins : tenantLogin'[l].is = "open" => tenantLogin'[l].since = era'[tenantLogin'[l].tenant]
  BY <1>3, <1>4 DEF Tenancy, Ten!ServiceSound
<1>8. Ten!ServiceSound'
  BY <1>2, <1>7 DEF Tenancy, Ten!ServiceSound, Ten!TakeOutOfService
<1> QED
  BY <1>2, <1>6, <1>8 DEF Tenancy

\* Every step of registrations, operators and sign-ins keeps the tenancy.
LEMMA TenancyKept ==
  ASSUME MaxInterruptions \in Nat, Tenancy, [Ten!Next]_(Ten!vars)
  PROVE  Tenancy'
<1>1. ASSUME NEW r \in Registrants, NEW e \in Emails, NEW s \in Slugs, Ten!BeginRegistration(r, e, s)
      PROVE  Tenancy'
  <2>1. TenantsTyped'
    BY <1>1 DEF Tenancy, TenantsTyped, Ten!BeginRegistration, Ten!Existing
  <2> QED
    BY <1>1, <2>1
    DEF Tenancy, Ten!BeginRegistration, Controlled, Ten!ServiceSound, Ten!Existing,
        Ten!LifecycleState
<1>2. ASSUME NEW r \in Registrants, NEW t \in Tenants, Ten!Register(r, t)
      PROVE  Tenancy'
  <2> DEFINE form == registering[r]
  <2>1. form \in [slug : Slugs, email : Emails]
    BY <1>2 DEF Ten!Register, Tenancy, TenantsTyped
  <2>2. /\ tenant[t] = "NONE" /\ Ten!SlugFree(form.slug) /\ account[form.email] = "none"
        /\ slug' = [slug EXCEPT ![t] = form.slug] /\ tenant' = [tenant EXCEPT ![t] = "ACTIVE"]
        /\ account' = [account EXCEPT ![form.email] = t]
        /\ provisioned' = provisioned \cup {t}
        /\ registering' = [registering EXCEPT ![r] = Ten!Idle]
        /\ UNCHANGED <<control, tenantLogin, era>>
    BY <1>2 DEF Ten!Register, Ten!Unique
  <2>3. form.slug \in Slugs /\ form.email \in Emails
    BY <2>1
  <2> HIDE DEF form
  <2>4. /\ slug' \in [Tenants -> Slugs \cup {"none"}]
        /\ tenant' \in [Tenants -> {"NONE", "ACTIVE", "INACTIVE"}]
        /\ Ten!Existing' = Ten!Existing \cup {t} /\ t \notin provisioned
        /\ Controlled'
        /\ \A u, v \in Ten!Existing' : slug'[u] = slug'[v] => u = v
        /\ \A u \in Ten!Existing' : Ten!LifecycleState(u)' = "ACTIVE" <=> tenant'[u] = "ACTIVE"
    BY <2>2, <2>3, TenantAdded
  <2>5. account' \in [Emails -> Tenants \cup {"none"}]
    BY <2>2, <2>3 DEF Tenancy, TenantsTyped
  <2>6. registering' \in [Registrants -> {Ten!Idle} \cup [slug : Slugs, email : Emails]]
    BY <2>2 DEF Tenancy, TenantsTyped
  <2>7. TenantsTyped'
    BY <2>2, <2>4, <2>5, <2>6 DEF Tenancy, TenantsTyped
  <2>8. \A e, f \in Emails : account'[e] # "none" =>
          account'[e] \in provisioned' /\ (account'[e] = account'[f] => e = f)
    <3>1. \A e \in Emails : e # form.email =>
            account'[e] = account[e] /\ (account[e] # "none" => account[e] # t)
      BY <2>2, <2>4 DEF Tenancy, TenantsTyped, Ten!ServiceSound
    <3>2. account'[form.email] = t
      BY <2>2, <2>3 DEF Tenancy, TenantsTyped
    <3> QED
      BY <2>2, <2>3, <3>1, <3>2 DEF Tenancy, TenantsTyped, Ten!ServiceSound
  <2>9. Ten!ServiceSound'
    BY <2>2, <2>4, <2>8 DEF Tenancy, Ten!ServiceSound
  <2> QED
    BY <2>4, <2>7, <2>9 DEF Tenancy
<1>3. ASSUME NEW r \in Registrants, Ten!RollBack(r)
      PROVE  Tenancy'
  <2>1. TenantsTyped'
    BY <1>3 DEF Tenancy, TenantsTyped, Ten!RollBack, Ten!Existing
  <2> QED
    BY <1>3, <2>1
    DEF Tenancy, Ten!RollBack, Controlled, Ten!ServiceSound, Ten!Existing, Ten!LifecycleState
<1>4. ASSUME NEW t \in Tenants, NEW s \in Slugs, NEW state \in {"ACTIVE", "INACTIVE"},
             Ten!CreateTenant(t, s, state)
      PROVE  Tenancy'
  <2>1. /\ slug' \in [Tenants -> Slugs \cup {"none"}]
        /\ tenant' \in [Tenants -> {"NONE", "ACTIVE", "INACTIVE"}]
        /\ Ten!Existing' = Ten!Existing \cup {t} /\ t \notin provisioned
        /\ Controlled'
        /\ \A u, v \in Ten!Existing' : slug'[u] = slug'[v] => u = v
        /\ \A u \in Ten!Existing' : Ten!LifecycleState(u)' = "ACTIVE" <=> tenant'[u] = "ACTIVE"
    BY <1>4, TenantAdded DEF Ten!CreateTenant
  <2>2. TenantsTyped'
    BY <1>4, <2>1 DEF Tenancy, TenantsTyped, Ten!CreateTenant
  <2>3. Ten!ServiceSound'
    BY <1>4, <2>1 DEF Tenancy, Ten!ServiceSound, Ten!CreateTenant
  <2> QED
    BY <2>1, <2>2, <2>3 DEF Tenancy
<1>5. ASSUME NEW t \in Tenants, Ten!ProvisionExistingTenant(t)
      PROVE  Tenancy'
  <2>1. TenantsTyped'
    BY <1>5 DEF Tenancy, TenantsTyped, Ten!ProvisionExistingTenant, Ten!Existing
  <2> QED
    BY <1>5, <2>1
    DEF Tenancy, Ten!ProvisionExistingTenant, Controlled, Ten!ServiceSound, Ten!Existing,
        Ten!LifecycleState
<1>6. ASSUME NEW t \in Tenants, NEW role \in Ten!Roles, Ten!SuspendTenant(role, t)
      PROVE  Tenancy'
  BY <1>6, OutOfService DEF Ten!SuspendTenant
<1>7. ASSUME NEW t \in Tenants, NEW role \in Ten!Roles, Ten!RequestTenantDeletion(role, t)
      PROVE  Tenancy'
  BY <1>7, OutOfService DEF Ten!RequestTenantDeletion
<1>8. ASSUME NEW t \in Tenants, NEW role \in Ten!Roles, Ten!FinaliseTenantDeletion(role, t)
      PROVE  Tenancy'
  <2>1. t \in Ten!Existing
    BY <1>8 DEF Ten!FinaliseTenantDeletion, Ten!Existing, Tenancy, Controlled
  <2> QED
    BY <1>8, <2>1, OutOfService DEF Ten!FinaliseTenantDeletion
<1>9. ASSUME NEW t \in Tenants, NEW role \in Ten!Roles, Ten!ReactivateTenant(role, t)
      PROVE  Tenancy'
  <2>1. /\ tenant' \in [Tenants -> {"NONE", "ACTIVE", "INACTIVE"}]
        /\ control' \in [Tenants -> {"NONE", "ACTIVE", "SUSPENDED", "DELETION_REQUESTED", "DELETED"}]
        /\ Ten!Existing' = Ten!Existing /\ Controlled'
        /\ \A u \in Ten!Existing' : Ten!LifecycleState(u)' = "ACTIVE" <=> tenant'[u] = "ACTIVE"
    BY <1>9, StatesAgree DEF Ten!ReactivateTenant
  <2>2. TenantsTyped'
    BY <1>9, <2>1 DEF Tenancy, TenantsTyped, Ten!ReactivateTenant
  <2>3. Ten!ServiceSound'
    BY <1>9, <2>1 DEF Tenancy, Ten!ServiceSound, Ten!ReactivateTenant
  <2> QED
    BY <2>1, <2>2, <2>3 DEF Tenancy
<1>10. ASSUME NEW l \in TenantLogins, NEW t \in Tenants, Ten!Authenticate(l, t)
       PROVE  Tenancy'
  <2>1. /\ tenantLogin' = [tenantLogin EXCEPT ![l] = [is |-> "authenticated", tenant |-> t, read |-> era[t]]]
        /\ UNCHANGED <<slug, tenant, control, provisioned, account, registering, era>>
    BY <1>10 DEF Ten!Authenticate
  <2>2. era[t] \in 0..MaxInterruptions
    BY DEF Tenancy, TenantsTyped
  <2>3. [is |-> "authenticated", tenant |-> t, read |-> era[t]] \in SignIns
    BY <2>2 DEF SignIns
  <2>4. tenantLogin' \in [TenantLogins -> SignIns]
    BY <2>1, <2>3 DEF Tenancy, TenantsTyped
  <2>5. TenantsTyped'
    BY <2>1, <2>4 DEF Tenancy, TenantsTyped, Ten!Existing
  <2>6. \A k \in TenantLogins : tenantLogin'[k].is = "open" => tenantLogin'[k] = tenantLogin[k]
    BY <2>1 DEF Tenancy, TenantsTyped
  <2> QED
    BY <2>1, <2>5, <2>6
    DEF Tenancy, Controlled, Ten!ServiceSound, Ten!Existing, Ten!LifecycleState
<1>11. ASSUME NEW l \in TenantLogins, Ten!CreateSession(l)
       PROVE  Tenancy'
  <2>1. tenantLogin[l] \in [is : {"authenticated"}, tenant : Tenants, read : 0..MaxInterruptions]
    BY <1>11 DEF Ten!CreateSession, Tenancy, TenantsTyped, SignIns
  <2> DEFINE session == [is |-> "open", tenant |-> tenantLogin[l].tenant, read |-> tenantLogin[l].read,
                         since |-> era[tenantLogin[l].tenant]]
  <2>2. /\ tenantLogin' = [tenantLogin EXCEPT ![l] = session]
        /\ UNCHANGED <<slug, tenant, control, provisioned, account, registering, era>>
    BY <1>11 DEF Ten!CreateSession
  <2>3. tenantLogin[l].tenant \in Tenants /\ era[tenantLogin[l].tenant] \in 0..MaxInterruptions
    BY <2>1 DEF Tenancy, TenantsTyped
  <2>4. session \in SignIns /\ session.since = era[session.tenant]
    BY <2>1, <2>3 DEF SignIns
  <2> HIDE DEF session
  <2>5. tenantLogin' \in [TenantLogins -> SignIns]
    BY <2>2, <2>4 DEF Tenancy, TenantsTyped
  <2>6. TenantsTyped'
    BY <2>2, <2>5 DEF Tenancy, TenantsTyped, Ten!Existing
  <2>7. \A k \in TenantLogins : tenantLogin'[k] = tenantLogin[k] \/ tenantLogin'[k] = session
    BY <2>2 DEF Tenancy, TenantsTyped
  <2>8. \A k \in TenantLogins : tenantLogin'[k].is = "open" => tenantLogin'[k].since = era[tenantLogin'[k].tenant]
    BY <2>4, <2>7 DEF Tenancy, Ten!ServiceSound
  <2> QED
    BY <2>2, <2>6, <2>8
    DEF Tenancy, Controlled, Ten!ServiceSound, Ten!Existing, Ten!LifecycleState
<1>12. CASE UNCHANGED Ten!vars
  BY <1>12 DEF Ten!vars, Tenancy, TenantsTyped, Controlled, Ten!ServiceSound, Ten!Existing,
     Ten!LifecycleState
<1> QED
  BY <1>1, <1>2, <1>3, <1>4, <1>5, <1>6, <1>7, <1>8, <1>9, <1>10, <1>11, <1>12 DEF Ten!Next

\* The tenancy is sound.
LEMMA TenancySound == Tenancy => Ten!ServiceSound
BY DEF Tenancy

\* Who signs in or has signed in did so to a tenant that exists.
SignedInSomewhere == \A l \in TenantLogins : tenantLogin[l].is # "none" => tenantLogin[l].tenant \in Ten!Existing

\* Nobody has signed in.
LEMMA SomewhereInit == Ten!Init => SignedInSomewhere
BY DEF Ten!Init, SignedInSomewhere

\* No tenant ceases to exist.
LEMMA SomewhereKept ==
  ASSUME Tenancy, SignedInSomewhere, [Ten!Next]_(Ten!vars)
  PROVE  SignedInSomewhere'
<1>0. TenantsTyped
  BY DEF Tenancy
<1>1. Ten!Existing \subseteq Ten!Existing'
  BY <1>0 DEF Ten!Next, Ten!vars, Ten!Existing, TenantsTyped, Ten!BeginRegistration,
     Ten!Register, Ten!RollBack, Ten!CreateTenant,
     Ten!ProvisionExistingTenant, Ten!TakeOutOfService, Ten!SuspendTenant,
     Ten!RequestTenantDeletion,
     Ten!FinaliseTenantDeletion, Ten!ReactivateTenant, Ten!Authenticate, Ten!CreateSession
<1>2. ASSUME NEW t, NEW state, Ten!TakeOutOfService(t, state) PROVE SignedInSomewhere'
  <2>1. \A l \in TenantLogins : tenantLogin'[l].is # "none" =>
          tenantLogin[l].is # "none" /\ tenantLogin'[l].tenant = tenantLogin[l].tenant
    BY <1>0, <1>2 DEF Ten!TakeOutOfService, Ten!Revoked, TenantsTyped, SignIns
  <2> QED
    BY <1>1, <2>1 DEF SignedInSomewhere
<1>3. ASSUME NEW l \in TenantLogins, NEW t \in Tenants, Ten!Authenticate(l, t) PROVE SignedInSomewhere'
  <2>1. t \in Ten!Existing /\ tenantLogin'[l].tenant = t /\ \A m \in TenantLogins \ {l} : tenantLogin'[m] = tenantLogin[m]
    BY <1>0, <1>3 DEF Ten!Authenticate, TenantsTyped, Ten!Existing
  <2> QED
    BY <1>1, <2>1 DEF SignedInSomewhere
<1>4. ASSUME NEW l \in TenantLogins, Ten!CreateSession(l) PROVE SignedInSomewhere'
  <2>1. /\ tenantLogin[l].is # "none" /\ tenantLogin'[l].tenant = tenantLogin[l].tenant
        /\ \A m \in TenantLogins \ {l} : tenantLogin'[m] = tenantLogin[m]
    BY <1>0, <1>4 DEF Ten!CreateSession, TenantsTyped
  <2> QED
    BY <1>1, <2>1 DEF SignedInSomewhere
<1>5. CASE tenantLogin' = tenantLogin
  BY <1>1, <1>5 DEF SignedInSomewhere
<1> QED
  BY <1>2, <1>3, <1>4, <1>5
  DEF Ten!Next, Ten!vars, Ten!BeginRegistration, Ten!Register, Ten!RollBack, Ten!CreateTenant,
     Ten!ProvisionExistingTenant, Ten!SuspendTenant, Ten!RequestTenantDeletion,
     Ten!FinaliseTenantDeletion,
     Ten!ReactivateTenant

\* All values have their types.
LEMMA TenantTypes == Tenancy /\ SignedInSomewhere => Ten!TypeOK
<1> SUFFICES ASSUME Tenancy, SignedInSomewhere PROVE Ten!TypeOK
  OBVIOUS
<1>1. \A l \in TenantLogins : tenantLogin[l].is \in {"none", "authenticated", "open", "revoked"}
  BY DEF Tenancy, TenantsTyped, SignIns
<1> QED
  BY <1>1 DEF Tenancy, TenantsTyped, SignedInSomewhere, Ten!TypeOK

-----------------------------------------------------------------------------
\* The lifecycle of a Thing.

\* No version, nor any state a transition leads from, is called none.
ThingNames == "none" \notin SubjectVersions /\ \A t \in Transitions : t.from # "none"

\* A row of the history.
Rows == [state : Thg!LifecycleStates, version : SubjectVersions, sequence : Nat, decision : Decisions \cup {"none"}]

\* What an object read lies behind the row, or is the state the row is in.
ReadBehind(o) ==
  /\ read[o].sequence \in Nat /\ read[o].sequence <= thing.sequence
  /\ read[o].sequence = thing.sequence => read[o].state = thing.state

\* The inductive invariant: the line that HistoryJustified calls for, and what the
\* objects have read of it.
Line ==
  /\ about \in [Decisions -> SubjectVersions \cup {"none"}] /\ history \in Seq(Rows)
  /\ read = [o \in Objects |-> read[o]]
  /\ \/ thing = Thg!NoRow /\ history = <<>>
     \/ thing \in Rows /\ thing.sequence # 0
  /\ \A o \in Objects : ReadBehind(o)
  /\ Thg!HistoryJustified

\* There is no row, and nobody has read one.
LEMMA LineInit == Thg!Init => Line
<1> SUFFICES ASSUME Thg!Init PROVE Line
  OBVIOUS
<1>1. thing = Thg!NoRow /\ history = <<>> /\ history \in Seq(Rows)
      /\ about = [d \in Decisions |-> "none"] /\ read = [o \in Objects |-> Thg!Unread]
  BY DEF Thg!Init
<1>2. Len(history) = 0 /\ thing.sequence = 0 /\ thing.state = "none"
  BY <1>1 DEF Thg!NoRow
<1>3. \A o \in Objects : ReadBehind(o)
  <2> SUFFICES ASSUME NEW o \in Objects PROVE ReadBehind(o)
    OBVIOUS
  <2>1. read[o] = [state |-> "none", sequence |-> 0]
    BY <1>1 DEF Thg!Unread
  <2>2. read[o].state = "none" /\ read[o].sequence = 0
    BY <2>1
  <2> QED
    BY <1>2, <2>2 DEF ReadBehind
<1>4. Thg!HistoryJustified
  BY <1>1, <1>2 DEF Thg!HistoryJustified
<1>5. about \in [Decisions -> SubjectVersions \cup {"none"}] /\ read = [o \in Objects |-> read[o]]
  BY <1>1
<1> QED
  BY <1>1, <1>3, <1>4, <1>5, Zenon DEF Line

\* A row whose sequence is the next one, and is justified, prolongs the history.
LEMMA LineLonger ==
  ASSUME Line, thing \in Rows, NEW next \in Rows, next.sequence = thing.sequence + 1,
         thing' = next, history' = Append(history, next), UNCHANGED <<about, read>>,
         Thg!Justified(thing, next)
  PROVE  Line'
<1>1. /\ Len(history) = thing.sequence /\ Len(history) \in Nat /\ history \in Seq(Rows)
      /\ history # <<>> => history[Len(history)] = thing
      /\ \A n \in 2..Len(history) : Thg!Justified(history[n - 1], history[n])
  BY DEF Line, Thg!HistoryJustified
<1>2. history' \in Seq(Rows) /\ Len(history') = Len(history) + 1 /\ history'[Len(history) + 1] = next
  BY <1>1
<1>3. \A n \in 1..Len(history) : history'[n] = history[n]
  BY <1>1
<1>4. ASSUME NEW n \in 2..Len(history') PROVE Thg!Justified(history'[n - 1], history'[n])
  <2>1. CASE n \in 2..Len(history)
    <3>1. n - 1 \in 1..Len(history) /\ n \in 1..Len(history)
      BY <1>1, <2>1
    <3>2. Thg!Justified(history[n - 1], history[n])
      BY <1>1, <2>1
    <3> QED
      BY <1>3, <3>1, <3>2 DEF Thg!Justified
  <2>2. CASE n = Len(history) + 1
    <3>1. n - 1 = Len(history) /\ Len(history) \in 1..Len(history) /\ history # <<>>
      BY <1>1, <1>2, <2>2
    <3>2. history'[n - 1] = thing /\ history'[n] = next
      BY <1>1, <1>2, <1>3, <2>2, <3>1
    <3> QED
      BY <3>2 DEF Thg!Justified
  <2> QED
    BY <1>1, <1>2, <2>1, <2>2
<1>5. Thg!HistoryJustified'
  <2>1. Len(history') = thing'.sequence /\ history'[Len(history')] = thing'
    BY <1>1, <1>2
  <2>2. \A n \in 2..Len(history') : Thg!Justified(history'[n - 1], history'[n])
    BY <1>4
  <2> QED
    BY <2>1, <2>2 DEF Thg!HistoryJustified, Thg!Justified
<1>6. ASSUME NEW o \in Objects PROVE ReadBehind(o)'
  <2>1. thing.sequence \in Nat
    BY DEF Rows
  <2> QED
    BY <2>1 DEF Line, ReadBehind
<1>7. thing'.sequence # 0
  BY DEF Rows
<1> QED
  BY <1>2, <1>5, <1>6, <1>7 DEF Line

\* Every step keeps the history one line.
LEMMA LineKept ==
  ASSUME ThingNames, Line, [Thg!Next]_(Thg!vars)
  PROVE  Line'
<1>1. ASSUME NEW v \in SubjectVersions, Thg!Initialise(v) PROVE Line'
  <2>1. /\ thing' \in Rows /\ thing'.sequence = 1 /\ history' = <<thing'>> /\ UNCHANGED <<about, read>>
        /\ thing = Thg!NoRow
    BY <1>1 DEF Thg!Initialise, Rows, Thg!LifecycleStates
  <2>2. history' \in Seq(Rows) /\ Len(history') = 1 /\ history'[1] = thing'
    BY <2>1
  <2>3. Thg!HistoryJustified'
    BY <2>1, <2>2 DEF Thg!HistoryJustified
  <2>4. \A o \in Objects : ReadBehind(o)'
    BY <2>1 DEF Line, ReadBehind, Thg!NoRow
  <2> QED
    BY <2>1, <2>2, <2>3, <2>4 DEF Line
<1>2. ASSUME NEW v \in SubjectVersions, NEW d \in Decisions, Thg!CreateDecision(d, v) PROVE Line'
  <2>1. /\ about' \in [Decisions -> SubjectVersions \cup {"none"}] /\ UNCHANGED <<thing, history, read>>
        /\ \A e \in Decisions : about[e] # "none" => about'[e] = about[e]
    BY <1>2 DEF Thg!CreateDecision, Line
  <2>2. ASSUME NEW n \in 2..Len(history) PROVE Thg!Justified(history[n - 1], history[n])'
    <3>1. history[n - 1] \in Rows /\ history[n] \in Rows /\ Thg!Justified(history[n - 1], history[n])
      BY DEF Line, Thg!HistoryJustified
    <3>2. history[n - 1].version # "none"
      BY <3>1 DEF Rows, ThingNames
    <3>3. history[n].decision # "none" => history[n].decision \in Decisions
      BY <3>1 DEF Rows
    <3> QED
      BY <2>1, <3>1, <3>2, <3>3 DEF Thg!Justified
  <2>3. Thg!HistoryJustified'
    BY <2>1, <2>2 DEF Line, Thg!HistoryJustified
  <2> QED
    BY <2>1, <2>3 DEF Line, ReadBehind
<1>3. ASSUME NEW o \in Objects, Thg!Refresh(o) PROVE Line'
  <2>1. /\ read' = [p \in Objects |-> read'[p]] /\ UNCHANGED <<thing, history, about>>
        /\ read'[o] = [state |-> thing.state, sequence |-> thing.sequence]
        /\ \A p \in Objects \ {o} : read'[p] = read[p]
    BY <1>3 DEF Thg!Refresh, Line
  <2>2. thing.sequence \in Nat
    BY <1>3 DEF Thg!Refresh, Line, Rows
  <2>3. \A p \in Objects : ReadBehind(p)'
    BY <2>1, <2>2 DEF Line, ReadBehind
  <2>4. Thg!HistoryJustified'
    BY <2>1 DEF Line, Thg!HistoryJustified, Thg!Justified
  <2> QED
    BY <2>1, <2>3, <2>4 DEF Line
<1>4. ASSUME NEW o \in Objects, NEW t \in Transitions, NEW d \in Decisions \cup {"none"},
             NEW v \in SubjectVersions, Thg!Transition(o, t, d, v)
      PROVE  Line'
  <2> DEFINE next == [state |-> t.to, version |-> v, sequence |-> thing.sequence + 1, decision |-> d]
  <2>1. thing' = next /\ history' = Append(history, next) /\ UNCHANGED <<about, read>>
    BY <1>4 DEF Thg!Transition
  <2>2. t.from = thing.state
    BY <1>4 DEF Thg!Transition, Thg!InOrder, Line, ReadBehind
  <2>3. thing \in Rows /\ thing.sequence \in Nat
    BY <2>2 DEF Line, Thg!NoRow, ThingNames, Rows
  <2>4. next \in Rows
    BY <2>3 DEF Rows, Thg!LifecycleStates
  <2>5. Thg!Justified(thing, next)
    BY <1>4, <2>2 DEF Thg!Transition, Thg!DecisionFits, Thg!Justified
  <2>6. next.sequence = thing.sequence + 1
    OBVIOUS
  <2> HIDE DEF next
  <2> QED
    BY <2>1, <2>3, <2>4, <2>5, <2>6, LineLonger
<1>5. CASE UNCHANGED Thg!vars
  BY <1>5 DEF Thg!vars, Line, Thg!HistoryJustified, Thg!Justified, ReadBehind
<1> QED
  BY <1>1, <1>2, <1>3, <1>4, <1>5 DEF Thg!Next

\* The line is what justifies the history.
LEMMA LineSound == Line => Thg!HistoryJustified
BY DEF Line

\* There is no row, and nobody has read one.
LEMMA ThingTypesInit == MaxSequence \in Nat \ {0} /\ Thg!Init => Thg!TypeOK
<1> SUFFICES ASSUME MaxSequence \in Nat \ {0}, Thg!Init PROVE Thg!TypeOK
  OBVIOUS
<1>1. Thg!Unread \in [state : Thg!LifecycleStates \cup {"none"}, sequence : 0..MaxSequence]
  BY DEF Thg!Unread
<1> QED
  BY <1>1 DEF Thg!Init, Thg!TypeOK

\* The history ends at its bound.
LEMMA ThingTypesKept ==
  ASSUME MaxSequence \in Nat \ {0}, Thg!TypeOK, [Thg!Next]_(Thg!vars)
  PROVE  Thg!TypeOK'
<1>1. ASSUME NEW v \in SubjectVersions, Thg!Initialise(v) PROVE Thg!TypeOK'
  <2>1. Start \in Thg!LifecycleStates /\ 1 \in 1..MaxSequence
    BY DEF Thg!LifecycleStates
  <2> QED
    BY <1>1, <2>1 DEF Thg!Initialise, Thg!TypeOK
<1>2. ASSUME NEW o \in Objects, Thg!Refresh(o) PROVE Thg!TypeOK'
  <2>1. [state |-> thing.state, sequence |-> thing.sequence]
          \in [state : Thg!LifecycleStates \cup {"none"}, sequence : 0..MaxSequence]
    BY <1>2 DEF Thg!Refresh, Thg!TypeOK
  <2> QED
    BY <1>2, <2>1 DEF Thg!Refresh, Thg!TypeOK
<1>3. ASSUME NEW d \in Decisions, NEW v \in SubjectVersions, Thg!CreateDecision(d, v) PROVE Thg!TypeOK'
  BY <1>3 DEF Thg!CreateDecision, Thg!TypeOK
<1>4. ASSUME NEW o \in Objects, NEW t \in Transitions, NEW d \in Decisions \cup {"none"},
             NEW v \in SubjectVersions, Thg!Transition(o, t, d, v)
      PROVE  Thg!TypeOK'
  <2>1. t.to \in Thg!LifecycleStates
    BY DEF Thg!LifecycleStates
  <2>2. thing.sequence \in 0..MaxSequence
    BY DEF Thg!TypeOK, Thg!NoRow
  <2>3. thing.sequence + 1 \in 1..MaxSequence
    BY <1>4, <2>2 DEF Thg!Transition
  <2>4. thing' \in [state : Thg!LifecycleStates, version : SubjectVersions, sequence : 1..MaxSequence,
                    decision : Decisions \cup {"none"}]
    BY <1>4, <2>1, <2>3 DEF Thg!Transition
  <2> QED
    BY <1>4, <2>4 DEF Thg!Transition, Thg!TypeOK
<1>5. CASE UNCHANGED Thg!vars
  BY <1>5 DEF Thg!vars, Thg!TypeOK
<1> QED
  BY <1>1, <1>2, <1>3, <1>4, <1>5 DEF Thg!Next

-----------------------------------------------------------------------------
\* The establishment.

\* Rows that count, by what two of them that are alike may not share on a day.
Counts == staff \ overlapped

OnDay(r, d) == r.period[1] <= d /\ d <= r.period[2]

Alone(r, s) == r.period[1] <= s.period[2] /\ s.period[1] <= r.period[2] => r = s

\* The lines of managers on a day.
Managed(d) == {r \in Counts : r.table = "lines" /\ OnDay(r, d) /\ r.kind \in Est!ManagerKinds}

Acyclic(managed) == \A l \in managed : l.subordinate \notin Est!Above(managed, l.manager)

OneJob ==
  \A r, s \in Counts :
    r.table = "employments" /\ s.table = "employments" /\ r.primary /\ s.primary
    /\ r.person = s.person => Alone(r, s)
OneSeat ==
  \A r, s \in Counts :
    r.table = "occupancies" /\ s.table = "occupancies" /\ r.primary /\ s.primary
    /\ r.employed /\ s.employed /\ r.person = s.person => Alone(r, s)
OneDuty ==
  \A r, s \in Counts :
    r.table = "functions" /\ s.table = "functions" /\ r.primary /\ s.primary
    /\ r.position = s.position => Alone(r, s)
OneManager ==
  \A r, s \in Counts :
    r.table = "lines" /\ s.table = "lines" /\ r.kind = "LINE_MANAGER" /\ s.kind = "LINE_MANAGER"
    /\ r.subordinate = s.subordinate => Alone(r, s)

\* The inductive invariant.
Established ==
  /\ Est!TypeOK /\ OneJob /\ OneSeat /\ OneDuty /\ OneManager
  /\ \A d \in Int : Acyclic(Managed(d))

\* Nobody is employed.
LEMMA EstablishedInit == Est!Init => Established
<1> SUFFICES ASSUME Est!Init PROVE Established
  OBVIOUS
<1>1. Counts = {} /\ Est!TypeOK
  BY DEF Est!Init, Counts, Est!TypeOK
<1> QED
  BY <1>1 DEF Established, OneJob, OneSeat, OneDuty, OneManager, Acyclic, Managed

\* What is above a position is in every set that has it and, of each line whose
\* subordinate it has, the manager.
LEMMA AboveLeast ==
  ASSUME NEW managed, NEW m, NEW S \in SUBSET Positions, m \in S,
         \A l \in managed : l.subordinate \in S => l.manager \in S
  PROVE  Est!Above(managed, m) \subseteq S
BY DEF Est!Above

\* It is such a set itself.
LEMMA AboveClosed ==
  ASSUME NEW managed, \A l \in managed : l.manager \in Positions, NEW m \in Positions
  PROVE  /\ Est!Above(managed, m) \in SUBSET Positions /\ m \in Est!Above(managed, m)
         /\ \A l \in managed : l.subordinate \in Est!Above(managed, m) => l.manager \in Est!Above(managed, m)
BY DEF Est!Above

\* With fewer lines, less is above.
LEMMA AboveFewer ==
  ASSUME NEW managed, NEW fewer \in SUBSET managed, NEW m
  PROVE  Est!Above(fewer, m) \subseteq Est!Above(managed, m)
BY DEF Est!Above

\* Lines that close no cycle close none when some are left out.
LEMMA AcyclicFewer ==
  ASSUME NEW managed, NEW fewer \in SUBSET managed, Acyclic(managed)
  PROVE  Acyclic(fewer)
BY AboveFewer DEF Acyclic

\* Nor when a line is added whose subordinate is not above its manager.
LEMMA AcyclicMore ==
  ASSUME NEW managed, \A l \in managed : l.manager \in Positions, Acyclic(managed),
         NEW new, new.manager \in Positions,
         new.subordinate \notin Est!Above(managed, new.manager)
  PROVE  Acyclic(managed \cup {new})
<1> DEFINE more == managed \cup {new}
           A == Est!Above(managed, new.manager)
<1>1. /\ A \in SUBSET Positions /\ new.manager \in A
      /\ \A l \in managed : l.subordinate \in A => l.manager \in A
  BY AboveClosed
<1>2. new.subordinate \notin A
  OBVIOUS
<1> HIDE DEF A
<1>3. new.subordinate \notin Est!Above(more, new.manager)
  <2>1. Est!Above(more, new.manager) \subseteq A
    BY <1>1, <1>2, AboveLeast
  <2> QED
    BY <1>2, <2>1
<1>4. ASSUME NEW l \in managed
      PROVE  l.subordinate \notin Est!Above(more, l.manager)
  <2> DEFINE B == Est!Above(managed, l.manager)
  <2>1. /\ B \in SUBSET Positions /\ l.manager \in B /\ l.subordinate \notin B
        /\ \A k \in managed : k.subordinate \in B => k.manager \in B
    BY AboveClosed DEF Acyclic
  <2>2. l.manager \in Positions
    OBVIOUS
  <2>3. CASE new.subordinate \notin B
    <3> HIDE DEF B
    <3>1. Est!Above(more, l.manager) \subseteq B
      BY <2>1, <2>3, AboveLeast
    <3> QED
      BY <2>1, <3>1
  <2>4. CASE new.subordinate \in B
    <3>1. l.subordinate \notin A
      <4>1. SUFFICES ASSUME l.subordinate \in A PROVE FALSE
        OBVIOUS
      <4>2. l.manager \in A
        BY <1>1, <4>1
      <4>3. B \subseteq A
        BY <1>1, <4>2, AboveLeast
      <4> QED
        BY <1>2, <2>4, <4>3
    <3> HIDE DEF B
    <3>2. Est!Above(more, l.manager) \subseteq A \cup B
      <4>1. A \cup B \in SUBSET Positions /\ l.manager \in A \cup B
        BY <1>1, <2>1
      <4>2. \A k \in more : k.subordinate \in A \cup B => k.manager \in A \cup B
        BY <1>1, <2>1
      <4> QED
        BY <4>1, <4>2, AboveLeast
    <3> QED
      BY <2>1, <3>1, <3>2
  <2> QED
    BY <2>3, <2>4
<1> QED
  BY <1>3, <1>4 DEF Acyclic

\* A row that is about to be inserted is one of a table.
LEMMA BegunKept ==
  ASSUME Established, NEW c \in Clerks, NEW r \in Est!Rows, Est!Begin(c, r)
  PROVE  Established'
<1>1. entering' = [entering EXCEPT ![c] = r] /\ UNCHANGED <<staff, overlapped>>
  BY DEF Est!Begin
<1>2. Est!TypeOK'
  BY <1>1 DEF Established, Est!TypeOK
<1>3. Counts' = Counts
  BY <1>1 DEF Counts
<1>4. \A d \in Int : Managed(d)' = Managed(d)
  BY <1>3 DEF Managed
<1> QED
  BY <1>2, <1>3, <1>4 DEF Established, OneJob, OneSeat, OneDuty, OneManager

\* The row that is inserted is alone on each of its days, and closes no cycle, or it was
\* not seen that it is not.
LEMMA CommitKept ==
  ASSUME Est!EstablishmentAssumption, Established, NEW c \in Clerks, Est!Commit(c)
  PROVE  Established'
<1> DEFINE new == entering[c]
<1>1. new \in Est!Rows
  BY DEF Est!Commit, Established, Est!TypeOK
<1>2. /\ staff' = staff \cup {new} /\ entering' = [entering EXCEPT ![c] = Est!Idle]
      /\ overlapped' = IF Est!Fits(new) THEN overlapped ELSE overlapped \cup {new}
  BY DEF Est!Commit
<1> HIDE DEF new
<1>3. Est!TypeOK'
  BY <1>1, <1>2 DEF Established, Est!TypeOK
<1>4. \A r \in staff \cup {new} :
        /\ r.period[1] \in Nat /\ r.period[2] \in Nat
        /\ r.table = "employments" => r \in Est!Employments
        /\ r.table = "functions" => r \in Est!Deployments
        /\ r.table = "occupancies" => r \in Est!Occupancies
        /\ r.table = "lines" => r \in Est!Lines
        /\ r.table \in {"employments", "functions", "occupancies", "lines"}
  <2>1. ASSUME NEW r \in Est!Rows PROVE r.period \in Periods
    BY DEF Est!Rows, Est!Employments, Est!Deployments, Est!Occupancies, Est!Lines
  <2> QED
    BY <1>1, <2>1
    DEF Established, Est!TypeOK, Est!Rows, Est!Employments, Est!Deployments, Est!Occupancies,
        Est!Lines, Est!EstablishmentAssumption
<1>5. CASE ~Est!Fits(new)
  <2>1. Counts' \subseteq Counts
    BY <1>2, <1>5 DEF Counts
  <2>2. OneJob' /\ OneSeat' /\ OneDuty' /\ OneManager'
    BY <2>1 DEF Established, OneJob, OneSeat, OneDuty, OneManager
  <2>3. ASSUME NEW d \in Int PROVE Acyclic(Managed(d)')
    <3>1. Managed(d)' \in SUBSET Managed(d)
      BY <2>1 DEF Managed
    <3> QED
      BY <3>1, AcyclicFewer DEF Established
  <2> QED
    BY <1>3, <2>2, <2>3 DEF Established
<1>6. CASE Est!Fits(new)
  <2>1. Counts' \subseteq Counts \cup {new} /\ Counts \subseteq staff
    BY <1>2, <1>6 DEF Counts
  <2>2. \A table : \A r \in staff : r.table = table /\ r.period[1] <= new.period[2]
                                    /\ new.period[1] <= r.period[2] => r \in Est!During(table, new.period)
    BY DEF Est!During
  <2>3. OneJob'
    <3>1. new.table = "employments" /\ new.primary =>
            \A r \in Counts : r.table = "employments" /\ r.primary /\ r.person = new.person =>
              ~(r.period[1] <= new.period[2] /\ new.period[1] <= r.period[2])
      BY <1>6, <2>1, <2>2 DEF Est!Fits, Est!EmploymentFits
    <3> QED
      BY <2>1, <3>1 DEF Established, OneJob, Alone
  <2>4. OneSeat'
    <3>1. new.table = "occupancies" /\ new.primary /\ new.employed =>
            \A r \in Counts : r.table = "occupancies" /\ r.primary /\ r.person = new.person =>
              ~(r.period[1] <= new.period[2] /\ new.period[1] <= r.period[2])
      BY <1>6, <2>1, <2>2 DEF Est!Fits, Est!EmployedFits
    <3> QED
      BY <2>1, <3>1 DEF Established, OneSeat, Alone
  <2>5. OneDuty'
    <3>1. new.table = "functions" /\ new.primary =>
            \A r \in Counts : r.table = "functions" /\ r.primary /\ r.position = new.position =>
              ~(r.period[1] <= new.period[2] /\ new.period[1] <= r.period[2])
      BY <1>6, <2>1, <2>2 DEF Est!Fits, Est!DeploymentFits
    <3> QED
      BY <2>1, <3>1 DEF Established, OneDuty, Alone
  <2>6. OneManager'
    <3>1. new.table = "lines" /\ new.kind = "LINE_MANAGER" =>
            \A r \in Counts :
              r.table = "lines" /\ r.kind = "LINE_MANAGER" /\ r.subordinate = new.subordinate =>
              ~(r.period[1] <= new.period[2] /\ new.period[1] <= r.period[2])
      BY <1>6, <2>1, <2>2 DEF Est!Fits, Est!LineFits
    <3> QED
      BY <2>1, <3>1 DEF Established, OneManager, Alone
  <2>7. ASSUME NEW d \in Int PROVE Acyclic(Managed(d)')
    <3>1. Acyclic(Managed(d)) /\ Managed(d)' \in SUBSET (Managed(d) \cup {new})
      BY <2>1 DEF Established, Managed
    <3>2. CASE new \notin Managed(d)'
      <4>1. Managed(d)' \in SUBSET Managed(d)
        BY <3>1, <3>2
      <4> QED
        BY <3>1, <4>1, AcyclicFewer
    <3>3. CASE new \in Managed(d)'
      <4>1. new.table = "lines" /\ OnDay(new, d) /\ new.kind \in Est!ManagerKinds
        BY <3>3 DEF Managed
      <4>2. new.manager \in Positions /\ \A l \in Managed(d) : l.manager \in Positions
        BY <1>4, <2>1, <4>1 DEF Est!Lines, Managed
      <4>3. Managed(d) \in SUBSET Est!Chain(new.period)
        <5>1. ASSUME NEW r \in Managed(d) PROVE r \in Est!During("lines", new.period)
          <6>1. r \in staff /\ r.table = "lines" /\ r.period[1] <= d /\ d <= r.period[2]
            BY <2>1 DEF Managed, OnDay
          <6>2. new.period[1] <= d /\ d <= new.period[2]
            BY <4>1 DEF OnDay
          <6>3. /\ r.period[1] \in Nat /\ r.period[2] \in Nat
                /\ new.period[1] \in Nat /\ new.period[2] \in Nat
            BY <1>4, <6>1
          <6>4. r.period[1] <= new.period[2] /\ new.period[1] <= r.period[2]
            BY <6>1, <6>2, <6>3
          <6> QED
            BY <2>2, <6>1, <6>4
        <5> QED
          BY <5>1 DEF Managed, Est!Chain
      <4>4. new.subordinate \notin Est!Above(Est!Chain(new.period), new.manager)
        BY <1>6, <4>1 DEF Est!Fits, Est!LineFits
      <4>5. new.subordinate \notin Est!Above(Managed(d), new.manager)
        BY <4>3, <4>4, AboveFewer
      <4>6. Acyclic(Managed(d) \cup {new})
        BY <3>1, <4>2, <4>5, AcyclicMore
      <4> QED
        BY <3>1, <4>6, AcyclicFewer
    <3> QED
      BY <3>2, <3>3
  <2> QED
    BY <1>3, <2>3, <2>4, <2>5, <2>6, <2>7 DEF Established
<1> QED
  BY <1>5, <1>6

\* Every step keeps the establishment, but for rows that were not seen.
LEMMA EstablishedKept ==
  ASSUME Est!EstablishmentAssumption, Established, [Est!Next]_(Est!vars)
  PROVE  Established'
<1>1. ASSUME NEW c \in Clerks, NEW p \in Persons, NEW primary \in BOOLEAN, NEW period \in Periods,
             Est!CreateEmployment(c, p, primary, period)
      PROVE  Established'
  <2>1. [table |-> "employments", person |-> p, primary |-> primary, period |-> period] \in Est!Rows
    BY DEF Est!Rows, Est!Employments
  <2> QED
    BY <1>1, <2>1, BegunKept DEF Est!CreateEmployment
<1>2. ASSUME NEW c \in Clerks, NEW q \in Positions, NEW p \in Persons, NEW primary \in BOOLEAN,
             NEW period \in Periods, Est!AssignEmploymentToPosition(c, q, p, primary, period)
      PROVE  Established'
  <2>1. [table |-> "occupancies", position |-> q, person |-> p, primary |-> primary,
         employed |-> TRUE, period |-> period] \in Est!Rows
    BY DEF Est!Rows, Est!Occupancies
  <2> QED
    BY <1>2, <2>1, BegunKept DEF Est!AssignEmploymentToPosition
<1>3. ASSUME NEW c \in Clerks, NEW q \in Positions, NEW p \in Persons, NEW period \in Periods,
             Est!AssignPersonToPosition(c, q, p, period)
      PROVE  Established'
  <2>1. [table |-> "occupancies", position |-> q, person |-> p, primary |-> TRUE,
         employed |-> FALSE, period |-> period] \in Est!Rows
    BY DEF Est!Rows, Est!Occupancies
  <2> QED
    BY <1>3, <2>1, BegunKept DEF Est!AssignPersonToPosition
<1>4. ASSUME NEW c \in Clerks, NEW q \in Positions, NEW f \in Functions, NEW primary \in BOOLEAN,
             NEW period \in Periods, Est!AssignPositionToFunction(c, q, f, primary, period)
      PROVE  Established'
  <2>1. [table |-> "functions", position |-> q, function |-> f, primary |-> primary,
         period |-> period] \in Est!Rows
    BY DEF Est!Rows, Est!Deployments
  <2> QED
    BY <1>4, <2>1, BegunKept DEF Est!AssignPositionToFunction
<1>5. ASSUME NEW c \in Clerks, NEW s \in Positions, NEW m \in Positions, NEW kind \in Kinds,
             NEW period \in Periods, Est!SetReportingLine(c, s, m, kind, period)
      PROVE  Established'
  <2>1. [table |-> "lines", subordinate |-> s, manager |-> m, kind |-> kind,
         period |-> period] \in Est!Rows
    BY DEF Est!Rows, Est!Lines
  <2> QED
    BY <1>5, <2>1, BegunKept DEF Est!SetReportingLine
<1>6. ASSUME NEW c \in Clerks, Est!Commit(c)
      PROVE  Established'
  BY <1>6, CommitKept
<1>7. CASE UNCHANGED Est!vars
  <2>1. Est!TypeOK' /\ Counts' = Counts
    BY <1>7 DEF Est!vars, Established, Est!TypeOK, Counts
  <2>2. \A d \in Int : Managed(d)' = Managed(d)
    BY <2>1 DEF Managed
  <2> QED
    BY <2>1, <2>2 DEF Established, OneJob, OneSeat, OneDuty, OneManager
<1> QED
  BY <1>1, <1>2, <1>3, <1>4, <1>5, <1>6, <1>7 DEF Est!Next

\* Rows of one day overlap.
LEMMA EstablishedSound == Est!EstablishmentAssumption /\ Established => Est!EstablishmentSound
<1> SUFFICES ASSUME Est!EstablishmentAssumption, Established, NEW date \in Est!Days
             PROVE  /\ Est!OneOf({r \in Est!On("employments", date) : r.primary}, LAMBDA r : r.person)
                    /\ Est!OneOf({r \in Est!On("occupancies", date) : r.primary /\ r.employed},
                                 LAMBDA r : r.person)
                    /\ Est!OneOf({r \in Est!On("functions", date) : r.primary}, LAMBDA r : r.position)
                    /\ Est!OneOf({r \in Est!On("lines", date) : r.kind = "LINE_MANAGER"},
                                 LAMBDA r : r.subordinate)
                    /\ LET managed == {r \in Est!On("lines", date) : r.kind \in Est!ManagerKinds} IN
                         \A l \in managed : l.subordinate \notin Est!Above(managed, l.manager)
  BY DEF Est!EstablishmentSound
<1>1. date \in Int
  BY DEF Est!Days, Est!EstablishmentAssumption
<1>2. \A r \in staff : r.period[1] \in Nat /\ r.period[2] \in Nat
  <2>1. ASSUME NEW r \in Est!Rows PROVE r.period \in Periods
    BY DEF Est!Rows, Est!Employments, Est!Deployments, Est!Occupancies, Est!Lines
  <2> QED
    BY <2>1 DEF Established, Est!TypeOK, Est!EstablishmentAssumption
<1>3. ASSUME NEW table, NEW r \in Est!On(table, date), NEW s \in Est!On(table, date)
      PROVE  r \in Counts /\ s \in Counts /\ r.table = table /\ s.table = table
             /\ (Alone(r, s) => r = s)
  <2>1. /\ r \in Counts /\ s \in Counts /\ r.table = table /\ s.table = table
        /\ r.period[1] <= date /\ date <= r.period[2] /\ s.period[1] <= date /\ date <= s.period[2]
    BY DEF Est!On, Counts
  <2>2. /\ r.period[1] \in Nat /\ r.period[2] \in Nat /\ s.period[1] \in Nat /\ s.period[2] \in Nat
    BY <1>2, <2>1 DEF Counts
  <2>3. r.period[1] <= s.period[2] /\ s.period[1] <= r.period[2]
    BY <1>1, <2>1, <2>2
  <2> QED
    BY <2>1, <2>3 DEF Alone
<1>4. Est!OneOf({r \in Est!On("employments", date) : r.primary}, LAMBDA r : r.person)
  BY <1>3 DEF Est!OneOf, Established, OneJob
<1>5. Est!OneOf({r \in Est!On("occupancies", date) : r.primary /\ r.employed}, LAMBDA r : r.person)
  BY <1>3 DEF Est!OneOf, Established, OneSeat
<1>6. Est!OneOf({r \in Est!On("functions", date) : r.primary}, LAMBDA r : r.position)
  BY <1>3 DEF Est!OneOf, Established, OneDuty
<1>7. Est!OneOf({r \in Est!On("lines", date) : r.kind = "LINE_MANAGER"}, LAMBDA r : r.subordinate)
  BY <1>3 DEF Est!OneOf, Established, OneManager
<1>8. Managed(date) = {r \in Est!On("lines", date) : r.kind \in Est!ManagerKinds}
  BY DEF Managed, OnDay, Est!On, Counts
<1>9. Acyclic(Managed(date))
  BY <1>1 DEF Established
<1> QED
  BY <1>4, <1>5, <1>6, <1>7, <1>8, <1>9 DEF Acyclic

-----------------------------------------------------------------------------
\* Access requests.

Outcomes == {"FULFILLED", "REJECTED"}
Resolutions == [status : Outcomes, by : People, scope : Arq!Scopes, evaluated : Nat]
Asking ==
  {Arq!Absent} \cup [status : {"PENDING"}, by : People, scope : Arq!Scopes] \cup Resolutions
Commits == [does : {"commits"}, of : Asked, outcome : Outcomes, evaluated : Nat]
AccessCommands ==
  {Arq!Idle} \cup [does : {"asks"}, by : People, scope : Arq!Scopes] \cup [does : {"resolves"}] \cup Commits

RequestsTyped ==
  /\ day \in Nat
  /\ request \in [Asked -> Asking]
  /\ asking \in [Askers -> AccessCommands]

\* The permission that a request asks for was effective on that day.
CouldUse(r, d) == Arq!CouldOn(request[r].by, "USE", request[r].scope, d)

\* Whoever is about to resolve a request has it locked, and it is pending.
Resolving ==
  /\ \A c \in Askers : asking[c].does = "commits" =>
       /\ request[asking[c].of].status = "PENDING"
       /\ asking[c].outcome = "FULFILLED" => CouldUse(asking[c].of, asking[c].evaluated)
  /\ \A c, d \in Askers :
       asking[c].does = "commits" /\ asking[d].does = "commits" /\ asking[c].of = asking[d].of
       => c = d

\* The inductive invariant.
Honest == RequestsTyped /\ Resolving /\ Arq!RequestsHonest

\* Nobody has asked for anything.
LEMMA HonestInit == Arq!Init => Honest
<1> SUFFICES ASSUME Arq!Init PROVE Honest
  OBVIOUS
<1>1. RequestsTyped /\ Resolving
  BY DEF Arq!Init, RequestsTyped, Asking, AccessCommands, Resolving, Arq!Idle
<1>2. Arq!RequestsHonest
  BY DEF Arq!Init, Arq!RequestsHonest, Arq!Absent
<1> QED
  BY <1>1, <1>2 DEF Honest

\* What could be done on a day could have been done on it, whatever is assigned since.
LEMMA CouldStill ==
  ASSUME assigned \subseteq assigned', seated \subseteq seated',
         NEW p, NEW permission, NEW scope, NEW d, Arq!CouldOn(p, permission, scope, d)
  PROVE  Arq!CouldOn(p, permission, scope, d)'
<1>1. Arq!Stands(p) \subseteq Arq!Stands(p)'
  BY DEF Arq!Stands
<1> QED
  BY <1>1 DEF Arq!CouldOn, Arq!EffectiveOn

\* A command that reads, or gives up, disturbs no request.
LEMMA OnlyRead ==
  ASSUME Honest, NEW c \in Askers, NEW command \in AccessCommands, command.does # "commits",
         asking' = [asking EXCEPT ![c] = command],
         UNCHANGED <<day, assigned, seated, request, told>>
  PROVE  Honest'
<1>1. RequestsTyped'
  BY DEF Honest, RequestsTyped
<1>2. \A d \in Askers : asking'[d].does = "commits" => asking'[d] = asking[d]
  BY DEF Honest, RequestsTyped
<1>3. Resolving'
  BY <1>2, CouldStill DEF Honest, Resolving, CouldUse
<1>4. Arq!RequestsHonest'
  BY CouldStill DEF Honest, Arq!RequestsHonest
<1> QED
  BY <1>1, <1>3, <1>4 DEF Honest

\* Days pass, and roles and positions are only added to.
LEMMA MoreAllowed ==
  ASSUME Honest, day' \in Nat, assigned \subseteq assigned', seated \subseteq seated',
         UNCHANGED <<request, told, asking>>
  PROVE  Honest'
<1>1. RequestsTyped'
  BY DEF Honest, RequestsTyped
<1>2. Resolving'
  BY CouldStill DEF Honest, Resolving, CouldUse
<1>3. Arq!RequestsHonest'
  BY CouldStill DEF Honest, Arq!RequestsHonest
<1> QED
  BY <1>1, <1>2, <1>3 DEF Honest

\* Every step of requests and resolutions is honest.
LEMMA HonestKept ==
  ASSUME Honest, [Arq!Next]_(Arq!vars)
  PROVE  Honest'
<1>1. CASE Arq!NextDay
  BY <1>1, MoreAllowed DEF Arq!NextDay, Honest, RequestsTyped
<1>2. ASSUME NEW p \in People, NEW a \in Grants, Arq!AssignRole(p, a)
      PROVE  Honest'
  BY <1>2, MoreAllowed DEF Arq!AssignRole, Honest, RequestsTyped
<1>3. ASSUME NEW p \in People, NEW q \in Seats, Arq!AssignPersonToPosition(p, q)
      PROVE  Honest'
  BY <1>3, MoreAllowed DEF Arq!AssignPersonToPosition, Honest, RequestsTyped
<1>4. ASSUME NEW p \in People, NEW c \in Askers, Arq!ReadForResolution(c, p)
      PROVE  Honest'
  <2>1. [does |-> "resolves"] \in AccessCommands
    BY DEF AccessCommands
  <2> QED
    BY <1>4, <2>1, OnlyRead DEF Arq!ReadForResolution
<1>5. ASSUME NEW p \in People, NEW c \in Askers, NEW s \in Arq!Scopes, Arq!ReadForRequest(c, p, s)
      PROVE  Honest'
  <2>1. [does |-> "asks", by |-> p, scope |-> s] \in AccessCommands
    BY DEF AccessCommands
  <2> QED
    BY <1>5, <2>1, OnlyRead DEF Arq!ReadForRequest
<1>6. ASSUME NEW c \in Askers, Arq!Refuse(c)
      PROVE  Honest'
  <2>1. Arq!Idle \in AccessCommands /\ Arq!Idle.does # "commits"
    BY DEF AccessCommands, Arq!Idle
  <2> QED
    BY <1>6, <2>1, OnlyRead DEF Arq!Refuse
<1>7. ASSUME NEW c \in Askers, NEW r \in Asked, Arq!CreateRequest(c, r)
      PROVE  Honest'
  <2> DEFINE new == [status |-> "PENDING", by |-> asking[c].by, scope |-> asking[c].scope]
  <2>1. /\ request[r] = Arq!Absent /\ Arq!Equivalent(asking[c].by, asking[c].scope) = {}
        /\ request' = [request EXCEPT ![r] = new] /\ asking' = [asking EXCEPT ![c] = Arq!Idle]
        /\ UNCHANGED <<day, assigned, seated, told>>
    BY <1>7 DEF Arq!CreateRequest
  <2>2. new \in [status : {"PENDING"}, by : People, scope : Arq!Scopes]
    BY <1>7 DEF Arq!CreateRequest, Honest, RequestsTyped, AccessCommands, Commits, Arq!Idle
  <2>3. new.status = "PENDING" /\ new.by = asking[c].by /\ new.scope = asking[c].scope
    OBVIOUS
  <2> HIDE DEF new
  <2>4. /\ request'[r] = new /\ \A q \in Asked \ {r} : request'[q] = request[q]
        /\ \A d \in Askers : asking'[d].does = "commits" => asking'[d] = asking[d]
    BY <2>1 DEF Honest, RequestsTyped, Arq!Idle
  <2>5. RequestsTyped'
    BY <2>1, <2>2 DEF Honest, RequestsTyped, Asking, AccessCommands
  <2>6. request[r].status = "NONE"
    BY <2>1 DEF Arq!Absent
  <2>7. \A d \in Askers : asking[d].does = "commits" => asking[d].of \in Asked \ {r}
    BY <2>6 DEF Honest, RequestsTyped, Resolving, AccessCommands, Commits, Arq!Idle
  <2>8. Resolving'
    BY <2>1, <2>4, <2>7, CouldStill DEF Honest, Resolving, CouldUse
  <2>9. Arq!RequestsHonest'
    <3>1. \A q, s \in Asked :
            /\ request'[q].status = "PENDING" /\ request'[s].status = "PENDING"
            /\ request'[q].by = request'[s].by /\ request'[q].scope = request'[s].scope
            => q = s
      BY <2>1, <2>3, <2>4 DEF Honest, Arq!RequestsHonest, Arq!Equivalent
    <3>2. \A q \in Asked : request'[q].status \in Outcomes => request'[q] = request[q]
      BY <2>3, <2>4 DEF Outcomes
    <3>3. \A q \in Asked : request[q].status \in Outcomes => request'[q] = request[q]
      BY <2>4, <2>6 DEF Outcomes
    <3>4. told' = {<<q, request'[q].status>> : q \in {s \in Asked :
                                                   request'[s].status \in Outcomes}}
      BY <2>1, <3>2, <3>3 DEF Honest, Arq!RequestsHonest, Outcomes
    <3>5. \A q \in Asked : request'[q].status = "FULFILLED" =>
            CouldUse(q, request[q].evaluated)'
      BY <2>1, <3>2, CouldStill DEF Honest, Arq!RequestsHonest, Outcomes, CouldUse
    <3> QED
      BY <3>1, <3>4, <3>5 DEF Arq!RequestsHonest, CouldUse, Outcomes
  <2> QED
    BY <2>5, <2>8, <2>9 DEF Honest
<1>8. ASSUME NEW c \in Askers, NEW r \in Asked, NEW o \in Outcomes, Arq!LockRequest(c, r, o)
      PROVE  Honest'
  <2> DEFINE command == [does |-> "commits", of |-> r, outcome |-> o, evaluated |-> day]
  <2>1. /\ request[r].status = "PENDING" /\ Arq!Unlocked(r)
        /\ o = "FULFILLED" => Arq!Allowed(request[r].by, "USE", request[r].scope)
        /\ asking' = [asking EXCEPT ![c] = command]
        /\ UNCHANGED <<day, assigned, seated, request, told>>
    BY <1>8 DEF Arq!LockRequest
  <2>2. command \in Commits /\ command.of = r /\ command.outcome = o /\ command.evaluated = day
    BY DEF Commits, Honest, RequestsTyped
  <2> HIDE DEF command
  <2>3. RequestsTyped'
    BY <2>1, <2>2 DEF Honest, RequestsTyped, AccessCommands
  <2>4. o = "FULFILLED" => CouldUse(r, day)
    BY <2>1 DEF Arq!Allowed, Arq!Granting, Arq!ScopeMatches, CouldUse, Arq!CouldOn
  <2>5. /\ asking'[c] = command
        /\ \A d \in Askers \ {c} : asking'[d] = asking[d]
    BY <2>1 DEF Honest, RequestsTyped
  <2>6. \A q, d : CouldUse(q, d) => CouldUse(q, d)'
    BY <2>1, CouldStill DEF CouldUse
  <2>7. \A d \in Askers : asking'[d].does = "commits" =>
          /\ request'[asking'[d].of].status = "PENDING"
          /\ asking'[d].outcome = "FULFILLED" => CouldUse(asking'[d].of, asking'[d].evaluated)
    BY <2>1, <2>2, <2>4, <2>5 DEF Honest, Resolving
  <2>8. \A d, e \in Askers :
          asking'[d].does = "commits" /\ asking'[e].does = "commits" /\ asking'[d].of = asking'[e].of
          => d = e
    BY <2>1, <2>2, <2>5 DEF Honest, Resolving, Arq!Unlocked
  <2>9. Resolving'
    BY <2>1, <2>6, <2>7, <2>8, CouldStill DEF Resolving, CouldUse
  <2>10. Arq!RequestsHonest'
    BY <2>1, CouldStill DEF Honest, Arq!RequestsHonest
  <2> QED
    BY <2>3, <2>9, <2>10 DEF Honest
<1>9. ASSUME NEW c \in Askers, Arq!ResolveRequest(c)
      PROVE  Honest'
  <2> DEFINE r == asking[c].of
             o == asking[c].outcome
             new == [status |-> o, by |-> request[r].by, scope |-> request[r].scope,
                     evaluated |-> asking[c].evaluated]
  <2>1. asking[c] \in Commits
    BY <1>9 DEF Arq!ResolveRequest, Honest, RequestsTyped, AccessCommands, Arq!Idle
  <2>2. r \in Asked /\ o \in Outcomes /\ asking[c].evaluated \in Nat
    BY <2>1 DEF Commits
  <2>3. request[r].status = "PENDING" /\ (o = "FULFILLED" => CouldUse(r, asking[c].evaluated))
    BY <1>9 DEF Arq!ResolveRequest, Honest, Resolving
  <2>4. /\ request' = [request EXCEPT ![r] = new] /\ told' = told \cup {<<r, o>>}
        /\ asking' = [asking EXCEPT ![c] = Arq!Idle] /\ UNCHANGED <<day, assigned, seated>>
    BY <1>9, <2>3 DEF Arq!ResolveRequest
  <2>5. request[r] \in [status : {"PENDING"}, by : People, scope : Arq!Scopes]
    BY <2>2, <2>3 DEF Honest, RequestsTyped, Asking, Arq!Absent, Resolutions, Outcomes
  <2>6. new \in Resolutions
    BY <2>2, <2>5 DEF Resolutions
  <2>7. /\ new.status = o /\ new.by = request[r].by /\ new.scope = request[r].scope
        /\ new.evaluated = asking[c].evaluated
    OBVIOUS
  <2>8. asking[c].does = "commits" /\ asking[c].of = r
    BY <2>1 DEF Commits
  <2> HIDE DEF r, o, new
  <2>9. RequestsTyped'
    BY <2>4, <2>6 DEF Honest, RequestsTyped, Asking, AccessCommands
  <2>10. /\ request'[r] = new /\ \A q \in Asked \ {r} : request'[q] = request[q]
         /\ \A d \in Askers \ {c} : asking'[d] = asking[d]
         /\ \A d \in Askers : asking'[d].does = "commits" => d # c /\ asking'[d] = asking[d]
    BY <2>2, <2>4 DEF Honest, RequestsTyped, Arq!Idle
  <2>11. \A d \in Askers \ {c} : asking[d].does = "commits" => asking[d].of \in Asked \ {r}
    BY <2>8 DEF Honest, RequestsTyped, Resolving, AccessCommands, Commits, Arq!Idle
  <2>12. Resolving'
    BY <2>4, <2>10, <2>11, CouldStill DEF Honest, Resolving, CouldUse
  <2>13. \A q, s \in Asked :
           /\ request'[q].status = "PENDING" /\ request'[s].status = "PENDING"
           /\ request'[q].by = request'[s].by /\ request'[q].scope = request'[s].scope
           => q = s
    BY <2>2, <2>7, <2>10 DEF Honest, Arq!RequestsHonest, Outcomes
  <2>14. told' = {<<q, request'[q].status>> : q \in {s \in Asked :
                                                    request'[s].status \in Outcomes}}
    <3>1. told = {<<q, request[q].status>> : q \in {s \in Asked :
                                                  request[s].status \in Outcomes}}
      BY DEF Honest, Arq!RequestsHonest, Outcomes
    <3>2. request[r].status \notin Outcomes /\ request'[r].status = o
      BY <2>3, <2>7, <2>10 DEF Outcomes
    <3> QED
      BY <2>2, <2>4, <2>10, <3>1, <3>2
  <2>15. \A q \in Asked : request'[q].status = "FULFILLED" =>
           CouldUse(q, request[q].evaluated)'
    BY <2>3, <2>4, <2>7, <2>10, CouldStill
    DEF Honest, Arq!RequestsHonest, CouldUse
  <2>16. Arq!RequestsHonest'
    BY <2>13, <2>14, <2>15 DEF Arq!RequestsHonest, CouldUse, Outcomes
  <2> QED
    BY <2>9, <2>12, <2>16 DEF Honest
<1>10. CASE UNCHANGED Arq!vars
  BY <1>10, CouldStill
  DEF Arq!vars, Honest, RequestsTyped, Resolving, Arq!RequestsHonest, CouldUse
<1> QED
  BY <1>1, <1>2, <1>3, <1>4, <1>5, <1>6, <1>7, <1>8, <1>9, <1>10 DEF Arq!Next, Outcomes

\* Requests are honest.
LEMMA HonestSound == Honest => Arq!RequestsHonest
BY DEF Honest

\* What has a type and no part in the proof above.
GrantsTyped ==
  /\ day \in 0..LastDay /\ assigned \subseteq Arq!Assignments /\ seated \subseteq People \X Seats
  /\ told \subseteq Asked \X Outcomes

\* The administrator holds the permission.
LEMMA GrantsTypedInit == Arq!RequestsAssumption /\ Arq!Init => GrantsTyped
BY DEF Arq!Init, Arq!RequestsAssumption, GrantsTyped, Arq!Assignments, Arq!Permissions,
   Arq!Scopes

\* What is assigned, and announced, is of its type.
LEMMA GrantsTypedKept ==
  ASSUME Arq!RequestsAssumption, Honest, GrantsTyped, [Arq!Next]_(Arq!vars)
  PROVE  GrantsTyped'
<1>1. ASSUME NEW c \in Askers, Arq!ResolveRequest(c) PROVE GrantsTyped'
  <2>1. asking[c].of \in Asked /\ asking[c].outcome \in Outcomes
    BY <1>1 DEF Arq!ResolveRequest, Honest, RequestsTyped, AccessCommands, Commits, Arq!Idle
  <2> QED
    BY <1>1, <2>1 DEF Arq!ResolveRequest, GrantsTyped
<1>2. CASE Arq!NextDay
  BY <1>2 DEF Arq!RequestsAssumption, Arq!NextDay, GrantsTyped, Arq!Assignments
<1>3. ASSUME NEW p \in People, NEW a \in Grants, Arq!AssignRole(p, a) PROVE GrantsTyped'
  BY <1>3 DEF Arq!RequestsAssumption, Arq!AssignRole, GrantsTyped, Arq!Assignments
<1>4. ASSUME NEW p \in People, NEW q \in Seats, Arq!AssignPersonToPosition(p, q) PROVE GrantsTyped'
  BY <1>4 DEF Arq!AssignPersonToPosition, GrantsTyped, Arq!Assignments
<1>5. CASE UNCHANGED <<day, assigned, seated, told>>
  BY <1>5 DEF GrantsTyped, Arq!Assignments
<1> QED
  BY <1>1, <1>2, <1>3, <1>4, <1>5
  DEF Arq!Next, Arq!vars, Arq!ReadForResolution, Arq!ReadForRequest, Arq!Refuse,
     Arq!CreateRequest, Arq!LockRequest

\* All values have their types.
LEMMA RequestTypes == Honest /\ GrantsTyped => Arq!TypeOK
<1> SUFFICES ASSUME Honest, GrantsTyped PROVE Arq!TypeOK
  OBVIOUS
<1>1. \A c \in Askers : asking[c].does \in {"nothing", "asks", "resolves", "commits"}
  BY DEF Honest, RequestsTyped, AccessCommands, Commits, Arq!Idle
<1>2. ASSUME NEW r \in Asked
      PROVE  \/ request[r] = Arq!Absent
             \/ /\ request[r].by \in People /\ request[r].scope \in Arq!Scopes
                /\ request[r].status \in {"PENDING", "FULFILLED", "REJECTED"}
  BY DEF Honest, RequestsTyped, Asking, Resolutions, Outcomes
<1> QED
  BY <1>1, <1>2 DEF GrantsTyped, Arq!TypeOK, Outcomes

-----------------------------------------------------------------------------
\* Classifications and clearances.

Readings ==
  [does : {"evaluates", "covers"}, person : Persons, subject : Classified, scope : Cle!Scopes,
   at : 0..LastDay, as : SUBSET Cle!Principals, due : BOOLEAN, known : SUBSET Cle!Rows,
   before : SUBSET Cle!Rows, levels : SUBSET SomeLevels]
Answers ==
  [does : {"answered"}, person : Persons, subject : Classified, scope : Cle!Scopes, at : 0..LastDay,
   due : BOOLEAN, known : SUBSET Cle!Rows, allowed : BOOLEAN, quiet : BOOLEAN]

ClearancesTyped ==
  /\ security \subseteq Cle!Rows
  /\ assigning \in [Clerks -> {Cle!Idle} \cup Cle!Assignments]
  /\ reading \in [Evaluators -> {Cle!Idle} \cup Readings \cup Answers]

\* Two classifications of one version and scheme that hold on the same day.
Alike(a, b) ==
  /\ b.subject = a.subject /\ b.level[1] = a.level[1]
  /\ b.period[1] <= a.period[2] /\ a.period[1] <= b.period[2]

OneEach == \A a, b \in Cle!Of("assignments") \ ambiguous : Alike(a, b) => a = b

\* An evaluation stands for no more than its person does, and for all of it as long as
\* nothing was inserted; likewise what it knows.
Grounded(e) ==
  /\ e.as \subseteq Cle!PrincipalsOf(e.person, e.at) /\ e.known \subseteq Cle!OnRecord(e.subject, e.at)
  /\ e.before \subseteq security
  /\ e.before = security =>
       /\ e.as = Cle!PrincipalsOf(e.person, e.at) /\ e.known = Cle!OnRecord(e.subject, e.at)
       /\ e.due = Cle!Due(e.person, e.subject, e.scope, e.at)

\* It covers every level it knows, and no other as long as nothing was inserted.
Covering(e) ==
  /\ \A a \in e.known : a.level \in e.levels
  /\ e.before = security =>
       /\ \A l \in e.levels : \E a \in e.known : a.level = l
       /\ \A a, b \in e.known : a.level[1] = b.level[1] => a = b

Answering(e) ==
  /\ e.allowed => \A a \in e.known : Cle!Cleared(e.person, a, e.scope, e.at)
  /\ e.quiet => e.allowed = e.due

\* The inductive invariant.
Clear ==
  /\ ClearancesTyped /\ OneEach
  /\ \A v \in Evaluators :
       /\ reading[v].does \in {"evaluates", "covers"} => Grounded(reading[v])
       /\ reading[v].does = "covers" => Covering(reading[v])
       /\ reading[v].does = "answered" => Answering(reading[v])

\* Nothing is classified.
LEMMA ClearInit == Cle!Init => Clear
BY DEF Cle!Init, Clear, ClearancesTyped, OneEach, Cle!Of, Cle!Idle

\* Rows are only added, so that what a person stands for, what is on record and whoever
\* is cleared remain.
LEMMA StillCleared ==
  ASSUME security \subseteq security', NEW p, NEW d
  PROVE  /\ Cle!PrincipalsOf(p, d) \subseteq Cle!PrincipalsOf(p, d)'
         /\ \A s : Cle!OnRecord(s, d) \subseteq Cle!OnRecord(s, d)'
         /\ \A a, scope : Cle!Cleared(p, a, scope, d) => Cle!Cleared(p, a, scope, d)'
<1>1. \A table : Cle!EffectiveAt(table, d) \subseteq Cle!EffectiveAt(table, d)'
  BY DEF Cle!EffectiveAt, Cle!Of
<1>2. Cle!PrincipalsOf(p, d) \subseteq Cle!PrincipalsOf(p, d)'
  BY <1>1 DEF Cle!PrincipalsOf
<1>3. \A s : Cle!OnRecord(s, d) \subseteq Cle!OnRecord(s, d)'
  BY <1>1 DEF Cle!OnRecord
<1>4. \A a, scope : Cle!Cleared(p, a, scope, d) => Cle!Cleared(p, a, scope, d)'
  BY <1>1, <1>2 DEF Cle!Cleared
<1> QED
  BY <1>2, <1>3, <1>4

\* It takes an insert to change what an evaluation is right about.
LEMMA NothingInserted ==
  ASSUME security' = security
  PROVE  \A f : /\ Grounded(f)' <=> Grounded(f)
                /\ Covering(f)' <=> Covering(f)
                /\ Answering(f)' <=> Answering(f)
BY DEF Grounded, Covering, Answering, Cle!PrincipalsOf, Cle!OnRecord, Cle!Due, Cle!Cleared,
   Cle!EffectiveAt, Cle!Of

\* An insert leaves the evaluations as right as they were.
LEMMA EvaluationsStand ==
  ASSUME security \subseteq security', reading' = reading,
         NEW v \in Evaluators,
         reading[v].does \in {"evaluates", "covers"} => Grounded(reading[v]),
         reading[v].does = "covers" => Covering(reading[v]),
         reading[v].does = "answered" => Answering(reading[v])
  PROVE  /\ reading'[v].does \in {"evaluates", "covers"} => Grounded(reading[v])'
         /\ reading'[v].does = "covers" => Covering(reading[v])'
         /\ reading'[v].does = "answered" => Answering(reading[v])'
<1>1. ASSUME reading[v].does \in {"evaluates", "covers"}
      PROVE  Grounded(reading[v])'
  <2>1. CASE security' = security
    BY <1>1, <2>1, NothingInserted
  <2>2. CASE security' # security
    <3>1. reading[v].before \subseteq security' /\ reading[v].before # security'
      BY <1>1, <2>2 DEF Grounded
    <3> QED
      BY <1>1, <3>1, StillCleared DEF Grounded
  <2> QED
    BY <2>1, <2>2
<1>2. ASSUME reading[v].does = "covers"
      PROVE  Covering(reading[v])'
  <2>1. reading[v].before = security' => security' = security
    BY <1>1, <1>2 DEF Grounded
  <2> QED
    BY <1>2, <2>1 DEF Covering
<1>3. ASSUME reading[v].does = "answered"
      PROVE  Answering(reading[v])'
  BY <1>3, StillCleared DEF Answering
<1> QED
  BY <1>1, <1>2, <1>3

\* Whatever is inserted other than a classification.
LEMMA Inserted ==
  ASSUME Clear, NEW r \in Cle!Rows, r.table # "assignments", Cle!Insert(r)
  PROVE  Clear'
<1>1. security \subseteq security' /\ UNCHANGED <<assigning, reading, ambiguous>>
  BY DEF Cle!Insert
<1>2. ClearancesTyped'
  BY DEF Cle!Insert, Clear, ClearancesTyped
<1>3. Cle!Of("assignments")' = Cle!Of("assignments")
  BY DEF Cle!Insert, Cle!Of
<1>4. OneEach'
  BY <1>1, <1>3 DEF Clear, OneEach, Alike
<1> QED
  BY <1>1, <1>2, <1>4, EvaluationsStand DEF Clear

\* A step of one evaluation that leaves it right leaves all right.
LEMMA Evaluated ==
  ASSUME Clear, NEW v \in Evaluators, NEW e \in Readings \cup Answers,
         reading' = [reading EXCEPT ![v] = e], UNCHANGED <<security, assigning, ambiguous>>,
         e.does \in {"evaluates", "covers"} => Grounded(e),
         e.does = "covers" => Covering(e),
         e.does = "answered" => Answering(e)
  PROVE  Clear'
<1>1. ClearancesTyped'
  BY DEF Clear, ClearancesTyped
<1>2. OneEach'
  BY DEF Clear, OneEach, Cle!Of, Alike
<1>3. reading'[v] = e /\ \A w \in Evaluators \ {v} : reading'[w] = reading[w]
  BY DEF Clear, ClearancesTyped
<1>4. \A f : /\ Grounded(f)' <=> Grounded(f)
             /\ Covering(f)' <=> Covering(f)
             /\ Answering(f)' <=> Answering(f)
  BY NothingInserted
<1>5. ASSUME NEW w \in Evaluators
      PROVE  /\ reading'[w].does \in {"evaluates", "covers"} => Grounded(reading[w])'
             /\ reading'[w].does = "covers" => Covering(reading[w])'
             /\ reading'[w].does = "answered" => Answering(reading[w])'
  BY <1>3, <1>4 DEF Clear
<1> QED
  BY <1>1, <1>2, <1>5 DEF Clear

\* Every step of classifications, clearances and evaluations leaves them clear.
LEMMA ClearKept ==
  ASSUME Cle!ClearancesAssumption, Clear, [Cle!Next]_(Cle!vars)
  PROVE  Clear'
<1>1. ASSUME NEW r \in SomeOffered, Cle!GrantClearance(r)
      PROVE  Clear'
  BY <1>1, Inserted DEF Cle!GrantClearance, Cle!ClearancesAssumption
<1>2. ASSUME NEW r \in SomeOffered, Cle!CreateAccessException(r)
      PROVE  Clear'
  BY <1>2, Inserted DEF Cle!CreateAccessException, Cle!ClearancesAssumption
<1>3. ASSUME NEW r \in SomeOffered, Cle!AssignPersonToPosition(r)
      PROVE  Clear'
  BY <1>3, Inserted DEF Cle!AssignPersonToPosition, Cle!ClearancesAssumption
<1>4. ASSUME NEW c \in Clerks, NEW r \in SomeOffered, Cle!ReadForAssignment(c, r)
      PROVE  Clear'
  <2>1. r \in Cle!Assignments
    <3>1. r \in Cle!Rows /\ r.table = "assignments"
      BY <1>4 DEF Cle!ReadForAssignment, Cle!ClearancesAssumption
    <3> QED
      BY <3>1 DEF Cle!Rows, Cle!ClearanceGrants, Cle!Exceptions, Cle!Occupancies
  <2>2. assigning' = [assigning EXCEPT ![c] = r] /\ UNCHANGED <<security, reading, ambiguous>>
    BY <1>4 DEF Cle!ReadForAssignment
  <2>3. ClearancesTyped'
    BY <2>1, <2>2 DEF Clear, ClearancesTyped
  <2>4. OneEach'
    BY <2>2 DEF Clear, OneEach, Cle!Of, Alike
  <2>5. security \subseteq security' /\ reading' = reading
    BY <2>2
  <2> QED
    BY <2>3, <2>4, <2>5, EvaluationsStand DEF Clear
<1>5. ASSUME NEW c \in Clerks, Cle!AssignClassification(c)
      PROVE  Clear'
  <2> DEFINE a == assigning[c]
  <2>1. a \in Cle!Assignments
    BY <1>5 DEF Cle!AssignClassification, Clear, ClearancesTyped
  <2>2. /\ security' = security \cup {a}
        /\ ambiguous' = IF Cle!Overlapping(a) = {} THEN ambiguous ELSE ambiguous \cup {a}
        /\ assigning' = [assigning EXCEPT ![c] = Cle!Idle] /\ reading' = reading
    BY <1>5 DEF Cle!AssignClassification
  <2> HIDE DEF a
  <2>3. ClearancesTyped'
    BY <2>1, <2>2 DEF Clear, ClearancesTyped, Cle!Rows
  <2>4. OneEach'
    <3>1. Cle!Of("assignments")' = Cle!Of("assignments") \cup {a}
      BY <2>1, <2>2 DEF Cle!Of, Cle!Assignments
    <3>2. Cle!Overlapping(a) = {} <=> \A b \in Cle!Of("assignments") : ~Alike(a, b)
      BY DEF Cle!Overlapping, Alike
    <3>3. \A b, d : Alike(b, d) <=> Alike(d, b)
      BY DEF Alike
    <3>4. \A b, d \in Cle!Of("assignments") \ ambiguous : Alike(b, d) => b = d
      BY DEF Clear, OneEach
    <3>5. \A b, d \in (Cle!Of("assignments") \cup {a}) \ ambiguous' : Alike(b, d) => b = d
      BY <2>2, <3>2, <3>3, <3>4
    <3> QED
      BY <3>1, <3>5 DEF OneEach, Alike
  <2>5. security \subseteq security'
    BY <2>2
  <2> QED
    BY <2>2, <2>3, <2>4, <2>5, EvaluationsStand DEF Clear
<1>6. ASSUME NEW v \in Evaluators, NEW p \in Persons, NEW s \in Classified, NEW scope \in Cle!Scopes,
             NEW d \in 0..LastDay, Cle!ResolvePersonPrincipals(v, p, s, scope, d)
      PROVE  Clear'
  <2> DEFINE e == [does |-> "evaluates", person |-> p, subject |-> s, scope |-> scope, at |-> d,
                   as |-> Cle!PrincipalsOf(p, d),
                   due |-> Cle!Due(p, s, scope, d), known |-> Cle!OnRecord(s, d),
                   before |-> security, levels |-> {}]
  <2>1. reading' = [reading EXCEPT ![v] = e] /\ UNCHANGED <<security, assigning, ambiguous>>
    BY <1>6 DEF Cle!ResolvePersonPrincipals
  <2>2. security \subseteq Cle!Rows
    BY DEF Clear, ClearancesTyped
  <2>3. Cle!PrincipalsOf(p, d) \subseteq Cle!Principals /\ Cle!OnRecord(s, d) \subseteq Cle!Rows
    <3>1. \A r \in security : r.table = "occupancies" => r \in Cle!Occupancies
      BY <2>2 DEF Cle!Rows, Cle!ClearanceGrants, Cle!Exceptions, Cle!Assignments
    <3>2. \A r \in Cle!EffectiveAt("occupancies", d) : r.seat \in Seats
      BY <3>1 DEF Cle!EffectiveAt, Cle!Of, Cle!Occupancies
    <3> QED
      BY <2>2, <3>2 DEF Cle!PrincipalsOf, Cle!Principals, Cle!OnRecord, Cle!EffectiveAt, Cle!Of
  <2>4. Cle!Due(p, s, scope, d) \in BOOLEAN
    BY DEF Cle!Due
  <2>5. e \in Readings
    BY <2>2, <2>3, <2>4 DEF Readings
  <2>6. e.does = "evaluates" /\ Grounded(e)
    BY DEF Grounded
  <2> HIDE DEF e
  <2> QED
    BY <2>1, <2>5, <2>6, Evaluated
<1>7. ASSUME NEW v \in Evaluators, Cle!ReadAssignments(v)
      PROVE  Clear'
  <2> DEFINE e == reading[v]
             found == Cle!OnRecord(e.subject, e.at)
             mixed == \E a, b \in found : a # b /\ a.level[1] = b.level[1]
  <2>1. e \in Readings /\ e.does = "evaluates" /\ Grounded(e)
    BY <1>7 DEF Cle!ReadAssignments, Clear, ClearancesTyped, Answers, Cle!Idle
  <2>2. /\ reading' = [reading EXCEPT ![v] =
             IF found = {} \/ mixed THEN Cle!Answered(e, found = {}) ELSE
             [e EXCEPT !.does = "covers", !.levels = {a.level : a \in found}]]
        /\ UNCHANGED <<security, assigning, ambiguous>>
    BY <1>7 DEF Cle!ReadAssignments, Cle!OnRecord
  <2>3. e.known \subseteq found /\ (e.before = security => e.known = found)
    BY <2>1 DEF Grounded
  <2>4. e.before = security => e.due = Cle!Due(e.person, e.subject, e.scope, e.at)
    BY <2>1 DEF Grounded
  <2>5. CASE found = {} \/ mixed
    <3> DEFINE f == Cle!Answered(e, found = {})
    <3>1. f \in Answers /\ f.does = "answered"
      BY <2>1 DEF Cle!Answered, Answers, Readings
    <3>2. /\ f.person = e.person /\ f.scope = e.scope /\ f.at = e.at /\ f.known = e.known
          /\ f.due = e.due /\ f.allowed = (found = {}) /\ f.quiet = (e.before = security)
      BY DEF Cle!Answered
    <3>3. Cle!Due(e.person, e.subject, e.scope, e.at) <=> found = {}
      <4>1. CASE found = {}
        BY <4>1 DEF Cle!Due
      <4>2. CASE mixed
        BY <4>2 DEF Cle!Due
      <4> QED
        BY <2>5, <4>1, <4>2
    <3>4. Answering(f)
      <4>1. f.allowed => \A a \in f.known : Cle!Cleared(f.person, a, f.scope, f.at)
        BY <2>3, <3>2
      <4>2. f.quiet => f.allowed = f.due
        <5>1. Cle!Due(e.person, e.subject, e.scope, e.at) \in BOOLEAN
          BY DEF Cle!Due
        <5> QED
          BY <2>4, <3>2, <3>3, <5>1
      <4> QED
        BY <4>1, <4>2 DEF Answering
    <3>5. reading' = [reading EXCEPT ![v] = f]
      BY <2>2, <2>5
    <3> HIDE DEF f, e
    <3> QED
      BY <2>2, <3>1, <3>4, <3>5, Evaluated
  <2>6. CASE ~(found = {} \/ mixed)
    <3> DEFINE f == [e EXCEPT !.does = "covers", !.levels = {a.level : a \in found}]
    <3>1. found \subseteq Cle!Rows /\ \A a \in found : a \in Cle!Assignments
      <4>1. \A r \in security : r \in Cle!Rows /\ (r.table = "assignments" => r \in Cle!Assignments)
        BY DEF Clear, ClearancesTyped, Cle!Rows, Cle!ClearanceGrants, Cle!Exceptions,
           Cle!Occupancies
      <4> QED
        BY <4>1 DEF Cle!OnRecord, Cle!EffectiveAt, Cle!Of
    <3>2. {a.level : a \in found} \subseteq SomeLevels
      BY <3>1 DEF Cle!Assignments
    <3>3. f \in Readings /\ f.does = "covers" /\ f.levels = {a.level : a \in found}
      BY <2>1, <3>2 DEF Readings
    <3>4. /\ f.person = e.person /\ f.subject = e.subject /\ f.scope = e.scope /\ f.at = e.at
          /\ f.as = e.as /\ f.known = e.known /\ f.due = e.due /\ f.before = e.before
      BY <2>1 DEF Readings
    <3>5. Grounded(f)
      BY <2>1, <3>4 DEF Grounded
    <3>6. Covering(f)
      BY <2>3, <2>6, <3>3, <3>4 DEF Covering
    <3>7. reading' = [reading EXCEPT ![v] = f]
      BY <2>2, <2>6
    <3> HIDE DEF f, e
    <3> QED
      BY <2>2, <3>3, <3>5, <3>6, <3>7, Evaluated
  <2> QED
    BY <2>5, <2>6
<1>8. ASSUME NEW v \in Evaluators, Cle!EvaluateAccess(v)
      PROVE  Clear'
  <2> DEFINE e == reading[v]
             grants == {g \in Cle!EffectiveAt("grants", e.at) :
                          g.principal \in e.as /\ Cle!ScopeMatches(g, e.scope)}
             exceptions == {x \in Cle!EffectiveAt("exceptions", e.at) :
                              x.principal \in e.as /\ x.subject = e.subject}
             covered(l) == \/ \E x \in exceptions : x.level = l
                           \/ \E g \in grants : Cle!ClearanceCovers(g, l)
             allowed == \A l \in e.levels : covered(l)
             f == Cle!Answered(e, allowed)
  <2>1. e \in Readings /\ e.does = "covers" /\ Grounded(e) /\ Covering(e)
    BY <1>8 DEF Cle!EvaluateAccess, Clear, ClearancesTyped, Answers, Cle!Idle
  <2>2. reading' = [reading EXCEPT ![v] = f] /\ UNCHANGED <<security, assigning, ambiguous>>
    BY <1>8 DEF Cle!EvaluateAccess
  <2>3. f \in Answers /\ f.does = "answered"
    BY <2>1 DEF Cle!Answered, Answers, Readings
  <2>4. /\ f.person = e.person /\ f.scope = e.scope /\ f.at = e.at /\ f.known = e.known
        /\ f.due = e.due /\ f.allowed = allowed /\ f.quiet = (e.before = security)
    BY DEF Cle!Answered
  <2>5. ASSUME NEW a \in e.known
        PROVE  /\ a \in Cle!Assignments /\ a.level \in SomeLevels /\ a.subject = e.subject
               /\ covered(a.level) => Cle!Cleared(e.person, a, e.scope, e.at)
               /\ e.as = Cle!PrincipalsOf(e.person, e.at) /\ Cle!Cleared(e.person, a, e.scope, e.at)
                  => covered(a.level)
    <3>1. a \in Cle!OnRecord(e.subject, e.at) /\ e.as \subseteq Cle!PrincipalsOf(e.person, e.at)
      BY <2>1 DEF Grounded
    <3>2. a \in security /\ a.table = "assignments" /\ a.subject = e.subject
      BY <3>1 DEF Cle!OnRecord, Cle!EffectiveAt, Cle!Of
    <3>3. /\ \A r \in security : r.table = "assignments" => r.level \in SomeLevels
          /\ \A r \in security : r.table = "grants" => r.level \in SomeLevels
      BY DEF Clear, ClearancesTyped, Cle!Rows, Cle!Assignments, Cle!ClearanceGrants,
         Cle!Exceptions, Cle!Occupancies
    <3>4. a \in Cle!Assignments
      BY <3>2
      DEF Clear, ClearancesTyped, Cle!Rows, Cle!ClearanceGrants, Cle!Exceptions, Cle!Occupancies
    <3>5. a.level \in SomeLevels
      BY <3>2, <3>3
    <3>6. \A g \in Cle!EffectiveAt("grants", e.at) :
            Cle!ClearanceCovers(g, a.level) <=>
              /\ g.level[1] = a.level[1]
              /\ g.level[2] = a.level[2] \/ (g.lower /\ g.level[2] > a.level[2])
      <4>1. SUFFICES ASSUME NEW g \in Cle!EffectiveAt("grants", e.at)
                     PROVE  Cle!ClearanceCovers(g, a.level) <=>
                              /\ g.level[1] = a.level[1]
                              /\ g.level[2] = a.level[2] \/ (g.lower /\ g.level[2] > a.level[2])
        OBVIOUS
      <4>2. g.level \in SomeLevels
        BY <3>3 DEF Cle!EffectiveAt, Cle!Of
      <4>3. /\ g.level = <<g.level[1], g.level[2]>> /\ g.level[2] \in Nat
            /\ a.level = <<a.level[1], a.level[2]>> /\ a.level[2] \in Nat
        BY <3>5, <4>2 DEF Cle!ClearancesAssumption
      <4>4. g.level[1] = a.level[1] => (g.level = a.level <=> g.level[2] = a.level[2])
        BY <4>3
      <4>5. a.level[2] <= g.level[2] <=> g.level[2] = a.level[2] \/ g.level[2] > a.level[2]
        BY <4>3
      <4> QED
        BY <4>4, <4>5 DEF Cle!ClearanceCovers
    <3>7. covered(a.level) => Cle!Cleared(e.person, a, e.scope, e.at)
      BY <3>1, <3>2, <3>6 DEF Cle!Cleared, Cle!ScopeMatches
    <3>8. e.as = Cle!PrincipalsOf(e.person, e.at) /\ Cle!Cleared(e.person, a, e.scope, e.at)
          => covered(a.level)
      BY <3>2, <3>6 DEF Cle!Cleared, Cle!ScopeMatches
    <3> QED
      BY <3>2, <3>4, <3>5, <3>7, <3>8
  <2> HIDE DEF covered
  <2>6. allowed => \A a \in e.known : Cle!Cleared(e.person, a, e.scope, e.at)
    BY <2>1, <2>5 DEF Covering
  <2>7. ASSUME e.before = security
        PROVE  allowed <=> Cle!Due(e.person, e.subject, e.scope, e.at)
    <3>1. e.known = Cle!OnRecord(e.subject, e.at) /\ e.as = Cle!PrincipalsOf(e.person, e.at)
      BY <2>1, <2>7 DEF Grounded
    <3>2. \A l \in e.levels : \E a \in e.known : a.level = l
      BY <2>1, <2>7 DEF Covering
    <3>3. \A a, b \in e.known : a.level[1] = b.level[1] => a = b
      BY <2>1, <2>7 DEF Covering
    <3>4. Cle!Due(e.person, e.subject, e.scope, e.at) <=>
            \A a \in e.known : Cle!Cleared(e.person, a, e.scope, e.at)
      BY <3>1, <3>3 DEF Cle!Due
    <3>5. (\A a \in e.known : Cle!Cleared(e.person, a, e.scope, e.at)) => allowed
      BY <2>5, <3>1, <3>2
    <3> QED
      BY <2>6, <3>4, <3>5
  <2>8. Answering(f)
    <3>1. allowed \in BOOLEAN /\ Cle!Due(e.person, e.subject, e.scope, e.at) \in BOOLEAN
      BY DEF Cle!Due
    <3>2. e.before = security => e.due = Cle!Due(e.person, e.subject, e.scope, e.at)
      BY <2>1 DEF Grounded
    <3> HIDE DEF allowed, f
    <3>3. f.allowed => \A a \in f.known : Cle!Cleared(f.person, a, f.scope, f.at)
      BY <2>4, <2>6
    <3>4. f.quiet => f.allowed = f.due
      BY <2>4, <2>7, <3>1, <3>2
    <3> QED
      BY <3>3, <3>4 DEF Answering
  <2> HIDE DEF f
  <2> QED
    BY <2>2, <2>3, <2>8, Evaluated
<1>9. CASE UNCHANGED Cle!vars
  <2>1. security \subseteq security' /\ reading' = reading
    BY <1>9 DEF Cle!vars
  <2>2. ClearancesTyped' /\ OneEach'
    BY <1>9 DEF Cle!vars, Clear, ClearancesTyped, OneEach, Cle!Of, Alike
  <2> QED
    BY <2>1, <2>2, EvaluationsStand DEF Clear
<1> QED
  BY <1>1, <1>2, <1>3, <1>4, <1>5, <1>6, <1>7, <1>8, <1>9 DEF Cle!Next

\* Clear evaluations are honest.
LEMMA ClearSound == Clear => Cle!ClearancesHonest
BY DEF Clear, Cle!ClearancesHonest, OneEach, Alike, Answering

\* Nothing was overlooked.
LEMMA UnseenInit == Cle!Init => ambiguous \subseteq security
BY DEF Cle!Init

\* What was overlooked was inserted.
LEMMA UnseenKept == ambiguous \subseteq security /\ [Cle!Next]_(Cle!vars) => ambiguous' \subseteq security'
BY DEF Cle!Next, Cle!vars, Cle!ReadForAssignment, Cle!AssignClassification, Cle!Insert,
   Cle!GrantClearance,
   Cle!CreateAccessException, Cle!AssignPersonToPosition, Cle!ResolvePersonPrincipals,
   Cle!ReadAssignments,
   Cle!EvaluateAccess

\* All values have their types.
LEMMA ClearanceTypes == Clear /\ ambiguous \subseteq security => Cle!TypeOK
<1> SUFFICES ASSUME Clear, ambiguous \subseteq security PROVE Cle!TypeOK
  OBVIOUS
<1>1. \A e \in Evaluators : reading[e].does \in {"nothing", "evaluates", "covers", "answered"}
  BY DEF Clear, ClearancesTyped, Readings, Answers, Cle!Idle
<1> QED
  BY <1>1 DEF Clear, ClearancesTyped, Cle!TypeOK

-----------------------------------------------------------------------------
\* The fields of Things.

Creations ==
  [does : {"creates"}, thing : Things, type : SomeTypes, slots : [SomeFields -> SUBSET Slots]]
Replacements ==
  [does : {"replaces"}, thing : Things, field : SomeFields, slots : SUBSET Slots]

FieldsTyped ==
  /\ typed \in [Things -> SomeTypes \cup {Fld!None}]
  /\ filled \in [Things -> [SomeFields -> SUBSET Slots]]
  /\ fields \subseteq SomeFields /\ mandatory \subseteq fields
  /\ editing \in [Clerks -> {Fld!Idle} \cup Creations \cup Replacements]

\* What a command is about to write fits the Thing, which one command at most creates.
Fitting ==
  /\ \A c \in Clerks : editing[c].does = "creates" =>
       /\ typed[editing[c].thing] = Fld!None
       /\ \A f \in SomeFields :
            /\ editing[c].slots[f] # {} => SomeFieldOf[f] \in Fld!Lineage(editing[c].type)
            /\ Fld!SlotsFit(f, editing[c].slots[f])
  /\ \A c, d \in Clerks :
       /\ editing[c].does = "creates" /\ editing[d].does = "creates"
       /\ editing[c].thing = editing[d].thing
       => c = d
  /\ \A c \in Clerks : editing[c].does = "replaces" =>
       /\ typed[editing[c].thing] # Fld!None
       /\ SomeFieldOf[editing[c].field] \in Fld!Lineage(typed[editing[c].thing])
       /\ Fld!SlotsFit(editing[c].field, editing[c].slots)

\* A Thing that is not there has no values.
Unborn == \A t \in Things, f \in SomeFields : typed[t] = Fld!None => filled[t][f] = {}

\* The inductive invariant.
Filled == FieldsTyped /\ Fitting /\ Unborn /\ Fld!ThingsWellFormed

\* There are no Things.
LEMMA FilledInit == Fld!FieldsAssumption /\ Fld!Init => Filled
<1> SUFFICES ASSUME Fld!FieldsAssumption, Fld!Init PROVE Filled
  OBVIOUS
<1>1. FieldsTyped /\ Fitting /\ Unborn
  BY DEF Fld!Init, FieldsTyped, Fitting, Unborn, Fld!Idle
<1>2. Fld!ThingsWellFormed
  BY DEF Fld!Init, Fld!ThingsWellFormed
<1> QED
  BY <1>1, <1>2 DEF Filled

\* A command that checks a write leaves the Things as they are.
LEMMA WriteChecked ==
  ASSUME Filled, NEW c \in Clerks, NEW write \in Creations \cup Replacements,
         editing' = [editing EXCEPT ![c] = write],
         UNCHANGED <<typed, filled, fields, mandatory, excused>>,
         write.does = "creates" =>
           /\ typed[write.thing] = Fld!None
           /\ \A d \in Clerks : editing[d].does = "creates" => editing[d].thing # write.thing
           /\ \A f \in SomeFields :
                /\ write.slots[f] # {} => SomeFieldOf[f] \in Fld!Lineage(write.type)
                /\ Fld!SlotsFit(f, write.slots[f]),
         write.does = "replaces" =>
           /\ typed[write.thing] # Fld!None
           /\ SomeFieldOf[write.field] \in Fld!Lineage(typed[write.thing])
           /\ Fld!SlotsFit(write.field, write.slots)
  PROVE  Filled'
<1>1. FieldsTyped'
  BY DEF Filled, FieldsTyped
<1>2. editing'[c] = write /\ \A d \in Clerks \ {c} : editing'[d] = editing[d]
  BY DEF Filled, FieldsTyped
<1>3. Fitting'
  BY <1>2 DEF Filled, Fitting
<1>4. Unborn' /\ Fld!ThingsWellFormed'
  BY DEF Filled, Unborn, Fld!ThingsWellFormed
<1> QED
  BY <1>1, <1>3, <1>4 DEF Filled

\* The values of one field of a Thing are written anew.
LEMMA FieldWritten ==
  ASSUME Filled, NEW t \in Things, NEW f \in SomeFields, NEW slots \in SUBSET Slots,
         typed[t] # Fld!None, SomeFieldOf[f] \in Fld!Lineage(typed[t]), Fld!SlotsFit(f, slots),
         filled' = [filled EXCEPT ![t][f] = slots],
         UNCHANGED <<typed, fields, mandatory>>,
         \A p \in Things \X SomeFields : p # <<t, f>> => (p \in excused => p \in excused'),
         slots = {} /\ f \in fields /\ Fld!Demanded(f) => <<t, f>> \in excused'
  PROVE  /\ filled' \in [Things -> [SomeFields -> SUBSET Slots]]
         /\ Unborn' /\ Fld!ThingsWellFormed'
<1>1. filled' \in [Things -> [SomeFields -> SUBSET Slots]]
  BY DEF Filled, FieldsTyped
<1>2. \A u \in Things, g \in SomeFields :
        filled'[u][g] = IF u = t /\ g = f THEN slots ELSE filled[u][g]
  BY DEF Filled, FieldsTyped
<1>3. Unborn'
  BY <1>2 DEF Filled, Unborn
<1>4. \A u \in Things, g \in SomeFields : <<u, g>> = <<t, f>> => u = t /\ g = f
  OBVIOUS
<1>5. ASSUME NEW u \in Things, NEW g \in SomeFields
      PROVE  /\ filled'[u][g] # {} => SomeFieldOf[g] \in Fld!Lineage(typed'[u])
             /\ g \in SomeMultiple \/ filled'[u][g] \subseteq {0}
             /\ /\ typed'[u] # Fld!None /\ g \in fields' /\ SomeFieldOf[g] \in Fld!Lineage(typed'[u])
                /\ g \in SomeRequired \cup mandatory' /\ filled'[u][g] = {}
                => <<u, g>> \in excused'
  <2>1. CASE u = t /\ g = f
    BY <1>2, <2>1 DEF Fld!SlotsFit, Fld!Demanded
  <2>2. CASE ~(u = t /\ g = f)
    BY <1>2, <1>4, <2>2 DEF Filled, Fld!ThingsWellFormed
  <2> QED
    BY <2>1, <2>2
<1>6. Fld!ThingsWellFormed'
  BY <1>5 DEF Fld!ThingsWellFormed
<1> QED
  BY <1>1, <1>3, <1>6

\* Every step keeps the Things filled as their types demand.
LEMMA FilledKept ==
  ASSUME Fld!FieldsAssumption, Filled, [Fld!Next]_(Fld!vars)
  PROVE  Filled'
<1>1. ASSUME NEW f \in SomeFields, Fld!AssignAttributeToType(f)
      PROVE  Filled'
  <2>1. FieldsTyped' /\ Fitting' /\ Unborn'
    BY <1>1 DEF Fld!AssignAttributeToType, Filled, FieldsTyped, Fitting, Unborn
  <2>2. Fld!ThingsWellFormed'
    BY <1>1 DEF Fld!AssignAttributeToType, Filled, FieldsTyped, Fld!ThingsWellFormed, Fld!Empty
  <2> QED
    BY <2>1, <2>2 DEF Filled
<1>2. ASSUME NEW f \in SomeFields, Fld!AssignConstraintToAttribute(f)
      PROVE  Filled'
  <2>1. FieldsTyped' /\ Fitting' /\ Unborn'
    BY <1>2 DEF Fld!AssignConstraintToAttribute, Filled, FieldsTyped, Fitting, Unborn
  <2>2. Fld!ThingsWellFormed'
    BY <1>2
    DEF Fld!AssignConstraintToAttribute, Filled, FieldsTyped, Fld!ThingsWellFormed, Fld!Empty
  <2> QED
    BY <2>1, <2>2 DEF Filled
<1>3. ASSUME NEW t \in Things, NEW f \in SomeFields, NEW slot \in Slots,
             Fld!SetThingFieldValue(t, f, slot)
      PROVE  Filled'
  <2> DEFINE slots == filled[t][f] \cup {slot}
  <2>1. /\ filled' = [filled EXCEPT ![t][f] = slots]
        /\ typed[t] # Fld!None /\ SomeFieldOf[f] \in Fld!Lineage(typed[t])
        /\ slots \in SUBSET Slots /\ slots # {}
        /\ UNCHANGED <<typed, fields, mandatory, editing>>
        /\ \A p \in Things \X SomeFields : p # <<t, f>> => (p \in excused => p \in excused')
    BY <1>3 DEF Fld!SetThingFieldValue, Fld!EffectiveTypeAssignments, Filled, FieldsTyped
  <2>2. Fld!SlotsFit(f, slots)
    BY <1>3 DEF Fld!SetThingFieldValue, Fld!SlotsFit, Filled, Fld!ThingsWellFormed
  <2> HIDE DEF slots
  <2>3. filled' \in [Things -> [SomeFields -> SUBSET Slots]] /\ Unborn' /\ Fld!ThingsWellFormed'
    BY <2>1, <2>2, FieldWritten
  <2>4. FieldsTyped' /\ Fitting'
    BY <2>1, <2>3 DEF Filled, FieldsTyped, Fitting
  <2> QED
    BY <2>3, <2>4 DEF Filled
<1>4. ASSUME NEW c \in Clerks, NEW t \in Things, NEW ty \in SomeTypes,
             NEW supplied \in [SomeFields -> SUBSET Slots], Fld!CreateThing(c, t, ty, supplied)
      PROVE  Filled'
  <2> DEFINE own == Fld!EffectiveTypeAssignments(ty)
             slots == [f \in SomeFields |-> IF f \in own THEN Fld!Resolved(supplied, f) ELSE {}]
             write == [does |-> "creates", thing |-> t, type |-> ty, slots |-> slots]
  <2>1. /\ typed[t] = Fld!None /\ \A d \in Clerks : editing[d].does = "creates" => editing[d].thing # t
        /\ \A f \in own : Fld!SlotsFit(f, slots[f])
        /\ editing' = [editing EXCEPT ![c] = write]
        /\ UNCHANGED <<typed, filled, fields, mandatory, excused>>
    BY <1>4 DEF Fld!CreateThing, Fld!Begin
  <2>2. slots \in [SomeFields -> SUBSET Slots]
    BY DEF Fld!Resolved, Fld!FieldsAssumption
  <2>3. \A f \in SomeFields : /\ slots[f] # {} => SomeFieldOf[f] \in Fld!Lineage(ty)
                              /\ Fld!SlotsFit(f, slots[f])
    BY <2>1 DEF Fld!EffectiveTypeAssignments, Fld!SlotsFit
  <2> HIDE DEF slots
  <2>4. /\ write \in Creations \cup Replacements /\ write.does = "creates" /\ write.thing = t
        /\ write.type = ty /\ write.slots = slots
    BY <2>2 DEF Creations
  <2> HIDE DEF write
  <2> QED
    BY <2>1, <2>3, <2>4, WriteChecked
<1>5. ASSUME NEW c \in Clerks, NEW t \in Things, NEW f \in SomeFields, NEW slots \in SUBSET Slots,
             Fld!ReplaceThingFieldValues(c, t, f, slots)
      PROVE  Filled'
  <2> DEFINE write == [does |-> "replaces", thing |-> t, field |-> f, slots |-> slots]
  <2>1. /\ typed[t] # Fld!None /\ SomeFieldOf[f] \in Fld!Lineage(typed[t]) /\ Fld!SlotsFit(f, slots)
        /\ editing' = [editing EXCEPT ![c] = write]
        /\ UNCHANGED <<typed, filled, fields, mandatory, excused>>
    BY <1>5 DEF Fld!ReplaceThingFieldValues, Fld!Begin, Fld!EffectiveTypeAssignments
  <2>2. /\ write \in Creations \cup Replacements /\ write.does = "replaces" /\ write.thing = t
        /\ write.field = f /\ write.slots = slots
    BY DEF Replacements
  <2> HIDE DEF write
  <2> QED
    BY <2>1, <2>2, WriteChecked
<1>6. ASSUME NEW c \in Clerks, Fld!InsertThing(c)
      PROVE  Filled'
  <2> DEFINE t == editing[c].thing
             ty == editing[c].type
             slots == editing[c].slots
  <2>1. editing[c] \in Creations
    BY <1>6 DEF Fld!InsertThing, Filled, FieldsTyped, Replacements, Fld!Idle
  <2>2. t \in Things /\ ty \in SomeTypes /\ slots \in [SomeFields -> SUBSET Slots] /\ ty # Fld!None
    BY <2>1 DEF Creations, Fld!FieldsAssumption
  <2>3. /\ typed' = [typed EXCEPT ![t] = ty] /\ filled' = [filled EXCEPT ![t] = slots]
        /\ excused' = excused \cup
             {<<t, f>> : f \in {g \in Fld!EffectiveTypeAssignments(ty) : Fld!Demanded(g) /\ slots[g] = {}}}
        /\ editing' = [editing EXCEPT ![c] = Fld!Idle]
        /\ UNCHANGED <<fields, mandatory>>
    BY <1>6 DEF Fld!InsertThing
  <2>4. /\ typed[t] = Fld!None
        /\ \A f \in SomeFields : /\ slots[f] # {} => SomeFieldOf[f] \in Fld!Lineage(ty)
                                 /\ Fld!SlotsFit(f, slots[f])
        /\ \A d \in Clerks \ {c} : editing[d].does = "creates" => editing[d].thing # t
        /\ \A d \in Clerks : editing[d].does = "replaces" => editing[d].thing # t
    BY <1>6 DEF Fld!InsertThing, Filled, Fitting
  <2> HIDE DEF t, ty, slots
  <2>5. FieldsTyped'
    BY <2>2, <2>3 DEF Filled, FieldsTyped
  <2>6. /\ typed'[t] = ty /\ filled'[t] = slots
        /\ \A u \in Things \ {t} : typed'[u] = typed[u] /\ filled'[u] = filled[u]
        /\ editing'[c] = Fld!Idle /\ \A d \in Clerks \ {c} : editing'[d] = editing[d]
    BY <2>2, <2>3 DEF Filled, FieldsTyped
  <2>7. \A d \in Clerks \ {c} : editing[d].does \in {"creates", "replaces"} =>
          editing[d].thing \in Things \ {t}
    BY <2>4 DEF Filled, FieldsTyped, Creations, Replacements, Fld!Idle
  <2>8. Fitting'
    BY <2>6, <2>7 DEF Filled, Fitting, Fld!Idle
  <2>9. Unborn'
    BY <2>2, <2>6 DEF Filled, Unborn
  <2>10. ASSUME NEW u \in Things, NEW g \in SomeFields
         PROVE  /\ filled'[u][g] # {} => SomeFieldOf[g] \in Fld!Lineage(typed'[u])
                /\ g \in SomeMultiple \/ filled'[u][g] \subseteq {0}
                /\ /\ typed'[u] # Fld!None /\ g \in fields' /\ SomeFieldOf[g] \in Fld!Lineage(typed'[u])
                   /\ g \in SomeRequired \cup mandatory' /\ filled'[u][g] = {}
                   => <<u, g>> \in excused'
    <3>1. CASE u = t
      BY <2>3, <2>4, <2>6, <3>1 DEF Fld!SlotsFit, Fld!Demanded, Fld!EffectiveTypeAssignments
    <3>2. CASE u # t
      BY <2>3, <2>6, <3>2 DEF Filled, Fld!ThingsWellFormed
    <3> QED
      BY <3>1, <3>2
  <2>11. Fld!ThingsWellFormed'
    BY <2>10 DEF Fld!ThingsWellFormed
  <2> QED
    BY <2>5, <2>8, <2>9, <2>11 DEF Filled
<1>7. ASSUME NEW c \in Clerks, Fld!RewriteField(c)
      PROVE  Filled'
  <2> DEFINE t == editing[c].thing
             f == editing[c].field
             slots == editing[c].slots
  <2>1. editing[c] \in Replacements
    BY <1>7 DEF Fld!RewriteField, Filled, FieldsTyped, Creations, Fld!Idle
  <2>2. t \in Things /\ f \in SomeFields /\ slots \in SUBSET Slots
    BY <2>1 DEF Replacements
  <2>3. /\ filled' = [filled EXCEPT ![t][f] = slots]
        /\ excused' = IF slots # {} THEN excused \ {<<t, f>>}
                      ELSE excused \cup {p \in {<<t, f>>} : Fld!Demanded(f)}
        /\ editing' = [editing EXCEPT ![c] = Fld!Idle]
        /\ UNCHANGED <<typed, fields, mandatory>>
    BY <1>7 DEF Fld!RewriteField
  <2>4. typed[t] # Fld!None /\ SomeFieldOf[f] \in Fld!Lineage(typed[t]) /\ Fld!SlotsFit(f, slots)
    BY <1>7 DEF Fld!RewriteField, Filled, Fitting
  <2> HIDE DEF t, f, slots
  <2>5. /\ \A p \in Things \X SomeFields : p # <<t, f>> => (p \in excused => p \in excused')
        /\ slots = {} /\ f \in fields /\ Fld!Demanded(f) => <<t, f>> \in excused'
    BY <2>3
  <2>6. filled' \in [Things -> [SomeFields -> SUBSET Slots]] /\ Unborn' /\ Fld!ThingsWellFormed'
    BY <2>2, <2>3, <2>4, <2>5, FieldWritten
  <2>7. FieldsTyped'
    BY <2>3, <2>6 DEF Filled, FieldsTyped
  <2>8. editing'[c] = Fld!Idle /\ \A d \in Clerks \ {c} : editing'[d] = editing[d]
    BY <2>3 DEF Filled, FieldsTyped
  <2>9. Fitting'
    BY <2>3, <2>8 DEF Filled, Fitting, Fld!Idle
  <2> QED
    BY <2>6, <2>7, <2>9 DEF Filled
<1>8. CASE UNCHANGED Fld!vars
  BY <1>8 DEF Fld!vars, Filled, FieldsTyped, Fitting, Unborn, Fld!ThingsWellFormed
<1> QED
  BY <1>1, <1>2, <1>3, <1>4, <1>5, <1>6, <1>7, <1>8 DEF Fld!Next

\* Things that are filled so are well formed.
LEMMA FilledSound == Filled => Fld!ThingsWellFormed
BY DEF Filled

\* Nothing is excused.
LEMMA ExcusedInit == Fld!Init => excused \subseteq Things \X SomeFields
BY DEF Fld!Init

\* What is excused is a field of a Thing.
LEMMA ExcusedKept ==
  ASSUME Filled, excused \subseteq Things \X SomeFields, [Fld!Next]_(Fld!vars)
  PROVE  excused' \subseteq Things \X SomeFields
<1>1. ASSUME NEW f \in SomeFields, Fld!AssignAttributeToType(f) \/ Fld!AssignConstraintToAttribute(f)
      PROVE  excused' \subseteq Things \X SomeFields
  <2>1. Fld!Empty(f) \subseteq Things \X SomeFields
    BY DEF Fld!Empty
  <2> QED
    BY <1>1, <2>1 DEF Fld!AssignAttributeToType, Fld!AssignConstraintToAttribute
<1>2. ASSUME NEW c \in Clerks, Fld!InsertThing(c) \/ Fld!RewriteField(c)
      PROVE  excused' \subseteq Things \X SomeFields
  <2>1. editing[c].does = "creates" => editing[c].thing \in Things
    BY DEF Filled, FieldsTyped, Creations, Replacements, Fld!Idle
  <2>2. editing[c].does = "replaces" => editing[c].thing \in Things /\ editing[c].field \in SomeFields
    BY DEF Filled, FieldsTyped, Creations, Replacements, Fld!Idle
  <2>3. Fld!EffectiveTypeAssignments(editing[c].type) \subseteq SomeFields
    BY DEF Fld!EffectiveTypeAssignments, Filled, FieldsTyped
  <2> QED
    BY <1>2, <2>1, <2>2, <2>3 DEF Fld!InsertThing, Fld!RewriteField
<1>3. CASE excused' = excused
  BY <1>3
<1>4. ASSUME NEW t \in Things, NEW f \in SomeFields, NEW slot \in Slots, Fld!SetThingFieldValue(t, f, slot)
      PROVE  excused' \subseteq Things \X SomeFields
  BY <1>4 DEF Fld!SetThingFieldValue
<1> QED
  BY <1>1, <1>2, <1>3, <1>4 DEF Fld!Next, Fld!vars, Fld!CreateThing, Fld!ReplaceThingFieldValues

\* All values have their types.
LEMMA FieldTypes == Filled /\ excused \subseteq Things \X SomeFields => Fld!TypeOK
<1> SUFFICES ASSUME Filled, excused \subseteq Things \X SomeFields PROVE Fld!TypeOK
  OBVIOUS
<1>1. \A c \in Clerks : editing[c].does \in {"nothing", "creates", "replaces"}
  BY DEF Filled, FieldsTyped, Creations, Replacements, Fld!Idle
<1> QED
  BY <1>1 DEF Filled, FieldsTyped, Fld!TypeOK

-----------------------------------------------------------------------------
\* The relationships of Things.

\* Two relationships that may not both hold on a day.
Conflict(r, s) ==
  /\ s.type = r.type /\ Rel!Overlaps(s, r)
  /\ \/ r.type \in SomeRelations /\ s.from = r.from
     \/ r.type \in SomeRelations /\ s.to = r.to

\* Both ends are of the types that were named.
WellTyped(r) ==
  Rel!TypeMatches(r.from, SomeEnds[r.type][1]) /\ Rel!TypeMatches(r.to, SomeEnds[r.type][2])

\* The inductive invariant.
Related ==
  /\ Rel!TypeOK
  /\ \A r \in related : WellTyped(r)
  /\ \A c \in Clerks : relating[c] # Rel!Idle => WellTyped(relating[c])
  /\ \A r, s \in related \ beside : Conflict(r, s) => r = s

\* Nothing is related.
LEMMA RelatedInit == Rel!Init => Related
BY DEF Rel!Init, Related, Rel!TypeOK

\* Every step keeps the relationships well formed, but for those it did not see.
LEMMA RelatedKept ==
  ASSUME Related, [Rel!Next]_(Rel!vars)
  PROVE  Related'
<1>1. ASSUME NEW c \in Clerks, Rel!InsertRelationship(c)
      PROVE  Related'
  <2> DEFINE new == relating[c]
  <2>1. /\ new \in Rel!Relationships /\ WellTyped(new)
        /\ related' = related \cup {new}
        /\ beside' = IF Rel!Exceeded(new) THEN beside \cup {new} ELSE beside
        /\ relating' = [relating EXCEPT ![c] = Rel!Idle]
    BY <1>1 DEF Rel!InsertRelationship, Related, Rel!TypeOK
  <2> HIDE DEF new
  <2>2. Rel!TypeOK'
    BY <2>1 DEF Related, Rel!TypeOK
  <2>3. \A r \in related' : WellTyped(r)
    BY <2>1 DEF Related, WellTyped, Rel!TypeMatches
  <2>4. \A d \in Clerks : relating'[d] # Rel!Idle => WellTyped(relating'[d])
    BY <2>1 DEF Related, Rel!TypeOK, WellTyped, Rel!TypeMatches
  <2>5. \A r, s \in related' \ beside' : Conflict(r, s)' => r = s
    <3>1. \A r, s \in related \ beside : Conflict(r, s) => r = s
      BY DEF Related
    <3>2. \A r, s : Conflict(r, s) <=> Conflict(s, r)
      BY DEF Conflict, Rel!Overlaps
    <3>3. Rel!Exceeded(new) <=> \E s \in related : Conflict(new, s)
      BY DEF Rel!Exceeded, Conflict
    <3>4. \A r, s : Conflict(r, s)' <=> Conflict(r, s)
      BY DEF Conflict, Rel!Overlaps
    <3> QED
      BY <2>1, <3>1, <3>2, <3>3, <3>4
  <2> QED
    BY <2>2, <2>3, <2>4, <2>5 DEF Related
<1>2. ASSUME NEW c \in Clerks, NEW r \in Rel!Relationships, Rel!RelateThings(c, r)
      PROVE  Related'
  <2>1. relating' = [relating EXCEPT ![c] = r] /\ UNCHANGED <<related, beside>> /\ WellTyped(r)
    BY <1>2 DEF Rel!RelateThings, WellTyped
  <2>2. Rel!TypeOK'
    BY <2>1 DEF Related, Rel!TypeOK
  <2>3. \A s : WellTyped(s)' <=> WellTyped(s)
    BY DEF WellTyped, Rel!TypeMatches
  <2>4. \A d \in Clerks : relating'[d] # Rel!Idle => WellTyped(relating'[d])
    BY <2>1, <2>3 DEF Related, Rel!TypeOK
  <2>5. \A s, q : Conflict(s, q)' <=> Conflict(s, q)
    BY DEF Conflict, Rel!Overlaps
  <2> QED
    BY <2>1, <2>2, <2>3, <2>4, <2>5 DEF Related
<1>3. CASE UNCHANGED Rel!vars
  BY <1>3 DEF Rel!vars, Related, Rel!TypeOK, WellTyped, Rel!TypeMatches, Conflict, Rel!Overlaps
<1> QED
  BY <1>1, <1>2, <1>3 DEF Rel!Next

\* What holds on one day overlaps, and what a type is derived from is in every set of
\* types that has the type and is closed.
LEMMA RelatedSound == Rel!RelationshipsAssumption /\ Related => Rel!RelationshipsWellFormed
<1> SUFFICES ASSUME Rel!RelationshipsAssumption, Related PROVE Rel!RelationshipsWellFormed
  OBVIOUS
<1>1. \A r \in related : /\ r \in Rel!Relationships /\ r.from \in Linked /\ r.to \in Linked
                         /\ r.period[1] \in Nat /\ r.period[2] \in Nat
  BY DEF Related, Rel!TypeOK, Rel!Relationships, Rel!RelationshipsAssumption
<1>2. ASSUME NEW d \in Rel!Days, NEW r \in Rel!On(d), NEW s \in Rel!On(d), r.type = s.type,
             (r.type \in SomeRelations /\ r.from = s.from) \/ (r.type \in SomeRelations /\ r.to = s.to)
      PROVE  r = s
  <2>1. d \in Int
    BY DEF Rel!Days, Rel!RelationshipsAssumption
  <2>2. /\ r \in related \ beside /\ s \in related \ beside
        /\ r.period[1] <= d /\ d <= r.period[2] /\ s.period[1] <= d /\ d <= s.period[2]
    BY DEF Rel!On
  <2>3. /\ r.period[1] \in Nat /\ r.period[2] \in Nat /\ s.period[1] \in Nat /\ s.period[2] \in Nat
    BY <1>1, <2>2
  <2>4. s.period[1] <= r.period[2] /\ r.period[1] <= s.period[2]
    BY <2>1, <2>2, <2>3
  <2>5. Conflict(r, s)
    BY <1>2, <2>4 DEF Conflict, Rel!Overlaps
  <2> QED
    BY <2>2, <2>5 DEF Related
<1>3. ASSUME NEW t, NEW a, NEW S \in SUBSET SomeTypes, Rel!TypeMatches(t, a),
             \A b \in S : SomeParent[b] \in S, SomeTypeOf[t] \in S
      PROVE  a \in S
  BY <1>3 DEF Rel!TypeMatches, Rel!Lineage
<1>4. ASSUME NEW r \in related, NEW S \in SUBSET SomeTypes, \A b \in S : SomeParent[b] \in S
      PROVE  /\ SomeTypeOf[r.from] \in S => SomeEnds[r.type][1] \in S
             /\ SomeTypeOf[r.to] \in S => SomeEnds[r.type][2] \in S
  BY <1>3, <1>4 DEF Related, WellTyped
<1> QED
  BY <1>2, <1>4 DEF Rel!RelationshipsWellFormed

-----------------------------------------------------------------------------
\* The services together.

\* All variables of the whole.
controlsVars ==
  <<service, vars, chkVars, limVars, keyVars, ssoVars, proVars, comVars, accVars, tenVars,
    thgVars, estVars, arqVars, cleVars, fldVars, relVars>>

\* Every step of the whole is a step of each service, or leaves it as it is.
LEMMA Apart ==
  [ControlsNext]_controlsVars =>
    /\ [Next]_vars /\ [Chk!Next]_(Chk!vars) /\ [Key!Next]_(Key!vars) /\ [Sso!Next]_(Sso!vars)
    /\ [Pro!Next]_(Pro!vars) /\ [Com!Next]_(Com!vars) /\ [Acc!Next]_(Acc!vars)
    /\ [Thg!Next]_(Thg!vars) /\ [Lim!Next]_(Lim!vars) /\ [Ten!Next]_(Ten!vars)
    /\ [Est!Next]_(Est!vars) /\ [Arq!Next]_(Arq!vars) /\ [Cle!Next]_(Cle!vars)
    /\ [Fld!Next]_(Fld!vars) /\ [Rel!Next]_(Rel!vars)
<1> USE DEF ControlsNext, OthersRest, controlsVars,
      IdempotencyStep, CheckpointStep, LimiterStep, PasskeyStep, OidcStep, PromotionStep,
      PapersStep, AccountsStep, TenantStep, ThingStep, StaffStep, AccessStep, ClearanceStep,
      FieldStep, RelationStep
<1>1. [ControlsNext]_controlsVars => [Next]_vars
  OBVIOUS
<1>2. [ControlsNext]_controlsVars => [Chk!Next]_(Chk!vars)
  BY DEF chkVars, Chk!vars
<1>3. [ControlsNext]_controlsVars => [Key!Next]_(Key!vars)
  BY DEF keyVars, Key!vars, Key!challengeVars, Key!passkeyVars, Key!requestVars, Key!historyVars
<1>4. [ControlsNext]_controlsVars => [Sso!Next]_(Sso!vars)
  BY DEF ssoVars, Sso!vars
<1>5. [ControlsNext]_controlsVars => [Pro!Next]_(Pro!vars)
  BY DEF proVars, Pro!vars, Pro!baselineVars, Pro!setVars, Pro!runVars, Pro!rowVars
<1>6. [ControlsNext]_controlsVars => [Com!Next]_(Com!vars)
  BY DEF comVars, Com!vars, Com!costVars, Com!variationVars
<1>7. [ControlsNext]_controlsVars => [Acc!Next]_(Acc!vars)
  BY DEF accVars, Acc!vars
<1>8. [ControlsNext]_controlsVars => [Thg!Next]_(Thg!vars)
  BY DEF thgVars, Thg!vars
<1>9. [ControlsNext]_controlsVars => [Lim!Next]_(Lim!vars)
  BY DEF limVars, Lim!vars
<1>10. [ControlsNext]_controlsVars => [Ten!Next]_(Ten!vars)
  BY DEF tenVars, Ten!vars
<1>11. [ControlsNext]_controlsVars => [Est!Next]_(Est!vars)
  BY DEF estVars, Est!vars
<1>12. [ControlsNext]_controlsVars => [Arq!Next]_(Arq!vars)
  BY DEF arqVars, Arq!vars
<1>13. [ControlsNext]_controlsVars => [Cle!Next]_(Cle!vars)
  BY DEF cleVars, Cle!vars
<1>14. [ControlsNext]_controlsVars => [Fld!Next]_(Fld!vars)
  BY DEF fldVars, Fld!vars
<1>15. [ControlsNext]_controlsVars => [Rel!Next]_(Rel!vars)
  BY DEF relVars, Rel!vars
<1> HIDE DEF ControlsNext, OthersRest, controlsVars,
      IdempotencyStep, CheckpointStep, LimiterStep, PasskeyStep, OidcStep, PromotionStep,
      PapersStep, AccountsStep, TenantStep, ThingStep, StaffStep, AccessStep, ClearanceStep,
      FieldStep, RelationStep
<1> QED
  BY <1>1, <1>2, <1>3, <1>4, <1>5, <1>6, <1>7, <1>8, <1>9, <1>10, <1>11, <1>12, <1>13, <1>14,
     <1>15

\* The inductive invariant of the whole: those of the services.
Sound ==
  /\ Record /\ Checkpoint /\ KeysKept /\ SignedIn /\ Promoted /\ PapersKept /\ Accounts /\ Line
  /\ Limited /\ Tenancy /\ Established /\ Honest /\ Clear /\ Filled /\ Related

\* No service loses its invariant, whichever one takes the steps.
THEOREM Invariant == ControlsSpec => []Sound
<1>1. ControlsInit => Sound
  BY ControlsAssumption, RecordInit, CheckpointInit, KeysInit, SignedInInit, PromotedInit,
     PapersInit, AccountsInit, LineInit, LimitedInit, TenancyInit, EstablishedInit, HonestInit,
     ClearInit, FilledInit, RelatedInit
  DEF ControlsInit, Sound
<1>2. Sound /\ [ControlsNext]_controlsVars => Sound'
  <2> SUFFICES ASSUME Sound, [ControlsNext]_controlsVars PROVE Sound'
    OBVIOUS
  <2>1. /\ Chk!CheckpointAssumption /\ Key!PasskeysAssumption /\ EmployeesNamed /\ ThingNames
        /\ Lim!LimiterAssumption /\ MaxInterruptions \in Nat /\ Est!EstablishmentAssumption
        /\ Cle!ClearancesAssumption /\ Fld!FieldsAssumption
    BY ControlsAssumption DEF EmployeesNamed, ThingNames
  <2>2. Record' /\ Checkpoint' /\ KeysKept' /\ SignedIn'
    BY <2>1, Apart, RecordStep, CheckpointKept, KeysStep, SignedInKept DEF Sound
  <2>3. Promoted' /\ PapersKept' /\ Accounts' /\ Line' /\ Limited'
    BY <2>1, Apart, PromotedKept, PapersMove, AccountsKept, LineKept, LimitedKept DEF Sound
  <2>4. Tenancy' /\ Established' /\ Honest'
    BY <2>1, Apart, TenancyKept, EstablishedKept, HonestKept DEF Sound
  <2>5. Clear' /\ Filled' /\ Related'
    BY <2>1, Apart, ClearKept, FilledKept, RelatedKept DEF Sound
  <2> QED
    BY <2>2, <2>3, <2>4, <2>5 DEF Sound
<1> QED
  BY <1>1, <1>2, PTL DEF ControlsSpec, controlsVars

\* The command of an idempotency record is run in time once and by one caller.
THEOREM RunOnce == ControlsSpec => []RunsOnce
<1>1. Sound => RunsOnce
  BY RecordSound DEF Sound
<1> QED
  BY <1>1, Invariant, PTL

\* No caller is answered with the response to another command than its own.
THEOREM OwnAnswers == ControlsSpec => []AnswersOwnCommand
<1>1. Sound => AnswersOwnCommand
  BY RecordSound DEF Sound
<1> QED
  BY <1>1, Invariant, PTL

\* Whatever order the projectors save in, the sequence on record is the furthest saved.
THEOREM Forwards == ControlsSpec => []NeverBackwards
<1>1. Sound => NeverBackwards
  BY CheckpointSound DEF Sound, NeverBackwards
<1> QED
  BY <1>1, Invariant, PTL

\* A passkey challenge succeeds once, before it has failed too often; each sign-in by
\* OIDC has a challenge of its own, and a subject signs in as one employee.
THEOREM SignedInHonestly == ControlsSpec => []SignInsHonest
<1>1. Sound => SignInsHonest
  BY ControlsAssumption, KeysSound, SignedInSound DEF Sound, SignInsHonest, EmployeesNamed
<1> QED
  BY <1>1, Invariant, PTL

\* The stored signature counter of a passkey never falls: what overtook a verified
\* assertion has closed its challenge.
THEOREM CountersRise == ControlsSpec => CounterNeverFalls
<1>1. Sound /\ [ControlsNext]_controlsVars =>
        [\A p \in Credentials : counter'[p] >= counter[p]]_(Key!vars)
  BY ControlsAssumption, Apart, KeysStep DEF Sound
<1> QED
  BY <1>1, Invariant, PTL
  DEF ControlsSpec, controlsVars, CounterNeverFalls, Key!CounterNeverFalls

\* What a promotion that succeeded rests on is as it was, but for conflicts that came late.
THEOREM PromotionsUndisturbed == ControlsSpec => []PromotedUndisturbed
<1>1. Sound => PromotedUndisturbed
  BY PromotedSound DEF Sound, PromotedUndisturbed
<1> QED
  BY <1>1, Invariant, PTL

\* Lines reconcile with the versions that were issued, and what has left the draft has
\* the lines that were counted.
THEOREM FiguresKept == ControlsSpec => []FiguresStand
<1>1. Sound => FiguresStand
  BY PapersSound, AccountsSound DEF Sound, FiguresStand
<1> QED
  BY <1>1, Invariant, PTL

\* The history of a Thing is one line of justified states, which ends in the present one.
THEOREM LifecycleJustified == ControlsSpec => []HistoryJustified
<1>1. Sound => HistoryJustified
  BY LineSound DEF Sound, HistoryJustified
<1> QED
  BY <1>1, Invariant, PTL

\* Whatever their timing over the edges of windows and blocks, the attempts the limiter
\* admits in a stretch as long as a window are fewer than twice the limit.
THEOREM AttemptsThrottled == ControlsSpec => []Throttled
<1>1. Sound => Throttled
  BY LimitedSound DEF Sound, Throttled
<1> QED
  BY <1>1, Invariant, PTL

\* Tenants have addresses and accounts of their own, both records of their state agree, and
\* no session is open that is older than an interruption; a day has one primary job and seat
\* of a person, one primary function and line manager of a position, and no position above
\* itself; a person waits for one answer to one question, the outcomes are the ones announced,
\* and what was fulfilled could be used; nobody is allowed to see what they were not cleared
\* for; Things have the fields that their types demand, and the relationships these permit.
\* The histories of the services name what came between a check and its write.
THEOREM ServicesSound == ControlsSpec => []ServiceSound
<1>1. Sound => ServiceSound
  <2> SUFFICES ASSUME Sound PROVE ServiceSound
    OBVIOUS
  <2>1. Ten!ServiceSound
    BY TenancySound DEF Sound
  <2>2. Est!EstablishmentSound
    BY ControlsAssumption, EstablishedSound DEF Sound
  <2>3. Arq!RequestsHonest
    BY HonestSound DEF Sound
  <2>4. Cle!ClearancesHonest
    BY ClearSound DEF Sound
  <2>5. Fld!ThingsWellFormed
    BY FilledSound DEF Sound
  <2>6. Rel!RelationshipsWellFormed
    BY ControlsAssumption, RelatedSound DEF Sound
  <2> QED
    BY <2>1, <2>2, <2>3, <2>4, <2>5, <2>6 DEF ServiceSound
<1> QED
  BY <1>1, Invariant, PTL

\* The types that the proofs above do not need: flags, bounds and histories.
ServicesTyped ==
  /\ KeyTypes /\ ProviderTyped /\ CommandsBounded /\ PromotionBounded /\ RowsBounded
  /\ PapersBounded /\ Acc!TypeOK /\ SignedInSomewhere /\ Thg!TypeOK /\ GrantsTyped
  /\ ambiguous \subseteq security /\ excused \subseteq Things \X SomeFields

\* All values of the service at work have the types their module states, the counters and
\* histories of the model among them, whose bounds the steps keep.
THEOREM TypesCorrect == ControlsSpec => []TypesOK
<1>0. /\ MaxChanges \in Nat /\ MaxCommands \in Nat /\ PromotionTime \in Nat
      /\ MaxLines \in Nat /\ MaxPending \in Nat /\ MaxSequence \in Nat \ {0}
      /\ Arq!RequestsAssumption /\ Key!PasskeysAssumption /\ Chk!CheckpointAssumption
      /\ Lim!LimiterAssumption
  BY ControlsAssumption
<1>1. ControlsInit => ServicesTyped
  BY <1>0, KeyTypesInit, ProviderTypedInit, PromotionBoundedInit, BoundedInit, AccountTypesInit,
     SomewhereInit, ThingTypesInit, GrantsTypedInit, UnseenInit, ExcusedInit
  DEF ControlsInit, ServicesTyped
<1>2. Sound /\ ServicesTyped /\ [ControlsNext]_controlsVars => ServicesTyped'
  <2> SUFFICES ASSUME Sound, ServicesTyped, [ControlsNext]_controlsVars PROVE ServicesTyped'
    OBVIOUS
  <2>1. KeyTypes' /\ ProviderTyped' /\ Acc!TypeOK' /\ Thg!TypeOK'
    BY <1>0, Apart, KeyTypesKept, ProviderTypedKept, AccountTypesKept, ThingTypesKept
    DEF ServicesTyped
  <2>2. CommandsBounded' /\ PromotionBounded'
    BY <1>0, Apart, CommandsBoundedKept, PromotionBoundedKept DEF Sound, ServicesTyped
  <2>3. RowsBounded' /\ PapersBounded'
    BY <1>0, Apart, RowsBoundedKept, PapersBoundedKept DEF Sound, ServicesTyped
  <2>4. SignedInSomewhere' /\ GrantsTyped'
    BY <1>0, Apart, SomewhereKept, GrantsTypedKept DEF Sound, ServicesTyped
  <2>5. ambiguous' \subseteq security' /\ excused' \subseteq Things \X SomeFields
    BY Apart, UnseenKept, ExcusedKept DEF Sound, ServicesTyped
  <2> QED
    BY <2>1, <2>2, <2>3, <2>4, <2>5 DEF ServicesTyped
<1>3. Sound /\ ServicesTyped => TypesOK
  <2> SUFFICES ASSUME Sound, ServicesTyped PROVE TypesOK
    OBVIOUS
  <2>1. TypeOK /\ Chk!TypeOK /\ Lim!TypeOK
    BY <1>0, RecordSound, CheckpointTypes, LimiterTypes DEF Sound
  <2>2. Key!TypeOK /\ Sso!TypeOK
    BY OidcTypes DEF Sound, ServicesTyped, KeyTypes
  <2>3. Pro!TypeOK /\ Com!TypeOK /\ Acc!TypeOK
    BY <1>0, PromotionTypes, PaperTypes DEF Sound, ServicesTyped
  <2>4. Ten!TypeOK /\ Thg!TypeOK /\ Arq!TypeOK
    BY TenantTypes, RequestTypes DEF Sound, ServicesTyped
  <2>5. Est!TypeOK /\ Rel!TypeOK
    BY DEF Sound, Established, Related
  <2>6. Cle!TypeOK /\ Fld!TypeOK
    BY ClearanceTypes, FieldTypes DEF Sound, ServicesTyped
  <2> QED
    BY <2>1, <2>2, <2>3, <2>4, <2>5, <2>6 DEF TypesOK
<1> QED
  BY <1>1, <1>2, <1>3, Invariant, PTL DEF ControlsSpec, controlsVars

=============================================================================
