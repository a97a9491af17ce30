----------------------- MODULE SchemaMigrationsProofs -----------------------
(***************************************************************************)
(* Theorems about the migration runner: type correctness, the checksum     *)
(* lock, and the order of application, for any number of migrations,       *)
(* contents and processes.  A retry marks its row by version whether or    *)
(* not it has claimed it, so the lock is a theorem of the systems in which *)
(* at most one operator retries.                                           *)
(***************************************************************************)
EXTENDS SchemaMigrations, TLAPS

\* A step keeps the types of all variables.
LEMMA TypeStep == TypeOK /\ [Next]_vars => TypeOK'
<1> SUFFICES ASSUME TypeOK, [Next]_vars
             PROVE  TypeOK'
  OBVIOUS
<1> USE MigrationAssumption DEF TypeOK, Versions, Statuses, PCs, Goto, Begin, table, local
<1>1. ASSUME NEW p \in Runners, StartMigrate(p)
      PROVE  TypeOK'
  BY <1>1 DEF StartMigrate
<1>2. ASSUME NEW p \in Runners, StartRetry(p)
      PROVE  TypeOK'
  BY <1>2 DEF StartRetry
<1>3. ASSUME NEW p \in Runners, ScanNew(p)
      PROVE  TypeOK'
  BY <1>3 DEF ScanNew
<1>4. ASSUME NEW p \in Runners, ScanExisting(p)
      PROVE  TypeOK'
  BY <1>4 DEF ScanExisting
<1>5. ASSUME NEW p \in Runners, ScanEnds(p)
      PROVE  TypeOK'
  BY <1>5 DEF ScanEnds
<1>6. ASSUME NEW p \in Runners, InsertApplying(p)
      PROVE  TypeOK'
  <2>1. CASE status[at[p]] = "ABSENT"
    <3>1. at[p] \in Versions /\ digest[p] \in Contents
      BY <1>6 DEF InsertApplying
    <3>2. /\ status' \in [Versions -> Statuses]
          /\ checksum' \in [Versions -> Contents]
      BY <1>6, <2>1, <3>1 DEF InsertApplying
    <3>3. Goto(p, "running")
      BY <1>6, <2>1 DEF InsertApplying
    <3>4. \A q \in Runners : pc'[q] \notin {"idle", "scan"} => at[q] \in Versions
      BY <3>1, <3>3
    <3> QED
      BY <1>6, <3>2, <3>3, <3>4 DEF InsertApplying
  <2>2. CASE status[at[p]] # "ABSENT"
    BY <1>6, <2>2 DEF InsertApplying
  <2> QED
    BY <2>1, <2>2
<1>7. ASSUME NEW p \in Runners, ClaimRetry(p)
      PROVE  TypeOK'
  <2>1. at[p] \in Versions /\ digest[p] \in Contents
    BY <1>7 DEF ClaimRetry
  <2>2. /\ status' \in [Versions -> Statuses]
        /\ checksum' \in [Versions -> Contents]
    BY <1>7, <2>1 DEF ClaimRetry
  <2>3. pc' \in [Runners -> PCs]
    BY <1>7 DEF ClaimRetry
  <2>4. \A q \in Runners : pc'[q] \notin {"idle", "scan"} => at[q] \in Versions
    BY <1>7, <2>1 DEF ClaimRetry
  <2> QED
    BY <1>7, <2>2, <2>3, <2>4 DEF ClaimRetry
<1>8. ASSUME NEW p \in Runners, SqlSucceeds(p)
      PROVE  TypeOK'
  BY <1>8 DEF SqlSucceeds
<1>9. ASSUME NEW p \in Runners, SqlFails(p)
      PROVE  TypeOK'
  BY <1>9 DEF SqlFails
<1>10. ASSUME NEW p \in Runners, MarkApplied(p)
       PROVE  TypeOK'
  <2>1. at[p] \in Versions
    BY <1>10 DEF MarkApplied
  <2>2. CASE cmd[p] = "migrate"
    <3>1. /\ Goto(p, "scan")
          /\ at' = [at EXCEPT ![p] = at[p] + 1]
      BY <1>10, <2>2 DEF MarkApplied
    <3>2. at[p] + 1 \in 1..(N + 1)
      BY <2>1
    <3> QED
      BY <1>10, <3>1, <3>2 DEF MarkApplied
  <2>3. CASE cmd[p] # "migrate"
    BY <1>10, <2>1, <2>3 DEF MarkApplied
  <2> QED
    BY <2>2, <2>3
<1>11. ASSUME NEW p \in Runners, MarkFailed(p)
       PROVE  TypeOK'
  BY <1>11 DEF MarkFailed
<1>12. ASSUME NEW p \in Runners, Crash(p)
       PROVE  TypeOK'
  BY <1>12 DEF Crash
<1>13. ASSUME NEW v \in Versions, EditFile(v)
       PROVE  TypeOK'
  BY <1>13 DEF EditFile
<1>14. CASE UNCHANGED vars
  BY <1>14 DEF vars
<1> QED
  BY <1>1, <1>2, <1>3, <1>4, <1>5, <1>6, <1>7, <1>8, <1>9, <1>10, <1>11,
     <1>12, <1>13, <1>14 DEF Next, Step

(***************************************************************************)
(* The program's variables always hold values of their types; in           *)
(* particular a process past its scan works on a version that exists.      *)
(***************************************************************************)
THEOREM TypeCorrect == Spec => []TypeOK
<1>1. Init => TypeOK
  <2>1. Init => overlap \in BOOLEAN
    BY DEF Init
  <2>2. Init => /\ at \in [Runners -> 1..(N + 1)]
                /\ digest \in [Runners -> Contents]
                /\ edits \in Nat
    BY MigrationAssumption DEF Init, Versions
  <2> QED
    BY <2>1, <2>2 DEF Init, TypeOK, Versions, Statuses, PCs
<1> QED
  BY <1>1, TypeStep, PTL DEF Spec

(***************************************************************************)
(* The checksum lock.  A process that works on a migration owns its row,   *)
(* which says APPLYING with the checksum of what it executes, and no other *)
(* process owns the same row.  Ownership is what makes the UPDATEs that    *)
(* record an outcome, WHERE version = ?, safe.                             *)
(***************************************************************************)
Owned ==
  \A p \in Runners : Applying(p) =>
    status[at[p]] = "APPLYING" /\ checksum[at[p]] = digest[p]

Executed == \A p \in Runners : pc[p] = "succeeded" => ran[at[p]] = {digest[p]}

\* What a retry is about to claim is still FAILED: nobody else retries.
Claimed ==
  \A p \in Runners : pc[p] = "claim" => p \in Retriers /\ status[at[p]] = "FAILED"

OneRetrier == \A p, q \in Retriers : p = q

Lock == Owned /\ ExclusiveApplier /\ Executed /\ AppliedIsWhatRan /\ Claimed

\* Initially nothing is recorded and no process runs.
LEMMA LockInit == Init => Lock
BY DEF Init, Lock, Owned, ExclusiveApplier, Executed, AppliedIsWhatRan, Claimed, Applying

\* Recording a success: the process owns the row, so the row's checksum is that
\* of the SQL that ran, and nobody else's ownership is touched.
LEMMA LockMarkApplied ==
  ASSUME TypeOK, Lock, NEW p \in Runners, MarkApplied(p)
  PROVE  Lock'
<1>1. at[p] \in Versions
  BY DEF MarkApplied, TypeOK
<1>2. ran[at[p]] = {checksum[at[p]]}
  BY DEF MarkApplied, Lock, Owned, Executed, Applying
<1>3. /\ status' = [status EXCEPT ![at[p]] = "APPLIED"]
      /\ UNCHANGED <<checksum, ran, digest>>
  BY DEF MarkApplied
<1>4. /\ pc' \in [Runners -> PCs] /\ pc'[p] \in {"scan", "idle"}
      /\ \A q \in Runners \ {p} : pc'[q] = pc[q] /\ at'[q] = at[q]
  <2>1. CASE cmd[p] = "migrate"
    BY <2>1 DEF MarkApplied, Goto, TypeOK, PCs
  <2>2. CASE cmd[p] # "migrate"
    BY <2>2 DEF MarkApplied, Goto, TypeOK, PCs
  <2> QED
    BY <2>1, <2>2
<1>5. \A q \in Runners : Applying(q)' => q # p /\ Applying(q)
  BY <1>4 DEF Applying
<1>6. \A q \in Runners : Applying(q)' => at'[q] # at[p]
  BY <1>4, <1>5 DEF MarkApplied, Lock, ExclusiveApplier, Applying
<1>7. Owned'
  BY <1>1, <1>3, <1>4, <1>5, <1>6 DEF Lock, Owned, TypeOK
<1>8. ExclusiveApplier'
  BY <1>4, <1>5 DEF Lock, ExclusiveApplier
<1>9. Executed'
  BY <1>3, <1>4, <1>5 DEF Lock, Executed
<1>10. AppliedIsWhatRan'
  BY <1>1, <1>2, <1>3 DEF Lock, AppliedIsWhatRan, TypeOK, Versions
<1>11. Claimed'
  <2>1. status[at[p]] = "APPLYING"
    BY DEF MarkApplied, Lock, Owned, Applying
  <2>2. \A q \in Runners : pc'[q] = "claim" => q # p
    BY <1>4
  <2> QED
    BY <1>1, <1>3, <1>4, <2>1, <2>2 DEF Lock, Claimed, TypeOK
<1> QED
  BY <1>7, <1>8, <1>9, <1>10, <1>11 DEF Lock

\* Every step keeps the lock.
LEMMA LockStep ==
  ASSUME OneRetrier, TypeOK, Lock, [Next]_vars
  PROVE  Lock'
<1> USE DEF TypeOK, Versions, Statuses, PCs, Goto, Begin, table, local, Applying,
            Lock, Owned, ExclusiveApplier, Executed, AppliedIsWhatRan, Claimed
<1>1. ASSUME NEW p \in Runners, StartMigrate(p)
      PROVE  Lock'
  BY <1>1 DEF StartMigrate
<1>2. ASSUME NEW p \in Runners, StartRetry(p)
      PROVE  Lock'
  <2>1. PICK v \in Versions : /\ status[v] = "FAILED"
                              /\ at' = [at EXCEPT ![p] = v]
                              /\ digest' = [digest EXCEPT ![p] = repo[v]]
    BY <1>2 DEF StartRetry
  <2>2. /\ p \in Retriers /\ Goto(p, "claim")
        /\ UNCHANGED <<status, checksum, ran>>
    BY <1>2 DEF StartRetry
  <2>3. \A q \in Runners : Applying(q)' => q # p
    BY <2>2
  <2> QED
    BY <2>1, <2>2, <2>3
<1>3. ASSUME NEW p \in Runners, ScanNew(p)
      PROVE  Lock'
  BY <1>3 DEF ScanNew
<1>4. ASSUME NEW p \in Runners, ScanExisting(p)
      PROVE  Lock'
  BY <1>4 DEF ScanExisting
<1>5. ASSUME NEW p \in Runners, ScanEnds(p)
      PROVE  Lock'
  BY <1>5 DEF ScanEnds
<1>6. ASSUME NEW p \in Runners, InsertApplying(p)
      PROVE  Lock'
  <2>1. CASE status[at[p]] = "ABSENT"
    <3>1. at[p] \in Versions
      BY <1>6 DEF InsertApplying
    <3>2. /\ status' = [status EXCEPT ![at[p]] = "APPLYING"]
          /\ checksum' = [checksum EXCEPT ![at[p]] = digest[p]]
          /\ Goto(p, "running")
          /\ UNCHANGED <<ran, at, digest>>
      BY <1>6, <2>1 DEF InsertApplying
    <3>3. \A q \in Runners : Applying(q) => at[q] # at[p]
      BY <2>1
    <3>4. Owned' /\ ExclusiveApplier'
      BY <3>1, <3>2, <3>3
    <3>5. Executed' /\ AppliedIsWhatRan'
      BY <3>1, <3>2
    <3>6. \A q \in Runners : pc'[q] = "claim" => pc[q] = "claim" /\ at[q] # at[p]
      BY <3>2, <2>1
    <3>7. Claimed'
      BY <3>1, <3>2, <3>6
    <3> QED
      BY <3>4, <3>5, <3>7
  <2>2. CASE status[at[p]] # "ABSENT"
    <3>1. Goto(p, "idle") /\ UNCHANGED <<status, checksum, ran, at, digest>>
      BY <1>6, <2>2 DEF InsertApplying
    <3>2. Applying(p)' = FALSE /\ \A q \in Runners \ {p} : pc'[q] = pc[q]
      BY <3>1
    <3> QED
      BY <3>1, <3>2
  <2> QED
    BY <2>1, <2>2
<1>7. ASSUME NEW p \in Runners, ClaimRetry(p)
      PROVE  Lock'
  <2>1. /\ at[p] \in Versions /\ status[at[p]] = "FAILED"
        /\ \A q \in Runners : pc[q] = "claim" => q = p
    <3>1. pc[p] = "claim"
      BY <1>7 DEF ClaimRetry
    <3>2. /\ at[p] \in Versions /\ status[at[p]] = "FAILED"
          /\ p \in Retriers /\ \A q \in Runners : pc[q] = "claim" => q \in Retriers
      BY <3>1
    <3> QED
      BY <3>2 DEF OneRetrier
  <2>2. /\ status' = [status EXCEPT ![at[p]] = "APPLYING"]
        /\ checksum' = [checksum EXCEPT ![at[p]] = digest[p]]
        /\ Goto(p, "running")
        /\ UNCHANGED <<ran, at, digest>>
    BY <1>7, <2>1 DEF ClaimRetry
  <2>3. \A q \in Runners : Applying(q) => at[q] # at[p]
    BY <2>1
  <2>4. Owned' /\ ExclusiveApplier'
    BY <2>1, <2>2, <2>3
  <2>5. Executed' /\ AppliedIsWhatRan'
    BY <2>1, <2>2
  <2>6. \A q \in Runners : pc'[q] # "claim"
    BY <2>1, <2>2
  <2> QED
    BY <2>4, <2>5, <2>6
<1>8. ASSUME NEW p \in Runners, SqlSucceeds(p)
      PROVE  Lock'
  BY <1>8 DEF SqlSucceeds
<1>9. ASSUME NEW p \in Runners, SqlFails(p)
      PROVE  Lock'
  BY <1>9 DEF SqlFails
<1>10. ASSUME NEW p \in Runners, MarkApplied(p)
       PROVE  Lock'
  BY <1>10, LockMarkApplied
<1>11. ASSUME NEW p \in Runners, MarkFailed(p)
       PROVE  Lock'
  BY <1>11 DEF MarkFailed
<1>12. ASSUME NEW p \in Runners, Crash(p)
       PROVE  Lock'
  BY <1>12 DEF Crash
<1>13. ASSUME NEW v \in Versions, EditFile(v)
       PROVE  Lock'
  BY <1>13 DEF EditFile
<1>14. CASE UNCHANGED vars
  BY <1>14 DEF vars
<1> QED
  BY <1>1, <1>2, <1>3, <1>4, <1>5, <1>6, <1>7, <1>8, <1>9, <1>10, <1>11,
     <1>12, <1>13, <1>14 DEF Next, Step

(***************************************************************************)
(* Any number of concurrent `db:migrate` processes, one operator who       *)
(* retries, crashes and edits of files: no migration is executed by two    *)
(* of them, ...                                                            *)
(***************************************************************************)
THEOREM LockHolds ==
  ASSUME OneRetrier
  PROVE  Spec => []ExclusiveApplier
<1>1. TypeOK /\ Lock /\ [Next]_vars => Lock'
  BY LockStep
<1>2. Lock => ExclusiveApplier
  BY DEF Lock
<1> QED
  BY <1>1, <1>2, LockInit, TypeCorrect, PTL DEF Spec

(***************************************************************************)
(* ... and an APPLIED row carries the checksum of the SQL that completed.  *)
(***************************************************************************)
THEOREM Truthful ==
  ASSUME OneRetrier
  PROVE  Spec => []AppliedIsWhatRan
<1>1. TypeOK /\ Lock /\ [Next]_vars => Lock'
  BY LockStep
<1>2. Lock => AppliedIsWhatRan
  BY DEF Lock
<1> QED
  BY <1>1, <1>2, LockInit, TypeCorrect, PTL DEF Spec

\* One step leaves an APPLIED row as it is: whoever records an outcome owns an
\* APPLYING row, and an INSERT meets the primary key.
LEMMA FinalStep ==
  ASSUME OneRetrier, TypeOK, Lock, [Next]_vars,
         NEW v \in Versions, status[v] = "APPLIED"
  PROVE  status'[v] = "APPLIED" /\ checksum'[v] = checksum[v]
<1> DEFINE Kept == status'[v] = "APPLIED" /\ checksum'[v] = checksum[v]
<1> USE DEF Kept
<1>1. ASSUME NEW p \in Runners, InsertApplying(p)
      PROVE  Kept
  <2>1. CASE status[at[p]] = "ABSENT"
    BY <1>1, <2>1 DEF InsertApplying, TypeOK
  <2>2. CASE status[at[p]] # "ABSENT"
    BY <1>1, <2>2 DEF InsertApplying, table
  <2> QED
    BY <2>1, <2>2
<1>2. ASSUME NEW p \in Runners, MarkApplied(p)
      PROVE  Kept
  BY <1>2 DEF MarkApplied, TypeOK
<1>3. ASSUME NEW p \in Runners, MarkFailed(p)
      PROVE  Kept
  BY <1>3 DEF MarkFailed, TypeOK, Lock, Owned, Applying
<1>4. ASSUME NEW p \in Runners,
             \/ StartMigrate(p) \/ ScanNew(p) \/ ScanExisting(p) \/ ScanEnds(p)
             \/ SqlSucceeds(p) \/ SqlFails(p) \/ Crash(p)
      PROVE  Kept
  BY <1>4 DEF StartMigrate, ScanNew, ScanExisting, ScanEnds, SqlSucceeds, SqlFails,
              Crash, table
<1>5. ASSUME NEW p \in Runners, StartRetry(p) \/ ClaimRetry(p)
      PROVE  Kept
  BY <1>5 DEF StartRetry, ClaimRetry, Lock, Claimed, TypeOK, table
<1>6. ASSUME NEW w \in Versions, EditFile(w)
      PROVE  Kept
  BY <1>6 DEF EditFile, table
<1>7. CASE UNCHANGED vars
  BY <1>7 DEF vars
<1> QED
  BY <1>1, <1>2, <1>3, <1>4, <1>5, <1>6, <1>7 DEF Next, Step

(***************************************************************************)
(* ... and an APPLIED row is final, in status and in checksum: what        *)
(* README.md:162 calls checksum-locked.                                    *)
(***************************************************************************)
THEOREM Locked ==
  ASSUME OneRetrier
  PROVE  Spec => AppliedIsFinal
<1>1. Init => Lock
  BY LockInit
<1>2. TypeOK /\ Lock /\ [Next]_vars => Lock'
  BY LockStep
<1>3. TypeOK /\ Lock /\ [Next]_vars
        => [\A v \in Versions : status[v] = "APPLIED"
              => status'[v] = "APPLIED" /\ checksum'[v] = checksum[v]]_vars
  BY FinalStep
<1> QED
  BY <1>1, <1>2, <1>3, TypeCorrect, PTL DEF Spec, AppliedIsFinal

(***************************************************************************)
(* The order of application.  Where commands do not overlap, the rows of   *)
(* the table are a run of APPLIED ones with at most one dirty row after    *)
(* them, which is that of the command under way, if there is one; a        *)
(* `migrate` that is scanning has none.                                    *)
(***************************************************************************)
Before(v) == \A u \in Versions : u < v => status[u] = "APPLIED"

Alone == \A p, q \in Runners : pc[p] # "idle" /\ pc[q] # "idle" => p = q

InOrder == \A v \in Versions : status[v] # "ABSENT" => Before(v)

Scanned == \A p \in Runners : pc[p] \in {"scan", "insert"} => ~Dirty /\ Before(at[p])

Held ==
  \A p \in Runners : /\ Applying(p) => status[at[p]] = "APPLYING"
                     /\ pc[p] = "claim" => status[at[p]] = "FAILED"

Order == ~overlap => Alone /\ InOrder /\ Scanned /\ Held

\* Initially there are no rows and no commands.
LEMMA OrderInit == Init => Order
BY DEF Init, Order, Alone, InOrder, Scanned, Held, Applying

\* The only recorded row that is not APPLIED is the last one.
LEMMA DirtyIsLast ==
  ASSUME InOrder, NEW v \in Versions, status[v] # "APPLIED",
         NEW w \in Versions, w > v
  PROVE  status[w] = "ABSENT"
BY DEF InOrder, Before, Versions

\* A step of a command that is under way alone keeps the order if it keeps the
\* table and its own place.
LEMMA OrderQuiet ==
  ASSUME TypeOK, Alone, InOrder, Scanned, Held,
         NEW p \in Runners, pc[p] # "idle", NEW l \in PCs, Goto(p, l),
         UNCHANGED status,
         at'[p] = at[p], \A q \in Runners \ {p} : at'[q] = at[q],
         \/ l = "idle"
         \/ pc[p] = "scan" /\ l = "insert"
         \/ Applying(p) /\ l \in {"succeeded", "failed"}
  PROVE  Alone' /\ InOrder' /\ Scanned' /\ Held'
<1>1. /\ pc'[p] = l
      /\ \A q \in Runners \ {p} : pc[q] = "idle" /\ pc'[q] = "idle"
  BY DEF Alone, Goto, TypeOK
<1>2. Alone' /\ InOrder'
  BY <1>1 DEF Alone, InOrder, Before
<1>3. Scanned'
  BY <1>1 DEF Scanned, Before, Dirty, Applying
<1>4. Held'
  BY <1>1 DEF Held, Applying
<1> QED
  BY <1>2, <1>3, <1>4

\* A step of a command that is under way alone, and that moves the last row of
\* the table, to APPLIED, APPLYING or FAILED, keeps the rows in order.
LEMMA RowInOrder ==
  ASSUME TypeOK, InOrder, NEW v \in Versions, Before(v), status[v] # "APPLIED",
         NEW s \in Statuses, status' = [status EXCEPT ![v] = s]
  PROVE  /\ InOrder' /\ Before(v)'
         /\ \A w \in Versions : w > v => status'[w] = "ABSENT"
<1>1. /\ status'[v] = s
      /\ \A w \in Versions \ {v} : status'[w] = status[w]
  BY DEF TypeOK
<1>2. \A w \in Versions : w > v => status'[w] = "ABSENT"
  BY <1>1, DirtyIsLast DEF Versions
<1>3. Before(v)'
  BY <1>1 DEF Before, Versions
<1>4. ASSUME NEW w \in Versions, status'[w] # "ABSENT"
      PROVE  Before(w)'
  <2>1. w <= v
    BY <1>2, <1>4 DEF Versions
  <2> QED
    BY <1>3, <2>1 DEF Before, Versions
<1> QED
  BY <1>2, <1>3, <1>4 DEF InOrder

\* Once commands have overlapped, they have.
LEMMA OverlapStays == [Next]_vars /\ overlap => overlap'
<1> SUFFICES ASSUME [Next]_vars, overlap
             PROVE  overlap'
  OBVIOUS
<1>1. ASSUME NEW p \in Runners, StartMigrate(p) \/ StartRetry(p)
      PROVE  overlap'
  BY <1>1 DEF StartMigrate, StartRetry, Begin
<1>2. ASSUME NEW p \in Runners, Step(p) \/ Crash(p)
      PROVE  overlap'
  BY <1>2 DEF Step, ScanNew, ScanExisting, ScanEnds, InsertApplying, ClaimRetry,
              SqlSucceeds, SqlFails, MarkApplied, MarkFailed, Crash
<1>3. ASSUME NEW v \in Versions, EditFile(v)
      PROVE  overlap'
  BY <1>3 DEF EditFile
<1>4. CASE UNCHANGED vars
  BY <1>4 DEF vars
<1> QED
  BY <1>1, <1>2, <1>3, <1>4 DEF Next

\* Every step keeps the order.
LEMMA OrderStep == TypeOK /\ Order /\ [Next]_vars => Order'
<1> SUFFICES ASSUME TypeOK, Order, [Next]_vars, ~overlap'
             PROVE  Alone' /\ InOrder' /\ Scanned' /\ Held'
  BY DEF Order
<1>a. Alone /\ InOrder /\ Scanned /\ Held
  BY OverlapStays DEF Order
<1> DEFINE Kept == Alone' /\ InOrder' /\ Scanned' /\ Held'
<1>1. ASSUME NEW p \in Runners, StartMigrate(p)
      PROVE  Kept
  <2>1. \A q \in Runners : pc[q] = "idle"
    BY <1>1 DEF StartMigrate, Begin
  <2>2. /\ pc' = [pc EXCEPT ![p] = "scan"] /\ at' = [at EXCEPT ![p] = 1]
        /\ UNCHANGED status /\ ~Dirty
    BY <1>1 DEF StartMigrate, Goto, table
  <2>3. /\ pc'[p] = "scan" /\ at'[p] = 1
        /\ \A q \in Runners \ {p} : pc'[q] = "idle"
    BY <2>1, <2>2 DEF TypeOK
  <2>4. Alone' /\ InOrder'
    BY <1>a, <2>2, <2>3 DEF Alone, InOrder, Before
  <2>5. Scanned' /\ Held'
    BY <2>2, <2>3, MigrationAssumption
       DEF Scanned, Held, Before, Dirty, Applying, Versions
  <2> QED
    BY <2>4, <2>5
<1>2. ASSUME NEW p \in Runners, StartRetry(p)
      PROVE  Kept
  <2>1. \A q \in Runners : pc[q] = "idle"
    BY <1>2 DEF StartRetry, Begin
  <2>2. PICK v \in Versions : status[v] = "FAILED" /\ at' = [at EXCEPT ![p] = v]
    BY <1>2 DEF StartRetry
  <2>3. pc' = [pc EXCEPT ![p] = "claim"] /\ UNCHANGED status
    BY <1>2 DEF StartRetry, Goto, table
  <2>4. /\ pc'[p] = "claim" /\ at'[p] = v
        /\ \A q \in Runners \ {p} : pc'[q] = "idle"
    BY <2>1, <2>2, <2>3 DEF TypeOK
  <2>5. Alone' /\ InOrder'
    BY <1>a, <2>3, <2>4 DEF Alone, InOrder, Before
  <2>6. Scanned' /\ Held'
    BY <2>2, <2>3, <2>4 DEF Scanned, Held, Applying
  <2> QED
    BY <2>5, <2>6
<1>3. ASSUME NEW p \in Runners,
             ScanNew(p) \/ ScanEnds(p) \/ SqlSucceeds(p) \/ SqlFails(p) \/ Crash(p)
      PROVE  Kept
  <2>1. CASE ScanNew(p)
    BY <1>a, <2>1, OrderQuiet DEF ScanNew, table, PCs
  <2>2. CASE ScanEnds(p)
    BY <1>a, <2>2, OrderQuiet DEF ScanEnds, table, local, PCs
  <2>3. CASE SqlSucceeds(p)
    BY <1>a, <2>3, OrderQuiet DEF SqlSucceeds, table, local, PCs, Applying
  <2>4. CASE SqlFails(p)
    BY <1>a, <2>4, OrderQuiet DEF SqlFails, table, local, PCs, Applying
  <2>5. CASE Crash(p)
    BY <1>a, <2>5, OrderQuiet DEF Crash, table, local, PCs
  <2> QED
    BY <1>3, <2>1, <2>2, <2>3, <2>4, <2>5
<1>4. ASSUME NEW p \in Runners, ScanExisting(p)
      PROVE  Kept
  <2>1. /\ pc[p] = "scan" /\ at[p] \in Versions /\ status[at[p]] # "ABSENT"
        /\ at' = [at EXCEPT ![p] = at[p] + 1] /\ UNCHANGED <<status, pc>>
    BY <1>4 DEF ScanExisting, table
  <2>2. at'[p] = at[p] + 1 /\ \A q \in Runners \ {p} : at'[q] = at[q] /\ pc[q] = "idle"
    BY <1>a, <2>1 DEF TypeOK, Alone
  <2>3. status[at[p]] = "APPLIED"
    BY <1>a, <2>1 DEF Scanned, Dirty, TypeOK, Statuses
  <2>4. Before(at[p]) /\ ~Dirty
    BY <1>a, <2>1 DEF Scanned
  <2>5. Before(at[p] + 1)
    BY <2>1, <2>3, <2>4 DEF Before, Versions
  <2>6. Alone' /\ InOrder'
    BY <1>a, <2>1 DEF Alone, InOrder, Before
  <2>7. Scanned' /\ Held'
    BY <2>1, <2>2, <2>4, <2>5 DEF Scanned, Held, Before, Dirty, Applying
  <2> QED
    BY <2>6, <2>7
<1>5. ASSUME NEW p \in Runners, InsertApplying(p) \/ ClaimRetry(p)
      PROVE  Kept
  <2>1. /\ pc[p] \in {"insert", "claim"} /\ at[p] \in Versions
        /\ UNCHANGED at
        /\ \A q \in Runners \ {p} : pc[q] = "idle"
    BY <1>a, <1>5 DEF InsertApplying, ClaimRetry, local, TypeOK, Alone
  <2>2. Before(at[p])
    BY <1>a, <2>1 DEF Scanned, Held, InOrder
  <2>3. CASE InsertApplying(p) /\ status[at[p]] # "ABSENT"
    BY <1>a, <2>1, <2>3, OrderQuiet DEF InsertApplying, table, local, PCs
  <2>4. CASE ClaimRetry(p) \/ status[at[p]] = "ABSENT"
    <3>1. /\ status' = [status EXCEPT ![at[p]] = "APPLYING"]
          /\ pc' = [pc EXCEPT ![p] = "running"]
          /\ status[at[p]] # "APPLIED"
      BY <1>a, <1>5, <2>1, <2>4 DEF InsertApplying, ClaimRetry, Goto, Held
    <3>2. InOrder'
      BY <1>a, <2>1, <2>2, <3>1, RowInOrder DEF Statuses
    <3>3. pc'[p] = "running" /\ \A q \in Runners \ {p} : pc'[q] = "idle"
      BY <2>1, <3>1 DEF TypeOK
    <3>4. status'[at[p]] = "APPLYING"
      BY <2>1, <3>1 DEF TypeOK
    <3>5. Alone' /\ Scanned' /\ Held'
      BY <2>1, <3>3, <3>4 DEF Alone, Scanned, Held, Applying
    <3> QED
      BY <3>2, <3>5
  <2> QED
    BY <1>5, <2>3, <2>4
<1>6. ASSUME NEW p \in Runners, MarkApplied(p) \/ MarkFailed(p)
      PROVE  Kept
  <2>1. /\ pc[p] \in {"succeeded", "failed"} /\ at[p] \in Versions
        /\ \A q \in Runners \ {p} : pc[q] = "idle"
    BY <1>a, <1>6 DEF MarkApplied, MarkFailed, TypeOK, Alone
  <2>2. status[at[p]] = "APPLYING" /\ Before(at[p])
    BY <1>a, <2>1 DEF Held, InOrder, Applying
  <2>3. PICK s \in {"APPLIED", "FAILED"} :
          status' = [status EXCEPT ![at[p]] = s] /\ (s = "FAILED" => MarkFailed(p))
    BY <1>6 DEF MarkApplied, MarkFailed
  <2>4. /\ InOrder' /\ \A u \in Versions : u < at[p] => status'[u] = "APPLIED"
        /\ \A w \in Versions : w > at[p] => status'[w] = "ABSENT"
    <3>1. s \in Statuses /\ status[at[p]] # "APPLIED"
      BY <2>2 DEF Statuses
    <3> QED
      BY <1>a, <2>1, <2>2, <2>3, <3>1, RowInOrder DEF Before
  <2>5. \A q \in Runners \ {p} : pc'[q] = "idle" /\ at'[q] = at[q]
    BY <1>6, <2>1 DEF MarkApplied, MarkFailed, Goto, local, TypeOK
  <2>6. CASE MarkApplied(p) /\ cmd[p] = "migrate"
    <3>1. pc'[p] = "scan" /\ at'[p] = at[p] + 1 /\ status'[at[p]] = "APPLIED"
      BY <2>1, <2>6 DEF MarkApplied, Goto, TypeOK
    <3>2. \A w \in Versions : w < at[p] + 1 => status'[w] = "APPLIED"
      BY <2>1, <2>4, <3>1 DEF Before, Versions
    <3>3. \A w \in Versions : status'[w] \in {"APPLIED", "ABSENT"}
      BY <2>1, <2>4, <3>2 DEF Versions
    <3>4. Alone' /\ Scanned' /\ Held'
      BY <2>5, <3>1, <3>2, <3>3 DEF Alone, Scanned, Held, Dirty, Before, Applying
    <3> QED
      BY <2>4, <3>4
  <2>7. CASE MarkFailed(p) \/ cmd[p] # "migrate"
    <3>1. pc'[p] = "idle"
      BY <1>6, <2>7 DEF MarkApplied, MarkFailed, Goto, TypeOK
    <3>2. Alone' /\ Scanned' /\ Held'
      BY <2>5, <3>1 DEF Alone, Scanned, Held, Applying
    <3> QED
      BY <2>4, <3>2
  <2> QED
    BY <1>6, <2>6, <2>7
<1>7. ASSUME NEW v \in Versions, EditFile(v)
      PROVE  Kept
  BY <1>a, <1>7 DEF EditFile, table, local, Alone, InOrder, Scanned, Held, Before, Dirty, Applying
<1>8. CASE UNCHANGED vars
  BY <1>a, <1>8 DEF vars, Alone, InOrder, Scanned, Held, Before, Dirty, Applying
<1> QED
  BY <1>1, <1>2, <1>3, <1>4, <1>5, <1>6, <1>7, <1>8 DEF Next, Step

(***************************************************************************)
(* Whatever crashed, failed, was retried or edited: as long as commands    *)
(* have not overlapped, a migration is executed only when every earlier    *)
(* one is APPLIED.                                                         *)
(***************************************************************************)
THEOREM Ordered == Spec => []OrderedApplication
<1>1. TypeOK /\ Order => OrderedApplication
  <2> SUFFICES ASSUME TypeOK, Order, ~overlap, NEW p \in Runners, pc[p] = "running"
               PROVE  Before(at[p])
    BY DEF OrderedApplication, Before
  <2>1. at[p] \in Versions /\ status[at[p]] # "ABSENT"
    BY DEF TypeOK, Order, Held, Applying
  <2> QED
    BY <2>1 DEF Order, InOrder
<1> QED
  BY <1>1, OrderInit, OrderStep, TypeCorrect, PTL DEF Spec
=============================================================================
