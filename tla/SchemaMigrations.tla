-------------------------- MODULE SchemaMigrations --------------------------
(***************************************************************************)
(* The database migration runner (packages/persistence/src/migrations.ts). *)
(* `migrate` walks the repository's numbered SQL files and records each in *)
(* kernel_schema_migrations; `retryFailedMigration` is the operator's way  *)
(* out of a FAILED row.  Nothing locks the table between two statements,   *)
(* so every statement is a step of its own and runs of several processes   *)
(* interleave; a process may die between any two of them.                  *)
(***************************************************************************)
EXTENDS Naturals

CONSTANTS
  N,          \* the repository holds migrations 1..N, in file-name order
  Runners,    \* processes that may run `db:migrate` or `db:retry-failed`
  Retriers,   \* the runners an operator uses for `db:retry-failed`
  Contents,   \* versions of a file's SQL, each standing for its checksum
  MaxEdits    \* bound: corrections made to repository files

ASSUME MigrationAssumption ==
  /\ N \in Nat \ {0}
  /\ Retriers \subseteq Runners
  /\ Contents # {}
  /\ MaxEdits \in Nat

VARIABLES
  repo,     \* repo[v]: the SQL file of migration v as it now is
  status,   \* status[v], checksum[v]: its row of kernel_schema_migrations
  checksum,
  ran,      \* history: the content whose SQL last completed for v, or {}
  pc,       \* pc[p]: where process p is, running
  cmd,      \* command cmd[p] on
  at,       \* migration at[p], of which it has read
  digest,   \* the content digest[p]
  overlap,  \* history: two commands have been under way at once
  edits

vars == <<repo, status, checksum, ran, pc, cmd, at, digest, overlap, edits>>

Versions == 1..N
Statuses == {"ABSENT", "APPLYING", "APPLIED", "FAILED"}
PCs == {"idle", "scan", "insert", "claim", "running", "succeeded", "failed"}

TypeOK ==
  /\ repo \in [Versions -> Contents]
  /\ status \in [Versions -> Statuses]
  /\ checksum \in [Versions -> Contents]
  /\ ran \in [Versions -> SUBSET Contents]
  /\ pc \in [Runners -> PCs]
  /\ cmd \in [Runners -> {"migrate", "retry"}]
  /\ at \in [Runners -> 1..(N + 1)]
  /\ digest \in [Runners -> Contents]
  /\ overlap \in BOOLEAN /\ edits \in Nat
  /\ \A p \in Runners : pc[p] \notin {"idle", "scan"} => at[p] \in Versions

Init ==
  /\ repo \in [Versions -> Contents]
  /\ status = [v \in Versions |-> "ABSENT"]
  /\ checksum = repo
  /\ ran = [v \in Versions |-> {}]
  /\ pc = [p \in Runners |-> "idle"]
  /\ cmd = [p \in Runners |-> "migrate"]
  /\ at = [p \in Runners |-> 1]
  /\ digest = [p \in Runners |-> repo[1]]
  /\ overlap = FALSE /\ edits = 0

table == <<status, checksum>>
local == <<cmd, at, digest>>

Goto(p, l) == pc' = [pc EXCEPT ![p] = l]

Begin(p, command) ==
  /\ pc[p] = "idle"
  /\ cmd' = [cmd EXCEPT ![p] = command]
  /\ overlap' = (overlap \/ \E q \in Runners : pc[q] # "idle")

(***************************************************************************)
(* migrate()                                                               *)
(***************************************************************************)
\* Mutant: only a migration in progress refuses the run.
DirtyIgnoresFailed == \E v \in Versions : status[v] = "APPLYING"

\* The opening SELECT: any row that is not APPLIED.
Dirty == \E v \in Versions : status[v] \in {"APPLYING", "FAILED"}

\* A dirty row refuses the whole run.
StartMigrate(p) ==
  /\ Begin(p, "migrate")
  /\ ~Dirty
  /\ Goto(p, "scan")
  /\ at' = [at EXCEPT ![p] = 1]
  /\ UNCHANGED <<repo, table, ran, digest, edits>>

\* Read file at[p] and its row.  No row: go on to the INSERT.
ScanNew(p) ==
  /\ pc[p] = "scan" /\ at[p] \in Versions
  /\ status[at[p]] = "ABSENT"
  /\ Goto(p, "insert")
  /\ digest' = [digest EXCEPT ![p] = repo[at[p]]]
  /\ UNCHANGED <<repo, table, ran, cmd, at, overlap, edits>>

\* A row with this checksum is passed over, whatever its status.
ScanExisting(p) ==
  /\ pc[p] = "scan" /\ at[p] \in Versions
  /\ status[at[p]] # "ABSENT" /\ checksum[at[p]] = repo[at[p]]
  /\ at' = [at EXCEPT ![p] = @ + 1]
  /\ UNCHANGED <<repo, table, ran, pc, cmd, digest, overlap, edits>>

\* Another checksum refuses; past the last file the run is complete.
ScanEnds(p) ==
  /\ pc[p] = "scan"
  /\ at[p] \in Versions =>
       status[at[p]] # "ABSENT" /\ checksum[at[p]] # repo[at[p]]
  /\ Goto(p, "idle")
  /\ UNCHANGED <<repo, table, ran, local, overlap, edits>>

\* Mutant: the INSERT becomes an upsert.
InsertApplyingUpsert(p) ==
  /\ pc[p] = "insert"
  /\ status' = [status EXCEPT ![at[p]] = "APPLYING"]
  /\ checksum' = [checksum EXCEPT ![at[p]] = digest[p]]
  /\ Goto(p, "running")
  /\ UNCHANGED <<repo, ran, local, overlap, edits>>

\* The primary key on version lets one INSERT through; the other run throws.
InsertApplying(p) ==
  /\ pc[p] = "insert"
  /\ IF status[at[p]] = "ABSENT"
     THEN /\ status' = [status EXCEPT ![at[p]] = "APPLYING"]
          /\ checksum' = [checksum EXCEPT ![at[p]] = digest[p]]
          /\ Goto(p, "running")
     ELSE Goto(p, "idle") /\ UNCHANGED table
  /\ UNCHANGED <<repo, ran, local, overlap, edits>>

(***************************************************************************)
(* retryFailedMigration(version)                                           *)
(***************************************************************************)
\* Mutant: any recorded migration may be named.
StartRetryAny(p) ==
  /\ p \in Retriers
  /\ Begin(p, "retry")
  /\ \E v \in Versions :
       /\ status[v] # "ABSENT"
       /\ at' = [at EXCEPT ![p] = v]
       /\ digest' = [digest EXCEPT ![p] = repo[v]]
  /\ Goto(p, "claim")
  /\ UNCHANGED <<repo, table, ran, edits>>

\* The operator names a version, or there is only one FAILED row.
StartRetry(p) ==
  /\ p \in Retriers
  /\ Begin(p, "retry")
  /\ \E v \in Versions :
       /\ status[v] = "FAILED"
       /\ at' = [at EXCEPT ![p] = v]
       /\ digest' = [digest EXCEPT ![p] = repo[v]]
  /\ Goto(p, "claim")
  /\ UNCHANGED <<repo, table, ran, edits>>

\* Mutant: the corrected file's checksum is not recorded.
ClaimRetryKeepsChecksum(p) ==
  /\ pc[p] = "claim"
  /\ IF status[at[p]] = "FAILED"
     THEN status' = [status EXCEPT ![at[p]] = "APPLYING"]
     ELSE UNCHANGED status
  /\ Goto(p, "running")
  /\ UNCHANGED <<repo, checksum, ran, local, overlap, edits>>

\* UPDATE ... WHERE status = 'FAILED'; affectedRows is not looked at.
ClaimRetry(p) ==
  /\ pc[p] = "claim"
  /\ IF status[at[p]] = "FAILED"
     THEN /\ status' = [status EXCEPT ![at[p]] = "APPLYING"]
          /\ checksum' = [checksum EXCEPT ![at[p]] = digest[p]]
     ELSE UNCHANGED table
  /\ Goto(p, "running")
  /\ UNCHANGED <<repo, ran, local, overlap, edits>>

(***************************************************************************)
(* Both commands: execute the SQL, then record the outcome by version only *)
(***************************************************************************)
SqlSucceeds(p) ==
  /\ pc[p] = "running"
  /\ ran' = [ran EXCEPT ![at[p]] = {digest[p]}]
  /\ Goto(p, "succeeded")
  /\ UNCHANGED <<repo, table, local, overlap, edits>>

\* The SQL, or the UPDATE that would record its success, throws.
SqlFails(p) ==
  /\ pc[p] \in {"running", "succeeded"}
  /\ Goto(p, "failed")
  /\ UNCHANGED <<repo, table, ran, local, overlap, edits>>

\* A migration of `migrate` is followed by the next; a retry is alone.
MarkApplied(p) ==
  /\ pc[p] = "succeeded"
  /\ status' = [status EXCEPT ![at[p]] = "APPLIED"]
  /\ IF cmd[p] = "migrate"
     THEN Goto(p, "scan") /\ at' = [at EXCEPT ![p] = @ + 1]
     ELSE Goto(p, "idle") /\ UNCHANGED at
  /\ UNCHANGED <<repo, checksum, ran, cmd, digest, overlap, edits>>

\* Mutant: the catch block goes round the loop again instead of rethrowing.
MarkFailedSpins(p) ==
  /\ pc[p] = "failed"
  /\ status' = [status EXCEPT ![at[p]] = "FAILED"]
  /\ Goto(p, "running")
  /\ UNCHANGED <<repo, checksum, ran, local, overlap, edits>>

\* The catch block rethrows: the command ends here.
MarkFailed(p) ==
  /\ pc[p] = "failed"
  /\ status' = [status EXCEPT ![at[p]] = "FAILED"]
  /\ Goto(p, "idle")
  /\ UNCHANGED <<repo, checksum, ran, local, overlap, edits>>

(***************************************************************************)
(* The environment                                                         *)
(***************************************************************************)
\* The process dies, or loses its connection: its row stays as it is.
Crash(p) ==
  /\ pc[p] # "idle"
  /\ Goto(p, "idle")
  /\ UNCHANGED <<repo, table, ran, local, overlap, edits>>

\* A developer changes a migration file of the repository.
EditFile(v) ==
  /\ edits < MaxEdits
  /\ \E c \in Contents \ {repo[v]} : repo' = [repo EXCEPT ![v] = c]
  /\ edits' = edits + 1
  /\ UNCHANGED <<table, ran, pc, local, overlap>>

Step(p) ==
  \/ ScanNew(p) \/ ScanExisting(p) \/ ScanEnds(p) \/ InsertApplying(p)
  \/ ClaimRetry(p) \/ SqlSucceeds(p) \/ SqlFails(p)
  \/ MarkApplied(p) \/ MarkFailed(p)

Next ==
  \/ \E p \in Runners : StartMigrate(p) \/ StartRetry(p) \/ Step(p) \/ Crash(p)
  \/ \E v \in Versions : EditFile(v)

Spec == Init /\ [][Next]_vars

\* A run that has started is not abandoned: the awaits it chains resolve.
FairSpec == Spec /\ \A p \in Runners : WF_vars(Step(p))

-----------------------------------------------------------------------------
Applying(p) == pc[p] \in {"running", "succeeded", "failed"}

\* "refuses to continue when a previous migration is dirty"
\* (docs/architecture/10-enterprise-kernel-persistence.md:27): as long as the
\* commands have followed one another, whatever crashed, failed, was retried or
\* edited, every migration before the one that is executed is APPLIED.
OrderedApplication ==
  ~overlap => \A p \in Runners : pc[p] = "running" =>
                \A v \in Versions : v < at[p] => status[v] = "APPLIED"

\* migrate 138-147 and retryFailedMigration 201-210: whoever overlaps, one
\* process at a time executes a migration, as long as one operator retries.
ExclusiveApplier ==
  \A p, q \in Runners :
    Applying(p) /\ Applying(q) /\ at[p] = at[q] => p = q

\* An APPLIED row was recorded for SQL that completed, with its checksum:
\* the checksum lock of getMigrationStatus/migrate means something.
AppliedIsWhatRan ==
  \A v \in Versions : status[v] = "APPLIED" => ran[v] = {checksum[v]}

\* "Applied migrations remain checksum-locked" (README.md:162): APPLIED is final,
\* in status and in checksum, whatever overlapping
\* commands do next.
AppliedIsFinal ==
  [][\A v \in Versions : status[v] = "APPLIED"
       => status'[v] = "APPLIED" /\ checksum'[v] = checksum[v]]_vars

\* No deadlock between the bookkeeping and the SQL: a run always ends.
RunsEnd == \A p \in Runners : pc[p] # "idle" ~> pc[p] = "idle"
=============================================================================
