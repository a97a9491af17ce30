--------------------------- MODULE TenantLifecycle ---------------------------
(***************************************************************************)
(* Tenants from their registration to their deletion from service          *)
(* (packages/persistence/src/tenant-registration-service.ts,               *)
(* tenant-provisioning-service.ts and platform-administration-service.ts). *)
(*                                                                         *)
(* register is one transaction that first counts the accounts of the email *)
(* and the tenants of the slug, by plain SELECTs, and inserts on the       *)
(* strength of them; unique keys refuse what came in between, and the      *)
(* transaction is rolled back.  The operators' commands lock the tenant.   *)
(* A sign-in reads that its tenant is ACTIVE and inserts its session later *)
(* without looking again: login[l] is one of them.                         *)
(***************************************************************************)
EXTENDS Naturals, FiniteSets, FiniteSetsExt

CONSTANTS
  Tenants,            \* ids of tenants
  Slugs,              \* addresses a business may ask for or be given
  Emails,             \* addresses of those who register
  Registrants,        \* registrations that may overlap
  Logins,             \* sign-ins
  MaxInterruptions    \* bound: times the tenants are taken out of service

VARIABLES
  slug,           \* address of each tenant, "none" before it exists
  status,         \* tenants.status, "NONE" before it exists
  control,        \* platform_tenant_controls.lifecycle_state, "NONE" without a row
  provisioned,    \* the tenants with a business profile
  account,        \* the tenant an email was registered for, or "none"
  registering,    \* what a registration under way has read
  login,          \* what became of each sign-in
  era             \* history: times each tenant was taken out of service

vars == <<slug, status, control, provisioned, account, registering, login, era>>

Roles == {"SUPER_ADMIN", "OPERATOR", "READ_ONLY"}
Idle == [slug |-> "none"]
Existing == {t \in Tenants : status[t] # "NONE"}

TypeOK ==
  /\ slug \in [Tenants -> Slugs \cup {"none"}]
  /\ status \in [Tenants -> {"NONE", "ACTIVE", "INACTIVE"}]
  /\ control \in [Tenants -> {"NONE", "ACTIVE", "SUSPENDED", "DELETION_REQUESTED", "DELETED"}]
  /\ provisioned \subseteq Existing
  /\ account \in [Emails -> Tenants \cup {"none"}]
  /\ registering \in [Registrants -> {Idle} \cup [slug : Slugs, email : Emails]]
  /\ \A l \in Logins :
       /\ login[l].is \in {"none", "authenticated", "open", "revoked"}
       /\ login[l].is # "none" => login[l].tenant \in Existing
  /\ era \in [Tenants -> 0..MaxInterruptions]

Init ==
  /\ slug = [t \in Tenants |-> "none"] /\ status = [t \in Tenants |-> "NONE"]
  /\ control = [t \in Tenants |-> "NONE"] /\ provisioned = {}
  /\ account = [e \in Emails |-> "none"]
  /\ registering = [r \in Registrants |-> Idle]
  /\ login = [l \in Logins |-> [is |-> "none"]]
  /\ era = [t \in Tenants |-> 0]

-----------------------------------------------------------------------------
\* Registration.

SlugFree(s) == \A t \in Tenants : slug[t] # s

\* A slug that was asked for is counted, one that is allocated is the first of
\* the candidates that counts none.
BeginRegistration(r, e, s) ==
  /\ registering[r] = Idle /\ account[e] = "none" /\ SlugFree(s)
  /\ registering' = [registering EXCEPT ![r] = [slug |-> s, email |-> e]]
  /\ UNCHANGED <<slug, status, control, provisioned, account, login, era>>

\* Mutant: without the unique keys.
UniqueUnchecked(s, e) == TRUE

\* The keys of tenants.slug and application_users.email_normalized.
Unique(s, e) == SlugFree(s) /\ account[e] = "none"

\* The tenant, its administrator and its profile are committed together.
Register(r, t) ==
  LET read == registering[r] IN
  /\ read # Idle /\ status[t] = "NONE" /\ Unique(read.slug, read.email)
  /\ slug' = [slug EXCEPT ![t] = read.slug]
  /\ status' = [status EXCEPT ![t] = "ACTIVE"]
  /\ account' = [account EXCEPT ![read.email] = t]
  /\ provisioned' = provisioned \cup {t}
  /\ registering' = [registering EXCEPT ![r] = Idle]
  /\ UNCHANGED <<control, login, era>>

\* A key is taken, or the profile is invalid or resolves to no CORE template.
RollBack(r) ==
  /\ registering[r] # Idle /\ registering' = [registering EXCEPT ![r] = Idle]
  /\ UNCHANGED <<slug, status, control, provisioned, account, login, era>>

\* MySqlKernelRepository.createTenant: a tenant without a profile.
CreateTenant(t, s, state) ==
  /\ status[t] = "NONE" /\ SlugFree(s)
  /\ slug' = [slug EXCEPT ![t] = s] /\ status' = [status EXCEPT ![t] = state]
  /\ UNCHANGED <<control, provisioned, account, registering, login, era>>

ProvisionExistingTenant(t) ==
  /\ status[t] = "ACTIVE" /\ t \notin provisioned
  /\ provisioned' = provisioned \cup {t}
  /\ UNCHANGED <<slug, status, control, account, registering, login, era>>

-----------------------------------------------------------------------------
\* The operators.

\* Mutant: a second withdrawal from service revokes nothing.
RevokedOnce(t) == IF status[t] = "ACTIVE" THEN {l \in Logins : login[l].is = "open" /\ login[l].tenant = t} ELSE {}

\* The sessions revokeTenantSessions finds.
Revoked(t) == {l \in Logins : login[l].is = "open" /\ login[l].tenant = t}

TakeOutOfService(t, state) ==
  /\ era[t] < MaxInterruptions /\ era' = [era EXCEPT ![t] = @ + 1]
  /\ status' = [status EXCEPT ![t] = "INACTIVE"] /\ control' = [control EXCEPT ![t] = state]
  /\ login' = [l \in Logins |-> IF l \in Revoked(t) THEN [login[l] EXCEPT !.is = "revoked"]
                                ELSE login[l]]
  /\ UNCHANGED <<slug, provisioned, account, registering>>

SuspendTenant(role, t) ==
  /\ role # "READ_ONLY" /\ t \in Existing /\ control[t] # "DELETED"
  /\ TakeOutOfService(t, "SUSPENDED")

RequestTenantDeletion(role, t) ==
  /\ role = "SUPER_ADMIN" /\ t \in Existing /\ control[t] # "DELETED"
  /\ TakeOutOfService(t, "DELETION_REQUESTED")

\* After the slug has been typed as a confirmation.
FinaliseTenantDeletion(role, t) ==
  /\ role = "SUPER_ADMIN" /\ control[t] = "DELETION_REQUESTED"
  /\ TakeOutOfService(t, "DELETED")

ReactivateTenant(role, t) ==
  /\ role # "READ_ONLY" /\ t \in Existing /\ control[t] # "DELETED"
  /\ status' = [status EXCEPT ![t] = "ACTIVE"] /\ control' = [control EXCEPT ![t] = "ACTIVE"]
  /\ UNCHANGED <<slug, provisioned, account, registering, login, era>>

-----------------------------------------------------------------------------
\* Sign-ins.

\* The memberships of a user are those of ACTIVE tenants.
Authenticate(l, t) ==
  /\ login[l].is = "none" /\ status[t] = "ACTIVE" /\ \E e \in Emails : account[e] = t
  /\ login' = [login EXCEPT ![l] = [is |-> "authenticated", tenant |-> t, read |-> era[t]]]
  /\ UNCHANGED <<slug, status, control, provisioned, account, registering, era>>

CreateSession(l) ==
  /\ login[l].is = "authenticated"
  /\ login' = [login EXCEPT ![l] =
       [is |-> "open", tenant |-> @.tenant, read |-> @.read, since |-> era[@.tenant]]]
  /\ UNCHANGED <<slug, status, control, provisioned, account, registering, era>>

Next ==
  \/ \E r \in Registrants :
       \/ \E e \in Emails, s \in Slugs : BeginRegistration(r, e, s)
       \/ \E t \in Tenants : Register(r, t)
       \/ RollBack(r)
  \/ \E t \in Tenants :
       \/ \E s \in Slugs, state \in {"ACTIVE", "INACTIVE"} : CreateTenant(t, s, state)
       \/ ProvisionExistingTenant(t)
       \/ \E role \in Roles :
            \/ SuspendTenant(role, t) \/ RequestTenantDeletion(role, t)
            \/ FinaliseTenantDeletion(role, t) \/ ReactivateTenant(role, t)
       \/ \E l \in Logins : Authenticate(l, t)
  \/ \E l \in Logins : CreateSession(l)

Spec == Init /\ [][Next]_vars

-----------------------------------------------------------------------------
\* The state the operators are shown: a tenant without a row is what its own
\* status says.
LifecycleState(t) ==
  IF control[t] # "NONE" THEN control[t]
  ELSE IF status[t] = "INACTIVE" THEN "SUSPENDED" ELSE status[t]

\* Registrations that overlap leave no address and no account shared and no
\* tenant half made; the two records of a tenant's state agree; and no session
\* opened before a tenant was last taken out of service is open after it, so
\* one that can be used when the tenant is back was opened since, if only by a
\* sign-in that was under way.
ServiceSound ==
  /\ \A t, u \in Existing : slug[t] = slug[u] => t = u
  /\ \A e, f \in Emails : account[e] # "none" =>
       account[e] \in provisioned /\ (account[e] = account[f] => e = f)
  /\ \A t \in Existing : LifecycleState(t) = "ACTIVE" <=> status[t] = "ACTIVE"
  /\ \A l \in Logins : login[l].is = "open" => login[l].since = era[login[l].tenant]

Arrows == {<<"ACTIVE", "SUSPENDED">>, <<"SUSPENDED", "ACTIVE">>,
           <<"ACTIVE", "DELETION_REQUESTED">>, <<"SUSPENDED", "DELETION_REQUESTED">>,
           <<"DELETION_REQUESTED", "DELETED">>}

\* ADR-0012: the lifecycle of a tenant is ACTIVE -> SUSPENDED -> ACTIVE, or
\* ACTIVE|SUSPENDED -> DELETION_REQUESTED -> DELETED.  The commands also
\* suspend and reactivate a tenant whose deletion was requested.
LifecycleAsDecided ==
  [][\A t \in Existing : LifecycleState(t)' # LifecycleState(t) =>
       <<LifecycleState(t), LifecycleState(t)'>> \in Arrows]_vars
=============================================================================
