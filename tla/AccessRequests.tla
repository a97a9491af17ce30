---------------------------- MODULE AccessRequests ----------------------------
(***************************************************************************)
(* Roles assigned for a time and within a scope, and the requests of those *)
(* who lack a permission                                                   *)
(* (packages/persistence/src/access-repository.ts and                      *)
(* access-permission-request-repository.ts).                               *)
(*                                                                         *)
(* A permission is evaluated through the pool: of the asker before a       *)
(* request is made, of the resolver before a request is resolved, and of   *)
(* the asker once more while the request is locked.  In between days pass  *)
(* and roles are assigned.  Nothing is ever withdrawn but by its last day. *)
(***************************************************************************)
EXTENDS Naturals

CONSTANTS
  People,
  Administrator,     \* of People: holds the access-management permission for good
  Seats,             \* positions, each in the unit Unit
  Unit,
  Areas,             \* scopes other than the TENANT
  Requests,
  Callers,           \* commands that may overlap
  LastDay,           \* bound: days are 0..LastDay
  Grants             \* bound: the role assignments that may be made

VARIABLES
  day,
  assigned,     \* access_role_assignments [permission, principal, scope, from, to]
  seated,       \* position_occupancies, pairs of person and position
  request,      \* access_permission_requests
  told,         \* the outcomes announced, pairs of request and outcome
  local         \* what a command has read

vars == <<day, assigned, seated, request, told, local>>

Permissions == {"ACCESS_MANAGE", "USE"}
Scopes == {"TENANT"} \cup Areas
Assignments ==
  [permission : Permissions, principal : People \cup Seats \cup {Unit}, scope : Scopes,
   from : 0..LastDay, to : 0..LastDay]
RequestsAssumption == LastDay \in Nat /\ Administrator \in People /\ Grants \subseteq Assignments

Idle == [does |-> "nothing"]
Absent == [status |-> "NONE"]

TypeOK ==
  /\ day \in 0..LastDay
  /\ assigned \subseteq Assignments
  /\ seated \subseteq People \X Seats
  /\ \A r \in Requests :
       \/ request[r] = Absent
       \/ /\ request[r].by \in People /\ request[r].scope \in Scopes
          /\ request[r].status \in {"PENDING", "FULFILLED", "REJECTED"}
  /\ told \subseteq Requests \X {"FULFILLED", "REJECTED"}
  /\ \A c \in Callers : local[c].does \in {"nothing", "asks", "resolves", "commits"}

Init ==
  /\ day = 0 /\ seated = {} /\ request = [r \in Requests |-> Absent]
  /\ assigned = {[permission |-> "ACCESS_MANAGE", principal |-> Administrator, scope |-> "TENANT",
                  from |-> 0, to |-> LastDay]}
  /\ told = {} /\ local = [c \in Callers |-> Idle]

NextDay == day < LastDay /\ day' = day + 1 /\ UNCHANGED <<assigned, seated, request, told, local>>

-----------------------------------------------------------------------------
\* Who may do what.

\* Whoever sits in a position stands for the position and for its unit.
Stands(p) ==
  {p} \cup {q \in Seats : <<p, q>> \in seated}
      \cup {u \in {Unit} : \E q \in Seats : <<p, q>> \in seated}

\* Mutant: what an assignment says of one scope holds in every other.
ScopeIgnored(a, scope) == TRUE

ScopeMatches(a, scope) == a.scope = "TENANT" \/ a.scope = scope

EffectiveOn(a, d) == a.from <= d /\ d <= a.to

Granting(p, permission, scope) ==
  {a \in assigned : a.permission = permission /\ a.principal \in Stands(p)
                    /\ ScopeMatches(a, scope) /\ EffectiveOn(a, day)}

Allowed(p, permission, scope) == Granting(p, permission, scope) # {}

AssignRole(by, a) ==
  /\ Allowed(by, "ACCESS_MANAGE", "TENANT")
  /\ a.from <= a.to
  /\ assigned' = assigned \cup {a}
  /\ UNCHANGED <<day, seated, request, told, local>>

AssignPersonToPosition(p, q) ==
  /\ \A s \in seated : s[2] # q
  /\ seated' = seated \cup {<<p, q>>}
  /\ UNCHANGED <<day, assigned, request, told, local>>

-----------------------------------------------------------------------------
\* Requests.

ReadForRequest(c, p, scope) ==
  /\ local[c] = Idle /\ ~Allowed(p, "USE", scope)
  /\ local' = [local EXCEPT ![c] = [does |-> "asks", by |-> p, scope |-> scope]]
  /\ UNCHANGED <<day, assigned, seated, request, told>>

\* Mutant: an equivalent request is not looked for.
NeverEquivalent(p, scope) == {}

\* The rows found, or the gap where they would be, stay locked to the commit.
Equivalent(p, scope) ==
  {r \in Requests : request[r].status = "PENDING" /\ request[r].by = p /\ request[r].scope = scope}

CreateRequest(c, r) ==
  /\ local[c].does = "asks" /\ request[r] = Absent
  /\ Equivalent(local[c].by, local[c].scope) = {}
  /\ request' = [request EXCEPT ![r] =
       [status |-> "PENDING", by |-> local[c].by, scope |-> local[c].scope]]
  /\ local' = [local EXCEPT ![c] = Idle]
  /\ UNCHANGED <<day, assigned, seated, told>>

ReadForResolution(c, p) ==
  /\ local[c] = Idle /\ Allowed(p, "ACCESS_MANAGE", "TENANT")
  /\ local' = [local EXCEPT ![c] = [does |-> "resolves"]]
  /\ UNCHANGED <<day, assigned, seated, request, told>>

\* Mutant: the request is read without a lock.
UnlockedAlways(r) == TRUE

Unlocked(r) == \A c \in Callers : local[c].does = "commits" => local[c].of # r

\* The request is locked from here to the commit.  The permission of the asker is
\* evaluated through the pool, for whoever asked.
LockRequest(c, r, outcome) ==
  /\ local[c].does = "resolves" /\ request[r].status = "PENDING" /\ Unlocked(r)
  /\ outcome = "FULFILLED" => Allowed(request[r].by, "USE", request[r].scope)
  /\ local' = [local EXCEPT ![c] =
       [does |-> "commits", of |-> r, outcome |-> outcome, evaluated |-> day]]
  /\ UNCHANGED <<day, assigned, seated, request, told>>

ResolveRequest(c) ==
  /\ local[c].does = "commits"
  /\ request' = IF request[local[c].of].status # "PENDING" THEN request ELSE
       [request EXCEPT ![local[c].of] =
         [status |-> local[c].outcome, by |-> @.by, scope |-> @.scope,
          evaluated |-> local[c].evaluated]]
  /\ told' = told \cup {<<local[c].of, local[c].outcome>>}
  /\ local' = [local EXCEPT ![c] = Idle]
  /\ UNCHANGED <<day, assigned, seated>>

\* An equivalent request is pending, the request is resolved already, or what it
\* asks for is not effective.
Refuse(c) ==
  /\ \/ local[c].does = "asks" /\ Equivalent(local[c].by, local[c].scope) # {}
     \/ /\ local[c].does = "resolves"
        /\ \E r \in Requests : Unlocked(r) /\
             \/ request[r].status \in {"FULFILLED", "REJECTED"}
             \/ /\ request[r].status = "PENDING"
                /\ ~Allowed(request[r].by, "USE", request[r].scope)
  /\ local' = [local EXCEPT ![c] = Idle]
  /\ UNCHANGED <<day, assigned, seated, request, told>>

Next ==
  \/ NextDay
  \/ \E p \in People :
       \/ \E a \in Grants : AssignRole(p, a)
       \/ \E q \in Seats : AssignPersonToPosition(p, q)
       \/ \E c \in Callers : ReadForResolution(c, p) \/ \E s \in Scopes : ReadForRequest(c, p, s)
  \/ \E c \in Callers :
       \/ Refuse(c) \/ ResolveRequest(c)
       \/ \E r \in Requests :
            CreateRequest(c, r) \/ \E o \in {"FULFILLED", "REJECTED"} : LockRequest(c, r, o)

Spec == Init /\ [][Next]_vars

-----------------------------------------------------------------------------
\* What a person stands for now they may have come to since that day; what they
\* stood for then they stand for still.
CouldOn(p, permission, scope, d) ==
  \E a \in assigned :
    /\ a.permission = permission /\ a.principal \in Stands(p)
    /\ a.scope \in {"TENANT", scope} /\ EffectiveOn(a, d)

\* Nobody has two equivalent requests pending, however many were read as missing;
\* a request is resolved once, whoever else was about to, so that what was
\* announced is what it became; and it was fulfilled when its asker had the
\* permission in the scope asked for.
RequestsHonest ==
  /\ \A r, s \in Requests :
       /\ request[r].status = "PENDING" /\ request[s].status = "PENDING"
       /\ request[r].by = request[s].by /\ request[r].scope = request[s].scope
       => r = s
  /\ told = {<<r, request[r].status>> : r \in {q \in Requests :
                                                request[q].status \in {"FULFILLED", "REJECTED"}}}
  /\ \A r \in Requests : request[r].status = "FULFILLED" =>
       CouldOn(request[r].by, "USE", request[r].scope, request[r].evaluated)
=============================================================================
