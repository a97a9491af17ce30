----------------------------- MODULE MCControls -----------------------------
(***************************************************************************)
(* Small instances of the services that guard what other services do: the  *)
(* idempotency records, which this module extends, and instances of        *)
(* projection checkpoints, the rate limiter, passkeys, OIDC login, tenants *)
(* and their operators, the establishment, access requests, clearances,    *)
(* the lifecycle, fields and relationships of Things, configuration        *)
(* promotion and the commercial papers.  Their actions share no variable,  *)
(* so a behaviour here is of the one that `service' names, and the others  *)
(* rest in their initial states.                                           *)
(***************************************************************************)
EXTENDS IdempotencyRecords

CONSTANTS
  Projectors, MaxEvent, MaxTime,
  ThrottledSubjects, Networks, SubjectNetworkLimit, NetworkLimit, Window, Block, LimiterTime,
  Credentials, Requests, MaxAttempts, MaxIds, MaxCounter, MaxSwitches,
  Challenges, Logins, FederatedSubjects, Users, MaxChanges,
  Baselines, Items, Runs, MaxCommands, PromotionTime,
  Versions, Submitted, MaxLines, MaxPending,
  Tenants, Slugs, Emails, Registrants, TenantLogins, MaxInterruptions,
  Objects, Decisions, SubjectVersions, Transitions, Start, MaxSequence,
  Persons, Positions, Functions, Clerks, Kinds, Periods, Open, MaxRows,
  People, Administrator, Seats, Unit, Areas, Asked, Askers, LastDay, Grants,
  Classified, Evaluators,
  Things, Slots, Linked, MaxRelated

VARIABLES
  service,
  saved, row, prepared, clock, furthest,
  now, network, subject, answering, seen, admitted,
  enabled, issued, ceremony, life, attempts, passkey, counter, device,
  stage, ch, pk, sent, successes, wrong, switches,
  active, employed, challenge, link, login, signedIn, closed, changes,
  baseline, changeSet, items, sealed, run, result, conflict, commands, time, drift, lateConflicts,
  held, overlooked,
  costVersion, costed, variation, version, lines, decided, deciding, rows, lateLines, overtaken,
  paper, paperLines, paperRows, counted,
  slug, tenant, control, provisioned, account, registering, tenantLogin, era,
  thing, history, about, read,
  staff, entering, overlapped,
  day, assigned, seated, request, told, asking,
  security, assigning, reading, ambiguous,
  typed, filled, fields, mandatory, editing, excused,
  related, relating, beside

Chk == INSTANCE ProjectionCheckpoints
Lim == INSTANCE RateLimiter WITH Subjects <- ThrottledSubjects, MaxTime <- LimiterTime
Key == INSTANCE Passkeys WITH Passkeys <- Credentials, status <- passkey
Sso == INSTANCE OidcLogin
  WITH Subjects <- FederatedSubjects, MaxSwitches <- MaxChanges, switches <- changes
Pro == INSTANCE ConfigurationPromotion
  WITH MaxPending <- MaxCommands, MaxTime <- PromotionTime,
       pending <- commands, clock <- time, late <- lateConflicts
Com == INSTANCE Commercial WITH pending <- rows, late <- lateLines
Acc == INSTANCE CommercialAccounts
  WITH status <- paper, lines <- paperLines, pending <- paperRows
Ten == INSTANCE TenantLifecycle
  WITH Logins <- TenantLogins, status <- tenant, login <- tenantLogin
Thg == INSTANCE ThingLifecycle
  WITH Versions <- SubjectVersions, row <- thing, decided <- about
Est == INSTANCE Establishment
  WITH Callers <- Clerks, rows <- staff, local <- entering, unseen <- overlapped
Arq == INSTANCE AccessRequests
  WITH Requests <- Asked, Callers <- Askers, local <- asking

\* Three levels in order, and a category.
SomeLevels == ({"ORDINAL"} \X (1..3)) \cup {<<"CATEGORICAL", 1>>}

\* Whoever sits in a position on the second day is cleared up to the second level in
\* one area, and has an exception for the category under their own name.
SomeOffered ==
  LET assignment(s, l, p) == [table |-> "assignments", subject |-> s, level |-> l, period |-> p]
  IN {assignment(s, <<"ORDINAL", 1>>, <<0, 1>>) : s \in Classified}
       \cup {assignment(s, <<"ORDINAL", 3>>, <<1, 1>>) : s \in Classified}
       \cup {assignment(s, <<"CATEGORICAL", 1>>, <<0, 1>>) : s \in Classified}
       \cup {[table |-> "grants", principal |-> q, level |-> <<"ORDINAL", 2>>, lower |-> TRUE,
              scope |-> a, period |-> <<0, 1>>] : q \in Seats, a \in Areas}
       \cup {[table |-> "exceptions", principal |-> p, subject |-> s,
              level |-> <<"CATEGORICAL", 1>>, period |-> <<0, 1>>] :
              p \in Persons, s \in Classified}
       \cup {[table |-> "occupancies", person |-> p, seat |-> q, period |-> <<1, 1>>] :
              p \in Persons, q \in Seats}
Cle == INSTANCE Clearances
  WITH Subjects <- Classified, Decided <- Classified, Levels <- SomeLevels,
       Ordinal <- {"ORDINAL"}, People <- Persons, Callers <- Clerks, Offered <- SomeOffered,
       rows <- security, local <- assigning, unseen <- ambiguous

\* A pump is an asset.  Every asset has a number; a pump may have several parts, and
\* feeds one asset, which is fed by one pump.
SomeTypes == {"asset", "pump"}
SomeParent == [ty \in SomeTypes |-> "asset"]
SomeFields == {"number", "part"}
SomeFieldOf == [number |-> "asset", part |-> "pump"]
SomeMultiple == {"part"}
SomeRequired == {"number"}
SomeDefault == [f \in SomeFields |-> IF f = "part" THEN Slots ELSE {}]
Fld == INSTANCE ThingFields
  WITH Types <- SomeTypes, Parent <- SomeParent, Fields <- SomeFields, FieldOf <- SomeFieldOf,
       Multiple <- SomeMultiple, Required <- SomeRequired, Default <- SomeDefault,
       Callers <- Clerks, assigned <- fields, local <- editing

SomeTypeOf == [t \in Linked |-> IF t \in Areas THEN "asset" ELSE "pump"]
SomeRelations == {"feeds"}
SomeEnds == [feeds |-> <<"pump", "asset">>]
SomeTerms == {<<1, 1>>, <<1, 2>>, <<2, 2>>}
Rel == INSTANCE ThingRelationships
  WITH Things <- Linked, TypeOf <- SomeTypeOf, Types <- SomeTypes, Parent <- SomeParent,
       Relations <- SomeRelations, Ends <- SomeEnds, ToOne <- SomeRelations,
       FromOne <- SomeRelations, Periods <- SomeTerms, Callers <- Clerks,
       local <- relating, unseen <- beside

\* A draft is approved by a Decision; an approval is withdrawn by a Decision, or
\* lapses without one; what has lapsed is drafted anew.
SomeTransitions ==
  {[from |-> "DRAFT", to |-> "APPROVED", controlled |-> TRUE],
   [from |-> "APPROVED", to |-> "DRAFT", controlled |-> TRUE],
   [from |-> "APPROVED", to |-> "LAPSED", controlled |-> FALSE],
   [from |-> "DRAFT", to |-> "LAPSED", controlled |-> FALSE],
   [from |-> "LAPSED", to |-> "DRAFT", controlled |-> FALSE]}

\* Periods that begin together, one of them without an end.
SomePeriods == {<<1, 1>>, <<1, 2>>}

\* The permission asked for, to the unit within an area, and access management to
\* a position.
SomeGrants ==
  {[permission |-> "USE", principal |-> Unit, scope |-> s, from |-> 0, to |-> 0] : s \in Areas}
    \cup {[permission |-> "ACCESS_MANAGE", principal |-> q, scope |-> "TENANT",
           from |-> 0, to |-> 0] : q \in Seats}

ASSUME ControlsAssumption ==
  /\ Chk!CheckpointAssumption /\ Lim!LimiterAssumption /\ Key!PasskeysAssumption
  /\ Sso!None \notin Users /\ "none" \notin SubjectVersions
  /\ \A t \in Transitions : t.from # "none"
  /\ MaxInterruptions \in Nat /\ Est!EstablishmentAssumption /\ Cle!ClearancesAssumption
  /\ Fld!FieldsAssumption /\ Rel!RelationshipsAssumption /\ Arq!RequestsAssumption
  /\ {MaxChanges, MaxCommands, PromotionTime, MaxLines, MaxPending} \subseteq Nat
  /\ MaxSequence \in Nat \ {0}

chkVars == <<saved, row, prepared, clock, furthest>>
limVars == <<now, network, subject, answering, seen, admitted>>
keyVars == <<enabled, issued, ceremony, life, attempts, passkey, counter, device,
             stage, ch, pk, sent, successes, wrong, switches>>
ssoVars == <<active, employed, challenge, link, login, signedIn, closed, changes>>
proVars == <<baseline, changeSet, items, sealed, run, result, conflict, commands, time, drift,
             lateConflicts, held, overlooked>>
comVars == <<costVersion, costed, variation, version, lines, decided, deciding, rows, lateLines,
             overtaken>>
accVars == <<paper, paperLines, paperRows, counted>>
tenVars == <<slug, tenant, control, provisioned, account, registering, tenantLogin, era>>
thgVars == <<thing, history, about, read>>
estVars == <<staff, entering, overlapped>>
arqVars == <<day, assigned, seated, request, told, asking>>
cleVars == <<security, assigning, reading, ambiguous>>
fldVars == <<typed, filled, fields, mandatory, editing, excused>>
relVars == <<related, relating, beside>>

ControlsInit ==
  /\ service \in {"idempotency", "checkpoints", "limiter", "passkeys", "oidc", "promotion",
                  "papers", "accounts", "tenants", "things", "staff", "access",
                  "clearances", "fields", "relations"}
  /\ Init /\ Chk!Init /\ Lim!Init /\ Key!Init /\ Sso!Init /\ Pro!Init /\ Com!Init /\ Acc!Init
  /\ Ten!Init /\ Thg!Init /\ Est!Init /\ Arq!Init /\ Cle!Init /\ Fld!Init /\ Rel!Init

OthersRest ==
  /\ UNCHANGED service
  /\ service # "idempotency" => UNCHANGED vars
  /\ service # "checkpoints" => UNCHANGED chkVars
  /\ service # "limiter" => UNCHANGED limVars
  /\ service # "passkeys" => UNCHANGED keyVars
  /\ service # "oidc" => UNCHANGED ssoVars
  /\ service # "promotion" => UNCHANGED proVars
  /\ service # "papers" => UNCHANGED comVars
  /\ service # "accounts" => UNCHANGED accVars
  /\ service # "tenants" => UNCHANGED tenVars
  /\ service # "things" => UNCHANGED thgVars
  /\ service # "staff" => UNCHANGED estVars
  /\ service # "access" => UNCHANGED arqVars
  /\ service # "clearances" => UNCHANGED cleVars
  /\ service # "fields" => UNCHANGED fldVars
  /\ service # "relations" => UNCHANGED relVars

IdempotencyStep == service = "idempotency" /\ OthersRest /\ Next
CheckpointStep == service = "checkpoints" /\ OthersRest /\ Chk!Next
LimiterStep == service = "limiter" /\ OthersRest /\ Lim!Next
PasskeyStep == service = "passkeys" /\ OthersRest /\ Key!Next
OidcStep == service = "oidc" /\ OthersRest /\ Sso!Next
PromotionStep == service = "promotion" /\ OthersRest /\ Pro!Next
PapersStep == service = "papers" /\ OthersRest /\ Com!Next
AccountsStep == service = "accounts" /\ OthersRest /\ Acc!Next
TenantStep == service = "tenants" /\ OthersRest /\ Ten!Next
ThingStep == service = "things" /\ OthersRest /\ Thg!Next
StaffStep == service = "staff" /\ OthersRest /\ Est!Next
AccessStep == service = "access" /\ OthersRest /\ Arq!Next
ClearanceStep == service = "clearances" /\ OthersRest /\ Cle!Next
FieldStep == service = "fields" /\ OthersRest /\ Fld!Next
RelationStep == service = "relations" /\ OthersRest /\ Rel!Next

ControlsNext ==
  \/ IdempotencyStep \/ CheckpointStep \/ LimiterStep \/ PasskeyStep \/ OidcStep
  \/ PromotionStep \/ PapersStep \/ AccountsStep \/ TenantStep \/ ThingStep
  \/ StaffStep \/ AccessStep \/ ClearanceStep \/ FieldStep \/ RelationStep

ControlsSpec ==
  ControlsInit /\ [][ControlsNext]_<<service, vars, chkVars, limVars, keyVars, ssoVars, proVars,
                                    comVars, accVars, tenVars, thgVars, estVars,
                                    arqVars, cleVars, fldVars, relVars>>

\* Types of the service that is at work; the others rest as they began.
TypesOK ==
  /\ service = "idempotency" => TypeOK
  /\ service = "checkpoints" => Chk!TypeOK
  /\ service = "limiter" => Lim!TypeOK
  /\ service = "passkeys" => Key!TypeOK
  /\ service = "oidc" => Sso!TypeOK
  /\ service = "promotion" => Pro!TypeOK
  /\ service = "papers" => Com!TypeOK
  /\ service = "accounts" => Acc!TypeOK
  /\ service = "tenants" => Ten!TypeOK
  /\ service = "things" => Thg!TypeOK
  /\ service = "staff" => Est!TypeOK
  /\ service = "access" => Arq!TypeOK
  /\ service = "clearances" => Cle!TypeOK
  /\ service = "fields" => Fld!TypeOK
  /\ service = "relations" => Rel!TypeOK

\* See ProjectionCheckpoints: the sequence on record is the furthest saved.
NeverBackwards == Chk!NeverBackwards

\* See RateLimiter: the attempts of a subject, and of a network, are bounded.
Throttled == Lim!SubjectThrottled /\ Lim!NetworkThrottled

\* See Passkeys and OidcLogin: a challenge succeeds once, and a subject signs
\* in as one employee.
SignInsHonest == Key!OneSuccessPerChallenge /\ Sso!IdentitiesKept

\* See Passkeys: a stored signature counter never falls.
CounterNeverFalls == Key!CounterNeverFalls

\* See ConfigurationPromotion: what a promotion that succeeded rests on.
PromotedUndisturbed == Pro!PromotedUndisturbed

\* See Commercial and CommercialAccounts: what was reconciled stays so.
FiguresStand == Com!FiguresStand /\ Acc!LinesSettle

\* See TenantLifecycle, Establishment, AccessRequests and Clearances: addresses,
\* accounts and sessions of tenants, the places of their people, and what those may
\* do and see; and ThingFields and ThingRelationships: what their Things consist of.
ServiceSound ==
  CASE service = "tenants" -> Ten!ServiceSound
    [] service = "staff" -> Est!EstablishmentSound
    [] service = "access" -> Arq!RequestsHonest
    [] service = "clearances" -> Cle!ClearancesHonest
    [] service = "fields" -> Fld!ThingsWellFormed
    [] service = "relations" -> Rel!RelationshipsWellFormed
    [] OTHER -> TRUE

\* See ThingLifecycle: one line of justified states, which ends in the present.
HistoryJustified == Thg!HistoryJustified
=============================================================================
