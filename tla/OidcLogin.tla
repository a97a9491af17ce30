----------------------------- MODULE OidcLogin -----------------------------
(***************************************************************************)
(* Sign-in at one OIDC provider of one tenant                              *)
(* (packages/persistence/src/oidc-service.ts): the challenge that a login  *)
(* leaves, the callback that consumes it, and the link of the provider's   *)
(* subject to an employee.                                                 *)
(*                                                                         *)
(* Status, link and membership are read through the pool, with requests to *)
(* the provider in between; challenge and link are written by transactions *)
(* of their own.  The session that follows is in AuthSessions.             *)
(***************************************************************************)
EXTENDS Naturals, FiniteSets

CONSTANTS
  Challenges, Logins,   \* Logins are requests under way at once
  Subjects,             \* whom the provider's tokens speak of
  Users,                \* employees; a token's email names one of them or nobody
  MaxSwitches           \* bound: changes of the provider or of a membership

VARIABLES
  active,      \* status of the provider
  employed,    \* users whose account, membership and person are ACTIVE
  challenge,   \* of each state handed out
  link,        \* application_federated_identities: [Subjects -> Users or None]
  login,       \* [stage, challenge, subject, email] of each request
  signedIn,    \* history: <<challenge, subject, user>> of each success, with a count
  closed,      \* history: challenges that were open when the provider was disabled
  switches

vars == <<active, employed, challenge, link, login, signedIn, closed, switches>>

None == "none"
Idle == [stage |-> "idle", challenge |-> None, subject |-> None, email |-> None]

TypeOK ==
  /\ active \in BOOLEAN /\ employed \subseteq Users
  /\ challenge \in [Challenges -> {None, "open", "consumed", "expired"}]
  /\ link \in [Subjects -> Users \cup {None}]
  /\ \A l \in Logins :
       /\ login[l].stage \in {"idle", "begin", "callback", "exchange", "unlinked"}
       /\ login[l].challenge \in Challenges \cup {None}
  /\ signedIn \subseteq [challenge : Challenges, subject : Subjects, user : Users, by : Logins]
  /\ closed \subseteq Challenges /\ switches \in 0..MaxSwitches

Init ==
  /\ active = TRUE /\ employed = Users
  /\ challenge = [c \in Challenges |-> None]
  /\ link = [s \in Subjects |-> None]
  /\ login = [l \in Logins |-> Idle]
  /\ signedIn = {} /\ closed = {} /\ switches = 0

-----------------------------------------------------------------------------
\* beginLogin: the provider is read, then discovered, then the challenge stored.

AskProvider(l) ==
  /\ login[l].stage = "idle" /\ active
  /\ login' = [login EXCEPT ![l].stage = "begin"]
  /\ UNCHANGED <<active, employed, challenge, link, signedIn, closed, switches>>

BeginLogin(l, c) ==
  /\ login[l].stage = "begin" /\ challenge[c] = None
  /\ challenge' = [challenge EXCEPT ![c] = "open"]
  /\ login' = [login EXCEPT ![l] = Idle]
  /\ UNCHANGED <<active, employed, link, signedIn, closed, switches>>

-----------------------------------------------------------------------------
\* completeLogin.

Callback(l, c) ==
  /\ login[l].stage = "idle" /\ active /\ challenge[c] # None
  /\ login' = [login EXCEPT ![l] =
       [stage |-> "callback", challenge |-> c, subject |-> None, email |-> None]]
  /\ UNCHANGED <<active, employed, challenge, link, signedIn, closed, switches>>

\* Whatever throws: the browser is sent back to the sign-in page.
GiveUp(l) ==
  /\ login[l].stage # "idle" /\ login' = [login EXCEPT ![l] = Idle]
  /\ UNCHANGED <<active, employed, challenge, link, signedIn, closed, switches>>

ConsumeChallenge(l) ==
  LET c == login[l].challenge
  IN
  /\ login[l].stage = "callback" /\ challenge[c] = "open"
  /\ challenge' = [challenge EXCEPT ![c] = "consumed"]
  /\ login' = [login EXCEPT ![l].stage = "exchange"]
  /\ UNCHANGED <<active, employed, link, signedIn, closed, switches>>

SignIn(l, s, u) ==
  /\ signedIn' = signedIn \cup {[challenge |-> login[l].challenge, subject |-> s, user |-> u, by |-> l]}
  /\ login' = [login EXCEPT ![l] = Idle]

\* resolveFederatedPrincipal, up to its transaction: a token for s that names email.
Resolve(l, s, email) ==
  /\ login[l].stage = "exchange"
  /\ IF link[s] \in employed
     THEN SignIn(l, s, link[s])
     ELSE /\ login' = [login EXCEPT ![l] =
               [stage |-> "unlinked", challenge |-> @.challenge, subject |-> s, email |-> email]]
          /\ UNCHANGED signedIn
  /\ UNCHANGED <<active, employed, challenge, link, closed, switches>>

\* Mutant: a subject is linked anew when its employee is not found.
LinkableAnew(s, u) == u \in employed /\ \A t \in Subjects \ {s} : link[t] # u

\* The membership is ACTIVE, and neither it nor the subject has a link: the
\* SELECT of the first, the unique key of the second.
Linkable(s, u) == u \in employed /\ link[s] = None /\ \A t \in Subjects : link[t] # u

LinkIdentity(l) ==
  LET s == login[l].subject
      u == login[l].email
  IN
  /\ login[l].stage = "unlinked" /\ Linkable(s, u)
  /\ link' = [link EXCEPT ![s] = u]
  /\ SignIn(l, s, u)
  /\ UNCHANGED <<active, employed, challenge, closed, switches>>

-----------------------------------------------------------------------------
\* Administration and time.

Counted == switches < MaxSwitches /\ switches' = switches + 1

\* setProviderStatus.
DisableProvider ==
  /\ Counted /\ active /\ active' = FALSE
  /\ challenge' = [c \in Challenges |->
                     IF challenge[c] = "open" THEN "consumed" ELSE challenge[c]]
  /\ closed' = closed \cup {c \in Challenges : challenge[c] = "open"}
  /\ UNCHANGED <<employed, link, login, signedIn>>

EnableProvider ==
  /\ Counted /\ ~active /\ active' = TRUE
  /\ UNCHANGED <<employed, challenge, link, login, signedIn, closed>>

\* Somebody leaves or comes back.
Employ(u) ==
  /\ Counted
  /\ employed' = IF u \in employed THEN employed \ {u} ELSE employed \cup {u}
  /\ UNCHANGED <<active, challenge, link, login, signedIn, closed>>

Expire(c) ==
  /\ challenge[c] = "open" /\ challenge' = [challenge EXCEPT ![c] = "expired"]
  /\ UNCHANGED <<active, employed, link, login, signedIn, closed, switches>>

Next ==
  \/ \E l \in Logins :
       \/ AskProvider(l) \/ GiveUp(l) \/ ConsumeChallenge(l) \/ LinkIdentity(l)
       \/ \E c \in Challenges : BeginLogin(l, c) \/ Callback(l, c)
       \/ \E s \in Subjects, email \in Users \cup {None} : Resolve(l, s, email)
  \/ DisableProvider \/ EnableProvider
  \/ \E u \in Users : Employ(u)
  \/ \E c \in Challenges : Expire(c)

Spec == Init /\ [][Next]_vars

-----------------------------------------------------------------------------
\* A challenge signs in once and, when it was open as the provider was disabled,
\* never; and whoever comes first, leaves or takes over an address, a subject is
\* always signed in as one employee and an employee by one subject.
IdentitiesKept ==
  \A a, b \in signedIn :
    /\ a.challenge \notin closed
    /\ a.challenge = b.challenge => a = b
    /\ a.subject = b.subject <=> a.user = b.user
=============================================================================
