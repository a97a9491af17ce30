---------------------------- MODULE OneTimeLinks ----------------------------
(***************************************************************************)
(* What the identity challenges promise, whatever carries the links:       *)
(* "challenges expire, are single-use and invalidate earlier active        *)
(* challenges of the same purpose"                                         *)
(* (docs/decisions/ADR-0010-tenant-authentication-security-boundary.md:29) *)
(***************************************************************************)
EXTENDS Naturals

CONSTANTS Users, Tenants, Purposes,
          MaxIds      \* bound: links ever issued

Ids  == 1..MaxIds
Keys == [user : Users, tenant : Tenants, purpose : Purposes]

VARIABLES
  issued,   \* links 1..issued exist, in the order they were issued
  key,      \* key[c]: whose link c is, and for what
  state,    \* state[c]: "unissued", "live", "used" or "dead"
  mailed    \* links that have reached a mailbox

linkVars == <<issued, key, state, mailed>>

Rivals(c) ==
  {d \in 1..issued : /\ d # c
                     /\ key[d].user = key[c].user
                     /\ key[d].purpose = key[c].purpose}

LinksInit ==
  /\ issued = 0
  /\ key \in [Ids -> Keys]
  /\ state = [c \in Ids |-> "unissued"]
  /\ mailed = {}

\* A new link replaces the live one for the same key.
IssueLink(k) ==
  /\ issued < MaxIds
  /\ issued' = issued + 1
  /\ key' = [key EXCEPT ![issued + 1] = k]
  /\ state' = [c \in Ids |->
       IF c = issued + 1 THEN "live"
       ELSE IF c \in 1..issued /\ key[c] = k /\ state[c] = "live" THEN "dead"
       ELSE state[c]]
  /\ UNCHANGED mailed

MailLink(c) ==
  /\ mailed' = mailed \cup {c}
  /\ UNCHANGED <<issued, key, state>>

\* Only a live link that was mailed works, and it works once.
UseLink(c) ==
  /\ c \in mailed /\ state[c] = "live"
  /\ \E killed \in SUBSET {d \in Rivals(c) : state[d] = "live"} :
       state' = [d \in Ids |-> IF d = c THEN "used"
                               ELSE IF d \in killed THEN "dead" ELSE state[d]]
  /\ UNCHANGED <<issued, key, mailed>>

LapseLink(c) ==
  /\ state[c] = "live"
  /\ state' = [state EXCEPT ![c] = "dead"]
  /\ UNCHANGED <<issued, key, mailed>>

LinksNext ==
  \/ \E k \in Keys : IssueLink(k)
  \/ \E c \in 1..issued : MailLink(c) \/ UseLink(c) \/ LapseLink(c)

LinksSpec == LinksInit /\ [][LinksNext]_linkVars
=============================================================================
