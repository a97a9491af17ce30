---------------------------- MODULE RateLimiter ----------------------------
(***************************************************************************)
(* The persistent throttle of sign-in, registration and recovery           *)
(* (packages/persistence/src/authentication-rate-limiter.ts), for one      *)
(* purpose.  An attempt consumes from the bucket of its network and, if    *)
(* that admits it, from the bucket of its subject on that network, in one  *)
(* transaction that locks each row it reads; the refusal is thrown after   *)
(* the commit.  A bucket whose row is absent has count 0.                  *)
(***************************************************************************)
EXTENDS Integers, Sequences

CONSTANTS
  Subjects, Networks,
  SubjectNetworkLimit, NetworkLimit,
  Window, Block,        \* windowSeconds and blockSeconds, equal in every policy
  MaxTime               \* bound: the clock

LimiterAssumption ==
  /\ SubjectNetworkLimit \in Nat \ {0} /\ NetworkLimit \in Nat \ {0}
  /\ Window \in Nat \ {0} /\ Block \in Nat /\ Block >= Window
  /\ MaxTime \in Nat

VARIABLES
  now,
  network,     \* bucket of each network
  subject,     \* bucket of each <<subject, network>>
  answering,   \* admitted attempts whose credentials are being looked at
  seen,        \* history: when each network's last attempts passed its bucket
  admitted     \* history: when each subject's last were admitted, since its last success

vars == <<now, network, subject, answering, seen, admitted>>

Pairs == Subjects \X Networks
Absent == [count |-> 0, started |-> 0, until |-> 0]
Fresh == [count |-> 1, started |-> now, until |-> 0]
Blocked(b) == b.until > now

\* Both limits bound what is counted in a window that has not elapsed.
BucketOK(b, limit) ==
  /\ b.count \in 0..limit + 1
  /\ b.started \in 0..now
  /\ b.until \in 0..now + Block
  /\ b.count = limit + 1 <=> b.until # 0

TypeOK ==
  /\ now \in 0..MaxTime
  /\ \A n \in Networks : BucketOK(network[n], NetworkLimit)
  /\ \A k \in Pairs : BucketOK(subject[k], SubjectNetworkLimit)
  /\ answering \subseteq Pairs
  /\ \A n \in Networks : seen[n] \in Seq(0..now)
  /\ \A k \in Pairs : admitted[k] \in Seq(0..now)

Init ==
  /\ now = 0
  /\ network = [n \in Networks |-> Absent]
  /\ subject = [k \in Pairs |-> Absent]
  /\ answering = {}
  /\ seen = [n \in Networks |-> <<>>]
  /\ admitted = [k \in Pairs |-> <<>>]

-----------------------------------------------------------------------------
(***************************************************************************)
(* consumeBucket: its answer (0 or a delay) and the row it leaves          *)
(***************************************************************************)
\* Mutant: the age of the window is rounded up.
NewWindowEarly(b) ==
  b.count = 0 \/ (~Blocked(b) /\ now - b.started + 1 >= Window)

NewWindow(b) ==
  b.count = 0 \/ (~Blocked(b) /\ now - b.started >= Window)

Admits(b, limit) ==
  ~Blocked(b) /\ (NewWindow(b) \/ b.count + 1 <= limit)

Consumed(b, limit) ==
  IF Blocked(b)   THEN b
  ELSE IF NewWindow(b) THEN Fresh
  ELSE [count |-> b.count + 1, started |-> b.started,
        until |-> IF Admits(b, limit) THEN 0 ELSE now + Block]

-----------------------------------------------------------------------------
\* The attempt is noted; one that is a window old makes room for it, and when the
\* last one is that old, so are all.
Noted(times) ==
  LET old(n) == now - times[n] >= Window
  IN  IF times = <<>> \/ old(Len(times)) THEN <<now>>
      ELSE Append(IF old(1) THEN Tail(times) ELSE times, now)

\* consume; the histories keep what the bounds below look at.
Consume(s, n) ==
  LET passes == Admits(network[n], NetworkLimit)
      admits == passes /\ Admits(subject[<<s, n>>], SubjectNetworkLimit)
  IN
  /\ network' = [network EXCEPT ![n] = Consumed(@, NetworkLimit)]
  /\ subject' = IF passes
                THEN [subject EXCEPT ![<<s, n>>] = Consumed(@, SubjectNetworkLimit)]
                ELSE subject
  /\ answering' = IF admits THEN answering \cup {<<s, n>>} ELSE answering
  /\ seen' = IF passes THEN [seen EXCEPT ![n] = Noted(@)] ELSE seen
  /\ admitted' = IF admits THEN [admitted EXCEPT ![<<s, n>>] = Noted(@)]
                 ELSE admitted
  /\ UNCHANGED now

\* The attempt failed.
Deny(k) ==
  /\ k \in answering /\ answering' = answering \ {k}
  /\ UNCHANGED <<now, network, subject, seen, admitted>>

\* clearSuccessfulLogin: one DELETE, while other attempts go on.
ClearSuccessfulLogin(k) ==
  /\ k \in answering /\ answering' = answering \ {k}
  /\ subject' = [subject EXCEPT ![k] = Absent]
  /\ admitted' = [admitted EXCEPT ![k] = <<>>]
  /\ UNCHANGED <<now, network, seen>>

Tick ==
  /\ now < MaxTime /\ now' = now + 1
  /\ UNCHANGED <<network, subject, answering, seen, admitted>>

Next ==
  \/ \E s \in Subjects, n \in Networks : Consume(s, n)
  \/ \E k \in Pairs : Deny(k) \/ ClearSuccessfulLogin(k)
  \/ Tick

Spec == Init /\ [][Next]_vars

-----------------------------------------------------------------------------
(***************************************************************************)
(* Properties                                                              *)
(***************************************************************************)
\* README.md:130 "persistent HMAC-hashed throttling": whatever their timing over the
\* edges of windows and blocks, the attempts of one subject on one network that
\* are admitted without a success in between number, in any stretch of time as
\* long as a window, at most twice the limit less one (the attempt that opened a window).
SubjectThrottled == \A k \in Pairs : Len(admitted[k]) <= 2 * SubjectNetworkLimit - 1

\* The same of a network; here successes make no room.
NetworkThrottled == \A n \in Networks : Len(seen[n]) <= 2 * NetworkLimit - 1
=============================================================================
