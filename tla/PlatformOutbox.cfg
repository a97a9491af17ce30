\* Publishers in and out of time, failures, crashes and late reports.
SPECIFICATION FairSpec
CONSTANTS
  Messages = {m1, m2}
  Publishers = {w1, w2}
  Limit = 2
  MaxClaims = 3
  MaxCrashes = 1
INVARIANT LeasesExclusive
PROPERTY PublishedIsFinal EventuallyPublished
CHECK_DEADLOCK FALSE
