\* Two sources that enroll and retry over the retention, under changes of the network;
\* or a backup that is restored.  With the bounds reached the instance idles.
SPECIFICATION SceneSpec
CONSTANTS
  plain = plain
  named = named
  sw1 = sw1
  sw2 = sw2
  fqdn = fqdn
  c1 = c1
  c2 = c2
  None = None
  Challenges <- TwoChallenges
  Transactions = {t1}
  Csrs <- TwoCsrs
  Sources <- TwoSources
  Names <- OneName
  Asks <- AsksOne
  Options <- BothOptions
  MaxNames = 1
  Capacity = 2
  Window = 1
  Retention = 3
  Lifetime = 4
  MaxTime = 4
  MaxCerts = 3
  MaxEdits = 1
  MaxRestores = 1
INVARIANTS
  Limits
  StaysWithSource
  PublishedIsAccounted
PROPERTIES
  PendingKept
  ImplementsLedger
CHECK_DEADLOCK FALSE
