\* Two hosts and an address that both may have; two tokens, two policy updates or
\* restarts, one thread beside the event loop.
SPECIFICATION AccessSpec
CONSTANTS
  h1 = h1
  h2 = h2
  a = a
  t1 = t1
  Loop = Loop
  Nobody = Nobody
  Hosts = {h1, h2}
  Addresses = {a}
  Threads = {t1}
  Configs <- TwoConfigs
  Events <- SomeEvents
  MaxTokens = 2
  MaxUpdates = 2
INVARIANTS AddressHasOneOwner MapIsCurrent
PROPERTIES LastTokenEnrols MovementIsSeen
CHECK_DEADLOCK FALSE
