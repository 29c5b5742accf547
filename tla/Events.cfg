\* Two handlers, four calls and events together, one lost connection.
SPECIFICATION BusFairSpec
CONSTANTS
  created = created
  verification = verification
  Channels = {created}
  Patterns = {verification}
  Matches <- MCMatches
  Listeners = {h1, h2}
  MaxRequests = 3
  MaxEvents = 2
  MaxWork = 4
  MaxDrops = 1
  Nobody = Nobody
INVARIANTS
  RegisteredIsSubscribed
  AtMostOnce
PROPERTIES
  ForwardOnly
  EventsArrive
  CallsReturn
CHECK_DEADLOCK FALSE
