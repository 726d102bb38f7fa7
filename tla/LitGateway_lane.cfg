SPECIFICATION FairGatewaySpec
CONSTANTS
  c1 = c1
  c2 = c2
  Caller = {c1, c2}
  Style = {"each", "once", "single"}
  Interval = 2
  MaxCalls = 3
  Retries = 3
  Backoff <- Waits
INVARIANTS GrantsOnTime CallsArePaid
PROPERTIES RequestsEnd
