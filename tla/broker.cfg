CONSTANTS
  j1 = j1  j2 = j2  j3 = j3  c1 = c1  c2 = c2  w1 = w1
  Ids = {j1, j2, j3}
  Clients = {c1, c2}
  Owner <- TwoClients
  Workers = {w1}
  Consumer = consumer
  Cap = 1
  Retries = 1
  None = None
  DefaultLimit = 2
  MaxLimit = 3
SPECIFICATION FairSpec
INVARIANTS PendingCounts OnePlace PagesAreRight
PROPERTIES ImplementsBroker EnqueuedIsConsumed EnqueueReturns TakenIsDelivered
CHECK_DEADLOCK FALSE
