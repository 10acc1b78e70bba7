SPECIFICATION FairSpec
CONSTANTS
  Slots = {r1, r2}
  Kinds = {"health", "json", "stream", "scan"}
  PoolSize = 2
  None = None
INVARIANT TypeOK
INVARIANT PoolAccounted
PROPERTY EveryoneEnds
PROPERTY KeepsExchange
