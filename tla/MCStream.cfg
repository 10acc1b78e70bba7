SPECIFICATION FairSpec
CONSTANTS
  ChunkSize = 2
  MaxSize = 4
INVARIANT TypeOK
INVARIANT KeepsPromise
PROPERTY PromisesWanted
PROPERTY StreamsEnd
