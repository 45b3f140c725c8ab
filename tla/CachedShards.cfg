\* Inserts, removes, publishes and loads, with and without the hash range.
CONSTANTS
  MaxPoint = 4
  Shards <- FourShards
  Elsewhere <- OnePublish
  Room <- SixOrOne
  MaxVersion = 2
  MaxPublished = 1
SPECIFICATION Spec
INVARIANTS TreeSound LookupsAnswer UpToDateIsRepository
PROPERTIES ImplementsAbstractShards RemovesThatShard
CHECK_DEADLOCK FALSE
