\* A node with two children below a left child is deleted.
CONSTANTS
  MaxPoint = 4
  Shards <- FourShards
  Elsewhere <- OnePublish
  Room <- SevenOrOne
  MaxVersion = 0
  MaxPublished = 0
SPECIFICATION Spec
INVARIANT SearchFindsOverlap
CHECK_DEADLOCK FALSE
