--------------------------- MODULE MCCachedShards ---------------------------
(* Four shards for TLC, one of them inside another, and one publish of        *)
(* another process, with a shard in common.                                   *)
EXTENDS CachedShards

FourShards == {<<0, 0, 0, 1>>, <<1, 3, 1, 2>>, <<2, 2, 0, 1>>, <<4, 4, 1, 1>>}
OnePublish == {<< <<0, 2, 1, 1>>, <<2, 2, 0, 1>>, <<3, 4, 0, 1>> >>}
SixOrOne == [known \in BOOLEAN |-> IF known THEN 6 ELSE 1]
SevenOrOne == [known \in BOOLEAN |-> IF known THEN 7 ELSE 1]
=============================================================================
