--------------------------- MODULE MCShardPackage ---------------------------
(***************************************************************************)
(* Two shards, of which the first is derived with the same items by every  *)
(* attempt.  The third attempt at the second was made from another tree:   *)
(* it shares an item with the first shard.                                 *)
(***************************************************************************)
EXTENDS ShardPackage, TLC

CONSTANTS item1, item2, item3

MCItemIds == << <<{item1, item2}, {item1, item2}, {item1}>>,
                <<{item3}, {item3}, {item2, item3}>> >>

MCInPlay == [consolidation |-> {1}, audit |-> {1, 2}]

PublisherSymmetry == Permutations(Publishers)
=============================================================================
