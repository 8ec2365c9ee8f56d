--------------------------- MODULE MCShardMaster ---------------------------
(* Instances of ShardMaster for TLC.                                       *)
EXTENDS ShardMaster

CONSTANT c0

JoinOf(gids) == [type |-> "Join", gids |-> gids]
LeaveOf(gids) == [type |-> "Leave", gids |-> gids]
MoveOf(shard, gid) == [type |-> "Move", shard |-> shard, gid |-> gid]
QueryOf(num) == [type |-> "Query", num |-> num]

\* Join, then a reconfiguration, then a look at the result.
OneClerk ==
  [c \in Clerk |-> <<{JoinOf({1, 2, 3})}, {LeaveOf({1}), MoveOf(0, 2)}, {QueryOf(-1)}>>]
=============================================================================
