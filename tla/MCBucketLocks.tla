---------------------------- MODULE MCBucketLocks ----------------------------
(* BucketLocks for TLC: two keys in shards of their own.                   *)
EXTENDS BucketLocks

CONSTANTS k1, k2, s1, s2

MCShardOf == [k \in Keys |-> IF k = k1 THEN s1 ELSE s2]

MCPlain ==
  {[rps |-> 1, burst |-> Unset, key_priority |-> Unset, action |-> Unset,
    bucket_ttl_secs |-> 1, request_cost |-> 2]}

MCLists == {<<k1>>}
==============================================================================
