--------------------------- MODULE MCShardedCache ---------------------------
(***************************************************************************)
(* Small instances of ShardedCache: which key hashes to what, and the       *)
(* symmetry of the clients (safety runs only).                              *)
(***************************************************************************)
EXTENDS ShardedCache, TLC

CONSTANTS t1, t2, k1, k2, k3, v1, v2

\* With two shards, k1 and k3 share shard 1 and k2 is alone in shard 0; the
\* hashes are larger than the shard count, as std::hash of an int is.
Hash == [k \in Keys |-> IF k = k1 THEN 1 ELSE IF k = k3 THEN 5 ELSE 4]

ClientSymmetry == Permutations(Threads)
=============================================================================
