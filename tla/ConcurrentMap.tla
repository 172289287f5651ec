--------------------------- MODULE ConcurrentMap ----------------------------
(***************************************************************************)
(* The packet-set map (src/src/concurrent-map.c): one hash table per       *)
(* partition, chained through the cells of the index allocator.  The map   *)
(* is a value [buckets, map_chain_next, id]; its operations are functions  *)
(* from maps to maps, because only the core that owns a partition calls    *)
(* them.  An entry is an index, or an index plus Size for the second       *)
(* packet set that shares its state.                                       *)
(***************************************************************************)
EXTENDS ConcurrentDoubleChain, Once

CONSTANTS
  NumBuckets,   \* num_buckets_per_partition, a power of two
  Keys,         \* packet-set ids
  NoKey,        \* the id of a cell that never had one
  Hash          \* khash, a function from Keys to Nat

ASSUME MapAssumption ==
  /\ NumBuckets \in Nat \ {0}
  /\ NoKey \notin Keys
  /\ Hash \in [Keys -> Nat]

NoEntry == -1
NumEntries == 2 * Size
Entries == 0..NumEntries - 1

(* concurrent_map_allocate; the cells come from the allocator's init. *)
EmptyMap ==
  [buckets |-> [b \in 0..NumBuckets * NumCores - 1 |-> NoEntry],
   map_chain_next |-> [e \in Entries |-> NoEntry],
   id |-> [e \in Entries |-> NoKey]]

(* Fault: all partitions share the first buckets. *)
FaultBucketIdShared(k, partition) == Hash[k] % NumBuckets

BucketId(k, partition) == (Hash[k] % NumBuckets) + partition * NumBuckets

(* The entries chained from a bucket, in order.  A chain that ran into a   *)
(* cycle would come out longer than NumEntries.                            *)
Chain(m, b) ==
  LET from[n \in 0..NumEntries] ==
        IF n = 0 THEN IF m.buckets[b] = NoEntry THEN <<>> ELSE <<m.buckets[b]>>
        ELSE With(from[n - 1], LAMBDA s :
               IF s = <<>> \/ m.map_chain_next[s[Len(s)]] = NoEntry THEN s
               ELSE Append(s, m.map_chain_next[s[Len(s)]]))
  IN  from[NumEntries]

(* Position of the first entry with key k in a chain, 0 if there is none.  *)
FindIn(m, chain, k) ==
  LET hits == {n \in DOMAIN chain : m.id[chain[n]] = k}
  IN  IF hits = {} THEN 0 ELSE CHOOSE n \in hits : \A j \in hits : n <= j

Find(m, k, partition) == FindIn(m, Chain(m, BucketId(k, partition)), k)

(* concurrent_map_get, NoEntry when it returns 0. *)
MapGet(m, k, partition) ==
  With(Chain(m, BucketId(k, partition)), LAMBDA chain :
    IF FindIn(m, chain, k) = 0 THEN NoEntry ELSE chain[FindIn(m, chain, k)])

(* concurrent_map_put: append to the chain.  The link of the new entry     *)
(* itself is left as it is.                                                *)
MapPut(m, k, partition, e) ==
  LET b == BucketId(k, partition)
      chain == Chain(m, b)
  IN  IF chain = <<>>
        THEN [m EXCEPT !.buckets[b] = e, !.id[e] = k]
        ELSE [m EXCEPT !.map_chain_next[chain[Len(chain)]] = e, !.id[e] = k]

(* Fault: the erased entry keeps its link. *)
FaultEraseKeepsLink(m, k, partition) ==
  LET b == BucketId(k, partition)
      chain == Chain(m, b)
      n == Find(m, k, partition)
      after == m.map_chain_next[chain[n]]
  IN  IF n = 1
        THEN [m EXCEPT !.buckets[b] = after]
        ELSE [m EXCEPT !.map_chain_next[chain[n - 1]] = after]

(* concurrent_map_erase of a key that is present. *)
MapErase(m, k, partition) ==
  LET b == BucketId(k, partition)
      chain == Chain(m, b)
      n == Find(m, k, partition)
      after == m.map_chain_next[chain[n]]
  IN  IF n = 1
        THEN [m EXCEPT !.buckets[b] = after, !.map_chain_next[chain[n]] = NoEntry]
        ELSE [m EXCEPT !.map_chain_next[chain[n - 1]] = after, !.map_chain_next[chain[n]] = NoEntry]
=============================================================================
