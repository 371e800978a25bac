---------------------------- MODULE PartitionMap ----------------------------
(***************************************************************************)
(* Which partition a key of a multi-partition command belongs to: the loop *)
(* that handle_multidb_read, _write and _delete share.  It walks the       *)
(* partitions with a lower bound that grows by one slice each time, but    *)
(* compares the key with the end of the FIRST slice every time.            *)
(***************************************************************************)
EXTENDS Integers

NoPartition == -1

Slice(numKeys, n) == numKeys \div n

\* The iterations whose condition the key satisfies.
Hits(k, numKeys, n) ==
  {i \in 0..(n - 1) : k >= i * Slice(numKeys, n) /\ k < Slice(numKeys, n)}

\* The loop returns at the first hit, and -1 when there is none.
PartitionOf(k, numKeys, n) ==
  IF Hits(k, numKeys, n) = {} THEN NoPartition
  ELSE CHOOSE i \in Hits(k, numKeys, n) : \A j \in Hits(k, numKeys, n) : i <= j
=============================================================================
