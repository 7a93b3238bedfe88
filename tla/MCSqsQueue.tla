----------------------------- MODULE MCSqsQueue -----------------------------
(* Small instances of SqsQueue for TLC: a queue and its dead-letter queue. *)
EXTENDS SqsQueueContract, TLC

CONSTANTS main, dlq, g1, g2, d1, d2, a1

MainToDlq == [q \in Queues |-> IF q = main THEN dlq ELSE NoQueue]
MainFirst == [q \in Queues |-> IF q = main THEN 1 ELSE 2]

\* Groups and deduplication ids are interchangeable.
Interchangeable == Permutations(Groups) \cup Permutations(DedupIds)
=============================================================================
