--------------------------- MODULE MCSqsMoveTask ---------------------------
(* Small instances of SqsMoveTask for TLC: a dead-letter queue of one queue *)
(* or of two.                                                               *)
EXTENDS SqsMoveTask

CONSTANTS a, b, dlq

ToDlq == [q \in Queues |-> IF q = dlq THEN NoQueue ELSE dlq]
DlqLast == [q \in Queues |-> IF q = a THEN 1 ELSE IF q = b THEN 2 ELSE 3]
=============================================================================
