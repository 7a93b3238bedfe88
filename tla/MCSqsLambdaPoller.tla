------------------------- MODULE MCSqsLambdaPoller -------------------------
(* Small instances of SqsLambdaPoller for TLC: a standard and a FIFO queue,  *)
(* each with an event source mapping.                                        *)
EXTENDS SqsLambdaPoller

CONSTANTS standard, fifo, e1, e2, g1, d1

NoRedrive == [q \in Queues |-> NoQueue]
StandardFirst == [q \in Queues |-> IF q = standard THEN 1 ELSE 2]
FirstToStandard == [e \in Mappings |-> IF e = e1 THEN standard ELSE fifo]
FirstInPairs == [e \in Mappings |-> IF e = e1 THEN 2 ELSE 1]
FirstWaits == [e \in Mappings |-> IF e = e1 THEN 1 ELSE 0]
=============================================================================
