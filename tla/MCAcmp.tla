------------------------------- MODULE MCAcmp -------------------------------
(* The timeouts in their order: both tries of a listener end before the       *)
(* controller gives up on the first of its own.                               *)
EXTENDS Acmp

MCTxTimeout == [op \in Operation |-> IF op = "CONNECT" THEN 2 ELSE 1]
MCRxTimeout == [op \in Operation |-> IF op = "CONNECT" THEN 5 ELSE 3]
=============================================================================
