------------------------- MODULE MCMsrpReservation -------------------------
(* One stream between model-value endpoints, for TLC: the cfg files vary    *)
(* the timer periods and the number of PDUs the network may lose.           *)
EXTENDS MsrpReservation
=============================================================================
