------------------------------- MODULE MCMaap -------------------------------
(* Two talkers and a pool of four addresses, for TLC.  The addresses of the *)
(* nodes are cut to the two bytes that differ.                              *)
EXTENDS Maap, TLC

CONSTANTS a, b

\* Every byte of a's address is at most b's: maap_compare_mac tells them apart.
OrderedMacs == (a :> <<1, 1>>) @@ (b :> <<1, 2>>)

\* Each is below the other in one byte: maap_compare_mac answers 1 to both.
CrossedMacs == (a :> <<1, 2>>) @@ (b :> <<2, 1>>)
=============================================================================
