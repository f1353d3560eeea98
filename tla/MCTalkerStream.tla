--------------------------- MODULE MCTalkerStream ---------------------------
(* Streams at the sample rates of the repository, for TLC: the cfg files    *)
(* give the sizes media_input_fifo.h and avb1722_Talker_StreamConfig_t get. *)
EXTENDS TalkerStream
=============================================================================
