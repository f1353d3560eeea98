--------------------------------- MODULE MCAdp ---------------------------------
EXTENDS Adp
=============================================================================
