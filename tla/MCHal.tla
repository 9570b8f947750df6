------------------------------- MODULE MCHal --------------------------------
EXTENDS HalStream
MCSpec == StreamSpec
=============================================================================
