--------------------------- MODULE MCDestination ---------------------------
EXTENDS Destination
=============================================================================
