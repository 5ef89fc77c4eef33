-------------------------- MODULE MCSessionStreams --------------------------
EXTENDS SessionStreams
=============================================================================
