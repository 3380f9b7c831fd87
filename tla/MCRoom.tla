------------------------------- MODULE MCRoom -------------------------------
\* Two browsers, one paired device and two connections.
EXTENDS Room
=============================================================================
