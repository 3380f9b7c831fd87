---------------------------- MODULE MCModelTools ----------------------------
\* Two invocations of the tools beside the server and one recording.
EXTENDS ModelTools
=============================================================================
