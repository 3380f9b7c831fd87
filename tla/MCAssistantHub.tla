---------------------------- MODULE MCAssistantHub ----------------------------
\* The request hub on a few requests.
EXTENDS AssistantHub
=============================================================================
