------------------------------ MODULE MCAlarms ------------------------------
\* One alarm over five moments, one of which its date skips.
EXTENDS Alarms
=============================================================================
