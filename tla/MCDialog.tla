------------------------------ MODULE MCDialog ------------------------------
\* Questions and answers of two sessions within two units of time.
EXTENDS Dialog
=============================================================================
