--------------------------- MODULE MCQwenRuntime ---------------------------
\* Two builds, two shells and the supervised service.
EXTENDS QwenRuntime
=============================================================================
