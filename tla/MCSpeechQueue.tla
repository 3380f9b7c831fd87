---------------------------- MODULE MCSpeechQueue ----------------------------
\* The transcription queue on a few recordings.
EXTENDS SpeechQueue
=============================================================================
